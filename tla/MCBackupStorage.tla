--------------------------- MODULE MCBackupStorage ---------------------------
EXTENDS RestoreCli, TLC

MCFileNames == <<"database.dump", "SHA256SUMS">>
ReaderSymmetry == Permutations(Readers)
=============================================================================

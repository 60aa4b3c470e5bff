---------------------------- MODULE MCBackupJobs ----------------------------
(***************************************************************************)
(* Small instances of BackupJobs.  The workers are interchangeable, which  *)
(* the safety run uses.                                                    *)
(***************************************************************************)
EXTENDS BackupJobs, TLC

WorkerSymmetry == Permutations(Workers)
=============================================================================

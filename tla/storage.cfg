CONSTANTS
  FileNames <- MCFileNames
  Readers = {r1, r2}
  Kinds = {"local", "sftp", "s3"}
SPECIFICATION RestoreSpec
INVARIANTS TypeOK SucceededIsStored StagingLeftClean SuccessIsComplete
PROPERTIES ImplementsArtifactStore  UploadsFollowDatabase
SYMMETRY ReaderSymmetry
CHECK_DEADLOCK FALSE

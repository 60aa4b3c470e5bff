------------------------- MODULE MCBackupScheduler -------------------------
(***************************************************************************)
(* Small instances of BackupScheduler: all hazards together, the           *)
(* occurrence that an edit brings back, and the page of failures.          *)
(***************************************************************************)
EXTENDS BackupScheduler
=============================================================================

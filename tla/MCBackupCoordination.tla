------------------------ MODULE MCBackupCoordination ------------------------
(***************************************************************************)
(* Small instances of BackupCoordination: coordination.cfg keeps snapshots *)
(* and mutations shorter than the TTLs, coordination_expiry.cfg does not.  *)
(***************************************************************************)
EXTENDS BackupCoordination
=============================================================================

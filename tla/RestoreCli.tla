----------------------------- MODULE RestoreCli -----------------------------
(***************************************************************************)
(* The restore command: it verifies a published artifact, or the copy a    *)
(* restore preflight downloaded, and replaces the database and the uploads *)
(* by its contents.  Every step may fail and the process may be killed; an *)
(* operator may run the command again.  The API and the backup worker are  *)
(* stopped while it runs, as its help text demands.                        *)
(***************************************************************************)
EXTENDS BackupStorage

VARIABLES
  cli,       \* program counter of the command: "idle", one of its steps,
             \* "dryRun", "succeeded", "failed" or "killed"
  database,  \* "live", "broken" half-way through pg_restore, or "restored"
  uploads,   \* "live", "mixed" half-way through the exchange, or "restored"
  extracted, \* the staging directory inside the uploads root holds the archive
  migrated   \* prisma migrate deploy ran on the restored database

restoreVars == <<cli, database, uploads, extracted, migrated>>
allVars == <<vars, restoreVars>>

RestoreInit ==
  /\ Init
  /\ cli = "idle"
  /\ database = "live" /\ uploads = "live"
  /\ extracted = FALSE /\ migrated = FALSE

Ended == {"idle", "dryRun", "succeeded", "failed", "killed"}

\* The directory the command is pointed to.
Source == IF kind = "local" THEN final ELSE area["restore"].final.files

\* verifyBackupDirectory and verifyNativeArchives come first; a dry run ends
\* there, and so does a run without the confirmation of the backup id.  A run that
\* goes on starts with a new staging directory.
StartRestore ==
  /\ cli \in Ended
  /\ job # "running"
  /\ \A r \in Readers : reader[r].pc \in {"idle", "ready", "failed"}
  /\ IF Verifies(Source)
     THEN \/ cli' \in {"dryRun", "failed"} /\ UNCHANGED extracted
          \/ cli' = "extract" /\ extracted' = FALSE
     ELSE cli' = "failed" /\ UNCHANGED extracted
  /\ UNCHANGED <<vars, database, uploads, migrated>>

\* The finally block removes the staging directory.
Fail == cli' = "failed" /\ extracted' = FALSE

\* tar --extract into the staging directory, and assertTreeContainsNoLinks.
Extract ==
  /\ cli = "extract"
  /\ \/ cli' = "load" /\ extracted' = TRUE
     \/ Fail
  /\ UNCHANGED <<vars, database, uploads, migrated>>

\* Mutant of LoadDatabase: pg_restore without --exit-on-error.
LoadDatabaseCarryOn ==
  /\ cli = "load"
  /\ cli' = "replace" /\ database' \in {"broken", "restored"}
  /\ migrated' = FALSE
  /\ UNCHANGED <<vars, extracted, uploads>>

\* pg_restore --clean --exit-on-error, without a single transaction.
LoadDatabase ==
  /\ cli = "load"
  /\ \/ cli' = "replace" /\ database' = "restored" /\ UNCHANGED extracted
     \/ Fail /\ database' \in {database, "broken"}
  /\ migrated' = FALSE
  /\ UNCHANGED <<vars, uploads>>

\* replaceDirectoryContents removes every other entry and moves the new ones up.
ReplaceUploads ==
  /\ cli = "replace"
  /\ \/ cli' = "migrate" /\ uploads' = "restored" /\ extracted' = extracted
     \/ Fail /\ uploads' \in {uploads, "mixed"}
  /\ UNCHANGED <<vars, database, migrated>>

\* Mutant of Migrate: a failed migration is only logged.
MigrateIgnored ==
  /\ cli = "migrate"
  /\ cli' = "chown" /\ migrated' \in BOOLEAN
  /\ UNCHANGED <<vars, database, uploads, extracted>>

Migrate ==
  /\ cli = "migrate"
  /\ \/ cli' = "chown" /\ migrated' = TRUE /\ UNCHANGED extracted
     \/ Fail /\ UNCHANGED migrated
  /\ UNCHANGED <<vars, database, uploads>>

\* chownTree, the end of the try block and the success record.
ChownUploads ==
  /\ cli = "chown"
  /\ \/ cli' = "succeeded" /\ extracted' = FALSE
     \/ Fail
  /\ UNCHANGED <<vars, database, uploads, migrated>>

\* The process is killed, between two steps or inside one.
Kill ==
  /\ cli \notin Ended
  /\ cli' = "killed"
  /\ extracted' \in {extracted, cli = "extract"}
  /\ database' \in {database} \cup (IF cli = "load" THEN {"broken"} ELSE {})
  /\ uploads' \in {uploads} \cup (IF cli = "replace" THEN {"mixed"} ELSE {})
  /\ UNCHANGED <<vars, migrated>>

Restore ==
  \/ StartRestore \/ Extract \/ LoadDatabase \/ ReplaceUploads
  \/ Migrate \/ ChownUploads \/ Kill

\* From the first restore on, the worker is stopped.
RestoreNext ==
  \/ cli = "idle" /\ Next /\ UNCHANGED restoreVars
  \/ Restore

RestoreSpec == RestoreInit /\ [][RestoreNext]_allVars

-----------------------------------------------------------------------------
\* The uploads are touched only after pg_restore of the same run went through, and
\* neither they nor the database by anything but a verified, confirmed run: a
\* restore that cannot work leaves the installation as it was.
UploadsFollowDatabase ==
  [][/\ uploads' # uploads => database = "restored" /\ extracted
     /\ database' # database => Verifies(Source) /\ extracted]_allVars

\* A run that reports success has restored both halves and migrated the database,
\* also when an earlier run was interrupted anywhere.
SuccessIsComplete ==
  cli = "succeeded" =>
    database = "restored" /\ uploads = "restored" /\ migrated /\ ~extracted
=============================================================================

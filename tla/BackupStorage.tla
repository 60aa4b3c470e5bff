---------------------------- MODULE BackupStorage ----------------------------
(***************************************************************************)
(* The storage adapters of the backup worker: what publish, verify,        *)
(* download and delete do to one artifact at its destination, step by      *)
(* step, when any step may fail, content may arrive damaged and the        *)
(* worker may die.  A reader is an applyRetention or a restore preflight   *)
(* of some worker; two of them may work on the same artifact, because the  *)
(* directories they download into are named after the artifact.            *)
(*                                                                         *)
(* An artifact name holds a time stamp and the job id, so it is published  *)
(* at most once.  The seal is what makes an artifact visible: the COMPLETE *)
(* object of S3, the final directory name of a mount or of SFTP.           *)
(***************************************************************************)
EXTENDS Naturals, Sequences

CONSTANTS
  FileNames,    \* BACKUP_ARTIFACT_FILES, a sequence
  Readers,      \* applyRetention and restore preflight runs
  Kinds         \* the adapter types to explore

ASSUME StorageAssumption ==
  /\ Kinds \subseteq {"local", "sftp", "s3"}
  /\ Len(FileNames) \in Nat \ {0}

VARIABLES
  kind,       \* the type of the destination
  partial,    \* <artifact>.partial at the destination
  final,      \* <artifact> at the destination
  seal,       \* the artifact is visible
  pub,        \* the publisher: program counter and next file
  job,        \* what the job's row says of the artifact
  removal,    \* adapter.delete: "no", "running" or "over"
  area,       \* the local staging and restore directories
  reader,     \* the readers: program counter, next file, task and area
  died        \* a reader died half-way

vars == <<kind, partial, final, seal, pub, job, removal, area, reader, died>>
destVars == <<kind, partial, final, seal, removal>>
readVars == <<area, reader, died>>
writeVars == <<kind, partial, pub>>

Files == {FileNames[i] : i \in 1..Len(FileNames)}

\* "short" is a truncated file, "spoiled" one of the right size and wrong bytes.
Content == {"absent", "short", "spoiled", "whole"}
Directory == [Files -> Content]
Empty == [f \in Files |-> "absent"]
Without(dir, gone) == [f \in Files |-> IF f \in gone THEN "absent" ELSE dir[f]]

\* verifyBackupDirectory: every file is there and matches its checksum, and the
\* manifest's sizes and hashes match as well.
Verifies(dir) == \A f \in Files : dir[f] = "whole"

\* What the size comparison after an upload can tell.
FullSize(c) == c \in {"spoiled", "whole"}
Complete(dir) == \A f \in Files : FullSize(dir[f])

Absent == [present |-> FALSE, files |-> Empty]
Areas == {"staging", "restore"}

PubPC == {"transfer", "verify", "rename", "copy", "mark", "purge", "cleanPartial",
          "cleanFinal", "published", "failed", "dead", "abandoned"}
ReadPC == {"idle", "prepare", "make", "get", "finalize", "move", "check", "existing",
           "discard", "delete", "record", "ready", "failed"}
Publisher == [pc : PubPC, i : 1..Len(FileNames)]
Reader == [pc : ReadPC, i : 1..Len(FileNames), task : {"retention", "preflight"}, at : Areas]
Copy == [present : BOOLEAN, files : Directory]
Clean(copy) == ~copy.present => copy.files = Empty

TypeOK ==
  /\ kind \in Kinds
  /\ {partial, final} \subseteq Directory
  /\ seal \in BOOLEAN
  /\ pub \in Publisher
  /\ job \in {"running", "succeeded", "failed", "pruned"}
  /\ removal \in {"no", "running", "over"}
  /\ area \in [Areas -> [final : Copy, partial : Copy]]
  /\ \A a \in Areas : Clean(area[a].final) /\ Clean(area[a].partial)
  /\ reader \in [Readers -> Reader]
  /\ died \in BOOLEAN

Init ==
  /\ kind \in Kinds
  /\ partial = Empty /\ final = Empty
  /\ seal = FALSE
  /\ pub = [pc |-> "transfer", i |-> 1]
  /\ job = "running"
  /\ removal = "no"
  /\ area = [a \in Areas |-> [final |-> Absent, partial |-> Absent]]
  /\ reader = [r \in Readers |-> [pc |-> "idle", i |-> 1, task |-> "retention",
                                  at |-> "staging"]]
  /\ died = FALSE

-----------------------------------------------------------------------------
(* publish *)

PubGoto(pc) == pub' = [pc |-> pc, i |-> 1]

\* The catch blocks: S3 deletes both prefixes, the others their .partial.
GiveUp == PubGoto("cleanPartial")

\* The step after the last of a loop over the files.
Loop(pc, after) ==
  pub' = IF pub.i < Len(FileNames) THEN [pub EXCEPT !.i = @ + 1]
         ELSE [pc |-> after, i |-> 1]

\* Mutant of AfterTransfer: S3 writes the marker before it copies.
AfterTransferMarkerFirst ==
  CASE kind = "local" -> "verify"
    [] kind = "sftp"  -> "rename"
    [] kind = "s3"    -> "mark"

AfterTransfer ==
  CASE kind = "local" -> "verify"
    [] kind = "sftp"  -> "rename"
    [] kind = "s3"    -> "copy"

\* One file is copied or uploaded to .partial; the remote adapters then compare
\* its size with the local one.
TransferFile ==
  /\ pub.pc = "transfer"
  /\ \E c \in Content \ {"absent"} :
       /\ kind # "local" => FullSize(c)
       /\ partial' = [partial EXCEPT ![FileNames[pub.i]] = c]
  /\ Loop("transfer", AfterTransfer)
  /\ UNCHANGED <<kind, final, seal, job, removal, readVars>>

\* The transfer throws, or the size differs.
TransferFails ==
  /\ pub.pc = "transfer"
  /\ \E c \in {"absent", "short"} :
       partial' = [partial EXCEPT ![FileNames[pub.i]] = c]
  /\ GiveUp
  /\ UNCHANGED <<kind, final, seal, job, removal, readVars>>

\* Mutant of VerifyPartial: the mounted adapter publishes what it copied.
VerifyPartialSkipped ==
  /\ pub.pc = "verify"
  /\ PubGoto("rename")
  /\ UNCHANGED <<destVars, job, readVars>>

\* Only the mounted adapter reads its copy back before it publishes it.
VerifyPartial ==
  /\ pub.pc = "verify"
  /\ IF Verifies(partial) THEN PubGoto("rename") ELSE GiveUp
  /\ UNCHANGED <<destVars, job, readVars>>

RenameFinal ==
  /\ pub.pc = "rename"
  /\ final' = partial
  /\ partial' = Empty
  /\ seal' = TRUE
  /\ \/ PubGoto("published")
     \/ kind = "sftp" /\ PubGoto("failed") \* the connection is lost with the answer
  /\ UNCHANGED <<kind, job, removal, readVars>>

CopyFile ==
  /\ pub.pc = "copy"
  /\ final' = [final EXCEPT ![FileNames[pub.i]] = partial[FileNames[pub.i]]]
  /\ Loop("copy", "mark")
  /\ UNCHANGED <<kind, partial, seal, job, removal, readVars>>

\* PutObject of the COMPLETE marker, the answer of which may be lost.
PutMarker ==
  /\ pub.pc = "mark"
  /\ seal' = TRUE
  /\ PubGoto("purge") \/ GiveUp
  /\ UNCHANGED <<kind, partial, final, job, removal, readVars>>

\* deleteKeys: one DeleteObjects request.  It answers with a list of the keys it
\* could not delete, which nobody reads, so that any part of them may stay.
DeletePartialKeys ==
  /\ pub.pc = "purge"
  /\ \E gone \in SUBSET Files : partial' = Without(partial, gone)
  /\ PubGoto("published") \/ GiveUp
  /\ UNCHANGED <<kind, final, seal, job, removal, readVars>>

\* A rename, copy or PutObject that throws without an effect.
StepFails ==
  /\ pub.pc \in {"rename", "copy", "mark"}
  /\ GiveUp
  /\ UNCHANGED <<destVars, job, readVars>>

\* rm, sftpRemoveArtifact or deleteKeys of .partial; it may throw half-way.
CleanPartial ==
  /\ pub.pc = "cleanPartial"
  /\ \E gone \in SUBSET Files : partial' = Without(partial, gone)
  /\ PubGoto(IF kind = "s3" THEN "cleanFinal" ELSE "failed")
  /\ UNCHANGED <<kind, final, seal, job, removal, readVars>>

\* deleteKeys of the final prefix, errors ignored.
CleanFinal ==
  /\ pub.pc = "cleanFinal"
  /\ \E gone \in SUBSET Files : final' = Without(final, gone)
  /\ seal' \in {FALSE, seal}
  /\ PubGoto("failed")
  /\ UNCHANGED <<kind, partial, job, removal, readVars>>

\* markSucceeded, or markFailed when publish or markSucceeded throws.
RecordOutcome ==
  /\ job = "running"
  /\ \/ pub.pc = "published" /\ job' \in {"succeeded", "failed"}
     \/ pub.pc = "failed" /\ job' = "failed"
  /\ UNCHANGED <<destVars, pub, readVars>>

\* The worker dies: nothing cleans up and the job stays RUNNING.
WorkerDies ==
  /\ pub.pc \notin {"published", "failed", "dead", "abandoned"}
  /\ PubGoto(IF pub.pc \in {"cleanPartial", "cleanFinal"} THEN "abandoned" ELSE "dead")
  /\ UNCHANGED <<destVars, job, readVars>>

-----------------------------------------------------------------------------
(* verify and download *)

ReadGoto(r, pc) == reader' = [reader EXCEPT ![r].pc = pc, ![r].i = 1]
Here(r) == area[reader[r].at]
SetHere(r, part, value) == area' = [area EXCEPT ![reader[r].at][part] = value]

\* The artifact of a succeeded job expires, or an administrator prepares a
\* restore from it.
StartRead(r, task) ==
  /\ reader[r].pc \in {"idle", "ready", "failed"}
  /\ job = "succeeded"
  /\ reader' = [reader EXCEPT ![r] = [pc |-> IF kind = "local" THEN "check" ELSE "prepare",
                                      i |-> 1, task |-> task, at |-> "staging"]]
  /\ UNCHANGED <<writeVars, final, seal, job, removal, area, died>>

\* HEAD of the COMPLETE marker, and prepareDownloadDirectory's look for an earlier
\* copy, which is an error.
PrepareDownload(r) ==
  /\ reader[r].pc = "prepare"
  /\ IF (kind = "s3" => seal) /\ ~Here(r).final.present
     THEN ReadGoto(r, "make")
     ELSE ReadGoto(r, "failed")
  /\ UNCHANGED <<writeVars, final, seal, job, removal, area, died>>

\* A new .partial directory replaces whatever is there, also that of a reader
\* which is still filling it.
MakePartial(r) ==
  /\ reader[r].pc = "make"
  /\ SetHere(r, "partial", [present |-> TRUE, files |-> Empty])
  /\ ReadGoto(r, "get")
  /\ UNCHANGED <<writeVars, final, seal, job, removal, died>>

\* Mutant of GetFile: it does not care whether the directory is still there.
GetFileAnyway(r) ==
  LET f == FileNames[reader[r].i] IN
  /\ reader[r].pc = "get"
  /\ final[f] # "absent"
  /\ area' = [area EXCEPT ![reader[r].at].partial.files[f] = final[f]]
  /\ IF reader[r].i < Len(FileNames)
     THEN reader' = [reader EXCEPT ![r].i = @ + 1]
     ELSE ReadGoto(r, "finalize")
  /\ UNCHANGED <<writeVars, final, seal, job, removal, died>>

\* One file is fetched.  S3 creates it with "wx", SFTP overwrites it.
GetFile(r) ==
  LET f == FileNames[reader[r].i] IN
  /\ reader[r].pc = "get"
  /\ final[f] # "absent"
  /\ Here(r).partial.present
  /\ kind = "s3" => Here(r).partial.files[f] = "absent"
  /\ area' = [area EXCEPT ![reader[r].at].partial.files[f] = final[f]]
  /\ IF reader[r].i < Len(FileNames)
     THEN reader' = [reader EXCEPT ![r].i = @ + 1]
     ELSE ReadGoto(r, "finalize")
  /\ UNCHANGED <<writeVars, final, seal, job, removal, died>>

\* An error inside the try block removes .partial, whoever made it.
GetFails(r) ==
  /\ reader[r].pc = "get"
  /\ SetHere(r, "partial", Absent)
  /\ ReadGoto(r, "failed")
  /\ UNCHANGED <<writeVars, final, seal, job, removal, died>>

\* finalizeDownloadedDirectory: a directory that has appeared meanwhile is
\* returned as it is, otherwise .partial is verified.
FinalizeDownload(r) ==
  /\ reader[r].pc = "finalize"
  /\ \/ /\ Here(r).final.present
        /\ ReadGoto(r, "check")
        /\ UNCHANGED area
     \/ /\ ~Here(r).final.present
        /\ Verifies(Here(r).partial.files)
        /\ ReadGoto(r, "move")
        /\ UNCHANGED area
     \/ /\ ~Here(r).final.present
        /\ ~Verifies(Here(r).partial.files)
        /\ SetHere(r, "partial", Absent)
        /\ ReadGoto(r, "failed")
  /\ UNCHANGED <<writeVars, final, seal, job, removal, died>>

\* rename, which fails when .partial is gone or the name is taken.
MoveDownload(r) ==
  /\ reader[r].pc = "move"
  /\ IF Here(r).partial.present /\ ~Here(r).final.present
     THEN /\ area' = [area EXCEPT ![reader[r].at] =
                         [final |-> Here(r).partial, partial |-> Absent]]
          /\ ReadGoto(r, "check")
     ELSE /\ SetHere(r, "partial", Absent)
          /\ ReadGoto(r, "failed")
  /\ UNCHANGED <<writeVars, final, seal, job, removal, died>>

\* Mutant of FinishVerify: the copy is removed only when it verifies.
FinishVerifyNoFinally(r) ==
  /\ reader[r].pc = "check" /\ reader[r].at = "staging"
  /\ IF Verifies(IF kind = "local" THEN final ELSE area["staging"].final.files)
     THEN /\ ReadGoto(r, IF kind = "local" THEN "ready" ELSE "existing")
          /\ IF reader[r].task = "preflight" /\ kind # "local"
             THEN SetHere(r, "final", Absent) ELSE UNCHANGED area
     ELSE ReadGoto(r, "failed") /\ UNCHANGED area
  /\ UNCHANGED <<writeVars, final, seal, job, removal, died>>

\* The end of verify: the copy in staging, or the mounted artifact itself, is
\* checked against its checksums, and the copy removed.
FinishVerify(r) ==
  /\ reader[r].pc = "check" /\ reader[r].at = "staging"
  /\ IF Verifies(IF kind = "local" THEN final ELSE area["staging"].final.files)
     THEN IF reader[r].task = "retention"
          THEN ReadGoto(r, "delete") /\ removal' = "running"
          ELSE /\ ReadGoto(r, IF kind = "local" THEN "ready" ELSE "existing")
               /\ UNCHANGED removal
     ELSE ReadGoto(r, "failed") /\ UNCHANGED removal
  /\ IF kind = "local" THEN UNCHANGED area ELSE SetHere(r, "final", Absent)
  /\ UNCHANGED <<writeVars, final, seal, job, died>>

\* executeRestorePreflight looks for the copy of an earlier preflight.
FindExisting(r) ==
  /\ reader[r].pc = "existing"
  /\ reader' = [reader EXCEPT
       ![r].pc = IF Verifies(area["restore"].final.files) THEN "check" ELSE "discard",
       ![r].at = "restore"]
  /\ UNCHANGED <<writeVars, final, seal, job, removal, area, died>>

DiscardExisting(r) ==
  /\ reader[r].pc = "discard"
  /\ SetHere(r, "final", Absent)
  /\ ReadGoto(r, "prepare")
  /\ UNCHANGED <<writeVars, final, seal, job, removal, died>>

\* Mutant of FinishPreflight: what download returned is taken for whole.
FinishPreflightTrusting(r) ==
  /\ reader[r].pc = "check" /\ reader[r].at = "restore"
  /\ ReadGoto(r, "ready")
  /\ UNCHANGED <<writeVars, final, seal, job, removal, area, died>>

\* verifyBackupDirectory and verifyNativeArchives of the copy to restore from.
FinishPreflight(r) ==
  /\ reader[r].pc = "check" /\ reader[r].at = "restore"
  /\ ReadGoto(r, IF Verifies(area["restore"].final.files) THEN "ready" ELSE "failed")
  /\ UNCHANGED <<writeVars, final, seal, job, removal, area, died>>

\* The worker of a reader dies; a later run starts again.
ReaderDies(r) ==
  /\ reader[r].pc \notin {"idle", "ready", "failed"}
  /\ ReadGoto(r, "idle")
  /\ died' = TRUE
  /\ UNCHANGED <<writeVars, final, seal, job, removal, area>>

-----------------------------------------------------------------------------
(* delete *)

\* rm of a mounted directory, or the unlinks of sftpRemoveArtifact.
DeleteFile(r) ==
  /\ reader[r].pc = "delete" /\ kind # "s3"
  /\ seal
  /\ \E f \in Files :
       /\ kind = "sftp" => f = FileNames[reader[r].i]
       /\ final[f] # "absent"
       /\ final' = [final EXCEPT ![f] = "absent"]
  /\ IF reader[r].i < Len(FileNames)
     THEN reader' = [reader EXCEPT ![r].i = @ + 1]
     ELSE UNCHANGED reader
  /\ UNCHANGED <<writeVars, seal, job, removal, area, died>>

DeleteDirectory(r) ==
  /\ reader[r].pc = "delete" /\ kind # "s3"
  /\ seal /\ final = Empty
  /\ seal' = FALSE
  /\ removal' = "over"
  /\ ReadGoto(r, "record")
  /\ UNCHANGED <<writeVars, final, job, area, died>>

\* One DeleteObjects request for the files and the marker.
DeleteKeys(r) ==
  /\ reader[r].pc = "delete" /\ kind = "s3"
  /\ \E gone \in SUBSET Files : final' = Without(final, gone)
  /\ seal' \in {FALSE, seal}
  /\ removal' = "over"
  /\ ReadGoto(r, "record")
  /\ UNCHANGED <<writeVars, job, area, died>>

\* The directory or a file is missing, or the destination cannot be reached.
DeleteFails(r) ==
  /\ reader[r].pc = "delete"
  /\ ReadGoto(r, "failed")
  /\ UNCHANGED <<writeVars, final, seal, job, removal, area, died>>

\* The transaction that sets artifactPath to null, which may fail.
RecordPruned(r) ==
  /\ reader[r].pc = "record"
  /\ \/ job' = "pruned" /\ ReadGoto(r, "ready")
     \/ UNCHANGED job /\ ReadGoto(r, "failed")
  /\ UNCHANGED <<writeVars, final, seal, removal, area, died>>

-----------------------------------------------------------------------------
Publish ==
  \/ TransferFile \/ TransferFails \/ VerifyPartial \/ RenameFinal
  \/ CopyFile \/ PutMarker \/ DeletePartialKeys \/ StepFails
  \/ CleanPartial \/ CleanFinal \/ RecordOutcome \/ WorkerDies

Read(r) ==
  \/ \E task \in {"retention", "preflight"} : StartRead(r, task)
  \/ PrepareDownload(r) \/ MakePartial(r) \/ GetFile(r) \/ GetFails(r)
  \/ FinalizeDownload(r) \/ MoveDownload(r) \/ FinishVerify(r)
  \/ FindExisting(r) \/ DiscardExisting(r) \/ FinishPreflight(r)
  \/ ReaderDies(r)

Delete(r) ==
  \/ DeleteFile(r) \/ DeleteDirectory(r) \/ DeleteKeys(r)
  \/ DeleteFails(r) \/ RecordPruned(r)

Next == Publish \/ \E r \in Readers : Read(r) \/ Delete(r)

Spec == Init /\ [][Next]_vars

-----------------------------------------------------------------------------
(* Properties *)

Store == INSTANCE ArtifactStore WITH
  artifact <- IF ~seal THEN "none" ELSE IF Complete(final) THEN "stored" ELSE "remnant",
  removing <- removal # "no" \/ pub.pc \in {"cleanPartial", "cleanFinal", "failed", "abandoned"}

\* Whatever fails and wherever the worker dies, an artifact becomes visible at its
\* destination only with all its files in full size (rename of the finished
\* directory, COMPLETE after every copy), and loses them only after its removal
\* began: the adapters implement ArtifactStore.
ImplementsArtifactStore == Store!Spec

\* As long as no retention run has verified it for removal, the artifact of a
\* succeeded job is at its destination, complete, and on a mount identical to what
\* was created, since copyArtifactAtomically verified the copy.
SucceededIsStored ==
  job = "succeeded" /\ removal = "no" =>
    /\ seal /\ Complete(final)
    /\ kind = "local" => Verifies(final)

\* A restore preflight reports "ready" only while the copy it names is whole, also
\* when another preflight or a retention run uses the same directories.
ReadyIsRestorable ==
  [][\A r \in Readers :
       /\ reader'[r].pc = "ready" /\ reader[r].pc # "ready"
       /\ reader[r].task = "preflight"
       => Verifies(IF kind = "local" THEN final ELSE area["restore"].final.files)]_vars

\* When no reader died half-way, the readers leave no copy behind in the staging
\* directory, where it would make every later verify of the artifact fail
\* with BACKUP_ARTIFACT_EXISTS.
StagingLeftClean ==
  ~died /\ (\A r \in Readers : reader[r].pc \in {"idle", "ready", "failed"})
    => ~area["staging"].final.present
=============================================================================

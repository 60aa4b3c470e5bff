------------------------- MODULE BackupStorageProofs -------------------------
(***************************************************************************)
(* The storage adapters implement ArtifactStore and the restore command    *)
(* keeps its promises, for artifacts of any number of files and any number *)
(* of readers.  The refinement rests on what the publisher has achieved at *)
(* each of its steps (PublishInv) and on the fact that readers work only   *)
(* on published artifacts (ReadersInv).                                    *)
(***************************************************************************)
EXTENDS RestoreCli, TLAPS

\* Without and EXCEPT keep a directory a directory.
LEMMA DirectoryTyped ==
  /\ Empty \in Directory
  /\ \A dir \in Directory, gone \in SUBSET Files : Without(dir, gone) \in Directory
  /\ \A dir \in Directory, f \in Files, c \in Content : [dir EXCEPT ![f] = c] \in Directory
  /\ \A i \in 1..Len(FileNames) : FileNames[i] \in Files
  /\ Len(FileNames) \in Nat \ {0}
BY StorageAssumption DEF Directory, Empty, Without, Content, Files

\* The publisher keeps the types.
LEMMA PublishTypeStep ==
  ASSUME TypeOK, Publish
  PROVE  TypeOK'
<1> USE DirectoryTyped DEF TypeOK, Publisher, PubPC, readVars, destVars, PubGoto, GiveUp
<1>1. CASE TransferFile
  <2>1. AfterTransfer \in PubPC
    BY StorageAssumption DEF AfterTransfer
  <2>2. pub' \in Publisher
    BY <1>1, <2>1 DEF TransferFile, Loop
  <2>3. partial' \in Directory
    BY <1>1 DEF TransferFile, Directory
  <2> QED  BY <1>1, <2>2, <2>3 DEF TransferFile
<1>2. CASE TransferFails
  <2>1. partial' \in Directory
    BY <1>2 DEF TransferFails, Directory, Content
  <2> QED  BY <1>2, <2>1 DEF TransferFails
<1>3. CASE VerifyPartial
  BY <1>3 DEF VerifyPartial
<1>4. CASE RenameFinal
  BY <1>4 DEF RenameFinal
<1>5. CASE CopyFile
  <2>1. final' \in Directory
    BY <1>5 DEF CopyFile, Directory
  <2>2. pub' \in Publisher
    BY <1>5 DEF CopyFile, Loop
  <2> QED  BY <1>5, <2>1, <2>2 DEF CopyFile
<1>6. CASE PutMarker
  BY <1>6 DEF PutMarker
<1>7. CASE DeletePartialKeys
  BY <1>7 DEF DeletePartialKeys
<1>8. CASE StepFails
  BY <1>8 DEF StepFails
<1>9. CASE CleanPartial
  BY <1>9 DEF CleanPartial
<1>10. CASE CleanFinal
  <2>1. seal' \in BOOLEAN
    BY <1>10, Zenon DEF CleanFinal
  <2>2. final' \in Directory
    BY <1>10 DEF CleanFinal
  <2> QED  BY <1>10, <2>1, <2>2 DEF CleanFinal
<1>11. CASE RecordOutcome
  BY <1>11 DEF RecordOutcome
<1>12. CASE WorkerDies
  BY <1>12 DEF WorkerDies
<1> QED  BY <1>1, <1>2, <1>3, <1>4, <1>5, <1>6, <1>7, <1>8, <1>9, <1>10, <1>11, <1>12
         DEF Publish

\* The ways in which readers move on.
LEMMA ReaderTyped ==
  ASSUME TypeOK, NEW r \in Readers
  PROVE  /\ \A pc \in ReadPC : ReadGoto(r, pc) => reader' \in [Readers -> Reader]
         /\ reader[r].i < Len(FileNames) =>
              [reader EXCEPT ![r].i = @ + 1] \in [Readers -> Reader]
<1>1. Len(FileNames) \in Nat \ {0} /\ reader \in [Readers -> Reader]
  BY StorageAssumption DEF TypeOK
<1>2. ASSUME NEW pc \in ReadPC, ReadGoto(r, pc)
      PROVE  reader' \in [Readers -> Reader]
  <2>0. 1 \in 1..Len(FileNames) /\ reader[r] \in Reader
    BY <1>1
  <2>1. [reader[r] EXCEPT !.pc = pc, !.i = 1] \in Reader
    BY <2>0 DEF Reader
  <2>2. reader' = [reader EXCEPT ![r] = [reader[r] EXCEPT !.pc = pc, !.i = 1]]
    BY <1>1, <1>2 DEF ReadGoto
  <2> QED  BY <1>1, <2>1, <2>2
<1>3. ASSUME reader[r].i < Len(FileNames)
      PROVE  [reader EXCEPT ![r].i = @ + 1] \in [Readers -> Reader]
  <2>1. reader[r].i + 1 \in 1..Len(FileNames)
    BY <1>1, <1>3 DEF Reader
  <2> DEFINE n == reader[r].i + 1
  <2>2. n \in 1..Len(FileNames)
    BY <2>1
  <2> HIDE DEF n
  <2>3. [reader EXCEPT ![r].i = n] \in [Readers -> Reader]
    BY <1>1, <2>2 DEF Reader
  <2> QED  BY <2>3 DEF n
<1> QED  BY <1>2, <1>3

\* The ways in which the local directories change.
LEMMA AreaTyped ==
  ASSUME TypeOK, NEW r \in Readers
  PROVE  \A copy \in Copy :
           Clean(copy) /\ (SetHere(r, "final", copy) \/ SetHere(r, "partial", copy)) =>
              /\ area' \in [Areas -> [final : Copy, partial : Copy]]
              /\ \A a \in Areas : Clean(area'[a].final) /\ Clean(area'[a].partial)
<1> TAKE copy \in Copy
<1> HAVE Clean(copy) /\ (SetHere(r, "final", copy) \/ SetHere(r, "partial", copy))
<1>1. reader[r].at \in Areas
  BY DEF TypeOK, Reader
<1>2. CASE SetHere(r, "final", copy)
  BY <1>1, <1>2 DEF TypeOK, SetHere
<1>3. CASE SetHere(r, "partial", copy)
  BY <1>1, <1>3 DEF TypeOK, SetHere
<1> QED  BY <1>2, <1>3

\* A reader keeps the types.
LEMMA ReadTypeStep ==
  ASSUME TypeOK, NEW r \in Readers, Read(r)
  PROVE  TypeOK'
<1> DEFINE AreaOK ==
      /\ area \in [Areas -> [final : Copy, partial : Copy]]
      /\ \A a \in Areas : Clean(area[a].final) /\ Clean(area[a].partial)
<1>a. Absent \in Copy /\ Clean(Absent)
  BY DirectoryTyped DEF Absent, Copy, Clean
<1>b. reader[r] \in Reader /\ reader[r].at \in Areas /\ AreaOK
  BY DEF TypeOK, Reader
<1>c. ASSUME reader' \in [Readers -> Reader], AreaOK', removal' \in {"no", "running", "over"},
             died' \in BOOLEAN, UNCHANGED <<writeVars, final, seal, job>>
      PROVE  TypeOK'
  BY <1>c DEF TypeOK, writeVars
<1> USE ReaderTyped, AreaTyped, <1>a, <1>b, <1>c DEF ReadPC, writeVars
<1>u. ASSUME UNCHANGED area  PROVE AreaOK'
  BY <1>u
<1>t. removal \in {"no", "running", "over"} /\ died \in BOOLEAN
  BY DEF TypeOK
<1> HIDE DEF AreaOK
<1>1. CASE \E task \in {"retention", "preflight"} : StartRead(r, task)
  <2>1. reader' \in [Readers -> Reader]
    BY <1>1, DirectoryTyped DEF StartRead, Reader, Areas, TypeOK
  <2> QED  BY <1>1, <1>t, <1>u, <2>1 DEF StartRead
<1>2. CASE PrepareDownload(r)
  BY <1>2, <1>t, <1>u DEF PrepareDownload
<1>3. CASE MakePartial(r)
  <2>1. LET copy == [present |-> TRUE, files |-> Empty] IN copy \in Copy /\ Clean(copy)
    BY DirectoryTyped DEF Copy, Clean
  <2>2. AreaOK'
    BY <1>3, <2>1 DEF MakePartial, AreaOK
  <2> QED  BY <1>3, <1>t, <2>2 DEF MakePartial
<1>4. CASE GetFile(r)
  <2>1. reader' \in [Readers -> Reader]
    BY <1>4 DEF GetFile
  <2>2. AreaOK'
    <3> DEFINE f == FileNames[reader[r].i]
               old == area[reader[r].at].partial
               copy == [old EXCEPT !.files = [@ EXCEPT ![f] = final[f]]]
    <3>1. f \in Files /\ final[f] \in Content
      BY DirectoryTyped DEF TypeOK, Reader, Directory
    <3>2. old \in Copy /\ old.files \in Directory
      BY DEF AreaOK, Copy
    <3>3. copy \in Copy
      BY <3>1, <3>2, DirectoryTyped DEF Copy
    <3>4. Clean(copy)
      BY <1>4, <3>2 DEF GetFile, Here, Clean, Copy
    <3>5. SetHere(r, "partial", copy)
      BY <1>4, <3>1, <3>2 DEF GetFile, SetHere, AreaOK, Copy
    <3> QED  BY <3>3, <3>4, <3>5 DEF AreaOK
  <2> QED  BY <1>4, <1>t, <2>1, <2>2 DEF GetFile
<1>5. CASE GetFails(r)
  <2>1. AreaOK'
    BY <1>5 DEF GetFails, AreaOK
  <2> QED  BY <1>5, <1>t, <2>1 DEF GetFails
<1>6. CASE FinalizeDownload(r)
  <2>1. AreaOK'
    BY <1>6, <1>u DEF FinalizeDownload, AreaOK
  <2> QED  BY <1>6, <1>t, <2>1 DEF FinalizeDownload
<1>7. CASE MoveDownload(r)
  <2>1. CASE SetHere(r, "partial", Absent)
    BY <1>7, <1>t, <2>1 DEF MoveDownload, AreaOK
  <2>2. CASE ~SetHere(r, "partial", Absent)
    <3>1. AreaOK'
      BY <1>7, <2>2 DEF MoveDownload, AreaOK, Here, Clean
    <3> QED  BY <1>7, <1>t, <3>1 DEF MoveDownload
  <2> QED  BY <2>1, <2>2
<1>8. CASE FinishVerify(r)
  <2>1. AreaOK'
    BY <1>8, <1>u DEF FinishVerify, AreaOK
  <2> QED  BY <1>8, <1>t, <2>1 DEF FinishVerify
<1>9. CASE FindExisting(r)
  <2>1. reader' \in [Readers -> Reader]
    BY <1>9 DEF FindExisting, Reader, Areas, TypeOK
  <2> QED  BY <1>9, <1>t, <1>u, <2>1 DEF FindExisting
<1>10. CASE DiscardExisting(r)
  <2>1. AreaOK'
    BY <1>10 DEF DiscardExisting, AreaOK
  <2> QED  BY <1>10, <1>t, <2>1 DEF DiscardExisting
<1>11. CASE FinishPreflight(r)
  BY <1>11, <1>t, <1>u DEF FinishPreflight
<1>12. CASE ReaderDies(r)
  BY <1>12, <1>t, <1>u DEF ReaderDies
<1> QED  BY <1>1, <1>2, <1>3, <1>4, <1>5, <1>6, <1>7, <1>8, <1>9, <1>10, <1>11, <1>12
         DEF Read

\* Deleting keeps the types.
LEMMA DeleteTypeStep ==
  ASSUME TypeOK, NEW r \in Readers, Delete(r)
  PROVE  TypeOK'
<1>a. ASSUME reader' \in [Readers -> Reader], final' \in Directory, seal' \in BOOLEAN,
             removal' \in {"no", "running", "over"},
             job' \in {"running", "succeeded", "failed", "pruned"},
             UNCHANGED <<writeVars, area, died>>
      PROVE  TypeOK'
  BY <1>a DEF TypeOK, writeVars
<1>b. /\ final \in Directory /\ seal \in BOOLEAN /\ removal \in {"no", "running", "over"}
      /\ job \in {"running", "succeeded", "failed", "pruned"} /\ reader \in [Readers -> Reader]
  BY DEF TypeOK
<1> USE ReaderTyped, <1>a, <1>b DEF ReadPC
<1>1. CASE DeleteFile(r)
  <2>1. final' \in Directory
    BY <1>1 DEF DeleteFile, Directory, Content
  <2>2. reader' \in [Readers -> Reader]
    BY <1>1 DEF DeleteFile
  <2> QED  BY <1>1, <2>1, <2>2 DEF DeleteFile
<1>2. CASE DeleteDirectory(r)
  BY <1>2 DEF DeleteDirectory
<1>3. CASE DeleteKeys(r)
  <2>1. seal' \in BOOLEAN
    BY <1>3, Zenon DEF DeleteKeys
  <2>2. final' \in Directory
    BY <1>3, DirectoryTyped DEF DeleteKeys
  <2> QED  BY <1>3, <2>1, <2>2 DEF DeleteKeys
<1>4. CASE DeleteFails(r)
  BY <1>4 DEF DeleteFails
<1>5. CASE RecordPruned(r)
  BY <1>5 DEF RecordPruned
<1> QED  BY <1>1, <1>2, <1>3, <1>4, <1>5 DEF Delete

LEMMA TypeInit == Init => TypeOK
<1> SUFFICES ASSUME Init  PROVE TypeOK
  OBVIOUS
<1>1. Absent \in Copy /\ Clean(Absent)
  BY DirectoryTyped DEF Absent, Copy, Clean
<1>2. pub \in Publisher
  BY DirectoryTyped DEF Init, Publisher, PubPC
<1>3. reader \in [Readers -> Reader]
  BY DirectoryTyped DEF Init, Reader, ReadPC, Areas
<1>4. /\ area \in [Areas -> [final : Copy, partial : Copy]]
      /\ \A a \in Areas : Clean(area[a].final) /\ Clean(area[a].partial)
  BY <1>1 DEF Init
<1> QED  BY <1>2, <1>3, <1>4, DirectoryTyped DEF Init, TypeOK

LEMMA TypeStep == TypeOK /\ [Next]_vars => TypeOK'
<1> SUFFICES ASSUME TypeOK, [Next]_vars  PROVE TypeOK'
  OBVIOUS
<1>1. CASE UNCHANGED vars
  BY <1>1 DEF vars, TypeOK, Clean
<1> QED  BY <1>1, PublishTypeStep, ReadTypeStep, DeleteTypeStep DEF Next

\* The destination, the publisher, the local directories and the readers keep their types;
\* a directory that is not there has no files.
THEOREM TypeCorrect == Spec => []TypeOK
BY TypeInit, TypeStep, PTL DEF Spec

-----------------------------------------------------------------------------
Unsealed == {"transfer", "verify", "rename", "copy", "mark"}

\* What the publisher has achieved at each of its steps.
PublishInv ==
  /\ pub.pc \in Unsealed => ~seal
  /\ pub.pc = "transfer" /\ kind # "local" =>
       \A j \in 1..(pub.i - 1) : FullSize(partial[FileNames[j]])
  /\ pub.pc = "rename" => Complete(partial) /\ (kind = "local" => Verifies(partial))
  /\ pub.pc = "copy" => /\ Complete(partial)
                       /\ \A j \in 1..(pub.i - 1) : FullSize(final[FileNames[j]])
  /\ pub.pc = "verify" => kind = "local"
  /\ pub.pc \in {"copy", "mark", "purge"} => kind = "s3"
  /\ pub.pc = "mark" => Complete(final)
  /\ pub.pc = "purge" => seal /\ Complete(final)
  /\ pub.pc = "published" /\ removal = "no" =>
       seal /\ Complete(final) /\ (kind = "local" => Verifies(final))

\* Readers work on published artifacts, and delete only what is marked for removal.
ReadersInv ==
  /\ pub.pc # "published" =>
       /\ removal = "no" /\ job \in {"running", "failed"}
       /\ \A r \in Readers : reader[r].pc = "idle"
  /\ \A r \in Readers :
       /\ reader[r].pc = "delete" => removal # "no"
       /\ reader[r].pc \in {"delete", "record"} => reader[r].task = "retention"

\* A mounted artifact is read in place; elsewhere, whoever has a copy in the staging
\* directory is about to check and remove it.
StagingInv ==
  /\ kind = "local" =>
       /\ ~area["staging"].final.present
       /\ \A r \in Readers :
            /\ reader[r].at = "staging"
            /\ reader[r].pc \notin {"prepare", "make", "get", "finalize", "move",
                                    "existing", "discard"}
  /\ ~died /\ area["staging"].final.present =>
       \E r \in Readers : reader[r].pc = "check" /\ reader[r].at = "staging"

StorageInv == TypeOK /\ PublishInv /\ ReadersInv /\ StagingInv

LEMMA InvInit == Init => StorageInv
<1> SUFFICES ASSUME Init  PROVE StorageInv
  OBVIOUS
<1>1. pub.i = 1 /\ pub.pc = "transfer" /\ ~seal
  BY DEF Init
<1> QED  BY <1>1, TypeInit DEF Init, StorageInv, PublishInv, ReadersInv, StagingInv, Absent, Areas

\* A loop over the files that has done one more file, or all of them.
LEMMA LoopDone ==
  ASSUME TypeOK, NEW dir \in Directory, NEW from, NEW after,
         Loop(from, after), from = pub.pc, from # after,
         \A j \in 1..(pub.i - 1) : FullSize(dir[FileNames[j]]),
         FullSize(dir[FileNames[pub.i]])
  PROVE  /\ pub'.pc = from => \A j \in 1..(pub'.i - 1) : FullSize(dir[FileNames[j]])
         /\ pub'.pc # from => pub'.pc = after /\ Complete(dir)
<1>1. pub.i \in 1..Len(FileNames) /\ pub \in Publisher
  BY DEF TypeOK, Publisher
<1>2. \A j \in 1..pub.i : FullSize(dir[FileNames[j]])
  BY <1>1, DirectoryTyped
<1>3. CASE pub.i < Len(FileNames)
  <2>1. pub'.i = pub.i + 1 /\ pub'.pc = pub.pc
    BY <1>1, <1>3 DEF Loop, Publisher
  <2> QED  BY <1>1, <1>2, <2>1, DirectoryTyped
<1>4. CASE pub.i = Len(FileNames)
  <2>1. pub'.pc = after
    BY <1>4, <1>1, DirectoryTyped DEF Loop
  <2> QED  BY <1>2, <1>4, <2>1 DEF Complete, Files
<1> QED  BY <1>1, <1>3, <1>4, DirectoryTyped

\* The publisher keeps what it has achieved.
LEMMA PublishKeepsPublishInv ==
  ASSUME StorageInv, Publish
  PROVE  PublishInv'
<1> USE DEF StorageInv, PublishInv, ReadersInv, Unsealed, readVars, destVars, PubGoto, GiveUp
<1>a. pub \in Publisher /\ pub.i \in 1..Len(FileNames) /\ FileNames[pub.i] \in Files
  BY DirectoryTyped DEF TypeOK, Publisher
<1>1. CASE TransferFile
  <2>1. CASE kind = "local"
    <3>1. pub'.pc \in {"transfer", "verify"}
      BY <1>1, <1>a, <2>1 DEF TransferFile, Loop, AfterTransfer, Publisher
    <3> QED  BY <1>1, <2>1, <3>1 DEF TransferFile
  <2>2. CASE kind # "local"
    <3> PICK c \in Content \ {"absent"} :
          FullSize(c) /\ partial' = [partial EXCEPT ![FileNames[pub.i]] = c]
      BY <1>1, <2>2 DEF TransferFile
    <3>1. partial' \in Directory /\ \A f \in Files : FullSize(partial[f]) => FullSize(partial'[f])
      BY <1>a DEF TypeOK, Directory
    <3>2. FullSize(partial'[FileNames[pub.i]])
      BY <1>a DEF TypeOK, Directory
    <3>3. \A j \in 1..(pub.i - 1) : FullSize(partial'[FileNames[j]])
      BY <1>1, <1>a, <2>2, <3>1, DirectoryTyped DEF TransferFile
    <3>4. AfterTransfer = (IF kind = "sftp" THEN "rename" ELSE "copy") /\ kind \in {"sftp", "s3"}
      BY <2>2, StorageAssumption DEF AfterTransfer, TypeOK
    <3>5. /\ pub'.pc = "transfer" => \A j \in 1..(pub'.i - 1) : FullSize(partial'[FileNames[j]])
          /\ pub'.pc # "transfer" => pub'.pc = AfterTransfer /\ Complete(partial')
      <4>1. pub.pc = "transfer" /\ Loop("transfer", AfterTransfer) /\ AfterTransfer # "transfer"
        BY <1>1, <3>4 DEF TransferFile
      <4> QED  BY <3>1, <3>2, <3>3, <4>1, LoopDone
    <3>6. pub'.pc = "copy" => pub'.i = 1
      BY <1>1, <1>a DEF TransferFile, Loop, Publisher
    <3> QED  BY <1>1, <2>2, <3>4, <3>5, <3>6 DEF TransferFile, Complete
  <2> QED  BY <2>1, <2>2
<1>2. CASE TransferFails
  BY <1>2 DEF TransferFails
<1>3. CASE VerifyPartial
  <2>1. Verifies(partial) => Complete(partial)
    BY DEF Verifies, Complete, FullSize
  <2> QED  BY <1>3, <2>1 DEF VerifyPartial, Verifies, Complete
<1>4. CASE RenameFinal
  BY <1>4 DEF RenameFinal, Complete, Verifies
<1>5. CASE CopyFile
  <2>1. FullSize(partial[FileNames[pub.i]])
    BY <1>5, <1>a DEF CopyFile, Complete
  <2>2. final' \in Directory /\ \A f \in Files : FullSize(final[f]) => FullSize(final'[f])
    BY <1>5, <1>a, <2>1 DEF CopyFile, TypeOK, Directory
  <2>3. FullSize(final'[FileNames[pub.i]])
    BY <1>5, <1>a, <2>1 DEF CopyFile, TypeOK, Directory
  <2>4. \A j \in 1..(pub.i - 1) : FullSize(final'[FileNames[j]])
    BY <1>5, <1>a, <2>2, DirectoryTyped DEF CopyFile
  <2>5. /\ pub'.pc = "copy" => \A j \in 1..(pub'.i - 1) : FullSize(final'[FileNames[j]])
        /\ pub'.pc # "copy" => pub'.pc = "mark" /\ Complete(final')
    BY <1>5, <2>2, <2>3, <2>4, LoopDone DEF CopyFile
  <2> QED  BY <1>5, <2>5 DEF CopyFile, Complete
<1>6. CASE PutMarker
  BY <1>6 DEF PutMarker, Complete
<1>7. CASE DeletePartialKeys
  BY <1>7 DEF DeletePartialKeys, Complete
<1>8. CASE StepFails
  BY <1>8 DEF StepFails
<1>9. CASE CleanPartial
  BY <1>9 DEF CleanPartial
<1>10. CASE CleanFinal
  BY <1>10 DEF CleanFinal
<1>11. CASE RecordOutcome
  BY <1>11 DEF RecordOutcome, Complete, Verifies
<1>12. CASE WorkerDies
  BY <1>12 DEF WorkerDies
<1> QED  BY <1>1, <1>2, <1>3, <1>4, <1>5, <1>6, <1>7, <1>8, <1>9, <1>10, <1>11, <1>12
         DEF Publish

\* Before it has published, the publisher is alone; afterwards it only records the outcome.
LEMMA PublishKeepsReaders ==
  ASSUME StorageInv, Publish
  PROVE  ReadersInv' /\ StagingInv'
<1> USE DEF StorageInv, ReadersInv, readVars, destVars, PubGoto, GiveUp
<1>1. UNCHANGED <<kind, removal, area, reader, died>>
  BY DEF Publish, TransferFile, TransferFails, VerifyPartial, RenameFinal, CopyFile, PutMarker,
         DeletePartialKeys, StepFails, CleanPartial, CleanFinal, RecordOutcome, WorkerDies
<1>2. pub.pc # "published" => job' \in {"running", "failed"}
  BY DEF Publish, TransferFile, TransferFails, VerifyPartial, RenameFinal, CopyFile, PutMarker,
         DeletePartialKeys, StepFails, CleanPartial, CleanFinal, RecordOutcome, WorkerDies
<1>3. pub.pc = "published" => pub' = pub
  BY DEF Publish, TransferFile, TransferFails, VerifyPartial, RenameFinal, CopyFile, PutMarker,
         DeletePartialKeys, StepFails, CleanPartial, CleanFinal, RecordOutcome, WorkerDies
<1> QED  BY <1>1, <1>2, <1>3 DEF StagingInv

\* The reader uses no copy of its own.
InPlace(r) ==
  /\ reader[r].at = "staging"
  /\ reader[r].pc \in {"check", "delete", "record", "ready", "failed", "idle"}

\* A step of a reader moves that reader alone, announces a removal before it deletes, is
\* "ready" only by a check, and reads a mounted artifact in place.
LEMMA ReaderMoves ==
  ASSUME TypeOK, NEW r \in Readers, Read(r)
  PROVE  /\ \A q \in Readers \ {r} : reader'[q] = reader[q]
         /\ reader'[r].pc = "delete" => removal' # "no" /\ reader'[r].task = "retention"
         /\ reader'[r].pc # "record"
         /\ removal # "no" => removal' # "no"
         /\ reader'[r].pc = "ready" => FinishVerify(r) \/ FinishPreflight(r)
         /\ kind = "local" /\ InPlace(r) => UNCHANGED area /\ InPlace(r)'
<1> USE DEF writeVars, ReadGoto, SetHere, Here
<1>t. reader \in [Readers -> Reader] /\ reader[r] \in Reader
  BY DEF TypeOK
<1>1. ASSUME NEW task \in {"retention", "preflight"}, StartRead(r, task)
      PROVE  /\ \A q \in Readers \ {r} : reader'[q] = reader[q]
             /\ reader'[r].pc = "delete" => removal' # "no" /\ reader'[r].task = "retention"
             /\ reader'[r].pc # "record"
             /\ removal # "no" => removal' # "no"
             /\ reader'[r].pc = "ready" => FinishVerify(r) \/ FinishPreflight(r)
             /\ kind = "local" /\ InPlace(r) => UNCHANGED area /\ InPlace(r)'
  BY <1>t, <1>1 DEF StartRead, InPlace
<1>2. CASE PrepareDownload(r)
  BY <1>t, <1>2 DEF PrepareDownload, InPlace, Reader
<1>3. CASE MakePartial(r)
  BY <1>t, <1>3 DEF MakePartial, InPlace, Reader
<1>4. CASE GetFile(r)
  BY <1>t, <1>4 DEF GetFile, InPlace, Reader
<1>5. CASE GetFails(r)
  BY <1>t, <1>5 DEF GetFails, InPlace, Reader
<1>6. CASE FinalizeDownload(r)
  BY <1>t, <1>6 DEF FinalizeDownload, InPlace, Reader
<1>7. CASE MoveDownload(r)
  BY <1>t, <1>7 DEF MoveDownload, InPlace, Reader
<1>8. CASE FinishVerify(r)
  BY <1>t, <1>8 DEF FinishVerify, InPlace, Reader
<1>9. CASE FindExisting(r)
  BY <1>t, <1>9 DEF FindExisting, InPlace, Reader
<1>10. CASE DiscardExisting(r)
  BY <1>t, <1>10 DEF DiscardExisting, InPlace, Reader
<1>11. CASE FinishPreflight(r)
  BY <1>t, <1>11 DEF FinishPreflight, InPlace, Reader
<1>12. CASE ReaderDies(r)
  BY <1>t, <1>12 DEF ReaderDies, InPlace, Reader
<1> QED  BY <1>1, <1>2, <1>3, <1>4, <1>5, <1>6, <1>7, <1>8, <1>9, <1>10, <1>11, <1>12 DEF Read

\* Reading leaves the destination alone, except that retention announces a removal.
LEMMA ReadKeepsInv ==
  ASSUME StorageInv, NEW r \in Readers, Read(r)
  PROVE  PublishInv' /\ ReadersInv' /\ StagingInv'
<1> USE DEF writeVars, ReadGoto, SetHere, Here
<1>0. TypeOK /\ PublishInv /\ ReadersInv /\ StagingInv
  BY DEF StorageInv
<1>1. /\ UNCHANGED <<kind, partial, final, seal, pub, job>> /\ pub.pc = "published"
      /\ removal' = removal \/ removal' = "running"
  BY <1>0 DEF Read, StartRead, PrepareDownload, MakePartial, GetFile, GetFails, FinalizeDownload,
         MoveDownload, FinishVerify, FindExisting, DiscardExisting, FinishPreflight,
         ReaderDies, ReadersInv
<1>2. PublishInv'
  BY <1>0, <1>1 DEF PublishInv, Unsealed, Complete, Verifies
<1>t. reader \in [Readers -> Reader] /\ reader[r] \in Reader /\ reader[r].at \in Areas
  BY <1>0 DEF TypeOK, Reader
<1>3. /\ \A q \in Readers \ {r} : reader'[q] = reader[q]
      /\ reader'[r].pc = "delete" => removal' # "no" /\ reader'[r].task = "retention"
      /\ reader'[r].pc # "record"
      /\ removal # "no" => removal' # "no"
  BY <1>0, ReaderMoves
<1>4. ReadersInv'
  BY <1>0, <1>1, <1>3 DEF ReadersInv
<1>5. CASE kind = "local"
  <2>1. /\ UNCHANGED area
        /\ reader'[r].at = "staging"
        /\ reader'[r].pc \in {"check", "delete", "record", "ready", "failed", "idle"}
    <3>1. InPlace(r)
      BY <1>0, <1>5, <1>t DEF StagingInv, InPlace, Reader, ReadPC
    <3> QED  BY <1>0, <1>5, <3>1, ReaderMoves DEF InPlace
  <2>2. StagingInv'
    BY <1>0, <1>1, <1>3, <1>5, <2>1 DEF StagingInv
  <2> QED  BY <1>2, <1>4, <2>2
<1>6. CASE kind # "local"
  <2> SUFFICES StagingInv'
    BY <1>2, <1>4
  <2> DEFINE Checking(q) == reader[q].pc = "check" /\ reader[q].at = "staging"
             Copied == area["staging"].final.present
  <2>1. {area, area'} \subseteq [Areas -> [final : Copy, partial : Copy]]
    BY <1>0, ReadTypeStep DEF TypeOK
  <2>2. CASE ReaderDies(r)
    BY <1>1, <1>6, <2>2 DEF ReaderDies, StagingInv
  <2>3. CASE FinishVerify(r)
    <3>1. ~Copied'
      BY <1>6, <1>t, <2>1, <2>3 DEF FinishVerify, Absent, Areas, Copy
    <3> QED  BY <1>1, <1>6, <3>1 DEF StagingInv
  <2>4. CASE MoveDownload(r)
    <3>1. Copied' => Copied \/ Checking(r)'
      BY <1>t, <2>1, <2>4, SMTT(30) DEF MoveDownload, Areas, Reader
    <3>2. ~Checking(r) /\ UNCHANGED died
      BY <2>4 DEF MoveDownload
    <3> QED  BY <1>0, <1>1, <1>3, <1>6, <3>1, <3>2 DEF StagingInv
  <2>5. CASE ~ReaderDies(r) /\ ~FinishVerify(r) /\ ~MoveDownload(r)
    <3>1. Copied' => Copied
      <4>1. CASE UNCHANGED area
        BY <4>1
      <4>2. CASE GetFile(r)
        BY <1>t, <2>1, <4>2 DEF GetFile, Areas
      <4>3. CASE MakePartial(r)
        BY <1>t, <2>1, <4>3 DEF MakePartial, Absent, Areas, Copy
      <4>4. CASE GetFails(r)
        BY <1>t, <2>1, <4>4 DEF GetFails, Absent, Areas, Copy
      <4>5. CASE FinalizeDownload(r)
        BY <1>t, <2>1, <4>5 DEF FinalizeDownload, Absent, Areas, Copy
      <4>6. CASE DiscardExisting(r)
        BY <1>t, <2>1, <4>6 DEF DiscardExisting, Absent, Areas, Copy
      <4> QED
        BY <2>5, <4>1, <4>2, <4>3, <4>4, <4>5, <4>6
        DEF Read, StartRead, PrepareDownload, FindExisting, FinishPreflight
    <3>2. ~Checking(r) /\ UNCHANGED died
      BY <2>5 DEF Read, StartRead, PrepareDownload, MakePartial, GetFile,
         GetFails, FinalizeDownload, FindExisting, DiscardExisting, FinishPreflight
    <3> QED  BY <1>0, <1>1, <1>3, <1>6, <3>1, <3>2 DEF StagingInv
  <2> QED  BY <2>2, <2>3, <2>4, <2>5
<1> QED  BY <1>5, <1>6

\* Deleting happens after the removal was announced, when nothing is promised any more.
LEMMA DeleteKeepsInv ==
  ASSUME StorageInv, NEW r \in Readers, Delete(r)
  PROVE  PublishInv' /\ ReadersInv' /\ StagingInv'
<1> USE DEF writeVars, ReadGoto
<1>0. TypeOK /\ PublishInv /\ ReadersInv /\ StagingInv
  BY DEF StorageInv
<1>1. /\ UNCHANGED <<kind, partial, pub, area, died>> /\ pub.pc = "published"
      /\ removal' # removal => removal' = "over"
  BY <1>0 DEF Delete, DeleteFile, DeleteDirectory, DeleteKeys, DeleteFails, RecordPruned, ReadersInv
<1>2. UNCHANGED <<final, seal>> \/ (removal # "no" /\ removal' # "no")
  BY <1>0 DEF Delete, DeleteFile, DeleteDirectory, DeleteKeys, DeleteFails, RecordPruned, ReadersInv
<1>3. PublishInv'
  BY <1>0, <1>1, <1>2 DEF PublishInv, Unsealed, Complete, Verifies
<1>4. reader \in [Readers -> Reader] /\ reader[r] \in Reader
  BY <1>0 DEF TypeOK
<1>5. /\ \A q \in Readers \ {r} : reader'[q] = reader[q]
      /\ reader[r].pc \in {"delete", "record"}
      /\ reader'[r].pc \in {"delete", "record", "ready", "failed"}
      /\ reader'[r].pc = "delete" => reader[r].pc = "delete"
      /\ reader'[r].task = reader[r].task /\ reader'[r].at = reader[r].at
  <2>1. CASE DeleteFile(r)
    <3>1. UNCHANGED reader \/ reader' = [reader EXCEPT ![r].i = @ + 1]
      BY <2>1 DEF DeleteFile
    <3>2. reader[r].pc = "delete"
      BY <2>1 DEF DeleteFile
    <3> QED  BY <1>4, <3>1, <3>2 DEF Reader
  <2>2. CASE ~DeleteFile(r)
    <3>1. PICK pc \in {"record", "ready", "failed"} :
            reader' = [reader EXCEPT ![r].pc = pc, ![r].i = 1]
      BY <2>2 DEF Delete, DeleteDirectory, DeleteKeys, DeleteFails, RecordPruned
    <3>2. reader[r].pc \in {"delete", "record"}
      BY <2>2 DEF Delete, DeleteDirectory, DeleteKeys, DeleteFails, RecordPruned
    <3> QED  BY <1>4, <3>1, <3>2 DEF Reader
  <2> QED  BY <2>1, <2>2
<1>6. ReadersInv'
  BY <1>0, <1>1, <1>5 DEF ReadersInv
<1>7. StagingInv'
  BY <1>0, <1>1, <1>5 DEF StagingInv
<1> QED  BY <1>3, <1>6, <1>7

LEMMA InvStep == StorageInv /\ [Next]_vars => StorageInv'
<1> SUFFICES ASSUME StorageInv, [Next]_vars  PROVE StorageInv'
  OBVIOUS
<1>1. TypeOK'
  BY TypeStep DEF StorageInv
<1>2. CASE Publish
  BY <1>1, <1>2, PublishKeepsPublishInv, PublishKeepsReaders DEF StorageInv
<1>3. CASE \E r \in Readers : Read(r) \/ Delete(r)
  BY <1>1, <1>3, ReadKeepsInv, DeleteKeepsInv DEF StorageInv
<1>4. CASE UNCHANGED vars
  BY <1>1, <1>4 DEF vars, StorageInv, PublishInv, ReadersInv, StagingInv, Unsealed, Complete,
                    Verifies
<1> QED  BY <1>2, <1>3, <1>4 DEF Next

\* The inductive invariant of the storage adapters, for any number of files and readers.
THEOREM StorageInvariant == Spec => []StorageInv
BY InvInit, InvStep, PTL DEF Spec

\* As long as no retention run has verified it for removal, the artifact of a succeeded job
\* is at its destination, complete, and on a mount identical to what was created.
THEOREM SucceededStored == Spec => []SucceededIsStored
<1>1. StorageInv => SucceededIsStored
  BY DEF StorageInv, PublishInv, ReadersInv, SucceededIsStored
<1> QED  BY <1>1, StorageInvariant, PTL

\* When no reader died half-way, the readers leave no copy behind in the staging directory.
THEOREM StagingClean == Spec => []StagingLeftClean
<1>1. StorageInv => StagingLeftClean
  BY DEF StorageInv, StagingInv, StagingLeftClean
<1> QED  BY <1>1, StorageInvariant, PTL

\* A restore preflight reports "ready" only while the copy it names is whole, whatever other
\* readers do to the directories they share.
THEOREM ReadyRestorable == Spec => ReadyIsRestorable
<1> DEFINE Whole == Verifies(IF kind = "local" THEN final ELSE area["restore"].final.files)
           Ready(r) == /\ reader'[r].pc = "ready" /\ reader[r].pc # "ready"
                       /\ reader[r].task = "preflight"
<1>1. ASSUME StorageInv, Next, NEW r \in Readers, Ready(r)
      PROVE  Whole
  <2>0. TypeOK /\ ReadersInv /\ StagingInv /\ reader \in [Readers -> Reader]
    BY <1>1 DEF StorageInv, TypeOK
  <2>1. ~Publish
    BY <1>1 DEF Publish, TransferFile, TransferFails, VerifyPartial, RenameFinal, CopyFile,
           PutMarker, DeletePartialKeys, StepFails, CleanPartial, CleanFinal, RecordOutcome,
           WorkerDies, readVars
  <2>2. PICK q \in Readers : Read(q) \/ Delete(q)
    BY <1>1, <2>1 DEF Next
  <2>3. ~Delete(q)
    BY <1>1, <2>0 DEF Delete, DeleteFile, DeleteDirectory, DeleteKeys, DeleteFails, RecordPruned,
           ReadersInv, ReadGoto, Reader
  <2>4. q = r /\ (FinishVerify(r) \/ FinishPreflight(r))
    BY <1>1, <2>0, <2>2, <2>3, ReaderMoves
  <2>5. CASE FinishVerify(r)
    BY <1>1, <2>0, <2>5 DEF FinishVerify, ReadGoto, Reader
  <2>6. CASE FinishPreflight(r)
    BY <1>1, <2>0, <2>6 DEF FinishPreflight, ReadGoto, Reader, StagingInv
  <2> QED  BY <2>4, <2>5, <2>6
<1>2. StorageInv /\ [Next]_vars =>
        [\A r \in Readers : Ready(r) => Whole]_vars
  BY <1>1
<1> QED  BY <1>2, StorageInvariant, PTL DEF Spec, ReadyIsRestorable

-----------------------------------------------------------------------------
(* The refinement *)

\* The state of ArtifactStore that a state of the adapters stands for.
Artifact == IF ~seal THEN "none" ELSE IF Complete(final) THEN "stored" ELSE "remnant"
GivenUp == {"cleanPartial", "cleanFinal", "failed", "abandoned"}
Removing == removal # "no" \/ pub.pc \in GivenUp

LEMMA StoreInit == Init => Store!Init
BY DEF Init, Store!Init

\* A step of the publisher is Publish or BeginRemoval of the store, an erosion by the
\* publisher that gives up, or none of its business.
LEMMA PublisherRefines ==
  ASSUME StorageInv, Publish
  PROVE  \/ UNCHANGED <<Artifact, Removing>>
         \/ Artifact = "none" /\ ~Removing /\ Artifact' = "stored"
         \/ ~Removing /\ Removing' /\ UNCHANGED Artifact
         \/ Removing /\ Removing' /\ Artifact # "none" /\ Artifact' \in {"remnant", "none"}
<1> USE DEF StorageInv, PublishInv, ReadersInv, Unsealed, readVars, destVars, PubGoto, GiveUp,
            Artifact, Removing, GivenUp
<1>1. CASE TransferFile
  <2>1. pub'.pc \notin GivenUp
    BY <1>1, StorageAssumption DEF TransferFile, Loop, AfterTransfer, TypeOK, Publisher
  <2> QED  BY <1>1, <2>1 DEF TransferFile
<1>2. CASE TransferFails
  BY <1>2 DEF TransferFails, Complete
<1>3. CASE VerifyPartial
  BY <1>3 DEF VerifyPartial, Complete
<1>4. CASE RenameFinal
  BY <1>4 DEF RenameFinal, Complete
<1>5. CASE CopyFile
  <2>1. pub'.pc \notin GivenUp
    BY <1>5 DEF CopyFile, Loop, TypeOK, Publisher
  <2> QED  BY <1>5, <2>1 DEF CopyFile
<1>6. CASE PutMarker
  BY <1>6 DEF PutMarker, Complete
<1>7. CASE DeletePartialKeys
  BY <1>7 DEF DeletePartialKeys, Complete
<1>8. CASE StepFails
  BY <1>8 DEF StepFails, Complete
<1>9. CASE CleanPartial
  BY <1>9 DEF CleanPartial, Complete
<1>10. CASE CleanFinal
  <2>1. PICK gone \in SUBSET Files : final' = Without(final, gone)
    BY <1>10 DEF CleanFinal
  <2>2. Complete(final') => Complete(final)
    BY <2>1 DEF Without, Complete, FullSize
  <2>3. seal' => seal
    BY <1>10, Zenon DEF CleanFinal
  <2>4. pub.pc = "cleanFinal" /\ pub'.pc = "failed"
    BY <1>10 DEF CleanFinal
  <2> QED  BY <2>2, <2>3, <2>4
<1>11. CASE RecordOutcome
  BY <1>11 DEF RecordOutcome, Complete
<1>12. CASE WorkerDies
  BY <1>12 DEF WorkerDies, Complete
<1> QED  BY <1>1, <1>2, <1>3, <1>4, <1>5, <1>6, <1>7, <1>8, <1>9, <1>10, <1>11, <1>12
         DEF Publish

\* A reader announces a removal, or erodes what is announced.
LEMMA ReaderRefines ==
  ASSUME StorageInv, NEW r \in Readers, Read(r) \/ Delete(r)
  PROVE  \/ UNCHANGED <<Artifact, Removing>>
         \/ ~Removing /\ Removing' /\ UNCHANGED Artifact
         \/ Removing /\ Removing' /\ Artifact # "none" /\ Artifact' \in {"remnant", "none"}
<1> USE DEF StorageInv, ReadersInv, writeVars, Artifact, Removing, GivenUp
<1>1. CASE Read(r)
  <2>1. /\ UNCHANGED <<final, seal, pub>>
        /\ removal' = removal \/ removal' = "running"
    BY <1>1 DEF Read, StartRead, PrepareDownload, MakePartial, GetFile, GetFails,
         FinalizeDownload, MoveDownload, FinishVerify, FindExisting, DiscardExisting,
         FinishPreflight, ReaderDies
  <2> QED  BY <2>1 DEF Complete
<1>2. CASE Delete(r)
  <2>1. /\ UNCHANGED pub
        /\ \/ UNCHANGED <<final, seal, removal>>
           \/ /\ removal # "no" /\ removal' # "no"
              /\ seal' => seal
              /\ seal' /\ Complete(final') => Complete(final)
    <3>1. CASE DeleteFile(r)
      <4>1. removal # "no" /\ UNCHANGED <<pub, seal, removal>>
        BY <3>1 DEF DeleteFile
      <4>2. PICK f \in Files : final' = [final EXCEPT ![f] = "absent"]
        BY <3>1 DEF DeleteFile
      <4>3. ~Complete(final')
        BY <4>2 DEF Complete, FullSize, TypeOK, Directory
      <4> QED  BY <4>1, <4>3
    <3>2. CASE DeleteDirectory(r)
      BY <3>2 DEF DeleteDirectory
    <3>3. CASE DeleteKeys(r)
      <4>1. PICK gone \in SUBSET Files : final' = Without(final, gone)
        BY <3>3 DEF DeleteKeys
      <4>2. Complete(final') => Complete(final)
        BY <4>1 DEF Without, Complete, FullSize
      <4>3. seal' => seal
        BY <3>3, Zenon DEF DeleteKeys
      <4> QED  BY <3>3, <4>2, <4>3 DEF DeleteKeys
    <3>4. CASE DeleteFails(r) \/ RecordPruned(r)
      BY <3>4 DEF DeleteFails, RecordPruned
    <3> QED  BY <1>2, <3>1, <3>2, <3>3, <3>4 DEF Delete
  <2> QED  BY <2>1
<1> QED  BY <1>1, <1>2

\* Whatever fails and wherever a worker dies, an artifact becomes visible only as a whole and
\* loses files only after its removal began: the three adapters implement ArtifactStore.
THEOREM AdaptersImplementStore == Spec => ImplementsArtifactStore
<1>1. StorageInv /\ [Next]_vars => [Store!Next]_(Store!vars)
  <2> SUFFICES ASSUME StorageInv, [Next]_vars  PROVE [Store!Next]_(Store!vars)
    OBVIOUS
  <2>1. \/ UNCHANGED <<Artifact, Removing>>
        \/ Artifact = "none" /\ ~Removing /\ Artifact' = "stored"
        \/ ~Removing /\ Removing' /\ UNCHANGED Artifact
        \/ Removing /\ Removing' /\ Artifact # "none" /\ Artifact' \in {"remnant", "none"}
    <3>1. CASE UNCHANGED vars
      BY <3>1 DEF vars, Artifact, Removing, Complete
    <3> QED  BY <3>1, PublisherRefines, ReaderRefines DEF Next
  <2>2. Removing \in BOOLEAN /\ Removing' \in BOOLEAN
    BY DEF Removing
  <2> QED
    BY <2>1, <2>2 DEF Store!Next, Store!vars, Store!Publish, Store!BeginRemoval, Store!Erode,
                      Artifact, Removing, GivenUp
<1> QED  BY <1>1, StoreInit, StorageInvariant, PTL DEF Spec, ImplementsArtifactStore, Store!Spec

-----------------------------------------------------------------------------
(* The restore command *)

\* The restore command only reads what the adapters keep, so that all of the above holds
\* for an installation that is restored as well.
THEOREM RestoreKeepsStorage == RestoreSpec => Spec
<1>1. RestoreInit => Init
  BY DEF RestoreInit
<1>2. [RestoreNext]_allVars => [Next]_vars
  BY DEF RestoreNext, allVars, Restore, StartRestore, Extract, LoadDatabase, ReplaceUploads,
         Migrate, ChownUploads, Kill
<1> QED  BY <1>1, <1>2, PTL DEF RestoreSpec, Spec

\* What a run of the command has achieved at each of its steps.
RestoreInv ==
  /\ cli \notin Ended => Verifies(Source)
  /\ cli \in {"load", "replace", "migrate", "chown"} => extracted
  /\ cli \in {"replace", "migrate", "chown", "succeeded"} => database = "restored"
  /\ cli \in {"migrate", "chown", "succeeded"} => uploads = "restored"
  /\ cli \in {"chown", "succeeded"} => migrated
  /\ cli = "succeeded" => ~extracted

LEMMA RestoreStep == RestoreInv /\ [RestoreNext]_allVars => RestoreInv'
<1> SUFFICES ASSUME RestoreInv, [RestoreNext]_allVars  PROVE RestoreInv'
  OBVIOUS
<1> USE DEF RestoreInv, Ended, Fail
<1>1. CASE cli = "idle" /\ Next /\ UNCHANGED restoreVars
  BY <1>1 DEF restoreVars
<1>2. CASE Restore \/ UNCHANGED allVars
  <2>1. UNCHANGED vars
    BY <1>2 DEF allVars, Restore, StartRestore, Extract, LoadDatabase, ReplaceUploads, Migrate,
                ChownUploads, Kill
  <2>2. Verifies(Source)' <=> Verifies(Source)
    BY <2>1 DEF vars, Verifies, Source
  <2>3. CASE StartRestore
    BY <2>2, <2>3 DEF StartRestore
  <2>4. CASE Extract
    BY <2>2, <2>4 DEF Extract
  <2>5. CASE LoadDatabase
    BY <2>2, <2>5 DEF LoadDatabase
  <2>6. CASE ReplaceUploads
    BY <2>2, <2>6 DEF ReplaceUploads
  <2>7. CASE Migrate
    BY <2>2, <2>7 DEF Migrate
  <2>8. CASE ChownUploads
    BY <2>2, <2>8 DEF ChownUploads
  <2>9. CASE Kill
    BY <2>2, <2>9 DEF Kill
  <2>10. CASE UNCHANGED allVars
    BY <2>2, <2>10 DEF allVars, restoreVars
  <2> QED  BY <1>2, <2>3, <2>4, <2>5, <2>6, <2>7, <2>8, <2>9, <2>10 DEF Restore
<1> QED  BY <1>1, <1>2 DEF RestoreNext

LEMMA RestoreInvariant == RestoreSpec => []RestoreInv
<1>1. RestoreInit => RestoreInv
  BY DEF RestoreInit, RestoreInv, Ended
<1> QED  BY <1>1, RestoreStep, PTL DEF RestoreSpec

\* A run that reports success has restored both halves and migrated the database, however
\* many runs were interrupted before it.
THEOREM SuccessComplete == RestoreSpec => []SuccessIsComplete
<1>1. RestoreInv => SuccessIsComplete
  BY DEF RestoreInv, SuccessIsComplete
<1> QED  BY <1>1, RestoreInvariant, PTL

\* The uploads are touched only after pg_restore of the same run went through, and neither
\* they nor the database by anything but a run that verified its source.
THEOREM UploadsAfterDatabase == RestoreSpec => UploadsFollowDatabase
<1> DEFINE Ordered == /\ uploads' # uploads => database = "restored" /\ extracted
                      /\ database' # database => Verifies(Source) /\ extracted
<1>1. ASSUME RestoreInv, RestoreNext
      PROVE  Ordered
  BY <1>1 DEF RestoreInv, RestoreNext, restoreVars, Restore, StartRestore, Extract, LoadDatabase,
              ReplaceUploads, Migrate, ChownUploads, Kill, Fail, Ended
<1>2. RestoreInv /\ [RestoreNext]_allVars => [Ordered]_allVars
  BY <1>1
<1> QED  BY <1>2, RestoreInvariant, PTL DEF RestoreSpec, UploadsFollowDatabase
=============================================================================

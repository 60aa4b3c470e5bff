---------------------- MODULE BackupCoordinationProofs ----------------------
(***************************************************************************)
(* What BackupCoordination promises for every set of requests and workers. *)
(* The argument: crashes and lost calls only leave the counter too high    *)
(* (CounterCoversWriters), a worker owns the barrier until it releases it  *)
(* (BarrierOwned), so a worker that has seen the counter at 0 behind its   *)
(* barrier runs alone (CaptureExcludesWrites), and what it dumps is still  *)
(* current when it archives (DumpIsCurrent).  The order of the two writes  *)
(* of a mutation (RowsHaveFiles) then makes the artifact complete.         *)
(***************************************************************************)
EXTENDS BackupCoordination, FiniteSetTheorems, TLAPS

USE DEF Mutating, Counted, RequestPC, Capturing, Holding, Ended, SnapshotPC,
        Outcome

\* Every step of a request, a worker or Redis keeps the types.
LEMMA TypeStep ==
  ASSUME TypeOK, [Next]_vars
  PROVE  TypeOK'
<1> USE CoordinationAssumption DEF TypeOK, Goto, Advance, Report, Stage,
        Unstage, redis, media, staging, work
<1>1. ASSUME NEW w \in Writers, WriterNext(w) PROVE TypeOK'
  <2>1. CASE EnterWrite(w) \/ EnterRejected(w) \/ Retry(w)
    BY <2>1 DEF EnterWrite, EnterRejected, Retry
  <2>2. CASE StoreFile(w) \/ CreateRow(w)
    BY <2>2 DEF StoreFile, CreateRow
  <2>3. CASE DeleteRow(w) \/ UnlinkFile(w)
    BY <2>3 DEF DeleteRow, UnlinkFile
  <2>4. CASE LeaveWrite(w) \/ ClampCounter(w) \/ LeaveFails(w) \/ ApiCrash(w)
    BY <2>4 DEF LeaveWrite, ClampCounter, LeaveFails, ApiCrash
  <2> QED  BY <1>1, <2>1, <2>2, <2>3, <2>4 DEF WriterNext
<1>2. ASSUME NEW k \in Workers, WorkerNext(k) \/ WorkerCrash(k) PROVE TypeOK'
  <2>1. CASE AcquireWriteBarrier(k) \/ BarrierBusy(k) \/ AcquireLost(k)
    BY <2>1 DEF AcquireWriteBarrier, BarrierBusy, AcquireLost
  <2>2. CASE Drained(k) \/ DrainTimeout(k)
    BY <2>2 DEF Drained, DrainTimeout
  <2>3. CASE PgDump(k) \/ ArchiveUploads(k) \/ CaptureFails(k)
    BY <2>3 DEF PgDump, ArchiveUploads, CaptureFails
  <2>4. CASE ReleaseWriteBarrier(k) \/ ReleaseFails(k) \/ WorkerCrash(k)
    BY <2>4 DEF ReleaseWriteBarrier, ReleaseFails, WorkerCrash
  <2> QED  BY <1>2, <2>1, <2>2, <2>3, <2>4 DEF WorkerNext
<1>3. CASE BarrierExpires
  BY <1>3 DEF BarrierExpires
<1>4. CASE CounterExpires
  BY <1>4 DEF CounterExpires
<1>5. CASE UNCHANGED vars
  BY <1>5 DEF vars
<1> QED  BY <1>1, <1>2, <1>3, <1>4, <1>5 DEF Next

\* Type correctness of every behaviour of the barrier, in either TTL regime.
THEOREM TypeCorrect == Spec => []TypeOK
<1>1. Init => TypeOK
  BY CoordinationAssumption DEF Init, TypeOK
<1>2. TypeOK /\ [Next]_vars => TypeOK'
  BY TypeStep
<1> QED  BY <1>1, <1>2, PTL DEF Spec

-----------------------------------------------------------------------------
\* The counted requests form a finite set with a cardinality.
LEMMA CountedFinite ==
  /\ IsFiniteSet(CountedWriters)
  /\ Cardinality(CountedWriters) \in Nat
  /\ CountedWriters \subseteq Writers
<1>1. CountedWriters \subseteq Writers
  BY DEF CountedWriters
<1> QED  BY <1>1, CoordinationAssumption, FS_Subset, FS_CardinalityType

\* No step makes the counter miss a running mutation or fall below zero, as
\* long as no mutation outlives the counter's TTL.
LEMMA CounterStep ==
  ASSUME ~LongWrites, TypeOK, CounterCoversWriters, NeverUnderflows, [Next]_vars
  PROVE  CounterCoversWriters' /\ NeverUnderflows'
<1> USE CountedFinite DEF TypeOK, CounterCoversWriters, NeverUnderflows, Goto
<1>1. ASSUME NEW w \in Writers, EnterWrite(w)
      PROVE  CounterCoversWriters' /\ NeverUnderflows'
  <2>1. CountedWriters' = CountedWriters \cup {w} /\ w \notin CountedWriters
    BY <1>1 DEF EnterWrite, CountedWriters
  <2>2. Cardinality(CountedWriters') = Cardinality(CountedWriters) + 1
    BY <2>1, FS_AddElement
  <2> QED  BY <1>1, <2>2 DEF EnterWrite
<1>2. ASSUME NEW w \in Writers, LeaveWrite(w)
      PROVE  CounterCoversWriters' /\ NeverUnderflows'
  <2>1. CountedWriters' = CountedWriters \ {w} /\ w \in CountedWriters
    BY <1>2 DEF LeaveWrite, CountedWriters
  <2>2. Cardinality(CountedWriters') = Cardinality(CountedWriters) - 1
    BY <2>1, FS_RemoveElement
  <2>3. Cardinality(CountedWriters') \in Nat
    BY <2>1, FS_RemoveElement, FS_CardinalityType
  <2> QED  BY <1>2, <2>2, <2>3 DEF LeaveWrite
<1>3. ASSUME NEW w \in Writers, LeaveFails(w) \/ ApiCrash(w)
      PROVE  CounterCoversWriters' /\ NeverUnderflows'
  <2>1. CountedWriters' \subseteq CountedWriters
    BY <1>3 DEF LeaveFails, ApiCrash, CountedWriters
  <2>2. /\ Cardinality(CountedWriters') <= Cardinality(CountedWriters)
        /\ Cardinality(CountedWriters') \in Nat
    BY <2>1, FS_Subset, FS_CardinalityType
  <2> QED  BY <1>3, <2>2 DEF LeaveFails, ApiCrash, redis
<1>4. ASSUME NEW w \in Writers,
             \/ EnterRejected(w) \/ Retry(w) \/ StoreFile(w) \/ CreateRow(w)
             \/ DeleteRow(w) \/ UnlinkFile(w)
      PROVE  CounterCoversWriters' /\ NeverUnderflows'
  <2>1. CountedWriters' = CountedWriters
    BY <1>4 DEF EnterRejected, Retry, StoreFile, CreateRow, DeleteRow,
                UnlinkFile, CountedWriters
  <2> QED  BY <1>4, <2>1 DEF EnterRejected, Retry, StoreFile, CreateRow,
                             DeleteRow, UnlinkFile, redis
<1>5. ASSUME NEW w \in Writers, ClampCounter(w) PROVE FALSE
  BY <1>5 DEF ClampCounter
<1>6. CASE CounterExpires
  <2>1. CountedWriters = {} /\ CountedWriters' = CountedWriters
    BY <1>6 DEF CounterExpires, CountedWriters
  <2> QED  BY <1>6, <2>1, FS_EmptySet DEF CounterExpires
<1>7. CASE UNCHANGED <<activeWrites, request>>
  BY <1>7 DEF CountedWriters
<1>8. ASSUME NEW k \in Workers, WorkerNext(k) \/ WorkerCrash(k)
      PROVE  UNCHANGED <<activeWrites, request>>
  BY <1>8 DEF WorkerNext, AcquireWriteBarrier, BarrierBusy, AcquireLost, Drained,
       DrainTimeout, PgDump, ArchiveUploads, CaptureFails, ReleaseWriteBarrier,
       ReleaseFails, WorkerCrash, redis
<1>9. BarrierExpires \/ UNCHANGED vars => UNCHANGED <<activeWrites, request>>
  BY DEF BarrierExpires, vars
<1> QED
  BY <1>1, <1>2, <1>3, <1>4, <1>5, <1>6, <1>7, <1>8, <1>9 DEF Next, WriterNext

-----------------------------------------------------------------------------
\* A worker keeps the barrier from acquireWriteBarrier to the release, as long
\* as no snapshot outlives the barrier's TTL.
LEMMA BarrierStep ==
  ASSUME ~LongSnapshots, TypeOK, BarrierOwned, [Next]_vars
  PROVE  BarrierOwned'
<1> USE CoordinationAssumption DEF TypeOK, BarrierOwned, Advance
<1>1. ASSUME NEW k \in Workers, WorkerNext(k) \/ WorkerCrash(k) PROVE BarrierOwned'
  <2>1. CASE AcquireWriteBarrier(k) \/ BarrierBusy(k) \/ AcquireLost(k)
    BY <2>1 DEF AcquireWriteBarrier, BarrierBusy, AcquireLost, redis
  <2>2. CASE Drained(k) \/ DrainTimeout(k) \/ PgDump(k) \/ ArchiveUploads(k)
               \/ CaptureFails(k)
    BY <2>2 DEF Drained, DrainTimeout, PgDump, ArchiveUploads, CaptureFails, redis
  <2>3. CASE ReleaseWriteBarrier(k) \/ ReleaseFails(k) \/ WorkerCrash(k)
    BY <2>3 DEF ReleaseWriteBarrier, ReleaseFails, WorkerCrash, redis
  <2> QED  BY <1>1, <2>1, <2>2, <2>3 DEF WorkerNext
<1>2. CASE BarrierExpires
  BY <1>2 DEF BarrierExpires, work
<1>3. CASE UNCHANGED <<barrier, snapshot>>
  BY <1>3
<1>4. ASSUME NEW w \in Writers, WriterNext(w) PROVE UNCHANGED <<barrier, snapshot>>
  BY <1>4 DEF WriterNext, EnterWrite, EnterRejected, Retry, StoreFile, CreateRow,
       DeleteRow, UnlinkFile, LeaveWrite, ClampCounter, LeaveFails, ApiCrash,
       redis, work
<1>5. CounterExpires \/ UNCHANGED vars => UNCHANGED <<barrier, snapshot>>
  BY DEF CounterExpires, vars, work
<1> QED  BY <1>1, <1>2, <1>3, <1>4, <1>5 DEF Next

\* Behind a drained barrier no mutation starts.
LEMMA CaptureStep ==
  ASSUME TypeOK, CounterCoversWriters, BarrierOwned, CaptureExcludesWrites,
         [Next]_vars
  PROVE  CaptureExcludesWrites'
<1> USE CoordinationAssumption DEF TypeOK, CaptureExcludesWrites
<1>1. ASSUME NEW w \in Writers, WriterNext(w) PROVE CaptureExcludesWrites'
  <2>1. UNCHANGED snapshot
    BY <1>1 DEF WriterNext, EnterWrite, EnterRejected, Retry, StoreFile, CreateRow,
         DeleteRow, UnlinkFile, LeaveWrite, ClampCounter, LeaveFails, ApiCrash, work
  <2>2. CASE EnterWrite(w)
    BY <2>1, <2>2 DEF EnterWrite, BarrierOwned
  <2>3. CASE ~EnterWrite(w)
    <3>1. CountedWriters' \subseteq CountedWriters
      BY <1>1, <2>3 DEF WriterNext, EnterRejected, Retry, StoreFile, CreateRow,
           DeleteRow, UnlinkFile, LeaveWrite, ClampCounter, LeaveFails, ApiCrash,
           Goto, CountedWriters
    <3> QED  BY <2>1, <3>1
  <2> QED  BY <2>2, <2>3
<1>2. ASSUME NEW k \in Workers, WorkerNext(k) \/ WorkerCrash(k)
      PROVE  CaptureExcludesWrites'
  <2>1. CountedWriters' = CountedWriters
    BY <1>2 DEF WorkerNext, AcquireWriteBarrier, BarrierBusy, AcquireLost, Drained,
         DrainTimeout, PgDump, ArchiveUploads, CaptureFails, ReleaseWriteBarrier,
         ReleaseFails, WorkerCrash, CountedWriters
  <2>2. CASE Drained(k)
    <3>1. CountedWriters = {}
      BY <2>2, CountedFinite, FS_EmptySet DEF Drained, CounterCoversWriters
    <3> QED  BY <2>1, <3>1
  <2>3. CASE ~Drained(k)
    <3>1. \A j \in Workers : snapshot'[j] \in Capturing => snapshot[j] \in Capturing
      BY <1>2, <2>3 DEF WorkerNext, AcquireWriteBarrier, BarrierBusy, AcquireLost,
           DrainTimeout, PgDump, ArchiveUploads, CaptureFails, ReleaseWriteBarrier,
           ReleaseFails, WorkerCrash, Advance
    <3> QED  BY <2>1, <3>1
  <2> QED  BY <2>2, <2>3
<1>3. CASE BarrierExpires \/ CounterExpires \/ UNCHANGED vars
  BY <1>3 DEF BarrierExpires, CounterExpires, vars, work, CountedWriters
<1> QED  BY <1>1, <1>2, <1>3 DEF Next

\* Rows and files change in an order that never leaves a row without a file.
LEMMA RowsStep ==
  ASSUME TypeOK, RowsHaveFiles, [Next]_vars
  PROVE  RowsHaveFiles'
<1> USE DEF TypeOK, RowsHaveFiles, Goto
<1>1. ASSUME NEW w \in Writers, WriterNext(w) PROVE RowsHaveFiles'
  <2>1. CASE EnterWrite(w) \/ EnterRejected(w) \/ Retry(w)
    BY <2>1 DEF EnterWrite, EnterRejected, Retry, media
  <2>2. CASE StoreFile(w) \/ DeleteRow(w) \/ UnlinkFile(w)
    BY <2>2 DEF StoreFile, DeleteRow, UnlinkFile
  <2>3. CASE CreateRow(w)
    BY <2>3 DEF CreateRow
  <2>4. CASE LeaveWrite(w) \/ ClampCounter(w) \/ LeaveFails(w) \/ ApiCrash(w)
    BY <2>4 DEF LeaveWrite, ClampCounter, LeaveFails, ApiCrash, media
  <2> QED  BY <1>1, <2>1, <2>2, <2>3, <2>4 DEF WriterNext
<1>2. ASSUME NEW k \in Workers, WorkerNext(k) \/ WorkerCrash(k)
      PROVE  UNCHANGED <<request, rows, files>>
  BY <1>2 DEF WorkerNext, AcquireWriteBarrier, BarrierBusy, AcquireLost, Drained,
       DrainTimeout, PgDump, ArchiveUploads, CaptureFails, ReleaseWriteBarrier,
       ReleaseFails, WorkerCrash, media
<1>3. BarrierExpires \/ CounterExpires \/ UNCHANGED vars
        => UNCHANGED <<request, rows, files>>
  BY DEF BarrierExpires, CounterExpires, vars, media
<1>4. CASE UNCHANGED <<request, rows, files>>
  BY <1>4
<1> QED  BY <1>1, <1>2, <1>3, <1>4 DEF Next

\* A mutation touches no row and no file while a worker captures, so what pg_dump saw is
\* still there, and still has its files, when tar reads the uploads.
LEMMA ArtifactStep ==
  ASSUME TypeOK, CaptureExcludesWrites, RowsHaveFiles, DumpIsCurrent,
         ArtifactComplete, [Next]_vars
  PROVE  DumpIsCurrent' /\ ArtifactComplete'
<1> USE DEF TypeOK, DumpIsCurrent, ArtifactComplete
<1>1. ASSUME NEW w \in Writers, WriterNext(w) PROVE DumpIsCurrent' /\ ArtifactComplete'
  <2>1. UNCHANGED <<snapshot, dump, archive>>
    BY <1>1 DEF WriterNext, EnterWrite, EnterRejected, Retry, StoreFile, CreateRow,
         DeleteRow, UnlinkFile, LeaveWrite, ClampCounter, LeaveFails, ApiCrash,
         work, staging
  <2>2. CASE UNCHANGED rows
    BY <2>1, <2>2
  <2>3. CASE rows' # rows
    <3>1. w \in CountedWriters
      BY <1>1, <2>3 DEF WriterNext, EnterWrite, EnterRejected, Retry, StoreFile,
           CreateRow, DeleteRow, UnlinkFile, LeaveWrite, ClampCounter, LeaveFails,
           ApiCrash, media, CountedWriters
    <3> QED  BY <2>1, <3>1 DEF CaptureExcludesWrites
  <2> QED  BY <2>2, <2>3
<1>2. ASSUME NEW k \in Workers, WorkerNext(k) \/ WorkerCrash(k)
      PROVE  DumpIsCurrent' /\ ArtifactComplete'
  <2> USE DEF Advance, Stage, Unstage, media, staging
  <2>1. CASE AcquireWriteBarrier(k) \/ BarrierBusy(k) \/ AcquireLost(k)
    BY <2>1 DEF AcquireWriteBarrier, BarrierBusy, AcquireLost
  <2>2. CASE Drained(k) \/ DrainTimeout(k)
    BY <2>2 DEF Drained, DrainTimeout
  <2>3. CASE PgDump(k) \/ ArchiveUploads(k) \/ CaptureFails(k)
    BY <2>3 DEF PgDump, ArchiveUploads, CaptureFails, RowsHaveFiles
  <2>4. CASE ReleaseWriteBarrier(k) \/ ReleaseFails(k) \/ WorkerCrash(k)
    BY <2>4 DEF ReleaseWriteBarrier, ReleaseFails, WorkerCrash
  <2> QED  BY <1>2, <2>1, <2>2, <2>3, <2>4 DEF WorkerNext
<1>3. CASE BarrierExpires \/ CounterExpires \/ UNCHANGED vars
  BY <1>3 DEF BarrierExpires, CounterExpires, vars, work, media, staging
<1> QED  BY <1>1, <1>2, <1>3 DEF Next

-----------------------------------------------------------------------------
\* SnapshotInv is inductive while mutations and snapshots stay within the TTLs.
THEOREM SnapshotInvariant ==
  ASSUME ~LongSnapshots, ~LongWrites
  PROVE  Spec => []SnapshotInv
<1>1. Init => SnapshotInv
  <2> SUFFICES ASSUME Init PROVE SnapshotInv
    OBVIOUS
  <2>1. TypeOK
    BY CoordinationAssumption DEF Init, TypeOK
  <2>2. CountedWriters = {}
    BY DEF Init, CountedWriters
  <2>3. CounterCoversWriters
    BY <2>2, FS_EmptySet DEF Init, CounterCoversWriters
  <2> QED  BY <2>1, <2>2, <2>3 DEF Init, SnapshotInv, NeverUnderflows, BarrierOwned,
             CaptureExcludesWrites, RowsHaveFiles, DumpIsCurrent, ArtifactComplete
<1>2. SnapshotInv /\ [Next]_vars => SnapshotInv'
  BY TypeStep, CounterStep, BarrierStep, CaptureStep, RowsStep, ArtifactStep
     DEF SnapshotInv
<1> QED  BY <1>1, <1>2, PTL DEF Spec

\* The counter covers every running mutation whatever the snapshots do, as long as no
\* mutation outlives the counter's TTL: crashes and lost calls leave it too high at most.
THEOREM CounterCovers ==
  ASSUME ~LongWrites
  PROVE  Spec => []CounterCoversWriters
<1>1. Init => CounterCoversWriters /\ NeverUnderflows
  <2> SUFFICES ASSUME Init PROVE CounterCoversWriters /\ NeverUnderflows
    OBVIOUS
  <2>1. CountedWriters = {}
    BY DEF Init, CountedWriters
  <2>2. CounterCoversWriters
    BY <2>1, FS_EmptySet DEF Init, CounterCoversWriters
  <2> QED  BY <2>1, <2>2 DEF Init, NeverUnderflows
<1>2. TypeOK /\ CounterCoversWriters /\ NeverUnderflows /\ [Next]_vars
        => (CounterCoversWriters /\ NeverUnderflows)'
  BY CounterStep
<1> QED  BY <1>1, <1>2, TypeCorrect, PTL DEF Spec

\* For any number of requests and workers, crashes and lost Redis calls
\* included, a snapshot never overlaps a mutation.
THEOREM CaptureExclusion ==
  ASSUME ~LongSnapshots, ~LongWrites
  PROVE  Spec => []CaptureExcludesWrites
<1>1. SnapshotInv => CaptureExcludesWrites
  BY DEF SnapshotInv
<1> QED  BY <1>1, SnapshotInvariant, PTL

\* ... and every finished artifact holds a file for each of its media rows.
THEOREM ArtifactCompleteness ==
  ASSUME ~LongSnapshots, ~LongWrites
  PROVE  Spec => []ArtifactComplete
<1>1. SnapshotInv => ArtifactComplete
  BY DEF SnapshotInv
<1> QED  BY <1>1, SnapshotInvariant, PTL

\* A request takes one step of ConsistentSnapshot, or none.
LEMMA RequestRefines ==
  ASSUME TypeOK, RowsHaveFiles, NEW w \in Writers, WriterNext(w)
  PROVE  [Consistent!Next]_(Consistent!vars)
<1>1. Artifacts' = Artifacts
  BY DEF WriterNext, EnterWrite, EnterRejected, Retry, StoreFile, CreateRow, DeleteRow,
         UnlinkFile, LeaveWrite, ClampCounter, LeaveFails, ApiCrash, work, staging, Artifacts
<1>2. CASE UNCHANGED media
  BY <1>1, <1>2 DEF media, Consistent!vars
<1>3. CASE StoreFile(w) \/ CreateRow(w) \/ DeleteRow(w) \/ UnlinkFile(w)
  <2>1. \/ files' = files \cup {w} /\ rows' = rows
        \/ w \in files /\ rows' = rows \cup {w} /\ files' = files
        \/ rows' = rows \ {w} /\ files' = files
        \/ w \notin rows /\ files' = files \ {w} /\ rows' = rows
        \/ rows' = rows /\ files' = files
    BY <1>3 DEF StoreFile, CreateRow, DeleteRow, UnlinkFile, RowsHaveFiles
  <2>2. Consistent!Change(w) \/ UNCHANGED media
    BY <1>1, <2>1 DEF Consistent!Change, media
  <2> QED  BY <1>2, <2>2 DEF Consistent!Next
<1> QED
  BY <1>2, <1>3 DEF WriterNext, EnterWrite, EnterRejected, Retry, LeaveWrite, ClampCounter,
                    LeaveFails, ApiCrash

\* A worker takes the snapshot when tar reads the uploads, and drops it when it releases
\* the barrier, fails or dies.
LEMMA WorkerRefines ==
  ASSUME TypeOK, DumpIsCurrent, NEW k \in Workers, WorkerNext(k) \/ WorkerCrash(k)
  PROVE  [Consistent!Next]_(Consistent!vars)
<1> USE DEF TypeOK, Artifacts
<1>1. UNCHANGED <<rows, files>>
  BY DEF WorkerNext, AcquireWriteBarrier, BarrierBusy, AcquireLost, Drained, DrainTimeout,
         PgDump, ArchiveUploads, CaptureFails, ReleaseWriteBarrier, ReleaseFails,
         WorkerCrash, media
<1>2. CASE BarrierBusy(k) \/ AcquireLost(k)
  BY <1>1, <1>2 DEF BarrierBusy, AcquireLost, staging, Consistent!vars
<1>3. CASE ArchiveUploads(k)
  <2>1. /\ snapshot' = [snapshot EXCEPT ![k] = "finished"] /\ dump[k] = rows
        /\ dump' = [dump EXCEPT ![k] = dump[k]] /\ archive' = [archive EXCEPT ![k] = files]
    BY <1>3 DEF ArchiveUploads, Advance, Stage, DumpIsCurrent
  <2>2. Artifacts' = [Artifacts EXCEPT ![k] = {[dump |-> rows, archive |-> files]}]
    BY <2>1
  <2> QED  BY <1>1, <2>2 DEF Consistent!TakeSnapshot, Consistent!Next
<1>4. CASE ~(BarrierBusy(k) \/ AcquireLost(k) \/ ArchiveUploads(k))
  <2>1. /\ snapshot'[k] # "finished" /\ \A j \in Workers \ {k} : snapshot'[j] = snapshot[j]
        /\ \A j \in Workers \ {k} : dump'[j] = dump[j] /\ archive'[j] = archive[j]
    BY <1>4 DEF WorkerNext, AcquireWriteBarrier, Drained, DrainTimeout, PgDump, CaptureFails,
         ReleaseWriteBarrier, ReleaseFails, WorkerCrash, Advance, Stage, Unstage, staging
  <2>2. Artifacts' = [Artifacts EXCEPT ![k] = {}]
    BY <2>1
  <2> QED  BY <1>1, <2>2 DEF Consistent!DropArtifact, Consistent!Next
<1> QED  BY <1>2, <1>3, <1>4

\* An artifact is the state of both stores at one moment, for any number of requests and
\* workers: createConsistentArtifact implements ConsistentSnapshot.
THEOREM BarrierImplementsSnapshot ==
  ASSUME ~LongSnapshots, ~LongWrites
  PROVE  Spec => ImplementsSnapshot
<1>1. Init => Consistent!Init
  BY DEF Init, Consistent!Init, Artifacts
<1>2. SnapshotInv /\ [Next]_vars => [Consistent!Next]_(Consistent!vars)
  <2> SUFFICES ASSUME SnapshotInv, [Next]_vars PROVE [Consistent!Next]_(Consistent!vars)
    OBVIOUS
  <2>1. CASE BarrierExpires \/ CounterExpires \/ UNCHANGED vars
    BY <2>1 DEF BarrierExpires, CounterExpires, vars, work, media, staging, Artifacts,
                Consistent!vars
  <2> QED  BY <2>1, RequestRefines, WorkerRefines DEF Next, SnapshotInv
<1> QED  BY <1>1, <1>2, SnapshotInvariant, PTL DEF Spec, ImplementsSnapshot, Consistent!Spec

\* Whatever outlives its TTL, no worker ever lifts another worker's barrier.
THEOREM BarrierTokenSafety == Spec => ForeignBarrierKept
<1> DEFINE Kept == \A k \in Workers :
                     barrier = k /\ barrier' # k =>
                       \/ snapshot[k] # snapshot'[k]
                       \/ UNCHANGED <<snapshot, request>>
<1>1. TypeOK /\ [Next]_vars => [Kept]_vars
  <2> SUFFICES ASSUME TypeOK, Next, NEW k \in Workers, barrier = k, barrier' # k
               PROVE  snapshot[k] # snapshot'[k] \/ UNCHANGED <<snapshot, request>>
    OBVIOUS
  <2> USE CoordinationAssumption DEF TypeOK
  <2>1. ASSUME NEW w \in Writers, WriterNext(w) PROVE barrier' = barrier
    BY <2>1 DEF WriterNext, EnterWrite, EnterRejected, Retry, StoreFile, CreateRow,
         DeleteRow, UnlinkFile, LeaveWrite, ClampCounter, LeaveFails, ApiCrash, redis
  <2>2. ASSUME NEW j \in Workers, WorkerNext(j) \/ WorkerCrash(j)
        PROVE  j = k /\ snapshot[k] # snapshot'[k]
    BY <2>2 DEF WorkerNext, AcquireWriteBarrier, BarrierBusy, AcquireLost, Drained,
         DrainTimeout, PgDump, ArchiveUploads, CaptureFails, ReleaseWriteBarrier,
         ReleaseFails, WorkerCrash, redis, Advance
  <2>3. CASE BarrierExpires \/ CounterExpires
    BY <2>3 DEF BarrierExpires, CounterExpires, work
  <2> QED  BY <2>1, <2>2, <2>3 DEF Next
<1> QED  BY <1>1, TypeCorrect, PTL DEF Spec, ForeignBarrierKept
=============================================================================

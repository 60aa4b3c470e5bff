------------------------- MODULE BackupCoordination -------------------------
(***************************************************************************)
(* The write barrier between the API instances and the backup worker.      *)
(*                                                                         *)
(* Two Redis keys coordinate them: `write-barrier`, which holds the token  *)
(* of the worker that takes a snapshot, and `active-writes`, a counter of  *)
(* mutating HTTP requests.  BackupWriteBarrierInterceptor enters and       *)
(* leaves the counter around every mutation; createConsistentArtifact sets *)
(* the barrier, waits until the counter is 0, dumps the database, archives *)
(* the uploads and lifts the barrier in a `finally` block.                 *)
(*                                                                         *)
(* The mutations that matter to a snapshot are those that touch both       *)
(* stores: an upload writes the file and then its row, a removal deletes   *)
(* the row and then the file.  Request w works on the medium called w.     *)
(*                                                                         *)
(* A barrier token is a fresh UUID in the code.  Here it is the worker's   *)
(* name: a worker sets the barrier only while no barrier exists, so two    *)
(* acquisitions of one worker never coexist.                               *)
(***************************************************************************)
EXTENDS Integers, FiniteSets

CONSTANTS
  Writers,        \* mutating HTTP requests, over all API instances
  Workers,        \* backup worker processes
  NoOne,          \* no barrier
  MaxActive,      \* bound on the active-writes counter
  LongSnapshots,  \* may a snapshot outlive the barrier's TTL of six hours?
  LongWrites      \* may a mutation outlive the counter's TTL of six hours?

ASSUME CoordinationAssumption ==
  /\ IsFiniteSet(Writers)
  /\ NoOne \notin Workers
  /\ MaxActive \in Nat
  /\ LongSnapshots \in BOOLEAN
  /\ LongWrites \in BOOLEAN

VARIABLES
  barrier,       \* Redis write-barrier: the holder's token, or NoOne
  activeWrites,  \* Redis active-writes; a missing key reads as 0
  counterTtl,    \* is a TTL running on the counter key?
  request,       \* where each mutating request is
  snapshot,      \* where each worker's createConsistentArtifact is
  outcome,       \* how the last createConsistentArtifact ended
  rows,          \* media rows in PostgreSQL
  files,         \* files in the uploads directory
  dump,          \* per worker: the rows in its staged database.dump
  archive        \* per worker: the files in its staged uploads.tar.gz

vars == <<barrier, activeWrites, counterTtl, request, snapshot, outcome,
          rows, files, dump, archive>>
redis == <<barrier, activeWrites, counterTtl>>
media == <<rows, files>>
staging == <<dump, archive>>
work  == <<snapshot, outcome, staging>>

Mutating  == {"storeFile", "createRow", "deleteRow", "unlinkFile"}
Counted   == Mutating \cup {"leaving"}
RequestPC == Counted \cup {"idle", "rejected", "clamping"}

Capturing  == {"dumping", "archiving"}
Holding    == Capturing \cup {"draining"}
Ended      == {"finished", "releasing"}
SnapshotPC == Holding \cup Ended \cup {"idle"}
Outcome    == {"none", "ok", "busy", "notDrained", "failed"}

\* The requests that enterWrite counted and leaveWrite has not discounted yet.
CountedWriters == {w \in Writers : request[w] \in Counted}

Init ==
  /\ barrier = NoOne
  /\ activeWrites = 0
  /\ counterTtl = "unset"
  /\ request = [w \in Writers |-> "idle"]
  /\ snapshot = [k \in Workers |-> "idle"]
  /\ outcome = "none"
  /\ rows = {}
  /\ files = {}
  /\ dump = [k \in Workers |-> {}]
  /\ archive = [k \in Workers |-> {}]

-----------------------------------------------------------------------------
(***************************************************************************)
(* API: one mutating request, from the interceptor to its finalize.        *)
(***************************************************************************)

Goto(w, pc) == request' = [request EXCEPT ![w] = pc]

\* Mutant of EnterWrite: the script counts without looking at the barrier.
EnterWriteUnchecked(w) ==
  /\ request[w] = "idle"
  /\ activeWrites < MaxActive
  /\ activeWrites' = activeWrites + 1
  /\ counterTtl' = "running"
  /\ Goto(w, IF w \in rows THEN "deleteRow" ELSE "storeFile")
  /\ UNCHANGED <<barrier, media, work>>

\* ENTER_WRITE_SCRIPT is one atomic Redis script, so its second look at the
\* barrier finds what the first one found.
EnterWrite(w) ==
  /\ request[w] = "idle"
  /\ barrier = NoOne
  /\ activeWrites < MaxActive
  /\ activeWrites' = activeWrites + 1
  /\ counterTtl' = "running"
  /\ Goto(w, IF w \in rows THEN "deleteRow" ELSE "storeFile")
  /\ UNCHANGED <<barrier, media, work>>

\* Mutant of EnterRejected: finalize also runs for a request that never entered.
EnterRejectedLeaves(w) ==
  /\ request[w] = "idle"
  /\ barrier # NoOne
  /\ activeWrites' = activeWrites - 1
  /\ Goto(w, "rejected")
  /\ UNCHANGED <<barrier, counterTtl, media, work>>

\* 503 BackupWriteProtection.
EnterRejected(w) ==
  /\ request[w] = "idle"
  /\ barrier # NoOne
  /\ Goto(w, "rejected")
  /\ UNCHANGED <<redis, media, work>>

\* The client repeats the request.
Retry(w) ==
  /\ request[w] = "rejected"
  /\ Goto(w, "idle")
  /\ UNCHANGED <<redis, media, work>>

\* Multer puts the file into the uploads directory.
StoreFile(w) ==
  /\ request[w] = "storeFile"
  /\ files' = files \cup {w}
  /\ Goto(w, "createRow")
  /\ UNCHANGED <<redis, rows, work>>

\* MediaService.create: the row, or the removal of the file if that fails.
CreateRow(w) ==
  /\ request[w] = "createRow"
  /\ \/ rows' = rows \cup {w} /\ files' = files
     \/ rows' = rows /\ files' \in {files, files \ {w}}
  /\ Goto(w, "leaving")
  /\ UNCHANGED <<redis, work>>

\* MediaService.remove: first the row ...
DeleteRow(w) ==
  /\ request[w] = "deleteRow"
  /\ rows' = rows \ {w}
  /\ Goto(w, "unlinkFile")
  /\ UNCHANGED <<redis, files, work>>

\* ... then the file; a failing unlink is ignored.
UnlinkFile(w) ==
  /\ request[w] = "unlinkFile"
  /\ files' \in {files, files \ {w}}
  /\ Goto(w, "leaving")
  /\ UNCHANGED <<redis, rows, work>>

\* leaveWrite: DECR.  On a missing key it creates the key at -1, without TTL.
LeaveWrite(w) ==
  /\ request[w] = "leaving"
  /\ activeWrites' = activeWrites - 1
  /\ Goto(w, IF activeWrites - 1 < 0 THEN "clamping" ELSE "idle")
  /\ UNCHANGED <<barrier, counterTtl, media, work>>

\* leaveWrite: SET "0", a command of its own.
ClampCounter(w) ==
  /\ request[w] = "clamping"
  /\ activeWrites' = 0
  /\ counterTtl' = "running"
  /\ Goto(w, "idle")
  /\ UNCHANGED <<barrier, media, work>>

\* The interceptor ignores a leaveWrite that Redis did not answer.
LeaveFails(w) ==
  /\ request[w] \in {"leaving", "clamping"}
  /\ Goto(w, "idle")
  /\ UNCHANGED <<redis, media, work>>

\* The API process dies with the request, or enterWrite counted it and the answer
\* was lost; finalize never runs.
ApiCrash(w) ==
  /\ request[w] \in Mutating \cup {"leaving", "clamping"}
  /\ Goto(w, "idle")
  /\ UNCHANGED <<redis, media, work>>

-----------------------------------------------------------------------------
(***************************************************************************)
(* Backup worker: createConsistentArtifact.                                *)
(***************************************************************************)

Advance(k, pc) == snapshot' = [snapshot EXCEPT ![k] = pc]
Report(o)      == outcome' = o
Stage(k, r, f) == /\ dump' = [dump EXCEPT ![k] = r]
                  /\ archive' = [archive EXCEPT ![k] = f]
Unstage(k)     == Stage(k, {}, {})

\* Mutant of AcquireWriteBarrier: it stores Redis' answer instead of the token.
AcquireStoresAnswer(k) ==
  /\ snapshot[k] = "idle"
  /\ barrier = NoOne
  /\ barrier' = "OK"
  /\ Advance(k, "draining")
  /\ UNCHANGED <<activeWrites, counterTtl, request, media, outcome, staging>>

AcquireWriteBarrier(k) ==
  /\ snapshot[k] = "idle"
  /\ barrier = NoOne
  /\ barrier' = k
  /\ Advance(k, "draining")
  /\ UNCHANGED <<activeWrites, counterTtl, request, media, outcome, staging>>

\* BACKUP_WRITE_BARRIER_BUSY.
BarrierBusy(k) ==
  /\ snapshot[k] = "idle"
  /\ barrier # NoOne
  /\ Report("busy")
  /\ UNCHANGED <<redis, request, media, snapshot, staging>>

\* Redis executes the SET and the answer is lost: acquireWriteBarrier throws
\* before `try`, so nobody releases this barrier.
AcquireLost(k) ==
  /\ snapshot[k] = "idle"
  /\ barrier = NoOne
  /\ barrier' = k
  /\ Report("failed")
  /\ UNCHANGED <<activeWrites, counterTtl, request, media, snapshot, staging>>

\* Mutant of Drained: the counter is not awaited.
DrainedAtOnce(k) ==
  /\ snapshot[k] = "draining"
  /\ Advance(k, "dumping")
  /\ UNCHANGED <<redis, request, media, outcome, staging>>

\* Mutant of DrainTimeout: the polling loop has no deadline.
DrainForever(k) ==
  /\ snapshot[k] = "draining"
  /\ FALSE
  /\ UNCHANGED vars

\* waitForWritesToDrain polls while the counter is positive ...
Drained(k) ==
  /\ snapshot[k] = "draining"
  /\ activeWrites <= 0
  /\ Advance(k, "dumping")
  /\ UNCHANGED <<redis, request, media, outcome, staging>>

\* ... and throws after 30 seconds: BACKUP_WRITES_DID_NOT_DRAIN.
DrainTimeout(k) ==
  /\ snapshot[k] = "draining"
  /\ activeWrites > 0
  /\ Advance(k, "releasing")
  /\ Report("notDrained")
  /\ UNCHANGED <<redis, request, media, staging>>

\* pg_dump writes one MVCC snapshot of the rows.
PgDump(k) ==
  /\ snapshot[k] = "dumping"
  /\ Stage(k, rows, {})
  /\ Advance(k, "archiving")
  /\ UNCHANGED <<redis, request, media, outcome>>

\* tar archives the uploads; manifest, checksums and verification follow.
ArchiveUploads(k) ==
  /\ snapshot[k] = "archiving"
  /\ Stage(k, dump[k], files)
  /\ Report("ok")
  /\ Advance(k, "finished")
  /\ UNCHANGED <<redis, request, media>>

\* PG_DUMP_FAILED, UPLOAD_ARCHIVE_FAILED, BACKUP_ARTIFACT_FAILED.
CaptureFails(k) ==
  /\ snapshot[k] \in Capturing
  /\ Report("failed")
  /\ Unstage(k)
  /\ Advance(k, "releasing")
  /\ UNCHANGED <<redis, request, media>>

\* Mutant of ReleaseWriteBarrier: DEL without comparing the token.
ReleaseAnyBarrier(k) ==
  /\ snapshot[k] \in Ended
  /\ barrier' = NoOne
  /\ Advance(k, "idle")
  /\ Unstage(k)
  /\ UNCHANGED <<activeWrites, counterTtl, request, media, outcome>>

\* RELEASE_SCRIPT: delete the barrier only if it still holds this token.
ReleaseWriteBarrier(k) ==
  /\ snapshot[k] \in Ended
  /\ barrier' = IF barrier = k THEN NoOne ELSE barrier
  /\ Advance(k, "idle")
  /\ Unstage(k)
  /\ UNCHANGED <<activeWrites, counterTtl, request, media, outcome>>

\* Redis does not answer in `finally`: the error replaces the result.
ReleaseFails(k) ==
  /\ snapshot[k] \in Ended
  /\ Report("failed")
  /\ Advance(k, "idle")
  /\ Unstage(k)
  /\ UNCHANGED <<redis, request, media>>

\* The worker process dies and is restarted by the container runtime.
WorkerCrash(k) ==
  /\ snapshot[k] # "idle"
  /\ Advance(k, "idle")
  /\ Report("none")
  /\ Unstage(k)
  /\ UNCHANGED <<redis, request, media>>

-----------------------------------------------------------------------------
(***************************************************************************)
(* Redis: the two TTLs of six hours.                                       *)
(***************************************************************************)

\* PX on the barrier runs from its acquisition.
BarrierExpires ==
  /\ barrier # NoOne
  /\ LongSnapshots \/ snapshot[barrier] \notin Holding \cup Ended
  /\ barrier' = NoOne
  /\ UNCHANGED <<activeWrites, counterTtl, request, media, work>>

\* PEXPIRE on the counter runs from the last enterWrite.
CounterExpires ==
  /\ counterTtl = "running"
  /\ LongWrites \/ CountedWriters = {}
  /\ activeWrites' = 0
  /\ counterTtl' = "unset"
  /\ UNCHANGED <<barrier, request, media, work>>

-----------------------------------------------------------------------------
WriterNext(w) ==
  \/ EnterWrite(w) \/ EnterRejected(w) \/ Retry(w)
  \/ StoreFile(w) \/ CreateRow(w) \/ DeleteRow(w) \/ UnlinkFile(w)
  \/ LeaveWrite(w) \/ ClampCounter(w) \/ LeaveFails(w) \/ ApiCrash(w)

WorkerNext(k) ==
  \/ AcquireWriteBarrier(k) \/ BarrierBusy(k) \/ AcquireLost(k)
  \/ Drained(k) \/ DrainTimeout(k)
  \/ PgDump(k) \/ ArchiveUploads(k) \/ CaptureFails(k)
  \/ ReleaseWriteBarrier(k) \/ ReleaseFails(k)

Next ==
  \/ \E w \in Writers : WriterNext(w)
  \/ \E k \in Workers : WorkerNext(k) \/ WorkerCrash(k)
  \/ BarrierExpires
  \/ CounterExpires

Spec == Init /\ [][Next]_vars

\* A running worker takes its next step, and Redis removes expired keys.
Fairness ==
  /\ \A k \in Workers : WF_vars(/\ snapshot[k] # "idle"
                                /\ WorkerNext(k))
  /\ WF_vars(BarrierExpires)

FairSpec == Spec /\ Fairness

-----------------------------------------------------------------------------
(***************************************************************************)
(* Properties.                                                             *)
(***************************************************************************)

\* Type correctness of the Redis keys, the requests and the workers.
TypeOK ==
  /\ barrier \in Workers \cup {NoOne}
  /\ activeWrites \in Int
  /\ counterTtl \in {"unset", "running"}
  /\ request \in [Writers -> RequestPC]
  /\ snapshot \in [Workers -> SnapshotPC]
  /\ outcome \in Outcome
  /\ rows \subseteq Writers
  /\ files \subseteq Writers
  /\ dump \in [Workers -> SUBSET Writers]
  /\ archive \in [Workers -> SUBSET Writers]

\* The active-writes counter never misses a running mutation: crashes of the
\* API and lost leaveWrite calls only ever leave it too high, never too low
\* (the INCR of ENTER_WRITE_SCRIPT against the DECR of leaveWrite).
CounterCoversWriters == Cardinality(CountedWriters) <= activeWrites

\* Between the end of waitForWritesToDrain and the end of
\* createLocalBackupArtifact no mutation is running.
CaptureExcludesWrites ==
  \A k \in Workers : snapshot[k] \in Capturing => CountedWriters = {}

\* A finished artifact can be restored without a dangling medium: every media
\* row in database.dump has its file in uploads.tar.gz, whatever uploads and
\* removals raced with the snapshot.
ArtifactComplete ==
  \A k \in Workers :
    snapshot[k] = "finished" => dump[k] \subseteq archive[k]

\* The artifacts that createConsistentArtifact has finished.
Artifacts ==
  [k \in Workers |-> IF snapshot[k] = "finished"
                     THEN {[dump |-> dump[k], archive |-> archive[k]]} ELSE {}]

Consistent == INSTANCE ConsistentSnapshot WITH Media <- Writers, artifact <- Artifacts

\* pg_dump and tar run one after the other and beside uploads and removals of other
\* processes; the artifact is nevertheless the state of database and uploads at one
\* moment: createConsistentArtifact implements ConsistentSnapshot.
ImplementsSnapshot == Consistent!Spec

\* A barrier goes away only by a step of the worker that holds it or by its
\* TTL, in which no process moves: a worker whose own barrier has expired
\* cannot lift its successor's (RELEASE_SCRIPT compares the token).
ForeignBarrierKept ==
  [][\A k \in Workers :
       barrier = k /\ barrier' # k =>
         \/ snapshot[k] # snapshot'[k]
         \/ UNCHANGED <<snapshot, request>>]_vars

\* Write protection is temporary: whatever crashes or gets lost, the barrier
\* is lifted again, by releaseWriteBarrier or by its TTL.
BarrierLifted == barrier # NoOne ~> barrier = NoOne

-----------------------------------------------------------------------------
(***************************************************************************)
(* The inductive invariant behind the safety properties.                   *)
(***************************************************************************)

\* While nothing outlives the counter's TTL, DECR never goes below zero and
\* leaveWrite's second command is never sent.
NeverUnderflows == \A w \in Writers : request[w] # "clamping"

\* While nothing outlives the barrier's TTL, a worker owns the barrier from
\* its acquisition to its release.
BarrierOwned ==
  \A k \in Workers :
    snapshot[k] \in Holding \cup Ended => barrier = k

\* Uploads write the file first, removals delete the row first.
RowsHaveFiles ==
  /\ rows \subseteq files
  /\ \A w \in Writers :
       /\ request[w] \in {"storeFile", "createRow", "unlinkFile"} => w \notin rows
       /\ request[w] = "createRow" => w \in files

\* The rows dumped are still the rows when tar starts.
DumpIsCurrent ==
  \A k \in Workers : snapshot[k] = "archiving" => dump[k] = rows

SnapshotInv ==
  /\ TypeOK
  /\ CounterCoversWriters
  /\ NeverUnderflows
  /\ BarrierOwned
  /\ CaptureExcludesWrites
  /\ RowsHaveFiles
  /\ DumpIsCurrent
  /\ ArtifactComplete
=============================================================================

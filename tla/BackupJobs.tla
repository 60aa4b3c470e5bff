----------------------------- MODULE BackupJobs -----------------------------
(***************************************************************************)
(* The backup job queue in PostgreSQL: BackupsService and the scheduler    *)
(* append jobs, BackupJobWorkerService claims and executes them and then   *)
(* applies the plan's retention.                                           *)
(*                                                                         *)
(* A job's number is its position in createdAt order.  A destination's     *)
(* configuration is a version number, raised by every settings change.     *)
(* BackupCoordination models how a consistent artifact comes about; here a *)
(* backup either publishes a complete artifact or fails, possibly leaving  *)
(* something behind.  BackupRetention computes which artifacts of a list   *)
(* have expired; here it is any subset that spares the newest.             *)
(***************************************************************************)
EXTENDS Integers, FiniteSets

CONSTANTS
  Workers,     \* backup worker processes
  Requests,    \* concurrent API requests that append jobs
  Dests,       \* ids of backup destinations
  Remote,      \* the destinations of type sftp or s3
  Plans,       \* ids of backup plans
  NoOne,       \* SQL NULL, or no lock holder
  MaxJobs,     \* bound on the number of jobs
  MaxEdits,    \* bound on the administrators' edits of destinations and plans
  MaxCrashes   \* bound on the number of worker crashes

ASSUME JobsAssumption ==
  /\ Remote \subseteq Dests
  /\ NoOne \notin Workers \cup Dests \cup Plans
  /\ MaxJobs \in Nat /\ MaxEdits \in Nat /\ MaxCrashes \in Nat

Jobs == 1..MaxJobs

VARIABLES
  destState,     \* BackupDestination: does it exist, is it enabled?
  config,        \* BackupDestination.config and credentials, as a version
  tested,        \* BackupDestination.lastTestSucceeded
  testedConfig,  \* history: the version the last successful test connected to
  planState,     \* BackupPlan: does it exist, is it enabled?
  planDest,      \* BackupPlan.destinationId
  created,       \* number of jobs created so far
  status,        \* BackupJob.status; "none" for jobs not yet created
  operation,     \* BackupJob.operation
  destinationId, \* BackupJob.destinationId
  planId,        \* BackupJob.planId
  sourceJobId,   \* BackupJob.sourceJobId, 0 for NULL
  path,          \* BackupJob.artifactPath
  stored,        \* the job's artifact in the destination's storage
  lock,          \* Redis lock job:<id>
  pending,       \* API requests between their checks and backupJob.create
  pc,            \* where each worker is in processNextJob
  cand,          \* the id of the job it works on
  copy,          \* the destination and source columns read with that job
  expired,       \* what applyRetention still has to remove
  edits,         \* number of administrators' edits so far
  crashes        \* number of worker crashes so far

destVars == <<destState, config, tested, testedConfig>>
planVars == <<planState, planDest>>
rowVars  == <<operation, destinationId, planId, sourceJobId>>
jobVars  == <<created, status, rowVars, path>>
workVars == <<pc, cand, copy, expired>>
counters == <<edits, crashes>>
vars == <<destVars, planVars, jobVars, stored, lock, pending, workVars, counters>>

Operation == {"BACKUP", "CONNECTION_TEST", "RESTORE_PREFLIGHT"}
Active    == {"QUEUED", "RUNNING"}
Status    == Active \cup {"none", "SUCCEEDED", "FAILED"}
Existing  == {"enabled", "disabled"}
RowState  == Existing \cup {"unused", "deleted"}

\* The job is claimed and its worker has not finished with it.
Executing == {"executing", "tested", "executed", "listing", "retaining",
              "forgetting", "failing"}
WorkerPC  == Executing \cup {"idle", "found", "locked", "releasing"}

JobRow == [op : Operation, dest : Dests \cup {NoOne}, plan : Plans \cup {NoOne},
           source : 0..MaxJobs]
Copy   == [dest : Dests \cup {NoOne}, state : RowState, config : Nat,
           plan : Plans \cup {NoOne}, source : {"valid", "invalid"}]

NoCopy == [dest |-> NoOne, state |-> "unused", config |-> 0, plan |-> NoOne,
           source |-> "invalid"]

\* orderBy createdAt "asc" or "desc".
IsOldest(j, S) == j \in S /\ \A i \in S : j <= i
IsNewest(j, S) == j \in S /\ \A i \in S : i <= j

Queued == {j \in Jobs : status[j] = "QUEUED"}

ActiveJobs(op, d) ==
  {j \in Jobs : status[j] \in Active /\ operation[j] = op /\ destinationId[j] = d}

Init ==
  /\ destState = [d \in Dests |-> "unused"]
  /\ config = [d \in Dests |-> 0]
  /\ tested = [d \in Dests |-> "null"]
  /\ testedConfig = [d \in Dests |-> 0]
  /\ planState = [p \in Plans |-> "unused"]
  /\ planDest = [p \in Plans |-> NoOne]
  /\ created = 0
  /\ status = [j \in Jobs |-> "none"]
  /\ operation = [j \in Jobs |-> "BACKUP"]
  /\ destinationId = [j \in Jobs |-> NoOne]
  /\ planId = [j \in Jobs |-> NoOne]
  /\ sourceJobId = [j \in Jobs |-> 0]
  /\ path = [j \in Jobs |-> "null"]
  /\ stored = [j \in Jobs |-> "absent"]
  /\ lock = [j \in Jobs |-> NoOne]
  /\ pending = [r \in Requests |-> {}]
  /\ pc = [k \in Workers |-> "idle"]
  /\ cand = [k \in Workers |-> 0]
  /\ copy = [k \in Workers |-> NoCopy]
  /\ expired = [k \in Workers |-> {}]
  /\ edits = 0
  /\ crashes = 0

-----------------------------------------------------------------------------
(***************************************************************************)
(* BackupsService: destinations and plans.                                 *)
(***************************************************************************)

Edit == edits < MaxEdits /\ edits' = edits + 1

CreateDestination(d) ==
  /\ Edit
  /\ destState[d] = "unused"
  /\ \E s \in Existing : destState' = [destState EXCEPT ![d] = s]
  /\ UNCHANGED <<config, tested, testedConfig, planVars, jobVars, stored, lock,
                 pending, workVars, crashes>>

\* updateDestination with isEnabled.
SwitchDestination(d) ==
  /\ Edit
  /\ destState[d] \in Existing
  /\ destState' = [destState EXCEPT ![d] =
                     IF @ = "enabled" THEN "disabled" ELSE "enabled"]
  /\ UNCHANGED <<config, tested, testedConfig, planVars, jobVars, stored, lock,
                 pending, workVars, crashes>>

\* updateDestination with settings: the previous test becomes void.
ReconfigureDestination(d) ==
  /\ Edit
  /\ destState[d] \in Existing
  /\ config' = [config EXCEPT ![d] = @ + 1]
  /\ tested' = [tested EXCEPT ![d] = "null"]
  /\ UNCHANGED <<destState, testedConfig, planVars, jobVars, stored, lock,
                 pending, workVars, crashes>>

\* Refused while a plan uses it (the check, and the foreign key); the jobs'
\* destinationId is set to NULL.
DeleteDestination(d) ==
  /\ Edit
  /\ destState[d] \in Existing
  /\ \A p \in Plans : planState[p] \in Existing => planDest[p] # d
  /\ destState' = [destState EXCEPT ![d] = "deleted"]
  /\ destinationId' = [j \in Jobs |-> IF destinationId[j] = d THEN NoOne
                                                             ELSE destinationId[j]]
  /\ UNCHANGED <<config, tested, testedConfig, planVars, created, status, operation,
                 planId, sourceJobId, path, stored, lock, pending, workVars, crashes>>

\* assertDestinationTested together with requiresConnectionTest.
Tested(d) == d \in Remote => tested[d] = "ok"

\* createPlan and updatePlan: an enabled plan needs an enabled, tested target.
SavePlan(p, d, s) ==
  /\ Edit
  /\ planState[p] \in Existing \cup {"unused"}
  /\ destState[d] \in Existing
  /\ s = "enabled" => destState[d] = "enabled" /\ Tested(d)
  /\ planState' = [planState EXCEPT ![p] = s]
  /\ planDest' = [planDest EXCEPT ![p] = d]
  /\ UNCHANGED <<destVars, jobVars, stored, lock, pending, workVars, crashes>>

\* The jobs' planId is set to NULL.
DeletePlan(p) ==
  /\ Edit
  /\ planState[p] \in Existing
  /\ planState' = [planState EXCEPT ![p] = "deleted"]
  /\ planId' = [j \in Jobs |-> IF planId[j] = p THEN NoOne ELSE planId[j]]
  /\ UNCHANGED <<destVars, planDest, created, status, operation, destinationId,
                 sourceJobId, path, stored, lock, pending, workVars, crashes>>

-----------------------------------------------------------------------------
(***************************************************************************)
(* Appending jobs.  The three service methods read first and create later, *)
(* in separate statements; the scheduler creates without looking.          *)
(***************************************************************************)

Row(op, d, p, s) == [op |-> op, dest |-> d, plan |-> p, source |-> s]

Submit(r, row) ==
  /\ pending[r] = {}
  /\ pending' = [pending EXCEPT ![r] = {row}]
  /\ UNCHANGED <<destVars, planVars, jobVars, stored, lock, workVars, counters>>

\* With a planId the plan's destination is used, otherwise the given one.
StartBackupJob(r, d, p) ==
  /\ p # NoOne => planState[p] \in Existing /\ planDest[p] = d
  /\ destState[d] = "enabled"
  /\ Tested(d)
  /\ ActiveJobs("BACKUP", d) = {}
  /\ Submit(r, Row("BACKUP", d, p, 0))

StartConnectionTest(r, d) ==
  /\ destState[d] \in Existing
  /\ ActiveJobs("CONNECTION_TEST", d) = {}
  /\ Submit(r, Row("CONNECTION_TEST", d, NoOne, 0))

PrepareRestore(r, s) ==
  /\ operation[s] = "BACKUP" /\ status[s] = "SUCCEEDED"
  /\ path[s] = "set" /\ destinationId[s] # NoOne
  /\ ~ \E j \in Jobs : /\ status[j] \in Active
                       /\ operation[j] = "RESTORE_PREFLIGHT" /\ sourceJobId[j] = s
  /\ Submit(r, Row("RESTORE_PREFLIGHT", destinationId[s], NoOne, s))

Append(row) ==
  /\ created < MaxJobs
  /\ created' = created + 1
  /\ status' = [status EXCEPT ![created + 1] = "QUEUED"]
  /\ operation' = [operation EXCEPT ![created + 1] = row.op]
  /\ destinationId' = [destinationId EXCEPT ![created + 1] = row.dest]
  /\ planId' = [planId EXCEPT ![created + 1] = row.plan]
  /\ sourceJobId' = [sourceJobId EXCEPT ![created + 1] = row.source]
  /\ UNCHANGED path

\* The foreign keys of the row to be created are valid.
Referable(row) ==
  /\ destState[row.dest] \in Existing
  /\ row.plan # NoOne => planState[row.plan] \in Existing

CreateJob(r) ==
  /\ \E row \in pending[r] : Referable(row) /\ Append(row)
  /\ pending' = [pending EXCEPT ![r] = {}]
  /\ UNCHANGED <<destVars, planVars, stored, lock, workVars, counters>>

\* The destination or the plan was deleted after the checks.
CreateJobFails(r) ==
  /\ \E row \in pending[r] : ~Referable(row)
  /\ pending' = [pending EXCEPT ![r] = {}]
  /\ UNCHANGED <<destVars, planVars, jobVars, stored, lock, workVars, counters>>

\* scheduleDuePlans; when a plan is due is the matter of BackupScheduler.
ScheduleJob(p) ==
  /\ planState[p] = "enabled"
  /\ Append(Row("BACKUP", planDest[p], p, 0))
  /\ UNCHANGED <<destVars, planVars, stored, lock, pending, workVars, counters>>

-----------------------------------------------------------------------------
(***************************************************************************)
(* BackupJobWorkerService.processNextJob.                                  *)
(***************************************************************************)

Step(k, from, to) ==
  /\ pc[k] = from
  /\ pc' = [pc EXCEPT ![k] = to]

\* Back to the loop of runForever.
Loop(k) ==
  /\ pc' = [pc EXCEPT ![k] = "idle"]
  /\ cand' = [cand EXCEPT ![k] = 0]
  /\ copy' = [copy EXCEPT ![k] = NoCopy]
  /\ expired' = [expired EXCEPT ![k] = {}]

\* The source as executeRestorePreflight judges it, by the columns read here.
SourceColumns(j) ==
  LET s == sourceJobId[j] IN
  IF /\ s # 0
     /\ status[s] = "SUCCEEDED" /\ path[s] = "set"
     /\ destinationId[s] = destinationId[j]
  THEN "valid" ELSE "invalid"

Columns(j) ==
  LET d == destinationId[j] IN
  [dest   |-> d,
   state  |-> IF d = NoOne THEN "unused" ELSE destState[d],
   config |-> IF d = NoOne THEN 0 ELSE config[d],
   plan   |-> planId[j],
   source |-> SourceColumns(j)]

\* findFirst with its include.
FindCandidate(k) ==
  /\ Step(k, "idle", "found")
  /\ \E j \in Queued :
       /\ IsOldest(j, Queued)
       /\ cand' = [cand EXCEPT ![k] = j]
       /\ copy' = [copy EXCEPT ![k] = Columns(j)]
  /\ UNCHANGED <<destVars, planVars, jobVars, stored, lock, pending, expired, counters>>

AcquireLock(k) ==
  /\ Step(k, "found", "locked")
  /\ lock[cand[k]] = NoOne
  /\ lock' = [lock EXCEPT ![cand[k]] = k]
  /\ UNCHANGED <<destVars, planVars, jobVars, stored, pending, cand, copy, expired, counters>>

LockBusy(k) ==
  /\ pc[k] = "found"
  /\ lock[cand[k]] # NoOne
  /\ Loop(k)
  /\ UNCHANGED <<destVars, planVars, jobVars, stored, lock, pending, counters>>

\* Mutant of Claim: update by id instead of the conditional updateMany.
ClaimAnyStatus(k) ==
  /\ Step(k, "locked", "executing")
  /\ status' = [status EXCEPT ![cand[k]] = "RUNNING"]
  /\ UNCHANGED <<destVars, planVars, created, rowVars, path, stored, lock, pending,
                 cand, copy, expired, counters>>

\* updateMany where status is still QUEUED.
Claim(k) ==
  /\ Step(k, "locked", "executing")
  /\ status[cand[k]] = "QUEUED"
  /\ status' = [status EXCEPT ![cand[k]] = "RUNNING"]
  /\ UNCHANGED <<destVars, planVars, created, rowVars, path, stored, lock, pending,
                 cand, copy, expired, counters>>

ClaimLost(k) ==
  /\ Step(k, "locked", "releasing")
  /\ status[cand[k]] # "QUEUED"
  /\ UNCHANGED <<destVars, planVars, jobVars, stored, lock, pending, cand, copy,
                 expired, counters>>

Op(k) == operation[cand[k]]

\* executeBackup: adapter() refuses a missing or disabled destination.
ExecuteBackup(k) ==
  /\ Step(k, "executing", "executed")
  /\ Op(k) = "BACKUP"
  /\ copy[k].state = "enabled"
  /\ stored' = [stored EXCEPT ![cand[k]] = "complete"]
  /\ UNCHANGED <<destVars, planVars, jobVars, lock, pending, cand, copy, expired, counters>>

\* executeConnectionTest: testConnection uses the columns read with the job ...
TestConnection(k) ==
  /\ Step(k, "executing", "tested")
  /\ Op(k) = "CONNECTION_TEST"
  /\ copy[k].dest # NoOne
  /\ UNCHANGED <<destVars, planVars, jobVars, stored, lock, pending, cand, copy,
                 expired, counters>>

\* ... and the result is stored for the destination's id, if it still exists.
RecordTest(k) ==
  /\ Step(k, "tested", "executed")
  /\ LET d == copy[k].dest IN
       /\ destState[d] \in Existing
       /\ tested' = [tested EXCEPT ![d] = "ok"]
       /\ testedConfig' = [testedConfig EXCEPT ![d] = copy[k].config]
  /\ UNCHANGED <<destState, config, planVars, jobVars, stored, lock, pending, cand,
                 copy, expired, counters>>

\* executeRestorePreflight: verify, download and check the source artifact.
ExecutePreflight(k) ==
  /\ Step(k, "executing", "executed")
  /\ Op(k) = "RESTORE_PREFLIGHT"
  /\ copy[k].source = "valid" /\ copy[k].dest # NoOne
  /\ stored[sourceJobId[cand[k]]] = "complete"
  /\ UNCHANGED <<destVars, planVars, jobVars, stored, lock, pending, cand, copy,
                 expired, counters>>

\* Anything thrown inside the inner try.  A failed publish may leave a partial
\* artifact, or a complete one whose confirmation was lost.
ExecuteFails(k) ==
  /\ pc[k] \in {"executing", "tested"}
  /\ pc' = [pc EXCEPT ![k] = "failing"]
  /\ \/ UNCHANGED stored
     \/ /\ Op(k) = "BACKUP" /\ copy[k].state = "enabled"
        /\ \E a \in {"partial", "complete"} : stored' = [stored EXCEPT ![cand[k]] = a]
  /\ UNCHANGED <<destVars, planVars, jobVars, lock, pending, cand, copy, expired, counters>>

Succeed(k) ==
  /\ status' = [status EXCEPT ![cand[k]] = "SUCCEEDED"]
  /\ path' = [path EXCEPT ![cand[k]] = IF Op(k) = "CONNECTION_TEST" THEN @ ELSE "set"]
  /\ UNCHANGED <<destVars, planVars, created, rowVars, stored, lock, pending, cand, copy,
                 expired, counters>>

\* markSucceeded; applyRetention follows for a backup that has a planId.
MarkSucceeded(k) ==
  /\ Step(k, "executed",
          IF Op(k) = "BACKUP" /\ copy[k].plan # NoOne THEN "listing" ELSE "releasing")
  /\ Succeed(k)

\* The transaction commits, its answer is lost, and `catch` marks the job failed.
MarkSucceededUnanswered(k) ==
  /\ Step(k, "executed", "failing")
  /\ Succeed(k)

\* The transaction is rolled back.
MarkSucceededFails(k) ==
  /\ Step(k, "executed", "failing")
  /\ UNCHANGED <<destVars, planVars, jobVars, stored, lock, pending, cand, copy,
                 expired, counters>>

\* Mutant of MarkFailed: it stores the error code as the status.
MarkFailedStoresCode(k) ==
  /\ Step(k, "failing", "releasing")
  /\ status' = [status EXCEPT ![cand[k]] = "BACKUP_WORKER_FAILED"]
  /\ UNCHANGED <<destVars, planVars, created, rowVars, path, stored, lock, pending, cand,
                 copy, expired, counters>>

\* markFailed: one transaction, unconditional by id, that also notes a failed
\* connection test and so needs the destination row.
MarkFailed(k) ==
  /\ Step(k, "failing", "releasing")
  /\ status' = [status EXCEPT ![cand[k]] = "FAILED"]
  /\ IF Op(k) = "CONNECTION_TEST" /\ copy[k].dest # NoOne
     THEN /\ destState[copy[k].dest] \in Existing
          /\ tested' = [tested EXCEPT ![copy[k].dest] = "failed"]
     ELSE UNCHANGED tested
  /\ UNCHANGED <<destState, config, testedConfig, planVars, created, rowVars, path, stored,
                 lock, pending, cand, copy, expired, counters>>

\* markFailed throws, out of `catch`: the job stays RUNNING.
MarkFailedFails(k) ==
  /\ Step(k, "failing", "releasing")
  /\ UNCHANGED <<destVars, planVars, jobVars, stored, lock, pending, cand, copy,
                 expired, counters>>

-----------------------------------------------------------------------------
(***************************************************************************)
(* applyRetention: list, and then verify, delete and forget one by one.    *)
(* Any exception ends the loop and is only logged.                         *)
(***************************************************************************)

Retainable(p) ==
  {j \in Jobs : /\ planId[j] = p /\ operation[j] = "BACKUP"
                /\ status[j] = "SUCCEEDED" /\ path[j] = "set"}

\* Mutant of ExpiredChoices: retention limits alone decide.
ExpiredChoicesOfAll(L) == SUBSET {j \in L : destinationId[j] # NoOne}

\* expiredBackupJobIds spares at least the newest of the list; jobs without a
\* destination are skipped.
ExpiredChoices(L) ==
  SUBSET {j \in L : ~IsNewest(j, L) /\ destinationId[j] # NoOne}

ListExpired(k) ==
  /\ Step(k, "listing", "retaining")
  /\ planState[copy[k].plan] \in Existing
  /\ \E E \in ExpiredChoices(Retainable(copy[k].plan)) :
       expired' = [expired EXCEPT ![k] = E]
  /\ UNCHANGED <<destVars, planVars, jobVars, stored, lock, pending, cand, copy, counters>>

\* adapter.verify of the newest expired artifact, then adapter.delete.
DeleteArtifact(k) ==
  /\ Step(k, "retaining", "forgetting")
  /\ \E j \in expired[k] :
       /\ IsNewest(j, expired[k])
       /\ stored[j] = "complete"
       /\ stored' = [stored EXCEPT ![j] = "absent"]
  /\ UNCHANGED <<destVars, planVars, jobVars, lock, pending, cand, copy, expired, counters>>

\* artifactPath becomes NULL in a transaction of its own.
ForgetArtifact(k) ==
  /\ Step(k, "forgetting", "retaining")
  /\ \E j \in expired[k] :
       /\ IsNewest(j, expired[k])
       /\ path' = [path EXCEPT ![j] = "null"]
       /\ expired' = [expired EXCEPT ![k] = @ \ {j}]
  /\ UNCHANGED <<destVars, planVars, created, status, rowVars, stored, lock, pending,
                 cand, copy, counters>>

\* The plan is gone, nothing is left to remove, or verify, delete or the
\* transaction throws; a delete that throws may have removed some files.
RetentionEnds(k) ==
  /\ pc[k] \in {"listing", "retaining", "forgetting"}
  /\ pc' = [pc EXCEPT ![k] = "releasing"]
  /\ expired' = [expired EXCEPT ![k] = {}]
  /\ \/ UNCHANGED stored
     \/ /\ pc[k] = "retaining"
        /\ \E j \in expired[k] :
             /\ IsNewest(j, expired[k])
             /\ stored[j] = "complete"
             /\ stored' = [stored EXCEPT ![j] = "partial"]
  /\ UNCHANGED <<destVars, planVars, jobVars, lock, pending, cand, copy, counters>>

ReleaseLock(k) ==
  /\ pc[k] = "releasing"
  /\ lock' = [lock EXCEPT ![cand[k]] = IF @ = k THEN NoOne ELSE @]
  /\ Loop(k)
  /\ UNCHANGED <<destVars, planVars, jobVars, stored, pending, counters>>

\* The process dies, or a call outside the try blocks throws; nothing resets the
\* job it was running.
WorkerCrash(k) ==
  /\ pc[k] # "idle"
  /\ crashes < MaxCrashes
  /\ crashes' = crashes + 1
  /\ Loop(k)
  /\ UNCHANGED <<destVars, planVars, jobVars, stored, lock, pending, edits>>

HolderWorks(j) == \E k \in Workers : /\ lock[j] = k /\ cand[k] = j
                                     /\ pc[k] \notin {"idle", "found"}

\* Mutant of LockExpires: the lock is set without PX.
LockNeverExpires(j) ==
  /\ lock[j] # NoOne
  /\ FALSE
  /\ UNCHANGED vars

\* The TTL of six hours, counted from acquireLock.
LockExpires(j) ==
  /\ lock[j] # NoOne
  /\ lock' = [lock EXCEPT ![j] = NoOne]
  /\ UNCHANGED <<destVars, planVars, jobVars, stored, pending, workVars, counters>>

-----------------------------------------------------------------------------
WorkerNext(k) ==
  \/ FindCandidate(k) \/ AcquireLock(k) \/ LockBusy(k) \/ Claim(k) \/ ClaimLost(k)
  \/ ExecuteBackup(k) \/ TestConnection(k) \/ RecordTest(k) \/ ExecutePreflight(k)
  \/ ExecuteFails(k)
  \/ MarkSucceeded(k) \/ MarkSucceededUnanswered(k) \/ MarkSucceededFails(k)
  \/ MarkFailed(k) \/ MarkFailedFails(k)
  \/ ListExpired(k) \/ DeleteArtifact(k) \/ ForgetArtifact(k) \/ RetentionEnds(k)
  \/ ReleaseLock(k)

DestinationNext(d) ==
  \/ CreateDestination(d) \/ SwitchDestination(d) \/ ReconfigureDestination(d)
  \/ DeleteDestination(d)

PlanNext(p) ==
  \/ \E d \in Dests, s \in Existing : SavePlan(p, d, s)
  \/ DeletePlan(p)
  \/ ScheduleJob(p)

RequestNext(r) ==
  \/ \E d \in Dests, p \in Plans \cup {NoOne} : StartBackupJob(r, d, p)
  \/ \E d \in Dests : StartConnectionTest(r, d)
  \/ \E s \in Jobs : PrepareRestore(r, s)
  \/ CreateJob(r)
  \/ CreateJobFails(r)

Next ==
  \/ \E k \in Workers : WorkerNext(k) \/ WorkerCrash(k)
  \/ \E d \in Dests : DestinationNext(d)
  \/ \E p \in Plans : PlanNext(p)
  \/ \E r \in Requests : RequestNext(r)
  \/ \E j \in Jobs : LockExpires(j)

Spec == Init /\ [][Next]_vars

\* The worker process loops, and Redis drops the locks of dead workers.
Fairness ==
  /\ \A k \in Workers : WF_vars(WorkerNext(k))
  /\ \A j \in Jobs : WF_vars(~HolderWorks(j) /\ LockExpires(j))

FairSpec == Spec /\ Fairness

-----------------------------------------------------------------------------
(***************************************************************************)
(* Properties.                                                             *)
(***************************************************************************)

\* Type correctness of the tables, the locks and the workers.
TypeOK ==
  /\ destState \in [Dests -> RowState]
  /\ config \in [Dests -> Nat]
  /\ tested \in [Dests -> {"null", "ok", "failed"}]
  /\ testedConfig \in [Dests -> Nat]
  /\ planState \in [Plans -> RowState]
  /\ planDest \in [Plans -> Dests \cup {NoOne}]
  /\ created \in 0..MaxJobs
  /\ status \in [Jobs -> Status]
  /\ operation \in [Jobs -> Operation]
  /\ destinationId \in [Jobs -> Dests \cup {NoOne}]
  /\ planId \in [Jobs -> Plans \cup {NoOne}]
  /\ sourceJobId \in [Jobs -> 0..MaxJobs]
  /\ path \in [Jobs -> {"null", "set"}]
  /\ stored \in [Jobs -> {"absent", "partial", "complete"}]
  /\ lock \in [Jobs -> Workers \cup {NoOne}]
  /\ pending \in [Requests -> SUBSET JobRow]
  /\ pc \in [Workers -> WorkerPC]
  /\ cand \in [Workers -> 0..MaxJobs]
  /\ copy \in [Workers -> Copy]
  /\ expired \in [Workers -> SUBSET Jobs]
  /\ edits \in 0..MaxEdits
  /\ crashes \in 0..MaxCrashes

\* Two workers never execute one job, even when its Redis lock expires under
\* the worker that holds it: the conditional updateMany decides.
ExclusiveExecution ==
  \A k, l \in Workers :
    pc[k] \in Executing /\ pc[l] \in Executing /\ cand[k] = cand[l] => k = l

\* applyRetention never removes a plan's last restore point: as long as the
\* history of a plan shows a successful backup, storage holds a complete
\* artifact of that plan, whatever several workers list, delete, record
\* twice or abandon half-way.
RestorePointKept ==
  \A p \in Plans :
    (\E j \in Jobs : planId[j] = p /\ operation[j] = "BACKUP" /\ status[j] = "SUCCEEDED")
    => \E j \in Jobs : planId[j] = p /\ operation[j] = "BACKUP" /\ stored[j] = "complete"

\* Every queued job is taken up: a lock left by a dead worker, and the jobs
\* queued behind it, wait no longer than the lock's TTL.
QueueDrains ==
  \A j \in Jobs : status[j] = "QUEUED" ~> status[j] # "QUEUED"

\* updateDestination's comment: every change of configuration or credentials
\* voids the test before it, so a positive test is one of the current settings.
TestIsOfCurrentConfig ==
  \A d \in Dests : tested[d] = "ok" => testedConfig[d] = config[d]

-----------------------------------------------------------------------------
(***************************************************************************)
(* The inductive invariant behind the safety properties.                   *)
(***************************************************************************)

\* A job has no artifact before it is claimed.
UnclaimedIsAbsent ==
  /\ \A j \in Jobs : status[j] = "none" <=> created < j
  /\ \A j \in Jobs : status[j] \in {"none", "QUEUED"} => stored[j] = "absent"

\* A worker works on a created job, which left QUEUED before it executes, is
\* RUNNING until markSucceeded, and has no artifact before it publishes.
OnCandidate(k) ==
  /\ pc[k] # "idle" => cand[k] \in Jobs /\ status[cand[k]] # "none"
  /\ pc[k] \in Executing => status[cand[k]] # "QUEUED"
  /\ pc[k] \in {"executing", "tested", "executed"} => status[cand[k]] = "RUNNING"
  /\ pc[k] \in {"executing", "tested"} => stored[cand[k]] = "absent"
  /\ pc[k] = "tested" => operation[cand[k]] = "CONNECTION_TEST"
  /\ pc[k] = "executed" /\ operation[cand[k]] = "BACKUP" => stored[cand[k]] = "complete"

CandidateInv == UnclaimedIsAbsent /\ \A k \in Workers : OnCandidate(k)

\* A later backup of the same plan is complete in storage.
NewerKept(j) ==
  \E i \in Jobs : /\ j < i
                  /\ planId[i] = planId[j] /\ operation[i] = "BACKUP"
                  /\ stored[i] = "complete"

\* Whatever a worker is about to remove has a newer complete artifact ...
ExpiredIsOlder ==
  \A k \in Workers : \A j \in expired[k] :
    status[j] \in {"SUCCEEDED", "FAILED"} /\ NewerKept(j)

\* ... and so has every successful backup that was removed.
RemovedIsOlder ==
  \A j \in Jobs : operation[j] = "BACKUP" /\ status[j] = "SUCCEEDED" =>
                     stored[j] = "complete" \/ NewerKept(j)

RetentionInv == ExpiredIsOlder /\ RemovedIsOlder

JobsInv == TypeOK /\ CandidateInv /\ ExclusiveExecution /\ RetentionInv
=============================================================================

-------------------------- MODULE BackupJobsProofs --------------------------
(***************************************************************************)
(* What BackupJobs promises for any number of workers, jobs, destinations  *)
(* and plans.  Exclusive execution rests on the conditional claim, the     *)
(* restore point on the fact that an expired artifact always has a newer   *)
(* complete one, a relation that survives the removal of its witness.      *)
(***************************************************************************)
EXTENDS BackupJobs, TLAPS

USE DEF Operation, Active, Status, Existing, RowState, Executing, WorkerPC, Jobs

\* Edits of destinations and plans leave jobs, storage and workers alone, except
\* that a job may lose its destination, or all jobs of a plan lose that plan.
LEMMA EditStep ==
  ASSUME TypeOK,
         \/ \E d \in Dests : DestinationNext(d)
         \/ \E p \in Plans : \/ \E d \in Dests, s \in Existing : SavePlan(p, d, s)
                             \/ DeletePlan(p)
  PROVE  /\ TypeOK'
         /\ UNCHANGED <<created, status, operation, path, stored, pc, cand, expired>>
         /\ \A i, j \in Jobs : planId[i] = planId[j] => planId'[i] = planId'[j]
<1> USE JobsAssumption DEF TypeOK, Edit, planVars, jobVars, rowVars, destVars, workVars
<1>1. ASSUME NEW d \in Dests, CreateDestination(d)
      PROVE  TypeOK' /\ UNCHANGED <<jobVars, stored, workVars>>
  BY <1>1 DEF CreateDestination
<1>6. ASSUME NEW d \in Dests, SwitchDestination(d)
      PROVE  TypeOK' /\ UNCHANGED <<jobVars, stored, workVars>>
  BY <1>6 DEF SwitchDestination
<1>2. ASSUME NEW d \in Dests, ReconfigureDestination(d)
      PROVE  TypeOK' /\ UNCHANGED <<jobVars, stored, workVars>>
  BY <1>2 DEF ReconfigureDestination
<1>3. ASSUME NEW d \in Dests, DeleteDestination(d)
      PROVE  /\ TypeOK'
             /\ UNCHANGED <<created, status, operation, planId, path, stored, workVars>>
  BY <1>3 DEF DeleteDestination
<1>4. ASSUME NEW p \in Plans, DeletePlan(p)
      PROVE  /\ TypeOK'
             /\ UNCHANGED <<created, status, operation, path, stored, workVars>>
             /\ \A i, j \in Jobs : planId[i] = planId[j] => planId'[i] = planId'[j]
  BY <1>4 DEF DeletePlan
<1>7. CASE \E d \in Dests : DestinationNext(d)
  BY <1>1, <1>2, <1>3, <1>6, <1>7 DEF DestinationNext
<1>8. CASE \E p \in Plans : \E d \in Dests, s \in Existing : SavePlan(p, d, s)
  <2> PICK p \in Plans, d \in Dests, s \in Existing : SavePlan(p, d, s)
    BY <1>8
  <2> QED  BY DEF SavePlan
<1>9. CASE \E p \in Plans : DeletePlan(p)
  BY <1>4, <1>9
<1> QED  BY <1>7, <1>8, <1>9, ZenonT(40)

\* Submitting and creating jobs keeps the types; a new job is QUEUED at the next
\* free number.
LEMMA RequestStep ==
  ASSUME TypeOK,
         \/ \E r \in Requests : RequestNext(r)
         \/ \E p \in Plans : ScheduleJob(p)
  PROVE  /\ TypeOK'
         /\ UNCHANGED <<path, stored, pc, cand, expired>>
         /\ \/ UNCHANGED <<created, status, operation, planId>>
            \/ /\ created < MaxJobs /\ created' = created + 1
               /\ status' = [status EXCEPT ![created + 1] = "QUEUED"]
               /\ \A j \in Jobs : j # created + 1 =>
                    operation'[j] = operation[j] /\ planId'[j] = planId[j]
<1> USE JobsAssumption DEF TypeOK, planVars, jobVars, rowVars, destVars, workVars, counters
<1>1. ASSUME NEW row \in JobRow, Append(row)
      PROVE  /\ created' \in 0..MaxJobs /\ status' \in [Jobs -> Status]
             /\ operation' \in [Jobs -> Operation]
             /\ destinationId' \in [Jobs -> Dests \cup {NoOne}]
             /\ planId' \in [Jobs -> Plans \cup {NoOne}]
             /\ sourceJobId' \in [Jobs -> 0..MaxJobs]
             /\ created < MaxJobs /\ created' = created + 1
             /\ status' = [status EXCEPT ![created + 1] = "QUEUED"]
             /\ \A j \in Jobs : j # created + 1 =>
                  operation'[j] = operation[j] /\ planId'[j] = planId[j]
             /\ UNCHANGED path
  BY <1>1 DEF Append, JobRow
<1>2. ASSUME NEW r \in Requests, NEW row \in JobRow, Submit(r, row)
      PROVE  TypeOK' /\ UNCHANGED <<jobVars, stored, workVars>>
  BY <1>2 DEF Submit
<1>3. ASSUME NEW r \in Requests, NEW d \in Dests, NEW p \in Plans \cup {NoOne},
             StartBackupJob(r, d, p) \/ StartConnectionTest(r, d)
      PROVE  TypeOK' /\ UNCHANGED <<jobVars, stored, workVars>>
  <2>1. /\ Row("BACKUP", d, p, 0) \in JobRow
        /\ Row("CONNECTION_TEST", d, NoOne, 0) \in JobRow
    BY DEF Row, JobRow
  <2> QED  BY <1>2, <1>3, <2>1 DEF StartBackupJob, StartConnectionTest
<1>4. ASSUME NEW r \in Requests, NEW s \in Jobs, PrepareRestore(r, s)
      PROVE  TypeOK' /\ UNCHANGED <<jobVars, stored, workVars>>
  <2>1. Row("RESTORE_PREFLIGHT", destinationId[s], NoOne, s) \in JobRow
    BY DEF Row, JobRow
  <2> QED  BY <1>2, <1>4, <2>1 DEF PrepareRestore
<1>5. ASSUME NEW r \in Requests, CreateJobFails(r)
      PROVE  TypeOK' /\ UNCHANGED <<jobVars, stored, workVars>>
  BY <1>5 DEF CreateJobFails
<1>6. CASE \E r \in Requests : CreateJob(r)
  <2> PICK r \in Requests : CreateJob(r)
    BY <1>6
  <2> PICK row \in pending[r] : Append(row)
    BY DEF CreateJob
  <2>1. row \in JobRow
    OBVIOUS
  <2> QED  BY <1>1, <2>1, ZenonT(40) DEF CreateJob
<1>7. CASE \E p \in Plans : ScheduleJob(p)
  <2> PICK p \in Plans : ScheduleJob(p)
    BY <1>7
  <2>1. Row("BACKUP", planDest[p], p, 0) \in JobRow
    BY DEF Row, JobRow
  <2>2. Append(Row("BACKUP", planDest[p], p, 0))
    BY DEF ScheduleJob
  <2>3. /\ created' \in 0..MaxJobs /\ status' \in [Jobs -> Status]
        /\ operation' \in [Jobs -> Operation]
        /\ destinationId' \in [Jobs -> Dests \cup {NoOne}]
        /\ planId' \in [Jobs -> Plans \cup {NoOne}]
        /\ sourceJobId' \in [Jobs -> 0..MaxJobs]
        /\ created < MaxJobs /\ created' = created + 1
        /\ status' = [status EXCEPT ![created + 1] = "QUEUED"]
        /\ \A j \in Jobs : j # created + 1 =>
             operation'[j] = operation[j] /\ planId'[j] = planId[j]
        /\ UNCHANGED path
    BY <1>1, <2>1, <2>2
  <2> QED  BY <2>3 DEF ScheduleJob
<1>8. CASE \E r \in Requests : RequestNext(r) /\ ~CreateJob(r)
  <2> PICK r \in Requests : RequestNext(r) /\ ~CreateJob(r)
    BY <1>8
  <2>1. CASE \E d \in Dests, p \in Plans \cup {NoOne} : StartBackupJob(r, d, p)
    BY <1>3, <2>1
  <2>2. CASE \E d \in Dests : StartConnectionTest(r, d)
    BY <1>3, <2>2
  <2>3. CASE \E s \in Jobs : PrepareRestore(r, s)
    BY <1>4, <2>3
  <2>4. CASE CreateJobFails(r)
    BY <1>5, <2>4
  <2> QED  BY <2>1, <2>2, <2>3, <2>4 DEF RequestNext
<1> QED  BY <1>6, <1>7, <1>8

\* Whatever findFirst reads with a job has the type of a copy.
LEMMA ColumnsTyped ==
  ASSUME TypeOK, NEW j \in Jobs
  PROVE  Columns(j) \in Copy
BY JobsAssumption DEF TypeOK, Columns, SourceColumns, Copy

\* Every step of a worker keeps the types.
LEMMA WorkerTypeStep ==
  ASSUME TypeOK, NEW k \in Workers, WorkerNext(k) \/ WorkerCrash(k)
  PROVE  TypeOK'
<1> USE JobsAssumption DEF Step, destVars, planVars, rowVars, jobVars, workVars, counters
<1>1. NoCopy \in Copy
  BY DEF NoCopy, Copy
<1>2. CASE FindCandidate(k)
  <2> PICK j \in Queued : /\ cand' = [cand EXCEPT ![k] = j]
                          /\ copy' = [copy EXCEPT ![k] = Columns(j)]
    BY <1>2 DEF FindCandidate
  <2>1. j \in Jobs /\ Columns(j) \in Copy
    BY ColumnsTyped DEF Queued
  <2>2. cand' \in [Workers -> 0..MaxJobs] /\ copy' \in [Workers -> Copy]
    BY <2>1 DEF TypeOK
  <2> QED  BY <1>2, <2>2 DEF FindCandidate, TypeOK
<1>3. CASE AcquireLock(k)
  BY <1>3 DEF AcquireLock, TypeOK
<1>4. ASSUME Loop(k)
      PROVE  /\ pc' \in [Workers -> WorkerPC] /\ cand' \in [Workers -> 0..MaxJobs]
             /\ copy' \in [Workers -> Copy] /\ expired' \in [Workers -> SUBSET Jobs]
  BY <1>1, <1>4 DEF Loop, TypeOK
<1>5. CASE LockBusy(k)
  BY <1>4, <1>5 DEF LockBusy, TypeOK
<1>6. CASE ReleaseLock(k)
  <2>1. lock' \in [Jobs -> Workers \cup {NoOne}]
    BY <1>6, ZenonT(40) DEF ReleaseLock, TypeOK
  <2> QED  BY <1>4, <1>6, <2>1 DEF ReleaseLock, TypeOK
<1>7. CASE WorkerCrash(k)
  BY <1>4, <1>7 DEF WorkerCrash, TypeOK
<1>8. CASE Claim(k)
  BY <1>8 DEF Claim, TypeOK
<1>9. CASE ClaimLost(k)
  BY <1>9 DEF ClaimLost, TypeOK
<1>10. CASE ExecuteBackup(k)
  BY <1>10 DEF ExecuteBackup, TypeOK
<1>11. CASE TestConnection(k)
  BY <1>11 DEF TestConnection, TypeOK
<1>12. CASE ExecutePreflight(k)
  BY <1>12 DEF ExecutePreflight, TypeOK
<1>13. CASE RecordTest(k)
  <2>1. copy[k].config \in Nat
    BY DEF TypeOK, Copy
  <2> QED  BY <1>13, <2>1 DEF RecordTest, TypeOK
<1>14. CASE ExecuteFails(k)
  <2>1. stored' \in [Jobs -> {"absent", "partial", "complete"}]
    <3>1. CASE UNCHANGED stored
      BY <3>1 DEF TypeOK
    <3>2. CASE \E a \in {"partial", "complete"} : stored' = [stored EXCEPT ![cand[k]] = a]
      BY <3>2 DEF TypeOK
    <3> QED  BY <1>14, <3>1, <3>2 DEF ExecuteFails
  <2> QED  BY <1>14, <2>1 DEF ExecuteFails, TypeOK
<1>15. ASSUME Succeed(k)
       PROVE  status' \in [Jobs -> Status] /\ path' \in [Jobs -> {"null", "set"}]
  <2>1. CASE Op(k) = "CONNECTION_TEST"
    <3>1. path' = [path EXCEPT ![cand[k]] = @]
      BY <1>15, <2>1 DEF Succeed
    <3>2. path' \in [Jobs -> {"null", "set"}]
      BY <3>1, ZenonT(40) DEF TypeOK
    <3> QED  BY <1>15, <3>2 DEF Succeed, TypeOK
  <2>2. CASE Op(k) # "CONNECTION_TEST"
    BY <1>15, <2>2 DEF Succeed, TypeOK
  <2> QED  BY <2>1, <2>2
<1>16. CASE MarkSucceeded(k)
  <2>1. pc' \in [Workers -> WorkerPC]
    BY <1>16 DEF MarkSucceeded, TypeOK
  <2> QED  BY <1>16, <1>15, <2>1 DEF MarkSucceeded, Succeed, TypeOK
<1>17. CASE MarkSucceededUnanswered(k)
  BY <1>17, <1>15 DEF MarkSucceededUnanswered, Succeed, TypeOK
<1>18. CASE MarkSucceededFails(k)
  BY <1>18 DEF MarkSucceededFails, TypeOK
<1>19. CASE MarkFailedFails(k)
  BY <1>19 DEF MarkFailedFails, TypeOK
<1>20. CASE MarkFailed(k)
  <2>1. tested' \in [Dests -> {"null", "ok", "failed"}]
    <3>1. CASE Op(k) = "CONNECTION_TEST" /\ copy[k].dest # NoOne
      <4>1. tested' = [tested EXCEPT ![copy[k].dest] = "failed"]
        BY <1>20, <3>1 DEF MarkFailed
      <4>2. tested \in [Dests -> {"null", "ok", "failed"}]
        BY DEF TypeOK
      <4> QED  BY <4>1, <4>2
    <3>2. CASE ~(Op(k) = "CONNECTION_TEST" /\ copy[k].dest # NoOne)
      BY <1>20, <3>2 DEF MarkFailed, TypeOK
    <3> QED  BY <3>1, <3>2
  <2> QED  BY <1>20, <2>1 DEF MarkFailed, TypeOK
<1>21. CASE ListExpired(k)
  <2>1. \A E \in ExpiredChoices(Retainable(copy[k].plan)) : E \in SUBSET Jobs
    BY DEF ExpiredChoices, Retainable
  <2> QED  BY <1>21, <2>1 DEF ListExpired, TypeOK
<1>22. CASE DeleteArtifact(k)
  BY <1>22 DEF DeleteArtifact, TypeOK
<1>23. CASE ForgetArtifact(k)
  BY <1>23 DEF ForgetArtifact, TypeOK
<1>24. CASE RetentionEnds(k)
  <2>1. stored' \in [Jobs -> {"absent", "partial", "complete"}]
    BY <1>24 DEF RetentionEnds, TypeOK
  <2> QED  BY <1>24, <2>1 DEF RetentionEnds, TypeOK
<1> QED
  BY <1>2, <1>3, <1>5, <1>8, <1>10, <1>13, <1>14, <1>16, <1>17, <1>20, <1>21, <1>22,
     <1>23, <1>24, <1>6, <1>7, <1>9, <1>11, <1>12, <1>18, <1>19 DEF WorkerNext

\* Redis drops a lock.
LEMMA ExpiryStep ==
  ASSUME TypeOK, NEW j \in Jobs, LockExpires(j)
  PROVE  TypeOK' /\ UNCHANGED <<jobVars, stored, workVars>>
BY DEF LockExpires, TypeOK, destVars, planVars, rowVars, jobVars, workVars, counters

\* Type correctness is inductive.
LEMMA TypeStep == TypeOK /\ [Next]_vars => TypeOK'
<1> SUFFICES ASSUME TypeOK, [Next]_vars PROVE TypeOK'
  OBVIOUS
<1>1. CASE UNCHANGED vars
  BY <1>1 DEF vars, TypeOK, destVars, planVars, rowVars, jobVars, workVars, counters
<1>2. CASE \E k \in Workers : WorkerNext(k) \/ WorkerCrash(k)
  BY <1>2, WorkerTypeStep
<1>3. CASE \E d \in Dests : DestinationNext(d)
  BY <1>3, EditStep
<1>4. CASE \E p \in Plans : PlanNext(p)
  BY <1>4, EditStep, RequestStep DEF PlanNext
<1>5. CASE \E r \in Requests : RequestNext(r)
  BY <1>5, RequestStep
<1>6. CASE \E j \in Jobs : LockExpires(j)
  BY <1>6, ExpiryStep
<1> QED  BY <1>1, <1>2, <1>3, <1>4, <1>5, <1>6 DEF Next

\* The tables, locks and workers keep their types, for any number of them.
THEOREM TypeCorrect == Spec => []TypeOK
<1>1. Init => TypeOK
  BY JobsAssumption DEF Init, TypeOK, NoCopy, Copy
<1>2. TypeOK /\ [Next]_vars => TypeOK'
  BY TypeStep
<1> QED  BY <1>1, <1>2, PTL DEF Spec

-----------------------------------------------------------------------------
\* A step of one worker keeps every worker on its candidate, and at most one of
\* them executing it.
LEMMA WorkerCandidateStep ==
  ASSUME JobsInv, NEW k \in Workers, WorkerNext(k) \/ WorkerCrash(k)
  PROVE  CandidateInv' /\ ExclusiveExecution'
<1> USE JobsAssumption DEF Step, rowVars, jobVars, workVars
<1> DEFINE Types == /\ status \in [Jobs -> Status] /\ operation \in [Jobs -> Operation]
                    /\ stored \in [Jobs -> {"absent", "partial", "complete"}]
                    /\ pc \in [Workers -> WorkerPC] /\ cand \in [Workers -> 0..MaxJobs]
                    /\ created \in 0..MaxJobs
<1>1. Types /\ UnclaimedIsAbsent /\ (\A l \in Workers : OnCandidate(l)) /\ ExclusiveExecution
  BY DEF JobsInv, TypeOK, CandidateInv
<1>2. ASSUME UNCHANGED <<status, created, operation, stored>>,
             NEW to \in WorkerPC, pc' = [pc EXCEPT ![k] = to], UNCHANGED cand,
             pc[k] # "idle",
             to \in Executing => pc[k] \in Executing,
             to \in {"executing", "tested", "executed"} => pc[k] \in {"executing", "tested"},
             to = "executing" => pc[k] = "executing",
             to = "tested" => operation[cand[k]] = "CONNECTION_TEST",
             to = "executed" => operation[cand[k]] # "BACKUP"
      PROVE  CandidateInv' /\ ExclusiveExecution'
  BY <1>1, <1>2 DEF CandidateInv, UnclaimedIsAbsent, OnCandidate, ExclusiveExecution
<1>3. ASSUME UNCHANGED <<status, created, operation, stored>>, Loop(k)
      PROVE  CandidateInv' /\ ExclusiveExecution'
  BY <1>1, <1>3 DEF Loop, CandidateInv, UnclaimedIsAbsent, OnCandidate, ExclusiveExecution
<1>4. CASE FindCandidate(k)
  BY <1>1, <1>4 DEF FindCandidate, Queued, CandidateInv, UnclaimedIsAbsent, OnCandidate,
                    ExclusiveExecution
<1>5. CASE LockBusy(k) \/ ReleaseLock(k) \/ WorkerCrash(k)
  BY <1>3, <1>5 DEF LockBusy, ReleaseLock, WorkerCrash
<1>6. CASE AcquireLock(k)
  BY <1>2, <1>6 DEF AcquireLock
<1>7. CASE ClaimLost(k)
  BY <1>2, <1>7 DEF ClaimLost
<1>8. CASE Claim(k)
  BY <1>1, <1>8 DEF Claim, CandidateInv, UnclaimedIsAbsent, OnCandidate, ExclusiveExecution
<1>9. CASE TestConnection(k)
  BY <1>2, <1>9 DEF TestConnection, Op
<1>10. CASE RecordTest(k)
  <2>1. operation[cand[k]] # "BACKUP"
    BY <1>1, <1>10 DEF RecordTest, OnCandidate
  <2> QED  BY <1>2, <1>10, <2>1 DEF RecordTest
<1>11. CASE ExecutePreflight(k)
  BY <1>2, <1>11 DEF ExecutePreflight, Op
<1>12. CASE ExecuteBackup(k)
  BY <1>1, <1>12 DEF ExecuteBackup, CandidateInv, UnclaimedIsAbsent, OnCandidate,
                     ExclusiveExecution
<1>13. CASE ExecuteFails(k)
  <2>1. \A j \in Jobs : j # cand[k] => stored'[j] = stored[j]
    BY <1>1, <1>13 DEF ExecuteFails
  <2> QED
    BY <1>1, <1>13, <2>1 DEF ExecuteFails, CandidateInv, UnclaimedIsAbsent, OnCandidate,
                             ExclusiveExecution
<1>14. ASSUME NEW to \in {"listing", "releasing", "failing"},
              pc[k] \in {"executed", "failing"},
              \/ status' = [status EXCEPT ![cand[k]] = "SUCCEEDED"]
              \/ status' = [status EXCEPT ![cand[k]] = "FAILED"],
              UNCHANGED <<created, operation, stored, cand>>,
              pc' = [pc EXCEPT ![k] = to]
       PROVE  CandidateInv' /\ ExclusiveExecution'
  BY <1>1, <1>14 DEF CandidateInv, UnclaimedIsAbsent, OnCandidate, ExclusiveExecution
<1>15. CASE MarkSucceeded(k)
  BY <1>14, <1>15 DEF MarkSucceeded, Succeed
<1>16. CASE MarkSucceededUnanswered(k)
  BY <1>14, <1>16 DEF MarkSucceededUnanswered, Succeed
<1>17. CASE MarkFailed(k)
  BY <1>14, <1>17 DEF MarkFailed
<1>18. CASE MarkSucceededFails(k)
  BY <1>2, <1>18 DEF MarkSucceededFails
<1>19. CASE MarkFailedFails(k)
  BY <1>2, <1>19 DEF MarkFailedFails
<1>20. CASE ListExpired(k)
  BY <1>2, <1>20 DEF ListExpired
<1>21. CASE ForgetArtifact(k)
  BY <1>2, <1>21 DEF ForgetArtifact
<1>22. \A j \in expired[k] : status[j] \in {"SUCCEEDED", "FAILED"}
  BY DEF JobsInv, RetentionInv, ExpiredIsOlder
<1>23. CASE DeleteArtifact(k)
  <2>1. \A j \in Jobs : status[j] \notin {"SUCCEEDED", "FAILED"} => stored'[j] = stored[j]
    BY <1>1, <1>22, <1>23 DEF DeleteArtifact
  <2>2. /\ UNCHANGED <<status, created, operation, cand>>
        /\ pc[k] = "retaining" /\ pc' = [pc EXCEPT ![k] = "forgetting"]
    BY <1>23 DEF DeleteArtifact
  <2>3. UnclaimedIsAbsent'
    BY <1>1, <2>1, <2>2 DEF UnclaimedIsAbsent
  <2>4. ASSUME NEW l \in Workers PROVE OnCandidate(l)'
    BY <1>1, <2>1, <2>2 DEF OnCandidate
  <2> QED  BY <1>1, <2>2, <2>3, <2>4 DEF CandidateInv, ExclusiveExecution
<1>24. CASE RetentionEnds(k)
  <2>1. \A j \in Jobs : status[j] \notin {"SUCCEEDED", "FAILED"} => stored'[j] = stored[j]
    BY <1>1, <1>22, <1>24 DEF RetentionEnds
  <2> QED
    BY <1>1, <1>24, <2>1 DEF RetentionEnds, CandidateInv, UnclaimedIsAbsent, OnCandidate,
                             ExclusiveExecution
<1> QED
  BY <1>4, <1>5, <1>6, <1>7, <1>8, <1>9, <1>10, <1>11, <1>12, <1>13, <1>15, <1>16, <1>17,
     <1>18, <1>19, <1>20, <1>21, <1>23, <1>24 DEF WorkerNext

-----------------------------------------------------------------------------
\* When an artifact that has a newer one goes, no other loses its newer one.
LEMMA RemovalKeepsNewer ==
  ASSUME NEW gone \in Jobs, NewerKept(gone), UNCHANGED <<planId, operation>>,
         \A i \in Jobs : i # gone /\ stored[i] = "complete" => stored'[i] = "complete",
         NEW j \in Jobs, NewerKept(j), JobsAssumption
  PROVE  NewerKept(j)'
<1> PICK i \in Jobs : /\ j < i /\ planId[i] = planId[j] /\ operation[i] = "BACKUP"
                      /\ stored[i] = "complete"
  BY DEF NewerKept
<1>1. CASE i # gone
  BY <1>1 DEF NewerKept
<1>2. CASE i = gone
  <2> PICK n \in Jobs : /\ gone < n /\ planId[n] = planId[gone] /\ operation[n] = "BACKUP"
                        /\ stored[n] = "complete"
    BY DEF NewerKept
  <2>1. j < n /\ n # gone
    BY <1>2, JobsAssumption
  <2> QED  BY <1>2, <2>1 DEF NewerKept
<1> QED  BY <1>1, <1>2

\* A step of a worker keeps a newer complete artifact for everything that is
\* removed or about to be.
LEMMA WorkerRetentionStep ==
  ASSUME JobsInv, NEW k \in Workers, WorkerNext(k) \/ WorkerCrash(k)
  PROVE  RetentionInv'
<1> USE JobsAssumption DEF Step, rowVars, jobVars, workVars
<1>1. /\ status \in [Jobs -> Status] /\ stored \in [Jobs -> {"absent", "partial", "complete"}]
      /\ cand \in [Workers -> 0..MaxJobs] /\ expired \in [Workers -> SUBSET Jobs]
      /\ pc \in [Workers -> WorkerPC] /\ planId \in [Jobs -> Plans \cup {NoOne}]
  BY DEF JobsInv, TypeOK
<1>2. ExpiredIsOlder /\ RemovedIsOlder
  BY DEF JobsInv, RetentionInv
<1>3. OnCandidate(k)
  BY DEF JobsInv, CandidateInv
<1>4. ASSUME UNCHANGED <<status, operation, planId, stored>>,
             \A l \in Workers : expired'[l] \subseteq expired[l]
      PROVE  RetentionInv'
  BY <1>2, <1>4 DEF RetentionInv, ExpiredIsOlder, RemovedIsOlder, NewerKept
<1>5. ASSUME UNCHANGED <<operation, planId, stored, expired>>,
             pc[k] # "idle",
             \/ status[cand[k]] = "QUEUED" /\ status' = [status EXCEPT ![cand[k]] = "RUNNING"]
             \/ pc[k] = "executed" /\ status' = [status EXCEPT ![cand[k]] = "SUCCEEDED"]
             \/ status' = [status EXCEPT ![cand[k]] = "FAILED"]
      PROVE  RetentionInv'
  <2>1. \A j \in Jobs : NewerKept(j)' <=> NewerKept(j)
    BY <1>5 DEF NewerKept
  <2>2. ExpiredIsOlder'
    BY <1>1, <1>2, <1>5, <2>1 DEF ExpiredIsOlder
  <2>3. RemovedIsOlder'
    BY <1>1, <1>2, <1>3, <1>5, <2>1 DEF RemovedIsOlder, OnCandidate
  <2> QED  BY <2>2, <2>3 DEF RetentionInv
<1>6. ASSUME UNCHANGED <<operation, planId, status, expired>>,
             \A j \in Jobs : stored[j] = "complete" => stored'[j] = "complete"
      PROVE  RetentionInv'
  BY <1>1, <1>2, <1>6 DEF RetentionInv, ExpiredIsOlder, RemovedIsOlder, NewerKept
<1>7. ASSUME UNCHANGED <<operation, planId, status>>,
             \A l \in Workers : expired'[l] \subseteq expired[l],
             NEW gone \in expired[k],
             \A i \in Jobs : i # gone => stored'[i] = stored[i]
      PROVE  RetentionInv'
  <2>1. gone \in Jobs /\ NewerKept(gone)
    BY <1>1, <1>2 DEF ExpiredIsOlder
  <2>2. ASSUME NEW j \in Jobs, NewerKept(j) PROVE NewerKept(j)'
    BY <1>7, <2>1, <2>2, RemovalKeepsNewer
  <2>3. ExpiredIsOlder'
    BY <1>1, <1>2, <1>7, <2>2 DEF ExpiredIsOlder
  <2>4. RemovedIsOlder'
    BY <1>1, <1>2, <1>7, <2>1, <2>2 DEF RemovedIsOlder
  <2> QED  BY <2>3, <2>4 DEF RetentionInv
<1>8. CASE ListExpired(k)
  <2> DEFINE L == Retainable(copy[k].plan)
  <2> PICK E \in ExpiredChoices(L) : expired' = [expired EXCEPT ![k] = E]
    BY <1>8 DEF ListExpired
  <2>1. UNCHANGED <<operation, planId, status, stored>>
    BY <1>8 DEF ListExpired
  <2>2. ASSUME NEW j \in E PROVE j \in Jobs /\ status[j] = "SUCCEEDED" /\ NewerKept(j)
    <3>1. j \in L /\ ~IsNewest(j, L)
      BY DEF ExpiredChoices
    <3> PICK i \in L : ~(i <= j)
      BY <3>1 DEF IsNewest
    <3>2. /\ i \in Jobs /\ j \in Jobs /\ j < i /\ planId[i] = planId[j]
          /\ operation[i] = "BACKUP" /\ status[i] = "SUCCEEDED" /\ status[j] = "SUCCEEDED"
      BY <3>1 DEF Retainable
    <3>3. stored[i] = "complete" \/ NewerKept(i)
      BY <1>2, <3>2 DEF RemovedIsOlder
    <3>4. CASE stored[i] = "complete"
      BY <3>2, <3>4 DEF NewerKept
    <3>5. CASE NewerKept(i)
      <4> PICK n \in Jobs : /\ i < n /\ planId[n] = planId[i] /\ operation[n] = "BACKUP"
                            /\ stored[n] = "complete"
        BY <3>5 DEF NewerKept
      <4>1. j < n
        BY <3>2
      <4> QED  BY <3>2, <4>1 DEF NewerKept
    <3> QED  BY <3>2, <3>3, <3>4, <3>5
  <2>3. ASSUME NEW l \in Workers, NEW j \in expired'[l]
        PROVE  status[j] \in {"SUCCEEDED", "FAILED"} /\ NewerKept(j)
    <3>1. CASE l = k
      BY <1>1, <2>2, <3>1
    <3>2. CASE l # k
      BY <1>1, <1>2, <3>2 DEF ExpiredIsOlder
    <3> QED  BY <3>1, <3>2
  <2> QED  BY <1>2, <2>1, <2>3 DEF RetentionInv, ExpiredIsOlder, RemovedIsOlder, NewerKept
<1>9. CASE FindCandidate(k) \/ AcquireLock(k) \/ ClaimLost(k)
  BY <1>4, <1>9 DEF FindCandidate, AcquireLock, ClaimLost
<1>10. CASE LockBusy(k) \/ ReleaseLock(k) \/ WorkerCrash(k)
  BY <1>1, <1>4, <1>10 DEF LockBusy, ReleaseLock, WorkerCrash, Loop
<1>11. CASE TestConnection(k) \/ RecordTest(k) \/ ExecutePreflight(k)
  BY <1>4, <1>11 DEF TestConnection, RecordTest, ExecutePreflight
<1>12. CASE MarkSucceededFails(k) \/ MarkFailedFails(k)
  BY <1>4, <1>12 DEF MarkSucceededFails, MarkFailedFails
<1>13. CASE ForgetArtifact(k)
  BY <1>1, <1>4, <1>13 DEF ForgetArtifact
<1>14. CASE Claim(k)
  BY <1>5, <1>14 DEF Claim
<1>15. CASE MarkSucceeded(k) \/ MarkSucceededUnanswered(k)
  BY <1>5, <1>15 DEF MarkSucceeded, MarkSucceededUnanswered, Succeed
<1>16. CASE MarkFailed(k)
  BY <1>5, <1>16 DEF MarkFailed
<1>17. CASE ExecuteBackup(k)
  BY <1>1, <1>6, <1>17 DEF ExecuteBackup
<1>18. CASE ExecuteFails(k)
  <2>1. \A j \in Jobs : stored[j] = "complete" => stored'[j] = "complete"
    BY <1>1, <1>3, <1>18 DEF ExecuteFails, OnCandidate
  <2> QED  BY <1>6, <1>18, <2>1 DEF ExecuteFails
<1>19. CASE DeleteArtifact(k)
  BY <1>1, <1>7, <1>19 DEF DeleteArtifact
<1>20. CASE RetentionEnds(k)
  <2>1. \A l \in Workers : expired'[l] \subseteq expired[l]
    BY <1>1, <1>20 DEF RetentionEnds
  <2>2. CASE UNCHANGED stored
    BY <1>4, <1>20, <2>1, <2>2 DEF RetentionEnds
  <2>3. CASE \E j \in expired[k] : stored' = [stored EXCEPT ![j] = "partial"]
    BY <1>1, <1>7, <1>20, <2>1, <2>3 DEF RetentionEnds
  <2> QED  BY <1>20, <2>2, <2>3 DEF RetentionEnds
<1> QED
  BY <1>8, <1>9, <1>10, <1>11, <1>12, <1>13, <1>14, <1>15, <1>16, <1>17, <1>18, <1>19,
     <1>20 DEF WorkerNext

-----------------------------------------------------------------------------
\* Edits of destinations and plans keep the invariant: a plan's jobs lose their
\* planId together.
LEMMA EditKeepsInv ==
  ASSUME JobsInv,
         \/ \E d \in Dests : DestinationNext(d)
         \/ \E p \in Plans : \/ \E d \in Dests, s \in Existing : SavePlan(p, d, s)
                             \/ DeletePlan(p)
  PROVE  JobsInv'
<1>1. /\ TypeOK'
      /\ UNCHANGED <<created, status, operation, path, stored, pc, cand, expired>>
      /\ \A i, j \in Jobs : planId[i] = planId[j] => planId'[i] = planId'[j]
  BY EditStep DEF JobsInv
<1>2. CandidateInv' /\ ExclusiveExecution'
  BY <1>1 DEF JobsInv, CandidateInv, UnclaimedIsAbsent, OnCandidate, ExclusiveExecution
<1>3. \A j \in Jobs : NewerKept(j) => NewerKept(j)'
  BY <1>1 DEF NewerKept
<1>4. expired \in [Workers -> SUBSET Jobs]
  BY DEF JobsInv, TypeOK
<1>5. RetentionInv'
  BY <1>1, <1>3, <1>4 DEF JobsInv, RetentionInv, ExpiredIsOlder, RemovedIsOlder
<1> QED  BY <1>1, <1>2, <1>5 DEF JobsInv

\* Appending a job keeps the invariant: the new job has no artifact yet.
LEMMA RequestKeepsInv ==
  ASSUME JobsInv,
         \/ \E r \in Requests : RequestNext(r)
         \/ \E p \in Plans : ScheduleJob(p)
  PROVE  JobsInv'
<1>1. /\ TypeOK'
      /\ UNCHANGED <<path, stored, pc, cand, expired>>
      /\ \/ UNCHANGED <<created, status, operation, planId>>
         \/ /\ created < MaxJobs /\ created' = created + 1
            /\ status' = [status EXCEPT ![created + 1] = "QUEUED"]
            /\ \A j \in Jobs : j # created + 1 =>
                 operation'[j] = operation[j] /\ planId'[j] = planId[j]
  BY RequestStep DEF JobsInv
<1>2. CASE UNCHANGED <<created, status, operation, planId>>
  BY <1>1, <1>2 DEF JobsInv, CandidateInv, UnclaimedIsAbsent, OnCandidate,
                    ExclusiveExecution, RetentionInv, ExpiredIsOlder, RemovedIsOlder, NewerKept
<1>3. CASE ~UNCHANGED <<created, status, operation, planId>>
  <2> DEFINE m == created + 1
  <2>1. /\ created' = m /\ m \in Jobs /\ status' = [status EXCEPT ![m] = "QUEUED"]
        /\ \A j \in Jobs : j # m => operation'[j] = operation[j] /\ planId'[j] = planId[j]
    BY <1>1, <1>3, JobsAssumption DEF JobsInv, TypeOK
  <2>2. /\ status \in [Jobs -> Status] /\ expired \in [Workers -> SUBSET Jobs]
        /\ created \in Nat /\ pc \in [Workers -> WorkerPC] /\ MaxJobs \in Nat
    BY JobsAssumption DEF JobsInv, TypeOK
  <2>3. status[m] = "none" /\ stored[m] = "absent"
    BY <2>1, <2>2 DEF JobsInv, CandidateInv, UnclaimedIsAbsent
  <2>4. UnclaimedIsAbsent'
    BY <1>1, <2>1, <2>2, <2>3 DEF JobsInv, CandidateInv, UnclaimedIsAbsent
  <2>5. ASSUME NEW k \in Workers PROVE OnCandidate(k)'
    <3>1. OnCandidate(k)
      BY DEF JobsInv, CandidateInv
    <3> QED  BY <1>1, <2>1, <2>2, <2>3, <3>1 DEF OnCandidate
  <2>6. ExclusiveExecution'
    BY <1>1 DEF JobsInv, ExclusiveExecution
  <2>7. ASSUME NEW j \in Jobs, j # m, NewerKept(j) PROVE NewerKept(j)'
    <3> PICK i \in Jobs : /\ j < i /\ planId[i] = planId[j] /\ operation[i] = "BACKUP"
                          /\ stored[i] = "complete"
      BY <2>7 DEF NewerKept
    <3>1. i # m
      BY <2>3
    <3> QED  BY <1>1, <2>1, <2>7, <3>1 DEF NewerKept
  <2>8. ExpiredIsOlder'
    BY <1>1, <2>1, <2>2, <2>3, <2>7 DEF JobsInv, RetentionInv, ExpiredIsOlder
  <2>9. RemovedIsOlder'
    BY <1>1, <2>1, <2>2, <2>3, <2>7 DEF JobsInv, RetentionInv, RemovedIsOlder
  <2> QED  BY <1>1, <2>4, <2>5, <2>6, <2>8, <2>9 DEF JobsInv, CandidateInv, RetentionInv
<1> QED  BY <1>2, <1>3

\* The inductive invariant of the job queue: candidates, exclusive execution and
\* the newer artifact behind every removed one.
THEOREM JobsInvariant == Spec => []JobsInv
<1>1. Init => JobsInv
  BY JobsAssumption DEF Init, JobsInv, TypeOK, NoCopy, Copy, CandidateInv, UnclaimedIsAbsent,
     OnCandidate, ExclusiveExecution, RetentionInv, ExpiredIsOlder, RemovedIsOlder
<1>2. JobsInv /\ [Next]_vars => JobsInv'
  <2> SUFFICES ASSUME JobsInv, [Next]_vars PROVE JobsInv'
    OBVIOUS
  <2>1. ASSUME UNCHANGED <<jobVars, stored, workVars>>, TypeOK' PROVE JobsInv'
    BY <2>1 DEF JobsInv, CandidateInv, UnclaimedIsAbsent, OnCandidate, ExclusiveExecution,
       RetentionInv, ExpiredIsOlder, RemovedIsOlder, NewerKept, jobVars, rowVars, workVars
  <2>2. TypeOK'
    BY TypeStep DEF JobsInv
  <2>3. CASE UNCHANGED vars
    BY <2>1, <2>2, <2>3 DEF vars
  <2>4. CASE \E k \in Workers : WorkerNext(k) \/ WorkerCrash(k)
    BY <2>2, <2>4, WorkerCandidateStep, WorkerRetentionStep DEF JobsInv
  <2>5. CASE \E d \in Dests : DestinationNext(d)
    BY <2>5, EditKeepsInv
  <2>6. CASE \E p \in Plans : PlanNext(p)
    BY <2>6, EditKeepsInv, RequestKeepsInv DEF PlanNext
  <2>7. CASE \E r \in Requests : RequestNext(r)
    BY <2>7, RequestKeepsInv
  <2>8. CASE \E j \in Jobs : LockExpires(j)
    <3>1. UNCHANGED <<jobVars, stored, workVars>>
      BY <2>8, ExpiryStep DEF JobsInv
    <3> QED  BY <2>1, <2>2, <3>1
  <2> QED  BY <2>3, <2>4, <2>5, <2>6, <2>7, <2>8 DEF Next
<1> QED  BY <1>1, <1>2, PTL DEF Spec

\* However many workers run, and whenever the Redis locks of their jobs expire
\* under them, no two of them execute the same job.
THEOREM Exclusivity == Spec => []ExclusiveExecution
<1>1. JobsInv => ExclusiveExecution
  BY DEF JobsInv
<1> QED  BY <1>1, JobsInvariant, PTL

\* However many workers apply the retention of one plan at once, fail or crash
\* between its steps, a plan with a successful backup keeps a complete artifact.
THEOREM RestorePointSafety == Spec => []RestorePointKept
<1>1. JobsInv => RestorePointKept
  BY DEF JobsInv, RetentionInv, RemovedIsOlder, NewerKept, RestorePointKept
<1> QED  BY <1>1, JobsInvariant, PTL
=============================================================================

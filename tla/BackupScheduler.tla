--------------------------- MODULE BackupScheduler ---------------------------
(***************************************************************************)
(* BackupSchedulerService.scheduleDuePlans: under the Redis lock           *)
(* `scheduler`, a cycle of an API instance turns the due plans into jobs,  *)
(* while administrators edit the plans.                                    *)
(*                                                                         *)
(* Time is counted in ticks from 1; 0 stands for NULL in nextRunAt.  A     *)
(* schedule is a period: it is due at the multiples of that period.        *)
(* @Interval starts a cycle even when the previous one still runs, so two  *)
(* members of Instances may be two cycles of one API process.              *)
(***************************************************************************)
EXTENDS Integers, Sequences, Functions

CONSTANTS
  Instances,  \* API instances, or overlapping cycles of one
  Plans,      \* plan ids, numbers in createdAt order
  Editors,    \* concurrent updatePlan requests
  Schedules,  \* the periods a plan may have
  Skew,       \* how far ahead of the true time a clock may be
  NoOne,      \* no lock holder
  MaxTime,    \* bound on the clock
  MaxEdits,   \* bound on the edits and deletions of plans
  MaxFaults   \* bound on crashes, database errors and lock expiries

ASSUME SchedulerAssumption ==
  /\ Plans \subseteq Nat
  /\ Schedules \subseteq Nat \ {0}
  /\ Skew \subseteq Nat
  /\ NoOne \notin Instances
  /\ MaxTime \in Nat /\ MaxEdits \in Nat /\ MaxFaults \in Nat

VARIABLES
  now,        \* true time
  planState,  \* BackupPlan.enabled, or "deleted"
  schedule,   \* BackupPlan's schedule columns
  nextRunAt,  \* BackupPlan.nextRunAt
  runs,       \* scheduledFor of the jobs created for each plan
  lock,       \* Redis lock `scheduler`
  pc,         \* where each instance is in runCycle
  asOf,       \* the `now` that scheduleDuePlans was called with
  list,       \* the plans it has read and not yet treated
  pending,    \* updatePlan requests between their read and their write
  edits,      \* number of edits so far
  faults      \* number of crashes, errors and lock expiries so far

planVars  == <<planState, schedule, nextRunAt>>
cycleVars  == <<pc, asOf, list>>
vars == <<now, planVars, runs, lock, cycleVars, pending, edits, faults>>

\* nextScheduledRun: the first occurrence strictly after t.
NextScheduledRun(s, t) == (t \div s + 1) * s

\* Plans as createPlan leaves them at time 0.
Init ==
  /\ now = 0
  /\ planState \in [Plans -> {"on", "off"}]
  /\ schedule \in [Plans -> Schedules]
  /\ nextRunAt = [p \in Plans |->
                    IF planState[p] = "on" THEN NextScheduledRun(schedule[p], 0) ELSE 0]
  /\ runs = [p \in Plans |-> <<>>]
  /\ lock = NoOne
  /\ pc = [i \in Instances |-> "idle"]
  /\ asOf = [i \in Instances |-> 0]
  /\ list = [i \in Instances |-> {}]
  /\ pending = [e \in Editors |-> {}]
  /\ edits = 0
  /\ faults = 0

Tick ==
  /\ now < MaxTime
  /\ now' = now + 1
  /\ UNCHANGED <<planVars, runs, lock, cycleVars, pending, edits, faults>>

-----------------------------------------------------------------------------
(***************************************************************************)
(* BackupsService: plans.                                                  *)
(***************************************************************************)

Change == [plan : Plans, state : {"on", "off", "keep"}, schedule : Schedules \cup {0}]

\* updatePlan reads the plan and computes its columns.  `keep` and 0 stand for
\* fields the input leaves out; with neither, nextRunAt is not written.
BeginEdit(e, c) ==
  /\ edits < MaxEdits
  /\ pending[e] = {}
  /\ planState[c.plan] # "deleted"
  /\ c.state # "keep" \/ c.schedule # 0
  /\ LET finalState    == IF c.state = "keep" THEN planState[c.plan] ELSE c.state
         finalSchedule == IF c.schedule = 0 THEN schedule[c.plan] ELSE c.schedule
     IN  \E s \in Skew :
           pending' = [pending EXCEPT ![e] =
             {[change |-> c,
               next   |-> IF finalState = "on" THEN NextScheduledRun(finalSchedule, now + s)
                                               ELSE 0]}]
  /\ edits' = edits + 1
  /\ UNCHANGED <<now, planVars, runs, lock, cycleVars, faults>>

\* The update by id; it throws if the plan is gone.
FinishEdit(e) ==
  /\ \E w \in pending[e] :
       LET p == w.change.plan IN
       IF planState[p] = "deleted" THEN UNCHANGED planVars
       ELSE /\ planState' = [planState EXCEPT ![p] =
                               IF w.change.state = "keep" THEN @ ELSE w.change.state]
            /\ schedule' = [schedule EXCEPT ![p] =
                              IF w.change.schedule = 0 THEN @ ELSE w.change.schedule]
            /\ nextRunAt' = [nextRunAt EXCEPT ![p] = w.next]
  /\ pending' = [pending EXCEPT ![e] = {}]
  /\ UNCHANGED <<now, runs, lock, cycleVars, edits, faults>>

DeletePlan(p) ==
  /\ edits < MaxEdits
  /\ planState[p] # "deleted"
  /\ planState' = [planState EXCEPT ![p] = "deleted"]
  /\ edits' = edits + 1
  /\ UNCHANGED <<now, schedule, nextRunAt, runs, lock, cycleVars, pending, faults>>

-----------------------------------------------------------------------------
(***************************************************************************)
(* runCycle.                                                               *)
(***************************************************************************)

Step(i, from, to) ==
  /\ pc[i] = from
  /\ pc' = [pc EXCEPT ![i] = to]

\* A cycle that finds the lock taken does nothing.
AcquireLock(i) ==
  /\ Step(i, "idle", "reading")
  /\ lock = NoOne
  /\ lock' = i
  /\ \E s \in Skew : asOf' = [asOf EXCEPT ![i] = now + s]
  /\ UNCHANGED <<now, planVars, runs, list, pending, edits, faults>>

\* findMany of the enabled plans.
ReadPlans(i) ==
  /\ Step(i, "reading", "scheduling")
  /\ list' = [list EXCEPT ![i] =
       {[plan |-> p, schedule |-> schedule[p], due |-> nextRunAt[p]] :
          p \in {q \in Plans : planState[q] = "on"}}]
  /\ UNCHANGED <<now, planVars, runs, lock, asOf, pending, edits, faults>>

\* The next plan of the loop, in createdAt order.
IsNext(i, r) == r \in list[i] /\ \A q \in list[i] : r.plan <= q.plan

Treated(i, r) ==
  /\ pc[i] = "scheduling"
  /\ list' = [list EXCEPT ![i] = @ \ {r}]
  /\ UNCHANGED <<now, planState, schedule, lock, pc, asOf, pending, edits, faults>>

\* Mutant of InitialiseRun: a plan without a run date is skipped.
SkipUnplanned(i) ==
  \E r \in list[i] :
    /\ IsNext(i, r) /\ r.due = 0
    /\ Treated(i, r)
    /\ UNCHANGED <<nextRunAt, runs>>

\* An enabled plan without a run date gets one, if it is still without.
InitialiseRun(i) ==
  \E r \in list[i] :
    /\ IsNext(i, r) /\ r.due = 0
    /\ Treated(i, r)
    /\ nextRunAt' = [nextRunAt EXCEPT ![r.plan] =
                       IF planState[r.plan] = "on" /\ @ = 0
                       THEN NextScheduledRun(r.schedule, asOf[i]) ELSE @]
    /\ UNCHANGED runs

NotDueYet(i) ==
  \E r \in list[i] :
    /\ IsNext(i, r) /\ r.due > asOf[i]
    /\ Treated(i, r)
    /\ UNCHANGED <<nextRunAt, runs>>

Due(i, r) == IsNext(i, r) /\ r.due # 0 /\ r.due <= asOf[i]

\* Mutant of Claimable: nextRunAt alone identifies the occurrence.
ClaimableIfUnmoved(r) == planState[r.plan] # "deleted" /\ nextRunAt[r.plan] = r.due

\* The where clause of the claiming updateMany.
Claimable(r) == planState[r.plan] = "on" /\ nextRunAt[r.plan] = r.due

\* Mutant of Duplicate: no unique index on planId and scheduledFor.
NeverDuplicate(r) == r.due < 0

\* The unique index on planId and scheduledFor refuses the row: P2002.
Duplicate(r) == r.due \in Range(runs[r.plan])

\* The transaction: claim the occurrence and create its job.
ScheduleJob(i) ==
  \E r \in list[i] :
    /\ Due(i, r) /\ Claimable(r) /\ ~Duplicate(r)
    /\ Treated(i, r)
    /\ nextRunAt' = [nextRunAt EXCEPT ![r.plan] = NextScheduledRun(r.schedule, asOf[i])]
    /\ runs' = [runs EXCEPT ![r.plan] = Append(@, r.due)]

\* Somebody else moved the plan on, or P2002 rolls the whole claim back.
ClaimFails(i) ==
  \E r \in list[i] :
    /\ Due(i, r) /\ (~Claimable(r) \/ Duplicate(r))
    /\ Treated(i, r)
    /\ UNCHANGED <<nextRunAt, runs>>

ScheduleEnds(i) ==
  /\ Step(i, "scheduling", "releasing")
  /\ list[i] = {}
  /\ UNCHANGED <<now, planVars, runs, lock, asOf, list, pending, edits, faults>>

\* A database error ends the loop for all plans that follow.
ScheduleThrows(i) ==
  /\ pc[i] \in {"reading", "scheduling"}
  /\ faults < MaxFaults
  /\ faults' = faults + 1
  /\ pc' = [pc EXCEPT ![i] = "releasing"]
  /\ list' = [list EXCEPT ![i] = {}]
  /\ UNCHANGED <<now, planVars, runs, lock, asOf, pending, edits>>

ReleaseLock(i) ==
  /\ Step(i, "releasing", "idle")
  /\ lock' = IF lock = i THEN NoOne ELSE lock
  /\ asOf' = [asOf EXCEPT ![i] = 0]
  /\ UNCHANGED <<now, planVars, runs, list, pending, edits, faults>>

\* The API process dies; its lock stays.
Crash(i) ==
  /\ pc[i] # "idle"
  /\ faults < MaxFaults
  /\ faults' = faults + 1
  /\ pc' = [pc EXCEPT ![i] = "idle"]
  /\ asOf' = [asOf EXCEPT ![i] = 0]
  /\ list' = [list EXCEPT ![i] = {}]
  /\ UNCHANGED <<now, planVars, runs, lock, pending, edits>>

\* A cycle that outlives the lock's 25 seconds.
LockExpires ==
  /\ lock # NoOne
  /\ pc[lock] # "idle"
  /\ faults < MaxFaults
  /\ faults' = faults + 1
  /\ lock' = NoOne
  /\ UNCHANGED <<now, planVars, runs, cycleVars, pending, edits>>

\* Mutant of OrphanExpires: the lock is set without PX.
OrphanStays ==
  /\ lock # NoOne
  /\ FALSE
  /\ UNCHANGED vars

\* The lock of a dead instance.
OrphanExpires ==
  /\ lock # NoOne
  /\ pc[lock] = "idle"
  /\ lock' = NoOne
  /\ UNCHANGED <<now, planVars, runs, cycleVars, pending, edits, faults>>

-----------------------------------------------------------------------------
CycleNext(i) ==
  \/ AcquireLock(i) \/ ReadPlans(i)
  \/ InitialiseRun(i) \/ NotDueYet(i) \/ ScheduleJob(i) \/ ClaimFails(i)
  \/ ScheduleEnds(i) \/ ReleaseLock(i)

Next ==
  \/ Tick \/ LockExpires \/ OrphanExpires
  \/ \E i \in Instances : CycleNext(i) \/ ScheduleThrows(i) \/ Crash(i)
  \/ \E e \in Editors : FinishEdit(e) \/ \E c \in Change : BeginEdit(e, c)
  \/ \E p \in Plans : DeletePlan(p)

Spec == Init /\ [][Next]_vars

\* The interval timer starts cycles, and Redis drops a dead instance's lock.
Fairness ==
  /\ \A i \in Instances : WF_vars(CycleNext(i))
  /\ WF_vars(OrphanExpires)

FairSpec == Spec /\ Fairness

-----------------------------------------------------------------------------
(***************************************************************************)
(* Properties.                                                             *)
(***************************************************************************)

\* What a cycle has read of a plan, and what updatePlan is about to write.
Entry == [plan : Plans, schedule : Schedules, due : Nat]
Write == [change : Change, next : Nat]

\* Type correctness of the plans, the cycles and the edits.
TypeOK ==
  /\ now \in 0..MaxTime
  /\ planState \in [Plans -> {"on", "off", "deleted"}]
  /\ schedule \in [Plans -> Schedules]
  /\ nextRunAt \in [Plans -> Nat]
  /\ runs \in [Plans -> Seq(Nat \ {0})]
  /\ lock \in Instances \cup {NoOne}
  /\ pc \in [Instances -> {"idle", "reading", "scheduling", "releasing"}]
  /\ asOf \in [Instances -> Nat]
  /\ list \in [Instances -> SUBSET Entry]
  /\ pending \in [Editors -> SUBSET Write]
  /\ edits \in 0..MaxEdits
  /\ faults \in 0..MaxFaults

Overdue(p) == planState[p] = "on" /\ nextRunAt[p] # 0 /\ nextRunAt[p] <= now

\* No occurrence of a plan gets two jobs, however cycles overlap, clocks differ
\* and edits put nextRunAt back to an occurrence that has run (unique index).
ScheduledOnce ==
  \A p \in Plans : \A m, n \in 1..Len(runs[p]) : runs[p][m] = runs[p][n] => m = n

\* A plan that was disabled or deleted while a cycle held its row in memory gets
\* no job any more (the claim's where clause).
OnlyEnabledScheduled ==
  [][\A p \in Plans : runs'[p] # runs[p] => planState[p] = "on"]_vars

\* An enabled plan that lost its run date to overlapping edits gets a new one.
EnabledGetsPlanned ==
  \A p \in Plans :
    planState[p] = "on" /\ nextRunAt[p] = 0 ~> planState[p] # "on" \/ nextRunAt[p] # 0

\* A due occurrence gets its job, unless it had one before or the plan changes.
DueGetsJob ==
  \A p \in Plans : Overdue(p) ~> ~Overdue(p) \/ nextRunAt[p] \in Range(runs[p])

\* The class comment says due jobs are planned exactly once: a plan that is due
\* does not stay due forever.
DuePlanMovesOn ==
  \A p \in Plans : Overdue(p) ~> ~Overdue(p)
=============================================================================

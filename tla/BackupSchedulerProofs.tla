------------------------ MODULE BackupSchedulerProofs ------------------------
(***************************************************************************)
(* What the backup scheduler promises for any number of instances, plans,  *)
(* schedules, edits and faults.                                            *)
(***************************************************************************)
EXTENDS BackupScheduler, SequenceTheorems, TLAPS

-----------------------------------------------------------------------------
(* Occurrences *)

\* An occurrence after a time is never at time 0, which stands for NULL.
LEMMA OccurrenceType ==
  ASSUME NEW s \in Schedules, NEW t \in Nat
  PROVE  NextScheduledRun(s, t) \in Nat \ {0}
<1>1. s \in Nat /\ s # 0
  BY SchedulerAssumption
<1>2. t \div s \in Nat
  BY <1>1
<1>3. ASSUME NEW k \in Nat
      PROVE  (k + 1) * s \in Nat /\ (k + 1) * s # 0
  BY <1>1
<1> QED  BY <1>2, <1>3 DEF NextScheduledRun

\* What a cycle treats is an entry of its list; the rest of its list stays.
LEMMA TreatedType ==
  ASSUME TypeOK, NEW i \in Instances, NEW r \in list[i], Treated(i, r)
  PROVE  /\ r \in Entry
         /\ list' \in [Instances -> SUBSET Entry]
         /\ UNCHANGED <<now, planState, schedule, lock, pc, asOf, pending, edits, faults>>
BY DEF TypeOK, Treated

-----------------------------------------------------------------------------
(* Type correctness *)

LEMMA TypeStep ==
  ASSUME TypeOK, Next
  PROVE  TypeOK'
<1> USE DEF TypeOK
<1>0. /\ MaxTime \in Nat /\ MaxEdits \in Nat /\ MaxFaults \in Nat
      /\ Skew \subseteq Nat /\ now \in Nat
  BY SchedulerAssumption
<1>1. CASE Tick
  BY <1>0, <1>1 DEF Tick, planVars, cycleVars
<1>2. CASE LockExpires \/ OrphanExpires
  BY <1>0, <1>2 DEF LockExpires, OrphanExpires, planVars, cycleVars
<1>3. ASSUME NEW i \in Instances, AcquireLock(i)
      PROVE  TypeOK'
  <2>1. PICK s \in Skew : asOf' = [asOf EXCEPT ![i] = now + s]
    BY <1>3 DEF AcquireLock
  <2>2. now + s \in Nat
    BY <1>0
  <2> QED  BY <1>3, <2>1, <2>2 DEF AcquireLock, Step, planVars
<1>4. ASSUME NEW i \in Instances, ReadPlans(i)
      PROVE  TypeOK'
  <2>1. \A p \in Plans : [plan |-> p, schedule |-> schedule[p], due |-> nextRunAt[p]] \in Entry
    BY DEF Entry
  <2>2. {[plan |-> p, schedule |-> schedule[p], due |-> nextRunAt[p]] :
           p \in {q \in Plans : planState[q] = "on"}} \in SUBSET Entry
    BY <2>1
  <2> QED  BY <1>4, <2>2 DEF ReadPlans, Step, planVars
<1>5. ASSUME NEW i \in Instances, InitialiseRun(i)
      PROVE  TypeOK'
  <2>1. PICK r \in list[i] :
          /\ Treated(i, r) /\ UNCHANGED runs
          /\ nextRunAt' = [nextRunAt EXCEPT ![r.plan] =
                             IF planState[r.plan] = "on" /\ @ = 0
                             THEN NextScheduledRun(r.schedule, asOf[i]) ELSE @]
    BY <1>5 DEF InitialiseRun
  <2>0. r.plan \in Plans /\ r.schedule \in Schedules /\ asOf[i] \in Nat
    BY DEF Entry
  <2>2. r.plan \in Plans /\ NextScheduledRun(r.schedule, asOf[i]) \in Nat
    BY <2>0, OccurrenceType
  <2>3. nextRunAt' \in [Plans -> Nat]
    BY <2>1, <2>2
  <2> QED  BY <2>1, <2>3, TreatedType
<1>6. ASSUME NEW i \in Instances, NotDueYet(i) \/ ClaimFails(i)
      PROVE  TypeOK'
  <2>1. PICK r \in list[i] : Treated(i, r) /\ UNCHANGED <<nextRunAt, runs>>
    BY <1>6 DEF NotDueYet, ClaimFails
  <2> QED  BY <2>1, TreatedType
<1>7. ASSUME NEW i \in Instances, ScheduleJob(i)
      PROVE  TypeOK'
  <2>1. PICK r \in list[i] :
          /\ Due(i, r) /\ Treated(i, r)
          /\ nextRunAt' = [nextRunAt EXCEPT ![r.plan] = NextScheduledRun(r.schedule, asOf[i])]
          /\ runs' = [runs EXCEPT ![r.plan] = Append(@, r.due)]
    BY <1>7 DEF ScheduleJob
  <2>0. r.plan \in Plans /\ r.schedule \in Schedules /\ asOf[i] \in Nat
    BY DEF Entry
  <2>2. r.plan \in Plans /\ NextScheduledRun(r.schedule, asOf[i]) \in Nat
    BY <2>0, OccurrenceType
  <2>3. r.due \in Nat \ {0}
    BY <2>1 DEF Due, Entry
  <2>4. Append(runs[r.plan], r.due) \in Seq(Nat \ {0})
    BY <2>2, <2>3, AppendProperties
  <2>5. nextRunAt' \in [Plans -> Nat] /\ runs' \in [Plans -> Seq(Nat \ {0})]
    BY <2>1, <2>2, <2>4
  <2> QED  BY <2>1, <2>5, TreatedType
<1>8. ASSUME NEW i \in Instances, ScheduleEnds(i) \/ ReleaseLock(i)
      PROVE  TypeOK'
  <2>1. CASE ScheduleEnds(i)
    BY <2>1 DEF ScheduleEnds, Step, planVars
  <2>2. CASE ReleaseLock(i)
    <3>1. pc' = [pc EXCEPT ![i] = "idle"] /\ asOf' = [asOf EXCEPT ![i] = 0] /\ lock' \in {lock, NoOne}
      BY <2>2 DEF ReleaseLock, Step
    <3> QED  BY <2>2, <3>1 DEF ReleaseLock, planVars
  <2> QED  BY <1>8, <2>1, <2>2
<1>9. ASSUME NEW i \in Instances, ScheduleThrows(i) \/ Crash(i)
      PROVE  TypeOK'
  <2>1. faults' \in 0..MaxFaults
    BY <1>0, <1>9 DEF ScheduleThrows, Crash
  <2>2. CASE ScheduleThrows(i)
    BY <2>1, <2>2 DEF ScheduleThrows, planVars
  <2>3. CASE Crash(i)
    BY <2>1, <2>3 DEF Crash, planVars
  <2> QED  BY <1>9, <2>2, <2>3
<1>10. ASSUME NEW e \in Editors, FinishEdit(e)
       PROVE  TypeOK'
  <2>1. PICK w \in pending[e] :
          IF planState[w.change.plan] = "deleted" THEN UNCHANGED planVars
          ELSE /\ planState' = [planState EXCEPT ![w.change.plan] =
                                  IF w.change.state = "keep" THEN @ ELSE w.change.state]
               /\ schedule' = [schedule EXCEPT ![w.change.plan] =
                                 IF w.change.schedule = 0 THEN @ ELSE w.change.schedule]
               /\ nextRunAt' = [nextRunAt EXCEPT ![w.change.plan] = w.next]
    BY <1>10 DEF FinishEdit
  <2>2. w \in Write /\ w.change \in Change /\ w.next \in Nat
    BY DEF Write
  <2>3. /\ planState' \in [Plans -> {"on", "off", "deleted"}]
        /\ schedule' \in [Plans -> Schedules]
        /\ nextRunAt' \in [Plans -> Nat]
    BY <2>1, <2>2, ZenonT(40) DEF Change, planVars
  <2> QED  BY <1>10, <2>3 DEF FinishEdit, cycleVars
<1>11. ASSUME NEW e \in Editors, NEW c \in Change, BeginEdit(e, c)
       PROVE  TypeOK'
  <2> DEFINE finalState == IF c.state = "keep" THEN planState[c.plan] ELSE c.state
             finalSchedule == IF c.schedule = 0 THEN schedule[c.plan] ELSE c.schedule
             next(s) == IF finalState = "on" THEN NextScheduledRun(finalSchedule, now + s) ELSE 0
  <2>1. PICK s \in Skew :
          pending' = [pending EXCEPT ![e] = {[change |-> c, next |-> next(s)]}]
    BY <1>11 DEF BeginEdit
  <2>2. finalSchedule \in Schedules /\ now + s \in Nat
    BY <1>0 DEF Change
  <2>3. next(s) \in Nat
    BY <2>2, OccurrenceType
  <2> HIDE DEF next
  <2>4. {[change |-> c, next |-> next(s)]} \in SUBSET Write
    BY <2>3 DEF Write
  <2>5. pending' \in [Editors -> SUBSET Write]
    BY <2>1, <2>4
  <2> QED  BY <1>0, <1>11, <2>5, SMTT(30) DEF BeginEdit, planVars, cycleVars
<1>12. ASSUME NEW p \in Plans, DeletePlan(p)
       PROVE  TypeOK'
  BY <1>0, <1>12 DEF DeletePlan, cycleVars
<1> QED  BY <1>1, <1>2, <1>3, <1>4, <1>5, <1>6, <1>7, <1>8, <1>9, <1>10, <1>11, <1>12
         DEF Next, CycleNext

\* The plans, the jobs, the cycles and the edits keep their types.
THEOREM TypeCorrect == Spec => []TypeOK
<1>1. Init => TypeOK
  <2> SUFFICES ASSUME Init PROVE TypeOK
    OBVIOUS
  <2>1. \A p \in Plans : NextScheduledRun(schedule[p], 0) \in Nat
    BY OccurrenceType DEF Init
  <2>2. <<>> \in Seq(Nat \ {0})
    OBVIOUS
  <2> QED  BY <2>1, <2>2, SchedulerAssumption DEF Init, TypeOK
<1>2. TypeOK /\ UNCHANGED vars => TypeOK'
  BY DEF TypeOK, vars, planVars, cycleVars
<1> QED  BY <1>1, <1>2, TypeStep, PTL DEF Spec

-----------------------------------------------------------------------------
(* Jobs *)

\* Only the claiming transaction creates a job, and its where clause asks for an
\* enabled plan.
LEMMA JobStep ==
  ASSUME TypeOK, Next
  PROVE  \/ UNCHANGED runs
         \/ \E i \in Instances : \E r \in list[i] :
              /\ r \in Entry /\ r.due \in Nat \ {0}
              /\ Claimable(r) /\ ~Duplicate(r)
              /\ runs' = [runs EXCEPT ![r.plan] = Append(@, r.due)]
<1>1. ASSUME NEW i \in Instances, ScheduleJob(i)
      PROVE  \E r \in list[i] :
               /\ r \in Entry /\ r.due \in Nat \ {0}
               /\ Claimable(r) /\ ~Duplicate(r)
               /\ runs' = [runs EXCEPT ![r.plan] = Append(@, r.due)]
  <2>1. PICK r \in list[i] :
          /\ Due(i, r) /\ Claimable(r) /\ ~Duplicate(r)
          /\ runs' = [runs EXCEPT ![r.plan] = Append(@, r.due)]
    BY <1>1 DEF ScheduleJob
  <2>2. r \in Entry /\ r.due \in Nat \ {0}
    BY <2>1 DEF TypeOK, Due, Entry
  <2> QED  BY <2>1, <2>2
<1>2. CASE \E i \in Instances : ScheduleJob(i)
  BY <1>1, <1>2
<1>3. CASE ~\E i \in Instances : ScheduleJob(i)
  BY <1>3 DEF Next, CycleNext, Tick, LockExpires, OrphanExpires, AcquireLock, ReadPlans,
       InitialiseRun, NotDueYet, ClaimFails, ScheduleEnds, ReleaseLock, ScheduleThrows, Crash,
       FinishEdit, BeginEdit, DeletePlan
<1> QED  BY <1>2, <1>3

LEMMA OnceStep ==
  ASSUME TypeOK, ScheduledOnce, Next
  PROVE  ScheduledOnce'
<1>1. CASE UNCHANGED runs
  BY <1>1 DEF ScheduledOnce
<1>2. ASSUME NEW r \in Entry, r.due \in Nat \ {0}, ~Duplicate(r),
             runs' = [runs EXCEPT ![r.plan] = Append(@, r.due)]
      PROVE  ScheduledOnce'
  <2>1. r.plan \in Plans /\ runs[r.plan] \in Seq(Nat \ {0})
    BY DEF Entry, TypeOK
  <2>2. /\ Len(runs'[r.plan]) = Len(runs[r.plan]) + 1 /\ Len(runs[r.plan]) \in Nat
        /\ \A n \in 1..Len(runs[r.plan]) : runs'[r.plan][n] = runs[r.plan][n]
        /\ runs'[r.plan][Len(runs[r.plan]) + 1] = r.due
    <3>1. runs'[r.plan] = Append(runs[r.plan], r.due)
      BY <1>2, <2>1 DEF TypeOK
    <3> QED  BY <1>2, <2>1, <3>1, AppendProperties, LenProperties
  <2>3. \A n \in 1..Len(runs[r.plan]) : runs[r.plan][n] # r.due
    BY <1>2, <2>1, LenProperties DEF Duplicate, Range
  <2>4. ASSUME NEW p \in Plans, NEW m \in 1..Len(runs'[p]), NEW n \in 1..Len(runs'[p]),
               runs'[p][m] = runs'[p][n]
        PROVE  m = n
    <3>1. CASE p = r.plan
      <4>1. \A k \in 1..Len(runs'[p]) : k \in 1..Len(runs[p]) \/ k = Len(runs[p]) + 1
        BY <2>2, <3>1
      <4>2. CASE m \in 1..Len(runs[p]) /\ n \in 1..Len(runs[p])
        <5>1. runs[p][m] = runs[p][n]
          BY <2>2, <2>4, <3>1, <4>2
        <5> QED  BY <4>2, <5>1 DEF ScheduledOnce
      <4>3. m \in 1..Len(runs[p]) => runs'[p][m] # r.due
        BY <2>2, <2>3, <3>1
      <4>4. n \in 1..Len(runs[p]) => runs'[p][n] # r.due
        BY <2>2, <2>3, <3>1
      <4>5. runs'[p][Len(runs[p]) + 1] = r.due
        BY <2>2, <3>1
      <4> QED  BY <2>4, <4>1, <4>2, <4>3, <4>4, <4>5
    <3>2. CASE p # r.plan
      <4>1. runs'[p] = runs[p]
        BY <1>2, <2>1, <3>2 DEF TypeOK
      <4> QED  BY <2>4, <4>1 DEF ScheduledOnce
    <3> QED  BY <3>1, <3>2
  <2> QED  BY <2>4 DEF ScheduledOnce
<1> QED  BY <1>1, <1>2, JobStep

\* The unique index on planId and scheduledFor keeps every occurrence of a plan to one
\* job, whatever cycles overlap and whatever edits put nextRunAt back.
THEOREM OccurrenceOnce == Spec => []ScheduledOnce
<1>1. Init => ScheduledOnce
  BY DEF Init, ScheduledOnce
<1>2. ScheduledOnce /\ UNCHANGED vars => ScheduledOnce'
  BY DEF ScheduledOnce, vars
<1> QED  BY <1>1, <1>2, OnceStep, TypeCorrect, PTL DEF Spec

\* A plan that was disabled or deleted after a cycle had read it gets no job.
THEOREM EnabledOnly == Spec => OnlyEnabledScheduled
<1>1. ASSUME TypeOK, Next
      PROVE  \A p \in Plans : runs'[p] # runs[p] => planState[p] = "on"
  <2>1. CASE UNCHANGED runs
    BY <2>1
  <2>2. ASSUME NEW r \in Entry, Claimable(r),
               runs' = [runs EXCEPT ![r.plan] = Append(@, r.due)]
        PROVE  \A p \in Plans : runs'[p] # runs[p] => planState[p] = "on"
    BY <2>2 DEF TypeOK, Entry, Claimable
  <2> QED  BY <1>1, <2>1, <2>2, JobStep
<1> QED  BY <1>1, TypeCorrect, PTL DEF Spec, OnlyEnabledScheduled
=============================================================================

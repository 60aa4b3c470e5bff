------------------------ MODULE BackupFailureNotices ------------------------
(***************************************************************************)
(* BackupSchedulerService.notifyNewFailures: at the start of every cycle   *)
(* an API instance reads the first page of the jobs that failed since it   *)
(* started and announces those it has not announced before.                *)
(*                                                                         *)
(* Failed jobs are numbered in finishedAt order.                           *)
(***************************************************************************)
EXTENDS Integers

CONSTANTS
  Instances,   \* API instances
  Take,        \* the page size, 100 in the code
  MaxFailed,   \* bound on the number of failed jobs
  MaxRestarts  \* bound on the number of restarts of API instances

VARIABLES
  failed,      \* number of failed jobs
  before,      \* number of failures before startedAt of each instance
  page,        \* the page read and not yet announced
  notified,    \* notifiedFailures of each instance
  restarts     \* number of restarts so far

vars == <<failed, before, page, notified, restarts>>

Init ==
  /\ failed = 0
  /\ before = [i \in Instances |-> 0]
  /\ page = [i \in Instances |-> {}]
  /\ notified = [i \in Instances |-> {}]
  /\ restarts = 0

\* A worker marks a job FAILED.
JobFails ==
  /\ failed < MaxFailed
  /\ failed' = failed + 1
  /\ UNCHANGED <<before, page, notified, restarts>>

\* findMany since startedAt, by finishedAt ascending, take 100.
ReadFailures(i) ==
  /\ page[i] = {}
  /\ page' = [page EXCEPT ![i] =
                {f \in before[i] + 1 .. failed : f <= before[i] + Take}]
  /\ UNCHANGED <<failed, before, notified, restarts>>

\* The loop over the page has no await in it.
NotifyFailures(i) ==
  /\ page[i] # {}
  /\ notified' = [notified EXCEPT ![i] = @ \cup page[i]]
  /\ page' = [page EXCEPT ![i] = {}]
  /\ UNCHANGED <<failed, before, restarts>>

\* A new process starts with a new startedAt and an empty set.
Restart(i) ==
  /\ restarts < MaxRestarts
  /\ restarts' = restarts + 1
  /\ before' = [before EXCEPT ![i] = failed]
  /\ page' = [page EXCEPT ![i] = {}]
  /\ notified' = [notified EXCEPT ![i] = {}]
  /\ UNCHANGED failed

Next ==
  \/ JobFails
  \/ \E i \in Instances : ReadFailures(i) \/ NotifyFailures(i) \/ Restart(i)

\* The interval timer runs a cycle every 30 seconds.
Spec ==
  /\ Init
  /\ [][Next]_vars
  /\ \A i \in Instances : WF_vars(ReadFailures(i)) /\ WF_vars(NotifyFailures(i))

\* docs/backup-restore.md: new failures appear as a notification.  Every failure
\* that an instance lives to see is announced by it.
EveryFailureNotified ==
  \A i \in Instances, f \in 1..MaxFailed :
    f \in before[i] + 1 .. failed ~> f \in notified[i] \/ f <= before[i]
=============================================================================

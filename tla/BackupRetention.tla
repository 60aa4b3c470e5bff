--------------------------- MODULE BackupRetention ---------------------------
(***************************************************************************)
(* expiredBackupJobIds: the grandfather-father-son rule that decides which *)
(* artifacts of a plan applyRetention removes, and a plan whose successful *)
(* backups it is applied to one after the other, under settings that stay. *)
(*                                                                         *)
(* A backup's id is its position in createdAt order, its createdAt is the  *)
(* local day in the plan's time zone, as the number of days since Monday,  *)
(* 2001-01-01.                                                             *)
(***************************************************************************)
EXTENDS Integers, Sequences, FiniteSets

CONSTANTS
  Days,        \* the days on which backups may be created
  Limits,      \* the retention settings a plan may have
  MaxBackups   \* bound on the number of backups

ASSUME RetentionAssumption ==
  /\ Days \subseteq Nat
  /\ Limits \subseteq [daily : Nat, weekly : Nat, monthly : Nat]
  /\ MaxBackups \in Nat

VARIABLES
  retention,   \* the plan's retention settings
  created,     \* the days of the plan's backup jobs, in createdAt order
  succeeded,   \* the jobs that succeeded
  available,   \* those of them whose artifactPath is not null
  applied      \* of the last applyRetention: "due", "complete" or "abandoned"

vars == <<retention, created, succeeded, available, applied>>

-----------------------------------------------------------------------------
(***************************************************************************)
(* bucketKey and isoWeek.                                                  *)
(***************************************************************************)

YearStart(y) ==
  LET n == y - 2001 IN 365 * n + n \div 4 - n \div 100 + n \div 400

YearOf(d) ==
  CHOOSE y \in 2001 + d \div 366 .. 2001 + d \div 365 :
    YearStart(y) <= d /\ d < YearStart(y + 1)

LeapDay(y) == YearStart(y + 1) - YearStart(y) - 365

\* The days of a year before each of its months, and its end.
DaysBefore(y) ==
  LET n == LeapDay(y) IN
  <<0, 31, 59 + n, 90 + n, 120 + n, 151 + n, 181 + n, 212 + n, 243 + n, 273 + n,
    304 + n, 334 + n, 365 + n>>

MonthOf(d) ==
  LET y == YearOf(d) IN
  CHOOSE m \in 1..12 : /\ DaysBefore(y)[m] <= d - YearStart(y)
                       /\ d - YearStart(y) < DaysBefore(y)[m + 1]

\* getUTCDay() || 7
Weekday(d) == (d % 7) + 1

IsoWeek(d) ==
  LET thursday == d + 4 - Weekday(d)
      y == YearOf(thursday)
  IN  <<y, (thursday - YearStart(y)) \div 7 + 1>>

BucketKey(d, unit) ==
  CASE unit = "day"   -> <<d>>
    [] unit = "week"  -> IsoWeek(d)
    [] unit = "month" -> <<YearOf(d), MonthOf(d)>>

-----------------------------------------------------------------------------
(***************************************************************************)
(* keepBuckets and expiredBackupJobIds, on a set of ids.                   *)
(***************************************************************************)

\* Mutant of NewestFirst: the difference of the comparison the other way round.
OldestFirst(S) ==
  [n \in 1..Cardinality(S) |-> CHOOSE id \in S : Cardinality({j \in S : j < id}) = n - 1]

\* The sorted candidates: the n-th one has n - 1 newer ones.
NewestFirst(S) ==
  [n \in 1..Cardinality(S) |-> CHOOSE id \in S : Cardinality({j \in S : j > id}) = n - 1]

\* Mutant of VisitCandidate: the limit counts backups, not buckets.
VisitBackup(seen, id, limit, unit) ==
  IF Cardinality(seen.keep) >= limit THEN seen
  ELSE [buckets |-> seen.buckets \cup {BucketKey(created[id], unit)},
        keep    |-> seen.keep \cup {id}]

\* The body of the loop.
VisitCandidate(seen, id, limit, unit) ==
  LET key == BucketKey(created[id], unit) IN
  IF key \in seen.buckets \/ Cardinality(seen.buckets) >= limit THEN seen
  ELSE [buckets |-> seen.buckets \cup {key}, keep |-> seen.keep \cup {id}]

\* What the loop has seen after each of its rounds.
Rounds(S, limit, unit) ==
  LET seen[n \in 0..Cardinality(S)] ==
        IF n = 0 THEN [buckets |-> {}, keep |-> {}]
        ELSE VisitCandidate(seen[n - 1], NewestFirst(S)[n], limit, unit)
  IN  seen

KeepBuckets(S, limit, unit) == Rounds(S, limit, unit)[Cardinality(S)].keep

Keep(S) ==
  IF S = {} THEN {}
  ELSE {NewestFirst(S)[1]}
         \cup KeepBuckets(S, retention.daily, "day")
         \cup KeepBuckets(S, retention.weekly, "week")
         \cup KeepBuckets(S, retention.monthly, "month")

ExpiredBackupJobIds(S) == S \ Keep(S)

-----------------------------------------------------------------------------
Init ==
  /\ retention \in Limits
  /\ created = <<>>
  /\ succeeded = {}
  /\ available = {}
  /\ applied = "complete"

\* A job of the plan is created, on a day not before the last one's.
CreateJob(d) ==
  /\ Len(created) < MaxBackups
  /\ \A n \in 1..Len(created) : created[n] <= d
  /\ created' = Append(created, d)
  /\ UNCHANGED <<retention, succeeded, available, applied>>

\* markSucceeded. Jobs of a plan need not succeed in createdAt order, and a
\* worker that stops here leaves applyRetention due until the next success.
Succeed(id) ==
  /\ id \notin succeeded
  /\ succeeded' = succeeded \cup {id}
  /\ available' = available \cup {id}
  /\ applied' = "due"
  /\ UNCHANGED <<retention, created>>

\* applyRetention removes what has expired, newest first. An artifact that cannot
\* be verified or deleted ends it half-way, and nothing retries it. A job whose
\* destination was deleted is skipped by the code; destinations stay here.
ApplyRetention(removed) ==
  /\ applied = "due"
  /\ LET expired == ExpiredBackupJobIds(available) IN
       /\ removed \subseteq expired
       /\ \A i \in expired, j \in removed : i > j => i \in removed
       /\ applied' = IF removed = expired THEN "complete" ELSE "abandoned"
  /\ available' = available \ removed
  /\ UNCHANGED <<retention, created, succeeded>>

Next ==
  \/ \E d \in Days : CreateJob(d)
  \/ \E id \in 1..Len(created) : Succeed(id)
  \/ \E removed \in SUBSET available : ApplyRetention(removed)

Spec == Init /\ [][Next]_vars

-----------------------------------------------------------------------------
(***************************************************************************)
(* Properties.                                                             *)
(***************************************************************************)

\* Days of one calendar day, week (from Monday to Sunday) or month, without keys.
SamePeriod(d, e, unit) ==
  CASE unit = "day"   -> d = e
    [] unit = "week"  -> d - Weekday(d) = e - Weekday(e)
    [] unit = "month" -> YearOf(d) = YearOf(e) /\ MonthOf(d) = MonthOf(e)

\* The newest backup in S of its day, week or month.
LastOfPeriod(S, id, unit) ==
  \A j \in S : j > id => ~SamePeriod(created[id], created[j], unit)

\* The newest backup of each of the latest `limit` days, weeks or months with a backup.
Group(S, limit, unit) ==
  {id \in S : /\ LastOfPeriod(S, id, unit)
              /\ Cardinality({j \in S : j > id /\ LastOfPeriod(S, j, unit)}) < limit}

\* What the comment of expiredBackupJobIds promises: the newest backup, and the
\* newest one of each of the latest days, weeks and months with a backup.
Promised(S) ==
  {id \in S : \A j \in S : j <= id}
    \cup Group(S, retention.daily, "day")
    \cup Group(S, retention.weekly, "week")
    \cup Group(S, retention.monthly, "month")

\* The loops over formatted day, week and month keys in expiredBackupJobIds keep
\* exactly what its comment promises, whatever artifacts are left.
KeepsPromised == Keep(available) = Promised(available)

\* History does not matter: after any sequence of backups, in whatever order they
\* succeeded, and of complete, abandoned and missed applyRetention runs, a complete
\* one leaves exactly what the rule selects from all the backups there ever were.
HistoryIndependent ==
  applied = "complete" => available = Promised(succeeded)
=============================================================================

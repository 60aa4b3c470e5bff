------------------------ MODULE BackupRetentionProofs ------------------------
(***************************************************************************)
(* What expiredBackupJobIds keeps, for any days, settings and number of    *)
(* backups, and that a complete applyRetention makes good whatever earlier *)
(* ones missed.                                                            *)
(***************************************************************************)
EXTENDS BackupRetention, FiniteSetTheorems, WellFoundedInduction, TLAPS

Units == {"day", "week", "month"}

-----------------------------------------------------------------------------
(* Numbers *)

LEMMA LeastNumber ==
  ASSUME NEW T \in SUBSET Nat, T # {}
  PROVE  \E x \in T : \A y \in T : x <= y
<1>1. PICK x \in T : \A y \in T : ~(<<y, x>> \in OpToRel(<, Nat))
  BY NatLessThanWellFounded, WFMin
<1>2. \A y \in T : ~(y < x)
  BY <1>1 DEF OpToRel
<1>3. \A y \in T : x <= y
  <2>1. x \in Nat /\ \A y \in T : y \in Nat
    OBVIOUS
  <2> QED  BY <1>2, <2>1
<1> QED  BY <1>3

\* A bounded set of numbers has a greatest one: its distance from the bound is the least.
LEMMA GreatestNumber ==
  ASSUME NEW n \in Nat, NEW T \in SUBSET (1..n), T # {}
  PROVE  \E x \in T : \A y \in T : y <= x
<1> DEFINE D == {d \in Nat : n - d \in T}
<1>1. D \in SUBSET Nat
  OBVIOUS
<1>2. D # {}
  <2>1. PICK x \in T : TRUE
    OBVIOUS
  <2>2. n - x \in Nat /\ n - (n - x) = x
    BY <2>1
  <2> QED  BY <2>1, <2>2
<1>3. PICK d \in D : \A e \in D : d <= e
  <2> HIDE DEF D
  <2> QED  BY <1>1, <1>2, LeastNumber
<1>4. ASSUME NEW y \in T PROVE y <= n - d
  <2>1. n - y \in Nat /\ n - (n - y) = y
    OBVIOUS
  <2>2. n - y \in D
    BY <2>1
  <2>3. d <= n - y /\ d \in Nat /\ y \in Nat
    BY <1>3, <2>2
  <2> QED  BY <2>3
<1>5. n - d \in T
  BY <1>3
<1> QED  BY <1>4, <1>5

\* The backups of a plan are finitely many.
LEMMA BackupsFinite ==
  ASSUME NEW n \in Nat, NEW S \in SUBSET (1..n)
  PROVE  /\ IsFiniteSet(S) /\ Cardinality(S) \in Nat
         /\ \A T \in SUBSET S : /\ IsFiniteSet(T) /\ Cardinality(T) \in Nat
                                /\ Cardinality(T) <= Cardinality(S)
<1>1. IsFiniteSet(1..n)
  BY FS_Interval
<1>2. IsFiniteSet(S)
  BY <1>1, FS_Subset
<1> QED  BY <1>2, FS_Subset, FS_CardinalityType

-----------------------------------------------------------------------------
(* Days, weeks and months *)

LEMMA SamePeriodIsEquivalence ==
  ASSUME NEW unit \in Units, NEW d, NEW e, NEW f
  PROVE  /\ SamePeriod(d, d, unit)
         /\ SamePeriod(d, e, unit) => SamePeriod(e, d, unit)
         /\ SamePeriod(d, e, unit) /\ SamePeriod(e, f, unit) => SamePeriod(d, f, unit)
<1>1. CASE unit = "day"
  BY <1>1 DEF SamePeriod
<1>2. CASE unit = "week"
  BY <1>2 DEF SamePeriod
<1>3. CASE unit = "month"
  BY <1>3 DEF SamePeriod
<1> QED  BY <1>1, <1>2, <1>3 DEF Units

\* The newest ones of their periods.
Lasts(S, unit) == {j \in S : LastOfPeriod(S, j, unit)}

\* Every backup's period has a last one, and that one is not older.
LEMMA PeriodHasLast ==
  ASSUME NEW n \in Nat, NEW S \in SUBSET (1..n), NEW unit \in Units, NEW i \in S
  PROVE  \E k \in Lasts(S, unit) : k >= i /\ SamePeriod(created[i], created[k], unit)
<1>1. PICK T : T = {k \in S : k >= i /\ SamePeriod(created[i], created[k], unit)}
  OBVIOUS
<1>2. T \in SUBSET (1..n) /\ i \in T
  <2>1. i >= i
    OBVIOUS
  <2> QED  BY <1>1, <2>1, SamePeriodIsEquivalence
<1>3. PICK k \in T : \A j \in T : j <= k
  BY <1>2, GreatestNumber
<1>4. k \in S /\ k >= i /\ SamePeriod(created[i], created[k], unit)
  BY <1>1, <1>3
<1>5. ASSUME NEW j \in S, j > k, SamePeriod(created[k], created[j], unit) PROVE FALSE
  <2>1. SamePeriod(created[i], created[j], unit)
    BY <1>4, <1>5, SamePeriodIsEquivalence
  <2>2. j >= i /\ ~(j <= k)
    BY <1>4, <1>5
  <2> QED  BY <1>1, <1>3, <2>1, <2>2
<1>6. LastOfPeriod(S, k, unit)
  BY <1>5 DEF LastOfPeriod
<1> QED  BY <1>4, <1>6 DEF Lasts

\* Two last ones of the same period are the same.
LEMMA LastIsUnique ==
  ASSUME NEW n \in Nat, NEW S \in SUBSET (1..n), NEW unit \in Units,
         NEW i \in Lasts(S, unit), NEW k \in Lasts(S, unit),
         SamePeriod(created[i], created[k], unit)
  PROVE  i = k
<1>1. i \in S /\ k \in S /\ i \in Nat /\ k \in Nat
  BY DEF Lasts
<1>2. ~(k > i)
  BY <1>1 DEF Lasts, LastOfPeriod
<1>3. ~(i > k)
  BY <1>1, SamePeriodIsEquivalence DEF Lasts, LastOfPeriod
<1> QED  BY <1>1, <1>2, <1>3

-----------------------------------------------------------------------------
(* The daily, weekly and monthly groups *)

\* The newer ones among the last ones of their periods.
Newer(S, i, unit) == {j \in Lasts(S, unit) : j > i}

LEMMA GroupMembers ==
  ASSUME NEW S, NEW limit, NEW unit, NEW i
  PROVE  i \in Group(S, limit, unit) <=>
           i \in Lasts(S, unit) /\ Cardinality(Newer(S, i, unit)) < limit
<1>1. Newer(S, i, unit) = {j \in S : j > i /\ LastOfPeriod(S, j, unit)}
  BY DEF Newer, Lasts
<1> QED  BY <1>1 DEF Group, Lasts

LEMMA NewerFinite ==
  ASSUME NEW n \in Nat, NEW S \in SUBSET (1..n), NEW unit, NEW i
  PROVE  /\ Newer(S, i, unit) \in SUBSET S /\ IsFiniteSet(Newer(S, i, unit))
         /\ Cardinality(Newer(S, i, unit)) \in Nat
<1>1. Newer(S, i, unit) \in SUBSET S
  BY DEF Newer, Lasts
<1> QED  BY <1>1, BackupsFinite

\* One more successful backup, however old, brings nothing else back.
LEMMA GroupOfOneMore ==
  ASSUME NEW n \in Nat, NEW S \in SUBSET (1..n), NEW x \in 1..n, x \notin S,
         NEW limit \in Nat, NEW unit \in Units, NEW i \in Group(S \cup {x}, limit, unit), i # x
  PROVE  i \in Group(S, limit, unit)
<1>1. PICK R : R = S \cup {x}
  OBVIOUS
<1>2. R \in SUBSET (1..n) /\ S \in SUBSET R /\ x \in R
  BY <1>1
<1>3. i \in Lasts(R, unit) /\ Cardinality(Newer(R, i, unit)) < limit
  BY <1>1, GroupMembers
<1>4. i \in S /\ i \in Lasts(S, unit)
  BY <1>1, <1>3 DEF Lasts, LastOfPeriod
<1>5. Cardinality(Newer(S, i, unit)) <= Cardinality(Newer(R, i, unit))
  <2>0. /\ IsFiniteSet(Newer(R, i, unit)) /\ IsFiniteSet(Newer(S, i, unit))
        /\ Cardinality(Newer(R, i, unit)) \in Nat /\ Cardinality(Newer(S, i, unit)) \in Nat
    BY <1>2, NewerFinite
  <2>1. CASE Newer(S, i, unit) \subseteq Newer(R, i, unit)
    BY <2>0, <2>1, FS_Subset
  <2>2. CASE ~(Newer(S, i, unit) \subseteq Newer(R, i, unit))
    <3>1. PICK j \in Newer(S, i, unit) : j \notin Newer(R, i, unit)
      BY <2>2
    <3>2. j \in S /\ j > i /\ j \in Lasts(S, unit) /\ j \notin Lasts(R, unit)
      BY <3>1 DEF Newer, Lasts
    <3>3. x > j /\ SamePeriod(created[j], created[x], unit)
      BY <1>1, <3>2 DEF Lasts, LastOfPeriod
    <3>4. x > i
      BY <1>2, <1>4, <3>2, <3>3
    <3>5. x \in Lasts(R, unit)
      <4>1. ASSUME NEW k \in R, k > x, SamePeriod(created[x], created[k], unit) PROVE FALSE
        <5>1. k \in S /\ k > j
          BY <1>1, <1>2, <3>2, <3>3, <4>1
        <5>2. SamePeriod(created[j], created[k], unit)
          BY <3>3, <4>1, SamePeriodIsEquivalence
        <5> QED  BY <3>2, <5>1, <5>2 DEF Lasts, LastOfPeriod
      <4> QED  BY <1>2, <4>1 DEF Lasts, LastOfPeriod
    <3>6. ASSUME NEW k \in Newer(S, i, unit), k # j PROVE k \in Newer(R, i, unit) \ {x}
      <4>1. k \in S /\ k > i /\ k \in Lasts(S, unit) /\ k # x
        BY <3>6 DEF Newer, Lasts
      <4>2. ASSUME k \notin Lasts(R, unit) PROVE FALSE
        <5>1. SamePeriod(created[k], created[x], unit)
          BY <1>1, <4>1, <4>2 DEF Lasts, LastOfPeriod
        <5>2. SamePeriod(created[k], created[j], unit)
          BY <3>3, <5>1, SamePeriodIsEquivalence
        <5> QED  BY <3>2, <3>6, <4>1, <5>2, LastIsUnique
      <4> QED  BY <4>1, <4>2 DEF Newer
    <3>7. PICK P : P = Newer(S, i, unit) \ {j}
      OBVIOUS
    <3>8. PICK Q : Q = Newer(R, i, unit) \ {x}
      OBVIOUS
    <3>9. P \subseteq Q /\ x \in Newer(R, i, unit)
      BY <3>4, <3>5, <3>6, <3>7, <3>8 DEF Newer
    <3>10. /\ IsFiniteSet(P) /\ Cardinality(P) = Cardinality(Newer(S, i, unit)) - 1
           /\ IsFiniteSet(Q) /\ Cardinality(Q) = Cardinality(Newer(R, i, unit)) - 1
      BY <2>0, <3>1, <3>7, <3>8, <3>9, FS_RemoveElement
    <3>11. Cardinality(P) <= Cardinality(Q)
      BY <3>9, <3>10, FS_Subset
    <3> QED  BY <2>0, <3>10, <3>11
  <2> QED  BY <2>1, <2>2
<1>6. Cardinality(Newer(S, i, unit)) \in Nat /\ Cardinality(Newer(R, i, unit)) \in Nat
  BY <1>2, NewerFinite
<1>7. Cardinality(Newer(S, i, unit)) < limit
  BY <1>3, <1>5, <1>6
<1> QED  BY <1>4, <1>7, GroupMembers

\* What is left between a group and all backups has the same group.
LEMMA GroupOfTheRest ==
  ASSUME NEW n \in Nat, NEW S \in SUBSET (1..n), NEW limit \in Nat, NEW unit \in Units,
         NEW A \in SUBSET S, Group(S, limit, unit) \subseteq A
  PROVE  Group(A, limit, unit) = Group(S, limit, unit)
<1>0. A \in SUBSET (1..n)
  OBVIOUS
<1>1. ASSUME NEW k \in Lasts(S, unit), k \in A PROVE k \in Lasts(A, unit)
  BY <1>1 DEF Lasts, LastOfPeriod
<1>2. ASSUME NEW i \in Group(S, limit, unit), NEW k \in Newer(S, i, unit)
      PROVE  k \in Group(S, limit, unit)
  <2>1. /\ k \in Lasts(S, unit) /\ k \in S /\ k > i /\ i \in S
        /\ Cardinality(Newer(S, i, unit)) < limit
    BY GroupMembers DEF Newer, Lasts
  <2>2. Newer(S, k, unit) \subseteq Newer(S, i, unit)
    <3>1. SUFFICES ASSUME NEW j \in Newer(S, k, unit) PROVE j \in Newer(S, i, unit)
      OBVIOUS
    <3>2. j \in Lasts(S, unit) /\ j > k
      BY <3>1 DEF Newer
    <3>3. j \in Nat /\ k \in Nat /\ i \in Nat
      BY <2>1, <3>2 DEF Lasts
    <3>4. j > i
      BY <2>1, <3>2, <3>3
    <3> QED  BY <3>2, <3>4 DEF Newer
  <2>3. Cardinality(Newer(S, k, unit)) <= Cardinality(Newer(S, i, unit))
    BY <2>2, NewerFinite, FS_Subset
  <2>4. Cardinality(Newer(S, k, unit)) \in Nat /\ Cardinality(Newer(S, i, unit)) \in Nat
    BY NewerFinite
  <2>5. Cardinality(Newer(S, k, unit)) < limit
    BY <2>1, <2>3, <2>4
  <2> QED  BY <2>1, <2>5, GroupMembers
<1>3. ASSUME NEW i \in Group(S, limit, unit) PROVE i \in Group(A, limit, unit)
  <2>1. i \in Lasts(S, unit) /\ i \in S /\ Cardinality(Newer(S, i, unit)) < limit
    BY GroupMembers DEF Lasts
  <2>2. ASSUME NEW j \in Newer(A, i, unit) PROVE j \in Newer(S, i, unit)
    <3>1. j \in Lasts(A, unit) /\ j \in S /\ j \in A /\ j > i
      BY DEF Newer, Lasts
    <3>2. PICK k \in Lasts(S, unit) : k >= j /\ SamePeriod(created[j], created[k], unit)
      BY <3>1, PeriodHasLast
    <3>3. k \in S /\ k > i
      <4>1. k \in S
        BY <3>2 DEF Lasts
      <4> QED  BY <2>1, <3>1, <3>2, <4>1
    <3>4. k \in A
      BY <1>2, <3>2, <3>3 DEF Newer
    <3>5. k \in Lasts(A, unit)
      BY <1>1, <3>2, <3>4
    <3>6. j = k
      BY <1>0, <3>1, <3>2, <3>5, LastIsUnique
    <3> QED  BY <3>2, <3>3, <3>6 DEF Newer
  <2>3. Newer(A, i, unit) \subseteq Newer(S, i, unit)
    BY <2>2
  <2>4. Cardinality(Newer(A, i, unit)) <= Cardinality(Newer(S, i, unit))
    BY <2>3, NewerFinite, FS_Subset
  <2>5. Cardinality(Newer(A, i, unit)) \in Nat /\ Cardinality(Newer(S, i, unit)) \in Nat
    BY <1>0, NewerFinite
  <2>6. Cardinality(Newer(A, i, unit)) < limit
    BY <2>1, <2>4, <2>5
  <2>7. i \in Lasts(A, unit)
    BY <1>1, <2>1
  <2> QED  BY <2>6, <2>7, GroupMembers
<1>4. ASSUME NEW i \in Group(A, limit, unit) PROVE i \in Group(S, limit, unit)
  <2>1. i \in Lasts(A, unit) /\ i \in A /\ i \in S /\ Cardinality(Newer(A, i, unit)) < limit
    BY GroupMembers DEF Lasts
  <2>2. PICK k \in Lasts(S, unit) : k >= i /\ SamePeriod(created[i], created[k], unit)
    BY <2>1, PeriodHasLast
  <2>3. CASE k \in Group(S, limit, unit)
    <3>1. k \in Lasts(A, unit)
      BY <1>1, <2>2, <2>3
    <3> QED  BY <1>0, <2>1, <2>2, <2>3, <3>1, LastIsUnique
  <2>4. CASE k \notin Group(S, limit, unit)
    <3>1. PICK T : T = Lasts(S, unit) \ Group(S, limit, unit)
      OBVIOUS
    <3>2. T \in SUBSET (1..n) /\ k \in T
      BY <2>2, <2>4, <3>1 DEF Lasts
    <3>3. PICK m \in T : \A j \in T : j <= m
      BY <3>2, GreatestNumber
    <3>4. m \in Lasts(S, unit) /\ ~(Cardinality(Newer(S, m, unit)) < limit)
      BY <3>1, <3>3, GroupMembers
    <3>5. ASSUME NEW j \in Newer(S, m, unit) PROVE j \in Newer(A, i, unit)
      <4>1. j \in Lasts(S, unit) /\ j \in S /\ j > m
        BY DEF Newer, Lasts
      <4>2. j \in Nat /\ m \in Nat /\ k \in Nat /\ i \in Nat
        BY <2>1, <3>2, <3>3, <4>1
      <4>3. m >= k /\ k >= i
        BY <2>2, <3>2, <3>3
      <4>4. j \notin T /\ j > i
        BY <3>3, <4>1, <4>2, <4>3
      <4>5. j \in A
        BY <3>1, <4>1, <4>4
      <4> QED  BY <1>1, <4>1, <4>4, <4>5 DEF Newer
    <3>6. Cardinality(Newer(S, m, unit)) <= Cardinality(Newer(A, i, unit))
      BY <1>0, <3>5, NewerFinite, FS_Subset
    <3>7. Cardinality(Newer(A, i, unit)) \in Nat /\ Cardinality(Newer(S, m, unit)) \in Nat
      BY <1>0, NewerFinite
    <3> QED  BY <2>1, <3>4, <3>6, <3>7
  <2> QED  BY <2>3, <2>4
<1> QED  BY <1>3, <1>4

-----------------------------------------------------------------------------
(* What is promised *)

LimitsOK == retention \in [daily : Nat, weekly : Nat, monthly : Nat]

\* A backup that succeeds takes promises away, it makes none but its own.
LEMMA PromisedOfOneMore ==
  ASSUME LimitsOK, NEW n \in Nat, NEW S \in SUBSET (1..n), NEW x \in 1..n, x \notin S
  PROVE  Promised(S \cup {x}) \subseteq Promised(S) \cup {x}
<1>1. retention.daily \in Nat /\ retention.weekly \in Nat /\ retention.monthly \in Nat
  BY DEF LimitsOK
<1>2. SUFFICES ASSUME NEW i \in Promised(S \cup {x}), i # x PROVE i \in Promised(S)
  OBVIOUS
<1>3. "day" \in Units /\ "week" \in Units /\ "month" \in Units
  BY DEF Units
<1>4. CASE i \in {k \in S \cup {x} : \A j \in S \cup {x} : j <= k}
  BY <1>2, <1>4 DEF Promised
<1>5. CASE i \in Group(S \cup {x}, retention.daily, "day")
  BY <1>1, <1>2, <1>3, <1>5, GroupOfOneMore DEF Promised
<1>6. CASE i \in Group(S \cup {x}, retention.weekly, "week")
  BY <1>1, <1>2, <1>3, <1>6, GroupOfOneMore DEF Promised
<1>7. CASE i \in Group(S \cup {x}, retention.monthly, "month")
  BY <1>1, <1>2, <1>3, <1>7, GroupOfOneMore DEF Promised
<1> QED  BY <1>2, <1>4, <1>5, <1>6, <1>7 DEF Promised

\* What is promised of all backups is what is promised of those that are left, as long as
\* no promise was broken.
LEMMA PromisedOfTheRest ==
  ASSUME LimitsOK, NEW n \in Nat, NEW S \in SUBSET (1..n), NEW A \in SUBSET S,
         Promised(S) \subseteq A
  PROVE  Promised(A) = Promised(S)
<1>1. retention.daily \in Nat /\ retention.weekly \in Nat /\ retention.monthly \in Nat
  BY DEF LimitsOK
<1>2. "day" \in Units /\ "week" \in Units /\ "month" \in Units
  BY DEF Units
<1>3. Group(A, retention.daily, "day") = Group(S, retention.daily, "day")
  <2>1. Group(S, retention.daily, "day") \subseteq A
    BY DEF Promised
  <2> QED  BY <1>1, <1>2, <2>1, GroupOfTheRest
<1>4. Group(A, retention.weekly, "week") = Group(S, retention.weekly, "week")
  <2>1. Group(S, retention.weekly, "week") \subseteq A
    BY DEF Promised
  <2> QED  BY <1>1, <1>2, <2>1, GroupOfTheRest
<1>5. Group(A, retention.monthly, "month") = Group(S, retention.monthly, "month")
  <2>1. Group(S, retention.monthly, "month") \subseteq A
    BY DEF Promised
  <2> QED  BY <1>1, <1>2, <2>1, GroupOfTheRest
<1>6. {k \in A : \A j \in A : j <= k} = {k \in S : \A j \in S : j <= k}
  <2>1. ASSUME NEW k \in S, \A j \in S : j <= k
        PROVE  k \in {h \in A : \A j \in A : j <= h}
    <3>1. k \in A
      BY <2>1 DEF Promised
    <3> QED  BY <2>1, <3>1
  <2>2. ASSUME NEW k \in A, \A j \in A : j <= k
        PROVE  \A j \in S : j <= k
    <3>1. PICK g \in S : \A j \in S : j <= g
      BY GreatestNumber
    <3>2. g \in A
      BY <3>1 DEF Promised
    <3>3. g <= k /\ \A j \in S : j <= g /\ j \in Nat
      BY <2>2, <3>1, <3>2
    <3> QED  BY <3>3
  <2> QED  BY <2>1, <2>2
<1> QED  BY <1>3, <1>4, <1>5, <1>6 DEF Promised

-----------------------------------------------------------------------------
(* The keys of days, weeks and months *)

LEMMA YearStartBounds ==
  ASSUME NEW n \in Nat
  PROVE  /\ YearStart(2001 + n) \in Int
         /\ 365 * n <= YearStart(2001 + n) /\ YearStart(2001 + n) <= 366 * n
<1>1. (2001 + n) - 2001 = n
  OBVIOUS
<1>2. YearStart(2001 + n) = 365 * n + n \div 4 - n \div 100 + n \div 400
  BY <1>1 DEF YearStart
<1>3. /\ n \div 4 \in Int /\ n \div 100 \in Int /\ n \div 400 \in Int
      /\ n \div 100 <= n \div 4 /\ 0 <= n \div 400 /\ n \div 400 <= n \div 100
      /\ n \div 4 <= n
  OBVIOUS
<1> QED  BY <1>2, <1>3

\* Every day has its year.
LEMMA YearExists ==
  ASSUME NEW d \in Nat
  PROVE  YearOf(d) \in Int /\ YearStart(YearOf(d)) \in Int
<1> DEFINE T == {n \in Nat : d < YearStart(2001 + (n + 1))}
<1>1. T \in SUBSET Nat
  OBVIOUS
<1>2. T # {}
  <2>1. d + 1 \in Nat
    OBVIOUS
  <2>2. 365 * (d + 1) <= YearStart(2001 + (d + 1)) /\ YearStart(2001 + (d + 1)) \in Int
    BY <2>1, YearStartBounds
  <2>3. d < YearStart(2001 + (d + 1))
    BY <2>2
  <2> QED  BY <2>3
<1>3. PICK n \in T : \A m \in T : n <= m
  <2> HIDE DEF T
  <2> QED  BY <1>1, <1>2, LeastNumber
<1>4. n \in Nat /\ d < YearStart(2001 + (n + 1))
  BY <1>3
<1>5. YearStart(2001 + n) <= d
  <2>1. CASE n = 0
    <3>1. YearStart(2001 + n) <= 366 * n /\ YearStart(2001 + n) \in Int
      BY <1>4, YearStartBounds
    <3> QED  BY <2>1, <3>1
  <2>2. CASE n # 0
    <3>1. n - 1 \in Nat /\ ~(n <= n - 1) /\ (n - 1) + 1 = n
      BY <1>4, <2>2
    <3>2. n - 1 \notin T
      BY <1>3, <3>1
    <3>3. ~(d < YearStart(2001 + n))
      BY <3>1, <3>2
    <3>4. YearStart(2001 + n) \in Int
      BY <1>4, YearStartBounds
    <3> QED  BY <3>3, <3>4
  <2> QED  BY <2>1, <2>2
<1>6. /\ YearStart(2001 + n) \in Int /\ 365 * n <= YearStart(2001 + n)
      /\ YearStart(2001 + (n + 1)) \in Int /\ YearStart(2001 + (n + 1)) <= 366 * (n + 1)
  <2>1. n + 1 \in Nat
    BY <1>4
  <2> QED  BY <1>4, <2>1, YearStartBounds
<1>7. 365 * n <= d /\ d < 366 * (n + 1)
  BY <1>4, <1>5, <1>6
<1>8. n <= d \div 365 /\ d \div 366 <= n
  BY <1>4, <1>7
<1>9. 2001 + n \in 2001 + d \div 366 .. 2001 + d \div 365
  BY <1>4, <1>8
<1>10. (2001 + n) + 1 = 2001 + (n + 1)
  BY <1>4
<1>11. \E y \in 2001 + d \div 366 .. 2001 + d \div 365 :
         YearStart(y) <= d /\ d < YearStart(y + 1)
  BY <1>4, <1>5, <1>9, <1>10
<1>12. YearOf(d) \in 2001 + d \div 366 .. 2001 + d \div 365
  BY <1>11 DEF YearOf
<1>13. PICK y \in Int : y = YearOf(d)
  BY <1>12
<1>14. YearStart(y) \in Int
  BY <1>13 DEF YearStart
<1> QED  BY <1>13, <1>14

\* The formatted keys tell periods apart, and nothing else: the year of a week's Thursday
\* and the Thursday's week in it name the week.
LEMMA KeyNamesPeriod ==
  ASSUME NEW d \in Nat, NEW e \in Nat, NEW unit \in Units
  PROVE  BucketKey(d, unit) = BucketKey(e, unit) <=> SamePeriod(d, e, unit)
<1>1. CASE unit = "day"
  BY <1>1 DEF BucketKey, SamePeriod
<1>2. CASE unit = "month"
  BY <1>2 DEF BucketKey, SamePeriod
<1>3. CASE unit = "week"
  <2>1. PICK s \in Nat : s = d + 4 - Weekday(d) /\ s % 7 = 3
    <3>1. d + 4 - ((d % 7) + 1) \in Nat /\ (d + 4 - ((d % 7) + 1)) % 7 = 3
      OBVIOUS
    <3> QED  BY <3>1 DEF Weekday
  <2>2. PICK t \in Nat : t = e + 4 - Weekday(e) /\ t % 7 = 3
    <3>1. e + 4 - ((e % 7) + 1) \in Nat /\ (e + 4 - ((e % 7) + 1)) % 7 = 3
      OBVIOUS
    <3> QED  BY <3>1 DEF Weekday
  <2>3. BucketKey(d, unit) = <<YearOf(s), (s - YearStart(YearOf(s))) \div 7 + 1>>
    BY <1>3, <2>1 DEF BucketKey, IsoWeek
  <2>4. BucketKey(e, unit) = <<YearOf(t), (t - YearStart(YearOf(t))) \div 7 + 1>>
    BY <1>3, <2>2 DEF BucketKey, IsoWeek
  <2>5. SamePeriod(d, e, unit) <=> s = t
    <3>1. PICK v \in Int, w \in Int : v = Weekday(d) /\ w = Weekday(e)
      BY DEF Weekday
    <3>2. SamePeriod(d, e, unit) <=> d - v = e - w
      BY <1>3, <3>1 DEF SamePeriod
    <3>3. s = d + 4 - v /\ t = e + 4 - w
      BY <2>1, <2>2, <3>1
    <3> QED  BY <3>2, <3>3
  <2>6. ASSUME BucketKey(d, unit) = BucketKey(e, unit) PROVE s = t
    <3>1. PICK b \in Int : b = YearStart(YearOf(s))
      BY YearExists
    <3>2. YearOf(s) = YearOf(t) /\ (s - b) \div 7 + 1 = (t - b) \div 7 + 1
      BY <2>3, <2>4, <2>6, <3>1
    <3>3. (s - b) \div 7 = (t - b) \div 7
      BY <3>2
    <3> QED  BY <2>1, <2>2, <3>3
  <2> QED  BY <2>3, <2>4, <2>5, <2>6
<1> QED  BY <1>1, <1>2, <1>3 DEF Units

-----------------------------------------------------------------------------
(* The sorted candidates *)

\* The number of newer candidates.
Rank(S, i) == Cardinality({j \in S : j > i})

LEMMA RankType ==
  ASSUME NEW n \in Nat, NEW S \in SUBSET (1..n), NEW i
  PROVE  Rank(S, i) \in Nat /\ IsFiniteSet({j \in S : j > i})
<1>1. {j \in S : j > i} \in SUBSET S
  OBVIOUS
<1> QED  BY <1>1, BackupsFinite DEF Rank

\* A newer candidate has fewer newer ones.
LEMMA RankOrders ==
  ASSUME NEW n \in Nat, NEW S \in SUBSET (1..n), NEW i \in S, NEW k \in S, k > i
  PROVE  Rank(S, k) < Rank(S, i)
<1>1. PICK P : P = {j \in S : j > i}
  OBVIOUS
<1>2. PICK Q : Q = {j \in S : j > k}
  OBVIOUS
<1>3. k \in P /\ IsFiniteSet(P) /\ Cardinality(P) \in Nat /\ Cardinality(Q) \in Nat
  BY <1>1, <1>2, RankType DEF Rank
<1>4. Q \subseteq P \ {k}
  <2>1. SUFFICES ASSUME NEW j \in Q PROVE j \in P \ {k}
    OBVIOUS
  <2>2. j \in S /\ j > k
    BY <1>2, <2>1
  <2>3. j > i /\ j # k
    BY <2>2
  <2> QED  BY <1>1, <2>2, <2>3
<1>5. IsFiniteSet(P \ {k}) /\ Cardinality(P \ {k}) = Cardinality(P) - 1
  BY <1>3, FS_RemoveElement
<1>6. Cardinality(Q) <= Cardinality(P \ {k})
  BY <1>4, <1>5, FS_Subset
<1> QED  BY <1>1, <1>2, <1>3, <1>5, <1>6 DEF Rank

\* There is a candidate of every rank: below the one of the rank before lies a greatest one.
LEMMA RankExists ==
  ASSUME NEW n \in Nat, NEW S \in SUBSET (1..n), NEW m \in Nat, m < Cardinality(S)
  PROVE  \E i \in S : Rank(S, i) = m
<1> DEFINE T == {r \in Nat : r < Cardinality(S) /\ ~\E i \in S : Rank(S, i) = r}
<1> SUFFICES ASSUME T # {} PROVE FALSE
  OBVIOUS
<1>1. PICK r \in T : \A q \in T : r <= q
  <2>1. T \in SUBSET Nat
    OBVIOUS
  <2> HIDE DEF T
  <2> QED  BY <2>1, LeastNumber
<1>2. r \in Nat /\ r < Cardinality(S) /\ ~\E i \in S : Rank(S, i) = r
  BY <1>1
<1>3. Cardinality(S) \in Nat /\ IsFiniteSet(S)
  BY BackupsFinite
<1>4. CASE r = 0
  <2>1. S # {}
    BY <1>2, <1>4, FS_EmptySet
  <2>2. PICK i \in S : \A j \in S : j <= i
    BY <2>1, GreatestNumber
  <2>3. {j \in S : j > i} = {}
    <3>1. \A j \in S : ~(j > i)
      BY <2>2
    <3> QED  BY <3>1
  <2>4. Rank(S, i) = 0
    BY <2>3, FS_EmptySet DEF Rank
  <2> QED  BY <1>2, <1>4, <2>4
<1>5. CASE r # 0
  <2>1. r - 1 \in Nat /\ ~(r <= r - 1) /\ r - 1 < Cardinality(S)
    BY <1>2, <1>3, <1>5
  <2>2. r - 1 \notin T
    <3> HIDE DEF T
    <3> QED  BY <1>1, <2>1
  <2>3. PICK k \in S : Rank(S, k) = r - 1
    BY <2>1, <2>2
  <2>4. PICK P : P = {j \in S : j > k}
    OBVIOUS
  <2>5. k \notin P /\ IsFiniteSet(P) /\ Cardinality(P) = r - 1
    <3>1. k \in Nat /\ ~(k > k)
      OBVIOUS
    <3>2. k \notin P
      BY <2>4, <3>1
    <3> HIDE DEF T
    <3>3. IsFiniteSet(P) /\ Cardinality(P) = Rank(S, k)
      BY <2>4, RankType DEF Rank
    <3> QED  BY <2>3, <3>2, <3>3
  <2>6. IsFiniteSet(P \cup {k}) /\ Cardinality(P \cup {k}) = r
    <3>1. Cardinality(P \cup {k}) = Cardinality(P) + 1 /\ IsFiniteSet(P \cup {k})
      BY <2>5, FS_AddElement
    <3> QED  BY <1>2, <2>5, <3>1
  <2>7. PICK B : B = {j \in S : j < k}
    OBVIOUS
  <2>8. B # {}
    <3>1. ASSUME B = {} PROVE FALSE
      <4>1. \A j \in S : j > k \/ j = k
        <5>1. \A j \in S : ~(j < k) /\ j \in Nat /\ k \in Nat
          BY <2>7, <3>1
        <5> QED  BY <5>1
      <4>2. S = P \cup {k}
        BY <2>4, <4>1
      <4> QED  BY <1>2, <2>6, <4>2
    <3> QED  BY <3>1
  <2>9. B \in SUBSET (1..n)
    BY <2>7
  <2>10. PICK i \in B : \A j \in B : j <= i
    BY <2>8, <2>9, GreatestNumber
  <2>11. i \in S /\ i < k
    BY <2>7, <2>10
  <2>12. {j \in S : j > i} = P \cup {k}
    <3>1. ASSUME NEW j \in S PROVE j > i <=> j > k \/ j = k
      <4>1. j \in Nat /\ i \in Nat /\ k \in Nat
        BY <2>11
      <4>2. j < k => j <= i
        BY <2>7, <2>10
      <4> QED  BY <2>11, <4>1, <4>2
    <3> QED  BY <2>4, <2>11, <3>1
  <2>13. Rank(S, i) = r
    BY <2>6, <2>12 DEF Rank
  <2> QED  BY <1>2, <2>11, <2>13
<1> QED  BY <1>4, <1>5

\* What comes m-th in the sorted list.
LEMMA SortedAt ==
  ASSUME NEW n \in Nat, NEW S \in SUBSET (1..n), NEW m \in 1..Cardinality(S)
  PROVE  NewestFirst(S)[m] \in S /\ Rank(S, NewestFirst(S)[m]) = m - 1
<1>1. Cardinality(S) \in Nat
  BY BackupsFinite
<1>2. m - 1 \in Nat /\ m - 1 < Cardinality(S)
  BY <1>1
<1>3. PICK i \in S : Rank(S, i) = m - 1
  BY <1>2, RankExists
<1>4. \E id \in S : Cardinality({j \in S : j > id}) = m - 1
  BY <1>3 DEF Rank
<1>5. NewestFirst(S)[m] = CHOOSE id \in S : Cardinality({j \in S : j > id}) = m - 1
  BY DEF NewestFirst
<1>6. PICK x : x = NewestFirst(S)[m]
  OBVIOUS
<1>7. x \in S /\ Cardinality({j \in S : j > x}) = m - 1
  BY <1>4, <1>5, <1>6
<1> QED  BY <1>6, <1>7 DEF Rank

-----------------------------------------------------------------------------
(* The loop *)

\* The rounds of the loop up to the m-th.
Visits(f, S, limit, unit, m) ==
  f = [k \in 0..m |-> IF k = 0 THEN [buckets |-> {}, keep |-> {}]
                      ELSE VisitCandidate(f[k - 1], NewestFirst(S)[k], limit, unit)]

\* The loop has its rounds: a number of rounds that it cannot make would have a least one,
\* and one round less can be continued.
LEMMA VisitsExist ==
  ASSUME NEW S, NEW limit, NEW unit, NEW r \in Nat
  PROVE  \E f : Visits(f, S, limit, unit, r)
<1> DEFINE T == {m \in Nat : ~\E f : Visits(f, S, limit, unit, m)}
<1> SUFFICES ASSUME T # {} PROVE FALSE
  OBVIOUS
<1>1. PICK m \in T : \A k \in T : m <= k
  <2>1. T \in SUBSET Nat
    OBVIOUS
  <2> HIDE DEF T
  <2> QED  BY <2>1, LeastNumber
<1>2. m # 0
  <2>1. Visits([k \in 0..0 |-> [buckets |-> {}, keep |-> {}]], S, limit, unit, 0)
    BY DEF Visits
  <2> QED  BY <2>1, <1>1
<1>3. m - 1 \in Nat /\ m \in Nat /\ m - 1 \notin T
  <2>1. m \in Nat
    OBVIOUS
  <2> HIDE DEF T
  <2> QED  BY <1>1, <1>2, <2>1
<1>4. PICK g : Visits(g, S, limit, unit, m - 1)
  BY <1>3
<1>5. PICK f : f = [k \in 0..m |-> IF k = m THEN VisitCandidate(g[m - 1], NewestFirst(S)[m], limit, unit)
                                   ELSE g[k]]
  OBVIOUS
<1>6. \A k \in 0..(m - 1) : f[k] = g[k]
  BY <1>3, <1>5
<1>7. ASSUME NEW k \in 0..m
      PROVE  f[k] = IF k = 0 THEN [buckets |-> {}, keep |-> {}]
                    ELSE VisitCandidate(f[k - 1], NewestFirst(S)[k], limit, unit)
  <2>1. CASE k = 0
    <3>1. g[0] = [buckets |-> {}, keep |-> {}] /\ f[0] = g[0]
      BY <1>2, <1>3, <1>4, <1>6 DEF Visits
    <3> QED  BY <2>1, <3>1
  <2>2. CASE k # 0 /\ k # m
    <3>1. k \in 0..(m - 1) /\ k - 1 \in 0..(m - 1)
      BY <1>3, <2>2
    <3>2. g[k] = VisitCandidate(g[k - 1], NewestFirst(S)[k], limit, unit)
      BY <1>4, <2>2, <3>1 DEF Visits
    <3> QED  BY <1>6, <2>2, <3>1, <3>2
  <2>3. CASE k # 0 /\ k = m
    <3>1. m - 1 \in 0..(m - 1) /\ f[m] = VisitCandidate(g[m - 1], NewestFirst(S)[m], limit, unit)
      BY <1>3, <1>5
    <3> QED  BY <1>6, <2>3, <3>1
  <2> QED  BY <2>1, <2>2, <2>3
<1>8. Visits(f, S, limit, unit, m)
  <2>1. f = [k \in 0..m |-> f[k]]
    BY <1>5
  <2> QED  BY <1>7, <2>1 DEF Visits
<1> QED  BY <1>1, <1>8

LEMMA RoundsStep ==
  ASSUME NEW S, NEW limit, NEW unit, Cardinality(S) \in Nat
  PROVE  /\ Rounds(S, limit, unit)[0] = [buckets |-> {}, keep |-> {}]
         /\ \A m \in 1..Cardinality(S) :
              Rounds(S, limit, unit)[m] =
                VisitCandidate(Rounds(S, limit, unit)[m - 1], NewestFirst(S)[m], limit, unit)
<1>1. PICK N \in Nat : N = Cardinality(S)
  OBVIOUS
<1>2. Rounds(S, limit, unit) = CHOOSE f : Visits(f, S, limit, unit, N)
  BY <1>1 DEF Rounds, Visits
<1>3. PICK f : f = Rounds(S, limit, unit)
  OBVIOUS
<1>4. Visits(f, S, limit, unit, N)
  BY <1>2, <1>3, VisitsExist
<1>5. f = [k \in 0..N |-> IF k = 0 THEN [buckets |-> {}, keep |-> {}]
                          ELSE VisitCandidate(f[k - 1], NewestFirst(S)[k], limit, unit)]
  BY <1>4 DEF Visits
<1>6. f[0] = [buckets |-> {}, keep |-> {}]
  BY <1>5
<1>7. ASSUME NEW m \in 1..N
      PROVE  f[m] = VisitCandidate(f[m - 1], NewestFirst(S)[m], limit, unit)
  <2>1. m \in 0..N /\ m # 0
    OBVIOUS
  <2> QED  BY <1>5, <2>1
<1> QED  BY <1>1, <1>3, <1>6, <1>7

\* Of the candidates visited so far the loop has kept those of the group, and it has one
\* bucket for each of them.
RoundOK(S, limit, unit, m) ==
  LET seen == Rounds(S, limit, unit)[m] IN
  /\ seen.keep = {i \in Group(S, limit, unit) : Rank(S, i) < m}
  /\ seen.buckets = {BucketKey(created[i], unit) : i \in seen.keep}
  /\ IsFiniteSet(seen.buckets) /\ Cardinality(seen.buckets) = Cardinality(seen.keep)

\* The next candidate opens a bucket exactly if it is the last one of its period and the
\* limit is not reached.
LEMMA NextCandidate ==
  ASSUME NEW n \in Nat, NEW S \in SUBSET (1..n), \A i \in S : created[i] \in Nat,
         NEW limit \in Nat, NEW unit \in Units, NEW id \in S,
         NEW keep, keep = {i \in Group(S, limit, unit) : i > id}
  PROVE  id \in Group(S, limit, unit) <=>
           /\ BucketKey(created[id], unit) \notin {BucketKey(created[i], unit) : i \in keep}
           /\ Cardinality(keep) < limit
<1>1. keep \subseteq Newer(S, id, unit)
  BY GroupMembers DEF Newer
<1>2. keep \in SUBSET S
  BY <1>1, NewerFinite
<1>3. IsFiniteSet(keep) /\ Cardinality(keep) \in Nat
  BY <1>2, BackupsFinite
<1>4. ASSUME NEW i \in S
      PROVE  BucketKey(created[id], unit) = BucketKey(created[i], unit) <=>
               SamePeriod(created[id], created[i], unit)
  BY KeyNamesPeriod
<1>5. ASSUME id \in Group(S, limit, unit)
      PROVE  /\ BucketKey(created[id], unit) \notin {BucketKey(created[i], unit) : i \in keep}
             /\ Cardinality(keep) < limit
  <2>1. id \in Lasts(S, unit) /\ Cardinality(Newer(S, id, unit)) < limit
    BY <1>5, GroupMembers
  <2>2. \A i \in keep : i \in S /\ i > id
    BY <1>2
  <2>3. \A i \in keep : ~SamePeriod(created[id], created[i], unit)
    BY <2>1, <2>2 DEF Lasts, LastOfPeriod
  <2>4. Cardinality(keep) <= Cardinality(Newer(S, id, unit))
    BY <1>1, NewerFinite, FS_Subset
  <2>5. Cardinality(Newer(S, id, unit)) \in Nat
    BY NewerFinite
  <2>6. Cardinality(keep) < limit
    BY <1>3, <2>1, <2>4, <2>5
  <2> QED  BY <1>4, <2>2, <2>3, <2>6
<1>6. ASSUME BucketKey(created[id], unit) \notin {BucketKey(created[i], unit) : i \in keep},
             Cardinality(keep) < limit
      PROVE  id \in Group(S, limit, unit)
  <2>1. Newer(S, id, unit) \subseteq keep
    <3>1. PICK T : T = Newer(S, id, unit) \ keep
      OBVIOUS
    <3>2. SUFFICES ASSUME T # {} PROVE FALSE
      BY <3>1
    <3>3. T \in SUBSET (1..n)
      BY <3>1, NewerFinite
    <3>4. PICK k \in T : \A j \in T : j <= k
      BY <3>2, <3>3, GreatestNumber
    <3>5. k \in Lasts(S, unit) /\ k > id /\ k \in Nat /\ id \in Nat /\ k \notin keep
      BY <3>1, <3>3, <3>4 DEF Newer
    <3>6. Newer(S, k, unit) \subseteq keep
      <4>1. SUFFICES ASSUME NEW j \in Newer(S, k, unit) PROVE j \in keep
        OBVIOUS
      <4>2. j \in Lasts(S, unit) /\ j > k /\ j \in Nat
        BY <4>1 DEF Newer, Lasts
      <4>3. j > id /\ ~(j <= k)
        BY <3>5, <4>2
      <4>4. j \in Newer(S, id, unit) /\ j \notin T
        BY <3>4, <4>2, <4>3 DEF Newer
      <4> QED  BY <3>1, <4>4
    <3>7. Cardinality(Newer(S, k, unit)) <= Cardinality(keep)
      BY <1>3, <3>6, FS_Subset
    <3>8. Cardinality(Newer(S, k, unit)) \in Nat
      BY NewerFinite
    <3>9. Cardinality(Newer(S, k, unit)) < limit
      BY <1>3, <1>6, <3>7, <3>8
    <3>10. k \in Group(S, limit, unit)
      BY <3>5, <3>9, GroupMembers
    <3> QED  BY <3>5, <3>10
  <2>2. Cardinality(Newer(S, id, unit)) < limit
    <3>1. Newer(S, id, unit) = keep
      BY <1>1, <2>1
    <3> QED  BY <1>6, <3>1
  <2>3. LastOfPeriod(S, id, unit)
    <3>1. SUFFICES ASSUME NEW j \in S, j > id, SamePeriod(created[id], created[j], unit)
                   PROVE  FALSE
      BY DEF LastOfPeriod
    <3>2. PICK k \in Lasts(S, unit) : k >= j /\ SamePeriod(created[j], created[k], unit)
      BY PeriodHasLast
    <3>3. k \in S /\ k > id
      <4>1. k \in S
        BY <3>2 DEF Lasts
      <4> QED  BY <3>1, <3>2, <4>1
    <3>4. k \in keep
      BY <2>1, <3>2, <3>3 DEF Newer
    <3>5. SamePeriod(created[id], created[k], unit)
      BY <3>1, <3>2, SamePeriodIsEquivalence
    <3>6. BucketKey(created[id], unit) = BucketKey(created[k], unit)
      BY <1>4, <3>3, <3>5
    <3> QED  BY <1>6, <3>4, <3>6
  <2>4. id \in Lasts(S, unit)
    BY <2>3 DEF Lasts
  <2> QED  BY <2>2, <2>4, GroupMembers
<1> QED  BY <1>5, <1>6

LEMMA RoundPreserves ==
  ASSUME NEW n \in Nat, NEW S \in SUBSET (1..n), \A i \in S : created[i] \in Nat,
         NEW limit \in Nat, NEW unit \in Units, NEW m \in 1..Cardinality(S),
         RoundOK(S, limit, unit, m - 1)
  PROVE  RoundOK(S, limit, unit, m)
<1>1. PICK id \in S : id = NewestFirst(S)[m] /\ Rank(S, id) = m - 1
  BY SortedAt
<1>2. Cardinality(S) \in Nat
  BY BackupsFinite
<1>3. PICK old : old = Rounds(S, limit, unit)[m - 1]
  OBVIOUS
<1>4. PICK new : new = Rounds(S, limit, unit)[m]
  OBVIOUS
<1>5. new = VisitCandidate(old, id, limit, unit)
  BY <1>1, <1>2, <1>3, <1>4, RoundsStep
<1>6. /\ old.keep = {i \in Group(S, limit, unit) : Rank(S, i) < m - 1}
      /\ old.buckets = {BucketKey(created[i], unit) : i \in old.keep}
      /\ IsFiniteSet(old.buckets) /\ Cardinality(old.buckets) = Cardinality(old.keep)
  BY <1>3 DEF RoundOK
<1>7. SUFFICES /\ new.keep = {i \in Group(S, limit, unit) : Rank(S, i) < m}
               /\ new.buckets = {BucketKey(created[i], unit) : i \in new.keep}
               /\ IsFiniteSet(new.buckets) /\ Cardinality(new.buckets) = Cardinality(new.keep)
  BY <1>4 DEF RoundOK
<1>8. \A i \in Group(S, limit, unit) : i \in S /\ i \in Nat
  BY DEF Group
<1>9. ASSUME NEW i \in S PROVE /\ Rank(S, i) < m - 1 <=> i > id
                               /\ Rank(S, i) < m <=> i > id \/ i = id
  <2>1. i \in Nat /\ id \in Nat /\ m \in Nat /\ Rank(S, i) \in Nat
    <3>1. Rank(S, i) \in Nat
      BY RankType
    <3>2. m \in Nat
      BY <1>2
    <3> QED  BY <3>1, <3>2
  <2>2. i > id => Rank(S, i) < Rank(S, id)
    BY RankOrders
  <2>3. id > i => Rank(S, id) < Rank(S, i)
    BY RankOrders
  <2>4. i = id \/ i > id \/ id > i
    BY <2>1
  <2>5. i = id => Rank(S, i) = m - 1
    BY <1>1
  <2>6. Rank(S, id) = m - 1
    BY <1>1
  <2> QED  BY <2>1, <2>2, <2>3, <2>4, <2>5, <2>6
<1>10. old.keep = {i \in Group(S, limit, unit) : i > id}
  BY <1>6, <1>8, <1>9
<1>11. {i \in Group(S, limit, unit) : Rank(S, i) < m} =
         IF id \in Group(S, limit, unit) THEN old.keep \cup {id} ELSE old.keep
  BY <1>8, <1>9, <1>10
<1>12. PICK key : key = BucketKey(created[id], unit)
  OBVIOUS
<1>13. PICK keep : keep = old.keep
  OBVIOUS
<1>14. id \in Group(S, limit, unit) <=> key \notin old.buckets /\ Cardinality(keep) < limit
  <2>1. keep = {i \in Group(S, limit, unit) : i > id}
    BY <1>10, <1>13
  <2>2. id \in Group(S, limit, unit) <=>
          /\ BucketKey(created[id], unit) \notin {BucketKey(created[i], unit) : i \in keep}
          /\ Cardinality(keep) < limit
    BY <2>1, NextCandidate
  <2> QED  BY <1>6, <1>12, <1>13, <2>2
<1>15. keep \in SUBSET S /\ IsFiniteSet(keep) /\ Cardinality(keep) \in Nat /\ id \notin keep
  <2>1. keep \in SUBSET S
    BY <1>8, <1>10, <1>13
  <2>2. id \in Nat /\ ~(id > id)
    OBVIOUS
  <2> QED  BY <1>10, <1>13, <2>1, <2>2, BackupsFinite
<1>16. CASE id \in Group(S, limit, unit)
  <2>1. new = [buckets |-> old.buckets \cup {key}, keep |-> old.keep \cup {id}]
    <3>1. key \notin old.buckets /\ ~(Cardinality(old.buckets) >= limit)
      BY <1>6, <1>13, <1>14, <1>15, <1>16
    <3> QED  BY <1>5, <1>12, <3>1 DEF VisitCandidate
  <2>2. new.keep = old.keep \cup {id} /\ new.buckets = old.buckets \cup {key}
    BY <2>1
  <2>3. new.keep = {i \in Group(S, limit, unit) : Rank(S, i) < m}
    BY <1>11, <1>16, <2>2
  <2>4. new.buckets = {BucketKey(created[i], unit) : i \in new.keep}
    BY <1>6, <1>12, <2>2
  <2>5. /\ IsFiniteSet(new.buckets)
        /\ Cardinality(new.buckets) = Cardinality(old.buckets) + 1
        /\ Cardinality(new.keep) = Cardinality(old.keep) + 1
    <3>1. PICK B : B = old.buckets
      OBVIOUS
    <3>2. key \notin B /\ IsFiniteSet(B)
      BY <1>6, <1>14, <1>16, <3>1
    <3>3. IsFiniteSet(B \cup {key}) /\ Cardinality(B \cup {key}) = Cardinality(B) + 1
      BY <3>2, FS_AddElement
    <3>4. Cardinality(keep \cup {id}) = Cardinality(keep) + 1
      BY <1>15, FS_AddElement
    <3> QED  BY <1>13, <2>2, <3>1, <3>3, <3>4
  <2> QED  BY <1>6, <2>3, <2>4, <2>5
<1>17. CASE id \notin Group(S, limit, unit)
  <2>1. new = old
    <3>1. key \in old.buckets \/ Cardinality(old.buckets) >= limit
      BY <1>6, <1>13, <1>14, <1>15, <1>17
    <3> QED  BY <1>5, <1>12, <3>1 DEF VisitCandidate
  <2> QED  BY <1>6, <1>11, <1>17, <2>1
<1> QED  BY <1>16, <1>17

\* The loop over keys computes the group.
LEMMA KeepBucketsIsGroup ==
  ASSUME NEW n \in Nat, NEW S \in SUBSET (1..n), \A i \in S : created[i] \in Nat,
         NEW limit \in Nat, NEW unit \in Units
  PROVE  KeepBuckets(S, limit, unit) = Group(S, limit, unit)
<1>1. PICK N \in Nat : N = Cardinality(S)
  BY BackupsFinite
<1>2. RoundOK(S, limit, unit, 0)
  <2>1. PICK seen : seen = Rounds(S, limit, unit)[0]
    OBVIOUS
  <2>2. seen.keep = {} /\ seen.buckets = {}
    BY <1>1, <2>1, RoundsStep
  <2>3. \A i \in Group(S, limit, unit) : ~(Rank(S, i) < 0)
    <3>1. \A i \in Group(S, limit, unit) : Rank(S, i) \in Nat
      BY RankType
    <3> QED  BY <3>1
  <2>4. seen.keep = {i \in Group(S, limit, unit) : Rank(S, i) < 0}
    BY <2>2, <2>3
  <2>5. seen.buckets = {BucketKey(created[i], unit) : i \in seen.keep}
    BY <2>2
  <2>6. IsFiniteSet(seen.buckets) /\ Cardinality(seen.buckets) = Cardinality(seen.keep)
    BY <2>2, FS_EmptySet
  <2> QED  BY <2>1, <2>4, <2>5, <2>6 DEF RoundOK
<1>3. RoundOK(S, limit, unit, N)
  <2> DEFINE T == {m \in Nat : m <= N /\ ~RoundOK(S, limit, unit, m)}
  <2>1. SUFFICES ASSUME T # {} PROVE FALSE
    OBVIOUS
  <2>2. PICK m \in T : \A k \in T : m <= k
    <3>1. T \in SUBSET Nat
      OBVIOUS
    <3> HIDE DEF T
    <3> QED  BY <2>1, <3>1, LeastNumber
  <2>3. m \in Nat /\ m <= N /\ ~RoundOK(S, limit, unit, m)
    BY <2>2
  <2>4. m # 0
    BY <1>2, <2>3
  <2>5. m - 1 \in Nat /\ m - 1 <= N /\ ~(m <= m - 1) /\ m \in 1..Cardinality(S)
    BY <1>1, <2>3, <2>4
  <2>6. m - 1 \notin T
    <3> HIDE DEF T
    <3> QED  BY <2>2, <2>5
  <2>7. RoundOK(S, limit, unit, m - 1)
    BY <2>5, <2>6
  <2> QED  BY <2>3, <2>5, <2>7, RoundPreserves
<1>4. ASSUME NEW i \in Group(S, limit, unit) PROVE Rank(S, i) < N
  <2>1. i \in S /\ i \in Nat
    BY DEF Group
  <2>2. {j \in S : j > i} \subseteq S \ {i}
    BY <2>1
  <2>3. IsFiniteSet(S) /\ IsFiniteSet(S \ {i}) /\ Cardinality(S \ {i}) = N - 1
    BY <1>1, <2>1, BackupsFinite, FS_RemoveElement
  <2>4. Rank(S, i) <= N - 1
    BY <2>2, <2>3, FS_Subset DEF Rank
  <2>5. Rank(S, i) \in Nat
    BY RankType
  <2> QED  BY <2>4, <2>5
<1>5. KeepBuckets(S, limit, unit) = {i \in Group(S, limit, unit) : Rank(S, i) < N}
  BY <1>1, <1>3 DEF KeepBuckets, RoundOK
<1> QED  BY <1>4, <1>5

\* expiredBackupJobIds keeps what it promises.
LEMMA KeepIsPromised ==
  ASSUME LimitsOK, NEW n \in Nat, NEW S \in SUBSET (1..n), \A i \in S : created[i] \in Nat
  PROVE  Keep(S) = Promised(S)
<1>1. retention.daily \in Nat /\ retention.weekly \in Nat /\ retention.monthly \in Nat
  BY DEF LimitsOK
<1>2. "day" \in Units /\ "week" \in Units /\ "month" \in Units
  BY DEF Units
<1>3. CASE S = {}
  BY <1>3 DEF Keep, Promised, Group
<1>4. CASE S # {}
  <2>1. KeepBuckets(S, retention.daily, "day") = Group(S, retention.daily, "day")
    BY <1>1, <1>2, KeepBucketsIsGroup
  <2>2. KeepBuckets(S, retention.weekly, "week") = Group(S, retention.weekly, "week")
    BY <1>1, <1>2, KeepBucketsIsGroup
  <2>3. KeepBuckets(S, retention.monthly, "month") = Group(S, retention.monthly, "month")
    BY <1>1, <1>2, KeepBucketsIsGroup
  <2>4. 1 \in 1..Cardinality(S)
    <3>1. Cardinality(S) \in Nat /\ Cardinality(S) # 0
      BY <1>4, BackupsFinite, FS_EmptySet
    <3> QED  BY <3>1
  <2>5. PICK x \in S : x = NewestFirst(S)[1] /\ Rank(S, x) = 1 - 1
    BY <2>4, SortedAt
  <2>6. \A j \in S : ~(j > x)
    <3>1. {j \in S : j > x} = {}
      <4>0. Rank(S, x) = 0
        BY <2>5
      <4>1. IsFiniteSet({j \in S : j > x}) /\ Cardinality({j \in S : j > x}) = 0
        BY <4>0, RankType DEF Rank
      <4> QED  BY <4>1, FS_EmptySet
    <3> QED  BY <3>1
  <2>7. \A j \in S : j <= x /\ j \in Nat
    BY <2>6
  <2>8. {i \in S : \A j \in S : j <= i} = {x}
    <3>1. x \in {i \in S : \A j \in S : j <= i}
      BY <2>7
    <3>2. ASSUME NEW i \in S, \A j \in S : j <= i PROVE i = x
      <4>1. i <= x /\ x <= i /\ i \in Nat /\ x \in Nat
        BY <2>7, <3>2
      <4> QED  BY <4>1
    <3> QED  BY <3>1, <3>2
  <2> QED  BY <1>4, <2>1, <2>2, <2>3, <2>5, <2>8 DEF Keep, Promised
<1> QED  BY <1>3, <1>4

-----------------------------------------------------------------------------
(* The theorems *)

RetentionTypeOK ==
  /\ retention \in Limits
  /\ created \in Seq(Days)
  /\ available \in SUBSET succeeded
  /\ succeeded \in SUBSET (1..Len(created))
  /\ applied \in {"due", "complete", "abandoned"}

\* No promise is broken between two complete runs either: what has succeeded and is
\* promised is still there.
RetentionInv ==
  /\ Promised(succeeded) \subseteq available
  /\ HistoryIndependent

LEMMA DaysOfJobs ==
  ASSUME RetentionTypeOK
  PROVE  /\ LimitsOK /\ Len(created) \in Nat
         /\ \A i \in 1..Len(created) : created[i] \in Nat
<1>1. LimitsOK
  BY RetentionAssumption DEF RetentionTypeOK, LimitsOK
<1>2. created \in Seq(Days) /\ Days \subseteq Nat
  BY RetentionAssumption DEF RetentionTypeOK
<1>3. Len(created) \in Nat
  BY <1>2
<1>4. ASSUME NEW i \in 1..Len(created) PROVE created[i] \in Nat
  <2>1. created[i] \in Days
    BY <1>2
  <2> QED  BY <1>2, <2>1
<1> QED  BY <1>1, <1>3, <1>4

LEMMA KeepsPromisedHolds ==
  ASSUME RetentionTypeOK
  PROVE  KeepsPromised
<1>1. PICK n \in Nat : n = Len(created)
  BY DaysOfJobs
<1>2. available \in SUBSET (1..n)
  BY <1>1 DEF RetentionTypeOK
<1>3. \A i \in available : created[i] \in Nat
  BY <1>1, <1>2, DaysOfJobs
<1>4. Keep(available) = Promised(available)
  BY <1>1, <1>2, <1>3, DaysOfJobs, KeepIsPromised
<1> QED  BY <1>4 DEF KeepsPromised

\* What is promised of some backups depends on nothing but their days and the settings.
LEMMA PromisedLater ==
  ASSUME retention' = retention, NEW S, \A i \in S : created'[i] = created[i]
  PROVE  Promised(S)' = Promised(S)
<1>1. ASSUME NEW unit, NEW i \in S PROVE LastOfPeriod(S, i, unit)' <=> LastOfPeriod(S, i, unit)
  <2>1. ASSUME NEW j \in S
        PROVE  SamePeriod(created'[i], created'[j], unit) <=>
                 SamePeriod(created[i], created[j], unit)
    <3>1. created'[i] = created[i] /\ created'[j] = created[j]
      OBVIOUS
    <3> QED  BY <3>1
  <2> QED  BY <2>1 DEF LastOfPeriod
<1>2. ASSUME NEW unit, NEW i \in S
      PROVE  {j \in S : j > i /\ LastOfPeriod(S, j, unit)}' =
               {j \in S : j > i /\ LastOfPeriod(S, j, unit)}
  BY <1>1
<1>3. ASSUME NEW unit, NEW limit PROVE Group(S, limit, unit)' = Group(S, limit, unit)
  BY <1>1, <1>2 DEF Group
<1> QED  BY <1>3 DEF Promised

\* Type correctness: a backup is available only after it has succeeded, and has a job.
THEOREM RetentionTypeCorrect == Spec => []RetentionTypeOK
<1>1. Init => RetentionTypeOK
  <2> SUFFICES ASSUME Init PROVE RetentionTypeOK
    OBVIOUS
  <2>1. created \in Seq(Days)
    BY DEF Init
  <2> QED  BY <2>1 DEF Init, RetentionTypeOK
<1>2. RetentionTypeOK /\ [Next]_vars => RetentionTypeOK'
  <2> SUFFICES ASSUME RetentionTypeOK, [Next]_vars PROVE RetentionTypeOK'
    OBVIOUS
  <2>1. ASSUME NEW d \in Days, CreateJob(d) PROVE RetentionTypeOK'
    <3>1. created' \in Seq(Days) /\ Len(created') = Len(created) + 1 /\ Len(created) \in Nat
      BY <2>1 DEF RetentionTypeOK, CreateJob
    <3>2. 1..Len(created) \subseteq 1..Len(created')
      BY <3>1
    <3> QED  BY <2>1, <3>1, <3>2 DEF RetentionTypeOK, CreateJob
  <2>2. ASSUME NEW id \in 1..Len(created), Succeed(id) PROVE RetentionTypeOK'
    BY <2>2 DEF RetentionTypeOK, Succeed
  <2>3. ASSUME NEW removed \in SUBSET available, ApplyRetention(removed) PROVE RetentionTypeOK'
    BY <2>3 DEF RetentionTypeOK, ApplyRetention
  <2>4. ASSUME UNCHANGED vars PROVE RetentionTypeOK'
    BY <2>4 DEF RetentionTypeOK, vars
  <2> QED  BY <2>1, <2>2, <2>3, <2>4 DEF Next
<1> QED  BY <1>1, <1>2, PTL DEF Spec

\* For any days, limits and number of backups the loops over keys keep what the comment
\* of expiredBackupJobIds promises.
THEOREM KeepsPromisedAlways == Spec => []KeepsPromised
<1>1. RetentionTypeOK => KeepsPromised
  BY KeepsPromisedHolds
<1> QED  BY <1>1, RetentionTypeCorrect, PTL

\* A complete applyRetention leaves what the rule selects from all backups there ever
\* were, whatever order they succeeded in and whatever runs were missed or broken off.
THEOREM RetentionIsHistoryIndependent == Spec => []HistoryIndependent
<1>1. Init => RetentionInv
  <2> SUFFICES ASSUME Init PROVE RetentionInv
    OBVIOUS
  <2>1. Promised({}) = {}
    BY DEF Promised, Group
  <2> QED  BY <2>1 DEF Init, RetentionInv, HistoryIndependent
<1>2. RetentionTypeOK /\ RetentionTypeOK' /\ RetentionInv /\ [Next]_vars => RetentionInv'
  <2> SUFFICES ASSUME RetentionTypeOK, RetentionTypeOK', RetentionInv, [Next]_vars
               PROVE  RetentionInv'
    OBVIOUS
  <2>a. PICK n \in Nat : n = Len(created)
    BY DaysOfJobs
  <2>b. PICK S \in SUBSET (1..n) : S = succeeded
    BY <2>a DEF RetentionTypeOK
  <2>c. PICK A \in SUBSET S : A = available
    BY <2>b DEF RetentionTypeOK
  <2>0. n = Len(created) /\ S = succeeded /\ A = available
    BY <2>a, <2>b, <2>c
  <2>1. LimitsOK /\ \A i \in 1..n : created[i] \in Nat
    BY <2>0, DaysOfJobs
  <2>2. Promised(S) \subseteq A /\ (applied = "complete" => A = Promised(S))
    BY <2>0 DEF RetentionInv, HistoryIndependent
  <2>3. ASSUME NEW d \in Days, CreateJob(d) PROVE RetentionInv'
    <3>1. \A i \in 1..n : created'[i] = created[i]
      BY <2>0, <2>3 DEF CreateJob, RetentionTypeOK
    <3>2. retention' = retention /\ \A i \in S : created'[i] = created[i]
      BY <2>3, <3>1 DEF CreateJob
    <3>3. Promised(S)' = Promised(S)
      BY <3>2, PromisedLater
    <3>4. /\ succeeded' = S /\ available' = A /\ applied' = applied
      BY <2>0, <2>3 DEF CreateJob
    <3>5. Promised(succeeded)' = Promised(S)'
      BY <3>4 DEF Promised, Group, LastOfPeriod
    <3> QED  BY <2>2, <3>3, <3>4, <3>5 DEF RetentionInv, HistoryIndependent
  <2>4. ASSUME NEW id \in 1..Len(created), Succeed(id) PROVE RetentionInv'
    <3>1. id \in 1..n /\ id \notin S
      BY <2>0, <2>4 DEF Succeed
    <3>2. PICK R : R = S \cup {id}
      OBVIOUS
    <3>3. Promised(R) \subseteq A \cup {id}
      BY <2>1, <2>2, <3>1, <3>2, PromisedOfOneMore
    <3>4. /\ succeeded' = R /\ available' = A \cup {id} /\ applied' = "due"
          /\ retention' = retention /\ created' = created
      BY <2>0, <2>4, <3>2 DEF Succeed
    <3>5. Promised(R)' = Promised(R)
      BY <3>4, PromisedLater
    <3>6. Promised(succeeded)' = Promised(R)
      BY <3>4, <3>5 DEF Promised, Group, LastOfPeriod
    <3> QED  BY <3>3, <3>4, <3>6 DEF RetentionInv, HistoryIndependent
  <2>5. ASSUME NEW removed \in SUBSET available, ApplyRetention(removed) PROVE RetentionInv'
    <3>1. Keep(A) = Promised(A)
      <4>1. A \in SUBSET (1..n) /\ \A i \in A : created[i] \in Nat
        BY <2>1
      <4> QED  BY <2>1, <4>1, KeepIsPromised
    <3>2. Promised(A) = Promised(S)
      BY <2>1, <2>2, PromisedOfTheRest
    <3>3. /\ removed \subseteq A \ Keep(A)
          /\ applied' = "complete" => removed = A \ Keep(A)
      BY <2>0, <2>5 DEF ApplyRetention, ExpiredBackupJobIds
    <3>4. /\ succeeded' = S /\ available' = A \ removed
          /\ retention' = retention /\ created' = created
      BY <2>0, <2>5 DEF ApplyRetention
    <3>5. Promised(S)' = Promised(S)
      BY <3>4, PromisedLater
    <3>6. Promised(succeeded)' = Promised(S)
      BY <3>4, <3>5 DEF Promised, Group, LastOfPeriod
    <3>7. Promised(S) \subseteq A \ removed
      BY <2>2, <3>1, <3>2, <3>3
    <3>8. applied' = "complete" => A \ removed = Promised(S)
      BY <2>2, <3>1, <3>2, <3>3
    <3> QED  BY <3>4, <3>6, <3>7, <3>8 DEF RetentionInv, HistoryIndependent
  <2>6. ASSUME UNCHANGED vars PROVE RetentionInv'
    <3>1. /\ succeeded' = S /\ available' = A /\ applied' = applied
          /\ retention' = retention /\ created' = created
      BY <2>0, <2>6 DEF vars
    <3>2. Promised(S)' = Promised(S)
      BY <3>1, PromisedLater
    <3>3. Promised(succeeded)' = Promised(S)
      BY <3>1, <3>2 DEF Promised, Group, LastOfPeriod
    <3> QED  BY <2>2, <3>1, <3>3 DEF RetentionInv, HistoryIndependent
  <2> QED  BY <2>3, <2>4, <2>5, <2>6 DEF Next
<1>3. RetentionInv => HistoryIndependent
  BY DEF RetentionInv
<1> QED  BY <1>1, <1>2, <1>3, RetentionTypeCorrect, PTL DEF Spec

=============================================================================

-------------------------- MODULE UserAccountProofs --------------------------
(***************************************************************************)
(* What Sessions, MicrosoftConnection and TodoSync promise for any number  *)
(* of tabs, requests, sessions, links, accounts, calls, notes, tasks, API  *)
(* instances and exports, and for any bound on the writes.                 *)
(***************************************************************************)
EXTENDS UserAccount, SequenceTheorems, TLAPS

-----------------------------------------------------------------------------
(* The table of sessions *)

\* A function on the first n numbers is a sequence of length n.
LEMMA SameLength ==
  ASSUME NEW S, NEW n \in Nat, NEW f \in [1..n -> S]
  PROVE  f \in Seq(S) /\ Len(f) = n
<1>1. f \in Seq(S)
  BY SeqDef
<1> QED  BY <1>1, LenProperties

RowState == {"live", "rotated", "revoked", "gone"}

\* An update of some rows changes their state and nothing else.
LEMMA MarkedRows ==
  ASSUME sessions \in Seq(Row), NEW numbers, NEW state \in RowState
  PROVE  /\ Marked(numbers, state) \in Seq(Row)
         /\ Len(Marked(numbers, state)) = Len(sessions)
         /\ \A t \in Ids :
              /\ Marked(numbers, state)[t].family = Family(t)
              /\ Marked(numbers, state)[t].state =
                   IF t \in numbers THEN state ELSE sessions[t].state
<1>1. sessions \in [1..Len(sessions) -> Row] /\ Len(sessions) \in Nat /\ Ids = 1..Len(sessions)
  BY DEF Ids
<1>2. Marked(numbers, state) \in [1..Len(sessions) -> Row]
  BY <1>1 DEF Marked, Row, RowState
<1>3. Marked(numbers, state) \in Seq(Row)
  BY <1>1, <1>2, SeqDef
<1>4. Len(Marked(numbers, state)) = Len(sessions)
  BY <1>1, <1>2, <1>3, LenProperties
<1>5. ASSUME NEW t \in Ids
      PROVE  /\ Marked(numbers, state)[t].family = Family(t)
             /\ Marked(numbers, state)[t].state =
                  IF t \in numbers THEN state ELSE sessions[t].state
  BY <1>1, <1>5 DEF Marked, Row, Family
<1> QED  BY <1>3, <1>4, <1>5

\* Where a call is in its handler says what kind of call it is and what its token names.
CallOK(c) ==
  /\ c.pc = "idle" => c = Idle
  /\ c.pc \in {"consume", "holding"} => c.kind = "refresh"
  /\ c.pc \in {"revoke", "revoking"} => c.kind \in {"refresh", "logout"}
  /\ c.pc \in {"claim", "claimed"} => c.kind = "link"
  /\ c.pc = "wiping" => c.kind \in {"password", "link"}
  /\ c.pc = "find" => c.kind # "link"
  /\ c.kind = "refresh" => c.token \in {0} \union Ids
  /\ c.kind \in {"refresh", "logout"} /\ c.pc \notin {"idle", "reply"} => c.token \in Ids
  /\ c.kind = "link" /\ c.pc # "reply" => c.token \in DOMAIN links
  /\ c.seen \subseteq Ids
  /\ c.quiet => c.pc \in {"revoking", "wiping"}
CallInv == \A q \in Requests : CallOK(server[q])

\* What the type of the table says of its rows.
LEMMA RowsType ==
  ASSUME SessionTypeOK
  PROVE  /\ sessions \in Seq(Row) /\ Len(sessions) \in Nat /\ Ids = 1..Len(sessions)
         /\ sessions \in [1..Len(sessions) -> Row] /\ Len(sessions) <= MaxSessions
         /\ MaxSessions \in Nat
BY SessionsAssumption, LenProperties DEF SessionTypeOK, Ids

\* A login adds a row that begins a family.
LEMMA LogInRows ==
  ASSUME SessionTypeOK, LogIn
  PROVE  /\ sessions' \in Seq(Row) /\ Len(sessions') <= MaxSessions
         /\ Ids' = 1..Len(sessions') /\ Ids' = Ids \union {Len(sessions) + 1}
         /\ \A n \in Ids' \ Ids : Family(n)' = n /\ Live(n)'
         /\ \A t \in Ids : Family(t)' = Family(t) /\ Live(t)' = Live(t)
<1> DEFINE row == [state |-> "live", family |-> Len(sessions) + 1]
<1>0. RowsType!2
  BY RowsType
<1>1. row \in Row /\ Len(sessions) + 1 <= MaxSessions
  BY <1>0 DEF LogIn, Row
<1>2. sessions' = Append(sessions, row)
  BY DEF LogIn
<1>3. /\ sessions' \in Seq(Row) /\ Len(sessions') = Len(sessions) + 1
      /\ \A t \in 1..Len(sessions) : sessions'[t] = sessions[t]
      /\ sessions'[Len(sessions) + 1] = row
  BY <1>0, <1>1, <1>2, AppendProperties
<1>4. Ids' = 1..Len(sessions') /\ Ids' = Ids \union {Len(sessions) + 1}
  BY <1>0, <1>3, LenProperties DEF Ids
<1>5. \A t \in Ids : Family(t)' = Family(t) /\ Live(t)' = Live(t)
  BY <1>0, <1>3 DEF Family, Live
<1>6. \A n \in Ids' \ Ids : Family(n)' = n /\ Live(n)'
  BY <1>3, <1>4 DEF Family, Live
<1>7. Len(sessions') <= MaxSessions
  BY <1>1, <1>3
<1> QED  BY <1>3, <1>4, <1>5, <1>6, <1>7

\* A rotation adds a row to the family of the one it uses up.
LEMMA RotateRows ==
  ASSUME SessionTypeOK, CallInv, NEW q \in Requests, Rotate(q)
  PROVE  /\ sessions' \in Seq(Row) /\ Len(sessions') <= MaxSessions
         /\ server[q].token \in Ids
         /\ Ids' = 1..Len(sessions') /\ Ids' = Ids \union {Len(sessions) + 1}
         /\ \A n \in Ids' \ Ids : Family(n)' = Family(server[q].token) /\ Live(n)'
         /\ \A t \in Ids : /\ Family(t)' = Family(t)
                           /\ Live(t)' = (Live(t) /\ t # server[q].token)
<1> DEFINE row == [state |-> "live", family |-> Family(server[q].token)]
           old == Marked({server[q].token}, "rotated")
<1>0. RowsType!2
  BY RowsType
<1>1. server[q].token \in Ids
  BY DEF CallInv, CallOK, Rotate, At
<1>2. row \in Row /\ Len(sessions) + 1 <= MaxSessions
  BY <1>0, <1>1 DEF Rotate, Row, Family
<1>3. sessions' = Append(old, row)
  BY DEF Rotate
<1>4. /\ old \in Seq(Row) /\ Len(old) = Len(sessions)
      /\ \A t \in Ids : /\ old[t].family = Family(t)
                        /\ old[t].state = IF t = server[q].token THEN "rotated"
                                         ELSE sessions[t].state
  BY <1>0, MarkedRows DEF RowState
<1> HIDE DEF old
<1>5. /\ sessions' \in Seq(Row) /\ Len(sessions') = Len(sessions) + 1
      /\ \A t \in 1..Len(sessions) : sessions'[t] = old[t]
      /\ sessions'[Len(sessions) + 1] = row
  BY <1>0, <1>2, <1>3, <1>4, AppendProperties
<1>6. Ids' = 1..Len(sessions') /\ Ids' = Ids \union {Len(sessions) + 1}
  BY <1>0, <1>5, LenProperties DEF Ids
<1>7. \A t \in Ids : /\ Family(t)' = Family(t)
                     /\ Live(t)' = (Live(t) /\ t # server[q].token)
  BY <1>0, <1>4, <1>5 DEF Family, Live
<1>8. \A n \in Ids' \ Ids : Family(n)' = Family(server[q].token) /\ Live(n)'
  BY <1>5, <1>6 DEF Family, Live
<1>9. Len(sessions') <= MaxSessions
  BY <1>2, <1>5
<1> QED  BY <1>1, <1>5, <1>6, <1>7, <1>8, <1>9

\* A statement that ends takes the rows it has seen out of use.
LEMMA EndRows ==
  ASSUME SessionTypeOK, NEW q \in Requests, EndRevoke(q) \/ EndWipe(q)
  PROVE  /\ sessions' \in Seq(Row) /\ Len(sessions') <= MaxSessions
         /\ Ids' = 1..Len(sessions') /\ Ids' = Ids
         /\ \A t \in Ids : /\ Family(t)' = Family(t)
                           /\ Live(t)' = (Live(t) /\ t \notin server[q].seen)
<1> DEFINE marks == IF EndRevoke(q) THEN {t \in server[q].seen : Live(t)} ELSE server[q].seen
           state == IF EndRevoke(q) THEN "revoked" ELSE "gone"
<1>0. RowsType!2
  BY RowsType
<1>1. state \in RowState /\ state # "live"
  BY DEF RowState
<1>2. sessions' = Marked(marks, state)
  BY DEF EndRevoke, EndWipe
<1>3. \A t \in Ids : Live(t) => (t \in marks <=> t \in server[q].seen)
  OBVIOUS
<1> HIDE DEF marks, state
<1>4. /\ sessions' \in Seq(Row) /\ Len(sessions') = Len(sessions)
      /\ \A t \in Ids : /\ sessions'[t].family = Family(t)
                        /\ sessions'[t].state = IF t \in marks THEN state
                                               ELSE sessions[t].state
  BY <1>0, <1>1, <1>2, MarkedRows
<1>5. Ids' = 1..Len(sessions')
  BY <1>4, LenProperties DEF Ids
<1> QED  BY <1>0, <1>1, <1>3, <1>4, <1>5 DEF Family, Live

\* The other steps leave the table and what has been ended alone.
LEMMA OtherRows ==
  ASSUME SessionNext
  PROVE  \/ LogIn \/ UNCHANGED <<sessions, ended>>
         \/ \E q \in Requests : Rotate(q) \/ EndRevoke(q) \/ EndWipe(q)
BY ZenonT(40) DEF SessionNext, IssueLink, MailFails, StartRefresh, StartLogout, StartChangePassword,
       StartReset, StartAdminReset, Answer, AnswerLost, Unheard, FindSession, RejectRefresh,
       ConsumeToken, FindForLogout, BeginRevoke, ClaimLink, BeginWipe, RollBack

\* No step removes a row, changes its family or makes it live again.
LEMMA RowsStep ==
  ASSUME SessionTypeOK, CallInv, SessionNext
  PROVE  /\ sessions' \in Seq(Row) /\ Len(sessions') <= MaxSessions
         /\ Ids' = 1..Len(sessions') /\ Ids \subseteq Ids'
         /\ \A t \in Ids : Family(t)' = Family(t) /\ (Live(t)' => Live(t))
<1>1. CASE LogIn
  BY <1>1, LogInRows
<1>2. CASE \E q \in Requests : Rotate(q)
  BY <1>2, RotateRows
<1>3. CASE \E q \in Requests : EndRevoke(q) \/ EndWipe(q)
  BY <1>3, EndRows
<1>4. CASE UNCHANGED sessions
  BY <1>4, RowsType DEF Ids, Family, Live
<1> QED  BY <1>1, <1>2, <1>3, <1>4, OtherRows

-----------------------------------------------------------------------------
(* The inductive invariant *)

\* A family is named after its first row, and a rotation holds a live row alone.
TableInv ==
  /\ \A t \in Ids : Family(t) <= t
  /\ AtMostOneLive
  /\ \A q \in Requests : server[q].pc = "holding" =>
       /\ Live(server[q].token)
       /\ \A p \in Requests :
            server[p].pc = "holding" /\ server[p].token = server[q].token => p = q

\* The families that a statement in progress is about to end.
Target(q) ==
  IF server[q].pc = "revoking" THEN {Family(server[q].token)}
  ELSE {Family(t) : t \in server[q].seen}

\* As long as no rotation came in between, a statement has seen every live row of the
\* families it ends; a family that has been ended has no live row.
EndInv ==
  /\ \A q \in Requests : server[q].quiet =>
       /\ \A t \in Ids : Live(t) /\ Family(t) \in Target(q) => t \in server[q].seen
       /\ Quiet(server[q].seen)
  /\ ended \subseteq Ids
  /\ EndedStaysEnded

\* A link that a transaction has claimed stays open until that transaction ends.
LinkInv ==
  /\ \A i \in DOMAIN links : links[i].outdated => links[i].state = "used"
  /\ \A q \in Requests, i \in DOMAIN links : Claiming(q, i) => links[i].state = "open"

Refreshes(c) == c.kind = "refresh" /\ c.pc # "idle"

\* A calm refresh uses the token in the store, or has answered with its replacement, and
\* a tab waits for it; the other calls have not yet touched the sessions.
CalmCall(c) ==
  /\ c.kind # "logout"
  /\ c.kind = "password" => c.pc = "find"
  /\ c.kind = "link" => c.pc \in {"claim", "claimed", "reply"}
  /\ c.kind # "refresh" => c.by = NoTab
  /\ Refreshes(c) =>
       /\ c.by # NoTab
       /\ Len(sessions) > 0 /\ store # 0
       /\ \/ c.pc \in {"find", "consume", "holding"} /\ c.token = store /\ Live(store)
          \/ c.pc = "reply" /\ c.token # 0 /\ Live(c.token)

\* There is at most one refresh, and without one the token in the store is live.
CalmState ==
  /\ \A q \in Requests : CalmCall(server[q])
  /\ \A p, q \in Requests : Refreshes(server[p]) /\ Refreshes(server[q]) => p = q
  /\ (\A q \in Requests : ~Refreshes(server[q])) /\ Len(sessions) > 0 =>
       store # 0 /\ Live(store)
  /\ Len(sessions) = 0 => store = 0

CalmInv == calm => CalmState

SessionInv == SessionTypeOK /\ CallInv /\ TableInv /\ EndInv /\ LinkInv /\ CalmInv

-----------------------------------------------------------------------------
(* Type correctness of the calls *)

\* A step that gives one call a new state keeps the others what they are.
LEMMA OneCall ==
  ASSUME server \in [Requests -> Call], CallInv,
         Ids \subseteq Ids', DOMAIN links \subseteq DOMAIN links',
         NEW q \in Requests, NEW c \in Call,
         server' = [server EXCEPT ![q] = c], CallOK(c)'
  PROVE  server' \in [Requests -> Call] /\ CallInv'
<1>1. server' \in [Requests -> Call]
  OBVIOUS
<1>2. ASSUME NEW p \in Requests PROVE CallOK(server[p])'
  <2>1. CASE p = q
    <3>1. server'[p] = c
      BY <2>1
    <3> QED  BY <3>1 DEF CallOK
  <2>2. CASE p # q
    <3>1. server'[p] = server[p] /\ CallOK(server[p])
      BY <2>2 DEF CallInv
    <3> QED  BY <3>1 DEF CallOK
  <2> QED  BY <2>1, <2>2
<1> QED  BY <1>1, <1>2 DEF CallInv

Outdated == \A i \in DOMAIN links : links[i].outdated => links[i].state = "used"

\* No link disappears, and nothing but a password change or a link that nobody has
\* claimed is behind a link that stops being open.
LEMMA LinksStep ==
  ASSUME SessionTypeOK, SessionNext
  PROVE  /\ links' \in Seq(Link) /\ Len(links') <= MaxLinks
         /\ DOMAIN links \subseteq Nat /\ DOMAIN links \subseteq DOMAIN links'
         /\ Outdated => Outdated'
         /\ \A i \in DOMAIN links' \ DOMAIN links : links'[i].state = "open"
         /\ \A i \in DOMAIN links : links[i].state = "open" /\ links'[i].state # "open" =>
              \A p \in Requests : Claiming(p, i) => EndWipe(p)
<1>n. Len(links) \in Nat
  BY LenProperties DEF SessionTypeOK
<1>0. links \in [1..Len(links) -> Link]
  BY LenProperties DEF SessionTypeOK
<1>d. DOMAIN links = 1..Len(links)
  BY LenProperties DEF SessionTypeOK
<1>m. Len(links) <= MaxLinks /\ MaxLinks \in Nat
  BY SessionsAssumption DEF SessionTypeOK
<1>1. CASE IssueLink
  <2> DEFINE old(missed) == [i \in DOMAIN links |->
                               IF i = missed THEN links[i] ELSE [links[i] EXCEPT !.state = "used"]]
             new == [state |-> "open", outdated |-> FALSE]
  <2>0. PICK missed \in {0, Len(links)} : links' = Append(old(missed), new)
    BY <1>1 DEF IssueLink
  <2> DEFINE kept == old(missed)
  <2>1. kept \in [1..Len(links) -> Link] /\ new \in Link
    BY <1>0, <1>d DEF Link
  <2>2. \A i \in 1..Len(links) : kept[i].outdated =>
          links[i].outdated /\ kept[i].state \in {"used", links[i].state}
    BY <1>0, <1>d DEF Link
  <2>3. links' = Append(kept, new) /\ new.outdated = FALSE /\ new.state = "open"
    BY <2>0
  <2> HIDE DEF kept, new
  <2>4. kept \in Seq(Link)
    BY <1>n, <2>1, SameLength
  <2>5. Len(kept) = Len(links)
    BY <1>n, <2>1, SameLength
  <2>6. /\ links' \in Seq(Link) /\ Len(links') = Len(kept) + 1
        /\ \A i \in 1..Len(kept) : links'[i] = kept[i]
        /\ links'[Len(kept) + 1] = new
    BY <2>1, <2>3, <2>4, AppendProperties
  <2>7. DOMAIN links' = 1..Len(links')
    BY <2>6, LenProperties
  <2>8. Outdated => Outdated'
    <3> SUFFICES ASSUME Outdated, NEW i \in 1..Len(links'), links'[i].outdated
                 PROVE  links'[i].state = "used"
      BY <2>7 DEF Outdated
    <3>1. CASE i \in 1..Len(links)
      <4>1. kept[i].outdated /\ links'[i] = kept[i]
        BY <2>5, <2>6, <3>1
      <4>2. links[i].state = "used"
        BY <1>d, <2>2, <3>1, <4>1 DEF Outdated
      <4> QED  BY <2>2, <3>1, <4>1, <4>2
    <3>2. CASE i = Len(links) + 1
      BY <2>3, <2>5, <2>6, <3>2
    <3> QED  BY <1>n, <2>5, <2>6, <3>1, <3>2
  <2>9. Len(links) < MaxLinks /\ \A p \in Requests, i \in DOMAIN links : ~Claiming(p, i)
    BY <1>1 DEF IssueLink
  <2>10. Len(links') <= MaxLinks
    BY <1>n, <1>m, <2>5, <2>6, <2>9
  <2>11. \A i \in DOMAIN links' \ DOMAIN links : links'[i].state = "open"
    <3>1. links'[Len(links) + 1].state = "open"
      BY <2>3, <2>5, <2>6
    <3>2. DOMAIN links' = 1..(Len(links) + 1)
      BY <2>5, <2>6, <2>7
    <3>3. \A i \in 1..(Len(links) + 1) : i \in 1..Len(links) \/ i = Len(links) + 1
      BY <1>n
    <3> QED  BY <1>d, <3>1, <3>2, <3>3
  <2>12. DOMAIN links \subseteq Nat /\ DOMAIN links \subseteq DOMAIN links'
    <3>1. DOMAIN links' = 1..(Len(links) + 1)
      BY <2>5, <2>6, <2>7
    <3>2. 1..Len(links) \subseteq Nat /\ 1..Len(links) \subseteq 1..(Len(links) + 1)
      BY <1>n
    <3> QED  BY <1>d, <3>1, <3>2
  <2> QED  BY <2>6, <2>8, <2>9, <2>10, <2>11, <2>12
<1>2. ASSUME NEW j \in DOMAIN links, MailFails(j)
      PROVE  /\ links' \in [1..Len(links) -> Link]
             /\ Outdated => Outdated'
             /\ \A i \in DOMAIN links : i # j => links'[i] = links[i]
             /\ \A p \in Requests : ~Claiming(p, j)
  BY <1>0, <1>d, <1>2 DEF MailFails, Outdated, Link
<1>3. ASSUME NEW q \in Requests, EndWipe(q)
      PROVE  /\ links' \in [1..Len(links) -> Link]
             /\ Outdated'
             /\ \A p \in Requests, i \in DOMAIN links : Claiming(p, i) => p = q
  BY <1>0, <1>d, <1>3 DEF EndWipe, Outdated, Link
<1>4. ASSUME links' \in [1..Len(links) -> Link]
      PROVE  links' \in Seq(Link) /\ Len(links') = Len(links) /\ DOMAIN links' = DOMAIN links
  BY <1>n, <1>d, <1>4, SameLength
<1>5. CASE \E j \in DOMAIN links : MailFails(j)
  <2> PICK j \in DOMAIN links : MailFails(j)
    BY <1>5
  <2> QED  BY <1>n, <1>m, <1>d, <1>2, <1>4
<1>6. CASE \E q \in Requests : EndWipe(q)
  <2> PICK q \in Requests : EndWipe(q)
    BY <1>6
  <2> QED  BY <1>n, <1>m, <1>d, <1>3, <1>4
<1>7. CASE UNCHANGED links
  BY <1>n, <1>m, <1>d, <1>7 DEF Outdated, SessionTypeOK
<1>8. \/ IssueLink \/ UNCHANGED links \/ \E j \in DOMAIN links : MailFails(j)
      \/ \E q \in Requests : EndWipe(q)
  BY ZenonT(40) DEF SessionNext, LogIn, StartRefresh, StartLogout, StartChangePassword,
         StartReset, StartAdminReset, Answer, AnswerLost, Unheard, FindSession, RejectRefresh,
         ConsumeToken, Rotate, FindForLogout, BeginRevoke, EndRevoke, ClaimLink, BeginWipe, RollBack
<1> QED  BY <1>1, <1>5, <1>6, <1>7, <1>8

\* The calls keep their types, whatever a step does.
LEMMA CallsStep ==
  ASSUME SessionTypeOK, CallInv, SessionNext
  PROVE  server' \in [Requests -> Call] /\ CallInv'
<1> USE DEF SessionTypeOK
<1>0. /\ Ids \subseteq Ids' /\ Ids \subseteq Nat /\ Ids \subseteq 1..MaxSessions
      /\ store \in {0} \union Ids
      /\ Idle \in Call
  <2>1. /\ Ids \subseteq Ids' /\ Ids = 1..Len(sessions) /\ Len(sessions) \in Nat
        /\ Len(sessions) <= MaxSessions /\ MaxSessions \in Nat
    BY RowsStep, RowsType
  <2>2. Ids \subseteq Nat /\ Ids \subseteq 1..MaxSessions
    BY <2>1
  <2>3. Idle \in Call
    BY DEF Idle, Call
  <2> QED  BY <2>1, <2>2, <2>3 DEF Ids
<1>i. Ids' \subseteq Nat
  <2>1. Ids' = 1..Len(sessions') /\ Len(sessions') \in Nat
    BY RowsStep, LenProperties
  <2> QED  BY <2>1
<1>l. DOMAIN links \subseteq DOMAIN links' /\ DOMAIN links \subseteq Nat
  BY LinksStep
<1>1. ASSUME NEW q \in Requests, NEW c \in Call,
             server' = [server EXCEPT ![q] = c], CallOK(c)'
      PROVE  server' \in [Requests -> Call] /\ CallInv'
  BY <1>0, <1>l, <1>1, OneCall
<1>2. ASSUME NEW q \in Requests, NEW tab \in Tabs,
             NEW kind \in {"refresh", "logout", "password"}, Ask(q, tab, kind), store # 0
      PROVE  server' \in [Requests -> Call] /\ CallInv'
  <2>1. PICK c : c = [Idle EXCEPT !.pc = "find", !.kind = kind, !.by = tab, !.token = store]
    OBVIOUS
  <2>2. c \in Call /\ server' = [server EXCEPT ![q] = c]
    BY <1>0, <1>2, <2>1 DEF Ask, Idle, Call
  <2>3. CallOK(c)'
    BY <1>0, <1>2, <2>1 DEF CallOK, Idle
  <2> QED  BY <1>1, <2>2, <2>3
<1>3. ASSUME NEW q \in Requests, NEW pc, Goto(q, pc),
             \/ pc \in {"consume", "revoke"} /\ At(q, {"refresh"}, "find")
             \/ pc = "revoke" /\ At(q, {"refresh"}, "consume")
             \/ pc = "revoke" /\ At(q, {"logout"}, "find")
             \/ pc = "claimed" /\ At(q, {"link"}, "claim")
      PROVE  server' \in [Requests -> Call] /\ CallInv'
  <2>1. PICK c : c = [server[q] EXCEPT !.pc = pc]
    OBVIOUS
  <2>2. c \in Call /\ server' = [server EXCEPT ![q] = c]
    BY <1>3, <2>1 DEF Goto, Call
  <2>3. CallOK(server[q]) /\ server[q] \in Call
    BY DEF CallInv
  <2>4. CallOK(c)'
    BY <1>0, <1>l, <1>3, <2>1, <2>3 DEF CallOK, At, Call
  <2> QED  BY <1>1, <2>2, <2>4
<1>4. ASSUME NEW q \in Requests, NEW t \in {0} \union Ids', Reply(q, t),
             At(q, {"refresh", "logout"}, "find") \/ At(q, {"refresh"}, "consume")
               \/ At(q, {"link"}, "claim") \/ At(q, {"refresh"}, "holding")
      PROVE  server' \in [Requests -> Call] /\ CallInv'
  <2>1. PICK c : c = [server[q] EXCEPT !.pc = "reply", !.token = t]
    OBVIOUS
  <2>0. t \in Nat /\ server[q] \in Call
    BY <1>i
  <2>2. c \in Call /\ server' = [server EXCEPT ![q] = c]
    BY <1>4, <2>0, <2>1 DEF Reply, Call
  <2>3. CallOK(server[q]) /\ server[q] \in Call
    BY DEF CallInv
  <2>4. CallOK(c)'
    BY <1>0, <1>4, <2>1, <2>3 DEF CallOK, At, Call
  <2> QED  BY <1>1, <2>2, <2>4
<1>5. ASSUME NEW q \in Requests, StartAdminReset(q)
      PROVE  server' \in [Requests -> Call] /\ CallInv'
  <2>1. PICK c : c = [Idle EXCEPT !.pc = "find", !.kind = "password"]
    OBVIOUS
  <2>2. c \in Call /\ server' = [server EXCEPT ![q] = c]
    BY <1>5, <2>1 DEF StartAdminReset, Idle, Call
  <2>3. CallOK(c)'
    BY <2>1 DEF CallOK, Idle
  <2> QED  BY <1>1, <2>2, <2>3
<1>6. ASSUME NEW q \in Requests, NEW i \in DOMAIN links, StartReset(q, i)
      PROVE  server' \in [Requests -> Call] /\ CallInv'
  <2>1. PICK c : c = [Idle EXCEPT !.pc = "claim", !.kind = "link", !.token = i]
    OBVIOUS
  <2>2. c \in Call /\ server' = [server EXCEPT ![q] = c]
    BY <1>l, <1>6, <2>1 DEF StartReset, Idle, Call
  <2>3. CallOK(c)'
    BY <1>l, <2>1 DEF CallOK, Idle
  <2> QED  BY <1>1, <2>2, <2>3
<1>7. ASSUME NEW q \in Requests, Answer(q) \/ Unheard(q)
      PROVE  server' \in [Requests -> Call] /\ CallInv'
  <2>1. server' = [server EXCEPT ![q] = Idle]
    BY <1>7 DEF Answer, Unheard
  <2>2. PICK c : c = Idle
    OBVIOUS
  <2>3. CallOK(c)'
    BY <2>2 DEF CallOK, Idle
  <2> QED  BY <1>0, <1>1, <2>1, <2>2, <2>3
<1>8. ASSUME NEW q \in Requests, AnswerLost(q)
      PROVE  server' \in [Requests -> Call] /\ CallInv'
  <2>1. PICK c : c = [server[q] EXCEPT !.by = NoTab]
    OBVIOUS
  <2>2. c \in Call /\ server' = [server EXCEPT ![q] = c]
    BY <1>8, <2>1 DEF AnswerLost, Call
  <2>3. CallOK(server[q]) /\ server[q] \in Call
    BY DEF CallInv
  <2>4. CallOK(c)'
    BY <1>0, <1>l, <1>8, <2>1, <2>3 DEF CallOK, AnswerLost, Call
  <2> QED  BY <1>1, <2>2, <2>4
<1>9. ASSUME NEW q \in Requests, NEW pc \in {"revoking", "wiping"}, NEW rows \in SUBSET Ids,
             server' = [server EXCEPT ![q].pc = pc, ![q].seen = rows, ![q].quiet = Quiet(rows)],
             \/ pc = "revoking" /\ At(q, {"refresh", "logout"}, "revoke")
             \/ pc = "wiping" /\ (At(q, {"password"}, "find") \/ At(q, {"link"}, "claimed"))
      PROVE  server' \in [Requests -> Call] /\ CallInv'
  <2>1. PICK c : c = [server[q] EXCEPT !.pc = pc, !.seen = rows, !.quiet = Quiet(rows)]
    OBVIOUS
  <2>0. Quiet(rows) \in BOOLEAN
    BY DEF Quiet
  <2>2. c \in Call /\ server' = [server EXCEPT ![q] = c]
    BY <1>0, <1>9, <2>0, <2>1 DEF Call
  <2>3. CallOK(server[q]) /\ server[q] \in Call
    BY DEF CallInv
  <2>4. CallOK(c)'
    BY <1>0, <1>l, <1>9, <2>1, <2>3 DEF CallOK, At, Call
  <2> QED  BY <1>1, <2>2, <2>4
<1>10. ASSUME NEW q \in Requests,
              server' = [server EXCEPT ![q].pc = "reply", ![q].token = 0, ![q].seen = {},
                                       ![q].quiet = FALSE]
       PROVE  server' \in [Requests -> Call] /\ CallInv'
  <2>1. PICK c : c = [server[q] EXCEPT !.pc = "reply", !.token = 0, !.seen = {}, !.quiet = FALSE]
    OBVIOUS
  <2>2. c \in Call /\ server' = [server EXCEPT ![q] = c]
    BY <1>10, <2>1 DEF Call
  <2>3. server[q] \in Call
    OBVIOUS
  <2>4. CallOK(c)'
    BY <2>1, <2>3 DEF CallOK, Call
  <2> QED  BY <1>1, <2>2, <2>4
<1>11. ASSUME NEW q \in Requests, Hold(q), At(q, {"refresh"}, "consume")
       PROVE  server' \in [Requests -> Call] /\ CallInv'
  <2>1. ASSUME NEW p \in Requests
        PROVE  server'[p] \in Call /\ CallOK(server[p])'
    <3>0. CallOK(server[p]) /\ server[p] \in Call
      BY DEF CallInv
    <3>1. CASE p = q
      <4>1. server'[p] = [server[p] EXCEPT !.pc = "holding"]
        BY <1>11, <3>1 DEF Hold
      <4> QED  BY <1>0, <1>l, <1>11, <3>0, <3>1, <4>1 DEF CallOK, Call, At
    <3>2. CASE p # q
      <4>1. server'[p] = [server[p] EXCEPT !.quiet = @ /\ server[q].token \notin server[p].seen]
        BY <1>11, <3>2 DEF Hold
      <4>2. (server[p].quiet /\ server[q].token \notin server[p].seen) \in BOOLEAN
        OBVIOUS
      <4>3. server'[p] \in Call
        BY <3>0, <4>1, <4>2 DEF Call
      <4>4. server[p].pc = "idle" => server'[p] = server[p]
        BY <3>0, <4>1 DEF CallOK, Idle, Call
      <4>5. /\ server'[p].pc = server[p].pc /\ server'[p].kind = server[p].kind
            /\ server'[p].token = server[p].token /\ server'[p].seen = server[p].seen
            /\ server'[p].quiet => server[p].quiet
        BY <3>0, <4>1 DEF Call
      <4>6. CallOK(server[p])'
        BY <1>0, <1>l, <3>0, <4>4, <4>5 DEF CallOK
      <4> QED  BY <4>3, <4>6
    <3> QED  BY <3>1, <3>2
  <2>2. server' \in [Requests -> Call]
    BY <1>11, <2>1 DEF Hold
  <2> QED  BY <2>1, <2>2 DEF CallInv
<1>12. CASE LogIn \/ IssueLink \/ \E i \in DOMAIN links : MailFails(i)
  <2>1. UNCHANGED server
    BY <1>12 DEF LogIn, IssueLink, MailFails
  <2>2. \A q \in Requests : CallOK(server[q])'
    BY <1>0, <1>l, <2>1 DEF CallInv, CallOK
  <2> QED  BY <2>1, <2>2 DEF CallInv
<1>13. ASSUME NEW q \in Requests, NEW tab \in Tabs,
              StartRefresh(q, tab) \/ StartLogout(q, tab) \/ StartChangePassword(q, tab)
       PROVE  server' \in [Requests -> Call] /\ CallInv'
  BY <1>2, <1>13 DEF StartRefresh, StartLogout, StartChangePassword
<1>14. ASSUME NEW q \in Requests, FindSession(q) \/ RejectRefresh(q) \/ FindForLogout(q)
       PROVE  server' \in [Requests -> Call] /\ CallInv'
  <2>1. At(q, {"refresh", "logout"}, "find")
    BY <1>14 DEF FindSession, RejectRefresh, FindForLogout, At
  <2>2. CASE Reply(q, 0)
    BY <1>4, <2>1, <2>2
  <2>3. CASE FindSession(q) /\ (Goto(q, "consume") \/ Goto(q, "revoke"))
    BY <1>3, <2>3 DEF FindSession
  <2>4. CASE FindForLogout(q) /\ Goto(q, "revoke")
    BY <1>3, <2>4 DEF FindForLogout
  <2> QED  BY <1>14, <2>2, <2>3, <2>4 DEF FindSession, RejectRefresh, FindForLogout
<1>15. ASSUME NEW q \in Requests, ConsumeToken(q)
       PROVE  server' \in [Requests -> Call] /\ CallInv'
  <2>1. At(q, {"refresh"}, "consume")
    BY <1>15 DEF ConsumeToken
  <2>2. Hold(q) \/ Goto(q, "revoke") \/ Reply(q, 0)
    BY <1>15 DEF ConsumeToken
  <2> QED  BY <1>3, <1>4, <1>11, <2>1, <2>2
<1>16. ASSUME NEW q \in Requests, Rotate(q)
       PROVE  server' \in [Requests -> Call] /\ CallInv'
  <2>1. Ids' = Ids \union {Len(sessions) + 1}
    BY <1>16, RotateRows
  <2>2. At(q, {"refresh"}, "holding") /\ Reply(q, Len(sessions) + 1)
    BY <1>16 DEF Rotate
  <2> QED  BY <1>4, <2>1, <2>2
<1>17. ASSUME NEW q \in Requests, BeginRevoke(q)
       PROVE  server' \in [Requests -> Call] /\ CallInv'
  <2> DEFINE rows == {t \in FamilyOf(Family(server[q].token)) : Live(t)}
  <2>1. /\ At(q, {"refresh", "logout"}, "revoke")
        /\ server' = [server EXCEPT ![q].pc = "revoking", ![q].seen = rows, ![q].quiet = Quiet(rows)]
    BY <1>17 DEF BeginRevoke
  <2>2. rows \in SUBSET Ids
    BY DEF FamilyOf
  <2> HIDE DEF rows
  <2> QED  BY <1>9, <2>1, <2>2
<1>18. ASSUME NEW q \in Requests, BeginWipe(q)
       PROVE  server' \in [Requests -> Call] /\ CallInv'
  <2> DEFINE rows == {t \in Ids : sessions[t].state # "gone"}
  <2>1. /\ At(q, {"password"}, "find") \/ At(q, {"link"}, "claimed")
        /\ server' = [server EXCEPT ![q].pc = "wiping", ![q].seen = rows, ![q].quiet = Quiet(rows)]
    BY <1>18 DEF BeginWipe
  <2>2. rows \in SUBSET Ids
    OBVIOUS
  <2> HIDE DEF rows
  <2> QED  BY <1>9, <2>1, <2>2
<1>19. ASSUME NEW q \in Requests, EndRevoke(q) \/ EndWipe(q) \/ RollBack(q)
       PROVE  server' \in [Requests -> Call] /\ CallInv'
  BY <1>10, <1>19 DEF EndRevoke, EndWipe, RollBack
<1>20. ASSUME NEW q \in Requests, ClaimLink(q)
       PROVE  server' \in [Requests -> Call] /\ CallInv'
  <2>1. At(q, {"link"}, "claim")
    BY <1>20 DEF ClaimLink
  <2>2. Goto(q, "claimed") \/ Reply(q, 0)
    BY <1>20 DEF ClaimLink
  <2> QED  BY <1>3, <1>4, <2>1, <2>2
<1> QED  BY <1>5, <1>6, <1>7, <1>8, <1>12, <1>13, <1>14, <1>15, <1>16, <1>17, <1>18, <1>19, <1>20
         DEF SessionNext

\* A call goes on where it was.
Stays(p) ==
  /\ server'[p].pc = server[p].pc /\ server'[p].kind = server[p].kind
  /\ server'[p].token = server[p].token /\ server'[p].seen = server[p].seen
  /\ server'[p].quiet => server[p].quiet

\* A call has a row, a link or rows in its hands because it had them before the step
\* or because it takes them with the step.
LEMMA CallMoves ==
  ASSUME SessionTypeOK, CallInv, SessionNext, NEW p \in Requests
  PROVE  \/ Stays(p)
         \/ ConsumeToken(p) /\ Hold(p)
         \/ ClaimLink(p) \/ BeginRevoke(p) \/ BeginWipe(p)
         \/ server'[p].pc \notin {"holding", "claimed", "revoking", "wiping"}
<1>0. server \in [Requests -> Call] /\ Idle.pc = "idle"
  BY DEF SessionTypeOK, Idle
<1>1. CASE UNCHANGED server
  BY <1>1 DEF Stays
<1>2. ASSUME NEW q \in Requests, NEW c, server' = [server EXCEPT ![q] = c],
             c.pc \notin {"holding", "claimed", "revoking", "wiping"}
      PROVE  Stays(p) \/ server'[p].pc \notin {"holding", "claimed", "revoking", "wiping"}
  BY <1>0, <1>2 DEF Stays
<1>3. ASSUME NEW q \in Requests, NEW tab, NEW kind, Ask(q, tab, kind)
      PROVE  Stays(p) \/ server'[p].pc \notin {"holding", "claimed", "revoking", "wiping"}
  BY <1>2, <1>3 DEF Ask, Idle
<1>4. ASSUME NEW q \in Requests, StartAdminReset(q)
      PROVE  Stays(p) \/ server'[p].pc \notin {"holding", "claimed", "revoking", "wiping"}
  BY <1>2, <1>4 DEF StartAdminReset, Idle
<1>5. ASSUME NEW q \in Requests, NEW i, StartReset(q, i)
      PROVE  Stays(p) \/ server'[p].pc \notin {"holding", "claimed", "revoking", "wiping"}
  BY <1>2, <1>5 DEF StartReset, Idle
<1>6. ASSUME NEW q \in Requests, Answer(q) \/ Unheard(q)
      PROVE  Stays(p) \/ server'[p].pc \notin {"holding", "claimed", "revoking", "wiping"}
  BY <1>0, <1>2, <1>6 DEF Answer, Unheard
<1>7. ASSUME NEW q \in Requests, NEW t, Reply(q, t)
      PROVE  Stays(p) \/ server'[p].pc \notin {"holding", "claimed", "revoking", "wiping"}
  BY <1>0, <1>7 DEF Reply, Stays, Call
<1>8. ASSUME NEW q \in Requests, NEW pc, Goto(q, pc)
      PROVE  IF p = q THEN server'[p].pc = pc ELSE Stays(p)
  BY <1>0, <1>8 DEF Goto, Stays, Call
<1>9. ASSUME NEW q \in Requests,
             server' = [server EXCEPT ![q].pc = "reply", ![q].token = 0, ![q].seen = {},
                                      ![q].quiet = FALSE]
      PROVE  Stays(p) \/ server'[p].pc \notin {"holding", "claimed", "revoking", "wiping"}
  BY <1>0, <1>9 DEF Stays, Call
<1>10. ASSUME NEW q \in Requests, AnswerLost(q)
       PROVE  Stays(p)
  BY <1>0, <1>10 DEF AnswerLost, Stays, Call
<1>11. ASSUME NEW q \in Requests, Hold(q), p # q
       PROVE  Stays(p)
  BY <1>0, <1>11 DEF Hold, Stays, Call
<1>12. ASSUME NEW q \in Requests, NEW pc, NEW rows, NEW quiet, p # q,
              server' = [server EXCEPT ![q].pc = pc, ![q].seen = rows, ![q].quiet = quiet]
       PROVE  Stays(p)
  BY <1>0, <1>12 DEF Stays
<1>13. CASE LogIn \/ IssueLink \/ \E i \in DOMAIN links : MailFails(i)
  BY <1>1, <1>13 DEF LogIn, IssueLink, MailFails
<1>14. ASSUME NEW q \in Requests, NEW tab \in Tabs,
              StartRefresh(q, tab) \/ StartLogout(q, tab) \/ StartChangePassword(q, tab)
       PROVE  Stays(p) \/ server'[p].pc \notin {"holding", "claimed", "revoking", "wiping"}
  BY <1>3, <1>14 DEF StartRefresh, StartLogout, StartChangePassword
<1>15. ASSUME NEW q \in Requests,
              FindSession(q) \/ RejectRefresh(q) \/ FindForLogout(q) \/ Rotate(q)
       PROVE  Stays(p) \/ server'[p].pc \notin {"holding", "claimed", "revoking", "wiping"}
  <2>1. Goto(q, "consume") \/ Goto(q, "revoke") \/ \E t : Reply(q, t)
    BY <1>15 DEF FindSession, RejectRefresh, FindForLogout, Rotate
  <2> QED  BY <1>7, <1>8, <2>1
<1>16. ASSUME NEW q \in Requests, ConsumeToken(q)
       PROVE  \/ Stays(p)
              \/ ConsumeToken(p) /\ Hold(p)
              \/ server'[p].pc \notin {"holding", "claimed", "revoking", "wiping"}
  <2>1. Hold(q) \/ Goto(q, "revoke") \/ Reply(q, 0)
    BY <1>16 DEF ConsumeToken
  <2> QED  BY <1>7, <1>8, <1>11, <1>16, <2>1
<1>17. ASSUME NEW q \in Requests, ClaimLink(q)
       PROVE  Stays(p) \/ ClaimLink(p)
                \/ server'[p].pc \notin {"holding", "claimed", "revoking", "wiping"}
  <2>1. Goto(q, "claimed") \/ Reply(q, 0)
    BY <1>17 DEF ClaimLink
  <2>2. CASE p = q
    BY <1>17, <2>2
  <2>3. CASE p # q
    BY <1>7, <1>8, <2>1, <2>3
  <2> QED  BY <2>2, <2>3
<1>18. ASSUME NEW q \in Requests, BeginRevoke(q) \/ BeginWipe(q)
       PROVE  Stays(p) \/ BeginRevoke(p) \/ BeginWipe(p)
  BY <1>12, <1>18 DEF BeginRevoke, BeginWipe
<1>19. ASSUME NEW q \in Requests, EndRevoke(q) \/ EndWipe(q) \/ RollBack(q)
       PROVE  Stays(p) \/ server'[p].pc \notin {"holding", "claimed", "revoking", "wiping"}
  BY <1>9, <1>19 DEF EndRevoke, EndWipe, RollBack
<1> QED  BY <1>4, <1>5, <1>6, <1>10, <1>13, <1>14, <1>15, <1>16, <1>17, <1>18, <1>19
         DEF SessionNext

\* SessionTypeOK is inductive together with what CallInv says of the calls.
LEMMA TypeStep ==
  ASSUME SessionTypeOK, CallInv, SessionNext
  PROVE  SessionTypeOK' /\ CallInv'
<1>0. /\ store \in {0} \union Ids /\ Ids \subseteq Ids' /\ Ids \subseteq 1..MaxSessions
      /\ ended \subseteq 1..MaxSessions /\ calm \in BOOLEAN
      /\ \A t \in Ids : Family(t) \in 1..MaxSessions
  <2>1. Ids \subseteq Ids'
    BY RowsStep
  <2>2. Ids \subseteq 1..MaxSessions
    BY RowsType
  <2>3. \A t \in Ids : Family(t) \in 1..MaxSessions
    BY RowsType DEF Family, Row
  <2>4. store \in {0} \union Ids /\ ended \subseteq 1..MaxSessions /\ calm \in BOOLEAN
    BY DEF SessionTypeOK, Ids
  <2> QED  BY <2>1, <2>2, <2>3, <2>4
<1>1. store' \in {0} \union Ids'
  <2>1. CASE LogIn
    BY <2>1, LogInRows DEF LogIn
  <2>2. CASE \E q \in Requests : Answer(q)
    BY <1>0, <2>2 DEF Answer, CallInv, CallOK
  <2>3. CASE \E q \in Requests : AnswerLost(q)
    BY <1>0, <2>3 DEF AnswerLost
  <2>4. CASE UNCHANGED store
    BY <1>0, <2>4
  <2> QED
    BY <2>1, <2>2, <2>3, <2>4, ZenonT(40)
    DEF SessionNext, IssueLink, MailFails, StartRefresh, StartLogout, StartChangePassword,
        StartReset, StartAdminReset, Unheard, FindSession, RejectRefresh, ConsumeToken, Rotate,
        FindForLogout, BeginRevoke, EndRevoke, ClaimLink, BeginWipe, EndWipe, RollBack
<1>2. ended' \subseteq 1..MaxSessions
  <2>1. ASSUME NEW q \in Requests, EndRevoke(q)
        PROVE  ended' \subseteq 1..MaxSessions
    BY <1>0, <2>1 DEF EndRevoke, At, CallInv, CallOK
  <2>2. ASSUME NEW q \in Requests, EndWipe(q)
        PROVE  ended' \subseteq 1..MaxSessions
    BY <1>0, <2>2 DEF EndWipe, CallInv, CallOK
  <2>3. CASE UNCHANGED ended
    BY <1>0, <2>3
  <2> QED
    BY <2>1, <2>2, <2>3
    DEF SessionNext, LogIn, IssueLink, MailFails, StartRefresh, StartLogout, StartChangePassword,
        StartReset, StartAdminReset, Answer, AnswerLost, Unheard, FindSession, RejectRefresh,
        ConsumeToken, Rotate, FindForLogout, BeginRevoke, ClaimLink, BeginWipe, RollBack
<1>3. calm' \in BOOLEAN
  <2>1. ASSUME NEW q \in Requests, NEW tab \in Tabs, StartRefresh(q, tab)
        PROVE  calm' \in BOOLEAN
    BY <2>1 DEF StartRefresh
  <2>2. CASE UNCHANGED calm
    BY <1>0, <2>2
  <2>3. CASE calm' = FALSE
    BY <2>3
  <2> QED
    BY <2>1, <2>2, <2>3, ZenonT(40)
    DEF SessionNext, LogIn, IssueLink, MailFails, StartLogout, StartChangePassword, StartReset,
        StartAdminReset, Answer, AnswerLost, Unheard, FindSession, RejectRefresh, ConsumeToken,
        Rotate, FindForLogout, BeginRevoke, EndRevoke, ClaimLink, BeginWipe, EndWipe, RollBack
<1> QED  BY <1>1, <1>2, <1>3, RowsStep, LinksStep, CallsStep DEF SessionTypeOK, Ids

-----------------------------------------------------------------------------
(* One live token per family *)

\* Whoever holds a row has held it, or has just found it live and not held.
LEMMA HoldStep ==
  ASSUME SessionTypeOK, CallInv, SessionNext, NEW q \in Requests, server'[q].pc = "holding"
  PROVE  /\ server'[q].token = server[q].token /\ server[q].token \in Ids
         /\ \/ server[q].pc = "holding" /\ Stays(q)
            \/ /\ Hold(q) /\ server[q].pc = "consume" /\ Live(server[q].token)
               /\ ~HeldByOther(server[q].token, q)
               /\ UNCHANGED <<sessions, ended>>
<1>0. server \in [Requests -> Call]
  BY DEF SessionTypeOK
<1>1. CASE Stays(q)
  BY <1>0, <1>1 DEF Stays, CallInv, CallOK
<1>2. CASE ConsumeToken(q) /\ Hold(q)
  <2>1. ~Goto(q, "revoke") /\ ~Reply(q, 0)
    BY <1>0 DEF Goto, Reply, Call
  <2>2. /\ server[q].pc = "consume" /\ server[q].kind = "refresh" /\ Live(server[q].token)
        /\ ~HeldByOther(server[q].token, q) /\ UNCHANGED <<sessions, ended>>
    BY <1>2, <2>1 DEF ConsumeToken, At
  <2>3. server'[q].token = server[q].token
    BY <1>0, <1>2 DEF Hold, Call
  <2> QED  BY <1>2, <2>2, <2>3 DEF CallInv, CallOK
<1>3. CASE ClaimLink(q) \/ BeginRevoke(q) \/ BeginWipe(q)
  <2>1. CASE ClaimLink(q)
    <3>1. server'[q].pc \in {"claimed", "reply"}
      BY <1>0, <2>1 DEF ClaimLink, Goto, Reply, Call
    <3> QED  BY <3>1
  <2>2. CASE BeginRevoke(q)
    BY <1>0, <2>2 DEF BeginRevoke, Call
  <2>3. CASE BeginWipe(q)
    BY <1>0, <2>3 DEF BeginWipe, Call
  <2> QED  BY <1>3, <2>1, <2>2, <2>3
<1> QED  BY <1>1, <1>2, <1>3, CallMoves

LEMMA TableStep ==
  ASSUME SessionTypeOK, CallInv, TableInv, SessionNext
  PROVE  TableInv'
<1>0. server \in [Requests -> Call]
  BY DEF SessionTypeOK
<1>t. /\ Ids = 1..Len(sessions) /\ Len(sessions) \in Nat
      /\ \A t \in Ids : Family(t) \in Nat /\ Family(t) <= t
  BY RowsType DEF TableInv, Family, Row
<1>1. CASE LogIn
  <2>1. \A t \in Ids' : Family(t)' <= t
    BY <1>t, <1>1, LogInRows
  <2>2. AtMostOneLive'
    BY <1>t, <1>1, LogInRows DEF AtMostOneLive, TableInv
  <2>3. UNCHANGED server
    BY <1>1 DEF LogIn
  <2>4. \A q \in Requests : server[q].pc = "holding" => server[q].token \in Ids
    BY DEF CallInv, CallOK
  <2> QED  BY <1>1, <2>1, <2>2, <2>3, <2>4, LogInRows DEF TableInv
<1>2. ASSUME NEW r \in Requests, Rotate(r)
      PROVE  TableInv'
  <2>0. server[r].pc = "holding" /\ Live(server[r].token) /\ server[r].token \in Ids
    BY <1>2, RotateRows DEF Rotate, At, TableInv
  <2>1. \A t \in Ids' : Family(t)' <= t
    BY <1>t, <1>2, <2>0, RotateRows
  <2>2. AtMostOneLive'
    <3> SUFFICES ASSUME NEW t \in Ids', NEW u \in Ids', Live(t)', Live(u)', Family(t)' = Family(u)'
                 PROVE  t = u
      BY DEF AtMostOneLive
    <3>1. ASSUME NEW x \in Ids', Live(x)', x \in Ids
          PROVE  Live(x) /\ x # server[r].token /\ Family(x)' = Family(x)
      BY <1>2, <3>1, RotateRows
    <3>2. ASSUME NEW x \in Ids', x \notin Ids
          PROVE  x = Len(sessions) + 1 /\ Family(x)' = Family(server[r].token)
      BY <1>2, <3>2, RotateRows
    <3> QED  BY <2>0, <3>1, <3>2 DEF AtMostOneLive, TableInv
  <2>3. ASSUME NEW q \in Requests, server'[q].pc = "holding"
        PROVE  server[q].pc = "holding" /\ server'[q].token = server[q].token /\ q # r
    BY <1>0, <1>2, <2>3 DEF Rotate, Reply, Call
  <2>4. ASSUME NEW q \in Requests, server'[q].pc = "holding"
        PROVE  Live(server[q].token)'
    BY <1>2, <2>0, <2>3, <2>4, RotateRows, ZenonT(40) DEF TableInv, CallInv, CallOK
  <2> QED  BY <2>1, <2>2, <2>3, <2>4 DEF TableInv
<1>3. ASSUME NEW r \in Requests, EndRevoke(r) \/ EndWipe(r)
      PROVE  TableInv'
  <2>1. \A t \in Ids' : Family(t)' <= t
    BY <1>t, <1>3, EndRows
  <2>2. AtMostOneLive'
    BY <1>3, EndRows DEF AtMostOneLive, TableInv
  <2>3. ASSUME NEW q \in Requests, server'[q].pc = "holding"
        PROVE  server[q].pc = "holding" /\ server'[q].token = server[q].token /\ q # r
    BY <1>0, <1>3, <2>3 DEF EndRevoke, EndWipe, Call
  <2>4. ASSUME NEW q \in Requests, server'[q].pc = "holding"
        PROVE  Live(server[q].token)'
    <3>1. server[q].token \notin server[r].seen
      BY <1>3, <2>3, <2>4 DEF EndRevoke, EndWipe, HeldByOther
    <3>2. server[q].token \in Ids /\ Live(server[q].token)
      BY <2>3, <2>4 DEF TableInv, CallInv, CallOK
    <3> QED  BY <1>3, <2>3, <2>4, <3>1, <3>2, EndRows
  <2> QED  BY <2>1, <2>2, <2>3, <2>4 DEF TableInv
<1>4. CASE UNCHANGED <<sessions, ended>>
  <2>1. (\A t \in Ids' : Family(t)' <= t) /\ AtMostOneLive'
    BY <1>4 DEF TableInv, AtMostOneLive, Ids, Family, Live
  <2>2. ASSUME NEW q \in Requests, server'[q].pc = "holding"
        PROVE  Live(server[q].token)'
    BY <1>4, <2>2, HoldStep DEF TableInv, Live
  <2>3. ASSUME NEW q \in Requests, NEW p \in Requests, server'[q].pc = "holding",
               server'[p].pc = "holding", server'[p].token = server'[q].token, p # q
        PROVE  FALSE
    <3>1. ASSUME Hold(q), server[q].pc = "consume" PROVE server[p].pc = "holding"
      BY <1>0, <2>3, <3>1 DEF Hold, Call
    <3>2. ASSUME Hold(p), server[p].pc = "consume" PROVE server[q].pc = "holding"
      BY <1>0, <2>3, <3>2 DEF Hold, Call
    <3> QED  BY <2>3, <3>1, <3>2, HoldStep DEF TableInv, HeldByOther
  <2> QED  BY <2>1, <2>2, <2>3 DEF TableInv
<1> QED  BY <1>1, <1>2, <1>3, <1>4, OtherRows

-----------------------------------------------------------------------------
(* Families that have been ended *)

\* A family has the number of one of its rows.
LEMMA FamilyIds ==
  ASSUME SessionTypeOK, TableInv, NEW t \in Ids
  PROVE  Family(t) \in Ids
<1>1. Family(t) \in 1..MaxSessions /\ Family(t) <= t /\ Ids = 1..Len(sessions) /\ Len(sessions) \in Nat
  BY RowsType DEF TableInv, Family, Row
<1> QED  BY <1>1

\* A statement in progress may go on saying that it has seen every live row of the
\* families it ends.
LEMMA QuietStep ==
  ASSUME SessionTypeOK, CallInv, TableInv, EndInv, SessionNext,
         NEW q \in Requests, server'[q].quiet
  PROVE  /\ \A t \in Ids' : Live(t)' /\ Family(t)' \in Target(q)' => t \in server'[q].seen
         /\ Quiet(server[q].seen)'
<1>0. server \in [Requests -> Call]
  BY DEF SessionTypeOK
<1>1. CASE Stays(q)
  <2>0. /\ server[q].quiet /\ server'[q].seen = server[q].seen
        /\ server[q].pc \in {"revoking", "wiping"}
        /\ server[q].seen \subseteq Ids
        /\ server[q].pc = "revoking" => server[q].token \in Ids
        /\ \A t \in Ids : Live(t) /\ Family(t) \in Target(q) => t \in server[q].seen
        /\ Quiet(server[q].seen)
    BY <1>1 DEF Stays, EndInv, CallInv, CallOK
  <2>1. Target(q)' = Target(q)
    BY <1>1, <2>0, RowsStep DEF Target, Stays
  <2>2. Target(q) \subseteq Ids
    BY <2>0, FamilyIds DEF Target
  <2>3. ASSUME NEW t \in Ids', Live(t)', Family(t)' \in Target(q)
        PROVE  t \in server[q].seen
    <3>1. CASE t \in Ids
      BY <2>0, <2>3, <3>1, RowsStep
    <3>2. CASE t \notin Ids /\ LogIn
      BY <2>2, <2>3, <3>2, LogInRows
    <3>3. ASSUME NEW r \in Requests, Rotate(r), t \notin Ids
          PROVE  FALSE
      <4>1. /\ server[r].pc = "holding" /\ server[r].token \in Ids /\ Live(server[r].token)
            /\ Family(t)' = Family(server[r].token)
        BY <3>3, RotateRows DEF Rotate, At, TableInv
      <4> QED  BY <2>0, <2>3, <4>1 DEF Quiet
    <3>4. ASSUME NEW r \in Requests, EndRevoke(r) \/ EndWipe(r)
          PROVE  t \in Ids
      BY <3>4, EndRows
    <3>5. ASSUME UNCHANGED <<sessions, ended>>
          PROVE  t \in Ids
      BY <3>5 DEF Ids
    <3> QED  BY <3>1, <3>2, <3>3, <3>4, <3>5, OtherRows
  <2>4. ASSUME NEW p \in Requests, server'[p].pc = "holding"
        PROVE  server'[p].token \notin server[q].seen
    <3>1. CASE server[p].pc = "holding"
      BY <2>0, <2>4, <3>1, HoldStep DEF Quiet
    <3>2. CASE Hold(p) /\ server[p].pc = "consume"
      <4>1. q # p
        BY <2>0, <3>2
      <4>2. server'[q].quiet => server[p].token \notin server[q].seen
        BY <1>0, <3>2, <4>1 DEF Hold, Call
      <4> QED  BY <2>4, <4>2, HoldStep
    <3> QED  BY <2>4, <3>1, <3>2, HoldStep
  <2>5. Quiet(server[q].seen)'
    BY <2>0, <2>4 DEF Quiet
  <2> QED  BY <2>0, <2>1, <2>3, <2>5
<1>2. CASE BeginRevoke(q)
  <2> DEFINE rows == {t \in FamilyOf(Family(server[q].token)) : Live(t)}
  <2>1. /\ server' = [server EXCEPT ![q].pc = "revoking", ![q].seen = rows, ![q].quiet = Quiet(rows)]
        /\ UNCHANGED sessions
    BY <1>2 DEF BeginRevoke
  <2>2. \A t \in Ids : Live(t) /\ Family(t) = Family(server[q].token) => t \in rows
    BY DEF FamilyOf
  <2> HIDE DEF rows
  <2>3. /\ server'[q].pc = "revoking" /\ server'[q].token = server[q].token
        /\ server'[q].seen = rows /\ server'[q].quiet = Quiet(rows)
        /\ \A p \in Requests : p # q => server'[p] = server[p]
    BY <1>0, <2>1 DEF Call
  <2>4. Quiet(server[q].seen)'
    BY <2>3 DEF Quiet
  <2>5. \A t \in Ids' : Live(t)' /\ Family(t)' \in Target(q)' => t \in rows
    BY <2>1, <2>2, <2>3 DEF Target, Ids, Live, Family
  <2> QED  BY <2>3, <2>4, <2>5
<1>3. CASE BeginWipe(q)
  <2> DEFINE rows == {t \in Ids : sessions[t].state # "gone"}
  <2>1. /\ server' = [server EXCEPT ![q].pc = "wiping", ![q].seen = rows, ![q].quiet = Quiet(rows)]
        /\ UNCHANGED sessions
    BY <1>3 DEF BeginWipe
  <2>2. \A t \in Ids : Live(t) => t \in rows
    BY DEF Live
  <2> HIDE DEF rows
  <2>3. /\ server'[q].seen = rows /\ server'[q].quiet = Quiet(rows) /\ server'[q].pc = "wiping"
        /\ \A p \in Requests : p # q => server'[p] = server[p]
    BY <1>0, <2>1 DEF Call
  <2>4. Quiet(server[q].seen)'
    BY <2>3 DEF Quiet
  <2>5. \A t \in Ids' : Live(t)' => t \in rows
    BY <2>1, <2>2 DEF Ids, Live
  <2> QED  BY <2>3, <2>4, <2>5
<1>4. server'[q].pc \in {"revoking", "wiping"}
  BY TypeStep DEF CallInv, CallOK
<1>5. CASE ConsumeToken(q) /\ Hold(q)
  BY <1>0, <1>4, <1>5 DEF Hold, Call
<1>6. CASE ClaimLink(q)
  <2>1. server'[q].pc \in {"claimed", "reply"}
    BY <1>0, <1>6 DEF ClaimLink, Goto, Reply, Call
  <2> QED  BY <1>4, <2>1
<1> QED  BY <1>1, <1>2, <1>3, <1>4, <1>5, <1>6, CallMoves

LEMMA EndStep ==
  ASSUME SessionTypeOK, CallInv, TableInv, EndInv, SessionNext
  PROVE  EndInv'
<1>i. ended \subseteq Ids /\ \A t \in Ids : Family(t) \in ended => ~Live(t)
  BY DEF EndInv, EndedStaysEnded
<1>1. CASE LogIn
  <2>1. UNCHANGED ended
    BY <1>1 DEF LogIn
  <2>2. ended' \subseteq Ids' /\ EndedStaysEnded'
    BY <1>i, <1>1, <2>1, LogInRows DEF EndedStaysEnded
  <2> QED  BY <2>2, QuietStep DEF EndInv
<1>2. ASSUME NEW q \in Requests, Rotate(q)
      PROVE  EndInv'
  <2>1. UNCHANGED ended /\ server[q].pc = "holding" /\ Live(server[q].token)
    BY <1>2 DEF Rotate, At, TableInv
  <2>2. ended' \subseteq Ids' /\ EndedStaysEnded'
    BY <1>i, <1>2, <2>1, RotateRows DEF EndedStaysEnded
  <2> QED  BY <2>2, QuietStep DEF EndInv
<1>3. ASSUME NEW q \in Requests, EndRevoke(q) \/ EndWipe(q)
      PROVE  EndInv'
  <2>1. /\ server[q].seen \subseteq Ids
        /\ EndRevoke(q) => server[q].pc = "revoking" /\ server[q].token \in Ids
        /\ EndWipe(q) => server[q].pc = "wiping"
    BY <1>3 DEF CallInv, CallOK, EndRevoke, EndWipe, At
  <2>2. ended' = IF server[q].quiet THEN ended \union Target(q) ELSE ended
    <3>1. CASE EndRevoke(q)
      BY <2>1, <3>1 DEF EndRevoke, Target
    <3>2. CASE EndWipe(q)
      BY <2>1, <3>2 DEF EndWipe, Target
    <3> QED  BY <1>3, <3>1, <3>2
  <2>3. Target(q) \subseteq Ids
    BY <1>3, <2>1, FamilyIds DEF Target
  <2>4. server[q].quiet =>
          \A t \in Ids : Live(t) /\ Family(t) \in Target(q) => t \in server[q].seen
    BY DEF EndInv
  <2>5. ended' \subseteq Ids'
    BY <1>i, <1>3, <2>2, <2>3, EndRows
  <2>6. EndedStaysEnded'
    BY <1>i, <1>3, <2>2, <2>4, EndRows DEF EndedStaysEnded
  <2> QED  BY <2>5, <2>6, QuietStep DEF EndInv
<1>4. CASE UNCHANGED <<sessions, ended>>
  <2>1. ended' \subseteq Ids' /\ EndedStaysEnded'
    BY <1>i, <1>4 DEF EndedStaysEnded, Ids, Family, Live
  <2> QED  BY <2>1, QuietStep DEF EndInv
<1> QED  BY <1>1, <1>2, <1>3, <1>4, OtherRows

-----------------------------------------------------------------------------
(* Password reset links *)

LEMMA LinkStep ==
  ASSUME SessionTypeOK, CallInv, LinkInv, SessionNext
  PROVE  LinkInv'
<1>0. server \in [Requests -> Call]
  BY DEF SessionTypeOK
<1>1. Outdated'
  BY LinksStep DEF LinkInv, Outdated
<1>2. ASSUME NEW q \in Requests, NEW i \in DOMAIN links', Claiming(q, i)'
      PROVE  links'[i].state = "open"
  <2>0. server'[q].kind = "link" /\ server'[q].pc \in {"claimed", "wiping"} /\ server'[q].token = i
    BY <1>2 DEF Claiming
  <2>1. CASE Stays(q)
    <3>1. Claiming(q, i) /\ i \in DOMAIN links
      BY <2>0, <2>1 DEF Stays, Claiming, CallInv, CallOK
    <3>2. ~EndWipe(q)
      BY <1>0, <2>0 DEF EndWipe, Call
    <3> QED  BY <3>1, <3>2, LinksStep DEF LinkInv
  <2>2. CASE ClaimLink(q)
    <3>1. ~Reply(q, 0)
      BY <1>0, <2>0 DEF Reply, Call
    <3>2. links[server[q].token].state = "open" /\ Goto(q, "claimed") /\ UNCHANGED links
      BY <2>2, <3>1 DEF ClaimLink
    <3>3. server[q].token = i
      BY <1>0, <2>0, <3>2 DEF Goto, Call
    <3> QED  BY <3>2, <3>3
  <2>3. CASE BeginWipe(q)
    <3>1. server'[q].kind = server[q].kind /\ server'[q].token = server[q].token
      BY <1>0, <2>3 DEF BeginWipe, Call
    <3>2. Claiming(q, i) /\ i \in DOMAIN links /\ UNCHANGED links
      BY <2>0, <2>3, <3>1 DEF BeginWipe, At, Claiming, CallInv, CallOK
    <3> QED  BY <3>2 DEF LinkInv
  <2>4. CASE ConsumeToken(q) /\ Hold(q)
    BY <1>0, <2>0, <2>4 DEF Hold, Call
  <2>5. CASE BeginRevoke(q)
    BY <1>0, <2>0, <2>5 DEF BeginRevoke, Call
  <2> QED  BY <2>0, <2>1, <2>2, <2>3, <2>4, <2>5, CallMoves
<1> QED  BY <1>1, <1>2 DEF LinkInv, Outdated

-----------------------------------------------------------------------------
(* Calm sessions *)

\* A call that neither begins nor ends a refresh leaves the calm as it is.
LEMMA OneCalmCall ==
  ASSUME server \in [Requests -> Call], CalmState, UNCHANGED <<sessions, store>>,
         NEW q \in Requests, NEW c,
         server' = [server EXCEPT ![q] = c], CalmCall(c), Refreshes(c) <=> Refreshes(server[q])
  PROVE  CalmState'
<1>1. ASSUME NEW p \in Requests
      PROVE  CalmCall(server[p])' /\ (Refreshes(server[p])' <=> Refreshes(server[p]))
  <2>1. PICK d : d = server'[p]
    OBVIOUS
  <2>2. CalmCall(d) /\ (Refreshes(d) <=> Refreshes(server[p]))
    BY <2>1 DEF CalmState
  <2> QED  BY <2>1, <2>2 DEF CalmCall, Refreshes, Live
<1> QED  BY <1>1 DEF CalmState, Live

LEMMA CalmStep ==
  ASSUME SessionTypeOK, CallInv, TableInv, CalmInv, SessionNext
  PROVE  CalmInv'
<1> SUFFICES ASSUME calm' PROVE CalmState'
  BY DEF CalmInv
<1>0. /\ server \in [Requests -> Call] /\ store \in {0} \union Ids
      /\ Ids = 1..Len(sessions) /\ Len(sessions) \in Nat
  BY RowsType DEF SessionTypeOK, Ids
<1>c. calm
  BY ZenonT(40) DEF SessionNext, LogIn, IssueLink, MailFails, StartRefresh, StartLogout,
     StartChangePassword, StartReset, StartAdminReset, Answer, AnswerLost, Unheard, FindSession,
     RejectRefresh, ConsumeToken, Rotate, FindForLogout, BeginRevoke, EndRevoke, ClaimLink,
     BeginWipe, EndWipe, RollBack
<1>s. /\ CalmState
      /\ \A q \in Requests : CalmCall(server[q]) /\ CallOK(server[q])
  BY <1>c DEF CalmInv, CalmState, CallInv
<1>1. CASE LogIn
  <2>1. Len(sessions) = 0 /\ \A q \in Requests : ~Refreshes(server[q])
    BY <1>0, <1>1, <1>s DEF LogIn, CalmState, CalmCall
  <2>2. UNCHANGED server /\ store' = Len(sessions) + 1
    BY <1>1 DEF LogIn
  <2>3. Live(store)' /\ Len(sessions') > 0
    BY <1>0, <1>1, <2>2, LogInRows, LenProperties
  <2>4. \A q \in Requests : CalmCall(server[q])' /\ ~Refreshes(server[q])'
    BY <1>s, <2>1, <2>2 DEF CalmCall, Refreshes
  <2> QED  BY <1>0, <2>2, <2>3, <2>4 DEF CalmState
<1>2. CASE IssueLink \/ \E i \in DOMAIN links : MailFails(i)
  <2>1. UNCHANGED <<sessions, server, store>>
    BY <1>2 DEF IssueLink, MailFails
  <2> QED  BY <1>s, <2>1 DEF CalmState, CalmCall, Refreshes, Live
<1>3. ASSUME NEW q \in Requests, NEW tab \in Tabs, StartRefresh(q, tab)
      PROVE  CalmState'
  <2>1. \A p \in Requests : ~Refreshes(server[p])
    <3> SUFFICES ASSUME NEW p \in Requests, Refreshes(server[p]) PROVE FALSE
      OBVIOUS
    <3>1. server[p].by \in Tabs /\ server[p].kind = "refresh"
      BY <1>0, <1>s DEF CalmCall, Refreshes, Call
    <3>2. \A other \in Tabs : ~Refreshing(other)
      BY <1>3 DEF StartRefresh
    <3> QED  BY <3>1, <3>2 DEF Refreshing
  <2>2. /\ Len(sessions) > 0 /\ store # 0 /\ Live(store) /\ UNCHANGED <<sessions, store>>
    BY <1>0, <1>3, <1>s, <2>1 DEF StartRefresh, CalmState
  <2>3. PICK c : c = [Idle EXCEPT !.pc = "find", !.kind = "refresh", !.by = tab, !.token = store]
    OBVIOUS
  <2>4. server' = [server EXCEPT ![q] = c]
    BY <1>3, <2>3 DEF StartRefresh, Ask
  <2>5. CalmCall(c) /\ Refreshes(c)
    BY <2>2, <2>3, SessionsAssumption DEF CalmCall, Refreshes, Idle
  <2>6. ASSUME NEW p \in Requests
        PROVE  CalmCall(server[p])' /\ (Refreshes(server[p])' => p = q)
    <3>1. CASE p = q
      BY <1>0, <2>2, <2>4, <2>5, <3>1 DEF CalmCall, Refreshes, Live
    <3>2. CASE p # q
      BY <1>0, <1>s, <2>1, <2>2, <2>4, <3>2 DEF CalmCall, Refreshes, Live
    <3> QED  BY <3>1, <3>2
  <2> QED  BY <2>2, <2>6 DEF CalmState, Live
<1>4. ASSUME NEW q \in Requests, StartAdminReset(q) \/ \E i \in DOMAIN links : StartReset(q, i)
      PROVE  CalmState'
  <2>1. PICK c : /\ server' = [server EXCEPT ![q] = c]
                 /\ \/ c = [Idle EXCEPT !.pc = "find", !.kind = "password"]
                    \/ \E i : c = [Idle EXCEPT !.pc = "claim", !.kind = "link", !.token = i]
    BY <1>4 DEF StartAdminReset, StartReset
  <2>2. UNCHANGED <<sessions, store>> /\ server[q].pc = "idle"
    BY <1>4 DEF StartAdminReset, StartReset
  <2>3. CalmCall(c) /\ ~Refreshes(c) /\ ~Refreshes(server[q])
    BY <2>1, <2>2 DEF CalmCall, Refreshes, Idle
  <2> QED  BY <1>0, <1>s, <2>1, <2>2, <2>3, OneCalmCall
<1>5. ASSUME NEW q \in Requests, Answer(q)
      PROVE  CalmState'
  <2>1. /\ Refreshes(server[q]) /\ server[q].token # 0 /\ Live(server[q].token)
        /\ Len(sessions) > 0 /\ store' = server[q].token /\ UNCHANGED sessions
    BY <1>5, <1>s DEF Answer, CalmCall, Refreshes
  <2>2. ASSUME NEW p \in Requests
        PROVE  CalmCall(server[p])' /\ ~Refreshes(server[p])'
    <3>1. CASE p = q
      <4>1. server'[p] = Idle
        BY <1>0, <1>5, <3>1 DEF Answer
      <4> QED  BY <4>1 DEF CalmCall, Refreshes, Idle
    <3>2. CASE p # q
      <4>1. server'[p] = server[p] /\ ~Refreshes(server[p])
        BY <1>0, <1>5, <1>s, <2>1, <3>2 DEF Answer, CalmState
      <4> QED  BY <1>s, <4>1 DEF CalmCall, Refreshes
    <3> QED  BY <3>1, <3>2
  <2> QED  BY <2>1, <2>2 DEF CalmState, Live
<1>6. ASSUME NEW q \in Requests, Unheard(q)
      PROVE  CalmState'
  <2>1. UNCHANGED <<sessions, store>> /\ server' = [server EXCEPT ![q] = Idle]
    BY <1>6 DEF Unheard
  <2>2. ~Refreshes(server[q])
    BY <1>6, <1>s DEF Unheard, CalmCall
  <2>3. CalmCall(Idle) /\ ~Refreshes(Idle)
    BY DEF CalmCall, Refreshes, Idle
  <2> QED  BY <1>0, <1>s, <2>1, <2>2, <2>3, OneCalmCall
<1>7. ASSUME NEW q \in Requests, NEW pc, Goto(q, pc), UNCHANGED <<sessions, store>>,
             \/ At(q, {"refresh"}, "find") /\ pc = "consume"
             \/ At(q, {"link"}, "claim") /\ pc = "claimed"
      PROVE  CalmState'
  <2>1. PICK c : c = [server[q] EXCEPT !.pc = pc]
    OBVIOUS
  <2>2. server' = [server EXCEPT ![q] = c]
    BY <1>0, <1>7, <2>1 DEF Goto, Call
  <2>3. CalmCall(c) /\ (Refreshes(c) <=> Refreshes(server[q]))
    BY <1>0, <1>7, <1>s, <2>1 DEF CalmCall, Refreshes, At, Call
  <2> QED  BY <1>0, <1>7, <1>s, <2>2, <2>3, OneCalmCall
<1>8. ASSUME NEW q \in Requests, FindSession(q)
      PROVE  CalmState'
  <2>1. Live(server[q].token)
    BY <1>8, <1>s DEF FindSession, At, CalmCall, Refreshes
  <2>2. Goto(q, "consume") /\ UNCHANGED <<sessions, store>> /\ At(q, {"refresh"}, "find")
    BY <1>8, <2>1 DEF FindSession, Live
  <2> QED  BY <1>7, <2>2
<1>9. ASSUME NEW q \in Requests, ClaimLink(q)
      PROVE  CalmState'
  <2>0. UNCHANGED <<sessions, store>> /\ At(q, {"link"}, "claim")
    BY <1>9 DEF ClaimLink
  <2>1. CASE Goto(q, "claimed")
    BY <1>7, <2>0, <2>1
  <2>2. CASE Reply(q, 0)
    <3>1. PICK c : c = [server[q] EXCEPT !.pc = "reply", !.token = 0]
      OBVIOUS
    <3>2. server' = [server EXCEPT ![q] = c]
      BY <1>0, <2>2, <3>1 DEF Reply, Call
    <3>3. CalmCall(c) /\ ~Refreshes(c) /\ ~Refreshes(server[q])
      BY <1>0, <1>s, <2>0, <3>1 DEF CalmCall, Refreshes, At, Call
    <3> QED  BY <1>0, <1>s, <2>0, <3>2, <3>3, OneCalmCall
  <2> QED  BY <1>9, <2>1, <2>2 DEF ClaimLink
<1>10. ASSUME NEW q \in Requests, ConsumeToken(q)
       PROVE  CalmState'
  <2>0. Live(server[q].token) /\ server[q].pc = "consume"
    BY <1>10, <1>s DEF ConsumeToken, At, CalmCall, Refreshes
  <2>1. Hold(q) /\ UNCHANGED <<sessions, store>> /\ server[q].pc = "consume"
    BY <1>10, <2>0 DEF ConsumeToken, Live
  <2>2. ASSUME NEW p \in Requests
        PROVE  CalmCall(server[p])' /\ (Refreshes(server[p])' <=> Refreshes(server[p]))
    <3>1. /\ server'[p].kind = server[p].kind /\ server'[p].by = server[p].by
          /\ server'[p].token = server[p].token
          /\ server'[p].pc = IF p = q THEN "holding" ELSE server[p].pc
      BY <1>0, <2>1 DEF Hold, Call
    <3> QED  BY <1>s, <2>1, <3>1 DEF CalmCall, Refreshes, Live
  <2> QED  BY <1>s, <2>1, <2>2 DEF CalmState, Live
<1>11. ASSUME NEW q \in Requests, Rotate(q)
       PROVE  CalmState'
  <2>1. /\ At(q, {"refresh"}, "holding") /\ UNCHANGED store
        /\ Reply(q, Len(sessions) + 1)
    BY <1>11 DEF Rotate
  <2>2. Refreshes(server[q]) /\ store # 0
    BY <1>s, <2>1 DEF At, Refreshes, CalmCall
  <2>3. /\ server'[q].pc = "reply" /\ server'[q].token = Len(sessions) + 1
        /\ server'[q].by = server[q].by /\ server'[q].kind = "refresh"
        /\ \A p \in Requests : p # q => server'[p] = server[p]
    BY <1>0, <2>1 DEF Reply, At, Call
  <2>4. Len(sessions') > 0 /\ Live(server[q].token)'
    BY <1>0, <1>11, <2>3, RotateRows, LenProperties
  <2>5. ASSUME NEW p \in Requests
        PROVE  CalmCall(server[p])' /\ (Refreshes(server[p])' => p = q)
    <3>1. CASE p = q
      BY <1>0, <1>s, <2>1, <2>2, <2>3, <2>4, <3>1 DEF CalmCall, Refreshes
    <3>2. CASE p # q
      <4>1. server'[p] = server[p] /\ ~Refreshes(server[p])
        BY <1>s, <2>2, <2>3, <3>2 DEF CalmState
      <4> QED  BY <1>s, <4>1, <3>2 DEF CalmCall, Refreshes
    <3> QED  BY <3>1, <3>2
  <2>6. Refreshes(server[q])'
    BY <2>3 DEF Refreshes
  <2> QED  BY <2>4, <2>5, <2>6 DEF CalmState
<1>12. ASSUME NEW q \in Requests,
              FindForLogout(q) \/ BeginRevoke(q) \/ EndRevoke(q) \/ EndWipe(q)
       PROVE  FALSE
  <2>1. \/ server[q].kind = "logout" \/ server[q].pc \in {"revoke", "revoking", "wiping"}
    BY <1>12 DEF FindForLogout, BeginRevoke, EndRevoke, EndWipe, At
  <2> QED  BY <1>s, <2>1 DEF CalmCall, CallOK, Refreshes
<1>13. ASSUME NEW q \in Requests,
              \/ \E tab \in Tabs : StartLogout(q, tab) \/ StartChangePassword(q, tab)
              \/ AnswerLost(q) \/ RejectRefresh(q) \/ BeginWipe(q) \/ RollBack(q)
       PROVE  FALSE
  BY <1>13 DEF StartLogout, StartChangePassword, AnswerLost, RejectRefresh, BeginWipe, RollBack
<1> QED  BY <1>1, <1>2, <1>3, <1>4, <1>5, <1>6, <1>8, <1>9, <1>10, <1>11, <1>12, <1>13
         DEF SessionNext

-----------------------------------------------------------------------------
(* What Sessions promises *)

\* SessionInv holds in every state: the table, the calls, the links and the store agree.
THEOREM SessionInvariant == SessionSpec => []SessionInv
<1>1. SessionInit => SessionInv
  <2> SUFFICES ASSUME SessionInit PROVE SessionInv
    OBVIOUS
  <2>1. /\ sessions = <<>> /\ links = <<>> /\ Ids = {} /\ DOMAIN links = {} /\ store = 0
        /\ ended = {} /\ calm = TRUE /\ Len(sessions) = 0 /\ Len(links) = 0
        /\ server = [q \in Requests |-> Idle]
    BY DEF SessionInit, Ids
  <2>2. /\ Idle \in Call /\ Idle.pc = "idle" /\ Idle.kind = "refresh" /\ Idle.token = 0
        /\ Idle.seen = {} /\ Idle.quiet = FALSE
    BY DEF Idle, Call
  <2>3. SessionTypeOK
    BY <2>1, <2>2, SessionsAssumption DEF SessionTypeOK
  <2>4. CallInv
    BY <2>1, <2>2 DEF CallInv, CallOK
  <2>5. TableInv /\ EndInv
    BY <2>1, <2>2 DEF TableInv, EndInv, AtMostOneLive, EndedStaysEnded
  <2>6. LinkInv
    BY <2>1 DEF LinkInv
  <2>7. CalmInv
    BY <2>1, <2>2 DEF CalmInv, CalmState, CalmCall, Refreshes
  <2> QED  BY <2>3, <2>4, <2>5, <2>6, <2>7 DEF SessionInv
<1>2. SessionInv /\ [SessionNext]_sessionVars => SessionInv'
  <2> SUFFICES ASSUME SessionInv, [SessionNext]_sessionVars PROVE SessionInv'
    OBVIOUS
  <2>1. CASE SessionNext
    BY <2>1, TypeStep, TableStep, EndStep, LinkStep, CalmStep DEF SessionInv
  <2>2. CASE UNCHANGED sessionVars
    <3>1. /\ sessions' = sessions /\ links' = links /\ server' = server /\ store' = store
          /\ ended' = ended /\ calm' = calm
      BY <2>2 DEF sessionVars
    <3>2. SessionTypeOK' /\ CallInv'
      BY <3>1 DEF SessionInv, SessionTypeOK, CallInv, CallOK, Ids
    <3>3. TableInv'
      BY <3>1 DEF SessionInv, TableInv, AtMostOneLive, Ids, Live, Family
    <3>4. EndInv'
      BY <3>1 DEF SessionInv, EndInv, EndedStaysEnded, Ids, Live, Family, Target, Quiet
    <3>5. LinkInv'
      BY <3>1 DEF SessionInv, LinkInv, Claiming
    <3>6. CalmInv'
      BY <3>1 DEF SessionInv, CalmInv, CalmState, CalmCall, Refreshes, Live
    <3> QED  BY <3>2, <3>3, <3>4, <3>5, <3>6 DEF SessionInv
  <2> QED  BY <2>1, <2>2
<1> QED  BY <1>1, <1>2, PTL DEF SessionSpec

\* However refreshes, logouts and password changes interleave, the conditional update of
\* refreshToken leaves every family at most one token that can be refreshed.
THEOREM OneLiveToken == SessionSpec => []AtMostOneLive
<1>1. SessionInv => AtMostOneLive
  BY DEF SessionInv, TableInv
<1> QED  BY <1>1, SessionInvariant, PTL

\* A family that logout, token reuse or a password change has ended while none of its
\* rotations was open has no usable token again, whatever refreshes are on their way.
THEOREM EndedForGood == SessionSpec => []EndedStaysEnded
<1>1. SessionInv => EndedStaysEnded
  BY DEF SessionInv, EndInv
<1> QED  BY <1>1, SessionInvariant, PTL

\* No reset link changes a password that was changed after the link was issued.
THEOREM LinkOnce == SessionSpec => []LinkTakesEffectOnce
<1>1. SessionInv => LinkTakesEffectOnce
  <2> SUFFICES ASSUME SessionInv, NEW q \in Requests, At(q, {"link"}, "wiping")
               PROVE  ~links[server[q].token].outdated
    BY DEF LinkTakesEffectOnce
  <2>1. server[q].token \in DOMAIN links /\ Claiming(q, server[q].token)
    BY DEF SessionInv, CallInv, CallOK, At, Claiming
  <2> QED  BY <2>1 DEF SessionInv, LinkInv
<1> QED  BY <1>1, SessionInvariant, PTL

\* Tabs that refresh one at a time and hear every answer never lose the session: the
\* token in localStorage is live, or the answer that replaces it is on its way.
THEOREM CalmSession == SessionSpec => []CalmKeepsSession
<1>1. SessionInv => CalmKeepsSession
  <2> SUFFICES ASSUME SessionInv, calm, Len(sessions) > 0
               PROVE  CalmKeepsSession
    BY DEF CalmKeepsSession
  <2>1. CalmState
    BY DEF SessionInv, CalmInv
  <2>2. CASE \A q \in Requests : ~Refreshes(server[q])
    BY <2>1, <2>2 DEF CalmState, CalmKeepsSession
  <2>3. ASSUME NEW q \in Requests, Refreshes(server[q])
        PROVE  CalmKeepsSession
    BY <2>1, <2>3 DEF CalmState, CalmCall, Refreshes, CalmKeepsSession
  <2> QED  BY <2>2, <2>3
<1> QED  BY <1>1, SessionInvariant, PTL

-----------------------------------------------------------------------------
(* MicrosoftConnection *)

\* The row names the account the user has chosen, and a call keeps the row it has read.
ConnectionInv ==
  /\ ConnectionTypeOK
  /\ connection.account = chosen
  /\ \A q \in MsCalls :
       /\ msCall[q].seen.account = msCall[q].wanted
       /\ msCall[q].pc = "graph" => AccountInCache(msCall[q].seen)
  /\ \A x \in SignIns :
       /\ signIn[x].connected <= 1
       /\ signIn[x].state # "gone" => signIn[x].connected = 0

LEMMA ConnectionStep ==
  ASSUME ConnectionInv, ConnectionNext
  PROVE  ConnectionInv'
<1> USE DEF ConnectionTypeOK, Connection, Owner
<1>0. Unconnected \in Connection /\ Unconnected.account = NoAccount
  BY DEF Unconnected
<1>1. ASSUME NEW x \in SignIns, StartOAuth(x) \/ DiscardOAuthState(x) \/ ClaimState(x)
      PROVE  ConnectionInv'
  BY <1>1 DEF ConnectionInv, StartOAuth, DiscardOAuthState, ClaimState
<1>2. ASSUME NEW x \in SignIns, CompleteOAuth(x)
      PROVE  ConnectionInv'
  <2>0. signIn[x].connected = 0 /\ UNCHANGED msCall
    BY <1>2 DEF ConnectionInv, CompleteOAuth
  <2>1. ASSUME NEW a \in Accounts,
               connection' = [connection EXCEPT !.status = "active", !.account = a, !.cache = a],
               signIn' = [signIn EXCEPT ![x] = [state |-> "gone", connected |-> 1]],
               chosen' = a
        PROVE  ConnectionInv'
    <3>1. connection' \in Connection /\ connection'.account = chosen' /\ chosen' \in Owner
      BY <2>1 DEF ConnectionInv
    <3>2. /\ signIn' \in [SignIns -> [state : {"none", "open", "claimed", "gone"}, connected : Nat]]
          /\ \A y \in SignIns :
               /\ signIn'[y].connected <= 1
               /\ signIn'[y].state # "gone" => signIn'[y].connected = 0
      BY <2>1 DEF ConnectionInv
    <3> QED  BY <2>0, <3>1, <3>2 DEF ConnectionInv
  <2>2. CASE signIn' = [signIn EXCEPT ![x].state = "gone"] /\ UNCHANGED <<connection, chosen>>
    BY <2>0, <2>2 DEF ConnectionInv
  <2>3. signIn[x].connected + 1 = 1
    BY <2>0
  <2> QED  BY <1>2, <2>1, <2>2, <2>3 DEF CompleteOAuth
<1>3. CASE Disconnect
  BY <1>0, <1>3 DEF ConnectionInv, Disconnect
<1>4. ASSUME NEW q \in MsCalls, NEW kind \in {"lists", "select", "sync", "delete"},
             ReadConnection(q, kind)
      PROVE  ConnectionInv'
  BY <1>4 DEF ConnectionInv, ReadConnection
<1>5. ASSUME NEW q \in MsCalls, RenewToken(q)
      PROVE  ConnectionInv'
  BY <1>5, ZenonT(40) DEF ConnectionInv, RenewToken
<1>6. ASSUME NEW q \in MsCalls, NoToken(q)
      PROVE  ConnectionInv'
  BY <1>0, <1>6 DEF ConnectionInv, NoToken, NoMsCall
<1>7. ASSUME NEW q \in MsCalls, UseGraph(q)
      PROVE  ConnectionInv'
  BY <1>0, <1>7 DEF ConnectionInv, UseGraph, NoMsCall
<1> QED  BY <1>1, <1>2, <1>3, <1>4, <1>5, <1>6, <1>7 DEF ConnectionNext

\* The row of the connection and the calls that have read it stay well-formed and of one
\* account each.
THEOREM ConnectionInvariant == ConnectionSpec => []ConnectionInv
<1>1. ConnectionInit => ConnectionInv
  BY DEF ConnectionInit, ConnectionInv, ConnectionTypeOK, Connection, Owner, Unconnected, NoMsCall
<1>2. ConnectionInv /\ [ConnectionNext]_connectionVars => ConnectionInv'
  <2>1. ConnectionInv /\ UNCHANGED connectionVars => ConnectionInv'
    BY DEF ConnectionInv, connectionVars, ConnectionTypeOK, AccountInCache
  <2> QED  BY <2>1, ConnectionStep
<1> QED  BY <1>1, <1>2, PTL DEF ConnectionSpec

\* Calls reach Microsoft only for the account that was connected when they began, and a
\* sign-in whose callback is delivered twice connects once.
THEOREM ChosenAccountOnly == ConnectionSpec => []OnlyChosenAccount
<1>1. ConnectionInv => OnlyChosenAccount
  BY DEF ConnectionInv, OnlyChosenAccount, AccountInCache
<1> QED  BY <1>1, ConnectionInvariant, PTL

-----------------------------------------------------------------------------
(* TodoSync: the inductive invariant *)

\* The mapping that a run has in hand, the mappings it knows, and the tasks it has listed
\* and not yet dealt with.
InHand(s) ==
  IF sync[s].pc = "write" THEN {c.map : c \in sync[s].at}
  ELSE IF sync[s].pc = "record" THEN sync[s].at
  ELSE {}
Known(s) == sync[s].maps \union InHand(s)
AtHand(s) == IF sync[s].pc = "write" THEN {c.task : c \in sync[s].at} ELSE {}
Open(s) == sync[s].tasks \union AtHand(s)

\* What has been listed, read or begun is there or has been there; a mapping that was
\* read is still there unless its task is gone.
Used(m) == note[m.note].state # "none" /\ task[m.task].state # "none"
StillThere(m) ==
  task[m.task].state = "gone" \/ \E k \in maps : k.task = m.task /\ k.note = m.note
RunRefs(s) ==
  /\ \A x \in Open(s) : task[x.task].state # "none"
  /\ \A m \in Known(s) : Used(m) /\ StillThere(m)
DeskRefs(d) ==
  /\ \A t \in desk[d].task : task[t].state # "none"
  /\ \A n \in desk[d].note : note[n].state # "none"
  /\ desk[d].pc = "forget" => \A t \in desk[d].task : task[t].state = "gone"
  /\ desk[d].pc \in {"create", "record"} =>
       \E n \in desk[d].note, v \in desk[d].text : desk[d].note = {n} /\ desk[d].text = {v}
RefsInv ==
  /\ \A m \in maps : Used(m)
  /\ \A s \in Syncs : RunRefs(s)
  /\ \A d \in Desks : DeskRefs(d)

\* A run has each task once, and nothing before it has listed and read.
RunLists(s) ==
  /\ sync[s].pc \in {"idle", "list", "maps"} => sync[s].maps = {}
  /\ sync[s].pc \in {"idle", "trash"} => sync[s].tasks = {}
  /\ \A x, y \in sync[s].tasks : x.task = y.task => x = y
  /\ \A x \in sync[s].tasks, m \in InHand(s) : x.task # m.task
  /\ sync[s].pc = "write" => \A c \in sync[s].at : c.task.task = c.map.task
ListInv == \A s \in Syncs : RunLists(s)

\* The two hashes of a mapping are of one text.
RunHashes(s) ==
  sync[s].pc = "record" => \A c \in sync[s].at : c.local.id = c.external.id /\ c.deleted = FALSE
HashInv ==
  /\ \A m \in maps : m.local.id = m.external.id
  /\ \A s \in Syncs : RunHashes(s)

\* No run throws away what is not gone.
RunThrows(s) ==
  /\ \A m \in sync[s].missing : task[m.task].state = "gone"
  /\ sync[s].pc = "trash" => \A c \in sync[s].at : task[c.task].state = "gone"
  /\ sync[s].pc = "maps" =>
       \A m \in maps : task[m.task].state = "gone" \/ \E x \in sync[s].tasks : x.task = m.task
ThrowInv ==
  ~crossed =>
    /\ \A m \in maps : m.deleted => task[m.task].state = "gone"
    /\ \A s \in Syncs : RunThrows(s)

\* A mapping is in step.
Agreed(m) ==
  \/ m.detached
  \/ note[m.note].state # "live"
  \/ note[m.note].text.id = task[m.task].text.id

\* A run that nothing disturbs has current lists, and what it has dealt with is in step.
ListsCurrent(s) ==
  /\ \A x \in Open(s) : task[x.task].state = "live" /\ task[x.task].text = x.text
  /\ \A t \in Tasks : task[t].state = "live" =>
       \/ \E x \in Open(s) : x.task = t
       \/ sync[s].pc # "maps" /\ \E m \in maps : m.task = t /\ Agreed(m)
Read(s) ==
  \A x \in sync[s].tasks : \A m \in maps \union sync[s].maps :
    m.task = x.task => (m \in maps <=> m \in sync[s].maps)
ToThrowAway(s) ==
  \A m \in maps :
    ~m.detached /\ note[m.note].state = "live" /\ task[m.task].state # "live" =>
      \/ m.deleted
      \/ m \in sync[s].missing
      \/ sync[s].pc = "trash" /\ \E c \in sync[s].at : c.note = m.note /\ c.task = m.task
CalmRun(s) ==
  /\ sync[s].pc # "idle" /\ \A r \in Syncs \ {s} : sync[r].pc = "idle"
  /\ sync[s].pc # "list" => ListsCurrent(s)
  /\ sync[s].pc \notin {"list", "maps"} => Read(s) /\ ToThrowAway(s)
  /\ sync[s].pc = "write" => \A c \in sync[s].at : c.map \in maps /\ note[c.map.note].text = c.text
  /\ sync[s].pc = "record" => \A c \in sync[s].at : task[c.task].state = "live"
CalmRunsInv ==
  /\ settled => InStep /\ \A s \in Syncs : sync[s].pc = "idle"
  /\ \A s \in Syncs : sync[s].calm => CalmRun(s)

\* A text of a note exists only once the note does.
Origin(u) == u.from = Microsoft \/ note[u.from].state # "none"
RunOrigins(s) ==
  /\ \A x \in Open(s) : Origin(x.text)
  /\ sync[s].pc = "write" => \A c \in sync[s].at : Origin(c.text)
OriginInv ==
  /\ \A n \in Notes : note[n].state # "none" => Origin(note[n].text)
  /\ \A t \in Tasks : Origin(task[t].text)
  /\ \A s \in Syncs : RunOrigins(s)
  /\ \A d \in Desks : \A v \in desk[d].text : Origin(v)

\* Until its export is recorded, a task knows no other text of the note than the one that
\* was exported, and neither does a note that it has been imported into.
SameText(u, n, v) == u.from = n => u = Outward(v)
RunPending(s, n, t, v) ==
  /\ \A m \in Known(s) : m.task = t => m.note # n
  /\ \A k \in maps, m \in Known(s) : k.task = t /\ m.note = k.note => m.task = t
  /\ \A x \in Open(s) : x.task = t => SameText(x.text, n, v)
  /\ sync[s].pc = "write" => \A c \in sync[s].at :
       c.map.task = t /\ task[t].state = "live" => SameText(Outward(c.text), n, v)
Pending(n, t, v) ==
  /\ SameText(task[t].text, n, v)
  /\ \A m \in maps : m.task = t => m.note # n /\ SameText(note[m.note].text, n, v)
  /\ \A s \in Syncs : RunPending(s, n, t, v)
PendingInv ==
  \A d \in Desks : desk[d].pc = "record" =>
    \A t \in desk[d].task :
      /\ \A n \in desk[d].note, v \in desk[d].text : Pending(n, t, v)
      /\ \A e \in Desks : desk[e].pc = "record" /\ t \in desk[e].task => e = d

\* A text of its own that a note finds in its task is the one whose hash is recorded.
Recorded(u, m) == u.from = m.note => u = m.external
Recording(m) ==
  \E s \in Syncs : sync[s].pc = "record" /\ \E c \in sync[s].at : c.note = m.note /\ c.task = m.task
RunEchoes(s) ==
  /\ \A x \in Open(s) : task[x.task].text = x.text \/ task[x.task].text.from = Microsoft
  /\ sync[s].pc = "maps" => \A m \in maps, x \in sync[s].tasks : x.task = m.task => Recorded(x.text, m)
  /\ \A m \in sync[s].maps, x \in sync[s].tasks : x.task = m.task => Recorded(x.text, m)
  /\ sync[s].pc = "write" => \A c \in sync[s].at : Recorded(c.task.text, c.map)
  /\ sync[s].pc = "record" => \A c \in sync[s].at : Recorded(task[c.task].text, c)
EchoInv ==
  ~interrupted =>
    /\ \A n \in Notes : note[n].text.cut => note[n].text.from # n
    /\ \A r, s \in Syncs : sync[r].pc # "idle" /\ sync[s].pc # "idle" => r = s
    /\ \A m \in maps : Recorded(task[m.task].text, m) \/ Recording(m)
    /\ \A s \in Syncs : RunEchoes(s)

-----------------------------------------------------------------------------
(* TodoSync: types *)

LEMMA TodoTypes ==
  ASSUME TodoTypeOK
  PROVE  /\ \A n \in Notes : /\ note[n].state \in {"none", "live", "trash", "gone"}
                             /\ note[n].text \in Text /\ note[n].at \in 1..MaxTime
         /\ \A t \in Tasks : /\ task[t].state \in {"none", "live", "gone"}
                             /\ task[t].text \in Text /\ task[t].at \in 1..MaxTime
         /\ \A s \in Syncs : /\ sync[s].tasks \in SUBSET Listed /\ sync[s].maps \in SUBSET Mapping
                             /\ sync[s].missing \in SUBSET Mapping
                             /\ sync[s].at \in SUBSET (Decision \union Mapping)
                             /\ sync[s].calm \in BOOLEAN
         /\ \A d \in Desks : /\ desk[d].note \in SUBSET Notes /\ desk[d].task \in SUBSET Tasks
                             /\ desk[d].text \in SUBSET Text
<1> USE DEF TodoTypeOK
<1>1. \A n \in Notes : note[n] \in NoteRow
  OBVIOUS
<1>2. \A t \in Tasks : task[t] \in TaskRow
  OBVIOUS
<1>3. \A s \in Syncs : sync[s] \in Run
  OBVIOUS
<1>4. \A d \in Desks : desk[d] \in DeskState
  OBVIOUS
<1> QED  BY <1>1, <1>2, <1>3, <1>4 DEF NoteRow, TaskRow, Run, DeskState

\* A run that another's step leaves alone, but for its calm.
Undisturbed(r) ==
  /\ sync'[r].pc = sync[r].pc /\ sync'[r].tasks = sync[r].tasks /\ sync'[r].maps = sync[r].maps
  /\ sync'[r].missing = sync[r].missing /\ sync'[r].at = sync[r].at
  /\ InHand(r)' = InHand(r) /\ Known(r)' = Known(r) /\ Open(r)' = Open(r)

LEMMA RunStaysPut ==
  ASSUME TodoTypeOK, NEW r \in Syncs,
         sync'[r] = sync[r] \/ sync'[r] = [sync[r] EXCEPT !.calm = FALSE]
  PROVE  /\ Undisturbed(r) /\ sync'[r] \in Run
         /\ sync'[r] = [sync[r] EXCEPT !.calm = FALSE] => sync'[r].calm = FALSE
<1>1. sync[r] \in Run
  BY DEF TodoTypeOK
<1>2. PICK old \in Run : old = sync[r]
  BY <1>1
<1>3. PICK new : new = sync'[r]
  OBVIOUS
<1>4. new = old \/ new = [old EXCEPT !.calm = FALSE]
  BY <1>2, <1>3
<1>5. new \in Run
  BY <1>4 DEF Run
<1>6. /\ new.pc = old.pc /\ new.tasks = old.tasks /\ new.maps = old.maps
      /\ new.missing = old.missing /\ new.at = old.at
  BY <1>4 DEF Run
<1>7. /\ sync'[r].pc = sync[r].pc /\ sync'[r].tasks = sync[r].tasks /\ sync'[r].maps = sync[r].maps
      /\ sync'[r].missing = sync[r].missing /\ sync'[r].at = sync[r].at
  BY <1>2, <1>3, <1>6
<1>9. sync'[r] = [sync[r] EXCEPT !.calm = FALSE] => sync'[r].calm = FALSE
  BY <1>2 DEF Run
<1>8. InHand(r)' = InHand(r) /\ AtHand(r)' = AtHand(r)
  BY <1>7 DEF InHand, AtHand
<1> QED  BY <1>3, <1>5, <1>7, <1>8, <1>9 DEF Undisturbed, Known, Open

\* What one run does leaves the others alone, but none of them calm.
LEMMA BecomeEffect ==
  ASSUME TodoTypeOK, NEW s \in Syncs, NEW run \in Run, Become(s, run)
  PROVE  /\ sync' \in [Syncs -> Run] /\ sync'[s] = run
         /\ \A r \in Syncs \ {s} : Undisturbed(r) /\ sync'[r].calm = FALSE
<1>1. \A r \in Syncs \ {s} : sync'[r] = [sync[r] EXCEPT !.calm = FALSE]
  BY DEF TodoTypeOK, Become, Disturbed
<1>2. sync'[s] = run
  BY DEF TodoTypeOK, Become, Disturbed
<1>3. \A r \in Syncs \ {s} : Undisturbed(r) /\ sync'[r] \in Run
  BY <1>1, RunStaysPut
<1>4. \A r \in Syncs \ {s} : sync'[r].calm = FALSE
  BY <1>1, RunStaysPut
<1>5. sync' = [r \in Syncs |-> sync'[r]]
  BY DEF Become, Disturbed
<1>6. sync' \in [Syncs -> Run]
  BY <1>2, <1>3, <1>5
<1> QED  BY <1>2, <1>3, <1>4, <1>6

LEMMA DisturbEffect ==
  ASSUME TodoTypeOK, Disturb
  PROVE  /\ sync' \in [Syncs -> Run] /\ settled' = FALSE
         /\ \A r \in Syncs : Undisturbed(r) /\ sync'[r].calm = FALSE
<1>1. \A r \in Syncs : sync'[r] = [sync[r] EXCEPT !.calm = FALSE]
  BY SyncAssumption DEF TodoTypeOK, Disturb, Disturbed
<1>2. \A r \in Syncs : Undisturbed(r) /\ sync'[r] \in Run
  BY <1>1, RunStaysPut
<1>3. \A r \in Syncs : sync'[r].calm = FALSE
  BY <1>1, RunStaysPut
<1>4. sync' = [r \in Syncs |-> sync'[r]]
  BY DEF Disturb, Disturbed
<1>5. sync' \in [Syncs -> Run]
  BY <1>2, <1>4
<1> QED  BY <1>2, <1>3, <1>5 DEF Disturb

LEMMA SyncUnchanged ==
  ASSUME TodoTypeOK, UNCHANGED sync
  PROVE  /\ sync' \in [Syncs -> Run]
         /\ \A r \in Syncs : Undisturbed(r) /\ sync'[r].calm = sync[r].calm
<1>1. sync' \in [Syncs -> Run]
  BY DEF TodoTypeOK
<1> QED  BY <1>1, RunStaysPut

LEMMA OutwardText ==
  ASSUME NEW u \in Text
  PROVE  /\ Outward(u) \in Text /\ Outward(u).id = u.id /\ Outward(u).from = u.from
         /\ Outward(u).cut = TRUE /\ Outward(Outward(u)) = Outward(u)
BY DEF Outward, Text

LEMMA MapFields ==
  ASSUME NEW n \in Notes, NEW t \in Tasks, NEW u \in Text, NEW v \in Text
  PROVE  /\ Map(n, t, u, v) \in Mapping
         /\ Map(n, t, u, v).note = n /\ Map(n, t, u, v).task = t
         /\ Map(n, t, u, v).local = u /\ Map(n, t, u, v).external = v
         /\ Map(n, t, u, v).detached = FALSE /\ Map(n, t, u, v).deleted = FALSE
BY DEF Map, Mapping

LEMMA NextTime ==
  ASSUME TodoTypeOK, Tick
  PROVE  Now \in 1..MaxTime /\ time' = Now
BY SyncAssumption DEF TodoTypeOK, Tick, InTime, Now

\* What a run has in hand fits its place.
AtFits(s) ==
  /\ sync[s].pc = "write" => \E c \in sync[s].at : c \in Decision /\ sync[s].at = {c}
  /\ sync[s].pc \in {"record", "trash"} => \E c \in sync[s].at : c \in Mapping /\ sync[s].at = {c}

LEMMA UndisturbedFits ==
  ASSUME TodoTypeOK, NEW r \in Syncs, Undisturbed(r)
  PROVE  AtFits(r)'
BY DEF TodoTypeOK, Undisturbed, AtFits

AllDisturbed ==
  /\ settled' = FALSE
  /\ \A r \in Syncs : Undisturbed(r) /\ sync'[r].calm = FALSE

\* Every step of the user or of a desk that changes something disturbs all runs.
LEMMA DisturbTypes ==
  ASSUME TodoTypeOK, Disturb, NEW n1, note' = n1, n1 \in [Notes -> NoteRow],
         NEW t1, task' = t1, t1 \in [Tasks -> TaskRow],
         NEW m1, maps' = m1, m1 \subseteq Mapping,
         \A k, m \in m1 : k.note = m.note \/ k.task = m.task => k = m,
         NEW d1, desk' = d1, d1 \in [Desks -> DeskState],
         time' \in 1..MaxTime, interrupted' \in BOOLEAN, crossed' \in BOOLEAN
  PROVE  TodoTypeOK' /\ AllDisturbed
<1>1. /\ sync' \in [Syncs -> Run] /\ settled' = FALSE
      /\ \A r \in Syncs : Undisturbed(r) /\ sync'[r].calm = FALSE
  BY DisturbEffect
<1>2. \A r \in Syncs : AtFits(r)'
  BY <1>1, UndisturbedFits
<1> QED  BY <1>1, <1>2 DEF TodoTypeOK, AllDisturbed, AtFits

LEMMA NoteWritten ==
  ASSUME TodoTypeOK, NEW n \in Notes, WriteNote(n)
  PROVE  /\ TodoTypeOK' /\ AllDisturbed
         /\ UNCHANGED <<task, maps, desk, interrupted, crossed>>
         /\ note[n].state \in {"none", "live"} /\ note'[n].state = "live"
         /\ note'[n].text.from = n /\ note'[n].text.cut = FALSE
         /\ \A k \in Notes \ {n} : note'[k] = note[k]
<1>1. PICK new : new = [state |-> "live", text |-> [id |-> Now, from |-> n, cut |-> FALSE],
                        at |-> Now, by |-> "user"]
  OBVIOUS
<1>2. Now \in 1..MaxTime /\ time' = Now
  BY NextTime DEF WriteNote
<1>3. new \in NoteRow
  BY <1>1, <1>2 DEF NoteRow, Text
<1>4. note' = [note EXCEPT ![n] = new] /\ note \in [Notes -> NoteRow]
  BY <1>1 DEF WriteNote, TodoTypeOK
<1>5. note' \in [Notes -> NoteRow] /\ note'[n] = new /\ \A k \in Notes \ {n} : note'[k] = note[k]
  BY <1>3, <1>4
<1>6. TodoTypeOK' /\ AllDisturbed
  BY <1>2, <1>5, DisturbTypes DEF WriteNote, TodoTypeOK
<1> QED  BY <1>1, <1>5, <1>6 DEF WriteNote

LEMMA NoteMoved ==
  ASSUME TodoTypeOK, NEW n \in Notes, NEW from \in {"live", "trash"}, NEW to \in {"live", "trash"},
         MoveNote(n, from, to)
  PROVE  /\ TodoTypeOK' /\ AllDisturbed
         /\ UNCHANGED <<task, maps, desk, interrupted, crossed>>
         /\ note[n].state = from /\ note'[n].state = to /\ note'[n].text = note[n].text
         /\ \A k \in Notes \ {n} : note'[k] = note[k]
<1>0. PICK old \in NoteRow : old = note[n]
  BY DEF TodoTypeOK
<1>1. PICK new : new = [old EXCEPT !.state = to, !.at = Now, !.by = "user"]
  OBVIOUS
<1>2. Now \in 1..MaxTime /\ time' = Now
  BY NextTime DEF MoveNote
<1>3. new \in NoteRow /\ new.state = to /\ new.text = old.text
  BY <1>1, <1>2 DEF NoteRow
<1>4. note' = [note EXCEPT ![n] = new] /\ note \in [Notes -> NoteRow]
  BY <1>0, <1>1 DEF MoveNote, TodoTypeOK
<1>5. note' \in [Notes -> NoteRow] /\ note'[n] = new /\ \A k \in Notes \ {n} : note'[k] = note[k]
  BY <1>3, <1>4
<1>6. TodoTypeOK' /\ AllDisturbed
  BY <1>2, <1>5, DisturbTypes DEF MoveNote, TodoTypeOK
<1> QED  BY <1>0, <1>3, <1>5, <1>6 DEF MoveNote

LEMMA TaskWritten ==
  ASSUME TodoTypeOK, NEW t \in Tasks, WriteTask(t)
  PROVE  /\ TodoTypeOK' /\ AllDisturbed
         /\ UNCHANGED <<note, maps, desk, interrupted, crossed>>
         /\ task[t].state \in {"none", "live"} /\ task'[t].state = "live"
         /\ task'[t].text.from = Microsoft
         /\ \A u \in Tasks \ {t} : task'[u] = task[u]
<1>1. PICK new : new = [state |-> "live", text |-> [id |-> Now, from |-> Microsoft, cut |-> TRUE],
                        at |-> Now]
  OBVIOUS
<1>2. Now \in 1..MaxTime /\ time' = Now
  BY NextTime DEF WriteTask
<1>3. new \in TaskRow
  BY <1>1, <1>2 DEF TaskRow, Text
<1>4. task' = [task EXCEPT ![t] = new] /\ task \in [Tasks -> TaskRow]
  BY <1>1 DEF WriteTask, TodoTypeOK
<1>5. task' \in [Tasks -> TaskRow] /\ task'[t] = new /\ \A u \in Tasks \ {t} : task'[u] = task[u]
  BY <1>3, <1>4
<1>6. TodoTypeOK' /\ AllDisturbed
  BY <1>2, <1>5, DisturbTypes DEF WriteTask, TodoTypeOK
<1> QED  BY <1>1, <1>5, <1>6 DEF WriteTask

LEMMA TaskDeleted ==
  ASSUME TodoTypeOK, NEW t \in Tasks, DeleteTask(t)
  PROVE  /\ TodoTypeOK' /\ AllDisturbed
         /\ UNCHANGED <<note, maps, desk, interrupted, crossed>>
         /\ task[t].state = "live" /\ task'[t].state = "gone" /\ task'[t].text = task[t].text
         /\ \A u \in Tasks \ {t} : task'[u] = task[u]
<1>0. PICK old \in TaskRow : old = task[t]
  BY DEF TodoTypeOK
<1>1. PICK new : new = [old EXCEPT !.state = "gone"]
  OBVIOUS
<1>2. new \in TaskRow /\ new.state = "gone" /\ new.text = old.text
  BY <1>1 DEF TaskRow
<1>3. task' = [task EXCEPT ![t] = new] /\ task \in [Tasks -> TaskRow]
  BY <1>0, <1>1 DEF DeleteTask, TodoTypeOK
<1>4. task' \in [Tasks -> TaskRow] /\ task'[t] = new /\ \A u \in Tasks \ {t} : task'[u] = task[u]
  BY <1>2, <1>3
<1>5. TodoTypeOK' /\ AllDisturbed
  BY <1>4, DisturbTypes DEF DeleteTask, TodoTypeOK
<1> QED  BY <1>0, <1>2, <1>4, <1>5 DEF DeleteTask

\* A step of a desk that changes nothing else.
DeskOnly == UNCHANGED <<note, task, maps, sync, time, settled, interrupted, crossed>>

LEMMA DeskOnlyTypes ==
  ASSUME TodoTypeOK, DeskOnly, desk' \in [Desks -> DeskState]
  PROVE  TodoTypeOK' /\ \A r \in Syncs : Undisturbed(r) /\ sync'[r].calm = sync[r].calm
<1>1. \A r \in Syncs : Undisturbed(r) /\ sync'[r].calm = sync[r].calm
  BY SyncUnchanged DEF DeskOnly
<1> QED  BY <1>1 DEF TodoTypeOK, DeskOnly

LEMMA DeskSet ==
  ASSUME TodoTypeOK, NEW d \in Desks, NEW new \in DeskState, desk' = [desk EXCEPT ![d] = new]
  PROVE  /\ desk' \in [Desks -> DeskState] /\ desk'[d] = new
         /\ \A e \in Desks \ {d} : desk'[e] = desk[e]
BY DEF TodoTypeOK

LEMMA DeskEmptied ==
  ASSUME TodoTypeOK, NEW d \in Desks, Leave(d)
  PROVE  /\ desk' \in [Desks -> DeskState]
         /\ desk'[d].pc = "idle" /\ desk'[d].note = {} /\ desk'[d].task = {} /\ desk'[d].text = {}
         /\ \A e \in Desks \ {d} : desk'[e] = desk[e]
<1>1. PICK new : new = NoDesk
  OBVIOUS
<1>2. /\ new \in DeskState
      /\ new.pc = "idle" /\ new.note = {} /\ new.task = {} /\ new.text = {}
  BY <1>1 DEF NoDesk, DeskState
<1> QED  BY <1>1, <1>2, DeskSet DEF Leave

LEMMA DeskSits ==
  ASSUME TodoTypeOK, NEW d \in Desks, NEW pc \in {"undo", "forget", "purge"}, Sit(d, pc)
  PROVE  /\ desk' \in [Desks -> DeskState]
         /\ desk'[d].pc = pc /\ desk'[d].note = desk[d].note
         /\ desk'[d].task = desk[d].task /\ desk'[d].text = desk[d].text
         /\ \A e \in Desks \ {d} : desk'[e] = desk[e]
<1>1. PICK old \in DeskState : old = desk[d]
  BY DEF TodoTypeOK
<1>2. PICK new : new = [old EXCEPT !.pc = pc]
  OBVIOUS
<1>3. /\ new \in DeskState /\ new.pc = pc /\ new.note = old.note /\ new.task = old.task
      /\ new.text = old.text
  BY <1>2 DEF DeskState
<1>4. desk' = [desk EXCEPT ![d] = new]
  BY <1>1, <1>2 DEF Sit
<1> QED  BY <1>1, <1>3, <1>4, DeskSet

LEMMA ExportStarted ==
  ASSUME TodoTypeOK, NEW d \in Desks, NEW n \in Notes, StartExport(d, n)
  PROVE  /\ TodoTypeOK' /\ DeskOnly
         /\ note[n].state = "live"
         /\ desk'[d].pc = "create" /\ desk'[d].note = {n} /\ desk'[d].task = {}
         /\ desk'[d].text = {note[n].text}
         /\ \A e \in Desks \ {d} : desk'[e] = desk[e]
<1>1. note[n].text \in Text
  BY TodoTypes
<1>2. PICK new : new = [pc |-> "create", note |-> {n}, task |-> {}, text |-> {note[n].text}]
  OBVIOUS
<1>3. new \in DeskState
  BY <1>1, <1>2 DEF DeskState
<1>4. DeskOnly /\ desk' = [desk EXCEPT ![d] = new]
  BY <1>2 DEF StartExport, DeskOnly
<1>5. /\ desk' \in [Desks -> DeskState] /\ desk'[d] = new
      /\ \A e \in Desks \ {d} : desk'[e] = desk[e]
  BY <1>3, <1>4, DeskSet
<1> QED  BY <1>2, <1>4, <1>5, DeskOnlyTypes DEF StartExport

LEMMA PurgeStarted ==
  ASSUME TodoTypeOK, NEW d \in Desks, NEW n \in Notes, NEW external \in BOOLEAN,
         StartPurge(d, n, external)
  PROVE  /\ TodoTypeOK' /\ DeskOnly
         /\ note[n].state # "none"
         /\ desk'[d].pc \in {"purge", "unlink", "detach"} /\ desk'[d].note = {n}
         /\ desk'[d].task = {m.task : m \in MapsOf(n)} /\ desk'[d].text = {}
         /\ \A e \in Desks \ {d} : desk'[e] = desk[e]
<1>1. PICK new : new = [pc |-> IF MapsOf(n) = {} THEN "purge"
               ELSE IF external /\ \A m \in MapsOf(n) : ~m.deleted /\ ~m.detached
                    THEN "unlink" ELSE "detach",
        note |-> {n}, task |-> {m.task : m \in MapsOf(n)}, text |-> {}]
  OBVIOUS
<1>2. {m.task : m \in MapsOf(n)} \in SUBSET Tasks
  BY DEF TodoTypeOK, MapsOf, Mapping
<1>3. new \in DeskState /\ new.pc \in {"purge", "unlink", "detach"}
  BY <1>1, <1>2 DEF DeskState
<1>4. DeskOnly /\ desk' = [desk EXCEPT ![d] = new]
  BY <1>1 DEF StartPurge, DeskOnly
<1>5. /\ desk' \in [Desks -> DeskState] /\ desk'[d] = new
      /\ \A e \in Desks \ {d} : desk'[e] = desk[e]
  BY <1>3, <1>4, DeskSet
<1> QED  BY <1>1, <1>3, <1>4, <1>5, DeskOnlyTypes DEF StartPurge

LEMMA DeskStopped ==
  ASSUME TodoTypeOK, NEW d \in Desks, DeskStops(d)
  PROVE  /\ TodoTypeOK' /\ DeskOnly
         /\ desk'[d].pc = "idle" /\ desk'[d].note = {} /\ desk'[d].task = {} /\ desk'[d].text = {}
         /\ \A e \in Desks \ {d} : desk'[e] = desk[e]
<1>1. DeskOnly /\ Leave(d)
  BY DEF DeskStops, DeskOnly
<1> QED  BY <1>1, DeskEmptied, DeskOnlyTypes

LEMMA TaskCreated ==
  ASSUME TodoTypeOK, NEW d \in Desks, NEW t \in Tasks, CreateTask(d, t)
  PROVE  /\ TodoTypeOK' /\ AllDisturbed
         /\ UNCHANGED <<note, maps, interrupted, crossed>>
         /\ desk[d].pc = "create" /\ task[t].state = "none" /\ task'[t].state = "live"
         /\ \E v \in desk[d].text : task'[t].text = Outward(v)
         /\ \A u \in Tasks \ {t} : task'[u] = task[u]
         /\ desk'[d].pc = "record" /\ desk'[d].note = desk[d].note /\ desk'[d].task = {t}
         /\ desk'[d].text = desk[d].text
         /\ \A e \in Desks \ {d} : desk'[e] = desk[e]
<1>1. PICK v \in desk[d].text :
        task' = [task EXCEPT ![t] = [state |-> "live", text |-> Outward(v), at |-> Now]]
  BY DEF CreateTask
<1>2. v \in Text
  BY TodoTypes
<1>3. Now \in 1..MaxTime /\ time' = Now
  BY NextTime DEF CreateTask
<1>4. PICK new : new = [state |-> "live", text |-> Outward(v), at |-> Now]
  OBVIOUS
<1>5. new \in TaskRow
  BY <1>2, <1>3, <1>4, OutwardText DEF TaskRow
<1>6. task' = [task EXCEPT ![t] = new] /\ task \in [Tasks -> TaskRow]
  BY <1>1, <1>4 DEF TodoTypeOK
<1>7. task' \in [Tasks -> TaskRow] /\ task'[t] = new /\ \A u \in Tasks \ {t} : task'[u] = task[u]
  BY <1>5, <1>6
<1>8. PICK old \in DeskState : old = desk[d]
  BY DEF TodoTypeOK
<1>9. PICK sits : sits = [old EXCEPT !.pc = "record", !.task = {t}]
  OBVIOUS
<1>10. /\ sits \in DeskState /\ sits.pc = "record" /\ sits.note = old.note /\ sits.task = {t}
       /\ sits.text = old.text
  BY <1>9 DEF DeskState
<1>11. desk' = [desk EXCEPT ![d] = sits]
  BY <1>8, <1>9 DEF CreateTask, TodoTypeOK
<1>12. /\ desk' \in [Desks -> DeskState] /\ desk'[d] = sits
       /\ \A e \in Desks \ {d} : desk'[e] = desk[e]
  BY <1>10, <1>11, DeskSet
<1>13. TodoTypeOK' /\ AllDisturbed
  <2>1. /\ note' = note /\ note \in [Notes -> NoteRow] /\ maps' = maps /\ maps \subseteq Mapping
        /\ \A k, m \in maps : k.note = m.note \/ k.task = m.task => k = m
        /\ interrupted' \in BOOLEAN /\ crossed' \in BOOLEAN /\ Disturb
    BY DEF CreateTask, TodoTypeOK
  <2> QED  BY <1>3, <1>7, <1>12, <2>1, DisturbTypes
<1> QED  BY <1>1, <1>4, <1>7, <1>8, <1>10, <1>12, <1>13 DEF CreateTask

LEMMA ExportRecorded ==
  ASSUME TodoTypeOK, NEW d \in Desks, RecordExport(d)
  PROVE  /\ TodoTypeOK' /\ desk[d].pc = "record" /\ UNCHANGED <<note, task, interrupted>>
         /\ \A e \in Desks \ {d} : desk'[e] = desk[e]
         /\ \/ /\ DeskOnly /\ desk'[d].pc = "undo" /\ desk'[d].note = desk[d].note
               /\ desk'[d].task = desk[d].task /\ desk'[d].text = desk[d].text
            \/ /\ AllDisturbed
               /\ desk'[d].pc = "idle" /\ desk'[d].note = {} /\ desk'[d].task = {} /\ desk'[d].text = {}
               /\ crossed' = (crossed \/ \E r \in Syncs : sync[r].pc = "maps")
               /\ \E n \in desk[d].note, t \in desk[d].task, v \in desk[d].text :
                    /\ \A m \in maps : m.note # n /\ m.task # t
                    /\ maps' = maps \union {Map(n, t, v, Outward(v))}
<1>0. PICK n \in desk[d].note, t \in desk[d].task, v \in desk[d].text :
       IF \E m \in maps : m.note = n \/ m.task = t
         THEN Sit(d, "undo") /\ UNCHANGED <<maps, sync, settled, crossed>>
         ELSE /\ Leave(d)
              /\ maps' = maps \union {Map(n, t, v, Outward(v))}
              /\ Disturb
              /\ Crosses("other")
  BY DEF RecordExport
<1>1. n \in Notes /\ t \in Tasks /\ v \in Text
  BY TodoTypes
<1>2. CASE \E m \in maps : m.note = n \/ m.task = t
  <2>1. DeskOnly /\ Sit(d, "undo")
    BY <1>0, <1>2 DEF RecordExport, DeskOnly
  <2>2. TodoTypeOK'
    BY <2>1, DeskSits, DeskOnlyTypes
  <2> QED  BY <2>1, <2>2, DeskSits DEF RecordExport
<1>3. CASE ~\E m \in maps : m.note = n \/ m.task = t
  <2>1. /\ Leave(d) /\ maps' = maps \union {Map(n, t, v, Outward(v))} /\ Disturb
        /\ Crosses("other")
    BY <1>0, <1>3
  <2>2. PICK new \in Mapping : new = Map(n, t, v, Outward(v)) /\ new.note = n /\ new.task = t
    <3>1. PICK w \in Text : w = Outward(v)
      BY <1>1, OutwardText
    <3>2. PICK new : new = Map(n, t, v, w)
      OBVIOUS
    <3>3. n \in Notes /\ t \in Tasks /\ v \in Text
      BY <1>1
    <3>4. new \in Mapping /\ new.note = n /\ new.task = t
      BY <3>1, <3>2, <3>3 DEF Map, Mapping
    <3> QED  BY <3>1, <3>2, <3>4
  <2>3. crossed' = (crossed \/ \E r \in Syncs : sync[r].pc = "maps")
    BY <2>1, SyncAssumption DEF Crosses
  <2>4. PICK m1 : m1 = maps \union {new}
    OBVIOUS
  <2>5. m1 \subseteq Mapping /\ \A k, m \in m1 : k.note = m.note \/ k.task = m.task => k = m
    BY <1>3, <2>2, <2>4 DEF TodoTypeOK
  <2>6. TodoTypeOK' /\ AllDisturbed
    <3>1. /\ note' = note /\ note \in [Notes -> NoteRow] /\ task' = task /\ task \in [Tasks -> TaskRow]
          /\ time' \in 1..MaxTime /\ interrupted' \in BOOLEAN /\ crossed' \in BOOLEAN
      BY <2>3 DEF RecordExport, TodoTypeOK
    <3> QED  BY <2>1, <2>2, <2>4, <2>5, <3>1, DeskEmptied, DisturbTypes
  <2> QED  BY <1>3, <2>1, <2>3, <2>6, DeskEmptied DEF RecordExport
<1> QED  BY <1>2, <1>3

LEMMA TasksRemoved ==
  ASSUME TodoTypeOK, NEW d \in Desks, UndoExport(d) \/ Unlink(d)
  PROVE  /\ TodoTypeOK' /\ AllDisturbed
         /\ UNCHANGED <<note, maps, interrupted, crossed>>
         /\ \A t \in Tasks :
              /\ task'[t].text = task[t].text
              /\ task'[t].state = IF t \in desk[d].task THEN "gone" ELSE task[t].state
         /\ \A e \in Desks \ {d} : desk'[e] = desk[e]
         /\ \/ desk'[d].pc = "idle" /\ desk'[d].note = {} /\ desk'[d].task = {} /\ desk'[d].text = {}
            \/ /\ desk'[d].pc = "forget" /\ desk'[d].note = desk[d].note
               /\ desk'[d].task = desk[d].task /\ desk'[d].text = desk[d].text
<1>1. task' = [t \in Tasks |-> IF t \in desk[d].task THEN [task[t] EXCEPT !.state = "gone"]
                                                     ELSE task[t]]
  BY DEF UndoExport, Unlink, RemoveTasks
<1>2. ASSUME NEW t \in Tasks
      PROVE  /\ task'[t] \in TaskRow /\ task'[t].text = task[t].text
             /\ task'[t].state = IF t \in desk[d].task THEN "gone" ELSE task[t].state
  <2>1. PICK old \in TaskRow : old = task[t]
    BY DEF TodoTypeOK
  <2>2. task'[t] = IF t \in desk[d].task THEN [old EXCEPT !.state = "gone"] ELSE old
    BY <1>1, <2>1
  <2>3. PICK new : new = [old EXCEPT !.state = "gone"]
    OBVIOUS
  <2>4. new \in TaskRow /\ new.text = old.text /\ new.state = "gone"
    BY <2>3 DEF TaskRow
  <2> QED  BY <2>1, <2>2, <2>3, <2>4
<1>3. PICK t1 \in [Tasks -> TaskRow] : t1 = task'
  BY <1>1, <1>2
<1>4. /\ desk' \in [Desks -> DeskState] /\ \A e \in Desks \ {d} : desk'[e] = desk[e]
      /\ \/ desk'[d].pc = "idle" /\ desk'[d].note = {} /\ desk'[d].task = {} /\ desk'[d].text = {}
         \/ /\ desk'[d].pc = "forget" /\ desk'[d].note = desk[d].note
            /\ desk'[d].task = desk[d].task /\ desk'[d].text = desk[d].text
  <2>1. CASE UndoExport(d)
    BY <2>1, DeskEmptied DEF UndoExport
  <2>2. CASE Unlink(d)
    BY <2>2, DeskSits DEF Unlink
  <2> QED  BY <2>1, <2>2
<1>5. TodoTypeOK' /\ AllDisturbed
  <2>1. /\ note' = note /\ note \in [Notes -> NoteRow] /\ maps' = maps /\ maps \subseteq Mapping
        /\ \A k, m \in maps : k.note = m.note \/ k.task = m.task => k = m
        /\ time' \in 1..MaxTime /\ interrupted' \in BOOLEAN /\ crossed' \in BOOLEAN /\ Disturb
    BY DEF UndoExport, Unlink, TodoTypeOK
  <2> QED  BY <1>3, <1>4, <2>1, DisturbTypes
<1> QED  BY <1>2, <1>4, <1>5 DEF UndoExport, Unlink

LEMMA MappingEnded ==
  ASSUME TodoTypeOK, NEW d \in Desks, EndMapping(d)
  PROVE  /\ TodoTypeOK' /\ AllDisturbed
         /\ UNCHANGED <<note, task, interrupted, crossed>>
         /\ desk'[d].pc = "purge" /\ desk'[d].note = desk[d].note
         /\ desk'[d].task = desk[d].task /\ desk'[d].text = desk[d].text
         /\ \A e \in Desks \ {d} : desk'[e] = desk[e]
         /\ \E m \in maps :
              \/ desk[d].pc = "forget" /\ m.task \in desk[d].task /\ maps' = maps \ {m}
              \/ \E k \in Mapping :
                   /\ k.note = m.note /\ k.task = m.task /\ k.local = m.local
                   /\ k.external = m.external /\ k.deleted = m.deleted
                   /\ maps' = (maps \ {m}) \union {k}
<1>1. PICK m \in maps :
        /\ m.task \in desk[d].task
        /\ maps' = (maps \ {m}) \union
             (IF desk[d].pc = "detach" THEN {[m EXCEPT !.detached = TRUE]} ELSE {})
  BY DEF EndMapping, MapsOf
<1>2. m \in Mapping
  BY DEF TodoTypeOK
<1>3. PICK k : k = [m EXCEPT !.detached = TRUE]
  OBVIOUS
<1>4. /\ k \in Mapping /\ k.note = m.note /\ k.task = m.task /\ k.local = m.local
      /\ k.external = m.external /\ k.deleted = m.deleted
  BY <1>2, <1>3 DEF Mapping
<1>5. \/ desk[d].pc = "forget" /\ maps' = maps \ {m}
      \/ maps' = (maps \ {m}) \union {k}
  BY <1>1, <1>3 DEF EndMapping
<1>6. maps' \subseteq Mapping /\ \A h, j \in maps' : h.note = j.note \/ h.task = j.task => h = j
  BY <1>4, <1>5 DEF TodoTypeOK
<1>7. PICK m1 : m1 = maps'
  OBVIOUS
<1>8. TodoTypeOK' /\ AllDisturbed
  <2>1. /\ note' = note /\ note \in [Notes -> NoteRow] /\ task' = task /\ task \in [Tasks -> TaskRow]
        /\ time' \in 1..MaxTime /\ interrupted' \in BOOLEAN /\ crossed' \in BOOLEAN
        /\ Disturb /\ Sit(d, "purge")
    BY DEF EndMapping, TodoTypeOK
  <2>2. m1 \subseteq Mapping /\ \A h, j \in m1 : h.note = j.note \/ h.task = j.task => h = j
    BY <1>6, <1>7
  <2> QED  BY <1>7, <2>1, <2>2, DeskSits, DisturbTypes
<1>9. Sit(d, "purge") /\ UNCHANGED <<note, task, interrupted, crossed>>
  BY DEF EndMapping
<1> QED  BY <1>1, <1>4, <1>5, <1>8, <1>9, DeskSits

LEMMA NotePurged ==
  ASSUME TodoTypeOK, NEW d \in Desks, Purge(d)
  PROVE  /\ TodoTypeOK' /\ AllDisturbed
         /\ UNCHANGED <<task, maps, interrupted, crossed>>
         /\ desk'[d].pc = "idle" /\ desk'[d].note = {} /\ desk'[d].task = {} /\ desk'[d].text = {}
         /\ \A e \in Desks \ {d} : desk'[e] = desk[e]
         /\ \A n \in Notes : /\ note'[n].text = note[n].text
                             /\ note[n].state # "none" => note'[n].state # "none"
                             /\ note'[n].state # "none" => note[n].state # "none"
<1>1. PICK n \in desk[d].note : note[n].state = "trash" /\ note' = [note EXCEPT ![n].state = "gone"]
  BY DEF Purge
<1>2. n \in Notes
  BY TodoTypes
<1>3. PICK old \in NoteRow : old = note[n]
  BY <1>2 DEF TodoTypeOK
<1>4. PICK new : new = [old EXCEPT !.state = "gone"]
  OBVIOUS
<1>5. new \in NoteRow /\ new.state = "gone" /\ new.text = old.text
  BY <1>4 DEF NoteRow
<1>6. note' = [note EXCEPT ![n] = new] /\ note \in [Notes -> NoteRow]
  BY <1>1, <1>3, <1>4 DEF TodoTypeOK
<1>7. note' \in [Notes -> NoteRow] /\ note'[n] = new /\ \A k \in Notes \ {n} : note'[k] = note[k]
  BY <1>2, <1>5, <1>6
<1>8. /\ Disturb /\ Leave(d) /\ UNCHANGED <<task, maps, time, interrupted, crossed>>
  BY DEF Purge
<1>9. /\ desk' \in [Desks -> DeskState] /\ desk'[d].pc = "idle" /\ desk'[d].note = {}
      /\ desk'[d].task = {} /\ desk'[d].text = {} /\ \A e \in Desks \ {d} : desk'[e] = desk[e]
  BY <1>8, DeskEmptied
<1>10. /\ task' \in [Tasks -> TaskRow] /\ maps' \subseteq Mapping
       /\ \A k, m \in maps' : k.note = m.note \/ k.task = m.task => k = m
       /\ time' \in 1..MaxTime /\ interrupted' \in BOOLEAN /\ crossed' \in BOOLEAN
  BY <1>8 DEF TodoTypeOK
<1>11. TodoTypeOK' /\ AllDisturbed
  BY <1>7, <1>8, <1>9, <1>10, DisturbTypes
<1> QED  BY <1>1, <1>3, <1>5, <1>7, <1>8, <1>9, <1>11

\* What a step of s leaves alone of the other runs, but perhaps not their calm.
Others(s) ==
  \A r \in Syncs \ {s} :
    Undisturbed(r) /\ (sync'[r].calm = FALSE \/ sync'[r].calm = sync[r].calm)

RunFits(run) ==
  /\ run.pc = "write" => \E c \in run.at : c \in Decision /\ run.at = {c}
  /\ run.pc \in {"record", "trash"} => \E c \in run.at : c \in Mapping /\ run.at = {c}

LEMMA RunSet ==
  ASSUME TodoTypeOK, NEW s \in Syncs, NEW run \in Run, RunFits(run),
         Become(s, run) \/ sync' = [sync EXCEPT ![s] = run]
  PROVE  /\ sync' \in [Syncs -> Run] /\ sync'[s] = run /\ Others(s)
         /\ Become(s, run) => \A r \in Syncs \ {s} : sync'[r].calm = FALSE
         /\ \A r \in Syncs : AtFits(r)'
<1>1. CASE Become(s, run)
  <2>1. /\ sync' \in [Syncs -> Run] /\ sync'[s] = run
        /\ \A r \in Syncs \ {s} : Undisturbed(r) /\ sync'[r].calm = FALSE
    BY <1>1, BecomeEffect
  <2>2. \A r \in Syncs \ {s} : AtFits(r)'
    BY <2>1, UndisturbedFits
  <2>3. AtFits(s)'
    BY <2>1 DEF AtFits, RunFits
  <2> QED  BY <2>1, <2>2, <2>3 DEF Others
<1>2. CASE sync' = [sync EXCEPT ![s] = run] /\ ~Become(s, run)
  <2>1. /\ sync' \in [Syncs -> Run] /\ sync'[s] = run
        /\ \A r \in Syncs \ {s} : sync'[r] = sync[r]
    BY <1>2 DEF TodoTypeOK
  <2>2. \A r \in Syncs \ {s} : Undisturbed(r) /\ sync'[r].calm = sync[r].calm
    BY <2>1, RunStaysPut
  <2>3. \A r \in Syncs \ {s} : AtFits(r)'
    BY <2>2, UndisturbedFits
  <2>4. AtFits(s)'
    BY <2>1 DEF AtFits, RunFits
  <2> QED  BY <1>2, <2>1, <2>2, <2>3, <2>4 DEF Others
<1> QED  BY <1>1, <1>2

LEMMA RunTypes ==
  ASSUME TodoTypeOK, NEW s \in Syncs, NEW run \in Run, RunFits(run),
         Become(s, run) \/ sync' = [sync EXCEPT ![s] = run],
         NEW n1, note' = n1, n1 \in [Notes -> NoteRow],
         NEW t1, task' = t1, t1 \in [Tasks -> TaskRow],
         NEW m1, maps' = m1, m1 \subseteq Mapping,
         \A k, m \in m1 : k.note = m.note \/ k.task = m.task => k = m,
         UNCHANGED desk, time' \in 1..MaxTime,
         settled' \in BOOLEAN, interrupted' \in BOOLEAN, crossed' \in BOOLEAN
  PROVE  TodoTypeOK' /\ sync'[s] = run /\ Others(s)
<1>1. /\ sync' \in [Syncs -> Run] /\ sync'[s] = run /\ Others(s)
      /\ \A r \in Syncs : AtFits(r)'
  BY RunSet
<1> QED  BY <1>1 DEF TodoTypeOK, AtFits

LEMMA RunOnlyTypes ==
  ASSUME TodoTypeOK, NEW s \in Syncs, NEW run \in Run, RunFits(run),
         Become(s, run) \/ sync' = [sync EXCEPT ![s] = run],
         UNCHANGED <<note, task, maps, desk, time, crossed>>,
         settled' \in BOOLEAN, interrupted' \in BOOLEAN
  PROVE  TodoTypeOK' /\ sync'[s] = run /\ Others(s)
<1>1. /\ sync' \in [Syncs -> Run] /\ sync'[s] = run /\ Others(s)
      /\ \A r \in Syncs : AtFits(r)'
  BY RunSet
<1> QED  BY <1>1 DEF TodoTypeOK, AtFits

\* The fields of a run.
RunFields(s, pc, tasks, mappings, missing, at) ==
  /\ sync'[s].pc = pc /\ sync'[s].tasks = tasks /\ sync'[s].maps = mappings
  /\ sync'[s].missing = missing /\ sync'[s].at = at

LEMMA RunStarted ==
  ASSUME TodoTypeOK, NEW s \in Syncs, StartSync(s)
  PROVE  /\ TodoTypeOK' /\ Others(s) /\ settled' = FALSE
         /\ UNCHANGED <<note, task, maps, desk, time, crossed>>
         /\ sync[s].pc = "idle" /\ RunFields(s, "list", {}, {}, {}, {})
         /\ sync'[s].calm => \A r \in Syncs : sync[r].pc = "idle"
         /\ \A r \in Syncs \ {s} : sync'[r].calm = FALSE
         /\ ~interrupted' => ~interrupted /\ \A r \in Syncs : sync[r].pc = "idle"
<1>1. PICK alone \in BOOLEAN : alone = \A r \in Syncs : sync[r].pc = "idle"
  OBVIOUS
<1>2. PICK base : base = NoSync
  OBVIOUS
<1>3. /\ base \in Run /\ base.tasks = {} /\ base.maps = {} /\ base.missing = {} /\ base.at = {}
  BY <1>2 DEF NoSync, Run
<1>4. PICK run : run = [base EXCEPT !.pc = "list", !.calm = alone]
  OBVIOUS
<1>10. /\ run \in Run /\ run.pc = "list" /\ run.tasks = {} /\ run.maps = {} /\ run.missing = {}
       /\ run.at = {} /\ run.calm = alone
  BY <1>3, <1>4 DEF Run
<1>11. RunFits(run)
  BY <1>10 DEF RunFits
<1>5. /\ sync[s].pc = "idle" /\ Become(s, run) /\ interrupted' = (interrupted \/ ~alone)
      /\ settled' = FALSE /\ UNCHANGED <<note, task, maps, desk, time, crossed>>
  BY <1>1, <1>2, <1>4 DEF StartSync
<1>6. settled' \in BOOLEAN /\ interrupted' \in BOOLEAN
  BY <1>5 DEF TodoTypeOK
<1>7. TodoTypeOK' /\ sync'[s] = run /\ Others(s)
  BY <1>5, <1>6, <1>10, <1>11, RunOnlyTypes
<1>8. \A r \in Syncs \ {s} : sync'[r].calm = FALSE
  BY <1>5, <1>10, <1>11, RunSet
<1>9. RunFields(s, "list", {}, {}, {}, {}) /\ sync'[s].calm = alone
  BY <1>7, <1>10 DEF RunFields
<1> QED  BY <1>1, <1>5, <1>7, <1>8, <1>9

LEMMA TasksListed ==
  ASSUME TodoTypeOK, NEW s \in Syncs, ListTasks(s)
  PROVE  /\ TodoTypeOK' /\ Others(s)
         /\ UNCHANGED <<note, task, maps, desk, time, settled, interrupted, crossed>>
         /\ sync[s].pc = "list" /\ sync'[s].calm = sync[s].calm
         /\ RunFields(s, "maps", {[task |-> t, text |-> task[t].text, at |-> task[t].at] :
                                    t \in {u \in Tasks : task[u].state = "live"}},
                      sync[s].maps, sync[s].missing, sync[s].at)
         /\ \A x \in sync'[s].tasks : /\ x.task \in Tasks /\ task[x.task].state = "live"
                                      /\ x.text = task[x.task].text
         /\ \A t \in Tasks : task[t].state = "live" => \E x \in sync'[s].tasks : x.task = t
         /\ \A x, y \in sync'[s].tasks : x.task = y.task => x = y
<1>1. PICK old \in Run : old = sync[s]
  BY DEF TodoTypeOK
<1>2. PICK listed : listed = {[task |-> t, text |-> task[t].text, at |-> task[t].at] :
                                t \in {u \in Tasks : task[u].state = "live"}}
  OBVIOUS
<1>3. listed \in SUBSET Listed
  BY <1>2, TodoTypes DEF Listed
<1>4. PICK run : run = [old EXCEPT !.pc = "maps", !.tasks = listed]
  OBVIOUS
<1>5. /\ run \in Run /\ run.pc = "maps" /\ run.tasks = listed /\ run.maps = old.maps
      /\ run.missing = old.missing /\ run.at = old.at /\ run.calm = old.calm
  BY <1>3, <1>4 DEF Run
<1>6. RunFits(run)
  BY <1>5 DEF RunFits
<1>7. /\ sync' = [sync EXCEPT ![s] = run] /\ sync[s].pc = "list"
      /\ UNCHANGED <<note, task, maps, desk, time, settled, interrupted, crossed>>
  BY <1>1, <1>2, <1>4 DEF ListTasks, TodoTypeOK
<1>8. settled' \in BOOLEAN /\ interrupted' \in BOOLEAN
  BY <1>7 DEF TodoTypeOK
<1>9. TodoTypeOK' /\ sync'[s] = run /\ Others(s)
  BY <1>5, <1>6, <1>7, <1>8, RunOnlyTypes
<1>10. RunFields(s, "maps", listed, sync[s].maps, sync[s].missing, sync[s].at)
       /\ sync'[s].calm = sync[s].calm
  BY <1>1, <1>5, <1>9 DEF RunFields
<1>11. /\ \A x \in listed : /\ x.task \in Tasks /\ task[x.task].state = "live"
                            /\ x.text = task[x.task].text
       /\ \A t \in Tasks : task[t].state = "live" => \E x \in listed : x.task = t
       /\ \A x, y \in listed : x.task = y.task => x = y
  <2>1. ASSUME NEW x \in listed
        PROVE  \E t \in Tasks : /\ task[t].state = "live"
                                /\ x = [task |-> t, text |-> task[t].text, at |-> task[t].at]
    BY <1>2
  <2>2. ASSUME NEW x \in listed
        PROVE  /\ x.task \in Tasks /\ task[x.task].state = "live"
               /\ x.text = task[x.task].text
               /\ x = [task |-> x.task, text |-> task[x.task].text, at |-> task[x.task].at]
    BY <2>1
  <2>3. ASSUME NEW t \in Tasks, task[t].state = "live"
        PROVE  \E x \in listed : x.task = t
    <3>1. PICK x : x = [task |-> t, text |-> task[t].text, at |-> task[t].at]
      OBVIOUS
    <3>2. x \in listed /\ x.task = t
      BY <1>2, <2>3, <3>1
    <3> QED  BY <3>2
  <2>4. \A x, y \in listed : x.task = y.task => x = y
    BY <2>2
  <2> QED  BY <2>2, <2>3, <2>4
<1>12. sync'[s].tasks = listed
  BY <1>5, <1>9
<1> QED  BY <1>2, <1>7, <1>9, <1>10, <1>11, <1>12

LEMMA MappingsRead ==
  ASSUME TodoTypeOK, NEW s \in Syncs, ReadMappings(s)
  PROVE  /\ TodoTypeOK' /\ Others(s)
         /\ UNCHANGED <<note, task, maps, desk, time, settled, interrupted, crossed>>
         /\ sync[s].pc = "maps" /\ sync'[s].calm = sync[s].calm
         /\ RunFields(s, "next", sync[s].tasks, {m \in maps : \E x \in sync[s].tasks : x.task = m.task},
                      Missing(sync[s].tasks), sync[s].at)
<1>1. PICK old \in Run : old = sync[s]
  BY DEF TodoTypeOK
<1>2. PICK read, gone : /\ read = {m \in maps : \E x \in old.tasks : x.task = m.task}
                        /\ gone = Missing(old.tasks)
  OBVIOUS
<1>3. read \in SUBSET Mapping /\ gone \in SUBSET Mapping
  BY <1>2 DEF TodoTypeOK, Missing
<1>4. PICK run : run = [old EXCEPT !.pc = "next", !.maps = read, !.missing = gone]
  OBVIOUS
<1>5. /\ run \in Run /\ run.pc = "next" /\ run.tasks = old.tasks /\ run.maps = read
      /\ run.missing = gone /\ run.at = old.at /\ run.calm = old.calm
  BY <1>3, <1>4 DEF Run
<1>6. RunFits(run)
  BY <1>5 DEF RunFits
<1>7. /\ sync' = [sync EXCEPT ![s] = run] /\ sync[s].pc = "maps"
      /\ UNCHANGED <<note, task, maps, desk, time, settled, interrupted, crossed>>
  BY <1>1, <1>2, <1>4 DEF ReadMappings, TodoTypeOK
<1>8. settled' \in BOOLEAN /\ interrupted' \in BOOLEAN
  BY <1>7 DEF TodoTypeOK
<1>9. TodoTypeOK' /\ sync'[s] = run /\ Others(s)
  BY <1>5, <1>6, <1>7, <1>8, RunOnlyTypes
<1>10. /\ RunFields(s, "next", sync[s].tasks, read, gone, sync[s].at)
       /\ sync'[s].calm = sync[s].calm
  BY <1>1, <1>5, <1>9 DEF RunFields
<1>11. read = {m \in maps : \E x \in sync[s].tasks : x.task = m.task} /\ gone = Missing(sync[s].tasks)
  BY <1>1, <1>2
<1> QED  BY <1>7, <1>9, <1>10, <1>11

LEMMA Dropped ==
  ASSUME TodoTypeOK, NEW s \in Syncs, NEW x
  PROVE  \E run \in Run :
           /\ run = Drop(s, x)
           /\ run.pc = sync[s].pc /\ run.tasks = sync[s].tasks \ {x}
           /\ run.maps = sync[s].maps \ MappingFor(s, x)
           /\ run.missing = sync[s].missing /\ run.at = sync[s].at /\ run.calm = sync[s].calm
<1>1. PICK old \in Run : old = sync[s]
  BY DEF TodoTypeOK
<1>2. PICK tasks, read : tasks = old.tasks \ {x} /\ read = old.maps \ MappingFor(s, x)
  OBVIOUS
<1>3. tasks \in SUBSET Listed /\ read \in SUBSET Mapping
  BY <1>2 DEF Run
<1>4. PICK run : run = [old EXCEPT !.tasks = tasks, !.maps = read]
  OBVIOUS
<1>5. /\ run \in Run /\ run.pc = old.pc /\ run.tasks = tasks /\ run.maps = read
      /\ run.missing = old.missing /\ run.at = old.at /\ run.calm = old.calm
  BY <1>3, <1>4 DEF Run
<1>6. run = Drop(s, x)
  BY <1>1, <1>2, <1>4 DEF Drop
<1> QED  BY <1>1, <1>2, <1>5, <1>6

\* The note n and the mapping k that a run has made of the task x.
Imported(x, n, k) ==
  /\ note[n].state = "none" /\ note'[n].state = "live" /\ note'[n].text = x.text
  /\ \A j \in Notes \ {n} : note'[j] = note[j]
  /\ k.note = n /\ k.task = x.task /\ k.local = x.text /\ k.external = x.text
  /\ k.detached = FALSE /\ k.deleted = FALSE
  /\ maps' = maps \union {k}

LEMMA TaskImported ==
  ASSUME TodoTypeOK, RefsInv, NEW s \in Syncs, NEW x \in sync[s].tasks, ImportTask(s, x)
  PROVE  /\ TodoTypeOK' /\ Others(s)
         /\ UNCHANGED <<task, desk, settled, interrupted>>
         /\ sync[s].pc = "next" /\ sync'[s].calm = sync[s].calm
         /\ RunFields(s, "next", sync[s].tasks \ {x}, sync[s].maps, sync[s].missing, sync[s].at)
         /\ \A m \in sync[s].maps : m.task # x.task
         /\ \/ /\ \E m \in maps : m.task = x.task
               /\ UNCHANGED <<note, maps, crossed>>
            \/ /\ \A m \in maps : m.task # x.task
               /\ crossed' = (crossed \/ \E r \in Syncs \ {s} : sync[r].pc = "maps")
               /\ \E n \in Notes, k \in Mapping : Imported(x, n, k)
<1>1. PICK run \in Run :
        /\ run = Drop(s, x) /\ run.pc = sync[s].pc /\ run.tasks = sync[s].tasks \ {x}
        /\ run.maps = sync[s].maps \ MappingFor(s, x)
        /\ run.missing = sync[s].missing /\ run.at = sync[s].at /\ run.calm = sync[s].calm
  BY Dropped
<1>2. /\ sync[s].pc = "next" /\ Become(s, run) /\ UNCHANGED <<task, desk, settled, interrupted>>
      /\ MappingFor(s, x) = {}
  BY <1>1 DEF ImportTask
<1>3. RunFits(run) /\ run.maps = sync[s].maps /\ run.pc = "next"
  BY <1>1, <1>2 DEF RunFits
<1>4. \A m \in sync[s].maps : m.task # x.task
  BY <1>2 DEF MappingFor
<1>5. settled' \in BOOLEAN /\ interrupted' \in BOOLEAN
  BY <1>2 DEF TodoTypeOK
<1>6. x \in Listed
  BY TodoTypes
<1>7. CASE UNCHANGED <<note, maps, time, crossed>> /\ \E m \in maps : m.task = x.task
  <2>1. UNCHANGED <<note, task, maps, desk, time, crossed>>
    BY <1>2, <1>7
  <2>2. TodoTypeOK' /\ sync'[s] = run /\ Others(s)
    BY <1>2, <1>3, <1>5, <2>1, RunOnlyTypes
  <2> QED  BY <1>1, <1>2, <1>3, <1>4, <1>7, <2>2 DEF RunFields
<1>8. CASE /\ \A m \in maps : m.task # x.task
           /\ Tick
           /\ \E n \in Notes :
                /\ note[n].state = "none"
                /\ note' = [note EXCEPT ![n] =
                     [state |-> "live", text |-> x.text, at |-> Now, by |-> "user"]]
                /\ maps' = maps \union {Map(n, x.task, x.text, x.text)}
           /\ Crosses(s)
  <2>1. PICK n \in Notes :
          /\ note[n].state = "none"
          /\ note' = [note EXCEPT ![n] =
               [state |-> "live", text |-> x.text, at |-> Now, by |-> "user"]]
          /\ maps' = maps \union {Map(n, x.task, x.text, x.text)}
    BY <1>8
  <2>2. Now \in 1..MaxTime /\ time' = Now
    BY <1>8, NextTime
  <2>3. x.task \in Tasks /\ x.text \in Text
    BY <1>6 DEF Listed
  <2>4. PICK new : new = [state |-> "live", text |-> x.text, at |-> Now, by |-> "user"]
    OBVIOUS
  <2>5. new \in NoteRow /\ new.state = "live" /\ new.text = x.text
    BY <2>2, <2>3, <2>4 DEF NoteRow
  <2>6. note' = [note EXCEPT ![n] = new] /\ note \in [Notes -> NoteRow]
    BY <2>1, <2>4 DEF TodoTypeOK
  <2>7. /\ note' \in [Notes -> NoteRow] /\ note'[n] = new
        /\ \A j \in Notes \ {n} : note'[j] = note[j]
    BY <2>5, <2>6
  <2>8. PICK k : k = Map(n, x.task, x.text, x.text)
    OBVIOUS
  <2>9. /\ k \in Mapping /\ k.note = n /\ k.task = x.task /\ k.local = x.text
        /\ k.external = x.text /\ k.detached = FALSE /\ k.deleted = FALSE
    BY <2>3, <2>8 DEF Map, Mapping
  <2>10. PICK m1 : m1 = maps \union {k}
    OBVIOUS
  <2>11. \A m \in maps : m.note # n /\ m.task # x.task
    BY <1>8, <2>1 DEF RefsInv, Used
  <2>12. m1 \subseteq Mapping /\ \A h, m \in m1 : h.note = m.note \/ h.task = m.task => h = m
    BY <2>9, <2>10, <2>11 DEF TodoTypeOK
  <2>13. crossed' = (crossed \/ \E r \in Syncs \ {s} : sync[r].pc = "maps")
    BY <1>8 DEF Crosses
  <2>14. maps' = m1 /\ task' = task /\ task \in [Tasks -> TaskRow] /\ UNCHANGED desk
         /\ time' \in 1..MaxTime /\ crossed' \in BOOLEAN
    BY <1>2, <2>1, <2>2, <2>8, <2>10, <2>13 DEF TodoTypeOK
  <2>15. TodoTypeOK' /\ sync'[s] = run /\ Others(s)
    BY <1>2, <1>3, <1>5, <2>7, <2>12, <2>14, RunTypes
  <2>16. maps' = maps \union {k}
    BY <2>10, <2>14
  <2>17. RunFields(s, "next", sync[s].tasks \ {x}, sync[s].maps, sync[s].missing, sync[s].at)
         /\ sync'[s].calm = sync[s].calm
    BY <1>1, <1>3, <2>15 DEF RunFields
  <2>18. Imported(x, n, k)
    BY <2>1, <2>5, <2>7, <2>9, <2>16 DEF Imported
  <2> QED  BY <1>2, <1>4, <1>8, <2>9, <2>13, <2>15, <2>17, <2>18
<1> QED  BY <1>7, <1>8 DEF ImportTask

LEMMA TaskSkipped ==
  ASSUME TodoTypeOK, NEW s \in Syncs, NEW x \in sync[s].tasks, SkipTask(s, x)
  PROVE  /\ TodoTypeOK' /\ Others(s)
         /\ UNCHANGED <<note, task, maps, desk, time, settled, interrupted, crossed>>
         /\ sync[s].pc = "next" /\ sync'[s].calm = sync[s].calm
         /\ RunFields(s, "next", sync[s].tasks \ {x}, sync[s].maps \ MappingFor(s, x),
                      sync[s].missing, sync[s].at)
         /\ \E m \in sync[s].maps :
              /\ m.task = x.task
              /\ \/ m.detached \/ note[m.note].state # "live"
                 \/ note[m.note].text = m.local /\ x.text = m.external
<1>1. PICK run \in Run :
        /\ run = Drop(s, x) /\ run.pc = sync[s].pc /\ run.tasks = sync[s].tasks \ {x}
        /\ run.maps = sync[s].maps \ MappingFor(s, x)
        /\ run.missing = sync[s].missing /\ run.at = sync[s].at /\ run.calm = sync[s].calm
  BY Dropped
<1>2. /\ sync[s].pc = "next" /\ Become(s, run)
      /\ UNCHANGED <<note, task, maps, desk, time, settled, interrupted, crossed>>
  BY <1>1 DEF SkipTask
<1>3. RunFits(run) /\ run.pc = "next"
  BY <1>1, <1>2 DEF RunFits
<1>4. settled' \in BOOLEAN /\ interrupted' \in BOOLEAN
  BY <1>2 DEF TodoTypeOK
<1>5. TodoTypeOK' /\ sync'[s] = run /\ Others(s)
  BY <1>2, <1>3, <1>4, RunOnlyTypes
<1>6. \E m \in sync[s].maps :
        /\ m.task = x.task
        /\ \/ m.detached \/ note[m.note].state # "live"
           \/ note[m.note].text = m.local /\ x.text = m.external
  BY DEF SkipTask, MappingFor, Changed
<1> QED  BY <1>1, <1>2, <1>3, <1>5, <1>6 DEF RunFields

\* A run has read the note of the mapping m of the task x, and holds c.
Decided(s, x, m, c) ==
  /\ m.task = x.task /\ note[m.note].state = "live"
  /\ note[m.note].text # m.local \/ x.text # m.external
  /\ c.map = m /\ c.task = x /\ c.text = note[m.note].text
  /\ RunFields(s, "write", sync[s].tasks \ {x}, sync[s].maps \ MappingFor(s, x), sync[s].missing, {c})

LEMMA NoteRead ==
  ASSUME TodoTypeOK, NEW s \in Syncs, NEW x \in sync[s].tasks, ReadNote(s, x)
  PROVE  /\ TodoTypeOK' /\ Others(s)
         /\ UNCHANGED <<note, task, maps, desk, time, settled, interrupted, crossed>>
         /\ sync[s].pc = "next" /\ sync'[s].calm = sync[s].calm
         /\ sync'[s].pc = "write" /\ sync'[s].tasks = sync[s].tasks \ {x}
         /\ sync'[s].maps = sync[s].maps \ MappingFor(s, x) /\ sync'[s].missing = sync[s].missing
         /\ \E m \in sync[s].maps, c \in Decision : Decided(s, x, m, c)
<1>1. PICK old \in Run :
        /\ old = Drop(s, x) /\ old.pc = sync[s].pc /\ old.tasks = sync[s].tasks \ {x}
        /\ old.maps = sync[s].maps \ MappingFor(s, x)
        /\ old.missing = sync[s].missing /\ old.at = sync[s].at /\ old.calm = sync[s].calm
  BY Dropped
<1>2. PICK m \in MappingFor(s, x) :
        /\ ~m.detached /\ note[m.note].state = "live" /\ Changed(m, x, note[m.note])
        /\ sync' = [sync EXCEPT ![s] = [old EXCEPT !.pc = "write",
             !.at = {[map |-> m, task |-> x, text |-> note[m.note].text, at |-> note[m.note].at]}]]
  BY <1>1 DEF ReadNote
<1>3. m \in Mapping /\ x \in Listed /\ m \in sync[s].maps /\ m.task = x.task
  BY TodoTypes DEF MappingFor
<1>4. note[m.note].text \in Text /\ note[m.note].at \in 1..MaxTime
  BY <1>3, TodoTypes DEF Mapping
<1>5. PICK c : c = [map |-> m, task |-> x, text |-> note[m.note].text, at |-> note[m.note].at]
  OBVIOUS
<1>6. c \in Decision /\ c.map = m /\ c.task = x /\ c.text = note[m.note].text
  BY <1>3, <1>4, <1>5 DEF Decision
<1>7. PICK at : at = {c}
  OBVIOUS
<1>8. PICK run : run = [old EXCEPT !.pc = "write", !.at = at]
  OBVIOUS
<1>9. /\ run \in Run /\ run.pc = "write" /\ run.tasks = old.tasks /\ run.maps = old.maps
      /\ run.missing = old.missing /\ run.at = at /\ run.calm = old.calm
  BY <1>6, <1>7, <1>8 DEF Run
<1>10. RunFits(run)
  BY <1>6, <1>7, <1>9 DEF RunFits
<1>11. /\ sync' = [sync EXCEPT ![s] = run] /\ sync[s].pc = "next"
       /\ UNCHANGED <<note, task, maps, desk, time, settled, interrupted, crossed>>
  BY <1>2, <1>5, <1>7, <1>8 DEF ReadNote
<1>12. settled' \in BOOLEAN /\ interrupted' \in BOOLEAN
  BY <1>11 DEF TodoTypeOK
<1>13. TodoTypeOK' /\ sync'[s] = run /\ Others(s)
  BY <1>9, <1>10, <1>11, <1>12, RunOnlyTypes
<1>14. /\ RunFields(s, "write", sync[s].tasks \ {x}, sync[s].maps \ MappingFor(s, x),
                    sync[s].missing, {c})
       /\ sync'[s].calm = sync[s].calm
  BY <1>1, <1>7, <1>9, <1>13 DEF RunFields
<1>15. note[m.note].text # m.local \/ x.text # m.external
  BY <1>2 DEF Changed
<1>16. Decided(s, x, m, c)
  BY <1>2, <1>3, <1>6, <1>14, <1>15 DEF Decided
<1>17. /\ sync'[s].pc = "write" /\ sync'[s].tasks = sync[s].tasks \ {x}
       /\ sync'[s].maps = sync[s].maps \ MappingFor(s, x) /\ sync'[s].missing = sync[s].missing
  BY <1>1, <1>9, <1>13
<1> QED  BY <1>3, <1>6, <1>11, <1>13, <1>14, <1>16, <1>17

\* What a run that writes or records has in hand.
LEMMA HandTypes ==
  ASSUME TodoTypeOK, NEW s \in Syncs
  PROVE  /\ sync[s].pc = "write" =>
              \E c \in Decision : /\ sync[s].at = {c}
                                  /\ c.map \in Mapping /\ c.map.note \in Notes /\ c.map.task \in Tasks
                                  /\ c.task \in Listed /\ c.task.text \in Text /\ c.text \in Text
         /\ sync[s].pc \in {"record", "trash"} =>
              \E c \in Mapping : sync[s].at = {c} /\ c.note \in Notes /\ c.task \in Tasks
<1>1. ASSUME sync[s].pc = "write"
      PROVE  \E c \in Decision : /\ sync[s].at = {c}
                                  /\ c.map \in Mapping /\ c.map.note \in Notes /\ c.map.task \in Tasks
                                  /\ c.task \in Listed /\ c.task.text \in Text /\ c.text \in Text
  <2>1. PICK c \in Decision : sync[s].at = {c}
    BY <1>1 DEF TodoTypeOK
  <2>2. c.map \in Mapping /\ c.task \in Listed /\ c.text \in Text
    BY DEF Decision
  <2> QED  BY <2>1, <2>2 DEF Mapping, Listed
<1>2. ASSUME sync[s].pc \in {"record", "trash"}
      PROVE  \E c \in Mapping : sync[s].at = {c} /\ c.note \in Notes /\ c.task \in Tasks
  BY <1>2 DEF TodoTypeOK, Mapping
<1> QED  BY <1>1, <1>2

\* A run whose place and whose hand change.
InPlace(s, pc, at) == [sync[s] EXCEPT !.pc = pc, !.at = at]

LEMMA HandChanged ==
  ASSUME TodoTypeOK, NEW s \in Syncs, NEW pc \in {"next", "write", "record", "trash"},
         NEW at \in SUBSET (Decision \union Mapping)
  PROVE  \E run \in Run :
           /\ run = InPlace(s, pc, at)
           /\ run.pc = pc /\ run.tasks = sync[s].tasks /\ run.maps = sync[s].maps
           /\ run.missing = sync[s].missing /\ run.at = at /\ run.calm = sync[s].calm
<1>1. PICK old \in Run : old = sync[s]
  BY DEF TodoTypeOK
<1>2. PICK run : run = [old EXCEPT !.pc = pc, !.at = at]
  OBVIOUS
<1>3. /\ run \in Run /\ run.pc = pc /\ run.tasks = old.tasks /\ run.maps = old.maps
      /\ run.missing = old.missing /\ run.at = at /\ run.calm = old.calm
  BY <1>2 DEF Run
<1> QED  BY <1>1, <1>2, <1>3 DEF InPlace

\* A run has written the text of the task into the note, and has h to record.
WrittenBack(s, c, h) ==
  /\ sync[s].at = {c} /\ ExternalWins(c)
  /\ note[c.map.note].state \in {"live", "trash"}
  /\ note'[c.map.note].state = note[c.map.note].state
  /\ note'[c.map.note].text = c.task.text
  /\ \A n \in Notes : n # c.map.note => note'[n] = note[n]
  /\ h.note = c.map.note /\ h.task = c.map.task /\ h.local = c.task.text
  /\ h.external = c.task.text /\ h.deleted = FALSE /\ h.detached = FALSE
  /\ RunFields(s, "record", sync[s].tasks, sync[s].maps, sync[s].missing, {h})

LEMMA TextWrittenBack ==
  ASSUME TodoTypeOK, NEW s \in Syncs, WriteBack(s)
  PROVE  /\ TodoTypeOK' /\ Others(s)
         /\ UNCHANGED <<task, maps, desk, settled, interrupted, crossed>>
         /\ sync[s].pc = "write" /\ sync'[s].calm = sync[s].calm
         /\ \E c \in Decision, h \in Mapping : WrittenBack(s, c, h)
<1>1. PICK c \in sync[s].at :
        /\ ExternalWins(c) /\ note[c.map.note].state \in {"live", "trash"} /\ Tick
        /\ note' = [note EXCEPT ![c.map.note].text = c.task.text, ![c.map.note].at = Now]
        /\ Become(s, [sync[s] EXCEPT !.pc = "record",
             !.at = {Map(c.map.note, c.map.task, c.task.text, c.task.text)}])
  BY DEF WriteBack
<1>2. /\ sync[s].pc = "write" /\ UNCHANGED <<task, maps, desk, settled, interrupted, crossed>>
  BY DEF WriteBack
<1>3. /\ c \in Decision /\ sync[s].at = {c}
      /\ c.map.note \in Notes /\ c.map.task \in Tasks /\ c.task.text \in Text
  BY <1>2, HandTypes
<1>4. PICK n \in Notes, t \in Tasks, u \in Text : n = c.map.note /\ t = c.map.task /\ u = c.task.text
  BY <1>3
<1>5. Now \in 1..MaxTime /\ time' = Now
  BY <1>1, NextTime
<1>6. PICK h : h = Map(n, t, u, u)
  OBVIOUS
<1>7. /\ h \in Mapping /\ h.note = n /\ h.task = t /\ h.local = u /\ h.external = u
      /\ h.deleted = FALSE /\ h.detached = FALSE
  BY <1>6 DEF Map, Mapping
<1>8. PICK at \in SUBSET (Decision \union Mapping) : at = {h}
  BY <1>7
<1>9. PICK run \in Run :
        /\ run = InPlace(s, "record", at)
        /\ run.pc = "record" /\ run.tasks = sync[s].tasks /\ run.maps = sync[s].maps
        /\ run.missing = sync[s].missing /\ run.at = at /\ run.calm = sync[s].calm
  BY HandChanged
<1>10. RunFits(run) /\ Become(s, run)
  <2>1. Become(s, InPlace(s, "record", at))
    BY <1>1, <1>4, <1>6, <1>8 DEF InPlace
  <2> QED  BY <1>7, <1>8, <1>9, <2>1 DEF RunFits
<1>11. PICK old \in NoteRow : old = note[n]
  BY DEF TodoTypeOK
<1>12. PICK new : new = [old EXCEPT !.text = u, !.at = Now]
  OBVIOUS
<1>13. new \in NoteRow /\ new.text = u /\ new.state = old.state
  BY <1>5, <1>12 DEF NoteRow
<1>14. note' = [note EXCEPT ![n] = new] /\ note \in [Notes -> NoteRow]
  BY <1>1, <1>4, <1>11, <1>12 DEF TodoTypeOK
<1>15. /\ note' \in [Notes -> NoteRow] /\ note'[n] = new
       /\ \A j \in Notes : j # n => note'[j] = note[j]
  BY <1>13, <1>14
<1>16. /\ task' = task /\ task \in [Tasks -> TaskRow] /\ maps' = maps /\ maps \subseteq Mapping
       /\ \A k, m \in maps : k.note = m.note \/ k.task = m.task => k = m
       /\ UNCHANGED desk /\ time' \in 1..MaxTime
       /\ settled' \in BOOLEAN /\ interrupted' \in BOOLEAN /\ crossed' \in BOOLEAN
  BY <1>2, <1>5 DEF TodoTypeOK
<1>17. TodoTypeOK' /\ sync'[s] = run /\ Others(s)
  BY <1>10, <1>15, <1>16, RunTypes
<1>18. /\ RunFields(s, "record", sync[s].tasks, sync[s].maps, sync[s].missing, {h})
       /\ sync'[s].calm = sync[s].calm
  BY <1>8, <1>9, <1>17 DEF RunFields
<1>19. \A j \in Notes : j # c.map.note => note'[j] = note[j]
  BY <1>4, <1>15
<1>20. WrittenBack(s, c, h)
  BY <1>1, <1>3, <1>4, <1>7, <1>11, <1>13, <1>15, <1>18, <1>19 DEF WrittenBack
<1> QED  BY <1>2, <1>3, <1>7, <1>17, <1>18, <1>20

\* A run has written the text of the note into the task, and has h to record.
SentOut(s, c, h) ==
  /\ sync[s].at = {c} /\ ~ExternalWins(c)
  /\ task[c.map.task].state = "live"
  /\ task'[c.map.task].state = "live"
  /\ task'[c.map.task].text = Outward(c.text)
  /\ \A t \in Tasks : t # c.map.task => task'[t] = task[t]
  /\ h.note = c.map.note /\ h.task = c.map.task /\ h.local = c.text
  /\ h.external = Outward(c.text) /\ h.deleted = FALSE /\ h.detached = FALSE
  /\ RunFields(s, "record", sync[s].tasks, sync[s].maps, sync[s].missing, {h})

LEMMA TextSent ==
  ASSUME TodoTypeOK, NEW s \in Syncs, SendOut(s)
  PROVE  /\ TodoTypeOK' /\ Others(s)
         /\ UNCHANGED <<note, maps, desk, settled, interrupted, crossed>>
         /\ sync[s].pc = "write" /\ sync'[s].calm = sync[s].calm
         /\ \E c \in Decision, h \in Mapping : SentOut(s, c, h)
<1>1. PICK c \in sync[s].at :
        /\ ~ExternalWins(c) /\ task[c.map.task].state = "live" /\ Tick
        /\ task' = [task EXCEPT ![c.map.task].text = Outward(c.text), ![c.map.task].at = Now]
        /\ Become(s, [sync[s] EXCEPT !.pc = "record",
             !.at = {Map(c.map.note, c.map.task, c.text, Outward(c.text))}])
  BY DEF SendOut, SentForm
<1>2. /\ sync[s].pc = "write" /\ UNCHANGED <<note, maps, desk, settled, interrupted, crossed>>
  BY DEF SendOut
<1>3. /\ c \in Decision /\ sync[s].at = {c}
      /\ c.map.note \in Notes /\ c.map.task \in Tasks /\ c.text \in Text
  BY <1>2, HandTypes
<1>4. PICK n \in Notes, t \in Tasks, u \in Text : n = c.map.note /\ t = c.map.task /\ u = c.text
  BY <1>3
<1>20. PICK v \in Text : v = Outward(u)
  BY OutwardText
<1>5. Now \in 1..MaxTime /\ time' = Now
  BY <1>1, NextTime
<1>6. PICK h : h = Map(n, t, u, v)
  OBVIOUS
<1>7. /\ h \in Mapping /\ h.note = n /\ h.task = t /\ h.local = u /\ h.external = v
      /\ h.deleted = FALSE /\ h.detached = FALSE
  BY <1>6 DEF Map, Mapping
<1>8. PICK at \in SUBSET (Decision \union Mapping) : at = {h}
  BY <1>7
<1>9. PICK run \in Run :
        /\ run = InPlace(s, "record", at)
        /\ run.pc = "record" /\ run.tasks = sync[s].tasks /\ run.maps = sync[s].maps
        /\ run.missing = sync[s].missing /\ run.at = at /\ run.calm = sync[s].calm
  BY HandChanged
<1>10. RunFits(run) /\ Become(s, run)
  <2>1. Become(s, InPlace(s, "record", at))
    BY <1>1, <1>4, <1>6, <1>8, <1>20 DEF InPlace
  <2> QED  BY <1>7, <1>8, <1>9, <2>1 DEF RunFits
<1>11. PICK old \in TaskRow : old = task[t]
  BY DEF TodoTypeOK
<1>12. PICK new : new = [old EXCEPT !.text = v, !.at = Now]
  OBVIOUS
<1>13. new \in TaskRow /\ new.text = v /\ new.state = old.state
  BY <1>5, <1>12 DEF TaskRow
<1>14. task' = [task EXCEPT ![t] = new] /\ task \in [Tasks -> TaskRow]
  BY <1>1, <1>4, <1>11, <1>12, <1>20 DEF TodoTypeOK
<1>15. /\ task' \in [Tasks -> TaskRow] /\ task'[t] = new
       /\ \A j \in Tasks : j # t => task'[j] = task[j]
  BY <1>13, <1>14
<1>16. /\ note' = note /\ note \in [Notes -> NoteRow] /\ maps' = maps /\ maps \subseteq Mapping
       /\ \A k, m \in maps : k.note = m.note \/ k.task = m.task => k = m
       /\ UNCHANGED desk /\ time' \in 1..MaxTime
       /\ settled' \in BOOLEAN /\ interrupted' \in BOOLEAN /\ crossed' \in BOOLEAN
  BY <1>2, <1>5 DEF TodoTypeOK
<1>17. TodoTypeOK' /\ sync'[s] = run /\ Others(s)
  BY <1>10, <1>15, <1>16, RunTypes
<1>18. /\ RunFields(s, "record", sync[s].tasks, sync[s].maps, sync[s].missing, {h})
       /\ sync'[s].calm = sync[s].calm
  BY <1>8, <1>9, <1>17 DEF RunFields
<1>19. \A j \in Tasks : j # c.map.task => task'[j] = task[j]
  BY <1>4, <1>15
<1>21. /\ task'[c.map.task].state = "live" /\ task'[c.map.task].text = Outward(c.text)
       /\ h.note = c.map.note /\ h.task = c.map.task /\ h.local = c.text
       /\ h.external = Outward(c.text)
  BY <1>1, <1>4, <1>7, <1>11, <1>13, <1>15, <1>20
<1>22. SentOut(s, c, h)
  BY <1>1, <1>3, <1>7, <1>18, <1>19, <1>21 DEF SentOut
<1> QED  BY <1>2, <1>3, <1>7, <1>17, <1>18, <1>22

\* A run has put what it had in hand, k, into the place of the mapping m.
PutBack(s, c, m, k) ==
  /\ sync[s].at = {c} /\ m.note = c.note /\ m.task = c.task
  /\ k.note = c.note /\ k.task = c.task /\ k.local = c.local
  /\ k.external = c.external /\ k.deleted = c.deleted /\ k.detached = m.detached
  /\ maps' = (maps \ {m}) \union {k}

LEMMA HashesRecorded ==
  ASSUME TodoTypeOK, NEW s \in Syncs, RecordHashes(s)
  PROVE  /\ TodoTypeOK' /\ Others(s)
         /\ UNCHANGED <<note, task, desk, settled, interrupted, crossed>>
         /\ sync[s].pc = "record" /\ sync'[s].calm = sync[s].calm
         /\ RunFields(s, "next", sync[s].tasks, sync[s].maps, sync[s].missing, {})
         /\ \E c \in Mapping, m \in maps, k \in Mapping : PutBack(s, c, m, k)
<1>1. PICK c \in sync[s].at, m \in maps :
        /\ m.note = c.note /\ m.task = c.task
        /\ maps' = (maps \ {m}) \union {[c EXCEPT !.detached = m.detached]}
  BY DEF RecordHashes
<1>2. /\ sync[s].pc = "record" /\ UNCHANGED <<note, task, desk, time, settled, interrupted, crossed>>
      /\ Become(s, InPlace(s, "next", {}))
  BY DEF RecordHashes, InPlace
<1>3. c \in Mapping /\ sync[s].at = {c} /\ m \in Mapping
  BY <1>2, HandTypes DEF TodoTypeOK
<1>4. PICK detached \in BOOLEAN : detached = m.detached
  BY <1>3 DEF Mapping
<1>5. PICK k : k = [c EXCEPT !.detached = detached]
  OBVIOUS
<1>6. /\ k \in Mapping /\ k.note = c.note /\ k.task = c.task /\ k.local = c.local
      /\ k.external = c.external /\ k.deleted = c.deleted /\ k.detached = detached
  BY <1>3, <1>5 DEF Mapping
<1>7. PICK m1 : m1 = (maps \ {m}) \union {k}
  OBVIOUS
<1>8. maps' = m1
  BY <1>1, <1>4, <1>5, <1>7
<1>9. m1 \subseteq Mapping /\ \A h, j \in m1 : h.note = j.note \/ h.task = j.task => h = j
  BY <1>1, <1>6, <1>7 DEF TodoTypeOK
<1>10. PICK run \in Run :
        /\ run = InPlace(s, "next", {})
        /\ run.pc = "next" /\ run.tasks = sync[s].tasks /\ run.maps = sync[s].maps
        /\ run.missing = sync[s].missing /\ run.at = {} /\ run.calm = sync[s].calm
  BY HandChanged
<1>11. RunFits(run) /\ Become(s, run)
  BY <1>2, <1>10 DEF RunFits
<1>12. /\ note' = note /\ note \in [Notes -> NoteRow] /\ task' = task /\ task \in [Tasks -> TaskRow]
       /\ UNCHANGED desk /\ time' \in 1..MaxTime
       /\ settled' \in BOOLEAN /\ interrupted' \in BOOLEAN /\ crossed' \in BOOLEAN
  BY <1>2 DEF TodoTypeOK
<1>13. TodoTypeOK' /\ sync'[s] = run /\ Others(s)
  BY <1>8, <1>9, <1>11, <1>12, RunTypes
<1>14. /\ RunFields(s, "next", sync[s].tasks, sync[s].maps, sync[s].missing, {})
       /\ sync'[s].calm = sync[s].calm
  BY <1>10, <1>13 DEF RunFields
<1>15. maps' = (maps \ {m}) \union {k} /\ k.detached = m.detached
  BY <1>4, <1>6, <1>7, <1>8
<1>16. PutBack(s, c, m, k)
  BY <1>1, <1>3, <1>6, <1>15 DEF PutBack
<1> QED  BY <1>2, <1>3, <1>6, <1>13, <1>14, <1>16

LEMMA MissingRead ==
  ASSUME TodoTypeOK, NEW s \in Syncs, NEW m \in sync[s].missing, ReadMissing(s, m)
  PROVE  /\ TodoTypeOK' /\ Others(s)
         /\ UNCHANGED <<note, task, maps, desk, time, settled, interrupted, crossed>>
         /\ sync[s].pc = "next" /\ sync[s].tasks = {} /\ sync'[s].calm = sync[s].calm
         /\ IF note[m.note].state = "live"
              THEN RunFields(s, "trash", {}, sync[s].maps, sync[s].missing \ {m}, {m})
              ELSE RunFields(s, "next", {}, sync[s].maps, sync[s].missing \ {m}, {})
<1>1. PICK old \in Run : old = sync[s]
  BY DEF TodoTypeOK
<1>2. PICK live \in BOOLEAN : live = (note[m.note].state = "live")
  OBVIOUS
<1>3. PICK pc, missing, at :
        /\ pc = IF live THEN "trash" ELSE "next"
        /\ missing = old.missing \ {m}
        /\ at = IF live THEN {m} ELSE {}
  OBVIOUS
<1>4. /\ pc \in {"trash", "next"} /\ missing \in SUBSET Mapping /\ m \in Mapping
      /\ at \in SUBSET (Decision \union Mapping)
  BY <1>1, <1>3 DEF Run
<1>5. PICK run : run = [old EXCEPT !.missing = missing, !.pc = pc, !.at = at]
  OBVIOUS
<1>6. /\ run \in Run /\ run.pc = pc /\ run.tasks = old.tasks /\ run.maps = old.maps
      /\ run.missing = missing /\ run.at = at /\ run.calm = old.calm
  BY <1>4, <1>5 DEF Run
<1>7. RunFits(run)
  BY <1>3, <1>4, <1>6 DEF RunFits
<1>8. /\ sync[s].pc = "next" /\ sync[s].tasks = {}
      /\ UNCHANGED <<note, task, maps, desk, time, settled, interrupted, crossed>>
  BY DEF ReadMissing
<1>9. sync' = [sync EXCEPT ![s] = run]
  <2>1. sync' = [sync EXCEPT ![s] = [sync[s] EXCEPT
          !.missing = sync[s].missing \ {m},
          !.pc = IF note[m.note].state = "live" THEN "trash" ELSE "next",
          !.at = IF note[m.note].state = "live" THEN {m} ELSE {}]]
    BY DEF ReadMissing
  <2> QED  BY <1>1, <1>2, <1>3, <1>5, <2>1
<1>10. settled' \in BOOLEAN /\ interrupted' \in BOOLEAN
  BY <1>8 DEF TodoTypeOK
<1>11. TodoTypeOK' /\ sync'[s] = run /\ Others(s)
  BY <1>6, <1>7, <1>8, <1>9, <1>10, RunOnlyTypes
<1>12. /\ RunFields(s, pc, {}, sync[s].maps, sync[s].missing \ {m}, at)
       /\ sync'[s].calm = sync[s].calm
  BY <1>1, <1>3, <1>6, <1>8, <1>11 DEF RunFields
<1> QED  BY <1>2, <1>3, <1>8, <1>11, <1>12 DEF RunFields

\* A run has thrown a note away and marked its mapping m, now k.
Throwing(s, c, m, k) ==
  /\ sync[s].at = {c} /\ m.note = c.note /\ m.task = c.task
  /\ note[c.note].state \in {"live", "trash"} /\ note'[c.note].state = "trash"
  /\ note'[c.note].text = note[c.note].text
  /\ \A n \in Notes : n # c.note => note'[n] = note[n]
  /\ k.note = c.note /\ k.task = c.task /\ k.local = m.local
  /\ k.external = m.external /\ k.deleted = TRUE /\ k.detached = m.detached
  /\ maps' = (maps \ {m}) \union {k}

LEMMA NoteThrownAway ==
  ASSUME TodoTypeOK, NEW s \in Syncs, ThrowAway(s)
  PROVE  /\ TodoTypeOK' /\ Others(s)
         /\ UNCHANGED <<task, desk, settled, interrupted, crossed>>
         /\ sync[s].pc = "trash" /\ sync'[s].calm = sync[s].calm
         /\ RunFields(s, "next", sync[s].tasks, sync[s].maps, sync[s].missing, {})
         /\ \E c \in Mapping, m \in maps, k \in Mapping : Throwing(s, c, m, k)
<1>1. PICK c \in sync[s].at, m \in maps :
        /\ m.note = c.note /\ m.task = c.task
        /\ note[m.note].state \in {"live", "trash"}
        /\ note' = [note EXCEPT ![m.note] = [@ EXCEPT !.state = "trash", !.at = Now, !.by = "sync"]]
        /\ maps' = (maps \ {m}) \union {[m EXCEPT !.deleted = TRUE]}
  BY DEF ThrowAway
<1>2. /\ sync[s].pc = "trash" /\ UNCHANGED <<task, desk, settled, interrupted, crossed>>
      /\ Become(s, InPlace(s, "next", {})) /\ Tick
  BY DEF ThrowAway, InPlace
<1>3. c \in Mapping /\ sync[s].at = {c} /\ m \in Mapping /\ m.note \in Notes
  BY <1>2, HandTypes DEF TodoTypeOK, Mapping
<1>4. Now \in 1..MaxTime /\ time' = Now
  BY <1>2, NextTime
<1>5. PICK k : k = [m EXCEPT !.deleted = TRUE]
  OBVIOUS
<1>6. /\ k \in Mapping /\ k.note = m.note /\ k.task = m.task /\ k.local = m.local
      /\ k.external = m.external /\ k.deleted = TRUE /\ k.detached = m.detached
  BY <1>3, <1>5 DEF Mapping
<1>7. PICK m1 : m1 = (maps \ {m}) \union {k}
  OBVIOUS
<1>8. maps' = m1
  BY <1>1, <1>5, <1>7
<1>9. m1 \subseteq Mapping /\ \A h, j \in m1 : h.note = j.note \/ h.task = j.task => h = j
  BY <1>1, <1>6, <1>7 DEF TodoTypeOK
<1>10. PICK run \in Run :
        /\ run = InPlace(s, "next", {})
        /\ run.pc = "next" /\ run.tasks = sync[s].tasks /\ run.maps = sync[s].maps
        /\ run.missing = sync[s].missing /\ run.at = {} /\ run.calm = sync[s].calm
  BY HandChanged
<1>11. RunFits(run) /\ Become(s, run)
  BY <1>2, <1>10 DEF RunFits
<1>12. PICK n \in Notes : n = m.note
  BY <1>3
<1>13. PICK old \in NoteRow : old = note[n]
  BY DEF TodoTypeOK
<1>14. PICK new : new = [old EXCEPT !.state = "trash", !.at = Now, !.by = "sync"]
  OBVIOUS
<1>15. new \in NoteRow /\ new.text = old.text /\ new.state = "trash"
  BY <1>4, <1>14 DEF NoteRow
<1>16. note' = [note EXCEPT ![n] = new] /\ note \in [Notes -> NoteRow]
  BY <1>1, <1>12, <1>13, <1>14 DEF TodoTypeOK
<1>17. /\ note' \in [Notes -> NoteRow] /\ note'[n] = new
       /\ \A j \in Notes : j # n => note'[j] = note[j]
  BY <1>15, <1>16
<1>18. /\ task' = task /\ task \in [Tasks -> TaskRow]
       /\ UNCHANGED desk /\ time' \in 1..MaxTime
       /\ settled' \in BOOLEAN /\ interrupted' \in BOOLEAN /\ crossed' \in BOOLEAN
  BY <1>2, <1>4 DEF TodoTypeOK
<1>19. TodoTypeOK' /\ sync'[s] = run /\ Others(s)
  BY <1>8, <1>9, <1>11, <1>17, <1>18, RunTypes
<1>20. /\ RunFields(s, "next", sync[s].tasks, sync[s].maps, sync[s].missing, {})
       /\ sync'[s].calm = sync[s].calm
  BY <1>10, <1>19 DEF RunFields
<1>21. /\ note[c.note].state \in {"live", "trash"} /\ note'[c.note].state = "trash"
       /\ note'[c.note].text = note[c.note].text
       /\ \A j \in Notes : j # c.note => note'[j] = note[j]
  BY <1>1, <1>12, <1>13, <1>15, <1>17
<1>22. maps' = (maps \ {m}) \union {k} /\ k.note = c.note /\ k.task = c.task
  BY <1>1, <1>6, <1>7, <1>8
<1>23. Throwing(s, c, m, k)
  BY <1>1, <1>3, <1>6, <1>21, <1>22 DEF Throwing
<1> QED  BY <1>2, <1>3, <1>6, <1>19, <1>20, <1>23

LEMMA RunEnded ==
  ASSUME TodoTypeOK, NEW s \in Syncs, FinishSync(s) \/ SyncStops(s)
  PROVE  /\ TodoTypeOK' /\ Others(s)
         /\ UNCHANGED <<note, task, maps, desk, time, crossed>>
         /\ RunFields(s, "idle", {}, {}, {}, {}) /\ sync'[s].calm = FALSE
         /\ \A r \in Syncs \ {s} : sync'[r].calm = FALSE
         /\ ~interrupted' => ~interrupted /\ sync[s].pc # "record"
         /\ settled' => /\ sync[s].calm /\ sync[s].pc = "next"
                        /\ sync[s].tasks = {} /\ sync[s].missing = {}
<1>1. PICK run : run = NoSync
  OBVIOUS
<1>2. /\ run \in Run /\ run.pc = "idle" /\ run.tasks = {} /\ run.maps = {}
      /\ run.missing = {} /\ run.at = {} /\ run.calm = FALSE
  BY <1>1 DEF NoSync, Run
<1>3. RunFits(run)
  BY <1>2 DEF RunFits
<1>4. Become(s, run) /\ UNCHANGED <<note, task, maps, desk, time, crossed>>
  BY <1>1 DEF FinishSync, SyncStops
<1>5. sync[s].calm \in BOOLEAN
  BY TodoTypes
<1>6. settled' \in BOOLEAN /\ interrupted' \in BOOLEAN
  BY <1>5 DEF TodoTypeOK, FinishSync, SyncStops
<1>7. TodoTypeOK' /\ sync'[s] = run /\ Others(s)
  BY <1>2, <1>3, <1>4, <1>6, RunOnlyTypes
<1>8. \A r \in Syncs \ {s} : sync'[r].calm = FALSE
  BY <1>2, <1>3, <1>4, RunSet
<1>9. ~interrupted' => ~interrupted /\ sync[s].pc # "record"
  BY DEF FinishSync, SyncStops
<1>10. settled' => /\ sync[s].calm /\ sync[s].pc = "next"
                   /\ sync[s].tasks = {} /\ sync[s].missing = {}
  BY DEF FinishSync, SyncStops
<1>11. RunFields(s, "idle", {}, {}, {}, {}) /\ sync'[s].calm = FALSE
  BY <1>2, <1>7 DEF RunFields
<1> QED  BY <1>4, <1>7, <1>8, <1>9, <1>10, <1>11

-----------------------------------------------------------------------------
(* TodoSync: what is referred to *)

LEMMA KnownTypes ==
  ASSUME TodoTypeOK, NEW s \in Syncs
  PROVE  /\ \A m \in Known(s) : m \in Mapping /\ m.note \in Notes /\ m.task \in Tasks
         /\ \A x \in Open(s) : x \in Listed /\ x.task \in Tasks /\ x.text \in Text
         /\ \A m \in sync[s].missing : m \in Mapping /\ m.task \in Tasks
<1>1. \A m \in InHand(s) : m \in Mapping
  BY HandTypes DEF InHand
<1>2. \A x \in AtHand(s) : x \in Listed
  BY HandTypes DEF AtHand
<1>3. \A m \in Known(s) : m \in Mapping
  BY <1>1, TodoTypes DEF Known
<1>4. \A x \in Open(s) : x \in Listed
  BY <1>2, TodoTypes DEF Open
<1>5. \A m \in sync[s].missing : m \in Mapping
  BY TodoTypes
<1> QED  BY <1>3, <1>4, <1>5 DEF Mapping, Listed

\* What a run has in hand, knows and has open after it has moved.
LEMMA HandIs ==
  ASSUME NEW s, NEW pc, NEW tasks, NEW mappings, NEW missing, NEW at,
         RunFields(s, pc, tasks, mappings, missing, at)
  PROVE  /\ pc = "write" => /\ InHand(s)' = {c.map : c \in at}
                            /\ Known(s)' = mappings \union {c.map : c \in at}
                            /\ Open(s)' = tasks \union {c.task : c \in at}
         /\ pc = "record" => /\ InHand(s)' = at /\ Known(s)' = mappings \union at
                             /\ Open(s)' = tasks
         /\ pc \notin {"write", "record"} => /\ InHand(s)' = {} /\ Known(s)' = mappings
                                             /\ Open(s)' = tasks
<1>1. CASE pc = "write"
  BY <1>1 DEF RunFields, InHand, AtHand, Known, Open
<1>2. CASE pc = "record"
  <2>1. InHand(s)' = at /\ AtHand(s)' = {}
    BY <1>2 DEF RunFields, InHand, AtHand
  <2> QED  BY <1>2, <2>1 DEF RunFields, Known, Open
<1>3. CASE pc \notin {"write", "record"}
  <2>1. InHand(s)' = {} /\ AtHand(s)' = {}
    BY <1>3 DEF RunFields, InHand, AtHand
  <2> QED  BY <1>3, <2>1 DEF RunFields, Known, Open
<1> QED  BY <1>1, <1>2, <1>3

\* Notes and tasks do not become unmade, a task that is gone does not come back, and a
\* mapping is not deleted before its task is gone.
Monotone ==
  /\ \A n \in Notes : note[n].state # "none" => note'[n].state # "none"
  /\ \A t \in Tasks : task[t].state # "none" => task'[t].state # "none"
  /\ \A t \in Tasks : task[t].state = "gone" => task'[t].state = "gone"
  /\ \A m \in maps :
       task'[m.task].state = "gone" \/ \E k \in maps' : k.task = m.task /\ k.note = m.note

LEMMA RefersStill ==
  ASSUME TodoTypeOK, Monotone, NEW m \in Mapping
  PROVE  (Used(m) => Used(m)') /\ (StillThere(m) => StillThere(m)')
<1>1. m.note \in Notes /\ m.task \in Tasks
  BY DEF Mapping
<1>2. Used(m) => Used(m)'
  BY <1>1 DEF Monotone, Used
<1>3. ASSUME NEW k \in maps, k.task = m.task, k.note = m.note
      PROVE  StillThere(m)'
  BY <1>1, <1>3 DEF Monotone, StillThere
<1>4. task[m.task].state = "gone" => StillThere(m)'
  BY <1>1 DEF Monotone, StillThere
<1> QED  BY <1>2, <1>3, <1>4 DEF StillThere

LEMMA RunRefsStay ==
  ASSUME TodoTypeOK, Monotone, NEW r \in Syncs, RunRefs(r), Undisturbed(r)
  PROVE  RunRefs(r)'
<1>1. Open(r)' = Open(r) /\ Known(r)' = Known(r)
  BY DEF Undisturbed
<1>2. \A x \in Open(r) : x.task \in Tasks /\ task'[x.task].state # "none"
  BY KnownTypes DEF RunRefs, Monotone
<1>3. \A m \in Known(r) : Used(m)' /\ StillThere(m)'
  BY KnownTypes, RefersStill DEF RunRefs
<1> QED  BY <1>1, <1>2, <1>3 DEF RunRefs

\* A run that goes on with no more than it had.
LEMMA RunRefsLess ==
  ASSUME TodoTypeOK, Monotone, NEW s \in Syncs, RunRefs(s),
         Open(s)' \subseteq Open(s),
         \A m \in Known(s)' : \E k \in Known(s) : k.note = m.note /\ k.task = m.task
  PROVE  RunRefs(s)'
<1>2. \A x \in Open(s) : task'[x.task].state # "none"
  BY KnownTypes DEF RunRefs, Monotone
<1>3. \A m \in Known(s) : Used(m)' /\ StillThere(m)'
  BY KnownTypes, RefersStill DEF RunRefs
<1>4. ASSUME NEW m \in Known(s)'
      PROVE  Used(m)' /\ StillThere(m)'
  <2>1. PICK k \in Known(s) : k.note = m.note /\ k.task = m.task
    OBVIOUS
  <2>2. Used(k)' /\ StillThere(k)'
    BY <1>3
  <2> QED  BY <2>1, <2>2 DEF Used, StillThere
<1> QED  BY <1>2, <1>4 DEF RunRefs

LEMMA DeskRefsStay ==
  ASSUME TodoTypeOK, Monotone, NEW d \in Desks, DeskRefs(d), desk'[d] = desk[d]
  PROVE  DeskRefs(d)'
BY TodoTypes DEF DeskRefs, Monotone

\* The mappings after a step are those before it, or in use.
LEMMA PairsUsed ==
  ASSUME TodoTypeOK, Monotone, \A m \in maps : Used(m),
         \A m \in maps' : Used(m)' \/ \E k \in maps : k.note = m.note /\ k.task = m.task
  PROVE  \A m \in maps' : Used(m)'
<1>1. \A k \in maps : Used(k)'
  BY RefersStill DEF TodoTypeOK
<1>2. ASSUME NEW m \in maps', NEW k \in maps, k.note = m.note, k.task = m.task
      PROVE  Used(m)'
  <2>1. Used(k)'
    BY <1>1
  <2> QED  BY <1>2, <2>1 DEF Used
<1> QED  BY <1>2

LEMMA RefsOfDisturbed ==
  ASSUME TodoTypeOK, RefsInv, Monotone, \A r \in Syncs : Undisturbed(r),
         \A d \in Desks : DeskRefs(d)',
         \A m \in maps' : Used(m)' \/ \E k \in maps : k.note = m.note /\ k.task = m.task
  PROVE  RefsInv'
<1>1. \A r \in Syncs : RunRefs(r)'
  BY RunRefsStay DEF RefsInv
<1>2. \A m \in maps' : Used(m)'
  BY PairsUsed DEF RefsInv
<1> QED  BY <1>1, <1>2 DEF RefsInv

LEMMA RefsOfRun ==
  ASSUME TodoTypeOK, RefsInv, Monotone, UNCHANGED desk, NEW s \in Syncs, Others(s), RunRefs(s)',
         \A m \in maps' : Used(m)' \/ \E k \in maps : k.note = m.note /\ k.task = m.task
  PROVE  RefsInv'
<1>1. \A r \in Syncs \ {s} : RunRefs(r)'
  BY RunRefsStay DEF RefsInv, Others
<1>2. \A m \in maps' : Used(m)'
  BY PairsUsed DEF RefsInv
<1>3. \A d \in Desks : DeskRefs(d)'
  BY DeskRefsStay DEF RefsInv
<1> QED  BY <1>1, <1>2, <1>3 DEF RefsInv

\* A step of the user.
LEMMA UserRefs ==
  ASSUME TodoTypeOK, RefsInv, Monotone, AllDisturbed, UNCHANGED <<maps, desk>>
  PROVE  RefsInv'
<1>1. \A d \in Desks : DeskRefs(d)'
  BY DeskRefsStay DEF RefsInv
<1> QED  BY <1>1, RefsOfDisturbed DEF AllDisturbed

LEMMA UserRefsStep ==
  ASSUME TodoTypeOK, RefsInv,
         \/ \E n \in Notes :
              WriteNote(n) \/ MoveNote(n, "live", "trash") \/ MoveNote(n, "trash", "live")
         \/ \E t \in Tasks : WriteTask(t) \/ DeleteTask(t)
  PROVE  TodoTypeOK' /\ RefsInv' /\ Monotone
<1>1. ASSUME NEW n \in Notes, WriteNote(n)
      PROVE  TodoTypeOK' /\ RefsInv' /\ Monotone
  <2>1. Monotone
    BY <1>1, NoteWritten DEF Monotone
  <2> QED  BY <1>1, <2>1, NoteWritten, UserRefs
<1>2. ASSUME NEW n \in Notes, NEW from \in {"live", "trash"}, NEW to \in {"live", "trash"},
             MoveNote(n, from, to)
      PROVE  TodoTypeOK' /\ RefsInv' /\ Monotone
  <2>1. Monotone
    BY <1>2, NoteMoved DEF Monotone
  <2> QED  BY <1>2, <2>1, NoteMoved, UserRefs
<1>3. ASSUME NEW t \in Tasks, WriteTask(t)
      PROVE  TodoTypeOK' /\ RefsInv' /\ Monotone
  <2>1. Monotone
    BY <1>3, TaskWritten DEF Monotone
  <2> QED  BY <1>3, <2>1, TaskWritten, UserRefs
<1>4. ASSUME NEW t \in Tasks, DeleteTask(t)
      PROVE  TodoTypeOK' /\ RefsInv' /\ Monotone
  <2>1. Monotone
    BY <1>4, TaskDeleted DEF Monotone
  <2> QED  BY <1>4, <2>1, TaskDeleted, UserRefs
<1> QED  BY <1>1, <1>2, <1>3, <1>4

\* A step of a desk.
LEMMA DeskRefsStep ==
  ASSUME TodoTypeOK, RefsInv, Monotone, NEW d \in Desks, DeskRefs(d)',
         \A e \in Desks \ {d} : desk'[e] = desk[e], \A r \in Syncs : Undisturbed(r),
         \A m \in maps' : Used(m)' \/ \E k \in maps : k.note = m.note /\ k.task = m.task
  PROVE  RefsInv'
<1>1. \A e \in Desks : DeskRefs(e)'
  BY DeskRefsStay DEF RefsInv
<1> QED  BY <1>1, RefsOfDisturbed

LEMMA DeskOnlyRefs ==
  ASSUME TodoTypeOK, RefsInv, DeskOnly, NEW d \in Desks, DeskRefs(d)',
         \A e \in Desks \ {d} : desk'[e] = desk[e]
  PROVE  RefsInv' /\ Monotone
<1>1. Monotone
  BY DEF Monotone, DeskOnly
<1>2. \A r \in Syncs : Undisturbed(r)
  BY SyncUnchanged DEF DeskOnly
<1>3. \A m \in maps' : \E k \in maps : k.note = m.note /\ k.task = m.task
  BY DEF DeskOnly
<1> QED  BY <1>1, <1>2, <1>3, DeskRefsStep

\* A desk that is left refers to nothing.
LEMMA EmptyDesk ==
  ASSUME NEW d, desk'[d].pc \notin {"create", "record"}, desk'[d].note = {}, desk'[d].task = {}
  PROVE  DeskRefs(d)'
BY DEF DeskRefs

LEMMA StartRefsStep ==
  ASSUME TodoTypeOK, RefsInv, NEW d \in Desks,
         \/ \E n \in Notes : StartExport(d, n) \/ \E external \in BOOLEAN : StartPurge(d, n, external)
         \/ DeskStops(d)
  PROVE  TodoTypeOK' /\ RefsInv' /\ Monotone
<1>1. ASSUME NEW n \in Notes, StartExport(d, n)
      PROVE  TodoTypeOK' /\ RefsInv' /\ Monotone
  <2>1. /\ TodoTypeOK' /\ DeskOnly /\ note[n].state = "live"
        /\ desk'[d].pc = "create" /\ desk'[d].note = {n} /\ desk'[d].task = {}
        /\ desk'[d].text = {note[n].text} /\ \A e \in Desks \ {d} : desk'[e] = desk[e]
    BY <1>1, ExportStarted
  <2>2. DeskRefs(d)'
    BY <2>1 DEF DeskRefs, DeskOnly
  <2> QED  BY <2>1, <2>2, DeskOnlyRefs
<1>2. ASSUME NEW n \in Notes, NEW external \in BOOLEAN, StartPurge(d, n, external)
      PROVE  TodoTypeOK' /\ RefsInv' /\ Monotone
  <2>1. /\ TodoTypeOK' /\ DeskOnly /\ note[n].state # "none"
        /\ desk'[d].pc \in {"purge", "unlink", "detach"} /\ desk'[d].note = {n}
        /\ desk'[d].task = {m.task : m \in MapsOf(n)}
        /\ \A e \in Desks \ {d} : desk'[e] = desk[e]
    BY <1>2, PurgeStarted
  <2>2. \A t \in {m.task : m \in MapsOf(n)} : task[t].state # "none"
    BY DEF RefsInv, Used, MapsOf
  <2>3. DeskRefs(d)'
    BY <2>1, <2>2 DEF DeskRefs, DeskOnly
  <2> QED  BY <2>1, <2>3, DeskOnlyRefs
<1>3. ASSUME DeskStops(d)
      PROVE  TodoTypeOK' /\ RefsInv' /\ Monotone
  BY <1>3, DeskStopped, EmptyDesk, DeskOnlyRefs
<1> QED  BY <1>1, <1>2, <1>3

LEMMA ExportRefsStep ==
  ASSUME TodoTypeOK, RefsInv, NEW d \in Desks,
         (\E t \in Tasks : CreateTask(d, t)) \/ RecordExport(d)
  PROVE  TodoTypeOK' /\ RefsInv' /\ Monotone
<1>1. ASSUME NEW t \in Tasks, CreateTask(d, t)
      PROVE  TodoTypeOK' /\ RefsInv' /\ Monotone
  <2>1. /\ TodoTypeOK' /\ AllDisturbed /\ UNCHANGED <<note, maps>>
        /\ desk[d].pc = "create" /\ task[t].state = "none" /\ task'[t].state = "live"
        /\ \A u \in Tasks \ {t} : task'[u] = task[u]
        /\ desk'[d].pc = "record" /\ desk'[d].note = desk[d].note /\ desk'[d].task = {t}
        /\ desk'[d].text = desk[d].text
        /\ \A e \in Desks \ {d} : desk'[e] = desk[e]
    BY <1>1, TaskCreated
  <2>2. Monotone
    BY <2>1 DEF Monotone
  <2>3. DeskRefs(d)'
    BY <2>1 DEF RefsInv, DeskRefs
  <2>4. \A m \in maps' : \E k \in maps : k.note = m.note /\ k.task = m.task
    BY <2>1
  <2> QED  BY <2>1, <2>2, <2>3, <2>4, DeskRefsStep DEF AllDisturbed
<1>2. ASSUME RecordExport(d)
      PROVE  TodoTypeOK' /\ RefsInv' /\ Monotone
  <2>1. /\ TodoTypeOK' /\ desk[d].pc = "record" /\ UNCHANGED <<note, task>>
        /\ \A e \in Desks \ {d} : desk'[e] = desk[e]
    BY <1>2, ExportRecorded
  <2>2. CASE /\ DeskOnly /\ desk'[d].pc = "undo" /\ desk'[d].note = desk[d].note
             /\ desk'[d].task = desk[d].task /\ desk'[d].text = desk[d].text
    <3>1. DeskRefs(d)'
      BY <2>1, <2>2 DEF RefsInv, DeskRefs
    <3> QED  BY <2>1, <2>2, <3>1, DeskOnlyRefs
  <2>3. CASE /\ AllDisturbed
             /\ desk'[d].pc = "idle" /\ desk'[d].note = {} /\ desk'[d].task = {}
             /\ \E n \in desk[d].note, t \in desk[d].task, v \in desk[d].text :
                  maps' = maps \union {Map(n, t, v, Outward(v))}
    <3>1. PICK n \in desk[d].note, t \in desk[d].task, v \in desk[d].text :
            maps' = maps \union {Map(n, t, v, Outward(v))}
      BY <2>3
    <3>2. Map(n, t, v, Outward(v)).note = n /\ Map(n, t, v, Outward(v)).task = t
      BY DEF Map
    <3>3. note[n].state # "none" /\ task[t].state # "none"
      BY DEF RefsInv, DeskRefs
    <3>4. Monotone
      BY <2>1, <3>1 DEF Monotone
    <3>5. \A m \in maps' : Used(m)' \/ \E k \in maps : k.note = m.note /\ k.task = m.task
      BY <2>1, <3>1, <3>2, <3>3 DEF Used
    <3>6. DeskRefs(d)'
      BY <2>3, EmptyDesk
    <3> QED  BY <2>1, <2>3, <3>4, <3>5, <3>6, DeskRefsStep DEF AllDisturbed
  <2> QED  BY <1>2, <2>2, <2>3, ExportRecorded
<1> QED  BY <1>1, <1>2

LEMMA RemovalRefsStep ==
  ASSUME TodoTypeOK, RefsInv, NEW d \in Desks,
         UndoExport(d) \/ Unlink(d) \/ EndMapping(d) \/ Purge(d)
  PROVE  TodoTypeOK' /\ RefsInv' /\ Monotone
<1>1. ASSUME UndoExport(d) \/ Unlink(d)
      PROVE  TodoTypeOK' /\ RefsInv' /\ Monotone
  <2>1. /\ TodoTypeOK' /\ AllDisturbed /\ UNCHANGED <<note, maps>>
        /\ \A t \in Tasks :
             task'[t].state = IF t \in desk[d].task THEN "gone" ELSE task[t].state
        /\ \A e \in Desks \ {d} : desk'[e] = desk[e]
        /\ \/ desk'[d].pc = "idle" /\ desk'[d].note = {} /\ desk'[d].task = {} /\ desk'[d].text = {}
           \/ /\ desk'[d].pc = "forget" /\ desk'[d].note = desk[d].note
              /\ desk'[d].task = desk[d].task /\ desk'[d].text = desk[d].text
    BY <1>1, TasksRemoved
  <2>2. Monotone
    BY <2>1 DEF Monotone
  <2>3. \A t \in desk[d].task : t \in Tasks /\ task'[t].state = "gone"
    BY <2>1, TodoTypes
  <2>4. DeskRefs(d)'
    BY <2>1, <2>3 DEF RefsInv, DeskRefs
  <2>5. \A m \in maps' : \E k \in maps : k.note = m.note /\ k.task = m.task
    BY <2>1
  <2> QED  BY <2>1, <2>2, <2>4, <2>5, DeskRefsStep DEF AllDisturbed
<1>2. ASSUME EndMapping(d)
      PROVE  TodoTypeOK' /\ RefsInv' /\ Monotone
  <2>1. /\ TodoTypeOK' /\ AllDisturbed /\ UNCHANGED <<note, task>>
        /\ desk'[d].pc = "purge" /\ desk'[d].note = desk[d].note /\ desk'[d].task = desk[d].task
        /\ \A e \in Desks \ {d} : desk'[e] = desk[e]
    BY <1>2, MappingEnded
  <2>2. PICK m \in maps :
          \/ desk[d].pc = "forget" /\ m.task \in desk[d].task /\ maps' = maps \ {m}
          \/ \E k \in Mapping : /\ k.note = m.note /\ k.task = m.task
                                /\ maps' = (maps \ {m}) \union {k}
    BY <1>2, MappingEnded
  <2>3. DeskRefs(d)'
    BY <2>1 DEF RefsInv, DeskRefs
  <2>4. CASE desk[d].pc = "forget" /\ m.task \in desk[d].task /\ maps' = maps \ {m}
    <3>1. task[m.task].state = "gone"
      BY <2>4 DEF RefsInv, DeskRefs
    <3>2. Monotone
      BY <2>1, <2>4, <3>1 DEF Monotone
    <3>3. \A k \in maps' : k \in maps
      BY <2>4
    <3> QED  BY <2>1, <2>3, <3>2, <3>3, DeskRefsStep DEF AllDisturbed
  <2>5. ASSUME NEW k \in Mapping, k.note = m.note, k.task = m.task, maps' = (maps \ {m}) \union {k}
        PROVE  RefsInv' /\ Monotone
    <3>1. Monotone
      BY <2>1, <2>5 DEF Monotone
    <3>2. \A h \in maps' : \E j \in maps : j.note = h.note /\ j.task = h.task
      BY <2>5
    <3> QED  BY <2>1, <2>3, <3>1, <3>2, DeskRefsStep DEF AllDisturbed
  <2> QED  BY <2>1, <2>2, <2>4, <2>5
<1>3. ASSUME Purge(d)
      PROVE  TodoTypeOK' /\ RefsInv' /\ Monotone
  <2>1. /\ TodoTypeOK' /\ AllDisturbed /\ UNCHANGED <<task, maps>>
        /\ desk'[d].pc = "idle" /\ desk'[d].note = {} /\ desk'[d].task = {}
        /\ \A e \in Desks \ {d} : desk'[e] = desk[e]
        /\ \A n \in Notes : note[n].state # "none" => note'[n].state # "none"
    BY <1>3, NotePurged
  <2>2. Monotone
    BY <2>1 DEF Monotone
  <2>3. DeskRefs(d)'
    BY <2>1, EmptyDesk
  <2>4. \A m \in maps' : \E k \in maps : k.note = m.note /\ k.task = m.task
    BY <2>1
  <2> QED  BY <2>1, <2>2, <2>3, <2>4, DeskRefsStep DEF AllDisturbed
<1> QED  BY <1>1, <1>2, <1>3

\* A run looks at what there is.
LEMMA ListingRefsStep ==
  ASSUME TodoTypeOK, RefsInv, NEW s \in Syncs, StartSync(s) \/ ListTasks(s) \/ ReadMappings(s)
  PROVE  TodoTypeOK' /\ RefsInv' /\ Monotone
<1>1. Monotone /\ UNCHANGED <<note, task, maps, desk>>
  BY DEF Monotone, StartSync, ListTasks, ReadMappings
<1>2. \A m \in maps' : \E k \in maps : k.note = m.note /\ k.task = m.task
  BY <1>1
<1>3. RunRefs(s)
  BY DEF RefsInv
<1>4. ASSUME StartSync(s)
      PROVE  TodoTypeOK' /\ Others(s) /\ RunRefs(s)'
  <2>1. TodoTypeOK' /\ Others(s) /\ RunFields(s, "list", {}, {}, {}, {})
    BY <1>4, RunStarted
  <2>2. Known(s)' = {} /\ Open(s)' = {}
    BY <2>1, HandIs
  <2> QED  BY <2>1, <2>2 DEF RunRefs
<1>5. ASSUME ListTasks(s)
      PROVE  TodoTypeOK' /\ Others(s) /\ RunRefs(s)'
  <2>1. PICK listed :
          /\ TodoTypeOK' /\ Others(s)
          /\ RunFields(s, "maps", listed, sync[s].maps, sync[s].missing, sync[s].at)
          /\ \A x \in sync'[s].tasks : x.task \in Tasks /\ task[x.task].state = "live"
    BY <1>5, TasksListed
  <2>2. Known(s)' = sync[s].maps /\ Open(s)' = listed /\ listed = sync'[s].tasks
    BY <2>1, HandIs DEF RunFields
  <2>3. \A m \in Known(s)' : Used(m)' /\ StillThere(m)'
    <3>1. \A m \in Known(s)' : m \in Known(s)
      BY <2>2 DEF Known
    <3> QED  BY <1>1, <1>3, <3>1, RefersStill, KnownTypes DEF RunRefs
  <2>4. \A x \in Open(s)' : task'[x.task].state # "none"
    BY <1>1, <2>1, <2>2
  <2> QED  BY <2>1, <2>3, <2>4 DEF RunRefs
<1>6. ASSUME ReadMappings(s)
      PROVE  TodoTypeOK' /\ Others(s) /\ RunRefs(s)'
  <2>1. /\ TodoTypeOK' /\ Others(s)
        /\ RunFields(s, "next", sync[s].tasks, {m \in maps : \E x \in sync[s].tasks : x.task = m.task},
                     Missing(sync[s].tasks), sync[s].at)
    BY <1>6, MappingsRead
  <2>2. /\ Known(s)' = {m \in maps : \E x \in sync[s].tasks : x.task = m.task}
        /\ Open(s)' = sync[s].tasks
    BY <2>1, HandIs
  <2>3. \A m \in Known(s)' : m \in maps
    BY <2>2
  <2>4. \A m \in Known(s)' : Used(m)' /\ StillThere(m)'
    BY <1>1, <2>3 DEF RefsInv, Used, StillThere
  <2>5. \A x \in Open(s)' : task'[x.task].state # "none"
    BY <1>1, <1>3, <2>2 DEF RunRefs, Open
  <2> QED  BY <2>1, <2>4, <2>5 DEF RunRefs
<1> QED  BY <1>1, <1>2, <1>4, <1>5, <1>6, RefsOfRun

\* A run goes through its tasks.
LEMMA TaskRefsStep ==
  ASSUME TodoTypeOK, RefsInv, NEW s \in Syncs, NEW x \in sync[s].tasks,
         ImportTask(s, x) \/ SkipTask(s, x) \/ ReadNote(s, x)
  PROVE  TodoTypeOK' /\ RefsInv' /\ Monotone
<1>1. RunRefs(s) /\ \A m \in maps : Used(m)
  BY DEF RefsInv
<1>2. x \in Open(s) /\ x.task \in Tasks /\ task[x.task].state # "none"
  BY <1>1, KnownTypes DEF Open, RunRefs
<1>3. ASSUME ImportTask(s, x)
      PROVE  TodoTypeOK' /\ RefsInv' /\ Monotone
  <2>1. /\ TodoTypeOK' /\ Others(s) /\ UNCHANGED <<task, desk>> /\ sync[s].pc = "next"
        /\ RunFields(s, "next", sync[s].tasks \ {x}, sync[s].maps, sync[s].missing, sync[s].at)
    BY <1>3, TaskImported
  <2>2. /\ Known(s)' = sync[s].maps /\ Open(s)' = sync[s].tasks \ {x}
    BY <2>1, HandIs
  <2>3. /\ Open(s)' \subseteq Open(s)
        /\ \A m \in Known(s)' : \E k \in Known(s) : k.note = m.note /\ k.task = m.task
    BY <2>2 DEF Open, Known
  <2>4. CASE UNCHANGED <<note, maps>>
    <3>1. Monotone
      BY <2>1, <2>4 DEF Monotone
    <3>2. \A m \in maps' : \E k \in maps : k.note = m.note /\ k.task = m.task
      BY <2>4
    <3> QED  BY <1>1, <2>1, <2>3, <3>1, <3>2, RunRefsLess, RefsOfRun
  <2>5. ASSUME NEW n \in Notes, NEW k \in Mapping, Imported(x, n, k)
        PROVE  RefsInv' /\ Monotone
    <3>1. Monotone
      BY <2>1, <2>5 DEF Monotone, Imported
    <3>2. Used(k)'
      BY <1>2, <2>1, <2>5 DEF Used, Imported
    <3>3. \A m \in maps' : Used(m)' \/ \E h \in maps : h.note = m.note /\ h.task = m.task
      BY <2>5, <3>2 DEF Imported
    <3> QED  BY <1>1, <2>1, <2>3, <3>1, <3>3, RunRefsLess, RefsOfRun
  <2>6. \/ UNCHANGED <<note, maps>>
        \/ \E n \in Notes, k \in Mapping : Imported(x, n, k)
    BY <1>3, TaskImported
  <2> QED  BY <2>1, <2>4, <2>5, <2>6
<1>4. ASSUME SkipTask(s, x) \/ ReadNote(s, x)
      PROVE  TodoTypeOK' /\ RefsInv' /\ Monotone
  <2>1. Monotone /\ UNCHANGED <<note, task, maps, desk>>
    BY <1>4 DEF Monotone, SkipTask, ReadNote
  <2>2. \A m \in maps' : \E k \in maps : k.note = m.note /\ k.task = m.task
    BY <2>1
  <2>3. CASE SkipTask(s, x)
    <3>1. /\ TodoTypeOK' /\ Others(s)
          /\ RunFields(s, "next", sync[s].tasks \ {x}, sync[s].maps \ MappingFor(s, x),
                       sync[s].missing, sync[s].at)
      BY <2>3, TaskSkipped
    <3>2. Known(s)' = sync[s].maps \ MappingFor(s, x) /\ Open(s)' = sync[s].tasks \ {x}
      BY <3>1, HandIs
    <3>3. /\ Open(s)' \subseteq Open(s)
          /\ \A m \in Known(s)' : \E k \in Known(s) : k.note = m.note /\ k.task = m.task
      BY <3>2 DEF Open, Known
    <3> QED  BY <1>1, <2>1, <2>2, <3>1, <3>3, RunRefsLess, RefsOfRun
  <2>4. CASE ReadNote(s, x)
    <3>1. PICK m \in sync[s].maps, c \in Decision :
            /\ c.map = m /\ c.task = x
            /\ RunFields(s, "write", sync[s].tasks \ {x}, sync[s].maps \ MappingFor(s, x),
                         sync[s].missing, {c})
      <4>1. PICK m \in sync[s].maps, c \in Decision : Decided(s, x, m, c)
        BY <2>4, NoteRead
      <4> QED  BY <4>1 DEF Decided
    <3>2. TodoTypeOK' /\ Others(s)
      BY <2>4, NoteRead
    <3>3. /\ Known(s)' = (sync[s].maps \ MappingFor(s, x)) \union {m}
          /\ Open(s)' = (sync[s].tasks \ {x}) \union {x}
      BY <3>1, HandIs
    <3>4. /\ Open(s)' \subseteq Open(s)
          /\ \A k \in Known(s)' : \E h \in Known(s) : h.note = k.note /\ h.task = k.task
      BY <3>3 DEF Open, Known
    <3> QED  BY <1>1, <2>1, <2>2, <3>2, <3>4, RunRefsLess, RefsOfRun
  <2> QED  BY <1>4, <2>3, <2>4
<1> QED  BY <1>3, <1>4

\* A run writes, records, throws away or ends.
LEMMA WritingRefsStep ==
  ASSUME TodoTypeOK, RefsInv, NEW s \in Syncs, WriteBack(s) \/ SendOut(s)
  PROVE  TodoTypeOK' /\ RefsInv' /\ Monotone
<1>1. RunRefs(s)
  BY DEF RefsInv
<1>2. PICK c \in Decision, h \in Mapping : WrittenBack(s, c, h) \/ SentOut(s, c, h)
  BY TextWrittenBack, TextSent
<1>3. TodoTypeOK' /\ Others(s) /\ UNCHANGED <<maps, desk>> /\ sync[s].pc = "write"
  BY TextWrittenBack, TextSent
<1>4. Monotone
  <2>1. CASE WriteBack(s)
    <3>1. \A n \in Notes : note'[n].state = note[n].state
      BY <2>1, TextWrittenBack DEF WrittenBack
    <3> QED  BY <1>3, <2>1, <3>1 DEF Monotone, WriteBack
  <2>2. CASE SendOut(s)
    <3>1. \A t \in Tasks : task'[t].state = task[t].state
      BY <2>2, TextSent DEF SentOut
    <3> QED  BY <1>3, <2>2, <3>1 DEF Monotone, SendOut
  <2> QED  BY <2>1, <2>2
<1>5. Known(s)' = sync[s].maps \union {h} /\ Open(s)' = sync[s].tasks
  BY <1>2, HandIs DEF WrittenBack, SentOut
<1>6. c.map \in Known(s) /\ h.note = c.map.note /\ h.task = c.map.task
  BY <1>2, <1>3 DEF Known, InHand, WrittenBack, SentOut
<1>7. /\ Open(s)' \subseteq Open(s)
      /\ \A m \in Known(s)' : \E k \in Known(s) : k.note = m.note /\ k.task = m.task
  BY <1>5, <1>6 DEF Open, Known
<1>8. \A m \in maps' : \E k \in maps : k.note = m.note /\ k.task = m.task
  BY <1>3
<1> QED  BY <1>1, <1>3, <1>4, <1>7, <1>8, RunRefsLess, RefsOfRun

LEMMA EndingRefsStep ==
  ASSUME TodoTypeOK, RefsInv, NEW s \in Syncs,
         \/ RecordHashes(s) \/ ThrowAway(s) \/ FinishSync(s) \/ SyncStops(s)
         \/ \E m \in sync[s].missing : ReadMissing(s, m)
  PROVE  TodoTypeOK' /\ RefsInv' /\ Monotone
<1>1. RunRefs(s)
  BY DEF RefsInv
<1>2. ASSUME RecordHashes(s) \/ ThrowAway(s)
      PROVE  TodoTypeOK' /\ RefsInv' /\ Monotone
  <2>1. /\ TodoTypeOK' /\ Others(s) /\ UNCHANGED <<task, desk>>
        /\ RunFields(s, "next", sync[s].tasks, sync[s].maps, sync[s].missing, {})
    BY <1>2, HashesRecorded, NoteThrownAway
  <2>2. PICK m \in maps, k \in Mapping :
          k.note = m.note /\ k.task = m.task /\ maps' = (maps \ {m}) \union {k}
    <3>1. PICK c \in Mapping, m \in maps, k \in Mapping : PutBack(s, c, m, k) \/ Throwing(s, c, m, k)
      BY <1>2, HashesRecorded, NoteThrownAway
    <3> QED  BY <3>1 DEF PutBack, Throwing
  <2>3. \A n \in Notes : note[n].state # "none" => note'[n].state # "none"
    <3>1. CASE RecordHashes(s)
      BY <3>1, HashesRecorded DEF PutBack
    <3>2. CASE ThrowAway(s)
      BY <3>2, NoteThrownAway DEF Throwing
    <3> QED  BY <1>2, <3>1, <3>2
  <2>4. Monotone
    BY <2>1, <2>2, <2>3 DEF Monotone
  <2>5. Known(s)' = sync[s].maps /\ Open(s)' = sync[s].tasks
    BY <2>1, HandIs
  <2>6. /\ Open(s)' \subseteq Open(s)
        /\ \A h \in Known(s)' : \E j \in Known(s) : j.note = h.note /\ j.task = h.task
    BY <2>5 DEF Open, Known
  <2>7. \A h \in maps' : \E j \in maps : j.note = h.note /\ j.task = h.task
    BY <2>2
  <2> QED  BY <1>1, <2>1, <2>4, <2>6, <2>7, RunRefsLess, RefsOfRun
<1>3. ASSUME \/ FinishSync(s) \/ SyncStops(s) \/ \E m \in sync[s].missing : ReadMissing(s, m)
      PROVE  TodoTypeOK' /\ RefsInv' /\ Monotone
  <2>1. Monotone /\ UNCHANGED <<note, task, maps, desk>>
    BY <1>3 DEF Monotone, FinishSync, SyncStops, ReadMissing
  <2>2. \A m \in maps' : \E k \in maps : k.note = m.note /\ k.task = m.task
    BY <2>1
  <2>3. ASSUME FinishSync(s) \/ SyncStops(s)
        PROVE  TodoTypeOK' /\ RefsInv'
    <3>1. TodoTypeOK' /\ Others(s) /\ RunFields(s, "idle", {}, {}, {}, {})
      BY <2>3, RunEnded
    <3>2. Known(s)' = {} /\ Open(s)' = {}
      BY <3>1, HandIs
    <3>3. RunRefs(s)'
      BY <3>2 DEF RunRefs
    <3> QED  BY <2>1, <2>2, <3>1, <3>3, RefsOfRun
  <2>4. ASSUME NEW m \in sync[s].missing, ReadMissing(s, m)
        PROVE  TodoTypeOK' /\ RefsInv'
    <3>1. TodoTypeOK' /\ Others(s) /\ sync[s].tasks = {}
      BY <2>4, MissingRead
    <3>2. \E pc \in {"trash", "next"} : \E at :
            RunFields(s, pc, {}, sync[s].maps, sync[s].missing \ {m}, at)
      BY <2>4, MissingRead
    <3>3. Known(s)' = sync[s].maps /\ Open(s)' = {}
      <4>1. PICK pc : pc \in {"trash", "next"} /\ \E at :
              RunFields(s, pc, {}, sync[s].maps, sync[s].missing \ {m}, at)
        BY <3>2
      <4>2. PICK at : RunFields(s, pc, {}, sync[s].maps, sync[s].missing \ {m}, at)
        BY <4>1
      <4> QED  BY <4>1, <4>2, HandIs
    <3>4. /\ Open(s)' \subseteq Open(s)
          /\ \A h \in Known(s)' : \E j \in Known(s) : j.note = h.note /\ j.task = h.task
      BY <3>3 DEF Open, Known
    <3> QED  BY <1>1, <2>1, <2>2, <3>1, <3>4, RunRefsLess, RefsOfRun
  <2> QED  BY <1>3, <2>1, <2>3, <2>4
<1> QED  BY <1>2, <1>3

LEMMA TodoStutters ==
  ASSUME TodoTypeOK, UNCHANGED todoVars
  PROVE  /\ TodoTypeOK' /\ Monotone
         /\ \A r \in Syncs : Undisturbed(r) /\ sync'[r].calm = sync[r].calm
<1>1. \A r \in Syncs : Undisturbed(r) /\ sync'[r].calm = sync[r].calm
  BY SyncUnchanged DEF todoVars
<1> QED  BY <1>1 DEF TodoTypeOK, Monotone, todoVars

LEMMA RefsStep ==
  ASSUME TodoTypeOK, RefsInv, [TodoNext]_todoVars
  PROVE  TodoTypeOK' /\ RefsInv' /\ Monotone
<1>1. CASE UNCHANGED todoVars
  BY <1>1, TodoStutters DEF RefsInv, RunRefs, DeskRefs, Used, StillThere, Known, Open, InHand,
     AtHand, todoVars
<1>2. CASE \/ \E n \in Notes :
                WriteNote(n) \/ MoveNote(n, "live", "trash") \/ MoveNote(n, "trash", "live")
           \/ \E t \in Tasks : WriteTask(t) \/ DeleteTask(t)
  BY <1>2, UserRefsStep
<1>3. ASSUME NEW s \in Syncs, StartSync(s) \/ ListTasks(s) \/ ReadMappings(s)
      PROVE  TodoTypeOK' /\ RefsInv' /\ Monotone
  BY <1>3, ListingRefsStep
<1>4. ASSUME NEW s \in Syncs,
             \E x \in sync[s].tasks : ImportTask(s, x) \/ SkipTask(s, x) \/ ReadNote(s, x)
      PROVE  TodoTypeOK' /\ RefsInv' /\ Monotone
  BY <1>4, TaskRefsStep
<1>5. ASSUME NEW s \in Syncs, WriteBack(s) \/ SendOut(s)
      PROVE  TodoTypeOK' /\ RefsInv' /\ Monotone
  BY <1>5, WritingRefsStep
<1>6. ASSUME NEW s \in Syncs,
             \/ RecordHashes(s) \/ ThrowAway(s) \/ FinishSync(s) \/ SyncStops(s)
             \/ \E m \in sync[s].missing : ReadMissing(s, m)
      PROVE  TodoTypeOK' /\ RefsInv' /\ Monotone
  BY <1>6, EndingRefsStep
<1>7. ASSUME NEW d \in Desks,
             \/ \E n \in Notes : StartExport(d, n) \/ \E external \in BOOLEAN : StartPurge(d, n, external)
             \/ DeskStops(d)
      PROVE  TodoTypeOK' /\ RefsInv' /\ Monotone
  BY <1>7, StartRefsStep
<1>8. ASSUME NEW d \in Desks, (\E t \in Tasks : CreateTask(d, t)) \/ RecordExport(d)
      PROVE  TodoTypeOK' /\ RefsInv' /\ Monotone
  BY <1>8, ExportRefsStep
<1>9. ASSUME NEW d \in Desks, UndoExport(d) \/ Unlink(d) \/ EndMapping(d) \/ Purge(d)
      PROVE  TodoTypeOK' /\ RefsInv' /\ Monotone
  BY <1>9, RemovalRefsStep
<1> QED  BY <1>1, <1>2, <1>3, <1>4, <1>5, <1>6, <1>7, <1>8, <1>9 DEF TodoNext

LEMMA TodoBegins ==
  ASSUME TodoInit
  PROVE  /\ TodoTypeOK /\ RefsInv
         /\ \A s \in Syncs : /\ sync[s].pc = "idle" /\ sync[s].tasks = {} /\ sync[s].maps = {}
                             /\ sync[s].missing = {} /\ sync[s].at = {} /\ sync[s].calm = FALSE
                             /\ InHand(s) = {} /\ Known(s) = {} /\ Open(s) = {}
         /\ \A d \in Desks : /\ desk[d].pc = "idle" /\ desk[d].note = {} /\ desk[d].task = {}
                             /\ desk[d].text = {}
         /\ settled = FALSE /\ crossed = FALSE /\ interrupted = FALSE
         /\ \A n \in Notes : note[n].text.from = n /\ note[n].text.cut = FALSE
         /\ \A t \in Tasks : \/ task[t].text.from = Microsoft
                             \/ /\ task[t].text.from \in Notes /\ task[t].text.cut = TRUE
                                /\ note[task[t].text.from].state # "none"
         /\ \A m \in maps : /\ m.external = task[m.task].text /\ m.local.id = m.external.id
                            /\ m.deleted = FALSE
<1>1. PICK n \in Notes, t \in Tasks, exported \in BOOLEAN :
       /\ note = [m \in Notes |->
            [state |-> IF exported /\ m = n THEN "live" ELSE "none", text |-> First(m),
             at |-> 1, by |-> "user"]]
       /\ task = [u \in Tasks |->
            IF exported /\ u = t
              THEN [state |-> "live", text |-> Outward(First(n)), at |-> 1]
              ELSE [state |-> "none", text |-> [id |-> 1, from |-> Microsoft, cut |-> TRUE], at |-> 1]]
       /\ maps = IF exported THEN {Map(n, t, First(n), Outward(First(n)))} ELSE {}
  BY DEF TodoInit
<1>2. 1 \in 1..MaxTime
  BY SyncAssumption
<1>3. PICK first \in Text, sent \in Text :
        /\ first = First(n) /\ first.from = n /\ first.cut = FALSE
        /\ sent = Outward(First(n)) /\ sent.from = n /\ sent.cut = TRUE /\ sent.id = first.id
  <2>1. First(n) \in Text /\ First(n).from = n /\ First(n).cut = FALSE
    BY <1>2 DEF First, Text
  <2>2. PICK first \in Text : first = First(n)
    BY <2>1
  <2>3. /\ Outward(first) \in Text /\ Outward(first).id = first.id /\ Outward(first).from = first.from
        /\ Outward(first).cut = TRUE
    BY OutwardText
  <2> QED  BY <2>1, <2>2, <2>3
<1>4. ASSUME NEW m \in Notes
      PROVE  /\ note[m] \in NoteRow /\ note[m].state = (IF exported /\ m = n THEN "live" ELSE "none")
             /\ note[m].text.from = m /\ note[m].text.cut = FALSE
  <2>1. First(m) \in Text /\ First(m).from = m /\ First(m).cut = FALSE
    BY <1>2 DEF First, Text
  <2>2. PICK state : state = IF exported /\ m = n THEN "live" ELSE "none"
    OBVIOUS
  <2>3. PICK row : row = [state |-> state, text |-> First(m), at |-> 1, by |-> "user"]
    OBVIOUS
  <2>4. row \in NoteRow /\ row.state = state /\ row.text = First(m)
    BY <1>2, <2>1, <2>2, <2>3 DEF NoteRow
  <2>5. note[m] = row
    BY <1>1, <2>2, <2>3
  <2> QED  BY <2>1, <2>2, <2>4, <2>5
<1>5. ASSUME NEW u \in Tasks
      PROVE  /\ task[u] \in TaskRow
             /\ task[u].state = (IF exported /\ u = t THEN "live" ELSE "none")
             /\ exported /\ u = t => task[u].text = sent
             /\ ~(exported /\ u = t) => task[u].text.from = Microsoft
  <2>1. PICK theirs : theirs = [id |-> 1, from |-> Microsoft, cut |-> TRUE]
    OBVIOUS
  <2>2. theirs \in Text /\ theirs.from = Microsoft
    BY <1>2, <2>1 DEF Text
  <2>3. CASE exported /\ u = t
    <3>1. PICK row : row = [state |-> "live", text |-> sent, at |-> 1]
      OBVIOUS
    <3>2. row \in TaskRow /\ row.state = "live" /\ row.text = sent
      BY <1>2, <3>1 DEF TaskRow
    <3>3. task[u] = row
      BY <1>1, <1>3, <2>3, <3>1
    <3> QED  BY <2>3, <3>2, <3>3
  <2>4. CASE ~(exported /\ u = t)
    <3>1. PICK row : row = [state |-> "none", text |-> theirs, at |-> 1]
      OBVIOUS
    <3>2. row \in TaskRow /\ row.state = "none" /\ row.text = theirs
      BY <1>2, <2>2, <3>1 DEF TaskRow
    <3>3. task[u] = row
      BY <1>1, <2>1, <2>4, <3>1
    <3> QED  BY <2>2, <2>4, <3>2, <3>3
  <2> QED  BY <2>3, <2>4
<1>6. PICK k : k = Map(n, t, first, sent)
  OBVIOUS
<1>7. /\ k \in Mapping /\ k.note = n /\ k.task = t /\ k.local = first /\ k.external = sent
      /\ k.deleted = FALSE
  BY <1>6 DEF Map, Mapping
<1>8. maps = IF exported THEN {k} ELSE {}
  BY <1>1, <1>3, <1>6
<1>9. note \in [Notes -> NoteRow] /\ task \in [Tasks -> TaskRow]
  BY <1>1, <1>4, <1>5
<1>10. PICK run : run = NoSync
  OBVIOUS
<1>11. /\ run \in Run /\ run.pc = "idle" /\ run.tasks = {} /\ run.maps = {}
       /\ run.missing = {} /\ run.at = {} /\ run.calm = FALSE
  BY <1>10 DEF NoSync, Run
<1>12. PICK empty : empty = NoDesk
  OBVIOUS
<1>13. /\ empty \in DeskState /\ empty.pc = "idle" /\ empty.note = {} /\ empty.task = {}
       /\ empty.text = {}
  BY <1>12 DEF NoDesk, DeskState
<1>14. /\ sync = [s \in Syncs |-> run] /\ desk = [d \in Desks |-> empty] /\ time = 1
       /\ settled = FALSE /\ interrupted = FALSE /\ crossed = FALSE
  BY <1>10, <1>12 DEF TodoInit
<1>15. \A s \in Syncs : /\ sync[s].pc = "idle" /\ sync[s].tasks = {} /\ sync[s].maps = {}
                        /\ sync[s].missing = {} /\ sync[s].at = {} /\ sync[s].calm = FALSE
  BY <1>11, <1>14
<1>16. \A s \in Syncs : InHand(s) = {} /\ Known(s) = {} /\ Open(s) = {}
  BY <1>15 DEF InHand, AtHand, Known, Open
<1>17. \A d \in Desks : /\ desk[d].pc = "idle" /\ desk[d].note = {} /\ desk[d].task = {}
                        /\ desk[d].text = {}
  BY <1>13, <1>14
<1>18. TodoTypeOK
  <2>1. maps \subseteq Mapping /\ \A h, m \in maps : h.note = m.note \/ h.task = m.task => h = m
    BY <1>7, <1>8
  <2>2. sync \in [Syncs -> Run] /\ desk \in [Desks -> DeskState]
    BY <1>11, <1>13, <1>14
  <2> QED  BY <1>2, <1>9, <1>14, <1>15, <2>1, <2>2 DEF TodoTypeOK
<1>19. \A m \in maps : /\ Used(m) /\ m.external = task[m.task].text /\ m.local.id = m.external.id
                       /\ m.deleted = FALSE
  <2>1. \A m \in maps : exported /\ m = k
    BY <1>8
  <2>2. CASE exported
    <3>1. note[n].state = "live"
      BY <1>4, <2>2
    <3>2. task[t].state = "live" /\ task[t].text = sent
      BY <1>5, <2>2
    <3> QED  BY <1>3, <1>7, <2>1, <3>1, <3>2 DEF Used
  <2> QED  BY <2>1, <2>2
<1>20. RefsInv
  BY <1>16, <1>17, <1>19 DEF RefsInv, RunRefs, DeskRefs
<1>21. ASSUME NEW u \in Tasks
       PROVE  \/ task[u].text.from = Microsoft
              \/ /\ task[u].text.from \in Notes /\ task[u].text.cut = TRUE
                 /\ note[task[u].text.from].state # "none"
  <2>1. CASE exported /\ u = t
    <3>1. task[u].text = sent /\ note[n].state = "live"
      BY <1>4, <1>5, <2>1
    <3>2. sent.from = n /\ sent.cut = TRUE
      BY <1>3
    <3> QED  BY <3>1, <3>2
  <2>2. CASE ~(exported /\ u = t)
    BY <1>5, <2>2
  <2> QED  BY <2>1, <2>2
<1> QED  BY <1>4, <1>14, <1>15, <1>16, <1>17, <1>18, <1>19, <1>20, <1>21

\* Every note, task, mapping, run and desk has its type in every state, the two unique
\* indexes of the mappings included: importTask and exportNote never leave a second mapping
\* of a note or of a task.
THEOREM TodoTypeCorrect == TodoSpec => [](TodoTypeOK /\ RefsInv)
<1>1. TodoInit => TodoTypeOK /\ RefsInv
  BY TodoBegins
<1>2. TodoTypeOK /\ RefsInv /\ [TodoNext]_todoVars => TodoTypeOK' /\ RefsInv'
  BY RefsStep
<1> QED  BY <1>1, <1>2, PTL DEF TodoSpec

-----------------------------------------------------------------------------
(* TodoSync: lists, hashes and what is thrown away *)

LEMMA UndisturbedLists ==
  ASSUME NEW r, RunLists(r), Undisturbed(r)
  PROVE  RunLists(r)'
BY DEF RunLists, Undisturbed

\* What a run does, as the other runs see it.
LEMMA ListsOfRun ==
  ASSUME ListInv, NEW s \in Syncs, Others(s), RunLists(s)'
  PROVE  ListInv'
BY UndisturbedLists DEF ListInv, Others

LEMMA ListsOfDisturbed ==
  ASSUME ListInv, \A r \in Syncs : Undisturbed(r)
  PROVE  ListInv'
BY UndisturbedLists DEF ListInv

\* What a desk, the user and a run do.
DeskStep(d) ==
  \/ \E n \in Notes : StartExport(d, n) \/ \E external \in BOOLEAN : StartPurge(d, n, external)
  \/ \E t \in Tasks : CreateTask(d, t)
  \/ RecordExport(d) \/ UndoExport(d) \/ Unlink(d) \/ EndMapping(d) \/ Purge(d)
  \/ DeskStops(d)
UserStep ==
  \/ \E n \in Notes :
       WriteNote(n) \/ MoveNote(n, "live", "trash") \/ MoveNote(n, "trash", "live")
  \/ \E t \in Tasks : WriteTask(t) \/ DeleteTask(t)
RunStep(s) ==
  \/ StartSync(s) \/ ListTasks(s) \/ ReadMappings(s)
  \/ \E x \in sync[s].tasks : ImportTask(s, x) \/ SkipTask(s, x) \/ ReadNote(s, x)
  \/ WriteBack(s) \/ SendOut(s) \/ RecordHashes(s)
  \/ \E m \in sync[s].missing : ReadMissing(s, m)
  \/ ThrowAway(s) \/ FinishSync(s) \/ SyncStops(s)

LEMMA TodoSteps ==
  TodoNext <=> UserStep \/ (\E s \in Syncs : RunStep(s)) \/ \E d \in Desks : DeskStep(d)
BY DEF TodoNext, UserStep, RunStep, DeskStep

LEMMA UserDisturbs ==
  ASSUME TodoTypeOK, UserStep
  PROVE  AllDisturbed /\ UNCHANGED <<maps, desk, interrupted, crossed>>
BY NoteWritten, NoteMoved, TaskWritten, TaskDeleted DEF UserStep

LEMMA DeskDisturbs ==
  ASSUME TodoTypeOK, NEW d \in Desks, DeskStep(d)
  PROVE  /\ AllDisturbed \/ DeskOnly
         /\ \A r \in Syncs : Undisturbed(r)
         /\ UNCHANGED interrupted
         /\ \A e \in Desks \ {d} : desk'[e] = desk[e]
<1>1. AllDisturbed \/ DeskOnly
  BY ExportStarted, PurgeStarted, DeskStopped, TaskCreated, ExportRecorded, TasksRemoved,
     MappingEnded, NotePurged DEF DeskStep
<1>2. \A r \in Syncs : Undisturbed(r)
  BY <1>1, SyncUnchanged DEF AllDisturbed, DeskOnly
<1>3. UNCHANGED interrupted
  BY DEF DeskStep, StartExport, StartPurge, CreateTask, RecordExport, UndoExport, Unlink, EndMapping,
     Purge, DeskStops
<1>4. \A e \in Desks \ {d} : desk'[e] = desk[e]
  BY ExportStarted, PurgeStarted, DeskStopped, TaskCreated, ExportRecorded, TasksRemoved,
     MappingEnded, NotePurged DEF DeskStep
<1> QED  BY <1>1, <1>2, <1>3, <1>4

LEMMA ListsRunStep ==
  ASSUME TodoTypeOK, RefsInv, ListInv, NEW s \in Syncs, RunStep(s)
  PROVE  ListInv'
<1>1. RunLists(s)
  BY DEF ListInv
<1>2. SUFFICES Others(s) /\ RunLists(s)'
  BY ListsOfRun
<1>3. CASE StartSync(s) \/ FinishSync(s) \/ SyncStops(s)
  <2>1. /\ Others(s) /\ sync'[s].tasks = {} /\ sync'[s].maps = {}
        /\ sync'[s].pc \in {"list", "idle"}
    BY <1>3, RunStarted, RunEnded DEF RunFields
  <2> QED  BY <2>1 DEF RunLists
<1>4. CASE ListTasks(s)
  <2>1. PICK listed :
          /\ Others(s) /\ sync[s].pc = "list"
          /\ RunFields(s, "maps", listed, sync[s].maps, sync[s].missing, sync[s].at)
          /\ \A x, y \in sync'[s].tasks : x.task = y.task => x = y
    BY <1>4, TasksListed
  <2>2. sync'[s].pc = "maps" /\ sync'[s].maps = sync[s].maps /\ InHand(s)' = {}
    BY <2>1, HandIs DEF RunFields
  <2> QED  BY <1>1, <2>1, <2>2 DEF RunLists
<1>5. CASE ReadMappings(s)
  <2>1. /\ Others(s) /\ sync[s].pc = "maps"
        /\ RunFields(s, "next", sync[s].tasks, {m \in maps : \E x \in sync[s].tasks : x.task = m.task},
                     Missing(sync[s].tasks), sync[s].at)
    BY <1>5, MappingsRead
  <2>2. sync'[s].pc = "next" /\ sync'[s].tasks = sync[s].tasks /\ InHand(s)' = {}
    BY <2>1, HandIs DEF RunFields
  <2> QED  BY <1>1, <2>1, <2>2 DEF RunLists
<1>6. ASSUME NEW x \in sync[s].tasks, ImportTask(s, x) \/ SkipTask(s, x)
      PROVE  Others(s) /\ RunLists(s)'
  <2>1. /\ Others(s)
        /\ \E mappings : RunFields(s, "next", sync[s].tasks \ {x}, mappings, sync[s].missing, sync[s].at)
    BY <1>6, TaskImported, TaskSkipped
  <2>2. sync'[s].pc = "next" /\ sync'[s].tasks = sync[s].tasks \ {x} /\ InHand(s)' = {}
    <3>1. PICK mappings :
            RunFields(s, "next", sync[s].tasks \ {x}, mappings, sync[s].missing, sync[s].at)
      BY <2>1
    <3> QED  BY <3>1, HandIs DEF RunFields
  <2> QED  BY <1>1, <2>1, <2>2 DEF RunLists
<1>7. ASSUME NEW x \in sync[s].tasks, ReadNote(s, x)
      PROVE  Others(s) /\ RunLists(s)'
  <2>1. PICK m \in sync[s].maps, c \in Decision :
          /\ m.task = x.task /\ c.map = m /\ c.task = x
          /\ RunFields(s, "write", sync[s].tasks \ {x}, sync[s].maps \ MappingFor(s, x),
                       sync[s].missing, {c})
    <3>1. PICK m \in sync[s].maps, c \in Decision : Decided(s, x, m, c)
      BY <1>7, NoteRead
    <3> QED  BY <3>1 DEF Decided
  <2>2. Others(s)
    BY <1>7, NoteRead
  <2>3. /\ sync'[s].pc = "write" /\ sync'[s].tasks = sync[s].tasks \ {x} /\ sync'[s].at = {c}
        /\ InHand(s)' = {m}
    BY <2>1, HandIs DEF RunFields
  <2> QED  BY <1>1, <2>1, <2>2, <2>3 DEF RunLists
<1>8. CASE WriteBack(s) \/ SendOut(s)
  <2>1. PICK c \in Decision, h \in Mapping : WrittenBack(s, c, h) \/ SentOut(s, c, h)
    BY <1>8, TextWrittenBack, TextSent
  <2>2. Others(s) /\ sync[s].pc = "write"
    BY <1>8, TextWrittenBack, TextSent
  <2>3. /\ sync[s].at = {c} /\ h.task = c.map.task
        /\ RunFields(s, "record", sync[s].tasks, sync[s].maps, sync[s].missing, {h})
    BY <2>1 DEF WrittenBack, SentOut
  <2>4. /\ sync'[s].pc = "record" /\ sync'[s].tasks = sync[s].tasks /\ InHand(s)' = {h}
        /\ InHand(s) = {c.map}
    BY <2>2, <2>3, HandIs DEF RunFields, InHand
  <2> QED  BY <1>1, <2>2, <2>3, <2>4 DEF RunLists
<1>9. CASE RecordHashes(s) \/ ThrowAway(s)
  <2>1. /\ Others(s) /\ sync[s].pc \in {"record", "trash"}
        /\ RunFields(s, "next", sync[s].tasks, sync[s].maps, sync[s].missing, {})
    BY <1>9, HashesRecorded, NoteThrownAway
  <2>2. sync'[s].pc = "next" /\ sync'[s].tasks = sync[s].tasks /\ InHand(s)' = {}
    BY <2>1, HandIs DEF RunFields
  <2> QED  BY <1>1, <2>1, <2>2 DEF RunLists
<1>10. ASSUME NEW m \in sync[s].missing, ReadMissing(s, m)
       PROVE  Others(s) /\ RunLists(s)'
  <2>1. Others(s)
    BY <1>10, MissingRead
  <2>2. sync'[s].pc \in {"next", "trash"} /\ sync'[s].tasks = {}
    BY <1>10, MissingRead DEF RunFields
  <2> QED  BY <2>1, <2>2 DEF RunLists
<1> QED  BY <1>3, <1>4, <1>5, <1>6, <1>7, <1>8, <1>9, <1>10 DEF RunStep

LEMMA ListsStep ==
  ASSUME TodoTypeOK, RefsInv, ListInv, [TodoNext]_todoVars
  PROVE  ListInv'
<1>1. CASE UNCHANGED todoVars
  BY <1>1, TodoStutters, ListsOfDisturbed
<1>2. CASE UserStep
  BY <1>2, UserDisturbs, ListsOfDisturbed DEF AllDisturbed
<1>3. ASSUME NEW s \in Syncs, RunStep(s)
      PROVE  ListInv'
  BY <1>3, ListsRunStep
<1>4. ASSUME NEW d \in Desks, DeskStep(d)
      PROVE  ListInv'
  BY <1>4, DeskDisturbs, ListsOfDisturbed
<1> QED  BY <1>1, <1>2, <1>3, <1>4, TodoSteps

LEMMA UndisturbedHashes ==
  ASSUME NEW r, RunHashes(r), Undisturbed(r)
  PROVE  RunHashes(r)'
BY DEF RunHashes, Undisturbed

LEMMA HashesStep ==
  ASSUME TodoTypeOK, RefsInv, HashInv, [TodoNext]_todoVars
  PROVE  HashInv'
<1>1. CASE UNCHANGED todoVars \/ UserStep
  <2>1. UNCHANGED maps /\ \A r \in Syncs : Undisturbed(r)
    BY <1>1, UserDisturbs, TodoStutters DEF AllDisturbed, todoVars
  <2> QED  BY <2>1, UndisturbedHashes DEF HashInv
<1>2. ASSUME NEW d \in Desks, DeskStep(d)
      PROVE  HashInv'
  <2>1. \A r \in Syncs : RunHashes(r)'
    BY <1>2, DeskDisturbs, UndisturbedHashes DEF HashInv
  <2>2. CASE UNCHANGED maps
    BY <2>1, <2>2 DEF HashInv
  <2>3. CASE RecordExport(d) /\ ~UNCHANGED maps
    <3>1. PICK n \in desk[d].note, t \in desk[d].task, v \in desk[d].text :
            maps' = maps \union {Map(n, t, v, Outward(v))}
      BY <2>3, ExportRecorded DEF DeskOnly
    <3>2. v \in Text
      BY TodoTypes
    <3>3. PICK u : u = Outward(v)
      OBVIOUS
    <3>4. u.id = v.id
      BY <3>2, <3>3, OutwardText
    <3>5. Map(n, t, v, u).local = v /\ Map(n, t, v, u).external = u
      BY DEF Map
    <3> QED  BY <2>1, <3>1, <3>3, <3>4, <3>5 DEF HashInv
  <2>4. CASE EndMapping(d)
    <3>1. \A k \in maps' : \E m \in maps : k.local = m.local /\ k.external = m.external
      BY <2>4, MappingEnded
    <3> QED  BY <2>1, <3>1 DEF HashInv
  <2>5. RecordExport(d) \/ EndMapping(d) \/ UNCHANGED maps
    BY <1>2 DEF DeskStep, StartExport, StartPurge, CreateTask, UndoExport, Unlink, Purge, DeskStops
  <2> QED  BY <2>2, <2>3, <2>4, <2>5
<1>3. ASSUME NEW s \in Syncs, RunStep(s)
      PROVE  HashInv'
  <2>1. SUFFICES Others(s) /\ RunHashes(s)' /\ \A k \in maps' : k.local.id = k.external.id
    BY UndisturbedHashes DEF HashInv, Others
  <2>2. CASE StartSync(s) \/ FinishSync(s) \/ SyncStops(s) \/ ListTasks(s) \/ ReadMappings(s)
    <3>1. Others(s) /\ UNCHANGED maps /\ sync'[s].pc # "record"
      BY <2>2, RunStarted, RunEnded, TasksListed, MappingsRead DEF RunFields
    <3> QED  BY <3>1 DEF HashInv, RunHashes
  <2>3. ASSUME NEW x \in sync[s].tasks, SkipTask(s, x) \/ ReadNote(s, x)
        PROVE  Others(s) /\ RunHashes(s)' /\ \A k \in maps' : k.local.id = k.external.id
    <3>1. Others(s) /\ UNCHANGED maps /\ sync'[s].pc # "record"
      BY <2>3, TaskSkipped, NoteRead DEF RunFields
    <3> QED  BY <3>1 DEF HashInv, RunHashes
  <2>4. ASSUME NEW x \in sync[s].tasks, ImportTask(s, x)
        PROVE  Others(s) /\ RunHashes(s)' /\ \A k \in maps' : k.local.id = k.external.id
    <3>1. Others(s) /\ sync'[s].pc # "record"
      BY <2>4, TaskImported DEF RunFields
    <3>2. UNCHANGED maps \/ \E n \in Notes, k \in Mapping : Imported(x, n, k)
      BY <2>4, TaskImported
    <3> QED  BY <3>1, <3>2 DEF HashInv, RunHashes, Imported
  <2>5. CASE WriteBack(s) \/ SendOut(s)
    <3>1. PICK c \in Decision, h \in Mapping : WrittenBack(s, c, h) \/ SentOut(s, c, h)
      BY <2>5, TextWrittenBack, TextSent
    <3>2. Others(s) /\ UNCHANGED maps /\ sync[s].pc = "write"
      BY <2>5, TextWrittenBack, TextSent
    <3>3. c \in sync[s].at /\ c.text \in Text
      BY <3>1, <3>2, HandTypes DEF WrittenBack, SentOut
    <3>4. h.local.id = h.external.id
      <4>1. CASE WrittenBack(s, c, h)
        BY <4>1 DEF WrittenBack
      <4>2. CASE SentOut(s, c, h)
        <5>1. PICK u : u = Outward(c.text)
          OBVIOUS
        <5>2. u.id = c.text.id
          BY <3>3, <5>1, OutwardText
        <5> QED  BY <4>2, <5>1, <5>2 DEF SentOut
      <4> QED  BY <3>1, <4>1, <4>2
    <3>5. sync'[s].at = {h} /\ h.deleted = FALSE
      BY <3>1 DEF WrittenBack, SentOut, RunFields
    <3> QED  BY <3>2, <3>4, <3>5 DEF HashInv, RunHashes
  <2>6. CASE RecordHashes(s)
    <3>1. PICK c \in Mapping, m \in maps, k \in Mapping : PutBack(s, c, m, k)
      BY <2>6, HashesRecorded
    <3>2. Others(s) /\ sync[s].pc = "record" /\ sync'[s].pc = "next"
      BY <2>6, HashesRecorded DEF RunFields
    <3>3. c.local.id = c.external.id
      BY <3>1, <3>2 DEF HashInv, RunHashes, PutBack
    <3> QED  BY <3>1, <3>2, <3>3 DEF HashInv, RunHashes, PutBack
  <2>7. CASE ThrowAway(s)
    <3>1. PICK c \in Mapping, m \in maps, k \in Mapping : Throwing(s, c, m, k)
      BY <2>7, NoteThrownAway
    <3>2. Others(s) /\ sync'[s].pc = "next"
      BY <2>7, NoteThrownAway DEF RunFields
    <3> QED  BY <3>1, <3>2 DEF HashInv, RunHashes, Throwing
  <2>8. ASSUME NEW m \in sync[s].missing, ReadMissing(s, m)
        PROVE  Others(s) /\ RunHashes(s)' /\ \A k \in maps' : k.local.id = k.external.id
    <3>1. Others(s) /\ UNCHANGED maps /\ sync'[s].pc # "record"
      BY <2>8, MissingRead DEF RunFields
    <3> QED  BY <3>1 DEF HashInv, RunHashes
  <2> QED  BY <1>3, <2>2, <2>3, <2>4, <2>5, <2>6, <2>7, <2>8 DEF RunStep
<1> QED  BY <1>1, <1>2, <1>3, TodoSteps

\* Mappings do not become marked but by ThrowAway, and do not appear behind a listing.
LEMMA ThrowsStay ==
  ASSUME TodoTypeOK, Monotone, ThrowInv, ~crossed, ~crossed',
         \A k \in maps' :
           /\ k.deleted => task'[k.task].state = "gone" \/ \E m \in maps : m.deleted /\ m.task = k.task
           /\ \/ \E m \in maps : m.task = k.task
              \/ \A r \in Syncs : Undisturbed(r) => sync[r].pc # "maps"
  PROVE  /\ \A m \in maps' : m.deleted => task'[m.task].state = "gone"
         /\ \A r \in Syncs : Undisturbed(r) => RunThrows(r)'
<1>1. \A m \in maps : m.task \in Tasks
  BY DEF TodoTypeOK, Mapping
<1>2. \A m \in maps' : m.deleted => task'[m.task].state = "gone"
  BY <1>1 DEF ThrowInv, Monotone
<1>3. ASSUME NEW r \in Syncs, Undisturbed(r)
      PROVE  RunThrows(r)'
  <2>1. RunThrows(r)
    BY DEF ThrowInv
  <2>2. \A m \in sync[r].missing : task'[m.task].state = "gone"
    BY <2>1, KnownTypes DEF RunThrows, Monotone
  <2>3. sync[r].pc = "trash" => \A c \in sync[r].at : task'[c.task].state = "gone"
    BY <2>1, HandTypes DEF RunThrows, Monotone
  <2>4. ASSUME sync[r].pc = "maps", NEW k \in maps'
        PROVE  task'[k.task].state = "gone" \/ \E x \in sync[r].tasks : x.task = k.task
    <3>1. PICK m \in maps : m.task = k.task
      BY <1>3, <2>4
    <3> QED  BY <1>1, <2>1, <2>4, <3>1 DEF RunThrows, Monotone
  <2> QED  BY <1>3, <2>2, <2>3, <2>4 DEF RunThrows, Undisturbed
<1> QED  BY <1>2, <1>3

LEMMA CrossedStays ==
  ASSUME TodoTypeOK, [TodoNext]_todoVars, ~crossed'
  PROVE  ~crossed
<1>1. CASE UNCHANGED todoVars
  BY <1>1 DEF todoVars
<1>2. CASE UserStep
  BY <1>2, UserDisturbs
<1>3. ASSUME NEW d \in Desks, DeskStep(d)
      PROVE  ~crossed
  BY <1>3 DEF DeskStep, StartExport, StartPurge, CreateTask, RecordExport, UndoExport, Unlink,
     EndMapping, Purge, DeskStops, Crosses
<1>4. ASSUME NEW s \in Syncs, RunStep(s)
      PROVE  ~crossed
  BY <1>4 DEF RunStep, StartSync, ListTasks, ReadMappings, ImportTask, SkipTask, ReadNote, WriteBack,
     SendOut, RecordHashes, ReadMissing, ThrowAway, FinishSync, SyncStops, Crosses
<1> QED  BY <1>1, <1>2, <1>3, <1>4, TodoSteps

LEMMA ThrowsRunStep ==
  ASSUME TodoTypeOK, RefsInv, HashInv, ThrowInv, Monotone, ~crossed, ~crossed',
         NEW s \in Syncs, RunStep(s)
  PROVE  ThrowInv'
<1>0. RunThrows(s) /\ \A m \in maps : m \in Mapping /\ m.task \in Tasks /\ Used(m)
  BY DEF ThrowInv, TodoTypeOK, RefsInv, Mapping
<1> DEFINE Fresh(k) ==
      /\ k.deleted => task'[k.task].state = "gone" \/ \E m \in maps : m.deleted /\ m.task = k.task
      /\ \/ \E m \in maps : m.task = k.task
         \/ \A r \in Syncs : Undisturbed(r) => sync[r].pc # "maps"
<1>1. SUFFICES Others(s) /\ RunThrows(s)' /\ \A k \in maps' : Fresh(k)
  <2>1. /\ \A m \in maps' : m.deleted => task'[m.task].state = "gone"
        /\ \A r \in Syncs : Undisturbed(r) => RunThrows(r)'
    BY <1>1, ThrowsStay
  <2> QED  BY <1>1, <2>1 DEF ThrowInv, Others
<1>2. UNCHANGED maps => \A k \in maps' : Fresh(k)
  OBVIOUS
<1>3. sync'[s].missing \subseteq sync[s].missing /\ sync'[s].pc \notin {"trash", "maps"} => RunThrows(s)'
  <2>1. \A m \in sync[s].missing : task'[m.task].state = "gone"
    BY <1>0, KnownTypes DEF RunThrows, Monotone
  <2> QED  BY <2>1 DEF RunThrows
<1> HIDE DEF Fresh
<1>4. CASE StartSync(s) \/ FinishSync(s) \/ SyncStops(s) \/ WriteBack(s) \/ SendOut(s)
  <2>1. /\ Others(s) /\ UNCHANGED maps /\ sync'[s].missing \subseteq sync[s].missing
        /\ sync'[s].pc \notin {"trash", "maps"}
    <3>1. CASE StartSync(s) \/ FinishSync(s) \/ SyncStops(s)
      BY <3>1, RunStarted, RunEnded DEF RunFields
    <3>2. CASE WriteBack(s) \/ SendOut(s)
      <4>1. PICK c \in Decision, h \in Mapping : WrittenBack(s, c, h) \/ SentOut(s, c, h)
        BY <3>2, TextWrittenBack, TextSent
      <4>2. Others(s) /\ UNCHANGED maps
        BY <3>2, TextWrittenBack, TextSent
      <4> QED  BY <4>1, <4>2 DEF WrittenBack, SentOut, RunFields
    <3> QED  BY <1>4, <3>1, <3>2
  <2> QED  BY <1>2, <1>3, <2>1
<1>5. CASE ListTasks(s)
  <2>1. /\ Others(s) /\ UNCHANGED <<maps, task>> /\ sync'[s].pc = "maps" /\ sync'[s].missing = sync[s].missing
        /\ \A t \in Tasks : task[t].state = "live" => \E x \in sync'[s].tasks : x.task = t
    BY <1>5, TasksListed DEF RunFields
  <2>2. \A m \in maps : task[m.task].state \in {"live", "gone"}
    BY <1>0, TodoTypes DEF Used
  <2>3. \A m \in maps : task[m.task].state = "gone" \/ \E x \in sync'[s].tasks : x.task = m.task
    BY <1>0, <2>1, <2>2
  <2>4. RunThrows(s)'
    BY <1>0, <2>1, <2>3 DEF RunThrows
  <2> QED  BY <1>2, <2>1, <2>4
<1>6. CASE ReadMappings(s)
  <2>1. /\ Others(s) /\ UNCHANGED <<maps, task>> /\ sync[s].pc = "maps" /\ sync'[s].pc = "next"
        /\ sync'[s].missing = Missing(sync[s].tasks)
    BY <1>6, MappingsRead DEF RunFields
  <2>2. RunThrows(s)'
    BY <1>0, <2>1 DEF RunThrows, Missing
  <2> QED  BY <1>2, <2>1, <2>2
<1>7. ASSUME NEW x \in sync[s].tasks, SkipTask(s, x) \/ ReadNote(s, x)
      PROVE  Others(s) /\ RunThrows(s)' /\ \A k \in maps' : Fresh(k)
  <2>1. /\ Others(s) /\ UNCHANGED maps /\ sync'[s].missing = sync[s].missing
        /\ sync'[s].pc \in {"next", "write"}
    BY <1>7, TaskSkipped, NoteRead DEF RunFields
  <2> QED  BY <1>2, <1>3, <2>1
<1>8. ASSUME NEW x \in sync[s].tasks, ImportTask(s, x)
      PROVE  Others(s) /\ RunThrows(s)' /\ \A k \in maps' : Fresh(k)
  <2>1. /\ Others(s) /\ sync'[s].missing = sync[s].missing /\ sync[s].pc = "next"
        /\ sync'[s].pc = "next"
    BY <1>8, TaskImported DEF RunFields
  <2>2. RunThrows(s)'
    BY <1>3, <2>1
  <2>3. CASE UNCHANGED maps
    BY <1>2, <2>1, <2>2, <2>3
  <2>4. CASE ~UNCHANGED maps
    <3>1. PICK n \in Notes, k \in Mapping : Imported(x, n, k)
      BY <1>8, <2>4, TaskImported
    <3>2. \A r \in Syncs : sync[r].pc # "maps"
      BY <1>8, <2>1, <2>4, TaskImported
    <3>3. \A j \in maps' : j \in maps \/ j.deleted = FALSE
      BY <3>1 DEF Imported
    <3>4. \A j \in maps' : Fresh(j)
      BY <3>2, <3>3 DEF Fresh
    <3> QED  BY <2>1, <2>2, <3>4
  <2> QED  BY <2>3, <2>4
<1>9. CASE RecordHashes(s)
  <2>1. /\ Others(s) /\ sync'[s].missing = sync[s].missing /\ sync[s].pc = "record"
        /\ sync'[s].pc = "next"
    BY <1>9, HashesRecorded DEF RunFields
  <2>2. PICK c \in Mapping, m \in maps, k \in Mapping : PutBack(s, c, m, k)
    BY <1>9, HashesRecorded
  <2>3. k.deleted = FALSE /\ k.task = m.task /\ maps' = (maps \ {m}) \union {k}
    BY <2>1, <2>2 DEF HashInv, RunHashes, PutBack
  <2>4. \A j \in maps' : Fresh(j)
    BY <2>3 DEF Fresh
  <2> QED  BY <1>3, <2>1, <2>4
<1>10. CASE ThrowAway(s)
  <2>1. /\ Others(s) /\ sync'[s].missing = sync[s].missing /\ sync[s].pc = "trash"
        /\ sync'[s].pc = "next" /\ UNCHANGED task
    BY <1>10, NoteThrownAway DEF RunFields
  <2>2. PICK c \in Mapping, m \in maps, k \in Mapping : Throwing(s, c, m, k)
    BY <1>10, NoteThrownAway
  <2>3. k.task = m.task /\ maps' = (maps \ {m}) \union {k} /\ task'[k.task].state = "gone"
    BY <1>0, <2>1, <2>2 DEF RunThrows, Throwing
  <2>4. \A j \in maps' : Fresh(j)
    BY <2>3 DEF Fresh
  <2> QED  BY <1>3, <2>1, <2>4
<1>11. ASSUME NEW m \in sync[s].missing, ReadMissing(s, m)
       PROVE  Others(s) /\ RunThrows(s)' /\ \A k \in maps' : Fresh(k)
  <2>1. /\ Others(s) /\ UNCHANGED <<maps, task>> /\ sync'[s].missing \subseteq sync[s].missing
        /\ \/ sync'[s].pc = "trash" /\ sync'[s].at = {m}
           \/ sync'[s].pc = "next"
    BY <1>11, MissingRead DEF RunFields
  <2>2. RunThrows(s)'
    BY <1>0, <2>1 DEF RunThrows
  <2> QED  BY <1>2, <2>1, <2>2
<1> QED  BY <1>4, <1>5, <1>6, <1>7, <1>8, <1>9, <1>10, <1>11 DEF RunStep

LEMMA ThrowsStep ==
  ASSUME TodoTypeOK, RefsInv, HashInv, ThrowInv, Monotone, [TodoNext]_todoVars
  PROVE  ThrowInv'
<1>0. SUFFICES ASSUME ~crossed' PROVE ThrowInv'
  BY DEF ThrowInv
<1>1. ~crossed
  BY <1>0, CrossedStays
<1>2. SUFFICES ASSUME \A s \in Syncs : ~RunStep(s)
               PROVE  ThrowInv'
  BY <1>0, <1>1, ThrowsRunStep
<1>3. \A r \in Syncs : Undisturbed(r)
  BY <1>2, TodoStutters, UserDisturbs, DeskDisturbs, TodoSteps DEF AllDisturbed
<1>4. \A k \in maps' :
        /\ k.deleted => \E m \in maps : m.deleted /\ m.task = k.task
        /\ \/ \E m \in maps : m.task = k.task
           \/ \A r \in Syncs : sync[r].pc # "maps"
  <2>1. CASE UNCHANGED maps
    BY <2>1
  <2>2. ASSUME NEW d \in Desks, RecordExport(d), ~UNCHANGED maps
        PROVE  /\ \A r \in Syncs : sync[r].pc # "maps"
               /\ \A k \in maps' : k.deleted => k \in maps
    <3>1. PICK n \in desk[d].note, t \in desk[d].task, v \in desk[d].text :
            maps' = maps \union {Map(n, t, v, Outward(v))}
      BY <2>2, ExportRecorded DEF DeskOnly
    <3>2. \A r \in Syncs : sync[r].pc # "maps"
      BY <1>0, <2>2, ExportRecorded DEF DeskOnly
    <3>3. Map(n, t, v, Outward(v)).deleted = FALSE
      BY DEF Map
    <3> QED  BY <3>1, <3>2, <3>3
  <2>3. ASSUME NEW d \in Desks, EndMapping(d)
        PROVE  \A k \in maps' : \E m \in maps : k.task = m.task /\ k.deleted = m.deleted
    BY <2>3, MappingEnded
  <2>4. \/ UNCHANGED maps \/ \E d \in Desks : RecordExport(d) \/ EndMapping(d)
    <3>1. CASE UNCHANGED todoVars
      BY <3>1 DEF todoVars
    <3>2. CASE UserStep
      BY <3>2, UserDisturbs
    <3>3. ASSUME NEW d \in Desks, DeskStep(d)
          PROVE  UNCHANGED maps \/ RecordExport(d) \/ EndMapping(d)
      BY <3>3 DEF DeskStep, StartExport, StartPurge, CreateTask, UndoExport, Unlink, Purge, DeskStops
    <3> QED  BY <1>2, <3>1, <3>2, <3>3, TodoSteps
  <2> QED  BY <2>1, <2>2, <2>3, <2>4
<1> QED  BY <1>0, <1>1, <1>3, <1>4, ThrowsStay DEF ThrowInv

-----------------------------------------------------------------------------
(* TodoSync: where texts come from *)

OriginThen(u) == u.from = Microsoft \/ note'[u.from].state # "none"

LEMMA OriginStays ==
  ASSUME Monotone, NEW u \in Text, Origin(u)
  PROVE  OriginThen(u)
<1>1. u.from \in Notes \union {Microsoft}
  BY DEF Text
<1> QED  BY <1>1 DEF Origin, OriginThen, Monotone

LEMMA OriginsOf ==
  ASSUME TodoTypeOK, Monotone, OriginInv,
         \A n \in Notes : note'[n].state # "none" =>
           \/ note'[n].text = note[n].text /\ note[n].state # "none"
           \/ OriginThen(note'[n].text),
         \A t \in Tasks : task'[t].text = task[t].text \/ OriginThen(task'[t].text),
         \A d \in Desks : \A v \in desk'[d].text : v \in desk[d].text \/ OriginThen(v),
         \A r \in Syncs : Undisturbed(r) \/ RunOrigins(r)'
  PROVE  OriginInv'
<1>1. \A n \in Notes : note'[n].state # "none" => OriginThen(note'[n].text)
  BY TodoTypes, OriginStays DEF OriginInv
<1>2. \A t \in Tasks : OriginThen(task'[t].text)
  BY TodoTypes, OriginStays DEF OriginInv
<1>3. \A d \in Desks : \A v \in desk'[d].text : OriginThen(v)
  BY TodoTypes, OriginStays DEF OriginInv
<1>4. ASSUME NEW r \in Syncs, Undisturbed(r)
      PROVE  RunOrigins(r)'
  <2>1. \A x \in Open(r) : OriginThen(x.text)
    BY KnownTypes, OriginStays DEF OriginInv, RunOrigins
  <2>2. sync[r].pc = "write" => \A c \in sync[r].at : OriginThen(c.text)
    BY HandTypes, OriginStays DEF OriginInv, RunOrigins
  <2> QED  BY <1>4, <2>1, <2>2 DEF RunOrigins, Undisturbed, Origin, OriginThen
<1> QED  BY <1>1, <1>2, <1>3, <1>4 DEF OriginInv, Origin, OriginThen

\* Notes, tasks or desks that keep their texts.
NotesKeep == \A n \in Notes : /\ note'[n].text = note[n].text
                              /\ note'[n].state # "none" => note[n].state # "none"
TasksKeep == \A t \in Tasks : task'[t].text = task[t].text
DesksKeep == \A d \in Desks : desk'[d].text \subseteq desk[d].text

LEMMA UserOrigins ==
  ASSUME TodoTypeOK, Monotone, OriginInv, UserStep
  PROVE  OriginInv'
<1>1. DesksKeep /\ \A r \in Syncs : Undisturbed(r)
  BY UserDisturbs DEF AllDisturbed, DesksKeep
<1>2. \A n \in Notes : note'[n].state # "none" =>
           \/ note'[n].text = note[n].text /\ note[n].state # "none"
           \/ OriginThen(note'[n].text)
  <2>1. ASSUME NEW k \in Notes, WriteNote(k), NEW n \in Notes, note'[n].state # "none"
        PROVE  \/ note'[n].text = note[n].text /\ note[n].state # "none"
               \/ OriginThen(note'[n].text)
    <3>1. /\ note'[k].state = "live" /\ note'[k].text.from = k
          /\ \A i \in Notes \ {k} : note'[i] = note[i]
      BY <2>1, NoteWritten
    <3>2. n = k => OriginThen(note'[n].text)
      BY <3>1 DEF OriginThen
    <3>3. n # k => note'[n] = note[n]
      BY <3>1
    <3> QED  BY <2>1, <3>2, <3>3
  <2>2. ASSUME NEW k \in Notes, NEW from \in {"live", "trash"}, NEW to \in {"live", "trash"},
               MoveNote(k, from, to)
        PROVE  NotesKeep
    BY <2>2, NoteMoved DEF NotesKeep
  <2>3. ASSUME NEW t \in Tasks, WriteTask(t) \/ DeleteTask(t)
        PROVE  NotesKeep
    BY <2>3, TaskWritten, TaskDeleted DEF NotesKeep
  <2> QED  BY <2>1, <2>2, <2>3 DEF UserStep, NotesKeep
<1>3. \A t \in Tasks : task'[t].text = task[t].text \/ OriginThen(task'[t].text)
  <2>1. ASSUME NEW u \in Tasks, WriteTask(u)
        PROVE  \A t \in Tasks : task'[t].text = task[t].text \/ OriginThen(task'[t].text)
    BY <2>1, TaskWritten DEF OriginThen
  <2>2. ASSUME NEW u \in Tasks, DeleteTask(u)
        PROVE  TasksKeep
    BY <2>2, TaskDeleted DEF TasksKeep
  <2>3. ASSUME NEW n \in Notes,
               WriteNote(n) \/ MoveNote(n, "live", "trash") \/ MoveNote(n, "trash", "live")
        PROVE  TasksKeep
    BY <2>3, NoteWritten, NoteMoved DEF TasksKeep
  <2> QED  BY <2>1, <2>2, <2>3 DEF UserStep, TasksKeep
<1> QED  BY <1>1, <1>2, <1>3, OriginsOf DEF DesksKeep

LEMMA DeskOrigins ==
  ASSUME TodoTypeOK, Monotone, OriginInv, NEW d \in Desks, DeskStep(d)
  PROVE  OriginInv'
<1>0. /\ \A r \in Syncs : Undisturbed(r)
      /\ \A e \in Desks \ {d} : desk'[e] = desk[e]
  BY DeskDisturbs
<1>1. ASSUME NEW n \in Notes, StartExport(d, n)
      PROVE  OriginInv'
  <2>1. note[n].state = "live" /\ desk'[d].text = {note[n].text} /\ UNCHANGED <<note, task>>
    BY <1>1, ExportStarted DEF DeskOnly
  <2>2. OriginThen(note[n].text)
    BY <2>1, OriginStays, TodoTypes DEF OriginInv
  <2>3. \A e \in Desks : \A v \in desk'[e].text : v \in desk[e].text \/ OriginThen(v)
    BY <1>0, <2>1, <2>2
  <2> QED  BY <1>0, <2>1, <2>3, OriginsOf
<1>2. ASSUME NEW t \in Tasks, CreateTask(d, t)
      PROVE  OriginInv'
  <2>1. /\ UNCHANGED note /\ desk'[d].text = desk[d].text
        /\ \E v \in desk[d].text : task'[t].text = Outward(v)
        /\ \A u \in Tasks \ {t} : task'[u] = task[u]
    BY <1>2, TaskCreated
  <2>2. PICK v \in desk[d].text : task'[t].text = Outward(v)
    BY <2>1
  <2>3. v \in Text /\ Origin(v)
    BY TodoTypes DEF OriginInv
  <2>4. PICK u : u = Outward(v)
    OBVIOUS
  <2>5. u.from = v.from
    BY <2>3, <2>4, OutwardText
  <2>6. OriginThen(task'[t].text)
    BY <2>2, <2>3, <2>4, <2>5, OriginStays DEF OriginThen
  <2>7. \A e \in Desks : \A w \in desk'[e].text : w \in desk[e].text
    BY <1>0, <2>1
  <2>8. \A w \in Tasks : task'[w].text = task[w].text \/ OriginThen(task'[w].text)
    BY <2>1, <2>6
  <2> QED  BY <1>0, <2>1, <2>7, <2>8, OriginsOf
<1>3. CASE \/ RecordExport(d) \/ UndoExport(d) \/ Unlink(d) \/ EndMapping(d) \/ Purge(d)
           \/ DeskStops(d)
           \/ \E n \in Notes : \E external \in BOOLEAN : StartPurge(d, n, external)
  <2>1. NotesKeep
    BY <1>3, ExportRecorded, TasksRemoved, MappingEnded, NotePurged, DeskStopped, PurgeStarted
       DEF NotesKeep, DeskOnly
  <2>2. TasksKeep
    BY <1>3, ExportRecorded, TasksRemoved, MappingEnded, NotePurged, DeskStopped, PurgeStarted
       DEF TasksKeep, DeskOnly
  <2>3. desk'[d].text = {} \/ desk'[d].text = desk[d].text
    BY <1>3, ExportRecorded, TasksRemoved, MappingEnded, NotePurged, DeskStopped, PurgeStarted
  <2> QED  BY <1>0, <2>1, <2>2, <2>3, OriginsOf DEF NotesKeep, TasksKeep
<1> QED  BY <1>1, <1>2, <1>3 DEF DeskStep

LEMMA RunOriginsStep ==
  ASSUME TodoTypeOK, Monotone, RefsInv, OriginInv, NEW s \in Syncs, RunStep(s)
  PROVE  OriginInv'
<1>0. /\ \A x \in Open(s) : OriginThen(x.text) /\ x.text \in Text
      /\ sync[s].pc = "write" => \A c \in sync[s].at : OriginThen(c.text)
  BY KnownTypes, HandTypes, OriginStays DEF OriginInv, RunOrigins
<1>1. SUFFICES /\ Others(s) /\ UNCHANGED desk
               /\ \A n \in Notes : note'[n].state # "none" =>
                    \/ note'[n].text = note[n].text /\ note[n].state # "none"
                    \/ OriginThen(note'[n].text)
               /\ \A t \in Tasks : task'[t].text = task[t].text \/ OriginThen(task'[t].text)
               /\ \A x \in Open(s)' : OriginThen(x.text)
               /\ sync'[s].pc = "write" => \A c \in sync'[s].at : OriginThen(c.text)
  <2>1. RunOrigins(s)'
    BY <1>1 DEF RunOrigins, Origin, OriginThen
  <2>2. \A r \in Syncs : Undisturbed(r) \/ RunOrigins(r)'
    BY <1>1, <2>1 DEF Others
  <2>3. \A d \in Desks : \A v \in desk'[d].text : v \in desk[d].text
    BY <1>1
  <2> QED  BY <1>1, <2>2, <2>3, OriginsOf
<1>2. CASE StartSync(s) \/ FinishSync(s) \/ SyncStops(s)
  <2>1. /\ Others(s) /\ UNCHANGED <<note, task, desk>>
        /\ \E pc \in {"list", "idle"} : RunFields(s, pc, {}, {}, {}, {})
    BY <1>2, RunStarted, RunEnded
  <2>2. Open(s)' = {} /\ sync'[s].pc # "write"
    <3>1. PICK pc \in {"list", "idle"} : RunFields(s, pc, {}, {}, {}, {})
      BY <2>1
    <3> QED  BY <3>1, HandIs DEF RunFields
  <2> QED  BY <2>1, <2>2
<1>3. CASE ListTasks(s)
  <2>1. PICK listed :
          /\ Others(s) /\ UNCHANGED <<note, task, desk>>
          /\ RunFields(s, "maps", listed, sync[s].maps, sync[s].missing, sync[s].at)
          /\ \A x \in sync'[s].tasks : x.task \in Tasks /\ x.text = task[x.task].text
    BY <1>3, TasksListed
  <2>2. Open(s)' = sync'[s].tasks /\ sync'[s].pc = "maps"
    BY <2>1, HandIs DEF RunFields
  <2>3. \A t \in Tasks : OriginThen(task[t].text)
    BY OriginStays, TodoTypes DEF OriginInv
  <2> QED  BY <2>1, <2>2, <2>3
<1>4. CASE ReadMappings(s)
  <2>1. /\ Others(s) /\ UNCHANGED <<note, task, desk>>
        /\ RunFields(s, "next", sync[s].tasks, {m \in maps : \E x \in sync[s].tasks : x.task = m.task},
                     Missing(sync[s].tasks), sync[s].at)
    BY <1>4, MappingsRead
  <2>2. Open(s)' = sync[s].tasks /\ sync'[s].pc = "next"
    BY <2>1, HandIs DEF RunFields
  <2> QED  BY <1>0, <2>1, <2>2 DEF Open
<1>5. ASSUME NEW x \in sync[s].tasks, ImportTask(s, x)
      PROVE  /\ Others(s) /\ UNCHANGED desk
             /\ \A n \in Notes : note'[n].state # "none" =>
                  \/ note'[n].text = note[n].text /\ note[n].state # "none"
                  \/ OriginThen(note'[n].text)
             /\ \A t \in Tasks : task'[t].text = task[t].text \/ OriginThen(task'[t].text)
             /\ \A y \in Open(s)' : OriginThen(y.text)
             /\ sync'[s].pc = "write" => \A c \in sync'[s].at : OriginThen(c.text)
  <2>1. /\ Others(s) /\ UNCHANGED <<task, desk>>
        /\ RunFields(s, "next", sync[s].tasks \ {x}, sync[s].maps, sync[s].missing, sync[s].at)
    BY <1>5, TaskImported
  <2>2. Open(s)' = sync[s].tasks \ {x} /\ sync'[s].pc = "next"
    BY <2>1, HandIs DEF RunFields
  <2>3. UNCHANGED note \/ \E n \in Notes, k \in Mapping : Imported(x, n, k)
    BY <1>5, TaskImported
  <2>4. x \in Open(s)
    BY DEF Open
  <2>5. \A n \in Notes : note'[n].state # "none" =>
          \/ note'[n].text = note[n].text /\ note[n].state # "none"
          \/ OriginThen(note'[n].text)
    BY <1>0, <2>3, <2>4 DEF Imported
  <2> QED  BY <1>0, <2>1, <2>2, <2>5 DEF Open
<1>6. ASSUME NEW x \in sync[s].tasks, SkipTask(s, x)
      PROVE  /\ Others(s) /\ UNCHANGED <<note, task, desk>>
             /\ \A y \in Open(s)' : OriginThen(y.text)
             /\ sync'[s].pc = "write" => \A c \in sync'[s].at : OriginThen(c.text)
  <2>1. /\ Others(s) /\ UNCHANGED <<note, task, desk>>
        /\ RunFields(s, "next", sync[s].tasks \ {x}, sync[s].maps \ MappingFor(s, x), sync[s].missing,
                     sync[s].at)
    BY <1>6, TaskSkipped
  <2>2. Open(s)' = sync[s].tasks \ {x} /\ sync'[s].pc = "next"
    BY <2>1, HandIs DEF RunFields
  <2> QED  BY <1>0, <2>1, <2>2 DEF Open
<1>7. ASSUME NEW x \in sync[s].tasks, ReadNote(s, x)
      PROVE  /\ Others(s) /\ UNCHANGED <<note, task, desk>>
             /\ \A y \in Open(s)' : OriginThen(y.text)
             /\ sync'[s].pc = "write" => \A c \in sync'[s].at : OriginThen(c.text)
  <2>1. PICK m \in sync[s].maps, c \in Decision :
          /\ note[m.note].state = "live" /\ c.task = x /\ c.text = note[m.note].text
          /\ RunFields(s, "write", sync[s].tasks \ {x}, sync[s].maps \ MappingFor(s, x),
                       sync[s].missing, {c})
    <3>1. PICK m \in sync[s].maps, c \in Decision : Decided(s, x, m, c)
      BY <1>7, NoteRead
    <3> QED  BY <3>1 DEF Decided
  <2>2. Others(s) /\ UNCHANGED <<note, task, desk>>
    BY <1>7, NoteRead
  <2>3. Open(s)' = (sync[s].tasks \ {x}) \union {x} /\ sync'[s].at = {c}
    BY <2>1, HandIs DEF RunFields
  <2>4. m.note \in Notes
    BY KnownTypes DEF Known
  <2>5. OriginThen(note[m.note].text)
    BY <2>1, <2>4, OriginStays, TodoTypes DEF OriginInv
  <2> QED  BY <1>0, <2>1, <2>2, <2>3, <2>5 DEF Open
<1>8. CASE WriteBack(s)
  <2>1. PICK c \in Decision, h \in Mapping : WrittenBack(s, c, h)
    BY <1>8, TextWrittenBack
  <2>2. Others(s) /\ UNCHANGED <<task, desk>> /\ sync[s].pc = "write"
    BY <1>8, TextWrittenBack
  <2>3. Open(s)' = sync[s].tasks /\ sync'[s].pc = "record"
    BY <2>1, HandIs DEF RunFields, WrittenBack
  <2>4. c.task \in Open(s)
    BY <2>1, <2>2 DEF Open, AtHand, WrittenBack
  <2>5. \A n \in Notes : note'[n].state # "none" =>
          \/ note'[n].text = note[n].text /\ note[n].state # "none"
          \/ OriginThen(note'[n].text)
    BY <1>0, <2>1, <2>4 DEF WrittenBack
  <2> QED  BY <1>0, <2>2, <2>3, <2>5 DEF Open
<1>9. CASE SendOut(s)
  <2>1. PICK c \in Decision, h \in Mapping : SentOut(s, c, h)
    BY <1>9, TextSent
  <2>2. Others(s) /\ UNCHANGED <<note, desk>> /\ sync[s].pc = "write"
    BY <1>9, TextSent
  <2>3. Open(s)' = sync[s].tasks /\ sync'[s].pc = "record"
    BY <2>1, HandIs DEF RunFields, SentOut
  <2>4. c.text \in Text /\ OriginThen(c.text)
    BY <1>0, <2>1, <2>2, HandTypes DEF SentOut
  <2>5. PICK u : u = Outward(c.text)
    OBVIOUS
  <2>6. OriginThen(u)
    BY <2>4, <2>5, OutwardText DEF OriginThen
  <2>7. \A t \in Tasks : task'[t].text = task[t].text \/ OriginThen(task'[t].text)
    BY <2>1, <2>5, <2>6 DEF SentOut
  <2> QED  BY <1>0, <2>2, <2>3, <2>7 DEF Open
<1>10. CASE RecordHashes(s) \/ ThrowAway(s)
  <2>1. /\ Others(s) /\ UNCHANGED <<task, desk>>
        /\ RunFields(s, "next", sync[s].tasks, sync[s].maps, sync[s].missing, {})
    BY <1>10, HashesRecorded, NoteThrownAway
  <2>2. Open(s)' = sync[s].tasks /\ sync'[s].pc = "next"
    BY <2>1, HandIs DEF RunFields
  <2>3. NotesKeep
    <3>1. CASE RecordHashes(s)
      BY <3>1, HashesRecorded DEF NotesKeep
    <3>2. CASE ThrowAway(s)
      BY <3>2, NoteThrownAway DEF NotesKeep, Throwing
    <3> QED  BY <1>10, <3>1, <3>2
  <2> QED  BY <1>0, <2>1, <2>2, <2>3 DEF Open, NotesKeep
<1>11. ASSUME NEW m \in sync[s].missing, ReadMissing(s, m)
       PROVE  /\ Others(s) /\ UNCHANGED <<note, task, desk>>
              /\ \A y \in Open(s)' : OriginThen(y.text)
              /\ sync'[s].pc = "write" => \A c \in sync'[s].at : OriginThen(c.text)
  <2>1. /\ Others(s) /\ UNCHANGED <<note, task, desk>>
        /\ sync'[s].tasks = {} /\ sync'[s].pc \in {"next", "trash"}
    BY <1>11, MissingRead DEF RunFields
  <2>2. Open(s)' = {}
    BY <2>1 DEF Open, AtHand
  <2> QED  BY <2>1, <2>2
<1> QED  BY <1>2, <1>3, <1>4, <1>5, <1>6, <1>7, <1>8, <1>9, <1>10, <1>11 DEF RunStep

LEMMA OriginsStep ==
  ASSUME TodoTypeOK, Monotone, RefsInv, OriginInv, [TodoNext]_todoVars
  PROVE  OriginInv'
<1>1. CASE UNCHANGED todoVars
  <2>1. \A r \in Syncs : Undisturbed(r)
    BY <1>1, TodoStutters
  <2>2. UNCHANGED <<note, task, desk>>
    BY <1>1 DEF todoVars
  <2> QED  BY <2>1, <2>2, OriginsOf
<1> QED  BY <1>1, UserOrigins, DeskOrigins, RunOriginsStep, TodoSteps

-----------------------------------------------------------------------------
(* TodoSync: runs that nothing disturbs *)

\* What is true of a run that nothing disturbs, besides that no other run is under way.
CalmLists(s) ==
  /\ sync[s].pc # "list" => ListsCurrent(s)
  /\ sync[s].pc \notin {"list", "maps"} => Read(s) /\ ToThrowAway(s)
  /\ sync[s].pc = "write" => \A c \in sync[s].at : c.map \in maps /\ note[c.map.note].text = c.text
  /\ sync[s].pc = "record" => \A c \in sync[s].at : task[c.task].state = "live"

LEMMA CalmIs ==
  ASSUME NEW s \in Syncs
  PROVE  CalmRun(s) <=> /\ sync[s].pc # "idle" /\ \A r \in Syncs \ {s} : sync[r].pc = "idle"
                        /\ CalmLists(s)
BY DEF CalmRun, CalmLists

LEMMA CalmActing ==
  ASSUME TodoTypeOK, CalmRunsInv, NEW s \in Syncs, Others(s), UNCHANGED settled,
         sync[s].pc # "idle", sync'[s].pc # "idle", sync'[s].calm = sync[s].calm,
         CalmLists(s) /\ sync[s].calm => CalmLists(s)'
  PROVE  CalmRunsInv'
<1>1. settled' = FALSE
  BY DEF CalmRunsInv, TodoTypeOK
<1>2. \A r \in Syncs \ {s} : sync[r].calm = FALSE
  BY TodoTypes, CalmIs DEF CalmRunsInv
<1>3. \A r \in Syncs \ {s} : sync'[r].calm = FALSE
  BY <1>2 DEF Others
<1>4. ASSUME sync'[s].calm
      PROVE  CalmRun(s)'
  <2>1. CalmRun(s)
    BY <1>4 DEF CalmRunsInv
  <2>2. CalmLists(s)' /\ \A r \in Syncs \ {s} : sync[r].pc = "idle"
    BY <1>4, <2>1, CalmIs
  <2>3. \A r \in Syncs \ {s} : sync'[r].pc = "idle"
    BY <2>2 DEF Others, Undisturbed
  <2> QED  BY <2>2, <2>3 DEF CalmRun, CalmLists
<1> QED  BY <1>1, <1>3, <1>4 DEF CalmRunsInv

LEMMA CalmDisturbed ==
  ASSUME AllDisturbed
  PROVE  CalmRunsInv'
BY DEF AllDisturbed, CalmRunsInv

LEMMA CalmUntouched ==
  ASSUME CalmRunsInv, UNCHANGED <<note, task, maps, sync, settled>>
  PROVE  CalmRunsInv'
<1>1. InStep' = InStep
  BY DEF InStep
<1>2. ASSUME NEW s \in Syncs
      PROVE  CalmRun(s)' = CalmRun(s)
  <2>1. Open(s)' = Open(s)
    BY DEF Open, AtHand
  <2>2. ListsCurrent(s)' = ListsCurrent(s)
    BY <2>1 DEF ListsCurrent, Agreed
  <2>3. Read(s)' = Read(s) /\ ToThrowAway(s)' = ToThrowAway(s)
    BY DEF Read, ToThrowAway
  <2> QED  BY <2>2, <2>3 DEF CalmRun
<1> QED  BY <1>1, <1>2 DEF CalmRunsInv

LEMMA CalmBegins ==
  ASSUME TodoTypeOK, NEW s \in Syncs, StartSync(s)
  PROVE  CalmRunsInv'
<1>1. /\ Others(s) /\ settled' = FALSE /\ RunFields(s, "list", {}, {}, {}, {})
      /\ sync'[s].calm => \A r \in Syncs : sync[r].pc = "idle"
      /\ \A r \in Syncs \ {s} : sync'[r].calm = FALSE
  BY RunStarted
<1>2. sync'[s].pc = "list"
  BY <1>1 DEF RunFields
<1>3. sync'[s].calm => CalmRun(s)'
  BY <1>1, <1>2 DEF CalmRun, Others, Undisturbed
<1> QED  BY <1>1, <1>3 DEF CalmRunsInv

LEMMA CalmEnds ==
  ASSUME TodoTypeOK, CalmRunsInv, NEW s \in Syncs, FinishSync(s) \/ SyncStops(s)
  PROVE  CalmRunsInv'
<1>1. /\ Others(s) /\ UNCHANGED <<note, task, maps>>
      /\ sync'[s].pc = "idle" /\ sync'[s].calm = FALSE
      /\ \A r \in Syncs \ {s} : sync'[r].calm = FALSE
      /\ settled' => /\ sync[s].calm /\ sync[s].pc = "next"
                     /\ sync[s].tasks = {} /\ sync[s].missing = {}
  BY RunEnded DEF RunFields
<1>2. ASSUME settled'
      PROVE  InStep /\ \A r \in Syncs : sync'[r].pc = "idle"
  <2>1. CalmRun(s) /\ sync[s].pc = "next" /\ sync[s].tasks = {} /\ sync[s].missing = {}
    BY <1>1, <1>2 DEF CalmRunsInv
  <2>2. Open(s) = {}
    BY <2>1 DEF Open, AtHand
  <2>3. /\ \A t \in Tasks : task[t].state = "live" => \E m \in maps : m.task = t /\ Agreed(m)
        /\ ToThrowAway(s)
    BY <2>1, <2>2 DEF CalmRun, ListsCurrent
  <2>4. ASSUME NEW m \in maps, ~m.detached, note[m.note].state = "live"
        PROVE  IF task[m.task].state = "live"
                 THEN note[m.note].text.id = task[m.task].text.id
                 ELSE m.deleted
    <3>1. CASE task[m.task].state = "live"
      <4>1. m.task \in Tasks
        BY DEF TodoTypeOK, Mapping
      <4>2. PICK k \in maps : k.task = m.task /\ Agreed(k)
        BY <2>3, <3>1, <4>1
      <4>3. k = m
        BY <4>2 DEF TodoTypeOK
      <4> QED  BY <2>4, <3>1, <4>2, <4>3 DEF Agreed
    <3>2. CASE task[m.task].state # "live"
      BY <2>1, <2>3, <2>4, <3>2 DEF ToThrowAway
    <3> QED  BY <3>1, <3>2
  <2>5. \A r \in Syncs : sync'[r].pc = "idle"
    BY <1>1, <2>1 DEF CalmRun, Others, Undisturbed
  <2> QED  BY <2>3, <2>4, <2>5 DEF InStep
<1>3. settled' => InStep'
  BY <1>1, <1>2 DEF InStep
<1> QED  BY <1>1, <1>2, <1>3 DEF CalmRunsInv

LEMMA CalmListing ==
  ASSUME TodoTypeOK, CalmRunsInv, NEW s \in Syncs, ListTasks(s) \/ ReadMappings(s)
  PROVE  CalmRunsInv'
<1>1. CASE ListTasks(s)
  <2>1. PICK listed :
          /\ Others(s) /\ UNCHANGED <<note, task, maps, settled>>
          /\ sync[s].pc = "list" /\ sync'[s].calm = sync[s].calm
          /\ RunFields(s, "maps", listed, sync[s].maps, sync[s].missing, sync[s].at)
          /\ \A x \in sync'[s].tasks : /\ x.task \in Tasks /\ task[x.task].state = "live"
                                       /\ x.text = task[x.task].text
          /\ \A t \in Tasks : task[t].state = "live" => \E x \in sync'[s].tasks : x.task = t
    BY <1>1, TasksListed
  <2>2. Open(s)' = sync'[s].tasks /\ sync'[s].pc = "maps"
    BY <2>1, HandIs DEF RunFields
  <2>3. ListsCurrent(s)'
    BY <2>1, <2>2 DEF ListsCurrent
  <2>4. CalmLists(s)'
    BY <2>2, <2>3 DEF CalmLists
  <2> QED  BY <2>1, <2>2, <2>4, CalmActing
<1>2. CASE ReadMappings(s)
  <2>1. /\ Others(s) /\ UNCHANGED <<note, task, maps, settled>>
        /\ sync[s].pc = "maps" /\ sync'[s].calm = sync[s].calm
        /\ RunFields(s, "next", sync[s].tasks, {m \in maps : \E x \in sync[s].tasks : x.task = m.task},
                     Missing(sync[s].tasks), sync[s].at)
    BY <1>2, MappingsRead
  <2>2. /\ Open(s)' = sync[s].tasks /\ sync'[s].pc = "next" /\ sync'[s].tasks = sync[s].tasks
        /\ sync'[s].maps = {m \in maps : \E x \in sync[s].tasks : x.task = m.task}
        /\ sync'[s].missing = Missing(sync[s].tasks)
    BY <2>1, HandIs DEF RunFields
  <2>3. SUFFICES ASSUME CalmLists(s) PROVE CalmLists(s)'
    BY <2>1, <2>2, CalmActing
  <2>4. ListsCurrent(s) /\ Open(s) = sync[s].tasks
    BY <2>1, <2>3 DEF CalmLists, Open, AtHand
  <2>5. ListsCurrent(s)'
    BY <2>1, <2>2, <2>4 DEF ListsCurrent
  <2>6. Read(s)'
    BY <2>1, <2>2 DEF Read
  <2>7. ToThrowAway(s)'
    BY <2>1, <2>2, <2>4 DEF ToThrowAway, Missing, ListsCurrent
  <2> QED  BY <2>2, <2>5, <2>6, <2>7 DEF CalmLists
<1> QED  BY <1>1, <1>2

LEMMA MapsTyped ==
  ASSUME TodoTypeOK, RefsInv
  PROVE  /\ \A m \in maps : m \in Mapping /\ m.note \in Notes /\ m.task \in Tasks /\ Used(m)
         /\ \A k, m \in maps : k.note = m.note \/ k.task = m.task => k = m
BY DEF TodoTypeOK, Mapping, RefsInv

LEMMA CalmImports ==
  ASSUME TodoTypeOK, RefsInv, ListInv, CalmRunsInv, NEW s \in Syncs, NEW x \in sync[s].tasks,
         ImportTask(s, x)
  PROVE  CalmRunsInv'
<1>1. /\ Others(s) /\ UNCHANGED <<task, settled>>
      /\ sync[s].pc = "next" /\ sync'[s].calm = sync[s].calm
      /\ RunFields(s, "next", sync[s].tasks \ {x}, sync[s].maps, sync[s].missing, sync[s].at)
      /\ \A m \in sync[s].maps : m.task # x.task
  BY TaskImported
<1>2. /\ Open(s)' = sync[s].tasks \ {x} /\ sync'[s].pc = "next" /\ sync'[s].tasks = sync[s].tasks \ {x}
      /\ sync'[s].maps = sync[s].maps /\ sync'[s].missing = sync[s].missing
      /\ Open(s) = sync[s].tasks
  BY <1>1, HandIs DEF RunFields, Open, AtHand
<1>3. SUFFICES ASSUME CalmLists(s) PROVE CalmLists(s)'
  BY <1>1, <1>2, CalmActing
<1>4. ListsCurrent(s) /\ Read(s) /\ ToThrowAway(s)
  BY <1>1, <1>3 DEF CalmLists
<1>5. \A m \in maps : m.task # x.task
  BY <1>1, <1>4 DEF Read
<1>6. PICK n \in Notes, k \in Mapping : Imported(x, n, k)
  BY <1>5, TaskImported
<1>7. /\ note'[n].state = "live" /\ note'[n].text = x.text /\ k.note = n /\ k.task = x.task
      /\ maps' = maps \union {k} /\ k \notin maps
  BY <1>5, <1>6 DEF Imported
<1>8. \A m \in maps : m.note \in Notes \ {n} /\ note'[m.note] = note[m.note]
  BY <1>6, MapsTyped DEF Imported, Used
<1>9. \A y \in sync[s].tasks \ {x} : y.task # x.task
  BY DEF ListInv, RunLists
<1>10. task[x.task].text = x.text
  BY <1>2, <1>4 DEF ListsCurrent
<1>11. Agreed(k)' /\ \A m \in maps : Agreed(m) => Agreed(m)'
  <2>1. note'[k.note].text.id = task'[k.task].text.id
    BY <1>1, <1>7, <1>10
  <2>2. Agreed(k)'
    BY <2>1 DEF Agreed
  <2>3. ASSUME NEW m \in maps, Agreed(m)
        PROVE  Agreed(m)'
    BY <1>1, <1>8, <2>3 DEF Agreed
  <2> QED  BY <2>2, <2>3
<1>12. ListsCurrent(s)'
  <2>1. \A y \in sync[s].tasks \ {x} : task'[y.task].state = "live" /\ task'[y.task].text = y.text
    BY <1>1, <1>2, <1>4 DEF ListsCurrent
  <2>2. ASSUME NEW t \in Tasks, task'[t].state = "live"
        PROVE  \/ \E y \in sync[s].tasks \ {x} : y.task = t
               \/ \E m \in maps' : m.task = t /\ Agreed(m)'
    <3>1. \/ \E y \in sync[s].tasks : y.task = t
          \/ \E m \in maps : m.task = t /\ Agreed(m)
      BY <1>1, <1>2, <1>4, <2>2 DEF ListsCurrent
    <3> QED  BY <1>7, <1>11, <3>1
  <2> QED  BY <1>2, <2>1, <2>2 DEF ListsCurrent
<1>13. Read(s)'
  BY <1>2, <1>4, <1>7, <1>9 DEF Read
<1>14. ToThrowAway(s)'
  <2>1. ASSUME NEW m \in maps', ~m.detached, note'[m.note].state = "live", task'[m.task].state # "live"
        PROVE  m.deleted \/ m \in sync[s].missing
    <3>1. m # k
      BY <1>1, <1>2, <1>4, <1>7, <2>1 DEF ListsCurrent
    <3>2. m \in maps /\ note[m.note].state = "live" /\ task[m.task].state # "live"
      BY <1>1, <1>7, <1>8, <2>1, <3>1
    <3> QED  BY <1>1, <1>4, <2>1, <3>2 DEF ToThrowAway
  <2> QED  BY <1>2, <2>1 DEF ToThrowAway
<1> QED  BY <1>2, <1>12, <1>13, <1>14 DEF CalmLists

LEMMA CalmDecides ==
  ASSUME TodoTypeOK, ListInv, HashInv, CalmRunsInv, NEW s \in Syncs, NEW x \in sync[s].tasks,
         SkipTask(s, x) \/ ReadNote(s, x)
  PROVE  CalmRunsInv'
<1>1. /\ Others(s) /\ UNCHANGED <<note, task, maps, settled>>
      /\ sync[s].pc = "next" /\ sync'[s].calm = sync[s].calm /\ sync'[s].pc \in {"next", "write"}
      /\ sync'[s].tasks = sync[s].tasks \ {x} /\ sync'[s].maps = sync[s].maps \ MappingFor(s, x)
      /\ sync'[s].missing = sync[s].missing
  BY TaskSkipped, NoteRead DEF RunFields
<1>2. Open(s) = sync[s].tasks
  BY <1>1 DEF Open, AtHand
<1>3. SUFFICES ASSUME CalmLists(s) PROVE CalmLists(s)'
  BY <1>1, CalmActing
<1>4. ListsCurrent(s) /\ Read(s) /\ ToThrowAway(s)
  BY <1>1, <1>3 DEF CalmLists
<1>5. \A y \in sync[s].tasks \ {x} : y.task # x.task
  BY DEF ListInv, RunLists
<1>6. Read(s)'
  BY <1>1, <1>4, <1>5 DEF Read, MappingFor
<1>7. ToThrowAway(s)'
  BY <1>1, <1>4 DEF ToThrowAway
<1>8. \A m : Agreed(m)' <=> Agreed(m)
  BY <1>1 DEF Agreed
<1>9. CASE SkipTask(s, x)
  <2>1. sync'[s].pc = "next" /\ Open(s)' = sync[s].tasks \ {x}
    BY <1>9, TaskSkipped, HandIs DEF RunFields
  <2>2. PICK m \in sync[s].maps :
          /\ m.task = x.task
          /\ \/ m.detached \/ note[m.note].state # "live"
             \/ note[m.note].text = m.local /\ x.text = m.external
    BY <1>9, TaskSkipped
  <2>3. m \in maps /\ task[m.task].text = x.text
    BY <1>2, <1>4, <2>2 DEF Read, ListsCurrent
  <2>4. Agreed(m)
    BY <2>2, <2>3 DEF Agreed, HashInv
  <2>5. ListsCurrent(s)'
    BY <1>1, <1>2, <1>4, <1>8, <2>1, <2>2, <2>3, <2>4 DEF ListsCurrent
  <2> QED  BY <1>6, <1>7, <2>1, <2>5 DEF CalmLists
<1>10. CASE ReadNote(s, x)
  <2>1. PICK m \in sync[s].maps, c \in Decision :
          /\ m.task = x.task /\ c.map = m /\ c.task = x /\ c.text = note[m.note].text
          /\ RunFields(s, "write", sync[s].tasks \ {x}, sync[s].maps \ MappingFor(s, x),
                       sync[s].missing, {c})
    <3>1. PICK m \in sync[s].maps, c \in Decision : Decided(s, x, m, c)
      BY <1>10, NoteRead
    <3> QED  BY <3>1 DEF Decided
  <2>2. /\ Open(s)' = (sync[s].tasks \ {x}) \union {x} /\ sync'[s].at = {c}
        /\ sync'[s].pc = "write"
    BY <2>1, HandIs DEF RunFields
  <2>3. m \in maps
    BY <1>4, <2>1 DEF Read
  <2>4. Open(s)' = Open(s)
    BY <1>2, <2>2
  <2>5. ListsCurrent(s)'
    BY <1>1, <1>4, <1>8, <2>2, <2>4 DEF ListsCurrent
  <2> QED  BY <1>1, <1>6, <1>7, <2>1, <2>2, <2>3, <2>5 DEF CalmLists
<1> QED  BY <1>9, <1>10

LEMMA CalmWrites ==
  ASSUME TodoTypeOK, RefsInv, ListInv, CalmRunsInv, NEW s \in Syncs, WriteBack(s)
  PROVE  CalmRunsInv'
<1>1. /\ Others(s) /\ UNCHANGED <<task, maps, settled>>
      /\ sync[s].pc = "write" /\ sync'[s].calm = sync[s].calm
  BY TextWrittenBack
<1>2. PICK c \in Decision, h \in Mapping : WrittenBack(s, c, h)
  BY TextWrittenBack
<1>3. /\ sync[s].at = {c} /\ note'[c.map.note].state = note[c.map.note].state
      /\ note'[c.map.note].text = c.task.text
      /\ \A n \in Notes : n # c.map.note => note'[n] = note[n]
      /\ h.note = c.map.note /\ h.task = c.map.task
      /\ RunFields(s, "record", sync[s].tasks, sync[s].maps, sync[s].missing, {h})
  BY <1>2 DEF WrittenBack
<1>4. /\ Open(s)' = sync[s].tasks /\ sync'[s].pc = "record" /\ sync'[s].tasks = sync[s].tasks
      /\ sync'[s].maps = sync[s].maps /\ sync'[s].missing = sync[s].missing /\ sync'[s].at = {h}
      /\ Open(s) = sync[s].tasks \union {c.task}
  BY <1>1, <1>3, HandIs DEF RunFields, Open, AtHand
<1>5. SUFFICES ASSUME CalmLists(s) PROVE CalmLists(s)'
  BY <1>1, <1>4, CalmActing
<1>6. ListsCurrent(s) /\ Read(s) /\ ToThrowAway(s) /\ c.map \in maps
  BY <1>1, <1>3, <1>5 DEF CalmLists
<1>7. c.task.task = c.map.task
  BY <1>1, <1>3 DEF ListInv, RunLists
<1>8. task[c.map.task].state = "live" /\ task[c.map.task].text = c.task.text
  BY <1>4, <1>6, <1>7 DEF ListsCurrent
<1>9. /\ Agreed(c.map)'
      /\ \A m \in maps : Agreed(m) => Agreed(m)'
  <2>1. PICK k \in maps : k = c.map
    BY <1>6
  <2>2. note'[k.note].text.id = task'[k.task].text.id
    BY <1>1, <1>3, <1>8, <2>1
  <2>3. Agreed(k)' /\ Agreed(c.map)'
    BY <1>1, <1>3, <1>8, <2>1, <2>2 DEF Agreed
  <2>4. ASSUME NEW m \in maps, Agreed(m)
        PROVE  Agreed(m)'
    <3>1. CASE m = k
      BY <2>3, <3>1
    <3>2. CASE m # k
      <4>1. m.note \in Notes /\ m.note # c.map.note
        BY <2>1, <3>2, MapsTyped
      <4> QED  BY <1>1, <1>3, <2>4, <4>1 DEF Agreed
    <3> QED  BY <3>1, <3>2
  <2> QED  BY <2>3, <2>4
<1>10. ListsCurrent(s)'
  <2>1. \A x \in sync[s].tasks : task'[x.task].state = "live" /\ task'[x.task].text = x.text
    BY <1>1, <1>4, <1>6 DEF ListsCurrent
  <2>2. ASSUME NEW t \in Tasks, task'[t].state = "live"
        PROVE  \/ \E x \in sync[s].tasks : x.task = t
               \/ \E m \in maps' : m.task = t /\ Agreed(m)'
    <3>1. \/ \E x \in sync[s].tasks : x.task = t
          \/ c.task.task = t
          \/ \E m \in maps : m.task = t /\ Agreed(m)
      BY <1>1, <1>4, <1>6, <2>2 DEF ListsCurrent
    <3> QED  BY <1>1, <1>6, <1>7, <1>9, <3>1
  <2> QED  BY <1>4, <2>1, <2>2 DEF ListsCurrent
<1>11. Read(s)'
  BY <1>1, <1>4, <1>6 DEF Read
<1>12. \A m \in maps : note'[m.note].state = note[m.note].state
  BY <1>3, MapsTyped
<1>13. ToThrowAway(s)'
  BY <1>1, <1>4, <1>6, <1>12 DEF ToThrowAway
<1> QED  BY <1>1, <1>3, <1>4, <1>8, <1>10, <1>11, <1>13 DEF CalmLists

LEMMA CalmSends ==
  ASSUME TodoTypeOK, RefsInv, ListInv, CalmRunsInv, NEW s \in Syncs, SendOut(s)
  PROVE  CalmRunsInv'
<1>1. /\ Others(s) /\ UNCHANGED <<note, maps, settled>>
      /\ sync[s].pc = "write" /\ sync'[s].calm = sync[s].calm
  BY TextSent
<1>2. PICK c \in Decision, h \in Mapping : SentOut(s, c, h)
  BY TextSent
<1>3. PICK u : u = Outward(c.text)
  OBVIOUS
<1>4. /\ sync[s].at = {c}
      /\ task[c.map.task].state = "live" /\ task'[c.map.task].state = "live"
      /\ task'[c.map.task].text = u
      /\ \A t \in Tasks : t # c.map.task => task'[t] = task[t]
      /\ h.note = c.map.note /\ h.task = c.map.task
      /\ RunFields(s, "record", sync[s].tasks, sync[s].maps, sync[s].missing, {h})
  BY <1>2, <1>3 DEF SentOut
<1>5. /\ Open(s)' = sync[s].tasks /\ sync'[s].pc = "record" /\ sync'[s].tasks = sync[s].tasks
      /\ sync'[s].maps = sync[s].maps /\ sync'[s].missing = sync[s].missing /\ sync'[s].at = {h}
      /\ Open(s) = sync[s].tasks \union {c.task} /\ InHand(s) = {c.map}
  BY <1>1, <1>4, HandIs DEF RunFields, Open, AtHand, InHand
<1>6. SUFFICES ASSUME CalmLists(s) PROVE CalmLists(s)'
  BY <1>1, <1>5, CalmActing
<1>7. /\ ListsCurrent(s) /\ Read(s) /\ ToThrowAway(s) /\ c.map \in maps
      /\ note[c.map.note].text = c.text
  BY <1>1, <1>4, <1>6 DEF CalmLists
<1>8. PICK k \in maps : k = c.map
  BY <1>7
<1>9. c.task.task = k.task /\ \A x \in sync[s].tasks : x.task # k.task
  BY <1>1, <1>4, <1>5, <1>8 DEF ListInv, RunLists
<1>10. u.id = c.text.id
  <2>1. c.text \in Text
    BY <1>1, <1>4, HandTypes
  <2> QED  BY <1>3, <2>1, OutwardText
<1>11. Agreed(k)'
  <2>1. note'[k.note].text.id = task'[k.task].text.id
    BY <1>1, <1>4, <1>7, <1>8, <1>10
  <2> QED  BY <2>1 DEF Agreed
<1>12. ASSUME NEW m \in maps, m # k, Agreed(m)
       PROVE  Agreed(m)'
  <2>1. m.task \in Tasks /\ m.task # c.map.task
    BY <1>8, <1>12, MapsTyped
  <2> QED  BY <1>1, <1>4, <1>12, <2>1 DEF Agreed
<1>13. ListsCurrent(s)'
  <2>1. \A x \in sync[s].tasks : task'[x.task].state = "live" /\ task'[x.task].text = x.text
    <3>1. \A x \in sync[s].tasks : x.task \in Tasks
      BY <1>5, KnownTypes
    <3> QED  BY <1>4, <1>5, <1>7, <1>8, <1>9, <3>1 DEF ListsCurrent
  <2>2. ASSUME NEW t \in Tasks, task'[t].state = "live"
        PROVE  \/ \E x \in sync[s].tasks : x.task = t
               \/ \E m \in maps' : m.task = t /\ Agreed(m)'
    <3>1. CASE t = k.task
      BY <1>1, <1>11, <3>1
    <3>2. CASE t # k.task
      <4>1. task[t].state = "live"
        BY <1>4, <1>8, <2>2, <3>2
      <4>2. \/ \E x \in sync[s].tasks : x.task = t
            \/ \E m \in maps : m.task = t /\ Agreed(m)
        BY <1>5, <1>7, <1>9, <3>2, <4>1 DEF ListsCurrent
      <4> QED  BY <1>1, <1>12, <3>2, <4>2
    <3> QED  BY <3>1, <3>2
  <2> QED  BY <1>5, <2>1, <2>2 DEF ListsCurrent
<1>14. Read(s)'
  BY <1>1, <1>5, <1>7 DEF Read
<1>15. \A m \in maps : task'[m.task].state = task[m.task].state
  BY <1>4, MapsTyped
<1>16. ToThrowAway(s)'
  BY <1>1, <1>5, <1>7, <1>15 DEF ToThrowAway
<1> QED  BY <1>4, <1>5, <1>13, <1>14, <1>16 DEF CalmLists

LEMMA CalmRecords ==
  ASSUME TodoTypeOK, RefsInv, ListInv, CalmRunsInv, NEW s \in Syncs, RecordHashes(s)
  PROVE  CalmRunsInv'
<1>1. /\ Others(s) /\ UNCHANGED <<note, task, settled>>
      /\ sync[s].pc = "record" /\ sync'[s].calm = sync[s].calm
      /\ RunFields(s, "next", sync[s].tasks, sync[s].maps, sync[s].missing, {})
  BY HashesRecorded
<1>2. PICK c \in Mapping, m \in maps, k \in Mapping : PutBack(s, c, m, k)
  BY HashesRecorded
<1>3. /\ sync[s].at = {c} /\ m.note = c.note /\ m.task = c.task
      /\ k.note = c.note /\ k.task = c.task /\ k.detached = m.detached
      /\ maps' = (maps \ {m}) \union {k}
  BY <1>2 DEF PutBack
<1>4. /\ Open(s)' = sync[s].tasks /\ sync'[s].pc = "next" /\ sync'[s].tasks = sync[s].tasks
      /\ sync'[s].maps = sync[s].maps /\ sync'[s].missing = sync[s].missing
      /\ Open(s) = sync[s].tasks /\ InHand(s) = {c}
  BY <1>1, <1>3, HandIs DEF RunFields, Open, AtHand, InHand
<1>5. SUFFICES ASSUME CalmLists(s) PROVE CalmLists(s)'
  BY <1>1, <1>4, CalmActing
<1>6. ListsCurrent(s) /\ Read(s) /\ ToThrowAway(s) /\ task[c.task].state = "live"
  BY <1>1, <1>3, <1>5 DEF CalmLists
<1>7. \A x \in sync[s].tasks : x.task # c.task
  BY <1>4 DEF ListInv, RunLists
<1>8. /\ Agreed(m) => Agreed(k)'
      /\ \A j \in maps : Agreed(j) => Agreed(j)'
  BY <1>1, <1>3 DEF Agreed
<1>9. ListsCurrent(s)'
  <2>1. ASSUME NEW t \in Tasks, task'[t].state = "live"
        PROVE  \/ \E x \in sync[s].tasks : x.task = t
               \/ \E j \in maps' : j.task = t /\ Agreed(j)'
    <3>1. \/ \E x \in sync[s].tasks : x.task = t
          \/ \E j \in maps : j.task = t /\ Agreed(j)
      BY <1>1, <1>4, <1>6, <2>1 DEF ListsCurrent
    <3> QED  BY <1>3, <1>8, <3>1
  <2>2. \A x \in sync[s].tasks : task'[x.task].state = "live" /\ task'[x.task].text = x.text
    BY <1>1, <1>4, <1>6 DEF ListsCurrent
  <2> QED  BY <1>4, <2>1, <2>2 DEF ListsCurrent
<1>10. Read(s)'
  BY <1>3, <1>4, <1>6, <1>7 DEF Read
<1>11. ToThrowAway(s)'
  BY <1>1, <1>3, <1>4, <1>6 DEF ToThrowAway
<1> QED  BY <1>4, <1>9, <1>10, <1>11 DEF CalmLists

LEMMA CalmReadsMissing ==
  ASSUME TodoTypeOK, CalmRunsInv, NEW s \in Syncs, NEW m \in sync[s].missing, ReadMissing(s, m)
  PROVE  CalmRunsInv'
<1>1. /\ Others(s) /\ UNCHANGED <<note, task, maps, settled>>
      /\ sync[s].pc = "next" /\ sync[s].tasks = {} /\ sync'[s].calm = sync[s].calm
      /\ sync'[s].tasks = {} /\ sync'[s].missing = sync[s].missing \ {m}
      /\ sync'[s].pc \in {"next", "trash"}
      /\ note[m.note].state = "live" => sync'[s].pc = "trash" /\ sync'[s].at = {m}
  BY MissingRead DEF RunFields
<1>2. Open(s) = {} /\ Open(s)' = {}
  BY <1>1 DEF Open, AtHand
<1>3. SUFFICES ASSUME CalmLists(s) PROVE CalmLists(s)'
  BY <1>1, CalmActing
<1>4. ListsCurrent(s) /\ ToThrowAway(s)
  BY <1>1, <1>3 DEF CalmLists
<1>5. \A j : Agreed(j)' <=> Agreed(j)
  BY <1>1 DEF Agreed
<1>6. ListsCurrent(s)'
  BY <1>1, <1>2, <1>4, <1>5 DEF ListsCurrent
<1>7. Read(s)'
  BY <1>1 DEF Read
<1>8. ToThrowAway(s)'
  BY <1>1, <1>4 DEF ToThrowAway
<1> QED  BY <1>1, <1>6, <1>7, <1>8 DEF CalmLists

LEMMA CalmThrows ==
  ASSUME TodoTypeOK, RefsInv, ListInv, CalmRunsInv, NEW s \in Syncs, ThrowAway(s)
  PROVE  CalmRunsInv'
<1>1. /\ Others(s) /\ UNCHANGED <<task, settled>>
      /\ sync[s].pc = "trash" /\ sync'[s].calm = sync[s].calm
      /\ RunFields(s, "next", sync[s].tasks, sync[s].maps, sync[s].missing, {})
  BY NoteThrownAway
<1>2. PICK c \in Mapping, m \in maps, k \in Mapping : Throwing(s, c, m, k)
  BY NoteThrownAway
<1>3. /\ sync[s].at = {c} /\ m.note = c.note /\ m.task = c.task
      /\ note'[c.note].state = "trash"
      /\ \A n \in Notes : n # c.note => note'[n] = note[n]
      /\ k.note = c.note /\ k.task = c.task /\ maps' = (maps \ {m}) \union {k}
  BY <1>2 DEF Throwing
<1>4. sync[s].tasks = {}
  BY <1>1 DEF ListInv, RunLists
<1>5. /\ Open(s)' = {} /\ sync'[s].pc = "next" /\ sync'[s].tasks = {}
      /\ sync'[s].missing = sync[s].missing /\ Open(s) = {}
  BY <1>1, <1>4, HandIs DEF RunFields, Open, AtHand
<1>6. SUFFICES ASSUME CalmLists(s) PROVE CalmLists(s)'
  BY <1>1, <1>5, CalmActing
<1>7. ListsCurrent(s) /\ ToThrowAway(s)
  BY <1>1, <1>6 DEF CalmLists
<1>8. \A j \in maps : j # m => j.note # c.note /\ note'[j.note] = note[j.note]
  BY <1>3, MapsTyped
<1>9. /\ Agreed(k)'
      /\ \A j \in maps : j # m /\ Agreed(j) => Agreed(j)'
  BY <1>1, <1>3, <1>8 DEF Agreed
<1>10. ListsCurrent(s)'
  <2>1. ASSUME NEW t \in Tasks, task'[t].state = "live"
        PROVE  \E j \in maps' : j.task = t /\ Agreed(j)'
    <3>1. \E j \in maps : j.task = t /\ Agreed(j)
      BY <1>1, <1>5, <1>7, <2>1 DEF ListsCurrent
    <3> QED  BY <1>3, <1>9, <3>1
  <2> QED  BY <1>5, <2>1 DEF ListsCurrent
<1>11. Read(s)'
  BY <1>5 DEF Read
<1>12. ToThrowAway(s)'
  <2>1. ASSUME NEW j \in maps', ~j.detached, note'[j.note].state = "live", task'[j.task].state # "live"
        PROVE  j.deleted \/ j \in sync[s].missing
    <3>1. j \in maps /\ j # m
      BY <1>3, <2>1
    <3>2. note[j.note].state = "live" /\ task[j.task].state # "live" /\ c.note # j.note
      BY <1>1, <1>8, <2>1, <3>1
    <3> QED  BY <1>3, <1>7, <2>1, <3>1, <3>2 DEF ToThrowAway
  <2> QED  BY <1>5, <2>1 DEF ToThrowAway
<1> QED  BY <1>5, <1>10, <1>11, <1>12 DEF CalmLists

LEMMA CalmRunsStep ==
  ASSUME TodoTypeOK, RefsInv, ListInv, HashInv, CalmRunsInv, [TodoNext]_todoVars
  PROVE  CalmRunsInv'
<1>1. CASE UNCHANGED todoVars
  BY <1>1, CalmUntouched DEF todoVars
<1>2. CASE UserStep
  BY <1>2, UserDisturbs, CalmDisturbed
<1>3. ASSUME NEW d \in Desks, DeskStep(d)
      PROVE  CalmRunsInv'
  BY <1>3, DeskDisturbs, CalmDisturbed, CalmUntouched DEF DeskOnly
<1>4. ASSUME NEW s \in Syncs, RunStep(s)
      PROVE  CalmRunsInv'
  BY <1>4, CalmBegins, CalmListing, CalmImports, CalmDecides, CalmWrites, CalmSends, CalmRecords,
     CalmReadsMissing, CalmThrows, CalmEnds DEF RunStep
<1> QED  BY <1>1, <1>2, <1>3, <1>4, TodoSteps

-----------------------------------------------------------------------------
(* TodoSync: exports that are not recorded yet *)

\* A run that knows no other pairs and has nothing else open than before.
Fewer(r) ==
  /\ \A m \in Known(r)' : \E j \in Known(r) : j.note = m.note /\ j.task = m.task
  /\ Open(r)' \subseteq Open(r)
  /\ sync'[r].pc = "write" => sync[r].pc = "write" /\ sync'[r].at = sync[r].at

LEMMA UndisturbedFewer ==
  ASSUME NEW r, Undisturbed(r)
  PROVE  Fewer(r)
BY DEF Undisturbed, Fewer

LEMMA StaysLive ==
  ASSUME TodoTypeOK, Monotone, NEW t \in Tasks, task[t].state # "none", task'[t].state = "live"
  PROVE  task[t].state = "live"
BY TodoTypes DEF Monotone

LEMMA PendingKept ==
  ASSUME TodoTypeOK, RefsInv, Monotone, NEW n \in Notes, NEW t \in Tasks, NEW v \in Text,
         Pending(n, t, v), task[t].state # "none",
         SameText(task'[t].text, n, v),
         \A k \in maps' : k.task = t =>
           /\ \/ \E m \in maps : m.note = k.note /\ m.task = t
              \/ k.note # n /\ note[k.note].state = "none"
           /\ SameText(note'[k.note].text, n, v),
         \A r \in Syncs : Fewer(r) \/ RunPending(r, n, t, v)'
  PROVE  Pending(n, t, v)'
<1>1. \A k \in maps' : k.task = t => k.note # n /\ SameText(note'[k.note].text, n, v)
  BY DEF Pending
<1>2. ASSUME NEW r \in Syncs, Fewer(r)
      PROVE  RunPending(r, n, t, v)'
  <2>1. RunPending(r, n, t, v)
    BY DEF Pending
  <2>2. \A j \in Known(r) : Used(j)
    BY DEF RefsInv, RunRefs
  <2>3. \A m \in Known(r)' : m.task = t => m.note # n
    BY <1>2, <2>1 DEF Fewer, RunPending
  <2>4. ASSUME NEW k \in maps', NEW m \in Known(r)', k.task = t, m.note = k.note
        PROVE  m.task = t
    <3>1. PICK j \in Known(r) : j.note = m.note /\ j.task = m.task
      BY <1>2 DEF Fewer
    <3>2. note[k.note].state # "none"
      BY <2>2, <2>4, <3>1 DEF Used
    <3>3. PICK i \in maps : i.note = k.note /\ i.task = t
      BY <2>4, <3>2
    <3> QED  BY <2>1, <2>4, <3>1, <3>3 DEF RunPending
  <2>5. \A x \in Open(r)' : x.task = t => SameText(x.text, n, v)
    BY <1>2, <2>1 DEF Fewer, RunPending
  <2>6. sync'[r].pc = "write" => \A c \in sync'[r].at :
          c.map.task = t /\ task'[t].state = "live" => SameText(Outward(c.text), n, v)
    BY <1>2, <2>1, StaysLive DEF Fewer, RunPending
  <2> QED  BY <2>3, <2>4, <2>5, <2>6 DEF RunPending
<1>3. \A r \in Syncs : RunPending(r, n, t, v)'
  BY <1>2
<1> QED  BY <1>1, <1>3 DEF Pending

LEMMA PendingUser ==
  ASSUME TodoTypeOK, RefsInv, Monotone, NEW n \in Notes, NEW t \in Tasks, NEW v \in Text,
         Pending(n, t, v), task[t].state # "none", UserStep
  PROVE  Pending(n, t, v)'
<1>1. UNCHANGED maps /\ \A r \in Syncs : Fewer(r)
  BY UserDisturbs, UndisturbedFewer DEF AllDisturbed
<1>2. /\ SameText(task[t].text, n, v)
      /\ \A m \in maps : m.task = t => m.note \in Notes \ {n} /\ SameText(note[m.note].text, n, v)
  BY MapsTyped DEF Pending
<1>3. SameText(task'[t].text, n, v)
  <2>1. ASSUME NEW u \in Tasks, WriteTask(u)
        PROVE  SameText(task'[t].text, n, v)
    <3>1. CASE u = t
      BY <2>1, <3>1, TaskWritten, SyncAssumption DEF SameText
    <3>2. CASE u # t
      BY <1>2, <2>1, <3>2, TaskWritten
    <3> QED  BY <3>1, <3>2
  <2>2. ASSUME NEW u \in Tasks, DeleteTask(u)
        PROVE  task'[t].text = task[t].text
    BY <2>2, TaskDeleted
  <2>3. ASSUME NEW j \in Notes,
               WriteNote(j) \/ MoveNote(j, "live", "trash") \/ MoveNote(j, "trash", "live")
        PROVE  task' = task
    BY <2>3, NoteWritten, NoteMoved
  <2> QED  BY <1>2, <2>1, <2>2, <2>3 DEF UserStep
<1>4. \A i \in Notes \ {n} : SameText(note[i].text, n, v) => SameText(note'[i].text, n, v)
  <2>1. ASSUME NEW j \in Notes, WriteNote(j), NEW i \in Notes \ {n}, SameText(note[i].text, n, v)
        PROVE  SameText(note'[i].text, n, v)
    <3>1. note'[j].text.from = j /\ \A k \in Notes \ {j} : note'[k] = note[k]
      BY <2>1, NoteWritten
    <3>2. CASE i = j
      BY <2>1, <3>1, <3>2 DEF SameText
    <3>3. CASE i # j
      BY <2>1, <3>1, <3>3
    <3> QED  BY <3>2, <3>3
  <2>2. ASSUME NEW j \in Notes, MoveNote(j, "live", "trash") \/ MoveNote(j, "trash", "live")
        PROVE  \A i \in Notes : note'[i].text = note[i].text
    BY <2>2, NoteMoved
  <2>3. ASSUME NEW u \in Tasks, WriteTask(u) \/ DeleteTask(u)
        PROVE  note' = note
    BY <2>3, TaskWritten, TaskDeleted
  <2> QED  BY <2>1, <2>2, <2>3 DEF UserStep
<1> QED  BY <1>1, <1>2, <1>3, <1>4, PendingKept

LEMMA PendingDesk ==
  ASSUME TodoTypeOK, RefsInv, Monotone, NEW n \in Notes, NEW t \in Tasks, NEW v \in Text,
         Pending(n, t, v), task[t].state # "none", NEW d \in Desks, DeskStep(d),
         desk[d].pc = "record" => t \notin desk[d].task
  PROVE  Pending(n, t, v)'
<1>1. \A r \in Syncs : Fewer(r)
  BY DeskDisturbs, UndisturbedFewer
<1>2. /\ SameText(task[t].text, n, v)
      /\ \A m \in maps : m.task = t => m.note \in Notes \ {n} /\ SameText(note[m.note].text, n, v)
  BY MapsTyped DEF Pending
<1>3. /\ \A i \in Notes : note'[i].text = note[i].text
      /\ task'[t].text = task[t].text
  <2>1. ASSUME NEW u \in Tasks, CreateTask(d, u)
        PROVE  note' = note /\ task'[t] = task[t]
    BY <2>1, TaskCreated
  <2>2. CASE \/ RecordExport(d) \/ UndoExport(d) \/ Unlink(d) \/ EndMapping(d) \/ Purge(d)
             \/ DeskStops(d)
             \/ \E j \in Notes : \E external \in BOOLEAN : StartPurge(d, j, external)
             \/ \E j \in Notes : StartExport(d, j)
    BY <2>2, ExportRecorded, TasksRemoved, MappingEnded, NotePurged, DeskStopped, PurgeStarted,
       ExportStarted DEF DeskOnly
  <2> QED  BY <2>1, <2>2 DEF DeskStep
<1>4. \A k \in maps' : k.task = t => \E m \in maps : m.note = k.note /\ m.task = t
  <2>1. CASE UNCHANGED maps
    BY <2>1
  <2>2. CASE RecordExport(d) /\ ~UNCHANGED maps
    <3>1. PICK j \in desk[d].note, u \in desk[d].task, w \in desk[d].text :
            maps' = maps \union {Map(j, u, w, Outward(w))}
      BY <2>2, ExportRecorded DEF DeskOnly
    <3>2. Map(j, u, w, Outward(w)).task = u
      BY DEF Map
    <3>3. u # t
      BY <2>2, ExportRecorded
    <3> QED  BY <3>1, <3>2, <3>3
  <2>3. CASE EndMapping(d)
    <3>1. \A k \in maps' : \E m \in maps : m.note = k.note /\ m.task = k.task
      BY <2>3, MappingEnded
    <3> QED  BY <3>1
  <2>4. RecordExport(d) \/ EndMapping(d) \/ UNCHANGED maps
    BY DEF DeskStep, StartExport, StartPurge, CreateTask, UndoExport, Unlink, Purge, DeskStops
  <2> QED  BY <2>1, <2>2, <2>3, <2>4
<1>5. \A k \in maps' : k.task = t => SameText(note'[k.note].text, n, v)
  BY <1>2, <1>3, <1>4
<1> QED  BY <1>1, <1>2, <1>3, <1>4, <1>5, PendingKept

LEMMA PendingRun ==
  ASSUME TodoTypeOK, RefsInv, Monotone, ListInv, NEW n \in Notes, NEW t \in Tasks, NEW v \in Text,
         Pending(n, t, v), task[t].state # "none", note[n].state # "none",
         NEW s \in Syncs, RunStep(s)
  PROVE  Pending(n, t, v)'
<1>1. /\ SameText(task[t].text, n, v)
      /\ \A m \in maps : m.task = t => m.note \in Notes \ {n} /\ SameText(note[m.note].text, n, v)
      /\ RunPending(s, n, t, v)
  BY MapsTyped DEF Pending
<1>2. RunRefs(s) /\ RunLists(s)
  BY DEF RefsInv, ListInv
<1> DEFINE Fine(k) == /\ \/ \E m \in maps : m.note = k.note /\ m.task = t
                         \/ k.note # n /\ note[k.note].state = "none"
                      /\ SameText(note'[k.note].text, n, v)
           Kept == /\ Others(s)
                   /\ SameText(task'[t].text, n, v)
                   /\ \A k \in maps' : k.task = t => Fine(k)
                   /\ Fewer(s) \/ RunPending(s, n, t, v)'
<1>3. SUFFICES Kept
  <2>1. \A r \in Syncs : Fewer(r) \/ RunPending(r, n, t, v)'
    BY <1>3, UndisturbedFewer DEF Others
  <2> QED  BY <1>3, <2>1, PendingKept
<1>4. UNCHANGED <<note, maps>> => \A k \in maps' : k.task = t => Fine(k)
  BY <1>1
<1>5. UNCHANGED task => SameText(task'[t].text, n, v)
  BY <1>1
<1> HIDE DEF Fine
<1>6. CASE StartSync(s) \/ FinishSync(s) \/ SyncStops(s)
  <2>1. PICK pc \in {"list", "idle"} :
          Others(s) /\ UNCHANGED <<note, task, maps>> /\ RunFields(s, pc, {}, {}, {}, {})
    BY <1>6, RunStarted, RunEnded
  <2>2. Fewer(s)
    BY <2>1, HandIs DEF Fewer, RunFields
  <2> QED  BY <1>4, <1>5, <2>1, <2>2
<1>7. CASE ListTasks(s)
  <2>1. PICK listed :
          /\ Others(s) /\ UNCHANGED <<note, task, maps>> /\ sync[s].pc = "list"
          /\ RunFields(s, "maps", listed, sync[s].maps, sync[s].missing, sync[s].at)
          /\ \A x \in sync'[s].tasks : x.task \in Tasks /\ x.text = task[x.task].text
    BY <1>7, TasksListed
  <2>2. Known(s)' = {} /\ Open(s)' = sync'[s].tasks /\ sync'[s].pc = "maps"
    BY <1>2, <2>1, HandIs DEF RunFields, RunLists
  <2>3. RunPending(s, n, t, v)'
    BY <1>1, <2>1, <2>2 DEF RunPending
  <2> QED  BY <1>4, <1>5, <2>1, <2>3
<1>8. CASE ReadMappings(s)
  <2>1. /\ Others(s) /\ UNCHANGED <<note, task, maps>> /\ sync[s].pc = "maps"
        /\ RunFields(s, "next", sync[s].tasks, {m \in maps : \E x \in sync[s].tasks : x.task = m.task},
                     Missing(sync[s].tasks), sync[s].at)
    BY <1>8, MappingsRead
  <2>2. Known(s)' \subseteq maps /\ Open(s)' = sync[s].tasks /\ sync'[s].pc = "next"
    BY <2>1, HandIs DEF RunFields
  <2>3. \A x \in Open(s)' : x.task = t => SameText(x.text, n, v)
    BY <1>1, <2>2 DEF RunPending, Open
  <2>4. \A k \in maps, m \in Known(s)' : k.task = t /\ m.note = k.note => m.task = t
    BY <2>2, MapsTyped
  <2>5. RunPending(s, n, t, v)'
    BY <1>1, <2>1, <2>2, <2>3, <2>4 DEF RunPending
  <2> QED  BY <1>4, <1>5, <2>1, <2>5
<1>9. ASSUME NEW x \in sync[s].tasks, ImportTask(s, x)
      PROVE  Kept
  <2>1. /\ Others(s) /\ UNCHANGED task /\ sync[s].pc = "next"
        /\ RunFields(s, "next", sync[s].tasks \ {x}, sync[s].maps, sync[s].missing, sync[s].at)
        /\ UNCHANGED <<note, maps>> \/ \E j \in Notes, k \in Mapping : Imported(x, j, k)
    BY <1>9, TaskImported
  <2>2. Fewer(s) /\ x \in Open(s)
    <3>1. /\ Known(s)' = sync[s].maps /\ Open(s)' = sync[s].tasks \ {x} /\ sync'[s].pc = "next"
      BY <2>1, HandIs DEF RunFields
    <3> QED  BY <3>1 DEF Known, Open, Fewer
  <2>3. ASSUME NEW j \in Notes, NEW k \in Mapping, Imported(x, j, k), NEW i \in maps', i.task = t
        PROVE  Fine(i)
    <3>1. CASE i \in maps
      <4>1. i.note # j
        BY <2>3, <3>1, MapsTyped DEF Imported, Used
      <4>2. note'[i.note] = note[i.note]
        BY <1>1, <2>3, <3>1, <4>1 DEF Imported
      <4> QED  BY <1>1, <2>3, <3>1, <4>2 DEF Fine
    <3>2. CASE i = k
      <4>1. i.note = j /\ x.task = t /\ note'[j].text = x.text /\ note[j].state = "none" /\ j # n
        BY <2>3, <3>2 DEF Imported
      <4>2. SameText(x.text, n, v)
        BY <1>1, <2>2, <4>1 DEF RunPending
      <4> QED  BY <4>1, <4>2 DEF Fine
    <3> QED  BY <2>3, <3>1, <3>2 DEF Imported
  <2> QED  BY <1>4, <1>5, <2>1, <2>2, <2>3
<1>10. ASSUME NEW x \in sync[s].tasks, SkipTask(s, x)
       PROVE  Kept
  <2>1. /\ Others(s) /\ UNCHANGED <<note, task, maps>>
        /\ RunFields(s, "next", sync[s].tasks \ {x}, sync[s].maps \ MappingFor(s, x),
                     sync[s].missing, sync[s].at)
    BY <1>10, TaskSkipped
  <2>2. /\ Known(s)' = sync[s].maps \ MappingFor(s, x) /\ Open(s)' = sync[s].tasks \ {x}
        /\ sync'[s].pc = "next"
    BY <2>1, HandIs DEF RunFields
  <2>3. Fewer(s)
    BY <2>2 DEF Known, Open, Fewer
  <2> QED  BY <1>4, <1>5, <2>1, <2>3
<1>11. ASSUME NEW x \in sync[s].tasks, ReadNote(s, x)
       PROVE  Kept
  <2>1. PICK m \in sync[s].maps, c \in Decision :
          /\ m.task = x.task /\ c.map = m /\ c.task = x /\ c.text = note[m.note].text
          /\ RunFields(s, "write", sync[s].tasks \ {x}, sync[s].maps \ MappingFor(s, x),
                       sync[s].missing, {c})
    <3>1. PICK m \in sync[s].maps, c \in Decision : Decided(s, x, m, c)
      BY <1>11, NoteRead
    <3> QED  BY <3>1 DEF Decided
  <2>2. Others(s) /\ UNCHANGED <<note, task, maps>> /\ sync[s].pc = "next"
    BY <1>11, NoteRead
  <2>3. /\ Known(s)' = (sync[s].maps \ MappingFor(s, x)) \union {m} /\ sync'[s].at = {c}
        /\ Open(s)' = (sync[s].tasks \ {x}) \union {x} /\ sync'[s].pc = "write"
    BY <2>1, HandIs DEF RunFields
  <2>4. Known(s)' \subseteq Known(s) /\ Open(s)' \subseteq Open(s) /\ m \in Known(s)
    BY <2>1, <2>3 DEF Known, Open
  <2>5. m.task = t /\ task[t].state = "live" => SameText(Outward(c.text), n, v)
    <3>1. SUFFICES ASSUME m.task = t, task[t].state = "live" PROVE SameText(Outward(c.text), n, v)
      OBVIOUS
    <3>2. PICK k \in maps : k.task = t /\ k.note = m.note
      BY <1>2, <2>4, <3>1 DEF RunRefs, StillThere
    <3>3. c.text \in Text /\ SameText(c.text, n, v)
      BY <1>1, <2>1, <3>2, TodoTypes
    <3>4. PICK u, w : u = Outward(c.text) /\ w = Outward(v)
      OBVIOUS
    <3>5. u.from = c.text.from /\ Outward(w) = w
      BY <3>3, <3>4, OutwardText
    <3> QED  BY <3>3, <3>4, <3>5 DEF SameText
  <2>6. /\ \A j \in Known(s)' : j.task = t => j.note # n
        /\ \A k \in maps, j \in Known(s)' : k.task = t /\ j.note = k.note => j.task = t
        /\ \A y \in Open(s)' : y.task = t => SameText(y.text, n, v)
    BY <1>1, <2>4 DEF RunPending
  <2>7. RunPending(s, n, t, v)'
    BY <2>1, <2>2, <2>3, <2>5, <2>6 DEF RunPending
  <2> QED  BY <1>4, <1>5, <2>2, <2>7
<1>12. CASE WriteBack(s)
  <2>1. PICK c \in Decision, h \in Mapping : WrittenBack(s, c, h)
    BY <1>12, TextWrittenBack
  <2>2. Others(s) /\ UNCHANGED <<task, maps>> /\ sync[s].pc = "write"
    BY <1>12, TextWrittenBack
  <2>3. /\ sync[s].at = {c} /\ note'[c.map.note].text = c.task.text
        /\ \A j \in Notes : j # c.map.note => note'[j] = note[j]
        /\ h.note = c.map.note /\ h.task = c.map.task
        /\ RunFields(s, "record", sync[s].tasks, sync[s].maps, sync[s].missing, {h})
    BY <2>1 DEF WrittenBack
  <2>4. /\ Known(s)' = sync[s].maps \union {h} /\ Open(s)' = sync[s].tasks /\ sync'[s].pc = "record"
        /\ Known(s) = sync[s].maps \union {c.map} /\ Open(s) = sync[s].tasks \union {c.task}
    BY <2>2, <2>3, HandIs DEF RunFields, Known, InHand, Open, AtHand
  <2>5. Fewer(s)
    BY <2>3, <2>4 DEF Fewer
  <2>6. ASSUME NEW k \in maps, k.task = t
        PROVE  Fine(k)
    <3>1. CASE k.note = c.map.note
      <4>1. c.map.task = t
        BY <1>1, <2>4, <2>6, <3>1 DEF RunPending
      <4>2. c.task.task = t
        BY <1>2, <2>2, <2>3, <4>1 DEF RunLists
      <4>3. SameText(c.task.text, n, v)
        BY <1>1, <2>4, <4>2 DEF RunPending
      <4> QED  BY <2>3, <2>6, <3>1, <4>3 DEF Fine
    <3>2. CASE k.note # c.map.note
      <4>1. note'[k.note] = note[k.note]
        BY <1>1, <2>3, <2>6, <3>2
      <4> QED  BY <1>1, <2>6, <4>1 DEF Fine
    <3> QED  BY <3>1, <3>2
  <2> QED  BY <1>5, <2>2, <2>5, <2>6
<1>13. CASE SendOut(s)
  <2>1. PICK c \in Decision, h \in Mapping : SentOut(s, c, h)
    BY <1>13, TextSent
  <2>2. Others(s) /\ UNCHANGED <<note, maps>> /\ sync[s].pc = "write"
    BY <1>13, TextSent
  <2>3. /\ sync[s].at = {c} /\ task[c.map.task].state = "live"
        /\ task'[c.map.task].text = Outward(c.text)
        /\ \A u \in Tasks : u # c.map.task => task'[u] = task[u]
        /\ h.note = c.map.note /\ h.task = c.map.task
        /\ RunFields(s, "record", sync[s].tasks, sync[s].maps, sync[s].missing, {h})
    BY <2>1 DEF SentOut
  <2>4. /\ Known(s)' = sync[s].maps \union {h} /\ Open(s)' = sync[s].tasks /\ sync'[s].pc = "record"
        /\ Known(s) = sync[s].maps \union {c.map} /\ Open(s) = sync[s].tasks \union {c.task}
    BY <2>2, <2>3, HandIs DEF RunFields, Known, InHand, Open, AtHand
  <2>5. Fewer(s)
    BY <2>3, <2>4 DEF Fewer
  <2>6. SameText(task'[t].text, n, v)
    <3>1. CASE c.map.task = t
      BY <1>1, <2>2, <2>3, <3>1 DEF RunPending
    <3>2. CASE c.map.task # t
      BY <1>1, <2>3, <3>2
    <3> QED  BY <3>1, <3>2
  <2> QED  BY <1>4, <2>2, <2>5, <2>6
<1>14. CASE RecordHashes(s) \/ ThrowAway(s)
  <2>1. /\ Others(s) /\ UNCHANGED task
        /\ RunFields(s, "next", sync[s].tasks, sync[s].maps, sync[s].missing, {})
    BY <1>14, HashesRecorded, NoteThrownAway
  <2>2. /\ \A i \in Notes : note'[i].text = note[i].text
        /\ \E m \in maps, k \in Mapping :
             k.note = m.note /\ k.task = m.task /\ maps' = (maps \ {m}) \union {k}
    <3>1. CASE RecordHashes(s)
      <4>1. PICK c \in Mapping, m \in maps, k \in Mapping : PutBack(s, c, m, k)
        BY <3>1, HashesRecorded
      <4>2. k.note = m.note /\ k.task = m.task /\ maps' = (maps \ {m}) \union {k}
        BY <4>1 DEF PutBack
      <4> QED  BY <3>1, <4>2, HashesRecorded
    <3>2. CASE ThrowAway(s)
      <4>1. PICK c \in Mapping, m \in maps, k \in Mapping : Throwing(s, c, m, k)
        BY <3>2, NoteThrownAway
      <4>2. /\ k.note = m.note /\ k.task = m.task /\ maps' = (maps \ {m}) \union {k}
            /\ \A i \in Notes : note'[i].text = note[i].text
        BY <4>1 DEF Throwing
      <4> QED  BY <4>2
    <3> QED  BY <1>14, <3>1, <3>2
  <2>3. /\ Known(s)' = sync[s].maps /\ Open(s)' = sync[s].tasks /\ sync'[s].pc = "next"
    BY <2>1, HandIs DEF RunFields
  <2>4. Fewer(s)
    BY <2>3 DEF Fewer, Known, Open
  <2>5. \A k \in maps' : k.task = t => Fine(k)
    <3>1. \A k \in maps' : \E m \in maps : m.note = k.note /\ m.task = k.task
      BY <2>2
    <3> QED  BY <1>1, <2>2, <3>1 DEF Fine
  <2> QED  BY <1>5, <2>1, <2>4, <2>5
<1>15. ASSUME NEW m \in sync[s].missing, ReadMissing(s, m)
       PROVE  Kept
  <2>1. /\ Others(s) /\ UNCHANGED <<note, task, maps>>
        /\ sync'[s].tasks = {} /\ sync'[s].maps = sync[s].maps /\ sync'[s].pc \in {"next", "trash"}
    BY <1>15, MissingRead DEF RunFields
  <2>2. Fewer(s)
    BY <2>1 DEF Fewer, Known, InHand, Open, AtHand
  <2> QED  BY <1>4, <1>5, <2>1, <2>2
<1> QED
  BY <1>6, <1>7, <1>8, <1>9, <1>10, <1>11, <1>12, <1>13, <1>14, <1>15 DEF RunStep

LEMMA RunsLeaveDesks ==
  ASSUME NEW s \in Syncs, RunStep(s)
  PROVE  UNCHANGED desk
BY DEF RunStep, StartSync, ListTasks, ReadMappings, ImportTask, SkipTask, ReadNote, WriteBack,
   SendOut, RecordHashes, ReadMissing, ThrowAway, FinishSync, SyncStops

\* A desk that is about to record has just created the task, or has stayed as it was.
LEMMA ToRecord ==
  ASSUME TodoTypeOK, [TodoNext]_todoVars, NEW d \in Desks, desk'[d].pc = "record"
  PROVE  \/ \E t \in Tasks : CreateTask(d, t)
         \/ /\ desk'[d] = desk[d]
            /\ \/ UNCHANGED todoVars \/ UserStep \/ \E s \in Syncs : RunStep(s)
               \/ \E e \in Desks \ {d} : DeskStep(e)
<1>1. CASE UNCHANGED todoVars \/ UserStep \/ \E s \in Syncs : RunStep(s)
  BY <1>1, UserDisturbs, RunsLeaveDesks DEF todoVars
<1>2. ASSUME NEW e \in Desks \ {d}, DeskStep(e)
      PROVE  desk'[d] = desk[d]
  BY <1>2, DeskDisturbs
<1>3. CASE DeskStep(d)
  BY <1>3, ExportStarted, PurgeStarted, DeskStopped, ExportRecorded, TasksRemoved, MappingEnded,
     NotePurged DEF DeskStep
<1> QED  BY <1>1, <1>2, <1>3, TodoSteps

LEMMA PendingStays ==
  ASSUME TodoTypeOK, RefsInv, Monotone, ListInv, PendingInv, [TodoNext]_todoVars,
         NEW d \in Desks, desk[d].pc = "record", desk'[d] = desk[d],
         \/ UNCHANGED todoVars \/ UserStep \/ \E s \in Syncs : RunStep(s)
         \/ \E e \in Desks \ {d} : DeskStep(e),
         NEW t \in desk[d].task, NEW n \in desk[d].note, NEW v \in desk[d].text
  PROVE  Pending(n, t, v)'
<1>1. n \in Notes /\ t \in Tasks /\ v \in Text
  BY TodoTypes
<1>2. task[t].state # "none" /\ note[n].state # "none"
  BY DEF RefsInv, DeskRefs
<1>3. Pending(n, t, v) /\ \A e \in Desks : desk[e].pc = "record" /\ t \in desk[e].task => e = d
  BY DEF PendingInv
<1>4. CASE UNCHANGED todoVars
  <2>1. UNCHANGED <<note, task, maps>> /\ \A r \in Syncs : Fewer(r)
    BY <1>4, TodoStutters, UndisturbedFewer DEF todoVars
  <2>2. SameText(task'[t].text, n, v)
    BY <1>3, <2>1 DEF Pending
  <2>3. \A k \in maps' : k.task = t =>
          /\ \E m \in maps : m.note = k.note /\ m.task = t
          /\ SameText(note'[k.note].text, n, v)
    BY <1>3, <2>1 DEF Pending
  <2> QED  BY <1>1, <1>2, <1>3, <2>1, <2>2, <2>3, PendingKept
<1>5. CASE UserStep
  BY <1>1, <1>2, <1>3, <1>5, PendingUser
<1>6. ASSUME NEW s \in Syncs, RunStep(s)
      PROVE  Pending(n, t, v)'
  BY <1>1, <1>2, <1>3, <1>6, PendingRun
<1>7. ASSUME NEW e \in Desks \ {d}, DeskStep(e)
      PROVE  Pending(n, t, v)'
  BY <1>1, <1>2, <1>3, <1>7, PendingDesk
<1> QED  BY <1>4, <1>5, <1>6, <1>7

LEMMA PendingBegins ==
  ASSUME TodoTypeOK, RefsInv, NEW d \in Desks, NEW t \in Tasks, CreateTask(d, t)
  PROVE  /\ \A n \in desk'[d].note, v \in desk'[d].text : Pending(n, t, v)'
         /\ desk'[d].task = {t}
         /\ \A e \in Desks \ {d} : desk'[e] = desk[e] /\ t \notin desk[e].task
<1>1. /\ AllDisturbed /\ UNCHANGED <<note, maps>>
      /\ desk[d].pc = "create" /\ task[t].state = "none"
      /\ \E v \in desk[d].text : task'[t].text = Outward(v)
      /\ desk'[d].note = desk[d].note /\ desk'[d].task = {t} /\ desk'[d].text = desk[d].text
      /\ \A e \in Desks \ {d} : desk'[e] = desk[e]
  BY TaskCreated
<1>2. \A e \in Desks : t \notin desk[e].task
  BY <1>1 DEF RefsInv, DeskRefs
<1>3. ASSUME NEW n \in desk[d].note, NEW v \in desk[d].text
      PROVE  Pending(n, t, v)'
  <2>1. task'[t].text = Outward(v)
    BY <1>1 DEF RefsInv, DeskRefs
  <2>2. \A m \in maps : m.task # t
    BY <1>1 DEF RefsInv, Used
  <2>3. ASSUME NEW r \in Syncs
        PROVE  RunPending(r, n, t, v)'
    <3>1. /\ \A m \in Known(r) : m.task # t
          /\ \A x \in Open(r) : x.task # t
      BY <1>1 DEF RefsInv, RunRefs, Used
    <3>2. sync[r].pc = "write" => \A c \in sync[r].at : c.map \in Known(r)
      BY DEF Known, InHand
    <3>3. /\ Known(r)' = Known(r) /\ Open(r)' = Open(r) /\ sync'[r].pc = sync[r].pc
          /\ sync'[r].at = sync[r].at
      BY <1>1 DEF AllDisturbed, Undisturbed
    <3> QED  BY <1>1, <2>2, <3>1, <3>2, <3>3 DEF RunPending
  <2>4. SameText(task'[t].text, n, v)
    BY <2>1 DEF SameText
  <2> QED  BY <1>1, <2>2, <2>3, <2>4 DEF Pending
<1> QED  BY <1>1, <1>2, <1>3

LEMMA PendingStep ==
  ASSUME TodoTypeOK, RefsInv, Monotone, ListInv, PendingInv, [TodoNext]_todoVars
  PROVE  PendingInv'
<1>1. ASSUME NEW d \in Desks, desk'[d].pc = "record", NEW t \in desk'[d].task,
             NEW n \in desk'[d].note, NEW v \in desk'[d].text
      PROVE  Pending(n, t, v)'
  <2>1. ASSUME NEW u \in Tasks, CreateTask(d, u)
        PROVE  Pending(n, t, v)'
    BY <1>1, <2>1, PendingBegins
  <2>2. CASE /\ desk'[d] = desk[d]
             /\ \/ UNCHANGED todoVars \/ UserStep \/ \E s \in Syncs : RunStep(s)
                \/ \E e \in Desks \ {d} : DeskStep(e)
    BY <1>1, <2>2, PendingStays
  <2> QED  BY <1>1, <2>1, <2>2, ToRecord
<1>2. ASSUME NEW d \in Desks, NEW e \in Desks, desk'[d].pc = "record", desk'[e].pc = "record",
             NEW t \in desk'[d].task, t \in desk'[e].task
      PROVE  e = d
  <2>1. ASSUME NEW i \in Desks, NEW u \in Tasks, CreateTask(i, u)
        PROVE  e = d
    <3>1. /\ desk'[i].task = {u}
          /\ \A j \in Desks \ {i} : desk'[j] = desk[j] /\ u \notin desk[j].task
      BY <2>1, PendingBegins
    <3> QED  BY <1>2, <3>1 DEF PendingInv
  <2>2. CASE \A i \in Desks, u \in Tasks : ~CreateTask(i, u)
    <3>1. desk'[d] = desk[d] /\ desk'[e] = desk[e]
      BY <1>2, <2>2, ToRecord
    <3> QED  BY <1>2, <3>1 DEF PendingInv
  <2> QED  BY <2>1, <2>2
<1> QED  BY <1>1, <1>2 DEF PendingInv

-----------------------------------------------------------------------------
(* TodoSync: no note gets its own text back *)

LEMMA InterruptedStays ==
  ASSUME TodoTypeOK, [TodoNext]_todoVars, ~interrupted'
  PROVE  ~interrupted
<1>1. CASE UNCHANGED todoVars
  BY <1>1 DEF todoVars
<1>2. CASE UserStep
  BY <1>2, UserDisturbs
<1>3. ASSUME NEW d \in Desks, DeskStep(d)
      PROVE  ~interrupted
  BY <1>3, DeskDisturbs
<1>4. ASSUME NEW s \in Syncs, RunStep(s)
      PROVE  ~interrupted
  BY <1>4 DEF RunStep, StartSync, ListTasks, ReadMappings, ImportTask, SkipTask, ReadNote, WriteBack,
     SendOut, RecordHashes, ReadMissing, ThrowAway, FinishSync, SyncStops
<1> QED  BY <1>1, <1>2, <1>3, <1>4, TodoSteps

\* A step of the user or of a desk: texts of tasks stay or come from Microsoft, and a
\* mapping that appears knows what its task and the runs hold.
LEMMA EchoOfOthers ==
  ASSUME TodoTypeOK, RefsInv, EchoInv, ~interrupted, \A r \in Syncs : Undisturbed(r),
         \A n \in Notes : note'[n].text.cut => note'[n].text.from # n,
         \A t \in Tasks : task[t].state # "none" =>
           task'[t].text = task[t].text \/ task'[t].text.from = Microsoft,
         \A k \in maps' :
           \/ \E m \in maps : m.note = k.note /\ m.task = k.task /\ m.external = k.external
           \/ /\ Recorded(task'[k.task].text, k)
              /\ \A r \in Syncs : sync[r].pc = "maps" =>
                   \A x \in sync[r].tasks : x.task = k.task => Recorded(x.text, k)
  PROVE  EchoInv'
<1>1. \A m \in maps : Recorded(task[m.task].text, m) \/ Recording(m)
  BY DEF EchoInv
<1>2. ASSUME NEW k \in maps', NEW m \in maps,
             m.note = k.note, m.task = k.task, m.external = k.external
      PROVE  Recorded(task'[k.task].text, k) \/ Recording(k)'
  <2>1. CASE Recording(m)
    <3>1. PICK r \in Syncs : sync[r].pc = "record" /\ \E c \in sync[r].at : c.note = m.note /\ c.task = m.task
      BY <2>1 DEF Recording
    <3>2. sync'[r].pc = "record" /\ sync'[r].at = sync[r].at
      BY <3>1 DEF Undisturbed
    <3> QED  BY <1>2, <3>1, <3>2 DEF Recording
  <2>2. CASE Recorded(task[m.task].text, m)
    <3>1. task'[m.task].text = task[m.task].text \/ task'[m.task].text.from = Microsoft
      BY MapsTyped DEF Used
    <3>2. k.note # Microsoft
      BY <1>2, MapsTyped, SyncAssumption
    <3> QED  BY <1>2, <2>2, <3>1, <3>2 DEF Recorded
  <2> QED  BY <1>1, <2>1, <2>2
<1>3. \A k \in maps' : Recorded(task'[k.task].text, k) \/ Recording(k)'
  BY <1>2
<1>4. \A r, s \in Syncs : sync'[r].pc # "idle" /\ sync'[s].pc # "idle" => r = s
  BY DEF EchoInv, Undisturbed
<1>5. ASSUME NEW r \in Syncs
      PROVE  RunEchoes(r)'
  <2>0. RunEchoes(r)
    BY DEF EchoInv
  <2>1. \A x \in Open(r) : task'[x.task].text = x.text \/ task'[x.task].text.from = Microsoft
    <3>1. ASSUME NEW x \in Open(r)
          PROVE  task'[x.task].text = x.text \/ task'[x.task].text.from = Microsoft
      <4>1. x.task \in Tasks /\ task[x.task].state # "none"
        BY KnownTypes DEF RefsInv, RunRefs
      <4>2. task[x.task].text = x.text \/ task[x.task].text.from = Microsoft
        BY <2>0 DEF RunEchoes
      <4> QED  BY <4>1, <4>2
    <3> QED  BY <3>1
  <2>2. sync[r].pc = "maps" => \A k \in maps', x \in sync[r].tasks : x.task = k.task => Recorded(x.text, k)
    <3>1. ASSUME sync[r].pc = "maps", NEW k \in maps', NEW x \in sync[r].tasks, x.task = k.task
          PROVE  Recorded(x.text, k)
      <4>1. ASSUME NEW m \in maps, m.note = k.note, m.task = k.task, m.external = k.external
            PROVE  Recorded(x.text, k)
        BY <2>0, <3>1, <4>1 DEF RunEchoes, Recorded
      <4> QED  BY <3>1, <4>1
    <3> QED  BY <3>1
  <2>3. \A m \in sync[r].maps, x \in sync[r].tasks : x.task = m.task => Recorded(x.text, m)
    BY <2>0 DEF RunEchoes
  <2>4. sync[r].pc = "write" => \A c \in sync[r].at : Recorded(c.task.text, c.map)
    BY <2>0 DEF RunEchoes
  <2>5. ASSUME sync[r].pc = "record", NEW c \in sync[r].at
        PROVE  Recorded(task'[c.task].text, c)
    <3>1. c \in Known(r)
      BY <2>5 DEF Known, InHand
    <3>2. c.note # Microsoft /\ c.task \in Tasks /\ task[c.task].state # "none"
      BY <3>1, KnownTypes, SyncAssumption DEF RefsInv, RunRefs, Used
    <3>3. Recorded(task[c.task].text, c)
      BY <2>0, <2>5 DEF RunEchoes
    <3> QED  BY <3>2, <3>3 DEF Recorded
  <2> QED  BY <2>1, <2>2, <2>3, <2>4, <2>5 DEF RunEchoes, Undisturbed
<1> QED  BY <1>3, <1>4, <1>5 DEF EchoInv

LEMMA EchoUser ==
  ASSUME TodoTypeOK, RefsInv, EchoInv, ~interrupted, UserStep
  PROVE  EchoInv'
<1>1. UNCHANGED maps /\ \A r \in Syncs : Undisturbed(r)
  BY UserDisturbs DEF AllDisturbed
<1>2. \A n \in Notes : note[n].text.cut => note[n].text.from # n
  BY DEF EchoInv
<1>3. \A n \in Notes : note'[n].text.cut => note'[n].text.from # n
  <2>1. ASSUME NEW j \in Notes, WriteNote(j), NEW n \in Notes, note'[n].text.cut
        PROVE  note'[n].text.from # n
    <3>1. CASE n = j
      BY <2>1, <3>1, NoteWritten
    <3>2. CASE n # j
      BY <1>2, <2>1, <3>2, NoteWritten
    <3> QED  BY <3>1, <3>2
  <2>2. ASSUME NEW j \in Notes, MoveNote(j, "live", "trash") \/ MoveNote(j, "trash", "live")
        PROVE  \A n \in Notes : note'[n].text = note[n].text
    BY <2>2, NoteMoved
  <2>3. ASSUME NEW u \in Tasks, WriteTask(u) \/ DeleteTask(u)
        PROVE  note' = note
    BY <2>3, TaskWritten, TaskDeleted
  <2> QED  BY <1>2, <2>1, <2>2, <2>3 DEF UserStep
<1>4. \A t \in Tasks : task'[t].text = task[t].text \/ task'[t].text.from = Microsoft
  <2>1. ASSUME NEW u \in Tasks, WriteTask(u) \/ DeleteTask(u)
        PROVE  \A t \in Tasks : task'[t].text = task[t].text \/ task'[t].text.from = Microsoft
    BY <2>1, TaskWritten, TaskDeleted
  <2>2. ASSUME NEW j \in Notes,
               WriteNote(j) \/ MoveNote(j, "live", "trash") \/ MoveNote(j, "trash", "live")
        PROVE  task' = task
    BY <2>2, NoteWritten, NoteMoved
  <2> QED  BY <2>1, <2>2 DEF UserStep
<1> QED  BY <1>1, <1>3, <1>4, EchoOfOthers

LEMMA EchoDesk ==
  ASSUME TodoTypeOK, RefsInv, PendingInv, EchoInv, ~interrupted, NEW d \in Desks, DeskStep(d)
  PROVE  EchoInv'
<1>1. \A r \in Syncs : Undisturbed(r)
  BY DeskDisturbs
<1>2. \A n \in Notes : note[n].text.cut => note[n].text.from # n
  BY DEF EchoInv
<1>3. /\ \A n \in Notes : note'[n].text = note[n].text
      /\ \A t \in Tasks : task[t].state # "none" => task'[t].text = task[t].text
  <2>1. ASSUME NEW u \in Tasks, CreateTask(d, u)
        PROVE  /\ note' = note
               /\ \A t \in Tasks : task[t].state # "none" => task'[t].text = task[t].text
    BY <2>1, TaskCreated
  <2>2. CASE \/ RecordExport(d) \/ UndoExport(d) \/ Unlink(d) \/ EndMapping(d) \/ Purge(d)
             \/ DeskStops(d)
             \/ \E j \in Notes : \E external \in BOOLEAN : StartPurge(d, j, external)
             \/ \E j \in Notes : StartExport(d, j)
    BY <2>2, ExportRecorded, TasksRemoved, MappingEnded, NotePurged, DeskStopped, PurgeStarted,
       ExportStarted DEF DeskOnly
  <2> QED  BY <2>1, <2>2 DEF DeskStep
<1>4. \A k \in maps' :
        \/ \E m \in maps : m.note = k.note /\ m.task = k.task /\ m.external = k.external
        \/ /\ Recorded(task'[k.task].text, k)
           /\ \A r \in Syncs : sync[r].pc = "maps" =>
                \A x \in sync[r].tasks : x.task = k.task => Recorded(x.text, k)
  <2>1. CASE UNCHANGED maps
    BY <2>1
  <2>2. CASE RecordExport(d) /\ ~UNCHANGED maps
    <3>1. PICK n \in desk[d].note, t \in desk[d].task, v \in desk[d].text :
            maps' = maps \union {Map(n, t, v, Outward(v))}
      BY <2>2, ExportRecorded DEF DeskOnly
    <3>2. PICK u, k : u = Outward(v) /\ k = Map(n, t, v, u)
      OBVIOUS
    <3>3. k.note = n /\ k.task = t /\ k.external = u /\ maps' = maps \union {k}
      BY <3>1, <3>2 DEF Map
    <3>4. desk[d].pc = "record" /\ task' = task
      BY <2>2, ExportRecorded
    <3>5. Pending(n, t, v)
      BY <3>4 DEF PendingInv
    <3>6. Recorded(task'[k.task].text, k)
      BY <3>2, <3>3, <3>4, <3>5 DEF Pending, SameText, Recorded
    <3>7. ASSUME NEW r \in Syncs, NEW x \in sync[r].tasks, x.task = k.task
          PROVE  Recorded(x.text, k)
      <4>1. x \in Open(r)
        BY <3>7 DEF Open
      <4>2. SameText(x.text, n, v)
        BY <3>3, <3>5, <3>7, <4>1 DEF Pending, RunPending
      <4> QED  BY <3>2, <3>3, <4>2 DEF SameText, Recorded
    <3> QED  BY <3>3, <3>6, <3>7
  <2>3. CASE EndMapping(d)
    BY <2>3, MappingEnded
  <2>4. RecordExport(d) \/ EndMapping(d) \/ UNCHANGED maps
    BY DEF DeskStep, StartExport, StartPurge, CreateTask, UndoExport, Unlink, Purge, DeskStops
  <2> QED  BY <2>1, <2>2, <2>3, <2>4
<1> QED  BY <1>1, <1>2, <1>3, <1>4, EchoOfOthers

LEMMA EchoBegins ==
  ASSUME TodoTypeOK, ListInv, EchoInv, ~interrupted', NEW s \in Syncs, StartSync(s)
  PROVE  EchoInv'
<1>1. /\ Others(s) /\ UNCHANGED <<note, task, maps>> /\ RunFields(s, "list", {}, {}, {}, {})
      /\ ~interrupted /\ \A r \in Syncs : sync[r].pc = "idle"
  BY RunStarted
<1>2. /\ sync'[s].pc = "list" /\ sync'[s].tasks = {} /\ sync'[s].maps = {} /\ Open(s)' = {}
      /\ \A r \in Syncs \ {s} : sync'[r].pc = "idle" /\ Undisturbed(r)
  BY <1>1, HandIs DEF RunFields, Others, Undisturbed
<1>3. \A m \in maps : Recorded(task[m.task].text, m)
  BY <1>1 DEF EchoInv, Recording
<1>4. ASSUME NEW r \in Syncs
      PROVE  RunEchoes(r)'
  <2>1. sync'[r].tasks = {} /\ Open(r)' = {} /\ sync'[r].pc \in {"idle", "list"}
    BY <1>1, <1>2 DEF ListInv, RunLists, Undisturbed, Open, AtHand
  <2> QED  BY <2>1 DEF RunEchoes
<1> QED  BY <1>1, <1>2, <1>3, <1>4 DEF EchoInv

\* The only run under way.
LEMMA EchoOfRun ==
  ASSUME TodoTypeOK, ListInv, EchoInv, ~interrupted, NEW s \in Syncs, Others(s), sync[s].pc # "idle",
         \A n \in Notes : note'[n].text.cut => note'[n].text.from # n,
         \A m \in maps' : Recorded(task'[m.task].text, m) \/ Recording(m)',
         RunEchoes(s)'
  PROVE  EchoInv'
<1>1. \A r \in Syncs \ {s} : sync[r].pc = "idle"
  BY DEF EchoInv
<1>2. ASSUME NEW r \in Syncs \ {s}
      PROVE  sync'[r].pc = "idle" /\ RunEchoes(r)'
  <2>1. sync'[r].tasks = {} /\ Open(r)' = {} /\ sync'[r].pc = "idle"
    BY <1>1, <1>2 DEF ListInv, RunLists, Others, Undisturbed, Open, AtHand
  <2> QED  BY <2>1 DEF RunEchoes
<1>3. \A q, r \in Syncs : sync'[q].pc # "idle" /\ sync'[r].pc # "idle" => q = r
  BY <1>2
<1>4. \A r \in Syncs : RunEchoes(r)'
  BY <1>2
<1> QED  BY <1>3, <1>4 DEF EchoInv

LEMMA NothingRecording ==
  ASSUME EchoInv, ~interrupted, NEW s \in Syncs, sync[s].pc \notin {"idle", "record"}
  PROVE  \A m \in maps : Recorded(task[m.task].text, m)
BY DEF EchoInv, Recording

LEMMA EchoRunReads ==
  ASSUME TodoTypeOK, RefsInv, ListInv, EchoInv, ~interrupted, NEW s \in Syncs,
         \/ ListTasks(s) \/ ReadMappings(s)
         \/ \E x \in sync[s].tasks : SkipTask(s, x) \/ ReadNote(s, x)
         \/ \E m \in sync[s].missing : ReadMissing(s, m)
  PROVE  EchoInv'
<1>1. /\ RunEchoes(s) /\ RunLists(s)
      /\ \A n \in Notes : note[n].text.cut => note[n].text.from # n
  BY DEF EchoInv, ListInv
<1>2. SUFFICES /\ Others(s) /\ UNCHANGED <<note, task, maps>>
               /\ sync[s].pc \notin {"idle", "record"} /\ RunEchoes(s)'
  <2>1. \A m \in maps' : Recorded(task'[m.task].text, m)
    BY <1>2, NothingRecording
  <2> QED  BY <1>1, <1>2, <2>1, EchoOfRun
<1>3. CASE ListTasks(s)
  <2>1. PICK listed :
          /\ Others(s) /\ UNCHANGED <<note, task, maps>> /\ sync[s].pc = "list"
          /\ RunFields(s, "maps", listed, sync[s].maps, sync[s].missing, sync[s].at)
          /\ \A x \in sync'[s].tasks : x.task \in Tasks /\ x.text = task[x.task].text
    BY <1>3, TasksListed
  <2>2. Open(s)' = sync'[s].tasks /\ sync'[s].pc = "maps" /\ sync'[s].maps = {}
    BY <1>1, <2>1, HandIs DEF RunFields, RunLists
  <2>3. \A m \in maps : Recorded(task[m.task].text, m)
    BY <2>1, NothingRecording
  <2>4. \A m \in maps, x \in sync'[s].tasks : x.task = m.task => Recorded(x.text, m)
    BY <2>1, <2>3
  <2>5. RunEchoes(s)'
    BY <2>1, <2>2, <2>4 DEF RunEchoes
  <2> QED  BY <2>1, <2>5
<1>4. CASE ReadMappings(s)
  <2>1. /\ Others(s) /\ UNCHANGED <<note, task, maps>> /\ sync[s].pc = "maps"
        /\ RunFields(s, "next", sync[s].tasks, {m \in maps : \E x \in sync[s].tasks : x.task = m.task},
                     Missing(sync[s].tasks), sync[s].at)
    BY <1>4, MappingsRead
  <2>2. /\ sync'[s].maps \subseteq maps /\ sync'[s].tasks = sync[s].tasks /\ Open(s)' = sync[s].tasks
        /\ sync'[s].pc = "next" /\ Open(s) = sync[s].tasks
    BY <2>1, HandIs DEF RunFields, Open, AtHand
  <2>3. /\ \A m \in maps, x \in sync[s].tasks : x.task = m.task => Recorded(x.text, m)
        /\ \A x \in sync[s].tasks : task[x.task].text = x.text \/ task[x.task].text.from = Microsoft
    BY <1>1, <2>1, <2>2 DEF RunEchoes
  <2>4. RunEchoes(s)'
    BY <2>1, <2>2, <2>3 DEF RunEchoes
  <2> QED  BY <2>1, <2>4
<1>5. ASSUME NEW x \in sync[s].tasks, SkipTask(s, x)
      PROVE  /\ Others(s) /\ UNCHANGED <<note, task, maps>>
             /\ sync[s].pc \notin {"idle", "record"} /\ RunEchoes(s)'
  <2>1. /\ Others(s) /\ UNCHANGED <<note, task, maps>> /\ sync[s].pc = "next"
        /\ RunFields(s, "next", sync[s].tasks \ {x}, sync[s].maps \ MappingFor(s, x),
                     sync[s].missing, sync[s].at)
    BY <1>5, TaskSkipped
  <2>2. /\ sync'[s].maps \subseteq sync[s].maps /\ sync'[s].tasks = sync[s].tasks \ {x}
        /\ Open(s)' = sync[s].tasks \ {x} /\ sync'[s].pc = "next"
    BY <2>1, HandIs DEF RunFields
  <2>3. /\ \A m \in sync[s].maps, y \in sync[s].tasks : y.task = m.task => Recorded(y.text, m)
        /\ \A y \in sync[s].tasks : task[y.task].text = y.text \/ task[y.task].text.from = Microsoft
    BY <1>1 DEF RunEchoes, Open
  <2>4. RunEchoes(s)'
    BY <2>1, <2>2, <2>3 DEF RunEchoes
  <2> QED  BY <2>1, <2>4
<1>6. ASSUME NEW x \in sync[s].tasks, ReadNote(s, x)
      PROVE  /\ Others(s) /\ UNCHANGED <<note, task, maps>>
             /\ sync[s].pc \notin {"idle", "record"} /\ RunEchoes(s)'
  <2>1. PICK m \in sync[s].maps, c \in Decision : Decided(s, x, m, c)
    BY <1>6, NoteRead
  <2>2. Others(s) /\ UNCHANGED <<note, task, maps>> /\ sync[s].pc = "next"
    BY <1>6, NoteRead
  <2>3. /\ m.task = x.task /\ c.map = m /\ c.task = x
        /\ RunFields(s, "write", sync[s].tasks \ {x}, sync[s].maps \ MappingFor(s, x),
                     sync[s].missing, {c})
    BY <2>1 DEF Decided
  <2>4. /\ sync'[s].maps \subseteq sync[s].maps /\ sync'[s].tasks \subseteq sync[s].tasks
        /\ Open(s)' = (sync[s].tasks \ {x}) \union {x} /\ sync'[s].pc = "write" /\ sync'[s].at = {c}
    BY <2>3, HandIs DEF RunFields
  <2>5. /\ \A k \in sync[s].maps, y \in sync[s].tasks : y.task = k.task => Recorded(y.text, k)
        /\ \A y \in sync[s].tasks : task[y.task].text = y.text \/ task[y.task].text.from = Microsoft
    BY <1>1 DEF RunEchoes, Open
  <2>6. Recorded(c.task.text, c.map)
    BY <2>3, <2>5
  <2>7. RunEchoes(s)'
    BY <2>2, <2>4, <2>5, <2>6 DEF RunEchoes
  <2> QED  BY <2>2, <2>7
<1>7. ASSUME NEW m \in sync[s].missing, ReadMissing(s, m)
      PROVE  /\ Others(s) /\ UNCHANGED <<note, task, maps>>
             /\ sync[s].pc \notin {"idle", "record"} /\ RunEchoes(s)'
  <2>1. /\ Others(s) /\ UNCHANGED <<note, task, maps>> /\ sync[s].pc = "next"
        /\ sync'[s].tasks = {} /\ sync'[s].pc \in {"next", "trash"}
    BY <1>7, MissingRead DEF RunFields
  <2>2. RunEchoes(s)'
    BY <2>1 DEF RunEchoes, Open, AtHand
  <2> QED  BY <2>1, <2>2
<1> QED  BY <1>3, <1>4, <1>5, <1>6, <1>7

LEMMA EchoImports ==
  ASSUME TodoTypeOK, RefsInv, ListInv, OriginInv, EchoInv, ~interrupted, NEW s \in Syncs,
         NEW x \in sync[s].tasks, ImportTask(s, x)
  PROVE  EchoInv'
<1>1. /\ Others(s) /\ UNCHANGED task /\ sync[s].pc = "next"
      /\ RunFields(s, "next", sync[s].tasks \ {x}, sync[s].maps, sync[s].missing, sync[s].at)
      /\ UNCHANGED <<note, maps>> \/ \E n \in Notes, k \in Mapping : Imported(x, n, k)
  BY TaskImported
<1>2. /\ sync'[s].maps = sync[s].maps /\ sync'[s].tasks = sync[s].tasks \ {x}
      /\ Open(s)' = sync[s].tasks \ {x} /\ sync'[s].pc = "next" /\ x \in Open(s)
  BY <1>1, HandIs DEF RunFields, Open
<1>3. /\ \A m \in sync[s].maps, y \in sync[s].tasks : y.task = m.task => Recorded(y.text, m)
      /\ \A y \in sync[s].tasks : task[y.task].text = y.text \/ task[y.task].text.from = Microsoft
  BY DEF EchoInv, RunEchoes, Open
<1>4. RunEchoes(s)'
  BY <1>1, <1>2, <1>3 DEF RunEchoes
<1>5. /\ \A n \in Notes : note[n].text.cut => note[n].text.from # n
      /\ \A m \in maps : Recorded(task[m.task].text, m)
  BY <1>1, NothingRecording DEF EchoInv
<1>6. ASSUME NEW n \in Notes, NEW k \in Mapping, Imported(x, n, k)
      PROVE  /\ \A j \in Notes : note'[j].text.cut => note'[j].text.from # j
             /\ \A m \in maps' : Recorded(task'[m.task].text, m)
  <2>1. /\ note[n].state = "none" /\ note'[n].text = x.text
        /\ \A j \in Notes \ {n} : note'[j] = note[j]
        /\ k.note = n /\ k.task = x.task /\ maps' = maps \union {k}
    BY <1>6 DEF Imported
  <2>2. x.text.from # n
    <3>1. Origin(x.text)
      BY <1>2 DEF OriginInv, RunOrigins
    <3> QED  BY <2>1, <3>1, SyncAssumption DEF Origin
  <2>3. \A j \in Notes : note'[j].text.cut => note'[j].text.from # j
    BY <1>5, <2>1, <2>2
  <2>4. Recorded(task'[k.task].text, k)
    BY <1>1, <1>3, <2>1, <2>2, SyncAssumption DEF Recorded
  <2> QED  BY <1>1, <1>5, <2>1, <2>3, <2>4
<1>7. CASE UNCHANGED <<note, maps>>
  BY <1>1, <1>4, <1>5, <1>7, EchoOfRun
<1>8. ASSUME NEW n \in Notes, NEW k \in Mapping, Imported(x, n, k)
      PROVE  EchoInv'
  BY <1>1, <1>4, <1>6, <1>8, EchoOfRun
<1> QED  BY <1>1, <1>7, <1>8

LEMMA EchoWrites ==
  ASSUME TodoTypeOK, ListInv, EchoInv, ~interrupted, NEW s \in Syncs, WriteBack(s)
  PROVE  EchoInv'
<1>1. Others(s) /\ UNCHANGED <<task, maps>> /\ sync[s].pc = "write"
  BY TextWrittenBack
<1>2. PICK c \in Decision, h \in Mapping : WrittenBack(s, c, h)
  BY TextWrittenBack
<1>3. /\ sync[s].at = {c} /\ c.task.text # c.map.external
      /\ note'[c.map.note].text = c.task.text
      /\ \A n \in Notes : n # c.map.note => note'[n] = note[n]
      /\ h.note = c.map.note /\ h.task = c.map.task /\ h.external = c.task.text
      /\ RunFields(s, "record", sync[s].tasks, sync[s].maps, sync[s].missing, {h})
  BY <1>2 DEF WrittenBack, ExternalWins
<1>4. /\ sync'[s].maps = sync[s].maps /\ sync'[s].tasks = sync[s].tasks /\ sync'[s].at = {h}
      /\ Open(s)' = sync[s].tasks /\ sync'[s].pc = "record"
      /\ Open(s) = sync[s].tasks \union {c.task}
  BY <1>1, <1>3, HandIs DEF RunFields, Open, AtHand
<1>5. RunEchoes(s) /\ \A n \in Notes : note[n].text.cut => note[n].text.from # n
  BY DEF EchoInv
<1>6. c.task.text.from # c.map.note
  BY <1>1, <1>3, <1>5 DEF RunEchoes, Recorded
<1>7. \A n \in Notes : note'[n].text.cut => note'[n].text.from # n
  BY <1>3, <1>5, <1>6
<1>8. \A m \in maps' : Recorded(task'[m.task].text, m)
  BY <1>1, NothingRecording
<1>9. Recorded(task'[h.task].text, h)
  <2>1. c.task.task = c.map.task
    BY <1>1, <1>3 DEF ListInv, RunLists
  <2>2. task[h.task].text = c.task.text \/ task[h.task].text.from = Microsoft
    BY <1>3, <1>4, <1>5, <2>1 DEF RunEchoes
  <2>3. h.note # Microsoft
    BY <1>1, <1>3, HandTypes, SyncAssumption
  <2> QED  BY <1>1, <1>3, <2>2, <2>3 DEF Recorded
<1>10. RunEchoes(s)'
  BY <1>1, <1>4, <1>5, <1>9 DEF RunEchoes
<1> QED  BY <1>1, <1>7, <1>8, <1>10, EchoOfRun

LEMMA EchoSends ==
  ASSUME TodoTypeOK, RefsInv, ListInv, EchoInv, ~interrupted, NEW s \in Syncs, SendOut(s)
  PROVE  EchoInv'
<1>1. Others(s) /\ UNCHANGED <<note, maps>> /\ sync[s].pc = "write"
  BY TextSent
<1>2. PICK c \in Decision, h \in Mapping : SentOut(s, c, h)
  BY TextSent
<1>3. PICK u : u = Outward(c.text)
  OBVIOUS
<1>4. /\ sync[s].at = {c} /\ task[c.map.task].state = "live"
      /\ task'[c.map.task].text = u
      /\ \A t \in Tasks : t # c.map.task => task'[t] = task[t]
      /\ h.note = c.map.note /\ h.task = c.map.task /\ h.external = u
      /\ RunFields(s, "record", sync[s].tasks, sync[s].maps, sync[s].missing, {h})
  BY <1>2, <1>3 DEF SentOut
<1>5. /\ sync'[s].maps = sync[s].maps /\ sync'[s].tasks = sync[s].tasks /\ sync'[s].at = {h}
      /\ Open(s)' = sync[s].tasks /\ sync'[s].pc = "record" /\ InHand(s) = {c.map}
      /\ \A x \in sync[s].tasks : x \in Open(s) /\ x.task \in Tasks
  BY <1>1, <1>4, HandIs, KnownTypes DEF RunFields, Open, InHand
<1>6. /\ RunEchoes(s) /\ \A n \in Notes : note[n].text.cut => note[n].text.from # n
  BY DEF EchoInv
<1>7. PICK k \in maps : k.task = c.map.task /\ k.note = c.map.note
  BY <1>4, <1>5 DEF RefsInv, RunRefs, Known, StillThere
<1>8. ASSUME NEW m \in maps
      PROVE  Recorded(task'[m.task].text, m) \/ Recording(m)'
  <2>1. CASE m = k
    BY <1>4, <1>5, <1>7, <2>1 DEF Recording
  <2>2. CASE m # k
    <3>1. m.task \in Tasks /\ m.task # c.map.task
      BY <1>7, <2>2, MapsTyped
    <3>2. Recorded(task[m.task].text, m)
      BY <1>1, NothingRecording
    <3> QED  BY <1>4, <3>1, <3>2
  <2> QED  BY <2>1, <2>2
<1>9. \A x \in sync[s].tasks : task'[x.task].text = x.text \/ task'[x.task].text.from = Microsoft
  <2>1. \A x \in sync[s].tasks : x.task # c.map.task
    BY <1>5 DEF ListInv, RunLists
  <2> QED  BY <1>4, <1>5, <1>6, <2>1 DEF RunEchoes
<1>10. Recorded(task'[h.task].text, h)
  BY <1>4 DEF Recorded
<1>11. RunEchoes(s)'
  BY <1>5, <1>6, <1>9, <1>10 DEF RunEchoes
<1> QED  BY <1>1, <1>6, <1>8, <1>11, EchoOfRun

LEMMA EchoRecords ==
  ASSUME TodoTypeOK, RefsInv, ListInv, EchoInv, ~interrupted, NEW s \in Syncs, RecordHashes(s)
  PROVE  EchoInv'
<1>1. /\ Others(s) /\ UNCHANGED <<note, task>> /\ sync[s].pc = "record"
      /\ RunFields(s, "next", sync[s].tasks, sync[s].maps, sync[s].missing, {})
  BY HashesRecorded
<1>2. PICK c \in Mapping, m \in maps, k \in Mapping : PutBack(s, c, m, k)
  BY HashesRecorded
<1>3. /\ sync[s].at = {c} /\ m.note = c.note /\ m.task = c.task
      /\ k.note = c.note /\ k.task = c.task /\ k.external = c.external
      /\ maps' = (maps \ {m}) \union {k}
  BY <1>2 DEF PutBack
<1>4. /\ sync'[s].maps = sync[s].maps /\ sync'[s].tasks = sync[s].tasks
      /\ Open(s)' = sync[s].tasks /\ sync'[s].pc = "next" /\ Open(s) = sync[s].tasks
  BY <1>1, HandIs DEF RunFields, Open, AtHand
<1>5. RunEchoes(s) /\ \A n \in Notes : note[n].text.cut => note[n].text.from # n
  BY DEF EchoInv
<1>6. Recorded(task'[k.task].text, k)
  BY <1>1, <1>3, <1>5 DEF RunEchoes, Recorded
<1>7. ASSUME NEW j \in maps, j # m
      PROVE  Recorded(task'[j.task].text, j)
  <2>1. j.task # c.task
    BY <1>3, <1>7, MapsTyped
  <2>2. ~Recording(j)
    BY <1>1, <1>3, <2>1 DEF EchoInv, Recording
  <2> QED  BY <1>1, <2>2 DEF EchoInv
<1>8. RunEchoes(s)'
  BY <1>1, <1>4, <1>5 DEF RunEchoes
<1>9. \A j \in maps' : Recorded(task'[j.task].text, j)
  BY <1>3, <1>6, <1>7
<1> QED  BY <1>1, <1>5, <1>8, <1>9, EchoOfRun

LEMMA EchoThrows ==
  ASSUME TodoTypeOK, ListInv, EchoInv, ~interrupted, NEW s \in Syncs, ThrowAway(s)
  PROVE  EchoInv'
<1>1. /\ Others(s) /\ UNCHANGED task /\ sync[s].pc = "trash"
      /\ RunFields(s, "next", sync[s].tasks, sync[s].maps, sync[s].missing, {})
  BY NoteThrownAway
<1>2. PICK c \in Mapping, m \in maps, k \in Mapping : Throwing(s, c, m, k)
  BY NoteThrownAway
<1>3. /\ m.note = c.note /\ m.task = c.task /\ k.note = c.note /\ k.task = c.task
      /\ k.external = m.external /\ maps' = (maps \ {m}) \union {k}
      /\ \A n \in Notes : note'[n].text = note[n].text
  BY <1>2 DEF Throwing
<1>4. /\ sync'[s].maps = sync[s].maps /\ sync'[s].tasks = sync[s].tasks
      /\ Open(s)' = sync[s].tasks /\ sync'[s].pc = "next" /\ Open(s) = sync[s].tasks
  BY <1>1, HandIs DEF RunFields, Open, AtHand
<1>5. /\ RunEchoes(s) /\ \A n \in Notes : note[n].text.cut => note[n].text.from # n
      /\ \A j \in maps : Recorded(task[j.task].text, j)
  BY <1>1, NothingRecording DEF EchoInv
<1>6. Recorded(task'[k.task].text, k)
  BY <1>1, <1>3, <1>5 DEF Recorded
<1>7. \A j \in maps' : Recorded(task'[j.task].text, j)
  BY <1>1, <1>3, <1>5, <1>6
<1>8. RunEchoes(s)'
  BY <1>1, <1>4, <1>5 DEF RunEchoes
<1>9. \A n \in Notes : note'[n].text.cut => note'[n].text.from # n
  BY <1>3, <1>5
<1> QED  BY <1>1, <1>7, <1>8, <1>9, EchoOfRun

LEMMA EchoEnds ==
  ASSUME TodoTypeOK, ListInv, EchoInv, ~interrupted', NEW s \in Syncs, FinishSync(s) \/ SyncStops(s)
  PROVE  EchoInv'
<1>1. /\ Others(s) /\ UNCHANGED <<note, task, maps>> /\ sync'[s].pc = "idle" /\ sync'[s].tasks = {}
      /\ ~interrupted /\ sync[s].pc # "record"
  BY RunEnded DEF RunFields
<1>2. sync[s].pc # "idle"
  BY DEF FinishSync, SyncStops
<1>3. /\ \A n \in Notes : note[n].text.cut => note[n].text.from # n
      /\ \A m \in maps : Recorded(task[m.task].text, m)
  BY <1>1, <1>2, NothingRecording DEF EchoInv
<1>4. RunEchoes(s)'
  BY <1>1 DEF RunEchoes, Open, AtHand
<1> QED  BY <1>1, <1>2, <1>3, <1>4, EchoOfRun

LEMMA EchoStep ==
  ASSUME TodoTypeOK, RefsInv, ListInv, OriginInv, PendingInv, EchoInv, [TodoNext]_todoVars
  PROVE  EchoInv'
<1>1. SUFFICES ASSUME ~interrupted' PROVE EchoInv'
  BY DEF EchoInv
<1>2. ~interrupted
  BY <1>1, InterruptedStays
<1>3. CASE UNCHANGED todoVars
  <2>1. UNCHANGED <<note, task, maps>> /\ \A r \in Syncs : Undisturbed(r)
    BY <1>3, TodoStutters DEF todoVars
  <2>2. \A n \in Notes : note'[n].text.cut => note'[n].text.from # n
    BY <1>2, <2>1 DEF EchoInv
  <2> QED  BY <1>2, <2>1, <2>2, EchoOfOthers
<1>4. CASE UserStep
  BY <1>2, <1>4, EchoUser
<1>5. ASSUME NEW d \in Desks, DeskStep(d)
      PROVE  EchoInv'
  BY <1>2, <1>5, EchoDesk
<1>6. ASSUME NEW s \in Syncs, RunStep(s)
      PROVE  EchoInv'
  BY <1>1, <1>2, <1>6, EchoBegins, EchoRunReads, EchoImports, EchoWrites, EchoSends, EchoRecords,
     EchoThrows, EchoEnds DEF RunStep
<1> QED  BY <1>3, <1>4, <1>5, <1>6, TodoSteps

-----------------------------------------------------------------------------
(* TodoSync: the theorems *)

\* The invariant of the synchronization, whose parts need each other.
TodoInv ==
  /\ TodoTypeOK /\ RefsInv /\ ListInv /\ HashInv /\ ThrowInv
  /\ CalmRunsInv /\ OriginInv /\ PendingInv /\ EchoInv

LEMMA TodoInvBegins ==
  ASSUME TodoInit
  PROVE  TodoInv
<1>1. TodoTypeOK /\ RefsInv
  BY TodoBegins
<1>2. ListInv
  BY TodoBegins DEF ListInv, RunLists
<1>3. HashInv
  BY TodoBegins DEF HashInv, RunHashes
<1>4. ThrowInv
  BY TodoBegins DEF ThrowInv, RunThrows
<1>5. CalmRunsInv
  BY TodoBegins DEF CalmRunsInv
<1>6. OriginInv
  BY TodoBegins DEF OriginInv, RunOrigins, Origin
<1>7. PendingInv
  BY TodoBegins DEF PendingInv
<1>8. EchoInv
  BY TodoBegins DEF EchoInv, RunEchoes, Recorded
<1> QED  BY <1>1, <1>2, <1>3, <1>4, <1>5, <1>6, <1>7, <1>8 DEF TodoInv

\* Every step of the synchronization, of the user and of the desks keeps the invariant.
THEOREM TodoInvariant == TodoSpec => []TodoInv
<1>1. TodoInit => TodoInv
  BY TodoInvBegins
<1>2. TodoInv /\ [TodoNext]_todoVars => TodoInv'
  <2>1. SUFFICES ASSUME TodoInv, [TodoNext]_todoVars PROVE TodoInv'
    OBVIOUS
  <2>2. TodoTypeOK' /\ RefsInv' /\ Monotone
    BY <2>1, RefsStep DEF TodoInv
  <2> QED
    BY <2>1, <2>2, ListsStep, HashesStep, ThrowsStep, CalmRunsStep, OriginsStep, PendingStep,
       EchoStep DEF TodoInv
<1> QED  BY <1>1, <1>2, PTL DEF TodoSpec

\* However edits, exports, deletions and runs overlap or stop half-way: a run that nothing
\* disturbs brings notes and tasks in step (RunSettles), no note gets its own text back in
\* the cut form of a task (NoEcho), and no note is thrown away whose task exists
\* (ThrownAwayForTask).
THEOREM TodoStaysInStep == TodoSpec => []TodoInStep
<1>1. TodoInv => TodoInStep
  <2>1. SUFFICES ASSUME TodoInv PROVE TodoInStep
    OBVIOUS
  <2>2. RunSettles
    BY <2>1 DEF TodoInv, CalmRunsInv, RunSettles
  <2>3. NoEcho
    BY <2>1 DEF TodoInv, EchoInv, NoEcho
  <2>4. ThrownAwayForTask
    BY <2>1 DEF TodoInv, ThrowInv, ThrownAwayForTask
  <2> QED  BY <2>2, <2>3, <2>4 DEF TodoInStep
<1> QED  BY <1>1, TodoInvariant, PTL

-----------------------------------------------------------------------------
(* UserAccount *)

\* A user's account behaves as each of its parts does alone, so what is proved of the
\* sessions, of the connection and of the notes holds of the account.
THEOREM AccountParts == AccountSpec => SessionSpec /\ ConnectionSpec /\ TodoSpec
<1>1. AccountInit => SessionInit /\ ConnectionInit /\ TodoInit
  BY DEF AccountInit
<1>2. [AccountNext]_accountPartVars =>
        [SessionNext]_sessionVars /\ [ConnectionNext]_connectionVars /\ [TodoNext]_todoVars
  BY DEF AccountNext, accountPartVars, sessionVars, connectionVars, todoVars
<1> QED  BY <1>1, <1>2, PTL DEF AccountSpec, SessionSpec, ConnectionSpec, TodoSpec

\* Sessions, links, calls, the connection, notes, tasks and mappings keep their types,
\* unique columns included, whichever part moves.
THEOREM AccountTypeCorrect == AccountSpec => []AccountTypeOK
<1>1. SessionInv /\ ConnectionInv /\ TodoInv => AccountTypeOK
  BY DEF SessionInv, ConnectionInv, TodoInv, AccountTypeOK
<1> QED  BY <1>1, AccountParts, SessionInvariant, ConnectionInvariant, TodoInvariant, PTL

\* What a user can rely on: sessions that end stay ended and are otherwise kept, reset links
\* work once, only the account that was chosen is used, and notes and tasks stay in step.
THEOREM AccountSafe ==
  AccountSpec => [](/\ AtMostOneLive /\ EndedStaysEnded /\ LinkTakesEffectOnce
                    /\ CalmKeepsSession /\ OnlyChosenAccount /\ TodoInStep)
BY AccountParts, OneLiveToken, EndedForGood, LinkOnce, CalmSession, ChosenAccountOnly,
   TodoStaysInStep, PTL
=============================================================================

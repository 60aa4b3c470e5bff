------------------------------ MODULE Sessions ------------------------------
(***************************************************************************)
(* The sessions of one user: refresh tokens that are rotated by a          *)
(* compare-and-set, families of tokens that are revoked as a whole,        *)
(* password changes that delete every session, and the browser tabs that   *)
(* share one token store.                                                  *)
(*                                                                         *)
(* The transactions run with READ COMMITTED.  A statement over many rows   *)
(* works on the rows that were committed when it began (seen), and waits   *)
(* for those of them that another transaction has locked.  What an open    *)
(* transaction creates is invisible until it commits.                      *)
(***************************************************************************)
EXTENDS Naturals, Sequences, FiniteSets

CONSTANTS
  Tabs,          \* browser tabs of one profile, with one localStorage
  Requests,      \* slots for requests the API works on
  MaxSessions,   \* bound on the rows of the table
  MaxLinks,      \* bound on password reset links
  MaxRows        \* bound on sessions and links together

NoTab == "none"
ASSUME SessionsAssumption ==
  {MaxSessions, MaxLinks, MaxRows} \subseteq Nat /\ NoTab \notin Tabs

VARIABLES
  sessions,   \* the rows: state and familyId, a row's number being its token
  links,      \* password reset links: state, and whether the password changed since
  server,     \* the requests in progress
  store,      \* the refresh token in localStorage, 0 for none
  ended,      \* history: families ended while no rotation of theirs was open
  calm        \* history: the tabs and the server have not got in each other's way

sessionVars == <<sessions, links, server, store, ended, calm>>

Row == [state : {"live", "rotated", "revoked", "gone"}, family : 1..MaxSessions]
Link == [state : {"open", "used"}, outdated : BOOLEAN]
Call == [pc : {"idle", "find", "consume", "holding", "revoke", "revoking",
               "claim", "claimed", "wiping", "reply"},
         kind : {"refresh", "logout", "password", "link"},
         by : Tabs \union {NoTab},
         token : Nat,                \* the number of a row or of a link, 0 for none
         seen : SUBSET (1..MaxSessions),
         quiet : BOOLEAN]            \* no rotation was open since the statement began
Idle == [pc |-> "idle", kind |-> "refresh", by |-> NoTab, token |-> 0,
         seen |-> {}, quiet |-> FALSE]

\* Besides the types: the token in the store has a row.
SessionTypeOK ==
  /\ sessions \in Seq(Row) /\ Len(sessions) <= MaxSessions
  /\ links \in Seq(Link) /\ Len(links) <= MaxLinks
  /\ server \in [Requests -> Call]
  /\ store \in {0} \union DOMAIN sessions
  /\ ended \subseteq 1..MaxSessions
  /\ calm \in BOOLEAN

SessionInit ==
  /\ sessions = <<>> /\ links = <<>>
  /\ server = [q \in Requests |-> Idle]
  /\ store = 0
  /\ ended = {}
  /\ calm = TRUE

-----------------------------------------------------------------------------
Ids == DOMAIN sessions
Live(t) == sessions[t].state = "live"
Family(t) == sessions[t].family
FamilyOf(f) == {t \in Ids : Family(t) = f}

\* The row that an open rotation has updated and not yet committed.
HeldByOther(t, q) ==
  \E p \in Requests \ {q} : server[p].pc = "holding" /\ server[p].token = t

\* A statement that begins now has no rotation of these rows under way.
Quiet(rows) ==
  \A p \in Requests : server[p].pc = "holding" => server[p].token \notin rows

Reply(q, t) == server' = [server EXCEPT ![q].pc = "reply", ![q].token = t]
Goto(q, pc) == server' = [server EXCEPT ![q].pc = pc]
At(q, kinds, pc) == server[q].kind \in kinds /\ server[q].pc = pc

\* The reset link that an open transaction has updated.
Claiming(q, i) ==
  server[q].kind = "link" /\ server[q].pc \in {"claimed", "wiping"} /\ server[q].token = i

\* The table after an update of the rows with these numbers.
Marked(numbers, state) ==
  [t \in Ids |-> IF t \in numbers THEN [sessions[t] EXCEPT !.state = state]
                 ELSE sessions[t]]

-----------------------------------------------------------------------------
(* The browser: http.ts, resources/auth.ts and the token store. *)

Room == Len(sessions) + Len(links) < MaxRows

\* login, register and the exchange of a login code: issueTokens starts a family
\* and persistTokens stores its first token.
LogIn ==
  LET t == Len(sessions) + 1 IN
  /\ store = 0
  /\ t <= MaxSessions /\ Room
  /\ sessions' = Append(sessions, [state |-> "live", family |-> t])
  /\ store' = t
  /\ UNCHANGED <<links, server, ended, calm>>

Ask(q, tab, kind) ==
  /\ server[q].pc = "idle"
  /\ server' = [server EXCEPT ![q] = [Idle EXCEPT !.pc = "find", !.kind = kind,
                                                  !.by = tab, !.token = store]]

Refreshing(tab) ==
  \E q \in Requests : server[q].by = tab /\ server[q].kind = "refresh"

\* Mutant of StartRefresh: every 401 starts a refresh of its own.
StartRefreshEach(q, tab) ==
  /\ store # 0
  /\ Ask(q, tab, "refresh")
  /\ calm' = (calm /\ \A other \in Tabs \ {tab} : ~Refreshing(other))
  /\ UNCHANGED <<sessions, links, store, ended>>

\* tryRefresh: the requests of a tab share one refresh, those of two tabs do not.
StartRefresh(q, tab) ==
  /\ store # 0
  /\ ~Refreshing(tab)
  /\ Ask(q, tab, "refresh")
  /\ calm' = (calm /\ \A other \in Tabs \ {tab} : ~Refreshing(other))
  /\ UNCHANGED <<sessions, links, store, ended>>

\* auth.logout and auth.changePassword, by which the user ends the session.
StartLogout(q, tab) ==
  /\ store # 0
  /\ Ask(q, tab, "logout")
  /\ calm' = FALSE
  /\ UNCHANGED <<sessions, links, store, ended>>

StartChangePassword(q, tab) ==
  /\ store # 0
  /\ Ask(q, tab, "password")
  /\ calm' = FALSE
  /\ UNCHANGED <<sessions, links, store, ended>>

\* resetPasswordByAdmin, from the browser of an administrator.
StartAdminReset(q) ==
  /\ server[q].pc = "idle"
  /\ server' = [server EXCEPT ![q] = [Idle EXCEPT !.pc = "find", !.kind = "password"]]
  /\ UNCHANGED <<sessions, links, store, ended, calm>>

\* doRefresh stores the new token or clears the store, whatever another tab has
\* put there meanwhile; the other calls clear it.
Answer(q) ==
  /\ server[q].pc = "reply" /\ server[q].by # NoTab
  /\ store' = IF server[q].kind = "refresh" THEN server[q].token ELSE 0
  /\ server' = [server EXCEPT ![q] = Idle]
  /\ UNCHANGED <<sessions, links, ended, calm>>

\* The connection breaks and the server goes on without the tab.  doRefresh and
\* logout clear the store, changePassword throws before it does.
AnswerLost(q) ==
  /\ server[q].pc # "idle" /\ server[q].by # NoTab
  /\ store' = IF server[q].kind = "password" THEN store ELSE 0
  /\ server' = [server EXCEPT ![q].by = NoTab]
  /\ calm' = FALSE
  /\ UNCHANGED <<sessions, links, ended>>

\* Nobody waits for the answer.
Unheard(q) ==
  /\ server[q].pc = "reply" /\ server[q].by = NoTab
  /\ server' = [server EXCEPT ![q] = Idle]
  /\ UNCHANGED <<sessions, links, store, ended, calm>>

-----------------------------------------------------------------------------
(* refreshToken *)

\* The first read of the transaction.
FindSession(q) ==
  /\ At(q, {"refresh"}, "find")
  /\ CASE Live(server[q].token) -> Goto(q, "consume")
       [] sessions[server[q].token].state = "rotated" -> Goto(q, "revoke")
       [] OTHER -> Reply(q, 0)
  /\ UNCHANGED <<sessions, links, store, ended, calm>>

\* Anything else that ends a refresh: the token has expired, the user is inactive,
\* the provider is off or must be asked again, synchronizeStored fails.
RejectRefresh(q) ==
  /\ At(q, {"refresh"}, "find")
  /\ Reply(q, 0)
  /\ calm' = FALSE
  /\ UNCHANGED <<sessions, links, store, ended>>

\* The rotation begins: whoever ends the family from now on may miss its new row.
Hold(q) ==
  LET t == server[q].token IN
  server' = [p \in Requests |->
    IF p = q THEN [server[q] EXCEPT !.pc = "holding"]
    ELSE [server[p] EXCEPT !.quiet = @ /\ t \notin server[p].seen]]

\* Mutant of ConsumeToken: the update does not ask for revokedAt null.
ConsumeTokenRevoked(q) ==
  LET t == server[q].token IN
  /\ At(q, {"refresh"}, "consume")
  /\ ~HeldByOther(t, q)
  /\ CASE sessions[t].state \in {"live", "revoked"} -> Hold(q)
       [] sessions[t].state = "rotated" -> Goto(q, "revoke")
       [] OTHER -> Reply(q, 0)
  /\ UNCHANGED <<sessions, links, store, ended, calm>>

\* Mutant of ConsumeToken: the update asks for the id only.
ConsumeTokenAnyway(q) ==
  LET t == server[q].token IN
  /\ At(q, {"refresh"}, "consume")
  /\ ~HeldByOther(t, q)
  /\ IF sessions[t].state = "gone" THEN Reply(q, 0) ELSE Hold(q)
  /\ UNCHANGED <<sessions, links, store, ended, calm>>

\* The conditional updateMany, which waits for another rotation of the row.
ConsumeToken(q) ==
  LET t == server[q].token IN
  /\ At(q, {"refresh"}, "consume")
  /\ ~HeldByOther(t, q)
  /\ CASE Live(t) -> Hold(q)
       [] sessions[t].state = "rotated" -> Goto(q, "revoke")
       [] OTHER -> Reply(q, 0)
  /\ UNCHANGED <<sessions, links, store, ended, calm>>

\* Mutant of Rotate: the replacement is not part of what is committed.
RotateOnly(q) ==
  /\ At(q, {"refresh"}, "holding")
  /\ Len(sessions) < MaxSessions /\ Room
  /\ sessions' = Marked({server[q].token}, "rotated")
  /\ Reply(q, Len(sessions) + 1)
  /\ UNCHANGED <<links, store, ended, calm>>

\* The commit of the rotated row and of its replacement.
Rotate(q) ==
  LET t == server[q].token
      n == Len(sessions) + 1
  IN
  /\ At(q, {"refresh"}, "holding")
  /\ n <= MaxSessions /\ Room
  /\ sessions' = Append(Marked({t}, "rotated"), [state |-> "live", family |-> Family(t)])
  /\ Reply(q, n)
  /\ UNCHANGED <<links, store, ended, calm>>

-----------------------------------------------------------------------------
(* logout, and the reuse of a rotated token *)

FindForLogout(q) ==
  /\ At(q, {"logout"}, "find")
  /\ IF sessions[server[q].token].state = "gone" THEN Reply(q, 0) ELSE Goto(q, "revoke")
  /\ UNCHANGED <<sessions, links, store, ended, calm>>

\* updateMany of the family's rows with revokedAt null begins.
BeginRevoke(q) ==
  LET rows == {t \in FamilyOf(Family(server[q].token)) : Live(t)} IN
  /\ At(q, {"refresh", "logout"}, "revoke")
  /\ server' = [server EXCEPT ![q].pc = "revoking", ![q].seen = rows,
                              ![q].quiet = Quiet(rows)]
  /\ UNCHANGED <<sessions, links, store, ended, calm>>

EndRevoke(q) ==
  /\ At(q, {"refresh", "logout"}, "revoking")
  /\ \A t \in server[q].seen : ~HeldByOther(t, q)
  /\ sessions' = Marked({t \in server[q].seen : Live(t)}, "revoked")
  /\ ended' = IF server[q].quiet THEN ended \union {Family(server[q].token)} ELSE ended
  /\ server' = [server EXCEPT ![q].pc = "reply", ![q].token = 0, ![q].seen = {},
                              ![q].quiet = FALSE]
  /\ UNCHANGED <<links, store, calm>>

-----------------------------------------------------------------------------
(* Passwords *)

\* createAndSendPasswordReset invalidates the open links and creates one.  It does
\* not see a link that a concurrent call is creating.
IssueLink ==
  /\ Len(links) < MaxLinks /\ Room
  /\ \E missed \in {0, Len(links)} :
       links' = Append([i \in DOMAIN links |->
                          IF i = missed THEN links[i] ELSE [links[i] EXCEPT !.state = "used"]],
                       [state |-> "open", outdated |-> FALSE])
  /\ \A q \in Requests, i \in DOMAIN links : ~Claiming(q, i)
  /\ UNCHANGED <<sessions, server, store, ended, calm>>

\* The mail cannot be sent.
MailFails(i) ==
  /\ links[i].state = "open"
  /\ \A q \in Requests : ~Claiming(q, i)
  /\ links' = [links EXCEPT ![i].state = "used"]
  /\ UNCHANGED <<sessions, server, store, ended, calm>>

\* resetPassword reads the link, then hashes the password.
StartReset(q, i) ==
  /\ server[q].pc = "idle"
  /\ links[i].state = "open"
  /\ server' = [server EXCEPT ![q] = [Idle EXCEPT !.pc = "claim", !.kind = "link",
                                                  !.token = i]]
  /\ UNCHANGED <<sessions, links, store, ended, calm>>

\* Mutant of ClaimLink: the link read before is not asked for again.
ClaimLinkUnchecked(q) ==
  /\ At(q, {"link"}, "claim")
  /\ \A p \in Requests \ {q} : ~Claiming(p, server[q].token)
  /\ Goto(q, "claimed")
  /\ UNCHANGED <<sessions, links, store, ended, calm>>

\* The conditional updateMany of the link.
ClaimLink(q) ==
  /\ At(q, {"link"}, "claim")
  /\ \A p \in Requests \ {q} : ~Claiming(p, server[q].token)
  /\ IF links[server[q].token].state = "open" THEN Goto(q, "claimed") ELSE Reply(q, 0)
  /\ UNCHANGED <<sessions, links, store, ended, calm>>

\* The update of the user's row, which the other password changes wait for, and
\* the deleteMany of the sessions that it has.
BeginWipe(q) ==
  LET rows == {t \in Ids : sessions[t].state # "gone"} IN
  /\ At(q, {"password"}, "find") \/ At(q, {"link"}, "claimed")
  /\ \A p \in Requests : server[p].pc # "wiping"
  /\ server' = [server EXCEPT ![q].pc = "wiping", ![q].seen = rows,
                              ![q].quiet = Quiet(rows)]
  /\ calm' = FALSE
  /\ UNCHANGED <<sessions, links, store, ended>>

\* The sessions are gone, every link is used, and the transaction commits.
EndWipe(q) ==
  /\ server[q].pc = "wiping"
  /\ \A t \in server[q].seen : ~HeldByOther(t, q)
  /\ \A p \in Requests \ {q}, i \in DOMAIN links : ~Claiming(p, i)
  /\ sessions' = Marked(server[q].seen, "gone")
  /\ links' = [i \in DOMAIN links |-> [state |-> "used", outdated |-> TRUE]]
  /\ ended' = IF server[q].quiet
              THEN ended \union {Family(t) : t \in server[q].seen} ELSE ended
  /\ server' = [server EXCEPT ![q].pc = "reply", ![q].token = 0, ![q].seen = {},
                              ![q].quiet = FALSE]
  /\ UNCHANGED <<store, calm>>

\* A transaction is rolled back: the wrong password, a broken connection, a crash,
\* or the database ends a deadlock of two password changes.
RollBack(q) ==
  /\ server[q].pc \in {"holding", "claimed", "wiping"} \/ At(q, {"password"}, "find")
  /\ server' = [server EXCEPT ![q].pc = "reply", ![q].token = 0, ![q].seen = {},
                              ![q].quiet = FALSE]
  /\ calm' = FALSE
  /\ UNCHANGED <<sessions, links, store, ended>>

-----------------------------------------------------------------------------
SessionNext ==
  \/ LogIn \/ IssueLink
  \/ \E i \in DOMAIN links : MailFails(i)
  \/ \E q \in Requests :
       \/ \E tab \in Tabs :
            StartRefresh(q, tab) \/ StartLogout(q, tab) \/ StartChangePassword(q, tab)
       \/ \E i \in DOMAIN links : StartReset(q, i)
       \/ StartAdminReset(q) \/ Answer(q) \/ AnswerLost(q) \/ Unheard(q)
       \/ FindSession(q) \/ RejectRefresh(q) \/ ConsumeToken(q) \/ Rotate(q)
       \/ FindForLogout(q) \/ BeginRevoke(q) \/ EndRevoke(q)
       \/ ClaimLink(q) \/ BeginWipe(q) \/ EndWipe(q) \/ RollBack(q)

SessionSpec == SessionInit /\ [][SessionNext]_sessionVars

-----------------------------------------------------------------------------
(* Properties *)

\* However refreshes, logouts and password changes interleave, a family never has
\* two tokens that could be refreshed: of two rotations of one token the
\* conditional update lets only one through.
AtMostOneLive ==
  \A t, u \in Ids : Live(t) /\ Live(u) /\ Family(t) = Family(u) => t = u

\* A family that a logout, the reuse of a rotated token or a password change has
\* ended, while none of its rotations was open, never has a usable token again,
\* although refreshes that read its token before are still on their way.
EndedStaysEnded == \A t \in Ids : Family(t) \in ended => ~Live(t)

\* As long as only one tab refreshes at a time and no answer is lost, the token in
\* the store can be used or is just being replaced: concurrent 401 answers in one
\* tab do not end the user's session.
CalmKeepsSession ==
  calm /\ Len(sessions) > 0 =>
    /\ store # 0
    /\ \/ Live(store)
       \/ \E q \in Requests :
            /\ server[q].pc = "reply" /\ server[q].kind = "refresh"
            /\ server[q].token # 0 /\ Live(server[q].token)

\* A reset link only ever replaces the password that was valid when it was issued:
\* once another link, an administrator or the user has changed it, a reset that read
\* the link before does not get past its conditional update.  So no link works twice.
LinkTakesEffectOnce ==
  \A q \in Requests :
    At(q, {"link"}, "wiping") => ~links[server[q].token].outdated
=============================================================================

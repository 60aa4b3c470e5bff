------------------------ MODULE MicrosoftConnection ------------------------
(***************************************************************************)
(* The connection of one user to Microsoft To Do: sign-in with one-time    *)
(* state rows, the choice of lists, disconnecting, and the calls that use  *)
(* the connection.  A call reads the row, has MSAL renew the tokens of the *)
(* cache it read, and writes that cache back without asking whether the    *)
(* row is still the one it read.                                           *)
(***************************************************************************)
EXTENDS Naturals

CONSTANTS
  Accounts,   \* Microsoft accounts
  SignIns,    \* sign-ins of the user
  MsCalls     \* slots for requests and automatic runs in progress

NoAccount == "none"
ASSUME ConnectionAssumption == NoAccount \notin Accounts

VARIABLES
  connection,  \* the row: status, account, token cache (named by its account), lists
  signIn,      \* the state row of each sign-in, and how often it has connected
  msCall,      \* the calls in progress, with the row they read
  chosen       \* history: the account the user last connected and has not disconnected

connectionVars == <<connection, signIn, msCall, chosen>>

Owner == Accounts \union {NoAccount}
Connection == [status : {"active", "reauth", "off"}, account : Owner, cache : Owner,
               lists : BOOLEAN]
Unconnected == [status |-> "off", account |-> NoAccount, cache |-> NoAccount, lists |-> FALSE]
NoMsCall == [pc |-> "idle", kind |-> "lists", seen |-> Unconnected, wanted |-> NoAccount]

ConnectionTypeOK ==
  /\ connection \in Connection
  /\ signIn \in [SignIns -> [state : {"none", "open", "claimed", "gone"}, connected : Nat]]
  /\ msCall \in [MsCalls -> [pc : {"idle", "token", "graph"}, kind : {"lists", "select", "sync", "delete"},
                             seen : Connection, wanted : Owner]]
  /\ chosen \in Owner

ConnectionInit ==
  /\ connection = Unconnected
  /\ signIn = [x \in SignIns |-> [state |-> "none", connected |-> 0]]
  /\ msCall = [q \in MsCalls |-> NoMsCall]
  /\ chosen = NoAccount

-----------------------------------------------------------------------------
\* startOAuth
StartOAuth(x) ==
  /\ signIn[x].state = "none"
  /\ signIn' = [signIn EXCEPT ![x].state = "open"]
  /\ UNCHANGED <<connection, msCall, chosen>>

\* The state row runs out, or discardOAuthState after a refusal.
DiscardOAuthState(x) ==
  /\ signIn[x].state = "open"
  /\ signIn' = [signIn EXCEPT ![x].state = "gone"]
  /\ UNCHANGED <<connection, msCall, chosen>>

\* completeOAuth finds the state row and deletes it, which only one callback can.
ClaimState(x) ==
  /\ signIn[x].state = "open"
  /\ signIn' = [signIn EXCEPT ![x].state = "claimed"]
  /\ UNCHANGED <<connection, msCall, chosen>>

\* Microsoft answers with an account, or does not; an existing row keeps its lists.
CompleteOAuth(x) ==
  /\ signIn[x].state = "claimed"
  /\ \/ \E a \in Accounts :
          /\ connection' = [connection EXCEPT !.status = "active", !.account = a, !.cache = a]
          /\ signIn' = [signIn EXCEPT ![x] = [state |-> "gone", connected |-> @.connected + 1]]
          /\ chosen' = a
     \/ /\ signIn' = [signIn EXCEPT ![x].state = "gone"]
        /\ UNCHANGED <<connection, chosen>>
  /\ UNCHANGED msCall

\* disconnect, which also deletes the state rows of sign-ins under way.
Disconnect ==
  /\ chosen # NoAccount
  /\ connection' = Unconnected
  /\ signIn' = [x \in SignIns |->
       IF signIn[x].state = "open" THEN [signIn[x] EXCEPT !.state = "gone"] ELSE signIn[x]]
  /\ chosen' = NoAccount
  /\ UNCHANGED msCall

-----------------------------------------------------------------------------
\* requireActiveConnection; sync and autoSync ask for lists as well, and
\* handlePermanentNoteDeletion for an active status.
ReadConnection(q, kind) ==
  /\ msCall[q].pc = "idle"
  /\ connection.status # "off" /\ connection.cache # NoAccount
  /\ kind = "sync" => connection.lists
  /\ kind = "delete" => connection.status = "active"
  /\ msCall' = [msCall EXCEPT ![q] =
       [pc |-> "token", kind |-> kind, seen |-> connection, wanted |-> chosen]]
  /\ UNCHANGED <<connection, signIn, chosen>>

\* Mutant of AccountInCache: any account of the cache will do.
AnyAccountInCache(seen) == seen.cache # NoAccount

\* accessToken looks for the row's account in the row's cache.
AccountInCache(seen) == seen.account # NoAccount /\ seen.cache = seen.account

\* accessToken with renewed tokens: the cache goes back into the row.
RenewToken(q) ==
  /\ msCall[q].pc = "token"
  /\ AccountInCache(msCall[q].seen)
  /\ connection' = [connection EXCEPT !.status = "active", !.cache = msCall[q].seen.cache]
  /\ msCall' = [msCall EXCEPT ![q].pc = "graph"]
  /\ UNCHANGED <<signIn, chosen>>

\* accessToken fails: without an account it leaves the row alone, with one that is not
\* in the cache or that Microsoft refuses it marks the row.  Other errors pass through.
NoToken(q) ==
  /\ msCall[q].pc = "token"
  /\ \/ /\ msCall[q].seen.account # NoAccount
        /\ connection' = [connection EXCEPT !.status = "reauth"]
     \/ /\ ~AccountInCache(msCall[q].seen) => msCall[q].seen.account = NoAccount
        /\ UNCHANGED connection
  /\ msCall' = [msCall EXCEPT ![q] = NoMsCall]
  /\ UNCHANGED <<signIn, chosen>>

\* Graph answers; selectLists stores the choice in whatever the row is by now.
UseGraph(q) ==
  /\ msCall[q].pc = "graph"
  /\ \/ /\ msCall[q].kind = "select"
        /\ \E some \in BOOLEAN : connection' = [connection EXCEPT !.lists = some]
     \/ UNCHANGED connection
  /\ msCall' = [msCall EXCEPT ![q] = NoMsCall]
  /\ UNCHANGED <<signIn, chosen>>

ConnectionNext ==
  \/ \E x \in SignIns : StartOAuth(x) \/ DiscardOAuthState(x) \/ ClaimState(x) \/ CompleteOAuth(x)
  \/ Disconnect
  \/ \E q \in MsCalls :
       \/ \E kind \in {"lists", "select", "sync", "delete"} : ReadConnection(q, kind)
       \/ RenewToken(q) \/ NoToken(q) \/ UseGraph(q)

ConnectionSpec == ConnectionInit /\ [][ConnectionNext]_connectionVars

\* A call talks to Microsoft only for the account that the user had connected when it
\* began: neither after disconnecting, although calls that were under way put tokens
\* back into the row, nor for an account that another sign-in has replaced.  And a
\* callback that is delivered twice connects once.
OnlyChosenAccount ==
  /\ \A q \in MsCalls :
       msCall[q].pc = "graph" =>
         msCall[q].wanted # NoAccount /\ msCall[q].seen.cache = msCall[q].wanted
  /\ \A x \in SignIns : signIn[x].connected <= 1
=============================================================================

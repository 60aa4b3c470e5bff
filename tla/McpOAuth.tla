------------------------------ MODULE McpOAuth ------------------------------
(***************************************************************************)
(* The OAuth server for MCP clients: authorization requests that a user    *)
(* approves, codes that are exchanged for tokens, and refresh tokens that  *)
(* are rotated.  Nothing but approve runs in a transaction: a code or a    *)
(* token is claimed by a conditional update, and the tokens that replace   *)
(* it are created by later statements.                                     *)
(***************************************************************************)
EXTENDS Naturals, Sequences, FiniteSets

CONSTANTS
  Consents,     \* authorization requests
  OAuthCalls,   \* slots for requests the API works on
  MaxTokens     \* bound on the refresh tokens

ASSUME OAuthAssumption == MaxTokens \in Nat

VARIABLES
  consent,   \* the rows of each request: the request itself and its code
  tokens,    \* refresh tokens: consent, family and state
  oauth,     \* the calls in progress
  closed     \* history: families revoked while none of their tokens was being replaced

oauthVars == <<consent, tokens, oauth, closed>>

NoCall == [pc |-> "idle", consent |-> "none", token |-> 0, family |-> 0]
RowStates == {"none", "open", "used", "gone"}

TokenStates == {"live", "rotated", "revoked", "gone"}
Row == [consent : Consents, family : Nat, state : TokenStates]
OAuthCall == [pc : {"idle", "approve", "claim", "rotate", "reuse", "issue"},
              consent : Consents \union {"none"}, token : Nat, family : Nat]

OAuthTypeOK ==
  /\ consent \in [Consents -> [request : RowStates, code : RowStates]]
  /\ tokens \in Seq(Row) /\ Len(tokens) <= MaxTokens
  /\ \A t \in DOMAIN tokens : tokens[t].family \in 1..t
  /\ oauth \in [OAuthCalls -> OAuthCall]
  /\ \A q \in OAuthCalls : {oauth[q].token, oauth[q].family} \subseteq 0..MaxTokens
  /\ closed \subseteq 1..MaxTokens

OAuthInit ==
  /\ consent = [c \in Consents |-> [request |-> "none", code |-> "none"]]
  /\ tokens = <<>>
  /\ oauth = [q \in OAuthCalls |-> NoCall]
  /\ closed = {}

Usable(t) == tokens[t].state = "live"
Begin(q, pc, c, t) ==
  oauth' = [oauth EXCEPT ![q] = [NoCall EXCEPT !.pc = pc, !.consent = c, !.token = t]]
Finish(q) == oauth' = [oauth EXCEPT ![q] = NoCall]

-----------------------------------------------------------------------------
\* startAuthorization
AskConsent(c) ==
  /\ consent[c].request = "none"
  /\ consent' = [consent EXCEPT ![c].request = "open"]
  /\ UNCHANGED <<tokens, oauth, closed>>

\* approve reads the request.
StartApproval(q, c) ==
  /\ oauth[q].pc = "idle"
  /\ consent[c].request = "open"
  /\ Begin(q, "approve", c, 0)
  /\ UNCHANGED <<consent, tokens, closed>>

\* The transaction: without a row to delete there is no code.
Approve(q) ==
  LET c == oauth[q].consent IN
  /\ oauth[q].pc = "approve"
  /\ consent' = IF consent[c].request = "open"
                THEN [consent EXCEPT ![c] = [request |-> "used", code |-> "open"]]
                ELSE consent
  /\ Finish(q)
  /\ UNCHANGED <<tokens, closed>>

\* deny
Deny(c) ==
  /\ consent[c].request = "open"
  /\ consent' = [consent EXCEPT ![c].request = "used"]
  /\ UNCHANGED <<tokens, oauth, closed>>

\* exchangeCode reads the code with its client.
ReadCode(q, c) ==
  /\ oauth[q].pc = "idle"
  /\ consent[c].code = "open"
  /\ Begin(q, "claim", c, 0)
  /\ UNCHANGED <<consent, tokens, closed>>

\* updateMany with usedAt null.
ClaimCode(q) ==
  LET c == oauth[q].consent IN
  /\ oauth[q].pc = "claim"
  /\ IF consent[c].code = "open"
     THEN /\ consent' = [consent EXCEPT ![c].code = "used"]
          /\ oauth' = [oauth EXCEPT ![q].pc = "issue"]
     ELSE UNCHANGED consent /\ Finish(q)
  /\ UNCHANGED <<tokens, closed>>

\* exchangeRefreshToken reads the token: rotated ones end the family.
ReadRefreshToken(q, t) ==
  /\ oauth[q].pc = "idle"
  /\ tokens[t].state \in {"live", "rotated"}
  /\ Begin(q, IF Usable(t) THEN "rotate" ELSE "reuse", tokens[t].consent, t)
  /\ UNCHANGED <<consent, tokens, closed>>

\* Mutant of RotateToken: the update asks for the id only.
RotateTokenAnyway(q) ==
  LET t == oauth[q].token IN
  /\ oauth[q].pc = "rotate"
  /\ tokens' = [tokens EXCEPT ![t].state = "rotated"]
  /\ oauth' = [oauth EXCEPT ![q].pc = "issue", ![q].family = tokens[t].family]
  /\ UNCHANGED <<consent, closed>>

\* updateMany with revokedAt and rotatedAt null.
RotateToken(q) ==
  LET t == oauth[q].token IN
  /\ oauth[q].pc = "rotate"
  /\ IF Usable(t)
     THEN /\ tokens' = [tokens EXCEPT ![t].state = "rotated"]
          /\ oauth' = [oauth EXCEPT ![q].pc = "issue", ![q].family = tokens[t].family]
     ELSE UNCHANGED tokens /\ Finish(q)
  /\ UNCHANGED <<consent, closed>>

\* issueTokens, in a family of its own after a code.
IssueTokens(q) ==
  LET n == Len(tokens) + 1 IN
  /\ oauth[q].pc = "issue"
  /\ n <= MaxTokens
  /\ tokens' = Append(tokens, [consent |-> oauth[q].consent, state |-> "live",
                 family |-> IF oauth[q].family = 0 THEN n ELSE oauth[q].family])
  /\ Finish(q)
  /\ UNCHANGED <<consent, closed>>

\* A statement fails or the process stops; what was claimed stays claimed.
CallFails(q) ==
  /\ oauth[q].pc # "idle"
  /\ Finish(q)
  /\ UNCHANGED <<consent, tokens, closed>>

\* The reuse of a rotated token revokes the tokens its family has now.
RevokeReused(q) ==
  LET f == tokens[oauth[q].token].family IN
  /\ oauth[q].pc = "reuse"
  /\ tokens' = [t \in DOMAIN tokens |->
       IF tokens[t].family = f /\ Usable(t) THEN [tokens[t] EXCEPT !.state = "revoked"]
       ELSE tokens[t]]
  /\ closed' = IF \E p \in OAuthCalls : oauth[p].pc = "issue" /\ oauth[p].family = f
               THEN closed ELSE closed \union {f}
  /\ Finish(q)
  /\ UNCHANGED consent

\* revoke, by the client.
Revoke(t) ==
  /\ Usable(t)
  /\ tokens' = [tokens EXCEPT ![t].state = "revoked"]
  /\ closed' = closed \union {tokens[t].family}
  /\ UNCHANGED <<consent, oauth>>

\* cleanupExpired, and the tests of expiresAt before it comes.
ExpireConsent(c) ==
  /\ "open" \in {consent[c].request, consent[c].code}
  /\ consent' = [consent EXCEPT ![c] =
       [request |-> IF @.request = "open" THEN "gone" ELSE @.request,
        code |-> IF @.code = "open" THEN "gone" ELSE @.code]]
  /\ UNCHANGED <<tokens, oauth, closed>>

ExpireToken(t) ==
  /\ tokens[t].state # "gone"
  /\ tokens' = [tokens EXCEPT ![t].state = "gone"]
  /\ UNCHANGED <<consent, oauth, closed>>

OAuthNext ==
  \/ \E c \in Consents : AskConsent(c) \/ Deny(c) \/ ExpireConsent(c)
  \/ \E t \in DOMAIN tokens : Revoke(t) \/ ExpireToken(t)
  \/ \E q \in OAuthCalls :
       \/ \E c \in Consents : StartApproval(q, c) \/ ReadCode(q, c)
       \/ \E t \in DOMAIN tokens : ReadRefreshToken(q, t)
       \/ Approve(q) \/ ClaimCode(q) \/ RotateToken(q) \/ IssueTokens(q)
       \/ RevokeReused(q) \/ CallFails(q)

OAuthSpec == OAuthInit /\ [][OAuthNext]_oauthVars

-----------------------------------------------------------------------------
\* The refresh tokens in use or about to be issued under a consent.
InUse(c) ==
  Cardinality({t \in DOMAIN tokens : tokens[t].consent = c /\ Usable(t)}) +
  Cardinality({q \in OAuthCalls : oauth[q].pc = "issue" /\ oauth[q].consent = c})

\* One consent of the user never puts two refresh tokens in a client's hands, however
\* often approvals, codes and refresh tokens are sent and wherever calls stop; and
\* a family that the client or a reused token has revoked, while no successor was
\* on its way, has no usable token again.
OneTokenPerConsent ==
  /\ \A c \in Consents : InUse(c) <= 1
  /\ \A t \in DOMAIN tokens : tokens[t].family \in closed => ~Usable(t)
=============================================================================

----------------------------- MODULE WikiProofs -----------------------------
(***************************************************************************)
(* What the reviews of standards, the OAuth server for MCP clients, the    *)
(* edits of pages, the tree of pages and the access rules promise for any  *)
(* number of handlers, calls, consents, editors, pages and users and for   *)
(* any bounds; and that every behaviour of the wiki is one of each part.   *)
(***************************************************************************)
EXTENDS Wiki, IdentitiesProofs, SequenceTheorems, FiniteSetTheorems, TLAPS

-----------------------------------------------------------------------------
(* Standards *)

\* A handler that waits to write an edit has stored the snapshot of what it read.
ReviewInv ==
  /\ ReviewTypeOK
  /\ \A r \in Reviewers : review[r].pc # "idle" => review[r].version # 0
  /\ ActiveIsReviewed
  /\ ~overtaken /\ Exists =>
       \A r \in Reviewers :
         review[r].pc = "write" /\ review[r].kind \in {"text", "rule"} =>
           review[r].version \in snapshots

LEMMA ReviewBegins == ReviewInit => ReviewInv
<1> SUFFICES ASSUME ReviewInit PROVE ReviewInv
  OBVIOUS
<1>1. ReviewTypeOK
  <2>1. /\ 1 \in 1..MaxRevision /\ 0 \in 0..MaxRevision
        /\ "draft" \in Statuses /\ "gone" \in Statuses /\ "text" \in Reads
    BY ReviewAssumption DEF Statuses, Reads
  <2>2. standard \in [status : Statuses, version : 1..MaxRevision, visible : BOOLEAN]
    BY <2>1 DEF ReviewInit
  <2>3. NoReview \in [pc : {"idle", "read", "write"}, kind : Reads,
                      status : Statuses, version : 0..MaxRevision]
    BY <2>1 DEF NoReview
  <2> QED  BY <2>1, <2>2, <2>3 DEF ReviewInit, ReviewTypeOK
<1>2. ActiveIsReviewed
  BY DEF ReviewInit, ActiveIsReviewed, Exists
<1>3. \A r \in Reviewers : review[r].pc = "idle"
  BY DEF ReviewInit, NoReview
<1> QED  BY <1>1, <1>2, <1>3 DEF ReviewInv

LEMMA ReviewStep ==
  ASSUME ReviewInv, ReviewNext
  PROVE  ReviewInv'
<1> USE ReviewAssumption DEF ReviewInv, ReviewTypeOK, ActiveIsReviewed, Exists
<1>0. NoReview \in [pc : {"idle", "read", "write"}, kind : Reads,
                    status : Statuses, version : 0..MaxRevision]
      /\ NoReview.pc = "idle"
  BY DEF NoReview, Reads, Statuses
<1>1. CASE Hide
  BY <1>1 DEF Hide
<1>2. CASE Submit
  BY <1>2 DEF Submit, Statuses
<1>3. CASE Deprecate
  BY <1>3 DEF Deprecate, Statuses
<1>4. CASE RemoveStandard
  BY <1>4 DEF RemoveStandard, Statuses
<1>5. ASSUME NEW r \in Reviewers, NEW kind \in Reads, ReadStandard(r, kind)
      PROVE  ReviewInv'
  BY <1>5 DEF ReadStandard
<1>6. ASSUME NEW r \in Reviewers, Snapshot(r)
      PROVE  ReviewInv'
  BY <1>0, <1>6 DEF Snapshot, Done
<1>7. ASSUME NEW r \in Reviewers, WriteContent(r)
      PROVE  ReviewInv'
  <2>1. PICK hide \in {FALSE, review[r].kind = "text"} :
          standard' = [standard EXCEPT !.version = @ + 1,
            !.status = IF review[r].status = "active" THEN "review" ELSE @,
            !.visible = @ /\ ~hide /\ review[r].status # "active"]
    BY <1>7 DEF WriteContent
  <2>2. /\ standard'.version = standard.version + 1
        /\ standard'.status = IF review[r].status = "active" THEN "review" ELSE standard.status
        /\ standard'.visible = (standard.visible /\ ~hide /\ review[r].status # "active")
    <3>1. /\ DOMAIN standard = {"status", "version", "visible"}
          /\ standard.visible \in BOOLEAN
      BY DEF Statuses
    <3> QED  BY <2>1, <3>1
  <2>3. standard' \in [status : Statuses, version : 1..MaxRevision, visible : BOOLEAN]
    <3>1. PICK v \in BOOLEAN : v = (standard.visible /\ ~hide /\ review[r].status # "active")
      OBVIOUS
    <3>2. PICK s \in Statuses :
            s = IF review[r].status = "active" THEN "review" ELSE standard.status
      BY DEF Statuses
    <3>3. standard' = [standard EXCEPT !.version = @ + 1, !.status = s, !.visible = v]
      BY <2>1, <3>1, <3>2
    <3>4. standard.version + 1 \in 1..MaxRevision
      BY <1>7 DEF WriteContent
    <3>5. standard \in [status : Statuses, version : 1..MaxRevision, visible : BOOLEAN]
      OBVIOUS
    <3> HIDE ReviewAssumption DEF ReviewInv, ReviewTypeOK, ActiveIsReviewed, Exists
    <3> QED  BY <3>3, <3>4, <3>5
  <2>4. ReviewTypeOK'
    BY <1>0, <1>7, <2>3 DEF WriteContent, Done
  <2>5. ActiveIsReviewed'
    <3> SUFFICES ASSUME ~overtaken'
                 PROVE  /\ standard'.status # "active"
                        /\ ~standard'.visible
                        /\ Exists' => 1..(standard'.version - 1) \subseteq snapshots'
      OBVIOUS
    <3>1. /\ ~overtaken /\ standard.version = review[r].version
          /\ standard.status = "active" => review[r].status = "active"
      BY <1>7 DEF WriteContent
    <3>2. review[r].version \in snapshots /\ 1..(standard.version - 1) \subseteq snapshots
      BY <1>7, <3>1 DEF WriteContent
    <3>3. standard'.status # "active"
      BY <2>2, <3>1
    <3>4. ~standard'.visible
      BY <2>2, <3>1
    <3>5. 1..(standard'.version - 1) \subseteq snapshots'
      <4>1. standard.version \in Nat /\ standard'.version - 1 = standard.version
        BY <2>2
      <4>2. snapshots' = snapshots
        BY <1>7 DEF WriteContent
      <4>3. 1..standard.version \subseteq snapshots
        BY <3>1, <3>2, <4>1
      <4> QED  BY <4>1, <4>2, <4>3
    <3> QED  BY <3>3, <3>4, <3>5
  <2> QED  BY <1>0, <1>7, <2>4, <2>5 DEF WriteContent, Done
<1>8. ASSUME NEW r \in Reviewers, WriteVisible(r)
      PROVE  ReviewInv'
  BY <1>0, <1>8 DEF WriteVisible, Done
<1>9. ASSUME NEW r \in Reviewers, WriteApproval(r)
      PROVE  ReviewInv'
  BY <1>0, <1>9 DEF WriteApproval, Done, Statuses
<1>10. ASSUME NEW r \in Reviewers, StopReview(r)
       PROVE  ReviewInv'
  BY <1>0, <1>10 DEF StopReview, Done
<1> QED  BY <1>1, <1>2, <1>3, <1>4, <1>5, <1>6, <1>7, <1>8, <1>9, <1>10 DEF ReviewNext

\* Whatever handlers run at once: unless one of them wrote on a standard that had
\* changed under it, active standards have the text that approve had read, MCP is
\* shown nothing else, and no text an edit replaced is without its snapshot.
THEOREM ReviewedActive == ReviewSpec => [](ReviewTypeOK /\ ActiveIsReviewed)
<1>1. ReviewInv /\ UNCHANGED reviewVars => ReviewInv'
  BY DEF ReviewInv, ReviewTypeOK, ActiveIsReviewed, Exists, reviewVars
<1>2. ReviewInv => ReviewTypeOK /\ ActiveIsReviewed
  BY DEF ReviewInv
<1> QED  BY <1>1, <1>2, ReviewBegins, ReviewStep, PTL DEF ReviewSpec

-----------------------------------------------------------------------------
(* Consents and refresh tokens *)

Issuing(q) == oauth[q].pc = "issue"

\* A call works for a consent; a token that is to be replaced, and the family of
\* one that is being issued, are of this consent.
OAuthCallInv ==
  \A q \in OAuthCalls :
    /\ oauth[q].pc # "idle" => oauth[q].consent \in Consents
    /\ oauth[q].pc \in {"rotate", "reuse"} =>
         /\ oauth[q].token \in DOMAIN tokens
         /\ tokens[oauth[q].token].consent = oauth[q].consent
    /\ ~Issuing(q) => oauth[q].family = 0
    /\ oauth[q].family # 0 =>
         /\ oauth[q].family \in DOMAIN tokens
         /\ tokens[oauth[q].family].consent = oauth[q].consent

\* A family has one consent, the one of its first token.
FamilyInv ==
  \A t \in DOMAIN tokens : tokens[tokens[t].family].consent = tokens[t].consent

\* The right to a refresh token goes from the request to the code, to the call that
\* claims the code, to the token it issues, to the call that rotates this token, and
\* so on: it is in one place at a time.
ConsentInv ==
  /\ \A t, u \in DOMAIN tokens :
       Usable(t) /\ Usable(u) /\ tokens[t].consent = tokens[u].consent => t = u
  /\ \A p, q \in OAuthCalls :
       Issuing(p) /\ Issuing(q) /\ oauth[p].consent = oauth[q].consent => p = q
  /\ \A t \in DOMAIN tokens, q \in OAuthCalls :
       Usable(t) /\ Issuing(q) => tokens[t].consent # oauth[q].consent
  /\ \A t \in DOMAIN tokens :
       Usable(t) => consent[tokens[t].consent].code \notin {"none", "open"}
  /\ \A q \in OAuthCalls :
       Issuing(q) => consent[oauth[q].consent].code \notin {"none", "open"}
  /\ \A c \in Consents : consent[c].request \in {"none", "open"} => consent[c].code = "none"

\* A closed family has neither a usable token nor one on its way.
ClosedInv ==
  /\ closed \subseteq DOMAIN tokens
  /\ \A t \in DOMAIN tokens : tokens[t].family \in closed => ~Usable(t)
  /\ \A q \in OAuthCalls : Issuing(q) => oauth[q].family \notin closed

OAuthInv == OAuthTypeOK /\ OAuthCallInv /\ FamilyInv /\ ConsentInv /\ ClosedInv

\* What the type says of the rows.
LEMMA TokensType ==
  ASSUME OAuthTypeOK
  PROVE  /\ tokens \in Seq(Row) /\ Len(tokens) \in Nat /\ DOMAIN tokens = 1..Len(tokens)
         /\ tokens \in [1..Len(tokens) -> Row] /\ Len(tokens) <= MaxTokens
         /\ MaxTokens \in Nat
BY OAuthAssumption, LenProperties DEF OAuthTypeOK

\* Rows that change their state, or not even this, keep their consent and family.
SameRows(new) ==
  /\ new \in Seq(Row) /\ Len(new) = Len(tokens) /\ DOMAIN new = DOMAIN tokens
  /\ \A t \in DOMAIN tokens :
       new[t].consent = tokens[t].consent /\ new[t].family = tokens[t].family

LEMMA RowsOfFunction ==
  ASSUME OAuthTypeOK, NEW new \in [DOMAIN tokens -> Row],
         \A t \in DOMAIN tokens :
           new[t].consent = tokens[t].consent /\ new[t].family = tokens[t].family
  PROVE  SameRows(new)
<1>1. TokensType!2
  BY TokensType
<1>2. new \in [1..Len(tokens) -> Row]
  BY <1>1
<1>3. new \in Seq(Row)
  BY <1>1, <1>2, SeqDef
<1>4. Len(new) = Len(tokens)
  BY <1>1, <1>2, <1>3, LenProperties
<1> QED  BY <1>3, <1>4 DEF SameRows

LEMMA MarkToken ==
  ASSUME OAuthTypeOK, NEW t \in DOMAIN tokens, NEW state \in TokenStates,
         tokens' = [tokens EXCEPT ![t].state = state]
  PROVE  /\ SameRows(tokens')
         /\ \A u \in DOMAIN tokens :
              tokens'[u].state = IF u = t THEN state ELSE tokens[u].state
<1>1. TokensType!2
  BY TokensType
<1>2. tokens[t] \in Row
  BY <1>1
<1>3. /\ [tokens[t] EXCEPT !.state = state] \in Row
      /\ [tokens[t] EXCEPT !.state = state].consent = tokens[t].consent
      /\ [tokens[t] EXCEPT !.state = state].family = tokens[t].family
      /\ [tokens[t] EXCEPT !.state = state].state = state
  BY <1>2 DEF Row
<1>4. PICK row : row = [tokens[t] EXCEPT !.state = state]
  OBVIOUS
<1>5. tokens' = [tokens EXCEPT ![t] = row]
  BY <1>4
<1>6. /\ tokens' \in [DOMAIN tokens -> Row]
      /\ \A u \in DOMAIN tokens : tokens'[u] = IF u = t THEN row ELSE tokens[u]
  BY <1>1, <1>3, <1>4, <1>5
<1>7. \A u \in DOMAIN tokens :
        tokens'[u].consent = tokens[u].consent /\ tokens'[u].family = tokens[u].family
  BY <1>3, <1>4, <1>6
<1>8. SameRows(tokens')
  BY <1>6, <1>7, RowsOfFunction
<1> QED  BY <1>3, <1>4, <1>6, <1>8

\* The table of tokens after a step that issues none.
LEMMA RevokedRows ==
  ASSUME OAuthTypeOK, NEW q \in OAuthCalls, RevokeReused(q)
  PROVE  /\ SameRows(tokens')
         /\ \A t \in DOMAIN tokens :
              Usable(t)' <=> Usable(t) /\ tokens[t].family # tokens[oauth[q].token].family
<1>1. TokensType!2
  BY TokensType
<1> DEFINE f == tokens[oauth[q].token].family
           new == [t \in DOMAIN tokens |->
                     IF tokens[t].family = f /\ Usable(t)
                     THEN [tokens[t] EXCEPT !.state = "revoked"] ELSE tokens[t]]
<1>2. tokens' = new
  BY DEF RevokeReused
<1>3. ASSUME NEW t \in DOMAIN tokens
      PROVE  /\ new[t] \in Row /\ new[t].consent = tokens[t].consent
             /\ new[t].family = tokens[t].family
             /\ new[t].state = "live" <=> Usable(t) /\ tokens[t].family # f
  <2>1. tokens[t] \in Row
    BY <1>1
  <2>2. new[t] = IF tokens[t].family = f /\ Usable(t)
                 THEN [tokens[t] EXCEPT !.state = "revoked"] ELSE tokens[t]
    OBVIOUS
  <2> HIDE DEF new, f
  <2> QED  BY <2>1, <2>2 DEF Row, TokenStates, Usable
<1>4. new \in [DOMAIN tokens -> Row]
  BY <1>3
<1> HIDE DEF new
<1>5. SameRows(new)
  BY <1>3, <1>4, RowsOfFunction
<1> QED  BY <1>2, <1>3, <1>5 DEF Usable

\* A new token: with the consent and the family of the call, or the first of a family.
LEMMA IssuedRow ==
  ASSUME OAuthTypeOK, OAuthCallInv, NEW q \in OAuthCalls, IssueTokens(q)
  PROVE  /\ tokens' \in Seq(Row) /\ Len(tokens') = Len(tokens) + 1
         /\ Len(tokens') <= MaxTokens
         /\ DOMAIN tokens' = DOMAIN tokens \union {Len(tokens) + 1}
         /\ \A t \in DOMAIN tokens : tokens'[t] = tokens[t]
         /\ \A n \in DOMAIN tokens' \ DOMAIN tokens :
              /\ tokens'[n].consent = oauth[q].consent
              /\ tokens'[n].family = IF oauth[q].family = 0 THEN n ELSE oauth[q].family
<1>1. TokensType!2
  BY TokensType
<1>2. oauth[q] \in OAuthCall /\ oauth[q].consent \in Consents
  BY DEF OAuthTypeOK, OAuthCallInv, IssueTokens
<1>3. PICK row : row = [consent |-> oauth[q].consent, state |-> "live",
          family |-> IF oauth[q].family = 0 THEN Len(tokens) + 1 ELSE oauth[q].family]
  OBVIOUS
<1>4. row \in Row
  BY <1>1, <1>2, <1>3 DEF Row, TokenStates, OAuthCall
<1>5. tokens' = Append(tokens, row) /\ Len(tokens) + 1 <= MaxTokens
  BY <1>3 DEF IssueTokens
<1>6. /\ tokens' \in Seq(Row) /\ Len(tokens') = Len(tokens) + 1
      /\ \A t \in 1..Len(tokens) : tokens'[t] = tokens[t]
      /\ tokens'[Len(tokens) + 1] = row
  BY <1>1, <1>4, <1>5, AppendProperties
<1>7. DOMAIN tokens' = DOMAIN tokens \union {Len(tokens) + 1}
  BY <1>1, <1>6, LenProperties
<1> QED  BY <1>1, <1>3, <1>5, <1>6, <1>7

\* A call that has begun with a consent and a token, or ended.
LEMMA FinishedCall ==
  ASSUME OAuthTypeOK, NEW q \in OAuthCalls, Finish(q)
  PROVE  /\ oauth' \in [OAuthCalls -> OAuthCall] /\ oauth'[q] = NoCall
         /\ \A p \in OAuthCalls \ {q} : oauth'[p] = oauth[p]
<1>1. NoCall \in OAuthCall
  BY DEF NoCall, OAuthCall
<1>2. oauth \in [OAuthCalls -> OAuthCall]
  BY DEF OAuthTypeOK
<1> QED  BY <1>1, <1>2 DEF Finish

LEMMA BegunCall ==
  ASSUME OAuthTypeOK, NEW q \in OAuthCalls, NEW c \in Consents, NEW t \in Nat,
         NEW pc \in {"approve", "claim", "rotate", "reuse"}, Begin(q, pc, c, t)
  PROVE  /\ oauth' \in [OAuthCalls -> OAuthCall]
         /\ oauth'[q].pc = pc /\ oauth'[q].consent = c
         /\ oauth'[q].token = t /\ oauth'[q].family = 0
         /\ \A p \in OAuthCalls \ {q} : oauth'[p] = oauth[p]
<1>1. oauth \in [OAuthCalls -> OAuthCall]
  BY DEF OAuthTypeOK
<1>2. PICK new : new = [NoCall EXCEPT !.pc = pc, !.consent = c, !.token = t]
  OBVIOUS
<1>3. new = [pc |-> pc, consent |-> c, token |-> t, family |-> 0]
  BY <1>2 DEF NoCall
<1>4. pc \in {"idle", "approve", "claim", "rotate", "reuse", "issue"}
  OBVIOUS
<1>5. new \in OAuthCall
  BY <1>3, <1>4 DEF OAuthCall
<1>6. oauth' = [oauth EXCEPT ![q] = new]
  BY <1>2 DEF Begin
<1>7. /\ oauth' \in [OAuthCalls -> OAuthCall] /\ oauth'[q] = new
      /\ \A p \in OAuthCalls \ {q} : oauth'[p] = oauth[p]
  BY <1>1, <1>5, <1>6
<1> QED  BY <1>3, <1>7

\* The request and its code: only approve opens a code, and only for an open request.
LEMMA ConsentStep ==
  ASSUME OAuthInv, NEW c \in Consents, AskConsent(c) \/ Deny(c) \/ ExpireConsent(c)
  PROVE  OAuthInv'
<1> USE DEF OAuthInv, OAuthTypeOK
<1>1. UNCHANGED <<tokens, oauth, closed>>
  BY DEF AskConsent, Deny, ExpireConsent
<1>2. /\ consent' \in [Consents -> [request : RowStates, code : RowStates]]
      /\ \A d \in Consents :
           /\ consent[d].code \notin {"none", "open"} => consent'[d].code \notin {"none", "open"}
           /\ consent'[d].request \in {"none", "open"} => consent'[d].code = "none"
  <2>1. CASE AskConsent(c)
    BY <2>1 DEF AskConsent, RowStates, ConsentInv
  <2>2. CASE Deny(c)
    BY <2>2 DEF Deny, RowStates, ConsentInv
  <2>3. CASE ExpireConsent(c)
    <3>1. PICK row : row = [request |-> IF consent[c].request = "open" THEN "gone"
                                        ELSE consent[c].request,
                            code |-> IF consent[c].code = "open" THEN "gone"
                                     ELSE consent[c].code]
      OBVIOUS
    <3>2. consent' = [consent EXCEPT ![c] = row]
      BY <2>3, <3>1 DEF ExpireConsent
    <3>3. consent[c] \in [request : RowStates, code : RowStates]
      OBVIOUS
    <3>4. row \in [request : RowStates, code : RowStates]
      BY <3>1, <3>3 DEF RowStates
    <3> QED  BY <3>1, <3>2, <3>3, <3>4 DEF ConsentInv, RowStates
  <2> QED  BY <2>1, <2>2, <2>3
<1>3. OAuthTypeOK'
  BY <1>1, <1>2
<1>4. ConsentInv'
  <2>1. \A t \in DOMAIN tokens : tokens[t].consent \in Consents
    BY TokensType DEF Row
  <2>2. \A q \in OAuthCalls : Issuing(q) => oauth[q].consent \in Consents
    BY DEF OAuthCallInv, Issuing
  <2> HIDE DEF OAuthInv, OAuthTypeOK
  <2>3. ConsentInv
    BY DEF OAuthInv
  <2> QED  BY <1>1, <1>2, <2>1, <2>2, <2>3 DEF ConsentInv, Usable, Issuing
<1> QED  BY <1>1, <1>3, <1>4 DEF OAuthCallInv, FamilyInv, ClosedInv, Usable, Issuing

\* A call that begins, or ends without having issued anything.
LEMMA ReadStep ==
  ASSUME OAuthInv, NEW q \in OAuthCalls, UNCHANGED <<consent, tokens, closed>>,
         \/ \E c \in Consents : StartApproval(q, c) \/ ReadCode(q, c)
         \/ \E t \in DOMAIN tokens : ReadRefreshToken(q, t)
         \/ CallFails(q)
  PROVE  OAuthInv'
<1>0. OAuthTypeOK /\ TokensType!2
  BY TokensType DEF OAuthInv
<1>1. /\ oauth' \in [OAuthCalls -> OAuthCall]
      /\ \A p \in OAuthCalls \ {q} : oauth'[p] = oauth[p]
      /\ oauth'[q].family = 0 /\ oauth'[q].pc # "issue"
      /\ oauth'[q].pc # "idle" => oauth'[q].consent \in Consents
      /\ oauth'[q].token \in 0..MaxTokens
      /\ oauth'[q].pc \in {"rotate", "reuse"} =>
           /\ oauth'[q].token \in DOMAIN tokens
           /\ tokens[oauth'[q].token].consent = oauth'[q].consent
  <2>1. ASSUME NEW c \in Consents, StartApproval(q, c) \/ ReadCode(q, c)
        PROVE  <1>1!:
    <3>1. PICK pc \in {"approve", "claim"} : Begin(q, pc, c, 0)
      BY <2>1 DEF StartApproval, ReadCode
    <3> QED  BY <1>0, <3>1, BegunCall
  <2>2. ASSUME NEW t \in DOMAIN tokens, ReadRefreshToken(q, t)
        PROVE  <1>1!:
    <3>1. tokens[t].consent \in Consents /\ t \in Nat /\ t \in 0..MaxTokens
      BY <1>0 DEF Row
    <3>2. PICK pc \in {"rotate", "reuse"} : Begin(q, pc, tokens[t].consent, t)
      BY <2>2 DEF ReadRefreshToken
    <3>3. /\ oauth' \in [OAuthCalls -> OAuthCall]
          /\ oauth'[q].pc = pc /\ oauth'[q].consent = tokens[t].consent
          /\ oauth'[q].token = t /\ oauth'[q].family = 0
          /\ \A p \in OAuthCalls \ {q} : oauth'[p] = oauth[p]
      BY <1>0, <3>1, <3>2, BegunCall
    <3> QED  BY <3>1, <3>2, <3>3
  <2>3. CASE CallFails(q)
    BY <1>0, <2>3, FinishedCall DEF CallFails, NoCall
  <2> QED  BY <2>1, <2>2, <2>3
<1>2. OAuthTypeOK'
  <2>1. \A p \in OAuthCalls : {oauth'[p].token, oauth'[p].family} \subseteq 0..MaxTokens
    BY <1>0, <1>1 DEF OAuthTypeOK
  <2> QED  BY <1>1, <2>1 DEF OAuthInv, OAuthTypeOK
<1>3. OAuthCallInv'
  BY <1>1 DEF OAuthInv, OAuthCallInv, Issuing
<1>4. ConsentInv' /\ ClosedInv'
  BY <1>1 DEF OAuthInv, ConsentInv, ClosedInv, Issuing, Usable
<1> QED  BY <1>2, <1>3, <1>4 DEF OAuthInv, FamilyInv

\* approve, and the claim of a code by an exchange.
LEMMA ApproveStep ==
  ASSUME OAuthInv, NEW q \in OAuthCalls, Approve(q)
  PROVE  OAuthInv'
<1> DEFINE c == oauth[q].consent
<1>0. OAuthTypeOK /\ c \in Consents /\ ConsentInv
  BY DEF OAuthInv, OAuthCallInv, Approve
<1>1. /\ oauth' \in [OAuthCalls -> OAuthCall] /\ oauth'[q] = NoCall
      /\ \A p \in OAuthCalls \ {q} : oauth'[p] = oauth[p]
  BY <1>0, FinishedCall DEF Approve
<1>2. UNCHANGED <<tokens, closed>>
  BY DEF Approve
<1>3. /\ consent' \in [Consents -> [request : RowStates, code : RowStates]]
      /\ \A d \in Consents :
           /\ consent[d].code \notin {"none", "open"} => consent'[d].code \notin {"none", "open"}
           /\ consent'[d].request \in {"none", "open"} => consent'[d].code = "none"
  BY <1>0 DEF Approve, OAuthTypeOK, ConsentInv, RowStates
<1>4. OAuthTypeOK'
  <2>1. \A p \in OAuthCalls : {oauth'[p].token, oauth'[p].family} \subseteq 0..MaxTokens
    BY <1>0, <1>1, TokensType DEF OAuthTypeOK, NoCall
  <2> QED  BY <1>0, <1>1, <1>2, <1>3, <2>1 DEF OAuthTypeOK
<1>5. ConsentInv'
  <2>1. \A t \in DOMAIN tokens : tokens[t].consent \in Consents
    BY <1>0, TokensType DEF Row
  <2>2. \A p \in OAuthCalls : Issuing(p) => oauth[p].consent \in Consents
    BY DEF OAuthInv, OAuthCallInv, Issuing
  <2> QED  BY <1>0, <1>1, <1>2, <1>3, <2>1, <2>2 DEF ConsentInv, Usable, Issuing, NoCall
<1>6. OAuthCallInv'
  BY <1>1, <1>2 DEF OAuthInv, OAuthCallInv, Issuing, NoCall
<1> QED  BY <1>1, <1>2, <1>4, <1>5, <1>6 DEF OAuthInv, FamilyInv, ClosedInv, Issuing, Usable, NoCall

LEMMA ClaimStep ==
  ASSUME OAuthInv, NEW q \in OAuthCalls, ClaimCode(q)
  PROVE  OAuthInv'
<1> DEFINE c == oauth[q].consent
<1>0. OAuthTypeOK /\ c \in Consents /\ ConsentInv /\ oauth[q].pc = "claim"
  BY DEF OAuthInv, OAuthCallInv, ClaimCode
<1>1. CASE consent[c].code # "open"
  <2>1. CallFails(q) /\ UNCHANGED <<consent, tokens, closed>>
    BY <1>0, <1>1 DEF ClaimCode, CallFails
  <2> QED  BY <2>1, ReadStep
<1>2. CASE consent[c].code = "open"
  <2>1. /\ consent' = [consent EXCEPT ![c].code = "used"]
        /\ oauth' = [oauth EXCEPT ![q].pc = "issue"]
        /\ UNCHANGED <<tokens, closed>>
    BY <1>2 DEF ClaimCode
  <2>2. /\ oauth' \in [OAuthCalls -> OAuthCall] /\ oauth'[q].pc = "issue"
        /\ oauth'[q].consent = c /\ oauth'[q].token = oauth[q].token
        /\ oauth'[q].family = oauth[q].family /\ oauth[q].family = 0
        /\ \A p \in OAuthCalls \ {q} : oauth'[p] = oauth[p]
    <3>1. oauth[q].family = 0
      BY <1>0 DEF OAuthInv, OAuthCallInv, Issuing
    <3> QED  BY <1>0, <2>1, <3>1 DEF OAuthTypeOK, OAuthCall
  <2>3. /\ consent' \in [Consents -> [request : RowStates, code : RowStates]]
        /\ consent'[c].code = "used" /\ consent'[c].request = consent[c].request
        /\ \A d \in Consents \ {c} : consent'[d] = consent[d]
    BY <1>0, <2>1 DEF OAuthTypeOK, RowStates
  <2>4. OAuthTypeOK'
    <3>1. \A p \in OAuthCalls : {oauth'[p].token, oauth'[p].family} \subseteq 0..MaxTokens
      BY <1>0, <2>2 DEF OAuthTypeOK
    <3> QED  BY <1>0, <2>1, <2>2, <2>3, <3>1 DEF OAuthTypeOK
  <2>5. OAuthCallInv'
    BY <1>0, <2>1, <2>2 DEF OAuthInv, OAuthCallInv, Issuing
  <2>6. ConsentInv'
    <3>1. \A t \in DOMAIN tokens : tokens[t].consent \in Consents
      BY <1>0, TokensType DEF Row
    <3>2. \A p \in OAuthCalls : Issuing(p) => oauth[p].consent \in Consents
      BY DEF OAuthInv, OAuthCallInv, Issuing
    <3>3. /\ \A t \in DOMAIN tokens : Usable(t) => tokens[t].consent # c
          /\ \A p \in OAuthCalls : Issuing(p) => oauth[p].consent # c
      BY <1>0, <1>2 DEF ConsentInv
    <3> QED  BY <1>0, <1>2, <2>1, <2>2, <2>3, <3>1, <3>2, <3>3 DEF ConsentInv, Usable, Issuing
  <2>7. ClosedInv'
    <3>1. 0 \notin closed
      BY <1>0, TokensType DEF OAuthTypeOK
    <3> QED  BY <2>1, <2>2, <3>1 DEF OAuthInv, ClosedInv, Usable, Issuing
  <2> QED  BY <2>1, <2>4, <2>5, <2>6, <2>7 DEF OAuthInv, FamilyInv
<1> QED  BY <1>1, <1>2

\* What an update of states leaves as it was.
LEMMA SameTable ==
  ASSUME OAuthInv, SameRows(tokens')
  PROVE  /\ tokens' \in Seq(Row) /\ Len(tokens') <= MaxTokens
         /\ \A t \in DOMAIN tokens' : tokens'[t].family \in 1..t
         /\ DOMAIN tokens' = DOMAIN tokens
         /\ FamilyInv'
<1>1. OAuthTypeOK /\ TokensType!2
  BY TokensType DEF OAuthInv
<1>2. \A t \in DOMAIN tokens : tokens[t].family \in 1..t
  BY <1>1 DEF OAuthTypeOK
<1>3. \A t \in DOMAIN tokens : tokens[t].family \in DOMAIN tokens
  BY <1>1, <1>2
<1>4. FamilyInv'
  BY <1>3 DEF OAuthInv, FamilyInv, SameRows
<1> QED  BY <1>1, <1>2, <1>4 DEF SameRows

\* revoke and the expiry of a token.
LEMMA RevokeStep ==
  ASSUME OAuthInv, NEW t \in DOMAIN tokens, Revoke(t) \/ ExpireToken(t)
  PROVE  OAuthInv'
<1>0. OAuthTypeOK /\ TokensType!2
  BY TokensType DEF OAuthInv
<1>1. /\ SameRows(tokens')
      /\ \A u \in DOMAIN tokens : Usable(u)' <=> Usable(u) /\ u # t
  <2>1. PICK state \in {"revoked", "gone"} : tokens' = [tokens EXCEPT ![t].state = state]
    BY DEF Revoke, ExpireToken
  <2>2. /\ SameRows(tokens')
        /\ \A u \in DOMAIN tokens :
             tokens'[u].state = IF u = t THEN state ELSE tokens[u].state
    BY <1>0, <2>1, MarkToken DEF TokenStates
  <2> QED  BY <2>2 DEF Usable
<1>2. SameTable!3
  BY <1>1, SameTable
<1>3. UNCHANGED <<consent, oauth>>
  BY DEF Revoke, ExpireToken
<1>4. \/ closed' = closed
      \/ Usable(t) /\ closed' = closed \union {tokens[t].family}
  BY DEF Revoke, ExpireToken
<1>5. tokens[t].family \in 1..t /\ tokens[t].family \in DOMAIN tokens
  BY <1>0 DEF OAuthTypeOK
<1>6. closed' \subseteq DOMAIN tokens /\ closed' \subseteq 1..MaxTokens
  BY <1>0, <1>4, <1>5 DEF OAuthInv, ClosedInv
<1>7. OAuthTypeOK'
  BY <1>0, <1>2, <1>3, <1>6 DEF OAuthTypeOK
<1>8. OAuthCallInv'
  BY <1>1, <1>2, <1>3 DEF OAuthInv, OAuthCallInv, SameRows, Issuing
<1>9. ConsentInv'
  BY <1>1, <1>2, <1>3 DEF OAuthInv, ConsentInv, SameRows, Issuing
<1>10. ClosedInv'
  <2>1. ASSUME NEW u \in DOMAIN tokens, tokens'[u].family \in closed', Usable(u)'
        PROVE  FALSE
    <3>1. u # t /\ Usable(u) /\ tokens[u].family \in closed'
      BY <1>1, <2>1 DEF SameRows
    <3>2. tokens[u].family \notin closed
      BY <3>1 DEF OAuthInv, ClosedInv
    <3>3. Usable(t) /\ tokens[u].family = tokens[t].family
      BY <1>4, <3>1, <3>2
    <3>4. tokens[u].consent = tokens[t].consent
      BY <3>3 DEF OAuthInv, FamilyInv
    <3> QED  BY <3>1, <3>3, <3>4 DEF OAuthInv, ConsentInv
  <2>2. ASSUME NEW q \in OAuthCalls, Issuing(q), oauth[q].family \in closed'
        PROVE  FALSE
    <3>1. oauth[q].family \notin closed
      BY <2>2 DEF OAuthInv, ClosedInv
    <3>2. Usable(t) /\ oauth[q].family = tokens[t].family
      BY <1>4, <2>2, <3>1
    <3>3. oauth[q].family # 0
      BY <1>0, <1>6, <2>2
    <3>4. oauth[q].consent = tokens[t].consent
      BY <3>2, <3>3 DEF OAuthInv, OAuthCallInv, FamilyInv
    <3> QED  BY <2>2, <3>2, <3>4 DEF OAuthInv, ConsentInv
  <2> QED  BY <1>2, <1>3, <1>6, <2>1, <2>2 DEF ClosedInv, Issuing
<1> QED  BY <1>2, <1>7, <1>8, <1>9, <1>10 DEF OAuthInv

\* The reuse of a rotated token.
LEMMA ReuseStep ==
  ASSUME OAuthInv, NEW q \in OAuthCalls, RevokeReused(q)
  PROVE  OAuthInv'
<1> DEFINE f == tokens[oauth[q].token].family
<1>0. OAuthTypeOK /\ TokensType!2
  BY TokensType DEF OAuthInv
<1>1. /\ SameRows(tokens')
      /\ \A t \in DOMAIN tokens : Usable(t)' <=> Usable(t) /\ tokens[t].family # f
  BY <1>0, RevokedRows
<1>2. SameTable!3
  BY <1>1, SameTable
<1>3. /\ oauth' \in [OAuthCalls -> OAuthCall] /\ oauth'[q] = NoCall
      /\ \A p \in OAuthCalls \ {q} : oauth'[p] = oauth[p]
  BY <1>0, FinishedCall DEF RevokeReused
<1>4. /\ consent' = consent
      /\ \/ closed' = closed
         \/ /\ closed' = closed \union {f}
            /\ \A p \in OAuthCalls : Issuing(p) => oauth[p].family # f
  BY DEF RevokeReused, Issuing
<1>5. f \in DOMAIN tokens
  <2>1. oauth[q].token \in DOMAIN tokens
    BY DEF OAuthInv, OAuthCallInv, RevokeReused
  <2> QED  BY <1>0, <2>1 DEF OAuthTypeOK
<1>6. closed' \subseteq DOMAIN tokens /\ closed' \subseteq 1..MaxTokens
  BY <1>0, <1>4, <1>5 DEF OAuthInv, ClosedInv
<1> HIDE DEF f
<1>7. OAuthTypeOK'
  <2>1. \A p \in OAuthCalls : {oauth'[p].token, oauth'[p].family} \subseteq 0..MaxTokens
    BY <1>0, <1>3 DEF OAuthTypeOK, NoCall
  <2> QED  BY <1>0, <1>2, <1>3, <1>4, <1>6, <2>1 DEF OAuthTypeOK
<1>8. OAuthCallInv'
  BY <1>1, <1>2, <1>3 DEF OAuthInv, OAuthCallInv, SameRows, Issuing, NoCall
<1>9. ConsentInv'
  BY <1>1, <1>2, <1>3, <1>4 DEF OAuthInv, ConsentInv, SameRows, Issuing, NoCall
<1>10. ClosedInv'
  BY <1>1, <1>2, <1>3, <1>4, <1>6 DEF OAuthInv, ClosedInv, SameRows, Issuing, NoCall
<1> QED  BY <1>2, <1>7, <1>8, <1>9, <1>10 DEF OAuthInv

\* The rotation: the right goes from the token to the call.
LEMMA RotateStep ==
  ASSUME OAuthInv, NEW q \in OAuthCalls, RotateToken(q)
  PROVE  OAuthInv'
<1> DEFINE t == oauth[q].token
<1>0. OAuthTypeOK /\ TokensType!2
  BY TokensType DEF OAuthInv
<1>1. oauth[q].pc = "rotate" /\ t \in DOMAIN tokens /\ tokens[t].consent = oauth[q].consent
  BY DEF OAuthInv, OAuthCallInv, RotateToken
<1>2. CASE ~Usable(t)
  <2>1. CallFails(q) /\ UNCHANGED <<consent, tokens, closed>>
    BY <1>1, <1>2 DEF RotateToken, CallFails
  <2> QED  BY <2>1, ReadStep
<1>3. CASE Usable(t)
  <2>1. /\ tokens' = [tokens EXCEPT ![t].state = "rotated"]
        /\ oauth' = [oauth EXCEPT ![q].pc = "issue", ![q].family = tokens[t].family]
        /\ UNCHANGED <<consent, closed>>
    BY <1>3 DEF RotateToken
  <2>2. /\ SameRows(tokens')
        /\ \A u \in DOMAIN tokens : Usable(u)' <=> Usable(u) /\ u # t
    <3>1. /\ SameRows(tokens')
          /\ \A u \in DOMAIN tokens :
               tokens'[u].state = IF u = t THEN "rotated" ELSE tokens[u].state
      BY <1>0, <1>1, <2>1, MarkToken DEF TokenStates
    <3> QED  BY <3>1 DEF Usable
  <2>3. SameTable!3
    BY <2>2, SameTable
  <2>4. tokens[t].family \in 1..t /\ tokens[t].family \in DOMAIN tokens /\ tokens[t].family \in Nat
    BY <1>0, <1>1 DEF OAuthTypeOK
  <2>5. /\ oauth' \in [OAuthCalls -> OAuthCall] /\ oauth'[q].pc = "issue"
        /\ oauth'[q].consent = oauth[q].consent /\ oauth'[q].token = t
        /\ oauth'[q].family = tokens[t].family
        /\ \A p \in OAuthCalls \ {q} : oauth'[p] = oauth[p]
    BY <1>0, <2>1, <2>4 DEF OAuthTypeOK, OAuthCall
  <2>6. OAuthTypeOK'
    <3>1. \A p \in OAuthCalls : {oauth'[p].token, oauth'[p].family} \subseteq 0..MaxTokens
      BY <1>0, <1>1, <2>4, <2>5 DEF OAuthTypeOK
    <3> QED  BY <1>0, <2>1, <2>3, <2>5, <3>1 DEF OAuthTypeOK
  <2>7. OAuthCallInv'
    <3>1. tokens[t].family \in DOMAIN tokens
          /\ tokens[tokens[t].family].consent = oauth[q].consent /\ oauth[q].consent \in Consents
      BY <1>1, <2>4 DEF OAuthInv, FamilyInv, OAuthCallInv
    <3> QED  BY <2>2, <2>3, <2>5, <3>1 DEF OAuthInv, OAuthCallInv, SameRows, Issuing
  <2>8. ConsentInv'
    BY <1>1, <1>3, <2>1, <2>2, <2>3, <2>5 DEF OAuthInv, ConsentInv, SameRows, Issuing
  <2>9. ClosedInv'
    BY <1>1, <1>3, <2>1, <2>2, <2>3, <2>5 DEF OAuthInv, ClosedInv, SameRows, Issuing
  <2> QED  BY <2>3, <2>6, <2>7, <2>8, <2>9 DEF OAuthInv
<1> QED  BY <1>2, <1>3

\* issueTokens: the right goes from the call to the new token.
LEMMA IssueStep ==
  ASSUME OAuthInv, NEW q \in OAuthCalls, IssueTokens(q)
  PROVE  OAuthInv'
<1>0. OAuthTypeOK /\ OAuthCallInv /\ TokensType!2 /\ Issuing(q)
  BY TokensType DEF OAuthInv, IssueTokens, Issuing
<1>1. PICK n : n = Len(tokens) + 1
  OBVIOUS
<1>2. /\ tokens' \in Seq(Row) /\ Len(tokens') = n /\ Len(tokens') <= MaxTokens
      /\ DOMAIN tokens' = DOMAIN tokens \union {n}
      /\ \A t \in DOMAIN tokens : tokens'[t] = tokens[t]
      /\ tokens'[n].consent = oauth[q].consent
      /\ tokens'[n].family = IF oauth[q].family = 0 THEN n ELSE oauth[q].family
  <2>1. n \notin DOMAIN tokens
    BY <1>0, <1>1
  <2> QED  BY <1>0, <1>1, <2>1, IssuedRow
<1>3. /\ oauth' \in [OAuthCalls -> OAuthCall] /\ oauth'[q] = NoCall
      /\ \A p \in OAuthCalls \ {q} : oauth'[p] = oauth[p]
  BY <1>0, FinishedCall DEF IssueTokens
<1>4. UNCHANGED <<consent, closed>>
  BY DEF IssueTokens
<1>5. n \in Nat /\ n \notin DOMAIN tokens /\ n # 0 /\ \A t \in DOMAIN tokens : t < n
  BY <1>0, <1>1
<1>6. oauth[q].family # 0 =>
        /\ oauth[q].family \in DOMAIN tokens
        /\ tokens[oauth[q].family].consent = oauth[q].consent
  BY <1>0 DEF OAuthCallInv
<1>7. \A t \in DOMAIN tokens : tokens[t].family \in 1..t /\ tokens[t].family \in DOMAIN tokens
  BY <1>0 DEF OAuthTypeOK
<1>8. \A t \in DOMAIN tokens' : tokens'[t].family \in 1..t
  <2>1. tokens'[n].family \in 1..n
    BY <1>0, <1>2, <1>5, <1>6
  <2> QED  BY <1>2, <1>7, <2>1
<1>9. OAuthTypeOK'
  <2>1. \A p \in OAuthCalls : {oauth'[p].token, oauth'[p].family} \subseteq 0..MaxTokens
    BY <1>0, <1>3 DEF OAuthTypeOK, NoCall
  <2> QED  BY <1>0, <1>2, <1>3, <1>4, <1>8, <2>1 DEF OAuthTypeOK
<1>10. OAuthCallInv'
  BY <1>0, <1>2, <1>3 DEF OAuthCallInv, Issuing, NoCall
<1>11. FamilyInv'
  <2>1. tokens'[tokens'[n].family].consent = tokens'[n].consent
    BY <1>2, <1>6
  <2> QED  BY <1>2, <1>7, <2>1 DEF OAuthInv, FamilyInv
<1>12. /\ \A p \in OAuthCalls : Issuing(p)' => p # q /\ Issuing(p) /\ oauth'[p] = oauth[p]
       /\ \A t \in DOMAIN tokens : Usable(t)' => Usable(t)
  BY <1>2, <1>3 DEF Issuing, Usable, NoCall
<1>13. ConsentInv'
  <2>1. /\ \A t \in DOMAIN tokens : Usable(t) => tokens[t].consent # oauth[q].consent
        /\ \A p \in OAuthCalls : Issuing(p) /\ p # q => oauth[p].consent # oauth[q].consent
        /\ consent[oauth[q].consent].code \notin {"none", "open"}
    BY <1>0 DEF OAuthInv, ConsentInv
  <2>2. ConsentInv
    BY DEF OAuthInv
  <2> QED  BY <1>2, <1>4, <1>5, <1>12, <2>1, <2>2 DEF ConsentInv
<1>14. ClosedInv'
  <2>1. closed \subseteq DOMAIN tokens /\ oauth[q].family \notin closed
    BY <1>0 DEF OAuthInv, ClosedInv
  <2>2. tokens'[n].family \notin closed
    BY <1>2, <1>5, <2>1
  <2> QED  BY <1>2, <1>4, <1>12, <2>1, <2>2 DEF OAuthInv, ClosedInv
<1> QED  BY <1>9, <1>10, <1>11, <1>13, <1>14 DEF OAuthInv

\* A set whose members are all the same counts for one at most.
LEMMA AtMostOneMember ==
  ASSUME NEW S, \A x, y \in S : x = y
  PROVE  Cardinality(S) \in {0, 1} /\ (S # {} => Cardinality(S) = 1) /\ (S = {} => Cardinality(S) = 0)
<1>1. CASE S = {}
  BY <1>1, FS_EmptySet
<1>2. CASE S # {}
  <2>1. PICK x : S = {x}
    BY <1>2
  <2> QED  BY <2>1, FS_Singleton
<1> QED  BY <1>1, <1>2

LEMMA RightInOnePlace ==
  ASSUME OAuthInv
  PROVE  OneTokenPerConsent
<1>1. ASSUME NEW c \in Consents
      PROVE  InUse(c) <= 1
  <2> DEFINE T == {t \in DOMAIN tokens : tokens[t].consent = c /\ Usable(t)}
             Q == {q \in OAuthCalls : oauth[q].pc = "issue" /\ oauth[q].consent = c}
  <2>1. /\ \A x, y \in T : x = y
        /\ \A x, y \in Q : x = y
        /\ T = {} \/ Q = {}
    BY DEF OAuthInv, ConsentInv, Issuing
  <2>2. InUse(c) = Cardinality(T) + Cardinality(Q)
    BY DEF InUse
  <2> HIDE DEF T, Q
  <2>3. Cardinality(T) \in {0, 1} /\ (T = {} => Cardinality(T) = 0)
    BY <2>1, AtMostOneMember
  <2>4. Cardinality(Q) \in {0, 1} /\ (Q = {} => Cardinality(Q) = 0)
    BY <2>1, AtMostOneMember
  <2> QED  BY <2>1, <2>2, <2>3, <2>4
<1> QED  BY <1>1 DEF OneTokenPerConsent, OAuthInv, ClosedInv

\* Whatever the calls of the OAuth server do at once, the right of each consent to a
\* refresh token is in one place, and a closed family has it nowhere.
THEOREM OAuthInvariant == OAuthSpec => []OAuthInv
<1>1. OAuthInit => OAuthInv
  <2> SUFFICES ASSUME OAuthInit PROVE OAuthInv
    OBVIOUS
  <2>1. tokens = <<>> /\ DOMAIN tokens = {} /\ Len(tokens) = 0 /\ tokens \in Seq(Row)
    BY DEF OAuthInit
  <2>2. NoCall \in OAuthCall
    BY DEF NoCall, OAuthCall
  <2>3. /\ consent \in [Consents -> [request : RowStates, code : RowStates]]
        /\ oauth \in [OAuthCalls -> OAuthCall]
    BY <2>2 DEF OAuthInit, RowStates
  <2>4. \A q \in OAuthCalls : oauth[q] = NoCall
    BY DEF OAuthInit
  <2>5. MaxTokens \in Nat /\ 0 <= MaxTokens
    BY OAuthAssumption
  <2>6. \A q \in OAuthCalls : {oauth[q].token, oauth[q].family} \subseteq 0..MaxTokens
    BY <2>4, <2>5 DEF NoCall
  <2>7. OAuthTypeOK
    BY <2>1, <2>3, <2>5, <2>6 DEF OAuthInit, OAuthTypeOK
  <2>8. OAuthCallInv /\ FamilyInv /\ ClosedInv
    BY <2>1, <2>4 DEF OAuthInit, OAuthCallInv, FamilyInv, ClosedInv, Issuing, NoCall
  <2>9. ConsentInv
    BY <2>1, <2>4 DEF OAuthInit, ConsentInv, Issuing, NoCall
  <2> QED  BY <2>7, <2>8, <2>9 DEF OAuthInv
<1>2. OAuthInv /\ OAuthNext => OAuthInv'
  <2> SUFFICES ASSUME OAuthInv, OAuthNext PROVE OAuthInv'
    OBVIOUS
  <2>1. ASSUME NEW q \in OAuthCalls,
               \/ \E c \in Consents : StartApproval(q, c) \/ ReadCode(q, c)
               \/ \E t \in DOMAIN tokens : ReadRefreshToken(q, t)
               \/ CallFails(q)
        PROVE  OAuthInv'
    <3>1. UNCHANGED <<consent, tokens, closed>>
      BY <2>1 DEF StartApproval, ReadCode, ReadRefreshToken, CallFails
    <3> QED  BY <2>1, <3>1, ReadStep
  <2> QED  BY <2>1, ConsentStep, RevokeStep, ApproveStep, ClaimStep, RotateStep, IssueStep,
              ReuseStep DEF OAuthNext
<1>3. OAuthInv /\ UNCHANGED oauthVars => OAuthInv'
  BY DEF OAuthInv, OAuthTypeOK, OAuthCallInv, FamilyInv, ConsentInv, ClosedInv, Issuing, Usable,
         oauthVars
<1> QED  BY <1>1, <1>2, <1>3, PTL DEF OAuthSpec

\* One consent never puts two refresh tokens into a client's hands, and a family that
\* was revoked stays without usable tokens: for any number of concurrent approvals,
\* exchanges and rotations, wherever they stop.
THEOREM OneConsentOneToken == OAuthSpec => []OneTokenPerConsent
BY OAuthInvariant, RightInOnePlace, PTL

-----------------------------------------------------------------------------
(* Page edits *)

\* The edits in progress: an MCP client's edit is based on what it knows, and as
\* long as the page has the version it knows, it is the draft the client has seen.
EditsInv ==
  \A e \in Editors :
    /\ edit[e].pc \in {"called", "checked"} => edit[e].kind = "mcp"
    /\ edit[e].pc = "read" => edit[e].version # 0
    /\ edit[e].pc \in {"read", "links"} => edit[e].content # 0
    /\ ~raced /\ edit[e].kind = "mcp" /\ edit[e].pc \in {"called", "checked", "read"} =>
         /\ edit[e].known <= page.version
         /\ edit[e].known = page.version => edit[e].seen = page.content
         /\ edit[e].pc # "called" /\ edit[e].known = page.version => page.status = "draft"
         /\ edit[e].pc = "read" =>
              edit[e].version = edit[e].known /\ edit[e].content = edit[e].seen

EditingInv == EditingTypeOK /\ EditsInv /\ GuardedEdits

\* An edit changes as one record of its type.
LEMMA EndedEdit ==
  ASSUME EditingTypeOK, NEW e \in Editors, EndEdit(e)
  PROVE  /\ edit' \in [Editors -> Edit] /\ edit'[e] = NoEdit
         /\ \A f \in Editors \ {e} : edit'[f] = edit[f]
<1>1. NoEdit \in Edit
  BY EditingAssumption DEF NoEdit, Edit
<1> QED  BY <1>1 DEF EditingTypeOK, EndEdit

LEMMA ToolStep ==
  ASSUME EditingInv, NEW e \in Editors, CallTool(e)
  PROVE  EditingInv'
<1> DEFINE new == [NoEdit EXCEPT !.pc = "called", !.kind = "mcp", !.known = page.version,
                                 !.seen = page.content]
<1>1. new \in Edit
  <2>1. /\ page.version \in 0..MaxVersion /\ page.content \in 0..MaxContents
        /\ NoEdit \in Edit
    BY EditingAssumption DEF EditingInv, EditingTypeOK, Contents, NoEdit, Edit
  <2>2. PICK x : x = [NoEdit EXCEPT !.pc = "called", !.kind = "mcp"]
    OBVIOUS
  <2>3. x \in Edit
    BY <2>1, <2>2 DEF Edit
  <2>4. new = [x EXCEPT !.known = page.version, !.seen = page.content]
    BY <2>2
  <2> HIDE DEF new
  <2> QED  BY <2>1, <2>3, <2>4 DEF Edit
<1>2. /\ new.pc = "called" /\ new.kind = "mcp" /\ new.known = page.version
      /\ new.seen = page.content
  BY DEF NoEdit
<1>3. edit' = [edit EXCEPT ![e] = new]
  BY DEF CallTool
<1> HIDE DEF new
<1>4. /\ edit' \in [Editors -> Edit] /\ edit'[e] = new
      /\ \A f \in Editors \ {e} : edit'[f] = edit[f]
  BY <1>1, <1>3 DEF EditingInv, EditingTypeOK
<1>5. UNCHANGED <<page, versions, edgesOf, written, replaced, raced, unseen>>
  BY DEF CallTool
<1>6. EditingTypeOK' /\ GuardedEdits'
  BY <1>4, <1>5 DEF EditingInv, EditingTypeOK, GuardedEdits
<1>7. page.version \in Nat
  BY DEF EditingInv, EditingTypeOK
<1>8. EditsInv'
  BY <1>2, <1>4, <1>5, <1>7 DEF EditingInv, EditsInv
<1> QED  BY <1>6, <1>8 DEF EditingInv

\* An edit that ends, and the links after it.
LEMMA EndStep ==
  ASSUME EditingInv, NEW e \in Editors, EndEdit(e), edgesOf' \in Contents,
         UNCHANGED <<page, versions, written, replaced, raced, unseen>>
  PROVE  EditingInv'
<1>1. /\ edit' \in [Editors -> Edit] /\ edit'[e] = NoEdit
      /\ \A f \in Editors \ {e} : edit'[f] = edit[f]
  BY EndedEdit DEF EditingInv
<1>2. EditingTypeOK' /\ GuardedEdits'
  BY <1>1 DEF EditingInv, EditingTypeOK, GuardedEdits
<1>3. EditsInv'
  BY <1>1 DEF EditingInv, EditsInv, NoEdit
<1> QED  BY <1>2, <1>3 DEF EditingInv

LEMMA DraftStep ==
  ASSUME EditingInv, NEW e \in Editors, CheckDraft(e)
  PROVE  EditingInv'
<1>1. UNCHANGED <<page, versions, edgesOf, written, replaced, raced, unseen>>
  BY DEF CheckDraft
<1>2. CASE EndEdit(e)
  BY <1>1, <1>2, EndStep DEF EditingInv, EditingTypeOK
<1>3. CASE page.status = "draft" /\ edit' = [edit EXCEPT ![e].pc = "checked"]
  <2>1. /\ edit' \in [Editors -> Edit]
        /\ edit'[e] = [edit[e] EXCEPT !.pc = "checked"] /\ edit[e] \in Edit
        /\ \A f \in Editors \ {e} : edit'[f] = edit[f]
    BY <1>3 DEF EditingInv, EditingTypeOK, Edit
  <2>2. /\ edit'[e].pc = "checked" /\ edit'[e].kind = edit[e].kind
        /\ edit'[e].known = edit[e].known /\ edit'[e].seen = edit[e].seen
    BY <2>1 DEF Edit
  <2>3. EditingTypeOK' /\ GuardedEdits'
    BY <1>1, <2>1 DEF EditingInv, EditingTypeOK, GuardedEdits
  <2>4. edit[e].pc = "called" /\ edit[e].kind = "mcp"
    BY DEF CheckDraft, EditingInv, EditsInv
  <2>5. EditsInv'
    BY <1>1, <1>3, <2>1, <2>2, <2>4 DEF EditingInv, EditsInv
  <2> QED  BY <2>3, <2>5 DEF EditingInv
<1> QED  BY <1>2, <1>3 DEF CheckDraft

LEMMA ReadStepOfPage ==
  ASSUME EditingInv, NEW e \in Editors, NEW kind \in {"web", "mcp", "box"}, ReadPage(e, kind)
  PROVE  EditingInv'
<1>1. UNCHANGED <<page, versions, edgesOf, written, replaced, raced, unseen>>
  BY DEF ReadPage
<1>2. CASE EndEdit(e)
  BY <1>1, <1>2, EndStep DEF EditingInv, EditingTypeOK
<1>3. CASE /\ kind = "mcp" => page.version = edit[e].known
           /\ edit' = [edit EXCEPT ![e].pc = "read", ![e].kind = kind,
                     ![e].version = page.version, ![e].content = page.content,
                     ![e].status = page.status]
  <2>1. edit[e] \in Edit /\ edit \in [Editors -> Edit]
    BY DEF EditingInv, EditingTypeOK
  <2>2. PICK new : new = [edit[e] EXCEPT !.pc = "read", !.kind = kind, !.version = page.version,
                            !.content = page.content, !.status = page.status]
    OBVIOUS
  <2>3. /\ page.version \in 1..MaxVersion /\ page.content \in 1..MaxContents
        /\ page.status \in {"draft", "published"}
    BY DEF EditingInv, EditingTypeOK, Contents
  <2>4. /\ new.pc = "read" /\ new.kind = kind /\ new.version = page.version
        /\ new.content = page.content /\ new.known = edit[e].known /\ new.seen = edit[e].seen
        /\ new \in Edit
    <3>1. new \in Edit
      <4>1. PICK x : x = [edit[e] EXCEPT !.pc = "read", !.kind = kind]
        OBVIOUS
      <4>2. x \in Edit
        BY <2>1, <4>1 DEF Edit
      <4>3. PICK y : y = [x EXCEPT !.version = page.version, !.content = page.content]
        OBVIOUS
      <4>4. page.version \in 0..MaxVersion /\ page.content \in 0..MaxContents
        BY <2>3, EditingAssumption
      <4>5. y \in Edit
        BY <4>2, <4>3, <4>4 DEF Edit
      <4>6. new = [y EXCEPT !.status = page.status]
        BY <2>2, <4>1, <4>3
      <4> QED  BY <2>3, <4>5, <4>6 DEF Edit
    <3>2. /\ new.pc = "read" /\ new.kind = kind /\ new.version = page.version
          /\ new.content = page.content /\ new.known = edit[e].known /\ new.seen = edit[e].seen
      BY <2>1, <2>2 DEF Edit
    <3> QED  BY <3>1, <3>2
  <2>5. edit' = [edit EXCEPT ![e] = new]
    BY <1>3, <2>1, <2>2
  <2>6. /\ edit' \in [Editors -> Edit] /\ edit'[e] = new
        /\ \A f \in Editors \ {e} : edit'[f] = edit[f]
    BY <2>1, <2>4, <2>5
  <2>7. EditingTypeOK' /\ GuardedEdits'
    BY <1>1, <2>6 DEF EditingInv, EditingTypeOK, GuardedEdits
  <2>8. kind = "mcp" => edit[e].pc = "checked" /\ edit[e].kind = "mcp"
    BY DEF ReadPage, EditingInv, EditsInv
  <2>9. EditsInv'
    BY <1>1, <1>3, <2>3, <2>4, <2>6, <2>8 DEF EditingInv, EditsInv
  <2> QED  BY <2>7, <2>9 DEF EditingInv
<1> QED  BY <1>2, <1>3 DEF ReadPage

\* The transaction of update.  Unless the history says that it has raced, the row it
\* writes is the one it has read, which makes the version greater than every version
\* that a client or a snapshot knows.
LEMMA WriteStep ==
  ASSUME EditingInv, NEW e \in Editors, NEW content \in Contents,
         NEW status \in {"draft", "published"}, WriteUpdate(e, content, status)
  PROVE  EditingInv'
<1>0. /\ edit[e] \in Edit /\ edit \in [Editors -> Edit]
      /\ page \in [state : {"live", "trash", "gone"}, version : 1..MaxVersion,
                   content : Contents, status : {"draft", "published"}]
      /\ edit[e].pc = "read" /\ edit[e].kind \in {"web", "mcp"}
      /\ edit[e].version \in 1..MaxVersion /\ edit[e].content \in Contents
      /\ MaxVersion \in Nat /\ edit[e].version < MaxVersion
  BY EditingAssumption
     DEF EditingInv, EditingTypeOK, EditsInv, Edit, Contents, WriteUpdate
<1>1. /\ page' \in [state : {"live", "trash", "gone"}, version : 1..MaxVersion,
                    content : Contents, status : {"draft", "published"}]
      /\ page'.version = edit[e].version + 1 /\ page'.content = content
      /\ page'.status = status
  <2>1. PICK n \in 1..MaxVersion : n = edit[e].version + 1
    BY <1>0
  <2>2. page' = [page EXCEPT !.version = n, !.content = content, !.status = status]
    BY <2>1 DEF WriteUpdate
  <2> QED  BY <1>0, <2>1, <2>2
<1>2. /\ edit' \in [Editors -> Edit] /\ edit'[e].pc = "links" /\ edit'[e].content # 0
      /\ \A f \in Editors \ {e} : edit'[f] = edit[f]
  <2>1. PICK new : new = [edit[e] EXCEPT !.pc = "links", !.content = content]
    OBVIOUS
  <2>2. content \in 0..MaxContents /\ content # 0
    BY DEF Contents
  <2>3. new \in Edit /\ new.pc = "links" /\ new.content # 0
    BY <1>0, <2>1, <2>2 DEF Edit
  <2>4. edit' = [edit EXCEPT ![e] = new]
    BY <1>0, <2>1 DEF WriteUpdate
  <2> QED  BY <1>0, <2>3, <2>4
<1>3. /\ versions' = versions \union
           {[version |-> edit[e].version, content |-> edit[e].content]}
      /\ replaced' \subseteq replaced \union {page.content}
      /\ edgesOf' = edgesOf /\ written' \in {content, written}
      /\ raced' \in BOOLEAN /\ unseen' \in BOOLEAN
  BY DEF WriteUpdate
<1>4. EditingTypeOK'
  <2>1. [version |-> edit[e].version, content |-> edit[e].content] \in
          [version : 1..MaxVersion, content : Contents]
    BY <1>0
  <2> QED  BY <1>0, <1>1, <1>2, <1>3, <2>1 DEF EditingInv, EditingTypeOK
<1>5. ASSUME ~raced'
      PROVE  /\ ~raced /\ edit[e].version = page.version /\ edit[e].content = page.content
             /\ ~unseen'
  <2>1. ~raced /\ ~unseen /\ (edit[e].kind = "web" => ~Changed(e))
    BY <1>5 DEF WriteUpdate, EditingInv, GuardedEdits
  <2>2. CASE edit[e].kind = "web"
    BY <2>1, <2>2 DEF Changed, WriteUpdate
  <2>3. CASE edit[e].kind = "mcp"
    <3>1. page.version = edit[e].known
      BY <2>3 DEF WriteUpdate, Lands
    <3>2. /\ edit[e].seen = page.content /\ page.status = "draft"
          /\ edit[e].version = edit[e].known /\ edit[e].content = edit[e].seen
      BY <1>0, <2>1, <2>3, <3>1 DEF EditingInv, EditsInv
    <3> QED  BY <2>1, <2>3, <3>1, <3>2 DEF WriteUpdate
  <2> QED  BY <1>0, <2>2, <2>3
<1>6. GuardedEdits'
  <2> SUFFICES ASSUME ~raced'
               PROVE  /\ replaced' \subseteq {v.content : v \in versions'}
                      /\ \A u, v \in versions' : u.version = v.version => u = v
                      /\ \A v \in versions' : v.version < page'.version
                      /\ ~unseen'
    BY DEF GuardedEdits
  <2>1. PICK row : row = [version |-> page.version, content |-> page.content]
    OBVIOUS
  <2>2. /\ row.version = page.version /\ row.content = page.content
        /\ versions' = versions \union {row} /\ page'.version = page.version + 1
    BY <1>1, <1>3, <1>5, <2>1
  <2>3. /\ replaced \subseteq {v.content : v \in versions}
        /\ \A u, v \in versions : u.version = v.version => u = v
        /\ \A v \in versions : v.version < page.version
    BY <1>5 DEF EditingInv, GuardedEdits
  <2>4. replaced' \subseteq {v.content : v \in versions'}
    BY <1>3, <2>2, <2>3
  <2>5. \A v \in versions : v.version \in Nat
    BY DEF EditingInv, EditingTypeOK
  <2>6. \A u, v \in versions' : u.version = v.version => u = v
    <3>1. \A v \in versions : v.version # row.version
      BY <1>0, <2>2, <2>3, <2>5
    <3> QED  BY <2>2, <2>3, <3>1
  <2>7. \A v \in versions' : v.version < page'.version
    BY <1>0, <2>2, <2>3, <2>5
  <2> QED  BY <1>5, <2>4, <2>6, <2>7
<1>7. EditsInv'
  <2>1. ASSUME NEW f \in Editors \ {e}
        PROVE  ~raced' /\ edit[f].kind = "mcp" /\ edit[f].pc \in {"called", "checked", "read"} =>
                 edit[f].known < page'.version
    <3>1. edit[f].known \in Nat
      BY <1>0 DEF Edit
    <3> QED  BY <1>0, <1>1, <1>5, <3>1 DEF EditingInv, EditsInv
  <2>2. page'.version \in Nat /\ \A f \in Editors : edit[f].known \in Nat
    BY <1>0, <1>1 DEF Edit
  <2>3. ASSUME NEW f \in Editors \ {e}
        PROVE  /\ edit[f].pc \in {"called", "checked"} => edit[f].kind = "mcp"
               /\ edit[f].pc = "read" => edit[f].version # 0
               /\ edit[f].pc \in {"read", "links"} => edit[f].content # 0
               /\ ~raced' /\ edit[f].kind = "mcp" /\ edit[f].pc = "read" =>
                    edit[f].version = edit[f].known /\ edit[f].content = edit[f].seen
    BY <1>5 DEF EditingInv, EditsInv
  <2> QED  BY <1>2, <2>1, <2>2, <2>3 DEF EditsInv
<1> QED  BY <1>4, <1>6, <1>7 DEF EditingInv

\* toggleCheckbox: without another editor's edit under way it changes the content of
\* the row that it has read, and no client knows the content by a version.
LEMMA CheckboxStep ==
  ASSUME EditingInv, NEW e \in Editors, WriteCheckbox(e)
  PROVE  EditingInv'
<1>1. /\ edit' \in [Editors -> Edit] /\ edit'[e] = NoEdit
      /\ \A f \in Editors \ {e} : edit'[f] = edit[f]
  BY EndedEdit DEF EditingInv, WriteCheckbox
<1>2. written + 1 \in Contents
  BY EditingAssumption DEF EditingInv, EditingTypeOK, Contents, WriteCheckbox
<1>3. /\ page' \in [state : {"live", "trash", "gone"}, version : 1..MaxVersion,
                    content : Contents, status : {"draft", "published"}]
      /\ page'.version = page.version
  BY <1>2 DEF EditingInv, EditingTypeOK, WriteCheckbox
<1>4. /\ UNCHANGED <<versions, edgesOf, replaced, unseen>> /\ written' \in Contents
      /\ raced' \in BOOLEAN
      /\ ~raced' => ~raced /\ \A f \in Editors : edit[f].kind # "mcp"
  BY <1>2 DEF WriteCheckbox
<1>5. EditingTypeOK' /\ GuardedEdits'
  BY <1>1, <1>3, <1>4 DEF EditingInv, EditingTypeOK, GuardedEdits
<1>6. EditsInv'
  BY <1>1, <1>4 DEF EditingInv, EditsInv, NoEdit
<1> QED  BY <1>5, <1>6 DEF EditingInv

\* The trash.
LEMMA TrashStep ==
  ASSUME EditingInv, MoveToTrash \/ RestorePage \/ PurgePage
  PROVE  EditingInv'
<1>1. /\ page' \in [state : {"live", "trash", "gone"}, version : 1..MaxVersion,
                    content : Contents, status : {"draft", "published"}]
      /\ page'.version = page.version /\ page'.content = page.content
      /\ page'.status = page.status
      /\ UNCHANGED <<edgesOf, edit, written, raced, unseen>>
      /\ \/ UNCHANGED <<versions, replaced>>
         \/ versions' = {} /\ replaced' = {}
  BY DEF EditingInv, EditingTypeOK, MoveToTrash, RestorePage, PurgePage
<1> QED  BY <1>1 DEF EditingInv, EditingTypeOK, EditsInv, GuardedEdits

\* Whatever edits of the web, of MCP clients and of checkboxes run at once and wherever
\* the page is moved meanwhile: unless an unguarded write has overtaken another, the
\* versions keep every content that was replaced, under numbers of their own, and an
\* MCP client replaces nothing but the draft it has seen.
THEOREM EditsGuarded == EditingSpec => [](EditingTypeOK /\ GuardedEdits)
<1>1. EditingInit => EditingInv
  <2> SUFFICES ASSUME EditingInit PROVE EditingInv
    OBVIOUS
  <2>1. 1 \in 1..MaxVersion /\ 1 \in Contents /\ 0 \in 0..MaxVersion /\ 0 \in 0..MaxContents
    BY EditingAssumption DEF Contents
  <2>2. NoEdit \in Edit /\ NoEdit.pc = "idle"
    BY <2>1 DEF NoEdit, Edit
  <2>3. EditingTypeOK
    BY <2>1, <2>2 DEF EditingInit, EditingTypeOK
  <2>4. EditsInv /\ GuardedEdits
    BY <2>2 DEF EditingInit, EditsInv, GuardedEdits
  <2> QED  BY <2>3, <2>4 DEF EditingInv
<1>2. EditingInv /\ EditingNext => EditingInv'
  <2> SUFFICES ASSUME EditingInv, EditingNext PROVE EditingInv'
    OBVIOUS
  <2>1. ASSUME NEW e \in Editors, UpdateConflicts(e) \/ SyncLinksFails(e)
        PROVE  EditingInv'
    <3>1. /\ EndEdit(e) /\ edgesOf' = edgesOf
          /\ UNCHANGED <<page, versions, written, replaced, raced, unseen>>
      BY <2>1 DEF UpdateConflicts, SyncLinksFails
    <3> QED  BY <3>1, EndStep DEF EditingInv, EditingTypeOK
  <2>2. ASSUME NEW e \in Editors, SyncLinks(e)
        PROVE  EditingInv'
    <3>1. edit[e].content \in Contents
      BY <2>2 DEF SyncLinks, EditingInv, EditingTypeOK, EditsInv, Edit, Contents
    <3> QED  BY <2>2, <3>1, EndStep DEF SyncLinks
  <2> QED  BY <2>1, <2>2, TrashStep, ToolStep, DraftStep, ReadStepOfPage, WriteStep,
              CheckboxStep DEF EditingNext
<1>3. EditingInv /\ UNCHANGED editingVars => EditingInv'
  BY DEF EditingInv, EditingTypeOK, EditsInv, GuardedEdits, editingVars
<1>4. EditingInv => EditingTypeOK /\ GuardedEdits
  BY DEF EditingInv
<1> QED  BY <1>1, <1>2, <1>3, <1>4, PTL DEF EditingSpec

-----------------------------------------------------------------------------
(* Spaces, categories and the tree *)

\* A call that is to write knows what it writes and into which space.
TreeCallInv ==
  \A q \in TreeCalls :
    /\ treeCall[q].pc \in {"create", "update"} => treeCall[q].id \in Pages
    /\ treeCall[q].pc = "category" => treeCall[q].id \in Categories
    /\ treeCall[q].pc # "idle" => treeCall[q].space # None

TreeInv == TreeTypeOK /\ TreeCallInv

\* The space that resolvePageSpace finds is one with a wiki.
LEMMA ResolvedSpace ==
  ASSUME TreeTypeOK, NEW p, NEW input, NEW old
  PROVE  ResolvePageSpace(p, input, old) \in Spaces \union {None}
BY DEF TreeTypeOK, ResolvePageSpace, Agree

\* The row that a call writes refers to rows that exist.
LEMMA WrittenNode ==
  ASSUME TreeInv, NEW q \in TreeCalls, treeCall[q].pc \in {"create", "update"}, Connects(q)
  PROVE  /\ Written(q) \in Node /\ Written(q).state = "live" /\ Written(q).space # None
         /\ Written(q).category # None => categories[Written(q).category] # None
         /\ Written(q).parent # None => tree[Written(q).parent].state # "none"
<1>1. PICK id, input, space :
        id = treeCall[q].id /\ input = treeCall[q].input /\ space = treeCall[q].space
  OBVIOUS
<1>2. /\ treeCall[q] \in TreeCall /\ id \in Pages /\ space # None /\ space \in Spaces \union {None}
      /\ input \in Inputs
  BY <1>1 DEF TreeInv, TreeTypeOK, TreeCallInv, TreeCall
<1>3. tree[id] \in Node
  BY <1>2 DEF TreeInv, TreeTypeOK
<1>4. PICK c \in Categories \union {None} : c = Given(input.category, tree[id].category)
  BY <1>2, <1>3 DEF Given, Inputs, Node
<1>5. PICK r \in Pages \union {None} : r = Given(input.parent, tree[id].parent)
  BY <1>2, <1>3 DEF Given, Inputs, Node
<1>6. PICK k \in {"folder", "page"} : k = input.type
  BY <1>2 DEF Inputs
<1>7. Written(q) = [state |-> "live", type |-> k, space |-> space, category |-> c, parent |-> r]
  BY <1>1, <1>4, <1>5, <1>6 DEF Written
<1>8. Written(q) \in Node /\ Written(q).state = "live" /\ Written(q).space # None
  BY <1>2, <1>7 DEF Node
<1> QED  BY <1>8 DEF Connects

LEMMA QuietCall ==
  ASSUME TreeInv, NEW q \in TreeCalls, Rest(q)
  PROVE  treeCall' \in [TreeCalls -> TreeCall] /\ TreeCallInv'
<1>1. NoInput \in Inputs
  BY DEF NoInput, Inputs
<1>2. Quiet \in TreeCall /\ Quiet.pc = "idle"
  BY <1>1 DEF Quiet, TreeCall
<1>3. /\ treeCall' \in [TreeCalls -> TreeCall] /\ treeCall'[q] = Quiet
      /\ \A r \in TreeCalls \ {q} : treeCall'[r] = treeCall[r]
  BY <1>2 DEF TreeInv, TreeTypeOK, Rest
<1> QED  BY <1>2, <1>3 DEF TreeInv, TreeCallInv

\* A call that has made its check.
LEMMA CheckedCall ==
  ASSUME TreeInv, NEW q \in TreeCalls, NEW c \in TreeCall, treeCall' = [treeCall EXCEPT ![q] = c],
         c.pc \in {"create", "update"} => c.id \in Pages,
         c.pc = "category" => c.id \in Categories,
         c.space # None, UNCHANGED <<enabled, categories, tree, overtook, uprooted>>
  PROVE  TreeInv'
<1>1. /\ treeCall' \in [TreeCalls -> TreeCall] /\ treeCall'[q] = c
      /\ \A r \in TreeCalls \ {q} : treeCall'[r] = treeCall[r]
  BY DEF TreeInv, TreeTypeOK
<1>2. TreeTypeOK'
  BY <1>1 DEF TreeInv, TreeTypeOK
<1> QED  BY <1>1, <1>2 DEF TreeInv, TreeCallInv

\* A page that is written keeps the pages that refer to it.
LEMMA WriteNode ==
  ASSUME TreeInv, NEW p \in Pages, NEW node \in Node, tree' = [tree EXCEPT ![p] = node],
         node.state = "live", node.space # None,
         node.category # None => categories[node.category] # None,
         node.parent # None => tree[node.parent].state # "none",
         UNCHANGED <<enabled, categories>>, overtook' \in BOOLEAN, uprooted' \in BOOLEAN,
         treeCall' \in [TreeCalls -> TreeCall]
  PROVE  TreeTypeOK'
<1>1. tree \in [Pages -> Node]
  BY DEF TreeInv, TreeTypeOK
<1>2. /\ tree' \in [Pages -> Node] /\ tree'[p] = node
      /\ \A n \in Pages \ {p} : tree'[n] = tree[n]
  BY <1>1
<1>3. \A n \in Pages : tree[n].state # "none" => tree'[n].state # "none"
  BY <1>2
<1>4. node.parent \in Pages \union {None} /\ \A n \in Pages : tree[n].parent \in Pages \union {None}
  BY <1>1 DEF Node
<1>5. \A n \in Pages : tree'[n].parent # None => tree'[tree'[n].parent].state # "none"
  BY <1>2, <1>3, <1>4 DEF TreeInv, TreeTypeOK
<1> QED  BY <1>2, <1>5 DEF TreeInv, TreeTypeOK

LEMMA TreeStep ==
  ASSUME TreeInv, TreeNext
  PROVE  TreeInv'
<1>0. /\ enabled \subseteq Spaces /\ categories \in [Categories -> Spaces \union {None}]
      /\ tree \in [Pages -> Node] /\ treeCall \in [TreeCalls -> TreeCall]
      /\ overtook \in BOOLEAN /\ uprooted \in BOOLEAN
      /\ \A p \in Pages :
           /\ tree[p].state # "none" => tree[p].space # None
           /\ tree[p].category # None => categories[tree[p].category] # None
           /\ tree[p].parent # None => tree[tree[p].parent].state # "none"
           /\ tree[p].parent \in Pages \union {None}
  BY DEF TreeInv, TreeTypeOK, Node
<1>1. ASSUME NEW p \in Pages, RemovePage(p)
      PROVE  TreeInv'
  <2>1. ASSUME NEW n \in Pages
        PROVE  /\ tree'[n] \in Node /\ tree'[n].space = tree[n].space
               /\ tree'[n].category = tree[n].category
               /\ tree'[n].parent \in {tree[n].parent, None}
               /\ tree'[n].state # "none" <=> tree[n].state # "none"
    <3>1. tree[n] \in Node
      BY <1>0
    <3>2. tree'[n] = IF n = p THEN [tree[p] EXCEPT !.state = "trash"]
            ELSE IF tree[p].type = "folder" /\ n \in LiveChildren(p)
            THEN [tree[n] EXCEPT !.parent = None] ELSE tree[n]
      BY <1>1 DEF RemovePage
    <3>3. tree[p].state = "live"
      BY <1>1 DEF RemovePage
    <3> QED  BY <3>1, <3>2, <3>3 DEF Node
  <2>2. /\ tree' \in [Pages -> Node]
        /\ UNCHANGED <<enabled, categories, treeCall, overtook, uprooted>>
    BY <1>1, <2>1 DEF RemovePage
  <2>3. TreeTypeOK'
    BY <1>0, <2>1, <2>2 DEF TreeTypeOK
  <2> QED  BY <2>2, <2>3 DEF TreeInv, TreeCallInv
<1>2. ASSUME NEW p \in Pages, RestoreFromTrash(p)
      PROVE  TreeInv'
  <2>1. PICK node : node = [tree[p] EXCEPT !.state = "live"]
    OBVIOUS
  <2>2. /\ node \in Node /\ node.state = "live" /\ node.space = tree[p].space
        /\ node.category = tree[p].category /\ node.parent = tree[p].parent
    BY <1>0, <2>1 DEF Node
  <2>3. /\ tree' = [tree EXCEPT ![p] = node] /\ tree[p].state = "trash"
        /\ UNCHANGED <<enabled, categories, treeCall, overtook, uprooted>>
    BY <1>2, <2>1 DEF RestoreFromTrash
  <2>4. TreeTypeOK'
    BY <1>0, <2>2, <2>3, WriteNode
  <2> QED  BY <2>3, <2>4 DEF TreeInv, TreeCallInv
<1>3. ASSUME NEW p \in Pages, PermanentRemove(p)
      PROVE  TreeInv'
  <2>1. Absent \in Node /\ Absent.state = "none" /\ Absent.parent = None /\ Absent.category = None
    BY DEF Absent, Node
  <2>2. ASSUME NEW n \in Pages \ {p}
        PROVE  /\ tree'[n] \in Node /\ tree'[n].space = tree[n].space
               /\ tree'[n].category = tree[n].category
               /\ tree'[n].parent = IF tree[n].parent = p THEN None ELSE tree[n].parent
               /\ tree'[n].state = tree[n].state
    <3>1. tree[n] \in Node
      BY <1>0
    <3>2. tree'[n] = IF tree[n].parent = p THEN [tree[n] EXCEPT !.parent = None] ELSE tree[n]
      BY <1>3 DEF PermanentRemove, Children
    <3> QED  BY <3>1, <3>2 DEF Node
  <2>3. /\ tree' \in [Pages -> Node] /\ tree'[p] = Absent
        /\ UNCHANGED <<enabled, categories, treeCall, overtook, uprooted>>
    BY <1>3, <2>1, <2>2 DEF PermanentRemove
  <2>4. \A n \in Pages : tree'[n].parent # None => tree'[tree'[n].parent].state # "none"
    BY <1>0, <2>1, <2>2, <2>3
  <2>5. TreeTypeOK'
    BY <1>0, <2>1, <2>2, <2>3, <2>4 DEF TreeTypeOK
  <2> QED  BY <2>3, <2>5 DEF TreeInv, TreeCallInv
<1>4. ASSUME NEW c \in Categories, RemoveCategory(c)
      PROVE  TreeInv'
  <2>1. ASSUME NEW n \in Pages
        PROVE  /\ tree'[n] \in Node /\ tree'[n].space = tree[n].space
               /\ tree'[n].category = IF tree[n].category = c THEN None ELSE tree[n].category
               /\ tree'[n].parent = tree[n].parent /\ tree'[n].state = tree[n].state
    <3>1. tree[n] \in Node
      BY <1>0
    <3>2. tree'[n] = IF tree[n].category = c THEN [tree[n] EXCEPT !.category = None] ELSE tree[n]
      BY <1>4 DEF RemoveCategory, InUseBy
    <3> QED  BY <3>1, <3>2 DEF Node
  <2>2. /\ tree' \in [Pages -> Node] /\ categories' = [categories EXCEPT ![c] = None]
        /\ UNCHANGED <<enabled, treeCall, overtook, uprooted>>
    BY <1>4, <2>1 DEF RemoveCategory
  <2>3. TreeTypeOK'
    BY <1>0, <2>1, <2>2 DEF TreeTypeOK
  <2> QED  BY <2>2, <2>3 DEF TreeInv, TreeCallInv
<1>5. ASSUME NEW c \in Categories, NEW s \in Spaces, CreateCategory(c, s)
      PROVE  TreeInv'
  <2>1. s # None
    BY TreeAssumption
  <2>2. /\ categories' \in [Categories -> Spaces \union {None}]
        /\ \A d \in Categories : categories[d] # None => categories'[d] # None
        /\ UNCHANGED <<enabled, tree, treeCall, overtook, uprooted>>
    BY <1>0, <1>5, <2>1 DEF CreateCategory
  <2>3. \A p \in Pages : tree[p].category \in Categories \union {None}
    BY <1>0 DEF Node
  <2>4. TreeTypeOK'
    BY <1>0, <2>2, <2>3 DEF TreeTypeOK
  <2> QED  BY <2>2, <2>4 DEF TreeInv, TreeCallInv
<1>6. ASSUME NEW s \in Spaces, EnableWiki(s) \/ DisableWiki(s)
      PROVE  TreeInv'
  <2>1. enabled' \subseteq Spaces /\ UNCHANGED <<categories, tree, treeCall, overtook, uprooted>>
    BY <1>0, <1>6 DEF EnableWiki, DisableWiki
  <2>2. TreeTypeOK'
    BY <1>0, <2>1 DEF TreeTypeOK
  <2> QED  BY <2>1, <2>2 DEF TreeInv, TreeCallInv
<1>7. ASSUME NEW q \in TreeCalls, NEW p \in Pages, NEW input \in Inputs, CheckCreate(q, p, input)
      PROVE  TreeInv'
  <2>1. PICK space : /\ space = ResolvePageSpace(p, input, [Absent EXCEPT !.space = input.space])
                     /\ space # None
                     /\ treeCall' = [treeCall EXCEPT ![q] =
                          [pc |-> "create", id |-> p, space |-> space, input |-> input]]
                     /\ UNCHANGED <<enabled, categories, tree, overtook, uprooted>>
    BY <1>7 DEF CheckCreate
  <2>2. space \in Spaces
    BY <2>1, ResolvedSpace DEF TreeInv
  <2>3. [pc |-> "create", id |-> p, space |-> space, input |-> input] \in TreeCall
    BY <2>2 DEF TreeCall
  <2> QED  BY <2>1, <2>3, CheckedCall
<1>8. ASSUME NEW q \in TreeCalls, NEW p \in Pages, NEW input \in Inputs, CheckUpdate(q, p, input)
      PROVE  TreeInv'
  <2>1. PICK space : /\ space = SpaceForUpdate(p, input) /\ space # None
                     /\ treeCall' = [treeCall EXCEPT ![q] =
                          [pc |-> "update", id |-> p, space |-> space, input |-> input]]
                     /\ UNCHANGED <<enabled, categories, tree, overtook, uprooted>>
    BY <1>8 DEF CheckUpdate
  <2>2. tree[p].space \in Spaces \union {None}
        /\ ResolvePageSpace(p, input, tree[p]) \in Spaces \union {None}
    BY <1>0, ResolvedSpace DEF TreeInv, Node
  <2>3. space \in Spaces
    BY <2>1, <2>2 DEF SpaceForUpdate
  <2>4. [pc |-> "update", id |-> p, space |-> space, input |-> input] \in TreeCall
    BY <2>3 DEF TreeCall
  <2> QED  BY <2>1, <2>4, CheckedCall
<1>9. ASSUME NEW q \in TreeCalls, NEW c \in Categories, NEW s \in Spaces, CheckCategory(q, c, s)
      PROVE  TreeInv'
  <2>1. PICK new : new = [Quiet EXCEPT !.pc = "category", !.id = c, !.space = s]
    OBVIOUS
  <2>2. new = [pc |-> "category", id |-> c, space |-> s, input |-> NoInput]
    BY <2>1 DEF Quiet
  <2>3. NoInput \in Inputs /\ s # None
    BY TreeAssumption DEF NoInput, Inputs
  <2>4. new \in TreeCall
    BY <2>2, <2>3 DEF TreeCall
  <2>5. /\ treeCall' = [treeCall EXCEPT ![q] = new]
        /\ UNCHANGED <<enabled, categories, tree, overtook, uprooted>>
    BY <1>9, <2>1 DEF CheckCategory
  <2> QED  BY <2>2, <2>3, <2>4, <2>5, CheckedCall
<1>10. ASSUME NEW q \in TreeCalls, CreatePage(q) \/ UpdatePage(q)
       PROVE  TreeInv'
  <2>1. /\ treeCall[q].pc \in {"create", "update"} /\ Connects(q) /\ Rest(q)
        /\ tree' = [tree EXCEPT ![treeCall[q].id] = Written(q)]
        /\ UNCHANGED <<enabled, categories>>
        /\ overtook' \in BOOLEAN /\ uprooted' \in BOOLEAN
    BY <1>0, <1>10 DEF CreatePage, UpdatePage
  <2>2. /\ Written(q) \in Node /\ Written(q).state = "live" /\ Written(q).space # None
        /\ Written(q).category # None => categories[Written(q).category] # None
        /\ Written(q).parent # None => tree[Written(q).parent].state # "none"
    BY <2>1, WrittenNode
  <2>3. treeCall' \in [TreeCalls -> TreeCall] /\ TreeCallInv' /\ treeCall[q].id \in Pages
    BY <2>1, QuietCall DEF TreeInv, TreeCallInv
  <2>4. TreeTypeOK'
    BY <2>1, <2>2, <2>3, WriteNode
  <2> QED  BY <2>3, <2>4 DEF TreeInv
<1>11. ASSUME NEW q \in TreeCalls, UpdateCategory(q)
       PROVE  TreeInv'
  <2>1. PICK c, s : c = treeCall[q].id /\ s = treeCall[q].space
    OBVIOUS
  <2>2. /\ categories' = [categories EXCEPT ![c] = s] /\ Rest(q)
        /\ overtook' \in BOOLEAN /\ UNCHANGED <<enabled, tree, uprooted>>
        /\ treeCall[q].pc = "category"
    BY <1>0, <1>11, <2>1 DEF UpdateCategory
  <2>3. c \in Categories /\ s \in Spaces
    BY <1>0, <2>1, <2>2 DEF TreeInv, TreeCallInv, TreeCall
  <2>4. s # None
    BY <2>3, TreeAssumption
  <2>5. /\ categories' \in [Categories -> Spaces \union {None}]
        /\ \A d \in Categories : categories[d] # None => categories'[d] # None
    BY <1>0, <2>2, <2>3, <2>4
  <2>6. \A p \in Pages : tree[p].category \in Categories \union {None}
    BY <1>0 DEF Node
  <2>7. treeCall' \in [TreeCalls -> TreeCall] /\ TreeCallInv'
    BY <2>2, QuietCall
  <2>8. TreeTypeOK'
    BY <1>0, <2>2, <2>5, <2>6, <2>7 DEF TreeTypeOK
  <2> QED  BY <2>7, <2>8 DEF TreeInv
<1>12. ASSUME NEW q \in TreeCalls, WriteFails(q)
       PROVE  TreeInv'
  <2>1. Rest(q) /\ UNCHANGED <<enabled, categories, tree, overtook, uprooted>>
    BY <1>12 DEF WriteFails
  <2>2. treeCall' \in [TreeCalls -> TreeCall] /\ TreeCallInv'
    BY <2>1, QuietCall
  <2>3. TreeTypeOK'
    BY <1>0, <2>1, <2>2 DEF TreeTypeOK
  <2> QED  BY <2>2, <2>3 DEF TreeInv
<1> QED  BY <1>1, <1>2, <1>3, <1>4, <1>5, <1>6, <1>7, <1>8, <1>9, <1>10, <1>11, <1>12 DEF TreeNext

\* A page is in a space, its category and its folder exist, and a call in progress
\* writes into an existing space, wherever checks and writes interleave.
THEOREM TreeTypes == TreeSpec => [](TreeTypeOK /\ TreeCallInv)
<1>1. TreeInit => TreeInv
  <2> SUFFICES ASSUME TreeInit PROVE TreeInv
    OBVIOUS
  <2>1. NoInput \in Inputs
    BY DEF NoInput, Inputs
  <2>2. Quiet \in TreeCall /\ Quiet.pc = "idle"
    BY <2>1 DEF Quiet, TreeCall
  <2>3. /\ Absent \in Node /\ Absent.state = "none" /\ Absent.category = None
        /\ Absent.parent = None
    BY DEF Absent, Node
  <2>4. TreeTypeOK
    BY <2>2, <2>3 DEF TreeInit, TreeTypeOK
  <2>5. TreeCallInv
    BY <2>2 DEF TreeInit, TreeCallInv
  <2> QED  BY <2>4, <2>5 DEF TreeInv
<1>2. TreeInv /\ UNCHANGED treeVars => TreeInv'
  BY DEF TreeInv, TreeTypeOK, TreeCallInv, treeVars
<1> QED  BY <1>1, <1>2, TreeStep, PTL DEF TreeSpec, TreeInv

-----------------------------------------------------------------------------
(* Every page is found from its space *)

\* No pages have one another as parents, said without climbing: among any pages there is
\* one whose parent is not among them.
NoLoop == \A S \in SUBSET Pages : S # {} => \E p \in S : tree[p].parent \notin S

\* A page agrees with its category and with the folder right above it.
AgreesAbove(p) ==
  /\ tree[p].space \in enabled
  /\ tree[p].category # None => categories[tree[p].category] = tree[p].space
  /\ tree[p].parent # None => /\ tree[tree[p].parent].space = tree[p].space
                              /\ tree[tree[p].parent].category = tree[p].category

\* HierarchyResolves in a form that a step preserves.
PlacedInv ==
  ~overtook /\ ~uprooted =>
    NoLoop /\ \A p \in Pages : tree[p].state # "none" => AgreesAbove(p)

\* The climb of n steps.
Climbs(f, p, n) ==
  f = [k \in 0..n |-> IF k = 0 THEN p ELSE
         IF f[k - 1] = None THEN None ELSE tree[f[k - 1]].parent]

\* Every page can be climbed from: a number of steps that cannot be climbed would have a
\* least one, and one step less can be continued.
LEMMA ClimbExists ==
  ASSUME NEW p, NEW n \in Nat
  PROVE  \E f : Climbs(f, p, n)
<1> DEFINE T == {m \in Nat : ~\E f : Climbs(f, p, m)}
<1> SUFFICES T = {}
  OBVIOUS
<1> SUFFICES ASSUME T # {} PROVE FALSE
  OBVIOUS
<1>1. PICK m \in T : \A k \in T : m <= k
  <2>1. T \in SUBSET Nat
    OBVIOUS
  <2> HIDE DEF T
  <2> QED  BY <2>1, LeastNumber
<1>2. m # 0
  <2>1. Climbs([k \in 0..0 |-> p], p, 0)
    BY DEF Climbs
  <2> QED  BY <2>1, <1>1
<1>3. m - 1 \in Nat /\ m \in Nat /\ m - 1 \notin T
  <2>1. m \in Nat
    OBVIOUS
  <2> HIDE DEF T
  <2> QED  BY <1>1, <1>2, <2>1
<1>4. PICK g : Climbs(g, p, m - 1)
  BY <1>3
<1>5. PICK f : f = [k \in 0..m |-> IF k = m THEN IF g[m - 1] = None THEN None
                                                 ELSE tree[g[m - 1]].parent ELSE g[k]]
  OBVIOUS
<1>6. \A k \in 0..(m - 1) : f[k] = g[k]
  BY <1>3, <1>5
<1>7. ASSUME NEW k \in 0..m
      PROVE  f[k] = IF k = 0 THEN p ELSE IF f[k - 1] = None THEN None ELSE tree[f[k - 1]].parent
  <2>1. CASE k = 0
    <3>1. g[0] = p /\ f[0] = g[0]
      BY <1>2, <1>3, <1>4, <1>6 DEF Climbs
    <3> QED  BY <2>1, <3>1
  <2>2. CASE k # 0 /\ k # m
    <3>1. k \in 0..(m - 1) /\ k - 1 \in 0..(m - 1)
      BY <1>3, <2>2
    <3>2. g[k] = IF g[k - 1] = None THEN None ELSE tree[g[k - 1]].parent
      BY <1>4, <2>2, <3>1 DEF Climbs
    <3> QED  BY <1>6, <2>2, <3>1, <3>2
  <2>3. CASE k # 0 /\ k = m
    <3>1. m - 1 \in 0..(m - 1) /\ f[m] = IF g[m - 1] = None THEN None ELSE tree[g[m - 1]].parent
      BY <1>3, <1>5
    <3> QED  BY <1>6, <2>3, <3>1
  <2> QED  BY <2>1, <2>2, <2>3
<1>8. Climbs(f, p, m)
  <2>1. f = [k \in 0..m |-> f[k]]
    BY <1>5
  <2> QED  BY <1>7, <2>1 DEF Climbs
<1> QED  BY <1>1, <1>8

\* The steps of the climb.
LEMMA ClimbSteps ==
  ASSUME NEW p
  PROVE  /\ Cardinality(Pages) \in Nat
         /\ Climb(p)[0] = p
         /\ \A n \in 1..Cardinality(Pages) :
              Climb(p)[n] = IF Climb(p)[n - 1] = None THEN None ELSE tree[Climb(p)[n - 1]].parent
<1>1. Cardinality(Pages) \in Nat
  BY TreeAssumption, FS_CardinalityType
<1>2. PICK N \in Nat : N = Cardinality(Pages)
  BY <1>1
<1>3. Climb(p) = CHOOSE f : Climbs(f, p, N)
  BY <1>2 DEF Climb, Climbs
<1>4. Climbs(Climb(p), p, N)
  BY <1>3, ClimbExists
<1>5. PICK f : f = Climb(p)
  OBVIOUS
<1>6. f = [k \in 0..N |-> IF k = 0 THEN p ELSE
                    IF f[k - 1] = None THEN None ELSE tree[f[k - 1]].parent]
  BY <1>4, <1>5 DEF Climbs
<1>7. f[0] = p /\ \A n \in 1..N : f[n] = IF f[n - 1] = None THEN None ELSE tree[f[n - 1]].parent
  BY <1>6
<1> QED  BY <1>1, <1>2, <1>5, <1>7

\* In a tree without loops the climb ends within as many steps as there are pages, because
\* it would otherwise pass some page twice, and what lies between is a loop.
LEMMA ClimbEnds ==
  ASSUME TreeTypeOK, NoLoop, NEW p \in Pages
  PROVE  /\ ~Cyclic(p)
         /\ p \in Line(p) /\ Line(p) \subseteq Pages
         /\ \A n \in Line(p) : tree[n].parent \in Line(p) \union {None}
<1>0. PICK N \in Nat : N = Cardinality(Pages)
  BY ClimbSteps
<1>1. PICK at :
        /\ at = Climb(p) /\ at[0] = p
        /\ \A n \in 1..N : at[n] = IF at[n - 1] = None THEN None ELSE tree[at[n - 1]].parent
  BY <1>0, ClimbSteps
<1>2. /\ None \notin Pages /\ IsFiniteSet(Pages)
      /\ \A n \in Pages : tree[n].parent \in Pages \union {None}
  BY TreeAssumption DEF TreeTypeOK, Node
<1>3. ASSUME NEW n \in 0..N
      PROVE  at[n] \in Pages \union {None}
  <2> DEFINE T == {m \in 0..N : at[m] \notin Pages \union {None}}
  <2> SUFFICES ASSUME T # {} PROVE FALSE
    OBVIOUS
  <2>1. T \in SUBSET Nat
    OBVIOUS
  <2>2. PICK m \in T : \A k \in T : m <= k
    <3> HIDE DEF T
    <3> QED  BY <2>1, LeastNumber
  <2>3. m \in 1..N /\ m - 1 \in 0..N
    BY <1>1, <2>2
  <2>4. m - 1 \notin T
    <3> HIDE DEF T
    <3> QED  BY <2>2, <2>3
  <2>5. at[m - 1] \in Pages \union {None}
    BY <2>3, <2>4
  <2>6. at[m] \in Pages \union {None}
    BY <1>1, <1>2, <2>3, <2>5
  <2> QED  BY <2>2, <2>6
<1>4. ASSUME at[N] # None, NEW n \in 0..N
      PROVE  at[n] # None
  <2> SUFFICES ASSUME at[n] = None PROVE FALSE
    OBVIOUS
  <2> DEFINE T == {m \in n..N : at[m] # None}
  <2>1. T \in SUBSET Nat /\ N \in T
    BY <1>4
  <2>2. PICK m \in T : \A k \in T : m <= k
    <3> HIDE DEF T
    <3> QED  BY <2>1, LeastNumber
  <2>3. m # n /\ m \in n..N
    BY <2>2
  <2>4. m \in 1..N /\ m - 1 \in n..N
    BY <2>3
  <2>5. m - 1 \notin T
    <3> HIDE DEF T
    <3> QED  BY <2>2, <2>4
  <2>6. at[m - 1] = None
    BY <2>4, <2>5
  <2>7. at[m] = None
    BY <1>1, <2>4, <2>6
  <2> QED  BY <2>2, <2>7
<1>5. at[N] = None
  <2> SUFFICES ASSUME at[N] # None PROVE FALSE
    OBVIOUS
  <2>1. \A n \in 0..N : at[n] \in Pages /\ at[n] # None
    BY <1>3, <1>4
  <2>2. PICK f : f = [n \in 0..N |-> at[n]]
    OBVIOUS
  <2>3. f \in [0..N -> Pages] /\ \A n \in 0..N : f[n] = at[n]
    BY <2>1, <2>2
  <2>4. IsFiniteSet(0..N) /\ Cardinality(0..N) = N + 1
    BY FS_Interval
  <2>5. \E x, y \in 0..N : x # y /\ f[x] = f[y]
    <3>1. Cardinality(Pages) < Cardinality(0..N)
      BY <1>0, <1>1, <2>4
    <3>2. PICK D : D = 0..N
      OBVIOUS
    <3>3. f \in [D -> Pages] /\ IsFiniteSet(D) /\ Cardinality(Pages) < Cardinality(D)
      BY <2>3, <2>4, <3>1, <3>2
    <3>4. \E x, y \in D : x # y /\ f[x] = f[y]
      BY <1>2, <3>3, FS_PigeonHole
    <3> QED  BY <3>2, <3>4
  <2>6. PICK i \in 0..N, j \in 0..N : i < j /\ at[i] = at[j]
    BY <2>3, <2>5
  <2> DEFINE S == {at[n] : n \in i..j}
  <2>7. S \in SUBSET Pages /\ S # {}
    BY <2>1, <2>6
  <2>8. ASSUME NEW q \in S
        PROVE  tree[q].parent \in S
    <3>1. PICK n \in i..j : q = at[n]
      OBVIOUS
    <3>2. CASE n < j
      <4>1. n + 1 \in i..j /\ n + 1 \in 1..N /\ n \in 0..N /\ (n + 1) - 1 = n
        BY <2>6, <3>1, <3>2
      <4>2. at[n + 1] = tree[at[n]].parent
        BY <1>1, <2>1, <4>1
      <4> QED  BY <3>1, <4>1, <4>2
    <3>3. CASE n = j
      <4>1. i + 1 \in i..j /\ i + 1 \in 1..N
        BY <2>6
      <4>2. at[i + 1] = tree[at[i]].parent
        BY <1>1, <2>1, <4>1
      <4> QED  BY <2>6, <3>1, <3>3, <4>1, <4>2
    <3> QED  BY <2>6, <3>1, <3>2, <3>3
  <2> HIDE DEF S
  <2> QED  BY <2>7, <2>8 DEF NoLoop
<1>6. Line(p) = {at[n] : n \in 0..N} \ {None}
  BY <1>0, <1>1 DEF Line
<1>7. ASSUME NEW q \in Line(p)
      PROVE  tree[q].parent \in Line(p) \union {None}
  <2>1. PICK n \in 0..N : q = at[n] /\ q # None
    BY <1>6
  <2>2. n + 1 \in 1..N /\ n + 1 \in 0..N
    BY <1>5, <2>1
  <2>3. at[n + 1] = tree[q].parent
    BY <1>1, <2>1, <2>2
  <2> QED  BY <1>6, <2>2, <2>3
<1>8. p \in Line(p) /\ Line(p) \subseteq Pages
  BY <1>1, <1>2, <1>3, <1>6
<1> QED  BY <1>0, <1>1, <1>5, <1>7, <1>8 DEF Cyclic

\* Where every page agrees with the folder above it, it agrees with all of its line.
LEMMA LineAgrees ==
  ASSUME TreeTypeOK, \A n \in Pages : tree[n].state # "none" => AgreesAbove(n),
         NEW p \in Pages, tree[p].state # "none", NEW q \in Line(p)
  PROVE  tree[q].space = tree[p].space /\ tree[q].category = tree[p].category
<1>0. PICK N \in Nat : N = Cardinality(Pages)
  BY ClimbSteps
<1>1. PICK at :
        /\ at = Climb(p) /\ at[0] = p
        /\ \A n \in 1..N : at[n] = IF at[n - 1] = None THEN None ELSE tree[at[n - 1]].parent
  BY <1>0, ClimbSteps
<1>2. /\ None \notin Pages
      /\ \A n \in Pages : /\ tree[n].parent \in Pages \union {None}
                          /\ tree[n].parent # None => tree[tree[n].parent].state # "none"
  BY TreeAssumption DEF TreeTypeOK, Node
<1> DEFINE Alike(n) == /\ n \in Pages /\ tree[n].state # "none"
                       /\ tree[n].space = tree[p].space /\ tree[n].category = tree[p].category
           T == {m \in 0..N : at[m] # None /\ ~Alike(at[m])}
<1>3. PICK n \in 0..N : q = at[n] /\ q # None
  BY <1>0, <1>1 DEF Line
<1> SUFFICES ASSUME T # {} PROVE FALSE
  BY <1>3
<1>4. T \in SUBSET Nat
  OBVIOUS
<1>5. PICK m \in T : \A k \in T : m <= k
  <2> HIDE DEF T
  <2> QED  BY <1>4, LeastNumber
<1>6. m # 0
  BY <1>1, <1>5
<1>7. m \in 1..N /\ m - 1 \in 0..N
  BY <1>5, <1>6
<1>8. m - 1 \notin T
  <2> HIDE DEF T
  <2> QED  BY <1>5, <1>7
<1>9. at[m] # None /\ at[m] = IF at[m - 1] = None THEN None ELSE tree[at[m - 1]].parent
  BY <1>1, <1>5, <1>7
<1>10. at[m - 1] # None /\ Alike(at[m - 1]) /\ at[m] = tree[at[m - 1]].parent
  BY <1>7, <1>8, <1>9
<1>11. Alike(at[m])
  BY <1>2, <1>9, <1>10 DEF AgreesAbove
<1> QED  BY <1>5, <1>11

\* PlacedInv is what HierarchyResolves asks for.
LEMMA PlacedResolves ==
  ASSUME TreeTypeOK, PlacedInv
  PROVE  HierarchyResolves
<1> SUFFICES ASSUME ~overtook, ~uprooted, NEW p \in Pages, tree[p].state # "none"
             PROVE  Resolves(p) /\ tree[p].space \in enabled
  BY DEF HierarchyResolves
<1>1. NoLoop /\ \A n \in Pages : tree[n].state # "none" => AgreesAbove(n)
  BY DEF PlacedInv
<1>2. ~Cyclic(p)
  BY <1>1, ClimbEnds
<1>3. \A q \in Line(p) : tree[q].space = tree[p].space /\ tree[q].category = tree[p].category
  BY <1>1, LineAgrees
<1>4. AgreesAbove(p)
  BY <1>1
<1> QED  BY <1>2, <1>3, <1>4 DEF Resolves, AgreesAbove

\* Pages that lose their parent make no loop.
LEMMA FewerParents ==
  ASSUME NoLoop, \A n \in Pages : tree'[n].parent \in {tree[n].parent, None}
  PROVE  NoLoop'
<1>1. None \notin Pages
  BY TreeAssumption
<1> SUFFICES ASSUME NEW S \in SUBSET Pages, S # {}
             PROVE  \E p \in S : tree'[p].parent \notin S
  BY DEF NoLoop
<1>2. PICK p \in S : tree[p].parent \notin S
  BY DEF NoLoop
<1> QED  BY <1>1, <1>2

\* Nor does a page that moves below one whose line L it is not part of: a loop through
\* the new parent would leave L only at the top.
LEMMA NoNewLoop ==
  ASSUME NoLoop, NEW p \in Pages, NEW L \in SUBSET Pages, p \notin L,
         \A n \in L : tree[n].parent \in L \union {None},
         \A n \in Pages \ {p} : tree'[n].parent = tree[n].parent,
         tree'[p].parent \in L \union {None}
  PROVE  NoLoop'
<1>1. None \notin Pages
  BY TreeAssumption
<1> SUFFICES ASSUME NEW S \in SUBSET Pages, S # {}, \A n \in S : tree'[n].parent \in S
             PROVE  FALSE
  BY DEF NoLoop
<1>2. CASE p \notin S
  <2>1. \A n \in S : tree[n].parent \in S
    BY <1>2
  <2> QED  BY <2>1 DEF NoLoop
<1>3. CASE p \in S
  <2>1. tree'[p].parent \in S \intersect L
    BY <1>1, <1>3
  <2>2. ASSUME NEW n \in S \intersect L
        PROVE  tree[n].parent \in S \intersect L
    BY <1>1
  <2>3. PICK M : M = S \intersect L
    OBVIOUS
  <2>4. M \in SUBSET Pages /\ M # {} /\ \A n \in M : tree[n].parent \in M
    BY <2>1, <2>2, <2>3
  <2> QED  BY <2>4 DEF NoLoop
<1> QED  BY <1>2, <1>3

\* What a step may do to the pages that stay in their place.
LEMMA PlaceKept ==
  ASSUME TreeTypeOK, TreeTypeOK', NoLoop,
         \A n \in Pages : tree[n].state # "none" => AgreesAbove(n),
         \A n \in Pages : tree'[n].parent \in {tree[n].parent, None},
         \A n \in Pages : tree'[n].state # "none" =>
           /\ tree[n].state # "none"
           /\ tree'[n].space = tree[n].space /\ tree'[n].category = tree[n].category
           /\ tree[n].space \in enabled'
           /\ tree[n].category # None =>
                categories'[tree[n].category] = categories[tree[n].category]
  PROVE  PlacedInv'
<1>1. NoLoop'
  BY FewerParents
<1>2. ASSUME NEW n \in Pages, tree'[n].state # "none"
      PROVE  AgreesAbove(n)'
  <2>1. AgreesAbove(n)
    BY <1>2
  <2>2. /\ tree'[n].space \in enabled'
        /\ tree'[n].category # None => categories'[tree'[n].category] = tree'[n].space
    BY <1>2, <2>1 DEF AgreesAbove
  <2>3. ASSUME tree'[n].parent # None
        PROVE  /\ tree'[tree'[n].parent].space = tree'[n].space
               /\ tree'[tree'[n].parent].category = tree'[n].category
    <3>1. tree'[n].parent = tree[n].parent
      BY <2>3
    <3>2. PICK m : m = tree[n].parent
      OBVIOUS
    <3>3. tree'[m].state # "none" /\ m \in Pages
      BY <2>3, <3>1, <3>2 DEF TreeTypeOK, Node
    <3>4. tree[m].space = tree[n].space /\ tree[m].category = tree[n].category
      BY <2>1, <2>3, <3>1, <3>2 DEF AgreesAbove
    <3> QED  BY <1>2, <3>1, <3>2, <3>3, <3>4
  <2> QED  BY <2>2, <2>3 DEF AgreesAbove
<1> QED  BY <1>1, <1>2 DEF PlacedInv

\* A page that is written agrees with what is above it, and its children, if there are
\* any, with it.
LEMMA PlaceWritten ==
  ASSUME TreeTypeOK, NoLoop',
         \A n \in Pages : tree[n].state # "none" => AgreesAbove(n),
         NEW p \in Pages, NEW node \in Node, tree' = [tree EXCEPT ![p] = node],
         UNCHANGED <<enabled, categories>>,
         node.space \in enabled,
         node.category # None => categories[node.category] = node.space,
         node.parent # None => /\ node.parent # p
                               /\ tree[node.parent].space = node.space
                               /\ tree[node.parent].category = node.category,
         \/ Children(p) = {}
         \/ node.space = tree[p].space /\ node.category = tree[p].category
  PROVE  PlacedInv'
<1>1. /\ tree'[p] = node /\ \A n \in Pages \ {p} : tree'[n] = tree[n]
      /\ node.parent \in Pages \union {None}
      /\ \A n \in Pages : tree[n].parent \in Pages \union {None}
  BY DEF TreeTypeOK, Node
<1>2. AgreesAbove(p)'
  BY <1>1 DEF AgreesAbove
<1>3. ASSUME NEW n \in Pages \ {p}, tree'[n].state # "none"
      PROVE  AgreesAbove(n)'
  <2>1. tree'[n] = tree[n] /\ AgreesAbove(n)
    BY <1>1, <1>3
  <2>2. CASE tree[n].parent = p
    <3>1. node.space = tree[p].space /\ node.category = tree[p].category
      BY <2>2 DEF Children
    <3> QED  BY <1>1, <2>1, <2>2, <3>1 DEF AgreesAbove
  <2>3. CASE tree[n].parent # p
    BY <1>1, <2>1, <2>3 DEF AgreesAbove
  <2> QED  BY <2>2, <2>3
<1> QED  BY <1>2, <1>3 DEF PlacedInv

\* What the check of update means at the moment of the write.
LEMMA UpdateAgrees ==
  ASSUME TreeInv, NEW q \in TreeCalls, treeCall[q].pc = "update", NEW p, p = treeCall[q].id,
         SpaceForUpdate(p, treeCall[q].input) = treeCall[q].space
  PROVE  \/ Agree(p, Written(q).space, Written(q).category, Written(q).parent)
         \/ /\ Written(q).space = tree[p].space /\ Written(q).category = tree[p].category
            /\ Written(q).parent = tree[p].parent
<1>1. PICK input, space : input = treeCall[q].input /\ space = treeCall[q].space
  OBVIOUS
<1>2. space # None
  BY <1>1 DEF TreeInv, TreeCallInv
<1>3. /\ Written(q).space = space
      /\ Written(q).category = Given(input.category, tree[p].category)
      /\ Written(q).parent = Given(input.parent, tree[p].parent)
  BY <1>1 DEF Written
<1>4. CASE {input.space, input.category, input.parent} = {Same}
  <2>1. input.category = Same /\ input.parent = Same
    BY <1>4
  <2>2. space = tree[p].space
    BY <1>1, <1>4 DEF SpaceForUpdate
  <2> QED  BY <1>3, <2>1, <2>2 DEF Given
<1>5. CASE {input.space, input.category, input.parent} # {Same}
  <2>1. space = ResolvePageSpace(p, input, tree[p])
    BY <1>1, <1>2, <1>5 DEF SpaceForUpdate
  <2>2. Agree(p, space, Given(input.category, tree[p].category),
              Given(input.parent, tree[p].parent))
    BY <1>2, <2>1 DEF ResolvePageSpace
  <2> QED  BY <1>3, <2>2
<1> QED  BY <1>4, <1>5

LEMMA PlacedStep ==
  ASSUME TreeInv, PlacedInv, TreeNext
  PROVE  PlacedInv'
<1> SUFFICES ASSUME ~overtook', ~uprooted' PROVE PlacedInv'
  BY DEF PlacedInv
<1>0. TreeTypeOK /\ TreeTypeOK' /\ TreeCallInv
  BY TreeStep DEF TreeInv
<1>1. /\ enabled \subseteq Spaces /\ categories \in [Categories -> Spaces \union {None}]
      /\ tree \in [Pages -> Node] /\ None \notin Pages /\ None \notin Spaces
      /\ \A p \in Pages :
           /\ tree[p] \in Node /\ tree[p].parent \in Pages \union {None}
           /\ tree[p].category \in Categories \union {None}
           /\ tree[p].category # None => categories[tree[p].category] # None
           /\ tree[p].parent # None => tree[tree[p].parent].state # "none"
  BY <1>0, TreeAssumption DEF TreeTypeOK, Node
<1>2. ~overtook /\ ~uprooted
  <2>0. ASSUME NEW q \in TreeCalls, CreatePage(q)
        PROVE  ~overtook /\ ~uprooted
    BY <2>0 DEF CreatePage
  <2>1. ASSUME NEW q \in TreeCalls, UpdateCategory(q)
        PROVE  ~overtook /\ ~uprooted
    BY <2>1 DEF UpdateCategory
  <2>2. ASSUME NEW q \in TreeCalls, UpdatePage(q)
        PROVE  ~overtook /\ ~uprooted
    BY <2>2, ZenonT(30) DEF UpdatePage
  <2>3. CASE UNCHANGED <<overtook, uprooted>>
    BY <2>3
  <2> QED
    BY <2>0, <2>1, <2>2, <2>3
    DEF TreeNext, RemovePage, RestoreFromTrash, PermanentRemove, RemoveCategory, CreateCategory,
        EnableWiki, DisableWiki, CheckCreate, CheckUpdate, CheckCategory, WriteFails
<1>3. NoLoop /\ \A n \in Pages : tree[n].state # "none" => AgreesAbove(n)
  BY <1>2 DEF PlacedInv
<1>4. \A n \in Pages : tree[n].state # "none" => tree[n].space \in enabled
  BY <1>3 DEF AgreesAbove
<1>5. ASSUME NEW p \in Pages, RemovePage(p) \/ RestoreFromTrash(p) \/ PermanentRemove(p)
      PROVE  PlacedInv'
  <2>1. ASSUME NEW n \in Pages
        PROVE  /\ tree'[n].parent \in {tree[n].parent, None}
               /\ tree'[n].state # "none" => /\ tree[n].state # "none"
                                             /\ tree'[n].space = tree[n].space
                                             /\ tree'[n].category = tree[n].category
    <3>1. tree[n] \in Node /\ tree[p] \in Node
      BY <1>1
    <3>2. CASE RemovePage(p)
      BY <3>1, <3>2 DEF RemovePage, Node
    <3>3. CASE RestoreFromTrash(p)
      BY <1>1, <3>1, <3>3 DEF RestoreFromTrash, Node
    <3>4. CASE PermanentRemove(p)
      BY <3>1, <3>4 DEF PermanentRemove, Absent, Node
    <3> QED  BY <1>5, <3>2, <3>3, <3>4
  <2>2. UNCHANGED <<enabled, categories>>
    BY <1>5 DEF RemovePage, RestoreFromTrash, PermanentRemove
  <2> QED  BY <1>0, <1>3, <1>4, <2>1, <2>2, PlaceKept
<1>6. ASSUME NEW c \in Categories, RemoveCategory(c)
      PROVE  PlacedInv'
  <2>1. ASSUME NEW n \in Pages
        PROVE  /\ tree'[n].parent = tree[n].parent /\ tree'[n].state = tree[n].state
               /\ tree'[n].space = tree[n].space
               /\ tree'[n].category = IF tree[n].category = c THEN None ELSE tree[n].category
    <3>1. tree'[n] = IF tree[n].category = c THEN [tree[n] EXCEPT !.category = None] ELSE tree[n]
      BY <1>6 DEF RemoveCategory, InUseBy
    <3> QED  BY <1>1, <3>1 DEF Node
  <2>2. categories' = [categories EXCEPT ![c] = None] /\ enabled' = enabled
    BY <1>6 DEF RemoveCategory
  <2>3. NoLoop'
    BY <1>3, <2>1, FewerParents
  <2>4. ASSUME NEW n \in Pages, tree'[n].state # "none"
        PROVE  AgreesAbove(n)'
    <3>1. AgreesAbove(n)
      BY <1>3, <2>1, <2>4
    <3>2. /\ tree'[n].space \in enabled'
          /\ tree'[n].category # None => categories'[tree'[n].category] = tree'[n].space
      BY <1>1, <2>1, <2>2, <3>1 DEF AgreesAbove
    <3>3. tree'[n].parent # None => /\ tree'[tree'[n].parent].space = tree'[n].space
                                    /\ tree'[tree'[n].parent].category = tree'[n].category
      BY <1>1, <2>1, <3>1 DEF AgreesAbove
    <3> QED  BY <3>2, <3>3 DEF AgreesAbove
  <2> QED  BY <2>3, <2>4 DEF PlacedInv
<1>7. ASSUME NEW c \in Categories, NEW s \in Spaces, CreateCategory(c, s)
      PROVE  PlacedInv'
  <2>1. /\ categories' = [categories EXCEPT ![c] = s] /\ categories[c] = None
        /\ UNCHANGED <<enabled, tree>>
    BY <1>7 DEF CreateCategory
  <2>2. \A n \in Pages : tree[n].category # None =>
          categories'[tree[n].category] = categories[tree[n].category]
    BY <1>1, <2>1
  <2> QED  BY <1>0, <1>3, <1>4, <2>1, <2>2, PlaceKept
<1>8. ASSUME NEW s \in Spaces, EnableWiki(s) \/ DisableWiki(s)
      PROVE  PlacedInv'
  <2>1. UNCHANGED <<categories, tree>>
    BY <1>8 DEF EnableWiki, DisableWiki
  <2>2. \A n \in Pages : tree[n].state # "none" => tree[n].space \in enabled'
    BY <1>4, <1>8 DEF EnableWiki, DisableWiki, PagesIn
  <2> QED  BY <1>0, <1>3, <2>1, <2>2, PlaceKept
<1>9. CASE UNCHANGED <<enabled, categories, tree>>
  BY <1>0, <1>3, <1>4, <1>9, PlaceKept
<1>10. ASSUME NEW q \in TreeCalls, UpdateCategory(q)
       PROVE  PlacedInv'
  <2>1. PICK c : c = treeCall[q].id
    OBVIOUS
  <2>2. /\ categories' = [categories EXCEPT ![c] = treeCall[q].space] /\ InUseBy(c) = {}
        /\ UNCHANGED <<enabled, tree>>
    BY <1>10, <2>1 DEF UpdateCategory
  <2>3. \A n \in Pages : tree[n].category # None =>
          categories'[tree[n].category] = categories[tree[n].category]
    BY <1>1, <2>2 DEF InUseBy
  <2> QED  BY <1>0, <1>3, <1>4, <2>2, <2>3, PlaceKept
<1>11. ASSUME NEW q \in TreeCalls, CreatePage(q) \/ UpdatePage(q)
       PROVE  PlacedInv'
  <2>1. PICK p, node : p = treeCall[q].id /\ node = Written(q)
    OBVIOUS
  <2>2. /\ treeCall[q].pc \in {"create", "update"} /\ Connects(q)
        /\ tree' = [tree EXCEPT ![p] = node] /\ UNCHANGED <<enabled, categories>>
    BY <1>11, <2>1 DEF CreatePage, UpdatePage
  <2>3. p \in Pages /\ node \in Node
    BY <1>0, <2>1, <2>2, WrittenNode DEF TreeCallInv
  <2>4. /\ node.parent \in Pages \union {None} /\ tree'[p] = node
        /\ \A n \in Pages \ {p} : tree'[n] = tree[n]
    BY <1>1, <2>2, <2>3 DEF Node
  <2>5. CASE CreatePage(q)
    <3>1. Agree(p, node.space, node.category, node.parent) /\ tree[p].state = "none"
      BY <2>1, <2>5 DEF CreatePage, Written
    <3>2. Children(p) = {}
      BY <1>1, <2>3, <3>1 DEF Children
    <3>3. NoLoop'
      <4>1. PICK L : L = Pages \ {p}
        OBVIOUS
      <4>2. /\ L \in SUBSET Pages /\ p \notin L
            /\ \A n \in L : tree[n].parent \in L \union {None}
        BY <1>1, <3>2, <4>1 DEF Children
      <4>3. /\ \A n \in Pages \ {p} : tree'[n].parent = tree[n].parent
            /\ tree'[p].parent \in L \union {None}
        BY <2>4, <3>1, <4>1 DEF Agree
      <4> QED  BY <1>3, <2>3, <4>2, <4>3, NoNewLoop
    <3> QED  BY <1>0, <1>3, <2>2, <2>3, <3>1, <3>2, <3>3, PlaceWritten DEF Agree
  <2>6. CASE UpdatePage(q)
    <3>1. /\ SpaceForUpdate(p, treeCall[q].input) = treeCall[q].space
          /\ treeCall[q].pc = "update" /\ tree[p].state = "live"
          /\ node.parent # None => p \notin Line(node.parent)
          /\ \/ Children(p) = {}
             \/ node.space = tree[p].space /\ node.category = tree[p].category
      BY <2>1, <2>6 DEF UpdatePage
    <3>2. \/ Agree(p, node.space, node.category, node.parent)
          \/ /\ node.space = tree[p].space /\ node.category = tree[p].category
             /\ node.parent = tree[p].parent
      BY <2>1, <3>1, UpdateAgrees
    <3>3. tree[p].parent # p
      <4>1. {p} \in SUBSET Pages /\ {p} # {}
        BY <2>3
      <4> QED  BY <1>3, <4>1 DEF NoLoop
    <3>4. NoLoop'
      <4>1. CASE node.parent = None
        <5>1. \A n \in Pages : tree'[n].parent \in {tree[n].parent, None}
          BY <2>4, <4>1
        <5> QED  BY <1>3, <5>1, FewerParents
      <4>2. CASE node.parent # None
        <5>1. PICK L : L = Line(node.parent)
          OBVIOUS
        <5>2. /\ L \in SUBSET Pages /\ node.parent \in L /\ p \notin L
              /\ \A n \in L : tree[n].parent \in L \union {None}
          BY <1>0, <1>3, <2>4, <3>1, <4>2, <5>1, ClimbEnds
        <5>3. /\ \A n \in Pages \ {p} : tree'[n].parent = tree[n].parent
              /\ tree'[p].parent \in L \union {None}
          BY <2>4, <5>2
        <5> QED  BY <1>3, <2>3, <5>2, <5>3, NoNewLoop
      <4> QED  BY <4>1, <4>2
    <3>5. AgreesAbove(p)
      BY <1>3, <2>3, <3>1
    <3>6. /\ node.space \in enabled
          /\ node.category # None => categories[node.category] = node.space
          /\ node.parent # None => /\ node.parent # p
                                   /\ tree[node.parent].space = node.space
                                   /\ tree[node.parent].category = node.category
      BY <3>2, <3>3, <3>5 DEF Agree, AgreesAbove
    <3> QED  BY <1>0, <1>3, <2>2, <2>3, <3>1, <3>4, <3>6, PlaceWritten
  <2> QED  BY <1>11, <2>5, <2>6
<1> QED
  BY <1>5, <1>6, <1>7, <1>8, <1>9, <1>10, <1>11
  DEF TreeNext, CheckCreate, CheckUpdate, CheckCategory, WriteFails

\* The access check finds its way from every page to its space, for any pages, categories
\* and spaces and however checks and writes interleave: the climb ends, and folder,
\* category and space agree all the way, with the two exceptions that the property names.
THEOREM PagesResolve == TreeSpec => []HierarchyResolves
<1>1. TreeInit => PlacedInv
  <2> SUFFICES ASSUME TreeInit PROVE PlacedInv
    OBVIOUS
  <2>1. \A p \in Pages : tree[p].parent = None /\ tree[p].state = "none"
    BY DEF TreeInit, Absent
  <2>2. NoLoop
    BY <2>1, TreeAssumption DEF NoLoop
  <2> QED  BY <2>1, <2>2 DEF PlacedInv
<1>2. TreeInv /\ PlacedInv /\ [TreeNext]_treeVars => PlacedInv'
  <2>1. PlacedInv /\ UNCHANGED treeVars => PlacedInv'
    BY DEF PlacedInv, NoLoop, AgreesAbove, treeVars
  <2> QED  BY <2>1, PlacedStep
<1>3. TreeTypeOK /\ PlacedInv => HierarchyResolves
  BY PlacedResolves
<1> QED  BY <1>1, <1>2, <1>3, TreeTypes, PTL DEF TreeSpec, TreeInv

-----------------------------------------------------------------------------
(* Access *)

LEMMA AccessBegins == AccessInit => AccessTypeOK
BY DEF AccessInit, AccessTypeOK, NoUpdate

\* A rule that is added has a key that no rule has.
LEMMA AccessStep ==
  ASSUME AccessTypeOK, AccessNext
  PROVE  AccessTypeOK'
<1> DEFINE R == [target : Targets, recipient : Users \union AclGroups,
                 effect : Effects, inherit : BOOLEAN]
<1>0. /\ rules \subseteq R /\ boundaries \subseteq Targets
      /\ \A r, s \in rules : r.target = s.target /\ r.recipient = s.recipient => r = s
      /\ members \in [AclGroups -> SUBSET Users] /\ visibility \in {"open", "restricted"}
      /\ update \in [by : Users \union {"nobody"}, to : {"open", "restricted"},
                     found : {"open", "restricted"}]
  BY DEF AccessTypeOK, Targets
<1>1. CASE \E t \in Targets : SetBoundary(t) \/ RemoveBoundary(t)
  BY <1>0, <1>1 DEF SetBoundary, RemoveBoundary, AccessTypeOK, Targets
<1>2. ASSUME NEW t \in Targets, NEW who \in Users \union AclGroups, NEW effect \in Effects,
             NEW inherit \in BOOLEAN
      PROVE  /\ Rule(t, who, effect, inherit) \in R
             /\ Rule(t, who, effect, inherit).target = t
             /\ Rule(t, who, effect, inherit).recipient = who
  BY DEF Rule
<1>3. ASSUME NEW t \in Targets, NEW who \in Users \union AclGroups, NEW effect \in Effects,
             NEW inherit \in BOOLEAN, CreateRule(t, who, effect, inherit)
      PROVE  AccessTypeOK'
  <2>1. PICK r : r = Rule(t, who, effect, inherit)
    OBVIOUS
  <2>2. r \in R /\ r.target = t /\ r.recipient = who
    BY <1>2, <2>1
  <2>3. /\ rules' = rules \union {r} /\ UNCHANGED <<boundaries, members, visibility, update>>
        /\ \A s \in rules : ~(s.target = t /\ s.recipient = who)
    BY <1>3, <2>1 DEF CreateRule
  <2>4. /\ rules' \subseteq R
        /\ \A s, v \in rules' : s.target = v.target /\ s.recipient = v.recipient => s = v
    BY <1>0, <2>2, <2>3
  <2> QED  BY <1>0, <2>3, <2>4 DEF AccessTypeOK, Targets
<1>4. ASSUME NEW r \in rules, NEW effect \in Effects, NEW inherit \in BOOLEAN,
             UpdateRule(r, effect, inherit)
      PROVE  AccessTypeOK'
  <2>1. PICK n : n = Rule(r.target, r.recipient, effect, inherit)
    OBVIOUS
  <2>2. r.target \in Targets /\ r.recipient \in Users \union AclGroups
    BY <1>0
  <2>3. n \in R /\ n.target = r.target /\ n.recipient = r.recipient
    BY <1>2, <2>1, <2>2
  <2>4. rules' = (rules \ {r}) \union {n} /\ UNCHANGED <<boundaries, members, visibility, update>>
    BY <1>4, <2>1 DEF UpdateRule
  <2>5. /\ rules' \subseteq R
        /\ \A s, v \in rules' : s.target = v.target /\ s.recipient = v.recipient => s = v
    BY <1>0, <2>3, <2>4
  <2> QED  BY <1>0, <2>4, <2>5 DEF AccessTypeOK, Targets
<1>5. CASE \E r \in rules : RemoveRule(r)
  BY <1>0, <1>5 DEF RemoveRule, AccessTypeOK, Targets
<1>6. ASSUME NEW g \in AclGroups, NEW u \in Users, ChangeMembers(g, u)
      PROVE  AccessTypeOK'
  <2>1. members' \in [AclGroups -> SUBSET Users]
    BY <1>0, <1>6 DEF ChangeMembers
  <2> QED  BY <1>0, <1>6, <2>1 DEF ChangeMembers, AccessTypeOK, Targets
<1>7. ASSUME NEW u \in Users, WriteSpaceUpdate(u)
      PROVE  AccessTypeOK'
  <2>1. PICK r : r = Rule(Space, u, "allow", TRUE)
    OBVIOUS
  <2>2. r \in R /\ r.target = Space /\ r.recipient = u
    <3>1. Space \in Targets
      BY AccessAssumption DEF Space, Targets, SpaceIndex
    <3>2. "allow" \in Effects /\ TRUE \in BOOLEAN /\ u \in Users \union AclGroups
      BY DEF Effects
    <3>3. r = [target |-> Space, recipient |-> u, effect |-> "allow", inherit |-> TRUE]
      BY <2>1 DEF Rule
    <3> QED  BY <3>1, <3>2, <3>3
  <2>3. /\ \/ rules' = rules
           \/ rules' = rules \union {r} /\ \A s \in rules : ~(s.target = Space /\ s.recipient = u)
        /\ visibility' = update.to /\ update' = NoUpdate /\ UNCHANGED <<boundaries, members>>
    BY <1>7, <2>1 DEF WriteSpaceUpdate, OwnerRules
  <2>4. /\ rules' \subseteq R
        /\ \A s, v \in rules' : s.target = v.target /\ s.recipient = v.recipient => s = v
    BY <1>0, <2>2, <2>3
  <2>5. update' \in [by : Users \union {"nobody"}, to : {"open", "restricted"},
                     found : {"open", "restricted"}]
    BY <2>3 DEF NoUpdate
  <2>6. visibility' \in {"open", "restricted"}
    BY <1>0, <2>3
  <2> QED  BY <1>0, <2>3, <2>4, <2>5, <2>6 DEF AccessTypeOK, Targets
<1>8. ASSUME NEW u \in Users, NEW to \in {"open", "restricted"}, CheckSpaceUpdate(u, to)
      PROVE  AccessTypeOK'
  <2>1. /\ update' = [by |-> u, to |-> to, found |-> visibility]
        /\ UNCHANGED <<rules, boundaries, members, visibility>>
    BY <1>8 DEF CheckSpaceUpdate
  <2> QED  BY <1>0, <2>1 DEF AccessTypeOK, Targets
<1>9. CASE \E to \in {"open", "restricted"} : ForeignSpaceUpdate(to)
  BY <1>0, <1>9 DEF ForeignSpaceUpdate, AccessTypeOK, Targets
<1> QED  BY <1>1, <1>3, <1>4, <1>5, <1>6, <1>7, <1>8, <1>9 DEF AccessNext

\* The target at n is the one that decides about the user's access to the one at i.
Nearest(u, i, n) ==
  /\ n \in i..SpaceIndex /\ Decides(u, i, n)
  /\ \A k \in i..SpaceIndex : Decides(u, i, k) => n <= k

\* What evaluate answers: by the rules of the nearest target that decides, and if there
\* are none by the visibility.
AnswerOfNearest ==
  \A u \in Users, i \in 1..SpaceIndex :
    /\ (\A n \in i..SpaceIndex : ~Decides(u, i, n)) => (Allowed(u, i) <=> visibility = "open")
    /\ (\E n \in i..SpaceIndex : Decides(u, i, n)) => \E n \in i..SpaceIndex : Nearest(u, i, n)
    /\ \A n \in i..SpaceIndex : Nearest(u, i, n) =>
         (Allowed(u, i) <=> IF Applicable(u, i, n) # {} THEN RulesAllow(u, Applicable(u, i, n))
                            ELSE visibility = "open")

LEMMA NearestAnswers == AnswerOfNearest
<1> SUFFICES ASSUME NEW u \in Users, NEW i \in 1..SpaceIndex
             PROVE  /\ (\A n \in i..SpaceIndex : ~Decides(u, i, n)) =>
                         (Allowed(u, i) <=> visibility = "open")
                    /\ (\E n \in i..SpaceIndex : Decides(u, i, n)) =>
                         \E n \in i..SpaceIndex : Nearest(u, i, n)
                    /\ \A n \in i..SpaceIndex : Nearest(u, i, n) =>
                         (Allowed(u, i) <=> IF Applicable(u, i, n) # {}
                                            THEN RulesAllow(u, Applicable(u, i, n))
                                            ELSE visibility = "open")
  BY DEF AnswerOfNearest
<1> DEFINE deciding == {j \in i..SpaceIndex : Decides(u, i, j)}
           nearest  == CHOOSE j \in deciding : \A k \in deciding : j <= k
<1>1. SpaceIndex \in Nat /\ i \in Nat /\ i..SpaceIndex \subseteq Nat
  BY AccessAssumption DEF SpaceIndex
<1>2. Allowed(u, i) <=> IF deciding # {} /\ Applicable(u, i, nearest) # {}
                        THEN RulesAllow(u, Applicable(u, i, nearest)) ELSE visibility = "open"
  BY DEF Allowed
<1>3. ASSUME NEW n \in i..SpaceIndex, Nearest(u, i, n)
      PROVE  deciding # {} /\ nearest = n
  <2>1. n \in deciding /\ \A k \in deciding : n <= k
    BY <1>3 DEF Nearest
  <2>2. nearest \in deciding /\ \A k \in deciding : nearest <= k
    BY <2>1
  <2>3. nearest <= n /\ n <= nearest
    BY <2>1, <2>2
  <2>4. nearest \in Nat /\ n \in Nat
    BY <1>1, <2>2
  <2> HIDE DEF nearest, deciding
  <2> QED  BY <2>1, <2>3, <2>4
<1>4. ASSUME NEW m \in i..SpaceIndex, Decides(u, i, m)
      PROVE  \E n \in i..SpaceIndex : Nearest(u, i, n)
  <2>1. deciding \in SUBSET Nat /\ deciding # {}
    BY <1>1, <1>4
  <2> HIDE DEF deciding
  <2>2. PICK n \in deciding : \A k \in deciding : n <= k
    BY <2>1, LeastNumber
  <2> USE DEF deciding
  <2> QED  BY <2>2 DEF Nearest
<1>5. (\A n \in i..SpaceIndex : ~Decides(u, i, n)) => deciding = {}
  OBVIOUS
<1> HIDE DEF deciding, nearest
<1>6. (\A n \in i..SpaceIndex : ~Decides(u, i, n)) => (Allowed(u, i) <=> visibility = "open")
  BY <1>2, <1>5
<1>7. ASSUME NEW n \in i..SpaceIndex, Nearest(u, i, n)
      PROVE  Allowed(u, i) <=> IF Applicable(u, i, n) # {} THEN RulesAllow(u, Applicable(u, i, n))
                               ELSE visibility = "open"
  BY <1>2, <1>3, <1>7
<1> QED  BY <1>4, <1>6, <1>7

\* One rule is added, perhaps in place of another with its key that is inherited alike.
LEMMA NewRule ==
  ASSUME AccessTypeOK', UNCHANGED <<boundaries, members, visibility>>,
         NEW r \in rules', rules' \ {r} \subseteq rules, r.effect \in Effects,
         \A s \in rules \ rules' : s.target = r.target /\ s.recipient = r.recipient,
         \A s \in rules : s.target = r.target /\ s.recipient = r.recipient => s.inherit = r.inherit,
         NEW u \in Users, NEW i \in 1..SpaceIndex
  PROVE  IF r.effect = "allow" THEN Allowed(u, i)' \/ ~Allowed(u, i)
                               ELSE Allowed(u, i) \/ ~Allowed(u, i)'
<1> DEFINE Applies(j) == /\ r.target = Path[j]
                         /\ j = i \/ r.inherit
                         /\ \/ r.recipient = u
                            \/ r.recipient \in AclGroups /\ u \in members[r.recipient]
<1>0. AnswerOfNearest /\ AnswerOfNearest'
  BY NearestAnswers, PTL
<1>1. ASSUME NEW j \in i..SpaceIndex
      PROVE  /\ r \in Applicable(u, i, j)' <=> Applies(j)
             /\ ~Applies(j) => Applicable(u, i, j)' = Applicable(u, i, j)
             /\ Applicable(u, i, j)' \ {r} \subseteq Applicable(u, i, j)
             /\ \A s \in Applicable(u, i, j) \ Applicable(u, i, j)' : s.recipient = r.recipient
  <2>1. \A s : s \in Applicable(u, i, j) <=>
                 /\ s \in rules /\ s.target = Path[j]
                 /\ j = i \/ s.inherit
                 /\ \/ s.recipient = u
                    \/ s.recipient \in AclGroups /\ u \in members[s.recipient]
    BY DEF Applicable
  <2>2. \A s : s \in Applicable(u, i, j)' <=>
                 /\ s \in rules' /\ s.target = Path[j]
                 /\ j = i \/ s.inherit
                 /\ \/ s.recipient = u
                    \/ s.recipient \in AclGroups /\ u \in members[s.recipient]
    BY DEF Applicable
  <2>3. r \in Applicable(u, i, j)' <=> Applies(j)
    BY <2>2
  <2>4. Applicable(u, i, j)' \ {r} \subseteq Applicable(u, i, j)
    BY <2>1, <2>2
  <2>5. \A s \in Applicable(u, i, j) \ Applicable(u, i, j)' : s \in rules \ rules'
    BY <2>1, <2>2
  <2>6. ~Applies(j) => \A s \in Applicable(u, i, j) : s \in Applicable(u, i, j)'
    BY <2>1, <2>5
  <2> HIDE DEF Applies
  <2>7. ~Applies(j) => Applicable(u, i, j)' = Applicable(u, i, j)
    BY <2>3, <2>4, <2>6
  <2> QED  BY <2>3, <2>4, <2>5, <2>7
<1> HIDE DEF Applies
<1>2. ASSUME NEW j \in i..SpaceIndex
      PROVE  /\ Decides(u, i, j) => Decides(u, i, j)'
             /\ Decides(u, i, j)' /\ ~Applies(j) => Decides(u, i, j)
             /\ Applicable(u, i, j) # {} => Decides(u, i, j)
  BY <1>1 DEF Decides
<1>3. CASE \A n \in i..SpaceIndex : ~Decides(u, i, n)'
  <2>1. \A n \in i..SpaceIndex : ~Decides(u, i, n)
    BY <1>2, <1>3
  <2>2. Allowed(u, i) <=> visibility = "open"
    BY <1>0, <2>1 DEF AnswerOfNearest
  <2>3. Allowed(u, i)' <=> visibility' = "open"
    BY <1>0, <1>3 DEF AnswerOfNearest
  <2> QED  BY <2>2, <2>3
<1>4. CASE \E n \in i..SpaceIndex : Decides(u, i, n)'
  <2>1. PICK n \in i..SpaceIndex : Nearest(u, i, n)'
    BY <1>0, <1>4 DEF AnswerOfNearest
  <2>2. Allowed(u, i)' <=> IF Applicable(u, i, n)' # {} THEN RulesAllow(u, Applicable(u, i, n)')
                           ELSE visibility = "open"
    BY <1>0, <2>1 DEF AnswerOfNearest, RulesAllow
  <2>3. Decides(u, i, n) => Nearest(u, i, n)
    BY <1>2, <2>1 DEF Nearest
  <2>4. Nearest(u, i, n) =>
          (Allowed(u, i) <=> IF Applicable(u, i, n) # {} THEN RulesAllow(u, Applicable(u, i, n))
                             ELSE visibility = "open")
    BY <1>0 DEF AnswerOfNearest
  <2>5. CASE ~Applies(n)
    <3>1. Nearest(u, i, n) /\ Applicable(u, i, n)' = Applicable(u, i, n)
      BY <1>1, <1>2, <2>1, <2>3, <2>5 DEF Nearest
    <3> QED  BY <2>2, <2>4, <3>1
  <2>6. CASE Applies(n)
    <3>1. PICK A, B : A = Applicable(u, i, n) /\ B = Applicable(u, i, n)'
      OBVIOUS
    <3>2. /\ r \in B /\ B \ {r} \subseteq A
          /\ \A s \in A \ B : s.recipient = r.recipient
          /\ Allowed(u, i)' <=> RulesAllow(u, B)
          /\ A # {} => (Allowed(u, i) <=> RulesAllow(u, A))
      BY <1>1, <1>2, <2>2, <2>3, <2>4, <2>6, <3>1
    <3>3. \A s \in B : s.recipient = r.recipient => s = r
      <4>1. \A s \in B : s \in rules' /\ s.target = r.target
        BY <3>1, <3>2 DEF Applicable
      <4> QED  BY <4>1 DEF AccessTypeOK
    <3>4. CASE r.recipient = u
      <4>1. {s \in B : s.recipient = u} = {r}
        BY <3>2, <3>3, <3>4
      <4>2. RulesAllow(u, B) <=> r.effect = "allow"
        BY <4>1 DEF RulesAllow
      <4> QED  BY <3>2, <4>2
    <3>5. CASE r.recipient # u
      <4>1. PICK own : own = {s \in A : s.recipient = u} /\ own = {s \in B : s.recipient = u}
        BY <3>2, <3>5
      <4>2. CASE own # {}
        <5>1. A # {} /\ (RulesAllow(u, A) <=> RulesAllow(u, B))
          BY <4>1, <4>2 DEF RulesAllow
        <5> QED  BY <3>2, <5>1
      <4>3. CASE own = {}
        <5>1. /\ RulesAllow(u, A) <=> \A s \in A : s.effect = "allow"
              /\ RulesAllow(u, B) <=> \A s \in B : s.effect = "allow"
          BY <4>1, <4>3 DEF RulesAllow
        <5> QED  BY <3>2, <5>1
      <4> QED  BY <4>2, <4>3
    <3> QED  BY <3>4, <3>5
  <2> QED  BY <2>5, <2>6
<1> QED  BY <1>3, <1>4

\* Who restricts an open space keeps their access, by the owner rule or by a rule that
\* they have on the space, unless a nearer target decides, which then does so as before.
LEMMA OwnerKeeps ==
  ASSUME AccessTypeOK, NEW u \in Users, WriteSpaceUpdate(u),
         update.to = "restricted", update.found = "open",
         NEW i \in 1..SpaceIndex, \A j \in i..SpaceIndex : Path[j] \notin boundaries,
         \A r \in rules : ~(r.target = Space /\ r.recipient = u /\ ~r.inherit),
         Allowed(u, i)
  PROVE  Allowed(u, i)'
<1>0. AnswerOfNearest /\ AnswerOfNearest'
  BY NearestAnswers, PTL
<1>1. SpaceIndex \in i..SpaceIndex /\ Space = Path[SpaceIndex]
  BY AccessAssumption DEF SpaceIndex, Space
<1>2. UNCHANGED <<boundaries, members>>
  BY DEF WriteSpaceUpdate
<1>3. \A j \in i..SpaceIndex : /\ Decides(u, i, j) <=> Applicable(u, i, j) # {}
                               /\ Decides(u, i, j)' <=> Applicable(u, i, j)' # {}
  BY <1>2 DEF Decides
<1>4. CASE \E r \in rules : r.target = Space /\ r.recipient = u
  <2>1. rules' = rules
    BY <1>4 DEF WriteSpaceUpdate, OwnerRules
  <2>2. \A j \in i..SpaceIndex : Applicable(u, i, j)' = Applicable(u, i, j)
    BY <1>2, <2>1 DEF Applicable
  <2>3. Applicable(u, i, SpaceIndex) # {}
    <3>1. PICK r \in rules : r.target = Space /\ r.recipient = u
      BY <1>4
    <3>2. r.inherit
      BY <3>1
    <3> QED  BY <1>1, <3>1, <3>2 DEF Applicable
  <2>4. PICK n \in i..SpaceIndex : Nearest(u, i, n)
    BY <1>0, <1>1, <1>3, <2>3 DEF AnswerOfNearest
  <2>5. Nearest(u, i, n)' /\ Applicable(u, i, n) # {}
    BY <1>3, <2>2, <2>4 DEF Nearest
  <2>6. RulesAllow(u, Applicable(u, i, n))
    BY <1>0, <2>4, <2>5 DEF AnswerOfNearest
  <2>7. RulesAllow(u, Applicable(u, i, n)')
    BY <2>2, <2>6
  <2> QED  BY <1>0, <2>2, <2>5, <2>7 DEF AnswerOfNearest, RulesAllow
<1>5. CASE \A r \in rules : ~(r.target = Space /\ r.recipient = u)
  <2>1. PICK o : o = [target |-> Space, recipient |-> u, effect |-> "allow", inherit |-> TRUE]
    OBVIOUS
  <2>2. o.target = Space /\ o.recipient = u /\ o.effect = "allow" /\ o.inherit
    BY <2>1
  <2>3. rules' = rules \union {o}
    BY <1>5, <2>1 DEF WriteSpaceUpdate, OwnerRules, Rule
  <2>4. ASSUME NEW j \in i..SpaceIndex
        PROVE  /\ Path[j] = Space => o \in Applicable(u, i, j)'
               /\ Path[j] # Space => Applicable(u, i, j)' = Applicable(u, i, j)
               /\ Applicable(u, i, j) \subseteq Applicable(u, i, j)'
    <3>1. \A s : s \in Applicable(u, i, j) <=>
                   /\ s \in rules /\ s.target = Path[j]
                   /\ j = i \/ s.inherit
                   /\ \/ s.recipient = u
                      \/ s.recipient \in AclGroups /\ u \in members[s.recipient]
      BY DEF Applicable
    <3>2. \A s : s \in Applicable(u, i, j)' <=>
                   /\ s \in rules' /\ s.target = Path[j]
                   /\ j = i \/ s.inherit
                   /\ \/ s.recipient = u
                      \/ s.recipient \in AclGroups /\ u \in members[s.recipient]
      BY <1>2 DEF Applicable
    <3>3. Path[j] = Space => o \in Applicable(u, i, j)'
      BY <2>2, <2>3, <3>2
    <3>4. Applicable(u, i, j) \subseteq Applicable(u, i, j)'
      BY <2>3, <3>1, <3>2
    <3>5. Path[j] # Space => Applicable(u, i, j)' \subseteq Applicable(u, i, j)
      BY <2>2, <2>3, <3>1, <3>2
    <3> QED  BY <3>3, <3>4, <3>5
  <2>5. Decides(u, i, SpaceIndex)'
    BY <1>1, <1>3, <2>4
  <2>6. PICK n \in i..SpaceIndex : Nearest(u, i, n)'
    BY <1>0, <1>1, <2>5 DEF AnswerOfNearest
  <2>7. Applicable(u, i, n)' # {}
    BY <1>3, <2>6 DEF Nearest
  <2>8. Allowed(u, i)' <=> RulesAllow(u, Applicable(u, i, n)')
    BY <1>0, <2>6, <2>7 DEF AnswerOfNearest, RulesAllow
  <2>9. CASE Path[n] = Space
    <3>1. \A s \in Applicable(u, i, n)' : s \in rules \union {o} /\ s.target = Space
      BY <2>3, <2>9 DEF Applicable
    <3>2. \A s \in Applicable(u, i, n)' : s.recipient = u => s = o
      BY <1>5, <3>1
    <3>3. {s \in Applicable(u, i, n)' : s.recipient = u} = {o}
      BY <2>2, <2>4, <2>9, <3>2
    <3> QED  BY <2>2, <2>8, <3>3 DEF RulesAllow
  <2>10. CASE Path[n] # Space
    <3>1. Applicable(u, i, n)' = Applicable(u, i, n)
      BY <2>4, <2>10
    <3>2. \A j \in i..SpaceIndex : Decides(u, i, j) => Decides(u, i, j)'
      BY <1>3, <2>4
    <3>3. Nearest(u, i, n) /\ Applicable(u, i, n) # {}
      BY <1>3, <2>6, <2>7, <3>1, <3>2 DEF Nearest
    <3>4. RulesAllow(u, Applicable(u, i, n))
      BY <1>0, <3>3 DEF AnswerOfNearest
    <3> QED  BY <2>8, <3>1, <3>4
  <2> QED  BY <2>9, <2>10
<1> QED  BY <1>4, <1>5

\* Where one rule is added or changed, it has the effect that it states.
LEMMA RulesMean ==
  ASSUME AccessTypeOK, AccessNext
  PROVE  RulesMeanWhatTheySay
<1> SUFFICES ASSUME visibility' = visibility, NEW r \in rules' \ rules,
                    \A s \in rules : s.target = r.target /\ s.recipient = r.recipient
                                       => s.inherit = r.inherit,
                    NEW u \in Users, NEW i \in 1..SpaceIndex
             PROVE  IF r.effect = "allow" THEN Allowed(u, i)' \/ ~Allowed(u, i)
                                          ELSE Allowed(u, i) \/ ~Allowed(u, i)'
  BY DEF RulesMeanWhatTheySay
<1>1. AccessTypeOK'
  BY AccessStep
<1>2. r.effect \in Effects
  BY <1>1 DEF AccessTypeOK
<1>3. /\ UNCHANGED <<boundaries, members>> /\ rules' \ {r} \subseteq rules
      /\ \A s \in rules \ rules' : s.target = r.target /\ s.recipient = r.recipient
  <2>1. CASE \E t \in Targets, who \in Users \union AclGroups, effect \in Effects,
                inherit \in BOOLEAN : CreateRule(t, who, effect, inherit)
    BY <2>1 DEF CreateRule
  <2>2. ASSUME NEW q \in rules, NEW effect \in Effects, NEW inherit \in BOOLEAN,
               UpdateRule(q, effect, inherit)
        PROVE  /\ UNCHANGED <<boundaries, members>> /\ rules' \ {r} \subseteq rules
               /\ \A s \in rules \ rules' : s.target = r.target /\ s.recipient = r.recipient
    <3>1. PICK n : n = [target |-> q.target, recipient |-> q.recipient, effect |-> effect,
                        inherit |-> inherit]
      OBVIOUS
    <3>2. n.target = q.target /\ n.recipient = q.recipient
      BY <3>1
    <3>3. rules' = (rules \ {q}) \union {n} /\ UNCHANGED <<boundaries, members>>
      BY <2>2, <3>1 DEF UpdateRule, Rule
    <3>4. r = n
      BY <3>3
    <3> QED  BY <3>2, <3>3, <3>4
  <2>3. ASSUME NEW v \in Users, WriteSpaceUpdate(v)
        PROVE  /\ UNCHANGED <<boundaries, members>> /\ rules' \ {r} \subseteq rules
               /\ \A s \in rules \ rules' : s.target = r.target /\ s.recipient = r.recipient
    <3>1. rules \subseteq rules' /\ UNCHANGED <<boundaries, members>>
      BY <2>3 DEF WriteSpaceUpdate
    <3>2. rules' \subseteq rules \union {Rule(Space, v, "allow", TRUE)}
      BY <2>3 DEF WriteSpaceUpdate, OwnerRules
    <3>3. r = Rule(Space, v, "allow", TRUE)
      BY <3>2
    <3> QED  BY <3>1, <3>2, <3>3
  <2>4. CASE \/ \E t \in Targets : SetBoundary(t) \/ RemoveBoundary(t)
             \/ \E q \in rules : RemoveRule(q)
             \/ \E g \in AclGroups, v \in Users : ChangeMembers(g, v)
             \/ \E v \in Users, to \in {"open", "restricted"} : CheckSpaceUpdate(v, to)
             \/ \E to \in {"open", "restricted"} : ForeignSpaceUpdate(to)
    <3>1. rules' \subseteq rules
      BY <2>4 DEF SetBoundary, RemoveBoundary, RemoveRule, ChangeMembers, CheckSpaceUpdate,
                  ForeignSpaceUpdate
    <3> QED  BY <3>1
  <2> QED  BY <2>1, <2>2, <2>3, <2>4 DEF AccessNext
<1>4. r \in rules'
  OBVIOUS
<1>5. UNCHANGED <<boundaries, members, visibility>>
  BY <1>3
<1> QED  BY <1>1, <1>2, <1>3, <1>4, <1>5, NewRule

LEMMA OwnerStep ==
  ASSUME AccessTypeOK, AccessNext
  PROVE  OwnerKeepsAccess
<1> SUFFICES ASSUME update' = NoUpdate, update.to = "restricted", update.found = "open",
                    NEW u \in Users, u = update.by, NEW i \in 1..SpaceIndex,
                    \A j \in i..SpaceIndex : Path[j] \notin boundaries,
                    \A r \in rules : ~(r.target = Space /\ r.recipient = u /\ ~r.inherit),
                    Allowed(u, i)
             PROVE  Allowed(u, i)'
  BY DEF OwnerKeepsAccess
<1>1. update' # update
  BY DEF NoUpdate
<1>2. ASSUME NEW v \in Users, NEW to \in {"open", "restricted"}, CheckSpaceUpdate(v, to)
      PROVE  WriteSpaceUpdate(u)
  <2>1. v = "nobody"
    BY <1>2 DEF CheckSpaceUpdate, NoUpdate
  <2> QED  BY <2>1, AccessAssumption
<1>3. PICK v \in Users : WriteSpaceUpdate(v)
  BY <1>1, <1>2 DEF AccessNext, SetBoundary, RemoveBoundary, CreateRule, UpdateRule, RemoveRule,
                    ChangeMembers, ForeignSpaceUpdate
<1>4. WriteSpaceUpdate(u)
  BY <1>3 DEF WriteSpaceUpdate
<1> QED  BY <1>4, OwnerKeeps

\* Rules, boundaries and members have their types, and targetKey and recipientKey are
\* unique together, which the database promises and create and update rely on.
THEOREM AccessTypes == AccessSpec => []AccessTypeOK
<1>1. AccessTypeOK /\ UNCHANGED accessVars => AccessTypeOK'
  BY DEF AccessTypeOK, accessVars
<1> QED  BY <1>1, AccessBegins, AccessStep, PTL DEF AccessSpec

\* A rule that allows takes no access away and one that denies gives none, whatever else
\* applies to the content, and who restricts an open space keeps their access.
THEOREM AccessAsAsked == AccessSpec => AccessChangesAsAsked
<1>1. AccessTypeOK /\ [AccessNext]_accessVars
        => [RulesMeanWhatTheySay /\ OwnerKeepsAccess]_accessVars
  BY RulesMean, OwnerStep
<1> QED  BY <1>1, AccessTypes, PTL DEF AccessSpec, AccessChangesAsAsked

-----------------------------------------------------------------------------
(* The wiki *)

\* A behaviour of the wiki is a behaviour of each of its parts, so that what is proved
\* of a part holds in the wiki.
THEOREM WikiParts ==
  WikiSpec => IdentitySpec /\ EditingSpec /\ ReviewSpec /\ OAuthSpec /\ TreeSpec /\ AccessSpec
<1>1. WikiInit => /\ IdentityInit /\ EditingInit /\ ReviewInit
                  /\ OAuthInit /\ TreeInit /\ AccessInit
  BY DEF WikiInit
<1>2. [WikiNext]_wikiVars => /\ [IdentityNext]_identityVars
                             /\ [EditingNext]_editingVars
                             /\ [ReviewNext]_reviewVars
                             /\ [OAuthNext]_oauthVars
                             /\ [TreeNext]_treeVars
                             /\ [AccessNext]_accessVars
  BY DEF WikiNext, wikiVars
<1> QED
  BY <1>1, <1>2, PTL
     DEF WikiSpec, IdentitySpec, EditingSpec, ReviewSpec, OAuthSpec, TreeSpec, AccessSpec

\* The state of every part of the wiki has its type.
THEOREM WikiTypes == WikiSpec => []WikiTypeOK
<1>1. WikiSpec => [](focus \in Parts)
  <2>1. WikiInit => focus \in Parts
    BY DEF WikiInit
  <2>2. focus \in Parts /\ [WikiNext]_wikiVars => (focus \in Parts)'
    BY DEF WikiNext, wikiVars
  <2> QED  BY <2>1, <2>2, PTL DEF WikiSpec
<1> QED
  BY <1>1, WikiParts, IdentitiesSafe, EditsGuarded, ReviewedActive, OAuthInvariant, TreeTypes,
     AccessTypes, PTL DEF WikiTypeOK, OAuthInv

\* The promises of the parts together: no edit overwrites what its editor has not seen,
\* no standard is active that no one reviewed, a consent gives at most one token and an
\* attempt to sign in at most one session, granted roles follow the claims, and every page
\* is found from its space.
THEOREM WikiSafe ==
  WikiSpec => [](/\ GuardedEdits /\ ActiveIsReviewed /\ OneTokenPerConsent
                 /\ HierarchyResolves /\ GrantsFollowClaims /\ OneSessionPerAttempt)
BY WikiParts, IdentitiesSafe, EditsGuarded, ReviewedActive, OneConsentOneToken, PagesResolve, PTL

=============================================================================

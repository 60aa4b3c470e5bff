--------------------------- MODULE IdentitiesProofs ---------------------------
(***************************************************************************)
(* What the sign-in attempts and the synchronization promise for any       *)
(* number of providers, mappings, claims, groups, attempts and calls.      *)
(***************************************************************************)
EXTENDS Identities, FiniteSetTheorems, WellFoundedInduction, TLAPS

-----------------------------------------------------------------------------
(* Calls and attempts *)

\* A call that has consumed the request of its attempt, or claimed its code.
Working(q) == call[q].pc \in {"complete", "sync", "code", "unlink"}
Serves(q) == Working(q) \/ call[q].pc = "session"

\* The right to a session goes from the request to the call that consumes it, to the
\* login code, to the call that claims the code, and to the session.
AttemptInv ==
  /\ \A q \in Calls :
       /\ call[q].pc \in {"consume", "claim"} \/ Serves(q) => call[q].attempt \in Attempts
       /\ call[q].pc \in {"consume", "complete"} => call[q].provider \in Providers
       /\ Serves(q) => MyAttempt(q).request = "gone" /\ MyAttempt(q).sessions = 0
       /\ Working(q) => MyAttempt(q).code = "none"
       /\ call[q].pc = "session" => MyAttempt(q).code = "used"
  /\ \A p, q \in Calls : Serves(p) /\ Serves(q) /\ call[p].attempt = call[q].attempt => p = q
  /\ \A a \in Attempts :
       /\ attempt[a].sessions # 0 => attempt[a].sessions = 1 /\ attempt[a].code = "used"
       /\ attempt[a].code # "none" => attempt[a].request = "gone"
       /\ attempt[a].request = "open" => attempt[a].provider \in Providers

\* A call's record after a step that names the call.
LEMMA LeftCall ==
  ASSUME NEW q \in Calls, call \in [Calls -> Call], Leave(q)
  PROVE  /\ call' \in [Calls -> Call] /\ call'[q] = Resting
         /\ \A p \in Calls \ {q} : call'[p] = call[p]
BY DEF Leave, Resting, Call

LEMMA SteppedCall ==
  ASSUME NEW q \in Calls, call \in [Calls -> Call],
         NEW pc \in {"complete", "code", "unlink", "session"}, Step(q, pc)
  PROVE  /\ call' \in [Calls -> Call]
         /\ call'[q].pc = pc /\ call'[q].attempt = call[q].attempt
         /\ call'[q].provider = call[q].provider
         /\ \A p \in Calls \ {q} : call'[p] = call[p]
<1>1. PICK new : new = [call[q] EXCEPT !.pc = pc]
  OBVIOUS
<1>2. call[q] \in Call
  OBVIOUS
<1>3. /\ new \in Call /\ new.pc = pc /\ new.attempt = call[q].attempt
      /\ new.provider = call[q].provider
  BY <1>1, <1>2 DEF Call
<1>4. call' = [call EXCEPT ![q] = new]
  BY <1>1 DEF Step
<1>5. /\ call' \in [Calls -> Call] /\ call'[q] = new
      /\ \A p \in Calls \ {q} : call'[p] = call[p]
  BY <1>3, <1>4
<1> QED  BY <1>3, <1>5

LEMMA EnteredCall ==
  ASSUME NEW q \in Calls, call \in [Calls -> Call], NEW pc \in {"consume", "claim"},
         NEW a \in Attempts, NEW p \in Providers \union {"none"}, Enter(q, pc, a, p)
  PROVE  /\ call' \in [Calls -> Call]
         /\ call'[q].pc = pc /\ call'[q].attempt = a /\ call'[q].provider = p
         /\ \A r \in Calls \ {q} : call'[r] = call[r]
<1>1. PICK new : new = [Resting EXCEPT !.pc = pc, !.attempt = a, !.provider = p]
  OBVIOUS
<1>2. new = [pc |-> pc, attempt |-> a, provider |-> p, claims |-> {}, group |-> "none"]
  BY <1>1 DEF Resting
<1>3. new \in Call /\ new.pc = pc /\ new.attempt = a /\ new.provider = p
  BY <1>2 DEF Call
<1>4. call' = [call EXCEPT ![q] = new]
  BY <1>1 DEF Enter
<1>5. /\ call' \in [Calls -> Call] /\ call'[q] = new
      /\ \A r \in Calls \ {q} : call'[r] = call[r]
  BY <1>3, <1>4
<1> QED  BY <1>3, <1>5

Pipeline == attempt \in [Attempts -> Attempt] /\ call \in [Calls -> Call] /\ AttemptInv

\* A step of a call that does not touch its attempt.
LEMMA CallMoves ==
  ASSUME Pipeline, NEW q \in Calls, attempt' = attempt, call' \in [Calls -> Call],
         \A p \in Calls \ {q} : call'[p] = call[p],
         call'[q].pc \in {"consume", "claim"} => call'[q].attempt \in Attempts,
         call'[q].pc = "consume" => call'[q].provider \in Providers,
         Serves(q)' => Serves(q) /\ call'[q].attempt = call[q].attempt,
         Working(q)' => Working(q), call'[q].pc = "session" => call[q].pc = "session",
         call'[q].pc = "complete" => call[q].pc = "complete" /\ call'[q].provider = call[q].provider
  PROVE  Pipeline'
<1>1. \A p \in Calls : /\ Serves(p)' => Serves(p) /\ call'[p].attempt = call[p].attempt
                       /\ Working(p)' => Working(p)
                       /\ call'[p].pc = "session" => call[p].pc = "session"
  BY DEF Serves, Working
<1>2. ASSUME NEW p \in Calls
      PROVE  /\ call'[p].pc \in {"consume", "claim"} \/ Serves(p)' => call'[p].attempt \in Attempts
             /\ call'[p].pc \in {"consume", "complete"} => call'[p].provider \in Providers
             /\ Serves(p)' => MyAttempt(p)'.request = "gone" /\ MyAttempt(p)'.sessions = 0
             /\ Working(p)' => MyAttempt(p)'.code = "none"
             /\ call'[p].pc = "session" => MyAttempt(p)'.code = "used"
  BY <1>1 DEF Pipeline, AttemptInv, MyAttempt, Serves, Working
<1>3. \A p, r \in Calls : Serves(p)' /\ Serves(r)' /\ call'[p].attempt = call'[r].attempt => p = r
  BY <1>1 DEF Pipeline, AttemptInv
<1> QED  BY <1>2, <1>3 DEF Pipeline, AttemptInv

\* An attempt that changes for a call, which leaves or goes on to its session.
LEMMA AttemptMoves ==
  ASSUME Pipeline, NEW q \in Calls, NEW a \in Attempts, call[q].attempt = a,
         NEW row \in Attempt, attempt' = [attempt EXCEPT ![a] = row],
         call' \in [Calls -> Call], \A p \in Calls \ {q} : call'[p] = call[p],
         call'[q].pc \in {"idle", "session", "complete"},
         call'[q].pc # "idle" => call'[q].attempt = a,
         \A p \in Calls \ {q} : call[p].attempt = a => ~Serves(p),
         row.sessions # 0 => row.sessions = 1 /\ row.code = "used",
         row.request = "gone",
         call'[q].pc = "complete" =>
           row.code = "none" /\ row.sessions = 0 /\ call'[q].provider \in Providers,
         call'[q].pc = "session" => row.code = "used" /\ row.sessions = 0
  PROVE  Pipeline'
<1>1. /\ attempt' \in [Attempts -> Attempt] /\ attempt'[a] = row
      /\ \A b \in Attempts \ {a} : attempt'[b] = attempt[b]
  BY DEF Pipeline
<1>2. \A p \in Calls \ {q} : /\ Serves(p)' <=> Serves(p)
                             /\ Working(p)' <=> Working(p)
                             /\ Serves(p) => call[p].attempt # a
  BY DEF Serves, Working
<1>3. ASSUME NEW p \in Calls \ {q}
      PROVE  /\ call'[p].pc \in {"consume", "claim"} \/ Serves(p)' => call'[p].attempt \in Attempts
             /\ call'[p].pc \in {"consume", "complete"} => call'[p].provider \in Providers
             /\ Serves(p)' => MyAttempt(p)'.request = "gone" /\ MyAttempt(p)'.sessions = 0
             /\ Working(p)' => MyAttempt(p)'.code = "none"
             /\ call'[p].pc = "session" => MyAttempt(p)'.code = "used"
  <2>1. Serves(p) => call[p].attempt \in Attempts \ {a}
    BY <1>2 DEF Pipeline, AttemptInv
  <2>2. Serves(p) => MyAttempt(p)' = MyAttempt(p)
    BY <1>1, <2>1 DEF MyAttempt
  <2> QED  BY <1>2, <2>2 DEF Pipeline, AttemptInv, Serves, Working
<1>4. /\ call'[q].pc \in {"consume", "claim"} \/ Serves(q)' => call'[q].attempt \in Attempts
      /\ call'[q].pc \in {"consume", "complete"} => call'[q].provider \in Providers
      /\ Serves(q)' => MyAttempt(q)'.request = "gone" /\ MyAttempt(q)'.sessions = 0
      /\ Working(q)' => MyAttempt(q)'.code = "none"
      /\ call'[q].pc = "session" => MyAttempt(q)'.code = "used"
      /\ Serves(q)' => call'[q].attempt = a
  BY <1>1 DEF Serves, Working, MyAttempt
<1>5. \A p, r \in Calls : Serves(p)' /\ Serves(r)' /\ call'[p].attempt = call'[r].attempt => p = r
  BY <1>2, <1>4 DEF Pipeline, AttemptInv
<1>6. \A b \in Attempts :
       /\ attempt'[b].sessions # 0 => attempt'[b].sessions = 1 /\ attempt'[b].code = "used"
       /\ attempt'[b].code # "none" => attempt'[b].request = "gone"
       /\ attempt'[b].request = "open" => attempt'[b].provider \in Providers
  BY <1>1 DEF Pipeline, AttemptInv
<1> QED  BY <1>1, <1>3, <1>4, <1>5, <1>6 DEF Pipeline, AttemptInv

\* The rows that go with an identity only close what was open.
LEMMA CascadeMoves ==
  ASSUME Pipeline, NEW p, NEW intents, CascadeIdentity(p, intents)
  PROVE  Pipeline'
<1>1. ASSUME NEW a \in Attempts
      PROVE  /\ attempt'[a] \in Attempt
             /\ attempt'[a].sessions = attempt[a].sessions
             /\ attempt'[a].provider = attempt[a].provider
             /\ attempt'[a].request \in {attempt[a].request, "gone"}
             /\ \/ attempt[a].code = "open" /\ attempt'[a].code = "gone"
                \/ attempt'[a].code = attempt[a].code
  <2>1. attempt[a] \in Attempt
    BY DEF Pipeline
  <2>2. attempt'[a] = IF attempt[a].provider # p THEN attempt[a]
          ELSE [attempt[a] EXCEPT
                 !.code = IF @ = "open" THEN "gone" ELSE @,
                 !.request = IF @ = "open" /\ attempt[a].intent \in intents THEN "gone" ELSE @]
    BY DEF CascadeIdentity
  <2> QED  BY <2>1, <2>2 DEF Attempt
<1>2. attempt' \in [Attempts -> Attempt]
  BY <1>1 DEF CascadeIdentity
<1>3. \A q \in Calls : call'[q] = Resting \/ call'[q] = call[q]
  BY DEF CascadeIdentity
<1>4. call' \in [Calls -> Call]
  <2>1. Resting \in Call
    BY DEF Resting, Call
  <2> QED  BY <1>3, <2>1 DEF Pipeline, CascadeIdentity
<1>5. \A q \in Calls : call'[q].pc # "idle" => call'[q] = call[q]
  BY <1>3 DEF Resting
<1>6. \A q \in Calls : /\ Serves(q)' => Serves(q) /\ call'[q] = call[q]
                       /\ Working(q)' => Working(q)
  BY <1>5 DEF Serves, Working
<1>7. ASSUME NEW q \in Calls
      PROVE  /\ call'[q].pc \in {"consume", "claim"} \/ Serves(q)' => call'[q].attempt \in Attempts
             /\ call'[q].pc \in {"consume", "complete"} => call'[q].provider \in Providers
             /\ Serves(q)' => MyAttempt(q)'.request = "gone" /\ MyAttempt(q)'.sessions = 0
             /\ Working(q)' => MyAttempt(q)'.code = "none"
             /\ call'[q].pc = "session" => MyAttempt(q)'.code = "used"
  <2>1. Serves(q)' => MyAttempt(q)' = attempt'[call[q].attempt] /\ call[q].attempt \in Attempts
    BY <1>6 DEF MyAttempt, Pipeline, AttemptInv
  <2> QED  BY <1>1, <1>5, <1>6, <2>1 DEF Pipeline, AttemptInv, Serves, Working, MyAttempt
<1>8. \A q, r \in Calls : Serves(q)' /\ Serves(r)' /\ call'[q].attempt = call'[r].attempt => q = r
  BY <1>6 DEF Pipeline, AttemptInv
<1>9. \A a \in Attempts :
       /\ attempt'[a].sessions # 0 => attempt'[a].sessions = 1 /\ attempt'[a].code = "used"
       /\ attempt'[a].code # "none" => attempt'[a].request = "gone"
       /\ attempt'[a].request = "open" => attempt'[a].provider \in Providers
  BY <1>1 DEF Pipeline, AttemptInv
<1> QED  BY <1>2, <1>4, <1>7, <1>8, <1>9 DEF Pipeline, AttemptInv

\* No second call serves the attempt of one that serves it, and none serves an attempt
\* whose request or code is still open.
LEMMA ServedAlone ==
  ASSUME Pipeline
  PROVE  /\ \A q, p \in Calls : Serves(q) /\ p # q /\ call[p].attempt = call[q].attempt => ~Serves(p)
         /\ \A a \in Attempts, p \in Calls :
              "open" \in {attempt[a].request, attempt[a].code} /\ call[p].attempt = a => ~Serves(p)
BY DEF Pipeline, AttemptInv, Serves, MyAttempt

\* The steps of a sign-in.
LEMMA SignInMoves ==
  ASSUME Pipeline, NEW q \in Calls,
         \/ ConsumeRequest(q) \/ CreateLoginCode(q) \/ ClaimLoginCode(q) \/ CreateSession(q)
  PROVE  Pipeline'
<1>a. PICK a : a = call[q].attempt
  OBVIOUS
<1>0. /\ call \in [Calls -> Call] /\ attempt \in [Attempts -> Attempt]
      /\ a \in Attempts /\ attempt[a] \in Attempt /\ MyAttempt(q) = attempt[a]
      /\ call[q].attempt = a
  BY <1>a DEF Pipeline, AttemptInv, Serves, Working, MyAttempt, ConsumeRequest,
              CreateLoginCode, ClaimLoginCode, CreateSession
<1>1. CASE Leave(q) /\ attempt' = attempt
  <2>1. /\ call' \in [Calls -> Call] /\ call'[q] = Resting
        /\ \A p \in Calls \ {q} : call'[p] = call[p]
    BY <1>0, <1>1, LeftCall
  <2> QED  BY <1>1, <2>1, CallMoves DEF Serves, Working, Resting
<1>2. CASE ConsumeRequest(q) /\ attempt[a].request = "open"
  <2>1. PICK row : row = [attempt[a] EXCEPT !.request = "gone"]
    OBVIOUS
  <2>2. /\ row \in Attempt /\ row.request = "gone" /\ row.code = attempt[a].code
        /\ row.sessions = attempt[a].sessions
    BY <1>0, <2>1 DEF Attempt
  <2>3. attempt' = [attempt EXCEPT ![a] = row] /\ Step(q, "complete")
    BY <1>0, <1>2, <2>1 DEF ConsumeRequest
  <2>4. /\ call' \in [Calls -> Call]
        /\ call'[q].pc = "complete" /\ call'[q].attempt = a
        /\ call'[q].provider = call[q].provider
        /\ \A p \in Calls \ {q} : call'[p] = call[p]
    BY <1>0, <2>3, SteppedCall
  <2>5. attempt[a].code = "none" /\ attempt[a].sessions = 0 /\ call[q].provider \in Providers
    BY <1>0, <1>2 DEF Pipeline, AttemptInv, ConsumeRequest
  <2>6. \A p \in Calls \ {q} : call[p].attempt = a => ~Serves(p)
    BY <1>0, <1>2, ServedAlone
  <2>7. /\ call'[q].pc \in {"idle", "session", "complete"}
        /\ call'[q].pc # "idle" => call'[q].attempt = a
        /\ row.sessions # 0 => row.sessions = 1 /\ row.code = "used"
        /\ row.request = "gone"
        /\ call'[q].pc = "complete" =>
             row.code = "none" /\ row.sessions = 0 /\ call'[q].provider \in Providers
        /\ call'[q].pc = "session" => row.code = "used" /\ row.sessions = 0
    BY <2>2, <2>4, <2>5
  <2> QED  BY <1>0, <2>2, <2>3, <2>4, <2>6, <2>7, AttemptMoves
<1>3. CASE CreateLoginCode(q) /\ call[q].provider \in linked
  <2>1. PICK row : row = [attempt[a] EXCEPT !.code = "open"]
    OBVIOUS
  <2>2. /\ row \in Attempt /\ row.request = attempt[a].request /\ row.code = "open"
        /\ row.sessions = attempt[a].sessions
    BY <1>0, <2>1 DEF Attempt
  <2>3. attempt' = [attempt EXCEPT ![a] = row] /\ Leave(q)
    BY <1>0, <1>3, <2>1 DEF CreateLoginCode
  <2>4. /\ call' \in [Calls -> Call] /\ call'[q].pc = "idle"
        /\ \A p \in Calls \ {q} : call'[p] = call[p]
    BY <1>0, <2>3, LeftCall DEF Resting
  <2>5. Serves(q) /\ attempt[a].request = "gone" /\ attempt[a].sessions = 0
    BY <1>0, <1>3 DEF Pipeline, AttemptInv, CreateLoginCode, Serves, Working
  <2>6. \A p \in Calls \ {q} : call[p].attempt = a => ~Serves(p)
    BY <1>0, <2>5, ServedAlone
  <2>7. /\ call'[q].pc \in {"idle", "session", "complete"}
        /\ call'[q].pc # "idle" => call'[q].attempt = a
        /\ row.sessions # 0 => row.sessions = 1 /\ row.code = "used"
        /\ row.request = "gone"
        /\ call'[q].pc = "complete" =>
             row.code = "none" /\ row.sessions = 0 /\ call'[q].provider \in Providers
        /\ call'[q].pc = "session" => row.code = "used" /\ row.sessions = 0
    BY <2>2, <2>4, <2>5
  <2> QED  BY <1>0, <2>2, <2>3, <2>4, <2>6, <2>7, AttemptMoves
<1>4. CASE ClaimLoginCode(q) /\ attempt[a].code = "open"
  <2>1. PICK row : row = [attempt[a] EXCEPT !.code = "used"]
    OBVIOUS
  <2>2. /\ row \in Attempt /\ row.request = attempt[a].request /\ row.code = "used"
        /\ row.sessions = attempt[a].sessions
    BY <1>0, <2>1 DEF Attempt
  <2>3. attempt' = [attempt EXCEPT ![a] = row] /\ Step(q, "session")
    BY <1>0, <1>4, <2>1 DEF ClaimLoginCode
  <2>4. /\ call' \in [Calls -> Call]
        /\ call'[q].pc = "session" /\ call'[q].attempt = a
        /\ \A p \in Calls \ {q} : call'[p] = call[p]
    BY <1>0, <2>3, SteppedCall
  <2>5. attempt[a].request = "gone" /\ attempt[a].sessions = 0
    BY <1>0, <1>4 DEF Pipeline, AttemptInv
  <2>6. \A p \in Calls \ {q} : call[p].attempt = a => ~Serves(p)
    BY <1>0, <1>4, ServedAlone
  <2>7. /\ call'[q].pc \in {"idle", "session", "complete"}
        /\ call'[q].pc # "idle" => call'[q].attempt = a
        /\ row.sessions # 0 => row.sessions = 1 /\ row.code = "used"
        /\ row.request = "gone"
        /\ call'[q].pc = "complete" =>
             row.code = "none" /\ row.sessions = 0 /\ call'[q].provider \in Providers
        /\ call'[q].pc = "session" => row.code = "used" /\ row.sessions = 0
    BY <2>2, <2>4, <2>5
  <2> QED  BY <1>0, <2>2, <2>3, <2>4, <2>6, <2>7, AttemptMoves
<1>5. CASE CreateSession(q) /\ call[q].provider \in linked
  <2>1. PICK row : row = [attempt[a] EXCEPT !.sessions = @ + 1]
    OBVIOUS
  <2>2. /\ row \in Attempt /\ row.request = attempt[a].request /\ row.code = attempt[a].code
        /\ row.sessions = attempt[a].sessions + 1
    BY <1>0, <2>1 DEF Attempt
  <2>3. attempt' = [attempt EXCEPT ![a] = row] /\ Leave(q)
    BY <1>0, <1>5, <2>1 DEF CreateSession
  <2>4. /\ call' \in [Calls -> Call] /\ call'[q].pc = "idle"
        /\ \A p \in Calls \ {q} : call'[p] = call[p]
    BY <1>0, <2>3, LeftCall DEF Resting
  <2>5. /\ Serves(q) /\ attempt[a].request = "gone" /\ attempt[a].sessions = 0
        /\ attempt[a].code = "used"
    BY <1>0, <1>5 DEF Pipeline, AttemptInv, CreateSession, Serves
  <2>6. \A p \in Calls \ {q} : call[p].attempt = a => ~Serves(p)
    BY <1>0, <2>5, ServedAlone
  <2>7. /\ call'[q].pc \in {"idle", "session", "complete"}
        /\ call'[q].pc # "idle" => call'[q].attempt = a
        /\ row.sessions # 0 => row.sessions = 1 /\ row.code = "used"
        /\ row.request = "gone"
        /\ call'[q].pc = "complete" =>
             row.code = "none" /\ row.sessions = 0 /\ call'[q].provider \in Providers
        /\ call'[q].pc = "session" => row.code = "used" /\ row.sessions = 0
    BY <2>2, <2>4, <2>5
  <2> QED  BY <1>0, <2>2, <2>3, <2>4, <2>6, <2>7, AttemptMoves
<1> QED  BY <1>0, <1>1, <1>2, <1>3, <1>4, <1>5
         DEF ConsumeRequest, CreateLoginCode, ClaimLoginCode, CreateSession

\* The steps of a call that leave its attempt alone.
LEMMA OtherCallMoves ==
  ASSUME Pipeline, claims \in [Providers -> SUBSET Values], linked \subseteq Providers,
         NEW q \in Calls,
         \/ \E a \in Attempts : Callback(q, a) \/ ReadLoginCode(q, a)
         \/ \E p \in Providers : ReadStored(q, p)
         \/ \E values \in SUBSET Values : CompleteLogin(q, values)
         \/ \E g \in Groups : ReadMember(q, g)
         \/ LinkIdentity(q) \/ CheckUnlink(q) \/ Apply(q) \/ ApplyFails(q) \/ RemoveMember(q)
  PROVE  Pipeline'
<1>0. /\ call \in [Calls -> Call] /\ attempt \in [Attempts -> Attempt] /\ call[q] \in Call
      /\ attempt' = attempt
  BY DEF Pipeline, Callback, ReadLoginCode, ReadStored, CompleteLogin, ReadMember, LinkIdentity,
         CheckUnlink, Apply, ApplyFails, RemoveMember
<1>1. CASE Leave(q)
  <2>1. /\ call' \in [Calls -> Call] /\ call'[q] = Resting
        /\ \A p \in Calls \ {q} : call'[p] = call[p]
    BY <1>0, <1>1, LeftCall
  <2> QED  BY <1>0, <2>1, CallMoves DEF Serves, Working, Resting
<1>2. ASSUME NEW a \in Attempts, Callback(q, a)
      PROVE  Pipeline'
  <2>1. attempt[a].provider \in Providers
    BY <1>2 DEF Callback, Pipeline, AttemptInv
  <2>2. /\ call' \in [Calls -> Call] /\ call'[q].pc = "consume" /\ call'[q].attempt = a
        /\ call'[q].provider = attempt[a].provider
        /\ \A p \in Calls \ {q} : call'[p] = call[p]
    BY <1>0, <1>2, <2>1, EnteredCall DEF Callback
  <2> QED  BY <1>0, <2>1, <2>2, CallMoves DEF Serves, Working
<1>3. ASSUME NEW a \in Attempts, ReadLoginCode(q, a)
      PROVE  Pipeline'
  <2>1. attempt[a].provider \in Providers \union {"none"}
    BY <1>0 DEF Attempt
  <2>2. /\ call' \in [Calls -> Call] /\ call'[q].pc = "claim" /\ call'[q].attempt = a
        /\ \A p \in Calls \ {q} : call'[p] = call[p]
    BY <1>0, <1>3, <2>1, EnteredCall DEF ReadLoginCode
  <2> QED  BY <1>0, <2>2, CallMoves DEF Serves, Working
<1>4. ASSUME NEW p \in Providers, ReadStored(q, p)
      PROVE  Pipeline'
  <2>1. PICK new : new = [Resting EXCEPT !.pc = "stored", !.provider = p, !.claims = claims[p]]
    OBVIOUS
  <2>2. new = [pc |-> "stored", attempt |-> "none", provider |-> p, claims |-> claims[p],
               group |-> "none"]
    BY <2>1 DEF Resting
  <2>3. new \in Call /\ new.pc = "stored"
    BY <2>2 DEF Call
  <2>4. call' = [call EXCEPT ![q] = new]
    BY <1>4, <2>1 DEF ReadStored
  <2>5. /\ call' \in [Calls -> Call] /\ call'[q].pc = "stored"
        /\ \A r \in Calls \ {q} : call'[r] = call[r]
    BY <1>0, <2>3, <2>4
  <2> QED  BY <1>0, <2>5, CallMoves DEF Serves, Working
<1>5. ASSUME NEW values \in SUBSET Values, CompleteLogin(q, values), ~Leave(q)
      PROVE  Pipeline'
  <2>1. PICK new : new = [call[q] EXCEPT !.pc = "sync", !.claims = values]
    OBVIOUS
  <2>2. new \in Call /\ new.pc = "sync" /\ new.attempt = call[q].attempt
    BY <1>0, <2>1 DEF Call
  <2>3. call' = [call EXCEPT ![q] = new] /\ call[q].pc = "complete"
    BY <1>0, <1>5, <2>1 DEF CompleteLogin
  <2>4. /\ call' \in [Calls -> Call] /\ call'[q] = new
        /\ \A p \in Calls \ {q} : call'[p] = call[p]
    BY <1>0, <2>2, <2>3
  <2> QED  BY <1>0, <2>2, <2>3, <2>4, CallMoves DEF Serves, Working
<1>6. ASSUME NEW g \in Groups, ReadMember(q, g)
      PROVE  Pipeline'
  <2>1. PICK pc \in {"demote", "delete"} :
          call' = [call EXCEPT ![q] = [Resting EXCEPT !.group = g, !.pc = pc]]
    BY <1>6 DEF ReadMember
  <2>2. PICK new : new = [Resting EXCEPT !.group = g, !.pc = pc]
    OBVIOUS
  <2>3. new = [pc |-> pc, attempt |-> "none", provider |-> "none", claims |-> {}, group |-> g]
    BY <2>2 DEF Resting
  <2>4. new \in Call /\ new.pc = pc
    BY <2>3 DEF Call
  <2>5. /\ call' \in [Calls -> Call] /\ call'[q].pc = pc
        /\ \A p \in Calls \ {q} : call'[p] = call[p]
    BY <1>0, <2>1, <2>2, <2>4
  <2> QED  BY <1>0, <2>5, CallMoves DEF Serves, Working
<1>7. ASSUME NEW pc \in {"code", "unlink"}, Working(q), Step(q, pc)
      PROVE  Pipeline'
  <2>1. /\ call' \in [Calls -> Call]
        /\ call'[q].pc = pc /\ call'[q].attempt = call[q].attempt
        /\ \A p \in Calls \ {q} : call'[p] = call[p]
    BY <1>0, <1>7, SteppedCall
  <2> QED  BY <1>0, <1>7, <2>1, CallMoves DEF Serves, Working
<1>8. CASE LinkIdentity(q) \/ ApplyFails(q) \/ RemoveMember(q)
  BY <1>1, <1>8 DEF LinkIdentity, ApplyFails, RemoveMember
<1>9. CASE CheckUnlink(q) \/ Apply(q)
  BY <1>1, <1>7, <1>9 DEF CheckUnlink, Apply, Working
<1> QED  BY <1>1, <1>2, <1>3, <1>4, <1>5, <1>6, <1>8, <1>9

\* A new attempt is one that nothing serves.
LEMMA StartMoves ==
  ASSUME Pipeline, NEW a \in Attempts, NEW p \in Providers,
         NEW intent \in {"login", "link", "unlink"}, StartAuthorization(a, p, intent)
  PROVE  Pipeline'
<1>1. PICK row : row = [Unused EXCEPT !.request = "open", !.intent = intent, !.provider = p]
  OBVIOUS
<1>2. row = [request |-> "open", code |-> "none", intent |-> intent, provider |-> p,
             sessions |-> 0]
  BY <1>1 DEF Unused
<1>3. row \in Attempt
  BY <1>2 DEF Attempt
<1>4. attempt' = [attempt EXCEPT ![a] = row] /\ call' = call
  BY <1>1 DEF StartAuthorization
<1>5. /\ attempt' \in [Attempts -> Attempt] /\ attempt'[a] = row
      /\ \A b \in Attempts \ {a} : attempt'[b] = attempt[b]
  BY <1>3, <1>4 DEF Pipeline
<1>6. \A q \in Calls : Serves(q) => call[q].attempt # a
  BY DEF Pipeline, AttemptInv, StartAuthorization, MyAttempt
<1>7. \A q \in Calls : Serves(q) => MyAttempt(q)' = MyAttempt(q)
  BY <1>4, <1>5, <1>6 DEF Pipeline, AttemptInv, MyAttempt
<1>8. \A q \in Calls : (Serves(q)' <=> Serves(q)) /\ (Working(q)' <=> Working(q))
  BY <1>4 DEF Serves, Working
<1>9. ASSUME NEW q \in Calls
      PROVE  /\ call'[q].pc \in {"consume", "claim"} \/ Serves(q)' => call'[q].attempt \in Attempts
             /\ call'[q].pc \in {"consume", "complete"} => call'[q].provider \in Providers
             /\ Serves(q)' => MyAttempt(q)'.request = "gone" /\ MyAttempt(q)'.sessions = 0
             /\ Working(q)' => MyAttempt(q)'.code = "none"
             /\ call'[q].pc = "session" => MyAttempt(q)'.code = "used"
  BY <1>4, <1>7, <1>8 DEF Pipeline, AttemptInv, Serves
<1>10. \A b \in Attempts :
       /\ attempt'[b].sessions # 0 => attempt'[b].sessions = 1 /\ attempt'[b].code = "used"
       /\ attempt'[b].code # "none" => attempt'[b].request = "gone"
       /\ attempt'[b].request = "open" => attempt'[b].provider \in Providers
  BY <1>2, <1>5 DEF Pipeline, AttemptInv
<1>11. \A q, r \in Calls : Serves(q)' /\ Serves(r)' /\ call'[q].attempt = call'[r].attempt => q = r
  BY <1>4, <1>8 DEF Pipeline, AttemptInv
<1> QED  BY <1>4, <1>5, <1>9, <1>10, <1>11 DEF Pipeline, AttemptInv

LEMMA PipelineStep ==
  ASSUME Pipeline, claims \in [Providers -> SUBSET Values], linked \subseteq Providers,
         IdentityNext
  PROVE  Pipeline'
<1>1. CASE UNCHANGED <<attempt, call>>
  BY <1>1 DEF Pipeline, AttemptInv, Serves, Working, MyAttempt
<1>2. ASSUME NEW q \in Calls, Unlink(q)
      PROVE  Pipeline'
  BY <1>2, CascadeMoves DEF Unlink
<1>3. ASSUME NEW p \in Providers, RemoveProvider(p)
      PROVE  Pipeline'
  BY <1>3, CascadeMoves DEF RemoveProvider
<1>4. CASE \/ SetPassword
           \/ \E m \in GroupMappings \union RoleMappings : CreateMapping(m) \/ RemoveMapping(m)
           \/ \E g \in Groups : AddMember(g)
  BY <1>1, <1>4 DEF SetPassword, CreateMapping, RemoveMapping, AddMember
<1> QED  BY <1>2, <1>3, <1>4, StartMoves, SignInMoves, OtherCallMoves DEF IdentityNext

-----------------------------------------------------------------------------
(* Grants and memberships *)

\* What IdentityTypeOK says of the account itself.
GrantTypeOK ==
  /\ linked \subseteq Providers
  /\ groupMaps \subseteq GroupMappings /\ roleMaps \subseteq RoleMappings
  /\ claims \in [Providers -> SUBSET Values]
  /\ grants \subseteq groupMaps /\ roleGrants \subseteq roleMaps
  /\ \A m \in grants \union roleGrants : m.provider \in linked
  /\ member \in [Groups -> {"none", "external", "local"}]
  /\ \A m \in grants : member[m.group] # "none"
  /\ password \in BOOLEAN

\* Two roles that are granted differ in their priority.
PrioritiesDiffer == \A r, s \in roleGrants : r.priority = s.priority => r = s

GrantInv == GrantTypeOK /\ PrioritiesDiffer /\ GrantsFollowClaims

\* Steps that take grants away, or leave them, with the claims of a provider or without.
LEMMA FewerGrants ==
  ASSUME GrantInv, grants' \subseteq grants, roleGrants' \subseteq roleGrants,
         grants' \subseteq groupMaps', roleGrants' \subseteq roleMaps',
         claims' \in [Providers -> SUBSET Values], linked' \subseteq Providers,
         groupMaps' \subseteq GroupMappings, roleMaps' \subseteq RoleMappings,
         \A m \in grants' \union roleGrants' :
           m.provider \in linked' /\ claims'[m.provider] = claims[m.provider],
         member' \in [Groups -> {"none", "external", "local"}],
         \A m \in grants' : member'[m.group] # "none",
         password' \in BOOLEAN
  PROVE  GrantInv'
<1>1. GrantTypeOK'
  BY DEF GrantTypeOK
<1>2. PrioritiesDiffer'
  BY DEF GrantInv, PrioritiesDiffer
<1>3. GrantsFollowClaims'
  BY DEF GrantInv, GrantsFollowClaims
<1> QED  BY <1>1, <1>2, <1>3 DEF GrantInv

\* The end of an identity.
LEMMA CascadeStep ==
  ASSUME GrantInv, NEW p, NEW intents, CascadeIdentity(p, intents),
         \/ UNCHANGED <<groupMaps, roleMaps>>
         \/ /\ groupMaps' = {m \in groupMaps : m.provider # p}
            /\ roleMaps' = {r \in roleMaps : r.provider # p},
         UNCHANGED <<member, password>>
  PROVE  GrantInv'
<1>1. /\ linked' = linked \ {p} /\ claims' = [claims EXCEPT ![p] = {}]
      /\ grants' = {m \in grants : m.provider # p}
      /\ roleGrants' = {r \in roleGrants : r.provider # p}
  BY DEF CascadeIdentity
<1>2. GrantTypeOK
  BY DEF GrantInv
<1>3. claims' \in [Providers -> SUBSET Values]
  BY <1>1, <1>2 DEF GrantTypeOK
<1>4. \A m \in grants' \union roleGrants' :
        m.provider \in linked' /\ claims'[m.provider] = claims[m.provider]
  BY <1>1, <1>2 DEF GrantTypeOK
<1>5. /\ grants' \subseteq groupMaps' /\ roleGrants' \subseteq roleMaps'
      /\ groupMaps' \subseteq GroupMappings /\ roleMaps' \subseteq RoleMappings
  BY <1>1, <1>2 DEF GrantTypeOK
<1> QED  BY <1>1, <1>2, <1>3, <1>4, <1>5, FewerGrants DEF GrantTypeOK

\* The groups that a synchronization leaves the user in.
LEMMA MembershipsOf ==
  ASSUME GrantTypeOK, NEW p, NEW values
  PROVE  /\ Memberships(p, values) \in [Groups -> {"none", "external", "local"}]
         /\ \A g \in Groups :
              /\ member[g] = "local" => Memberships(p, values)[g] = "local"
              /\ (\E m \in Kept(p, values) \union Target(p, values) : m.group = g)
                   => Memberships(p, values)[g] # "none"
<1> DEFINE after == Kept(p, values) \union Target(p, values)
           removed == {m.group : m \in grants \ after}
<1>1. member \in [Groups -> {"none", "external", "local"}]
  BY DEF GrantTypeOK
<1>2. Memberships(p, values) = [g \in Groups |->
       IF member[g] = "none" /\ \E m \in after : m.group = g THEN "external"
       ELSE IF g \in removed \ Local /\ ~\E m \in after : m.group = g THEN "none"
       ELSE member[g]]
  BY DEF Memberships
<1>3. \A g \in Groups : g \in Local <=> member[g] = "local"
  BY DEF Local
<1> HIDE DEF removed
<1>4. \A g \in Groups : Memberships(p, values)[g] \in {"none", "external", "local"}
  BY <1>1, <1>2
<1>5. Memberships(p, values) \in [Groups -> {"none", "external", "local"}]
  BY <1>2, <1>4
<1>6. \A g \in Groups : member[g] = "local" => Memberships(p, values)[g] = "local"
  BY <1>2, <1>3
<1>7. \A g \in Groups : (\E m \in after : m.group = g) => Memberships(p, values)[g] # "none"
  BY <1>1, <1>2
<1> QED  BY <1>5, <1>6, <1>7

\* apply
LEMMA ApplyStep ==
  ASSUME GrantInv, NEW q \in Calls, call[q] \in Call, Apply(q)
  PROVE  GrantInv'
<1>1. PICK p, values : p = call[q].provider /\ values = call[q].claims
  OBVIOUS
<1>2. /\ p \in linked /\ ~RoleRefused(p, values)
      /\ grants' = Kept(p, values) \union Target(p, values)
      /\ member' = Memberships(p, values)
      /\ roleGrants' = {r \in roleGrants : r.provider # p} \union NextRole(p, values)
      /\ claims' = [claims EXCEPT ![p] = values]
      /\ UNCHANGED <<linked, groupMaps, roleMaps, password>>
  BY <1>1 DEF Apply
<1>3. GrantTypeOK /\ p \in Providers /\ values \in SUBSET Values
  BY <1>1, <1>2 DEF GrantInv, GrantTypeOK, Call
<1>4. /\ Target(p, values) \subseteq groupMaps /\ Kept(p, values) \subseteq grants
      /\ \A m \in Target(p, values) : m.provider = p /\ m.values \intersect values # {}
      /\ p \in Managed => \A m \in Kept(p, values) : m.provider # p \/ m \in Target(p, values)
  BY DEF Target, Kept
<1>5. /\ NextRole(p, values) \subseteq roleMaps
      /\ \A r \in NextRole(p, values) : r.provider = p /\ r.value \in values
      /\ \A r, s \in NextRole(p, values) : r = s
  <2>1. /\ NextRole(p, values) \subseteq roleMaps
        /\ \A r \in NextRole(p, values) : r.provider = p /\ r.value \in values
        /\ \A r, s \in NextRole(p, values) : r.priority <= s.priority /\ s.priority <= r.priority
    BY DEF NextRole
  <2>2. \A r \in NextRole(p, values) : r \in RoleMappings /\ r.priority \in Nat
    BY <1>3, <2>1, IdentitiesAssumption DEF GrantTypeOK
  <2>3. \A r, s \in NextRole(p, values) : r.priority = s.priority /\ r.provider = s.provider
    BY <2>1, <2>2
  <2> QED  BY <2>1, <2>2, <2>3, IdentitiesAssumption
<1>6. /\ claims' \in [Providers -> SUBSET Values] /\ claims'[p] = values
      /\ \A r \in Providers \ {p} : claims'[r] = claims[r]
  BY <1>2, <1>3 DEF GrantTypeOK
<1>7. GrantTypeOK'
  <2>1. /\ grants' \subseteq groupMaps' /\ roleGrants' \subseteq roleMaps'
        /\ \A m \in grants' \union roleGrants' : m.provider \in linked'
    BY <1>2, <1>3, <1>4, <1>5 DEF GrantTypeOK
  <2>2. \A m \in grants' : m.group \in Groups
    BY <1>2, <1>3, <2>1, IdentitiesAssumption DEF GrantTypeOK
  <2>3. /\ member' \in [Groups -> {"none", "external", "local"}]
        /\ \A m \in grants' : member'[m.group] # "none"
    BY <1>2, <1>3, <2>2, MembershipsOf
  <2> QED  BY <1>2, <1>3, <1>6, <2>1, <2>3 DEF GrantTypeOK
<1>8. PrioritiesDiffer'
  <2>1. \A r \in NextRole(p, values), s \in roleGrants :
          s.provider # p => s.priority # r.priority
    BY <1>2 DEF RoleRefused
  <2> QED  BY <1>2, <1>5, <2>1 DEF GrantInv, PrioritiesDiffer
<1>9. GrantsFollowClaims'
  <2>1. ASSUME NEW m \in grants', m.provider \in Managed
        PROVE  m \in groupMaps' /\ m.values \intersect claims'[m.provider] # {}
    <3>1. CASE m \in Target(p, values)
      BY <1>2, <1>4, <1>6, <3>1
    <3>2. CASE m \notin Target(p, values)
      <4>1. m \in grants /\ m.provider # p
        BY <1>2, <1>4, <2>1, <3>2
      <4>2. m.provider \in Providers \ {p}
        BY <1>3, <4>1 DEF GrantTypeOK
      <4> QED  BY <1>2, <1>6, <2>1, <4>1, <4>2 DEF GrantInv, GrantsFollowClaims
    <3> QED  BY <3>1, <3>2
  <2>2. ASSUME NEW r \in roleGrants'
        PROVE  r \in roleMaps' /\ r.value \in claims'[r.provider]
    <3>1. CASE r \in NextRole(p, values)
      BY <1>2, <1>5, <1>6, <3>1
    <3>2. CASE r \in roleGrants /\ r.provider # p
      <4>1. r.provider \in Providers \ {p}
        BY <1>3, <3>2 DEF GrantTypeOK
      <4> QED  BY <1>2, <1>6, <3>2, <4>1 DEF GrantInv, GrantsFollowClaims
    <3> QED  BY <1>2, <3>1, <3>2
  <2> QED  BY <2>1, <2>2 DEF GrantsFollowClaims
<1> QED  BY <1>7, <1>8, <1>9 DEF GrantInv

LEMMA GrantStep ==
  ASSUME GrantInv, call \in [Calls -> Call], AttemptInv, IdentityNext
  PROVE  GrantInv'
<1>0. GrantTypeOK /\ (linked' = linked => \A m \in grants \union roleGrants : m.provider \in linked')
  BY DEF GrantInv, GrantTypeOK
<1>1. CASE UNCHANGED <<linked, accountVars>> /\ password' \in BOOLEAN
  BY <1>0, <1>1, FewerGrants DEF accountVars, GrantTypeOK
<1>2. CASE SetPassword
  BY <1>1, <1>2 DEF SetPassword
<1>3. ASSUME NEW p \in Providers, RemoveProvider(p)
      PROVE  GrantInv'
  BY <1>3, CascadeStep DEF RemoveProvider
<1>4. ASSUME NEW m \in GroupMappings \union RoleMappings, CreateMapping(m)
      PROVE  GrantInv'
  <2>1. /\ groupMaps \subseteq groupMaps' /\ groupMaps' \subseteq GroupMappings
        /\ roleMaps \subseteq roleMaps' /\ roleMaps' \subseteq RoleMappings
        /\ UNCHANGED <<linked, claims, grants, roleGrants, member, password>>
    BY <1>0, <1>4 DEF CreateMapping, GrantTypeOK
  <2> QED  BY <1>0, <2>1, FewerGrants DEF GrantTypeOK
<1>5. ASSUME NEW m \in GroupMappings \union RoleMappings, RemoveMapping(m)
      PROVE  GrantInv'
  <2>1. /\ groupMaps' = groupMaps \ {m} /\ roleMaps' = roleMaps \ {m}
        /\ grants' = grants \ {m} /\ roleGrants' = roleGrants \ {m}
        /\ UNCHANGED <<linked, claims, member, password>>
    BY <1>5 DEF RemoveMapping
  <2> QED  BY <1>0, <2>1, FewerGrants DEF GrantTypeOK
<1>6. ASSUME NEW g \in Groups, AddMember(g)
      PROVE  GrantInv'
  <2>1. /\ member' \in [Groups -> {"none", "external", "local"}]
        /\ \A h \in Groups : member'[h] # "none" \/ member'[h] = member[h]
        /\ UNCHANGED <<linked, groupMaps, roleMaps, claims, grants, roleGrants, password>>
    BY <1>0, <1>6 DEF AddMember, GrantTypeOK
  <2>2. \A m \in grants : m.group \in Groups
    BY <1>0, IdentitiesAssumption DEF GrantTypeOK
  <2>3. \A m \in grants' : member'[m.group] # "none"
    BY <1>0, <2>1, <2>2 DEF GrantTypeOK
  <2> QED  BY <1>0, <2>1, <2>3, FewerGrants DEF GrantTypeOK
<1>7. ASSUME NEW q \in Calls, LinkIdentity(q)
      PROVE  GrantInv'
  <2>1. call[q].provider \in Providers
    BY <1>7 DEF LinkIdentity, AttemptInv
  <2>2. linked \subseteq linked' /\ linked' \subseteq Providers /\ UNCHANGED <<accountVars, password>>
    BY <1>0, <1>7, <2>1 DEF LinkIdentity, GrantTypeOK
  <2>3. \A m \in grants \union roleGrants : m.provider \in linked'
    BY <1>0, <2>2 DEF GrantTypeOK
  <2> QED  BY <1>0, <2>2, <2>3, FewerGrants DEF accountVars, GrantTypeOK
<1>8. ASSUME NEW q \in Calls, Unlink(q)
      PROVE  GrantInv'
  BY <1>8, CascadeStep DEF Unlink
<1>9. ASSUME NEW q \in Calls, RemoveMember(q)
      PROVE  GrantInv'
  <2>1. PICK g : g = call[q].group
    OBVIOUS
  <2>2. /\ UNCHANGED <<linked, groupMaps, roleMaps, claims, roleGrants, password>>
        /\ \/ UNCHANGED <<member, grants>>
           \/ member' = [member EXCEPT ![g] = "external"] /\ UNCHANGED grants
           \/ /\ member' = [member EXCEPT ![g] = "none"]
              /\ grants' = {m \in grants : m.group # g}
    BY <1>9, <2>1 DEF RemoveMember
  <2>3. \A m \in grants : m.group \in Groups
    BY <1>0, IdentitiesAssumption DEF GrantTypeOK
  <2>4. /\ member' \in [Groups -> {"none", "external", "local"}]
        /\ \A m \in grants' : member'[m.group] # "none"
    BY <1>0, <2>2, <2>3 DEF GrantTypeOK
  <2> QED  BY <1>0, <2>2, <2>4, FewerGrants DEF GrantTypeOK
<1>10. ASSUME NEW q \in Calls,
              \/ \E a \in Attempts : Callback(q, a) \/ ReadLoginCode(q, a)
              \/ \E p \in Providers : ReadStored(q, p)
              \/ \E values \in SUBSET Values : CompleteLogin(q, values)
              \/ \E g \in Groups : ReadMember(q, g)
              \/ ConsumeRequest(q) \/ CheckUnlink(q) \/ CreateLoginCode(q)
              \/ ClaimLoginCode(q) \/ CreateSession(q) \/ ApplyFails(q)
       PROVE  GrantInv'
  <2>1. UNCHANGED <<linked, accountVars, password>>
    BY <1>10 DEF Callback, ReadLoginCode, ReadStored, CompleteLogin, ReadMember, ConsumeRequest,
                 CheckUnlink, CreateLoginCode, ClaimLoginCode, CreateSession, ApplyFails
  <2> QED  BY <1>0, <1>1, <2>1 DEF GrantTypeOK
<1>11. ASSUME NEW a \in Attempts, NEW p \in Providers, NEW intent \in {"login", "link", "unlink"},
              StartAuthorization(a, p, intent)
       PROVE  GrantInv'
  BY <1>0, <1>1, <1>11 DEF StartAuthorization, GrantTypeOK
<1> QED  BY <1>2, <1>3, <1>4, <1>5, <1>6, <1>7, <1>8, <1>9, <1>10, <1>11, ApplyStep DEF IdentityNext

-----------------------------------------------------------------------------
(* The theorems *)

IdentityInv == Pipeline /\ GrantInv

\* Whatever the calls do at once, the right of each sign-in attempt to a session is in
\* one place, and the grants are what their mappings, identities and claims say.
THEOREM IdentityInvariant == IdentitySpec => []IdentityInv
<1>1. IdentityInit => IdentityInv
  <2> SUFFICES ASSUME IdentityInit PROVE IdentityInv
    OBVIOUS
  <2>1. Resting \in Call /\ Unused \in Attempt
    BY DEF Resting, Call, Unused, Attempt
  <2>2. /\ \A q \in Calls : call[q] = Resting
        /\ \A a \in Attempts : attempt[a] = Unused
        /\ attempt \in [Attempts -> Attempt] /\ call \in [Calls -> Call]
    BY <2>1 DEF IdentityInit
  <2>3. Pipeline
    BY <2>2 DEF Pipeline, AttemptInv, Serves, Working, Resting, Unused
  <2>4. GrantTypeOK
    BY DEF IdentityInit, GrantTypeOK
  <2>5. PrioritiesDiffer /\ GrantsFollowClaims
    BY DEF IdentityInit, PrioritiesDiffer, GrantsFollowClaims
  <2> QED  BY <2>3, <2>4, <2>5 DEF IdentityInv, GrantInv
<1>2. IdentityInv /\ IdentityNext => IdentityInv'
  BY PipelineStep, GrantStep DEF IdentityInv, Pipeline, GrantInv, GrantTypeOK
<1>3. IdentityInv /\ UNCHANGED identityVars => IdentityInv'
  <2> SUFFICES ASSUME IdentityInv, UNCHANGED identityVars PROVE IdentityInv'
    OBVIOUS
  <2>1. UNCHANGED <<attempt, call>> /\ UNCHANGED <<linked, accountVars, password>>
    BY DEF identityVars
  <2>2. Pipeline'
    BY <2>1 DEF IdentityInv, Pipeline, AttemptInv, Serves, Working, MyAttempt
  <2>3. GrantInv'
    BY <2>1, FewerGrants DEF IdentityInv, GrantInv, GrantTypeOK, accountVars
  <2> QED  BY <2>2, <2>3 DEF IdentityInv
<1> QED  BY <1>1, <1>2, <1>3, PTL DEF IdentitySpec

\* The rows have their types, foreign keys included; what a managed provider grants is
\* backed by the claims stored last; and no attempt gets a second session, however
\* often its callback and its code are delivered.
THEOREM IdentitiesSafe ==
  IdentitySpec => [](IdentityTypeOK /\ GrantsFollowClaims /\ OneSessionPerAttempt)
<1>1. ASSUME IdentityInv
      PROVE  IdentityTypeOK /\ GrantsFollowClaims /\ OneSessionPerAttempt
  <2>1. IdentityTypeOK
    BY <1>1 DEF IdentityInv, Pipeline, GrantInv, GrantTypeOK, IdentityTypeOK
  <2>2. ASSUME NEW a \in Attempts
        PROVE  attempt[a].sessions <= 1
    <3>1. attempt[a].sessions \in {0, 1}
      BY <1>1 DEF IdentityInv, Pipeline, AttemptInv
    <3> QED  BY <3>1
  <2> QED  BY <1>1, <2>1, <2>2 DEF IdentityInv, GrantInv, OneSessionPerAttempt
<1> QED  BY <1>1, IdentityInvariant, PTL

\* A set of numbers that is not empty has a least member.
LEMMA LeastNumber ==
  ASSUME NEW T \in SUBSET Nat, T # {}
  PROVE  \E x \in T : \A y \in T : x <= y
<1>1. PICK x \in T : \A y \in T : ~(<<y, x>> \in OpToRel(<, Nat))
  BY NatLessThanWellFounded, WFMin
<1>2. \A y \in T : ~(y < x)
  BY <1>1 DEF OpToRel
<1>3. \A y \in T : x <= y
  <2>1. x \in Nat /\ \A y \in T : y \in Nat
    OBVIOUS
  <2> QED  BY <1>2, <2>1
<1> QED  BY <1>3

\* An attempt to sign in gives one session at most, whichever of its two one-time rows is
\* presented twice and however the calls that present them interleave.
THEOREM OneSession == IdentitySpec => []OneSessionPerAttempt
BY IdentitiesSafe, PTL

\* Of the roles that are granted one is always in effect, in whatever order providers
\* are synchronized and mappings and identities come and go: no grant is stored that
\* withEffectiveRole would answer with the local role.
THEOREM RoleDecided == IdentitySpec => []ExternalRoleDecides
<1>1. ASSUME IdentityInv, roleGrants # {}
      PROVE  EffectiveRole # {}
  <2> DEFINE first == {r \in roleGrants : \A s \in roleGrants : r.priority <= s.priority}
             P == {r.priority : r \in roleGrants}
  <2>1. \A r \in roleGrants : r.priority \in Nat
    BY <1>1, IdentitiesAssumption DEF IdentityInv, GrantInv, GrantTypeOK
  <2>2. P \in SUBSET Nat /\ P # {}
    BY <1>1, <2>1
  <2>3. PICK n \in P : \A k \in P : n <= k
    BY <2>2, LeastNumber
  <2>4. PICK r \in roleGrants : r.priority = n
    BY <2>3
  <2>5. r \in first
    BY <2>3, <2>4
  <2>6. \A s \in first : s = r
    <3>1. \A s \in first : s \in roleGrants /\ s.priority <= r.priority /\ r.priority <= s.priority
      BY <2>5
    <3>2. \A s \in first : s.priority = r.priority
      BY <2>1, <3>1
    <3> QED  BY <1>1, <3>1, <3>2 DEF IdentityInv, GrantInv, PrioritiesDiffer
  <2>7. first = {r}
    BY <2>5, <2>6
  <2>8. Cardinality(first) = 1
    BY <2>7, FS_Singleton
  <2> QED  BY <2>5, <2>8 DEF EffectiveRole
<1>2. IdentityInv => ExternalRoleDecides
  BY <1>1 DEF ExternalRoleDecides
<1> QED  BY <1>2, IdentityInvariant, PTL

\* A synchronization leaves what is not its own: local memberships, other providers'
\* grants, and the memberships that those stand on.
THEOREM SyncKeepsOthers == IdentitySpec => SyncLeavesOthers
<1> DEFINE Leaves(q) ==
      LET p == call[q].provider IN
      /\ call[q].pc \in {"sync", "stored"} /\ call'[q].pc # call[q].pc
      /\ p \in linked'
      =>
        /\ \A g \in Local : member'[g] = member[g]
        /\ \A m \in grants \union roleGrants :
             m.provider # p => m \in grants' \union roleGrants'
        /\ \A m \in grants : m.provider # p => member'[m.group] # "none"
<1>1. ASSUME IdentityInv, IdentityNext, NEW q \in Calls
      PROVE  Leaves(q)
  <2> SUFFICES ASSUME call[q].pc \in {"sync", "stored"}, call'[q].pc # call[q].pc,
                      call[q].provider \in linked'
               PROVE  /\ \A g \in Local : member'[g] = member[g]
                      /\ \A m \in grants \union roleGrants :
                           m.provider # call[q].provider => m \in grants' \union roleGrants'
                      /\ \A m \in grants :
                           m.provider # call[q].provider => member'[m.group] # "none"
    OBVIOUS
  <2>1. GrantTypeOK /\ call \in [Calls -> Call]
    BY <1>1 DEF IdentityInv, GrantInv, Pipeline
  <2>2. CASE UNCHANGED <<member, grants, roleGrants>>
    BY <2>1, <2>2 DEF GrantTypeOK
  <2>3. CASE Apply(q)
    <3>1. PICK p, values : p = call[q].provider /\ values = call[q].claims
      OBVIOUS
    <3>2. /\ grants' = Kept(p, values) \union Target(p, values)
          /\ member' = Memberships(p, values)
          /\ roleGrants' = {r \in roleGrants : r.provider # p} \union NextRole(p, values)
      BY <2>3, <3>1 DEF Apply
    <3>3. \A m \in grants : m.provider # p => m \in Kept(p, values) /\ m.group \in Groups
      BY <2>1, IdentitiesAssumption DEF Kept, GrantTypeOK
    <3>4. \A g \in Local : g \in Groups /\ member[g] = "local"
      BY DEF Local
    <3> QED  BY <2>1, <3>1, <3>2, <3>3, <3>4, MembershipsOf
  <2>4. ASSUME NEW r \in Calls \ {q}, \A s \in Calls \ {r} : call'[s] = call[s]
        PROVE  FALSE
    BY <2>4
  <2>5. ASSUME NEW p, NEW intents, CascadeIdentity(p, intents), p # call[q].provider
        PROVE  FALSE
    BY <2>5 DEF CascadeIdentity
  <2>6. ASSUME NEW p, NEW intents, CascadeIdentity(p, intents)
        PROVE  FALSE
    BY <2>5, <2>6 DEF CascadeIdentity
  <2>7. CASE SetPassword \/ \E g \in Groups : AddMember(g)
    BY <2>7 DEF SetPassword, AddMember
  <2>8. CASE \E m \in GroupMappings \union RoleMappings : CreateMapping(m) \/ RemoveMapping(m)
    BY <2>8 DEF CreateMapping, RemoveMapping
  <2>9. CASE \E a \in Attempts, p \in Providers, intent \in {"login", "link", "unlink"} :
               StartAuthorization(a, p, intent)
    BY <2>9 DEF StartAuthorization
  <2>10. CASE ApplyFails(q)
    BY <2>2, <2>10 DEF ApplyFails, accountVars
  <2>11. CASE \/ \E p \in Providers : RemoveProvider(p)
              \/ \E r \in Calls : Unlink(r)
    BY <2>6, <2>11 DEF RemoveProvider, Unlink
  <2>12. ASSUME NEW r \in Calls,
                \/ \E a \in Attempts : Callback(r, a) \/ ReadLoginCode(r, a)
                \/ \E p \in Providers : ReadStored(r, p)
                \/ \E values \in SUBSET Values : CompleteLogin(r, values)
                \/ \E g \in Groups : ReadMember(r, g)
                \/ ConsumeRequest(r) \/ CheckUnlink(r) \/ CreateLoginCode(r)
                \/ ClaimLoginCode(r) \/ CreateSession(r) \/ LinkIdentity(r)
         PROVE  UNCHANGED <<member, grants, roleGrants>>
    BY <2>12 DEF Callback, ReadLoginCode, ReadStored, CompleteLogin, ReadMember, ConsumeRequest,
                 CheckUnlink, CreateLoginCode, ClaimLoginCode, CreateSession, LinkIdentity,
                 accountVars
  <2>13. ASSUME NEW r \in Calls, r # q, Apply(r) \/ ApplyFails(r) \/ RemoveMember(r)
         PROVE  FALSE
    <3>1. \A s \in Calls \ {r} : call'[s] = call[s]
      BY <2>1, <2>13 DEF Apply, ApplyFails, RemoveMember, Step, Leave
    <3> QED  BY <2>4, <2>13, <3>1
  <2>14. ~RemoveMember(q)
    BY DEF RemoveMember
  <2> QED  BY <1>1, <2>2, <2>3, <2>7, <2>8, <2>9, <2>10, <2>11, <2>12, <2>13, <2>14
           DEF IdentityNext
<1>2. ASSUME UNCHANGED identityVars, NEW q \in Calls
      PROVE  Leaves(q)
  BY <1>2 DEF identityVars
<1>3. IdentityInv /\ [IdentityNext]_identityVars => [\A q \in Calls : Leaves(q)]_identityVars
  BY <1>1, <1>2
<1> QED  BY <1>3, IdentityInvariant, PTL DEF IdentitySpec, SyncLeavesOthers

===============================================================================

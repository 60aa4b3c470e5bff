----------------------------- MODULE Identities -----------------------------
(***************************************************************************)
(* One user and the identity providers: sign-in attempts with their        *)
(* one-time rows, linking and unlinking, the synchronization of groups and *)
(* roles from claims, and the local administration of the same group       *)
(* memberships.                                                            *)
(*                                                                         *)
(* The synchronization is a SERIALIZABLE transaction and therefore one     *)
(* step, which may fail; everything else reads and writes in separate      *)
(* statements.  Deleting an identity, a mapping or a membership deletes    *)
(* the grants that refer to it (ON DELETE CASCADE).                        *)
(***************************************************************************)
EXTENDS Naturals, FiniteSets

CONSTANTS
  Providers,
  Managed,        \* the providers with groupSyncMode MANAGED, the others ADD_ONLY
  AdminRoles,     \* the providers with allowAdminRoleMapping
  Values,         \* values of the group and role claims
  Groups,
  GroupMappings,  \* records [id, provider, values, group]: values are external id and path
  RoleMappings,   \* records [provider, value, priority, privileged]
  Attempts,       \* sign-in attempts of browsers
  Calls           \* slots for requests the API works on

ASSUME IdentitiesAssumption ==
  /\ Managed \subseteq Providers /\ AdminRoles \subseteq Providers
  /\ GroupMappings \subseteq
       [id : Nat, provider : Providers, values : SUBSET Values, group : Groups]
  /\ RoleMappings \subseteq
       [provider : Providers, value : Values, priority : Nat, privileged : BOOLEAN]
  \* @@unique([providerId, priority])
  /\ \A r, s \in RoleMappings :
       r.provider = s.provider /\ r.priority = s.priority => r = s

VARIABLES
  linked,      \* the providers to which the user has an external identity
  groupMaps,   \* the group mappings that exist
  roleMaps,    \* the role mappings that exist
  claims,      \* lastGroupClaims and lastRoleClaims of each identity
  grants,      \* ExternalGroupMembershipGrant: the mappings granted
  roleGrants,  \* ExternalRoleGrant: the mappings granted
  member,      \* the user's membership of each group
  password,    \* hasLocalPassword
  attempt,     \* the rows of each sign-in attempt
  call         \* the requests in progress

accountVars == <<groupMaps, roleMaps, claims, grants, roleGrants, member>>
identityVars == <<linked, accountVars, password, attempt, call>>

Resting == [pc |-> "idle", attempt |-> "none", provider |-> "none",
            claims |-> {}, group |-> "none"]
Unused == [request |-> "none", code |-> "none", intent |-> "login",
           provider |-> "none", sessions |-> 0]

Attempt == [request : {"none", "open", "gone"}, code : {"none", "open", "used", "gone"},
            intent : {"login", "link", "unlink"}, provider : Providers \union {"none"},
            sessions : Nat]
Call == [pc : {"idle", "consume", "complete", "sync", "code", "stored", "unlink",
               "claim", "session", "demote", "delete"},
         attempt : Attempts \union {"none"}, provider : Providers \union {"none"},
         claims : SUBSET Values, group : Groups \union {"none"}]

IdentityTypeOK ==
  /\ linked \subseteq Providers
  /\ groupMaps \subseteq GroupMappings /\ roleMaps \subseteq RoleMappings
  /\ claims \in [Providers -> SUBSET Values]
  /\ grants \subseteq groupMaps /\ roleGrants \subseteq roleMaps
  /\ \A m \in grants \union roleGrants : m.provider \in linked
  /\ member \in [Groups -> {"none", "external", "local"}]
  /\ \A m \in grants : member[m.group] # "none"
  /\ password \in BOOLEAN
  /\ attempt \in [Attempts -> Attempt]
  /\ call \in [Calls -> Call]

\* An account with a password, or provisioned at its first login (provisionIdentity),
\* linked since to any of the other providers, and synchronized before there were
\* any mappings.
IdentityInit ==
  /\ linked \in SUBSET Providers
  /\ groupMaps = GroupMappings /\ roleMaps = RoleMappings
  /\ claims \in [Providers -> SUBSET Values]
  /\ \A p \in Providers \ linked : claims[p] = {}
  /\ grants = {} /\ roleGrants = {}
  /\ member = [g \in Groups |-> "none"]
  /\ password \in {TRUE, linked = {}}
  /\ attempt = [a \in Attempts |-> Unused]
  /\ call = [q \in Calls |-> Resting]

Enter(q, pc, a, p) ==
  call' = [call EXCEPT ![q] = [Resting EXCEPT !.pc = pc, !.attempt = a, !.provider = p]]
Step(q, pc) == call' = [call EXCEPT ![q].pc = pc]
Leave(q) == call' = [call EXCEPT ![q] = Resting]
MyAttempt(q) == attempt[call[q].attempt]

-----------------------------------------------------------------------------
(* Identities come and go *)

LastMethod == ~password /\ Cardinality(linked) <= 1

\* The rows that go with the identity of a provider, and the open requests with
\* one of the intents.  A request that holds the identity's id does not find it
\* any more, even if the user is linked again, and ends without an effect.
CascadeIdentity(p, intents) ==
  /\ linked' = linked \ {p}
  /\ claims' = [claims EXCEPT ![p] = {}]
  /\ grants' = {m \in grants : m.provider # p}
  /\ roleGrants' = {r \in roleGrants : r.provider # p}
  /\ attempt' = [a \in Attempts |->
       IF attempt[a].provider # p THEN attempt[a]
       ELSE [attempt[a] EXCEPT
               !.code = IF @ = "open" THEN "gone" ELSE @,
               !.request = IF @ = "open" /\ attempt[a].intent \in intents THEN "gone" ELSE @]]
  /\ call' = [q \in Calls |->
       IF /\ call[q].provider = p
          /\ \/ call[q].pc \in {"sync", "code", "stored", "unlink", "session"}
             \/ call[q].pc = "complete" /\ MyAttempt(q).intent \in intents
       THEN Resting ELSE call[q]]

\* linkIdentity
LinkIdentity(q) ==
  /\ call[q].pc = "complete" /\ MyAttempt(q).intent = "link"
  /\ linked' = linked \union {call[q].provider}
  /\ Leave(q)
  /\ UNCHANGED <<accountVars, password, attempt>>

\* unlinkIdentity reads the identity and counts the others.
CheckUnlink(q) ==
  /\ call[q].pc = "complete" /\ MyAttempt(q).intent = "unlink"
  /\ IF call[q].provider \in linked /\ ~LastMethod THEN Step(q, "unlink") ELSE Leave(q)
  /\ UNCHANGED <<linked, accountVars, password, attempt>>

Unlink(q) ==
  /\ call[q].pc = "unlink"
  /\ CascadeIdentity(call[q].provider, {"unlink"})
  /\ UNCHANGED <<groupMaps, roleMaps, member, password>>

\* remove: the provider goes with its mappings and identities.
RemoveProvider(p) ==
  /\ CascadeIdentity(p, {"login", "link", "unlink"})
  /\ groupMaps' = {m \in groupMaps : m.provider # p}
  /\ roleMaps' = {r \in roleMaps : r.provider # p}
  /\ UNCHANGED <<member, password>>

\* createGroupMapping and createRoleMapping
CreateMapping(m) ==
  /\ m \notin groupMaps \union roleMaps
  /\ groupMaps' = groupMaps \union ({m} \intersect GroupMappings)
  /\ roleMaps' = roleMaps \union ({m} \intersect RoleMappings)
  /\ UNCHANGED <<linked, claims, grants, roleGrants, member, password, attempt, call>>

\* Mutant of RemoveMapping: the grants of the mapping stay.
RemoveMappingOnly(m) ==
  /\ m \in groupMaps \union roleMaps
  /\ groupMaps' = groupMaps \ {m} /\ roleMaps' = roleMaps \ {m}
  /\ UNCHANGED <<linked, claims, grants, roleGrants, member, password, attempt, call>>

\* removeGroupMapping and removeRoleMapping; the membership itself stays.
RemoveMapping(m) ==
  /\ m \in groupMaps \union roleMaps
  /\ groupMaps' = groupMaps \ {m} /\ roleMaps' = roleMaps \ {m}
  /\ grants' = grants \ {m} /\ roleGrants' = roleGrants \ {m}
  /\ UNCHANGED <<linked, claims, member, password, attempt, call>>

\* changePassword or a reset of a user without a local password.
SetPassword ==
  /\ ~password
  /\ password' = TRUE
  /\ UNCHANGED <<linked, accountVars, attempt, call>>

-----------------------------------------------------------------------------
(* A sign-in attempt *)

\* startAuthorization, for unlink after startUnlink's look at the other methods.
StartAuthorization(a, p, intent) ==
  /\ attempt[a].request = "none"
  /\ intent = "unlink" => p \in linked /\ ~LastMethod
  /\ attempt' = [attempt EXCEPT ![a] = [Unused EXCEPT !.request = "open",
                                        !.intent = intent, !.provider = p]]
  /\ UNCHANGED <<linked, accountVars, password, call>>

\* The browser comes back, perhaps twice; the callback finds the request.
Callback(q, a) ==
  /\ call[q].pc = "idle"
  /\ attempt[a].request = "open"
  /\ Enter(q, "consume", a, attempt[a].provider)
  /\ UNCHANGED <<linked, accountVars, password, attempt>>

\* deleteMany must report one deleted row.
ConsumeRequest(q) ==
  /\ call[q].pc = "consume"
  /\ IF MyAttempt(q).request = "open"
     THEN attempt' = [attempt EXCEPT ![call[q].attempt].request = "gone"] /\ Step(q, "complete")
     ELSE UNCHANGED attempt /\ Leave(q)
  /\ UNCHANGED <<linked, accountVars, password>>

\* The token endpoint answers with claims; the identity is looked up by subject.
\* Without one the login ends, or provisions another user.
CompleteLogin(q, values) ==
  /\ call[q].pc = "complete" /\ MyAttempt(q).intent = "login"
  /\ IF call[q].provider \in linked
     THEN call' = [call EXCEPT ![q].pc = "sync", ![q].claims = values]
     ELSE Leave(q)
  /\ UNCHANGED <<linked, accountVars, password, attempt>>

\* After the synchronization: the login code, which needs the identity.
CreateLoginCode(q) ==
  /\ call[q].pc = "code"
  /\ attempt' = IF call[q].provider \in linked
                THEN [attempt EXCEPT ![call[q].attempt].code = "open"] ELSE attempt
  /\ Leave(q)
  /\ UNCHANGED <<linked, accountVars, password>>

\* exchangeLoginCode reads the code.
ReadLoginCode(q, a) ==
  /\ call[q].pc = "idle"
  /\ attempt[a].code = "open"
  /\ Enter(q, "claim", a, attempt[a].provider)
  /\ UNCHANGED <<linked, accountVars, password, attempt>>

\* Mutant of ClaimLoginCode: usedAt is set, whatever it was.
ClaimLoginCodeAgain(q) ==
  /\ call[q].pc = "claim"
  /\ IF MyAttempt(q).code \in {"open", "used"}
     THEN attempt' = [attempt EXCEPT ![call[q].attempt].code = "used"] /\ Step(q, "session")
     ELSE UNCHANGED attempt /\ Leave(q)
  /\ UNCHANGED <<linked, accountVars, password>>

\* The conditional updateMany.
ClaimLoginCode(q) ==
  /\ call[q].pc = "claim"
  /\ IF MyAttempt(q).code = "open"
     THEN attempt' = [attempt EXCEPT ![call[q].attempt].code = "used"] /\ Step(q, "session")
     ELSE UNCHANGED attempt /\ Leave(q)
  /\ UNCHANGED <<linked, accountVars, password>>

\* createSessionForUser with the identity, which may have gone meanwhile.
CreateSession(q) ==
  /\ call[q].pc = "session"
  /\ attempt' = IF call[q].provider \in linked
                THEN [attempt EXCEPT ![call[q].attempt].sessions = @ + 1] ELSE attempt
  /\ Leave(q)
  /\ UNCHANGED <<linked, accountVars, password>>

-----------------------------------------------------------------------------
(* Synchronization *)

\* synchronizeStored reads the stored claims before its transaction begins.
ReadStored(q, p) ==
  /\ call[q].pc = "idle"
  /\ p \in linked
  /\ call' = [call EXCEPT ![q] = [Resting EXCEPT !.pc = "stored", !.provider = p,
                                                 !.claims = claims[p]]]
  /\ UNCHANGED <<linked, accountVars, password, attempt>>

Target(p, values) ==
  {m \in groupMaps : m.provider = p /\ m.values \intersect values # {}}

Ambiguous(p, values) ==
  \E v \in values : \E m, n \in groupMaps :
    m # n /\ {m.provider, n.provider} = {p} /\ v \in m.values \intersect n.values

\* The matching role mapping that comes first, as a set of at most one.
NextRole(p, values) ==
  LET matching == {r \in roleMaps : r.provider = p /\ r.value \in values}
  IN {r \in matching : \A s \in matching : r.priority <= s.priority}

\* Mutant of RoleRefused: equal priorities of two providers are accepted.
RoleRefusedAdminOnly(p, values) ==
  \E r \in NextRole(p, values) : r.privileged /\ p \notin AdminRoles

RoleRefused(p, values) ==
  \E r \in NextRole(p, values) :
    \/ r.privileged /\ p \notin AdminRoles
    \/ \E s \in roleGrants : s.provider # p /\ s.priority = r.priority

Kept(p, values) ==
  IF p \in Managed THEN {m \in grants : m.provider # p \/ m \in Target(p, values)}
  ELSE grants

Local == {g \in Groups : member[g] = "local"}

\* Mutant of Memberships: a row is removed with the provider's own grant on it.
MembershipsOfProvider(p, values) ==
  LET after == Kept(p, values) \union Target(p, values)
      removed == {m.group : m \in grants \ after}
  IN [g \in Groups |->
       IF member[g] = "none" /\ \E m \in after : m.group = g THEN "external"
       ELSE IF g \in removed \ Local THEN "none"
       ELSE member[g]]

\* Rows are created for new grants, and removed with the last grant on them unless
\* they are local too.
Memberships(p, values) ==
  LET after == Kept(p, values) \union Target(p, values)
      removed == {m.group : m \in grants \ after}
  IN [g \in Groups |->
       IF member[g] = "none" /\ \E m \in after : m.group = g THEN "external"
       ELSE IF g \in removed \ Local /\ ~\E m \in after : m.group = g THEN "none"
       ELSE member[g]]

\* apply: on the claims read before, and everything else as it is now.
Apply(q) ==
  LET p == call[q].provider
      values == call[q].claims
  IN
  /\ call[q].pc \in {"sync", "stored"}
  /\ p \in linked
  /\ ~Ambiguous(p, values) /\ ~RoleRefused(p, values)
  /\ grants' = Kept(p, values) \union Target(p, values)
  /\ member' = Memberships(p, values)
  /\ roleGrants' = {r \in roleGrants : r.provider # p} \union NextRole(p, values)
  /\ claims' = [claims EXCEPT ![p] = values]
  /\ IF call[q].pc = "sync" THEN Step(q, "code") ELSE Leave(q)
  /\ UNCHANGED <<linked, groupMaps, roleMaps, password, attempt>>

\* The identity is gone, buildPreview throws, or the database reports a conflict
\* of serializable transactions: the login or the refresh fails.
ApplyFails(q) ==
  /\ call[q].pc \in {"sync", "stored"}
  /\ Leave(q)
  /\ UNCHANGED <<linked, accountVars, password, attempt>>

-----------------------------------------------------------------------------
(* Local administration of the memberships *)

\* addMember, which takes over a row that is only external.
AddMember(g) ==
  /\ g \notin Local
  /\ member' = [member EXCEPT ![g] = "local"]
  /\ UNCHANGED <<linked, groupMaps, roleMaps, claims, grants, roleGrants, password,
                 attempt, call>>

\* removeMember reads the row and its number of external grants.
ReadMember(q, g) ==
  /\ call[q].pc = "idle"
  /\ g \in Local
  /\ call' = [call EXCEPT ![q] = [Resting EXCEPT !.group = g,
       !.pc = IF \E m \in grants : m.group = g THEN "demote" ELSE "delete"]]
  /\ UNCHANGED <<linked, accountVars, password, attempt>>

\* Then it updates the row or deletes it, with the grants it has by now.
RemoveMember(q) ==
  LET g == call[q].group IN
  /\ call[q].pc \in {"demote", "delete"}
  /\ IF member[g] = "none" THEN UNCHANGED <<member, grants>>
     ELSE IF call[q].pc = "demote"
     THEN member' = [member EXCEPT ![g] = "external"] /\ UNCHANGED grants
     ELSE /\ member' = [member EXCEPT ![g] = "none"]
          /\ grants' = {m \in grants : m.group # g}
  /\ Leave(q)
  /\ UNCHANGED <<linked, groupMaps, roleMaps, claims, roleGrants, password, attempt>>

-----------------------------------------------------------------------------
IdentityNext ==
  \/ SetPassword
  \/ \E p \in Providers : RemoveProvider(p)
  \/ \E m \in GroupMappings \union RoleMappings : CreateMapping(m) \/ RemoveMapping(m)
  \/ \E g \in Groups : AddMember(g)
  \/ \E a \in Attempts, p \in Providers, intent \in {"login", "link", "unlink"} :
       StartAuthorization(a, p, intent)
  \/ \E q \in Calls :
       \/ \E a \in Attempts : Callback(q, a) \/ ReadLoginCode(q, a)
       \/ \E p \in Providers : ReadStored(q, p)
       \/ \E values \in SUBSET Values : CompleteLogin(q, values)
       \/ \E g \in Groups : ReadMember(q, g)
       \/ ConsumeRequest(q) \/ LinkIdentity(q) \/ CheckUnlink(q) \/ Unlink(q)
       \/ CreateLoginCode(q) \/ ClaimLoginCode(q) \/ CreateSession(q)
       \/ Apply(q) \/ ApplyFails(q) \/ RemoveMember(q)

IdentitySpec == IdentityInit /\ [][IdentityNext]_identityVars

-----------------------------------------------------------------------------
(* Properties *)

\* withEffectiveRole: the grant that comes first, or the local role if there is
\* none or two share the first priority.
EffectiveRole ==
  LET first == {r \in roleGrants : \A s \in roleGrants : r.priority <= s.priority}
  IN IF Cardinality(first) = 1 THEN first ELSE {}

\* Of the external roles granted through several providers one is always in
\* effect: buildPreview refuses every grant that withEffectiveRole would answer
\* with the local role, in whatever order the providers are synchronized.
ExternalRoleDecides == roleGrants # {} => EffectiveRole # {}

\* A managed provider's grants are always backed by the claims stored with the
\* identity, also after mappings, identities and memberships were removed between
\* the reading of the claims and their application.
GrantsFollowClaims ==
  /\ \A m \in grants : m.provider \in Managed =>
       m \in groupMaps /\ m.values \intersect claims[m.provider] # {}
  /\ \A r \in roleGrants : r \in roleMaps /\ r.value \in claims[r.provider]

\* A synchronization leaves local memberships, the grants of other providers and
\* the memberships that those back as they are.
SyncLeavesOthers ==
  [][\A q \in Calls :
       LET p == call[q].provider IN
       /\ call[q].pc \in {"sync", "stored"} /\ call'[q].pc # call[q].pc
       /\ p \in linked'
       =>
         /\ \A g \in Local : member'[g] = member[g]
         /\ \A m \in grants \union roleGrants :
              m.provider # p => m \in grants' \union roleGrants'
         /\ \A m \in grants : m.provider # p => member'[m.group] # "none"]_identityVars

\* One sign-in attempt ends in at most one session, although the browser may
\* deliver the callback and the login code more than once.
OneSessionPerAttempt == \A a \in Attempts : attempt[a].sessions <= 1
=============================================================================

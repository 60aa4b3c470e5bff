--------------------------- MODULE ResourceAccess ---------------------------
(***************************************************************************)
(* Who may do one action to the content of a space: rules for users and    *)
(* groups along the way from the content to its space, boundaries of       *)
(* inheritance, and the visibility of the space.  All users have the       *)
(* action globally, without which evaluate denies everything.              *)
(*                                                                         *)
(* The action is update, because it decides as well who may restrict the   *)
(* space: spaces.update checks, reads the visibility and writes in         *)
(* separate statements.                                                    *)
(***************************************************************************)
EXTENDS Naturals, Sequences, FiniteSets

CONSTANTS
  Path,        \* the targets from the content up to its space
  Users,       \* the users whose access is followed
  AclGroups,
  MaxRules,      \* bound: rules that administrators create, next to owner rules
  MaxBoundaries  \* bound: boundaries at a time

ASSUME AccessAssumption ==
  /\ Users \intersect AclGroups = {} /\ "nobody" \notin Users
  /\ Len(Path) \in Nat \ {0}
  /\ {MaxRules, MaxBoundaries} \subseteq Nat

VARIABLES
  rules,       \* ResourceAclEntry rows
  boundaries,  \* the targets with a ResourceAclBoundary
  members,     \* the members of each group
  visibility,  \* of the space
  update       \* an update of the space that a user has in progress

accessVars == <<rules, boundaries, members, visibility, update>>

Effects == {"allow", "deny"}
SpaceIndex == Len(Path)
Space == Path[SpaceIndex]
NoUpdate == [by |-> "nobody", to |-> "open", found |-> "open"]
Rule(t, who, effect, inherit) ==
  [target |-> t, recipient |-> who, effect |-> effect, inherit |-> inherit]

\* Besides the types: targetKey, recipientKey and action are unique together.
AccessTypeOK ==
  /\ rules \subseteq [target : {Path[i] : i \in 1..SpaceIndex}, recipient : Users \union AclGroups,
                      effect : Effects, inherit : BOOLEAN]
  /\ \A r, s \in rules : r.target = s.target /\ r.recipient = s.recipient => r = s
  /\ boundaries \subseteq {Path[i] : i \in 1..SpaceIndex}
  /\ members \in [AclGroups -> SUBSET Users]
  /\ visibility \in {"open", "restricted"}
  /\ update \in [by : Users \union {"nobody"}, to : {"open", "restricted"},
                found : {"open", "restricted"}]

AccessInit ==
  /\ rules = {} /\ boundaries = {}
  /\ members = [g \in AclGroups |-> {}]
  /\ visibility = "open"
  /\ update = NoUpdate

-----------------------------------------------------------------------------
(* evaluate, and evaluateLoadedHierarchy for lists *)

\* The rules of the target Path[j] for the user's access to Path[i].
Applicable(u, i, j) ==
  {r \in rules : /\ r.target = Path[j]
                 /\ j = i \/ r.inherit
                 /\ \/ r.recipient = u
                    \/ r.recipient \in AclGroups /\ u \in members[r.recipient]}

\* Mutant of Decides: a rule that is not inherited ends the search all the same.
DecidesAlways(u, i, j) ==
  \/ Applicable(u, j, j) # {}
  \/ Path[j] \in boundaries

Decides(u, i, j) ==
  \/ Applicable(u, i, j) # {}
  \/ Path[j] \in boundaries

\* A rule for the user comes before those for groups, and among these a DENY.
RulesAllow(u, applicable) ==
  LET own == {r \in applicable : r.recipient = u} IN
  \A r \in IF own # {} THEN own ELSE applicable : r.effect = "allow"

\* The nearest target with an applicable rule or a boundary decides.
Allowed(u, i) ==
  LET deciding == {j \in i..SpaceIndex : Decides(u, i, j)}
      nearest  == CHOOSE j \in deciding : \A k \in deciding : j <= k
  IN IF deciding # {} /\ Applicable(u, i, nearest) # {}
     THEN RulesAllow(u, Applicable(u, i, nearest))
     ELSE visibility = "open"

-----------------------------------------------------------------------------
(* Administration of rules and boundaries *)

CreateRule(t, who, effect, inherit) ==
  /\ \A r \in rules : ~(r.target = t /\ r.recipient = who)
  /\ Cardinality(rules) < MaxRules
  /\ rules' = rules \union {Rule(t, who, effect, inherit)}
  /\ UNCHANGED <<boundaries, members, visibility, update>>

UpdateRule(r, effect, inherit) ==
  /\ r \in rules /\ <<effect, inherit>> # <<r.effect, r.inherit>>
  /\ rules' = (rules \ {r}) \union {Rule(r.target, r.recipient, effect, inherit)}
  /\ UNCHANGED <<boundaries, members, visibility, update>>

RemoveRule(r) ==
  /\ r \in rules
  /\ rules' = rules \ {r}
  /\ UNCHANGED <<boundaries, members, visibility, update>>

SetBoundary(t) ==
  /\ t \notin boundaries   \* otherwise the upsert changes nothing
  /\ Cardinality(boundaries) < MaxBoundaries
  /\ boundaries' = boundaries \union {t}
  /\ UNCHANGED <<rules, members, visibility, update>>

RemoveBoundary(t) ==
  /\ t \in boundaries
  /\ boundaries' = boundaries \ {t}
  /\ UNCHANGED <<rules, members, visibility, update>>

\* addMember and removeMember of the groups service.
ChangeMembers(g, u) ==
  /\ members' = [members EXCEPT ![g] = IF u \in @ THEN @ \ {u} ELSE @ \union {u}]
  /\ UNCHANGED <<rules, boundaries, visibility, update>>

-----------------------------------------------------------------------------
(* spaces.update *)

CheckSpaceUpdate(u, to) ==
  /\ update.by = "nobody"
  /\ Allowed(u, SpaceIndex)
  /\ update' = [by |-> u, to |-> to, found |-> visibility]
  /\ UNCHANGED <<rules, boundaries, members, visibility>>

\* createOwnerRules with skipDuplicates: a rule that the user has on the space stays.
OwnerRules(u) ==
  IF \E r \in rules : r.target = Space /\ r.recipient = u
  THEN {} ELSE {Rule(Space, u, "allow", TRUE)}

\* Owner rules are made in the transaction that restricts a space that was open when
\* it was read.
WriteSpaceUpdate(u) ==
  /\ update.by = u
  /\ rules' = rules \union
       IF update.to = "restricted" /\ update.found = "open" THEN OwnerRules(u) ELSE {}
  /\ visibility' = update.to
  /\ update' = NoUpdate
  /\ UNCHANGED <<boundaries, members>>

\* The same by a user whose access is not followed here.
ForeignSpaceUpdate(to) ==
  /\ visibility # to
  /\ visibility' = to
  /\ UNCHANGED <<rules, boundaries, members, update>>

Targets == {Path[i] : i \in 1..SpaceIndex}

AccessNext ==
  \/ \E t \in Targets : SetBoundary(t) \/ RemoveBoundary(t)
  \/ \E t \in Targets, who \in Users \union AclGroups, effect \in Effects, inherit \in BOOLEAN :
       CreateRule(t, who, effect, inherit)
  \/ \E r \in rules :
       \/ RemoveRule(r)
       \/ \E effect \in Effects, inherit \in BOOLEAN : UpdateRule(r, effect, inherit)
  \/ \E g \in AclGroups, u \in Users : ChangeMembers(g, u)
  \/ \E u \in Users : \/ WriteSpaceUpdate(u)
                      \/ \E to \in {"open", "restricted"} : CheckSpaceUpdate(u, to)
  \/ \E to \in {"open", "restricted"} : ForeignSpaceUpdate(to)

AccessSpec == AccessInit /\ [][AccessNext]_accessVars

-----------------------------------------------------------------------------
\* Whatever other rules, boundaries and groups there are, a rule that allows never
\* takes access away and a rule that denies never gives any, neither when it is created
\* nor when its effect is switched.
RulesMeanWhatTheySay ==
  visibility' = visibility => \A r \in rules' \ rules :
    (\A s \in rules : s.target = r.target /\ s.recipient = r.recipient => s.inherit = r.inherit)
    => \A u \in Users, i \in 1..SpaceIndex :
         IF r.effect = "allow" THEN Allowed(u, i)' \/ ~Allowed(u, i)
                               ELSE Allowed(u, i) \/ ~Allowed(u, i)'

\* The owner keeps what they had when they restrict a space that was open, except
\* below a boundary, whose content follows the visibility, and except below a rule of
\* their own on the space that is not inherited.
OwnerKeepsAccess ==
  update' = NoUpdate /\ update.to = "restricted" /\ update.found = "open" =>
    \A u \in Users \intersect {update.by}, i \in 1..SpaceIndex :
      \/ \E j \in i..SpaceIndex : Path[j] \in boundaries
      \/ \E r \in rules : r.target = Space /\ r.recipient = u /\ ~r.inherit
      \/ Allowed(u, i) => Allowed(u, i)'

\* What evaluate answers after a change of rules or of the visibility is what the one
\* who made it asked for.
AccessChangesAsAsked == [][RulesMeanWhatTheySay /\ OwnerKeepsAccess]_accessVars
=============================================================================

--------------------------- MODULE StandardReview ---------------------------
(***************************************************************************)
(* The life of one standard: edits of its text and its rules, each with a  *)
(* snapshot of the version before; submission, approval and deprecation;   *)
(* and its release for MCP.  Every handler reads the standard first and    *)
(* writes later, without asking whether it is still the one it read.       *)
(***************************************************************************)
EXTENDS Naturals, FiniteSets

CONSTANTS
  Reviewers,    \* slots for handlers in progress
  MaxRevision   \* bound on the version number

ASSUME ReviewAssumption == MaxRevision \in Nat \ {0}

VARIABLES
  standard,    \* the row: status, version, mcpVisible; a version number names a text
  snapshots,   \* the versions with a row in StandardVersion
  review,      \* the handlers in progress
  approved,    \* history: the last version that approve had read, 0 for none
  overtaken    \* history: a write depended on a row that had changed meanwhile

reviewVars == <<standard, snapshots, review, approved, overtaken>>

Statuses == {"draft", "review", "active", "deprecated", "gone"}
Reads == {"text", "rule", "release", "approve"}
NoReview == [pc |-> "idle", kind |-> "text", status |-> "gone", version |-> 0]

ReviewTypeOK ==
  /\ standard \in [status : Statuses, version : 1..MaxRevision, visible : BOOLEAN]
  /\ snapshots \subseteq 1..MaxRevision
  /\ review \in [Reviewers -> [pc : {"idle", "read", "write"}, kind : Reads,
                               status : Statuses, version : 0..MaxRevision]]
  /\ approved \in 0..MaxRevision
  /\ overtaken \in BOOLEAN

\* create, by a user or by createStandardDraft.
ReviewInit ==
  /\ standard = [status |-> "draft", version |-> 1, visible |-> FALSE]
  /\ snapshots = {}
  /\ review = [r \in Reviewers |-> NoReview]
  /\ approved = 0
  /\ overtaken = FALSE

Exists == standard.status # "gone"
Done(r) == review' = [review EXCEPT ![r] = NoReview]

-----------------------------------------------------------------------------
\* Who may go on after the first read: update not on deprecated standards, a
\* release only of active ones, approve only in review.
Permits(kind, status) ==
  CASE kind = "text" -> status # "deprecated"
    [] kind = "rule" -> TRUE
    [] kind = "release" -> status = "active"
    [] kind = "approve" -> status = "review"

\* update, addRule, updateRule, removeRule, update with mcpVisible only, approve.
ReadStandard(r, kind) ==
  /\ review[r].pc = "idle"
  /\ Exists /\ Permits(kind, standard.status)
  /\ review' = [review EXCEPT ![r] =
       [pc |-> IF kind \in {"text", "rule"} THEN "read" ELSE "write", kind |-> kind,
        status |-> standard.status, version |-> standard.version]]
  /\ UNCHANGED <<standard, snapshots, approved, overtaken>>

\* snapshot: an upsert that leaves the first snapshot of a version.
Snapshot(r) ==
  /\ review[r].pc = "read"
  /\ IF Exists
     THEN /\ snapshots' = snapshots \union {review[r].version}
          /\ review' = [review EXCEPT ![r].pc = "write"]
     ELSE UNCHANGED snapshots /\ Done(r)
  /\ UNCHANGED <<standard, approved, overtaken>>

\* Mutant of WriteContent: an active standard stays active.
WriteContentActive(r) ==
  /\ review[r].pc = "write" /\ review[r].kind \in {"text", "rule"}
  /\ Exists /\ standard.version < MaxRevision
  /\ standard' = [standard EXCEPT !.version = @ + 1]
  /\ overtaken' = \/ overtaken
                  \/ standard.version # review[r].version
                  \/ standard.status = "active" /\ review[r].status # "active"
  /\ Done(r)
  /\ UNCHANGED <<snapshots, approved>>

\* The text and the next version; what was active goes back to review.  An update
\* may take the standard away from MCP as well.
WriteContent(r) ==
  /\ review[r].pc = "write" /\ review[r].kind \in {"text", "rule"}
  /\ Exists /\ standard.version < MaxRevision
  /\ \E hide \in {FALSE, review[r].kind = "text"} :
       standard' = [standard EXCEPT !.version = @ + 1,
         !.status = IF review[r].status = "active" THEN "review" ELSE @,
         !.visible = @ /\ ~hide /\ review[r].status # "active"]
  /\ overtaken' = \/ overtaken
                  \/ standard.version # review[r].version
                  \/ standard.status = "active" /\ review[r].status # "active"
  /\ Done(r)
  /\ UNCHANGED <<snapshots, approved>>

\* mcpVisible alone.
WriteVisible(r) ==
  /\ review[r].pc = "write" /\ review[r].kind = "release"
  /\ Exists
  /\ standard' = [standard EXCEPT !.visible = TRUE]
  /\ overtaken' = (overtaken \/ standard.status # "active")
  /\ Done(r)
  /\ UNCHANGED <<snapshots, approved>>

WriteApproval(r) ==
  /\ review[r].pc = "write" /\ review[r].kind = "approve"
  /\ Exists
  /\ standard' = [standard EXCEPT !.status = "active"]
  /\ approved' = review[r].version
  /\ overtaken' = (overtaken \/ standard.version # review[r].version)
  /\ Done(r)
  /\ UNCHANGED snapshots

\* The row has gone, or the process stops between two statements.
StopReview(r) ==
  /\ review[r].pc # "idle"
  /\ Done(r)
  /\ UNCHANGED <<standard, snapshots, approved, overtaken>>

\* update with mcpVisible false, which any status but deprecated permits.
Hide ==
  /\ standard.status \notin {"deprecated", "gone"}
  /\ standard' = [standard EXCEPT !.visible = FALSE]
  /\ UNCHANGED <<snapshots, review, approved, overtaken>>

\* submit, whatever the status.
Submit ==
  /\ Exists
  /\ standard' = [standard EXCEPT !.status = "review", !.visible = FALSE]
  /\ UNCHANGED <<snapshots, review, approved, overtaken>>

Deprecate ==
  /\ Exists
  /\ standard' = [standard EXCEPT !.status = "deprecated", !.visible = FALSE]
  /\ UNCHANGED <<snapshots, review, approved, overtaken>>

\* remove, with the versions.
RemoveStandard ==
  /\ Exists
  /\ standard' = [standard EXCEPT !.status = "gone", !.visible = FALSE]
  /\ snapshots' = {}
  /\ UNCHANGED <<review, approved, overtaken>>

ReviewNext ==
  \/ Hide \/ Submit \/ Deprecate \/ RemoveStandard
  \/ \E r \in Reviewers :
       \/ \E kind \in Reads : ReadStandard(r, kind)
       \/ Snapshot(r) \/ WriteContent(r) \/ WriteVisible(r) \/ WriteApproval(r)
       \/ StopReview(r)

ReviewSpec == ReviewInit /\ [][ReviewNext]_reviewVars

-----------------------------------------------------------------------------
\* As long as no approval, release or edit was written on a version or into a status
\* other than the one it depends on, an active standard has the text that was
\* approved, MCP is shown active standards only, and every earlier version has its
\* snapshot.  Submissions and deprecations may come between any two statements, and
\* handlers may stop between theirs.
ActiveIsReviewed ==
  ~overtaken =>
    /\ standard.status = "active" => approved = standard.version
    /\ standard.visible => standard.status = "active"
    /\ Exists => 1..(standard.version - 1) \subseteq snapshots
=============================================================================

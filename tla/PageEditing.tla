----------------------------- MODULE PageEditing -----------------------------
(***************************************************************************)
(* One wiki page under concurrent edits: updates of the web editor, which  *)
(* read the page and write it without a condition; guarded updates of MCP  *)
(* clients, which send the version they know; checkboxes, which rewrite    *)
(* the content without a new version; and the trash.                       *)
(***************************************************************************)
EXTENDS Naturals, FiniteSets

CONSTANTS
  Editors,     \* slots for edits in progress
  MaxContents, \* bound on the contents written
  MaxVersion   \* bound on the version number

ASSUME EditingAssumption == {MaxContents, MaxVersion} \subseteq Nat \ {0}

VARIABLES
  page,       \* the row: state, version, content (a number), status
  versions,   \* the rows of PageVersion: version and content
  edgesOf,    \* the content from which the rows of PageLink were derived
  edit,       \* the edits in progress
  written,    \* the number of contents written so far
  replaced,   \* history: the contents that an update has replaced
  raced,      \* history: an unguarded write has landed on a page it had not read
  unseen      \* history: an MCP client has replaced what it had not seen or may not edit

editingVars == <<page, versions, edgesOf, edit, written, replaced, raced, unseen>>

Contents == 1..MaxContents
NoEdit == [pc |-> "idle", kind |-> "web", known |-> 0, seen |-> 0, version |-> 0,
           content |-> 0, status |-> "draft"]

Edit == [pc : {"idle", "called", "checked", "read", "links"},
         kind : {"web", "mcp", "box"}, known : 0..MaxVersion, seen : 0..MaxContents,
         version : 0..MaxVersion, content : 0..MaxContents,
         status : {"draft", "published"}]

EditingTypeOK ==
  /\ page \in [state : {"live", "trash", "gone"}, version : 1..MaxVersion,
              content : Contents, status : {"draft", "published"}]
  /\ versions \subseteq [version : 1..MaxVersion, content : Contents]
  /\ edgesOf \in Contents
  /\ edit \in [Editors -> Edit]
  /\ written \in Contents
  /\ replaced \subseteq Contents
  /\ raced \in BOOLEAN /\ unseen \in BOOLEAN

\* create, and the first syncLinks.
EditingInit ==
  /\ page = [state |-> "live", version |-> 1, content |-> 1, status |-> "draft"]
  /\ versions = {}
  /\ edgesOf = 1
  /\ edit = [e \in Editors |-> NoEdit]
  /\ written = 1
  /\ replaced = {} /\ raced = FALSE /\ unseen = FALSE

IsLive == page.state = "live"
EndEdit(e) == edit' = [edit EXCEPT ![e] = NoEdit]
Changed(e) == <<page.version, page.content, page.status>> #
              <<edit[e].version, edit[e].content, edit[e].status>>

-----------------------------------------------------------------------------
\* An MCP client calls updatePage with the version of the page it knows.
CallTool(e) ==
  /\ edit[e].pc = "idle"
  /\ edit' = [edit EXCEPT ![e] = [NoEdit EXCEPT !.pc = "called", !.kind = "mcp",
                                  !.known = page.version, !.seen = page.content]]
  /\ UNCHANGED <<page, versions, edgesOf, written, replaced, raced, unseen>>

\* updatePage looks at findUpdateState: drafts only.
CheckDraft(e) ==
  /\ edit[e].pc = "called"
  /\ IF IsLive /\ page.status = "draft" THEN edit' = [edit EXCEPT ![e].pc = "checked"]
     ELSE EndEdit(e)
  /\ UNCHANGED <<page, versions, edgesOf, written, replaced, raced, unseen>>

\* update and toggleCheckbox read the row; update compares the version.
ReadPage(e, kind) ==
  /\ edit[e].pc = IF kind = "mcp" THEN "checked" ELSE "idle"
  /\ IF IsLive /\ (kind = "mcp" => page.version = edit[e].known)
     THEN edit' = [edit EXCEPT ![e].pc = "read", ![e].kind = kind,
                     ![e].version = page.version, ![e].content = page.content,
                     ![e].status = page.status]
     ELSE EndEdit(e)
  /\ UNCHANGED <<page, versions, edgesOf, written, replaced, raced, unseen>>

\* Mutant of Lands: the where clause of the update asks for the id only.
LandsAnyVersion(e) == IsLive

\* The where clause: not in the trash, and with a guard the version.
Lands(e) == IsLive /\ (edit[e].kind = "mcp" => page.version = edit[e].known)

\* The transaction of update.  The snapshot and the version come from the row read
\* before; the web editor may publish, and an update may leave the content alone.
WriteUpdate(e, content, status) ==
  /\ edit[e].pc = "read" /\ edit[e].kind \in {"web", "mcp"}
  /\ Lands(e)
  /\ edit[e].version < MaxVersion
  /\ content \in {page.content, written + 1} \intersect Contents
  /\ status \in IF edit[e].kind = "web" THEN {"draft", "published"} ELSE {page.status}
  /\ page' = [page EXCEPT !.version = edit[e].version + 1, !.content = content,
                          !.status = status]
  /\ versions' = versions \union
       {[version |-> edit[e].version, content |-> edit[e].content]}
  /\ edit' = [edit EXCEPT ![e].pc = "links", ![e].content = content]
  /\ written' = IF content = written + 1 THEN content ELSE written
  /\ replaced' = IF content = page.content THEN replaced ELSE replaced \union {page.content}
  /\ raced' = (raced \/ (edit[e].kind = "web" /\ Changed(e)))
  /\ unseen' = (unseen \/ (edit[e].kind = "mcp" /\
                  (page.content # edit[e].seen \/ page.status # "draft")))
  /\ UNCHANGED edgesOf

\* P2025: no row meets the where clause, nothing is written.
UpdateConflicts(e) ==
  /\ edit[e].pc = "read"
  /\ ~Lands(e)
  /\ EndEdit(e)
  /\ UNCHANGED <<page, versions, edgesOf, written, replaced, raced, unseen>>

\* syncLinks and syncMediaReferences, after the transaction.
SyncLinks(e) ==
  /\ edit[e].pc = "links"
  /\ edgesOf' = edit[e].content
  /\ EndEdit(e)
  /\ UNCHANGED <<page, versions, written, replaced, raced, unseen>>

\* The process stops before, or the page has gone.
SyncLinksFails(e) ==
  /\ edit[e].pc = "links"
  /\ EndEdit(e)
  /\ UNCHANGED <<page, versions, edgesOf, written, replaced, raced, unseen>>

\* toggleCheckbox writes the content it read, with the box ticked.
WriteCheckbox(e) ==
  /\ edit[e].pc = "read" /\ edit[e].kind = "box"
  /\ IsLive
  /\ written < MaxContents
  /\ page' = [page EXCEPT !.content = written + 1]
  /\ written' = written + 1
  /\ raced' = \/ raced \/ page.content # edit[e].content
              \/ \E f \in Editors : edit[f].kind = "mcp"
  /\ EndEdit(e)
  /\ UNCHANGED <<versions, edgesOf, replaced, unseen>>

-----------------------------------------------------------------------------
\* remove, restore and permanentRemove or emptyTrash; versions go with the page.
MoveToTrash ==
  /\ IsLive
  /\ page' = [page EXCEPT !.state = "trash"]
  /\ UNCHANGED <<versions, edgesOf, edit, written, replaced, raced, unseen>>

RestorePage ==
  /\ page.state = "trash"
  /\ page' = [page EXCEPT !.state = "live"]
  /\ UNCHANGED <<versions, edgesOf, edit, written, replaced, raced, unseen>>

PurgePage ==
  /\ page.state = "trash"
  /\ page' = [page EXCEPT !.state = "gone"]
  /\ versions' = {} /\ replaced' = {}
  /\ UNCHANGED <<edgesOf, edit, written, raced, unseen>>

EditingNext ==
  \/ MoveToTrash \/ RestorePage \/ PurgePage
  \/ \E e \in Editors :
       \/ CallTool(e) \/ CheckDraft(e)
       \/ \E kind \in {"web", "mcp", "box"} : ReadPage(e, kind)
       \/ \E content \in Contents, status \in {"draft", "published"} :
            WriteUpdate(e, content, status)
       \/ UpdateConflicts(e) \/ WriteCheckbox(e)
       \/ SyncLinks(e) \/ SyncLinksFails(e)

EditingSpec == EditingInit /\ [][EditingNext]_editingVars

-----------------------------------------------------------------------------
\* As long as no unguarded write has overtaken another, the versions hold every
\* content that an update replaced, under numbers of their own, and an MCP client
\* has replaced nothing but the draft it knew: neither what another editor wrote
\* between its check and its write, nor a page published meanwhile, nor one that
\* went through the trash.
GuardedEdits ==
  ~raced =>
    /\ replaced \subseteq {v.content : v \in versions}
    /\ \A u, v \in versions : u.version = v.version => u = v
    /\ \A v \in versions : v.version < page.version
    /\ ~unseen
=============================================================================

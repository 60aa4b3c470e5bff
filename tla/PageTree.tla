------------------------------ MODULE PageTree ------------------------------
(***************************************************************************)
(* Where pages are: spaces, wiki categories and the tree of folders, with  *)
(* the trash.  The access check of a page climbs from the page through its *)
(* folders to its category and its space, and refuses the request when     *)
(* these do not agree; a list is refused if that happens for one page.     *)
(*                                                                         *)
(* Creating and moving pages and moving categories check first and write   *)
(* later, in separate statements.                                          *)
(***************************************************************************)
EXTENDS Naturals, FiniteSets

CONSTANTS
  Spaces,
  Categories,   \* of scope WIKI
  Pages,
  TreeCalls     \* slots for requests the API works on

None == "none"
Same == "same"   \* a field that the input leaves out
ASSUME TreeAssumption ==
  /\ \A S \in {Spaces, Categories, Pages} : S \intersect {None, Same} = {}
  /\ IsFiniteSet(Pages)

VARIABLES
  enabled,     \* the spaces with wiki among their enabledKinds
  categories,  \* the space of each category, None if there is no such category
  tree,        \* the pages: state, type, space, category and parent
  treeCall,    \* the requests in progress
  overtook,    \* history: something was written whose check would not hold any more
  uprooted     \* history: a folder was moved away from its children or below itself

treeVars == <<enabled, categories, tree, treeCall, overtook, uprooted>>

Inputs == [space : Spaces \union {Same}, category : Categories \union {None, Same},
           parent : Pages \union {None, Same}, type : {"folder", "page"}]
Absent == [state |-> "none", type |-> "page", space |-> None, category |-> None,
           parent |-> None]
NoInput == [space |-> Same, category |-> Same, parent |-> Same, type |-> "page"]
Quiet == [pc |-> "idle", id |-> None, space |-> None, input |-> NoInput]

Node == [state : {"none", "live", "trash"}, type : {"folder", "page"},
         space : Spaces \union {None}, category : Categories \union {None},
         parent : Pages \union {None}]
TreeCall == [pc : {"idle", "create", "update", "category"},
             id : Pages \union Categories \union {None},
             space : Spaces \union {None}, input : Inputs]

TreeTypeOK ==
  /\ enabled \subseteq Spaces
  /\ categories \in [Categories -> Spaces \union {None}]
  /\ tree \in [Pages -> Node]
  /\ \A p \in Pages :
       /\ tree[p].state # "none" => tree[p].space # None
       /\ tree[p].category # None => categories[tree[p].category] # None
       /\ tree[p].parent # None => tree[tree[p].parent].state # "none"
  /\ treeCall \in [TreeCalls -> TreeCall]
  /\ overtook \in BOOLEAN /\ uprooted \in BOOLEAN

TreeInit ==
  /\ enabled = Spaces
  /\ categories = [c \in Categories |-> None]
  /\ tree = [p \in Pages |-> Absent]
  /\ treeCall = [q \in TreeCalls |-> Quiet]
  /\ overtook = FALSE /\ uprooted = FALSE

Rest(q) == treeCall' = [treeCall EXCEPT ![q] = Quiet]
Children(p) == {n \in Pages : tree[n].parent = p}
LiveChildren(p) == {n \in Children(p) : tree[n].state = "live"}
PagesIn(s) == {p \in Pages : tree[p].space = s}

\* The page and the folders above it, found by climbing as often as there are pages.
Climb(p) ==
  LET at[n \in 0..Cardinality(Pages)] ==
        IF n = 0 THEN p
        ELSE IF at[n - 1] = None THEN None ELSE tree[at[n - 1]].parent
  IN at
Line(p) == {Climb(p)[n] : n \in 0..Cardinality(Pages)} \ {None}
Cyclic(p) == Climb(p)[Cardinality(Pages)] # None

-----------------------------------------------------------------------------
(* resolvePageSpace *)

Given(field, old) == IF field = Same THEN old ELSE field

Candidate(input, category, parent, old) ==
  CASE input.space # Same -> input.space
    [] input.space = Same /\ category # None -> categories[category]
    [] input.space = Same /\ category = None /\ parent # None -> tree[parent].space
    [] OTHER -> old.space

\* Mutant of Agree: a folder of another category will do.
AgreeOnSpace(p, space, category, parent) ==
  /\ parent # p
  /\ space \in enabled
  /\ category # None => categories[category] = space
  /\ parent # None => /\ tree[parent].state = "live" /\ tree[parent].type = "folder"
                      /\ tree[parent].space = space

Agree(p, space, category, parent) ==
  /\ parent # p
  /\ space \in enabled
  /\ category # None => categories[category] = space
  /\ parent # None => /\ tree[parent].state = "live" /\ tree[parent].type = "folder"
                      /\ tree[parent].space = space /\ tree[parent].category = category

\* The space for a page with this input, None if the input is refused.
ResolvePageSpace(p, input, old) ==
  LET category == Given(input.category, old.category)
      parent   == Given(input.parent, old.parent)
      space    == Candidate(input, category, parent, old)
  IN IF Agree(p, space, category, parent) THEN space ELSE None

\* update: nothing is resolved unless a place is given, and a folder with children
\* stays in its space.
SpaceForUpdate(p, input) ==
  LET space == ResolvePageSpace(p, input, tree[p]) IN
  IF {input.space, input.category, input.parent} = {Same} THEN tree[p].space
  ELSE IF space # tree[p].space /\ LiveChildren(p) # {} THEN None
  ELSE space

-----------------------------------------------------------------------------
(* Pages *)

CheckCreate(q, p, input) ==
  LET space == ResolvePageSpace(p, input, [Absent EXCEPT !.space = input.space]) IN
  /\ treeCall[q].pc = "idle"
  /\ tree[p].state = "none"
  /\ input.space # Same /\ input.category # Same /\ input.parent # Same
  /\ space # None
  /\ treeCall' = [treeCall EXCEPT ![q] =
       [pc |-> "create", id |-> p, space |-> space, input |-> input]]
  /\ UNCHANGED <<enabled, categories, tree, overtook, uprooted>>

CheckUpdate(q, p, input) ==
  /\ treeCall[q].pc = "idle"
  /\ tree[p].state = "live"
  /\ SpaceForUpdate(p, input) # None
  /\ treeCall' = [treeCall EXCEPT ![q] =
       [pc |-> "update", id |-> p, space |-> SpaceForUpdate(p, input), input |-> input]]
  /\ UNCHANGED <<enabled, categories, tree, overtook, uprooted>>

\* The row after the write: space, type and the fields that were given.
Written(q) ==
  LET old == tree[treeCall[q].id]
      input == treeCall[q].input
  IN [state |-> "live", type |-> input.type, space |-> treeCall[q].space,
      category |-> Given(input.category, old.category),
      parent |-> Given(input.parent, old.parent)]

\* The rows that the write connects to exist.
Connects(q) ==
  /\ Written(q).category # None => categories[Written(q).category] # None
  /\ Written(q).parent # None => tree[Written(q).parent].state # "none"

CreatePage(q) ==
  LET p == treeCall[q].id IN
  /\ treeCall[q].pc = "create"
  /\ tree[p].state = "none" /\ Connects(q)
  /\ tree' = [tree EXCEPT ![p] = Written(q)]
  /\ overtook' = (overtook \/
       ~Agree(p, treeCall[q].space, Written(q).category, Written(q).parent))
  /\ Rest(q)
  /\ UNCHANGED <<enabled, categories, uprooted>>

UpdatePage(q) ==
  LET p == treeCall[q].id
      new == Written(q)
  IN
  /\ treeCall[q].pc = "update"
  /\ tree[p].state = "live" /\ Connects(q)
  /\ tree' = [tree EXCEPT ![p] = new]
  /\ overtook' = (overtook \/ SpaceForUpdate(p, treeCall[q].input) # treeCall[q].space)
  /\ uprooted' = \/ uprooted
                 \/ /\ Children(p) # {}
                    /\ <<new.space, new.category>> # <<tree[p].space, tree[p].category>>
                 \/ new.parent # None /\ p \in Line(new.parent)
  /\ Rest(q)
  /\ UNCHANGED <<enabled, categories>>

\* The row that is to be written, or one that it refers to, has gone.
WriteFails(q) ==
  LET id == treeCall[q].id IN
  /\ \/ treeCall[q].pc \in {"create", "update"} /\ ~Connects(q)
     \/ treeCall[q].pc = "create" /\ tree[id].state # "none"
     \/ treeCall[q].pc = "update" /\ tree[id].state # "live"
     \/ treeCall[q].pc = "category" /\ categories[id] = None
  /\ Rest(q)
  /\ UNCHANGED <<enabled, categories, tree, overtook, uprooted>>

\* remove: the live children of a folder move up, those in the trash stay.
RemovePage(p) ==
  /\ tree[p].state = "live"
  /\ tree' = [n \in Pages |->
       IF n = p THEN [tree[p] EXCEPT !.state = "trash"]
       ELSE IF tree[p].type = "folder" /\ n \in LiveChildren(p)
       THEN [tree[n] EXCEPT !.parent = None] ELSE tree[n]]
  /\ UNCHANGED <<enabled, categories, treeCall, overtook, uprooted>>

\* restore: into the place it had.
RestoreFromTrash(p) ==
  /\ tree[p].state = "trash"
  /\ tree' = [tree EXCEPT ![p].state = "live"]
  /\ UNCHANGED <<enabled, categories, treeCall, overtook, uprooted>>

\* permanentRemove, and emptyTrash page by page: the children lose their parent.
PermanentRemove(p) ==
  /\ tree[p].state = "trash"
  /\ tree' = [n \in Pages |->
       IF n = p THEN Absent
       ELSE IF n \in Children(p) THEN [tree[n] EXCEPT !.parent = None] ELSE tree[n]]
  /\ UNCHANGED <<enabled, categories, treeCall, overtook, uprooted>>

-----------------------------------------------------------------------------
(* Categories and spaces *)

CreateCategory(c, s) ==
  /\ categories[c] = None
  /\ s \in enabled
  /\ categories' = [categories EXCEPT ![c] = s]
  /\ UNCHANGED <<enabled, tree, treeCall, overtook, uprooted>>

\* Pages in the trash count as well.
InUseBy(c) == {p \in Pages : tree[p].category = c}

\* update to another space: not of a category that is in use.
CheckCategory(q, c, s) ==
  /\ treeCall[q].pc = "idle"
  /\ categories[c] \notin {None, s} /\ s \in enabled
  /\ InUseBy(c) = {}
  /\ treeCall' = [treeCall EXCEPT ![q] =
       [Quiet EXCEPT !.pc = "category", !.id = c, !.space = s]]
  /\ UNCHANGED <<enabled, categories, tree, overtook, uprooted>>

UpdateCategory(q) ==
  LET c == treeCall[q].id IN
  /\ treeCall[q].pc = "category"
  /\ categories[c] # None
  /\ categories' = [categories EXCEPT ![c] = treeCall[q].space]
  /\ overtook' = (overtook \/ InUseBy(c) # {})
  /\ Rest(q)
  /\ UNCHANGED <<enabled, tree, uprooted>>

\* remove: its pages, live or not, lose the category together.
RemoveCategory(c) ==
  /\ categories[c] # None
  /\ categories' = [categories EXCEPT ![c] = None]
  /\ tree' = [p \in Pages |->
       IF p \in InUseBy(c) THEN [tree[p] EXCEPT !.category = None] ELSE tree[p]]
  /\ UNCHANGED <<enabled, treeCall, overtook, uprooted>>

\* update of a space: assertKindsMayBeDisabled wants it without pages and categories.
EnableWiki(s) ==
  /\ s \notin enabled
  /\ enabled' = enabled \union {s}
  /\ UNCHANGED <<categories, tree, treeCall, overtook, uprooted>>

DisableWiki(s) ==
  /\ s \in enabled
  /\ PagesIn(s) = {} /\ \A c \in Categories : categories[c] # s
  /\ enabled' = enabled \ {s}
  /\ UNCHANGED <<categories, tree, treeCall, overtook, uprooted>>

TreeNext ==
  \/ \E p \in Pages : RemovePage(p) \/ RestoreFromTrash(p) \/ PermanentRemove(p)
  \/ \E c \in Categories : RemoveCategory(c) \/ \E s \in Spaces : CreateCategory(c, s)
  \/ \E s \in Spaces : EnableWiki(s) \/ DisableWiki(s)
  \/ \E q \in TreeCalls :
       \/ \E p \in Pages, input \in Inputs : CheckCreate(q, p, input) \/ CheckUpdate(q, p, input)
       \/ \E c \in Categories, s \in Spaces : CheckCategory(q, c, s)
       \/ CreatePage(q) \/ UpdatePage(q) \/ UpdateCategory(q) \/ WriteFails(q)

TreeSpec == TreeInit /\ [][TreeNext]_treeVars

-----------------------------------------------------------------------------
\* pageHierarchy and pageHierarchies find the way from the page to its space.
Resolves(p) ==
  /\ ~Cyclic(p)
  /\ \A n \in Line(p) : /\ tree[n].space = tree[p].space
                        /\ tree[n].category = tree[p].category
  /\ tree[p].category # None => categories[tree[p].category] = tree[p].space

\* Whatever is created, moved, thrown away, restored and purged, the access check
\* finds its way from every page, also from those in the trash, which restore brings
\* back into their old place; so no page makes the lists of its space fail.  Two
\* things are excepted: a write that another has overtaken between check and write, and
\* an update that moves a folder away from its children or below itself.
HierarchyResolves ==
  ~overtook /\ ~uprooted =>
    \A p \in Pages : tree[p].state # "none" => Resolves(p) /\ tree[p].space \in enabled
=============================================================================

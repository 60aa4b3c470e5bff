-------------------------------- MODULE Wiki --------------------------------
(***************************************************************************)
(* The parts of the wiki itself, next to its backups and sessions.  Each   *)
(* module keeps its own columns of the database and none reads what        *)
(* another keeps, so that any interleaving of the parts shows each of them *)
(* one of its own behaviours.  A behaviour of this module therefore moves  *)
(* one part, chosen at its start, while the others stay as they began.     *)
(***************************************************************************)
EXTENDS Identities, PageEditing, StandardReview, McpOAuth, PageTree, ResourceAccess

VARIABLE focus   \* the part that moves

Parts == {"identities", "editing", "review", "oauth", "tree", "access"}

wikiVars == <<identityVars, editingVars, reviewVars, oauthVars, treeVars, accessVars, focus>>

WikiInit ==
  /\ focus \in Parts
  /\ IdentityInit /\ EditingInit /\ ReviewInit /\ OAuthInit /\ TreeInit /\ AccessInit
  \* one beginning is enough where the identities stay as they begin
  /\ focus = "identities" \/ linked = {}

WikiNext ==
  /\ UNCHANGED focus
  /\ \/ /\ focus = "identities" /\ IdentityNext
        /\ UNCHANGED <<editingVars, reviewVars, oauthVars, treeVars, accessVars>>
     \/ /\ focus = "editing" /\ EditingNext
        /\ UNCHANGED <<identityVars, reviewVars, oauthVars, treeVars, accessVars>>
     \/ /\ focus = "review" /\ ReviewNext
        /\ UNCHANGED <<identityVars, editingVars, oauthVars, treeVars, accessVars>>
     \/ /\ focus = "oauth" /\ OAuthNext
        /\ UNCHANGED <<identityVars, editingVars, reviewVars, treeVars, accessVars>>
     \/ /\ focus = "tree" /\ TreeNext
        /\ UNCHANGED <<identityVars, editingVars, reviewVars, oauthVars, accessVars>>
     \/ /\ focus = "access" /\ AccessNext
        /\ UNCHANGED <<identityVars, editingVars, reviewVars, oauthVars, treeVars>>

WikiSpec == WikiInit /\ [][WikiNext]_wikiVars

\* The state of every part has its type, foreign keys and unique columns included.
WikiTypeOK ==
  /\ IdentityTypeOK /\ EditingTypeOK /\ ReviewTypeOK
  /\ OAuthTypeOK /\ TreeTypeOK /\ AccessTypeOK
  /\ focus \in Parts
=============================================================================

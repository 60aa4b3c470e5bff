CONSTANTS
  Providers = {"p1", "p2"}
  Managed = {"p1"}
  AdminRoles = {"p1"}
  Values = {"v"}
  Groups = {"g"}
  GroupMappings <- MCGroupMappings
  RoleMappings <- MCRoleMappings
  Attempts = {"a1"}
  Calls = {c1, c2}
  Editors = {e1, e2}
  MaxContents = 3
  MaxVersion = 3
  Reviewers = {r1, r2}
  MaxRevision = 4
  Consents = {"consent"}
  OAuthCalls = {q1, q2, q3}
  MaxTokens = 3
  Spaces = {s1, s2}
  Categories = {"category"}
  Pages = {page1, page2}
  TreeCalls = {"call"}
  Path <- MCPath
  Users = {"user"}
  AclGroups = {"group"}
  MaxRules = 2
  MaxBoundaries = 1
SPECIFICATION WikiSpec
INVARIANTS WikiTypeOK ExternalRoleDecides  OneSessionPerAttempt  ActiveIsReviewed OneTokenPerConsent 
PROPERTIES SyncLeavesOthers AccessChangesAsAsked
SYMMETRY WikiSymmetry
CHECK_DEADLOCK FALSE

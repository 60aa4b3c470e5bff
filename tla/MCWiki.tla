------------------------------- MODULE MCWiki -------------------------------
EXTENDS Wiki, TLC

\* Two providers map their value to the same group.
MCGroupMappings ==
  {[id |-> 1, provider |-> "p1", values |-> {"v"}, group |-> "g"],
   [id |-> 2, provider |-> "p2", values |-> {"v"}, group |-> "g"]}

\* Roles of equal priority, one of them privileged.
MCRoleMappings ==
  {[provider |-> "p1", value |-> "v", priority |-> 1, privileged |-> TRUE],
   [provider |-> "p2", value |-> "v", priority |-> 1, privileged |-> FALSE]}

MCPath == <<"page", "category", "space">>

\* As only one part moves, exchanging the two members of each of these sets at the
\* same time is a symmetry of whichever part it is.
Paired == {Calls, Editors, Reviewers, Pages, Spaces}
Other(x) == LET S == CHOOSE S \in Paired : x \in S IN CHOOSE y \in S : y # x
WikiSymmetry ==
  {[x \in UNION Paired |-> IF exchange THEN Other(x) ELSE x] : exchange \in BOOLEAN}
=============================================================================

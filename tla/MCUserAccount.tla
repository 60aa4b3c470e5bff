---------------------------- MODULE MCUserAccount ----------------------------
EXTENDS UserAccount, TLC

\* Exchanges the two members of one set of each part, or of the other, or of both.
\* As only one part moves, what becomes of the sets of the parts at rest does not matter.
FirstSets == {Tabs, SignIns, Notes}
SecondSets == {Requests, MsCalls, Syncs}
Other(x, sets) == LET S == CHOOSE S \in sets : x \in S IN CHOOSE y \in S : y # x
Exchange(chosenSets) ==
  [x \in UNION (FirstSets \union SecondSets) |->
     IF x \in UNION chosenSets THEN Other(x, chosenSets) ELSE x]
AccountSymmetry ==
  {Exchange(sets) : sets \in {{}, FirstSets, SecondSets, FirstSets \union SecondSets}}
=============================================================================

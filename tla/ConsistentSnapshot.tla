------------------------- MODULE ConsistentSnapshot -------------------------
(***************************************************************************)
(* What createConsistentArtifact promises: an artifact is the state of     *)
(* both stores, media rows and uploaded files, at one moment, as if        *)
(* database dump and archive were taken together and no request ran beside *)
(* them.                                                                   *)
(***************************************************************************)
CONSTANTS Media, Workers

VARIABLES
  rows,       \* media with a row in PostgreSQL
  files,      \* media with a file in the uploads directory
  artifact    \* per worker: the artifact it has finished, if any

vars == <<rows, files, artifact>>

Init == rows = {} /\ files = {} /\ artifact = [k \in Workers |-> {}]

\* A request changes one store, and never so that a row is without its file.
Change(m) ==
  /\ \/ files' = files \cup {m} /\ rows' = rows
     \/ m \in files /\ rows' = rows \cup {m} /\ files' = files
     \/ rows' = rows \ {m} /\ files' = files
     \/ m \notin rows /\ files' = files \ {m} /\ rows' = rows
  /\ UNCHANGED artifact

TakeSnapshot(k) ==
  /\ artifact' = [artifact EXCEPT ![k] = {[dump |-> rows, archive |-> files]}]
  /\ UNCHANGED <<rows, files>>

DropArtifact(k) ==
  /\ artifact' = [artifact EXCEPT ![k] = {}]
  /\ UNCHANGED <<rows, files>>

Next ==
  \/ \E m \in Media : Change(m)
  \/ \E k \in Workers : TakeSnapshot(k) \/ DropArtifact(k)

Spec == Init /\ [][Next]_vars
=============================================================================

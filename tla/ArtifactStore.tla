---------------------------- MODULE ArtifactStore ----------------------------
(***************************************************************************)
(* What a backup destination promises about one artifact, whatever adapter *)
(* stands behind it: the artifact appears as a whole in one step, and      *)
(* loses files only after its removal has begun, by the retention rule or  *)
(* by the publisher that gives up.                                         *)
(***************************************************************************)
VARIABLES
  artifact,   \* "none", "stored" (every file in full size) or "remnant"
  removing    \* its removal has begun

vars == <<artifact, removing>>

Init == artifact = "none" /\ removing = FALSE

\* The publisher may lose the answer, and then gives up what it just published.
Publish ==
  /\ artifact = "none"
  /\ ~removing
  /\ artifact' = "stored"
  /\ removing' \in BOOLEAN

BeginRemoval ==
  /\ ~removing
  /\ removing' = TRUE
  /\ UNCHANGED artifact

Erode ==
  /\ removing
  /\ artifact # "none"
  /\ artifact' \in {"remnant", "none"}
  /\ UNCHANGED removing

Next == Publish \/ BeginRemoval \/ Erode

Spec == Init /\ [][Next]_vars
=============================================================================

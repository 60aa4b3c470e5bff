----------------------------- MODULE UserAccount -----------------------------
(***************************************************************************)
(* What belongs to one user: the sessions, the connection to Microsoft and *)
(* the notes that are synchronized over it.  The parts share no columns,   *)
(* so that a behaviour of this module moves one of them, as in Wiki.  That *)
(* a synchronization needs a connection is part of MicrosoftConnection;    *)
(* without one, TodoSync has no new run.                                   *)
(***************************************************************************)
EXTENDS Sessions, MicrosoftConnection, TodoSync

VARIABLE moving   \* the part that moves

accountPartVars == <<sessionVars, connectionVars, todoVars, moving>>

AccountInit ==
  /\ moving \in {"sessions", "connection", "notes"}
  /\ SessionInit /\ ConnectionInit /\ TodoInit
  \* one beginning is enough where the notes stay as they begin
  /\ moving = "notes" \/ maps = {}

AccountNext ==
  /\ UNCHANGED moving
  /\ \/ /\ moving = "sessions" /\ SessionNext
        /\ UNCHANGED <<connectionVars, todoVars>>
     \/ /\ moving = "connection" /\ ConnectionNext
        /\ UNCHANGED <<sessionVars, todoVars>>
     \/ /\ moving = "notes" /\ TodoNext
        /\ UNCHANGED <<sessionVars, connectionVars>>

AccountSpec == AccountInit /\ [][AccountNext]_accountPartVars

\* The state of every part has its type, unique columns included.
AccountTypeOK == SessionTypeOK /\ ConnectionTypeOK /\ TodoTypeOK
=============================================================================

------------------------------ MODULE WearerTurns ------------------------------
(***************************************************************************)
(* The wearer's turns as the tools see them.  Whether a tool may act for a *)
(* turn is asked of the adapter, synchronously, each time anew: the turn   *)
(* must be the active one and unfinished (adapter.py).  One turn at a time *)
(* is, and none is so again: an event id holds a generation that is never  *)
(* reused.                                                                 *)
(*                                                                         *)
(* DeviceCalls, Reads and WorkflowRelay extend this module and take it for *)
(* their environment; VoiceTurn, where connections, coroutines and gateway *)
(* tasks make the turns, implements it.                                    *)
(***************************************************************************)
CONSTANTS
    Turn,     \* wearer turns
    None      \* no turn

VARIABLES
    active,   \* the active turn while it is unfinished
    past      \* turns that were active

turnVars == <<active, past>>

TurnsInit == active = None /\ past = {}

TurnBegins(t) ==
    /\ active = None /\ t \notin past
    /\ active' = t
    /\ past' = past

\* The end of the active turn, whatever ends it.
TurnEnds ==
    /\ active' = None
    /\ past' = past \cup ({active} \ {None})

TurnsNext == TurnEnds \/ \E t \in Turn : TurnBegins(t)

TurnsSpec == TurnsInit /\ [][TurnsNext]_turnVars
=============================================================================

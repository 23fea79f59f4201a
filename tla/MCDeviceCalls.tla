---------------------------- MODULE MCDeviceCalls ----------------------------
(***************************************************************************)
(* An instance of DeviceCalls for TLC.                                     *)
(***************************************************************************)
EXTENDS DeviceCalls, TLC

CONSTANTS j1, j2, c1, c2, t1

\* A call of a turn and a proactive one.
TurnOrNone == j1 :> t1 @@ j2 :> None

\* Bounds: c1 is the connection that says hello first, and the one whose
\* initialisation may fail.
Bounds == (link[c2] # "new" => link[c1] # "new") /\ init[c2] # "failed"
=============================================================================

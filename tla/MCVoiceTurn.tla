----------------------------- MODULE MCVoiceTurn -----------------------------
(***************************************************************************)
(* An instance of VoiceTurn for TLC.                                       *)
(***************************************************************************)
EXTENDS VoiceTurn, TLC

CONSTANTS s1, s2, t1, t2

\* Nothing tells turn ids apart but whether they are the same: let the first
\* connection's be t1.
SameOrAnother == s1 :> {t1} @@ s2 :> {t1, t2}
=============================================================================

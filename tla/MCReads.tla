------------------------------- MODULE MCReads -------------------------------
(***************************************************************************)
(* An instance of Reads for TLC.                                           *)
(***************************************************************************)
EXTENDS Reads, TLC

CONSTANTS w1, w2, n1, t1, t2

\* The reads of one turn and one of a later turn.
TurnOfRead == w1 :> t1 @@ w2 :> t2 @@ n1 :> t1

\* Bounds: t1 is the earlier turn, and of the weather reads w1 is the one that may
\* pass its deadline and leave its browser behind.
Bounds ==
    /\ t2 \in past \cup {active} => t1 \in past
    /\ w2 \notin expired /\ left \subseteq {w1}
=============================================================================

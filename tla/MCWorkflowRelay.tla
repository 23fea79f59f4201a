--------------------------- MODULE MCWorkflowRelay ---------------------------
(***************************************************************************)
(* An instance of WorkflowRelay for TLC.                                   *)
(***************************************************************************)
EXTENDS WorkflowRelay, TLC

CONSTANTS k1, k2, k3, k4, t1, t2, d1, d2, p1

\* Two turns; the second has two task calls for different boards.  The call of
\* the first has two steps; the last call of the second is denied.
TurnOfCap == k1 :> t1 @@ k2 :> t2 @@ k3 :> t2 @@ k4 :> t2
DestOfCap == k1 :> d1 @@ k2 :> d2 @@ k3 :> d1 @@ k4 :> d1
StepsOfCap == k1 :> 2 @@ k2 :> 1 @@ k3 :> 1 @@ k4 :> 1

\* The call in two steps has its first step retried, also with another payload;
\* the others are sent once.
SentPackets ==
    {p \in Packets :
        IF p.cap = k1
        THEN IF p.subcall = 1 THEN p.payload = p1 \/ p.attempt = 2
             ELSE p.payload = p1 /\ p.attempt = 1
        ELSE p.subcall = 1 /\ p.attempt = 1 /\ p.payload = p1}

CallsAlike == Permutations(Call)
=============================================================================

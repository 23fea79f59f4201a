----------------------------- MODULE RelayPromise -----------------------------
(***************************************************************************)
(* What the workflow relay promises, with an unlimited memory: it knows    *)
(* every use that was ever claimed and every call that was ever            *)
(* dispatched.  WorkflowRelay implements it with a table of a bounded size *)
(* whose records expire, with a fence for one turn, and although both are  *)
(* lost when the relay stops.                                              *)
(***************************************************************************)
EXTENDS Naturals, WearerTurns

CONSTANTS Call, Cap, TurnOf, DestOf, StepsOf, Sent, Denied

VARIABLES
    expired,  \* capabilities that have expired
    packet,   \* the request of each call, None before it is submitted
    taken,    \* calls whose use was claimed
    ran       \* calls that were dispatched

vars == <<active, past, expired, packet, taken, ran>>

Init ==
    /\ TurnsInit
    /\ expired = {}
    /\ packet = [c \in Call |-> None]
    /\ taken = {}
    /\ ran = {}

Turns == UNCHANGED <<expired, packet, taken, ran>> /\ TurnsNext

Expires ==
    /\ UNCHANGED <<turnVars, packet, taken, ran>>
    /\ \E k \in Cap : expired' = expired \cup {k}

Submit(c) ==
    /\ packet[c] = None
    /\ UNCHANGED <<turnVars, expired, taken, ran>>
    /\ \E p \in Sent : packet' = [packet EXCEPT ![c] = p]

\* Claims of the same capability.
ClaimsOf(k, subcall) ==
    {d \in taken : packet[d].cap = k /\ packet[d].subcall = subcall}

\* A use that was never claimed follows a claim of the subcall before.
First(p) ==
    /\ ClaimsOf(p.cap, p.subcall) = {}
    /\ p.subcall = 1 \/ ClaimsOf(p.cap, p.subcall - 1) # {}

\* Another one is the next attempt at the same payload.
Retry(p) ==
    /\ \A d \in ClaimsOf(p.cap, p.subcall) :
        packet[d].payload = p.payload /\ packet[d].attempt < p.attempt
    /\ \E d \in ClaimsOf(p.cap, p.subcall) : packet[d].attempt = p.attempt - 1

\* A call of a turn that has begun.  A capability that expires while its call
\* is being checked begins anew.
Claim(c) ==
    LET p == packet[c] IN
    /\ c \notin taken /\ taken' = taken \cup {c}
    /\ p # None
    /\ TurnOf[p.cap] \in past \cup {active}
    /\ p.subcall <= StepsOf[p.cap]
    /\ First(p) \/ Retry(p) \/ (p.cap \in expired /\ p.subcall = 1)
    /\ UNCHANGED <<turnVars, expired, packet, ran>>

\* A claimed call is dispatched once; one with a destination only for the
\* active turn, and not to another destination than any before it.
Run(c) ==
    LET k == packet[c].cap IN
    /\ c \in taken \ ran /\ ran' = ran \cup {c}
    /\ k \notin Denied
    /\ DestOf[k] # None =>
        /\ TurnOf[k] = active
        /\ \A d \in ran : TurnOf[packet[d].cap] = active =>
               DestOf[packet[d].cap] \in {None, DestOf[k]}
    /\ UNCHANGED <<turnVars, expired, packet, taken>>

Next ==
    \/ Turns
    \/ Expires
    \/ \E c \in Call : Submit(c) \/ Claim(c) \/ Run(c)

Spec == Init /\ [][Next]_vars
=============================================================================

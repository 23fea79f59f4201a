---------------------------- MODULE WorkflowRelay ----------------------------
(***************************************************************************)
(* The relay of workflow_relay.py: a standalone MCP server calls it over a *)
(* Unix socket, one request per connection, with a capability minted for   *)
(* one workflow call of one wearer turn.  The relay checks the capability  *)
(* and the turn, claims a use of its nonce, binds the turn to one          *)
(* task-board destination and dispatches the native handler.               *)
(*                                                                         *)
(* Calls interleave at every await of `_dispatch`, the clock, the turn and *)
(* the caller in between.  (An uncontended lock does not suspend, but the  *)
(* code provides for the case, and so does the model.)  The two claims run *)
(* under `_uses_lock` without an await inside, so each is one step.        *)
(***************************************************************************)
EXTENDS Naturals, FiniteSets, WearerTurns

CONSTANTS
    Call,      \* connections to the socket, each with one request
    Cap,       \* capabilities, by nonce
    Dest,      \* task-board destinations (digests)
    Payload,   \* fingerprints of an internal tool and its arguments
    TurnOf,    \* the turn a capability is bound to
    DestOf,    \* the destination its workflow arguments name, or None
    StepsOf,   \* the length of its WORKFLOW_INTERNAL_SEQUENCE
    Sent,      \* the packets callers send
    Denied,    \* capabilities the adapter's policy denies for their turn
    MaxLive,   \* _MAX_LIVE_CAPABILITIES
    MaxSteps   \* the longest sequence of all (2 in the code)

MaxAttempts == 2  \* _MAX_ATTEMPTS
Subcalls == 1..MaxSteps

ASSUME NoneAssumption == None \notin Turn \cup Dest \cup Payload \cup Call \cup Cap
ASSUME CapAssumption ==
    /\ TurnOf \in [Cap -> Turn]
    /\ DestOf \in [Cap -> Dest \cup {None}]
    /\ StepsOf \in [Cap -> Subcalls]
    /\ Denied \subseteq Cap
ASSUME BoundsAssumption == MaxLive \in Nat \ {0} /\ MaxSteps \in Nat \ {0}

VARIABLES
    running,  \* _server is set
    expired,  \* capabilities whose expires_at has been reached
    uses,     \* _uses
    fence,    \* _task_turn_destinations: at most one turn and its destination
    at,       \* where the handling of each call is
    packet,   \* the request of each call
    taken,    \* history: calls whose use was claimed
    ran       \* history: calls that were dispatched

claimVars == <<uses, fence>>
vars == <<running, active, past, expired, uses, fence, at, packet, taken, ran>>

Packets == [cap : Cap, subcall : Subcalls, attempt : 1..MaxAttempts,
            payload : Payload]

ASSUME PacketAssumption == None \notin Packets /\ Sent \subseteq Packets

\* The record of a nonce: current_subcall, and fingerprint and max_attempt of
\* each subcall.
Uses == [subcall : 0..MaxSteps, print : [Subcalls -> Payload \cup {None}],
         attempt : [Subcalls -> 0..MaxAttempts]]

\* No record of a nonce, and one that no subcall has claimed.
Unused == [subcall |-> 0, print |-> [i \in Subcalls |-> None],
           attempt |-> [i \in Subcalls |-> 0]]

LiveIn(table) == {k \in Cap : table[k] # Unused}

NoFence == [turn |-> None, dest |-> None]

Ended == {"idle", "answered", "gone"}

-----------------------------------------------------------------------------
Init ==
    /\ running = TRUE
    /\ TurnsInit
    /\ expired = {}
    /\ uses = [k \in Cap |-> Unused]
    /\ fence = NoFence
    /\ at = [c \in Call |-> "idle"]
    /\ packet = [c \in Call |-> None]
    /\ taken = {}
    /\ ran = {}

Goto(c, place) == at' = [at EXCEPT ![c] = place]

\* `authorize_workflow_capability`, apart from the policy.
TurnIsActive(c) == TurnOf[packet[c].cap] = active

(***************************************************************************)
(* The environment.                                                        *)
(***************************************************************************)

BeginTurn(t) ==
    /\ TurnBegins(t)
    /\ UNCHANGED <<running, expired, claimVars, at, packet, taken, ran>>

EndTurn ==
    /\ active # None /\ TurnEnds
    /\ UNCHANGED <<running, expired, claimVars, at, packet, taken, ran>>

Expire(k) ==
    /\ k \notin expired
    /\ expired' = expired \cup {k}
    /\ UNCHANGED <<running, turnVars, claimVars, at, packet, taken, ran>>

(***************************************************************************)
(* One call.                                                               *)
(***************************************************************************)

\* A well-formed request line.
Submit(c, p) ==
    /\ running
    /\ at[c] = "idle" /\ packet[c] = None
    /\ packet' = [packet EXCEPT ![c] = p]
    /\ Goto(c, "received")
    /\ UNCHANGED <<running, turnVars, expired, claimVars, taken, ran>>

\* `verify_mcp_capability` and the first check of the turn.
Verify(c) ==
    /\ at[c] = "received"
    /\ Goto(c, IF packet[c].cap \notin expired /\ TurnIsActive(c)
               THEN "verified" ELSE "answered")
    /\ UNCHANGED <<running, turnVars, expired, claimVars, packet, taken, ran>>

\* `_uses` without the entries whose expires_at is not after now.
Purged == [k \in Cap |-> IF k \in expired THEN Unused ELSE uses[k]]

\* Mutant: every attempt counts as the next one.
NextAttempt_Any(p, use) == use.print[p.subcall] = p.payload

\* A subcall that was claimed before may only repeat itself, once.
NextAttempt(p, use) ==
    /\ use.print[p.subcall] = p.payload
    /\ p.attempt = use.attempt[p.subcall] + 1

\* Mutant: the payload of a retry is not compared.
MayClaim_AnyPayload(p, use) ==
    /\ p.subcall <= StepsOf[p.cap]
    /\ IF use.print[p.subcall] = None
       THEN p.subcall = use.subcall + 1
       ELSE p.attempt = use.attempt[p.subcall] + 1

\* Mutant: subcalls in any order.
MayClaim_AnyOrder(p, use) ==
    /\ p.subcall <= StepsOf[p.cap]
    /\ use.print[p.subcall] # None => NextAttempt(p, use)

\* What `_claim_use` demands of the packet and the record of its nonce.
MayClaim(p, use) ==
    /\ p.subcall <= StepsOf[p.cap]
    /\ IF use.print[p.subcall] = None
       THEN p.subcall = use.subcall + 1
       ELSE NextAttempt(p, use)

\* Mutant: one capability too many.
RoomFor_OffByOne(k, table) ==
    k \in LiveIn(table) \/ Cardinality(LiveIn(table)) <= MaxLive

\* A new record needs room.
RoomFor(k, table) ==
    k \in LiveIn(table) \/ Cardinality(LiveIn(table)) < MaxLive

\* The record of a nonce after a claim.
Claimed(p, use) ==
    [subcall |-> IF use.print[p.subcall] = None THEN p.subcall ELSE use.subcall,
     print   |-> [use.print EXCEPT ![p.subcall] = p.payload],
     attempt |-> [use.attempt EXCEPT ![p.subcall] = p.attempt]]

\* `_claim_use`; a capability that the policy denies is answered behind it.
ClaimUse(c) ==
    LET p == packet[c]
        use == Purged[p.cap]
    IN
    /\ at[c] = "verified"
    /\ IF RoomFor(p.cap, Purged) /\ MayClaim(p, use)
       THEN /\ uses' = [Purged EXCEPT ![p.cap] = Claimed(p, use)]
            /\ taken' = taken \cup {c}
            /\ Goto(c, IF p.cap \in Denied THEN "answered" ELSE "claimed")
       ELSE /\ uses' = IF p.subcall > StepsOf[p.cap] THEN uses ELSE Purged
            /\ Goto(c, "answered")
            /\ UNCHANGED taken
    /\ UNCHANGED <<running, turnVars, expired, fence, packet, ran>>

\* Mutant: the turn is not looked at again.
MayBind_Stale(c) == TRUE

\* The revalidation under the lock.
MayBind(c) == TurnIsActive(c) /\ packet[c].cap \notin Denied

\* The turn has no destination yet, or this one.
SameDestination(t, d) == fence.turn = t => fence.dest = d

\* `_claim_task_turn_destination`, and the dispatch of the handler.
Dispatch(c) ==
    LET k == packet[c].cap IN
    /\ at[c] = "claimed"
    /\ IF DestOf[k] = None \/ (MayBind(c) /\ SameDestination(TurnOf[k], DestOf[k]))
       THEN /\ fence' = IF DestOf[k] = None THEN fence
                        ELSE [turn |-> TurnOf[k], dest |-> DestOf[k]]
            /\ ran' = ran \cup {c}
            /\ Goto(c, "running")
       ELSE /\ Goto(c, "answered")
            /\ UNCHANGED <<fence, ran>>
    /\ UNCHANGED <<running, turnVars, expired, uses, packet, taken>>

\* The handler has returned or raised.
Return(c) ==
    /\ at[c] = "running"
    /\ Goto(c, "answered")
    /\ UNCHANGED <<running, turnVars, expired, claimVars, packet, taken, ran>>

\* The caller disconnects, sends another byte, or the request times out: the
\* dispatch is cancelled and nothing is answered.
Revoke(c) ==
    /\ at[c] \notin Ended
    /\ Goto(c, "gone")
    /\ UNCHANGED <<running, turnVars, expired, claimVars, packet, taken, ran>>

\* `stop`, which waits for the connections of the server (Python 3.12).
Stop ==
    /\ running
    /\ \A c \in Call : at[c] \in Ended
    /\ running' = FALSE
    /\ uses' = [k \in Cap |-> Unused]
    /\ fence' = NoFence
    /\ UNCHANGED <<turnVars, expired, at, packet, taken, ran>>

\* The adapter is connected again; its disconnect ended the turn.
Start ==
    /\ ~running /\ active = None
    /\ running' = TRUE
    /\ UNCHANGED <<turnVars, expired, claimVars, at, packet, taken, ran>>

-----------------------------------------------------------------------------
Handle(c) == Verify(c) \/ ClaimUse(c) \/ Dispatch(c)

Next ==
    \/ \E t \in Turn : BeginTurn(t)
    \/ EndTurn
    \/ \E k \in Cap : Expire(k)
    \/ \E c \in Call, p \in Sent : Submit(c, p)
    \/ \E c \in Call : Handle(c) \/ Return(c) \/ Revoke(c)
    \/ Stop \/ Start

Spec == Init /\ [][Next]_vars

-----------------------------------------------------------------------------
(***************************************************************************)
(* Properties.                                                             *)
(***************************************************************************)

\* Types; a call past its submission has a packet.
TypeOK ==
    /\ running \in BOOLEAN
    /\ active \in Turn \cup {None}
    /\ past \subseteq Turn
    /\ expired \subseteq Cap
    /\ uses \in [Cap -> Uses]
    /\ fence \in [turn : Turn \cup {None}, dest : Dest \cup {None}]
    /\ at \in [Call -> {"received", "verified", "claimed", "running"} \cup Ended]
    /\ packet \in [Call -> Packets \cup {None}]
    /\ taken \subseteq Call /\ ran \subseteq taken
    /\ \A c \in Call : at[c] # "idle" => packet[c] # None

SameUse(c, d) ==
    /\ packet[c].cap = packet[d].cap
    /\ packet[c].subcall = packet[d].subcall

\* Until a capability expires, no attempt of a subcall is dispatched twice, in
\* whatever order the packets and their retries arrive.
OneUse ==
    \A c, d \in ran :
        /\ c # d /\ SameUse(c, d)
        /\ packet[c].attempt = packet[d].attempt
        => packet[c].cap \in expired

\* Until a capability expires, a retry dispatches what the first attempt did.
RetriesRepeat ==
    \A c, d \in ran :
        SameUse(c, d) /\ packet[c].cap \notin expired =>
            packet[c].payload = packet[d].payload

\* No use of a capability is replayed.
NoReplay == OneUse /\ RetriesRepeat

\* A later subcall is claimed only behind a claim of the one before it.
InSequence ==
    \A c \in taken : packet[c].subcall > 1 =>
        \E d \in taken : /\ packet[d].cap = packet[c].cap
                         /\ packet[d].subcall = packet[c].subcall - 1

\* One wearer turn reaches one task-board destination, however its calls
\* interleave with those of an older turn and with the turn's replacement.
OneDestination ==
    \A c, d \in ran :
        LET k == packet[c].cap
            j == packet[d].cap
        IN  /\ TurnOf[k] = TurnOf[j]
            /\ DestOf[k] # None /\ DestOf[j] # None
            => DestOf[k] = DestOf[j]

\* The bounded table and the fence of one turn, which expire and are lost on a
\* stop, admit no call that an unlimited memory of all claims and dispatches
\* would refuse: see RelayPromise.
Promise == INSTANCE RelayPromise

ImplementsPromise == Promise!Spec

\* The replay table keeps its shape and never outgrows its bound.
Bounded == TypeOK /\ Cardinality(LiveIn(uses)) <= MaxLive
=============================================================================

------------------------- MODULE WorkflowRelayProofs -------------------------
(***************************************************************************)
(* Proofs about WorkflowRelay for any calls, capabilities, turns,          *)
(* destinations and payloads.                                              *)
(*                                                                         *)
(* A claim that was taken stays in the replay table until its capability   *)
(* expires, or is beyond use: its turn is over, or the relay is down, and  *)
(* no verified call of it is left.  The fence stands in the same way.      *)
(***************************************************************************)
EXTENDS WorkflowRelay, FiniteSetTheorems, TLAPS

\* The record of a nonce after a claim is a record again.
LEMMA ClaimedType ==
    ASSUME NEW p \in Packets, NEW use \in Uses
    PROVE  Claimed(p, use) \in Uses
<1> USE BoundsAssumption DEF Packets, Uses, Subcalls, MaxAttempts
<1>1. [use.print EXCEPT ![p.subcall] = p.payload] \in [Subcalls -> Payload \cup {None}]
  OBVIOUS
<1>2. [use.attempt EXCEPT ![p.subcall] = p.attempt] \in [Subcalls -> 0..MaxAttempts]
  OBVIOUS
<1>3. (IF use.print[p.subcall] = None THEN p.subcall ELSE use.subcall) \in 0..MaxSteps
  OBVIOUS
<1> QED BY <1>1, <1>2, <1>3 DEF Claimed

\* The table stays typed when expired records leave it.
LEMMA PurgedType ==
    ASSUME TypeOK
    PROVE  Purged \in [Cap -> Uses]
<1>1. Unused \in Uses
  BY BoundsAssumption DEF Unused, Uses, Subcalls, MaxAttempts
<1> QED BY <1>1 DEF Purged, TypeOK

-----------------------------------------------------------------------------
\* A use is claimed behind "verified" and before "claimed", where it is not yet
\* dispatched.
Places ==
    \A c \in Call :
        /\ at[c] \in {"claimed", "running"} => c \in taken
        /\ c \in taken => at[c] \notin {"idle", "received", "verified"}
        /\ at[c] = "claimed" => c \notin ran /\ packet[c].cap \notin Denied

\* A turn does not come back, and a call that was verified is of the active
\* turn or of one that is over.
Turns ==
    /\ active \notin past
    /\ \A c \in Call :
        at[c] \in {"verified", "claimed", "running"} \/ c \in taken =>
            TurnOf[packet[c].cap] \in past \cup {active}

\* Nothing is handled while the relay is down.
Down == ~running => \A c \in Call : at[c] \in Ended

Typed == TypeOK /\ Places /\ Turns /\ Down

\* Types hold, and the places of the calls fit the claims and the turns.
THEOREM TypedInvariant == Spec => []Typed
<1> USE NoneAssumption, CapAssumption DEF Typed, Places, Turns, Down, Ended
<1>1. Init => Typed
  <2> SUFFICES ASSUME Init
               PROVE  Typed
    OBVIOUS
  <2>1. Unused \in Uses
    BY BoundsAssumption DEF Unused, Uses, Subcalls, MaxAttempts
  <2> QED BY <2>1 DEF Init, TurnsInit, TypeOK, NoFence
<1>2. Typed /\ [Next]_vars => Typed'
  <2> SUFFICES ASSUME Typed, [Next]_vars
               PROVE  Typed'
    OBVIOUS
  <2> USE DEF turnVars, claimVars, Goto
  <2>1. ASSUME NEW t \in Turn, BeginTurn(t)
        PROVE  Typed'
    <3>1. TypeOK' /\ Places' /\ Down'
      BY <2>1 DEF BeginTurn, TurnBegins, TypeOK
    <3>2. \A c \in Call : at[c] # "idle" => TurnOf[packet[c].cap] \in Turn
      BY DEF TypeOK, Packets
    <3>3. ASSUME NEW c \in Call, at[c] \in {"verified", "claimed", "running"} \/ c \in taken
          PROVE  TurnOf[packet[c].cap] \in past
      <4>1. TurnOf[packet[c].cap] \in past \cup {None}
        BY <2>1, <3>3 DEF BeginTurn, TurnBegins
      <4> QED BY <3>2, <3>3, <4>1
    <3> QED BY <2>1, <3>1, <3>3 DEF BeginTurn, TurnBegins
  <2>2. CASE EndTurn
    BY <2>2 DEF EndTurn, TurnEnds, TypeOK
  <2>3. ASSUME NEW k \in Cap, Expire(k)
        PROVE  Typed'
    BY <2>3 DEF Expire, TypeOK
  <2>4. ASSUME NEW c \in Call, NEW p \in Packets, Submit(c, p)
        PROVE  Typed'
    <3>1. p # None
      BY PacketAssumption
    <3>2. TypeOK'
      BY <2>4, <3>1 DEF Submit, TypeOK
    <3> QED BY <2>4, <3>2 DEF Submit, TypeOK
  <2>5. ASSUME NEW c \in Call, Verify(c)
        PROVE  Typed'
    BY <2>5 DEF Verify, TurnIsActive, TypeOK
  <2>6. ASSUME NEW c \in Call, ClaimUse(c)
        PROVE  Typed'
    <3>1. packet[c] \in Packets /\ at[c] = "verified"
      BY <2>6 DEF ClaimUse, TypeOK
    <3>2. packet[c].cap \in Cap
      BY <3>1 DEF Packets
    <3>3. Claimed(packet[c], Purged[packet[c].cap]) \in Uses
      BY <3>1, <3>2, ClaimedType, PurgedType
    <3>4. uses' \in [Cap -> Uses]
      BY <2>6, <3>2, <3>3, PurgedType DEF ClaimUse, TypeOK
    <3>5. TypeOK'
      BY <2>6, <3>4 DEF ClaimUse, TypeOK
    <3> QED BY <2>6, <3>1, <3>5 DEF ClaimUse, TypeOK
  <2>7. ASSUME NEW c \in Call, Dispatch(c)
        PROVE  Typed'
    <3>1. packet[c] \in Packets /\ at[c] = "claimed"
      BY <2>7 DEF Dispatch, TypeOK
    <3>2. packet[c].cap \in Cap
      BY <3>1 DEF Packets
    <3>3. TypeOK'
      BY <2>7, <3>1, <3>2 DEF Dispatch, TypeOK
    <3> QED BY <2>7, <3>1, <3>3 DEF Dispatch, TypeOK
  <2>8. ASSUME NEW c \in Call, Return(c)
        PROVE  Typed'
    BY <2>8 DEF Return, TypeOK
  <2>9. ASSUME NEW c \in Call, Revoke(c)
        PROVE  Typed'
    BY <2>9 DEF Revoke, TypeOK
  <2>10. CASE Stop
    <3>1. Unused \in Uses
      BY BoundsAssumption DEF Unused, Uses, Subcalls, MaxAttempts
    <3> QED BY <2>10, <3>1 DEF Stop, NoFence, TypeOK
  <2>11. CASE Start
    BY <2>11 DEF Start, TypeOK
  <2>12. CASE UNCHANGED vars
    BY <2>12 DEF vars, TypeOK
  <2> QED
    BY PacketAssumption, <2>1, <2>2, <2>3, <2>4, <2>5, <2>6, <2>7, <2>8, <2>9, <2>10, <2>11,
       <2>12 DEF Next, Handle
<1> QED BY <1>1, <1>2, PTL DEF Spec

\* The type invariant of the relay.
THEOREM TypeCorrect == Spec => []TypeOK
<1>1. Typed => TypeOK
  BY DEF Typed
<1> QED BY <1>1, TypedInvariant, PTL

\* A call that is under way or was claimed has a packet of its own.
LEMMA HasPacket ==
    ASSUME Typed, NEW c \in Call, at[c] # "idle" \/ c \in taken
    PROVE  /\ packet[c] \in Packets
           /\ packet[c].cap \in Cap
           /\ packet[c].subcall \in Subcalls
           /\ packet[c].attempt \in 1..MaxAttempts
           /\ packet[c].payload \in Payload
           /\ TurnOf[packet[c].cap] \in Turn
           /\ TurnOf[packet[c].cap] # None
<1>1. packet[c] \in Packets
  BY DEF Typed, TypeOK, Places
<1> QED BY <1>1, CapAssumption, NoneAssumption DEF Packets

\* A request is submitted where none was, so no claimed call changes its own.
LEMMA PacketsStand ==
    ASSUME Typed, [Next]_vars
    PROVE  \A c \in taken : packet'[c] = packet[c]
<1> USE DEF turnVars, claimVars, Typed, Places
<1>1. ASSUME NEW c \in Call, NEW p \in Packets, Submit(c, p)
      PROVE  \A d \in taken : packet'[d] = packet[d]
  BY <1>1 DEF Submit, TypeOK
<1> QED
  BY PacketAssumption, <1>1 DEF Next, Handle, vars, BeginTurn, TurnBegins, EndTurn, TurnEnds, Expire, Verify, ClaimUse,
     Dispatch, Return, Revoke, Stop, Start

-----------------------------------------------------------------------------
\* A dispatched task leaves its turn and destination in the fence, until the
\* turn is over or the relay down.
Fence ==
    \A c \in ran :
        LET k == packet[c].cap IN
        DestOf[k] # None =>
            \/ TurnOf[k] \in past
            \/ ~running
            \/ fence = [turn |-> TurnOf[k], dest |-> DestOf[k]]

Fenced == Fence /\ OneDestination

\* The fence stands, so that a turn reaches one destination.
THEOREM FencedInvariant == Spec => []Fenced
<1> USE DEF Fenced, Fence, OneDestination
<1>1. Init => Fenced
  BY DEF Init, TurnsInit
<1>2. Typed /\ Fenced /\ [Next]_vars => Fenced'
  <2> SUFFICES ASSUME Typed, Fenced, [Next]_vars
               PROVE  Fenced'
    OBVIOUS
  <2> USE DEF turnVars, claimVars
  <2>0. /\ ran \subseteq taken /\ taken \subseteq Call
        /\ \A c \in ran : packet'[c] = packet[c]
    BY PacketsStand DEF Typed, TypeOK
  <2>1. ASSUME NEW t \in Turn, BeginTurn(t)
        PROVE  Fenced'
    BY <2>0, <2>1 DEF BeginTurn, TurnBegins
  <2>2. CASE EndTurn
    BY <2>0, <2>2 DEF EndTurn, TurnEnds
  <2>3. ASSUME NEW k \in Cap, Expire(k)
        PROVE  Fenced'
    BY <2>0, <2>3 DEF Expire
  <2>4. ASSUME NEW c \in Call, NEW p \in Packets, Submit(c, p)
        PROVE  Fenced'
    BY <2>0, <2>4 DEF Submit
  <2>5. ASSUME NEW c \in Call, Verify(c)
        PROVE  Fenced'
    BY <2>0, <2>5 DEF Verify
  <2>6. ASSUME NEW c \in Call, ClaimUse(c)
        PROVE  Fenced'
    BY <2>0, <2>6 DEF ClaimUse
  <2>7. ASSUME NEW c \in Call, Dispatch(c)
        PROVE  Fenced'
    <3> DEFINE k == packet[c].cap
    <3>1. CASE ran' = ran /\ fence' = fence
      BY <2>0, <2>7, <3>1 DEF Dispatch
    <3>2. CASE DestOf[k] = None /\ fence' = fence /\ ran' = ran \cup {c}
      BY <2>0, <2>7, <3>2 DEF Dispatch
    <3>3. CASE /\ DestOf[k] # None
               /\ MayBind(c) /\ SameDestination(TurnOf[k], DestOf[k])
               /\ fence' = [turn |-> TurnOf[k], dest |-> DestOf[k]]
               /\ ran' = ran \cup {c}
      <4>1. TurnOf[k] = active /\ active \notin past /\ running
        BY <2>7, <3>3 DEF MayBind, TurnIsActive, Dispatch, Typed, Turns, Down,
           Ended
      <4>2. ASSUME NEW d \in ran, DestOf[packet[d].cap] # None
            PROVE  \/ TurnOf[packet[d].cap] \in past
                   \/ /\ TurnOf[packet[d].cap] = TurnOf[k]
                      /\ DestOf[packet[d].cap] = DestOf[k]
        <5>1. TurnOf[packet[d].cap] \in past \cup {active}
          BY <2>0 DEF Typed, Turns
        <5>2. CASE TurnOf[packet[d].cap] = active
          <6>1. fence = [turn |-> active, dest |-> DestOf[packet[d].cap]]
            BY <4>1, <4>2, <5>2
          <6> QED BY <3>3, <4>1, <5>2, <6>1 DEF SameDestination
        <5> QED BY <5>1, <5>2
      <4>3. packet' = packet /\ past' = past
        BY <2>7 DEF Dispatch
      <4>4. Fence'
        BY <3>3, <4>2, <4>3
      <4>5. OneDestination'
        BY <3>3, <4>1, <4>2, <4>3
      <4> QED BY <4>4, <4>5
    <3> QED BY <2>7, <3>1, <3>2, <3>3 DEF Dispatch
  <2>8. ASSUME NEW c \in Call, Return(c)
        PROVE  Fenced'
    BY <2>0, <2>8 DEF Return
  <2>9. ASSUME NEW c \in Call, Revoke(c)
        PROVE  Fenced'
    BY <2>0, <2>9 DEF Revoke
  <2>10. CASE Stop
    BY <2>0, <2>10 DEF Stop
  <2>11. CASE Start
    <3>1. \A c \in ran : TurnOf[packet[c].cap] \in past
      BY <2>0, <2>11, HasPacket DEF Start, Typed, Turns
    <3> QED BY <2>0, <2>11, <3>1 DEF Start
  <2>12. CASE UNCHANGED vars
    BY <2>12 DEF vars
  <2> QED
    BY PacketAssumption, <2>1, <2>2, <2>3, <2>4, <2>5, <2>6, <2>7, <2>8, <2>9, <2>10, <2>11,
       <2>12 DEF Next, Handle
<1> QED BY <1>1, <1>2, TypedInvariant, PTL DEF Spec

\* One wearer turn reaches one task-board destination.
THEOREM OneDestinationPerTurn == Spec => []OneDestination
<1>1. Fenced => OneDestination
  BY DEF Fenced
<1> QED BY <1>1, FencedInvariant, PTL

-----------------------------------------------------------------------------
\* What a claim demands and leaves behind, for the subcall of the packet and
\* for any other.
LEMMA ClaimEffect ==
    ASSUME Typed, NEW c \in Call, ClaimUse(c), c \notin taken, c \in taken',
           NEW i \in Subcalls
    PROVE  LET p == packet[c]
               was == Purged[p.cap]
               is == uses'[p.cap]
           IN  /\ MayClaim(p, was)
               /\ uses' = [Purged EXCEPT ![p.cap] = Claimed(p, was)]
               /\ is.print[i] = IF i = p.subcall THEN p.payload ELSE was.print[i]
               /\ is.attempt[i] = IF i = p.subcall THEN p.attempt ELSE was.attempt[i]
               /\ is.subcall = IF was.print[p.subcall] = None
                               THEN p.subcall ELSE was.subcall
               /\ was \in Uses
<1> DEFINE p == packet[c]
           was == Purged[p.cap]
<1>1. Typed /\ p \in Packets /\ p.cap \in Cap
  BY HasPacket DEF ClaimUse
<1>2. Purged \in [Cap -> Uses]
  BY PurgedType DEF Typed
<1>3. was \in Uses
  BY <1>1, <1>2
<1>4. MayClaim(p, was) /\ uses' = [Purged EXCEPT ![p.cap] = Claimed(p, was)]
  BY DEF ClaimUse
<1>5. uses'[p.cap] = Claimed(p, was)
  BY <1>1, <1>2, <1>4
<1>6. was.print \in [Subcalls -> Payload \cup {None}]
      /\ was.attempt \in [Subcalls -> 0..MaxAttempts]
  BY <1>3 DEF Uses
<1> QED BY <1>3, <1>4, <1>5, <1>6 DEF Claimed

\* Nothing of the capability waits for its claim or will come to.
Dead(k) ==
    /\ \A d \in Call : at[d] = "verified" => packet[d].cap # k
    /\ TurnOf[k] \in past \/ ~running

\* A claim stands in the table until its capability expires or is dead.
Standing ==
    \A c \in taken :
        LET p == packet[c] IN
        \/ p.cap \in expired
        \/ Dead(p.cap)
        \/ /\ uses[p.cap].print[p.subcall] = p.payload
           /\ uses[p.cap].attempt[p.subcall] >= p.attempt

\* Two claims of a subcall are different attempts at the same payload.
Single ==
    \A c, d \in taken :
        /\ c # d /\ SameUse(c, d)
        /\ packet[c].cap \notin expired
        => /\ packet[c].attempt # packet[d].attempt
           /\ packet[c].payload = packet[d].payload

Kept == Standing /\ Single

\* A claim stands, so that every further one of its subcall is the next attempt.
THEOREM KeptInvariant == Spec => []Kept
<1> USE DEF Kept, Standing, Single, SameUse, Dead
<1>1. Init => Kept
  BY DEF Init, TurnsInit
<1>2. Typed /\ Kept /\ [Next]_vars => Kept'
  <2> SUFFICES ASSUME Typed, Kept, [Next]_vars
               PROVE  Kept'
    OBVIOUS
  <2> USE DEF turnVars, claimVars
  <2>0. /\ taken \subseteq Call
        /\ \A c \in taken : packet'[c] = packet[c]
    BY PacketsStand DEF Typed, TypeOK
  <2>1. ASSUME NEW t \in Turn, BeginTurn(t)
        PROVE  Kept'
    BY <2>0, <2>1 DEF BeginTurn, TurnBegins
  <2>2. CASE EndTurn
    BY <2>0, <2>2 DEF EndTurn, TurnEnds
  <2>3. ASSUME NEW k \in Cap, Expire(k)
        PROVE  Kept'
    BY <2>0, <2>3 DEF Expire
  <2>4. ASSUME NEW c \in Call, NEW p \in Packets, Submit(c, p)
        PROVE  Kept'
    <3>1. at[c] = "idle" /\ at' = [at EXCEPT ![c] = "received"]
          /\ packet' = [packet EXCEPT ![c] = p]
      BY <2>4 DEF Submit, Goto
    <3>2. \A d \in Call : at'[d] = "verified" =>
              at[d] = "verified" /\ packet'[d] = packet[d]
      BY <3>1 DEF Typed, TypeOK
    <3> QED BY <2>0, <2>4, <3>2 DEF Submit
  <2>5. ASSUME NEW c \in Call, Verify(c)
        PROVE  Kept'
    <3>1. at[c] = "received" /\ running /\ packet' = packet
      BY <2>5 DEF Verify, Typed, Down, Ended
    <3>2. at'[c] = "verified" => TurnOf[packet[c].cap] \notin past
      BY <2>5, <3>1 DEF Verify, Goto, TurnIsActive, Typed, TypeOK, Turns
    <3>3. \A d \in Call : at'[d] = "verified" => at[d] = "verified" \/ d = c
      BY <2>5 DEF Verify, Goto, Typed, TypeOK
    <3>4. \A k \in Cap : Dead(k) => Dead(k)'
      BY <2>5, <3>1, <3>2, <3>3 DEF Verify
    <3>5. \A d \in taken : packet[d].cap \in Cap
      BY <2>0, HasPacket
    <3> QED BY <2>0, <2>5, <3>4, <3>5 DEF Verify
  <2>6. ASSUME NEW c \in Call, ClaimUse(c)
        PROVE  Kept'
    <3> DEFINE p == packet[c]
    <3>1. at[c] = "verified" /\ c \notin taken /\ p \in Packets
      BY <2>6, HasPacket DEF ClaimUse, Typed, Places
    <3>2. /\ packet' = packet /\ past' = past /\ running' = running
          /\ expired' = expired
          /\ taken' \in {taken, taken \cup {c}}
      BY <2>6 DEF ClaimUse
    <3>3. \A d \in Call : at'[d] = "verified" => at[d] = "verified"
      BY <2>6 DEF ClaimUse, Goto, Typed, TypeOK
    <3>4. \A k \in Cap : Dead(k) => Dead(k)'
      BY <3>2, <3>3
    <3>5. ~Dead(p.cap)
      BY <3>1
    <3>6. \A d \in taken : packet[d].cap \in Cap /\ packet[d].payload # None
                           /\ packet[d].subcall \in Subcalls
                           /\ packet[d].attempt \in 1..MaxAttempts
      BY <2>0, HasPacket, NoneAssumption
    <3>7. \A k \in Cap \ expired : Purged[k] = uses[k]
      BY DEF Purged
    <3>8. CASE taken' = taken
      <4>1. \A k \in Cap \ expired : uses'[k] = uses[k]
        BY <2>6, <3>1, <3>7, <3>8 DEF ClaimUse
      <4> QED BY <3>2, <3>4, <3>6, <3>8, <4>1
    <3>9. CASE taken' = taken \cup {c}
      <4>1. MayClaim(p, Purged[p.cap]) /\ p.cap \in Cap
            /\ p.subcall \in Subcalls
            /\ p.attempt \in 1..MaxAttempts
        BY <2>6, <3>1, <3>9, ClaimEffect DEF Packets
      <4>2. \A k \in Cap \ expired : k # p.cap => uses'[k] = uses[k]
        <5>1. Purged \in [Cap -> Uses]
          BY PurgedType DEF Typed
        <5>2. uses' = [Purged EXCEPT ![p.cap] = Claimed(p, Purged[p.cap])]
          BY <2>6, <3>1, <3>9 DEF ClaimUse
        <5> QED BY <3>7, <5>1, <5>2
      <4>3. \A i \in Subcalls :
              /\ uses'[p.cap].print[i] =
                   IF i = p.subcall THEN p.payload ELSE Purged[p.cap].print[i]
              /\ uses'[p.cap].attempt[i] =
                   IF i = p.subcall THEN p.attempt ELSE Purged[p.cap].attempt[i]
        BY <2>6, <3>1, <3>9, ClaimEffect
      <4>4. ASSUME NEW d \in taken, SameUse(c, d), p.cap \notin expired
            PROVE  /\ p.payload = packet[d].payload
                   /\ p.attempt = uses[p.cap].attempt[p.subcall] + 1
                   /\ uses[p.cap].attempt[p.subcall] \in Nat
                   /\ uses[p.cap].attempt[p.subcall] >= packet[d].attempt
        <5>1. /\ uses[p.cap].print[p.subcall] = packet[d].payload
              /\ uses[p.cap].attempt[p.subcall] >= packet[d].attempt
          BY <3>5, <4>4
        <5>2. NextAttempt(p, uses[p.cap])
          BY <3>6, <3>7, <4>1, <4>4, <5>1 DEF MayClaim
        <5>3. uses[p.cap].attempt[p.subcall] \in Nat
          BY <4>1 DEF Typed, TypeOK, Uses, MaxAttempts
        <5> QED BY <5>1, <5>2, <5>3 DEF NextAttempt
      <4>5. Standing'
        <5> SUFFICES ASSUME NEW d \in taken \cup {c}, packet[d].cap \notin expired,
                            ~Dead(packet[d].cap)
                     PROVE  /\ uses'[packet[d].cap].print[packet[d].subcall]
                                 = packet[d].payload
                            /\ uses'[packet[d].cap].attempt[packet[d].subcall]
                                 >= packet[d].attempt
          BY <3>2, <3>4, <3>6, <3>9, <4>1
        <5>1. CASE d = c
          BY <4>1, <4>3, <5>1 DEF MaxAttempts
        <5>2. CASE d \in taken /\ SameUse(c, d)
          BY <3>6, <4>1, <4>3, <4>4, <5>2 DEF MaxAttempts
        <5>3. CASE d \in taken /\ packet[d].cap # p.cap
          BY <3>6, <4>2, <5>3
        <5>4. CASE /\ d \in taken /\ packet[d].cap = p.cap
                   /\ packet[d].subcall # p.subcall
          BY <3>6, <3>7, <4>3, <5>4
        <5> QED BY <5>1, <5>2, <5>3, <5>4
      <4>6. Single'
        <5>1. ASSUME NEW d \in taken, SameUse(c, d), p.cap \notin expired
              PROVE  p.attempt # packet[d].attempt /\ p.payload = packet[d].payload
          BY <3>6, <4>1, <4>4, <5>1 DEF MaxAttempts
        <5> QED BY <3>2, <3>9, <5>1
      <4> QED BY <4>5, <4>6
    <3> QED BY <3>2, <3>8, <3>9
  <2>7. ASSUME NEW c \in Call, Dispatch(c)
        PROVE  Kept'
    <3>1. \A d \in Call : at'[d] = "verified" => at[d] = "verified"
      BY <2>7 DEF Dispatch, Goto, Typed, TypeOK
    <3> QED BY <2>0, <2>7, <3>1 DEF Dispatch
  <2>8. ASSUME NEW c \in Call, Return(c)
        PROVE  Kept'
    <3>1. \A d \in Call : at'[d] = "verified" => at[d] = "verified"
      BY <2>8 DEF Return, Goto, Typed, TypeOK
    <3> QED BY <2>0, <2>8, <3>1 DEF Return
  <2>9. ASSUME NEW c \in Call, Revoke(c)
        PROVE  Kept'
    <3>1. \A d \in Call : at'[d] = "verified" => at[d] = "verified"
      BY <2>9 DEF Revoke, Goto, Typed, TypeOK
    <3> QED BY <2>0, <2>9, <3>1 DEF Revoke
  <2>10. CASE Stop
    <3>1. \A d \in Call : at[d] # "verified"
      BY <2>10 DEF Stop, Ended
    <3> QED BY <2>0, <2>10, <3>1 DEF Stop
  <2>11. CASE Start
    <3>1. \A c \in taken : TurnOf[packet[c].cap] \in past
      BY <2>0, <2>11, HasPacket DEF Start, Typed, Turns
    <3> QED BY <2>0, <2>11, <3>1 DEF Start
  <2>12. CASE UNCHANGED vars
    BY <2>12 DEF vars
  <2> QED
    BY PacketAssumption, <2>1, <2>2, <2>3, <2>4, <2>5, <2>6, <2>7, <2>8, <2>9, <2>10, <2>11,
       <2>12 DEF Next, Handle
<1> QED BY <1>1, <1>2, TypedInvariant, PTL DEF Spec

\* Before its capability expires, no attempt of a subcall is dispatched twice, and a
\* retry dispatches what the first attempt did (`_claim_use`).
THEOREM NothingReplayed == Spec => []NoReplay
<1>1. TypeOK /\ Kept => OneUse /\ RetriesRepeat
  BY DEF Kept, Single, OneUse, RetriesRepeat, TypeOK
<1> QED BY <1>1, TypeCorrect, KeptInvariant, PTL DEF NoReplay

-----------------------------------------------------------------------------
\* What the table says was claimed was claimed by a call.
History ==
    \A k \in Cap, i \in Subcalls :
        uses[k].print[i] # None \/ i <= uses[k].subcall =>
            \E d \in taken : packet[d].cap = k /\ packet[d].subcall = i

Recorded == History /\ InSequence

\* A claim follows a claim of the subcall before it.
THEOREM RecordedInvariant == Spec => []Recorded
<1> USE DEF Recorded, History, InSequence
<1>0. \A i \in Subcalls : Unused.print[i] = None /\ ~(i <= Unused.subcall)
  BY BoundsAssumption DEF Unused, Subcalls
<1>1. Init => Recorded
  BY <1>0 DEF Init, TurnsInit
<1>2. Typed /\ Recorded /\ [Next]_vars => Recorded'
  <2> SUFFICES ASSUME Typed, Recorded, [Next]_vars
               PROVE  Recorded'
    OBVIOUS
  <2> USE DEF turnVars, claimVars
  <2>0. /\ taken \subseteq Call
        /\ \A c \in taken : packet'[c] = packet[c]
    BY PacketsStand DEF Typed, TypeOK
  <2>1. ASSUME NEW t \in Turn, BeginTurn(t)
        PROVE  Recorded'
    BY <2>0, <2>1 DEF BeginTurn, TurnBegins
  <2>2. CASE EndTurn
    BY <2>0, <2>2 DEF EndTurn, TurnEnds
  <2>3. ASSUME NEW k \in Cap, Expire(k)
        PROVE  Recorded'
    BY <2>0, <2>3 DEF Expire
  <2>4. ASSUME NEW c \in Call, NEW p \in Packets, Submit(c, p)
        PROVE  Recorded'
    BY <2>0, <2>4 DEF Submit
  <2>5. ASSUME NEW c \in Call, Verify(c)
        PROVE  Recorded'
    BY <2>0, <2>5 DEF Verify
  <2>6. ASSUME NEW c \in Call, ClaimUse(c)
        PROVE  Recorded'
    <3> DEFINE p == packet[c]
               was == Purged[p.cap]
    <3>1. /\ c \notin taken /\ p \in Packets /\ p.cap \in Cap
          /\ p.subcall \in Subcalls
      BY <2>6, HasPacket DEF ClaimUse, Typed, Places
    <3>2. packet' = packet /\ taken' \in {taken, taken \cup {c}}
      BY <2>6 DEF ClaimUse
    <3>3. \A k \in Cap, i \in Subcalls :
            Purged[k].print[i] # None \/ i <= Purged[k].subcall =>
                uses[k].print[i] # None \/ i <= uses[k].subcall
      BY <1>0 DEF Purged
    <3>4. CASE taken' = taken
      <4>1. uses' \in {uses, Purged}
        BY <2>6, <3>1, <3>4 DEF ClaimUse
      <4> QED BY <3>2, <3>3, <3>4, <4>1
    <3>5. CASE taken' = taken \cup {c}
      <4>1. /\ MayClaim(p, was)
            /\ was \in Uses
            /\ uses' = [Purged EXCEPT ![p.cap] = Claimed(p, was)]
            /\ uses'[p.cap].subcall = IF was.print[p.subcall] = None
                                      THEN p.subcall ELSE was.subcall
            /\ \A i \in Subcalls : i # p.subcall =>
                   uses'[p.cap].print[i] = was.print[i]
        BY <2>6, <3>1, <3>5, ClaimEffect
      <4>2. was.subcall \in Nat /\ \A i \in Subcalls : i \in Nat \ {0}
        BY <4>1, BoundsAssumption DEF Uses, Subcalls
      <4>3. \A k \in Cap : k # p.cap => uses'[k] = Purged[k]
        BY <4>1, PurgedType DEF Typed
      <4>4. ASSUME NEW i \in Subcalls, i # p.subcall,
                   uses'[p.cap].print[i] # None \/ i <= uses'[p.cap].subcall
            PROVE  was.print[i] # None \/ i <= was.subcall
        BY <3>1, <4>1, <4>2, <4>4 DEF MayClaim
      <4>5. History'
        <5> SUFFICES ASSUME NEW k \in Cap, NEW i \in Subcalls,
                            uses'[k].print[i] # None \/ i <= uses'[k].subcall
                     PROVE  \E d \in taken \cup {c} :
                                packet[d].cap = k /\ packet[d].subcall = i
          BY <3>2, <3>5
        <5>1. CASE k = p.cap /\ i = p.subcall
          BY <5>1
        <5>2. CASE k = p.cap /\ i # p.subcall
          BY <3>3, <4>4, <5>2
        <5>3. CASE k # p.cap
          BY <3>3, <4>3, <5>3
        <5> QED BY <5>1, <5>2, <5>3
      <4>6. ASSUME p.subcall > 1
            PROVE  \E d \in taken : /\ packet[d].cap = p.cap
                                    /\ packet[d].subcall = p.subcall - 1
        <5>1. CASE was.print[p.subcall] = None
          <6>1. p.subcall - 1 \in Subcalls /\ p.subcall - 1 <= was.subcall
            BY <3>1, <4>1, <4>2, <4>6, <5>1, BoundsAssumption
            DEF MayClaim, Subcalls
          <6> QED BY <3>1, <3>3, <6>1
        <5>2. CASE was.print[p.subcall] # None
          <6>1. PICK d \in taken : /\ packet[d].cap = p.cap
                                   /\ packet[d].subcall = p.subcall
            BY <3>1, <3>3, <5>2
          <6> QED BY <4>6, <6>1
        <5> QED BY <5>1, <5>2
      <4>7. InSequence'
        BY <3>2, <3>5, <4>6
      <4> QED BY <4>5, <4>7
    <3> QED BY <3>2, <3>4, <3>5
  <2>7. ASSUME NEW c \in Call, Dispatch(c)
        PROVE  Recorded'
    BY <2>0, <2>7 DEF Dispatch
  <2>8. ASSUME NEW c \in Call, Return(c)
        PROVE  Recorded'
    BY <2>0, <2>8 DEF Return
  <2>9. ASSUME NEW c \in Call, Revoke(c)
        PROVE  Recorded'
    BY <2>0, <2>9 DEF Revoke
  <2>10. CASE Stop
    <3>1. \A k \in Cap : uses'[k] = Unused
      BY <2>10 DEF Stop
    <3> QED BY <1>0, <2>0, <2>10, <3>1 DEF Stop
  <2>11. CASE Start
    BY <2>0, <2>11 DEF Start
  <2>12. CASE UNCHANGED vars
    BY <2>12 DEF vars
  <2> QED
    BY PacketAssumption, <2>1, <2>2, <2>3, <2>4, <2>5, <2>6, <2>7, <2>8, <2>9, <2>10, <2>11,
       <2>12 DEF Next, Handle
<1> QED BY <1>1, <1>2, TypedInvariant, PTL DEF Spec

\* A later subcall is claimed only behind a claim of the one before it.
THEOREM SubcallsInOrder == Spec => []InSequence
<1>1. Recorded => InSequence
  BY DEF Recorded
<1> QED BY <1>1, RecordedInvariant, PTL

-----------------------------------------------------------------------------
\* The live records of a table fit.
Roomy(table) == IsFiniteSet(LiveIn(table)) /\ Cardinality(LiveIn(table)) <= MaxLive

\* A table with no other live record fits when the first one does.
LEMMA RoomySubset ==
    ASSUME NEW old, NEW new, Roomy(old), LiveIn(new) \subseteq LiveIn(old)
    PROVE  Roomy(new)
<1>1. IsFiniteSet(LiveIn(new)) /\ Cardinality(LiveIn(new)) <= Cardinality(LiveIn(old))
  BY FS_Subset DEF Roomy
<1>2. Cardinality(LiveIn(old)) \in Nat /\ Cardinality(LiveIn(new)) \in Nat
  BY <1>1, FS_CardinalityType DEF Roomy
<1> QED BY <1>1, <1>2, BoundsAssumption DEF Roomy

\* A record more fits if `_claim_use` found room for it.
LEMMA RoomyClaim ==
    ASSUME NEW old, NEW new, Roomy(old), NEW k \in Cap, RoomFor(k, old),
           LiveIn(new) \subseteq LiveIn(old) \cup {k}
    PROVE  Roomy(new)
<1>1. CASE k \in LiveIn(old)
  BY <1>1, RoomySubset
<1>2. CASE k \notin LiveIn(old)
  <2> DEFINE more == LiveIn(old) \cup {k}
  <2>1. Cardinality(LiveIn(old)) \in Nat
    BY FS_CardinalityType DEF Roomy
  <2>2. IsFiniteSet(more) /\ Cardinality(more) = Cardinality(LiveIn(old)) + 1
    BY <1>2, FS_AddElement DEF Roomy
  <2>3. Cardinality(LiveIn(old)) < MaxLive
    BY <1>2 DEF RoomFor
  <2>4. Cardinality(more) <= MaxLive /\ Cardinality(more) \in Nat
    BY <2>1, <2>2, <2>3, BoundsAssumption
  <2>5. /\ IsFiniteSet(LiveIn(new))
        /\ Cardinality(LiveIn(new)) <= Cardinality(more)
    BY <2>2, FS_Subset
  <2>6. Cardinality(LiveIn(new)) \in Nat
    BY <2>5, FS_CardinalityType
  <2> HIDE DEF more
  <2> QED BY <2>4, <2>5, <2>6, BoundsAssumption DEF Roomy
<1> QED BY <1>1, <1>2

UsesFit == Roomy(uses)

\* No claim, in any interleaving with expiry and restarts, outgrows the table.
LEMMA RoomyInvariant == Spec => []UsesFit
<1>1. Init => UsesFit
  <2> SUFFICES ASSUME Init PROVE UsesFit
    OBVIOUS
  <2>1. LiveIn(uses) = {}
    BY DEF Init, TurnsInit, LiveIn
  <2> QED BY <2>1, FS_EmptySet, BoundsAssumption DEF UsesFit, Roomy
<1>2. Typed /\ UsesFit /\ [Next]_vars => UsesFit'
  <2> SUFFICES ASSUME Typed, Roomy(uses), [Next]_vars
               PROVE  Roomy(uses')
    BY DEF UsesFit
  <2>1. LiveIn(Purged) \subseteq LiveIn(uses)
    BY DEF LiveIn, Purged
  <2>2. Roomy(Purged)
    BY <2>1, RoomySubset
  <2>3. ASSUME NEW c \in Call, ClaimUse(c)
        PROVE  Roomy(uses')
    <3> DEFINE p == packet[c]
    <3>1. p.cap \in Cap
      BY <2>3, HasPacket DEF ClaimUse, Typed, TypeOK
    <3>2. CASE RoomFor(p.cap, Purged) /\ MayClaim(p, Purged[p.cap])
      <4>1. uses' = [Purged EXCEPT ![p.cap] = Claimed(p, Purged[p.cap])]
        BY <2>3, <3>2 DEF ClaimUse
      <4>2. LiveIn(uses') \subseteq LiveIn(Purged) \cup {p.cap}
        BY <4>1 DEF LiveIn, Purged
      <4> QED BY <2>2, <3>1, <3>2, <4>2, RoomyClaim
    <3>3. CASE ~(RoomFor(p.cap, Purged) /\ MayClaim(p, Purged[p.cap]))
      <4>1. uses' = uses \/ uses' = Purged
        BY <2>3, <3>3 DEF ClaimUse
      <4> QED BY <2>2, <4>1
    <3> QED BY <3>2, <3>3
  <2>4. ASSUME Stop
        PROVE  Roomy(uses')
    <3>1. LiveIn(uses') = {}
      BY <2>4 DEF Stop, LiveIn
    <3> QED BY <3>1, RoomySubset
  <2>5. ASSUME uses' = uses
        PROVE  Roomy(uses')
    BY <2>5
  <2>6. uses' = uses \/ Stop \/ \E c \in Call : ClaimUse(c)
    BY DEF Next, vars, turnVars, claimVars, BeginTurn, TurnBegins, EndTurn, TurnEnds, Expire, Submit,
       Handle, Verify, Dispatch, Return, Revoke, Start
  <2> QED BY <2>3, <2>4, <2>5, <2>6
<1> QED BY <1>1, <1>2, TypedInvariant, PTL DEF Spec

\* The replay table of the relay stays within _MAX_LIVE_CAPABILITIES.
THEOREM TableBounded == Spec => []Bounded
<1>1. Typed /\ UsesFit => Bounded
  BY DEF Typed, UsesFit, Roomy, Bounded
<1> QED BY <1>1, TypedInvariant, RoomyInvariant, PTL

-----------------------------------------------------------------------------
(* WorkflowRelay implements RelayPromise. *)

\* The attempt in a record is that of a call which claimed it.
Latest ==
    \A k \in Cap, i \in Subcalls :
        uses[k].print[i] # None =>
            \E d \in taken : /\ packet[d].cap = k /\ packet[d].subcall = i
                             /\ packet[d].attempt = uses[k].attempt[i]

THEOREM LatestInvariant == Spec => []Latest
<1>0. \A i \in Subcalls : Unused.print[i] = None
  BY DEF Unused
<1>1. Init => Latest
  BY <1>0 DEF Init, Latest
<1>2. Typed /\ Latest /\ [Next]_vars => Latest'
  <2> SUFFICES ASSUME Typed, Latest, [Next]_vars
               PROVE  Latest'
    OBVIOUS
  <2>0. /\ taken \subseteq taken'
        /\ \A c \in taken : packet'[c] = packet[c]
    BY PacketsStand
       DEF Next, vars, turnVars, claimVars, BeginTurn, EndTurn, Expire, Submit, Handle,
           Verify, ClaimUse, Dispatch, Return, Revoke, Stop, Start
  <2>1. CASE \A k \in Cap : uses'[k] \in {uses[k], Unused}
    BY <1>0, <2>0, <2>1 DEF Latest
  <2>2. ASSUME NEW c \in Call, ClaimUse(c), taken' # taken
        PROVE  Latest'
    <3> DEFINE p == packet[c]
               was == Purged[p.cap]
    <3>1. /\ c \notin taken /\ c \in taken' /\ packet'[c] = packet[c]
          /\ p.cap \in Cap /\ p.subcall \in Subcalls
      BY <2>2, HasPacket DEF ClaimUse, Typed, Places
    <3>2. uses' = [Purged EXCEPT ![p.cap] = Claimed(p, was)]
      BY <2>2 DEF ClaimUse
    <3>3. \A k \in Cap : k # p.cap => uses'[k] \in {uses[k], Unused}
      BY <3>2 DEF Purged
    <3>4. \A i \in Subcalls : i # p.subcall =>
            /\ uses'[p.cap].print[i] = was.print[i]
            /\ uses'[p.cap].attempt[i] = was.attempt[i]
      BY <2>2, <3>1, ClaimEffect
    <3>5. uses'[p.cap].attempt[p.subcall] = p.attempt
      BY <2>2, <3>1, ClaimEffect
    <3>6. was \in {uses[p.cap], Unused}
      BY <3>1 DEF Purged
    <3> SUFFICES ASSUME NEW k \in Cap, NEW i \in Subcalls, uses'[k].print[i] # None
                 PROVE  \E d \in taken' : /\ packet'[d].cap = k
                                          /\ packet'[d].subcall = i
                                          /\ packet'[d].attempt = uses'[k].attempt[i]
      BY DEF Latest
    <3>7. CASE k = p.cap /\ i = p.subcall
      BY <3>1, <3>5, <3>7
    <3>8. CASE k = p.cap /\ i # p.subcall
      BY <1>0, <2>0, <3>4, <3>6, <3>8 DEF Latest
    <3>9. CASE k # p.cap
      BY <1>0, <2>0, <3>3, <3>9 DEF Latest
    <3> QED BY <3>7, <3>8, <3>9
  <2>3. ASSUME NEW c \in Call, ClaimUse(c), taken' = taken
        PROVE  Latest'
    <3>1. c \notin taken
      BY <2>3 DEF ClaimUse, Typed, Places
    <3>2. uses' = uses \/ uses' = Purged
      BY <2>3, <3>1 DEF ClaimUse
    <3> QED BY <2>1, <3>2 DEF Purged
  <2>4. Stop => \A k \in Cap : uses'[k] \in {uses[k], Unused}
    BY DEF Stop
  <2>5. uses' = uses \/ Stop \/ \E c \in Call : ClaimUse(c)
    BY DEF Next, vars, turnVars, claimVars, BeginTurn, TurnBegins, EndTurn, TurnEnds, Expire, Submit,
       Handle, Verify, Dispatch, Return, Revoke, Start
  <2> QED BY <2>1, <2>2, <2>3, <2>4, <2>5
<1> QED BY <1>1, <1>2, TypedInvariant, PTL DEF Spec

\* A claim that the table admits is one that the history of all claims admits.
LEMMA ClaimRefines ==
    ASSUME Typed, Kept, Recorded, Latest, NEW c \in Call, ClaimUse(c), taken' # taken
    PROVE  Promise!Claim(c)
<1> DEFINE p == packet[c]
           was == Purged[p.cap]
           earlier == {d \in taken : packet[d].cap = p.cap /\ packet[d].subcall = p.subcall}
<1>1. /\ at[c] = "verified" /\ c \notin taken /\ taken' = taken \cup {c}
      /\ p # None /\ p.cap \in Cap /\ p.subcall \in Subcalls
      /\ TurnOf[p.cap] \in past \cup {active}
      /\ UNCHANGED <<turnVars, expired, packet, ran>>
  BY HasPacket, PacketAssumption DEF ClaimUse, Typed, Places, Turns
<1>2. MayClaim(p, was) /\ was \in Uses
  BY <1>1, ClaimEffect
<1>3. \A i \in Subcalls : i \in Nat /\ i >= 1
  BY BoundsAssumption DEF Subcalls
<1>4. ~Dead(p.cap)
  BY <1>1 DEF Dead
<1>5. CASE p.cap \in expired
  <2>1. was = Unused
    BY <1>1, <1>5 DEF Purged
  <2>2. p.subcall = 1
    BY <1>1, <1>2, <2>1 DEF MayClaim, Unused
  <2> QED BY <1>1, <1>2, <1>5, <2>2 DEF Promise!Claim, Promise!turnVars, turnVars, MayClaim
<1>6. CASE p.cap \notin expired
  <2>1. was = uses[p.cap]
    BY <1>1, <1>6 DEF Purged
  <2>2. \A d \in earlier : /\ was.print[p.subcall] = packet[d].payload
                           /\ was.attempt[p.subcall] >= packet[d].attempt
                           /\ packet[d].payload # None
                           /\ packet[d].attempt \in Nat
    BY <1>4, <1>6, <2>1, HasPacket, NoneAssumption
       DEF Kept, Standing, MaxAttempts, Typed, TypeOK
  <2>3. CASE was.print[p.subcall] = None
    <3>1. p.subcall = was.subcall + 1 /\ was.subcall \in Nat
      BY <1>2, <2>3 DEF MayClaim, Uses
    <3>2. earlier = {}
      BY <2>2, <2>3
    <3>3. ASSUME p.subcall # 1
          PROVE  \E d \in taken : /\ packet[d].cap = p.cap
                                  /\ packet[d].subcall = p.subcall - 1
      <4>1. p.subcall - 1 \in Subcalls /\ p.subcall - 1 <= was.subcall
        BY <1>1, <3>1, <3>3, BoundsAssumption DEF Subcalls
      <4> QED BY <1>1, <2>1, <4>1 DEF Recorded, History
    <3>4. Promise!First(p)
      BY <3>2, <3>3 DEF Promise!First, Promise!ClaimsOf
    <3> QED BY <1>1, <1>2, <3>4 DEF Promise!Claim, Promise!turnVars, turnVars, MayClaim
  <2>4. CASE was.print[p.subcall] # None
    <3>1. /\ was.print[p.subcall] = p.payload
          /\ p.attempt = was.attempt[p.subcall] + 1
          /\ was.attempt[p.subcall] \in Nat
      BY <1>1, <1>2, <2>4 DEF MayClaim, NextAttempt, Uses, MaxAttempts
    <3>2. \A d \in earlier : packet[d].payload = p.payload /\ packet[d].attempt < p.attempt
      BY <2>2, <3>1
    <3>3. \E d \in earlier : packet[d].attempt = p.attempt - 1
      BY <1>1, <2>1, <2>4, <3>1 DEF Latest
    <3>4. Promise!Retry(p)
      BY <3>2, <3>3 DEF Promise!Retry, Promise!ClaimsOf
    <3> QED BY <1>1, <1>2, <3>4 DEF Promise!Claim, Promise!turnVars, turnVars, MayClaim
  <2> QED BY <2>3, <2>4
<1> QED
  BY <1>5, <1>6

\* A call that the fence admits is one that the history of all dispatches admits.
LEMMA RunRefines ==
    ASSUME Typed, Fenced, NEW c \in Call, Dispatch(c), ran' # ran
    PROVE  Promise!Run(c)
<1> DEFINE k == packet[c].cap
<1>1. /\ at[c] = "claimed" /\ c \in taken \ ran /\ k \notin Denied
      /\ ran' = ran \cup {c} /\ running
      /\ UNCHANGED <<turnVars, expired, packet, taken>>
  BY DEF Dispatch, Typed, Places, Down, Ended
<1>2. CASE DestOf[k] = None
  BY <1>1, <1>2 DEF Promise!Run, Promise!turnVars, turnVars
<1>3. CASE DestOf[k] # None
  <2>1. TurnOf[k] = active /\ SameDestination(TurnOf[k], DestOf[k])
    BY <1>1, <1>3 DEF Dispatch, MayBind, TurnIsActive
  <2>2. ASSUME NEW d \in ran, TurnOf[packet[d].cap] = active
        PROVE  DestOf[packet[d].cap] \in {None, DestOf[k]}
    <3> SUFFICES ASSUME DestOf[packet[d].cap] # None
                 PROVE  DestOf[packet[d].cap] = DestOf[k]
      OBVIOUS
    <3>1. fence = [turn |-> active, dest |-> DestOf[packet[d].cap]]
      BY <1>1, <2>2 DEF Fenced, Fence, Typed, Turns
    <3> QED BY <2>1, <3>1 DEF SameDestination
  <2> QED BY <1>1, <2>1, <2>2 DEF Promise!Run, Promise!turnVars, turnVars
<1> QED
  BY <1>2, <1>3

\* The bounded replay table and the fence of one turn, which expire and are lost when
\* the relay stops, admit no use and no dispatch that a memory of all of them would
\* refuse (`_claim_use`, `_claim_task_turn_destination`, `stop`).
THEOREM PromiseImplemented == Spec => ImplementsPromise
<1>1. Init => Promise!Init
  BY DEF Init, TurnsInit, Promise!Init, Promise!TurnsInit
<1>2. Typed /\ Fenced /\ Kept /\ Recorded /\ Latest /\ [Next]_vars
      => [Promise!Next]_(Promise!vars)
  <2> SUFFICES ASSUME Typed, Fenced, Kept, Recorded, Latest, [Next]_vars
               PROVE  Promise!Next \/ UNCHANGED Promise!vars
    OBVIOUS
  <2> USE DEF turnVars, claimVars, Promise!turnVars
  <2>0. CASE UNCHANGED <<active, past, expired, packet, taken, ran>>
    BY <2>0 DEF Promise!vars
  <2>1. ASSUME NEW t \in Turn, BeginTurn(t)
        PROVE  Promise!Next
    BY <2>1 DEF BeginTurn, TurnBegins, Promise!Next, Promise!Turns, Promise!TurnsNext,
                Promise!TurnBegins
  <2>2. CASE EndTurn
    BY <2>2 DEF EndTurn, TurnEnds, Promise!Next, Promise!Turns, Promise!TurnsNext,
                Promise!TurnEnds
  <2>3. ASSUME NEW k \in Cap, Expire(k)
        PROVE  Promise!Next
    BY <2>3 DEF Expire, Promise!Next, Promise!Expires
  <2>4. ASSUME NEW c \in Call, NEW p \in Sent, Submit(c, p)
        PROVE  Promise!Next
    <3>1. Promise!Submit(c)
      BY <2>4 DEF Submit, Promise!Submit
    <3> QED BY <3>1 DEF Promise!Next
  <2>5. ASSUME NEW c \in Call, ClaimUse(c)
        PROVE  Promise!Next \/ UNCHANGED Promise!vars
    <3>1. CASE taken' = taken
      BY <2>0, <2>5, <3>1 DEF ClaimUse
    <3>2. CASE taken' # taken
      BY <2>5, <3>2, ClaimRefines DEF Promise!Next
    <3> QED BY <3>1, <3>2
  <2>6. ASSUME NEW c \in Call, Dispatch(c)
        PROVE  Promise!Next \/ UNCHANGED Promise!vars
    <3>1. CASE ran' = ran
      BY <2>0, <2>6, <3>1 DEF Dispatch
    <3>2. CASE ran' # ran
      BY <2>6, <3>2, RunRefines DEF Promise!Next
    <3> QED BY <3>1, <3>2
  <2>7. CASE \/ \E c \in Call : Verify(c) \/ Return(c) \/ Revoke(c)
             \/ Stop \/ Start \/ UNCHANGED vars
    BY <2>0, <2>7 DEF Verify, Return, Revoke, Stop, Start, vars
  <2> QED BY <2>1, <2>2, <2>3, <2>4, <2>5, <2>6, <2>7 DEF Next, Handle
<1> QED
  BY <1>1, <1>2, TypedInvariant, FencedInvariant, KeptInvariant, RecordedInvariant,
     LatestInvariant, PTL
     DEF Spec, ImplementsPromise, Promise!Spec
=============================================================================

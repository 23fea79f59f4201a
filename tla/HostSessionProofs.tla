-------------------------- MODULE HostSessionProofs --------------------------
(***************************************************************************)
(* Proofs about HostSession for any number of turns, asks, commands and    *)
(* cue requests, and for all bounds.                                       *)
(***************************************************************************)
EXTENDS HostSession, FiniteSetTheorems, TLAPS

\* What decides a cue request: it is pending, or its handler has the frame loop,
\* only before its answer, and only the newest one is.
Cued ==
    /\ \A r \in CueReq :
         /\ cueAnswers[r] <= 1
         /\ r \notin cueUsed \/ r \in cuePending => cueAnswers[r] = 0
    /\ cuePending \subseteq {cueNewest}
    /\ frame \in CueReq =>
         /\ frame = cueNewest /\ frame \in cueUsed
         /\ cuePending = {} /\ cueAnswers[frame] = 0

Typed == TypeOK /\ Cued

\* A command names a turn and, when it answers an item, one the phone has seen.
LEMMA CommandTyped ==
    ASSUME TypeOK, NEW m \in Commands
    PROVE  /\ m.turn \in Turn
           /\ m.item # None =>
                /\ m.item \in seen /\ m.item \in Shown /\ m.turn = m.item.turn
                /\ m.choice \in Decisions
<1> USE DEF TypeOK, CockpitTypeOK, Commands, Command, Shown, Decisions
<1>1. CASE \E x \in seen : m = Command("answer", x.turn, x, "answer")
  BY <1>1
<1>2. CASE \E x \in seen, d \in {"deny", "allow_once"} :
             m = Command("permission_decide", x.turn, x, d)
  BY <1>2
<1>3. CASE \E type \in {"steer", "interrupt"}, t \in 1 .. last :
             m = Command(type, t, None, None)
  BY <1>3, BoundsAssumption DEF Turn
<1> QED
  BY <1>1, <1>2, <1>3

\* What the phone answers is kept with its type.
AnswersTyped ==
    /\ gateway \in [Ask -> {"none", "waiting", "gone", "answered"}]
    /\ answer \in [Ask -> {None} \cup
                     [turn : Turn, nonce : Nonce, choice : Decisions]]

\* A command that takes effect keeps the types of what it writes.
LEMMA TakesTyped ==
    ASSUME TypeOK, NEW c \in Cmd, NEW m \in Commands, Takes(c, m)
    PROVE  effects' \in [Cmd -> Nat] /\ AnswersTyped'
<1> USE DEF TypeOK, CockpitTypeOK, AnswersTyped, askVars
<1>1. effects' \in [Cmd -> Nat]
  BY DEF Takes
<1>2. CASE m.item = None
  BY <1>1, <1>2 DEF Takes
<1>3. CASE m.item # None
  <2>1. /\ m.turn \in Turn /\ m.choice \in Decisions
        /\ m.item.ask \in Ask /\ m.item.nonce \in Nonce
    BY <1>3, CommandTyped DEF Shown
  <2> DEFINE given == [turn |-> m.turn, nonce |-> m.item.nonce, choice |-> m.choice]
  <2>2. given \in [turn : Turn, nonce : Nonce, choice : Decisions]
    BY <2>1
  <2> HIDE DEF given
  <2>3. /\ gateway' = [gateway EXCEPT ![m.item.ask] = "answered"]
        /\ answer' = [answer EXCEPT ![m.item.ask] = given]
    BY <1>3 DEF Takes, given
  <2> QED BY <1>1, <2>1, <2>2, <2>3
<1> QED
  BY <1>2, <1>3

\* Typed holds in every state.
THEOREM TypedInvariant == Spec => []Typed
<1> USE NoneAssumption, CueAssumption, FrameAssumption
    DEF Typed, TypeOK, CockpitTypeOK, CueTypeOK, Cued
<1>1. Init => Typed
  <2> SUFFICES ASSUME Init PROVE Typed
    OBVIOUS
  <2> USE DEF Init
  <2>1. TypeOK
    <3>1. last \in 0 .. MaxTurn /\ made \in 0 .. MaxNonce
      BY BoundsAssumption DEF CockpitInit
    <3>2. CockpitTypeOK
      BY <3>1 DEF CockpitInit
    <3>3. CueTypeOK
      BY DEF CueInit, Jobs
    <3> QED BY <3>2, <3>3 DEF ConnectionInit
  <2>2. Cued
    BY DEF ConnectionInit, CueInit
  <2> QED BY <2>1, <2>2
<1>2. Typed /\ [Next]_vars => Typed'
  <2> SUFFICES ASSUME Typed, [Next]_vars
               PROVE  Typed'
    OBVIOUS
  <2> USE DEF connVars, cockpitVars, turnVars, sessionVars, askVars, commandVars,
              cueVars
  <2>1. CASE Dropped \/ Closed
    <3>1. CASE Dropped
      BY <3>1 DEF Dropped, Drop
    <3>2. CASE Closed
      <4> USE <3>2 DEF Closed, Close, CockpitCleared, CuesCleared
      <4>1. CockpitTypeOK'
        OBVIOUS
      <4>2. cueJob' \in [CueReq -> Jobs]
        BY DEF Jobs
      <4> QED BY <4>1, <4>2
    <3> QED BY <2>1, <3>1, <3>2
  <2>2. CASE StartTurn /\ UNCHANGED cueVars
    <3>1. last + 1 \in Turn /\ last + 1 \in 0 .. MaxTurn
      BY <2>2, BoundsAssumption DEF StartTurn, Turn
    <3>2. state' \in [Turn -> {"none"} \cup States \cup Terminal]
      BY <2>2 DEF StartTurn, States
    <3>3. start' \in [Turn -> {"none", "opening", "dispatching", "cancelling",
                              "discarding", "done"}]
      BY <2>2 DEF StartTurn
    <3> QED BY <2>2, <3>1, <3>2, <3>3 DEF StartTurn
  <2>3. CASE (CancelFails \/ PredecessorDropped) /\ UNCHANGED cueVars
    <3>1. CASE CancelFails
      BY <2>3, <3>1 DEF CancelFails
    <3>2. CASE PredecessorDropped
      <4>1. /\ active' \in Turn \cup {None} /\ taken' \in Turn \cup {None}
            /\ fin' \in [Turn -> {"no", "projecting", "completing", "over"}]
        BY <3>2 DEF PredecessorDropped, Forget
      <4> QED BY <2>3, <3>2, <4>1 DEF PredecessorDropped
    <3> QED BY <2>3, <3>1, <3>2
  <2>4. CASE ReadSnapshot /\ UNCHANGED cueVars
    <3>1. \A t \in Turn : Visible(t) \subseteq Shown
      <4> SUFFICES ASSUME NEW t \in Turn, NEW x \in Visible(t) PROVE x \in Shown
        OBVIOUS
      <4>1. PICK i \in pending[t] : x = [turn |-> t, ask |-> i.ask, nonce |-> i.nonce]
        BY DEF Visible, Fits
      <4>2. i \in Items
        BY <4>1
      <4> QED BY <4>1, <4>2 DEF Items, Shown
    <3>2. seen' \subseteq Shown
      BY <2>4, <3>1 DEF ReadSnapshot
    <3>3. pending' \in [Turn -> SUBSET Items] /\ backends' \in [Turn -> SUBSET Ask]
      BY <2>4 DEF ReadSnapshot, Retained
    <3>4. state' \in [Turn -> {"none"} \cup States \cup Terminal]
      BY <2>4 DEF ReadSnapshot, States
    <3> QED BY <2>4, <3>2, <3>3, <3>4 DEF ReadSnapshot
  <2>5. ASSUME NEW t \in Turn, Opened(t) \/ Dispatched(t), UNCHANGED cueVars
        PROVE  Typed'
    BY <2>5 DEF Opened, Dispatched, StartFails, StartEnds, Forget
  <2>6. ASSUME NEW t \in Turn, StartCancelled(t) \/ Discarded(t), UNCHANGED cueVars
        PROVE  Typed'
    <3> USE <2>6 DEF Forget, StartEnds, StartFails, Discard
    <3>1. /\ start' \in [Turn -> {"none", "opening", "dispatching", "cancelling",
                                 "discarding", "done"}]
          /\ fin' \in [Turn -> {"no", "projecting", "completing", "over"}]
          /\ active' \in Turn \cup {None} /\ calling' \in Turn \cup {None}
          /\ frame' \in Turn \cup CueReq \cup {None}
          /\ frame' \in CueReq => frame' = frame
      BY DEF StartCancelled, Discarded
    <3>2. /\ state' \in [Turn -> {"none"} \cup States \cup Terminal]
          /\ pending' \in [Turn -> SUBSET Items]
          /\ backends' \in [Turn -> SUBSET Ask]
      BY DEF StartCancelled, Discarded
    <3> QED BY <3>1, <3>2 DEF StartCancelled, Discarded
  <2>7. ASSUME NEW t \in Turn, NEW how \in Ends, Finish(t, how), UNCHANGED cueVars
        PROVE  Typed'
    <3>1. how \in Terminal
      BY BoundsAssumption DEF Terminal
    <3> QED BY <2>7, <3>1 DEF Finish, ShowEnd, Forget
  <2>8. ASSUME NEW t \in Turn, Complete(t) \/ Completed(t), UNCHANGED cueVars
        PROVE  Typed'
    BY <2>8 DEF Complete, Completed, Forget
  <2>9. ASSUME NEW t \in Turn, Expire(t), UNCHANGED cueVars
        PROVE  Typed'
    <3>1. PICK i \in pending[t] : pending' = [pending EXCEPT ![t] =
            (@ \ {i}) \cup {[ask |-> i.ask, nonce |-> i.nonce, late |-> TRUE]}]
      BY <2>9 DEF Expire
    <3>2. [ask |-> i.ask, nonce |-> i.nonce, late |-> TRUE] \in Items
      BY DEF Items
    <3>3. pending' \in [Turn -> SUBSET Items]
      BY <3>1, <3>2
    <3> QED BY <2>9, <3>3 DEF Expire
  <2>10. ASSUME NEW t \in Turn, NEW a \in Ask, Project(t, a),
                UNCHANGED <<connVars, turnVars, seen, askVars, commandVars, cueVars>>
         PROVE  Typed'
    <3>1. made + 1 \in Nonce /\ made + 1 \in 0 .. MaxNonce
      BY <2>10, BoundsAssumption DEF Project, Nonce
    <3>2. [ask |-> a, nonce |-> made + 1, late |-> FALSE] \in Items
      BY <3>1 DEF Items
    <3>3. /\ state' \in [Turn -> {"none"} \cup States \cup Terminal]
          /\ pending' \in [Turn -> SUBSET Items]
          /\ backends' \in [Turn -> SUBSET Ask]
          /\ made' \in 0 .. MaxNonce
      BY <2>10, <3>1, <3>2 DEF Project, States
    <3> QED BY <2>10, <3>3
  <2>11. ASSUME NEW a \in Ask, Raise(a) \/ Withdraw(a), UNCHANGED cueVars
         PROVE  Typed'
    BY <2>11 DEF Raise, Withdraw
  <2>12. ASSUME NEW c \in Cmd, NEW m \in Commands, UNCHANGED cueVars,
                Accepted(c, m) \/ Rejected(c, m) \/ Raised(c, m)
         PROVE  Typed'
    <3>1. /\ commands' \subseteq Cmd
          /\ receipt' \in [Cmd -> {"none", "accepted", "rejected", "outcome_unknown"}]
      BY <2>12 DEF Accepted, Rejected, Raised, Remember
    <3>2. effects' \in [Cmd -> Nat] /\ AnswersTyped'
      BY <2>12, TakesTyped DEF Accepted, Rejected, Raised, AnswersTyped
    <3>3. m.turn \in Turn
      BY CommandTyped
    <3>4. CASE Accepted(c, m)
      <4>1. /\ state' \in [Turn -> {"none"} \cup States \cup Terminal]
            /\ pending' \in [Turn -> SUBSET Items]
            /\ backends' \in [Turn -> SUBSET Ask]
        BY <3>3, <3>4 DEF Accepted, AfterAnswer, States
      <4> QED BY <2>12, <3>1, <3>2, <3>4, <4>1 DEF Accepted, AnswersTyped
    <3>5. CASE Rejected(c, m) \/ Raised(c, m)
      BY <2>12, <3>1, <3>2, <3>5 DEF Rejected, Raised, AnswersTyped
    <3> QED BY <2>12, <3>4, <3>5
  <2>13. ASSUME NEW r \in CueReq, RequestCues(r), UNCHANGED cockpitVars
         PROVE  Typed'
    BY <2>13 DEF RequestCues, Listening, Launch, Withdrawn, Answer, Jobs
  <2>14. ASSUME NEW r \in CueReq, CancelCues(r), UNCHANGED cockpitVars
         PROVE  Typed'
    BY <2>14 DEF CancelCues, Withdrawn, Listening, Answer, Jobs
  <2>15. ASSUME NEW r \in CueReq, CuesContinue(r), UNCHANGED cockpitVars
         PROVE  Typed'
    BY <2>15 DEF CuesContinue, Launch, Jobs
  <2>16. ASSUME NEW r \in CueReq, CuesReturned(r) \/ CuesFailed(r), UNCHANGED cockpitVars
         PROVE  Typed'
    BY <2>16 DEF CuesReturned, CuesFailed, JobEnds, Taken, Answer, Jobs
  <2>17. ASSUME NEW r \in CueReq, Deadline(r), UNCHANGED cockpitVars
         PROVE  Typed'
    BY <2>17 DEF Deadline, JobEnds, Taken, Answer, Jobs
  <2>18. CASE UNCHANGED vars
    BY <2>18 DEF vars
  <2> QED
    BY <2>1, <2>2, <2>3, <2>4, <2>5, <2>6, <2>7, <2>8, <2>9, <2>10, <2>11, <2>12,
       <2>13, <2>14, <2>15, <2>16, <2>17, <2>18
       DEF Next, CockpitNext, TurnProceeds, CueNext, CueProceeds, SendClarify,
           SendExecApproval
<1> QED
  BY <1>1, <1>2, PTL DEF Spec

\* The cue lane: a request gets at most one answer, and only the newest is pending,
\* whatever races for it (`_take_pending_conversate_cues`).
THEOREM OneAnswerPerCue == Spec => []OneCueAnswer
<1>1. Typed => OneCueAnswer
  BY DEF Typed, Cued, OneCueAnswer
<1> QED
  BY <1>1, TypedInvariant, PTL

-----------------------------------------------------------------------------
(* Which sessions are open. *)

\* Turns that have not started have nothing, a start that failed has discarded its
\* session before it forgets the turn, and the drop of the phone before takes one
\* turn at most.
Begun ==
    /\ before => taken = None
    /\ active # None => active <= last
    /\ \A t \in Turn :
         /\ t > last => state[t] = "none" /\ fin[t] = "no" /\ start[t] = "none"
         /\ start[t] = "discarding" => state[t] = "none"

Open == OpenIsActive /\ Begun

openVars == <<attached, active, last, start, fin, before, taken, state>>

\* Open holds in every state.
THEOREM OpenInvariant == Spec => []Open
<1> USE NoneAssumption, BoundsAssumption
    DEF Open, OpenIsActive, Begun, Sessions, States, Terminal
<1>1. Init => Open
  BY DEF Init, ConnectionInit, CockpitInit
<1>2. Typed /\ Open /\ [Next]_vars => Open'
  <2> SUFFICES ASSUME Typed, Open, [Next]_vars
               PROVE  Open'
    OBVIOUS
  <2> USE DEF connVars, turnVars, sessionVars, Turn
  <2>t. /\ last \in 0 .. MaxTurn /\ active \in Turn \cup {None}
        /\ taken \in Turn \cup {None}
        /\ start \in [Turn -> {"none", "opening", "dispatching", "cancelling",
                               "discarding", "done"}]
        /\ fin \in [Turn -> {"no", "projecting", "completing", "over"}]
        /\ state \in [Turn -> {"none"} \cup States \cup Terminal]
    BY DEF Typed, TypeOK, CockpitTypeOK
  <2>0. CASE UNCHANGED openVars
    BY <2>0 DEF openVars
  <2>1. CASE Dropped \/ Closed
    BY <2>1 DEF Dropped, Drop, Closed, Close, CockpitCleared, cockpitVars
  <2>2. CASE StartTurn
    <3>1. last + 1 \in Turn /\ last' = last + 1 /\ active' = last + 1
      BY <2>2, <2>t DEF StartTurn
    <3>2. /\ fin' = fin /\ taken' = taken /\ before' = before
          /\ \A t \in Turn : t # last + 1 =>
               start'[t] = start[t] /\ state'[t] \in {state[t], "none"}
          /\ start'[last + 1] \in {"opening", "cancelling"}
      BY <2>2, <2>t, <3>1 DEF StartTurn
    <3>3. \A t \in Turn : state[t] \in {"running", "waiting_human", "interrupting"}
                         => taken = t
      BY <2>2, <2>t DEF StartTurn, Listening
    <3>4. Begun'
      BY <2>t, <3>1, <3>2
    <3>5. OpenIsActive'
      BY <2>t, <3>1, <3>2, <3>3
    <3> QED BY <3>4, <3>5
  <2>3. CASE PredecessorDropped
    BY <2>3, <2>t DEF PredecessorDropped, Forget
  <2>4. CASE ReadSnapshot
    BY <2>4, <2>t DEF ReadSnapshot
  <2>5. ASSUME NEW t \in Turn, Opened(t) \/ Dispatched(t)
        PROVE  Open'
    BY <2>5, <2>t DEF Opened, Dispatched, StartFails, StartEnds, Forget, Owns, Speaking
  <2>6. ASSUME NEW t \in Turn, StartCancelled(t) \/ Discarded(t)
        PROVE  Open'
    BY <2>6, <2>t DEF StartCancelled, Discarded, Discard, StartFails, StartEnds,
                      Forget, Owns
  <2>7. ASSUME NEW t \in Turn, NEW how \in Ends, Finish(t, how)
        PROVE  Open'
    BY <2>7, <2>t DEF Finish, ShowEnd, Forget, Owns
  <2>8. ASSUME NEW t \in Turn, Complete(t) \/ Completed(t)
        PROVE  Open'
    BY <2>8, <2>t DEF Complete, Completed, Forget
  <2>9. ASSUME NEW t \in Turn, NEW a \in Ask, Hears(t), Project(t, a),
               UNCHANGED <<connVars, turnVars>>
        PROVE  Open'
    BY <2>9, <2>t DEF Hears, Speaking, Project
  <2>10. ASSUME NEW c \in Cmd, NEW m \in Commands, Accepted(c, m)
         PROVE  Open'
    <3>1. m.turn \in Turn
      BY CommandTyped DEF Typed
    <3>2. /\ attached /\ active = m.turn /\ fin[m.turn] = "no"
          /\ state[m.turn] # "none"
      BY <2>10 DEF Accepted, Dispatchable, Authorized, Speaking
    <3>3. /\ UNCHANGED <<attached, active, last, start, fin, before, taken>>
          /\ \A t \in Turn : t # m.turn => state'[t] = state[t]
      BY <2>10, <2>t, <3>1 DEF Accepted
    <3> QED BY <2>t, <3>1, <3>2, <3>3
  <2>11. ASSUME NEW t \in Turn, Expire(t)
         PROVE  UNCHANGED openVars
    BY <2>11 DEF Expire, openVars
  <2>12. ASSUME NEW a \in Ask, Raise(a) \/ Withdraw(a)
         PROVE  UNCHANGED openVars
    BY <2>12 DEF Raise, Withdraw, openVars
  <2>13. ASSUME NEW c \in Cmd, NEW m \in Commands, Rejected(c, m) \/ Raised(c, m)
         PROVE  UNCHANGED openVars
    BY <2>13 DEF Rejected, Raised, openVars
  <2>14. CASE CancelFails
    BY <2>0, <2>14 DEF CancelFails, openVars
  <2>15. ASSUME NEW r \in CueReq, RequestCues(r) \/ CancelCues(r) \/ CueProceeds(r),
                UNCHANGED cockpitVars
         PROVE  UNCHANGED openVars
    BY <2>15 DEF RequestCues, CancelCues, CueProceeds, CuesContinue, CuesReturned,
                 CuesFailed, Deadline, JobEnds, cockpitVars, openVars
  <2>16. CASE UNCHANGED vars
    BY <2>0, <2>16 DEF vars, cockpitVars, openVars
  <2> QED
    BY <2>0, <2>1, <2>2, <2>3, <2>4, <2>5, <2>6, <2>7, <2>8, <2>9, <2>10, <2>11,
       <2>12, <2>13, <2>14, <2>15, <2>16
       DEF Next, CockpitNext, TurnProceeds, CueNext, SendClarify, SendExecApproval
<1> QED
  BY <1>1, <1>2, TypedInvariant, PTL DEF Spec

\* While the phone is attached, a session that has not ended is that of the active
\* turn (`_start_turn`, `_finish_turn`, `discard_cockpit_turn`).
THEOREM OpenSessionsAreActive == Spec => []OpenIsActive
<1>1. Open => OpenIsActive
  BY DEF Open
<1> QED
  BY <1>1, OpenInvariant, PTL

-----------------------------------------------------------------------------
(* What the sessions wait for. *)

Paired == ItemsHaveBackends /\ StateIsPending

itemVars == <<attached, active, fin, taken, state, pending, backends>>

\* A projection keeps items and backends in step: the ask is new to every session
\* but that of a turn taken by the drop of the phone before.
LEMMA ProjectPairs ==
    ASSUME Typed, Open, Paired, NEW t \in Turn, NEW a \in Ask, Hears(t), Project(t, a),
           UNCHANGED <<connVars, turnVars>>
    PROVE  Paired'
<1> DEFINE item == [ask |-> a, nonce |-> made + 1, late |-> FALSE]
<1>1. /\ pending \in [Turn -> SUBSET Items] /\ backends \in [Turn -> SUBSET Ask]
      /\ state \in [Turn -> {"none"} \cup States \cup Terminal]
  BY DEF Typed, TypeOK, CockpitTypeOK
<1>2. /\ pending' = [pending EXCEPT ![t] = @ \cup {item}]
      /\ backends' = [backends EXCEPT ![t] = @ \cup {a}]
      /\ state' = [state EXCEPT ![t] = "waiting_human"]
      /\ a \notin backends[t] /\ taken' = taken /\ item.ask = a
  BY DEF Project, turnVars
<1>3. \A u \in Turn : u # t /\ taken # u => pending[u] = {}
  <2> SUFFICES ASSUME NEW u \in Turn, u # t, taken # u PROVE pending[u] = {}
    OBVIOUS
  <2>1. attached /\ active = t
    BY DEF Hears, Speaking
  <2>2. state[u] \notin States
    BY <2>1 DEF Open, OpenIsActive, Sessions, States
  <2> QED BY <1>1, <2>2 DEF Paired, StateIsPending
<1> HIDE DEF item
<1>4. \A u \in Turn : backends'[u] = {i.ask : i \in pending'[u]}
  BY <1>1, <1>2 DEF Paired, ItemsHaveBackends
<1>5. \A i \in pending[t] : i.ask # a
  BY <1>2 DEF Paired, ItemsHaveBackends
<1>6. ItemsHaveBackends'
  <2> SUFFICES ASSUME NEW u \in Turn, NEW v \in Turn,
                      NEW i \in pending'[u], NEW k \in pending'[v], i.ask = k.ask
               PROVE  (u = v /\ i = k) \/ (u # v /\ taken \in {u, v})
    BY <1>2, <1>4 DEF ItemsHaveBackends
  <2>1. CASE i \in pending[u] /\ k \in pending[v]
    BY <2>1 DEF Paired, ItemsHaveBackends
  <2>2. CASE u = t /\ i = item
    BY <1>1, <1>2, <1>3, <1>5, <2>2
  <2>3. CASE v = t /\ k = item
    BY <1>1, <1>2, <1>3, <1>5, <2>3
  <2> QED BY <1>1, <1>2, <2>1, <2>2, <2>3
<1>7. StateIsPending'
  BY <1>1, <1>2 DEF Paired, StateIsPending, Terminal
<1> QED
  BY <1>6, <1>7 DEF Paired

\* What has to be shown of items and backends behind a step.
LEMMA Pairs ==
    ASSUME taken' = taken,
           \A t \in Turn : backends'[t] = {i.ask : i \in pending'[t]},
           \A t, u \in Turn : \A i \in pending'[t], k \in pending'[u] :
             i.ask = k.ask => (t = u /\ i = k) \/ (t # u /\ taken \in {t, u})
    PROVE  ItemsHaveBackends'
BY DEF ItemsHaveBackends

\* Sessions whose items go, altogether or in part with their backends, stay in step.
LEMMA ShrinkPairs ==
    ASSUME Typed, Paired, taken' = taken,
           \A t \in Turn : /\ pending'[t] \subseteq pending[t]
                          /\ backends'[t] = {i.ask : i \in pending'[t]}
    PROVE  ItemsHaveBackends'
BY DEF Paired, ItemsHaveBackends

\* Paired holds in every state.
THEOREM PairedInvariant == Spec => []Paired
<1>1. Init => Paired
  BY DEF Init, CockpitInit, Paired, ItemsHaveBackends, StateIsPending, Terminal
<1>2. Typed /\ Open /\ Paired /\ [Next]_vars => Paired'
  <2> SUFFICES ASSUME Typed, Open, Paired, [Next]_vars
               PROVE  Paired'
    OBVIOUS
  <2> USE NoneAssumption, BoundsAssumption
      DEF connVars, turnVars, sessionVars
  <2>t. /\ last \in 0 .. MaxTurn /\ active \in Turn \cup {None}
        /\ taken \in Turn \cup {None}
        /\ state \in [Turn -> {"none"} \cup States \cup Terminal]
        /\ pending \in [Turn -> SUBSET Items]
        /\ backends \in [Turn -> SUBSET Ask]
    BY DEF Typed, TypeOK, CockpitTypeOK
  <2>p. /\ \A t \in Turn : backends[t] = {i.ask : i \in pending[t]}
        /\ \A t \in Turn : /\ state[t] = "waiting_human" => pending[t] # {}
                           /\ state[t] \in {"none", "running"} \cup Terminal
                                => pending[t] = {}
    BY DEF Paired, ItemsHaveBackends, StateIsPending
  <2>0. CASE UNCHANGED <<taken, state, pending, backends>>
    BY <2>0 DEF Paired, ItemsHaveBackends, StateIsPending
  <2>1. CASE Dropped \/ Closed
    BY <2>0, <2>1 DEF Dropped, Closed, CockpitCleared, cockpitVars, Paired,
                      ItemsHaveBackends, StateIsPending, Terminal
  <2>2. CASE StartTurn
    <3>1. UNCHANGED <<taken, pending, backends>>
      BY <2>2 DEF StartTurn
    <3>2. ASSUME NEW t \in Turn
          PROVE  \/ state'[t] = state[t] \/ state'[t] = "none"
                 \/ t = last + 1 /\ state'[t] = "running"
      <4> DEFINE stay == Sessions \ Evicted
                 room == Cardinality(stay) < MaxSessions
      <4>1. state' = [u \in Turn |-> IF u = last + 1 /\ room THEN "running"
                                    ELSE IF u \in stay THEN state[u] ELSE "none"]
        BY <2>2 DEF StartTurn
      <4> HIDE DEF stay, room
      <4> QED BY <4>1
    <3>3. \A t \in Turn : state[t] \in Terminal \/ t > last => pending[t] = {}
      BY <2>p, <2>t DEF Open, Begun, Turn
    <3>4. \A t \in Turn : state'[t] = "none" => pending[t] = {}
      BY <2>2, <2>p, <3>3 DEF StartTurn, Evicted, Sessions, Turn
    <3>5. StateIsPending'
      BY <2>p, <2>t, <3>1, <3>2, <3>3, <3>4 DEF StateIsPending, Terminal, Turn
    <3> QED BY <3>1, <3>5 DEF Paired, ItemsHaveBackends
  <2>3. CASE PredecessorDropped
    <3>1. UNCHANGED <<state, pending, backends>>
      BY <2>3 DEF PredecessorDropped
    <3>2. taken = None \/ taken' = taken
      BY <2>3 DEF PredecessorDropped, Open, Begun
    <3> QED BY <3>1, <3>2 DEF Paired, ItemsHaveBackends, StateIsPending
  <2>4. CASE ReadSnapshot
    <3>1. /\ pending' = [t \in Turn |-> {i \in pending[t] : ~i.late}]
          /\ backends' = [t \in Turn |-> backends[t] \cap {i.ask : i \in pending'[t]}]
          /\ taken' = taken
      BY <2>4 DEF ReadSnapshot, Retained
    <3>2. \A t \in Turn : /\ pending'[t] \subseteq pending[t]
                         /\ backends'[t] = {i.ask : i \in pending'[t]}
      BY <2>p, <3>1
    <3>3. StateIsPending'
      BY <2>4, <2>p, <2>t, <3>1 DEF ReadSnapshot, StateIsPending, States, Terminal
    <3> QED BY <3>1, <3>2, <3>3, ShrinkPairs DEF Paired
  <2>5. ASSUME NEW t \in Turn,
               \/ Opened(t) \/ Dispatched(t) \/ Discarded(t)
               \/ Complete(t) \/ Completed(t)
        PROVE  UNCHANGED <<taken, state, pending, backends>>
    BY <2>5 DEF Opened, Dispatched, Discarded, Complete, Completed
  <2>6. ASSUME NEW t \in Turn, taken' = taken, NEW s \in {"none"} \cup Terminal,
               state' = [state EXCEPT ![t] = s],
               pending' = [pending EXCEPT ![t] = {}],
               backends' = [backends EXCEPT ![t] = {}]
        PROVE  Paired'
    <3>1. \A u \in Turn : /\ pending'[u] \subseteq pending[u]
                         /\ backends'[u] = {i.ask : i \in pending'[u]}
      BY <2>6, <2>p, <2>t
    <3>2. StateIsPending'
      BY <2>6, <2>p, <2>t DEF StateIsPending, Terminal
    <3> QED BY <2>6, <3>1, <3>2, ShrinkPairs DEF Paired
  <2>7. ASSUME NEW t \in Turn, StartCancelled(t)
        PROVE  Paired'
    BY <2>0, <2>6, <2>7 DEF StartCancelled, Discard
  <2>8. ASSUME NEW t \in Turn, NEW how \in Ends, Finish(t, how)
        PROVE  Paired'
    <3>1. how \in Terminal
      BY DEF Terminal
    <3> QED BY <2>0, <2>6, <2>8, <3>1 DEF Finish, ShowEnd
  <2>9. ASSUME NEW t \in Turn, Expire(t)
        PROVE  Paired'
    <3> DEFINE Late(i) == [ask |-> i.ask, nonce |-> i.nonce, late |-> TRUE]
    <3>1. PICK i \in pending[t] : /\ pending' = [pending EXCEPT ![t] = (@ \ {i}) \cup {Late(i)}]
                                 /\ UNCHANGED <<taken, state, backends>>
      BY <2>9 DEF Expire
    <3>2. Late(i).ask = i.ask
      OBVIOUS
    <3> HIDE DEF Late
    <3>3. \A u \in Turn : pending'[u] = {} <=> pending[u] = {}
      BY <2>t, <3>1
    <3>4. \A u \in Turn : backends'[u] = {k.ask : k \in pending'[u]}
      BY <2>p, <2>t, <3>1, <3>2
    <3>5. ASSUME NEW u \in Turn, NEW v \in Turn,
                 NEW j \in pending'[u], NEW k \in pending'[v], j.ask = k.ask
          PROVE  (u = v /\ j = k) \/ (u # v /\ taken \in {u, v})
      <4>1. /\ (j \in pending[u] /\ (u = t => j # i)) \/ (u = t /\ j = Late(i))
            /\ (k \in pending[v] /\ (v = t => k # i)) \/ (v = t /\ k = Late(i))
        BY <2>t, <3>1
      <4> QED BY <3>2, <3>5, <4>1 DEF Paired, ItemsHaveBackends
    <3>6. ItemsHaveBackends'
      <4>1. \A u, v \in Turn : \A j \in pending'[u], k \in pending'[v] :
              j.ask = k.ask => (u = v /\ j = k) \/ (u # v /\ taken \in {u, v})
        BY <3>5
      <4> QED BY <3>1, <3>4, <4>1, Pairs
    <3>7. StateIsPending'
      BY <2>p, <3>1, <3>3 DEF StateIsPending
    <3> QED BY <3>6, <3>7 DEF Paired
  <2>10. ASSUME NEW t \in Turn, NEW a \in Ask, Hears(t), Project(t, a),
                UNCHANGED <<connVars, turnVars>>
         PROVE  Paired'
    BY <2>10, ProjectPairs
  <2>11. ASSUME NEW c \in Cmd, NEW m \in Commands, Accepted(c, m)
         PROVE  Paired'
    <3>1. m.turn \in Turn /\ taken' = taken
      BY <2>11, CommandTyped DEF Typed, Accepted
    <3>2. CASE m.item = None
      <4>1. UNCHANGED <<pending, backends>>
        BY <2>11, <3>2 DEF Accepted
      <4>2. state' = [state EXCEPT ![m.turn] =
                        IF m.type = "interrupt" THEN "interrupting" ELSE @]
        BY <2>11, <3>2 DEF Accepted
      <4> QED BY <2>t, <2>p, <3>1, <4>1, <4>2
              DEF Paired, ItemsHaveBackends, StateIsPending, Terminal
    <3>3. CASE m.item # None
      <4>1. /\ pending' = [pending EXCEPT ![m.turn] = {i \in @ : i.ask # m.item.ask}]
            /\ backends' = [backends EXCEPT ![m.turn] = @ \ {m.item.ask}]
            /\ state' = [state EXCEPT ![m.turn] =
                           IF pending'[m.turn] = {} THEN "running" ELSE "waiting_human"]
        BY <2>11, <3>3 DEF Accepted, AfterAnswer
      <4>2. \A u \in Turn : /\ pending'[u] \subseteq pending[u]
                           /\ backends'[u] = {i.ask : i \in pending'[u]}
        BY <2>t, <2>p, <3>1, <4>1
      <4>3. StateIsPending'
        BY <2>t, <2>p, <3>1, <4>1 DEF StateIsPending, Terminal
      <4> QED BY <3>1, <4>2, <4>3, ShrinkPairs DEF Paired
    <3> QED BY <3>2, <3>3
  <2>12. ASSUME NEW a \in Ask, Raise(a) \/ Withdraw(a)
         PROVE  UNCHANGED <<taken, state, pending, backends>>
    BY <2>12 DEF Raise, Withdraw
  <2>13. ASSUME NEW c \in Cmd, NEW m \in Commands, Rejected(c, m) \/ Raised(c, m)
         PROVE  UNCHANGED <<taken, state, pending, backends>>
    BY <2>13 DEF Rejected, Raised
  <2>14. CASE CancelFails
    BY <2>0, <2>14 DEF CancelFails
  <2>15. CASE UNCHANGED cockpitVars \/ UNCHANGED vars
    BY <2>0, <2>15 DEF vars, cockpitVars
  <2> QED
    BY <2>0, <2>1, <2>2, <2>3, <2>4, <2>5, <2>7, <2>8, <2>9, <2>10, <2>11,
       <2>12, <2>13, <2>14, <2>15
       DEF Next, CockpitNext, TurnProceeds, CueNext, SendClarify, SendExecApproval
<1> QED
  BY <1>1, <1>2, TypedInvariant, OpenInvariant, PTL DEF Spec

\* What a session shows, what it waits for and what an answer would be given to
\* agree, in every state (`_validate_cockpit_authority`, `_expire_cockpit_pending`,
\* `finish_cockpit_turn`).
THEOREM SessionsAreConsistent == Spec => []Consistent
<1>1. Typed /\ Paired => Consistent
  BY DEF Typed, Paired, Consistent
<1> QED
  BY <1>1, TypedInvariant, PairedInvariant, PTL

-----------------------------------------------------------------------------
(* Commands and their effects. *)

\* In an open session a command id that is not used up has had no receipt and no
\* effect, and an ask with an answer has been answered in the gateway.
Truth ==
    /\ ReceiptIsTrue
    /\ ~closed => \A c \in Cmd \ commands : receipt[c] = "none" /\ effects[c] = 0
    /\ \A a \in Ask : answer[a] # None => gateway[a] = "answered"

truthVars == <<closed, askVars, commandVars>>

\* Truth holds in every state.
THEOREM TruthInvariant == Spec => []Truth
<1> USE DEF Truth, ReceiptIsTrue, askVars, commandVars
<1>1. Init => Truth
  BY DEF Init, ConnectionInit, CockpitInit
<1>2. Typed /\ Truth /\ [Next]_vars => Truth'
  <2> SUFFICES ASSUME Typed, Truth, [Next]_vars
               PROVE  Truth'
    OBVIOUS
  <2> USE DEF connVars
  <2>t. /\ gateway \in [Ask -> {"none", "waiting", "gone", "answered"}]
        /\ answer \in [Ask -> {None} \cup
                         [turn : Turn, nonce : Nonce, choice : Decisions]]
        /\ receipt \in [Cmd -> {"none", "accepted", "rejected", "outcome_unknown"}]
        /\ effects \in [Cmd -> Nat]
    BY DEF Typed, TypeOK, CockpitTypeOK
  <2>0. CASE UNCHANGED truthVars
    BY <2>0 DEF truthVars
  <2>1. CASE Dropped
    BY <2>0, <2>1 DEF Dropped, Drop, cockpitVars, truthVars
  <2>2. CASE Closed
    BY <2>2 DEF Closed, Close, CockpitCleared
  <2>3. ASSUME NEW c \in Cmd, NEW m \in Commands,
               Accepted(c, m) \/ Rejected(c, m) \/ Raised(c, m)
        PROVE  Truth'
    <3>1. /\ ~closed /\ UNCHANGED closed /\ c \notin commands
          /\ commands' = commands \cup {c}
      BY <2>3 DEF Accepted, Rejected, Raised, Fresh, Listening, Remember
    <3>2. /\ receipt[c] = "none" /\ effects[c] = 0
      BY <3>1
    <3>3. PICK outcome \in {"accepted", "rejected", "outcome_unknown"} :
            /\ receipt' = [receipt EXCEPT ![c] = outcome]
            /\ outcome = "accepted" => effects' = [effects EXCEPT ![c] = @ + 1]
            /\ outcome = "rejected" => effects' = effects
            /\ effects' = effects \/ effects' = [effects EXCEPT ![c] = @ + 1]
      BY <2>3, <2>t, <3>2 DEF Accepted, Rejected, Raised, Remember, Takes
    <3>4. \A a \in Ask : answer'[a] # None => gateway'[a] = "answered"
      <4>1. CASE Takes(c, m)
        BY <4>1, <2>t DEF Takes
      <4>2. CASE UNCHANGED askVars
        BY <4>2
      <4> QED BY <2>3, <4>1, <4>2 DEF Accepted, Rejected, Raised
    <3>5. ReceiptIsTrue'
      BY <2>t, <3>2, <3>3
    <3>6. \A d \in Cmd \ commands' : receipt'[d] = "none" /\ effects'[d] = 0
      BY <2>t, <3>1, <3>3
    <3> QED BY <3>1, <3>4, <3>5, <3>6
  <2>4. ASSUME NEW a \in Ask, Raise(a) \/ Withdraw(a)
        PROVE  Truth'
    BY <2>4, <2>t DEF Raise, Withdraw
  <2>5. CASE StartTurn \/ CancelFails \/ PredecessorDropped \/ ReadSnapshot
    BY <2>0, <2>5 DEF StartTurn, CancelFails, PredecessorDropped, ReadSnapshot, truthVars
  <2>6. ASSUME NEW t \in Turn,
               \/ TurnProceeds(t) \/ Expire(t)
               \/ \E a \in Ask : SendClarify(t, a)
               \/ \E a, b \in Ask : SendExecApproval(t, a, b)
        PROVE  UNCHANGED truthVars
    <3>1. CASE \/ Opened(t) \/ Dispatched(t) \/ StartCancelled(t) \/ Discarded(t)
               \/ Complete(t) \/ Completed(t) \/ \E how \in Ends : Finish(t, how)
      BY <3>1 DEF Opened, Dispatched, StartCancelled, Discarded, StartFails, StartEnds,
                  Complete, Completed, Finish, truthVars
    <3>2. CASE \/ Expire(t) \/ \E a \in Ask : SendClarify(t, a)
               \/ \E a, b \in Ask : SendExecApproval(t, a, b)
      BY <3>2 DEF Expire, SendClarify, SendExecApproval, truthVars
    <3> QED BY <2>6, <3>1, <3>2 DEF TurnProceeds
  <2>7. ASSUME NEW r \in CueReq, RequestCues(r) \/ CancelCues(r) \/ CueProceeds(r),
               UNCHANGED cockpitVars
        PROVE  UNCHANGED truthVars
    BY <2>7 DEF RequestCues, CancelCues, CueProceeds, CuesContinue, CuesReturned,
                CuesFailed, Deadline, JobEnds, cockpitVars, truthVars
  <2>8. CASE UNCHANGED vars
    BY <2>0, <2>8 DEF vars, cockpitVars, truthVars
  <2> QED
    BY <2>0, <2>1, <2>2, <2>3, <2>4, <2>5, <2>6, <2>7, <2>8
       DEF Next, CockpitNext, CueNext
<1> QED
  BY <1>1, <1>2, TypedInvariant, PTL DEF Spec

\* A receipt says what its command did, and no command id takes effect twice
\* (`_handle_cockpit_command`, `_dispatch_cockpit_command`).
THEOREM ReceiptsAreTrue == Spec => []ReceiptIsTrue
<1>1. Truth => ReceiptIsTrue
  BY DEF Truth
<1> QED
  BY <1>1, TruthInvariant, PTL

\* An ask is answered only once, only through the item that shows it now and only
\* as that item allows (`_validate_cockpit_authority`, `_cockpit_answer`).
THEOREM AnswersFitItems == Spec => AnswersFit
<1> DEFINE Fit == \A a \in Ask : answer'[a] # answer[a] =>
                    /\ answer[a] = None /\ active = answer'[a].turn
                    /\ [ask |-> a, nonce |-> answer'[a].nonce, late |-> FALSE]
                         \in pending[active]
                    /\ answer'[a].choice = "allow_once"
                         => a \in Displayable \ SmartDenied
<1>1. Typed /\ Truth /\ [Next]_vars => [Fit]_cockpitVars
  <2> SUFFICES ASSUME Typed, Truth, Next
               PROVE  answer' = answer \/ Fit
    BY DEF vars, cockpitVars, askVars
  <2>1. ASSUME NEW c \in Cmd, NEW m \in Commands, Takes(c, m), Dispatchable(m)
        PROVE  answer' = answer \/ Fit
    <3>1. CASE m.item = None
      BY <2>1, <3>1 DEF Takes, askVars
    <3>2. CASE m.item # None
      <4>1. /\ m.turn \in Turn /\ m.item.ask \in Ask
            /\ m.item.nonce \in Nonce /\ m.choice \in Decisions
        BY <3>2, CommandTyped DEF Typed, Shown
      <4> DEFINE given == [turn |-> m.turn, nonce |-> m.item.nonce, choice |-> m.choice]
      <4>2. /\ given.turn = m.turn /\ given.nonce = m.item.nonce
            /\ given.choice = m.choice
        OBVIOUS
      <4>3. gateway[m.item.ask] = "waiting" /\ answer' = [answer EXCEPT ![m.item.ask] = given]
        BY <2>1, <3>2 DEF Takes
      <4> HIDE DEF given
      <4>4. answer[m.item.ask] = None
        BY <4>1, <4>3 DEF Truth
      <4>5. active = m.turn
        BY <2>1 DEF Dispatchable, Speaking
      <4>6. [ask |-> m.item.ask, nonce |-> m.item.nonce, late |-> FALSE] \in pending[m.turn]
        <5>1. PICK i \in pending[m.turn] :
                i.ask = m.item.ask /\ i.nonce = m.item.nonce /\ ~i.late
          BY <2>1, <3>2 DEF Dispatchable, Authorized, Current
        <5>2. i \in Items
          BY <4>1 DEF Typed, TypeOK, CockpitTypeOK
        <5>3. i = [ask |-> m.item.ask, nonce |-> m.item.nonce, late |-> FALSE]
          BY <5>1, <5>2 DEF Items
        <5> QED BY <5>3
      <4>7. m.choice = "allow_once" => m.item.ask \in Displayable \ SmartDenied
        BY <2>1, <3>2 DEF Dispatchable, Authorized, Offered
      <4>8. answer \in [Ask -> {None} \cup
                           [turn : Turn, nonce : Nonce, choice : Decisions]]
        BY DEF Typed, TypeOK, CockpitTypeOK
      <4>9. \A a \in Ask : answer'[a] # answer[a] => a = m.item.ask /\ answer'[a] = given
        BY <4>1, <4>3, <4>8
      <4> QED BY <4>2, <4>4, <4>5, <4>6, <4>7, <4>9
    <3> QED BY <3>1, <3>2
  <2>2. ASSUME NEW c \in Cmd, NEW m \in Commands,
               Accepted(c, m) \/ Rejected(c, m) \/ Raised(c, m)
        PROVE  answer' = answer \/ Fit
    BY <2>1, <2>2 DEF Accepted, Rejected, Raised, askVars
  <2>3. CASE Dropped \/ Closed
    BY <2>3 DEF Dropped, Closed, CockpitCleared, cockpitVars, askVars
  <2>4. CASE StartTurn \/ CancelFails \/ PredecessorDropped \/ ReadSnapshot
    BY <2>4 DEF StartTurn, CancelFails, PredecessorDropped, ReadSnapshot, askVars
  <2>5. ASSUME NEW t \in Turn,
               \/ TurnProceeds(t) \/ Expire(t)
               \/ \E a \in Ask : SendClarify(t, a)
               \/ \E a, b \in Ask : SendExecApproval(t, a, b)
        PROVE  answer' = answer
    <3>1. CASE TurnProceeds(t)
      BY <3>1 DEF TurnProceeds, Opened, Dispatched, StartCancelled, Discarded,
                  StartFails, StartEnds, Complete, Completed, Finish, askVars
    <3>2. CASE \/ Expire(t) \/ \E a \in Ask : SendClarify(t, a)
               \/ \E a, b \in Ask : SendExecApproval(t, a, b)
      BY <3>2 DEF Expire, SendClarify, SendExecApproval, askVars
    <3> QED BY <2>5, <3>1, <3>2
  <2>6. ASSUME NEW a \in Ask, Raise(a) \/ Withdraw(a)
        PROVE  answer' = answer
    BY <2>6 DEF Raise, Withdraw
  <2>7. CASE CueNext /\ UNCHANGED cockpitVars
    BY <2>7 DEF cockpitVars, askVars
  <2> QED
    BY <2>2, <2>3, <2>4, <2>5, <2>6, <2>7 DEF Next, CockpitNext
<1> QED
  BY <1>1, TypedInvariant, TruthInvariant, PTL DEF Spec, AnswersFit

-----------------------------------------------------------------------------
(* What the phone has seen. *)

\* The items of session t that are shown before one with nonce n.
Earlier(t, n) == {k \in pending[t] : ~k.late /\ k.nonce < n}

\* A nonce stands for one ask in one session, and whatever waits and has been seen
\* still has a place in the snapshot: items are added only behind it.
Known ==
    /\ \A t \in Turn :
         /\ IsFiniteSet(pending[t])
         /\ \A i \in pending[t] : i.nonce <= made
         /\ \A i, k \in pending[t] : i.nonce = k.nonce => i = k
    /\ \A x \in seen :
         /\ x.nonce <= made
         /\ \A i \in pending[x.turn] : i.nonce = x.nonce =>
              /\ i.ask = x.ask
              /\ ~i.late => Cardinality(Earlier(x.turn, x.nonce)) < MaxShown

knownVars == <<pending, made, seen>>

\* A larger set of items leaves no more room than a smaller one.
LEMMA FewerFit ==
    ASSUME NEW S, NEW T, IsFiniteSet(T), S \subseteq T, Cardinality(T) < MaxShown
    PROVE  Cardinality(S) < MaxShown
<1>1. /\ IsFiniteSet(S) /\ Cardinality(S) <= Cardinality(T)
  BY FS_Subset
<1>2. Cardinality(S) \in Nat /\ Cardinality(T) \in Nat
  BY <1>1, FS_CardinalityType
<1> QED
  BY <1>1, <1>2, BoundsAssumption

\* Items that go or expire make room.
LEMMA FewerKnown ==
    ASSUME Typed, Known, made' = made, seen' \subseteq seen,
           \A t \in Turn :
             /\ IsFiniteSet(pending'[t])
             /\ \A i, k \in pending'[t] : i.nonce = k.nonce => i = k
             /\ \A i \in pending'[t] :
                  /\ \E k \in pending[t] : k.ask = i.ask /\ k.nonce = i.nonce
                  /\ ~i.late => i \in pending[t]
    PROVE  Known'
<1>1. \A t \in Turn : \A i \in pending'[t] : i.nonce <= made'
  BY DEF Known
<1>2. ASSUME NEW x \in seen', NEW i \in pending'[x.turn], i.nonce = x.nonce
      PROVE  /\ i.ask = x.ask
             /\ ~i.late => Cardinality(Earlier(x.turn, x.nonce)') < MaxShown
  <2>1. x \in seen /\ x.turn \in Turn
    BY DEF Typed, TypeOK, CockpitTypeOK, Shown
  <2>2. i.ask = x.ask
    BY <1>2, <2>1 DEF Known
  <2>3. ASSUME ~i.late PROVE Cardinality(Earlier(x.turn, x.nonce)') < MaxShown
    <3>1. Cardinality(Earlier(x.turn, x.nonce)) < MaxShown
      BY <1>2, <2>1, <2>3 DEF Known
    <3>2. Earlier(x.turn, x.nonce)' \subseteq Earlier(x.turn, x.nonce)
      BY <2>1 DEF Earlier
    <3>3. IsFiniteSet(Earlier(x.turn, x.nonce))
      BY <2>1, FS_Subset DEF Known, Earlier
    <3> QED BY <3>1, <3>2, <3>3, FewerFit
  <2> QED BY <2>2, <2>3
<1>3. \A x \in seen' : x.nonce <= made'
  BY DEF Known
<1> QED
  BY <1>1, <1>2, <1>3 DEF Known

\* ... in particular when no item is changed.
LEMMA SubsetKnown ==
    ASSUME Typed, Known, made' = made, seen' \subseteq seen,
           \A t \in Turn : pending'[t] \subseteq pending[t]
    PROVE  Known'
<1>1. \A t \in Turn : IsFiniteSet(pending'[t])
  BY FS_Subset DEF Known
<1>2. \A t \in Turn : \A i, k \in pending'[t] : i.nonce = k.nonce => i = k
  BY DEF Known
<1> QED
  BY <1>1, <1>2, FewerKnown

\* The newest item comes last.
LEMMA ProjectKnown ==
    ASSUME Typed, Known, NEW t \in Turn, NEW a \in Ask, Project(t, a), seen' = seen
    PROVE  Known'
<1> DEFINE item == [ask |-> a, nonce |-> made + 1, late |-> FALSE]
<1>1. /\ pending' = [pending EXCEPT ![t] = @ \cup {item}]
      /\ made' = made + 1 /\ item.nonce = made + 1
  BY DEF Project
<1> HIDE DEF item
<1>2. /\ pending \in [Turn -> SUBSET Items] /\ made \in Nat /\ seen \subseteq Shown
      /\ \A x \in seen : x.turn \in Turn /\ x.nonce \in Nat
      /\ \A u \in Turn : \A i \in pending[u] : i.nonce \in Nat
  <2>1. pending \in [Turn -> SUBSET Items] /\ made \in 0 .. MaxNonce /\ seen \subseteq Shown
    BY DEF Typed, TypeOK, CockpitTypeOK
  <2> QED BY <2>1, BoundsAssumption DEF Items, Shown, Nonce
<1>3. \A u \in Turn : \A i \in pending'[u] : i \in pending[u] \/ (u = t /\ i = item)
  BY <1>1, <1>2
<1>4. \A u \in Turn : IsFiniteSet(pending'[u])
  <2>1. IsFiniteSet(pending[t] \cup {item})
    BY FS_AddElement DEF Known
  <2> QED BY <1>1, <1>2, <2>1 DEF Known
<1>5. \A u \in Turn : \A i \in pending'[u] : i.nonce <= made'
  BY <1>1, <1>2, <1>3 DEF Known
<1>6. \A u \in Turn : \A i, k \in pending'[u] : i.nonce = k.nonce => i = k
  BY <1>1, <1>2, <1>3 DEF Known
<1>7. ASSUME NEW x \in seen', NEW i \in pending'[x.turn], i.nonce = x.nonce
      PROVE  /\ i.ask = x.ask
             /\ ~i.late => Cardinality(Earlier(x.turn, x.nonce)') < MaxShown
  <2>1. x \in seen /\ x.turn \in Turn /\ x.nonce <= made
    BY <1>2 DEF Known
  <2>2. i \in pending[x.turn]
    BY <1>1, <1>2, <1>3, <1>7, <2>1
  <2>3. Earlier(x.turn, x.nonce)' = Earlier(x.turn, x.nonce)
    <3>1. Earlier(x.turn, x.nonce)' \subseteq Earlier(x.turn, x.nonce)
      BY <1>1, <1>2, <1>3, <2>1 DEF Earlier
    <3>2. pending[x.turn] \subseteq pending'[x.turn]
      BY <1>1, <1>2, <2>1
    <3> QED BY <3>1, <3>2 DEF Earlier
  <2> QED BY <1>7, <2>1, <2>2, <2>3 DEF Known
<1>8. \A x \in seen' : x.nonce <= made'
  BY <1>1, <1>2 DEF Known
<1> QED
  BY <1>4, <1>5, <1>6, <1>7, <1>8 DEF Known

\* A snapshot adds to what is seen only what it has room for.
LEMMA SnapshotKnown ==
    ASSUME Typed, Known, ReadSnapshot
    PROVE  Known'
<1>1. /\ pending' = [t \in Turn |-> {i \in pending[t] : ~i.late}]
      /\ seen' = seen \cup UNION {Visible(t) : t \in Turn}
      /\ made' = made
  BY DEF ReadSnapshot
<1>2. /\ pending \in [Turn -> SUBSET Items] /\ seen \subseteq Shown
  BY DEF Typed, TypeOK, CockpitTypeOK
<1>3. \A t \in Turn : /\ IsFiniteSet(pending'[t])
                     /\ pending'[t] \subseteq pending[t]
  BY <1>1, FS_Subset DEF Known
<1>4. ASSUME NEW x \in seen'
      PROVE  /\ x.turn \in Turn /\ x.nonce <= made
             /\ \A i \in pending[x.turn] : i.nonce = x.nonce =>
                  /\ i.ask = x.ask
                  /\ ~i.late => Cardinality(Earlier(x.turn, x.nonce)) < MaxShown
  <2>1. CASE x \in seen
    BY <1>2, <2>1 DEF Known, Shown
  <2>2. ASSUME NEW t \in Turn, x \in Visible(t)
        PROVE  /\ x.turn \in Turn /\ x.nonce <= made
               /\ \A i \in pending[x.turn] : i.nonce = x.nonce =>
                    /\ i.ask = x.ask
                    /\ ~i.late => Cardinality(Earlier(x.turn, x.nonce)) < MaxShown
    <3> DEFINE now == {k \in pending[t] : ~k.late}
    <3>1. PICK i \in Fits(now) : x = [turn |-> t, ask |-> i.ask, nonce |-> i.nonce]
      BY <2>2 DEF Visible
    <3>2. i \in pending[t] /\ Cardinality({k \in now : k.nonce < i.nonce}) < MaxShown
      BY <3>1 DEF Fits
    <3>3. {k \in now : k.nonce < i.nonce} = Earlier(t, i.nonce)
      BY DEF Earlier
    <3>4. x.turn = t /\ x.ask = i.ask /\ x.nonce = i.nonce
      BY <3>1
    <3>5. \A k \in pending[t] : k.nonce = i.nonce => k = i
      BY <3>2 DEF Known
    <3>6. i.nonce <= made
      BY <3>2 DEF Known
    <3> QED BY <3>2, <3>3, <3>4, <3>5, <3>6
  <2> QED BY <1>1, <2>1, <2>2
<1>5. ASSUME NEW x \in seen', NEW i \in pending'[x.turn], i.nonce = x.nonce
      PROVE  /\ i.ask = x.ask
             /\ ~i.late => Cardinality(Earlier(x.turn, x.nonce)') < MaxShown
  <2>1. x.turn \in Turn /\ i \in pending[x.turn]
    BY <1>3, <1>4
  <2>2. Earlier(x.turn, x.nonce)' = Earlier(x.turn, x.nonce)
    BY <1>1, <2>1 DEF Earlier
  <2> QED BY <1>4, <1>5, <2>1, <2>2
<1> QED
  BY <1>1, <1>3, <1>4, <1>5 DEF Known

\* Known holds in every state.
THEOREM KnownInvariant == Spec => []Known
<1>1. Init => Known
  BY FS_EmptySet DEF Init, CockpitInit, Known
<1>2. Typed /\ Known /\ [Next]_vars => Known'
  <2> SUFFICES ASSUME Typed, Known, [Next]_vars
               PROVE  Known'
    OBVIOUS
  <2> USE DEF connVars, turnVars, sessionVars
  <2>t. pending \in [Turn -> SUBSET Items]
    BY DEF Typed, TypeOK, CockpitTypeOK
  <2>0. CASE UNCHANGED knownVars
    BY <2>0, SubsetKnown DEF knownVars
  <2>1. CASE Dropped
    BY <2>0, <2>1 DEF Dropped, cockpitVars, knownVars
  <2>2. CASE Closed
    BY <2>2, SubsetKnown DEF Closed, CockpitCleared
  <2>3. CASE ReadSnapshot
    BY <2>3, SnapshotKnown
  <2>4. CASE StartTurn \/ CancelFails \/ PredecessorDropped
    BY <2>0, <2>4 DEF StartTurn, CancelFails, PredecessorDropped, knownVars
  <2>5. ASSUME NEW t \in Turn, TurnProceeds(t)
        PROVE  Known'
    <3>1. made' = made /\ seen' = seen
      BY <2>5 DEF TurnProceeds, Opened, Dispatched, StartCancelled, Discarded,
                  Complete, Completed, Finish
    <3>2. pending' = pending \/ pending' = [pending EXCEPT ![t] = {}]
      BY <2>5 DEF TurnProceeds, Opened, Dispatched, StartCancelled, Discarded,
                  Discard, Complete, Completed, Finish, ShowEnd
    <3>3. \A u \in Turn : pending'[u] \subseteq pending[u]
      BY <2>t, <3>2
    <3> QED BY <3>1, <3>3, SubsetKnown
  <2>6. ASSUME NEW t \in Turn, Expire(t)
        PROVE  Known'
    <3> DEFINE Late(i) == [ask |-> i.ask, nonce |-> i.nonce, late |-> TRUE]
    <3>1. PICK i \in pending[t] :
            /\ pending' = [pending EXCEPT ![t] = (@ \ {i}) \cup {Late(i)}]
            /\ made' = made /\ seen' = seen
      BY <2>6 DEF Expire
    <3>2. Late(i).ask = i.ask /\ Late(i).nonce = i.nonce /\ Late(i).late
      OBVIOUS
    <3> HIDE DEF Late
    <3>3. IsFiniteSet((pending[t] \ {i}) \cup {Late(i)})
      BY FS_AddElement, FS_Subset DEF Known
    <3>4. \A u \in Turn : IsFiniteSet(pending'[u])
      BY <2>t, <3>1, <3>3 DEF Known
    <3>5. \A u \in Turn : \A j \in pending'[u] :
            (j \in pending[u] /\ (u = t => j # i)) \/ (u = t /\ j = Late(i))
      BY <2>t, <3>1
    <3>6. \A u \in Turn : \A j, k \in pending'[u] : j.nonce = k.nonce => j = k
      BY <3>2, <3>5 DEF Known
    <3>7. \A u \in Turn : \A j \in pending'[u] :
            /\ \E k \in pending[u] : k.ask = j.ask /\ k.nonce = j.nonce
            /\ ~j.late => j \in pending[u]
      BY <3>2, <3>5
    <3> QED BY <3>1, <3>4, <3>6, <3>7, FewerKnown
  <2>7. ASSUME NEW t \in Turn, NEW a \in Ask, Project(t, a), seen' = seen
        PROVE  Known'
    BY <2>7, ProjectKnown
  <2>8. ASSUME NEW c \in Cmd, NEW m \in Commands, Accepted(c, m)
        PROVE  Known'
    <3>1. made' = made /\ seen' = seen
      BY <2>8 DEF Accepted
    <3>2. \/ pending' = pending
          \/ pending' = [pending EXCEPT ![m.turn] = {i \in @ : i.ask # m.item.ask}]
      BY <2>8 DEF Accepted
    <3>3. \A u \in Turn : pending'[u] \subseteq pending[u]
      BY <2>t, <3>2
    <3> QED BY <3>1, <3>3, SubsetKnown
  <2>9. ASSUME NEW c \in Cmd, NEW m \in Commands, Rejected(c, m) \/ Raised(c, m)
        PROVE  UNCHANGED knownVars
    BY <2>9 DEF Rejected, Raised, knownVars
  <2>10. ASSUME NEW a \in Ask, Raise(a) \/ Withdraw(a)
         PROVE  UNCHANGED knownVars
    BY <2>10 DEF Raise, Withdraw, knownVars
  <2>11. CASE UNCHANGED cockpitVars \/ UNCHANGED vars
    BY <2>0, <2>11 DEF vars, cockpitVars, knownVars
  <2> QED
    BY <2>0, <2>1, <2>2, <2>3, <2>4, <2>5, <2>6, <2>7, <2>8, <2>9, <2>10, <2>11
       DEF Next, CockpitNext, CueNext, SendClarify, SendExecApproval
<1> QED
  BY <1>1, <1>2, TypedInvariant, PTL DEF Spec

\* An item the phone has seen is in every snapshot as long as it waits, however many
\* items there are (`_bound_cockpit_snapshot` keeps the oldest).
THEOREM KnownItemsStayVisible == Spec => []KnownIsVisible
<1>1. Typed /\ Known => KnownIsVisible
  <2> SUFFICES ASSUME Typed, Known, NEW x \in seen, NEW i \in pending[x.turn],
                      i.nonce = x.nonce, ~i.late
               PROVE  x \in Visible(x.turn)
    BY DEF KnownIsVisible
  <2> DEFINE now == {k \in pending[x.turn] : ~k.late}
  <2>1. x \in Shown
    BY DEF Typed, TypeOK, CockpitTypeOK
  <2>2. i.ask = x.ask /\ Cardinality(Earlier(x.turn, x.nonce)) < MaxShown
    BY DEF Known
  <2>3. {k \in now : k.nonce < i.nonce} = Earlier(x.turn, x.nonce)
    BY DEF Earlier
  <2>4. i \in Fits(now)
    BY <2>2, <2>3 DEF Fits
  <2>5. x = [turn |-> x.turn, ask |-> i.ask, nonce |-> i.nonce]
    BY <2>1, <2>2 DEF Shown
  <2> QED BY <2>4, <2>5 DEF Visible
<1> QED
  BY <1>1, TypedInvariant, KnownInvariant, PTL
=============================================================================

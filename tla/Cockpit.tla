-------------------------------- MODULE Cockpit --------------------------------
(***************************************************************************)
(* The Cockpit lane of a host session: the sessions host_mcp.py shows to   *)
(* the phone, the items in them that wait for the wearer, the commands of  *)
(* the phone, and their dispatch to the gateway and the agent by           *)
(* adapter.py.                                                             *)
(*                                                                         *)
(* A turn is named by its generation, which also names its session.  An    *)
(* ask is a question (`clarify_id`) or a command approval (`request_id`)   *)
(* of the gateway; a projection of it is an item with a nonce of its own.  *)
(* The wearer answers what some snapshot showed, perhaps an old one.  A    *)
(* command is handled without an await up to its receipt, so that its      *)
(* validation, dispatch and bookkeeping are one action; the start and the  *)
(* end of a turn are suspended at every await.                             *)
(***************************************************************************)
EXTENDS HostConnection

CONSTANTS
    MaxTurn,       \* bound on _next_turn_generation
    Ask,           \* questions and approvals of the gateway
    Kind,          \* the kind of each ask
    Like,          \* approvals with the same command, description and scope
    Displayable,   \* asks whose text passes _cockpit_review_text
    SmartDenied,   \* approvals that may only be denied
    FreeText,      \* _cockpit_free_text_enabled
    Cmd,           \* command ids
    MaxSessions,   \* _MAX_COCKPIT_SESSIONS
    MaxPending,    \* _MAX_COCKPIT_PENDING
    MaxCommands,   \* _MAX_REQUESTS_PER_SESSION
    MaxShown,      \* pending items that fit _MAX_COCKPIT_SNAPSHOT_BYTES
    MaxNonce,      \* bound on the nonces made
    Ends           \* how turns end

Turn == 1 .. MaxTurn
Nonce == 1 .. MaxNonce
Kinds == {"question", "text_question", "permission"}
Questions == {a \in Ask : Kind[a] # "permission"}

ASSUME NoneAssumption == None \notin Ask \cup Cmd \cup Turn
ASSUME AskAssumption ==
    /\ Kind \in [Ask -> Kinds] /\ Like \in [Ask -> SUBSET Ask]
    /\ Displayable \subseteq Ask /\ SmartDenied \subseteq Ask
    /\ FreeText \in BOOLEAN
    /\ \A a \in Ask : \A b \in Like[a] :
         /\ Kind[b] = "permission"
         /\ a \in Displayable <=> b \in Displayable
         /\ a \in SmartDenied <=> b \in SmartDenied
ASSUME BoundsAssumption ==
    /\ MaxTurn \in Nat /\ MaxNonce \in Nat /\ MaxCommands \in Nat
    /\ Ends \subseteq {"completed", "failed", "interrupted"}
    /\ MaxSessions \in Nat \ {0} /\ MaxPending \in Nat /\ MaxShown \in Nat

VARIABLES
    calling,    \* _pending: the turn whose voice call waits for its answer
    active,     \* _active_turn_id
    last,       \* the generation of the last turn
    start,      \* how far the start of each turn is
    fin,        \* how far _finish_turn is; "over": the turn is forgotten
    before,     \* the drop of the phone before this one is still in progress
    taken,      \* history: the turn that drop took
    state,      \* the state of each turn's session; "none": no session
    pending,    \* the items of each session that wait for the wearer
    backends,   \* the asks behind them: record.backends
    made,       \* nonces made so far
    seen,       \* the items the phone has seen in some snapshot
    gateway,    \* where each ask is in the gateway
    answer,     \* how the phone answered an ask
    commands,   \* _cockpit_commands
    receipt,    \* history: the first receipt of each command
    effects     \* history: how often a command did something

turnVars == <<calling, active, last, start, fin, before, taken>>
sessionVars == <<state, pending, backends, made>>
askVars == <<gateway, answer>>
commandVars == <<commands, receipt, effects>>
cockpitVars == <<turnVars, sessionVars, seen, askVars, commandVars>>

States == {"running", "waiting_human", "interrupting"}
Terminal == {"completed", "failed", "interrupted"}
Decisions == {"answer", "deny", "allow_once"}

Items == [ask : Ask, nonce : Nonce, late : BOOLEAN]
Shown == [turn : Turn, ask : Ask, nonce : Nonce]

\* The turns that have a session.
Sessions == {t \in Turn : state[t] # "none"}

\* The asks that are projected somewhere.
Projected == UNION {backends[t] : t \in Turn}

\* `_owns_turn` with the phone and the binding of the turn.
Owns(t) == attached /\ active = t /\ fin[t] # "over"

\* The turn `send_clarify`, `send_exec_approval` and a command find.
Speaking(t) == attached /\ active = t /\ fin[t] = "no"

CockpitInit ==
    /\ calling = None /\ active = None /\ last = 0
    /\ start = [t \in Turn |-> "none"]
    /\ fin = [t \in Turn |-> "no"]
    /\ before = TRUE /\ taken = None
    /\ state = [t \in Turn |-> "none"]
    /\ pending = [t \in Turn |-> {}]
    /\ backends = [t \in Turn |-> {}]
    /\ made = 0 /\ seen = {}
    /\ gateway = [a \in Ask |-> "none"]
    /\ answer = [a \in Ask |-> None]
    /\ commands = {}
    /\ receipt = [c \in Cmd |-> "none"]
    /\ effects = [c \in Cmd |-> 0]

-----------------------------------------------------------------------------
(* The start of a turn. *)

\* `_forget_turn`, and its voice call fails if it still waits.
Forget(t) ==
    /\ fin' = [fin EXCEPT ![t] = "over"]
    /\ active' = IF active = t THEN None ELSE active

\* The terminal sessions that make room for a new one, the oldest first.
Evicted ==
    IF Cardinality(Sessions) < MaxSessions THEN {}
    ELSE {t \in Sessions : /\ state[t] \in Terminal
                           /\ \A u \in Sessions : state[u] \in Terminal => t <= u}

\* A voice call: `_start_turn` registers a turn and opens its session, up to the
\* notification of the phone; without room the start fails at once.  A turn that
\* is still active has been cancelled before.
StartTurn ==
    /\ Listening /\ calling = None /\ last < MaxTurn
    /\ active # None => fin[active] # "no"
    /\ last' = last + 1 /\ calling' = last + 1 /\ active' = last + 1
    /\ frame' = last + 1
    /\ LET stay == Sessions \ Evicted
           room == Cardinality(stay) < MaxSessions
       IN  /\ state' = [t \in Turn |->
                          IF t = last + 1 /\ room THEN "running"
                          ELSE IF t \in stay THEN state[t] ELSE "none"]
           /\ start' = [start EXCEPT ![last + 1] =
                          IF room THEN "opening" ELSE "cancelling"]
    /\ UNCHANGED <<attached, closed, fin, before, taken, pending, backends,
                   made, seen, askVars, commandVars>>

\* The handler of the voice call ends.
StartEnds(t) ==
    /\ start' = [start EXCEPT ![t] = "done"]
    /\ frame' = None

\* An exception in the start of a turn.
StartFails(t) ==
    IF Owns(t)
    THEN /\ start' = [start EXCEPT ![t] = "cancelling"]
         /\ UNCHANGED <<frame, fin, active, calling>>
    ELSE /\ StartEnds(t) /\ Forget(t)
         /\ calling' = IF calling = t THEN None ELSE calling

\* The session is announced, and the event is dispatched to the gateway.
Opened(t) ==
    /\ start[t] = "opening"
    /\ IF Speaking(t)
       THEN /\ start' = [start EXCEPT ![t] = "dispatching"]
            /\ UNCHANGED <<frame, fin, active, calling>>
       ELSE StartFails(t)
    /\ UNCHANGED <<attached, closed, last, before, taken, sessionVars, seen,
                   askVars, commandVars>>

\* The dispatch returns, or raises.
Dispatched(t) ==
    /\ start[t] = "dispatching"
    /\ \/ Speaking(t) /\ StartEnds(t) /\ UNCHANGED <<fin, active, calling>>
       \/ StartFails(t)
    /\ UNCHANGED <<attached, closed, last, before, taken, sessionVars, seen,
                   askVars, commandVars>>

\* `discard_cockpit_turn` up to its notification.
Discard(t) ==
    /\ state' = [state EXCEPT ![t] = "none"]
    /\ pending' = [pending EXCEPT ![t] = {}]
    /\ backends' = [backends EXCEPT ![t] = {}]

\* The gateway has cancelled what was started: the session goes.
StartCancelled(t) ==
    /\ start[t] = "cancelling"
    /\ IF Owns(t)
       THEN /\ Discard(t)
            /\ start' = [start EXCEPT ![t] = "discarding"]
            /\ UNCHANGED <<frame, fin, active, calling>>
       ELSE /\ StartFails(t)
            /\ UNCHANGED <<state, pending, backends>>
    /\ UNCHANGED <<attached, closed, last, before, taken, made, seen, askVars, commandVars>>

Discarded(t) ==
    /\ start[t] = "discarding"
    /\ StartEnds(t) /\ Forget(t)
    /\ calling' = IF calling = t THEN None ELSE calling
    /\ UNCHANGED <<attached, closed, last, before, taken, sessionVars, seen,
                   askVars, commandVars>>

-----------------------------------------------------------------------------
(* The end of a turn. *)

\* `finish_cockpit_turn` up to its notification.
ShowEnd(t, how) ==
    IF state[t] = "none" THEN UNCHANGED <<state, pending, backends>>
    ELSE /\ state' = [state EXCEPT ![t] = how]
         /\ pending' = [pending EXCEPT ![t] = {}]
         /\ backends' = [backends EXCEPT ![t] = {}]

\* `_finish_turn`, when the agent ends or the turn is cancelled.  The phone of the
\* turn may be gone.
Finish(t, how) ==
    /\ start[t] # "none"
    /\ start[t] = "opening" => ~attached
    /\ fin[t] = "no"
    /\ IF Owns(t)
       THEN /\ fin' = [fin EXCEPT ![t] = "projecting"]
            /\ ShowEnd(t, how) /\ UNCHANGED active
       ELSE Forget(t) /\ UNCHANGED <<state, pending, backends>>
    /\ UNCHANGED <<connVars, calling, last, start, before, taken, made, seen,
                   askVars, commandVars>>

\* ... behind the projection: the voice call is answered, whatever turn is active.
\* Without the phone, or when the task is cancelled there, it is not.
Complete(t) ==
    /\ fin[t] = "projecting"
    /\ \/ /\ attached
          /\ fin' = [fin EXCEPT ![t] = "completing"]
          /\ calling' = IF calling = t THEN None ELSE calling
          /\ UNCHANGED active
       \/ Forget(t) /\ UNCHANGED calling
    /\ UNCHANGED <<connVars, last, start, before, taken, sessionVars, seen,
                   askVars, commandVars>>

Completed(t) ==
    /\ fin[t] = "completing" /\ Forget(t)
    /\ UNCHANGED <<connVars, calling, last, start, before, taken, sessionVars, seen,
                   askVars, commandVars>>

\* `_drop_phone` of the connection before this one ends by cancelling the turn that
\* is active by then, which may be one of this connection: its processing is
\* cancelled, and a turn that did not end by itself is forgotten as it is.
PredecessorDropped ==
    /\ before /\ before' = FALSE
    /\ \/ active # None /\ Forget(active) /\ taken' = active
       \/ UNCHANGED <<fin, active, taken>>
    /\ UNCHANGED <<connVars, calling, last, start, sessionVars, seen, askVars,
                   commandVars>>

\* `_on_cancel` raises: the call is answered although its turn goes on.
CancelFails ==
    /\ Listening /\ calling # None /\ active = calling /\ fin[active] = "no"
    /\ calling' = None
    /\ UNCHANGED <<connVars, active, last, start, fin, before, taken, sessionVars, seen,
                   askVars, commandVars>>

-----------------------------------------------------------------------------
(* Asks of the gateway. *)

\* The agent asks; its answer is waited for in the gateway.
Raise(a) ==
    /\ attached /\ gateway[a] = "none" /\ last > 0
    /\ gateway' = [gateway EXCEPT ![a] = "waiting"]
    /\ UNCHANGED <<connVars, turnVars, sessionVars, seen, answer, commandVars>>

\* It is answered elsewhere, or times out.
Withdraw(a) ==
    /\ attached /\ gateway[a] = "waiting"
    /\ gateway' = [gateway EXCEPT ![a] = "gone"]
    /\ UNCHANGED <<connVars, turnVars, sessionVars, seen, answer, commandVars>>

\* A new item for ask a in the session of turn t.
Project(t, a) ==
    /\ a \notin backends[t] /\ Cardinality(pending[t]) < MaxPending
    /\ made < MaxNonce /\ made' = made + 1
    /\ pending' = [pending EXCEPT ![t] =
                     @ \cup {[ask |-> a, nonce |-> made + 1, late |-> FALSE]}]
    /\ backends' = [backends EXCEPT ![t] = @ \cup {a}]
    /\ state' = [state EXCEPT ![t] = "waiting_human"]

\* Mutant: `turn.finished` is not looked at.
Hears_Finished(t) == Owns(t) /\ state[t] # "none"

\* The turn `send_clarify` and `send_exec_approval` project on.
Hears(t) == Speaking(t) /\ state[t] # "none"

\* `send_clarify`, whoever's turn the question is of: all turns of a phone have
\* the same session key.
SendClarify(t, a) ==
    /\ Kind[a] # "permission" /\ gateway[a] # "none" /\ Hears(t)
    /\ a \in Displayable
    /\ Kind[a] = "text_question" => FreeText
    /\ Project(t, a)
    /\ UNCHANGED <<connVars, turnVars, seen, askVars, commandVars>>

\* The approvals that are exactly what approval a is about, wait in the gateway
\* and are not projected.
Matching(a) == {b \in Like[a] : gateway[b] = "waiting" /\ b \notin Projected}

\* `send_exec_approval` for a: it projects b, the only match.
SendExecApproval(t, a, b) ==
    /\ Kind[a] = "permission" /\ gateway[a] # "none" /\ Hears(t)
    /\ Matching(a) = {b}
    /\ Project(t, b)
    /\ UNCHANGED <<connVars, turnVars, seen, askVars, commandVars>>

-----------------------------------------------------------------------------
(* What the phone sees and does. *)

\* Time passes: the oldest item of a session that has not expired expires.
Expire(t) ==
    \E i \in pending[t] :
      /\ ~i.late /\ \A k \in pending[t] : k.nonce < i.nonce => k.late
      /\ pending' = [pending EXCEPT ![t] =
                       (@ \ {i}) \cup {[ask |-> i.ask, nonce |-> i.nonce, late |-> TRUE]}]
      /\ UNCHANGED <<connVars, turnVars, state, backends, made, seen, askVars,
                     commandVars>>

\* The backends of the items a snapshot keeps.
Retained(t, items) == backends[t] \cap {i.ask : i \in items}

\* Mutant: the newest items are shown.
Fits_Newest(items) ==
    {i \in items : Cardinality({k \in items : k.nonce > i.nonce}) < MaxShown}

\* `_bound_cockpit_snapshot`: as many of the oldest items as fit.
Fits(items) ==
    {i \in items : Cardinality({k \in items : k.nonce < i.nonce}) < MaxShown}

\* The items of session t the phone sees now, or would see.
Visible(t) ==
    {[turn |-> t, ask |-> i.ask, nonce |-> i.nonce] :
        i \in Fits({k \in pending[t] : ~k.late})}

\* `_cockpit_snapshot` for resources/read: expired items go, the rest is shown.
ReadSnapshot ==
    /\ Listening
    /\ pending' = [t \in Turn |-> {i \in pending[t] : ~i.late}]
    /\ backends' = [t \in Turn |-> Retained(t, pending'[t])]
    /\ state' = [t \in Turn |->
                   IF state[t] = "waiting_human" /\ pending[t] # {} /\ pending'[t] = {}
                   THEN "running" ELSE state[t]]
    /\ seen' = seen \cup UNION {Visible(t) : t \in Turn}
    /\ UNCHANGED <<connVars, turnVars, made, askVars, commandVars>>

\* A command of the phone.
Command(type, t, item, choice) ==
    [type |-> type, turn |-> t, item |-> item, choice |-> choice]

\* Commands as the phone may send them: the answer to an item it has seen, and a
\* steer or an interrupt of any session there was.
Commands ==
    {Command("answer", x.turn, x, "answer") : x \in {y \in seen : y.ask \in Questions}}
    \cup {Command("permission_decide", x.turn, x, d) :
             x \in {y \in seen : y.ask \notin Questions}, d \in {"deny", "allow_once"}}
    \cup {Command(type, t, None, None) : type \in {"steer", "interrupt"}, t \in 1 .. last}

\* The `choices` of the item of ask a.
Offered(a) ==
    IF a \in Questions THEN {"answer"}
    ELSE IF a \in Displayable \ SmartDenied THEN {"deny", "allow_once"} ELSE {"deny"}

\* Mutant: the nonce is not compared.
Current_AnyNonce(m) ==
    \E i \in pending[m.turn] : i.ask = m.item.ask /\ ~i.late

\* The item that command m answers waits and has not expired.
Current(m) ==
    \E i \in pending[m.turn] :
      i.ask = m.item.ask /\ i.nonce = m.item.nonce /\ ~i.late

\* `_validate_cockpit_authority` finds nothing against command m.
Authorized(m) ==
    /\ state[m.turn] \notin Terminal \cup {"none"}
    /\ m.type = "steer" => state[m.turn] = "running"
    /\ m.type = "interrupt" => state[m.turn] \in {"running", "waiting_human"}
    /\ m.item # None => Current(m) /\ m.choice \in Offered(m.item.ask)

\* `_active_turn_for_cockpit` finds the turn of the session.
Dispatchable(m) == Authorized(m) /\ Speaking(m.turn)

\* Mutant: a command whose dispatch raised may be sent again.
Remember_Known(c, outcome) ==
    /\ commands' = IF outcome = "outcome_unknown" THEN commands ELSE commands \cup {c}
    /\ receipt' = [receipt EXCEPT ![c] = IF @ = "none" THEN outcome ELSE @]

\* A command id is used up, whatever becomes of the command.
Remember(c, outcome) ==
    /\ commands' = commands \cup {c}
    /\ receipt' = [receipt EXCEPT ![c] = IF @ = "none" THEN outcome ELSE @]

\* A command id that is new, within the budget.
Fresh(c) == Listening /\ c \notin commands /\ Cardinality(commands) < MaxCommands

\* The command does what it says: an ask that waits is answered, an agent is
\* steered or interrupted.
Takes(c, m) ==
    /\ effects' = [effects EXCEPT ![c] = @ + 1]
    /\ IF m.item = None THEN UNCHANGED askVars
       ELSE /\ gateway[m.item.ask] = "waiting"
            /\ gateway' = [gateway EXCEPT ![m.item.ask] = "answered"]
            /\ answer' = [answer EXCEPT ![m.item.ask] =
                            [turn |-> m.turn, nonce |-> m.item.nonce, choice |-> m.choice]]

\* Mutant: the session runs on with items that wait.
AfterAnswer_Runs(t) == "running"

\* The state of a session behind an accepted answer, also when it was interrupting.
AfterAnswer(t) == IF pending'[t] = {} THEN "running" ELSE "waiting_human"

\* An accepted command.
Accepted(c, m) ==
    /\ Fresh(c) /\ Dispatchable(m)
    /\ Remember(c, "accepted") /\ Takes(c, m)
    /\ IF m.item = None
       THEN /\ state' = [state EXCEPT ![m.turn] =
                           IF m.type = "interrupt" THEN "interrupting" ELSE @]
            /\ UNCHANGED <<pending, backends>>
       ELSE /\ pending' = [pending EXCEPT ![m.turn] = {i \in @ : i.ask # m.item.ask}]
            /\ backends' = [backends EXCEPT ![m.turn] = @ \ {m.item.ask}]
            /\ state' = [state EXCEPT ![m.turn] = AfterAnswer(m.turn)]
    /\ UNCHANGED <<connVars, turnVars, made, seen>>

\* Refused here; refused by the gateway, where the ask no longer waits; or by an
\* agent that is not there.
Rejected(c, m) ==
    /\ Fresh(c)
    /\ Dispatchable(m) /\ m.item # None => gateway[m.item.ask] # "waiting"
    /\ Remember(c, "rejected")
    /\ UNCHANGED <<connVars, turnVars, sessionVars, seen, askVars, effects>>

\* The dispatch raises, before or behind its effect; the item stays.
Raised(c, m) ==
    /\ Fresh(c) /\ Dispatchable(m)
    /\ Remember(c, "outcome_unknown")
    /\ Takes(c, m) \/ UNCHANGED <<askVars, effects>>
    /\ UNCHANGED <<connVars, turnVars, sessionVars, seen>>

-----------------------------------------------------------------------------
\* The end of the connection forgets everything but the turns themselves, and what
\* the phone has seen is of no use any more.
CockpitCleared ==
    /\ calling' = None
    /\ state' = [t \in Turn |-> "none"]
    /\ pending' = [t \in Turn |-> {}]
    /\ backends' = [t \in Turn |-> {}]
    /\ commands' = {} /\ seen' = {}
    /\ UNCHANGED <<active, last, start, fin, before, taken, made, askVars, receipt, effects>>

\* What the coroutines of a turn do of themselves.
TurnProceeds(t) ==
    \/ Opened(t) \/ Dispatched(t) \/ StartCancelled(t) \/ Discarded(t)
    \/ \E how \in Ends : Finish(t, how)
    \/ Complete(t) \/ Completed(t)

CockpitNext ==
    \/ StartTurn \/ CancelFails \/ PredecessorDropped \/ ReadSnapshot
    \/ \E t \in Turn :
         \/ TurnProceeds(t) \/ Expire(t)
         \/ \E a \in Ask : SendClarify(t, a)
         \/ \E a, b \in Ask : SendExecApproval(t, a, b)
    \/ \E a \in Ask : Raise(a) \/ Withdraw(a)
    \/ \E c \in Cmd, m \in Commands : Accepted(c, m) \/ Rejected(c, m) \/ Raised(c, m)

-----------------------------------------------------------------------------
(***************************************************************************)
(* Properties.                                                             *)
(***************************************************************************)

\* Every variable has its type.
CockpitTypeOK ==
    /\ calling \in Turn \cup {None} /\ active \in Turn \cup {None}
    /\ last \in 0 .. MaxTurn /\ made \in 0 .. MaxNonce
    /\ start \in [Turn -> {"none", "opening", "dispatching", "cancelling",
                           "discarding", "done"}]
    /\ fin \in [Turn -> {"no", "projecting", "completing", "over"}]
    /\ before \in BOOLEAN /\ taken \in Turn \cup {None}
    /\ state \in [Turn -> {"none"} \cup States \cup Terminal]
    /\ pending \in [Turn -> SUBSET Items]
    /\ backends \in [Turn -> SUBSET Ask]
    /\ seen \subseteq Shown
    /\ gateway \in [Ask -> {"none", "waiting", "gone", "answered"}]
    /\ answer \in [Ask -> {None} \cup
                     [turn : Turn, nonce : Nonce, choice : Decisions]]
    /\ commands \subseteq Cmd
    /\ receipt \in [Cmd -> {"none", "accepted", "rejected", "outcome_unknown"}]
    /\ effects \in [Cmd -> Nat]

\* Each item of a session has its backend and each backend its item, and no ask is
\* projected twice: an answer always finds what it is about, and an ask whose item
\* expired can be projected again.  (Only the items of a turn taken by the drop of
\* the phone before stay beside those of the next turn.)
ItemsHaveBackends ==
    /\ \A t \in Turn : backends[t] = {i.ask : i \in pending[t]}
    /\ \A t, u \in Turn : \A i \in pending[t], k \in pending[u] :
         i.ask = k.ask => (t = u /\ i = k) \/ (t # u /\ taken \in {t, u})

\* A session waits for the wearer only while an item waits, and runs or has ended
\* only without one.
StateIsPending ==
    \A t \in Turn :
      /\ state[t] = "waiting_human" => pending[t] # {}
      /\ state[t] \in {"none", "running"} \cup Terminal => pending[t] = {}

\* While the phone is attached, a session that has not ended is that of the active
\* turn, so that a new turn always finds room: a turn that ends, fails to start
\* or is cancelled leaves no session behind that looks alive, and none that has
\* ended comes to life again.  (Only a turn taken by the drop of the phone before
\* leaves its session as it is; see ExactCancellation of VoiceTurn.)
OpenIsActive ==
    attached => \A t \in Sessions :
                  state[t] \in States => (active = t /\ fin[t] = "no") \/ taken = t

\* Receipts tell the truth: a rejected command has done nothing, an accepted one
\* what it says, and no command id takes effect twice, also when its dispatch
\* raised and the phone sends it again.
ReceiptIsTrue ==
    \A c \in Cmd :
      /\ receipt[c] = "rejected" => effects[c] = 0
      /\ receipt[c] = "accepted" => effects[c] = 1
      /\ effects[c] <= 1

\* An item the phone has seen is visible as long as it waits: a snapshot that is
\* full hides only items the phone has no nonce of ("Hidden requests retain no
\* phone authority").
KnownIsVisible ==
    \A x \in seen : (\E i \in pending[x.turn] : i.nonce = x.nonce /\ ~i.late)
                    => x \in Visible(x.turn)

\* An ask is answered by the phone only once and only through the item that shows
\* it now, in the session of the active turn, and is allowed only if it was shown
\* in full and the gateway has not denied it: an answer to an expired or an
\* earlier projection of the same ask has no effect.
AnswersFit ==
    [][\A a \in Ask : answer'[a] # answer[a] =>
         /\ answer[a] = None /\ active = answer'[a].turn
         /\ [ask |-> a, nonce |-> answer'[a].nonce, late |-> FALSE]
              \in pending[active]
         /\ answer'[a].choice = "allow_once" => a \in Displayable \ SmartDenied]_cockpitVars

\* Every session shows its end or is gone, once the turns have ended.
SessionsEnd ==
    <>[](\A t \in Turn : state[t] \in Terminal \cup {"none"} \/ taken = t)
=============================================================================

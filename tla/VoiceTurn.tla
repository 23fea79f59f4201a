------------------------------ MODULE VoiceTurn ------------------------------
(***************************************************************************)
(* Phone connections and voice turns: adapter.py with the voice lane of    *)
(* HostSessionMcpServer (host_mcp.py).                                     *)
(*                                                                         *)
(* One coroutine per websocket authenticates the phone, attaches it (after *)
(* dropping the one before) and handles its frames one at a time; a        *)
(* deadline task watches each connection, the gateway runs the agent of a  *)
(* turn in a task of its own, and disconnect() may come at any moment.     *)
(* They share `_phone`, `_turns` and `_active_turn_id`, and the event loop *)
(* switches between them at every await: each action is the code between   *)
(* two awaits.                                                             *)
(*                                                                         *)
(* A websocket stands for its _Phone and host session as well.  A binding  *)
(* <<websocket, request>> names a voice call, its HostTurnBinding and its  *)
(* _Turn (with the event id and the generation, which only it has).        *)
(***************************************************************************)
EXTENDS Naturals, Sequences, FiniteSets

CONSTANTS
    Sock,         \* websocket connections, each used once
    Req,          \* JSON-RPC request ids of voice calls
    TurnId,       \* turn ids, possibly reused
    ChosenBy,     \* the turn ids the phone of a connection may choose
    MaxRequests,  \* _MAX_REQUESTS_PER_SESSION
    None          \* no websocket, request, turn id or turn

Binding == Sock \X Req

ASSUME ChosenByAssumption == ChosenBy \in [Sock -> SUBSET TurnId]
ASSUME NoneAssumption == None \notin Sock \cup Req \cup TurnId \cup Binding
ASSUME BudgetAssumption == MaxRequests \in Nat \ {0}

VARIABLES
    up,       \* the server listens: not _disconnecting
    phone,    \* _phone
    link,     \* the websocket: "out", "open" or "closed"
    at,       \* where the connection's coroutine is
    req,      \* the voice request it is starting
    life,     \* _lifecycle of the host session
    watch,    \* host_mcp_init_task, the initialize deadline
    pending,  \* _pending of the host session: one request, or None
    asked,    \* bindings with cancellation_requested
    done,     \* the voice requests in _completed of the host session
    spent,    \* how many ids _completed holds, of any method
    name,     \* the turn id of each binding
    turns,    \* _turns: the turn registered under each turn id
    active,   \* _active_turn_id
    begun,    \* history: the turns that were ever registered
    fin,      \* how far _finish_turn is for each turn; "no": not `finished`
    why,      \* its stop reason
    task,     \* the gateway's processing task of each turn
    job,      \* _drop_phone and _cancel_active_turn in progress, by caller
    reply     \* history: the answers a request got over the wire

connVars == <<up, phone, link, life, watch>>
hostVars == <<pending, asked, done, spent>>
turnVars == <<turns, active, begun>>
finVars == <<fin, why>>
vars == <<up, phone, link, at, req, life, watch, pending, asked, done, spent,
          name, turns, active, begun, fin, why, task, job, reply>>

\* Who may be dropping a phone or cancelling a turn.
Handler(s) == <<s, "handler">>
Watcher(s) == <<s, "watch">>
Shutdown == <<None, "shutdown">>
Actor == (Sock \X {"handler", "watch"}) \cup {Shutdown}

Idle == [at |-> "idle", victim |-> None, turn |-> None, wait |-> {},
         next |-> "forget"]

StopReasons == {"end_turn", "error", "cancelled"}

\* A processing task of the gateway that has not ended.
Alive == {b \in Binding : task[b] \in {"queued", "running", "cancelling", "hook"}}

-----------------------------------------------------------------------------
(***************************************************************************)
(* Ownership and the end of a turn.                                        *)
(***************************************************************************)

\* `_turns.get(turn.turn_id) is turn`; only then does its event route to it.
Tracked(b) == name[b] # None /\ turns[name[b]] = b

Finished(b) == fin[b] # "no"

\* The turn that `authorize_active_g2_turn` admits, or None.
Authorized ==
    IF active # None /\ ~Finished(turns[active]) THEN turns[active] ELSE None

\* `_owns_turn` with the phone and binding of the turn itself.
Owns(b) == Tracked(b) /\ active = name[b] /\ phone = b[1]

\* Mutant: forgets whichever turn has the id.
Forget_ById(b) ==
    /\ turns' = [turns EXCEPT ![name[b]] = None]
    /\ active' = IF active = name[b] THEN None ELSE active
    /\ UNCHANGED begun

\* Mutant: only the active id is reset.
Forget_KeepsTurn(b) ==
    /\ active' = IF Tracked(b) /\ active = name[b] THEN None ELSE active
    /\ UNCHANGED <<turns, begun>>

\* `_forget_turn(turn_id, expected=turn)`.
Forget(b) ==
    /\ turns' = IF Tracked(b) THEN [turns EXCEPT ![name[b]] = None] ELSE turns
    /\ active' = IF Tracked(b) /\ active = name[b] THEN None ELSE active
    /\ UNCHANGED begun

\* `_finish_turn` up to its first await; only for a tracked, unfinished turn.
BeginFinish(b, reason) ==
    /\ why' = [why EXCEPT ![b] = reason]
    /\ IF phone = b[1]
       THEN /\ fin' = [fin EXCEPT ![b] = "projecting"]
            /\ UNCHANGED turnVars
       ELSE /\ fin' = [fin EXCEPT ![b] = "over"]
            /\ Forget(b)

\* `cancel_session_processing`: every turn has the same session key.  A task
\* that has not begun vanishes; the others get a CancelledError.
CancelTasks ==
    task' = [b \in Binding |->
               CASE task[b] = "queued" -> "done"
                 [] task[b] \in {"running", "hook"} -> "cancelling"
                 [] OTHER -> task[b]]

\* Cancels the gateway processing for turn b and waits for its tasks.
CancelFor(x, b, next) ==
    /\ CancelTasks
    /\ job' = [job EXCEPT ![x] =
                 [at |-> "cancel", victim |-> None, turn |-> b,
                  wait |-> {c \in Alive : task[c] # "queued"}, next |-> next]]

\* `_cancel_active_turn` up to its await.
CancelActive(x, next) ==
    IF active = None
    THEN job' = [job EXCEPT ![x] = Idle] /\ UNCHANGED task
    ELSE CancelFor(x, turns[active], next)

\* Mutant: misses the end of `_finish_turn`.
Through_IdleOnly(x) == job[x].at = "idle"

\* The awaited drop or cancellation of x has returned.
Through(x) ==
    \/ job[x].at = "idle"
    \/ job[x].at = "finish" /\ fin[job[x].turn] = "over"

\* `_drop_phone` up to its first suspension, with notify ...
DropLoud(x) ==
    /\ phone' = None
    /\ job' = [job EXCEPT ![x] = [Idle EXCEPT !.at = "notify", !.victim = phone]]

\* `host_mcp.close()`, and the deadline task is cancelled.
CloseHost(s) ==
    /\ life' = [life EXCEPT ![s] = "closed"]
    /\ pending' = [pending EXCEPT ![s] = None]
    /\ done' = [done EXCEPT ![s] = {}]
    /\ spent' = [spent EXCEPT ![s] = 0]

StopWatch(s) ==
    watch' = [watch EXCEPT ![s] = IF @ = "armed" THEN "off" ELSE @]

\* Mutant: the request stays pending.
Complete_KeepsPending(b) ==
    /\ done' = [done EXCEPT ![b[1]] = @ \cup {b[2]}]
    /\ spent' = [spent EXCEPT ![b[1]] = @ + 1]
    /\ UNCHANGED pending

\* A pending request becomes a completed one.
Complete(b) ==
    /\ pending' = [pending EXCEPT ![b[1]] = None]
    /\ done' = [done EXCEPT ![b[1]] = @ \cup {b[2]}]
    /\ spent' = [spent EXCEPT ![b[1]] = @ + 1]

-----------------------------------------------------------------------------
Init ==
    /\ up = TRUE
    /\ phone = None
    /\ link = [s \in Sock |-> "out"]
    /\ at = [s \in Sock |-> "out"]
    /\ req = [s \in Sock |-> None]
    /\ life = [s \in Sock |-> "new"]
    /\ watch = [s \in Sock |-> "off"]
    /\ pending = [s \in Sock |-> None]
    /\ asked = {}
    /\ done = [s \in Sock |-> {}]
    /\ spent = [s \in Sock |-> 0]
    /\ name = [b \in Binding |-> None]
    /\ turns = [t \in TurnId |-> None]
    /\ active = None
    /\ begun = {}
    /\ fin = [b \in Binding |-> "no"]
    /\ why = [b \in Binding |-> "end_turn"]
    /\ task = [b \in Binding |-> "none"]
    /\ job = [x \in Actor |-> Idle]
    /\ reply = [b \in Binding |-> <<>>]

-----------------------------------------------------------------------------
(***************************************************************************)
(* Connections.                                                            *)
(***************************************************************************)

Connect(s) ==
    /\ up /\ link[s] = "out"
    /\ link' = [link EXCEPT ![s] = "open"]
    /\ at' = [at EXCEPT ![s] = "hello"]
    /\ UNCHANGED <<up, phone, req, life, watch, hostVars, name, turnVars,
                   finVars, task, job, reply>>

\* The coroutine learns that the websocket has ended.
LinkCloses(s) ==
    /\ link[s] = "open"
    /\ link' = [link EXCEPT ![s] = "closed"]
    /\ UNCHANGED <<up, phone, at, req, life, watch, hostVars, name, turnVars,
                   finVars, task, job, reply>>

\* Mutant: drops whatever is there, also nothing.
HelloSupersedes_Always(s) ==
    /\ at[s] = "hello" /\ link[s] = "open"
    /\ at' = [at EXCEPT ![s] = "supersede"]
    /\ DropLoud(Handler(s))
    /\ UNCHANGED <<up, link, req, life, watch, hostVars, name, turnVars,
                   finVars, task, reply>>

\* A valid hello while another phone is attached: drop it first.
HelloSupersedes(s) ==
    /\ at[s] = "hello" /\ link[s] = "open" /\ phone # None
    /\ at' = [at EXCEPT ![s] = "supersede"]
    /\ DropLoud(Handler(s))
    /\ UNCHANGED <<up, link, req, life, watch, hostVars, name, turnVars,
                   finVars, task, reply>>

\* The rest of `_attach_phone` up to the hello-ack.
Attach(s) ==
    /\ \/ at[s] = "hello" /\ link[s] = "open" /\ phone = None
       \/ at[s] = "supersede" /\ Through(Handler(s))
    /\ phone' = s
    /\ at' = [at EXCEPT ![s] = "ack"]
    /\ UNCHANGED <<up, link, req, life, watch, hostVars, name, turnVars,
                   finVars, task, job, reply>>

Acked(s) ==
    /\ at[s] = "ack"
    /\ at' = [at EXCEPT ![s] = "loop"]
    /\ watch' = [watch EXCEPT ![s] = "armed"]
    /\ UNCHANGED <<up, phone, link, req, life, hostVars, name, turnVars,
                   finVars, task, job, reply>>

DeadlineExpires(s) ==
    /\ watch[s] = "armed"
    /\ IF phone = s /\ life[s] # "initialized"
       THEN /\ watch' = [watch EXCEPT ![s] = "dropping"]
            /\ DropLoud(Watcher(s))
       ELSE /\ watch' = [watch EXCEPT ![s] = "off"]
            /\ UNCHANGED <<phone, job>>
    /\ UNCHANGED <<up, link, at, req, life, hostVars, name, turnVars, finVars,
                   task, reply>>

\* `_drop_phone` behind the error frame: sessions closed, websocket closing.
DropNotified(x) ==
    /\ job[x].at = "notify"
    /\ job' = [job EXCEPT ![x].at = "socket"]
    /\ CloseHost(job[x].victim)
    /\ StopWatch(job[x].victim)
    /\ UNCHANGED <<up, phone, link, at, req, asked, name, turnVars, finVars,
                   task, reply>>

\* The websocket is closed; `_cancel_active_turn(send_done=False)`.
DropClosed(x) ==
    /\ job[x].at = "socket"
    /\ link' = [link EXCEPT ![job[x].victim] = "closed"]
    /\ CancelActive(x, "forget")
    /\ UNCHANGED <<up, phone, at, req, life, watch, hostVars, name, turnVars,
                   finVars, reply>>

\* `cancel_session_processing` has returned.
Cancelled(x) ==
    LET b == job[x].turn IN
    /\ job[x].at = "cancel"
    /\ \A c \in job[x].wait : task[c] = "done"
    /\ IF job[x].next = "forget"
       THEN /\ Forget(b)
            /\ job' = [job EXCEPT ![x] = Idle]
            /\ UNCHANGED finVars
       ELSE IF Tracked(b) /\ ~Finished(b)
       THEN /\ BeginFinish(b, "cancelled")
            /\ job' = [job EXCEPT ![x].at = "finish"]
       ELSE /\ job' = [job EXCEPT ![x] = Idle]
            /\ UNCHANGED <<turnVars, finVars>>
    /\ UNCHANGED <<connVars, at, req, hostVars, name, task, reply>>

\* The `finally` of `_handle_connection`: a drop without notice, which runs
\* without suspension up to the cancellation.
Leave(s) ==
    /\ IF phone = s
       THEN /\ phone' = None
            /\ CloseHost(s)
            /\ StopWatch(s)
            /\ CancelActive(Handler(s), "forget")
            /\ at' = [at EXCEPT ![s] = "leaving"]
       ELSE /\ at' = [at EXCEPT ![s] = "gone"]
            /\ job' = [job EXCEPT ![Handler(s)] = Idle]
            /\ UNCHANGED <<phone, life, pending, done, spent, watch, task>>
    /\ UNCHANGED <<up, link, req, asked, name, turnVars, finVars, reply>>

\* Frames no longer arrive.
ConnectionEnds(s) ==
    /\ at[s] \in {"hello", "loop"} /\ link[s] = "closed"
    /\ Leave(s)

\* The drop of the fatal callback, or of the `finally`, is through.
DropReturns(s) ==
    /\ at[s] \in {"fatal", "leaving"} /\ Through(Handler(s))
    /\ at' = [at EXCEPT ![s] = IF at[s] = "fatal" THEN "loop" ELSE "gone"]
    /\ UNCHANGED <<connVars, req, hostVars, name, turnVars, finVars, task, job,
                   reply>>

\* `disconnect`: the server stops listening and closes its websockets, the
\* phone is dropped without notice.
Disconnect ==
    /\ up
    /\ up' = FALSE
    /\ link' = [s \in Sock |-> IF link[s] = "open" THEN "closed" ELSE link[s]]
    /\ IF phone = None
       THEN UNCHANGED <<phone, life, pending, done, spent, watch, job>>
       ELSE /\ phone' = None
            /\ CloseHost(phone)
            /\ StopWatch(phone)
            /\ job' = [job EXCEPT ![Shutdown] =
                         [Idle EXCEPT !.at = "socket", !.victim = phone]]
    /\ UNCHANGED <<at, req, asked, name, turnVars, finVars, task, reply>>

-----------------------------------------------------------------------------
(***************************************************************************)
(* Host-session frames.  Those of a connection that is not the current one *)
(* are ignored.                                                            *)
(***************************************************************************)

Receives(s) == at[s] = "loop" /\ link[s] = "open" /\ phone = s

\* `_remember_completed` for a request of another method.
Spend(s) ==
    /\ spent[s] < MaxRequests
    /\ spent' = [spent EXCEPT ![s] = @ + 1]

Initialize(s) ==
    /\ Receives(s)
    /\ life[s] = "new"
    /\ life' = [life EXCEPT ![s] = "initializing"]
    /\ Spend(s)
    /\ UNCHANGED <<up, phone, link, at, req, watch, pending, asked, done, name,
                   turnVars, finVars, task, job, reply>>

\* notifications/initialized, after which the deadline is lifted.
Initialized(s) ==
    /\ Receives(s)
    /\ life[s] = "initializing"
    /\ life' = [life EXCEPT ![s] = "initialized"]
    /\ StopWatch(s)
    /\ UNCHANGED <<up, phone, link, at, req, hostVars, name, turnVars, finVars,
                   task, job, reply>>

\* Any request that is answered at once: ping, lists, reads, a refused call,
\* a voice turn while another one is pending.
OtherRequest(s) ==
    /\ Receives(s)
    /\ Spend(s)
    /\ UNCHANGED <<connVars, at, req, pending, asked, done, name, turnVars,
                   finVars, task, job, reply>>

\* The budget of request ids is used up: the session closes itself and has
\* its phone dropped.
Exhausted(s) ==
    /\ Receives(s)
    /\ spent[s] >= MaxRequests
    /\ CloseHost(s)
    /\ DropLoud(Handler(s))
    /\ at' = [at EXCEPT ![s] = "fatal"]
    /\ UNCHANGED <<up, link, req, watch, asked, name, turnVars, finVars, task,
                   reply>>

\* Mutant: the turn before keeps running.
VoiceTurn_Keeps(s, r, t) ==
    /\ Receives(s) /\ r \notin done[s]
    /\ spent[s] < MaxRequests
    /\ life[s] = "initialized"
    /\ pending[s] = None
    /\ pending' = [pending EXCEPT ![s] = r]
    /\ req' = [req EXCEPT ![s] = r]
    /\ name' = [name EXCEPT ![<<s, r>>] = t]
    /\ at' = [at EXCEPT ![s] = "replace"]
    /\ UNCHANGED <<connVars, asked, done, spent, turnVars, finVars, task, job,
                   reply>>

\* `hermes.voice.turn` is accepted: a turn that is still active is cancelled
\* first.
VoiceTurn(s, r, t) ==
    /\ Receives(s) /\ r \notin done[s]
    /\ spent[s] < MaxRequests
    /\ life[s] = "initialized"
    /\ pending[s] = None
    /\ pending' = [pending EXCEPT ![s] = r]
    /\ req' = [req EXCEPT ![s] = r]
    /\ name' = [name EXCEPT ![<<s, r>>] = t]
    /\ at' = [at EXCEPT ![s] = "replace"]
    /\ CancelActive(Handler(s), "finish")
    /\ UNCHANGED <<connVars, asked, done, spent, turnVars, finVars, reply>>

\* notifications/cancelled for the pending request.
CancelRequest(s) ==
    LET b == <<s, pending[s]>> IN
    /\ Receives(s)
    /\ pending[s] # None /\ b \notin asked
    /\ asked' = asked \cup {b}
    /\ IF active # None /\ turns[active] = b
       THEN CancelFor(Handler(s), b, "finish") /\ at' = [at EXCEPT ![s] = "cancel"]
       ELSE UNCHANGED <<task, job, at>>
    /\ UNCHANGED <<connVars, req, pending, done, spent, name, turnVars, finVars,
                   reply>>

CancelReturns(s) ==
    /\ at[s] = "cancel" /\ Through(Handler(s))
    /\ at' = [at EXCEPT ![s] = "loop"]
    /\ job' = [job EXCEPT ![Handler(s)] = Idle]
    /\ UNCHANGED <<connVars, req, hostVars, name, turnVars, finVars, task,
                   reply>>

-----------------------------------------------------------------------------
(***************************************************************************)
(* `_start_turn`, in the coroutine of the connection.                      *)
(***************************************************************************)

Mine(s) == <<s, req[s]>>

\* Mutant: the request of a failed start is forgotten.
StartFails_Silent(s) ==
    /\ at' = [at EXCEPT ![s] = "loop"]
    /\ UNCHANGED <<pending, done, spent>>

\* The exception leaves `_start_turn`: the session refuses the request if it
\* is still pending.
StartFails(s) ==
    IF pending[s] = req[s]
    THEN /\ at' = [at EXCEPT ![s] = "refuse"]
         /\ Complete(Mine(s))
    ELSE /\ at' = [at EXCEPT ![s] = "loop"]
         /\ UNCHANGED <<pending, done, spent>>

\* Registers the turn and shares it with the Cockpit.
StartTurn(s) ==
    /\ at[s] = "replace" /\ Through(Handler(s))
    /\ job' = [job EXCEPT ![Handler(s)] = Idle]
    /\ IF phone = s
       THEN /\ turns' = [turns EXCEPT ![name[Mine(s)]] = Mine(s)]
            /\ active' = name[Mine(s)]
            /\ begun' = begun \cup {Mine(s)}
            /\ at' = [at EXCEPT ![s] = "project"]
            /\ UNCHANGED <<pending, done, spent>>
       ELSE StartFails(s) /\ UNCHANGED turnVars
    /\ UNCHANGED <<connVars, req, asked, name, finVars, task, reply>>

\* The handler of an exception in `_start_turn`.
Undo(s) ==
    IF Owns(Mine(s))
    THEN /\ CancelFor(Handler(s), Mine(s), "forget")
         /\ at' = [at EXCEPT ![s] = "undo"]
         /\ UNCHANGED <<pending, done, spent, turnVars>>
    ELSE /\ Forget(Mine(s))
         /\ StartFails(s)
         /\ UNCHANGED <<job, task>>

\* Behind `open_cockpit_turn`: hands the event to the gateway, which takes it
\* or raises.
Dispatch(s, taken) ==
    /\ at[s] = "project"
    /\ IF Owns(Mine(s)) /\ ~Finished(Mine(s))
       THEN /\ at' = [at EXCEPT ![s] = "dispatch"]
            /\ task' = [task EXCEPT ![Mine(s)] = IF taken THEN "queued" ELSE "none"]
            /\ UNCHANGED <<job, pending, done, spent, turnVars>>
       ELSE taken /\ Undo(s)
    /\ UNCHANGED <<connVars, req, asked, name, finVars, reply>>

\* Behind the gateway's `handle_message`.
Dispatched(s) ==
    /\ at[s] = "dispatch"
    /\ IF Owns(Mine(s)) /\ ~Finished(Mine(s)) /\ task[Mine(s)] # "none"
       THEN /\ at' = [at EXCEPT ![s] = "loop"]
            /\ UNCHANGED <<job, task, pending, done, spent, turnVars>>
       ELSE Undo(s)
    /\ UNCHANGED <<connVars, req, asked, name, finVars, reply>>

UndoReturns(s) ==
    /\ at[s] = "undo" /\ Through(Handler(s))
    /\ StartFails(s)
    /\ UNCHANGED <<connVars, req, asked, name, turnVars, finVars, task, job, reply>>

\* The error answer; if it cannot be sent the coroutine ends.
Refuse(s) ==
    /\ at[s] = "refuse"
    /\ IF phone = s /\ link[s] = "open"
       THEN /\ reply' = [reply EXCEPT ![Mine(s)] = Append(@, "refused")]
            /\ at' = [at EXCEPT ![s] = "loop"]
            /\ UNCHANGED <<connVars, req, hostVars, name, turnVars, finVars,
                           task, job>>
       ELSE Leave(s)

-----------------------------------------------------------------------------
(***************************************************************************)
(* The gateway's processing task (external) and `on_processing_complete`.  *)
(***************************************************************************)

AgentRuns(b) ==
    /\ task[b] = "queued"
    /\ task' = [task EXCEPT ![b] = "running"]
    /\ UNCHANGED <<connVars, at, req, hostVars, name, turnVars, finVars, job,
                   reply>>

\* The agent has ended, or its cancellation has reached it.
Completes(b, reason) ==
    /\ \/ task[b] = "running" /\ reason \in {"end_turn", "error"}
       \/ task[b] = "cancelling" /\ ~Finished(b) /\ reason = "cancelled"
    /\ IF Tracked(b) /\ ~Finished(b)
       THEN /\ BeginFinish(b, reason)
            /\ task' = [task EXCEPT ![b] = IF phone = b[1] THEN "hook" ELSE "done"]
       ELSE /\ task' = [task EXCEPT ![b] = "done"]
            /\ UNCHANGED <<turnVars, finVars>>
    /\ UNCHANGED <<connVars, at, req, hostVars, name, job, reply>>

\* A cancellation that arrives inside the hook ends `_finish_turn` there; an
\* answer being sent may still have left.
HookCancelled(b, left) ==
    /\ task[b] = "cancelling" /\ Finished(b)
    /\ left => fin[b] = "answering" /\ phone = b[1] /\ link[b[1]] = "open"
    /\ task' = [task EXCEPT ![b] = "done"]
    /\ fin' = [fin EXCEPT ![b] = "over"]
    /\ Forget(b)
    /\ reply' = IF left THEN [reply EXCEPT ![b] = Append(@, why[b])] ELSE reply
    /\ UNCHANGED <<connVars, at, req, hostVars, name, why, job>>

\* `_finish_turn` behind `finish_cockpit_turn`: `complete_turn` takes the
\* request out of `_pending`.
Projected(b) ==
    LET current == Tracked(b) /\ phone = b[1] /\ pending[b[1]] = b[2]
    IN
    /\ fin[b] = "projecting" /\ task[b] # "cancelling"
    /\ IF current
       THEN /\ fin' = [fin EXCEPT ![b] = "answering"]
            /\ Complete(b)
            /\ UNCHANGED <<turnVars, task>>
       ELSE /\ fin' = [fin EXCEPT ![b] = "over"]
            /\ Forget(b)
            /\ task' = [task EXCEPT ![b] = IF @ = "hook" THEN "done" ELSE @]
            /\ UNCHANGED <<pending, done, spent>>
    /\ UNCHANGED <<connVars, at, req, asked, name, why, job, reply>>

\* The terminal answer is sent, or the connection is gone.
Answered(b) ==
    /\ fin[b] = "answering" /\ task[b] # "cancelling"
    /\ fin' = [fin EXCEPT ![b] = "over"]
    /\ Forget(b)
    /\ task' = [task EXCEPT ![b] = IF @ = "hook" THEN "done" ELSE @]
    /\ reply' = IF phone = b[1] /\ link[b[1]] = "open"
                THEN [reply EXCEPT ![b] = Append(@, why[b])] ELSE reply
    /\ UNCHANGED <<connVars, at, req, hostVars, name, why, job>>

-----------------------------------------------------------------------------
Peer(s) == Connect(s) \/ LinkCloses(s)

\* The coroutine of the connection, behind an await that has returned.
Resumes(s) ==
    \/ HelloSupersedes(s) \/ Attach(s) \/ Acked(s)
    \/ StartTurn(s) \/ Dispatched(s) \/ UndoReturns(s) \/ Refuse(s)
    \/ \E taken \in BOOLEAN : Dispatch(s, taken)
    \/ CancelReturns(s) \/ DropReturns(s) \/ ConnectionEnds(s)

Frame(s) ==
    \/ Initialize(s) \/ OtherRequest(s) \/ Exhausted(s)
    \/ \E r \in Req, t \in ChosenBy[s] : VoiceTurn(s, r, t)
    \/ Initialized(s) \/ CancelRequest(s)

Dropping(x) == DropNotified(x) \/ DropClosed(x) \/ Cancelled(x)

Gateway(b) ==
    \/ AgentRuns(b) \/ Projected(b) \/ Answered(b)
    \/ \E reason \in StopReasons : Completes(b, reason)
    \/ \E left \in BOOLEAN : HookCancelled(b, left)

Next ==
    \/ \E s \in Sock : Peer(s) \/ Frame(s) \/ Resumes(s) \/ DeadlineExpires(s)
    \/ \E x \in Actor : Dropping(x)
    \/ \E b \in Binding : Gateway(b)
    \/ Disconnect

Spec == Init /\ [][Next]_vars

\* The event loop runs every coroutine that can go on, sends and closing
\* handshakes end, and the gateway ends every run of an agent.  Nothing makes
\* a peer connect or send a frame.  Connections, requests and turns are used
\* once, so no behaviour goes on for ever, and fairness of all these steps
\* together is fairness of each.
FairSpec ==
    /\ Spec
    /\ WF_vars(\/ \E s \in Sock : Resumes(s)
               \/ \E x \in Actor : Dropping(x)
               \/ \E b \in Binding : Gateway(b))

-----------------------------------------------------------------------------
(***************************************************************************)
(* Properties.                                                             *)
(***************************************************************************)

Jobs == [at : {"idle", "notify", "socket", "cancel", "finish"},
         victim : Sock \cup {None}, turn : Binding \cup {None},
         wait : SUBSET Binding, next : {"forget", "finish"}]

\* Types; a drop has a victim, a cancellation a turn, and a processing task in
\* its completion hook a `_finish_turn` that is under way.
TypeOK ==
    /\ up \in BOOLEAN
    /\ phone \in Sock \cup {None}
    /\ link \in [Sock -> {"out", "open", "closed"}]
    /\ at \in [Sock -> {"out", "hello", "supersede", "ack", "loop", "replace",
                        "project", "dispatch", "undo", "refuse", "cancel",
                        "fatal", "leaving", "gone"}]
    /\ req \in [Sock -> Req \cup {None}]
    /\ life \in [Sock -> {"new", "initializing", "initialized", "closed"}]
    /\ watch \in [Sock -> {"off", "armed", "dropping"}]
    /\ pending \in [Sock -> Req \cup {None}]
    /\ asked \subseteq Binding
    /\ done \in [Sock -> SUBSET Req]
    /\ spent \in [Sock -> 0..(MaxRequests + 1)]
    /\ name \in [Binding -> TurnId \cup {None}]
    /\ turns \in [TurnId -> Binding \cup {None}]
    /\ active \in TurnId \cup {None}
    /\ begun \subseteq Binding
    /\ fin \in [Binding -> {"no", "projecting", "answering", "over"}]
    /\ why \in [Binding -> StopReasons]
    /\ task \in [Binding -> {"none", "queued", "running", "cancelling", "hook", "done"}]
    /\ job \in [Actor -> Jobs]
    /\ reply \in [Binding -> Seq(StopReasons \cup {"refused"})]
    /\ \A x \in Actor :
        /\ job[x].at \in {"notify", "socket"} => job[x].victim # None
        /\ job[x].at \in {"cancel", "finish"} => job[x].turn # None
    /\ \A b \in Binding : task[b] = "hook" => fin[b] \in {"projecting", "answering"}

\* A voice request gets at most one terminal answer (complete_turn: "Resolve
\* exactly one still-current request"), whether its turn finishes, is
\* cancelled, is replaced or fails to start.
OneAnswer == \A b \in Binding : Len(reply[b]) <= 1

\* However connections replace each other while turns start, finish and are
\* cancelled: the gateway processes at most one registered turn, a registered
\* turn that has not finished is the active one, and the lane never belongs to a
\* turn that was forgotten.
OneAgentRun == \A b, c \in Alive : Tracked(b) /\ Tracked(c) => b = c

UnfinishedIsActive ==
    /\ \A b \in Binding : Tracked(b) /\ ~Finished(b) => active = name[b]
    /\ active # None => turns[active] # None

OneLane == OneAgentRun /\ UnfinishedIsActive

\* What the tools rely on: they may act for one turn at a time, a new turn gets
\* that right only when the one before has lost it, and a turn that has lost it
\* never gets it back, not even when a turn id is used again.
Wearer == INSTANCE WearerTurns WITH
    Turn <- Binding, active <- Authorized, past <- begun \ {Authorized}

ImplementsTurns == Wearer!TurnsSpec

\* The entry of a turn id is emptied only on behalf of the turn in it: a stale
\* turn never removes a newer one that reuses its id.
ForgetsOnlyItself ==
    [][\A t \in TurnId :
         turns[t] # None /\ turns'[t] = None =>
           LET b == turns[t] IN
           \/ fin'[b] = "over"
           \/ \E x \in Actor : job[x].turn = b /\ job[x].next = "forget"
           \/ at[b[1]] \in {"project", "dispatch"} /\ Mine(b[1]) = b]_vars

\* The coroutine of a closed websocket ends: no drop and no cancellation waits
\* for ever.  (Both states are final.)
ConnectionsEnd == <>[](\A s \in Sock : link[s] = "closed" => at[s] = "gone")

\* No other connection is served or dropped.
Alone(s) ==
    \A u \in Sock \ {s} : at[u] \in {"out", "gone"} /\ job[Watcher(u)].at = "idle"

\* Its start has not returned, or its turn is registered and not cancelled.
Served(b) ==
    \/ Mine(b[1]) = b /\ at[b[1]] \in {"replace", "project", "dispatch", "undo"}
    \/ Tracked(b) /\ task[b] # "cancelling"

\* While no other connection interferes, a voice request that is served and
\* that nobody cancels is resolved: it leaves `_pending`.
RequestsResolve ==
    \A s \in Sock, r \in Req :
        pending[s] = r /\ Served(<<s, r>>) /\ Alone(s) ~>
            pending[s] # r \/ <<s, r>> \in asked \/ ~Alone(s)

(***************************************************************************)
(* What the documents say and the code does not keep.                      *)
(***************************************************************************)

\* A pending request of the current connection has a turn or a starting
\* coroutine that will answer it.
PendingHasOwner ==
    \A s \in Sock :
        phone = s /\ pending[s] # None /\ at[s] = "loop" =>
            Tracked(<<s, pending[s]>>)

\* A turn is answered "cancelled" only if its own request was cancelled.
ExactCancellation ==
    \A b \in Binding : reply[b] = <<"cancelled">> => b \in asked
=============================================================================

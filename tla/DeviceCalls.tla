----------------------------- MODULE DeviceCalls -----------------------------
(***************************************************************************)
(* The calls of the phone's tools: the MCP client of mcp_client.py over    *)
(* the connections of adapter.py, and the workflow handlers of tools.py    *)
(* that turn the end of a call into what the caller is told.               *)
(*                                                                         *)
(* A job is one run of a workflow handler.  It is authorized by the turn   *)
(* it belongs to (or by configuration when it is proactive), waits for the *)
(* phone's initialisation, asks for the tool list, is authorized again,    *)
(* waits for the send lock, is authorized a last time under the lock, and  *)
(* waits for the phone's answer.  Each wait is a state of `pc`: an action  *)
(* is the code between two awaits.  Meanwhile turns end, the phone is      *)
(* dropped and replaced, answers come late, and the caller goes away.      *)
(***************************************************************************)
EXTENDS Naturals, FiniteSets, WearerTurns

CONSTANTS
    Job,        \* runs of workflow handlers
    Conn,       \* websocket connections of phones, each with its own client
    TurnOf,     \* the turn of each job; None for a proactive one
    Durable,    \* jobs whose handler answers a commit_state
    Mutating,   \* jobs whose phone tool changes something
    Says        \* the kinds of answer the phone gives

ASSUME NoneAssumption == None \notin Conn \cup Turn \cup (Conn \X Nat)
ASSUME JobAssumption ==
    /\ TurnOf \in [Job -> Turn \cup {None}]
    /\ Durable \subseteq Mutating /\ Mutating \subseteq Job
    /\ Says \subseteq {"ok", "bad", "error"}

VARIABLES
    phone,      \* _phone: the attached connection
    link,       \* where each connection is
    waitsFor,   \* the connection whose drop a hello waits for
    init,       \* the MCP initialisation task of each connection
    nextId,     \* _next_id of each connection's client
    pending,    \* _pending of all clients: <<connection, id>>
    pc,         \* the await each job is at
    client,     \* the client a job got from _ready_mcp
    req,        \* the request a job waits for
    future,     \* the future of that request
    reply,      \* what the job's caller was told
    handed,     \* jobs whose tools/call frame was given to the websocket
    asked,      \* requests the phone has not answered
    executed    \* jobs whose tool the phone reported as run

connVars == <<phone, link, waitsFor, init>>
clientVars == <<nextId, pending>>
jobVars == <<pc, client, req, future, reply, handed>>
phoneVars == <<asked, executed>>
vars == <<connVars, turnVars, clientVars, jobVars, phoneVars>>

Requests == Conn \X Nat

\* Answers to a request: a result of the pinned shape (the reviewed schema, the
\* exact receipt), another result, a JSON-RPC error.
Answers == {"ok", "bad", "error"}

\* A request on its way to the phone.
Frames == [req : Requests, of : Job, kind : {"list", "call"}]

\* Answers by which a handler says that nothing was done.  A job that only reads
\* says "unavailable" of any failure.  "phone_error" is said of arguments the
\* handler does not take as well as of a result it cannot read.
Refusals == {"not_committed", "permission", "contract_drift", "unavailable"}
Uncertain == {"unknown", "outcome_unknown", "phone_error"}
Replies == Refusals \cup Uncertain \cup {"none", "success", "cancelled"}

\* What a refusal or failure before the call's request is made becomes.
Refused(j, why) == IF j \in Durable THEN "not_committed" ELSE why

\* Mutant: the exception is passed on as it is.
Failed_Unwrapped(j) == Refused(j, "unavailable")

\* What a failure behind it becomes: PhoneToolCallOutcomeUnknown for the tools
\* of _OUTCOME_UNKNOWN_PHONE_TOOLS, "unavailable" for the others.
Failed(j) ==
    IF j \in Durable THEN "unknown"
    ELSE IF j \in Mutating THEN "outcome_unknown" ELSE "unavailable"

\* What a result that is not the expected receipt or projection becomes.
Malformed(j) == IF j \in Durable THEN "unknown" ELSE "phone_error"

Init ==
    /\ phone = None
    /\ link = [c \in Conn |-> "new"]
    /\ waitsFor = [c \in Conn |-> None]
    /\ init = [c \in Conn |-> "none"]
    /\ nextId = [c \in Conn |-> 1]
    /\ pending = {}
    /\ TurnsInit
    /\ pc = [j \in Job |-> "idle"]
    /\ client = [j \in Job |-> None]
    /\ req = [j \in Job |-> None]
    /\ future = [j \in Job |-> "none"]
    /\ reply = [j \in Job |-> "none"]
    /\ handed = {} /\ asked = {} /\ executed = {}

-----------------------------------------------------------------------------
(* Connections. *)

\* The rest of `_attach_phone` sets `_phone` whatever it is by now.
Attached(c) ==
    /\ phone' = c
    /\ init' = [init EXCEPT ![c] = "running"]

\* A hello while no phone is attached.
Hello(c) ==
    /\ link[c] = "new" /\ phone = None
    /\ Attached(c) /\ link' = [link EXCEPT ![c] = "attached"]
    /\ UNCHANGED <<waitsFor, turnVars, clientVars, jobVars, phoneVars>>

\* A hello beside an attached phone drops that one first ...
HelloSupersedes(c) ==
    /\ link[c] = "new" /\ phone # None
    /\ phone' = None
    /\ link' = [link EXCEPT ![c] = "superseding", ![phone] = "dropping"]
    /\ waitsFor' = [waitsFor EXCEPT ![c] = phone]
    /\ UNCHANGED <<init, turnVars, clientVars, jobVars, phoneVars>>

\* ... and attaches when the drop has returned.
Attach(c) ==
    /\ link[c] = "superseding" /\ link[waitsFor[c]] = "closed"
    /\ Attached(c) /\ link' = [link EXCEPT ![c] = "attached"]
    /\ waitsFor' = [waitsFor EXCEPT ![c] = None]
    /\ UNCHANGED <<turnVars, clientVars, jobVars, phoneVars>>

\* The websocket of the attached phone ends; that of a connection that is no
\* longer the phone just ends.
Leave(c) ==
    /\ link[c] = "attached"
    /\ IF phone = c
       THEN phone' = None /\ link' = [link EXCEPT ![c] = "dropping"]
       ELSE phone' = phone /\ link' = [link EXCEPT ![c] = "closed"]
    /\ UNCHANGED <<waitsFor, init, turnVars, clientVars, jobVars, phoneVars>>

\* `_drop_phone` behind its error frame: the init task is cancelled and the client
\* closed, which fails every request in its table.
CloseClient(c) ==
    /\ link[c] = "dropping"
    /\ link' = [link EXCEPT ![c] = "closing"]
    /\ init' = [init EXCEPT ![c] = IF @ = "running" THEN "cancelled" ELSE @]
    /\ future' = [j \in Job |->
                    IF req[j] # None /\ req[j] \in pending /\ req[j][1] = c
                       /\ future[j] = "waiting"
                    THEN "closed" ELSE future[j]]
    /\ pending' = {r \in pending : r[1] # c}
    /\ UNCHANGED <<phone, waitsFor, turnVars, nextId, pc, client, req, reply,
                   handed, phoneVars>>

\* The websocket is closed: `_drop_phone` ends by cancelling the active turn.
DropEnds(c) ==
    /\ link[c] = "closing"
    /\ link' = [link EXCEPT ![c] = "closed"]
    /\ TurnEnds
    /\ UNCHANGED <<phone, waitsFor, init, clientVars, jobVars, phoneVars>>

\* The init task ends: the session is initialized, or a request of it failed.
InitEnds(c, outcome) ==
    /\ init[c] = "running"
    /\ init' = [init EXCEPT ![c] = outcome]
    /\ UNCHANGED <<phone, link, waitsFor, turnVars, clientVars, jobVars, phoneVars>>

-----------------------------------------------------------------------------
(* Turns. *)

BeginTurn(t) ==
    /\ phone # None /\ TurnBegins(t)
    /\ UNCHANGED <<connVars, clientVars, jobVars, phoneVars>>

EndTurn ==
    /\ active # None /\ TurnEnds
    /\ UNCHANGED <<connVars, clientVars, jobVars, phoneVars>>

\* `authorize_active_g2_turn`, `authorize_tool_call` of a proactive call that the
\* configuration allows, and `authorization_is_current`.
Authorized(j) == TurnOf[j] = None \/ active = TurnOf[j]

-----------------------------------------------------------------------------
(* Jobs. *)

\* Mutant: the entry stays in the table.
End_KeepsEntry(j, answer) ==
    /\ pc' = [pc EXCEPT ![j] = "end"]
    /\ reply' = [reply EXCEPT ![j] = answer]
    /\ pending' = pending
    /\ req' = [req EXCEPT ![j] = None]
    /\ future' = [future EXCEPT ![j] = "none"]

\* The handler answers.  `request` takes its entry out of the table.
End(j, answer) ==
    /\ pc' = [pc EXCEPT ![j] = "end"]
    /\ reply' = [reply EXCEPT ![j] = answer]
    /\ pending' = pending \ {req[j]}
    /\ req' = [req EXCEPT ![j] = None]
    /\ future' = [future EXCEPT ![j] = "none"]

Goto(j, place) == pc' = [pc EXCEPT ![j] = place]

\* A new request of j's client; an answered one of j leaves the table.
NewRequest(j) ==
    LET r == <<client'[j], nextId[client'[j]]>>
    IN  /\ req' = [req EXCEPT ![j] = r]
        /\ pending' = (pending \ {req[j]}) \cup {r}
        /\ nextId' = [nextId EXCEPT ![r[1]] = @ + 1]
        /\ future' = [future EXCEPT ![j] = "waiting"]

\* The frame of request r goes to the phone.
Ask(j, r, kind) == asked' = asked \cup {[req |-> r, of |-> j, kind |-> kind]}

\* A handler is only called for a turn that has begun.
Begun(j) == TurnOf[j] \in {None, active} \cup past

\* The arguments are not what the workflow takes; the turn has ended, or the tool
\* is not allowed, be the turn the active one or not; no phone is attached.
StartRefused(j) ==
    /\ pc[j] = "idle" /\ Begun(j)
    /\ \/ \E why \in {"phone_error", "permission"} : End(j, Refused(j, why))
       \/ Authorized(j) /\ phone = None /\ End(j, Refused(j, "unavailable"))
    /\ UNCHANGED <<connVars, turnVars, nextId, client, handed, phoneVars>>

\* `_ready_mcp` waits for the init task of the phone it finds.
Start(j) ==
    /\ pc[j] = "idle" /\ Begun(j) /\ Authorized(j) /\ phone # None
    /\ Goto(j, "ready")
    /\ client' = [client EXCEPT ![j] = phone]
    /\ UNCHANGED <<connVars, turnVars, clientVars, req, future, reply, handed, phoneVars>>

\* The wait ends.  The CancelledError of a cancelled init task goes through.
NotReady(j) ==
    /\ pc[j] = "ready" /\ init[client[j]] # "running"
    /\ \/ init[client[j]] = "cancelled" /\ End(j, "cancelled")
       \/ /\ init[client[j]] = "failed" \/ phone # client[j]
          /\ init[client[j]] # "cancelled"
          /\ End(j, Refused(j, "unavailable"))
    /\ UNCHANGED <<connVars, turnVars, nextId, client, handed, phoneVars>>

\* `tools/list`, always asked again.
ListTools(j) ==
    /\ pc[j] = "ready" /\ init[client[j]] = "initialized" /\ phone = client[j]
    /\ client' = client
    /\ NewRequest(j) /\ Ask(j, req'[j], "list") /\ Goto(j, "list")
    /\ UNCHANGED <<connVars, turnVars, reply, handed, executed>>

\* The phone is not the pinned one, or the list frame cannot be sent.
ListUnsent(j) ==
    /\ pc[j] = "ready" /\ init[client[j]] = "initialized" /\ phone = client[j]
    /\ \/ End(j, Refused(j, "contract_drift")) /\ nextId' = nextId
       \/ /\ End(j, Refused(j, "unavailable"))
          /\ nextId' = [nextId EXCEPT ![phone] = @ + 1]
    /\ UNCHANGED <<connVars, turnVars, client, handed, phoneVars>>

\* What a list without the tool in its pinned shape is taken for.  The health
\* tool, which only reads, is also left out where the wearer allows no access.
Missing(j) == {"contract_drift"} \cup IF j \in Mutating THEN {} ELSE {"permission"}

\* The list fails, has no tool of the pinned shape, or the turn has ended.
ListFails(j) ==
    /\ pc[j] = "list" /\ future[j] # "waiting"
    /\ \/ future[j] \in {"error", "closed"} /\ End(j, Refused(j, "unavailable"))
       \/ future[j] = "bad" /\ \E why \in Missing(j) : End(j, Refused(j, why))
       \/ future[j] = "ok" /\ ~Authorized(j) /\ End(j, Refused(j, "permission"))
       \/ future[j] = "ok" /\ Authorized(j) /\ phone # client[j] /\ End(j, Failed(j))
    /\ UNCHANGED <<connVars, turnVars, nextId, client, handed, phoneVars>>

\* The call is authorized and its request waits for the send lock.
CallTool(j) ==
    /\ pc[j] = "list" /\ future[j] = "ok" /\ Authorized(j) /\ phone = client[j]
    /\ client' = client
    /\ NewRequest(j) /\ Goto(j, "lock")
    /\ UNCHANGED <<connVars, turnVars, reply, handed, phoneVars>>

\* Under the send lock: the phone was replaced or the websocket is closed; the
\* turn has ended.
NotHandedOver(j) ==
    /\ pc[j] = "lock"
    /\ \/ End(j, Failed(j))
       \/ phone = client[j] /\ ~Authorized(j) /\ End(j, Refused(j, "permission"))
    /\ UNCHANGED <<connVars, turnVars, nextId, client, handed, phoneVars>>

\* Mutant: the turn is not looked at again.
HandOver_Unchecked(j) ==
    /\ pc[j] = "lock" /\ phone = client[j]
    /\ handed' = handed \cup {j}
    /\ Ask(j, req[j], "call") /\ Goto(j, "send")
    /\ UNCHANGED <<connVars, turnVars, clientVars, client, req, future, reply,
                   executed>>

HandOver(j) ==
    /\ pc[j] = "lock" /\ phone = client[j] /\ Authorized(j)
    /\ handed' = handed \cup {j}
    /\ Ask(j, req[j], "call") /\ Goto(j, "send")
    /\ UNCHANGED <<connVars, turnVars, clientVars, client, req, future, reply,
                   executed>>

\* `websocket.send` returns, or breaks off behind the frame.
Sent(j) ==
    /\ pc[j] = "send" /\ Goto(j, "call")
    /\ UNCHANGED <<connVars, turnVars, clientVars, client, req, future, reply,
                   handed, phoneVars>>

SendBreaks(j) ==
    /\ pc[j] = "send" /\ End(j, Failed(j))
    /\ UNCHANGED <<connVars, turnVars, nextId, client, handed, phoneVars>>

CallReturns(j) ==
    /\ pc[j] = "call" /\ future[j] # "waiting"
    /\ End(j, IF future[j] = "ok" THEN "success"
              ELSE IF future[j] = "bad" THEN Malformed(j) ELSE Failed(j))
    /\ UNCHANGED <<connVars, turnVars, nextId, client, handed, phoneVars>>

\* Mutant: a call has no timeout of its own.
TimesOut_ListOnly(j) ==
    /\ pc[j] = "list" /\ Goto(j, "expire")
    /\ UNCHANGED <<connVars, turnVars, clientVars, client, req, future, reply,
                   handed, phoneVars>>

\* The timeout fires, perhaps with the answer already in the future.
TimesOut(j) ==
    /\ pc[j] \in {"list", "call"} /\ Goto(j, "expire")
    /\ UNCHANGED <<connVars, turnVars, clientVars, client, req, future, reply,
                   handed, phoneVars>>

\* The caller goes away.  A request whose frame is out is cancelled at the phone
\* before it leaves the table; one that is being sent is not.
CancelCaller(j) ==
    /\ \/ pc[j] \in {"list", "call"} /\ Goto(j, "cancel")
          /\ UNCHANGED <<reply, pending, req, future>>
       \/ pc[j] \in {"ready", "lock", "send"} /\ End(j, "cancelled")
    /\ UNCHANGED <<connVars, turnVars, nextId, client, handed, phoneVars>>

\* `_cancel_request` has sent its notification, given up after a second, or was
\* itself cancelled, which it swallows.
CancelSent(j) ==
    /\ \/ pc[j] = "cancel" /\ End(j, "cancelled")
       \/ pc[j] = "expire" /\ j \in handed /\ End(j, Failed(j))
       \/ pc[j] = "expire" /\ j \notin handed /\ End(j, Refused(j, "unavailable"))
    /\ UNCHANGED <<connVars, turnVars, nextId, client, handed, phoneVars>>

-----------------------------------------------------------------------------
(* The phone. *)

\* Mutant: any websocket's frame goes to the attached phone's client.
Resolves_AnySocket(q, j) ==
    /\ phone # None /\ req[j] = <<phone, q.req[2]>>
    /\ req[j] \in pending /\ future[j] = "waiting"

\* The answer to request q resolves the future j waits for.
Resolves(q, j) ==
    /\ phone = q.req[1]
    /\ q.req \in pending /\ req[j] = q.req /\ future[j] = "waiting"

\* The phone has handled request q and its answer arrives, in any order, late, or
\* never.  `_handle_frame` reads only the websocket of the attached phone, and
\* `handle_message` only a request of the table whose future waits: any other
\* answer is inert.
AnswerArrives(q, what) ==
    /\ q \in asked /\ asked' = asked \ {q}
    /\ executed' = IF q.kind = "call" /\ what = "ok" THEN executed \cup {q.of}
                   ELSE executed
    /\ future' = [j \in Job |->
                    IF Resolves(q, j) THEN what ELSE future[j]]
    /\ UNCHANGED <<connVars, turnVars, clientVars, pc, client, req, reply, handed>>

-----------------------------------------------------------------------------
\* What a started job does of itself, at the latest when its timeout fires.
Proceeds(j) ==
    \/ NotReady(j) \/ ListTools(j) \/ ListUnsent(j)
    \/ ListFails(j) \/ CallTool(j) \/ NotHandedOver(j) \/ HandOver(j)
    \/ Sent(j) \/ SendBreaks(j) \/ CallReturns(j) \/ TimesOut(j) \/ CancelSent(j)

Next ==
    \/ \E c \in Conn :
         \/ Hello(c) \/ HelloSupersedes(c) \/ Attach(c) \/ Leave(c)
         \/ CloseClient(c) \/ DropEnds(c)
         \/ \E outcome \in {"initialized", "failed"} : InitEnds(c, outcome)
    \/ EndTurn \/ \E t \in Turn : BeginTurn(t)
    \/ \E j \in Job : StartRefused(j) \/ Start(j) \/ Proceeds(j) \/ CancelCaller(j)
    \/ \E q \in asked, what \in Says : AnswerArrives(q, what)

Spec == Init /\ [][Next]_vars

\* Timeouts fire, the send lock is released, and the event loop resumes whoever
\* may go on; the phone owes nothing.  No step of an init task or a job repeats,
\* so fairness of all of them together is fairness of each.
FairSpec ==
    /\ Spec
    /\ WF_vars(\/ \E c \in Conn, outcome \in {"initialized", "failed"} :
                   InitEnds(c, outcome)
               \/ \E j \in Job : Proceeds(j))

-----------------------------------------------------------------------------
(***************************************************************************)
(* Properties.                                                             *)
(***************************************************************************)

Working(j) == pc[j] \in {"list", "lock", "send", "call", "expire", "cancel"}

\* Every variable has its type; a job has a client from the wait for the phone on
\* and a request while it waits for one.
TypeOK ==
    /\ phone \in Conn \cup {None}
    /\ link \in [Conn -> {"new", "superseding", "attached", "dropping", "closing", "closed"}]
    /\ waitsFor \in [Conn -> Conn \cup {None}]
    /\ init \in [Conn -> {"none", "running", "initialized", "failed", "cancelled"}]
    /\ nextId \in [Conn -> Nat]
    /\ pending \subseteq Requests
    /\ active \in Turn \cup {None} /\ past \subseteq Turn
    /\ pc \in [Job -> {"idle", "ready", "list", "lock", "send", "call", "expire",
                       "cancel", "end"}]
    /\ client \in [Job -> Conn \cup {None}]
    /\ req \in [Job -> Requests \cup {None}]
    /\ future \in [Job -> Answers \cup {"none", "waiting", "closed"}]
    /\ reply \in [Job -> Replies]
    /\ handed \subseteq Job
    /\ asked \subseteq Frames
    /\ executed \subseteq Job
    /\ \A c \in Conn : link[c] = "superseding" => waitsFor[c] # None
    /\ \A j \in Job :
         /\ pc[j] \notin {"idle", "end"} => client[j] # None
         /\ req[j] # None <=> Working(j)
         /\ future[j] # "none" <=> Working(j)
         /\ reply[j] # "none" <=> pc[j] = "end"

\* A handler that says a change was not made is right: the frame of its call was
\* never given to the websocket.  (`commit_state` rests on the exception type.)
DenialIsTrue ==
    \A j \in Mutating : reply[j] \in Refusals => j \notin handed

\* A job that reports success is one whose own call the phone reported as done:
\* no late answer, and none of another connection with the same id, is taken
\* for it.
SuccessIsTrue == \A j \in Job : reply[j] = "success" => j \in executed

\* What a handler says of its call is so, whatever was cancelled, dropped, timed
\* out or came late.
RepliesAreTrue == DenialIsTrue /\ SuccessIsTrue

\* A client's table holds exactly the requests of jobs that still wait, and the
\* table of a closed client nothing: no timeout or cancellation leaves an entry.
TableIsExact ==
    /\ TypeOK
    /\ \A r \in pending : \E j \in Job : Working(j) /\ req[j] = r
    /\ \A j \in Job : future[j] = "waiting" => req[j] \in pending
    /\ \A i, j \in Job : Working(i) /\ Working(j) /\ req[i] = req[j] => i = j

\* No call of a turn reaches the phone once the turn has ended, however long it
\* waited for the list or the send lock.
NoLateHandover ==
    [][\A j \in handed' \ handed :
          TurnOf[j] # None => TurnOf[j] \notin past']_vars

\* With all its requests, waits and connections a handler keeps the promise: one
\* hand-over, authorized when it is made, and one true answer behind it.
Promise == INSTANCE ToolPromise
ImplementsPromise == Promise!Spec

\* A job that was started answers or is cancelled, although the phone says
\* nothing and connections come and go.
JobsEnd == <>[](\A j \in Job : pc[j] \in {"idle", "end"})
=============================================================================

# Verification of hermes-g2-bridge

TLA+ models of the bridge between Hermes (an agent gateway) and the phone that
drives a pair of G2 glasses, TLC runs that check them on small instances, and
TLAPS proofs of the properties that matter most for every instance. Source
paths below are relative to `src/`.

## 1. The system

One process, one asyncio event loop. A phone connects over a websocket; over it
run two MCP sessions in opposite directions. The phone asks the bridge to run a
*voice turn*; the gateway runs an agent for it; the agent calls workflow tools
in a separate MCP server, which come back over a Unix socket with a signed
capability and end in handlers that write a Kanban board, the reminder outbox,
read the web, or call a tool of the phone.

```
 phone ==websocket== adapter.py ---- gateway (external): agent task per turn
   |  host-mcp ->  host_mcp.py            |
   |  <- mcp       mcp_client.py          v  workflow MCP server (external)
   |                    ^           Unix socket, capability
   |                    |                 v
   '--------------- tools.py  <---- workflow_relay.py
                   |   |   \
    Kanban boards,     |    reminder_scheduler.py -> outbox file -> phone
    ledger             '-- weather_provider.py, public_web.py -> browsers
```

| component | state | operations | what makes it correct | module |
|---|---|---|---|---|
| Kanban operation protocol (`tools.py` 200-1206, 1671-1858) | profile lock (flock), SQLite ledger, board databases, a thread per attempt | create with operation id, retry | at most one card per operation, no false receipt, no card after lost authority | `KanbanLedger` |
| Reminder scheduler (`reminder_scheduler.py`) | `_entries`, outbox file, worker task | schedule, claim, deliver, defer, complete, start, stop | a promised reminder is never lost; one text per operation; bounded | `ReminderOutbox` |
| Adapter: connections and turns (`adapter.py`) | `_phone`, `_turns`, `_event_to_turn`, `_active_turn_id` | hello, replace, drop, start/cancel/finish turn, disconnect | one lane, one answer per request, stale turns harmless | `VoiceTurn` |
| Host Session MCP server (`host_mcp.py`), voice lane | lifecycle, `_pending`, `_completed` | requests, cancel, complete | exactly one terminal answer | `VoiceTurn` |
| Host Cockpit (`host_mcp.py` 1154-1697, `adapter.py` 1112-1392) | session records, pending items, backends, command ids | open, ask, snapshot, command, finish | commands act once, only on what was shown and still waits; no session outlives its turn | `Cockpit` |
| Conversate cues (`host_mcp.py` 995-1124) | pending job, its task | request, cancel, deadline, close | one answer per request, the newest wins | `CueLane` |
| Workflow relay (`workflow_relay.py`) | `_uses`, `_task_turn_destinations` | start, stop, dispatch | one use per attempt, one destination per turn | `WorkflowRelay` |
| Device MCP client (`mcp_client.py`) with tool authority (`adapter.py` 617-655, 1536-1829) and the handlers of phone tools (`tools.py`) | `_pending`, `_next_id` per connection | request, cancel, time out, close | no call of an old turn is sent, late answers inert, `commit_state` truthful | `DeviceCalls` |
| Web readers (`weather_provider.py`, `public_web.py`) and their handlers | reader slots, request quotas, deadlines | read, time out, cancel | slots returned exactly, a stopped read stays silent | `Reads` |
| Device contract (`device_voice_contract.py`), registration, `runtime.py` | none / a weak pointer | pure decoding | - | - |

**What is hard.** Everything on the event loop interleaves at every `await`:
a drop of a phone suspends twice between taking the phone and cancelling its
turn; a completion hook suspends while it tells the Cockpit; a device call waits
for an initialisation, a list of tools, a send lock and an answer, and its
authority may be gone behind each. Turn ids are chosen by the phone and may be
reused; every connection numbers its requests from 1. Kanban attempts and train
reads run in threads that outlive the coroutine that awaits them. The outbox
file may be replaced by a write that is reported as failed. Phones answer late
or old questions, callers retry, capabilities and items expire, the process dies
anywhere. `PROJECT.json` lists each hazard at its line with the properties aimed
at it.

## 2. The modules

| module | extends / composes | runs | proofs |
|---|---|---|---|
| `KanbanPromise` | abstract specification | (as a property) | |
| `KanbanLedger` | refines `KanbanPromise` | Kanban, KanbanNotCommitted | `KanbanLedgerProofs` |
| `ReminderOutbox` | | Reminder, ReminderWorker, ReminderOverflow | `ReminderOutboxProofs` |
| `WearerTurns` | the turns as the tools see them: environment and abstract specification | (as a property) | |
| `VoiceTurn` | adapter with the voice lane of the host session; refines `WearerTurns` | Voice, VoiceOwner, VoiceExact | `VoiceTurnProofs` |
| `RelayPromise` | abstract specification | (as a property) | |
| `WorkflowRelay` | extends `WearerTurns`, refines `RelayPromise` | Relay | `WorkflowRelayProofs` |
| `ToolPromise` | abstract specification | (as a property) | |
| `DeviceCalls` | client, authority, handlers, connections; extends `WearerTurns`, refines `ToolPromise` | DeviceCalls | `DeviceCallsProofs` |
| `HostConnection` | the frame loop and connection that lanes share | | |
| `Cockpit`, `CueLane` | extend `HostConnection` | | |
| `HostSession` | composes `Cockpit` and `CueLane` | HostSession | `HostSessionProofs` |
| `ReadPromise` | abstract specification | (as a property) | |
| `Reads` | extends `WearerTurns`, refines `ReadPromise` | Reads | `ReadsProofs` |

`MC*` modules give the constants of the instances. Definitions with a suffix,
such as `Forget_ById`, are mutants: a definition with a plausible bug, under
which TLC finds the property violated that the definition is there for. The
modules take every set as a CONSTANT with a named assumption, hold one action
per operation (the code between two points at which someone else can act), and
contain no RECURSIVE operator.

## 3. KanbanLedger

`_execute_kanban_task_create` in the worker thread of an attempt. An action is
the code between two points at which another thread, process or the board owner
can intervene. The locals of the thread are the record `job`; `pc` names the
next step.

| TLA+ | code |
|---|---|
| `ledger` | the `operations` table: PREPARED, MUTATING, COMMITTED |
| `lock` | `kanban-operations.lock` |
| `at`, `used`, `rows` | which generation of a board database is at each slug; the cards in each |
| `live`, `cancelled` | the captured turn is still the active one; the `threading.Event` of the caller |
| `reply` | the answer of `_handle_kanban_task_create`; `not_committed` and `denied` both carry `commit_state: not_committed` on the wire |
| `created`, `tooLate` | history, read by properties only |

Boards are archived, created again, restored, cards edited and deleted by their
owner at any moment that SQLite's write lock allows. `Crash` ends every thread
and rolls an open board transaction back; `StorageFault` fails any database
step. Successive `reauthorize` and read calls that give the same answer are
merged.

`CardFollowsIntent` joins the two parts that the proofs treat apart: a card has a
durable MUTATING or COMMITTED row (`IntentPrecedesCard`), and lies on the board
generation that row pinned (`CardOnPinnedBoard`). The second needs `Restorable = {}`: `_open_existing_kanban_board` opens
the file, and the generation check behind it reads the path again rather than
the open descriptor. An archive, a new board, the open, another archive and a
restore of the first board, all in that window, let the check pass while the
card goes to the archived database. This takes five steps of the board's owner
inside microseconds; it is noted here and not listed as a finding.

**Proved** (`KanbanLedgerProofs`), for any number of operations, attempts,
payloads, boards and generations, from the assumption that None is no member of
these sets: types with mutual exclusion of the lock (`TypeCorrect`), `OneCard`,
`IntentFirst`, `CardPlaced`, `TrueReceipts`, `NoLateCard`, `ForwardLedger`, and that the
protocol implements `KanbanPromise` (`Refinement`). The invariant has layers.
`Control` ties the lock to `pc` and the job of the lock's holder to the ledger
row it has read; it is inductive by itself. On top, `Backed` and the single-card
invariant say that an operation with a card has a row that is at least MUTATING,
so that only the attempt that made the row MUTATING may create, and it can do so
once. The claims invariant adds that a tombstone and the task id in the holder's
hands name the created card. `CardPlaced` needs one more: while an attempt is past
the generation check inside its transaction, the board it has opened is the one
its row pins, because nothing is restored and SQLite's write lock keeps the file.
The action property and the refinement use these.

## 4. KanbanPromise

What a caller may rely on: requests come in, a card of an operation is created
at most once, and an answer that claims a card names it. `KanbanLedger` maps
`created` and `job` to it; every other step stutters.

## 5. ReminderOutbox

`mem` is `_entries`, `disk` the file. `_atomic_write` has three outcomes: `ok`,
`failed` (the file is unchanged) and `lost` (the file was replaced, the write
reported as failed because the directory fsync came after `os.replace`); memory
follows only after `ok`. `due` is the order in which `next_attempt_at` passes;
the back-off itself is not modelled. The worker (`run_due_once`, `_run`) claims,
sends, and defers or completes; a call that is given up may still reach the
phone (`PhoneAcceptsLate`), whose own deduplication is external. `Texts` gives each
operation the payloads its callers use: more than one for a caller that edits a
reminder under the same operation id. A refused or conflicting `schedule` changes
nothing, so those two actions stutter. Evicted tombstones are any
of the delivered rows (the code takes the oldest). `StopOrCrash` clears `mem`;
nothing reads it before `Start` loads the file. `WorkerDies` is the end of the
worker by the cancellation of a phone's initialisation (finding 5).

**Fairness.** The worker task runs, a process that can start starts, and time
passes (weak fairness). Writes and phone calls that are tried again and again
succeed at some point: strong fairness of the claim that is written, and, for
reminders the phone has not queued yet, of the claim, the send and the acceptance.
Nothing is assumed of callers, of `Defer` (every attempt may fail), of the outcome of
`Complete`, or of which reminder a tick takes: this order is the code's, and that it
starves nobody is what `EventuallyAcceptedOrStopped` says. A failed delivery goes
behind whatever is due already, because its claim moved `next_attempt_at`; with the
mutant `Claim_NoBackoff`, which leaves that alone, one reminder that fails again and
again keeps the next one from ever being claimed.

The outbox may stop for good, and the property names both ways: the worker has ended
(finding 5; nobody starts it before the next `Start`), or the process is down and
the file holds more tombstones than the next start accepts (finding 2), so that
reminders wait in it for ever. Without these exceptions the claim is
`EventuallyAccepted`, which is violated.

**Proved** (`ReminderOutboxProofs`), for all constants: `TypeCorrect`,
`DurableClaim`, `KeepsPromises`, `ReceiptsAreReal`, `OneTextPerOperation`,
`StaysBounded`. The
invariant is `Typed` (types, a row in force has a text, the operation in hand is
in flight in memory and file) and `Store` (a promised row is in the file or
accepted; a delivered row is accepted; a row in memory is in the file; a text
handed to the phone is the text of the row unless it was evicted). `StaysBounded`
counts rows with the library's facts on cardinalities: the file holds no more
waiting rows than the bound, and memory and file no more rows in all than both
bounds, because completing a row turns a waiting one into a tombstone and only
`schedule`, which evicts first, adds one.

## 6. VoiceTurn

Each action is the code between two awaits of one coroutine. A websocket stands
for its `_Phone` and its host session, too. A binding `<<websocket, request>>`
names a voice call together with its `HostTurnBinding` and `_Turn`; `name` is the
client-chosen turn id, which two bindings may share.

| TLA+ | code |
|---|---|
| `at[s]` | where the coroutine `_handle_connection` of s is suspended |
| `job[x]` | a `_drop_phone` / `_cancel_active_turn` in progress, by its caller: the connection, its deadline task, or `disconnect` |
| `pending`, `done`, `spent` | `_pending`, and `_completed` as voice ids and as a count of all |
| `turns`, `active` | `_turns`, `_active_turn_id` (`_event_to_turn` follows `turns`) |
| `fin`, `why` | the progress of `_finish_turn` and its stop reason |
| `task` | the gateway's processing task of the turn (external) |

The gateway is external and modelled from its use: `handle_message` starts a
task, `cancel_session_processing` cancels all tasks of the session key (every
turn has the same one) and waits for them, a task ends in
`on_processing_complete`, and a `CancelledError` may hit that hook at its own
awaits. Request ids of every method count against the budget; a duplicate id is
refused without a change of state and is no action. Frames are not read ahead of
a closed link. A send that is cancelled under the lock may or may not have left.
A turn whose phone changed during dispatch may leave a gateway task that no
registered turn owns (`_start_turn` cancels only what it still owns): this is why
`OneLane` speaks of registered turns. The accumulation of text by
`send`/`edit_message` and `connect()`'s set-up are not modelled.

**Fairness.** The loop runs every coroutine that can go on; sends, closing
handshakes and agents end. Nothing makes a peer connect or send.
`RequestsResolve` is stated of a request that is served while no other
connection is served or dropped, because of the finding `ExactCancellation`.

**Proved** (`VoiceTurnProofs`): `TypeOK`, `OneAnswer`, `OneLane`,
`ForgetsOnlyItself` and `ImplementsTurns`, for any number of connections and
requests and whichever turn ids the phones choose; section 12 has the argument.

### WearerTurns

The relay, the device calls and the readers do not see connections, coroutines
or gateway tasks. They ask the adapter whether one turn may act now
(`authorize_active_g2_turn`, `authorization_is_current`: `_active_turn_id` names a
registered turn of that generation that has not finished), and rest on two facts
about the answers: at most one turn may act at a time, and a turn that could act
and no longer can never will again. `WearerTurns` is this and no more: `active`, the
turn that may act, and `past`, those that could. `WorkflowRelay`, `DeviceCalls` and
`Reads` extend it, so that their theorems are about every behaviour of its turns.
`VoiceTurn` implements it: `Authorized` is the turn the adapter admits, and the
history `begun` keeps which bindings were registered, with
`Wearer == INSTANCE WearerTurns WITH Turn <- Binding, active <- Authorized, past <- begun \ {Authorized}`.
`ImplementsTurns` is hard where a turn ends: finishing, cancelling, dropping and
failing to start are four coroutines which may all work on one turn, and a next
turn may be registered under the same id before the last of them is through.
`DeviceCalls` adds that a turn begins only while a phone is attached
(`_start_turn` compares `_phone` in the same step, `adapter.py` 963).

## 7. WorkflowRelay

One request per connection: verified, claimed, bound to a destination,
dispatched; at every await it may be overtaken by another call, by a new turn,
by expiry or by the loss of its caller. `Purged` is the eviction that precedes
every claim. The capability's signature and its own expiry check
(`verify_mcp_capability`) are external, as is the handler. `stop` waits for the
connections of the server (as `wait_closed` does since Python 3.12). The policy
of `authorize_workflow_capability` is a constant of the capability, because it
depends only on the turn's text and the capability's arguments.

`RelayPromise` is the relay with an unlimited memory: it knows every use that was
ever claimed and every call that was ever dispatched. There a claim is the first
of its subcall and behind one of the subcall before, or the next attempt at the
same payload; a call is dispatched once, and a task-board call only for the
active turn and to no other destination than those before it. `WorkflowRelay` keeps
this promise although its table is bounded and purged, its fence holds one turn,
and both are lost when it stops. The promise says where it ends: a capability
that expires between its verification and its claim begins anew (section 11,
observations).

**Proved** (`WorkflowRelayProofs`), for all constants: see section 12.

## 8. DeviceCalls

A job is one run of a workflow handler that calls a tool of the phone; `pc` is the
await it is at: the initialisation of the phone (`ready`), `tools/list` (`list`),
the send lock (`lock`), `websocket.send` (`send`), the answer (`call`), and the
cancellation notice behind a timeout (`expire`) or a cancelled caller (`cancel`).

| TLA+ | code |
|---|---|
| `phone`, `link`, `waitsFor` | `_phone`, and how far each connection's `_drop_phone` is |
| `init` | `mcp_init_task` of each connection |
| `pending`, `nextId` | `McpClient._pending` and `_next_id` of every connection's client |
| `future`, `req` | the future of the request a job waits for |
| `handed` | the `tools/call` frame was given to the websocket (or may have been) |
| `asked`, `executed` | the phone: frames it may still answer, calls it reported as done |
| `reply` | the class of what the handler tells its caller |

A call is turned down before anything is asked of the phone when the arguments are
not the workflow's (`phone_error`, whatever the turn does), when the turn has ended
or the tool is not in `tool_call_allowlist` (`permission`, the latter also in an
active turn), or when no phone is attached; behind the initialisation, when the phone
is not the pinned one or its list lacks the tool in its pinned shape
(`contract_drift`, and `permission` for the health tool, which is left out where
the wearer gave no access). A durable handler says `not_committed` of all of these.

The kinds of job are `Durable` (the handler says `commit_state`), `Mutating` (in
`_OUTCOME_UNKNOWN_PHONE_TOOLS`) and the others, which only read. The phone may
answer any request with a result of the pinned shape, another result, or an
error, late, in any order or never. A JSON-RPC error ends a call as a closed
client does, so the run uses `ok` and `bad`. `Table`, the list of tools, is asked
for anew by every call (`force_refresh`); the cache in front of it serves only
`list_glasses_tools` and is not modelled.

**Fairness.** Timeouts fire and locks are released; the phone owes nothing, and
nobody has to cancel anything. No step of a job repeats, so weak fairness of
their disjunction is fairness of each.

`ToolPromise` is the same without connections, requests, timeouts and locks: a call
is handed to the phone at most once, while its turn may act and before its handler
answers; the phone may do it at any later time or never; and the one answer is
true: `success` of what the phone reported done; `not_committed`, `permission` and
`contract_drift` only of what was not handed over, and from a handler that changes
something `unavailable` too; and from a durable handler always a `commit_state`.
It ties neither `permission` to the end of the turn nor `phone_error` to a call that
was handed over, because the code gives both for other reasons as well (above).
`ImplementsPromise` says that `DeviceCalls` keeps it.

**Proved** (`DeviceCallsProofs`), for all constants: `TrueReplies`,
`TablesAreExact`, `HandoversAreTimely`, `KeepsPromise`. The invariant `Honest`
adds to types and table that ids only grow (`Fresh`), that a frame on its way
with the request of a job is that job's (`Answered`: this is what the reuse of ids
over connections would break), and that what is not handed over has not been
(`Told`). The refinement needs one more, `Given`: what is on its way to the phone as
a call was handed over, so that an execution is one of a call that was, and a
handler runs only for a turn that has begun. Every step but a hand-over, an answer
of the phone, an answer of a handler and a turn's begin or end then stutters.

## 9. Cockpit, CueLane and HostSession

A *session* of the Cockpit is named by the generation of its turn; an *ask* is a
question or an approval of the gateway, an *item* one projection of it with a
nonce of its own. The phone answers with what any snapshot has ever shown it.

| TLA+ | code |
|---|---|
| `state`, `pending`, `backends` | `_cockpit_sessions`: document state, pending items, `record.backends` |
| `seen` | the items the phone has read in a snapshot |
| `gateway`, `answer` | the gateway's queue entry of an ask, and what the phone answered |
| `commands`, `receipt`, `effects` | `_cockpit_commands`; histories of receipts and effects |
| `start`, `fin` | where `_start_turn` and `_finish_turn` of a turn are suspended |
| `before`, `taken` | the drop of the previous phone that may still take a turn (finding 4) |
| `frame` | the request whose handler is suspended in the frame loop |

A command is handled without an await from its validation to its bookkeeping
except for the dispatch, which does not let another frame in; the model makes it
one action with three outcomes: accepted, rejected, or raised before or behind
its effect. An item leaves the memory only when a snapshot is read behind its
expiry. Which items fit a snapshot is a question of bytes; the model keeps the
oldest `MaxShown`, as the code drops the newest first. Duplicate command ids are
answered from memory and are no action.

`CueLane` is a request, its job beside the frame loop, its deadline, cancellation
and supersession. The provider may ignore a cancellation and answer late.
`HostSession` composes both over one connection, one frame loop and one `close`.

**Fairness.** The loop resumes suspended coroutines, agents end, deadlines fire, and
a dropped session is closed. Commands, asks, snapshots and cue requests are free.

**Proved** (`HostSessionProofs`), for any number of turns, sessions, asks, items,
commands and cue requests: `OneAnswerPerCue`, `OpenSessionsAreActive`,
`SessionsAreConsistent`, `ReceiptsAreTrue`, `AnswersFitItems` and
`KnownItemsStayVisible`. The run opens one session at a time; the theorems cover
several. One exception is stated by the properties themselves: a turn taken by the
drop of the phone before (finding 4) leaves its session and its items as they
are, so its items may stand beside those of the next turn.

## 10. Reads

Weather reads are tasks of the handler's loop, train reads threads of the
executor. `pc` is the await of the handler, `run` the place of the operation:
waiting for a slot, browsing, closing the browser, done. Both semaphores are
bounded: an extra release would raise. A weather handler waits for the operation
that it cancelled (`_cancel_task`, also when cancelled again); a train handler
sets the event of its thread and leaves. The browser itself is one quota of
requests that the route guard lets through; its teardown is one step, behind which
the slot is returned. That step does not always end the browser: `_close_safely`
gives a close up that fails or takes longer than its timeout (669-678), and a
cancellation at the `gather` in front of the closes skips them (770-782). `left` are
the reads that leave a browser behind so; nothing ends it later.

**Fairness.** Deadlines pass, the loop and the executor go on.

`ReadPromise` has neither semaphore nor deadline, task nor thread. A browser is
`open` while its read is at work, and `over` or `left` behind it. No more than `Limit`
reads of a reader are at work at a time, a browser sends at most `Quota` requests and
none once its read is over or its handler has answered, a weather handler answers
only when its read is over, and a result is told only while the turn that asked is
active. The bound is one on reads, not on browsers: what is left behind is outside
it, and the promise says so, because `read_weather`'s docstring (823-824, "tears down
the ephemeral browser before propagating cancellation") is not what the code ensures.
The browser of a read is mapped from `run` and `left` (`Browser`).
`ImplementsPromise` holds although a train's thread may open its browser behind the
answer of its handler, because it then sends nothing.

**Proved** (`ReadsProofs`): `SlotsAreExact`, `EndedReadsAreQuiet` and `KeepsPromise`, for
every number of reads, any limit and any quota. The invariant `Led` says how far a
handler may be ahead of its operation and that only a read that is over leaves a
browser behind; the slot invariant counts the operations that hold a slot, which is
what bounds the reads at work; `Fed` says that a successful outcome is one of a
browser that was open, and that a handler runs only for a turn that has begun.

## 11. Runs

| run | instance | distinct states | shows |
|---|---|---|---|
| Kanban | 2 attempts, 2 payloads, a default board created twice, fair | 0.49 M | one card where its durable intent says, none after lost authority, forward ledger, refinement, lock released |
| KanbanNotCommitted | 2 attempts | - | finding 1 |
| Reminder | 3 operations, one with 2 texts, room for 2 + 1, 1 per tick, 1 restart, fair | 0.33 M | promises, texts, receipts, bounds, no starvation |
| ReminderOverflow | 2 operations, 1 tombstone | - | finding 2 |
| ReminderWorker | 2 operations, fair | - | finding 5 |
| Voice | 2 connections, 1 voice request each, the same turn id or two, fair | 0.59 M | one answer, one lane, no stale removal, the turns of `WearerTurns`, connections end, requests resolve |
| VoiceOwner | 2 connections | - | finding 3 |
| VoiceExact | 2 connections | - | finding 4 |
| Relay | 3 calls, 4 capabilities of 2 turns, 2 boards, 2 payloads, table of 1 | 3.9 M | one destination, no replay, sequence, bound, refinement |
| DeviceCalls | a durable proactive call and one of a turn, 2 connections, fair | 0.89 M | true replies, exact table, no late handover, refinement, handlers end |
| HostSession | 2 turns, a question and two approvals, 2 command ids, 2 cue requests, fair | 0.97 M | consistent sessions, true receipts, fitting answers, one cue answer, lanes end |
| Reads | 2 weather reads for 1 slot, 1 train read, 2 turns, fair | 0.59 M | exact slots, refinement, handlers answer |

*Bounds.* Two Kanban attempts with two payloads give every conflict and every retry
behind a lost answer; larger numbers are what the proofs are for. Three reminders
compete for two waiting rows and one tombstone: one can be refused or evict, and two
are due at once while a tick takes one, so that a failing one could starve the
other. Two completions leave a file that the next start refuses, but with two
waiting rows nothing waits in it any more: the second exception of
`EventuallyAcceptedOrStopped` is needed from three waiting rows on. TLC reaches it
with `MaxPending = 3` and finds the property true there too (three relative
operations of one text each, 0.77 M states; not a run of its own). One operation is
given a second text and is relative, the others have one text and an instant. Two
connections are a phone and its replacement, with `MaxRequests = 2` (initialize and
one voice turn) so that the budget is exhausted too; turn ids matter only by being
the same, so the first connection uses one. Three relay calls are a bound one, a
stale one of the old turn and one that would profit from a lost fence; one
capability has two subcalls, the first retried with the same and with another
payload. A device call of a turn and one that is proactive meet every classification
of `DeviceCalls` but those of a handler that only reads (a `contract_drift`,
`permission` or `unavailable` of its own) and the transport error, which ends a call
as a closed client does; `KeepsPromise` covers the readers. `HostSession` has one
session slot, so that the second turn must evict, two items of which one fits the
snapshot, and two command ids, so that an answer can be accepted behind an accepted
interrupt, and an ask be answered twice; an id that is sent again is answered from
memory. Its state constraints keep apart what has no state in common and bound the
commands: `TwoCommands` takes the ids in order and gives the second one to the first
session only; `Few` lets the agent ask for one of the two approvals, and `Separate`
asks for cues only in sessions without items and commands, because the lanes share
nothing but the frame loop, which only the start of a turn holds, and the
connection. A constraint cuts off only states in which both have happened; both
liveness properties are of each lane by itself. `Reads` has one slot for two weather
reads, so that one polls, times out and is cancelled twice; its constraint `Bounds`
lets the turns begin in one order, and one of the weather reads pass its deadline or
leave its browser behind. That of `DeviceCalls` names the connection that says hello
first, which the code does not tell from the other, and lets only that one fail to
initialise. Symmetry is used in Relay only, over calls, which the code does not
order, and with no liveness. `CHECK_DEADLOCK FALSE` stands where the system really
stops: attempts, calls, reads, turns and connections are used once, generations run
out, and an unreadable outbox stops the scheduler.

### Findings

1. `KanbanNotCommitted`: an attempt that loses its authority before it may read
   the ledger is answered `not_committed` although an earlier attempt's card
   exists.
2. `ReminderOverflow`: completions add tombstones that nobody evicts; the next
   start refuses the file.
3. `VoiceOwner`: a cancel notification that meets the completion hook in its
   Cockpit notification leaves the request unanswered for ever and blocks the
   lane until the phone reconnects.
4. `VoiceExact`: the drop of an old phone cancels the active turn only behind two
   awaits, when it may be the turn of the next phone.
5. `ReminderWorker`: the drop of a phone that is still initialising cancels the
   task that the reminder worker awaits (`adapter.py` 1527, through a shield that
   protects only the other direction); the worker takes the `CancelledError` for
   its own and ends, and promised reminders wait for the next `connect()`.

### Other observations

Seen while modelling, in the same models, without a run of their own:

- `_attach_phone` assigns `self._phone` behind an awaited drop without looking
  again (`adapter.py` 751): of two hellos that replace one phone, one ends as an
  open, authenticated websocket that nobody serves.
- `authorization_is_current` (`adapter.py` 629) does not compare the turn's
  `owner_phone`: between a drop and the end of the cancellation, a device call of
  the old turn passes and goes to the phone attached meanwhile.
- A workflow call whose phone is dropped while it initialises ends as cancelled
  although nobody cancelled it (the same path as finding 5).
- A request that is cancelled while `websocket.send` is suspended sends no
  `notifications/cancelled` for a frame that may be out, and `_cancel_request`
  swallows a cancellation of its caller (`mcp_client.py` 106).
- After a write that failed behind `os.replace`, an exact retry of an absolute
  reminder past its instant is told `not_committed` (`reminder_scheduler.py` 665)
  although the row is in the file.
- `_claim_use` (`workflow_relay.py` 335) reads the clock after the verification
  and purges the record of the very nonce it is about to check: a replay verified
  just before `expires_at` and claimed just after is dispatched again. `NoReplay`
  therefore speaks of capabilities that have not expired.
- An accepted answer sets the state of a session that is being interrupted back
  to `running` (`host_mcp.py` 1620).
- Items past their expiry count against the bound of pending items until the
  phone reads a snapshot (`host_mcp.py` 1352).
- A cancellation that arrives while `_browser_read`'s `finally` gathers its
  background tasks (`weather_provider.py` 774) skips the closing of page, context
  and browser while the slot is returned, and `_close_safely` (669-678) gives up a
  close that takes too long, other than `read_weather`'s docstring says (823-824).
  `Reads` has both (`left`); more browsers than slots may be running then.

## 12. Proofs

TLAPS proves the theorems below for every value of the constants.

| module | theorems | argument |
|---|---|---|
| `KanbanLedgerProofs` | TypeCorrect, OneCard, IntentFirst, CardPlaced, TrueReceipts, NoLateCard, ForwardLedger, Refinement | section 3 |
| `ReminderOutboxProofs` | TypeCorrect, DurableClaim, KeepsPromises, ReceiptsAreReal, OneTextPerOperation, StaysBounded | section 5 |
| `WorkflowRelayProofs` | TypeCorrect, OneDestinationPerTurn, NothingReplayed, SubcallsInOrder, TableBounded, PromiseImplemented | below |
| `DeviceCallsProofs` | HonestInvariant, TrueReplies, TablesAreExact, HandoversAreTimely, GivenInvariant, KeepsPromise | section 8 |
| `HostSessionProofs` | TypedInvariant, OneAnswerPerCue, OpenSessionsAreActive, SessionsAreConsistent, ReceiptsAreTrue, AnswersFitItems, KnownItemsStayVisible | below |
| `VoiceTurnProofs` | TypedInvariant, TypeCorrect, LaneInvariant, LaneIsSingle, AnswersInvariant, AnswersAreSingle, TurnsForgetThemselves, BegunInvariant, TurnsImplemented | below |
| `ReadsProofs` | TypedInvariant, SlotsAreExact, EndedReadsAreQuiet, KeepsPromise | section 10 |

`WorkflowRelayProofs` assumes the named assumptions of `WorkflowRelay` (None is
no member of the sets, the functions of a capability are typed, both bounds are
positive) and has inductive invariants on top of `Typed`. None of the properties
is inductive by itself, because the table and the fence are cleared:

- `Typed`: types; a call is claimed exactly between "verified" and "claimed"; a
  verified or claimed call is of the active turn or of one that is over; nothing
  is handled while the relay is down.
- `Fenced`: a dispatched task finds its turn and destination in the fence unless
  its turn is over or the relay down. A later dispatch revalidates its turn, which
  is then active and not over, so the fence speaks of that very turn.
- `Kept`: a claim stands in `_uses` unless its capability has expired or is
  `Dead` (no verified call of it, its turn over or the relay down). A claiming
  call is verified, so its capability is not `Dead`, and it must be the next
  attempt at the recorded payload.
- `Recorded`: whatever subcall the table shows was claimed by some call.
- `TableBounded` counts the live capabilities: a claim adds one only behind
  `RoomFor`, and every other step removes some or none.
- `PromiseImplemented` compares the table with all claims ever made. A claim the
  table admits is one the history admits: `Kept` says that no live claim is
  missing from the table, `Recorded` and the invariant `Latest` that the table shows
  nothing that was not claimed, with the attempt of a call that claimed it.
  `Fenced` gives the same for dispatches and destinations.

`HostSessionProofs` assumes the named assumptions of `Cockpit` and `CueLane`; each
invariant needs the ones before it:

- `Typed` adds to the types what decides a cue request (`Cued`): it is pending, or
  its handler has the frame loop, only while it has no answer.
- `Open` joins `OpenIsActive` with `Begun`: a turn that has not started has
  nothing, a failed start discards its session before it forgets the turn, and
  the previous phone's drop takes at most one turn.
- `Paired`: a new item is for the active turn, and by `Open` no other session but a
  taken one has items; so no ask is projected twice.
- `Truth`: in an open session an unused command id has no receipt and no effect,
  and an ask with an answer is answered in the gateway, which answers once.
- `Known`: nonces grow, so a new item comes behind all that were seen, and every
  other step only removes items that come before them.

`VoiceTurnProofs` assumes the named assumptions of `VoiceTurn` (None is no member of
the sets, a phone chooses turn ids, the request budget is positive):

- `Typed` adds to the types what ties the tables together: a starting coroutine has
  its request and turn id, an entry of `_turns` holds a turn of that id, a pending
  request has not used up the last place of `_completed`, and a binding without a
  turn has had nothing.
- `Lane` is `OneLane` with what makes it inductive:
  a starting turn waits until the active one is finished or forgotten and has no
  task left, even when a drop by another coroutine leaves a finishing turn
  registered; so the turn it registers is alone.
- `Answers`: a request has no answer while it is pending, being answered or being
  refused, and it is only one of these at a time. Every way to an
  answer takes it out of `_pending` first.
- `ForgetsOnlyItself` needs `Typed` only: `_forget_turn` compares the turn.
- `TurnsImplemented`: all but two of the actions are `Quiet` (they register no turn,
  forget some, and let registered ones finish), and a quiet step is an end of the
  active turn or none. `StartTurn` is a beginning: by `Lane` no other turn may act
  then, and by the invariant `Begun` its binding never could before. That a turn
  that is over stays over needs no more than that nothing takes `fin` back and that
  a binding is registered once.

Only model-checked: all liveness (`LockEventuallyFree`, `EventuallyAcceptedOrStopped`,
`ConnectionsEnd`, `RequestsResolve`, `JobsEnd`, `LanesEnd`, `ReadsEnd`), which needs
fairness and ENABLED and is beyond this prover. Every safety property and every
refinement of a passing run is proved.
No module uses recursion.

What could be proved next: that `HostSession` implements an abstract promise of the
Cockpit (what was shown, commanded and answered) and of the cue lane, whose parts
are the six theorems above. The outbox has no abstract specification: memory and
file differ between a lost write and the next start, so that an abstract outbox
would need both, and would say no more than `KeepsPromises`, `ReceiptsAreReal` and
`OneTextPerOperation` do.

## 13. Not modelled

`connect()`'s acquisition of ports, locks and services, and the accumulation of
text by `send`/`edit_message`; subscriptions and the shapes of host frames; the
tool cache and the validation of the initialize result of the device client; the
browsers' own objects and the parsing of pages; the device contract (schema
fingerprints and decoding of single values: pure data, no state); plugin
registration and the runtime pointer; logging, wording, TLS and token comparison.

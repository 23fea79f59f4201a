---------------------------- MODULE KanbanLedger ----------------------------
(***************************************************************************)
(* The duplicate-proof Kanban create of tools.py: one call of              *)
(* `g2_kanban_task_create` (an attempt) runs                               *)
(* `_execute_kanban_task_create` in a worker thread.  Attempts of one      *)
(* operation overlap when a caller is cancelled or times out and retries:  *)
(* the thread of the first call goes on.  The flock serialises them; the   *)
(* SQLite ledger row of the operation and the cards in the board databases *)
(* survive a crash, everything else dies with the process.                 *)
(*                                                                         *)
(* A board database is named by its generation (the fingerprint of path,   *)
(* inode, directory and metadata).  Archiving or deleting a board removes  *)
(* the generation from its slug; a recreated board has another generation. *)
(* A card is named by the attempt that created it, since an attempt        *)
(* creates at most one.                                                    *)
(***************************************************************************)
EXTENDS Naturals, FiniteSets

CONSTANTS
    Op,            \* operation identities ("kanban:..." ids of the turn)
    Attempt,       \* calls of the handler, each with its own worker thread
    Payload,       \* digests of (title, body, board input)
    Board,         \* board slugs
    DefaultBoard,  \* the slug Hermes advertises before its file exists
    Gen,           \* generations of board databases
    Restorable,    \* generations that may be put back after an archive
    None           \* "no value"; belongs to none of the sets above

ASSUME NoneAssumption == None \notin Op \cup Attempt \cup Payload \cup Board \cup Gen
ASSUME RestorableAssumption == Restorable \subseteq Gen

VARIABLES
    ledger,     \* the operations table: one row per operation id
    lock,       \* holder of kanban-operations.lock, or None
    at,         \* the generation now at each slug, or None
    used,       \* generations that have been at some slug
    rows,       \* the cards of each board database
    pc,         \* where each attempt is in _execute_kanban_task_create
    job,        \* the local variables of each attempt
    live,       \* attempts whose captured authorization is still the active turn
    cancelled,  \* attempts whose coroutine was cancelled (threading.Event)
    reply,      \* what the handler answered
    created,    \* history: every card ever committed to a board database
    tooLate     \* history: attempts that lost authority before the last check

ledgerVars == <<ledger>>
boardVars == <<at, used, rows>>
turnVars == <<live, cancelled>>
vars == <<ledger, lock, at, used, rows, pc, job, live, cancelled, reply,
          created, tooLate>>

States == {"ABSENT", "PREPARED", "MUTATING", "COMMITTED"}

\* The points of an attempt at which it holds the flock.
Holding == {"open", "read", "resolve", "default", "pin", "insert", "recheck",
            "enter", "board", "opened", "locked", "final", "commit", "post",
            "finalize"}

\* Inside kanban_db.write_txn, before its COMMIT has happened.
InTransaction == {"locked", "final", "commit"}

Kinds == {"none", "acknowledged", "historical", "committed", "not_committed",
          "denied", "unknown", "lost"}

Rows == [state : States, payload : Payload \cup {None},
         board : Board \cup {None}, gen : Gen \cup {None},
         task : Attempt \cup {None}]

Jobs == [op : Op \cup {None}, payload : Payload \cup {None},
         board : Board \cup {None}, gen : Gen \cup {None},
         conn : Gen \cup {None}, task : Attempt \cup {None},
         duty : {"create", "recover"}]

Cards == [op : Op, task : Attempt, status : {"blocked", "changed"}]

NoRow == [state |-> "ABSENT", payload |-> None, board |-> None, gen |-> None,
          task |-> None]

NoJob == [op |-> None, payload |-> None, board |-> None, gen |-> None,
          conn |-> None, task |-> None, duty |-> "recover"]

-----------------------------------------------------------------------------
(***************************************************************************)
(* Helpers.                                                                *)
(***************************************************************************)

Row(a) == ledger[job[a].op]

\* `reauthorize`: not cancelled, same adapter, same turn authorization.
Authorized(a) == a \in live /\ a \notin cancelled

\* `_kanban_board_generation(...).fingerprint == entry.board_generation`.
GenerationHolds(a) == at[Row(a).board] = Row(a).gen

\* The rows the lookup by idempotency key finds in the opened database.
Found(a) == {c \in rows[job[a].conn] : c.op = job[a].op}

\* Mutant: a recovered intent may create as well.
Duty_AlwaysCreate(state) == "create"

\* `may_create`: only the attempt that advances the intent itself may create.
Duty(state) == IF state = "PREPARED" THEN "create" ELSE "recover"

\* `created_now`: the card in hand is this attempt's own.
CreatedNow(a) == job[a].task = a

\* A writer outside the bridge waits while a transaction is open.
WriteLocked(g) == \E a \in Attempt : pc[a] \in InTransaction /\ job[a].conn = g

Goto(a, where) == pc' = [pc EXCEPT ![a] = where]

\* The thread leaves the `with` blocks and the handler turns its outcome into
\* an answer, which a cancelled caller never receives.
Answer(a, kind, task) ==
    /\ pc' = [pc EXCEPT ![a] = "done"]
    /\ reply' = [reply EXCEPT ![a] =
                    IF a \in cancelled THEN [kind |-> "lost", task |-> None]
                                       ELSE [kind |-> kind, task |-> task]]

\* Mutant: the lock is not released on the way out.
Finish_LeaksLock(a, kind, task) == Answer(a, kind, task) /\ UNCHANGED lock

Finish(a, kind, task) == Answer(a, kind, task) /\ lock' = None

\* Mutant: an advanced intent of the other payload counts as nothing done.
ConflictState_Optimistic(state) ==
    IF state = "COMMITTED" THEN "committed" ELSE "not_committed"

\* What an operation_conflict says of the row of the other payload.
ConflictState(state) ==
    CASE state = "PREPARED"  -> "not_committed"
      [] state = "MUTATING"  -> "unknown"
      [] state = "COMMITTED" -> "committed"

\* A failed generation check is only harmless before the intent was advanced.
MismatchState(a) ==
    IF pc[a] = "recheck" /\ Row(a).state = "PREPARED"
    THEN "not_committed" ELSE "unknown"

\* Where a failed reauthorize is reported as an unknown outcome; elsewhere the
\* PermissionError reaches the handler, whose answer is commit_state
\* "not_committed" ("denied" in this model).
Uncertain(a) ==
    \/ pc[a] \in {"locked", "final"}
    \/ pc[a] = "enter" /\ Row(a).state = "MUTATING"

-----------------------------------------------------------------------------
Init ==
    /\ ledger = [o \in Op |-> NoRow]
    /\ lock = None
    /\ at \in [Board -> Gen \cup {None}]
    /\ \A b, c \in Board : at[b] = at[c] /\ at[b] # None => b = c
    /\ used = {at[b] : b \in Board} \ {None}
    /\ rows = [g \in Gen |-> {}]
    /\ pc = [a \in Attempt |-> "idle"]
    /\ job = [a \in Attempt |-> NoJob]
    /\ live = {}
    /\ cancelled = {}
    /\ reply = [a \in Attempt |-> [kind |-> "none", task |-> None]]
    /\ created = {}
    /\ tooLate = {}

\* The handler validated its arguments, captured the turn's authorization and
\* started the thread.
Submit(a, o, p) ==
    /\ pc[a] = "idle"
    /\ Goto(a, "lock")
    /\ job' = [job EXCEPT ![a].op = o, ![a].payload = p]
    /\ live' = live \cup {a}
    /\ UNCHANGED <<ledger, lock, boardVars, cancelled, reply, created, tooLate>>

-----------------------------------------------------------------------------
(***************************************************************************)
(* `_kanban_operation_lock`: poll until held, cancelled or out of time.    *)
(***************************************************************************)
AcquireLock(a) ==
    /\ pc[a] = "lock"
    /\ a \notin cancelled
    /\ lock = None
    /\ lock' = a
    /\ Goto(a, "open")
    /\ UNCHANGED <<ledger, boardVars, job, turnVars, reply, created, tooLate>>

LockTimesOut(a) ==
    /\ pc[a] = "lock"
    /\ a \notin cancelled
    /\ lock # None
    /\ Answer(a, "unknown", None)
    /\ UNCHANGED <<ledger, lock, boardVars, job, turnVars, created, tooLate>>

LockAbandoned(a) ==
    /\ pc[a] = "lock"
    /\ a \in cancelled
    /\ Answer(a, "denied", None)
    /\ UNCHANGED <<ledger, lock, boardVars, job, turnVars, created, tooLate>>

-----------------------------------------------------------------------------
(***************************************************************************)
(* The body under the flock.                                               *)
(***************************************************************************)

\* A reauthorize call that raises, at any of the places that have one.
ReauthorizeFails(a) ==
    /\ pc[a] \in {"open", "read", "resolve", "default", "insert", "enter",
                  "locked", "final"}
    /\ ~Authorized(a)
    /\ Finish(a, IF Uncertain(a) THEN "unknown" ELSE "denied", None)
    /\ UNCHANGED <<ledger, boardVars, job, turnVars, created, tooLate>>

OpenLedger(a) ==
    /\ pc[a] = "open"
    /\ Authorized(a)
    /\ Goto(a, "read")
    /\ UNCHANGED <<ledger, lock, boardVars, job, turnVars, reply, created, tooLate>>

\* The row belongs to another payload.
ReadConflict(a) ==
    /\ pc[a] = "read"
    /\ Authorized(a)
    /\ Row(a).state # "ABSENT"
    /\ Row(a).payload # job[a].payload
    /\ Finish(a, ConflictState(Row(a).state), None)
    /\ UNCHANGED <<ledger, boardVars, job, turnVars, created, tooLate>>

\* The permanent tombstone answers; no board is opened.
ReadTombstone(a) ==
    /\ pc[a] = "read"
    /\ Authorized(a)
    /\ Row(a).state = "COMMITTED"
    /\ Row(a).payload = job[a].payload
    /\ Finish(a, "historical", Row(a).task)
    /\ UNCHANGED <<ledger, boardVars, job, turnVars, created, tooLate>>

ReadIntent(a) ==
    /\ pc[a] = "read"
    /\ Authorized(a)
    /\ Row(a).state \in {"PREPARED", "MUTATING"}
    /\ Row(a).payload = job[a].payload
    /\ Goto(a, "recheck")
    /\ UNCHANGED <<ledger, lock, boardVars, job, turnVars, reply, created, tooLate>>

\* Mutant: a prepared intent is resolved again from the display name.
ReadNothing_ResolvesAgain(a) ==
    /\ pc[a] = "read"
    /\ Authorized(a)
    /\ Row(a).state \in {"ABSENT", "PREPARED"}
    /\ Goto(a, "resolve")
    /\ UNCHANGED <<ledger, lock, boardVars, job, turnVars, reply, created, tooLate>>

ReadNothing(a) ==
    /\ pc[a] = "read"
    /\ Authorized(a)
    /\ Row(a).state = "ABSENT"
    /\ Goto(a, "resolve")
    /\ UNCHANGED <<ledger, lock, boardVars, job, turnVars, reply, created, tooLate>>

\* Display names are the wearer's and change at will: an exact match may be any
\* listed board, and there may be none or several.
ResolveBoard(a, b) ==
    /\ pc[a] = "resolve"
    /\ Authorized(a)
    /\ at[b] # None \/ b = DefaultBoard
    /\ job' = [job EXCEPT ![a].board = b]
    /\ Goto(a, IF at[b] = None THEN "default" ELSE "pin")
    /\ UNCHANGED <<ledger, lock, boardVars, turnVars, reply, created, tooLate>>

BoardNotSelected(a) ==
    /\ pc[a] = "resolve"
    /\ Authorized(a)
    /\ Finish(a, "not_committed", None)
    /\ UNCHANGED <<ledger, boardVars, job, turnVars, created, tooLate>>

\* `_initialize_fresh_default_kanban_board`, whose init_db leaves an existing
\* database as it is.  Once the instance has no generation left, the board made
\* here counts as archived at once.
InitializeDefault(a) ==
    /\ pc[a] = "default"
    /\ Authorized(a)
    /\ IF at[DefaultBoard] # None \/ Gen = used
       THEN UNCHANGED <<at, used>>
       ELSE \E g \in Gen \ used :
              /\ at' = [at EXCEPT ![DefaultBoard] = g]
              /\ used' = used \cup {g}
    /\ Goto(a, "pin")
    /\ UNCHANGED <<ledger, lock, rows, job, turnVars, reply, created, tooLate>>

PinGeneration(a) ==
    /\ pc[a] = "pin"
    /\ at[job[a].board] # None
    /\ job' = [job EXCEPT ![a].gen = at[job[a].board]]
    /\ Goto(a, "insert")
    /\ UNCHANGED <<ledger, lock, boardVars, turnVars, reply, created, tooLate>>

\* The board disappeared before it could be pinned or opened.
BoardGone(a) ==
    /\ \/ pc[a] = "pin" /\ at[job[a].board] = None
       \/ pc[a] = "board" /\ at[Row(a).board] = None
    /\ Finish(a, "unknown", None)
    /\ UNCHANGED <<ledger, boardVars, job, turnVars, created, tooLate>>

InsertIntent(a) ==
    /\ pc[a] = "insert"
    /\ Authorized(a)
    /\ ledger' = [ledger EXCEPT ![job[a].op] =
                    [state |-> "PREPARED", payload |-> job[a].payload,
                     board |-> job[a].board, gen |-> job[a].gen,
                     task |-> None]]
    /\ Goto(a, "recheck")
    /\ UNCHANGED <<lock, boardVars, job, turnVars, reply, created, tooLate>>

\* One of the generation checks of an existing row fails.
GenerationLost(a) ==
    /\ pc[a] \in {"recheck", "opened", "locked", "post"}
    /\ ~GenerationHolds(a)
    /\ Finish(a, MismatchState(a), None)
    /\ UNCHANGED <<ledger, boardVars, job, turnVars, created, tooLate>>

GenerationChecked(a) ==
    /\ \/ pc[a] = "recheck" /\ Goto(a, "enter")
       \/ pc[a] = "opened" /\ ~WriteLocked(job[a].conn) /\ Goto(a, "locked")
       \/ pc[a] = "post" /\ Goto(a, "finalize")
    /\ GenerationHolds(a)
    /\ UNCHANGED <<ledger, lock, boardVars, job, turnVars, reply, created, tooLate>>

\* Mutant: the intent is not advanced before the board is opened.
EnterMutation_NotDurable(a) ==
    /\ pc[a] = "enter"
    /\ Authorized(a)
    /\ job' = [job EXCEPT ![a].duty = Duty(Row(a).state)]
    /\ Goto(a, "board")
    /\ UNCHANGED <<ledger, lock, boardVars, turnVars, reply, created, tooLate>>

\* `_mark_kanban_mutating`: durable before any board is opened.
EnterMutation(a) ==
    /\ pc[a] = "enter"
    /\ Authorized(a)
    /\ job' = [job EXCEPT ![a].duty = Duty(Row(a).state)]
    /\ ledger' = [ledger EXCEPT ![job[a].op].state = "MUTATING"]
    /\ Goto(a, "board")
    /\ UNCHANGED <<lock, boardVars, turnVars, reply, created, tooLate>>

\* `_open_existing_kanban_board`: whatever database is at the path now.
OpenBoard(a) ==
    /\ pc[a] = "board"
    /\ at[Row(a).board] # None
    /\ job' = [job EXCEPT ![a].conn = at[Row(a).board]]
    /\ Goto(a, "opened")
    /\ UNCHANGED <<ledger, lock, boardVars, turnVars, reply, created, tooLate>>

\* No row has the idempotency key and this attempt advanced the intent.
CreateCard(a) ==
    /\ pc[a] = "locked"
    /\ GenerationHolds(a)
    /\ Authorized(a)
    /\ Found(a) = {}
    /\ job[a].duty = "create"
    /\ job' = [job EXCEPT ![a].task = a]
    /\ Goto(a, "final")
    /\ UNCHANGED <<ledger, lock, boardVars, turnVars, reply, created, tooLate>>

\* Exactly one row has the key, and it is still parked as created.
ReuseCard(a) ==
    /\ pc[a] = "locked"
    /\ GenerationHolds(a)
    /\ Authorized(a)
    /\ \E c \in Found(a) :
         /\ Found(a) = {c}
         /\ c.status = "blocked"
         /\ job' = [job EXCEPT ![a].task = c.task]
    /\ Goto(a, "final")
    /\ UNCHANGED <<ledger, lock, boardVars, turnVars, reply, created, tooLate>>

\* No row and no right to create, several rows, or a row that was changed.
CardUnprovable(a) ==
    /\ pc[a] = "locked"
    /\ GenerationHolds(a)
    /\ Authorized(a)
    /\ Found(a) = {} => job[a].duty = "recover"
    /\ \A c \in Found(a) : Found(a) = {c} => c.status = "changed"
    /\ Finish(a, "unknown", None)
    /\ UNCHANGED <<ledger, boardVars, job, turnVars, created, tooLate>>

\* Mutant: authority is not checked again before COMMIT.
FinalCheck_Unchecked(a) ==
    /\ pc[a] = "final"
    /\ Goto(a, "commit")
    /\ UNCHANGED <<ledger, lock, boardVars, job, turnVars, reply, created, tooLate>>

\* The last reauthorize inside the transaction; COMMIT is a separate step.
FinalCheck(a) ==
    /\ pc[a] = "final"
    /\ Authorized(a)
    /\ Goto(a, "commit")
    /\ UNCHANGED <<ledger, lock, boardVars, job, turnVars, reply, created, tooLate>>

CommitBoard(a) ==
    /\ pc[a] = "commit"
    /\ IF CreatedNow(a)
       THEN /\ rows' = [rows EXCEPT ![job[a].conn] = @ \cup
                          {[op |-> job[a].op, task |-> a, status |-> "blocked"]}]
            /\ created' = created \cup
                          {[op |-> job[a].op, task |-> a, gen |-> job[a].conn]}
       ELSE UNCHANGED <<rows, created>>
    /\ Goto(a, "post")
    /\ UNCHANGED <<ledger, lock, at, used, job, turnVars, reply, tooLate>>

\* `_finalize_kanban_ledger` and the receipt.
Finalize(a) ==
    /\ pc[a] = "finalize"
    /\ Row(a).state = "MUTATING"
    /\ ledger' = [ledger EXCEPT ![job[a].op].state = "COMMITTED",
                                ![job[a].op].task = job[a].task]
    /\ Finish(a, IF CreatedNow(a) THEN "acknowledged" ELSE "historical",
              job[a].task)
    /\ UNCHANGED <<boardVars, job, turnVars, created, tooLate>>

\* Any file, SQLite or Hermes call under the flock may raise; an open
\* transaction is rolled back.
StorageFault(a) ==
    /\ pc[a] \in Holding
    /\ Finish(a, MismatchState(a), None)
    /\ UNCHANGED <<ledger, boardVars, job, turnVars, created, tooLate>>

-----------------------------------------------------------------------------
(***************************************************************************)
(* The turn, the process and the wearer's own board tools.                 *)
(***************************************************************************)

\* Attempts that have not yet passed the last in-transaction check.
Revocable == {a \in Attempt :
                pc[a] \in {"lock"} \cup (Holding \ {"commit", "post", "finalize"})}

\* The active turn ends, is replaced, or the adapter goes away.
RevokeTurn ==
    /\ live # {}
    /\ live' = {}
    /\ tooLate' = tooLate \cup (Revocable \cap live)
    /\ UNCHANGED <<ledger, lock, boardVars, pc, job, cancelled, reply, created>>

\* The awaiting coroutine is cancelled; its thread keeps running.
CancelCaller(a) ==
    /\ pc[a] \notin {"idle", "done"}
    /\ a \notin cancelled
    /\ cancelled' = cancelled \cup {a}
    /\ tooLate' = tooLate \cup (Revocable \cap {a})
    /\ UNCHANGED <<ledger, lock, boardVars, pc, job, live, reply, created>>

\* The gateway dies.  The kernel drops the flock, SQLite rolls back.
Crash ==
    /\ \E a \in Attempt : pc[a] \notin {"idle", "done"}
    /\ pc' = [a \in Attempt |-> IF pc[a] = "idle" THEN "idle" ELSE "done"]
    /\ reply' = [a \in Attempt |->
                   IF pc[a] \in {"idle", "done"} THEN reply[a]
                   ELSE [kind |-> "lost", task |-> None]]
    /\ lock' = None
    /\ live' = {}
    /\ UNCHANGED <<ledger, boardVars, job, cancelled, created, tooLate>>

\* A board is archived or deleted.
RetireBoard(b) ==
    /\ at[b] # None
    /\ at' = [at EXCEPT ![b] = None]
    /\ UNCHANGED <<ledger, lock, used, rows, pc, job, turnVars, reply, created, tooLate>>

\* A board is made at a free slug, or an archived one is put back.
ActivateBoard(b, g) ==
    /\ at[b] = None
    /\ \A c \in Board : at[c] # g
    /\ g \in used => g \in Restorable
    /\ at' = [at EXCEPT ![b] = g]
    /\ used' = used \cup {g}
    /\ UNCHANGED <<ledger, lock, rows, pc, job, turnVars, reply, created, tooLate>>

\* A card is assigned, moved or edited: it is no longer parked as created.
EditCard(g, c) ==
    /\ c \in rows[g] /\ c.status = "blocked"
    /\ ~WriteLocked(g)
    /\ rows' = [rows EXCEPT ![g] = (@ \ {c}) \cup {[c EXCEPT !.status = "changed"]}]
    /\ UNCHANGED <<ledger, lock, at, used, pc, job, turnVars, reply, created, tooLate>>

\* A card is hard-deleted.
DeleteCard(g, c) ==
    /\ c \in rows[g]
    /\ ~WriteLocked(g)
    /\ rows' = [rows EXCEPT ![g] = @ \ {c}]
    /\ UNCHANGED <<ledger, lock, at, used, pc, job, turnVars, reply, created, tooLate>>

-----------------------------------------------------------------------------
\* The steps of an attempt's own thread, faults left out.
Thread(a) ==
    \/ AcquireLock(a) \/ LockTimesOut(a) \/ LockAbandoned(a)
    \/ ReauthorizeFails(a) \/ OpenLedger(a)
    \/ ReadConflict(a) \/ ReadTombstone(a) \/ ReadIntent(a) \/ ReadNothing(a)
    \/ \E b \in Board : ResolveBoard(a, b)
    \/ BoardNotSelected(a) \/ InitializeDefault(a)
    \/ PinGeneration(a) \/ BoardGone(a) \/ InsertIntent(a)
    \/ GenerationLost(a) \/ GenerationChecked(a)
    \/ EnterMutation(a) \/ OpenBoard(a)
    \/ CreateCard(a) \/ ReuseCard(a) \/ CardUnprovable(a)
    \/ FinalCheck(a) \/ CommitBoard(a) \/ Finalize(a)

Environment ==
    \/ RevokeTurn \/ Crash
    \/ \E a \in Attempt : CancelCaller(a) \/ StorageFault(a)
    \/ \E b \in Board : RetireBoard(b) \/ \E g \in Gen : ActivateBoard(b, g)
    \/ \E g \in Gen : \E c \in rows[g] : EditCard(g, c) \/ DeleteCard(g, c)

Next ==
    \/ \E a \in Attempt : Thread(a)
    \/ \E a \in Attempt, o \in Op, p \in Payload : Submit(a, o, p)
    \/ Environment

Spec == Init /\ [][Next]_vars

\* Every wait of the thread is bounded (lock poll deadline, SQLite busy
\* timeouts), so a thread that has a step eventually takes it.
FairSpec == Spec /\ \A a \in Attempt : WF_vars(Thread(a))

-----------------------------------------------------------------------------
(***************************************************************************)
(* Properties.                                                             *)
(***************************************************************************)

\* Every variable has its type; `lock` is held exactly by the attempt that is
\* past `_kanban_operation_lock` and has not left its `with` block.
TypeOK ==
    /\ ledger \in [Op -> Rows]
    /\ lock \in Attempt \cup {None}
    /\ at \in [Board -> Gen \cup {None}]
    /\ used \in SUBSET Gen
    /\ rows \in [Gen -> SUBSET Cards]
    /\ pc \in [Attempt -> {"idle", "lock", "done"} \cup Holding]
    /\ job \in [Attempt -> Jobs]
    /\ live \in SUBSET Attempt
    /\ cancelled \in SUBSET Attempt
    /\ reply \in [Attempt -> [kind : Kinds, task : Attempt \cup {None}]]
    /\ created \in SUBSET [op : Op, task : Attempt, gen : Gen]
    /\ tooLate \in SUBSET Attempt
    /\ \A a \in Attempt : pc[a] \in Holding <=> lock = a

\* An operation never has two cards, whatever overlaps, crashes, is cancelled,
\* archived, recreated or deleted (`_execute_kanban_task_create`).
AtMostOneCard ==
    \A c, d \in created : c.op = d.op => c = d

\* A receipt, now or from the tombstone, names the card that was really
\* committed for that operation, and an operation_conflict that says
\* "committed" is true (`_committed_kanban_receipt`).
ClaimsAreTrue ==
    \A a \in Attempt :
        /\ reply[a].kind \in {"acknowledged", "historical"} =>
             \E c \in created : c.op = job[a].op /\ c.task = reply[a].task
        /\ reply[a].kind = "committed" => \E c \in created : c.op = job[a].op

\* An attempt that lost its turn or its caller before the last check inside the
\* board transaction never leaves a card behind.
NoCardAfterLostAuthority == \A c \in created : c.task \notin tooLate

\* The two databases are written in the order that survives a crash: a card in
\* a board database always has an advanced ledger row, so no retry can create.
IntentPrecedesCard ==
    \A c \in created : ledger[c.op].state \in {"MUTATING", "COMMITTED"}

\* A card is only ever written to the board generation its intent pinned, if no
\* archived board is put back (see the README for what a restore can do).
CardOnPinnedBoard ==
    Restorable = {} => \A c \in created : c.gen = ledger[c.op].gen

\* The two together: a card is where its durable intent says, or nowhere.
CardFollowsIntent == IntentPrecedesCard /\ CardOnPinnedBoard

\* A ledger row only moves forward, keeps the payload and the board it pinned
\* (a display name is never resolved again), and a tombstone is permanent.
Rank(state) ==
    CASE state = "ABSENT" -> 0 [] state = "PREPARED" -> 1
      [] state = "MUTATING" -> 2 [] state = "COMMITTED" -> 3

LedgerForward ==
    [][\A o \in Op :
         /\ Rank(ledger[o].state) <= Rank(ledger'[o].state)
         /\ ledger[o].state # "ABSENT" =>
              /\ ledger'[o].payload = ledger[o].payload
              /\ ledger'[o].board = ledger[o].board
              /\ ledger'[o].gen = ledger[o].gen
         /\ ledger[o].state = "COMMITTED" => ledger'[o] = ledger[o]]_vars

\* No attempt keeps the profile's only operation lock for ever, so an operation
\* of another turn always gets its chance.
LockEventuallyFree == []<>(lock = None)

\* What the handler's own comment asks of every answer: "not_committed" is
\* never said while a card of the operation exists.  Both the typed errors and
\* the PermissionError answer carry commit_state "not_committed".
NotCommittedIsTrue ==
    [][\A a \in Attempt :
         (/\ reply[a].kind = "none"
          /\ reply'[a].kind \in {"not_committed", "denied"})
         => \A c \in created : c.op # job[a].op]_vars

\* The promise this protocol implements: see KanbanPromise.
CardOf(o) ==
    IF \E c \in created : c.op = o
    THEN (CHOOSE c \in created : c.op = o).task ELSE None

Promise == INSTANCE KanbanPromise WITH
    request <- [a \in Attempt |-> job[a].op],
    card <- [o \in Op |-> CardOf(o)],
    answer <- reply

ImplementsPromise == Promise!Spec
=============================================================================

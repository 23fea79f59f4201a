--------------------------- MODULE ReminderOutbox ---------------------------
(***************************************************************************)
(* The reminder outbox of reminder_scheduler.py: `schedule` commits a      *)
(* one-shot reminder, a worker of the adapter hands each due one to the    *)
(* phone and replaces it by a tombstone when the phone's receipt arrives.  *)
(*                                                                         *)
(* Every change is a whole-file atomic write.  The file may be replaced    *)
(* although the write is reported as failed (the directory fsync follows   *)
(* os.replace), and memory follows the file only when the write is         *)
(* confirmed: `mem` and `disk` may differ.  The process dies at any point, *)
(* the worker awaits the phone, and the phone may have taken what the      *)
(* worker believes was lost.                                               *)
(***************************************************************************)
EXTENDS Naturals, Sequences, FiniteSets

CONSTANTS
    Op,             \* operation identities of reminders
    Texts,          \* the payload digests of (schedule, text) callers give each
    Relative,       \* operations with a relative schedule ("in 10m")
    MaxPending,     \* MAX_PENDING_REMINDERS
    MaxTombstones,  \* MAX_TOMBSTONES
    MaxDuePerTick,  \* MAX_DUE_PER_TICK
    MaxRestarts,    \* bound of the model on stops and crashes
    None            \* no operation, no text

Text == UNION {Texts[o] : o \in Op}

ASSUME NoneAssumption == None \notin Op \cup Text
ASSUME RelativeAssumption == Relative \subseteq Op
ASSUME BoundsAssumption ==
    /\ MaxPending \in Nat \ {0}
    /\ MaxTombstones \in Nat \ {0}
    /\ MaxDuePerTick \in Nat \ {0}
    /\ MaxRestarts \in Nat

VARIABLES
    mem,       \* _entries: the row of each operation in memory
    disk,      \* the rows in outbox-v1.json
    due,       \* operations whose next_attempt_at has passed, in that order
    expired,   \* operations whose absolute instant has passed
    worker,    \* where the worker task is
    batch,     \* what is left of the operations found due at tick start
    cur,       \* the operation being delivered
    call,      \* its phone call: "none", "sent" or "accepted"
    accepted,  \* operations the phone has durably queued (its own dedup)
    handed,    \* history: every <<operation, text>> sent to the phone
    evicted,   \* history: operations whose tombstone was dropped
    promised,  \* history: the text a caller was told is scheduled
    restarts   \* number of stops and crashes so far

storeVars == <<mem, disk>>
timeVars == <<due, expired>>
callVars == <<cur, call, accepted, handed>>
workVars == <<worker, batch>>
clientVars == <<evicted, promised>>
vars == <<mem, disk, due, expired, worker, batch, cur, call, accepted,
          handed, evicted, promised, restarts>>

Absent == [state |-> "absent", text |-> None]
Entries == [state : {"absent", "pending", "in_flight", "delivered"},
            text : Text \cup {None}]

\* How a write to the file ends: confirmed, failed before os.replace, or
\* failed after it.
WriteOutcomes == {"ok", "before", "after"}

-----------------------------------------------------------------------------
Waiting(rows) == {o \in Op : rows[o].state \in {"pending", "in_flight"}}
Tombstones(rows) == {o \in Op : rows[o].state = "delivered"}

\* What `_read_store` accepts; anything else is ReminderStoreCorrupt.
Readable(rows) ==
    /\ Cardinality(Waiting(rows)) <= MaxPending
    /\ Cardinality(Tombstones(rows)) <= MaxTombstones

\* Mutant: memory follows whatever the file did.
Commit_MemoryFirst(rows, w) ==
    /\ mem' = rows
    /\ disk' = IF w = "before" THEN disk ELSE rows

\* `_commit`.
Commit(rows, w) ==
    /\ mem' = IF w = "ok" THEN rows ELSE mem
    /\ disk' = IF w = "before" THEN disk ELSE rows

\* Mutant: one reminder too many.
Full_OffByOne(rows) == Cardinality(Waiting(rows)) > MaxPending

Full(rows) == Cardinality(Waiting(rows)) >= MaxPending

\* The sets of tombstones `schedule` may drop to leave MaxTombstones - 1.  The
\* code takes the oldest by completed_at; times may tie, the model leaves the
\* order open.
Evictions(rows) ==
    IF Cardinality(Tombstones(rows)) < MaxTombstones THEN {{}}
    ELSE {S \in SUBSET Tombstones(rows) :
            Cardinality(Tombstones(rows) \ S) = MaxTombstones - 1}

\* The requested instant must lie in the future.
TooLate(o) == o \in expired /\ o \notin Relative

\* `due` holds an operation at most once.
Without(s, o) ==
    IF \A i \in 1..Len(s) : s[i] # o THEN s
    ELSE LET i == CHOOSE i \in 1..Len(s) : s[i] = o
         IN  SubSeq(s, 1, i - 1) \o SubSeq(s, i + 1, Len(s))

-----------------------------------------------------------------------------
Init ==
    /\ mem = [o \in Op |-> Absent]
    /\ disk = [o \in Op |-> Absent]
    /\ due = <<>>
    /\ expired = {}
    /\ worker = "down"
    /\ batch = <<>>
    /\ cur = None
    /\ call = "none"
    /\ accepted = {}
    /\ handed = {}
    /\ evicted = {}
    /\ promised = [o \in Op |-> None]
    /\ restarts = 0

-----------------------------------------------------------------------------
(***************************************************************************)
(* schedule(): synchronous, under the state lock.                          *)
(***************************************************************************)
Running == worker # "down"

\* The operation is known with the same payload: the answer is historical.
ScheduleKnown(o, p) ==
    /\ Running
    /\ mem[o].state # "absent"
    /\ mem[o].text = p
    /\ promised' = [promised EXCEPT ![o] = p]
    /\ UNCHANGED <<storeVars, timeVars, workVars, callVars, evicted, restarts>>

\* It is known with another payload: ReminderConflict, and nothing changes.
ScheduleConflict(o, p) ==
    /\ Running
    /\ mem[o].state # "absent"
    /\ mem[o].text # p
    /\ UNCHANGED vars

\* The instant has passed, or the outbox is full: commit_state not_committed,
\* and nothing changes.
ScheduleRefused(o) ==
    /\ Running
    /\ mem[o].state = "absent"
    /\ TooLate(o) \/ Full(mem)
    /\ UNCHANGED vars

\* Only a confirmed write is answered "scheduled"; behind another one the caller
\* is told commit_state unknown.
ScheduleNew(o, p, w) ==
    /\ Running
    /\ mem[o].state = "absent"
    /\ ~TooLate(o) /\ ~Full(mem)
    /\ \E S \in Evictions(mem) :
         /\ Commit([x \in Op |->
                      IF x = o THEN [state |-> "pending", text |-> p]
                      ELSE IF x \in S THEN Absent ELSE mem[x]], w)
         /\ evicted' = IF w = "before" THEN evicted ELSE evicted \cup S
    /\ promised' = IF w = "ok" THEN [promised EXCEPT ![o] = p] ELSE promised
    /\ UNCHANGED <<timeVars, workVars, callVars, restarts>>

-----------------------------------------------------------------------------
(***************************************************************************)
(* Time.  next_attempt_at is kept as the order in which it passes.         *)
(***************************************************************************)
\* Of a reminder that does not wait in memory: nobody but `schedule` looks.
InstantPasses(o) ==
    /\ o \notin expired \cup Relative
    /\ Running => mem[o].state \in {"absent", "delivered"}
    /\ expired' = expired \cup {o}
    /\ UNCHANGED <<storeVars, due, workVars, callVars, clientVars, restarts>>

\* `_due_hashes` looks at both states.
Retryable(rows, o) == rows[o].state \in {"pending", "in_flight"}

\* The requested instant of a waiting reminder, or the backoff of its last claim.
Elapse(o) ==
    /\ Running
    /\ Retryable(mem, o)
    /\ \A i \in DOMAIN due : due[i] # o
    /\ due' = Append(due, o)
    /\ expired' = expired \cup ({o} \ Relative)
    /\ UNCHANGED <<storeVars, workVars, callVars, clientVars, restarts>>

-----------------------------------------------------------------------------
(***************************************************************************)
(* The worker: run_due_once.                                               *)
(***************************************************************************)
Scan ==
    /\ worker = "idle"
    /\ due # <<>>
    /\ batch' = SubSeq(due, 1, IF Len(due) < MaxDuePerTick THEN Len(due)
                                                          ELSE MaxDuePerTick)
    /\ worker' = "tick"
    /\ UNCHANGED <<storeVars, timeVars, callVars, clientVars, restarts>>

TickEnds ==
    /\ worker = "tick"
    /\ batch = <<>>
    /\ worker' = "idle"
    /\ UNCHANGED <<storeVars, timeVars, batch, callVars, clientVars, restarts>>

\* Mutant: the claim leaves next_attempt_at alone, the row stays first in line.
Claim_NoBackoff(o, w) ==
    /\ worker = "tick"
    /\ batch # <<>> /\ o = Head(batch)
    /\ Retryable(mem, o)
    /\ batch' = Tail(batch)
    /\ Commit([mem EXCEPT ![o].state = "in_flight"], w)
    /\ IF w = "ok" THEN worker' = "deliver" /\ cur' = o ELSE UNCHANGED <<worker, cur>>
    /\ UNCHANGED <<timeVars, call, accepted, handed, clientVars, restarts>>

\* `_claim`: in_flight and the next backoff are durable before the handoff.  Only
\* the delivery in hand completes a row, so a row of the batch is retryable yet.
Claim(o, w) ==
    /\ worker = "tick"
    /\ batch # <<>> /\ o = Head(batch)
    /\ Retryable(mem, o)
    /\ batch' = Tail(batch)
    /\ Commit([mem EXCEPT ![o].state = "in_flight"], w)
    /\ IF w = "ok"
       THEN worker' = "deliver" /\ cur' = o /\ due' = Without(due, o)
       ELSE UNCHANGED <<worker, cur, due>>
    /\ UNCHANGED <<expired, call, accepted, handed, clientVars, restarts>>

\* `_deliver_scheduled_reminder` sends the frame.
Send ==
    /\ worker = "deliver"
    /\ worker' = "await"
    /\ call' = "sent"
    /\ handed' = handed \cup {<<cur, mem[cur].text>>}
    /\ UNCHANGED <<storeVars, timeVars, batch, cur, accepted, clientVars, restarts>>

\* Mutant: the worker goes on with the call still open.
Defer_KeepsCall(w) ==
    /\ worker \in {"deliver", "await"}
    /\ Commit([mem EXCEPT ![cur].state = "pending"], w)
    /\ worker' = "tick"
    /\ UNCHANGED <<timeVars, batch, cur, call, accepted, handed, clientVars, restarts>>

\* Offline, disabled, timed out, malformed receipt or error: back to pending.
Defer(w) ==
    /\ worker \in {"deliver", "await"}
    /\ Commit([mem EXCEPT ![cur].state = "pending"], w)
    /\ worker' = "tick" /\ cur' = None /\ call' = "none"
    /\ UNCHANGED <<timeVars, batch, accepted, handed, clientVars, restarts>>

\* The delivery waits for the phone's initialisation (`_ready_mcp`); a drop of that
\* phone cancels the init task, and `asyncio.shield` hands the CancelledError to
\* the waiting worker, which takes it for its own: `_run` ends.  Nothing starts it
\* again before the next `start`; `schedule` goes on.
WorkerDies ==
    /\ worker = "deliver"
    /\ worker' = "dead" /\ batch' = <<>> /\ cur' = None
    /\ UNCHANGED <<storeVars, timeVars, call, accepted, handed, clientVars, restarts>>

\* Mutant: the delivered row is removed instead of becoming a tombstone.
Complete_Forgets(w) ==
    /\ worker = "await"
    /\ call = "accepted"
    /\ Commit([mem EXCEPT ![cur] = Absent], w)
    /\ due' = IF w = "ok" THEN Without(due, cur) ELSE due
    /\ worker' = "tick" /\ cur' = None /\ call' = "none"
    /\ UNCHANGED <<expired, batch, accepted, handed, clientVars, restarts>>

\* Mutant: any end of the call counts as a receipt.
Complete_AnyResult(w) ==
    /\ worker = "await"
    /\ Commit([mem EXCEPT ![cur].state = "delivered"], w)
    /\ due' = IF w = "ok" THEN Without(due, cur) ELSE due
    /\ worker' = "tick" /\ cur' = None /\ call' = "none"
    /\ UNCHANGED <<expired, batch, accepted, handed, clientVars, restarts>>

\* The receipt of this very operation.  No tombstone is dropped here.
Complete(w) ==
    /\ worker = "await"
    /\ call = "accepted"
    /\ Commit([mem EXCEPT ![cur].state = "delivered"], w)
    /\ due' = IF w = "ok" THEN Without(due, cur) ELSE due
    /\ worker' = "tick" /\ cur' = None /\ call' = "none"
    /\ UNCHANGED <<expired, batch, accepted, handed, clientVars, restarts>>

-----------------------------------------------------------------------------
(***************************************************************************)
(* The phone: its queue survives and recognises an operation it has.       *)
(***************************************************************************)
PhoneAccepts ==
    /\ call = "sent"
    /\ call' = "accepted"
    /\ accepted' = accepted \cup {cur}
    /\ UNCHANGED <<storeVars, timeVars, workVars, cur, handed, clientVars, restarts>>

\* Of a call whose answer the bridge does not get: it stopped waiting, or it died.
PhoneAcceptsLate(o) ==
    /\ \E p \in Text : <<o, p>> \in handed
    /\ o \notin accepted
    /\ accepted' = accepted \cup {o}
    /\ UNCHANGED <<storeVars, timeVars, workVars, cur, call, handed, clientVars, restarts>>

-----------------------------------------------------------------------------
(***************************************************************************)
(* The adapter's connect and disconnect, and the death of the process.     *)
(***************************************************************************)
Start ==
    /\ worker = "down"
    /\ Readable(disk)
    /\ mem' = disk
    /\ worker' = "idle"
    /\ UNCHANGED <<disk, timeVars, batch, callVars, clientVars, restarts>>

\* `stop` cancels the worker at an await, a crash anywhere: rows keep their
\* state.  Memory is not used again before the next Start reads the file.
StopOrCrash ==
    /\ Running
    /\ restarts < MaxRestarts
    /\ restarts' = restarts + 1
    /\ mem' = [o \in Op |-> Absent]
    /\ worker' = "down" /\ batch' = <<>> /\ due' = <<>>
    /\ cur' = None /\ call' = "none"
    /\ UNCHANGED <<disk, expired, accepted, handed, clientVars>>

-----------------------------------------------------------------------------
Next ==
    \/ \E o \in Op : \E p \in Texts[o] :
         \/ ScheduleKnown(o, p) \/ ScheduleConflict(o, p)
         \/ \E w \in WriteOutcomes : ScheduleNew(o, p, w)
    \/ \E o \in Op : ScheduleRefused(o)
    \/ \E o \in Op : InstantPasses(o) \/ Elapse(o)
    \/ Scan \/ TickEnds \/ Send \/ WorkerDies
    \/ \E o \in Op, w \in WriteOutcomes : Claim(o, w)
    \/ \E w \in WriteOutcomes : Defer(w) \/ Complete(w)
    \/ PhoneAccepts
    \/ \E o \in Op : PhoneAcceptsLate(o)
    \/ Start \/ StopOrCrash

Spec == Init /\ [][Next]_vars

\* The worker task is scheduled, a process that can start starts, and time passes.
\* Strong fairness stands for a disk and a phone that do not fail for ever: a
\* claim that is possible again and again is written at last, also one of a
\* reminder the phone has not queued yet; such a reminder, claimed again and
\* again, is sent at last, and sent again and again is queued.  Nothing is
\* assumed of the callers, of `Defer` (every attempt may fail), of the outcome
\* of `Complete`, or of which reminder the worker takes.
FairSpec ==
    /\ Spec
    /\ WF_vars(Start \/ Scan \/ TickEnds)
    /\ WF_vars(\E w \in WriteOutcomes : Defer(w) \/ Complete(w))
    /\ \A o \in Op : WF_vars(Elapse(o))
    /\ SF_vars(\E o \in Op : Claim(o, "ok"))
    /\ SF_vars(\E o \in Op \ accepted : Claim(o, "ok"))
    /\ SF_vars(cur \notin accepted /\ Send)
    /\ SF_vars(cur \notin accepted /\ PhoneAccepts)

-----------------------------------------------------------------------------
(***************************************************************************)
(* Properties.                                                             *)
(***************************************************************************)

\* Every variable has its type; a delivery is in hand exactly while the worker
\* is between a claim and its outcome.
TypeOK ==
    /\ mem \in [Op -> Entries] /\ disk \in [Op -> Entries]
    /\ due \in Seq(Op) /\ batch \in Seq(Op)
    /\ expired \in SUBSET Op 
    /\ accepted \in SUBSET Op /\ evicted \in SUBSET Op
    /\ worker \in {"down", "idle", "tick", "deliver", "await", "dead"}
    /\ cur \in Op \cup {None}
    /\ call \in {"none", "sent", "accepted"}
    /\ handed \in SUBSET (Op \X Text)
    /\ promised \in [Op -> Text \cup {None}]
    /\ restarts \in 0..MaxRestarts
    /\ cur # None <=> worker \in {"deliver", "await"}
    /\ call # "none" <=> worker = "await"

\* A reminder a caller was told is scheduled is in the file, with its text,
\* until the phone has queued it: no failed write, restart or eviction in
\* between loses it (`schedule`, `_commit`, `_complete`).
PromiseKept ==
    \A o \in Op :
        promised[o] # None =>
            \/ disk[o].state # "absent" /\ disk[o].text = promised[o]
            \/ o \in accepted

\* The phone is only asked while the file already says in_flight, so a process
\* that dies during the call finds the operation again ("We persist
\* ``in_flight`` before handoff").
ClaimBeforeHandoff ==
    worker \in {"deliver", "await"} => disk[cur].state = "in_flight"

\* As long as its tombstone was not dropped, an operation is handed to the
\* phone with one text only, over all retries and restarts, and with none that
\* differs from a text a caller was promised.
OneText ==
    \A h, k \in handed :
        h[1] = k[1] /\ h[1] \notin evicted => h[2] = k[2]

\* A tombstone in the file means the phone really queued the reminder: no
\* outcome but its receipt removes the plaintext row.
TombstoneIsReceipt ==
    \A o \in Op : disk[o].state = "delivered" => o \in accepted

\* The outbox is bounded: never more waiting rows than MaxPending, never more
\* rows than both bounds together, in memory or in the file.
Bounded ==
    \A rows \in {mem, disk} :
        /\ Cardinality(Waiting(rows)) <= MaxPending
        /\ Cardinality(Waiting(rows) \cup Tombstones(rows))
             <= MaxPending + MaxTombstones

\* A promised reminder reaches the phone, whatever is scheduled beside it, once
\* writes, phone and process work often enough.
EventuallyAccepted ==
    \A o \in Op : (promised[o] # None) ~> (o \in accepted)

\* The worker task ended, or the next process cannot read the file.
Stopped == worker = "dead" \/ (worker = "down" /\ ~Readable(disk))

\* The same, unless the outbox has stopped: neither reminders that are before it
\* in the bounded prefix of every tick, nor failed attempts and writes, keep a
\* promised reminder back (`_due_hashes`, `_claim`'s backoff).  Promises and the
\* phone's queue only grow, so it says this of each reminder.
EventuallyAcceptedOrStopped ==
    []<>(Stopped \/ \A o \in Op : promised[o] # None => o \in accepted)

\* What the process writes, the next process can read: `_read_store` refuses
\* more than MaxTombstones delivered rows.
StoreStaysReadable == Readable(disk)
=============================================================================

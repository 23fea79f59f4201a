--------------------------------- MODULE Reads ---------------------------------
(***************************************************************************)
(* The two live readers: weather_provider.py, whose operation is a task of *)
(* the handler's loop, and public_web.py, whose operation is a thread that *)
(* outlives its handler.  Each runs a browser under a bounded semaphore,   *)
(* with a deadline, a request quota and a caller that may go away; the     *)
(* handlers of tools.py authorize the turn before and after.               *)
(*                                                                         *)
(* `pc` is the await a handler is at, `run` the place of its operation.    *)
(***************************************************************************)
EXTENDS Naturals, FiniteSets, WearerTurns

CONSTANTS
    Read,       \* runs of the two handlers
    Weather,    \* those of the weather handler; the others are train reads
    TurnOf,     \* the turn of each read
    Limit,      \* _MAX_CONCURRENT_READS of each reader
    Quota       \* requests one browser may send

ASSUME LimitAssumption == Limit \in Nat \ {0} /\ Quota \in Nat
ASSUME ReadAssumption == IsFiniteSet(Read) /\ Weather \subseteq Read
ASSUME TurnAssumption == TurnOf \in [Read -> Turn] /\ None \notin Turn

VARIABLES
    pc,         \* the await each handler is at
    run,        \* where its operation is
    outcome,    \* what the operation ended with
    leaving,    \* handlers that end as cancelled when their operation is over
    stop,       \* reads whose operation was told to stop
    expired,    \* reads whose deadline has passed
    slots,      \* free slots of each reader
    sent,       \* requests that the route guard has let through
    left,       \* reads over whose browser may still be open
    reply       \* what the agent was told; a cancelled handler tells it nothing

handlerVars == <<pc, leaving, reply>>
runVars == <<run, outcome, slots, sent, left>>
vars == <<turnVars, handlerVars, runVars, stop, expired>>

Readers == {"weather", "train"}
Reader(r) == IF r \in Weather THEN "weather" ELSE "train"

\* Places of an operation that holds a slot.
Holding == {"browse", "close"}

Init ==
    /\ TurnsInit
    /\ pc = [r \in Read |-> "idle"]
    /\ run = [r \in Read |-> "none"]
    /\ outcome = [r \in Read |-> "none"]
    /\ leaving = {} /\ stop = {} /\ expired = {} /\ left = {}
    /\ slots = [k \in Readers |-> Limit]
    /\ sent = [r \in Read |-> 0]
    /\ reply = [r \in Read |-> "none"]

-----------------------------------------------------------------------------
(* Turns, on the gateway's loop. *)

BeginTurn(t) ==
    /\ TurnBegins(t)
    /\ UNCHANGED <<handlerVars, runVars, stop, expired>>

EndTurn ==
    /\ active # None /\ TurnEnds
    /\ UNCHANGED <<handlerVars, runVars, stop, expired>>

Authorized(r) == active = TurnOf[r]

-----------------------------------------------------------------------------
(* Handlers. *)

Answer(r, what) ==
    /\ pc' = [pc EXCEPT ![r] = "end"]
    /\ reply' = [reply EXCEPT ![r] = what]

\* A handler is only called for a turn that has begun.
Called(r) == pc[r] = "idle" /\ TurnOf[r] \in past \cup {active}

\* The fields are wrong; the turn has ended, or the gateway cannot be asked.
Refuse(r) ==
    /\ Called(r)
    /\ Answer(r, "failure")
    /\ UNCHANGED <<turnVars, leaving, runVars, stop, expired>>

\* `read_weather` rejects the place or the date before it creates its operation.
Reject(r) ==
    /\ r \in Weather /\ Called(r) /\ Authorized(r)
    /\ pc' = [pc EXCEPT ![r] = "check"]
    /\ outcome' = [outcome EXCEPT ![r] = "failed"]
    /\ UNCHANGED <<turnVars, leaving, reply, run, slots, sent, left, stop, expired>>

\* The operation task is created, or the thread is queued at the executor.
Start(r) ==
    /\ Called(r) /\ Authorized(r)
    /\ pc' = [pc EXCEPT ![r] = "wait"]
    /\ run' = [run EXCEPT ![r] = "slot"]
    /\ UNCHANGED <<turnVars, leaving, reply, outcome, slots, sent, left, stop, expired>>

\* The operation is over.  A failed train read is answered at once; the end of a
\* weather read and a train's departures wait for the second authorization.
Returns(r) ==
    /\ pc[r] = "wait" /\ run[r] = "done"
    /\ IF r \in Weather \/ outcome[r] = "ok"
       THEN pc' = [pc EXCEPT ![r] = "check"] /\ UNCHANGED <<reply, stop>>
       ELSE Answer(r, "failure") /\ stop' = stop \cup {r}
    /\ UNCHANGED <<turnVars, leaving, runVars, expired>>

\* `_cancel_task` has called cancel() and awaits the operation.
StopsWeather(r) ==
    /\ r \in Weather
    /\ pc' = [pc EXCEPT ![r] = "stop"]
    /\ stop' = stop \cup {r}
    /\ UNCHANGED <<reply, run, outcome>>

Ends(r, how) ==
    /\ run' = [run EXCEPT ![r] = "done"]
    /\ outcome' = [outcome EXCEPT ![r] = how]

\* A thread that has started runs on; one the executor still queues never starts.
Unawaited(r) ==
    \/ UNCHANGED <<run, outcome>>
    \/ run[r] = "slot" /\ Ends(r, "failed")

\* Mutant: the thread's event is not set.
LeavesTrain_Unstopped(r) ==
    /\ r \notin Weather
    /\ Answer(r, "failure") /\ Unawaited(r)
    /\ stop' = stop

\* The handler of a train read does not wait for its thread: it sets the event.
LeavesTrain(r) ==
    /\ r \notin Weather
    /\ Answer(r, "failure") /\ Unawaited(r)
    /\ stop' = stop \cup {r}

TimesOut(r) ==
    /\ pc[r] = "wait" /\ r \in expired
    /\ r \in Weather => run[r] # "done"
    /\ StopsWeather(r) \/ LeavesTrain(r)
    /\ UNCHANGED <<turnVars, leaving, slots, sent, left, expired>>

\* The agent's task is cancelled, at the await of the operation ...
Cancel(r) ==
    /\ pc[r] = "wait"
    /\ \/ StopsWeather(r) /\ leaving' = leaving \cup {r}
       \/ LeavesTrain(r) /\ leaving' = leaving
    /\ UNCHANGED <<turnVars, slots, sent, left, expired>>

\* ... or at that of the second authorization.
CancelCheck(r) ==
    /\ pc[r] = "check" /\ Answer(r, "failure")
    /\ stop' = IF r \in Weather THEN stop ELSE stop \cup {r}
    /\ UNCHANGED <<turnVars, leaving, runVars, expired>>

\* A cancelled or timed-out weather read goes on when its operation is over,
\* whatever that ended with.
Stopped(r) ==
    /\ pc[r] = "stop" /\ run[r] = "done"
    /\ IF r \in leaving THEN Answer(r, "failure") /\ outcome' = outcome
       ELSE /\ pc' = [pc EXCEPT ![r] = "check"] /\ reply' = reply
            /\ outcome' = [outcome EXCEPT ![r] = "failed"]
    /\ UNCHANGED <<turnVars, leaving, run, slots, sent, left, stop, expired>>

\* The same turn must still be active.
Recheck(r) ==
    /\ pc[r] = "check"
    /\ \/ Authorized(r) /\ Answer(r, IF outcome[r] = "ok" THEN "result" ELSE "failure")
          /\ stop' = stop
       \/ Answer(r, "failure")
          /\ stop' = IF r \in Weather THEN stop ELSE stop \cup {r}
    /\ UNCHANGED <<turnVars, leaving, runVars, expired>>

-----------------------------------------------------------------------------
(* Operations. *)

\* A weather read polls until a slot is free; a train's thread tries once.
TakeSlot(r) ==
    /\ run[r] = "slot" /\ slots[Reader(r)] > 0 /\ (r \in Weather => r \notin stop)
    /\ slots' = [slots EXCEPT ![Reader(r)] = @ - 1]
    /\ run' = [run EXCEPT ![r] = "browse"]
    /\ UNCHANGED <<turnVars, handlerVars, outcome, sent, left, stop, expired>>

\* Mutant: the finally releases whatever was acquired.
Busy_Releases(r) ==
    /\ run[r] = "slot" /\ slots[Reader(r)] = 0
    /\ (r \in Weather => r \in expired)
    /\ Ends(r, "failed")
    /\ slots' = [slots EXCEPT ![Reader(r)] = @ + 1]
    /\ UNCHANGED <<turnVars, handlerVars, sent, left, stop, expired>>

Busy(r) ==
    /\ run[r] = "slot" /\ slots[Reader(r)] = 0
    /\ (r \in Weather => r \in expired)
    /\ Ends(r, "failed")
    /\ UNCHANGED <<turnVars, handlerVars, slots, sent, left, stop, expired>>

\* The route handler lets a request through.  That of a train, which its thread also
\* runs while it closes the context, looks at the event and the deadline; that of a
\* weather read at the URL it expects, which is unset outside a navigation.
Request(r) ==
    /\ run[r] \in (IF r \in Weather THEN {"browse"} ELSE Holding) /\ sent[r] < Quota
    /\ r \notin Weather => r \notin stop \cup expired
    /\ sent' = [sent EXCEPT ![r] = @ + 1]
    /\ UNCHANGED <<turnVars, handlerVars, run, outcome, slots, left, stop, expired>>

\* The browser's work is over and its finally closes what was opened.  A train's
\* thread that was told to stop, or has passed its deadline, has no result.
Browsed(r, how) ==
    /\ run[r] = "browse"
    /\ how = "ok" => r \notin stop /\ (r \notin Weather => r \notin expired)
    /\ run' = [run EXCEPT ![r] = "close"]
    /\ outcome' = [outcome EXCEPT ![r] = how]
    /\ UNCHANGED <<turnVars, handlerVars, slots, sent, left, stop, expired>>

\* Mutant: the slot of a stopped read is not returned.
Closed_KeepsSlot(r) ==
    /\ run[r] = "close"
    /\ run' = [run EXCEPT ![r] = "done"]
    /\ slots' = IF r \in stop THEN slots ELSE [slots EXCEPT ![Reader(r)] = @ + 1]
    /\ left' \in {left, left \cup {r}}
    /\ UNCHANGED <<turnVars, handlerVars, outcome, sent, stop, expired>>

\* The finally is over and the slot is returned, whether the browser was closed or
\* not: a close that fails or takes too long is given up, and a cancellation that
\* meets the finally of a weather read skips what it has not done.
Closed(r) ==
    /\ run[r] = "close"
    /\ run' = [run EXCEPT ![r] = "done"]
    /\ slots' = [slots EXCEPT ![Reader(r)] = @ + 1]
    /\ left' \in {left, left \cup {r}}
    /\ UNCHANGED <<turnVars, handlerVars, outcome, sent, stop, expired>>

\* A weather read polls without a slot when the cancellation reaches it.
StopPolling(r) ==
    /\ r \in Weather \cap stop /\ run[r] = "slot"
    /\ Ends(r, "failed")
    /\ UNCHANGED <<turnVars, handlerVars, slots, sent, left, stop, expired>>

\* The monotonic clock passes the read's deadline, which matters to an operation
\* that is not over and to whoever waits for it.
Expire(r) ==
    /\ run[r] \notin {"none", "done"} /\ r \notin expired
    /\ expired' = expired \cup {r}
    /\ UNCHANGED <<turnVars, handlerVars, runVars, stop>>

-----------------------------------------------------------------------------
Handles(r) == Returns(r) \/ TimesOut(r) \/ Stopped(r) \/ Recheck(r)

Operates(r) ==
    \/ TakeSlot(r) \/ Busy(r) \/ Request(r) \/ Closed(r) \/ StopPolling(r)
    \/ Expire(r) \/ \E how \in {"ok", "failed"} : Browsed(r, how)

Next ==
    \/ EndTurn \/ \E t \in Turn : BeginTurn(t)
    \/ \E r \in Read :
         \/ Refuse(r) \/ Reject(r) \/ Start(r) \/ Cancel(r) \/ CancelCheck(r)
         \/ Handles(r) \/ Operates(r)

Spec == Init /\ [][Next]_vars

\* Every await of a handler and of an operation has a timeout, and the loop and
\* the executor resume whoever may go on.  No such step repeats, so fairness of
\* all of them together is fairness of each.
FairSpec == Spec /\ WF_vars(\E r \in Read : Handles(r) \/ Operates(r))

-----------------------------------------------------------------------------
(***************************************************************************)
(* Properties.                                                             *)
(***************************************************************************)

\* Every variable has its type.
TypeOK ==
    /\ active \in Turn \cup {None} /\ past \subseteq Turn
    /\ pc \in [Read -> {"idle", "wait", "stop", "check", "end"}]
    /\ run \in [Read -> {"none", "slot", "browse", "close", "done"}]
    /\ outcome \in [Read -> {"none", "ok", "failed"}]
    /\ leaving \subseteq Weather /\ stop \subseteq Read /\ expired \subseteq Read
    /\ left \subseteq Read
    /\ slots \in [Readers -> Nat]
    /\ sent \in [Read -> 0 .. Quota]
    /\ reply \in [Read -> {"none", "failure", "result"}]

Held(k) == {r \in Read : Reader(r) = k /\ run[r] \in Holding}

\* The free slots of a reader and the operations that hold one make up its limit,
\* whichever of them timed out, were cancelled twice, found the reader busy or have
\* outlived their handler: no slot leaks and none is returned twice (which the
\* bounded semaphore would answer with an exception).
SlotsExact ==
    TypeOK /\ \A k \in Readers : slots[k] + Cardinality(Held(k)) = Limit

\* Once its handler has answered, a weather read has no operation, and a train's
\* thread, which may still run, lets no request out: the browser of a turn that
\* was stopped stays silent.
QuietOnceEnded ==
    [][\A r \in Read : pc[r] = "end" =>
          sent'[r] = sent[r] /\ (r \in Weather => run[r] \in {"none", "done"})]_vars

\* The browser of each read, as the promise sees it.
Browser ==
    [r \in Read |-> IF r \in left THEN "left"
                    ELSE IF run[r] \in Holding THEN "open"
                    ELSE IF run[r] = "done" THEN "over" ELSE "before"]

\* With deadlines, cancelled tasks and threads that nobody can cancel the readers
\* keep the promise: reads at work and requests within their bounds, silence once
\* the handler has answered, and results only for a turn that is still active.  A
\* browser whose close was given up or skipped is outside the bound on reads.
Promise == INSTANCE ReadPromise WITH browser <- Browser
ImplementsPromise == Promise!Spec

\* Every handler that was called answers, and the readers' slots all come back.
ReadsEnd ==
    <>[](/\ \A r \in Read : pc[r] \in {"idle", "end"}
         /\ slots = [k \in Readers |-> Limit])
=============================================================================

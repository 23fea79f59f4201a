----------------------------- MODULE ReadsProofs -----------------------------
(***************************************************************************)
(* Proofs about Reads for any number of reads, slots and requests.         *)
(*                                                                         *)
(* Led says how far a handler can be ahead of its operation: the handler   *)
(* of a weather read waits for it, that of a train read has told the       *)
(* thread to stop; and a browser is left behind by a read that is over.    *)
(* Fed ties what handlers tell to operations and turns;   *)
(* with it and the count of slots, Reads keeps ReadPromise.                *)
(***************************************************************************)
EXTENDS Reads, FiniteSetTheorems, TLAPS

Over(r) == run[r] \in {"none", "done"}

Led ==
    \A r \in Read :
        /\ pc[r] = "idle" => run[r] = "none"
        /\ pc[r] = "check" => Over(r)
        /\ pc[r] = "end" => Over(r) \/ (r \notin Weather /\ r \in stop)
        /\ r \in left => run[r] = "done"

Typed == TypeOK /\ Led

\* Types hold and handlers lead their operations, whatever times out, is
\* cancelled or goes on behind its handler.
THEOREM TypedInvariant == Spec => []Typed
<1> USE LimitAssumption, ReadAssumption, TurnAssumption
      DEF Typed, TypeOK, Led, Over, Readers, Holding
<1>1. Init => Typed
  BY DEF Init, TurnsInit
<1>2. Typed /\ [Next]_vars => Typed'
  <2> SUFFICES ASSUME Typed, [Next]_vars
               PROVE  Typed'
    OBVIOUS
  <2> USE DEF turnVars, handlerVars, runVars, Answer, Ends, Called, Reader
  <2>1. ASSUME EndTurn \/ \E t \in Turn : BeginTurn(t)
        PROVE  Typed'
    BY <2>1 DEF EndTurn, TurnEnds, BeginTurn, TurnBegins
  <2>2. ASSUME NEW r \in Read, Refuse(r) \/ Reject(r) \/ Start(r)
        PROVE  Typed'
    BY <2>2 DEF Refuse, Reject, Start
  <2>3. ASSUME NEW r \in Read, Returns(r)
        PROVE  Typed'
    BY <2>3 DEF Returns
  <2>4. ASSUME NEW r \in Read, Cancel(r) \/ TimesOut(r)
        PROVE  Typed'
    BY <2>4 DEF Cancel, TimesOut, StopsWeather, LeavesTrain, Unawaited
  <2>5. ASSUME NEW r \in Read, CancelCheck(r) \/ Stopped(r) \/ Recheck(r)
        PROVE  Typed'
    BY <2>5 DEF CancelCheck, Stopped, Recheck
  <2>6. ASSUME NEW r \in Read, TakeSlot(r)
        PROVE  Typed'
    BY <2>6 DEF TakeSlot
  <2>7. ASSUME NEW r \in Read, Busy(r) \/ StopPolling(r) \/ Expire(r)
        PROVE  Typed'
    BY <2>7 DEF Busy, StopPolling, Expire
  <2>8. ASSUME NEW r \in Read, Request(r)
        PROVE  Typed'
    BY <2>8 DEF Request
  <2>9. ASSUME NEW r \in Read, NEW how \in {"ok", "failed"}, Browsed(r, how)
        PROVE  Typed'
    BY <2>9 DEF Browsed
  <2>10. ASSUME NEW r \in Read, Closed(r)
         PROVE  Typed'
    BY <2>10 DEF Closed
  <2>11. CASE UNCHANGED vars
    BY <2>11 DEF vars
  <2> QED
    BY <2>1, <2>2, <2>3, <2>4, <2>5, <2>6, <2>7, <2>8, <2>9, <2>10, <2>11
       DEF Next, Handles, Operates
<1> QED BY <1>1, <1>2, PTL DEF Spec

-----------------------------------------------------------------------------
Balanced == \A k \in Readers : slots[k] + Cardinality(Held(k)) = Limit

\* The holders of a slot are finitely many.
LEMMA HeldFinite ==
    ASSUME NEW k
    PROVE  IsFiniteSet(Held(k)) /\ Cardinality(Held(k)) \in Nat
<1>1. Held(k) \subseteq Read
  BY DEF Held
<1> QED BY <1>1, ReadAssumption, FS_Subset, FS_CardinalityType

\* A slot is taken with its place and returned with it, by whatever path.
LEMMA BalancedInvariant == Spec => []Balanced
<1> USE LimitAssumption, ReadAssumption DEF Balanced
<1>1. Init => Balanced
  <2> SUFFICES ASSUME Init, NEW k \in Readers
               PROVE  slots[k] + Cardinality(Held(k)) = Limit
    OBVIOUS
  <2>1. Held(k) = {}
    BY DEF Init, TurnsInit, Held, Holding
  <2> QED BY <2>1, FS_EmptySet DEF Init, TurnsInit
<1>2. Typed /\ Balanced /\ [Next]_vars => Balanced'
  <2> SUFFICES ASSUME Typed, Balanced, [Next]_vars
               PROVE  Balanced'
    OBVIOUS
  <2> USE DEF Typed, TypeOK
  <2>1. ASSUME NEW r \in Read, TakeSlot(r)
        PROVE  Balanced'
    <3> DEFINE k == Reader(r)
    <3>1. /\ slots' = [slots EXCEPT ![k] = @ - 1] /\ k \in Readers
          /\ run[r] = "slot" /\ run' = [run EXCEPT ![r] = "browse"]
      BY <2>1 DEF TakeSlot, Reader, Readers
    <3>2. Held(k)' = Held(k) \cup {r} /\ r \notin Held(k)
      BY <3>1 DEF Held, Holding
    <3>3. \A l \in Readers \ {k} : Held(l)' = Held(l)
      BY <3>1 DEF Held, Holding
    <3>4. Cardinality(Held(k)') = Cardinality(Held(k)) + 1
      BY <3>2, HeldFinite, FS_AddElement
    <3> HIDE DEF k
    <3> QED BY <3>1, <3>3, <3>4, HeldFinite
  <2>2. ASSUME NEW r \in Read, Closed(r)
        PROVE  Balanced'
    <3> DEFINE k == Reader(r)
    <3>1. /\ slots' = [slots EXCEPT ![k] = @ + 1] /\ k \in Readers
          /\ run[r] = "close" /\ run' = [run EXCEPT ![r] = "done"]
      BY <2>2 DEF Closed, Reader, Readers
    <3>2. Held(k)' = Held(k) \ {r} /\ r \in Held(k)
      BY <3>1 DEF Held, Holding
    <3>3. \A l \in Readers \ {k} : Held(l)' = Held(l)
      BY <3>1 DEF Held, Holding
    <3>4. Cardinality(Held(k)') = Cardinality(Held(k)) - 1
      <4> DEFINE H == Held(k)
      <4>1. IsFiniteSet(H) /\ r \in H
        BY HeldFinite, <3>2
      <4> HIDE DEF H
      <4>2. Cardinality(H \ {r}) = Cardinality(H) - 1
        BY <4>1, FS_RemoveElement
      <4> QED BY <4>2, <3>2 DEF H
    <3> HIDE DEF k
    <3> QED BY <3>1, <3>3, <3>4, HeldFinite
  <2>3. ASSUME NEW r \in Read, slots' = slots,
               run' = [run EXCEPT ![r] = run'[r]],
               run[r] \in Holding <=> run'[r] \in Holding
        PROVE  Balanced'
    <3>1. \A k \in Readers : Held(k)' = Held(k)
      BY <2>3 DEF Held
    <3> QED BY <2>3, <3>1
  <2>4. ASSUME slots' = slots, run' = run
        PROVE  Balanced'
    BY <2>4 DEF Held
  <2>5. ASSUME NEW r \in Read,
               \/ Start(r) \/ Cancel(r) \/ TimesOut(r) \/ Busy(r) \/ StopPolling(r)
               \/ \E how \in {"ok", "failed"} : Browsed(r, how)
        PROVE  Balanced'
    <3>1. slots' = slots
      BY <2>5 DEF Start, Cancel, TimesOut, Busy, StopPolling, Browsed, runVars
    <3>2. run' = [run EXCEPT ![r] = run'[r]]
      BY <2>5 DEF Start, Cancel, TimesOut, Busy, StopPolling, Browsed, Ends,
         StopsWeather, LeavesTrain, Unawaited
    <3>3. run[r] \in Holding <=> run'[r] \in Holding
      BY <2>5 DEF Start, Cancel, TimesOut, Busy, StopPolling, Browsed, Ends, Holding,
         StopsWeather, LeavesTrain, Unawaited, Led, Called
    <3> QED BY <3>1, <3>2, <3>3, <2>3
  <2>6. \/ slots' = slots /\ run' = run
        \/ \E r \in Read :
             \/ TakeSlot(r) \/ Closed(r)
             \/ Start(r) \/ Cancel(r) \/ TimesOut(r) \/ Busy(r) \/ StopPolling(r)
             \/ \E how \in {"ok", "failed"} : Browsed(r, how)
    BY DEF Next, Handles, Operates, vars, turnVars, handlerVars, runVars, EndTurn, TurnEnds,
       BeginTurn, TurnBegins, Refuse, Reject, Returns, CancelCheck, Stopped, Recheck, Request,
       Expire
  <2> QED BY <2>1, <2>2, <2>4, <2>5, <2>6
<1> QED BY <1>1, <1>2, TypedInvariant, PTL DEF Spec

\* No path through a read leaks its slot or returns it twice.
THEOREM SlotsAreExact == Spec => []SlotsExact
<1>1. Typed /\ Balanced => SlotsExact
  BY DEF Typed, Balanced, SlotsExact
<1> QED BY <1>1, TypedInvariant, BalancedInvariant, PTL

\* No request of a read is let through behind its handler's answer.
THEOREM EndedReadsAreQuiet == Spec => QuietOnceEnded
<1> DEFINE Quiet == \A r \in Read : pc[r] = "end" =>
              sent'[r] = sent[r] /\ (r \in Weather => run[r] \in {"none", "done"})
<1>1. Typed /\ [Next]_vars => Quiet
  <2> SUFFICES ASSUME Typed, [Next]_vars, NEW r \in Read, pc[r] = "end"
               PROVE  /\ sent'[r] = sent[r]
                      /\ r \in Weather => run[r] \in {"none", "done"}
    OBVIOUS
  <2>1. r \in Weather => run[r] \in {"none", "done"}
    BY DEF Typed, Led, Over
  <2>2. ASSUME NEW s \in Read, Request(s)
        PROVE  sent'[r] = sent[r]
    <3>1. s # r
      BY <2>2 DEF Request, Typed, Led, Over, Holding
    <3> QED BY <2>2, <3>1 DEF Request, Typed, TypeOK
  <2>3. sent' = sent \/ \E s \in Read : Request(s)
    BY DEF Next, Handles, Operates, vars, turnVars, handlerVars, runVars, EndTurn, TurnEnds,
       BeginTurn, TurnBegins, Refuse, Reject, Start, Returns, Cancel, CancelCheck, TimesOut,
       Stopped, Recheck, TakeSlot, Busy, Browsed, Closed, StopPolling, Expire
  <2> QED BY <2>1, <2>2, <2>3
<1>2. Typed /\ [Next]_vars => [Quiet]_vars
  BY <1>1
<1> QED BY <1>2, TypedInvariant, PTL DEF Spec, QuietOnceEnded

-----------------------------------------------------------------------------
(* The refinement. *)

\* A result comes of a browser that was open, and a handler runs only for a turn
\* that has begun and answers once.
Fed ==
    \A r \in Read :
        /\ outcome[r] = "ok" => run[r] \in {"close", "done"}
        /\ pc[r] # "idle" \/ run[r] # "none" => TurnOf[r] \in past \cup {active}
        /\ reply[r] = "none" <=> pc[r] # "end"

\* Results, turns and answers stay with their reads.
THEOREM FedInvariant == Spec => []Fed
<1> USE TurnAssumption DEF Fed
<1>1. Init => Fed
  BY DEF Init
<1>2. Typed /\ Fed /\ [Next]_vars => Fed'
  <2> SUFFICES ASSUME Typed, Fed, [Next]_vars
               PROVE  Fed'
    OBVIOUS
  <2> USE DEF Typed, TypeOK, turnVars, handlerVars, runVars, Answer, Ends, Called
  <2>1. ASSUME EndTurn \/ \E t \in Turn : BeginTurn(t)
        PROVE  Fed'
    BY <2>1 DEF EndTurn, TurnEnds, BeginTurn, TurnBegins
  <2>2. ASSUME NEW r \in Read, Refuse(r) \/ Reject(r) \/ Start(r)
        PROVE  Fed'
    BY <2>2 DEF Refuse, Reject, Start, Led
  <2>3. ASSUME NEW r \in Read, Returns(r)
        PROVE  Fed'
    BY <2>3 DEF Returns
  <2>4. ASSUME NEW r \in Read, Cancel(r) \/ TimesOut(r)
        PROVE  Fed'
    BY <2>4 DEF Cancel, TimesOut, StopsWeather, LeavesTrain, Unawaited
  <2>5. ASSUME NEW r \in Read, CancelCheck(r) \/ Stopped(r) \/ Recheck(r)
        PROVE  Fed'
    BY <2>5 DEF CancelCheck, Stopped, Recheck
  <2>6. ASSUME NEW r \in Read, \/ TakeSlot(r) \/ Busy(r) \/ Request(r) \/ Closed(r)
                              \/ StopPolling(r) \/ Expire(r)
                              \/ \E how \in {"ok", "failed"} : Browsed(r, how)
        PROVE  Fed'
    BY <2>6 DEF TakeSlot, Busy, Request, Closed, StopPolling, Expire, Browsed
  <2>7. CASE UNCHANGED vars
    BY <2>7 DEF vars
  <2> QED
    BY <2>1, <2>2, <2>3, <2>4, <2>5, <2>6, <2>7 DEF Next, Handles, Operates
<1> QED BY <1>1, <1>2, TypedInvariant, PTL DEF Spec

\* The browser of a read follows its operation.
LEMMA BrowserOf ==
    ASSUME Typed
    PROVE  /\ Browser \in [Read -> {"before", "open", "over", "left"}]
           /\ \A r \in Read :
                /\ Browser[r] = "before" <=> run[r] \in {"none", "slot"}
                /\ Browser[r] = "open" <=> run[r] \in Holding
                /\ Browser[r] \in {"over", "left"} <=> run[r] = "done"
<1> QED
  BY DEF Typed, TypeOK, Led, Browser, Holding

\* A step of the operation of r moves no other browser.
LEMMA BrowserMoves ==
    ASSUME Typed, Typed', NEW r \in Read,
           run' = [run EXCEPT ![r] = run'[r]],
           left' \in {left, left \cup {r}}
    PROVE  Browser' = [Browser EXCEPT ![r] = Browser'[r]]
<1>1. \A s \in Read : s # r => run'[s] = run[s] /\ (s \in left' <=> s \in left)
  BY DEF Typed, TypeOK
<1>2. \A s \in Read : s # r => Browser'[s] = Browser[s]
  BY <1>1 DEF Browser
<1>3. Browser' \in [Read -> {"before", "open", "over", "left"}]
  BY DEF Browser
<1>4. Browser \in [Read -> {"before", "open", "over", "left"}]
  BY DEF Browser
<1> QED
  BY <1>2, <1>3, <1>4

\* The end of a handler is an answer of the promise, if what it tells is so.
LEMMA AnswerRefines ==
    ASSUME Typed, Typed', Fed, NEW r \in Read, NEW what \in {"failure", "result"},
           Answer(r, what), pc[r] \notin {"idle", "end"} \/ Called(r),
           r \in Weather => run[r] \notin Holding,
           what = "result" => run[r] = "done" /\ Authorized(r),
           UNCHANGED <<turnVars, sent, left>>,
           \/ run' = run
           \/ run[r] = "slot" /\ run' = [run EXCEPT ![r] = "done"]
    PROVE  Promise!Next
<1>1. /\ reply[r] = "none" /\ reply' = [reply EXCEPT ![r] = what]
      /\ TurnOf[r] \in past \cup {active}
  BY DEF Answer, Called, Fed
<1>2. \/ Browser' = Browser
      \/ Browser[r] = "before" /\ Browser' = [Browser EXCEPT ![r] = "over"]
  <2>1. CASE run' = run
    BY <2>1 DEF Browser
  <2>2. CASE run[r] = "slot" /\ run' = [run EXCEPT ![r] = "done"]
    <3>1. run'[r] = "done" /\ run' = [run EXCEPT ![r] = run'[r]]
      BY <2>2 DEF Typed, TypeOK
    <3>2. Browser[r] = "before" /\ Browser'[r] = "over"
      BY <2>2, <3>1 DEF Browser, Holding, Typed, Led
    <3> QED BY <3>1, <3>2, BrowserMoves
  <2> QED BY <2>1, <2>2
<1>3. Promise!Answers(r, what)
  BY <1>1, BrowserOf DEF Promise!Answers, Authorized
<1>4. Promise!Answer(r, what)
  BY <1>2, <1>3 DEF Promise!Answer, Promise!turnVars, turnVars
<1> QED BY <1>4 DEF Promise!Next

\* The reads at work beside a read are the holders of its reader's slots.
LEMMA BesideHeld ==
    ASSUME Typed, NEW r \in Read
    PROVE  Promise!Beside(r) = Held(Reader(r))
<1>1. \A s \in Read : Browser[s] = "open" <=> run[s] \in Holding
  BY BrowserOf
<1>2. \A s \in Read : Reader(s) = Reader(r) <=> (s \in Weather <=> r \in Weather)
  BY DEF Reader
<1> QED BY <1>1, <1>2 DEF Promise!Beside, Held

\* Every step of Reads is one of the promise or leaves it alone: reads at work and
\* their requests stay within their bounds, a browser is silent behind the end of its
\* read and its answer, and a result is told to the turn that asked, for any number of
\* reads, slots and requests.
THEOREM KeepsPromise == Spec => ImplementsPromise
<1> USE LimitAssumption, ReadAssumption, TurnAssumption
<1>1. Init => Promise!Init
  BY DEF Init, Promise!Init, TurnsInit, Promise!TurnsInit, Browser, Holding
<1>2. Typed /\ Typed' /\ Balanced /\ Fed /\ [Next]_vars => [Promise!Next]_(Promise!vars)
  <2> DEFINE Stays == UNCHANGED <<turnVars, Browser, sent, reply>>
  <2> SUFFICES ASSUME Typed, Typed', Balanced, Fed, [Next]_vars
               PROVE  Promise!Next \/ Stays
    BY DEF Promise!vars, turnVars
  <2> USE DEF handlerVars, runVars
  <2>1. ASSUME EndTurn \/ \E t \in Turn : BeginTurn(t)
        PROVE  Promise!Next
    <3>1. Promise!TurnsNext /\ UNCHANGED <<run, left, sent, reply>>
      BY <2>1 DEF EndTurn, BeginTurn, TurnEnds, TurnBegins,
         Promise!TurnsNext, Promise!TurnEnds, Promise!TurnBegins
    <3> QED BY <3>1 DEF Promise!Next, Promise!Turns, Browser
  <2>2. ASSUME NEW r \in Read, Refuse(r) \/ CancelCheck(r) \/ Recheck(r)
        PROVE  Promise!Next
    <3>1. \/ Answer(r, "failure")
          \/ pc[r] = "check" /\ outcome[r] = "ok" /\ Authorized(r) /\ Answer(r, "result")
      BY <2>2 DEF Refuse, CancelCheck, Recheck
    <3>2. /\ pc[r] = "check" \/ Called(r)
          /\ UNCHANGED <<turnVars, sent, run, left>>
      BY <2>2 DEF Refuse, CancelCheck, Recheck
    <3>3. run[r] \notin Holding /\ (pc[r] = "check" /\ outcome[r] = "ok" => run[r] = "done")
      BY <3>2 DEF Typed, Led, Over, Holding, Fed, Called
    <3> QED BY <3>1, <3>2, <3>3, AnswerRefines
  <2>3. ASSUME NEW r \in Read, Reject(r) \/ Expire(r)
        PROVE  Stays
    BY <2>3 DEF Reject, Expire, Browser
  <2>4. ASSUME NEW r \in Read, Start(r)
        PROVE  Stays
    <3>1. /\ run[r] = "none" /\ run'[r] = "slot" /\ run' = [run EXCEPT ![r] = run'[r]]
          /\ left' = left
      BY <2>4 DEF Start, Called, Typed, TypeOK, Led
    <3>2. Browser'[r] = Browser[r]
      BY <3>1 DEF Browser, Holding
    <3>3. Browser' = Browser
      BY <3>1, <3>2, BrowserMoves, BrowserOf
    <3> QED BY <2>4, <3>3 DEF Start
  <2>5. ASSUME NEW r \in Read, Returns(r)
        PROVE  Promise!Next \/ Stays
    <3>1. \/ Answer(r, "failure")
          \/ reply' = reply
      BY <2>5 DEF Returns
    <3>2. /\ pc[r] = "wait" /\ run[r] = "done"
          /\ UNCHANGED <<turnVars, sent, run, left>>
      BY <2>5 DEF Returns
    <3>3. CASE reply' = reply
      BY <3>2, <3>3 DEF Browser
    <3>4. CASE Answer(r, "failure")
      BY <3>2, <3>4, AnswerRefines DEF Holding
    <3> QED BY <3>1, <3>3, <3>4
  <2>6. ASSUME NEW r \in Read, Cancel(r) \/ TimesOut(r)
        PROVE  Promise!Next \/ Stays
    <3>1. pc[r] = "wait" /\ UNCHANGED <<turnVars, sent, left>>
      BY <2>6 DEF Cancel, TimesOut
    <3>2. CASE StopsWeather(r)
      BY <3>1, <3>2 DEF StopsWeather, Browser
    <3>3. CASE LeavesTrain(r)
      BY <3>1, <3>3, AnswerRefines DEF LeavesTrain, Unawaited, Ends
    <3> QED BY <2>6, <3>2, <3>3 DEF Cancel, TimesOut
  <2>7. ASSUME NEW r \in Read, Stopped(r)
        PROVE  Promise!Next \/ Stays
    <3>1. /\ pc[r] = "stop" /\ run[r] = "done"
          /\ UNCHANGED <<turnVars, sent, run, left>>
          /\ Answer(r, "failure") \/ reply' = reply
      BY <2>7 DEF Stopped
    <3>2. CASE reply' = reply
      BY <3>1, <3>2 DEF Browser
    <3>3. CASE Answer(r, "failure")
      BY <3>1, <3>3, AnswerRefines DEF Holding
    <3> QED BY <3>1, <3>2, <3>3
  <2>8. ASSUME NEW r \in Read, TakeSlot(r)
        PROVE  Promise!Next
    <3>1. /\ run[r] = "slot" /\ run'[r] = "browse" /\ run' = [run EXCEPT ![r] = run'[r]]
          /\ UNCHANGED <<turnVars, sent, reply, left>>
          /\ Reader(r) \in Readers /\ slots[Reader(r)] > 0
      BY <2>8 DEF TakeSlot, Reader, Readers, Typed, TypeOK
    <3>2. Browser[r] = "before" /\ Browser'[r] = "open"
      BY <3>1, BrowserOf DEF Browser, Holding, Typed, Led
    <3>3. Cardinality(Promise!Beside(r)) < Limit
      BY <3>1, BesideHeld, HeldFinite DEF Balanced, Typed, TypeOK
    \* The promise has a Cardinality of its own, with the same definition.
    <3>4. Promise!Cardinality(Promise!Beside(r)) < Limit
      BY <3>3 DEF Promise!Cardinality, Cardinality, Promise!IsFiniteSet, IsFiniteSet
    <3>5. TurnOf[r] \in past \cup {active}
      BY <3>1 DEF Fed
    <3>6. Browser' = [Browser EXCEPT ![r] = "open"]
      BY <3>1, <3>2, BrowserMoves
    <3>7. Promise!Open(r)
      BY <3>1, <3>2, <3>4, <3>5, <3>6 DEF Promise!Open, Promise!turnVars, turnVars
    <3> QED BY <3>7 DEF Promise!Next
  <2>9. ASSUME NEW r \in Read, Request(r)
        PROVE  Promise!Next
    <3>1. /\ run[r] \in Holding /\ sent[r] < Quota /\ (r \notin Weather => r \notin stop)
          /\ sent' = [sent EXCEPT ![r] = @ + 1]
          /\ UNCHANGED <<turnVars, run, left, reply>>
      BY <2>9 DEF Request, Holding
    <3>2. reply[r] = "none"
      BY <3>1 DEF Typed, Led, Over, Fed, Holding
    <3>3. Browser[r] = "open" /\ Browser' = Browser
      BY <3>1, BrowserOf DEF Browser
    <3>4. Promise!Send(r)
      BY <3>1, <3>2, <3>3 DEF Promise!Send, Promise!turnVars, turnVars
    <3> QED BY <3>4 DEF Promise!Next
  <2>10. ASSUME NEW r \in Read, NEW how \in {"ok", "failed"}, Browsed(r, how)
         PROVE  Stays
    <3>1. /\ run[r] = "browse" /\ run'[r] = "close" /\ run' = [run EXCEPT ![r] = run'[r]]
          /\ UNCHANGED <<turnVars, sent, reply, left>>
      BY <2>10 DEF Browsed, Typed, TypeOK
    <3>2. Browser'[r] = Browser[r]
      BY <3>1 DEF Browser, Holding
    <3> QED BY <3>1, <3>2, BrowserMoves, BrowserOf
  <2>11. ASSUME NEW r \in Read, Busy(r) \/ StopPolling(r) \/ Closed(r)
         PROVE  Promise!Next
    <3>1. /\ run[r] # "done" /\ run'[r] = "done" /\ run' = [run EXCEPT ![r] = run'[r]]
          /\ UNCHANGED <<turnVars, sent, reply>>
          /\ left' = left \/ (run[r] \in Holding /\ left' = left \cup {r})
      BY <2>11 DEF Busy, StopPolling, Closed, Ends, Holding, Typed, TypeOK
    <3>2. Browser[r] \in {"before", "open"}
      BY <3>1, BrowserOf
    <3>3. Browser'[r] = "over" \/ (Browser[r] = "open" /\ Browser'[r] = "left")
      BY <3>1, BrowserOf DEF Browser, Holding, Typed, Led
    <3>4. Browser' = [Browser EXCEPT ![r] = Browser'[r]]
      BY <3>1, BrowserMoves
    <3>5. Promise!Close(r)
      BY <3>1, <3>2, <3>3, <3>4 DEF Promise!Close, Promise!turnVars, turnVars
    <3> QED BY <3>5 DEF Promise!Next
  <2>12. CASE UNCHANGED vars
    BY <2>12 DEF vars, Browser
  <2> QED
    BY <2>1, <2>2, <2>3, <2>4, <2>5, <2>6, <2>7, <2>8, <2>9, <2>10, <2>11, <2>12
       DEF Next, Handles, Operates
<1> QED
  BY <1>1, <1>2, TypedInvariant, BalancedInvariant, FedInvariant, PTL
     DEF Spec, ImplementsPromise, Promise!Spec
=============================================================================

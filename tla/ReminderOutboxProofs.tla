------------------------ MODULE ReminderOutboxProofs ------------------------
(***************************************************************************)
(* Proofs about ReminderOutbox for any operations, texts and bounds.       *)
(*                                                                         *)
(* Memory and file may differ after a failed write, so the invariant says  *)
(* of both what a promise, a handoff and a tombstone mean, and that a row  *)
(* waiting in memory is in the file with the same text: what the next      *)
(* write builds from memory then keeps all that the file has to keep.      *)
(***************************************************************************)
EXTENDS ReminderOutbox, SequenceTheorems, FiniteSetTheorems, TLAPS

\* Cutting one place out of a sequence of operations.
LEMMA SpliceType ==
    ASSUME NEW s \in Seq(Op), NEW i \in 1..Len(s)
    PROVE  SubSeq(s, 1, i - 1) \o SubSeq(s, i + 1, Len(s)) \in Seq(Op)
<1>1. Len(s) \in Nat /\ \A k \in 1..Len(s) : s[k] \in Op
  OBVIOUS
<1>2. SubSeq(s, 1, i - 1) \in Seq(Op)
  BY <1>1, SubSeqProperties
<1>3. SubSeq(s, i + 1, Len(s)) \in Seq(Op)
  BY <1>1, SubSeqProperties
<1> QED BY <1>2, <1>3

\* Taking an operation out of the due order leaves a sequence of operations.
LEMMA WithoutType ==
    ASSUME NEW s \in Seq(Op), NEW o
    PROVE  Without(s, o) \in Seq(Op)
<1>1. CASE \A i \in 1..Len(s) : s[i] # o
  BY <1>1 DEF Without
<1>2. CASE ~ \A i \in 1..Len(s) : s[i] # o
  <2>1. (CHOOSE i \in 1..Len(s) : s[i] = o) \in 1..Len(s)
    BY <1>2
  <2> QED BY <1>2, <2>1, SpliceType DEF Without
<1> QED BY <1>1, <1>2

-----------------------------------------------------------------------------
\* A row has a text.
HasText ==
    \A o \in Op :
        /\ mem[o].state # "absent" => mem[o].text \in Text
        /\ disk[o].state # "absent" => disk[o].text \in Text

\* A delivery in hand is claimed, in memory and in the file.
InHand ==
    /\ ClaimBeforeHandoff
    /\ worker \in {"deliver", "await"} => mem[cur].state = "in_flight"

Typed == TypeOK /\ HasText /\ InHand

\* Types hold, and the worker only delivers what it claimed durably.
THEOREM TypedInvariant == Spec => []Typed
<1> USE NoneAssumption, BoundsAssumption
      DEF Typed, TypeOK, HasText, InHand, ClaimBeforeHandoff, Entries
<1>1. Init => Typed
  BY DEF Init, Absent
<1>2. Typed /\ [Next]_vars => Typed'
  <2> SUFFICES ASSUME Typed, [Next]_vars
               PROVE  Typed'
    OBVIOUS
  <2> USE DEF storeVars, timeVars, callVars, workVars, clientVars, Running
  <2>1. ASSUME NEW o \in Op, NEW p \in Texts[o], ScheduleKnown(o, p)
        PROVE  Typed'
    BY <2>1 DEF ScheduleKnown
  <2>2. ASSUME NEW o \in Op, NEW p \in Texts[o], ScheduleConflict(o, p)
        PROVE  Typed'
    BY <2>2 DEF ScheduleConflict, vars
  <2>3. ASSUME NEW o \in Op, ScheduleRefused(o)
        PROVE  Typed'
    BY <2>3 DEF ScheduleRefused, vars
  <2>4. ASSUME NEW o \in Op, NEW p \in Texts[o], NEW w \in WriteOutcomes,
               ScheduleNew(o, p, w)
        PROVE  Typed'
    <3>1. PICK S \in Evictions(mem) :
            Commit([x \in Op |->
                      IF x = o THEN [state |-> "pending", text |-> p]
                      ELSE IF x \in S THEN Absent ELSE mem[x]], w)
          /\ evicted' = IF w = "before" THEN evicted ELSE evicted \cup S
      BY <2>4 DEF ScheduleNew
    <3>2. S \in SUBSET Op /\ \A x \in S : mem[x].state = "delivered"
      BY DEF Evictions, Tombstones
    <3> DEFINE rows == [x \in Op |->
                          IF x = o THEN [state |-> "pending", text |-> p]
                          ELSE IF x \in S THEN Absent ELSE mem[x]]
    <3>0. p \in Text
      BY DEF Text
    <3>3. rows \in [Op -> Entries]
      BY <3>0 DEF Absent
    <3>4. \A x \in Op : rows[x].state # "absent" => rows[x].text \in Text
      BY <3>0 DEF Absent
    <3>5. worker \in {"deliver", "await"} => rows[cur].state = "in_flight"
      BY <3>2, <2>4 DEF ScheduleNew
    <3>6. evicted' \in SUBSET Op
      BY <3>1, <3>2
    <3>7. mem' \in {mem, rows} /\ disk' \in {disk, rows}
      BY <3>1 DEF Commit
    <3>8. UNCHANGED <<timeVars, workVars, callVars, restarts>>
      BY <2>4 DEF ScheduleNew
    <3>9. promised' \in [Op -> Text \cup {None}]
      BY <3>0, <2>4 DEF ScheduleNew
    <3>10. mem' \in [Op -> Entries] /\ disk' \in [Op -> Entries]
      BY <3>3, <3>7
    <3> HIDE DEF rows
    <3>11. TypeOK'
      BY <3>6, <3>8, <3>9, <3>10
    <3>12. HasText'
      BY <3>4, <3>7
    <3>13. InHand'
      BY <3>5, <3>7, <3>8
    <3> QED BY <3>11, <3>12, <3>13
  <2>5. ASSUME NEW o \in Op, InstantPasses(o)
        PROVE  Typed'
    BY <2>5 DEF InstantPasses
  <2>6. ASSUME NEW o \in Op, Elapse(o)
        PROVE  Typed'
    <3>1. due' \in Seq(Op)
      BY <2>6 DEF Elapse
    <3> QED BY <2>6, <3>1 DEF Elapse
  <2>7. ASSUME Scan
        PROVE  Typed'
    <3>1. batch' \in Seq(Op)
      <4>1. Len(due) \in Nat /\ \A k \in 1..Len(due) : due[k] \in Op
        OBVIOUS
      <4> DEFINE n == IF Len(due) < MaxDuePerTick THEN Len(due) ELSE MaxDuePerTick
      <4>2. n \in Int /\ n <= Len(due)
        BY <4>1
      <4>3. batch' = SubSeq(due, 1, n)
        BY <2>7 DEF Scan
      <4> HIDE DEF n
      <4>4. \A k \in 1..n : due[k] \in Op
        BY <4>1, <4>2
      <4> QED BY <4>2, <4>3, <4>4, SubSeqProperties
    <3> QED BY <2>7, <3>1 DEF Scan
  <2>8. ASSUME TickEnds
        PROVE  Typed'
    BY <2>8 DEF TickEnds
  <2>9. ASSUME Send
        PROVE  Typed'
    <3>1. cur \in Op /\ mem[cur].state = "in_flight"
      BY <2>9 DEF Send
    <3>2. handed' \in SUBSET (Op \X Text)
      BY <2>9, <3>1 DEF Send
    <3> QED BY <2>9, <3>2 DEF Send
  <2>10. ASSUME NEW o \in Op, NEW w \in WriteOutcomes, Claim(o, w)
        PROVE  Typed'
    <3>1. batch' \in Seq(Op)
      BY <2>10 DEF Claim
    <3>2. due' \in Seq(Op)
      BY <2>10, WithoutType DEF Claim
    <3>3. [mem EXCEPT ![o].state = "in_flight"] \in [Op -> Entries]
      <4>1. mem[o] \in Entries
        BY <2>10
      <4>2. [mem[o] EXCEPT !.state = "in_flight"] \in Entries
        BY <4>1
      <4> QED BY <2>10, <4>2
    <3>4. mem[o].state # "absent"
      BY <2>10 DEF Claim, Retryable
    <3> QED BY <2>10, <3>1, <3>2, <3>3, <3>4 DEF Claim, Commit
  <2>11. ASSUME NEW w \in WriteOutcomes, Defer(w)
        PROVE  Typed'
    <3>1. cur \in Op /\ mem[cur].state = "in_flight"
      BY <2>11 DEF Defer
    <3>2. [mem EXCEPT ![cur].state = "pending"] \in [Op -> Entries]
      <4>1. mem[cur] \in Entries
        BY <3>1
      <4>2. [mem[cur] EXCEPT !.state = "pending"] \in Entries
        BY <4>1
      <4> QED BY <3>1, <4>2
    <3> QED BY <2>11, <3>1, <3>2 DEF Defer, Commit
  <2>12. ASSUME NEW w \in WriteOutcomes, Complete(w)
        PROVE  Typed'
    <3>1. cur \in Op /\ mem[cur].state = "in_flight"
      BY <2>12 DEF Complete
    <3>2. due' \in Seq(Op)
      BY <2>12, WithoutType DEF Complete
    <3>3. [mem EXCEPT ![cur].state = "delivered"] \in [Op -> Entries]
      <4>1. mem[cur] \in Entries
        BY <3>1
      <4>2. [mem[cur] EXCEPT !.state = "delivered"] \in Entries
        BY <4>1
      <4> QED BY <3>1, <4>2
    <3> QED BY <2>12, <3>1, <3>2, <3>3 DEF Complete, Commit
  <2>13. ASSUME PhoneAccepts
        PROVE  Typed'
    BY <2>13 DEF PhoneAccepts
  <2>14. ASSUME NEW o \in Op, PhoneAcceptsLate(o)
        PROVE  Typed'
    BY <2>14 DEF PhoneAcceptsLate
  <2>15. ASSUME Start
        PROVE  Typed'
    BY <2>15 DEF Start
  <2>16. ASSUME StopOrCrash
        PROVE  Typed'
    <3>1. restarts' \in 0..MaxRestarts
      BY <2>16 DEF StopOrCrash
    <3> QED BY <2>16, <3>1 DEF StopOrCrash, Absent
  <2>17. ASSUME WorkerDies
        PROVE  Typed'
    BY <2>17 DEF WorkerDies
  <2>18. CASE UNCHANGED vars
    BY <2>18 DEF vars
  <2> QED
    BY <2>1, <2>2, <2>3, <2>4, <2>5, <2>6, <2>7,
       <2>8, <2>9, <2>10, <2>11, <2>12, <2>13,
       <2>14, <2>15, <2>16, <2>17, <2>18
       DEF Next
<1> QED BY <1>1, <1>2, PTL DEF Spec

\* Type correctness of the outbox, its worker and the phone's side.
THEOREM TypeCorrect == Spec => []TypeOK
  BY TypedInvariant, PTL DEF Typed

\* Nothing is handed to the phone that the file does not already call
\* in_flight, whichever write failed before.
THEOREM DurableClaim == Spec => []ClaimBeforeHandoff
  BY TypedInvariant, PTL DEF Typed, InHand

-----------------------------------------------------------------------------
\* PromiseKept, and the same of the rows in memory.
Kept ==
    \A o \in Op :
        promised[o] # None =>
            \/ o \in accepted
            \/ /\ disk[o].state # "absent" /\ disk[o].text = promised[o]
               /\ Running => mem[o].state # "absent" /\ mem[o].text = promised[o]

\* TombstoneIsReceipt, of both copies and of the call in hand.
Receipts ==
    /\ \A o \in Op :
         disk[o].state = "delivered" \/ mem[o].state = "delivered" => o \in accepted
    /\ call = "accepted" => cur \in accepted

\* What waits in memory is in the file.
InFile ==
    Running => \A o \in Op :
        mem[o].state \in {"pending", "in_flight"} =>
            disk[o].state # "absent" /\ disk[o].text = mem[o].text

\* What was handed over is bound to its text until the tombstone is dropped.
Bound ==
    \A h \in handed :
        \/ h[1] \in evicted
        \/ /\ disk[h[1]].state # "absent" /\ disk[h[1]].text = h[2]
           /\ Running => mem[h[1]].state # "absent" /\ mem[h[1]].text = h[2]

Store == Kept /\ Receipts /\ InFile /\ Bound

\* Store is inductive relative to Typed.
LEMMA StoreInvariant == Spec => []Store
<1> USE NoneAssumption DEF Store, Kept, Receipts, InFile, Bound, Running
<1>1. Init => Store
  BY DEF Init, Absent
<1>2. Typed /\ Typed' /\ Store /\ [Next]_vars => Store'
  <2> SUFFICES ASSUME Typed, Typed', Store, [Next]_vars
               PROVE  Store'
    OBVIOUS
  <2> USE DEF Typed, TypeOK, HasText, InHand, ClaimBeforeHandoff, Entries,
        storeVars, timeVars, callVars, workVars, clientVars, WriteOutcomes
  <2>1. ASSUME NEW o \in Op, NEW p \in Texts[o], ScheduleKnown(o, p)
        PROVE  Store'
    BY <2>1 DEF ScheduleKnown
  <2>2. ASSUME NEW o \in Op, NEW p \in Texts[o], ScheduleConflict(o, p)
        PROVE  Store'
    BY <2>2 DEF ScheduleConflict, vars
  <2>3. ASSUME NEW o \in Op, ScheduleRefused(o)
        PROVE  Store'
    BY <2>3 DEF ScheduleRefused, vars
  <2>4. ASSUME NEW o \in Op, NEW p \in Texts[o], NEW w \in WriteOutcomes,
               ScheduleNew(o, p, w)
        PROVE  Store'
    <3>1. PICK S \in Evictions(mem) :
            Commit([x \in Op |->
                      IF x = o THEN [state |-> "pending", text |-> p]
                      ELSE IF x \in S THEN Absent ELSE mem[x]], w)
          /\ evicted' = IF w = "before" THEN evicted ELSE evicted \cup S
      BY <2>4 DEF ScheduleNew
    <3>2. S \in SUBSET Op /\ \A x \in S : mem[x].state = "delivered"
      BY DEF Evictions, Tombstones
    <3>3. mem[o].state = "absent" /\ worker # "down"
          /\ UNCHANGED <<timeVars, workVars, callVars, restarts>>
          /\ promised' = IF w = "ok" THEN [promised EXCEPT ![o] = p] ELSE promised
      BY <2>4 DEF ScheduleNew
    <3>4. Kept'
      BY <3>1, <3>2, <3>3 DEF Commit, Absent
    <3>5. Receipts'
      BY <3>1, <3>2, <3>3 DEF Commit, Absent
    <3>6. InFile'
      BY <3>1, <3>2, <3>3 DEF Commit, Absent
    <3>7. Bound'
      BY <3>1, <3>2, <3>3 DEF Commit, Absent
    <3> QED BY <3>4, <3>5, <3>6, <3>7
  <2>5. ASSUME NEW o \in Op, InstantPasses(o)
        PROVE  Store'
    BY <2>5 DEF InstantPasses
  <2>6. ASSUME NEW o \in Op, Elapse(o)
        PROVE  Store'
    BY <2>6 DEF Elapse, Retryable
  <2>7. ASSUME Scan
        PROVE  Store'
    BY <2>7 DEF Scan
  <2>8. ASSUME TickEnds
        PROVE  Store'
    BY <2>8 DEF TickEnds
  <2>9. ASSUME Send
        PROVE  Store'
    <3>1. Kept'
      BY <2>9 DEF Send
    <3>2. Receipts'
      BY <2>9 DEF Send
    <3>3. InFile'
      BY <2>9 DEF Send
    <3>4. Bound'
      BY <2>9 DEF Send
    <3> QED BY <3>1, <3>2, <3>3, <3>4
  <2>10. ASSUME NEW o \in Op, NEW w \in WriteOutcomes, Claim(o, w)
        PROVE  Store'
    <3>1. Kept'
      BY <2>10 DEF Claim, Commit, Retryable
    <3>2. Receipts'
      BY <2>10 DEF Claim, Commit, Retryable
    <3>3. InFile'
      BY <2>10 DEF Claim, Commit, Retryable
    <3>4. Bound'
      BY <2>10 DEF Claim, Commit, Retryable
    <3> QED BY <3>1, <3>2, <3>3, <3>4
  <2>11. ASSUME NEW w \in WriteOutcomes, Defer(w)
        PROVE  Store'
    <3>1. Kept'
      BY <2>11 DEF Defer, Commit
    <3>2. Receipts'
      BY <2>11 DEF Defer, Commit
    <3>3. InFile'
      BY <2>11 DEF Defer, Commit
    <3>4. Bound'
      BY <2>11 DEF Defer, Commit
    <3> QED BY <3>1, <3>2, <3>3, <3>4
  <2>12. ASSUME NEW w \in WriteOutcomes, Complete(w)
        PROVE  Store'
    <3>1. Kept'
      BY <2>12 DEF Complete, Commit
    <3>2. Receipts'
      BY <2>12 DEF Complete, Commit
    <3>3. InFile'
      BY <2>12 DEF Complete, Commit
    <3>4. Bound'
      BY <2>12 DEF Complete, Commit
    <3> QED BY <3>1, <3>2, <3>3, <3>4
  <2>13. ASSUME PhoneAccepts
        PROVE  Store'
    <3>1. Kept'
      BY <2>13 DEF PhoneAccepts
    <3>2. Receipts'
      BY <2>13 DEF PhoneAccepts
    <3>3. InFile'
      BY <2>13 DEF PhoneAccepts
    <3>4. Bound'
      BY <2>13 DEF PhoneAccepts
    <3> QED BY <3>1, <3>2, <3>3, <3>4
  <2>14. ASSUME NEW o \in Op, PhoneAcceptsLate(o)
        PROVE  Store'
    BY <2>14 DEF PhoneAcceptsLate
  <2>15. ASSUME Start
        PROVE  Store'
    <3>1. Kept'
      BY <2>15 DEF Start
    <3>2. Receipts'
      BY <2>15 DEF Start
    <3>3. InFile'
      BY <2>15 DEF Start
    <3>4. Bound'
      BY <2>15 DEF Start
    <3> QED BY <3>1, <3>2, <3>3, <3>4
  <2>16. ASSUME StopOrCrash
        PROVE  Store'
    BY <2>16 DEF StopOrCrash, Absent
  <2>17. ASSUME WorkerDies
        PROVE  Store'
    BY <2>17 DEF WorkerDies
  <2>18. CASE UNCHANGED vars
    BY <2>18 DEF vars
  <2> QED
    BY <2>1, <2>2, <2>3, <2>4, <2>5, <2>6, <2>7,
       <2>8, <2>9, <2>10, <2>11, <2>12, <2>13,
       <2>14, <2>15, <2>16, <2>17, <2>18
       DEF Next
<1> QED BY <1>1, <1>2, TypedInvariant, PTL DEF Spec

\* A promised reminder is never lost between the caller's receipt and the
\* phone's: not by a failed write, a crash, a full tombstone list or a retry.
THEOREM KeepsPromises == Spec => []PromiseKept
<1>1. Store => PromiseKept
  BY DEF Store, Kept, PromiseKept
<1> QED BY <1>1, StoreInvariant, PTL

\* A delivered row always stands for a receipt of the phone.
THEOREM ReceiptsAreReal == Spec => []TombstoneIsReceipt
<1>1. Store => TombstoneIsReceipt
  BY DEF Store, Receipts, TombstoneIsReceipt
<1> QED BY <1>1, StoreInvariant, PTL

\* An operation reaches the phone with one text until its tombstone is dropped.
THEOREM OneTextPerOperation == Spec => []OneText
<1>1. Store => OneText
  BY DEF Store, Bound, OneText
<1> QED BY <1>1, StoreInvariant, PTL

-----------------------------------------------------------------------------
Rows(rows) == Waiting(rows) \cup Tombstones(rows)

\* Bounded, of one copy.
Fits(rows) ==
    /\ IsFiniteSet(Rows(rows))
    /\ Cardinality(Waiting(rows)) <= MaxPending
    /\ Cardinality(Rows(rows)) <= MaxPending + MaxTombstones

\* A copy that neither has a new row nor a new waiting one still fits.
LEMMA FitsFewer ==
    ASSUME NEW old, NEW new, Fits(old),
           Waiting(new) \subseteq Waiting(old), Rows(new) \subseteq Rows(old)
    PROVE  Fits(new)
<1>1. IsFiniteSet(Waiting(old))
  BY FS_Subset DEF Fits, Rows
<1>2. IsFiniteSet(Waiting(new)) /\ Cardinality(Waiting(new)) <= Cardinality(Waiting(old))
  BY <1>1, FS_Subset
<1>3. IsFiniteSet(Rows(new)) /\ Cardinality(Rows(new)) <= Cardinality(Rows(old))
  BY FS_Subset DEF Fits
<1>4. /\ Cardinality(Waiting(old)) \in Nat /\ Cardinality(Waiting(new)) \in Nat
      /\ Cardinality(Rows(old)) \in Nat /\ Cardinality(Rows(new)) \in Nat
  BY <1>1, <1>2, <1>3, FS_CardinalityType DEF Fits
<1> QED BY <1>2, <1>3, <1>4, BoundsAssumption DEF Fits

\* What `schedule` commits when it does not refuse: one row more, behind the
\* evictions that make room for its tombstone.
Added(rows, o, p, S) ==
    [x \in Op |-> IF x = o THEN [state |-> "pending", text |-> p]
                 ELSE IF x \in S THEN Absent ELSE rows[x]]

\* A new row fits: the check of MaxPending leaves room for it, and the evictions
\* leave room for the tombstone it will become.
LEMMA FitsAdded ==
    ASSUME NEW rows, Fits(rows), ~Full(rows),
           NEW o \in Op, rows[o].state = "absent", NEW p, NEW S \in Evictions(rows)
    PROVE  Fits(Added(rows, o, p, S))
<1> DEFINE new == Added(rows, o, p, S)
           W == Waiting(rows)
           T == Tombstones(rows)
<1>1. S \subseteq T
  BY DEF Evictions
<1>2. /\ Waiting(new) = W \cup {o}
      /\ Tombstones(new) = T \ S
  BY <1>1 DEF Waiting, Tombstones, Added, Absent
<1>3. IsFiniteSet(W) /\ IsFiniteSet(T) /\ IsFiniteSet(T \ S)
  BY FS_Subset DEF Fits, Rows
<1>4. /\ Cardinality(W) \in Nat /\ Cardinality(T) \in Nat
      /\ Cardinality(T \ S) \in Nat
  BY <1>3, FS_CardinalityType
<1>5. Cardinality(W) < MaxPending
  BY <1>4, BoundsAssumption DEF Full
<1>6. /\ IsFiniteSet(W \cup {o})
      /\ Cardinality(W \cup {o}) \in Nat
      /\ Cardinality(W \cup {o}) <= MaxPending
  <2>1. o \notin W
    BY DEF Waiting
  <2> QED BY <1>3, <1>4, <1>5, <2>1, FS_AddElement, BoundsAssumption
<1>7. Cardinality(T \ S) <= MaxTombstones
  <2>1. CASE Cardinality(T) < MaxTombstones
    <3>1. S = {}
      BY <2>1 DEF Evictions
    <3> QED BY <2>1, <3>1, <1>4, BoundsAssumption
  <2>2. CASE ~(Cardinality(T) < MaxTombstones)
    <3>1. Cardinality(T \ S) = MaxTombstones - 1
      BY <2>2 DEF Evictions
    <3> QED BY <3>1, BoundsAssumption
  <2> QED BY <2>1, <2>2
<1>8. /\ IsFiniteSet((W \cup {o}) \cup (T \ S))
      /\ Cardinality((W \cup {o}) \cup (T \ S)) <= MaxPending + MaxTombstones
  <2> DEFINE A == W \cup {o}
             B == T \ S
  <2>1. /\ IsFiniteSet(A \cup B)
        /\ Cardinality(A \cup B) = Cardinality(A) + Cardinality(B) - Cardinality(A \cap B)
    BY <1>3, <1>6, FS_Union
  <2>2. IsFiniteSet(A \cap B) /\ Cardinality(A \cap B) \in Nat
    BY <1>6, FS_Subset, FS_CardinalityType
  <2> HIDE DEF A, B
  <2>3. Cardinality(A) \in Nat /\ Cardinality(A) <= MaxPending
    BY <1>6 DEF A
  <2>4. Cardinality(B) \in Nat /\ Cardinality(B) <= MaxTombstones
    BY <1>4, <1>7 DEF B
  <2>5. Cardinality(A \cup B) <= MaxPending + MaxTombstones
    BY <2>1, <2>2, <2>3, <2>4, BoundsAssumption
  <2> QED BY <2>1, <2>5 DEF A, B
<1> QED BY <1>2, <1>6, <1>8 DEF Fits, Rows

\* A row that keeps waiting, or becomes a tombstone, still fits.
LEMMA FitsMoved ==
    ASSUME NEW rows \in [Op -> Entries], Fits(rows), NEW o \in Op,
           rows[o].state \in {"pending", "in_flight"},
           NEW s \in {"pending", "in_flight", "delivered"}
    PROVE  Fits([rows EXCEPT ![o].state = s])
<1> DEFINE new == [rows EXCEPT ![o].state = s]
<1>1. \A x \in Op : new[x].state = IF x = o THEN s ELSE rows[x].state
  BY DEF Entries
<1>2. Waiting(new) \subseteq Waiting(rows) /\ Rows(new) \subseteq Rows(rows)
  BY <1>1 DEF Waiting, Rows, Tombstones
<1> QED BY <1>2, FitsFewer

BothFit == Fits(mem) /\ Fits(disk)

\* BothFit is inductive relative to Typed: a failed write leaves each copy with
\* rows that were checked.
LEMMA FitsInvariant == Spec => []BothFit
<1> USE NoneAssumption, BoundsAssumption DEF BothFit
<1>1. \A rows : (\A o \in Op : rows[o] = Absent) => Fits(rows)
  <2> SUFFICES ASSUME NEW rows, \A o \in Op : rows[o] = Absent
               PROVE  Fits(rows)
    OBVIOUS
  <2>1. Waiting(rows) = {} /\ Rows(rows) = {}
    BY DEF Waiting, Tombstones, Rows, Absent
  <2> QED BY <2>1, FS_EmptySet DEF Fits
<1>2. Init => BothFit
  BY <1>1 DEF Init
<1>3. Typed /\ BothFit /\ [Next]_vars => BothFit'
  <2> SUFFICES ASSUME Typed, BothFit, [Next]_vars
               PROVE  BothFit'
    OBVIOUS
  <2> USE DEF Typed, TypeOK, InHand, storeVars, WriteOutcomes
  <2>1. ASSUME NEW rows, Fits(rows), NEW w \in WriteOutcomes, Commit(rows, w)
        PROVE  BothFit'
    BY <2>1 DEF Commit
  <2>2. ASSUME NEW o \in Op, NEW p \in Texts[o], NEW w \in WriteOutcomes,
               ScheduleNew(o, p, w)
        PROVE  BothFit'
    <3>1. PICK S \in Evictions(mem) : Commit(Added(mem, o, p, S), w)
      BY <2>2 DEF ScheduleNew, Added
    <3>2. Fits(Added(mem, o, p, S))
      BY <2>2, FitsAdded DEF ScheduleNew
    <3> QED BY <2>1, <3>1, <3>2
  <2>3. ASSUME NEW o \in Op, NEW w \in WriteOutcomes, Claim(o, w)
        PROVE  BothFit'
    <3>1. Fits([mem EXCEPT ![o].state = "in_flight"])
      BY <2>3, FitsMoved DEF Claim, Retryable
    <3> QED BY <2>1, <2>3, <3>1 DEF Claim
  <2>4. ASSUME NEW w \in WriteOutcomes, Defer(w)
        PROVE  BothFit'
    <3>1. Fits([mem EXCEPT ![cur].state = "pending"])
      BY <2>4, FitsMoved DEF Defer
    <3> QED BY <2>1, <2>4, <3>1 DEF Defer
  <2>5. ASSUME NEW w \in WriteOutcomes, Complete(w)
        PROVE  BothFit'
    <3>1. Fits([mem EXCEPT ![cur].state = "delivered"])
      BY <2>5, FitsMoved DEF Complete
    <3> QED BY <2>1, <2>5, <3>1 DEF Complete
  <2>6. ASSUME Start
        PROVE  BothFit'
    BY <2>6 DEF Start
  <2>7. ASSUME StopOrCrash
        PROVE  BothFit'
    <3>1. Fits(mem')
      BY <1>1, <2>7 DEF StopOrCrash
    <3> QED BY <2>7, <3>1 DEF StopOrCrash
  <2>8. ASSUME UNCHANGED storeVars
        PROVE  BothFit'
    BY <2>8
  <2>9. \/ UNCHANGED storeVars
        \/ \E w \in WriteOutcomes :
             \/ \E o \in Op : \E p \in Texts[o] : ScheduleNew(o, p, w)
             \/ \E o \in Op : Claim(o, w)
             \/ Defer(w) \/ Complete(w)
        \/ Start \/ StopOrCrash
    BY DEF Next, vars, timeVars, callVars, workVars, clientVars, ScheduleKnown,
       ScheduleConflict, ScheduleRefused, InstantPasses, Elapse, Scan, TickEnds,
       Send, WorkerDies, PhoneAccepts, PhoneAcceptsLate
  <2> QED BY <2>2, <2>3, <2>4, <2>5, <2>6, <2>7, <2>8, <2>9
<1> QED BY <1>2, <1>3, TypedInvariant, PTL DEF Spec

\* The outbox stays bounded in memory and in the file, whatever writes fail.
THEOREM StaysBounded == Spec => []Bounded
<1>1. BothFit => Bounded
  BY DEF BothFit, Fits, Rows, Bounded
<1> QED BY <1>1, FitsInvariant, PTL
=============================================================================

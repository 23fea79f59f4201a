------------------------- MODULE KanbanLedgerProofs -------------------------
(***************************************************************************)
(* Proofs about KanbanLedger for any number of operations, attempts,       *)
(* payloads, boards and generations.                                       *)
(*                                                                         *)
(* Control is the type invariant together with what the control points of  *)
(* an attempt say about its locals and its ledger row: the flock makes the *)
(* row of the holder's operation its own.  Single adds that a card of the  *)
(* operation cannot exist while an attempt still may create one.           *)
(***************************************************************************)
EXTENDS KanbanLedger, TLAPS

Resolving == {"resolve", "default", "pin", "insert"}
Mutating == {"board", "opened", "locked", "final", "commit", "post", "finalize"}

Locals ==
    \A a \in Attempt :
        /\ pc[a] # "idle" => job[a].op \in Op /\ job[a].payload \in Payload
        /\ pc[a] \in {"default", "pin", "insert"} => job[a].board \in Board
        /\ pc[a] = "insert" => job[a].gen \in Gen
        /\ pc[a] \in Mutating \ {"board"} => job[a].conn \in Gen
        /\ pc[a] \in {"final", "commit", "post", "finalize"} =>
             job[a].task \in Attempt
        /\ pc[a] \in Resolving => Row(a).state = "ABSENT"
        /\ pc[a] \in {"recheck", "enter"} =>
             Row(a).state \in {"PREPARED", "MUTATING"}
        /\ pc[a] \in Mutating => Row(a).state = "MUTATING"

Pinned ==
    \A o \in Op : ledger[o].state # "ABSENT" =>
        /\ ledger[o].payload \in Payload
        /\ ledger[o].board \in Board
        /\ ledger[o].gen \in Gen

Control == TypeOK /\ Locals /\ Pinned

\* Types, control points and pinned rows hold throughout: the state of the
\* operation in hand is exactly what `_execute_kanban_task_create` last read or
\* wrote, because nobody else may hold the flock.
THEOREM ControlInvariant == Spec => []Control
<1> USE NoneAssumption DEF Control, TypeOK, Locals, Pinned, Row, Resolving,
      Mutating, Holding, Rows, Jobs, Cards, Kinds, States
<1>1. Init => Control
  BY DEF Init, NoRow, NoJob
<1>2. Control /\ [Next]_vars => Control'
  <2> SUFFICES ASSUME Control, [Next]_vars
               PROVE  Control'
    OBVIOUS
  <2> USE DEF boardVars, turnVars, Goto, Answer, Finish
  <2>1. ASSUME NEW a \in Attempt, NEW o \in Op, NEW p \in Payload, Submit(a, o, p)
        PROVE  Control'
    <3>1. job' \in [Attempt -> Jobs]
      <4>1. job[a] \in Jobs
        OBVIOUS
      <4>2. [job[a] EXCEPT !.op = o, !.payload = p] \in Jobs
        BY <4>1
      <4> QED BY <2>1, <4>2 DEF Submit
    <3>2. TypeOK'
      BY <2>1, <3>1 DEF Submit
    <3> QED BY <2>1, <3>2 DEF Submit
  <2>2. ASSUME NEW a \in Attempt, AcquireLock(a)
        PROVE  Control'
    BY <2>2 DEF AcquireLock
  <2>3. ASSUME NEW a \in Attempt, LockTimesOut(a)
        PROVE  Control'
    BY <2>3 DEF LockTimesOut
  <2>4. ASSUME NEW a \in Attempt, LockAbandoned(a)
        PROVE  Control'
    BY <2>4 DEF LockAbandoned
  <2>5. ASSUME NEW a \in Attempt, ReauthorizeFails(a)
        PROVE  Control'
    BY <2>5 DEF ReauthorizeFails
  <2>6. ASSUME NEW a \in Attempt, OpenLedger(a)
        PROVE  Control'
    BY <2>6 DEF OpenLedger
  <2>7. ASSUME NEW a \in Attempt, ReadConflict(a)
        PROVE  Control'
    BY <2>7 DEF ReadConflict, ConflictState
  <2>8. ASSUME NEW a \in Attempt, ReadTombstone(a)
        PROVE  Control'
    BY <2>8 DEF ReadTombstone
  <2>9. ASSUME NEW a \in Attempt, ReadIntent(a)
        PROVE  Control'
    BY <2>9 DEF ReadIntent
  <2>10. ASSUME NEW a \in Attempt, ReadNothing(a)
        PROVE  Control'
    BY <2>10 DEF ReadNothing
  <2>11. ASSUME NEW a \in Attempt, NEW b \in Board, ResolveBoard(a, b)
        PROVE  Control'
    <3>1. TypeOK'
      BY <2>11 DEF ResolveBoard
    <3>2. Locals'
      BY <2>11 DEF ResolveBoard
    <3>3. Pinned'
      BY <2>11 DEF ResolveBoard
    <3> QED BY <3>1, <3>2, <3>3
  <2>12. ASSUME NEW a \in Attempt, BoardNotSelected(a)
        PROVE  Control'
    BY <2>12 DEF BoardNotSelected
  <2>13. ASSUME NEW a \in Attempt, InitializeDefault(a)
        PROVE  Control'
    BY <2>13 DEF InitializeDefault
  <2>14. ASSUME NEW a \in Attempt, PinGeneration(a)
        PROVE  Control'
    <3>1. TypeOK'
      BY <2>14 DEF PinGeneration
    <3>2. Locals'
      BY <2>14 DEF PinGeneration
    <3>3. Pinned'
      BY <2>14 DEF PinGeneration
    <3> QED BY <3>1, <3>2, <3>3
  <2>15. ASSUME NEW a \in Attempt, BoardGone(a)
        PROVE  Control'
    BY <2>15 DEF BoardGone
  <2>16. ASSUME NEW a \in Attempt, InsertIntent(a)
        PROVE  Control'
    <3>1. TypeOK'
      BY <2>16 DEF InsertIntent
    <3>2. Locals'
      BY <2>16 DEF InsertIntent
    <3>3. Pinned'
      BY <2>16 DEF InsertIntent
    <3> QED BY <3>1, <3>2, <3>3
  <2>17. ASSUME NEW a \in Attempt, GenerationLost(a)
        PROVE  Control'
    BY <2>17 DEF GenerationLost, MismatchState
  <2>18. ASSUME NEW a \in Attempt, GenerationChecked(a)
        PROVE  Control'
    <3>1. TypeOK'
      BY <2>18 DEF GenerationChecked, GenerationHolds
    <3>2. Locals'
      BY <2>18 DEF GenerationChecked, GenerationHolds
    <3>3. Pinned'
      BY <2>18 DEF GenerationChecked, GenerationHolds
    <3> QED BY <3>1, <3>2, <3>3
  <2>19. ASSUME NEW a \in Attempt, EnterMutation(a)
        PROVE  Control'
    <3>1. job[a] \in Jobs /\ job[a].op \in Op /\ ledger[job[a].op] \in Rows
      BY <2>19 DEF EnterMutation
    <3>2. job' \in [Attempt -> Jobs]
      <4>1. [job[a] EXCEPT !.duty = Duty(Row(a).state)] \in Jobs
        BY <3>1 DEF Duty
      <4> QED BY <2>19, <4>1 DEF EnterMutation
    <3>3. ledger' \in [Op -> Rows]
      <4>1. [ledger[job[a].op] EXCEPT !.state = "MUTATING"] \in Rows
        BY <3>1
      <4> QED BY <2>19, <4>1, <3>1 DEF EnterMutation
    <3>4. TypeOK'
      BY <2>19, <3>2, <3>3 DEF EnterMutation
    <3>5. Locals'
      BY <2>19 DEF EnterMutation
    <3>6. Pinned'
      BY <2>19 DEF EnterMutation
    <3> QED BY <3>4, <3>5, <3>6
  <2>20. ASSUME NEW a \in Attempt, OpenBoard(a)
        PROVE  Control'
    <3>1. job' \in [Attempt -> Jobs]
      <4>1. job[a] \in Jobs /\ at[Row(a).board] \in Gen
        BY <2>20 DEF OpenBoard
      <4>2. [job[a] EXCEPT !.conn = at[Row(a).board]] \in Jobs
        BY <4>1
      <4> QED BY <2>20, <4>2 DEF OpenBoard
    <3>2. TypeOK'
      BY <2>20, <3>1 DEF OpenBoard
    <3>3. Locals'
      BY <2>20 DEF OpenBoard
    <3>4. Pinned'
      BY <2>20 DEF OpenBoard
    <3> QED BY <3>2, <3>3, <3>4
  <2>21. ASSUME NEW a \in Attempt, CreateCard(a)
        PROVE  Control'
    <3>1. job' \in [Attempt -> Jobs]
      <4>1. job[a] \in Jobs
        OBVIOUS
      <4>2. [job[a] EXCEPT !.task = a] \in Jobs
        BY <4>1
      <4> QED BY <2>21, <4>2 DEF CreateCard
    <3>2. TypeOK'
      BY <2>21, <3>1 DEF CreateCard
    <3> QED BY <2>21, <3>2 DEF CreateCard
  <2>22. ASSUME NEW a \in Attempt, ReuseCard(a)
        PROVE  Control'
    <3>1. PICK c \in Found(a) : job' = [job EXCEPT ![a].task = c.task]
      BY <2>22 DEF ReuseCard
    <3>2. job' \in [Attempt -> Jobs]
      <4>1. job[a] \in Jobs /\ c.task \in Attempt
        BY <2>22 DEF ReuseCard, Found
      <4>2. [job[a] EXCEPT !.task = c.task] \in Jobs
        BY <4>1
      <4> QED BY <3>1, <4>2
    <3>3. TypeOK'
      BY <2>22, <3>2 DEF ReuseCard
    <3> QED BY <2>22, <3>3 DEF ReuseCard, Found
  <2>23. ASSUME NEW a \in Attempt, CardUnprovable(a)
        PROVE  Control'
    BY <2>23 DEF CardUnprovable
  <2>24. ASSUME NEW a \in Attempt, FinalCheck(a)
        PROVE  Control'
    BY <2>24 DEF FinalCheck
  <2>25. ASSUME NEW a \in Attempt, CommitBoard(a)
        PROVE  Control'
    <3>1. job[a].op \in Op /\ job[a].conn \in Gen
      BY <2>25 DEF CommitBoard
    <3>2. rows' \in [Gen -> SUBSET Cards]
      BY <2>25, <3>1 DEF CommitBoard
    <3>3. created' \in SUBSET [op : Op, task : Attempt, gen : Gen]
      BY <2>25, <3>1 DEF CommitBoard
    <3>4. TypeOK'
      BY <2>25, <3>2, <3>3 DEF CommitBoard
    <3> QED BY <2>25, <3>4 DEF CommitBoard
  <2>26. ASSUME NEW a \in Attempt, Finalize(a)
        PROVE  Control'
    <3>1. TypeOK'
      BY <2>26 DEF Finalize
    <3>2. Locals'
      BY <2>26 DEF Finalize
    <3>3. Pinned'
      BY <2>26 DEF Finalize
    <3> QED BY <3>1, <3>2, <3>3
  <2>27. ASSUME NEW a \in Attempt, StorageFault(a)
        PROVE  Control'
    BY <2>27 DEF StorageFault, MismatchState
  <2>28. ASSUME NEW a \in Attempt, CancelCaller(a)
        PROVE  Control'
    BY <2>28 DEF CancelCaller
  <2>29. ASSUME RevokeTurn
        PROVE  Control'
    BY <2>29 DEF RevokeTurn
  <2>30. ASSUME Crash
        PROVE  Control'
    <3>1. TypeOK'
      BY <2>30 DEF Crash
    <3>2. Locals'
      BY <2>30 DEF Crash
    <3>3. Pinned'
      BY <2>30 DEF Crash
    <3> QED BY <3>1, <3>2, <3>3
  <2>31. ASSUME NEW b \in Board, RetireBoard(b)
        PROVE  Control'
    BY <2>31 DEF RetireBoard
  <2>32. ASSUME NEW b \in Board, NEW g \in Gen, ActivateBoard(b, g)
        PROVE  Control'
    BY <2>32 DEF ActivateBoard
  <2>33. ASSUME NEW g \in Gen, NEW c \in rows[g], EditCard(g, c)
        PROVE  Control'
    BY <2>33 DEF EditCard
  <2>34. ASSUME NEW g \in Gen, NEW c \in rows[g], DeleteCard(g, c)
        PROVE  Control'
    BY <2>34 DEF DeleteCard
  <2>35. CASE UNCHANGED vars
    BY <2>35 DEF vars
  <2> QED
    BY <2>1, <2>2, <2>3, <2>4, <2>5, <2>6, <2>7, <2>8, <2>9, <2>10, <2>11,
       <2>12, <2>13, <2>14, <2>15, <2>16, <2>17, <2>18, <2>19, <2>20,
       <2>21, <2>22, <2>23, <2>24, <2>25, <2>26, <2>27, <2>28, <2>29,
       <2>30, <2>31, <2>32, <2>33, <2>34, <2>35
       DEF Next, Thread, Environment
<1> QED
  BY <1>1, <1>2, PTL DEF Spec

\* Type correctness, and the flock excludes: `lock` names exactly the attempt
\* that is inside the `with _kanban_operation_lock` block.
THEOREM TypeCorrect == Spec => []TypeOK
  BY ControlInvariant, PTL DEF Control

-----------------------------------------------------------------------------
\* Points of an attempt that can still hold back a commit of its own card.
BeforeCommit == {"idle", "lock"} \cup (Holding \ {"post", "finalize"})

\* A row in a board database was committed by its attempt.
Backed ==
    \A g \in Gen : \A r \in rows[g] :
        \E c \in created : c.op = r.op /\ c.task = r.task

\* An attempt that has not committed has no card.
OwnCardLater ==
    \A a \in Attempt : pc[a] \in BeforeCommit => \A c \in created : c.task # a

\* While an attempt may create, or is about to commit what it created, its
\* operation has no card at all.
Untried ==
    \A a \in Attempt :
        \/ pc[a] \in {"board", "opened", "locked"} /\ job[a].duty = "create"
        \/ pc[a] \in {"final", "commit"} /\ CreatedNow(a)
        => \A c \in created : c.op # job[a].op

Single == Backed /\ OwnCardLater /\ Untried /\ IntentPrecedesCard /\ AtMostOneCard

\* Single is inductive relative to Control.
LEMMA SingleInvariant == Spec => []Single
<1> USE NoneAssumption DEF Single, Backed, OwnCardLater, Untried,
      IntentPrecedesCard, AtMostOneCard, BeforeCommit, CreatedNow
<1>1. Init => Single
  BY DEF Init
<1>2. Control /\ Single /\ [Next]_vars => Single'
  <2> SUFFICES ASSUME Control, Single, [Next]_vars
               PROVE  Single'
    OBVIOUS
  <2> USE DEF Control, TypeOK, Locals, Pinned, Row, Resolving, Mutating, Holding,
        boardVars, turnVars, Goto, Answer, Finish
  <2>1. ASSUME NEW a \in Attempt, NEW o \in Op, NEW p \in Payload, Submit(a, o, p)
        PROVE  Single'
    BY <2>1 DEF Submit
  <2>2. ASSUME NEW a \in Attempt, AcquireLock(a)
        PROVE  Single'
    BY <2>2 DEF AcquireLock
  <2>3. ASSUME NEW a \in Attempt, LockTimesOut(a)
        PROVE  Single'
    BY <2>3 DEF LockTimesOut
  <2>4. ASSUME NEW a \in Attempt, LockAbandoned(a)
        PROVE  Single'
    BY <2>4 DEF LockAbandoned
  <2>5. ASSUME NEW a \in Attempt, ReauthorizeFails(a)
        PROVE  Single'
    BY <2>5 DEF ReauthorizeFails
  <2>6. ASSUME NEW a \in Attempt, OpenLedger(a)
        PROVE  Single'
    BY <2>6 DEF OpenLedger
  <2>7. ASSUME NEW a \in Attempt, ReadConflict(a)
        PROVE  Single'
    BY <2>7 DEF ReadConflict, ConflictState
  <2>8. ASSUME NEW a \in Attempt, ReadTombstone(a)
        PROVE  Single'
    BY <2>8 DEF ReadTombstone
  <2>9. ASSUME NEW a \in Attempt, ReadIntent(a)
        PROVE  Single'
    BY <2>9 DEF ReadIntent
  <2>10. ASSUME NEW a \in Attempt, ReadNothing(a)
        PROVE  Single'
    BY <2>10 DEF ReadNothing
  <2>11. ASSUME NEW a \in Attempt, NEW b \in Board, ResolveBoard(a, b)
        PROVE  Single'
    BY <2>11 DEF ResolveBoard
  <2>12. ASSUME NEW a \in Attempt, BoardNotSelected(a)
        PROVE  Single'
    BY <2>12 DEF BoardNotSelected
  <2>13. ASSUME NEW a \in Attempt, InitializeDefault(a)
        PROVE  Single'
    BY <2>13 DEF InitializeDefault
  <2>14. ASSUME NEW a \in Attempt, PinGeneration(a)
        PROVE  Single'
    BY <2>14 DEF PinGeneration
  <2>15. ASSUME NEW a \in Attempt, BoardGone(a)
        PROVE  Single'
    BY <2>15 DEF BoardGone
  <2>16. ASSUME NEW a \in Attempt, InsertIntent(a)
        PROVE  Single'
    BY <2>16 DEF InsertIntent, Rows
  <2>17. ASSUME NEW a \in Attempt, GenerationLost(a)
        PROVE  Single'
    BY <2>17 DEF GenerationLost, MismatchState
  <2>18. ASSUME NEW a \in Attempt, GenerationChecked(a)
        PROVE  Single'
    BY <2>18 DEF GenerationChecked, GenerationHolds
  <2>19. ASSUME NEW a \in Attempt, EnterMutation(a)
        PROVE  Single'
    BY <2>19 DEF EnterMutation, Duty, Rows
  <2>20. ASSUME NEW a \in Attempt, OpenBoard(a)
        PROVE  Single'
    BY <2>20 DEF OpenBoard
  <2>21. ASSUME NEW a \in Attempt, CreateCard(a)
        PROVE  Single'
    BY <2>21 DEF CreateCard, Found
  <2>22. ASSUME NEW a \in Attempt, ReuseCard(a)
        PROVE  Single'
    BY <2>22 DEF ReuseCard, Found
  <2>23. ASSUME NEW a \in Attempt, CardUnprovable(a)
        PROVE  Single'
    BY <2>23 DEF CardUnprovable
  <2>24. ASSUME NEW a \in Attempt, FinalCheck(a)
        PROVE  Single'
    BY <2>24 DEF FinalCheck
  <2>25. ASSUME NEW a \in Attempt, CommitBoard(a)
        PROVE  Single'
    <3>1. job[a].op \in Op /\ Row(a).state = "MUTATING"
      BY <2>25 DEF CommitBoard
    <3>2. CASE job[a].task # a
      BY <2>25, <3>2 DEF CommitBoard
    <3>3. CASE job[a].task = a
      <4> DEFINE d == [op |-> job[a].op, task |-> a, gen |-> job[a].conn]
      <4>1. created' = created \cup {d}
        BY <2>25, <3>3 DEF CommitBoard
      <4>2. \A c \in created : c.op # d.op
        BY <2>25, <3>3 DEF CommitBoard
      <4>3. AtMostOneCard'
        BY <4>1, <4>2
      <4>4. Backed'
        <5> SUFFICES ASSUME NEW g \in Gen, NEW r \in rows'[g]
                     PROVE  \E c \in created' : c.op = r.op /\ c.task = r.task
          OBVIOUS
        <5>1. CASE r \in rows[g]
          BY <5>1, <4>1
        <5>2. CASE r \notin rows[g]
          <6>1. r = [op |-> job[a].op, task |-> a, status |-> "blocked"]
            BY <2>25, <5>2, <3>3 DEF CommitBoard
          <6>2. r.op = d.op /\ r.task = d.task
            BY <6>1
          <6> QED BY <6>2, <4>1
        <5> QED BY <5>1, <5>2
      <4>5. OwnCardLater'
        BY <2>25, <4>1 DEF CommitBoard
      <4>6. Untried'
        BY <2>25, <4>1 DEF CommitBoard
      <4>7. IntentPrecedesCard'
        BY <2>25, <4>1, <3>1 DEF CommitBoard
      <4> QED BY <4>3, <4>4, <4>5, <4>6, <4>7
    <3> QED BY <3>2, <3>3
  <2>26. ASSUME NEW a \in Attempt, Finalize(a)
        PROVE  Single'
    BY <2>26 DEF Finalize, Rows
  <2>27. ASSUME NEW a \in Attempt, StorageFault(a)
        PROVE  Single'
    BY <2>27 DEF StorageFault, MismatchState
  <2>28. ASSUME NEW a \in Attempt, CancelCaller(a)
        PROVE  Single'
    BY <2>28 DEF CancelCaller
  <2>29. ASSUME RevokeTurn
        PROVE  Single'
    BY <2>29 DEF RevokeTurn
  <2>30. ASSUME Crash
        PROVE  Single'
    BY <2>30 DEF Crash
  <2>31. ASSUME NEW b \in Board, RetireBoard(b)
        PROVE  Single'
    BY <2>31 DEF RetireBoard
  <2>32. ASSUME NEW b \in Board, NEW g \in Gen, ActivateBoard(b, g)
        PROVE  Single'
    BY <2>32 DEF ActivateBoard
  <2>33. ASSUME NEW g \in Gen, NEW c \in rows[g], EditCard(g, c)
        PROVE  Single'
    <3>1. c \in Cards
      BY <2>33
    <3>2. DEFINE e == [c EXCEPT !.status = "changed"]
    <3>3. e.op = c.op /\ e.task = c.task
      BY <3>1 DEF Cards
    <3>4. Backed'
      <4> SUFFICES ASSUME NEW h \in Gen, NEW r \in rows'[h]
                   PROVE  \E d \in created : d.op = r.op /\ d.task = r.task
        BY <2>33 DEF EditCard
      <4>1. r \in rows[h] \/ (h = g /\ r = e)
        BY <2>33 DEF EditCard
      <4>2. CASE r \in rows[h]
        BY <4>2
      <4>3. CASE r = e
        <5>1. \E d \in created : d.op = c.op /\ d.task = c.task
          OBVIOUS
        <5> HIDE DEF e
        <5> QED BY <4>3, <5>1, <3>3
      <4> QED BY <4>1, <4>2, <4>3
    <3> QED BY <2>33, <3>4 DEF EditCard
  <2>34. ASSUME NEW g \in Gen, NEW c \in rows[g], DeleteCard(g, c)
        PROVE  Single'
    BY <2>34 DEF DeleteCard
  <2>35. CASE UNCHANGED vars
    BY <2>35 DEF vars
  <2> QED
    BY <2>1, <2>2, <2>3, <2>4, <2>5, <2>6, <2>7, <2>8, <2>9, <2>10, <2>11,
       <2>12, <2>13, <2>14, <2>15, <2>16, <2>17, <2>18, <2>19, <2>20,
       <2>21, <2>22, <2>23, <2>24, <2>25, <2>26, <2>27, <2>28, <2>29,
       <2>30, <2>31, <2>32, <2>33, <2>34, <2>35
       DEF Next, Thread, Environment
<1> QED
  BY <1>1, <1>2, ControlInvariant, PTL DEF Spec

\* The promise of the durable tombstone (README "Before any board write"): one
\* card per operation, under any overlap, crash, cancellation, deletion or
\* recreation of boards and cards.
THEOREM OneCard == Spec => []AtMostOneCard
  BY SingleInvariant, PTL DEF Single

\* A card in a board database always finds its ledger row advanced.
THEOREM IntentFirst == Spec => []IntentPrecedesCard
  BY SingleInvariant, PTL DEF Single

-----------------------------------------------------------------------------
\* What an attempt holds as its operation's card really is one, once it is
\* past the lookup and has not just created it itself.
HeldCardExists ==
    \A a \in Attempt :
        \/ pc[a] \in {"final", "commit"} /\ ~CreatedNow(a)
        \/ pc[a] \in {"post", "finalize"}
        => \E c \in created : c.op = job[a].op /\ c.task = job[a].task

TombstoneNamesCard ==
    \A o \in Op : ledger[o].state = "COMMITTED" =>
        \E c \in created : c.op = o /\ c.task = ledger[o].task

AnswersLast ==
    \A a \in Attempt :
        pc[a] # "done" => reply[a] = [kind |-> "none", task |-> None]

Claims == HeldCardExists /\ TombstoneNamesCard /\ AnswersLast /\ ClaimsAreTrue

\* Claims is inductive relative to Control and Single.
LEMMA ClaimsInvariant == Spec => []Claims
<1> USE NoneAssumption DEF Claims, HeldCardExists, TombstoneNamesCard,
      AnswersLast, ClaimsAreTrue
<1>1. Init => Claims
  BY DEF Init, NoRow
<1>2. Control /\ Single /\ Claims /\ [Next]_vars => Claims'
  <2> SUFFICES ASSUME Control, Single, Claims, [Next]_vars
               PROVE  Claims'
    OBVIOUS
  <2> USE DEF Control, TypeOK, Locals, Row, Resolving, Mutating, Holding,
        CreatedNow, boardVars, turnVars, Goto, Answer, Finish
  <2>1. ASSUME NEW a \in Attempt, NEW o \in Op, NEW p \in Payload, Submit(a, o, p)
        PROVE  Claims'
    <3>1. HeldCardExists'
      BY <2>1 DEF Submit
    <3>2. TombstoneNamesCard'
      BY <2>1 DEF Submit
    <3>3. AnswersLast'
      BY <2>1 DEF Submit
    <3>4. ClaimsAreTrue'
      BY <2>1 DEF Submit
    <3> QED BY <3>1, <3>2, <3>3, <3>4
  <2>2. ASSUME NEW a \in Attempt, AcquireLock(a)
        PROVE  Claims'
    BY <2>2 DEF AcquireLock
  <2>3. ASSUME NEW a \in Attempt, LockTimesOut(a)
        PROVE  Claims'
    BY <2>3 DEF LockTimesOut
  <2>4. ASSUME NEW a \in Attempt, LockAbandoned(a)
        PROVE  Claims'
    BY <2>4 DEF LockAbandoned
  <2>5. ASSUME NEW a \in Attempt, ReauthorizeFails(a)
        PROVE  Claims'
    BY <2>5 DEF ReauthorizeFails
  <2>6. ASSUME NEW a \in Attempt, OpenLedger(a)
        PROVE  Claims'
    BY <2>6 DEF OpenLedger
  <2>7. ASSUME NEW a \in Attempt, ReadConflict(a)
        PROVE  Claims'
    <3>1. HeldCardExists'
      BY <2>7 DEF ReadConflict, ConflictState
    <3>2. TombstoneNamesCard'
      BY <2>7 DEF ReadConflict, ConflictState
    <3>3. AnswersLast'
      BY <2>7 DEF ReadConflict, ConflictState
    <3>4. ClaimsAreTrue'
      <4>1. /\ reply'[a].kind = "committed" => Row(a).state = "COMMITTED"
            /\ reply'[a].kind \notin {"acknowledged", "historical"}
        BY <2>7 DEF ReadConflict, ConflictState, Rows, States
      <4>2. /\ job' = job /\ created' = created
            /\ \A b \in Attempt : b # a => reply'[b] = reply[b]
        BY <2>7 DEF ReadConflict
      <4>3. job[a].op \in Op
        BY <2>7 DEF ReadConflict
      <4>4. Row(a).state = "COMMITTED" => \E c \in created : c.op = job[a].op
        BY <4>3
      <4> QED BY <4>1, <4>2, <4>4
    <3> QED BY <3>1, <3>2, <3>3, <3>4
  <2>8. ASSUME NEW a \in Attempt, ReadTombstone(a)
        PROVE  Claims'
    BY <2>8 DEF ReadTombstone
  <2>9. ASSUME NEW a \in Attempt, ReadIntent(a)
        PROVE  Claims'
    BY <2>9 DEF ReadIntent
  <2>10. ASSUME NEW a \in Attempt, ReadNothing(a)
        PROVE  Claims'
    BY <2>10 DEF ReadNothing
  <2>11. ASSUME NEW a \in Attempt, NEW b \in Board, ResolveBoard(a, b)
        PROVE  Claims'
    BY <2>11 DEF ResolveBoard
  <2>12. ASSUME NEW a \in Attempt, BoardNotSelected(a)
        PROVE  Claims'
    BY <2>12 DEF BoardNotSelected
  <2>13. ASSUME NEW a \in Attempt, InitializeDefault(a)
        PROVE  Claims'
    BY <2>13 DEF InitializeDefault
  <2>14. ASSUME NEW a \in Attempt, PinGeneration(a)
        PROVE  Claims'
    BY <2>14 DEF PinGeneration
  <2>15. ASSUME NEW a \in Attempt, BoardGone(a)
        PROVE  Claims'
    BY <2>15 DEF BoardGone
  <2>16. ASSUME NEW a \in Attempt, InsertIntent(a)
        PROVE  Claims'
    BY <2>16 DEF InsertIntent, Rows
  <2>17. ASSUME NEW a \in Attempt, GenerationLost(a)
        PROVE  Claims'
    BY <2>17 DEF GenerationLost, MismatchState
  <2>18. ASSUME NEW a \in Attempt, GenerationChecked(a)
        PROVE  Claims'
    BY <2>18 DEF GenerationChecked, GenerationHolds
  <2>19. ASSUME NEW a \in Attempt, EnterMutation(a)
        PROVE  Claims'
    BY <2>19 DEF EnterMutation, Rows
  <2>20. ASSUME NEW a \in Attempt, OpenBoard(a)
        PROVE  Claims'
    BY <2>20 DEF OpenBoard
  <2>21. ASSUME NEW a \in Attempt, CreateCard(a)
        PROVE  Claims'
    BY <2>21 DEF CreateCard
  <2>22. ASSUME NEW a \in Attempt, ReuseCard(a)
        PROVE  Claims'
    BY <2>22 DEF ReuseCard, Found, Single, Backed
  <2>23. ASSUME NEW a \in Attempt, CardUnprovable(a)
        PROVE  Claims'
    BY <2>23 DEF CardUnprovable
  <2>24. ASSUME NEW a \in Attempt, FinalCheck(a)
        PROVE  Claims'
    BY <2>24 DEF FinalCheck
  <2>25. ASSUME NEW a \in Attempt, CommitBoard(a)
        PROVE  Claims'
    <3>1. HeldCardExists'
      <4>1. created \subseteq created' /\ job' = job
        BY <2>25 DEF CommitBoard
      <4>2. \E c \in created' : c.op = job[a].op /\ c.task = job[a].task
        <5>1. CASE job[a].task = a
          <6> DEFINE d == [op |-> job[a].op, task |-> a, gen |-> job[a].conn]
          <6>1. d \in created' /\ d.op = job[a].op /\ d.task = job[a].task
            BY <2>25, <5>1 DEF CommitBoard
          <6> QED BY <6>1
        <5>2. CASE job[a].task # a
          BY <2>25, <5>2 DEF CommitBoard
        <5> QED BY <5>1, <5>2
      <4>3. \A b \in Attempt : b # a => pc'[b] = pc[b]
        BY <2>25 DEF CommitBoard
      <4>4. \A b \in Attempt : b # a => pc'[b] \notin Holding
        BY <2>25, <4>3 DEF CommitBoard
      <4> QED BY <4>1, <4>2, <4>4
    <3>2. TombstoneNamesCard'
      BY <2>25 DEF CommitBoard
    <3>3. AnswersLast'
      BY <2>25 DEF CommitBoard
    <3>4. ClaimsAreTrue'
      BY <2>25 DEF CommitBoard
    <3> QED BY <3>1, <3>2, <3>3, <3>4
  <2>26. ASSUME NEW a \in Attempt, Finalize(a)
        PROVE  Claims'
    BY <2>26 DEF Finalize, Rows
  <2>27. ASSUME NEW a \in Attempt, StorageFault(a)
        PROVE  Claims'
    BY <2>27 DEF StorageFault, MismatchState
  <2>28. ASSUME NEW a \in Attempt, CancelCaller(a)
        PROVE  Claims'
    BY <2>28 DEF CancelCaller
  <2>29. ASSUME RevokeTurn
        PROVE  Claims'
    BY <2>29 DEF RevokeTurn
  <2>30. ASSUME Crash
        PROVE  Claims'
    BY <2>30 DEF Crash
  <2>31. ASSUME NEW b \in Board, RetireBoard(b)
        PROVE  Claims'
    BY <2>31 DEF RetireBoard
  <2>32. ASSUME NEW b \in Board, NEW g \in Gen, ActivateBoard(b, g)
        PROVE  Claims'
    BY <2>32 DEF ActivateBoard
  <2>33. ASSUME NEW g \in Gen, NEW c \in rows[g], EditCard(g, c)
        PROVE  Claims'
    BY <2>33 DEF EditCard
  <2>34. ASSUME NEW g \in Gen, NEW c \in rows[g], DeleteCard(g, c)
        PROVE  Claims'
    BY <2>34 DEF DeleteCard
  <2>35. CASE UNCHANGED vars
    BY <2>35 DEF vars
  <2> QED
    BY <2>1, <2>2, <2>3, <2>4, <2>5, <2>6, <2>7, <2>8, <2>9, <2>10, <2>11,
       <2>12, <2>13, <2>14, <2>15, <2>16, <2>17, <2>18, <2>19, <2>20,
       <2>21, <2>22, <2>23, <2>24, <2>25, <2>26, <2>27, <2>28, <2>29,
       <2>30, <2>31, <2>32, <2>33, <2>34, <2>35
       DEF Next, Thread, Environment
<1> QED
  BY <1>1, <1>2, ControlInvariant, SingleInvariant, PTL DEF Spec

\* A receipt, fresh or from the tombstone, and an operation_conflict that says
\* "committed" speak of a card that was committed.
THEOREM TrueReceipts == Spec => []ClaimsAreTrue
  BY ClaimsInvariant, PTL DEF Claims

-----------------------------------------------------------------------------
\* An attempt recorded in tooLate has lost its authority for good and is not
\* past the last check inside the board transaction.
Stopped ==
    \A a \in tooLate :
        /\ pc[a] \notin {"idle", "commit", "post", "finalize"}
        /\ pc[a] = "done" \/ a \notin live \/ a \in cancelled

\* Revocation or cancellation before the last reauthorize inside the board
\* transaction leaves no card of that attempt, now or later.
THEOREM NoLateCard == Spec => []NoCardAfterLostAuthority
<1> USE DEF Stopped, NoCardAfterLostAuthority
<1>1. Init => Stopped /\ NoCardAfterLostAuthority
  BY DEF Init
<1>2. /\ Control /\ Single
      /\ Stopped /\ NoCardAfterLostAuthority
      /\ [Next]_vars
      => Stopped' /\ NoCardAfterLostAuthority'
  <2> SUFFICES ASSUME Control, Single, Stopped, NoCardAfterLostAuthority, [Next]_vars
               PROVE  Stopped' /\ NoCardAfterLostAuthority'
    OBVIOUS
  <2> USE DEF Control, TypeOK, Single, OwnCardLater, BeforeCommit, Holding,
        Authorized, boardVars, turnVars, Goto, Answer, Finish
  <2>1. ASSUME NEW a \in Attempt, NEW o \in Op, NEW p \in Payload, Submit(a, o, p)
        PROVE  Stopped' /\ NoCardAfterLostAuthority'
    BY <2>1 DEF Submit
  <2>2. ASSUME NEW a \in Attempt, AcquireLock(a)
        PROVE  Stopped' /\ NoCardAfterLostAuthority'
    BY <2>2 DEF AcquireLock
  <2>3. ASSUME NEW a \in Attempt, LockTimesOut(a)
        PROVE  Stopped' /\ NoCardAfterLostAuthority'
    BY <2>3 DEF LockTimesOut
  <2>4. ASSUME NEW a \in Attempt, LockAbandoned(a)
        PROVE  Stopped' /\ NoCardAfterLostAuthority'
    BY <2>4 DEF LockAbandoned
  <2>5. ASSUME NEW a \in Attempt, ReauthorizeFails(a)
        PROVE  Stopped' /\ NoCardAfterLostAuthority'
    BY <2>5 DEF ReauthorizeFails
  <2>6. ASSUME NEW a \in Attempt, OpenLedger(a)
        PROVE  Stopped' /\ NoCardAfterLostAuthority'
    BY <2>6 DEF OpenLedger
  <2>7. ASSUME NEW a \in Attempt, ReadConflict(a)
        PROVE  Stopped' /\ NoCardAfterLostAuthority'
    BY <2>7 DEF ReadConflict, ConflictState
  <2>8. ASSUME NEW a \in Attempt, ReadTombstone(a)
        PROVE  Stopped' /\ NoCardAfterLostAuthority'
    BY <2>8 DEF ReadTombstone
  <2>9. ASSUME NEW a \in Attempt, ReadIntent(a)
        PROVE  Stopped' /\ NoCardAfterLostAuthority'
    BY <2>9 DEF ReadIntent
  <2>10. ASSUME NEW a \in Attempt, ReadNothing(a)
        PROVE  Stopped' /\ NoCardAfterLostAuthority'
    BY <2>10 DEF ReadNothing
  <2>11. ASSUME NEW a \in Attempt, NEW b \in Board, ResolveBoard(a, b)
        PROVE  Stopped' /\ NoCardAfterLostAuthority'
    BY <2>11 DEF ResolveBoard
  <2>12. ASSUME NEW a \in Attempt, BoardNotSelected(a)
        PROVE  Stopped' /\ NoCardAfterLostAuthority'
    BY <2>12 DEF BoardNotSelected
  <2>13. ASSUME NEW a \in Attempt, InitializeDefault(a)
        PROVE  Stopped' /\ NoCardAfterLostAuthority'
    BY <2>13 DEF InitializeDefault
  <2>14. ASSUME NEW a \in Attempt, PinGeneration(a)
        PROVE  Stopped' /\ NoCardAfterLostAuthority'
    BY <2>14 DEF PinGeneration
  <2>15. ASSUME NEW a \in Attempt, BoardGone(a)
        PROVE  Stopped' /\ NoCardAfterLostAuthority'
    BY <2>15 DEF BoardGone
  <2>16. ASSUME NEW a \in Attempt, InsertIntent(a)
        PROVE  Stopped' /\ NoCardAfterLostAuthority'
    BY <2>16 DEF InsertIntent
  <2>17. ASSUME NEW a \in Attempt, GenerationLost(a)
        PROVE  Stopped' /\ NoCardAfterLostAuthority'
    BY <2>17 DEF GenerationLost, MismatchState
  <2>18. ASSUME NEW a \in Attempt, GenerationChecked(a)
        PROVE  Stopped' /\ NoCardAfterLostAuthority'
    BY <2>18 DEF GenerationChecked, GenerationHolds
  <2>19. ASSUME NEW a \in Attempt, EnterMutation(a)
        PROVE  Stopped' /\ NoCardAfterLostAuthority'
    BY <2>19 DEF EnterMutation
  <2>20. ASSUME NEW a \in Attempt, OpenBoard(a)
        PROVE  Stopped' /\ NoCardAfterLostAuthority'
    BY <2>20 DEF OpenBoard
  <2>21. ASSUME NEW a \in Attempt, CreateCard(a)
        PROVE  Stopped' /\ NoCardAfterLostAuthority'
    BY <2>21 DEF CreateCard
  <2>22. ASSUME NEW a \in Attempt, ReuseCard(a)
        PROVE  Stopped' /\ NoCardAfterLostAuthority'
    BY <2>22 DEF ReuseCard, Found
  <2>23. ASSUME NEW a \in Attempt, CardUnprovable(a)
        PROVE  Stopped' /\ NoCardAfterLostAuthority'
    BY <2>23 DEF CardUnprovable
  <2>24. ASSUME NEW a \in Attempt, FinalCheck(a)
        PROVE  Stopped' /\ NoCardAfterLostAuthority'
    BY <2>24 DEF FinalCheck
  <2>25. ASSUME NEW a \in Attempt, CommitBoard(a)
        PROVE  Stopped' /\ NoCardAfterLostAuthority'
    BY <2>25 DEF CommitBoard, CreatedNow
  <2>26. ASSUME NEW a \in Attempt, Finalize(a)
        PROVE  Stopped' /\ NoCardAfterLostAuthority'
    BY <2>26 DEF Finalize
  <2>27. ASSUME NEW a \in Attempt, StorageFault(a)
        PROVE  Stopped' /\ NoCardAfterLostAuthority'
    BY <2>27 DEF StorageFault, MismatchState
  <2>28. ASSUME NEW a \in Attempt, CancelCaller(a)
        PROVE  Stopped' /\ NoCardAfterLostAuthority'
    BY <2>28 DEF CancelCaller, Revocable
  <2>29. ASSUME RevokeTurn
        PROVE  Stopped' /\ NoCardAfterLostAuthority'
    BY <2>29 DEF RevokeTurn, Revocable
  <2>30. ASSUME Crash
        PROVE  Stopped' /\ NoCardAfterLostAuthority'
    BY <2>30 DEF Crash
  <2>31. ASSUME NEW b \in Board, RetireBoard(b)
        PROVE  Stopped' /\ NoCardAfterLostAuthority'
    BY <2>31 DEF RetireBoard
  <2>32. ASSUME NEW b \in Board, NEW g \in Gen, ActivateBoard(b, g)
        PROVE  Stopped' /\ NoCardAfterLostAuthority'
    BY <2>32 DEF ActivateBoard
  <2>33. ASSUME NEW g \in Gen, NEW c \in rows[g], EditCard(g, c)
        PROVE  Stopped' /\ NoCardAfterLostAuthority'
    BY <2>33 DEF EditCard
  <2>34. ASSUME NEW g \in Gen, NEW c \in rows[g], DeleteCard(g, c)
        PROVE  Stopped' /\ NoCardAfterLostAuthority'
    BY <2>34 DEF DeleteCard
  <2>35. CASE UNCHANGED vars
    BY <2>35 DEF vars
  <2> QED
    BY <2>1, <2>2, <2>3, <2>4, <2>5, <2>6, <2>7, <2>8, <2>9, <2>10, <2>11,
       <2>12, <2>13, <2>14, <2>15, <2>16, <2>17, <2>18, <2>19, <2>20,
       <2>21, <2>22, <2>23, <2>24, <2>25, <2>26, <2>27, <2>28, <2>29,
       <2>30, <2>31, <2>32, <2>33, <2>34, <2>35
       DEF Next, Thread, Environment
<1> QED
  BY <1>1, <1>2, ControlInvariant, SingleInvariant, PTL DEF Spec

-----------------------------------------------------------------------------
\* Where the board of an attempt's row may be.  A generation that left a slug does
\* not come back, so a check that finds the pinned one there proves that the
\* database opened before it was the pinned one.
Placed ==
    /\ \A b \in Board : at[b] \in used \cup {None}
    /\ \A o \in Op : ledger[o].state # "ABSENT" => ledger[o].gen \in used
    /\ \A a \in Attempt :
         /\ pc[a] = "insert" => job[a].gen \in used
         /\ pc[a] \in {"opened", "locked"} =>
              job[a].conn = Row(a).gen \/ at[Row(a).board] # Row(a).gen
         /\ pc[a] \in {"final", "commit"} => job[a].conn = Row(a).gen
    /\ \A c \in created : c.gen = ledger[c.op].gen

PlacedIfGone == Restorable = {} => Placed

\* PlacedIfGone is inductive relative to Control and Single.
LEMMA PlacedInvariant == Spec => []PlacedIfGone
<1> USE NoneAssumption DEF PlacedIfGone, Placed
<1>1. Init => PlacedIfGone
  BY DEF Init, NoRow
<1>2. Control /\ Single /\ PlacedIfGone /\ [Next]_vars => PlacedIfGone'
  <2> SUFFICES ASSUME Control, Single, Restorable = {}, Placed, [Next]_vars
               PROVE  Placed'
    OBVIOUS
  <2> USE DEF Control, TypeOK, Locals, Pinned, Single, IntentPrecedesCard, Row,
        Resolving, Mutating, Holding, boardVars, turnVars, Goto, Answer, Finish
  <2>1. ASSUME NEW a \in Attempt, NEW o \in Op, NEW p \in Payload, Submit(a, o, p)
        PROVE  Placed'
    BY <2>1 DEF Submit
  <2>2. ASSUME NEW a \in Attempt, AcquireLock(a)
        PROVE  Placed'
    BY <2>2 DEF AcquireLock
  <2>3. ASSUME NEW a \in Attempt, LockTimesOut(a)
        PROVE  Placed'
    BY <2>3 DEF LockTimesOut
  <2>4. ASSUME NEW a \in Attempt, LockAbandoned(a)
        PROVE  Placed'
    BY <2>4 DEF LockAbandoned
  <2>5. ASSUME NEW a \in Attempt, ReauthorizeFails(a)
        PROVE  Placed'
    BY <2>5 DEF ReauthorizeFails
  <2>6. ASSUME NEW a \in Attempt, OpenLedger(a)
        PROVE  Placed'
    BY <2>6 DEF OpenLedger
  <2>7. ASSUME NEW a \in Attempt, ReadConflict(a)
        PROVE  Placed'
    BY <2>7 DEF ReadConflict
  <2>8. ASSUME NEW a \in Attempt, ReadTombstone(a)
        PROVE  Placed'
    BY <2>8 DEF ReadTombstone
  <2>9. ASSUME NEW a \in Attempt, ReadIntent(a)
        PROVE  Placed'
    BY <2>9 DEF ReadIntent
  <2>10. ASSUME NEW a \in Attempt, ReadNothing(a)
        PROVE  Placed'
    BY <2>10 DEF ReadNothing
  <2>11. ASSUME NEW a \in Attempt, NEW b \in Board, ResolveBoard(a, b)
        PROVE  Placed'
    BY <2>11 DEF ResolveBoard
  <2>12. ASSUME NEW a \in Attempt, BoardNotSelected(a)
        PROVE  Placed'
    BY <2>12 DEF BoardNotSelected
  <2>13. ASSUME NEW a \in Attempt, InitializeDefault(a)
        PROVE  Placed'
    BY <2>13 DEF InitializeDefault
  <2>14. ASSUME NEW a \in Attempt, PinGeneration(a)
        PROVE  Placed'
    BY <2>14 DEF PinGeneration
  <2>15. ASSUME NEW a \in Attempt, BoardGone(a)
        PROVE  Placed'
    BY <2>15 DEF BoardGone
  <2>16. ASSUME NEW a \in Attempt, InsertIntent(a)
        PROVE  Placed'
    BY <2>16 DEF InsertIntent, Rows
  <2>17. ASSUME NEW a \in Attempt, GenerationLost(a)
        PROVE  Placed'
    BY <2>17 DEF GenerationLost
  <2>18. ASSUME NEW a \in Attempt, GenerationChecked(a)
        PROVE  Placed'
    BY <2>18 DEF GenerationChecked, GenerationHolds
  <2>19. ASSUME NEW a \in Attempt, EnterMutation(a)
        PROVE  Placed'
    BY <2>19 DEF EnterMutation, Rows
  <2>20. ASSUME NEW a \in Attempt, OpenBoard(a)
        PROVE  Placed'
    BY <2>20 DEF OpenBoard
  <2>21. ASSUME NEW a \in Attempt, CreateCard(a)
        PROVE  Placed'
    BY <2>21 DEF CreateCard, GenerationHolds
  <2>22. ASSUME NEW a \in Attempt, ReuseCard(a)
        PROVE  Placed'
    BY <2>22 DEF ReuseCard, GenerationHolds
  <2>23. ASSUME NEW a \in Attempt, CardUnprovable(a)
        PROVE  Placed'
    BY <2>23 DEF CardUnprovable
  <2>24. ASSUME NEW a \in Attempt, FinalCheck(a)
        PROVE  Placed'
    BY <2>24 DEF FinalCheck
  <2>25. ASSUME NEW a \in Attempt, CommitBoard(a)
        PROVE  Placed'
    BY <2>25 DEF CommitBoard
  <2>26. ASSUME NEW a \in Attempt, Finalize(a)
        PROVE  Placed'
    BY <2>26 DEF Finalize, Rows
  <2>27. ASSUME NEW a \in Attempt, StorageFault(a)
        PROVE  Placed'
    BY <2>27 DEF StorageFault
  <2>28. ASSUME NEW a \in Attempt, CancelCaller(a)
        PROVE  Placed'
    BY <2>28 DEF CancelCaller
  <2>29. ASSUME RevokeTurn
        PROVE  Placed'
    BY <2>29 DEF RevokeTurn
  <2>30. ASSUME Crash
        PROVE  Placed'
    BY <2>30 DEF Crash
  <2>31. ASSUME NEW b \in Board, RetireBoard(b)
        PROVE  Placed'
    BY <2>31 DEF RetireBoard
  <2>32. ASSUME NEW b \in Board, NEW g \in Gen, ActivateBoard(b, g)
        PROVE  Placed'
    BY <2>32 DEF ActivateBoard
  <2>33. ASSUME NEW g \in Gen, NEW c \in rows[g], EditCard(g, c)
        PROVE  Placed'
    BY <2>33 DEF EditCard
  <2>34. ASSUME NEW g \in Gen, NEW c \in rows[g], DeleteCard(g, c)
        PROVE  Placed'
    BY <2>34 DEF DeleteCard
  <2>35. CASE UNCHANGED vars
    BY <2>35 DEF vars
  <2> QED
    BY <2>1, <2>2, <2>3, <2>4, <2>5, <2>6, <2>7, <2>8, <2>9, <2>10,
       <2>11, <2>12, <2>13, <2>14, <2>15, <2>16, <2>17, <2>18, <2>19, <2>20,
       <2>21, <2>22, <2>23, <2>24, <2>25, <2>26, <2>27, <2>28, <2>29, <2>30,
       <2>31, <2>32, <2>33, <2>34, <2>35
       DEF Next, Thread, Environment
<1> QED
  BY <1>1, <1>2, ControlInvariant, SingleInvariant, PTL DEF Spec

\* A card is found in the generation of its board that its durable intent names,
\* whatever crashed, overlapped or replaced the board in between.
THEOREM CardPlaced == Spec => []CardFollowsIntent
<1>1. Single /\ PlacedIfGone => CardFollowsIntent
  BY DEF Single, PlacedIfGone, Placed, CardFollowsIntent, CardOnPinnedBoard
<1> QED
  BY <1>1, SingleInvariant, PlacedInvariant, PTL

-----------------------------------------------------------------------------
\* A ledger row never goes back, never changes the payload, board or generation
\* it pinned, and never changes again once COMMITTED.
THEOREM ForwardLedger == Spec => LedgerForward
<1> DEFINE Forward(o) ==
        /\ Rank(ledger[o].state) <= Rank(ledger'[o].state)
        /\ ledger[o].state # "ABSENT" =>
             /\ ledger'[o].payload = ledger[o].payload
             /\ ledger'[o].board = ledger[o].board
             /\ ledger'[o].gen = ledger[o].gen
        /\ ledger[o].state = "COMMITTED" => ledger'[o] = ledger[o]
<1>1. Control /\ [Next]_vars => \A o \in Op : Forward(o)
  <2> SUFFICES ASSUME Control, [Next]_vars, NEW o \in Op
               PROVE  Forward(o)
    OBVIOUS
  <2> USE DEF Control, TypeOK, Locals, Row, Resolving, Mutating, Rows, States, Rank
  <2>1. ASSUME ledger' = ledger
        PROVE  Forward(o)
    BY <2>1
  <2>2. ASSUME NEW a \in Attempt, InsertIntent(a)
        PROVE  Forward(o)
    BY <2>2 DEF InsertIntent
  <2>3. ASSUME NEW a \in Attempt, EnterMutation(a)
        PROVE  Forward(o)
    BY <2>3 DEF EnterMutation
  <2>4. ASSUME NEW a \in Attempt, Finalize(a)
        PROVE  Forward(o)
    BY <2>4 DEF Finalize
  <2>5. \/ ledger' = ledger
        \/ \E a \in Attempt : InsertIntent(a) \/ EnterMutation(a) \/ Finalize(a)
    BY DEF Next, Thread, Environment, vars, Submit, AcquireLock,
       LockTimesOut, LockAbandoned, ReauthorizeFails,
         OpenLedger, ReadConflict, ReadTombstone, ReadIntent, ReadNothing,
         ResolveBoard, BoardNotSelected, InitializeDefault, PinGeneration,
         BoardGone, GenerationLost, GenerationChecked, OpenBoard,
         CreateCard, ReuseCard, CardUnprovable, FinalCheck, CommitBoard,
         StorageFault, CancelCaller, RevokeTurn, Crash, RetireBoard,
         ActivateBoard, EditCard, DeleteCard
  <2> QED BY <2>1, <2>2, <2>3, <2>4, <2>5
<1>2. Control /\ [Next]_vars => [\A o \in Op : Forward(o)]_vars
  BY <1>1
<1> QED
  BY <1>2, ControlInvariant, PTL DEF Spec, LedgerForward

-----------------------------------------------------------------------------
(***************************************************************************)
(* KanbanLedger implements KanbanPromise.                                  *)
(***************************************************************************)

\* With at most one card per operation, CardOf picks that card.
LEMMA CardOfCreated ==
    ASSUME AtMostOneCard, NEW c \in created
    PROVE  CardOf(c.op) = c.task
  BY DEF CardOf, AtMostOneCard

\* An operation with no committed card has no card in the promise.
LEMMA CardOfNothing ==
    ASSUME NEW o \in Op, \A c \in created : c.op # o
    PROVE  CardOf(o) = None
  BY DEF CardOf

\* A thread that leaves with an answer is a Respond, or a Lose if its caller
\* was cancelled.
LEMMA AnswerRefines ==
    ASSUME Control, AnswersLast, NEW a \in Attempt,
           NEW kind \in {"acknowledged", "historical", "committed",
                         "not_committed", "unknown", "denied"},
           NEW task \in Attempt \cup {None},
           pc[a] \notin {"idle", "done"},
           Answer(a, kind, task),
           Promise!Truthful(a, kind, task),
           job' = job, created' = created
    PROVE  Promise!Next
<1> USE NoneAssumption DEF Control, TypeOK, Locals
<1>1. /\ job[a].op # None
      /\ reply[a] = [kind |-> "none", task |-> None]
  BY DEF AnswersLast
<1>2. \A o \in Op : CardOf(o)' = CardOf(o)
  BY DEF CardOf
<1>3. CASE a \notin cancelled
  <2>1. Promise!Respond(a, kind, task)
    BY <1>1, <1>2, <1>3 DEF Promise!Respond, Promise!NoAnswer, Answer
  <2> QED BY <2>1 DEF Promise!Next
<1>4. CASE a \in cancelled
  <2>1. reply' = [b \in Attempt |-> IF b \in {a} THEN [kind |-> "lost", task |-> None]
                                               ELSE reply[b]]
    BY <1>4 DEF Answer
  <2>2. Promise!Lose({a})
    BY <1>1, <1>2, <2>1 DEF Promise!Lose, Promise!NoAnswer
  <2> QED BY <2>2 DEF Promise!Next
<1> QED BY <1>3, <1>4

\* Answers that claim nothing need no more than the control point.
LEMMA SilentAnswerRefines ==
    ASSUME Control, AnswersLast, NEW a \in Attempt,
           NEW kind \in {"unknown", "denied"},
           pc[a] \notin {"idle", "done"},
           Answer(a, kind, None),
           job' = job, created' = created
    PROVE  Promise!Next
  BY AnswerRefines DEF Promise!Truthful

\* "not_committed" from a typed error is only said when no card can exist.
LEMMA NegativeAnswerRefines ==
    ASSUME Control, Single, AnswersLast, NEW a \in Attempt,
           pc[a] \notin {"idle", "done"},
           Row(a).state \in {"ABSENT", "PREPARED"},
           Answer(a, "not_committed", None),
           job' = job, created' = created
    PROVE  Promise!Next
<1>1. job[a].op \in Op
  BY DEF Control, Locals
<1>2. \A c \in created : c.op # job[a].op
  BY DEF Single, IntentPrecedesCard, Row
<1>3. CardOf(job[a].op) = None
  BY <1>1, <1>2, CardOfNothing
<1>4. Promise!Truthful(a, "not_committed", None)
  BY <1>1, <1>3 DEF Promise!Truthful
<1> QED BY <1>4, AnswerRefines

\* Steps that the promise does not see.
LEMMA StutterRefines ==
    ASSUME reply' = reply, created' = created,
           \A a \in Attempt : job'[a].op = job[a].op
    PROVE  UNCHANGED Promise!vars
<1>1. [o \in Op |-> CardOf(o)]' = [o \in Op |-> CardOf(o)]
  BY DEF CardOf
<1>2. [a \in Attempt |-> job[a].op]' = [a \in Attempt |-> job[a].op]
  OBVIOUS
<1> QED BY <1>1, <1>2 DEF Promise!vars

\* An attempt that was not made yet asks for nothing.
Idle ==
    \A a \in Attempt : pc[a] = "idle" => job[a].op = None

\* Idle is inductive relative to Control.
LEMMA IdleInvariant == Spec => []Idle
<1> USE DEF Idle
<1>1. Init => Idle
  BY DEF Init, NoJob
<1>2. Control /\ Idle /\ [Next]_vars => Idle'
  <2> SUFFICES ASSUME Control, Idle, [Next]_vars
               PROVE  Idle'
    OBVIOUS
  <2> USE DEF Control, TypeOK, Holding, boardVars, turnVars, Goto, Answer, Finish
  <2>1. ASSUME NEW a \in Attempt, NEW o \in Op, NEW p \in Payload, Submit(a, o, p)
        PROVE  Idle'
    BY <2>1 DEF Submit
  <2>2. ASSUME NEW a \in Attempt, AcquireLock(a)
        PROVE  Idle'
    BY <2>2 DEF AcquireLock
  <2>3. ASSUME NEW a \in Attempt, LockTimesOut(a)
        PROVE  Idle'
    BY <2>3 DEF LockTimesOut
  <2>4. ASSUME NEW a \in Attempt, LockAbandoned(a)
        PROVE  Idle'
    BY <2>4 DEF LockAbandoned
  <2>5. ASSUME NEW a \in Attempt, ReauthorizeFails(a)
        PROVE  Idle'
    BY <2>5 DEF ReauthorizeFails
  <2>6. ASSUME NEW a \in Attempt, OpenLedger(a)
        PROVE  Idle'
    BY <2>6 DEF OpenLedger
  <2>7. ASSUME NEW a \in Attempt, ReadConflict(a)
        PROVE  Idle'
    BY <2>7 DEF ReadConflict, ConflictState
  <2>8. ASSUME NEW a \in Attempt, ReadTombstone(a)
        PROVE  Idle'
    BY <2>8 DEF ReadTombstone
  <2>9. ASSUME NEW a \in Attempt, ReadIntent(a)
        PROVE  Idle'
    BY <2>9 DEF ReadIntent
  <2>10. ASSUME NEW a \in Attempt, ReadNothing(a)
        PROVE  Idle'
    BY <2>10 DEF ReadNothing
  <2>11. ASSUME NEW a \in Attempt, NEW b \in Board, ResolveBoard(a, b)
        PROVE  Idle'
    BY <2>11 DEF ResolveBoard
  <2>12. ASSUME NEW a \in Attempt, BoardNotSelected(a)
        PROVE  Idle'
    BY <2>12 DEF BoardNotSelected
  <2>13. ASSUME NEW a \in Attempt, InitializeDefault(a)
        PROVE  Idle'
    BY <2>13 DEF InitializeDefault
  <2>14. ASSUME NEW a \in Attempt, PinGeneration(a)
        PROVE  Idle'
    BY <2>14 DEF PinGeneration
  <2>15. ASSUME NEW a \in Attempt, BoardGone(a)
        PROVE  Idle'
    BY <2>15 DEF BoardGone
  <2>16. ASSUME NEW a \in Attempt, InsertIntent(a)
        PROVE  Idle'
    BY <2>16 DEF InsertIntent
  <2>17. ASSUME NEW a \in Attempt, GenerationLost(a)
        PROVE  Idle'
    BY <2>17 DEF GenerationLost, MismatchState
  <2>18. ASSUME NEW a \in Attempt, GenerationChecked(a)
        PROVE  Idle'
    BY <2>18 DEF GenerationChecked, GenerationHolds
  <2>19. ASSUME NEW a \in Attempt, EnterMutation(a)
        PROVE  Idle'
    BY <2>19 DEF EnterMutation
  <2>20. ASSUME NEW a \in Attempt, OpenBoard(a)
        PROVE  Idle'
    BY <2>20 DEF OpenBoard
  <2>21. ASSUME NEW a \in Attempt, CreateCard(a)
        PROVE  Idle'
    BY <2>21 DEF CreateCard
  <2>22. ASSUME NEW a \in Attempt, ReuseCard(a)
        PROVE  Idle'
    BY <2>22 DEF ReuseCard, Found
  <2>23. ASSUME NEW a \in Attempt, CardUnprovable(a)
        PROVE  Idle'
    BY <2>23 DEF CardUnprovable
  <2>24. ASSUME NEW a \in Attempt, FinalCheck(a)
        PROVE  Idle'
    BY <2>24 DEF FinalCheck
  <2>25. ASSUME NEW a \in Attempt, CommitBoard(a)
        PROVE  Idle'
    BY <2>25 DEF CommitBoard, CreatedNow
  <2>26. ASSUME NEW a \in Attempt, Finalize(a)
        PROVE  Idle'
    BY <2>26 DEF Finalize
  <2>27. ASSUME NEW a \in Attempt, StorageFault(a)
        PROVE  Idle'
    BY <2>27 DEF StorageFault, MismatchState
  <2>28. ASSUME NEW a \in Attempt, CancelCaller(a)
        PROVE  Idle'
    BY <2>28 DEF CancelCaller
  <2>29. ASSUME RevokeTurn
        PROVE  Idle'
    BY <2>29 DEF RevokeTurn
  <2>30. ASSUME Crash
        PROVE  Idle'
    BY <2>30 DEF Crash
  <2>31. ASSUME NEW b \in Board, RetireBoard(b)
        PROVE  Idle'
    BY <2>31 DEF RetireBoard
  <2>32. ASSUME NEW b \in Board, NEW g \in Gen, ActivateBoard(b, g)
        PROVE  Idle'
    BY <2>32 DEF ActivateBoard
  <2>33. ASSUME NEW g \in Gen, NEW c \in rows[g], EditCard(g, c)
        PROVE  Idle'
    BY <2>33 DEF EditCard
  <2>34. ASSUME NEW g \in Gen, NEW c \in rows[g], DeleteCard(g, c)
        PROVE  Idle'
    BY <2>34 DEF DeleteCard
  <2>35. CASE UNCHANGED vars
    BY <2>35 DEF vars
  <2> QED
    BY <2>1, <2>2, <2>3, <2>4, <2>5, <2>6, <2>7, <2>8, <2>9, <2>10, <2>11,
       <2>12, <2>13, <2>14, <2>15, <2>16, <2>17, <2>18, <2>19, <2>20,
       <2>21, <2>22, <2>23, <2>24, <2>25, <2>26, <2>27, <2>28, <2>29,
       <2>30, <2>31, <2>32, <2>33, <2>34, <2>35
       DEF Next, Thread, Environment
<1> QED
  BY <1>1, <1>2, ControlInvariant, PTL DEF Spec

\* The ledger, the flock and the board transactions together give a caller of
\* g2_kanban_task_create exactly what KanbanPromise states: every step of every
\* thread, of a crash and of the wearer is a step of the promise or none.
THEOREM Refinement == Spec => ImplementsPromise
<1>1. Init => Promise!Init
  BY DEF Init, NoJob, CardOf, Promise!Init, Promise!NoAnswer
<1>2. Control /\ Single /\ Claims /\ Idle /\ [Next]_vars
      => [Promise!Next]_(Promise!vars)
  <2> SUFFICES ASSUME Control, Single, Claims, Idle, [Next]_vars
               PROVE  Promise!Next \/ UNCHANGED Promise!vars
    OBVIOUS
  <2> USE DEF Claims, boardVars, turnVars, Finish
  <2>1. ASSUME NEW a \in Attempt, NEW o \in Op, NEW p \in Payload, Submit(a, o, p)
        PROVE  Promise!Next \/ UNCHANGED Promise!vars
    <3>1. [b \in Attempt |-> job[b].op]' = [[b \in Attempt |-> job[b].op] EXCEPT ![a] = o]
      <4>1. job \in [Attempt -> Jobs]
        BY DEF Control, TypeOK
      <4>2. job' = [job EXCEPT ![a] = [job[a] EXCEPT !.op = o, !.payload = p]]
        BY <2>1, <4>1 DEF Submit
      <4>3. [job[a] EXCEPT !.op = o, !.payload = p].op = o
        BY <4>1 DEF Jobs
      <4>4. job'[a].op = o
        BY <4>1, <4>2, <4>3
      <4>5. \A b \in Attempt : b # a => job'[b] = job[b]
        BY <4>1, <4>2
      <4> QED BY <4>4, <4>5
    <3>2. job[a].op = None
      BY <2>1 DEF Submit, Idle
    <3>3. [k \in Op |-> CardOf(k)]' = [k \in Op |-> CardOf(k)] /\ reply' = reply
      BY <2>1 DEF Submit, CardOf
    <3>4. Promise!Request(a, o)
      BY <3>1, <3>2, <3>3 DEF Promise!Request
    <3> QED BY <3>4 DEF Promise!Next
  <2>2. ASSUME NEW a \in Attempt, AcquireLock(a)
        PROVE  Promise!Next \/ UNCHANGED Promise!vars
    BY <2>2, StutterRefines DEF AcquireLock
  <2>3. ASSUME NEW a \in Attempt, LockTimesOut(a)
        PROVE  Promise!Next \/ UNCHANGED Promise!vars
    <3>1. Answer(a, "unknown", None) /\ pc[a] \notin {"idle", "done"}
      BY <2>3 DEF LockTimesOut
    <3> QED BY <2>3, <3>1, SilentAnswerRefines DEF LockTimesOut
  <2>4. ASSUME NEW a \in Attempt, LockAbandoned(a)
        PROVE  Promise!Next \/ UNCHANGED Promise!vars
    <3>1. Answer(a, "denied", None) /\ pc[a] \notin {"idle", "done"}
      BY <2>4 DEF LockAbandoned
    <3> QED BY <2>4, <3>1, SilentAnswerRefines DEF LockAbandoned
  <2>5. ASSUME NEW a \in Attempt, ReauthorizeFails(a)
        PROVE  Promise!Next \/ UNCHANGED Promise!vars
    <3>1. pc[a] \notin {"idle", "done"} /\ job' = job /\ created' = created
      BY <2>5 DEF ReauthorizeFails
    <3>2. CASE Uncertain(a)
      BY <2>5, <3>1, <3>2, SilentAnswerRefines DEF ReauthorizeFails
    <3>3. CASE ~Uncertain(a)
      BY <2>5, <3>1, <3>3, SilentAnswerRefines DEF ReauthorizeFails
    <3> QED BY <3>2, <3>3
  <2>6. ASSUME NEW a \in Attempt, OpenLedger(a)
        PROVE  Promise!Next \/ UNCHANGED Promise!vars
    BY <2>6, StutterRefines DEF OpenLedger
  <2>7. ASSUME NEW a \in Attempt, ReadConflict(a)
        PROVE  Promise!Next \/ UNCHANGED Promise!vars
    <3>1. pc[a] \notin {"idle", "done"} /\ job' = job /\ created' = created
      BY <2>7 DEF ReadConflict
    <3>2. CASE Row(a).state = "PREPARED"
      BY <2>7, <3>1, <3>2, NegativeAnswerRefines DEF ReadConflict, ConflictState
    <3>3. CASE Row(a).state = "MUTATING"
      BY <2>7, <3>1, <3>3, SilentAnswerRefines DEF ReadConflict, ConflictState
    <3>4. CASE Row(a).state = "COMMITTED"
      <4>1. job[a].op \in Op
        BY <3>1 DEF Control, Locals
      <4>2. PICK c \in created : c.op = job[a].op /\ c.task = Row(a).task
        BY <3>4, <4>1 DEF Claims, TombstoneNamesCard, Row
      <4>3. CardOf(job[a].op) # None
        BY <4>2, CardOfCreated, NoneAssumption DEF Single, Control, TypeOK
      <4>4. Promise!Truthful(a, "committed", None)
        BY <4>1, <4>3 DEF Promise!Truthful
      <4>5. Answer(a, "committed", None)
        BY <2>7, <3>4 DEF ReadConflict, ConflictState, Finish
      <4> QED BY <3>1, <4>4, <4>5, AnswerRefines
    <3>5. job[a].op \in Op /\ Row(a).state \in States
      BY <3>1 DEF Control, Locals, TypeOK, Row, Rows
    <3> QED BY <2>7, <3>2, <3>3, <3>4, <3>5 DEF ReadConflict, States
  <2>8. ASSUME NEW a \in Attempt, ReadTombstone(a)
        PROVE  Promise!Next \/ UNCHANGED Promise!vars
    <3>1. job[a].op \in Op
      BY <2>8 DEF ReadTombstone, Control, Locals
    <3>2. PICK c \in created : c.op = job[a].op /\ c.task = Row(a).task
      BY <2>8, <3>1 DEF ReadTombstone, Claims, TombstoneNamesCard, Row
    <3>3. CardOf(job[a].op) = Row(a).task /\ Row(a).task \in Attempt
      BY <3>2, CardOfCreated DEF Single, Control, TypeOK
    <3>4. Promise!Truthful(a, "historical", Row(a).task)
      BY <3>1, <3>3, NoneAssumption DEF Promise!Truthful
    <3> QED BY <2>8, <3>3, <3>4, AnswerRefines DEF ReadTombstone, Finish
  <2>9. ASSUME NEW a \in Attempt, ReadIntent(a)
        PROVE  Promise!Next \/ UNCHANGED Promise!vars
    BY <2>9, StutterRefines DEF ReadIntent
  <2>10. ASSUME NEW a \in Attempt, ReadNothing(a)
        PROVE  Promise!Next \/ UNCHANGED Promise!vars
    BY <2>10, StutterRefines DEF ReadNothing
  <2>11. ASSUME NEW a \in Attempt, NEW b \in Board, ResolveBoard(a, b)
        PROVE  Promise!Next \/ UNCHANGED Promise!vars
    BY <2>11, StutterRefines DEF ResolveBoard
  <2>12. ASSUME NEW a \in Attempt, BoardNotSelected(a)
        PROVE  Promise!Next \/ UNCHANGED Promise!vars
    <3>1. Row(a).state = "ABSENT" /\ pc[a] \notin {"idle", "done"}
      BY <2>12 DEF BoardNotSelected, Control, Locals, Resolving
    <3> QED BY <2>12, <3>1, NegativeAnswerRefines DEF BoardNotSelected
  <2>13. ASSUME NEW a \in Attempt, InitializeDefault(a)
        PROVE  Promise!Next \/ UNCHANGED Promise!vars
    BY <2>13, StutterRefines DEF InitializeDefault
  <2>14. ASSUME NEW a \in Attempt, PinGeneration(a)
        PROVE  Promise!Next \/ UNCHANGED Promise!vars
    BY <2>14, StutterRefines DEF PinGeneration
  <2>15. ASSUME NEW a \in Attempt, BoardGone(a)
        PROVE  Promise!Next \/ UNCHANGED Promise!vars
    <3>1. Answer(a, "unknown", None) /\ pc[a] \notin {"idle", "done"}
      BY <2>15 DEF BoardGone
    <3> QED BY <2>15, <3>1, SilentAnswerRefines DEF BoardGone
  <2>16. ASSUME NEW a \in Attempt, InsertIntent(a)
        PROVE  Promise!Next \/ UNCHANGED Promise!vars
    BY <2>16, StutterRefines DEF InsertIntent
  <2>17. ASSUME NEW a \in Attempt, GenerationLost(a)
        PROVE  Promise!Next \/ UNCHANGED Promise!vars
    <3>1. pc[a] \notin {"idle", "done"} /\ job' = job /\ created' = created
      BY <2>17 DEF GenerationLost, Holding
    <3>2. CASE pc[a] = "recheck" /\ Row(a).state = "PREPARED"
      BY <2>17, <3>1, <3>2, NegativeAnswerRefines DEF GenerationLost,
         MismatchState
    <3>3. CASE ~(pc[a] = "recheck" /\ Row(a).state = "PREPARED")
      BY <2>17, <3>1, <3>3, SilentAnswerRefines DEF GenerationLost, MismatchState
    <3> QED BY <3>2, <3>3
  <2>18. ASSUME NEW a \in Attempt, GenerationChecked(a)
        PROVE  Promise!Next \/ UNCHANGED Promise!vars
    BY <2>18, StutterRefines DEF GenerationChecked
  <2>19. ASSUME NEW a \in Attempt, EnterMutation(a)
        PROVE  Promise!Next \/ UNCHANGED Promise!vars
    BY <2>19, StutterRefines DEF EnterMutation
  <2>20. ASSUME NEW a \in Attempt, OpenBoard(a)
        PROVE  Promise!Next \/ UNCHANGED Promise!vars
    BY <2>20, StutterRefines DEF OpenBoard
  <2>21. ASSUME NEW a \in Attempt, CreateCard(a)
        PROVE  Promise!Next \/ UNCHANGED Promise!vars
    BY <2>21, StutterRefines DEF CreateCard
  <2>22. ASSUME NEW a \in Attempt, ReuseCard(a)
        PROVE  Promise!Next \/ UNCHANGED Promise!vars
    BY <2>22, StutterRefines DEF ReuseCard
  <2>23. ASSUME NEW a \in Attempt, CardUnprovable(a)
        PROVE  Promise!Next \/ UNCHANGED Promise!vars
    <3>1. Answer(a, "unknown", None) /\ pc[a] \notin {"idle", "done"}
      BY <2>23 DEF CardUnprovable
    <3> QED BY <2>23, <3>1, SilentAnswerRefines DEF CardUnprovable
  <2>24. ASSUME NEW a \in Attempt, FinalCheck(a)
        PROVE  Promise!Next \/ UNCHANGED Promise!vars
    BY <2>24, StutterRefines DEF FinalCheck
  <2>25. ASSUME NEW a \in Attempt, CommitBoard(a)
        PROVE  Promise!Next \/ UNCHANGED Promise!vars
    <3>1. CASE ~CreatedNow(a)
      BY <2>25, <3>1, StutterRefines DEF CommitBoard
    <3>2. CASE CreatedNow(a)
      <4> DEFINE d == [op |-> job[a].op, task |-> a, gen |-> job[a].conn]
      <4>1. created' = created \cup {d} /\ job' = job /\ reply' = reply
        BY <2>25, <3>2 DEF CommitBoard
      <4>2. job[a].op \in Op /\ reply[a] = [kind |-> "none", task |-> None]
        BY <2>25 DEF CommitBoard, Control, Locals, Claims, AnswersLast
      <4>3. \A c \in created : c.op # job[a].op
        BY <2>25, <3>2 DEF CommitBoard, Single, Untried
      <4>4. CardOf(job[a].op) = None
        BY <4>2, <4>3, CardOfNothing
      <4>5. CardOf(job[a].op)' = a
        <5>1. \A c \in created' : c.op = job[a].op => c = d
          BY <4>1, <4>3
        <5>2. d \in created' /\ d.op = job[a].op /\ d.task = a
          BY <4>1
        <5> HIDE DEF d
        <5> QED BY <4>1, <5>1, <5>2 DEF CardOf
      <4>6. \A o \in Op : o # job[a].op => CardOf(o)' = CardOf(o)
        <5> SUFFICES ASSUME NEW o \in Op, o # job[a].op
                     PROVE  CardOf(o)' = CardOf(o)
          OBVIOUS
        <5>1. {c \in created' : c.op = o} = {c \in created : c.op = o}
          BY <4>1
        <5>2. CardOf(o) = IF {c \in created : c.op = o} # {}
                          THEN (CHOOSE c : c \in {k \in created : k.op = o}).task
                          ELSE None
          BY DEF CardOf
        <5> QED BY <5>1 DEF CardOf
      <4>7. Promise!Create(a)
        BY <4>1, <4>2, <4>4, <4>5, <4>6, NoneAssumption
           DEF Promise!Create, Promise!NoAnswer
      <4> QED BY <4>7 DEF Promise!Next
    <3> QED BY <3>1, <3>2
  <2>26. ASSUME NEW a \in Attempt, Finalize(a)
        PROVE  Promise!Next \/ UNCHANGED Promise!vars
    <3>1. job[a].op \in Op
      BY <2>26 DEF Finalize, Control, Locals
    <3>2. PICK c \in created : c.op = job[a].op /\ c.task = job[a].task
      BY <2>26 DEF Finalize, Claims, HeldCardExists
    <3>3. CardOf(job[a].op) = job[a].task /\ job[a].task \in Attempt
      BY <3>2, CardOfCreated DEF Single, Control, TypeOK
    <3>4. CASE CreatedNow(a)
      <4>1. Promise!Truthful(a, "acknowledged", job[a].task)
        BY <3>1, <3>3, <3>4 DEF Promise!Truthful, CreatedNow
      <4> QED BY <2>26, <3>3, <3>4, <4>1, AnswerRefines DEF Finalize, Finish
    <3>5. CASE ~CreatedNow(a)
      <4>1. Promise!Truthful(a, "historical", job[a].task)
        BY <3>1, <3>3, NoneAssumption DEF Promise!Truthful
      <4> QED BY <2>26, <3>3, <3>5, <4>1, AnswerRefines DEF Finalize, Finish
    <3> QED BY <3>4, <3>5
  <2>27. ASSUME NEW a \in Attempt, StorageFault(a)
        PROVE  Promise!Next \/ UNCHANGED Promise!vars
    <3>1. pc[a] \notin {"idle", "done"} /\ job' = job /\ created' = created
      BY <2>27 DEF StorageFault, Holding
    <3>2. CASE pc[a] = "recheck" /\ Row(a).state = "PREPARED"
      BY <2>27, <3>1, <3>2, NegativeAnswerRefines DEF StorageFault, MismatchState
    <3>3. CASE ~(pc[a] = "recheck" /\ Row(a).state = "PREPARED")
      BY <2>27, <3>1, <3>3, SilentAnswerRefines DEF StorageFault, MismatchState
    <3> QED BY <3>2, <3>3
  <2>28. ASSUME NEW a \in Attempt, CancelCaller(a)
        PROVE  Promise!Next \/ UNCHANGED Promise!vars
    BY <2>28, StutterRefines DEF CancelCaller
  <2>29. ASSUME RevokeTurn
        PROVE  Promise!Next \/ UNCHANGED Promise!vars
    BY <2>29, StutterRefines DEF RevokeTurn
  <2>30. ASSUME Crash
        PROVE  Promise!Next \/ UNCHANGED Promise!vars
    <3> DEFINE S == {b \in Attempt : pc[b] \notin {"idle", "done"}}
    <3>1. reply' = [b \in Attempt |-> IF b \in S THEN [kind |-> "lost", task |-> None]
                                               ELSE reply[b]]
      BY <2>30 DEF Crash, Claims, AnswersLast
    <3>2. \A b \in S : job[b].op # None /\ reply[b] = [kind |-> "none", task |-> None]
      BY NoneAssumption DEF Control, Locals, Claims, AnswersLast
    <3>3. [k \in Op |-> CardOf(k)]' = [k \in Op |-> CardOf(k)] /\ job' = job
      BY <2>30 DEF Crash, CardOf
    <3>4. Promise!Lose(S)
      BY <3>1, <3>2, <3>3 DEF Promise!Lose, Promise!NoAnswer
    <3> QED BY <3>4 DEF Promise!Next
  <2>31. ASSUME NEW b \in Board, RetireBoard(b)
        PROVE  Promise!Next \/ UNCHANGED Promise!vars
    BY <2>31, StutterRefines DEF RetireBoard
  <2>32. ASSUME NEW b \in Board, NEW g \in Gen, ActivateBoard(b, g)
        PROVE  Promise!Next \/ UNCHANGED Promise!vars
    BY <2>32, StutterRefines DEF ActivateBoard
  <2>33. ASSUME NEW g \in Gen, NEW c \in rows[g], EditCard(g, c)
        PROVE  Promise!Next \/ UNCHANGED Promise!vars
    BY <2>33, StutterRefines DEF EditCard
  <2>34. ASSUME NEW g \in Gen, NEW c \in rows[g], DeleteCard(g, c)
        PROVE  Promise!Next \/ UNCHANGED Promise!vars
    BY <2>34, StutterRefines DEF DeleteCard
  <2>35. CASE UNCHANGED vars
    BY StutterRefines, <2>35 DEF vars
  <2> QED
    BY <2>1, <2>2, <2>3, <2>4, <2>5, <2>6, <2>7, <2>8, <2>9, <2>10, <2>11,
       <2>12, <2>13, <2>14, <2>15, <2>16, <2>17, <2>18, <2>19, <2>20,
       <2>21, <2>22, <2>23, <2>24, <2>25, <2>26, <2>27, <2>28, <2>29,
       <2>30, <2>31, <2>32, <2>33, <2>34, <2>35
       DEF Next, Thread, Environment
<1> QED
  BY <1>1, <1>2, ControlInvariant, SingleInvariant, ClaimsInvariant,
     IdleInvariant, PTL DEF Spec, ImplementsPromise, Promise!Spec

=============================================================================

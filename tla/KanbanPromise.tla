---------------------------- MODULE KanbanPromise ----------------------------
(***************************************************************************)
(* What a caller of `g2_kanban_task_create` may rely on, without the       *)
(* ledger, the flock and the board databases that achieve it: an operation *)
(* gets at most one card, an attempt gets at most one answer, and an       *)
(* answer that claims something about the card is true when it is given.   *)
(***************************************************************************)
CONSTANTS
    Op,        \* operation identities
    Attempt,   \* calls; a card is named by the call that created it
    None       \* no operation, no card

VARIABLES
    request,   \* the operation each call is about, None before it is made
    card,      \* the card each operation has ever got
    answer     \* the answer of each call

vars == <<request, card, answer>>

NoAnswer == [kind |-> "none", task |-> None]

Init ==
    /\ request = [a \in Attempt |-> None]
    /\ card = [o \in Op |-> None]
    /\ answer = [a \in Attempt |-> NoAnswer]

Request(a, o) ==
    /\ request[a] = None
    /\ request' = [request EXCEPT ![a] = o]
    /\ UNCHANGED <<card, answer>>

\* A call still at work gives its operation the one card.
Create(a) ==
    /\ request[a] # None
    /\ answer[a] = NoAnswer
    /\ card[request[a]] = None
    /\ card' = [card EXCEPT ![request[a]] = a]
    /\ UNCHANGED <<request, answer>>

\* "unknown" and "denied" claim nothing about the card.
Truthful(a, kind, task) ==
    CASE kind = "acknowledged"  -> task = a /\ card[request[a]] = a
      [] kind = "historical"    -> task # None /\ card[request[a]] = task
      [] kind = "committed"     -> task = None /\ card[request[a]] # None
      [] kind = "not_committed" -> task = None /\ card[request[a]] = None
      [] kind \in {"unknown", "denied"} -> task = None

Respond(a, kind, task) ==
    /\ request[a] # None
    /\ answer[a] = NoAnswer
    /\ Truthful(a, kind, task)
    /\ answer' = [answer EXCEPT ![a] = [kind |-> kind, task |-> task]]
    /\ UNCHANGED <<request, card>>

\* The callers go away, or the process dies under several calls at once.
Lose(S) ==
    /\ \A a \in S : request[a] # None /\ answer[a] = NoAnswer
    /\ answer' = [a \in Attempt |->
                    IF a \in S THEN [kind |-> "lost", task |-> None]
                               ELSE answer[a]]
    /\ UNCHANGED <<request, card>>

Next ==
    \/ \E a \in Attempt, o \in Op : Request(a, o)
    \/ \E a \in Attempt : Create(a)
    \/ \E a \in Attempt, task \in Attempt \cup {None},
          kind \in {"acknowledged", "historical", "committed",
                    "not_committed", "unknown", "denied"} :
         Respond(a, kind, task)
    \/ \E S \in SUBSET Attempt : Lose(S)

Spec == Init /\ [][Next]_vars
=============================================================================

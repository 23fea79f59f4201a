----------------------------- MODULE ReadPromise -----------------------------
(***************************************************************************)
(* What the live readers promise the wearer and the sites they read.  No   *)
(* more than Limit reads of a reader are at work with a browser, a browser *)
(* sends no more than Quota requests, and none once its read is over or    *)
(* its handler has answered, and a result is told only to the turn that    *)
(* asked, while that is still active.  That a browser is gone with its     *)
(* read is not promised: closing it may fail, take too long or be skipped, *)
(* and it is left behind then.  Reads implements it with semaphores,       *)
(* deadlines, tasks that are cancelled and threads that cannot be.         *)
(***************************************************************************)
EXTENDS Naturals, FiniteSets, WearerTurns

CONSTANTS Read, Weather, TurnOf, Limit, Quota

VARIABLES
    browser,  \* of each read: "before", "open" while at work, "over" or "left"
    sent,     \* requests it has sent
    reply     \* the answer of each handler

vars == <<active, past, browser, sent, reply>>

Init ==
    /\ TurnsInit
    /\ browser = [r \in Read |-> "before"]
    /\ sent = [r \in Read |-> 0]
    /\ reply = [r \in Read |-> "none"]

Turns == TurnsNext /\ UNCHANGED <<browser, sent, reply>>

\* The reads of the same reader that are at work.
Beside(r) == {s \in Read : browser[s] = "open" /\ (s \in Weather <=> r \in Weather)}

Open(r) ==
    /\ browser[r] = "before" /\ browser' = [browser EXCEPT ![r] = "open"]
    /\ TurnOf[r] \in past \cup {active}
    /\ Cardinality(Beside(r)) < Limit
    /\ UNCHANGED <<turnVars, sent, reply>>

Send(r) ==
    /\ browser[r] = "open" /\ reply[r] = "none" /\ sent[r] < Quota
    /\ sent' = [sent EXCEPT ![r] = @ + 1]
    /\ UNCHANGED <<turnVars, browser, reply>>

\* Also of a read that never had a browser, which leaves none behind.
Close(r) ==
    /\ \/ browser[r] \in {"before", "open"} /\ browser' = [browser EXCEPT ![r] = "over"]
       \/ browser[r] = "open" /\ browser' = [browser EXCEPT ![r] = "left"]
    /\ UNCHANGED <<turnVars, sent, reply>>

Answers(r, what) ==
    /\ reply[r] = "none" /\ reply' = [reply EXCEPT ![r] = what]
    /\ TurnOf[r] \in past \cup {active}
    /\ r \in Weather => browser[r] # "open"
    /\ what = "result" => browser[r] \in {"over", "left"} /\ active = TurnOf[r]

\* A train's handler that gives up may take its thread out of the executor's queue.
Answer(r, what) ==
    /\ Answers(r, what)
    /\ \/ browser' = browser
       \/ browser[r] = "before" /\ browser' = [browser EXCEPT ![r] = "over"]
    /\ UNCHANGED <<turnVars, sent>>

Next ==
    \/ Turns
    \/ \E r \in Read :
         \/ Open(r) \/ Send(r) \/ Close(r)
         \/ \E what \in {"failure", "result"} : Answer(r, what)

Spec == Init /\ [][Next]_vars
=============================================================================

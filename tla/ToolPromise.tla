----------------------------- MODULE ToolPromise -----------------------------
(***************************************************************************)
(* What a handler of a phone tool promises its caller.  Here there is no   *)
(* connection, request, timeout or lock: a call is handed to the phone at  *)
(* most once, for its turn and before its handler answers; the phone may   *)
(* do it at any later time, or never; and the one answer says of all this  *)
(* only what is so.  A call can be turned down at any time before it is    *)
(* handed over, also while its turn is the active one.  DeviceCalls        *)
(* implements it over connections that come and go.                        *)
(***************************************************************************)
EXTENDS WearerTurns

CONSTANTS Job, TurnOf, Durable, Mutating

VARIABLES
    handed,   \* calls given to the phone
    executed, \* calls the phone has done
    reply     \* the answer of each handler

vars == <<active, past, handed, executed, reply>>

\* Answers by which a handler that changes something says it changed nothing ...
Denials == {"not_committed", "permission", "contract_drift", "unavailable"}

\* ... those of them that any handler only gives to a call it did not hand over ...
TurnedDown == {"not_committed", "permission", "contract_drift"}

\* ... and answers that leave it open.
Open == {"unknown", "outcome_unknown", "phone_error", "cancelled"}

Init ==
    /\ TurnsInit
    /\ handed = {} /\ executed = {}
    /\ reply = [j \in Job |-> "none"]

Turns == TurnsNext /\ UNCHANGED <<handed, executed, reply>>

\* Authorized at this moment, not at an earlier one.
HandOver(j) ==
    /\ reply[j] = "none" /\ TurnOf[j] \in {None, active}
    /\ j \notin handed /\ handed' = handed \cup {j}
    /\ UNCHANGED <<turnVars, executed, reply>>

\* Perhaps long after the handler has answered.
Execute(j) ==
    /\ j \in handed
    /\ executed' = executed \cup {j}
    /\ UNCHANGED <<turnVars, handed, reply>>

Answer(j, what) ==
    /\ reply[j] = "none" /\ reply' = [reply EXCEPT ![j] = what]
    /\ TurnOf[j] \in past \cup {active, None}
    /\ what = "success" => j \in executed
    /\ what \in TurnedDown => j \notin handed
    /\ what \in Denials /\ j \in Mutating => j \notin handed
    /\ j \in Durable => what \in {"success", "not_committed", "unknown", "cancelled"}
    /\ UNCHANGED <<turnVars, handed, executed>>

Next ==
    \/ Turns
    \/ \E j \in Job :
         \/ HandOver(j) \/ Execute(j)
         \/ \E what \in Denials \cup Open \cup {"success"} : Answer(j, what)

Spec == Init /\ [][Next]_vars
=============================================================================

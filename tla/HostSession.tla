----------------------------- MODULE HostSession -----------------------------
(***************************************************************************)
(* A host session: its Cockpit and its cue lane over one connection and    *)
(* one frame loop.  (VoiceTurn models the voice lane and the replacement   *)
(* of connections in full.)                                                *)
(***************************************************************************)
EXTENDS Cockpit, CueLane

vars == <<connVars, cockpitVars, cueVars>>

ASSUME FrameAssumption == Turn \cap CueReq = {}

Init == ConnectionInit /\ CockpitInit /\ CueInit

\* The phone goes; the session is closed and forgets what it holds.
Dropped == Drop /\ UNCHANGED <<cockpitVars, cueVars>>
Closed == Close /\ CockpitCleared /\ CuesCleared

Next ==
    \/ Dropped \/ Closed
    \/ CockpitNext /\ UNCHANGED cueVars
    \/ CueNext /\ UNCHANGED cockpitVars

Spec == Init /\ [][Next]_vars

\* The event loop resumes whoever may go on, agents end, deadlines fire, and a
\* session that was dropped is closed.  None of these steps repeats, so fairness
\* of all of them together is fairness of each.
FairSpec ==
    /\ Spec
    /\ WF_vars(\/ ~attached /\ Closed
               \/ (\E t \in Turn : TurnProceeds(t)) /\ UNCHANGED cueVars
               \/ (\E r \in CueReq : CueProceeds(r)) /\ UNCHANGED cockpitVars)

\* Every variable has its type.
TypeOK ==
    /\ attached \in BOOLEAN /\ closed \in BOOLEAN
    /\ frame \in Turn \cup CueReq \cup {None}
    /\ CockpitTypeOK /\ CueTypeOK

\* Every variable has its type, and what a session shows, what it waits for and
\* what an answer would be given to agree: through expiry, answers behind an
\* interrupt, and the end of the turn.
Consistent == TypeOK /\ ItemsHaveBackends /\ StateIsPending

\* Every session shows its end or is gone once the turns have ended, and every cue
\* request is decided, also when the phone goes in between.
LanesEnd == SessionsEnd /\ CuesResolve
=============================================================================

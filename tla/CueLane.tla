-------------------------------- MODULE CueLane --------------------------------
(***************************************************************************)
(* The Conversate cue lane of a host session (host_mcp.py): a request for  *)
(* cues starts a job beside the frame loop, the newest request wins, and a *)
(* deadline cancels a slow job.  The job's provider (adapter.py and, behind*)
(* it, the gateway's auxiliary model) may ignore a cancellation.           *)
(***************************************************************************)
EXTENDS HostConnection

CONSTANT CueReq    \* request ids of cue requests, each used once

ASSUME CueAssumption == None \notin CueReq

VARIABLES
    cueUsed,      \* requests the phone has made
    cueNewest,    \* the last of them
    cuePending,   \* _pending_conversate_cues
    cueJob,       \* the task of each request
    cueAnswers,   \* history: the answers each request got
    cueServed     \* history: the requests that got cues

cueVars == <<cueUsed, cueNewest, cuePending, cueJob, cueAnswers, cueServed>>

\* "overdue": the deadline has passed and the provider ignored it; "cancelled":
\* the task was cancelled from outside and has not ended yet.
Jobs == {"none", "run", "overdue", "cancelled", "ended"}

CueInit ==
    /\ cueUsed = {} /\ cueNewest = None /\ cuePending = {}
    /\ cueJob = [r \in CueReq |-> "none"]
    /\ cueAnswers = [r \in CueReq |-> 0]
    /\ cueServed = {}

-----------------------------------------------------------------------------
\* Mutant: the session is looked at, the entry is not.
Taken_Open(r) == ~closed

\* `_take_pending_conversate_cues`: the one place where a request is decided.
Taken(r) == ~closed /\ r \in cuePending

\* An answer to request r; it reaches the phone as long as that is attached.
Answer(r) == cueAnswers' = [cueAnswers EXCEPT ![r] = IF attached THEN @ + 1 ELSE @]

\* `_cancel_conversate_cues` for a pending request: answered at once; its task,
\* which may take its time, is not waited for.
Withdrawn(r) ==
    /\ cuePending' = cuePending \ {r}
    /\ cueJob' = [cueJob EXCEPT ![r] = "cancelled"]
    /\ Answer(r)

\* The job of request r starts.
Launch(r) ==
    /\ cuePending' = cuePending \cup {r}
    /\ cueJob' = [cueJob EXCEPT ![r] = "run"]
    /\ UNCHANGED cueAnswers

\* A request while none is pending; while one is, that is superseded first.
RequestCues(r) ==
    /\ Listening /\ r \notin cueUsed
    /\ cueUsed' = cueUsed \cup {r} /\ cueNewest' = r
    /\ \/ cuePending = {} /\ Launch(r) /\ UNCHANGED frame
       \/ \E p \in cuePending : Withdrawn(p) /\ frame' = r
    /\ UNCHANGED <<attached, closed, cueServed>>

\* The older request has its answer: the new job starts.  Without a phone that
\* answer could not be sent and the handler breaks off, or it was sent just before;
\* a closed session starts nothing.
CuesContinue(r) ==
    /\ frame = r /\ frame' = None
    /\ \/ ~closed /\ Launch(r)
       \/ ~attached /\ UNCHANGED <<cuePending, cueJob, cueAnswers>>
    /\ UNCHANGED <<attached, closed, cueUsed, cueNewest, cueServed>>

\* notifications/cancelled for the request.
CancelCues(r) ==
    /\ Listening /\ r \in cuePending /\ Withdrawn(r)
    /\ UNCHANGED <<connVars, cueUsed, cueNewest, cueServed>>

\* The task ends; what it has to say is said if the request is still its own.
JobEnds(r) ==
    /\ cueJob' = [cueJob EXCEPT ![r] = "ended"]
    /\ cuePending' = cuePending \ {r}
    /\ IF Taken(r) THEN Answer(r) ELSE UNCHANGED cueAnswers
    /\ UNCHANGED <<connVars, cueUsed, cueNewest>>

\* The provider returns cues, perhaps late and in spite of a cancellation.
CuesReturned(r) ==
    /\ cueJob[r] \in {"run", "overdue", "cancelled"} /\ JobEnds(r)
    /\ cueServed' = IF Taken(r) /\ attached THEN cueServed \cup {r} ELSE cueServed

\* It raises, or returns something else.
CuesFailed(r) ==
    /\ cueJob[r] \in {"run", "overdue", "cancelled"} /\ JobEnds(r)
    /\ UNCHANGED cueServed

\* Mutant: a job that misses its deadline says nothing.
Deadline_Silent(r) ==
    /\ cueJob[r] = "run"
    /\ cueJob' = [cueJob EXCEPT ![r] = "ended"]
    /\ UNCHANGED <<connVars, cueUsed, cueNewest, cuePending, cueAnswers, cueServed>>

\* The deadline cancels the provider, which ends the job or ignores it.
Deadline(r) ==
    /\ cueJob[r] = "run"
    /\ \/ JobEnds(r)
       \/ /\ cueJob' = [cueJob EXCEPT ![r] = "overdue"]
          /\ UNCHANGED <<connVars, cueUsed, cueNewest, cuePending, cueAnswers>>
    /\ UNCHANGED cueServed

\* `close()` cancels the pending job and forgets its request.
CuesCleared ==
    /\ cuePending' = {}
    /\ cueJob' = [r \in CueReq |-> IF r \in cuePending THEN "cancelled" ELSE cueJob[r]]
    /\ UNCHANGED <<cueUsed, cueNewest, cueAnswers, cueServed>>

\* What the lane does of itself.
CueProceeds(r) ==
    CuesContinue(r) \/ CuesReturned(r) \/ CuesFailed(r) \/ Deadline(r)

CueNext == \E r \in CueReq : RequestCues(r) \/ CancelCues(r) \/ CueProceeds(r)

-----------------------------------------------------------------------------
(***************************************************************************)
(* Properties.                                                             *)
(***************************************************************************)

\* Every variable has its type, and a pending request has a job that can answer it.
CueTypeOK ==
    /\ cueUsed \subseteq CueReq /\ cueNewest \in CueReq \cup {None}
    /\ cuePending \subseteq cueUsed
    /\ cueJob \in [CueReq -> Jobs]
    /\ cueAnswers \in [CueReq -> Nat]
    /\ cueServed \subseteq cueUsed
    /\ \A r \in cuePending : cueJob[r] \in {"run", "overdue"}

\* A cue request gets at most one answer, although its job, its deadline, a
\* cancellation and a newer request race for it, and at most one request is
\* pending: once the newest has started, no older one gets cues.
OneCueAnswer ==
    /\ \A r \in CueReq : cueAnswers[r] <= 1
    /\ cuePending \subseteq {cueNewest}

\* A cue request is answered while the session is open, unless its provider ignores
\* the deadline.
CuesResolve ==
    <>[](\A r \in cueUsed : cueAnswers[r] > 0 \/ cueJob[r] = "overdue" \/ closed)
=============================================================================

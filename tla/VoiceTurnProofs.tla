--------------------------- MODULE VoiceTurnProofs ---------------------------
(***************************************************************************)
(* Proofs about VoiceTurn for any number of connections, requests and turn *)
(* ids, whichever of them a phone chooses.                                 *)
(***************************************************************************)
EXTENDS VoiceTurn, TLAPS

-----------------------------------------------------------------------------
(* Types. *)

\* A coroutine that starts a turn has a request, whose turn has an id.
Starting ==
    \A s \in Sock :
      at[s] \in {"replace", "project", "dispatch", "undo", "refuse"} =>
        req[s] # None /\ name[Mine(s)] # None

\* An entry of `_turns` holds a turn of that id, and the active one is there.
Registered ==
    /\ active # None => turns[active] # None
    /\ \A t \in TurnId : turns[t] # None => name[turns[t]] = t

\* A pending request has not used up the last place of `_completed`.
Budget == \A s \in Sock : pending[s] # None => spent[s] <= MaxRequests

\* A binding without a turn has had nothing, and an open session remembers every
\* request it has had.
Fresh ==
    /\ \A b \in Binding : name[b] = None =>
         fin[b] = "no" /\ task[b] = "none" /\ reply[b] = <<>>
    /\ \A s \in Sock, r \in Req :
         name[<<s, r>>] # None /\ life[s] # "closed" => pending[s] = r \/ r \in done[s]

Typed == TypeOK /\ Starting /\ Registered /\ Budget /\ Fresh

Stages == {"out", "hello", "supersede", "ack", "loop", "replace", "project",
           "dispatch", "undo", "refuse", "cancel", "fatal", "leaving", "gone"}
Tasks == {"none", "queued", "running", "cancelling", "hook", "done"}

\* Jobs have their type, a victim to drop and a turn to cancel.
JobsTyped ==
    /\ job \in [Actor -> Jobs]
    /\ \A x \in Actor :
        /\ job[x].at \in {"notify", "socket"} => job[x].victim # None
        /\ job[x].at \in {"cancel", "finish"} => job[x].turn # None

LEMMA Bindings ==
    /\ \A b \in Binding : b[1] \in Sock /\ b[2] \in Req /\ b = <<b[1], b[2]>>
    /\ \A s \in Sock, r \in Req : <<s, r>> \in Binding
    /\ None \notin Sock /\ None \notin Req /\ None \notin TurnId /\ None \notin Binding
BY NoneAssumption DEF Binding

LEMMA Actors ==
    /\ \A s \in Sock : Handler(s) \in Actor /\ Watcher(s) \in Actor
    /\ Shutdown \in Actor
BY DEF Actor, Handler, Watcher, Shutdown

\* A turn that is forgotten leaves its own entry only.
LEMMA ForgetTyped ==
    ASSUME Typed, NEW b \in Binding, Forget(b), name' = name
    PROVE  /\ turns' \in [TurnId -> Binding \cup {None}]
           /\ active' \in TurnId \cup {None}
           /\ begun' \subseteq Binding
           /\ Registered'
BY Bindings DEF Typed, TypeOK, Registered, Forget, Tracked

\* A cancellation starts nothing.
LEMMA CancelForTyped ==
    ASSUME Typed, NEW x \in Actor, NEW b \in Binding, NEW next \in {"forget", "finish"},
           CancelFor(x, b, next)
    PROVE  /\ JobsTyped'
           /\ task' \in [Binding -> Tasks]
           /\ \A c \in Binding : /\ task'[c] = "hook" => task[c] = "hook"
                                 /\ task[c] = "none" => task'[c] = "none"
<1> USE DEF Typed, TypeOK
<1>1. JobsTyped'
  BY Bindings DEF CancelFor, JobsTyped, Jobs, Alive
<1>2. /\ task' \in [Binding -> Tasks]
      /\ \A c \in Binding : /\ task'[c] = "hook" => task[c] = "hook"
                            /\ task[c] = "none" => task'[c] = "none"
  BY DEF CancelFor, CancelTasks, Tasks
<1> QED
  BY <1>1, <1>2

\* A job that is over is idle.
LEMMA IdleTyped ==
    ASSUME Typed, NEW x \in Actor, job' = [job EXCEPT ![x] = Idle]
    PROVE  JobsTyped'
BY DEF Typed, TypeOK, JobsTyped, Jobs, Idle

\* So does one that reaches its next stage.
LEMMA StageTyped ==
    ASSUME Typed, NEW x \in Actor, NEW stage \in {"socket", "finish"},
           job' = [job EXCEPT ![x].at = stage],
           stage = "socket" => job[x].victim # None,
           stage = "finish" => job[x].turn # None
    PROVE  JobsTyped'
<1>1. job' \in [Actor -> Jobs]
  <2>1. job \in [Actor -> Jobs]
    BY DEF Typed, TypeOK
  <2>2. CASE stage = "socket"
    BY <2>1, <2>2 DEF Jobs
  <2>3. CASE stage = "finish"
    BY <2>1, <2>3 DEF Jobs
  <2> QED BY <2>2, <2>3
<1>2. \A y \in Actor : y # x => job'[y] = job[y]
  BY DEF Typed, TypeOK
<1>3. job'[x].at = stage /\ job'[x].victim = job[x].victim /\ job'[x].turn = job[x].turn
  BY DEF Typed, TypeOK, Jobs
<1> QED
  BY <1>1, <1>2, <1>3 DEF Typed, TypeOK, JobsTyped

LEMMA CancelActiveTyped ==
    ASSUME Typed, NEW x \in Actor, NEW next \in {"forget", "finish"}, CancelActive(x, next)
    PROVE  /\ JobsTyped'
           /\ task' \in [Binding -> Tasks]
           /\ \A c \in Binding : /\ task'[c] = "hook" => task[c] = "hook"
                                 /\ task[c] = "none" => task'[c] = "none"
<1>1. CASE active = None
  BY <1>1, IdleTyped DEF CancelActive, Typed, TypeOK, Tasks
<1>2. CASE active # None
  <2>1. turns[active] \in Binding
    BY <1>2 DEF Typed, TypeOK, Registered
  <2> QED BY <1>2, <2>1, CancelForTyped DEF CancelActive
<1> QED
  BY <1>1, <1>2

\* A drop has a victim.
LEMMA VictimTyped ==
    ASSUME Typed, NEW x \in Actor, NEW stage \in {"notify", "socket"}, NEW s \in Sock,
           job' = [job EXCEPT ![x] = [Idle EXCEPT !.at = stage, !.victim = s]]
    PROVE  JobsTyped'
BY Bindings DEF Typed, TypeOK, JobsTyped, Jobs, Idle

\* A drop that is announced has a victim.
LEMMA DropLoudTyped ==
    ASSUME Typed, NEW x \in Actor, DropLoud(x), phone # None
    PROVE  JobsTyped' /\ phone' = None
BY Bindings DEF Typed, TypeOK, DropLoud, JobsTyped, Jobs, Idle

\* A request that is completed stays within the budget.
LEMMA CompleteTyped ==
    ASSUME Typed, NEW b \in Binding, Complete(b), pending[b[1]] = b[2],
           name' = name, life' = life
    PROVE  /\ pending' \in [Sock -> Req \cup {None}]
           /\ done' \in [Sock -> SUBSET Req]
           /\ spent' \in [Sock -> 0..(MaxRequests + 1)]
           /\ Budget'
           /\ \A s \in Sock, r \in Req :
                name'[<<s, r>>] # None /\ life'[s] # "closed" =>
                  pending'[s] = r \/ r \in done'[s]
<1> USE Bindings, BudgetAssumption DEF Typed, TypeOK, Complete
<1>1. b[1] \in Sock /\ b[2] \in Req /\ spent[b[1]] \in 0 .. MaxRequests
  BY DEF Budget
<1>2. spent' \in [Sock -> 0..(MaxRequests + 1)]
  BY <1>1
<1>3. Budget'
  BY DEF Budget
<1>4. \A s \in Sock, r \in Req :
        name'[<<s, r>>] # None /\ life'[s] # "closed" =>
          pending'[s] = r \/ r \in done'[s]
  BY DEF Fresh
<1> QED
  BY <1>2, <1>3, <1>4

\* So is one whose start fails.
LEMMA StartFailsTyped ==
    ASSUME Typed, NEW s \in Sock, StartFails(s),
           at[s] \in {"replace", "project", "dispatch", "undo"},
           name' = name, life' = life, req' = req
    PROVE  /\ pending' \in [Sock -> Req \cup {None}]
           /\ done' \in [Sock -> SUBSET Req]
           /\ spent' \in [Sock -> 0..(MaxRequests + 1)]
           /\ at' \in [Sock -> Stages]
           /\ Starting' /\ Budget'
           /\ \A u \in Sock, r \in Req :
                name'[<<u, r>>] # None /\ life'[u] # "closed" =>
                  pending'[u] = r \/ r \in done'[u]
<1>1. req[s] \in Req /\ Mine(s) \in Binding /\ Mine(s)[1] = s /\ Mine(s)[2] = req[s]
  BY Bindings DEF Typed, TypeOK, Starting, Mine
<1>2. at' \in [Sock -> Stages] /\ Starting'
  <2>1. at' = [at EXCEPT ![s] = "refuse"] \/ at' = [at EXCEPT ![s] = "loop"]
    BY DEF StartFails
  <2>2. at \in [Sock -> Stages]
    BY DEF Typed, TypeOK, Stages
  <2>3. at' \in [Sock -> Stages]
    BY <2>1, <2>2 DEF Stages
  <2>4. Starting'
    BY <2>1, <2>2 DEF Typed, Starting, Mine
  <2> QED BY <2>3, <2>4
<1>3. CASE pending[s] = req[s]
  BY <1>1, <1>2, <1>3, CompleteTyped DEF StartFails
<1>4. CASE pending[s] # req[s]
  BY <1>2, <1>4 DEF StartFails, Typed, TypeOK, Budget, Fresh
<1> QED
  BY <1>3, <1>4

\* A closed session has no requests.
LEMMA CloseHostTyped ==
    ASSUME Typed, NEW s \in Sock, CloseHost(s), name' = name
    PROVE  /\ life' \in [Sock -> {"new", "initializing", "initialized", "closed"}]
           /\ pending' \in [Sock -> Req \cup {None}]
           /\ done' \in [Sock -> SUBSET Req]
           /\ spent' \in [Sock -> 0..(MaxRequests + 1)]
           /\ Budget'
           /\ \A u \in Sock, r \in Req :
                name'[<<u, r>>] # None /\ life'[u] # "closed" =>
                  pending'[u] = r \/ r \in done'[u]
BY BudgetAssumption DEF Typed, TypeOK, CloseHost, Budget, Fresh

\* A connection that ends drops its phone, if it is still its own.
LEMMA LeaveTyped ==
    ASSUME Typed, NEW s \in Sock, Leave(s)
    PROVE  Typed'
<1> USE DEF Typed, TypeOK, hostVars, turnVars, finVars
<1>1. Starting'
  BY DEF Leave, Starting, Mine
<1>2. at' \in [Sock -> Stages]
  BY DEF Leave, Stages
<1>3. CASE phone = s
  <2>1. CloseHost(s) /\ StopWatch(s) /\ CancelActive(Handler(s), "forget")
    BY <1>3 DEF Leave
  <2>2. JobsTyped' /\ task' \in [Binding -> Tasks]
        /\ \A c \in Binding : /\ task'[c] = "hook" => task[c] = "hook"
                              /\ task[c] = "none" => task'[c] = "none"
    BY <2>1, Actors, CancelActiveTyped
  <2>3. Budget' /\ Fresh'
    BY <2>1, <2>2, CloseHostTyped DEF Leave, Fresh
  <2>4. TypeOK'
    BY <1>2, <1>3, <2>1, <2>2, CloseHostTyped
       DEF Leave, StopWatch, JobsTyped, Tasks, Stages
  <2> QED BY <1>1, <2>3, <2>4 DEF Leave, Registered
<1>4. CASE phone # s
  <2>1. JobsTyped'
    BY <1>4, Actors, IdleTyped DEF Leave
  <2>2. TypeOK'
    BY <1>2, <1>4, <2>1 DEF Leave, JobsTyped, Stages
  <2> QED BY <1>1, <1>4, <2>2 DEF Leave, Registered, Budget, Fresh
<1> QED
  BY <1>3, <1>4

\* So does the handler of a failed start whose turn has lost the lane.
LEMMA UndoTyped ==
    ASSUME Typed, NEW s \in Sock, Undo(s), at[s] \in {"project", "dispatch"},
           UNCHANGED <<connVars, req, asked, name, finVars, reply>>
    PROVE  Typed'
<1> USE DEF Typed, TypeOK, connVars, finVars, turnVars
<1>1. Mine(s) \in Binding
  BY Bindings DEF Starting, Mine
<1>2. CASE Owns(Mine(s))
  <2>1. CancelFor(Handler(s), Mine(s), "forget")
    BY <1>2 DEF Undo
  <2>2. JobsTyped' /\ task' \in [Binding -> Tasks]
        /\ \A c \in Binding : /\ task'[c] = "hook" => task[c] = "hook"
                              /\ task[c] = "none" => task'[c] = "none"
    BY <1>1, <2>1, Actors, CancelForTyped
  <2>3. at' \in [Sock -> Stages] /\ Starting'
    BY <1>2 DEF Undo, Stages, Starting, Mine
  <2>4. TypeOK'
    BY <1>2, <2>2, <2>3 DEF Undo, JobsTyped, Tasks, Stages
  <2> QED BY <1>2, <2>2, <2>3, <2>4 DEF Undo, Registered, Budget, Fresh
<1>3. CASE ~Owns(Mine(s))
  <2>1. Forget(Mine(s)) /\ StartFails(s) /\ UNCHANGED <<job, task>>
    BY <1>3 DEF Undo
  <2>2. /\ turns' \in [TurnId -> Binding \cup {None}]
        /\ active' \in TurnId \cup {None}
        /\ begun' \subseteq Binding
        /\ Registered'
    BY <1>1, <2>1, ForgetTyped
  <2>3. TypeOK'
    BY <2>1, <2>2, StartFailsTyped DEF Stages
  <2>4. Starting' /\ Budget' /\ Fresh'
    BY <2>1, StartFailsTyped DEF Fresh
  <2> QED BY <2>2, <2>3, <2>4
<1> QED
  BY <1>2, <1>3

\* And the end of a turn.
LEMMA BeginFinishTyped ==
    ASSUME Typed, NEW b \in Binding, NEW reason \in StopReasons,
           BeginFinish(b, reason), Tracked(b), ~Finished(b), name' = name
    PROVE  /\ why' \in [Binding -> StopReasons]
           /\ fin' = [fin EXCEPT ![b] = IF phone = b[1] THEN "projecting" ELSE "over"]
           /\ turns' \in [TurnId -> Binding \cup {None}]
           /\ active' \in TurnId \cup {None}
           /\ begun' \subseteq Binding
           /\ Registered'
<1>1. why' \in [Binding -> StopReasons]
      /\ fin' = [fin EXCEPT ![b] = IF phone = b[1] THEN "projecting" ELSE "over"]
  BY DEF Typed, TypeOK, BeginFinish
<1>2. CASE phone = b[1]
  BY <1>1, <1>2 DEF Typed, TypeOK, BeginFinish, turnVars, Registered
<1>3. CASE phone # b[1]
  BY <1>1, <1>3, ForgetTyped DEF BeginFinish
<1> QED
  BY <1>2, <1>3

\* Typed holds in every state.
THEOREM TypedInvariant == Spec => []Typed
<1>1. Init => Typed
  <2> SUFFICES ASSUME Init PROVE Typed
    OBVIOUS
  <2>1. TypeOK
    BY BudgetAssumption DEF Init, TypeOK, Jobs, Idle, StopReasons
  <2>2. Starting
    BY DEF Init, Starting
  <2>3. Registered /\ Budget
    BY DEF Init, Registered, Budget
  <2>4. Fresh
    BY Bindings DEF Init, Fresh
  <2> QED BY <2>1, <2>2, <2>3, <2>4 DEF Typed
<1>2. Typed /\ [Next]_vars => Typed'
  <2> SUFFICES ASSUME Typed, [Next]_vars
               PROVE  Typed'
    OBVIOUS
  <2> USE DEF Typed, connVars, hostVars, turnVars, finVars
  <2>t. /\ at \in [Sock -> Stages]
        /\ link \in [Sock -> {"out", "open", "closed"}]
        /\ life \in [Sock -> {"new", "initializing", "initialized", "closed"}]
    BY DEF TypeOK, Stages
  <2>1. ASSUME NEW s \in Sock, Peer(s)
        PROVE  Typed'
    <3>1. at' \in [Sock -> Stages] /\ Starting'
      <4>1. at' = at \/ at' = [at EXCEPT ![s] = "hello"]
        BY <2>1 DEF Peer, Connect, LinkCloses
      <4>2. req' = req /\ name' = name
        BY <2>1 DEF Peer, Connect, LinkCloses
      <4> QED BY <2>t, <4>1, <4>2 DEF Starting, Mine, Stages
    <3>2. link' \in [Sock -> {"out", "open", "closed"}]
      <4>1. \/ link' = [link EXCEPT ![s] = "open"]
            \/ link' = [link EXCEPT ![s] = "closed"]
        BY <2>1 DEF Peer, Connect, LinkCloses
      <4> QED BY <2>t, <4>1
    <3>3. UNCHANGED <<up, phone, req, life, watch, hostVars, name, turnVars, finVars,
                      task, job, reply>>
      BY <2>1 DEF Peer, Connect, LinkCloses
    <3>4. TypeOK'
      BY <3>1, <3>2, <3>3 DEF TypeOK, Stages
    <3> QED BY <3>1, <3>3, <3>4 DEF Registered, Budget, Fresh
  <2>2. ASSUME NEW s \in Sock, HelloSupersedes(s)
        PROVE  Typed'
    <3>1. JobsTyped' /\ phone' = None
      BY <2>2, Actors, DropLoudTyped DEF HelloSupersedes
    <3>2. TypeOK'
      BY <2>2, <3>1 DEF HelloSupersedes, JobsTyped, TypeOK
    <3> QED BY <2>2, <3>2 DEF HelloSupersedes, TypeOK, Starting, Mine, Registered,
                              Budget, Fresh
  <2>3. ASSUME NEW s \in Sock, Attach(s) \/ Acked(s)
        PROVE  Typed'
    <3>1. at' \in [Sock -> Stages] /\ Starting'
      <4>1. /\ at' = [at EXCEPT ![s] = "ack"] \/ at' = [at EXCEPT ![s] = "loop"]
            /\ req' = req /\ name' = name
        BY <2>3 DEF Attach, Acked
      <4> QED BY <2>t, <4>1 DEF Starting, Mine, Stages
    <3>2. /\ phone' \in Sock \cup {None}
          /\ watch' \in [Sock -> {"off", "armed", "dropping"}]
      BY <2>3 DEF Attach, Acked, TypeOK
    <3>3. UNCHANGED <<up, link, req, life, hostVars, name, turnVars, finVars,
                      task, job, reply>>
      BY <2>3 DEF Attach, Acked
    <3>4. TypeOK'
      BY <3>1, <3>2, <3>3 DEF TypeOK, Stages
    <3> QED BY <3>1, <3>3, <3>4 DEF Registered, Budget, Fresh
  <2>4. ASSUME NEW s \in Sock, DeadlineExpires(s)
        PROVE  Typed'
    <3>1. JobsTyped' /\ phone' \in Sock \cup {None}
      BY <2>4, Actors, Bindings, DropLoudTyped DEF DeadlineExpires, TypeOK, JobsTyped
    <3>2. TypeOK'
      BY <2>4, <3>1 DEF DeadlineExpires, JobsTyped, TypeOK
    <3> QED BY <2>4, <3>2 DEF DeadlineExpires, Starting, Mine, Registered, Budget,
                              Fresh
  <2>5. ASSUME NEW x \in Actor, DropNotified(x)
        PROVE  Typed'
    <3>1. job[x].victim \in Sock
      BY <2>5 DEF DropNotified, TypeOK, Jobs
    <3>2. CloseHost(job[x].victim) /\ StopWatch(job[x].victim)
      BY <2>5 DEF DropNotified
    <3>3. JobsTyped'
      BY <2>5, StageTyped DEF DropNotified, TypeOK
    <3>4. TypeOK'
      BY <2>5, <3>1, <3>2, <3>3, CloseHostTyped
         DEF DropNotified, StopWatch, TypeOK, JobsTyped
    <3>5. Budget' /\ Fresh'
      BY <2>5, <3>1, <3>2, CloseHostTyped DEF DropNotified, Fresh
    <3> QED BY <2>5, <3>4, <3>5 DEF DropNotified, Starting, Mine, Registered
  <2>6. ASSUME NEW x \in Actor, DropClosed(x)
        PROVE  Typed'
    <3>1. JobsTyped' /\ task' \in [Binding -> Tasks]
          /\ \A c \in Binding : /\ task'[c] = "hook" => task[c] = "hook"
                                /\ task[c] = "none" => task'[c] = "none"
      BY <2>6, CancelActiveTyped DEF DropClosed
    <3>2. link' \in [Sock -> {"out", "open", "closed"}]
      BY <2>6 DEF DropClosed, TypeOK
    <3>3. TypeOK'
      BY <2>6, <3>1, <3>2 DEF DropClosed, TypeOK, JobsTyped, Tasks
    <3> QED BY <2>6, <3>1, <3>3 DEF DropClosed, Starting, Mine, Registered, Budget,
                                    Fresh, TypeOK
  <2>7. ASSUME NEW x \in Actor, Cancelled(x)
        PROVE  Typed'
    <3> DEFINE b == job[x].turn
    <3>1. b \in Binding
      BY <2>7 DEF Cancelled, TypeOK, Jobs
    <3> HIDE DEF b
    <3>2. /\ JobsTyped'
          /\ UNCHANGED <<connVars, at, req, hostVars, name, task, reply>>
      <4>1. CASE job' = [job EXCEPT ![x] = Idle]
        BY <2>7, <4>1, IdleTyped DEF Cancelled
      <4>2. CASE job' = [job EXCEPT ![x].at = "finish"]
        BY <2>7, <4>2, StageTyped DEF Cancelled, TypeOK
      <4> QED BY <2>7, <4>1, <4>2 DEF Cancelled
    <3>3. CASE Forget(b) /\ UNCHANGED finVars
      BY <3>1, <3>2, <3>3, ForgetTyped
         DEF TypeOK, JobsTyped, Starting, Mine, Budget, Fresh
    <3>4. CASE BeginFinish(b, "cancelled") /\ Tracked(b) /\ ~Finished(b)
      <4>1. /\ why' \in [Binding -> StopReasons]
            /\ fin' = [fin EXCEPT ![b] = IF phone = b[1] THEN "projecting" ELSE "over"]
            /\ turns' \in [TurnId -> Binding \cup {None}]
            /\ active' \in TurnId \cup {None}
            /\ begun' \subseteq Binding
            /\ Registered'
        BY <3>1, <3>2, <3>4, BeginFinishTyped DEF StopReasons
      <4>2. TypeOK'
        BY <3>1, <3>2, <3>4, <4>1 DEF TypeOK, JobsTyped, Finished
      <4> QED BY <3>1, <3>2, <3>4, <4>1, <4>2
              DEF TypeOK, Starting, Mine, Budget, Fresh, Tracked
    <3>5. CASE UNCHANGED <<turnVars, finVars>>
      BY <3>2, <3>5 DEF TypeOK, JobsTyped, Starting, Mine, Registered, Budget, Fresh
    <3> QED BY <2>7, <3>3, <3>4, <3>5 DEF Cancelled, b
  <2>8. ASSUME NEW s \in Sock, ConnectionEnds(s)
        PROVE  Typed'
    BY <2>8, LeaveTyped DEF ConnectionEnds
  <2>9. ASSUME NEW s \in Sock, DropReturns(s)
        PROVE  Typed'
    BY <2>9 DEF DropReturns, TypeOK, Starting, Mine, Registered, Budget, Fresh
  <2>10. CASE Disconnect
    <3>1. up' \in BOOLEAN /\ link' \in [Sock -> {"out", "open", "closed"}]
      BY <2>10 DEF Disconnect, TypeOK
    <3>2. CASE phone = None
      <4>1. UNCHANGED <<phone, life, watch, job, at, req, hostVars, name, turnVars,
                        finVars, task, reply>>
        BY <2>10, <3>2 DEF Disconnect
      <4>2. TypeOK'
        BY <3>1, <4>1 DEF TypeOK
      <4> QED BY <4>1, <4>2 DEF Starting, Mine, Registered, Budget, Fresh
    <3>3. CASE phone # None
      <4>1. phone \in Sock /\ CloseHost(phone) /\ StopWatch(phone)
        BY <2>10, <3>3 DEF Disconnect, TypeOK
      <4>2. JobsTyped'
        BY <2>10, <3>3, <4>1, Actors, VictimTyped DEF Disconnect
      <4>3. TypeOK'
        BY <2>10, <3>3, <3>1, <4>1, <4>2, CloseHostTyped
           DEF Disconnect, TypeOK, JobsTyped, StopWatch
      <4>4. Budget' /\ Fresh'
        BY <2>10, <4>1, CloseHostTyped DEF Disconnect, Fresh
      <4> QED BY <2>10, <4>3, <4>4 DEF Disconnect, Starting, Mine, Registered
    <3> QED BY <3>2, <3>3
  <2>11. ASSUME NEW s \in Sock, Initialize(s) \/ OtherRequest(s)
         PROVE  Typed'
    <3>1. spent' \in [Sock -> 0..(MaxRequests + 1)] /\ Budget'
      <4>1. spent[s] \in 0 .. (MaxRequests + 1) /\ spent[s] < MaxRequests
            /\ spent' = [spent EXCEPT ![s] = @ + 1] /\ pending' = pending
        BY <2>11 DEF Initialize, OtherRequest, Spend, TypeOK
      <4>2. spent[s] + 1 \in 0 .. MaxRequests
        BY <4>1, BudgetAssumption
      <4> QED BY <4>1, <4>2, BudgetAssumption DEF TypeOK, Budget
    <3>2. TypeOK'
      <4>1. life' \in [Sock -> {"new", "initializing", "initialized", "closed"}]
        BY <2>11, <2>t DEF Initialize, OtherRequest
      <4> QED BY <2>11, <3>1, <4>1 DEF Initialize, OtherRequest, TypeOK
    <3>3. Fresh'
      BY <2>11 DEF Initialize, OtherRequest, Fresh, TypeOK
    <3> QED BY <2>11, <3>1, <3>2, <3>3 DEF Initialize, OtherRequest, Starting, Mine, Registered
  <2>12. ASSUME NEW s \in Sock, Initialized(s)
         PROVE  Typed'
    BY <2>12 DEF Initialized, StopWatch, TypeOK, Starting, Mine, Registered, Budget, Fresh
  <2>13. ASSUME NEW s \in Sock, Exhausted(s)
         PROVE  Typed'
    <3>1. JobsTyped' /\ phone' = None
      BY <2>13, Actors, Bindings, DropLoudTyped DEF Exhausted, Receives
    <3>2. CloseHost(s)
      BY <2>13 DEF Exhausted
    <3>3. TypeOK'
      BY <2>13, <3>1, <3>2, CloseHostTyped DEF Exhausted, TypeOK, JobsTyped
    <3>4. Budget' /\ Fresh'
      BY <2>13, <3>2, CloseHostTyped DEF Exhausted, Fresh
    <3> QED BY <2>13, <3>3, <3>4 DEF Exhausted, TypeOK, Starting, Mine, Registered
  <2>14. ASSUME NEW s \in Sock, NEW r \in Req, NEW t \in ChosenBy[s], VoiceTurn(s, r, t)
         PROVE  Typed'
    <3>1. t \in TurnId /\ t # None /\ r # None
      BY ChosenByAssumption, Bindings
    <3>2. <<s, r>> \in Binding /\ name[<<s, r>>] = None
      BY <2>14, <3>1, Bindings DEF VoiceTurn, Fresh, TypeOK
    <3>3. JobsTyped' /\ task' \in [Binding -> Tasks]
          /\ \A c \in Binding : /\ task'[c] = "hook" => task[c] = "hook"
                                /\ task[c] = "none" => task'[c] = "none"
      BY <2>14, Actors, CancelActiveTyped DEF VoiceTurn
    <3>4. TypeOK'
      BY <2>14, <3>1, <3>2, <3>3 DEF VoiceTurn, TypeOK, JobsTyped, Tasks
    <3>5. Starting'
      <4> SUFFICES ASSUME NEW u \in Sock,
                          at'[u] \in {"replace", "project", "dispatch", "undo", "refuse"}
                   PROVE  req'[u] # None /\ name'[<<u, req'[u]>>] # None
        BY DEF Starting, Mine
      <4>1. CASE u = s
        BY <2>14, <3>1, <3>2, <4>1 DEF VoiceTurn, TypeOK
      <4>2. CASE u # s
        <5>1. at'[u] = at[u] /\ req'[u] = req[u] /\ req[u] # None
          BY <2>14, <4>2 DEF VoiceTurn, TypeOK, Starting
        <5>2. <<u, req[u]>> \in Binding /\ <<u, req[u]>> # <<s, r>>
          BY <4>2, <5>1, Bindings DEF TypeOK
        <5>3. name'[<<u, req[u]>>] = name[<<u, req[u]>>]
          BY <2>14, <5>2 DEF VoiceTurn, TypeOK
        <5> QED BY <5>1, <5>3 DEF Starting, Mine
      <4> QED BY <4>1, <4>2
    <3>6. Registered'
      <4>1. turns' = turns /\ active' = active
        BY <2>14 DEF VoiceTurn
      <4>2. \A b \in Binding : b # <<s, r>> => name'[b] = name[b]
        BY <2>14 DEF VoiceTurn, TypeOK
      <4>3. \A u \in TurnId : turns[u] # <<s, r>>
        BY <3>2, Bindings DEF Registered
      <4>4. \A u \in TurnId : turns[u] # None => name'[turns[u]] = name[turns[u]]
        BY <4>2, <4>3 DEF TypeOK
      <4> QED BY <4>1, <4>4 DEF Registered
    <3>7. Budget'
      BY <2>14, <3>1, BudgetAssumption DEF VoiceTurn, Budget, TypeOK
    <3>8. Fresh'
      BY <2>14, <3>1, <3>2, <3>3, Bindings DEF VoiceTurn, Fresh, TypeOK
    <3> QED BY <3>4, <3>5, <3>6, <3>7, <3>8
  <2>15. ASSUME NEW s \in Sock, CancelRequest(s)
         PROVE  Typed'
    <3> DEFINE b == <<s, pending[s]>>
    <3>1. b \in Binding
      BY <2>15, Bindings DEF CancelRequest, TypeOK
    <3>2. asked' \subseteq Binding
      BY <2>15, <3>1 DEF CancelRequest, TypeOK
    <3>3. CASE UNCHANGED <<task, job, at>>
      <4>1. TypeOK'
        BY <2>15, <3>3, <3>2 DEF CancelRequest, TypeOK
      <4> QED BY <2>15, <3>3, <4>1
              DEF CancelRequest, Starting, Mine, Registered, Budget, Fresh
    <3>4. CASE CancelFor(Handler(s), b, "finish") /\ at' = [at EXCEPT ![s] = "cancel"]
      <4>1. JobsTyped' /\ task' \in [Binding -> Tasks]
            /\ \A c \in Binding : /\ task'[c] = "hook" => task[c] = "hook"
                                  /\ task[c] = "none" => task'[c] = "none"
        BY <3>1, <3>4, Actors, CancelForTyped
      <4>2. TypeOK'
        BY <2>15, <3>4, <3>2, <4>1 DEF CancelRequest, TypeOK, JobsTyped, Tasks
      <4> QED BY <2>15, <3>4, <4>1, <4>2
              DEF CancelRequest, TypeOK, Starting, Mine, Registered, Budget, Fresh
    <3> QED BY <2>15, <3>3, <3>4 DEF CancelRequest
  <2>16. ASSUME NEW s \in Sock, CancelReturns(s)
         PROVE  Typed'
    <3>1. JobsTyped'
      BY <2>16, Actors, IdleTyped DEF CancelReturns
    <3>2. TypeOK'
      BY <2>16, <3>1 DEF CancelReturns, TypeOK, JobsTyped
    <3> QED BY <2>16, <3>2 DEF CancelReturns, TypeOK, Starting, Mine, Registered, Budget,
                               Fresh
  <2>17. ASSUME NEW s \in Sock, StartTurn(s)
         PROVE  Typed'
    <3>1. Mine(s) \in Binding /\ name[Mine(s)] \in TurnId
      BY <2>17, Bindings DEF StartTurn, Starting, Mine, TypeOK
    <3>2. JobsTyped'
      BY <2>17, Actors, IdleTyped DEF StartTurn
    <3>3. CASE phone = s
      <4>1. /\ turns' = [turns EXCEPT ![name[Mine(s)]] = Mine(s)]
            /\ active' = name[Mine(s)] /\ at' = [at EXCEPT ![s] = "project"]
            /\ UNCHANGED <<pending, done, spent>>
        BY <2>17, <3>3 DEF StartTurn
      <4>2. TypeOK'
        BY <2>17, <3>1, <3>2, <4>1 DEF StartTurn, TypeOK, JobsTyped
      <4>3. Registered'
        BY <2>17, <3>1, <4>1, Bindings DEF StartTurn, Registered, TypeOK
      <4>4. Starting'
        BY <2>17, <4>1 DEF StartTurn, Starting, Mine, TypeOK
      <4> QED BY <2>17, <4>1, <4>2, <4>3, <4>4 DEF StartTurn, Budget, Fresh
    <3>4. CASE phone # s
      <4>1. StartFails(s) /\ UNCHANGED turnVars
        BY <2>17, <3>4 DEF StartTurn
      <4>2. at[s] = "replace" /\ name' = name /\ life' = life /\ req' = req
        BY <2>17 DEF StartTurn
      <4>3. TypeOK'
        BY <2>17, <3>2, <4>1, <4>2, StartFailsTyped DEF StartTurn, TypeOK, JobsTyped, Stages
      <4>4. Starting' /\ Budget' /\ Fresh'
        BY <2>17, <4>1, <4>2, StartFailsTyped DEF StartTurn, Fresh
      <4> QED BY <2>17, <4>1, <4>3, <4>4 DEF StartTurn, Registered
    <3> QED BY <3>3, <3>4
  <2>18. ASSUME NEW s \in Sock, NEW taken \in BOOLEAN, Dispatch(s, taken)
         PROVE  Typed'
    <3>1. Mine(s) \in Binding /\ name[Mine(s)] # None
      BY <2>18, Bindings DEF Dispatch, Starting, Mine, TypeOK
    <3>2. CASE Undo(s)
      BY <2>18, <3>2, UndoTyped DEF Dispatch
    <3>3. CASE ~Undo(s)
      <4>1. /\ at' = [at EXCEPT ![s] = "dispatch"]
            /\ task' = [task EXCEPT ![Mine(s)] = IF taken THEN "queued" ELSE "none"]
            /\ UNCHANGED <<job, pending, done, spent, turnVars>>
            /\ UNCHANGED <<connVars, req, asked, name, finVars, reply>>
        BY <2>18, <3>3 DEF Dispatch
      <4>2. TypeOK'
        BY <3>1, <4>1 DEF TypeOK
      <4>3. Starting'
        BY <2>18, <4>1 DEF Dispatch, Starting, Mine, TypeOK
      <4>4. Fresh'
        BY <3>1, <4>1 DEF Fresh, TypeOK
      <4> QED BY <4>1, <4>2, <4>3, <4>4 DEF Registered, Budget
    <3> QED BY <3>2, <3>3
  <2>19. ASSUME NEW s \in Sock, Dispatched(s)
         PROVE  Typed'
    <3>1. CASE Undo(s)
      BY <2>19, <3>1, UndoTyped DEF Dispatched
    <3>2. CASE ~Undo(s)
      <4>1. /\ at' = [at EXCEPT ![s] = "loop"]
            /\ UNCHANGED <<connVars, req, asked, name, finVars, reply, job, task, pending,
                           done, spent, turnVars>>
        BY <2>19, <3>2 DEF Dispatched
      <4>2. TypeOK'
        BY <4>1 DEF TypeOK
      <4> QED BY <4>1, <4>2 DEF TypeOK, Starting, Mine, Registered, Budget, Fresh
    <3> QED BY <3>1, <3>2
  <2>20. ASSUME NEW s \in Sock, UndoReturns(s)
         PROVE  Typed'
    <3>1. /\ StartFails(s) /\ at[s] = "undo"
          /\ name' = name /\ life' = life /\ req' = req
      BY <2>20 DEF UndoReturns
    <3>2. TypeOK'
      BY <2>20, <3>1, StartFailsTyped DEF UndoReturns, TypeOK, Stages
    <3>3. Starting' /\ Budget' /\ Fresh'
      BY <2>20, <3>1, StartFailsTyped DEF UndoReturns, Fresh
    <3> QED BY <2>20, <3>2, <3>3 DEF UndoReturns, Registered
  <2>21. ASSUME NEW s \in Sock, Refuse(s)
         PROVE  Typed'
    <3>1. Mine(s) \in Binding /\ name[Mine(s)] # None
      BY <2>21, Bindings DEF Refuse, Starting, Mine, TypeOK
    <3>2. CASE Leave(s)
      BY <3>2, LeaveTyped
    <3>3. CASE ~Leave(s)
      <4>1. /\ reply' = [reply EXCEPT ![Mine(s)] = Append(@, "refused")]
            /\ at' = [at EXCEPT ![s] = "loop"]
            /\ UNCHANGED <<connVars, req, hostVars, name, turnVars, finVars, task, job>>
        BY <2>21, <3>3 DEF Refuse
      <4>2. TypeOK'
        BY <3>1, <4>1 DEF TypeOK
      <4>3. Fresh'
        BY <3>1, <4>1 DEF Fresh, TypeOK
      <4> QED BY <4>1, <4>2, <4>3 DEF Starting, Mine, Registered, Budget, TypeOK
    <3> QED BY <3>2, <3>3
  <2>22. ASSUME NEW b \in Binding, AgentRuns(b)
         PROVE  Typed'
    BY <2>22 DEF AgentRuns, TypeOK, Starting, Mine, Registered, Budget, Fresh
  <2>23. ASSUME NEW b \in Binding, NEW reason \in StopReasons, Completes(b, reason)
         PROVE  Typed'
    <3>1. name[b] # None
      BY <2>23 DEF Completes, Fresh
    <3>2. CASE Tracked(b) /\ ~Finished(b)
      <4>1. /\ why' \in [Binding -> StopReasons]
            /\ fin' = [fin EXCEPT ![b] = IF phone = b[1] THEN "projecting" ELSE "over"]
            /\ turns' \in [TurnId -> Binding \cup {None}]
            /\ active' \in TurnId \cup {None}
            /\ begun' \subseteq Binding
            /\ Registered'
        BY <2>23, <3>2, BeginFinishTyped DEF Completes
      <4>2. /\ task' = [task EXCEPT ![b] = IF phone = b[1] THEN "hook" ELSE "done"]
            /\ UNCHANGED <<connVars, at, req, hostVars, name, job, reply>>
        BY <2>23, <3>2 DEF Completes
      <4>3. TypeOK'
        BY <4>1, <4>2 DEF TypeOK
      <4> QED BY <3>1, <4>1, <4>2, <4>3 DEF TypeOK, Starting, Mine, Budget, Fresh
    <3>3. CASE ~(Tracked(b) /\ ~Finished(b))
      <4>1. /\ task' = [task EXCEPT ![b] = "done"]
            /\ UNCHANGED <<turnVars, finVars, connVars, at, req, hostVars, name, job, reply>>
        BY <2>23, <3>3 DEF Completes
      <4>2. TypeOK'
        BY <4>1 DEF TypeOK
      <4> QED BY <3>1, <4>1, <4>2 DEF TypeOK, Starting, Mine, Registered, Budget, Fresh
    <3> QED BY <3>2, <3>3
  <2>24. ASSUME NEW b \in Binding, NEW left \in BOOLEAN, HookCancelled(b, left)
         PROVE  Typed'
    <3>1. name[b] # None
      BY <2>24 DEF HookCancelled, Fresh
    <3>2. /\ turns' \in [TurnId -> Binding \cup {None}]
          /\ active' \in TurnId \cup {None}
          /\ begun' \subseteq Binding
          /\ Registered'
      BY <2>24, ForgetTyped DEF HookCancelled
    <3>3. reply' \in [Binding -> Seq(StopReasons \cup {"refused"})]
      BY <2>24 DEF HookCancelled, TypeOK
    <3>4. TypeOK'
      BY <2>24, <3>2, <3>3 DEF HookCancelled, TypeOK
    <3> QED BY <2>24, <3>1, <3>2, <3>4
            DEF HookCancelled, TypeOK, Starting, Mine, Budget, Fresh
  <2>25. ASSUME NEW b \in Binding, Projected(b)
         PROVE  Typed'
    <3>1. name[b] # None
      BY <2>25 DEF Projected, Fresh
    <3>2. CASE /\ pending[b[1]] = b[2] /\ Complete(b)
               /\ fin' = [fin EXCEPT ![b] = "answering"] /\ UNCHANGED <<turnVars, task>>
      <4>1. name' = name /\ life' = life
        BY <2>25 DEF Projected
      <4>2. TypeOK'
        BY <2>25, <3>2, <4>1, CompleteTyped DEF Projected, TypeOK
      <4>3. Budget' /\ Fresh'
        BY <2>25, <3>1, <3>2, <4>1, CompleteTyped DEF Projected, Fresh, TypeOK
      <4> QED BY <2>25, <3>2, <4>2, <4>3 DEF Projected, Starting, Mine, Registered
    <3>3. CASE /\ Forget(b) /\ fin' = [fin EXCEPT ![b] = "over"]
               /\ task' = [task EXCEPT ![b] = IF @ = "hook" THEN "done" ELSE @]
               /\ UNCHANGED <<pending, done, spent>>
      <4>1. /\ turns' \in [TurnId -> Binding \cup {None}]
            /\ active' \in TurnId \cup {None}
            /\ begun' \subseteq Binding
            /\ Registered'
        BY <2>25, <3>3, ForgetTyped DEF Projected
      <4>2. TypeOK'
        BY <2>25, <3>3, <4>1 DEF Projected, TypeOK
      <4> QED BY <2>25, <3>1, <3>3, <4>1, <4>2
              DEF Projected, TypeOK, Starting, Mine, Budget, Fresh
    <3> QED BY <2>25, <3>2, <3>3 DEF Projected
  <2>26. ASSUME NEW b \in Binding, Answered(b)
         PROVE  Typed'
    <3>1. name[b] # None
      BY <2>26 DEF Answered, Fresh
    <3>2. /\ turns' \in [TurnId -> Binding \cup {None}]
          /\ active' \in TurnId \cup {None}
          /\ begun' \subseteq Binding
          /\ Registered'
      BY <2>26, ForgetTyped DEF Answered
    <3>3. reply' \in [Binding -> Seq(StopReasons \cup {"refused"})]
      BY <2>26 DEF Answered, TypeOK
    <3>4. TypeOK'
      BY <2>26, <3>2, <3>3 DEF Answered, TypeOK
    <3> QED BY <2>26, <3>1, <3>2, <3>4
            DEF Answered, TypeOK, Starting, Mine, Budget, Fresh
  <2>27. CASE UNCHANGED vars
    BY <2>27 DEF vars, TypeOK, Starting, Mine, Registered, Budget, Fresh
  <2> QED
    BY <2>1, <2>2, <2>3, <2>4, <2>5, <2>6, <2>7, <2>8, <2>9, <2>10, <2>11, <2>12,
       <2>13, <2>14, <2>15, <2>16, <2>17, <2>18, <2>19, <2>20, <2>21, <2>22, <2>23,
       <2>24, <2>25, <2>26, <2>27
       DEF Next, Frame, Resumes, Dropping, Gateway
<1> QED
  BY <1>1, <1>2, PTL DEF Spec

\* Every variable has its type, a drop has a victim and a cancellation a turn, and a
\* task in its hook a `_finish_turn` that is under way.
THEOREM TypeCorrect == Spec => []TypeOK
<1>1. Typed => TypeOK
  BY DEF Typed
<1> QED
  BY <1>1, TypedInvariant, PTL

-----------------------------------------------------------------------------
(* The lane. *)

\* A registered turn that is processed or has not finished is the active one.
Owned ==
    \A b \in Binding : Tracked(b) /\ (b \in Alive \/ ~Finished(b)) => active = name[b]

\* A new turn waits until the active one has been cancelled: either its tasks are
\* still waited for, or it has finished and no task of it is left.
Waits(s) ==
    at[s] = "replace" /\ phone = s /\ active # None =>
      \/ /\ job[Handler(s)].at = "cancel" /\ job[Handler(s)].turn = turns[active]
         /\ turns[active] \in Alive => turns[active] \in job[Handler(s)].wait
      \/ /\ job[Handler(s)].at \in {"idle", "finish"}
         /\ Finished(turns[active]) /\ turns[active] \notin Alive

Lane == Owned /\ \A s \in Sock : Waits(s)

LEMMA DistinctActors ==
    /\ \A s, u \in Sock : Handler(s) = Handler(u) => s = u
    /\ \A s, u \in Sock : Watcher(s) # Handler(u)
    /\ \A u \in Sock : Shutdown # Handler(u)
BY NoneAssumption DEF Handler, Watcher, Shutdown

\* A cancellation starts no task, and none that has not begun survives it.
LEMMA CancelTasksShrinks ==
    ASSUME Typed, CancelTasks
    PROVE  \A c \in Binding : c \in Alive' => c \in Alive /\ task[c] # "queued"
BY DEF Typed, TypeOK, CancelTasks, Alive

\* A step that starts no task, registers no turn and undoes no end of a turn ...
Lesser ==
    /\ name' = name
    /\ UNCHANGED turnVars \/ \E b \in Binding : Forget(b)
    /\ \A c \in Binding : c \in Alive' => c \in Alive
    /\ \A c \in Binding : Finished(c) => Finished(c)'

\* ... keeps the lane with the turn that has it,
LEMMA OwnedKept ==
    ASSUME Typed, Owned, Lesser
    PROVE  Owned'
<1>1. CASE UNCHANGED turnVars
  BY <1>1 DEF Lesser, Owned, Tracked, turnVars
<1>2. ASSUME NEW b \in Binding, Forget(b)
      PROVE  Owned'
  <2> SUFFICES ASSUME NEW c \in Binding, Tracked(c)', c \in Alive' \/ ~Finished(c)'
               PROVE  active' = name'[c]
    BY DEF Owned
  <2>1. name' = name
    BY DEF Lesser
  <2>2. Tracked(c) /\ (Tracked(b) => c # b)
    BY <1>2, <2>1, Bindings DEF Typed, TypeOK, Forget, Tracked
  <2>3. active = name[c]
    BY <2>2 DEF Owned, Lesser
  <2>4. Tracked(b) => active # name[b]
    BY <2>2, <2>3 DEF Tracked
  <2> QED BY <1>2, <2>1, <2>3, <2>4 DEF Forget
<1> QED
  BY <1>1, <1>2 DEF Lesser

\* ... and a new turn waiting for it, unless its own coroutine goes on.
LEMMA WaitsKept ==
    ASSUME Typed, NEW s \in Sock, Waits(s), Lesser,
           at'[s] = "replace" /\ phone' = s /\ active # None =>
             at[s] = "replace" /\ phone = s /\ job'[Handler(s)] = job[Handler(s)]
    PROVE  Waits(s)'
<1> SUFFICES ASSUME at'[s] = "replace", phone' = s, active' # None
             PROVE  active' = active /\ turns'[active'] = turns[active]
                    /\ turns[active] \in Binding
  BY DEF Waits, Lesser
<1>1. active' = active
  BY DEF Lesser, Forget, turnVars
<1>2. active \in TurnId /\ turns[active] \in Binding
  BY <1>1 DEF Typed, TypeOK, Registered
<1>3. turns'[active] = turns[active]
  BY <1>1, <1>2 DEF Lesser, Forget, turnVars, Typed, TypeOK
<1> QED
  BY <1>1, <1>2, <1>3

LEMMA LaneKept ==
    ASSUME Typed, Lane, Lesser,
           \A s \in Sock : at'[s] = "replace" /\ phone' = s /\ active # None =>
             at[s] = "replace" /\ phone = s /\ job'[Handler(s)] = job[Handler(s)]
    PROVE  Lane'
BY OwnedKept, WaitsKept DEF Lane

\* The turns are left alone altogether.
Calm == UNCHANGED <<name, turnVars, task, fin>>

LEMMA CalmIsLesser ==
    ASSUME Calm
    PROVE  Lesser
BY DEF Calm, Lesser, turnVars, Alive, Finished

LEMMA LeaveLane ==
    ASSUME Typed, Lane, NEW s \in Sock, Leave(s)
    PROVE  Lane'
<1> USE DEF Typed, TypeOK
<1>1. UNCHANGED <<name, turnVars, fin>> /\ (CancelTasks \/ task' = task)
  BY DEF Leave, CancelActive, CancelFor, finVars
<1>2. Lesser
  BY <1>1, CancelTasksShrinks DEF Lesser, Alive, Finished
<1>3. at'[s] # "replace" /\ \A u \in Sock : u # s => at'[u] = at[u]
  BY DEF Leave
<1>4. \A u \in Sock : u # s => job'[Handler(u)] = job[Handler(u)]
  BY Actors, DistinctActors DEF Leave, CancelActive, CancelFor
<1>5. phone' = None \/ phone' = phone
  BY DEF Leave
<1> QED
  BY <1>2, <1>3, <1>4, <1>5, Bindings, LaneKept

LEMMA UndoLane ==
    ASSUME Typed, Lane, NEW s \in Sock, Undo(s), at[s] \in {"project", "dispatch"},
           UNCHANGED <<connVars, req, asked, name, finVars, reply>>
    PROVE  Lane'
<1> USE DEF Typed, TypeOK, connVars, finVars
<1>1. Mine(s) \in Binding
  BY Bindings DEF Starting, Mine
<1>2. /\ UNCHANGED <<name, fin, phone>>
      /\ UNCHANGED turnVars \/ Forget(Mine(s))
      /\ CancelTasks \/ task' = task
  BY DEF Undo, CancelFor
<1>3. Lesser
  BY <1>1, <1>2, CancelTasksShrinks DEF Lesser, Alive, Finished
<1>4. at'[s] # "replace" /\ \A u \in Sock : u # s => at'[u] = at[u]
  BY DEF Undo, StartFails
<1>5. \A u \in Sock : u # s => job'[Handler(u)] = job[Handler(u)]
  BY Actors, DistinctActors DEF Undo, CancelFor
<1> QED
  BY <1>2, <1>3, <1>4, <1>5, LaneKept

\* Lane holds in every state.
THEOREM LaneInvariant == Spec => []Lane
<1>1. Init => Lane
  <2> SUFFICES ASSUME Init PROVE Lane
    OBVIOUS
  <2>1. Owned
    BY DEF Init, Owned, Tracked
  <2>2. \A s \in Sock : Waits(s)
    BY DEF Init, Waits
  <2> QED BY <2>1, <2>2 DEF Lane
<1>2. Typed /\ Lane /\ [Next]_vars => Lane'
  <2> SUFFICES ASSUME Typed, Lane, [Next]_vars
               PROVE  Lane'
    OBVIOUS
  <2> USE DEF connVars, hostVars, turnVars, finVars
  <2>t. /\ at \in [Sock -> Stages] /\ phone \in Sock \cup {None}
        /\ name \in [Binding -> TurnId \cup {None}]
        /\ turns \in [TurnId -> Binding \cup {None}]
        /\ active \in TurnId \cup {None}
        /\ task \in [Binding -> Tasks]
        /\ fin \in [Binding -> {"no", "projecting", "answering", "over"}]
        /\ job \in [Actor -> Jobs]
    BY DEF Typed, TypeOK, Stages, Tasks
  <2>0. ASSUME Calm,
               \A s \in Sock : at'[s] = "replace" /\ phone' = s /\ active # None =>
                 at[s] = "replace" /\ phone = s /\ job'[Handler(s)] = job[Handler(s)]
        PROVE  Lane'
    BY <2>0, CalmIsLesser, LaneKept
  <2>1. ASSUME NEW s \in Sock,
               \/ Peer(s) \/ Acked(s) \/ DropReturns(s) \/ Attach(s)
               \/ Initialize(s) \/ OtherRequest(s) \/ Initialized(s)
        PROVE  Lane'
    <3>1. Calm /\ job' = job
      BY <2>1 DEF Peer, Connect, LinkCloses, Acked, DropReturns, Attach, Initialize,
                  OtherRequest, Initialized, Calm
    <3>2. CASE Attach(s)
      BY <2>0, <2>t, <3>1, <3>2, Bindings DEF Attach
    <3>3. CASE ~Attach(s)
      <4>1. /\ phone' = phone
            /\ \/ at' = at \/ at' = [at EXCEPT ![s] = "hello"]
               \/ at' = [at EXCEPT ![s] = "loop"] \/ at' = [at EXCEPT ![s] = "gone"]
        BY <2>1, <3>3 DEF Peer, Connect, LinkCloses, Acked, DropReturns, Initialize,
                          OtherRequest, Initialized
      <4> QED BY <2>0, <2>t, <3>1, <4>1
    <3> QED BY <3>2, <3>3
  <2>2. ASSUME NEW s \in Sock,
               \/ HelloSupersedes(s) \/ Exhausted(s) \/ CancelReturns(s) \/ UndoReturns(s)
        PROVE  Lane'
    <3>1. /\ Calm /\ at'[s] # "replace" /\ (phone' = None \/ phone' = phone)
          /\ \A u \in Sock : u # s => at'[u] = at[u]
      BY <2>2, <2>t DEF HelloSupersedes, Exhausted, CancelReturns, UndoReturns, DropLoud,
                        StartFails, Calm
    <3>2. \A u \in Sock : u # s => job'[Handler(u)] = job[Handler(u)]
      BY <2>2, <2>t, Actors, DistinctActors
         DEF HelloSupersedes, Exhausted, CancelReturns, UndoReturns, DropLoud
    <3> QED BY <2>0, <3>1, <3>2, Bindings
  <2>3. CASE \/ \E s \in Sock : DeadlineExpires(s)
             \/ Disconnect
    <3>1. /\ Calm /\ at' = at /\ (phone' = None \/ phone' = phone)
      BY <2>3 DEF DeadlineExpires, Disconnect, DropLoud, Calm
    <3>2. \A u \in Sock : job'[Handler(u)] = job[Handler(u)]
      BY <2>3, <2>t, Actors, DistinctActors DEF DeadlineExpires, Disconnect, DropLoud
    <3> QED BY <2>0, <3>1, <3>2, Bindings
  <2>4. ASSUME NEW x \in Actor, DropNotified(x) \/ DropClosed(x)
        PROVE  Lane'
    <3>1. /\ UNCHANGED <<name, turnVars, fin, at, phone>>
          /\ CancelTasks \/ task' = task
          /\ \A y \in Actor : y # x => job'[y] = job[y]
      BY <2>4, <2>t DEF DropNotified, DropClosed, CancelActive, CancelFor
    <3>2. Lesser
      BY <3>1, CancelTasksShrinks DEF Lesser, Alive, Finished
    <3>3. job[x].at \in {"notify", "socket"}
      BY <2>4 DEF DropNotified, DropClosed
    <3>4. \A s \in Sock : at[s] = "replace" /\ phone = s /\ active # None => Handler(s) # x
      BY <3>3 DEF Lane, Waits
    <3> QED BY <3>1, <3>2, <3>4, Actors, LaneKept
  <2>5. ASSUME NEW x \in Actor, Cancelled(x)
        PROVE  Lane'
    <3> DEFINE b == job[x].turn
    <3>1. b \in Binding
      BY <2>5 DEF Cancelled, Typed, TypeOK, Jobs
    <3> HIDE DEF b
    <3>2. /\ UNCHANGED <<name, at, phone, task>>
          /\ \A y \in Actor : y # x => job'[y] = job[y]
          /\ job[x].at = "cancel" /\ \A c \in job[x].wait : task[c] = "done"
      BY <2>5, <2>t DEF Cancelled
    <3>3. /\ UNCHANGED turnVars \/ Forget(b)
          /\ \A c \in Binding : Finished(c) => Finished(c)'
      BY <2>5, <2>t, <3>1 DEF Cancelled, BeginFinish, Finished, b
    <3>4. Lesser
      BY <3>1, <3>2, <3>3 DEF Lesser, Alive
    <3>5. ASSUME NEW s \in Sock PROVE Waits(s)'
      <4>1. CASE Handler(s) # x
        BY <3>2, <3>4, <4>1, Actors, WaitsKept DEF Lane
      <4>2. CASE Handler(s) = x
        <5> SUFFICES ASSUME at[s] = "replace", phone = s, active' # None
                     PROVE  Waits(s)'
          BY <3>2 DEF Waits
        <5>1. active' = active /\ active \in TurnId /\ turns[active] \in Binding
          BY <2>t, <3>3 DEF Forget, Typed, Registered
        <5>2. b = turns[active] /\ b \notin Alive
          BY <3>2, <4>2, <5>1 DEF Lane, Waits, Alive, b
        <5>3. Tracked(b) /\ active = name[b]
          BY <5>1, <5>2, Bindings DEF Tracked, Typed, Registered
        <5>4. ~Forget(b)
          BY <5>1, <5>3, Bindings DEF Forget
        <5>5. UNCHANGED turnVars
          BY <3>3, <5>4
        <5>6. job'[Handler(s)].at \in {"idle", "finish"}
          BY <2>5, <2>t, <4>2, <5>4 DEF Cancelled, b, Idle, Jobs
        <5>7. fin'[b] # "no"
          <6>1. CASE Finished(b)
            BY <2>5, <5>3, <5>4, <6>1 DEF Cancelled, Finished, b
          <6>2. CASE ~Finished(b)
            BY <2>5, <2>t, <3>1, <5>3, <5>4, <6>2 DEF Cancelled, BeginFinish, b
          <6> QED BY <6>1, <6>2
        <5>8. b \notin Alive'
          BY <3>2, <5>2 DEF Alive
        <5> QED BY <5>2, <5>5, <5>6, <5>7, <5>8 DEF Waits, Finished
      <4> QED BY <4>1, <4>2
    <3> QED BY <3>4, <3>5, OwnedKept DEF Lane
  <2>6. ASSUME NEW s \in Sock, ConnectionEnds(s)
        PROVE  Lane'
    BY <2>6, LeaveLane DEF ConnectionEnds
  <2>7. ASSUME NEW s \in Sock, NEW r \in Req, NEW t \in ChosenBy[s], VoiceTurn(s, r, t)
        PROVE  Lane'
    <3>1. /\ phone = s /\ <<s, r>> \in Binding /\ name[<<s, r>>] = None
          /\ r # None
      BY <2>7, Bindings DEF VoiceTurn, Receives, Typed, Fresh, TypeOK
    <3>2. /\ UNCHANGED <<turns, active, fin, phone>>
          /\ \A c \in Binding : c # <<s, r>> => name'[c] = name[c]
      BY <2>7, <2>t DEF VoiceTurn
    <3>3. \A u \in TurnId : turns[u] # <<s, r>>
      BY <3>1, Bindings DEF Typed, Registered
    <3>4. \A c \in Binding : c \in Alive' => c \in Alive /\ (active # None => task[c] # "queued")
      BY <2>7, CancelTasksShrinks DEF VoiceTurn, CancelActive, CancelFor, Alive
    <3>5. Owned'
      <4> SUFFICES ASSUME NEW c \in Binding, Tracked(c)', c \in Alive' \/ ~Finished(c)'
                   PROVE  active' = name'[c]
        BY DEF Owned
      <4>1. name'[c] \in TurnId
        <5>1. name'[c] # None
          BY DEF Tracked
        <5>2. name' = [name EXCEPT ![<<s, r>>] = t] /\ t \in TurnId
          BY <2>7, ChosenByAssumption DEF VoiceTurn
        <5> QED BY <2>t, <5>1, <5>2
      <4>2. c # <<s, r>>
        BY <3>2, <3>3, <4>1 DEF Tracked
      <4>3. Tracked(c) /\ (c \in Alive \/ ~Finished(c))
        BY <3>2, <3>4, <4>2 DEF Tracked, Finished
      <4> QED BY <3>2, <4>2, <4>3 DEF Lane, Owned
    <3>6. ASSUME active # None PROVE Waits(s)'
      <4>1. turns[active] \in Binding
        BY <2>t, <3>6 DEF Typed, Registered
      <4>2. job' = [job EXCEPT ![Handler(s)] =
                      [at |-> "cancel", victim |-> None, turn |-> turns[active],
                       wait |-> {c \in Alive : task[c] # "queued"}, next |-> "finish"]]
        BY <2>7, <3>6 DEF VoiceTurn, CancelActive, CancelFor
      <4>3. /\ job'[Handler(s)].at = "cancel" /\ job'[Handler(s)].turn = turns[active]
            /\ job'[Handler(s)].wait = {c \in Alive : task[c] # "queued"}
        BY <2>t, <4>2, Actors
      <4> QED BY <3>2, <3>4, <3>6, <4>1, <4>3 DEF Waits
    <3>7. \A u \in Sock : Waits(u)'
      BY <3>1, <3>2, <3>6 DEF Waits
    <3> QED BY <3>5, <3>7 DEF Lane
  <2>8. ASSUME NEW s \in Sock, CancelRequest(s)
        PROVE  Lane'
    <3>1. /\ UNCHANGED <<name, turnVars, fin, phone>>
          /\ CancelTasks \/ task' = task
          /\ at[s] = "loop" /\ at'[s] # "replace"
          /\ \A u \in Sock : u # s => at'[u] = at[u]
      BY <2>8, <2>t DEF CancelRequest, CancelFor, Receives
    <3>2. \A u \in Sock : u # s => job'[Handler(u)] = job[Handler(u)]
      BY <2>8, <2>t, Actors, DistinctActors DEF CancelRequest, CancelFor
    <3>3. Lesser
      BY <3>1, CancelTasksShrinks DEF Lesser, Alive, Finished
    <3> QED BY <3>1, <3>2, <3>3, LaneKept
  <2>9. ASSUME NEW s \in Sock, StartTurn(s)
        PROVE  Lane'
    <3>1. /\ UNCHANGED <<name, task, fin, phone>>
          /\ at[s] = "replace" /\ at'[s] # "replace"
          /\ \A u \in Sock : u # s => at'[u] = at[u]
          /\ \A u \in Sock : u # s => job'[Handler(u)] = job[Handler(u)]
      BY <2>9, <2>t, Actors, DistinctActors DEF StartTurn, StartFails
    <3>2. CASE phone = s
      <4>1. /\ turns' = [turns EXCEPT ![name[Mine(s)]] = Mine(s)]
            /\ active' = name[Mine(s)]
        BY <2>9, <3>2 DEF StartTurn
      <4>2. name[Mine(s)] \in TurnId
        BY <2>t, <3>1, Bindings DEF Typed, TypeOK, Starting, Mine
      <4>3. active # None =>
              Finished(turns[active]) /\ turns[active] \notin Alive
        BY <2>9, <3>1, <3>2 DEF StartTurn, Through, Lane, Waits
      <4>4. \A c \in Binding : Tracked(c) => Finished(c) /\ c \notin Alive
        BY <4>3 DEF Lane, Owned, Tracked
      <4>5. \A c \in Binding : Tracked(c)' => Tracked(c) \/ c = Mine(s)
        BY <2>t, <3>1, <4>1, <4>2 DEF Tracked
      <4>6. Owned'
        BY <3>1, <4>1, <4>4, <4>5 DEF Owned, Finished, Alive
      <4>7. \A u \in Sock : Waits(u)'
        BY <3>1, <3>2 DEF Waits
      <4> QED BY <4>6, <4>7 DEF Lane
    <3>3. CASE phone # s
      <4>1. Calm
        BY <2>9, <3>1, <3>3 DEF StartTurn, Calm
      <4> QED BY <2>0, <3>1, <4>1
    <3> QED BY <3>2, <3>3
  <2>10. ASSUME NEW s \in Sock, NEW taken \in BOOLEAN, Dispatch(s, taken)
         PROVE  Lane'
    <3>1. CASE Undo(s)
      BY <2>10, <3>1, UndoLane DEF Dispatch
    <3>2. CASE ~Undo(s)
      <4>1. /\ Owns(Mine(s))
            /\ at' = [at EXCEPT ![s] = "dispatch"]
            /\ task' = [task EXCEPT ![Mine(s)] = IF taken THEN "queued" ELSE "none"]
            /\ UNCHANGED <<turns, active, name, fin, phone>>
        BY <2>10, <3>2 DEF Dispatch
      <4>2. Mine(s) \in Binding /\ active = name[Mine(s)] /\ phone = s
        BY <2>10, <4>1, Bindings DEF Dispatch, Owns, Mine, Typed, TypeOK, Starting
      <4>3. \A c \in Binding : c \in Alive' => c \in Alive \/ c = Mine(s)
        BY <2>t, <4>1, <4>2 DEF Alive
      <4>4. Owned'
        BY <4>1, <4>2, <4>3 DEF Lane, Owned, Tracked, Finished
      <4>5. \A u \in Sock : Waits(u)'
        BY <2>t, <4>1, <4>2 DEF Waits
      <4> QED BY <4>4, <4>5 DEF Lane
    <3> QED BY <3>1, <3>2
  <2>11. ASSUME NEW s \in Sock, Dispatched(s)
         PROVE  Lane'
    <3>1. CASE Undo(s)
      BY <2>11, <3>1, UndoLane DEF Dispatched
    <3>2. CASE ~Undo(s)
      <4>1. Calm /\ job' = job /\ phone' = phone /\ at' = [at EXCEPT ![s] = "loop"]
        BY <2>11, <3>2 DEF Dispatched, Calm
      <4> QED BY <2>0, <2>t, <4>1
    <3> QED BY <3>1, <3>2
  <2>12. ASSUME NEW s \in Sock, Refuse(s)
         PROVE  Lane'
    <3>1. CASE Leave(s)
      BY <3>1, LeaveLane
    <3>2. CASE ~Leave(s)
      <4>1. Calm /\ job' = job /\ phone' = phone /\ at' = [at EXCEPT ![s] = "loop"]
        BY <2>12, <3>2 DEF Refuse, Calm
      <4> QED BY <2>0, <2>t, <4>1
    <3> QED BY <3>1, <3>2
  <2>13. ASSUME NEW b \in Binding, Gateway(b)
         PROVE  Lane'
    <3>1. UNCHANGED <<name, phone, at, job>>
      BY <2>13 DEF Gateway, AgentRuns, Projected, Answered, Completes, HookCancelled
    <3>2. UNCHANGED turnVars \/ Forget(b)
      BY <2>13 DEF Gateway, AgentRuns, Projected, Answered, Completes, HookCancelled,
                   BeginFinish
    <3>3. \A c \in Binding : c \in Alive' => c \in Alive
      BY <2>13, <2>t DEF Gateway, AgentRuns, Projected, Answered, Completes,
                         HookCancelled, Alive
    <3>4. \A c \in Binding : Finished(c) => Finished(c)'
      BY <2>13, <2>t DEF Gateway, AgentRuns, Projected, Answered, Completes,
                         HookCancelled, BeginFinish, Finished
    <3>5. Lesser
      BY <3>1, <3>2, <3>3, <3>4 DEF Lesser
    <3> QED BY <3>1, <3>5, LaneKept
  <2>14. CASE UNCHANGED vars
    BY <2>0, <2>14 DEF vars, Calm
  <2> QED
    BY <2>1, <2>2, <2>3, <2>4, <2>5, <2>6, <2>7, <2>8, <2>9, <2>10, <2>11, <2>12,
       <2>13, <2>14
       DEF Next, Frame, Resumes, Dropping
<1> QED
  BY <1>1, <1>2, TypedInvariant, PTL DEF Spec

\* The gateway processes at most one registered turn, one that has not finished is
\* the active one, and the active one is registered (`_start_turn` cancels the turn
\* before and waits for `cancel_session_processing`; `_forget_turn` and `_finish_turn`
\* release the lane only for the turn that has it).
THEOREM LaneIsSingle == Spec => []OneLane
<1>1. Typed /\ Lane => UnfinishedIsActive
  BY DEF Typed, Registered, Lane, Owned, UnfinishedIsActive
<1>2. Lane => OneAgentRun
  BY DEF Lane, Owned, OneAgentRun, Tracked, Alive
<1> QED
  BY <1>1, <1>2, TypedInvariant, LaneInvariant, PTL DEF OneLane

-----------------------------------------------------------------------------
(* Answers. *)

\* A request has had no answer while it is pending, while `_finish_turn` is sending
\* its answer or while its refusal is being sent, and only one of these is the case.
Answers ==
    /\ OneAnswer
    /\ \A s \in Sock : pending[s] # None =>
         /\ name[<<s, pending[s]>>] # None
         /\ reply[<<s, pending[s]>>] = <<>>
         /\ fin[<<s, pending[s]>>] # "answering"
         /\ at[s] = "refuse" => req[s] # pending[s]
    /\ \A b \in Binding : fin[b] = "answering" =>
         /\ reply[b] = <<>>
         /\ at[b[1]] = "refuse" => req[b[1]] # b[2]
    /\ \A s \in Sock : at[s] = "refuse" => reply[Mine(s)] = <<>>

\* A step that answers nothing, and starts to answer nothing, keeps this.
LEMMA AnswersKept ==
    ASSUME Typed, Answers, UNCHANGED <<name, reply>>,
           \A s \in Sock : pending'[s] \in {pending[s], None},
           \A b \in Binding : fin'[b] = "answering" => fin[b] = "answering",
           \A s \in Sock : at'[s] = "refuse" => at[s] = "refuse" /\ req'[s] = req[s]
    PROVE  Answers'
<1>1. OneAnswer'
  BY DEF Answers, OneAnswer
<1>2. \A s \in Sock : pending'[s] # None =>
        /\ name'[<<s, pending'[s]>>] # None
        /\ reply'[<<s, pending'[s]>>] = <<>>
        /\ fin'[<<s, pending'[s]>>] # "answering"
        /\ at'[s] = "refuse" => req'[s] # pending'[s]
  <2> SUFFICES ASSUME NEW s \in Sock, pending'[s] # None
               PROVE  /\ name'[<<s, pending'[s]>>] # None
                      /\ reply'[<<s, pending'[s]>>] = <<>>
                      /\ fin'[<<s, pending'[s]>>] # "answering"
                      /\ at'[s] = "refuse" => req'[s] # pending'[s]
    OBVIOUS
  <2>1. pending'[s] = pending[s]
    OBVIOUS
  <2>2. <<s, pending[s]>> \in Binding
    BY <2>1, Bindings DEF Typed, TypeOK
  <2> QED BY <2>1, <2>2 DEF Answers
<1>3. \A b \in Binding : fin'[b] = "answering" =>
        /\ reply'[b] = <<>>
        /\ at'[b[1]] = "refuse" => req'[b[1]] # b[2]
  BY Bindings DEF Answers
<1>4. \A s \in Sock : at'[s] = "refuse" => reply'[Mine(s)'] = <<>>
  BY DEF Answers, Mine
<1> QED
  BY <1>1, <1>2, <1>3, <1>4 DEF Answers

\* A start that fails takes its request out of `_pending` before it refuses it.
LEMMA StartFailsAnswers ==
    ASSUME Typed, Answers, NEW s \in Sock, StartFails(s),
           at[s] \in {"replace", "project", "dispatch", "undo"},
           UNCHANGED <<name, reply, req, fin>>
    PROVE  Answers'
<1> USE DEF Typed, TypeOK
<1>1. req[s] \in Req /\ req[s] # None
  BY DEF Starting
<1>2. CASE pending[s] # req[s]
  BY <1>2, AnswersKept DEF StartFails
<1>3. CASE pending[s] = req[s]
  <2>1. /\ at' = [at EXCEPT ![s] = "refuse"]
        /\ pending' = [pending EXCEPT ![s] = None]
    BY <1>3 DEF StartFails, Complete, Mine
  <2>2. /\ reply[Mine(s)] = <<>> /\ fin[Mine(s)] # "answering"
    BY <1>1, <1>3 DEF Answers, Mine
  <2>3. \A u \in Sock : pending'[u] # None =>
          /\ u # s /\ pending'[u] = pending[u] /\ at'[u] = at[u]
    BY <2>1
  <2>4. ASSUME NEW b \in Binding, fin[b] = "answering", b[1] = s
        PROVE  b[2] # req[s]
    <3>1. b = <<s, b[2]>>
      BY <2>4, Bindings
    <3> QED BY <2>2, <2>4, <3>1 DEF Mine
  <2>5. OneAnswer'
    BY DEF Answers, OneAnswer
  <2>6. \A b \in Binding : fin'[b] = "answering" =>
          /\ reply'[b] = <<>>
          /\ at'[b[1]] = "refuse" => req'[b[1]] # b[2]
    BY <2>1, <2>4, Bindings DEF Answers
  <2>7. \A u \in Sock : at'[u] = "refuse" => reply'[Mine(u)'] = <<>>
    BY <2>1, <2>2 DEF Answers, Mine
  <2> QED BY <2>3, <2>5, <2>6, <2>7 DEF Answers
<1> QED
  BY <1>2, <1>3

LEMMA LeaveAnswers ==
    ASSUME Typed, Answers, NEW s \in Sock, Leave(s)
    PROVE  Answers'
<1>1. /\ UNCHANGED <<name, reply, fin, req>>
      /\ at'[s] # "refuse" /\ \A u \in Sock : u # s => at'[u] = at[u]
  BY DEF Leave, finVars, Typed, TypeOK
<1>2. \A u \in Sock : pending'[u] \in {pending[u], None}
  BY DEF Leave, CloseHost, Typed, TypeOK
<1> QED
  BY <1>1, <1>2, AnswersKept

LEMMA UndoAnswers ==
    ASSUME Typed, Answers, NEW s \in Sock, Undo(s), at[s] \in {"project", "dispatch"},
           UNCHANGED <<connVars, req, asked, name, finVars, reply>>
    PROVE  Answers'
<1>1. CASE Owns(Mine(s))
  BY <1>1, AnswersKept DEF Undo, finVars, Typed, TypeOK
<1>2. CASE ~Owns(Mine(s))
  BY <1>2, StartFailsAnswers DEF Undo, finVars
<1> QED
  BY <1>1, <1>2

\* An answer of `_finish_turn` is its request's first and last.
LEMMA FinishAnswers ==
    ASSUME Typed, Answers, NEW b \in Binding, fin[b] = "answering",
           fin' = [fin EXCEPT ![b] = "over"], NEW word \in StopReasons,
           reply' = [reply EXCEPT ![b] = Append(@, word)],
           UNCHANGED <<name, pending, at, req>>
    PROVE  Answers'
<1> USE DEF Typed, TypeOK
<1>1. /\ reply[b] = <<>> /\ \A s \in Sock : at[s] = "refuse" => Mine(s) # b
  BY Bindings DEF Answers, Mine
<1>2. \A s \in Sock : pending[s] # None => <<s, pending[s]>> # b
  BY DEF Answers
<1>3. \A c \in Binding : c # b => reply'[c] = reply[c] /\ fin'[c] = fin[c]
  OBVIOUS
<1>4. reply'[b] = Append(<<>>, word) /\ fin'[b] # "answering"
  BY <1>1
<1>5. Len(reply'[b]) <= 1
  <2>1. <<>> \in Seq(StopReasons) /\ Len(<<>>) = 0
    OBVIOUS
  <2>2. Len(Append(<<>>, word)) = 1
    BY <2>1
  <2>3. Len(reply'[b]) = 1
    BY <1>4, <2>2, Zenon
  <2> QED BY <2>3
<1>6. OneAnswer'
  BY <1>3, <1>5 DEF Answers, OneAnswer
<1>7. \A s \in Sock : pending'[s] # None =>
        /\ name'[<<s, pending'[s]>>] # None
        /\ reply'[<<s, pending'[s]>>] = <<>>
        /\ fin'[<<s, pending'[s]>>] # "answering"
        /\ at'[s] = "refuse" => req'[s] # pending'[s]
  BY <1>2, <1>3, Bindings DEF Answers
<1>8. \A c \in Binding : fin'[c] = "answering" =>
        /\ reply'[c] = <<>>
        /\ at'[c[1]] = "refuse" => req'[c[1]] # c[2]
  BY <1>3, <1>4 DEF Answers
<1>9. \A s \in Sock : at'[s] = "refuse" => reply'[Mine(s)'] = <<>>
  <2> SUFFICES ASSUME NEW s \in Sock, at[s] = "refuse"
               PROVE  reply'[Mine(s)] = <<>>
    BY DEF Mine
  <2>1. Mine(s) \in Binding /\ Mine(s) # b
    BY <1>1, Bindings DEF Starting, Mine
  <2> QED BY <1>3, <2>1 DEF Answers
<1> QED
  BY <1>6, <1>7, <1>8, <1>9 DEF Answers

\* Answers holds in every state.
THEOREM AnswersInvariant == Spec => []Answers
<1>1. Init => Answers
  BY DEF Init, Answers, OneAnswer
<1>2. Typed /\ Answers /\ [Next]_vars => Answers'
  <2> SUFFICES ASSUME Typed, Answers, [Next]_vars
               PROVE  Answers'
    OBVIOUS
  <2> USE DEF connVars, hostVars, turnVars, finVars
  <2>t. /\ at \in [Sock -> Stages] /\ req \in [Sock -> Req \cup {None}]
        /\ name \in [Binding -> TurnId \cup {None}]
        /\ pending \in [Sock -> Req \cup {None}]
        /\ fin \in [Binding -> {"no", "projecting", "answering", "over"}]
        /\ reply \in [Binding -> Seq(StopReasons \cup {"refused"})]
        /\ job \in [Actor -> Jobs]
    BY DEF Typed, TypeOK, Stages
  <2>w. \A b \in Binding : why[b] \in StopReasons
    BY DEF Typed, TypeOK
  <2>0. ASSUME UNCHANGED <<name, reply, req, fin>>,
               \A s \in Sock : pending'[s] \in {pending[s], None},
               \A s \in Sock : at'[s] \in {at[s], "hello", "supersede", "ack", "loop",
                                           "project", "dispatch", "cancel", "fatal",
                                           "gone"}
        PROVE  Answers'
    BY <2>0, AnswersKept
  <2>1. ASSUME NEW s \in Sock,
               \/ Peer(s) \/ HelloSupersedes(s) \/ Attach(s) \/ Acked(s)
               \/ DropReturns(s) \/ DeadlineExpires(s) \/ Initialize(s)
               \/ OtherRequest(s) \/ Initialized(s) \/ CancelRequest(s)
               \/ CancelReturns(s)
        PROVE  Answers'
    <3>1. UNCHANGED <<name, reply, req, fin, pending>>
      BY <2>1 DEF Peer, Connect, LinkCloses, HelloSupersedes, Attach, Acked, DropReturns,
                  DeadlineExpires, Initialize, OtherRequest, Initialized, CancelRequest,
                  CancelReturns
    <3>2. \A u \in Sock : at'[u] \in {at[u], "hello", "supersede", "ack", "loop",
                                      "project", "dispatch", "cancel", "fatal", "gone"}
      BY <2>1, <2>t
         DEF Peer, Connect, LinkCloses, HelloSupersedes, Attach, Acked, DropReturns,
             DeadlineExpires, Initialize, OtherRequest, Initialized, CancelRequest,
             CancelReturns
    <3> QED BY <2>0, <3>1, <3>2
  <2>2. CASE Disconnect \/ \E x \in Actor : DropNotified(x) \/ DropClosed(x)
    <3>1. UNCHANGED <<name, reply, req, fin, at>>
      BY <2>2 DEF Disconnect, DropNotified, DropClosed
    <3>2. \A s \in Sock : pending'[s] \in {pending[s], None}
      BY <2>2, <2>t DEF Disconnect, DropNotified, DropClosed, CloseHost
    <3> QED BY <2>0, <3>1, <3>2
  <2>3. ASSUME NEW x \in Actor, Cancelled(x)
        PROVE  Answers'
    <3>1. UNCHANGED <<name, reply, req, pending, at>>
      BY <2>3 DEF Cancelled
    <3>2. \A b \in Binding : fin'[b] = "answering" => fin[b] = "answering"
      BY <2>3, <2>t DEF Cancelled, BeginFinish
    <3> QED BY <3>1, <3>2, AnswersKept
  <2>4. ASSUME NEW s \in Sock, ConnectionEnds(s)
        PROVE  Answers'
    BY <2>4, LeaveAnswers DEF ConnectionEnds
  <2>5. ASSUME NEW s \in Sock, Exhausted(s)
        PROVE  Answers'
    <3>1. UNCHANGED <<name, reply, req, fin>> /\ at' = [at EXCEPT ![s] = "fatal"]
      BY <2>5 DEF Exhausted
    <3>2. \A u \in Sock : pending'[u] \in {pending[u], None}
      BY <2>5, <2>t DEF Exhausted, CloseHost
    <3> QED BY <2>0, <2>t, <3>1, <3>2
  <2>6. ASSUME NEW s \in Sock, NEW r \in Req, NEW t \in ChosenBy[s], VoiceTurn(s, r, t)
        PROVE  Answers'
    <3>0. t \in TurnId /\ t # None /\ r # None
      BY ChosenByAssumption, Bindings
    <3>1. t # None /\ <<s, r>> \in Binding /\ name[<<s, r>>] = None
      BY <2>6, <3>0, Bindings DEF VoiceTurn, Fresh, Typed, TypeOK
    <3>2. /\ pending' = [pending EXCEPT ![s] = r] /\ req' = [req EXCEPT ![s] = r]
          /\ name' = [name EXCEPT ![<<s, r>>] = t]
          /\ at' = [at EXCEPT ![s] = "replace"]
          /\ UNCHANGED <<fin, reply>>
      BY <2>6 DEF VoiceTurn
    <3>3. reply[<<s, r>>] = <<>> /\ fin[<<s, r>>] = "no"
      BY <3>1 DEF Typed, Fresh
    <3>4. OneAnswer'
      BY <3>2 DEF Answers, OneAnswer
    <3>5. \A b \in Binding : name[b] # None => name'[b] # None
      BY <2>t, <3>1, <3>2
    <3>6. ASSUME NEW u \in Sock, pending'[u] # None
          PROVE  /\ name'[<<u, pending'[u]>>] # None
                 /\ reply'[<<u, pending'[u]>>] = <<>>
                 /\ fin'[<<u, pending'[u]>>] # "answering"
                 /\ at'[u] = "refuse" => req'[u] # pending'[u]
      <4>1. CASE u = s
        BY <2>t, <3>1, <3>2, <3>3, <4>1
      <4>2. CASE u # s
        <5>1. pending'[u] = pending[u] /\ at'[u] = at[u] /\ req'[u] = req[u]
          BY <2>t, <3>2, <4>2
        <5>2. <<u, pending[u]>> \in Binding
          BY <2>t, <3>6, <5>1, Bindings
        <5> QED BY <3>2, <3>5, <3>6, <5>1, <5>2 DEF Answers
      <4> QED BY <4>1, <4>2
    <3>7. \A b \in Binding : fin'[b] = "answering" =>
            /\ reply'[b] = <<>>
            /\ at'[b[1]] = "refuse" => req'[b[1]] # b[2]
      BY <2>t, <3>2, Bindings DEF Answers
    <3>8. \A u \in Sock : at'[u] = "refuse" => reply'[Mine(u)'] = <<>>
      BY <2>t, <3>2 DEF Answers, Mine
    <3> QED BY <3>4, <3>6, <3>7, <3>8 DEF Answers
  <2>7. ASSUME NEW s \in Sock, StartTurn(s)
        PROVE  Answers'
    <3>1. UNCHANGED <<name, reply, req, fin>> /\ at[s] = "replace"
      BY <2>7 DEF StartTurn
    <3>2. CASE phone = s
      <4>1. pending' = pending /\ at' = [at EXCEPT ![s] = "project"]
        BY <2>7, <3>2 DEF StartTurn
      <4> QED BY <2>0, <2>t, <3>1, <4>1
    <3>3. CASE phone # s
      BY <2>7, <3>1, <3>3, StartFailsAnswers DEF StartTurn
    <3> QED BY <3>2, <3>3
  <2>8. ASSUME NEW s \in Sock, NEW taken \in BOOLEAN,
               Dispatch(s, taken) \/ Dispatched(s)
        PROVE  Answers'
    <3>1. CASE Undo(s)
      BY <2>8, <3>1, UndoAnswers DEF Dispatch, Dispatched
    <3>2. CASE ~Undo(s)
      <4>1. /\ UNCHANGED <<name, reply, req, fin, pending>>
            /\ \/ at' = [at EXCEPT ![s] = "dispatch"]
               \/ at' = [at EXCEPT ![s] = "loop"]
        BY <2>8, <3>2 DEF Dispatch, Dispatched
      <4> QED BY <2>0, <2>t, <4>1
    <3> QED BY <3>1, <3>2
  <2>9. ASSUME NEW s \in Sock, UndoReturns(s)
        PROVE  Answers'
    BY <2>9, StartFailsAnswers DEF UndoReturns
  <2>10. ASSUME NEW s \in Sock, Refuse(s)
         PROVE  Answers'
    <3>1. CASE Leave(s)
      BY <3>1, LeaveAnswers
    <3>2. CASE ~Leave(s)
      <4>1. /\ at[s] = "refuse" /\ at' = [at EXCEPT ![s] = "loop"]
            /\ reply' = [reply EXCEPT ![Mine(s)] = Append(@, "refused")]
            /\ UNCHANGED <<name, req, fin, pending>>
        BY <2>10, <3>2 DEF Refuse
      <4>2. Mine(s) \in Binding /\ reply[Mine(s)] = <<>> /\ fin[Mine(s)] # "answering"
        BY <2>t, <4>1, Bindings DEF Typed, Starting, Answers, Mine
      <4>3. \A c \in Binding : c # Mine(s) => reply'[c] = reply[c]
        BY <2>t, <4>1
      <4>4. Len(reply'[Mine(s)]) <= 1
        <5>1. reply'[Mine(s)] = Append(<<>>, "refused")
          BY <2>t, <4>1, <4>2
        <5> QED BY <5>1
      <4>5. OneAnswer'
        BY <4>3, <4>4 DEF Answers, OneAnswer
      <4>6. ASSUME NEW u \in Sock, pending[u] # None
            PROVE  /\ name'[<<u, pending[u]>>] # None
                   /\ reply'[<<u, pending[u]>>] = <<>>
                   /\ fin'[<<u, pending[u]>>] # "answering"
                   /\ at'[u] = "refuse" => req'[u] # pending[u]
        <5>1. <<u, pending[u]>> \in Binding
          BY <2>t, <4>6, Bindings
        <5>2. <<u, pending[u]>> # Mine(s)
          BY <4>1, <4>6 DEF Answers, Mine
        <5>3. at'[u] = "refuse" => at[u] = "refuse"
          BY <2>t, <4>1
        <5> QED BY <4>1, <4>3, <4>6, <5>1, <5>2, <5>3 DEF Answers
      <4>7. \A b \in Binding : fin'[b] = "answering" =>
              /\ reply'[b] = <<>>
              /\ at'[b[1]] = "refuse" => req'[b[1]] # b[2]
        BY <2>t, <4>1, <4>2, <4>3, Bindings DEF Answers
      <4>8. ASSUME NEW u \in Sock, at'[u] = "refuse"
            PROVE  reply'[Mine(u)'] = <<>>
        <5>1. u # s /\ at[u] = "refuse"
          BY <2>t, <4>1, <4>8
        <5>2. Mine(u) \in Binding /\ Mine(u) # Mine(s)
          BY <2>t, <5>1, Bindings DEF Typed, Starting, Mine
        <5> QED BY <4>1, <4>3, <5>1, <5>2 DEF Answers, Mine
      <4> QED BY <4>1, <4>5, <4>6, <4>7, <4>8 DEF Answers
    <3> QED BY <3>1, <3>2
  <2>11. ASSUME NEW b \in Binding,
                AgentRuns(b) \/ \E reason \in StopReasons : Completes(b, reason)
         PROVE  Answers'
    <3>1. UNCHANGED <<name, reply, req, pending, at>>
      BY <2>11 DEF AgentRuns, Completes
    <3>2. \A c \in Binding : fin'[c] = "answering" => fin[c] = "answering"
      BY <2>11, <2>t DEF AgentRuns, Completes, BeginFinish
    <3> QED BY <3>1, <3>2, AnswersKept
  <2>12. ASSUME NEW b \in Binding, NEW left \in BOOLEAN, HookCancelled(b, left)
         PROVE  Answers'
    <3>1. /\ fin' = [fin EXCEPT ![b] = "over"]
          /\ UNCHANGED <<name, pending, at, req>>
      BY <2>12 DEF HookCancelled
    <3>2. CASE left
      BY <2>w, <2>12, <3>1, <3>2, FinishAnswers DEF HookCancelled
    <3>3. CASE ~left
      BY <2>12, <2>t, <3>1, <3>3, AnswersKept DEF HookCancelled
    <3> QED BY <3>2, <3>3
  <2>13. ASSUME NEW b \in Binding, Answered(b)
         PROVE  Answers'
    <3>1. /\ fin[b] = "answering" /\ fin' = [fin EXCEPT ![b] = "over"]
          /\ UNCHANGED <<name, pending, at, req>>
      BY <2>13 DEF Answered
    <3>2. CASE reply' = [reply EXCEPT ![b] = Append(@, why[b])]
      BY <2>w, <3>1, <3>2, FinishAnswers
    <3>3. CASE reply' = reply
      BY <2>t, <3>1, <3>3, AnswersKept
    <3> QED BY <2>13, <3>2, <3>3 DEF Answered
  <2>14. ASSUME NEW b \in Binding, Projected(b)
         PROVE  Answers'
    <3>1. UNCHANGED <<name, reply, at, req>>
      BY <2>14 DEF Projected
    <3>2. CASE fin' = [fin EXCEPT ![b] = "over"] /\ pending' = pending
      BY <2>t, <3>1, <3>2, AnswersKept
    <3>3. CASE /\ pending[b[1]] = b[2] /\ fin' = [fin EXCEPT ![b] = "answering"]
               /\ pending' = [pending EXCEPT ![b[1]] = None]
      <4>1. b[1] \in Sock /\ b[2] # None /\ b = <<b[1], b[2]>>
        BY Bindings
      <4>2. reply[b] = <<>> /\ (at[b[1]] = "refuse" => req[b[1]] # b[2])
        BY <3>3, <4>1 DEF Answers
      <4>3. OneAnswer'
        BY <3>1 DEF Answers, OneAnswer
      <4>4. ASSUME NEW u \in Sock, pending'[u] # None
            PROVE  /\ name'[<<u, pending'[u]>>] # None
                   /\ reply'[<<u, pending'[u]>>] = <<>>
                   /\ fin'[<<u, pending'[u]>>] # "answering"
                   /\ at'[u] = "refuse" => req'[u] # pending'[u]
        <5>1. u # b[1] /\ pending'[u] = pending[u]
          BY <2>t, <3>3, <4>1, <4>4
        <5>2. <<u, pending[u]>> \in Binding /\ <<u, pending[u]>> # b
          BY <2>t, <4>1, <4>4, <5>1, Bindings
        <5>3. fin'[<<u, pending[u]>>] = fin[<<u, pending[u]>>]
          BY <2>t, <3>3, <5>2
        <5> QED BY <3>1, <4>4, <5>1, <5>3 DEF Answers
      <4>5. \A c \in Binding : fin'[c] = "answering" =>
              /\ reply'[c] = <<>>
              /\ at'[c[1]] = "refuse" => req'[c[1]] # c[2]
        BY <2>t, <3>1, <3>3, <4>2 DEF Answers
      <4>6. \A u \in Sock : at'[u] = "refuse" => reply'[Mine(u)'] = <<>>
        BY <3>1 DEF Answers, Mine
      <4> QED BY <4>3, <4>4, <4>5, <4>6 DEF Answers
    <3> QED BY <2>14, <3>2, <3>3 DEF Projected, Complete
  <2>15. CASE UNCHANGED vars
    BY <2>0, <2>15 DEF vars
  <2> QED
    BY <2>1, <2>2, <2>3, <2>4, <2>5, <2>6, <2>7, <2>8, <2>9, <2>10, <2>11, <2>12,
       <2>13, <2>14, <2>15
       DEF Next, Frame, Resumes, Dropping, Gateway
<1> QED
  BY <1>1, <1>2, TypedInvariant, PTL DEF Spec

\* A voice request gets at most one terminal answer (`complete_turn`), whether its
\* turn finishes, is cancelled, is replaced or fails to start.
THEOREM AnswersAreSingle == Spec => []OneAnswer
<1>1. Answers => OneAnswer
  BY DEF Answers
<1> QED
  BY <1>1, AnswersInvariant, PTL

-----------------------------------------------------------------------------
(* Forgetting. *)

\* The entry of a turn id is emptied only on behalf of the turn in it
\* (`_forget_turn` compares the turn, not its id).
THEOREM TurnsForgetThemselves == Spec => ForgetsOnlyItself
<1> DEFINE Behalf(b) == \/ fin'[b] = "over"
                        \/ \E x \in Actor : job[x].turn = b /\ job[x].next = "forget"
                        \/ at[b[1]] \in {"project", "dispatch"} /\ Mine(b[1]) = b
           Itself == \A t \in TurnId :
                       turns[t] # None /\ turns'[t] = None => Behalf(turns[t])
<1>1. Typed /\ [Next]_vars => [Itself]_vars
  <2> SUFFICES ASSUME Typed, Next
               PROVE  Itself
    OBVIOUS
  <2> USE DEF connVars, hostVars, turnVars, finVars
  <2>t. /\ turns \in [TurnId -> Binding \cup {None}]
        /\ fin \in [Binding -> {"no", "projecting", "answering", "over"}]
    BY DEF Typed, TypeOK
  <2>0. CASE turns' = turns
    BY <2>0
  <2>1. ASSUME NEW b \in Binding, Forget(b), Behalf(b)
        PROVE  Itself
    <3> SUFFICES ASSUME NEW t \in TurnId, turns[t] # None, turns'[t] = None
                 PROVE  turns[t] = b
      BY <2>1
    <3> HIDE DEF Behalf
    <3> QED BY <2>1, <2>t, Bindings DEF Forget, Tracked
  <2>2. ASSUME NEW b \in Binding, NEW reason, BeginFinish(b, reason)
        PROVE  Itself
    BY <2>0, <2>1, <2>2, <2>t DEF BeginFinish
  <2>3. ASSUME NEW x \in Actor, Cancelled(x)
        PROVE  Itself
    <3>1. job[x].turn \in Binding
      BY <2>3 DEF Cancelled, Typed, TypeOK, Jobs
    <3> QED BY <2>0, <2>1, <2>2, <2>3, <3>1 DEF Cancelled
  <2>4. ASSUME NEW s \in Sock, Undo(s), at[s] \in {"project", "dispatch"}
        PROVE  Itself
    <3>1. Mine(s) \in Binding /\ Mine(s)[1] = s
      BY <2>4, Bindings DEF Typed, TypeOK, Starting, Mine
    <3> QED BY <2>0, <2>1, <2>4, <3>1 DEF Undo
  <2>5. ASSUME NEW s \in Sock,
               Dispatched(s) \/ \E taken \in BOOLEAN : Dispatch(s, taken)
        PROVE  Itself
    BY <2>0, <2>4, <2>5 DEF Dispatched, Dispatch
  <2>6. ASSUME NEW s \in Sock, StartTurn(s)
        PROVE  Itself
    <3>1. CASE phone = s
      <4>1. Mine(s) # None
        BY <2>6, Bindings DEF StartTurn, Typed, TypeOK, Starting, Mine
      <4> QED BY <2>6, <2>t, <3>1, <4>1 DEF StartTurn
    <3>2. CASE phone # s
      BY <2>0, <2>6, <3>2 DEF StartTurn
    <3> QED BY <3>1, <3>2
  <2>7. ASSUME NEW b \in Binding, Gateway(b)
        PROVE  Itself
    <3>1. ASSUME NEW reason \in StopReasons, Completes(b, reason)
          PROVE  Itself
      BY <2>0, <2>2, <3>1 DEF Completes
    <3>2. ASSUME fin' = [fin EXCEPT ![b] = "over"], Forget(b)
          PROVE  Itself
      BY <2>1, <2>t, <3>2
    <3> QED BY <2>0, <2>7, <3>1, <3>2
            DEF Gateway, AgentRuns, Projected, Answered, HookCancelled
  <2>8. CASE \/ Disconnect
             \/ \E x \in Actor : DropNotified(x) \/ DropClosed(x)
             \/ \E s \in Sock : \/ Peer(s) \/ Frame(s) \/ DeadlineExpires(s)
                               \/ HelloSupersedes(s) \/ Attach(s) \/ Acked(s)
                               \/ UndoReturns(s) \/ Refuse(s) \/ CancelReturns(s)
                               \/ DropReturns(s) \/ ConnectionEnds(s)
    <3>1. turns' = turns
      BY <2>8 DEF Disconnect, DropNotified, DropClosed, Peer, Connect, LinkCloses, Frame,
                  Initialize, OtherRequest, Exhausted, VoiceTurn, Initialized,
                  CancelRequest, DeadlineExpires, HelloSupersedes, Attach, Acked,
                  UndoReturns, Refuse, CancelReturns, DropReturns, ConnectionEnds, Leave
    <3> QED BY <2>0, <3>1
  <2> QED
    BY <2>3, <2>5, <2>6, <2>7, <2>8 DEF Next, Resumes, Dropping
<1> QED
  BY <1>1, TypedInvariant, PTL DEF Spec, ForgetsOnlyItself

-----------------------------------------------------------------------------
(* The wearer's turns: VoiceTurn implements WearerTurns. *)

\* A step that neither names nor registers a turn: turns are forgotten, and those that
\* are registered finish.
Quiet ==
    /\ UNCHANGED <<name, req, begun>>
    /\ UNCHANGED <<turns, active>> \/ \E b \in Binding : Forget(b)
    /\ \A b \in Binding : Finished(b) => Finished(b)'
    /\ \A b \in Binding : Finished(b)' => Finished(b) \/ Tracked(b)
    /\ \A s \in Sock : at'[s] = "replace" => at[s] = "replace"

LEMMA LeaveIsQuiet ==
    ASSUME Typed, NEW s \in Sock, Leave(s)
    PROVE  Quiet
<1> USE DEF Typed, TypeOK, turnVars, finVars
<1>1. UNCHANGED <<name, req, begun, turns, active, fin>>
  BY DEF Leave
<1>2. at' = [at EXCEPT ![s] = "leaving"] \/ at' = [at EXCEPT ![s] = "gone"]
  BY DEF Leave
<1> QED
  BY <1>1, <1>2 DEF Quiet, Finished

LEMMA UndoIsQuiet ==
    ASSUME Typed, NEW s \in Sock, Undo(s), at[s] \in {"project", "dispatch"},
           UNCHANGED <<name, req, fin>>
    PROVE  Quiet
<1> USE DEF Typed, TypeOK, turnVars
<1>1. Mine(s) \in Binding
  BY Bindings DEF Starting, Mine
<1>2. UNCHANGED <<turns, active, begun>> \/ Forget(Mine(s))
  BY DEF Undo
<1>3. begun' = begun
  BY <1>2 DEF Forget
<1>4. \/ at' = [at EXCEPT ![s] = "undo"] \/ at' = [at EXCEPT ![s] = "refuse"]
      \/ at' = [at EXCEPT ![s] = "loop"]
  BY DEF Undo, StartFails
<1>5. \A u \in Sock : at'[u] = "replace" => at[u] = "replace"
  BY <1>4
<1> QED
  BY <1>1, <1>2, <1>3, <1>5 DEF Quiet, Finished

\* Every other step accepts a request or registers its turn.
LEMMA QuietSteps ==
    ASSUME Typed, [Next]_vars
    PROVE  \/ Quiet
           \/ \E s \in Sock, r \in Req : \E t \in ChosenBy[s] : VoiceTurn(s, r, t)
           \/ \E s \in Sock : StartTurn(s) /\ phone = s
<1> USE DEF connVars, hostVars, turnVars, finVars
<1>t. /\ at \in [Sock -> Stages]
      /\ turns \in [TurnId -> Binding \cup {None}]
      /\ fin \in [Binding -> {"no", "projecting", "answering", "over"}]
      /\ job \in [Actor -> Jobs]
  BY DEF Typed, TypeOK, Stages
<1>0. ASSUME UNCHANGED <<name, req, begun, turns, active, fin>>,
             \A s \in Sock : at'[s] = "replace" => at[s] = "replace"
      PROVE  Quiet
  BY <1>0 DEF Quiet, Finished
<1>1. ASSUME NEW s \in Sock,
             \/ Peer(s) \/ HelloSupersedes(s) \/ Attach(s) \/ Acked(s)
             \/ DropReturns(s) \/ DeadlineExpires(s) \/ Initialize(s)
             \/ OtherRequest(s) \/ Initialized(s) \/ CancelRequest(s)
             \/ CancelReturns(s) \/ Exhausted(s)
      PROVE  Quiet
  <2>1. UNCHANGED <<name, req, begun, turns, active, fin>>
    BY <1>1 DEF Peer, Connect, LinkCloses, HelloSupersedes, Attach, Acked, DropReturns,
                DeadlineExpires, Initialize, OtherRequest, Initialized, CancelRequest,
                CancelReturns, Exhausted
  <2>2. \A u \in Sock : at'[u] = "replace" => at[u] = "replace"
    BY <1>1, <1>t
       DEF Peer, Connect, LinkCloses, HelloSupersedes, Attach, Acked, DropReturns,
           DeadlineExpires, Initialize, OtherRequest, Initialized, CancelRequest,
           CancelReturns, Exhausted
  <2> QED BY <1>0, <2>1, <2>2
<1>2. ASSUME Disconnect \/ \E x \in Actor : DropNotified(x) \/ DropClosed(x)
      PROVE  Quiet
  BY <1>0, <1>2 DEF Disconnect, DropNotified, DropClosed
<1>3. ASSUME NEW b \in Binding, NEW reason, BeginFinish(b, reason),
             Tracked(b), ~Finished(b), UNCHANGED <<name, req, at>>
      PROVE  Quiet
  <2>1. UNCHANGED <<turns, active, begun>> \/ Forget(b)
    BY <1>3 DEF BeginFinish
  <2>2. begun' = begun
    BY <2>1 DEF Forget
  <2>3. \A c \in Binding : c # b => fin'[c] = fin[c]
    BY <1>3, <1>t DEF BeginFinish
  <2> QED BY <1>3, <2>1, <2>2, <2>3 DEF Quiet, Finished
<1>4. ASSUME NEW b \in Binding, Forget(b), fin' = [fin EXCEPT ![b] = "over"],
             Finished(b), UNCHANGED <<name, req, at>>
      PROVE  Quiet
  <2>1. \A c \in Binding : Finished(c)' <=> Finished(c)
    BY <1>4, <1>t DEF Finished
  <2> QED BY <1>4, <2>1 DEF Quiet, Forget
<1>5. ASSUME NEW x \in Actor, Cancelled(x)
      PROVE  Quiet
  <2> DEFINE b == job[x].turn
  <2>1. b \in Binding
    BY <1>5 DEF Cancelled, Typed, TypeOK, Jobs
  <2>2. UNCHANGED <<name, req, at>>
    BY <1>5 DEF Cancelled
  <2>3. CASE Forget(b) /\ UNCHANGED finVars
    BY <2>1, <2>2, <2>3 DEF Quiet, Finished, Forget
  <2>4. CASE BeginFinish(b, "cancelled") /\ Tracked(b) /\ ~Finished(b)
    <3> HIDE DEF b
    <3> QED BY <1>3, <2>1, <2>2, <2>4
  <2>5. CASE UNCHANGED <<turnVars, finVars>>
    BY <1>0, <2>2, <2>5
  <2> QED BY <1>5, <2>3, <2>4, <2>5 DEF Cancelled
<1>6. ASSUME NEW s \in Sock, StartTurn(s), phone # s
      PROVE  Quiet
  <2>1. UNCHANGED <<name, req, begun, turns, active, fin>>
    BY <1>6 DEF StartTurn
  <2>2. \A u \in Sock : at'[u] = "replace" => at[u] = "replace"
    BY <1>6, <1>t DEF StartTurn, StartFails
  <2> QED BY <1>0, <2>1, <2>2
<1>7. ASSUME NEW s \in Sock,
             Dispatched(s) \/ \E taken \in BOOLEAN : Dispatch(s, taken)
      PROVE  Quiet
  <2>1. UNCHANGED <<name, req, fin>> /\ at[s] \in {"project", "dispatch"}
    BY <1>7 DEF Dispatched, Dispatch
  <2>2. CASE Undo(s)
    BY <2>1, <2>2, UndoIsQuiet
  <2>3. CASE ~Undo(s)
    <3>1. UNCHANGED <<turns, active, begun>>
      BY <1>7, <2>3 DEF Dispatched, Dispatch
    <3>2. at' = [at EXCEPT ![s] = "dispatch"] \/ at' = [at EXCEPT ![s] = "loop"]
      BY <1>7, <2>3 DEF Dispatched, Dispatch
    <3> QED BY <1>0, <1>t, <2>1, <3>1, <3>2
  <2> QED BY <2>2, <2>3
<1>8. ASSUME NEW s \in Sock, UndoReturns(s)
      PROVE  Quiet
  <2>1. UNCHANGED <<name, req, begun, turns, active, fin>>
    BY <1>8 DEF UndoReturns
  <2>2. \A u \in Sock : at'[u] = "replace" => at[u] = "replace"
    BY <1>8, <1>t DEF UndoReturns, StartFails
  <2> QED BY <1>0, <2>1, <2>2
<1>9. ASSUME NEW s \in Sock, ConnectionEnds(s) \/ Refuse(s)
      PROVE  Quiet
  <2>1. CASE Leave(s)
    BY <2>1, LeaveIsQuiet
  <2>2. CASE ~Leave(s)
    <3>1. UNCHANGED <<name, req, begun, turns, active, fin>>
          /\ at' = [at EXCEPT ![s] = "loop"]
      BY <1>9, <2>2 DEF ConnectionEnds, Refuse
    <3> QED BY <1>0, <1>t, <3>1
  <2> QED BY <2>1, <2>2
<1>10. ASSUME NEW b \in Binding, Gateway(b)
       PROVE  Quiet
  <2>1. UNCHANGED <<name, req, at>>
    BY <1>10 DEF Gateway, AgentRuns, Projected, Answered, Completes, HookCancelled
  <2>2. CASE UNCHANGED <<turnVars, fin>>
    BY <1>0, <2>1, <2>2
  <2>3. CASE Forget(b) /\ fin' = [fin EXCEPT ![b] = "over"] /\ Finished(b)
    BY <1>4, <2>1, <2>3
  <2>4. ASSUME NEW reason \in StopReasons, BeginFinish(b, reason),
               Tracked(b), ~Finished(b)
        PROVE  Quiet
    BY <1>3, <2>1, <2>4
  <2>5. CASE fin[b] = "projecting" /\ fin' = [fin EXCEPT ![b] = "answering"]
             /\ UNCHANGED turnVars
    <3>1. \A c \in Binding : Finished(c)' <=> Finished(c)
      BY <1>t, <2>5 DEF Finished
    <3> QED BY <2>1, <2>5, <3>1 DEF Quiet
  <2>6. AgentRuns(b) => UNCHANGED <<turnVars, fin>>
    BY DEF AgentRuns
  <2>7. Projected(b) \/ Answered(b) => Quiet
    BY <2>3, <2>5 DEF Projected, Answered, Finished
  <2>8. \A left \in BOOLEAN : HookCancelled(b, left) => Quiet
    BY <2>3 DEF HookCancelled
  <2>9. \A reason \in StopReasons : Completes(b, reason) => Quiet
    BY <2>2, <2>4 DEF Completes
  <2> QED BY <1>10, <2>2, <2>6, <2>7, <2>8, <2>9 DEF Gateway
<1>11. CASE UNCHANGED vars
  BY <1>0, <1>11 DEF vars
<1> QED
  BY <1>1, <1>2, <1>5, <1>6, <1>7, <1>8, <1>9, <1>10, <1>11
     DEF Next, Frame, Resumes, Dropping

\* The turns that were registered are those that `_turns` holds, those that have ended
\* and others that have been forgotten; a request whose turn is about to be registered
\* is new.
Begun ==
    /\ \A t \in TurnId : turns[t] # None => turns[t] \in begun
    /\ \A b \in Binding : Finished(b) => b \in begun
    /\ \A b \in begun : name[b] # None
    /\ \A s \in Sock : at[s] = "replace" => Mine(s) \notin begun

THEOREM BegunInvariant == Spec => []Begun
<1>1. Init => Begun
  BY DEF Init, Begun, Finished
<1>2. Typed /\ Begun /\ [Next]_vars => Begun'
  <2> SUFFICES ASSUME Typed, Begun, [Next]_vars
               PROVE  Begun'
    OBVIOUS
  <2>t. /\ at \in [Sock -> Stages] /\ req \in [Sock -> Req \cup {None}]
        /\ name \in [Binding -> TurnId \cup {None}]
        /\ turns \in [TurnId -> Binding \cup {None}]
        /\ fin \in [Binding -> {"no", "projecting", "answering", "over"}]
        /\ begun \subseteq Binding
    BY DEF Typed, TypeOK, Stages
  <2>1. CASE Quiet
    <3>1. \A t \in TurnId : turns'[t] # None => turns'[t] = turns[t]
      BY <2>1, <2>t DEF Quiet, Forget
    <3>2. ASSUME NEW b \in Binding, Tracked(b) PROVE b \in begun
      <4>1. name[b] \in TurnId /\ turns[name[b]] = b /\ b # None
        BY <2>t, <3>2, Bindings DEF Tracked
      <4> QED BY <4>1 DEF Begun
    <3> QED BY <2>1, <3>1, <3>2 DEF Quiet, Begun, Mine
  <2>2. ASSUME NEW s \in Sock, NEW r \in Req, NEW t \in ChosenBy[s], VoiceTurn(s, r, t)
        PROVE  Begun'
    <3>0. t \in TurnId /\ t # None /\ <<s, r>> \in Binding
      BY ChosenByAssumption, Bindings
    <3>1. name[<<s, r>>] = None
      BY <2>2, <3>0, Bindings DEF VoiceTurn, Fresh, Typed
    <3>2. /\ name' = [name EXCEPT ![<<s, r>>] = t]
          /\ req' = [req EXCEPT ![s] = r]
          /\ at' = [at EXCEPT ![s] = "replace"]
          /\ UNCHANGED <<turns, begun, fin>>
      BY <2>2 DEF VoiceTurn, turnVars, finVars
    <3>3. <<s, r>> \notin begun
      BY <3>1 DEF Begun
    <3>4. \A b \in begun : name'[b] # None
      BY <2>t, <3>0, <3>2 DEF Begun
    <3>5. ASSUME NEW u \in Sock, at'[u] = "replace" PROVE Mine(u)' \notin begun
      BY <2>t, <3>2, <3>3, <3>5 DEF Begun, Mine
    <3> QED BY <3>2, <3>4, <3>5 DEF Begun, Finished
  <2>3. ASSUME NEW s \in Sock, StartTurn(s), phone = s
        PROVE  Begun'
    <3>1. /\ turns' = [turns EXCEPT ![name[Mine(s)]] = Mine(s)]
          /\ begun' = begun \cup {Mine(s)}
          /\ at' = [at EXCEPT ![s] = "project"]
          /\ UNCHANGED <<req, name, fin>>
      BY <2>3 DEF StartTurn, finVars
    <3>2. Mine(s) \in Binding /\ name[Mine(s)] # None
      BY <2>3, <2>t, Bindings DEF StartTurn, Typed, Starting, Mine
    <3>3. ASSUME NEW t \in TurnId, turns'[t] # None PROVE turns'[t] \in begun'
      BY <2>t, <3>1, <3>3 DEF Begun
    <3>4. ASSUME NEW u \in Sock, at'[u] = "replace" PROVE Mine(u)' \notin begun'
      BY <2>t, <3>1, <3>4 DEF Begun, Mine
    <3> QED BY <3>1, <3>2, <3>3, <3>4 DEF Begun, Finished
  <2> QED BY <2>1, <2>2, <2>3, QuietSteps
<1> QED
  BY <1>1, <1>2, TypedInvariant, PTL DEF Spec

\* The tools may act for one turn at a time, a new turn is registered only when the one
\* before has lost that right, and a turn that has lost it never gets it back
\* (`authorize_active_g2_turn`): the environment that DeviceCalls, Reads and
\* WorkflowRelay assume is what the adapter provides.
THEOREM TurnsImplemented == Spec => ImplementsTurns
<1>1. Init => Wearer!TurnsInit
  BY DEF Init, Wearer!TurnsInit, Authorized
<1>2. Typed /\ Lane /\ Begun /\ [Next]_vars => [Wearer!TurnsNext]_(Wearer!turnVars)
  <2> SUFFICES ASSUME Typed, Lane, Begun, [Next]_vars
               PROVE  Wearer!TurnsNext \/ UNCHANGED Wearer!turnVars
    OBVIOUS
  <2>t. /\ at \in [Sock -> Stages] /\ phone \in Sock \cup {None}
        /\ name \in [Binding -> TurnId \cup {None}]
        /\ turns \in [TurnId -> Binding \cup {None}]
        /\ active \in TurnId \cup {None}
        /\ begun \subseteq Binding
    BY DEF Typed, TypeOK, Stages
  <2>0. /\ None \notin begun
        /\ Authorized # None => Authorized \in begun
    BY <2>t, Bindings DEF Begun, Authorized
  <2>1. CASE Authorized' = Authorized /\ begun' = begun
    BY <2>1 DEF Wearer!turnVars
  <2>2. CASE Authorized' = None /\ begun' = begun
    BY <2>0, <2>2 DEF Wearer!TurnsNext, Wearer!TurnEnds
  <2>3. CASE Quiet
    <3>1. Authorized' \in {Authorized, None}
      BY <2>t, <2>3, Bindings DEF Quiet, Authorized, Forget, Typed, Registered
    <3> QED BY <2>1, <2>2, <2>3, <3>1 DEF Quiet
  <2>4. ASSUME NEW s \in Sock, NEW r \in Req, NEW t \in ChosenBy[s], VoiceTurn(s, r, t)
        PROVE  Wearer!TurnsNext \/ UNCHANGED Wearer!turnVars
    <3>1. UNCHANGED <<turns, active, begun, fin>>
      BY <2>4 DEF VoiceTurn, turnVars, finVars
    <3> QED BY <2>1, <3>1 DEF Authorized, Finished
  <2>5. ASSUME NEW s \in Sock, StartTurn(s), phone = s
        PROVE  Wearer!TurnsNext \/ UNCHANGED Wearer!turnVars
    <3>1. /\ turns' = [turns EXCEPT ![name[Mine(s)]] = Mine(s)]
          /\ active' = name[Mine(s)]
          /\ begun' = begun \cup {Mine(s)}
          /\ at[s] = "replace" /\ fin' = fin
      BY <2>5 DEF StartTurn, finVars
    <3>2. Mine(s) \in Binding /\ name[Mine(s)] \in TurnId
      BY <2>t, <3>1, Bindings DEF Typed, TypeOK, Starting, Mine
    <3>3. Authorized = None
      BY <2>5, <3>1 DEF StartTurn, Through, Lane, Waits, Authorized
    <3>4. Mine(s) \notin begun /\ ~Finished(Mine(s))
      BY <3>1, <3>2 DEF Begun
    <3>5. Authorized' = Mine(s)
      BY <2>t, <3>1, <3>2, <3>4, Bindings DEF Authorized, Finished
    <3>6. begun' \ {Authorized'} = begun \ {Authorized}
      BY <2>0, <3>1, <3>3, <3>4, <3>5
    <3>7. Wearer!TurnBegins(Mine(s))
      BY <2>0, <3>3, <3>4, <3>5, <3>6 DEF Wearer!TurnBegins
    <3> QED BY <3>2, <3>7 DEF Wearer!TurnsNext
  <2> QED BY <2>3, <2>4, <2>5, QuietSteps
<1> QED
  BY <1>1, <1>2, TypedInvariant, LaneInvariant, BegunInvariant, PTL
     DEF Spec, ImplementsTurns, Wearer!TurnsSpec
=============================================================================

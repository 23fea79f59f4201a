-------------------------- MODULE DeviceCallsProofs --------------------------
(***************************************************************************)
(* Proofs about DeviceCalls for any number of jobs, connections and turns. *)
(*                                                                         *)
(* A request is <<connection, id>>.  Fresh says that a client's ids only   *)
(* grow, so a new request is no old frame's and no other job's; Answered   *)
(* that a frame on its way belongs to the job that waits with its request, *)
(* and that no answer can be there before the call was handed over.        *)
(***************************************************************************)
EXTENDS DeviceCalls, TLAPS

\* Requests in the table, on their way and waited for are older than nextId.
Fresh ==
    /\ \A r \in pending : r[2] < nextId[r[1]]
    /\ \A q \in asked : q.req[2] < nextId[q.req[1]]
    /\ \A j \in Job : req[j] # None => req[j][2] < nextId[req[j][1]]

\* TableIsExact, without the types.
Table ==
    /\ \A r \in pending : \E j \in Job : req[j] = r
    /\ \A j \in Job : future[j] = "waiting" => req[j] \in pending
    /\ \A i, j \in Job : req[i] # None /\ req[i] = req[j] => i = j

\* A frame on its way with the request of a job is that job's, of the kind the job
\* waits for; a job that waits for the lock has none.
Answered ==
    /\ \A q \in asked, j \in Job : req[j] = q.req =>
         /\ q.of = j /\ pc[j] # "lock"
         /\ pc[j] \in {"send", "call"} => q.kind = "call"
    /\ \A j \in Job :
         /\ pc[j] = "lock" => future[j] \in {"waiting", "closed"}
         /\ pc[j] \in {"send", "call"} /\ future[j] = "ok" => j \in executed

\* What was told is true, and what is not handed over cannot have been.
Told ==
    /\ \A j \in Job : pc[j] \in {"idle", "ready", "list", "lock"} => j \notin handed
    /\ DenialIsTrue /\ SuccessIsTrue
    /\ active = None \/ active \notin past

Honest == TypeOK /\ Fresh /\ Table /\ Answered /\ Told

\* A handler that answers, at any place, leaves an honest state, if what it says of
\* its own call is so.
LEMMA EndHonest ==
    ASSUME Honest, NEW j \in Job, NEW answer \in Replies \ {"none"}, End(j, answer),
           pc[j] # "end",
           UNCHANGED <<connVars, turnVars, client, handed, phoneVars>>,
           nextId' \in [Conn -> Nat], \A c \in Conn : nextId[c] <= nextId'[c],
           answer \in Refusals /\ j \in Mutating => j \notin handed,
           answer = "success" => j \in executed
    PROVE  Honest'
<1> USE NoneAssumption, JobAssumption
      DEF Honest, End, connVars, turnVars, phoneVars
<1>1. TypeOK'
  BY DEF TypeOK, Working, Requests, Frames
<1>2. Fresh'
  <2>1. \A r \in Requests : r[1] \in Conn /\ r[2] \in Nat
    BY DEF Requests
  <2>2. \A r \in pending' : r[2] < nextId'[r[1]]
    BY <2>1 DEF Fresh, TypeOK
  <2>3. \A q \in asked' : q.req[2] < nextId'[q.req[1]]
    BY <2>1 DEF Fresh, TypeOK, Frames
  <2>4. \A i \in Job : req'[i] # None => req'[i][2] < nextId'[req'[i][1]]
    BY <2>1 DEF Fresh, TypeOK
  <2> QED BY <2>2, <2>3, <2>4 DEF Fresh
<1>3. Table'
  BY DEF Table, TypeOK, Requests
<1>4. Answered'
  BY DEF Answered, TypeOK, Requests, Frames
<1>5. Told'
  BY DEF Told, TypeOK, DenialIsTrue, SuccessIsTrue, Refusals
<1> QED BY <1>1, <1>2, <1>3, <1>4, <1>5

\* What the failures of a call are said to be.
LEMMA Wordings ==
    ASSUME NEW j \in Job
    PROVE  /\ Failed(j) \in Replies \ {"none", "success"}
           /\ j \in Mutating => Failed(j) \notin Refusals
           /\ Malformed(j) \in Uncertain
           /\ \A why \in Refusals : Refused(j, why) \in Refusals
           /\ Refused(j, "phone_error") \in Replies \ {"none", "success"}
<1> QED
  BY JobAssumption DEF Failed, Malformed, Refused, Refusals, Uncertain, Replies

\* A new request is no old frame's and no other job's.
LEMMA RequestIsNew ==
    ASSUME Honest, NEW j \in Job, client'[j] \in Conn, NewRequest(j)
    PROVE  LET r == req'[j] IN
           /\ r \in Requests /\ r[1] = client'[j] /\ r[2] = nextId[r[1]]
           /\ req' = [req EXCEPT ![j] = r]
           /\ pending' = (pending \ {req[j]}) \cup {r}
           /\ nextId' = [nextId EXCEPT ![r[1]] = @ + 1]
           /\ future' = [future EXCEPT ![j] = "waiting"]
           /\ r \notin pending
           /\ \A q \in asked : q.req # r
           /\ \A i \in Job : req[i] # r
<1> USE NoneAssumption DEF Honest, TypeOK
<1> DEFINE r == <<client'[j], nextId[client'[j]]>>
<1>1. r \in Requests /\ r[1] = client'[j] /\ r[2] = nextId[r[1]]
  BY DEF Requests
<1>2. /\ req' = [req EXCEPT ![j] = r]
      /\ pending' = (pending \ {req[j]}) \cup {r}
      /\ nextId' = [nextId EXCEPT ![r[1]] = @ + 1]
      /\ future' = [future EXCEPT ![j] = "waiting"]
  BY DEF NewRequest
<1> HIDE DEF r
<1>3. req'[j] = r
  BY <1>2
<1>4. r \notin pending /\ \A q \in asked : q.req # r
  BY <1>1 DEF Fresh, Requests
<1>5. \A i \in Job : req[i] # r
  BY <1>1 DEF Fresh, Requests
<1> QED BY <1>1, <1>2, <1>3, <1>4, <1>5

\* Making a request keeps an honest state; the caller says where the job goes and
\* whether the frame is on its way.
LEMMA RequestHonest ==
    ASSUME Honest, NEW j \in Job, NEW place \in {"list", "lock"},
           pc[j] \in {"ready", "list"}, Goto(j, place),
           client' \in [Job -> Conn \cup {None}], client'[j] \in Conn,
           \A i \in Job : i # j => client'[i] = client[i],
           NewRequest(j),
           UNCHANGED <<connVars, turnVars, reply, handed, executed>>,
           \/ place = "lock" /\ asked' = asked
           \/ place = "list" /\ Ask(j, req'[j], "list")
    PROVE  Honest'
<1> USE NoneAssumption DEF Goto, connVars, turnVars
<1> DEFINE r == req'[j]
<1>1. /\ r \in Requests /\ r[1] \in Conn /\ r[2] = nextId[r[1]]
      /\ req' = [req EXCEPT ![j] = r]
      /\ pending' = (pending \ {req[j]}) \cup {r}
      /\ nextId' = [nextId EXCEPT ![r[1]] = @ + 1]
      /\ future' = [future EXCEPT ![j] = "waiting"]
      /\ r \notin pending
      /\ \A q \in asked : q.req # r
      /\ \A i \in Job : req[i] # r
  BY RequestIsNew
<1> DEFINE frame == [req |-> r, of |-> j, kind |-> "list"]
<1>2. frame \in Frames /\ frame.req = r /\ frame.of = j
  BY <1>1 DEF Frames
<1>3. asked' \in {asked, asked \cup {frame}} /\ (place = "lock" => asked' = asked)
  BY DEF Ask
<1> HIDE DEF r, frame
<1> USE DEF Honest
<1>4. nextId' \in [Conn -> Nat] /\ \A c \in Conn : nextId[c] <= nextId'[c]
  BY <1>1 DEF TypeOK
<1>5. TypeOK'
  <2>1. req' \in [Job -> Requests \cup {None}] /\ pending' \subseteq Requests
    BY <1>1 DEF TypeOK
  <2>2. asked' \subseteq Frames
    BY <1>2, <1>3 DEF TypeOK
  <2>3. r # None
    BY <1>1, NoneAssumption DEF Requests
  <2>4. \A i \in Job :
          /\ pc'[i] \notin {"idle", "end"} => client'[i] # None
          /\ req'[i] # None <=> pc'[i] \in {"list", "lock", "send", "call",
                                          "expire", "cancel"}
          /\ future'[i] # "none" <=> pc'[i] \in {"list", "lock", "send", "call",
                                               "expire", "cancel"}
          /\ reply'[i] # "none" <=> pc'[i] = "end"
    <3> SUFFICES ASSUME NEW i \in Job
                 PROVE  /\ pc'[i] \notin {"idle", "end"} => client'[i] # None
                        /\ req'[i] # None <=> pc'[i] \in {"list", "lock", "send",
                                                        "call", "expire", "cancel"}
                        /\ future'[i] # "none" <=> pc'[i] \in {"list", "lock", "send",
                                                        "call", "expire", "cancel"}
                        /\ reply'[i] # "none" <=> pc'[i] = "end"
      OBVIOUS
    <3>1. CASE i = j
      BY <3>1, <1>1, <2>3 DEF TypeOK, Working
    <3>2. CASE i # j
      BY <3>2, <1>1 DEF TypeOK, Working
    <3> QED BY <3>1, <3>2
  <2> QED BY <1>1, <1>4, <2>1, <2>2, <2>4 DEF TypeOK, Working
<1>6. Fresh'
  <2>1. \A s \in Requests : s[1] \in Conn /\ s[2] \in Nat
    BY DEF Requests
  <2>2. r[2] < nextId'[r[1]]
    BY <1>1, <2>1 DEF TypeOK
  <2>3. \A s \in pending' : s[2] < nextId'[s[1]]
    BY <1>1, <1>4, <2>1, <2>2 DEF Fresh, TypeOK
  <2>4. \A q \in asked' : q.req[2] < nextId'[q.req[1]]
    BY <1>2, <1>3, <1>4, <2>1, <2>2 DEF Fresh, TypeOK, Frames
  <2>5. \A i \in Job : req'[i] # None => req'[i][2] < nextId'[req'[i][1]]
    BY <1>1, <1>4, <2>1, <2>2 DEF Fresh, TypeOK
  <2> QED BY <2>3, <2>4, <2>5 DEF Fresh
<1>7. Table'
  BY <1>1 DEF Table, TypeOK
<1>8. Answered'
  BY <1>1, <1>2, <1>3 DEF Answered, TypeOK, Frames
<1>9. Told'
  BY DEF Told, TypeOK, DenialIsTrue, SuccessIsTrue
<1> QED BY <1>5, <1>6, <1>7, <1>8, <1>9

-----------------------------------------------------------------------------
\* Calls, their answers, timeouts, drops and cancellations keep Honest.
THEOREM HonestInvariant == Spec => []Honest
<1> USE NoneAssumption, JobAssumption
<1>1. Init => Honest
  BY DEF Init, TurnsInit, Honest, TypeOK, Fresh, Table, Answered, Told, DenialIsTrue,
     SuccessIsTrue, Working, Replies, Refusals
<1>2. Honest /\ [Next]_vars => Honest'
  <2> SUFFICES ASSUME Honest, [Next]_vars
               PROVE  Honest'
    OBVIOUS
  <2> USE DEF connVars, turnVars, clientVars, jobVars, phoneVars
  <2>1. ASSUME \/ \E c \in Conn : \/ Hello(c) \/ HelloSupersedes(c) \/ Attach(c)
                                  \/ Leave(c) \/ DropEnds(c)
                                  \/ \E what \in {"initialized", "failed"} :
                                       InitEnds(c, what)
               \/ EndTurn \/ \E t \in Turn : BeginTurn(t)
        PROVE  Honest'
    <3>1. UNCHANGED <<clientVars, jobVars, phoneVars>>
      BY <2>1 DEF Hello, HelloSupersedes, Attach, Leave, DropEnds, InitEnds,
         EndTurn, TurnEnds, BeginTurn, TurnBegins
    <3>2. TypeOK'
      BY <2>1, <3>1 DEF Honest, TypeOK, Working, Hello, HelloSupersedes, Attach,
         Leave, DropEnds, InitEnds, EndTurn, TurnEnds, BeginTurn, TurnBegins, Attached
    <3>3. active' = None \/ active' \notin past'
      BY <2>1 DEF Honest, Told, Hello, HelloSupersedes, Attach, Leave, DropEnds,
         InitEnds, EndTurn, TurnEnds, BeginTurn, TurnBegins
    <3> QED BY <3>1, <3>2, <3>3 DEF Honest, Fresh, Table, Answered, Told,
            DenialIsTrue, SuccessIsTrue
  <2>2. ASSUME NEW c \in Conn, CloseClient(c)
        PROVE  Honest'
    <3>1. TypeOK'
      BY <2>2 DEF CloseClient, Honest, TypeOK, Working
    <3>2. Table'
      BY <2>2 DEF CloseClient, Honest, Table, TypeOK, Requests
    <3>3. Fresh' /\ Answered' /\ Told'
      BY <2>2 DEF CloseClient, Honest, Fresh, Answered, Told, DenialIsTrue,
         SuccessIsTrue, TypeOK
    <3> QED BY <3>1, <3>2, <3>3 DEF Honest
  <2>3. ASSUME NEW j \in Job, StartRefused(j)
        PROVE  Honest'
    <3>1. \/ End(j, Refused(j, "phone_error"))
          \/ \E why \in Refusals : End(j, Refused(j, why))
      BY <2>3 DEF StartRefused, Refusals
    <3>2. j \notin handed /\ pc[j] # "end" /\ nextId' = nextId
      BY <2>3 DEF StartRefused, Honest, Told
    <3> QED BY <2>3, <3>1, <3>2, EndHonest, Wordings
            DEF StartRefused, Honest, TypeOK, Refusals, Replies
  <2>4. ASSUME NEW j \in Job, Start(j)
        PROVE  Honest'
    <3>1. TypeOK'
      BY <2>4 DEF Start, Goto, Honest, TypeOK, Working
    <3> QED BY <2>4, <3>1 DEF Start, Goto, Honest, Fresh, Table, Answered, Told,
            DenialIsTrue, SuccessIsTrue, TypeOK
  <2>5. ASSUME NEW j \in Job, NotReady(j)
        PROVE  Honest'
    <3>1. \/ End(j, "cancelled")
          \/ \E why \in Refusals : End(j, Refused(j, why))
      BY <2>5 DEF NotReady, Refusals
    <3>2. j \notin handed /\ pc[j] # "end" /\ nextId' = nextId
      BY <2>5 DEF NotReady, Honest, Told
    <3> QED BY <2>5, <3>1, <3>2, EndHonest, Wordings
            DEF NotReady, Honest, TypeOK, Refusals, Replies
  <2>6. ASSUME NEW j \in Job, ListTools(j)
        PROVE  Honest'
    <3>1. client[j] \in Conn /\ client \in [Job -> Conn \cup {None}]
      BY <2>6 DEF ListTools, Honest, TypeOK
    <3> QED BY <2>6, <3>1, RequestHonest DEF ListTools
  <2>7. ASSUME NEW j \in Job, ListUnsent(j)
        PROVE  Honest'
    <3>1. \E why \in Refusals : End(j, Refused(j, why))
      BY <2>7 DEF ListUnsent, Refusals
    <3>2. j \notin handed /\ pc[j] # "end"
      BY <2>7 DEF ListUnsent, Honest, Told
    <3>3. nextId' \in [Conn -> Nat] /\ \A c \in Conn : nextId[c] <= nextId'[c]
      BY <2>7 DEF ListUnsent, Honest, TypeOK
    <3> QED BY <2>7, <3>1, <3>2, <3>3, EndHonest, Wordings
            DEF ListUnsent, Refusals, Replies
  <2>8. ASSUME NEW j \in Job, ListFails(j)
        PROVE  Honest'
    <3>1. \/ End(j, Failed(j))
          \/ \E why \in Refusals : End(j, Refused(j, why))
      BY <2>8 DEF ListFails, Missing, Refusals
    <3>2. j \notin handed /\ pc[j] # "end" /\ nextId' = nextId
      BY <2>8 DEF ListFails, Honest, Told
    <3> QED BY <2>8, <3>1, <3>2, EndHonest, Wordings
            DEF ListFails, Honest, TypeOK, Refusals, Replies
  <2>9. ASSUME NEW j \in Job, CallTool(j)
        PROVE  Honest'
    <3>1. client[j] \in Conn /\ client \in [Job -> Conn \cup {None}]
      BY <2>9 DEF CallTool, Honest, TypeOK
    <3> QED BY <2>9, <3>1, RequestHonest DEF CallTool
  <2>10. ASSUME NEW j \in Job, NotHandedOver(j)
         PROVE  Honest'
    <3>1. \/ End(j, Failed(j))
          \/ \E why \in Refusals : End(j, Refused(j, why))
      BY <2>10 DEF NotHandedOver, Refusals
    <3>2. j \notin handed /\ pc[j] # "end" /\ nextId' = nextId
      BY <2>10 DEF NotHandedOver, Honest, Told
    <3> QED BY <2>10, <3>1, <3>2, EndHonest, Wordings
            DEF NotHandedOver, Honest, TypeOK, Refusals, Replies
  <2>11. ASSUME NEW j \in Job, HandOver(j)
         PROVE  Honest'
    <3> DEFINE frame == [req |-> req[j], of |-> j, kind |-> "call"]
    <3>1. /\ asked' = asked \cup {frame} /\ handed' = handed \cup {j}
          /\ pc' = [pc EXCEPT ![j] = "send"] /\ pc[j] = "lock"
          /\ UNCHANGED <<connVars, turnVars, clientVars, client, req, future, reply,
                         executed>>
      BY <2>11 DEF HandOver, Ask, Goto
    <3>2. req[j] \in Requests /\ req[j] # None
      BY <3>1 DEF Honest, TypeOK, Working
    <3>3. frame \in Frames /\ frame.req = req[j] /\ frame.of = j /\ frame.kind = "call"
      BY <3>2 DEF Frames
    <3> HIDE DEF frame
    <3>4. TypeOK'
      BY <3>1, <3>3 DEF Honest, TypeOK, Working
    <3>5. Fresh'
      BY <3>1, <3>2, <3>3 DEF Honest, Fresh
    <3>6. Table'
      BY <3>1 DEF Honest, Table
    <3>7. Answered'
      BY <3>1, <3>2, <3>3 DEF Honest, Answered, Table, TypeOK
    <3>8. Told'
      BY <3>1 DEF Honest, Told, DenialIsTrue, SuccessIsTrue, TypeOK, Refusals
    <3> QED BY <3>4, <3>5, <3>6, <3>7, <3>8 DEF Honest
  <2>12. ASSUME NEW j \in Job, Sent(j) \/ TimesOut(j)
         PROVE  Honest'
    <3>1. TypeOK'
      BY <2>12 DEF Sent, TimesOut, Goto, Honest, TypeOK, Working
    <3> QED BY <2>12, <3>1 DEF Sent, TimesOut, Goto, Honest, Fresh, Table, Answered,
            Told, DenialIsTrue, SuccessIsTrue, TypeOK
  <2>13. ASSUME NEW j \in Job, SendBreaks(j)
         PROVE  Honest'
    <3>1. End(j, Failed(j)) /\ pc[j] # "end" /\ nextId' = nextId
      BY <2>13 DEF SendBreaks
    <3> QED BY <2>13, <3>1, EndHonest, Wordings DEF SendBreaks, Honest, TypeOK
  <2>14. ASSUME NEW j \in Job, CallReturns(j)
         PROVE  Honest'
    <3>1. /\ pc[j] = "call" /\ nextId' = nextId
          /\ \/ future[j] = "ok" /\ End(j, "success")
             \/ End(j, Malformed(j)) \/ End(j, Failed(j))
      BY <2>14 DEF CallReturns
    <3>2. future[j] = "ok" => j \in executed
      BY <3>1 DEF Honest, Answered
    <3> QED BY <2>14, <3>1, <3>2, EndHonest, Wordings
            DEF CallReturns, Honest, TypeOK, Refusals, Uncertain, Replies
  <2>15. ASSUME NEW j \in Job, CancelCaller(j)
         PROVE  Honest'
    <3>1. CASE Goto(j, "cancel") /\ pc[j] \in {"list", "call"}
                /\ UNCHANGED <<reply, pending, req, future>>
      <4>1. TypeOK'
        BY <2>15, <3>1 DEF CancelCaller, Goto, Honest, TypeOK, Working
      <4> QED BY <2>15, <3>1, <4>1 DEF CancelCaller, Goto, Honest, Fresh, Table,
              Answered, Told, DenialIsTrue, SuccessIsTrue, TypeOK
    <3>2. CASE End(j, "cancelled") /\ pc[j] # "end"
      BY <2>15, <3>2, EndHonest
         DEF CancelCaller, Honest, TypeOK, Refusals, Uncertain, Replies
    <3> QED BY <2>15, <3>1, <3>2 DEF CancelCaller
  <2>16. ASSUME NEW j \in Job, CancelSent(j)
         PROVE  Honest'
    <3>1. /\ pc[j] # "end" /\ nextId' = nextId
          /\ \/ End(j, "cancelled") \/ End(j, Failed(j))
             \/ j \notin handed /\ \E why \in Refusals : End(j, Refused(j, why))
      BY <2>16 DEF CancelSent, Refusals
    <3> QED BY <2>16, <3>1, EndHonest, Wordings
            DEF CancelSent, Honest, TypeOK, Refusals, Replies
  <2>17. ASSUME NEW q \in asked, NEW what \in Says, AnswerArrives(q, what)
         PROVE  Honest'
    <3>1. /\ asked' = asked \ {q}
          /\ executed' = IF q.kind = "call" /\ what = "ok" THEN executed \cup {q.of}
                         ELSE executed
          /\ future' = [j \in Job |-> IF Resolves(q, j) THEN what ELSE future[j]]
          /\ UNCHANGED <<connVars, turnVars, clientVars, pc, client, req, reply, handed>>
      BY <2>17 DEF AnswerArrives
    <3>2. q \in Frames /\ q.of \in Job
      BY DEF Honest, TypeOK, Frames
    <3>3. \A j \in Job : Resolves(q, j) => req[j] = q.req /\ future[j] = "waiting"
      BY DEF Resolves
    <3>4. what \in Answers /\ what # "none" /\ what # "waiting"
      BY DEF Answers
    <3>5. TypeOK'
      BY <3>1, <3>2, <3>3, <3>4 DEF Honest, TypeOK, Working
    <3>6. Fresh' /\ Table'
      BY <3>1, <3>3, <3>4 DEF Honest, Fresh, Table
    <3>7. Answered'
      BY <3>1, <3>2, <3>3, <3>4 DEF Honest, Answered, TypeOK
    <3>8. Told'
      BY <3>1, <3>2 DEF Honest, Told, DenialIsTrue, SuccessIsTrue
    <3> QED BY <3>5, <3>6, <3>7, <3>8 DEF Honest
  <2>18. CASE UNCHANGED vars
    <3>1. TypeOK'
      BY <2>18 DEF vars, Honest, TypeOK, Working
    <3> QED BY <2>18, <3>1 DEF vars, Honest, Fresh, Table, Answered, Told,
            DenialIsTrue, SuccessIsTrue
  <2> QED
    BY <2>1, <2>2, <2>3, <2>4, <2>5, <2>6, <2>7, <2>8, <2>9, <2>10, <2>11,
       <2>12, <2>13, <2>14, <2>15, <2>16, <2>17, <2>18
       DEF Next, Proceeds
<1> QED BY <1>1, <1>2, PTL DEF Spec

\* What handlers say is so: a denied change was not handed over, and only the
\* answer to the job's own call, on the job's own connection, makes a success of it.
THEOREM TrueReplies == Spec => []RepliesAreTrue
<1>1. Honest => RepliesAreTrue
  BY DEF Honest, Told, RepliesAreTrue
<1> QED BY <1>1, HonestInvariant, PTL

\* The tables of the clients hold what is waited for and nothing else.
THEOREM TablesAreExact == Spec => []TableIsExact
<1>1. Honest => TableIsExact
  BY NoneAssumption DEF Honest, Table, TableIsExact, TypeOK, Requests, Working
<1> QED BY <1>1, HonestInvariant, PTL

\* A call is not handed to a phone for a turn that has ended.
THEOREM HandoversAreTimely == Spec => NoLateHandover
<1>1. Honest /\ [Next]_vars
        => [\A j \in handed' \ handed : TurnOf[j] # None => TurnOf[j] \notin past']_vars
  <2> SUFFICES ASSUME Honest, [Next]_vars, NEW j \in handed' \ handed, TurnOf[j] # None
               PROVE  TurnOf[j] \notin past'
    OBVIOUS
  <2>1. ASSUME NEW i \in Job, HandOver(i)
        PROVE  TurnOf[j] \notin past'
    BY <2>1 DEF HandOver, Authorized, Honest, Told, turnVars
  <2>2. handed' = handed \/ \E i \in Job : HandOver(i)
    BY DEF Next, Proceeds, vars, connVars, turnVars, clientVars, jobVars, phoneVars,
       Hello, HelloSupersedes, Attach, Leave, CloseClient, DropEnds, InitEnds,
       EndTurn, TurnEnds, BeginTurn, TurnBegins, StartRefused, Start, NotReady, ListTools, ListUnsent,
       ListFails, CallTool, NotHandedOver, Sent, SendBreaks, CallReturns, TimesOut,
       CancelCaller, CancelSent, AnswerArrives
  <2> QED BY <2>1, <2>2
<1> QED BY <1>1, HonestInvariant, PTL DEF Spec, NoLateHandover
-----------------------------------------------------------------------------
(***************************************************************************)
(* The refinement.                                                         *)
(***************************************************************************)

\* Only a call that was handed over is on its way to the phone or waited for, and
\* a handler runs only for a turn that has begun.
Given ==
    /\ \A q \in asked : q.kind = "call" => q.of \in handed
    /\ \A j \in Job : pc[j] \in {"send", "call"} => j \in handed
    /\ \A j \in Job : pc[j] # "idle" => Begun(j)

\* Turns only go from active to past: a handler's turn stays begun.
LEMMA StaysBegun ==
    ASSUME NEW j \in Job, Begun(j), turnVars' = turnVars \/ TurnsNext
    PROVE  Begun(j)'
<1>1. CASE turnVars' = turnVars
  BY <1>1 DEF turnVars, Begun
<1>2. CASE TurnEnds
  BY <1>2 DEF TurnEnds, Begun
<1>3. CASE \E t \in Turn : TurnBegins(t)
  BY <1>3 DEF TurnBegins, Begun
<1> QED BY <1>1, <1>2, <1>3 DEF TurnsNext

\* The turns of DeviceCalls are those of WearerTurns, and begin and end as these do.
LEMMA TurnSteps ==
    ASSUME [Next]_vars
    PROVE  turnVars' = turnVars \/ TurnsNext
<1> QED
  BY DEF Next, Proceeds, vars, connVars, turnVars, clientVars, jobVars, phoneVars,
     Hello, HelloSupersedes, Attach, Leave, CloseClient, DropEnds, InitEnds,
     EndTurn, TurnsNext, BeginTurn, StartRefused, Start, NotReady, ListTools,
     ListUnsent, ListFails, CallTool, NotHandedOver, HandOver, Sent, SendBreaks,
     CallReturns, TimesOut, CancelCaller, CancelSent, AnswerArrives

\* How one step changes what was handed over, what is on its way and where a job
\* is: a call is handed over as its frame is sent, and waited for behind that.
LEMMA GivenSteps ==
    ASSUME Honest, [Next]_vars
    PROVE  /\ handed \subseteq handed'
           /\ \A q \in asked' \ asked : q.kind = "call" => q.of \in handed'
           /\ \A j \in Job : pc'[j] \in {"send", "call"} =>
                pc[j] \in {"send", "call"} \/ j \in handed'
           /\ \A j \in Job : pc[j] = "idle" /\ pc'[j] # "idle" => Begun(j)
<1> USE DEF connVars, turnVars, clientVars, jobVars, phoneVars
<1> DEFINE Concl ==
           /\ handed \subseteq handed'
           /\ \A q \in asked' \ asked : q.kind = "call" => q.of \in handed'
           /\ \A j \in Job : pc'[j] \in {"send", "call"} =>
                pc[j] \in {"send", "call"} \/ j \in handed'
           /\ \A j \in Job : pc[j] = "idle" /\ pc'[j] # "idle" => Begun(j)
<1>0. pc \in [Job -> {"idle", "ready", "list", "lock", "send", "call", "expire",
                      "cancel", "end"}]
  BY DEF Honest, TypeOK
<1>1. ASSUME \/ \E c \in Conn : \/ Hello(c) \/ HelloSupersedes(c) \/ Attach(c)
                                \/ Leave(c) \/ CloseClient(c) \/ DropEnds(c)
                                \/ \E what \in {"initialized", "failed"} :
                                     InitEnds(c, what)
             \/ EndTurn \/ \E t \in Turn : BeginTurn(t)
             \/ \E q \in asked, what \in Says : AnswerArrives(q, what)
             \/ UNCHANGED vars
      PROVE  Concl
  <2>1. pc' = pc /\ handed' = handed /\ asked' \subseteq asked
    BY <1>1 DEF Hello, HelloSupersedes, Attach, Leave, CloseClient, DropEnds,
       InitEnds, EndTurn, BeginTurn, AnswerArrives, vars
  <2> QED BY <2>1
<1>2. ASSUME NEW j \in Job, NEW answer, End(j, answer), pc[j] # "idle" \/ Begun(j),
             handed' = handed, asked' = asked
      PROVE  Concl
  BY <1>0, <1>2 DEF End
<1>3. ASSUME NEW j \in Job, Start(j)
      PROVE  Concl
  BY <1>0, <1>3 DEF Start, Goto
<1>4. ASSUME NEW j \in Job, ListTools(j) \/ CallTool(j)
      PROVE  Concl
  BY <1>0, <1>4 DEF ListTools, CallTool, Goto, Ask
<1>5. ASSUME NEW j \in Job, HandOver(j)
      PROVE  Concl
  BY <1>0, <1>5 DEF HandOver, Goto, Ask
<1>6. ASSUME NEW j \in Job, \/ Sent(j) \/ TimesOut(j)
                            \/ CancelCaller(j) /\ Goto(j, "cancel")
                               /\ pc[j] \in {"list", "call"}
      PROVE  Concl
  BY <1>0, <1>6 DEF Sent, TimesOut, CancelCaller, Goto
<1>7. ASSUME NEW j \in Job, \/ StartRefused(j) \/ NotReady(j) \/ ListUnsent(j)
                            \/ ListFails(j) \/ NotHandedOver(j) \/ SendBreaks(j)
                            \/ CallReturns(j) \/ CancelSent(j)
                            \/ CancelCaller(j) /\ End(j, "cancelled") /\ pc[j] # "idle"
      PROVE  Concl
  <2>1. /\ \E answer : End(j, answer)
        /\ pc[j] # "idle" \/ Begun(j)
        /\ handed' = handed /\ asked' = asked
    BY <1>7 DEF StartRefused, NotReady, ListUnsent, ListFails, NotHandedOver,
       SendBreaks, CallReturns, CancelSent, CancelCaller
  <2> QED BY <2>1, <1>2
<1>8. ASSUME NEW j \in Job, CancelCaller(j)
      PROVE  \/ Goto(j, "cancel") /\ pc[j] \in {"list", "call"}
             \/ End(j, "cancelled") /\ pc[j] # "idle"
  BY <1>8 DEF CancelCaller
<1> HIDE DEF Concl
<1>9. Concl
  BY <1>1, <1>3, <1>4, <1>5, <1>6, <1>7, <1>8 DEF Next, Proceeds
<1> QED BY <1>9 DEF Concl

\* Every step keeps Given.
THEOREM GivenInvariant == Spec => []Given
<1>1. Init => Given
  BY DEF Init, Given
<1>2. Honest /\ Given /\ [Next]_vars => Given'
  <2> SUFFICES ASSUME Honest, Given, [Next]_vars
               PROVE  Given'
    OBVIOUS
  <2>1. \A q \in asked' : q.kind = "call" => q.of \in handed'
    BY GivenSteps DEF Given
  <2>2. \A j \in Job : pc'[j] \in {"send", "call"} => j \in handed'
    BY GivenSteps DEF Given
  <2>3. ASSUME NEW j \in Job, pc'[j] # "idle"
        PROVE  Begun(j)'
    <3>1. Begun(j)
      BY <2>3, GivenSteps DEF Given
    <3> QED BY <3>1, TurnSteps, StaysBegun
  <2> QED BY <2>1, <2>2, <2>3 DEF Given
<1> QED BY <1>1, <1>2, HonestInvariant, PTL DEF Spec

\* An answer of DeviceCalls that is true is one of the promise.
LEMMA EndRefines ==
    ASSUME Honest, NEW j \in Job, NEW answer \in Replies \ {"none"}, End(j, answer),
           pc[j] # "end", Begun(j), UNCHANGED <<turnVars, handed, executed>>,
           answer \in Refusals /\ j \in Mutating => j \notin handed,
           answer \in Promise!TurnedDown => j \notin handed,
           answer = "success" => j \in executed,
           j \in Durable => answer \in {"success", "not_committed", "unknown", "cancelled"}
    PROVE  Promise!Next
<1>1. Promise!Answer(j, answer)
  BY DEF Promise!Answer, Promise!turnVars, turnVars, Promise!Denials, Refusals, End,
     Honest, TypeOK, Begun
<1>2. answer \in Promise!Denials \cup Promise!Open \cup {"success"}
  BY DEF Promise!Denials, Promise!Open, Replies, Refusals, Uncertain
<1> QED BY <1>1, <1>2 DEF Promise!Next

\* What a failure of j's call, or behind it, is said to be, and by whom.
LEMMA Sayings ==
    ASSUME NEW j \in Job
    PROVE  /\ Failed(j) \in {"unknown", "outcome_unknown", "unavailable"}
           /\ j \in Mutating => Failed(j) \notin Refusals
           /\ Malformed(j) \in {"unknown", "phone_error"}
           /\ j \in Durable => Failed(j) = "unknown" /\ Malformed(j) = "unknown"
           /\ \A why : Refused(j, why) \in {why, "not_committed"}
           /\ \A why : j \in Durable => Refused(j, why) = "not_committed"
<1> QED
  BY JobAssumption DEF Failed, Malformed, Refused, Refusals, Uncertain, Replies

\* Every step of DeviceCalls is one of the promise or leaves it alone, and so the
\* handlers keep the promise for any number of jobs, connections and turns: a call
\* is handed over once, for its turn and before its answer, and the answer is true.
THEOREM KeepsPromise == Spec => ImplementsPromise
<1> USE NoneAssumption, JobAssumption
<1>1. Init => Promise!Init
  BY DEF Init, Promise!Init, TurnsInit, Promise!TurnsInit
<1>2. Honest /\ Given /\ [Next]_vars => [Promise!Next]_(Promise!vars)
  <2> SUFFICES ASSUME Honest, Given, [Next]_vars
               PROVE  Promise!Next \/ UNCHANGED <<turnVars, handed, executed, reply>>
    BY DEF Promise!vars, turnVars
  <2> DEFINE Stays == UNCHANGED <<turnVars, handed, executed, reply>>
             Keeps == UNCHANGED <<turnVars, handed, executed>>
  <2> USE DEF connVars, clientVars, jobVars, phoneVars
  <2>1. ASSUME \/ \E c \in Conn : DropEnds(c)
               \/ EndTurn \/ \E t \in Turn : BeginTurn(t)
        PROVE  Promise!Next
    <3>1. Promise!TurnsNext /\ UNCHANGED <<handed, executed, reply>>
      BY <2>1 DEF DropEnds, EndTurn, BeginTurn, TurnEnds, TurnBegins,
         Promise!TurnsNext, Promise!TurnEnds, Promise!TurnBegins
    <3> QED BY <3>1 DEF Promise!Next, Promise!Turns
  <2>2. ASSUME \/ \E c \in Conn : \/ Hello(c) \/ HelloSupersedes(c) \/ Attach(c)
                                  \/ Leave(c) \/ CloseClient(c)
                                  \/ \E what \in {"initialized", "failed"} :
                                       InitEnds(c, what)
               \/ UNCHANGED vars
        PROVE  Stays
    BY <2>2 DEF Hello, HelloSupersedes, Attach, Leave, CloseClient, InitEnds, vars
  <2>3. ASSUME NEW j \in Job, \/ Start(j) \/ ListTools(j) \/ CallTool(j)
                              \/ Sent(j) \/ TimesOut(j)
        PROVE  Stays
    BY <2>3 DEF Start, ListTools, CallTool, Sent, TimesOut
  <2>4. ASSUME NEW j \in Job, HandOver(j)
        PROVE  Promise!Next
    <3>1. Promise!HandOver(j)
      BY <2>4 DEF HandOver, Promise!HandOver, Promise!turnVars, turnVars, Authorized,
         Honest, Told, TypeOK
    <3> QED BY <3>1 DEF Promise!Next
  <2>5. ASSUME NEW q \in asked, NEW what \in Says, AnswerArrives(q, what)
        PROVE  Promise!Next \/ Stays
    <3>1. UNCHANGED <<turnVars, handed, reply>>
      BY <2>5 DEF AnswerArrives
    <3>2. CASE q.kind = "call" /\ what = "ok"
      <4>1. q.of \in Job /\ q.of \in handed /\ executed' = executed \cup {q.of}
        BY <2>5, <3>2 DEF AnswerArrives, Given, Honest, TypeOK, Frames
      <4>2. Promise!Execute(q.of)
        BY <3>1, <4>1 DEF Promise!Execute, Promise!turnVars, turnVars
      <4> QED BY <4>1, <4>2 DEF Promise!Next
    <3>3. CASE ~(q.kind = "call" /\ what = "ok")
      BY <2>5, <3>1, <3>3 DEF AnswerArrives
    <3> QED BY <3>2, <3>3
  \* A handler turns a call down before it is handed over.
  <2>6. ASSUME NEW j \in Job, NEW why \in Refusals \cup {"phone_error"},
               End(j, Refused(j, why)), Begun(j), j \notin handed, pc[j] # "end", Keeps
        PROVE  Promise!Next
    BY <2>6, Sayings, EndRefines DEF Refusals, Uncertain, Replies
  <2>7. ASSUME NEW j \in Job, End(j, Failed(j)), Begun(j), pc[j] # "end", Keeps
        PROVE  Promise!Next
    BY <2>7, Sayings, EndRefines
       DEF Refusals, Uncertain, Replies, Promise!TurnedDown
  <2>8. ASSUME NEW j \in Job, End(j, "cancelled"), Begun(j), pc[j] # "end", Keeps
        PROVE  Promise!Next
    BY <2>8, EndRefines DEF Refusals, Uncertain, Replies, Promise!TurnedDown
  <2>9. ASSUME NEW j \in Job, \/ StartRefused(j) \/ NotReady(j) \/ ListUnsent(j)
                              \/ ListFails(j) \/ NotHandedOver(j) \/ SendBreaks(j)
                              \/ CancelSent(j)
        PROVE  Promise!Next
    <3>1. Begun(j) /\ pc[j] # "end" /\ Keeps
      BY <2>9 DEF Given, StartRefused, NotReady, ListUnsent, ListFails, NotHandedOver,
         SendBreaks, CancelSent
    <3>2. \/ End(j, "cancelled") \/ End(j, Failed(j))
          \/ /\ j \notin handed
             /\ \E why \in Refusals \cup {"phone_error"} : End(j, Refused(j, why))
      BY <2>9 DEF StartRefused, NotReady, ListUnsent, ListFails, Missing, NotHandedOver,
         SendBreaks, CancelSent, Refusals, Honest, Told
    <3>3. CASE End(j, "cancelled")
      BY <3>1, <3>3, <2>8
    <3>4. CASE End(j, Failed(j))
      BY <3>1, <3>4, <2>7
    <3>5. CASE /\ j \notin handed
               /\ \E why \in Refusals \cup {"phone_error"} : End(j, Refused(j, why))
      BY <3>1, <3>5, <2>6
    <3> QED BY <3>2, <3>3, <3>4, <3>5
  <2>10. ASSUME NEW j \in Job, CancelCaller(j)
         PROVE  Promise!Next \/ Stays
    <3>1. Begun(j) /\ pc[j] # "end" /\ Keeps
      BY <2>10 DEF Given, CancelCaller, Goto
    <3>2. End(j, "cancelled") \/ Stays
      BY <2>10 DEF CancelCaller
    <3> QED BY <3>1, <3>2, <2>8
  <2>11. ASSUME NEW j \in Job, CallReturns(j)
         PROVE  Promise!Next
    <3>1. Begun(j) /\ pc[j] = "call" /\ j \in handed /\ Keeps
      BY <2>11 DEF Given, CallReturns
    <3>2. \/ End(j, "success") /\ j \in executed
          \/ End(j, Malformed(j)) \/ End(j, Failed(j))
      BY <2>11, <3>1 DEF CallReturns, Honest, Answered
    <3>3. CASE End(j, "success") /\ j \in executed
      BY <3>1, <3>3, EndRefines DEF Refusals, Uncertain, Replies, Promise!TurnedDown
    <3>4. CASE End(j, Malformed(j))
      BY <3>1, <3>4, Sayings, EndRefines
         DEF Refusals, Uncertain, Replies, Promise!TurnedDown
    <3> QED BY <3>1, <3>2, <3>3, <3>4, <2>7
  <2> QED
    BY <2>1, <2>2, <2>3, <2>4, <2>5, <2>9, <2>10, <2>11 DEF Next, Proceeds
<1> QED
  BY <1>1, <1>2, HonestInvariant, GivenInvariant, PTL
     DEF Spec, ImplementsPromise, Promise!Spec
=============================================================================

------------------------ MODULE SchedulerGatewayProofs ------------------------
(***************************************************************************)
(* Proofs about SchedulerService behind its JSON-RPC handler, for all      *)
(* clients, ids, requests and faults.                                      *)
(***************************************************************************)
EXTENDS SchedulerGatewayProperties, RowProofs, WellFoundedInduction

-----------------------------------------------------------------------------
(* The handler calls the service as any caller would. *)

LEMMA GatewayStep ==
    ASSUME [GatewayNext]_gatewayVars
    PROVE  [Next]_vars
<1>1. ASSUME NEW s \in Clients, Reject(s) \/ ServeAtOnce(s)
      PROVE  UNCHANGED vars
  BY <1>1 DEF Reject, ServeAtOnce
<1>2. ASSUME NEW s \in Clients, Serve(s)
      PROVE  Start(s) \/ StartRun(s)
  <2>1. PICK req \in Accepted, caller \in Identities, id \in Ids :
           StartRPC(s, req.method, caller, id)
    BY <1>2 DEF Serve, ServeRPC
  <2>2. req.method \in {"DeleteCron", "RunCron"} => req.method \in ClientRPCs
    BY GatewayAssumption DEF Accepted
  <2> QED
    BY <2>1, <2>2 DEF StartRPC, Start, StartRun
<1>3. ASSUME NEW s \in Clients, Continue(s)
      PROVE  Proceed(s) \/ CallFails(s) \/ \E a \in Attempts : RunSend(s, a)
  BY <1>3 DEF Continue
<1>4. CASE Around
  BY <1>4 DEF Around, Next
<1>5. CASE UNCHANGED gatewayVars
  BY <1>5 DEF gatewayVars
<1> QED
  BY <1>1, <1>2, <1>3, <1>4, <1>5 DEF GatewayNext, Next

(***************************************************************************)
(* The service behind its handler is the service: every step the handler   *)
(* lets a client take is one SchedulerService allows, so whatever is       *)
(* proved of Spec holds for clients of JSON-RPC, too.                      *)
(***************************************************************************)
THEOREM GatewayImplementsService == GatewaySpec => Spec
<1>1. GatewayInit => Init
  BY DEF GatewayInit
<1> QED
  BY <1>1, GatewayStep, PTL DEF GatewaySpec, Spec

-----------------------------------------------------------------------------
(* Every answer has one of the codes of the handler. *)

LEMMA CodeTypes == \A error \in DOMAIN Code : Code[error] \in Codes
BY DEF Codes

LEMMA AnswerType == \A status : Answer(status) \in Codes
<1>1. \A status : ErrorOf(status) \in DOMAIN Code
  BY DEF ErrorOf, Code
<1> QED BY <1>1, CodeTypes DEF Answer, Codes

\* Every error has a code, and only a success has none.
LEMMA ResultIsOK == \A status : Answer(status) = Result <=> status = "OK"
BY DEF Answer, ErrorOf, Code, Result

\* The least number in a set of them is in it.
LEMMA MinInSet ==
    ASSUME NEW S \in SUBSET Nat, S # {}
    PROVE  Min(S) \in S
<1>1. \E x \in S : \A y \in S : <<y, x>> \notin OpToRel(<, Nat)
  BY NatLessThanWellFounded, WFMin
<1>2. \E x \in S : \A y \in S : x =< y
  <2>1. PICK x \in S : \A y \in S : <<y, x>> \notin OpToRel(<, Nat)
    BY <1>1
  <2>2. \A y \in S : ~(y < x)
    BY <2>1 DEF OpToRel
  <2> QED BY <2>2
<1> QED BY <1>2 DEF Min

\* A request that is not dispatched fails a check, and is answered its code.
LEMMA RejectionType ==
    ASSUME NEW req, ~Dispatched(req)
    PROVE  Code[Rejection(req)] \in Codes
<1>1. DOMAIN Checks(req) = 1 .. 8
  BY DEF Checks
<1>2. Stopped(req) \in SUBSET (1 .. 8) /\ Stopped(req) # {}
  BY <1>1 DEF Stopped, Dispatched
<1>3. /\ Checks(req)[1][2] \in DOMAIN Code
      /\ Checks(req)[2][2] \in DOMAIN Code
      /\ Checks(req)[3][2] \in DOMAIN Code
      /\ Checks(req)[4][2] \in DOMAIN Code
      /\ Checks(req)[5][2] \in DOMAIN Code
      /\ Checks(req)[6][2] \in DOMAIN Code
      /\ Checks(req)[7][2] \in DOMAIN Code
      /\ Checks(req)[8][2] \in DOMAIN Code
  BY DEF Checks, Code
<1>4. Min(Stopped(req)) \in 1 .. 8
  BY <1>2, MinInSet
<1>5. Rejection(req) \in DOMAIN Code
  BY <1>3, <1>4 DEF Rejection
<1> QED
  BY <1>5, CodeTypes

-----------------------------------------------------------------------------
(* The records of requests. *)

Seen == [state   : {"none", "served", "answered"},
         method  : Methods \cup {"empty"},
         id      : {"given", "empty", "null"},
         code    : Codes,
         touched : BOOLEAN,
         failed  : BOOLEAN]

LEMMA RepliedFields ==
    ASSUME NEW id \in {"given", "empty", "null"}, NEW code \in Codes,
           NEW touched \in BOOLEAN, NEW failed \in BOOLEAN
    PROVE  /\ Replied(id, code, touched, failed) \in Seen
           /\ Replied(id, code, touched, failed).state = "answered"
           /\ Replied(id, code, touched, failed).code = code
           /\ Replied(id, code, touched, failed).touched = touched
           /\ Replied(id, code, touched, failed).failed = failed
BY DEF Replied, NoRequest, Seen

LEMMA SetRequest ==
    ASSUME GatewayTypeOK, NEW s \in Clients, NEW request,
           requests' = [requests EXCEPT ![s] = request]
    PROVE  requests'[s] = request
BY DEF GatewayTypeOK

\* A request the handler answers at once has changed nothing.
LEMMA AtOnce ==
    ASSUME GatewayTypeOK, NEW s \in Clients, Reject(s) \/ ServeAtOnce(s)
    PROVE  /\ requests' = [requests EXCEPT ![s] = requests'[s]]
           /\ requests'[s] \in Seen
           /\ requests'[s].state = "answered"
           /\ ~requests'[s].touched
           /\ requests[s].state # "served"
           /\ UNCHANGED <<vars, told>>
<1>1. PICK reply : /\ reply \in Rejections \cup RepliesAtOnce
                   /\ requests' = [requests EXCEPT ![s] = reply]
  BY DEF Reject, ServeAtOnce
<1>2. requests'[s] = reply
  BY <1>1, SetRequest
<1>3. \A req \in Requests : req.id \in {"given", "empty", "null"}
  BY GatewayAssumption DEF Request
<1>4. \E id \in {"given", "empty", "null"}, code \in Codes :
         reply = Replied(id, code, FALSE, FALSE)
  <2>1. CASE reply \in Rejections
    <3>1. PICK req \in Requests : /\ ~Dispatched(req)
                                  /\ reply = Replied(req.id, Code[Rejection(req)], FALSE, FALSE)
      BY <2>1 DEF Rejections
    <3> QED BY <1>3, <3>1, RejectionType
  <2>2. CASE reply \in RepliesAtOnce
    <3>1. PICK req \in Accepted, caller \in Identities, id \in Ids :
             reply \in RepliesTo(req, caller, id)
      <4>1. PICK replies \in {RepliesTo(req, caller, id) : req \in Accepted,
                                 caller \in Identities, id \in Ids} :
               reply \in replies
        BY <2>2 DEF RepliesAtOnce
      <4> QED BY <4>1
    <3>2. \E status : reply = Replied(req.id, Answer(status), FALSE, FALSE)
      BY <3>1 DEF RepliesTo
    <3>3. req \in Requests
      BY DEF Accepted
    <3> QED BY <1>3, <3>2, <3>3, AnswerType
  <2> QED BY <1>1, <2>1, <2>2
<1>5. /\ reply \in Seen
      /\ reply.state = "answered"
      /\ ~reply.touched
  <2>1. PICK id \in {"given", "empty", "null"}, code \in Codes :
           reply = Replied(id, code, FALSE, FALSE)
    BY <1>4
  <2>2. reply \in Seen
    BY <2>1, RepliedFields
  <2>3. reply.state = "answered"
    BY <2>1, RepliedFields
  <2>4. reply.touched = FALSE
    BY <2>1, RepliedFields
  <2> QED BY <2>2, <2>3, <2>4
<1>6. requests[s].state # "served" /\ UNCHANGED <<vars, told>>
  BY DEF Reject, ServeAtOnce, Waiting
<1> QED
  BY <1>1, <1>2, <1>5, <1>6

\* Whether an RPC starts or goes on, its request is served until it returns.
LEMMA FollowFields ==
    ASSUME GatewayTypeOK, NEW s \in Clients, NEW method \in Methods,
           NEW id \in {"given", "empty", "null"}, NEW touched \in BOOLEAN, NEW status,
           Follow(s, method, id, touched, status)
    PROVE  /\ requests' = [requests EXCEPT ![s] = requests'[s]]
           /\ requests'[s] \in Seen
           /\ requests'[s].touched = touched
           /\ calls'[s].pc = "idle" => /\ requests'[s].state = "answered"
                                       /\ requests'[s].code = Answer(status)
                                       /\ requests'[s].failed = CallFailed
           /\ calls'[s].pc # "idle" => /\ requests'[s].state = "served"
                                       /\ requests'[s].method = method
<1>1. CASE calls'[s].pc = "idle"
  <2>1. requests' = [requests EXCEPT ![s] =
                        Replied(id, Answer(status), touched, CallFailed)]
    BY <1>1 DEF Follow
  <2>2. requests'[s] = Replied(id, Answer(status), touched, CallFailed)
    BY <2>1, SetRequest
  <2>3. requests' = [requests EXCEPT ![s] = requests'[s]]
    BY <2>1, <2>2, Zenon
  <2>4. CallFailed \in BOOLEAN
    BY DEF CallFailed
  <2>5. /\ requests'[s] \in Seen
        /\ requests'[s].state = "answered"
        /\ requests'[s].code = Answer(status)
        /\ requests'[s].touched = touched
        /\ requests'[s].failed = CallFailed
    BY <2>2, <2>4, AnswerType, RepliedFields
  <2> QED BY <1>1, <2>3, <2>5
<1>2. CASE calls'[s].pc # "idle"
  <2>1. requests' = [requests EXCEPT ![s] = Serving(method, id, touched)]
    BY <1>2 DEF Follow
  <2>2. requests'[s] = Serving(method, id, touched)
    BY <2>1, SetRequest
  <2>3. requests' = [requests EXCEPT ![s] = requests'[s]]
    BY <2>1, <2>2, Zenon
  <2>4. requests'[s] \in Seen
    BY <2>2 DEF Serving, NoRequest, Seen, Codes, Result
  <2>5. requests'[s].state = "served" /\ requests'[s].method = method
    BY <2>2 DEF Serving, NoRequest, Seen, Codes, Result
  <2>6. requests'[s].touched = touched
    BY <2>2 DEF Serving, NoRequest, Seen, Codes, Result
  <2> QED BY <1>2, <2>3, <2>4, <2>5, <2>6
<1> QED BY <1>1, <1>2

-----------------------------------------------------------------------------
(* How the RPC of a request starts and goes on. *)

LEMMA StartStage ==
    ASSUME TypeOK, NEW s \in Slots, NEW method \in Methods, NEW caller, NEW id,
           StartRPC(s, method, caller, id)
    PROVE  /\ calls[s].pc = "idle"
           /\ \A r \in Slots \ {s} : calls'[r] = calls[r]
           /\ (calls'[s].pc = "idle" /\ CallFailed) \/ calls'[s].pc \in Stages[method]
           /\ calls'[s].pc \in {"write", "unschedule", "run"} => ~Changed
<1>1. ASSUME NEW cron, CreateSchedule(s, caller, cron, id), method = "CreateCron"
      PROVE  /\ calls[s].pc = "idle"
             /\ \A r \in Slots \ {s} : calls'[r] = calls[r]
             /\ (calls'[s].pc = "idle" /\ CallFailed) \/ calls'[s].pc = "persist"
  BY <1>1, FaultsAssumption DEF CreateSchedule, Reply, CallFailed, Enter, TypeOK,
     CloudTypeOK
<1>2. ASSUME NEW update, NEW mask, UpdateRead(s, caller, id, update, mask)
      PROVE  /\ calls[s].pc = "idle"
             /\ \A r \in Slots \ {s} : calls'[r] = calls[r]
             /\ calls'[s].pc = "write"
             /\ ~Changed
  BY <1>2 DEF UpdateRead, Enter, cloudVars, Changed, TypeOK
<1>3. ASSUME DeleteRead(s, caller, id)
      PROVE  /\ calls[s].pc = "idle"
             /\ \A r \in Slots \ {s} : calls'[r] = calls[r]
             /\ calls'[s].pc \in {"unschedule", "erase"}
             /\ ~Changed
  BY <1>3 DEF DeleteRead, Enter, cloudVars, Changed, TypeOK
<1>4. ASSUME RunRead(s, caller, id)
      PROVE  /\ calls[s].pc = "idle"
             /\ \A r \in Slots \ {s} : calls'[r] = calls[r]
             /\ calls'[s].pc = "run"
             /\ ~Changed
  BY <1>4 DEF RunRead, Enter, cloudVars, Changed, TypeOK
<1> QED
  BY <1>1, <1>2, <1>3, <1>4 DEF StartRPC, Stages

LEMMA StagesBusy == \A method \in Methods : "idle" \notin Stages[method]
BY DEF Methods, Stages

\* Steps of the RPC in flight in slot s.
GoesOn(s) == Proceed(s) \/ CallFails(s) \/ \E a \in Attempts : RunSend(s, a)

LEMMA NextStage ==
    ASSUME TypeOK, NEW s \in Slots, GoesOn(s)
    PROVE  /\ calls[s].pc # "idle"
           /\ \A r \in Slots \ {s} : calls'[r] = calls[r]
           /\ \/ calls'[s].pc = "idle"
              \/ /\ calls[s].pc = "unschedule"
                 /\ calls'[s] = [calls[s] EXCEPT !.pc = "erase"]
<1>1. CASE CreatePersist(s)
  BY <1>1 DEF CreatePersist, Return, Idle, TypeOK
<1>2. CASE \/ UpdateWrite(s) \/ EraseRow(s) \/ RunNotFound(s) \/ CallFails(s)
           \/ \E a \in Attempts : RunSend(s, a)
  BY <1>2 DEF UpdateWrite, EraseRow, RunNotFound, CallFails, RunSend, Return,
     Idle, TypeOK
<1>3. CASE Unschedule(s)
  BY <1>3 DEF Unschedule, Goto, Return, Idle, TypeOK
<1> QED BY <1>1, <1>2, <1>3 DEF GoesOn, Proceed

\* A call that finds nothing, without an error, ends an RPC without effect.
LEMMA NothingFound ==
    ASSUME TypeOK, NEW s \in Slots, GoesOn(s), FindsNothing(calls[s]),
           UNCHANGED faults
    PROVE  calls[s].pc \in {"write", "unschedule", "run"} /\ ~Changed
<1>1. ~CallFails(s)
  BY FaultsAssumption DEF CallFails, Fault, TypeOK, CloudTypeOK
<1>2. CASE calls[s].pc = "write" /\ table[calls[s].id] = None
  BY <1>1, <1>2 DEF GoesOn, Proceed, CreatePersist, UpdateWrite, Unschedule,
     EraseRow, RunNotFound, RunSend, Changed
<1>3. CASE /\ calls[s].pc = "unschedule"
           /\ calls[s].cron.type = "TYPE_CRON"
           /\ jobs[calls[s].id] = None
  BY <1>1, <1>3 DEF GoesOn, Proceed, CreatePersist, UpdateWrite, Unschedule,
     EraseRow, RunNotFound, RunSend, Changed
<1>4. CASE calls[s].pc = "run" /\ ~Runnable(calls[s])
  BY <1>1, <1>4 DEF GoesOn, Proceed, CreatePersist, UpdateWrite, Unschedule,
     EraseRow, RunNotFound, RunSend, Changed, cloudVars
<1> QED BY <1>2, <1>3, <1>4 DEF FindsNothing

-----------------------------------------------------------------------------
(***************************************************************************)
(* AnswersInv. A step of client s touches the request and the call of s    *)
(* only, so it remains to check what it makes of these two.                *)
(***************************************************************************)
RequestOK(s) ==
    /\ requests[s] \in Seen
    /\ requests[s].state = "served" <=> calls[s].pc # "idle"
    /\ requests[s].state = "served"
       => /\ requests[s].method \in Methods
          /\ calls[s].pc \in Stages[requests[s].method]
          /\ calls[s].pc \in {"write", "unschedule", "run"}
             => ~requests[s].touched
    /\ /\ requests[s].state = "answered"
       /\ requests[s].code # Result
       /\ ~requests[s].failed
       => ~requests[s].touched

ToldType == told \in [Ids -> Knowledge]

LEMMA AnswersByClient ==
    AnswersInv <=> /\ DOMAIN requests = Clients
                   /\ requests = [s \in Clients |-> requests[s]]
                   /\ ToldType
                   /\ \A s \in Clients : RequestOK(s)
BY DEF AnswersInv, GatewayTypeOK, ServedAsAsked, RefusedChangedNothing, RequestOK,
   Seen, ToldType

LEMMA AnswersStep ==
    ASSUME AnswersInv, NEW s \in Clients, ToldType', RequestOK(s)',
           requests' = [requests EXCEPT ![s] = requests'[s]],
           \A r \in Slots \ {s} : calls'[r] = calls[r]
    PROVE  AnswersInv'
<1>1. requests' \in [Clients -> Seen]
  BY DEF AnswersInv, GatewayTypeOK, RequestOK, Seen
<1>2. ASSUME NEW r \in Clients \ {s}
      PROVE  RequestOK(r)'
  <2>1. requests'[r] = requests[r]
    BY DEF AnswersInv, GatewayTypeOK
  <2>2. calls'[r] = calls[r]
    BY DEF Slots
  <2>3. RequestOK(r)
    BY AnswersByClient
  <2> QED BY <2>1, <2>2, <2>3 DEF RequestOK
<1>3. \A r \in Clients : RequestOK(r)'
  BY <1>2
<1> QED
  BY <1>1, <1>3 DEF AnswersInv, GatewayTypeOK, ServedAsAsked,
     RefusedChangedNothing, RequestOK, Seen, ToldType

LEMMA ToldKept ==
    ASSUME AnswersInv, NEW id,
           \/ UNCHANGED told
           \/ \E what \in Knowledge : Tell(id, what)
    PROVE  ToldType'
BY DEF AnswersInv, GatewayTypeOK, ToldType, Tell

LEMMA AnswersServe ==
    ASSUME TypeOK, AnswersInv, NEW s \in Clients, Serve(s)
    PROVE  AnswersInv'
<1>1. s \in Slots
  BY DEF Slots
<1>2. PICK req \in Accepted, caller \in Identities, id \in Ids, status \in RemoteErrors :
         /\ StartRPC(s, req.method, caller, id)
         /\ Follow(s, req.method, req.id, Changed, status)
  BY DEF Serve, ServeRPC
<1>3. req.method \in Methods /\ req.id \in {"given", "empty", "null"}
  <2>1. req \in Request /\ Stopped(req) = {}
    BY GatewayAssumption DEF Accepted, Dispatched
  <2>2. 7 \in DOMAIN Checks(req) /\ Checks(req)[7][1] = (req.method \notin Methods)
    BY DEF Checks
  <2>3. req.method \in Methods
    BY <2>1, <2>2 DEF Stopped
  <2> QED BY <2>1, <2>3 DEF Request
<1>4. Changed \in BOOLEAN
  BY DEF Changed
<1>5. /\ requests' = [requests EXCEPT ![s] = requests'[s]]
      /\ requests'[s] \in Seen
      /\ requests'[s].touched = Changed
      /\ calls'[s].pc = "idle" => /\ requests'[s].state = "answered"
                                  /\ requests'[s].failed = CallFailed
      /\ calls'[s].pc # "idle" => /\ requests'[s].state = "served"
                                  /\ requests'[s].method = req.method
  BY <1>2, <1>3, <1>4, FollowFields DEF AnswersInv
<1>6. /\ \A r \in Slots \ {s} : calls'[r] = calls[r]
      /\ (calls'[s].pc = "idle" /\ CallFailed) \/ calls'[s].pc \in Stages[req.method]
      /\ calls'[s].pc \in {"write", "unschedule", "run"} => ~Changed
  BY <1>1, <1>2, <1>3, StartStage
<1>7. RequestOK(s)'
  BY <1>3, <1>5, <1>6, StagesBusy DEF RequestOK
<1>8. ToldType'
  BY <1>2, ToldKept DEF StartRPC, Knowledge
<1> QED BY <1>5, <1>6, <1>7, <1>8, AnswersStep

LEMMA AnswersContinue ==
    ASSUME TypeOK, AnswersInv, NEW s \in Clients, Continue(s)
    PROVE  AnswersInv'
<1>1. s \in Slots
  BY DEF Slots
<1>2. requests[s].state = "served" /\ GoesOn(s)
  BY DEF Continue, GoesOn
<1>3. RequestOK(s)
  BY AnswersByClient
<1>4. PICK method \in Methods, id \in {"given", "empty", "null"},
           touched \in BOOLEAN, status \in StatusesOfStep(calls[s]) :
         /\ method = requests[s].method
         /\ touched = (requests[s].touched \/ Changed)
         /\ Follow(s, method, id, touched, status)
  <2>1. /\ requests[s].method \in Methods
        /\ requests[s].id \in {"given", "empty", "null"}
        /\ (requests[s].touched \/ Changed) \in BOOLEAN
    BY <1>2, <1>3 DEF RequestOK, Seen
  <2>2. \E status \in StatusesOfStep(calls[s]) :
           Follow(s, requests[s].method, requests[s].id,
                  requests[s].touched \/ Changed, status)
    BY DEF Continue
  <2> QED BY <2>1, <2>2
<1>5. /\ requests' = [requests EXCEPT ![s] = requests'[s]]
      /\ requests'[s] \in Seen
      /\ requests'[s].touched = touched
      /\ calls'[s].pc = "idle" => /\ requests'[s].state = "answered"
                                  /\ requests'[s].code = Answer(status)
                                  /\ requests'[s].failed = CallFailed
      /\ calls'[s].pc # "idle" => /\ requests'[s].state = "served"
                                  /\ requests'[s].method = method
  <2>1. GatewayTypeOK
    BY DEF AnswersInv
  <2>2. Follow(s, method, id, touched, status)
    BY <1>4
  <2> QED BY <2>1, <2>2, FollowFields
<1>6. /\ \A r \in Slots \ {s} : calls'[r] = calls[r]
      /\ \/ calls'[s].pc = "idle"
         \/ /\ calls[s].pc = "unschedule"
            /\ calls'[s] = [calls[s] EXCEPT !.pc = "erase"]
  BY <1>1, <1>2, NextStage
<1>7. ToldType'
  BY ToldKept DEF Continue, Learned, Knowledge
<1>8. Answer(status) # Result /\ ~CallFailed => ~touched
  <2>1. SUFFICES ASSUME status # "OK", ~CallFailed PROVE ~touched
    BY ResultIsOK
  <2>2. UNCHANGED faults /\ FindsNothing(calls[s])
    BY <1>4, <2>1 DEF StatusesOfStep, CallFailed
  <2>3. calls[s].pc \in {"write", "unschedule", "run"} /\ ~Changed
    BY <1>1, <1>2, <2>2, NothingFound
  <2> QED BY <1>2, <1>3, <1>4, <2>3 DEF RequestOK
<1>9. CASE calls'[s].pc = "idle"
  <2>1. RequestOK(s)'
    BY <1>5, <1>8, <1>9 DEF RequestOK
  <2> QED BY <1>5, <1>6, <1>7, <2>1, AnswersStep
<1>10. CASE calls'[s].pc # "idle"
  <2>1. calls[s].pc = "unschedule" /\ calls'[s].pc = "erase"
    BY <1>1, <1>6, <1>10, BusyCall DEF InFlight
  <2>2. method = "DeleteCron"
    BY <1>2, <1>3, <1>4, <2>1 DEF RequestOK, Stages, Methods
  <2>3. RequestOK(s)'
    BY <1>5, <2>1, <2>2 DEF RequestOK, Stages, Methods
  <2> QED BY <1>5, <1>6, <1>7, <2>3, AnswersStep
<1> QED BY <1>9, <1>10

LEMMA NextAnswers ==
    ASSUME TypeOK, AnswersInv, [GatewayNext]_gatewayVars
    PROVE  AnswersInv'
<1>1. ASSUME NEW s \in Clients, Reject(s) \/ ServeAtOnce(s)
      PROVE  AnswersInv'
  <2>1. /\ requests' = [requests EXCEPT ![s] = requests'[s]]
        /\ requests'[s] \in Seen
        /\ requests'[s].state = "answered"
        /\ ~requests'[s].touched
        /\ requests[s].state # "served"
        /\ UNCHANGED <<vars, told>>
    BY <1>1, AtOnce DEF AnswersInv
  <2>2. UNCHANGED calls
    BY <2>1 DEF vars, serviceVars
  <2>3. RequestOK(s)'
    BY <2>1, <2>2, AnswersByClient DEF RequestOK
  <2>4. ToldType'
    BY <2>1 DEF AnswersInv, GatewayTypeOK, ToldType
  <2> QED BY <2>1, <2>2, <2>3, <2>4, AnswersStep
<1>2. ASSUME NEW s \in Clients, Serve(s)
      PROVE  AnswersInv'
  BY <1>2, AnswersServe
<1>3. ASSUME NEW s \in Clients, Continue(s)
      PROVE  AnswersInv'
  BY <1>3, AnswersContinue
<1>4. CASE Around \/ UNCHANGED gatewayVars
  <2>1. UNCHANGED <<requests, told, calls>>
    BY <1>4 DEF Around, EndpointAnswers, DispatchDue, gatewayVars, vars, serviceVars
  <2> QED
    BY <2>1 DEF AnswersInv, GatewayTypeOK, ServedAsAsked, RefusedChangedNothing
<1> QED
  BY <1>1, <1>2, <1>3, <1>4 DEF GatewayNext

THEOREM AnswersInvariant == GatewaySpec => []AnswersInv
<1>1. GatewayInit => AnswersInv
  BY DEF GatewayInit, Init, Idle, NoRequest, Knowledge, Codes, Result, AnswersInv,
     GatewayTypeOK, ServedAsAsked, RefusedChangedNothing, Slots
<1> QED
  BY <1>1, NextAnswers, GatewayImplementsService, TypeCorrect, PTL DEF GatewaySpec

\* The type invariant of the gateway.
THEOREM GatewayTypeCorrect == GatewaySpec => []GatewayTypeOK
BY AnswersInvariant, PTL DEF AnswersInv

(***************************************************************************)
(* An answer with an error, of any code, means that serving the request    *)
(* has changed nothing, unless a remote call made for it failed, for all   *)
(* clients, requests and faults: every effect of an RPC comes after its    *)
(* last check, and only its first remote call can find nothing.            *)
(***************************************************************************)
THEOREM RefusalsChangeNothing == GatewaySpec => []RefusedChangedNothing
BY AnswersInvariant, PTL DEF AnswersInv

=============================================================================

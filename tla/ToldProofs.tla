------------------------------ MODULE ToldProofs ------------------------------
(***************************************************************************)
(* Proofs that what a client was told of its cron stays true, for all      *)
(* clients, ids, requests and faults: a deleted cron is gone for good, a   *)
(* created one stands until somebody asks to delete it, and what is left   *)
(* behind is left by a creation that was reported as failed.               *)
(***************************************************************************)
EXTENDS SchedulerGatewayProofs

-----------------------------------------------------------------------------
(* What an answer with a result says of the last step of its RPC. *)

\* The id of a client's RPC in flight.
LEMMA ServedCall ==
    ASSUME TypeOK, NEW s \in Slots, calls[s].pc # "idle"
    PROVE  calls[s].id \in Ids
BY BusyCall DEF InFlight

LEMMA ResultStep ==
    ASSUME TypeOK, AnswersInv, NEW s \in Clients, Continue(s),
           requests'[s].state = "answered", requests'[s].code = Result
    PROVE  /\ calls'[s].pc = "idle"
           /\ UNCHANGED faults
           /\ ~FindsNothing(calls[s])
           /\ ~CallFails(s)
<1>1. AnswersInv'
  BY AnswersContinue
<1>2. calls'[s].pc = "idle"
  BY <1>1 DEF AnswersInv, GatewayTypeOK
<1>3. PICK status \in StatusesOfStep(calls[s]) :
         requests' = [requests EXCEPT ![s] =
            Replied(requests[s].id, Answer(status),
                    requests[s].touched \/ Changed, CallFailed)]
  BY <1>2 DEF Continue, Follow
<1>4. requests'[s].code = Answer(status)
  <2>1. requests'[s] = Replied(requests[s].id, Answer(status),
                               requests[s].touched \/ Changed, CallFailed)
    BY <1>3, SetRequest DEF AnswersInv
  <2> QED BY <2>1 DEF Replied, NoRequest
<1>5. status = "OK"
  BY <1>4, ResultIsOK
<1>6. UNCHANGED faults /\ ~FindsNothing(calls[s])
  BY <1>3, <1>5, GatewayAssumption DEF StatusesOfStep, CallErrors, CallFailed
<1>7. ~CallFails(s)
  BY <1>6, FaultsAssumption DEF CallFails, Fault, TypeOK, CloudTypeOK
<1> QED BY <1>2, <1>6, <1>7

\* Who tells a client that its cron is created or deleted: only the answer
\* with a result.
LEMMA ToldByAnswer ==
    ASSUME AnswersInv, [GatewayNext]_gatewayVars, NEW id \in Ids,
           told'[id] # told[id], told'[id] \in {"created", "deleted"}
    PROVE  \E s \in Clients :
              /\ Continue(s)
              /\ calls[s].id = id
              /\ requests[s].state = "served"
              /\ requests'[s].state = "answered"
              /\ requests'[s].code = Result
              /\ \/ requests[s].method = "CreateCron" /\ told'[id] = "created"
                 \/ requests[s].method = "DeleteCron" /\ told'[id] = "deleted"
<1>1. told \in [Ids -> Knowledge]
  BY DEF AnswersInv, GatewayTypeOK
<1>2. ASSUME NEW s \in Clients, Serve(s)
      PROVE  FALSE
  <2>1. \/ UNCHANGED told
        \/ \E i \in Ids : Tell(i, "deleting") \/ Tell(i, "failed")
    BY <1>2 DEF Serve, ServeRPC, StartRPC
  <2> QED BY <1>1, <2>1 DEF Tell
<1>3. ASSUME NEW s \in Clients, Reject(s) \/ ServeAtOnce(s)
      PROVE  FALSE
  BY <1>3 DEF Reject, ServeAtOnce
<1>4. ~Around /\ ~UNCHANGED gatewayVars
  BY DEF Around, gatewayVars
<1>5. PICK s \in Clients : Continue(s)
  BY <1>2, <1>3, <1>4 DEF GatewayNext
<1>6. PICK i : /\ i = calls[s].id
               /\ requests'[s].state = "answered"
               /\ \/ /\ requests'[s].code = Result
                     /\ requests[s].method = "CreateCron" /\ Tell(i, "created")
                  \/ requests[s].method = "CreateCron" /\ Tell(i, "failed")
                  \/ /\ requests'[s].code = Result
                     /\ requests[s].method = "DeleteCron" /\ Tell(i, "deleted")
  BY <1>5 DEF Continue, Learned
<1>7. i = id
  BY <1>1, <1>6 DEF Tell
<1> QED
  BY <1>1, <1>5, <1>6, <1>7 DEF Tell, Continue

-----------------------------------------------------------------------------
(***************************************************************************)
(* DeletedIsFinal. Once no row, job, task or CreateCron is left of an id   *)
(* that was issued, no RPC and no delivery can bring one back.             *)
(***************************************************************************)
Gone(id) ==
    /\ id \in issued
    /\ \A s \in Slots : ~Creating(s, id)
    /\ table[id] = None /\ jobs[id] = None /\ tasks[id] = None

LEMMA DeletedByIds == DeletedInv <=> \A id \in Ids : told[id] = "deleted" => Gone(id)
BY DEF DeletedInv, DeletedIsGone, DeletedIsFinal, Gone

LEMMA GoneStart ==
    ASSUME TypeOK, NEW id \in Ids, Gone(id), NEW s \in Slots, NEW caller, NEW i \in Ids,
           \/ \E req \in Cron : CreateSchedule(s, caller, req, i)
           \/ \E u, mask : UpdateRead(s, caller, i, u, mask)
           \/ DeleteRead(s, caller, i)
           \/ RunRead(s, caller, i)
    PROVE  Gone(id)'
<1>1. CASE \E req \in Cron : CreateSchedule(s, caller, req, i)
  <2>1. PICK req \in Cron : CreateSchedule(s, caller, req, i)
    BY <1>1
  <2>2. i # id
    BY <2>1 DEF CreateSchedule, Gone
  <2>3. /\ table'[id] = table[id] /\ jobs'[id] = jobs[id] /\ tasks'[id] = tasks[id]
        /\ id \in issued'
    BY <2>1, <2>2 DEF CreateSchedule, CreateJob, CreateTask, Gone, TypeOK, CloudTypeOK
  <2>4. /\ \A r \in Slots \ {s} : calls'[r] = calls[r]
        /\ calls'[s] = calls[s] \/ calls'[s].id = i
    BY <2>1 DEF CreateSchedule, Enter, TypeOK
  <2>5. \A r \in Slots : ~Creating(r, id)'
    BY <2>2, <2>4 DEF Gone, Creating
  <2> QED BY <2>3, <2>5 DEF Gone
<1>2. CASE \/ \E u, mask : UpdateRead(s, caller, i, u, mask)
           \/ DeleteRead(s, caller, i)
           \/ RunRead(s, caller, i)
  <2>1. /\ UNCHANGED <<table, jobs, tasks, issued>>
        /\ \A r \in Slots \ {s} : calls'[r] = calls[r]
        /\ calls'[s].pc # "persist"
    BY <1>2 DEF UpdateRead, DeleteRead, RunRead, Enter, cloudVars, TypeOK
  <2> QED BY <2>1 DEF Gone, Creating
<1> QED BY <1>1, <1>2

LEMMA GonePersist ==
    ASSUME TypeOK, NEW id \in Ids, Gone(id), NEW s \in Slots, CreatePersist(s)
    PROVE  Gone(id)'
<1>1. PICK i \in Ids : calls[s].pc = "persist" /\ calls[s].id = i
  BY BusyCall DEF CreatePersist, InFlight
<1>2. i # id
  BY <1>1 DEF Gone, Creating
<1>3. table'[id] = table[id] /\ UNCHANGED <<jobs, tasks, issued>>
  BY <1>1, <1>2 DEF CreatePersist, Insert, TypeOK, CloudTypeOK
<1>4. calls'[s].pc = "idle" /\ \A r \in Slots \ {s} : calls'[r] = calls[r]
  BY DEF CreatePersist, Return, Idle, TypeOK
<1> QED BY <1>3, <1>4 DEF Gone, Creating

LEMMA GoneLater ==
    ASSUME TypeOK, NEW id \in Ids, Gone(id), NEW s \in Slots,
           \/ UpdateWrite(s) \/ Unschedule(s) \/ EraseRow(s) \/ RunNotFound(s)
           \/ CallFails(s) \/ \E a \in Attempts : RunSend(s, a)
    PROVE  Gone(id)'
<1>1. CallsLess /\ PoliciesKept
  BY LaterSteps
<1>2. \A r \in Slots : ~Creating(r, id)'
  <2>1. \A r \in Slots : calls'[r].pc = "persist" => calls'[r] = calls[r]
    BY <1>1, BusyCall DEF CallsLess, InFlight
  <2> QED BY <2>1 DEF Gone, Creating
<1>3. table'[id] = None
  BY <1>1 DEF PoliciesKept, Gone
<1>4. issued' = issued
  BY DEF UpdateWrite, Unschedule, EraseRow, RunNotFound, CallFails, RunSend
<1>5. jobs'[id] = None /\ tasks'[id] = None
  <2>1. calls[s].pc = "unschedule" => calls[s].id \in Ids
    BY ServedCall
  <2> QED
    BY <2>1 DEF UpdateWrite, Unschedule, EraseRow, RunNotFound, CallFails, RunSend,
       DeleteJob, DeleteTask, cloudVars, Gone, TypeOK, CloudTypeOK
<1> QED BY <1>2, <1>3, <1>4, <1>5 DEF Gone

LEMMA GoneKept ==
    ASSUME TypeOK, NEW id \in Ids, Gone(id), [Next]_vars
    PROVE  Gone(id)'
<1>1. ASSUME NEW s \in Clients, Start(s) \/ StartRun(s)
      PROVE  Gone(id)'
  <2>1. PICK caller \in Identities, i \in Ids :
           \/ \E req \in Cron : CreateSchedule(s, caller, req, i)
           \/ \E u, mask : UpdateRead(s, caller, i, u, mask)
           \/ DeleteRead(s, caller, i)
           \/ RunRead(s, caller, i)
    BY <1>1, RequestsAssumption DEF Start, StartRun
  <2> QED BY <2>1, GoneStart DEF Slots
<1>2. ASSUME NEW s \in Clients, CreatePersist(s)
      PROVE  Gone(id)'
  BY <1>2, GonePersist DEF Slots
<1>3. ASSUME NEW s \in Clients,
             \/ UpdateWrite(s) \/ Unschedule(s) \/ EraseRow(s) \/ RunNotFound(s)
             \/ CallFails(s) \/ \E a \in Attempts : RunSend(s, a)
      PROVE  Gone(id)'
  BY <1>3, GoneLater DEF Slots
<1>4. ASSUME NEW a \in Attempts,
             EndpointAnswers(a) \/ \E i \in Ids : DispatchDue(i, a)
      PROVE  Gone(id)'
  BY <1>4 DEF EndpointAnswers, Answered, DispatchDue, Due, DeleteTask, serviceVars,
     Gone, Creating, TypeOK, CloudTypeOK
<1>5. CASE UNCHANGED vars
  BY <1>5 DEF vars, cloudVars, serviceVars, Gone, Creating
<1> QED
  BY <1>1, <1>2, <1>3, <1>4, <1>5 DEF Next, Proceed

\* The answer that tells a client its cron is deleted is that of EraseRow.
LEMMA DeletedNow ==
    ASSUME AuthorityInv, AnswersInv, NEW s \in Clients, Continue(s),
           requests[s].state = "served", requests[s].method = "DeleteCron",
           requests'[s].state = "answered", requests'[s].code = Result,
           NEW id \in Ids, calls[s].id = id
    PROVE  Gone(id)'
<1> USE DEF AuthorityInv, ServiceInv
<1>1. s \in Slots /\ GoesOn(s)
  BY DEF Slots, Continue, GoesOn
<1>2. /\ calls'[s].pc = "idle"
      /\ UNCHANGED faults
      /\ ~FindsNothing(calls[s])
      /\ ~CallFails(s)
  BY ResultStep
<1>3. calls[s].pc \in {"unschedule", "erase"}
  BY DEF AnswersInv, ServedAsAsked, Stages
<1>4. calls[s].pc = "erase"
  <2>1. SUFFICES ASSUME calls[s].pc = "unschedule" PROVE FALSE
    BY <1>3
  <2>2. Unschedule(s)
    BY <1>1, <1>2, <2>1 DEF GoesOn, Proceed, CreatePersist, UpdateWrite, EraseRow,
       RunNotFound, RunSend
  <2>3. Goto(s, "erase")
    BY <1>2, <2>1, <2>2, FaultsAssumption DEF Unschedule, FindsNothing, Reply, TypeOK,
       CloudTypeOK
  <2>4. calls'[s].pc = "erase"
    BY <1>1, <2>1, <2>3, BusyCall DEF Goto, InFlight, TypeOK
  <2> QED BY <1>2, <2>4
<1>5. EraseRow(s)
  BY <1>1, <1>2, <1>4 DEF GoesOn, Proceed, CreatePersist, UpdateWrite, Unschedule,
     RunNotFound, RunSend
<1>6. table'[id] = None /\ UNCHANGED <<jobs, tasks, issued>>
  BY <1>5 DEF EraseRow, DeleteRow, TypeOK, CloudTypeOK
<1>7. jobs[id] = None /\ tasks[id] = None /\ id \in issued
  BY <1>1, <1>4 DEF ErasingIsClean, CallsBacked
<1>8. \A r \in Slots : ~Creating(r, id)
  BY <1>1, <1>4 DEF CreatingIsAlone, Creating
<1>9. \A r \in Slots : ~Creating(r, id)'
  <2>1. \A r \in Slots \ {s} : calls'[r] = calls[r]
    BY <1>1, NextStage
  <2> QED BY <1>2, <1>8, <2>1 DEF Creating
<1> QED BY <1>6, <1>7, <1>9 DEF Gone

\* If no update request names the type, DeletedInv holds in every state.
THEOREM DeletedInvariant ==
    ASSUME TypesStable
    PROVE  GatewaySpec => []DeletedInv
<1>1. GatewayInit => DeletedInv
  BY DEF GatewayInit, DeletedInv, DeletedIsGone, DeletedIsFinal
<1>2. ASSUME AuthorityInv, AnswersInv, DeletedInv, [GatewayNext]_gatewayVars
      PROVE  DeletedInv'
  <2>1. SUFFICES ASSUME NEW id \in Ids, told'[id] = "deleted"
                 PROVE  Gone(id)'
    BY DEF DeletedInv, DeletedIsGone, DeletedIsFinal, Gone
  <2>2. CASE told[id] = "deleted"
    BY <1>2, <2>2, DeletedByIds, GatewayStep, GoneKept DEF AuthorityInv, ServiceInv
  <2>3. CASE told[id] # "deleted"
    <3>1. PICK s \in Clients :
             /\ Continue(s)
             /\ calls[s].id = id
             /\ requests[s].state = "served"
             /\ requests'[s].state = "answered"
             /\ requests'[s].code = Result
             /\ requests[s].method = "DeleteCron"
      BY <1>2, <2>1, <2>3, ToldByAnswer
    <3> QED BY <1>2, <3>1, DeletedNow
  <2> QED BY <2>2, <2>3
<1> QED
  BY <1>1, <1>2, GatewayImplementsService, AuthorityInvariant, AnswersInvariant,
     PTL DEF GatewaySpec

(***************************************************************************)
(* If no update request names the type, a cron whose deletion was answered *)
(* with a result is gone from the table, Cloud Scheduler and Cloud Tasks   *)
(* for good: the row is erased after the job or task, and every RPC still  *)
(* in flight can at most find that it is gone.                             *)
(***************************************************************************)
THEOREM DeletedForGood ==
    ASSUME TypesStable
    PROVE  GatewaySpec => []DeletedIsFinal
<1>1. DeletedInv => DeletedIsFinal
  BY DEF DeletedInv
<1> QED BY <1>1, DeletedInvariant, PTL

-----------------------------------------------------------------------------
(***************************************************************************)
(* CreatedStands. A row that no DeleteCron has read stays, and an          *)
(* UpdateCron can only write back the type and schedule it has.            *)
(***************************************************************************)
Stands(id) ==
    /\ table[id] # None
    /\ table[id].cron.type = "TYPE_CRON" => jobs[id] = table[id].cron.schedule
    /\ \A s \in Slots :
          calls[s].id = id => calls[s].pc \notin {"unschedule", "erase"}

LEMMA CreatedByIds == CreatedInv <=> \A id \in Ids : told[id] = "created" => Stands(id)
BY DEF CreatedInv, CreatedIsKept, CreatedStands, Stands

\* A step that leaves the row's timing and its job alone, and no RPC about to
\* delete it.
LEMMA StandsOn ==
    ASSUME NEW id \in Ids, Stands(id),
           table'[id] = table[id] \/ (table'[id] # None /\ SameTiming(id)),
           jobs'[id] = jobs[id],
           \A s \in Slots : \/ calls'[s] = calls[s]
                            \/ calls'[s].id # id
                            \/ calls'[s].pc \notin {"unschedule", "erase"}
    PROVE  Stands(id)'
BY DEF Stands, SameTiming

LEMMA StandsStart ==
    ASSUME AuthorityInv, NEW id \in Ids, Stands(id), NEW s \in Slots, NEW caller,
           NEW i \in Ids,
           \/ \E req \in Cron : CreateSchedule(s, caller, req, i)
           \/ \E u, mask : UpdateRead(s, caller, i, u, mask)
           \/ DeleteRead(s, caller, i) /\ i # id
           \/ RunRead(s, caller, i)
    PROVE  Stands(id)'
<1> USE DEF AuthorityInv, ServiceInv
<1>1. CASE \E req \in Cron : CreateSchedule(s, caller, req, i)
  <2>1. PICK req \in Cron : CreateSchedule(s, caller, req, i)
    BY <1>1
  <2>2. i # id
    BY <2>1 DEF CreateSchedule, UnissuedIsUnknown, Stands
  <2>3. table'[id] = table[id] /\ jobs'[id] = jobs[id]
    BY <2>1, <2>2 DEF CreateSchedule, CreateJob, CreateTask, TypeOK, CloudTypeOK
  <2>4. /\ \A r \in Slots \ {s} : calls'[r] = calls[r]
        /\ calls'[s] = calls[s] \/ calls'[s].id = i
    BY <2>1 DEF CreateSchedule, Enter, TypeOK
  <2> QED BY <2>2, <2>3, <2>4, StandsOn
<1>2. CASE \/ \E u, mask : UpdateRead(s, caller, i, u, mask)
           \/ DeleteRead(s, caller, i) /\ i # id
           \/ RunRead(s, caller, i)
  <2>1. /\ UNCHANGED <<table, jobs>>
        /\ \A r \in Slots \ {s} : calls'[r] = calls[r]
        /\ calls'[s].id # id \/ calls'[s].pc \notin {"unschedule", "erase"}
    BY <1>2 DEF UpdateRead, DeleteRead, RunRead, Enter, cloudVars, TypeOK
  <2> QED BY <2>1, StandsOn
<1> QED BY <1>1, <1>2

LEMMA StandsLater ==
    ASSUME TimingInv, NEW id \in Ids, Stands(id), NEW s \in Slots, GoesOn(s)
    PROVE  Stands(id)'
<1> USE DEF TimingInv, AuthorityInv, ServiceInv
<1>1. PICK i \in Ids : calls[s].id = i /\ calls[s].pc # "idle" /\ calls[s] \in InFlight
  BY NextStage, BusyCall DEF InFlight
<1>2. \A r \in Slots : \/ calls'[r] = calls[r]
                       \/ calls'[r].id # id
                       \/ calls'[r].pc \notin {"unschedule", "erase"}
  <2>1. CASE calls'[s].pc = "idle"
    BY <2>1, NextStage
  <2>2. CASE calls[s].pc = "unschedule" /\ calls'[s] = [calls[s] EXCEPT !.pc = "erase"]
    <3>1. calls'[s].id # id
      BY <1>1, <2>2 DEF InFlight, Stands
    <3> QED BY <3>1, NextStage
  <2> QED BY <2>1, <2>2, NextStage
<1>3. jobs'[id] = jobs[id]
  <2>1. CASE ~Unschedule(s)
    BY <2>1 DEF GoesOn, Proceed, CreatePersist, UpdateWrite, EraseRow, RunNotFound,
       CallFails, RunSend, cloudVars
  <2>2. CASE Unschedule(s)
    <3>1. i # id
      BY <1>1, <2>2 DEF Unschedule, Stands
    <3> QED
      BY <1>1, <2>2, <3>1 DEF Unschedule, DeleteJob, TypeOK, CloudTypeOK
  <2> QED BY <2>1, <2>2
<1>4. table'[id] = table[id] \/ (table'[id] # None /\ SameTiming(id))
  <2>1. CASE i # id
    BY <1>1, <2>1 DEF GoesOn, Proceed, CreatePersist, UpdateWrite, Unschedule,
       EraseRow, RunNotFound, CallFails, RunSend, cloudVars, Insert, UpdateRow,
       DeleteRow, TypeOK, CloudTypeOK
  <2>2. CASE i = id
    <3>1. ~CreatePersist(s) /\ ~EraseRow(s)
      BY <1>1, <2>2 DEF CreatePersist, EraseRow, CreatingIsAlone, Stands
    <3>2. CASE UpdateWrite(s)
      <4>1. table'[id] = [table[id] EXCEPT !.cron = calls[s].cron]
        BY <1>1, <2>2, <3>2 DEF UpdateWrite, UpdateRow, Stands, TypeOK, CloudTypeOK
      <4>2. table[id] \in Row /\ table[id] # None
        BY StoredRow DEF Stands
      <4>3. table'[id] # None
        BY <1>1, <4>1, <4>2, RowIsNotNone DEF Row, InFlight
      <4>4. table'[id].cron = calls[s].cron
        BY <4>1, <4>2 DEF Row
      <4>5. /\ calls[s].cron.type = table[id].cron.type
            /\ calls[s].cron.schedule = table[id].cron.schedule
        BY <1>1, <2>2, <3>2 DEF UpdateWrite, WritesKeepTiming, Stands
      <4> QED BY <4>2, <4>3, <4>4, <4>5 DEF SameTiming
    <3>3. CASE ~UpdateWrite(s)
      <4>1. \/ Unschedule(s) \/ RunNotFound(s) \/ CallFails(s)
            \/ \E a \in Attempts : RunSend(s, a)
        BY <3>1, <3>3 DEF GoesOn, Proceed
      <4>2. UNCHANGED table
        BY <4>1 DEF Unschedule, RunNotFound, CallFails, RunSend, cloudVars
      <4> QED BY <4>2
    <3> QED BY <3>2, <3>3
  <2> QED BY <2>1, <2>2
<1> QED BY <1>2, <1>3, <1>4, StandsOn

LEMMA StandsKept ==
    ASSUME TimingInv, AnswersInv, NEW id \in Ids, Stands(id),
           told[id] = "created", told'[id] = "created", [GatewayNext]_gatewayVars
    PROVE  Stands(id)'
<1> USE DEF TimingInv, AuthorityInv, ServiceInv
<1>1. ASSUME NEW s \in Clients, Serve(s)
      PROVE  Stands(id)'
  <2>1. PICK req \in Accepted, caller \in Identities, i \in Ids :
           StartRPC(s, req.method, caller, i)
    BY <1>1 DEF Serve, ServeRPC
  <2>2. Tell(i, "deleting") => i # id
    BY DEF Tell, AnswersInv, GatewayTypeOK
  <2>3. \/ \E cron \in Cron : CreateSchedule(s, caller, cron, i)
        \/ \E u, mask : UpdateRead(s, caller, i, u, mask)
        \/ DeleteRead(s, caller, i) /\ i # id
        \/ RunRead(s, caller, i)
    BY <2>1, <2>2, RequestsAssumption DEF StartRPC
  <2> QED BY <2>3, StandsStart DEF Slots
<1>2. ASSUME NEW s \in Clients, Continue(s)
      PROVE  Stands(id)'
  BY <1>2, StandsLater DEF Continue, GoesOn, Slots
<1>3. ASSUME NEW s \in Clients, Reject(s) \/ ServeAtOnce(s)
      PROVE  Stands(id)'
  BY <1>3, StandsOn DEF Reject, ServeAtOnce, vars, cloudVars, serviceVars
<1>4. CASE Around \/ UNCHANGED gatewayVars
  BY <1>4, StandsOn DEF Around, EndpointAnswers, Answered, DispatchDue, Due,
     gatewayVars, vars, cloudVars, serviceVars
<1> QED
  BY <1>1, <1>2, <1>3, <1>4 DEF GatewayNext

\* The answer that tells a client its cron is created is that of CreatePersist.
LEMMA CreatedNow ==
    ASSUME TimingInv, AnswersInv, NEW s \in Clients, Continue(s),
           requests[s].state = "served", requests[s].method = "CreateCron",
           requests'[s].state = "answered", requests'[s].code = Result,
           NEW id \in Ids, calls[s].id = id
    PROVE  Stands(id)'
<1> USE DEF TimingInv, AuthorityInv, ServiceInv
<1>1. s \in Slots /\ GoesOn(s)
  BY DEF Slots, Continue, GoesOn
<1>2. /\ calls'[s].pc = "idle"
      /\ ~CallFails(s)
  BY ResultStep
<1>3. calls[s].pc = "persist"
  BY DEF AnswersInv, ServedAsAsked, Stages
<1>4. CreatePersist(s)
  BY <1>1, <1>2, <1>3 DEF GoesOn, Proceed, EraseRow, UpdateWrite, Unschedule,
     RunNotFound, RunSend
<1>5. table'[id] = [cron |-> calls[s].cron, policy |-> {calls[s].caller}]
  BY <1>4 DEF CreatePersist, Insert, TypeOK, CloudTypeOK
<1>6. table'[id] # None /\ table'[id].cron = calls[s].cron
  <2>1. table'[id] \in Row
    BY <1>1, <1>3, <1>5, BusyCall DEF InFlight, Row
  <2> QED BY <1>5, <2>1, RowIsNotNone
<1>7. calls[s].cron.type = "TYPE_CRON" => jobs'[id] = calls[s].cron.schedule
  BY <1>1, <1>3, <1>4 DEF CreatePersist, CreatingIsScheduled
<1>8. \A r \in Slots : calls'[r].id = id => calls'[r].pc \notin {"unschedule", "erase"}
  <2>1. \A r \in Slots \ {s} : calls[r].pc = "idle" \/ calls[r].id # id
    BY <1>1, <1>3 DEF CreatingIsAlone
  <2>2. \A r \in Slots \ {s} : calls'[r] = calls[r]
    BY <1>1, NextStage
  <2> QED BY <1>2, <2>1, <2>2
<1> QED BY <1>6, <1>7, <1>8 DEF Stands

\* If no update request names the type or the schedule, CreatedInv always holds.
THEOREM CreatedInvariant ==
    ASSUME TimingStable
    PROVE  GatewaySpec => []CreatedInv
<1>1. GatewayInit => CreatedInv
  BY DEF GatewayInit, CreatedInv, CreatedIsKept, CreatedStands
<1>2. ASSUME TimingInv, AnswersInv, CreatedInv, [GatewayNext]_gatewayVars
      PROVE  CreatedInv'
  <2>1. SUFFICES ASSUME NEW id \in Ids, told'[id] = "created"
                 PROVE  Stands(id)'
    BY DEF CreatedInv, CreatedIsKept, CreatedStands, Stands
  <2>2. CASE told[id] = "created"
    BY <1>2, <2>1, <2>2, CreatedByIds, StandsKept
  <2>3. CASE told[id] # "created"
    <3>1. PICK s \in Clients :
             /\ Continue(s)
             /\ calls[s].id = id
             /\ requests[s].state = "served"
             /\ requests'[s].state = "answered"
             /\ requests'[s].code = Result
             /\ requests[s].method = "CreateCron"
      BY <1>2, <2>1, <2>3, ToldByAnswer
    <3> QED BY <1>2, <3>1, CreatedNow
  <2> QED BY <2>2, <2>3
<1> QED
  BY <1>1, <1>2, GatewayImplementsService, TimingInvariant, AnswersInvariant,
     PTL DEF GatewaySpec

(***************************************************************************)
(* If no update request names the type or the schedule, a cron whose       *)
(* creation was answered with a result and that nobody has asked to delete *)
(* is in the table, and a recurring one has the job that fires it on its   *)
(* schedule.                                                               *)
(***************************************************************************)
THEOREM CreatedForGood ==
    ASSUME TimingStable
    PROVE  GatewaySpec => []CreatedStands
<1>1. CreatedInv => CreatedStands
  BY DEF CreatedInv
<1> QED BY <1>1, CreatedInvariant, PTL

-----------------------------------------------------------------------------
(***************************************************************************)
(* OrphansAreReported. Only CreateCron makes a job or task, and only its   *)
(* failing leaves one without a row.                                       *)
(***************************************************************************)
Orphan(id) == (jobs[id] # None \/ tasks[id] # None) /\ table[id] = None

Reported(id) == told[id] = "failed" \/ \E s \in Clients : Creating(s, id)

\* A step that schedules nothing for id, and forgets neither what was told of
\* it nor who is creating it.
LEMMA ReportedOn ==
    ASSUME OrphansAreReported, NEW id \in Ids, Orphan(id)',
           jobs'[id] \in {jobs[id], None}, tasks'[id] \in {tasks[id], None},
           table[id] # None => jobs[id] = None /\ tasks[id] = None,
           told[id] = "failed" => told'[id] = "failed",
           \A s \in Clients : Creating(s, id) => Reported(id)'
    PROVE  Reported(id)'
BY DEF OrphansAreReported, Orphan, Reported

LEMMA ReportedServe ==
    ASSUME ServiceInv, AnswersInv, OrphansAreReported, NEW s \in Clients, Serve(s),
           NEW id \in Ids, Orphan(id)'
    PROVE  Reported(id)'
<1> USE DEF ServiceInv
<1>1. s \in Slots /\ told \in [Ids -> Knowledge]
  BY DEF Slots, AnswersInv, GatewayTypeOK
<1>2. PICK req \in Accepted, caller \in Identities, i \in Ids :
         StartRPC(s, req.method, caller, i)
    BY DEF Serve, ServeRPC
<1>3. CASE \E cron \in Creates : /\ CreateSchedule(s, caller, cron, i)
                                 /\ IF CallFailed THEN Tell(i, "failed")
                                                  ELSE UNCHANGED told
  <2>1. PICK cron \in Creates : CreateSchedule(s, caller, cron, i)
    BY <1>3
  <2>2. CASE CallFailed /\ i = id
    BY <1>1, <1>3, <2>2 DEF Tell, Reported
  <2>3. CASE ~CallFailed /\ i = id
    <3>1. Enter(s, "persist", caller, i, NewCron(cron, caller), {})
      BY <2>1, <2>3, FaultsAssumption DEF CreateSchedule, Reply, CallFailed, TypeOK,
         CloudTypeOK
    <3>2. Creating(s, id)'
      BY <1>1, <2>3, <3>1 DEF Enter, Creating, TypeOK
    <3> QED BY <3>2 DEF Reported
  <2>4. CASE i # id
    <3>1. jobs'[id] = jobs[id] /\ tasks'[id] = tasks[id] /\ table'[id] = table[id]
      BY <2>1, <2>4 DEF CreateSchedule, CreateJob, CreateTask, TypeOK, CloudTypeOK
    <3>2. told'[id] = told[id]
      BY <1>1, <1>3, <2>4 DEF Tell
    <3>3. \A r \in Clients : Creating(r, id) => Creating(r, id)'
      BY <2>1 DEF CreateSchedule, Enter, Creating, Slots, TypeOK
    <3> QED BY <3>1, <3>2, <3>3 DEF OrphansAreReported, Orphan, Reported
  <2> QED BY <2>2, <2>3, <2>4
<1>4. CASE \/ \E u, mask : UpdateRead(s, caller, i, u, mask) /\ UNCHANGED told
           \/ DeleteRead(s, caller, i) /\ Tell(i, "deleting")
           \/ RunRead(s, caller, i) /\ UNCHANGED told
  <2>1. /\ UNCHANGED <<table, jobs, tasks>>
        /\ table[i] # None
        /\ calls[s].pc = "idle"
        /\ \A r \in Slots \ {s} : calls'[r] = calls[r]
    BY <1>4 DEF UpdateRead, DeleteRead, RunRead, Readable, Enter, cloudVars, TypeOK
  <2>2. i # id
    BY <2>1 DEF Orphan
  <2>3. told'[id] = told[id]
    BY <1>1, <1>4, <2>2 DEF Tell
  <2>4. \A r \in Clients : Creating(r, id) => Creating(r, id)'
    BY <2>1 DEF Creating, Slots
  <2> QED BY <2>1, <2>3, <2>4 DEF OrphansAreReported, Orphan, Reported
<1> QED BY <1>2, <1>3, <1>4 DEF StartRPC

\* A CreateCron that ends without having stored its row is answered an error.
LEMMA CreateFails ==
    ASSUME TypeOK, AnswersInv, NEW s \in Clients, Continue(s),
           calls[s].pc = "persist", NEW id \in Ids, calls[s].id = id,
           table'[id] = None
    PROVE  told'[id] = "failed"
<1>1. s \in Slots /\ GoesOn(s)
  BY DEF Slots, Continue, GoesOn
<1>2. ~CreatePersist(s)
  <2>1. [cron |-> calls[s].cron, policy |-> {calls[s].caller}] \in Row
    BY <1>1, BusyCall DEF InFlight, Row
  <2> QED
    BY <2>1, RowIsNotNone DEF CreatePersist, Insert, TypeOK, CloudTypeOK
<1>3. CallFails(s)
  BY <1>1, <1>2 DEF GoesOn, Proceed, UpdateWrite, Unschedule, EraseRow, RunNotFound,
     RunSend
<1>4. CallFailed
  BY <1>3, FaultsAssumption DEF CallFails, Fault, CallFailed, TypeOK, CloudTypeOK
<1>5. calls'[s].pc = "idle"
  BY <1>1, <1>3 DEF CallFails, Return, Idle, TypeOK
<1>6. PICK status \in RemoteErrors :
         requests' = [requests EXCEPT ![s] =
            Replied(requests[s].id, Answer(status),
                    requests[s].touched \/ Changed, CallFailed)]
  BY <1>4, <1>5 DEF Continue, Follow, StatusesOfStep, CallErrors
<1>7. requests'[s] = Replied(requests[s].id, Answer(status),
                             requests[s].touched \/ Changed, CallFailed)
  BY <1>6, SetRequest DEF AnswersInv
<1>8. requests'[s].state = "answered" /\ requests'[s].code = Answer(status)
  BY <1>7 DEF Replied, NoRequest
<1>9. requests'[s].code # Result
  BY <1>8, ResultIsOK, GatewayAssumption
<1>10. requests[s].method = "CreateCron"
  BY DEF Continue, AnswersInv, ServedAsAsked, Stages, Methods
<1>11. Tell(id, "failed")
  BY <1>8, <1>9, <1>10 DEF Continue, Learned
<1> QED
  BY <1>11 DEF Tell, AnswersInv, GatewayTypeOK

LEMMA ReportedContinue ==
    ASSUME AuthorityInv, AnswersInv, OrphansAreReported, [GatewayNext]_gatewayVars,
           NEW s \in Clients, Continue(s), NEW id \in Ids, Orphan(id)'
    PROVE  Reported(id)'
<1> USE DEF AuthorityInv, ServiceInv
<1>1. s \in Slots /\ GoesOn(s)
  BY DEF Slots, Continue, GoesOn
<1>2. jobs'[id] \in {jobs[id], None} /\ tasks'[id] \in {tasks[id], None}
  <2>1. calls[s].id \in Ids
    BY <1>1, NextStage, ServedCall
  <2> QED
    BY <1>1, <2>1 DEF GoesOn, Proceed, CreatePersist, UpdateWrite, Unschedule,
       EraseRow, RunNotFound, CallFails, RunSend, DeleteJob, DeleteTask, cloudVars,
       TypeOK, CloudTypeOK
<1>3. table[id] # None => jobs[id] = None /\ tasks[id] = None
  BY GatewayStep, ErasedRow DEF Orphan
<1>4. \A r \in Clients : Creating(r, id) => Reported(id)'
  <2>1. SUFFICES ASSUME NEW r \in Clients, Creating(r, id)
                 PROVE  Reported(id)'
    OBVIOUS
  <2>2. CASE r = s
    BY <2>1, <2>2, CreateFails DEF Creating, Orphan, Reported
  <2>3. CASE r # s
    <3>1. calls'[r] = calls[r]
      BY <1>1, <2>3, NextStage DEF Slots
    <3> QED BY <2>1, <3>1 DEF Creating, Reported
  <2> QED BY <2>2, <2>3
<1>5. told[id] = "failed" => told'[id] = "failed"
  <2>1. SUFFICES ASSUME told[id] = "failed", told'[id] # "failed"
                 PROVE  FALSE
    OBVIOUS
  <2>2. told'[id] \in {"created", "deleted"}
    BY <2>1 DEF Continue, Learned, Tell, AnswersInv, GatewayTypeOK
  <2>3. PICK r \in Clients :
           /\ Continue(r)
           /\ calls[r].id = id
           /\ requests[r].state = "served"
           /\ requests'[r].state = "answered"
           /\ requests'[r].code = Result
           /\ requests[r].method \in {"CreateCron", "DeleteCron"}
    BY <2>1, <2>2, ToldByAnswer
  <2>4. CASE requests[r].method = "DeleteCron"
    BY <2>3, <2>4, DeletedNow DEF Gone, Orphan
  <2>5. CASE requests[r].method = "CreateCron"
    <3>1. calls[r].pc = "persist"
      BY <2>3, <2>5 DEF AnswersInv, ServedAsAsked, Stages
    <3>2. told'[id] = "failed"
      BY <2>3, <3>1, CreateFails DEF Orphan
    <3> QED BY <2>1, <3>2
  <2> QED BY <2>3, <2>4, <2>5
<1> QED BY <1>2, <1>3, <1>4, <1>5, ReportedOn

(***************************************************************************)
(* If no update request names the type, a job or task without a row is     *)
(* that of a CreateCron in flight, or of one whose client was answered an  *)
(* error, for all clients, ids, requests and faults.                       *)
(***************************************************************************)
THEOREM OrphansReported ==
    ASSUME TypesStable
    PROVE  GatewaySpec => []OrphansAreReported
<1>1. GatewayInit => OrphansAreReported
  BY DEF GatewayInit, Init, CloudInit, OrphansAreReported
<1>2. ASSUME AuthorityInv, AnswersInv, OrphansAreReported, [GatewayNext]_gatewayVars
      PROVE  OrphansAreReported'
  <2>1. SUFFICES ASSUME NEW id \in Ids, Orphan(id)'
                 PROVE  Reported(id)'
    BY DEF OrphansAreReported, Orphan, Reported
  <2>2. ASSUME NEW s \in Clients, Serve(s)
        PROVE  Reported(id)'
    BY <1>2, <2>1, <2>2, ReportedServe DEF AuthorityInv
  <2>3. ASSUME NEW s \in Clients, Continue(s)
        PROVE  Reported(id)'
    BY <1>2, <2>1, <2>3, ReportedContinue
  <2>4. ASSUME NEW s \in Clients, Reject(s) \/ ServeAtOnce(s)
        PROVE  Reported(id)'
    BY <1>2, <2>1, <2>4 DEF Reject, ServeAtOnce, vars, cloudVars, serviceVars,
       OrphansAreReported, Orphan, Reported, Creating
  <2>5. CASE Around \/ UNCHANGED gatewayVars
    <3>1. /\ UNCHANGED <<table, jobs, calls, told>>
          /\ tasks'[id] \in {tasks[id], None}
      BY <1>2, <2>5 DEF Around, EndpointAnswers, Answered, DispatchDue, Due, DeleteTask,
         gatewayVars, vars, cloudVars, serviceVars, AuthorityInv, ServiceInv, TypeOK,
         CloudTypeOK
    <3> QED
      BY <1>2, <2>1, <3>1 DEF OrphansAreReported, Orphan, Reported, Creating
  <2> QED BY <1>2, <2>2, <2>3, <2>4, <2>5 DEF GatewayNext
<1> QED
  BY <1>1, <1>2, GatewayImplementsService, AuthorityInvariant, AnswersInvariant,
     PTL DEF GatewaySpec

(***************************************************************************)
(* If no update request names the type or the schedule, everything a       *)
(* client may conclude from an answer holds in every state: requests are   *)
(* served as asked, an error that no failed call explains has changed      *)
(* nothing, a job or task without a row belongs to a creation that failed, *)
(* and neither a deleted nor a created cron turns into the opposite.       *)
(***************************************************************************)
THEOREM GatewayInvariant ==
    ASSUME TimingStable
    PROVE  GatewaySpec => []GatewayInv
<1>1. TypesStable
  BY StableTypes
<1>2. AnswersInv /\ OrphansAreReported /\ DeletedInv /\ CreatedInv => GatewayInv
  BY DEF GatewayInv
<1> QED
  BY <1>1, <1>2, AnswersInvariant, OrphansReported, DeletedInvariant, CreatedInvariant,
     PTL
=============================================================================

------------------------ MODULE SchedulerServiceProofs ------------------------
(* Proofs about SchedulerService, for all clients, ids, requests and faults. *)
EXTENDS SchedulerServiceProperties, TLAPS

-----------------------------------------------------------------------------
(* The values an RPC computes are crons. *)

LEMMA ZeroCronType == ZeroCron \in Cron
BY DEF ZeroCron, Cron, Types, States

LEMMA OnlyTypeType ==
    ASSUME NEW cron \in Cron
    PROVE  OnlyType(cron) \in Cron
BY DEF OnlyType, ZeroCron, Cron, States

LEMMA NewCronType ==
    ASSUME NEW cron \in Cron, NEW caller \in Identities
    PROVE  NewCron(cron, caller) \in Cron
BY DEF NewCron, Cron, States

LEMMA ApplyMaskType ==
    ASSUME NEW cron \in Cron, NEW update \in Cron, NEW mask \in SUBSET Paths
    PROVE  ApplyMask(cron, update, mask) \in Cron
BY DEF ApplyMask, Masked, Cron

\* A row that is there is a Row.
LEMMA StoredRow ==
    ASSUME TypeOK, NEW id \in Ids, table[id] # None
    PROVE  table[id] \in Row /\ table[id].cron \in Cron
BY DEF TypeOK, CloudTypeOK, Row

LEMMA RowIsNotNone == None \notin Row
BY NoneIsUnset

-----------------------------------------------------------------------------
(* Calls stay calls, and the count of faults stays in bounds. *)

Call == InFlight \cup {Idle}

\* A slot that is not idle holds an RPC in flight.
LEMMA BusyCall ==
    ASSUME TypeOK, NEW s \in Slots, calls[s].pc # "idle"
    PROVE  calls[s] \in InFlight
BY DEF TypeOK, Idle

LEMMA EnterType ==
    ASSUME TypeOK, NEW s \in Slots,
           NEW pc \in {"persist", "write", "unschedule", "erase", "run"},
           NEW caller \in Identities, NEW id \in Ids, NEW cron \in Cron,
           NEW mask \in SUBSET Paths,
           Enter(s, pc, caller, id, cron, mask)
    PROVE  calls' \in [Slots -> Call]
BY DEF TypeOK, Enter, Call, InFlight

LEMMA GotoType ==
    ASSUME TypeOK, NEW s \in Slots, calls[s].pc # "idle", Goto(s, "erase")
    PROVE  calls' \in [Slots -> Call]
<1>1. [calls[s] EXCEPT !.pc = "erase"] \in InFlight
  BY BusyCall DEF InFlight
<1> QED
  BY <1>1 DEF TypeOK, Goto, Call

LEMMA ReturnType ==
    ASSUME TypeOK, NEW s \in Slots, Return(s)
    PROVE  calls' \in [Slots -> Call]
BY DEF TypeOK, Return, Call

LEMMA FaultType ==
    ASSUME TypeOK
    PROVE  /\ Fault => faults' \in 0 .. MaxFaults
           /\ \A reply \in BOOLEAN : Reply(reply) => faults' \in 0 .. MaxFaults
BY FaultsAssumption DEF TypeOK, CloudTypeOK, Fault, Reply

-----------------------------------------------------------------------------
(* Every step of an RPC preserves the types, in every slot. *)

LEMMA CreateScheduleType ==
    ASSUME TypeOK, NEW s \in Slots, NEW caller \in Identities,
           NEW req \in Cron, NEW id \in Ids, CreateSchedule(s, caller, req, id)
    PROVE  TypeOK'
<1>1. req.schedule \in Schedules
  BY DEF CreateSchedule, ValidCron, Cron
<1>2. /\ jobs' \in [Ids -> Schedules \cup {None}]
      /\ tasks' \in [Ids -> Schedules \cup {None}]
  BY <1>1 DEF CreateSchedule, CreateJob, CreateTask, TypeOK, CloudTypeOK
<1>3. PICK reply \in BOOLEAN :
          /\ Reply(reply)
          /\ IF reply
             THEN Enter(s, "persist", caller, id, NewCron(req, caller), {})
             ELSE UNCHANGED calls
  BY DEF CreateSchedule
<1>4. calls' \in [Slots -> Call]
  <2>1. CASE reply
    BY <1>3, <2>1, NewCronType, EnterType
  <2>2. CASE ~reply
    BY <1>3, <2>2 DEF TypeOK, Call
  <2> QED BY <2>1, <2>2
<1>5. faults' \in 0 .. MaxFaults
  BY <1>3, FaultType
<1>6. issued' \in SUBSET Ids /\ UNCHANGED <<table, posts>>
  BY DEF CreateSchedule, TypeOK
<1> QED
  BY <1>2, <1>4, <1>5, <1>6 DEF TypeOK, CloudTypeOK, Call

LEMMA CreatePersistType ==
    ASSUME TypeOK, NEW s \in Slots, CreatePersist(s)
    PROVE  TypeOK'
<1>1. calls[s] \in InFlight
  BY BusyCall DEF CreatePersist
<1>2. table' \in [Ids -> Row \cup {None}]
  BY <1>1 DEF CreatePersist, Insert, Row, InFlight, TypeOK, CloudTypeOK
<1>3. calls' \in [Slots -> Call] /\ faults' \in 0 .. MaxFaults
  BY ReturnType, FaultType DEF CreatePersist
<1> QED
  BY <1>2, <1>3 DEF CreatePersist, TypeOK, CloudTypeOK, Call

LEMMA UpdateReadType ==
    ASSUME TypeOK, NEW s \in Slots, NEW caller \in Identities, NEW id \in Ids,
           NEW update \in Cron, NEW mask \in SUBSET Paths,
           UpdateRead(s, caller, id, update, mask)
    PROVE  TypeOK'
<1>1. table[id].cron \in Cron
  BY StoredRow DEF UpdateRead, Readable
<1>2. calls' \in [Slots -> Call]
  BY <1>1, ApplyMaskType, EnterType DEF UpdateRead
<1> QED
  BY <1>2 DEF UpdateRead, TypeOK, CloudTypeOK, Call, cloudVars

LEMMA UpdateWriteType ==
    ASSUME TypeOK, NEW s \in Slots, UpdateWrite(s)
    PROVE  TypeOK'
<1>1. calls[s] \in InFlight
  BY BusyCall DEF UpdateWrite
<1>2. table' \in [Ids -> Row \cup {None}] /\ faults' \in 0 .. MaxFaults
  <2>1. CASE table[calls[s].id] = None
    BY <2>1 DEF UpdateWrite, TypeOK, CloudTypeOK
  <2>2. CASE table[calls[s].id] # None
    <3>1. table[calls[s].id] \in Row
      BY <1>1, <2>2, StoredRow DEF InFlight
    <3>2. [table[calls[s].id] EXCEPT !.cron = calls[s].cron] \in Row
      BY <1>1, <3>1 DEF Row, InFlight
    <3> QED
      BY <2>2, <3>2, FaultType DEF UpdateWrite, UpdateRow, TypeOK, CloudTypeOK
  <2> QED BY <2>1, <2>2
<1>3. calls' \in [Slots -> Call]
  BY ReturnType DEF UpdateWrite
<1> QED
  BY <1>2, <1>3 DEF UpdateWrite, TypeOK, CloudTypeOK, Call

LEMMA ReadType ==
    ASSUME TypeOK, NEW s \in Slots, NEW caller \in Identities, NEW id \in Ids,
           DeleteRead(s, caller, id) \/ RunRead(s, caller, id)
    PROVE  TypeOK'
<1>1. table[id].cron \in Cron
  BY StoredRow DEF DeleteRead, RunRead, Readable
<1>2. OnlyType(table[id].cron) \in Cron
  BY <1>1, OnlyTypeType
<1>3. calls' \in [Slots -> Call]
  BY <1>2, EnterType DEF DeleteRead, RunRead
<1> QED
  BY <1>3 DEF DeleteRead, RunRead, TypeOK, CloudTypeOK, Call, cloudVars

LEMMA UnscheduleType ==
    ASSUME TypeOK, NEW s \in Slots, Unschedule(s)
    PROVE  TypeOK'
<1>1. calls[s].pc # "idle"
  BY DEF Unschedule
<1>2. calls' \in [Slots -> Call]
  BY <1>1, GotoType, ReturnType DEF Unschedule
<1>3. faults' \in 0 .. MaxFaults
  BY FaultType DEF Unschedule, TypeOK, CloudTypeOK
<1> QED
  BY <1>2, <1>3 DEF Unschedule, DeleteJob, DeleteTask, TypeOK, CloudTypeOK, Call

LEMMA EraseRowType ==
    ASSUME TypeOK, NEW s \in Slots, EraseRow(s)
    PROVE  TypeOK'
BY ReturnType, FaultType DEF EraseRow, DeleteRow, TypeOK, CloudTypeOK, Call

LEMMA RunSendType ==
    ASSUME TypeOK, NEW s \in Slots, NEW a \in Attempts, RunSend(s, a)
    PROVE  TypeOK'
<1>1. calls[s] \in InFlight
  BY BusyCall DEF RunSend
<1>2. posts' \in [Attempts -> Ids \cup {None}]
  BY <1>1 DEF RunSend, Send, InFlight, TypeOK, CloudTypeOK
<1>3. calls' \in [Slots -> Call] /\ faults' \in 0 .. MaxFaults
  BY ReturnType, FaultType DEF RunSend
<1> QED
  BY <1>2, <1>3 DEF RunSend, TypeOK, CloudTypeOK, Call

LEMMA EndType ==
    ASSUME TypeOK, NEW s \in Slots, RunNotFound(s) \/ CallFails(s)
    PROVE  TypeOK'
<1>1. calls' \in [Slots -> Call]
  BY ReturnType DEF RunNotFound, CallFails
<1>2. faults' \in 0 .. MaxFaults
  BY FaultType DEF RunNotFound, CallFails, TypeOK, CloudTypeOK, cloudVars
<1> QED
  BY <1>1, <1>2 DEF RunNotFound, CallFails, TypeOK, CloudTypeOK, Call, cloudVars

LEMMA AnsweredType ==
    ASSUME TypeOK, NEW a \in Attempts, NEW ok \in BOOLEAN, Answered(a, ok)
    PROVE  /\ posts' \in [Attempts -> Ids \cup {None}]
           /\ tasks' \in [Ids -> Schedules \cup {None}]
           /\ UNCHANGED <<table, jobs>>
BY DEF Answered, DeleteTask, TypeOK, CloudTypeOK

LEMMA DispatchDueType ==
    ASSUME TypeOK, NEW id \in Ids, NEW a \in Attempts, DispatchDue(id, a)
    PROVE  TypeOK'
BY DEF DispatchDue, Due, Send, TypeOK, CloudTypeOK, serviceVars

-----------------------------------------------------------------------------
LEMMA InitType == Init => TypeOK
BY FaultsAssumption DEF Init, CloudInit, TypeOK, CloudTypeOK

LEMMA NextType ==
    ASSUME TypeOK, [Next]_vars
    PROVE  TypeOK'
<1>1. ASSUME NEW s \in Clients, Start(s)
      PROVE  TypeOK'
  <2>1. s \in Slots
    BY DEF Slots
  <2>2. PICK caller \in Identities, id \in Ids :
           \/ \E req \in Creates : CreateSchedule(s, caller, req, id)
           \/ \E u \in Updates : UpdateRead(s, caller, id, u.cron, u.mask)
           \/ DeleteRead(s, caller, id)
    BY <1>1 DEF Start
  <2>3. CASE \E req \in Creates : CreateSchedule(s, caller, req, id)
    BY <2>1, <2>3, CreateScheduleType, RequestsAssumption
  <2>4. CASE \E u \in Updates : UpdateRead(s, caller, id, u.cron, u.mask)
    BY <2>1, <2>4, UpdateReadType, RequestsAssumption
  <2>5. CASE DeleteRead(s, caller, id)
    BY <2>1, <2>5, ReadType
  <2> QED BY <2>2, <2>3, <2>4, <2>5
<1>2. ASSUME NEW s \in Clients, StartRun(s)
      PROVE  TypeOK'
  BY <1>2, ReadType DEF StartRun, Slots
<1>3. ASSUME NEW s \in Clients, Proceed(s)
      PROVE  TypeOK'
  BY <1>3, CreatePersistType, UpdateWriteType, UnscheduleType, EraseRowType,
     EndType DEF Proceed, Slots
<1>4. ASSUME NEW s \in Clients, CallFails(s)
      PROVE  TypeOK'
  BY <1>4, EndType DEF Slots
<1>5. ASSUME NEW s \in Clients, NEW a \in Attempts, RunSend(s, a)
      PROVE  TypeOK'
  BY <1>5, RunSendType DEF Slots
<1>6. ASSUME NEW a \in Attempts, EndpointAnswers(a)
      PROVE  TypeOK'
  BY <1>6, AnsweredType DEF EndpointAnswers, TypeOK, CloudTypeOK, serviceVars
<1>7. ASSUME NEW a \in Attempts, NEW id \in Ids, DispatchDue(id, a)
      PROVE  TypeOK'
  BY <1>7, DispatchDueType
<1>8. CASE UNCHANGED vars
  BY <1>8 DEF TypeOK, CloudTypeOK, vars, cloudVars, serviceVars
<1> QED
  BY <1>1, <1>2, <1>3, <1>4, <1>5, <1>6, <1>7, <1>8 DEF Next

(***************************************************************************)
(* The state of the service keeps its types: every call in flight has a    *)
(* caller and an id, every stored row is a cron with a policy.             *)
(***************************************************************************)
THEOREM TypeCorrect == Spec => []TypeOK
BY InitType, NextType, PTL DEF Spec

-----------------------------------------------------------------------------
(***************************************************************************)
(* ServiceInv is inductive. Only CreateSchedule adds a job or a task, for  *)
(* an id nobody has seen. Every other step takes some away, if anything,   *)
(* and cannot disturb what an untouched row or call says about its id: it  *)
(* remains to check the rows and calls it writes.                          *)
(***************************************************************************)
ScheduledLess ==
    /\ \A id \in Ids : jobs'[id] \in {jobs[id], None}
    /\ \A id \in Ids : tasks'[id] \in {tasks[id], None}
    /\ UNCHANGED issued

RowsWritten ==
    \A id \in Ids : table'[id] # table[id] /\ table'[id] # None
                  => id \in issued /\ Backed(table'[id].cron.type, id)

CallsWritten ==
    \A s \in Slots : calls'[s] # calls[s] /\ calls'[s].pc # "idle"
        => /\ calls'[s].id \in issued
           /\ Backed(calls'[s].cron.type, calls'[s].id)
           /\ calls'[s].pc = "erase"
              => jobs'[calls'[s].id] = None /\ tasks'[calls'[s].id] = None

LEMMA InvStep ==
    ASSUME ServiceInv, TypeOK', ScheduledLess, RowsWritten, CallsWritten
    PROVE  ServiceInv'
<1> USE DEF ServiceInv, ScheduledLess
<1>1. ASSUME NEW id \in Ids, NEW type, Backed(type, id)
      PROVE  Backed(type, id)'
  BY <1>1 DEF Backed
<1>2. issued \in SUBSET Ids
  BY DEF TypeOK
<1>3. RowsBacked'
  BY <1>1 DEF RowsBacked, RowsWritten
<1>4. CallsBacked'
  BY <1>1, <1>2 DEF CallsBacked, CallsWritten
<1>5. ErasingIsClean'
  BY <1>2 DEF ErasingIsClean, CallsBacked, CallsWritten
<1>6. UnissuedIsUnknown'
  BY DEF UnissuedIsUnknown, RowsWritten
<1> QED
  BY <1>3, <1>4, <1>5, <1>6

LEMMA CreateScheduleInv ==
    ASSUME ServiceInv, NEW s \in Slots, NEW caller \in Identities,
           NEW req \in Cron, NEW id \in Ids, CreateSchedule(s, caller, req, id)
    PROVE  ServiceInv'
<1> USE DEF ServiceInv
<1>1. TypeOK'
  BY CreateScheduleType
<1>2. /\ id \notin issued
      /\ issued' = issued \cup {id}
      /\ UNCHANGED table
      /\ table[id] = None /\ jobs[id] = None /\ tasks[id] = None
  BY DEF CreateSchedule, UnissuedIsUnknown
<1>3. \A i \in Ids \ {id} : jobs'[i] = jobs[i] /\ tasks'[i] = tasks[i]
  BY DEF CreateSchedule, CreateJob, CreateTask, TypeOK, CloudTypeOK
<1>4. \A i \in Ids \ {id} : \A type : Backed(type, i) => Backed(type, i)'
  BY <1>3 DEF Backed
<1>5. Backed(req.type, id)'
  BY <1>2 DEF CreateSchedule, CreateJob, CreateTask, Backed, TypeOK, CloudTypeOK
<1>6. \A r \in Slots :
         \/ calls'[r] = calls[r]
         \/ /\ calls'[r].pc = "persist"
            /\ calls'[r].id = id
            /\ calls'[r].cron.type = req.type
  <2>1. NewCron(req, caller).type = req.type
    BY DEF NewCron, Cron
  <2>2. UNCHANGED calls \/ Enter(s, "persist", caller, id, NewCron(req, caller), {})
    BY DEF CreateSchedule
  <2>3. calls \in [Slots -> Call]
    BY DEF TypeOK, Call
  <2> QED
    BY <2>1, <2>2, <2>3 DEF Enter
<1>7. \A r \in Slots : calls[r].pc # "idle" => calls[r].id \in Ids \ {id}
  BY <1>2, BusyCall DEF CallsBacked, InFlight
<1>8. RowsBacked'
  BY <1>2, <1>4 DEF RowsBacked
<1>9. CallsBacked'
  BY <1>2, <1>4, <1>5, <1>6, <1>7 DEF CallsBacked
<1>10. ErasingIsClean'
  BY <1>3, <1>6, <1>7 DEF ErasingIsClean
<1>11. UnissuedIsUnknown'
  BY <1>2, <1>3 DEF UnissuedIsUnknown
<1> QED
  BY <1>1, <1>8, <1>9, <1>10, <1>11

\* A call in flight says what CallsBacked says of it.
LEMMA BusyBacked ==
    ASSUME ServiceInv, NEW s \in Slots, calls[s].pc # "idle"
    PROVE  /\ calls[s] \in InFlight
           /\ calls[s].id \in Ids /\ calls[s].id \in issued
           /\ Backed(calls[s].cron.type, calls[s].id)
BY BusyCall DEF ServiceInv, CallsBacked, InFlight

\* After Return nothing is left to check of the calls.
LEMMA ReturnWritten ==
    ASSUME TypeOK, NEW s \in Slots, Return(s)
    PROVE  CallsWritten
BY DEF Return, CallsWritten, TypeOK, Idle

\* A row or a call that an RPC reads is backed, and has an issued id.
LEMMA ReadableBacked ==
    ASSUME ServiceInv, NEW id \in Ids, table[id] # None
    PROVE  id \in issued /\ Backed(table[id].cron.type, id)
BY DEF ServiceInv, RowsBacked, UnissuedIsUnknown

LEMMA CreatePersistInv ==
    ASSUME ServiceInv, NEW s \in Slots, CreatePersist(s)
    PROVE  ServiceInv'
<1>1. TypeOK'
  BY CreatePersistType DEF ServiceInv
<1>2. RowsWritten
  BY BusyBacked DEF ServiceInv, TypeOK, CloudTypeOK, CreatePersist, Insert,
     RowsWritten
<1>3. CallsWritten
  BY ReturnWritten DEF CreatePersist, ServiceInv
<1>4. ScheduledLess
  BY DEF CreatePersist, ScheduledLess
<1> QED
  BY <1>1, <1>2, <1>3, <1>4, InvStep

LEMMA UpdateReadInv ==
    ASSUME ServiceInv, NEW s \in Slots, NEW caller \in Identities, NEW id \in Ids,
           NEW update \in Cron, NEW mask \in SUBSET Paths, "type" \notin mask,
           UpdateRead(s, caller, id, update, mask)
    PROVE  ServiceInv'
<1>1. TypeOK'
  BY UpdateReadType DEF ServiceInv
<1>2. ApplyMask(table[id].cron, update, mask).type = table[id].cron.type
  BY DEF ApplyMask, Masked
<1>3. id \in issued /\ Backed(table[id].cron.type, id)
  BY ReadableBacked DEF UpdateRead, Readable
<1>4. CallsWritten
  BY <1>2, <1>3 DEF UpdateRead, Enter, CallsWritten, ServiceInv, TypeOK
<1>5. RowsWritten /\ ScheduledLess
  BY DEF UpdateRead, cloudVars, RowsWritten, ScheduledLess
<1> QED
  BY <1>1, <1>4, <1>5, InvStep

LEMMA UpdateWriteInv ==
    ASSUME ServiceInv, NEW s \in Slots, UpdateWrite(s)
    PROVE  ServiceInv'
<1>1. TypeOK'
  BY UpdateWriteType DEF ServiceInv
<1>2. RowsWritten
  <2>1. CASE UNCHANGED table
    BY <2>1 DEF RowsWritten
  <2>2. CASE table[calls[s].id] # None /\ UpdateRow(calls[s].id, calls[s].cron)
    <3>1. calls[s].pc # "idle"
      BY DEF UpdateWrite
    <3>2. table[calls[s].id] \in Row
      BY <2>2, <3>1, BusyBacked, StoredRow DEF ServiceInv
    <3>3. [table[calls[s].id] EXCEPT !.cron = calls[s].cron].cron = calls[s].cron
      BY <3>2 DEF Row
    <3> QED
      BY <2>2, <3>1, <3>3, BusyBacked
         DEF UpdateRow, RowsWritten, ServiceInv, TypeOK, CloudTypeOK
  <2> QED BY <2>1, <2>2 DEF UpdateWrite
<1>3. CallsWritten
  BY ReturnWritten DEF UpdateWrite, ServiceInv
<1>4. ScheduledLess
  BY DEF UpdateWrite, ScheduledLess
<1> QED
  BY <1>1, <1>2, <1>3, <1>4, InvStep

\* DeleteRead never reaches "erase" at once: a stored cron has a backed type.
LEMMA ReadInv ==
    ASSUME ServiceInv, NEW s \in Slots, NEW caller \in Identities, NEW id \in Ids,
           DeleteRead(s, caller, id) \/ RunRead(s, caller, id)
    PROVE  ServiceInv'
<1>1. TypeOK'
  BY ReadType DEF ServiceInv
<1>2. id \in issued /\ Backed(table[id].cron.type, id)
  BY ReadableBacked DEF DeleteRead, RunRead, Readable
<1>3. OnlyType(table[id].cron).type = table[id].cron.type
  BY DEF OnlyType, ZeroCron
<1>4. \E pc \in {"unschedule", "run"} :
         Enter(s, pc, caller, id, OnlyType(table[id].cron), {})
  BY <1>2 DEF DeleteRead, RunRead, Backed
<1>5. CallsWritten
  BY <1>2, <1>3, <1>4 DEF Enter, CallsWritten, ServiceInv, TypeOK
<1>6. RowsWritten /\ ScheduledLess
  BY DEF DeleteRead, RunRead, cloudVars, RowsWritten, ScheduledLess
<1> QED
  BY <1>1, <1>5, <1>6, InvStep

LEMMA UnscheduleInv ==
    ASSUME ServiceInv, NEW s \in Slots, Unschedule(s)
    PROVE  ServiceInv'
<1>1. TypeOK'
  BY UnscheduleType DEF ServiceInv
<1>2. calls[s].pc = "unschedule"
  BY DEF Unschedule
<1>3. /\ calls[s].id \in Ids /\ calls[s].id \in issued
      /\ Backed(calls[s].cron.type, calls[s].id)
  BY <1>2, BusyBacked
<1>4. ScheduledLess
  BY DEF Unschedule, DeleteJob, DeleteTask, ScheduledLess, ServiceInv, TypeOK,
     CloudTypeOK
<1>5. CallsWritten
  <2>1. CASE Return(s)
    BY <2>1, ReturnWritten DEF ServiceInv
  <2>2. CASE ~Return(s)
    <3>1. Goto(s, "erase")
      BY <2>2 DEF Unschedule
    <3>2. jobs'[calls[s].id] = None /\ tasks'[calls[s].id] = None
      BY <1>3, <2>2 DEF Unschedule, DeleteJob, DeleteTask, Backed, ServiceInv,
         TypeOK, CloudTypeOK
    <3>3. \A r \in Slots : calls'[r] # calls[r] =>
             /\ r = s
             /\ calls'[r].id = calls[s].id
             /\ calls'[r].cron = calls[s].cron
      BY <3>1, <1>2, BusyCall DEF Goto, InFlight, ServiceInv, TypeOK
    <3> QED
      BY <1>3, <3>2, <3>3 DEF CallsWritten, Backed
  <2> QED BY <2>1, <2>2
<1>6. RowsWritten
  BY DEF Unschedule, RowsWritten
<1> QED
  BY <1>1, <1>4, <1>5, <1>6, InvStep

LEMMA EraseRowInv ==
    ASSUME ServiceInv, NEW s \in Slots, EraseRow(s)
    PROVE  ServiceInv'
<1>1. TypeOK'
  BY EraseRowType DEF ServiceInv
<1>2. CallsWritten
  BY ReturnWritten DEF EraseRow, ServiceInv
<1>3. RowsWritten /\ ScheduledLess
  BY DEF EraseRow, DeleteRow, RowsWritten, ScheduledLess, ServiceInv, TypeOK,
     CloudTypeOK
<1> QED
  BY <1>1, <1>2, <1>3, InvStep

LEMMA RunEndInv ==
    ASSUME ServiceInv, NEW s \in Slots,
           \/ \E a \in Attempts : RunSend(s, a)
           \/ RunNotFound(s)
           \/ CallFails(s)
    PROVE  ServiceInv'
<1>1. TypeOK'
  BY RunSendType, EndType DEF ServiceInv
<1>2. CallsWritten
  BY ReturnWritten DEF RunSend, RunNotFound, CallFails, ServiceInv
<1>3. RowsWritten /\ ScheduledLess
  BY DEF RunSend, RunNotFound, CallFails, cloudVars, RowsWritten, ScheduledLess
<1> QED
  BY <1>1, <1>2, <1>3, InvStep

LEMMA EndpointAnswersInv ==
    ASSUME ServiceInv, NEW a \in Attempts, EndpointAnswers(a)
    PROVE  ServiceInv'
<1>1. TypeOK'
  BY AnsweredType
     DEF EndpointAnswers, ServiceInv, TypeOK, CloudTypeOK, serviceVars
<1>2. RowsWritten /\ CallsWritten /\ ScheduledLess
  BY DEF EndpointAnswers, Answered, DeleteTask, serviceVars, RowsWritten,
     CallsWritten, ScheduledLess, ServiceInv, TypeOK, CloudTypeOK
<1> QED
  BY <1>1, <1>2, InvStep

LEMMA DispatchDueInv ==
    ASSUME ServiceInv, NEW id \in Ids, NEW a \in Attempts, DispatchDue(id, a)
    PROVE  ServiceInv'
<1>1. TypeOK'
  BY DispatchDueType DEF ServiceInv
<1>2. RowsWritten /\ CallsWritten /\ ScheduledLess
  BY DEF DispatchDue, Due, serviceVars, RowsWritten, CallsWritten, ScheduledLess
<1> QED
  BY <1>1, <1>2, InvStep

-----------------------------------------------------------------------------
LEMMA InitInv == Init => ServiceInv
<1>1. Init => TypeOK
  BY InitType
<1> QED
  BY <1>1 DEF Init, CloudInit, Idle, ServiceInv, RowsBacked, CallsBacked,
     ErasingIsClean, UnissuedIsUnknown

LEMMA NextInv ==
    ASSUME TypesStable, ServiceInv, [Next]_vars
    PROVE  ServiceInv'
<1>1. ASSUME NEW s \in Clients, Start(s)
      PROVE  ServiceInv'
  <2>1. s \in Slots
    BY DEF Slots
  <2>2. PICK caller \in Identities, id \in Ids :
           \/ \E req \in Creates : CreateSchedule(s, caller, req, id)
           \/ \E u \in Updates : UpdateRead(s, caller, id, u.cron, u.mask)
           \/ DeleteRead(s, caller, id)
    BY <1>1 DEF Start
  <2>3. CASE \E req \in Creates : CreateSchedule(s, caller, req, id)
    BY <2>1, <2>3, CreateScheduleInv, RequestsAssumption
  <2>4. CASE \E u \in Updates : UpdateRead(s, caller, id, u.cron, u.mask)
    BY <2>1, <2>4, UpdateReadInv, RequestsAssumption DEF TypesStable
  <2>5. CASE DeleteRead(s, caller, id)
    BY <2>1, <2>5, ReadInv
  <2> QED BY <2>2, <2>3, <2>4, <2>5
<1>2. ASSUME NEW s \in Clients, StartRun(s)
      PROVE  ServiceInv'
  BY <1>2, ReadInv DEF StartRun, Slots
<1>3. ASSUME NEW s \in Clients, Proceed(s)
      PROVE  ServiceInv'
  BY <1>3, CreatePersistInv, UpdateWriteInv, UnscheduleInv, EraseRowInv,
     RunEndInv DEF Proceed, Slots
<1>4. ASSUME NEW s \in Clients, CallFails(s)
      PROVE  ServiceInv'
  BY <1>4, RunEndInv DEF Slots
<1>5. ASSUME NEW s \in Clients, NEW a \in Attempts, RunSend(s, a)
      PROVE  ServiceInv'
  BY <1>5, RunEndInv DEF Slots
<1>6. ASSUME NEW a \in Attempts, EndpointAnswers(a)
      PROVE  ServiceInv'
  BY <1>6, EndpointAnswersInv
<1>7. ASSUME NEW a \in Attempts, NEW id \in Ids, DispatchDue(id, a)
      PROVE  ServiceInv'
  BY <1>7, DispatchDueInv
<1>8. CASE UNCHANGED vars
  BY <1>8 DEF ServiceInv, RowsBacked, CallsBacked, ErasingIsClean, Backed,
     UnissuedIsUnknown, TypeOK, CloudTypeOK, vars, cloudVars, serviceVars
<1> QED
  BY <1>1, <1>2, <1>3, <1>4, <1>5, <1>6, <1>7, <1>8 DEF Next

(***************************************************************************)
(* The inductive invariant holds as long as no update request names the    *)
(* type of a cron.                                                         *)
(***************************************************************************)
THEOREM ServiceInvariant ==
    ASSUME TypesStable
    PROVE  Spec => []ServiceInv
BY InitInv, NextInv, PTL DEF Spec

-----------------------------------------------------------------------------
\* Which steps touch the table, and how.
LEMMA TableStep ==
    ASSUME TypeOK, [Next]_vars
    PROVE  \/ UNCHANGED table
           \/ \E s \in Clients : CreatePersist(s) \/ UpdateWrite(s) \/ EraseRow(s)
<1> USE DEF cloudVars, vars, serviceVars
<1> SUFFICES ASSUME Next PROVE
        \/ UNCHANGED table
        \/ \E s \in Clients : CreatePersist(s) \/ UpdateWrite(s) \/ EraseRow(s)
  OBVIOUS
<1>1. ASSUME NEW s \in Clients, Start(s) \/ StartRun(s)
      PROVE  UNCHANGED table
  BY <1>1 DEF Start, StartRun, CreateSchedule, UpdateRead, DeleteRead, RunRead
<1>2. ASSUME NEW s \in Clients, Unschedule(s) \/ RunNotFound(s) \/ CallFails(s)
      PROVE  UNCHANGED table
  BY <1>2 DEF Unschedule, RunNotFound, CallFails
<1>3. ASSUME NEW s \in Clients, NEW a \in Attempts, RunSend(s, a)
      PROVE  UNCHANGED table
  BY <1>3 DEF RunSend
<1>4. ASSUME NEW a \in Attempts,
             EndpointAnswers(a) \/ \E id \in Ids : DispatchDue(id, a)
      PROVE  UNCHANGED table
  BY <1>4 DEF EndpointAnswers, Answered, DispatchDue, Due
<1> QED
  BY <1>1, <1>2, <1>3, <1>4 DEF Next, Proceed

\* The row that disappears in a step has no job and no task left.
LEMMA ErasedRow ==
    ASSUME ServiceInv, [Next]_vars, NEW id \in Ids,
           table[id] # None, table'[id] = None
    PROVE  jobs[id] = None /\ tasks[id] = None
<1>1. PICK s \in Clients : CreatePersist(s) \/ UpdateWrite(s) \/ EraseRow(s)
  BY TableStep DEF ServiceInv
<1>2. s \in Slots
  BY DEF Slots
<1>3. CASE EraseRow(s)
  BY <1>2, <1>3
     DEF EraseRow, DeleteRow, ServiceInv, ErasingIsClean, TypeOK, CloudTypeOK
<1>4. CASE CreatePersist(s)
  <2>1. calls[s] \in InFlight
    BY <1>2, <1>4, BusyCall DEF CreatePersist, ServiceInv
  <2>2. [cron |-> calls[s].cron, policy |-> {calls[s].caller}] \in Row
    BY <2>1 DEF InFlight, Row
  <2> QED
    BY <1>4, <2>2, RowIsNotNone
       DEF CreatePersist, Insert, ServiceInv, TypeOK, CloudTypeOK
<1>5. CASE UpdateWrite(s)
  <2>1. calls[s] \in InFlight
    BY <1>2, <1>5, BusyCall DEF UpdateWrite, ServiceInv
  <2>2. id = calls[s].id
    BY <1>5 DEF UpdateWrite, UpdateRow, ServiceInv, TypeOK, CloudTypeOK
  <2>3. table[id] \in Row
    BY StoredRow DEF ServiceInv
  <2>4. [table[id] EXCEPT !.cron = calls[s].cron] \in Row
    BY <2>1, <2>3 DEF Row, InFlight
  <2> QED
    BY <1>5, <2>2, <2>4, RowIsNotNone
       DEF UpdateWrite, UpdateRow, ServiceInv, TypeOK, CloudTypeOK
<1> QED BY <1>1, <1>3, <1>4, <1>5

(***************************************************************************)
(* When DeleteCron erases a row, no job and no task of the cron is left,   *)
(* whatever failed before and whatever ran concurrently: provided no       *)
(* update request names the type.                                          *)
(***************************************************************************)
THEOREM DeleteIsComplete ==
    ASSUME TypesStable
    PROVE  Spec => DeleteLeavesNothing
<1>1. ServiceInv /\ [Next]_vars =>
         [\A id \in Ids : table[id] # None /\ table'[id] = None
                         => jobs[id] = None /\ tasks[id] = None]_vars
  BY ErasedRow
<1> QED
  BY <1>1, ServiceInvariant, PTL DEF Spec, DeleteLeavesNothing

(***************************************************************************)
(* A cron that was erased, or whose CreateCron failed, never comes back:   *)
(* rows are only written where one is stored, or by the CreateCron that    *)
(* drew the id.                                                            *)
(***************************************************************************)
THEOREM GoneStaysGone == Spec => NoResurrection
<1>1. ASSUME TypeOK, [Next]_vars, NEW id \in issued, table[id] = None,
             \A s \in Slots : ~Creating(s, id)
      PROVE  table'[id] = None
  <2>1. CASE UNCHANGED table
    BY <1>1, <2>1
  <2>2. ASSUME NEW s \in Clients,
               CreatePersist(s) \/ UpdateWrite(s) \/ EraseRow(s)
        PROVE  table'[id] = None
    <3>1. s \in Slots /\ id \in Ids
      BY <1>1 DEF Slots, TypeOK
    <3>2. CASE CreatePersist(s)
      BY <1>1, <3>1, <3>2 DEF CreatePersist, Insert, Creating, TypeOK, CloudTypeOK
    <3>3. CASE UpdateWrite(s)
      BY <1>1, <3>1, <3>3 DEF UpdateWrite, UpdateRow, TypeOK, CloudTypeOK
    <3>4. CASE EraseRow(s)
      BY <1>1, <3>1, <3>4 DEF EraseRow, DeleteRow, TypeOK, CloudTypeOK
    <3> QED BY <2>2, <3>2, <3>3, <3>4
  <2> QED BY <1>1, <2>1, <2>2, TableStep
<1>2. TypeOK /\ [Next]_vars =>
         [\A id \in issued :
             table[id] = None /\ (\A s \in Slots : ~Creating(s, id))
             => table'[id] = None]_vars
  BY <1>1
<1> QED
  BY <1>2, TypeCorrect, PTL DEF Spec, NoResurrection

-----------------------------------------------------------------------------
(***************************************************************************)
(* A step that neither schedules anything nor loses a creation in flight   *)
(* makes no orphan.                                                        *)
(***************************************************************************)
LEMMA OrphanStep ==
    ASSUME TypeOK, OrphanNeedsFault, ScheduledLess,
           faults' = faults \/ faults' = faults + 1,
           \A s \in Slots : calls[s].pc = "persist" => calls'[s] = calls[s],
           \A id \in Ids : table[id] # None /\ table'[id] = None
                          => jobs[id] = None /\ tasks[id] = None
    PROVE  OrphanNeedsFault'
<1> SUFFICES ASSUME NEW id \in Ids,
                    (jobs'[id] # None \/ tasks'[id] # None) /\ table'[id] = None,
                    ~(faults' > 0)
             PROVE  \E s \in Slots : Creating(s, id)'
  BY DEF OrphanNeedsFault
<1>1. faults \in Nat
  BY FaultsAssumption DEF TypeOK, CloudTypeOK
<1>2. table[id] = None /\ ~(faults > 0)
  BY <1>1 DEF ScheduledLess
<1>3. PICK s \in Slots : Creating(s, id)
  BY <1>2 DEF OrphanNeedsFault, ScheduledLess
<1> QED
  BY <1>3 DEF Creating

\* A slot that enters or returns leaves the other slots alone.
LEMMA OtherCalls ==
    ASSUME TypeOK, NEW s \in Slots, calls[s].pc # "persist",
           \/ \E pc, caller, id, cron, mask : Enter(s, pc, caller, id, cron, mask)
           \/ \E pc : Goto(s, pc)
           \/ Return(s)
           \/ UNCHANGED calls
    PROVE  \A r \in Slots : calls[r].pc = "persist" => calls'[r] = calls[r]
BY DEF Enter, Goto, Return, TypeOK

LEMMA CreateScheduleOrphan ==
    ASSUME TypeOK, OrphanNeedsFault, NEW s \in Slots, NEW caller \in Identities,
           NEW req \in Cron, NEW id \in Ids, CreateSchedule(s, caller, req, id)
    PROVE  OrphanNeedsFault'
<1> SUFFICES ASSUME NEW i \in Ids,
                    (jobs'[i] # None \/ tasks'[i] # None) /\ table'[i] = None
             PROVE  faults' > 0 \/ \E r \in Slots : Creating(r, i)'
  BY DEF OrphanNeedsFault
<1>1. PICK reply \in BOOLEAN :
          /\ Reply(reply)
          /\ IF reply
             THEN Enter(s, "persist", caller, id, NewCron(req, caller), {})
             ELSE UNCHANGED calls
  BY DEF CreateSchedule
<1>2. faults \in Nat
  BY FaultsAssumption DEF TypeOK, CloudTypeOK
<1>3. CASE ~reply
  BY <1>1, <1>2, <1>3 DEF Reply
<1>4. CASE reply /\ i = id
  BY <1>1, <1>4 DEF Enter, Creating, TypeOK
<1>5. CASE reply /\ i # id
  <2>1. (jobs[i] # None \/ tasks[i] # None) /\ table[i] = None
    BY <1>5 DEF CreateSchedule, CreateJob, CreateTask, TypeOK, CloudTypeOK
  <2>2. UNCHANGED faults
    BY <1>1, <1>5 DEF Reply
  <2>3. CASE faults > 0
    BY <2>2, <2>3
  <2>4. ASSUME NEW r \in Slots, Creating(r, i)
        PROVE  Creating(r, i)'
    BY <1>1, <1>5, <2>4 DEF CreateSchedule, Creating, Enter, TypeOK
  <2> QED BY <2>1, <2>3, <2>4 DEF OrphanNeedsFault
<1> QED BY <1>3, <1>4, <1>5

LEMMA CreatePersistOrphan ==
    ASSUME TypeOK, OrphanNeedsFault, NEW s \in Slots, CreatePersist(s)
    PROVE  OrphanNeedsFault'
<1> SUFFICES ASSUME NEW i \in Ids,
                    (jobs'[i] # None \/ tasks'[i] # None) /\ table'[i] = None
             PROVE  faults' > 0 \/ \E r \in Slots : Creating(r, i)'
  BY DEF OrphanNeedsFault
<1>1. calls[s] \in InFlight
  BY BusyCall DEF CreatePersist
<1>2. [cron |-> calls[s].cron, policy |-> {calls[s].caller}] # None
  BY <1>1, RowIsNotNone DEF InFlight, Row
<1>3. i # calls[s].id /\ table[i] = None
  BY <1>1, <1>2 DEF CreatePersist, Insert, InFlight, TypeOK, CloudTypeOK
<1>4. faults \in Nat /\ (faults' = faults \/ faults' = faults + 1)
  BY FaultsAssumption DEF CreatePersist, Reply, TypeOK, CloudTypeOK
<1>5. ASSUME NEW r \in Slots, Creating(r, i)
      PROVE  Creating(r, i)'
  BY <1>3, <1>5 DEF CreatePersist, Creating, Return, TypeOK
<1> QED
  BY <1>3, <1>4, <1>5 DEF OrphanNeedsFault, CreatePersist

LEMMA NextOrphan ==
    ASSUME TypesStable, ServiceInv, OrphanNeedsFault, [Next]_vars
    PROVE  OrphanNeedsFault'
<1> USE DEF ServiceInv
<1>1. faults \in Nat
  BY FaultsAssumption DEF TypeOK, CloudTypeOK
<1>2. \A id \in Ids : table[id] # None /\ table'[id] = None
                   => jobs[id] = None /\ tasks[id] = None
  BY ErasedRow
<1>3. ASSUME NEW s \in Clients, Start(s)
      PROVE  OrphanNeedsFault'
  <2>1. s \in Slots
    BY DEF Slots
  <2>2. PICK caller \in Identities, id \in Ids :
           \/ \E req \in Creates : CreateSchedule(s, caller, req, id)
           \/ \E u \in Updates : UpdateRead(s, caller, id, u.cron, u.mask)
           \/ DeleteRead(s, caller, id)
    BY <1>3 DEF Start
  <2>3. CASE \E req \in Creates : CreateSchedule(s, caller, req, id)
    BY <2>1, <2>3, CreateScheduleOrphan, RequestsAssumption
  <2>4. CASE \/ \E u \in Updates : UpdateRead(s, caller, id, u.cron, u.mask)
             \/ DeleteRead(s, caller, id)
    <3>1. \A r \in Slots : calls[r].pc = "persist" => calls'[r] = calls[r]
      BY <2>1, <2>4, OtherCalls DEF UpdateRead, DeleteRead
    <3>2. ScheduledLess /\ UNCHANGED faults
      BY <2>4 DEF UpdateRead, DeleteRead, ScheduledLess, cloudVars
    <3> QED BY <1>2, <3>1, <3>2, OrphanStep
  <2> QED BY <2>2, <2>3, <2>4
<1>4. ASSUME NEW s \in Clients, StartRun(s) \/ RunNotFound(s)
      PROVE  OrphanNeedsFault'
  <2>1. \A r \in Slots : calls[r].pc = "persist" => calls'[r] = calls[r]
    BY <1>4, OtherCalls DEF StartRun, RunRead, RunNotFound, Slots
  <2>2. ScheduledLess /\ UNCHANGED faults
    BY <1>4 DEF StartRun, RunRead, RunNotFound, ScheduledLess, cloudVars
  <2> QED BY <1>2, <2>1, <2>2, OrphanStep
<1>5. ASSUME NEW s \in Clients,
             \/ UpdateWrite(s) \/ Unschedule(s) \/ EraseRow(s)
             \/ \E a \in Attempts : RunSend(s, a)
      PROVE  OrphanNeedsFault'
  <2>1. \A r \in Slots : calls[r].pc = "persist" => calls'[r] = calls[r]
    BY <1>5, OtherCalls DEF UpdateWrite, Unschedule, EraseRow, RunSend, Slots
  <2>2. faults' = faults \/ faults' = faults + 1
    BY <1>5 DEF UpdateWrite, Unschedule, EraseRow, RunSend, Reply
  <2>3. ScheduledLess
    BY <1>5 DEF UpdateWrite, Unschedule, EraseRow, RunSend, ScheduledLess,
       DeleteJob, DeleteTask, TypeOK, CloudTypeOK
  <2> QED BY <1>2, <2>1, <2>2, <2>3, OrphanStep
<1>6. ASSUME NEW s \in Clients, CreatePersist(s)
      PROVE  OrphanNeedsFault'
  BY <1>6, CreatePersistOrphan DEF Slots
<1>7. ASSUME NEW s \in Clients, CallFails(s)
      PROVE  OrphanNeedsFault'
  BY <1>1, <1>7 DEF CallFails, Fault, OrphanNeedsFault
<1>8. ASSUME NEW a \in Attempts,
             EndpointAnswers(a) \/ \E id \in Ids : DispatchDue(id, a)
      PROVE  OrphanNeedsFault'
  <2>1. UNCHANGED <<calls, faults>> /\ ScheduledLess
    BY <1>8 DEF EndpointAnswers, Answered, DeleteTask, DispatchDue, Due,
       serviceVars, ScheduledLess, TypeOK, CloudTypeOK
  <2> QED BY <1>2, <2>1, OrphanStep
<1>9. CASE UNCHANGED vars
  BY <1>9 DEF OrphanNeedsFault, Creating, vars, cloudVars, serviceVars
<1> QED
  BY <1>3, <1>4, <1>5, <1>6, <1>7, <1>8, <1>9 DEF Next, Proceed

(***************************************************************************)
(* Without a failed remote call no interleaving of RPCs leaves a job or    *)
(* task that no cron accounts for, provided no update request names the    *)
(* type.                                                                   *)
(***************************************************************************)
THEOREM NoOrphans ==
    ASSUME TypesStable
    PROVE  Spec => []OrphanNeedsFault
<1>1. Init => OrphanNeedsFault
  BY DEF Init, CloudInit, OrphanNeedsFault
<1> QED
  BY <1>1, NextOrphan, ServiceInvariant, PTL DEF Spec
=============================================================================

------------------------------ MODULE RowProofs ------------------------------
(***************************************************************************)
(* Proofs about the rows of crons, for all clients, ids, requests and      *)
(* faults: only callers bound by a row's policy change it, and the table   *)
(* and the backing services agree.                                         *)
(***************************************************************************)
EXTENDS SchedulerServiceProofs

-----------------------------------------------------------------------------
(***************************************************************************)
(* CreatingIsAlone. Most steps start no call and insert no row: what is    *)
(* being created stays alone. It remains to look at a CreateCron drawing a *)
(* fresh id or inserting its row, and at an RPC that has read a row.       *)
(***************************************************************************)
CallsLess ==
    \A r \in Slots :
        \/ calls'[r] = calls[r]
        \/ calls'[r].pc = "idle"
        \/ /\ calls[r].pc = "unschedule"
           /\ calls'[r] = [calls[r] EXCEPT !.pc = "erase"]

RowsLess == \A id \in Ids : table[id] = None => table'[id] = None

LEMMA AloneLess ==
    ASSUME TypeOK, CreatingIsAlone, CallsLess, RowsLess
    PROVE  CreatingIsAlone'
<1>1. \A r \in Slots : calls'[r].pc \in {"idle", "erase"} \/ calls'[r] = calls[r]
  BY BusyCall DEF CallsLess, InFlight
<1>2. ASSUME NEW r \in Slots, calls'[r].pc # "idle"
      PROVE  calls[r].pc # "idle" /\ calls'[r].id = calls[r].id
  <2>1. CASE calls'[r] = calls[r]
    BY <1>2, <2>1
  <2>2. CASE /\ calls[r].pc = "unschedule"
             /\ calls'[r] = [calls[r] EXCEPT !.pc = "erase"]
    BY <2>2, BusyCall DEF InFlight
  <2> QED BY <1>2, <2>1, <2>2 DEF CallsLess
<1>3. ASSUME NEW s \in Slots, calls'[s].pc = "persist"
      PROVE  /\ table'[calls'[s].id] = None
             /\ \A r \in Slots \ {s} :
                   calls'[r].pc = "idle" \/ calls'[r].id # calls'[s].id
  <2>1. calls'[s] = calls[s] /\ calls[s].pc = "persist"
    BY <1>1, <1>3
  <2>2. calls[s].id \in Ids /\ table[calls[s].id] = None
    BY <2>1, BusyCall DEF CreatingIsAlone, InFlight
  <2> QED
    BY <1>2, <2>1, <2>2 DEF CreatingIsAlone, RowsLess
<1> QED
  BY <1>3 DEF CreatingIsAlone

\* An RPC that has read a row uses an id that is not being created.
LEMMA AloneEnter ==
    ASSUME TypeOK, CreatingIsAlone, NEW s \in Slots, NEW id \in Ids,
           table[id] # None, UNCHANGED table,
           \E caller, cron, mask : \E pc \in {"write", "unschedule", "erase", "run"} :
              Enter(s, pc, caller, id, cron, mask)
    PROVE  CreatingIsAlone'
<1>1. /\ calls'[s].pc # "persist" /\ calls'[s].id = id
      /\ \A r \in Slots \ {s} : calls'[r] = calls[r]
  BY DEF Enter, TypeOK
<1> QED
  BY <1>1 DEF CreatingIsAlone

LEMMA AloneCreate ==
    ASSUME ServiceInv, CreatingIsAlone, NEW s \in Slots, NEW caller \in Identities,
           NEW req \in Cron, NEW id \in Ids, CreateSchedule(s, caller, req, id)
    PROVE  CreatingIsAlone'
<1>1. /\ id \notin issued
      /\ UNCHANGED table
      /\ UNCHANGED calls \/ Enter(s, "persist", caller, id, NewCron(req, caller), {})
  BY DEF CreateSchedule
<1>2. table[id] = None /\ \A r \in Slots : calls[r].pc # "idle" => calls[r].id # id
  BY <1>1 DEF ServiceInv, UnissuedIsUnknown, CallsBacked
<1>3. CASE UNCHANGED calls
  BY <1>1, <1>3 DEF CreatingIsAlone
<1>4. CASE Enter(s, "persist", caller, id, NewCron(req, caller), {})
  <2>1. /\ calls'[s].pc = "persist" /\ calls'[s].id = id
        /\ \A r \in Slots \ {s} : calls'[r] = calls[r]
    BY <1>4 DEF Enter, ServiceInv, TypeOK
  <2> QED
    BY <1>1, <1>2, <2>1 DEF CreatingIsAlone
<1> QED BY <1>1, <1>3, <1>4

LEMMA AlonePersist ==
    ASSUME TypeOK, CreatingIsAlone, NEW s \in Slots, CreatePersist(s)
    PROVE  CreatingIsAlone'
<1>1. calls[s].pc = "persist" /\ calls[s].id \in Ids
  BY BusyCall DEF CreatePersist, InFlight
<1>2. /\ calls'[s].pc = "idle"
      /\ \A r \in Slots \ {s} : calls'[r] = calls[r]
      /\ \A id \in Ids \ {calls[s].id} : table'[id] = table[id]
  BY <1>1 DEF CreatePersist, Insert, Return, Idle, TypeOK, CloudTypeOK
<1>3. \A r \in Slots \ {s} : calls[r].pc = "persist"
         => calls[r].id \in Ids \ {calls[s].id}
  BY <1>1, BusyCall DEF CreatingIsAlone, InFlight
<1> QED
  BY <1>2, <1>3 DEF CreatingIsAlone

LEMMA NextAlone ==
    ASSUME ServiceInv, CreatingIsAlone, [Next]_vars
    PROVE  CreatingIsAlone'
<1> USE DEF ServiceInv
<1>1. ASSUME NEW s \in Clients, Start(s) \/ StartRun(s)
      PROVE  CreatingIsAlone'
  <2>1. s \in Slots
    BY DEF Slots
  <2>2. CASE \E caller \in Identities, id \in Ids, req \in Creates :
                CreateSchedule(s, caller, req, id)
    BY <2>1, <2>2, AloneCreate, RequestsAssumption
  <2>3. CASE \E caller \in Identities, id \in Ids :
                \/ \E u \in Updates : UpdateRead(s, caller, id, u.cron, u.mask)
                \/ DeleteRead(s, caller, id)
                \/ RunRead(s, caller, id)
    <3>1. PICK caller \in Identities, id \in Ids :
                \/ \E u \in Updates : UpdateRead(s, caller, id, u.cron, u.mask)
                \/ DeleteRead(s, caller, id)
                \/ RunRead(s, caller, id)
      BY <2>3
    <3>2. table[id] # None /\ UNCHANGED table
      BY <3>1 DEF UpdateRead, DeleteRead, RunRead, Readable, cloudVars
    <3>3. \E by, cron, mask : \E pc \in {"write", "unschedule", "erase", "run"} :
             Enter(s, pc, by, id, cron, mask)
      BY <3>1 DEF UpdateRead, DeleteRead, RunRead
    <3> QED BY <2>1, <3>2, <3>3, AloneEnter
  <2> QED BY <1>1, <2>2, <2>3 DEF Start, StartRun
<1>2. ASSUME NEW s \in Clients, CreatePersist(s)
      PROVE  CreatingIsAlone'
  BY <1>2, AlonePersist DEF Slots
<1>3. ASSUME NEW s \in Clients,
             \/ UpdateWrite(s) \/ Unschedule(s) \/ EraseRow(s) \/ RunNotFound(s)
             \/ CallFails(s) \/ \E a \in Attempts : RunSend(s, a)
      PROVE  CreatingIsAlone'
  <2>1. s \in Slots
    BY DEF Slots
  <2>2. CallsLess
    BY <1>3, <2>1 DEF UpdateWrite, Unschedule, EraseRow, RunNotFound, CallFails,
       RunSend, Goto, Return, Idle, CallsLess, TypeOK
  <2>3. RowsLess
    BY <1>3, <2>1, BusyCall DEF UpdateWrite, Unschedule, EraseRow, RunNotFound,
       CallFails, RunSend, cloudVars, UpdateRow, DeleteRow, RowsLess, InFlight,
       TypeOK, CloudTypeOK
  <2> QED BY <2>2, <2>3, AloneLess
<1>4. ASSUME NEW a \in Attempts,
             EndpointAnswers(a) \/ \E id \in Ids : DispatchDue(id, a)
      PROVE  CreatingIsAlone'
  BY <1>4 DEF EndpointAnswers, Answered, DispatchDue, Due, serviceVars,
     CreatingIsAlone
<1>5. CASE UNCHANGED vars
  BY <1>5 DEF CreatingIsAlone, vars, cloudVars, serviceVars
<1> QED
  BY <1>1, <1>2, <1>3, <1>4, <1>5 DEF Next, Proceed

-----------------------------------------------------------------------------
(***************************************************************************)
(* CallersAreBound. A row that stays keeps its policy, and a row is only   *)
(* inserted under an id no other RPC uses.                                 *)
(***************************************************************************)
PoliciesKept ==
    \A id \in Ids : table'[id] # None
                    => table[id] # None /\ table'[id].policy = table[id].policy

LEMMA BoundLess ==
    ASSUME TypeOK, CallersAreBound, CallsLess, PoliciesKept
    PROVE  CallersAreBound'
<1> SUFFICES ASSUME NEW s \in Slots,
                    calls'[s].pc \in {"write", "unschedule", "erase"},
                    table'[calls'[s].id] # None
             PROVE  calls'[s].caller \in table'[calls'[s].id].policy \cup {System}
  BY DEF CallersAreBound
<1>1. /\ calls[s].pc \in {"write", "unschedule", "erase"}
      /\ calls'[s].id = calls[s].id /\ calls'[s].caller = calls[s].caller
  <2>1. CASE calls'[s] = calls[s]
    BY <2>1
  <2>2. CASE /\ calls[s].pc = "unschedule"
             /\ calls'[s] = [calls[s] EXCEPT !.pc = "erase"]
    BY <2>2, BusyCall DEF InFlight
  <2> QED BY <2>1, <2>2 DEF CallsLess
<1>2. calls[s].id \in Ids
  BY <1>1, BusyCall DEF InFlight
<1> QED
  BY <1>1, <1>2 DEF CallersAreBound, PoliciesKept

LEMMA BoundEnter ==
    ASSUME TypeOK, CallersAreBound, NEW s \in Slots, UNCHANGED table,
           \A r \in Slots \ {s} : calls'[r] = calls[r],
           /\ calls'[s].pc \in {"write", "unschedule", "erase"}
           /\ table[calls'[s].id] # None
           => calls'[s].caller \in table[calls'[s].id].policy \cup {System}
    PROVE  CallersAreBound'
BY DEF CallersAreBound

LEMMA BoundPersist ==
    ASSUME TypeOK, CreatingIsAlone, CallersAreBound, NEW s \in Slots,
           CreatePersist(s)
    PROVE  CallersAreBound'
<1>1. calls[s].pc = "persist" /\ calls[s].id \in Ids
  BY BusyCall DEF CreatePersist, InFlight
<1>2. /\ calls'[s].pc = "idle"
      /\ \A r \in Slots \ {s} : calls'[r] = calls[r]
      /\ \A id \in Ids \ {calls[s].id} : table'[id] = table[id]
  BY <1>1 DEF CreatePersist, Insert, Return, Idle, TypeOK, CloudTypeOK
<1>3. \A r \in Slots \ {s} : calls[r].pc # "idle"
         => calls[r].id \in Ids \ {calls[s].id}
  BY <1>1, BusyCall DEF CreatingIsAlone, InFlight
<1> QED
  BY <1>2, <1>3 DEF CallersAreBound

\* The steps of an RPC in flight that is not a CreateCron.
LEMMA LaterSteps ==
    ASSUME TypeOK, NEW s \in Slots,
           \/ UpdateWrite(s) \/ Unschedule(s) \/ EraseRow(s) \/ RunNotFound(s)
           \/ CallFails(s) \/ \E a \in Attempts : RunSend(s, a)
    PROVE  CallsLess /\ PoliciesKept
<1>1. CallsLess
  BY DEF UpdateWrite, Unschedule, EraseRow, RunNotFound, CallFails, RunSend,
     Goto, Return, Idle, CallsLess, TypeOK
<1>2. ASSUME NEW id \in Ids, table'[id] # None
      PROVE  table[id] # None /\ table'[id].policy = table[id].policy
  <2>1. CASE ~UpdateWrite(s)
    BY <1>2, <2>1, BusyCall DEF Unschedule, EraseRow, RunNotFound, CallFails,
       RunSend, DeleteRow, cloudVars, InFlight, TypeOK, CloudTypeOK
  <2>2. CASE UpdateWrite(s)
    <3>1. calls[s].id \in Ids
      BY <2>2, BusyCall DEF UpdateWrite, InFlight
    <3>2. CASE id # calls[s].id
      BY <1>2, <2>2, <3>1, <3>2 DEF UpdateWrite, UpdateRow, TypeOK, CloudTypeOK
    <3>3. CASE id = calls[s].id
      <4>1. table[id] # None /\ table'[id] = [table[id] EXCEPT !.cron = calls[s].cron]
        BY <1>2, <2>2, <3>3 DEF UpdateWrite, UpdateRow, TypeOK, CloudTypeOK
      <4> QED BY <4>1, StoredRow DEF Row
    <3> QED BY <3>2, <3>3
  <2> QED BY <2>1, <2>2
<1> QED BY <1>1, <1>2 DEF PoliciesKept

LEMMA NextBound ==
    ASSUME AuthorityInv, [Next]_vars
    PROVE  CallersAreBound'
<1> USE DEF AuthorityInv, ServiceInv
<1>1. ASSUME NEW s \in Clients, Start(s) \/ StartRun(s)
      PROVE  CallersAreBound'
  <2>1. s \in Slots
    BY DEF Slots
  <2>2. CASE \E caller \in Identities, id \in Ids, req \in Creates :
                CreateSchedule(s, caller, req, id)
    <3>1. /\ UNCHANGED table
          /\ \A r \in Slots \ {s} : calls'[r] = calls[r]
          /\ calls'[s] = calls[s] \/ calls'[s].pc = "persist"
      BY <2>1, <2>2 DEF CreateSchedule, Enter, TypeOK
    <3>2. calls[s].pc = "idle"
      BY <2>2 DEF CreateSchedule
    <3> QED BY <2>1, <3>1, <3>2, BoundEnter
  <2>3. CASE \E caller \in Identities, id \in Ids :
                \/ \E u \in Updates : UpdateRead(s, caller, id, u.cron, u.mask)
                \/ DeleteRead(s, caller, id)
                \/ RunRead(s, caller, id)
    <3>1. PICK caller \in Identities, id \in Ids :
                \/ \E u \in Updates : UpdateRead(s, caller, id, u.cron, u.mask)
                \/ DeleteRead(s, caller, id)
                \/ RunRead(s, caller, id)
      BY <2>3
    <3>2. UNCHANGED table
      BY <3>1 DEF UpdateRead, DeleteRead, RunRead, cloudVars
    <3>3. caller \in table[id].policy \cup {System}
      BY <3>1 DEF UpdateRead, DeleteRead, RunRead, Readable, HasPermission,
         OpenPermissions
    <3>4. /\ calls'[s].id = id /\ calls'[s].caller = caller
          /\ \A r \in Slots \ {s} : calls'[r] = calls[r]
      BY <2>1, <3>1 DEF UpdateRead, DeleteRead, RunRead, Enter, TypeOK
    <3> QED BY <2>1, <3>2, <3>3, <3>4, BoundEnter
  <2> QED BY <1>1, <2>2, <2>3 DEF Start, StartRun
<1>2. ASSUME NEW s \in Clients, CreatePersist(s)
      PROVE  CallersAreBound'
  BY <1>2, BoundPersist DEF Slots
<1>3. ASSUME NEW s \in Clients,
             \/ UpdateWrite(s) \/ Unschedule(s) \/ EraseRow(s) \/ RunNotFound(s)
             \/ CallFails(s) \/ \E a \in Attempts : RunSend(s, a)
      PROVE  CallersAreBound'
  BY <1>3, LaterSteps, BoundLess DEF Slots
<1>4. ASSUME NEW a \in Attempts,
             EndpointAnswers(a) \/ \E id \in Ids : DispatchDue(id, a)
      PROVE  CallersAreBound'
  BY <1>4 DEF EndpointAnswers, Answered, DispatchDue, Due, serviceVars,
     CallersAreBound
<1>5. CASE UNCHANGED vars
  BY <1>5 DEF CallersAreBound, vars, cloudVars, serviceVars
<1> QED
  BY <1>1, <1>2, <1>3, <1>4, <1>5 DEF Next, Proceed

LEMMA NextAuthority ==
    ASSUME TypesStable, AuthorityInv, [Next]_vars
    PROVE  AuthorityInv'
BY NextInv, NextAlone, NextBound DEF AuthorityInv

LEMMA InitAuthority == Init => AuthorityInv
BY InitInv DEF Init, Idle, AuthorityInv, CreatingIsAlone, CallersAreBound

\* If no update request names the type, AuthorityInv holds in every state.
THEOREM AuthorityInvariant ==
    ASSUME TypesStable
    PROVE  Spec => []AuthorityInv
BY InitAuthority, NextAuthority, PTL DEF Spec

(***************************************************************************)
(* If no update request names the type, a stored cron is changed or erased *)
(* only by an RPC whose caller the row's policy binds, or by the system,   *)
(* and its policy never changes: the permission checked on the row read   *)
(* still stands when the write lands.                                      *)
(***************************************************************************)
THEOREM OnlyAuthorizedWrites ==
    ASSUME TypesStable
    PROVE  Spec => AuthorizedWrites
<1>1. ASSUME AuthorityInv, [Next]_vars, NEW id \in Ids,
             table[id] # None, table'[id] # table[id]
      PROVE  /\ \E s \in Slots :
                   /\ calls[s].pc \in {"write", "erase"}
                   /\ calls[s].id = id
                   /\ calls[s].caller \in table[id].policy \cup {System}
             /\ table'[id] # None => table'[id].policy = table[id].policy
  <2>1. TypeOK
    BY <1>1 DEF AuthorityInv, ServiceInv
  <2>2. PICK s \in Clients : CreatePersist(s) \/ UpdateWrite(s) \/ EraseRow(s)
    BY <1>1, <2>1, TableStep
  <2>3. s \in Slots
    BY DEF Slots
  <2>4. id = calls[s].id
    BY <1>1, <2>1, <2>2 DEF CreatePersist, Insert, UpdateWrite, UpdateRow,
       EraseRow, DeleteRow, TypeOK, CloudTypeOK
  <2>5. ~CreatePersist(s)
    BY <1>1, <2>3, <2>4 DEF CreatePersist, AuthorityInv, CreatingIsAlone
  <2>6. calls[s].pc \in {"write", "erase"}
    BY <2>2, <2>5 DEF UpdateWrite, EraseRow
  <2>7. PoliciesKept
    BY <2>1, <2>2, <2>3, <2>5, LaterSteps
  <2> QED
    BY <1>1, <2>3, <2>4, <2>6, <2>7 DEF AuthorityInv, CallersAreBound, PoliciesKept
<1>2. AuthorityInv /\ [Next]_vars =>
         [\A id \in Ids :
             table[id] # None /\ table'[id] # table[id]
             => /\ \E s \in Slots :
                      /\ calls[s].pc \in {"write", "erase"}
                      /\ calls[s].id = id
                      /\ calls[s].caller \in table[id].policy \cup {System}
                /\ table'[id] # None => table'[id].policy = table[id].policy]_vars
  BY <1>1
<1> QED
  BY <1>2, AuthorityInvariant, PTL DEF Spec, AuthorizedWrites


-----------------------------------------------------------------------------
(***************************************************************************)
(* TimingInv. An RPC that neither draws an id nor reads a row for an       *)
(* update starts no call that has to be checked, leaves the jobs of        *)
(* crons being created alone, and keeps the type and schedule of rows.     *)
(***************************************************************************)
CreationsLeft ==
    \A s \in Slots :
        calls'[s].pc = "persist"
        => LET id == calls[s].id
           IN  /\ calls'[s] = calls[s]
               /\ jobs'[id] = jobs[id]
               /\ tasks'[id] \in {tasks[id], None}

WritesLeft == \A s \in Slots : calls'[s].pc = "write" => calls'[s] = calls[s]

SameTiming(id) ==
    /\ table[id] # None
    /\ table'[id].cron.type = table[id].cron.type
    /\ table'[id].cron.schedule = table[id].cron.schedule

LEMMA CreationsStep ==
    ASSUME CreatingIsScheduled, CreationsLeft
    PROVE  CreatingIsScheduled'
BY DEF CreatingIsScheduled, CreationsLeft

LEMMA WritesStep ==
    ASSUME TypeOK, WritesKeepTiming, WritesLeft,
           \A s \in Slots : LET id == calls[s].id
                            IN  calls'[s].pc = "write" /\ table'[id] # None
                                => SameTiming(id)
    PROVE  WritesKeepTiming'
BY DEF WritesKeepTiming, WritesLeft, SameTiming

LEMMA TimingCreate ==
    ASSUME TimingInv, NEW s \in Slots, NEW caller \in Identities,
           NEW req \in Cron, NEW id \in Ids, CreateSchedule(s, caller, req, id)
    PROVE  CreatingIsScheduled' /\ WritesKeepTiming'
<1> USE DEF TimingInv, AuthorityInv, ServiceInv
<1>1. /\ id \notin issued
      /\ UNCHANGED table
      /\ UNCHANGED calls \/ Enter(s, "persist", caller, id, NewCron(req, caller), {})
      /\ jobs[id] = None /\ tasks[id] = None
  BY DEF CreateSchedule, UnissuedIsUnknown
<1>2. \A i \in Ids \ {id} : jobs'[i] = jobs[i] /\ tasks'[i] = tasks[i]
  BY DEF CreateSchedule, CreateJob, CreateTask, TypeOK, CloudTypeOK
<1>3. \A r \in Slots : calls[r].pc # "idle" => calls[r].id \in Ids \ {id}
  BY <1>1, BusyCall DEF CallsBacked, InFlight
<1>4. \A r \in Slots :
         \/ calls'[r] = calls[r]
         \/ /\ calls'[r].pc = "persist"
            /\ calls'[r].id = id
            /\ calls'[r].cron = NewCron(req, caller)
  BY <1>1 DEF Enter, TypeOK
<1>5. /\ NewCron(req, caller).type = req.type
      /\ NewCron(req, caller).schedule = req.schedule
  BY DEF NewCron, Cron
<1>6. /\ req.type = "TYPE_CRON" => jobs'[id] = req.schedule
      /\ tasks'[id] \in {None, req.schedule}
  BY <1>1 DEF CreateSchedule, CreateJob, CreateTask, TypeOK, CloudTypeOK
<1>7. CreatingIsScheduled'
  BY <1>2, <1>3, <1>4, <1>5, <1>6 DEF CreatingIsScheduled
<1>8. WritesKeepTiming'
  BY <1>1, <1>4 DEF WritesKeepTiming
<1> QED BY <1>7, <1>8

LEMMA TimingPersist ==
    ASSUME TimingInv, NEW s \in Slots, CreatePersist(s)
    PROVE  CreatingIsScheduled' /\ WritesKeepTiming'
<1> USE DEF TimingInv, AuthorityInv, ServiceInv
<1>1. calls[s].pc = "persist" /\ calls[s].id \in Ids
  BY BusyCall DEF CreatePersist, InFlight
<1>2. /\ calls'[s].pc = "idle"
      /\ \A r \in Slots \ {s} : calls'[r] = calls[r]
      /\ \A id \in Ids \ {calls[s].id} : table'[id] = table[id]
      /\ UNCHANGED <<jobs, tasks>>
  BY <1>1 DEF CreatePersist, Insert, Return, Idle, TypeOK, CloudTypeOK
<1>3. CreatingIsScheduled'
  BY <1>2, CreationsStep DEF CreationsLeft
<1>4. \A r \in Slots \ {s} : calls[r].pc = "write"
         => calls[r].id \in Ids \ {calls[s].id}
  BY <1>1, BusyCall DEF CreatingIsAlone, InFlight
<1>5. WritesKeepTiming'
  BY <1>2, <1>4 DEF WritesKeepTiming
<1> QED BY <1>3, <1>5

LEMMA TimingRead ==
    ASSUME TimingInv, NEW s \in Slots, NEW caller \in Identities, NEW id \in Ids,
           \/ \E update \in Cron, mask \in SUBSET Paths :
                 /\ mask \cap {"type", "schedule"} = {}
                 /\ UpdateRead(s, caller, id, update, mask)
           \/ DeleteRead(s, caller, id)
           \/ RunRead(s, caller, id)
    PROVE  CreatingIsScheduled' /\ WritesKeepTiming'
<1> USE DEF TimingInv, AuthorityInv, ServiceInv
<1>1. UNCHANGED <<table, jobs, tasks>>
  BY DEF UpdateRead, DeleteRead, RunRead, cloudVars
<1>2. /\ calls'[s].pc # "persist"
      /\ \A r \in Slots \ {s} : calls'[r] = calls[r]
  BY DEF UpdateRead, DeleteRead, RunRead, Enter, TypeOK
<1>3. CreatingIsScheduled'
  BY <1>1, <1>2, CreationsStep DEF CreationsLeft
<1>4. calls'[s].pc = "write"
      => /\ calls'[s].id = id
         /\ calls'[s].cron.type = table[id].cron.type
         /\ calls'[s].cron.schedule = table[id].cron.schedule
  <2>1. CASE DeleteRead(s, caller, id) \/ RunRead(s, caller, id)
    BY <2>1 DEF DeleteRead, RunRead, Enter, TypeOK
  <2>2. ASSUME NEW update \in Cron, NEW mask \in SUBSET Paths,
               mask \cap {"type", "schedule"} = {},
               UpdateRead(s, caller, id, update, mask)
        PROVE  /\ calls'[s].id = id
               /\ calls'[s].cron.type = table[id].cron.type
               /\ calls'[s].cron.schedule = table[id].cron.schedule
    <3>1. /\ calls'[s].id = id
          /\ calls'[s].cron = ApplyMask(table[id].cron, update, mask)
      BY <2>2 DEF UpdateRead, Enter, TypeOK
    <3> QED BY <2>2, <3>1 DEF ApplyMask, Masked
  <2> QED BY <2>1, <2>2
<1>5. WritesKeepTiming'
  BY <1>1, <1>2, <1>4 DEF WritesKeepTiming
<1> QED BY <1>3, <1>5

\* The remaining steps start no RPC.
LEMMA TimingLater ==
    ASSUME TimingInv, NEW s \in Slots,
           \/ UpdateWrite(s) \/ Unschedule(s) \/ EraseRow(s) \/ RunNotFound(s)
           \/ CallFails(s) \/ \E a \in Attempts : RunSend(s, a)
    PROVE  CreatingIsScheduled' /\ WritesKeepTiming'
<1> USE DEF TimingInv, AuthorityInv, ServiceInv
<1>1. \A r \in Slots : calls'[r].pc \in {"persist", "write"} =>
         r # s /\ calls'[r] = calls[r]
  BY BusyCall DEF UpdateWrite, Unschedule, EraseRow, RunNotFound, CallFails,
     RunSend, Goto, Return, Idle, InFlight, TypeOK
<1>2. calls[s].pc # "idle" /\ calls[s] \in InFlight
  BY BusyCall DEF UpdateWrite, Unschedule, EraseRow, RunNotFound, CallFails, RunSend
<1>3. \A r \in Slots : calls'[r].pc = "persist" => calls[r].id \in Ids \ {calls[s].id}
  BY <1>1, <1>2, BusyCall DEF CreatingIsAlone, InFlight
<1>4. \A id \in Ids \ {calls[s].id} : jobs'[id] = jobs[id] /\ tasks'[id] = tasks[id]
  BY <1>2 DEF UpdateWrite, Unschedule, EraseRow, RunNotFound, CallFails, RunSend,
     DeleteJob, DeleteTask, cloudVars, TypeOK, CloudTypeOK
<1>5. CreatingIsScheduled'
  BY <1>1, <1>3, <1>4, CreationsStep DEF CreationsLeft
<1>6. ASSUME NEW id \in Ids, table'[id] # None
      PROVE  SameTiming(id)
  <2>1. CASE ~UpdateWrite(s)
    BY <1>2, <1>6, <2>1 DEF Unschedule, EraseRow, RunNotFound, CallFails, RunSend,
       DeleteRow, cloudVars, SameTiming, TypeOK, CloudTypeOK
  <2>2. CASE UpdateWrite(s) /\ id # calls[s].id
    BY <1>2, <1>6, <2>2 DEF UpdateWrite, UpdateRow, SameTiming, TypeOK, CloudTypeOK
  <2>3. CASE UpdateWrite(s) /\ id = calls[s].id
    <3>1. table[id] # None /\ UpdateRow(id, calls[s].cron)
      BY <1>6, <2>3 DEF UpdateWrite
    <3>2. table'[id].cron = calls[s].cron
      BY <3>1, StoredRow DEF UpdateRow, Row, TypeOK, CloudTypeOK
    <3> QED
      BY <2>3, <3>1, <3>2 DEF UpdateWrite, WritesKeepTiming, SameTiming
  <2> QED BY <2>1, <2>2, <2>3
<1>7. \A r \in Slots : calls'[r].pc = "write" => calls[r].id \in Ids
  BY <1>1, BusyCall DEF InFlight
<1>8. WritesKeepTiming'
  BY <1>1, <1>6, <1>7, WritesStep DEF WritesLeft
<1> QED BY <1>5, <1>8

LEMMA StableTypes == TimingStable => TypesStable
BY DEF TimingStable, TypesStable

LEMMA NextTiming ==
    ASSUME TimingStable, TimingInv, [Next]_vars
    PROVE  TimingInv'
<1>1. AuthorityInv'
  BY StableTypes, NextAuthority DEF TimingInv
<1>2. ASSUME NEW s \in Clients, Start(s) \/ StartRun(s)
      PROVE  CreatingIsScheduled' /\ WritesKeepTiming'
  <2>1. s \in Slots
    BY DEF Slots
  <2>2. CASE \E caller \in Identities, id \in Ids, req \in Creates :
                CreateSchedule(s, caller, req, id)
    BY <2>1, <2>2, TimingCreate, RequestsAssumption
  <2>3. CASE \E caller \in Identities, id \in Ids :
                \/ \E u \in Updates : UpdateRead(s, caller, id, u.cron, u.mask)
                \/ DeleteRead(s, caller, id)
                \/ RunRead(s, caller, id)
    BY <2>1, <2>3, TimingRead, RequestsAssumption DEF TimingStable
  <2> QED BY <1>2, <2>2, <2>3 DEF Start, StartRun
<1>3. ASSUME NEW s \in Clients,
             Proceed(s) \/ CallFails(s) \/ \E a \in Attempts : RunSend(s, a)
      PROVE  CreatingIsScheduled' /\ WritesKeepTiming'
  BY <1>3, TimingPersist, TimingLater DEF Proceed, Slots
<1>4. ASSUME NEW a \in Attempts,
             EndpointAnswers(a) \/ \E id \in Ids : DispatchDue(id, a)
      PROVE  CreatingIsScheduled' /\ WritesKeepTiming'
  <2>1. /\ UNCHANGED <<calls, table, jobs>>
        /\ \A id \in Ids : tasks'[id] \in {tasks[id], None}
    BY <1>4 DEF EndpointAnswers, Answered, DeleteTask, DispatchDue, Due,
       serviceVars, TimingInv, AuthorityInv, ServiceInv, TypeOK, CloudTypeOK
  <2>2. \A s \in Slots : calls[s].pc = "persist" => calls[s].id \in Ids
    BY BusyCall DEF TimingInv, AuthorityInv, ServiceInv, InFlight
  <2>3. CreatingIsScheduled'
    BY <2>1, <2>2, CreationsStep DEF CreationsLeft, TimingInv
  <2> QED
    BY <2>1, <2>3 DEF TimingInv, WritesKeepTiming
<1>5. ASSUME UNCHANGED vars
      PROVE  CreatingIsScheduled' /\ WritesKeepTiming'
  BY <1>5 DEF TimingInv, CreatingIsScheduled, WritesKeepTiming, vars, cloudVars,
     serviceVars
<1>6. CreatingIsScheduled' /\ WritesKeepTiming'
  BY <1>2, <1>3, <1>4, <1>5 DEF Next
<1> QED
  BY <1>1, <1>6 DEF TimingInv

(***************************************************************************)
(* If no update request names the type or the schedule, a CreateCron in    *)
(* flight is alone with its id and inserts the schedule its job has, and   *)
(* an UpdateCron in flight writes back the row's own type and schedule.    *)
(***************************************************************************)
THEOREM TimingInvariant ==
    ASSUME TimingStable
    PROVE  Spec => []TimingInv
<1>1. Init => TimingInv
  BY InitAuthority DEF Init, Idle, TimingInv, CreatingIsScheduled, WritesKeepTiming
<1> QED
  BY <1>1, NextTiming, PTL DEF Spec

-----------------------------------------------------------------------------
(***************************************************************************)
(* Synchronized, one id at a time. Between, an RPC is between its two      *)
(* effects on the cron.                                                    *)
(***************************************************************************)
Agree(id) ==
    /\ jobs[id] = ScheduleOf(id, "TYPE_CRON")
    /\ tasks[id] \in {None, ScheduleOf(id, "TYPE_AT")}

Between(s, id) == Creating(s, id) \/ Erasing(s, id)

InSync(id) == Agree(id) \/ faults > 0 \/ \E s \in Slots : Between(s, id)

LEMMA SynchronizedIds == Synchronized <=> \A id \in Ids : InSync(id)
BY DEF Synchronized, InSync, Agree, Between

\* A step that leaves the timing of id alone, and every RPC that is between its
\* effects on it, keeps it in sync.
LEMMA SyncKept ==
    ASSUME TypeOK, NEW id \in Ids, InSync(id),
           faults' = faults \/ faults' = faults + 1,
           jobs'[id] = jobs[id], tasks'[id] \in {tasks[id], None},
           \/ table'[id] = table[id]
           \/ table'[id] # None /\ SameTiming(id),
           \A s \in Slots : Between(s, id) => calls'[s] = calls[s]
    PROVE  InSync(id)'
<1>1. faults \in Nat
  BY FaultsAssumption DEF TypeOK, CloudTypeOK
<1>2. CASE faults > 0
  BY <1>1, <1>2 DEF InSync
<1>3. CASE \E s \in Slots : Between(s, id)
  BY <1>3 DEF InSync, Between, Creating, Erasing
<1>4. CASE Agree(id)
  BY <1>4 DEF InSync, Agree, ScheduleOf, SameTiming
<1> QED BY <1>2, <1>3, <1>4 DEF InSync

\* An RPC at one id is not between its effects on another.
LEMMA BetweenOwn ==
    ASSUME NEW s \in Slots, NEW id \in Ids, id # calls[s].id,
           \A r \in Slots \ {s} : calls'[r] = calls[r]
    PROVE  \A r \in Slots : Between(r, id) => calls'[r] = calls[r]
BY DEF Between, Creating, Erasing

LEMMA SyncCreate ==
    ASSUME TimingInv, Synchronized, NEW s \in Slots, NEW caller \in Identities,
           NEW req \in Cron, NEW id \in Ids, CreateSchedule(s, caller, req, id)
    PROVE  Synchronized'
<1> USE DEF TimingInv, AuthorityInv, ServiceInv
<1>1. faults' = faults \/ faults' = faults + 1
  BY DEF CreateSchedule, Reply
<1>2. InSync(id)'
  <2>1. PICK reply \in BOOLEAN :
          /\ Reply(reply)
          /\ reply => Enter(s, "persist", caller, id, NewCron(req, caller), {})
    BY DEF CreateSchedule
  <2>2. CASE reply
    BY <2>1, <2>2 DEF Enter, InSync, Between, Creating, TypeOK
  <2>3. CASE ~reply
    BY <2>1, <2>3, FaultsAssumption DEF Reply, InSync, TypeOK, CloudTypeOK
  <2> QED BY <2>2, <2>3
<1>3. ASSUME NEW i \in Ids \ {id}
      PROVE  InSync(i)'
  <2>1. /\ table'[i] = table[i] /\ jobs'[i] = jobs[i] /\ tasks'[i] = tasks[i]
        /\ \A r \in Slots : Between(r, i) => calls'[r] = calls[r]
    BY DEF CreateSchedule, CreateJob, CreateTask, Enter, Between, Creating,
       Erasing, TypeOK, CloudTypeOK
  <2> QED BY <1>1, <2>1, SyncKept, SynchronizedIds
<1> QED BY <1>2, <1>3 DEF Synchronized, InSync, Agree, Between

LEMMA SyncPersist ==
    ASSUME TimingInv, Synchronized, NEW s \in Slots, CreatePersist(s)
    PROVE  Synchronized'
<1> USE DEF TimingInv, AuthorityInv, ServiceInv
<1>1. PICK id \in Ids :
         /\ calls[s] \in InFlight /\ calls[s].pc = "persist" /\ calls[s].id = id
         /\ Backed(calls[s].cron.type, id)
  BY BusyBacked DEF CreatePersist
<1>2. /\ faults' = faults \/ faults' = faults + 1
      /\ UNCHANGED <<jobs, tasks>>
  BY DEF CreatePersist, Reply
<1>3. InSync(id)'
  <2>1. table'[id] # None /\ table'[id].cron = calls[s].cron
    <3>1. [cron |-> calls[s].cron, policy |-> {calls[s].caller}] \in Row
      BY <1>1 DEF InFlight, Row
    <3> QED BY <1>1, <3>1, RowIsNotNone DEF CreatePersist, Insert, TypeOK, CloudTypeOK
  <2> QED
    BY <1>1, <1>2, <2>1 DEF CreatingIsScheduled, Backed, InSync, Agree, ScheduleOf
<1>4. ASSUME NEW i \in Ids \ {id}
      PROVE  InSync(i)'
  <2>1. /\ table'[i] = table[i]
        /\ \A r \in Slots \ {s} : calls'[r] = calls[r]
    BY <1>1 DEF CreatePersist, Insert, Return, TypeOK, CloudTypeOK
  <2> QED BY <1>1, <1>2, <2>1, BetweenOwn, SyncKept, SynchronizedIds
<1> QED BY <1>3, <1>4 DEF Synchronized, InSync, Agree, Between

LEMMA SyncUnschedule ==
    ASSUME TimingInv, Synchronized, NEW s \in Slots, Unschedule(s)
    PROVE  Synchronized'
<1> USE DEF TimingInv, AuthorityInv, ServiceInv
<1>1. PICK id \in Ids :
         calls[s] \in InFlight /\ calls[s].pc = "unschedule" /\ calls[s].id = id
  BY BusyBacked DEF Unschedule
<1>2. faults' = faults \/ faults' = faults + 1
  BY DEF Unschedule, Reply
<1>3. \A r \in Slots \ {s} : calls'[r] = calls[r]
  BY DEF Unschedule, Goto, Return, TypeOK
<1>4. InSync(id)'
  <2>1. CASE Goto(s, "erase")
    BY <1>1, <2>1 DEF Goto, InFlight, InSync, Between, Erasing, TypeOK
  <2>2. CASE faults' = faults + 1
    BY <2>2, FaultsAssumption DEF InSync, TypeOK, CloudTypeOK
  <2>3. CASE UNCHANGED <<jobs, tasks>> /\ Return(s)
    <3>1. \A r \in Slots : Between(r, id) => calls'[r] = calls[r]
      BY <1>1, <1>3 DEF Between, Creating, Erasing
    <3> QED
      BY <1>1, <1>2, <2>3, <3>1, SyncKept, SynchronizedIds DEF Unschedule
  <2> QED BY <2>1, <2>2, <2>3 DEF Unschedule, Reply
<1>5. ASSUME NEW i \in Ids \ {id}
      PROVE  InSync(i)'
  <2>1. table'[i] = table[i] /\ jobs'[i] = jobs[i] /\ tasks'[i] = tasks[i]
    BY <1>1 DEF Unschedule, DeleteJob, DeleteTask, TypeOK, CloudTypeOK
  <2> QED BY <1>1, <1>2, <1>3, <2>1, BetweenOwn, SyncKept, SynchronizedIds
<1> QED BY <1>4, <1>5 DEF Synchronized, InSync, Agree, Between

LEMMA SyncErase ==
    ASSUME TimingInv, Synchronized, NEW s \in Slots, EraseRow(s)
    PROVE  Synchronized'
<1> USE DEF TimingInv, AuthorityInv, ServiceInv
<1>1. PICK id \in Ids :
         calls[s] \in InFlight /\ calls[s].pc = "erase" /\ calls[s].id = id
  BY BusyBacked DEF EraseRow
<1>2. /\ faults' = faults \/ faults' = faults + 1
      /\ UNCHANGED <<jobs, tasks>>
      /\ \A r \in Slots \ {s} : calls'[r] = calls[r]
  BY DEF EraseRow, Reply, Return, TypeOK
<1>3. InSync(id)'
  BY <1>1, <1>2 DEF EraseRow, DeleteRow, ErasingIsClean, InSync, Agree,
     ScheduleOf, TypeOK, CloudTypeOK
<1>4. ASSUME NEW i \in Ids \ {id}
      PROVE  InSync(i)'
  <2>1. table'[i] = table[i]
    BY <1>1 DEF EraseRow, DeleteRow, TypeOK, CloudTypeOK
  <2> QED BY <1>1, <1>2, <2>1, BetweenOwn, SyncKept, SynchronizedIds
<1> QED BY <1>3, <1>4 DEF Synchronized, InSync, Agree, Between

\* Steps that change no job, and a row only within its timing.
LEMMA SyncElse ==
    ASSUME TimingInv, Synchronized,
           faults' = faults \/ faults' = faults + 1,
           UNCHANGED jobs,
           \A id \in Ids : tasks'[id] \in {tasks[id], None},
           \A id \in Ids : table'[id] # table[id]
                          => table'[id] # None /\ SameTiming(id),
           \A s \in Slots : calls[s].pc \in {"persist", "erase"}
                            => calls'[s] = calls[s]
    PROVE  Synchronized'
<1>1. ASSUME NEW id \in Ids
      PROVE  InSync(id)'
  <2>1. \A s \in Slots : Between(s, id) => calls'[s] = calls[s]
    BY DEF Between, Creating, Erasing
  <2> QED BY <2>1, SyncKept, SynchronizedIds DEF TimingInv, AuthorityInv, ServiceInv
<1> QED BY <1>1 DEF Synchronized, InSync, Agree, Between

LEMMA SyncWrite ==
    ASSUME TimingInv, Synchronized, NEW s \in Slots, UpdateWrite(s)
    PROVE  Synchronized'
<1> USE DEF TimingInv, AuthorityInv, ServiceInv
<1>1. calls[s] \in InFlight /\ calls[s].pc = "write" /\ calls[s].id \in Ids
  BY BusyBacked DEF UpdateWrite
<1>2. ASSUME NEW id \in Ids
      PROVE  table'[id] # table[id] => table'[id] # None /\ SameTiming(id)
  <2>1. CASE id # calls[s].id
    BY <1>1, <2>1 DEF UpdateWrite, UpdateRow, TypeOK, CloudTypeOK
  <2>2. CASE id = calls[s].id /\ table[id] # None
    <3>1. [table[id] EXCEPT !.cron = calls[s].cron] \in Row
      BY <1>1, <2>2, StoredRow DEF Row, InFlight
    <3>2. table'[id] = [table[id] EXCEPT !.cron = calls[s].cron]
      BY <2>2 DEF UpdateWrite, UpdateRow, TypeOK, CloudTypeOK
    <3>3. table'[id].cron = calls[s].cron
      BY <2>2, <3>2, StoredRow DEF Row
    <3> QED
      BY <1>1, <2>2, <3>1, <3>2, <3>3, RowIsNotNone DEF WritesKeepTiming, SameTiming
  <2>3. CASE id = calls[s].id /\ table[id] = None
    BY <2>3 DEF UpdateWrite
  <2> QED BY <2>1, <2>2, <2>3
<1>3. /\ faults' = faults \/ faults' = faults + 1
      /\ UNCHANGED <<jobs, tasks>>
      /\ \A r \in Slots : calls[r].pc \in {"persist", "erase"} => calls'[r] = calls[r]
  BY <1>1 DEF UpdateWrite, Reply, Return, TypeOK
<1> QED BY <1>2, <1>3, SyncElse

LEMMA NextSync ==
    ASSUME TimingInv, Synchronized, [Next]_vars
    PROVE  Synchronized'
<1> USE DEF TimingInv, AuthorityInv, ServiceInv
<1>1. ASSUME NEW s \in Clients, Start(s) \/ StartRun(s)
      PROVE  Synchronized'
  <2>1. s \in Slots
    BY DEF Slots
  <2>2. CASE \E caller \in Identities, id \in Ids, req \in Creates :
                CreateSchedule(s, caller, req, id)
    BY <2>1, <2>2, SyncCreate, RequestsAssumption
  <2>3. CASE \E caller \in Identities, id \in Ids :
                \/ \E u \in Updates : UpdateRead(s, caller, id, u.cron, u.mask)
                \/ DeleteRead(s, caller, id)
                \/ RunRead(s, caller, id)
    <3>1. /\ UNCHANGED <<table, jobs, tasks, faults>>
          /\ \A r \in Slots : calls[r].pc \in {"persist", "erase"}
                              => calls'[r] = calls[r]
      BY <2>1, <2>3 DEF UpdateRead, DeleteRead, RunRead, Enter, cloudVars, TypeOK
    <3> QED BY <3>1, SyncElse DEF SameTiming
  <2> QED BY <1>1, <2>2, <2>3 DEF Start, StartRun
<1>2. ASSUME NEW s \in Clients, Proceed(s) /\ ~RunNotFound(s)
      PROVE  Synchronized'
  BY <1>2, SyncPersist, SyncWrite, SyncUnschedule, SyncErase DEF Proceed, Slots
<1>3. ASSUME NEW s \in Clients,
             RunNotFound(s) \/ \E a \in Attempts : RunSend(s, a)
      PROVE  Synchronized'
  <2>1. /\ UNCHANGED <<table, jobs, tasks>>
        /\ faults' = faults \/ faults' = faults + 1
        /\ \A r \in Slots : calls[r].pc \in {"persist", "erase"}
                            => calls'[r] = calls[r]
    BY <1>3 DEF RunNotFound, RunSend, Reply, Return, cloudVars, Slots, TypeOK
  <2> QED BY <2>1, SyncElse DEF SameTiming
<1>4. ASSUME NEW s \in Clients, CallFails(s)
      PROVE  Synchronized'
  BY <1>4, FaultsAssumption DEF CallFails, Fault, Synchronized, TypeOK, CloudTypeOK
<1>5. ASSUME NEW a \in Attempts,
             EndpointAnswers(a) \/ \E id \in Ids : DispatchDue(id, a)
      PROVE  Synchronized'
  <2>1. /\ UNCHANGED <<table, jobs, calls, faults>>
        /\ \A id \in Ids : tasks'[id] \in {tasks[id], None}
    BY <1>5 DEF EndpointAnswers, Answered, DeleteTask, DispatchDue, Due,
       serviceVars, TypeOK, CloudTypeOK
  <2> QED BY <2>1, SyncElse DEF SameTiming
<1>6. CASE UNCHANGED vars
  <2>1. UNCHANGED <<table, jobs, tasks, calls, faults>>
    BY <1>6 DEF vars, cloudVars, serviceVars
  <2> QED BY <2>1, SyncElse DEF SameTiming
<1> QED
  BY <1>1, <1>2, <1>3, <1>4, <1>5, <1>6 DEF Next, Proceed

(***************************************************************************)
(* If no update request names the type or the schedule and no remote call  *)
(* has failed, the table and the backing services agree on every cron that *)
(* no CreateCron or DeleteCron is in the middle of: a recurring cron has   *)
(* a job firing on its schedule, a one-shot cron at most a task due then,  *)
(* and nothing else is scheduled.                                          *)
(***************************************************************************)
THEOREM TableAndSchedulesAgree ==
    ASSUME TimingStable
    PROVE  Spec => []Synchronized
<1>1. Init => Synchronized
  BY DEF Init, CloudInit, Synchronized, ScheduleOf
<1> QED
  BY <1>1, NextSync, TimingInvariant, PTL DEF Spec
=============================================================================

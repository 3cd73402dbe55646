--------------------------- MODULE SchedulerService ---------------------------
(***************************************************************************)
(* service/spanner.go: the RPCs of SchedulerService, each a short sequence *)
(* of remote calls with nothing held between two of them. One action is    *)
(* one remote call together with the local code up to the next one, so     *)
(* concurrent RPCs interleave exactly where the code lets them.            *)
(*                                                                         *)
(* A call that is rejected before its first effect (invalid argument, no   *)
(* such row, permission denied, archived cron) changes nothing and is a    *)
(* stuttering step; so are GetCron and ListCrons.                          *)
(***************************************************************************)
EXTENDS CloudBackends

CONSTANTS
    Clients,     \* slots for RPCs of API clients
    Creates,     \* the cron messages clients send to CreateCron
    Updates,     \* the [cron, mask] requests clients send to UpdateCron
    ClientRPCs   \* of DeleteCron and RunCron, those clients call

ASSUME RequestsAssumption ==
    /\ Creates \subseteq Cron
    /\ Updates \subseteq [cron : Cron, mask : SUBSET Paths]

VARIABLES
    calls,       \* the RPC in flight in each slot
    issued       \* the UUIDs drawn so far

serviceVars == <<calls, issued>>
vars == <<cloudVars, serviceVars>>

\* A goroutine of the cron handler has the call slot of its POST.
Slots == Clients \cup Attempts

Idle == [pc |-> "idle", caller |-> None, id |-> None, cron |-> ZeroCron,
         mask |-> {}]

\* An RPC in flight: pc names the remote call it makes next, cron and mask are
\* its local variables.
InFlight == [pc     : {"persist", "write", "unschedule", "erase", "run"},
             caller : Identities,
             id     : Ids,
             cron   : Cron,
             mask   : SUBSET Paths]

TypeOK ==
    /\ CloudTypeOK
    /\ calls \in [Slots -> InFlight \cup {Idle}]
    /\ issued \in SUBSET Ids

Init ==
    /\ CloudInit
    /\ calls = [s \in Slots |-> Idle]
    /\ issued = {}

-----------------------------------------------------------------------------
Enter(s, pc, caller, id, cron, mask) ==
    calls' = [calls EXCEPT ![s] = [pc |-> pc, caller |-> caller, id |-> id,
                                   cron |-> cron, mask |-> mask]]

Goto(s, pc) == calls' = [calls EXCEPT ![s].pc = pc]
Return(s)   == calls' = [calls EXCEPT ![s] = Idle]

\* Mutant: the caller's permission is never checked.
ReadableByAll(caller, id, rpc) == table[id] # None

\* readCron finds a row, and caller may use rpc on it.
Readable(caller, id, rpc) ==
    /\ table[id] # None
    /\ HasPermission(caller, rpc, table[id].policy)

\* What DeleteCron and RunCron still use of the cron they read.
OnlyType(cron) == [ZeroCron EXCEPT !.type = cron.type]

(***************************************************************************)
(* CreateCron: the job or task is created before the row. An error of that *)
(* call ends the RPC, so does one of the insert; neither is undone.        *)
(***************************************************************************)
CreateSchedule(s, caller, req, id) ==
    /\ calls[s].pc = "idle"
    /\ HasPermission(caller, "CreateCron", {})
    /\ ValidCron(req)
    /\ id \notin issued
    /\ issued' = issued \cup {id}
    /\ \/ /\ req.type = "TYPE_CRON"
          /\ CreateJob(id, req.schedule)
          /\ UNCHANGED tasks
       \/ /\ req.type = "TYPE_AT"
          /\ CreateTask(id, req.schedule)
          /\ UNCHANGED jobs
    /\ \E reply \in BOOLEAN :
          /\ Reply(reply)
          /\ IF reply
             THEN Enter(s, "persist", caller, id, NewCron(req, caller), {})
             ELSE UNCHANGED calls
    /\ UNCHANGED <<table, posts>>

\* Mutant: the policy binds the cron instead of the caller.
CreatePersistUnbound(s) ==
    LET call == calls[s] IN
    /\ call.pc = "persist"
    /\ Insert(call.id, [cron |-> call.cron, policy |-> {call.id}])
    /\ \E reply \in BOOLEAN : Reply(reply)
    /\ Return(s)
    /\ UNCHANGED <<jobs, tasks, posts, issued>>

\* Mutant: the insert is dropped and its error swallowed.
CreatePersistUnwritten(s) ==
    /\ calls[s].pc = "persist"
    /\ Return(s)
    /\ UNCHANGED <<cloudVars, issued>>

\* BufferWrite only appends to the mutations of an open transaction. The branch
\* that swallows its error is taken by no step.
CreatePersist(s) ==
    LET call == calls[s] IN
    /\ call.pc = "persist"
    /\ Insert(call.id, [cron |-> call.cron, policy |-> {call.caller}])
    /\ \E reply \in BOOLEAN : Reply(reply)
    /\ Return(s)
    /\ UNCHANGED <<jobs, tasks, posts, issued>>

(***************************************************************************)
(* UpdateCron: a single-use read, the merge in memory, and a blind write   *)
(* of the whole Cron column. The write fails if the row is gone.           *)
(***************************************************************************)
UpdateRead(s, caller, id, update, mask) ==
    /\ calls[s].pc = "idle"
    /\ mask # {}
    /\ Readable(caller, id, "UpdateCron")
    /\ Enter(s, "write", caller, id,
             ApplyMask(table[id].cron, update, mask), mask)
    /\ UNCHANGED <<cloudVars, issued>>

\* Mutant: InsertOrUpdate in place of Update.
UpdateWriteUpsert(s) ==
    LET call == calls[s] IN
    /\ call.pc = "write"
    /\ Insert(call.id, [cron |-> call.cron, policy |-> {call.caller}])
    /\ \E reply \in BOOLEAN : Reply(reply)
    /\ Return(s)
    /\ UNCHANGED <<jobs, tasks, posts, issued>>

UpdateWrite(s) ==
    LET call == calls[s] IN
    /\ call.pc = "write"
    /\ \/ /\ table[call.id] # None
          /\ UpdateRow(call.id, call.cron)
          /\ \E reply \in BOOLEAN : Reply(reply)
       \/ /\ table[call.id] = None
          /\ UNCHANGED <<table, faults>>
    /\ Return(s)
    /\ UNCHANGED <<jobs, tasks, posts, issued>>

(***************************************************************************)
(* DeleteCron: the type read with the row selects the backing service.     *)
(* Cloud Tasks' NotFound is tolerated, Cloud Scheduler's ends the RPC.     *)
(***************************************************************************)
\* Mutant: the row is erased without looking at its type.
DeleteReadRowOnly(s, caller, id) ==
    /\ calls[s].pc = "idle"
    /\ Readable(caller, id, "DeleteCron")
    /\ Enter(s, "erase", caller, id, OnlyType(table[id].cron), {})
    /\ UNCHANGED <<cloudVars, issued>>

DeleteRead(s, caller, id) ==
    /\ calls[s].pc = "idle"
    /\ Readable(caller, id, "DeleteCron")
    /\ Enter(s, IF table[id].cron.type = "TYPE_UNSPECIFIED" THEN "erase"
                                                            ELSE "unschedule",
             caller, id, OnlyType(table[id].cron), {})
    /\ UNCHANGED <<cloudVars, issued>>

\* Mutant: the RPC returns once the job or task is gone.
UnscheduleOnly(s) ==
    LET call == calls[s] IN
    /\ call.pc = "unschedule"
    /\ \/ call.cron.type = "TYPE_CRON" /\ DeleteJob(call.id) /\ UNCHANGED tasks
       \/ call.cron.type = "TYPE_AT" /\ DeleteTask(call.id) /\ UNCHANGED jobs
    /\ Return(s)
    /\ UNCHANGED <<table, posts, faults, issued>>

Unschedule(s) ==
    LET call == calls[s] IN
    /\ call.pc = "unschedule"
    /\ \/ /\ call.cron.type = "TYPE_CRON"
          /\ jobs[call.id] # None
          /\ DeleteJob(call.id)
          /\ \E reply \in BOOLEAN :
                Reply(reply) /\ IF reply THEN Goto(s, "erase") ELSE Return(s)
          /\ UNCHANGED tasks
       \/ /\ call.cron.type = "TYPE_CRON"
          /\ jobs[call.id] = None
          /\ Return(s)
          /\ UNCHANGED <<jobs, tasks, faults>>
       \/ /\ call.cron.type = "TYPE_AT"
          /\ DeleteTask(call.id)
          /\ \E reply \in BOOLEAN :
                Reply(reply) /\ IF reply THEN Goto(s, "erase") ELSE Return(s)
          /\ UNCHANGED jobs
    /\ UNCHANGED <<table, posts, issued>>

EraseRow(s) ==
    /\ calls[s].pc = "erase"
    /\ DeleteRow(calls[s].id)
    /\ \E reply \in BOOLEAN : Reply(reply)
    /\ Return(s)
    /\ UNCHANGED <<jobs, tasks, posts, issued>>

(***************************************************************************)
(* RunCron: the state is checked on the row read; RunJob and RunTask       *)
(* dispatch at once, and report NotFound when there is nothing to run.     *)
(***************************************************************************)
RunRead(s, caller, id) ==
    /\ calls[s].pc = "idle"
    /\ Readable(caller, id, "RunCron")
    /\ table[id].cron.state # "STATE_ARCHIVED"
    /\ table[id].cron.type # "TYPE_UNSPECIFIED"
    /\ Enter(s, "run", caller, id, OnlyType(table[id].cron), {})
    /\ UNCHANGED <<cloudVars, issued>>

Runnable(call) ==
    \/ call.cron.type = "TYPE_CRON" /\ jobs[call.id] # None
    \/ call.cron.type = "TYPE_AT" /\ tasks[call.id] # None

RunSend(s, a) ==
    /\ calls[s].pc = "run"
    /\ Runnable(calls[s])
    /\ Send(calls[s].id, a)
    /\ \E reply \in BOOLEAN : Reply(reply)
    /\ Return(s)
    /\ UNCHANGED <<table, jobs, tasks, issued>>

RunNotFound(s) ==
    /\ calls[s].pc = "run"
    /\ ~Runnable(calls[s])
    /\ Return(s)
    /\ UNCHANGED <<cloudVars, issued>>

\* Mutant: DeleteCron ignores every error of the backing service.
CallFailsQuietly(s) ==
    /\ calls[s].pc # "idle"
    /\ Fault
    /\ IF calls[s].pc = "unschedule" THEN Goto(s, "erase") ELSE Return(s)
    /\ UNCHANGED <<table, jobs, tasks, posts, issued>>

\* The remote call an RPC is about to make fails without effect, and every
\* RPC then returns the error. Its status is up to the remote side; what a
\* client reads in it is SchedulerGateway's.
CallFails(s) ==
    /\ calls[s].pc # "idle"
    /\ Fault
    /\ Return(s)
    /\ UNCHANGED <<table, jobs, tasks, posts, issued>>

-----------------------------------------------------------------------------
\* A client starts an RPC, except RunCron.
Start(s) ==
    \E caller \in Identities, id \in Ids :
       \/ \E req \in Creates : CreateSchedule(s, caller, req, id)
       \/ \E u \in Updates : UpdateRead(s, caller, id, u.cron, u.mask)
       \/ "DeleteCron" \in ClientRPCs /\ DeleteRead(s, caller, id)

StartRun(s) ==
    /\ "RunCron" \in ClientRPCs
    /\ \E caller \in Identities, id \in Ids : RunRead(s, caller, id)

\* An RPC in flight proceeds, except by dispatching a POST.
Proceed(s) ==
    \/ CreatePersist(s)
    \/ UpdateWrite(s)
    \/ Unschedule(s)
    \/ EraseRow(s)
    \/ RunNotFound(s)

\* The handler seen from the service: it answers every POST, somehow.
EndpointAnswers(a) ==
    /\ \E ok \in BOOLEAN : Answered(a, ok)
    /\ UNCHANGED <<faults, serviceVars>>

DispatchDue(id, a) == Due(id, a) /\ UNCHANGED serviceVars

Next ==
    \/ \E s \in Clients :
          \/ Start(s)
          \/ StartRun(s)
          \/ Proceed(s)
          \/ CallFails(s)
          \/ \E a \in Attempts : RunSend(s, a)
    \/ \E a \in Attempts :
          \/ EndpointAnswers(a)
          \/ \E id \in Ids : DispatchDue(id, a)

Spec == Init /\ [][Next]_vars
=============================================================================

----------------------------- MODULE SystemProofs -----------------------------
(***************************************************************************)
(* Proofs about the deployment, for all clients, ids, executions, requests *)
(* and faults: how executions are linked to the cloud services and to the  *)
(* table, also when the process crashes.                                   *)
(***************************************************************************)
EXTENDS SchedulerSystemProperties, RowProofs

-----------------------------------------------------------------------------
(* The slots, and the values an execution computes. *)

LEMMA SlotKinds ==
    /\ Clients \subseteq Slots
    /\ Attempts \subseteq Slots
    /\ \A s \in Slots : s \notin Clients => s \in Attempts
    /\ \A s \in Clients : s \notin Attempts
BY HandlerAssumption DEF Slots

LEMMA NoRunType == NoRun \in Run
BY ZeroCronType DEF NoRun, Run

LEMMA FinishedType ==
    ASSUME NEW run \in Run
    PROVE  /\ Finished(run) \in Run
           /\ Finished(run).pc = "done"
           /\ Finished(run).id = run.id
           /\ Finished(run).sent = run.sent
BY NoRunType DEF Finished, Run, NoRun

LEMMA PersistCronType ==
    ASSUME NEW run \in Run
    PROVE  /\ PersistCron(run) \in Cron
           /\ PersistCron(run).context_id = run.ctx
           /\ PersistMask(run) \in SUBSET Paths
           /\ PersistMask(run) \subseteq {"last_run_time", "context_id", "state"}
           /\ run.cron.type = "TYPE_AT"
              => PersistCron(run).state = "STATE_ARCHIVED" /\ "state" \in PersistMask(run)
           /\ "state" \in PersistMask(run) => run.cron.type = "TYPE_AT"
BY DEF PersistCron, PersistMask, Paths, ZeroCron, Cron, Run, Types, States

\* An identity that may read a row is one.
LEMMA ReaderIsKnown ==
    ASSUME TypeOK, NEW id \in Ids, NEW rpc \in OwnerPermissions,
           Readable(HandlerIdentity, id, rpc)
    PROVE  /\ table[id] # None
           /\ HandlerIdentity \in table[id].policy \cup {System}
           /\ HandlerIdentity \in Identities
<1>1. table[id] \in Row
  BY StoredRow DEF Readable
<1>2. HandlerIdentity \in table[id].policy \cup {System}
  BY DEF Readable, HasPermission, OpenPermissions, OwnerPermissions
<1>3. table[id] # None
  BY DEF Readable
<1> QED BY <1>1, <1>2, <1>3 DEF Row, Identities

-----------------------------------------------------------------------------
(***************************************************************************)
(* A step of the system, seen from the service. Later steps are those of   *)
(* an RPC in flight that is no CreateCron; an outside step is none of the  *)
(* service's.                                                              *)
(***************************************************************************)
Later(s) ==
    \/ UpdateWrite(s) \/ Unschedule(s) \/ EraseRow(s) \/ RunNotFound(s)
    \/ CallFails(s) \/ \E a \in Attempts : RunSend(s, a)

\* The UpdateCron requests a slot makes.
Requests(s) ==
    IF s \in Clients THEN Updates
    ELSE {[cron |-> PersistCron(runs[s]), mask |-> PersistMask(runs[s])]}

StartsCreate(s) ==
    \E caller \in Identities, id \in Ids, req \in Creates :
        CreateSchedule(s, caller, req, id)

StartsUpdate(s) ==
    \E caller \in Identities, id \in Ids, u \in Requests(s) :
        /\ UpdateRead(s, caller, id, u.cron, u.mask)
        /\ s \in Attempts => PersistRead(s) /\ id = runs[s].id

StartsRead(s) ==
    \E caller \in Identities, id \in Ids :
        \/ DeleteRead(s, caller, id)
        \/ "RunCron" \in ClientRPCs /\ RunRead(s, caller, id)

Outside ==
    /\ UNCHANGED <<table, jobs, calls, issued>>
    /\ \A id \in Ids : tasks'[id] \in {tasks[id], None}

ServiceStep ==
    \/ \E s \in Clients : StartsCreate(s) \/ StartsRead(s) \/ CreatePersist(s)
    \/ \E s \in Slots : StartsUpdate(s) \/ Later(s)
    \/ Outside
    \/ Crash

LEMMA AnsweredOutside ==
    ASSUME TypeOK, NEW a \in Attempts, NEW ok \in BOOLEAN, Answered(a, ok),
           UNCHANGED serviceVars
    PROVE  Outside
BY DEF Answered, DeleteTask, Outside, serviceVars, TypeOK, CloudTypeOK

LEMMA PersistReadStarts ==
    ASSUME RunsInv, NEW a \in Attempts, PersistRead(a)
    PROVE  /\ StartsUpdate(a)
           /\ UpdateRead(a, HandlerIdentity, runs[a].id, PersistCron(runs[a]),
                         PersistMask(runs[a]))
           /\ runs[a].id \in Ids
           /\ HandlerIdentity \in Identities
<1>1. UpdateRead(a, HandlerIdentity, runs[a].id, PersistCron(runs[a]),
                 PersistMask(runs[a]))
  BY DEF PersistRead
<1>2. runs[a].id \in Ids
  BY DEF PersistRead, RunsInv, RunsAreWhole
<1>3. HandlerIdentity \in Identities
  BY <1>1, <1>2, ReaderIsKnown DEF UpdateRead, OwnerPermissions, RunsInv, HandlerTypeOK
<1>4. [cron |-> PersistCron(runs[a]), mask |-> PersistMask(runs[a])] \in Requests(a)
  BY SlotKinds DEF Requests
<1> QED BY <1>1, <1>2, <1>3, <1>4 DEF StartsUpdate

LEMMA SystemServiceStep ==
    ASSUME RunsInv, [SystemNext]_handlerVars
    PROVE  ServiceStep
<1> USE SlotKinds
<1>1. TypeOK
  BY DEF RunsInv, HandlerTypeOK
<1>2. ASSUME NEW s \in Clients, ClientStart(s)
      PROVE  ServiceStep
  <2>1. StartsCreate(s) \/ StartsRead(s) \/ StartsUpdate(s)
    BY <1>2 DEF ClientStart, Start, StartRun, StartsCreate, StartsRead, StartsUpdate, Requests
  <2> QED BY <2>1 DEF ServiceStep
<1>3. ASSUME NEW s \in Clients, ClientProceed(s) \/ ClientFails(s)
      PROVE  ServiceStep
  <2>1. CreatePersist(s) \/ Later(s)
    BY <1>3 DEF ClientProceed, ClientFails, Proceed, Later, FreeAttempts
  <2> QED BY <2>1 DEF ServiceStep
<1>4. ASSUME NEW id \in Ids, CloudStep(id)
      PROVE  Outside
  BY <1>4 DEF CloudStep, DispatchDue, Due, serviceVars, Outside
<1>5. ASSUME NEW a \in Attempts, Handle(a)
      PROVE  Outside
  <2>1. CASE HandleStart(a)
    BY <2>1 DEF HandleStart, vars, cloudVars, serviceVars, Outside
  <2>2. CASE HandleSkip(a) \/ HandleError(a) \/ HandleAnswer(a)
    BY <1>1, <2>2, AnsweredOutside DEF HandleSkip, HandleError, HandleAnswer
  <2> QED BY <1>5, <2>1, <2>2 DEF Handle
<1>6. ASSUME NEW a \in Attempts, Goroutine(a)
      PROVE  ServiceStep
  <2>1. CASE CallAgentInitial(a) \/ CallAgentPrompt(a)
    <3>1. Outside
      BY <2>1 DEF CallAgentInitial, CallAgentPrompt, Delivered, CallAgentFails, vars,
         cloudVars, serviceVars, Outside
    <3> QED BY <3>1 DEF ServiceStep
  <2>2. CASE PersistRead(a)
    BY <2>2, PersistReadStarts DEF ServiceStep
  <2>3. CASE PersistWrite(a)
    BY <2>3 DEF PersistWrite, Later, ServiceStep
  <2>4. CASE PersistFails(a)
    <3>1. CallFails(a) \/ Outside
      BY <2>4 DEF PersistFails, serviceVars, Outside
    <3> QED BY <3>1 DEF Later, ServiceStep
  <2> QED BY <1>6, <2>1, <2>2, <2>3, <2>4 DEF Goroutine
<1>7. CASE UNCHANGED handlerVars
  BY <1>7 DEF handlerVars, vars, cloudVars, serviceVars, Outside, ServiceStep
<1> QED
  BY <1>2, <1>3, <1>4, <1>5, <1>6, <1>7 DEF SystemNext, HandlerNext, ServiceStep

-----------------------------------------------------------------------------
(***************************************************************************)
(* A step of the system, seen from one execution.                          *)
(***************************************************************************)
Frees(a) ==
    /\ posts[a] = None
    /\ runs[a].pc \in {"none", "done"}
    /\ runs[a].sent = {}
    /\ runs'[a] = NoRun

Begins(a) ==
    /\ HandleStart(a)
    /\ LET cron == table[posts[a]].cron
       IN  runs'[a] = [pc   |-> IF NeedsSeed(cron) THEN "initial" ELSE "prompt",
                       id   |-> posts[a],
                       cron |-> cron,
                       ctx  |-> cron.context_id,
                       sent |-> {}]

\* The message of stage pc, in the conversation of context ctx, got an answer.
Sends(a, message, ctx, pc) ==
    /\ UNCHANGED vars
    /\ \E returned \in Returnable(Conversation(a, message, ctx)) :
          runs'[a] = [runs[a] EXCEPT !.pc = pc,
                                     !.ctx = MergeContextID(@, returned),
                                     !.sent = @ \cup {message}]

Advances(a) ==
    \/ runs[a].pc = "initial" /\ Sends(a, "initial", None, "prompt")
    \/ runs[a].pc = "prompt" /\ Sends(a, "prompt", runs[a].ctx, "persist")

Records(a) ==
    /\ runs[a].pc = "persist"
    /\ runs'[a] = [runs[a] EXCEPT !.pc = "persisting"]
    /\ calls'[a].pc = "write" /\ calls'[a].id = runs[a].id

Ends(a) ==
    /\ runs[a].pc # "none"
    /\ \E sent \in SUBSET Messages :
          /\ runs[a].sent \subseteq sent
          /\ runs'[a] = Finished([runs[a] EXCEPT !.sent = sent])

RunStep(a) ==
    \/ runs'[a] = runs[a]
    \/ Frees(a)
    \/ Begins(a)
    \/ Advances(a)
    \/ Records(a)
    \/ Ends(a)

LEMMA FinishedEnds ==
    ASSUME RunsInv, NEW a \in Attempts, runs[a].pc # "none",
           runs'[a] = Finished(runs[a])
    PROVE  Ends(a)
<1>1. runs[a] \in Run
  BY DEF RunsInv, HandlerTypeOK
<1>2. [runs[a] EXCEPT !.sent = runs[a].sent] = runs[a] /\ runs[a].sent \in SUBSET Messages
  BY <1>1 DEF Run
<1> QED BY <1>2 DEF Ends

LEMMA SystemRunStep ==
    ASSUME RunsInv, [SystemNext]_handlerVars
    PROVE  /\ runs' = [a \in Attempts |-> runs'[a]]
           /\ \A a \in Attempts : RunStep(a)
<1> DEFINE Goal == /\ runs' = [a \in Attempts |-> runs'[a]]
                   /\ \A a \in Attempts : RunStep(a)
<1>1. runs \in [Attempts -> Run] /\ TypeOK
  BY DEF RunsInv, HandlerTypeOK
<1>2. CASE UNCHANGED runs
  BY <1>1, <1>2 DEF RunStep
<1>3. ASSUME NEW a \in Attempts, runs' = [runs EXCEPT ![a] = runs'[a]], RunStep(a)
      PROVE  Goal
  BY <1>1, <1>3 DEF RunStep
<1>4. ASSUME NEW a \in FreeAttempts, runs' = [runs EXCEPT ![a] = NoRun]
      PROVE  Goal
  <2>1. a \in Attempts /\ Frees(a)
    BY <1>1, <1>4 DEF FreeAttempts, Frees
  <2> QED BY <1>1, <1>3, <1>4, <2>1 DEF RunStep
<1>5. ASSUME NEW s \in Clients, ClientStart(s) \/ ClientProceed(s) \/ ClientFails(s)
      PROVE  Goal
  BY <1>2, <1>4, <1>5 DEF ClientStart, ClientProceed, ClientFails
<1>6. ASSUME NEW id \in Ids, CloudStep(id)
      PROVE  Goal
  BY <1>4, <1>6 DEF CloudStep
<1>7. ASSUME NEW a \in Attempts, Handle(a)
      PROVE  Goal
  <2>1. CASE HandleStart(a)
    <3>1. Begins(a) /\ runs' = [runs EXCEPT ![a] = runs'[a]]
      BY <1>1, <2>1 DEF HandleStart, Begins
    <3> QED BY <1>3, <3>1 DEF RunStep
  <2>2. CASE HandleSkip(a) \/ HandleError(a) \/ HandleAnswer(a)
    BY <1>2, <2>2 DEF HandleSkip, HandleError, HandleAnswer
  <2> QED BY <1>7, <2>1, <2>2 DEF Handle
<1>8. ASSUME NEW a \in Attempts, NEW message \in Messages, CallAgentFails(a, message),
             runs[a].pc # "none"
      PROVE  Goal
  <2>1. PICK sent \in {runs[a].sent, runs[a].sent \cup {message}} :
           runs' = [runs EXCEPT ![a] = Finished([runs[a] EXCEPT !.sent = sent])]
    BY <1>8 DEF CallAgentFails
  <2>2. sent \in SUBSET Messages /\ runs[a].sent \subseteq sent
    BY <1>1 DEF Run
  <2>3. runs'[a] = Finished([runs[a] EXCEPT !.sent = sent])
    BY <1>1, <2>1
  <2> QED BY <1>1, <1>3, <1>8, <2>1, <2>2, <2>3 DEF RunStep, Ends
<1>9. ASSUME NEW a \in Attempts, NEW message, NEW ctx, NEW pc,
             Delivered(a, message, ctx, pc)
      PROVE  Sends(a, message, ctx, pc) /\ runs' = [runs EXCEPT ![a] = runs'[a]]
  <2>1. PICK returned \in Returnable(Conversation(a, message, ctx)) :
           runs' = [runs EXCEPT ![a].pc = pc,
                                ![a].ctx = MergeContextID(runs[a].ctx, returned),
                                ![a].sent = @ \cup {message}]
    BY <1>9 DEF Delivered
  <2>2. runs'[a] = [runs[a] EXCEPT !.pc = pc,
                                   !.ctx = MergeContextID(@, returned),
                                   !.sent = @ \cup {message}]
    BY <1>1, <2>1 DEF Run
  <2> QED BY <1>1, <1>9, <2>1, <2>2 DEF Sends, Delivered
<1>10. ASSUME NEW a \in Attempts, CallAgentInitial(a) \/ CallAgentPrompt(a)
       PROVE  Goal
  <2>1. CASE runs[a].pc = "initial" /\ Delivered(a, "initial", None, "prompt")
    BY <1>3, <1>9, <2>1 DEF Advances, RunStep
  <2>2. CASE runs[a].pc = "prompt" /\ Delivered(a, "prompt", runs[a].ctx, "persist")
    BY <1>3, <1>9, <2>2 DEF Advances, RunStep
  <2>3. CASE \E message \in Messages : CallAgentFails(a, message) /\ runs[a].pc # "none"
    BY <1>8, <2>3
  <2> QED
    BY <1>10, <2>1, <2>2, <2>3 DEF CallAgentInitial, CallAgentPrompt, Messages
<1>11. ASSUME NEW a \in Attempts, PersistRead(a)
       PROVE  Goal
  <2>1. runs[a].pc = "persist" /\ runs' = [runs EXCEPT ![a].pc = "persisting"]
    BY <1>11 DEF PersistRead
  <2>2. runs'[a] = [runs[a] EXCEPT !.pc = "persisting"]
    BY <1>1, <2>1
  <2>3. calls'[a].pc = "write" /\ calls'[a].id = runs[a].id
    BY <1>1, <1>11, SlotKinds DEF PersistRead, UpdateRead, Enter, TypeOK
  <2> QED BY <1>1, <1>3, <2>1, <2>2, <2>3 DEF Records, RunStep
<1>12. ASSUME NEW a \in Attempts, PersistWrite(a) \/ PersistFails(a)
       PROVE  Goal
  <2>1. runs[a].pc # "none" /\ runs' = [runs EXCEPT ![a] = Finished(@)]
    BY <1>12 DEF PersistWrite, PersistFails
  <2>2. runs'[a] = Finished(runs[a]) /\ runs' = [runs EXCEPT ![a] = runs'[a]]
    BY <1>1, <2>1
  <2> QED BY <1>3, <2>1, <2>2, FinishedEnds DEF RunStep
<1>13. CASE Crash
  <2>1. runs' = [a \in Attempts |->
                   IF runs[a].pc = "none" THEN NoRun ELSE Finished(runs[a])]
    BY <1>13 DEF Crash
  <2>2. \A a \in Attempts : runs[a].pc = "none" => runs[a] = NoRun
    BY DEF RunsInv, RunsAreWhole
  <2>3. \A a \in Attempts : runs'[a] = runs[a] \/ Ends(a)
    BY <2>1, <2>2, FinishedEnds
  <2> QED BY <2>1, <2>3 DEF RunStep
<1>14. CASE UNCHANGED handlerVars
  BY <1>2, <1>14 DEF handlerVars
<1> QED
  BY <1>5, <1>6, <1>7, <1>10, <1>11, <1>12, <1>13, <1>14
     DEF SystemNext, HandlerNext, Goroutine

-----------------------------------------------------------------------------
(***************************************************************************)
(* RunsInv is inductive: no request of a client matters to it.             *)
(***************************************************************************)
LEMMA ConversationType ==
    ASSUME NEW a \in Attempts, NEW message \in Messages,
           NEW ctx \in Contexts \cup {None}, NEW old \in Contexts \cup {None},
           NEW returned \in Returnable(Conversation(a, message, ctx))
    PROVE  /\ returned \in {Conversation(a, message, ctx), None}
           /\ MergeContextID(old, returned) \in Contexts \cup {None}
<1>1. <<a, message>> \in Contexts
  BY HandlerAssumption
<1>2. returned \in {Conversation(a, message, ctx), None}
  BY DEF Returnable
<1> QED BY <1>1, <1>2 DEF Conversation, MergeContextID

LEMMA RunType ==
    ASSUME RunsInv, NEW a \in Attempts, RunStep(a)
    PROVE  /\ runs'[a] \in Run
           /\ runs'[a].pc = "none" => runs'[a] = NoRun
           /\ runs'[a].pc # "none" => runs'[a].id \in Ids
           /\ runs'[a].pc \in {"persist", "persisting"} => "prompt" \in runs'[a].sent
<1>1. /\ runs[a] \in Run
      /\ runs[a].pc = "none" => runs[a] = NoRun
      /\ runs[a].pc # "none" => runs[a].id \in Ids
      /\ runs[a].pc \in {"persist", "persisting"} => "prompt" \in runs[a].sent
  BY DEF RunsInv, HandlerTypeOK, RunsAreWhole
<1>2. CASE runs'[a] = runs[a]
  BY <1>1, <1>2
<1>3. CASE Frees(a)
  BY <1>3, NoRunType DEF Frees, NoRun
<1>4. CASE Begins(a)
  <2>1. posts[a] \in Ids
    BY <1>4 DEF Begins, HandleStart, Arrived, RunsInv, HandlerTypeOK, TypeOK, CloudTypeOK
  <2>2. table[posts[a]].cron \in Cron
    BY <1>4, <2>1, StoredRow
       DEF Begins, HandleStart, CanGet, Readable, RunsInv, HandlerTypeOK
  <2>3. table[posts[a]].cron.context_id \in Contexts \cup {None}
    BY <2>2 DEF Cron
  <2> QED BY <1>4, <2>1, <2>2, <2>3 DEF Begins, Run
<1>5. CASE Advances(a)
  <2>1. ASSUME NEW message \in Messages, NEW ctx \in Contexts \cup {None},
               NEW pc \in {"prompt", "persist"}, Sends(a, message, ctx, pc),
               runs[a].pc # "none", pc = "persist" => message = "prompt"
        PROVE  /\ runs'[a] \in Run
               /\ runs'[a].pc = pc /\ runs'[a].id = runs[a].id
               /\ message \in runs'[a].sent
    <3>1. PICK returned \in Returnable(Conversation(a, message, ctx)) :
             runs'[a] = [runs[a] EXCEPT !.pc = pc,
                                        !.ctx = MergeContextID(@, returned),
                                        !.sent = @ \cup {message}]
      BY <2>1 DEF Sends
    <3>2. MergeContextID(runs[a].ctx, returned) \in Contexts \cup {None}
      BY <1>1, ConversationType DEF Run
    <3>3. runs[a].sent \cup {message} \in SUBSET Messages
      BY <1>1 DEF Run
    <3>4. runs'[a] = [pc   |-> pc,
                      id   |-> runs[a].id,
                      cron |-> runs[a].cron,
                      ctx  |-> MergeContextID(runs[a].ctx, returned),
                      sent |-> runs[a].sent \cup {message}]
      BY <1>1, <3>1 DEF Run
    <3> QED BY <1>1, <3>2, <3>3, <3>4 DEF Run
  <2>2. CASE runs[a].pc = "initial" /\ Sends(a, "initial", None, "prompt")
    BY <1>1, <2>1, <2>2 DEF Messages
  <2>3. CASE runs[a].pc = "prompt" /\ Sends(a, "prompt", runs[a].ctx, "persist")
    <3>1. runs[a].ctx \in Contexts \cup {None}
      BY <1>1 DEF Run
    <3> QED BY <1>1, <2>1, <2>3, <3>1 DEF Messages
  <2> QED BY <1>5, <2>2, <2>3 DEF Advances
<1>6. CASE Records(a)
  BY <1>1, <1>6 DEF Records, Run
<1>7. CASE Ends(a)
  <2>1. PICK sent \in SUBSET Messages :
           runs'[a] = Finished([runs[a] EXCEPT !.sent = sent])
    BY <1>7 DEF Ends
  <2>2. /\ [runs[a] EXCEPT !.sent = sent] \in Run
        /\ [runs[a] EXCEPT !.sent = sent].id = runs[a].id
    BY <1>1 DEF Run
  <2> QED BY <1>1, <1>7, <2>1, <2>2, FinishedType DEF Ends
<1> QED BY <1>2, <1>3, <1>4, <1>5, <1>6, <1>7 DEF RunStep

LEMMA SystemServiceType ==
    ASSUME RunsInv, [SystemNext]_handlerVars
    PROVE  TypeOK'
<1> USE SlotKinds DEF RunsInv, HandlerTypeOK
<1>1. ASSUME NEW s \in Clients, ClientStart(s)
      PROVE  TypeOK'
  <2>1. PICK caller \in Identities, id \in Ids :
           \/ \E req \in Creates : CreateSchedule(s, caller, req, id)
           \/ \E u \in Updates : UpdateRead(s, caller, id, u.cron, u.mask)
           \/ DeleteRead(s, caller, id) \/ RunRead(s, caller, id)
    BY <1>1 DEF ClientStart, Start, StartRun
  <2> QED
    BY <2>1, CreateScheduleType, UpdateReadType, ReadType, RequestsAssumption
<1>2. ASSUME NEW s \in Clients, ClientProceed(s) \/ ClientFails(s)
      PROVE  TypeOK'
  BY <1>2, CreatePersistType, UpdateWriteType, UnscheduleType, EraseRowType, EndType,
     RunSendType DEF ClientProceed, ClientFails, Proceed, FreeAttempts
<1>3. ASSUME NEW id \in Ids, CloudStep(id)
      PROVE  TypeOK'
  BY <1>3, DispatchDueType DEF CloudStep, FreeAttempts
<1>4. ASSUME NEW a \in Attempts, Handle(a)
      PROVE  TypeOK'
  <2>1. CASE HandleStart(a)
    BY <2>1 DEF HandleStart, vars, cloudVars, serviceVars, TypeOK, CloudTypeOK
  <2>2. CASE HandleSkip(a) \/ HandleError(a) \/ HandleAnswer(a)
    <3>1. /\ \E ok \in BOOLEAN : Answered(a, ok)
          /\ UNCHANGED serviceVars
          /\ faults' \in 0 .. MaxFaults
      BY <2>2, FaultType DEF HandleSkip, HandleError, HandleAnswer, TypeOK, CloudTypeOK
    <3> QED BY <3>1, AnsweredType DEF TypeOK, CloudTypeOK, serviceVars
  <2> QED BY <1>4, <2>1, <2>2 DEF Handle
<1>5. ASSUME NEW a \in Attempts, Goroutine(a)
      PROVE  TypeOK'
  <2>1. CASE CallAgentInitial(a) \/ CallAgentPrompt(a)
    <3>1. /\ UNCHANGED <<table, jobs, tasks, posts, serviceVars>>
          /\ faults' \in 0 .. MaxFaults
      BY <2>1, FaultType DEF CallAgentInitial, CallAgentPrompt, Delivered,
         CallAgentFails, vars, cloudVars, serviceVars, TypeOK, CloudTypeOK
    <3> QED BY <3>1 DEF TypeOK, CloudTypeOK, serviceVars
  <2>2. CASE PersistRead(a)
    <3>1. runs[a] \in Run
      OBVIOUS
    <3> QED BY <2>2, <3>1, PersistReadStarts, PersistCronType, UpdateReadType
  <2>3. CASE PersistWrite(a)
    BY <2>3, UpdateWriteType DEF PersistWrite
  <2>4. CASE PersistFails(a)
    <3>1. CASE CallFails(a)
      BY <3>1, EndType
    <3>2. CASE UNCHANGED <<table, jobs, tasks, posts, serviceVars>>
      <4>1. faults' \in 0 .. MaxFaults
        BY <2>4, FaultType DEF PersistFails, CallFails, TypeOK, CloudTypeOK
      <4> QED BY <3>2, <4>1 DEF TypeOK, CloudTypeOK, serviceVars
    <3> QED BY <2>4, <3>1, <3>2 DEF PersistFails
  <2> QED BY <1>5, <2>1, <2>2, <2>3, <2>4 DEF Goroutine
<1>6. CASE Crash
  <2>1. /\ calls' \in [Slots -> Call]
        /\ posts' \in [Attempts -> Ids \cup {None}]
        /\ faults' \in 0 .. MaxFaults
        /\ UNCHANGED <<table, jobs, tasks, issued>>
    BY <1>6, FaultType DEF Crash, Call, TypeOK, CloudTypeOK
  <2> QED BY <2>1 DEF TypeOK, CloudTypeOK, Call
<1>7. CASE UNCHANGED handlerVars
  BY <1>7 DEF handlerVars, vars, cloudVars, serviceVars, TypeOK, CloudTypeOK
<1> QED
  BY <1>1, <1>2, <1>3, <1>4, <1>5, <1>6, <1>7 DEF SystemNext, HandlerNext

\* A slot keeps its POST, loses it, or starts over with a new one.
LEMMA SystemPostStep ==
    ASSUME RunsInv, [SystemNext]_handlerVars, NEW a \in Attempts
    PROVE  posts'[a] \in {posts[a], None} \/ runs'[a] = NoRun
<1> USE DEF RunsInv, HandlerTypeOK, TypeOK, CloudTypeOK
<1>1. ASSUME NEW s \in Clients, ClientStart(s) \/ ClientProceed(s) \/ ClientFails(s)
      PROVE  posts'[a] \in {posts[a], None} \/ runs'[a] = NoRun
  <2>1. CASE UNCHANGED posts
    BY <2>1
  <2>2. CASE \E b \in FreeAttempts :
                RunSend(s, b) /\ runs' = [runs EXCEPT ![b] = NoRun]
    BY <2>2 DEF RunSend, Send, FreeAttempts
  <2>3. \/ UNCHANGED posts
        \/ \E b \in FreeAttempts :
              RunSend(s, b) /\ runs' = [runs EXCEPT ![b] = NoRun]
    BY <1>1 DEF ClientStart, ClientProceed, ClientFails, Start, StartRun, CreateSchedule,
       UpdateRead, DeleteRead, RunRead, Proceed, CreatePersist, UpdateWrite, Unschedule,
       EraseRow, RunNotFound, CallFails, cloudVars
  <2> QED BY <2>1, <2>2, <2>3
<1>2. ASSUME NEW id \in Ids, CloudStep(id)
      PROVE  posts'[a] \in {posts[a], None} \/ runs'[a] = NoRun
  BY <1>2 DEF CloudStep, DispatchDue, Due, Send, FreeAttempts
<1>3. ASSUME NEW b \in Attempts, Handle(b)
      PROVE  posts'[a] \in {posts[a], None}
  BY <1>3 DEF Handle, HandleStart, HandleSkip, HandleError, HandleAnswer, Answered, vars,
     cloudVars
<1>4. ASSUME NEW b \in Attempts, Goroutine(b)
      PROVE  UNCHANGED posts
  BY <1>4 DEF Goroutine, CallAgentInitial, CallAgentPrompt, Delivered, CallAgentFails,
     PersistRead, PersistWrite, PersistFails, UpdateRead, UpdateWrite, CallFails, vars,
     cloudVars
<1>5. CASE Crash
  BY <1>5 DEF Crash
<1>6. CASE UNCHANGED handlerVars
  BY <1>6 DEF handlerVars, vars, cloudVars
<1> QED
  BY <1>1, <1>2, <1>3, <1>4, <1>5, <1>6 DEF SystemNext, HandlerNext

\* What an execution has told the agent, and of which cron it is, is never lost.
LEMMA RunKept ==
    ASSUME RunsInv, NEW a \in Attempts, RunStep(a)
    PROVE  /\ runs[a].sent \subseteq runs'[a].sent
           /\ runs[a].sent # {} => runs'[a].id = runs[a].id
           /\ runs[a].pc # "none" => runs'[a].id = runs[a].id \/ runs'[a] = NoRun
<1>1. runs[a] \in Run /\ (runs[a].pc = "none" => runs[a] = NoRun)
  BY DEF RunsInv, HandlerTypeOK, RunsAreWhole
<1>2. CASE runs'[a] = runs[a]
  BY <1>2
<1>3. CASE Frees(a)
  BY <1>3 DEF Frees
<1>4. CASE Begins(a)
  BY <1>1, <1>4 DEF Begins, HandleStart, Arrived, NoRun
<1>5. CASE Advances(a)
  BY <1>1, <1>5 DEF Advances, Sends, Run
<1>6. CASE Records(a)
  BY <1>1, <1>6 DEF Records, Run
<1>7. CASE Ends(a)
  <2>1. PICK sent \in SUBSET Messages :
           /\ runs[a].sent \subseteq sent
           /\ runs'[a] = Finished([runs[a] EXCEPT !.sent = sent])
    BY <1>7 DEF Ends
  <2>2. /\ [runs[a] EXCEPT !.sent = sent] \in Run
        /\ [runs[a] EXCEPT !.sent = sent].id = runs[a].id
        /\ [runs[a] EXCEPT !.sent = sent].sent = sent
    BY <1>1 DEF Run
  <2> QED BY <2>1, <2>2, FinishedType
<1> QED BY <1>2, <1>3, <1>4, <1>5, <1>6, <1>7 DEF RunStep

\* What a client does leaves the slots of goroutines alone.
LEMMA ClientCalls ==
    ASSUME TypeOK, NEW s \in Clients, ClientStart(s) \/ ClientProceed(s) \/ ClientFails(s)
    PROVE  \A a \in Attempts : calls'[a] = calls[a]
<1> USE SlotKinds DEF TypeOK
<1>1. CASE ClientStart(s)
  BY <1>1 DEF ClientStart, Start, StartRun, CreateSchedule, UpdateRead, DeleteRead,
     RunRead, Enter
<1>2. CASE ClientProceed(s)
  BY <1>2 DEF ClientProceed, Proceed, CreatePersist, UpdateWrite, Unschedule, EraseRow,
     RunNotFound, RunSend, Goto, Return
<1>3. CASE ClientFails(s)
  BY <1>3 DEF ClientFails, CallFails, Return
<1> QED BY <1>1, <1>2, <1>3

LEMMA SystemSlots ==
    ASSUME RunsInv, [SystemNext]_handlerVars
    PROVE  SlotsAreOwn'
<1> USE SlotKinds DEF RunsInv, HandlerTypeOK
<1>1. calls \in [Slots -> Call] /\ TypeOK
  BY DEF TypeOK, Call
<1>2. ASSUME \A a \in Attempts : /\ calls'[a] = calls[a]
                                 /\ \/ runs'[a] = runs[a]
                                    \/ /\ runs[a].pc # "persisting"
                                       /\ runs'[a].pc # "persisting"
      PROVE  SlotsAreOwn'
  BY <1>2 DEF SlotsAreOwn
<1>3. \A a \in FreeAttempts : runs[a].pc # "persisting" /\ NoRun.pc # "persisting"
  BY DEF FreeAttempts, NoRun
<1>4. ASSUME NEW s \in Clients, ClientStart(s) \/ ClientProceed(s) \/ ClientFails(s)
      PROVE  SlotsAreOwn'
  <2>1. \A a \in Attempts : calls'[a] = calls[a]
    BY <1>1, <1>4, ClientCalls
  <2>2. UNCHANGED runs \/ \E b \in FreeAttempts : runs' = [runs EXCEPT ![b] = NoRun]
    BY <1>4 DEF ClientStart, ClientProceed, ClientFails
  <2> QED BY <1>2, <1>3, <2>1, <2>2 DEF FreeAttempts
<1>5. ASSUME NEW id \in Ids, CloudStep(id)
      PROVE  SlotsAreOwn'
  <2>1. UNCHANGED calls /\ \E b \in FreeAttempts : runs' = [runs EXCEPT ![b] = NoRun]
    BY <1>5 DEF CloudStep, DispatchDue, serviceVars
  <2> QED BY <1>2, <1>3, <2>1 DEF FreeAttempts
<1>6. ASSUME NEW a \in Attempts, Handle(a)
      PROVE  SlotsAreOwn'
  <2>1. UNCHANGED calls
    BY <1>6 DEF Handle, HandleStart, HandleSkip, HandleError, HandleAnswer, vars,
       serviceVars
  <2>2. UNCHANGED runs \/ HandleStart(a)
    BY <1>6 DEF Handle, HandleSkip, HandleError, HandleAnswer
  <2>3. CASE HandleStart(a)
    <3>1. runs[a].pc = "none" /\ runs'[a].pc \in {"initial", "prompt"}
      BY <2>3 DEF HandleStart, Arrived
    <3>2. \A b \in Attempts \ {a} : runs'[b] = runs[b]
      BY <2>3 DEF HandleStart
    <3> QED BY <1>2, <2>1, <3>1, <3>2
  <2> QED BY <1>2, <2>1, <2>2, <2>3
<1>7. ASSUME NEW a \in Attempts, CallAgentInitial(a) \/ CallAgentPrompt(a)
      PROVE  SlotsAreOwn'
  <2>1. UNCHANGED calls
    BY <1>7 DEF CallAgentInitial, CallAgentPrompt, Delivered, CallAgentFails, vars,
       serviceVars
  <2>2. /\ \A b \in Attempts \ {a} : runs'[b] = runs[b]
        /\ runs[a].pc \in {"initial", "prompt"}
    BY <1>7 DEF CallAgentInitial, CallAgentPrompt, Delivered, CallAgentFails
  <2>3. runs'[a].pc # "persisting"
    <3>1. RunStep(a)
      BY SystemRunStep
    <3>2. \/ runs'[a] = runs[a]
          \/ Advances(a)
          \/ Ends(a)
      BY <2>2, <3>1 DEF RunStep, Frees, Begins, HandleStart, Arrived, Records
    <3>3. runs[a] \in Run
      OBVIOUS
    <3>4. CASE Advances(a)
      BY <3>3, <3>4 DEF Advances, Sends, Run
    <3>5. CASE Ends(a)
      <4>1. PICK sent \in SUBSET Messages :
               runs'[a] = Finished([runs[a] EXCEPT !.sent = sent])
        BY <3>5 DEF Ends
      <4>2. [runs[a] EXCEPT !.sent = sent] \in Run
        BY <3>3 DEF Run
      <4> QED BY <4>1, <4>2, FinishedType
    <3> QED BY <2>2, <3>2, <3>4, <3>5
  <2> QED BY <1>2, <2>1, <2>2, <2>3
<1>8. ASSUME NEW a \in Attempts, PersistRead(a)
      PROVE  SlotsAreOwn'
  <2>1. /\ runs'[a].pc = "persisting" /\ runs'[a].id = runs[a].id
        /\ \A b \in Attempts \ {a} : runs'[b] = runs[b]
    BY <1>8 DEF PersistRead, Run
  <2>2. /\ calls'[a].pc = "write" /\ calls'[a].id = runs[a].id
        /\ \A b \in Attempts \ {a} : calls'[b] = calls[b]
    BY <1>1, <1>8 DEF PersistRead, UpdateRead, Enter
  <2> QED BY <2>1, <2>2 DEF SlotsAreOwn
<1>9. ASSUME NEW a \in Attempts, PersistWrite(a) \/ PersistFails(a)
      PROVE  SlotsAreOwn'
  <2>1. /\ runs'[a] = Finished(runs[a])
        /\ \A b \in Attempts \ {a} : runs'[b] = runs[b]
    BY <1>9 DEF PersistWrite, PersistFails
  <2>2. /\ calls'[a].pc = "idle"
        /\ \A b \in Attempts \ {a} : calls'[b] = calls[b]
    BY <1>1, <1>9 DEF PersistWrite, PersistFails, UpdateWrite, CallFails, Return, Idle,
       serviceVars, SlotsAreOwn
  <2> QED BY <2>1, <2>2, FinishedType DEF SlotsAreOwn
<1>10. CASE Crash
  <2>1. \A a \in Attempts : runs'[a].pc # "persisting" /\ calls'[a].pc = "idle"
    BY <1>10, FinishedType DEF Crash, Idle, NoRun
  <2> QED BY <2>1 DEF SlotsAreOwn
<1>11. CASE UNCHANGED handlerVars
  BY <1>11 DEF handlerVars, vars, serviceVars, SlotsAreOwn
<1> QED
  BY <1>4, <1>5, <1>6, <1>7, <1>8, <1>9, <1>10, <1>11
     DEF SystemNext, HandlerNext, Goroutine

LEMMA NextRuns ==
    ASSUME RunsInv, [SystemNext]_handlerVars
    PROVE  RunsInv'
<1>1. /\ runs' = [a \in Attempts |-> runs'[a]]
      /\ \A a \in Attempts : RunStep(a)
  BY SystemRunStep
<1>2. \A a \in Attempts : runs'[a] \in Run
  BY <1>1, RunType
<1>3. HandlerTypeOK'
  BY <1>1, <1>2, SystemServiceType DEF HandlerTypeOK, Run
<1>4. RunsAreWhole'
  BY <1>1, RunType DEF RunsAreWhole, NoRun
<1>5. RunsFollowPosts'
  <2>1. SUFFICES ASSUME NEW a \in Attempts, posts'[a] # None, runs'[a].pc # "none"
                 PROVE  runs'[a].id = posts'[a]
    BY DEF RunsFollowPosts
  <2>2. runs'[a] # NoRun
    BY <2>1 DEF NoRun
  <2>3. posts'[a] = posts[a]
    BY <2>1, <2>2, SystemPostStep
  <2>4. CASE runs[a].pc # "none"
    BY <1>1, <2>1, <2>2, <2>3, <2>4, RunKept DEF RunsInv, RunsFollowPosts
  <2>5. CASE runs[a].pc = "none"
    <3>1. Begins(a)
      BY <1>1, <2>1, <2>2, <2>5 DEF RunStep, Frees, Advances, Records, Ends
    <3> QED BY <2>3, <3>1 DEF Begins
  <2> QED BY <2>4, <2>5
<1> QED BY <1>3, <1>4, <1>5, SystemSlots DEF RunsInv

LEMMA InitRuns == HandlerInit => RunsInv
<1> SUFFICES ASSUME HandlerInit
             PROVE  RunsInv
  OBVIOUS
<1>1. HandlerTypeOK
  BY InitType, NoRunType DEF HandlerInit, HandlerTypeOK
<1>2. \A a \in Attempts : runs[a] = NoRun /\ NoRun.pc = "none"
  BY DEF HandlerInit, NoRun
<1>3. \A a \in Attempts : calls[a].pc = "idle"
  BY SlotKinds DEF HandlerInit, Init, Idle
<1>4. RunsAreWhole /\ RunsFollowPosts /\ SlotsAreOwn
  BY <1>2, <1>3 DEF RunsAreWhole, RunsFollowPosts, SlotsAreOwn
<1> QED BY <1>1, <1>4 DEF RunsInv

(***************************************************************************)
(* In every state an execution belongs to the POST of its slot, has sent   *)
(* its prompt before it is recorded, and a goroutine's call slot holds its *)
(* own UpdateCron or nothing, whatever fails, crashes or is retried.       *)
(***************************************************************************)
THEOREM RunsInvariant == SystemSpec => []RunsInv
BY InitRuns, NextRuns, PTL DEF SystemSpec

\* Service, cloud services and executions keep their types.
THEOREM SystemTypeCorrect == SystemSpec => []HandlerTypeOK
<1>1. RunsInv => HandlerTypeOK
  BY DEF RunsInv
<1> QED BY <1>1, RunsInvariant, PTL

-----------------------------------------------------------------------------
(***************************************************************************)
(* LinkInv is inductive if no update request names the type.               *)
(***************************************************************************)
LEMMA RequestTypes ==
    ASSUME RunsInv, NEW s \in Slots, NEW u \in Requests(s)
    PROVE  /\ u.cron \in Cron
           /\ u.mask \in SUBSET Paths
           /\ TypesStable => "type" \notin u.mask
           /\ TimingStable => u.mask \cap {"type", "schedule"} = {}
<1>1. CASE s \in Clients
  BY <1>1, RequestsAssumption DEF Requests, TypesStable, TimingStable
<1>2. CASE s \notin Clients
  <2>1. runs[s] \in Run
    BY <1>2, SlotKinds DEF RunsInv, HandlerTypeOK
  <2> QED BY <1>2, <2>1, PersistCronType DEF Requests
<1> QED BY <1>1, <1>2

LEMMA OutsideKeeps ==
    ASSUME TypeOK, Outside \/ Crash
    PROVE  CallsLess /\ RowsLess /\ PoliciesKept /\ ScheduledLess /\ UNCHANGED table
<1>1. CASE Outside
  BY <1>1 DEF Outside, CallsLess, RowsLess, PoliciesKept, ScheduledLess
<1>2. CASE Crash
  BY <1>2 DEF Crash, Idle, CallsLess, RowsLess, PoliciesKept, ScheduledLess, TypeOK
<1> QED BY <1>1, <1>2

LEMMA SystemServiceInv ==
    ASSUME TypesStable, ServiceInv, RunsInv, [SystemNext]_handlerVars
    PROVE  ServiceInv'
<1>1. ASSUME NEW s \in Clients, StartsCreate(s) \/ StartsRead(s) \/ CreatePersist(s)
      PROVE  ServiceInv'
  <2>1. s \in Slots
    BY SlotKinds
  <2>2. CASE StartsCreate(s)
    BY <2>1, <2>2, CreateScheduleInv, RequestsAssumption DEF StartsCreate
  <2>3. CASE StartsRead(s)
    BY <2>1, <2>3, ReadInv DEF StartsRead
  <2>4. CASE CreatePersist(s)
    BY <2>1, <2>4, CreatePersistInv
  <2> QED BY <1>1, <2>2, <2>3, <2>4
<1>2. ASSUME NEW s \in Slots, StartsUpdate(s)
      PROVE  ServiceInv'
  <2>1. PICK caller \in Identities, id \in Ids, u \in Requests(s) :
           UpdateRead(s, caller, id, u.cron, u.mask)
    BY <1>2 DEF StartsUpdate
  <2> QED BY <2>1, RequestTypes, UpdateReadInv
<1>3. ASSUME NEW s \in Slots, Later(s)
      PROVE  ServiceInv'
  BY <1>3, UpdateWriteInv, UnscheduleInv, EraseRowInv, RunEndInv DEF Later
<1>4. CASE Outside \/ Crash
  <2>1. TypeOK /\ TypeOK'
    BY SystemServiceType DEF ServiceInv
  <2>2. ScheduledLess /\ RowsWritten
    BY <1>4, <2>1, OutsideKeeps DEF RowsWritten
  <2>3. CallsWritten
    BY <1>4 DEF Outside, Crash, Idle, CallsWritten
  <2> QED BY <2>1, <2>2, <2>3, InvStep
<1> QED BY <1>1, <1>2, <1>3, <1>4, SystemServiceStep DEF ServiceStep

LEMMA SystemAlone ==
    ASSUME ServiceInv, CreatingIsAlone, RunsInv, [SystemNext]_handlerVars
    PROVE  CreatingIsAlone'
<1> USE DEF ServiceInv
<1>1. ASSUME NEW s \in Clients, StartsCreate(s) \/ CreatePersist(s)
      PROVE  CreatingIsAlone'
  <2>1. s \in Slots
    BY SlotKinds
  <2> QED
    BY <1>1, <2>1, AloneCreate, AlonePersist, RequestsAssumption DEF StartsCreate
<1>2. ASSUME NEW s \in Slots, NEW id \in Ids,
             \/ \E caller, cron, mask : UpdateRead(s, caller, id, cron, mask)
             \/ \E caller : DeleteRead(s, caller, id) \/ RunRead(s, caller, id)
      PROVE  CreatingIsAlone'
  <2>1. table[id] # None /\ UNCHANGED table
    BY <1>2 DEF UpdateRead, DeleteRead, RunRead, Readable, cloudVars
  <2>2. \E by, cron, mask : \E pc \in {"write", "unschedule", "erase", "run"} :
           Enter(s, pc, by, id, cron, mask)
    BY <1>2 DEF UpdateRead, DeleteRead, RunRead
  <2> QED BY <2>1, <2>2, AloneEnter
<1>3. ASSUME NEW s \in Clients, StartsRead(s)
      PROVE  CreatingIsAlone'
  BY <1>2, <1>3, SlotKinds DEF StartsRead
<1>4. ASSUME NEW s \in Slots, StartsUpdate(s)
      PROVE  CreatingIsAlone'
  BY <1>2, <1>4 DEF StartsUpdate
<1>5. ASSUME NEW s \in Slots, Later(s)
      PROVE  CreatingIsAlone'
  <2>1. CallsLess /\ PoliciesKept
    BY <1>5, LaterSteps DEF Later
  <2>2. RowsLess
    BY <2>1, SystemServiceType DEF PoliciesKept, RowsLess
  <2> QED BY <2>1, <2>2, AloneLess
<1>6. CASE Outside \/ Crash
  BY <1>6, OutsideKeeps, AloneLess
<1> QED BY <1>1, <1>3, <1>4, <1>5, <1>6, SystemServiceStep DEF ServiceStep

LEMMA SystemBound ==
    ASSUME AuthorityInv, RunsInv, [SystemNext]_handlerVars
    PROVE  CallersAreBound'
<1> USE DEF AuthorityInv, ServiceInv
<1>1. ASSUME NEW s \in Clients, StartsCreate(s)
      PROVE  CallersAreBound'
  <2>1. s \in Slots /\ calls[s].pc = "idle"
    BY <1>1, SlotKinds DEF StartsCreate, CreateSchedule
  <2>2. /\ UNCHANGED table
        /\ \A r \in Slots \ {s} : calls'[r] = calls[r]
        /\ calls'[s] = calls[s] \/ calls'[s].pc = "persist"
    BY <1>1, <2>1 DEF StartsCreate, CreateSchedule, Enter, TypeOK
  <2> QED BY <2>1, <2>2, BoundEnter
<1>2. ASSUME NEW s \in Slots, NEW caller \in Identities, NEW id \in Ids,
             \/ \E cron, mask : UpdateRead(s, caller, id, cron, mask)
             \/ DeleteRead(s, caller, id) \/ RunRead(s, caller, id)
      PROVE  CallersAreBound'
  <2>1. UNCHANGED table
    BY <1>2 DEF UpdateRead, DeleteRead, RunRead, cloudVars
  <2>2. caller \in table[id].policy \cup {System}
    BY <1>2 DEF UpdateRead, DeleteRead, RunRead, Readable, HasPermission,
       OpenPermissions
  <2>3. /\ calls'[s].id = id /\ calls'[s].caller = caller
        /\ \A r \in Slots \ {s} : calls'[r] = calls[r]
    BY <1>2 DEF UpdateRead, DeleteRead, RunRead, Enter, TypeOK
  <2> QED BY <2>1, <2>2, <2>3, BoundEnter
<1>3. ASSUME NEW s \in Clients, StartsRead(s)
      PROVE  CallersAreBound'
  BY <1>2, <1>3, SlotKinds DEF StartsRead
<1>4. ASSUME NEW s \in Slots, StartsUpdate(s)
      PROVE  CallersAreBound'
  BY <1>2, <1>4 DEF StartsUpdate
<1>5. ASSUME NEW s \in Clients, CreatePersist(s)
      PROVE  CallersAreBound'
  BY <1>5, BoundPersist, SlotKinds
<1>6. ASSUME NEW s \in Slots, Later(s)
      PROVE  CallersAreBound'
  BY <1>6, LaterSteps, BoundLess DEF Later
<1>7. CASE Outside \/ Crash
  BY <1>7, OutsideKeeps, BoundLess
<1> QED BY <1>1, <1>3, <1>4, <1>5, <1>6, <1>7, SystemServiceStep DEF ServiceStep

LEMMA SystemAuthority ==
    ASSUME TypesStable, AuthorityInv, RunsInv, [SystemNext]_handlerVars
    PROVE  AuthorityInv'
BY SystemServiceInv, SystemAlone, SystemBound DEF AuthorityInv

\* A CreateCron in flight was in flight before, or has just drawn a fresh id.
LEMMA CreatingStep ==
    ASSUME RunsInv, [SystemNext]_handlerVars, NEW s \in Slots, calls'[s].pc = "persist"
    PROVE  \/ calls'[s] = calls[s]
           \/ \E caller \in Identities, id \in Ids, req \in Creates :
                 /\ CreateSchedule(s, caller, req, id)
                 /\ calls'[s].id = id
                 /\ calls'[s].cron = NewCron(req, caller)
<1> USE DEF RunsInv, HandlerTypeOK
<1>1. calls \in [Slots -> Call]
  BY DEF TypeOK, Call
<1>2. ASSUME NEW r \in Clients, StartsCreate(r)
      PROVE  \/ calls'[s] = calls[s]
             \/ \E caller \in Identities, id \in Ids, req \in Creates :
                   /\ CreateSchedule(s, caller, req, id)
                   /\ calls'[s].id = id
                   /\ calls'[s].cron = NewCron(req, caller)
  <2>1. PICK caller \in Identities, id \in Ids, req \in Creates :
           CreateSchedule(r, caller, req, id)
    BY <1>2 DEF StartsCreate
  <2>2. UNCHANGED calls \/ Enter(r, "persist", caller, id, NewCron(req, caller), {})
    BY <2>1 DEF CreateSchedule
  <2>3. CASE Enter(r, "persist", caller, id, NewCron(req, caller), {}) /\ r = s
    BY <1>1, <2>1, <2>3 DEF Enter
  <2> QED BY <1>1, <2>2, <2>3 DEF Enter
<1>3. ASSUME NEW r \in Slots, StartsUpdate(r) \/ StartsRead(r)
      PROVE  calls'[s] = calls[s]
  BY <1>1, <1>3 DEF StartsUpdate, StartsRead, UpdateRead, DeleteRead, RunRead, Enter
<1>4. ASSUME NEW r \in Slots, CreatePersist(r)
      PROVE  calls'[s] = calls[s]
  BY <1>1, <1>4 DEF CreatePersist, Return, Idle
<1>5. ASSUME CallsLess
      PROVE  calls'[s] = calls[s]
  <2>1. CASE /\ calls[s].pc = "unschedule"
             /\ calls'[s] = [calls[s] EXCEPT !.pc = "erase"]
    BY <2>1, BusyCall DEF InFlight
  <2> QED BY <1>5, <2>1 DEF CallsLess
<1>6. ASSUME NEW r \in Slots, Later(r)
      PROVE  calls'[s] = calls[s]
  BY <1>5, <1>6, LaterSteps DEF Later
<1> QED
  BY <1>2, <1>3, <1>4, <1>5, <1>6, SlotKinds, OutsideKeeps, SystemServiceStep
     DEF ServiceStep

LEMMA IssuedKept ==
    ASSUME RunsInv, [SystemNext]_handlerVars
    PROVE  issued \subseteq issued'
<1>1. ASSUME NEW s \in Slots, Later(s) \/ StartsUpdate(s)
      PROVE  UNCHANGED issued
  BY <1>1 DEF Later, UpdateWrite, Unschedule, EraseRow, RunNotFound, CallFails, RunSend,
     StartsUpdate, UpdateRead
<1>2. ASSUME NEW s \in Clients, StartsCreate(s) \/ StartsRead(s) \/ CreatePersist(s)
      PROVE  issued \subseteq issued'
  BY <1>2 DEF StartsCreate, CreateSchedule, StartsRead, DeleteRead, RunRead, CreatePersist
<1> QED BY <1>1, <1>2, SystemServiceStep DEF ServiceStep, Outside, Crash

\* What is past its creation stays so.
LEMMA CreatedKept ==
    ASSUME RunsInv, [SystemNext]_handlerVars, NEW id \in Ids,
           id \in issued, \A s \in Slots : ~Creating(s, id)
    PROVE  id \in issued' /\ \A s \in Slots : ~(calls'[s].pc = "persist" /\ calls'[s].id = id)
<1>1. id \in issued'
  BY IssuedKept
<1>2. ASSUME NEW s \in Slots, calls'[s].pc = "persist", calls'[s].id = id
      PROVE  FALSE
  BY <1>2, CreatingStep DEF Creating, CreateSchedule
<1> QED BY <1>1, <1>2

\* A stored cron is past its creation.
LEMMA StoredIsCreated ==
    ASSUME AuthorityInv, NEW id \in Ids, table[id] # None
    PROVE  id \in issued /\ \A s \in Slots : ~Creating(s, id)
BY DEF AuthorityInv, ServiceInv, UnissuedIsUnknown, CreatingIsAlone, Creating

LEMMA SystemCreated ==
    ASSUME AuthorityInv, RunsInv, RunsAreCreated, [SystemNext]_handlerVars
    PROVE  RunsAreCreated'
<1>1. SUFFICES ASSUME NEW a \in Attempts, runs'[a].pc # "none"
               PROVE  /\ runs'[a].id \in issued'
                      /\ \A s \in Slots :
                            ~(calls'[s].pc = "persist" /\ calls'[s].id = runs'[a].id)
  BY DEF RunsAreCreated, Creating
<1>2. /\ RunStep(a)
      /\ runs[a].pc = "none" => runs[a] = NoRun
      /\ runs[a].pc # "none" => runs[a].id \in Ids
  BY SystemRunStep DEF RunsInv, RunsAreWhole
<1>3. CASE runs[a].pc # "none"
  <2>1. runs'[a].id = runs[a].id
    BY <1>1, <1>2, <1>3, RunKept DEF NoRun
  <2> QED BY <1>2, <1>3, <2>1, CreatedKept DEF RunsAreCreated
<1>4. CASE runs[a].pc = "none"
  <2>1. Begins(a)
    BY <1>1, <1>2, <1>4 DEF RunStep, Frees, Advances, Records, Ends, NoRun
  <2>2. posts[a] \in Ids /\ table[posts[a]] # None /\ runs'[a].id = posts[a]
    BY <2>1 DEF Begins, HandleStart, Arrived, CanGet, Readable, RunsInv, HandlerTypeOK,
       TypeOK, CloudTypeOK
  <2> QED BY <2>2, StoredIsCreated, CreatedKept
<1> QED BY <1>3, <1>4

\* The task of a cron that is being created is nobody else's to remove.
LEMMA EarlyTaskKept ==
    ASSUME LinkInv, [SystemNext]_handlerVars, NEW s \in Slots, NEW id \in Ids,
           Creating(s, id)
    PROVE  tasks'[id] = tasks[id]
<1> USE SlotKinds DEF LinkInv, AuthorityInv, ServiceInv
<1>1. /\ id \in issued /\ table[id] = None
      /\ \A r \in Slots \ {s} : calls[r].pc = "idle" \/ calls[r].id # id
  BY DEF CallsBacked, CreatingIsAlone, Creating
<1>2. tasks \in [Ids -> Schedules \cup {None}] /\ posts \in [Attempts -> Ids \cup {None}]
  BY DEF TypeOK, CloudTypeOK
<1>3. ASSUME NEW r \in Clients, ClientStart(r)
      PROVE  tasks'[id] = tasks[id]
  BY <1>1, <1>2, <1>3 DEF ClientStart, Start, StartRun, CreateSchedule, CreateTask,
     UpdateRead, DeleteRead, RunRead, cloudVars
<1>4. ASSUME NEW r \in Clients, ClientProceed(r) \/ ClientFails(r)
      PROVE  tasks'[id] = tasks[id]
  <2>1. CASE Unschedule(r)
    <3>1. calls[r].id # id
      BY <1>1, <2>1 DEF Unschedule, Creating
    <3> QED BY <1>2, <2>1, <3>1 DEF Unschedule, DeleteTask
  <2> QED
    BY <1>4, <2>1 DEF ClientProceed, ClientFails, Proceed, CreatePersist, UpdateWrite,
       EraseRow, RunNotFound, RunSend, CallFails, cloudVars
<1>5. ASSUME NEW i \in Ids, CloudStep(i)
      PROVE  tasks'[id] = tasks[id]
  BY <1>5 DEF CloudStep, DispatchDue, Due
<1>6. ASSUME NEW a \in Attempts, NEW ok \in BOOLEAN, Answered(a, ok), ok => posts[a] # id
      PROVE  tasks'[id] = tasks[id]
  BY <1>2, <1>6 DEF Answered, DeleteTask
<1>7. ASSUME NEW a \in Attempts, Handle(a)
      PROVE  tasks'[id] = tasks[id]
  <2>1. CASE HandleStart(a)
    BY <2>1 DEF HandleStart, vars, cloudVars
  <2>2. CASE HandleSkip(a)
    <3>1. posts[a] # id
      BY <1>1, <2>2 DEF HandleSkip, CanGet, Readable
    <3> QED BY <1>6, <2>2, <3>1 DEF HandleSkip
  <2>3. CASE HandleError(a)
    BY <1>6, <2>3 DEF HandleError
  <2>4. CASE HandleAnswer(a)
    <3>1. runs[a].id = posts[a] /\ runs[a].id # id
      BY <2>4 DEF HandleAnswer, RunsInv, RunsFollowPosts, RunsAreCreated
    <3> QED BY <1>6, <2>4, <3>1 DEF HandleAnswer
  <2> QED BY <1>7, <2>1, <2>2, <2>3, <2>4 DEF Handle
<1>8. ASSUME NEW a \in Attempts, Goroutine(a)
      PROVE  tasks'[id] = tasks[id]
  BY <1>8 DEF Goroutine, CallAgentInitial, CallAgentPrompt, Delivered, CallAgentFails,
     PersistRead, PersistWrite, PersistFails, UpdateRead, UpdateWrite, CallFails, vars,
     cloudVars
<1>9. CASE Crash \/ UNCHANGED handlerVars
  BY <1>9 DEF Crash, handlerVars, vars, cloudVars
<1> QED
  BY <1>3, <1>4, <1>5, <1>7, <1>8, <1>9 DEF SystemNext, HandlerNext

LEMMA SystemEarlyTask ==
    ASSUME LinkInv, [SystemNext]_handlerVars
    PROVE  EarlyTaskSurvives'
<1>1. SUFFICES ASSUME NEW id \in Ids, NEW s \in Slots, calls'[s].pc = "persist",
                      calls'[s].id = id, calls'[s].cron.type = "TYPE_AT"
               PROVE  tasks'[id] # None
  BY DEF EarlyTaskSurvives, Creating
<1>2. CASE calls'[s] = calls[s]
  BY <1>1, <1>2, EarlyTaskKept DEF LinkInv, EarlyTaskSurvives, Creating
<1>3. CASE \E caller \in Identities, i \in Ids, req \in Creates :
              /\ CreateSchedule(s, caller, req, i)
              /\ calls'[s].id = i
              /\ calls'[s].cron = NewCron(req, caller)
  <2>1. PICK caller \in Identities, req \in Creates :
              /\ CreateSchedule(s, caller, req, id)
              /\ calls'[s].cron = NewCron(req, caller)
    BY <1>1, <1>3
  <2>2. req.type = "TYPE_AT"
    BY <1>1, <2>1, RequestsAssumption DEF NewCron, Cron
  <2>3. tasks' = [tasks EXCEPT ![id] = req.schedule] /\ req.schedule # None
    BY <2>1, <2>2 DEF CreateSchedule, CreateTask, ValidCron
  <2> QED BY <2>3 DEF LinkInv, AuthorityInv, ServiceInv, TypeOK, CloudTypeOK
<1> QED BY <1>1, <1>2, <1>3, CreatingStep DEF LinkInv

LEMMA NextLink ==
    ASSUME TypesStable, LinkInv, [SystemNext]_handlerVars
    PROVE  LinkInv'
BY SystemAuthority, NextRuns, SystemCreated, SystemEarlyTask DEF LinkInv

LEMMA InitLink == HandlerInit => LinkInv
<1>1. HandlerInit => AuthorityInv /\ RunsInv
  BY InitAuthority, InitRuns DEF HandlerInit
<1>2. HandlerInit => RunsAreCreated /\ EarlyTaskSurvives
  BY DEF HandlerInit, Init, Idle, NoRun, RunsAreCreated, EarlyTaskSurvives, Creating
<1> QED BY <1>1, <1>2 DEF LinkInv

(***************************************************************************)
(* If no update request names the type, what AuthorityInv says of the      *)
(* service holds in the deployment too, whatever crashes, and an executed  *)
(* cron is past its creation.                                              *)
(***************************************************************************)
THEOREM LinkInvariant ==
    ASSUME TypesStable
    PROVE  SystemSpec => []LinkInv
BY InitLink, NextLink, PTL DEF SystemSpec

(***************************************************************************)
(* A task that fires before CreateCron has inserted the row is not lost:   *)
(* no POST of it can be answered with a success.                           *)
(***************************************************************************)
THEOREM EarlyTasksSurvive ==
    ASSUME TypesStable
    PROVE  SystemSpec => []EarlyTaskSurvives
<1>1. LinkInv => EarlyTaskSurvives
  BY DEF LinkInv
<1> QED BY <1>1, LinkInvariant, PTL

\* A step meets at most one fault.
LEMMA FaultStep ==
    ASSUME RunsInv, [SystemNext]_handlerVars
    PROVE  faults \in Nat /\ faults' \in {faults, faults + 1}
<1>1. ASSUME NEW s \in Clients, ClientStart(s) \/ ClientProceed(s) \/ ClientFails(s)
      PROVE  faults' \in {faults, faults + 1}
  BY <1>1 DEF ClientStart, Start, StartRun, CreateSchedule, UpdateRead, DeleteRead, RunRead,
     ClientProceed, Proceed, CreatePersist, UpdateWrite, Unschedule, EraseRow, RunNotFound,
     RunSend, ClientFails, CallFails, cloudVars, Fault, Reply
<1>2. ASSUME NEW id \in Ids, CloudStep(id)
      PROVE  faults' \in {faults, faults + 1}
  BY <1>2 DEF CloudStep, DispatchDue, Due
<1>3. ASSUME NEW a \in Attempts, Handle(a)
      PROVE  faults' \in {faults, faults + 1}
  BY <1>3 DEF Handle, HandleStart, HandleSkip, HandleError, HandleAnswer, vars, cloudVars,
     Fault, Reply
<1>4. ASSUME NEW a \in Attempts, Goroutine(a)
      PROVE  faults' \in {faults, faults + 1}
  BY <1>4 DEF Goroutine, CallAgentInitial, CallAgentPrompt, Delivered, CallAgentFails,
     PersistRead, PersistWrite, PersistFails, UpdateRead, UpdateWrite, CallFails, vars,
     cloudVars, Fault, Reply
<1>5. ASSUME Crash \/ UNCHANGED handlerVars
      PROVE  faults' \in {faults, faults + 1}
  BY <1>5 DEF Crash, handlerVars, vars, cloudVars, Fault
<1>6. faults \in Nat
  BY FaultsAssumption DEF RunsInv, HandlerTypeOK, TypeOK, CloudTypeOK
<1>7. faults' \in {faults, faults + 1}
  BY <1>1, <1>2, <1>3, <1>4, <1>5 DEF SystemNext, HandlerNext
<1> QED BY <1>6, <1>7

-----------------------------------------------------------------------------
(***************************************************************************)
(* What the service alone promises of the table, it still promises when    *)
(* executions write to it and the process crashes.                         *)
(***************************************************************************)
\* Three calls write to the table.
LEMMA TableWrite ==
    ASSUME RunsInv, [SystemNext]_handlerVars, table' # table
    PROVE  \E s \in Slots : CreatePersist(s) \/ UpdateWrite(s) \/ EraseRow(s)
<1>1. ASSUME NEW r \in Clients, StartsCreate(r) \/ StartsRead(r)
      PROVE  UNCHANGED table
  BY <1>1 DEF StartsCreate, StartsRead, CreateSchedule, DeleteRead, RunRead, cloudVars
<1>2. ASSUME NEW r \in Slots, StartsUpdate(r)
      PROVE  UNCHANGED table
  BY <1>2 DEF StartsUpdate, UpdateRead, cloudVars
<1>3. ASSUME NEW r \in Slots, Later(r), ~UpdateWrite(r), ~EraseRow(r)
      PROVE  UNCHANGED table
  BY <1>3 DEF Later, Unschedule, RunNotFound, CallFails, RunSend, cloudVars
<1>4. ASSUME Outside \/ Crash
      PROVE  UNCHANGED table
  BY <1>4 DEF Outside, Crash
<1> QED
  BY <1>1, <1>2, <1>3, <1>4, SlotKinds, SystemServiceStep DEF ServiceStep

Inserts(s, id) ==
    /\ calls[s].pc = "persist"
    /\ table'[id] = [cron |-> calls[s].cron, policy |-> {calls[s].caller}]

Rewrites(s, id) ==
    /\ calls[s].pc = "write"
    /\ table[id] # None
    /\ table'[id] = [table[id] EXCEPT !.cron = calls[s].cron]

Erases(s, id) == calls[s].pc = "erase" /\ table'[id] = None

LEMMA RowStep ==
    ASSUME RunsInv, [SystemNext]_handlerVars, NEW id \in Ids, table'[id] # table[id]
    PROVE  \E s \in Slots :
              /\ calls[s].id = id
              /\ Inserts(s, id) \/ Rewrites(s, id) \/ Erases(s, id)
<1> USE SlotKinds DEF RunsInv, HandlerTypeOK
<1>1. PICK s \in Slots : CreatePersist(s) \/ UpdateWrite(s) \/ EraseRow(s)
  BY TableWrite
<1>2. table \in [Ids -> Row \cup {None}]
  BY DEF TypeOK, CloudTypeOK
<1>3. CASE CreatePersist(s)
  BY <1>2, <1>3 DEF CreatePersist, Insert, Inserts
<1>4. CASE UpdateWrite(s)
  BY <1>2, <1>4 DEF UpdateWrite, UpdateRow, Rewrites
<1>5. CASE EraseRow(s)
  BY <1>2, <1>5 DEF EraseRow, DeleteRow, Erases
<1> QED BY <1>1, <1>3, <1>4, <1>5

\* A row that is rewritten stays, with its policy.
LEMMA RewrittenRow ==
    ASSUME TypeOK, NEW s \in Slots, NEW id \in Ids, calls[s].id = id, Rewrites(s, id)
    PROVE  /\ table'[id] # None
           /\ table'[id].cron = calls[s].cron
           /\ table'[id].policy = table[id].policy
<1>1. table[id] \in Row /\ calls[s].cron \in Cron
  BY StoredRow, BusyCall DEF Rewrites, InFlight
<1>2. table'[id] \in Row
  BY <1>1 DEF Rewrites, Row
<1> QED BY <1>1, <1>2, RowIsNotNone DEF Rewrites, Row

LEMMA InsertedRow ==
    ASSUME TypeOK, NEW s \in Slots, NEW id \in Ids, Inserts(s, id)
    PROVE  table'[id] # None /\ table'[id].cron = calls[s].cron
<1>1. table'[id] \in Row
  BY BusyCall DEF Inserts, InFlight, Row
<1> QED BY <1>1, RowIsNotNone DEF Inserts

\* A row that goes leaves neither job nor task.
LEMMA SystemErases ==
    ASSUME LinkInv, [SystemNext]_handlerVars, NEW id \in Ids,
           table[id] # None, table'[id] = None
    PROVE  jobs[id] = None /\ tasks[id] = None
<1> USE DEF LinkInv, AuthorityInv, ServiceInv
<1>1. PICK s \in Slots :
         /\ calls[s].id = id
         /\ Inserts(s, id) \/ Rewrites(s, id) \/ Erases(s, id)
  BY RowStep
<1>2. Erases(s, id)
  BY <1>1, RewrittenRow, InsertedRow
<1> QED BY <1>1, <1>2 DEF Erases, ErasingIsClean

(***************************************************************************)
(* When a cron is deleted while goroutines record executions of it, its    *)
(* job and its task are gone with the row.                                 *)
(***************************************************************************)
THEOREM DeploymentDeletesCompletely ==
    ASSUME TypesStable
    PROVE  SystemSpec => DeleteLeavesNothing
<1>1. LinkInv /\ [SystemNext]_handlerVars =>
         [\A id \in Ids : table[id] # None /\ table'[id] = None
                         => jobs[id] = None /\ tasks[id] = None]_vars
  BY SystemErases
<1> QED
  BY <1>1, LinkInvariant, PTL DEF SystemSpec, DeleteLeavesNothing

(***************************************************************************)
(* The write of a goroutine that outlives its cron cannot bring it back,   *)
(* whatever requests clients send.                                         *)
(***************************************************************************)
THEOREM DeploymentDeletesForGood == SystemSpec => NoResurrection
<1>1. ASSUME RunsInv, [SystemNext]_handlerVars, NEW id \in issued, table[id] = None,
             \A s \in Slots : ~Creating(s, id)
      PROVE  table'[id] = None
  <2> USE <1>1 DEF RunsInv, HandlerTypeOK, TypeOK
  <2>1. CASE table'[id] # table[id]
    <3>1. PICK s \in Slots :
             /\ calls[s].id = id
             /\ Inserts(s, id) \/ Rewrites(s, id) \/ Erases(s, id)
      BY <2>1, RowStep
    <3> QED BY <3>1 DEF Inserts, Rewrites, Erases, Creating
  <2> QED BY <2>1
<1>2. RunsInv /\ [SystemNext]_handlerVars =>
         [\A id \in issued :
             table[id] = None /\ (\A s \in Slots : ~Creating(s, id))
             => table'[id] = None]_vars
  BY <1>1
<1> QED
  BY <1>2, RunsInvariant, PTL DEF SystemSpec, NoResurrection

(***************************************************************************)
(* A goroutine writes with the handler's identity, so it too changes only  *)
(* crons whose policy binds that identity, unless it is the system's.      *)
(***************************************************************************)
THEOREM DeploymentWritesAreAuthorized ==
    ASSUME TypesStable
    PROVE  SystemSpec => AuthorizedWrites
<1>1. ASSUME LinkInv, [SystemNext]_handlerVars, NEW id \in Ids,
             table[id] # None, table'[id] # table[id]
      PROVE  /\ \E s \in Slots :
                   /\ calls[s].pc \in {"write", "erase"}
                   /\ calls[s].id = id
                   /\ calls[s].caller \in table[id].policy \cup {System}
             /\ table'[id] # None => table'[id].policy = table[id].policy
  <2> USE <1>1 DEF LinkInv, AuthorityInv, ServiceInv
  <2>1. PICK s \in Slots :
           /\ calls[s].id = id
           /\ Inserts(s, id) \/ Rewrites(s, id) \/ Erases(s, id)
    BY RowStep
  <2>2. Rewrites(s, id) \/ Erases(s, id)
    BY <2>1 DEF Inserts, CreatingIsAlone
  <2>3. calls[s].caller \in table[id].policy \cup {System}
    BY <2>1, <2>2 DEF Rewrites, Erases, CallersAreBound
  <2>4. table'[id] # None => table'[id].policy = table[id].policy
    BY <2>1, <2>2, RewrittenRow DEF Erases
  <2> QED BY <2>1, <2>2, <2>3, <2>4 DEF Rewrites, Erases
<1>2. LinkInv /\ [SystemNext]_handlerVars =>
         [\A id \in Ids :
             table[id] # None /\ table'[id] # table[id]
             => /\ \E s \in Slots :
                      /\ calls[s].pc \in {"write", "erase"}
                      /\ calls[s].id = id
                      /\ calls[s].caller \in table[id].policy \cup {System}
                /\ table'[id] # None => table'[id].policy = table[id].policy]_vars
  BY <1>1
<1> QED
  BY <1>2, LinkInvariant, PTL DEF SystemSpec, AuthorizedWrites

-----------------------------------------------------------------------------
(***************************************************************************)
(* The backing services agree with the table in the deployment too. A      *)
(* crash and a failed call are faults; any other step is one of the        *)
(* service, whichever slot takes it.                                       *)
(***************************************************************************)
LEMMA FaultyStep ==
    ASSUME RunsInv, [SystemNext]_handlerVars,
           Crash \/ \E s \in Slots : CallFails(s)
    PROVE  faults' > 0
<1>1. faults \in Nat
  BY FaultStep
<1> QED BY <1>1 DEF Crash, CallFails, Fault

LEMMA SystemOrphan ==
    ASSUME LinkInv, OrphanNeedsFault, [SystemNext]_handlerVars
    PROVE  OrphanNeedsFault'
<1> USE SlotKinds DEF LinkInv, AuthorityInv, ServiceInv
<1>1. faults' = faults \/ faults' = faults + 1
  BY FaultStep
<1>2. \A id \in Ids : table[id] # None /\ table'[id] = None
                      => jobs[id] = None /\ tasks[id] = None
  BY SystemErases
<1>3. ASSUME NEW s \in Clients, StartsCreate(s)
      PROVE  OrphanNeedsFault'
  BY <1>3, CreateScheduleOrphan, RequestsAssumption DEF StartsCreate
<1>4. ASSUME NEW s \in Clients, CreatePersist(s)
      PROVE  OrphanNeedsFault'
  BY <1>4, CreatePersistOrphan
<1>5. ASSUME NEW s \in Slots, StartsRead(s) \/ StartsUpdate(s) \/ RunNotFound(s)
      PROVE  OrphanNeedsFault'
  <2>1. \A r \in Slots : calls[r].pc = "persist" => calls'[r] = calls[r]
    BY <1>5, OtherCalls
       DEF StartsRead, StartsUpdate, DeleteRead, RunRead, UpdateRead, RunNotFound
  <2>2. ScheduledLess
    BY <1>5 DEF StartsRead, StartsUpdate, DeleteRead, RunRead, UpdateRead, RunNotFound,
       cloudVars, ScheduledLess
  <2> QED BY <1>1, <1>2, <2>1, <2>2, OrphanStep
<1>6. ASSUME NEW s \in Slots,
             \/ UpdateWrite(s) \/ Unschedule(s) \/ EraseRow(s)
             \/ \E a \in Attempts : RunSend(s, a)
      PROVE  OrphanNeedsFault'
  <2>1. \A r \in Slots : calls[r].pc = "persist" => calls'[r] = calls[r]
    BY <1>6, OtherCalls DEF UpdateWrite, Unschedule, EraseRow, RunSend
  <2>2. ScheduledLess
    BY <1>6 DEF UpdateWrite, Unschedule, EraseRow, RunSend, ScheduledLess,
       DeleteJob, DeleteTask, TypeOK, CloudTypeOK
  <2> QED BY <1>1, <1>2, <2>1, <2>2, OrphanStep
<1>7. ASSUME Crash \/ \E s \in Slots : CallFails(s)
      PROVE  OrphanNeedsFault'
  BY <1>7, FaultyStep DEF OrphanNeedsFault
<1>8. CASE Outside
  <2>1. ScheduledLess /\ UNCHANGED calls
    BY <1>8 DEF Outside, ScheduledLess
  <2> QED BY <1>1, <1>2, <2>1, OrphanStep
<1> QED
  BY <1>3, <1>4, <1>5, <1>6, <1>7, <1>8, SystemServiceStep DEF ServiceStep, Later

(***************************************************************************)
(* Neither executions nor POSTs leave a job or task behind that no cron    *)
(* accounts for: only a crash or a failed remote call does, if no update   *)
(* request names the type.                                                 *)
(***************************************************************************)
THEOREM DeploymentLeavesNoOrphans ==
    ASSUME TypesStable
    PROVE  SystemSpec => []OrphanNeedsFault
<1>1. HandlerInit => OrphanNeedsFault
  BY DEF HandlerInit, Init, CloudInit, OrphanNeedsFault
<1> QED
  BY <1>1, SystemOrphan, LinkInvariant, PTL DEF SystemSpec

(***************************************************************************)
(* The record a goroutine writes back names neither the type nor the       *)
(* schedule, so it is one more update that keeps the timing.               *)
(***************************************************************************)
LEMMA SystemTiming ==
    ASSUME TimingStable, RunsInv, TimingInv, [SystemNext]_handlerVars
    PROVE  TimingInv'
<1> USE SlotKinds
<1>1. AuthorityInv'
  BY StableTypes, SystemAuthority DEF TimingInv
<1>2. ASSUME NEW s \in Clients, StartsCreate(s) \/ CreatePersist(s)
      PROVE  CreatingIsScheduled' /\ WritesKeepTiming'
  BY <1>2, TimingCreate, TimingPersist, RequestsAssumption DEF StartsCreate
<1>3. ASSUME NEW s \in Clients, StartsRead(s)
      PROVE  CreatingIsScheduled' /\ WritesKeepTiming'
  BY <1>3, TimingRead DEF StartsRead
<1>4. ASSUME NEW s \in Slots, StartsUpdate(s)
      PROVE  CreatingIsScheduled' /\ WritesKeepTiming'
  <2>1. PICK caller \in Identities, id \in Ids, u \in Requests(s) :
           UpdateRead(s, caller, id, u.cron, u.mask)
    BY <1>4 DEF StartsUpdate
  <2>2. /\ u.cron \in Cron /\ u.mask \in SUBSET Paths
        /\ u.mask \cap {"type", "schedule"} = {}
    BY <2>1, RequestTypes
  <2> QED BY <2>1, <2>2, TimingRead
<1>5. ASSUME NEW s \in Slots, Later(s)
      PROVE  CreatingIsScheduled' /\ WritesKeepTiming'
  BY <1>5, TimingLater DEF Later
<1>6. ASSUME Outside
      PROVE  CreatingIsScheduled' /\ WritesKeepTiming'
  <2>1. \A s \in Slots : calls[s].pc = "persist" => calls[s].id \in Ids
    BY BusyCall DEF TimingInv, AuthorityInv, ServiceInv, InFlight
  <2>2. CreatingIsScheduled'
    BY <1>6, <2>1, CreationsStep DEF Outside, CreationsLeft, TimingInv
  <2> QED BY <1>6, <2>2 DEF Outside, TimingInv, WritesKeepTiming
<1>7. ASSUME Crash
      PROVE  CreatingIsScheduled' /\ WritesKeepTiming'
  BY <1>7 DEF Crash, Idle, CreatingIsScheduled, WritesKeepTiming
<1>8. CreatingIsScheduled' /\ WritesKeepTiming'
  BY <1>2, <1>3, <1>4, <1>5, <1>6, <1>7, SystemServiceStep DEF ServiceStep
<1> QED BY <1>1, <1>8 DEF TimingInv

LEMMA SystemSync ==
    ASSUME RunsInv, TimingInv, Synchronized, [SystemNext]_handlerVars
    PROVE  Synchronized'
<1> USE SlotKinds DEF TimingInv, AuthorityInv, ServiceInv
<1>1. faults' = faults \/ faults' = faults + 1
  BY FaultStep
<1>2. ASSUME NEW s \in Clients, StartsCreate(s) \/ CreatePersist(s)
      PROVE  Synchronized'
  BY <1>2, SyncCreate, SyncPersist, RequestsAssumption DEF StartsCreate
<1>3. ASSUME NEW s \in Slots,
             StartsRead(s) \/ StartsUpdate(s) \/ RunNotFound(s)
             \/ \E a \in Attempts : RunSend(s, a)
      PROVE  Synchronized'
  <2>1. UNCHANGED <<table, jobs, tasks>>
    BY <1>3 DEF StartsRead, StartsUpdate, DeleteRead, RunRead, UpdateRead, RunNotFound,
       RunSend, cloudVars
  <2>2. \A r \in Slots : calls[r].pc \in {"persist", "erase"} => calls'[r] = calls[r]
    BY <1>3 DEF StartsRead, StartsUpdate, DeleteRead, RunRead, UpdateRead, RunNotFound,
       RunSend, Enter, Return, TypeOK
  <2> QED BY <1>1, <2>1, <2>2, SyncElse DEF SameTiming
<1>4. ASSUME NEW s \in Slots, UpdateWrite(s) \/ Unschedule(s) \/ EraseRow(s)
      PROVE  Synchronized'
  BY <1>4, SyncWrite, SyncUnschedule, SyncErase
<1>5. ASSUME Crash \/ \E s \in Slots : CallFails(s)
      PROVE  Synchronized'
  BY <1>5, FaultyStep DEF Synchronized
<1>6. CASE Outside
  BY <1>1, <1>6, SyncElse DEF Outside, SameTiming
<1> QED
  BY <1>2, <1>3, <1>4, <1>5, <1>6, SystemServiceStep DEF ServiceStep, Later

(***************************************************************************)
(* In the deployment too, whatever crashes, a CreateCron in flight inserts *)
(* the schedule its job has, and an update in flight, a client's or a      *)
(* goroutine's, writes back the row's own type and schedule, if no update  *)
(* request of a client names them.                                         *)
(***************************************************************************)
THEOREM DeploymentTiming ==
    ASSUME TimingStable
    PROVE  SystemSpec => []TimingInv
<1>1. HandlerInit => TimingInv
  BY InitAuthority
     DEF HandlerInit, Init, Idle, TimingInv, CreatingIsScheduled, WritesKeepTiming
<1> QED
  BY <1>1, SystemTiming, RunsInvariant, PTL DEF SystemSpec

(***************************************************************************)
(* Until something fails, the table and the backing services agree on      *)
(* every cron that is not being created or deleted, also while POSTs       *)
(* consume tasks and goroutines write to the table.                        *)
(***************************************************************************)
THEOREM DeploymentAgrees ==
    ASSUME TimingStable
    PROVE  SystemSpec => []Synchronized
<1>1. HandlerInit => Synchronized
  BY DEF HandlerInit, Init, CloudInit, Synchronized, ScheduleOf
<1> QED
  BY <1>1, SystemSync, DeploymentTiming, RunsInvariant, PTL DEF SystemSpec
=============================================================================

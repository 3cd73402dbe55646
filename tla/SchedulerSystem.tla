--------------------------- MODULE SchedulerSystem ---------------------------
(***************************************************************************)
(* The deployment: API clients call SchedulerService, Cloud Scheduler and  *)
(* Cloud Tasks POST to the cron handler, and the process that serves both  *)
(* may crash and restart.                                                  *)
(***************************************************************************)
EXTENDS CronHandler, FiniteSets

\* POSTs and RPCs are counted below.
ASSUME SlotsAssumption == IsFiniteSet(Attempts) /\ IsFiniteSet(Clients)

\* A slot without a POST or an execution, and without one that has reached the
\* agent: the number of slots bounds the executions that send it something.
FreeAttempts == {a \in Attempts :
    posts[a] = None /\ runs[a].pc \in {"none", "done"} /\ runs[a].sent = {}}

\* A RunCron past its checks will take a free slot: leave it one.
Reserved == {s \in Clients : calls[s].pc = "run"}
Spare    == Cardinality(FreeAttempts) > Cardinality(Reserved)

ClientStart(s) ==
    /\ \/ Start(s)
       \/ Spare /\ StartRun(s)
    /\ UNCHANGED runs

ClientProceed(s) ==
    \/ Proceed(s) /\ UNCHANGED runs
    \/ \E a \in FreeAttempts :
          RunSend(s, a) /\ runs' = [runs EXCEPT ![a] = NoRun]

ClientFails(s) == CallFails(s) /\ UNCHANGED runs

CloudStep(id) ==
    /\ Spare
    /\ \E a \in FreeAttempts :
          DispatchDue(id, a) /\ runs' = [runs EXCEPT ![a] = NoRun]

\* The process dies with its RPCs and goroutines. The POSTs it had accepted
\* end in a connection error; the cloud services and the table stay.
Crash ==
    /\ Fault
    /\ calls' = [s \in Slots |-> Idle]
    /\ runs' = [a \in Attempts |->
                  IF runs[a].pc = "none" THEN NoRun ELSE Finished(runs[a])]
    /\ posts' = [a \in Attempts |->
                  IF runs[a].pc = "none" THEN posts[a] ELSE None]
    /\ UNCHANGED <<table, jobs, tasks, issued>>

SystemNext ==
    \/ \E s \in Clients : ClientStart(s) \/ ClientProceed(s) \/ ClientFails(s)
    \/ \E id \in Ids : CloudStep(id)
    \/ HandlerNext
    \/ Crash

SystemSpec == HandlerInit /\ [][SystemNext]_handlerVars
=============================================================================

---------------------------- MODULE CloudBackends ----------------------------
(***************************************************************************)
(* The services SchedulerService drives, modelled from how src/ uses them: *)
(* the Spanner table of crons, Cloud Scheduler's jobs, Cloud Tasks' tasks, *)
(* and the HTTP POSTs those two have outstanding against the cron handler. *)
(*                                                                         *)
(* Every operation here is one remote call, atomic on the remote side.     *)
(* faults counts the failures injected so far, at most MaxFaults.          *)
(***************************************************************************)
EXTENDS CronData, Naturals

CONSTANTS
    Ids,         \* the UUIDs CreateCron can draw
    Attempts,    \* slots for POSTs, one per POST that reaches the handler
    MaxFaults    \* bound on injected failures

ASSUME FaultsAssumption == MaxFaults \in Nat /\ None \notin Ids

VARIABLES
    table,       \* Spanner: the row stored under crons/<id>, or None
    jobs,        \* Cloud Scheduler: the schedule of job <id>, or None
    tasks,       \* Cloud Tasks: the schedule of task <id>, or None
    posts,       \* the cron id of the POST outstanding in a slot, or None
    faults       \* failures injected so far

cloudVars == <<table, jobs, tasks, posts, faults>>

CloudTypeOK ==
    /\ table \in [Ids -> Row \cup {None}]
    /\ jobs  \in [Ids -> Schedules \cup {None}]
    /\ tasks \in [Ids -> Schedules \cup {None}]
    /\ posts \in [Attempts -> Ids \cup {None}]
    /\ faults \in 0 .. MaxFaults

CloudInit ==
    /\ table  = [id \in Ids |-> None]
    /\ jobs   = [id \in Ids |-> None]
    /\ tasks  = [id \in Ids |-> None]
    /\ posts  = [a \in Attempts |-> None]
    /\ faults = 0

-----------------------------------------------------------------------------
(***************************************************************************)
(* Failures. A call that took effect may still report an error to its      *)
(* caller (a deadline, a dropped connection): reply = FALSE.               *)
(***************************************************************************)
Reply(reply) ==
    \/ reply /\ UNCHANGED faults
    \/ ~reply /\ faults < MaxFaults /\ faults' = faults + 1

Fault == faults < MaxFaults /\ faults' = faults + 1

(***************************************************************************)
(* Spanner                                                                 *)
(***************************************************************************)
Insert(id, row)    == table' = [table EXCEPT ![id] = row]
UpdateRow(id, cron) ==       \* spanner.Update writes the Cron column only
    table' = [table EXCEPT ![id].cron = cron]
DeleteRow(id)      == table' = [table EXCEPT ![id] = None]

(***************************************************************************)
(* Cloud Scheduler and Cloud Tasks                                         *)
(***************************************************************************)
CreateJob(id, schedule)  == jobs' = [jobs EXCEPT ![id] = schedule]
CreateTask(id, schedule) == tasks' = [tasks EXCEPT ![id] = schedule]
DeleteJob(id)            == jobs' = [jobs EXCEPT ![id] = None]
DeleteTask(id)           == tasks' = [tasks EXCEPT ![id] = None]

\* A POST for cron id leaves on slot a.
Send(id, a) ==
    /\ posts[a] = None
    /\ posts' = [posts EXCEPT ![a] = id]

\* The schedule of job or task id is due and it is dispatched. Neither service
\* starts a second attempt of its own while one is unanswered. A job stays; a
\* task stays until an attempt succeeds, and is retried until then. This is
\* the best the services can do: a queue may limit the retries and then drops
\* the task, and it may, rarely, dispatch one twice.
Due(id, a) ==
    /\ jobs[id] # None \/ tasks[id] # None
    /\ \A b \in Attempts : posts[b] # id
    /\ Send(id, a)
    /\ UNCHANGED <<table, jobs, tasks, faults>>

\* The answer to the POST of slot a: a 2xx answer completes a task.
Answered(a, ok) ==
    /\ posts[a] # None
    /\ posts' = [posts EXCEPT ![a] = None]
    /\ IF ok THEN DeleteTask(posts[a]) ELSE UNCHANGED tasks
    /\ UNCHANGED <<table, jobs>>
=============================================================================

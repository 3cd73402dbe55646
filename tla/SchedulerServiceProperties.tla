---------------------- MODULE SchedulerServiceProperties ----------------------
(* What SchedulerService promises about the table and the scheduled work. *)
EXTENDS SchedulerService

\* Slot s has created the job or task of id and has not yet inserted the row.
Creating(s, id) == calls[s].pc = "persist" /\ calls[s].id = id

\* Slot s has removed the job or task of id and has not yet erased the row.
Erasing(s, id) == calls[s].pc = "erase" /\ calls[s].id = id

(***************************************************************************)
(* As long as no remote call has failed, no interleaving of RPCs leaves a  *)
(* job or task behind that no cron accounts for: it belongs to a row or to *)
(* a CreateCron about to insert one. (CreateCron makes it before the row,  *)
(* DeleteCron removes it before the row.)                                  *)
(***************************************************************************)
OrphanNeedsFault ==
    \A id \in Ids :
        (jobs[id] # None \/ tasks[id] # None) /\ table[id] = None
        => faults > 0 \/ \E s \in Slots : Creating(s, id)

\* The schedule the table has for id, if it is a cron of the given type.
ScheduleOf(id, type) ==
    IF table[id] # None /\ table[id].cron.type = type
    THEN table[id].cron.schedule ELSE None

(***************************************************************************)
(* README: the service "persists these in Spanner and synchronizes them    *)
(* with Google Cloud Scheduler [...] or Google Cloud Tasks". As long as no *)
(* remote call has failed, a recurring cron in the table has a job firing  *)
(* on the row's schedule, a one-shot cron has at most a task due then, and *)
(* there is no other job or task, except while a CreateCron or DeleteCron  *)
(* of the cron is between its two effects.                                 *)
(***************************************************************************)
Synchronized ==
    \A id \in Ids :
        \/ /\ jobs[id] = ScheduleOf(id, "TYPE_CRON")
           /\ tasks[id] \in {None, ScheduleOf(id, "TYPE_AT")}
        \/ faults > 0
        \/ \E s \in Slots : Creating(s, id) \/ Erasing(s, id)

(***************************************************************************)
(* When DeleteCron erases a row nothing remains that could still fire it,  *)
(* whatever failed on the way and whatever ran concurrently.               *)
(***************************************************************************)
DeleteLeavesNothing ==
    [][\A id \in Ids :
          table[id] # None /\ table'[id] = None
          => jobs[id] = None /\ tasks[id] = None]_vars

(***************************************************************************)
(* A cron that was deleted, or whose CreateCron failed, never appears      *)
(* (again): a late UpdateCron write or retried call cannot resurrect it.   *)
(***************************************************************************)
NoResurrection ==
    [][\A id \in issued :
          table[id] = None /\ (\A s \in Slots : ~Creating(s, id))
          => table'[id] = None]_vars

(***************************************************************************)
(* A stored cron changes only through an RPC whose caller is the system or *)
(* bound by the row's policy, and no RPC changes that policy: the check    *)
(* made on the row read still stands when the write lands.                 *)
(***************************************************************************)
AuthorizedWrites ==
    [][\A id \in Ids :
          table[id] # None /\ table'[id] # table[id]
          => /\ \E s \in Slots :
                   /\ calls[s].pc \in {"write", "erase"}
                   /\ calls[s].id = id
                   /\ calls[s].caller \in table[id].policy \cup {System}
             /\ table'[id] # None => table'[id].policy = table[id].policy]_vars

(***************************************************************************)
(* spec.md: "The update mask applies to the resource." A completed write   *)
(* of UpdateCron changes no field of the stored cron outside its mask.     *)
(***************************************************************************)
MaskRespected ==
    [][\A s \in Slots :
          calls[s].pc = "write" /\ table'[calls[s].id] # table[calls[s].id]
          /\ calls'[s].pc = "idle"
          => ChangedPaths(table[calls[s].id].cron, table'[calls[s].id].cron)
             \subseteq calls[s].mask]_vars

\* What UpdateCron in slot s would write differs from the row only in its mask.
UpToDate(s) ==
    LET call == calls[s]
    IN  call.pc = "write" /\ table[call.id] # None
        => ChangedPaths(table[call.id].cron, call.cron) \subseteq call.mask

(***************************************************************************)
(* How far a write can fall short of MaskRespected: UpdateCron starts out  *)
(* up to date, and falls behind its row only when the UpdateCron of        *)
(* another slot writes to the same cron meanwhile, in a field outside its  *)
(* mask.                                                                   *)
(***************************************************************************)
StaleNeedsOverlap ==
    [][\A s \in Slots :
          UpToDate(s) /\ ~UpToDate(s)'
          => \E r \in Slots \ {s} :
                /\ calls[r].pc = "write"
                /\ calls[r].id = calls[s].id
                /\ ~ ChangedPaths(table[calls[s].id].cron, calls[r].cron)
                        \subseteq calls[s].mask]_vars

-----------------------------------------------------------------------------
(***************************************************************************)
(* Why DeleteLeavesNothing and OrphanNeedsFault hold: a cron's type tells  *)
(* which of the two backing services can know its id, and every copy of    *)
(* the cron an RPC holds tells the same.                                   *)
(***************************************************************************)
Backed(type, id) ==
    /\ type \in {"TYPE_CRON", "TYPE_AT"}
    /\ type = "TYPE_CRON" => tasks[id] = None
    /\ type = "TYPE_AT" => jobs[id] = None

RowsBacked == \A id \in Ids :
    table[id] # None => Backed(table[id].cron.type, id)

CallsBacked == \A s \in Slots :
    calls[s].pc # "idle"
    => calls[s].id \in issued /\ Backed(calls[s].cron.type, calls[s].id)

ErasingIsClean == \A s \in Slots :
    calls[s].pc = "erase" => jobs[calls[s].id] = None /\ tasks[calls[s].id] = None

UnissuedIsUnknown == \A id \in Ids \ issued :
    table[id] = None /\ jobs[id] = None /\ tasks[id] = None

(***************************************************************************)
(* The inductive invariant of the service, provided no update request      *)
(* names the type: every id in use was issued, rows and RPCs in flight     *)
(* agree with the backing services on the cron's type, and an RPC about to *)
(* erase a row has left neither job nor task.                              *)
(***************************************************************************)
ServiceInv ==
    /\ TypeOK
    /\ RowsBacked
    /\ CallsBacked
    /\ ErasingIsClean
    /\ UnissuedIsUnknown

\* No update request names the type of a cron.
TypesStable == \A u \in Updates : "type" \notin u.mask

-----------------------------------------------------------------------------
(***************************************************************************)
(* Why AuthorizedWrites holds: a CreateCron in flight is alone with its    *)
(* id, so the row another RPC has read is the one its write still finds,   *)
(* with the policy that binds its caller.                                  *)
(***************************************************************************)
CreatingIsAlone ==
    \A s \in Slots :
        calls[s].pc = "persist"
        => /\ table[calls[s].id] = None
           /\ \A r \in Slots \ {s} :
                 calls[r].pc = "idle" \/ calls[r].id # calls[s].id

CallersAreBound ==
    \A s \in Slots :
        calls[s].pc \in {"write", "unschedule", "erase"}
        /\ table[calls[s].id] # None
        => calls[s].caller \in table[calls[s].id].policy \cup {System}

\* Inductive where ServiceInv is.
AuthorityInv ==
    /\ ServiceInv
    /\ CreatingIsAlone
    /\ CallersAreBound

(***************************************************************************)
(* Why Synchronized holds: a CreateCron in flight inserts the schedule its *)
(* job or task has, and an UpdateCron in flight writes back the type and   *)
(* the schedule the row has by then.                                       *)
(***************************************************************************)
CreatingIsScheduled ==
    \A s \in Slots :
        calls[s].pc = "persist"
        => LET id   == calls[s].id
               cron == calls[s].cron
           IN  /\ cron.type = "TYPE_CRON" => jobs[id] = cron.schedule
               /\ tasks[id] \in {None, cron.schedule}

WritesKeepTiming ==
    \A s \in Slots :
        calls[s].pc = "write" /\ table[calls[s].id] # None
        => LET cron == table[calls[s].id].cron
           IN  /\ calls[s].cron.type = cron.type
               /\ calls[s].cron.schedule = cron.schedule

(***************************************************************************)
(* The inductive invariant of the service, provided no update request      *)
(* names the type or the schedule: AuthorityInv, and every RPC in flight   *)
(* agrees on them with the table and the backing services.                 *)
(***************************************************************************)
TimingInv ==
    /\ AuthorityInv
    /\ CreatingIsScheduled
    /\ WritesKeepTiming

\* No update request names what the backing services know.
TimingStable == \A u \in Updates : u.mask \cap {"type", "schedule"} = {}
=============================================================================

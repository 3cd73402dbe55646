---------------------- MODULE SchedulerGatewayProperties ----------------------
(* What the answers of the JSON-RPC handler tell a client. *)
EXTENDS SchedulerGateway, SchedulerServiceProperties

(***************************************************************************)
(* An RPC that is refused, or that other RPCs have overtaken, changes      *)
(* nothing: an answer with an error, of any code, means that no row, job   *)
(* or task was touched and no POST was sent, unless a remote call made for *)
(* the request failed. (If one did, the code tells nothing: the status of  *)
(* that call reads like any refusal.)                                      *)
(***************************************************************************)
RefusedChangedNothing ==
    \A s \in Clients :
        /\ requests[s].state = "answered"
        /\ requests[s].code # Result
        /\ ~requests[s].failed
        => ~requests[s].touched

(***************************************************************************)
(* CreateCron makes the job or task before the row. One without a row      *)
(* belongs to a CreateCron in flight, or to one that was answered with an  *)
(* error: whatever fails, nothing fires of which its client was not told   *)
(* that it may not exist, and no DeleteCron leaves any behind.             *)
(***************************************************************************)
OrphansAreReported ==
    \A id \in Ids :
        (jobs[id] # None \/ tasks[id] # None) /\ table[id] = None
        => told[id] = "failed" \/ \E s \in Clients : Creating(s, id)

(***************************************************************************)
(* A cron whose CreateCron was answered with a result, and which nobody    *)
(* has asked to delete, is in the table, and a recurring one has the job   *)
(* that fires it on its schedule, whatever fails and whatever other        *)
(* requests do.                                                            *)
(***************************************************************************)
CreatedStands ==
    \A id \in Ids :
        told[id] = "created"
        => /\ table[id] # None
           /\ table[id].cron.type = "TYPE_CRON"
              => jobs[id] = table[id].cron.schedule

(***************************************************************************)
(* After a DeleteCron was answered with a result the cron is gone for      *)
(* good, from the table and from both backing services, although requests  *)
(* that read it before may still be in flight.                             *)
(***************************************************************************)
DeletedIsFinal ==
    \A id \in Ids :
        told[id] = "deleted"
        => table[id] = None /\ jobs[id] = None /\ tasks[id] = None

(***************************************************************************)
(* jsonrpc.go: ServeHTTP "validates jsonrpc version and non-empty id". A   *)
(* request without an id changes nothing.                                  *)
(***************************************************************************)
WithoutIdChangesNothing ==
    \A s \in Clients : requests[s].touched => requests[s].id = "given"

-----------------------------------------------------------------------------
\* The stages of the RPC of a method, by the remote call it makes next.
Stages == [CreateCron |-> {"persist"}, GetCron |-> {}, ListCrons |-> {},
           UpdateCron |-> {"write"}, DeleteCron |-> {"unschedule", "erase"},
           RunCron |-> {"run"}]

(***************************************************************************)
(* Why the answers can be trusted: a served request is at a stage of its   *)
(* own RPC, and until that has passed the last call that can find nothing  *)
(* it has changed nothing.                                                 *)
(***************************************************************************)
ServedAsAsked ==
    \A s \in Clients :
        requests[s].state = "served"
        => /\ requests[s].method \in Methods
           /\ calls[s].pc \in Stages[requests[s].method]
           /\ calls[s].pc \in {"write", "unschedule", "run"}
              => ~requests[s].touched

\* Nobody can insert a deleted cron again.
DeletedIsGone ==
    \A id \in Ids :
        told[id] = "deleted" => id \in issued /\ \A s \in Slots : ~Creating(s, id)

\* Nobody is deleting a cron that its client was told stands.
CreatedIsKept ==
    \A id \in Ids, s \in Slots :
        told[id] = "created" /\ calls[s].id = id
        => calls[s].pc \notin {"unschedule", "erase"}

(***************************************************************************)
(* The inductive invariants of the gateway: AnswersInv by itself,          *)
(* DeletedInv and OrphansAreReported beside AuthorityInv, CreatedInv       *)
(* beside TimingInv.                                                       *)
(***************************************************************************)
AnswersInv == GatewayTypeOK /\ ServedAsAsked /\ RefusedChangedNothing
DeletedInv == DeletedIsGone /\ DeletedIsFinal
CreatedInv == CreatedIsKept /\ CreatedStands

GatewayInv == AnswersInv /\ OrphansAreReported /\ DeletedInv /\ CreatedInv

-----------------------------------------------------------------------------
(***************************************************************************)
(* A client that sends DeleteCron again until the row is gone. RPCs in     *)
(* flight are scheduled and their remote calls return; faults are never    *)
(* forced.                                                                 *)
(***************************************************************************)
Deletes == {req \in Accepted : req.method = "DeleteCron"}

RetryFairness ==
    \A s \in Clients :
        /\ WF_gatewayVars(Continue(s))
        /\ \A id \in Ids :
              WF_gatewayVars(\E req \in Deletes, caller \in Identities :
                                ServeRPC(s, req, caller, id))

RetrySpec == GatewaySpec /\ RetryFairness

(***************************************************************************)
(* spec.md: DeleteCron "allows the client to delete an existing Cron". A   *)
(* client that keeps retrying it gets rid of the cron in the end, however  *)
(* earlier attempts have failed.                                           *)
(***************************************************************************)
RetriedDeleteSucceeds ==
    \A id \in Ids : table[id] # None ~> table[id] = None
=============================================================================

--------------------------- MODULE SchedulerGateway ---------------------------
(***************************************************************************)
(* SchedulerService behind its JSON-RPC handler: clients send requests,    *)
(* the handler checks them, calls the service in process and answers with  *)
(* a result or an error code. What clients were told is kept next to what  *)
(* is stored.                                                              *)
(*                                                                         *)
(* The status of a remote call that fails is returned unaltered, so it may *)
(* be any, also one that reads like a refusal of the RPC itself.           *)
(***************************************************************************)
EXTENDS SchedulerService, JsonRpc

CONSTANTS
    Requests,     \* the requests clients send
    RemoteErrors  \* the statuses a remote call can fail with

ASSUME GatewayAssumption ==
    /\ "OK" \notin RemoteErrors
    /\ Requests \subseteq Request
    /\ {req.method : req \in Requests} \cap {"DeleteCron", "RunCron"}
       \subseteq ClientRPCs

VARIABLES
    requests,    \* the request each client has sent last
    told         \* what clients know about a cron from the answers they got

gatewayVars == <<vars, requests, told>>

\* touched tells whether serving the request has changed anything, failed
\* whether it was ended by the failure of a remote call that could.
NoRequest == [state |-> "none", method |-> "empty", id |-> "empty", code |-> Result,
              touched |-> FALSE, failed |-> FALSE]

\* What clients can know of a cron. Its creation has "failed" if CreateCron was
\* answered with an error, whatever it had done by then.
Knowledge == {"nothing", "created", "failed", "deleting", "deleted"}

GatewayTypeOK ==
    /\ requests \in [Clients -> [state   : {"none", "served", "answered"},
                                 method  : Methods \cup {"empty"},
                                 id      : {"given", "empty", "null"},
                                 code    : Codes,
                                 touched : BOOLEAN,
                                 failed  : BOOLEAN]]
    /\ told \in [Ids -> Knowledge]
    /\ \A s \in Clients :
          requests[s].state = "served" <=> calls[s].pc # "idle"

GatewayInit ==
    /\ Init
    /\ requests = [s \in Clients |-> NoRequest]
    /\ told = [id \in Ids |-> "nothing"]

-----------------------------------------------------------------------------
Waiting(s) == requests[s].state # "served"

Changed == <<table, jobs, tasks, posts>>' # <<table, jobs, tasks, posts>>

Serving(method, id, touched) ==
    [NoRequest EXCEPT !.state = "served", !.method = method, !.id = id,
                      !.touched = touched]

Replied(id, code, touched, failed) ==
    [NoRequest EXCEPT !.state = "answered", !.id = id, !.code = code,
                      !.touched = touched, !.failed = failed]

CallFailed == faults' # faults

\* Mutant: the answer is written while the RPC is still running.
FollowAtOnce(s, method, id, touched, status) ==
    requests' = [requests EXCEPT ![s] =
                   Replied(id, Answer(status), touched, CallFailed)]

\* The RPC of s goes on, or returns and is answered.
Follow(s, method, id, touched, status) ==
    requests' = [requests EXCEPT ![s] =
                   IF calls'[s].pc = "idle"
                   THEN Replied(id, Answer(status), touched, CallFailed)
                   ELSE Serving(method, id, touched)]

Tell(id, what) == told' = [told EXCEPT ![id] = what]

(***************************************************************************)
(* ServeHTTP and handleRequest: a request that fails a check is answered   *)
(* by the handler itself.                                                  *)
(***************************************************************************)
Rejections ==
    {Replied(req.id, Code[Rejection(req)], FALSE, FALSE) :
        req \in {r \in Requests : ~Dispatched(r)}}

Accepted == {req \in Requests : Dispatched(req)}

Reject(s) ==
    /\ Waiting(s)
    /\ \E reply \in Rejections : requests' = [requests EXCEPT ![s] = reply]
    /\ UNCHANGED <<vars, told>>

\* The read an RPC starts with fails, or the first call of CreateCron does
\* without effect. ListCrons alone makes an error of its own of it.
FirstCallErrors(method) ==
    IF method = "ListCrons" THEN {"Internal"} ELSE RemoteErrors

(***************************************************************************)
(* What the service can refuse an RPC with before its first effect.        *)
(* GetCron wraps a validation error into InvalidArgument, the other RPCs   *)
(* return what the validator made of it.                                   *)
(***************************************************************************)
Invalid(method) ==
    CASE method \in {"GetCron", "ListCrons"} -> {"InvalidArgument"}
      [] OTHER -> {"InvalidArgument", "Unknown"}

Refusals(method, caller, id) ==
    FirstCallErrors(method) \cup Invalid(method) \cup
    IF method \in {"CreateCron", "ListCrons"} THEN {}
    ELSE IF table[id] = None THEN {"NotFound"}
    ELSE IF ~HasPermission(caller, method, table[id].policy)
         THEN {"PermissionDenied"}
    ELSE IF method = "RunCron" /\ table[id].cron.state = "STATE_ARCHIVED"
         THEN {"FailedPrecondition"}
    ELSE {}

\* RPCs that succeed without effect. RunCron does nothing for an unset type.
Reads(method, caller, id) ==
    \/ method = "ListCrons"
    \/ method = "GetCron" /\ Readable(caller, id, "GetCron")
    \/ /\ method = "RunCron"
       /\ Readable(caller, id, "RunCron")
       /\ table[id].cron.state # "STATE_ARCHIVED"
       /\ table[id].cron.type = "TYPE_UNSPECIFIED"

Outcomes(method, caller, id) ==
    Refusals(method, caller, id)
    \cup {ok \in {"OK"} : Reads(method, caller, id)}

RepliesTo(req, caller, id) ==
    {Replied(req.id, Answer(status), FALSE, FALSE) :
        status \in Outcomes(req.method, caller, id)}

RepliesAtOnce ==
    UNION {RepliesTo(req, caller, id) :
              req \in Accepted, caller \in Identities, id \in Ids}

ServeAtOnce(s) ==
    /\ Waiting(s)
    /\ \E reply \in RepliesAtOnce : requests' = [requests EXCEPT ![s] = reply]
    /\ UNCHANGED <<vars, told>>

\* An RPC that passes its checks starts.
StartRPC(s, method, caller, id) ==
    \/ /\ method = "CreateCron"
       /\ \E cron \in Creates : CreateSchedule(s, caller, cron, id)
       /\ IF CallFailed THEN Tell(id, "failed") ELSE UNCHANGED told
    \/ /\ method = "UpdateCron"
       /\ \E u \in Updates : UpdateRead(s, caller, id, u.cron, u.mask)
       /\ UNCHANGED told
    \/ method = "DeleteCron" /\ DeleteRead(s, caller, id) /\ Tell(id, "deleting")
    \/ method = "RunCron" /\ RunRead(s, caller, id) /\ UNCHANGED told

ServeRPC(s, req, caller, id) ==
    /\ Waiting(s)
    /\ StartRPC(s, req.method, caller, id)
    /\ \E status \in RemoteErrors : Follow(s, req.method, req.id, Changed, status)

Serve(s) ==
    \E req \in Accepted, caller \in Identities, id \in Ids :
        ServeRPC(s, req, caller, id)

-----------------------------------------------------------------------------
\* Mutant: erasing no row counts as an error.
FindsNothingErasing(call) ==
    \/ call.pc \in {"write", "erase"} /\ table[call.id] = None
    \/ /\ call.pc = "unschedule"
       /\ call.cron.type = "TYPE_CRON"
       /\ jobs[call.id] = None
    \/ call.pc = "run" /\ ~Runnable(call)

\* The remote call the RPC makes next finds nothing under the id.
FindsNothing(call) ==
    \/ call.pc = "write" /\ table[call.id] = None
    \/ /\ call.pc = "unschedule"
       /\ call.cron.type = "TYPE_CRON"
       /\ jobs[call.id] = None
    \/ call.pc = "run" /\ ~Runnable(call)

\* DeleteCron takes Cloud Tasks' NotFound for a success.
CallErrors(call) ==
    IF call.pc = "unschedule" /\ call.cron.type = "TYPE_AT"
    THEN RemoteErrors \ {"NotFound"} ELSE RemoteErrors

StatusesOfStep(call) ==
    IF CallFailed THEN CallErrors(call)
    ELSE IF FindsNothing(call) THEN {"NotFound"} ELSE {"OK"}

\* What the client knows about its cron once the RPC has returned.
Learned(s) ==
    LET id       == calls[s].id
        method   == requests[s].method
        answered == requests'[s].state = "answered"
        result   == requests'[s].code = Result
    IN  CASE answered /\ result /\ method = "CreateCron" -> Tell(id, "created")
          [] answered /\ ~result /\ method = "CreateCron" -> Tell(id, "failed")
          [] answered /\ result /\ method = "DeleteCron" -> Tell(id, "deleted")
          [] OTHER -> UNCHANGED told

Continue(s) ==
    /\ requests[s].state = "served"
    /\ Proceed(s) \/ CallFails(s) \/ \E a \in Attempts : RunSend(s, a)
    /\ \E status \in StatusesOfStep(calls[s]) :
          Follow(s, requests[s].method, requests[s].id,
                 requests[s].touched \/ Changed, status)
    /\ Learned(s)

\* The cloud services and the cron handler go on beside the clients.
Around ==
    /\ \E a \in Attempts :
          EndpointAnswers(a) \/ \E id \in Ids : DispatchDue(id, a)
    /\ UNCHANGED <<requests, told>>

GatewayNext ==
    \/ \E s \in Clients : Reject(s) \/ ServeAtOnce(s) \/ Serve(s) \/ Continue(s)
    \/ Around

GatewaySpec == GatewayInit /\ [][GatewayNext]_gatewayVars
=============================================================================

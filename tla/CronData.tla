------------------------------- MODULE CronData -------------------------------
(***************************************************************************)
(* The Cron resource: its fields, the checks CreateCron runs on a message, *)
(* the values CreateCron assigns, and the field-mask merge of UpdateCron.  *)
(* Only values: this module has no state.                                  *)
(*                                                                         *)
(* A field keeps what the control flow and the properties tell apart:      *)
(*   schedule       stands for expr + timezone (TYPE_CRON) or at (TYPE_AT) *)
(*   last_run_time  is TRUE once the timestamp is set                      *)
(*   owner          is the user id of "users/<id>", None when malformed    *)
(* Four fields are left out, no decision depends on them. update_time and  *)
(* archive_time are only written. create_time orders ListCrons, where      *)
(* CronListing has it. email goes into the handler's calls to the agent. A *)
(* mask that names only these changes nothing that is kept here.           *)
(***************************************************************************)
CONSTANTS
    Users,       \* ids of end users and of ordinary service accounts
    System,      \* the deployment's own service account
    Prompts,     \* non-empty prompt texts
    Schedules,   \* non-empty schedules
    Contexts,    \* A2A context ids
    None         \* the unset value of every field: "", nil, no row

Identities == Users \cup {System}
Types      == {"TYPE_UNSPECIFIED", "TYPE_CRON", "TYPE_AT"}
States     == {"STATE_UNSPECIFIED", "STATE_ACTIVE", "STATE_ARCHIVED"}

Cron == [type           : Types,
         prompt         : Prompts \cup {None},
         initial_prompt : Prompts \cup {None},
         schedule       : Schedules \cup {None},
         owner          : Identities \cup {None},
         state          : States,
         context_id     : Contexts \cup {None},
         last_run_time  : BOOLEAN]

Paths == {"type", "prompt", "initial_prompt", "schedule", "owner", "state",
          "context_id", "last_run_time"}

\* The message with no field set.
ZeroCron == [type |-> "TYPE_UNSPECIFIED", prompt |-> None,
             initial_prompt |-> None, schedule |-> None, owner |-> None,
             state |-> "STATE_UNSPECIFIED", context_id |-> None,
             last_run_time |-> FALSE]

\* One row of the Crons table: the Cron and the Policy columns. The policy is
\* the set of members bound to roles/cron.owner.
Row == [cron : Cron, policy : SUBSET Identities]

\* None is no value of any field and no row.
ASSUME NoneIsUnset ==
    None \notin Identities \cup Prompts \cup Schedules \cup Contexts \cup Row

(***************************************************************************)
(* IAM roles, registered by init(). A system caller passes every check;    *)
(* any other caller needs an open permission or a binding on the row.      *)
(***************************************************************************)
OpenPermissions  == {"CreateCron", "ListCrons"}
OwnerPermissions == {"GetCron", "UpdateCron", "DeleteCron", "RunCron"}

HasPermission(caller, rpc, policy) ==
    \/ rpc \in OpenPermissions
    \/ caller = System
    \/ rpc \in OwnerPermissions /\ caller \in policy

-----------------------------------------------------------------------------
(***************************************************************************)
(* CreateCron                                                              *)
(***************************************************************************)

\* The validator of CreateCron.
ValidCron(cron) ==
    /\ cron.prompt # None
    /\ cron.type \in {"TYPE_CRON", "TYPE_AT"}
    /\ cron.schedule # None
    /\ cron.type = "TYPE_AT" => cron.initial_prompt = None

\* The server-controlled fields of a new cron. ContextId stays the client's.
NewCron(cron, caller) ==
    [cron EXCEPT !.state = "STATE_ACTIVE",
                 !.last_run_time = FALSE,
                 !.owner = caller]

(***************************************************************************)
(* UpdateCron: fmutils.Filter on the message, fmutils.Prune on the stored  *)
(* cron and proto.Merge replace exactly the masked fields, also by zero    *)
(* values.                                                                 *)
(***************************************************************************)
Masked(path, mask, new, old) == IF path \in mask THEN new ELSE old

\* Mutant: the message is merged without being filtered by the mask.
ApplyMaskUnfiltered(cron, update, mask) ==
    [path \in Paths |-> IF update[path] # ZeroCron[path] THEN update[path]
                       ELSE IF path \in mask THEN ZeroCron[path] ELSE cron[path]]

ApplyMask(cron, update, mask) ==
    [type           |-> Masked("type", mask, update.type, cron.type),
     prompt         |-> Masked("prompt", mask, update.prompt, cron.prompt),
     initial_prompt |-> Masked("initial_prompt", mask,
                               update.initial_prompt, cron.initial_prompt),
     schedule       |-> Masked("schedule", mask,
                               update.schedule, cron.schedule),
     owner          |-> Masked("owner", mask, update.owner, cron.owner),
     state          |-> Masked("state", mask, update.state, cron.state),
     context_id     |-> Masked("context_id", mask,
                               update.context_id, cron.context_id),
     last_run_time  |-> Masked("last_run_time", mask,
                               update.last_run_time, cron.last_run_time)]

\* The fields in which two crons differ.
ChangedPaths(old, new) == {path \in Paths : old[path] # new[path]}
=============================================================================

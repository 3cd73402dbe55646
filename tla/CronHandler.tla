----------------------------- MODULE CronHandler -----------------------------
(***************************************************************************)
(* handler/handler.go: the HTTP handler the cloud services POST to. It     *)
(* reads the cron, starts a goroutine that talks to the agent and records  *)
(* the outcome through UpdateCron, and answers 200 without waiting for it. *)
(* The service is called in process: the goroutine of slot a makes its     *)
(* UpdateCron in call slot a of SchedulerService.                          *)
(***************************************************************************)
EXTENDS SchedulerService

CONSTANTS
    DefaultIdentity,     \* of the ALIS_OS_PROJECT build account, None if unset
    OptionIdentity,      \* given by WithAuthenticatedIdentity, or None
    AgentOmitsContext    \* whether the agent may leave ContextID empty

\* The two messages a goroutine can send. A conversation the agent opens is
\* named after the message that opened it, so context ids are never reused.
Messages == {"initial", "prompt"}

ASSUME HandlerAssumption ==
    /\ {DefaultIdentity, OptionIdentity} \subseteq Identities \cup {None}
    /\ AgentOmitsContext \in BOOLEAN
    /\ Attempts \X Messages \subseteq Contexts
    /\ Clients \cap Attempts = {}

\* cfg.Identity: newConfig starts from the default and applies the options.
HandlerIdentity ==
    IF OptionIdentity # None THEN OptionIdentity ELSE DefaultIdentity

VARIABLE
    runs     \* the execution started by the POST of each slot

handlerVars == <<vars, runs>>

\* pc names what the goroutine does next: send the initial prompt, send the
\* prompt, call UpdateCron, wait for it. cron is the copy GetCron returned, ctx
\* the local contextID, sent the messages that have reached the agent.
Run == [pc   : {"none", "initial", "prompt", "persist", "persisting", "done"},
        id   : Ids \cup {None},
        cron : Cron,
        ctx  : Contexts \cup {None},
        sent : SUBSET Messages]

NoRun == [pc |-> "none", id |-> None, cron |-> ZeroCron, ctx |-> None,
          sent |-> {}]

\* A goroutine that has returned, with what it told the agent as history.
Finished(run) == [NoRun EXCEPT !.pc = "done", !.id = run.id, !.sent = run.sent]

HandlerTypeOK == TypeOK /\ runs \in [Attempts -> Run]

HandlerInit == Init /\ runs = [a \in Attempts |-> NoRun]

-----------------------------------------------------------------------------
(***************************************************************************)
(* The request. Decoding the body, GetCron and the state check are local   *)
(* but for one read of the row.                                            *)
(***************************************************************************)

\* GetCron as the handler's own identity returns the cron.
CanGet(id) ==
    /\ HandlerIdentity # None
    /\ Readable(HandlerIdentity, id, "GetCron")

\* Mutant: the test of the context id inverted.
NeedsSeedInverted(cron) ==
    /\ cron.type = "TYPE_CRON"
    /\ cron.context_id # None
    /\ cron.initial_prompt # None

\* Seed a recurring cron with its initial prompt when it has no context yet.
NeedsSeed(cron) ==
    /\ cron.type = "TYPE_CRON"
    /\ cron.context_id = None
    /\ cron.initial_prompt # None

Arrived(a) == posts[a] # None /\ runs[a].pc = "none"

\* The goroutine starts. It outlives the request: WithoutCancel.
HandleStart(a) ==
    /\ Arrived(a)
    /\ CanGet(posts[a])
    /\ LET cron == table[posts[a]].cron IN
       /\ cron.state # "STATE_ARCHIVED"
       /\ cron.owner # None
       /\ runs' = [runs EXCEPT ![a] =
                     [pc   |-> IF NeedsSeed(cron) THEN "initial" ELSE "prompt",
                      id   |-> posts[a],
                      cron |-> cron,
                      ctx  |-> cron.context_id,
                      sent |-> {}]]
    /\ UNCHANGED vars

\* An archived cron is skipped, with status 200.
HandleSkip(a) ==
    /\ Arrived(a)
    /\ CanGet(posts[a])
    /\ table[posts[a]].cron.state = "STATE_ARCHIVED"
    /\ Answered(a, TRUE)
    /\ UNCHANGED <<faults, serviceVars, runs>>

\* Mutant: an error is answered with status 200.
HandleErrorAsOK(a) ==
    /\ Arrived(a)
    /\ ~CanGet(posts[a])
    /\ Answered(a, TRUE)
    /\ UNCHANGED <<faults, serviceVars, runs>>

\* Status 500: no identity, or GetCron failed. Or no answer at all: taking
\* the id out of a malformed owner panics.
HandleError(a) ==
    /\ Arrived(a)
    /\ \/ ~CanGet(posts[a]) /\ UNCHANGED faults
       \/ /\ CanGet(posts[a])
          /\ table[posts[a]].cron.state # "STATE_ARCHIVED"
          /\ table[posts[a]].cron.owner = None
          /\ UNCHANGED faults
       \/ Fault
    /\ Answered(a, FALSE)
    /\ UNCHANGED <<serviceVars, runs>>

\* Mutant: the status of a started execution is not a success.
HandleAnswerFailed(a) ==
    /\ posts[a] # None
    /\ runs[a].pc # "none"
    /\ Answered(a, FALSE)
    /\ UNCHANGED <<faults, serviceVars, runs>>

\* Mutant: the goroutine keeps the request's context, which ends with it.
HandleAnswerCancels(a) ==
    /\ posts[a] # None
    /\ runs[a].pc # "none"
    /\ Answered(a, TRUE)
    /\ runs' = [runs EXCEPT ![a] = Finished(@)]
    /\ UNCHANGED <<faults, serviceVars>>

\* Status 200, written while the goroutine is already running. A lost answer
\* counts as a failed attempt.
HandleAnswer(a) ==
    /\ posts[a] # None
    /\ runs[a].pc # "none"
    /\ \E reply \in BOOLEAN : Reply(reply) /\ Answered(a, reply)
    /\ UNCHANGED <<serviceVars, runs>>

-----------------------------------------------------------------------------
(***************************************************************************)
(* The goroutine                                                           *)
(***************************************************************************)
MergeContextID(existing, returned) ==
    IF returned # None THEN returned ELSE existing

\* The conversation a message sent with context id ctx ends up in.
Conversation(a, message, ctx) == IF ctx = None THEN <<a, message>> ELSE ctx

Returnable(conversation) ==
    {conversation} \cup {None : omits \in {AgentOmitsContext} \ {FALSE}}

\* SendMessage succeeds: the message is in the agent's hands, the returned
\* context id replaces the local one, the goroutine goes on.
Delivered(a, message, ctx, pc) ==
    /\ \E returned \in Returnable(Conversation(a, message, ctx)) :
          runs' = [runs EXCEPT ![a].pc = pc,
                               ![a].ctx = MergeContextID(runs[a].ctx, returned),
                               ![a].sent = @ \cup {message}]
    /\ UNCHANGED vars

\* Mutant: the goroutine goes on to record an execution that failed.
CallAgentFailsLogged(a, message) ==
    /\ Fault
    /\ runs' = [runs EXCEPT ![a].pc = "persist",
                            ![a].ctx = Conversation(a, message, @)]
    /\ UNCHANGED <<table, jobs, tasks, posts, serviceVars>>

\* SendMessage fails, before or after the agent got the message, and the
\* goroutine returns: nothing is recorded.
CallAgentFails(a, message) ==
    /\ Fault
    /\ \E sent \in {runs[a].sent, runs[a].sent \cup {message}} :
          runs' = [runs EXCEPT ![a] =
                     Finished([runs[a] EXCEPT !.sent = sent])]
    /\ UNCHANGED <<table, jobs, tasks, posts, serviceVars>>

CallAgentInitial(a) ==
    /\ runs[a].pc = "initial"
    /\ \/ Delivered(a, "initial", None, "prompt")
       \/ CallAgentFails(a, "initial")

CallAgentPrompt(a) ==
    /\ runs[a].pc = "prompt"
    /\ \/ Delivered(a, "prompt", runs[a].ctx, "persist")
       \/ CallAgentFails(a, "prompt")

\* Mutant: the mask names the JSON field.
PersistMaskJSON(run) ==
    {"last_run_time", "contextId"}
    \cup {p \in {"state"} : run.cron.type = "TYPE_AT"}

\* Mutant: the state is not in the mask.
PersistMaskStateless(run) ==
    {"last_run_time"}
    \cup {p \in {"context_id"} : run.ctx # None /\ run.cron.context_id # run.ctx}

\* The UpdateCron request that records the execution.
PersistMask(run) ==
    {"last_run_time"}
    \cup {p \in {"context_id"} : run.ctx # None /\ run.cron.context_id # run.ctx}
    \cup {p \in {"state"} : run.cron.type = "TYPE_AT"}

PersistCron(run) ==
    [ZeroCron EXCEPT
       !.last_run_time = TRUE,
       !.context_id = run.ctx,
       !.state = IF run.cron.type = "TYPE_AT" THEN "STATE_ARCHIVED" ELSE @]

PersistRead(a) ==
    LET run == runs[a] IN
    /\ run.pc = "persist"
    /\ UpdateRead(a, HandlerIdentity, run.id, PersistCron(run),
                  PersistMask(run))
    /\ runs' = [runs EXCEPT ![a].pc = "persisting"]

PersistWrite(a) ==
    /\ runs[a].pc = "persisting"
    /\ UpdateWrite(a)
    /\ runs' = [runs EXCEPT ![a] = Finished(@)]

\* UpdateCron returns an error, which is only logged.
PersistFails(a) ==
    /\ \/ /\ runs[a].pc = "persist"
          /\ \/ ~Readable(HandlerIdentity, runs[a].id, "UpdateCron")
                /\ UNCHANGED faults
             \/ Fault
          /\ UNCHANGED <<table, jobs, tasks, posts, serviceVars>>
       \/ runs[a].pc = "persisting" /\ CallFails(a)
    /\ runs' = [runs EXCEPT ![a] = Finished(@)]

-----------------------------------------------------------------------------
Handle(a) == HandleStart(a) \/ HandleSkip(a) \/ HandleError(a) \/ HandleAnswer(a)

Goroutine(a) ==
    \/ CallAgentInitial(a)
    \/ CallAgentPrompt(a)
    \/ PersistRead(a)
    \/ PersistWrite(a)
    \/ PersistFails(a)

HandlerNext == \E a \in Attempts : Handle(a) \/ Goroutine(a)
=============================================================================

---------------------- MODULE SchedulerSystemProperties ----------------------
(* What the service, the handler and the cloud services promise together. *)
EXTENDS SchedulerSystem, SchedulerServiceProperties

\* The runs of cron id whose given message has reached the agent.
Deliveries(id, message) ==
    {a \in Attempts : runs[a].id = id /\ message \in runs[a].sent}

IsOneShot(id)   == table[id] # None /\ table[id].cron.type = "TYPE_AT"
IsRecurring(id) == table[id] # None /\ table[id].cron.type = "TYPE_CRON"

\* The goroutine of some slot is still executing cron id.
Running(id) ==
    \E a \in Attempts : runs[a].id = id /\ runs[a].pc # "done"

(***************************************************************************)
(* A one-shot cron is archived only after its prompt reached the agent,    *)
(* whatever failed, crashed or raced in between.                           *)
(***************************************************************************)
ArchivedWasDelivered ==
    \A id \in Ids :
        IsOneShot(id) /\ table[id].cron.state = "STATE_ARCHIVED"
        => Deliveries(id, "prompt") # {}

(***************************************************************************)
(* The context a cron resumes is a conversation one of its own executions  *)
(* opened, and one whose opening message the agent has received.           *)
(***************************************************************************)
ContextIsOwn ==
    \A id \in Ids, a \in Attempts, m \in Messages :
        table[id] # None /\ table[id].cron.context_id = <<a, m>>
        => a \in Deliveries(id, m)

(***************************************************************************)
(* The conversation a recurring cron resumes was opened by its initial     *)
(* prompt, if it has one, also when executions overlap and their writes    *)
(* land in any order.                                                      *)
(***************************************************************************)
ContextIsSeeded ==
    \A id \in Ids, a \in Attempts :
        IsRecurring(id) /\ table[id].cron.context_id = <<a, "prompt">>
        => table[id].cron.initial_prompt = None

(***************************************************************************)
(* A task that fires before CreateCron has inserted the row is not lost:   *)
(* the POST finds no row, is answered 500, and the task is retried.        *)
(***************************************************************************)
EarlyTaskSurvives ==
    \A id \in Ids, s \in Slots :
        Creating(s, id) /\ calls[s].cron.type = "TYPE_AT" => tasks[id] # None

(***************************************************************************)
(* As long as nothing has failed, a one-shot cron that is still active has *)
(* a task that will fire it or an execution under way.                     *)
(***************************************************************************)
OneShotNotLost ==
    \A id \in Ids :
        IsOneShot(id) /\ table[id].cron.state = "STATE_ACTIVE"
        => \/ tasks[id] # None
           \/ Running(id)
           \/ faults > 0
           \/ \E s \in Clients : Erasing(s, id)

(***************************************************************************)
(* spec.md: TYPE_AT is for "once-off, non-recurring tasks". The prompt of  *)
(* a one-shot cron reaches the agent at most once, and once more for every *)
(* failure: a retry of its task is never due to anything else.             *)
(***************************************************************************)
OneShotOnce ==
    \A id \in Ids :
        IsOneShot(id) => Cardinality(Deliveries(id, "prompt")) <= 1 + faults

(***************************************************************************)
(* handler.go: "Seed recurring crons with the initial prompt only once".   *)
(***************************************************************************)
SeededOnce ==
    \A id \in Ids : Cardinality(Deliveries(id, "initial")) <= 1

(***************************************************************************)
(* handler.go, as above. Executions that overlap break it, the others keep *)
(* it: as long as nothing has failed, no execution begins by seeding a     *)
(* cron of which another one has ended.                                    *)
(***************************************************************************)
SeedsFirst ==
    [][\A a \in Attempts :
          runs[a].pc = "none" /\ runs'[a].pc = "initial" /\ faults = 0
          => \A b \in Attempts :
                runs[b].id = posts[a] => runs[b].pc # "done"]_handlerVars

-----------------------------------------------------------------------------
(***************************************************************************)
(* Why these hold. An execution has a cron from its first step on, that of *)
(* the POST it answers, and is recorded only after its prompt was sent. A  *)
(* goroutine's slot holds its UpdateCron and nothing else. RunsInv is      *)
(* inductive whatever clients send.                                        *)
(***************************************************************************)
RunsAreWhole ==
    \A a \in Attempts :
        /\ runs[a].pc = "none" => runs[a] = NoRun
        /\ runs[a].pc # "none" => runs[a].id \in Ids
        /\ runs[a].pc \in {"persist", "persisting"} => "prompt" \in runs[a].sent

RunsFollowPosts ==
    \A a \in Attempts :
        posts[a] # None /\ runs[a].pc # "none" => runs[a].id = posts[a]

SlotsAreOwn ==
    \A a \in Attempts :
        IF runs[a].pc = "persisting"
        THEN calls[a].pc = "write" /\ calls[a].id = runs[a].id
        ELSE calls[a].pc = "idle"

RunsInv == HandlerTypeOK /\ RunsAreWhole /\ RunsFollowPosts /\ SlotsAreOwn

(***************************************************************************)
(* An executed cron is past its creation, so its id cannot be used again:  *)
(* what an execution has read of a row is about the row it will update.    *)
(* LinkInv is inductive if no update request names the type.               *)
(***************************************************************************)
RunsAreCreated ==
    \A a \in Attempts :
        runs[a].pc # "none"
        => runs[a].id \in issued /\ \A s \in Slots : ~Creating(s, runs[a].id)

LinkInv == AuthorityInv /\ RunsInv /\ RunsAreCreated /\ EarlyTaskSurvives

\* The crons the service holds: stored, or about to be stored or written back.
Stored(id) == table[id] # None
Held(s)    == calls[s].pc \in {"persist", "write"}

\* The execution of slot a is under way.
Active(a) == runs[a].pc \notin {"none", "done"}

\* Archived crons were delivered, and so are those about to be archived.
ArchivesAreDelivered ==
    /\ \A id \in Ids :
          Stored(id) /\ table[id].cron.state = "STATE_ARCHIVED"
          => Deliveries(id, "prompt") # {}
    /\ \A s \in Slots :
          Held(s) /\ calls[s].cron.state = "STATE_ARCHIVED"
          => Deliveries(calls[s].id, "prompt") # {}

\* A context of an execution of cron id: the message that opened it was sent.
OwnContext(context, id) ==
    \A a \in Attempts, m \in Messages :
        context = <<a, m>> => a \in Deliveries(id, m)

ContextsAreOwn ==
    /\ \A id \in Ids : Stored(id) => OwnContext(table[id].cron.context_id, id)
    /\ \A s \in Slots : Held(s) => OwnContext(calls[s].cron.context_id, calls[s].id)
    /\ \A a \in Attempts : Active(a) => OwnContext(runs[a].ctx, runs[a].id)

(***************************************************************************)
(* The copies of a cron in UpdateCrons and executions keep the type and    *)
(* the initial prompt of the row, as long as it is there.                  *)
(***************************************************************************)
CopiesAgree ==
    /\ \A s \in Slots :
          calls[s].pc = "write" /\ Stored(calls[s].id)
          => LET cron == table[calls[s].id].cron
             IN  /\ calls[s].cron.type = cron.type
                 /\ calls[s].cron.initial_prompt = cron.initial_prompt
    /\ \A a \in Attempts :
          Active(a) /\ Stored(runs[a].id)
          => LET cron == table[runs[a].id].cron
             IN  /\ runs[a].cron.type = cron.type
                 /\ runs[a].cron.initial_prompt = cron.initial_prompt

PromptOpened(context) == \E a \in Attempts : context = <<a, "prompt">>

Seeded(cron, context) ==
    cron.type = "TYPE_CRON" /\ PromptOpened(context) => cron.initial_prompt = None

(***************************************************************************)
(* No copy of a cron has a context its prompt opened unless it needs no    *)
(* seeding, and an execution that needs seeding has its context before it  *)
(* sends the prompt.                                                       *)
(***************************************************************************)
CopiesAreSeeded ==
    /\ \A id \in Ids :
          Stored(id) => Seeded(table[id].cron, table[id].cron.context_id)
    /\ \A s \in Slots :
          Held(s) => Seeded(calls[s].cron, calls[s].cron.context_id)
    /\ \A a \in Attempts :
          Active(a)
          => /\ Seeded(runs[a].cron, runs[a].ctx)
             /\ /\ runs[a].pc = "prompt"
                /\ runs[a].cron.type = "TYPE_CRON"
                /\ runs[a].cron.initial_prompt # None
                => runs[a].ctx # None

\* What the executions and their UpdateCrons do to the table.
ExecutionInv ==
    /\ LinkInv
    /\ ArchivesAreDelivered
    /\ ContextsAreOwn
    /\ CopiesAgree
    /\ CopiesAreSeeded

-----------------------------------------------------------------------------
(***************************************************************************)
(* Why one-shot crons settle if clients send no updates: a cron is born    *)
(* active, a one-shot cron is written back archived and no other cron is,  *)
(* so archiving is final.                                                  *)
(***************************************************************************)
ArchivingIsFinal ==
    /\ \A s \in Slots :
          /\ calls[s].pc = "persist" => calls[s].cron.state = "STATE_ACTIVE"
          /\ calls[s].pc = "write"
             => (calls[s].cron.state = "STATE_ARCHIVED" <=> calls[s].cron.type = "TYPE_AT")
    /\ \A id \in Ids :
          Stored(id) /\ table[id].cron.state = "STATE_ARCHIVED"
          => table[id].cron.type = "TYPE_AT"

ArchivingInv == LinkInv /\ CopiesAgree /\ ArchivesAreDelivered /\ ArchivingIsFinal

\* The handler, having read a cron, may record the execution.
ReadersStay ==
    \A a \in Attempts :
        Active(a) /\ Stored(runs[a].id)
        => Readable(HandlerIdentity, runs[a].id, "UpdateCron")

\* As long as nothing has failed, an execution that ended has been recorded.
EndedAreArchived ==
    faults = 0
    => \A a \in Attempts :
          runs[a].pc = "done" /\ IsOneShot(runs[a].id)
          => table[runs[a].id].cron.state = "STATE_ARCHIVED"

SettlingInv == ArchivingInv /\ ReadersStay /\ EndedAreArchived /\ OneShotNotLost

(***************************************************************************)
(* Why a one-shot cron fires once per failure if clients do not call       *)
(* RunCron: a POST of a cron leaves only when no other is unanswered, the  *)
(* answer to one that was executed takes the task away unless it is lost,  *)
(* and what may still fire the cron is left by failures only.              *)
(***************************************************************************)
Executions(id) == {a \in Attempts : runs[a].pc # "none" /\ runs[a].id = id}

Answering(id) == \E a \in Executions(id) : posts[a] = id

MayFire(id) ==
    /\ \/ tasks[id] # None
       \/ \E a \in Attempts : posts[a] = id /\ runs[a].pc = "none"
    /\ ~Answering(id)

NeverRun == \A s \in Slots : calls[s].pc # "run"

PostsAreUnique ==
    \A a, b \in Attempts : posts[a] # None /\ posts[a] = posts[b] => a = b

FiredOnce ==
    \A id \in Ids :
        IsOneShot(id)
        => /\ Cardinality(Executions(id)) <= 1 + faults
           /\ MayFire(id) => Cardinality(Executions(id)) <= faults

FiringInv == LinkInv /\ CopiesAgree /\ NeverRun /\ PostsAreUnique /\ FiredOnce

(***************************************************************************)
(* Why SeedsFirst holds if clients send no updates and the agent names its *)
(* conversations: no write takes a context away from a row, so the context *)
(* an execution ends with is, or already was, recorded.                    *)
(***************************************************************************)
ContextsAreKept ==
    /\ \A a \in Attempts :
          /\ runs[a].pc = "persist" => runs[a].ctx # None
          /\ Active(a) /\ Stored(runs[a].id) /\ runs[a].cron.context_id # None
             => table[runs[a].id].cron.context_id # None
    /\ \A s \in Slots :
          calls[s].pc = "write" => calls[s].cron.context_id # None

EndedHaveContext ==
    faults = 0
    => \A a \in Attempts :
          runs[a].pc = "done" /\ Stored(runs[a].id)
          => table[runs[a].id].cron.context_id # None

SeedingInv == LinkInv /\ ReadersStay /\ ContextsAreKept /\ EndedHaveContext

-----------------------------------------------------------------------------
(* What clients send, as far as the properties above depend on it. *)

\* No update request of a client archives a cron: only the handler does.
ArchivingIsInternal ==
    \A u \in Updates : "state" \in u.mask => u.cron.state # "STATE_ARCHIVED"

\* No client names a conversation that an execution has yet to open.
ContextsUnforged ==
    /\ \A cron \in Creates : cron.context_id \notin Attempts \X Messages
    /\ \A u \in Updates :
          "context_id" \in u.mask => u.cron.context_id \notin Attempts \X Messages

\* No update request names what decides whether a cron is seeded.
SeedsStable == \A u \in Updates : u.mask \cap {"type", "initial_prompt"} = {}

NoClientUpdates == Updates = {}

-----------------------------------------------------------------------------
(***************************************************************************)
(* The system implements CronContract: the row and the CreateCron in       *)
(* flight give the status, the goroutines' messages the deliveries. An     *)
(* UpdateCron of a client that races the archiving write can undo it, so   *)
(* the contract is stated for systems whose clients send no updates.       *)
(***************************************************************************)
StatusOf(id) ==
    IF table[id] # None
    THEN IF table[id].cron.state = "STATE_ARCHIVED" THEN "archived" ELSE "live"
    ELSE IF id \in issued /\ \A s \in Slots : ~Creating(s, id)
         THEN "gone" ELSE "unborn"

Contract == INSTANCE CronContract
    WITH Crons     <- Ids,
         status    <- [id \in Ids |-> StatusOf(id)],
         delivered <- [id \in Ids |-> Deliveries(id, "prompt") # {}]

ImplementsContract == Contract!ContractSpec

-----------------------------------------------------------------------------
(***************************************************************************)
(* Fairness. RPCs, requests and goroutines are scheduled by the Go runtime *)
(* and the remote calls they wait for return; a job or task that stays due *)
(* is dispatched. Clients start RPCs as they like, and faults are never    *)
(* forced.                                                                 *)
(***************************************************************************)
Fairness ==
    /\ \A s \in Clients : WF_handlerVars(ClientProceed(s))
    /\ \A a \in Attempts : WF_handlerVars(Handle(a)) /\ WF_handlerVars(Goroutine(a))
    /\ \A id \in Ids : WF_handlerVars(CloudStep(id))

FairSpec == SystemSpec /\ Fairness

(***************************************************************************)
(* README: "When a scheduled time is reached, Cloud Scheduler or Cloud     *)
(* Tasks sends a POST request to the CronHandler. The handler [...]        *)
(* invokes the target agent with the configured prompt". Every one-shot    *)
(* cron ends up archived, or deleted.                                      *)
(***************************************************************************)
OneShotSettles ==
    \A id \in Ids :
        IsOneShot(id)
        ~> table[id] = None \/ table[id].cron.state = "STATE_ARCHIVED"

(***************************************************************************)
(* A task never waits for ever: a one-shot cron ends up archived, deleted  *)
(* or, after a failure, active without a task.                             *)
(***************************************************************************)
TaskIsConsumed ==
    \A id \in Ids :
        IsOneShot(id)
        ~> \/ table[id] = None
           \/ table[id].cron.state = "STATE_ARCHIVED"
           \/ faults > 0 /\ tasks[id] = None

(***************************************************************************)
(* README, as above. A recurring cron that keeps its job delivers its      *)
(* prompt in the end, also when an earlier execution of it has failed, at  *)
(* any of its steps, or has died with the process.                         *)
(***************************************************************************)
RecurringRuns ==
    \A id \in Ids :
        IsRecurring(id)
        ~> \/ Deliveries(id, "prompt") # {}
           \/ table[id] = None
           \/ jobs[id] = None
=============================================================================

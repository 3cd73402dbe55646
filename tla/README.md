# Verification of the A2A scheduler extension

TLA+ models of `a2a-scheduler-go`, checked with TLC; every safety property that
holds is also proved with TLAPS. Paths below are relative to the repository (`src/`).

## The system

The extension lets an agent's users schedule prompts ("crons"). A cron is
recurring (`TYPE_CRON`, a Cloud Scheduler job) or one-shot (`TYPE_AT`, a Cloud
Tasks task). When it fires, the cloud service POSTs the cron's id to the cron
handler, which sends the prompt to an A2A agent on behalf of the owner.

| Part | State it keeps | Operations | Interaction |
|---|---|---|---|
| `service/spanner.go` SchedulerService | none of its own: Spanner rows (Cron + IAM policy), jobs, tasks | CreateCron, GetCron, UpdateCron, DeleteCron, RunCron, ListCrons | one remote call after the other, nothing locked or transactional across two of them |
| `handler/handler.go` cron handler | a goroutine per execution with a copy of the cron | the POST handler; the goroutine: seed, prompt, record | calls the service in process, the agent over gRPC, answers the POST before the goroutine is done |
| Spanner, Cloud Scheduler, Cloud Tasks (external) | rows, jobs, tasks, POSTs outstanding | as the code uses them | every call may fail, or take effect and report an error |
| A2A agent (external) | conversations | SendMessage | may fail before or after receiving the message |
| `jsonrpc/` | none | validation, dispatch, error mapping, CORS | calls the service in process; its answers are all a client learns |
| `register.go`, `*/register.go`, `extension.go`, `a2asrv/` | none | start-up wiring, the agent card | - |

What is hard about it, with the property each part needs (`PROJECT.json`,
"hazards", has the full list with lines):

- *Two stores, no transaction.* CreateCron makes the job or task before the row,
  DeleteCron removes them in the same order. No interleaving may leave a job
  without a row (`OrphanNeedsFault`) or with another schedule than the row's
  (`Synchronized`), erase a row whose job lives on (`DeleteLeavesNothing`), or
  bring an erased row back (`NoResurrection`). A failure can leave a job behind,
  but not of a cron somebody was told exists or is gone (`OrphansAreReported`).
- *Read, modify, write.* UpdateCron reads, merges in memory and writes the whole
  column blindly (`MaskRespected`, `StaleNeedsOverlap`, `AuthorizedWrites`).
- *The early answer.* The handler answers 200 before the agent is called. A task
  must neither be lost nor be executed twice (`OneShotNotLost`, `OneShotOnce`,
  `OneShotSettles`, `EarlyTaskSurvives`), and every firing must come to an end
  although the request that started it is over (`TaskIsConsumed`, `RecurringRuns`).
- *Overlapping executions* of one cron decide on stale copies (`ContextIsOwn`,
  `ContextIsSeeded`, `SeededOnce`, `SeedsFirst`, `ArchivedWasDelivered`).
- *Failures and crashes* between any two steps; retries of what was half done
  (`RetriedDeleteSucceeds`, `ImplementsContract`).
- *What a client is told.* An answer speaks of a state that other RPCs are about
  to change. An error must mean that nothing was done, unless a remote call failed
  (`RefusedChangedNothing`), a result must stay true (`CreatedStands`, `DeletedIsFinal`), and what is no valid
  request must do nothing (`WithoutIdChangesNothing`).
- *Offset paging* over a table that is changed and ordered anew between two pages
  (`RepeatsNeedInsertions`, `ListingIsComplete`).

## Modules

    CronData                 values: Cron, validation, field masks, IAM roles
      CloudBackends          table, jobs, tasks, posts, injected faults
        SchedulerService     the RPCs, one action per remote call
          SchedulerServiceProperties   what the service promises
            SchedulerServiceProofs     proofs: types, deletion, orphans
              RowProofs                proofs: who changes a row, table and schedules agree
          SchedulerGateway   the service behind the JSON-RPC handler (with JsonRpc)
            SchedulerGatewayProperties (with SchedulerServiceProperties)
              MCService                instances for TLC
              SchedulerGatewayProofs   proofs: answers (with RowProofs)
                ToldProofs             proofs: what a client was told stays true
          CronHandler        the POST handler and its goroutine
            SchedulerSystem  clients, cloud, handler, crashes composed
              SchedulerSystemProperties (with SchedulerServiceProperties)
                INSTANCE CronContract  the abstract life of a cron
                SystemProofs           proofs: executions and crashes (with RowProofs)
                  ExecutionProofs      proofs: archiving and conversations
                    ContractProofs     proofs: one-shot crons, seeding, the refinement
                MCSystem               instances for TLC
    JsonRpc                  values: requests, their checks, error codes
    CronListing              ListCrons followed page by page
      MCListing              instances for TLC
      ListingProofs          proofs: how often crons are repeated

**CronData** keeps of a cron what control flow and properties tell apart. `expr` +
`timezone` and `at` are one `schedule` value. `last_run_time` is a Boolean, `owner`
the user id, `None` when it has no slash. Four fields are left out because no
decision depends on them: update_time and archive_time are only written, create_time
orders ListCrons (spanner.go:342; CronListing has it), and email goes into the
calls to the agent (handler.go:259, 295). An UpdateCron whose mask names only these rewrites the
row as it is.
`ValidCron` is CreateCron's validator, `ApplyMask` what `fmutils.Filter`,
`fmutils.Prune` and `proto.Merge` do together.

**CloudBackends** (external) has the Spanner table `table[id]`, `jobs[id]` and
`tasks[id]` (the schedule each was created with, or `None`), and `posts[a]`, the POST
outstanding in slot `a`. `Due` dispatches a job or task; neither service starts a
second attempt of its own while one is unanswered. `Answered` completes a task
on a 2xx answer and leaves it for a retry otherwise. RunJob and RunTask (`RunSend`)
dispatch at once, whether or not an attempt is under way. The dispatching is idealised: the
Cloud Tasks queue the deployment creates (README.md:146) has the service's default limits on
retries, after which it drops a task, and Cloud Tasks may, rarely, dispatch one twice. `OneShotNotLost`,
`OneShotSettles`, `TaskIsConsumed` and `EarlyTaskSurvives` rest on the first, `OneShotOnce` on the second:
they speak of what the code does, with a queue that keeps its tasks.

**SchedulerService** has a call slot per client and per handler goroutine. `calls[s]` holds the
RPC's local variables and the remote call it makes next. Each action is one
remote call plus the local code up to the next, which is exactly where other
RPCs can interleave:

| RPC | Actions (spanner.go) |
|---|---|
| CreateCron | `CreateSchedule` (118-214), `CreatePersist` (216-253) |
| UpdateCron | `UpdateRead` (256-285), `UpdateWrite` (287-293) |
| DeleteCron | `DeleteRead` (387-408), `Unschedule` (406-425), `EraseRow` (427-433) |
| RunCron | `RunRead` (436-457), `RunSend` / `RunNotFound` (459-476) |
| any | `CallFails`: the next remote call fails without effect (185-476) |

`Reply(FALSE)` is a call that took effect and reported an error; the RPC then returns
it. A call rejected before its first effect changes nothing and is a stuttering
step (SchedulerGateway has its answer). The branch of CreateCron that swallows an error of
BufferWrite (244-246) is taken by no step: on an open transaction BufferWrite only appends. GetCron and ListCrons change nothing; GetCron
is the read in `CanGet`. In the module's own `Next` the handler is an environment that answers every POST somehow
(`EndpointAnswers`), so what is shown of the service does not depend on the handler.

**JsonRpc** has the request as the handler sees it (`Request`), what is checked before
the service is called and in which order (`Checks`, from ServeHTTP and handleRequest), and
the code that answers each status (`Code`, `ErrorOf`, `Answer`). A request without id and one
with id null decode alike. `"empty"` stands for the empty string. `CORS` tells whether the
handler was built with WithCORS, which decides only how OPTIONS is answered.

**SchedulerGateway** puts SchedulerService behind the handler. A request of a client is

| Action | Code (jsonrpc.go) |
|---|---|
| `Reject` | a check fails: ServeHTTP, handleRequest (89-170) answer by themselves |
| `ServeAtOnce` | handleRequest calls an RPC that fails before its first effect, or succeeds without one (GetCron, ListCrons, RunCron of an unset type) |
| `Serve` | onHandleCron... (185-237) starts an RPC of SchedulerService |
| `Continue` | the RPC takes its next step; when it returns, handleRequest (167-183) or writeJSONRPCError (239-257) answers |
| `Around` | the cloud services and the cron handler |

`requests[s]` is the request client `s` has in flight or was answered last; its `touched` and `failed`
are history and tell whether serving it changed anything, and whether a failed remote call ended it.
`told[id]` is what clients know of a cron: that it is created, that its creation has failed, that somebody
asked to delete it, that it is deleted. The service returns the status of a failed remote call unaltered
(spanner.go:185, 248, 289, 411, 429), except ListCrons (371) and the NotFound of DeleteTask (421), and
grpcToJSONRPCError maps it like one of the service's own. So a call can fail with any status of
`RemoteErrors`, whether it took effect or not, and an insert that is refused after the job was created
is answered like a refusal. Without a failure NotFound is what the remote side says when there is
nothing under the id. The validation library's errors are returned as they are by all RPCs
but GetCron and ListCrons; whether they carry a status is left open (`Invalid`). Every request
has an identity: without one iam.MustFromContext panics, before any effect.

**CronHandler**: `HandlerIdentity` is the choice newConfig makes (54-88). `HandleStart` (204-248) reads the cron and starts the goroutine;
`HandleSkip`, `HandleError` and `HandleAnswer` are the answers 200 (archived), 500 (or the panic on
a malformed owner) and the early 200. The goroutine is `CallAgentInitial` (250-287), `CallAgentPrompt`
(289-323), `PersistRead` and `PersistWrite` (342-357): the last two are the service's UpdateCron
in the goroutine's own slot. `runs[a].sent` is history: the messages that reached the agent. A
conversation is named `<<a, message>>` after the message that opened it.

**SchedulerSystem** adds clients, dispatch (`CloudStep`) and `Crash`: RPCs and goroutines die,
accepted POSTs end in an error, table, jobs and tasks stay. A slot is free again when
its execution has ended without reaching the agent, so `Attempts` bounds the
executions that deliver something and not the retries; `Spare` keeps a slot for
every RunCron past its checks, so that the bound never blocks an RPC.

**CronContract** is what a user may rely on: live once, archived only after its
prompt was delivered, gone for good. `SchedulerSystemProperties` maps the table and the CreateCron
in flight to the status, and the messages delivered to `delivered`.

**CronListing** models ListCrons as the query it runs: the rows a caller may see, ranked by
create_time, of which a page is those from `offset` on. create_time is whatever the row
has: taken from some clock before the insert, equal to another's, or set by an UpdateCron
that names it (`Retime`). Rows that share it are ranked in any order, and in another one with the next
page. `listing.repeated` and `listing.inserted` are history: the crons that came again, and the insertions the
caller can see since the first page. A page is a set; the order inside it is left out.

Mutants (`...Upsert`, `...RowOnly` and so on, each marked "Mutant:") are plausible bugs of
the definition that follows them; they are not part of any specification.

## Runs

| Run | Instance | Shows |
|---|---|---|
| `service` | 2 clients, 3 identities, 1 id, 2 faults; requests for every method and every check | the safety properties of the service and of the handler's answers |
| `system` | 2 clients, 2 executions, 2 faults or crashes; updates break the owner | archiving, contexts and early tasks, across overlapping executions; table and schedules agree; which updates get lost |
| `contract` | 1 client, 2 crons, 3 executions, 1 fault or crash, an ordinary user as the handler's identity, no RunCron, no updates | the system implements CronContract; a one-shot cron is delivered once, and at most once more per fault; without a fault it is not lost, and a recurring cron is not seeded again |
| `live` | 2 clients, 2 executions, 1 fault or crash, an agent that may omit the context id, no RunCron, no updates | tasks are consumed and recurring crons deliver (liveness) |
| `listing` | 4 crons, 2 users and the system, 2 create_times, limit 2, 3 pages | a listing repeats fewer crons than are inserted meanwhile; deletions, updates and ties make it repeat none |

Seven more runs each exhibit a disagreement between the code and its documentation:

| Run | What TLC shows | Where |
|---|---|---|
| `lost_update` | two UpdateCron calls with disjoint masks undo each other | spanner.go:270-289 |
| `unsynchronized` | updating the schedule, or the type, leaves the job as it was | spanner.go:288 |
| `retry_delete_job` | a half-done DeleteCron of a recurring cron can never be completed | spanner.go:410 |
| `no_id` | a request without id passes the check for one and creates a cron | jsonrpc.go:127 |
| `seed_twice` | a second firing seeds again before the first has stored its context | handler.go:252 |
| `lost_task` | a failure after the early 200 loses a one-shot cron for ever | handler.go:360 |
| `truncated_listing` | a full page has no next page token | spanner.go:376 |

A retyped cron (`unsynchronized`) is worse off than a rescheduled one: DeleteCron picks the
backing service by the stored type (spanner.go:408), so the job outlives the row and
DeleteLeavesNothing fails. Two more disagreements have no run: UpdateCron does not
re-validate, so a mask can clear a required field (spanner.go:258; the schedule is among
the updates of `unsynchronized`), and RunCron during an execution delivers a one-shot cron
twice (spanner.go:455-468).

*Why the bounds are enough.* Crons share nothing but call slots: every action
names one id, so one id shows all interleavings about it; `contract` has two, and the
proofs cover any number. Two clients and two executions are the smallest number that
overlap, and two faults allow a failure in a retry or a crash after a failure. `contract` has one fault and a third
execution, which that fault must not cause. `live` has
one fault, at any step: what it checks after a fault is that the next firing gets
through, and a second fault only starts that over. Its recurring cron has no initial
prompt, so an execution that reaches the agent has delivered the prompt. Clients and attempts
are symmetric; no liveness run uses symmetry. A remote call can fail with Unavailable, NotFound or PermissionDenied: the
first stands for all that are answered as internal errors, the others for those with a code of their own. In `listing`
two rows can share a create_time and a third come before or after them, and two insertions can make one cron come again. `CHECK_DEADLOCK FALSE` is set because the
systems do stop: when all ids are issued and nothing is in flight nothing need happen.

*Assumptions of the passing runs.* The updates of `service` leave type and schedule
alone (see `unsynchronized`). `contract` has no client updates, because such an update can
undo the archiving write (see `lost_update`); nor has `live`. `ContextIsSeeded` and `SeedsFirst` need an agent that returns its context
id. The properties that say "as long as nothing has failed" test `faults`, which also counts crashes.

*What the disagreements leave standing.* Two of them have a counterpart that holds, so that one knows how far the
code falls short. `MaskRespected` fails, but an UpdateCron restores a field outside its mask only if another one
has written there between its read and its write (`StaleNeedsOverlap`). `SeededOnce` fails, but only executions that
overlap, or that follow a failure, seed twice (`SeedsFirst`).

*Fairness.* `Fairness` is weak fairness of each client's RPC in flight, each handler and
goroutine (the Go scheduler, and remote calls that return) and each job or
task that stays due. Clients never have to start an RPC, faults never have to
happen. An agent that never answers is excluded: `Goroutine` is fair, although callAgent
sets no deadline (handler.go:142). `RetryFairness`, over the gateway, is weak fairness of each
RPC in flight and of a client that sends DeleteCron again while the row is there.

## Proofs

The `...Proofs` modules prove, for every value of the constants:

| Theorem | Statement | Module |
|---|---|---|
| `TypeCorrect` | `Spec => []TypeOK` | SchedulerServiceProofs |
| `GoneStaysGone` | `Spec => NoResurrection` | |
| `ServiceInvariant` | T implies `Spec => []ServiceInv` | |
| `DeleteIsComplete` | T implies `Spec => DeleteLeavesNothing` | |
| `NoOrphans` | T implies `Spec => []OrphanNeedsFault` | |
| `AuthorityInvariant` | T implies `Spec => []AuthorityInv` | RowProofs |
| `OnlyAuthorizedWrites` | T implies `Spec => AuthorizedWrites` | |
| `TimingInvariant` | TS implies `Spec => []TimingInv` | |
| `TableAndSchedulesAgree` | TS implies `Spec => []Synchronized` | |
| `GatewayImplementsService` | `GatewaySpec => Spec` | SchedulerGatewayProofs |
| `AnswersInvariant` | `GatewaySpec => []AnswersInv` | |
| `GatewayTypeCorrect` | `GatewaySpec => []GatewayTypeOK` | |
| `RefusalsChangeNothing` | `GatewaySpec => []RefusedChangedNothing` | |
| `OrphansReported` | T implies `GatewaySpec => []OrphansAreReported` | ToldProofs |
| `DeletedForGood` | T implies `GatewaySpec => []DeletedIsFinal` | |
| `CreatedForGood` | TS implies `GatewaySpec => []CreatedStands` | |
| `GatewayInvariant` | TS implies `GatewaySpec => []GatewayInv` | |
| `SystemTypeCorrect` | `SystemSpec => []HandlerTypeOK` | SystemProofs |
| `RunsInvariant` | `SystemSpec => []RunsInv` | |
| `LinkInvariant` | T implies `SystemSpec => []LinkInv` | |
| `EarlyTasksSurvive` | T implies `SystemSpec => []EarlyTaskSurvives` | |
| `DeploymentDeletesCompletely` | T implies `SystemSpec => DeleteLeavesNothing` | |
| `DeploymentDeletesForGood` | `SystemSpec => NoResurrection` | |
| `DeploymentWritesAreAuthorized` | T implies `SystemSpec => AuthorizedWrites` | |
| `DeploymentLeavesNoOrphans` | T implies `SystemSpec => []OrphanNeedsFault` | |
| `DeploymentTiming` | TS implies `SystemSpec => []TimingInv` | |
| `DeploymentAgrees` | TS implies `SystemSpec => []Synchronized` | |
| `ArchivedMeansDelivered` | A implies `SystemSpec => []ArchivedWasDelivered` | ExecutionProofs |
| `CronsResumeTheirOwn` | C implies `SystemSpec => []ContextIsOwn` | |
| `ConversationsAreSeeded` | C, S and an agent that returns its context id imply `SystemSpec => []ContextIsSeeded` | |
| `ExecutionInvariant` | A, C, S and such an agent imply `SystemSpec => []ExecutionInv` | |
| `LostUpdatesOverlap` | T implies `SystemSpec => StaleNeedsOverlap` | |
| `SettlingInvariant` | N implies `SystemSpec => []SettlingInv` | ContractProofs |
| `OneShotsAreNotLost` | N implies `SystemSpec => []OneShotNotLost` | |
| `FiringInvariant` | S without RunCron implies `SystemSpec => []FiringInv` | |
| `OneShotsFireOnce` | S without RunCron implies `SystemSpec => []OneShotOnce` | |
| `SeedingInvariant` | N and an agent that returns its context id imply `SystemSpec => []SeedingInv` | |
| `SeedingComesFirst` | N and such an agent imply `SystemSpec => SeedsFirst` | |
| `DeploymentImplementsContract` | N implies `SystemSpec => ImplementsContract` | |
| `ListingInvariant` | `Spec => []ListingInv`, of CronListing | ListingProofs |
| `RepeatsAreBounded` | `Spec => []RepeatsNeedInsertions`, of CronListing | |

The theorems rest on the named ASSUMEs of the modules: requests are typed, `None` is no value, a
client and a goroutine never share a call slot, `"OK"` is no error, and clients, POSTs and the UUIDs of a listing are finitely many. Where the table names
a letter, the statement holds of deployments whose clients keep to

| | Assumption | Why it is there |
|---|---|---|
| T | `TypesStable`: no update request names the type | UpdateCron lets it, and then DeleteCron looks for the wrong thing (`unsynchronized`) |
| TS | `TimingStable`: nor the schedule | the job keeps the old one (`unsynchronized`) |
| A | `ArchivingIsInternal`: no update request sets the state to archived | only the handler knows when a cron is done; the API does not enforce it |
| C | `ContextsUnforged`: no request names a conversation still to be opened | context ids are drawn by the agent |
| S | `SeedsStable`: no update request names the type or the initial prompt | an initial prompt added later seeds nothing |
| N | `NoClientUpdates`: no update requests at all | any update that races the archiving write can undo it (`lost_update`) |

RunCron during an execution delivers a one-shot cron twice, and is left out of FiringInvariant and OneShotsFireOnce.
Otherwise clients are free: every other RPC, any caller, any interleaving, any number of faults.

*The service.* DeleteLeavesNothing speaks of a step; it needs to know that an
RPC about to erase a row has left no job and no task (`ErasingIsClean`). Unschedule removes only
what the type it read points to, so the type must tell which service can know
the id (`Backed`): in the table (`RowsBacked`), and in every copy an RPC holds, since any of these may
be written back (`CallsBacked`). CreateSchedule is the only step that adds a job or task, and its
id is new to everybody (`UnissuedIsUnknown`). `ServiceInv` is the conjunction, and is inductive: lemma `InvStep` settles
everything a step does not write, and one lemma per action the rest. NoOrphans then
follows by induction relative to ServiceInv; NoResurrection and the types need no invariant but TypeOK. The lemmas about RPC
steps are stated for every slot, the goroutines' included, and not only for clients.

*Who writes, and what.* AuthorizedWrites compares the policy an RPC has read with the one its
write finds. They are the same because a row's policy never changes and the row cannot
have been replaced meanwhile: a CreateCron past its first call is alone with its id
(`CreatingIsAlone`), so whoever has read a row is bound by it (`CallersAreBound`). Synchronized
needs the same of the schedule: CreatePersist inserts what its job or task
was created with (`CreatingIsScheduled`), and UpdateWrite writes back the type and schedule the
row has by then (`WritesKeepTiming`). `AuthorityInv` and `TimingInv` add these to ServiceInv, and are inductive.

*The answers.* Every step of the gateway is a step of the service or stutters
(`GatewayImplementsService`), which carries the above over. RefusedChangedNothing holds
because, once its RPC has started and as long as no call of it fails, the only error is NotFound, and
only the first remote call of an RPC after its read can find nothing (`NothingFound`,
`ServedAsAsked`); EraseRow, the only later one, takes an absent row for a success. OrphansAreReported: a job or task
comes to an id only by CreateSchedule, whose CreateCron is in flight from then on or ends with an error, and loses its row only
to EraseRow, before which it is removed (`ErasingIsClean`). DeletedIsFinal: the result comes from EraseRow (`DeletedNow`),
which leaves neither row nor job, task or CreateCron of the id, and no step brings one back (`GoneKept`).
CreatedStands: the result comes from CreatePersist (`CreatedNow`), and while no DeleteCron
has read the row it stays, with its job (`StandsKept`).

`GatewayInv` is the conjunction of what these need.

*Executions and crashes.* A step of the system is, for the service, a step of an RPC, of a goroutine's
UpdateCron, a step outside, or a crash (`SystemServiceStep`); for an execution it begins, advances,
records or ends it, or frees its slot (`SystemRunStep`). The step lemmas of the service are stated for every
slot, so `AuthorityInv` survives. What is new is the link between the two: the slot of a goroutine holds its
own UpdateCron and the execution is of the POST's cron (`RunsInv`), and an executed cron is past its
creation (`RunsAreCreated`), so its id cannot be drawn again. A task is only removed by an
answer 200 or by Unschedule, and neither is given before the row exists: EarlyTaskSurvives is inductive
with these (`LinkInv`). Only three calls write the table (`TableWrite`, `RowStep`), from which the three action properties of the service
follow for the deployment; OrphanNeedsFault, TimingInv and Synchronized follow because a goroutine's mask names neither type nor schedule,
and a crash is a fault.

*Lost updates.* What UpdateCron merges differs from the row it has read only in its mask (`MergeRespectsMask`), whatever it is asked. Afterwards only
another write changes the row (`RowStep`): an insertion cannot, since a CreateCron is alone with its id, and a write inside the mask does no harm (`SystemStale`).

*Archiving and conversations.* All three properties compare a row with executions that have been under way
since before the row looked like that. They become inductive when they are stated of every copy as well, in the
row, in each CreateCron or UpdateCron about to write (`Held`) and in each execution (`Active`): `ArchivesAreDelivered`,
`ContextsAreOwn`, `CopiesAreSeeded`. The last needs that type and initial prompt of the copies are the row's (`CopiesAgree`): the
mask is computed from a copy read two agent calls ago. `ExecutionInv` is the conjunction.

*One-shot crons.* Without updates by clients only executions write a row back, archived if it is one-shot, so an archived cron stays
archived (`ArchivingIsFinal`, `ArchivingInv`). A task disappears with an answer 200, then there is an execution or the cron was archived, or
with its deletion, which then has still to erase the row (`TaskStep`). An execution ends without
archiving only at the price of a fault (`EndedAreArchived`), since who may read a cron may record it (`ReadersStay`): `SettlingInv`.

That it is delivered at most once, and once more per fault, is a matter of counting its executions (`FiredOnce`). A POST of it leaves
only when no other is unanswered (`PostsAreUnique`), and RunCron sends none (`NeverRun`). While a POST that has been executed is unanswered nothing else can fire
the cron; its answer takes the task away, or gets lost. So a cron that may still fire (`MayFire`) has had no more executions than
there were faults, which leaves room for the one that fires: `FiringInv`.

*Seeding.* No write takes a context away from a row (`ContextsAreKept`): an execution that reads none may clear none, since its mask names
the context only if it has got one. An execution that ends without a fault has recorded its context, or found one there, or its cron is gone
(`EndedHaveContext`, `SeedingInv`). So the copy a later execution starts with has one, and needs no seeding.

*The refinement.* A step changes what is delivered only when it is a call to the agent, which leaves table, RPCs and ids alone
(`PromptStep`): Deliver, to a cron that is not unborn by RunsAreCreated. Any other step changes at most one row (`OneRow`) and maps to
Register, Archive or Remove of that cron (`StatusChanged`, from ArchivingInv), or it changes none and maps to
Abandon of the crons whose creation it ends (`StatusKept`; a crash ends several), the empty set being a stutter.

*Paging.* A token comes only with a page shorter than the limit (spanner.go:376, see `truncated_listing`), so a first page with a
token had all the rows there were, and the token points past their end. What stands beyond it later was pushed there by
insertions (`TokenIsPastTheEnd`), whichever rows these are: no two rows share a place (`RowsBetween`), so a page
has no more rows than were pushed (`PageRows`), and each that comes again is taken off what can still come.
The bound is the code's as it stands: with the test of line 376 turned round, a changed order could repeat crons without any insertion.

TLC checks the inductive invariants on the small instances too: ServiceInv, TimingInv and GatewayInv in `service`, ExecutionInv
(with RunsInv and LinkInv) in `system`, SettlingInv (with ArchivingInv), FiringInv and SeedingInv in `contract`, ListingInv in `listing`.

Only model-checked: liveness (`TaskIsConsumed`, `RecurringRuns`), which is outside the prover's reach, and the
properties of the runs that exhibit a disagreement, which do not hold.

## Not modelled

- The response headers of CORS, endpoint registration, the agent card, and what
  NewSchedulerService builds: constant values or start-up wiring.
- Decoding of HTTP bodies, encoding of responses, metadata, logging, resource names.
- Who may POST to the handler, and how callers are authenticated: outside the code.
- The order in which the validator reports defects, and page tokens ListCrons cannot parse.
- Time: a job or task may fire whenever it exists, which includes every due time.
- Connections to the agent, of which every call opens one (handler.go:118), and an agent that
  never answers.

## Possible extensions

- A gateway that also serves the deployment, with its handler and crashes. What clients are told is proved to stay
  true of the service alone (ToldProofs); with crashes a request may also end without an answer.
- RunCron in the counting of executions: every RunCron of a one-shot cron should allow one execution more.

---------------------------- MODULE ContractProofs ----------------------------
(***************************************************************************)
(* Proofs about the life of crons, for all clients, ids, executions and    *)
(* faults: one-shot crons are not lost and fire once, and the deployment   *)
(* implements CronContract.                                                *)
(***************************************************************************)
EXTENDS ExecutionProofs, FiniteSetTheorems

-----------------------------------------------------------------------------
(***************************************************************************)
(* ArchivingInv: if clients send no updates, only executions write back a  *)
(* cron, archived if it is one-shot.                                       *)
(***************************************************************************)
LEMMA NoUpdatesStable ==
    NoClientUpdates => TypesStable /\ SeedsStable /\ ArchivingIsInternal
BY DEF NoClientUpdates, TypesStable, SeedsStable, ArchivingIsInternal

\* The only merges are those of executions, which archive one-shot crons.
LEMMA MergesArchive ==
    ASSUME NoClientUpdates, ArchivingInv, NEW s \in Slots, Merges(s)
    PROVE  calls'[s].cron.state = "STATE_ARCHIVED" <=> calls'[s].cron.type = "TYPE_AT"
<1> USE DEF ArchivingInv, LinkInv
<1>1. PICK id \in Ids, u \in Requests(s) :
         /\ table[id] # None
         /\ calls'[s].cron = ApplyMask(table[id].cron, u.cron, u.mask)
         /\ s \in Attempts => runs[s].pc = "persist" /\ runs[s].id = id
  BY DEF Merges
<1>2. /\ s \in Attempts
      /\ u.cron = PersistCron(runs[s]) /\ u.mask = PersistMask(runs[s])
  BY SlotKinds DEF Requests, NoClientUpdates
<1>3. /\ runs[s] \in Run
      /\ runs[s].cron.type = table[id].cron.type
  BY <1>1, <1>2 DEF RunsInv, HandlerTypeOK, CopiesAgree, Active, Stored
<1>4. calls'[s].cron.type = table[id].cron.type
  BY <1>1, <1>2 DEF ApplyMask, Masked, PersistMask
<1>5. CASE runs[s].cron.type = "TYPE_AT"
  BY <1>1, <1>2, <1>3, <1>4, <1>5, PersistCronType DEF ApplyMask, Masked
<1>6. CASE runs[s].cron.type # "TYPE_AT"
  <2>1. calls'[s].cron.state = table[id].cron.state
    BY <1>1, <1>2, <1>3, <1>6, PersistCronType DEF ApplyMask, Masked
  <2> QED BY <1>1, <1>3, <1>4, <1>6, <2>1 DEF ArchivingIsFinal, Stored
<1> QED BY <1>5, <1>6

LEMMA NextFinal ==
    ASSUME NoClientUpdates, ArchivingInv, [SystemNext]_handlerVars
    PROVE  ArchivingIsFinal'
<1> USE DEF ArchivingInv, LinkInv
<1>1. ASSUME NEW s \in Slots, calls'[s].pc = "persist"
      PROVE  calls'[s].cron.state = "STATE_ACTIVE"
  <2>1. CASE calls'[s] = calls[s]
    BY <1>1, <2>1 DEF ArchivingIsFinal
  <2>2. CASE Draws(s)
    BY <2>2, RequestsAssumption DEF Draws, NewCron, Cron
  <2> QED BY <1>1, <2>1, <2>2, HeldStep DEF Merges
<1>2. ASSUME NEW s \in Slots, calls'[s].pc = "write"
      PROVE  calls'[s].cron.state = "STATE_ARCHIVED" <=> calls'[s].cron.type = "TYPE_AT"
  BY <1>2, WriteStep, MergesArchive DEF ArchivingIsFinal
<1>3. ASSUME NEW id \in Ids, table'[id] # None,
             table'[id].cron.state = "STATE_ARCHIVED"
      PROVE  table'[id].cron.type = "TYPE_AT"
  <2>1. CASE table'[id] = table[id]
    BY <1>3, <2>1 DEF ArchivingIsFinal, Stored
  <2>2. CASE table'[id] # table[id]
    <3>1. PICK s \in Slots :
             /\ calls[s].id = id
             /\ Inserts(s, id) \/ Rewrites(s, id) \/ Erases(s, id)
      BY <2>2, RowStep
    <3>2. calls[s].pc \in {"persist", "write"} /\ table'[id].cron = calls[s].cron
      BY <1>3, <3>1, InsertedRow, RewrittenRow
         DEF Inserts, Rewrites, Erases, RunsInv, HandlerTypeOK
    <3> QED BY <1>3, <3>1, <3>2 DEF ArchivingIsFinal
  <2> QED BY <2>1, <2>2
<1> QED BY <1>1, <1>2, <1>3 DEF ArchivingIsFinal, Stored

LEMMA NextArchiving ==
    ASSUME NoClientUpdates, ArchivingInv, [SystemNext]_handlerVars
    PROVE  ArchivingInv'
BY NoUpdatesStable, NextLink, NextCopies, NextArchives, NextFinal DEF ArchivingInv, LinkInv

LEMMA InitArchiving == HandlerInit => ArchivingInv
<1> SUFFICES ASSUME HandlerInit
             PROVE  ArchivingInv
  OBVIOUS
<1>1. \A s \in Slots : calls[s].pc = "idle"
  BY DEF HandlerInit, Init, Idle
<1>2. \A id \in Ids : ~Stored(id)
  BY DEF HandlerInit, Init, CloudInit, Stored
<1>3. ArchivingIsFinal
  BY <1>1, <1>2 DEF ArchivingIsFinal
<1> QED BY <1>3, InitLink, InitCopies, InitArchives DEF ArchivingInv

LEMMA ArchivingInvariant ==
    ASSUME NoClientUpdates
    PROVE  SystemSpec => []ArchivingInv
BY InitArchiving, NextArchiving, PTL DEF SystemSpec

-----------------------------------------------------------------------------
(* Which steps end an execution, a deletion or a task, and at what price. *)

\* An execution under way ends by recording itself, by finding its cron out of
\* reach, or by a failure.
LEMMA EndStep ==
    ASSUME RunsInv, [SystemNext]_handlerVars, faults' = faults, NEW a \in Attempts,
           Active(a), runs'[a].pc = "done"
    PROVE  \/ UpdateWrite(a) /\ runs[a].pc = "persisting"
           \/ ~Readable(HandlerIdentity, runs[a].id, "UpdateCron") /\ UNCHANGED table
<1>1. /\ faults \in Nat /\ faults + 1 # faults
      /\ runs \in [Attempts -> Run]
  BY FaultStep DEF RunsInv, HandlerTypeOK
<1>2. runs'[a] # runs[a]
  BY DEF Active
<1>3. ASSUME \E b \in FreeAttempts : runs' = [runs EXCEPT ![b] = NoRun]
      PROVE  FALSE
  BY <1>1, <1>2, <1>3 DEF FreeAttempts, Active
<1>4. ~\E s \in Clients : ClientStart(s) \/ ClientProceed(s) \/ ClientFails(s)
  BY <1>2, <1>3 DEF ClientStart, ClientProceed, ClientFails
<1>5. ~\E id \in Ids : CloudStep(id)
  BY <1>3 DEF CloudStep
<1>6. ASSUME NEW b \in Attempts, Handle(b)
      PROVE  FALSE
  <2>1. HandleStart(b)
    BY <1>2, <1>6 DEF Handle, HandleSkip, HandleError, HandleAnswer
  <2>2. runs'[b].pc \in {"initial", "prompt"} /\ \A c \in Attempts \ {b} : runs'[c] = runs[c]
    BY <1>1, <2>1 DEF HandleStart
  <2> QED BY <1>2, <2>2
<1>7. ASSUME NEW b \in Attempts, Goroutine(b)
      PROVE  \/ UpdateWrite(a) /\ runs[a].pc = "persisting"
             \/ ~Readable(HandlerIdentity, runs[a].id, "UpdateCron") /\ UNCHANGED table
  <2>1. \A c \in Attempts \ {b} : runs'[c] = runs[c]
    BY <1>1, <1>7 DEF Goroutine, CallAgentInitial, CallAgentPrompt, Delivered,
       CallAgentFails, PersistRead, PersistWrite, PersistFails
  <2>2. b = a
    BY <1>2, <2>1
  <2>3. ~Fault
    BY <1>1 DEF Fault
  <2>4. ASSUME NEW message, NEW ctx, NEW pc \in {"prompt", "persist"},
               Delivered(a, message, ctx, pc)
        PROVE  FALSE
    <3>1. runs[a] \in Run /\ runs'[a].pc = pc
      BY <1>1, <2>4 DEF Delivered, Run
    <3> QED BY <3>1
  <2>5. ~CallAgentInitial(a) /\ ~CallAgentPrompt(a)
    BY <2>3, <2>4 DEF CallAgentInitial, CallAgentPrompt, CallAgentFails
  <2>6. ~PersistRead(a)
    BY <1>1 DEF PersistRead, Run
  <2> QED
    BY <1>7, <2>2, <2>3, <2>5, <2>6 DEF Goroutine, PersistWrite, PersistFails, CallFails
<1>8. ~Crash
  BY <1>1 DEF Crash, Fault
<1>9. ~UNCHANGED handlerVars
  BY <1>2 DEF handlerVars
<1> QED BY <1>4, <1>5, <1>6, <1>7, <1>8, <1>9 DEF SystemNext, HandlerNext

\* Until then, and until its POST is answered, it stays one of its cron.
LEMMA ActiveKept ==
    ASSUME RunsInv, [SystemNext]_handlerVars, NEW a \in Attempts,
           Active(a) \/ (posts[a] # None /\ runs[a].pc # "none")
    PROVE  runs'[a].id = runs[a].id /\ runs'[a].pc # "none"
<1>1. RunStep(a) /\ runs[a] \in Run
  BY SystemRunStep DEF RunsInv, HandlerTypeOK
<1>2. runs'[a] # NoRun
  <2>1. CASE Advances(a)
    <3>1. runs'[a].pc \in {"prompt", "persist"}
      BY <1>1, <2>1 DEF Advances, Sends, Run
    <3> QED BY <3>1 DEF NoRun
  <2>2. CASE Records(a)
    BY <1>1, <2>2 DEF Records, Run, NoRun
  <2>3. CASE Ends(a)
    <3>1. PICK sent \in SUBSET Messages :
             runs'[a] = Finished([runs[a] EXCEPT !.sent = sent])
      BY <2>3 DEF Ends
    <3>2. [runs[a] EXCEPT !.sent = sent] \in Run
      BY <1>1 DEF Run
    <3> QED BY <3>1, <3>2, FinishedType DEF NoRun
  <2>4. CASE runs'[a] = runs[a]
    BY <2>4 DEF Active, NoRun
  <2>5. ~Frees(a) /\ ~Begins(a)
    BY DEF Frees, Begins, HandleStart, Arrived, Active
  <2> QED BY <1>1, <2>1, <2>2, <2>3, <2>4, <2>5 DEF RunStep
<1> QED BY <1>1, <1>2, RunKept, RunType DEF Active

\* A DeleteCron that is about to erase the row does so, unless something fails.
LEMMA EraseStep ==
    ASSUME RunsInv, [SystemNext]_handlerVars, faults' = faults, NEW s \in Slots,
           calls[s].pc = "erase"
    PROVE  calls'[s] = calls[s] \/ EraseRow(s)
<1>1. calls \in [Slots -> Call] /\ ~Fault /\ ~Crash
  BY FaultStep DEF RunsInv, HandlerTypeOK, TypeOK, Call, Fault, Crash
<1>2. ASSUME NEW r \in Slots,
             StartsCreate(r) \/ StartsRead(r) \/ StartsUpdate(r) \/ CreatePersist(r)
      PROVE  calls'[s] = calls[s]
  BY <1>1, <1>2 DEF StartsCreate, CreateSchedule, StartsRead, DeleteRead, RunRead,
     StartsUpdate, UpdateRead, CreatePersist, Enter, Return
<1>3. ASSUME NEW r \in Slots, Later(r)
      PROVE  calls'[s] = calls[s] \/ EraseRow(s)
  <2>1. CASE r = s
    BY <1>1, <1>3, <2>1 DEF Later, UpdateWrite, Unschedule, RunNotFound, CallFails, RunSend
  <2>2. CASE r # s
    BY <1>1, <1>3, <2>2 DEF Later, UpdateWrite, Unschedule, EraseRow, RunNotFound,
       CallFails, RunSend, Goto, Return
  <2> QED BY <2>1, <2>2
<1> QED BY <1>1, <1>2, <1>3, SlotKinds, SystemServiceStep DEF ServiceStep, Outside

\* A task goes with the deletion of its cron, or with the answer to a POST.
LEMMA TaskStep ==
    ASSUME RunsInv, [SystemNext]_handlerVars, NEW id \in Ids,
           tasks[id] # None, tasks'[id] = None
    PROVE  \/ \E s \in Clients : Unschedule(s) /\ calls[s].id = id
           \/ \E a \in Attempts : posts[a] = id /\ (HandleSkip(a) \/ HandleAnswer(a))
<1>1. tasks \in [Ids -> Schedules \cup {None}]
  BY DEF RunsInv, HandlerTypeOK, TypeOK, CloudTypeOK
<1>2. ASSUME NEW s \in Clients, ClientStart(s)
      PROVE  FALSE
  BY <1>1, <1>2 DEF ClientStart, Start, StartRun, CreateSchedule, CreateTask, ValidCron,
     UpdateRead, DeleteRead, RunRead, cloudVars
<1>3. ASSUME NEW s \in Clients, ClientProceed(s) \/ ClientFails(s)
      PROVE  Unschedule(s) /\ calls[s].id = id
  <2>1. Unschedule(s)
    BY <1>3 DEF ClientProceed, ClientFails, Proceed, CreatePersist, UpdateWrite, EraseRow,
       RunNotFound, RunSend, CallFails, cloudVars
  <2> QED BY <1>1, <2>1 DEF Unschedule, DeleteTask
<1>4. ASSUME NEW i \in Ids, CloudStep(i)
      PROVE  FALSE
  BY <1>4 DEF CloudStep, DispatchDue, Due
<1>5. ASSUME NEW a \in Attempts, Handle(a)
      PROVE  posts[a] = id /\ (HandleSkip(a) \/ HandleAnswer(a))
  <2>1. HandleSkip(a) \/ HandleAnswer(a)
    BY <1>5 DEF Handle, HandleStart, HandleError, Answered, vars, cloudVars
  <2>2. \E ok \in BOOLEAN : Answered(a, ok)
    BY <2>1 DEF HandleSkip, HandleAnswer
  <2> QED BY <1>1, <2>1, <2>2 DEF Answered, DeleteTask
<1>6. ASSUME NEW a \in Attempts, Goroutine(a)
      PROVE  FALSE
  BY <1>6 DEF Goroutine, CallAgentInitial, CallAgentPrompt, Delivered, CallAgentFails,
     PersistRead, PersistWrite, PersistFails, UpdateRead, UpdateWrite, CallFails, vars,
     cloudVars
<1>7. CASE Crash \/ UNCHANGED handlerVars
  BY <1>7 DEF Crash, handlerVars, vars, cloudVars
<1> QED
  BY <1>2, <1>3, <1>4, <1>5, <1>6, <1>7 DEF SystemNext, HandlerNext

-----------------------------------------------------------------------------
(***************************************************************************)
(* SettlingInv: a task taken away leaves an execution, an archived cron or *)
(* a deletion, and an execution that ends leaves an archived cron.         *)
(***************************************************************************)

\* The row of a cron past its creation is left alone, rewritten or erased.
LEMMA RowStays ==
    ASSUME RunsInv, [SystemNext]_handlerVars, NEW id \in Ids, table'[id] # None,
           \A s \in Slots : ~Creating(s, id)
    PROVE  /\ Stored(id) /\ table'[id].policy = table[id].policy
           /\ \/ table'[id] = table[id]
              \/ \E s \in Slots : /\ calls[s].id = id /\ calls[s].pc = "write"
                                  /\ table'[id].cron = calls[s].cron
<1>1. CASE table'[id] = table[id]
  BY <1>1 DEF Stored
<1>2. CASE table'[id] # table[id]
  <2>1. PICK s \in Slots :
           /\ calls[s].id = id
           /\ Inserts(s, id) \/ Rewrites(s, id) \/ Erases(s, id)
    BY <1>2, RowStep
  <2>2. Rewrites(s, id)
    BY <2>1 DEF Inserts, Erases, Creating
  <2> QED BY <2>1, <2>2, RewrittenRow DEF Rewrites, Stored, RunsInv, HandlerTypeOK
<1> QED BY <1>1, <1>2

\* Past its creation, a one-shot cron that is rewritten is archived.
LEMMA OneShotRow ==
    ASSUME ArchivingInv, [SystemNext]_handlerVars, NEW id \in Ids, table'[id] # None,
           table'[id].cron.type = "TYPE_AT", \A s \in Slots : ~Creating(s, id)
    PROVE  /\ IsOneShot(id)
           /\ table'[id] = table[id] \/ table'[id].cron.state = "STATE_ARCHIVED"
<1>1. Stored(id) /\ table[id].cron.type = "TYPE_AT"
  BY RowKeepsSeed DEF SameSeed, ArchivingInv, LinkInv
<1>2. table'[id] = table[id] \/ table'[id].cron.state = "STATE_ARCHIVED"
  BY RowStays DEF ArchivingInv, LinkInv, ArchivingIsFinal
<1> QED BY <1>1, <1>2 DEF IsOneShot, Stored

LEMMA RunIsCreated ==
    ASSUME LinkInv, NEW a \in Attempts, runs[a].pc # "none"
    PROVE  runs[a].id \in Ids /\ \A s \in Slots : ~Creating(s, runs[a].id)
BY DEF LinkInv, RunsInv, RunsAreWhole, RunsAreCreated

LEMMA NextReaders ==
    ASSUME LinkInv, ReadersStay, [SystemNext]_handlerVars
    PROVE  ReadersStay'
<1> USE DEF LinkInv, Readable, HasPermission, OpenPermissions, OwnerPermissions
<1>1. SUFFICES ASSUME NEW a \in Attempts, runs'[a].pc \notin {"none", "done"},
                      table'[runs'[a].id] # None
               PROVE  HandlerIdentity \in table'[runs'[a].id].policy \cup {System}
  BY DEF ReadersStay, Active, Stored
<1>2. CASE Begins(a)
  <2>1. /\ UNCHANGED table /\ runs'[a].id = posts[a]
        /\ Readable(HandlerIdentity, posts[a], "GetCron")
    BY <1>2, BeginsStored DEF Begins, HandleStart, CanGet
  <2> QED BY <2>1
<1>3. CASE Active(a) /\ runs'[a].id = runs[a].id
  <2>1. runs[a].id \in Ids /\ \A s \in Slots : ~Creating(s, runs[a].id)
    BY <1>3, RunIsCreated DEF Active
  <2>2. Stored(runs[a].id) /\ table'[runs[a].id].policy = table[runs[a].id].policy
    BY <1>1, <1>3, <2>1, RowStays
  <2>3. Readable(HandlerIdentity, runs[a].id, "UpdateCron")
    BY <1>3, <2>2 DEF ReadersStay
  <2> QED BY <1>3, <2>2, <2>3
<1> QED BY <1>1, <1>2, <1>3, ActiveStep

LEMMA NextEnded ==
    ASSUME SettlingInv, [SystemNext]_handlerVars, faults' = 0, NEW a \in Attempts,
           runs'[a].pc = "done", table'[runs'[a].id] # None,
           table'[runs'[a].id].cron.type = "TYPE_AT"
    PROVE  table'[runs'[a].id].cron.state = "STATE_ARCHIVED"
<1> USE DEF SettlingInv, ArchivingInv, LinkInv
<1>1. faults = 0
  BY FaultStep
<1>2. /\ RunStep(a)
      /\ runs[a].pc = "none" => runs[a] = NoRun
  BY SystemRunStep DEF RunsInv, RunsAreWhole
<1>3. CASE runs[a].pc = "none"
  <2>1. Begins(a)
    BY <1>2, <1>3 DEF RunStep, Frees, Advances, Records, Ends, NoRun
  <2> QED BY <2>1, BeginsStored
<1>4. CASE runs[a].pc # "none"
  <2>1. runs'[a].id = runs[a].id
    BY <1>2, <1>4, RunKept DEF NoRun
  <2>2. runs[a].id \in Ids /\ \A s \in Slots : ~Creating(s, runs[a].id)
    BY <1>4, RunIsCreated
  <2>3. /\ IsOneShot(runs[a].id)
        /\ \/ table'[runs[a].id] = table[runs[a].id]
           \/ table'[runs[a].id].cron.state = "STATE_ARCHIVED"
    BY <2>1, <2>2, OneShotRow
  <2>4. CASE runs[a].pc = "done"
    BY <1>1, <2>1, <2>3, <2>4 DEF EndedAreArchived
  <2>5. CASE Active(a)
    <3>1. CASE UpdateWrite(a) /\ runs[a].pc = "persisting"
      <4>1. a \in Slots /\ calls[a].pc = "write" /\ calls[a].id = runs[a].id
        BY <3>1, SlotKinds DEF RunsInv, SlotsAreOwn
      <4>2. table' = [table EXCEPT ![calls[a].id].cron = calls[a].cron]
        BY <2>3, <3>1, <4>1 DEF UpdateWrite, UpdateRow, IsOneShot
      <4>3. table[runs[a].id] \in Row
        BY <2>2, <2>3, StoredRow DEF IsOneShot, RunsInv, HandlerTypeOK
      <4>4. table'[runs[a].id].cron = calls[a].cron
        BY <2>2, <4>1, <4>2, <4>3 DEF Row, RunsInv, HandlerTypeOK, TypeOK, CloudTypeOK
      <4> QED BY <2>1, <4>1, <4>4 DEF ArchivingIsFinal
    <3>2. CASE ~Readable(HandlerIdentity, runs[a].id, "UpdateCron")
      BY <2>3, <2>5, <3>2 DEF ReadersStay, IsOneShot, Stored
    <3> QED BY <1>1, <2>5, <3>1, <3>2, EndStep
  <2> QED BY <1>4, <2>4, <2>5 DEF Active
<1> QED BY <1>3, <1>4

LEMMA NextNotLost ==
    ASSUME SettlingInv, [SystemNext]_handlerVars, EndedAreArchived', faults' = 0,
           NEW id \in Ids, table'[id] # None, table'[id].cron.type = "TYPE_AT",
           table'[id].cron.state = "STATE_ACTIVE"
    PROVE  \/ tasks'[id] # None
           \/ \E a \in Attempts : runs'[a].id = id /\ runs'[a].pc # "done"
           \/ \E s \in Clients : calls'[s].pc = "erase" /\ calls'[s].id = id
<1> USE SlotKinds DEF SettlingInv, ArchivingInv, LinkInv
<1>1. faults = 0 /\ faults' = faults
  BY FaultStep
<1>2. CASE \E s \in Slots : Creating(s, id)
  <2>1. PICK s \in Slots : Creating(s, id)
    BY <1>2
  <2>2. table[id] = None
    BY <2>1 DEF Creating, AuthorityInv, CreatingIsAlone
  <2>3. PICK r \in Slots : calls[r].id = id /\ Inserts(r, id)
    BY <2>2, RowStep DEF Rewrites, Erases
  <2>4. Creating(r, id) /\ calls[r].cron.type = "TYPE_AT"
    BY <2>3, InsertedRow DEF Inserts, Creating, RunsInv, HandlerTypeOK
  <2> QED BY <2>4, EarlyTaskKept DEF EarlyTaskSurvives
<1>3. CASE \A s \in Slots : ~Creating(s, id)
  <2>1. IsOneShot(id) /\ table'[id] = table[id]
    BY <1>3, OneShotRow
  <2>2. /\ table[id].cron.state = "STATE_ACTIVE"
        /\ tasks[id] # None \/ Running(id) \/ \E s \in Clients : Erasing(s, id)
    BY <1>1, <2>1 DEF OneShotNotLost
  <2>3. CASE tasks[id] # None /\ tasks'[id] = None
    <3>1. ASSUME NEW s \in Clients, Unschedule(s), calls[s].id = id
          PROVE  calls'[s].pc = "erase" /\ calls'[s].id = id
      <4>1. Goto(s, "erase") \/ UNCHANGED tasks
        BY <1>1, <3>1 DEF Unschedule, Reply
      <4>2. calls[s] \in InFlight /\ calls \in [Slots -> Call]
        BY <3>1, BusyCall DEF Unschedule, RunsInv, HandlerTypeOK, TypeOK, Call
      <4> QED BY <2>3, <3>1, <4>1, <4>2 DEF Goto, InFlight
    <3>2. ASSUME NEW a \in Attempts, posts[a] = id, HandleSkip(a)
          PROVE  FALSE
      BY <2>2, <3>2 DEF HandleSkip
    <3>3. ASSUME NEW a \in Attempts, posts[a] = id, HandleAnswer(a)
          PROVE  runs'[a].id = id /\ runs'[a].pc # "done"
      <4>1. runs[a].pc # "none" /\ UNCHANGED runs /\ id # None
        BY <3>3, FaultsAssumption DEF HandleAnswer
      <4>2. runs[a].id = id
        BY <3>3, <4>1 DEF RunsInv, RunsFollowPosts
      <4>3. runs[a].pc # "done"
        BY <1>1, <2>1, <2>2, <4>2 DEF EndedAreArchived
      <4> QED BY <4>1, <4>2, <4>3
    <3> QED BY <2>3, <3>1, <3>2, <3>3, TaskStep
  <2>4. CASE Running(id)
    <3>1. PICK a \in Attempts : runs[a].id = id /\ runs[a].pc # "done"
      BY <2>4 DEF Running
    <3>2. Active(a)
      BY <3>1, FaultsAssumption DEF Active, RunsInv, RunsAreWhole, NoRun
    <3>3. runs'[a].id = id /\ runs'[a].pc # "none"
      BY <3>1, <3>2, ActiveKept
    <3>4. runs'[a].pc # "done"
      BY <1>1, <2>1, <2>2, <3>3 DEF EndedAreArchived, IsOneShot
    <3> QED BY <3>3, <3>4
  <2>5. CASE \E s \in Clients : Erasing(s, id)
    <3>1. PICK s \in Clients : Erasing(s, id)
      BY <2>5
    <3>2. ~EraseRow(s)
      BY <3>1 DEF Erasing, EraseRow, DeleteRow, RunsInv, HandlerTypeOK, TypeOK, CloudTypeOK
    <3>3. calls'[s] = calls[s]
      BY <1>1, <3>1, <3>2, EraseStep DEF Erasing
    <3> QED BY <3>1, <3>3 DEF Erasing
  <2> QED BY <2>2, <2>3, <2>4, <2>5
<1> QED BY <1>2, <1>3

LEMMA NextSettling ==
    ASSUME NoClientUpdates, SettlingInv, [SystemNext]_handlerVars
    PROVE  SettlingInv'
<1>1. ArchivingInv' /\ ReadersStay'
  BY NextArchiving, NextReaders DEF SettlingInv, ArchivingInv
<1>2. EndedAreArchived'
  BY NextEnded DEF EndedAreArchived, IsOneShot
<1>3. OneShotNotLost'
  <2>1. faults' = 0 \/ faults' > 0
    BY FaultStep DEF SettlingInv, ArchivingInv, LinkInv
  <2> QED BY <1>2, <2>1, NextNotLost DEF OneShotNotLost, IsOneShot, Running, Erasing
<1> QED BY <1>1, <1>2, <1>3 DEF SettlingInv

LEMMA InitSettling == HandlerInit => SettlingInv
<1> SUFFICES ASSUME HandlerInit
             PROVE  SettlingInv
  OBVIOUS
<1>1. \A a \in Attempts : runs[a].pc = "none"
  BY DEF HandlerInit, NoRun
<1>2. \A id \in Ids : ~IsOneShot(id)
  BY DEF HandlerInit, Init, CloudInit, IsOneShot
<1>3. ReadersStay /\ EndedAreArchived /\ OneShotNotLost
  BY <1>1, <1>2 DEF ReadersStay, Active, EndedAreArchived, OneShotNotLost
<1> QED BY <1>3, InitArchiving DEF SettlingInv

(***************************************************************************)
(* The inductive invariant of how one-shot crons settle: provided clients  *)
(* send no updates.                                                        *)
(***************************************************************************)
THEOREM SettlingInvariant ==
    ASSUME NoClientUpdates
    PROVE  SystemSpec => []SettlingInv
BY InitSettling, NextSettling, PTL DEF SystemSpec

(***************************************************************************)
(* As long as nothing has failed, a one-shot cron that is still active has *)
(* a task that will fire it or an execution under way: provided clients    *)
(* send no updates.                                                        *)
(***************************************************************************)
THEOREM OneShotsAreNotLost ==
    ASSUME NoClientUpdates
    PROVE  SystemSpec => []OneShotNotLost
<1>1. SettlingInv => OneShotNotLost
  BY DEF SettlingInv
<1> QED BY <1>1, SettlingInvariant, PTL

-----------------------------------------------------------------------------
(***************************************************************************)
(* FiringInv: without RunCron a cron's POSTs leave one at a time, and none *)
(* leaves once a one-shot cron has been executed.                          *)
(***************************************************************************)
LEMMA NextNeverRun ==
    ASSUME "RunCron" \notin ClientRPCs, RunsInv, NeverRun, [SystemNext]_handlerVars
    PROVE  NeverRun'
<1> USE SlotKinds
<1>1. calls \in [Slots -> Call] /\ TypeOK
  BY DEF RunsInv, HandlerTypeOK, TypeOK, Call
<1>2. SUFFICES ASSUME NEW s \in Slots
               PROVE  calls'[s].pc # "run"
  BY DEF NeverRun
<1>3. CASE calls'[s] = calls[s]
  BY <1>3 DEF NeverRun
<1>4. ASSUME NEW r \in Slots,
             \/ Return(r)
             \/ \E pc \in {"persist", "write", "unschedule", "erase"} :
                   \/ Goto(r, pc) /\ calls[r].pc # "idle"
                   \/ \E caller, id, cron, mask : Enter(r, pc, caller, id, cron, mask)
      PROVE  calls'[s].pc # "run"
  <2>1. CASE r # s
    BY <1>1, <1>4, <2>1 DEF Return, Goto, Enter, NeverRun
  <2>2. CASE r = s /\ \E pc \in {"persist", "write", "unschedule", "erase"} :
                         Goto(r, pc) /\ calls[r].pc # "idle"
    <3>1. calls[s] \in InFlight
      BY <1>1, <2>2, BusyCall
    <3> QED BY <1>1, <2>2, <3>1 DEF Goto, InFlight
  <2>3. CASE r = s /\ (Return(r) \/ \E pc \in {"persist", "write", "unschedule", "erase"} :
                \E caller, id, cron, mask : Enter(r, pc, caller, id, cron, mask))
    BY <1>1, <2>3 DEF Return, Enter, Idle
  <2> QED BY <1>4, <2>1, <2>2, <2>3
<1>5. ASSUME NEW r \in Slots,
             \/ StartsCreate(r) \/ StartsRead(r) \/ CreatePersist(r)
             \/ StartsUpdate(r) \/ Later(r)
      PROVE  calls'[s].pc # "run"
  <2>1. CASE StartsCreate(r)
    BY <1>3, <1>4, <2>1 DEF StartsCreate, CreateSchedule
  <2>2. CASE StartsRead(r) \/ StartsUpdate(r)
    BY <1>4, <2>2 DEF StartsRead, DeleteRead, StartsUpdate, UpdateRead
  <2>3. CASE CreatePersist(r) \/ UpdateWrite(r) \/ EraseRow(r) \/ RunNotFound(r)
             \/ CallFails(r) \/ \E a \in Attempts : RunSend(r, a)
    BY <1>4, <2>3 DEF CreatePersist, UpdateWrite, EraseRow, RunNotFound, CallFails, RunSend
  <2>4. CASE Unschedule(r)
    BY <1>4, <2>4 DEF Unschedule
  <2> QED BY <1>5, <2>1, <2>2, <2>3, <2>4 DEF Later
<1>6. CASE Outside \/ Crash
  BY <1>3, <1>6 DEF Outside, Crash, Idle
<1> QED BY <1>5, <1>6, SystemServiceStep DEF ServiceStep

\* Every POST leaves by Cloud Scheduler or Cloud Tasks, in a free slot.
LEMMA PostsStep ==
    ASSUME RunsInv, NeverRun, [SystemNext]_handlerVars
    PROVE  \/ \A a \in Attempts : posts'[a] \in {posts[a], None}
           \/ \E id \in Ids, b \in FreeAttempts : DispatchDue(id, b)
<1> USE SlotKinds
<1>1. posts \in [Attempts -> Ids \cup {None}]
  BY DEF RunsInv, HandlerTypeOK, TypeOK, CloudTypeOK
<1>2. ASSUME NEW s \in Clients, ClientStart(s) \/ ClientProceed(s) \/ ClientFails(s)
      PROVE  UNCHANGED posts
  <2>1. \A a \in Attempts : ~RunSend(s, a)
    BY DEF RunSend, NeverRun
  <2> QED
    BY <1>2, <2>1 DEF ClientStart, ClientProceed, ClientFails, Start, StartRun,
       CreateSchedule, UpdateRead, DeleteRead, RunRead, Proceed, CreatePersist, UpdateWrite,
       Unschedule, EraseRow, RunNotFound, CallFails, cloudVars, FreeAttempts
<1>3. ASSUME NEW id \in Ids, CloudStep(id)
      PROVE  \E b \in FreeAttempts : DispatchDue(id, b)
  BY <1>3 DEF CloudStep
<1>4. ASSUME NEW a \in Attempts, Handle(a)
      PROVE  \A b \in Attempts : posts'[b] \in {posts[b], None}
  BY <1>1, <1>4 DEF Handle, HandleStart, HandleSkip, HandleError, HandleAnswer, Answered,
     vars, cloudVars
<1>5. ASSUME NEW a \in Attempts, Goroutine(a)
      PROVE  UNCHANGED posts
  BY <1>5 DEF Goroutine, CallAgentInitial, CallAgentPrompt, Delivered, CallAgentFails,
     PersistRead, PersistWrite, PersistFails, UpdateRead, UpdateWrite, CallFails, vars,
     cloudVars
<1>6. CASE Crash \/ UNCHANGED handlerVars
  BY <1>6 DEF Crash, handlerVars, vars, cloudVars
<1> QED
  BY <1>2, <1>3, <1>4, <1>5, <1>6 DEF SystemNext, HandlerNext

LEMMA NextPostsUnique ==
    ASSUME RunsInv, NeverRun, PostsAreUnique, [SystemNext]_handlerVars
    PROVE  PostsAreUnique'
<1>1. posts \in [Attempts -> Ids \cup {None}]
  BY DEF RunsInv, HandlerTypeOK, TypeOK, CloudTypeOK
<1>2. CASE \A a \in Attempts : posts'[a] \in {posts[a], None}
  BY <1>2 DEF PostsAreUnique
<1>3. CASE \E id \in Ids, b \in FreeAttempts : DispatchDue(id, b)
  BY <1>1, <1>3 DEF DispatchDue, Due, Send, FreeAttempts, PostsAreUnique
<1> QED BY <1>2, <1>3, PostsStep

\* A POST that was executed is answered with a success, or something fails.
LEMMA AnswerStep ==
    ASSUME RunsInv, [SystemNext]_handlerVars, faults' = faults, NEW a \in Attempts,
           posts[a] # None, posts'[a] # posts[a], runs[a].pc # "none"
    PROVE  HandleAnswer(a) /\ Answered(a, TRUE)
<1> USE SlotKinds
<1>1. posts \in [Attempts -> Ids \cup {None}] /\ ~Fault
  BY FaultStep DEF RunsInv, HandlerTypeOK, TypeOK, CloudTypeOK, Fault
<1>2. ASSUME NEW s \in Clients, ClientStart(s) \/ ClientProceed(s) \/ ClientFails(s)
      PROVE  FALSE
  <2>1. ~\E b \in FreeAttempts : RunSend(s, b)
    BY <1>1 DEF RunSend, Send, FreeAttempts
  <2> QED
    BY <1>2, <2>1 DEF ClientStart, ClientProceed, ClientFails, Start, StartRun,
       CreateSchedule, UpdateRead, DeleteRead, RunRead, Proceed, CreatePersist, UpdateWrite,
       Unschedule, EraseRow, RunNotFound, CallFails, cloudVars
<1>3. ~\E id \in Ids : CloudStep(id)
  BY <1>1 DEF CloudStep, DispatchDue, Due, Send, FreeAttempts
<1>4. ASSUME NEW b \in Attempts, Handle(b)
      PROVE  HandleAnswer(a) /\ Answered(a, TRUE)
  <2>1. ~HandleStart(b)
    BY DEF HandleStart, vars, cloudVars
  <2>2. b = a
    BY <1>1, <1>4, <2>1 DEF Handle, HandleSkip, HandleError, HandleAnswer, Answered
  <2>3. ~HandleSkip(a) /\ ~HandleError(a)
    BY DEF HandleSkip, HandleError, Arrived
  <2> QED
    BY <1>1, <1>4, <2>1, <2>2, <2>3 DEF Handle, HandleAnswer, Reply, Fault
<1>5. ASSUME NEW b \in Attempts, Goroutine(b)
      PROVE  FALSE
  BY <1>5 DEF Goroutine, CallAgentInitial, CallAgentPrompt, Delivered, CallAgentFails,
     PersistRead, PersistWrite, PersistFails, UpdateRead, UpdateWrite, CallFails, vars,
     cloudVars
<1>6. ~Crash /\ ~UNCHANGED handlerVars
  BY <1>1 DEF Crash, handlerVars, vars, cloudVars
<1> QED
  BY <1>2, <1>3, <1>4, <1>5, <1>6 DEF SystemNext, HandlerNext

\* Tasks are only made for fresh ids.
LEMMA TaskNotBack ==
    ASSUME RunsInv, [SystemNext]_handlerVars, NEW id \in issued, tasks[id] = None
    PROVE  tasks'[id] = None
<1> USE SlotKinds DEF RunsInv, HandlerTypeOK, TypeOK, CloudTypeOK
<1>1. ASSUME NEW s \in Clients, StartsCreate(s) \/ StartsRead(s) \/ CreatePersist(s)
      PROVE  tasks'[id] = None
  BY <1>1 DEF StartsCreate, CreateSchedule, CreateTask, StartsRead, DeleteRead, RunRead,
     CreatePersist, cloudVars
<1>2. ASSUME NEW s \in Slots, StartsUpdate(s) \/ Later(s)
      PROVE  tasks'[id] = None
  BY <1>2 DEF StartsUpdate, UpdateRead, Later, UpdateWrite, Unschedule, DeleteTask, EraseRow,
     RunNotFound, CallFails, RunSend, cloudVars
<1>3. CASE Outside \/ Crash
  BY <1>3 DEF Outside, Crash
<1> QED BY <1>1, <1>2, <1>3, SystemServiceStep DEF ServiceStep

\* A step adds at most one execution of a cron, that of a POST of it.
LEMMA ExecutionsStep ==
    ASSUME LinkInv, [SystemNext]_handlerVars, NEW id \in Ids
    PROVE  \/ Executions(id)' \subseteq Executions(id)
           \/ \E a \in Attempts :
                 /\ Begins(a) /\ posts[a] = id
                 /\ Executions(id)' \subseteq Executions(id) \cup {a}
<1> USE DEF LinkInv
<1>1. ASSUME NEW a \in Attempts, a \in Executions(id)', a \notin Executions(id)
      PROVE  Begins(a) /\ posts[a] = id
  <2>1. /\ runs'[a].pc # "none" /\ runs'[a].id = id
        /\ RunStep(a)
        /\ runs[a].pc = "none" => runs[a] = NoRun
    BY <1>1, SystemRunStep DEF Executions, RunsInv, RunsAreWhole
  <2>2. runs[a].pc = "none"
    BY <1>1, <2>1, RunKept DEF Executions, NoRun
  <2>3. Begins(a)
    BY <2>1, <2>2 DEF RunStep, Frees, Advances, Records, Ends, NoRun
  <2> QED BY <2>1, <2>3, BeginsStored
<1>2. ASSUME NEW a \in Attempts, NEW b \in Attempts, Begins(a), Begins(b)
      PROVE  a = b
  BY <1>2 DEF Begins, HandleStart, Arrived, RunsInv, HandlerTypeOK
<1>3. Executions(id)' \subseteq Attempts
  BY DEF Executions
<1> QED BY <1>1, <1>2, <1>3

\* What may fire a one-shot cron did so before, unless something failed.
LEMMA MayFireStep ==
    ASSUME FiringInv, [SystemNext]_handlerVars, PostsAreUnique', faults' = faults,
           NEW id \in issued, jobs[id] = None, MayFire(id)'
    PROVE  MayFire(id)
<1> USE DEF FiringInv, LinkInv
<1>1. /\ posts \in [Attempts -> Ids \cup {None}]
      /\ tasks \in [Ids -> Schedules \cup {None}]
      /\ id \in Ids /\ id # None
  BY FaultsAssumption DEF RunsInv, HandlerTypeOK, TypeOK, CloudTypeOK
<1>2. ~Answering(id)
  <2>1. SUFFICES ASSUME NEW a \in Attempts, runs[a].pc # "none", runs[a].id = id,
                        posts[a] = id
                 PROVE  FALSE
    BY DEF Answering, Executions
  <2>2. runs'[a].id = id /\ runs'[a].pc # "none"
    BY <1>1, <2>1, ActiveKept
  <2>3. posts'[a] # id
    BY <2>2 DEF MayFire, Answering, Executions
  <2>4. Answered(a, TRUE)
    BY <1>1, <2>1, <2>3, AnswerStep
  <2>5. tasks'[id] = None /\ posts' = [posts EXCEPT ![a] = None]
    BY <1>1, <2>1, <2>4 DEF Answered, DeleteTask
  <2>6. PICK b \in Attempts : posts'[b] = id
    BY <2>5 DEF MayFire
  <2>7. posts[b] = id /\ b # a
    BY <1>1, <2>3, <2>5, <2>6
  <2> QED BY <1>1, <2>1, <2>7 DEF PostsAreUnique
<1>3. CASE tasks'[id] # None
  BY <1>2, <1>3, TaskNotBack DEF MayFire
<1>4. ASSUME NEW a \in Attempts, posts'[a] = id, runs'[a].pc = "none"
      PROVE  MayFire(id)
  <2>1. CASE posts[a] = id
    BY <1>1, <1>2, <1>4, <2>1, ActiveKept DEF MayFire
  <2>2. CASE posts[a] # id
    <3>1. PICK i \in Ids, c \in FreeAttempts : DispatchDue(i, c)
      BY <1>1, <1>4, <2>2, PostsStep
    <3>2. i = id
      BY <1>1, <1>4, <2>2, <3>1 DEF DispatchDue, Due, Send
    <3> QED BY <1>2, <3>1, <3>2 DEF DispatchDue, Due, MayFire
  <2> QED BY <2>1, <2>2
<1> QED BY <1>3, <1>4 DEF MayFire

LEMMA ExecutionsFinite ==
    ASSUME NEW id
    PROVE  IsFiniteSet(Executions(id)) /\ Cardinality(Executions(id)) \in Nat
BY SlotsAssumption, FS_Subset, FS_CardinalityType DEF Executions

LEMMA NextFired ==
    ASSUME FiringInv, [SystemNext]_handlerVars, PostsAreUnique', NEW id \in Ids,
           table'[id] # None, table'[id].cron.type = "TYPE_AT"
    PROVE  /\ Cardinality(Executions(id))' <= 1 + faults'
           /\ MayFire(id)' => Cardinality(Executions(id))' <= faults'
<1> USE DEF FiringInv, LinkInv
<1> DEFINE old == Executions(id)
           new == Executions(id)'
<1>1. /\ faults \in Nat /\ faults' \in {faults, faults + 1}
      /\ id # None
  BY FaultStep, FaultsAssumption
<1>2. IsFiniteSet(old) /\ Cardinality(old) \in Nat
  BY ExecutionsFinite
<1>3. CASE \E s \in Slots : Creating(s, id)
  <2>1. table[id] = None /\ \A a \in Attempts : runs[a].pc # "none" => runs[a].id # id
    BY <1>3 DEF Creating, AuthorityInv, CreatingIsAlone, RunsAreCreated
  <2>2. old = {} /\ \A a \in Attempts : Begins(a) => posts[a] # id
    BY <2>1, BeginsStored DEF Executions, Stored
  <2>3. new = {}
    BY <2>2, ExecutionsStep
  <2> QED BY <1>1, <2>3, FS_EmptySet
<1>4. CASE \A s \in Slots : ~Creating(s, id)
  <2>1. Stored(id) /\ table[id].cron.type = "TYPE_AT"
    BY <1>4, RowKeepsSeed DEF SameSeed
  <2>2. /\ Cardinality(old) <= 1 + faults
        /\ MayFire(id) => Cardinality(old) <= faults
    BY <2>1 DEF FiredOnce, IsOneShot, Stored
  <2>3. jobs[id] = None /\ id \in issued
    BY <2>1, ReadableBacked DEF Backed, Stored, AuthorityInv
  <2>4. ASSUME NEW a \in Attempts, Begins(a), posts[a] = id, new \subseteq old \cup {a}
        PROVE  /\ Cardinality(new) <= 1 + faults'
               /\ ~MayFire(id)'
    <3>1. runs[a].pc = "none" /\ UNCHANGED <<posts, faults>>
      BY <2>4 DEF Begins, HandleStart, Arrived, vars, cloudVars
    <3>2. MayFire(id)
      BY <1>1, <2>4, <3>1 DEF MayFire, Answering, Executions, PostsAreUnique
    <3>3. IsFiniteSet(old \cup {a}) /\ Cardinality(old \cup {a}) <= Cardinality(old) + 1
      <4> HIDE DEF old
      <4>1. /\ IsFiniteSet(old \cup {a})
            /\ Cardinality(old \cup {a})
               = IF a \in old THEN Cardinality(old) ELSE Cardinality(old) + 1
        BY <1>2, FS_AddElement
      <4> QED BY <1>2, <4>1
    <3>4. Cardinality(new) <= Cardinality(old \cup {a}) /\ Cardinality(new) \in Nat
      BY <2>4, <3>3, FS_Subset, FS_CardinalityType
    <3>5. /\ Cardinality(old \cup {a}) \in Nat
          /\ Cardinality(old) <= faults
      BY <2>2, <3>2, <3>3, FS_CardinalityType
    <3>6. runs'[a].id = id /\ runs'[a].pc # "none"
      BY <2>4, BeginsStored
    <3>7. Answering(id)'
      BY <2>4, <3>1, <3>6 DEF Answering, Executions
    <3> QED BY <1>1, <1>2, <3>1, <3>3, <3>4, <3>5, <3>7 DEF MayFire
  <2>5. CASE new \subseteq old
    <3>1. Cardinality(new) <= Cardinality(old) /\ Cardinality(new) \in Nat
      BY <1>2, <2>5, FS_Subset, FS_CardinalityType
    <3>2. CASE faults' = faults
      BY <1>1, <1>2, <2>2, <2>3, <3>1, <3>2, MayFireStep
    <3>3. CASE faults' = faults + 1
      BY <1>1, <1>2, <2>2, <3>1, <3>3
    <3> QED BY <1>1, <3>2, <3>3
  <2> QED BY <2>4, <2>5, ExecutionsStep
<1> QED BY <1>3, <1>4

LEMMA NextFiring ==
    ASSUME SeedsStable, "RunCron" \notin ClientRPCs, FiringInv, [SystemNext]_handlerVars
    PROVE  FiringInv'
<1>1. LinkInv' /\ CopiesAgree'
  BY StableTypesToo, NextLink, NextCopies DEF FiringInv
<1>2. NeverRun' /\ PostsAreUnique'
  BY NextNeverRun, NextPostsUnique DEF FiringInv, LinkInv
<1>3. FiredOnce'
  BY <1>2, NextFired DEF FiredOnce, IsOneShot
<1> QED BY <1>1, <1>2, <1>3 DEF FiringInv

LEMMA InitFiring == HandlerInit => FiringInv
<1> SUFFICES ASSUME HandlerInit
             PROVE  FiringInv
  OBVIOUS
<1>1. NeverRun /\ PostsAreUnique
  BY DEF HandlerInit, Init, CloudInit, Idle, NeverRun, PostsAreUnique
<1>2. \A id \in Ids : ~IsOneShot(id)
  BY DEF HandlerInit, Init, CloudInit, IsOneShot
<1> QED BY <1>1, <1>2, InitLink, InitCopies DEF FiringInv, FiredOnce

(***************************************************************************)
(* The inductive invariant of what fires one-shot crons: provided clients  *)
(* do not call RunCron and change neither types nor initial prompts.       *)
(***************************************************************************)
THEOREM FiringInvariant ==
    ASSUME SeedsStable, "RunCron" \notin ClientRPCs
    PROVE  SystemSpec => []FiringInv
BY InitFiring, NextFiring, PTL DEF SystemSpec

(***************************************************************************)
(* The prompt of a one-shot cron reaches the agent at most once, and once  *)
(* more for every failure: under the same conditions. Every delivery is    *)
(* that of an execution.                                                   *)
(***************************************************************************)
THEOREM OneShotsFireOnce ==
    ASSUME SeedsStable, "RunCron" \notin ClientRPCs
    PROVE  SystemSpec => []OneShotOnce
<1>1. ASSUME FiringInv, NEW id \in Ids, IsOneShot(id)
      PROVE  Cardinality(Deliveries(id, "prompt")) <= 1 + faults
  <2>1. Deliveries(id, "prompt") \subseteq Executions(id)
    BY <1>1 DEF Deliveries, Executions, FiringInv, LinkInv, RunsInv, RunsAreWhole, NoRun
  <2>2. /\ Cardinality(Deliveries(id, "prompt")) <= Cardinality(Executions(id))
        /\ Cardinality(Deliveries(id, "prompt")) \in Nat
        /\ Cardinality(Executions(id)) \in Nat
    BY <2>1, ExecutionsFinite, FS_Subset, FS_CardinalityType
  <2>3. Cardinality(Executions(id)) <= 1 + faults /\ faults \in Nat
    BY <1>1, FaultsAssumption
       DEF FiringInv, FiredOnce, LinkInv, RunsInv, HandlerTypeOK, TypeOK, CloudTypeOK
  <2> QED BY <2>2, <2>3
<1>2. FiringInv => OneShotOnce
  BY <1>1 DEF OneShotOnce
<1> QED BY <1>2, FiringInvariant, PTL

-----------------------------------------------------------------------------
(***************************************************************************)
(* SeedingInv: an execution that ends leaves a row with a context, which   *)
(* no write takes away.                                                    *)
(***************************************************************************)

\* An execution to be recorded has a context if the agent names one.
LEMMA NextRecordable ==
    ASSUME ~AgentOmitsContext, RunsInv, ContextsAreKept, [SystemNext]_handlerVars,
           NEW a \in Attempts, runs'[a].pc = "persist"
    PROVE  runs'[a].ctx # None
<1>1. runs[a] \in Run
  BY DEF RunsInv, HandlerTypeOK
<1>2. ~Begins(a)
  BY BeginsStored
<1>3. CASE Advances(a)
  <2>1. PICK returned \in Returnable(Conversation(a, "prompt", runs[a].ctx)) :
           runs'[a] = [runs[a] EXCEPT !.pc = "persist",
                                      !.ctx = MergeContextID(@, returned),
                                      !.sent = @ \cup {"prompt"}]
    BY <1>1, <1>3 DEF Advances, Sends, Run
  <2>2. returned = Conversation(a, "prompt", runs[a].ctx) /\ returned # None
    BY HandlerAssumption, NoneIsUnset DEF Returnable, Conversation, Messages
  <2> QED BY <1>1, <2>1, <2>2 DEF MergeContextID, Run
<1>4. CASE runs[a].pc = "persist" /\ runs'[a].ctx = runs[a].ctx
  BY <1>4 DEF ContextsAreKept
<1> QED BY <1>2, <1>3, <1>4, ActiveStep

\* What an UpdateCron writes back has a context: only executions send one.
LEMMA NextWritten ==
    ASSUME NoClientUpdates, RunsInv, ContextsAreKept, [SystemNext]_handlerVars,
           NEW s \in Slots, calls'[s].pc = "write"
    PROVE  calls'[s].cron.context_id # None
<1>1. CASE calls'[s] = calls[s]
  BY <1>1 DEF ContextsAreKept
<1>2. CASE Merges(s)
  <2>1. PICK id \in Ids, u \in Requests(s) :
           /\ table[id] # None
           /\ calls'[s].cron = ApplyMask(table[id].cron, u.cron, u.mask)
           /\ s \in Attempts => runs[s].pc = "persist" /\ runs[s].id = id
    BY <1>2 DEF Merges
  <2>2. /\ s \in Attempts
        /\ u.cron = PersistCron(runs[s]) /\ u.mask = PersistMask(runs[s])
    BY SlotKinds DEF Requests, NoClientUpdates
  <2>3. /\ runs[s] \in Run /\ runs[s].ctx # None
        /\ runs[s].cron.context_id # None => table[id].cron.context_id # None
    BY <2>1, <2>2 DEF RunsInv, HandlerTypeOK, ContextsAreKept, Active, Stored
  <2>4. CASE "context_id" \in u.mask
    BY <2>1, <2>2, <2>3, <2>4, PersistCronType DEF ApplyMask, Masked
  <2>5. CASE "context_id" \notin u.mask
    <3>1. runs[s].cron.context_id = runs[s].ctx
      BY <2>2, <2>3, <2>5 DEF PersistMask
    <3> QED BY <2>1, <2>3, <2>5, <3>1 DEF ApplyMask, Masked
  <2> QED BY <2>4, <2>5
<1> QED BY <1>1, <1>2, WriteStep

\* The row of a cron past its creation keeps its context.
LEMMA ContextStays ==
    ASSUME RunsInv, ContextsAreKept, [SystemNext]_handlerVars, NEW id \in Ids,
           table'[id] # None, \A s \in Slots : ~Creating(s, id),
           table[id].cron.context_id # None
    PROVE  table'[id].cron.context_id # None
BY RowStays DEF ContextsAreKept

LEMMA NextKept ==
    ASSUME NoClientUpdates, ~AgentOmitsContext, LinkInv, ContextsAreKept,
           [SystemNext]_handlerVars
    PROVE  ContextsAreKept'
<1> USE DEF LinkInv
<1>1. ASSUME NEW a \in Attempts, runs'[a].pc \notin {"none", "done"},
             table'[runs'[a].id] # None, runs'[a].cron.context_id # None
      PROVE  table'[runs'[a].id].cron.context_id # None
  <2>1. CASE Begins(a)
    BY <1>1, <2>1, BeginsStored
  <2>2. CASE Active(a) /\ runs'[a].id = runs[a].id /\ runs'[a].cron = runs[a].cron
    <3>1. runs[a].id \in Ids /\ \A s \in Slots : ~Creating(s, runs[a].id)
      BY <2>2, RunIsCreated DEF Active
    <3>2. Stored(runs[a].id)
      BY <1>1, <2>2, <3>1, RowStays
    <3>3. table[runs[a].id].cron.context_id # None
      BY <1>1, <2>2, <3>2 DEF ContextsAreKept
    <3> QED BY <1>1, <2>2, <3>1, <3>3, ContextStays
  <2> QED BY <1>1, <2>1, <2>2, ActiveStep
<1> QED BY <1>1, NextRecordable, NextWritten DEF ContextsAreKept, Active, Stored

LEMMA NextHaveContext ==
    ASSUME SeedingInv, [SystemNext]_handlerVars, faults' = 0, NEW a \in Attempts,
           runs'[a].pc = "done", table'[runs'[a].id] # None
    PROVE  table'[runs'[a].id].cron.context_id # None
<1> USE DEF SeedingInv, LinkInv
<1>1. faults = 0
  BY FaultStep
<1>2. /\ RunStep(a)
      /\ runs[a].pc = "none" => runs[a] = NoRun
  BY SystemRunStep DEF RunsInv, RunsAreWhole
<1>3. runs[a].pc # "none"
  BY <1>2, BeginsStored DEF RunStep, Frees, Advances, Records, Ends, NoRun
<1>4. runs'[a].id = runs[a].id
  BY <1>2, <1>3, RunKept DEF NoRun
<1>5. runs[a].id \in Ids /\ \A s \in Slots : ~Creating(s, runs[a].id)
  BY <1>3, RunIsCreated
<1>6. Stored(runs[a].id)
  BY <1>4, <1>5, RowStays
<1>7. CASE runs[a].pc = "done"
  BY <1>1, <1>4, <1>5, <1>6, <1>7, ContextStays DEF EndedHaveContext
<1>8. CASE Active(a)
  <2>1. CASE UpdateWrite(a) /\ runs[a].pc = "persisting"
    <3>1. a \in Slots /\ calls[a].pc = "write" /\ calls[a].id = runs[a].id
      BY <2>1, SlotKinds DEF RunsInv, SlotsAreOwn
    <3>2. table' = [table EXCEPT ![calls[a].id].cron = calls[a].cron]
      BY <1>6, <2>1, <3>1 DEF UpdateWrite, UpdateRow, Stored
    <3>3. table[runs[a].id] \in Row
      BY <1>5, <1>6, StoredRow DEF Stored, RunsInv, HandlerTypeOK
    <3>4. table'[runs[a].id].cron = calls[a].cron
      BY <1>5, <3>1, <3>2, <3>3 DEF Row, RunsInv, HandlerTypeOK, TypeOK, CloudTypeOK
    <3> QED BY <1>4, <3>1, <3>4 DEF ContextsAreKept
  <2>2. CASE ~Readable(HandlerIdentity, runs[a].id, "UpdateCron")
    BY <1>6, <1>8, <2>2 DEF ReadersStay
  <2> QED BY <1>1, <1>8, <2>1, <2>2, EndStep
<1> QED BY <1>3, <1>7, <1>8 DEF Active

LEMMA InitSeeding == HandlerInit => SeedingInv
<1> SUFFICES ASSUME HandlerInit
             PROVE  SeedingInv
  OBVIOUS
<1>1. \A a \in Attempts : runs[a].pc = "none"
  BY DEF HandlerInit, NoRun
<1>2. \A s \in Slots : calls[s].pc = "idle"
  BY DEF HandlerInit, Init, Idle
<1> QED
  BY <1>1, <1>2, InitLink
     DEF SeedingInv, ReadersStay, ContextsAreKept, EndedHaveContext, Active

(***************************************************************************)
(* The inductive invariant of seeding: provided clients send no updates    *)
(* and the agent names its conversations.                                  *)
(***************************************************************************)
THEOREM SeedingInvariant ==
    ASSUME NoClientUpdates, ~AgentOmitsContext
    PROVE  SystemSpec => []SeedingInv
<1>1. SeedingInv /\ [SystemNext]_handlerVars => SeedingInv'
  <2> SUFFICES ASSUME SeedingInv, [SystemNext]_handlerVars
               PROVE  SeedingInv'
    OBVIOUS
  <2>1. LinkInv' /\ ReadersStay' /\ ContextsAreKept'
    BY NoUpdatesStable, NextLink, NextReaders, NextKept DEF SeedingInv
  <2>2. EndedHaveContext'
    BY NextHaveContext DEF EndedHaveContext, Stored
  <2> QED BY <2>1, <2>2 DEF SeedingInv
<1> QED BY <1>1, InitSeeding, PTL DEF SystemSpec

(***************************************************************************)
(* As long as nothing has failed, no execution begins by seeding a cron of *)
(* which another one has ended: under the same conditions, and however     *)
(* many executions overlap with them.                                      *)
(***************************************************************************)
THEOREM SeedingComesFirst ==
    ASSUME NoClientUpdates, ~AgentOmitsContext
    PROVE  SystemSpec => SeedsFirst
<1>1. ASSUME SeedingInv, [SystemNext]_handlerVars, NEW a \in Attempts,
             runs[a].pc = "none", runs'[a].pc = "initial", faults = 0,
             NEW b \in Attempts, runs[b].id = posts[a]
      PROVE  runs[b].pc # "done"
  <2>1. RunStep(a) /\ runs[a] = NoRun
    BY <1>1, SystemRunStep DEF SeedingInv, LinkInv, RunsInv, RunsAreWhole
  <2>2. Begins(a)
    BY <1>1, <2>1 DEF RunStep, Frees, Advances, Records, Ends, NoRun
  <2>3. Stored(posts[a]) /\ table[posts[a]].cron.context_id = None
    BY <1>1, <2>2, BeginsStored DEF SeedingInv, LinkInv, NeedsSeed
  <2> QED BY <1>1, <2>3 DEF SeedingInv, EndedHaveContext
<1>2. SeedingInv /\ [SystemNext]_handlerVars =>
        [\A a \in Attempts :
            runs[a].pc = "none" /\ runs'[a].pc = "initial" /\ faults = 0
            => \A b \in Attempts :
                  runs[b].id = posts[a] => runs[b].pc # "done"]_handlerVars
  BY <1>1
<1> QED BY <1>2, SeedingInvariant, PTL DEF SystemSpec, SeedsFirst

-----------------------------------------------------------------------------
(***************************************************************************)
(* The refinement. A step changes the status of crons or has the prompt of *)
(* one delivered, never both.                                              *)
(***************************************************************************)
Prompted(id) == Deliveries(id, "prompt") # {}

\* Only a call to the agent delivers a prompt.
LEMMA PromptStep ==
    ASSUME RunsInv, [SystemNext]_handlerVars
    PROVE  \/ \A id \in Ids : Prompted(id)' <=> Prompted(id)
           \/ \E a \in Attempts :
                 /\ CallAgentPrompt(a) /\ UNCHANGED <<table, calls, issued>>
                 /\ \A id \in Ids \ {runs[a].id} : Prompted(id)' <=> Prompted(id)
<1> DEFINE Alike(a) ==
             /\ "prompt" \in runs'[a].sent <=> "prompt" \in runs[a].sent
             /\ "prompt" \in runs[a].sent => runs'[a].id = runs[a].id
<1>1. runs \in [Attempts -> Run]
  BY DEF RunsInv, HandlerTypeOK
<1>2. ASSUME NEW a \in Attempts, CallAgentPrompt(a)
      PROVE  \E id \in Ids :
                /\ runs[a].id = id /\ UNCHANGED <<table, calls, issued>>
                /\ \A i \in Ids \ {id} : Prompted(i)' <=> Prompted(i)
  <2>1. UNCHANGED <<table, calls, issued>>
    BY <1>2 DEF CallAgentPrompt, Delivered, CallAgentFails, vars, cloudVars, serviceVars
  <2>2. \A b \in Attempts \ {a} : runs'[b] = runs[b]
    BY <1>1, <1>2 DEF CallAgentPrompt, Delivered, CallAgentFails
  <2>3. runs'[a].id = runs[a].id
    <3>1. CASE Delivered(a, "prompt", runs[a].ctx, "persist")
      BY <1>1, <3>1 DEF Delivered, Run
    <3>2. CASE CallAgentFails(a, "prompt")
      BY <1>1, <3>2 DEF CallAgentFails, Finished, NoRun, Run
    <3> QED BY <1>2, <3>1, <3>2 DEF CallAgentPrompt
  <2>4. runs[a].id \in Ids
    BY <1>2 DEF CallAgentPrompt, RunsInv, RunsAreWhole
  <2> QED BY <2>1, <2>2, <2>3, <2>4 DEF Prompted, Deliveries
<1>3. SUFFICES ASSUME \A a \in Attempts : ~CallAgentPrompt(a)
               PROVE  \A a \in Attempts : Alike(a)
  BY <1>2 DEF Prompted, Deliveries
<1>4. ASSUME NEW b \in FreeAttempts, runs' = [runs EXCEPT ![b] = NoRun], NEW a \in Attempts
      PROVE  Alike(a)
  BY <1>1, <1>4 DEF FreeAttempts, NoRun
<1>5. ASSUME NEW b \in Attempts, runs[b].pc # "none", NEW a \in Attempts,
             runs' = [runs EXCEPT ![b] = Finished(runs[b])]
      PROVE  Alike(a)
  BY <1>1, <1>5, FinishedType
<1>6. ASSUME NEW s \in Clients, ClientStart(s) \/ ClientProceed(s) \/ ClientFails(s),
             NEW a \in Attempts
      PROVE  Alike(a)
  BY <1>4, <1>6 DEF ClientStart, ClientProceed, ClientFails
<1>7. ASSUME NEW id \in Ids, CloudStep(id), NEW a \in Attempts
      PROVE  Alike(a)
  BY <1>4, <1>7 DEF CloudStep
<1>8. ASSUME NEW b \in Attempts, Handle(b), NEW a \in Attempts
      PROVE  Alike(a)
  <2>1. CASE HandleStart(b)
    <3>1. runs[b].sent = {}
      BY <2>1 DEF HandleStart, Arrived, RunsInv, RunsAreWhole, NoRun
    <3> QED BY <1>1, <2>1, <3>1 DEF HandleStart
  <2> QED BY <1>8, <2>1 DEF Handle, HandleSkip, HandleError, HandleAnswer
<1>9. ASSUME NEW b \in Attempts, CallAgentInitial(b), NEW a \in Attempts
      PROVE  Alike(a)
  <2>1. CASE Delivered(b, "initial", None, "prompt")
    BY <1>1, <2>1 DEF Delivered, Run
  <2>2. CASE CallAgentFails(b, "initial")
    BY <1>1, <2>2 DEF CallAgentFails, Finished, NoRun, Run
  <2> QED BY <1>9, <2>1, <2>2 DEF CallAgentInitial
<1>10. ASSUME NEW b \in Attempts, PersistRead(b) \/ PersistWrite(b) \/ PersistFails(b),
              NEW a \in Attempts
       PROVE  Alike(a)
  <2>1. CASE PersistRead(b)
    BY <1>1, <2>1 DEF PersistRead, Run
  <2> QED BY <1>5, <1>10, <2>1 DEF PersistWrite, PersistFails
<1>11. ASSUME Crash, NEW a \in Attempts
       PROVE  Alike(a)
  BY <1>1, <1>11, FinishedType DEF Crash, RunsInv, RunsAreWhole, NoRun
<1>12. ASSUME UNCHANGED handlerVars, NEW a \in Attempts
       PROVE  Alike(a)
  BY <1>12 DEF handlerVars
<1> QED
  BY <1>3, <1>6, <1>7, <1>8, <1>9, <1>10, <1>11, <1>12
     DEF SystemNext, HandlerNext, Goroutine

\* What the contract lets a step do to the status of a cron.
Begun(id)    == StatusOf(id) = "unborn" /\ StatusOf(id)' = "live"
Settled(id)  == StatusOf(id) = "live" /\ StatusOf(id)' = "archived" /\ Prompted(id)
Erased(id)   == StatusOf(id) \in {"live", "archived"} /\ StatusOf(id)' = "gone"
Dropped(id)  == StatusOf(id) = "unborn" /\ StatusOf(id)' = "gone"

\* A cron whose row is left alone keeps its status, or its creation fails.
LEMMA StatusKept ==
    ASSUME RunsInv, [SystemNext]_handlerVars, NEW id \in Ids, table'[id] = table[id]
    PROVE  StatusOf(id)' = StatusOf(id) \/ Dropped(id)
<1>1. CASE table[id] # None
  BY <1>1 DEF StatusOf
<1>2. CASE table[id] = None /\ id \in issued /\ \A s \in Slots : ~Creating(s, id)
  BY <1>2, CreatedKept DEF StatusOf, Creating
<1>3. CASE table[id] = None /\ ~(id \in issued /\ \A s \in Slots : ~Creating(s, id))
  BY <1>3 DEF StatusOf, Dropped
<1> QED BY <1>1, <1>2, <1>3

\* The row of a cron changes with its status as the contract has it.
LEMMA StatusChanged ==
    ASSUME ArchivingInv, [SystemNext]_handlerVars, NEW id \in Ids, table'[id] # table[id]
    PROVE  StatusOf(id)' = StatusOf(id) \/ Begun(id) \/ Settled(id) \/ Erased(id)
<1> USE DEF ArchivingInv, LinkInv, RunsInv, HandlerTypeOK
<1>1. PICK s \in Slots :
         /\ calls[s].id = id
         /\ Inserts(s, id) \/ Rewrites(s, id) \/ Erases(s, id)
  BY RowStep
<1>2. CASE Inserts(s, id)
  <2>1. table[id] = None /\ Creating(s, id)
    BY <1>1, <1>2 DEF Inserts, Creating, AuthorityInv, CreatingIsAlone
  <2>2. table'[id] # None /\ table'[id].cron.state = "STATE_ACTIVE"
    BY <1>1, <1>2, InsertedRow DEF Inserts, ArchivingIsFinal
  <2> QED BY <2>1, <2>2 DEF StatusOf, Begun
<1>3. CASE Rewrites(s, id)
  <2>1. /\ table[id] # None /\ table'[id] # None
        /\ table'[id].cron = calls[s].cron /\ calls[s].pc = "write"
    BY <1>1, <1>3, RewrittenRow DEF Rewrites
  <2>2. table[id].cron.state = "STATE_ARCHIVED" => table'[id].cron.state = "STATE_ARCHIVED"
    BY <1>1, <2>1 DEF ArchivingIsFinal, CopiesAgree, Stored
  <2>3. table'[id].cron.state = "STATE_ARCHIVED" => Prompted(id)
    BY <1>1, <2>1 DEF ArchivesAreDelivered, Held, Prompted
  <2> QED BY <2>1, <2>2, <2>3 DEF StatusOf, Settled
<1>4. CASE Erases(s, id)
  <2>1. table[id] # None /\ table'[id] = None
    BY <1>4 DEF Erases
  <2>2. id \in issued' /\ \A r \in Slots : ~(calls'[r].pc = "persist" /\ calls'[r].id = id)
    BY <2>1, StoredIsCreated, CreatedKept
  <2> QED BY <2>1, <2>2 DEF StatusOf, Erased, Creating
<1> QED BY <1>1, <1>2, <1>3, <1>4

\* A step changes one row, and then the status of no other cron.
LEMMA OneRow ==
    ASSUME RunsInv, [SystemNext]_handlerVars, NEW id \in Ids, table'[id] # table[id],
           NEW i \in Ids \ {id}
    PROVE  StatusOf(i)' = StatusOf(i)
<1> USE SlotKinds DEF RunsInv, HandlerTypeOK, TypeOK, CloudTypeOK
<1>1. PICK s \in Slots : CreatePersist(s) \/ UpdateWrite(s) \/ EraseRow(s)
  BY TableWrite
<1>2. /\ calls' = [calls EXCEPT ![s] = Idle] /\ UNCHANGED issued
      /\ \A j \in Ids \ {calls[s].id} : table'[j] = table[j]
  BY <1>1 DEF CreatePersist, UpdateWrite, EraseRow, Insert, UpdateRow, DeleteRow, Return
<1>3. calls[s].id = id
  BY <1>2
<1>4. \A r \in Slots :
         calls'[r].pc = "persist" /\ calls'[r].id = i
         <=> calls[r].pc = "persist" /\ calls[r].id = i
  BY <1>2, <1>3 DEF Idle
<1> QED BY <1>2, <1>3, <1>4 DEF StatusOf, Creating

(***************************************************************************)
(* Refinement: as long as clients send no updates, the deployment          *)
(* implements CronContract, for any number of clients, crons, executions   *)
(* and faults.                                                             *)
(***************************************************************************)
THEOREM DeploymentImplementsContract ==
    ASSUME NoClientUpdates
    PROVE  SystemSpec => ImplementsContract
<1> USE DEF Contract!contractVars, Contract!ContractNext
<1>1. HandlerInit => Contract!ContractInit
  <2>1. ASSUME HandlerInit, NEW id \in Ids
        PROVE  StatusOf(id) = "unborn" /\ ~Prompted(id)
    BY <2>1 DEF HandlerInit, Init, CloudInit, StatusOf, Prompted, Deliveries, NoRun
  <2> QED BY <2>1 DEF Contract!ContractInit, Prompted
<1>2. ASSUME ArchivingInv, [SystemNext]_handlerVars
      PROVE  [Contract!ContractNext]_Contract!contractVars
  <2> USE <1>2 DEF ArchivingInv, LinkInv
  <2>1. ASSUME NEW a \in Attempts, NEW id \in Ids,
               CallAgentPrompt(a), runs[a].id = id, UNCHANGED <<table, calls, issued>>,
               \A i \in Ids \ {id} : Prompted(i)' <=> Prompted(i)
        PROVE  [Contract!ContractNext]_Contract!contractVars
    <3>1. \A i \in Ids : StatusOf(i)' = StatusOf(i)
      BY <2>1 DEF StatusOf, Creating
    <3>2. Prompted(id) => Prompted(id)'
      BY SentKept DEF Prompted, Deliveries
    <3>3. CASE Prompted(id)' <=> Prompted(id)
      BY <2>1, <3>1, <3>3 DEF Prompted
    <3>4. CASE Prompted(id)' /\ ~Prompted(id)
      <4>1. runs[a].pc # "none"
        BY <2>1 DEF CallAgentPrompt
      <4>2. StatusOf(id) # "unborn"
        BY <2>1, <4>1, RunIsCreated DEF RunsAreCreated, StatusOf
      <4>3. Contract!Deliver(id)
        BY <2>1, <3>1, <3>4, <4>2 DEF Contract!Deliver, Prompted
      <4> QED BY <4>3
    <3> QED BY <3>2, <3>3, <3>4
  <2>2. CASE \A id \in Ids : Prompted(id)' <=> Prompted(id)
    <3>1. CASE \A id \in Ids : table'[id] = table[id]
      <4> DEFINE S == {id \in Ids : StatusOf(id)' # StatusOf(id)}
      <4>1. \A id \in Ids : StatusOf(id)' = StatusOf(id) \/ Dropped(id)
        BY <3>1, StatusKept
      <4>2. Contract!Abandon(S)
        BY <2>2, <4>1 DEF Contract!Abandon, Dropped, Prompted
      <4> QED BY <4>2
    <3>2. ASSUME NEW id \in Ids, table'[id] # table[id]
          PROVE  [Contract!ContractNext]_Contract!contractVars
      <4>1. \A i \in Ids \ {id} : StatusOf(i)' = StatusOf(i)
        BY <3>2, OneRow
      <4>2. CASE StatusOf(id)' = StatusOf(id)
        BY <2>2, <4>1, <4>2 DEF Prompted
      <4>3. CASE Begun(id)
        BY <2>2, <4>1, <4>3 DEF Begun, Prompted, Contract!Register, Contract!Move
      <4>4. CASE Settled(id)
        BY <2>2, <4>1, <4>4 DEF Settled, Prompted, Contract!Archive, Contract!Move
      <4>5. CASE Erased(id)
        BY <2>2, <4>1, <4>5 DEF Erased, Prompted, Contract!Remove, Contract!Move
      <4> QED BY <3>2, <4>2, <4>3, <4>4, <4>5, StatusChanged
    <3> QED BY <3>1, <3>2
  <2> QED BY <2>1, <2>2, PromptStep
<1> QED
  BY <1>1, <1>2, ArchivingInvariant, PTL
     DEF SystemSpec, ImplementsContract, Contract!ContractSpec
=============================================================================

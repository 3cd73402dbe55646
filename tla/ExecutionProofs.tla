---------------------------- MODULE ExecutionProofs ----------------------------
(***************************************************************************)
(* Proofs about what executions do to the table, for all clients, ids,     *)
(* executions, requests and faults: which crons get archived, and which    *)
(* conversations crons resume.                                             *)
(***************************************************************************)
EXTENDS SystemProofs

-----------------------------------------------------------------------------
(* Where the values of the next state come from. *)

\* Slot s has read a row and holds it, merged with a request.
Merges(s) ==
    \E id \in Ids, u \in Requests(s) :
        /\ table[id] # None
        /\ UNCHANGED table
        /\ calls'[s].pc = "write"
        /\ calls'[s].id = id
        /\ calls'[s].cron = ApplyMask(table[id].cron, u.cron, u.mask)
        /\ calls'[s].mask = u.mask
        /\ s \in Attempts => runs[s].pc = "persist" /\ runs[s].id = id

\* Slot s holds a new cron, under a fresh id.
Draws(s) ==
    /\ calls'[s].pc = "persist"
    /\ \E caller \in Identities, req \in Creates :
          calls'[s].cron = NewCron(req, caller)

LEMMA WriteStep ==
    ASSUME RunsInv, [SystemNext]_handlerVars, NEW s \in Slots, calls'[s].pc = "write"
    PROVE  calls'[s] = calls[s] \/ Merges(s)
<1> USE SlotKinds DEF RunsInv, HandlerTypeOK
<1>1. calls \in [Slots -> Call] /\ TypeOK
  BY DEF TypeOK, Call
<1>2. ASSUME NEW r \in Clients, StartsCreate(r) \/ StartsRead(r) \/ CreatePersist(r)
      PROVE  calls'[s] = calls[s]
  BY <1>1, <1>2 DEF StartsCreate, CreateSchedule, StartsRead, DeleteRead, RunRead,
     CreatePersist, Enter, Return, Idle
<1>3. ASSUME NEW r \in Slots, StartsUpdate(r)
      PROVE  calls'[s] = calls[s] \/ Merges(s)
  <2>1. PICK caller \in Identities, id \in Ids, u \in Requests(r) :
           /\ UpdateRead(r, caller, id, u.cron, u.mask)
           /\ r \in Attempts => PersistRead(r) /\ id = runs[r].id
    BY <1>3 DEF StartsUpdate
  <2>2. CASE r # s
    BY <1>1, <2>1, <2>2 DEF UpdateRead, Enter
  <2>3. CASE r = s
    <3>1. /\ table[id] # None /\ UNCHANGED table
          /\ calls'[s].pc = "write" /\ calls'[s].id = id
          /\ calls'[s].cron = ApplyMask(table[id].cron, u.cron, u.mask)
          /\ calls'[s].mask = u.mask
      BY <1>1, <2>1, <2>3 DEF UpdateRead, Readable, Enter, cloudVars
    <3>2. s \in Attempts => runs[s].pc = "persist" /\ runs[s].id = id
      BY <2>1, <2>3 DEF PersistRead
    <3> QED BY <2>3, <3>1, <3>2 DEF Merges
  <2> QED BY <2>2, <2>3
<1>4. ASSUME CallsLess
      PROVE  calls'[s] = calls[s]
  <2>1. CASE /\ calls[s].pc = "unschedule"
             /\ calls'[s] = [calls[s] EXCEPT !.pc = "erase"]
    BY <2>1, BusyCall DEF InFlight
  <2> QED BY <1>4, <2>1 DEF CallsLess
<1>5. ASSUME NEW r \in Slots, Later(r)
      PROVE  calls'[s] = calls[s]
  BY <1>1, <1>4, <1>5, LaterSteps DEF Later
<1> QED
  BY <1>1, <1>2, <1>3, <1>4, <1>5, OutsideKeeps, SystemServiceStep DEF ServiceStep

\* What a slot is about to store or write back is what it held, or one of these.
LEMMA HeldStep ==
    ASSUME RunsInv, [SystemNext]_handlerVars, NEW s \in Slots,
           calls'[s].pc \in {"persist", "write"}
    PROVE  calls'[s] = calls[s] \/ Merges(s) \/ Draws(s)
BY CreatingStep, WriteStep DEF Draws

\* The message an execution has sent stays sent, on behalf of the same cron.
LEMMA SentKept ==
    ASSUME RunsInv, [SystemNext]_handlerVars, NEW a \in Attempts, NEW m \in runs[a].sent
    PROVE  m \in runs'[a].sent /\ runs'[a].id = runs[a].id
BY SystemRunStep, RunKept

\* The execution that is under way after a step was so before, or begins.
LEMMA ActiveStep ==
    ASSUME RunsInv, [SystemNext]_handlerVars, NEW a \in Attempts,
           runs'[a].pc \notin {"none", "done"}
    PROVE  \/ Begins(a)
           \/ /\ Active(a)
              /\ runs'[a].id = runs[a].id /\ runs'[a].cron = runs[a].cron
              /\ \/ Advances(a)
                 \/ /\ runs'[a].ctx = runs[a].ctx
                    /\ runs'[a].pc \in {runs[a].pc, "persisting"}
<1>1. runs[a] \in Run /\ RunStep(a)
  BY SystemRunStep DEF RunsInv, HandlerTypeOK
<1>2. CASE runs'[a] = runs[a]
  BY <1>2 DEF Active
<1>3. CASE Frees(a)
  BY <1>3 DEF Frees, NoRun
<1>4. CASE Advances(a)
  BY <1>1, <1>4 DEF Advances, Sends, Active, Run
<1>5. CASE Records(a)
  BY <1>1, <1>5 DEF Records, Active, Run
<1>6. CASE Ends(a)
  <2>1. PICK sent \in SUBSET Messages :
           runs'[a] = Finished([runs[a] EXCEPT !.sent = sent])
    BY <1>6 DEF Ends
  <2>2. [runs[a] EXCEPT !.sent = sent] \in Run
    BY <1>1 DEF Run
  <2> QED BY <2>1, <2>2, FinishedType
<1> QED BY <1>1, <1>2, <1>3, <1>4, <1>5, <1>6 DEF RunStep

\* The cron that begins to execute is stored, and the table is left alone.
LEMMA BeginsStored ==
    ASSUME RunsInv, NEW a \in Attempts, Begins(a)
    PROVE  /\ posts[a] \in Ids /\ Stored(posts[a])
           /\ UNCHANGED table
           /\ runs'[a].id = posts[a]
           /\ runs'[a].cron = table[posts[a]].cron
           /\ runs'[a].ctx = table[posts[a]].cron.context_id
           /\ runs'[a].pc = IF NeedsSeed(table[posts[a]].cron) THEN "initial" ELSE "prompt"
           /\ runs'[a].sent = {}
BY DEF Begins, HandleStart, Arrived, CanGet, Readable, RunsInv, HandlerTypeOK, TypeOK,
   CloudTypeOK, Stored, vars, cloudVars

-----------------------------------------------------------------------------
(***************************************************************************)
(* An archived cron was delivered: only executions archive, after their    *)
(* prompt was sent.                                                        *)
(***************************************************************************)
LEMMA NextArchives ==
    ASSUME ArchivingIsInternal, RunsInv, ArchivesAreDelivered, [SystemNext]_handlerVars
    PROVE  ArchivesAreDelivered'
<1>1. ASSUME NEW id, Deliveries(id, "prompt") # {}
      PROVE  \E a \in Attempts : runs'[a].id = id /\ "prompt" \in runs'[a].sent
  BY <1>1, SentKept DEF Deliveries
<1>2. ASSUME NEW id \in Ids, table'[id] # None,
             table'[id].cron.state = "STATE_ARCHIVED"
      PROVE  Deliveries(id, "prompt") # {}
  <2>1. CASE table'[id] = table[id]
    BY <1>2, <2>1 DEF ArchivesAreDelivered, Stored
  <2>2. CASE table'[id] # table[id]
    <3>1. PICK s \in Slots :
             /\ calls[s].id = id
             /\ Inserts(s, id) \/ Rewrites(s, id) \/ Erases(s, id)
      BY <2>2, RowStep
    <3>2. Held(s) /\ table'[id].cron = calls[s].cron
      BY <1>2, <3>1, InsertedRow, RewrittenRow
         DEF Inserts, Rewrites, Erases, Held, RunsInv, HandlerTypeOK
    <3> QED BY <1>2, <3>1, <3>2 DEF ArchivesAreDelivered
  <2> QED BY <2>1, <2>2
<1>3. ASSUME NEW s \in Slots, calls'[s].pc \in {"persist", "write"},
             calls'[s].cron.state = "STATE_ARCHIVED"
      PROVE  Deliveries(calls'[s].id, "prompt") # {}
  <2>1. CASE calls'[s] = calls[s]
    BY <1>3, <2>1 DEF ArchivesAreDelivered, Held
  <2>2. CASE Draws(s)
    BY <1>3, <2>2, RequestsAssumption DEF Draws, NewCron, Cron
  <2>3. CASE Merges(s)
    <3>1. PICK id \in Ids, u \in Requests(s) :
             /\ table[id] # None
             /\ calls'[s].id = id
             /\ calls'[s].cron = ApplyMask(table[id].cron, u.cron, u.mask)
             /\ s \in Attempts => runs[s].pc = "persist" /\ runs[s].id = id
      BY <2>3 DEF Merges
    <3>2. CASE "state" \notin u.mask
      <4>1. table[id].cron.state = "STATE_ARCHIVED"
        BY <1>3, <3>1, <3>2 DEF ApplyMask, Masked
      <4> QED BY <3>1, <4>1 DEF ArchivesAreDelivered, Stored
    <3>3. CASE "state" \in u.mask
      <4>1. u.cron.state = "STATE_ARCHIVED"
        BY <1>3, <3>1, <3>3 DEF ApplyMask, Masked
      <4>2. s \in Attempts
        BY <3>3, <4>1, SlotKinds DEF Requests, ArchivingIsInternal
      <4>3. s \in Deliveries(id, "prompt")
        BY <3>1, <4>2 DEF RunsInv, RunsAreWhole, Deliveries
      <4> QED BY <3>1, <4>3
    <3> QED BY <3>2, <3>3
  <2> QED BY <1>3, <2>1, <2>2, <2>3, HeldStep
<1> QED
  BY <1>1, <1>2, <1>3 DEF ArchivesAreDelivered, Stored, Held, Deliveries

LEMMA InitArchives == HandlerInit => ArchivesAreDelivered
BY DEF HandlerInit, Init, CloudInit, Idle, ArchivesAreDelivered, Stored, Held

(***************************************************************************)
(* A one-shot cron is archived only after its prompt reached the agent,    *)
(* whatever failed, crashed or raced in between: provided no update        *)
(* request of a client archives a cron.                                    *)
(***************************************************************************)
THEOREM ArchivedMeansDelivered ==
    ASSUME ArchivingIsInternal
    PROVE  SystemSpec => []ArchivedWasDelivered
<1>1. SystemSpec => []ArchivesAreDelivered
  BY InitArchives, NextArchives, RunsInvariant, PTL DEF SystemSpec
<1>2. ArchivesAreDelivered => ArchivedWasDelivered
  BY DEF ArchivesAreDelivered, ArchivedWasDelivered, IsOneShot, Stored
<1> QED BY <1>1, <1>2, PTL

-----------------------------------------------------------------------------
(***************************************************************************)
(* The contexts of a cron's copies are of conversations it opened.         *)
(***************************************************************************)

\* A conversation named by a client was not opened by an execution.
LEMMA UnforgedIsOwn ==
    ASSUME NEW context, context \notin Attempts \X Messages
    PROVE  /\ \A id : OwnContext(context, id)
           /\ ~PromptOpened(context)
BY DEF OwnContext, PromptOpened, Messages

\* The context a request writes, and on whose word.
LEMMA MergedContext ==
    ASSUME ContextsUnforged, RunsInv, NEW s \in Slots, NEW u \in Requests(s),
           NEW cron \in Cron,
           ApplyMask(cron, u.cron, u.mask).context_id # cron.context_id,
           ApplyMask(cron, u.cron, u.mask).context_id \in Attempts \X Messages
    PROVE  s \in Attempts /\ ApplyMask(cron, u.cron, u.mask).context_id = runs[s].ctx
<1>1. "context_id" \in u.mask /\ ApplyMask(cron, u.cron, u.mask).context_id = u.cron.context_id
  BY DEF ApplyMask, Masked
<1>2. s \notin Clients
  BY <1>1 DEF Requests, ContextsUnforged
<1>3. s \in Attempts /\ u.cron = PersistCron(runs[s])
  BY <1>2, SlotKinds DEF Requests
<1> QED BY <1>1, <1>3 DEF PersistCron, ZeroCron

LEMMA SentIsOwn ==
    ASSUME NEW context, NEW id, NEW a \in Attempts, NEW m \in Messages,
           context = <<a, m>>, OwnContext(context, id)
    PROVE  runs[a].id = id /\ m \in runs[a].sent
BY DEF OwnContext, Deliveries

LEMMA NextContexts ==
    ASSUME ContextsUnforged, RunsInv, ContextsAreOwn, [SystemNext]_handlerVars
    PROVE  ContextsAreOwn'
<1> DEFINE Own(context, id) ==
             \A a \in Attempts, m \in Messages :
                context = <<a, m>> => runs'[a].id = id /\ m \in runs'[a].sent
<1>1. ASSUME NEW context, NEW id, OwnContext(context, id)
      PROVE  Own(context, id)
  BY <1>1, SentIsOwn, SentKept
<1>2. ASSUME NEW id \in Ids, table'[id] # None
      PROVE  Own(table'[id].cron.context_id, id)
  <2>1. CASE table'[id] = table[id]
    BY <1>1, <1>2, <2>1 DEF ContextsAreOwn, Stored
  <2>2. CASE table'[id] # table[id]
    <3>1. PICK s \in Slots :
             /\ calls[s].id = id
             /\ Inserts(s, id) \/ Rewrites(s, id) \/ Erases(s, id)
      BY <2>2, RowStep
    <3>2. Held(s) /\ table'[id].cron = calls[s].cron
      BY <1>2, <3>1, InsertedRow, RewrittenRow
         DEF Inserts, Rewrites, Erases, Held, RunsInv, HandlerTypeOK
    <3>3. OwnContext(calls[s].cron.context_id, id)
      BY <3>1, <3>2 DEF ContextsAreOwn
    <3> QED BY <1>1, <3>2, <3>3
  <2> QED BY <2>1, <2>2
<1>3. ASSUME NEW s \in Slots, calls'[s].pc \in {"persist", "write"}
      PROVE  Own(calls'[s].cron.context_id, calls'[s].id)
  <2>1. CASE calls'[s] = calls[s]
    <3>1. OwnContext(calls[s].cron.context_id, calls[s].id)
      BY <1>3, <2>1 DEF ContextsAreOwn, Held
    <3> QED BY <1>1, <2>1, <3>1
  <2>2. CASE Draws(s)
    <3>1. PICK caller \in Identities, req \in Creates :
             calls'[s].cron = NewCron(req, caller)
      BY <2>2 DEF Draws
    <3>2. calls'[s].cron.context_id \notin Attempts \X Messages
      BY <3>1, RequestsAssumption DEF NewCron, Cron, ContextsUnforged
    <3> QED BY <3>2
  <2>3. CASE Merges(s)
    <3>1. PICK id \in Ids, u \in Requests(s) :
             /\ table[id] # None
             /\ calls'[s].id = id
             /\ calls'[s].cron = ApplyMask(table[id].cron, u.cron, u.mask)
             /\ s \in Attempts => runs[s].pc = "persist" /\ runs[s].id = id
      BY <2>3 DEF Merges
    <3> DEFINE context == calls'[s].cron.context_id
    <3>2. CASE context = table[id].cron.context_id
      <4>1. OwnContext(table[id].cron.context_id, id)
        BY <3>1 DEF ContextsAreOwn, Stored
      <4> QED BY <1>1, <3>1, <3>2, <4>1
    <3>3. CASE context \notin Attempts \X Messages
      BY <3>3
    <3>4. CASE context # table[id].cron.context_id /\ context \in Attempts \X Messages
      <4>1. table[id].cron \in Cron
        BY <3>1, StoredRow DEF RunsInv, HandlerTypeOK
      <4>2. s \in Attempts /\ context = runs[s].ctx
        BY <3>1, <3>4, <4>1, MergedContext
      <4>3. OwnContext(runs[s].ctx, id)
        BY <3>1, <4>2 DEF ContextsAreOwn, Active
      <4> QED BY <1>1, <3>1, <4>2, <4>3
    <3> QED BY <3>2, <3>3, <3>4
  <2> QED BY <1>3, <2>1, <2>2, <2>3, HeldStep
<1>4. ASSUME NEW a \in Attempts, runs'[a].pc \notin {"none", "done"}
      PROVE  Own(runs'[a].ctx, runs'[a].id)
  <2>1. CASE Begins(a)
    <3>1. /\ posts[a] \in Ids /\ Stored(posts[a])
          /\ runs'[a].id = posts[a]
          /\ runs'[a].ctx = table[posts[a]].cron.context_id
      BY <2>1, BeginsStored
    <3>2. OwnContext(table[posts[a]].cron.context_id, posts[a])
      BY <3>1 DEF ContextsAreOwn
    <3>3. Own(table[posts[a]].cron.context_id, posts[a])
      BY <1>1, <3>2
    <3> QED BY <3>1, <3>3
  <2>2. CASE Active(a) /\ runs'[a].id = runs[a].id /\ runs'[a].ctx = runs[a].ctx
    <3>1. OwnContext(runs[a].ctx, runs[a].id)
      BY <2>2 DEF ContextsAreOwn
    <3> QED BY <1>1, <2>2, <3>1
  <2>3. ASSUME Active(a), runs'[a].id = runs[a].id, NEW message \in Messages,
               NEW ctx \in {None, runs[a].ctx}, NEW pc, Sends(a, message, ctx, pc)
        PROVE  Own(runs'[a].ctx, runs'[a].id)
    <3>1. runs[a] \in Run
      BY DEF RunsInv, HandlerTypeOK
    <3>2. PICK returned \in Returnable(Conversation(a, message, ctx)) :
             runs'[a] = [runs[a] EXCEPT !.pc = pc,
                                        !.ctx = MergeContextID(@, returned),
                                        !.sent = @ \cup {message}]
      BY <2>3 DEF Sends
    <3>3. runs'[a].ctx = MergeContextID(runs[a].ctx, returned) /\ message \in runs'[a].sent
      BY <3>1, <3>2 DEF Run
    <3>4. runs'[a].ctx \in {runs[a].ctx, <<a, message>>}
      BY <3>3 DEF MergeContextID, Returnable, Conversation
    <3>5. CASE runs'[a].ctx = runs[a].ctx
      BY <2>2, <2>3, <3>5
    <3>6. CASE runs'[a].ctx = <<a, message>>
      <4>1. \A b \in Attempts, m \in Messages :
               runs'[a].ctx = <<b, m>> => b = a /\ m = message
        BY <3>6
      <4> QED BY <2>3, <3>3, <4>1
    <3> QED BY <3>4, <3>5, <3>6
  <2>4. CASE Active(a) /\ runs'[a].id = runs[a].id /\ Advances(a)
    BY <2>3, <2>4 DEF Advances, Messages
  <2> QED BY <1>4, <2>1, <2>2, <2>4, ActiveStep
<1> QED
  BY <1>2, <1>3, <1>4
     DEF ContextsAreOwn, OwnContext, Stored, Held, Active, Deliveries

LEMMA InitContexts == HandlerInit => ContextsAreOwn
<1> SUFFICES ASSUME HandlerInit
             PROVE  ContextsAreOwn
  OBVIOUS
<1>1. \A id \in Ids : ~Stored(id)
  BY DEF HandlerInit, Init, CloudInit, Stored
<1>2. \A s \in Slots : ~Held(s)
  BY DEF HandlerInit, Init, Idle, Held
<1>3. \A a \in Attempts : ~Active(a)
  BY DEF HandlerInit, NoRun, Active
<1> QED BY <1>1, <1>2, <1>3 DEF ContextsAreOwn

LEMMA ContextsInvariant ==
    ASSUME ContextsUnforged
    PROVE  SystemSpec => []ContextsAreOwn
BY InitContexts, NextContexts, RunsInvariant, PTL DEF SystemSpec

(***************************************************************************)
(* The context a cron resumes is a conversation one of its own executions  *)
(* opened, with a message the agent has received: provided no client names *)
(* a conversation that an execution opens.                                 *)
(***************************************************************************)
THEOREM CronsResumeTheirOwn ==
    ASSUME ContextsUnforged
    PROVE  SystemSpec => []ContextIsOwn
<1>1. ContextsAreOwn => ContextIsOwn
  BY DEF ContextsAreOwn, ContextIsOwn, OwnContext, Stored
<1> QED BY <1>1, ContextsInvariant, PTL

-----------------------------------------------------------------------------
(***************************************************************************)
(* The copies of a cron keep the type and the initial prompt of its row:   *)
(* the only writes are of such copies.                                     *)
(***************************************************************************)
SameSeed(cron, other) ==
    cron.type = other.type /\ cron.initial_prompt = other.initial_prompt

LEMMA StableTypesToo == SeedsStable => TypesStable
BY DEF SeedsStable, TypesStable

LEMMA MergedSeed ==
    ASSUME SeedsStable, RunsInv, NEW s \in Slots, NEW u \in Requests(s), NEW cron
    PROVE  SameSeed(ApplyMask(cron, u.cron, u.mask), cron)
<1>1. u.mask \cap {"type", "initial_prompt"} = {}
  <2>1. CASE s \in Clients
    BY <2>1 DEF Requests, SeedsStable
  <2>2. CASE s \notin Clients
    BY <2>2, SlotKinds DEF Requests, PersistMask
  <2> QED BY <2>1, <2>2
<1> QED BY <1>1 DEF ApplyMask, Masked, SameSeed

\* The row of a cron past its creation keeps them.
LEMMA RowKeepsSeed ==
    ASSUME RunsInv, CopiesAgree, [SystemNext]_handlerVars, NEW id \in Ids,
           table'[id] # None, \A s \in Slots : ~Creating(s, id)
    PROVE  Stored(id) /\ SameSeed(table'[id].cron, table[id].cron)
<1>1. CASE table'[id] = table[id]
  BY <1>1 DEF Stored, SameSeed
<1>2. CASE table'[id] # table[id]
  <2>1. PICK s \in Slots :
           /\ calls[s].id = id
           /\ Inserts(s, id) \/ Rewrites(s, id) \/ Erases(s, id)
    BY <1>2, RowStep
  <2>2. Rewrites(s, id)
    BY <2>1 DEF Inserts, Erases, Creating
  <2>3. Stored(id) /\ SameSeed(calls[s].cron, table[id].cron)
    BY <2>1, <2>2 DEF Rewrites, CopiesAgree, Stored, SameSeed
  <2> QED BY <2>1, <2>2, <2>3, RewrittenRow DEF RunsInv, HandlerTypeOK
<1> QED BY <1>1, <1>2

LEMMA NextCopies ==
    ASSUME SeedsStable, LinkInv, CopiesAgree, [SystemNext]_handlerVars
    PROVE  CopiesAgree'
<1> USE DEF LinkInv
<1>1. ASSUME NEW s \in Slots, calls'[s].pc = "write", table'[calls'[s].id] # None
      PROVE  SameSeed(calls'[s].cron, table'[calls'[s].id].cron)
  <2>1. CASE calls'[s] = calls[s]
    <3>1. calls[s].pc = "write" /\ calls[s].id \in Ids
      BY <1>1, <2>1, BusyCall DEF RunsInv, HandlerTypeOK, InFlight
    <3>2. \A r \in Slots : ~Creating(r, calls[s].id)
      BY <3>1 DEF AuthorityInv, CreatingIsAlone, Creating
    <3>3. Stored(calls[s].id) /\ SameSeed(table'[calls[s].id].cron, table[calls[s].id].cron)
      BY <1>1, <2>1, <3>1, <3>2, RowKeepsSeed
    <3> QED BY <2>1, <3>1, <3>3 DEF CopiesAgree, SameSeed
  <2>2. CASE Merges(s)
    <3>1. PICK id \in Ids, u \in Requests(s) :
             /\ UNCHANGED table
             /\ calls'[s].id = id
             /\ calls'[s].cron = ApplyMask(table[id].cron, u.cron, u.mask)
      BY <2>2 DEF Merges
    <3> QED BY <3>1, MergedSeed DEF SameSeed
  <2> QED BY <1>1, <2>1, <2>2, WriteStep
<1>2. ASSUME NEW a \in Attempts, runs'[a].pc \notin {"none", "done"},
             table'[runs'[a].id] # None
      PROVE  SameSeed(runs'[a].cron, table'[runs'[a].id].cron)
  <2>1. CASE Begins(a)
    BY <2>1, BeginsStored DEF SameSeed
  <2>2. CASE Active(a) /\ runs'[a].id = runs[a].id /\ runs'[a].cron = runs[a].cron
    <3>1. runs[a].id \in Ids /\ \A r \in Slots : ~Creating(r, runs[a].id)
      BY <2>2 DEF Active, RunsInv, RunsAreWhole, RunsAreCreated
    <3>2. Stored(runs[a].id) /\ SameSeed(table'[runs[a].id].cron, table[runs[a].id].cron)
      BY <1>2, <2>2, <3>1, RowKeepsSeed
    <3> QED BY <2>2, <3>2 DEF CopiesAgree, SameSeed
  <2> QED BY <1>2, <2>1, <2>2, ActiveStep
<1> QED BY <1>1, <1>2 DEF CopiesAgree, SameSeed, Stored, Active

-----------------------------------------------------------------------------
(***************************************************************************)
(* No copy that needs seeding has a context its prompt opened: if the      *)
(* agent names its conversations, the initial prompt opens one first.      *)
(***************************************************************************)
LEMMA SeededAlike ==
    ASSUME NEW cron, NEW other, NEW context, SameSeed(cron, other), Seeded(other, context)
    PROVE  Seeded(cron, context)
BY DEF SameSeed, Seeded

LEMMA AdvancesSeeded ==
    ASSUME ~AgentOmitsContext, RunsInv, CopiesAreSeeded, NEW a \in Attempts,
           Active(a), Advances(a)
    PROVE  /\ Seeded(runs[a].cron, runs'[a].ctx)
           /\ /\ runs'[a].pc = "prompt"
              /\ runs[a].cron.type = "TYPE_CRON"
              /\ runs[a].cron.initial_prompt # None
              => runs'[a].ctx # None
<1>1. runs[a] \in Run /\ Seeded(runs[a].cron, runs[a].ctx)
  BY DEF RunsInv, HandlerTypeOK, CopiesAreSeeded
<1>2. ASSUME NEW message \in Messages, NEW ctx, NEW pc, Sends(a, message, ctx, pc)
      PROVE  /\ runs'[a].pc = pc
             /\ runs'[a].ctx = MergeContextID(runs[a].ctx, Conversation(a, message, ctx))
  <2>1. PICK returned \in Returnable(Conversation(a, message, ctx)) :
           runs'[a] = [runs[a] EXCEPT !.pc = pc,
                                      !.ctx = MergeContextID(@, returned),
                                      !.sent = @ \cup {message}]
    BY <1>2 DEF Sends
  <2>2. returned = Conversation(a, message, ctx)
    BY HandlerAssumption DEF Returnable
  <2> QED BY <1>1, <2>1, <2>2 DEF Run
<1>3. \A message \in Messages : <<a, message>> # None
  BY HandlerAssumption, NoneIsUnset
<1>4. CASE runs[a].pc = "initial" /\ Sends(a, "initial", None, "prompt")
  <2>1. runs'[a].ctx = <<a, "initial">> /\ runs'[a].ctx # None
    BY <1>2, <1>3, <1>4 DEF Messages, Conversation, MergeContextID
  <2> QED BY <2>1 DEF Seeded, PromptOpened
<1>5. CASE runs[a].pc = "prompt" /\ Sends(a, "prompt", runs[a].ctx, "persist")
  <2>1. /\ runs'[a].pc = "persist"
        /\ runs'[a].ctx = IF runs[a].ctx = None THEN <<a, "prompt">> ELSE runs[a].ctx
    BY <1>2, <1>3, <1>5 DEF Messages, Conversation, MergeContextID
  <2>2. CASE runs[a].ctx = None
    BY <1>5, <2>1, <2>2 DEF CopiesAreSeeded, Seeded
  <2> QED BY <1>1, <2>1, <2>2
<1> QED BY <1>4, <1>5 DEF Advances

LEMMA NextSeeded ==
    ASSUME SeedsStable, ContextsUnforged, ~AgentOmitsContext, LinkInv, CopiesAgree,
           CopiesAreSeeded, [SystemNext]_handlerVars
    PROVE  CopiesAreSeeded'
<1> USE DEF LinkInv
<1>1. ASSUME NEW id \in Ids, table'[id] # None
      PROVE  Seeded(table'[id].cron, table'[id].cron.context_id)
  <2>1. CASE table'[id] = table[id]
    BY <1>1, <2>1 DEF CopiesAreSeeded, Stored
  <2>2. CASE table'[id] # table[id]
    <3>1. PICK s \in Slots :
             /\ calls[s].id = id
             /\ Inserts(s, id) \/ Rewrites(s, id) \/ Erases(s, id)
      BY <2>2, RowStep
    <3>2. Held(s) /\ table'[id].cron = calls[s].cron
      BY <1>1, <3>1, InsertedRow, RewrittenRow
         DEF Inserts, Rewrites, Erases, Held, RunsInv, HandlerTypeOK
    <3> QED BY <3>2 DEF CopiesAreSeeded
  <2> QED BY <2>1, <2>2
<1>2. ASSUME NEW s \in Slots, calls'[s].pc \in {"persist", "write"}
      PROVE  Seeded(calls'[s].cron, calls'[s].cron.context_id)
  <2>1. CASE calls'[s] = calls[s]
    BY <1>2, <2>1 DEF CopiesAreSeeded, Held
  <2>2. CASE Draws(s)
    <3>1. PICK caller \in Identities, req \in Creates :
             calls'[s].cron = NewCron(req, caller)
      BY <2>2 DEF Draws
    <3>2. calls'[s].cron.context_id \notin Attempts \X Messages
      BY <3>1, RequestsAssumption DEF NewCron, Cron, ContextsUnforged
    <3> QED BY <3>2, UnforgedIsOwn DEF Seeded
  <2>3. CASE Merges(s)
    <3>1. PICK id \in Ids, u \in Requests(s) :
             /\ table[id] # None
             /\ calls'[s].cron = ApplyMask(table[id].cron, u.cron, u.mask)
             /\ s \in Attempts => runs[s].pc = "persist" /\ runs[s].id = id
      BY <2>3 DEF Merges
    <3> DEFINE context == calls'[s].cron.context_id
    <3>2. SameSeed(calls'[s].cron, table[id].cron)
      BY <3>1, MergedSeed
    <3>3. CASE context = table[id].cron.context_id
      <4>1. Seeded(table[id].cron, context)
        BY <3>1, <3>3 DEF CopiesAreSeeded, Stored
      <4> QED BY <3>2, <4>1, SeededAlike
    <3>4. CASE context \notin Attempts \X Messages
      BY <3>4, UnforgedIsOwn DEF Seeded
    <3>5. CASE context # table[id].cron.context_id /\ context \in Attempts \X Messages
      <4>1. table[id].cron \in Cron
        BY <3>1, StoredRow DEF RunsInv, HandlerTypeOK
      <4>2. s \in Attempts /\ context = runs[s].ctx
        BY <3>1, <3>5, <4>1, MergedContext
      <4>3. Active(s) /\ Stored(runs[s].id) /\ Seeded(runs[s].cron, context)
        BY <3>1, <4>2 DEF Active, Stored, CopiesAreSeeded
      <4>4. SameSeed(runs[s].cron, table[id].cron)
        BY <3>1, <4>2, <4>3 DEF CopiesAgree, SameSeed
      <4> QED BY <3>2, <4>3, <4>4 DEF SameSeed, Seeded
    <3> QED BY <3>3, <3>4, <3>5
  <2> QED BY <1>2, <2>1, <2>2, <2>3, HeldStep
<1>3. ASSUME NEW a \in Attempts, runs'[a].pc \notin {"none", "done"}
      PROVE  /\ Seeded(runs'[a].cron, runs'[a].ctx)
             /\ /\ runs'[a].pc = "prompt"
                /\ runs'[a].cron.type = "TYPE_CRON"
                /\ runs'[a].cron.initial_prompt # None
                => runs'[a].ctx # None
  <2>1. CASE Begins(a)
    <3>1. /\ posts[a] \in Ids /\ Stored(posts[a])
          /\ runs'[a].cron = table[posts[a]].cron
          /\ runs'[a].ctx = table[posts[a]].cron.context_id
          /\ runs'[a].pc = IF NeedsSeed(table[posts[a]].cron) THEN "initial" ELSE "prompt"
      BY <2>1, BeginsStored
    <3>2. Seeded(table[posts[a]].cron, table[posts[a]].cron.context_id)
      BY <3>1 DEF CopiesAreSeeded
    <3> QED BY <3>1, <3>2 DEF NeedsSeed
  <2>2. CASE Active(a) /\ runs'[a].cron = runs[a].cron /\ Advances(a)
    BY <2>2, AdvancesSeeded
  <2>3. CASE /\ Active(a) /\ runs'[a].cron = runs[a].cron /\ runs'[a].ctx = runs[a].ctx
             /\ runs'[a].pc \in {runs[a].pc, "persisting"}
    BY <2>3 DEF CopiesAreSeeded
  <2> QED BY <1>3, <2>1, <2>2, <2>3, ActiveStep
<1> QED BY <1>1, <1>2, <1>3 DEF CopiesAreSeeded, Stored, Held, Active, Seeded, PromptOpened

LEMMA InitCopies == HandlerInit => CopiesAgree /\ CopiesAreSeeded
<1> SUFFICES ASSUME HandlerInit
             PROVE  CopiesAgree /\ CopiesAreSeeded
  OBVIOUS
<1>1. \A id \in Ids : ~Stored(id)
  BY DEF HandlerInit, Init, CloudInit, Stored
<1>2. \A s \in Slots : ~Held(s) /\ calls[s].pc # "write"
  BY DEF HandlerInit, Init, Idle, Held
<1>3. \A a \in Attempts : ~Active(a)
  BY DEF HandlerInit, NoRun, Active
<1> QED BY <1>1, <1>2, <1>3 DEF CopiesAgree, CopiesAreSeeded

(***************************************************************************)
(* What executions do to the table, in every state: provided clients       *)
(* neither archive crons nor change what seeding depends on nor name the   *)
(* conversations of executions, and the agent names its conversations.     *)
(***************************************************************************)
THEOREM ExecutionInvariant ==
    ASSUME ArchivingIsInternal, ContextsUnforged, SeedsStable, ~AgentOmitsContext
    PROVE  SystemSpec => []ExecutionInv
<1>1. HandlerInit => ExecutionInv
  BY InitLink, InitArchives, InitContexts, InitCopies DEF ExecutionInv
<1>2. ExecutionInv /\ [SystemNext]_handlerVars => ExecutionInv'
  BY StableTypesToo, NextLink, NextArchives, NextContexts, NextCopies, NextSeeded
     DEF ExecutionInv, LinkInv
<1> QED BY <1>1, <1>2, PTL DEF SystemSpec

(***************************************************************************)
(* The conversation a recurring cron resumes was opened by its initial     *)
(* prompt, if it has one, also when executions overlap and their writes    *)
(* land in any order.                                                      *)
(***************************************************************************)
THEOREM ConversationsAreSeeded ==
    ASSUME ContextsUnforged, SeedsStable, ~AgentOmitsContext
    PROVE  SystemSpec => []ContextIsSeeded
<1>1. SystemSpec => [](CopiesAgree /\ CopiesAreSeeded)
  <2>1. CopiesAgree /\ CopiesAreSeeded /\ LinkInv /\ [SystemNext]_handlerVars
        => CopiesAgree' /\ CopiesAreSeeded'
    BY NextCopies, NextSeeded
  <2>2. SystemSpec => []LinkInv
    BY StableTypesToo, LinkInvariant
  <2> QED BY <2>1, <2>2, InitCopies, PTL DEF SystemSpec
<1>2. CopiesAreSeeded => ContextIsSeeded
  BY DEF CopiesAreSeeded, ContextIsSeeded, Seeded, PromptOpened, IsRecurring, Stored
<1> QED BY <1>1, <1>2, PTL

-----------------------------------------------------------------------------
(* Which updates get lost. *)

\* The merge of UpdateCron changes only what the mask names.
LEMMA MergeRespectsMask ==
    ASSUME NEW cron \in Cron, NEW update \in Cron, NEW mask \in SUBSET Paths
    PROVE  ChangedPaths(cron, ApplyMask(cron, update, mask)) \subseteq mask
<1> SUFFICES ASSUME NEW path \in Paths, path \notin mask
             PROVE  cron[path] = ApplyMask(cron, update, mask)[path]
  BY DEF ChangedPaths
<1> QED BY DEF Paths, Cron, ApplyMask, Masked

LEMMA SystemStale ==
    ASSUME LinkInv, [SystemNext]_handlerVars, NEW s \in Slots,
           UpToDate(s), ~UpToDate(s)'
    PROVE  \E r \in Slots \ {s} :
              /\ calls[r].pc = "write"
              /\ calls[r].id = calls[s].id
              /\ ~ ChangedPaths(table[calls[s].id].cron, calls[r].cron)
                      \subseteq calls[s].mask
<1> USE DEF LinkInv, AuthorityInv, ServiceInv
<1>1. /\ calls'[s].pc = "write"
      /\ table'[calls'[s].id] # None
      /\ ~ ChangedPaths(table'[calls'[s].id].cron, calls'[s].cron) \subseteq calls'[s].mask
  BY DEF UpToDate
<1>2. ~Merges(s)
  <2>1. SUFFICES ASSUME Merges(s) PROVE FALSE
    OBVIOUS
  <2>2. PICK id \in Ids, u \in Requests(s) :
           /\ table[id] # None
           /\ UNCHANGED table
           /\ calls'[s].id = id
           /\ calls'[s].cron = ApplyMask(table[id].cron, u.cron, u.mask)
           /\ calls'[s].mask = u.mask
    BY <2>1 DEF Merges
  <2>3. u.cron \in Cron /\ u.mask \in SUBSET Paths
    BY RequestTypes
  <2>4. table[id].cron \in Cron
    BY <2>2, StoredRow DEF Row
  <2> QED BY <1>1, <2>2, <2>3, <2>4, MergeRespectsMask
<1>3. calls'[s] = calls[s]
  BY <1>1, <1>2, WriteStep
<1> DEFINE id == calls[s].id
<1>4. /\ id \in Ids /\ calls[s].pc = "write" /\ table'[id] # None
      /\ ~ ChangedPaths(table'[id].cron, calls[s].cron) \subseteq calls[s].mask
  BY <1>1, <1>3, BusyCall DEF InFlight
<1>5. table[id] # table'[id]
  BY <1>4 DEF UpToDate
<1>6. PICK r \in Slots :
         /\ calls[r].id = id
         /\ Inserts(r, id) \/ Rewrites(r, id) \/ Erases(r, id)
  BY <1>4, <1>5, RowStep
<1>7. Rewrites(r, id)
  BY <1>4, <1>6 DEF Inserts, Erases, CreatingIsAlone
<1>8. calls[r].pc = "write" /\ table[id] # None /\ table'[id].cron = calls[r].cron
  BY <1>4, <1>6, <1>7, RewrittenRow DEF Rewrites
<1>9. r # s
  BY <1>4, <1>8 DEF ChangedPaths
<1>10. ~ ChangedPaths(table[id].cron, calls[r].cron) \subseteq calls[s].mask
  BY <1>4, <1>8 DEF UpToDate, ChangedPaths
<1> QED BY <1>6, <1>8, <1>9, <1>10

(***************************************************************************)
(* An UpdateCron, a client's or a goroutine's, may restore a field it was  *)
(* not told to touch only if another one wrote that cron between its read  *)
(* and its write, and wrote outside its mask: updates one after another,   *)
(* and updates of the same fields, lose nothing else.                      *)
(***************************************************************************)
THEOREM LostUpdatesOverlap ==
    ASSUME TypesStable
    PROVE  SystemSpec => StaleNeedsOverlap
<1>1. LinkInv /\ [SystemNext]_handlerVars =>
         [\A s \in Slots :
             UpToDate(s) /\ ~UpToDate(s)'
             => \E r \in Slots \ {s} :
                   /\ calls[r].pc = "write"
                   /\ calls[r].id = calls[s].id
                   /\ ~ ChangedPaths(table[calls[s].id].cron, calls[r].cron)
                           \subseteq calls[s].mask]_vars
  BY SystemStale
<1> QED
  BY <1>1, LinkInvariant, PTL DEF SystemSpec, StaleNeedsOverlap
=============================================================================

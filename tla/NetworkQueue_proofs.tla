------------------------ MODULE NetworkQueue_proofs ------------------------
(***************************************************************************)
(* Proofs about the request queue, for any number of slots, any kinds and  *)
(* any bounds that satisfy NetworkQueueAssumption.                          *)
(***************************************************************************)
EXTENDS NetworkQueue, FiniteSetTheorems, TLAPS

-----------------------------------------------------------------------------
(* The inductive invariant, by its parts. *)

\* Ids are given out once: every queued request has one of its own, already
\* given, and so have the ids of the histories.
IdsFresh ==
    /\ \A i \in Slots : Occupied(i) => slots[i].id < nextId
    /\ \A i, j \in Slots : Occupied(i) /\ Occupied(j) /\ slots[i].id = slots[j].id => i = j
    /\ \A id \in sent \cup withdrawn : id < nextId

\* Who owns the mailbox and the active slot, in every phase of a request.
AtCallback == main.at \in {"callback", "handled"}
Phases ==
    /\ InFlight => ~mailbox.ready
    /\ AtCallback => mailbox.ready /\ active = {}
    /\ main.at \in {"callback", "fenced", "ota"} => main.todo = {}
    /\ main.at = "callback" => main.request # Empty
    /\ mailbox.ready /\ ~AtCallback /\ main.at # "restarted" =>
           mailbox.slot \in Slots /\ active = {mailbox.slot} /\ Occupied(mailbox.slot)
    /\ ~InFlight /\ ~mailbox.ready => active = {}
    /\ fence => main.at \in {"fenced", "restarted"}

\* What was dispatched was sent, is still active, and is past the boundary.
Dispatched ==
    /\ \A i \in Slots : Occupied(i) => (slots[i].dispatched <=> slots[i].id \in sent)
    /\ \A i \in Slots : Occupied(i) /\ slots[i].dispatched => i \in active
    /\ worker.at \in {"check", "boundary"} => ~worker.request.dispatched

\* The payload, from the worker's hands to the callback's.
Payload(cancelled, id) == mailbox.payload = (IF cancelled THEN NoReply ELSE id)
Payloads ==
    /\ worker.at \in {"check", "boundary", "sending"} => ~worker.cancelled
    /\ worker.at = "discarded" => worker.cancelled
    /\ worker.at = "written" => Payload(worker.cancelled, worker.request.id)
    /\ mailbox.ready /\ ~AtCallback /\ main.at # "restarted" =>
           Payload(mailbox.cancelled, slots[mailbox.slot].id)

\* Whether the tests at the dispatch boundary stop a request of a slot, when the
\* game, card and completion counters are g, t and c.
Stopped(r, g, t, c) ==
    \/ r.cancelled
    \/ r.generation # 0 /\ r.generation # g
    \/ r.kind = "Tag" /\ r.token # t
    \/ r.kind \in {"Completion", "Verify"} /\ r.token # c

\* A request carries counters of its time, never of the future.
Dated(r, g, t, c) ==
    /\ r.generation <= g
    /\ r.kind \in {"Wire", "Completion"} => r.generation # 0
    /\ r.kind = "Tag" => r.token <= t
    /\ r.kind \in {"Completion", "Verify"} => r.token <= c

\* A withdrawn request will be stopped.  The generation of the wire vote is not
\* looked at again at the boundary: its reset comes after the one of the game.
Withdrawals ==
    /\ \A i \in Slots : Occupied(i) => Dated(slots[i], generation, tagToken, completionToken)
    /\ \A i \in Slots : Occupied(i) /\ ~slots[i].dispatched /\ slots[i].id \in withdrawn
                           => Stopped(slots[i], generation, tagToken, completionToken)
    /\ "resetWire" \in main.todo /\ "invalidate" \notin main.todo =>
           \A i \in Slots : Occupied(i) => slots[i].generation # generation

\* One heartbeat at a time, from its request to its callback.
OneHeartbeat ==
    /\ \A i \in Slots : Occupied(i) /\ slots[i].kind = "Poll" => "Poll" \in pending
    /\ \A i, j \in Slots : (/\ Occupied(i) /\ slots[i].kind = "Poll"
                            /\ Occupied(j) /\ slots[j].kind = "Poll") => i = j
    /\ main.at = "callback" /\ main.request.kind = "Poll" =>
           "Poll" \in pending /\ \A i \in Slots : Occupied(i) => slots[i].kind # "Poll"
    /\ awaitingRefresh =>
           "Poll" \in pending /\ \A i \in Slots : Occupied(i) => slots[i].kind # "Poll"

\* The slot that is kept for the heartbeat.
Others == {i \in Slots : Occupied(i) /\ slots[i].kind # "Poll"}
SlotKept == Cardinality(Others) < NumSlots

\* Every request that overtook the heartbeat counts in the run.
RunCounted == overtaken <= urgentRun

IndInv ==
    /\ TypeOK
    /\ IdsFresh
    /\ SlotHeld
    /\ Phases
    /\ Dispatched
    /\ Payloads
    /\ ReplyBelongs
    /\ DispatchedExact
    /\ QuietFence
    /\ Withdrawals
    /\ WithdrawnNeverSent
    /\ NobodyForgotten
    /\ OneHeartbeat
    /\ SlotKept
    /\ RunCounted
-----------------------------------------------------------------------------
(* Which steps change what. *)

\* The steps that change the queue.
LEMMA QueueSteps ==
    ASSUME [Next]_vars
    PROVE  \/ UNCHANGED <<slots, active>>
           \/ \E online \in BOOLEAN : WorkerSelect(online)
           \/ WorkerDispatch
           \/ \E kind \in Kinds : Submit(kind)
           \/ \E mutation \in BOOLEAN : ReplaceQueued(mutation)
           \/ RequestMaintenance \/ ForgetTag \/ WithdrawResend \/ MainTake \/ PollCallback
           \/ \E cancel \in BOOLEAN : RenewCompletion(cancel) \/ Settle(cancel)
  BY DEF Next, vars, queueVars, tokenVars, flagVars, history, Worker, WorkerProceeds,
         WorkerSelect, WorkerCheck, WorkerDispatch, WorkerStop, WorkerWrite, WorkerPublish,
         WorkerHalt, Submit, ReplaceQueued, NewGame, NewCard, RequestMaintenance, Withdraw,
         Invalidate, ForgetTag, ResetWire, RenewCompletion, Settle, RenewToken, WithdrawResend,
         Deliver, MainTake, PollCallback, RefreshCallback, OtherCallback, MainClear, OtaStart,
         OtaReturn, OtaRestart, MaintenanceAborted, RecoveryFence, RecoveryLifted,
         RecoveryRestart, ServerRestart, WatchdogReset, Restarted, Grow

\* Only the worker moves itself, and it leaves the main task alone.
LEMMA WorkerSteps ==
    ASSUME [Next]_vars
    PROVE  \/ UNCHANGED worker
           \/ (Worker \/ WorkerHalt) /\ UNCHANGED <<main, tokenVars, flagVars>>
  BY DEF Next, vars, queueVars, tokenVars, flagVars, history, Worker, WorkerProceeds,
         WorkerSelect, WorkerCheck, WorkerDispatch, WorkerStop, WorkerWrite, WorkerPublish,
         WorkerHalt, Submit, ReplaceQueued, NewGame, NewCard, RequestMaintenance, Withdraw,
         Invalidate, ForgetTag, ResetWire, RenewCompletion, Settle, RenewToken, WithdrawResend,
         Deliver, MainTake, PollCallback, RefreshCallback, OtherCallback, MainClear, OtaStart,
         OtaReturn, OtaRestart, MaintenanceAborted, RecoveryFence, RecoveryLifted,
         RecoveryRestart, ServerRestart, WatchdogReset, Restarted, Grow

\* Only the worker and the end of a callback touch the mailbox.
LEMMA MailboxSteps ==
    ASSUME [Next]_vars
    PROVE  UNCHANGED mailbox \/ WorkerWrite \/ WorkerPublish \/ MainClear
  BY DEF Next, vars, queueVars, tokenVars, flagVars, history, Worker, WorkerProceeds,
         WorkerSelect, WorkerCheck, WorkerDispatch, WorkerStop, WorkerWrite, WorkerPublish,
         WorkerHalt, Submit, ReplaceQueued, NewGame, NewCard, RequestMaintenance, Withdraw,
         Invalidate, ForgetTag, ResetWire, RenewCompletion, Settle, RenewToken, WithdrawResend,
         Deliver, MainTake, PollCallback, RefreshCallback, OtherCallback, MainClear, OtaStart,
         OtaReturn, OtaRestart, MaintenanceAborted, RecoveryFence, RecoveryLifted,
         RecoveryRestart, ServerRestart, WatchdogReset, Restarted, Grow

\* The steps of the main task that move it.
LEMMA MainSteps ==
    ASSUME [Next]_vars
    PROVE  \/ UNCHANGED main
           \/ (NewGame \/ NewCard \/ RequestMaintenance)
           \/ Invalidate \/ ForgetTag \/ ResetWire
           \/ MainTake \/ PollCallback \/ RefreshCallback \/ OtherCallback \/ MainClear
           \/ OtaStart \/ OtaReturn \/ OtaRestart
           \/ RecoveryFence \/ RecoveryLifted \/ RecoveryRestart
           \/ ServerRestart \/ WatchdogReset
  BY DEF Next, vars, queueVars, tokenVars, flagVars, history, Worker, WorkerProceeds,
         WorkerSelect, WorkerCheck, WorkerDispatch, WorkerStop, WorkerWrite, WorkerPublish,
         WorkerHalt, Submit, ReplaceQueued, Withdraw, RenewCompletion, Settle, RenewToken,
         WithdrawResend, Deliver, MaintenanceAborted, Restarted, Grow

\* The recovery fence is raised and lifted by the main task only.
LEMMA FenceSteps ==
    ASSUME [Next]_vars
    PROVE  UNCHANGED fence \/ RecoveryFence \/ RecoveryLifted
  BY DEF Next, vars, queueVars, tokenVars, flagVars, history, Worker, WorkerProceeds,
         WorkerSelect, WorkerCheck, WorkerDispatch, WorkerStop, WorkerWrite, WorkerPublish,
         WorkerHalt, Submit, ReplaceQueued, NewGame, NewCard, RequestMaintenance, Withdraw,
         Invalidate, ForgetTag, ResetWire, RenewCompletion, Settle, RenewToken, WithdrawResend,
         Deliver, MainTake, PollCallback, RefreshCallback, OtherCallback, MainClear, OtaStart,
         OtaReturn, OtaRestart, MaintenanceAborted, RecoveryRestart, ServerRestart,
         WatchdogReset, Restarted, Grow

\* The steps that renew a generation or a token.
LEMMA TokenSteps ==
    ASSUME [Next]_vars
    PROVE  \/ UNCHANGED tokenVars
           \/ Invalidate \/ ForgetTag \/ ResetWire
           \/ \E cancel \in BOOLEAN : RenewCompletion(cancel) \/ Settle(cancel)
  BY DEF Next, vars, queueVars, tokenVars, flagVars, history, Worker, WorkerProceeds,
         WorkerSelect, WorkerCheck, WorkerDispatch, WorkerStop, WorkerWrite, WorkerPublish,
         WorkerHalt, Submit, ReplaceQueued, NewGame, NewCard, RequestMaintenance, Withdraw,
         Invalidate, ForgetTag, ResetWire, RenewCompletion, Settle, RenewToken, WithdrawResend,
         Deliver, MainTake, PollCallback, RefreshCallback, OtherCallback, MainClear, OtaStart,
         OtaReturn, OtaRestart, MaintenanceAborted, RecoveryFence, RecoveryLifted,
         RecoveryRestart, ServerRestart, WatchdogReset, Restarted, Grow

\* Only a dispatch sends.
LEMMA SentSteps ==
    ASSUME [Next]_vars
    PROVE  UNCHANGED sent \/ WorkerDispatch
  BY DEF Enqueue, Next, vars, queueVars, tokenVars, flagVars, history, Worker,
         WorkerProceeds, WorkerSelect, WorkerCheck, WorkerStop, WorkerWrite,
         WorkerPublish, WorkerHalt, Submit, ReplaceQueued, NewGame, NewCard,
         RequestMaintenance, Withdraw, Invalidate, ForgetTag, ResetWire,
         RenewCompletion, Settle, RenewToken, WithdrawResend, Deliver, MainTake, PollCallback,
         RefreshCallback, OtherCallback, MainClear, OtaStart, OtaReturn, OtaRestart,
         MaintenanceAborted, RecoveryFence, RecoveryLifted, RecoveryRestart,
         ServerRestart, WatchdogReset, Restarted, Grow

\* The steps that withdraw a request or take a withdrawal back.
LEMMA WithdrawalSteps ==
    ASSUME [Next]_vars
    PROVE  \/ UNCHANGED withdrawn
           \/ \E mutation \in BOOLEAN : ReplaceQueued(mutation)
           \/ RequestMaintenance \/ WithdrawResend \/ Invalidate \/ ForgetTag \/ ResetWire
           \/ \E cancel \in BOOLEAN : RenewCompletion(cancel) \/ Settle(cancel)
  BY DEF Enqueue, Next, vars, queueVars, tokenVars, flagVars, history, Worker, WorkerProceeds,
         WorkerSelect, WorkerCheck, WorkerDispatch, WorkerStop, WorkerWrite, WorkerPublish,
         WorkerHalt, Submit, ReplaceQueued, NewGame, NewCard, RequestMaintenance, Withdraw,
         Invalidate, ForgetTag, ResetWire, RenewCompletion, Settle, RenewToken, WithdrawResend,
         Deliver, MainTake, PollCallback, RefreshCallback, OtherCallback, MainClear, OtaStart,
         OtaReturn, OtaRestart, MaintenanceAborted, RecoveryFence, RecoveryLifted,
         RecoveryRestart, ServerRestart, WatchdogReset, Restarted, Grow

\* What they withdraw, which they never send: what is queued, or not yet sent.
LEMMA WithdrawnSteps ==
    ASSUME [Next]_vars
    PROVE  \/ UNCHANGED withdrawn
           \/ UNCHANGED sent /\ withdrawn' \subseteq withdrawn
           \/ /\ UNCHANGED sent
              /\ \/ \E S \in SUBSET Slots : (\A i \in S : Queued(i)) /\ withdrawn' = withdrawn \cup Ids(S)
                 \/ \E S \in SUBSET Unsent : withdrawn' = withdrawn \cup Ids(S)
  <1>1. ASSUME NEW mutation \in BOOLEAN, ReplaceQueued(mutation)
        PROVE  UNCHANGED sent /\ withdrawn' \subseteq withdrawn
    BY <1>1 DEF ReplaceQueued
  <1>2. CASE RequestMaintenance
    BY <1>2 DEF RequestMaintenance
  <1>3. CASE WithdrawResend
    <2>1. PICK i \in Slots : Queued(i) /\ withdrawn' = withdrawn \cup {slots[i].id}
      BY <1>3 DEF WithdrawResend
    <2>2. Ids({i}) = {slots[i].id}
      BY DEF Ids
    <2> QED
      BY <1>3, <2>1, <2>2 DEF WithdrawResend
  <1>4. CASE \/ Invalidate \/ ForgetTag \/ ResetWire
             \/ \E cancel \in BOOLEAN : RenewCompletion(cancel) \/ Settle(cancel)
    BY <1>4 DEF Invalidate, ForgetTag, ResetWire, RenewCompletion, Settle, RenewToken
  <1> QED
    BY <1>1, <1>2, <1>3, <1>4, WithdrawalSteps
-----------------------------------------------------------------------------
(* Types. *)

\* An empty slot is not a request.
LEMMA EmptyIsNoRequest == Empty \notin Request
  BY DEF Empty, Request, NetworkKinds

\* While a request is in flight the worker's copy and its slot agree.
LEMMA SlotOfWorker ==
    ASSUME IndInv, InFlight
    PROVE  /\ worker.slot \in Slots
           /\ slots[worker.slot] \in Request /\ worker.request \in Request
           /\ active = {worker.slot}
           /\ slots[worker.slot].id = worker.request.id
           /\ slots[worker.slot].kind = worker.request.kind
           /\ slots[worker.slot].generation = worker.request.generation
           /\ slots[worker.slot].token = worker.request.token
           /\ slots[worker.slot].wire = worker.request.wire
           /\ slots[worker.slot].mutation = worker.request.mutation
           /\ slots[worker.slot].dispatched = worker.request.dispatched
  <1>1. active = {worker.slot} /\ active \in SUBSET Slots
    BY DEF IndInv, SlotHeld, TypeOK
  <1>2. worker.slot \in Slots
    BY <1>1
  <1>3. slots[worker.slot] \in Request
    BY <1>2 DEF IndInv, SlotHeld, TypeOK, Occupied
  <1>4. worker.request \in Request \cup {Empty}
    BY DEF IndInv, TypeOK
  <1>5. [slots[worker.slot] EXCEPT !.cancelled = FALSE] = [worker.request EXCEPT !.cancelled = FALSE]
    BY DEF IndInv, SlotHeld
  <1>6. worker.request # Empty
    <2>1. [slots[worker.slot] EXCEPT !.cancelled = FALSE].kind \in NetworkKinds
      BY <1>3 DEF Request
    <2>2. "none" \notin NetworkKinds
      BY DEF NetworkKinds
    <2> QED
      BY <1>5, <2>1, <2>2 DEF Empty
  <1> QED
    BY <1>1, <1>2, <1>3, <1>4, <1>5, <1>6 DEF Request

\* The requests that callers build are requests.
LEMMA NewRequestType ==
    ASSUME TypeOK, NEW kind \in NetworkKinds, NEW r \in NewRequests(kind)
    PROVE  /\ r \in Request
           /\ r.id = nextId /\ r.kind = kind
           /\ r.generation \in {0, generation}
           /\ kind \in {"Wire", "Completion"} => r.generation = generation
           /\ kind = "Tag" => r.token = tagToken
           /\ kind \in {"Completion", "Verify"} => r.token = completionToken
           /\ kind \in {"Poll", "Refresh", "Report"} => r.generation = 0
           /\ r.cancelled = FALSE /\ r.dispatched = FALSE
  <1> DEFINE Mutations == IF kind = "Wire" THEN BOOLEAN ELSE {Mutates(kind)}
  <1>1. Mutations \subseteq BOOLEAN
    <2>1. Mutates(kind) \in BOOLEAN
      BY DEF Mutates
    <2> HIDE DEF Mutates
    <2> QED BY <2>1
  <1>2. r \in [id : {nextId}, kind : {kind},
               generation : {0, generation}, token : {0, tagToken, wireGeneration, completionToken},
               wire : {0, wireGeneration}, mutation : Mutations,
               cancelled : {FALSE}, dispatched : {FALSE}]
    BY DEF NewRequests
  <1>3. /\ {0, generation} \subseteq Nat /\ {0, wireGeneration} \subseteq Nat
        /\ {0, tagToken, wireGeneration, completionToken} \subseteq Nat
        /\ nextId \in Nat \ {0}
    BY DEF TypeOK
  <1>4. r \in Request
    <2> HIDE DEF Mutations
    <2> QED BY <1>1, <1>2, <1>3 DEF Request
  <1> QED
    BY <1>4 DEF NewRequests, Optional

\* The slot a reply waits in, once its request is over.
LEMMA ReplySlot ==
    ASSUME IndInv, mailbox.ready, main.at = "idle"
    PROVE  /\ mailbox.slot \in Slots /\ active = {mailbox.slot}
           /\ slots[mailbox.slot] \in Request
           /\ worker.at \in {"select", "halted"}
  <1>1. mailbox.slot \in Slots /\ active = {mailbox.slot} /\ Occupied(mailbox.slot)
    BY DEF IndInv, Phases, AtCallback
  <1>2. slots[mailbox.slot] \in Request
    BY <1>1 DEF IndInv, TypeOK, Occupied
  <1>3. ~InFlight
    BY DEF IndInv, Phases
  <1>4. worker.at \in {"select", "check", "boundary", "sending", "discarded", "written", "halted"}
    BY DEF IndInv, TypeOK
  <1> QED
    BY <1>1, <1>2, <1>3, <1>4 DEF InFlight

\* The type invariant, by groups of variables.
SlotsType == slots \in [Slots -> Request \cup {Empty}]
QueueType == active \in SUBSET Slots /\ age \in [Slots -> Ages]
CountersType ==
    /\ nextId \in Nat \ {0} /\ generation \in Nat \ {0} /\ tagToken \in Nat \ {0}
    /\ completionToken \in Nat \ {0} /\ wireGeneration \in Nat \ {0}
    /\ urgentRun \in 0..MaxUrgentRun /\ overtaken \in 0..(MaxUrgentRun + 1)
FlagsType ==
    /\ transaction \in {"none", "legacy", "settled"}
    /\ awaitingRefresh \in BOOLEAN /\ maintenance \in BOOLEAN
    /\ otaRestart \in BOOLEAN /\ fence \in BOOLEAN
MailboxType ==
    mailbox \in [ready : BOOLEAN, slot : Slots \cup {0}, cancelled : BOOLEAN, payload : Nat]
WorkerType ==
    worker \in [at : {"select", "check", "boundary", "sending", "discarded", "written", "halted"},
                slot : Slots \cup {0}, request : Request \cup {Empty}, cancelled : BOOLEAN]
MainType ==
    main \in [at : {"idle", "callback", "handled", "fenced", "restarted", "ota"},
              request : Request \cup {Empty}, todo : SUBSET {"invalidate", "forget", "resetWire"}]
HistoryType ==
    sent \in SUBSET Nat /\ withdrawn \in SUBSET Nat /\ pending \in SUBSET (NetworkKinds \cup {Probe})

\* The type invariant is the conjunction of its groups.
LEMMA TypeParts ==
    TypeOK <=> /\ SlotsType /\ QueueType /\ CountersType /\ FlagsType /\ MailboxType
               /\ WorkerType /\ MainType /\ HistoryType
  BY DEF TypeOK, SlotsType, QueueType, CountersType, FlagsType, MailboxType, WorkerType,
         MainType, HistoryType

\* Flags stay flags.
LEMMA FlagsStep == FlagsType /\ [Next]_vars => FlagsType'
  BY DEF FlagsType, Next, vars, queueVars, tokenVars, flagVars, history, Worker, WorkerProceeds,
         WorkerSelect, WorkerCheck, WorkerDispatch, WorkerStop, WorkerWrite, WorkerPublish,
         WorkerHalt, Submit, ReplaceQueued, NewGame, NewCard, RequestMaintenance, Withdraw,
         Invalidate, ForgetTag, ResetWire, RenewCompletion, Settle, RenewToken, WithdrawResend,
         Deliver, MainTake, PollCallback, RefreshCallback, OtherCallback, MainClear, OtaStart,
         OtaReturn, OtaRestart, MaintenanceAborted, RecoveryFence, RecoveryLifted,
         RecoveryRestart, ServerRestart, WatchdogReset, Restarted, Grow

\* Counters grow by one at most.
LEMMA CountersStep == CountersType /\ [Next]_vars => CountersType'
  <1> SUFFICES ASSUME CountersType, [Next]_vars PROVE CountersType'
    OBVIOUS
  <1>1. /\ nextId' \in {nextId, nextId + 1} /\ generation' \in {generation, generation + 1}
        /\ tagToken' \in {tagToken, tagToken + 1}
        /\ completionToken' \in {completionToken, completionToken + 1}
        /\ wireGeneration' \in {wireGeneration, wireGeneration + 1}
    BY DEF Enqueue, Next, vars, queueVars, tokenVars, flagVars, history, Worker, WorkerProceeds,
           WorkerSelect, WorkerCheck, WorkerDispatch, WorkerStop, WorkerWrite, WorkerPublish,
           WorkerHalt, Submit, ReplaceQueued, NewGame, NewCard, RequestMaintenance, Withdraw,
           Invalidate, ForgetTag, ResetWire, RenewCompletion, Settle, RenewToken,
           WithdrawResend, Deliver, MainTake, PollCallback, RefreshCallback, OtherCallback,
           MainClear, OtaStart, OtaReturn, OtaRestart, MaintenanceAborted, RecoveryFence,
           RecoveryLifted, RecoveryRestart, ServerRestart, WatchdogReset, Restarted, Grow
  <1>2. \/ UNCHANGED <<urgentRun, overtaken>>
        \/ urgentRun' = urgentRun /\ overtaken' \in {0, overtaken}
        \/ \E online \in BOOLEAN : WorkerSelect(online)
    BY DEF Enqueue, Next, vars, queueVars, tokenVars, flagVars, history, Worker, WorkerProceeds,
           WorkerSelect, WorkerCheck, WorkerDispatch, WorkerStop, WorkerWrite, WorkerPublish,
           WorkerHalt, Submit, ReplaceQueued, NewGame, NewCard, RequestMaintenance, Withdraw,
           Invalidate, ForgetTag, ResetWire, RenewCompletion, Settle, RenewToken,
           WithdrawResend, Deliver, MainTake, PollCallback, RefreshCallback, OtherCallback,
           MainClear, OtaStart, OtaReturn, OtaRestart, MaintenanceAborted, RecoveryFence,
           RecoveryLifted, RecoveryRestart, ServerRestart, WatchdogReset, Restarted, Grow
  <1>3. urgentRun' \in 0..MaxUrgentRun /\ overtaken' \in 0..(MaxUrgentRun + 1)
    BY <1>2 DEF WorkerSelect, NextRun, CountersType, MaxUrgentRun
  <1> QED
    BY <1>1, <1>3 DEF CountersType

\* The mailbox holds a slot and the id of a request.
LEMMA MailboxStep == IndInv /\ [Next]_vars => MailboxType'
  <1> SUFFICES ASSUME IndInv, [Next]_vars PROVE MailboxType'
    OBVIOUS
  <1>1. MailboxType /\ WorkerType
    BY TypeParts DEF IndInv
  <1>2. CASE WorkerWrite
    <2>1. worker.request.id \in Nat
      BY <1>2, SlotOfWorker DEF WorkerWrite, InFlight, Request
    <2> QED
      BY <1>1, <1>2, <2>1 DEF WorkerWrite, MailboxType, NoReply
  <1>3. CASE WorkerPublish
    BY <1>1, <1>3 DEF WorkerPublish, MailboxType, WorkerType
  <1>4. CASE MainClear
    BY <1>1, <1>4 DEF MainClear, MailboxType, NoReply
  <1>5. CASE UNCHANGED mailbox
    BY <1>1, <1>5 DEF MailboxType
  <1> QED
    BY <1>2, <1>3, <1>4, <1>5, MailboxSteps

\* The worker's locals hold what it copied from its slot.
LEMMA WorkerStep == IndInv /\ [Next]_vars => WorkerType'
  <1> SUFFICES ASSUME IndInv, [Next]_vars PROVE WorkerType'
    OBVIOUS
  <1>1. SlotsType /\ WorkerType
    BY TypeParts DEF IndInv
  <1>2. ASSUME NEW online \in BOOLEAN, WorkerSelect(online) PROVE WorkerType'
    BY <1>1, <1>2 DEF WorkerSelect, SlotsType, WorkerType
  <1>3. CASE WorkerCheck \/ WorkerStop
    BY <1>1, <1>3 DEF WorkerCheck, WorkerStop, WorkerType
  <1>6. CASE WorkerWrite \/ WorkerHalt
    BY <1>1, <1>6 DEF WorkerWrite, WorkerHalt, WorkerType
  <1>7. CASE WorkerPublish
    BY <1>7 DEF WorkerPublish, Selecting, WorkerType
  <1>4. CASE WorkerDispatch
    <2>1. worker.request \in Request
      BY <1>4, SlotOfWorker DEF WorkerDispatch, InFlight
    <2>2. [worker.request EXCEPT !.dispatched = TRUE] \in Request
      BY <2>1 DEF Request
    <2> QED
      BY <1>1, <1>4, <2>2 DEF WorkerDispatch, WorkerType
  <1>5. CASE UNCHANGED worker
    BY <1>1, <1>5 DEF WorkerType
  <1> QED
    BY <1>2, <1>3, <1>4, <1>5, <1>6, <1>7, WorkerSteps DEF Worker, WorkerProceeds

\* The main task holds what it copied from the mailbox's slot.
LEMMA MainStep == IndInv /\ [Next]_vars => MainType'
  <1> SUFFICES ASSUME IndInv, [Next]_vars PROVE MainType'
    OBVIOUS
  <1>1. MainType
    BY TypeParts DEF IndInv
  <1>2. CASE MainTake
    BY <1>2, ReplySlot DEF MainTake, MainIdle, MainType
  <1>3. CASE \/ main' = main
             \/ main' = Idle
             \/ \E at \in {"handled", "fenced", "restarted", "ota"} : main' = [main EXCEPT !.at = at]
             \/ \E todo \in SUBSET {"invalidate", "forget", "resetWire"} :
                    main' = [main EXCEPT !.todo = todo]
    BY <1>1, <1>3 DEF MainType, Idle
  <1>4. \A step : main.todo \ {step} \in SUBSET {"invalidate", "forget", "resetWire"}
    BY <1>1 DEF MainType
  <1> QED
    BY <1>2, <1>3, <1>4 DEF Begin, Step, Handled, Next, vars, queueVars, tokenVars, flagVars,
                            history, Worker, WorkerProceeds, WorkerSelect, WorkerCheck,
                            WorkerDispatch, WorkerStop, WorkerWrite, WorkerPublish, WorkerHalt,
                            Submit, ReplaceQueued, NewGame, NewCard, RequestMaintenance,
                            Withdraw, Invalidate, ForgetTag, ResetWire, RenewCompletion, Settle,
                            RenewToken, WithdrawResend, Deliver, MainTake, PollCallback,
                            RefreshCallback, OtherCallback, MainClear, OtaStart, OtaReturn,
                            OtaRestart, MaintenanceAborted, RecoveryFence, RecoveryLifted,
                            RecoveryRestart, ServerRestart, WatchdogReset, Restarted, Grow

\* Active slots and ages are those of slots.
LEMMA QueueStep == QueueType /\ [Next]_vars => QueueType'
  <1> SUFFICES ASSUME QueueType, [Next]_vars PROVE QueueType'
    OBVIOUS
  <1>1. active' \in SUBSET Slots
    BY QueueSteps DEF QueueType, WorkerSelect, WorkerDispatch, Submit, ReplaceQueued,
                      RequestMaintenance, ForgetTag, WithdrawResend, MainTake, PollCallback,
                      RenewCompletion, Settle, RenewToken
  <1>2. age' \in [Slots -> Ages]
    BY DEF QueueType, Ages, Enqueue, Next, vars, queueVars, tokenVars, flagVars, history,
           Worker, WorkerProceeds, WorkerSelect, WorkerCheck, WorkerDispatch, WorkerStop,
           WorkerWrite, WorkerPublish, WorkerHalt, Submit, ReplaceQueued, NewGame, NewCard,
           RequestMaintenance, Withdraw, Invalidate, ForgetTag, ResetWire, RenewCompletion,
           Settle, RenewToken, WithdrawResend, Deliver, MainTake, PollCallback, RefreshCallback,
           OtherCallback, MainClear, OtaStart, OtaReturn, OtaRestart, MaintenanceAborted,
           RecoveryFence, RecoveryLifted, RecoveryRestart, ServerRestart, WatchdogReset,
           Restarted, Grow
  <1> QED
    BY <1>1, <1>2 DEF QueueType

\* A request that is queued is a request.
LEMMA EnqueueType ==
    ASSUME TypeOK, NEW kind \in NetworkKinds, NEW r \in NewRequests(kind), Enqueue(r)
    PROVE  SlotsType'
  <1>1. PICK i \in Slots : slots' = [slots EXCEPT ![i] = r]
    BY DEF Enqueue
  <1>2. r \in Request
    BY NewRequestType
  <1> QED
    BY <1>1, <1>2 DEF TypeOK, SlotsType

\* A slot holds a request or nothing.
LEMMA SlotsStep == IndInv /\ [Next]_vars => SlotsType'
  <1> SUFFICES ASSUME IndInv, [Next]_vars PROVE SlotsType'
    OBVIOUS
  <1>0. SlotsType /\ CountersType /\ TypeOK
    BY TypeParts DEF IndInv
  <1>1. ASSUME NEW r \in Request PROVE
          /\ [r EXCEPT !.cancelled = TRUE] \in Request
          /\ [r EXCEPT !.dispatched = TRUE] \in Request
          /\ \A mutation \in BOOLEAN :
               [r EXCEPT !.generation = generation, !.token = wireGeneration, !.mutation = mutation] \in Request
    BY <1>0 DEF Request, CountersType
  <1>2. ASSUME NEW i \in Slots, NEW r \in Request, slots' = [slots EXCEPT ![i] = r] PROVE SlotsType'
    BY <1>0, <1>2 DEF SlotsType
  <1>3. CASE WorkerDispatch
    BY <1>1, <1>2, <1>3, SlotOfWorker DEF WorkerDispatch, MarkDispatched, InFlight
  <1>4. CASE UNCHANGED slots
    BY <1>0, <1>4 DEF SlotsType
  <1>5. ASSUME NEW kind \in Kinds, Submit(kind) PROVE SlotsType'
    BY <1>0, <1>5, EnqueueType, NetworkQueueAssumption DEF Submit
  <1>6. ASSUME NEW mutation \in BOOLEAN, ReplaceQueued(mutation) PROVE SlotsType'
    <2>1. PICK i \in Slots :
            /\ Occupied(i)
            /\ slots' = [slots EXCEPT ![i].generation = generation, ![i].token = wireGeneration,
                                      ![i].mutation = mutation]
      BY <1>6 DEF ReplaceQueued, Replaceable, Queued
    <2>2. slots[i] \in Request
      BY <1>0, <2>1 DEF SlotsType, Occupied
    <2> DEFINE r == [slots[i] EXCEPT !.generation = generation, !.token = wireGeneration,
                                     !.mutation = mutation]
    <2>3. r \in Request
      BY <1>1, <2>2
    <2>4. slots' = [slots EXCEPT ![i] = r]
      BY <1>0, <2>1, <2>2 DEF SlotsType, Request
    <2> HIDE DEF r
    <2> QED
      BY <1>2, <2>3, <2>4
  <1>7. CASE RequestMaintenance
    BY <1>0, <1>1, <1>7 DEF RequestMaintenance, Queued, Occupied, SlotsType
  <1>8. CASE ForgetTag
    BY <1>0, <1>8 DEF ForgetTag, SlotsType
  <1>9. ASSUME NEW cancel \in BOOLEAN, RenewCompletion(cancel) \/ Settle(cancel) PROVE SlotsType'
    BY <1>0, <1>1, <1>9 DEF RenewCompletion, Settle, RenewToken, Occupied, SlotsType
  <1>10. CASE WithdrawResend
    BY <1>0, <1>1, <1>2, <1>10 DEF WithdrawResend, Queued, Occupied, SlotsType
  <1>11. CASE MainTake
    BY <1>0, <1>11, ReplySlot DEF MainTake, MainIdle, Freed, SlotsType
  <1>12. CASE PollCallback
    <2>1. UNCHANGED slots \/ \E r \in NewRequests("Refresh") : Enqueue(r)
      BY <1>12 DEF PollCallback
    <2>2. "Refresh" \in NetworkKinds
      BY DEF NetworkKinds
    <2> QED
      BY <1>0, <1>4, <2>1, <2>2, EnqueueType
  <1>13. ASSUME NEW online \in BOOLEAN, WorkerSelect(online) PROVE UNCHANGED slots
    BY <1>13 DEF WorkerSelect
  <1> QED
    BY <1>3, <1>4, <1>5, <1>6, <1>7, <1>8, <1>9, <1>10, <1>11, <1>12, <1>13, QueueSteps

\* The ids of occupied slots are numbers.
LEMMA IdsType ==
    ASSUME SlotsType, NEW S \in SUBSET Slots, \A i \in S : Occupied(i)
    PROVE  Ids(S) \subseteq Nat
  BY DEF SlotsType, Occupied, Ids, Request

\* Histories hold ids, and only known kinds are waited for.
LEMMA HistoryStep == IndInv /\ [Next]_vars => HistoryType'
  <1> SUFFICES ASSUME IndInv, [Next]_vars PROVE HistoryType'
    OBVIOUS
  <1>1. SlotsType /\ HistoryType /\ TypeOK
    BY TypeParts DEF IndInv
  <1>2. sent' \subseteq Nat
    <2>1. WorkerDispatch => worker.request.id \in Nat
      BY SlotOfWorker DEF WorkerDispatch, InFlight, Request
    <2>2. UNCHANGED sent \/ WorkerDispatch
      BY SentSteps
    <2> QED
      BY <1>1, <2>1, <2>2 DEF WorkerDispatch, HistoryType
  <1>3. withdrawn' \subseteq Nat
    <2>1. ASSUME NEW S \in SUBSET Slots, \A i \in S : Occupied(i) PROVE Ids(S) \subseteq Nat
      BY <1>1, <2>1, IdsType
    <2> QED
      BY <1>1, <2>1, WithdrawnSteps DEF HistoryType, Queued, Unsent
  <1>4. pending' \subseteq NetworkKinds \cup {Probe}
    <2>1. pending' \subseteq pending \/ PollCallback \/ \E kind \in Kinds : Submit(kind)
      BY DEF Enqueue, Next, vars, queueVars, tokenVars, flagVars, history, Worker,
             WorkerProceeds, WorkerSelect, WorkerCheck, WorkerDispatch, WorkerStop, WorkerWrite,
             WorkerPublish, WorkerHalt, ReplaceQueued, NewGame, NewCard, RequestMaintenance,
             Withdraw, Invalidate, ForgetTag, ResetWire, RenewCompletion, Settle, RenewToken,
             WithdrawResend, Deliver, MainTake, RefreshCallback, OtherCallback, MainClear,
             OtaStart, OtaReturn, OtaRestart, MaintenanceAborted, RecoveryFence, RecoveryLifted,
             RecoveryRestart, ServerRestart, WatchdogReset, Restarted, Grow
    <2>2. ASSUME NEW kind \in Kinds, Submit(kind)
          PROVE  pending' \subseteq NetworkKinds \cup {Probe}
      BY <1>1, <2>2, NewRequestType, NetworkQueueAssumption DEF Submit, Waiter, HistoryType
    <2>3. CASE PollCallback
      BY <1>1, <2>3 DEF PollCallback, HistoryType, NetworkKinds
    <2> QED
      BY <1>1, <2>1, <2>2, <2>3 DEF HistoryType
  <1> QED
    BY <1>2, <1>3, <1>4 DEF HistoryType

\* Every step keeps every type.
LEMMA TypeStep == IndInv /\ [Next]_vars => TypeOK'
  <1> SUFFICES ASSUME IndInv, [Next]_vars PROVE TypeOK'
    OBVIOUS
  <1>1. CountersType /\ FlagsType /\ QueueType
    BY TypeParts DEF IndInv
  <1> QED
    BY <1>1, SlotsStep, QueueStep, CountersStep, FlagsStep, MailboxStep, WorkerStep, MainStep,
       HistoryStep
    DEF TypeOK, SlotsType, QueueType, CountersType, FlagsType, MailboxType, WorkerType, MainType,
        HistoryType
-----------------------------------------------------------------------------
(* What a step may do to the requests in the slots. *)

\* A request is queued in a free slot, with an id of its own.
LEMMA EnqueueStep ==
    ASSUME TypeOK, NEW r, Enqueue(r)
    PROVE  \E i \in Slots :
               /\ ~Occupied(i)
               /\ slots' = [slots EXCEPT ![i] = r]
               /\ \A j \in Slots : slots'[j] = IF j = i THEN r ELSE slots[j]
               /\ nextId' = nextId + 1
  <1>1. PICK i \in Slots : FirstFree(i) /\ slots' = [slots EXCEPT ![i] = r]
    BY DEF Enqueue
  <1>2. \A j \in Slots : slots'[j] = IF j = i THEN r ELSE slots[j]
    BY <1>1 DEF TypeOK
  <1> QED
    BY <1>1, <1>2 DEF Enqueue, FirstFree

\* Either the main task queues a request, or requests only leave their slots or
\* stay where they are, with their id and kind; only a dispatch marks them.
Queues(kind) == kind \in Kinds \cup {"Refresh"} /\ \E r \in NewRequests(kind) : Enqueue(r)
Kept(i) ==
    /\ Occupied(i)
    /\ slots'[i] \in Request
    /\ slots'[i].id = slots[i].id /\ slots'[i].kind = slots[i].kind
    /\ WorkerDispatch \/ slots'[i].dispatched = slots[i].dispatched

\* What became of every slot after a step.
LEMMA SlotFate ==
    ASSUME IndInv, [Next]_vars
    PROVE  \/ /\ \E kind : Queues(kind)
              /\ UNCHANGED <<active, tokenVars, mailbox, worker, sent, withdrawn>>
           \/ /\ UNCHANGED nextId
              /\ \A i \in Slots : slots'[i] = Empty \/ Kept(i)
  <1>1. SlotsType /\ SlotsType' /\ SlotsType
    BY TypeParts, SlotsStep DEF IndInv
  <1>2. ASSUME UNCHANGED slots PROVE \A i \in Slots : slots'[i] = Empty \/ Kept(i)
    BY <1>1, <1>2 DEF SlotsType, Kept, Occupied
  <1>3. ASSUME NEW kind \in Kinds, Submit(kind)
        PROVE  Queues(kind) /\ UNCHANGED <<active, tokenVars, mailbox, worker, sent, withdrawn>>
    BY <1>3 DEF Submit, Queues, tokenVars
  <1>4. CASE PollCallback
    <2>1. UNCHANGED <<slots, nextId>> \/ Queues("Refresh")
      BY <1>4 DEF PollCallback, Queues
    <2> QED
      BY <1>2, <1>4, <2>1 DEF PollCallback, tokenVars
  <1>5. CASE WorkerDispatch
    <2>1. worker.slot \in Slots /\ slots[worker.slot] \in Request
      BY <1>5, SlotOfWorker DEF WorkerDispatch, InFlight
    <2> QED
      BY <1>1, <1>5, <2>1, EmptyIsNoRequest
      DEF WorkerDispatch, MarkDispatched, SlotsType, Kept, Occupied, Request
  <1>6. ASSUME NEW mutation \in BOOLEAN, ReplaceQueued(mutation)
        PROVE  UNCHANGED nextId /\ \A i \in Slots : slots'[i] = Empty \/ Kept(i)
    <2>1. PICK i \in Slots :
            /\ Occupied(i)
            /\ slots' = [slots EXCEPT ![i].generation = generation, ![i].token = wireGeneration,
                                      ![i].mutation = mutation]
      BY <1>6 DEF ReplaceQueued, Replaceable, Queued
    <2>2. slots[i] \in Request
      BY <1>1, <2>1 DEF SlotsType, Occupied
    <2>3. /\ slots'[i].id = slots[i].id /\ slots'[i].kind = slots[i].kind
          /\ slots'[i].dispatched = slots[i].dispatched
      BY <1>1, <2>1, <2>2 DEF SlotsType, Request
    <2>4. \A j \in Slots \ {i} : slots'[j] = slots[j]
      BY <1>1, <2>1 DEF SlotsType
    <2> QED
      BY <1>1, <1>6, <2>1, <2>3, <2>4 DEF ReplaceQueued, SlotsType, Kept, Occupied, queueVars
  <1>7. CASE RequestMaintenance
    BY <1>1, <1>7 DEF RequestMaintenance, Queued, SlotsType, Kept, Occupied, Request
  <1>8. CASE ForgetTag
    BY <1>1, <1>8 DEF ForgetTag, SlotsType, Kept, Occupied
  <1>9. ASSUME NEW cancel \in BOOLEAN, RenewCompletion(cancel) \/ Settle(cancel)
        PROVE  UNCHANGED nextId /\ \A i \in Slots : slots'[i] = Empty \/ Kept(i)
    BY <1>1, <1>9 DEF RenewCompletion, Settle, RenewToken, SlotsType, Kept, Occupied, Request
  <1>10. CASE WithdrawResend
    BY <1>1, <1>10 DEF WithdrawResend, Queued, SlotsType, Kept, Occupied, Request
  <1>11. CASE MainTake
    BY <1>1, <1>11, ReplySlot DEF MainTake, MainIdle, Freed, SlotsType, Kept, Occupied
  <1>12. UNCHANGED nextId \/ (\E kind \in Kinds : Submit(kind)) \/ PollCallback
    BY DEF Next, vars, queueVars, tokenVars, flagVars, history, Worker, WorkerProceeds,
           WorkerSelect, WorkerCheck, WorkerDispatch, WorkerStop, WorkerWrite, WorkerPublish,
           WorkerHalt, ReplaceQueued, NewGame, NewCard, RequestMaintenance, Withdraw,
           Invalidate, ForgetTag, ResetWire, RenewCompletion, Settle, RenewToken,
           WithdrawResend, Deliver, MainTake, RefreshCallback, OtherCallback, MainClear,
           OtaStart, OtaReturn, OtaRestart, MaintenanceAborted, RecoveryFence, RecoveryLifted,
           RecoveryRestart, ServerRestart, WatchdogReset, Restarted, Grow
  <1>13. ASSUME NEW online \in BOOLEAN, WorkerSelect(online) PROVE UNCHANGED slots
    BY <1>13 DEF WorkerSelect
  <1> QED
    BY <1>2, <1>3, <1>4, <1>5, <1>6, <1>7, <1>8, <1>9, <1>10, <1>11, <1>12, <1>13, QueueSteps
-----------------------------------------------------------------------------
(* Ids. *)

\* A new id is larger than all that were given; the others stay where they are.
LEMMA IdsStep == IndInv /\ [Next]_vars => IdsFresh'
  <1> SUFFICES ASSUME IndInv, [Next]_vars PROVE IdsFresh'
    OBVIOUS
  <1>1. TypeOK /\ TypeOK' /\ IdsFresh
    BY TypeStep DEF IndInv
  <1>2. CASE /\ UNCHANGED <<sent, withdrawn>>
             /\ \E kind : Queues(kind)
    <2>0. PICK kind \in NetworkKinds : \E r \in NewRequests(kind) : Enqueue(r)
      BY <1>2, NetworkQueueAssumption DEF Queues, NetworkKinds
    <2>1. PICK r \in NewRequests(kind) : Enqueue(r)
      BY <2>0
    <2>2. r.id = nextId
      BY <1>1, NewRequestType
    <2>3. PICK i \in Slots : /\ \A j \in Slots : slots'[j] = IF j = i THEN r ELSE slots[j]
                             /\ nextId' = nextId + 1
      BY <1>1, <2>1, EnqueueStep
    <2>4. \A j \in Slots : Occupied(j) => slots[j].id \in Nat
      BY <1>1 DEF TypeOK, Occupied, Request
    <2>5. nextId \in Nat /\ sent \subseteq Nat /\ withdrawn \subseteq Nat
      BY <1>1 DEF TypeOK
    <2> QED
      BY <1>1, <1>2, <2>2, <2>3, <2>4, <2>5 DEF IdsFresh, Occupied
  <1>3. CASE /\ UNCHANGED nextId
             /\ \A i \in Slots : slots'[i] = Empty \/ Kept(i)
    <2>1. \A i \in Slots : Occupied(i)' => Occupied(i) /\ slots'[i].id = slots[i].id
      BY <1>3 DEF Kept, Occupied
    <2>2. \A id \in sent' : id < nextId
      <3>1. CASE WorkerDispatch
        <4>1. worker.request.id < nextId
          BY <1>1, <3>1, SlotOfWorker DEF WorkerDispatch, InFlight, IdsFresh, IndInv, SlotHeld
        <4> QED
          BY <1>1, <3>1, <4>1 DEF WorkerDispatch, IdsFresh
      <3>2. UNCHANGED sent \/ WorkerDispatch
        BY SentSteps
      <3> QED
        BY <1>1, <3>1, <3>2 DEF IdsFresh
    <2>3. \A id \in withdrawn' : id < nextId
      <3>1. \A S \in SUBSET Slots : (\A i \in S : Occupied(i)) => \A id \in Ids(S) : id < nextId
        BY <1>1 DEF IdsFresh, Ids
      <3> QED
        BY <1>1, <3>1, WithdrawnSteps DEF IdsFresh, Queued, Unsent
    <2> QED
      BY <1>1, <1>3, <2>1, <2>2, <2>3 DEF IdsFresh
  <1> QED
    BY <1>2, <1>3, SlotFate
-----------------------------------------------------------------------------
(* Who holds what. *)

\* Nothing but the dispatch and the end of a request touches an active slot,
\* except to mark it cancelled.
SameButCancelled(r, s) == [r EXCEPT !.cancelled = FALSE] = [s EXCEPT !.cancelled = FALSE]

\* An active slot keeps its request until it is dispatched or taken.
LEMMA ActiveUntouched ==
    ASSUME IndInv, [Next]_vars, NEW i \in active, Occupied(i), ~MainTake, ~WorkerDispatch
    PROVE  SameButCancelled(slots'[i], slots[i]) /\ slots'[i] # Empty
  <1>1. TypeOK /\ TypeOK' /\ i \in Slots
    BY TypeStep DEF IndInv, TypeOK
  <1>2. slots[i] \in Request
    BY <1>1 DEF TypeOK, Occupied
  <1>3. CASE slots'[i] = slots[i]
    BY <1>3 DEF SameButCancelled, Occupied
  <1>4. CASE slots'[i] = [slots[i] EXCEPT !.cancelled = TRUE]
    <2>1. slots'[i].kind = slots[i].kind
      BY <1>2, <1>4 DEF Request
    <2>2. "none" \notin NetworkKinds
      BY DEF NetworkKinds
    <2>3. slots'[i] # Empty
      BY <1>2, <2>1, <2>2 DEF Request, Empty
    <2> QED
      BY <1>2, <1>4, <2>3 DEF SameButCancelled, Occupied, Request
  <1>5. ASSUME NEW kind \in Kinds, Submit(kind) PROVE slots'[i] = slots[i]
    <2>1. PICK r \in NewRequests(kind) : Enqueue(r)
      BY <1>5 DEF Submit
    <2> QED
      BY <1>1, <2>1, EnqueueStep
  <1>6. CASE PollCallback
    <2>1. UNCHANGED slots \/ \E r \in NewRequests("Refresh") : Enqueue(r)
      BY <1>6 DEF PollCallback
    <2>2. ASSUME NEW r \in NewRequests("Refresh"), Enqueue(r) PROVE slots'[i] = slots[i]
      BY <1>1, <2>2, EnqueueStep
    <2> QED
      BY <1>3, <2>1, <2>2
  <1>7. ASSUME NEW mutation \in BOOLEAN, ReplaceQueued(mutation) PROVE slots'[i] = slots[i]
    BY <1>1, <1>7 DEF ReplaceQueued, Replaceable, Queued, TypeOK
  <1>8. CASE RequestMaintenance \/ ForgetTag \/ WithdrawResend
    BY <1>1, <1>3, <1>8 DEF RequestMaintenance, ForgetTag, Forgotten, WithdrawResend, Queued, TypeOK
  <1>9. ASSUME NEW cancel \in BOOLEAN, RenewCompletion(cancel) \/ Settle(cancel)
        PROVE  slots'[i] \in {slots[i], [slots[i] EXCEPT !.cancelled = TRUE]}
    BY <1>1, <1>9 DEF RenewCompletion, Settle, RenewToken
  <1>10. ASSUME NEW online \in BOOLEAN, WorkerSelect(online) PROVE slots'[i] = slots[i]
    BY <1>10 DEF WorkerSelect
  <1> QED
    BY <1>3, <1>4, <1>5, <1>6, <1>7, <1>8, <1>9, <1>10, QueueSteps

\* The slots that are active after a step.
LEMMA ActiveSteps ==
    ASSUME [Next]_vars, ~MainTake, \A online \in BOOLEAN : ~WorkerSelect(online)
    PROVE  active' = active
  BY QueueSteps DEF WorkerDispatch, Submit, ReplaceQueued, RequestMaintenance, ForgetTag,
     WithdrawResend, PollCallback, RenewCompletion, Settle, RenewToken

\* Between two requests of the worker no slot is active.
LEMMA SelectsAlone ==
    ASSUME IndInv, NEW online \in BOOLEAN, WorkerSelect(online)
    PROVE  \E i \in Slots :
               /\ active = {} /\ active' = {i}
               /\ Occupied(i) /\ i \in Slots /\ slots[i] \in Request
               /\ Choice(i, online)
               /\ worker' = [at |-> "check", slot |-> i, request |-> slots[i], cancelled |-> FALSE]
  <1>1. PICK i \in Slots :
          /\ Choice(i, online) /\ active' = active \cup {i}
          /\ worker' = [at |-> "check", slot |-> i, request |-> slots[i], cancelled |-> FALSE]
    BY DEF WorkerSelect
  <1>2. active = {}
    BY DEF WorkerSelect, MaySelect, IndInv, Phases, InFlight
  <1>3. Occupied(i)
    BY <1>1 DEF Choice, Preferred, Control, Report, Selectable, Queued
  <1>4. slots[i] \in Request
    BY <1>3 DEF IndInv, TypeOK, Occupied
  <1> QED
    BY <1>1, <1>2, <1>3, <1>4

\* What the other steps of the worker leave in its local variables.
LEMMA WorkerMoves ==
    ASSUME IndInv
    PROVE  /\ WorkerCheck =>
                  /\ worker.at = "check" /\ UNCHANGED <<worker.slot, worker.request>>
                  /\ \/ worker'.at = "discarded" /\ worker'.cancelled = TRUE
                     \/ worker'.at = "boundary" /\ worker'.cancelled = worker.cancelled
           /\ WorkerDispatch =>
                  /\ worker.at = "boundary" /\ worker'.at = "sending"
                  /\ UNCHANGED <<worker.slot, worker.cancelled>>
           /\ WorkerStop =>
                  /\ worker.at = "boundary" /\ worker'.at = "discarded"
                  /\ worker'.cancelled = TRUE /\ UNCHANGED <<worker.slot, worker.request>>
           /\ WorkerWrite =>
                  /\ worker.at \in {"sending", "discarded"} /\ worker'.at = "written"
                  /\ UNCHANGED <<worker.slot, worker.request, worker.cancelled>>
           /\ WorkerPublish => worker.at = "written" /\ worker' = Selecting
           /\ WorkerHalt => worker.at = "select" /\ worker'.at = "halted"
           /\ Selecting.at = "select" /\ ~Selecting.cancelled
  <1>1. WorkerType
    BY TypeParts DEF IndInv
  <1>2. WorkerDispatch =>
          /\ worker.at = "boundary" /\ worker'.at = "sending"
          /\ UNCHANGED <<worker.slot, worker.cancelled>>
    BY <1>1 DEF WorkerDispatch, WorkerType
  <1>3. WorkerCheck =>
          /\ worker.at = "check" /\ UNCHANGED <<worker.slot, worker.request>>
          /\ \/ worker'.at = "discarded" /\ worker'.cancelled = TRUE
             \/ worker'.at = "boundary" /\ worker'.cancelled = worker.cancelled
    BY <1>1 DEF WorkerCheck, WorkerType
  <1>4. WorkerStop =>
          /\ worker.at = "boundary" /\ worker'.at = "discarded"
          /\ worker'.cancelled = TRUE /\ UNCHANGED <<worker.slot, worker.request>>
    BY <1>1 DEF WorkerStop, WorkerType
  <1>5. WorkerWrite =>
          /\ worker.at \in {"sending", "discarded"} /\ worker'.at = "written"
          /\ UNCHANGED <<worker.slot, worker.request, worker.cancelled>>
    BY <1>1 DEF WorkerWrite, WorkerType
  <1>6. /\ WorkerPublish => worker.at = "written" /\ worker' = Selecting
        /\ WorkerHalt => worker.at = "select" /\ worker'.at = "halted"
        /\ Selecting.at = "select" /\ ~Selecting.cancelled
    BY <1>1 DEF WorkerPublish, WorkerHalt, Selecting, WorkerType
  <1> QED
    BY <1>2, <1>3, <1>4, <1>5, <1>6

\* Nothing frees, reuses or rewrites the slot of a request in flight.
LEMMA SlotHeldStep == IndInv /\ [Next]_vars => SlotHeld'
  <1> SUFFICES ASSUME IndInv, [Next]_vars, InFlight' PROVE SlotHeld'
    BY DEF SlotHeld
  <1>1. TypeOK /\ SlotHeld
    BY DEF IndInv
  <1>2. ASSUME NEW online \in BOOLEAN, WorkerSelect(online) PROVE SlotHeld'
    <2>1. UNCHANGED slots
      BY <1>2 DEF WorkerSelect
    <2>2. PICK i \in Slots :
            /\ active' = {i} /\ Occupied(i)
            /\ worker' = [at |-> "check", slot |-> i, request |-> slots[i], cancelled |-> FALSE]
      BY <1>2, SelectsAlone
    <2>3. worker'.slot = i /\ worker'.request = slots[i]
      BY <2>2
    <2> QED
      BY <2>1, <2>2, <2>3 DEF SlotHeld, Occupied
  <1>3. CASE WorkerDispatch
    <2>1. /\ worker.slot \in Slots /\ active = {worker.slot}
          /\ slots[worker.slot] \in Request /\ worker.request \in Request
          /\ SameButCancelled(slots[worker.slot], worker.request)
      <3>1. InFlight
        BY <1>3 DEF WorkerDispatch, InFlight
      <3> QED
        BY <1>1, <3>1, SlotOfWorker DEF SlotHeld, SameButCancelled
    <2>2. /\ slots'[worker.slot] = [slots[worker.slot] EXCEPT !.dispatched = TRUE]
          /\ worker'.slot = worker.slot
          /\ worker'.request = [worker.request EXCEPT !.dispatched = TRUE]
          /\ active' = active
      BY <1>1, <1>3, <2>1 DEF WorkerDispatch, MarkDispatched, TypeOK
    <2>3. SameButCancelled(slots'[worker.slot], worker'.request)
      BY <2>1, <2>2 DEF SameButCancelled, Request
    <2>4. slots'[worker.slot] \in Request
      BY <2>1, <2>2 DEF Request
    <2> QED
      BY <2>1, <2>2, <2>3, <2>4, EmptyIsNoRequest DEF SlotHeld, SameButCancelled, Occupied
  <1>4. ASSUME ~WorkerDispatch, \A online \in BOOLEAN : ~WorkerSelect(online) PROVE SlotHeld'
    <2>1. InFlight /\ worker'.slot = worker.slot /\ worker'.request = worker.request
      <3>1. WorkerType
        BY TypeParts DEF IndInv
      <3>2. CASE UNCHANGED worker
        BY <3>2 DEF InFlight
      <3>3. CASE WorkerCheck \/ WorkerStop \/ WorkerWrite
        BY <3>1, <3>3 DEF WorkerCheck, WorkerStop, WorkerWrite, InFlight, WorkerType
      <3>4. CASE WorkerPublish \/ WorkerHalt
        BY <3>1, <3>4 DEF WorkerPublish, WorkerHalt, Selecting, InFlight, WorkerType
      <3> QED
        BY <1>4, <3>2, <3>3, <3>4, WorkerSteps DEF Worker, WorkerProceeds
    <2>2. ~MainTake
      BY <2>1 DEF MainTake, IndInv, Phases
    <2>3. active' = active
      BY <1>4, <2>2, ActiveSteps
    <2>4. active = {worker.slot} /\ Occupied(worker.slot) /\ worker.slot \in active
      BY <2>1 DEF IndInv, SlotHeld
    <2>5. SameButCancelled(slots'[worker.slot], slots[worker.slot]) /\ slots'[worker.slot] # Empty
      BY <1>4, <2>2, <2>4, ActiveUntouched
    <2> QED
      BY <2>1, <2>3, <2>4, <2>5 DEF IndInv, SlotHeld, SameButCancelled, Occupied
  <1> QED
    BY <1>2, <1>3, <1>4

\* A request is selected, not selected again, or published.
LEMMA WorkerPhases ==
    ASSUME IndInv, [Next]_vars
    PROVE  \/ /\ \E online \in BOOLEAN : WorkerSelect(online)
              /\ ~InFlight /\ UNCHANGED <<main, mailbox, fence>>
           \/ InFlight /\ InFlight' /\ UNCHANGED mailbox.ready
           \/ /\ WorkerPublish /\ InFlight /\ ~InFlight'
              /\ mailbox'.ready /\ mailbox'.slot = worker.slot
              /\ UNCHANGED <<main, fence, active, slots>>
           \/ ~InFlight /\ ~InFlight' /\ \A online \in BOOLEAN : ~WorkerSelect(online)
  <1>1. WorkerType /\ MailboxType
    BY TypeParts DEF IndInv
  <1>2. CASE WorkerCheck \/ WorkerDispatch \/ WorkerStop \/ WorkerWrite
    <2>1. InFlight /\ InFlight'
      BY <1>1, <1>2 DEF WorkerCheck, WorkerDispatch, WorkerStop, WorkerWrite, InFlight, WorkerType
    <2>2. mailbox'.ready = mailbox.ready
      BY <1>1, <1>2 DEF WorkerCheck, WorkerDispatch, WorkerStop, WorkerWrite, MailboxType
    <2> QED
      BY <2>1, <2>2
  <1>3. CASE WorkerPublish
    <2>1. InFlight /\ ~InFlight'
      BY <1>3 DEF WorkerPublish, InFlight, Selecting
    <2>2. mailbox'.ready /\ mailbox'.slot = worker.slot
      BY <1>1, <1>3 DEF WorkerPublish, MailboxType
    <2> QED
      BY <1>3, <2>1, <2>2 DEF WorkerPublish, flagVars, queueVars
  <1>4. CASE WorkerHalt
    BY <1>1, <1>4 DEF WorkerHalt, WorkerSelect, InFlight, WorkerType
  <1>5. ASSUME NEW online \in BOOLEAN, WorkerSelect(online)
        PROVE  ~InFlight /\ UNCHANGED <<main, mailbox, fence>>
    BY <1>5 DEF WorkerSelect, InFlight, flagVars
  <1>6. CASE UNCHANGED worker /\ ~InFlight
    <2>1. ~InFlight'
      BY <1>6 DEF InFlight
    <2>2. ASSUME NEW online \in BOOLEAN, WorkerSelect(online) PROVE FALSE
      BY <1>6, <2>2 DEF WorkerSelect
    <2> QED
      BY <1>6, <2>1, <2>2
  <1>7. CASE UNCHANGED worker /\ InFlight /\ ~WorkerWrite /\ ~WorkerPublish
    <2>1. InFlight'
      BY <1>7 DEF InFlight
    <2>2. ~MainClear
      BY <1>7 DEF MainClear, IndInv, Phases, AtCallback
    <2> QED
      BY <1>7, <2>1, <2>2, MailboxSteps
  <1> QED
    BY <1>2, <1>3, <1>4, <1>5, <1>6, <1>7, WorkerSteps DEF Worker, WorkerProceeds

\* Where the main task goes.
LEMMA MainPhases ==
    ASSUME IndInv, [Next]_vars
    PROVE  \/ UNCHANGED main
           \/ /\ main'.at = main.at /\ main'.request = main.request
              /\ main.at \in {"idle", "handled"} \/ main.todo # {}
              /\ UNCHANGED <<mailbox, worker, fence>>
           \/ MainTake
           \/ /\ main.at = "callback" /\ main'.at \in {"handled", "restarted"}
              /\ main'.request = main.request /\ main'.todo = main.todo
              /\ UNCHANGED <<active, mailbox, worker, fence>>
           \/ MainClear
           \/ /\ main.at = "idle" /\ main.todo = {}
              /\ main'.at \in {"ota", "fenced", "restarted"} /\ main'.todo = {}
              /\ UNCHANGED <<slots, active, mailbox, worker>>
           \/ /\ main.at \in {"ota", "fenced"} /\ main'.at \in {"idle", "restarted"}
              /\ main.at = "fenced" /\ main'.at = "idle" => ~fence'
              /\ UNCHANGED <<slots, active, mailbox, worker>>
           \/ /\ worker.at = "halted" /\ main'.at = "restarted"
              /\ UNCHANGED <<slots, active, mailbox, worker, fence>>
  <1>1. MainType
    BY TypeParts DEF IndInv
  <1>2. CASE NewGame \/ NewCard \/ RequestMaintenance
    BY <1>1, <1>2 DEF NewGame, NewCard, RequestMaintenance, MainRuns, Begin, MainType, flagVars
  <1>3. CASE Invalidate \/ ForgetTag \/ ResetWire
    BY <1>1, <1>3 DEF Invalidate, ForgetTag, ResetWire, Step, MainType, flagVars
  <1>4. CASE PollCallback \/ RefreshCallback \/ OtherCallback \/ ServerRestart
    BY <1>1, <1>4 DEF PollCallback, RefreshCallback, OtherCallback, ServerRestart, Handled,
       MainType, flagVars, queueVars
  <1>5. CASE OtaStart \/ OtaRestart \/ RecoveryFence
    BY <1>1, <1>5 DEF OtaStart, OtaRestart, RecoveryFence, MainIdle, MainType, flagVars, queueVars
  <1>6. CASE OtaReturn \/ RecoveryLifted \/ RecoveryRestart
    BY <1>1, <1>6 DEF OtaReturn, RecoveryLifted, RecoveryRestart, Idle, MainType, flagVars,
                      queueVars
  <1>7. CASE WatchdogReset
    BY <1>1, <1>7 DEF WatchdogReset, MainType, flagVars, queueVars
  <1> QED
    BY <1>2, <1>3, <1>4, <1>5, <1>6, <1>7, MainSteps

\* While a reply waits for the main task, its slot stays as it is.
LEMMA ReplyWaits ==
    ASSUME IndInv, [Next]_vars, mailbox.ready, ~AtCallback, main.at # "restarted", ~MainTake
    PROVE  /\ UNCHANGED <<mailbox, active>>
           /\ mailbox.slot \in Slots /\ active = {mailbox.slot} /\ Occupied(mailbox.slot)
           /\ slots'[mailbox.slot] # Empty
           /\ SameButCancelled(slots'[mailbox.slot], slots[mailbox.slot])
  <1>1. ~InFlight
    BY DEF IndInv, Phases
  <1>2. ~WorkerDispatch /\ ~WorkerWrite /\ ~WorkerPublish
    BY <1>1 DEF WorkerDispatch, WorkerWrite, WorkerPublish, InFlight
  <1>3. \A online \in BOOLEAN : ~WorkerSelect(online)
    BY DEF WorkerSelect, MaySelect
  <1>4. ~MainClear
    BY DEF MainClear, AtCallback
  <1>5. UNCHANGED <<mailbox, active>>
    BY <1>2, <1>3, <1>4, MailboxSteps, ActiveSteps
  <1>6. mailbox.slot \in Slots /\ active = {mailbox.slot} /\ Occupied(mailbox.slot)
    BY DEF IndInv, Phases
  <1>7. mailbox.slot \in active
    BY <1>6
  <1> QED
    BY <1>2, <1>5, <1>6, <1>7, ActiveUntouched

\* During a callback the worker waits.
LEMMA CallbackAlone ==
    ASSUME IndInv, [Next]_vars, AtCallback, ~MainClear
    PROVE  /\ UNCHANGED <<mailbox, active>> /\ mailbox.ready /\ active = {}
           /\ ~InFlight /\ ~InFlight'
           /\ \A online \in BOOLEAN : ~WorkerSelect(online)
  <1>1. mailbox.ready /\ active = {} /\ ~InFlight
    BY DEF IndInv, Phases
  <1>2. ~WorkerWrite /\ ~WorkerPublish
    BY <1>1 DEF WorkerWrite, WorkerPublish, InFlight
  <1>3. \A online \in BOOLEAN : ~WorkerSelect(online)
    BY <1>1 DEF WorkerSelect, MaySelect
  <1>4. ~MainTake
    BY DEF MainTake, MainIdle, AtCallback
  <1>5. UNCHANGED <<mailbox, active>>
    BY <1>2, <1>3, <1>4, MailboxSteps, ActiveSteps
  <1> QED
    BY <1>1, <1>3, <1>5, WorkerPhases

\* The mailbox has one owner, and so has the active slot, whatever interleaves.
LEMMA PhasesStep == IndInv /\ [Next]_vars => Phases'
  <1> SUFFICES ASSUME IndInv, [Next]_vars PROVE Phases'
    OBVIOUS
  <1>1. Phases /\ MainType /\ MailboxType
    BY TypeParts DEF IndInv
  <1>2. InFlight' => ~mailbox'.ready
    <2>1. ASSUME NEW online \in BOOLEAN, WorkerSelect(online), UNCHANGED mailbox
          PROVE  ~mailbox'.ready
      BY <2>1 DEF WorkerSelect, MaySelect
    <2> QED
      BY <1>1, <2>1, WorkerPhases DEF Phases
  <1>3. AtCallback' => mailbox'.ready /\ active' = {}
    <2>1. CASE MainTake
      <3>1. mailbox.ready /\ main.at = "idle"
        BY <2>1 DEF MainTake, MainIdle
      <3> QED
        BY <2>1, <3>1, ReplySlot DEF MainTake
    <2>2. CASE AtCallback /\ ~MainClear
      BY <2>2, CallbackAlone
    <2>3. CASE MainClear
      BY <2>3 DEF MainClear, Idle, AtCallback
    <2>4. CASE ~AtCallback /\ ~MainTake /\ ~MainClear
      BY <2>4, MainPhases DEF AtCallback
    <2> QED
      BY <2>1, <2>2, <2>3, <2>4
  <1>4. main'.at \in {"callback", "fenced", "ota"} => main'.todo = {}
    BY <1>1, MainPhases DEF Phases, MainTake, MainClear, Idle
  <1>5. main'.at = "callback" => main'.request # Empty
    <2>1. CASE MainTake
      <3>1. mailbox.ready /\ main.at = "idle"
        BY <2>1 DEF MainTake, MainIdle
      <3> QED
        BY <2>1, <3>1, ReplySlot, EmptyIsNoRequest DEF MainTake
    <2>2. CASE ~MainTake
      BY <1>1, <2>2, MainPhases DEF Phases, MainClear, Idle
    <2> QED
      BY <2>1, <2>2
  <1>6. mailbox'.ready /\ ~AtCallback' /\ main'.at # "restarted" =>
          mailbox'.slot \in Slots /\ active' = {mailbox'.slot} /\ slots'[mailbox'.slot] # Empty
    <2> SUFFICES ASSUME mailbox'.ready, ~AtCallback', main'.at # "restarted"
                 PROVE  mailbox'.slot \in Slots /\ active' = {mailbox'.slot}
                        /\ slots'[mailbox'.slot] # Empty
      OBVIOUS
    <2>1. ~MainTake /\ ~MainClear
      BY <1>1 DEF MainTake, MainClear, AtCallback, MailboxType
    <2>2. ~AtCallback /\ main.at # "restarted"
      BY <2>1, MainPhases DEF AtCallback
    <2>3. CASE mailbox.ready
      BY <2>1, <2>2, <2>3, ReplyWaits
    <2>4. CASE WorkerPublish
      <3>1. InFlight /\ UNCHANGED <<active, slots>> /\ mailbox'.slot = worker.slot
        BY <1>1, <2>4 DEF WorkerPublish, InFlight, queueVars, MailboxType
      <3> QED
        BY <3>1, SlotOfWorker, EmptyIsNoRequest
    <2>5. CASE ~mailbox.ready /\ ~WorkerPublish
      BY <1>1, <2>1, <2>5, MailboxSteps DEF WorkerWrite, MailboxType
    <2> QED
      BY <2>3, <2>4, <2>5, WorkerPhases
  <1>7. ~InFlight' /\ ~mailbox'.ready => active' = {}
    <2> SUFFICES ASSUME ~InFlight', ~mailbox'.ready PROVE active' = {}
      OBVIOUS
    <2>1. CASE MainTake
      <3>1. mailbox.ready /\ main.at = "idle"
        BY <2>1 DEF MainTake, MainIdle
      <3> QED
        BY <2>1, <3>1, ReplySlot DEF MainTake
    <2>2. CASE MainClear
      BY <1>1, <2>2 DEF MainClear, Phases, AtCallback, queueVars
    <2>3. CASE ~MainTake /\ ~MainClear
      <3>1. ~mailbox.ready
        BY <1>1, <2>3, MailboxSteps DEF WorkerWrite, WorkerPublish, MailboxType
      <3>2. ~InFlight
        BY <1>1, WorkerPhases DEF MailboxType
      <3>3. \A online \in BOOLEAN : ~WorkerSelect(online)
        BY <3>1, <3>2, WorkerPhases DEF WorkerSelect, InFlight
      <3> QED
        BY <1>1, <2>3, <3>1, <3>2, <3>3, ActiveSteps DEF Phases
    <2> QED
      BY <2>1, <2>2, <2>3
  <1>8. fence' => main'.at \in {"fenced", "restarted"}
    <2>1. CASE RecoveryFence
      BY <1>1, <2>1 DEF RecoveryFence, MainType
    <2>2. CASE RecoveryLifted
      BY <2>2 DEF RecoveryLifted
    <2>3. CASE fence /\ UNCHANGED fence /\ main.at = "fenced"
      BY <2>3, MainPhases DEF MainTake, MainIdle, MainClear
    <2>4. CASE fence /\ main.at = "restarted"
      BY <1>1, <2>4, MainPhases DEF MainTake, MainIdle, MainClear
    <2>5. CASE ~fence /\ UNCHANGED fence
      BY <2>5
    <2> QED
      BY <1>1, <2>1, <2>2, <2>3, <2>4, <2>5, FenceSteps DEF Phases
  <1> QED
    BY <1>2, <1>3, <1>4, <1>5, <1>6, <1>7, <1>8 DEF Phases, Occupied

\* Behind the fence nothing starts.
LEMMA QuietFenceStep == IndInv /\ [Next]_vars => QuietFence'
  <1> SUFFICES ASSUME IndInv, [Next]_vars, fence' PROVE ~InFlight' /\ active' = {} /\ ~mailbox'.ready
    BY DEF QuietFence
  <1>1. MailboxType
    BY TypeParts DEF IndInv
  <1>2. CASE RecoveryFence
    <2>1. ~mailbox.ready /\ active = {} /\ UNCHANGED <<mailbox, active, worker>>
      BY <1>2 DEF RecoveryFence, Blocked, queueVars
    <2>2. ~InFlight
      BY <2>1, SlotOfWorker
    <2> QED
      BY <2>1, <2>2 DEF InFlight
  <1>3. CASE fence
    <2>1. ~InFlight /\ active = {} /\ ~mailbox.ready
      BY <1>3 DEF IndInv, QuietFence
    <2>2. \A online \in BOOLEAN : ~WorkerSelect(online)
      BY <1>3 DEF WorkerSelect, MaySelect
    <2>3. ~MainTake /\ ~WorkerWrite /\ ~WorkerPublish
      BY <2>1 DEF MainTake, WorkerWrite, WorkerPublish, InFlight
    <2>4. ~InFlight' /\ active' = active
      BY <2>1, <2>2, <2>3, WorkerPhases, ActiveSteps
    <2>5. ~mailbox'.ready
      BY <1>1, <2>1, <2>3, MailboxSteps DEF MainClear
    <2> QED
      BY <2>1, <2>4, <2>5
  <1> QED
    BY <1>2, <1>3, FenceSteps DEF RecoveryLifted
-----------------------------------------------------------------------------
(* What was sent, and what its owner learns of it. *)

\* A dispatch marks the slot of the worker, and no other.
LEMMA DispatchMarks ==
    ASSUME IndInv, WorkerDispatch
    PROVE  /\ InFlight /\ worker.slot \in Slots /\ slots[worker.slot] \in Request
           /\ worker.request.id = slots[worker.slot].id
           /\ \A i \in Slots : slots'[i] = IF i = worker.slot
                                           THEN [slots[i] EXCEPT !.dispatched = TRUE] ELSE slots[i]
           /\ sent' = sent \cup {slots[worker.slot].id}
           /\ worker' = [worker EXCEPT !.at = "sending", !.request.dispatched = TRUE]
  <1>1. InFlight
    BY DEF WorkerDispatch, InFlight
  <1> QED
    BY <1>1, SlotOfWorker DEF WorkerDispatch, MarkDispatched, IndInv, TypeOK

\* Only a dispatch marks a request, and it marks what it sends.
LEMMA DispatchedStep == IndInv /\ [Next]_vars => Dispatched'
  <1> SUFFICES ASSUME IndInv, [Next]_vars PROVE Dispatched'
    OBVIOUS
  <1>1. TypeOK /\ TypeOK' /\ Dispatched /\ IdsFresh
    BY TypeStep DEF IndInv
  <1>2. \A i \in Slots : Occupied(i) => slots[i] \in Request
    BY <1>1 DEF TypeOK, Occupied
  <1>3. \A i \in Slots : slots'[i] # Empty => (slots'[i].dispatched <=> slots'[i].id \in sent')
    <2> SUFFICES ASSUME NEW i \in Slots, slots'[i] # Empty
                 PROVE  slots'[i].dispatched <=> slots'[i].id \in sent'
      OBVIOUS
    <2>1. CASE WorkerDispatch
      <3>1. Occupied(i)
        BY <2>1, DispatchMarks, EmptyIsNoRequest DEF Occupied
      <3>2. CASE i = worker.slot
        BY <1>2, <2>1, <3>1, <3>2, DispatchMarks DEF Request
      <3>3. CASE i # worker.slot
        <4>1. slots[i].id # slots[worker.slot].id
          BY <1>1, <2>1, <3>1, <3>3, DispatchMarks, EmptyIsNoRequest DEF IdsFresh, Occupied
        <4> QED
          BY <1>1, <2>1, <3>1, <3>3, <4>1, DispatchMarks DEF Dispatched
      <3> QED
        BY <3>2, <3>3
    <2>2. CASE ~WorkerDispatch /\ Kept(i)
      BY <1>1, <2>2, SentSteps DEF Kept, Dispatched
    <2>3. CASE ~WorkerDispatch /\ \E kind : Queues(kind)
      <3>0. PICK kind \in NetworkKinds : \E r \in NewRequests(kind) : Enqueue(r)
        BY <2>3, NetworkQueueAssumption DEF Queues, NetworkKinds
      <3>1. PICK r \in NewRequests(kind) : Enqueue(r)
        BY <3>0
      <3>2. r.id = nextId /\ r.dispatched = FALSE
        BY <1>1, NewRequestType
      <3>3. nextId \notin sent
        BY <1>1 DEF IdsFresh, TypeOK
      <3>4. slots'[i] = r \/ slots'[i] = slots[i]
        BY <1>1, <3>1, EnqueueStep
      <3> QED
        BY <1>1, <2>2, <2>3, <3>2, <3>3, <3>4, SentSteps DEF Dispatched, Occupied
    <2> QED
      BY <2>1, <2>2, <2>3, SlotFate
  <1>4. ASSUME NEW i \in Slots, slots'[i] # Empty, slots'[i].dispatched PROVE i \in active'
    <2>1. CASE WorkerDispatch
      <3>1. active' = active /\ active = {worker.slot}
        BY <2>1, DispatchMarks, SlotOfWorker DEF WorkerDispatch
      <3> QED
        BY <1>1, <1>4, <2>1, <3>1, DispatchMarks DEF Dispatched, Occupied
    <2>2. CASE ~WorkerDispatch
      <3>1. Occupied(i) /\ slots[i].dispatched
        <4>1. CASE Kept(i)
          BY <1>4, <2>2, <4>1 DEF Kept
        <4>2. CASE \E kind : Queues(kind)
          <5>0. PICK kind \in NetworkKinds : \E r \in NewRequests(kind) : Enqueue(r)
            BY <4>2, NetworkQueueAssumption DEF Queues, NetworkKinds
          <5>1. PICK r \in NewRequests(kind) : Enqueue(r)
            BY <5>0
          <5>2. ~r.dispatched
            BY <1>1, NewRequestType
          <5> QED
            BY <1>1, <1>4, <5>1, <5>2, EnqueueStep DEF Occupied
        <4> QED
          BY <1>4, <4>1, <4>2, SlotFate
      <3>2. i \in active
        BY <1>1, <3>1 DEF Dispatched
      <3>3. CASE MainTake
        <4>1. slots'[mailbox.slot] = Empty
          BY <1>1, <3>3, ReplySlot DEF MainTake, MainIdle, Freed, TypeOK
        <4> QED
          BY <1>4, <3>2, <3>3, <4>1 DEF MainTake
      <3>4. ASSUME NEW online \in BOOLEAN, WorkerSelect(online) PROVE i \in active'
        BY <3>2, <3>4 DEF WorkerSelect
      <3> QED
        BY <3>2, <3>3, <3>4, ActiveSteps
    <2> QED
      BY <2>1, <2>2
  <1>5. worker'.at \in {"check", "boundary"} => ~worker'.request.dispatched
    <2>0. WorkerType
      BY <1>1, TypeParts
    <2>1. ASSUME NEW online \in BOOLEAN, WorkerSelect(online)
          PROVE  ~worker'.request.dispatched
      <3>1. PICK i \in Slots :
              /\ active = {} /\ Occupied(i)
              /\ worker' = [at |-> "check", slot |-> i, request |-> slots[i], cancelled |-> FALSE]
        BY <2>1, SelectsAlone
      <3>2. ~slots[i].dispatched
        BY <1>1, <3>1 DEF Dispatched
      <3> QED
        BY <3>1, <3>2
    <2>2. CASE WorkerCheck
      BY <1>1, <2>2, WorkerMoves DEF Dispatched
    <2>3. CASE WorkerDispatch \/ WorkerStop \/ WorkerWrite \/ WorkerPublish \/ WorkerHalt
      BY <2>3, WorkerMoves
    <2>4. CASE UNCHANGED worker
      BY <1>1, <2>4 DEF Dispatched
    <2> QED
      BY <2>1, <2>2, <2>3, <2>4, WorkerSteps DEF Worker, WorkerProceeds
  <1> QED
    BY <1>3, <1>4, <1>5 DEF Dispatched, Occupied

\* The flag a callback sees is the one of the dispatch.
LEMMA DispatchedExactStep == IndInv /\ [Next]_vars => DispatchedExact'
  <1> SUFFICES ASSUME IndInv, [Next]_vars, main'.at = "callback"
               PROVE  main'.request.dispatched <=> main'.request.id \in sent'
    BY DEF DispatchedExact
  <1>1. TypeOK /\ MainType
    BY TypeParts DEF IndInv
  <1>2. CASE MainTake
    <2>1. mailbox.ready /\ main.at = "idle" /\ main'.request = slots[mailbox.slot] /\ UNCHANGED sent
      BY <1>2 DEF MainTake, MainIdle, history
    <2>2. mailbox.slot \in Slots /\ Occupied(mailbox.slot)
      BY <2>1, ReplySlot, EmptyIsNoRequest DEF Occupied
    <2> QED
      BY <2>1, <2>2 DEF IndInv, Dispatched
  <1>3. CASE ~MainTake
    <2>1. main.at = "callback" /\ main'.request = main.request
      BY <1>1, <1>3, MainPhases DEF MainClear, Idle
    <2>2. ~WorkerDispatch
      BY <2>1, CallbackAlone DEF AtCallback, WorkerDispatch, InFlight, MainClear
    <2> QED
      BY <2>1, <2>2, SentSteps DEF IndInv, DispatchedExact
  <1> QED
    BY <1>2, <1>3

\* The payload stays the answer to the request it belongs to.
LEMMA PayloadsStep == IndInv /\ [Next]_vars => Payloads'
  <1> SUFFICES ASSUME IndInv, [Next]_vars PROVE Payloads'
    OBVIOUS
  <1>1. WorkerType /\ MailboxType /\ Payloads
    BY TypeParts DEF IndInv
  <1>2. /\ worker'.at \in {"check", "boundary", "sending"} => ~worker'.cancelled
        /\ worker'.at = "discarded" => worker'.cancelled
    <2>1. ASSUME NEW online \in BOOLEAN, WorkerSelect(online)
          PROVE  ~worker'.cancelled /\ worker'.at = "check"
      BY <2>1 DEF WorkerSelect
    <2>2. CASE WorkerCheck
      BY <1>1, <2>2, WorkerMoves DEF Payloads
    <2>3. CASE WorkerDispatch
      BY <1>1, <2>3, WorkerMoves DEF Payloads
    <2>4. CASE WorkerStop \/ WorkerWrite \/ WorkerPublish \/ WorkerHalt
      BY <2>4, WorkerMoves
    <2>5. CASE UNCHANGED worker
      BY <1>1, <2>5 DEF Payloads
    <2> QED
      BY <2>1, <2>2, <2>3, <2>4, <2>5, WorkerSteps DEF Worker, WorkerProceeds
  <1>3. worker'.at = "written" =>
          mailbox'.payload = IF worker'.cancelled THEN NoReply ELSE worker'.request.id
    <2> SUFFICES ASSUME worker'.at = "written"
                 PROVE  mailbox'.payload = IF worker'.cancelled THEN NoReply ELSE worker'.request.id
      OBVIOUS
    <2>1. CASE WorkerWrite
      <3>1. worker'.cancelled = worker.cancelled /\ worker'.request = worker.request
        BY <1>1, <2>1 DEF WorkerWrite, WorkerType
      <3>2. mailbox'.payload = IF worker.at = "sending" THEN worker.request.id ELSE NoReply
        BY <1>1, <2>1 DEF WorkerWrite, MailboxType
      <3>3. worker.at \in {"sending", "discarded"}
        BY <2>1 DEF WorkerWrite
      <3> QED
        BY <1>1, <3>1, <3>2, <3>3 DEF Payloads
    <2>2. CASE UNCHANGED worker
      <3>1. InFlight
        BY <2>2 DEF InFlight
      <3>2. ~MainClear
        BY <3>1 DEF MainClear, IndInv, Phases, AtCallback
      <3>3. ~WorkerWrite /\ ~WorkerPublish
        BY <2>2, WorkerMoves
      <3> QED
        BY <1>1, <2>2, <3>2, <3>3, MailboxSteps DEF Payloads, Payload
    <2>3. ASSUME NEW online \in BOOLEAN, WorkerSelect(online) PROVE FALSE
      BY <2>3 DEF WorkerSelect
    <2>4. CASE WorkerCheck \/ WorkerDispatch \/ WorkerStop \/ WorkerPublish \/ WorkerHalt
      BY <2>4, WorkerMoves
    <2> QED
      BY <2>1, <2>2, <2>3, <2>4, WorkerSteps DEF Worker, WorkerProceeds
  <1>4. ASSUME mailbox'.ready, ~AtCallback', main'.at # "restarted"
        PROVE  mailbox'.payload =
                 IF mailbox'.cancelled THEN NoReply ELSE slots'[mailbox'.slot].id
    <2>1. ~MainTake /\ ~MainClear
      BY <1>1, <1>4 DEF MainTake, MainClear, AtCallback, MailboxType
    <2>2. ~AtCallback /\ main.at # "restarted"
      BY <1>4, <2>1, MainPhases DEF AtCallback
    <2>3. CASE mailbox.ready
      <3>1. /\ UNCHANGED mailbox
            /\ SameButCancelled(slots'[mailbox.slot], slots[mailbox.slot])
            /\ slots[mailbox.slot] # Empty /\ slots'[mailbox.slot] # Empty /\ mailbox.slot \in Slots
        BY <2>1, <2>2, <2>3, ReplyWaits DEF Occupied
      <3>2. slots[mailbox.slot] \in Request /\ slots'[mailbox.slot] \in Request
        BY <3>1, TypeStep DEF IndInv, TypeOK
      <3>3. slots'[mailbox.slot].id = slots[mailbox.slot].id
        BY <3>1, <3>2 DEF SameButCancelled, Request
      <3> QED
        BY <1>1, <2>2, <2>3, <3>1, <3>3 DEF Payloads, Payload
    <2>4. CASE WorkerPublish
      <3>1. /\ InFlight /\ worker.at = "written" /\ UNCHANGED slots
            /\ mailbox'.slot = worker.slot /\ mailbox'.cancelled = worker.cancelled
            /\ mailbox'.payload = mailbox.payload
        BY <1>1, <2>4 DEF WorkerPublish, InFlight, queueVars, MailboxType
      <3> QED
        BY <1>1, <3>1, SlotOfWorker DEF Payloads, Payload
    <2>5. CASE ~mailbox.ready /\ ~WorkerPublish
      BY <1>1, <1>4, <2>1, <2>5, MailboxSteps DEF WorkerWrite, MailboxType
    <2> QED
      BY <2>3, <2>4, <2>5
  <1> QED
    BY <1>2, <1>3, <1>4 DEF Payloads, Payload

\* What a callback reads is the answer to its own request.
LEMMA ReplyBelongsStep == IndInv /\ [Next]_vars => ReplyBelongs'
  <1> SUFFICES ASSUME IndInv, [Next]_vars, AtCallback' PROVE ReplyBelongs'
    BY DEF ReplyBelongs, AtCallback
  <1>1. WorkerType /\ MainType /\ MailboxType
    BY TypeParts DEF IndInv
  <1>2. CASE MainTake
    <2>1. mailbox.ready /\ main.at = "idle" /\ main'.request = slots[mailbox.slot]
          /\ UNCHANGED <<mailbox, worker>>
      BY <1>2 DEF MainTake, MainIdle
    <2>2. mailbox.payload = IF mailbox.cancelled THEN NoReply ELSE slots[mailbox.slot].id
      BY <2>1 DEF IndInv, Payloads, Payload, AtCallback
    <2>3. worker.at \in {"select", "halted"}
      BY <2>1, ReplySlot
    <2> QED
      BY <2>1, <2>2, <2>3 DEF ReplyBelongs
  <1>3. CASE ~MainTake
    <2>1. ~MainClear
      BY <1>1 DEF MainClear, Idle, AtCallback
    <2>2. AtCallback /\ main'.request = main.request
      BY <1>1, <1>3, <2>1, MainPhases DEF AtCallback
    <2>3. UNCHANGED mailbox /\ ~InFlight'
      BY <2>1, <2>2, CallbackAlone
    <2>4. WorkerType'
      BY WorkerStep
    <2>5. worker'.at \in {"select", "halted"}
      BY <2>3, <2>4 DEF InFlight, WorkerType
    <2> QED
      BY <2>2, <2>3, <2>5 DEF IndInv, ReplyBelongs, AtCallback
  <1> QED
    BY <1>2, <1>3
-----------------------------------------------------------------------------
(* Withdrawals. *)

\* The counters of the game, the card and the completion never go back.
LEMMA CountersGrow ==
    ASSUME IndInv, [Next]_vars
    PROVE  /\ generation \in Nat /\ generation' \in Nat /\ generation <= generation'
           /\ tagToken \in Nat /\ tagToken' \in Nat /\ tagToken <= tagToken'
           /\ completionToken \in Nat /\ completionToken' \in Nat
           /\ completionToken <= completionToken'
  <1>1. TypeOK /\ TypeOK'
    BY TypeStep DEF IndInv
  <1>2. /\ generation' \in {generation, generation + 1}
        /\ tagToken' \in {tagToken, tagToken + 1}
        /\ completionToken' \in {completionToken, completionToken + 1}
    BY TokenSteps DEF tokenVars, Invalidate, ForgetTag, ResetWire, RenewCompletion, Settle,
                      RenewToken
  <1> QED
    BY <1>1, <1>2 DEF TypeOK

\* What is dated stays dated, and what is stopped stays stopped.
LEMMA DatedStays ==
    ASSUME NEW r \in Request, NEW g \in Nat, NEW t \in Nat, NEW c \in Nat,
           NEW gg \in Nat, NEW tt \in Nat, NEW cc \in Nat, g <= gg, t <= tt, c <= cc,
           Dated(r, g, t, c)
    PROVE  Dated(r, gg, tt, cc) /\ (Stopped(r, g, t, c) => Stopped(r, gg, tt, cc))
  BY DEF Dated, Stopped, Request

\* An id names one slot.
LEMMA IdNames ==
    ASSUME IndInv, NEW S \in SUBSET Slots, \A j \in S : Occupied(j),
           NEW i \in Slots, Occupied(i), slots[i].id \in Ids(S)
    PROVE  i \in S
  BY DEF IndInv, IdsFresh, Ids

\* The requests a step keeps as they are, unless it withdraws them.
LEMMA WithdrawalKept ==
    ASSUME IndInv, [Next]_vars, NEW i \in Slots, Occupied(i), slots'[i] = slots[i],
           slots[i].id \in withdrawn' => slots[i].id \in withdrawn
    PROVE  /\ Dated(slots'[i], generation', tagToken', completionToken')
           /\ ~slots'[i].dispatched /\ slots'[i].id \in withdrawn' =>
                  Stopped(slots'[i], generation', tagToken', completionToken')
  <1>1. slots[i] \in Request
    BY DEF IndInv, TypeOK, Occupied
  <1>2. /\ Dated(slots[i], generation, tagToken, completionToken)
        /\ ~slots[i].dispatched /\ slots[i].id \in withdrawn =>
               Stopped(slots[i], generation, tagToken, completionToken)
    BY DEF IndInv, Withdrawals
  <1> QED
    BY <1>1, <1>2, CountersGrow, DatedStays

\* The two facts about one slot after a step.
WithdrawalFine(i) ==
    slots'[i] # Empty =>
        /\ Dated(slots'[i], generation', tagToken', completionToken')
        /\ ~slots'[i].dispatched /\ slots'[i].id \in withdrawn' =>
               Stopped(slots'[i], generation', tagToken', completionToken')

\* A request that is marked cancelled will be stopped.
LEMMA CancelledFine ==
    ASSUME IndInv, [Next]_vars, NEW i \in Slots, Occupied(i),
           slots'[i] = [slots[i] EXCEPT !.cancelled = TRUE]
    PROVE  WithdrawalFine(i)
  <1> DEFINE r == slots[i]
  <1>1. r \in Request
    BY DEF IndInv, TypeOK, Occupied
  <1>2. Dated(r, generation, tagToken, completionToken)
    BY DEF IndInv, Withdrawals
  <1>3. Dated(r, generation', tagToken', completionToken')
    BY <1>1, <1>2, CountersGrow, DatedStays
  <1>4. /\ slots'[i].cancelled = TRUE /\ slots'[i].generation = r.generation
        /\ slots'[i].kind = r.kind /\ slots'[i].token = r.token
    BY <1>1 DEF Request
  <1> QED
    BY <1>3, <1>4 DEF WithdrawalFine, Dated, Stopped

\* A new request has an id that nobody withdrew.
LEMMA NewFine ==
    ASSUME IndInv, [Next]_vars, NEW kind, Queues(kind), UNCHANGED <<tokenVars, withdrawn>>
    PROVE  \A i \in Slots : WithdrawalFine(i)
  <1>1. TypeOK /\ IdsFresh
    BY DEF IndInv
  <1>2. kind \in NetworkKinds
    BY NetworkQueueAssumption DEF Queues, NetworkKinds
  <1>3. PICK r \in NewRequests(kind) : Enqueue(r)
    BY DEF Queues
  <1>4. PICK k \in Slots : \A j \in Slots : slots'[j] = IF j = k THEN r ELSE slots[j]
    BY <1>1, <1>3, EnqueueStep
  <1>5. /\ r.id = nextId /\ r.kind = kind
        /\ r.generation \in {0, generation}
        /\ kind \in {"Wire", "Completion"} => r.generation = generation
        /\ kind = "Tag" => r.token = tagToken
        /\ kind \in {"Completion", "Verify"} => r.token = completionToken
    BY <1>1, <1>2, NewRequestType
  <1>6. /\ nextId \in Nat /\ generation \in Nat \ {0} /\ tagToken \in Nat
        /\ completionToken \in Nat
        /\ UNCHANGED <<generation, tagToken, completionToken, withdrawn>>
    BY <1>1 DEF TypeOK, tokenVars
  <1>7. Dated(r, generation', tagToken', completionToken')
    BY <1>5, <1>6 DEF Dated
  <1>8. r.id \notin withdrawn'
    BY <1>1, <1>5, <1>6 DEF IdsFresh
  <1> QED
    BY <1>4, <1>6, <1>7, <1>8, WithdrawalKept DEF WithdrawalFine, Occupied

\* What each withdrawal withdraws will be stopped.
LEMMA InvalidateFine ==
    ASSUME IndInv, [Next]_vars, Invalidate
    PROVE  \A i \in Slots : WithdrawalFine(i) /\ (Occupied(i) => slots[i].generation # generation')
  <1> SUFFICES ASSUME NEW i \in Slots, Occupied(i)
               PROVE  WithdrawalFine(i) /\ slots[i].generation # generation'
    BY DEF Invalidate, queueVars, WithdrawalFine, Occupied
  <1>1. slots' = slots /\ slots[i] \in Request
    BY DEF Invalidate, queueVars, IndInv, TypeOK, Occupied
  <1>2. slots[i].generation <= generation /\ generation \in Nat /\ generation' = generation + 1
    BY DEF IndInv, Withdrawals, Dated, Invalidate, TypeOK
  <1>3. slots[i].generation # generation'
    BY <1>1, <1>2 DEF Request
  <1> DEFINE S == {j \in Unsent : slots[j].generation # 0}
  <1>4. withdrawn' = withdrawn \cup Ids(S) /\ S \subseteq Slots /\ \A j \in S : Occupied(j)
    BY DEF Invalidate, Unsent
  <1>5. CASE i \in S
    <2>1. Dated(slots[i], generation, tagToken, completionToken)
      BY DEF IndInv, Withdrawals
    <2>2. Dated(slots'[i], generation', tagToken', completionToken')
      BY <1>1, <2>1, CountersGrow, DatedStays
    <2> QED
      BY <1>1, <1>3, <1>5, <2>2 DEF WithdrawalFine, Stopped
  <1>6. CASE i \notin S
    <2>1. slots[i].id \notin Ids(S)
      BY <1>4, <1>6, IdNames
    <2> QED
      BY <1>1, <1>3, <1>4, <2>1, WithdrawalKept DEF WithdrawalFine
  <1> QED
    BY <1>5, <1>6

\* A card lookup that was taken off the queue, or that the worker holds.
LEMMA ForgetTagFine ==
    ASSUME IndInv, [Next]_vars, ForgetTag
    PROVE  \A i \in Slots : WithdrawalFine(i) /\ slots'[i] \in {Empty, slots[i]}
  <1> SUFFICES ASSUME NEW i \in Slots
               PROVE  WithdrawalFine(i) /\ slots'[i] \in {Empty, slots[i]}
    OBVIOUS
  <1>1. slots'[i] \in {Empty, slots[i]}
    BY DEF ForgetTag
  <1> SUFFICES ASSUME slots'[i] = slots[i], Occupied(i) PROVE WithdrawalFine(i)
    BY <1>1 DEF WithdrawalFine, Occupied
  <1>2. slots[i] \in Request
    BY DEF IndInv, TypeOK, Occupied
  <1> DEFINE S == {j \in Unsent : slots[j].kind = "Tag"}
  <1>3. withdrawn' = withdrawn \cup Ids(S) /\ S \subseteq Slots /\ \A j \in S : Occupied(j)
    BY DEF ForgetTag, Unsent
  <1>4. CASE i \in S
    <2>1. Dated(slots[i], generation, tagToken, completionToken)
      BY DEF IndInv, Withdrawals
    <2>2. Dated(slots'[i], generation', tagToken', completionToken')
      BY <1>2, <2>1, CountersGrow, DatedStays
    <2>3. slots[i].token <= tagToken /\ tagToken \in Nat /\ tagToken' = tagToken + 1
      BY <1>4, <2>1 DEF Dated, ForgetTag, IndInv, TypeOK
    <2>4. slots[i].token # tagToken'
      BY <1>2, <2>3 DEF Request
    <2> QED
      BY <1>4, <2>2, <2>4 DEF WithdrawalFine, Stopped
  <1>5. CASE i \notin S
    <2>1. slots[i].id \notin Ids(S)
      BY <1>3, <1>5, IdNames
    <2> QED
      BY <1>3, <2>1, WithdrawalKept DEF WithdrawalFine
  <1> QED
    BY <1>4, <1>5

\* The reset of the wires withdraws only what the reset of the game stopped already.
LEMMA ResetWireFine ==
    ASSUME IndInv, [Next]_vars, ResetWire
    PROVE  \A i \in Slots : WithdrawalFine(i)
  <1> SUFFICES ASSUME NEW i \in Slots, Occupied(i) PROVE WithdrawalFine(i)
    BY DEF ResetWire, queueVars, WithdrawalFine, Occupied
  <1>1. slots' = slots /\ generation' = generation /\ slots[i] \in Request
    BY DEF ResetWire, queueVars, IndInv, TypeOK, Occupied
  <1>2. Dated(slots[i], generation, tagToken, completionToken) /\ slots[i].generation # generation
    BY DEF IndInv, Withdrawals, ResetWire
  <1> DEFINE S == {j \in Unsent : slots[j].kind = "Wire"
                                  \/ (slots[j].kind = "Completion" /\ slots[j].wire # 0)}
  <1>3. withdrawn' = withdrawn \cup Ids(S) /\ S \subseteq Slots /\ \A j \in S : Occupied(j)
    BY DEF ResetWire, Unsent
  <1>4. CASE i \in S
    <2>1. slots[i].generation # 0
      BY <1>2, <1>4 DEF Dated
    <2>2. Dated(slots'[i], generation', tagToken', completionToken')
      BY <1>1, <1>2, CountersGrow, DatedStays
    <2> QED
      BY <1>1, <1>2, <2>1, <2>2 DEF WithdrawalFine, Stopped
  <1>5. CASE i \notin S
    <2>1. slots[i].id \notin Ids(S)
      BY <1>3, <1>5, IdNames
    <2> QED
      BY <1>1, <1>3, <2>1, WithdrawalKept DEF WithdrawalFine
  <1> QED
    BY <1>4, <1>5

\* A renewed completion token stops what carries an older one.
LEMMA RenewFine ==
    ASSUME IndInv, [Next]_vars, NEW cancel \in BOOLEAN, RenewCompletion(cancel) \/ Settle(cancel)
    PROVE  \A i \in Slots : WithdrawalFine(i)
  <1> SUFFICES ASSUME NEW i \in Slots, slots'[i] # Empty PROVE WithdrawalFine(i)
    BY DEF WithdrawalFine
  <1>1. slots'[i] \in {slots[i], [slots[i] EXCEPT !.cancelled = TRUE]} /\ Occupied(i)
    BY DEF RenewCompletion, Settle, RenewToken, Occupied
  <1>2. slots[i] \in Request
    BY <1>1 DEF IndInv, TypeOK, Occupied
  <1>3. CASE slots'[i] = [slots[i] EXCEPT !.cancelled = TRUE]
    BY <1>1, <1>3, CancelledFine
  <1> DEFINE S == {j \in Unsent : slots[j].kind \in {"Completion", "Verify"}}
  <1>4. withdrawn' = withdrawn \cup Ids(S) /\ S \subseteq Slots /\ \A j \in S : Occupied(j)
    BY DEF RenewCompletion, Settle, RenewToken, Unsent
  <1>5. CASE slots'[i] = slots[i] /\ i \in S
    <2>1. Dated(slots[i], generation, tagToken, completionToken)
      BY <1>1 DEF IndInv, Withdrawals
    <2>2. Dated(slots'[i], generation', tagToken', completionToken')
      BY <1>2, <1>5, <2>1, CountersGrow, DatedStays
    <2>3. /\ slots[i].token <= completionToken /\ completionToken \in Nat
          /\ completionToken' = completionToken + 1
      BY <1>5, <2>1 DEF Dated, RenewCompletion, Settle, RenewToken, IndInv, TypeOK
    <2>4. slots[i].token # completionToken'
      BY <1>2, <2>3 DEF Request
    <2> QED
      BY <1>5, <2>2, <2>4 DEF WithdrawalFine, Stopped
  <1>6. CASE slots'[i] = slots[i] /\ i \notin S
    <2>1. slots[i].id \notin Ids(S)
      BY <1>1, <1>4, <1>6, IdNames
    <2> QED
      BY <1>1, <1>4, <1>6, <2>1, WithdrawalKept DEF WithdrawalFine
  <1> QED
    BY <1>1, <1>3, <1>5, <1>6

\* Maintenance and the withdrawal of a resend cancel what they withdraw.
LEMMA CancelFine ==
    ASSUME IndInv, [Next]_vars, RequestMaintenance \/ WithdrawResend
    PROVE  \A i \in Slots : WithdrawalFine(i)
  <1>1. \E S \in SUBSET Slots :
          /\ \A j \in S : Occupied(j)
          /\ withdrawn' = withdrawn \cup Ids(S)
          /\ \A j \in Slots : slots'[j] = IF j \in S THEN [slots[j] EXCEPT !.cancelled = TRUE]
                                          ELSE slots[j]
    <2>1. CASE RequestMaintenance
      <3> DEFINE S == {i \in Slots : Queued(i)}
      <3>1. /\ \A j \in S : Occupied(j)
            /\ withdrawn' = withdrawn \cup Ids(S)
            /\ \A j \in Slots : slots'[j] = IF j \in S THEN [slots[j] EXCEPT !.cancelled = TRUE]
                                            ELSE slots[j]
        BY <2>1 DEF RequestMaintenance, Queued
      <3> QED
        BY <3>1
    <2>2. CASE WithdrawResend
      <3>1. PICK k \in Slots : /\ Queued(k) /\ withdrawn' = withdrawn \cup {slots[k].id}
                               /\ slots' = [slots EXCEPT ![k].cancelled = TRUE]
        BY <2>2 DEF WithdrawResend
      <3>2. Ids({k}) = {slots[k].id}
        BY DEF Ids
      <3>3. \A j \in Slots : slots'[j] = IF j \in {k} THEN [slots[j] EXCEPT !.cancelled = TRUE]
                                         ELSE slots[j]
        BY <3>1 DEF IndInv, TypeOK
      <3> QED
        BY <3>1, <3>2, <3>3 DEF Queued
    <2> QED
      BY <2>1, <2>2
  <1>2. PICK S \in SUBSET Slots :
          /\ \A j \in S : Occupied(j)
          /\ withdrawn' = withdrawn \cup Ids(S)
          /\ \A j \in Slots : slots'[j] = IF j \in S THEN [slots[j] EXCEPT !.cancelled = TRUE]
                                          ELSE slots[j]
    BY <1>1
  <1> SUFFICES ASSUME NEW i \in Slots, slots'[i] # Empty PROVE WithdrawalFine(i)
    BY DEF WithdrawalFine
  <1>3. CASE i \in S
    BY <1>2, <1>3, CancelledFine
  <1>4. CASE i \notin S
    <2>1. Occupied(i) /\ slots'[i] = slots[i]
      BY <1>2, <1>4 DEF Occupied
    <2>2. slots[i].id \notin Ids(S)
      BY <1>2, <1>4, <2>1, IdNames
    <2> QED
      BY <1>2, <2>1, <2>2, WithdrawalKept DEF WithdrawalFine
  <1> QED
    BY <1>3, <1>4

\* A replaced request is of the present game, and no longer withdrawn unless it
\* was cancelled.
LEMMA ReplaceFine ==
    ASSUME IndInv, [Next]_vars, NEW mutation \in BOOLEAN, ReplaceQueued(mutation)
    PROVE  \A i \in Slots : WithdrawalFine(i)
  <1>1. PICK k \in Slots :
          /\ Occupied(k) /\ slots[k].kind = "Wire"
          /\ slots' = [slots EXCEPT ![k].generation = generation, ![k].token = wireGeneration,
                                    ![k].mutation = mutation]
          /\ withdrawn' = IF slots[k].cancelled THEN withdrawn ELSE withdrawn \ {slots[k].id}
    BY DEF ReplaceQueued, Replaceable, Queued
  <1>2. slots[k] \in Request /\ TypeOK
    BY <1>1 DEF IndInv, TypeOK, Occupied
  <1>3. /\ slots'[k].kind = "Wire" /\ slots'[k].generation = generation
        /\ slots'[k].id = slots[k].id /\ slots'[k].cancelled = slots[k].cancelled
    BY <1>1, <1>2 DEF TypeOK, Request
  <1>4. \A j \in Slots \ {k} : slots'[j] = slots[j]
    BY <1>1, <1>2 DEF TypeOK
  <1>5. generation \in Nat \ {0} /\ generation' = generation
    BY <1>2 DEF ReplaceQueued, tokenVars, TypeOK
  <1>6. WithdrawalFine(k)
    BY <1>1, <1>3, <1>5 DEF WithdrawalFine, Dated, Stopped
  <1>7. ASSUME NEW j \in Slots \ {k} PROVE WithdrawalFine(j)
    BY <1>1, <1>4, WithdrawalKept DEF WithdrawalFine, Occupied
  <1> QED
    BY <1>6, <1>7

\* Taking a request off the queue or dispatching it withdraws nothing.
LEMMA TakeFine ==
    ASSUME IndInv, [Next]_vars, MainTake \/ WorkerDispatch
    PROVE  \A i \in Slots : WithdrawalFine(i)
  <1> SUFFICES ASSUME NEW i \in Slots, slots'[i] # Empty PROVE WithdrawalFine(i)
    BY DEF WithdrawalFine
  <1>1. UNCHANGED <<withdrawn, generation, tagToken, completionToken>>
    BY DEF MainTake, WorkerDispatch, history, tokenVars
  <1>2. CASE slots'[i] = slots[i]
    BY <1>1, <1>2, WithdrawalKept DEF WithdrawalFine, Occupied
  <1>3. CASE MainTake
    BY <1>2, <1>3, ReplySlot DEF MainTake, MainIdle, Freed, IndInv, TypeOK
  <1>4. CASE WorkerDispatch /\ i = worker.slot
    <2>1. slots[i] \in Request /\ slots'[i] = [slots[i] EXCEPT !.dispatched = TRUE]
      BY <1>4, DispatchMarks
    <2>2. Dated(slots[i], generation, tagToken, completionToken)
      BY <2>1, EmptyIsNoRequest DEF IndInv, Withdrawals, Occupied
    <2> QED
      BY <1>1, <2>1, <2>2 DEF WithdrawalFine, Dated, Request
  <1>5. CASE WorkerDispatch /\ i # worker.slot
    BY <1>2, <1>5, DispatchMarks
  <1> QED
    BY <1>3, <1>4, <1>5

\* In the middle of a withdrawal the main task does nothing else.
LEMMA TodoSteps ==
    ASSUME IndInv, [Next]_vars, main'.todo # {}
    PROVE  \/ NewGame \/ NewCard \/ RequestMaintenance
           \/ Invalidate \/ ForgetTag \/ ResetWire
           \/ /\ main'.todo = main.todo /\ UNCHANGED tokenVars
              /\ UNCHANGED slots \/ WorkerDispatch
  <1>1. MainType /\ Phases
    BY TypeParts DEF IndInv
  <1>2. CASE UNCHANGED main
    <2>1. ~MainTake /\ ~WithdrawResend /\ ~PollCallback
      BY <1>1, <1>2 DEF MainTake, WithdrawResend, MainIdle, PollCallback, Phases
    <2>2. \A kind : ~Submit(kind)
      BY <1>1, <1>2 DEF Submit, MainRuns, Phases
    <2>3. \A flag \in BOOLEAN : ~ReplaceQueued(flag) /\ ~RenewCompletion(flag) /\ ~Settle(flag)
      BY <1>2 DEF ReplaceQueued, RenewCompletion, Settle, RenewToken, MainRuns
    <2>4. \A online \in BOOLEAN : WorkerSelect(online) => UNCHANGED slots
      BY DEF WorkerSelect
    <2> QED
      BY <1>2, <2>1, <2>2, <2>3, <2>4, QueueSteps, TokenSteps
  <1>3. CASE MainTake \/ MainClear \/ OtaStart \/ OtaReturn \/ OtaRestart \/ RecoveryFence
             \/ RecoveryLifted \/ RecoveryRestart \/ ServerRestart \/ PollCallback
             \/ RefreshCallback \/ OtherCallback
    <2>1. main'.todo = {}
      BY <1>1, <1>3 DEF MainTake, MainClear, OtaStart, OtaReturn, OtaRestart, RecoveryFence,
         RecoveryLifted, RecoveryRestart, ServerRestart, PollCallback, RefreshCallback,
         OtherCallback, Handled, MainIdle, Idle, MainType, Phases
    <2> QED
      BY <2>1
  <1>4. CASE WatchdogReset
    BY <1>1, <1>4 DEF WatchdogReset, MainType, queueVars
  <1> QED
    BY <1>2, <1>3, <1>4, MainSteps

\* Whatever was withdrawn will be stopped, after every step.
LEMMA WithdrawalsStep == IndInv /\ [Next]_vars => Withdrawals'
  <1> SUFFICES ASSUME IndInv, [Next]_vars PROVE Withdrawals'
    OBVIOUS
  <1>1. TypeOK /\ MainType
    BY TypeParts DEF IndInv
  <1>2. \A i \in Slots : WithdrawalFine(i)
    <2>1. CASE UNCHANGED slots /\ withdrawn' \subseteq withdrawn
      BY <2>1, WithdrawalKept DEF WithdrawalFine, Occupied
    <2>2. ASSUME NEW kind, Queues(kind), UNCHANGED <<tokenVars, withdrawn>>
          PROVE  \A i \in Slots : WithdrawalFine(i)
      BY <2>2, NewFine
    <2>3. CASE \/ Invalidate \/ ForgetTag \/ ResetWire
      BY <2>3, InvalidateFine, ForgetTagFine, ResetWireFine
    <2>4. ASSUME NEW flag \in BOOLEAN, ReplaceQueued(flag) \/ RenewCompletion(flag) \/ Settle(flag)
          PROVE  \A i \in Slots : WithdrawalFine(i)
      BY <2>4, ReplaceFine, RenewFine
    <2>5. CASE RequestMaintenance \/ WithdrawResend
      BY <2>5, CancelFine
    <2>6. CASE MainTake \/ WorkerDispatch
      BY <2>6, TakeFine
    <2>7. CASE PollCallback
      <3>1. UNCHANGED slots \/ Queues("Refresh")
        BY <2>7 DEF PollCallback, Queues
      <3> QED
        BY <2>1, <2>2, <2>7, <3>1 DEF PollCallback
    <2>8. ASSUME NEW kind \in Kinds, Submit(kind) PROVE Queues(kind) /\ UNCHANGED <<tokenVars, withdrawn>>
      BY <2>8 DEF Submit, Queues
    <2>9. ASSUME NEW online \in BOOLEAN, WorkerSelect(online) PROVE UNCHANGED <<slots, withdrawn>>
      BY <2>9 DEF WorkerSelect
    <2> QED
      BY <2>1, <2>2, <2>3, <2>4, <2>5, <2>6, <2>7, <2>8, <2>9, QueueSteps, WithdrawalSteps
  <1>3. "resetWire" \in main'.todo /\ "invalidate" \notin main'.todo =>
          \A i \in Slots : slots'[i] # Empty => slots'[i].generation # generation'
    <2> SUFFICES ASSUME "resetWire" \in main'.todo, "invalidate" \notin main'.todo,
                        NEW i \in Slots, slots'[i] # Empty
                 PROVE  slots'[i].generation # generation'
      OBVIOUS
    <2>1. CASE NewGame \/ NewCard \/ RequestMaintenance
      BY <1>1, <2>1 DEF NewGame, NewCard, RequestMaintenance, Begin, MainType
    <2>2. CASE Invalidate
      BY <2>2, InvalidateFine DEF Invalidate, queueVars, Occupied
    <2>3. CASE ForgetTag
      BY <1>1, <2>3 DEF ForgetTag, Step, MainType, IndInv, Withdrawals, Occupied
    <2>4. CASE ResetWire
      BY <1>1, <2>4 DEF ResetWire, Step, MainType
    <2>5. CASE main'.todo = main.todo /\ UNCHANGED <<slots, tokenVars>>
      BY <2>5 DEF tokenVars, IndInv, Withdrawals, Occupied
    <2>6. CASE main'.todo = main.todo /\ UNCHANGED tokenVars /\ WorkerDispatch
      <3>1. slots[i] # Empty /\ slots'[i].generation = slots[i].generation
        <4>1. CASE i = worker.slot
          <5>1. slots[i] \in Request /\ slots'[i] = [slots[i] EXCEPT !.dispatched = TRUE]
            BY <2>6, <4>1, DispatchMarks
          <5> QED
            BY <5>1, EmptyIsNoRequest DEF Request
        <4>2. CASE i # worker.slot
          BY <2>6, <4>2, DispatchMarks
        <4> QED
          BY <4>1, <4>2
      <3> QED
        BY <2>6, <3>1 DEF tokenVars, IndInv, Withdrawals, Occupied
    <2> QED
      BY <2>1, <2>2, <2>3, <2>4, <2>5, <2>6, TodoSteps
  <1> QED
    BY <1>2, <1>3 DEF Withdrawals, WithdrawalFine, Occupied

\* A withdrawn request never reaches the dispatch.
LEMMA WithdrawnStep == IndInv /\ [Next]_vars => WithdrawnNeverSent'
  <1> SUFFICES ASSUME IndInv, [Next]_vars PROVE WithdrawnNeverSent'
    OBVIOUS
  <1>1. TypeOK /\ Dispatched /\ WithdrawnNeverSent
    BY DEF IndInv
  <1>2. CASE WorkerDispatch
    <2>1. UNCHANGED withdrawn
      BY <1>2 DEF WorkerDispatch
    <2>2. /\ Occupied(worker.slot) /\ worker.slot \in Slots
          /\ sent' = sent \cup {slots[worker.slot].id}
          /\ worker.at = "boundary" /\ InFlight
      BY <1>2, DispatchMarks, EmptyIsNoRequest DEF WorkerDispatch, Occupied
    <2>3. ~slots[worker.slot].dispatched
      BY <1>1, <2>2, SlotOfWorker DEF Dispatched
    <2>4. ~Stopped(slots[worker.slot], generation, tagToken, completionToken)
      BY <1>2, <2>2, SlotOfWorker DEF WorkerDispatch, StopAtBoundary, Stopped
    <2>5. slots[worker.slot].id \notin withdrawn
      BY <2>2, <2>3, <2>4 DEF IndInv, Withdrawals
    <2> QED
      BY <1>1, <2>1, <2>2, <2>5 DEF WithdrawnNeverSent
  <1>3. CASE UNCHANGED sent /\ withdrawn' \subseteq withdrawn
    BY <1>1, <1>3 DEF WithdrawnNeverSent
  <1>4. ASSUME NEW S \in SUBSET Slots, \A i \in S : Occupied(i) /\ ~slots[i].dispatched,
               UNCHANGED sent, withdrawn' = withdrawn \cup Ids(S)
        PROVE  WithdrawnNeverSent'
    <2>1. Ids(S) \cap sent = {}
      BY <1>1, <1>4 DEF Dispatched, Ids
    <2> QED
      BY <1>1, <1>4, <2>1 DEF WithdrawnNeverSent
  <1>5. \A i \in Slots : Queued(i) => Occupied(i) /\ ~slots[i].dispatched
    BY <1>1 DEF Dispatched, Queued
  <1>6. \A i \in Unsent : i \in Slots /\ Occupied(i) /\ ~slots[i].dispatched
    BY DEF Unsent
  <1> QED
    BY <1>2, <1>3, <1>4, <1>5, <1>6, WithdrawnSteps, SentSteps
-----------------------------------------------------------------------------
(* Nobody is forgotten. *)

\* A request in a slot, or in the hands of the callback, that its owner waits for.
Waits(waiter, i) == Occupied(i) /\ Waiter(slots[i]) = waiter /\ Owns(slots[i])
Returns(waiter) ==
    main.at = "callback" /\ Waiter(main.request) = waiter /\ Owns(main.request)

\* A request on its way is in a slot or in the hands of the callback.
LEMMA OnItsWayParts ==
    ASSUME NEW waiter
    PROVE  /\ OnItsWay(waiter) <=> (\E i \in Slots : Waits(waiter, i)) \/ Returns(waiter)
           /\ OnItsWay(waiter)' <=> (\E i \in Slots : Waits(waiter, i)') \/ Returns(waiter)'
  BY DEF OnItsWay, Waits, Returns

\* The steps that change who waits.
LEMMA PendingSteps ==
    ASSUME [Next]_vars
    PROVE  \/ UNCHANGED <<pending, awaitingRefresh>>
           \/ \E kind \in Kinds : Submit(kind)
           \/ PollCallback \/ RefreshCallback \/ OtherCallback
           \/ ForgetTag /\ UNCHANGED awaitingRefresh
           \/ /\ \E cancel \in BOOLEAN : RenewCompletion(cancel) \/ Settle(cancel)
              /\ UNCHANGED awaitingRefresh
  BY DEF Next, vars, queueVars, tokenVars, flagVars, history, Worker, WorkerProceeds,
         WorkerSelect, WorkerCheck, WorkerDispatch, WorkerStop, WorkerWrite, WorkerPublish,
         WorkerHalt, ReplaceQueued, NewGame, NewCard, RequestMaintenance, Withdraw, Invalidate,
         ForgetTag, ResetWire, RenewCompletion, Settle, RenewToken, WithdrawResend, Deliver,
         MainTake, MainClear, OtaStart, OtaReturn, OtaRestart, MaintenanceAborted,
         RecoveryFence, RecoveryLifted, RecoveryRestart, ServerRestart, WatchdogReset,
         Restarted, Grow

\* A request that keeps its kind, token and generation keeps its owner, unless a
\* token was renewed that the owner looks at.
LEMMA WaitsStays ==
    ASSUME NEW waiter, NEW i \in Slots, Waits(waiter, i), slots'[i] # Empty,
           slots'[i].kind = slots[i].kind, slots'[i].token = slots[i].token,
           slots'[i].generation = slots[i].generation,
           waiter = "Tag" => UNCHANGED tagToken,
           waiter \in Abandoned => UNCHANGED completionToken
    PROVE  Waits(waiter, i)'
  BY DEF Waits, Occupied, Waiter, Owns, Abandoned, Probe

\* No step but its delivery takes a request from the owner that waits for it, and
\* none but the end of its transaction a verify.
LEMMA WaitsKept ==
    ASSUME IndInv, [Next]_vars, NEW waiter \in pending' \cup {"Refresh"}, NEW i \in Slots,
           Waits(waiter, i), ~MainTake,
           waiter = "Verify" => \A cancel \in BOOLEAN : ~Settle(cancel)
    PROVE  Waits(waiter, i)'
  <1>1. TypeOK /\ Occupied(i)
    BY DEF IndInv, Waits
  <1>2. slots[i] \in Request
    BY <1>1 DEF TypeOK, Occupied
  <1>3. CASE slots'[i] = slots[i] /\ UNCHANGED <<tagToken, completionToken>>
    BY <1>1, <1>3, WaitsStays DEF Occupied
  <1>4. ASSUME slots'[i] = [slots[i] EXCEPT !.cancelled = TRUE]
        PROVE  /\ slots'[i].kind = slots[i].kind /\ slots'[i].token = slots[i].token
               /\ slots'[i].generation = slots[i].generation /\ slots'[i] # Empty
    <2>1. /\ slots'[i].kind = slots[i].kind /\ slots'[i].token = slots[i].token
          /\ slots'[i].generation = slots[i].generation
      BY <1>2, <1>4 DEF Request
    <2>2. "none" \notin NetworkKinds
      BY DEF NetworkKinds
    <2>3. slots'[i] # Empty
      BY <1>2, <2>1, <2>2 DEF Request, Empty
    <2> QED
      BY <2>1, <2>3
  <1>5. ASSUME NEW kind, Queues(kind), UNCHANGED tokenVars PROVE Waits(waiter, i)'
    <2>1. PICK r \in NewRequests(kind) : Enqueue(r)
      BY <1>5 DEF Queues
    <2>2. slots'[i] = slots[i]
      BY <1>1, <2>1, EnqueueStep
    <2> QED
      BY <1>3, <1>5, <2>2 DEF tokenVars
  <1>6. CASE WorkerDispatch
    <2>1. CASE i = worker.slot
      <3>1. slots'[i] = [slots[i] EXCEPT !.dispatched = TRUE]
        BY <1>6, <2>1, DispatchMarks
      <3>2. /\ slots'[i].kind = slots[i].kind /\ slots'[i].token = slots[i].token
            /\ slots'[i].generation = slots[i].generation
        BY <1>2, <3>1 DEF Request
      <3>3. "none" \notin NetworkKinds
        BY DEF NetworkKinds
      <3>4. slots'[i] # Empty
        BY <1>2, <3>2, <3>3 DEF Request, Empty
      <3> QED
        BY <1>6, <3>2, <3>4, WaitsStays DEF WorkerDispatch, tokenVars
    <2>2. CASE i # worker.slot
      BY <1>3, <1>6, <2>2, DispatchMarks DEF WorkerDispatch, tokenVars
    <2> QED
      BY <2>1, <2>2
  <1>7. ASSUME NEW mutation \in BOOLEAN, ReplaceQueued(mutation) PROVE Waits(waiter, i)'
    <2>1. PICK k \in Slots :
            /\ Occupied(k) /\ slots[k].kind = "Wire"
            /\ slots' = [slots EXCEPT ![k].generation = generation, ![k].token = wireGeneration,
                                      ![k].mutation = mutation]
      BY <1>7 DEF ReplaceQueued, Replaceable, Queued
    <2>2. CASE i = k
      <3>1. slots'[i].kind = "Wire" /\ slots[i].kind = "Wire"
        BY <1>1, <1>2, <2>1, <2>2 DEF TypeOK, Request
      <3>2. slots'[i] # Empty
        BY <3>1 DEF Empty
      <3>3. waiter = "Wire"
        BY <3>1 DEF Waits, Waiter
      <3> QED
        BY <3>1, <3>2, <3>3 DEF Waits, Occupied, Waiter, Owns
    <2>3. CASE i # k
      <3>1. slots'[i] = slots[i]
        BY <1>1, <2>1, <2>3 DEF TypeOK
      <3> QED
        BY <1>3, <1>7, <3>1 DEF ReplaceQueued, tokenVars
    <2> QED
      BY <2>2, <2>3
  <1>8. CASE RequestMaintenance \/ WithdrawResend
    <2>1. slots'[i] \in {slots[i], [slots[i] EXCEPT !.cancelled = TRUE]}
      BY <1>1, <1>8 DEF RequestMaintenance, WithdrawResend, TypeOK
    <2>2. UNCHANGED <<tagToken, completionToken>>
      BY <1>8 DEF RequestMaintenance, WithdrawResend, tokenVars
    <2> QED
      BY <1>3, <1>4, <2>1, <2>2, WaitsStays
  <1>9. CASE ForgetTag
    <2>1. waiter # "Tag"
      BY <1>9 DEF ForgetTag
    <2>2. slots[i].kind # "Tag"
      BY <2>1 DEF Waits, Waiter
    <2>3. slots'[i] = slots[i] /\ UNCHANGED completionToken
      BY <1>9, <2>2 DEF ForgetTag, Forgotten
    <2> QED
      BY <1>1, <2>1, <2>3, WaitsStays DEF Occupied
  <1>10. ASSUME NEW cancel \in BOOLEAN, RenewCompletion(cancel) \/ Settle(cancel) PROVE Waits(waiter, i)'
    <2>1. waiter \notin Abandoned
      BY <1>10 DEF RenewCompletion, Settle, Abandoned
    <2>2. slots'[i] \in {slots[i], [slots[i] EXCEPT !.cancelled = TRUE]} /\ UNCHANGED tagToken
      BY <1>10 DEF RenewCompletion, Settle, RenewToken
    <2> QED
      BY <1>1, <1>4, <2>1, <2>2, WaitsStays DEF Occupied
  <1>11. CASE PollCallback
    <2>1. UNCHANGED slots \/ Queues("Refresh")
      BY <1>11 DEF PollCallback, Queues
    <2> QED
      BY <1>3, <1>5, <1>11, <2>1 DEF PollCallback, tokenVars
  <1>12. ASSUME NEW kind \in Kinds, Submit(kind) PROVE Queues(kind) /\ UNCHANGED tokenVars
    BY <1>12 DEF Submit, Queues
  <1>13. ASSUME NEW online \in BOOLEAN, WorkerSelect(online) PROVE UNCHANGED <<slots, tokenVars>>
    BY <1>13 DEF WorkerSelect
  <1>14. CASE Invalidate \/ ResetWire
    BY <1>3, <1>14 DEF Invalidate, ResetWire, queueVars
  <1> QED
    BY <1>3, <1>5, <1>6, <1>7, <1>8, <1>9, <1>10, <1>11, <1>12, <1>13, <1>14, QueueSteps,
       TokenSteps DEF tokenVars

\* Until its callback has run, a request that was taken keeps its owner.
LEMMA ReturnsKept ==
    ASSUME IndInv, [Next]_vars, NEW waiter, Returns(waiter), main'.at # "restarted",
           ~PollCallback, ~RefreshCallback, ~OtherCallback
    PROVE  Returns(waiter)'
  <1>1. Phases /\ MainType /\ main.at = "callback" /\ main.todo = {}
    BY TypeParts DEF IndInv, Phases, Returns
  <1>2. \A cancel \in BOOLEAN : ~(RenewCompletion(cancel) \/ Settle(cancel))
    BY <1>1 DEF RenewCompletion, Settle, RenewToken, MainRuns
  <1>3. ~Invalidate /\ ~ForgetTag /\ ~ResetWire
    BY <1>1 DEF Invalidate, ForgetTag, ResetWire
  <1>4. UNCHANGED tokenVars
    BY <1>2, <1>3, TokenSteps
  <1>5. ~(NewGame \/ NewCard \/ RequestMaintenance \/ MainTake \/ MainClear)
    BY <1>1 DEF NewGame, NewCard, RequestMaintenance, MainTake, MainClear, MainRuns, MainIdle
  <1>6. ~(OtaStart \/ OtaReturn \/ RecoveryFence \/ RecoveryLifted)
    BY <1>1 DEF OtaStart, OtaReturn, RecoveryFence, RecoveryLifted, MainIdle
  <1>7. ~(OtaRestart \/ RecoveryRestart \/ ServerRestart \/ WatchdogReset)
    BY <1>1 DEF OtaRestart, RecoveryRestart, ServerRestart, WatchdogReset, MainType
  <1>8. UNCHANGED main
    BY <1>3, <1>5, <1>6, <1>7, MainSteps
  <1> QED
    BY <1>4, <1>8 DEF Returns, Owns, tokenVars

\* A request that was just queued is on its way.
LEMMA NewWaits ==
    ASSUME TypeOK, NEW kind \in NetworkKinds, NEW r \in NewRequests(kind), Enqueue(r),
           UNCHANGED tokenVars
    PROVE  OnItsWay(Waiter(r))'
  <1>1. PICK i \in Slots : slots'[i] = r
    BY EnqueueStep
  <1>2. r \in Request /\ r.kind = kind
    BY NewRequestType
  <1>3. Owns(r)
    BY NewRequestType DEF Owns, Waiter
  <1>4. r # Empty
    BY <1>2, EmptyIsNoRequest
  <1>5. Waits(Waiter(r), i)'
    BY <1>1, <1>3, <1>4 DEF Waits, Occupied, Owns, Waiter, tokenVars
  <1> QED
    BY <1>5, OnItsWayParts

\* A settled transaction stays settled while its owner waits for a verify.
LEMMA SettledStays ==
    ASSUME [Next]_vars, transaction = "settled"
    PROVE  transaction' = "settled" \/ "Verify" \notin pending'
  BY DEF Next, vars, queueVars, tokenVars, flagVars, history, Worker, WorkerProceeds,
         WorkerSelect, WorkerCheck, WorkerDispatch, WorkerStop, WorkerWrite, WorkerPublish,
         WorkerHalt, Submit, ReplaceQueued, NewGame, NewCard, RequestMaintenance, Withdraw,
         Invalidate, ForgetTag, ResetWire, RenewCompletion, Settle, RenewToken, WithdrawResend,
         Deliver, MainTake, PollCallback, RefreshCallback, OtherCallback, MainClear, OtaStart,
         OtaReturn, OtaRestart, MaintenanceAborted, RecoveryFence, RecoveryLifted,
         RecoveryRestart, ServerRestart, WatchdogReset, Restarted, Grow, Abandoned

\* The request of a callback answers its own owner only.
LEMMA KindOfWaiter ==
    ASSUME NEW r, NEW waiter \in {"Poll", "Refresh"}
    PROVE  Waiter(r) = waiter <=> r.kind = waiter
  BY DEF Waiter, Probe

\* The main task never leaves a restart.
LEMMA RestartStays ==
    ASSUME IndInv, [Next]_vars, main'.at # "restarted"
    PROVE  main.at # "restarted"
  BY MainPhases DEF MainTake, MainIdle, MainClear

\* A callback is the end of the wait of the owner of its request, and of no other;
\* the one of a heartbeat may hand it over to a snapshot.
LEMMA CallbackAnswers ==
    ASSUME IndInv, [Next]_vars, PollCallback \/ RefreshCallback \/ OtherCallback,
           NEW waiter \in pending'
    PROVE  \/ OnItsWay(waiter)'
           \/ waiter = "Poll" /\ awaitingRefresh' /\ OnItsWay("Refresh")'
           \/ waiter = "Verify" /\ transaction' = "settled"
  <1> DEFINE kind == main.request.kind
  <1>1. TypeOK /\ NobodyForgotten /\ main.at = "callback" /\ ~MainTake
    BY DEF IndInv, PollCallback, RefreshCallback, OtherCallback, MainTake, MainIdle
  <1>7. UNCHANGED transaction /\ \A cancel \in BOOLEAN : ~Settle(cancel)
    BY <1>1 DEF PollCallback, RefreshCallback, OtherCallback, Settle
  <1>2. ASSUME NEW w \in pending' \cup {"Refresh"}, OnItsWay(w), ~Returns(w)
        PROVE  OnItsWay(w)'
    BY <1>1, <1>2, <1>7, OnItsWayParts, WaitsKept
  <1>8. CASE waiter = "Verify" /\ transaction = "settled"
    BY <1>7, <1>8
  <1> SUFFICES ASSUME ~(waiter = "Verify" /\ transaction = "settled")
               PROVE  \/ OnItsWay(waiter)'
                      \/ waiter = "Poll" /\ awaitingRefresh' /\ OnItsWay("Refresh")'
    BY <1>8
  <1>3. \A w \in pending :
          \/ OnItsWay(w)
          \/ w = "Poll" /\ awaitingRefresh /\ OnItsWay("Refresh")
          \/ w = "Verify" /\ transaction = "settled"
    BY <1>1 DEF NobodyForgotten
  <1>4. CASE PollCallback
    <2>1. kind = "Poll"
      BY <1>4 DEF PollCallback
    <2>2. \A w : Returns(w) => w = "Poll"
      BY <2>1 DEF Returns, Waiter
    <2>3. CASE "Refresh" \notin pending /\ \E r \in NewRequests("Refresh") : Enqueue(r)
      <3>1. PICK r \in NewRequests("Refresh") : Enqueue(r)
        BY <2>3
      <3>2. "Refresh" \in NetworkKinds
        BY DEF NetworkKinds
      <3>3. Waiter(r) = "Refresh"
        BY <1>1, <3>2, NewRequestType, KindOfWaiter
      <3>4. UNCHANGED tokenVars
        BY <1>4 DEF PollCallback
      <3>5. OnItsWay("Refresh")'
        BY <1>1, <3>1, <3>2, <3>3, <3>4, NewWaits
      <3>6. CASE waiter \in pending /\ waiter # "Poll"
        BY <1>2, <1>3, <2>2, <3>6
      <3>7. waiter \in pending \cup {"Refresh"} /\ (waiter = "Poll" => awaitingRefresh')
        BY <1>4 DEF PollCallback
      <3> QED
        BY <3>5, <3>6, <3>7
    <2>4. CASE "Refresh" \in pending /\ awaitingRefresh' /\ UNCHANGED pending
      <3>1. OnItsWay("Refresh")'
        BY <1>2, <1>3, <2>2, <2>4
      <3> QED
        BY <1>2, <1>3, <2>2, <2>4, <3>1
    <2>5. CASE pending' = pending \ {"Poll"}
      BY <1>2, <1>3, <2>2, <2>5
    <2> QED
      BY <1>4, <2>3, <2>4, <2>5 DEF PollCallback
  <1>5. CASE RefreshCallback
    <2>1. kind = "Refresh" /\ pending' = pending \ Refreshed
      BY <1>5 DEF RefreshCallback
    <2>2. \A w : Returns(w) => w = "Refresh"
      BY <2>1 DEF Returns, Waiter
    <2>3. waiter \in pending /\ waiter # "Refresh" /\ (waiter = "Poll" => ~awaitingRefresh)
      BY <2>1 DEF Refreshed
    <2> QED
      BY <1>2, <1>3, <2>2, <2>3
  <1>6. CASE OtherCallback
    <2>1. /\ kind \notin {"Poll", "Refresh"} /\ UNCHANGED awaitingRefresh
          /\ pending' = IF Owns(main.request) THEN pending \ {Waiter(main.request)} ELSE pending
      BY <1>6 DEF OtherCallback
    <2>2. waiter \in pending /\ ~Returns(waiter)
      BY <2>1 DEF Returns
    <2>3. ~Returns("Refresh")
      BY <2>1, KindOfWaiter DEF Returns
    <2> QED
      BY <1>2, <1>3, <2>1, <2>2, <2>3
  <1> QED
    BY <1>4, <1>5, <1>6

\* The owner of a request that is taken from its slot waits for its callback.
LEMMA TakeReturns ==
    ASSUME IndInv, [Next]_vars, MainTake, NEW waiter, OnItsWay(waiter)
    PROVE  OnItsWay(waiter)'
  <1>1. mailbox.ready /\ main.at = "idle"
    BY DEF MainTake, MainIdle
  <1>2. /\ TypeOK /\ mailbox.slot \in Slots
        /\ main' = [at |-> "callback", request |-> slots[mailbox.slot], todo |-> {}]
        /\ \A i \in Slots : slots'[i] = IF i = mailbox.slot THEN Empty ELSE slots[i]
        /\ UNCHANGED tokenVars
    BY <1>1, ReplySlot DEF MainTake, Freed, IndInv, TypeOK
  <1>3. PICK i \in Slots : Waits(waiter, i)
    BY <1>1, OnItsWayParts DEF Returns
  <1>4. CASE i = mailbox.slot
    <2>1. Returns(waiter)'
      BY <1>2, <1>3, <1>4 DEF Waits, Returns, Owns, Waiter, tokenVars
    <2> QED
      BY <2>1, OnItsWayParts
  <1>5. CASE i # mailbox.slot
    <2>1. Waits(waiter, i)'
      BY <1>2, <1>3, <1>5 DEF Waits, Occupied, Owns, Waiter, tokenVars
    <2> QED
      BY <2>1, OnItsWayParts
  <1> QED
    BY <1>4, <1>5

\* No step leaves an owner waiting for nothing.
LEMMA NobodyForgottenStep == IndInv /\ [Next]_vars => NobodyForgotten'
  <1> SUFFICES ASSUME IndInv, [Next]_vars, main'.at # "restarted", NEW waiter \in pending'
               PROVE  \/ OnItsWay(waiter)'
                      \/ waiter = "Poll" /\ awaitingRefresh' /\ OnItsWay("Refresh")'
                      \/ waiter = "Verify" /\ transaction' = "settled"
    BY DEF NobodyForgotten
  <1>1. TypeOK
    BY DEF IndInv
  <1>2. \A w \in pending :
          \/ OnItsWay(w)
          \/ w = "Poll" /\ awaitingRefresh /\ OnItsWay("Refresh")
          \/ w = "Verify" /\ transaction = "settled"
    BY RestartStays DEF IndInv, NobodyForgotten
  <1>10. CASE waiter = "Verify" /\ transaction = "settled"
    BY <1>10, SettledStays
  <1>11. CASE waiter = "Verify" /\ \E cancel \in BOOLEAN : Settle(cancel)
    BY <1>11 DEF Settle
  <1> SUFFICES ASSUME ~(waiter = "Verify" /\ transaction = "settled"),
                      ~(waiter = "Verify" /\ \E cancel \in BOOLEAN : Settle(cancel))
               PROVE  \/ OnItsWay(waiter)'
                      \/ waiter = "Poll" /\ awaitingRefresh' /\ OnItsWay("Refresh")'
                      \/ waiter = "Verify" /\ transaction' = "settled"
    BY <1>10, <1>11
  <1>3. ASSUME ~PollCallback, ~RefreshCallback, ~OtherCallback,
               NEW w \in {waiter, "Refresh"}, OnItsWay(w)
        PROVE  OnItsWay(w)'
    BY <1>3, TakeReturns, WaitsKept, ReturnsKept, OnItsWayParts
  <1>4. CASE PollCallback \/ RefreshCallback \/ OtherCallback
    BY <1>4, CallbackAnswers
  <1>5. CASE /\ ~PollCallback /\ ~RefreshCallback /\ ~OtherCallback
             /\ waiter \in pending /\ UNCHANGED awaitingRefresh
    BY <1>2, <1>3, <1>5
  <1>6. ASSUME NEW kind \in Kinds, Submit(kind), waiter \notin pending
        PROVE  OnItsWay(waiter)'
    <2>1. PICK r \in NewRequests(kind) :
            Enqueue(r) /\ pending' \subseteq pending \cup {Waiter(r)}
      BY <1>6 DEF Submit
    <2>2. waiter = Waiter(r) /\ kind \in NetworkKinds /\ UNCHANGED tokenVars
      BY <1>6, <2>1, NetworkQueueAssumption DEF Submit
    <2> QED
      BY <1>1, <2>1, <2>2, NewWaits
  <1>7. ASSUME NEW kind \in Kinds, Submit(kind) PROVE UNCHANGED awaitingRefresh
    BY <1>7 DEF Submit
  <1>8. ForgetTag => pending' \subseteq pending
    BY DEF ForgetTag
  <1>9. \A cancel \in BOOLEAN : (RenewCompletion(cancel) \/ Settle(cancel)) => pending' \subseteq pending
    BY DEF RenewCompletion, Settle, RenewToken
  <1> QED
    BY <1>4, <1>5, <1>6, <1>7, <1>8, <1>9, PendingSteps
-----------------------------------------------------------------------------
(* The heartbeat. *)

Beats(i) == Occupied(i) /\ slots[i].kind = "Poll"

\* Only the callers and the callback of a heartbeat queue requests.
LEMMA NoQueueing ==
    ASSUME IndInv, [Next]_vars, NEW kind, Queues(kind)
    PROVE  PollCallback \/ \E k \in Kinds : Submit(k)
  <1>1. nextId' = nextId + 1 /\ nextId \in Nat
    BY DEF Queues, Enqueue, IndInv, TypeOK
  <1>2. UNCHANGED nextId \/ (\E k \in Kinds : Submit(k)) \/ PollCallback
    BY DEF Next, vars, queueVars, tokenVars, flagVars, history, Worker, WorkerProceeds,
           WorkerSelect, WorkerCheck, WorkerDispatch, WorkerStop, WorkerWrite, WorkerPublish,
           WorkerHalt, ReplaceQueued, NewGame, NewCard, RequestMaintenance, Withdraw,
           Invalidate, ForgetTag, ResetWire, RenewCompletion, Settle, RenewToken,
           WithdrawResend, Deliver, MainTake, RefreshCallback, OtherCallback, MainClear,
           OtaStart, OtaReturn, OtaRestart, MaintenanceAborted, RecoveryFence, RecoveryLifted,
           RecoveryRestart, ServerRestart, WatchdogReset, Restarted, Grow
  <1>3. nextId' # nextId
    BY <1>1
  <1> QED
    BY <1>2, <1>3

\* The steps after which nobody waits for a heartbeat: no heartbeat is left.
LEMMA PollLeaves ==
    ASSUME IndInv, [Next]_vars, "Poll" \in pending, "Poll" \notin pending'
    PROVE  /\ ~awaitingRefresh' /\ main'.at = "handled" /\ UNCHANGED slots
           /\ \A i \in Slots : ~Beats(i)
  <1>1. MainType /\ OneHeartbeat
    BY TypeParts DEF IndInv
  <1>2. CASE PollCallback
    <2>1. /\ main.at = "callback" /\ main.request.kind = "Poll"
          /\ ~awaitingRefresh' /\ UNCHANGED slots /\ main'.at = "handled"
      BY <1>1, <1>2 DEF PollCallback, Handled, MainType
    <2> QED
      BY <1>1, <2>1 DEF OneHeartbeat, Beats
  <1>3. CASE RefreshCallback
    <2>1. /\ awaitingRefresh /\ ~awaitingRefresh' /\ UNCHANGED slots /\ main'.at = "handled"
      BY <1>1, <1>3 DEF RefreshCallback, Refreshed, Handled, MainType, queueVars
    <2> QED
      BY <1>1, <2>1 DEF OneHeartbeat, Beats
  <1>4. ~OtherCallback
    BY KindOfWaiter DEF OtherCallback
  <1>5. ~ForgetTag /\ \A cancel \in BOOLEAN : ~(RenewCompletion(cancel) \/ Settle(cancel))
    BY DEF ForgetTag, RenewCompletion, Settle, RenewToken, Abandoned
  <1>6. \A kind \in Kinds : ~Submit(kind)
    BY DEF Submit
  <1> QED
    BY <1>2, <1>3, <1>4, <1>5, <1>6, PendingSteps

\* A heartbeat is queued only when nobody waits for one, by the task that does
\* nothing else meanwhile.
LEMMA BeatsStep ==
    ASSUME IndInv, [Next]_vars
    PROVE  \/ \A i \in Slots : Beats(i)' => Beats(i)
           \/ /\ "Poll" \notin pending /\ "Poll" \in pending'
              /\ UNCHANGED <<main, awaitingRefresh>>
              /\ \A i, j \in Slots : Beats(i)' /\ Beats(j)' => i = j
  <1>1. TypeOK /\ OneHeartbeat
    BY DEF IndInv
  <1>2. ASSUME NEW kind \in NetworkKinds, NEW r \in NewRequests(kind), Enqueue(r)
        PROVE  /\ kind # "Poll" => \A i \in Slots : Beats(i)' => Beats(i)
               /\ \E k \in Slots : \A i \in Slots \ {k} : Beats(i)' => Beats(i)
    <2>1. r.kind = kind
      BY <1>1, <1>2, NewRequestType
    <2>2. PICK k \in Slots : \A j \in Slots : slots'[j] = IF j = k THEN r ELSE slots[j]
      BY <1>1, <1>2, EnqueueStep
    <2> QED
      BY <2>1, <2>2 DEF Beats, Occupied
  <1>3. CASE \A i \in Slots : slots'[i] = Empty \/ Kept(i)
    BY <1>3 DEF Beats, Kept, Occupied
  <1>4. CASE PollCallback
    <2>1. UNCHANGED slots \/ \E r \in NewRequests("Refresh") : Enqueue(r)
      BY <1>4 DEF PollCallback
    <2>2. "Refresh" \in NetworkKinds
      BY DEF NetworkKinds
    <2> QED
      BY <1>2, <2>1, <2>2 DEF Beats, Occupied
  <1>5. ASSUME NEW kind \in Kinds, Submit(kind), kind # "Poll"
        PROVE  \A i \in Slots : Beats(i)' => Beats(i)
    BY <1>2, <1>5, NetworkQueueAssumption DEF Submit
  <1>6. ASSUME "Poll" \in Kinds, Submit("Poll")
        PROVE  /\ "Poll" \notin pending /\ "Poll" \in pending'
               /\ UNCHANGED <<main, awaitingRefresh>>
               /\ \A i, j \in Slots : Beats(i)' /\ Beats(j)' => i = j
    <2>1. PICK r \in NewRequests("Poll") :
            /\ Waiter(r) \notin pending /\ Enqueue(r) /\ pending' = pending \cup {Waiter(r)}
      BY <1>6 DEF Submit, Optional
    <2>2. "Poll" \in NetworkKinds
      BY DEF NetworkKinds
    <2>3. Waiter(r) = "Poll"
      BY <1>1, <2>2, NewRequestType, KindOfWaiter
    <2>4. \A i \in Slots : ~Beats(i)
      BY <1>1, <2>1, <2>3 DEF OneHeartbeat, Beats
    <2> QED
      BY <1>2, <1>6, <2>1, <2>2, <2>3, <2>4 DEF Submit
  <1>7. \/ (\E kind \in Kinds : Submit(kind)) \/ PollCallback
        \/ \A i \in Slots : slots'[i] = Empty \/ Kept(i)
    BY SlotFate, NoQueueing
  <1> QED
    BY <1>3, <1>4, <1>5, <1>6, <1>7

\* There is never more than one heartbeat, nor one that nobody waits for.
LEMMA OneHeartbeatStep == IndInv /\ [Next]_vars => OneHeartbeat'
  <1> SUFFICES ASSUME IndInv, [Next]_vars PROVE OneHeartbeat'
    OBVIOUS
  <1>1. /\ MainType /\ TypeOK
        /\ \A i \in Slots : Beats(i) => "Poll" \in pending
        /\ \A i, j \in Slots : Beats(i) /\ Beats(j) => i = j
        /\ main.at = "callback" /\ main.request.kind = "Poll" =>
               "Poll" \in pending /\ \A i \in Slots : ~Beats(i)
        /\ awaitingRefresh => "Poll" \in pending /\ \A i \in Slots : ~Beats(i)
    BY TypeParts DEF IndInv, OneHeartbeat, Beats
  <1>2. \A i \in Slots : Beats(i)' => "Poll" \in pending'
    BY <1>1, BeatsStep, PollLeaves DEF Beats, Occupied
  <1>3. \A i, j \in Slots : Beats(i)' /\ Beats(j)' => i = j
    BY <1>1, BeatsStep
  <1>4. main'.at = "callback" /\ main'.request.kind = "Poll" =>
          "Poll" \in pending' /\ \A i \in Slots : ~Beats(i)'
    <2> SUFFICES ASSUME main'.at = "callback", main'.request.kind = "Poll"
                 PROVE  "Poll" \in pending' /\ \A i \in Slots : ~Beats(i)'
      OBVIOUS
    <2>1. CASE MainTake
      <3>1. mailbox.ready /\ main.at = "idle"
        BY <2>1 DEF MainTake, MainIdle
      <3>2. /\ mailbox.slot \in Slots /\ Beats(mailbox.slot) /\ pending' = pending
            /\ \A i \in Slots : slots'[i] = IF i = mailbox.slot THEN Empty ELSE slots[i]
        BY <1>1, <2>1, <3>1, ReplySlot, EmptyIsNoRequest
        DEF MainTake, Freed, TypeOK, Beats, Occupied, flagVars
      <3> QED
        BY <1>1, <3>2 DEF Beats, Occupied
    <2>2. CASE ~MainTake
      <3>1. main.at = "callback" /\ main'.request = main.request
        BY <2>2, MainPhases DEF MainClear, Idle
      <3> QED
        BY <1>1, <3>1, BeatsStep, PollLeaves
    <2> QED
      BY <2>1, <2>2
  <1>5. awaitingRefresh' => "Poll" \in pending' /\ \A i \in Slots : ~Beats(i)'
    <2> SUFFICES ASSUME awaitingRefresh'
                 PROVE  "Poll" \in pending' /\ \A i \in Slots : ~Beats(i)'
      OBVIOUS
    <2>1. \/ awaitingRefresh
          \/ main.at = "callback" /\ main.request.kind = "Poll"
      <3>1. UNCHANGED awaitingRefresh \/ PollCallback \/ RefreshCallback
        BY PendingSteps DEF Submit, OtherCallback
      <3> QED
        BY <3>1 DEF PollCallback, RefreshCallback
    <2> QED
      BY <1>1, <2>1, BeatsStep, PollLeaves
  <1> QED
    BY <1>2, <1>3, <1>4, <1>5 DEF OneHeartbeat, Beats, Occupied

\* There are finitely many slots.
LEMMA SlotsFinite == IsFiniteSet(Used) /\ IsFiniteSet(Others)
  <1>1. IsFiniteSet(Slots)
    BY FS_Interval, NetworkQueueAssumption DEF Slots
  <1>2. Used \in SUBSET Slots /\ Others \in SUBSET Slots
    BY DEF Used, Others
  <1> QED
    BY <1>1, <1>2, FS_Subset

\* What may fill the queue leaves the slot of the heartbeat alone.
LEMMA SlotKeptStep == IndInv /\ [Next]_vars => SlotKept'
  <1> SUFFICES ASSUME IndInv, [Next]_vars PROVE SlotKept'
    OBVIOUS
  <1>1. /\ TypeOK /\ IsFiniteSet(Used) /\ IsFiniteSet(Others)
        /\ Cardinality(Others) \in Nat /\ Cardinality(Used) \in Nat
        /\ Cardinality(Others) < NumSlots /\ NumSlots \in Nat
    BY SlotsFinite, FS_CardinalityType, NetworkQueueAssumption DEF IndInv, SlotKept
  <1>2. CASE Others' \subseteq Others
    <2>1. Cardinality(Others') <= Cardinality(Others) /\ Cardinality(Others') \in Nat
      BY <1>1, <1>2, FS_Subset, FS_CardinalityType
    <2> QED
      BY <1>1, <2>1 DEF SlotKept
  <1>3. ASSUME NEW kind, Queues(kind) PROVE SlotKept'
    <2>1. PICK r \in NewRequests(kind) : Enqueue(r)
      BY <1>3 DEF Queues
    <2>2. kind \in NetworkKinds
      BY <1>3, NetworkQueueAssumption DEF Queues, NetworkKinds
    <2>3. r.kind = kind
      BY <1>1, <2>1, <2>2, NewRequestType
    <2>4. PICK i \in Slots : \A j \in Slots : slots'[j] = IF j = i THEN r ELSE slots[j]
      BY <1>1, <2>1, EnqueueStep
    <2>5. CASE kind = "Poll"
      <3>1. Others' \subseteq Others
        BY <2>3, <2>4, <2>5 DEF Others, Occupied
      <3> QED
        BY <1>2, <3>1
    <2>6. CASE kind # "Poll"
      <3>1. Cardinality(Used) < NumSlots - 1
        BY <2>1, <2>3, <2>6 DEF Enqueue, Admits
      <3>2. Others' \subseteq Used \cup {i}
        BY <2>4 DEF Others, Used, Occupied
      <3>3. IsFiniteSet(Used \cup {i}) /\ Cardinality(Used \cup {i}) <= Cardinality(Used) + 1
        <4>1. IsFiniteSet(Used \cup {i})
          BY <1>1, FS_AddElement
        <4>2. Cardinality(Used \cup {i}) \in {Cardinality(Used), Cardinality(Used) + 1}
          BY <1>1, FS_AddElement
        <4> QED
          BY <1>1, <4>1, <4>2
      <3>4. Cardinality(Others') <= Cardinality(Used \cup {i})
        BY <3>2, <3>3, FS_Subset
      <3>5. Cardinality(Used \cup {i}) \in Nat /\ Cardinality(Others') \in Nat
        BY <3>2, <3>3, FS_Subset, FS_CardinalityType
      <3> QED
        BY <1>1, <3>1, <3>3, <3>4, <3>5 DEF SlotKept
    <2> QED
      BY <2>5, <2>6
  <1>4. CASE \A i \in Slots : slots'[i] = Empty \/ Kept(i)
    <2>1. Others' \subseteq Others
      BY <1>4 DEF Others, Kept, Occupied
    <2> QED
      BY <1>2, <2>1
  <1> QED
    BY <1>3, <1>4, SlotFate

\* Only the choice of a request counts, and a queued heartbeat is not passed over
\* once the run has reached its limit.
LEMMA RunCountedStep == IndInv /\ [Next]_vars => RunCounted'
  <1> SUFFICES ASSUME IndInv, [Next]_vars PROVE RunCounted'
    OBVIOUS
  <1>1. /\ urgentRun \in 0..MaxUrgentRun /\ overtaken \in 0..(MaxUrgentRun + 1)
        /\ overtaken <= urgentRun
    BY DEF IndInv, TypeOK, RunCounted
  <1>2. ASSUME NEW online \in BOOLEAN, WorkerSelect(online) PROVE RunCounted'
    <2>1. PICK i \in Slots :
            /\ Choice(i, online) /\ urgentRun' = NextRun(slots[i])
            /\ overtaken' = IF slots[i].kind = "Poll" THEN 0
                            ELSE IF online /\ PollSlots # {} /\ overtaken <= MaxUrgentRun
                            THEN overtaken + 1 ELSE overtaken
      BY <1>2 DEF WorkerSelect
    <2>2. CASE slots[i].kind = "Poll"
      BY <2>1, <2>2 DEF RunCounted, NextRun
    <2>3. CASE slots[i].kind # "Poll" /\ urgentRun < MaxUrgentRun
      BY <1>1, <2>1, <2>3 DEF RunCounted, NextRun, MaxUrgentRun
    <2>4. CASE slots[i].kind # "Poll" /\ ~(online /\ PollSlots # {})
      <3>1. overtaken' = overtaken /\ urgentRun <= urgentRun'
        BY <1>1, <2>1, <2>4 DEF NextRun, MaxUrgentRun
      <3>2. urgentRun' \in Nat
        BY <1>1, <2>1, <2>4 DEF NextRun, MaxUrgentRun
      <3> QED
        BY <1>1, <3>1, <3>2 DEF RunCounted, MaxUrgentRun
    <2>5. CASE urgentRun >= MaxUrgentRun /\ online /\ PollSlots # {}
      <3>1. PICK j : j \in PollSlots
        BY <2>5
      <3>2. PollForced(online)
        BY <2>5, <3>1 DEF PollForced, PollSlots, Selectable
      <3> QED
        BY <2>1, <2>2, <3>2 DEF Choice, PollSlots
    <2> QED
      BY <1>1, <2>2, <2>3, <2>4, <2>5 DEF MaxUrgentRun
  <1>3. \/ urgentRun' = urgentRun /\ overtaken' \in {0, overtaken}
        \/ \E online \in BOOLEAN : WorkerSelect(online)
    BY DEF Enqueue, Next, vars, queueVars, tokenVars, flagVars, history, Worker, WorkerProceeds,
           WorkerSelect, WorkerCheck, WorkerDispatch, WorkerStop, WorkerWrite, WorkerPublish,
           WorkerHalt, Submit, ReplaceQueued, NewGame, NewCard, RequestMaintenance, Withdraw,
           Invalidate, ForgetTag, ResetWire, RenewCompletion, Settle, RenewToken,
           WithdrawResend, Deliver, MainTake, PollCallback, RefreshCallback, OtherCallback,
           MainClear, OtaStart, OtaReturn, OtaRestart, MaintenanceAborted, RecoveryFence,
           RecoveryLifted, RecoveryRestart, ServerRestart, WatchdogReset, Restarted, Grow
  <1> QED
    BY <1>1, <1>2, <1>3 DEF RunCounted, MaxUrgentRun
-----------------------------------------------------------------------------
(* The theorems. *)

\* At boot the queue is empty.
LEMMA InitIndInv == Init => IndInv
  <1> SUFFICES ASSUME Init PROVE IndInv
    OBVIOUS
  <1>1. \A i \in Slots : ~Occupied(i)
    BY DEF Init, Occupied
  <1>2. TypeOK
    <2>1. SlotsType /\ QueueType /\ HistoryType /\ FlagsType
      BY DEF Init, SlotsType, QueueType, FlagsType, HistoryType, Ages
    <2>3. CountersType
      BY DEF Init, CountersType, MaxUrgentRun
    <2>2. MailboxType /\ WorkerType /\ MainType
      BY DEF Init, MailboxType, WorkerType, MainType, Idle, Selecting, NoReply
    <2> QED
      BY <2>1, <2>2, <2>3, TypeParts
  <1>3. IdsFresh /\ Dispatched /\ Withdrawals
    BY <1>1 DEF Init, IdsFresh, Dispatched, Withdrawals, Selecting, Idle
  <1>4. SlotHeld /\ Phases /\ Payloads /\ QuietFence
    BY DEF Init, SlotHeld, Phases, Payloads, QuietFence, InFlight, AtCallback, Selecting, Idle
  <1>5. ReplyBelongs /\ DispatchedExact /\ WithdrawnNeverSent /\ NobodyForgotten
    BY DEF Init, ReplyBelongs, DispatchedExact, WithdrawnNeverSent, NobodyForgotten, Idle
  <1>6. OneHeartbeat /\ RunCounted
    BY <1>1 DEF Init, OneHeartbeat, RunCounted, Idle
  <1>7. SlotKept
    <2>1. Others = {}
      BY <1>1 DEF Others
    <2> QED
      BY <2>1, FS_EmptySet, NetworkQueueAssumption DEF SlotKept
  <1> QED
    BY <1>2, <1>3, <1>4, <1>5, <1>6, <1>7 DEF IndInv

\* Every step preserves every part of the invariant.
LEMMA NextIndInv == IndInv /\ [Next]_vars => IndInv'
  BY TypeStep, IdsStep, SlotHeldStep, PhasesStep, DispatchedStep, PayloadsStep, ReplyBelongsStep,
     DispatchedExactStep, QuietFenceStep, WithdrawalsStep, WithdrawnStep, NobodyForgottenStep,
     OneHeartbeatStep, SlotKeptStep, RunCountedStep DEF IndInv

\* The inductive invariant of the request queue, for any number of slots: who
\* holds a request, what was withdrawn, who waits for what.
THEOREM IndInvHolds == Spec => []IndInv
  BY InitIndInv, NextIndInv, PTL DEF Spec

\* A withdrawal published before the dispatch boundary wins: no request that was
\* withdrawn while it was not dispatched reaches the transport (NetworkWorker).
THEOREM WithdrawnNeverSentHolds == Spec => []WithdrawnNeverSent
  <1>1. IndInv => WithdrawnNeverSent
    BY DEF IndInv
  <1> QED
    BY <1>1, IndInvHolds, PTL

\* A request goes from its owner to the transport and back as one: its slot is
\* held while it is in flight, it is sent once, its callback reads its own answer
\* and the exact dispatched flag, and nothing is in flight behind the fence.
THEOREM QueueExactHolds == Spec => []QueueExact
  <1>1. IndInv => SentOnce
    <2> SUFFICES ASSUME IndInv, worker.at \in {"check", "boundary"}
                 PROVE  worker.request.id \notin sent
      BY DEF SentOnce
    <2>1. Dispatched /\ InFlight
      BY DEF IndInv, InFlight
    <2>2. /\ worker.slot \in Slots /\ Occupied(worker.slot)
          /\ slots[worker.slot].id = worker.request.id
          /\ slots[worker.slot].dispatched = worker.request.dispatched
      BY <2>1, SlotOfWorker, EmptyIsNoRequest DEF Occupied
    <2> QED
      BY <2>1, <2>2 DEF Dispatched
  <1>2. IndInv => QueueExact
    BY <1>1 DEF IndInv, QueueExact
  <1> QED
    BY <1>2, IndInvHolds, PTL

\* Every owner that waits for an answer has a request with a token it will accept
\* on its way to it: no withdrawal or lost callback leaves a flag that nobody clears.
THEOREM NobodyForgottenHolds == Spec => []NobodyForgotten
  <1>1. IndInv => NobodyForgotten
    BY DEF IndInv
  <1> QED
    BY <1>1, IndInvHolds, PTL

\* The heartbeat always finds a slot (NetworkSubmit keeps one for it) and then
\* waits behind at most three other requests while online (network.ino:205).
THEOREM HeartbeatServedHolds == Spec => []HeartbeatServed
  <1>1. IndInv => HeartbeatAdmitted
    <2> SUFFICES ASSUME IndInv, "Poll" \notin pending PROVE Cardinality(Used) < NumSlots
      BY DEF HeartbeatAdmitted
    <2>1. Used = Others
      BY DEF IndInv, OneHeartbeat, Used, Others
    <2> QED
      BY <2>1 DEF IndInv, SlotKept
  <1>2. IndInv => HeartbeatNotStarved
    BY DEF IndInv, TypeOK, RunCounted, HeartbeatNotStarved, MaxUrgentRun
  <1>3. IndInv => HeartbeatServed
    BY <1>1, <1>2 DEF HeartbeatServed
  <1> QED
    BY <1>3, IndInvHolds, PTL
=============================================================================

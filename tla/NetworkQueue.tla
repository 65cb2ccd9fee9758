--------------------------- MODULE NetworkQueue ----------------------------
(***************************************************************************)
(* The request queue of HAS1_generator (network.ino): a fixed array of     *)
(* slots filled by the main task, emptied by one worker task that owns the *)
(* HTTP transport, and a mailbox for one reply.  Both tasks synchronise on *)
(* networkMux only, and an action here is one critical section, or the code*)
(* between two of them.  The main task may withdraw what it queued (a new  *)
(* game, card, completion token or wire cycle; OTA maintenance) and may    *)
(* fence the worker off to restart the device when Wi-Fi stays away.       *)
(*                                                                         *)
(* Time is the age of a queued request: fresh, overdue (Poll 4 s, optional *)
(* 15 s) or expired (reads, 10 s).  Wi-Fi association is an input of each  *)
(* step that samples it.                                                   *)
(***************************************************************************)
EXTENDS Integers, FiniteSets

CONSTANTS
    NumSlots,    \* kNetworkSlots (8)
    Kinds,       \* the kinds of request used, a subset of NetworkKinds
    MaxId,       \* bound: requests accepted
    MaxEpoch     \* bound: values of each generation or token counter

NetworkKinds == {"Poll", "Refresh", "Tag", "Wire", "Completion", "Verify",
                 "Contribution", "Report", "Watchdog"}
Optional     == {"Contribution", "Report"}
MaxUrgentRun == 3

ASSUME NetworkQueueAssumption ==
    /\ NumSlots \in Nat /\ NumSlots >= 3
    /\ Kinds \subseteq NetworkKinds
    /\ MaxId \in Nat
    /\ MaxEpoch \in Nat

VARIABLES
    slots,            \* networkSlots: slot -> request, or Empty
    active,           \* the slots whose active flag is set
    age,              \* slot -> how long its request has waited
    nextId,           \* networkNextId
    generation,       \* networkGeneration
    tagToken,         \* networkTagToken
    completionToken,  \* networkCompletionToken
    wireGeneration,   \* wireState.generation(), under wireStateMux
    pending,          \* kinds (and the protocol probe) whose owner awaits a callback
    transaction,      \* the legacy completion: none, sent and open (networkCompletionSent), or
                      \* settled (networkCompletionConfirmed or networkCompletionSuperseded)
    awaitingRefresh,  \* networkPollAwaitingRefresh
    maintenance,      \* networkMaintenance
    otaRestart,       \* networkOtaRestartPending
    fence,            \* networkRecoveryFence
    mailbox,          \* networkMailbox*, and the request its payload answers
    worker,           \* NetworkWorker: program counter and local variables
    urgentRun,        \* networkUrgentRun, saturated at MaxUrgentRun
    main,             \* the main task: where it is, the request it copied from the
                      \* mailbox, and what is left of a withdrawal in several steps
    \* History variables.
    sent,             \* ids handed to the transport
    withdrawn,        \* ids withdrawn before that
    overtaken         \* requests served online while the Poll was queued

tokenVars == <<generation, tagToken, completionToken, wireGeneration>>
queueVars == <<slots, active, age, nextId>>
flagVars  == <<pending, transaction, awaitingRefresh, maintenance, otaRestart, fence>>
history   == <<sent, withdrawn, overtaken>>
vars == <<queueVars, tokenVars, flagVars, mailbox, worker, urgentRun, main, history>>

Slots   == 1..NumSlots
Empty   == [kind |-> "none"]
Ages    == {"fresh", "overdue", "expired"}
NoReply == 0
Probe   == "probe"

Request == [id : Nat \ {0}, kind : NetworkKinds, generation : Nat, token : Nat,
            wire : Nat, mutation : BOOLEAN, cancelled : BOOLEAN, dispatched : BOOLEAN]

TypeOK ==
    /\ slots \in [Slots -> Request \cup {Empty}]
    /\ active \in SUBSET Slots
    /\ age \in [Slots -> Ages]
    /\ nextId \in Nat \ {0}
    /\ generation \in Nat \ {0}
    /\ tagToken \in Nat \ {0}
    /\ completionToken \in Nat \ {0}
    /\ wireGeneration \in Nat \ {0}
    /\ pending \in SUBSET (NetworkKinds \cup {Probe})
    /\ transaction \in {"none", "legacy", "settled"}
    /\ awaitingRefresh \in BOOLEAN
    /\ maintenance \in BOOLEAN
    /\ otaRestart \in BOOLEAN
    /\ fence \in BOOLEAN
    /\ mailbox \in [ready : BOOLEAN, slot : Slots \cup {0}, cancelled : BOOLEAN, payload : Nat]
    /\ worker \in [at : {"select", "check", "boundary", "sending", "discarded", "written", "halted"},
                   slot : Slots \cup {0}, request : Request \cup {Empty}, cancelled : BOOLEAN]
    /\ urgentRun \in 0..MaxUrgentRun
    /\ main \in [at : {"idle", "callback", "handled", "fenced", "restarted", "ota"},
                 request : Request \cup {Empty},
                 todo : SUBSET {"invalidate", "forget", "resetWire"}]
    /\ sent \in SUBSET Nat
    /\ withdrawn \in SUBSET Nat
    /\ overtaken \in 0..(MaxUrgentRun + 1)

Idle == [at |-> "idle", request |-> Empty, todo |-> {}]
Selecting == [at |-> "select", slot |-> 0, request |-> Empty, cancelled |-> FALSE]

Init ==
    /\ slots = [i \in Slots |-> Empty]
    /\ active = {}
    /\ age = [i \in Slots |-> "fresh"]
    /\ nextId = 1
    /\ generation = 1 /\ tagToken = 1 /\ completionToken = 1 /\ wireGeneration = 1
    /\ pending = {} /\ transaction = "none" /\ awaitingRefresh = FALSE
    /\ maintenance = FALSE /\ otaRestart = FALSE /\ fence = FALSE
    /\ mailbox = [ready |-> FALSE, slot |-> 0, cancelled |-> FALSE, payload |-> NoReply]
    /\ worker = Selecting
    /\ urgentRun = 0
    /\ main = Idle
    /\ sent = {} /\ withdrawn = {} /\ overtaken = 0
-----------------------------------------------------------------------------
(* Queries on the queue. *)

Occupied(i) == slots[i] # Empty
Queued(i)   == Occupied(i) /\ i \notin active
Used        == {i \in Slots : Occupied(i)}
PollSlots   == {i \in Slots : Queued(i) /\ slots[i].kind = "Poll"}

Expired(i) == ~slots[i].mutation /\ age[i] = "expired"
Overdue(i) == age[i] # "fresh"

\* NetworkDiscardReason, but for the wire vote, which may also turn unstable
\* at any moment (MayUnsettle).
Outdated(r) ==
    \/ r.cancelled
    \/ r.kind = "Tag" /\ r.token # tagToken
    \/ r.generation # 0 /\ r.generation # generation
    \/ r.kind \in {"Completion", "Verify"} /\ r.token # completionToken
    \/ r.kind = "Completion" /\ ~r.dispatched /\ r.wire # 0 /\ r.wire # wireGeneration
    \/ r.kind = "Wire" /\ r.token # wireGeneration
MayUnsettle(r) ==
    \/ r.kind = "Wire" /\ r.mutation
    \/ r.kind = "Completion" /\ ~r.dispatched /\ r.wire # 0

\* Faulty variant of Selectable: a read that expired in the queue waits for Wi-Fi.
Selectable_NoExpiry(i, online) ==
    Queued(i) /\ (online \/ slots[i].cancelled
                  \/ (slots[i].generation # 0 /\ slots[i].generation # generation))

\* Offline, only requests that will not reach the network are picked up.
Selectable(i, online) ==
    /\ Queued(i)
    /\ \/ online
       \/ slots[i].cancelled
       \/ slots[i].generation # 0 /\ slots[i].generation # generation
       \/ Expired(i)

Control(i, online) == Selectable(i, online) /\ slots[i].kind \notin Optional
Report(i, online)  == Selectable(i, online) /\ slots[i].kind \in Optional

\* The outcome of the selection loop: the oldest control request, or the oldest
\* optional one when there is no control request or when it is overdue (an older
\* control request then wins or loses with the slot numbers, left open here).
Preferred(i, online) ==
    \/ /\ Control(i, online)
       /\ \A j \in Slots : Control(j, online) => slots[i].id <= slots[j].id
       /\ \A j \in Slots : Report(j, online) /\ Overdue(j) => slots[i].id < slots[j].id
    \/ /\ Report(i, online)
       /\ \A j \in Slots : Report(j, online) => slots[i].id <= slots[j].id
       /\ Overdue(i) \/ \A j \in Slots : ~Control(j, online)

\* Faulty variant of PollForced: only the four seconds count.
PollForced_LateOnly(online) == \E i \in PollSlots : Selectable(i, online) /\ Overdue(i)

\* A heartbeat waits behind at most three other requests, or four seconds.
PollForced(online) ==
    \E i \in PollSlots : Selectable(i, online) /\ (urgentRun >= MaxUrgentRun \/ Overdue(i))

Choice(i, online) ==
    IF PollForced(online) THEN i \in PollSlots /\ Selectable(i, online)
    ELSE Preferred(i, online)

Ids(S) == {slots[i].id : i \in S}
Unsent == {i \in Slots : Occupied(i) /\ ~slots[i].dispatched}
-----------------------------------------------------------------------------
(* The worker task. *)

\* Faulty variant of MaySelect: the worker does not wait for the mailbox.
MaySelect_AnyReply == ~fence

MaySelect == ~mailbox.ready /\ ~fence

NextRun(r) ==
    IF r.kind = "Poll" THEN 0 ELSE IF urgentRun < MaxUrgentRun THEN urgentRun + 1 ELSE urgentRun

WorkerSelect(online) ==
    /\ worker.at = "select"
    /\ MaySelect
    /\ \E i \in Slots :
        /\ Choice(i, online)
        /\ active' = active \cup {i}
        /\ worker' = [at |-> "check", slot |-> i, request |-> slots[i], cancelled |-> FALSE]
        /\ urgentRun' = NextRun(slots[i])
        /\ overtaken' = IF slots[i].kind = "Poll" THEN 0
                        ELSE IF online /\ PollSlots # {} /\ overtaken <= MaxUrgentRun
                        THEN overtaken + 1 ELSE overtaken
    /\ UNCHANGED <<slots, age, nextId, tokenVars, flagVars, mailbox, main, sent, withdrawn>>

\* NetworkDiscardReason on the worker's own copy, outside networkMux.
WorkerCheck ==
    /\ worker.at = "check"
    /\ \/ /\ Outdated(worker.request) \/ MayUnsettle(worker.request) \/ Expired(worker.slot)
          /\ worker' = [worker EXCEPT !.at = "discarded", !.cancelled = TRUE]
       \/ /\ ~Outdated(worker.request) /\ ~Expired(worker.slot)
          /\ worker' = [worker EXCEPT !.at = "boundary"]
    /\ UNCHANGED <<queueVars, tokenVars, flagVars, mailbox, urgentRun, main, history>>

\* Faulty variant of StopAtBoundary: the game generation is not looked at again.
StopAtBoundary_NoGame ==
    LET r == worker.request
    IN  \/ fence
        \/ slots[worker.slot].cancelled
        \/ r.kind = "Tag" /\ r.token # tagToken
        \/ r.kind \in {"Completion", "Verify"} /\ r.token # completionToken

\* The tests repeated under networkMux: a withdrawal published before this
\* critical section must win.
StopAtBoundary ==
    LET r == worker.request
    IN  \/ fence
        \/ slots[worker.slot].cancelled
        \/ r.generation # 0 /\ r.generation # generation
        \/ r.kind = "Tag" /\ r.token # tagToken
        \/ r.kind \in {"Completion", "Verify"} /\ r.token # completionToken

\* Faulty variant of MarkDispatched: only the worker's copy learns it.
MarkDispatched_CopyOnly(i) == slots

\* Both copies of the request learn it: the one in the slot is what the
\* callback will see.
MarkDispatched(i) == [slots EXCEPT ![i].dispatched = TRUE]

WorkerDispatch ==
    /\ worker.at = "boundary"
    /\ ~StopAtBoundary
    /\ slots' = MarkDispatched(worker.slot)
    /\ worker' = [worker EXCEPT !.at = "sending", !.request.dispatched = TRUE]
    /\ sent' = sent \cup {worker.request.id}
    /\ UNCHANGED <<active, age, nextId, tokenVars, flagVars, mailbox, urgentRun, main,
                   withdrawn, overtaken>>

WorkerStop ==
    /\ worker.at = "boundary"
    /\ StopAtBoundary
    /\ worker' = [worker EXCEPT !.at = "discarded", !.cancelled = TRUE]
    /\ UNCHANGED <<queueVars, tokenVars, flagVars, mailbox, urgentRun, main, history>>

\* The transport returned (bounded by its deadlines), or was not used: the
\* mailbox payload is replaced outside networkMux.
WorkerWrite ==
    /\ worker.at \in {"sending", "discarded"}
    /\ mailbox' = [mailbox EXCEPT !.payload =
                      IF worker.at = "sending" THEN worker.request.id ELSE NoReply]
    /\ worker' = [worker EXCEPT !.at = "written"]
    /\ UNCHANGED <<queueVars, tokenVars, flagVars, urgentRun, main, history>>

WorkerPublish ==
    /\ worker.at = "written"
    /\ mailbox' = [mailbox EXCEPT !.ready = TRUE, !.slot = worker.slot,
                                  !.cancelled = worker.cancelled]
    /\ worker' = Selecting
    /\ UNCHANGED <<queueVars, tokenVars, flagVars, urgentRun, main, history>>

\* ConnectionDriverFault: the worker stops for good and its watchdog expires.
WorkerHalt ==
    /\ worker.at = "select"
    /\ worker' = [worker EXCEPT !.at = "halted"]
    /\ UNCHANGED <<queueVars, tokenVars, flagVars, mailbox, urgentRun, main, history>>

WorkerProceeds ==
    WorkerCheck \/ WorkerDispatch \/ WorkerStop \/ WorkerWrite \/ WorkerPublish

Worker == WorkerProceeds \/ \E online \in BOOLEAN : WorkerSelect(online)
-----------------------------------------------------------------------------
(* The main task: queueing. *)

\* Between two callbacks, or in the rest of one: any game code may run, unless
\* it is in the middle of a withdrawal.
MainRuns == main.at \in {"idle", "handled"} /\ main.todo = {}
MainIdle == main.at = "idle" /\ main.todo = {}

Waiter(r) == IF r.kind = "Verify" /\ r.generation = 0 THEN Probe ELSE r.kind

Mutates(kind) == kind \in Optional \cup {"Completion", "Watchdog"}

\* The requests the callers build: bound to a game (Verify only when it is not
\* the protocol probe), to a card, a wire cycle or a completion token, and, for a
\* completion that the staff did not override, to the wire vote.
NewRequests(kind) ==
    [id         : {nextId},
     kind       : {kind},
     generation : CASE kind \in {"Tag", "Wire", "Completion", "Contribution"} -> {generation}
                    [] kind = "Verify" -> {generation, 0}
                    [] OTHER -> {0},
     token      : {CASE kind = "Tag" -> tagToken
                     [] kind = "Wire" -> wireGeneration
                     [] kind \in {"Completion", "Verify"} -> completionToken
                     [] OTHER -> 0},
     wire       : IF kind = "Completion" THEN {wireGeneration, 0} ELSE {0},
     mutation   : IF kind = "Wire" THEN BOOLEAN
                  ELSE {Mutates(kind)},
     cancelled  : {FALSE},
     dispatched : {FALSE}]

\* Faulty variant of Admits: no slot is kept for the heartbeat.
Admits_NoReserve(kind) ==
    /\ maintenance => kind = "Report"
    /\ ~fence
    /\ kind \in Optional => Cardinality(Used) < NumSlots - 2

\* NetworkSubmit: one slot is kept for the heartbeat, two from optional reports.
Admits(kind) ==
    /\ maintenance => kind = "Report"
    /\ ~fence
    /\ kind \in Optional => Cardinality(Used) < NumSlots - 2
    /\ kind # "Poll" => Cardinality(Used) < NumSlots - 1

FirstFree(i) == ~Occupied(i) /\ \A j \in 1..(i - 1) : Occupied(j)

Enqueue(r) ==
    /\ nextId <= MaxId
    /\ Admits(r.kind)
    /\ \E i \in Slots :
        /\ FirstFree(i)
        /\ slots' = [slots EXCEPT ![i] = r]
        /\ age' = [age EXCEPT ![i] = "fresh"]
    /\ nextId' = nextId + 1
    /\ overtaken' = IF r.kind = "Poll" THEN 0 ELSE overtaken

\* Every caller but those of optional reports waits for its callback before it
\* submits again.  A completion is a conditional one, or opens or resends a legacy
\* transaction; once settled, that sends nothing more.
Submit(kind) ==
    /\ MainRuns \/ (main.at = "ota" /\ kind = "Report")
    /\ \E r \in NewRequests(kind) :
        /\ Waiter(r) \notin pending
        /\ Enqueue(r)
        /\ pending' = IF kind \in Optional THEN pending ELSE pending \cup {Waiter(r)}
    /\ kind = "Completion" => transaction # "settled"
    /\ transaction' \in IF kind = "Completion" THEN {transaction, "legacy"} ELSE {transaction}
    /\ UNCHANGED <<active, tokenVars, awaitingRefresh, maintenance, otaRestart, fence,
                   mailbox, worker, urgentRun, main, sent, withdrawn>>

\* Faulty variant of Replaceable: the request may be in flight already.
Replaceable_Active(i) == Occupied(i) /\ slots[i].kind = "Wire"

Replaceable(i) == Queued(i) /\ slots[i].kind = "Wire"

\* NetworkReplaceQueued: WireHttpRequest refreshes its request while it waits.
ReplaceQueued(mutation) ==
    /\ MainRuns
    /\ "Wire" \in pending
    /\ \E i \in Slots :
        /\ Replaceable(i)
        /\ slots' = [slots EXCEPT ![i].generation = generation, ![i].token = wireGeneration,
                                  ![i].mutation = mutation]
        /\ withdrawn' = IF slots[i].cancelled THEN withdrawn ELSE withdrawn \ {slots[i].id}
    /\ UNCHANGED <<active, age, nextId, tokenVars, flagVars, mailbox, worker, urgentRun,
                   main, sent, overtaken>>
-----------------------------------------------------------------------------
(* The main task: withdrawing. *)

\* A withdrawal takes up to four critical sections, and the worker may run
\* between any two of them; main.todo holds those still to come.
Begin(steps) == main' = [main EXCEPT !.todo = steps]
Step(step)   == main' = [main EXCEPT !.todo = main.todo \ {step}]

MayInvalidate == generation < MaxEpoch /\ tagToken < MaxEpoch

\* NetworkIdentityChanged, or WireResetTracking; a new card only forgets.
NewGame ==
    /\ MainRuns /\ MayInvalidate
    /\ \/ Begin({"invalidate", "forget"})
       \/ wireGeneration < MaxEpoch /\ Begin({"invalidate", "forget", "resetWire"})
    /\ UNCHANGED <<queueVars, tokenVars, flagVars, mailbox, worker, urgentRun, history>>

NewCard ==
    /\ MainRuns
    /\ tagToken < MaxEpoch
    /\ Begin({"forget"})
    /\ UNCHANGED <<queueVars, tokenVars, flagVars, mailbox, worker, urgentRun, history>>

\* GeneratorNetworkRequestMaintenance: cancel what is queued, drain what is not.
RequestMaintenance ==
    /\ MainRuns /\ MayInvalidate
    /\ ~maintenance
    /\ maintenance' = TRUE
    /\ slots' = [i \in Slots |-> IF Queued(i) THEN [slots[i] EXCEPT !.cancelled = TRUE]
                                 ELSE slots[i]]
    /\ withdrawn' = withdrawn \cup Ids({i \in Slots : Queued(i)})
    /\ Begin({"invalidate", "forget"})
    /\ UNCHANGED <<active, age, nextId, tokenVars, pending, transaction, awaitingRefresh,
                   otaRestart, fence, mailbox, worker, urgentRun, sent, overtaken>>

\* GeneratorNetworkInvalidateGame: what is bound to the old game is withdrawn.
Invalidate ==
    /\ "invalidate" \in main.todo
    /\ Step("invalidate")
    /\ generation' = generation + 1
    /\ withdrawn' = withdrawn \cup Ids({i \in Unsent : slots[i].generation # 0})
    /\ UNCHANGED <<queueVars, tagToken, completionToken, wireGeneration, flagVars, mailbox,
                   worker, urgentRun, sent, overtaken>>

\* GeneratorNetworkForgetTag: queued card lookups leave the queue at once.
Forgotten(i) == Queued(i) /\ slots[i].kind = "Tag"

ForgetTag ==
    /\ "forget" \in main.todo /\ "invalidate" \notin main.todo
    /\ Step("forget")
    /\ tagToken' = tagToken + 1
    /\ slots' = [i \in Slots |-> IF Forgotten(i) THEN Empty ELSE slots[i]]
    /\ pending' = pending \ {"Tag"}
    /\ withdrawn' = withdrawn \cup Ids({i \in Unsent : slots[i].kind = "Tag"})
    /\ UNCHANGED <<active, age, nextId, generation, completionToken, wireGeneration,
                   transaction, awaitingRefresh, maintenance, otaRestart, fence, mailbox,
                   worker, urgentRun, sent, overtaken>>

\* The rest of WireResetTracking: wireState.reset() under wireStateMux.
ResetWire ==
    /\ main.todo = {"resetWire"}
    /\ Step("resetWire")
    /\ wireGeneration' = wireGeneration + 1
    /\ withdrawn' = withdrawn \cup
           Ids({i \in Unsent : slots[i].kind = "Wire"
                               \/ (slots[i].kind = "Completion" /\ slots[i].wire # 0)})
    /\ UNCHANGED <<queueVars, generation, tagToken, completionToken, flagVars, mailbox,
                   worker, urgentRun, sent, overtaken>>

\* Tag and completion callbacks ignore an answer to an earlier token.
Owns(r) ==
    /\ r.kind = "Tag" => r.token = tagToken
    /\ r.kind = "Completion" => r.token = completionToken
    /\ Waiter(r) = "Verify" => r.token = completionToken

\* Faulty variant of Abandoned: the owner still waits for the old transaction.
Abandoned_Kept == {}

\* The flags of a transaction that its owner gives up or replaces.
Abandoned == {"Completion", "Verify"}

\* The token is renewed, and the queued sends of the old one are cancelled.
RenewToken(cancel) ==
    /\ completionToken < MaxEpoch
    /\ slots' = [i \in Slots |->
           IF cancel /\ Occupied(i) /\ slots[i].kind = "Completion" /\ ~slots[i].dispatched
                /\ slots[i].token = completionToken
           THEN [slots[i] EXCEPT !.cancelled = TRUE] ELSE slots[i]]
    /\ completionToken' = completionToken + 1
    /\ withdrawn' = withdrawn \cup Ids({i \in Unsent : slots[i].kind \in {"Completion", "Verify"}})
    /\ UNCHANGED <<active, age, nextId, generation, tagToken, wireGeneration,
                   awaitingRefresh, maintenance, otaRestart, fence, mailbox, worker,
                   urgentRun, main, sent, overtaken>>

\* NetworkCompletionCancelQueued, or a snapshot that overrides a queued legacy
\* send, cancels what is queued; NetworkLegacyCompletionBegin and a send that was
\* cancelled only renew the token.  All of them clear networkCompletionVerify.
RenewCompletion(cancel) ==
    /\ MainRuns
    /\ RenewToken(cancel)
    /\ pending' = pending \ Abandoned
    /\ transaction' = "none"

\* The callbacks that apply a snapshot of the server.
AppliesSnapshot(r) == r.kind = "Refresh" \/ (Waiter(r) = "Verify" /\ Owns(r))

\* NetworkLegacyCompletionObserveSnapshot: a snapshot confirms or supersedes the
\* open transaction.  The token is renewed, but networkCompletionVerify stays as it
\* is: the answer to a verify that is still out is nobody's.
Settle(cancel) ==
    /\ main.at = "handled" /\ main.todo = {}
    /\ AppliesSnapshot(main.request)
    /\ transaction = "legacy"
    /\ RenewToken(cancel)
    /\ pending' = pending \ {"Completion"}
    /\ transaction' = "settled"

\* A queued resend waited through an outage or too long: it is withdrawn.
WithdrawResend ==
    /\ MainIdle
    /\ \E i \in Slots :
        /\ Queued(i) /\ slots[i].kind = "Completion" /\ slots[i].token = completionToken
        /\ ~slots[i].cancelled
        /\ slots' = [slots EXCEPT ![i].cancelled = TRUE]
        /\ withdrawn' = withdrawn \cup {slots[i].id}
    /\ UNCHANGED <<active, age, nextId, tokenVars, flagVars, mailbox, worker, urgentRun,
                   main, sent, overtaken>>
-----------------------------------------------------------------------------
(* The main task: the mailbox (GeneratorNetworkLoop). *)

\* Faulty variant of Freed: the slot stays occupied.
Freed_Kept(i) == slots

\* Copy the request, then free its slot before the callback runs.
Freed(i) == [slots EXCEPT ![i] = Empty]

MainTake ==
    /\ MainIdle
    /\ mailbox.ready
    /\ main' = [at |-> "callback", request |-> slots[mailbox.slot], todo |-> {}]
    /\ slots' = Freed(mailbox.slot)
    /\ active' = active \ {mailbox.slot}
    /\ age' = [age EXCEPT ![mailbox.slot] = "fresh"]
    /\ UNCHANGED <<nextId, tokenVars, flagVars, mailbox, worker, urgentRun, history>>

Handled == main' = [main EXCEPT !.at = "handled"]

\* NetworkPollResult: done (also when the queue is too full for a snapshot), or
\* kept open until a snapshot has been refreshed, perhaps by a read under way.
PollCallback ==
    /\ main.at = "callback" /\ main.request.kind = "Poll"
    /\ \/ /\ pending' = pending \ {"Poll"}
          /\ awaitingRefresh' = FALSE
          /\ UNCHANGED <<slots, age, nextId, overtaken>>
       \/ /\ "Refresh" \in pending
          /\ awaitingRefresh' = TRUE
          /\ UNCHANGED <<slots, age, nextId, pending, overtaken>>
       \/ /\ "Refresh" \notin pending
          /\ \E r \in NewRequests("Refresh") : Enqueue(r)
          /\ awaitingRefresh' = TRUE
          /\ pending' = pending \cup {"Refresh"}
    /\ Handled
    /\ UNCHANGED <<active, tokenVars, transaction, maintenance, otaRestart, fence, mailbox,
                   worker, urgentRun, sent, withdrawn>>

\* NetworkRefreshResult, which also answers a poll that waited for it.
Refreshed == IF awaitingRefresh THEN {"Refresh", "Poll"} ELSE {"Refresh"}

RefreshCallback ==
    /\ main.at = "callback" /\ main.request.kind = "Refresh"
    /\ pending' = pending \ Refreshed
    /\ awaitingRefresh' = FALSE
    /\ Handled
    /\ UNCHANGED <<queueVars, tokenVars, transaction, maintenance, otaRestart, fence,
                   mailbox, worker, urgentRun, history>>

OtherCallback ==
    /\ main.at = "callback" /\ main.request.kind \notin {"Poll", "Refresh"}
    /\ pending' = IF Owns(main.request) THEN pending \ {Waiter(main.request)} ELSE pending
    /\ Handled
    /\ UNCHANGED <<queueVars, tokenVars, transaction, awaitingRefresh, maintenance,
                   otaRestart, fence, mailbox, worker, urgentRun, history>>

\* The callback no longer needs the payload: the worker may go on.
MainClear ==
    /\ main.at = "handled" /\ main.todo = {}
    /\ mailbox' = [ready |-> FALSE, slot |-> 0, cancelled |-> mailbox.cancelled,
                   payload |-> NoReply]
    /\ main' = Idle
    /\ UNCHANGED <<queueVars, tokenVars, flagVars, worker, urgentRun, history>>
-----------------------------------------------------------------------------
(* The main task: OTA maintenance and restarts. *)

Busy == mailbox.ready \/ Used # {}

\* Everything is drained and Wi-Fi is up: the firmware update runs in the main
\* task; its callback may still queue reports.
OtaStart ==
    /\ MainIdle
    /\ maintenance /\ ~otaRestart
    /\ ~Busy
    /\ main' = [main EXCEPT !.at = "ota"]
    /\ UNCHANGED <<queueVars, tokenVars, flagVars, mailbox, worker, urgentRun, history>>

\* The update returned: the local one resumes play, the GitHub one gave up the
\* memory of BLE and can only restart.
OtaReturn ==
    /\ main.at = "ota"
    /\ main' = Idle
    /\ \/ maintenance' = FALSE /\ UNCHANGED otaRestart
       \/ otaRestart' = TRUE /\ UNCHANGED maintenance
    /\ UNCHANGED <<queueVars, tokenVars, pending, transaction, awaitingRefresh, fence,
                   mailbox, worker, urgentRun, history>>

\* Once drained, or after ten seconds.
OtaRestart ==
    /\ MainIdle
    /\ maintenance /\ otaRestart
    /\ main' = [main EXCEPT !.at = "restarted"]
    /\ otaRestart' = FALSE /\ maintenance' = FALSE
    /\ UNCHANGED <<queueVars, tokenVars, pending, transaction, awaitingRefresh, fence,
                   mailbox, worker, urgentRun, history>>

\* Wi-Fi stayed away for ten seconds.
MaintenanceAborted ==
    /\ MainIdle
    /\ maintenance /\ ~otaRestart
    /\ maintenance' = FALSE
    /\ UNCHANGED <<queueVars, tokenVars, pending, transaction, awaitingRefresh,
                   otaRestart, fence, mailbox, worker, urgentRun, main, history>>

\* Faulty variant of Blocked: a request in flight is overlooked.
Blocked_NoFlight == maintenance \/ worker.at = "halted"

\* NetworkOfflineRecoveryService: a restart for lost Wi-Fi is due, and nothing
\* blocks it.  (An uncertain completion, blocker 2, belongs to the completion.)
Blocked == maintenance \/ worker.at = "halted" \/ mailbox.ready \/ active # {}

RecoveryFence ==
    /\ MainIdle
    /\ ~Blocked
    /\ fence' = TRUE
    /\ main' = [main EXCEPT !.at = "fenced"]
    /\ UNCHANGED <<queueVars, tokenVars, pending, transaction, awaitingRefresh,
                   maintenance, otaRestart, mailbox, worker, urgentRun, history>>

\* The association is looked at again behind the fence: back, or really gone.
RecoveryLifted ==
    /\ main.at = "fenced"
    /\ fence' = FALSE
    /\ main' = Idle
    /\ UNCHANGED <<queueVars, tokenVars, pending, transaction, awaitingRefresh,
                   maintenance, otaRestart, mailbox, worker, urgentRun, history>>

RecoveryRestart ==
    /\ main.at = "fenced"
    /\ main' = [main EXCEPT !.at = "restarted"]
    /\ UNCHANGED <<queueVars, tokenVars, flagVars, mailbox, worker, urgentRun, history>>

\* NetworkPollResult: the server took back the reboot that the staff asked for,
\* as the device had told it to.
ServerRestart ==
    /\ main.at = "callback" /\ main.request.kind = "Poll"
    /\ "Watchdog" \notin pending
    /\ main' = [main EXCEPT !.at = "restarted"]
    /\ UNCHANGED <<queueVars, tokenVars, flagVars, mailbox, worker, urgentRun, history>>

\* The halted worker no longer feeds its registered task watchdog.
WatchdogReset ==
    /\ worker.at = "halted" /\ main.at # "restarted"
    /\ main' = [main EXCEPT !.at = "restarted"]
    /\ UNCHANGED <<queueVars, tokenVars, flagVars, mailbox, worker, urgentRun, history>>

\* ESP.restart: nothing of this module survives it, so that the next boot is a
\* behaviour of its own; here the main task stays where it is.
Restarted ==
    /\ main.at = "restarted"
    /\ UNCHANGED vars

\* The clock: a queued request grows older.
Grow(i) ==
    /\ Occupied(i)
    /\ \/ /\ age[i] = "fresh"
          /\ slots[i].kind \in Optional \cup {"Poll"}
          /\ age' = [age EXCEPT ![i] = "overdue"]
       \/ /\ age[i] = (IF slots[i].kind = "Poll" THEN "overdue" ELSE "fresh")
          /\ ~slots[i].mutation
          /\ age' = [age EXCEPT ![i] = "expired"]
    /\ UNCHANGED <<slots, active, nextId, tokenVars, flagVars, mailbox, worker, urgentRun,
                   main, history>>

Withdraw == Invalidate \/ ForgetTag \/ ResetWire
Deliver == MainTake \/ PollCallback \/ RefreshCallback \/ OtherCallback \/ MainClear

Next ==
    \/ Worker \/ WorkerHalt
    \/ \E kind \in Kinds : Submit(kind)
    \/ \E mutation \in BOOLEAN : ReplaceQueued(mutation)
    \/ NewGame \/ NewCard \/ RequestMaintenance
    \/ Withdraw
    \/ \E cancel \in BOOLEAN : RenewCompletion(cancel) \/ Settle(cancel)
    \/ WithdrawResend
    \/ Deliver
    \/ OtaStart \/ OtaReturn \/ OtaRestart \/ MaintenanceAborted
    \/ RecoveryFence \/ RecoveryLifted \/ RecoveryRestart
    \/ ServerRestart \/ WatchdogReset \/ Restarted
    \/ \E i \in Slots : Grow(i)

Spec == Init /\ [][Next]_vars
-----------------------------------------------------------------------------
(* Properties. *)

\* A withdrawal published before the dispatch boundary wins: no request that a
\* new game, card, completion token, wire cycle or maintenance withdrew while it
\* was not dispatched ever reaches the transport (network.ino NetworkWorker).
WithdrawnNeverSent == sent \cap withdrawn = {}

\* While the worker holds a request, its slot keeps that request: nothing frees,
\* reuses or rewrites it, so that the callback is called for what was sent.
InFlight == worker.at \in {"check", "boundary", "sending", "discarded", "written"}
SlotHeld ==
    InFlight =>
        /\ active = {worker.slot}
        /\ Occupied(worker.slot)
        /\ [slots[worker.slot] EXCEPT !.cancelled = FALSE] = [worker.request EXCEPT !.cancelled = FALSE]

\* A request reaches the transport at most once: neither the freed slot nor the
\* worker's copy of it is ever sent again (a legacy Send decrements a counter of
\* the server each time).
SentOnce == worker.at \in {"check", "boundary"} => worker.request.id \notin sent

\* A callback reads the answer to its own request, complete and not overwritten:
\* the worker stays away from the mailbox until the callback has returned.
ReplyBelongs ==
    main.at \in {"callback", "handled"} =>
        /\ worker.at \in {"select", "halted"}
        /\ mailbox.payload = IF mailbox.cancelled THEN NoReply ELSE main.request.id

\* The dispatched flag a callback sees is exact: a completion that may have
\* reached the server is never taken for one that did not.
DispatchedExact ==
    main.at = "callback" => (main.request.dispatched <=> main.request.id \in sent)

\* Behind the recovery fence nothing is in flight, and nothing starts: a restart
\* there cannot cut a request in two (NetworkOfflineRecoveryService).
QuietFence == fence => ~InFlight /\ active = {} /\ ~mailbox.ready

\* A request goes from its owner to the transport and back as one: its slot is
\* nobody else's while it is in flight, the answer its callback reads is its own,
\* what the callback learns of its dispatch is exact, it is sent once, and a
\* restart behind the fence does not cut it in two.
QueueExact == TypeOK /\ SlotHeld /\ ReplyBelongs /\ DispatchedExact /\ SentOnce /\ QuietFence

\* Every owner that waits for an answer has a request of its own, with a token it
\* will accept, on its way to it: no withdrawal, restart of the heartbeat or lost
\* callback leaves a flag set that nobody will clear.  The one exception is the
\* verify of a legacy transaction that a snapshot settles meanwhile.
OnItsWay(waiter) ==
    LET Answers(r) == Waiter(r) = waiter /\ Owns(r)
    IN  \/ \E i \in Slots : Occupied(i) /\ Answers(slots[i])
        \/ main.at = "callback" /\ Answers(main.request)
NobodyForgotten ==
    main.at # "restarted" =>
        \A waiter \in pending :
            \/ OnItsWay(waiter)
            \/ waiter = "Poll" /\ awaitingRefresh /\ OnItsWay("Refresh")
            \/ waiter = "Verify" /\ transaction = "settled"

\* The heartbeat always finds a slot, whatever fills the queue.
HeartbeatAdmitted == "Poll" \notin pending => Cardinality(Used) < NumSlots

\* A heartbeat waits behind at most three other requests while online
\* (comment at network.ino:205).
HeartbeatNotStarved == overtaken <= MaxUrgentRun

\* The heartbeat is served: it is admitted, and then not starved.
HeartbeatServed == HeartbeatAdmitted /\ HeartbeatNotStarved
-----------------------------------------------------------------------------
(* Liveness.  Both tasks loop for ever and every transport call ends at its    *)
(* deadline; nothing is assumed of what the game does, nor of Wi-Fi, so that   *)
(* the worker need only pick up what it may pick up offline.  The fence is up  *)
(* for a few instructions and returns thirty seconds later at the earliest    *)
(* (GeneratorOfflineRecovery::delayMs): it cannot always be up when the worker,*)
(* which looks every 25 ms, looks; hence the worker's strong fairness.         *)

Fairness ==
    /\ SF_vars(WorkerProceeds \/ WorkerSelect(FALSE))
    /\ WF_vars(Deliver)
    /\ WF_vars(Withdraw)
    /\ WF_vars(RecoveryLifted \/ RecoveryRestart)
    /\ \A i \in Slots : WF_vars(Grow(i))

FairSpec == Spec /\ Fairness

\* Even if Wi-Fi never comes back, the owner of a read hears of it: what cannot
\* be sent expires, and an expired request is answered offline.
Over == main.at = "restarted" \/ worker.at = "halted"
ReadsAnswered ==
    \A read \in {"Poll", "Refresh", "Tag"} :
        read \in pending ~> (read \notin pending \/ Over)
=============================================================================

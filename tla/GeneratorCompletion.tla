------------------------- MODULE GeneratorCompletion -------------------------
(***************************************************************************)
(* How HAS1_generator completes a stage on the game server (network.ino    *)
(* 382-930, generator_completion_store.h).  Against a server of protocol 1 *)
(* a completion is conditional: its intent (epoch, revision, count) is     *)
(* saved to flash, CompleteGenerator compares and sets on it, and only a   *)
(* read of the row settles it, across reboots.  Against an older server it *)
(* is a plain Send, which applies however often it arrives: nothing is     *)
(* stored, and it is repeated only if no byte of it left the device.       *)
(*                                                                         *)
(* One stage is followed, from the one before it to Target; the wires, the *)
(* confirmed wire context and full snapshots are reduced to what the       *)
(* completion reads of them (WireVote, WireSync), the queue to the slots   *)
(* of the completion and of its read (NetworkQueue).  A change of the game *)
(* also resets the wires in the same pass of the loop, so one flag says    *)
(* whether a request or a transaction is still of this cycle.              *)
(*                                                                         *)
(* Left out: a device or MAC other than the intent's, maintenance, the     *)
(* backoff times (any delay is possible), and presentation.                *)
(***************************************************************************)
EXTENDS Integers

CONSTANTS
    Counts,         \* wire counts
    Maximum,        \* max_battery_pack
    Setups          \* what is followed, and under which bounds: see below

AllFaults == {"crash", "lost", "late", "connect", "flash", "queue",
              "outside", "restart", "protocol", "offline", "replug", "aged"}
MaxAttempts == 3        \* kNetworkLegacyMaxAttempts

ASSUME GeneratorCompletionAssumption ==
    /\ Counts \subseteq Nat /\ Maximum \in Counts
    /\ Setups \subseteq [target : {"battery_max", "repaired"}, protocols : (SUBSET {0, 1}) \ {{}},
                         maxEpoch : Nat \ {0},
                         maxRevision : Nat, may : SUBSET AllFaults, maxFaults : Nat]

VARIABLES
    setup,          \* chosen at the start
    tx,             \* networkCompletion*: the transaction of this boot
    send, read,     \* its outstanding Completion and Verify requests
    verify,         \* networkCompletionVerify
    storeFault,     \* networkCompletionStoreFault
    awaitResync,    \* networkCompletionAwaitResync
    resetCycle,     \* networkResetCyclePending
    protocol,       \* networkServerProtocol, Unknown before a snapshot
    view,           \* my: the stage last read, Unseen before networkBootReady
    stable,         \* the wire vote: Unsettled unless it is qualified
    bypass,         \* wireServerCompleted
    context,        \* wireContext, and whether WireCompletionContext gives it
    journal,        \* the record in flash
    server,         \* the row of this device on the server
    late,           \* requests the device has given up that may still arrive
    effects,        \* history: how often the server performed this completion
    touched,        \* history: others wrote the row since the transaction began
    faults          \* faults so far

requestVars == <<send, read, verify>>
flagVars    == <<storeFault, awaitResync, resetCycle, protocol>>
inputVars   == <<view, stable, bypass, context>>
serverVars  == <<server, late, effects, touched>>
faultVars   == <<setup, faults>>
vars == <<tx, requestVars, flagVars, inputVars, journal, serverVars, faultVars>>

Target      == setup.target         \* the stage that is completed
Protocols   == setup.protocols      \* the completion_protocol values the server may have
MaxEpoch    == setup.maxEpoch       \* bounds of the server's row
MaxRevision == setup.maxRevision
Faults      == setup.may            \* the faults that may happen, see May
MaxFaults   == setup.maxFaults      \* bound on them

Stages     == {"activate", "battery_max", "repaired", "setting"}
StartStage == IF Target = "battery_max" THEN "activate" ELSE "battery_max"
Unseen     == "unseen"
Unsettled  == -1
Unknown    == -1
Active(stage) == stage # "setting"     \* game_state; its stages are monitored

NoRequest == [at |-> "none"]
Nothing   == [kind |-> "none"]
Row(row)  == [kind |-> "row", row |-> row]
Empty     == [kind |-> "empty"]
Corrupt   == [kind |-> "corrupt"]
Intent(t) == [kind |-> "intent", epoch |-> t.epoch, revision |-> t.revision, count |-> t.count]

NoTransaction ==
    [mode |-> "none", epoch |-> 0, revision |-> 0, count |-> 0, start |-> StartStage,
     sent |-> FALSE, confirmed |-> FALSE, superseded |-> FALSE, dispatched |-> FALSE,
     durable |-> FALSE, restored |-> FALSE, needsFull |-> FALSE, current |-> FALSE,
     bypass |-> FALSE, attempts |-> 0, resend |-> FALSE, withdrawn |-> FALSE]
NoContext == [valid |-> FALSE, epoch |-> 0, revision |-> 0, stage |-> "setting", count |-> 0, protocol |-> 0]

Resolved == tx.confirmed \/ tx.superseded
\* Mutant: a restored intent does not hold the wire reports back.
Pending_NotRestored ==
    storeFault \/ (tx.mode = "conditional" /\ tx.sent /\ ~Resolved /\ ~tx.restored)

\* GeneratorNetworkCompletionPending
Pending == storeFault \/ (tx.mode = "conditional" /\ tx.sent /\ ~Resolved)
BootReady == view # Unseen

May(kind, n) == n = 0 \/ kind \in Faults
Spend(n) == faults + n <= MaxFaults /\ faults' = faults + n /\ UNCHANGED setup
Cost(ok) == IF ok THEN 0 ELSE 1

TypeOK ==
    /\ tx \in [mode : {"none", "conditional", "legacy"}, epoch : 0..MaxEpoch,
               revision : 0..MaxRevision, count : Counts \cup {0, Unsettled}, start : Stages,
               sent : BOOLEAN, confirmed : BOOLEAN, superseded : BOOLEAN,
               dispatched : BOOLEAN, durable : BOOLEAN, restored : BOOLEAN,
               needsFull : BOOLEAN, current : BOOLEAN, bypass : BOOLEAN,
               attempts : 0..MaxAttempts, resend : BOOLEAN, withdrawn : BOOLEAN]
    /\ send.at \in {"none", "queued", "sent", "done"}
    /\ read.at \in {"none", "queued", "done"}
    /\ journal.kind \in {"empty", "intent", "corrupt"}
    /\ view \in Stages \cup {Unseen}
    /\ stable \in Counts \cup {Unsettled}
    /\ server \in [epoch : 1..MaxEpoch, revision : 0..MaxRevision, stage : Stages,
                   count : Counts, protocol : Protocols]
    /\ faults \in 0..MaxFaults

Init ==
    /\ setup \in Setups
    /\ tx = NoTransaction /\ send = NoRequest /\ read = NoRequest /\ verify = FALSE
    /\ storeFault = FALSE /\ awaitResync = FALSE /\ resetCycle = FALSE /\ protocol = Unknown
    /\ view = Unseen /\ stable = Unsettled /\ bypass = FALSE /\ context = NoContext
    /\ journal = Empty
    /\ server \in [epoch : {1}, revision : {0}, stage : {StartStage}, count : Counts,
                   protocol : Protocols]
    /\ late = {} /\ effects = 0 /\ touched = FALSE /\ faults = 0
-----------------------------------------------------------------------------
(* The request queue, for one Completion and one Verify request.  A request *)
(* whose token was renewed leaves both: its answer is nobody's, but if it   *)
(* was under way it may still reach the server.                             *)

Busy == send.at \in {"sent", "done"} \/ read.at = "done"
Wire(s) == [mode |-> s.mode, epoch |-> s.epoch, revision |-> s.revision]
Orphans == IF send.at = "sent" THEN late \cup {Wire(send)} ELSE late

Queued(t, again) ==
    [at |-> "queued", mode |-> t.mode, epoch |-> t.epoch, revision |-> t.revision,
     count |-> t.count, bypass |-> t.bypass, current |-> t.current, resend |-> again,
     cancelled |-> FALSE, dispatched |-> FALSE, reply |-> Nothing]
Asked(kind) == [at |-> "queued", kind |-> kind, current |-> TRUE, reply |-> Nothing]

\* Whether networkCompletionResendId is set.
Resending == send.at # "none" /\ (send.mode = "conditional" \/ send.resend)

RenewToken == send' = NoRequest /\ read' = NoRequest /\ late' = Orphans

\* NetworkDiscardReason at the dispatch of a completion.
StillTrue ==
    /\ ~send.cancelled /\ send.current
    /\ send.bypass \/ stable = send.count

Answer(s, reply) == [s EXCEPT !.at = "done", !.reply = reply]
Idle == UNCHANGED <<tx, verify, flagVars, inputVars, journal>>

SendDiscard ==
    /\ send.at = "queued" /\ ~Busy /\ ~StillTrue
    /\ send' = Answer(send, [kind |-> "cancelled"])
    /\ UNCHANGED <<read, serverVars, faultVars>> /\ Idle

SendDispatch ==
    /\ send.at = "queued" /\ ~Busy /\ StillTrue
    /\ send' = [send EXCEPT !.at = "sent", !.dispatched = TRUE]
    /\ UNCHANGED <<read, serverVars, faultVars>> /\ Idle

\* NetworkRequestUndelivered: the connection failed, not a byte was written.
SendUndelivered ==
    /\ send.at = "sent" /\ May("connect", 1) /\ Spend(1)
    /\ send' = Answer(send, [kind |-> "undelivered"])
    /\ UNCHANGED <<read, serverVars>> /\ Idle
-----------------------------------------------------------------------------
(* The server (external). *)

Applies(w) ==
    /\ server.revision < MaxRevision
    /\ IF w.mode = "legacy"
       THEN server.protocol = 0 \/ server.stage # Target
       ELSE /\ server.protocol = 1
            /\ server.epoch = w.epoch /\ server.revision = w.revision
            /\ server.stage = StartStage /\ server.count >= Maximum

Handle(w) ==
    IF Applies(w)
    THEN /\ server' = [server EXCEPT !.stage = Target, !.revision = @ + 1]
         /\ effects' = IF effects = 2 THEN 2 ELSE effects + 1
    ELSE UNCHANGED <<server, effects>>

\* CompleteGenerator answers with the row, applied or in conflict; a server
\* without it, and a Send, with something the device does not look at.
AnswerOf(w, row) ==
    IF w.mode = "conditional" /\ row.protocol = 1 THEN Row(row) ELSE [kind |-> "failed"]

SendAnswered ==
    /\ send.at = "sent"
    /\ Handle(Wire(send))
    /\ send' = Answer(send, AnswerOf(Wire(send), server'))
    /\ UNCHANGED <<read, late, touched, faultVars>> /\ Idle

SendAnswerLost ==
    /\ send.at = "sent" /\ May("lost", 1) /\ Spend(1)
    /\ Handle(Wire(send))
    /\ send' = Answer(send, [kind |-> "failed"])
    /\ UNCHANGED <<read, late, touched>> /\ Idle

SendLost ==
    /\ send.at = "sent" /\ May("lost", 1) /\ Spend(1)
    /\ send' = Answer(send, [kind |-> "failed"])
    /\ UNCHANGED <<read, serverVars>> /\ Idle

SendLate ==
    /\ send.at = "sent" /\ May("late", 1) /\ Spend(1)
    /\ send' = Answer(send, [kind |-> "failed"])
    /\ late' = late \cup {Wire(send)}
    /\ UNCHANGED <<read, server, effects, touched>> /\ Idle

ArriveLate ==
    \E w \in late :
        /\ Handle(w)
        /\ late' = late \ {w}
        /\ UNCHANGED <<requestVars, touched, faultVars, tx, flagVars, inputVars, journal>>

ReadAnswered ==
    /\ read.at = "queued" /\ ~Busy
    /\ read' = Answer(read, IF read.current THEN Row(server) ELSE [kind |-> "cancelled"])
    /\ UNCHANGED <<send, serverVars, faultVars>> /\ Idle

ReadLost ==
    /\ read.at = "queued" /\ ~Busy /\ May("lost", 1) /\ Spend(1)
    /\ read' = Answer(read, [kind |-> "failed"])
    /\ UNCHANGED <<send, serverVars>> /\ Idle

\* Staff, the game or another device write the row.  A plain Send the device gave
\* up is taken to arrive or to die before people act on the row or restart the
\* server; a conditional request may survive both.
\* Revisions are bounded; one is left for the completion.
Room == server.revision + 1 < MaxRevision
Conditional(ws) == {w \in ws : w.mode = "conditional"}

OutsideWrite ==
    /\ May("outside", 1) /\ Spend(1) /\ Room
    /\ \E stage \in Stages, count \in Counts :
        /\ server' = [server EXCEPT !.stage = stage, !.count = count, !.revision = @ + 1]
        /\ effects' = IF stage = server.stage THEN effects ELSE 0
    /\ touched' = TRUE
    /\ late' = Conditional(late)
    /\ UNCHANGED <<tx, requestVars, flagVars, inputVars, journal>>

ServerRestart ==
    /\ May("restart", 1) /\ Spend(1) /\ server.epoch < MaxEpoch
    /\ \E p \in Protocols :
        server' = [server EXCEPT !.epoch = @ + 1, !.revision = 0, !.protocol = p]
    /\ touched' = TRUE
    /\ late' = Conditional(late)
    /\ UNCHANGED <<effects, tx, requestVars, flagVars, inputVars, journal>>

\* The server is rolled back or upgraded behind the same epoch; rare, and counted
\* as two faults.
ProtocolChange ==
    /\ May("protocol", 2) /\ Spend(2)
    /\ \E p \in Protocols \ {server.protocol} : server' = [server EXCEPT !.protocol = p]
    /\ UNCHANGED <<late, effects, touched, tx, requestVars, flagVars, inputVars, journal>>
-----------------------------------------------------------------------------
(* What the completion uses of the rest of the device. *)

\* WireResetTracking (and GeneratorNetworkInvalidateGame): the transaction and
\* the requests of the cycle so far are no longer current.
Stale(r)  == IF r.at = "none" THEN r ELSE [r EXCEPT !.current = FALSE]
ResetWire ==
    /\ stable' = Unsettled /\ bypass' = FALSE
    /\ context' = [context EXCEPT !.valid = FALSE]

\* NetworkSubmit of a completion; a full queue refuses it.
Submit(t, again, admitted) == send' = IF admitted THEN Queued(t, again) ELSE NoRequest
Queues(admitted) == May("queue", Cost(admitted)) /\ Spend(Cost(admitted))

\* GeneratorCompletionStore::clear: erase, commit and read again.  It fails before
\* or after the record is gone.
Erased(durable, cleared) ==
    IF ~durable THEN cleared /\ journal' = journal
    ELSE IF cleared THEN journal' = Empty
    ELSE journal' \in {journal, Empty}

\* NetworkCompletionResolve
Resolve(t, confirmed) ==
    \E cleared \in BOOLEAN :
        /\ May("flash", Cost(cleared)) /\ Spend(Cost(cleared))
        /\ Erased(t.durable, cleared)
        /\ storeFault' = (storeFault \/ ~cleared)
        /\ tx' = [t EXCEPT !.confirmed = confirmed, !.superseded = ~confirmed,
                           !.needsFull = confirmed /\ Target = "repaired",
                           !.durable = t.durable /\ ~cleared,
                           !.current = t.current /\ confirmed]
        /\ RenewToken /\ verify' = FALSE
        /\ IF confirmed
           THEN /\ context' = [context EXCEPT !.valid = FALSE]
                /\ UNCHANGED <<awaitResync, resetCycle, stable, bypass>>
           ELSE awaitResync' = TRUE /\ resetCycle' = TRUE /\ ResetWire

\* NetworkCompletionPhysical
Physical(t) == stable = t.count /\ stable # Unsettled /\ (t.restored \/ t.current)
-----------------------------------------------------------------------------
(* Answers of a conditional transaction: NetworkCompletionSnapshot.  Of its two *)
(* requests only one is ever out, so no handler leaves any behind.          *)

\* Mutant: the answered read is not forgotten.
Keep_Waiting(t) ==
    /\ tx' = t
    /\ send' = NoRequest /\ read' = NoRequest /\ late' = late /\ verify' = verify
    /\ UNCHANGED <<storeFault, awaitResync, resetCycle, inputVars, journal, faultVars>>

Keep(t) ==
    /\ tx' = t
    /\ send' = NoRequest /\ read' = NoRequest /\ late' = late /\ verify' = FALSE
    /\ UNCHANGED <<storeFault, awaitResync, resetCycle, inputVars, journal, faultVars>>

\* An older row, or the target at the revision the intent started from, says
\* nothing of the intent.
SaysNothing(t, row) ==
    /\ row.epoch = t.epoch
    /\ \/ row.revision < t.revision
       \/ row.stage = Target /\ row.revision = t.revision

SameContext(t, row) ==
    /\ row.epoch = t.epoch /\ row.revision = t.revision
    /\ row.stage = StartStage /\ (t.restored \/ row.stage = t.start)
    /\ row.count = t.count

Bound(t) == t.restored \/ t.current
Settles(t, row) == row.stage = Target \/ ~SameContext(t, row) \/ ~Bound(t)
Confirms(t, row) ==
    /\ Active(view) /\ Bound(t)
    /\ row.epoch = t.epoch /\ row.stage = Target

\* A restored intent is bound to the cycle of this boot.
Bind(t) ==
    IF ~t.restored THEN t
    ELSE [t EXCEPT !.restored = FALSE, !.current = TRUE,
                   !.start = IF Target = "battery_max" THEN StartStage ELSE view]

JudgeSettled(t, row) ==
    LET confirmed == Confirms(t, row)
    IN  /\ Resolve(IF confirmed /\ t.restored
                   THEN [t EXCEPT !.restored = FALSE, !.current = TRUE] ELSE t, confirmed)
        /\ view' = IF confirmed /\ Target = "battery_max" THEN row.stage ELSE view

\* NetworkCompletionResendSubmit: the same intent again.
Resend(t) ==
    /\ ~storeFault /\ t.durable
    /\ \E admitted \in BOOLEAN :
        /\ Queues(admitted) /\ Submit(t, FALSE, admitted)
    /\ tx' = t
    /\ read' = NoRequest /\ verify' = FALSE /\ late' = late
    /\ UNCHANGED <<storeFault, awaitResync, resetCycle, inputVars, journal>>

\* NetworkLegacyCompletionSubmit
MaySubmit(t) == ~t.sent /\ ~storeFault /\ (bypass \/ stable # Unsettled)
Submitted(t) ==
    [t EXCEPT !.sent = TRUE, !.count = stable, !.bypass = bypass, !.start = view,
              !.attempts = 0, !.resend = FALSE, !.withdrawn = FALSE]
LegacySubmit(t, admitted) ==
    IF MaySubmit(t) /\ admitted
    THEN tx' = Submitted(t) /\ send' = Queued(Submitted(t), FALSE)
    ELSE tx' = t /\ send' = NoRequest

\* NetworkCompletionDowngrade: the server has no CompleteGenerator any more, so the
\* intent was not applied; it is finished by a plain Send, unless its record stays.
Downgrade(t) ==
    /\ \E cleared, admitted \in BOOLEAN :
        /\ May("flash", Cost(cleared)) /\ May("queue", Cost(admitted))
        /\ Spend(Cost(cleared) + Cost(admitted))
        /\ Erased(t.durable, cleared)
        /\ storeFault' = (storeFault \/ ~cleared)
        /\ IF cleared
           THEN LegacySubmit([t EXCEPT !.durable = FALSE, !.mode = "legacy", !.sent = FALSE,
                                       !.dispatched = FALSE, !.attempts = 0], admitted)
           ELSE tx' = [t EXCEPT !.superseded = TRUE] /\ send' = NoRequest
    /\ read' = NoRequest /\ verify' = FALSE /\ late' = late
    /\ UNCHANGED <<awaitResync, resetCycle, inputVars>>

Judge(t, row, mutation) ==
    /\ protocol' = row.protocol
    /\ \/ /\ SaysNothing(t, row)
          /\ Keep(t)
       \/ /\ ~SaysNothing(t, row) /\ Settles(t, row)
          /\ JudgeSettled(t, row)
       \/ /\ ~SaysNothing(t, row) /\ ~Settles(t, row)
          /\ t.restored /\ stable = Unsettled
          /\ Keep(t)
       \/ /\ ~SaysNothing(t, row) /\ ~Settles(t, row)
          /\ ~(t.restored /\ stable = Unsettled) /\ ~Physical(t)
          /\ Resolve(t, FALSE) /\ UNCHANGED view
       \/ /\ ~SaysNothing(t, row) /\ ~Settles(t, row) /\ Physical(t)
          /\ IF row.protocol # 1 THEN Downgrade(Bind(t))
             ELSE IF mutation THEN Keep(Bind(t)) ELSE Resend(Bind(t))

Void(request) == request.reply.kind # "row" \/ ~request.current

\* Mutant: a Send without an answer is taken for done.
ConditionalSendResult_Optimistic ==
    /\ send.at = "done" /\ send.mode = "conditional"
    /\ LET t == [tx EXCEPT !.dispatched = @ \/ send.dispatched]
       IN  IF Void(send) THEN Resolve(t, TRUE) /\ UNCHANGED <<protocol, view>>
           ELSE Judge(t, send.reply.row, TRUE)
    /\ UNCHANGED <<server, effects, touched>>

\* NetworkCompletionSendResult
ConditionalSendResult ==
    /\ send.at = "done" /\ send.mode = "conditional"
    /\ LET t == [tx EXCEPT !.dispatched = @ \/ send.dispatched]
       IN  IF Void(send) THEN Keep(t) /\ UNCHANGED protocol
           ELSE Judge(t, send.reply.row, TRUE)
    /\ UNCHANGED <<server, effects, touched>>

\* NetworkCompletionVerifyResult
ConditionalVerifyResult ==
    /\ read.at = "done" /\ read.kind = "conditional"
    /\ IF Void(read) THEN Keep(tx) /\ UNCHANGED protocol
       ELSE Judge(tx, read.reply.row, FALSE)
    /\ UNCHANGED <<server, effects, touched>>
-----------------------------------------------------------------------------
(* Full snapshots (ReceiveMine) and the answers of a plain Send. *)

\* NetworkApplySnapshot up to the completion: what a new stage does to the cycle.
Enters(row) == view # row.stage
Resets(row) ==
    \/ view = Unseen \/ Active(view) # Active(row.stage)
    \/ Enters(row) /\ row.stage = "activate"
    \/ resetCycle /\ ~Enters(row) /\ row.stage \in {"activate", "setting"}

\* WireAcceptServerCompletion: a battery_max this device did not reach itself,
\* which the model leaves open unless the cycle was just reset.
ApplyInputs(row) ==
    /\ view' = row.stage
    /\ stable' = IF Resets(row) THEN Unsettled ELSE stable
    /\ context' = IF Resets(row) \/ Enters(row) THEN [context EXCEPT !.valid = FALSE] ELSE context
    /\ bypass' \in IF row.stage = "battery_max" /\ Enters(row) THEN BOOLEAN
                   ELSE IF row.stage = "battery_max" /\ resetCycle THEN {TRUE}
                   ELSE IF Resets(row) THEN {FALSE} ELSE {bypass}
    /\ awaitResync' = FALSE /\ resetCycle' = FALSE

Carried(r, row) == IF Resets(row) THEN Stale(r) ELSE r
After(t, row)   == [t EXCEPT !.current = @ /\ ~Resets(row)]

\* NetworkLegacyCompletionObserveSnapshot
Observes(t, row)   == t.sent /\ t.current /\ Active(row.stage)
Leaves(t, row)     == row.stage # t.start
SeenDone(t, row)   == t.confirmed \/ row.stage = Target
SeenPast(t, row)   == t.superseded \/ (Target = "battery_max" /\ row.stage = "repaired")
Over(t, row)       == SeenDone(t, row) \/ SeenPast(t, row)
Cancels(t, row)    == Leaves(t, row) /\ send.at = "queued"
Renews(t, row) ==
    Cancels(t, row) \/ (Over(t, row) /\ ~t.confirmed /\ ~t.superseded)
Observed(t, row) ==
    [t EXCEPT !.confirmed = SeenDone(t, row), !.superseded = SeenPast(t, row),
              !.sent = Over(t, row) \/ ~Cancels(t, row),
              !.resend = @ /\ ~Leaves(t, row) /\ ~Over(t, row),
              !.withdrawn = @ /\ ~Cancels(t, row) /\ ~Over(t, row)]

\* The read r is the one still out after the handler, waiting its flag.
ApplyLegacy(t, r, waiting, row) ==
    IF Observes(t, row)
    THEN /\ tx' = Observed(t, row)
         /\ IF Renews(t, row)
            THEN send' = NoRequest /\ read' = NoRequest /\ late' = Orphans
            ELSE send' = Carried(send, row) /\ read' = Carried(r, row) /\ late' = late
         /\ verify' = (waiting /\ ~(Cancels(t, row) /\ ~Over(t, row)))
    ELSE /\ tx' = t /\ send' = Carried(send, row) /\ read' = Carried(r, row)
         /\ verify' = waiting /\ late' = late

FullSnapshot ==
    /\ ~Busy
    /\ LET t == After(tx, server)
       IN  IF tx.mode = "conditional" /\ tx.needsFull /\ server.stage # Target
           THEN Resolve(t, FALSE) /\ view' = server.stage
           ELSE /\ ApplyInputs(server)
                /\ IF tx.mode = "legacy" THEN ApplyLegacy(t, read, verify, server)
                   ELSE /\ tx' = [t EXCEPT !.needsFull = FALSE]
                        /\ send' = Carried(send, server) /\ read' = Carried(read, server)
                        /\ UNCHANGED <<verify, late>>
                /\ UNCHANGED <<storeFault, journal, faultVars>>
    /\ UNCHANGED <<protocol, server, effects, touched>>

\* NetworkLegacyCompletionVerifyResult: a full snapshot, after which an undelivered
\* Send may go again.
MayResend(t, row) ==
    /\ t.resend /\ ~t.confirmed /\ ~t.superseded /\ t.current
    /\ row.stage = t.start /\ Active(row.stage)

LegacyVerifyResult ==
    /\ read.at = "done" /\ read.kind = "legacy"
    /\ IF Void(read)
       THEN /\ read' = NoRequest /\ verify' = FALSE
            /\ UNCHANGED <<tx, send, late, inputVars, awaitResync, resetCycle, faultVars>>
       ELSE LET row == read.reply.row
                t   == After(tx, row)
            IN  /\ ApplyInputs(row)
                /\ IF Observes(t, row) /\ MayResend(t, row)
                   THEN \E admitted \in BOOLEAN :
                        /\ Queues(admitted) /\ Submit(t, TRUE, admitted)
                        /\ tx' = IF admitted THEN [t EXCEPT !.resend = FALSE, !.withdrawn = FALSE] ELSE t
                        /\ read' = NoRequest /\ verify' = FALSE /\ UNCHANGED late
                   ELSE ApplyLegacy(t, NoRequest, FALSE, row) /\ UNCHANGED faultVars
    /\ UNCHANGED <<storeFault, protocol, journal, server, effects, touched>>

\* NetworkLegacyCompletionSendResult
Withdrawn(t)   == [t EXCEPT !.withdrawn = FALSE, !.resend = TRUE]
NeverSent(t)   == [t EXCEPT !.sent = FALSE, !.resend = FALSE, !.withdrawn = FALSE]
\* Mutants: any failure may be sent again; a Send that went out is taken for done.
Attempted_AnyFailure(t, undelivered) ==
    LET n == t.attempts + (IF send.dispatched THEN 1 ELSE 0)
    IN  [t EXCEPT !.attempts = n, !.dispatched = @ \/ send.dispatched, !.resend = n < MaxAttempts]
Attempted_Trusting(t, undelivered) ==
    LET n == t.attempts + (IF send.dispatched THEN 1 ELSE 0)
    IN  [t EXCEPT !.attempts = n, !.confirmed = ~undelivered,
                  !.dispatched = @ \/ (send.dispatched /\ ~undelivered),
                  !.resend = IF undelivered THEN n < MaxAttempts ELSE @]
Attempted(t, undelivered) ==
    LET n == t.attempts + (IF send.dispatched THEN 1 ELSE 0)
    IN  [t EXCEPT !.attempts = n,
                  !.dispatched = @ \/ (send.dispatched /\ ~undelivered),
                  !.resend = IF undelivered THEN n < MaxAttempts ELSE @]

LegacySendResult ==
    /\ send.at = "done" /\ send.mode = "legacy"
    /\ LET cancelled == send.reply.kind = "cancelled" \/ ~send.current
       IN  IF cancelled /\ ~send.dispatched
           THEN IF send.resend /\ tx.withdrawn
                THEN tx' = Withdrawn(tx) /\ send' = NoRequest /\ UNCHANGED <<read, verify, late>>
                ELSE tx' = NeverSent(tx) /\ RenewToken /\ verify' = FALSE
           ELSE /\ tx' = Attempted(tx, ~cancelled /\ send.reply.kind = "undelivered")
                /\ send' = NoRequest /\ UNCHANGED <<read, verify, late>>
    /\ UNCHANGED <<flagVars, inputVars, journal, server, effects, touched, faultVars>>
-----------------------------------------------------------------------------
(* The services of the main loop: NetworkCompletionService. *)

Unresolved == tx.sent /\ ~Resolved

\* A read for the transaction; a legacy one also while its Send is out.
ServiceVerify ==
    /\ Unresolved /\ ~verify
    /\ \/ tx.mode = "conditional" /\ BootReady /\ send = NoRequest /\ read' = Asked("conditional")
       \/ tx.mode = "legacy" /\ tx.current /\ read' = Asked("legacy")
    /\ verify' = TRUE
    /\ UNCHANGED <<tx, send, flagVars, inputVars, journal, serverVars, faultVars>>

\* A queued resend (a conditional completion always counts as one) is withdrawn
\* while the device is offline or once it has waited too long.
ServiceWithdraw ==
    /\ "aged" \in Faults /\ Unresolved /\ send.at = "queued" /\ Resending /\ ~send.cancelled
    /\ tx.mode = "legacy" => tx.current /\ ~tx.withdrawn
    /\ tx.mode = "conditional" => BootReady
    /\ send' = [send EXCEPT !.cancelled = TRUE]
    /\ tx' = IF tx.mode = "legacy" THEN [tx EXCEPT !.withdrawn = TRUE] ELSE tx
    /\ UNCHANGED <<read, verify, flagVars, inputVars, journal, serverVars, faultVars>>

\* NetworkCompletionFaultService: between games, ask whether the server is too.
FaultRead ==
    /\ storeFault /\ BootReady /\ ~verify /\ ~Unresolved
    /\ ~Active(view) /\ send = NoRequest
    /\ read' = Asked("fault") /\ verify' = TRUE
    /\ UNCHANGED <<tx, send, flagVars, inputVars, journal, serverVars, faultVars>>

\* NetworkCompletionFaultResult: then the record is worth nothing, and erased.
FaultErase(row) ==
    \E cleared \in BOOLEAN :
        /\ May("flash", Cost(cleared)) /\ Spend(Cost(cleared))
        /\ Erased(TRUE, cleared)
        /\ protocol' = row.protocol
        /\ IF cleared
           THEN /\ storeFault' = FALSE /\ awaitResync' = TRUE /\ resetCycle' = TRUE
                /\ tx' = [tx EXCEPT !.durable = FALSE, !.sent = FALSE, !.restored = FALSE]
                /\ context' = [context EXCEPT !.valid = FALSE]
           ELSE UNCHANGED <<storeFault, awaitResync, resetCycle, tx, context>>

\* Mutant: after a failed erase nothing is asked again.
FaultResult_Once ==
    /\ read.at = "done" /\ read.kind = "fault"
    /\ read' = NoRequest
    /\ IF storeFault /\ ~Void(read) /\ ~Active(read.reply.row.stage) /\ read.reply.row.stage = view
       THEN FaultErase(read.reply.row) /\ verify' = storeFault'
       ELSE UNCHANGED <<verify, flagVars, tx, context, journal, faultVars>>
    /\ UNCHANGED <<send, view, stable, bypass, serverVars>>

FaultResult ==
    /\ read.at = "done" /\ read.kind = "fault"
    /\ read' = NoRequest /\ verify' = FALSE
    /\ IF storeFault /\ ~Void(read) /\ ~Active(read.reply.row.stage) /\ read.reply.row.stage = view
       THEN FaultErase(read.reply.row)
       ELSE UNCHANGED <<flagVars, tx, context, journal, faultVars>>
    /\ UNCHANGED <<send, view, stable, bypass, serverVars>>

\* NetworkProtocolProbeService and its result
ProtocolProbe ==
    /\ protocol = Unknown /\ BootReady /\ ~Busy
    /\ protocol' = server.protocol
    /\ UNCHANGED <<tx, requestVars, storeFault, awaitResync, resetCycle, inputVars, journal,
                   serverVars, faultVars>>
-----------------------------------------------------------------------------
(* The game asks for the completion: GeneratorNetworkComplete, called over  *)
(* and over while the gate of the stage is open (WireSnapshotCanProgress).  *)

Gate ==
    /\ BootReady /\ view = StartStage
    /\ bypass \/ (context.valid /\ context.count = stable /\ stable >= Maximum)

\* GeneratorNetworkComplete tells the game that the stage is done.
Told ==
    /\ tx.confirmed /\ tx.current
    /\ tx.mode = "conditional" => ~storeFault /\ ~awaitResync /\ ~tx.needsFull

\* No transaction of this boot is in the way of a new one.
MayBegin ==
    /\ Gate /\ ~(tx.mode = "legacy" /\ tx.current)
    /\ ~storeFault /\ ~awaitResync /\ ~Pending
    /\ ~(tx.mode = "conditional" /\ tx.confirmed /\ (tx.needsFull \/ tx.current))

BeginLegacy ==
    /\ MayBegin /\ (bypass \/ protocol = 0)
    /\ \E admitted \in BOOLEAN :
        /\ Queues(admitted)
        /\ LegacySubmit([NoTransaction EXCEPT !.mode = "legacy", !.current = TRUE, !.start = view],
                        admitted)
    /\ read' = NoRequest /\ late' = Orphans /\ verify' = FALSE
    /\ touched' = (server.stage # view)
    /\ UNCHANGED <<flagVars, inputVars, journal, server, effects>>

ContinueLegacy ==
    /\ Gate /\ tx.mode = "legacy" /\ tx.current /\ ~Resolved /\ MaySubmit(tx)
    /\ \E admitted \in BOOLEAN :
        /\ Queues(admitted) /\ LegacySubmit(tx, admitted)
    /\ UNCHANGED <<read, verify, flagVars, inputVars, journal, serverVars>>

Began ==
    [NoTransaction EXCEPT !.mode = "conditional", !.epoch = context.epoch,
                          !.revision = context.revision, !.count = stable, !.start = context.stage,
                          !.sent = TRUE, !.durable = TRUE, !.current = TRUE]

\* GeneratorCompletionStore::save: set, commit and read again; another record, or
\* one that cannot be read, is never overwritten.
SaveFails(intent) ==
    IF journal = Empty THEN May("flash", 1) /\ Spend(1) /\ journal' \in {Empty, intent}
    ELSE journal # intent /\ UNCHANGED <<journal, faultVars>>

\* Mutant: the saved record is not read back.
BeginConditional_Unread ==
    /\ MayBegin /\ ~bypass /\ protocol = 1
    /\ context.valid /\ context.protocol = 1 /\ context.stage = StartStage
    /\ stable # Unsettled /\ context.count = stable /\ stable >= Maximum
    /\ touched' = ([epoch |-> context.epoch, revision |-> context.revision]
                      # [epoch |-> server.epoch, revision |-> server.revision])
    /\ journal' \in {journal, Intent(Began)}
    /\ tx' = Began /\ read' = NoRequest /\ late' = Orphans /\ verify' = FALSE
    /\ \E admitted \in BOOLEAN : Queues(admitted) /\ Submit(Began, FALSE, admitted)
    /\ UNCHANGED <<storeFault, awaitResync, resetCycle, protocol, inputVars, server, effects>>

BeginConditional ==
    /\ MayBegin /\ ~bypass /\ protocol = 1
    /\ context.valid /\ context.protocol = 1 /\ context.stage = StartStage
    /\ stable # Unsettled /\ context.count = stable /\ stable >= Maximum
    /\ touched' = ([epoch |-> context.epoch, revision |-> context.revision]
                      # [epoch |-> server.epoch, revision |-> server.revision])
    /\ \/ /\ SaveFails(Intent(Began))
          /\ storeFault' = TRUE
          /\ UNCHANGED <<tx, requestVars, late>>
       \/ /\ journal' = Intent(Began) /\ journal \in {Empty, Intent(Began)}
          /\ tx' = Began /\ read' = NoRequest /\ late' = Orphans /\ verify' = FALSE
          /\ \E admitted \in BOOLEAN : Queues(admitted) /\ Submit(Began, FALSE, admitted)
          /\ UNCHANGED storeFault
    /\ UNCHANGED <<awaitResync, resetCycle, protocol, inputVars, server, effects>>
-----------------------------------------------------------------------------
(* The rest of the device. *)

\* WireServiceLoop and WireAdoptContext: read the row, report the count if need
\* be, and take the row as the context of a completion.
ContextOf(row, valid) ==
    [valid |-> valid, epoch |-> row.epoch, revision |-> row.revision, stage |-> row.stage,
     count |-> row.count, protocol |-> row.protocol]
NewEpoch == context.epoch # 0 /\ context.epoch # server.epoch
NewCycle ==
    \/ NewEpoch \/ ~Active(server.stage)
    \/ server.stage = "activate" /\ view # "activate"

ConfirmContext ==
    /\ ~Busy /\ ~Pending /\ BootReady /\ Active(view) /\ stable # Unsettled
    /\ ~(context.valid /\ context.count = stable)
    /\ protocol' = server.protocol
    /\ IF NewEpoch \/ server.stage # view
       THEN /\ context' = ContextOf(server, FALSE)
            /\ resetCycle' = (resetCycle \/ NewEpoch)
            /\ IF NewCycle
               THEN /\ stable' = Unsettled /\ bypass' = FALSE
                    /\ tx' = [tx EXCEPT !.current = FALSE]
                    /\ send' = Stale(send) /\ read' = Stale(read)
               ELSE UNCHANGED <<stable, bypass, tx, send, read>>
            /\ UNCHANGED server
       ELSE /\ \/ server.count = stable /\ UNCHANGED server
               \/ Room /\ server' = [server EXCEPT !.count = stable, !.revision = @ + 1]
            /\ context' = ContextOf(server', TRUE)
            /\ UNCHANGED <<resetCycle, stable, bypass, tx, send, read>>
    /\ UNCHANGED <<verify, storeFault, awaitResync, view, journal, late, effects, touched, faultVars>>

\* The players plug the wires, and the vote settles.
Settle ==
    /\ BootReady /\ Active(view) /\ stable = Unsettled
    /\ stable' \in Counts
    /\ UNCHANGED <<tx, requestVars, flagVars, view, bypass, context, journal, serverVars, faultVars>>

Replug ==
    /\ "replug" \in Faults /\ stable # Unsettled
    /\ stable' \in (Counts \cup {Unsettled}) \ {stable}
    /\ UNCHANGED <<tx, requestVars, flagVars, view, bypass, context, journal, serverVars, faultVars>>

\* NetworkCompletionLoad
Loaded(j) ==
    IF j.kind = "intent"
    THEN [NoTransaction EXCEPT !.mode = "conditional", !.epoch = j.epoch, !.revision = j.revision,
                               !.count = j.count, !.durable = TRUE, !.sent = TRUE,
                               !.restored = TRUE, !.dispatched = TRUE]
    ELSE NoTransaction

Reboot(j) ==
    /\ journal' = j /\ tx' = Loaded(j) /\ storeFault' = (j = Corrupt)
    /\ RenewToken /\ verify' = FALSE
    /\ awaitResync' = FALSE /\ resetCycle' = FALSE /\ protocol' = Unknown
    /\ view' = Unseen /\ stable' = Unsettled /\ bypass' = FALSE /\ context' = NoContext
    /\ UNCHANGED <<server, effects, touched>>

\* Power loss or a panic, at any moment; the record may be damaged.
Crash ==
    /\ May("crash", 1) /\ Spend(1)
    /\ \/ Reboot(journal)
       \/ "flash" \in Faults /\ journal # Empty /\ Reboot(Corrupt)

\* NetworkOfflineRecoveryService: what it waits for before it restarts.
RestartBlocked ==
    \/ Busy
    \/ Unresolved /\ tx.dispatched /\ ~tx.durable /\ (tx.mode # "legacy" \/ tx.current)

OfflineRestart ==
    /\ May("offline", 1) /\ Spend(1) /\ ~RestartBlocked
    /\ Reboot(journal)
-----------------------------------------------------------------------------
Queue   == SendDiscard \/ SendDispatch \/ SendUndelivered
Server  == \/ SendAnswered \/ SendAnswerLost \/ SendLost \/ SendLate \/ ArriveLate
           \/ ReadAnswered \/ ReadLost \/ OutsideWrite \/ ServerRestart \/ ProtocolChange
Answers == \/ ConditionalSendResult \/ ConditionalVerifyResult
           \/ LegacySendResult \/ LegacyVerifyResult \/ FaultResult
Service == ServiceVerify \/ ServiceWithdraw \/ FaultRead \/ ProtocolProbe \/ FullSnapshot
Game    == BeginLegacy \/ ContinueLegacy \/ BeginConditional
Device  == ConfirmContext \/ Settle \/ Replug \/ Crash \/ OfflineRestart

Next == Queue \/ Server \/ Answers \/ Service \/ Game \/ Device
Spec == Init /\ [][Next]_vars

\* The worker serves its queue, the server answers or the transport gives up, the
\* loop runs its services and handlers, and wires that are left alone settle.
Fairness ==
    /\ WF_vars(SendDiscard \/ SendDispatch) /\ WF_vars(SendAnswered) /\ WF_vars(ReadAnswered)
    /\ WF_vars(Answers)
    /\ WF_vars(ServiceVerify) /\ WF_vars(FaultRead) /\ SF_vars(FullSnapshot)
    /\ WF_vars(ProtocolProbe) /\ WF_vars(Settle)
FairSpec == Spec /\ Fairness
-----------------------------------------------------------------------------
(* Properties *)

\* However answers are lost, late or repeated, and whatever restarts when, the
\* server performs one completion once, until others take the stage back
\* (network.ino 450-451: "an older server applies every duplicate Send").
EffectOnce == effects <= 1

\* A conditional completion is unresolved, or queued, or under way, only while its
\* own intent is in flash: a reset at any moment finds it again.
JournalHeld ==
    /\ tx.mode = "conditional" /\ tx.sent /\ ~Resolved => tx.durable /\ journal = Intent(tx)
    /\ send.at # "none" /\ send.mode = "conditional" => journal = Intent(send)

\* A completion is taken for confirmed only if the server has performed it, unless
\* someone else wrote the row since it began.
NoFalseSuccess == tx.confirmed /\ tx.current /\ ~touched => server.stage = Target /\ effects = 1

\* While an intent is in flash the device itself never spends the revision the
\* intent waits for: only its own completion does.
TokenNotSpent ==
    journal.kind = "intent" /\ ~touched =>
        /\ server.epoch = journal.epoch
        /\ \/ server.revision = journal.revision
           \/ server.revision = journal.revision + 1 /\ server.stage = Target

\* An intent that may still be performed is known to the device and to its flash, keeps its
\* revision, and every variable keeps its type.
IntentHeld == TypeOK /\ JournalHeld /\ TokenNotSpent

\* The game is not told that a stage is done while the device's own last reading
\* of the server still has it undone.  The code does not keep this when staff set a
\* stage back: see the README.
NotToldDone == Gate => ~Told

\* A conditional completion, restored ones included, is settled one way or the other.
IntentSettles == (tx.mode = "conditional" /\ Unresolved) ~> ~(tx.mode = "conditional" /\ Unresolved)

\* A journal fault between games is cleared, or the next game begins.
FaultRecovers == (storeFault /\ view = "setting") ~> (~storeFault \/ view # "setting")
=============================================================================

------------------------------ MODULE WireSync ------------------------------
(***************************************************************************)
(* How HAS1_generator reports the wire count to the game server (wire.ino, *)
(* wire_http.ino): the main loop reads the server's count with its epoch   *)
(* and revision, writes its own with a compare-and-set on them, and calls  *)
(* the count acknowledged once the server has confirmed it.  A write whose *)
(* answer was lost may still be on its way, even from before a reboot; the *)
(* device "fences" it by consuming one more revision.                      *)
(*                                                                         *)
(* The vote is what WireVerdict promises; the request queue is reduced to  *)
(* the one wire request it holds (NetworkQueue has the rest).  The server  *)
(* is external: its contract is the one wire.ino and WIRE_SYNC.md rely on. *)
(*                                                                         *)
(* Left out: the 2 s pause after a failure (any delay is possible here),   *)
(* the device name and the required maximum (both fixed), the staff        *)
(* override of the wire gate, and the pause while a completion is pending. *)
(***************************************************************************)
EXTENDS Integers

CONSTANTS
    Counts,         \* wire counts (0..4)
    Maximum,        \* max_battery_pack: the count the game asks for
    MaxRevision,    \* the server refuses writes at its last revision
    MaxFaults       \* bound: lost messages, reboots, rejections, outside writes

ASSUME WireSyncAssumption ==
    /\ Counts \subseteq Nat
    /\ Maximum \in Counts
    /\ MaxRevision \in Nat
    /\ MaxFaults \in Nat

VARIABLES
    generation, qualified, stable,  \* the vote: see WireVerdict
    acked,          \* acknowledgedCount_, Unknown when acknowledged_ is false
    enabled,        \* wireEnabled (and wireSamplingEnabled)
    contextValid,   \* wireContextValid
    context,        \* wireContext: the row last read (epoch 0 for none)
    fence,          \* wireFenceNeeded
    view,           \* my: the device's copy of its row on the server
    observed,       \* wireObservedGame/Device
    main,           \* the main loop is in WireServiceLoop, past its first call
    http,           \* the outstanding wire request (wireHttp* and its queue slot)
    server,         \* the row of this device on the server
    late,           \* writes given up by the transport that may still arrive
    faults          \* faults so far

voteVars    == <<generation, qualified, stable>>
syncVars    == <<acked, contextValid, context, fence>>
observeVars == <<enabled, observed>>
worldVars   == <<server, late, faults>>
vars == <<voteVars, syncVars, observeVars, view, main, http, worldVars>>

\* A request that an earlier generation asked for is marked in http, so that two
\* generations are enough to tell one reset from the next.
Vote == INSTANCE WireVerdict WITH Generations <- {0, 1}

Unknown == -1
\* "setting" stands for every stage whose wires are not monitored.
Stages    == {"activate", "battery_max", "setting"}
Snapshot  == [epoch : Nat, revision : 0..MaxRevision, count : Counts, stage : Stages]
Write     == [set : {TRUE}, count : Counts, epoch : Nat, revision : 0..MaxRevision]

ReadOp == [set |-> FALSE, count |-> Unknown, epoch |-> 0, revision |-> 0]
WriteOp(count, base) ==
    [set |-> TRUE, count |-> count, epoch |-> base.epoch, revision |-> base.revision]

SameBase(one, other) == one.epoch = other.epoch /\ one.revision = other.revision

Operation == {ReadOp} \cup Write

NoContext == [epoch |-> 0, revision |-> 0, count |-> Unknown, stage |-> "setting"]

NoRequest == [phase |-> "none"]
Asking(op) == [phase |-> "queued", op |-> op, current |-> TRUE]

TypeOK ==
    /\ Vote!TypeOK
    /\ acked \in Counts \cup {Unknown}
    /\ enabled \in BOOLEAN
    /\ contextValid \in BOOLEAN
    /\ context \in Snapshot \cup {NoContext}
    /\ fence \in BOOLEAN
    /\ view \in [stage : Stages, count : Counts \cup {Unknown}]
    /\ observed \in Stages \cup {"none"}
    /\ main \in {"loop", "serve"}
    /\ http \in {NoRequest}
             \cup [phase : {"queued", "sent"}, op : Operation, current : BOOLEAN]
             \cup [phase : {"answered", "done"}, op : Operation, current : BOOLEAN,
                   ok : BOOLEAN, reply : Snapshot]
    /\ server \in Snapshot
    /\ late \subseteq Write
    /\ faults \in 0..MaxFaults

\* What a boot leaves of the device: nothing.
DeviceBoots ==
    [acked |-> Unknown, enabled |-> FALSE, contextValid |-> FALSE,
     context |-> NoContext, fence |-> TRUE,
     view |-> [stage |-> "setting", count |-> Unknown], observed |-> "none",
     main |-> "loop", http |-> NoRequest]

Init ==
    /\ Vote!Init
    /\ LET boot == DeviceBoots
       IN  /\ acked = boot.acked /\ enabled = boot.enabled
           /\ contextValid = boot.contextValid /\ context = boot.context
           /\ fence = boot.fence /\ view = boot.view /\ observed = boot.observed
           /\ main = boot.main /\ http = boot.http
    /\ server \in [epoch : {1}, revision : {0}, count : Counts, stage : {"activate"}]
    /\ late = {}
    /\ faults = 0
-----------------------------------------------------------------------------
(* Queries. *)

Monitored(stage) == stage # "setting"
Synced == acked # Unknown /\ acked = stable

\* WireSnapshotCanProgress, without the override of the staff.
CanProgress ==
    /\ enabled /\ contextValid
    /\ Monitored(view.stage)
    /\ qualified /\ Synced /\ stable >= Maximum

\* WireCompletionContext: what a conditional completion is bound to.
CompletionContext == contextValid /\ Synced /\ ~fence

\* What GeneratorNetworkComplete checks before it binds a completion to the
\* context (the stages it starts from are those of the wire gate).
CompletionBegins ==
    /\ CanProgress /\ CompletionContext
    /\ Monitored(context.stage)
    /\ stable = context.count /\ context.count >= Maximum

Wanted == enabled /\ qualified /\ ~CompletionContext
WantedOp == IF contextValid THEN WriteOp(stable, context) ELSE ReadOp

\* The vote still says what a write says: NetworkDiscardReason.
StillTrue(op) == op.set => (qualified /\ stable = op.count)
-----------------------------------------------------------------------------
(* The input task: see WireVerdict. *)

Sample ==
    /\ enabled
    /\ Vote!Unsettle \/ \E count \in Counts : Vote!Settle(count)
    /\ voteVars' # voteVars
    /\ UNCHANGED <<syncVars, observeVars, view, main, http, worldVars>>
-----------------------------------------------------------------------------
(* The main loop: WireServiceLoop. *)

\* WireResetTracking.  The request under way no longer matches its caller.
ForgetCycle ==
    /\ Vote!Reset
    /\ acked' = Unknown
    /\ contextValid' = FALSE
    /\ fence' = TRUE

Withdrawn == IF http = NoRequest THEN http ELSE [http EXCEPT !.current = FALSE]

\* Faulty variant of Disagrees: what was confirmed once stays confirmed.
Disagrees_Never == FALSE

\* The row that was read is not the one that was acknowledged.
Disagrees == contextValid /\ acked # Unknown /\ view.count # acked

\* WireObserveServerSnapshot: a new charge cycle forgets everything, any other
\* change of the row only the context.
Observe ==
    LET entering  == view.stage = "activate" /\ observed # "activate"
        newCycle  == Monitored(view.stage) # enabled \/ entering
    IN  /\ main = "loop"
        /\ main' = "serve"
        /\ enabled' = Monitored(view.stage)
        /\ observed' = view.stage
        /\ \/ /\ newCycle
              /\ ForgetCycle
              /\ http' = Withdrawn
           \/ /\ ~newCycle
              /\ contextValid' = (contextValid /\ view.stage = observed /\ ~Disagrees)
              /\ acked' = IF view.stage = observed /\ Disagrees THEN Unknown ELSE acked
              /\ UNCHANGED <<voteVars, fence, http>>
        /\ UNCHANGED <<context, view, worldVars>>

\* Every other step of the loop returns from WireServiceLoop.
Serving == main = "serve" /\ main' = "loop"

Unconfirmed == acked' = Unknown /\ contextValid' = FALSE

\* Faulty variant of Fencing: a write is not taken for uncertain.
Fencing_Never == fence' = fence

\* Asking for a write raises the fence before the answer is known.
Fencing == fence' = (fence \/ WantedOp.set)

ServeNothing ==
    /\ Serving /\ ~Wanted
    /\ UNCHANGED <<voteVars, syncVars, observeVars, view, http, worldVars>>

ServeAsk ==
    /\ Serving /\ Wanted
    /\ http = NoRequest
    /\ http' = Asking(WantedOp)
    /\ Fencing
    /\ UNCHANGED <<voteVars, acked, contextValid, context, observeVars, view, worldVars>>

\* The queue is full, closed or draining.
ServeRejected ==
    /\ Serving /\ Wanted
    /\ http = NoRequest
    /\ faults < MaxFaults
    /\ faults' = faults + 1
    /\ Fencing
    /\ Unconfirmed
    /\ UNCHANGED <<voteVars, context, observeVars, view, http, server, late>>

\* Still under way; what waits in the queue is brought up to date.
ServeWait ==
    /\ Serving /\ Wanted
    /\ http.phase \in {"queued", "sent", "answered"}
    /\ http' = IF http.phase = "queued" THEN Asking(WantedOp) ELSE http
    /\ Fencing
    /\ UNCHANGED <<voteVars, acked, contextValid, context, observeVars, view, worldVars>>

\* The answer is to the question the loop would ask now.
Matches == http.phase = "done" /\ http.ok /\ http.current /\ http.op = WantedOp

ServeFailed ==
    /\ Serving /\ Wanted
    /\ http.phase = "done" /\ ~Matches
    /\ http' = NoRequest
    /\ Fencing
    /\ Unconfirmed
    /\ UNCHANGED <<voteVars, context, observeVars, view, worldVars>>

\* WireAdoptContext.
ChangedEpoch(reply) == context.epoch # 0 /\ reply.epoch # context.epoch
StaleReply(reply) == reply.epoch = context.epoch /\ reply.revision < context.revision
NewCycle(reply) ==
    \/ ChangedEpoch(reply)
    \/ Monitored(reply.stage) # Monitored(view.stage)
    \/ reply.stage = "activate" /\ view.stage # "activate"

ServeStale ==
    /\ Serving /\ Wanted /\ Matches
    /\ StaleReply(http.reply)
    /\ http' = NoRequest
    /\ Fencing
    /\ Unconfirmed
    /\ UNCHANGED <<voteVars, context, observeVars, view, worldVars>>

ServeChanged ==
    /\ Serving /\ Wanted /\ Matches
    /\ ~StaleReply(http.reply)
    /\ ChangedEpoch(http.reply) \/ http.reply.stage # view.stage
    /\ context' = http.reply
    /\ \/ NewCycle(http.reply) /\ ForgetCycle
       \/ ~NewCycle(http.reply) /\ Unconfirmed /\ Fencing /\ UNCHANGED voteVars
    /\ http' = NoRequest
    /\ UNCHANGED <<observeVars, view, worldVars>>

Adopted ==
    /\ Serving /\ Wanted /\ Matches
    /\ ~StaleReply(http.reply)
    /\ ~ChangedEpoch(http.reply) /\ http.reply.stage = view.stage
    /\ context' = http.reply

\* A read confirms the count only if no earlier write can come after it.
ReadConfirms(reply) == reply.count = stable /\ ~fence

ServeReadConfirmed ==
    /\ Adopted /\ ~http.op.set
    /\ ReadConfirms(http.reply)
    /\ acked' = http.reply.count
    /\ contextValid' = TRUE
    /\ view' = [view EXCEPT !.count = http.reply.count]
    /\ http' = NoRequest
    /\ UNCHANGED <<voteVars, fence, observeVars, worldVars>>

\* The write follows in the same call.
ServeThenWrite ==
    /\ Adopted /\ ~http.op.set
    /\ ~ReadConfirms(http.reply)
    /\ fence' = TRUE
    /\ contextValid' = TRUE
    /\ http' = Asking(WriteOp(stable, http.reply))
    /\ UNCHANGED <<voteVars, acked, observeVars, view, worldVars>>

\* The queue does not take the write.
ServeWriteRejected ==
    /\ Adopted /\ ~http.op.set
    /\ ~ReadConfirms(http.reply)
    /\ faults < MaxFaults
    /\ faults' = faults + 1
    /\ fence' = TRUE
    /\ Unconfirmed
    /\ http' = NoRequest
    /\ UNCHANGED <<voteVars, observeVars, view, server, late>>

\* The window became ambiguous in the middle of the call.
ServeUnsettled ==
    /\ Adopted /\ ~http.op.set
    /\ ~ReadConfirms(http.reply)
    /\ Vote!Unsettle
    /\ contextValid' = TRUE
    /\ http' = NoRequest
    /\ UNCHANGED <<acked, fence, observeVars, view, worldVars>>

ServeWritten ==
    /\ Adopted /\ http.op.set
    /\ acked' = http.reply.count
    /\ contextValid' = TRUE
    /\ fence' = FALSE
    /\ view' = [view EXCEPT !.count = http.reply.count]
    /\ http' = NoRequest
    /\ UNCHANGED <<voteVars, observeVars, worldVars>>

Serve ==
    \/ ServeNothing \/ ServeAsk \/ ServeRejected \/ ServeWait \/ ServeFailed
    \/ ServeStale \/ ServeChanged
    \/ ServeReadConfirmed \/ ServeThenWrite \/ ServeWriteRejected \/ ServeUnsettled
    \/ ServeWritten

\* WireRequestContextRefresh: a completion asks for a fresh context, every 5 s.
Probe ==
    /\ main = "loop"
    /\ CanProgress /\ ~CompletionContext
    /\ faults < MaxFaults
    /\ faults' = faults + 1
    /\ contextValid' = FALSE
    /\ UNCHANGED <<voteVars, acked, context, fence, observeVars, view, main, http, server, late>>

\* NetworkApplySnapshot: the row is read and applied in one step, when the worker
\* has no wire request on the wire.  (What the server does between the two may as
\* well come after both.)  A change of the game withdraws the request.
Refresh ==
    LET row == [stage |-> server.stage, count |-> server.count]
    IN  /\ main = "loop"
        /\ http.phase \notin {"sent", "answered"}
        /\ view # row
        /\ view' = row
        /\ http' = IF Monitored(view.stage) # Monitored(row.stage) THEN Withdrawn ELSE http
        /\ UNCHANGED <<voteVars, syncVars, observeVars, main, worldVars>>
-----------------------------------------------------------------------------
(* The transport, as the wire request sees it, and the server. *)

Send ==
    /\ http.phase = "queued"
    /\ http.current /\ StillTrue(http.op)
    /\ http' = [http EXCEPT !.phase = "sent"]
    /\ UNCHANGED <<voteVars, syncVars, observeVars, view, main, worldVars>>

Failed(op) ==
    [phase |-> "done", op |-> op, current |-> FALSE, ok |-> FALSE, reply |-> server]

Discard ==
    /\ main = "loop"
    /\ http.phase = "queued"
    /\ ~(http.current /\ StillTrue(http.op))
    /\ http' = Failed(http.op)
    /\ UNCHANGED <<voteVars, syncVars, observeVars, view, main, worldVars>>

\* Faulty variant of Applies: the server ignores the revision of a write.
Applies_AnyRevision(op) ==
    /\ op.set /\ op.epoch = server.epoch
    /\ server.revision < MaxRevision

\* SetGeneratorWires: a compare-and-set that consumes one revision.
Applies(op) ==
    /\ op.set
    /\ SameBase(op, server)
    /\ server.revision < MaxRevision

Handle(op) ==
    server' = IF Applies(op)
              THEN [server EXCEPT !.count = op.count, !.revision = server.revision + 1]
              ELSE server

\* A read answered from an older row, as a cache on the way would: what
\* WireAdoptContext expects when it compares the revisions.
AnswerOld ==
    /\ http.phase = "sent" /\ ~http.op.set
    /\ faults < MaxFaults
    /\ faults' = faults + 1
    /\ \E revision \in 0..server.revision - 1, count \in Counts :
          http' = [phase |-> "answered", op |-> http.op, current |-> http.current, ok |-> TRUE,
                   reply |-> [server EXCEPT !.revision = revision, !.count = count]]
    /\ UNCHANGED <<voteVars, syncVars, observeVars, view, main, server, late>>

Answer ==
    /\ http.phase = "sent"
    /\ Handle(http.op)
    /\ http' = [phase |-> "answered", op |-> http.op, current |-> http.current,
                ok |-> ~http.op.set \/ Applies(http.op), reply |-> server']
    /\ UNCHANGED <<voteVars, syncVars, observeVars, view, main, late, faults>>

\* The callback (WireHttpResult); an answer that came too late is a failure.
Deliver ==
    /\ main = "loop"
    /\ http.phase = "answered"
    /\ http' = [http EXCEPT !.phase = "done",
                            !.ok = http.ok /\ http.current /\ StillTrue(http.op)]
    /\ UNCHANGED <<voteVars, syncVars, observeVars, view, main, worldVars>>

\* The transport gives up.  A write that was sent may still arrive.
Lose ==
    /\ main = "loop"
    /\ http.phase \in {"sent", "answered"}
    /\ faults < MaxFaults
    /\ faults' = faults + 1
    /\ http' = Failed(http.op)
    /\ late' = IF http.phase = "sent" /\ http.op.set THEN late \cup {http.op} ELSE late
    /\ UNCHANGED <<voteVars, syncVars, observeVars, view, main, server>>

ArriveLate ==
    \E op \in late :
        /\ Handle(op)
        /\ late' = late \ {op}
        /\ UNCHANGED <<voteVars, syncVars, observeVars, view, main, http, faults>>

\* Staff, the game or another device changes the row; each write to it consumes
\* a revision.
OutsideWrite(stage, count) ==
    /\ faults < MaxFaults /\ server.revision < MaxRevision
    /\ faults' = faults + 1
    /\ server' = [server EXCEPT !.stage = stage, !.count = count, !.revision = @ + 1]
    /\ UNCHANGED <<voteVars, syncVars, observeVars, view, main, http, late>>

ServerRestart ==
    /\ faults < MaxFaults
    /\ faults' = faults + 1
    /\ server' = [server EXCEPT !.epoch = @ + 1, !.revision = 0]
    /\ UNCHANGED <<voteVars, syncVars, observeVars, view, main, http, late>>

Reboot ==
    /\ faults < MaxFaults
    /\ faults' = faults + 1
    /\ generation' = 0 /\ qualified' = FALSE /\ stable' = Unknown
    /\ LET boot == DeviceBoots
       IN  /\ acked' = boot.acked /\ enabled' = boot.enabled
           /\ contextValid' = boot.contextValid /\ context' = boot.context
           /\ fence' = boot.fence /\ view' = boot.view /\ observed' = boot.observed
           /\ main' = boot.main /\ http' = boot.http
    /\ late' = IF http.phase = "sent" /\ http.op.set THEN late \cup {http.op} ELSE late
    /\ UNCHANGED server

Next ==
    \/ Sample
    \/ Observe \/ Serve \/ Probe \/ Refresh
    \/ Send \/ Discard \/ Answer \/ AnswerOld \/ Deliver \/ Lose \/ ArriveLate
    \/ \E stage \in Stages, count \in Counts : OutsideWrite(stage, count)
    \/ ServerRestart \/ Reboot

Spec == Init /\ [][Next]_vars

\* The main loop and the worker never stop, the server answers, and the poll
\* schedule refreshes the row again and again.
FairSpec ==
    /\ Spec
    /\ WF_vars(Observe) /\ WF_vars(Serve)
    /\ WF_vars(Send) /\ WF_vars(Answer)
    /\ SF_vars(Discard) /\ SF_vars(Deliver) /\ SF_vars(Refresh)
-----------------------------------------------------------------------------
(* Properties. *)

\* Once a count is taken for confirmed, no earlier write, lost on the way or sent
\* before a reboot, can change it on the server any more (WIRE_SYNC.md; the fence
\* of wire.ino).
NoWriteBehindTheFence ==
    ~fence =>
        /\ \A op \in late : ~Applies(op)
        /\ http.phase = "sent" => ~Applies(http.op)

\* A completion that the server takes, because its epoch and revision are still the
\* server's, is for the count that is plugged in and the stage the device started
\* from, and no write of an earlier attempt can change that row before it arrives
\* (WireCompletionContext, GeneratorNetworkComplete).
CompletionForThisCount ==
    CompletionBegins /\ SameBase(context, server) =>
        /\ server.count = stable /\ server.stage = context.stage
        /\ \A op \in late : ~Applies(op)

\* A confirmed count is bound to the row it was confirmed in: no write behind the
\* fence can move it, and a completion rests on it (WireServiceLoop,
\* GeneratorNetworkComplete).
CountsBound == TypeOK /\ NoWriteBehindTheFence /\ CompletionForThisCount

\* When faults have ended and the vote rests on a count, the device and the server
\* end up agreeing on it, for good, unless revisions have run out.
Settled(count) == qualified /\ stable = count /\ enabled
CountReported ==
    \A count \in Counts :
        <>[](Settled(count) /\ server.revision < MaxRevision)
            => <>[](CompletionContext /\ server.count = count)
=============================================================================

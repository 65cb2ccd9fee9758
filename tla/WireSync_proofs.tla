--------------------------- MODULE WireSync_proofs ---------------------------
(***************************************************************************)
(* Proofs about the wire reports, for any counts, any number of revisions  *)
(* and any number of faults.                                               *)
(***************************************************************************)
EXTENDS WireSync, TLAPS

-----------------------------------------------------------------------------
(* The inductive invariant. *)

\* The order of the rows: every change of the server's moves it up.
Before(one, other) ==
    \/ one.epoch < other.epoch
    \/ one.epoch = other.epoch /\ one.revision < other.revision
AtMost(one, other) == SameBase(one, other) \/ Before(one, other)

\* A row that the device has read: an older one, or the server's to the letter.
Genuine(row) == AtMost(row, server) /\ (SameBase(row, server) => row = server)

\* What the device has read, and what it writes on it, is of the past or present.
RowsGenuine ==
    /\ server.epoch >= 1
    /\ context = NoContext \/ Genuine(context)
    /\ http.phase \in {"answered", "done"} => Genuine(http.reply)
    /\ http # NoRequest /\ http.op.set => AtMost(http.op, server)
    /\ \A op \in late : AtMost(op, server)

\* A write that the server confirmed has moved it beyond all that came before.
WriteClosesPast ==
    http.phase \in {"answered", "done"} /\ http.ok /\ http.op.set =>
        \A op \in late : Before(op, server)

\* Without the fence no write is out, and none that was lost can come back.
FenceClosed ==
    ~fence =>
        /\ http # NoRequest => ~http.op.set
        /\ \A op \in late : Before(op, server)

\* A qualified vote rests on a count.
VoteCounts == qualified => stable \in Counts

IndInv == TypeOK /\ VoteCounts /\ RowsGenuine /\ WriteClosesPast /\ FenceClosed
-----------------------------------------------------------------------------
(* Types. *)

VoteType == Vote!TypeOK
SyncType ==
    /\ acked \in Counts \cup {Unknown} /\ contextValid \in BOOLEAN
    /\ context \in Snapshot \cup {NoContext} /\ fence \in BOOLEAN
ObserveType == enabled \in BOOLEAN /\ observed \in Stages \cup {"none"}
ViewType == view \in [stage : Stages, count : Counts \cup {Unknown}]
MainType == main \in {"loop", "serve"}
HttpType ==
    http \in {NoRequest}
          \cup [phase : {"queued", "sent"}, op : Operation, current : BOOLEAN]
          \cup [phase : {"answered", "done"}, op : Operation, current : BOOLEAN,
                ok : BOOLEAN, reply : Snapshot]
WorldType == server \in Snapshot /\ late \subseteq Write /\ faults \in 0..MaxFaults

\* The type invariant is the conjunction of its groups.
LEMMA TypeParts ==
    TypeOK <=> /\ VoteType /\ SyncType /\ ObserveType /\ ViewType /\ MainType
               /\ HttpType /\ WorldType
  BY DEF TypeOK, VoteType, SyncType, ObserveType, ViewType, MainType, HttpType, WorldType

\* What a request holds in each phase.
LEMMA HttpHolds ==
    ASSUME HttpType
    PROVE  /\ NoRequest.phase = "none"
           /\ http = NoRequest \/ http.phase \in {"queued", "sent", "answered", "done"}
           /\ http # NoRequest => http.op \in Operation /\ http.current \in BOOLEAN
           /\ http.phase \in {"answered", "done"} => http.ok \in BOOLEAN /\ http.reply \in Snapshot
           /\ http.phase \in {"queued", "sent"} =>
                  http \in [phase : {"queued", "sent"}, op : Operation, current : BOOLEAN]
           /\ http.phase \in {"answered", "done"} =>
                  http \in [phase : {"answered", "done"}, op : Operation, current : BOOLEAN,
                            ok : BOOLEAN, reply : Snapshot]
  BY DEF HttpType, NoRequest

\* The question the loop would ask is one it may ask.
LEMMA WantedType ==
    ASSUME TypeOK, VoteCounts, Wanted
    PROVE  WantedOp \in Operation /\ stable \in Counts
  <1>1. stable \in Counts
    BY DEF Wanted, VoteCounts
  <1>2. context.epoch \in Nat /\ context.revision \in 0..MaxRevision
    BY WireSyncAssumption DEF TypeOK, Snapshot, NoContext
  <1>3. WriteOp(stable, context) \in Write
    BY <1>1, <1>2 DEF WriteOp, Write
  <1> QED
    BY <1>1, <1>3 DEF WantedOp, Operation

\* Everything that may happen to the request.
LEMMA HttpSteps ==
    ASSUME [Next]_vars
    PROVE  \/ http' = http
           \/ http' = NoRequest
           \/ /\ Wanted /\ http' = Asking(WantedOp) /\ Fencing
              /\ http = NoRequest \/ http.phase = "queued"
              /\ UNCHANGED <<context, server, late>>
           \/ /\ Wanted /\ http.phase = "done" /\ fence' = TRUE
              /\ http' = Asking(WriteOp(stable, http.reply)) /\ UNCHANGED <<server, late>>
           \/ /\ http # NoRequest /\ http' = [http EXCEPT !.current = FALSE]
              /\ UNCHANGED <<server, late>> /\ fence' \in {fence, TRUE}
           \/ /\ http.phase = "queued" /\ http' = [http EXCEPT !.phase = "sent"]
              /\ UNCHANGED <<server, late, fence>>
           \/ http' = Failed(http.op) /\ http # NoRequest /\ UNCHANGED <<server, fence>>
           \/ Answer
           \/ AnswerOld
           \/ Deliver
  <1>1. NoRequest.phase = "none"
    BY DEF NoRequest
  <1>2. CASE Serve
    BY <1>1, <1>2 DEF Serve, ServeNothing, ServeAsk, ServeRejected, ServeWait, ServeFailed,
       ServeStale, ServeChanged, ServeReadConfirmed, ServeThenWrite, ServeWriteRejected,
       ServeUnsettled, ServeWritten, Adopted, Matches, Serving, worldVars, syncVars
  <1>3. CASE Observe \/ Refresh
    BY <1>1, <1>3 DEF Observe, Refresh, ForgetCycle, Withdrawn, worldVars, syncVars
  <1>4. CASE Send \/ Discard \/ Lose
    BY <1>1, <1>4 DEF Send, Discard, Lose, worldVars, syncVars
  <1>5. CASE \/ Sample \/ Probe \/ ArriveLate \/ ServerRestart \/ Reboot \/ UNCHANGED vars
             \/ \E stage \in Stages, count \in Counts : OutsideWrite(stage, count)
    BY <1>5 DEF Sample, Probe, ArriveLate, ServerRestart, Reboot, OutsideWrite, DeviceBoots, vars
  <1> QED
    BY <1>2, <1>3, <1>4, <1>5 DEF Next

\* The rows that the server's steps build.
LEMMA RowBuilt ==
    ASSUME server \in Snapshot, NEW revision \in 0..MaxRevision, NEW count \in Counts
    PROVE  /\ [server EXCEPT !.count = count, !.revision = revision] \in Snapshot
           /\ [server EXCEPT !.revision = revision, !.count = count] \in Snapshot
           /\ \A stage \in Stages :
                [server EXCEPT !.stage = stage, !.count = count, !.revision = revision] \in Snapshot
           /\ [server EXCEPT !.epoch = server.epoch + 1, !.revision = 0] \in Snapshot
  <1>1. 0 \in 0..MaxRevision /\ server.epoch + 1 \in Nat
    BY WireSyncAssumption DEF Snapshot
  <1> QED
    BY <1>1 DEF Snapshot

\* One revision more, while there are revisions.
LEMMA NextRevision ==
    ASSUME server \in Snapshot, server.revision < MaxRevision
    PROVE  server.revision + 1 \in 0..MaxRevision
  BY WireSyncAssumption DEF Snapshot

\* Everything that may happen to the server's row, and to the writes that were lost.
LEMMA WorldSteps ==
    ASSUME TypeOK, [Next]_vars
    PROVE  /\ server' \in Snapshot
           /\ UNCHANGED server \/ Before(server, server')
           /\ \/ late' \subseteq late
              \/ /\ http.phase = "sent" /\ http.op.set /\ late' = late \cup {http.op}
                 /\ UNCHANGED server
                 /\ \/ http' = Failed(http.op) /\ UNCHANGED fence
                    \/ http' = NoRequest /\ fence' = TRUE
           /\ faults' \in {faults, faults + 1} /\ (faults' # faults => faults < MaxFaults)
  <1>1. server \in Snapshot /\ HttpType /\ late \subseteq Write
    BY TypeParts DEF WorldType
  <1>2. ASSUME NEW op, Handle(op), op \in Operation
        PROVE  server' \in Snapshot /\ (UNCHANGED server \/ Before(server, server'))
    <2>1. CASE Applies(op)
      <3>1. op \in Write /\ server.revision < MaxRevision
        BY <1>2, <2>1 DEF Applies, Operation, ReadOp
      <3>2. server' = [server EXCEPT !.count = op.count, !.revision = server.revision + 1]
        BY <1>2, <2>1 DEF Handle
      <3>3. server' \in Snapshot
        BY <1>1, <3>1, <3>2, NextRevision, RowBuilt DEF Write
      <3>4. server'.epoch = server.epoch /\ server'.revision = server.revision + 1
        BY <1>1, <3>2 DEF Snapshot
      <3> QED
        BY <1>1, <3>3, <3>4 DEF Before, Snapshot
    <2>2. CASE ~Applies(op)
      BY <1>1, <1>2, <2>2 DEF Handle
    <2> QED
      BY <2>1, <2>2
  <1>3. CASE Answer
    BY <1>1, <1>2, <1>3, HttpHolds DEF Answer
  <1>4. CASE ArriveLate
    <2>1. PICK op \in late : Handle(op) /\ late' = late \ {op}
      BY <1>4 DEF ArriveLate
    <2>2. op \in Operation
      BY <1>1, <2>1 DEF Operation
    <2> QED
      BY <1>2, <1>4, <2>1, <2>2 DEF ArriveLate
  <1>5. ASSUME NEW stage \in Stages, NEW count \in Counts, OutsideWrite(stage, count)
        PROVE  server' \in Snapshot /\ Before(server, server') /\ late' = late
               /\ faults' = faults + 1 /\ faults < MaxFaults
    <2>1. /\ server.revision < MaxRevision /\ UNCHANGED late
          /\ faults' = faults + 1 /\ faults < MaxFaults
          /\ server' = [server EXCEPT !.stage = stage, !.count = count,
                                      !.revision = server.revision + 1]
      BY <1>5 DEF OutsideWrite
    <2>2. server' \in Snapshot
      BY <1>1, <2>1, NextRevision, RowBuilt
    <2>3. server'.epoch = server.epoch /\ server'.revision = server.revision + 1
      BY <1>1, <2>1 DEF Snapshot
    <2> QED
      BY <1>1, <2>1, <2>2, <2>3 DEF Before, Snapshot
  <1>6. ASSUME ServerRestart
        PROVE  server' \in Snapshot /\ Before(server, server') /\ late' = late
               /\ faults' = faults + 1 /\ faults < MaxFaults
    <2>1. /\ UNCHANGED late /\ faults' = faults + 1 /\ faults < MaxFaults
          /\ server' = [server EXCEPT !.epoch = server.epoch + 1, !.revision = 0]
      BY <1>6 DEF ServerRestart
    <2>2. server' \in Snapshot
      <3>1. Maximum \in Counts /\ 0 \in 0..MaxRevision
        BY WireSyncAssumption
      <3> QED
        BY <1>1, <2>1, <3>1, RowBuilt
    <2>3. server'.epoch = server.epoch + 1
      BY <1>1, <2>1 DEF Snapshot
    <2> QED
      BY <1>1, <2>1, <2>2, <2>3 DEF Before, Snapshot
  <1>7. CASE Serve
    BY <1>1, <1>7 DEF Serve, ServeNothing, ServeAsk, ServeRejected, ServeWait, ServeFailed,
       ServeStale, ServeChanged, ServeReadConfirmed, ServeThenWrite, ServeWriteRejected,
       ServeUnsettled, ServeWritten, Adopted, worldVars
  <1>8. CASE Lose \/ Reboot
    BY <1>1, <1>8 DEF Lose, Reboot, DeviceBoots, syncVars
  <1>9. CASE \/ Sample \/ Observe \/ Probe \/ Refresh \/ Send \/ Discard \/ AnswerOld \/ Deliver
             \/ UNCHANGED vars
    BY <1>1, <1>9 DEF Sample, Observe, Probe, Refresh, Send, Discard, AnswerOld, Deliver, vars,
       worldVars
  <1> QED
    BY <1>3, <1>4, <1>5, <1>6, <1>7, <1>8, <1>9 DEF Next

\* The context is what was read, or forgotten by a boot.
LEMMA ContextSteps ==
    ASSUME [Next]_vars
    PROVE  \/ context' \in {context, NoContext}
           \/ context' = http.reply /\ http.phase = "done"
  <1>1. CASE Serve
    BY <1>1 DEF Serve, ServeNothing, ServeAsk, ServeRejected, ServeWait, ServeFailed,
       ServeStale, ServeChanged, ServeReadConfirmed, ServeThenWrite, ServeWriteRejected,
       ServeUnsettled, ServeWritten, Adopted, Matches, syncVars
  <1>2. CASE ~Serve
    BY <1>2 DEF Next, vars, syncVars, Sample, Observe, Probe, Refresh, Send, Discard, Answer,
       AnswerOld, Deliver, Lose, ArriveLate, OutsideWrite, ServerRestart, Reboot, DeviceBoots
  <1> QED
    BY <1>1, <1>2

\* The fence comes down only when the server has confirmed a write.
LEMMA FenceSteps ==
    ASSUME [Next]_vars, ~fence', fence
    PROVE  /\ http.phase = "done" /\ http.ok /\ http.op.set /\ http' = NoRequest
           /\ UNCHANGED <<server, late>>
  <1>1. CASE Serve
    BY <1>1 DEF Serve, ServeNothing, ServeAsk, ServeRejected, ServeWait, ServeFailed,
       ServeStale, ServeChanged, ServeReadConfirmed, ServeThenWrite, ServeWriteRejected,
       ServeUnsettled, ServeWritten, Adopted, Matches, Fencing, ForgetCycle, syncVars, worldVars
  <1>2. CASE ~Serve
    BY <1>2 DEF Next, vars, syncVars, Sample, Observe, Probe, Refresh, Send, Discard, Answer,
       AnswerOld, Deliver, Lose, ArriveLate, OutsideWrite, ServerRestart, Reboot, DeviceBoots,
       ForgetCycle
  <1> QED
    BY <1>1, <1>2

\* A request is always one that was asked for, with the reply to it.
LEMMA HttpTypeStep == IndInv /\ [Next]_vars => HttpType'
  <1> SUFFICES ASSUME IndInv, [Next]_vars PROVE HttpType'
    OBVIOUS
  <1>1. TypeOK /\ VoteCounts /\ HttpType /\ server \in Snapshot
    BY TypeParts DEF IndInv, WorldType
  <1>2. ASSUME NEW op \in Operation, http' = Asking(op) PROVE HttpType'
    BY <1>2 DEF HttpType, Asking
  <1>3. CASE Wanted /\ http' = Asking(WantedOp)
    BY <1>1, <1>2, <1>3, WantedType
  <1>4. CASE Wanted /\ http.phase = "done" /\ http' = Asking(WriteOp(stable, http.reply))
    <2>1. stable \in Counts /\ http.reply \in Snapshot
      BY <1>1, <1>4, WantedType, HttpHolds
    <2>2. WriteOp(stable, http.reply) \in Operation
      BY <2>1 DEF WriteOp, Write, Operation, Snapshot
    <2> QED
      BY <1>2, <1>4, <2>2
  <1>5. CASE http # NoRequest /\ http' = [http EXCEPT !.current = FALSE]
    <2>1. CASE http.phase \in {"queued", "sent"}
      BY <1>1, <1>5, <2>1, HttpHolds DEF HttpType
    <2>2. CASE http.phase \in {"answered", "done"}
      BY <1>1, <1>5, <2>2, HttpHolds DEF HttpType
    <2> QED
      BY <1>1, <1>5, <2>1, <2>2, HttpHolds
  <1>6. CASE http.phase = "queued" /\ http' = [http EXCEPT !.phase = "sent"]
    BY <1>1, <1>6, HttpHolds DEF HttpType
  <1>7. CASE http' = Failed(http.op) /\ http # NoRequest
    BY <1>1, <1>7, HttpHolds DEF Failed, HttpType
  <1>8. CASE Answer
    <2>1. server' \in Snapshot /\ (~http.op.set \/ Applies(http.op)) \in BOOLEAN
      BY <1>1, WorldSteps
    <2>2. http.op \in Operation /\ http.current \in BOOLEAN
      BY <1>1, <1>8, HttpHolds DEF Answer
    <2> QED
      BY <1>8, <2>1, <2>2 DEF Answer, HttpType
  <1>9. CASE AnswerOld
    <2>1. PICK revision \in 0..server.revision - 1, count \in Counts :
            http' = [phase |-> "answered", op |-> http.op, current |-> http.current, ok |-> TRUE,
                     reply |-> [server EXCEPT !.revision = revision, !.count = count]]
      BY <1>9 DEF AnswerOld
    <2>2. http.op \in Operation /\ http.current \in BOOLEAN
      BY <1>1, <1>9, HttpHolds DEF AnswerOld
    <2>3. [server EXCEPT !.revision = revision, !.count = count] \in Snapshot
      <3>1. revision \in 0..MaxRevision
        BY <1>1, <2>1, WireSyncAssumption DEF Snapshot
      <3> QED
        BY <1>1, <2>1, <3>1, RowBuilt
    <2> QED
      BY <2>1, <2>2, <2>3 DEF HttpType
  <1>10. CASE Deliver
    <2>1. (http.ok /\ http.current /\ StillTrue(http.op)) \in BOOLEAN
      BY <1>1, <1>10, HttpHolds DEF Deliver
    <2> QED
      BY <1>1, <1>10, <2>1, HttpHolds DEF Deliver, HttpType
  <1> QED
    BY <1>1, <1>3, <1>4, <1>5, <1>6, <1>7, <1>8, <1>9, <1>10, HttpSteps DEF HttpType

\* The vote changes by the steps of WireVerdict, or is forgotten by a boot.
LEMMA VoteSteps ==
    ASSUME [Next]_vars
    PROVE  \/ UNCHANGED voteVars
           \/ Vote!Reset \/ Vote!Unsettle \/ \E count \in Counts : Vote!Settle(count)
           \/ generation' = 0 /\ qualified' = FALSE /\ stable' = Unknown
  <1>1. CASE Serve
    BY <1>1 DEF Serve, ServeNothing, ServeAsk, ServeRejected, ServeWait, ServeFailed,
       ServeStale, ServeChanged, ServeReadConfirmed, ServeThenWrite, ServeWriteRejected,
       ServeUnsettled, ServeWritten, ForgetCycle
  <1>2. CASE ~Serve
    BY <1>2 DEF Next, vars, Sample, Observe, Probe, Refresh, Send, Discard, Answer,
       AnswerOld, Deliver, Lose, ArriveLate, OutsideWrite, ServerRestart, Reboot, ForgetCycle
  <1> QED
    BY <1>1, <1>2

\* The vote keeps its types, and a qualified vote its count.
LEMMA VoteStep == IndInv /\ [Next]_vars => VoteType' /\ VoteCounts'
  <1> SUFFICES ASSUME IndInv, [Next]_vars PROVE VoteType' /\ VoteCounts'
    OBVIOUS
  <1>1. /\ generation \in {0, 1} /\ qualified \in BOOLEAN
        /\ stable \in Counts \cup {Unknown} /\ VoteCounts
    BY DEF IndInv, TypeOK, Vote!TypeOK, Vote!Unknown, Unknown
  <1>2. VoteType' <=> /\ generation' \in {0, 1} /\ qualified' \in BOOLEAN
                      /\ stable' \in Counts \cup {Unknown}
    BY DEF VoteType, Vote!TypeOK, Vote!Unknown, Unknown
  <1>3. CASE UNCHANGED voteVars
    BY <1>1, <1>2, <1>3 DEF voteVars, VoteCounts
  <1>4. CASE Vote!Reset
    BY <1>2, <1>4 DEF Vote!Reset, VoteCounts, Vote!Unknown, Unknown
  <1>5. CASE Vote!Unsettle
    BY <1>1, <1>2, <1>5 DEF Vote!Unsettle, VoteCounts
  <1>6. CASE \E count \in Counts : Vote!Settle(count)
    BY <1>1, <1>2, <1>6 DEF Vote!Settle, VoteCounts
  <1>7. CASE generation' = 0 /\ qualified' = FALSE /\ stable' = Unknown
    BY <1>2, <1>7 DEF VoteCounts
  <1> QED
    BY <1>3, <1>4, <1>5, <1>6, <1>7, VoteSteps

\* A count that is read or acknowledged is a count.
LEMMA SyncTypeStep == IndInv /\ [Next]_vars => SyncType' /\ ViewType'
  <1> SUFFICES ASSUME IndInv, [Next]_vars PROVE SyncType' /\ ViewType'
    OBVIOUS
  <1>1. SyncType /\ ViewType /\ ObserveType /\ HttpType /\ server \in Snapshot
    BY TypeParts DEF IndInv, WorldType
  <1>2. context' \in Snapshot \cup {NoContext}
    BY <1>1, ContextSteps, HttpHolds DEF SyncType
  <1>3. /\ acked' \in {acked, Unknown} \/ (http.phase = "done" /\ acked' = http.reply.count)
        /\ \/ view' = view
           \/ http.phase = "done" /\ view' = [view EXCEPT !.count = http.reply.count]
           \/ view' = [stage |-> server.stage, count |-> server.count]
           \/ view' = [stage |-> "setting", count |-> Unknown]
    <2>1. CASE Serve
      BY <2>1 DEF Serve, ServeNothing, ServeAsk, ServeRejected, ServeWait, ServeFailed,
         ServeStale, ServeChanged, ServeReadConfirmed, ServeThenWrite, ServeWriteRejected,
         ServeUnsettled, ServeWritten, Adopted, Matches, Unconfirmed, ForgetCycle, syncVars
    <2>2. CASE ~Serve
      BY <2>2 DEF Next, vars, syncVars, Sample, Observe, Probe, Refresh, Send, Discard, Answer,
         AnswerOld, Deliver, Lose, ArriveLate, OutsideWrite, ServerRestart, Reboot, DeviceBoots,
         ForgetCycle
    <2> QED
      BY <2>1, <2>2
  <1>4. acked' \in Counts \cup {Unknown}
    BY <1>1, <1>3, HttpHolds DEF SyncType, Snapshot
  <1>5. ViewType'
    <2>1. http.phase = "done" => http.reply.count \in Counts
      BY <1>1, HttpHolds DEF Snapshot
    <2> QED
      BY <1>1, <1>3, <2>1 DEF ViewType, Snapshot, Stages
  <1>6. contextValid' \in BOOLEAN /\ fence' \in BOOLEAN
    <2>1. CASE Serve
      BY <1>1, <2>1 DEF SyncType, Serve, ServeNothing, ServeAsk, ServeRejected, ServeWait,
         ServeFailed, ServeStale, ServeChanged, ServeReadConfirmed, ServeThenWrite,
         ServeWriteRejected, ServeUnsettled, ServeWritten, Adopted, Fencing, Unconfirmed,
         ForgetCycle, syncVars
    <2>2. CASE ~Serve
      BY <1>1, <2>2 DEF SyncType, Next, vars, syncVars, Sample, Observe, Probe, Refresh, Send,
         Discard, Answer, AnswerOld, Deliver, Lose, ArriveLate, OutsideWrite, ServerRestart,
         Reboot, DeviceBoots, ForgetCycle
    <2> QED
      BY <2>1, <2>2
  <1> QED
    BY <1>2, <1>4, <1>5, <1>6 DEF SyncType

\* What the main loop observes keeps its types.
LEMMA ObserveTypeStep == IndInv /\ [Next]_vars => ObserveType' /\ MainType'
  <1> SUFFICES ASSUME IndInv, [Next]_vars PROVE ObserveType' /\ MainType'
    OBVIOUS
  <1>1. ObserveType /\ MainType /\ ViewType
    BY TypeParts DEF IndInv
  <1>2. CASE Observe
    BY <1>1, <1>2 DEF Observe, ObserveType, MainType, ViewType, Monitored
  <1>3. CASE Serve
    BY <1>1, <1>3 DEF Serve, ServeNothing, ServeAsk, ServeRejected, ServeWait, ServeFailed,
       ServeStale, ServeChanged, ServeReadConfirmed, ServeThenWrite, ServeWriteRejected,
       ServeUnsettled, ServeWritten, Adopted, Serving, ObserveType, MainType, observeVars
  <1>4. CASE ~Observe /\ ~Serve
    BY <1>1, <1>4 DEF Next, vars, observeVars, Sample, Probe, Refresh, Send, Discard, Answer,
       AnswerOld, Deliver, Lose, ArriveLate, OutsideWrite, ServerRestart, Reboot, DeviceBoots,
       ObserveType, MainType
  <1> QED
    BY <1>2, <1>3, <1>4

\* Types are kept by every step.
LEMMA TypeStep == IndInv /\ [Next]_vars => TypeOK'
  <1> SUFFICES ASSUME IndInv, [Next]_vars PROVE TypeOK'
    OBVIOUS
  <1>1. TypeOK /\ HttpType /\ WorldType
    BY TypeParts DEF IndInv
  <1>2. /\ server' \in Snapshot
        /\ \/ late' \subseteq late
           \/ http.phase = "sent" /\ http.op.set /\ late' = late \cup {http.op}
        /\ faults' \in {faults, faults + 1} /\ (faults' # faults => faults < MaxFaults)
    BY <1>1, WorldSteps
  <1>3. http.phase = "sent" /\ http.op.set => http.op \in Write
    <2>1. http.phase = "sent" => http.op \in Operation
      BY <1>1, HttpHolds
    <2> QED
      BY <2>1 DEF Operation, ReadOp
  <1>4. late' \subseteq Write
    BY <1>1, <1>2, <1>3 DEF WorldType
  <1>5. faults' \in 0..MaxFaults
    <2>1. faults \in 0..MaxFaults /\ MaxFaults \in Nat
      BY <1>1, WireSyncAssumption DEF WorldType
    <2> QED
      BY <1>2, <2>1
  <1>6. WorldType'
    BY <1>2, <1>4, <1>5 DEF WorldType
  <1> QED
    BY <1>6, VoteStep, SyncTypeStep, ObserveTypeStep, HttpTypeStep
    DEF TypeOK, VoteType, SyncType, ObserveType, ViewType, MainType, HttpType, WorldType
-----------------------------------------------------------------------------
(* The order of the rows. *)

\* A base that lies in the past stays there when the server moves on.
LEMMA OrderKept ==
    ASSUME NEW row, row.epoch \in Nat, row.revision \in Nat,
           server \in Snapshot, server' \in Snapshot,
           UNCHANGED server \/ Before(server, server')
    PROVE  /\ AtMost(row, server) => AtMost(row, server')
           /\ Before(row, server) => Before(row, server')
           /\ AtMost(row, server) /\ Before(server, server') => Before(row, server')
           /\ Before(row, server) => AtMost(row, server) /\ ~SameBase(row, server)
           /\ Before(row, server') => AtMost(row, server') /\ ~SameBase(row, server')
  <1>1. /\ server.epoch \in Nat /\ server.revision \in Nat
        /\ server'.epoch \in Nat /\ server'.revision \in Nat
    BY WireSyncAssumption DEF Snapshot
  <1> QED
    BY <1>1 DEF AtMost, Before, SameBase

\* A row that was read stays genuine when the server moves on.
LEMMA GenuineKept ==
    ASSUME NEW row \in Snapshot, server \in Snapshot, server' \in Snapshot,
           UNCHANGED server \/ Before(server, server'), Genuine(row)
    PROVE  AtMost(row, server') /\ (SameBase(row, server') => row = server')
  <1>1. row.epoch \in Nat /\ row.revision \in Nat
    BY WireSyncAssumption DEF Snapshot
  <1>2. AtMost(row, server) /\ (SameBase(row, server) => row = server)
    BY DEF Genuine
  <1>3. CASE UNCHANGED server
    <2>1. server' = server
      BY <1>3
    <2> QED
      BY <1>2, <2>1 DEF AtMost, Before, SameBase
  <1>4. CASE Before(server, server')
    BY <1>1, <1>2, <1>4, OrderKept
  <1> QED
    BY <1>3, <1>4

\* What an operation holds.
LEMMA OperationHolds ==
    ASSUME NEW op \in Operation
    PROVE  /\ op.set \in BOOLEAN /\ op.epoch \in Nat /\ op.revision \in Nat
           /\ op.set => op \in Write
  <1>1. CASE op = ReadOp
    <2>1. ReadOp.set = FALSE /\ ReadOp.epoch = 0 /\ ReadOp.revision = 0
      BY DEF ReadOp
    <2>2. op.epoch \in Nat /\ op.revision \in Nat
      BY <1>1, <2>1
    <2>3. op.set \in BOOLEAN /\ ~op.set
      BY <1>1, <2>1, Zenon
    <2> QED
      BY <2>2, <2>3
  <1>2. CASE op \in Write
    <2>1. op.set = TRUE /\ op.epoch \in Nat /\ op.revision \in 0..MaxRevision
      BY <1>2 DEF Write
    <2>2. op.epoch \in Nat /\ op.revision \in Nat
      BY <2>1, WireSyncAssumption
    <2>3. op.set \in BOOLEAN
      BY <2>1, Zenon
    <2> QED
      BY <1>2, <2>2, <2>3
  <1> QED
    BY <1>1, <1>2 DEF Operation

\* What a request may be about lies in the order: an operation, a lost write.
LEMMA BasesTyped ==
    ASSUME TypeOK
    PROVE  /\ \A op \in Operation : op.epoch \in Nat /\ op.revision \in Nat
           /\ \A op \in late : op \in Operation
           /\ \A row \in Snapshot : row.epoch \in Nat /\ row.revision \in Nat
           /\ context.epoch \in Nat /\ context.revision \in Nat
  <1>1. \A op \in Operation : op.epoch \in Nat /\ op.revision \in Nat
    BY OperationHolds
  <1>2. \A row \in Snapshot : row.epoch \in Nat /\ row.revision \in Nat
    BY WireSyncAssumption DEF Snapshot
  <1>3. \A op \in late : op \in Operation
    BY TypeParts DEF WorldType, Operation
  <1>4. context.epoch \in Nat /\ context.revision \in Nat
    BY <1>2 DEF TypeOK, NoContext
  <1> QED
    BY <1>1, <1>2, <1>3, <1>4

\* The request and its answer lose nothing when only a flag or the phase changes.
LEMMA HttpFields ==
    ASSUME HttpType, http # NoRequest
    PROVE  /\ http' = [http EXCEPT !.current = FALSE] =>
                  /\ http'.phase = http.phase /\ http'.op = http.op
                  /\ http.phase \in {"answered", "done"} =>
                         http'.ok = http.ok /\ http'.reply = http.reply
           /\ http' = [http EXCEPT !.phase = "sent"] /\ http.phase = "queued" =>
                  http'.phase = "sent" /\ http'.op = http.op
           /\ Deliver => /\ http'.phase = "done" /\ http'.op = http.op
                         /\ http'.ok => http.ok
                         /\ http'.reply = http.reply
  <1>1. CASE http.phase \in {"queued", "sent"}
    <2>1. http \in [phase : {"queued", "sent"}, op : Operation, current : BOOLEAN]
      BY <1>1, HttpHolds
    <2> QED
      BY <1>1, <2>1 DEF Deliver
  <1>2. CASE http.phase \in {"answered", "done"}
    <2>1. http \in [phase : {"answered", "done"}, op : Operation, current : BOOLEAN,
                    ok : BOOLEAN, reply : Snapshot]
      BY <1>2, HttpHolds
    <2> QED
      BY <1>2, <2>1 DEF Deliver
  <1> QED
    BY <1>1, <1>2, HttpHolds

\* The request keeps its operation, or asks for what the device wants now; a write
\* that it wants is based on a row that was read, and raises the fence.
LEMMA OpSteps ==
    ASSUME IndInv, [Next]_vars, http' # NoRequest
    PROVE  \/ http # NoRequest /\ http'.op = http.op
           \/ http'.op \in Operation /\ ~http'.op.set
           \/ /\ http'.op \in Operation /\ http'.op.set /\ fence' = TRUE
              /\ AtMost(http'.op, server)
  <1>1. TypeOK /\ HttpType /\ VoteCounts /\ RowsGenuine /\ server \in Snapshot
    BY TypeParts DEF IndInv, WorldType
  <1>2. CASE Wanted /\ http' = Asking(WantedOp) /\ Fencing
    <2>1. http'.op = WantedOp /\ WantedOp \in Operation
      BY <1>1, <1>2, WantedType DEF Asking
    <2>2. WantedOp.set \in BOOLEAN
      BY <2>1, OperationHolds
    <2>3. ASSUME WantedOp.set PROVE AtMost(WantedOp, server) /\ fence' = TRUE
      <3>1. WantedOp = WriteOp(stable, context)
        BY <2>3 DEF WantedOp, ReadOp
      <3>2. WantedOp.epoch = context.epoch /\ WantedOp.revision = context.revision
        BY <3>1 DEF WriteOp
      <3>3. AtMost(context, server)
        <4>1. CASE context = NoContext
          BY <1>1, <4>1, BasesTyped DEF RowsGenuine, NoContext, AtMost, Before
        <4>2. CASE Genuine(context)
          BY <4>2 DEF Genuine
        <4> QED
          BY <1>1, <4>1, <4>2 DEF RowsGenuine
      <3>4. fence' = TRUE
        BY <1>1, <1>2, <2>3 DEF Fencing, TypeOK
      <3> QED
        BY <3>2, <3>3, <3>4 DEF AtMost, Before, SameBase
    <2> QED
      BY <2>1, <2>2, <2>3
  <1>3. CASE Wanted /\ http.phase = "done" /\ fence' = TRUE
             /\ http' = Asking(WriteOp(stable, http.reply))
    <2>1. stable \in Counts /\ http.reply \in Snapshot /\ Genuine(http.reply)
      BY <1>1, <1>3, WantedType, HttpHolds DEF RowsGenuine
    <2>2. http'.op = WriteOp(stable, http.reply) /\ http'.op \in Operation
      BY <1>3, <2>1 DEF Asking, WriteOp, Write, Operation, Snapshot
    <2>3. http'.op.set /\ http'.op.epoch = http.reply.epoch
          /\ http'.op.revision = http.reply.revision
      BY <2>2 DEF WriteOp
    <2>4. AtMost(http'.op, server)
      BY <2>1, <2>3 DEF Genuine, AtMost, Before, SameBase
    <2> QED
      BY <1>3, <2>2, <2>3, <2>4
  <1>4. ASSUME http # NoRequest,
               \/ http' = [http EXCEPT !.current = FALSE]
               \/ http.phase = "queued" /\ http' = [http EXCEPT !.phase = "sent"]
               \/ Deliver
        PROVE  http'.op = http.op
    BY <1>1, <1>4, HttpFields
  <1>5. http' = Failed(http.op) => http'.op = http.op
    BY DEF Failed
  <1>6. Answer \/ AnswerOld => http # NoRequest /\ http'.op = http.op
    <2>1. Answer => http'.op = http.op
      BY DEF Answer
    <2>2. AnswerOld => http'.op = http.op
      BY DEF AnswerOld
    <2>3. Answer \/ AnswerOld => http.phase # "none"
      BY DEF Answer, AnswerOld
    <2> QED
      BY <1>1, <2>1, <2>2, <2>3, HttpHolds
  <1>7. http' = http => http # NoRequest /\ http'.op = http.op
    OBVIOUS
  <1>8. Deliver \/ http.phase = "queued" => http # NoRequest
    BY DEF Deliver, NoRequest
  <1>9. \/ http' = http
        \/ Wanted /\ http' = Asking(WantedOp) /\ Fencing
        \/ /\ Wanted /\ http.phase = "done" /\ fence' = TRUE
           /\ http' = Asking(WriteOp(stable, http.reply))
        \/ http # NoRequest /\ http' = [http EXCEPT !.current = FALSE]
        \/ http.phase = "queued" /\ http' = [http EXCEPT !.phase = "sent"]
        \/ http' = Failed(http.op) /\ http # NoRequest
        \/ Answer \/ AnswerOld \/ Deliver
    BY HttpSteps
  <1> QED
    BY <1>2, <1>3, <1>4, <1>5, <1>6, <1>7, <1>8, <1>9

\* What was read stays of the past: the server only moves up, and an answer is its
\* row of now or an older one.
LEMMA RowsGenuineStep == IndInv /\ [Next]_vars => RowsGenuine'
  <1> SUFFICES ASSUME IndInv, [Next]_vars PROVE RowsGenuine'
    OBVIOUS
  <1>1. /\ TypeOK /\ HttpType /\ RowsGenuine
        /\ server \in Snapshot /\ server' \in Snapshot
        /\ UNCHANGED server \/ Before(server, server')
    BY TypeParts, WorldSteps DEF IndInv, WorldType
  <1>2. server'.epoch >= 1
    <2>1. server.epoch \in Nat /\ server'.epoch \in Nat /\ server.epoch >= 1
      BY <1>1, BasesTyped DEF RowsGenuine
    <2> QED
      BY <1>1, <2>1 DEF Before
  <1>3. ASSUME NEW row \in Snapshot, Genuine(row)
        PROVE  AtMost(row, server') /\ (SameBase(row, server') => row = server')
    BY <1>1, <1>3, GenuineKept
  <1>4. ASSUME NEW op \in Operation, AtMost(op, server) PROVE AtMost(op, server')
    BY <1>1, <1>4, OrderKept, BasesTyped
  <1>5. context' = NoContext \/ Genuine(context)'
    <2>1. CASE context' = context
      <3>1. CASE context = NoContext
        BY <2>1, <3>1
      <3>2. CASE context # NoContext
        <4>1. context \in Snapshot /\ Genuine(context)
          BY <1>1, <3>2 DEF TypeOK, RowsGenuine
        <4>2. AtMost(context, server') /\ (SameBase(context, server') => context = server')
          BY <4>1, <1>3
        <4> QED
          BY <2>1, <4>2 DEF Genuine, AtMost, SameBase, Before
      <3> QED
        BY <3>1, <3>2
    <2>2. CASE context' = http.reply /\ http.phase = "done"
      <3>1. http.reply \in Snapshot /\ Genuine(http.reply)
        BY <1>1, <2>2, HttpHolds DEF RowsGenuine
      <3>2. AtMost(http.reply, server')
            /\ (SameBase(http.reply, server') => http.reply = server')
        BY <3>1, <1>3
      <3> QED
        BY <2>2, <3>2 DEF Genuine, AtMost, SameBase, Before
    <2> QED
      BY <2>1, <2>2, ContextSteps
  <1>6. ASSUME http'.phase \in {"answered", "done"} PROVE Genuine(http.reply)'
    <2>1. ASSUME http # NoRequest, http.phase \in {"answered", "done"}, http'.reply = http.reply
          PROVE  Genuine(http.reply)'
      <3>1. http.reply \in Snapshot /\ Genuine(http.reply)
        BY <1>1, <2>1, HttpHolds DEF RowsGenuine
      <3>2. AtMost(http.reply, server')
            /\ (SameBase(http.reply, server') => http.reply = server')
        BY <3>1, <1>3
      <3> QED
        BY <2>1, <3>2 DEF Genuine, AtMost, SameBase, Before
    <2>2. ASSUME http'.reply = server' PROVE Genuine(http.reply)'
      BY <2>2 DEF Genuine, AtMost, SameBase
    <2>3. CASE http' = http
      BY <1>6, <2>1, <2>3 DEF NoRequest
    <2>4. CASE http # NoRequest /\ http' = [http EXCEPT !.current = FALSE]
      BY <1>1, <1>6, <2>1, <2>4, HttpFields
    <2>5. CASE http' = Failed(http.op) /\ UNCHANGED server
      BY <2>2, <2>5 DEF Failed
    <2>6. CASE Answer
      BY <2>2, <2>6 DEF Answer
    <2>7. CASE AnswerOld
      <3>1. UNCHANGED server
        BY <2>7 DEF AnswerOld
      <3>2. PICK revision \in 0..server.revision - 1, count \in Counts :
              http' = [phase |-> "answered", op |-> http.op, current |-> http.current,
                       ok |-> TRUE,
                       reply |-> [server EXCEPT !.revision = revision, !.count = count]]
        BY <2>7 DEF AnswerOld
      <3>3. http'.reply.epoch = server.epoch /\ http'.reply.revision = revision
        BY <1>1, <3>2 DEF Snapshot
      <3>4. revision < server.revision /\ revision # server.revision
        BY <1>1, <3>2, BasesTyped
      <3> QED
        BY <3>1, <3>3, <3>4 DEF Genuine, AtMost, SameBase, Before
    <2>8. CASE Deliver
      <3>1. http # NoRequest /\ http.phase = "answered"
        BY <2>8 DEF Deliver, NoRequest
      <3> QED
        BY <1>1, <2>1, <2>8, <3>1, HttpFields
    <2>9. \/ http' = http
          \/ http' = NoRequest
          \/ http' = Asking(WantedOp)
          \/ http' = Asking(WriteOp(stable, http.reply))
          \/ http # NoRequest /\ http' = [http EXCEPT !.current = FALSE]
          \/ http.phase = "queued" /\ http' = [http EXCEPT !.phase = "sent"]
          \/ http' = Failed(http.op) /\ UNCHANGED server
          \/ Answer \/ AnswerOld \/ Deliver
      BY HttpSteps
    <2>10. /\ http' # NoRequest
           /\ http' # Asking(WantedOp) /\ http' # Asking(WriteOp(stable, http.reply))
      BY <1>6 DEF NoRequest, Asking
    <2>11. ~(http.phase = "queued" /\ http' = [http EXCEPT !.phase = "sent"])
      <3>1. http.phase = "queued" => http # NoRequest
        BY DEF NoRequest
      <3> QED
        BY <1>1, <1>6, <3>1, HttpFields
    <2> QED
      BY <2>3, <2>4, <2>5, <2>6, <2>7, <2>8, <2>9, <2>10, <2>11
  <1>7. ASSUME http' # NoRequest, http'.op.set PROVE AtMost(http'.op, server')
    <2>1. CASE http # NoRequest /\ http'.op = http.op
      <3>1. http.op \in Operation /\ AtMost(http.op, server)
        BY <1>1, <1>7, <2>1, HttpHolds DEF RowsGenuine
      <3>2. AtMost(http.op, server')
        BY <3>1, <1>4
      <3> QED
        BY <2>1, <3>2
    <2>2. CASE http'.op \in Operation /\ AtMost(http'.op, server)
      BY <1>4, <2>2
    <2> QED
      BY <1>7, <2>1, <2>2, OpSteps
  <1>8. ASSUME NEW op \in late' PROVE AtMost(op, server')
    <2>1. CASE op \in late
      BY <1>1, <1>4, <2>1, BasesTyped DEF RowsGenuine
    <2>2. CASE http.phase = "sent" /\ http.op.set /\ op = http.op
      <3>1. http # NoRequest
        BY <2>2 DEF NoRequest
      <3>2. http.op \in Operation /\ AtMost(http.op, server)
        BY <1>1, <2>2, <3>1, HttpHolds DEF RowsGenuine
      <3> QED
        BY <2>2, <3>2, <1>4
    <2> QED
      BY <1>1, <2>1, <2>2, WorldSteps
  <1> QED
    BY <1>2, <1>5, <1>6, <1>7, <1>8 DEF RowsGenuine

\* A base that is behind the server stays behind it.
LEMMA BehindKept ==
    ASSUME IndInv, [Next]_vars, NEW op \in late, Before(op, server)
    PROVE  Before(op, server')
  BY OrderKept, BasesTyped, TypeParts, WorldSteps DEF IndInv, WorldType

\* The write that the server takes moves its row beyond every write before it.
LEMMA WriteClosesPastStep == IndInv /\ [Next]_vars => WriteClosesPast'
  <1> SUFFICES ASSUME IndInv, [Next]_vars,
                      http'.phase \in {"answered", "done"}, http'.ok, http'.op.set,
                      NEW op \in late'
               PROVE  Before(op, server')
    BY DEF WriteClosesPast
  <1>1. TypeOK /\ HttpType /\ RowsGenuine /\ WriteClosesPast /\ server \in Snapshot
    BY TypeParts DEF IndInv, WorldType
  <1>2. http' # NoRequest /\ http' # Failed(http.op)
    BY DEF NoRequest, Failed
  <1>3. op \in late
    BY <1>1, <1>2, WorldSteps
  <1>4. ASSUME http.phase \in {"answered", "done"}, http.ok, http.op.set
        PROVE  Before(op, server')
    BY <1>1, <1>3, <1>4, BehindKept DEF WriteClosesPast
  <1>5. CASE http' = http
    BY <1>4, <1>5
  <1>6. CASE http # NoRequest /\ http' = [http EXCEPT !.current = FALSE]
    BY <1>1, <1>4, <1>6, HttpFields
  <1>7. CASE Answer
    <2>1. http'.op = http.op /\ (http'.ok <=> ~http.op.set \/ Applies(http.op))
      BY <1>7 DEF Answer
    <2>2. Applies(http.op)
      BY <2>1
    <2>3. server' = [server EXCEPT !.count = http.op.count, !.revision = server.revision + 1]
      BY <1>7, <2>2 DEF Answer, Handle
    <2>4. Before(server, server')
      <3>1. server'.epoch = server.epoch /\ server'.revision = server.revision + 1
        BY <1>1, <2>3 DEF Snapshot
      <3>2. server.revision \in Nat
        BY <1>1, BasesTyped
      <3> QED
        BY <3>1, <3>2 DEF Before
    <2>5. AtMost(op, server) /\ op.epoch \in Nat /\ op.revision \in Nat /\ server' \in Snapshot
      BY <1>1, <1>3, BasesTyped, WorldSteps DEF RowsGenuine
    <2> QED
      BY <1>1, <2>4, <2>5, OrderKept
  <1>8. CASE AnswerOld
    <2>1. http'.op = http.op /\ ~http.op.set
      BY <1>8 DEF AnswerOld
    <2> QED
      BY <2>1
  <1>9. CASE Deliver
    <2>1. http # NoRequest /\ http.phase = "answered"
      BY <1>9 DEF Deliver, NoRequest
    <2> QED
      BY <1>1, <1>4, <1>9, <2>1, HttpFields
  <1>10. \/ http' = http
         \/ http' = Asking(WantedOp)
         \/ http' = Asking(WriteOp(stable, http.reply))
         \/ http # NoRequest /\ http' = [http EXCEPT !.current = FALSE]
         \/ http.phase = "queued" /\ http' = [http EXCEPT !.phase = "sent"]
         \/ Answer \/ AnswerOld \/ Deliver
    BY <1>2, HttpSteps
  <1>11. http' # Asking(WantedOp) /\ http' # Asking(WriteOp(stable, http.reply))
    BY DEF Asking
  <1>12. ~(http.phase = "queued" /\ http' = [http EXCEPT !.phase = "sent"])
    <2>1. http.phase = "queued" => http # NoRequest
      BY DEF NoRequest
    <2> QED
      BY <1>1, <2>1, HttpFields
  <1> QED
    BY <1>5, <1>6, <1>7, <1>8, <1>9, <1>10, <1>11, <1>12

\* The fence comes down with a confirmed write; while it is down no write is asked for.
LEMMA FenceClosedStep == IndInv /\ [Next]_vars => FenceClosed'
  <1> SUFFICES ASSUME IndInv, [Next]_vars, ~fence'
               PROVE  /\ http' # NoRequest => ~http'.op.set
                      /\ \A op \in late' : Before(op, server')
    BY DEF FenceClosed
  <1>1. CASE fence
    <2>1. /\ http.phase = "done" /\ http.ok /\ http.op.set /\ http' = NoRequest
          /\ UNCHANGED <<server, late>>
      BY <1>1, FenceSteps
    <2>2. \A op \in late : Before(op, server)
      BY <2>1 DEF IndInv, WriteClosesPast
    <2>3. \A op \in late' : Before(op, server')
      BY <2>1, <2>2
    <2> QED
      BY <2>1, <2>3
  <1>2. CASE ~fence
    <2>1. /\ http # NoRequest => ~http.op.set
          /\ \A op \in late : Before(op, server)
      BY <1>2 DEF IndInv, FenceClosed
    <2>2. http' # NoRequest => ~http'.op.set
      BY <2>1, OpSteps
    <2>3. late' \subseteq late
      <3>1. http.phase = "sent" => http # NoRequest
        BY DEF NoRequest
      <3> QED
        BY <2>1, <3>1, WorldSteps DEF IndInv
    <2>4. \A op \in late' : Before(op, server')
      BY <2>1, <2>3, BehindKept
    <2> QED
      BY <2>2, <2>4
  <1> QED
    BY <1>1, <1>2
-----------------------------------------------------------------------------
(* The theorems. *)

\* The inductive invariant holds of a device that boots against a server it has
\* never spoken to.
LEMMA InitIndInv == Init => IndInv
  <1> SUFFICES ASSUME Init PROVE IndInv
    OBVIOUS
  <1>1. /\ acked = Unknown /\ enabled = FALSE /\ contextValid = FALSE /\ context = NoContext
        /\ fence = TRUE /\ view = [stage |-> "setting", count |-> Unknown] /\ observed = "none"
        /\ main = "loop" /\ http = NoRequest /\ late = {} /\ faults = 0
        /\ server \in [epoch : {1}, revision : {0}, count : Counts, stage : {"activate"}]
    BY DEF Init, DeviceBoots
  <1>2. VoteType /\ VoteCounts
    BY DEF Init, Vote!Init, VoteType, Vote!TypeOK, VoteCounts
  <1>3. SyncType /\ ObserveType /\ MainType /\ HttpType
    BY <1>1 DEF SyncType, ObserveType, MainType, HttpType
  <1>4. ViewType
    BY <1>1 DEF ViewType, Stages
  <1>5. WorldType
    <2>1. server \in Snapshot
      BY <1>1, WireSyncAssumption DEF Snapshot, Stages
    <2> QED
      BY <1>1, <2>1, WireSyncAssumption DEF WorldType
  <1>6. RowsGenuine
    BY <1>1 DEF RowsGenuine, NoRequest
  <1>7. WriteClosesPast /\ FenceClosed
    BY <1>1 DEF WriteClosesPast, FenceClosed
  <1> QED
    BY <1>2, <1>3, <1>4, <1>5, <1>6, <1>7, TypeParts DEF IndInv

\* Every step keeps the inductive invariant.
LEMMA NextIndInv == IndInv /\ [Next]_vars => IndInv'
  BY TypeStep, VoteStep, RowsGenuineStep, WriteClosesPastStep, FenceClosedStep DEF IndInv

\* What the inductive invariant says of a confirmed count.
LEMMA IndInvImplies == IndInv => CountsBound
  <1> SUFFICES ASSUME IndInv PROVE NoWriteBehindTheFence /\ CompletionForThisCount
    BY DEF IndInv, CountsBound
  <1>1. TypeOK /\ HttpType /\ RowsGenuine /\ FenceClosed /\ server \in Snapshot
    BY TypeParts DEF IndInv, WorldType
  <1>2. ASSUME ~fence, NEW op \in late PROVE ~Applies(op)
    <2>1. Before(op, server)
      BY <1>1, <1>2 DEF FenceClosed
    <2>2. ~SameBase(op, server)
      BY <1>1, <2>1, BasesTyped DEF Before, SameBase
    <2> QED
      BY <2>2 DEF Applies
  <1>3. ASSUME ~fence, http.phase = "sent" PROVE ~Applies(http.op)
    <2>1. http # NoRequest
      BY <1>3 DEF NoRequest
    <2> QED
      BY <1>1, <1>3, <2>1 DEF FenceClosed, Applies
  <1>4. ASSUME CompletionBegins, SameBase(context, server)
        PROVE  server.count = stable /\ server.stage = context.stage
    <2>1. context # NoContext
      BY <1>1, <1>4, BasesTyped DEF RowsGenuine, SameBase, NoContext
    <2>2. context = server
      BY <1>1, <1>4, <2>1 DEF RowsGenuine, Genuine
    <2> QED
      BY <1>4, <2>2 DEF CompletionBegins
  <1>5. CompletionBegins => ~fence
    BY DEF CompletionBegins, CompletionContext
  <1> QED
    BY <1>2, <1>3, <1>4, <1>5 DEF NoWriteBehindTheFence, CompletionForThisCount

\* The inductive invariant holds in every reachable state.
THEOREM IndInvHolds == Spec => []IndInv
  <1> QED
    BY InitIndInv, NextIndInv, PTL DEF Spec

\* A confirmed count is bound to the row it was confirmed in: with the fence down no
\* earlier write, lost on the way or from before a reboot, can still change the
\* server, and a completion the server takes is for the count that is plugged in
\* (WireServiceLoop, GeneratorNetworkComplete).
THEOREM CountsBoundHolds == Spec => []CountsBound
  <1> QED
    BY IndInvHolds, IndInvImplies, PTL
=============================================================================

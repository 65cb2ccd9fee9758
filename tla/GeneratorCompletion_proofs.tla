--------------------- MODULE GeneratorCompletion_proofs ---------------------
(***************************************************************************)
(* Proofs about the completion of a stage, for any counts and faults: an   *)
(* intent under way is in flash, nothing is taken for done that the server *)
(* did not do, and the server does it once.                                *)
(***************************************************************************)
EXTENDS GeneratorCompletion, TLAPS

-----------------------------------------------------------------------------
(* The inductive invariant, by its parts. *)

Epochs    == 0 .. MaxEpoch
Revisions == 0 .. MaxRevision
Modes     == {"conditional", "legacy"}
Txs == [mode : {"none", "conditional", "legacy"}, epoch : Epochs, revision : Revisions,
        count : Counts \cup {0, Unsettled}, start : Stages, sent : BOOLEAN, confirmed : BOOLEAN,
        superseded : BOOLEAN, dispatched : BOOLEAN, durable : BOOLEAN, restored : BOOLEAN,
        needsFull : BOOLEAN, current : BOOLEAN, bypass : BOOLEAN, attempts : 0 .. MaxAttempts,
        resend : BOOLEAN, withdrawn : BOOLEAN]
Rows == [epoch : 1 .. MaxEpoch, revision : Revisions, stage : Stages, count : Counts,
         protocol : Protocols]
Replies == [kind : {"none", "cancelled", "failed", "undelivered"}] \cup [kind : {"row"}, row : Rows]
Sends == [at : {"queued", "sent", "done"}, mode : Modes, epoch : Epochs, revision : Revisions,
          count : Counts \cup {0, Unsettled}, bypass : BOOLEAN, current : BOOLEAN,
          resend : BOOLEAN, cancelled : BOOLEAN, dispatched : BOOLEAN, reply : Replies]
Reads == [at : {"queued", "done"}, kind : {"conditional", "legacy", "fault"}, current : BOOLEAN,
          reply : Replies]
Wires == [mode : Modes, epoch : Epochs, revision : Revisions]
Contexts == [valid : BOOLEAN, epoch : Epochs, revision : Revisions, stage : Stages,
             count : Counts \cup {0}, protocol : {0, 1}]
Intents == [kind : {"intent"}, epoch : Epochs, revision : Revisions,
            count : Counts \cup {0, Unsettled}]

TxType == setup \in Setups /\ tx \in Txs
RequestType == send \in {NoRequest} \cup Sends /\ read \in {NoRequest} \cup Reads
FlagType ==
    /\ verify \in BOOLEAN /\ storeFault \in BOOLEAN /\ awaitResync \in BOOLEAN
    /\ resetCycle \in BOOLEAN /\ bypass \in BOOLEAN /\ touched \in BOOLEAN
InputType ==
    /\ view \in Stages \cup {Unseen} /\ stable \in Counts \cup {Unsettled} /\ context \in Contexts
    /\ protocol \in {Unknown, 0, 1}
WorldType ==
    /\ journal \in {Empty, Corrupt} \cup Intents /\ server \in Rows /\ late \subseteq Wires
    /\ effects \in 0 .. 2 /\ faults \in 0 .. MaxFaults
Types == TxType /\ RequestType /\ FlagType /\ InputType /\ WorldType

\* An intent is in flash as long as its completion is open, and then nothing else is wrong
\* with the flash.
Open == tx.mode = "conditional" /\ tx.sent /\ ~Resolved
FlashHeld ==
    /\ Open => tx.durable /\ journal = Intent(tx) /\ ~storeFault
    /\ journal # Empty => storeFault \/ Open
    /\ tx.mode = "legacy" => ~tx.durable
    /\ storeFault => ~(tx.mode = "legacy" /\ tx.current)

\* A request is of the transaction, and there is none before the first snapshot.
RequestsOwned ==
    /\ send.at # "none" /\ send.mode = "conditional" =>
          Open /\ send.epoch = tx.epoch /\ send.revision = tx.revision /\ send.count = tx.count
    /\ send.at # "none" /\ send.mode = "legacy" => tx.mode = "legacy"
    /\ read.at # "none" /\ read.kind = "conditional" => Open
    /\ read.at # "none" /\ read.kind = "legacy" => tx.mode = "legacy"
    /\ send.at # "none" \/ read.at # "none" => BootReady
    /\ tx.mode = "legacy" => BootReady
    /\ tx.mode = "none" => ~tx.sent /\ ~tx.confirmed

\* A plain Send is only repeated while it may be, and only one at a time.
Attempts ==
    /\ send.at # "none" /\ send.mode = "legacy" => tx.attempts < MaxAttempts
    /\ tx.resend => tx.mode = "legacy" /\ tx.attempts < MaxAttempts /\ send.at = "none"

DeviceInv == Types /\ FlashHeld /\ RequestsOwned /\ Attempts

\* The last context is an older row, or the row.
ContextOld ==
    /\ context.epoch <= server.epoch
    /\ context.epoch = server.epoch => context.revision <= server.revision
    /\ context.epoch = server.epoch /\ context.revision = server.revision =>
          context.stage = server.stage

\* Until others write the row, it is at the target just when the server performed the completion.
StageEarned ==
    /\ effects # 0 => server.stage = Target
    /\ ~touched /\ server.stage = Target => effects # 0

\* A transaction that may still be confirmed, and the answers it may be confirmed from.
Live == Open \/ (tx.mode = "legacy" /\ tx.current)
SaysTarget(r) == r.at = "done" /\ r.reply.kind = "row" /\ r.reply.row.stage = Target
AnswersTrue ==
    /\ Live /\ ~touched /\ (SaysTarget(send) \/ SaysTarget(read)) => server.stage = Target
    /\ tx.confirmed /\ tx.current /\ ~touched => server.stage = Target

HistoryInv == ContextOld /\ StageEarned /\ AnswersTrue
-----------------------------------------------------------------------------
(* A server that keeps its protocol; an older one, of a device that keeps its power. *)

PlainWire == [mode |-> "legacy", epoch |-> 0, revision |-> 0]
OnlyPlain ==
    /\ tx.mode # "conditional" /\ tx.epoch = 0 /\ tx.revision = 0
    /\ ~storeFault /\ journal = Empty /\ protocol # 1 /\ ~resetCycle
    /\ send.at # "none" => send.mode = "legacy" /\ send.epoch = 0 /\ send.revision = 0
    /\ read.at # "none" => read.kind = "legacy"
    /\ late \subseteq {PlainWire}
    /\ context.epoch \in {0, server.epoch}

\* A Send that may have gone out: it may arrive, or has arrived.
Out == late # {} \/ effects # 0

\* The device knows that its Send went out, and does not repeat it.
Gone == send.at = "done" /\ send.dispatched /\ send.reply.kind # "undelivered"
Spent ==
    /\ tx.mode = "legacy" /\ tx.current /\ tx.sent /\ ~tx.resend
    /\ (send.at = "none" /\ tx.dispatched) \/ Gone
\* It waits for the row to say so.
Waits == Spent /\ ~Resolved /\ view = StartStage
\* Or its cycle is over, and the next begins only when others have written the row.
Shut ==
    /\ ~tx.current /\ send.at = "none"
    /\ view = StartStage => ~bypass /\ ~context.valid

SendsPlain ==
    /\ tx.mode = "legacy" => tx.start = StartStage
    /\ tx.mode = "legacy" /\ tx.current => Active(view) /\ BootReady
    /\ tx.mode = "legacy" /\ tx.dispatched => tx.sent /\ ~tx.resend /\ send.at = "none"
    /\ send.at = "queued" => ~send.dispatched
    /\ send.at = "queued" /\ send.current => tx.current /\ tx.sent /\ ~Resolved /\ view = StartStage
    /\ send.at = "sent" =>
          tx.current /\ tx.sent /\ ~Resolved /\ view = StartStage /\ send.dispatched
    /\ send.at = "done" /\ send.dispatched =>
          tx.current /\ tx.sent /\ ~Resolved /\ view = StartStage
    /\ send.at # "none" \/ tx.resend => tx.sent
    /\ ~(send.at \in {"sent", "done"} /\ read.at = "done")

OutKnown ==
    /\ Out => Waits \/ (server.stage # StartStage /\ (Spent \/ Shut))
    /\ Out => send.at # "sent"
    /\ late # {} => effects = 0
    /\ Out /\ read.at = "done" /\ read.reply.kind = "row" =>
          IF read.reply.row.stage = StartStage THEN Waits ELSE server.stage # StartStage

PlainHeld == OnlyPlain /\ SendsPlain /\ OutKnown /\ effects <= 1
-----------------------------------------------------------------------------
(* The changes of a transaction and of a request, each by its fields. *)

Revived(t)     == [t EXCEPT !.restored = FALSE, !.current = TRUE]
Answering(t)   == [t EXCEPT !.dispatched = @ \/ send.dispatched]
Plain(t)       == [t EXCEPT !.durable = FALSE, !.mode = "legacy", !.sent = FALSE,
                            !.dispatched = FALSE, !.attempts = 0]
Overtaken(t)   == [t EXCEPT !.superseded = TRUE]
Refreshed(t)   == [t EXCEPT !.needsFull = FALSE]
Repeated(t)    == [t EXCEPT !.resend = FALSE, !.withdrawn = FALSE]
Cancelled(t)   == [t EXCEPT !.withdrawn = TRUE]
Forgotten(t)   == [t EXCEPT !.durable = FALSE, !.sent = FALSE, !.restored = FALSE]
NotCurrent(t)  == [t EXCEPT !.current = FALSE]
Resolution(t, confirmed, cleared) ==
    [t EXCEPT !.confirmed = confirmed, !.superseded = ~confirmed,
              !.needsFull = confirmed /\ Target = "repaired",
              !.durable = t.durable /\ ~cleared, !.current = t.current /\ confirmed]
BeganLegacy    == [NoTransaction EXCEPT !.mode = "legacy", !.current = TRUE, !.start = view]

\* A restored transaction that is bound to this cycle.
LEMMA RevivedFields ==
    ASSUME GeneratorCompletionAssumption, Types PROVE
    \A t \in Txs :
      LET u == Revived(t) IN
      /\ u \in Txs
      /\ u.mode = t.mode /\ u.epoch = t.epoch /\ u.revision = t.revision /\ u.count = t.count
      /\ u.start = t.start /\ u.sent = t.sent /\ u.confirmed = t.confirmed
      /\ u.superseded = t.superseded
      /\ u.dispatched = t.dispatched /\ u.durable = t.durable /\ u.restored = FALSE
      /\ u.needsFull = t.needsFull
      /\ u.current = TRUE /\ u.bypass = t.bypass /\ u.attempts = t.attempts /\ u.resend = t.resend
      /\ u.withdrawn = t.withdrawn
BY DEF Revived, Txs

\* A transaction whose Send is answered.
LEMMA AnsweringFields ==
    ASSUME GeneratorCompletionAssumption, Types, send.at # "none" PROVE
    \A t \in Txs :
      LET u == Answering(t) IN
      /\ u \in Txs
      /\ u.mode = t.mode /\ u.epoch = t.epoch /\ u.revision = t.revision /\ u.count = t.count
      /\ u.start = t.start /\ u.sent = t.sent /\ u.confirmed = t.confirmed
      /\ u.superseded = t.superseded
      /\ (u.dispatched <=> (t.dispatched \/ send.dispatched)) /\ u.durable = t.durable
      /\ u.restored = t.restored /\ u.needsFull = t.needsFull
      /\ u.current = t.current /\ u.bypass = t.bypass /\ u.attempts = t.attempts
      /\ u.resend = t.resend
      /\ u.withdrawn = t.withdrawn
BY DEF Answering, Txs, Types, RequestType, NoRequest, Sends

\* An intent that goes on as a plain Send.
LEMMA PlainFields ==
    ASSUME GeneratorCompletionAssumption, Types PROVE
    \A t \in Txs :
      LET u == Plain(t) IN
      /\ u \in Txs
      /\ u.mode = "legacy" /\ u.epoch = t.epoch /\ u.revision = t.revision /\ u.count = t.count
      /\ u.start = t.start /\ u.sent = FALSE /\ u.confirmed = t.confirmed
      /\ u.superseded = t.superseded
      /\ u.dispatched = FALSE /\ u.durable = FALSE /\ u.restored = t.restored
      /\ u.needsFull = t.needsFull
      /\ u.current = t.current /\ u.bypass = t.bypass /\ u.attempts = 0 /\ u.resend = t.resend
      /\ u.withdrawn = t.withdrawn
<1>1. 0 \in 0 .. MaxAttempts  BY DEF MaxAttempts
<1>2. QED  BY <1>1 DEF Plain, Txs

\* A transaction that is given up.
LEMMA OvertakenFields ==
    ASSUME GeneratorCompletionAssumption, Types PROVE
    \A t \in Txs :
      LET u == Overtaken(t) IN
      /\ u \in Txs
      /\ u.mode = t.mode /\ u.epoch = t.epoch /\ u.revision = t.revision /\ u.count = t.count
      /\ u.start = t.start /\ u.sent = t.sent /\ u.confirmed = t.confirmed /\ u.superseded = TRUE
      /\ u.dispatched = t.dispatched /\ u.durable = t.durable /\ u.restored = t.restored
      /\ u.needsFull = t.needsFull
      /\ u.current = t.current /\ u.bypass = t.bypass /\ u.attempts = t.attempts
      /\ u.resend = t.resend
      /\ u.withdrawn = t.withdrawn
BY DEF Overtaken, Txs

\* A transaction that has seen a full snapshot.
LEMMA RefreshedFields ==
    ASSUME GeneratorCompletionAssumption, Types PROVE
    \A t \in Txs :
      LET u == Refreshed(t) IN
      /\ u \in Txs
      /\ u.mode = t.mode /\ u.epoch = t.epoch /\ u.revision = t.revision /\ u.count = t.count
      /\ u.start = t.start /\ u.sent = t.sent /\ u.confirmed = t.confirmed
      /\ u.superseded = t.superseded
      /\ u.dispatched = t.dispatched /\ u.durable = t.durable /\ u.restored = t.restored
      /\ u.needsFull = FALSE
      /\ u.current = t.current /\ u.bypass = t.bypass /\ u.attempts = t.attempts
      /\ u.resend = t.resend
      /\ u.withdrawn = t.withdrawn
BY DEF Refreshed, Txs

\* A transaction whose Send goes again.
LEMMA RepeatedFields ==
    ASSUME GeneratorCompletionAssumption, Types PROVE
    \A t \in Txs :
      LET u == Repeated(t) IN
      /\ u \in Txs
      /\ u.mode = t.mode /\ u.epoch = t.epoch /\ u.revision = t.revision /\ u.count = t.count
      /\ u.start = t.start /\ u.sent = t.sent /\ u.confirmed = t.confirmed
      /\ u.superseded = t.superseded
      /\ u.dispatched = t.dispatched /\ u.durable = t.durable /\ u.restored = t.restored
      /\ u.needsFull = t.needsFull
      /\ u.current = t.current /\ u.bypass = t.bypass /\ u.attempts = t.attempts /\ u.resend = FALSE
      /\ u.withdrawn = FALSE
BY DEF Repeated, Txs

\* A transaction whose queued Send is withdrawn.
LEMMA CancelledFields ==
    ASSUME GeneratorCompletionAssumption, Types PROVE
    \A t \in Txs :
      LET u == Cancelled(t) IN
      /\ u \in Txs
      /\ u.mode = t.mode /\ u.epoch = t.epoch /\ u.revision = t.revision /\ u.count = t.count
      /\ u.start = t.start /\ u.sent = t.sent /\ u.confirmed = t.confirmed
      /\ u.superseded = t.superseded
      /\ u.dispatched = t.dispatched /\ u.durable = t.durable /\ u.restored = t.restored
      /\ u.needsFull = t.needsFull
      /\ u.current = t.current /\ u.bypass = t.bypass /\ u.attempts = t.attempts
      /\ u.resend = t.resend
      /\ u.withdrawn = TRUE
BY DEF Cancelled, Txs

\* A transaction whose record is erased between games.
LEMMA ForgottenFields ==
    ASSUME GeneratorCompletionAssumption, Types PROVE
    \A t \in Txs :
      LET u == Forgotten(t) IN
      /\ u \in Txs
      /\ u.mode = t.mode /\ u.epoch = t.epoch /\ u.revision = t.revision /\ u.count = t.count
      /\ u.start = t.start /\ u.sent = FALSE /\ u.confirmed = t.confirmed
      /\ u.superseded = t.superseded
      /\ u.dispatched = t.dispatched /\ u.durable = FALSE /\ u.restored = FALSE
      /\ u.needsFull = t.needsFull
      /\ u.current = t.current /\ u.bypass = t.bypass /\ u.attempts = t.attempts
      /\ u.resend = t.resend
      /\ u.withdrawn = t.withdrawn
BY DEF Forgotten, Txs

\* A transaction whose cycle is over.
LEMMA NotCurrentFields ==
    ASSUME GeneratorCompletionAssumption, Types PROVE
    \A t \in Txs :
      LET u == NotCurrent(t) IN
      /\ u \in Txs
      /\ u.mode = t.mode /\ u.epoch = t.epoch /\ u.revision = t.revision /\ u.count = t.count
      /\ u.start = t.start /\ u.sent = t.sent /\ u.confirmed = t.confirmed
      /\ u.superseded = t.superseded
      /\ u.dispatched = t.dispatched /\ u.durable = t.durable /\ u.restored = t.restored
      /\ u.needsFull = t.needsFull
      /\ u.current = FALSE /\ u.bypass = t.bypass /\ u.attempts = t.attempts /\ u.resend = t.resend
      /\ u.withdrawn = t.withdrawn
BY DEF NotCurrent, Txs

\* A resend that was withdrawn may be made again.
LEMMA WithdrawnFields ==
    ASSUME GeneratorCompletionAssumption, Types PROVE
    \A t \in Txs :
      LET u == Withdrawn(t) IN
      /\ u \in Txs
      /\ u.mode = t.mode /\ u.epoch = t.epoch /\ u.revision = t.revision /\ u.count = t.count
      /\ u.start = t.start /\ u.sent = t.sent /\ u.confirmed = t.confirmed
      /\ u.superseded = t.superseded
      /\ u.dispatched = t.dispatched /\ u.durable = t.durable /\ u.restored = t.restored
      /\ u.needsFull = t.needsFull
      /\ u.current = t.current /\ u.bypass = t.bypass /\ u.attempts = t.attempts /\ u.resend = TRUE
      /\ u.withdrawn = FALSE
BY DEF Withdrawn, Txs

\* A Send that never left the queue.
LEMMA NeverSentFields ==
    ASSUME GeneratorCompletionAssumption, Types PROVE
    \A t \in Txs :
      LET u == NeverSent(t) IN
      /\ u \in Txs
      /\ u.mode = t.mode /\ u.epoch = t.epoch /\ u.revision = t.revision /\ u.count = t.count
      /\ u.start = t.start /\ u.sent = FALSE /\ u.confirmed = t.confirmed
      /\ u.superseded = t.superseded
      /\ u.dispatched = t.dispatched /\ u.durable = t.durable /\ u.restored = t.restored
      /\ u.needsFull = t.needsFull
      /\ u.current = t.current /\ u.bypass = t.bypass /\ u.attempts = t.attempts /\ u.resend = FALSE
      /\ u.withdrawn = FALSE
BY DEF NeverSent, Txs

\* A transaction after a snapshot.
LEMMA AfterFields ==
    ASSUME GeneratorCompletionAssumption, Types PROVE
    \A t \in Txs, row \in Rows :
      LET u == After(t, row) IN
      /\ u \in Txs
      /\ u.mode = t.mode /\ u.epoch = t.epoch /\ u.revision = t.revision /\ u.count = t.count
      /\ u.start = t.start /\ u.sent = t.sent /\ u.confirmed = t.confirmed
      /\ u.superseded = t.superseded
      /\ u.dispatched = t.dispatched /\ u.durable = t.durable /\ u.restored = t.restored
      /\ u.needsFull = t.needsFull
      /\ (u.current <=> (t.current /\ ~Resets(row))) /\ u.bypass = t.bypass
      /\ u.attempts = t.attempts /\ u.resend = t.resend
      /\ u.withdrawn = t.withdrawn
BY DEF After, Txs

\* A transaction that is settled.
LEMMA ResolutionFields ==
    ASSUME GeneratorCompletionAssumption, Types PROVE
    \A t \in Txs, c \in BOOLEAN, k \in BOOLEAN :
      LET u == Resolution(t, c, k) IN
      /\ u \in Txs
      /\ u.mode = t.mode /\ u.epoch = t.epoch /\ u.revision = t.revision /\ u.count = t.count
      /\ u.start = t.start /\ u.sent = t.sent /\ u.confirmed = c /\ (u.superseded <=> ~c)
      /\ u.dispatched = t.dispatched /\ (u.durable <=> (t.durable /\ ~k)) /\ u.restored = t.restored
      /\ (u.needsFull <=> (c /\ Target = "repaired"))
      /\ (u.current <=> (t.current /\ c)) /\ u.bypass = t.bypass /\ u.attempts = t.attempts
      /\ u.resend = t.resend
      /\ u.withdrawn = t.withdrawn
<1> SUFFICES ASSUME NEW t \in Txs, NEW c \in BOOLEAN, NEW k \in BOOLEAN
             PROVE  LET u == Resolution(t, c, k) IN
                    /\ u \in Txs
                    /\ u.mode = t.mode /\ u.epoch = t.epoch /\ u.revision = t.revision
                    /\ u.count = t.count
                    /\ u.start = t.start /\ u.sent = t.sent /\ u.confirmed = c
                    /\ (u.superseded <=> ~c)
                    /\ u.dispatched = t.dispatched /\ (u.durable <=> (t.durable /\ ~k))
                    /\ u.restored = t.restored /\ (u.needsFull <=> (c /\ Target = "repaired"))
                    /\ (u.current <=> (t.current /\ c)) /\ u.bypass = t.bypass
                    /\ u.attempts = t.attempts /\ u.resend = t.resend
                    /\ u.withdrawn = t.withdrawn
    OBVIOUS
<1> DEFINE C1 == c
           S1 == ~c
           N1 == (c /\ Target = "repaired")
           D1 == (t.durable /\ ~k)
           R1 == (t.current /\ c)
<1>1. C1 \in BOOLEAN /\ S1 \in BOOLEAN /\ N1 \in BOOLEAN /\ D1 \in BOOLEAN /\ R1 \in BOOLEAN
    OBVIOUS
<1> HIDE DEF C1, S1, N1, D1, R1
<1> DEFINE v == [t EXCEPT !.confirmed = C1, !.superseded = S1, !.needsFull = N1, !.durable = D1, !.current = R1]
<1>2. v \in Txs  BY <1>1 DEF Txs
<1>3. /\ v.mode = t.mode /\ v.epoch = t.epoch /\ v.revision = t.revision /\ v.count = t.count
      /\ v.start = t.start /\ v.sent = t.sent /\ v.confirmed = C1 /\ v.superseded = S1
      /\ v.dispatched = t.dispatched /\ v.durable = D1 /\ v.restored = t.restored
      /\ v.needsFull = N1
      /\ v.current = R1 /\ v.bypass = t.bypass /\ v.attempts = t.attempts /\ v.resend = t.resend
      /\ v.withdrawn = t.withdrawn
    BY <1>1, Zenon DEF Txs
<1>4. Resolution(t, c, k) = v
    BY DEF Resolution, C1, S1, N1, D1, R1
<1> HIDE DEF v
<1>5. QED  BY <1>2, <1>3, <1>4, Zenon DEF C1, S1, N1, D1, R1

\* A transaction whose plain Send enters the queue.
LEMMA SubmittedFields ==
    ASSUME GeneratorCompletionAssumption, Types, BootReady PROVE
    \A t \in Txs :
      LET u == Submitted(t) IN
      /\ u \in Txs
      /\ u.mode = t.mode /\ u.epoch = t.epoch /\ u.revision = t.revision /\ u.count = stable
      /\ u.start = view /\ u.sent = TRUE /\ u.confirmed = t.confirmed /\ u.superseded = t.superseded
      /\ u.dispatched = t.dispatched /\ u.durable = t.durable /\ u.restored = t.restored
      /\ u.needsFull = t.needsFull
      /\ u.current = t.current /\ u.bypass = bypass /\ u.attempts = 0 /\ u.resend = FALSE
      /\ u.withdrawn = FALSE
<1>1. 0 \in 0 .. MaxAttempts  BY DEF MaxAttempts
<1>2. stable \in Counts \cup {0, Unsettled} /\ bypass \in BOOLEAN /\ view \in Stages
      BY DEF Types, InputType, FlagType, BootReady
<1>3. QED  BY <1>1, <1>2 DEF Submitted, Txs

\* A plain transaction that sees a snapshot.
LEMMA ObservedFields ==
    ASSUME GeneratorCompletionAssumption, Types PROVE
    \A t \in Txs, row \in Rows :
      LET u == Observed(t, row) IN
      /\ u \in Txs
      /\ u.mode = t.mode /\ u.epoch = t.epoch /\ u.revision = t.revision /\ u.count = t.count
      /\ u.start = t.start /\ (u.sent <=> (Over(t, row) \/ ~Cancels(t, row)))
      /\ (u.confirmed <=> SeenDone(t, row)) /\ (u.superseded <=> SeenPast(t, row))
      /\ u.dispatched = t.dispatched /\ u.durable = t.durable /\ u.restored = t.restored
      /\ u.needsFull = t.needsFull
      /\ u.current = t.current /\ u.bypass = t.bypass /\ u.attempts = t.attempts
      /\ (u.resend <=> (t.resend /\ ~Leaves(t, row) /\ ~Over(t, row)))
      /\ (u.withdrawn <=> (t.withdrawn /\ ~Cancels(t, row) /\ ~Over(t, row)))
<1> SUFFICES ASSUME NEW t \in Txs, NEW row \in Rows
             PROVE  LET u == Observed(t, row) IN
                    /\ u \in Txs
                    /\ u.mode = t.mode /\ u.epoch = t.epoch /\ u.revision = t.revision
                    /\ u.count = t.count
                    /\ u.start = t.start /\ (u.sent <=> (Over(t, row) \/ ~Cancels(t, row)))
                    /\ (u.confirmed <=> SeenDone(t, row)) /\ (u.superseded <=> SeenPast(t, row))
                    /\ u.dispatched = t.dispatched /\ u.durable = t.durable
                    /\ u.restored = t.restored /\ u.needsFull = t.needsFull
                    /\ u.current = t.current /\ u.bypass = t.bypass /\ u.attempts = t.attempts
                    /\ (u.resend <=> (t.resend /\ ~Leaves(t, row) /\ ~Over(t, row)))
                    /\ (u.withdrawn <=> (t.withdrawn /\ ~Cancels(t, row) /\ ~Over(t, row)))
    OBVIOUS
<1> DEFINE C1 == SeenDone(t, row)
           P1 == SeenPast(t, row)
           S1 == (Over(t, row) \/ ~Cancels(t, row))
           R1 == (t.resend /\ ~Leaves(t, row) /\ ~Over(t, row))
           W1 == (t.withdrawn /\ ~Cancels(t, row) /\ ~Over(t, row))
<1>1. C1 \in BOOLEAN /\ P1 \in BOOLEAN /\ S1 \in BOOLEAN /\ R1 \in BOOLEAN /\ W1 \in BOOLEAN
    BY DEF SeenDone, SeenPast, Over, Cancels, Leaves, Txs
<1> HIDE DEF C1, P1, S1, R1, W1
<1> DEFINE v == [t EXCEPT !.confirmed = C1, !.superseded = P1, !.sent = S1, !.resend = R1, !.withdrawn = W1]
<1>2. v \in Txs  BY <1>1 DEF Txs
<1>3. /\ v.mode = t.mode /\ v.epoch = t.epoch /\ v.revision = t.revision /\ v.count = t.count
      /\ v.start = t.start /\ v.sent = S1 /\ v.confirmed = C1 /\ v.superseded = P1
      /\ v.dispatched = t.dispatched /\ v.durable = t.durable /\ v.restored = t.restored
      /\ v.needsFull = t.needsFull
      /\ v.current = t.current /\ v.bypass = t.bypass /\ v.attempts = t.attempts /\ v.resend = R1
      /\ v.withdrawn = W1
    BY <1>1, Zenon DEF Txs
<1>4. Observed(t, row) = v
    BY DEF Observed, C1, P1, S1, R1, W1
<1> HIDE DEF v
<1>5. QED  BY <1>2, <1>3, <1>4, Zenon DEF C1, P1, S1, R1, W1

\* A transaction after an attempt to send.
LEMMA AttemptedFields ==
    ASSUME GeneratorCompletionAssumption, Types, send.at # "none" PROVE
    \A t \in Txs, b \in BOOLEAN :
      t.attempts < MaxAttempts =>
      LET u == Attempted(t, b) IN
      /\ u \in Txs
      /\ u.mode = t.mode /\ u.epoch = t.epoch /\ u.revision = t.revision /\ u.count = t.count
      /\ u.start = t.start /\ u.sent = t.sent /\ u.confirmed = t.confirmed
      /\ u.superseded = t.superseded
      /\ (u.dispatched <=> (t.dispatched \/ (send.dispatched /\ ~b))) /\ u.durable = t.durable
      /\ u.restored = t.restored /\ u.needsFull = t.needsFull
      /\ u.current = t.current /\ u.bypass = t.bypass
      /\ u.attempts = t.attempts + (IF send.dispatched THEN 1 ELSE 0)
      /\ (u.resend <=> (IF b THEN t.attempts + (IF send.dispatched THEN 1 ELSE 0) < MaxAttempts ELSE t.resend))
      /\ u.withdrawn = t.withdrawn
<1> SUFFICES ASSUME NEW t \in Txs, NEW b \in BOOLEAN, t.attempts < MaxAttempts
             PROVE  LET u == Attempted(t, b) IN
                    /\ u \in Txs
                    /\ u.mode = t.mode /\ u.epoch = t.epoch /\ u.revision = t.revision
                    /\ u.count = t.count
                    /\ u.start = t.start /\ u.sent = t.sent /\ u.confirmed = t.confirmed
                    /\ u.superseded = t.superseded
                    /\ (u.dispatched <=> (t.dispatched \/ (send.dispatched /\ ~b)))
                    /\ u.durable = t.durable /\ u.restored = t.restored /\ u.needsFull = t.needsFull
                    /\ u.current = t.current /\ u.bypass = t.bypass
                    /\ u.attempts = t.attempts + (IF send.dispatched THEN 1 ELSE 0)
                    /\ (u.resend <=> (IF b THEN t.attempts + (IF send.dispatched THEN 1 ELSE 0) < MaxAttempts ELSE t.resend))
                    /\ u.withdrawn = t.withdrawn
    OBVIOUS
<1> DEFINE N1 == t.attempts + (IF send.dispatched THEN 1 ELSE 0)
           D1 == (t.dispatched \/ (send.dispatched /\ ~b))
           R1 == (IF b THEN t.attempts + (IF send.dispatched THEN 1 ELSE 0) < MaxAttempts ELSE t.resend)
<1>1. N1 \in 0 .. MaxAttempts /\ D1 \in BOOLEAN /\ R1 \in BOOLEAN
    <2>1. t.attempts \in 0 .. MaxAttempts /\ t.dispatched \in BOOLEAN /\ t.resend \in BOOLEAN
      BY DEF Txs
    <2>2. send.dispatched \in BOOLEAN
      BY DEF Types, RequestType, Sends, NoRequest
    <2>3. N1 \in 0 .. MaxAttempts  BY <2>1 DEF MaxAttempts
    <2>4. D1 \in BOOLEAN  BY <2>1, <2>2
    <2>5. R1 \in BOOLEAN
      <3>1. CASE b
        <4>1. CASE t.attempts + (IF send.dispatched THEN 1 ELSE 0) < MaxAttempts
          <5>1. R1 = TRUE  BY <3>1, <4>1
          <5>2. QED  BY <5>1
        <4>2. CASE ~(t.attempts + (IF send.dispatched THEN 1 ELSE 0) < MaxAttempts)
          <5>1. R1 = FALSE  BY <3>1, <4>2
          <5>2. QED  BY <5>1
        <4>3. QED  BY <4>1, <4>2
      <3>2. CASE ~b
        <4>1. R1 = t.resend  BY <3>2
        <4>2. QED  BY <2>1, <4>1
      <3>3. QED  BY <3>1, <3>2
    <2>6. QED  BY <2>3, <2>4, <2>5
<1> HIDE DEF N1, D1, R1
<1> DEFINE v == [t EXCEPT !.attempts = N1, !.dispatched = D1, !.resend = R1]
<1>2. v \in Txs  BY <1>1 DEF Txs
<1>3. /\ v.mode = t.mode /\ v.epoch = t.epoch /\ v.revision = t.revision /\ v.count = t.count
      /\ v.start = t.start /\ v.sent = t.sent /\ v.confirmed = t.confirmed
      /\ v.superseded = t.superseded
      /\ v.dispatched = D1 /\ v.durable = t.durable /\ v.restored = t.restored
      /\ v.needsFull = t.needsFull
      /\ v.current = t.current /\ v.bypass = t.bypass /\ v.attempts = N1 /\ v.resend = R1
      /\ v.withdrawn = t.withdrawn
    BY <1>1, Zenon DEF Txs
<1>4. Attempted(t, b) = v
    BY DEF Attempted, N1, D1, R1
<1> HIDE DEF v
<1>5. QED  BY <1>2, <1>3, <1>4, Zenon DEF N1, D1, R1

\* A fresh request, of a transaction.
LEMMA QueuedFields ==
    ASSUME GeneratorCompletionAssumption PROVE
    \A t \in Txs, b \in BOOLEAN : t.mode # "none" =>
      LET s == Queued(t, b) IN
      /\ s \in Sends /\ s.at = "queued" /\ s.mode = t.mode /\ s.epoch = t.epoch
      /\ s.revision = t.revision /\ s.count = t.count /\ s.bypass = t.bypass
      /\ s.current = t.current /\ s.resend = b /\ s.cancelled = FALSE /\ s.dispatched = FALSE
      /\ s.reply.kind = "none"
<1> SUFFICES ASSUME NEW t \in Txs, NEW b \in BOOLEAN, t.mode # "none"
             PROVE  LET s == Queued(t, b) IN
      /\ s \in Sends /\ s.at = "queued" /\ s.mode = t.mode /\ s.epoch = t.epoch
      /\ s.revision = t.revision /\ s.count = t.count /\ s.bypass = t.bypass
      /\ s.current = t.current /\ s.resend = b /\ s.cancelled = FALSE /\ s.dispatched = FALSE
      /\ s.reply.kind = "none"
    OBVIOUS
<1>1. /\ t.mode \in Modes /\ t.epoch \in Epochs /\ t.revision \in Revisions
      /\ t.count \in Counts \cup {0, Unsettled} /\ t.bypass \in BOOLEAN /\ t.current \in BOOLEAN
  BY DEF Txs, Modes
<1>2. Nothing \in Replies /\ Nothing.kind = "none"  BY DEF Nothing, Replies
<1>3. Queued(t, b) \in Sends  BY <1>1, <1>2 DEF Queued, Sends
<1>4. QED  BY <1>2, <1>3 DEF Queued

\* A request that is answered, dispatched, withdrawn, or of a cycle that is over.
LEMMA AnswerFields ==
    \A s \in Sends, r \in Replies :
      LET u == Answer(s, r) IN
      /\ u \in Sends /\ u.at = "done" /\ u.mode = s.mode /\ u.epoch = s.epoch
      /\ u.revision = s.revision /\ u.count = s.count /\ u.bypass = s.bypass
      /\ u.current = s.current /\ u.resend = s.resend /\ u.cancelled = s.cancelled
      /\ u.dispatched = s.dispatched /\ u.reply = r
BY DEF Answer, Sends

\* A read that is answered.
LEMMA AnswerReadFields ==
    \A s \in Reads, r \in Replies :
      LET u == Answer(s, r) IN
      /\ u \in Reads /\ u.at = "done" /\ u.kind = s.kind /\ u.current = s.current /\ u.reply = r
BY DEF Answer, Reads

\* A Send that goes out.
LEMMA DispatchFields ==
    \A s \in Sends :
      LET u == [s EXCEPT !.at = "sent", !.dispatched = TRUE] IN
      /\ u \in Sends /\ u.at = "sent" /\ u.mode = s.mode /\ u.epoch = s.epoch
      /\ u.revision = s.revision /\ u.count = s.count /\ u.bypass = s.bypass
      /\ u.current = s.current /\ u.resend = s.resend /\ u.cancelled = s.cancelled
      /\ u.dispatched = TRUE /\ u.reply = s.reply
BY DEF Sends

\* A Send that is withdrawn from the queue.
LEMMA CancelFields ==
    \A s \in Sends :
      LET u == [s EXCEPT !.cancelled = TRUE] IN
      /\ u \in Sends /\ u.at = s.at /\ u.mode = s.mode /\ u.epoch = s.epoch
      /\ u.revision = s.revision /\ u.count = s.count /\ u.bypass = s.bypass
      /\ u.current = s.current /\ u.resend = s.resend /\ u.cancelled = TRUE
      /\ u.dispatched = s.dispatched /\ u.reply = s.reply
BY DEF Sends

\* A Send whose cycle is over.
LEMMA StaleFields ==
    \A s \in Sends :
      LET u == Stale(s) IN
      /\ u \in Sends /\ u.at = s.at /\ u.mode = s.mode /\ u.epoch = s.epoch
      /\ u.revision = s.revision /\ u.count = s.count /\ u.bypass = s.bypass
      /\ u.current = FALSE /\ u.resend = s.resend /\ u.cancelled = s.cancelled
      /\ u.dispatched = s.dispatched /\ u.reply = s.reply
BY DEF Sends, Stale

\* A read whose cycle is over.
LEMMA StaleReadFields ==
    \A s \in Reads :
      LET u == Stale(s) IN
      /\ u \in Reads /\ u.at = s.at /\ u.kind = s.kind /\ u.current = FALSE /\ u.reply = s.reply
BY DEF Reads, Stale

\* A new read.
LEMMA AskedFields ==
    \A k \in {"conditional", "legacy", "fault"} :
      LET u == Asked(k) IN
      /\ u \in Reads /\ u.at = "queued" /\ u.kind = k /\ u.current = TRUE /\ u.reply.kind = "none"
<1>1. Nothing \in Replies /\ Nothing.kind = "none"  BY DEF Nothing, Replies
<1>2. QED  BY <1>1 DEF Asked, Reads

\* A request on its way carries what the Send carried.
LEMMA WireFields ==
    \A s \in Sends : /\ Wire(s) \in Wires /\ Wire(s).mode = s.mode /\ Wire(s).epoch = s.epoch
                     /\ Wire(s).revision = s.revision
BY DEF Wire, Wires, Sends

\* There is no request, and a context is worth nothing, in the same way everywhere.
LEMMA NoneFields ==
    /\ NoRequest.at = "none" /\ Stale(NoRequest) = NoRequest
    /\ \A s \in Sends : s # NoRequest /\ s.at # "none"
    /\ \A s \in Reads : s # NoRequest /\ s.at # "none"
BY DEF NoRequest, Stale, Sends, Reads

Worthless(c) == [c EXCEPT !.valid = FALSE]

\* A context that is worth nothing is still an older row.
LEMMA WorthlessFields ==
    \A c \in Contexts :
      LET u == Worthless(c) IN
      /\ u \in Contexts /\ u.valid = FALSE /\ u.epoch = c.epoch /\ u.revision = c.revision
      /\ u.stage = c.stage /\ u.count = c.count /\ u.protocol = c.protocol
BY DEF Worthless, Contexts

-----------------------------------------------------------------------------
(* Bounds and types of what does not change.                               *)

\* The setup gives the bounds of the instance.
LEMMA SetupFacts ==
    ASSUME GeneratorCompletionAssumption, setup \in Setups
    PROVE  /\ MaxEpoch \in Nat /\ MaxEpoch >= 1 /\ MaxRevision \in Nat /\ MaxFaults \in Nat
           /\ Protocols \subseteq {0, 1} /\ Target \in Stages /\ StartStage \in Stages
           /\ Target \in {"battery_max", "repaired"} /\ StartStage \in {"activate", "battery_max"}
           /\ StartStage # Target /\ Active(StartStage) /\ Active(Target)
           /\ 0 \in Epochs /\ 0 \in Revisions /\ Counts \subseteq Nat
<1>1. setup \in [target : {"battery_max", "repaired"}, protocols : (SUBSET {0, 1}) \ {{}},
                 maxEpoch : Nat \ {0}, maxRevision : Nat, may : SUBSET AllFaults, maxFaults : Nat]
  BY DEF GeneratorCompletionAssumption
<1>2. /\ MaxEpoch \in Nat /\ MaxEpoch # 0 /\ MaxRevision \in Nat /\ MaxFaults \in Nat
      /\ Protocols \subseteq {0, 1} /\ Target \in {"battery_max", "repaired"}
  BY <1>1 DEF MaxEpoch, MaxRevision, MaxFaults, Protocols, Target
<1>3. MaxEpoch >= 1 /\ 0 \in Epochs /\ 0 \in Revisions  BY <1>2 DEF Epochs, Revisions
<1>4. QED  BY <1>2, <1>3 DEF StartStage, Stages, Active, GeneratorCompletionAssumption

\* While the setup stays, so do the sets made from it.
LEMMA SetupFixed ==
    ASSUME setup' = setup
    PROVE  /\ Txs' = Txs /\ Sends' = Sends /\ Reads' = Reads /\ Contexts' = Contexts
           /\ Intents' = Intents /\ Rows' = Rows /\ Replies' = Replies /\ Wires' = Wires
           /\ Epochs' = Epochs /\ Revisions' = Revisions /\ Protocols' = Protocols
           /\ Target' = Target /\ StartStage' = StartStage /\ MaxEpoch' = MaxEpoch
           /\ MaxRevision' = MaxRevision /\ MaxFaults' = MaxFaults /\ Faults' = Faults
           /\ NoTransaction' = NoTransaction
<1>1. /\ Epochs' = Epochs /\ Revisions' = Revisions /\ Protocols' = Protocols
      /\ Target' = Target /\ MaxEpoch' = MaxEpoch /\ MaxRevision' = MaxRevision
      /\ MaxFaults' = MaxFaults /\ Faults' = Faults
  BY DEF Epochs, Revisions, Protocols, Target, MaxEpoch, MaxRevision, MaxFaults, Faults
<1>2. Rows' = Rows /\ Wires' = Wires /\ StartStage' = StartStage
  BY <1>1 DEF Rows, Wires, StartStage, MaxEpoch
<1>3. Replies' = Replies  BY <1>2 DEF Replies
<1>4. QED  BY <1>1, <1>2, <1>3 DEF Txs, Sends, Reads, Contexts, Intents, NoTransaction

\* What a fault costs stays within the bound.
LEMMA SpendFacts ==
    ASSUME GeneratorCompletionAssumption, Types, NEW n \in 0 .. 2, Spend(n)
    PROVE  setup' = setup /\ faults' \in 0 .. MaxFaults
BY SetupFacts DEF Spend, Types, TxType, WorldType

\* No step costs more than two faults.
LEMMA CostFacts == \A b \in BOOLEAN, c \in BOOLEAN : Cost(b) \in 0 .. 2 /\ Cost(b) + Cost(c) \in 0 .. 2
BY DEF Cost

\* The initial states have the invariant.
LEMMA DeviceInit == ASSUME GeneratorCompletionAssumption, Init PROVE DeviceInv
<1>1. setup \in Setups  BY DEF Init
<1> USE SetupFacts, <1>1
<1>2. NoTransaction \in Txs /\ NoTransaction.mode = "none"
  <2>1. 0 \in 0 .. MaxAttempts  BY DEF MaxAttempts
  <2>2. QED  BY <2>1 DEF NoTransaction, Txs
<1>3. TxType  BY <1>2 DEF Init, TxType
<1>4. RequestType /\ FlagType  BY DEF Init, RequestType, FlagType
<1>5. InputType
  <2>1. NoContext \in Contexts  BY DEF NoContext, Contexts, Stages
  <2>2. QED  BY <2>1 DEF Init, InputType
<1>6. WorldType
  <2>1. server \in Rows
    <3>1. 1 \in 1 .. MaxEpoch  OBVIOUS
    <3>2. QED  BY <3>1 DEF Init, Rows
  <2>2. faults \in 0 .. MaxFaults /\ effects \in 0 .. 2  BY DEF Init
  <2>3. QED  BY <2>1, <2>2 DEF Init, WorldType
<1>7. tx.mode = "none" /\ ~storeFault /\ journal = Empty /\ ~tx.resend
  BY <1>2 DEF Init, NoTransaction
<1>8. send = NoRequest /\ read = NoRequest  BY DEF Init
<1>9. FlashHeld  BY <1>7 DEF FlashHeld, Open
<1>10. RequestsOwned /\ Attempts
  BY <1>7, <1>8, NoneFields DEF Init, NoTransaction, RequestsOwned, Attempts
<1>11. QED  BY <1>3, <1>4, <1>5, <1>6, <1>9, <1>10 DEF DeviceInv, Types
-----------------------------------------------------------------------------
(* The device, step by step.                                               *)

\* What the worker and the server do: the transaction, the flash and the loop stay, and a
\* request only moves on.
SendMoves ==
    \/ send' = send
    \/ /\ send.at # "none" /\ send' \in Sends /\ send'.mode = send.mode
       /\ send'.epoch = send.epoch /\ send'.revision = send.revision /\ send'.count = send.count
ReadMoves ==
    \/ read' = read
    \/ read.at # "none" /\ read' \in Reads /\ read'.kind = read.kind
WorldMoves ==
    /\ setup' = setup /\ faults' \in 0 .. MaxFaults /\ server' \in Rows /\ late' \subseteq Wires
    /\ effects' \in 0 .. 2 /\ touched' \in BOOLEAN

\* Such a step keeps the invariant.
LEMMA QuietDevice ==
    ASSUME GeneratorCompletionAssumption, DeviceInv, Idle, SendMoves, ReadMoves, WorldMoves
    PROVE  DeviceInv'
<1>1. setup' = setup  BY DEF WorldMoves
<1>2. /\ tx' = tx /\ verify' = verify /\ storeFault' = storeFault /\ awaitResync' = awaitResync
      /\ resetCycle' = resetCycle /\ protocol' = protocol /\ view' = view /\ stable' = stable
      /\ bypass' = bypass /\ context' = context /\ journal' = journal
  BY DEF Idle, flagVars, inputVars
<1>3. TxType'  BY <1>1, <1>2, SetupFixed DEF DeviceInv, Types, TxType
<1>4. RequestType'
  BY <1>1, SetupFixed DEF DeviceInv, Types, RequestType, SendMoves, ReadMoves
<1>5. FlagType'  BY <1>2 DEF DeviceInv, Types, FlagType, WorldMoves
<1>6. InputType'  BY <1>1, <1>2, SetupFixed DEF DeviceInv, Types, InputType
<1>7. WorldType'  BY <1>1, <1>2, SetupFixed DEF DeviceInv, Types, WorldType, WorldMoves
<1>8. FlashHeld'  BY <1>2 DEF DeviceInv, FlashHeld, Open, Resolved, Intent
<1>9. RequestsOwned'
  BY <1>2, NoneFields DEF DeviceInv, RequestsOwned, Open, Resolved, BootReady, SendMoves, ReadMoves
<1>10. Attempts'
  BY <1>2, NoneFields DEF DeviceInv, Attempts, SendMoves
<1>11. QED  BY <1>3, <1>4, <1>5, <1>6, <1>7, <1>8, <1>9, <1>10 DEF DeviceInv, Types

\* What the server does with a completion.
LEMMA HandleFacts ==
    ASSUME GeneratorCompletionAssumption, Types, NEW w, Handle(w)
    PROVE  /\ server' \in Rows /\ effects' \in 0 .. 2 /\ server'.epoch = server.epoch
           /\ server'.count = server.count /\ server'.protocol = server.protocol
           /\ \/ server' = server /\ effects' = effects
              \/ /\ Applies(w) /\ server'.stage = Target /\ server'.revision = server.revision + 1
                 /\ effects' = (IF effects = 2 THEN 2 ELSE effects + 1)
<1>1. server \in Rows /\ effects \in 0 .. 2 /\ setup \in Setups
  BY DEF Types, TxType, WorldType
<1>2. CASE ~Applies(w)  BY <1>1, <1>2 DEF Handle
<1>3. CASE Applies(w)
  <2>1. server' = [server EXCEPT !.stage = Target, !.revision = @ + 1]
    BY <1>3 DEF Handle
  <2>2. server.revision \in Revisions /\ server.revision < MaxRevision
    BY <1>1, <1>3 DEF Applies, Rows
  <2>3. server.revision + 1 \in Revisions
    BY <1>1, <2>2, SetupFacts DEF Revisions
  <2>4. server' \in Rows /\ server'.stage = Target /\ server'.revision = server.revision + 1
        /\ server'.epoch = server.epoch /\ server'.count = server.count
        /\ server'.protocol = server.protocol
    BY <1>1, <2>1, <2>3, SetupFacts DEF Rows
  <2>5. effects' = (IF effects = 2 THEN 2 ELSE effects + 1)  BY <1>3 DEF Handle
  <2>6. effects' \in 0 .. 2  BY <1>1, <2>5
  <2>7. QED  BY <1>3, <2>4, <2>5, <2>6
<1>4. QED  BY <1>2, <1>3

\* What answers are made of.
LEMMA ReplyFacts ==
    /\ \A k \in {"none", "cancelled", "failed", "undelivered"} :
          [kind |-> k] \in Replies /\ [kind |-> k].kind = k
    /\ \A row \in Rows : Row(row) \in Replies /\ Row(row).kind = "row" /\ Row(row).row = row
    /\ \A w : \A row \in Rows :
          /\ AnswerOf(w, row) \in Replies
          /\ AnswerOf(w, row).kind = "row" => AnswerOf(w, row) = Row(row)
          /\ AnswerOf(w, row).kind # "undelivered"
<1>1. \A k \in {"none", "cancelled", "failed", "undelivered"} :
          [kind |-> k] \in Replies /\ [kind |-> k].kind = k
  BY DEF Replies
<1>2. \A row \in Rows : Row(row) \in Replies /\ Row(row).kind = "row" /\ Row(row).row = row
  BY DEF Replies, Row
<1>3. \A w : \A row \in Rows :
          /\ AnswerOf(w, row) \in Replies
          /\ AnswerOf(w, row).kind = "row" => AnswerOf(w, row) = Row(row)
          /\ AnswerOf(w, row).kind # "undelivered"
  BY <1>1, <1>2 DEF AnswerOf
<1>4. QED  BY <1>1, <1>2, <1>3

\* The types of what there is, in the form in which the steps need them.
LEMMA TypeFacts ==
    ASSUME Types
    PROVE  /\ setup \in Setups /\ tx \in Txs /\ send \in {NoRequest} \cup Sends
           /\ (send.at # "none" => send \in Sends) /\ (read.at # "none" => read \in Reads)
           /\ (send.at = "none" => send = NoRequest) /\ (read.at = "none" => read = NoRequest)
           /\ server \in Rows /\ late \subseteq Wires /\ effects \in 0 .. 2 /\ touched \in BOOLEAN
           /\ context \in Contexts /\ faults \in 0 .. MaxFaults
BY NoneFields DEF Types, TxType, RequestType, FlagType, InputType, WorldType

\* The queue.
LEMMA QueueDevice == ASSUME GeneratorCompletionAssumption, DeviceInv, Queue PROVE DeviceInv'
<1>1. Types  BY DEF DeviceInv
<1> USE TypeFacts, <1>1
<1>2. CASE SendDiscard
  <2>1. send \in Sends /\ send.at # "none"  BY <1>2 DEF SendDiscard
  <2>2. send' = Answer(send, [kind |-> "cancelled"]) /\ UNCHANGED <<read, serverVars, faultVars>> /\ Idle
    BY <1>2 DEF SendDiscard
  <2>3. SendMoves  BY <2>1, <2>2, ReplyFacts, AnswerFields DEF SendMoves
  <2>4. ReadMoves /\ WorldMoves  BY <2>2 DEF ReadMoves, WorldMoves, serverVars, faultVars
  <2>5. QED  BY <2>2, <2>3, <2>4, QuietDevice
<1>3. CASE SendDispatch
  <2>1. send \in Sends  BY <1>3 DEF SendDispatch
  <2>2. SendMoves
    <3>1. send.at # "none" /\ send' = [send EXCEPT !.at = "sent", !.dispatched = TRUE]
      BY <1>3 DEF SendDispatch
    <3>2. /\ send' \in Sends /\ send'.mode = send.mode /\ send'.epoch = send.epoch
          /\ send'.revision = send.revision /\ send'.count = send.count
      BY <2>1, <3>1, DispatchFields
    <3>3. QED  BY <3>1, <3>2 DEF SendMoves
  <2>3. ReadMoves /\ WorldMoves /\ Idle
    BY <1>3 DEF SendDispatch, ReadMoves, WorldMoves, serverVars, faultVars
  <2>4. QED  BY <2>2, <2>3, QuietDevice
<1>4. CASE SendUndelivered
  <2>1. send \in Sends /\ Spend(1)  BY <1>4 DEF SendUndelivered
  <2>2. SendMoves  BY <1>4, <2>1, ReplyFacts, AnswerFields DEF SendMoves, SendUndelivered
  <2>3. setup' = setup /\ faults' \in 0 .. MaxFaults  BY <2>1, SpendFacts
  <2>4. ReadMoves /\ WorldMoves /\ Idle
    BY <1>4, <2>3 DEF SendUndelivered, ReadMoves, WorldMoves, serverVars
  <2>5. QED  BY <2>2, <2>4, QuietDevice
<1>5. QED  BY <1>2, <1>3, <1>4 DEF Queue

\* The server, the transport and whoever else writes the row.
LEMMA ServerDevice == ASSUME GeneratorCompletionAssumption, DeviceInv, Server PROVE DeviceInv'
<1>1. Types  BY DEF DeviceInv
<1> USE TypeFacts, <1>1
<1>2. CASE SendAnswered
  <2>1. send \in Sends /\ send.at # "none" /\ Handle(Wire(send))  BY <1>2 DEF SendAnswered
  <2>2. server' \in Rows /\ effects' \in 0 .. 2  BY <2>1, HandleFacts
  <2>3. send' = Answer(send, AnswerOf(Wire(send), server'))  BY <1>2 DEF SendAnswered
  <2>4. AnswerOf(Wire(send), server') \in Replies  BY <2>2, ReplyFacts
  <2>5. SendMoves  BY <2>1, <2>3, <2>4, AnswerFields DEF SendMoves
  <2>6. ReadMoves /\ WorldMoves /\ Idle
    BY <1>2, <2>2 DEF SendAnswered, ReadMoves, WorldMoves, faultVars
  <2>7. QED  BY <2>5, <2>6, QuietDevice
<1>3. CASE SendAnswerLost
  <2>1. send \in Sends /\ send.at # "none" /\ Handle(Wire(send)) /\ Spend(1)
    BY <1>3 DEF SendAnswerLost
  <2>2. server' \in Rows /\ effects' \in 0 .. 2  BY <2>1, HandleFacts
  <2>3. SendMoves  BY <1>3, <2>1, ReplyFacts, AnswerFields DEF SendMoves, SendAnswerLost
  <2>4. setup' = setup /\ faults' \in 0 .. MaxFaults  BY <2>1, SpendFacts
  <2>5. ReadMoves /\ WorldMoves /\ Idle
    BY <1>3, <2>2, <2>4 DEF SendAnswerLost, ReadMoves, WorldMoves
  <2>6. QED  BY <2>3, <2>5, QuietDevice
<1>4. CASE SendLost
  <2>1. send \in Sends /\ send.at # "none" /\ Spend(1)  BY <1>4 DEF SendLost
  <2>2. SendMoves  BY <1>4, <2>1, ReplyFacts, AnswerFields DEF SendMoves, SendLost
  <2>3. setup' = setup /\ faults' \in 0 .. MaxFaults  BY <2>1, SpendFacts
  <2>4. ReadMoves /\ WorldMoves /\ Idle
    BY <1>4, <2>3 DEF SendLost, ReadMoves, WorldMoves, serverVars
  <2>5. QED  BY <2>2, <2>4, QuietDevice
<1>5. CASE SendLate
  <2>1. send \in Sends /\ send.at # "none" /\ Spend(1)  BY <1>5 DEF SendLate
  <2>2. SendMoves  BY <1>5, <2>1, ReplyFacts, AnswerFields DEF SendMoves, SendLate
  <2>3. setup' = setup /\ faults' \in 0 .. MaxFaults  BY <2>1, SpendFacts
  <2>4. late' \subseteq Wires  BY <1>5, <2>1, WireFields DEF SendLate
  <2>5. ReadMoves /\ WorldMoves /\ Idle
    BY <1>5, <2>3, <2>4 DEF SendLate, ReadMoves, WorldMoves
  <2>6. QED  BY <2>2, <2>5, QuietDevice
<1>6. CASE ArriveLate
  <2>1. PICK w \in late : /\ Handle(w) /\ late' = late \ {w}
                          /\ UNCHANGED <<requestVars, touched, faultVars, tx, flagVars, inputVars, journal>>
    BY <1>6 DEF ArriveLate
  <2>2. server' \in Rows /\ effects' \in 0 .. 2  BY <2>1, HandleFacts
  <2>3. SendMoves /\ ReadMoves /\ WorldMoves /\ Idle
    BY <2>1, <2>2 DEF SendMoves, ReadMoves, WorldMoves, Idle, requestVars, faultVars
  <2>4. QED  BY <2>3, QuietDevice
<1>7. CASE ReadAnswered
  <2>1. read \in Reads /\ read.at # "none"  BY <1>7 DEF ReadAnswered
  <2>2. (IF read.current THEN Row(server) ELSE [kind |-> "cancelled"]) \in Replies
    BY ReplyFacts
  <2>3. ReadMoves  BY <1>7, <2>1, <2>2, AnswerReadFields DEF ReadMoves, ReadAnswered
  <2>4. SendMoves /\ WorldMoves /\ Idle
    BY <1>7 DEF ReadAnswered, SendMoves, WorldMoves, serverVars, faultVars
  <2>5. QED  BY <2>3, <2>4, QuietDevice
<1>8. CASE ReadLost
  <2>1. read \in Reads /\ read.at # "none" /\ Spend(1)  BY <1>8 DEF ReadLost
  <2>2. ReadMoves  BY <1>8, <2>1, ReplyFacts, AnswerReadFields DEF ReadMoves, ReadLost
  <2>3. setup' = setup /\ faults' \in 0 .. MaxFaults  BY <2>1, SpendFacts
  <2>4. SendMoves /\ WorldMoves /\ Idle
    BY <1>8, <2>3 DEF ReadLost, SendMoves, WorldMoves, serverVars
  <2>5. QED  BY <2>2, <2>4, QuietDevice
<1>9. CASE OutsideWrite
  <2>1. Spend(1) /\ Room  BY <1>9 DEF OutsideWrite
  <2>2. setup' = setup /\ faults' \in 0 .. MaxFaults  BY <2>1, SpendFacts
  <2>3. PICK stage \in Stages, count \in Counts :
           /\ server' = [server EXCEPT !.stage = stage, !.count = count, !.revision = @ + 1]
           /\ effects' = IF stage = server.stage THEN effects ELSE 0
    BY <1>9 DEF OutsideWrite
  <2>4. server.revision + 1 \in Revisions
    BY <2>1, SetupFacts DEF Room, Rows, Revisions
  <2>5. server' \in Rows  BY <2>3, <2>4 DEF Rows
  <2>6. effects' \in 0 .. 2 /\ touched' \in BOOLEAN /\ late' \subseteq Wires
    BY <1>9, <2>3 DEF OutsideWrite, Conditional
  <2>7. SendMoves /\ ReadMoves /\ WorldMoves /\ Idle
    BY <1>9, <2>2, <2>5, <2>6 DEF OutsideWrite, SendMoves, ReadMoves, WorldMoves, Idle, requestVars
  <2>8. QED  BY <2>7, QuietDevice
<1>10. CASE ServerRestart
  <2>1. Spend(1) /\ server.epoch < MaxEpoch  BY <1>10 DEF ServerRestart
  <2>2. setup' = setup /\ faults' \in 0 .. MaxFaults  BY <2>1, SpendFacts
  <2>3. PICK p \in Protocols :
           server' = [server EXCEPT !.epoch = @ + 1, !.revision = 0, !.protocol = p]
    BY <1>10 DEF ServerRestart
  <2>4. server.epoch + 1 \in 1 .. MaxEpoch /\ 0 \in Revisions
    BY <2>1, SetupFacts DEF Rows
  <2>5. server' \in Rows  BY <2>3, <2>4 DEF Rows
  <2>6. effects' \in 0 .. 2 /\ touched' \in BOOLEAN /\ late' \subseteq Wires
    BY <1>10 DEF ServerRestart, Conditional
  <2>7. SendMoves /\ ReadMoves /\ WorldMoves /\ Idle
    BY <1>10, <2>2, <2>5, <2>6
    DEF ServerRestart, SendMoves, ReadMoves, WorldMoves, Idle, requestVars
  <2>8. QED  BY <2>7, QuietDevice
<1>11. CASE ProtocolChange
  <2>1. Spend(2)  BY <1>11 DEF ProtocolChange
  <2>2. setup' = setup /\ faults' \in 0 .. MaxFaults  BY <2>1, SpendFacts
  <2>3. server' \in Rows  BY <1>11 DEF ProtocolChange, Rows
  <2>4. SendMoves /\ ReadMoves /\ WorldMoves /\ Idle
    BY <1>11, <2>2, <2>3 DEF ProtocolChange, SendMoves, ReadMoves, WorldMoves, Idle, requestVars
  <2>5. QED  BY <2>4, QuietDevice
<1>12. QED
  BY <1>2, <1>3, <1>4, <1>5, <1>6, <1>7, <1>8, <1>9, <1>10, <1>11 DEF Server

\* The types of the next state, one by one.
LEMMA TypesNext ==
    ASSUME setup \in Setups, setup' = setup, tx' \in Txs, send' \in {NoRequest} \cup Sends,
           read' \in {NoRequest} \cup Reads, verify' \in BOOLEAN, storeFault' \in BOOLEAN,
           awaitResync' \in BOOLEAN, resetCycle' \in BOOLEAN, bypass' \in BOOLEAN,
           touched' \in BOOLEAN, view' \in Stages \cup {Unseen},
           stable' \in Counts \cup {Unsettled}, context' \in Contexts,
           protocol' \in {Unknown, 0, 1}, journal' \in {Empty, Corrupt} \cup Intents,
           server' \in Rows, late' \subseteq Wires, effects' \in 0 .. 2, faults' \in 0 .. MaxFaults
    PROVE  Types'
<1>1. TxType'  BY SetupFixed DEF TxType
<1>2. RequestType' /\ FlagType'  BY SetupFixed DEF RequestType, FlagType
<1>3. InputType'  BY SetupFixed DEF InputType
<1>4. WorldType'  BY SetupFixed DEF WorldType
<1>5. QED  BY <1>1, <1>2, <1>3, <1>4 DEF Types

\* And of this one.
LEMMA TypesNow ==
    ASSUME Types
    PROVE  /\ verify \in BOOLEAN /\ storeFault \in BOOLEAN /\ awaitResync \in BOOLEAN
           /\ resetCycle \in BOOLEAN /\ bypass \in BOOLEAN /\ touched \in BOOLEAN
           /\ view \in Stages \cup {Unseen} /\ stable \in Counts \cup {Unsettled}
           /\ context \in Contexts /\ protocol \in {Unknown, 0, 1}
           /\ journal \in {Empty, Corrupt} \cup Intents
           /\ send \in {NoRequest} \cup Sends /\ read \in {NoRequest} \cup Reads
BY DEF Types, RequestType, FlagType, InputType, WorldType

\* A record of a transaction, and what is no record.
LEMMA IntentFacts ==
    /\ \A t \in Txs : Intent(t) \in Intents
    /\ \A t \in Txs, u \in Txs :
          u.epoch = t.epoch /\ u.revision = t.revision /\ u.count = t.count => Intent(u) = Intent(t)
    /\ \A j \in Intents : j.kind = "intent" /\ j # Empty /\ j # Corrupt
    /\ Empty # Corrupt /\ Empty.kind = "empty" /\ Corrupt.kind = "corrupt"
<1>1. \A t \in Txs : Intent(t) \in Intents  BY DEF Intent, Intents, Txs
<1>2. \A t \in Txs, u \in Txs :
          u.epoch = t.epoch /\ u.revision = t.revision /\ u.count = t.count => Intent(u) = Intent(t)
  BY DEF Intent
<1>3. /\ \A j \in Intents : j.kind = "intent" /\ j # Empty /\ j # Corrupt
      /\ Empty # Corrupt /\ Empty.kind = "empty" /\ Corrupt.kind = "corrupt"
  BY DEF Intents, Empty, Corrupt
<1>4. QED  BY <1>1, <1>2, <1>3

\* A power cut or a restart: the transaction is found again in flash.
LEMMA RebootDevice ==
    ASSUME GeneratorCompletionAssumption, DeviceInv, setup' = setup, faults' \in 0 .. MaxFaults,
           NEW j, Reboot(j), j = journal \/ (j = Corrupt /\ journal # Empty)
    PROVE  DeviceInv'
<1>1. Types  BY DEF DeviceInv
<1> USE TypeFacts, TypesNow, SetupFacts, <1>1
<1>2. /\ journal' = j /\ tx' = Loaded(j) /\ storeFault' = (j = Corrupt)
      /\ send' = NoRequest /\ read' = NoRequest /\ late' = Orphans /\ verify' = FALSE
      /\ awaitResync' = FALSE /\ resetCycle' = FALSE /\ protocol' = Unknown
      /\ view' = Unseen /\ stable' = Unsettled /\ bypass' = FALSE /\ context' = NoContext
      /\ server' = server /\ effects' = effects /\ touched' = touched
  BY DEF Reboot, RenewToken
<1>3. j \in {Empty, Corrupt} \cup Intents  OBVIOUS
<1>4. NoTransaction \in Txs /\ NoTransaction.mode = "none" /\ ~NoTransaction.sent
      /\ ~NoTransaction.confirmed /\ ~NoTransaction.resend
  <2>1. 0 \in 0 .. MaxAttempts  BY DEF MaxAttempts
  <2>2. QED  BY <2>1 DEF NoTransaction, Txs
<1>5. ASSUME j.kind = "intent" PROVE FlashHeld' /\ RequestsOwned' /\ Attempts'
  <2>1. j \in Intents  BY <1>3, <1>5, IntentFacts
  <2>2. Loaded(j) = [NoTransaction EXCEPT !.mode = "conditional", !.epoch = j.epoch,
                          !.revision = j.revision, !.count = j.count, !.durable = TRUE,
                          !.sent = TRUE, !.restored = TRUE, !.dispatched = TRUE]
    BY <1>5 DEF Loaded
  <2>3. /\ tx' \in Txs /\ tx'.mode = "conditional" /\ tx'.durable /\ ~tx'.resend
        /\ tx'.epoch = j.epoch /\ tx'.revision = j.revision /\ tx'.count = j.count
    BY <1>2, <1>4, <2>1, <2>2 DEF Txs, Intents, NoTransaction
  <2>4. journal' = Intent(tx')  BY <1>2, <2>1, <2>3 DEF Intent, Intents
  <2>5. storeFault' = FALSE  BY <1>2, <2>1, IntentFacts
  <2>6. tx'.sent /\ ~tx'.confirmed /\ ~tx'.superseded
    BY <1>2, <2>2 DEF NoTransaction
  <2>7. FlashHeld'  BY <2>3, <2>4, <2>5, <2>6 DEF FlashHeld, Open, Resolved
  <2>8. RequestsOwned' /\ Attempts'
    BY <1>2, <2>3, NoneFields DEF RequestsOwned, Attempts
  <2>9. QED  BY <2>7, <2>8
<1>6. ASSUME j.kind # "intent" PROVE FlashHeld' /\ RequestsOwned' /\ Attempts'
  <2>1. tx' = NoTransaction /\ j \in {Empty, Corrupt}
    BY <1>2, <1>3, <1>6, IntentFacts DEF Loaded
  <2>2. FlashHeld'  BY <1>2, <1>4, <2>1 DEF FlashHeld, Open, Resolved
  <2>3. RequestsOwned' /\ Attempts'
    BY <1>2, <1>4, <2>1, NoneFields DEF RequestsOwned, Attempts
  <2>4. QED  BY <2>2, <2>3
<1>7. Types'
  <2>1. NoContext \in Contexts  BY DEF NoContext, Contexts, Stages
  <2>2. late' \subseteq Wires  BY <1>2, WireFields DEF Orphans
  <2>3. tx' \in Txs
    <3>1. CASE j.kind = "intent"
      <4>1. j \in Intents  BY <1>3, <3>1, IntentFacts
      <4>2. QED  BY <1>2, <1>4, <3>1, <4>1 DEF Loaded, Txs, Intents
    <3>2. CASE j.kind # "intent"  BY <1>2, <1>4, <3>2 DEF Loaded
    <3>3. QED  BY <3>1, <3>2
  <2>4. (j = Corrupt) \in BOOLEAN  OBVIOUS
  <2>5. QED  BY <1>2, <1>3, <2>1, <2>2, <2>3, <2>4, TypesNext
<1>8. QED  BY <1>5, <1>6, <1>7, Zenon DEF DeviceInv

\* The loop's services, between two answers.
LEMMA ServiceDevice ==
    ASSUME GeneratorCompletionAssumption, DeviceInv,
           ServiceVerify \/ ServiceWithdraw \/ FaultRead \/ ProtocolProbe
    PROVE  DeviceInv'
<1>1. Types  BY DEF DeviceInv
<1> USE TypeFacts, TypesNow, SetupFacts, <1>1
<1>2. CASE ServiceVerify
  <2>1. /\ setup' = setup /\ faults' = faults /\ tx' = tx /\ send' = send
        /\ storeFault' = storeFault /\ awaitResync' = awaitResync /\ resetCycle' = resetCycle
        /\ protocol' = protocol /\ view' = view /\ stable' = stable /\ bypass' = bypass
        /\ context' = context /\ journal' = journal /\ server' = server /\ late' = late
        /\ effects' = effects /\ touched' = touched /\ verify' = TRUE
    BY <1>2 DEF ServiceVerify, flagVars, inputVars, serverVars, faultVars
  <2>2. PICK k \in {"conditional", "legacy"} :
           /\ read' = Asked(k) /\ tx.mode = k /\ tx.sent /\ ~Resolved
           /\ k = "conditional" => BootReady
    BY <1>2 DEF ServiceVerify, Unresolved
  <2>3. read' \in Reads /\ read'.kind = k /\ read'.at # "none"  BY <2>2, AskedFields
  <2>4. Types'  BY <2>1, <2>3, TypesNext
  <2>5. FlashHeld' /\ Attempts'
    BY <2>1 DEF DeviceInv, FlashHeld, Open, Resolved, Attempts, Intent
  <2>6. RequestsOwned'
    BY <2>1, <2>2, <2>3 DEF DeviceInv, RequestsOwned, Open, Resolved, BootReady
  <2>7. QED  BY <2>4, <2>5, <2>6 DEF DeviceInv
<1>3. CASE ServiceWithdraw
  <2>1. /\ setup' = setup /\ faults' = faults /\ read' = read /\ verify' = verify
        /\ storeFault' = storeFault /\ awaitResync' = awaitResync /\ resetCycle' = resetCycle
        /\ protocol' = protocol /\ view' = view /\ stable' = stable /\ bypass' = bypass
        /\ context' = context /\ journal' = journal /\ server' = server /\ late' = late
        /\ effects' = effects /\ touched' = touched
    BY <1>3 DEF ServiceWithdraw, flagVars, inputVars, serverVars, faultVars
  <2>2. send \in Sends /\ send.at # "none"  BY <1>3 DEF ServiceWithdraw
  <2>3. send' = [send EXCEPT !.cancelled = TRUE]  BY <1>3 DEF ServiceWithdraw
  <2>4. /\ send' \in Sends /\ send'.at = send.at /\ send'.mode = send.mode
        /\ send'.epoch = send.epoch /\ send'.revision = send.revision /\ send'.count = send.count
    BY <2>2, <2>3, CancelFields
  <2>5. tx' = (IF tx.mode = "legacy" THEN Cancelled(tx) ELSE tx)
    BY <1>3 DEF ServiceWithdraw, Cancelled
  <2>6. /\ tx' \in Txs /\ tx'.mode = tx.mode /\ tx'.epoch = tx.epoch /\ tx'.revision = tx.revision
        /\ tx'.count = tx.count /\ tx'.sent = tx.sent /\ tx'.confirmed = tx.confirmed
        /\ tx'.superseded = tx.superseded /\ tx'.durable = tx.durable /\ tx'.current = tx.current
        /\ tx'.attempts = tx.attempts /\ tx'.resend = tx.resend
    BY <2>5, CancelledFields
  <2>7. Types'  BY <2>1, <2>4, <2>6, TypesNext
  <2>8. FlashHeld'  BY <2>1, <2>6 DEF DeviceInv, FlashHeld, Open, Resolved, Intent
  <2>9. RequestsOwned' /\ Attempts'
    BY <2>1, <2>2, <2>4, <2>6 DEF DeviceInv, RequestsOwned, Attempts, Open, Resolved, BootReady
  <2>10. QED  BY <2>7, <2>8, <2>9 DEF DeviceInv
<1>4. CASE FaultRead
  <2>1. /\ setup' = setup /\ faults' = faults /\ tx' = tx /\ send' = send
        /\ storeFault' = storeFault /\ awaitResync' = awaitResync /\ resetCycle' = resetCycle
        /\ protocol' = protocol /\ view' = view /\ stable' = stable /\ bypass' = bypass
        /\ context' = context /\ journal' = journal /\ server' = server /\ late' = late
        /\ effects' = effects /\ touched' = touched /\ verify' = TRUE
        /\ read' = Asked("fault") /\ BootReady
    BY <1>4 DEF FaultRead, flagVars, inputVars, serverVars, faultVars
  <2>2. read' \in Reads /\ read'.kind = "fault" /\ read'.at # "none"  BY <2>1, AskedFields
  <2>3. Types'  BY <2>1, <2>2, TypesNext
  <2>4. FlashHeld' /\ Attempts'
    BY <2>1 DEF DeviceInv, FlashHeld, Open, Resolved, Attempts, Intent
  <2>5. RequestsOwned'
    BY <2>1, <2>2 DEF DeviceInv, RequestsOwned, Open, Resolved, BootReady
  <2>6. QED  BY <2>3, <2>4, <2>5 DEF DeviceInv
<1>5. CASE ProtocolProbe
  <2>1. /\ setup' = setup /\ faults' = faults /\ tx' = tx /\ send' = send /\ read' = read
        /\ storeFault' = storeFault /\ awaitResync' = awaitResync /\ resetCycle' = resetCycle
        /\ protocol' = server.protocol /\ view' = view /\ stable' = stable /\ bypass' = bypass
        /\ context' = context /\ journal' = journal /\ server' = server /\ late' = late
        /\ effects' = effects /\ touched' = touched /\ verify' = verify
    BY <1>5 DEF ProtocolProbe, requestVars, inputVars, serverVars, faultVars
  <2>2. server.protocol \in {0, 1}  BY DEF Rows
  <2>3. Types'  BY <2>1, <2>2, TypesNext
  <2>4. FlashHeld' /\ Attempts'
    BY <2>1 DEF DeviceInv, FlashHeld, Open, Resolved, Attempts, Intent
  <2>5. RequestsOwned'  BY <2>1 DEF DeviceInv, RequestsOwned, Open, Resolved, BootReady
  <2>6. QED  BY <2>3, <2>4, <2>5 DEF DeviceInv
<1>6. QED  BY <1>2, <1>3, <1>4, <1>5

\* What the wire service writes and reads before a completion.
LEMMA ConfirmFacts ==
    ASSUME GeneratorCompletionAssumption, Types, ConfirmContext
    PROVE  /\ setup' = setup /\ faults' = faults /\ verify' = verify /\ storeFault' = storeFault
           /\ awaitResync' = awaitResync /\ view' = view /\ journal' = journal /\ late' = late
           /\ effects' = effects /\ touched' = touched /\ protocol' = server.protocol
           /\ server' \in Rows /\ server'.epoch = server.epoch /\ server'.stage = server.stage
           /\ server'.protocol = server.protocol
           /\ \/ server' = server
              \/ server'.revision = server.revision + 1 /\ context' = ContextOf(server', TRUE)
           /\ context' \in Contexts
           /\ context' \in {ContextOf(server', TRUE), ContextOf(server', FALSE)}
           /\ stable' \in {stable, Unsettled} /\ bypass' \in {bypass, FALSE}
           /\ resetCycle' \in BOOLEAN
           /\ \/ tx' = tx /\ send' = send /\ read' = read
              \/ tx' = NotCurrent(tx) /\ send' = Stale(send) /\ read' = Stale(read)
           /\ ~NewEpoch => resetCycle' = resetCycle
           /\ NewEpoch \/ server.stage # view =>
                 server' = server /\ context' = ContextOf(server, FALSE)
           /\ bypass' = bypass \/ ~(view = StartStage /\ bypass')
<1> USE TypeFacts, TypesNow, SetupFacts
<1>1. /\ setup' = setup /\ faults' = faults /\ verify' = verify /\ storeFault' = storeFault
      /\ awaitResync' = awaitResync /\ view' = view /\ journal' = journal /\ late' = late
      /\ effects' = effects /\ touched' = touched /\ protocol' = server.protocol
  BY DEF ConfirmContext, faultVars
<1>2. \A row \in Rows, b \in BOOLEAN : ContextOf(row, b) \in Contexts
  <2>1. \A e \in 1 .. MaxEpoch : e \in Epochs  BY DEF Epochs
  <2>2. QED  BY <2>1 DEF ContextOf, Contexts, Rows
<1>3. CASE NewEpoch \/ server.stage # view
  <2>1. /\ context' = ContextOf(server, FALSE) /\ server' = server
        /\ resetCycle' = (resetCycle \/ NewEpoch)
        /\ IF NewCycle
           THEN /\ stable' = Unsettled /\ bypass' = FALSE
                /\ tx' = [tx EXCEPT !.current = FALSE]
                /\ send' = Stale(send) /\ read' = Stale(read)
           ELSE UNCHANGED <<stable, bypass, tx, send, read>>
    BY <1>3 DEF ConfirmContext
  <2>2. resetCycle' \in BOOLEAN /\ (~NewEpoch => resetCycle' = resetCycle)
    BY <2>1
  <2>3. QED  BY <1>1, <1>2, <1>3, <2>1, <2>2 DEF NotCurrent
<1>4. CASE ~(NewEpoch \/ server.stage # view)
  <2>1. /\ \/ server.count = stable /\ UNCHANGED server
           \/ Room /\ server' = [server EXCEPT !.count = stable, !.revision = @ + 1]
        /\ context' = ContextOf(server', TRUE) /\ stable # Unsettled
        /\ UNCHANGED <<resetCycle, stable, bypass, tx, send, read>>
    BY <1>4 DEF ConfirmContext
  <2>2. CASE server' = server  BY <1>1, <1>2, <1>4, <2>1, <2>2
  <2>3. CASE Room /\ server' = [server EXCEPT !.count = stable, !.revision = @ + 1]
    <3>1. server.revision + 1 \in Revisions
      BY <2>3 DEF Room, Rows, Revisions
    <3>2. /\ server' \in Rows /\ server'.epoch = server.epoch /\ server'.stage = server.stage
          /\ server'.protocol = server.protocol /\ server'.revision = server.revision + 1
      BY <2>1, <2>3, <3>1 DEF Rows
    <3>3. QED  BY <1>1, <1>2, <1>4, <2>1, <3>2
  <2>4. QED  BY <2>1, <2>2, <2>3
<1>5. QED  BY <1>3, <1>4

\* The wires, and power cuts.
LEMMA DeviceDevice == ASSUME GeneratorCompletionAssumption, DeviceInv, Device PROVE DeviceInv'
<1>1. Types  BY DEF DeviceInv
<1> USE TypeFacts, TypesNow, SetupFacts, <1>1
<1>2. CASE ConfirmContext
  <2>1. /\ setup' = setup /\ faults' = faults /\ verify' = verify /\ storeFault' = storeFault
        /\ awaitResync' = awaitResync /\ view' = view /\ journal' = journal /\ late' = late
        /\ effects' = effects /\ touched' = touched /\ protocol' = server.protocol
        /\ server' \in Rows /\ context' \in Contexts /\ stable' \in {stable, Unsettled}
        /\ bypass' \in {bypass, FALSE} /\ resetCycle' \in BOOLEAN
    BY <1>2, ConfirmFacts
  <2>2. \/ tx' = tx /\ send' = send /\ read' = read
        \/ tx' = NotCurrent(tx) /\ send' = Stale(send) /\ read' = Stale(read)
    BY <1>2, ConfirmFacts
  <2>3. /\ tx' \in Txs /\ tx'.mode = tx.mode /\ tx'.epoch = tx.epoch /\ tx'.revision = tx.revision
        /\ tx'.count = tx.count /\ tx'.sent = tx.sent /\ tx'.confirmed = tx.confirmed
        /\ tx'.superseded = tx.superseded /\ tx'.durable = tx.durable
        /\ tx'.attempts = tx.attempts /\ tx'.resend = tx.resend
        /\ tx'.current => tx.current
    BY <2>2, NotCurrentFields
  <2>4. /\ send' \in {NoRequest} \cup Sends /\ send'.at = send.at
        /\ send.at # "none" => /\ send'.mode = send.mode /\ send'.epoch = send.epoch
                               /\ send'.revision = send.revision /\ send'.count = send.count
    BY <2>2, StaleFields, NoneFields
  <2>5. /\ read' \in {NoRequest} \cup Reads /\ read'.at = read.at
        /\ read.at # "none" => read'.kind = read.kind
    BY <2>2, StaleReadFields, NoneFields
  <2>6. server.protocol \in {0, 1}  BY DEF Rows
  <2>7. Types'  BY <2>1, <2>3, <2>4, <2>5, <2>6, TypesNext
  <2>8. FlashHeld'  BY <2>1, <2>3 DEF DeviceInv, FlashHeld, Open, Resolved, Intent
  <2>9. RequestsOwned' /\ Attempts'
    BY <2>1, <2>3, <2>4, <2>5 DEF DeviceInv, RequestsOwned, Attempts, Open, Resolved, BootReady
  <2>10. QED  BY <2>7, <2>8, <2>9 DEF DeviceInv
<1>3. CASE Settle \/ Replug
  <2>1. /\ setup' = setup /\ faults' = faults /\ tx' = tx /\ send' = send /\ read' = read
        /\ storeFault' = storeFault /\ awaitResync' = awaitResync /\ resetCycle' = resetCycle
        /\ protocol' = protocol /\ view' = view /\ bypass' = bypass
        /\ context' = context /\ journal' = journal /\ server' = server /\ late' = late
        /\ effects' = effects /\ touched' = touched /\ verify' = verify
    BY <1>3 DEF Settle, Replug, requestVars, flagVars, serverVars, faultVars
  <2>2. stable' \in Counts \cup {Unsettled}  BY <1>3 DEF Settle, Replug
  <2>3. Types'  BY <2>1, <2>2, TypesNext
  <2>4. FlashHeld' /\ Attempts'
    BY <2>1 DEF DeviceInv, FlashHeld, Open, Resolved, Attempts, Intent
  <2>5. RequestsOwned'  BY <2>1 DEF DeviceInv, RequestsOwned, Open, Resolved, BootReady
  <2>6. QED  BY <2>3, <2>4, <2>5 DEF DeviceInv
<1>4. CASE Crash
  <2>1. Spend(1) /\ (Reboot(journal) \/ (journal # Empty /\ Reboot(Corrupt)))
    BY <1>4 DEF Crash
  <2>2. setup' = setup /\ faults' \in 0 .. MaxFaults  BY <2>1, SpendFacts
  <2>3. QED  BY <2>1, <2>2, RebootDevice
<1>5. CASE OfflineRestart
  <2>1. Spend(1) /\ Reboot(journal)  BY <1>5 DEF OfflineRestart
  <2>2. setup' = setup /\ faults' \in 0 .. MaxFaults  BY <2>1, SpendFacts
  <2>3. QED  BY <2>1, <2>2, RebootDevice
<1>6. QED  BY <1>2, <1>3, <1>4, <1>5 DEF Device

\* A plain Send enters the queue, or is refused.
LEMMA LegacySubmitFacts ==
    ASSUME GeneratorCompletionAssumption, Types, BootReady, NEW t \in Txs, t.mode = "legacy",
           NEW admitted \in BOOLEAN, LegacySubmit(t, admitted)
    PROVE  /\ tx' \in Txs /\ tx'.mode = "legacy" /\ tx'.durable = t.durable
           /\ tx'.current = t.current /\ tx'.confirmed = t.confirmed
           /\ tx'.superseded = t.superseded /\ tx'.dispatched = t.dispatched
           /\ \/ tx' = t /\ send' = NoRequest
              \/ /\ MaySubmit(t) /\ tx'.sent /\ tx'.start = view /\ tx'.attempts = 0 /\ ~tx'.resend
                 /\ send' \in Sends /\ send'.at = "queued" /\ send'.mode = "legacy"
                 /\ send'.reply.kind = "none" /\ ~send'.dispatched /\ send'.current = t.current
<1>1. CASE MaySubmit(t) /\ admitted
  <2>1. tx' = Submitted(t) /\ send' = Queued(Submitted(t), FALSE)  BY <1>1 DEF LegacySubmit
  <2>2. /\ tx' \in Txs /\ tx'.mode = "legacy" /\ tx'.durable = t.durable
        /\ tx'.current = t.current /\ tx'.confirmed = t.confirmed
        /\ tx'.superseded = t.superseded /\ tx'.dispatched = t.dispatched
        /\ tx'.sent /\ tx'.start = view /\ tx'.attempts = 0 /\ ~tx'.resend
    BY <2>1, SubmittedFields
  <2>3. /\ send' \in Sends /\ send'.at = "queued" /\ send'.mode = "legacy"
        /\ send'.reply.kind = "none" /\ ~send'.dispatched /\ send'.current = t.current
    BY <2>1, <2>2, QueuedFields
  <2>4. QED  BY <1>1, <2>2, <2>3
<1>2. CASE ~(MaySubmit(t) /\ admitted)  BY <1>2 DEF LegacySubmit
<1>3. QED  BY <1>1, <1>2

\* A transaction begins with nothing in it.
LEMMA BeginningFields ==
    ASSUME GeneratorCompletionAssumption, Types, BootReady
    PROVE  /\ BeganLegacy \in Txs /\ BeganLegacy.mode = "legacy" /\ ~BeganLegacy.durable
           /\ BeganLegacy.current /\ ~BeganLegacy.sent /\ ~BeganLegacy.confirmed
           /\ ~BeganLegacy.superseded /\ ~BeganLegacy.dispatched /\ ~BeganLegacy.resend
           /\ BeganLegacy.start = view /\ BeganLegacy.attempts = 0
           /\ Began \in Txs /\ Began.mode = "conditional" /\ Began.epoch = context.epoch
           /\ Began.revision = context.revision /\ Began.count = stable
           /\ Began.sent /\ Began.durable /\ ~Began.confirmed /\ ~Began.superseded
           /\ ~Began.resend /\ ~Began.restored /\ Began.current
<1>1. NoTransaction \in Txs
  <2>1. 0 \in 0 .. MaxAttempts  BY DEF MaxAttempts
  <2>2. setup \in Setups  BY TypeFacts
  <2>3. QED  BY <2>1, <2>2, SetupFacts DEF NoTransaction, Txs
<1>2. view \in Stages  BY TypesNow DEF BootReady
<1>3. BeganLegacy \in Txs /\ BeganLegacy.start = view
  BY <1>1, <1>2 DEF BeganLegacy, NoTransaction, Txs
<1>4. /\ BeganLegacy.mode = "legacy" /\ ~BeganLegacy.durable
      /\ BeganLegacy.current /\ ~BeganLegacy.sent /\ ~BeganLegacy.confirmed
      /\ ~BeganLegacy.superseded /\ ~BeganLegacy.dispatched /\ ~BeganLegacy.resend
      /\ BeganLegacy.attempts = 0
  BY DEF BeganLegacy, NoTransaction
<1>5. /\ context.epoch \in Epochs /\ context.revision \in Revisions /\ context.stage \in Stages
      /\ stable \in Counts \cup {0, Unsettled}
  BY TypesNow DEF Contexts
<1>6. Began \in Txs  BY <1>1, <1>5 DEF Began, NoTransaction, Txs
<1>7. /\ Began.mode = "conditional" /\ Began.epoch = context.epoch
      /\ Began.revision = context.revision /\ Began.count = stable
      /\ Began.sent /\ Began.durable /\ ~Began.confirmed /\ ~Began.superseded
      /\ ~Began.resend /\ ~Began.restored /\ Began.current
  BY DEF Began, NoTransaction
<1>8. QED  BY <1>3, <1>4, <1>6, <1>7

\* The game asks for the completion: an intent goes to flash before it goes to the queue.
LEMMA GameDevice == ASSUME GeneratorCompletionAssumption, DeviceInv, Game PROVE DeviceInv'
<1>1. Types  BY DEF DeviceInv
<1> USE TypeFacts, TypesNow, SetupFacts, CostFacts, <1>1
<1>2. MayBegin => BootReady /\ ~storeFault /\ ~Open /\ journal = Empty
                  /\ ~(tx.mode = "legacy" /\ tx.current)
  BY DEF MayBegin, Gate, Pending, DeviceInv, FlashHeld, Open
<1>3. Orphans \subseteq Wires  BY WireFields DEF Orphans
<1>4. CASE BeginLegacy
  <2>1. PICK admitted \in BOOLEAN : Queues(admitted) /\ LegacySubmit(BeganLegacy, admitted)
    BY <1>4 DEF BeginLegacy, BeganLegacy
  <2>2. setup' = setup /\ faults' \in 0 .. MaxFaults  BY <2>1, SpendFacts DEF Queues
  <2>3. /\ read' = NoRequest /\ late' = Orphans /\ verify' = FALSE
        /\ storeFault' = storeFault /\ awaitResync' = awaitResync /\ resetCycle' = resetCycle
        /\ protocol' = protocol /\ view' = view /\ stable' = stable /\ bypass' = bypass
        /\ context' = context /\ journal' = journal /\ server' = server /\ effects' = effects
        /\ touched' \in BOOLEAN
    BY <1>4 DEF BeginLegacy, flagVars, inputVars
  <2>4. BootReady /\ ~storeFault /\ journal = Empty  BY <1>2, <1>4 DEF BeginLegacy
  <2>5. /\ tx' \in Txs /\ tx'.mode = "legacy" /\ ~tx'.durable
        /\ \/ tx' = BeganLegacy /\ send' = NoRequest
           \/ /\ tx'.attempts = 0 /\ ~tx'.resend /\ send' \in Sends /\ send'.mode = "legacy"
    BY <2>1, <2>4, BeginningFields, LegacySubmitFacts
  <2>6. ~tx'.resend  BY <2>4, <2>5, BeginningFields
  <2>7. send'.at # "none" => tx'.attempts < MaxAttempts /\ send'.mode = "legacy"
    BY <2>5, NoneFields DEF MaxAttempts
  <2>8. Types'  BY <1>3, <2>2, <2>3, <2>5, TypesNext
  <2>9. FlashHeld'  BY <2>3, <2>4, <2>5 DEF FlashHeld, Open
  <2>10. Attempts'  BY <2>6, <2>7 DEF Attempts
  <2>11. RequestsOwned'  BY <2>3, <2>4, <2>5, <2>7, NoneFields DEF RequestsOwned, BootReady
  <2>12. QED  BY <2>8, <2>9, <2>10, <2>11 DEF DeviceInv
<1>5. CASE ContinueLegacy
  <2>1. PICK admitted \in BOOLEAN : Queues(admitted) /\ LegacySubmit(tx, admitted)
    BY <1>5 DEF ContinueLegacy
  <2>2. setup' = setup /\ faults' \in 0 .. MaxFaults  BY <2>1, SpendFacts DEF Queues
  <2>3. /\ read' = read /\ late' = late /\ verify' = verify
        /\ storeFault' = storeFault /\ awaitResync' = awaitResync /\ resetCycle' = resetCycle
        /\ protocol' = protocol /\ view' = view /\ stable' = stable /\ bypass' = bypass
        /\ context' = context /\ journal' = journal /\ server' = server /\ effects' = effects
        /\ touched' = touched
    BY <1>5 DEF ContinueLegacy, flagVars, inputVars, serverVars
  <2>4. BootReady /\ tx.mode = "legacy"  BY <1>5 DEF ContinueLegacy, Gate
  <2>5. /\ tx' \in Txs /\ tx'.mode = "legacy" /\ tx'.durable = tx.durable /\ tx'.current = tx.current
        /\ \/ tx' = tx /\ send' = NoRequest
           \/ /\ tx'.attempts = 0 /\ ~tx'.resend /\ send' \in Sends /\ send'.mode = "legacy"
    BY <2>1, <2>4, LegacySubmitFacts
  <2>6. Types'  BY <2>2, <2>3, <2>5, TypesNext
  <2>7. FlashHeld'  BY <2>3, <2>4, <2>5 DEF DeviceInv, FlashHeld, Open
  <2>8. Attempts'
    <3>1. 0 < MaxAttempts  BY DEF MaxAttempts
    <3>2. QED  BY <2>4, <2>5, <3>1, NoneFields DEF DeviceInv, Attempts
  <2>9. RequestsOwned'
    BY <2>3, <2>4, <2>5, NoneFields DEF DeviceInv, RequestsOwned, Open, BootReady
  <2>10. QED  BY <2>6, <2>7, <2>8, <2>9 DEF DeviceInv
<1>6. CASE BeginConditional
  <2>1. /\ awaitResync' = awaitResync /\ resetCycle' = resetCycle
        /\ protocol' = protocol /\ view' = view /\ stable' = stable /\ bypass' = bypass
        /\ context' = context /\ server' = server /\ effects' = effects /\ touched' \in BOOLEAN
    BY <1>6 DEF BeginConditional, inputVars
  <2>2. BootReady /\ ~storeFault /\ ~Open /\ journal = Empty /\ ~(tx.mode = "legacy" /\ tx.current)
    BY <1>2, <1>6 DEF BeginConditional
  <2>3. Intent(Began) \in Intents  BY <2>2, BeginningFields, IntentFacts
  <2>4. CASE SaveFails(Intent(Began)) /\ storeFault' = TRUE /\ UNCHANGED <<tx, requestVars, late>>
    <3>1. tx' = tx /\ send' = send /\ read' = read /\ verify' = verify /\ late' = late /\ storeFault' = TRUE
      BY <2>4 DEF requestVars
    <3>2. Spend(1) /\ journal' \in {Empty, Intent(Began)}
      BY <2>2, <2>4 DEF SaveFails
    <3>3. setup' = setup /\ faults' \in 0 .. MaxFaults  BY <3>2, SpendFacts
    <3>4. Types'  BY <2>1, <2>3, <3>1, <3>2, <3>3, TypesNext
    <3>5. FlashHeld'  BY <2>2, <3>1 DEF DeviceInv, FlashHeld, Open, Resolved
    <3>6. RequestsOwned' /\ Attempts'
      BY <2>1, <3>1 DEF DeviceInv, RequestsOwned, Attempts, Open, Resolved, BootReady
    <3>7. QED  BY <3>4, <3>5, <3>6 DEF DeviceInv
  <2>5. CASE /\ journal' = Intent(Began) /\ tx' = Began /\ read' = NoRequest /\ late' = Orphans
             /\ verify' = FALSE /\ UNCHANGED storeFault
             /\ \E admitted \in BOOLEAN : Queues(admitted) /\ Submit(Began, FALSE, admitted)
    <3>1. PICK admitted \in BOOLEAN : Queues(admitted) /\ Submit(Began, FALSE, admitted)
      BY <2>5
    <3>2. setup' = setup /\ faults' \in 0 .. MaxFaults  BY <3>1, SpendFacts DEF Queues
    <3>3. /\ Began \in Txs /\ Began.mode = "conditional" /\ Began.sent /\ Began.durable
          /\ ~Began.confirmed /\ ~Began.superseded /\ ~Began.resend
      BY <2>2, BeginningFields
    <3>4. \/ send' = NoRequest
          \/ /\ send' \in Sends /\ send'.mode = "conditional" /\ send'.epoch = Began.epoch
             /\ send'.revision = Began.revision /\ send'.count = Began.count
      BY <3>1, <3>3, QueuedFields DEF Submit
    <3>5. Types'  BY <1>3, <2>1, <2>3, <2>5, <3>2, <3>3, <3>4, TypesNext
    <3>6. Open' /\ FlashHeld'
      BY <2>2, <2>5, <3>3 DEF FlashHeld, Open, Resolved, Intent
    <3>7. RequestsOwned' /\ Attempts'
      BY <2>1, <2>2, <2>5, <3>3, <3>4, <3>6, NoneFields DEF RequestsOwned, Attempts, BootReady
    <3>8. QED  BY <3>5, <3>6, <3>7 DEF DeviceInv
  <2>6. QED  BY <1>6, <2>4, <2>5 DEF BeginConditional
<1>7. QED  BY <1>4, <1>5, <1>6 DEF Game
-----------------------------------------------------------------------------
(* The answers of a conditional transaction.                               *)

\* A transaction with what the flash and the requests know of it left alone.
Like(t) ==
    /\ t \in Txs /\ t.mode = tx.mode /\ t.epoch = tx.epoch /\ t.revision = tx.revision
    /\ t.count = tx.count /\ t.sent = tx.sent /\ t.confirmed = tx.confirmed
    /\ t.superseded = tx.superseded /\ t.durable = tx.durable /\ t.attempts = tx.attempts
    /\ t.resend = tx.resend

\* A restored transaction becomes one of this cycle.
LEMMA BindFields ==
    ASSUME GeneratorCompletionAssumption, Types, BootReady, NEW t \in Txs
    PROVE  LET u == Bind(t) IN
           /\ u \in Txs /\ u.mode = t.mode /\ u.epoch = t.epoch /\ u.revision = t.revision
           /\ u.count = t.count /\ u.sent = t.sent /\ u.confirmed = t.confirmed
           /\ u.superseded = t.superseded /\ u.durable = t.durable /\ u.attempts = t.attempts
           /\ u.resend = t.resend /\ ~u.restored /\ (u.current <=> t.restored \/ t.current)
<1>1. CASE ~t.restored  BY <1>1 DEF Bind
<1>2. CASE t.restored
  <2>1. PICK s \in Stages : s = (IF Target = "battery_max" THEN StartStage ELSE view)
    BY TypesNow, TypeFacts, SetupFacts DEF BootReady
  <2>2. Bind(t) = [t EXCEPT !.restored = FALSE, !.current = TRUE, !.start = s]
    BY <1>2, <2>1 DEF Bind
  <2> DEFINE v == [t EXCEPT !.restored = FALSE, !.current = TRUE, !.start = s]
  <2>3. v \in Txs  BY DEF Txs
  <2>4. /\ v.mode = t.mode /\ v.epoch = t.epoch /\ v.revision = t.revision
        /\ v.count = t.count /\ v.sent = t.sent /\ v.confirmed = t.confirmed
        /\ v.superseded = t.superseded /\ v.durable = t.durable /\ v.attempts = t.attempts
        /\ v.resend = t.resend /\ v.restored = FALSE /\ v.current = TRUE
    BY Zenon DEF Txs
  <2> HIDE DEF v
  <2>5. Bind(t) = v  BY <2>2 DEF v
  <2>6. QED  BY <1>2, <2>3, <2>4, <2>5
<1>3. QED  BY <1>1, <1>2

\* What the handlers make of the transaction is like it.
LEMMA LikeFacts ==
    ASSUME GeneratorCompletionAssumption, Types
    PROVE  /\ Like(tx) /\ (send.at # "none" => Like(Answering(tx)))
           /\ \A row \in Rows : Like(After(tx, row))
           /\ \A t : Like(t) => Like(Revived(t)) /\ (BootReady => Like(Bind(t)))
<1> USE TypeFacts
<1>1. Like(tx)  BY DEF Like
<1>2. send.at # "none" => Like(Answering(tx))  BY AnsweringFields, Zenon DEF Like
<1>3. \A row \in Rows : Like(After(tx, row))  BY AfterFields, Zenon DEF Like
<1>4. \A t : Like(t) => Like(Revived(t))  BY RevivedFields, Zenon DEF Like
<1>5. \A t : Like(t) /\ BootReady => Like(Bind(t))  BY BindFields, Zenon DEF Like
<1>6. QED  BY <1>1, <1>2, <1>3, <1>4, <1>5

\* An answered row is a row.
LEMMA ReplyRow == \A r \in Replies : r.kind = "row" => r.row \in Rows /\ r = Row(r.row)
BY DEF Replies, Row

\* The answer settles nothing: the intent stays as it is.
LEMMA KeepDevice ==
    ASSUME GeneratorCompletionAssumption, DeviceInv, Open, NEW t, Like(t), Keep(t),
           protocol' \in {Unknown, 0, 1}, UNCHANGED <<server, effects, touched>>
    PROVE  DeviceInv'
<1>1. Types  BY DEF DeviceInv
<1> USE TypeFacts, TypesNow, <1>1
<1>2. /\ setup' = setup /\ faults' = faults /\ tx' = t /\ send' = NoRequest /\ read' = NoRequest
      /\ late' = late /\ verify' = FALSE /\ storeFault' = storeFault /\ awaitResync' = awaitResync
      /\ resetCycle' = resetCycle /\ view' = view /\ stable' = stable /\ bypass' = bypass
      /\ context' = context /\ journal' = journal /\ server' = server
      /\ effects' = effects /\ touched' = touched
  BY DEF Keep, inputVars, faultVars
<1>3. Types'  BY <1>2, TypesNext DEF Like
<1>4. FlashHeld'  BY <1>2 DEF DeviceInv, FlashHeld, Open, Resolved, Intent, Like
<1>5. RequestsOwned' /\ Attempts'
  BY <1>2, NoneFields DEF DeviceInv, RequestsOwned, Attempts, Like, BootReady, Open
<1>6. QED  BY <1>3, <1>4, <1>5 DEF DeviceInv

\* What settling does to the rest of the device.
LEMMA ResolveFacts ==
    ASSUME GeneratorCompletionAssumption, Types, NEW t \in Txs, NEW c \in BOOLEAN, Resolve(t, c)
    PROVE  /\ setup' = setup /\ faults' \in 0 .. MaxFaults /\ tx' \in Txs /\ tx'.mode = t.mode
           /\ tx'.sent = t.sent /\ tx'.confirmed = c /\ (tx'.superseded <=> ~c)
           /\ (tx'.current <=> t.current /\ c) /\ tx'.resend = t.resend /\ tx'.epoch = t.epoch
           /\ tx'.revision = t.revision /\ tx'.count = t.count /\ tx'.dispatched = t.dispatched
           /\ storeFault' \in BOOLEAN /\ (storeFault => storeFault')
           /\ journal' \in {journal, Empty}
           /\ (t.durable => journal' = Empty \/ storeFault')
           /\ (~t.durable => journal' = journal)
           /\ send' = NoRequest /\ read' = NoRequest /\ late' = Orphans /\ verify' = FALSE
           /\ context' \in Contexts /\ ~context'.valid /\ context'.epoch = context.epoch
           /\ context'.revision = context.revision /\ context'.stage = context.stage
           /\ awaitResync' \in BOOLEAN /\ resetCycle' \in BOOLEAN
           /\ stable' \in {stable, Unsettled} /\ bypass' \in {bypass, FALSE}
<1> USE TypeFacts, TypesNow
<1>1. PICK k \in BOOLEAN :
        /\ Spend(Cost(k)) /\ Erased(t.durable, k) /\ storeFault' = (storeFault \/ ~k)
        /\ tx' = Resolution(t, c, k) /\ RenewToken /\ verify' = FALSE
        /\ IF c
           THEN /\ context' = Worthless(context)
                /\ UNCHANGED <<awaitResync, resetCycle, stable, bypass>>
           ELSE awaitResync' = TRUE /\ resetCycle' = TRUE /\ ResetWire
  BY Zenon DEF Resolve, Resolution, Worthless
<1>2. setup' = setup /\ faults' \in 0 .. MaxFaults
  BY <1>1, CostFacts, SpendFacts
<1>3. /\ tx' \in Txs /\ tx'.mode = t.mode
      /\ tx'.sent = t.sent /\ tx'.confirmed = c /\ (tx'.superseded <=> ~c)
      /\ (tx'.current <=> t.current /\ c) /\ tx'.resend = t.resend /\ tx'.epoch = t.epoch
      /\ tx'.revision = t.revision /\ tx'.count = t.count /\ tx'.dispatched = t.dispatched
  <2>1. LET u == Resolution(t, c, k) IN
        /\ u \in Txs /\ u.mode = t.mode /\ u.epoch = t.epoch /\ u.revision = t.revision
        /\ u.count = t.count /\ u.sent = t.sent /\ u.confirmed = c /\ (u.superseded <=> ~c)
        /\ u.dispatched = t.dispatched /\ (u.current <=> (t.current /\ c)) /\ u.resend = t.resend
    BY ResolutionFields
  <2>2. tx' = Resolution(t, c, k)  BY <1>1
  <2>3. QED  BY <2>1, <2>2, Zenon
<1>4. storeFault' \in BOOLEAN /\ (storeFault => storeFault')  BY <1>1
<1>5. journal' \in {journal, Empty} /\ (t.durable => journal' = Empty \/ storeFault')
      /\ (~t.durable => journal' = journal)
  BY <1>1 DEF Erased
<1>6. context' = Worthless(context)  BY <1>1 DEF ResetWire, Worthless
<1>7. /\ context' \in Contexts /\ ~context'.valid /\ context'.epoch = context.epoch
      /\ context'.revision = context.revision /\ context'.stage = context.stage
  BY <1>6, WorthlessFields
<1>8. /\ awaitResync' \in BOOLEAN /\ resetCycle' \in BOOLEAN
      /\ stable' \in {stable, Unsettled} /\ bypass' \in {bypass, FALSE}
  BY <1>1 DEF ResetWire
<1>9. send' = NoRequest /\ read' = NoRequest /\ late' = Orphans /\ verify' = FALSE
  BY <1>1 DEF RenewToken
<1>10. QED  BY <1>2, <1>3, <1>4, <1>5, <1>7, <1>8, <1>9

\* A conditional transaction is settled: its record goes, or is reported as a fault.
LEMMA ResolveDevice ==
    ASSUME GeneratorCompletionAssumption, DeviceInv, tx.mode = "conditional", NEW t, Like(t),
           NEW c \in BOOLEAN, Resolve(t, c), view' \in Stages \cup {Unseen},
           protocol' \in {Unknown, 0, 1}, UNCHANGED <<server, effects, touched>>
    PROVE  DeviceInv'
<1>1. Types /\ t \in Txs  BY DEF DeviceInv, Like
<1> USE TypeFacts, TypesNow, <1>1
<1>2. /\ setup' = setup /\ faults' \in 0 .. MaxFaults /\ tx' \in Txs /\ tx'.mode = t.mode
      /\ tx'.sent = t.sent /\ tx'.confirmed = c /\ (tx'.superseded <=> ~c)
      /\ tx'.resend = t.resend /\ storeFault' \in BOOLEAN /\ (storeFault => storeFault')
      /\ journal' \in {journal, Empty} /\ (t.durable => journal' = Empty \/ storeFault')
      /\ (~t.durable => journal' = journal)
      /\ send' = NoRequest /\ read' = NoRequest /\ late' = Orphans /\ verify' = FALSE
      /\ context' \in Contexts /\ awaitResync' \in BOOLEAN /\ resetCycle' \in BOOLEAN
      /\ stable' \in {stable, Unsettled} /\ bypass' \in {bypass, FALSE}
  BY ResolveFacts
<1>3. late' \subseteq Wires  BY <1>2, WireFields DEF Orphans
<1>4. Types'  BY <1>2, <1>3, TypesNext
<1>5. tx'.mode = "conditional" /\ ~tx'.resend /\ (tx'.confirmed \/ tx'.superseded)
  BY <1>2 DEF Like, DeviceInv, Attempts
<1>6. journal' # Empty => storeFault'
  BY <1>2 DEF Like, DeviceInv, FlashHeld, Open
<1>7. FlashHeld'  BY <1>5, <1>6 DEF FlashHeld, Open, Resolved
<1>8. RequestsOwned' /\ Attempts'
  BY <1>2, <1>5, NoneFields DEF RequestsOwned, Attempts
<1>9. QED  BY <1>4, <1>7, <1>8 DEF DeviceInv

\* The same intent goes to the server again.
LEMMA ResendDevice ==
    ASSUME GeneratorCompletionAssumption, DeviceInv, Open, BootReady, NEW t, Like(t), Resend(t),
           protocol' \in {Unknown, 0, 1}, UNCHANGED <<server, effects, touched>>
    PROVE  DeviceInv'
<1>1. Types /\ t \in Txs  BY DEF DeviceInv, Like
<1> USE TypeFacts, TypesNow, <1>1
<1>2. /\ tx' = t /\ read' = NoRequest
      /\ late' = late /\ verify' = FALSE /\ storeFault' = storeFault /\ awaitResync' = awaitResync
      /\ resetCycle' = resetCycle /\ view' = view /\ stable' = stable /\ bypass' = bypass
      /\ context' = context /\ journal' = journal /\ server' = server
      /\ effects' = effects /\ touched' = touched
  BY DEF Resend, inputVars
<1>3. PICK admitted \in BOOLEAN : Queues(admitted) /\ Submit(t, FALSE, admitted)
  BY DEF Resend
<1>4. setup' = setup /\ faults' \in 0 .. MaxFaults  BY <1>3, CostFacts, SpendFacts DEF Queues
<1>5. \/ send' = NoRequest
      \/ /\ send' \in Sends /\ send'.mode = "conditional" /\ send'.epoch = tx.epoch
         /\ send'.revision = tx.revision /\ send'.count = tx.count
  BY <1>3, QueuedFields DEF Submit, Like, Open
<1>6. Types'  BY <1>2, <1>4, <1>5, TypesNext
<1>7. FlashHeld' /\ Open'  BY <1>2 DEF DeviceInv, FlashHeld, Open, Resolved, Intent, Like
<1>8. RequestsOwned' /\ Attempts'
  BY <1>2, <1>5, <1>7, NoneFields DEF DeviceInv, RequestsOwned, Attempts, Like, BootReady, Open
<1>9. QED  BY <1>6, <1>7, <1>8 DEF DeviceInv

\* A server without CompleteGenerator: the record goes, and a plain Send follows.
LEMMA DowngradeFacts ==
    ASSUME GeneratorCompletionAssumption, Types, BootReady, NEW t \in Txs, t.durable, t.mode = "conditional",
           Downgrade(t)
    PROVE  /\ setup' = setup /\ faults' \in 0 .. MaxFaults
           /\ read' = NoRequest /\ verify' = FALSE /\ late' = late
           /\ awaitResync' = awaitResync /\ resetCycle' = resetCycle /\ view' = view
           /\ stable' = stable /\ bypass' = bypass /\ context' = context
           /\ tx' \in Txs /\ tx'.confirmed = t.confirmed /\ tx'.current = t.current
           /\ \/ /\ storeFault' = storeFault /\ journal' = Empty /\ tx'.mode = "legacy"
                 /\ ~tx'.durable
                 /\ \/ tx' = Plain(t) /\ send' = NoRequest
                    \/ /\ tx'.attempts = 0 /\ ~tx'.resend /\ send' \in Sends
                       /\ send'.mode = "legacy" /\ send'.at = "queued" /\ send'.reply.kind = "none"
              \/ /\ storeFault' = TRUE /\ journal' \in {journal, Empty} /\ tx' = Overtaken(t)
                 /\ tx'.mode = "conditional" /\ tx'.superseded /\ tx'.resend = t.resend
                 /\ send' = NoRequest
<1> USE TypeFacts, TypesNow
<1>1. /\ read' = NoRequest /\ verify' = FALSE /\ late' = late
      /\ awaitResync' = awaitResync /\ resetCycle' = resetCycle /\ view' = view
      /\ stable' = stable /\ bypass' = bypass /\ context' = context
  BY DEF Downgrade, inputVars
<1>2. PICK cleared \in BOOLEAN, admitted \in BOOLEAN :
        /\ Spend(Cost(cleared) + Cost(admitted)) /\ Erased(t.durable, cleared)
        /\ storeFault' = (storeFault \/ ~cleared)
        /\ IF cleared THEN LegacySubmit(Plain(t), admitted)
           ELSE tx' = Overtaken(t) /\ send' = NoRequest
  BY DEF Downgrade, Plain, Overtaken
<1>3. setup' = setup /\ faults' \in 0 .. MaxFaults  BY <1>2, CostFacts, SpendFacts
<1>4. CASE cleared
  <2>1. journal' = Empty  BY <1>2, <1>4 DEF Erased
  <2>2. storeFault' = storeFault  BY <1>2, <1>4
  <2>3. /\ Plain(t) \in Txs /\ Plain(t).mode = "legacy" /\ Plain(t).durable = FALSE
        /\ Plain(t).confirmed = t.confirmed /\ Plain(t).current = t.current
    BY PlainFields
  <2>4. /\ tx' \in Txs /\ tx'.mode = "legacy" /\ tx'.durable = FALSE
        /\ tx'.confirmed = t.confirmed /\ tx'.current = t.current
        /\ \/ tx' = Plain(t) /\ send' = NoRequest
           \/ /\ tx'.attempts = 0 /\ ~tx'.resend /\ send' \in Sends
              /\ send'.mode = "legacy" /\ send'.at = "queued" /\ send'.reply.kind = "none"
    BY <1>2, <1>4, <2>3, LegacySubmitFacts
  <2>5. QED  BY <1>1, <1>3, <2>1, <2>2, <2>4
<1>5. CASE ~cleared
  <2>1. journal' \in {journal, Empty} /\ storeFault' = TRUE  BY <1>2, <1>5 DEF Erased
  <2>2. tx' = Overtaken(t) /\ send' = NoRequest  BY <1>2, <1>5
  <2>3. /\ tx' \in Txs /\ tx'.confirmed = t.confirmed /\ tx'.current = t.current
        /\ tx'.mode = "conditional" /\ tx'.superseded /\ tx'.resend = t.resend
    BY <2>2, OvertakenFields
  <2>4. QED  BY <1>1, <1>3, <2>1, <2>2, <2>3
<1>6. QED  BY <1>4, <1>5

\* A downgraded intent is finished by a plain Send, or its record stays.
LEMMA DowngradeDevice ==
    ASSUME GeneratorCompletionAssumption, DeviceInv, Open, BootReady, NEW t, Like(t), Downgrade(t),
           protocol' \in {Unknown, 0, 1}, UNCHANGED <<server, effects, touched>>
    PROVE  DeviceInv'
<1>1. Types /\ t \in Txs  BY DEF DeviceInv, Like
<1> USE TypeFacts, TypesNow, <1>1
<1>2. t.durable /\ t.mode = "conditional" /\ ~t.resend /\ ~storeFault
  BY DEF Like, DeviceInv, FlashHeld, Attempts, Open
<1>3. /\ setup' = setup /\ faults' \in 0 .. MaxFaults
      /\ read' = NoRequest /\ verify' = FALSE /\ late' = late
      /\ awaitResync' = awaitResync /\ resetCycle' = resetCycle /\ view' = view
      /\ stable' = stable /\ bypass' = bypass /\ context' = context /\ tx' \in Txs
      /\ \/ /\ storeFault' = storeFault /\ journal' = Empty /\ tx'.mode = "legacy"
            /\ ~tx'.durable
            /\ \/ tx' = Plain(t) /\ send' = NoRequest
               \/ /\ tx'.attempts = 0 /\ ~tx'.resend /\ send' \in Sends
                  /\ send'.mode = "legacy" /\ send'.at = "queued"
         \/ /\ storeFault' = TRUE /\ journal' \in {journal, Empty} /\ tx' = Overtaken(t)
            /\ tx'.mode = "conditional" /\ tx'.superseded /\ tx'.resend = t.resend
            /\ send' = NoRequest
  BY <1>2, DowngradeFacts
<1>4. server' = server /\ effects' = effects /\ touched' = touched  OBVIOUS
<1>5. Types'  BY <1>3, <1>4, TypesNext
<1>6. FlashHeld'  BY <1>2, <1>3 DEF FlashHeld, Open, Resolved
<1>7. RequestsOwned'  BY <1>3, NoneFields DEF RequestsOwned, BootReady
<1>8. Attempts'
  <2>1. 0 < MaxAttempts  BY DEF MaxAttempts
  <2>2. Plain(t).resend = t.resend  BY PlainFields
  <2>3. QED  BY <1>2, <1>3, <2>1, <2>2, NoneFields DEF Attempts
<1>9. QED  BY <1>5, <1>6, <1>7, <1>8 DEF DeviceInv

\* Whatever a row says of an open intent, the intent or nothing is left.
LEMMA JudgeDevice ==
    ASSUME GeneratorCompletionAssumption, DeviceInv, Open, BootReady, NEW t, Like(t),
           NEW row \in Rows, NEW mutation \in BOOLEAN, Judge(t, row, mutation),
           UNCHANGED <<server, effects, touched>>
    PROVE  DeviceInv'
<1>1. Types /\ t \in Txs  BY DEF DeviceInv, Like
<1> USE TypeFacts, TypesNow, <1>1
<1>2. protocol' = row.protocol /\ protocol' \in {Unknown, 0, 1}
  BY SetupFacts DEF Judge, Rows
<1>3. tx.mode = "conditional"  BY DEF Open
<1>4. CASE Keep(t)  BY <1>2, <1>4, KeepDevice
<1>5. CASE JudgeSettled(t, row)
  <2> DEFINE c == Confirms(t, row)
             u == IF c /\ t.restored THEN Revived(t) ELSE t
  <2>1. c \in BOOLEAN  BY DEF Confirms, Active
  <2>2. Resolve(u, c)  BY <1>5 DEF JudgeSettled, Revived
  <2>3. view' \in Stages \cup {Unseen}
    BY <1>5, SetupFacts DEF JudgeSettled, Rows
  <2>4. Like(u)  BY LikeFacts
  <2> HIDE DEF c, u
  <2>5. QED  BY <1>2, <1>3, <2>1, <2>2, <2>3, <2>4, ResolveDevice
<1>6. CASE Resolve(t, FALSE) /\ UNCHANGED view
  <2>1. view' \in Stages \cup {Unseen}  BY <1>6
  <2>2. QED  BY <1>2, <1>3, <1>6, <2>1, ResolveDevice
<1>7. CASE Downgrade(Bind(t))  BY <1>2, <1>7, LikeFacts, DowngradeDevice
<1>8. CASE Keep(Bind(t))  BY <1>2, <1>8, LikeFacts, KeepDevice
<1>9. CASE Resend(Bind(t))  BY <1>2, <1>9, LikeFacts, ResendDevice
<1>10. QED  BY <1>4, <1>5, <1>6, <1>7, <1>8, <1>9 DEF Judge

\* The answers of a conditional transaction.
LEMMA ConditionalDevice ==
    ASSUME GeneratorCompletionAssumption, DeviceInv,
           ConditionalSendResult \/ ConditionalVerifyResult
    PROVE  DeviceInv'
<1>1. Types  BY DEF DeviceInv
<1> USE TypeFacts, TypesNow, <1>1
<1>2. CASE ConditionalSendResult
  <2>1. send.at = "done" /\ send.mode = "conditional" /\ UNCHANGED <<server, effects, touched>>
    BY <1>2 DEF ConditionalSendResult
  <2>2. send \in Sends /\ Open /\ BootReady /\ Like(Answering(tx))
    BY <2>1, LikeFacts DEF DeviceInv, RequestsOwned
  <2>3. CASE Void(send)
    <3>1. Keep(Answering(tx)) /\ protocol' = protocol
      BY <1>2, <2>3 DEF ConditionalSendResult, Answering
    <3>2. QED  BY <2>1, <2>2, <3>1, KeepDevice
  <2>4. CASE ~Void(send)
    <3>1. Judge(Answering(tx), send.reply.row, TRUE)
      BY <1>2, <2>4 DEF ConditionalSendResult, Answering
    <3>2. send.reply.row \in Rows  BY <2>2, <2>4, ReplyRow DEF Void, Sends
    <3>3. QED  BY <2>1, <2>2, <3>1, <3>2, JudgeDevice
  <2>5. QED  BY <2>3, <2>4
<1>3. CASE ConditionalVerifyResult
  <2>1. read.at = "done" /\ read.kind = "conditional" /\ UNCHANGED <<server, effects, touched>>
    BY <1>3 DEF ConditionalVerifyResult
  <2>2. read \in Reads /\ Open /\ BootReady /\ Like(tx)
    BY <2>1, LikeFacts DEF DeviceInv, RequestsOwned
  <2>3. CASE Void(read)
    <3>1. Keep(tx) /\ protocol' = protocol
      BY <1>3, <2>3 DEF ConditionalVerifyResult
    <3>2. QED  BY <2>1, <2>2, <3>1, KeepDevice
  <2>4. CASE ~Void(read)
    <3>1. Judge(tx, read.reply.row, FALSE)
      BY <1>3, <2>4 DEF ConditionalVerifyResult
    <3>2. read.reply.row \in Rows  BY <2>2, <2>4, ReplyRow DEF Void, Reads
    <3>3. QED  BY <2>1, <2>2, <3>1, <3>2, JudgeDevice
  <2>5. QED  BY <2>3, <2>4
<1>4. QED  BY <1>2, <1>3
-----------------------------------------------------------------------------
(* Snapshots, and the answers of a plain Send.                             *)

\* What a snapshot does to the inputs, and to a request that stays.
LEMMA SnapshotFacts ==
    ASSUME GeneratorCompletionAssumption, Types, NEW row \in Rows, ApplyInputs(row)
    PROVE  /\ view' = row.stage /\ view' \in Stages /\ BootReady' /\ awaitResync' = FALSE
           /\ resetCycle' = FALSE /\ stable' \in Counts \cup {Unsettled} /\ bypass' \in BOOLEAN
           /\ context' \in {context, Worthless(context)} /\ context' \in Contexts
<1> USE TypeFacts, TypesNow
<1>1. view' = row.stage /\ view' \in Stages /\ awaitResync' = FALSE /\ resetCycle' = FALSE
  BY DEF ApplyInputs, Rows
<1>2. BootReady'  BY <1>1 DEF BootReady, Stages, Unseen
<1>3. stable' \in Counts \cup {Unsettled} /\ bypass' \in BOOLEAN
  BY DEF ApplyInputs
<1>4. context' \in {context, Worthless(context)}  BY DEF ApplyInputs, Worthless
<1>5. context' \in Contexts  BY <1>4, WorthlessFields
<1>6. QED  BY <1>1, <1>2, <1>3, <1>4, <1>5

\* A request that outlives a snapshot only loses its cycle.
LEMMA CarriedFacts ==
    /\ \A row, s : s \in {NoRequest} \cup Sends =>
          LET u == Carried(s, row) IN
          /\ u \in {NoRequest} \cup Sends /\ u.at = s.at
          /\ s.at # "none" => /\ u.mode = s.mode /\ u.epoch = s.epoch /\ u.revision = s.revision
                              /\ u.count = s.count /\ u.dispatched = s.dispatched
                              /\ u.reply = s.reply /\ (u.current => s.current)
    /\ \A row, s : s \in {NoRequest} \cup Reads =>
          LET u == Carried(s, row) IN
          /\ u \in {NoRequest} \cup Reads /\ u.at = s.at
          /\ s.at # "none" => u.kind = s.kind /\ u.reply = s.reply /\ (u.current => s.current)
<1>1. ASSUME NEW row, NEW s \in {NoRequest} \cup Sends
      PROVE  LET u == Carried(s, row) IN
          /\ u \in {NoRequest} \cup Sends /\ u.at = s.at
          /\ s.at # "none" => /\ u.mode = s.mode /\ u.epoch = s.epoch /\ u.revision = s.revision
                              /\ u.count = s.count /\ u.dispatched = s.dispatched
                              /\ u.reply = s.reply /\ (u.current => s.current)
  <2>1. Carried(s, row) \in {s, Stale(s)}  BY DEF Carried
  <2>2. CASE s = NoRequest  BY <2>1, <2>2, NoneFields
  <2>3. CASE s \in Sends  BY <2>1, <2>3, StaleFields
  <2>4. QED  BY <2>2, <2>3
<1>2. ASSUME NEW row, NEW s \in {NoRequest} \cup Reads
      PROVE  LET u == Carried(s, row) IN
          /\ u \in {NoRequest} \cup Reads /\ u.at = s.at
          /\ s.at # "none" => u.kind = s.kind /\ u.reply = s.reply /\ (u.current => s.current)
  <2>1. Carried(s, row) \in {s, Stale(s)}  BY DEF Carried
  <2>2. CASE s = NoRequest  BY <2>1, <2>2, NoneFields
  <2>3. CASE s \in Reads  BY <2>1, <2>3, StaleReadFields
  <2>4. QED  BY <2>2, <2>3
<1>3. QED  BY <1>1, <1>2

\* What a snapshot does to a plain transaction and its requests.
LEMMA ApplyLegacyFacts ==
    ASSUME GeneratorCompletionAssumption, Types, NEW row \in Rows, NEW t \in Txs,
           NEW r \in {NoRequest} \cup Reads, NEW waiting \in BOOLEAN,
           ApplyLegacy(t, r, waiting, row)
    PROVE  /\ tx' \in Txs /\ tx'.mode = t.mode /\ tx'.durable = t.durable
           /\ tx'.current = t.current /\ tx'.attempts = t.attempts /\ (tx'.resend => t.resend)
           /\ tx'.start = t.start /\ tx'.dispatched = t.dispatched
           /\ send' \in {NoRequest} \cup Sends /\ send'.at \in {send.at, "none"}
           /\ send'.at # "none" => /\ send'.mode = send.mode /\ send'.epoch = send.epoch
                                   /\ send'.revision = send.revision /\ send'.count = send.count
                                   /\ send'.reply = send.reply
           /\ read' \in {NoRequest} \cup Reads /\ read'.at \in {r.at, "none"}
           /\ read'.at # "none" => read'.kind = r.kind /\ read'.reply = r.reply
           /\ verify' \in BOOLEAN /\ late' \in {late, Orphans} /\ late' \subseteq Wires
<1> USE TypeFacts, TypesNow
<1>1. Orphans \subseteq Wires  BY WireFields DEF Orphans
<1>2. CASE Observes(t, row)
  <2>1. tx' = Observed(t, row)  BY <1>2 DEF ApplyLegacy
  <2>2. /\ tx' \in Txs /\ tx'.mode = t.mode /\ tx'.durable = t.durable
        /\ tx'.current = t.current /\ tx'.attempts = t.attempts /\ (tx'.resend => t.resend)
        /\ tx'.start = t.start /\ tx'.dispatched = t.dispatched
    <3>1. LET u == Observed(t, row) IN
          /\ u \in Txs /\ u.mode = t.mode /\ u.durable = t.durable /\ u.current = t.current
          /\ u.attempts = t.attempts /\ (u.resend => t.resend) /\ u.start = t.start
          /\ u.dispatched = t.dispatched
      BY ObservedFields, Zenon
    <3>2. QED  BY <2>1, <3>1, Zenon
  <2>3. \/ send' = NoRequest /\ read' = NoRequest /\ late' = Orphans
        \/ send' = Carried(send, row) /\ read' = Carried(r, row) /\ late' = late
    BY <1>2 DEF ApplyLegacy
  <2>4. verify' \in BOOLEAN  BY <1>2 DEF ApplyLegacy
  <2>5. QED  BY <1>1, <2>2, <2>3, <2>4, CarriedFacts, NoneFields
<1>3. CASE ~Observes(t, row)
  <2>1. /\ tx' = t /\ send' = Carried(send, row) /\ read' = Carried(r, row)
        /\ verify' = waiting /\ late' = late
    BY <1>3 DEF ApplyLegacy
  <2>2. QED  BY <2>1, CarriedFacts, NoneFields
<1>4. QED  BY <1>2, <1>3

\* A snapshot changes no record, and a plain transaction has none.
LEMMA ObserveDevice ==
    ASSUME GeneratorCompletionAssumption, DeviceInv, tx.mode = "legacy", NEW row \in Rows,
           NEW r \in {NoRequest, read}, NEW waiting \in BOOLEAN, ApplyInputs(row),
           ApplyLegacy(After(tx, row), r, waiting, row),
           UNCHANGED <<storeFault, protocol, journal, server, effects, touched, faultVars>>
    PROVE  DeviceInv'
<1>1. Types  BY DEF DeviceInv
<1> USE TypeFacts, TypesNow, <1>1
<1>2. /\ view' = row.stage /\ view' \in Stages /\ BootReady' /\ awaitResync' = FALSE
      /\ resetCycle' = FALSE /\ stable' \in Counts \cup {Unsettled} /\ bypass' \in BOOLEAN
      /\ context' \in Contexts
  BY SnapshotFacts
<1>3. LET t == After(tx, row) IN
      /\ t \in Txs /\ t.mode = tx.mode /\ t.durable = tx.durable /\ (t.current => tx.current)
      /\ t.attempts = tx.attempts /\ t.resend = tx.resend
  BY AfterFields, Zenon
<1>4. /\ tx' \in Txs /\ tx'.mode = tx.mode /\ tx'.durable = tx.durable
      /\ (tx'.current => tx.current) /\ tx'.attempts = tx.attempts /\ (tx'.resend => tx.resend)
      /\ send' \in {NoRequest} \cup Sends /\ send'.at \in {send.at, "none"}
      /\ send'.at # "none" => send'.mode = send.mode
      /\ read' \in {NoRequest} \cup Reads /\ read'.at \in {r.at, "none"}
      /\ read'.at # "none" => read'.kind = r.kind
      /\ verify' \in BOOLEAN /\ late' \subseteq Wires
  <2> DEFINE t == After(tx, row)
  <2> HIDE DEF t
  <2>1. t \in Txs /\ ApplyLegacy(t, r, waiting, row) /\ r \in {NoRequest} \cup Reads
    BY <1>3 DEF t
  <2>2. /\ tx' \in Txs /\ tx'.mode = t.mode /\ tx'.durable = t.durable
        /\ tx'.current = t.current /\ tx'.attempts = t.attempts /\ (tx'.resend => t.resend)
        /\ send' \in {NoRequest} \cup Sends /\ send'.at \in {send.at, "none"}
        /\ send'.at # "none" => send'.mode = send.mode
        /\ read' \in {NoRequest} \cup Reads /\ read'.at \in {r.at, "none"}
        /\ read'.at # "none" => read'.kind = r.kind
        /\ verify' \in BOOLEAN /\ late' \subseteq Wires
    BY <2>1, ApplyLegacyFacts
  <2>3. /\ t.mode = tx.mode /\ t.durable = tx.durable /\ (t.current => tx.current)
        /\ t.attempts = tx.attempts /\ t.resend = tx.resend
    BY <1>3 DEF t
  <2>4. QED  BY <2>2, <2>3
<1>5. /\ setup' = setup /\ faults' = faults /\ storeFault' = storeFault /\ protocol' = protocol
      /\ journal' = journal /\ server' = server /\ effects' = effects /\ touched' = touched
  BY DEF faultVars
<1>6. Types'  BY <1>2, <1>4, <1>5, TypesNext
<1>7. FlashHeld'  BY <1>4, <1>5 DEF DeviceInv, FlashHeld, Open
<1>8. RequestsOwned' /\ Attempts'
  BY <1>2, <1>4, NoneFields DEF DeviceInv, RequestsOwned, Attempts, Open
<1>9. QED  BY <1>6, <1>7, <1>8 DEF DeviceInv

\* The answers of a plain Send and of its read.
LEMMA LegacyDevice ==
    ASSUME GeneratorCompletionAssumption, DeviceInv, LegacySendResult \/ LegacyVerifyResult
    PROVE  DeviceInv'
<1>1. Types  BY DEF DeviceInv
<1> USE TypeFacts, TypesNow, <1>1
<1>2. Orphans \subseteq Wires  BY WireFields DEF Orphans
<1>3. CASE LegacySendResult
  <2>1. /\ setup' = setup /\ faults' = faults /\ storeFault' = storeFault
        /\ awaitResync' = awaitResync /\ resetCycle' = resetCycle /\ protocol' = protocol
        /\ view' = view /\ stable' = stable /\ bypass' = bypass /\ context' = context
        /\ journal' = journal /\ server' = server /\ effects' = effects /\ touched' = touched
    BY <1>3 DEF LegacySendResult, flagVars, inputVars, faultVars
  <2>2. /\ send \in Sends /\ send.at # "none" /\ send.mode = "legacy" /\ tx.mode = "legacy"
        /\ tx.attempts < MaxAttempts /\ BootReady
    BY <1>3 DEF LegacySendResult, DeviceInv, RequestsOwned, Attempts
  <2>3. /\ send' = NoRequest
        /\ \/ read' = read /\ verify' = verify /\ late' = late
           \/ read' = NoRequest /\ verify' = FALSE /\ late' = Orphans
    BY <1>3 DEF LegacySendResult, RenewToken
  <2>4. \/ tx' = Withdrawn(tx) \/ tx' = NeverSent(tx)
        \/ \E b \in BOOLEAN : tx' = Attempted(tx, b)
    BY <1>3 DEF LegacySendResult
  <2>5. /\ tx' \in Txs /\ tx'.mode = tx.mode /\ tx'.durable = tx.durable /\ tx'.current = tx.current
        /\ (tx'.resend => tx'.attempts < MaxAttempts)
    <3>1. CASE tx' = Withdrawn(tx)  BY <2>2, <3>1, WithdrawnFields
    <3>2. CASE tx' = NeverSent(tx)  BY <2>2, <3>2, NeverSentFields
    <3>3. CASE \E b \in BOOLEAN : tx' = Attempted(tx, b)
      <4>1. PICK b \in BOOLEAN : tx' = Attempted(tx, b)  BY <3>3
      <4>2. LET u == Attempted(tx, b) IN
            /\ u \in Txs /\ u.mode = tx.mode /\ u.durable = tx.durable /\ u.current = tx.current
            /\ u.attempts = tx.attempts + (IF send.dispatched THEN 1 ELSE 0)
            /\ (u.resend <=> IF b THEN tx.attempts + (IF send.dispatched THEN 1 ELSE 0) < MaxAttempts
                             ELSE tx.resend)
        BY <2>2, AttemptedFields, Zenon
      <4>3. ~tx.resend  BY <2>2 DEF DeviceInv, Attempts
      <4>4. QED  BY <4>1, <4>2, <4>3
    <3>4. QED  BY <2>4, <3>1, <3>2, <3>3
  <2>6. Types'  BY <1>2, <2>1, <2>3, <2>5, TypesNext
  <2>7. FlashHeld'  BY <2>1, <2>2, <2>5 DEF DeviceInv, FlashHeld, Open
  <2>8. RequestsOwned' /\ Attempts'
    BY <2>1, <2>2, <2>3, <2>5, NoneFields DEF DeviceInv, RequestsOwned, Attempts, Open, BootReady
  <2>9. QED  BY <2>6, <2>7, <2>8 DEF DeviceInv
<1>4. CASE LegacyVerifyResult
  <2>1. /\ storeFault' = storeFault /\ protocol' = protocol /\ journal' = journal
        /\ server' = server /\ effects' = effects /\ touched' = touched
    BY <1>4 DEF LegacyVerifyResult
  <2>2. read \in Reads /\ read.at # "none" /\ tx.mode = "legacy" /\ BootReady
    BY <1>4 DEF LegacyVerifyResult, DeviceInv, RequestsOwned
  <2>3. CASE Void(read)
    <3>1. /\ setup' = setup /\ faults' = faults /\ tx' = tx /\ send' = send /\ read' = NoRequest
          /\ verify' = FALSE /\ late' = late /\ view' = view /\ stable' = stable /\ bypass' = bypass
          /\ context' = context /\ awaitResync' = awaitResync /\ resetCycle' = resetCycle
      BY <1>4, <2>3 DEF LegacyVerifyResult, inputVars, faultVars
    <3>2. Types'  BY <2>1, <3>1, TypesNext
    <3>3. FlashHeld'  BY <2>1, <3>1 DEF DeviceInv, FlashHeld, Open, Resolved, Intent
    <3>4. RequestsOwned' /\ Attempts'
      BY <3>1, NoneFields DEF DeviceInv, RequestsOwned, Attempts, Open, Resolved, BootReady
    <3>5. QED  BY <3>2, <3>3, <3>4 DEF DeviceInv
  <2>4. CASE ~Void(read)
    <3> DEFINE row == read.reply.row
               t   == After(tx, row)
    <3>1. row \in Rows  BY <2>2, <2>4, ReplyRow DEF Void, Reads
    <3>2. ApplyInputs(row)  BY <1>4, <2>4 DEF LegacyVerifyResult
    <3>3. CASE Observes(t, row) /\ MayResend(t, row)
      <4>1. PICK admitted \in BOOLEAN :
              /\ Queues(admitted) /\ Submit(t, TRUE, admitted)
              /\ tx' = IF admitted THEN Repeated(t) ELSE t
        BY <1>4, <2>4, <3>3 DEF LegacyVerifyResult, Repeated
      <4>2. read' = NoRequest /\ verify' = FALSE /\ late' = late
        BY <1>4, <2>4, <3>3 DEF LegacyVerifyResult
      <4>3. t.resend  BY <3>3 DEF MayResend
      <4> HIDE DEF row
      <4>4. /\ t \in Txs /\ t.mode = tx.mode /\ t.durable = tx.durable /\ (t.current => tx.current)
            /\ t.attempts = tx.attempts /\ t.resend = tx.resend
        BY <3>1, AfterFields, Zenon
      <4> HIDE DEF t
      <4>5. tx.attempts < MaxAttempts  BY <4>3, <4>4 DEF DeviceInv, Attempts
      <4>6. \/ tx' = t /\ send' = NoRequest
            \/ tx' = Repeated(t) /\ send' = Queued(t, TRUE)
        BY <4>1 DEF Submit
      <4>7. /\ Repeated(t) \in Txs /\ Repeated(t).mode = t.mode /\ Repeated(t).durable = t.durable
            /\ Repeated(t).current = t.current /\ Repeated(t).attempts = t.attempts
            /\ ~Repeated(t).resend
        BY <4>4, RepeatedFields
      <4>8. Queued(t, TRUE) \in Sends /\ Queued(t, TRUE).mode = "legacy"
        BY <2>2, <4>4, QueuedFields
      <4>9. /\ tx' \in Txs /\ tx'.mode = "legacy" /\ ~tx'.durable /\ (tx'.current => tx.current)
            /\ tx'.attempts < MaxAttempts
            /\ send' \in {NoRequest} \cup Sends
            /\ send'.at # "none" => send'.mode = "legacy" /\ ~tx'.resend
        <5>1. ~tx.durable  BY <2>2 DEF DeviceInv, FlashHeld
        <5>2. QED  BY <2>2, <4>4, <4>5, <4>6, <4>7, <4>8, <5>1, NoneFields
      <4>10. setup' = setup /\ faults' \in 0 .. MaxFaults
        BY <4>1, CostFacts, SpendFacts DEF Queues
      <4>11. /\ view' \in Stages /\ BootReady' /\ awaitResync' = FALSE /\ resetCycle' = FALSE
             /\ stable' \in Counts \cup {Unsettled} /\ bypass' \in BOOLEAN /\ context' \in Contexts
        BY <3>1, <3>2, SnapshotFacts
      <4>12. Types'  BY <2>1, <4>2, <4>9, <4>10, <4>11, TypesNext
      <4>13. FlashHeld'  BY <2>1, <2>2, <4>9 DEF DeviceInv, FlashHeld, Open
      <4>14. Attempts'  BY <4>9, NoneFields DEF Attempts
      <4>15. RequestsOwned'  BY <4>2, <4>9, <4>11, NoneFields DEF RequestsOwned
      <4>16. QED  BY <4>12, <4>13, <4>14, <4>15 DEF DeviceInv
    <3>4. CASE ~(Observes(t, row) /\ MayResend(t, row))
      <4>1. ApplyLegacy(After(tx, row), NoRequest, FALSE, row) /\ UNCHANGED faultVars
        BY <1>4, <2>4, <3>4 DEF LegacyVerifyResult
      <4> HIDE DEF row
      <4>2. QED  BY <2>1, <2>2, <3>1, <3>2, <4>1, ObserveDevice
    <3>5. QED  BY <3>3, <3>4
  <2>5. QED  BY <2>3, <2>4
<1>5. QED  BY <1>3, <1>4

\* A read that finds server and device between games frees the flash.
LEMMA FaultDevice == ASSUME GeneratorCompletionAssumption, DeviceInv, FaultResult PROVE DeviceInv'
<1>1. Types  BY DEF DeviceInv
<1> USE TypeFacts, TypesNow, SetupFacts, <1>1
<1>2. /\ read' = NoRequest /\ verify' = FALSE /\ send' = send /\ view' = view /\ stable' = stable
      /\ bypass' = bypass /\ server' = server /\ late' = late /\ effects' = effects
      /\ touched' = touched /\ read \in Reads
  BY DEF FaultResult, serverVars
<1>3. CASE ~(storeFault /\ ~Void(read) /\ ~Active(read.reply.row.stage) /\ read.reply.row.stage = view)
  <2>1. /\ setup' = setup /\ faults' = faults /\ storeFault' = storeFault /\ awaitResync' = awaitResync
        /\ resetCycle' = resetCycle /\ protocol' = protocol /\ tx' = tx /\ context' = context
        /\ journal' = journal
    BY <1>3 DEF FaultResult, flagVars, faultVars
  <2>2. Types'  BY <1>2, <2>1, TypesNext
  <2>3. FlashHeld'  BY <2>1 DEF DeviceInv, FlashHeld, Open, Resolved, Intent
  <2>4. RequestsOwned' /\ Attempts'
    BY <1>2, <2>1, NoneFields DEF DeviceInv, RequestsOwned, Attempts, Open, Resolved, BootReady
  <2>5. QED  BY <2>2, <2>3, <2>4 DEF DeviceInv
<1>4. CASE storeFault /\ ~Void(read) /\ ~Active(read.reply.row.stage) /\ read.reply.row.stage = view
  <2>1. FaultErase(read.reply.row)  BY <1>4 DEF FaultResult
  <2>2. read.reply.row \in Rows  BY <1>2, <1>4, ReplyRow DEF Void, Reads
  <2>3. PICK cleared \in BOOLEAN :
        /\ Spend(Cost(cleared)) /\ Erased(TRUE, cleared) /\ protocol' = read.reply.row.protocol
        /\ IF cleared
           THEN /\ storeFault' = FALSE /\ awaitResync' = TRUE /\ resetCycle' = TRUE
                /\ tx' = Forgotten(tx) /\ context' = Worthless(context)
           ELSE UNCHANGED <<storeFault, awaitResync, resetCycle, tx, context>>
    BY <2>1 DEF FaultErase, Forgotten, Worthless
  <2>4. setup' = setup /\ faults' \in 0 .. MaxFaults  BY <2>3, CostFacts, SpendFacts
  <2>5. protocol' \in {0, 1}  BY <2>2, <2>3 DEF Rows
  <2>6. ~Open  BY <1>4 DEF DeviceInv, FlashHeld
  <2>7. CASE cleared
    <3>1. /\ storeFault' = FALSE /\ awaitResync' = TRUE /\ resetCycle' = TRUE
          /\ tx' = Forgotten(tx) /\ context' = Worthless(context) /\ journal' = Empty
      BY <2>3, <2>7 DEF Erased
    <3>2. /\ tx' \in Txs /\ tx'.mode = tx.mode /\ ~tx'.sent /\ ~tx'.durable
          /\ tx'.confirmed = tx.confirmed /\ tx'.attempts = tx.attempts /\ tx'.resend = tx.resend
      BY <3>1, ForgottenFields
    <3>3. context' \in Contexts  BY <3>1, WorthlessFields
    <3>4. Types'  BY <1>2, <2>4, <2>5, <3>1, <3>2, <3>3, TypesNext
    <3>5. FlashHeld'  BY <3>1, <3>2 DEF FlashHeld, Open
    <3>6. RequestsOwned' /\ Attempts'
      BY <1>2, <2>6, <3>1, <3>2, NoneFields DEF DeviceInv, RequestsOwned, Attempts, BootReady
    <3>7. QED  BY <3>4, <3>5, <3>6 DEF DeviceInv
  <2>8. CASE ~cleared
    <3>1. /\ storeFault' = storeFault /\ awaitResync' = awaitResync /\ resetCycle' = resetCycle
          /\ tx' = tx /\ context' = context /\ journal' \in {journal, Empty}
      BY <2>3, <2>8 DEF Erased
    <3>2. Types'  BY <1>2, <2>4, <2>5, <3>1, TypesNext
    <3>3. FlashHeld'  BY <1>4, <2>6, <3>1 DEF DeviceInv, FlashHeld, Open, Resolved
    <3>4. RequestsOwned' /\ Attempts'
      BY <1>2, <2>6, <3>1, NoneFields
      DEF DeviceInv, RequestsOwned, Attempts, Open, Resolved, BootReady
    <3>5. QED  BY <3>2, <3>3, <3>4 DEF DeviceInv
  <2>9. QED  BY <2>7, <2>8
<1>5. QED  BY <1>3, <1>4

\* A full snapshot, a completion of repaired that waits for it included.
LEMMA SnapshotDevice ==
    ASSUME GeneratorCompletionAssumption, DeviceInv, FullSnapshot PROVE DeviceInv'
<1>1. Types  BY DEF DeviceInv
<1> USE TypeFacts, TypesNow, SetupFacts, <1>1
<1>2. /\ ~Busy /\ protocol' = protocol /\ server' = server /\ effects' = effects
      /\ touched' = touched
  BY DEF FullSnapshot
<1>3. CASE tx.mode = "conditional" /\ tx.needsFull /\ server.stage # Target
  <2>1. Resolve(After(tx, server), FALSE) /\ view' = server.stage  BY <1>3 DEF FullSnapshot
  <2>2. view' \in Stages \cup {Unseen}  BY <2>1 DEF Rows
  <2>3. Like(After(tx, server))  BY LikeFacts
  <2>4. QED  BY <1>2, <1>3, <2>1, <2>2, <2>3, ResolveDevice
<1>4. CASE ~(tx.mode = "conditional" /\ tx.needsFull /\ server.stage # Target)
  <2>1. ApplyInputs(server) /\ UNCHANGED <<storeFault, journal, faultVars>>
    BY <1>4 DEF FullSnapshot
  <2>2. CASE tx.mode = "legacy"
    <3>1. ApplyLegacy(After(tx, server), read, verify, server)  BY <1>4, <2>2 DEF FullSnapshot
    <3>2. QED  BY <1>2, <2>1, <2>2, <3>1, ObserveDevice
  <2>3. CASE tx.mode # "legacy"
    <3>1. /\ tx' = Refreshed(After(tx, server)) /\ send' = Carried(send, server)
          /\ read' = Carried(read, server) /\ verify' = verify /\ late' = late
      BY <1>4, <2>3 DEF FullSnapshot, Refreshed
    <3>2. LET t == After(tx, server) IN
          /\ t \in Txs /\ t.mode = tx.mode /\ t.epoch = tx.epoch /\ t.revision = tx.revision
          /\ t.count = tx.count /\ t.sent = tx.sent /\ t.confirmed = tx.confirmed
          /\ t.superseded = tx.superseded /\ t.durable = tx.durable /\ t.resend = tx.resend
          /\ t.attempts = tx.attempts
      BY AfterFields, Zenon
    <3>3. /\ tx' \in Txs /\ tx'.mode = tx.mode /\ tx'.epoch = tx.epoch
          /\ tx'.revision = tx.revision /\ tx'.count = tx.count /\ tx'.sent = tx.sent
          /\ tx'.confirmed = tx.confirmed /\ tx'.superseded = tx.superseded
          /\ tx'.durable = tx.durable /\ tx'.resend = tx.resend
      <4> DEFINE t == After(tx, server)
      <4> HIDE DEF t
      <4>1. LET u == Refreshed(t) IN
            /\ u \in Txs /\ u.mode = t.mode /\ u.epoch = t.epoch /\ u.revision = t.revision
            /\ u.count = t.count /\ u.sent = t.sent /\ u.confirmed = t.confirmed
            /\ u.superseded = t.superseded /\ u.durable = t.durable /\ u.resend = t.resend
        BY <3>2, RefreshedFields DEF t
      <4>2. tx' = Refreshed(t)  BY <3>1 DEF t
      <4>3. QED  BY <3>2, <4>1, <4>2 DEF t
    <3>4. /\ send' \in {NoRequest} \cup Sends /\ send'.at = send.at
          /\ send.at # "none" => /\ send'.mode = send.mode /\ send'.epoch = send.epoch
                                 /\ send'.revision = send.revision /\ send'.count = send.count
          /\ read' \in {NoRequest} \cup Reads /\ read'.at = read.at
          /\ read.at # "none" => read'.kind = read.kind
      BY <3>1, CarriedFacts
    <3>5. /\ view' \in Stages /\ BootReady' /\ awaitResync' = FALSE /\ resetCycle' = FALSE
          /\ stable' \in Counts \cup {Unsettled} /\ bypass' \in BOOLEAN /\ context' \in Contexts
      BY <2>1, SnapshotFacts
    <3>6. /\ setup' = setup /\ faults' = faults /\ storeFault' = storeFault /\ journal' = journal
      BY <2>1 DEF faultVars
    <3>7. Types'  BY <1>2, <3>1, <3>3, <3>4, <3>5, <3>6, TypesNext
    <3>8. FlashHeld'
      BY <2>3, <3>3, <3>6 DEF DeviceInv, FlashHeld, Open, Resolved, Intent
    <3>9. RequestsOwned' /\ Attempts'
      BY <2>3, <3>3, <3>4, <3>5, NoneFields
      DEF DeviceInv, RequestsOwned, Attempts, Open, Resolved
    <3>10. QED  BY <3>7, <3>8, <3>9 DEF DeviceInv
  <2>4. QED  BY <2>2, <2>3
<1>5. QED  BY <1>3, <1>4

\* Every step keeps what the device knows and its flash holds.
LEMMA DeviceNext ==
    ASSUME GeneratorCompletionAssumption, DeviceInv, [Next]_vars PROVE DeviceInv'
<1>1. CASE Next
  <2>1. CASE Answers
    BY <2>1, ConditionalDevice, LegacyDevice, FaultDevice DEF Answers
  <2>2. CASE Service  BY <2>2, ServiceDevice, SnapshotDevice DEF Service
  <2>3. QED  BY <1>1, <2>1, <2>2, QueueDevice, ServerDevice, GameDevice, DeviceDevice DEF Next
<1>2. CASE UNCHANGED vars
  <2>1. /\ Idle /\ send' = send /\ read' = read /\ setup' = setup /\ faults' = faults
        /\ server' = server /\ late' = late /\ effects' = effects /\ touched' = touched
    BY <1>2 DEF vars, Idle, requestVars, serverVars, faultVars
  <2>2. SendMoves /\ ReadMoves /\ WorldMoves
    BY <2>1, TypeFacts DEF DeviceInv, SendMoves, ReadMoves, WorldMoves
  <2>3. QED  BY <2>1, <2>2, QuietDevice
<1>3. QED  BY <1>1, <1>2

\* The device's invariant holds for all counts, bounds and faults.
THEOREM DeviceInvHolds == ASSUME GeneratorCompletionAssumption PROVE Spec => []DeviceInv
<1>1. Init => DeviceInv  BY DeviceInit
<1>2. DeviceInv /\ [Next]_vars => DeviceInv'  BY DeviceNext
<1>3. QED  BY <1>1, <1>2, PTL DEF Spec

\* JournalHeld: an open completion, or one on its way, is always in flash, on any server, with
\* any number of power cuts, flash errors and changes of the protocol.
THEOREM JournalHeldHolds == ASSUME GeneratorCompletionAssumption PROVE Spec => []JournalHeld
<1>1. DeviceInv => JournalHeld
  BY DEF DeviceInv, FlashHeld, RequestsOwned, Open, JournalHeld, Intent
<1>2. QED  BY <1>1, DeviceInvHolds, PTL
-----------------------------------------------------------------------------
(* What the device was told, and what the server did.                      *)

\* How the row moves on, and how the device's context of it is kept or dropped.
RowMoves ==
    \/ server'.epoch = server.epoch /\ server'.revision = server.revision /\ server'.stage = server.stage
    \/ server'.epoch = server.epoch /\ server'.revision = server.revision + 1
    \/ server'.epoch = server.epoch + 1
ContextFades ==
    \/ context'.epoch = 0
    \/ /\ context'.epoch = context.epoch /\ context'.revision = context.revision
       /\ context'.stage = context.stage

\* A row that moved on, or did not move, keeps the context an older one.
LEMMA ContextKeeps ==
    ASSUME GeneratorCompletionAssumption, Types, ContextOld, server' \in Rows, RowMoves, ContextFades
    PROVE  ContextOld'
<1>1. /\ server.epoch \in Nat /\ server.revision \in Nat /\ server'.epoch \in Nat
      /\ server'.revision \in Nat /\ server'.epoch >= 1
      /\ context.epoch \in Nat /\ context.revision \in Nat
  BY TypeFacts, SetupFacts DEF Rows, Contexts, Epochs, Revisions
<1>2. CASE context'.epoch = 0  BY <1>1, <1>2 DEF ContextOld
<1>3. CASE /\ context'.epoch = context.epoch /\ context'.revision = context.revision
           /\ context'.stage = context.stage
  <2>1. CASE /\ server'.epoch = server.epoch /\ server'.revision = server.revision
             /\ server'.stage = server.stage
    BY <1>3, <2>1 DEF ContextOld
  <2>2. CASE server'.epoch = server.epoch /\ server'.revision = server.revision + 1
    BY <1>1, <1>3, <2>2 DEF ContextOld
  <2>3. CASE server'.epoch = server.epoch + 1  BY <1>1, <1>3, <2>3 DEF ContextOld
  <2>4. QED  BY <2>1, <2>2, <2>3 DEF RowMoves
<1>4. QED  BY <1>2, <1>3 DEF ContextFades

\* A step makes no answer true that was not.
LEMMA AnswersKeep ==
    ASSUME AnswersTrue, setup' = setup, server'.stage = Target \/ server.stage # Target \/ touched',
           touched => touched',
           \/ Open' \/ (tx'.mode = "legacy" /\ tx'.current) => Live
           \/ ~SaysTarget(send)' /\ ~SaysTarget(read)',
           SaysTarget(send)' => SaysTarget(send) \/ SaysTarget(read) \/ server'.stage = Target,
           SaysTarget(read)' => SaysTarget(read) \/ server'.stage = Target,
           tx'.confirmed /\ tx'.current =>
               (tx.confirmed /\ tx.current) \/ touched' \/ server'.stage = Target
    PROVE  AnswersTrue'
BY SetupFixed DEF AnswersTrue, Live

\* A step of the worker or of the server.
LEMMA QuietHistory ==
    ASSUME GeneratorCompletionAssumption, Types, HistoryInv, Idle, setup' = setup, server' \in Rows,
           RowMoves, StageEarned', touched => touched',
           server'.stage = Target \/ server.stage # Target \/ touched',
           SaysTarget(send)' => SaysTarget(send) \/ server'.stage = Target,
           SaysTarget(read)' => SaysTarget(read) \/ server'.stage = Target
    PROVE  HistoryInv'
<1>1. tx' = tx /\ context' = context  BY DEF Idle, inputVars
<1>2. ContextOld'
  <2>1. ContextFades  BY <1>1 DEF ContextFades
  <2>2. QED  BY <2>1, ContextKeeps DEF HistoryInv
<1>3. AnswersTrue'
  <2>1. Open' \/ (tx'.mode = "legacy" /\ tx'.current) => Live
    BY <1>1 DEF Live, Open, Resolved
  <2>2. tx'.confirmed /\ tx'.current => tx.confirmed /\ tx.current  BY <1>1
  <2>3. QED  BY <2>1, <2>2, AnswersKeep DEF HistoryInv
<1>4. QED  BY <1>2, <1>3 DEF HistoryInv

\* What the server does leaves its row at the target.
LEMMA HandleHistory ==
    ASSUME GeneratorCompletionAssumption, Types, HistoryInv, setup' = setup, NEW w, Handle(w),
           touched' = touched
    PROVE  /\ RowMoves /\ StageEarned' /\ (server'.stage = Target \/ server.stage # Target)
           /\ (effects' = effects \/ server.stage # Target \/ server.protocol = 0)
<1>1. \/ server' = server /\ effects' = effects
      \/ /\ Applies(w) /\ server'.stage = Target /\ server'.revision = server.revision + 1
         /\ server'.epoch = server.epoch
         /\ effects' = (IF effects = 2 THEN 2 ELSE effects + 1)
  BY HandleFacts
<1>2. CASE server' = server /\ effects' = effects
  BY <1>2, SetupFixed DEF RowMoves, StageEarned, HistoryInv
<1>3. CASE /\ Applies(w) /\ server'.stage = Target /\ server'.revision = server.revision + 1
           /\ server'.epoch = server.epoch
           /\ effects' = (IF effects = 2 THEN 2 ELSE effects + 1)
  <2>1. effects' # 0  BY <1>3, TypeFacts
  <2>2. server.stage # Target \/ server.protocol = 0
    BY <1>3, SetupFacts, TypeFacts DEF Applies
  <2>3. QED  BY <1>3, <2>1, <2>2, SetupFixed DEF RowMoves, StageEarned
<1>4. QED  BY <1>1, <1>2, <1>3

\* The queue says nothing of the row.
LEMMA QueueHistory ==
    ASSUME GeneratorCompletionAssumption, DeviceInv, HistoryInv, Queue PROVE HistoryInv'
<1>1. Types  BY DEF DeviceInv
<1> USE TypeFacts, <1>1
<1>2. /\ Idle /\ setup' = setup /\ server' = server /\ effects' = effects /\ touched' = touched
      /\ read' = read
  BY DEF Queue, SendDiscard, SendDispatch, SendUndelivered, serverVars, faultVars, Spend
<1>3. send \in Sends  BY DEF Queue, SendDiscard, SendDispatch, SendUndelivered
<1>4. ~SaysTarget(send)'
  <2>1. CASE SendDiscard \/ SendUndelivered
    <3>1. PICK k \in {"cancelled", "undelivered"} : send' = Answer(send, [kind |-> k])
      BY <2>1 DEF SendDiscard, SendUndelivered
    <3>2. [kind |-> k] \in Replies /\ [kind |-> k].kind = k  BY ReplyFacts
    <3>3. send'.reply = [kind |-> k]  BY <1>3, <3>1, <3>2, AnswerFields
    <3>4. send'.reply.kind = k  BY <3>2, <3>3
    <3>5. QED  BY <3>4 DEF SaysTarget
  <2>2. CASE SendDispatch
    <3>1. send' = [send EXCEPT !.at = "sent", !.dispatched = TRUE]  BY <2>2 DEF SendDispatch
    <3>2. send'.at = "sent"  BY <1>3, <3>1, DispatchFields
    <3>3. QED  BY <3>2 DEF SaysTarget
  <2>3. QED  BY <2>1, <2>2 DEF Queue
<1>5. RowMoves /\ StageEarned'
  BY <1>2, SetupFixed DEF RowMoves, StageEarned, HistoryInv
<1>6. SaysTarget(read)' => SaysTarget(read)  BY <1>2, SetupFixed DEF SaysTarget
<1>7. QED  BY <1>2, <1>4, <1>5, <1>6, QuietHistory

\* The server answers with its row.
LEMMA ServerHistory ==
    ASSUME GeneratorCompletionAssumption, DeviceInv, HistoryInv, Server PROVE HistoryInv'
<1>1. Types  BY DEF DeviceInv
<1> USE TypeFacts, <1>1
<1>2. (read' = read /\ setup' = setup => (SaysTarget(read)' => SaysTarget(read)))
      /\ (send' = send /\ setup' = setup => (SaysTarget(send)' => SaysTarget(send)))
  BY SetupFixed DEF SaysTarget
<1>3. CASE SendAnswered
  <2>1. /\ send \in Sends /\ Handle(Wire(send)) /\ Idle /\ setup' = setup /\ read' = read
        /\ touched' = touched /\ send' = Answer(send, AnswerOf(Wire(send), server'))
    BY <1>3 DEF SendAnswered, faultVars
  <2>2. server' \in Rows  BY <2>1, HandleFacts
  <2>3. RowMoves /\ StageEarned' /\ (server'.stage = Target \/ server.stage # Target)
    BY <2>1, HandleHistory
  <2>4. SaysTarget(send)' => server'.stage = Target
    <3> DEFINE a == AnswerOf(Wire(send), server')
    <3>1. a \in Replies /\ (a.kind = "row" => a = Row(server'))  BY <2>2, ReplyFacts
    <3>2. send'.reply = a
      <4> HIDE DEF a
      <4>1. send' = Answer(send, a)  BY <2>1 DEF a
      <4>2. QED  BY <2>1, <3>1, <4>1, AnswerFields
    <3>3. Row(server').row = server'  BY <2>2, ReplyFacts
    <3> HIDE DEF a
    <3>4. QED  BY <2>1, <3>1, <3>2, <3>3, SetupFixed DEF SaysTarget
  <2>5. QED  BY <1>2, <2>1, <2>2, <2>3, <2>4, QuietHistory
<1>4. CASE SendAnswerLost \/ SendLost \/ SendLate
  <2>1. /\ send \in Sends /\ Idle /\ setup' = setup /\ read' = read /\ touched' = touched
        /\ send' = Answer(send, [kind |-> "failed"])
        /\ \/ Handle(Wire(send))
           \/ server' = server /\ effects' = effects
    BY <1>4 DEF SendAnswerLost, SendLost, SendLate, Spend, serverVars
  <2>2. server' \in Rows  BY <2>1, HandleFacts
  <2>3. RowMoves /\ StageEarned' /\ (server'.stage = Target \/ server.stage # Target)
    <3>1. CASE Handle(Wire(send))  BY <2>1, <3>1, HandleHistory
    <3>2. CASE server' = server /\ effects' = effects
      BY <2>1, <3>2, SetupFixed DEF RowMoves, StageEarned, HistoryInv
    <3>3. QED  BY <2>1, <3>1, <3>2
  <2>4. ~SaysTarget(send)'
    <3>1. send'.reply.kind = "failed"  BY <2>1, ReplyFacts, AnswerFields
    <3>2. QED  BY <3>1 DEF SaysTarget
  <2>5. QED  BY <1>2, <2>1, <2>2, <2>3, <2>4, QuietHistory
<1>5. CASE ArriveLate
  <2>1. PICK w \in late : /\ Handle(w) /\ late' = late \ {w}
                          /\ UNCHANGED <<requestVars, touched, faultVars, tx, flagVars, inputVars, journal>>
    BY <1>5 DEF ArriveLate
  <2>2. Idle /\ setup' = setup /\ read' = read /\ send' = send /\ touched' = touched
    BY <2>1 DEF Idle, requestVars, faultVars
  <2>3. server' \in Rows  BY <2>1, HandleFacts
  <2>4. RowMoves /\ StageEarned' /\ (server'.stage = Target \/ server.stage # Target)
    BY <2>1, <2>2, HandleHistory
  <2>5. QED  BY <1>2, <2>2, <2>3, <2>4, QuietHistory
<1>6. CASE ReadAnswered \/ ReadLost
  <2>1. /\ read \in Reads /\ Idle /\ setup' = setup /\ send' = send /\ touched' = touched
        /\ server' = server /\ effects' = effects
        /\ \E r \in {Row(server), [kind |-> "cancelled"], [kind |-> "failed"]} : read' = Answer(read, r)
    BY <1>6 DEF ReadAnswered, ReadLost, Spend, serverVars, faultVars
  <2>2. RowMoves /\ StageEarned'
    BY <2>1, SetupFixed DEF RowMoves, StageEarned, HistoryInv
  <2>3. SaysTarget(read)' => server'.stage = Target
    <3>1. PICK r \in {Row(server), [kind |-> "cancelled"], [kind |-> "failed"]} : read' = Answer(read, r)
      BY <2>1
    <3>2. r \in Replies /\ (r.kind = "row" => r = Row(server))  BY ReplyFacts
    <3>3. read'.reply = r  BY <2>1, <3>1, <3>2, AnswerReadFields
    <3>4. Row(server).row = server  BY ReplyFacts
    <3>5. QED  BY <2>1, <3>2, <3>3, <3>4, SetupFixed DEF SaysTarget
  <2>4. QED  BY <1>2, <2>1, <2>2, <2>3, QuietHistory
<1>7. CASE OutsideWrite \/ ServerRestart
  <2>1. /\ Idle /\ setup' = setup /\ send' = send /\ read' = read /\ touched' = TRUE
    BY <1>7 DEF OutsideWrite, ServerRestart, Idle, requestVars, Spend
  <2>2. server' \in Rows  BY ServerDevice, SetupFixed, <2>1 DEF DeviceInv, Types, WorldType
  <2>3. RowMoves /\ (effects' # 0 => server'.stage = Target)
    <3>1. CASE OutsideWrite
      <4>1. PICK stage \in Stages, count \in Counts :
              /\ server' = [server EXCEPT !.stage = stage, !.count = count, !.revision = @ + 1]
              /\ effects' = IF stage = server.stage THEN effects ELSE 0
        BY <3>1 DEF OutsideWrite
      <4>2. server'.epoch = server.epoch /\ server'.revision = server.revision + 1 /\ server'.stage = stage
        BY <4>1 DEF Rows
      <4>3. QED  BY <4>1, <4>2 DEF RowMoves, HistoryInv, StageEarned
    <3>2. CASE ServerRestart
      <4>1. PICK p \in Protocols :
              server' = [server EXCEPT !.epoch = @ + 1, !.revision = 0, !.protocol = p]
        BY <3>2 DEF ServerRestart
      <4>2. server'.epoch = server.epoch + 1 /\ server'.stage = server.stage
        BY <4>1 DEF Rows
      <4>3. effects' = effects  BY <3>2 DEF ServerRestart
      <4>4. QED  BY <4>2, <4>3 DEF RowMoves, HistoryInv, StageEarned
    <3>3. QED  BY <1>7, <3>1, <3>2
  <2>4. StageEarned'  BY <2>1, <2>3, SetupFixed DEF StageEarned
  <2>5. QED  BY <1>2, <2>1, <2>2, <2>3, <2>4, QuietHistory
<1>8. CASE ProtocolChange
  <2>1. /\ Idle /\ setup' = setup /\ send' = send /\ read' = read /\ touched' = touched
        /\ effects' = effects
    BY <1>8 DEF ProtocolChange, Idle, requestVars, Spend
  <2>2. server' \in Rows  BY ServerDevice, SetupFixed, <2>1 DEF DeviceInv, Types, WorldType
  <2>3. PICK p \in Protocols : server' = [server EXCEPT !.protocol = p]
    BY <1>8 DEF ProtocolChange
  <2>4. /\ server'.epoch = server.epoch /\ server'.revision = server.revision
        /\ server'.stage = server.stage
    BY <2>3 DEF Rows
  <2>5. RowMoves /\ StageEarned'
    BY <2>1, <2>4, SetupFixed DEF RowMoves, StageEarned, HistoryInv
  <2>6. QED  BY <1>2, <2>1, <2>2, <2>4, <2>5, QuietHistory
<1>9. QED  BY <1>3, <1>4, <1>5, <1>6, <1>7, <1>8 DEF Server

\* The services ask, and drop nothing that was said.
LEMMA ServiceHistory ==
    ASSUME GeneratorCompletionAssumption, DeviceInv, HistoryInv,
           ServiceVerify \/ ServiceWithdraw \/ FaultRead \/ ProtocolProbe
    PROVE  HistoryInv'
<1>1. Types  BY DEF DeviceInv
<1> USE TypeFacts, <1>1
<1>2. /\ setup' = setup /\ server' = server /\ effects' = effects /\ touched' = touched
      /\ context' = context
  BY DEF ServiceVerify, ServiceWithdraw, FaultRead, ProtocolProbe, inputVars, serverVars, faultVars
<1>3. /\ tx'.mode = tx.mode /\ tx'.current = tx.current /\ tx'.confirmed = tx.confirmed
      /\ (Open' <=> Open)
  <2>1. tx' = tx \/ tx' = Cancelled(tx)
    BY DEF ServiceVerify, ServiceWithdraw, FaultRead, ProtocolProbe, Cancelled
  <2>2. /\ tx'.mode = tx.mode /\ tx'.current = tx.current /\ tx'.confirmed = tx.confirmed
        /\ tx'.sent = tx.sent /\ tx'.superseded = tx.superseded
    BY <2>1, CancelledFields
  <2>3. QED  BY <2>2 DEF Open, Resolved
<1>4. SaysTarget(send)' => SaysTarget(send)
  <2>1. CASE ServiceWithdraw
    <3>1. send \in Sends /\ send' = [send EXCEPT !.cancelled = TRUE]  BY <2>1 DEF ServiceWithdraw
    <3>2. send'.at = send.at /\ send'.reply = send.reply  BY <3>1, CancelFields
    <3>3. QED  BY <1>2, <3>2, SetupFixed DEF SaysTarget
  <2>2. CASE send' = send  BY <1>2, <2>2, SetupFixed DEF SaysTarget
  <2>3. QED  BY <2>1, <2>2 DEF ServiceVerify, FaultRead, ProtocolProbe, requestVars
<1>5. SaysTarget(read)' => SaysTarget(read)
  <2>1. CASE read' = read  BY <1>2, <2>1, SetupFixed DEF SaysTarget
  <2>2. CASE \E k \in {"conditional", "legacy", "fault"} : read' = Asked(k)
    <3>1. read'.at = "queued"  BY <2>2, AskedFields
    <3>2. QED  BY <3>1 DEF SaysTarget
  <2>3. QED
    BY <2>1, <2>2 DEF ServiceVerify, ServiceWithdraw, FaultRead, ProtocolProbe, requestVars
<1>6. ContextOld'
  BY <1>2, ContextKeeps DEF RowMoves, ContextFades, HistoryInv
<1>7. StageEarned'  BY <1>2, SetupFixed DEF StageEarned, HistoryInv
<1>8. AnswersTrue'
  <2>1. Open' \/ (tx'.mode = "legacy" /\ tx'.current) => Live  BY <1>3 DEF Live
  <2>2. server'.stage = Target \/ server.stage # Target  BY <1>2
  <2>3. QED  BY <1>2, <1>3, <1>4, <1>5, <2>1, <2>2, AnswersKeep DEF HistoryInv
<1>9. QED  BY <1>6, <1>7, <1>8 DEF HistoryInv

\* The wire service and the wires; a power cut forgets every answer.
LEMMA DeviceHistory ==
    ASSUME GeneratorCompletionAssumption, DeviceInv, HistoryInv, Device PROVE HistoryInv'
<1>1. Types  BY DEF DeviceInv
<1> USE TypeFacts, TypesNow, <1>1
<1>2. CASE ConfirmContext
  <2>1. /\ setup' = setup /\ effects' = effects /\ touched' = touched
        /\ server'.stage = server.stage /\ server' \in Rows
        /\ context' \in {ContextOf(server', TRUE), ContextOf(server', FALSE)}
        /\ \/ tx' = tx /\ send' = send /\ read' = read
           \/ tx' = NotCurrent(tx) /\ send' = Stale(send) /\ read' = Stale(read)
    BY <1>2, ConfirmFacts
  <2>2. ContextOld'
    <3>1. PICK b \in BOOLEAN : context' = ContextOf(server', b)  BY <2>1
    <3>2. /\ context'.epoch = server'.epoch /\ context'.revision = server'.revision
          /\ context'.stage = server'.stage
      BY <3>1 DEF ContextOf
    <3>3. server'.epoch \in Nat /\ server'.revision \in Nat
      BY <2>1, SetupFacts DEF Rows, Revisions
    <3>4. QED  BY <3>2, <3>3 DEF ContextOld
  <2>3. StageEarned'  BY <2>1, SetupFixed DEF StageEarned, HistoryInv
  <2>4. /\ tx'.mode = tx.mode /\ (tx'.current => tx.current) /\ tx'.confirmed = tx.confirmed
        /\ (Open' <=> Open)
    <3>1. /\ tx'.mode = tx.mode /\ (tx'.current => tx.current) /\ tx'.confirmed = tx.confirmed
          /\ tx'.sent = tx.sent /\ tx'.superseded = tx.superseded
      BY <2>1, NotCurrentFields
    <3>2. QED  BY <3>1 DEF Open, Resolved
  <2>5. (SaysTarget(send)' => SaysTarget(send)) /\ (SaysTarget(read)' => SaysTarget(read))
    <3>1. send'.at = send.at /\ (send.at # "none" => send'.reply = send.reply)
      BY <2>1, StaleFields, NoneFields
    <3>2. read'.at = read.at /\ (read.at # "none" => read'.reply = read.reply)
      BY <2>1, StaleReadFields, NoneFields
    <3>3. QED  BY <2>1, <3>1, <3>2, SetupFixed DEF SaysTarget
  <2>6. AnswersTrue'
    <3>1. Open' \/ (tx'.mode = "legacy" /\ tx'.current) => Live  BY <2>4 DEF Live
    <3>2. server'.stage = Target \/ server.stage # Target  BY <2>1
    <3>3. QED  BY <2>1, <2>4, <2>5, <3>1, <3>2, AnswersKeep DEF HistoryInv
  <2>7. QED  BY <2>2, <2>3, <2>6 DEF HistoryInv
<1>3. CASE Settle \/ Replug
  <2>1. /\ setup' = setup /\ tx' = tx /\ send' = send /\ read' = read /\ context' = context
        /\ server' = server /\ effects' = effects /\ touched' = touched
    BY <1>3 DEF Settle, Replug, requestVars, serverVars, faultVars
  <2>2. ContextOld'  BY <2>1, ContextKeeps DEF RowMoves, ContextFades, HistoryInv
  <2>3. StageEarned'  BY <2>1, SetupFixed DEF StageEarned, HistoryInv
  <2>4. AnswersTrue'
    BY <2>1, SetupFixed DEF AnswersTrue, Live, SaysTarget, Open, Resolved, HistoryInv
  <2>5. QED  BY <2>2, <2>3, <2>4 DEF HistoryInv
<1>4. CASE Crash \/ OfflineRestart
  <2>1. PICK j : Reboot(j)  BY <1>4 DEF Crash, OfflineRestart
  <2>2. /\ setup' = setup /\ tx' = Loaded(j) /\ send' = NoRequest /\ read' = NoRequest
        /\ context' = NoContext /\ server' = server /\ effects' = effects /\ touched' = touched
    BY <1>4, <2>1 DEF Crash, OfflineRestart, Reboot, RenewToken, Spend
  <2>3. ContextOld'
    <3>1. context'.epoch = 0  BY <2>2 DEF NoContext
    <3>2. QED  BY <2>2, <3>1, ContextKeeps DEF RowMoves, ContextFades, HistoryInv
  <2>4. StageEarned'  BY <2>2, SetupFixed DEF StageEarned, HistoryInv
  <2>5. AnswersTrue'
    <3>1. ~tx'.confirmed  BY <2>2 DEF Loaded, NoTransaction
    <3>2. ~SaysTarget(send)' /\ ~SaysTarget(read)'  BY <2>2 DEF SaysTarget, NoRequest
    <3>3. QED  BY <3>1, <3>2 DEF AnswersTrue
  <2>6. QED  BY <2>3, <2>4, <2>5 DEF HistoryInv
<1>5. QED  BY <1>2, <1>3, <1>4 DEF Device

\* A transaction begins from the row as it is, or others have written it since.
LEMMA GameHistory ==
    ASSUME GeneratorCompletionAssumption, DeviceInv, HistoryInv, Game PROVE HistoryInv'
<1>1. Types  BY DEF DeviceInv
<1> USE TypeFacts, TypesNow, SetupFacts, <1>1
<1>2. /\ setup' = setup /\ context' = context /\ server' = server /\ effects' = effects
  BY DEF Game, BeginLegacy, ContinueLegacy, BeginConditional, Queues, Spend, SaveFails, faultVars,
         inputVars, serverVars
<1>3. ContextOld'  BY <1>2, ContextKeeps DEF RowMoves, ContextFades, HistoryInv
<1>4. CASE BeginLegacy
  <2>1. PICK admitted \in BOOLEAN : LegacySubmit(BeganLegacy, admitted)
    BY <1>4 DEF BeginLegacy, BeganLegacy
  <2>2. BootReady /\ view = StartStage /\ read' = NoRequest /\ touched' = (server.stage # view)
    BY <1>4 DEF BeginLegacy, MayBegin, Gate
  <2>3. ~tx'.confirmed /\ (send' = NoRequest \/ send'.at = "queued")
    <3>1. BeganLegacy \in Txs /\ BeganLegacy.mode = "legacy" /\ ~BeganLegacy.confirmed
      BY <2>2, BeginningFields
    <3>2. /\ tx'.confirmed = BeganLegacy.confirmed
          /\ send' = NoRequest \/ send'.at = "queued"
      BY <2>1, <2>2, <3>1, LegacySubmitFacts
    <3>3. QED  BY <3>1, <3>2
  <2>4. StageEarned'
    <3>1. /\ effects # 0 => server.stage = Target
          /\ ~touched' => server.stage = StartStage
      BY <2>2 DEF HistoryInv, StageEarned
    <3>2. StartStage # Target  BY DEF StartStage
    <3>3. QED  BY <1>2, <3>1, <3>2, SetupFixed DEF StageEarned
  <2>5. AnswersTrue'  BY <2>2, <2>3 DEF AnswersTrue, SaysTarget, NoRequest
  <2>6. QED  BY <1>3, <2>4, <2>5 DEF HistoryInv
<1>5. CASE ContinueLegacy
  <2>1. PICK admitted \in BOOLEAN : LegacySubmit(tx, admitted)
    BY <1>5 DEF ContinueLegacy
  <2>2. BootReady /\ tx.mode = "legacy" /\ tx.current /\ read' = read /\ touched' = touched
    BY <1>5 DEF ContinueLegacy, Gate, serverVars
  <2>3. tx'.confirmed = tx.confirmed /\ tx'.current = tx.current /\ (send' = NoRequest \/ send'.at = "queued")
    BY <2>1, <2>2, LegacySubmitFacts
  <2>4. StageEarned'  BY <1>2, <2>2, SetupFixed DEF StageEarned, HistoryInv
  <2>5. AnswersTrue'
    <3>1. Live  BY <2>2 DEF Live
    <3>2. ~SaysTarget(send)'  BY <2>3 DEF SaysTarget, NoRequest
    <3>3. SaysTarget(read)' => SaysTarget(read)  BY <1>2, <2>2, SetupFixed DEF SaysTarget
    <3>4. QED  BY <1>2, <2>2, <2>3, <3>1, <3>2, <3>3, AnswersKeep DEF HistoryInv
  <2>6. QED  BY <1>3, <2>4, <2>5 DEF HistoryInv
<1>6. CASE BeginConditional
  <2>1. /\ MayBegin /\ context.stage = StartStage
        /\ touched' = ([epoch |-> context.epoch, revision |-> context.revision]
                          # [epoch |-> server.epoch, revision |-> server.revision])
    BY <1>6 DEF BeginConditional
  <2>2. touched' \/ (context.epoch = server.epoch /\ context.revision = server.revision)
    BY <2>1
  <2>3. touched' \/ server.stage # Target  BY <2>1, <2>2 DEF HistoryInv, ContextOld
  <2>4. StageEarned'  BY <1>2, <2>3, SetupFixed DEF StageEarned, HistoryInv
  <2>5. AnswersTrue'
    <3>1. CASE tx' = tx /\ send' = send /\ read' = read
      <4>1. ~Live /\ ~(tx.confirmed /\ tx.current)
        <5>1. ~Open /\ ~(tx.mode = "legacy" /\ tx.current)
          BY <2>1 DEF MayBegin, Pending, Open
        <5>2. ~(tx.mode = "conditional" /\ tx.confirmed /\ tx.current)
          BY <2>1 DEF MayBegin
        <5>3. tx.mode \in {"none", "conditional", "legacy"}  BY DEF Txs
        <5>4. tx.mode = "none" => ~tx.confirmed  BY DEF DeviceInv, RequestsOwned
        <5>5. QED  BY <5>1, <5>2, <5>3, <5>4 DEF Live
      <4>2. ~Live' /\ ~(tx'.confirmed /\ tx'.current)
        BY <3>1, <4>1 DEF Live, Open, Resolved
      <4>3. QED  BY <4>2 DEF AnswersTrue
    <3>2. CASE tx' = Began /\ read' = NoRequest /\ (send' = NoRequest \/ send' = Queued(Began, FALSE))
      <4>1. BootReady  BY <2>1 DEF MayBegin, Gate
      <4>2. Began \in Txs /\ Began.mode = "conditional" /\ ~Began.confirmed
        BY <4>1, BeginningFields
      <4>3. send' = NoRequest \/ send'.at = "queued"
        <5>1. Queued(Began, FALSE).at = "queued"  BY <4>2, QueuedFields, Zenon
        <5>2. QED  BY <3>2, <5>1
      <4>4. ~tx'.confirmed  BY <3>2, <4>2
      <4>5. QED  BY <3>2, <4>3, <4>4 DEF AnswersTrue, SaysTarget, NoRequest
    <3>3. QED  BY <1>6, <3>1, <3>2 DEF BeginConditional, Submit, requestVars
  <2>6. QED  BY <1>3, <2>4, <2>5 DEF HistoryInv
<1>7. QED  BY <1>4, <1>5, <1>6 DEF Game

\* What is left of a settled answer: nobody asks, and nothing new is taken for done.
LEMMA SettledHistory ==
    ASSUME GeneratorCompletionAssumption, Types, HistoryInv, setup' = setup,
           UNCHANGED <<server, effects, touched>>, ContextFades,
           send'.at # "done", read'.at # "done",
           tx'.confirmed /\ tx'.current => touched \/ server.stage = Target
    PROVE  HistoryInv'
<1> USE TypeFacts
<1>1. ContextOld'  BY ContextKeeps DEF RowMoves, HistoryInv
<1>2. StageEarned'  BY SetupFixed DEF StageEarned, HistoryInv
<1>3. AnswersTrue'  BY SetupFixed DEF AnswersTrue, SaysTarget
<1>4. QED  BY <1>1, <1>2, <1>3 DEF HistoryInv

\* The answers of an open intent: only the target confirms it.
LEMMA JudgeHistory ==
    ASSUME GeneratorCompletionAssumption, DeviceInv, HistoryInv, Open, BootReady, NEW t, Like(t),
           NEW row \in Rows, NEW mutation \in BOOLEAN, Judge(t, row, mutation),
           UNCHANGED <<server, effects, touched>>,
           row.stage = Target => touched \/ server.stage = Target
    PROVE  HistoryInv'
<1>1. Types /\ t \in Txs /\ ~t.confirmed /\ t.durable /\ t.mode = "conditional"
  BY DEF DeviceInv, FlashHeld, Like, Open, Resolved
<1> USE TypeFacts, TypesNow, <1>1
<1>2. NoRequest.at = "none"  BY NoneFields
<1>3. ASSUME NEW u, Like(u), Keep(u) PROVE HistoryInv'
  <2>1. /\ setup' = setup /\ tx' = u /\ send' = NoRequest /\ read' = NoRequest
        /\ context' = context
    BY <1>3 DEF Keep, inputVars, faultVars
  <2>2. ~u.confirmed  BY <1>3 DEF Like, Open, Resolved
  <2>3. ContextFades  BY <2>1 DEF ContextFades
  <2>4. QED  BY <1>2, <2>1, <2>2, <2>3, SettledHistory
<1>4. ASSUME NEW u, Like(u), NEW c \in BOOLEAN, Resolve(u, c),
             c => touched \/ server.stage = Target
      PROVE  HistoryInv'
  <2>1. u \in Txs  BY <1>4 DEF Like
  <2>2. /\ setup' = setup /\ tx'.confirmed = c /\ send' = NoRequest /\ read' = NoRequest
        /\ context'.epoch = context.epoch /\ context'.revision = context.revision
        /\ context'.stage = context.stage
    BY <1>4, <2>1, ResolveFacts
  <2>3. ContextFades  BY <2>2 DEF ContextFades
  <2>4. QED  BY <1>2, <1>4, <2>2, <2>3, SettledHistory
<1>5. CASE JudgeSettled(t, row)
  <2> DEFINE c == Confirms(t, row)
             u == IF c /\ t.restored THEN Revived(t) ELSE t
  <2>1. c \in BOOLEAN  BY DEF Confirms, Active
  <2>2. Resolve(u, c)  BY <1>5 DEF JudgeSettled, Revived
  <2>3. c => touched \/ server.stage = Target  BY DEF Confirms
  <2>4. Like(u)  BY LikeFacts
  <2> HIDE DEF c, u
  <2>5. QED  BY <1>4, <2>1, <2>2, <2>3, <2>4
<1>6. Like(Bind(t))  BY LikeFacts
<1>7. CASE Downgrade(Bind(t))
  <2>1. Bind(t) \in Txs /\ ~Bind(t).confirmed /\ Bind(t).durable /\ Bind(t).mode = "conditional"
    BY <1>6 DEF Like, DeviceInv, FlashHeld, Open, Resolved
  <2>2. /\ setup' = setup /\ read' = NoRequest /\ context' = context
        /\ tx'.confirmed = Bind(t).confirmed
        /\ send' = NoRequest \/ send'.at = "queued"
    BY <1>7, <2>1, DowngradeFacts
  <2>3. ContextFades  BY <2>2 DEF ContextFades
  <2>4. QED  BY <1>2, <2>1, <2>2, <2>3, SettledHistory
<1>8. CASE Resend(Bind(t))
  <2>1. PICK admitted \in BOOLEAN : Queues(admitted) /\ Submit(Bind(t), FALSE, admitted)
    BY <1>8 DEF Resend
  <2>2. setup' = setup  BY <2>1, CostFacts, SpendFacts DEF Queues
  <2>3. tx' = Bind(t) /\ read' = NoRequest /\ context' = context
    BY <1>8 DEF Resend, inputVars
  <2>4. Bind(t) \in Txs /\ ~Bind(t).confirmed /\ Bind(t).mode = "conditional"
    BY <1>6 DEF Like, Open, Resolved
  <2>5. send' = NoRequest \/ send'.at = "queued"  BY <2>1, <2>4, QueuedFields DEF Submit
  <2>6. ContextFades  BY <2>3 DEF ContextFades
  <2>7. QED  BY <1>2, <2>2, <2>3, <2>4, <2>5, <2>6, SettledHistory
<1>9. CASE Keep(t) \/ Keep(Bind(t))  BY <1>3, <1>6, <1>9
<1>10. CASE Resolve(t, FALSE)  BY <1>4, <1>10
<1>11. QED  BY <1>5, <1>7, <1>8, <1>9, <1>10 DEF Judge

\* The answers of a conditional transaction.
LEMMA ConditionalHistory ==
    ASSUME GeneratorCompletionAssumption, DeviceInv, HistoryInv,
           ConditionalSendResult \/ ConditionalVerifyResult
    PROVE  HistoryInv'
<1>1. Types  BY DEF DeviceInv
<1> USE TypeFacts, TypesNow, <1>1
<1>2. ASSUME Open, BootReady, NEW t, Like(t), Keep(t), UNCHANGED <<server, effects, touched>>
      PROVE  HistoryInv'
  <2>1. /\ setup' = setup /\ tx' = t /\ send' = NoRequest /\ read' = NoRequest
        /\ context' = context /\ server' = server /\ effects' = effects /\ touched' = touched
    BY <1>2 DEF Keep, inputVars, faultVars
  <2>2. ~t.confirmed  BY <1>2 DEF Like, Open, Resolved
  <2>3. ContextFades  BY <2>1 DEF ContextFades
  <2>4. QED  BY <2>1, <2>2, <2>3, NoneFields, SettledHistory
<1>3. Open => Live  BY DEF Live
<1>4. CASE ConditionalSendResult
  <2>1. send.at = "done" /\ send.mode = "conditional" /\ UNCHANGED <<server, effects, touched>>
    BY <1>4 DEF ConditionalSendResult
  <2>2. send \in Sends /\ Open /\ BootReady /\ Like(Answering(tx))
    BY <2>1, LikeFacts DEF DeviceInv, RequestsOwned
  <2>3. CASE Void(send)
    <3>1. Keep(Answering(tx))  BY <1>4, <2>3 DEF ConditionalSendResult, Answering
    <3>2. QED  BY <1>2, <2>1, <2>2, <3>1
  <2>4. CASE ~Void(send)
    <3>1. Judge(Answering(tx), send.reply.row, TRUE)
      BY <1>4, <2>4 DEF ConditionalSendResult, Answering
    <3>2. send.reply.kind = "row" /\ send.reply.row \in Rows
      BY <2>2, <2>4, ReplyRow DEF Void, Sends
    <3>3. send.reply.row.stage = Target => touched \/ server.stage = Target
      BY <1>3, <2>1, <2>2, <3>2 DEF HistoryInv, AnswersTrue, SaysTarget
    <3>4. QED  BY <2>1, <2>2, <3>1, <3>2, <3>3, JudgeHistory
  <2>5. QED  BY <2>3, <2>4
<1>5. CASE ConditionalVerifyResult
  <2>1. read.at = "done" /\ read.kind = "conditional" /\ UNCHANGED <<server, effects, touched>>
    BY <1>5 DEF ConditionalVerifyResult
  <2>2. read \in Reads /\ Open /\ BootReady /\ Like(tx)
    BY <2>1, LikeFacts DEF DeviceInv, RequestsOwned
  <2>3. CASE Void(read)
    <3>1. Keep(tx)  BY <1>5, <2>3 DEF ConditionalVerifyResult
    <3>2. QED  BY <1>2, <2>1, <2>2, <3>1
  <2>4. CASE ~Void(read)
    <3>1. Judge(tx, read.reply.row, FALSE)  BY <1>5, <2>4 DEF ConditionalVerifyResult
    <3>2. read.reply.kind = "row" /\ read.reply.row \in Rows
      BY <2>2, <2>4, ReplyRow DEF Void, Reads
    <3>3. read.reply.row.stage = Target => touched \/ server.stage = Target
      BY <1>3, <2>1, <2>2, <3>2 DEF HistoryInv, AnswersTrue, SaysTarget
    <3>4. QED  BY <2>1, <2>2, <3>1, <3>2, <3>3, JudgeHistory
  <2>5. QED  BY <2>3, <2>4
<1>6. QED  BY <1>4, <1>5

\* A plain transaction sees a row that was read while it was there.
LEMMA ObserveHistory ==
    ASSUME GeneratorCompletionAssumption, DeviceInv, HistoryInv, tx.mode = "legacy", NEW row \in Rows,
           NEW r \in {NoRequest, read}, NEW waiting \in BOOLEAN, ApplyInputs(row),
           ApplyLegacy(After(tx, row), r, waiting, row),
           UNCHANGED <<server, effects, touched, faultVars>>,
           row.stage = Target /\ tx.current => touched \/ server.stage = Target
    PROVE  HistoryInv'
<1>1. Types  BY DEF DeviceInv
<1> USE TypeFacts, TypesNow, <1>1
<1>2. setup' = setup /\ server' = server /\ effects' = effects /\ touched' = touched
  BY DEF faultVars
<1>3. ContextFades
  <2>1. context' \in {context, Worthless(context)}  BY SnapshotFacts
  <2>2. QED  BY <2>1, WorthlessFields DEF ContextFades
<1>4. ContextOld'  BY <1>2, <1>3, ContextKeeps DEF RowMoves, HistoryInv
<1>5. StageEarned'  BY <1>2, SetupFixed DEF StageEarned, HistoryInv
<1> DEFINE t == After(tx, row)
<1>6. t \in Txs /\ t.mode = "legacy" /\ (t.current => tx.current) /\ t.confirmed = tx.confirmed
  BY AfterFields, Zenon
<1>7. ApplyLegacy(t, r, waiting, row)  OBVIOUS
<1> HIDE DEF t
<1>8. /\ tx'.mode = "legacy" /\ tx'.current = t.current
      /\ send'.at \in {send.at, "none"} /\ (send'.at # "none" => send'.reply = send.reply)
      /\ read'.at \in {read.at, "none"} /\ (read'.at # "none" => read'.reply = read.reply)
  <2>1. r \in {NoRequest} \cup Reads  OBVIOUS
  <2>2. /\ tx'.mode = t.mode /\ tx'.current = t.current
        /\ send'.at \in {send.at, "none"} /\ (send'.at # "none" => send'.reply = send.reply)
        /\ read'.at \in {r.at, "none"} /\ (read'.at # "none" => read'.reply = r.reply)
    BY <1>6, <1>7, <2>1, ApplyLegacyFacts
  <2>3. QED  BY <1>6, <2>2, NoneFields
<1>9. tx'.confirmed => tx.confirmed \/ row.stage = Target
  <2>1. CASE Observes(t, row)
    <3>1. tx' = Observed(t, row)  BY <1>7, <2>1 DEF ApplyLegacy
    <3>2. Observed(t, row).confirmed <=> SeenDone(t, row)  BY <1>6, ObservedFields, Zenon
    <3>3. QED  BY <1>6, <3>1, <3>2 DEF SeenDone
  <2>2. CASE ~Observes(t, row)  BY <1>6, <1>7, <2>2 DEF ApplyLegacy
  <2>3. QED  BY <2>1, <2>2
<1>10. (SaysTarget(send)' => SaysTarget(send)) /\ (SaysTarget(read)' => SaysTarget(read))
  BY <1>2, <1>8, SetupFixed DEF SaysTarget
<1>11. AnswersTrue'
  <2>1. Open' \/ (tx'.mode = "legacy" /\ tx'.current) => Live  BY <1>6, <1>8 DEF Live, Open
  <2>2. tx'.confirmed /\ tx'.current =>
          (tx.confirmed /\ tx.current) \/ touched' \/ server'.stage = Target
    BY <1>2, <1>6, <1>8, <1>9
  <2>3. server'.stage = Target \/ server.stage # Target  BY <1>2
  <2>4. QED  BY <1>2, <1>10, <2>1, <2>2, <2>3, AnswersKeep DEF HistoryInv
<1>12. QED  BY <1>4, <1>5, <1>11 DEF HistoryInv

\* The answers of a plain Send and of its read.
LEMMA LegacyHistory ==
    ASSUME GeneratorCompletionAssumption, DeviceInv, HistoryInv,
           LegacySendResult \/ LegacyVerifyResult
    PROVE  HistoryInv'
<1>1. Types  BY DEF DeviceInv
<1> USE TypeFacts, TypesNow, <1>1
<1>2. CASE LegacySendResult
  <2>1. /\ setup' = setup /\ context' = context /\ server' = server /\ effects' = effects
        /\ touched' = touched
    BY <1>2 DEF LegacySendResult, flagVars, inputVars, faultVars
  <2>2. send \in Sends /\ send.at # "none" /\ tx.mode = "legacy" /\ tx.attempts < MaxAttempts
    BY <1>2 DEF LegacySendResult, DeviceInv, RequestsOwned, Attempts
  <2>3. send' = NoRequest /\ read' \in {read, NoRequest}
    BY <1>2 DEF LegacySendResult, RenewToken
  <2>4. \/ tx' = Withdrawn(tx) \/ tx' = NeverSent(tx)
        \/ \E b \in BOOLEAN : tx' = Attempted(tx, b)
    BY <1>2 DEF LegacySendResult
  <2>5. tx'.mode = tx.mode /\ tx'.current = tx.current /\ tx'.confirmed = tx.confirmed
    <3>1. CASE tx' = Withdrawn(tx)  BY <3>1, WithdrawnFields
    <3>2. CASE tx' = NeverSent(tx)  BY <3>2, NeverSentFields
    <3>3. CASE \E b \in BOOLEAN : tx' = Attempted(tx, b)
      <4>1. PICK b \in BOOLEAN : tx' = Attempted(tx, b)  BY <3>3
      <4>2. LET u == Attempted(tx, b) IN
            u.mode = tx.mode /\ u.current = tx.current /\ u.confirmed = tx.confirmed
        BY <2>2, AttemptedFields, Zenon
      <4>3. QED  BY <4>1, <4>2
    <3>4. QED  BY <2>4, <3>1, <3>2, <3>3
  <2>6. ContextOld'  BY <2>1, ContextKeeps DEF RowMoves, ContextFades, HistoryInv
  <2>7. StageEarned'  BY <2>1, SetupFixed DEF StageEarned, HistoryInv
  <2>8. ~SaysTarget(send)' /\ (SaysTarget(read)' => SaysTarget(read))
    BY <2>1, <2>3, SetupFixed DEF SaysTarget, NoRequest
  <2>9. Open' \/ (tx'.mode = "legacy" /\ tx'.current) => Live
    BY <2>2, <2>5 DEF Live, Open
  <2>10. server'.stage = Target \/ server.stage # Target  BY <2>1
  <2>11. AnswersTrue'
    BY <2>1, <2>5, <2>8, <2>9, <2>10, AnswersKeep DEF HistoryInv
  <2>12. QED  BY <2>6, <2>7, <2>11 DEF HistoryInv
<1>3. CASE LegacyVerifyResult
  <2>1. server' = server /\ effects' = effects /\ touched' = touched
    BY <1>3 DEF LegacyVerifyResult
  <2>2. read \in Reads /\ read.at = "done" /\ tx.mode = "legacy"
    BY <1>3 DEF LegacyVerifyResult, DeviceInv, RequestsOwned
  <2>3. CASE Void(read)
    <3>1. /\ setup' = setup /\ tx' = tx /\ send' = send /\ read' = NoRequest /\ context' = context
      BY <1>3, <2>3 DEF LegacyVerifyResult, inputVars, faultVars
    <3>2. ContextOld'  BY <2>1, <3>1, ContextKeeps DEF RowMoves, ContextFades, HistoryInv
    <3>3. StageEarned'  BY <2>1, <3>1, SetupFixed DEF StageEarned, HistoryInv
    <3>4. (SaysTarget(send)' => SaysTarget(send)) /\ ~SaysTarget(read)'
      BY <3>1, SetupFixed DEF SaysTarget, NoRequest
    <3>5. Open' \/ (tx'.mode = "legacy" /\ tx'.current) => Live
      BY <3>1 DEF Live, Open, Resolved
    <3>6. server'.stage = Target \/ server.stage # Target  BY <2>1
    <3>7. AnswersTrue'
      BY <2>1, <3>1, <3>4, <3>5, <3>6, AnswersKeep DEF HistoryInv
    <3>8. QED  BY <3>2, <3>3, <3>7 DEF HistoryInv
  <2>4. CASE ~Void(read)
    <3> DEFINE row == read.reply.row
               t   == After(tx, row)
    <3>1. row \in Rows /\ read.reply.kind = "row"  BY <2>2, <2>4, ReplyRow DEF Void, Reads
    <3>2. ApplyInputs(row)  BY <1>3, <2>4 DEF LegacyVerifyResult
    <3>3. row.stage = Target /\ tx.current => touched \/ server.stage = Target
      BY <2>2, <3>1 DEF HistoryInv, AnswersTrue, SaysTarget, Live
    <3>4. CASE Observes(t, row) /\ MayResend(t, row)
      <4>1. PICK admitted \in BOOLEAN :
              /\ Queues(admitted) /\ Submit(t, TRUE, admitted)
              /\ tx' = IF admitted THEN Repeated(t) ELSE t
        BY <1>3, <2>4, <3>4 DEF LegacyVerifyResult, Repeated
      <4>2. read' = NoRequest  BY <1>3, <2>4, <3>4 DEF LegacyVerifyResult
      <4>3. ~t.confirmed  BY <3>4 DEF MayResend
      <4>4. \/ tx' = t /\ send' = NoRequest
            \/ tx' = Repeated(t) /\ send' = Queued(t, TRUE)
        BY <4>1 DEF Submit
      <4> HIDE DEF row
      <4>5. t \in Txs /\ t.mode = "legacy"  BY <2>2, <3>1, AfterFields, Zenon
      <4> HIDE DEF t
      <4>6. Repeated(t).confirmed = t.confirmed  BY <4>5, RepeatedFields
      <4>7. Queued(t, TRUE).at = "queued"  BY <4>5, QueuedFields, Zenon
      <4>8. ~tx'.confirmed /\ send'.at # "done" /\ read'.at # "done"
        BY <4>2, <4>3, <4>4, <4>6, <4>7, NoneFields
      <4>9. setup' = setup  BY <4>1, CostFacts, SpendFacts DEF Queues
      <4>10. ContextFades
        <5>1. context' \in {context, Worthless(context)}  BY <3>1, <3>2, SnapshotFacts
        <5>2. QED  BY <5>1, WorthlessFields DEF ContextFades
      <4>11. QED  BY <2>1, <4>8, <4>9, <4>10, SettledHistory
    <3>5. CASE ~(Observes(t, row) /\ MayResend(t, row))
      <4>1. ApplyLegacy(After(tx, row), NoRequest, FALSE, row) /\ UNCHANGED faultVars
        BY <1>3, <2>4, <3>5 DEF LegacyVerifyResult
      <4> HIDE DEF row
      <4>2. QED  BY <2>1, <2>2, <3>1, <3>2, <3>3, <4>1, ObserveHistory
    <3>6. QED  BY <3>4, <3>5
  <2>5. QED  BY <2>3, <2>4
<1>4. QED  BY <1>2, <1>3

\* A full snapshot shows the row as it is.
LEMMA SnapshotHistory ==
    ASSUME GeneratorCompletionAssumption, DeviceInv, HistoryInv, FullSnapshot PROVE HistoryInv'
<1>1. Types  BY DEF DeviceInv
<1> USE TypeFacts, TypesNow, SetupFacts, <1>1
<1>2. server' = server /\ effects' = effects /\ touched' = touched
  BY DEF FullSnapshot
<1>3. CASE tx.mode = "conditional" /\ tx.needsFull /\ server.stage # Target
  <2>1. Resolve(After(tx, server), FALSE) /\ After(tx, server) \in Txs
    BY <1>3, AfterFields DEF FullSnapshot
  <2>2. /\ setup' = setup /\ ~tx'.confirmed /\ send' = NoRequest /\ read' = NoRequest
        /\ context'.epoch = context.epoch /\ context'.revision = context.revision
        /\ context'.stage = context.stage
    BY <2>1, ResolveFacts
  <2>3. ContextFades  BY <2>2 DEF ContextFades
  <2>4. QED  BY <1>2, <2>2, <2>3, NoneFields, SettledHistory
<1>4. CASE ~(tx.mode = "conditional" /\ tx.needsFull /\ server.stage # Target)
  <2>1. ApplyInputs(server) /\ UNCHANGED faultVars  BY <1>4 DEF FullSnapshot
  <2>2. CASE tx.mode = "legacy"
    <3>1. ApplyLegacy(After(tx, server), read, verify, server)  BY <1>4, <2>2 DEF FullSnapshot
    <3>2. QED  BY <1>2, <2>1, <2>2, <3>1, ObserveHistory
  <2>3. CASE tx.mode # "legacy"
    <3>1. /\ tx' = Refreshed(After(tx, server)) /\ send' = Carried(send, server)
          /\ read' = Carried(read, server) /\ setup' = setup
      BY <1>4, <2>1, <2>3 DEF FullSnapshot, Refreshed, faultVars
    <3>2. /\ tx'.mode = tx.mode /\ tx'.sent = tx.sent /\ tx'.confirmed = tx.confirmed
          /\ tx'.superseded = tx.superseded /\ (tx'.current => tx.current)
      <4> DEFINE t == After(tx, server)
      <4>1. /\ t \in Txs /\ t.mode = tx.mode /\ t.sent = tx.sent /\ t.confirmed = tx.confirmed
            /\ t.superseded = tx.superseded /\ (t.current => tx.current)
        BY AfterFields, Zenon
      <4> HIDE DEF t
      <4>2. LET u == Refreshed(t) IN
            /\ u.mode = t.mode /\ u.sent = t.sent /\ u.confirmed = t.confirmed
            /\ u.superseded = t.superseded /\ u.current = t.current
        BY <4>1, RefreshedFields
      <4>3. tx' = Refreshed(t)  BY <3>1 DEF t
      <4>4. QED  BY <4>1, <4>2, <4>3
    <3>3. /\ send'.at = send.at /\ (send.at # "none" => send'.reply = send.reply)
          /\ read'.at = read.at /\ (read.at # "none" => read'.reply = read.reply)
      BY <3>1, CarriedFacts
    <3>4. (SaysTarget(send)' => SaysTarget(send)) /\ (SaysTarget(read)' => SaysTarget(read))
      BY <3>1, <3>3, SetupFixed DEF SaysTarget
    <3>5. ContextFades
      <4>1. context' \in {context, Worthless(context)}  BY <2>1, SnapshotFacts
      <4>2. QED  BY <4>1, WorthlessFields DEF ContextFades
    <3>6. ContextOld'  BY <1>2, <3>5, ContextKeeps DEF RowMoves, HistoryInv
    <3>7. StageEarned'  BY <1>2, <3>1, SetupFixed DEF StageEarned, HistoryInv
    <3>8. Open' \/ (tx'.mode = "legacy" /\ tx'.current) => Live
      BY <3>2 DEF Live, Open, Resolved
    <3>9. server'.stage = Target \/ server.stage # Target  BY <1>2
    <3>10. AnswersTrue'
      BY <1>2, <3>1, <3>2, <3>4, <3>8, <3>9, AnswersKeep DEF HistoryInv
    <3>11. QED  BY <3>6, <3>7, <3>10 DEF HistoryInv
  <2>4. QED  BY <2>2, <2>3
<1>5. QED  BY <1>3, <1>4

\* The read of a flash fault says nothing of the completion.
LEMMA FaultHistory ==
    ASSUME GeneratorCompletionAssumption, DeviceInv, HistoryInv, FaultResult PROVE HistoryInv'
<1>1. Types  BY DEF DeviceInv
<1> USE TypeFacts, TypesNow, <1>1
<1>2. /\ read' = NoRequest /\ send' = send /\ server' = server /\ effects' = effects
      /\ touched' = touched
  BY DEF FaultResult, serverVars
<1>3. /\ setup' = setup
      /\ \/ tx' = tx /\ context' = context
         \/ tx' = Forgotten(tx) /\ context' = Worthless(context)
  <2>1. CASE ~(storeFault /\ ~Void(read) /\ ~Active(read.reply.row.stage) /\ read.reply.row.stage = view)
    BY <2>1 DEF FaultResult, faultVars
  <2>2. CASE storeFault /\ ~Void(read) /\ ~Active(read.reply.row.stage) /\ read.reply.row.stage = view
    <3>1. FaultErase(read.reply.row)  BY <2>2 DEF FaultResult
    <3>2. QED  BY <3>1 DEF FaultErase, Forgotten, Worthless, Spend
  <2>3. QED  BY <2>1, <2>2
<1>4. /\ tx'.mode = tx.mode /\ tx'.current = tx.current /\ tx'.confirmed = tx.confirmed
      /\ (tx'.sent => tx.sent) /\ tx'.superseded = tx.superseded
  BY <1>3, ForgottenFields
<1>5. ContextFades  BY <1>3, WorthlessFields DEF ContextFades
<1>6. ContextOld'  BY <1>2, <1>3, <1>5, ContextKeeps DEF RowMoves, HistoryInv
<1>7. StageEarned'  BY <1>2, <1>3, SetupFixed DEF StageEarned, HistoryInv
<1>8. (SaysTarget(send)' => SaysTarget(send)) /\ ~SaysTarget(read)'
  BY <1>2, <1>3, SetupFixed DEF SaysTarget, NoRequest
<1>9. Open' \/ (tx'.mode = "legacy" /\ tx'.current) => Live
  BY <1>4 DEF Live, Open, Resolved
<1>10. server'.stage = Target \/ server.stage # Target  BY <1>2
<1>11. AnswersTrue'
  BY <1>2, <1>3, <1>4, <1>8, <1>9, <1>10, AnswersKeep DEF HistoryInv
<1>12. QED  BY <1>6, <1>7, <1>11 DEF HistoryInv

\* At the start nothing has happened.
LEMMA HistoryInit == ASSUME GeneratorCompletionAssumption, Init PROVE HistoryInv
<1>1. setup \in Setups /\ context = NoContext /\ effects = 0 /\ touched = FALSE
      /\ tx = NoTransaction /\ send = NoRequest /\ read = NoRequest
      /\ server.stage = StartStage /\ server.epoch = 1
  BY DEF Init
<1>2. StartStage # Target  BY <1>1, SetupFacts
<1>3. ContextOld  BY <1>1 DEF ContextOld, NoContext
<1>4. StageEarned  BY <1>1, <1>2 DEF StageEarned
<1>5. AnswersTrue  BY <1>1 DEF AnswersTrue, SaysTarget, NoRequest, NoTransaction
<1>6. QED  BY <1>3, <1>4, <1>5 DEF HistoryInv

\* Every step keeps what is known of the server.
LEMMA HistoryNext ==
    ASSUME GeneratorCompletionAssumption, DeviceInv, HistoryInv, [Next]_vars PROVE HistoryInv'
<1>1. CASE Next
  <2>1. CASE Answers  BY <2>1, ConditionalHistory, LegacyHistory, FaultHistory DEF Answers
  <2>2. CASE Service  BY <2>2, ServiceHistory, SnapshotHistory DEF Service
  <2>3. QED  BY <1>1, <2>1, <2>2, QueueHistory, ServerHistory, GameHistory, DeviceHistory DEF Next
<1>2. CASE UNCHANGED vars
  <2>1. /\ Idle /\ setup' = setup /\ server' = server /\ send' = send /\ read' = read
        /\ effects' = effects /\ touched' = touched
    BY <1>2 DEF vars, Idle, requestVars, serverVars, faultVars
  <2>2. server' \in Rows /\ Types  BY <2>1, TypeFacts DEF DeviceInv
  <2>3. RowMoves /\ StageEarned'
    BY <2>1, SetupFixed DEF RowMoves, StageEarned, HistoryInv
  <2>4. (SaysTarget(send)' => SaysTarget(send)) /\ (SaysTarget(read)' => SaysTarget(read))
    BY <2>1, SetupFixed DEF SaysTarget
  <2>5. QED  BY <2>1, <2>2, <2>3, <2>4, QuietHistory
<1>3. QED  BY <1>1, <1>2

\* What the device takes for done is done, or others wrote the row; the row is at the target
\* just when the server performed the completion.
THEOREM HistoryInvHolds ==
    ASSUME GeneratorCompletionAssumption PROVE Spec => [](DeviceInv /\ HistoryInv)
<1>1. Init => HistoryInv  BY HistoryInit
<1>2. DeviceInv /\ HistoryInv /\ [Next]_vars => HistoryInv'  BY HistoryNext
<1>3. QED  BY <1>1, <1>2, DeviceInvHolds, PTL DEF Spec
-----------------------------------------------------------------------------
(* A server that keeps its protocol.                                       *)

\* What a step that leaves the row does to the record and to what was answered.
AnswersPass ==
    /\ send'.at = "done" => send.at = "done" /\ send'.reply = send.reply
    /\ read'.at = "done" => read.at = "done" /\ read'.reply = read.reply
Passes ==
    /\ setup' = setup /\ server' = server /\ effects' = effects
    /\ touched' = touched /\ journal' \in {journal, Empty, Corrupt} /\ AnswersPass
Learns ==
    \/ protocol' \in {protocol, Unknown, server.protocol}
    \/ \E r \in {send, read} : r.at = "done" /\ r.reply.kind = "row" /\ protocol' = r.reply.row.protocol

\* Settling, or keeping an intent, leaves no answer behind.
LEMMA JudgePasses ==
    ASSUME GeneratorCompletionAssumption, DeviceInv, Open, BootReady, NEW t, Like(t),
           NEW row \in Rows, NEW mutation \in BOOLEAN, Judge(t, row, mutation),
           UNCHANGED <<server, effects, touched>>
    PROVE  Passes /\ protocol' = row.protocol
<1>1. Types /\ t \in Txs /\ t.durable /\ t.mode = "conditional"
  BY DEF DeviceInv, FlashHeld, Like, Open
<1> USE TypeFacts, TypesNow, <1>1
<1>2. NoRequest.at = "none"  BY NoneFields
<1>3. protocol' = row.protocol  BY DEF Judge
<1>4. ASSUME NEW u, Keep(u) PROVE Passes
  BY <1>2, <1>4 DEF Keep, faultVars, Passes, AnswersPass
<1>5. ASSUME NEW u, Like(u), NEW c \in BOOLEAN, Resolve(u, c) PROVE Passes
  <2>1. u \in Txs  BY <1>5 DEF Like
  <2>2. setup' = setup /\ journal' \in {journal, Empty} /\ send' = NoRequest /\ read' = NoRequest
    BY <1>5, <2>1, ResolveFacts
  <2>3. QED  BY <1>2, <2>2 DEF Passes, AnswersPass
<1>6. CASE JudgeSettled(t, row)
  <2> DEFINE c == Confirms(t, row)
             u == IF c /\ t.restored THEN Revived(t) ELSE t
  <2>1. c \in BOOLEAN  BY DEF Confirms, Active
  <2>2. Resolve(u, c)  BY <1>6 DEF JudgeSettled, Revived
  <2>3. Like(u)  BY LikeFacts
  <2> HIDE DEF c, u
  <2>4. QED  BY <1>3, <1>5, <2>1, <2>2, <2>3
<1>7. Like(Bind(t))  BY LikeFacts
<1>8. CASE Downgrade(Bind(t))
  <2>1. Bind(t) \in Txs /\ Bind(t).durable /\ Bind(t).mode = "conditional"
    BY <1>7 DEF Like, DeviceInv, FlashHeld, Open
  <2>2. /\ setup' = setup /\ read' = NoRequest /\ journal' \in {journal, Empty}
        /\ send' = NoRequest \/ send'.at = "queued"
    BY <1>8, <2>1, DowngradeFacts
  <2>3. QED  BY <1>2, <1>3, <2>2 DEF Passes, AnswersPass
<1>9. CASE Resend(Bind(t))
  <2>1. PICK admitted \in BOOLEAN : Queues(admitted) /\ Submit(Bind(t), FALSE, admitted)
    BY <1>9 DEF Resend
  <2>2. setup' = setup  BY <2>1, CostFacts, SpendFacts DEF Queues
  <2>3. read' = NoRequest /\ journal' = journal  BY <1>9 DEF Resend
  <2>4. Bind(t) \in Txs /\ Bind(t).mode = "conditional"  BY <1>7 DEF Like, Open
  <2>5. send' = NoRequest \/ send'.at = "queued"  BY <2>1, <2>4, QueuedFields DEF Submit
  <2>6. QED  BY <1>2, <1>3, <2>2, <2>3, <2>5 DEF Passes, AnswersPass
<1>10. CASE Keep(t) \/ Keep(Bind(t))  BY <1>3, <1>4, <1>10
<1>11. CASE Resolve(t, FALSE)  BY <1>3, <1>5, <1>11
<1>12. QED  BY <1>6, <1>8, <1>9, <1>10, <1>11 DEF Judge

\* The handlers of the answers.
LEMMA AnswersPasses ==
    ASSUME GeneratorCompletionAssumption, DeviceInv, Answers PROVE Passes /\ Learns
<1>1. Types  BY DEF DeviceInv
<1> USE TypeFacts, TypesNow, <1>1
<1>2. NoRequest.at = "none"  BY NoneFields
<1>3. CASE ConditionalSendResult
  <2>1. send.at = "done" /\ send.mode = "conditional" /\ UNCHANGED <<server, effects, touched>>
    BY <1>3 DEF ConditionalSendResult
  <2>2. send \in Sends /\ Open /\ BootReady /\ Like(Answering(tx))
    BY <2>1, LikeFacts DEF DeviceInv, RequestsOwned
  <2>3. CASE Void(send)
    <3>1. Keep(Answering(tx)) /\ protocol' = protocol
      BY <1>3, <2>3 DEF ConditionalSendResult, Answering
    <3>2. QED  BY <1>2, <2>1, <3>1 DEF Keep, faultVars, Passes, AnswersPass, Learns
  <2>4. CASE ~Void(send)
    <3>1. Judge(Answering(tx), send.reply.row, TRUE)
      BY <1>3, <2>4 DEF ConditionalSendResult, Answering
    <3>2. send.reply.kind = "row" /\ send.reply.row \in Rows
      BY <2>2, <2>4, ReplyRow DEF Void, Sends
    <3>3. Passes /\ protocol' = send.reply.row.protocol
      BY <2>1, <2>2, <3>1, <3>2, JudgePasses
    <3>4. QED  BY <2>1, <3>2, <3>3 DEF Learns
  <2>5. QED  BY <2>3, <2>4
<1>4. CASE ConditionalVerifyResult
  <2>1. read.at = "done" /\ read.kind = "conditional" /\ UNCHANGED <<server, effects, touched>>
    BY <1>4 DEF ConditionalVerifyResult
  <2>2. read \in Reads /\ Open /\ BootReady /\ Like(tx)
    BY <2>1, LikeFacts DEF DeviceInv, RequestsOwned
  <2>3. CASE Void(read)
    <3>1. Keep(tx) /\ protocol' = protocol
      BY <1>4, <2>3 DEF ConditionalVerifyResult
    <3>2. QED  BY <1>2, <2>1, <3>1 DEF Keep, faultVars, Passes, AnswersPass, Learns
  <2>4. CASE ~Void(read)
    <3>1. Judge(tx, read.reply.row, FALSE)  BY <1>4, <2>4 DEF ConditionalVerifyResult
    <3>2. read.reply.kind = "row" /\ read.reply.row \in Rows
      BY <2>2, <2>4, ReplyRow DEF Void, Reads
    <3>3. Passes /\ protocol' = read.reply.row.protocol
      BY <2>1, <2>2, <3>1, <3>2, JudgePasses
    <3>4. QED  BY <2>1, <3>2, <3>3 DEF Learns
  <2>5. QED  BY <2>3, <2>4
<1>5. CASE LegacySendResult
  <2>1. /\ setup' = setup /\ protocol' = protocol /\ journal' = journal /\ server' = server
        /\ effects' = effects /\ touched' = touched
    BY <1>5 DEF LegacySendResult, flagVars, faultVars
  <2>2. send' = NoRequest /\ read' \in {read, NoRequest}
    BY <1>5 DEF LegacySendResult, RenewToken
  <2>3. QED  BY <1>2, <2>1, <2>2 DEF Passes, AnswersPass, Learns
<1>6. CASE LegacyVerifyResult
  <2>1. /\ protocol' = protocol /\ journal' = journal
        /\ server' = server /\ effects' = effects /\ touched' = touched
    BY <1>6 DEF LegacyVerifyResult
  <2>2. read \in Reads /\ read.at = "done" /\ tx.mode = "legacy"
    BY <1>6 DEF LegacyVerifyResult, DeviceInv, RequestsOwned
  <2>3. CASE Void(read)
    <3>1. setup' = setup /\ send' = send /\ read' = NoRequest
      BY <1>6, <2>3 DEF LegacyVerifyResult, faultVars
    <3>2. QED  BY <1>2, <2>1, <3>1 DEF Passes, AnswersPass, Learns
  <2>4. CASE ~Void(read)
    <3> DEFINE row == read.reply.row
               t   == After(tx, row)
    <3>1. row \in Rows  BY <2>2, <2>4, ReplyRow DEF Void, Reads
    <3>2. CASE Observes(t, row) /\ MayResend(t, row)
      <4>1. PICK admitted \in BOOLEAN : Queues(admitted) /\ Submit(t, TRUE, admitted)
        BY <1>6, <2>4, <3>2 DEF LegacyVerifyResult
      <4>2. read' = NoRequest  BY <1>6, <2>4, <3>2 DEF LegacyVerifyResult
      <4> HIDE DEF row
      <4>3. t \in Txs /\ t.mode = "legacy"  BY <2>2, <3>1, AfterFields, Zenon
      <4> HIDE DEF t
      <4>4. Queued(t, TRUE).at = "queued"  BY <4>3, QueuedFields, Zenon
      <4>5. send' = Queued(t, TRUE) \/ send' = NoRequest  BY <4>1 DEF Submit
      <4>6. setup' = setup  BY <4>1, CostFacts, SpendFacts DEF Queues
      <4>7. QED  BY <1>2, <2>1, <4>2, <4>4, <4>5, <4>6 DEF Passes, AnswersPass, Learns
    <3>3. CASE ~(Observes(t, row) /\ MayResend(t, row))
      <4>1. ApplyLegacy(t, NoRequest, FALSE, row) /\ UNCHANGED faultVars
        BY <1>6, <2>4, <3>3 DEF LegacyVerifyResult
      <4> HIDE DEF row
      <4>2. t \in Txs  BY <3>1, AfterFields, Zenon
      <4> HIDE DEF t
      <4>3. /\ send'.at \in {send.at, "none"} /\ (send'.at # "none" => send'.reply = send.reply)
            /\ read'.at \in {NoRequest.at, "none"}
        BY <3>1, <4>1, <4>2, ApplyLegacyFacts
      <4>4. setup' = setup  BY <4>1 DEF faultVars
      <4>5. QED  BY <1>2, <2>1, <4>3, <4>4 DEF Passes, AnswersPass, Learns
    <3>4. QED  BY <3>2, <3>3
  <2>5. QED  BY <2>3, <2>4
<1>7. CASE FaultResult
  <2>1. /\ read' = NoRequest /\ send' = send /\ server' = server /\ effects' = effects
        /\ touched' = touched /\ read.at = "done" /\ read \in Reads
    BY <1>7 DEF FaultResult, serverVars
  <2>2. CASE ~(storeFault /\ ~Void(read) /\ ~Active(read.reply.row.stage) /\ read.reply.row.stage = view)
    <3>1. setup' = setup /\ protocol' = protocol /\ journal' = journal
      BY <1>7, <2>2 DEF FaultResult, flagVars, faultVars
    <3>2. QED  BY <1>2, <2>1, <3>1 DEF Passes, AnswersPass, Learns
  <2>3. CASE storeFault /\ ~Void(read) /\ ~Active(read.reply.row.stage) /\ read.reply.row.stage = view
    <3>1. FaultErase(read.reply.row)  BY <1>7, <2>3 DEF FaultResult
    <3>2. setup' = setup /\ protocol' = read.reply.row.protocol /\ journal' \in {journal, Empty}
      BY <3>1 DEF FaultErase, Erased, Spend
    <3>3. read.reply.kind = "row"  BY <2>3 DEF Void
    <3>4. QED  BY <1>2, <2>1, <3>2, <3>3 DEF Passes, AnswersPass, Learns
  <2>4. QED  BY <2>2, <2>3
<1>8. QED  BY <1>3, <1>4, <1>5, <1>6, <1>7 DEF Answers

\* The services of the loop, and full snapshots.
LEMMA ServicePasses ==
    ASSUME GeneratorCompletionAssumption, DeviceInv, Service PROVE Passes /\ Learns
<1>1. Types  BY DEF DeviceInv
<1> USE TypeFacts, TypesNow, <1>1
<1>2. NoRequest.at = "none"  BY NoneFields
<1>3. CASE ServiceVerify \/ ServiceWithdraw \/ FaultRead \/ ProtocolProbe
  <2>1. /\ setup' = setup /\ server' = server /\ effects' = effects /\ touched' = touched
        /\ journal' = journal /\ protocol' \in {protocol, server.protocol}
    BY <1>3 DEF ServiceVerify, ServiceWithdraw, FaultRead, ProtocolProbe, flagVars, serverVars, faultVars
  <2>2. send'.at = "done" => send.at = "done" /\ send'.reply = send.reply
    <3>1. CASE ServiceWithdraw
      <4>1. send \in Sends /\ send' = [send EXCEPT !.cancelled = TRUE]
        BY <3>1 DEF ServiceWithdraw
      <4>2. QED  BY <4>1, CancelFields
    <3>2. QED  BY <1>3, <3>1 DEF ServiceVerify, FaultRead, ProtocolProbe, requestVars
  <2>3. read'.at = "done" => read.at = "done" /\ read'.reply = read.reply
    <3>1. CASE \E k \in {"conditional", "legacy", "fault"} : read' = Asked(k)
      BY <3>1, AskedFields
    <3>2. QED
      BY <1>3, <3>1 DEF ServiceVerify, ServiceWithdraw, FaultRead, ProtocolProbe, requestVars
  <2>4. QED  BY <2>1, <2>2, <2>3 DEF Passes, AnswersPass, Learns
<1>4. CASE FullSnapshot
  <2>1. server' = server /\ effects' = effects /\ touched' = touched /\ protocol' = protocol
    BY <1>4 DEF FullSnapshot
  <2>2. CASE tx.mode = "conditional" /\ tx.needsFull /\ server.stage # Target
    <3>1. Resolve(After(tx, server), FALSE) /\ After(tx, server) \in Txs
      BY <1>4, <2>2, AfterFields DEF FullSnapshot
    <3>2. setup' = setup /\ journal' \in {journal, Empty} /\ send' = NoRequest /\ read' = NoRequest
      BY <3>1, ResolveFacts
    <3>3. QED  BY <1>2, <2>1, <3>2 DEF Passes, AnswersPass, Learns
  <2>3. CASE ~(tx.mode = "conditional" /\ tx.needsFull /\ server.stage # Target)
    <3>1. setup' = setup /\ journal' = journal  BY <1>4, <2>3 DEF FullSnapshot, faultVars
    <3>2. /\ send'.at \in {send.at, "none"} /\ (send'.at # "none" => send'.reply = send.reply)
          /\ read'.at \in {read.at, "none"} /\ (read'.at # "none" => read'.reply = read.reply)
      <4>1. CASE tx.mode = "legacy"
        <5>1. ApplyLegacy(After(tx, server), read, verify, server)
          BY <1>4, <2>3, <4>1 DEF FullSnapshot
        <5>2. After(tx, server) \in Txs  BY AfterFields
        <5>3. QED  BY <5>1, <5>2, ApplyLegacyFacts
      <4>2. CASE tx.mode # "legacy"
        <5>1. send' = Carried(send, server) /\ read' = Carried(read, server)
          BY <1>4, <2>3, <4>2 DEF FullSnapshot
        <5>2. QED  BY <5>1, CarriedFacts
      <4>3. QED  BY <4>1, <4>2
    <3>3. QED  BY <2>1, <3>1, <3>2 DEF Passes, AnswersPass, Learns
  <2>4. QED  BY <2>2, <2>3
<1>5. QED  BY <1>3, <1>4 DEF Service

\* The server keeps the protocol it has: there is only one, or it is never restarted or changed.
OneProtocol == (\E p : Protocols = {p}) \/ Faults \cap {"restart", "protocol"} = {}

\* What the device has read of the protocol is right, and an intent in flash is still the next
\* revision of the row, or the one that performed it.
SaysProtocol(r) == r.at = "done" /\ r.reply.kind = "row" => r.reply.row.protocol = server.protocol
ProtocolInv ==
    /\ OneProtocol
    /\ protocol \in {Unknown, server.protocol}
    /\ SaysProtocol(send) /\ SaysProtocol(read)
    /\ journal.kind = "intent" => server.protocol = 1
    /\ TokenNotSpent

\* The steps of the row and of the record under which the intent's revision is not spent.
RowStays == server'.epoch = server.epoch /\ server'.revision = server.revision /\ server'.stage = server.stage
RowPerforms ==
    /\ server.stage # Target /\ server'.stage = Target
    /\ server'.epoch = server.epoch /\ server'.revision = server.revision + 1
RecordMade ==
    /\ server'.protocol = 1
    /\ ~touched' => server'.epoch = journal'.epoch /\ server'.revision = journal'.revision
TokenMoves ==
    journal'.kind = "intent" =>
        \/ journal' = journal /\ (touched => touched') /\ (touched' \/ RowStays \/ RowPerforms)
        \/ RecordMade

\* What keeps the protocol, the answers and the token keeps the invariant.
LEMMA ProtocolKeeps ==
    ASSUME ProtocolInv, setup' = setup, server'.protocol = server.protocol,
           protocol' \in {protocol, Unknown, server.protocol},
           SaysProtocol(send)', SaysProtocol(read)', TokenMoves
    PROVE  ProtocolInv'
<1>1. OneProtocol'  BY SetupFixed DEF ProtocolInv, OneProtocol
<1>2. protocol' \in {Unknown', server'.protocol}  BY DEF ProtocolInv, Unknown
<1>3. journal'.kind = "intent" => server'.protocol = 1
  BY DEF ProtocolInv, TokenMoves, RecordMade
<1>4. TokenNotSpent'
  <2>1. CASE journal'.kind # "intent"  BY <2>1 DEF TokenNotSpent
  <2>2. CASE journal' = journal /\ (touched => touched') /\ (touched' \/ RowStays \/ RowPerforms)
    BY <2>2, SetupFixed DEF ProtocolInv, TokenNotSpent, RowStays, RowPerforms
  <2>3. CASE RecordMade  BY <2>3 DEF RecordMade, TokenNotSpent
  <2>4. QED  BY <2>1, <2>2, <2>3 DEF TokenMoves
<1>5. QED  BY <1>1, <1>2, <1>3, <1>4 DEF ProtocolInv

\* A step that leaves the row.
LEMMA PassesProtocol ==
    ASSUME ProtocolInv, Passes, Learns PROVE ProtocolInv'
<1>1. setup' = setup /\ server' = server /\ touched' = touched
  BY DEF Passes
<1>2. SaysProtocol(send)' /\ SaysProtocol(read)'
  BY <1>1 DEF Passes, AnswersPass, ProtocolInv, SaysProtocol
<1>3. protocol' \in {protocol, Unknown, server.protocol}
  BY DEF Learns, ProtocolInv, SaysProtocol
<1>4. TokenMoves
  <2>1. journal'.kind = "intent" => journal' = journal  BY IntentFacts DEF Passes
  <2>2. QED  BY <1>1, <2>1 DEF TokenMoves, RowStays
<1>5. QED  BY <1>1, <1>2, <1>3, <1>4, ProtocolKeeps

\* The server performs a completion only from the stage before, if it has protocol 1.
LEMMA HandlePerforms ==
    ASSUME GeneratorCompletionAssumption, Types, NEW w, Handle(w)
    PROVE  /\ server' \in Rows /\ server'.protocol = server.protocol
           /\ RowStays \/ RowPerforms \/ server.protocol # 1
           /\ effects' = effects \/ server.stage # Target \/ server.protocol # 1
<1>1. /\ server' \in Rows /\ server'.epoch = server.epoch /\ server'.protocol = server.protocol
      /\ \/ server' = server /\ effects' = effects
         \/ Applies(w) /\ server'.stage = Target /\ server'.revision = server.revision + 1
  BY HandleFacts
<1>2. Applies(w) => server.stage # Target \/ server.protocol # 1
  BY TypeFacts, SetupFacts DEF Applies
<1>3. QED  BY <1>1, <1>2 DEF RowStays, RowPerforms

\* The queue and the server.
LEMMA QueueProtocol ==
    ASSUME GeneratorCompletionAssumption, DeviceInv, ProtocolInv, Queue PROVE ProtocolInv'
<1>1. Types  BY DEF DeviceInv
<1> USE TypeFacts, <1>1
<1>2. /\ Idle /\ setup' = setup /\ server' = server /\ touched' = touched /\ read' = read
  BY DEF Queue, SendDiscard, SendDispatch, SendUndelivered, serverVars, faultVars, Spend
<1>3. send \in Sends  BY DEF Queue, SendDiscard, SendDispatch, SendUndelivered
<1>4. SaysProtocol(send)'
  <2>1. CASE SendDiscard \/ SendUndelivered
    <3>1. PICK k \in {"cancelled", "undelivered"} : send' = Answer(send, [kind |-> k])
      BY <2>1 DEF SendDiscard, SendUndelivered
    <3>2. [kind |-> k] \in Replies /\ [kind |-> k].kind = k  BY ReplyFacts
    <3>3. send'.reply = [kind |-> k]  BY <1>3, <3>1, <3>2, AnswerFields
    <3>4. QED  BY <3>2, <3>3 DEF SaysProtocol
  <2>2. CASE SendDispatch
    <3>1. send' = [send EXCEPT !.at = "sent", !.dispatched = TRUE]  BY <2>2 DEF SendDispatch
    <3>2. send'.at = "sent"  BY <1>3, <3>1, DispatchFields
    <3>3. QED  BY <3>2 DEF SaysProtocol
  <2>3. QED  BY <2>1, <2>2 DEF Queue
<1>5. SaysProtocol(read)'  BY <1>2 DEF ProtocolInv, SaysProtocol
<1>6. protocol' = protocol /\ journal' = journal  BY <1>2 DEF Idle, flagVars
<1>7. TokenMoves  BY <1>2, <1>6 DEF TokenMoves, RowStays
<1>8. QED  BY <1>2, <1>4, <1>5, <1>6, <1>7, ProtocolKeeps

\* The server.
LEMMA ServerProtocol ==
    ASSUME GeneratorCompletionAssumption, DeviceInv, ProtocolInv, Server PROVE ProtocolInv'
<1>1. Types  BY DEF DeviceInv
<1> USE TypeFacts, <1>1
<1>2. (journal.kind = "intent" => server.protocol = 1) /\ OneProtocol
      /\ SaysProtocol(send) /\ SaysProtocol(read)
  BY DEF ProtocolInv
<1>3. protocol' = protocol /\ journal' = journal /\ setup' = setup
  BY DEF Server, SendAnswered, SendAnswerLost, SendLost, SendLate, ArriveLate, ReadAnswered,
         ReadLost, OutsideWrite, ServerRestart, ProtocolChange, Idle, flagVars, faultVars, Spend
<1>4. ASSUME touched' = touched, server'.protocol = server.protocol,
             RowStays \/ RowPerforms \/ server.protocol # 1
      PROVE  TokenMoves
  BY <1>2, <1>3, <1>4 DEF TokenMoves
<1>5. CASE SendAnswered
  <2>1. /\ send \in Sends /\ Handle(Wire(send)) /\ read' = read /\ touched' = touched
        /\ send' = Answer(send, AnswerOf(Wire(send), server'))
    BY <1>5 DEF SendAnswered
  <2>2. /\ server' \in Rows /\ server'.protocol = server.protocol
        /\ RowStays \/ RowPerforms \/ server.protocol # 1
    BY <2>1, HandlePerforms
  <2>3. SaysProtocol(send)'
    <3> DEFINE a == AnswerOf(Wire(send), server')
    <3>1. a \in Replies /\ (a.kind = "row" => a = Row(server'))  BY <2>2, ReplyFacts
    <3>2. send' = Answer(send, a)  BY <2>1
    <3>3. Row(server').row = server'  BY <2>2, ReplyFacts
    <3> HIDE DEF a
    <3>4. send'.reply = a  BY <2>1, <3>1, <3>2, AnswerFields
    <3>5. QED  BY <3>1, <3>3, <3>4 DEF SaysProtocol
  <2>4. SaysProtocol(read)'  BY <1>2, <2>1, <2>2 DEF SaysProtocol
  <2>5. QED  BY <1>3, <1>4, <2>1, <2>2, <2>3, <2>4, ProtocolKeeps
<1>6. CASE SendAnswerLost \/ SendLost \/ SendLate
  <2>1. /\ send \in Sends /\ read' = read /\ touched' = touched
        /\ send' = Answer(send, [kind |-> "failed"])
        /\ Handle(Wire(send)) \/ server' = server
    BY <1>6 DEF SendAnswerLost, SendLost, SendLate, serverVars
  <2>2. server'.protocol = server.protocol /\ (RowStays \/ RowPerforms \/ server.protocol # 1)
    <3>1. CASE Handle(Wire(send))  BY <3>1, HandlePerforms
    <3>2. CASE server' = server  BY <3>2 DEF RowStays
    <3>3. QED  BY <2>1, <3>1, <3>2
  <2>3. SaysProtocol(send)'
    <3>1. send'.reply.kind = "failed"  BY <2>1, ReplyFacts, AnswerFields
    <3>2. QED  BY <3>1 DEF SaysProtocol
  <2>4. SaysProtocol(read)'  BY <1>2, <2>1, <2>2 DEF SaysProtocol
  <2>5. QED  BY <1>3, <1>4, <2>1, <2>2, <2>3, <2>4, ProtocolKeeps
<1>7. CASE ArriveLate
  <2>1. PICK w \in late : Handle(w)  BY <1>7 DEF ArriveLate
  <2>2. touched' = touched /\ send' = send /\ read' = read  BY <1>7 DEF ArriveLate, requestVars
  <2>3. server'.protocol = server.protocol /\ (RowStays \/ RowPerforms \/ server.protocol # 1)
    BY <2>1, HandlePerforms
  <2>4. SaysProtocol(send)' /\ SaysProtocol(read)'  BY <1>2, <2>2, <2>3 DEF SaysProtocol
  <2>5. QED  BY <1>3, <1>4, <2>2, <2>3, <2>4, ProtocolKeeps
<1>8. CASE ReadAnswered \/ ReadLost
  <2>1. /\ read \in Reads /\ send' = send /\ touched' = touched /\ server' = server
        /\ \E r \in {Row(server), [kind |-> "cancelled"], [kind |-> "failed"]} : read' = Answer(read, r)
    BY <1>8 DEF ReadAnswered, ReadLost, serverVars
  <2>2. SaysProtocol(read)'
    <3>1. PICK r \in {Row(server), [kind |-> "cancelled"], [kind |-> "failed"]} : read' = Answer(read, r)
      BY <2>1
    <3>2. r \in Replies /\ (r.kind = "row" => r = Row(server))  BY ReplyFacts
    <3>3. read'.reply = r  BY <2>1, <3>1, <3>2, AnswerReadFields
    <3>4. Row(server).row = server  BY ReplyFacts
    <3>5. QED  BY <2>1, <3>2, <3>3, <3>4 DEF SaysProtocol
  <2>3. SaysProtocol(send)'  BY <1>2, <2>1 DEF SaysProtocol
  <2>4. TokenMoves  BY <1>4, <2>1 DEF RowStays
  <2>5. QED  BY <1>3, <2>1, <2>2, <2>3, <2>4, ProtocolKeeps
<1>9. CASE OutsideWrite \/ ServerRestart
  <2>1. send' = send /\ read' = read /\ touched' = TRUE
    BY <1>9 DEF OutsideWrite, ServerRestart, requestVars
  <2>2. server'.protocol = server.protocol
    <3>1. CASE OutsideWrite
      <4>1. PICK stage \in Stages, count \in Counts :
              server' = [server EXCEPT !.stage = stage, !.count = count, !.revision = @ + 1]
        BY <3>1 DEF OutsideWrite
      <4>2. QED  BY <4>1 DEF Rows
    <3>2. CASE ServerRestart
      <4>1. "restart" \in Faults  BY <3>2 DEF ServerRestart, May
      <4>2. PICK p \in Protocols :
              server' = [server EXCEPT !.epoch = @ + 1, !.revision = 0, !.protocol = p]
        BY <3>2 DEF ServerRestart
      <4>3. server'.protocol = p  BY <4>2 DEF Rows
      <4>4. server.protocol \in Protocols  BY DEF Rows
      <4>5. QED  BY <1>2, <4>1, <4>2, <4>3, <4>4 DEF OneProtocol
    <3>3. QED  BY <1>9, <3>1, <3>2
  <2>3. SaysProtocol(send)' /\ SaysProtocol(read)'  BY <1>2, <2>1, <2>2 DEF SaysProtocol
  <2>4. TokenMoves  BY <1>3, <2>1 DEF TokenMoves
  <2>5. QED  BY <1>3, <2>2, <2>3, <2>4, ProtocolKeeps
<1>10. CASE ProtocolChange
  <2>1. "protocol" \in Faults  BY <1>10 DEF ProtocolChange, May
  <2>2. PICK p \in Protocols \ {server.protocol} : TRUE  BY <1>10 DEF ProtocolChange
  <2>3. server.protocol \in Protocols  BY DEF Rows
  <2>4. QED  BY <1>2, <2>1, <2>2, <2>3 DEF OneProtocol
<1>11. QED  BY <1>5, <1>6, <1>7, <1>8, <1>9, <1>10 DEF Server

\* A new intent waits for the revision the row has, or others have written it since.
LEMMA GameProtocol ==
    ASSUME GeneratorCompletionAssumption, DeviceInv, ProtocolInv, Game PROVE ProtocolInv'
<1>1. Types  BY DEF DeviceInv
<1> USE TypeFacts, TypesNow, SetupFacts, <1>1
<1>2. /\ setup' = setup /\ server' = server /\ protocol' = protocol
  BY DEF Game, BeginLegacy, ContinueLegacy, BeginConditional, Queues, Spend, SaveFails, faultVars,
         flagVars, serverVars
<1>3. SaysProtocol(send) /\ SaysProtocol(read)  BY DEF ProtocolInv
<1>4. NoRequest.at = "none"  BY NoneFields
<1>5. ~Pending => journal = Empty
  BY DEF DeviceInv, FlashHeld, Pending, Open
<1>6. CASE BeginLegacy
  <2>1. PICK admitted \in BOOLEAN : LegacySubmit(BeganLegacy, admitted)
    BY <1>6 DEF BeginLegacy, BeganLegacy
  <2>2. BootReady /\ ~Pending /\ read' = NoRequest /\ journal' = journal
    BY <1>6 DEF BeginLegacy, MayBegin, Gate
  <2>3. BeganLegacy \in Txs /\ BeganLegacy.mode = "legacy"  BY <2>2, BeginningFields
  <2>4. send' = NoRequest \/ send'.at = "queued"  BY <2>1, <2>2, <2>3, LegacySubmitFacts
  <2>5. SaysProtocol(send)' /\ SaysProtocol(read)'  BY <1>4, <2>2, <2>4 DEF SaysProtocol
  <2>6. TokenMoves  BY <1>5, <2>2, IntentFacts DEF TokenMoves
  <2>7. QED  BY <1>2, <2>5, <2>6, ProtocolKeeps
<1>7. CASE ContinueLegacy
  <2>1. PICK admitted \in BOOLEAN : LegacySubmit(tx, admitted)  BY <1>7 DEF ContinueLegacy
  <2>2. /\ BootReady /\ tx.mode = "legacy" /\ read' = read /\ journal' = journal
        /\ touched' = touched
    BY <1>7 DEF ContinueLegacy, Gate, serverVars
  <2>3. send' = NoRequest \/ send'.at = "queued"  BY <2>1, <2>2, LegacySubmitFacts
  <2>4. SaysProtocol(send)' /\ SaysProtocol(read)'
    BY <1>2, <1>3, <1>4, <2>2, <2>3 DEF SaysProtocol
  <2>5. TokenMoves  BY <1>2, <2>2 DEF TokenMoves, RowStays
  <2>6. QED  BY <1>2, <2>4, <2>5, ProtocolKeeps
<1>8. CASE BeginConditional
  <2>1. /\ MayBegin /\ protocol = 1
        /\ touched' = ([epoch |-> context.epoch, revision |-> context.revision]
                          # [epoch |-> server.epoch, revision |-> server.revision])
    BY <1>8 DEF BeginConditional
  <2>2. server.protocol = 1  BY <2>1 DEF ProtocolInv, Unknown
  <2>3. journal = Empty  BY <1>5, <2>1 DEF MayBegin
  <2>4. journal' \in {Empty, Intent(Began)}
    BY <1>8, <2>3 DEF BeginConditional, SaveFails
  <2>5. Intent(Began).epoch = context.epoch /\ Intent(Began).revision = context.revision
    <3>1. BootReady  BY <2>1 DEF MayBegin, Gate
    <3>2. Began.epoch = context.epoch /\ Began.revision = context.revision
      BY <3>1, BeginningFields
    <3>3. QED  BY <3>2 DEF Intent
  <2>6. ~touched' => context.epoch = server.epoch /\ context.revision = server.revision
    BY <2>1
  <2>7. TokenMoves
    BY <1>2, <2>2, <2>4, <2>5, <2>6, IntentFacts DEF TokenMoves, RecordMade
  <2>8. SaysProtocol(send)' /\ SaysProtocol(read)'
    <3>1. CASE send' = send /\ read' = read  BY <1>2, <1>3, <3>1 DEF SaysProtocol
    <3>2. CASE read' = NoRequest /\ (send' = NoRequest \/ send' = Queued(Began, FALSE))
      <4>1. BootReady  BY <2>1 DEF MayBegin, Gate
      <4>2. Began \in Txs /\ Began.mode = "conditional"  BY <4>1, BeginningFields
      <4>3. Queued(Began, FALSE).at = "queued"  BY <4>2, QueuedFields, Zenon
      <4>4. QED  BY <1>4, <3>2, <4>3 DEF SaysProtocol
    <3>3. QED  BY <1>8, <3>1, <3>2 DEF BeginConditional, Submit, requestVars
  <2>9. QED  BY <1>2, <2>7, <2>8, ProtocolKeeps
<1>9. QED  BY <1>6, <1>7, <1>8 DEF Game

\* The wire service writes the row only while no intent waits for it.
LEMMA DeviceProtocol ==
    ASSUME GeneratorCompletionAssumption, DeviceInv, ProtocolInv, Device PROVE ProtocolInv'
<1>1. Types  BY DEF DeviceInv
<1> USE TypeFacts, TypesNow, <1>1
<1>2. SaysProtocol(send) /\ SaysProtocol(read)  BY DEF ProtocolInv
<1>3. CASE ConfirmContext
  <2>1. /\ setup' = setup /\ journal' = journal /\ touched' = touched /\ protocol' = server.protocol
        /\ server'.protocol = server.protocol
        /\ \/ tx' = tx /\ send' = send /\ read' = read
           \/ tx' = NotCurrent(tx) /\ send' = Stale(send) /\ read' = Stale(read)
    BY <1>3, ConfirmFacts
  <2>2. journal = Empty
    BY <1>3 DEF ConfirmContext, DeviceInv, FlashHeld, Pending, Open
  <2>3. TokenMoves  BY <2>1, <2>2, IntentFacts DEF TokenMoves
  <2>4. SaysProtocol(send)' /\ SaysProtocol(read)'
    <3>1. send'.at = send.at /\ (send.at # "none" => send'.reply = send.reply)
      BY <2>1, StaleFields, NoneFields
    <3>2. read'.at = read.at /\ (read.at # "none" => read'.reply = read.reply)
      BY <2>1, StaleReadFields, NoneFields
    <3>3. QED  BY <1>2, <2>1, <3>1, <3>2 DEF SaysProtocol
  <2>5. QED  BY <2>1, <2>3, <2>4, ProtocolKeeps
<1>4. CASE Settle \/ Replug
  <2>1. /\ setup' = setup /\ send' = send /\ read' = read /\ server' = server /\ effects' = effects
        /\ touched' = touched /\ journal' = journal /\ protocol' = protocol
    BY <1>4 DEF Settle, Replug, requestVars, serverVars, faultVars, flagVars
  <2>2. QED  BY <2>1, PassesProtocol DEF Passes, AnswersPass, Learns
<1>5. CASE Crash \/ OfflineRestart
  <2>1. PICK j \in {journal, Corrupt} : Reboot(j)  BY <1>5 DEF Crash, OfflineRestart
  <2>2. /\ setup' = setup /\ send' = NoRequest /\ read' = NoRequest /\ server' = server
        /\ effects' = effects /\ touched' = touched /\ journal' = j /\ protocol' = Unknown
    BY <1>5, <2>1 DEF Crash, OfflineRestart, Reboot, RenewToken, Spend
  <2>3. QED  BY <2>2, NoneFields, PassesProtocol DEF Passes, AnswersPass, Learns
<1>6. QED  BY <1>3, <1>4, <1>5 DEF Device

\* Every step keeps it.
LEMMA ProtocolNext ==
    ASSUME GeneratorCompletionAssumption, DeviceInv, ProtocolInv, [Next]_vars PROVE ProtocolInv'
<1>1. CASE Next
  <2>1. CASE Answers  BY <2>1, AnswersPasses, PassesProtocol
  <2>2. CASE Service  BY <2>2, ServicePasses, PassesProtocol
  <2>3. QED
    BY <1>1, <2>1, <2>2, QueueProtocol, ServerProtocol, GameProtocol, DeviceProtocol DEF Next
<1>2. CASE UNCHANGED vars
  BY <1>2, PassesProtocol
  DEF vars, requestVars, flagVars, serverVars, faultVars, Passes, AnswersPass, Learns
<1>3. QED  BY <1>1, <1>2

\* IntentHeld: whatever is lost, late, cut or written by others, while an intent is in flash the
\* device does not spend the revision it waits for.  The server may restart if it keeps its
\* protocol; a server that changes it may apply a plain Send on top of the completion.
THEOREM IntentHeldHolds ==
    ASSUME GeneratorCompletionAssumption PROVE Spec /\ OneProtocol => []IntentHeld
<1>1. Init /\ OneProtocol => ProtocolInv
  <2> SUFFICES ASSUME Init, OneProtocol PROVE ProtocolInv  OBVIOUS
  <2>1. protocol = Unknown /\ send = NoRequest /\ read = NoRequest /\ journal = Empty
    BY DEF Init
  <2>2. QED
    BY <2>1, IntentFacts DEF ProtocolInv, SaysProtocol, NoRequest, TokenNotSpent
<1>2. DeviceInv /\ ProtocolInv /\ [Next]_vars => ProtocolInv'  BY ProtocolNext
<1>3. DeviceInv => TypeOK
  <2> SUFFICES ASSUME DeviceInv PROVE TypeOK  OBVIOUS
  <2>1. Types  BY DEF DeviceInv
  <2>2. tx \in Txs /\ server \in Rows /\ faults \in 0 .. MaxFaults  BY <2>1, TypeFacts
  <2>3. send.at \in {"none", "queued", "sent", "done"} /\ read.at \in {"none", "queued", "done"}
    BY <2>1, TypesNow, NoneFields DEF Sends, Reads
  <2>4. journal.kind \in {"empty", "intent", "corrupt"}  BY <2>1, TypesNow, IntentFacts
  <2>5. view \in Stages \cup {Unseen} /\ stable \in Counts \cup {Unsettled}
    BY <2>1, TypesNow
  <2>6. QED
    BY <2>2, <2>3, <2>4, <2>5 DEF TypeOK, Txs, Rows, Epochs, Revisions
<1>4. DeviceInv /\ ProtocolInv => IntentHeld
  BY <1>3 DEF DeviceInv, FlashHeld, RequestsOwned, Open, JournalHeld, Intent, ProtocolInv, IntentHeld
<1>5. QED  BY <1>1, <1>2, <1>4, DeviceInvHolds, PTL DEF Spec
-----------------------------------------------------------------------------
(* An older server, which applies a Send however often it arrives.         *)

\* The fields of a step that leaves the transaction and the loop alone.
LEMMA QuietPlain ==
    ASSUME GeneratorCompletionAssumption, Types, PlainHeld, Idle, setup' = setup,
           server'.epoch = server.epoch, late' \subseteq {PlainWire},
           send' = send \/ (send \in Sends /\ send' \in Sends /\ send'.mode = send.mode
                              /\ send'.epoch = send.epoch /\ send'.revision = send.revision),
           read' = read \/ (read \in Reads /\ read' \in Reads /\ read'.kind = read.kind)
    PROVE  /\ OnlyPlain' /\ tx' = tx /\ view' = view /\ bypass' = bypass /\ context' = context
           /\ StartStage' = StartStage
<1>1. /\ tx' = tx /\ view' = view /\ bypass' = bypass /\ context' = context /\ storeFault' = storeFault
      /\ journal' = journal /\ protocol' = protocol /\ resetCycle' = resetCycle
      /\ StartStage' = StartStage
  BY SetupFixed DEF Idle, flagVars, inputVars
<1>2. PlainWire' = PlainWire  BY DEF PlainWire
<1>3. (send' # send => send.at # "none") /\ (read' # read => read.at # "none")
  BY NoneFields
<1>4. OnlyPlain'  BY <1>1, <1>2, <1>3 DEF PlainHeld, OnlyPlain, Empty
<1>5. QED  BY <1>1, <1>4

\* A Send that is queued or under way is not out.
LEMMA NotYetOut ==
    ASSUME PlainHeld, send.at \in {"queued", "sent"} PROVE ~Out
BY DEF PlainHeld, OutKnown, Waits, Spent, Gone, Shut

\* The queue.
LEMMA QueuePlain ==
    ASSUME GeneratorCompletionAssumption, DeviceInv, PlainHeld, Queue PROVE PlainHeld'
<1>1. Types  BY DEF DeviceInv
<1> USE TypeFacts, <1>1
<1>2. /\ Idle /\ setup' = setup /\ server' = server /\ late' = late /\ effects' = effects
      /\ read' = read
  BY DEF Queue, SendDiscard, SendDispatch, SendUndelivered, serverVars, faultVars, Spend
<1>3. send \in Sends /\ send.at \in {"queued", "sent"}
  BY DEF Queue, SendDiscard, SendDispatch, SendUndelivered
<1>4. /\ send' \in Sends /\ send'.mode = send.mode /\ send'.epoch = send.epoch
      /\ send'.revision = send.revision /\ send'.current = send.current
      /\ \/ /\ send'.at = "done" /\ send'.dispatched = send.dispatched
            /\ ~Busy \/ send.at = "sent"
         \/ /\ send.at = "queued" /\ send.current /\ ~Busy
            /\ send'.at = "sent" /\ send'.dispatched
  <2>1. CASE SendDiscard \/ SendUndelivered
    <3>1. PICK k \in {"cancelled", "undelivered"} : send' = Answer(send, [kind |-> k])
      BY <2>1 DEF SendDiscard, SendUndelivered
    <3>2. [kind |-> k] \in Replies  BY ReplyFacts
    <3>3. ~Busy \/ send.at = "sent"  BY <2>1 DEF SendDiscard, SendUndelivered
    <3>4. QED  BY <1>3, <3>1, <3>2, <3>3, AnswerFields
  <2>2. CASE SendDispatch
    <3>1. /\ send' = [send EXCEPT !.at = "sent", !.dispatched = TRUE]
          /\ send.at = "queued" /\ send.current /\ ~Busy
      BY <2>2 DEF SendDispatch, StillTrue
    <3>2. QED  BY <1>3, <3>1, DispatchFields
  <2>3. QED  BY <2>1, <2>2 DEF Queue
<1>5. late \subseteq {PlainWire}  BY DEF PlainHeld, OnlyPlain
<1>6. /\ OnlyPlain' /\ tx' = tx /\ view' = view /\ bypass' = bypass /\ context' = context
      /\ StartStage' = StartStage
  BY <1>2, <1>3, <1>4, <1>5, QuietPlain
<1>7. ~Out /\ ~Out'  BY <1>2, <1>3, NotYetOut DEF Out
<1>8. OutKnown'  BY <1>7 DEF OutKnown, Out
<1>9. SendsPlain'
  BY <1>2, <1>3, <1>4, <1>6 DEF PlainHeld, SendsPlain, Resolved, BootReady, Busy
<1>10. QED  BY <1>2, <1>6, <1>8, <1>9 DEF PlainHeld

\* A Send whose answer, or whose failure, the device has.
LEMMA AnsweredPlain ==
    ASSUME GeneratorCompletionAssumption, DeviceInv, PlainHeld, Idle, setup' = setup,
           send.at = "sent", NEW r \in Replies, r.kind # "undelivered", send' = Answer(send, r),
           read' = read, server'.epoch = server.epoch, late' \subseteq {PlainWire},
           late' # {} => effects' = 0, effects' <= 1
    PROVE  PlainHeld'
<1>1. Types  BY DEF DeviceInv
<1> USE TypeFacts, <1>1
<1>2. send \in Sends /\ send.mode = "legacy" /\ tx.mode = "legacy"
  BY DEF PlainHeld, OnlyPlain, DeviceInv, RequestsOwned
<1>3. /\ send' \in Sends /\ send'.at = "done" /\ send'.mode = send.mode /\ send'.epoch = send.epoch
      /\ send'.revision = send.revision /\ send'.dispatched = send.dispatched /\ send'.reply = r
  BY <1>2, AnswerFields
<1>4. /\ OnlyPlain' /\ tx' = tx /\ view' = view /\ bypass' = bypass /\ context' = context
      /\ StartStage' = StartStage
  BY <1>2, <1>3, QuietPlain
<1>5. read.at # "done"  BY DEF PlainHeld, SendsPlain
<1>6. SendsPlain'
  BY <1>2, <1>3, <1>4, <1>5 DEF PlainHeld, SendsPlain, Resolved, BootReady
<1>7. ~tx.resend  BY DEF DeviceInv, Attempts
<1>8. Waits'
  BY <1>2, <1>3, <1>4, <1>7 DEF PlainHeld, SendsPlain, Waits, Spent, Gone, Resolved
<1>9. OutKnown'  BY <1>3, <1>5, <1>8 DEF OutKnown
<1>10. QED  BY <1>4, <1>6, <1>9 DEF PlainHeld

\* The server and the transport; others may write the row.
LEMMA ServerPlain ==
    ASSUME GeneratorCompletionAssumption, DeviceInv, PlainHeld, Server,
           Faults \cap {"crash", "restart", "protocol"} = {}
    PROVE  PlainHeld'
<1>1. Types  BY DEF DeviceInv
<1> USE TypeFacts, <1>1
<1>2. late \subseteq {PlainWire} /\ effects <= 1 /\ (late # {} => effects = 0)
  BY DEF PlainHeld, OnlyPlain, OutKnown
<1>3. ASSUME NEW w, Handle(w), effects = 0
      PROVE  server'.epoch = server.epoch /\ effects' <= 1 /\ (server'.stage \in {server.stage, Target})
  BY <1>3, HandleFacts
<1>4. CASE SendAnswered
  <2>1. /\ send.at = "sent" /\ Handle(Wire(send)) /\ Idle /\ setup' = setup /\ late' = late
        /\ read' = read /\ send' = Answer(send, AnswerOf(Wire(send), server'))
    BY <1>4 DEF SendAnswered, faultVars
  <2>2. late = {} /\ effects = 0  BY <2>1, NotYetOut DEF Out
  <2>3. server' \in Rows  BY <2>1, HandleFacts
  <2>4. AnswerOf(Wire(send), server') \in Replies /\ AnswerOf(Wire(send), server').kind # "undelivered"
    BY <2>3, ReplyFacts
  <2>5. QED  BY <1>3, <2>1, <2>2, <2>4, AnsweredPlain
<1>5. CASE SendAnswerLost \/ SendLost
  <2>1. /\ send.at = "sent" /\ Idle /\ setup' = setup /\ late' = late
        /\ read' = read /\ send' = Answer(send, [kind |-> "failed"])
        /\ Handle(Wire(send)) \/ (server' = server /\ effects' = effects)
    BY <1>5 DEF SendAnswerLost, SendLost, Spend, serverVars
  <2>2. late = {} /\ effects = 0  BY <2>1, NotYetOut DEF Out
  <2>3. [kind |-> "failed"] \in Replies /\ [kind |-> "failed"].kind # "undelivered"
    BY ReplyFacts
  <2>4. server'.epoch = server.epoch /\ effects' <= 1  BY <1>2, <1>3, <2>1, <2>2
  <2>5. QED  BY <2>1, <2>2, <2>3, <2>4, AnsweredPlain
<1>6. CASE SendLate
  <2>1. /\ send.at = "sent" /\ Idle /\ setup' = setup /\ late' = late \cup {Wire(send)}
        /\ read' = read /\ send' = Answer(send, [kind |-> "failed"])
        /\ server' = server /\ effects' = effects
    BY <1>6 DEF SendLate, Spend
  <2>2. late = {} /\ effects = 0  BY <2>1, NotYetOut DEF Out
  <2>3. [kind |-> "failed"] \in Replies /\ [kind |-> "failed"].kind # "undelivered"
    BY ReplyFacts
  <2>4. Wire(send) = PlainWire
    BY <2>1 DEF PlainHeld, OnlyPlain, Wire, PlainWire
  <2>5. QED  BY <2>1, <2>2, <2>3, <2>4, AnsweredPlain
<1>7. CASE ArriveLate
  <2>1. PICK w \in late : /\ Handle(w) /\ late' = late \ {w}
                          /\ UNCHANGED <<requestVars, touched, faultVars, tx, flagVars, inputVars, journal>>
    BY <1>7 DEF ArriveLate
  <2>2. Idle /\ setup' = setup /\ send' = send /\ read' = read
    BY <2>1 DEF Idle, requestVars, faultVars
  <2>3. late' = {} /\ effects = 0 /\ Out  BY <1>2, <2>1 DEF Out
  <2>4. server'.epoch = server.epoch /\ effects' <= 1 /\ (server'.stage \in {server.stage, Target})
    BY <1>3, <2>1, <2>3
  <2>5. /\ OnlyPlain' /\ tx' = tx /\ view' = view /\ bypass' = bypass /\ context' = context
        /\ StartStage' = StartStage
    BY <2>2, <2>3, <2>4, QuietPlain
  <2>6. SendsPlain'
    BY <2>2, <2>5 DEF PlainHeld, SendsPlain, Resolved, BootReady
  <2>7. /\ (Waits' <=> Waits) /\ (Spent' <=> Spent) /\ (Shut' <=> Shut)
    BY <2>2, <2>5 DEF Waits, Spent, Gone, Shut, Resolved
  <2>8. server.stage # StartStage => server'.stage # StartStage
    BY <2>4, SetupFacts
  <2>9. OutKnown'
    BY <2>2, <2>3, <2>5, <2>7, <2>8 DEF PlainHeld, OutKnown
  <2>10. QED  BY <2>4, <2>5, <2>6, <2>9 DEF PlainHeld
<1>8. CASE ReadAnswered \/ ReadLost
  <2>1. /\ read \in Reads /\ send' = send /\ server' = server /\ late' = late /\ effects' = effects
        /\ Idle /\ setup' = setup /\ ~Busy
        /\ \E r \in {Row(server), [kind |-> "cancelled"], [kind |-> "failed"]} : read' = Answer(read, r)
    BY <1>8 DEF ReadAnswered, ReadLost, serverVars, faultVars, Spend
  <2>2. PICK r \in {Row(server), [kind |-> "cancelled"], [kind |-> "failed"]} : read' = Answer(read, r)
    BY <2>1
  <2>3. r \in Replies /\ (r.kind = "row" => r = Row(server))  BY ReplyFacts
  <2>4. read' \in Reads /\ read'.at = "done" /\ read'.kind = read.kind /\ read'.reply = r
    BY <2>1, <2>2, <2>3, AnswerReadFields
  <2>5. /\ OnlyPlain' /\ tx' = tx /\ view' = view /\ bypass' = bypass /\ context' = context
        /\ StartStage' = StartStage
    BY <1>2, <2>1, <2>4, QuietPlain
  <2>6. SendsPlain'
    BY <2>1, <2>5 DEF PlainHeld, SendsPlain, Resolved, BootReady, Busy
  <2>7. /\ (Waits' <=> Waits) /\ (Spent' <=> Spent) /\ (Shut' <=> Shut) /\ (Out' <=> Out)
    BY <2>1, <2>5 DEF Waits, Spent, Gone, Shut, Resolved, Out
  <2>8. Row(server).row = server  BY ReplyFacts
  <2>9. OutKnown'
    BY <2>1, <2>3, <2>4, <2>5, <2>7, <2>8 DEF PlainHeld, OutKnown
  <2>10. QED  BY <1>2, <2>1, <2>5, <2>6, <2>9 DEF PlainHeld
<1>9. CASE OutsideWrite
  <2>1. /\ Idle /\ setup' = setup /\ send' = send /\ read' = read /\ late' = Conditional(late)
    BY <1>9 DEF OutsideWrite, Idle, requestVars, Spend
  <2>2. PICK stage \in Stages, count \in Counts :
          /\ server' = [server EXCEPT !.stage = stage, !.count = count, !.revision = @ + 1]
          /\ effects' = IF stage = server.stage THEN effects ELSE 0
    BY <1>9 DEF OutsideWrite
  <2>3. server'.epoch = server.epoch /\ server'.stage = stage  BY <2>2 DEF Rows
  <2>4. late' = {}  BY <1>2, <2>1 DEF Conditional, PlainWire
  <2>5. Out' => Out /\ server'.stage = server.stage  BY <2>2, <2>3, <2>4 DEF Out
  <2>6. /\ OnlyPlain' /\ tx' = tx /\ view' = view /\ bypass' = bypass /\ context' = context
        /\ StartStage' = StartStage
    BY <2>1, <2>3, <2>4, QuietPlain
  <2>7. SendsPlain'
    BY <2>1, <2>6 DEF PlainHeld, SendsPlain, Resolved, BootReady
  <2>8. /\ (Waits' <=> Waits) /\ (Spent' <=> Spent) /\ (Shut' <=> Shut)
    BY <2>1, <2>6 DEF Waits, Spent, Gone, Shut, Resolved
  <2>9. OutKnown'
    BY <2>1, <2>4, <2>5, <2>6, <2>8 DEF PlainHeld, OutKnown
  <2>10. effects' <= 1  BY <1>2, <2>2
  <2>11. QED  BY <2>6, <2>7, <2>9, <2>10 DEF PlainHeld
<1>10. CASE ServerRestart \/ ProtocolChange
  <2>1. CASE ServerRestart
    <3>1. "restart" \in Faults  BY <2>1 DEF ServerRestart, May
    <3>2. QED  BY <3>1
  <2>2. CASE ProtocolChange
    <3>1. "protocol" \in Faults  BY <2>2 DEF ProtocolChange, May
    <3>2. QED  BY <3>1
  <2>3. QED  BY <1>10, <2>1, <2>2
<1>11. QED  BY <1>4, <1>5, <1>6, <1>7, <1>8, <1>9, <1>10 DEF Server

\* The services of the loop.
LEMMA ServicePlain ==
    ASSUME GeneratorCompletionAssumption, DeviceInv, PlainHeld, server.protocol = 0,
           ServiceVerify \/ ServiceWithdraw \/ FaultRead \/ ProtocolProbe
    PROVE  PlainHeld'
<1>1. Types  BY DEF DeviceInv
<1> USE TypeFacts, <1>1
<1>2. /\ setup' = setup /\ server' = server /\ late' = late /\ effects' = effects /\ view' = view
      /\ bypass' = bypass /\ context' = context /\ journal' = journal /\ storeFault' = storeFault
      /\ resetCycle' = resetCycle /\ protocol' \in {protocol, 0}
  BY DEF ServiceVerify, ServiceWithdraw, FaultRead, ProtocolProbe, inputVars, serverVars, faultVars,
         flagVars
<1>3. StartStage' = StartStage  BY <1>2, SetupFixed
<1>4. ~FaultRead  BY DEF FaultRead, PlainHeld, OnlyPlain
<1>5. /\ tx'.mode = tx.mode /\ tx'.epoch = tx.epoch /\ tx'.revision = tx.revision
      /\ tx'.current = tx.current /\ tx'.confirmed = tx.confirmed /\ tx'.sent = tx.sent
      /\ tx'.superseded = tx.superseded /\ tx'.resend = tx.resend /\ tx'.dispatched = tx.dispatched
      /\ tx'.start = tx.start
  <2>1. tx' = tx \/ tx' = Cancelled(tx)
    BY DEF ServiceVerify, ServiceWithdraw, FaultRead, ProtocolProbe, Cancelled
  <2>2. QED  BY <2>1, CancelledFields
<1>6. /\ send'.at = send.at
      /\ send.at # "none" => /\ send'.mode = send.mode /\ send'.epoch = send.epoch
                             /\ send'.revision = send.revision /\ send'.current = send.current
                             /\ send'.dispatched = send.dispatched /\ send'.reply = send.reply
  <2>1. CASE ServiceWithdraw
    <3>1. send \in Sends /\ send' = [send EXCEPT !.cancelled = TRUE]
      BY <2>1 DEF ServiceWithdraw
    <3>2. QED  BY <3>1, CancelFields
  <2>2. QED  BY <2>1 DEF ServiceVerify, FaultRead, ProtocolProbe, requestVars
<1>7. \/ read' = read
      \/ read'.at = "queued" /\ read'.kind = "legacy"
  <2>1. CASE ServiceVerify
    <3>1. read' = Asked("legacy")  BY <2>1 DEF ServiceVerify, PlainHeld, OnlyPlain
    <3>2. QED  BY <3>1, AskedFields
  <2>2. QED  BY <1>4, <2>1 DEF ServiceWithdraw, ProtocolProbe, requestVars
<1>8. OnlyPlain'
  <2>1. PlainWire' = PlainWire  BY DEF PlainWire
  <2>2. QED  BY <1>2, <1>5, <1>6, <1>7, <2>1 DEF PlainHeld, OnlyPlain, Empty
<1>9. SendsPlain'
  <2>1. read'.at = "done" => read.at = "done"  BY <1>7
  <2>2. QED
    BY <1>2, <1>3, <1>5, <1>6, <2>1, NoneFields DEF PlainHeld, SendsPlain, Resolved, BootReady
<1>10. /\ (Waits' <=> Waits) /\ (Spent' <=> Spent) /\ (Shut' <=> Shut) /\ (Out' <=> Out)
  BY <1>2, <1>3, <1>5, <1>6 DEF Waits, Spent, Gone, Shut, Resolved, Out
<1>11. OutKnown'
  BY <1>2, <1>3, <1>6, <1>7, <1>10 DEF PlainHeld, OutKnown
<1>12. QED  BY <1>2, <1>8, <1>9, <1>11 DEF PlainHeld

\* What a row does to the inputs of a device whose cycle was not just reset.
LEMMA ResetFacts ==
    ASSUME GeneratorCompletionAssumption, Types, NEW row \in Rows, ~resetCycle
    PROVE  /\ view \in Stages /\ Active(view) /\ ~Active(row.stage) => Resets(row)
           /\ ~Resets(row) => view # Unseen /\ (Active(view) <=> Active(row.stage))
           /\ view = StartStage /\ row.stage = StartStage => ~Resets(row)
<1> USE TypeFacts, TypesNow, SetupFacts
<1>1. row.stage \in Stages  BY DEF Rows
<1>2. Active(StartStage) /\ StartStage # Unseen  BY DEF Unseen, Stages
<1>3. QED  BY <1>1, <1>2 DEF Resets, Enters, Active, Unseen

\* A plain transaction, or none, sees a row: while its Send may be out it waits for it, or its
\* cycle is over.
LEMMA ObservePlain ==
    ASSUME GeneratorCompletionAssumption, DeviceInv, PlainHeld, NEW row \in Rows,
           ApplyInputs(row), setup' = setup, server' = server, effects' = effects,
           late' = late, storeFault' = storeFault, journal' = journal, protocol' = protocol,
           send.at \in {"none", "queued"},
           Out => IF row.stage = StartStage THEN Waits ELSE server.stage # StartStage,
           tx'.mode = tx.mode, tx'.epoch = tx.epoch, tx'.revision = tx.revision,
           tx'.start = tx.start, tx'.dispatched = tx.dispatched, tx'.resend => tx.resend,
           tx'.current <=> tx.current /\ ~Resets(row),
           send'.at \in {send.at, "none"},
           send'.at # "none" => /\ send'.mode = send.mode /\ send'.epoch = send.epoch
                                /\ send'.revision = send.revision
                                /\ send'.dispatched = send.dispatched
                                /\ send'.current => send.current /\ ~Resets(row),
           read'.at # "done", read'.at # "none" => read.at # "none" /\ read'.kind = read.kind,
           \* what becomes of the transaction
           send'.at = "none" /\ send.at = "none" => (tx.sent => tx'.sent),
           send'.at # "none" \/ tx'.resend => tx'.sent,
           tx'.current /\ tx'.sent /\ row.stage = StartStage /\ tx.start = StartStage /\ ~Resolved
               /\ tx.mode = "legacy" => ~Resolved',
           send'.at = "queued" /\ send'.current => row.stage = StartStage
    PROVE  PlainHeld'
<1>1. Types  BY DEF DeviceInv
<1> USE TypeFacts, TypesNow, SetupFacts, <1>1
<1>2. StartStage' = StartStage /\ PlainWire' = PlainWire  BY SetupFixed DEF PlainWire
<1>3. /\ view' = row.stage /\ view' \in Stages /\ BootReady' /\ resetCycle' = FALSE
      /\ context'.epoch = context.epoch
  <2>1. context' \in {context, Worthless(context)}  BY SnapshotFacts
  <2>2. QED  BY <2>1, SnapshotFacts, WorthlessFields
<1>4. ~resetCycle  BY DEF PlainHeld, OnlyPlain
<1>5. OnlyPlain'  BY <1>2, <1>3 DEF PlainHeld, OnlyPlain, Empty
<1>6. send.at # "none" => send \in Sends /\ tx.mode = "legacy"
  BY DEF PlainHeld, OnlyPlain, DeviceInv, RequestsOwned
<1>7. SendsPlain'
  <2>1. tx'.mode = "legacy" => tx'.start = StartStage'
    BY <1>2 DEF PlainHeld, SendsPlain
  <2>2. tx'.mode = "legacy" /\ tx'.current => Active(view)' /\ BootReady'
    BY <1>3, <1>4, ResetFacts DEF PlainHeld, SendsPlain, Active
  <2>3. tx'.mode = "legacy" /\ tx'.dispatched => tx'.sent /\ ~tx'.resend /\ send'.at = "none"
    BY DEF PlainHeld, SendsPlain
  <2>4. send'.at = "queued" => ~send'.dispatched  BY DEF PlainHeld, SendsPlain
  <2>5. send'.at = "queued" /\ send'.current =>
          tx'.current /\ tx'.sent /\ ~Resolved' /\ view' = StartStage'
    <3> SUFFICES ASSUME send'.at = "queued", send'.current
                 PROVE  tx'.current /\ tx'.sent /\ ~Resolved' /\ view' = StartStage'
      OBVIOUS
    <3>1. send.at = "queued" /\ send.current /\ ~Resets(row)  OBVIOUS
    <3>2. tx.current /\ tx.sent /\ ~Resolved /\ view = StartStage /\ tx.mode = "legacy"
          /\ tx.start = StartStage
      BY <1>6, <3>1 DEF PlainHeld, SendsPlain
    <3>3. QED  BY <1>2, <1>3, <3>1, <3>2
  <2>6. send'.at \notin {"sent", "done"}  OBVIOUS
  <2>7. QED  BY <2>1, <2>2, <2>3, <2>4, <2>5, <2>6 DEF SendsPlain
<1>8. Out' <=> Out  BY DEF Out
<1>9. ASSUME Out, row.stage = StartStage PROVE Waits'
  <2>1. /\ Waits /\ send.at = "none" /\ tx.mode = "legacy" /\ tx.start = StartStage
        /\ view = StartStage
    BY <1>9 DEF Waits, Spent, Gone, PlainHeld, SendsPlain
  <2>2. ~Resets(row)  BY <1>4, <1>9, <2>1, ResetFacts
  <2>3. send'.at = "none" /\ tx'.current /\ tx'.sent /\ ~tx'.resend /\ tx'.dispatched
    BY <2>1, <2>2 DEF Waits, Spent, Gone
  <2>4. ~Resolved'  BY <1>9, <2>1, <2>3 DEF Waits
  <2>5. QED  BY <1>2, <1>3, <1>9, <2>1, <2>3, <2>4 DEF Waits, Spent
<1>10. ASSUME Out, row.stage # StartStage PROVE server'.stage # StartStage' /\ (Spent' \/ Shut')
  <2>1. server.stage # StartStage /\ (Spent \/ Shut)
    BY <1>10 DEF PlainHeld, OutKnown, Waits
  <2>2. send.at = "none" /\ send'.at = "none"
    BY <2>1 DEF Spent, Gone, Shut
  <2>3. CASE Spent /\ ~Resets(row)
    <3>1. tx'.mode = "legacy" /\ tx'.current /\ tx'.sent /\ ~tx'.resend /\ tx'.dispatched
      BY <2>2, <2>3 DEF Spent, Gone
    <3>2. QED  BY <1>2, <2>1, <2>2, <3>1 DEF Spent
  <2>4. CASE Resets(row) \/ Shut
    <3>1. ~tx'.current  BY <2>4 DEF Shut
    <3>2. QED  BY <1>2, <1>3, <1>10, <2>1, <2>2, <3>1 DEF Shut
  <2>5. QED  BY <2>1, <2>3, <2>4
<1>11. OutKnown'
  <2>1. late' # {} => effects' = 0  BY DEF PlainHeld, OutKnown
  <2>2. Out' => send'.at # "sent"  OBVIOUS
  <2>3. Out' => Waits' \/ (server'.stage # StartStage' /\ (Spent' \/ Shut'))
    BY <1>8, <1>9, <1>10
  <2>4. QED  BY <2>1, <2>2, <2>3 DEF OutKnown
<1>12. QED  BY <1>5, <1>7, <1>11 DEF PlainHeld

\* A plain transaction sees a row.
LEMMA ApplyPlain ==
    ASSUME GeneratorCompletionAssumption, DeviceInv, PlainHeld, NEW row \in Rows, tx.mode = "legacy",
           NEW r \in {NoRequest, read}, r.at # "done", NEW waiting \in BOOLEAN,
           ApplyInputs(row), ApplyLegacy(After(tx, row), r, waiting, row),
           UNCHANGED <<storeFault, protocol, journal, server, effects, faultVars>>,
           send.at \in {"none", "queued"},
           Out => IF row.stage = StartStage THEN Waits ELSE server.stage # StartStage
    PROVE  PlainHeld'
<1>1. Types  BY DEF DeviceInv
<1> USE TypeFacts, TypesNow, SetupFacts, <1>1
<1>2. ~resetCycle /\ setup' = setup  BY DEF PlainHeld, OnlyPlain, faultVars
<1> DEFINE t == After(tx, row)
<1>3. /\ t \in Txs /\ t.mode = "legacy" /\ t.epoch = tx.epoch /\ t.revision = tx.revision
      /\ t.start = tx.start /\ t.sent = tx.sent /\ t.confirmed = tx.confirmed
      /\ t.superseded = tx.superseded /\ t.dispatched = tx.dispatched /\ t.resend = tx.resend
      /\ (t.current <=> tx.current /\ ~Resets(row))
  BY AfterFields, Zenon
<1>4. ApplyLegacy(t, r, waiting, row) /\ r \in {NoRequest} \cup Reads  OBVIOUS
<1> HIDE DEF t
<1>5. /\ send'.at \in {send.at, "none"}
      /\ send'.at # "none" => /\ send'.mode = send.mode /\ send'.epoch = send.epoch
                              /\ send'.revision = send.revision
      /\ read'.at \in {r.at, "none"} /\ (read'.at # "none" => read'.kind = r.kind)
      /\ late' = late
  <2>1. Orphans = late  BY DEF Orphans
  <2>2. QED  BY <1>3, <1>4, <2>1, ApplyLegacyFacts
<1>6. send'.at # "none" => /\ send'.dispatched = send.dispatched
                           /\ send'.current => send.current /\ ~Resets(row)
  <2>1. send' = NoRequest \/ send' = Carried(send, row)  BY <1>4 DEF ApplyLegacy
  <2>2. CASE send = NoRequest  BY <2>1, <2>2, NoneFields DEF Carried
  <2>3. CASE send \in Sends  BY <2>1, <2>3, StaleFields, NoneFields DEF Carried
  <2>4. QED  BY <2>2, <2>3
<1>7. CASE ~Observes(t, row)
  <2>1. tx' = t  BY <1>4, <1>7 DEF ApplyLegacy
  <2>2. (send'.at # "none" \/ tx'.resend => tx'.sent)
        /\ (send'.at = "none" /\ send.at = "none" => (tx.sent => tx'.sent))
    BY <1>3, <1>5, <2>1 DEF PlainHeld, SendsPlain
  <2>3. Resolved' <=> Resolved  BY <1>3, <2>1 DEF Resolved
  <2>4. send'.at = "queued" /\ send'.current => FALSE
    <3> SUFFICES ASSUME send'.at = "queued", send'.current PROVE FALSE  OBVIOUS
    <3>1. send.at = "queued" /\ send.current /\ ~Resets(row)  BY <1>5, <1>6
    <3>2. tx.sent /\ tx.current /\ Active(view)
      BY <3>1 DEF PlainHeld, SendsPlain
    <3>3. Active(row.stage)  BY <1>2, <3>1, <3>2, ResetFacts
    <3>4. QED  BY <1>3, <1>7, <3>1, <3>2, <3>3 DEF Observes
  <2>5. QED  BY <1>2, <1>3, <1>5, <1>6, <2>1, <2>2, <2>3, <2>4, NoneFields, ObservePlain
<1>8. CASE Observes(t, row)
  <2>1. tx' = Observed(t, row)  BY <1>4, <1>8 DEF ApplyLegacy
  <2>2. LET u == Observed(t, row) IN
        /\ u.mode = t.mode /\ u.epoch = t.epoch /\ u.revision = t.revision /\ u.start = t.start
        /\ (u.sent <=> (Over(t, row) \/ ~Cancels(t, row)))
        /\ (u.confirmed <=> SeenDone(t, row)) /\ (u.superseded <=> SeenPast(t, row))
        /\ u.dispatched = t.dispatched /\ u.current = t.current
        /\ (u.resend <=> (t.resend /\ ~Leaves(t, row) /\ ~Over(t, row)))
    BY <1>3, ObservedFields, Zenon
  <2>3. /\ tx'.mode = tx.mode /\ tx'.epoch = tx.epoch /\ tx'.revision = tx.revision
        /\ tx'.start = tx.start /\ tx'.dispatched = tx.dispatched /\ tx'.current = t.current
        /\ (tx'.sent <=> (Over(t, row) \/ ~Cancels(t, row)))
        /\ (tx'.confirmed <=> SeenDone(t, row)) /\ (tx'.superseded <=> SeenPast(t, row))
        /\ (tx'.resend => tx.resend /\ ~Leaves(t, row))
    BY <1>3, <2>1, <2>2
  <2>4. Cancels(t, row) => send'.at = "none"
    BY <1>4, <1>8, NoneFields DEF ApplyLegacy, Renews
  <2>5. Cancels(t, row) <=> Leaves(t, row) /\ send.at = "queued"  BY DEF Cancels
  <2>6. (send'.at # "none" \/ tx'.resend => tx'.sent)
        /\ (send'.at = "none" /\ send.at = "none" => (tx.sent => tx'.sent))
    BY <2>3, <2>4, <2>5
  <2>7. row.stage = StartStage /\ ~Resolved => ~Resolved'
    <3>1. row.stage = StartStage => row.stage # Target /\ row.stage # "repaired"  OBVIOUS
    <3>2. QED  BY <1>3, <2>3, <3>1 DEF SeenDone, SeenPast, Resolved
  <2>8. send'.at = "queued" /\ send'.current => row.stage = StartStage
    <3>1. tx.start = StartStage  BY DEF PlainHeld, SendsPlain
    <3>2. QED  BY <1>3, <1>5, <2>4, <2>5, <3>1 DEF Leaves
  <2>9. QED
    BY <1>2, <1>3, <1>5, <1>6, <2>3, <2>6, <2>7, <2>8, NoneFields, ObservePlain
<1>9. QED  BY <1>7, <1>8

\* A full snapshot.
LEMMA SnapshotPlain ==
    ASSUME GeneratorCompletionAssumption, DeviceInv, PlainHeld, FullSnapshot PROVE PlainHeld'
<1>1. Types  BY DEF DeviceInv
<1> USE TypeFacts, TypesNow, SetupFacts, <1>1
<1>2. /\ ~Busy /\ protocol' = protocol /\ server' = server /\ effects' = effects
      /\ ApplyInputs(server) /\ UNCHANGED <<storeFault, journal, faultVars>>
      /\ IF tx.mode = "legacy" THEN ApplyLegacy(After(tx, server), read, verify, server)
         ELSE /\ tx' = Refreshed(After(tx, server))
              /\ send' = Carried(send, server) /\ read' = Carried(read, server)
              /\ UNCHANGED <<verify, late>>
  BY DEF FullSnapshot, PlainHeld, OnlyPlain, Refreshed
<1>3. send.at \in {"none", "queued"} /\ read.at # "done"
  BY <1>2, NoneFields DEF Busy, Sends
<1>4. Out => IF server.stage = StartStage THEN Waits ELSE server.stage # StartStage
  BY DEF PlainHeld, OutKnown
<1>5. CASE tx.mode = "legacy"  BY <1>2, <1>3, <1>4, <1>5, ApplyPlain
<1>6. CASE tx.mode # "legacy"
  <2>1. send.at = "none" /\ read.at = "none" /\ ~tx.sent /\ ~tx.resend
    BY <1>6 DEF PlainHeld, OnlyPlain, SendsPlain, DeviceInv, RequestsOwned, Txs, Attempts
  <2>2. send = NoRequest /\ read = NoRequest  BY <2>1
  <2>3. send' = NoRequest /\ read' = NoRequest /\ late' = late
    BY <1>2, <1>6, <2>2, NoneFields DEF Carried
  <2>4. LET t == After(tx, server) IN
        /\ t \in Txs /\ t.mode = tx.mode /\ t.epoch = tx.epoch /\ t.revision = tx.revision
        /\ t.start = tx.start /\ t.sent = tx.sent /\ t.dispatched = tx.dispatched
        /\ t.resend = tx.resend /\ (t.current <=> tx.current /\ ~Resets(server))
    BY AfterFields, Zenon
  <2>5. /\ tx'.mode = tx.mode /\ tx'.epoch = tx.epoch /\ tx'.revision = tx.revision
        /\ tx'.start = tx.start /\ tx'.sent = tx.sent /\ tx'.dispatched = tx.dispatched
        /\ tx'.resend = tx.resend /\ (tx'.current <=> tx.current /\ ~Resets(server))
    <3> DEFINE t == After(tx, server)
    <3> HIDE DEF t
    <3>1. LET u == Refreshed(t) IN
          /\ u.mode = t.mode /\ u.epoch = t.epoch /\ u.revision = t.revision
          /\ u.start = t.start /\ u.sent = t.sent /\ u.dispatched = t.dispatched
          /\ u.resend = t.resend /\ u.current = t.current
      BY <2>4, RefreshedFields DEF t
    <3>2. tx' = Refreshed(t)  BY <1>2, <1>6 DEF t
    <3>3. QED  BY <2>4, <3>1, <3>2 DEF t
  <2>6. setup' = setup /\ storeFault' = storeFault /\ journal' = journal
    BY <1>2 DEF faultVars
  <2>7. QED
    BY <1>2, <1>3, <1>4, <1>6, <2>1, <2>3, <2>5, <2>6, NoneFields, ObservePlain
<1>7. QED  BY <1>5, <1>6

\* The answers of a plain Send and of its read: only one that did not go out is repeated.
LEMMA AnswersPlain ==
    ASSUME GeneratorCompletionAssumption, DeviceInv, PlainHeld, Answers PROVE PlainHeld'
<1>1. Types  BY DEF DeviceInv
<1> USE TypeFacts, TypesNow, SetupFacts, <1>1
<1>2. LegacySendResult \/ LegacyVerifyResult
  BY NoneFields
  DEF Answers, ConditionalSendResult, ConditionalVerifyResult, FaultResult, PlainHeld, OnlyPlain
<1>3. CASE LegacySendResult
  <2>1. /\ setup' = setup /\ storeFault' = storeFault
        /\ resetCycle' = resetCycle /\ protocol' = protocol
        /\ view' = view /\ bypass' = bypass /\ context' = context
        /\ journal' = journal /\ server' = server /\ effects' = effects
    BY <1>3 DEF LegacySendResult, flagVars, inputVars, faultVars
  <2>2. /\ send \in Sends /\ send.at = "done" /\ send.mode = "legacy" /\ tx.mode = "legacy"
        /\ tx.attempts < MaxAttempts /\ ~tx.resend /\ tx.sent /\ ~tx.dispatched
        /\ tx.start = StartStage /\ read.at # "done"
    BY <1>3, NoneFields
    DEF LegacySendResult, DeviceInv, RequestsOwned, Attempts, PlainHeld, SendsPlain
  <2>3. send' = NoRequest /\ (read' = read \/ read' = NoRequest) /\ late' = late
    BY <1>3, <2>2 DEF LegacySendResult, RenewToken, Orphans
  <2>4. StartStage' = StartStage /\ PlainWire' = PlainWire  BY <2>1, SetupFixed DEF PlainWire
  <2>5. /\ tx'.mode = "legacy" /\ tx'.epoch = tx.epoch /\ tx'.revision = tx.revision
        /\ tx'.start = tx.start /\ tx'.current = tx.current /\ tx'.confirmed = tx.confirmed
        /\ tx'.superseded = tx.superseded /\ (tx'.resend => tx'.sent)
        /\ \/ ~tx'.dispatched /\ (~send.dispatched \/ send.reply.kind = "undelivered")
           \/ tx'.dispatched /\ tx'.sent /\ ~tx'.resend /\ send.dispatched
    <3>1. CASE tx' = Withdrawn(tx) /\ ~send.dispatched  BY <2>2, <3>1, WithdrawnFields
    <3>2. CASE tx' = NeverSent(tx) /\ ~send.dispatched  BY <2>2, <3>2, NeverSentFields
    <3>3. CASE \E b \in BOOLEAN : /\ tx' = Attempted(tx, b)
                                  /\ b => send.reply.kind = "undelivered"
      <4>1. PICK b \in BOOLEAN : tx' = Attempted(tx, b) /\ (b => send.reply.kind = "undelivered")
        BY <3>3
      <4>2. send.at # "none" /\ tx \in Txs /\ tx.attempts < MaxAttempts  BY <2>2
      <4>3. LET u == Attempted(tx, b) IN
            /\ u.mode = tx.mode /\ u.epoch = tx.epoch /\ u.revision = tx.revision
            /\ u.start = tx.start /\ u.sent = tx.sent /\ u.confirmed = tx.confirmed
            /\ u.superseded = tx.superseded /\ u.current = tx.current
            /\ (u.dispatched <=> (tx.dispatched \/ (send.dispatched /\ ~b)))
        BY <4>2, AttemptedFields, Zenon
      <4>4. tx'.resend => b
        <5>1. Attempted(tx, b).resend =>
                (IF b THEN tx.attempts + (IF send.dispatched THEN 1 ELSE 0) < MaxAttempts ELSE tx.resend)
          BY <2>2, <4>2, AttemptedFields
        <5>2. QED  BY <2>2, <4>1, <5>1
      <4>5. QED  BY <2>2, <4>1, <4>3, <4>4
    <3>4. QED
      BY <1>3, <3>1, <3>2, <3>3 DEF LegacySendResult
  <2>6. OnlyPlain'
    BY <2>1, <2>3, <2>4, <2>5, NoneFields DEF PlainHeld, OnlyPlain, Empty
  <2>7. SendsPlain'
    BY <2>1, <2>2, <2>3, <2>4, <2>5, NoneFields DEF PlainHeld, SendsPlain, BootReady
  <2>8. Out' <=> Out  BY <2>1, <2>3 DEF Out
  <2>9. Out => /\ tx'.dispatched /\ tx'.sent /\ ~tx'.resend /\ tx'.current /\ ~Resolved'
               /\ view = StartStage
    BY <2>2, <2>5 DEF PlainHeld, SendsPlain, OutKnown, Waits, Spent, Gone, Shut, Resolved
  <2>10. Out' => Waits'
    BY <2>1, <2>3, <2>4, <2>5, <2>8, <2>9, NoneFields DEF Waits, Spent
  <2>11. OutKnown'
    BY <2>1, <2>2, <2>3, <2>10, NoneFields DEF PlainHeld, OutKnown
  <2>12. QED  BY <2>1, <2>6, <2>7, <2>11 DEF PlainHeld
<1>4. CASE LegacyVerifyResult
  <2>1. /\ storeFault' = storeFault /\ protocol' = protocol /\ journal' = journal
        /\ server' = server /\ effects' = effects
    BY <1>4 DEF LegacyVerifyResult
  <2>2. /\ read \in Reads /\ read.at = "done" /\ tx.mode = "legacy"
        /\ send.at \in {"none", "queued"}
    BY <1>4, NoneFields
    DEF LegacyVerifyResult, DeviceInv, RequestsOwned, PlainHeld, SendsPlain, Sends
  <2>3. CASE Void(read)
    <3>1. /\ setup' = setup /\ tx' = tx /\ send' = send /\ read' = NoRequest /\ late' = late
          /\ view' = view /\ bypass' = bypass /\ context' = context /\ resetCycle' = resetCycle
      BY <1>4, <2>3 DEF LegacyVerifyResult, inputVars, faultVars
    <3>2. StartStage' = StartStage /\ PlainWire' = PlainWire  BY <3>1, SetupFixed DEF PlainWire
    <3>3. OnlyPlain'
      BY <2>1, <3>1, <3>2, NoneFields DEF PlainHeld, OnlyPlain, Empty
    <3>4. SendsPlain'
      BY <3>1, <3>2, NoneFields DEF PlainHeld, SendsPlain, Resolved, BootReady
    <3>5. /\ (Waits' <=> Waits) /\ (Spent' <=> Spent) /\ (Shut' <=> Shut) /\ (Out' <=> Out)
      BY <2>1, <3>1, <3>2 DEF Waits, Spent, Gone, Shut, Resolved, Out
    <3>6. OutKnown'
      BY <2>1, <3>1, <3>2, <3>5, NoneFields DEF PlainHeld, OutKnown
    <3>7. QED  BY <2>1, <3>3, <3>4, <3>6 DEF PlainHeld
  <2>4. CASE ~Void(read)
    <3> DEFINE row == read.reply.row
               t   == After(tx, row)
    <3>1. row \in Rows /\ read.reply.kind = "row"  BY <2>2, <2>4, ReplyRow DEF Void, Reads
    <3>2. ApplyInputs(row)  BY <1>4, <2>4 DEF LegacyVerifyResult
    <3>3. Out => IF row.stage = StartStage THEN Waits ELSE server.stage # StartStage
      BY <2>2, <3>1 DEF PlainHeld, OutKnown
    <3>4. CASE Observes(t, row) /\ MayResend(t, row)
      <4>1. PICK admitted \in BOOLEAN :
              /\ Queues(admitted) /\ Submit(t, TRUE, admitted)
              /\ tx' = IF admitted THEN Repeated(t) ELSE t
        BY <1>4, <2>4, <3>4 DEF LegacyVerifyResult, Repeated
      <4>2. read' = NoRequest /\ late' = late
        BY <1>4, <2>4, <3>4 DEF LegacyVerifyResult
      <4>3. /\ t.resend /\ ~t.confirmed /\ ~t.superseded /\ t.current /\ row.stage = t.start
            /\ t.sent
        BY <3>4 DEF MayResend, Observes
      <4> HIDE DEF row
      <4>4. /\ t \in Txs /\ t.mode = "legacy" /\ t.epoch = tx.epoch /\ t.revision = tx.revision
            /\ t.start = tx.start /\ t.sent = tx.sent /\ t.dispatched = tx.dispatched
            /\ t.resend = tx.resend /\ (t.current <=> tx.current /\ ~Resets(row))
        BY <2>2, <3>1, AfterFields, Zenon
      <4> HIDE DEF t
      <4>5. LET u == Repeated(t) IN
            /\ u.mode = t.mode /\ u.epoch = t.epoch /\ u.revision = t.revision /\ u.start = t.start
            /\ u.sent = t.sent /\ u.confirmed = t.confirmed /\ u.superseded = t.superseded
            /\ u.dispatched = t.dispatched /\ u.current = t.current /\ u.resend = FALSE
        BY <4>4, RepeatedFields
      <4>6. LET s == Queued(t, TRUE) IN
            /\ s.at = "queued" /\ s.mode = t.mode /\ s.epoch = t.epoch /\ s.revision = t.revision
            /\ s.dispatched = FALSE /\ s.reply.kind = "none"
        BY <4>4, QueuedFields, Zenon
      <4>7. \/ tx' = t /\ send' = NoRequest
            \/ tx' = Repeated(t) /\ send' = Queued(t, TRUE)
        BY <4>1 DEF Submit
      <4>8. /\ tx'.mode = "legacy" /\ tx'.epoch = tx.epoch /\ tx'.revision = tx.revision
            /\ tx'.start = tx.start /\ tx'.sent /\ ~tx'.confirmed /\ ~tx'.superseded
            /\ tx'.dispatched = tx.dispatched /\ tx'.current
            /\ send'.at \in {"none", "queued"}
            /\ send'.at # "none" => /\ send'.mode = "legacy" /\ send'.epoch = tx.epoch
                                    /\ send'.revision = tx.revision /\ ~send'.dispatched
        BY <4>3, <4>4, <4>5, <4>6, <4>7, NoneFields
      <4>9. setup' = setup  BY <4>1, CostFacts, SpendFacts DEF Queues
      <4>10. StartStage' = StartStage /\ PlainWire' = PlainWire  BY <4>9, SetupFixed DEF PlainWire
      <4>11. /\ view' = StartStage /\ BootReady' /\ resetCycle' = FALSE
             /\ context'.epoch = context.epoch
        <5>1. view' = row.stage /\ BootReady' /\ resetCycle' = FALSE
              /\ context' \in {context, Worthless(context)}
          BY <3>1, <3>2, SnapshotFacts
        <5>2. tx.start = StartStage  BY <2>2 DEF PlainHeld, SendsPlain
        <5>3. QED  BY <4>3, <4>4, <5>1, <5>2, WorthlessFields
      <4>12. ~tx.dispatched  BY <2>2, <4>3, <4>4 DEF PlainHeld, SendsPlain
      <4>13. ~Out
        <5>1. row.stage = StartStage
          BY <2>2, <4>3, <4>4 DEF PlainHeld, SendsPlain
        <5>2. QED  BY <3>3, <4>3, <4>4, <5>1 DEF Waits, Spent
      <4>14. OnlyPlain'
        BY <2>1, <2>2, <4>2, <4>8, <4>10, <4>11, NoneFields DEF PlainHeld, OnlyPlain, Empty
      <4>15. SendsPlain'
        <5>1. Active(view)'  BY <4>11, <4>10 DEF Active
        <5>2. tx'.start = StartStage  BY <2>2, <4>8 DEF PlainHeld, SendsPlain
        <5>3. QED
          BY <4>2, <4>8, <4>10, <4>11, <4>12, <5>1, <5>2, NoneFields DEF SendsPlain, Resolved
      <4>16. ~Out'  BY <2>1, <4>2, <4>13 DEF Out
      <4>17. OutKnown'  BY <4>16 DEF OutKnown, Out
      <4>18. QED  BY <2>1, <4>14, <4>15, <4>17 DEF PlainHeld
    <3>5. CASE ~(Observes(t, row) /\ MayResend(t, row))
      <4>1. ApplyLegacy(After(tx, row), NoRequest, FALSE, row) /\ UNCHANGED faultVars
        BY <1>4, <2>4, <3>5 DEF LegacyVerifyResult
      <4> HIDE DEF row
      <4>2. QED  BY <2>1, <2>2, <3>1, <3>2, <3>3, <4>1, NoneFields, ApplyPlain
    <3>6. QED  BY <3>4, <3>5
  <2>5. QED  BY <2>3, <2>4
<1>5. QED  BY <1>2, <1>3, <1>4

\* A plain Send is asked for while none is out, and none has arrived.
LEMMA SubmitPlain ==
    ASSUME GeneratorCompletionAssumption, DeviceInv, PlainHeld, ~Out, BootReady, view = StartStage,
           NEW t \in Txs, t.mode = "legacy", t.epoch = 0, t.revision = 0, t.start = StartStage,
           t.current, ~t.sent, ~t.confirmed, ~t.superseded, ~t.dispatched, ~t.resend,
           NEW admitted \in BOOLEAN, LegacySubmit(t, admitted), read' \in {read, NoRequest},
           setup' = setup, server' = server, effects' = effects, late' = late, journal' = journal,
           UNCHANGED flagVars, UNCHANGED inputVars
    PROVE  PlainHeld'
<1>1. Types  BY DEF DeviceInv
<1> USE TypeFacts, TypesNow, SetupFacts, <1>1
<1>2. StartStage' = StartStage /\ PlainWire' = PlainWire  BY SetupFixed DEF PlainWire
<1>3. /\ view' = StartStage /\ BootReady' /\ context' = context /\ storeFault' = storeFault
      /\ protocol' = protocol /\ resetCycle' = resetCycle /\ Active(view)'
  BY DEF inputVars, flagVars, BootReady, Active
<1>4. /\ tx'.mode = "legacy" /\ tx'.current = t.current /\ ~tx'.confirmed /\ ~tx'.superseded
      /\ ~tx'.dispatched
      /\ \/ tx' = t /\ send' = NoRequest
         \/ tx'.sent /\ tx'.start = view /\ ~tx'.resend /\ send'.at = "queued" /\ ~send'.dispatched
  BY LegacySubmitFacts
<1>5. /\ tx'.epoch = 0 /\ tx'.revision = 0
      /\ send' = NoRequest \/ (send'.mode = "legacy" /\ send'.epoch = 0 /\ send'.revision = 0)
  <2>1. CASE tx' = t /\ send' = NoRequest  BY <2>1
  <2>2. CASE tx' = Submitted(t) /\ send' = Queued(Submitted(t), FALSE)
    <3> DEFINE u == Submitted(t)
    <3>1. u \in Txs /\ u.mode = "legacy" /\ u.epoch = 0 /\ u.revision = 0
      BY SubmittedFields
    <3> HIDE DEF u
    <3>2. LET s == Queued(u, FALSE) IN s.mode = u.mode /\ s.epoch = u.epoch /\ s.revision = u.revision
      BY <3>1, QueuedFields
    <3>3. tx' = u /\ send' = Queued(u, FALSE)  BY <2>2 DEF u
    <3>4. QED  BY <3>1, <3>2, <3>3
  <2>3. QED  BY <2>1, <2>2 DEF LegacySubmit
<1>6. OnlyPlain'
  BY <1>2, <1>3, <1>4, <1>5, NoneFields DEF PlainHeld, OnlyPlain, Empty
<1>7. SendsPlain'
  BY <1>2, <1>3, <1>4, NoneFields DEF SendsPlain, Resolved
<1>8. late' = {} /\ effects' = 0  BY DEF Out
<1>9. OutKnown'  BY <1>8 DEF OutKnown, Out
<1>10. QED  BY <1>6, <1>7, <1>8, <1>9 DEF PlainHeld

\* The game's requests.
LEMMA GamePlain ==
    ASSUME GeneratorCompletionAssumption, DeviceInv, PlainHeld, Game PROVE PlainHeld'
<1>1. Types  BY DEF DeviceInv
<1> USE TypeFacts, TypesNow, SetupFacts, <1>1
<1>2. ~BeginConditional  BY DEF BeginConditional, PlainHeld, OnlyPlain
<1>3. CASE BeginLegacy
  <2>1. PICK admitted \in BOOLEAN : Queues(admitted) /\ LegacySubmit(BeganLegacy, admitted)
    BY <1>3 DEF BeginLegacy, BeganLegacy
  <2>2. /\ Gate /\ ~(tx.mode = "legacy" /\ tx.current)
        /\ read' = NoRequest /\ late' = Orphans /\ UNCHANGED flagVars /\ UNCHANGED inputVars
        /\ journal' = journal /\ server' = server /\ effects' = effects
    BY <1>3 DEF BeginLegacy, MayBegin
  <2>3. BootReady /\ view = StartStage /\ (bypass \/ context.valid)
    BY <2>2 DEF Gate
  <2>4. setup' = setup  BY <2>1 DEF Queues, Spend
  <2>5. ~Out
    BY <2>2, <2>3 DEF PlainHeld, OutKnown, Waits, Spent, Shut
  <2>6. late' = late
    <3>1. send.at # "sent"
      BY <2>2 DEF PlainHeld, SendsPlain, OnlyPlain, DeviceInv, RequestsOwned
    <3>2. QED  BY <2>2, <3>1 DEF Orphans
  <2>7. /\ BeganLegacy \in Txs /\ BeganLegacy.mode = "legacy" /\ BeganLegacy.start = StartStage
        /\ BeganLegacy.current /\ ~BeganLegacy.sent /\ ~BeganLegacy.confirmed
        /\ ~BeganLegacy.superseded /\ ~BeganLegacy.dispatched /\ ~BeganLegacy.resend
    BY <2>3, BeginningFields
  <2>8. BeganLegacy.epoch = 0 /\ BeganLegacy.revision = 0
    BY DEF BeganLegacy, NoTransaction
  <2>9. QED  BY <2>1, <2>2, <2>3, <2>4, <2>5, <2>6, <2>7, <2>8, SubmitPlain
<1>4. CASE ContinueLegacy
  <2>1. PICK admitted \in BOOLEAN : Queues(admitted) /\ LegacySubmit(tx, admitted)
    BY <1>4 DEF ContinueLegacy
  <2>2. /\ Gate /\ tx.mode = "legacy" /\ tx.current /\ ~Resolved /\ ~tx.sent
        /\ read' = read /\ UNCHANGED flagVars /\ UNCHANGED inputVars /\ journal' = journal
        /\ late' = late /\ server' = server /\ effects' = effects
    BY <1>4 DEF ContinueLegacy, MaySubmit, serverVars
  <2>3. BootReady /\ view = StartStage  BY <2>2 DEF Gate
  <2>4. setup' = setup  BY <2>1 DEF Queues, Spend
  <2>5. ~Out  BY <2>2 DEF PlainHeld, OutKnown, Waits, Spent, Shut
  <2>6. /\ tx.epoch = 0 /\ tx.revision = 0 /\ tx.start = StartStage /\ ~tx.dispatched /\ ~tx.resend
        /\ ~tx.confirmed /\ ~tx.superseded
    BY <2>2 DEF PlainHeld, OnlyPlain, SendsPlain, Resolved
  <2>7. QED  BY <2>1, <2>2, <2>3, <2>4, <2>5, <2>6, SubmitPlain
<1>5. QED  BY <1>2, <1>3, <1>4 DEF Game

\* It reads nothing else.
LEMMA StillPlain ==
    ASSUME GeneratorCompletionAssumption, PlainHeld, setup' = setup, tx' = tx, send' = send,
           read' = read, storeFault' = storeFault, resetCycle' = resetCycle, protocol' = protocol,
           view' = view, bypass' = bypass, context' = context, journal' = journal,
           server' = server, late' = late, effects' = effects
    PROVE  PlainHeld'
<1>1. StartStage' = StartStage /\ PlainWire' = PlainWire  BY SetupFixed DEF PlainWire
<1>2. OnlyPlain'  BY <1>1 DEF PlainHeld, OnlyPlain, Empty
<1>3. SendsPlain'  BY <1>1 DEF PlainHeld, SendsPlain, Resolved, BootReady, Active
<1>4. /\ (Waits' <=> Waits) /\ (Spent' <=> Spent) /\ (Shut' <=> Shut) /\ (Out' <=> Out)
  BY <1>1 DEF Waits, Spent, Gone, Shut, Resolved, Out
<1>5. OutKnown'  BY <1>1, <1>4 DEF PlainHeld, OutKnown
<1>6. QED  BY <1>2, <1>3, <1>5 DEF PlainHeld

\* The wire service, the wires and the restarts that are left: a restart waits for the row.
LEMMA DevicePlain ==
    ASSUME GeneratorCompletionAssumption, DeviceInv, PlainHeld, server.protocol = 0,
           Faults \cap {"crash", "restart", "protocol"} = {}, Device
    PROVE  PlainHeld'
<1>1. Types  BY DEF DeviceInv
<1> USE TypeFacts, TypesNow, SetupFacts, <1>1
<1>2. ~Crash  BY DEF Crash, May
<1>3. CASE ConfirmContext
  <2>1. /\ setup' = setup /\ storeFault' = storeFault /\ view' = view /\ journal' = journal
        /\ late' = late /\ effects' = effects /\ protocol' = 0 /\ server'.epoch = server.epoch
        /\ server'.stage = server.stage /\ server' \in Rows
        /\ context' \in {ContextOf(server', TRUE), ContextOf(server', FALSE)}
        /\ \/ tx' = tx /\ send' = send /\ read' = read
           \/ tx' = NotCurrent(tx) /\ send' = Stale(send) /\ read' = Stale(read)
        /\ ~NewEpoch => resetCycle' = resetCycle
        /\ NewEpoch \/ server.stage # view => context' = ContextOf(server, FALSE)
    BY <1>3, ConfirmFacts
  <2>2. ~NewEpoch  BY DEF NewEpoch, PlainHeld, OnlyPlain
  <2>3. /\ context'.epoch = server'.epoch
        /\ (server.stage # view => ~context'.valid)
    BY <2>1 DEF ContextOf
  <2>4. \/ tx' = tx /\ send' = send /\ read' = read /\ bypass' = bypass
        \/ /\ server.stage # view /\ ~bypass'
           /\ tx' = NotCurrent(tx) /\ send' = Stale(send) /\ read' = Stale(read)
    BY <1>3, <2>2 DEF ConfirmContext, NotCurrent
  <2>5. send.at \in {"none", "queued"} /\ read.at # "done"
    BY <1>3, NoneFields DEF ConfirmContext, Busy, Sends
  <2>6. StartStage' = StartStage /\ PlainWire' = PlainWire  BY <2>1, SetupFixed DEF PlainWire
  <2>7. /\ tx'.mode = tx.mode /\ tx'.epoch = tx.epoch /\ tx'.revision = tx.revision
        /\ tx'.start = tx.start /\ tx'.sent = tx.sent /\ tx'.dispatched = tx.dispatched
        /\ tx'.confirmed = tx.confirmed /\ tx'.superseded = tx.superseded /\ tx'.resend = tx.resend
        /\ tx' = tx \/ ~tx'.current
    BY <2>4, NotCurrentFields
  <2>8. /\ send'.at = send.at
        /\ send.at # "none" => /\ send'.mode = send.mode /\ send'.epoch = send.epoch
                               /\ send'.revision = send.revision
                               /\ send'.dispatched = send.dispatched
                               /\ (send'.current => send' = send /\ tx' = tx)
    BY <2>4, StaleFields, NoneFields
  <2>9. read'.at = read.at /\ (read.at # "none" => read'.kind = read.kind)
    BY <2>4, StaleReadFields, NoneFields
  <2>10. OnlyPlain'
    BY <2>1, <2>2, <2>3, <2>6, <2>7, <2>8, <2>9 DEF PlainHeld, OnlyPlain, Empty
  <2>11. SendsPlain'
    BY <2>1, <2>5, <2>6, <2>7, <2>8, <2>9
    DEF PlainHeld, SendsPlain, Resolved, BootReady, Active
  <2>12. Out' <=> Out  BY <2>1 DEF Out
  <2>13. Out => Waits' \/ (server'.stage # StartStage' /\ (Spent' \/ Shut'))
    <3> SUFFICES ASSUME Out PROVE Waits' \/ (server'.stage # StartStage' /\ (Spent' \/ Shut'))
      OBVIOUS
    <3>1. Waits \/ (server.stage # StartStage /\ (Spent \/ Shut))
      BY DEF PlainHeld, OutKnown
    <3>2. send.at = "none" /\ send'.at = "none"
      BY <2>5, <2>8, <3>1 DEF Waits, Spent, Gone, Shut
    <3>3. CASE Shut
      <4>1. server.stage # StartStage  BY <3>1, <3>3 DEF Waits, Spent, Shut
      <4>2. ~tx'.current  BY <2>7, <3>3 DEF Shut
      <4>3. view = StartStage => ~bypass' /\ ~context'.valid
        BY <2>3, <2>4, <3>3, <4>1 DEF Shut
      <4>4. QED  BY <2>1, <2>6, <3>2, <4>1, <4>2, <4>3 DEF Shut
    <3>4. CASE Spent /\ tx' = tx /\ send' = send
      <4>1. Spent' /\ (Resolved' <=> Resolved)  BY <3>4 DEF Spent, Gone, Resolved
      <4>2. Waits \/ server.stage # StartStage  BY <3>1
      <4>3. QED  BY <2>1, <2>6, <4>1, <4>2 DEF Waits
    <3>5. CASE Spent /\ ~(tx' = tx /\ send' = send)
      <4>1. server.stage # view /\ ~bypass' /\ ~tx'.current
        BY <2>4, <2>7, <3>5, NotCurrentFields
      <4>2. server.stage # StartStage  BY <3>1, <4>1 DEF Waits
      <4>3. QED  BY <2>1, <2>3, <2>6, <3>2, <4>1, <4>2 DEF Shut
    <3>6. QED  BY <3>1, <3>3, <3>4, <3>5 DEF Waits
  <2>14. OutKnown'
    BY <2>1, <2>5, <2>8, <2>9, <2>12, <2>13 DEF PlainHeld, OutKnown
  <2>15. QED  BY <2>1, <2>10, <2>11, <2>14 DEF PlainHeld
<1>4. CASE Settle \/ Replug
  <2>1. /\ setup' = setup /\ tx' = tx /\ send' = send /\ read' = read /\ storeFault' = storeFault
        /\ resetCycle' = resetCycle /\ protocol' = protocol /\ view' = view /\ bypass' = bypass
        /\ context' = context /\ journal' = journal /\ server' = server /\ late' = late
        /\ effects' = effects
    BY <1>4 DEF Settle, Replug, requestVars, flagVars, serverVars, faultVars
  <2>2. QED  BY <2>1, StillPlain
<1>5. CASE OfflineRestart
  <2>1. ~RestartBlocked /\ Reboot(journal) /\ setup' = setup
    BY <1>5 DEF OfflineRestart, Spend
  <2>2. journal = Empty  BY DEF PlainHeld, OnlyPlain
  <2>3. tx' = NoTransaction  BY <2>1, <2>2 DEF Reboot, Loaded, Empty
  <2>4. /\ send' = NoRequest /\ read' = NoRequest /\ journal' = Empty /\ storeFault' = FALSE
        /\ resetCycle' = FALSE /\ protocol' = Unknown /\ view' = Unseen /\ bypass' = FALSE
        /\ context' = NoContext /\ server' = server /\ effects' = effects
    BY <2>1, <2>2, IntentFacts DEF Reboot, RenewToken
  <2>5. send.at \in {"none", "queued"} /\ ~Busy
    BY <2>1, NoneFields DEF RestartBlocked, Busy, Sends
  <2>6. late' = late  BY <2>1, <2>5 DEF Reboot, RenewToken, Orphans
  <2>7. tx.mode = "legacy" => ~tx.durable  BY DEF DeviceInv, FlashHeld
  <2>8. Out => server.stage # StartStage
    <3> SUFFICES ASSUME Out, server.stage = StartStage PROVE FALSE  OBVIOUS
    <3>1. Waits  BY DEF PlainHeld, OutKnown
    <3>2. tx.mode = "legacy" /\ tx.current /\ tx.sent /\ ~Resolved /\ tx.dispatched
      BY <2>5, <3>1 DEF Waits, Spent, Gone
    <3>3. QED  BY <2>1, <2>7, <3>2 DEF RestartBlocked, Unresolved
  <2>9. /\ tx'.mode = "none" /\ tx'.epoch = 0 /\ tx'.revision = 0 /\ ~tx'.current /\ ~tx'.resend
        /\ context'.epoch = 0 /\ ~context'.valid
    BY <2>3, <2>4 DEF NoTransaction, NoContext
  <2>10. StartStage' = StartStage /\ PlainWire' = PlainWire
    BY <2>1, SetupFixed DEF PlainWire
  <2>11. OnlyPlain'
    BY <2>4, <2>6, <2>9, <2>10, NoneFields DEF PlainHeld, OnlyPlain, Empty, Unknown
  <2>12. SendsPlain'  BY <2>4, <2>9, NoneFields DEF SendsPlain
  <2>13. Out' <=> Out  BY <2>4, <2>6 DEF Out
  <2>14. Shut'  BY <2>4, <2>9, NoneFields DEF Shut
  <2>15. OutKnown'
    BY <2>4, <2>6, <2>8, <2>10, <2>13, <2>14, NoneFields DEF PlainHeld, OutKnown
  <2>16. QED  BY <2>4, <2>11, <2>12, <2>15 DEF PlainHeld
<1>6. QED  BY <1>2, <1>3, <1>4, <1>5 DEF Device

\* Every step, as long as the server stays an older one and the device keeps its power.
LEMMA PlainNext ==
    ASSUME GeneratorCompletionAssumption, DeviceInv, PlainHeld, server.protocol = 0,
           Faults \cap {"crash", "restart", "protocol"} = {}, [Next]_vars
    PROVE  PlainHeld'
<1>1. CASE Next
  <2>1. CASE Service
    <3>1. CASE FullSnapshot  BY <3>1, SnapshotPlain
    <3>2. CASE ~FullSnapshot  BY <2>1, <3>2, ServicePlain DEF Service
    <3>3. QED  BY <3>1, <3>2
  <2>2. QED
    BY <1>1, <2>1, QueuePlain, ServerPlain, AnswersPlain, GamePlain, DevicePlain DEF Next
<1>2. CASE UNCHANGED vars
  BY <1>2, StillPlain DEF vars, requestVars, flagVars, inputVars, serverVars, faultVars
<1>3. QED  BY <1>1, <1>2
-----------------------------------------------------------------------------
(* One completion is performed once.                                       *)

\* The server has CompleteGenerator for good, or the device keeps its power and the server
\* is neither restarted nor changed.  Without either, an older server may apply the same plain
\* Send again, and the device cannot know (network.ino 450-451).
Steady == Protocols = {1} \/ Faults \cap {"crash", "restart", "protocol"} = {}

\* A server that compares and sets, and an older one.
EffectInv ==
    /\ Steady /\ ProtocolInv
    /\ server.protocol = 1 => effects <= 1
    /\ server.protocol = 0 => PlainHeld

\* A step performs the completion at most once, and on a server that compares only while the row
\* is not yet at the target.
LEMMA PerformsOnce ==
    ASSUME GeneratorCompletionAssumption, DeviceInv, OneProtocol, [Next]_vars
    PROVE  /\ setup' = setup /\ server'.protocol = server.protocol
           /\ \/ effects' \in {effects, 0}
              \/ effects' <= effects + 1 /\ (server.stage # Target \/ server.protocol # 1)
<1>1. Types  BY DEF DeviceInv
<1> USE TypeFacts, <1>1
<1>2. server.protocol \in Protocols  BY DEF Rows
<1>3. CASE UNCHANGED vars \/ Queue
  BY <1>3
  DEF vars, Queue, SendDiscard, SendDispatch, SendUndelivered, serverVars, faultVars, Spend
<1>4. CASE Answers \/ Service  BY <1>4, AnswersPasses, ServicePasses DEF Passes
<1>5. CASE Game
  BY <1>5
  DEF Game, BeginLegacy, ContinueLegacy, BeginConditional, Queues, Spend, SaveFails, faultVars,
      serverVars
<1>6. CASE Device
  <2>1. CASE ConfirmContext  BY <2>1, ConfirmFacts
  <2>2. CASE Settle \/ Replug \/ Crash \/ OfflineRestart
    BY <2>2 DEF Settle, Replug, Crash, OfflineRestart, Reboot, Spend, serverVars, faultVars
  <2>3. QED  BY <1>6, <2>1, <2>2 DEF Device
<1>7. CASE Server
  <2>1. setup' = setup
    BY <1>7
    DEF Server, SendAnswered, SendAnswerLost, SendLost, SendLate, ArriveLate, ReadAnswered,
        ReadLost, OutsideWrite, ServerRestart, ProtocolChange, faultVars, Spend
  <2>2. ASSUME NEW w, Handle(w)
        PROVE  /\ server'.protocol = server.protocol
               /\ \/ effects' \in {effects, 0}
                  \/ effects' <= effects + 1 /\ (server.stage # Target \/ server.protocol # 1)
    <3>1. /\ server'.protocol = server.protocol
          /\ effects' = effects \/ effects' = (IF effects = 2 THEN 2 ELSE effects + 1)
      BY <2>2, HandleFacts
    <3>2. effects' = effects \/ server.stage # Target \/ server.protocol # 1
      BY <2>2, HandlePerforms
    <3>3. effects' <= effects + 1  BY <3>1
    <3>4. QED  BY <3>1, <3>2, <3>3
  <2>3. CASE \/ SendAnswered \/ SendAnswerLost \/ SendLost \/ SendLate \/ ArriveLate
             \/ ReadAnswered \/ ReadLost
    <3>1. (\E w : Handle(w)) \/ (server' = server /\ effects' = effects)
      BY <2>3
      DEF SendAnswered, SendAnswerLost, SendLost, SendLate, ArriveLate, ReadAnswered, ReadLost,
          serverVars
    <3>2. QED  BY <2>1, <2>2, <3>1
  <2>4. CASE OutsideWrite
    <3>1. PICK stage \in Stages, count \in Counts :
            /\ server' = [server EXCEPT !.stage = stage, !.count = count, !.revision = @ + 1]
            /\ effects' = IF stage = server.stage THEN effects ELSE 0
      BY <2>4 DEF OutsideWrite
    <3>2. QED  BY <2>1, <3>1 DEF Rows
  <2>5. CASE ServerRestart
    <3>1. "restart" \in Faults  BY <2>5 DEF ServerRestart, May
    <3>2. PICK p \in Protocols :
            server' = [server EXCEPT !.epoch = @ + 1, !.revision = 0, !.protocol = p]
      BY <2>5 DEF ServerRestart
    <3>3. server'.protocol = p  BY <3>2 DEF Rows
    <3>4. effects' = effects  BY <2>5 DEF ServerRestart
    <3>5. QED  BY <1>2, <2>1, <3>1, <3>2, <3>3, <3>4 DEF OneProtocol
  <2>6. CASE ProtocolChange
    <3>1. "protocol" \in Faults  BY <2>6 DEF ProtocolChange, May
    <3>2. PICK p \in Protocols \ {server.protocol} : TRUE  BY <2>6 DEF ProtocolChange
    <3>3. QED  BY <1>2, <3>1, <3>2 DEF OneProtocol
  <2>7. QED  BY <1>7, <2>3, <2>4, <2>5, <2>6 DEF Server
<1>8. QED  BY <1>3, <1>4, <1>5, <1>6, <1>7 DEF Next

\* At the start nothing has gone out.
LEMMA EffectInit ==
    ASSUME GeneratorCompletionAssumption, Init, Steady PROVE EffectInv
<1>1. /\ protocol = Unknown /\ send = NoRequest /\ read = NoRequest /\ journal = Empty
      /\ tx = NoTransaction /\ storeFault = FALSE /\ resetCycle = FALSE /\ context = NoContext
      /\ late = {} /\ effects = 0
  BY DEF Init
<1>2. OneProtocol  BY DEF Steady, OneProtocol
<1>3. ProtocolInv
  BY <1>1, <1>2, IntentFacts, NoneFields DEF ProtocolInv, SaysProtocol, TokenNotSpent
<1>4. /\ tx.mode = "none" /\ tx.epoch = 0 /\ tx.revision = 0 /\ ~tx.resend
      /\ context.epoch = 0
  BY <1>1 DEF NoTransaction, NoContext
<1>5. OnlyPlain  BY <1>1, <1>4, NoneFields DEF OnlyPlain, Unknown
<1>6. SendsPlain  BY <1>1, <1>4, NoneFields DEF SendsPlain
<1>7. OutKnown  BY <1>1, NoneFields DEF OutKnown, Out
<1>8. QED  BY <1>1, <1>3, <1>5, <1>6, <1>7 DEF EffectInv, PlainHeld

\* Every step keeps it.
LEMMA EffectNext ==
    ASSUME GeneratorCompletionAssumption, DeviceInv, HistoryInv, EffectInv, [Next]_vars
    PROVE  EffectInv'
<1>1. ProtocolInv'  BY ProtocolNext DEF EffectInv
<1>2. OneProtocol  BY DEF EffectInv, ProtocolInv
<1>3. /\ setup' = setup /\ server'.protocol = server.protocol
      /\ \/ effects' \in {effects, 0}
         \/ effects' <= effects + 1 /\ (server.stage # Target \/ server.protocol # 1)
  BY <1>2, PerformsOnce
<1>4. Steady'  BY <1>3 DEF EffectInv, Steady, Protocols, Faults
<1>5. server'.protocol = 1 => effects' <= 1
  <2>1. server.stage # Target => effects = 0  BY DEF HistoryInv, StageEarned
  <2>2. QED  BY <1>3, <2>1 DEF EffectInv
<1>6. ASSUME server'.protocol = 0 PROVE PlainHeld'
  <2>1. server.protocol = 0 /\ PlainHeld  BY <1>3, <1>6 DEF EffectInv
  <2>2. server.protocol \in Protocols  BY TypeFacts DEF DeviceInv, Rows
  <2>3. Faults \cap {"crash", "restart", "protocol"} = {}
    BY <2>1, <2>2 DEF EffectInv, Steady
  <2>4. QED  BY <2>1, <2>3, PlainNext
<1>7. QED  BY <1>1, <1>4, <1>5, <1>6 DEF EffectInv

\* EffectOnce: however answers are lost, late or repeated and whatever restarts when, the server
\* performs one completion once.
THEOREM EffectOnceHolds ==
    ASSUME GeneratorCompletionAssumption PROVE Spec /\ Steady => []EffectOnce
<1>1. Init /\ Steady => EffectInv  BY EffectInit
<1>2. DeviceInv /\ HistoryInv /\ EffectInv /\ [Next]_vars => EffectInv'  BY EffectNext
<1>3. DeviceInv /\ EffectInv => EffectOnce
  <2> SUFFICES ASSUME DeviceInv, EffectInv PROVE EffectOnce  OBVIOUS
  <2>1. server.protocol \in Protocols /\ setup \in Setups  BY TypeFacts DEF DeviceInv, Rows
  <2>2. server.protocol \in {0, 1}  BY <2>1, SetupFacts
  <2>3. QED  BY <2>2 DEF EffectInv, PlainHeld, EffectOnce
<1>4. QED  BY <1>1, <1>2, <1>3, HistoryInvHolds, PTL DEF Spec

\* NoFalseSuccess: a completion is taken for confirmed only if the server has performed it, once,
\* unless someone else wrote the row since it began.
THEOREM NoFalseSuccessHolds ==
    ASSUME GeneratorCompletionAssumption PROVE Spec /\ Steady => []NoFalseSuccess
<1>1. DeviceInv /\ HistoryInv /\ EffectOnce => NoFalseSuccess
  <2> SUFFICES ASSUME DeviceInv, HistoryInv, EffectOnce, tx.confirmed, tx.current, ~touched
               PROVE  server.stage = Target /\ effects = 1
    BY DEF NoFalseSuccess
  <2>1. server.stage = Target  BY DEF HistoryInv, AnswersTrue
  <2>2. effects # 0  BY <2>1 DEF HistoryInv, StageEarned
  <2>3. effects \in 0 .. 2  BY TypeFacts DEF DeviceInv
  <2>4. QED  BY <2>1, <2>2, <2>3 DEF EffectOnce
<1>2. QED  BY <1>1, HistoryInvHolds, EffectOnceHolds, PTL
=============================================================================

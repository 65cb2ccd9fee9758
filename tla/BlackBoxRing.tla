---------------------------- MODULE BlackBoxRing ----------------------------
(* The flash ring of the black box (BlackBoxRing.h) under its only owner, the *)
(* writer task (HAS1BlackBox.cpp).  Records go into the slots of a few        *)
(* sectors; two more sectors hold a journal of headers with the sequences     *)
(* that are reserved and the sequences that the collector has acknowledged.   *)
(* A step is one program or erase of the flash, together with what the code   *)
(* computes until the next one, so that the power may go between any two.  A  *)
(* program or an erase may fail in every way the flash can leave behind.      *)
(*                                                                            *)
(* A record is its sequence.  Left out: the ring's identity, the format test  *)
(* of a partition that held a SPIFFS, read errors of a whole scan, and the    *)
(* uploader's session, of which only its effect is here: a batch is committed *)
(* by the collector at some time, and the acknowledgement comes later or      *)
(* never.                                                                     *)
EXTENDS Integers, FiniteSetsExt

CONSTANTS
    Sectors,        \* data sectors (the code: 30)
    PerSector,      \* records of a data sector, and headers of a header sector (64)
    Block,          \* sequences reserved at a time, and acknowledged before a checkpoint (64)
    BatchRecords,   \* records of a batch (16)
    MaxSeq,         \* the last value of a sequence (2^32 - 1)
    MaxFaults       \* power cuts and flash errors

ASSUME RingAssumption ==
    /\ Sectors \in Nat \ {0}
    /\ PerSector \in Nat \ {0, 1}
    /\ Block \in Nat \ {0}
    /\ BatchRecords \in Nat \ {0}
    /\ MaxSeq \in Nat \ {0}
    /\ MaxFaults \in Nat

Slots == 0 .. Sectors * PerSector - 1
Sequences == 1 .. MaxSeq
Places == {0, 1} \X (0 .. PerSector - 1)     \* of headers: sector and position
Erased == 0          \* what a slot holds instead of a sequence
Torn   == -1
None   == -1         \* no slot chosen yet

VARIABLES
    headers,        \* flash: header at each place
    slots,          \* flash: sequence, Erased or Torn at each slot
    ring,           \* memory: the ring's index and counters
    job,            \* memory: the operation in progress, before its next flash step
    phase,          \* memory: "booting", "open" or "closed" (the writer's ok)
    degraded,       \* memory: the writer waits for its next probe
    batch,          \* memory: the sequences of the batch that is outstanding
    uploaded,       \* the collector: sequences it has committed
    last,           \* history: the sequence programmed last
    persisted,      \* history: sequences reported as persisted
    overwritten,    \* history: sequences given up to make room for newer ones
    faults

flash   == <<headers, slots>>
history == <<last, persisted, overwritten>>
vars    == <<flash, ring, job, phase, degraded, batch, uploaded, history, faults>>

Blank == [generation |-> 0, reserved |-> 0, acked |-> 0]
TornHeader == [Blank EXCEPT !.generation = -1]
Idle == [at |-> "idle", slot |-> None, marker |-> FALSE, retry |-> FALSE,
         reserve |-> 0, then |-> "idle"]

(***************************************************************************)
(* What begin() finds on the flash                                         *)
(***************************************************************************)
Valid(h) == {p \in Places : h[p].generation > 0}
Best(h)  == CHOOSE p \in Valid(h) : \A q \in Valid(h) : h[q].generation <= h[p].generation
Held(s)  == {i \in Slots : s[i] > 0}
Unused(h, s) == (\A p \in Places : h[p] = Blank) /\ (\A i \in Slots : s[i] = Erased)

\* begin() accepts the partition: a header, no generation with two contents, and
\* no record that repeats a sequence or lies beyond the reservation.
Opens(h, s) ==
    /\ Valid(h) # {}
    /\ \A p, q \in Valid(h) : h[p].generation = h[q].generation => h[p] = h[q]
    /\ \A i \in Held(s) : s[i] < h[Best(h)].reserved
    /\ \A i, j \in Held(s) : s[i] = s[j] => i = j

Newest(s) == IF Held(s) = {} THEN 0 ELSE Max({s[i] : i \in Held(s)})

\* Broken: a reboot goes on after the newest record it finds.
NextAfterNewest(h, s) == Newest(s) + 1
\* A reboot goes on after the reservation, so that no sequence is used again.
NextSequence(h, s) == h[Best(h)].reserved

\* The index that begin() builds.
Load(h, s) ==
    LET best == h[Best(h)]
    IN  [ready |-> TRUE,
         seqs |-> [i \in Slots |-> IF s[i] > 0 THEN s[i] ELSE 0],
         dirty |-> [i \in Slots |-> s[i] # Erased],
         generation |-> best.generation, reserved |-> best.reserved,
         next |-> NextSequence(h, s), acked |-> best.acked, durable |-> best.acked,
         max |-> Newest(s), active |-> Best(h)[1],
         cursor |-> IF Held(s) = {} THEN 0
                    ELSE (1 + CHOOSE i \in Held(s) : s[i] = Newest(s)) % (Sectors * PerSector)]

Closed == [ready |-> FALSE, seqs |-> [i \in Slots |-> 0], dirty |-> [i \in Slots |-> FALSE],
           generation |-> 0, reserved |-> 1, next |-> 1, acked |-> 0, durable |-> 0,
           max |-> 0, active |-> 1, cursor |-> 0]

Init ==
    /\ headers = [p \in Places |-> Blank]
    /\ slots = [i \in Slots |-> Erased]
    /\ ring = Closed
    /\ job = Idle
    /\ phase = "booting"
    /\ degraded = FALSE
    /\ batch = {}
    /\ uploaded = {} /\ last = 0 /\ persisted = {} /\ overwritten = {}
    /\ faults = 0

Fault == faults < MaxFaults /\ faults' = faults + 1

(***************************************************************************)
(* append(): the way to its next flash step                                *)
(***************************************************************************)
SectorOf(i) == {j \in Slots : j \div PerSector = i \div PerSector}
Reserve(next) == IF next > MaxSeq - Block THEN MaxSeq ELSE next + Block

\* A sector all of whose records are acknowledged may be erased for new ones.
Safe(r, i) == i % PerSector = 0 /\ \A j \in SectorOf(i) : r.seqs[j] <= r.acked

\* The first slot from the cursor on that is clean or starts a safe sector.
Usable(r) == {k \in Slots : LET i == (r.cursor + k) % (Sectors * PerSector)
                            IN  ~r.dirty[i] \/ Safe(r, i)}
FirstUsable(r) == (r.cursor + Min(Usable(r))) % (Sectors * PerSector)

\* The sector of the oldest record makes room when no slot is usable.
Oldest(r) ==
    LET known == {i \in Slots : r.seqs[i] > 0}
    IN  SectorOf(CHOOSE i \in known : \A j \in known : r.seqs[i] <= r.seqs[j])

\* Broken: the sequence at the end of the reservation is used as well.
ReservedLate(r) == r.next > r.reserved
\* append() reserves more sequences before it uses one beyond the reservation, and
\* erases a sector of acknowledged records only when the flash knows of that.
NotReserved(r) == r.next >= r.reserved

\* Broken: the acknowledgements in memory are enough.
AckKnown(r) == FALSE
AckUnsaved(r) == r.acked # r.durable

Proceed(j, r) ==
    IF NotReserved(r)
    THEN [j EXCEPT !.at = "checkpoint", !.reserve = Reserve(r.next), !.then = "append"]
    ELSE IF Usable(r) = {} THEN [j EXCEPT !.at = "roll"]
    ELSE LET i == FirstUsable(r)
         IN  IF ~r.dirty[i] THEN [j EXCEPT !.at = "program", !.slot = i]
             ELSE IF AckUnsaved(r)
                  THEN [j EXCEPT !.at = "checkpoint", !.reserve = r.reserved, !.then = "append"]
                  ELSE [j EXCEPT !.at = "recycle", !.slot = i]

\* The operation ends without success, and the writer waits for its next probe.
Fail == job' = Idle /\ degraded' = TRUE

\* append() goes on with the index r; a sequence at its limit is not available.
Resume(j, r) ==
    IF r.next = MaxSeq THEN Fail ELSE job' = Proceed(j, r) /\ UNCHANGED degraded

\* An append whose outcome is uncertain is tried once more while the ring is open,
\* by the writer and without the loss marker.
Uncertain(r) ==
    IF r.ready /\ job.retry THEN Resume([Idle EXCEPT !.at = "append"], r) ELSE Fail

Free == phase = "open" /\ ring.ready /\ ~degraded /\ job = Idle

\* An event from the queue.
Append ==
    /\ Free
    /\ Resume([Idle EXCEPT !.at = "append", !.retry = TRUE], ring)
    /\ UNCHANGED <<flash, ring, phase, batch, uploaded, history, faults>>

\* A record of the minute's summary: the acknowledgements are saved first, and a
\* record of it is not tried again.
Summary ==
    /\ Free
    /\ IF AckUnsaved(ring)
       THEN /\ job' = [Idle EXCEPT !.at = "checkpoint", !.reserve = ring.reserved,
                                   !.then = "append"]
            /\ UNCHANGED degraded
       ELSE Resume([Idle EXCEPT !.at = "append"], ring)
    /\ UNCHANGED <<flash, ring, phase, batch, uploaded, history, faults>>

(***************************************************************************)
(* The flash steps                                                         *)
(***************************************************************************)
\* What an erase that fails leaves behind: any part of the area gone or damaged.
Remains(old, area, blank, damaged) ==
    {[p \in DOMAIN old |->
        IF p \notin area THEN old[p]
        ELSE IF p \in gone THEN blank
        ELSE IF p \in hurt /\ old[p] # blank THEN damaged ELSE old[p]] :
            gone \in SUBSET area, hurt \in SUBSET area}

\* checkpoint() writes to the sector that does not hold the latest header.
Target == {p \in Places : p[1] = 1 - ring.active}
Room   == {p \in Target : headers[p] = Blank}
NextPlace == CHOOSE p \in Room : \A q \in Room : p[2] <= q[2]
Header == [generation |-> ring.generation + 1, reserved |-> job.reserve, acked |-> ring.acked]
Checkpointed == [ring EXCEPT !.generation = @ + 1, !.active = 1 - @,
                             !.reserved = job.reserve, !.durable = ring.acked]

\* A checkpoint that fails closes the ring.
CheckpointFails ==
    /\ ring' = [ring EXCEPT !.ready = FALSE]
    /\ IF job.then = "open" THEN phase' = "closed" /\ job' = Idle /\ UNCHANGED degraded
                            ELSE Fail /\ UNCHANGED phase

CheckpointErase ==
    /\ job.at = "checkpoint" /\ Room = {}
    /\ \/ /\ headers' = [p \in Places |-> IF p \in Target THEN Blank ELSE headers[p]]
          /\ UNCHANGED <<ring, job, phase, degraded, faults>>
       \/ /\ Fault
          /\ headers' \in Remains(headers, Target, Blank, TornHeader)
          /\ CheckpointFails
    /\ UNCHANGED <<slots, batch, uploaded, history>>

\* What follows a checkpoint: the scan of begin(), the rest of an append, or nothing.
CheckpointDone ==
    CASE job.then = "open"   -> /\ ring' = Load(headers', slots)
                                /\ phase' = "open" /\ job' = Idle /\ UNCHANGED degraded
      [] job.then = "append" -> /\ ring' = Checkpointed
                                /\ Resume(job, Checkpointed) /\ UNCHANGED phase
      [] OTHER               -> /\ ring' = Checkpointed
                                /\ job' = Idle /\ UNCHANGED <<phase, degraded>>

CheckpointWrite ==
    /\ job.at = "checkpoint" /\ Room # {}
    /\ \/ /\ headers' = [headers EXCEPT ![NextPlace] = Header]
          /\ CheckpointDone
          /\ UNCHANGED faults
       \/ /\ Fault
          /\ \E written \in {Header, TornHeader, Blank} :
                 headers' = [headers EXCEPT ![NextPlace] = written]
          /\ CheckpointFails
    /\ UNCHANGED <<slots, batch, uploaded, history>>

Cleared(r, area) ==
    [r EXCEPT !.seqs  = [i \in Slots |-> IF i \in area THEN 0 ELSE @[i]],
              !.dirty = [i \in Slots |-> IF i \in area THEN FALSE ELSE @[i]]]

EraseFails(area) ==
    /\ Fault
    /\ slots' \in Remains(slots, area, Erased, Torn)
    /\ ring' = [ring EXCEPT !.ready = FALSE]
    /\ Fail

\* A sector whose records are all acknowledged, durably, is erased and used.
Recycle ==
    /\ job.at = "recycle"
    /\ LET area == SectorOf(job.slot)
       IN  \/ /\ slots' = [i \in Slots |-> IF i \in area THEN Erased ELSE slots[i]]
              /\ ring' = Cleared(ring, area)
              /\ job' = [job EXCEPT !.at = "program"]
              /\ UNCHANGED <<degraded, faults>>
           \/ EraseFails(area)
    /\ UNCHANGED <<headers, phase, batch, uploaded, history>>

\* No slot is usable: the sector of the oldest record is given up, and a loss marker
\* goes before the record that needs the room.
Roll ==
    /\ job.at = "roll"
    /\ LET area == Oldest(ring)
       IN  /\ overwritten' = overwritten \cup ({ring.seqs[i] : i \in area} \ {0})
           /\ \/ /\ slots' = [i \in Slots |-> IF i \in area THEN Erased ELSE slots[i]]
                 /\ ring' = [Cleared(ring, area) EXCEPT !.cursor = Min(area)]
                 /\ Resume([job EXCEPT !.marker = TRUE], ring')
                 /\ UNCHANGED faults
              \/ EraseFails(area)
    /\ UNCHANGED <<headers, phase, batch, uploaded, last, persisted>>

\* The next sequence goes into the chosen slot, which is never programmed again
\* before its sector is erased.
Numbered == [ring EXCEPT !.next = @ + 1, !.dirty[job.slot] = TRUE,
                         !.cursor = (job.slot + 1) % (Sectors * PerSector)]
Indexed  == [Numbered EXCEPT !.seqs[job.slot] = ring.next,
                             !.max = IF @ < ring.next THEN ring.next ELSE @]

Program ==
    /\ job.at = "program"
    /\ last' = ring.next
    /\ \/ /\ slots' = [slots EXCEPT ![job.slot] = ring.next]
          /\ ring' = Indexed
          /\ persisted' = persisted \cup {ring.next}
          /\ IF job.marker
             THEN Resume([job EXCEPT !.marker = FALSE, !.slot = None], Indexed)
             ELSE job' = Idle /\ UNCHANGED degraded
          /\ UNCHANGED faults
       \* The write reports an error although the record is there.
       \/ /\ Fault
          /\ slots' = [slots EXCEPT ![job.slot] = ring.next]
          /\ ring' = Indexed
          /\ Uncertain(Indexed)
          /\ UNCHANGED persisted
       \* The record is damaged, or nothing was written.
       \/ /\ Fault
          /\ \E left \in {Torn, Erased} : slots' = [slots EXCEPT ![job.slot] = left]
          /\ ring' = Numbered
          /\ Uncertain(Numbered)
          /\ UNCHANGED persisted
       \* It cannot be read back.
       \/ /\ Fault
          /\ \E left \in {ring.next, Torn, Erased} : slots' = [slots EXCEPT ![job.slot] = left]
          /\ ring' = [Numbered EXCEPT !.ready = FALSE]
          /\ Fail
          /\ UNCHANGED persisted
    /\ UNCHANGED <<headers, phase, batch, uploaded, overwritten>>

(***************************************************************************)
(* begin()                                                                 *)
(***************************************************************************)
\* The first begin() of a boot formats a partition that is unused and leaves any
\* other content without a valid header alone.
Open ==
    /\ phase = "booting" /\ job = Idle
    /\ \/ /\ Opens(headers, slots)
          /\ ring' = Load(headers, slots) /\ phase' = "open" /\ UNCHANGED job
       \/ /\ Valid(headers) = {} /\ Unused(headers, slots)
          /\ job' = [Idle EXCEPT !.at = "checkpoint", !.reserve = 1, !.then = "open"]
          /\ UNCHANGED <<ring, phase>>
       \/ /\ ~Opens(headers, slots) /\ ~Unused(headers, slots)
          /\ phase' = "closed" /\ UNCHANGED <<ring, job>>
    /\ UNCHANGED <<flash, degraded, batch, uploaded, history, faults>>

\* Broken: only a ring that is closed is opened again.
ReopenClosed ==
    /\ phase = "open" /\ job = Idle
    /\ ~ring.ready
    /\ Opens(headers, slots)
    /\ ring' = Load(headers, slots)
    /\ degraded' = FALSE
    /\ UNCHANGED <<flash, job, phase, batch, uploaded, history, faults>>

\* The probe of a writer that failed, 60 seconds later.
Reopen ==
    /\ phase = "open" /\ job = Idle
    /\ degraded \/ ~ring.ready
    /\ Opens(headers, slots)
    /\ ring' = Load(headers, slots)
    /\ degraded' = FALSE
    /\ UNCHANGED <<flash, job, phase, batch, uploaded, history, faults>>

(***************************************************************************)
(* Upload                                                                  *)
(***************************************************************************)
\* snapshot(): the lowest sequences that are not acknowledged, if any.
Unsent == {s \in {ring.seqs[i] : i \in Slots} : s > ring.acked}
Snapshot ==
    /\ Free
    /\ \/ /\ batch' = {s \in Unsent : Cardinality({t \in Unsent : t < s}) < BatchRecords}
          /\ UNCHANGED <<degraded, faults>>
       \/ /\ Fault /\ batch' = {} /\ degraded' = TRUE
    /\ UNCHANGED <<flash, ring, job, phase, uploaded, history>>

\* The collector commits the batch that it received.
Commit ==
    /\ batch # {}
    /\ uploaded' = uploaded \cup batch
    /\ UNCHANGED <<flash, ring, job, phase, degraded, batch, history, faults>>

\* Broken: everything the ring holds counts as acknowledged.
AcknowledgeAll ==
    /\ Free /\ batch # {} /\ batch \subseteq uploaded
    /\ ring' = [ring EXCEPT !.acked = ring.max]
    /\ batch' = {}
    /\ job' = IF ring.max - ring.durable < Block THEN Idle
              ELSE [Idle EXCEPT !.at = "checkpoint", !.reserve = ring.reserved]
    /\ UNCHANGED <<flash, phase, degraded, uploaded, history, faults>>

\* Its acknowledgement arrives and advances the ring's own in memory; after Block
\* sequences it is written down.
Acknowledge ==
    /\ Free /\ batch # {} /\ batch \subseteq uploaded
    /\ LET seq == Max(batch)
       IN  IF ring.acked <= seq /\ seq <= ring.max
           THEN /\ ring' = [ring EXCEPT !.acked = seq]
                /\ batch' = {}
                /\ job' = IF seq - ring.durable < Block THEN Idle
                          ELSE [Idle EXCEPT !.at = "checkpoint", !.reserve = ring.reserved]
                /\ UNCHANGED degraded
           ELSE Fail /\ UNCHANGED <<ring, batch>>
    /\ UNCHANGED <<flash, phase, uploaded, history, faults>>

\* The power goes: only the flash and the collector keep what they have.
Crash ==
    /\ Fault
    /\ ring' = Closed /\ job' = Idle /\ phase' = "booting" /\ degraded' = FALSE /\ batch' = {}
    /\ UNCHANGED <<flash, uploaded, history>>

Flashing == CheckpointErase \/ CheckpointWrite \/ Recycle \/ Roll \/ Program

Next == \/ Append \/ Summary \/ Flashing \/ Open \/ Reopen
        \/ Snapshot \/ Commit \/ Acknowledge \/ Crash

Spec == Init /\ [][Next]_vars

\* The writer's loop runs on and asks for acknowledgements and batches before it
\* takes the next event; the collector is there.
Fairness ==
    /\ WF_vars(Flashing) /\ WF_vars(Open) /\ WF_vars(Reopen)
    /\ SF_vars(Snapshot) /\ WF_vars(Commit) /\ SF_vars(Acknowledge)
FairSpec == Spec /\ Fairness

(***************************************************************************)
(* Properties                                                              *)
(***************************************************************************)
TypeOK ==
    /\ headers \in [Places -> [generation : Nat \cup {-1}, reserved : 0 .. MaxSeq, acked : 0 .. MaxSeq]]
    /\ slots \in [Slots -> Sequences \cup {Erased, Torn}]
    /\ ring \in [ready : BOOLEAN, seqs : [Slots -> Sequences \cup {0}], dirty : [Slots -> BOOLEAN],
                 generation : Nat, reserved : Sequences, next : Sequences, acked : 0 .. MaxSeq,
                 durable : 0 .. MaxSeq, max : 0 .. MaxSeq, active : {0, 1}, cursor : Slots]
    /\ job \in [at : {"idle", "append", "checkpoint", "recycle", "roll", "program"},
                slot : Slots \cup {None}, marker : BOOLEAN, retry : BOOLEAN,
                reserve : 0 .. MaxSeq, then : {"idle", "append", "open"}]
    /\ phase \in {"booting", "open", "closed"} /\ degraded \in BOOLEAN
    /\ batch \subseteq Sequences /\ uploaded \subseteq Sequences
    /\ last \in 0 .. MaxSeq /\ persisted \subseteq Sequences /\ overwritten \subseteq Sequences
    /\ faults \in 0 .. MaxFaults

\* Once a first header is written, the partition opens again after every power cut
\* and every flash error: no step leaves two headers, or records, that begin()
\* takes for a conflict.
Reopens == TypeOK /\ (Valid(headers) # {} => Opens(headers, slots))

\* A sequence is never used twice, not even for a record that was torn, erased or
\* never confirmed, so the collector never meets two records of one identity.
SequenceFresh == job.at = "program" => ring.next > last

\* A record reported as persisted and not given up is on the flash, unless the flash
\* itself says that it is acknowledged (README.md of the library: "it never allows
\* reclaim based only on a lost RAM ACK"); and no acknowledgement, in memory or on the
\* flash, covers a record that the collector does not have.
NothingForgotten ==
    \A s \in persisted \ overwritten :
        /\ (\E i \in Slots : slots[i] = s) \/ s <= headers[Best(headers)].acked
        /\ s \notin uploaded => /\ s > headers[Best(headers)].acked
                                /\ ring.ready => s > ring.acked

\* When the ring makes room it gives up the oldest records (HAS1BlackBoxRing.h:191).
\* The code does not keep this after an erase that failed: see the README.
RollsOldest ==
    [][\A s \in overwritten' \ overwritten :
          \A i \in Slots : slots'[i] > ring.acked /\ slots'[i] \notin overwritten'
                             => slots'[i] > s]_vars

\* In the end every persisted record has reached the collector or was given up,
\* whatever failed before, while the ring has a sequence left.  At its last one every
\* append fails, and the ring that is then opened again has only the acknowledgements
\* that were written down: batches may be sent again without end.
Delivered == <>[](ring.next < MaxSeq => persisted \subseteq uploaded \cup overwritten)
=============================================================================

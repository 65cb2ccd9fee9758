------------------------- MODULE BlackBoxRing_proofs -------------------------
(***************************************************************************)
(* Proofs about the flash ring, for any number and size of its sectors, any *)
(* block and batch, any last sequence and any number of power cuts and      *)
(* flash errors.                                                            *)
(***************************************************************************)
EXTENDS BlackBoxRing, FiniteSetTheorems, WellFoundedInduction, TLAPS

-----------------------------------------------------------------------------
(* The inductive invariant. *)

\* No two headers are of one generation, and one is the latest of all.
HeadersOrdered ==
    /\ \A p, q \in Valid(headers) : headers[p].generation = headers[q].generation => p = q
    /\ Valid(headers) # {} =>
           /\ Best(headers) \in Valid(headers)
           /\ \A p \in Valid(headers) :
                 p # Best(headers) => headers[p].generation < headers[Best(headers)].generation

\* Before the first header nothing was ever written.
FlashBlank ==
    Valid(headers) = {} =>
        /\ last = 0 /\ persisted = {} /\ ~ring.ready
        /\ \A i \in Slots : slots[i] = Erased

\* A record is one that was programmed, and no other has its sequence; what was ever
\* programmed lies below the reservation, and what is acknowledged was programmed.
RecordsKnown ==
    /\ \A i \in Held(slots) : slots[i] <= last
    /\ \A i, j \in Held(slots) : slots[i] = slots[j] => i = j
    /\ Valid(headers) # {} =>
           last < headers[Best(headers)].reserved /\ headers[Best(headers)].acked <= last

\* The index of an open ring is what the flash holds.
RingLoaded ==
    ring.ready =>
        /\ phase = "open"
        /\ Valid(headers) # {}
        /\ ring.generation = headers[Best(headers)].generation
        /\ ring.active = Best(headers)[1]
        /\ ring.reserved = headers[Best(headers)].reserved
        /\ ring.durable = headers[Best(headers)].acked
        /\ ring.durable <= ring.acked /\ ring.acked <= last /\ ring.max <= last
        /\ last < ring.next /\ ring.next <= ring.reserved
        /\ \A i \in Slots :
              /\ ring.seqs[i] = IF slots[i] > 0 THEN slots[i] ELSE 0
              /\ slots[i] # Erased => ring.dirty[i]

\* What a step of an operation needs is still so when the step comes.
JobFits(j, r) ==
    /\ j.at = "idle" \/ (r.ready /\ j.then # "open")
    /\ j.at # "append"
    /\ j.at = "checkpoint" => r.reserved <= j.reserve
    /\ j.at \in {"program", "recycle", "roll"} => r.next < r.reserved
    /\ j.at = "program" => j.slot \in Slots /\ ~r.dirty[j.slot]
    /\ j.at = "recycle" => j.slot \in Slots /\ Safe(r, j.slot) /\ r.acked = r.durable
    /\ j.at = "roll" => Usable(r) = {}

\* begin() writes the first header of a partition that is unused.
Formatting ==
    /\ job.at = "checkpoint" /\ job.then = "open" /\ job.reserve = 1
    /\ phase = "booting"
    /\ \A p \in Places : headers[p] = Blank

JobSound ==
    /\ phase = "booting" => ring = Closed
    /\ Formatting \/ JobFits(job, ring)

\* Up to the end of a batch, nothing that must be kept is left out of it.
BatchWhole ==
    \A b \in batch :
        /\ b <= last
        /\ \A s \in persisted \ overwritten : s <= b => s \in batch \cup uploaded

IndInv ==
    /\ TypeOK
    /\ HeadersOrdered /\ FlashBlank /\ RecordsKnown
    /\ RingLoaded /\ JobSound /\ BatchWhole
    /\ NothingForgotten
-----------------------------------------------------------------------------
(* Numbers. *)

\* A set of naturals has a least element, which Min picks.
LEMMA MinNat ==
    ASSUME NEW S \in SUBSET Nat, S # {}
    PROVE  Min(S) \in S /\ \A y \in S : Min(S) <= y
  <1>1. \E x \in S : \A y \in S : ~(<<y, x>> \in OpToRel(<, Nat))
    BY WFMin, NatLessThanWellFounded
  <1>2. \E x \in S : \A y \in S : x <= y
    <2>1. PICK x \in S : \A y \in S : ~(<<y, x>> \in OpToRel(<, Nat))
      BY <1>1
    <2>2. \A y \in S : ~(y < x)
      BY <2>1 DEF OpToRel
    <2> QED
      BY <2>2
  <1> QED
    BY <1>2 DEF Min

\* A bounded set of naturals has a greatest element, which Max picks.
LEMMA MaxNat ==
    ASSUME NEW n \in Nat, NEW S \in SUBSET (0..n), S # {}
    PROVE  Max(S) \in S /\ \A y \in S : y <= Max(S)
  <1> DEFINE T == {n - x : x \in S}
  <1>1. T \in SUBSET Nat /\ T # {}
    <2>1. \A x \in S : n - x \in Nat
      OBVIOUS
    <2>2. PICK x \in S : TRUE
      OBVIOUS
    <2>3. n - x \in T
      BY <2>2
    <2>4. T \subseteq Nat
      BY <2>1
    <2> QED
      BY <2>3, <2>4
  <1>2. Min(T) \in T /\ \A y \in T : Min(T) <= y
    BY <1>1, MinNat
  <1>3. PICK m \in S : Min(T) = n - m
    BY <1>2
  <1>4. \A y \in S : n - m <= n - y
    BY <1>2, <1>3
  <1>5. \A y \in S : m >= y
    BY <1>4
  <1> QED
    BY <1>5 DEF Max

Size == Sectors * PerSector

\* There is a slot, and the cursor wraps to a slot.
LEMMA SlotsWrap ==
    /\ Size \in Nat \ {0} /\ Slots = 0 .. Size - 1 /\ 0 \in Slots
    /\ \A n \in Nat : n % Size \in Slots
  <1>1. Size \in Nat
    BY RingAssumption DEF Size
  <1>2. Size # 0
    BY RingAssumption DEF Size
  <1>3. Slots = 0 .. Size - 1
    BY DEF Slots, Size
  <1>4. \A n \in Nat : n % Size \in 0 .. Size - 1
    BY <1>1, <1>2
  <1> QED
    BY <1>1, <1>2, <1>3, <1>4

\* Slots are numbered by naturals.
LEMMA SlotsNat == \A i \in Slots : i \in Nat
  BY DEF Slots

\* Every slot is reached from the cursor.
LEMMA CursorReaches ==
    ASSUME NEW c \in Slots
    PROVE  \E k \in Slots : (c + k) % (Sectors * PerSector) = 0
  <1>1. c \in 0 .. Size - 1 /\ Size \in Nat \ {0}
    BY SlotsWrap
  <1>2. CASE c = 0
    <2>1. (0 + 0) % Size = 0
      BY <1>1
    <2> QED
      BY <1>2, <2>1, SlotsWrap DEF Size
  <1>3. CASE c # 0
    <2>1. Size - c \in Slots /\ c + (Size - c) = Size
      BY <1>1, <1>3, SlotsWrap
    <2>2. Size % Size = 0
      BY <1>1
    <2> QED
      BY <2>1, <2>2 DEF Size
  <1> QED
    BY <1>2, <1>3
-----------------------------------------------------------------------------
(* Types. *)

HeaderType == [generation : Nat \cup {-1}, reserved : 0 .. MaxSeq, acked : 0 .. MaxSeq]
HeadersType == headers \in [Places -> HeaderType]
SlotsType == slots \in [Slots -> Sequences \cup {Erased, Torn}]
RingType ==
    [ready : BOOLEAN, seqs : [Slots -> Sequences \cup {0}], dirty : [Slots -> BOOLEAN],
     generation : Nat, reserved : Sequences, next : Sequences, acked : 0 .. MaxSeq,
     durable : 0 .. MaxSeq, max : 0 .. MaxSeq, active : {0, 1}, cursor : Slots]
JobType ==
    [at : {"idle", "append", "checkpoint", "recycle", "roll", "program"},
     slot : Slots \cup {None}, marker : BOOLEAN, retry : BOOLEAN,
     reserve : 0 .. MaxSeq, then : {"idle", "append", "open"}]
ModeType == phase \in {"booting", "open", "closed"} /\ degraded \in BOOLEAN
WorldType ==
    /\ batch \subseteq Sequences /\ uploaded \subseteq Sequences
    /\ last \in 0 .. MaxSeq /\ persisted \subseteq Sequences /\ overwritten \subseteq Sequences
    /\ faults \in 0 .. MaxFaults

\* The type invariant is the conjunction of its groups.
LEMMA TypeParts ==
    TypeOK <=> /\ HeadersType /\ SlotsType /\ ring \in RingType /\ job \in JobType
               /\ ModeType /\ WorldType
  BY DEF TypeOK, HeadersType, HeaderType, SlotsType, RingType, JobType, ModeType, WorldType

\* What an index holds.
LEMMA RingHolds ==
    ASSUME NEW r \in RingType
    PROVE  /\ r.ready \in BOOLEAN
           /\ r.seqs \in [Slots -> Sequences \cup {0}] /\ r.dirty \in [Slots -> BOOLEAN]
           /\ r.generation \in Nat /\ r.reserved \in Sequences /\ r.next \in Sequences
           /\ r.acked \in 0 .. MaxSeq /\ r.durable \in 0 .. MaxSeq /\ r.max \in 0 .. MaxSeq
           /\ r.active \in {0, 1} /\ r.cursor \in Slots
  BY DEF RingType

\* Sequences are positive numbers up to the last.
LEMMA SequencesAre == MaxSeq \in Nat \ {0} /\ \A n : n \in Sequences <=> n \in Nat /\ 1 <= n /\ n <= MaxSeq
  BY RingAssumption DEF Sequences

\* The closed index, and the idle job, are of their types.
LEMMA ClosedType == Closed \in RingType /\ Idle \in JobType
  <1>1. 0 \in Slots /\ 1 \in Sequences /\ 0 \in 0 .. MaxSeq /\ 1 \in {0, 1}
    <2>1. 1 \in Sequences /\ 0 \in 0 .. MaxSeq
      BY RingAssumption DEF Sequences
    <2> QED
      BY <2>1, SlotsWrap
  <1>2. Closed \in RingType
    BY <1>1 DEF Closed, RingType
  <1>3. Idle \in JobType
    BY <1>1 DEF Idle, JobType
  <1> QED
    BY <1>2, <1>3
-----------------------------------------------------------------------------
(* begin(). *)

\* The newest record is one that is held.
LEMMA NewestHeld ==
    ASSUME NEW s \in [Slots -> Sequences \cup {Erased, Torn}]
    PROVE  /\ Newest(s) \in 0 .. MaxSeq
           /\ Held(s) # {} => \E i \in Held(s) : s[i] = Newest(s)
           /\ \A i \in Held(s) : s[i] <= Newest(s)
           /\ \A l \in Nat : (\A i \in Held(s) : s[i] <= l) => Newest(s) <= l
  <1>1. CASE Held(s) = {}
    BY <1>1, SequencesAre DEF Newest
  <1>2. CASE Held(s) # {}
    <2> DEFINE V == {s[i] : i \in Held(s)}
    <2>1. \A i \in Held(s) : i \in Slots /\ s[i] \in 0 .. MaxSeq
      <3>1. \A i \in Held(s) : i \in Slots /\ s[i] \in Sequences \cup {0, -1} /\ s[i] > 0
        BY DEF Held, Erased, Torn
      <3> QED
        BY <3>1, SequencesAre
    <2>2. PICK i \in Held(s) : TRUE
      BY <1>2
    <2>3. V \in SUBSET (0 .. MaxSeq)
      BY <2>1
    <2>4. s[i] \in V
      BY <2>2
    <2>5. V # {}
      BY <2>4
    <2>6. Newest(s) = Max(V)
      BY <1>2 DEF Newest
    <2>7. Max(V) \in V /\ \A y \in V : y <= Max(V)
      BY <2>3, <2>5, MaxNat, SequencesAre
    <2>8. PICK k \in Held(s) : s[k] = Newest(s)
      BY <2>6, <2>7
    <2> QED
      BY <2>1, <2>6, <2>7, <2>8
  <1> QED
    BY <1>1, <1>2

\* The latest header decides what begin() reads.
LEMMA BestIs ==
    ASSUME NEW h \in [Places -> HeaderType], NEW p \in Valid(h),
           \A q \in Valid(h) : q # p => h[q].generation < h[p].generation
    PROVE  Best(h) = p
  <1>1. \A q \in Valid(h) : q \in Places /\ h[q].generation \in Int
    BY DEF Valid, HeaderType
  <1>2. \A q \in Valid(h) : h[q].generation <= h[p].generation
    BY <1>1
  <1>3. \A b \in Valid(h) : (\A q \in Valid(h) : h[q].generation <= h[b].generation) => b = p
    <2> SUFFICES ASSUME NEW b \in Valid(h),
                        \A q \in Valid(h) : h[q].generation <= h[b].generation, b # p
                 PROVE  FALSE
      OBVIOUS
    <2>1. h[p].generation <= h[b].generation /\ h[b].generation < h[p].generation
      OBVIOUS
    <2> QED
      BY <1>1, <2>1
  <1> QED
    BY <1>2, <1>3 DEF Best

\* The index that begin() builds is that of the flash, and its next sequence is
\* beyond all that were used.
LEMMA LoadSound ==
    ASSUME NEW h \in [Places -> HeaderType],
           NEW s \in [Slots -> Sequences \cup {Erased, Torn}], NEW l \in 0 .. MaxSeq,
           Best(h) \in Valid(h),
           \A i \in Held(s) : s[i] <= l,
           l < h[Best(h)].reserved, h[Best(h)].acked <= l
    PROVE  /\ Load(h, s) \in RingType
           /\ Load(h, s).ready
           /\ Load(h, s).generation = h[Best(h)].generation
           /\ Load(h, s).active = Best(h)[1]
           /\ Load(h, s).reserved = h[Best(h)].reserved
           /\ Load(h, s).next = h[Best(h)].reserved
           /\ Load(h, s).acked = h[Best(h)].acked
           /\ Load(h, s).durable = h[Best(h)].acked
           /\ Load(h, s).max <= l
           /\ Load(h, s).seqs = [i \in Slots |-> IF s[i] > 0 THEN s[i] ELSE 0]
           /\ Load(h, s).dirty = [i \in Slots |-> s[i] # Erased]
  <1> DEFINE best == h[Best(h)]
             seqs == [i \in Slots |-> IF s[i] > 0 THEN s[i] ELSE 0]
             dirty == [i \in Slots |-> s[i] # Erased]
             cursor == IF Held(s) = {} THEN 0
                       ELSE (1 + CHOOSE i \in Held(s) : s[i] = Newest(s)) % (Sectors * PerSector)
  <1>1. Best(h) \in Places /\ best.generation \in Nat /\ best.reserved \in 0 .. MaxSeq
        /\ best.acked \in 0 .. MaxSeq
    <2>1. Best(h) \in Places /\ h[Best(h)].generation > 0
      BY DEF Valid
    <2>2. h[Best(h)] \in HeaderType
      BY <2>1
    <2> QED
      BY <2>1, <2>2 DEF HeaderType
  <1>2. best.reserved \in Sequences
    BY <1>1, RingAssumption DEF Sequences
  <1>3. Best(h)[1] \in {0, 1}
    BY <1>1 DEF Places
  <1>4. seqs \in [Slots -> Sequences \cup {0}]
    <2>1. \A i \in Slots : s[i] \in Sequences \cup {0, -1}
      BY DEF Erased, Torn
    <2>2. \A i \in Slots : (IF s[i] > 0 THEN s[i] ELSE 0) \in Sequences \cup {0}
      BY <2>1, RingAssumption DEF Sequences
    <2> QED
      BY <2>2
  <1>5. dirty \in [Slots -> BOOLEAN]
    OBVIOUS
  <1>6. Newest(s) \in 0 .. MaxSeq /\ Newest(s) <= l
    BY NewestHeld, RingAssumption
  <1>7. cursor \in Slots
    <2>1. CASE Held(s) = {}
      BY <2>1, SlotsWrap
    <2>2. CASE Held(s) # {}
      <3> DEFINE i == CHOOSE i \in Held(s) : s[i] = Newest(s)
      <3>1. i \in Slots
        BY <2>2, NewestHeld DEF Held
      <3>2. 1 + i \in Nat
        <4>1. i \in Nat
          BY <3>1, SlotsNat
        <4> QED
          BY <4>1
      <3>3. (1 + i) % Size \in Slots
        BY <3>2, SlotsWrap
      <3> QED
        BY <2>2, <3>3 DEF Size
    <2> QED
      BY <2>1, <2>2
  <1>8. Load(h, s) = [ready |-> TRUE, seqs |-> seqs, dirty |-> dirty,
                      generation |-> best.generation, reserved |-> best.reserved,
                      next |-> best.reserved, acked |-> best.acked, durable |-> best.acked,
                      max |-> Newest(s), active |-> Best(h)[1], cursor |-> cursor]
    BY DEF Load, NextSequence
  <1> HIDE DEF best, seqs, dirty, cursor
  <1>9. Load(h, s) \in RingType
    BY <1>1, <1>2, <1>3, <1>4, <1>5, <1>6, <1>7, <1>8 DEF RingType
  <1>10. /\ Load(h, s).ready
         /\ Load(h, s).generation = best.generation
         /\ Load(h, s).active = Best(h)[1]
         /\ Load(h, s).reserved = best.reserved /\ Load(h, s).next = best.reserved
         /\ Load(h, s).acked = best.acked /\ Load(h, s).durable = best.acked
         /\ Load(h, s).max = Newest(s)
         /\ Load(h, s).seqs = seqs /\ Load(h, s).dirty = dirty
    BY <1>8
  <1> QED
    BY <1>6, <1>9, <1>10 DEF best, seqs, dirty
-----------------------------------------------------------------------------
(* append(). *)

\* The reservation goes beyond the next sequence.
LEMMA ReserveBeyond ==
    ASSUME NEW next \in Sequences, next # MaxSeq
    PROVE  Reserve(next) \in Sequences /\ next < Reserve(next)
  BY RingAssumption DEF Sequences, Reserve

\* The slot that append() finds is clean, or starts a sector that may be erased.
LEMMA FirstUsableIs ==
    ASSUME NEW r \in RingType, Usable(r) # {}
    PROVE  /\ FirstUsable(r) \in Slots
           /\ ~r.dirty[FirstUsable(r)] \/ Safe(r, FirstUsable(r))
  <1>1. Usable(r) \in SUBSET Nat
    BY SlotsWrap DEF Usable
  <1>2. Min(Usable(r)) \in Usable(r)
    BY <1>1, MinNat
  <1>3. Min(Usable(r)) \in Slots
        /\ (~r.dirty[FirstUsable(r)] \/ Safe(r, FirstUsable(r)))
    BY <1>2 DEF Usable, FirstUsable
  <1>4. r.cursor \in Slots
    BY RingHolds
  <1>5. r.cursor + Min(Usable(r)) \in Nat
    <2>1. r.cursor \in Nat /\ Min(Usable(r)) \in Nat
      BY <1>3, <1>4, SlotsNat
    <2> QED
      BY <2>1
  <1>6. FirstUsable(r) \in Slots
    BY <1>5, SlotsWrap DEF FirstUsable, Size
  <1> QED
    BY <1>3, <1>6

\* Where an append goes on, it may go on.
LEMMA ProceedFits ==
    ASSUME NEW j \in JobType, NEW r \in RingType, r.ready, r.next # MaxSeq, r.next <= r.reserved,
           j.then # "open"
    PROVE  Proceed(j, r) \in JobType /\ JobFits(Proceed(j, r), r)
  <1>1. /\ r.next \in Sequences /\ r.reserved \in Sequences
        /\ r.next \in Nat /\ r.reserved \in 0 .. MaxSeq
    BY RingHolds, RingAssumption DEF Sequences
  <1>2. CASE NotReserved(r)
    <2>1. Reserve(r.next) \in 0 .. MaxSeq /\ r.reserved <= Reserve(r.next)
      BY <1>1, <1>2, ReserveBeyond, RingAssumption DEF NotReserved, Sequences
    <2>2. Proceed(j, r) = [j EXCEPT !.at = "checkpoint", !.reserve = Reserve(r.next),
                                    !.then = "append"]
      BY <1>2 DEF Proceed
    <2>3. /\ Proceed(j, r) \in JobType
          /\ Proceed(j, r).at = "checkpoint" /\ Proceed(j, r).then = "append"
          /\ Proceed(j, r).reserve = Reserve(r.next)
      BY <2>1, <2>2 DEF JobType
    <2> QED
      BY <2>1, <2>3 DEF JobFits
  <1>3. CASE ~NotReserved(r) /\ Usable(r) = {}
    <2>1. Proceed(j, r) = [j EXCEPT !.at = "roll"]
      BY <1>3 DEF Proceed
    <2>2. /\ Proceed(j, r) \in JobType
          /\ Proceed(j, r).at = "roll" /\ Proceed(j, r).then = j.then
      BY <2>1 DEF JobType
    <2>3. r.next < r.reserved
      BY <1>1, <1>3 DEF NotReserved
    <2> QED
      BY <1>3, <2>2, <2>3 DEF JobFits
  <1>4. CASE ~NotReserved(r) /\ Usable(r) # {}
    <2> DEFINE i == FirstUsable(r)
    <2>1. i \in Slots /\ (~r.dirty[i] \/ Safe(r, i))
      BY <1>4, FirstUsableIs
    <2>2. r.next < r.reserved
      BY <1>1, <1>4 DEF NotReserved
    <2>3. CASE ~r.dirty[i]
      <3>1. Proceed(j, r) = [j EXCEPT !.at = "program", !.slot = i]
        BY <1>4, <2>3 DEF Proceed
      <3>2. /\ Proceed(j, r) \in JobType
            /\ Proceed(j, r).at = "program" /\ Proceed(j, r).then = j.then
            /\ Proceed(j, r).slot = i
        BY <2>1, <3>1 DEF JobType
      <3> QED
        BY <2>1, <2>2, <2>3, <3>2 DEF JobFits
    <2>4. CASE r.dirty[i] /\ AckUnsaved(r)
      <3>1. Proceed(j, r) = [j EXCEPT !.at = "checkpoint", !.reserve = r.reserved,
                                      !.then = "append"]
        BY <1>4, <2>4 DEF Proceed
      <3>2. /\ Proceed(j, r) \in JobType
            /\ Proceed(j, r).at = "checkpoint" /\ Proceed(j, r).then = "append"
            /\ Proceed(j, r).reserve = r.reserved
        BY <1>1, <3>1 DEF JobType
      <3> QED
        BY <1>1, <3>2 DEF JobFits
    <2>5. CASE r.dirty[i] /\ ~AckUnsaved(r)
      <3>1. Proceed(j, r) = [j EXCEPT !.at = "recycle", !.slot = i]
        BY <1>4, <2>5 DEF Proceed
      <3>2. /\ Proceed(j, r) \in JobType
            /\ Proceed(j, r).at = "recycle" /\ Proceed(j, r).then = j.then
            /\ Proceed(j, r).slot = i
        BY <2>1, <3>1 DEF JobType
      <3>3. Safe(r, i) /\ r.acked = r.durable
        BY <2>1, <2>5 DEF AckUnsaved
      <3> QED
        BY <2>1, <2>2, <3>2, <3>3 DEF JobFits
    <2> QED
      BY <2>3, <2>4, <2>5
  <1> QED
    BY <1>2, <1>3, <1>4

\* The idle job fits every index.
LEMMA IdleFits == \A r : JobFits(Idle, r) /\ Idle \in JobType
  BY ClosedType DEF JobFits, Idle

\* An append that goes on, or fails, leaves a job that fits.
LEMMA ResumeFits ==
    ASSUME NEW j \in JobType, NEW r \in RingType, r.ready, r.next <= r.reserved,
           j.then # "open", Resume(j, r), degraded \in BOOLEAN
    PROVE  job' \in JobType /\ JobFits(job', r) /\ degraded' \in BOOLEAN
  <1>1. CASE r.next = MaxSeq
    BY <1>1, IdleFits DEF Resume, Fail
  <1>2. CASE r.next # MaxSeq
    BY <1>2, ProceedFits DEF Resume
  <1> QED
    BY <1>1, <1>2
-----------------------------------------------------------------------------
(* Steps of the memory. *)

\* A step that changes neither the flash, the index nor what was recorded keeps the
\* invariant, if the job it leaves fits.
LEMMA MemoryFrame ==
    ASSUME IndInv, UNCHANGED <<flash, ring, phase, batch, uploaded, history>>,
           job' \in JobType, degraded' \in BOOLEAN, faults' \in 0 .. MaxFaults,
           phase # "booting", JobFits(job', ring)
    PROVE  IndInv'
  <1>1. /\ headers' = headers /\ slots' = slots /\ ring' = ring /\ phase' = phase
        /\ batch' = batch /\ uploaded' = uploaded /\ last' = last
        /\ persisted' = persisted /\ overwritten' = overwritten
    BY DEF flash, history
  <1>2. TypeOK'
    <2>1. HeadersType' /\ SlotsType' /\ ring' \in RingType /\ ModeType' /\ WorldType'
      BY <1>1, TypeParts DEF IndInv, HeadersType, SlotsType, ModeType, WorldType
    <2> QED
      BY <2>1 DEF TypeOK, HeadersType, HeaderType, SlotsType, RingType, JobType, ModeType,
         WorldType
  <1>3. HeadersOrdered' /\ FlashBlank' /\ RecordsKnown' /\ RingLoaded'
    BY <1>1 DEF IndInv, HeadersOrdered, FlashBlank, RecordsKnown, RingLoaded
  <1>4. JobSound'
    BY <1>1 DEF JobSound
  <1>5. BatchWhole' /\ NothingForgotten'
    BY <1>1 DEF IndInv, BatchWhole, NothingForgotten
  <1> QED
    BY <1>2, <1>3, <1>4, <1>5 DEF IndInv

\* One fault more is still within the bound.
LEMMA FaultType == TypeOK /\ Fault => faults' \in 0 .. MaxFaults
  BY RingAssumption DEF TypeOK, Fault

\* What a free writer knows.
LEMMA FreeHolds ==
    ASSUME IndInv, Free
    PROVE  /\ TypeOK /\ ring \in RingType /\ ring.ready /\ phase = "open" /\ job = Idle
           /\ ring.next <= ring.reserved /\ ring.reserved \in Sequences
           /\ degraded \in BOOLEAN /\ faults \in 0 .. MaxFaults
  BY TypeParts, RingHolds DEF IndInv, Free, RingLoaded, ModeType, WorldType

\* The jobs that an append starts from.
LEMMA AppendJobs ==
    /\ [Idle EXCEPT !.at = "append"] \in JobType
    /\ [Idle EXCEPT !.at = "append"].then = "idle"
    /\ [Idle EXCEPT !.at = "append", !.retry = TRUE] \in JobType
    /\ [Idle EXCEPT !.at = "append", !.retry = TRUE].then = "idle"
  <1>1. Idle \in JobType /\ Idle.then = "idle"
    BY ClosedType DEF Idle
  <1>2. \A j \in JobType :
          /\ [j EXCEPT !.at = "append"] \in JobType
          /\ [j EXCEPT !.at = "append"].then = j.then
          /\ [j EXCEPT !.at = "append", !.retry = TRUE] \in JobType
          /\ [j EXCEPT !.at = "append", !.retry = TRUE].then = j.then
    BY DEF JobType
  <1> QED
    BY <1>1, <1>2

\* An append begins.
LEMMA AppendStep == IndInv /\ Append => IndInv'
  <1> SUFFICES ASSUME IndInv, Append PROVE IndInv'
    OBVIOUS
  <1>1. /\ Free /\ Resume([Idle EXCEPT !.at = "append", !.retry = TRUE], ring)
        /\ UNCHANGED <<flash, ring, phase, batch, uploaded, history, faults>>
    BY DEF Append
  <1>2. [Idle EXCEPT !.at = "append", !.retry = TRUE] \in JobType
        /\ [Idle EXCEPT !.at = "append", !.retry = TRUE].then # "open"
    BY AppendJobs
  <1>3. job' \in JobType /\ JobFits(job', ring) /\ degraded' \in BOOLEAN
    BY <1>1, <1>2, FreeHolds, ResumeFits
  <1> QED
    BY <1>1, <1>3, FreeHolds, MemoryFrame

\* A summary begins, with the acknowledgements to save first.
LEMMA SummaryStep == IndInv /\ Summary => IndInv'
  <1> SUFFICES ASSUME IndInv, Summary PROVE IndInv'
    OBVIOUS
  <1>1. Free /\ UNCHANGED <<flash, ring, phase, batch, uploaded, history, faults>>
    BY DEF Summary
  <1>2. job' \in JobType /\ JobFits(job', ring) /\ degraded' \in BOOLEAN
    <2>1. CASE AckUnsaved(ring)
      <3>1. job' = [Idle EXCEPT !.at = "checkpoint", !.reserve = ring.reserved,
                                !.then = "append"] /\ UNCHANGED degraded
        BY <2>1 DEF Summary
      <3>2. ring.reserved \in 0 .. MaxSeq /\ ring.reserved <= ring.reserved
        BY <1>1, FreeHolds, RingAssumption DEF Sequences
      <3>3. /\ job' \in JobType /\ job'.at = "checkpoint" /\ job'.then = "append"
            /\ job'.reserve = ring.reserved
        BY <3>1, <3>2 DEF Idle, JobType
      <3> QED
        BY <1>1, <3>1, <3>2, <3>3, FreeHolds DEF JobFits
    <2>2. CASE ~AckUnsaved(ring)
      <3>1. Resume([Idle EXCEPT !.at = "append"], ring)
        BY <2>2 DEF Summary
      <3>2. [Idle EXCEPT !.at = "append"] \in JobType /\ [Idle EXCEPT !.at = "append"].then # "open"
        BY AppendJobs
      <3> QED
        BY <1>1, <3>1, <3>2, FreeHolds, ResumeFits
    <2> QED
      BY <2>1, <2>2
  <1> QED
    BY <1>1, <1>2, FreeHolds, MemoryFrame
-----------------------------------------------------------------------------
(* Checkpoints. *)

\* A checkpoint has an open ring behind it, or formats.
LEMMA CheckpointHolds ==
    ASSUME IndInv, job.at = "checkpoint"
    PROVE  /\ HeadersType /\ ring \in RingType /\ job \in JobType
           /\ \/ Formatting /\ ring = Closed /\ Valid(headers) = {}
              \/ /\ ring.ready /\ job.then # "open" /\ ring.reserved <= job.reserve
                 /\ Valid(headers) # {} /\ phase = "open"
  <1>1. HeadersType /\ ring \in RingType /\ job \in JobType
    BY TypeParts DEF IndInv
  <1>2. CASE Formatting
    <2>1. ring = Closed
      BY <1>2 DEF IndInv, JobSound, Formatting
    <2>2. Valid(headers) = {}
      BY <1>2 DEF Formatting, Valid, Blank
    <2> QED
      BY <1>1, <1>2, <2>1, <2>2
  <1>3. CASE JobFits(job, ring)
    BY <1>1, <1>3 DEF IndInv, JobFits, RingLoaded
  <1> QED
    BY <1>1, <1>2, <1>3 DEF IndInv, JobSound

\* The latest header survives what happens to other places that hold no newer one.
LEMMA BestSurvives ==
    ASSUME IndInv, Valid(headers) # {},
           headers' \in [Places -> HeaderType],
           headers'[Best(headers)] = headers[Best(headers)],
           \A p \in Places : headers'[p] = headers[p] \/ headers'[p].generation <= 0
    PROVE  /\ HeadersOrdered' /\ Valid(headers') # {} /\ Best(headers') = Best(headers)
  <1> DEFINE b == Best(headers)
  <1>1. /\ b \in Valid(headers) /\ headers \in [Places -> HeaderType]
        /\ \A p \in Valid(headers) : p # b => headers[p].generation < headers[b].generation
    BY TypeParts DEF IndInv, HeadersOrdered, HeadersType
  <1>2. \A p \in Valid(headers') : p \in Valid(headers) /\ headers'[p] = headers[p]
    BY DEF Valid, HeaderType
  <1>3. b \in Valid(headers')
    BY <1>1 DEF Valid
  <1>4. \A p \in Valid(headers') : p # b => headers'[p].generation < headers'[b].generation
    BY <1>1, <1>2, <1>3
  <1>5. Best(headers') = b
    BY <1>3, <1>4, BestIs
  <1>6. \A p, q \in Valid(headers') : headers'[p].generation = headers'[q].generation => p = q
    BY <1>2 DEF IndInv, HeadersOrdered
  <1> QED
    BY <1>3, <1>4, <1>5, <1>6 DEF HeadersOrdered

\* A ring that is closed keeps the rest of its type.
LEMMA ClosedKeeps ==
    ASSUME NEW r \in RingType
    PROVE  [r EXCEPT !.ready = FALSE] \in RingType /\ ~[r EXCEPT !.ready = FALSE].ready
  BY DEF RingType

\* The invariant after a step that leaves the ring closed, or as it was, and the
\* latest header what it was.
LEMMA HeadersFrame ==
    ASSUME IndInv, HeadersType', HeadersOrdered', Valid(headers) # {}, Valid(headers') # {},
           Best(headers') = Best(headers), headers'[Best(headers)] = headers[Best(headers)],
           UNCHANGED <<slots, phase, batch, uploaded, history>>,
           \/ UNCHANGED ring
           \/ ring' \in RingType /\ ~ring'.ready,
           job' \in JobType, degraded' \in BOOLEAN, faults' \in 0 .. MaxFaults,
           phase # "booting", JobFits(job', ring')
    PROVE  IndInv'
  <1>1. /\ slots' = slots /\ phase' = phase /\ batch' = batch /\ uploaded' = uploaded
        /\ last' = last /\ persisted' = persisted /\ overwritten' = overwritten
    BY DEF history
  <1>2. TypeOK'
    <2>1. SlotsType' /\ ring' \in RingType /\ ModeType' /\ WorldType'
      BY <1>1, TypeParts DEF IndInv, SlotsType, ModeType, WorldType
    <2> QED
      BY <2>1 DEF TypeOK, HeadersType, HeaderType, SlotsType, RingType, JobType, ModeType,
         WorldType
  <1>3. FlashBlank' /\ RecordsKnown'
    BY <1>1 DEF IndInv, FlashBlank, RecordsKnown
  <1>4. RingLoaded'
    BY <1>1 DEF IndInv, RingLoaded
  <1>5. JobSound'
    BY <1>1 DEF JobSound
  <1>6. BatchWhole'
    BY <1>1 DEF IndInv, BatchWhole
  <1>7. NothingForgotten'
    BY <1>1 DEF IndInv, NothingForgotten
  <1> QED
    BY <1>2, <1>3, <1>4, <1>5, <1>6, <1>7 DEF IndInv

\* A sector of headers is erased, or partly erased, which is not the one of the latest.
LEMMA CheckpointEraseStep == IndInv /\ CheckpointErase => IndInv'
  <1> SUFFICES ASSUME IndInv, CheckpointErase PROVE IndInv'
    OBVIOUS
  <1>1. /\ job.at = "checkpoint" /\ Room = {}
        /\ UNCHANGED <<slots, batch, uploaded, history>>
    BY DEF CheckpointErase
  <1>2. HeadersType /\ ring \in RingType /\ job \in JobType
    BY <1>1, CheckpointHolds
  <1>3. ~(Formatting /\ ring = Closed)
    <2>1. SUFFICES ASSUME Formatting, ring = Closed PROVE FALSE
      OBVIOUS
    <2>2. <<0, 0>> \in Places
      BY RingAssumption DEF Places
    <2>3. <<0, 0>> \in Target
      BY <2>1, <2>2 DEF Target, Closed
    <2> QED
      BY <1>1, <2>1, <2>2, <2>3 DEF Room, Formatting
  <1>4. /\ ring.ready /\ job.then # "open" /\ ring.reserved <= job.reserve
        /\ Valid(headers) # {} /\ phase = "open"
    BY <1>1, <1>3, CheckpointHolds
  <1>5. Best(headers) \in Places /\ Best(headers) \notin Target
    <2>1. Best(headers) \in Places /\ Best(headers)[1] = ring.active
      BY <1>4 DEF IndInv, HeadersOrdered, RingLoaded, Valid
    <2>2. ring.active \in {0, 1}
      BY <1>2, RingHolds
    <2> QED
      BY <2>1, <2>2 DEF Target
  <1>6. Blank \in HeaderType /\ TornHeader \in HeaderType
        /\ Blank.generation = 0 /\ TornHeader.generation = -1
    BY RingAssumption DEF Blank, TornHeader, HeaderType
  <1>7. \/ /\ headers' = [p \in Places |-> IF p \in Target THEN Blank ELSE headers[p]]
           /\ UNCHANGED <<ring, job, phase, degraded, faults>>
        \/ /\ Fault /\ headers' \in Remains(headers, Target, Blank, TornHeader)
           /\ CheckpointFails
    BY DEF CheckpointErase
  <1>8. /\ headers' \in [Places -> HeaderType]
        /\ headers'[Best(headers)] = headers[Best(headers)]
        /\ \A p \in Places : headers'[p] = headers[p] \/ headers'[p].generation <= 0
    <2>1. CASE headers' = [p \in Places |-> IF p \in Target THEN Blank ELSE headers[p]]
      <3>1. \A p \in Places : headers[p] \in HeaderType
        BY <1>2 DEF HeadersType
      <3> QED
        BY <1>5, <1>6, <2>1, <3>1
    <2>2. CASE headers' \in Remains(headers, Target, Blank, TornHeader)
      <3>1. PICK gone \in SUBSET Target, hurt \in SUBSET Target :
              headers' = [p \in DOMAIN headers |->
                            IF p \notin Target THEN headers[p]
                            ELSE IF p \in gone THEN Blank
                            ELSE IF p \in hurt /\ headers[p] # Blank THEN TornHeader
                            ELSE headers[p]]
        BY <2>2 DEF Remains
      <3>2. DOMAIN headers = Places /\ \A p \in Places : headers[p] \in HeaderType
        BY <1>2 DEF HeadersType
      <3> QED
        BY <1>5, <1>6, <3>1, <3>2
    <2> QED
      BY <1>7, <2>1, <2>2
  <1>9. HeadersOrdered' /\ Valid(headers') # {} /\ Best(headers') = Best(headers)
    BY <1>4, <1>8, BestSurvives
  <1>10. degraded \in BOOLEAN /\ faults \in 0 .. MaxFaults /\ TypeOK
    BY TypeParts DEF IndInv, ModeType, WorldType
  <1>11. CASE UNCHANGED <<ring, job, phase, degraded, faults>>
    <2>1. JobFits(job', ring')
      BY <1>4, <1>11 DEF IndInv, JobSound, Formatting
    <2> QED
      BY <1>1, <1>2, <1>4, <1>8, <1>9, <1>10, <1>11, <2>1, HeadersFrame DEF HeadersType
  <1>12. CASE Fault /\ CheckpointFails
    <2>1. /\ ring' = [ring EXCEPT !.ready = FALSE]
          /\ job' = Idle /\ degraded' = TRUE /\ UNCHANGED phase
      BY <1>4, <1>12 DEF CheckpointFails, Fail
    <2>2. ring' \in RingType /\ ~ring'.ready
      BY <1>2, <2>1, ClosedKeeps
    <2>3. job' \in JobType /\ JobFits(job', ring')
      BY <2>1, IdleFits
    <2>4. faults' \in 0 .. MaxFaults
      BY <1>10, <1>12, FaultType
    <2> QED
      BY <1>1, <1>4, <1>8, <1>9, <2>1, <2>2, <2>3, <2>4, HeadersFrame DEF HeadersType
  <1> QED
    BY <1>7, <1>11, <1>12

\* A free place of the sector to write is found.
LEMMA NextPlaceFree == Room # {} => NextPlace \in Room
  <1> SUFFICES ASSUME Room # {} PROVE NextPlace \in Room
    OBVIOUS
  <1> DEFINE N == {p[2] : p \in Room}
  <1>1. \A p \in Room : p[2] \in Nat
    BY RingAssumption DEF Room, Target, Places
  <1>2. N \in SUBSET Nat
    BY <1>1
  <1>3. PICK p \in Room : TRUE
    OBVIOUS
  <1>4. p[2] \in N
    BY <1>3
  <1>5. Min(N) \in N /\ \A n \in N : Min(N) <= n
    BY <1>2, <1>4, MinNat
  <1>6. \E q \in Room : \A r \in Room : q[2] <= r[2]
    BY <1>5
  <1> QED
    BY <1>6 DEF NextPlace

\* A header newer than all is the latest; where there was none, nothing else changes.
LEMMA HeaderWritten ==
    ASSUME HeadersType, HeadersOrdered, NEW place \in Places, headers[place] = Blank, NEW h \in HeaderType,
           headers' = [headers EXCEPT ![place] = h],
           h.generation > 0,
           \A p \in Valid(headers) : headers[p].generation < h.generation
    PROVE  /\ HeadersType' /\ HeadersOrdered' /\ Valid(headers') # {}
           /\ Best(headers') = place /\ headers'[place] = h
  <1>1. headers' \in [Places -> HeaderType] /\ headers'[place] = h
        /\ \A p \in Places : p # place => headers'[p] = headers[p]
    BY DEF HeadersType
  <1>2. place \in Valid(headers')
    BY <1>1 DEF Valid
  <1>3. \A p \in Valid(headers') : p # place => p \in Valid(headers) /\ headers'[p] = headers[p]
    BY <1>1 DEF Valid
  <1>4. \A p \in Valid(headers') : p # place => headers'[p].generation < headers'[place].generation
    BY <1>1, <1>3
  <1>5. Best(headers') = place
    BY <1>1, <1>2, <1>4, BestIs
  <1>6. \A p, q \in Valid(headers') : headers'[p].generation = headers'[q].generation => p = q
    <2>1. \A p \in Valid(headers') : headers'[p].generation \in Int
      BY <1>1 DEF Valid, HeaderType
    <2>2. \A p, q \in Valid(headers') : p # place /\ q # place
             /\ headers'[p].generation = headers'[q].generation => p = q
      BY <1>3 DEF HeadersOrdered
    <2>3. \A p \in Valid(headers') :
             p # place => headers'[p].generation # headers'[place].generation
      <3>1. \A m, n \in Int : m < n => m # n
        OBVIOUS
      <3> QED
        BY <1>2, <1>4, <2>1, <3>1
    <2> QED
      BY <2>2, <2>3
  <1> QED
    BY <1>1, <1>2, <1>4, <1>5, <1>6 DEF HeadersOrdered, HeadersType

\* What the new header says holds of what was written.
LEMMA HeaderIs ==
    ASSUME IndInv, job.at = "checkpoint"
    PROVE  /\ Header \in HeaderType /\ Header.generation > 0
           /\ Header.generation = ring.generation + 1
           /\ Header.reserved = job.reserve /\ Header.acked = ring.acked
           /\ \A p \in Valid(headers) : headers[p].generation < Header.generation
           /\ last < Header.reserved /\ Header.acked <= last
           /\ Header.reserved \in Sequences
  <1>1. /\ HeadersType /\ ring \in RingType /\ job \in JobType /\ last \in 0 .. MaxSeq
        /\ HeadersOrdered /\ RingLoaded /\ FlashBlank
    BY CheckpointHolds, TypeParts DEF IndInv, WorldType
  <1>2. /\ Header.generation = ring.generation + 1
        /\ Header.reserved = job.reserve /\ Header.acked = ring.acked
    BY DEF Header
  <1>3. /\ ring.generation \in Nat /\ job.reserve \in 0 .. MaxSeq /\ ring.acked \in 0 .. MaxSeq
    BY <1>1, RingHolds DEF JobType
  <1>4. Header \in HeaderType /\ Header.generation > 0
    <2>1. ring.generation + 1 \in Nat \cup {-1} /\ ring.generation + 1 > 0
      BY <1>3
    <2> QED
      BY <1>2, <1>3, <2>1 DEF Header, HeaderType
  <1>5. CASE Formatting /\ ring = Closed /\ Valid(headers) = {}
    <2>1. job.reserve = 1 /\ ring.acked = 0 /\ last = 0
      BY <1>1, <1>5 DEF Formatting, Closed, FlashBlank
    <2>2. 1 \in Sequences
      BY RingAssumption DEF Sequences
    <2> QED
      BY <1>2, <1>4, <1>5, <2>1, <2>2
  <1>6. CASE ring.ready /\ ring.reserved <= job.reserve /\ Valid(headers) # {}
    <2>1. \A p \in Valid(headers) : headers[p].generation \in Int
      BY <1>1 DEF HeadersType, HeaderType, Valid
    <2>2. \A p \in Valid(headers) : headers[p].generation <= ring.generation
      BY <1>1, <1>6, <2>1 DEF HeadersOrdered, RingLoaded
    <2>3. \A p \in Valid(headers) : headers[p].generation < ring.generation + 1
      BY <1>3, <2>1, <2>2
    <2>4. last < ring.next /\ ring.next <= ring.reserved /\ ring.acked <= last
      BY <1>1, <1>6 DEF RingLoaded
    <2>5. ring.next \in Sequences /\ ring.reserved \in Sequences
      BY <1>1, RingHolds
    <2>6. last < job.reserve /\ job.reserve \in Sequences
      BY <1>1, <1>3, <1>6, <2>4, <2>5, RingAssumption DEF Sequences
    <2> QED
      BY <1>2, <1>4, <2>3, <2>4, <2>6
  <1> QED
    BY <1>5, <1>6, CheckpointHolds

\* The new header keeps what the flash promises, of the records and of what the
\* collector has.
LEMMA HeaderKeeps ==
    ASSUME IndInv, job.at = "checkpoint", HeadersType',
           HeadersOrdered', Valid(headers') # {}, headers'[Best(headers')] = Header,
           UNCHANGED <<slots, batch, uploaded, history>>,
           ring'.ready => ring'.acked = ring.acked
    PROVE  HeadersOrdered' /\ FlashBlank' /\ RecordsKnown' /\ BatchWhole' /\ NothingForgotten'
  <1>1. /\ slots' = slots /\ batch' = batch /\ uploaded' = uploaded
        /\ last' = last /\ persisted' = persisted /\ overwritten' = overwritten
    BY DEF history
  <1>2. last < Header.reserved /\ Header.acked <= last /\ Header.acked = ring.acked
    BY HeaderIs
  <1>3. FlashBlank' /\ RecordsKnown' /\ BatchWhole'
    BY <1>1, <1>2 DEF IndInv, FlashBlank, RecordsKnown, BatchWhole
  <1>4. NothingForgotten'
    <2> SUFFICES ASSUME NEW s \in persisted \ overwritten
                 PROVE  /\ (\E i \in Slots : slots[i] = s) \/ s <= ring.acked
                        /\ s \notin uploaded => s > ring.acked
      BY <1>1, <1>2 DEF NothingForgotten
    <2>1. ring.ready /\ Valid(headers) # {}
      <3>1. Valid(headers) # {}
        BY DEF IndInv, FlashBlank
      <3> QED
        BY <3>1, CheckpointHolds
    <2>2. headers[Best(headers)].acked <= ring.acked
      BY <2>1 DEF IndInv, RingLoaded
    <2>3. /\ headers[Best(headers)].acked \in Int /\ ring.acked \in Int /\ s \in Int
      <3>1. ring \in RingType /\ HeadersType /\ s \in Sequences
        BY TypeParts DEF IndInv, WorldType
      <3>2. headers[Best(headers)] \in HeaderType
        BY <2>1, <3>1 DEF IndInv, HeadersOrdered, Valid, HeadersType
      <3>3. ring.acked \in 0 .. MaxSeq /\ headers[Best(headers)].acked \in 0 .. MaxSeq
        BY <3>1, <3>2, RingHolds DEF HeaderType
      <3> QED
        BY <3>1, <3>3, RingAssumption DEF Sequences
    <2>4. /\ (\E i \in Slots : slots[i] = s) \/ s <= headers[Best(headers)].acked
          /\ s \notin uploaded => s > ring.acked
      BY <2>1 DEF IndInv, NothingForgotten
    <2> QED
      BY <2>2, <2>3, <2>4
  <1> QED
    BY <1>3, <1>4

\* The index after a checkpoint.
LEMMA CheckpointedIs ==
    ASSUME IndInv, job.at = "checkpoint", ring.ready
    PROVE  /\ Checkpointed \in RingType /\ Checkpointed.ready
           /\ Checkpointed.generation = ring.generation + 1
           /\ Checkpointed.active = 1 - ring.active
           /\ Checkpointed.reserved = job.reserve /\ Checkpointed.durable = ring.acked
           /\ Checkpointed.acked = ring.acked /\ Checkpointed.max = ring.max
           /\ Checkpointed.next = ring.next
           /\ Checkpointed.seqs = ring.seqs /\ Checkpointed.dirty = ring.dirty
  <1>1. ring \in RingType /\ job.reserve \in Sequences
    BY CheckpointHolds, HeaderIs
  <1>2. /\ ring.generation + 1 \in Nat /\ 1 - ring.active \in {0, 1}
        /\ ring.acked \in 0 .. MaxSeq
    BY <1>1, RingHolds
  <1>3. Checkpointed = [ring EXCEPT !.generation = ring.generation + 1, !.active = 1 - ring.active,
                                    !.reserved = job.reserve, !.durable = ring.acked]
    BY DEF Checkpointed
  <1> QED
    BY <1>1, <1>2, <1>3 DEF RingType

\* A header is written, or fails to be.
LEMMA CheckpointWriteStep == IndInv /\ CheckpointWrite => IndInv'
  <1> SUFFICES ASSUME IndInv, CheckpointWrite PROVE IndInv'
    OBVIOUS
  <1>1. /\ job.at = "checkpoint" /\ Room # {}
        /\ UNCHANGED <<slots, batch, uploaded, history>>
    BY DEF CheckpointWrite
  <1>2. /\ HeadersType /\ SlotsType /\ ring \in RingType /\ job \in JobType
        /\ ModeType /\ WorldType /\ TypeOK
    BY TypeParts DEF IndInv
  <1>3. /\ slots' = slots /\ batch' = batch /\ uploaded' = uploaded
        /\ last' = last /\ persisted' = persisted /\ overwritten' = overwritten
    BY <1>1 DEF history
  <1>4. /\ NextPlace \in Places /\ headers[NextPlace] = Blank
        /\ NextPlace[1] = 1 - ring.active
    BY <1>1, NextPlaceFree DEF Room, Target
  <1>5. ASSUME headers' = [headers EXCEPT ![NextPlace] = Header]
        PROVE  /\ HeadersType' /\ HeadersOrdered' /\ Valid(headers') # {}
               /\ Best(headers') = NextPlace /\ headers'[Best(headers')] = Header
    <2>1. /\ Header \in HeaderType /\ Header.generation > 0
          /\ \A p \in Valid(headers) : headers[p].generation < Header.generation
      BY <1>1, HeaderIs
    <2> QED
      BY <1>2, <1>4, <1>5, <2>1, HeaderWritten DEF IndInv
  <1>6. ASSUME HeadersType', ring' \in RingType, job' \in JobType, degraded' \in BOOLEAN,
               phase' \in {"booting", "open", "closed"}, faults' \in 0 .. MaxFaults
        PROVE  TypeOK'
    <2>1. SlotsType' /\ WorldType' /\ ModeType'
      BY <1>2, <1>3, <1>6 DEF SlotsType, WorldType, ModeType
    <2> QED
      BY <1>6, <2>1 DEF TypeOK, HeadersType, HeaderType, SlotsType, RingType, JobType, ModeType,
         WorldType
  <1>7. CASE headers' = [headers EXCEPT ![NextPlace] = Header] /\ CheckpointDone
             /\ UNCHANGED faults /\ Formatting /\ ring = Closed /\ Valid(headers) = {}
    <2>1. /\ ring' = Load(headers', slots) /\ phase' = "open" /\ job' = Idle
          /\ UNCHANGED degraded
      BY <1>7 DEF CheckpointDone, Formatting
    <2>2. /\ last = 0 /\ persisted = {} /\ \A i \in Slots : slots[i] = Erased
      BY <1>7 DEF IndInv, FlashBlank
    <2>3. Header.acked = 0 /\ last < Header.reserved /\ Header.acked <= last
      BY <1>1, <1>7, HeaderIs DEF Closed
    <2>4. Best(headers') \in Valid(headers') /\ headers' \in [Places -> HeaderType]
          /\ headers'[Best(headers')] = Header
      BY <1>5, <1>7 DEF HeadersOrdered, HeadersType
    <2>5. \A i \in Held(slots) : slots[i] <= last
      BY DEF IndInv, RecordsKnown
    <2>6. /\ ring' \in RingType /\ ring'.ready
          /\ ring'.generation = Header.generation /\ ring'.active = Best(headers')[1]
          /\ ring'.reserved = Header.reserved /\ ring'.next = Header.reserved
          /\ ring'.acked = Header.acked /\ ring'.durable = Header.acked
          /\ ring'.max <= last
          /\ ring'.seqs = [i \in Slots |-> IF slots[i] > 0 THEN slots[i] ELSE 0]
          /\ ring'.dirty = [i \in Slots |-> slots[i] # Erased]
      <3>1. slots \in [Slots -> Sequences \cup {Erased, Torn}] /\ last \in 0 .. MaxSeq
        BY <1>2 DEF SlotsType, WorldType
      <3> QED
        BY <2>1, <2>3, <2>4, <2>5, <3>1, LoadSound
    <2>7. TypeOK'
      BY <1>2, <1>5, <1>6, <1>7, <2>1, <2>6, IdleFits DEF ModeType, WorldType
    <2>8. HeadersOrdered' /\ FlashBlank' /\ RecordsKnown' /\ BatchWhole' /\ NothingForgotten'
      <3>1. ring'.acked = ring.acked
        BY <1>7, <2>3, <2>6 DEF Closed
      <3> QED
        BY <1>1, <1>5, <1>7, <3>1, HeaderKeeps
    <2>9. RingLoaded'
      <3>1. ring'.next <= ring'.reserved /\ ring'.durable <= ring'.acked
        BY <2>6, RingHolds, RingAssumption DEF Sequences
      <3>2. \A i \in Slots :
               /\ ring'.seqs[i] = IF slots[i] > 0 THEN slots[i] ELSE 0
               /\ slots[i] # Erased => ring'.dirty[i]
        BY <2>2, <2>6
      <3> QED
        BY <1>3, <1>5, <1>7, <2>1, <2>3, <2>6, <3>1, <3>2 DEF RingLoaded
    <2>10. JobSound'
      BY <2>1, IdleFits DEF JobSound
    <2> QED
      BY <2>7, <2>8, <2>9, <2>10 DEF IndInv
  <1>8. CASE headers' = [headers EXCEPT ![NextPlace] = Header] /\ CheckpointDone
             /\ UNCHANGED faults /\ ring.ready /\ job.then # "open" /\ phase = "open"
    <2>1. /\ ring' = Checkpointed /\ UNCHANGED phase
          /\ Resume(job, Checkpointed) \/ (job' = Idle /\ UNCHANGED degraded)
      BY <1>8 DEF CheckpointDone
    <2>2. /\ ring' \in RingType /\ ring'.ready
          /\ ring'.generation = ring.generation + 1 /\ ring'.active = 1 - ring.active
          /\ ring'.reserved = job.reserve /\ ring'.durable = ring.acked
          /\ ring'.acked = ring.acked /\ ring'.max = ring.max /\ ring'.next = ring.next
          /\ ring'.seqs = ring.seqs /\ ring'.dirty = ring.dirty
      BY <1>1, <1>8, <2>1, CheckpointedIs
    <2>3. /\ Header.generation = ring.generation + 1 /\ Header.reserved = job.reserve
          /\ Header.acked = ring.acked /\ job.reserve \in Sequences
      BY <1>1, HeaderIs
    <2>4. ring.next <= job.reserve
      <3>1. ring.next <= ring.reserved /\ ring.reserved <= job.reserve
        BY <1>1, <1>8, CheckpointHolds DEF IndInv, RingLoaded, Formatting
      <3>2. ring.next \in Sequences /\ ring.reserved \in Sequences
        BY <1>2, RingHolds
      <3> QED
        BY <2>3, <3>1, <3>2, RingAssumption DEF Sequences
    <2>5. job' \in JobType /\ JobFits(job', ring') /\ degraded' \in BOOLEAN
      <3>1. CASE Resume(job, Checkpointed)
        BY <1>2, <1>8, <2>1, <2>2, <2>4, <3>1, ResumeFits DEF ModeType
      <3>2. CASE job' = Idle /\ UNCHANGED degraded
        BY <1>2, <3>2, IdleFits DEF ModeType
      <3> QED
        BY <2>1, <3>1, <3>2
    <2>6. TypeOK'
      BY <1>2, <1>5, <1>6, <1>8, <2>1, <2>2, <2>5 DEF ModeType, WorldType
    <2>7. HeadersOrdered' /\ FlashBlank' /\ RecordsKnown' /\ BatchWhole' /\ NothingForgotten'
      BY <1>1, <1>5, <1>8, <2>2, HeaderKeeps
    <2>8. RingLoaded'
      <3>1. /\ ring.acked <= last /\ ring.max <= last /\ last < ring.next
            /\ \A i \in Slots :
                  /\ ring.seqs[i] = IF slots[i] > 0 THEN slots[i] ELSE 0
                  /\ slots[i] # Erased => ring.dirty[i]
        BY <1>8 DEF IndInv, RingLoaded
      <3>2. ring.acked <= ring.acked
        BY <1>2, RingHolds
      <3> QED
        BY <1>3, <1>4, <1>5, <1>8, <2>1, <2>2, <2>3, <2>4, <3>1, <3>2 DEF RingLoaded
    <2>9. JobSound'
      BY <1>8, <2>1, <2>5 DEF JobSound
    <2> QED
      BY <2>6, <2>7, <2>8, <2>9 DEF IndInv
  <1>9. CASE Fault /\ CheckpointFails
             /\ \E written \in {Header, TornHeader, Blank} :
                    headers' = [headers EXCEPT ![NextPlace] = written]
    <2>1. /\ ring' = [ring EXCEPT !.ready = FALSE] /\ job' = Idle
          /\ degraded' \in BOOLEAN
          /\ phase' = "closed" \/ (job.then # "open" /\ phase' = phase)
      BY <1>2, <1>9 DEF CheckpointFails, Fail, ModeType
    <2>2. ring' \in RingType /\ ~ring'.ready
      BY <1>2, <2>1, ClosedKeeps
    <2>3. phase' # "booting" /\ phase' \in {"booting", "open", "closed"}
      BY <1>1, <1>2, <2>1, CheckpointHolds DEF Formatting, ModeType
    <2>4. faults' \in 0 .. MaxFaults
      BY <1>2, <1>9, FaultType
    <2>5. JobSound' /\ job' \in JobType
      BY <2>1, <2>3, IdleFits DEF JobSound
    <2>6. RingLoaded'
      BY <2>2 DEF RingLoaded
    <2>7. CASE headers' = [headers EXCEPT ![NextPlace] = Header]
      BY <1>1, <1>5, <1>6, <2>1, <2>2, <2>3, <2>4, <2>5, <2>6, <2>7, HeaderKeeps DEF IndInv
    <2>8. CASE \E written \in {TornHeader, Blank} :
                   headers' = [headers EXCEPT ![NextPlace] = written]
      <3>1. TornHeader \in HeaderType /\ TornHeader.generation = -1
            /\ Blank \in HeaderType /\ Blank.generation = 0
        BY RingAssumption DEF TornHeader, Blank, HeaderType
      <3>2. /\ headers' \in [Places -> HeaderType]
            /\ headers'[NextPlace].generation <= 0
            /\ \A p \in Places : p # NextPlace => headers'[p] = headers[p]
        BY <1>2, <1>4, <2>8, <3>1 DEF HeadersType
      <3>3. headers[NextPlace].generation <= 0
        BY <1>4, <3>1
      <3>4. CASE Valid(headers) # {}
        <4>1. Best(headers) \in Places /\ headers[Best(headers)].generation > 0
          BY <3>4 DEF IndInv, HeadersOrdered, Valid
        <4>2. Best(headers) # NextPlace
          BY <1>4, <3>1, <4>1
        <4>3. headers'[Best(headers)] = headers[Best(headers)]
          BY <3>2, <4>1, <4>2
        <4>4. HeadersOrdered' /\ Valid(headers') # {} /\ Best(headers') = Best(headers)
          BY <3>2, <3>4, <4>3, BestSurvives
        <4>5. phase = "open" /\ UNCHANGED phase
          BY <1>1, <2>1, <3>4, <1>9, CheckpointHolds DEF CheckpointFails
        <4>6. JobFits(job', ring')
          BY <2>1, IdleFits
        <4> QED
          BY <1>1, <2>1, <2>2, <2>4, <2>5, <3>2, <3>4, <4>3, <4>4, <4>5, <4>6, HeadersFrame
          DEF HeadersType
      <3>5. CASE Valid(headers) = {}
        <4>1. \A p \in Places : ~(headers[p].generation > 0)
          BY <3>5 DEF Valid
        <4>2. \A p \in Places : ~(headers'[p].generation > 0)
          <5>1. headers'[NextPlace].generation \in Int
            BY <1>4, <3>2 DEF HeaderType
          <5> QED
            BY <3>2, <4>1, <5>1
        <4>3. Valid(headers') = {}
          BY <4>2 DEF Valid
        <4>4. HeadersOrdered' /\ FlashBlank' /\ RecordsKnown' /\ BatchWhole'
          BY <1>3, <2>2, <3>5, <4>3
          DEF IndInv, HeadersOrdered, FlashBlank, RecordsKnown, BatchWhole
        <4>5. NothingForgotten'
          BY <1>3, <3>5 DEF IndInv, FlashBlank, NothingForgotten
        <4>6. TypeOK'
          BY <1>6, <2>1, <2>2, <2>3, <2>4, <2>5, <3>2 DEF HeadersType
        <4> QED
          BY <2>5, <2>6, <4>4, <4>5, <4>6 DEF IndInv
      <3> QED
        BY <3>4, <3>5
    <2> QED
      BY <1>9, <2>7, <2>8
  <1> QED
    BY <1>1, <1>7, <1>8, <1>9, CheckpointHolds DEF CheckpointWrite
-----------------------------------------------------------------------------
(* begin() and the power. *)

\* A partition with a header is one that begin() accepts.
LEMMA HeaderOpens ==
    ASSUME IndInv, Valid(headers) # {}
    PROVE  Opens(headers, slots)
  <1>1. /\ HeadersType /\ SlotsType /\ last \in 0 .. MaxSeq
        /\ HeadersOrdered /\ RecordsKnown
    BY TypeParts DEF IndInv, WorldType
  <1>2. \A p \in Valid(headers) : headers[p].generation \in Int
    BY <1>1 DEF HeadersType, HeaderType, Valid
  <1>3. Best(headers) \in Valid(headers)
        /\ \A p \in Valid(headers) : p # Best(headers) =>
               headers[p].generation < headers[Best(headers)].generation
    BY <1>1 DEF HeadersOrdered
  <1>4. \A p, q \in Valid(headers) :
           headers[p].generation = headers[q].generation => headers[p] = headers[q]
    BY <1>1 DEF HeadersOrdered
  <1>5. \A i \in Held(slots) : slots[i] < headers[Best(headers)].reserved
    <2>1. \A i \in Held(slots) : slots[i] <= last /\ slots[i] \in Int
      BY <1>1 DEF RecordsKnown, Held, SlotsType, Sequences, Erased, Torn
    <2>2. last < headers[Best(headers)].reserved /\ headers[Best(headers)].reserved \in Int
      BY <1>1, <1>3 DEF RecordsKnown, HeadersType, HeaderType, Valid
    <2> QED
      BY <1>1, <2>1, <2>2
  <1>6. \A i, j \in Held(slots) : slots[i] = slots[j] => i = j
    BY <1>1 DEF RecordsKnown
  <1> QED
    BY <1>4, <1>5, <1>6 DEF Opens

\* begin() over a flash that keeps the invariant opens a ring that does.
LEMMA OpensLoaded ==
    ASSUME IndInv, Valid(headers) # {}, UNCHANGED <<flash, batch, uploaded, history>>,
           ring' = Load(headers, slots), phase' = "open", job' = Idle,
           degraded' \in BOOLEAN, faults' \in 0 .. MaxFaults
    PROVE  IndInv'
  <1>1. /\ headers' = headers /\ slots' = slots /\ batch' = batch /\ uploaded' = uploaded
        /\ last' = last /\ persisted' = persisted /\ overwritten' = overwritten
    BY DEF flash, history
  <1>2. /\ HeadersType /\ SlotsType /\ WorldType /\ last \in 0 .. MaxSeq
        /\ HeadersOrdered /\ RecordsKnown
    BY TypeParts DEF IndInv, WorldType
  <1>3. /\ Best(headers) \in Valid(headers)
        /\ \A i \in Held(slots) : slots[i] <= last
        /\ last < headers[Best(headers)].reserved /\ headers[Best(headers)].acked <= last
    BY <1>2 DEF HeadersOrdered, RecordsKnown
  <1>4. /\ ring' \in RingType /\ ring'.ready
        /\ ring'.generation = headers[Best(headers)].generation
        /\ ring'.active = Best(headers)[1]
        /\ ring'.reserved = headers[Best(headers)].reserved
        /\ ring'.next = headers[Best(headers)].reserved
        /\ ring'.acked = headers[Best(headers)].acked
        /\ ring'.durable = headers[Best(headers)].acked
        /\ ring'.max <= last
        /\ ring'.seqs = [i \in Slots |-> IF slots[i] > 0 THEN slots[i] ELSE 0]
        /\ ring'.dirty = [i \in Slots |-> slots[i] # Erased]
    BY <1>2, <1>3, LoadSound DEF HeadersType, SlotsType
  <1>5. TypeOK'
    <2>1. HeadersType' /\ SlotsType' /\ ring' \in RingType /\ job' \in JobType /\ ModeType'
          /\ WorldType'
      BY <1>1, <1>2, <1>4, IdleFits DEF HeadersType, SlotsType, WorldType, ModeType
    <2> QED
      BY <2>1 DEF TypeOK, HeadersType, HeaderType, SlotsType, RingType, JobType, ModeType,
         WorldType
  <1>6. HeadersOrdered' /\ FlashBlank' /\ RecordsKnown' /\ BatchWhole'
    BY <1>1, <1>2 DEF IndInv, HeadersOrdered, FlashBlank, RecordsKnown, BatchWhole
  <1>7. RingLoaded'
    <2>1. ring'.next <= ring'.reserved /\ ring'.durable <= ring'.acked
      BY <1>4, RingHolds, RingAssumption DEF Sequences
    <2>2. \A i \in Slots : ring'.seqs[i] = IF slots[i] > 0 THEN slots[i] ELSE 0
      BY <1>4
    <2>3. \A i \in Slots : slots[i] # Erased => ring'.dirty[i]
      BY <1>4, Zenon
    <2> QED
      BY <1>1, <1>3, <1>4, <2>1, <2>2, <2>3 DEF RingLoaded
  <1>8. JobSound'
    BY IdleFits DEF JobSound
  <1>9. NothingForgotten'
    BY <1>1, <1>4 DEF IndInv, NothingForgotten
  <1> QED
    BY <1>5, <1>6, <1>7, <1>8, <1>9 DEF IndInv

\* begin() at the boot.
LEMMA OpenStep == IndInv /\ Open => IndInv'
  <1> SUFFICES ASSUME IndInv, Open PROVE IndInv'
    OBVIOUS
  <1>1. /\ phase = "booting" /\ job = Idle
        /\ UNCHANGED <<flash, degraded, batch, uploaded, history, faults>>
    BY DEF Open
  <1>2. /\ HeadersType /\ SlotsType /\ ring \in RingType /\ ModeType /\ WorldType
        /\ ring = Closed
    BY <1>1, TypeParts DEF IndInv, JobSound
  <1>3. /\ headers' = headers /\ slots' = slots /\ batch' = batch /\ uploaded' = uploaded
        /\ last' = last /\ persisted' = persisted /\ overwritten' = overwritten
    BY <1>1 DEF flash, history
  <1>4. CASE Opens(headers, slots) /\ ring' = Load(headers, slots) /\ phase' = "open"
             /\ UNCHANGED job
    <2>1. Valid(headers) # {}
      BY <1>4 DEF Opens
    <2>2. degraded' \in BOOLEAN /\ faults' \in 0 .. MaxFaults
      BY <1>1, <1>2 DEF ModeType, WorldType
    <2> QED
      BY <1>1, <1>4, <2>1, <2>2, OpensLoaded
  <1>5. ASSUME UNCHANGED ring, JobSound', job' \in JobType, ModeType' PROVE IndInv'
    <2>1. TypeOK'
      <3>1. HeadersType' /\ SlotsType' /\ ring' \in RingType /\ WorldType'
        BY <1>1, <1>2, <1>3, <1>5 DEF HeadersType, SlotsType, WorldType
      <3> QED
        BY <1>5, <3>1 DEF TypeOK, HeadersType, HeaderType, SlotsType, RingType, JobType,
           ModeType, WorldType
    <2>2. ~ring'.ready
      BY <1>2, <1>5 DEF Closed
    <2>3. HeadersOrdered' /\ FlashBlank' /\ RecordsKnown' /\ RingLoaded' /\ BatchWhole'
          /\ NothingForgotten'
      BY <1>3, <1>5, <2>2 DEF IndInv, HeadersOrdered, FlashBlank, RecordsKnown, RingLoaded,
         BatchWhole, NothingForgotten
    <2> QED
      BY <1>5, <2>1, <2>3 DEF IndInv
  <1>6. CASE Unused(headers, slots) /\ UNCHANGED <<ring, phase>>
             /\ job' = [Idle EXCEPT !.at = "checkpoint", !.reserve = 1, !.then = "open"]
    <2>1. /\ job'.at = "checkpoint" /\ job'.then = "open" /\ job'.reserve = 1
          /\ job' \in JobType
      <3>1. 1 \in 0 .. MaxSeq
        BY RingAssumption
      <3>2. \A j \in JobType :
              [j EXCEPT !.at = "checkpoint", !.reserve = 1, !.then = "open"] \in JobType
        BY <3>1 DEF JobType
      <3>3. /\ job'.at = "checkpoint" /\ job'.then = "open" /\ job'.reserve = 1
        BY <1>6 DEF Idle
      <3> QED
        BY <1>6, <3>2, <3>3, ClosedType
    <2>2. Formatting'
      BY <1>1, <1>3, <1>6, <2>1 DEF Formatting, Unused
    <2>3. JobSound' /\ ModeType'
      BY <1>1, <1>2, <1>6, <2>2 DEF JobSound, ModeType
    <2> QED
      BY <1>5, <1>6, <2>1, <2>3
  <1>7. CASE phase' = "closed" /\ UNCHANGED <<ring, job>>
    <2>1. JobSound' /\ job' \in JobType /\ ModeType'
      BY <1>1, <1>2, <1>7, IdleFits DEF JobSound, ModeType
    <2> QED
      BY <1>5, <1>7, <2>1
  <1> QED
    BY <1>4, <1>6, <1>7 DEF Open

\* The probe of a writer that failed.
LEMMA ReopenStep == IndInv /\ Reopen => IndInv'
  <1> SUFFICES ASSUME IndInv, Reopen PROVE IndInv'
    OBVIOUS
  <1>1. /\ phase = "open" /\ job = Idle /\ Opens(headers, slots)
        /\ ring' = Load(headers, slots) /\ degraded' = FALSE
        /\ UNCHANGED <<flash, job, phase, batch, uploaded, history, faults>>
    BY DEF Reopen
  <1>2. Valid(headers) # {}
    BY <1>1 DEF Opens
  <1>3. faults \in 0 .. MaxFaults
    BY TypeParts DEF IndInv, WorldType
  <1> QED
    BY <1>1, <1>2, <1>3, OpensLoaded

\* The power goes: what is left is the flash.
LEMMA CrashStep == IndInv /\ Crash => IndInv'
  <1> SUFFICES ASSUME IndInv, Crash PROVE IndInv'
    OBVIOUS
  <1>1. /\ Fault /\ ring' = Closed /\ job' = Idle /\ phase' = "booting" /\ degraded' = FALSE
        /\ batch' = {} /\ uploaded' = uploaded
        /\ headers' = headers /\ slots' = slots
        /\ last' = last /\ persisted' = persisted /\ overwritten' = overwritten
    BY DEF Crash, flash, history
  <1>2. TypeOK'
    <2>1. HeadersType' /\ SlotsType' /\ ring' \in RingType /\ job' \in JobType /\ ModeType'
      BY <1>1, TypeParts, ClosedType DEF IndInv, HeadersType, SlotsType, ModeType
    <2>2. WorldType'
      <3>1. faults' \in 0 .. MaxFaults
        BY <1>1, FaultType DEF IndInv
      <3> QED
        BY <1>1, <3>1, TypeParts DEF IndInv, WorldType
    <2> QED
      BY <2>1, <2>2 DEF TypeOK, HeadersType, HeaderType, SlotsType, RingType, JobType, ModeType,
         WorldType
  <1>3. ~ring'.ready
    BY <1>1 DEF Closed
  <1>4. HeadersOrdered' /\ FlashBlank' /\ RecordsKnown' /\ RingLoaded' /\ BatchWhole'
        /\ NothingForgotten'
    BY <1>1, <1>3 DEF IndInv, HeadersOrdered, FlashBlank, RecordsKnown, RingLoaded,
       BatchWhole, NothingForgotten
  <1>5. JobSound'
    BY <1>1, IdleFits DEF JobSound
  <1> QED
    BY <1>2, <1>4, <1>5 DEF IndInv
-----------------------------------------------------------------------------
(* Sectors of records. *)

\* A sector is some of the slots, and a slot is in its own.
LEMMA SectorIs == \A i \in Slots : SectorOf(i) \in SUBSET Slots /\ i \in SectorOf(i)
  BY DEF SectorOf

\* The index whose sector is cleared.
LEMMA ClearedIs ==
    ASSUME NEW r \in RingType, NEW area \in SUBSET Slots
    PROVE  /\ Cleared(r, area) \in RingType
           /\ \A i \in Slots :
                 /\ Cleared(r, area).seqs[i] = IF i \in area THEN 0 ELSE r.seqs[i]
                 /\ i \in area => ~Cleared(r, area).dirty[i]
                 /\ i \notin area => Cleared(r, area).dirty[i] = r.dirty[i]
           /\ Cleared(r, area).ready = r.ready /\ Cleared(r, area).generation = r.generation
           /\ Cleared(r, area).active = r.active /\ Cleared(r, area).reserved = r.reserved
           /\ Cleared(r, area).durable = r.durable /\ Cleared(r, area).acked = r.acked
           /\ Cleared(r, area).max = r.max /\ Cleared(r, area).next = r.next
  <1> DEFINE seqs == [i \in Slots |-> IF i \in area THEN 0 ELSE r.seqs[i]]
             dirty == [i \in Slots |-> IF i \in area THEN FALSE ELSE r.dirty[i]]
  <1>1. r.seqs \in [Slots -> Sequences \cup {0}] /\ r.dirty \in [Slots -> BOOLEAN]
    BY RingHolds
  <1>2. seqs \in [Slots -> Sequences \cup {0}] /\ dirty \in [Slots -> BOOLEAN]
    BY <1>1
  <1>3. Cleared(r, area) = [r EXCEPT !.seqs = seqs, !.dirty = dirty]
    BY DEF Cleared
  <1>4. \A i \in Slots : /\ seqs[i] = IF i \in area THEN 0 ELSE r.seqs[i]
                         /\ i \in area => dirty[i] = FALSE
                         /\ i \notin area => dirty[i] = r.dirty[i]
    OBVIOUS
  <1> HIDE DEF seqs, dirty
  <1>5. /\ Cleared(r, area) \in RingType
        /\ Cleared(r, area).seqs = seqs /\ Cleared(r, area).dirty = dirty
        /\ Cleared(r, area).ready = r.ready /\ Cleared(r, area).generation = r.generation
        /\ Cleared(r, area).active = r.active /\ Cleared(r, area).reserved = r.reserved
        /\ Cleared(r, area).durable = r.durable /\ Cleared(r, area).acked = r.acked
        /\ Cleared(r, area).max = r.max /\ Cleared(r, area).next = r.next
    BY <1>2, <1>3 DEF RingType
  <1> QED
    BY <1>4, <1>5

\* An erase, complete or not, only takes records away, and only from its area.
LEMMA AreaErased ==
    ASSUME NEW area \in SUBSET Slots, SlotsType,
           \/ slots' = [i \in Slots |-> IF i \in area THEN Erased ELSE slots[i]]
           \/ slots' \in Remains(slots, area, Erased, Torn)
    PROVE  /\ SlotsType'
           /\ \A i \in Slots : i \notin area => slots'[i] = slots[i]
           /\ \A i \in Held(slots') : i \in Held(slots) /\ slots'[i] = slots[i]
  <1>1. \A i \in Slots : /\ i \notin area => slots'[i] = slots[i]
                         /\ slots'[i] \in {slots[i], Erased, Torn}
    <2>1. CASE slots' = [i \in Slots |-> IF i \in area THEN Erased ELSE slots[i]]
      BY <2>1
    <2>2. CASE slots' \in Remains(slots, area, Erased, Torn)
      <3>1. PICK gone \in SUBSET area, hurt \in SUBSET area :
              slots' = [p \in DOMAIN slots |->
                          IF p \notin area THEN slots[p]
                          ELSE IF p \in gone THEN Erased
                          ELSE IF p \in hurt /\ slots[p] # Erased THEN Torn
                          ELSE slots[p]]
        BY <2>2 DEF Remains
      <3>2. DOMAIN slots = Slots
        BY DEF SlotsType
      <3> QED
        BY <3>1, <3>2
    <2> QED
      BY <2>1, <2>2
  <1>2. slots' \in [Slots -> Sequences \cup {Erased, Torn}]
    <2>1. CASE slots' = [i \in Slots |-> IF i \in area THEN Erased ELSE slots[i]]
      BY <2>1 DEF SlotsType
    <2>2. CASE slots' \in Remains(slots, area, Erased, Torn)
      <3>1. PICK gone \in SUBSET area, hurt \in SUBSET area :
              slots' = [p \in DOMAIN slots |->
                          IF p \notin area THEN slots[p]
                          ELSE IF p \in gone THEN Erased
                          ELSE IF p \in hurt /\ slots[p] # Erased THEN Torn
                          ELSE slots[p]]
        BY <2>2 DEF Remains
      <3>2. DOMAIN slots = Slots
            /\ \A i \in Slots : slots[i] \in Sequences \cup {Erased, Torn}
        BY DEF SlotsType
      <3> QED
        BY <3>1, <3>2
    <2> QED
      BY <2>1, <2>2
  <1>3. \A i \in Held(slots') : i \in Held(slots) /\ slots'[i] = slots[i]
    <2> SUFFICES ASSUME NEW i \in Slots, slots'[i] > 0
                 PROVE  slots[i] > 0 /\ slots'[i] = slots[i]
      BY DEF Held
    <2>1. slots'[i] # 0 /\ slots'[i] # -1
      BY <1>2
    <2> QED
      BY <1>1, <2>1 DEF Erased, Torn
  <1> QED
    BY <1>1, <1>2, <1>3 DEF SlotsType

\* A record that is taken away was acknowledged, durably, or is given up.
LEMMA EraseKeeps ==
    ASSUME IndInv, ring.ready, SlotsType',
           \A i \in Held(slots') : i \in Held(slots) /\ slots'[i] = slots[i],
           \A i \in Held(slots) : \/ slots'[i] = slots[i]
                                  \/ slots[i] <= headers[Best(headers)].acked
                                  \/ slots[i] \in overwritten',
           overwritten \subseteq overwritten',
           headers' = headers, last' = last, persisted' = persisted, uploaded' = uploaded,
           batch' = batch,
           ring'.ready => ring'.acked = ring.acked
    PROVE  HeadersOrdered' /\ FlashBlank' /\ RecordsKnown' /\ BatchWhole' /\ NothingForgotten'
  <1>1. Valid(headers) # {}
    BY DEF IndInv, RingLoaded
  <1>2. HeadersOrdered' /\ FlashBlank' /\ RecordsKnown' /\ BatchWhole'
    BY <1>1 DEF IndInv, HeadersOrdered, FlashBlank, RecordsKnown, BatchWhole
  <1>3. ASSUME NEW s \in persisted \ overwritten'
        PROVE  /\ (\E i \in Slots : slots'[i] = s) \/ s <= headers[Best(headers)].acked
               /\ s \notin uploaded => /\ s > headers[Best(headers)].acked
                                       /\ ring'.ready => s > ring'.acked
    <2>1. s \in persisted \ overwritten
      BY <1>3
    <2>2. /\ (\E i \in Slots : slots[i] = s) \/ s <= headers[Best(headers)].acked
          /\ s \notin uploaded => /\ s > headers[Best(headers)].acked
                                  /\ s > ring.acked
      BY <2>1 DEF IndInv, NothingForgotten
    <2>3. ASSUME NEW i \in Slots, slots[i] = s
          PROVE  slots'[i] = s \/ s <= headers[Best(headers)].acked
      <3>1. i \in Held(slots)
        <4>1. s \in Sequences
          BY <2>1, TypeParts DEF IndInv, WorldType
        <4>2. s > 0
          BY <4>1 DEF Sequences
        <4> QED
          BY <2>3, <4>2 DEF Held
      <3> QED
        BY <1>3, <2>3, <3>1
    <2> QED
      BY <2>2, <2>3
  <1>4. NothingForgotten'
    BY <1>3 DEF NothingForgotten
  <1> QED
    BY <1>2, <1>4

\* The types after a step on the records.
LEMMA RecordTypes ==
    ASSUME TypeOK, SlotsType', ring' \in RingType, job' \in JobType, degraded' \in BOOLEAN,
           faults' \in 0 .. MaxFaults, last' \in 0 .. MaxSeq,
           persisted' \subseteq Sequences, overwritten' \subseteq Sequences,
           UNCHANGED <<headers, phase, batch, uploaded>>
    PROVE  TypeOK'
  <1>1. HeadersType' /\ ModeType' /\ WorldType'
    BY TypeParts DEF HeadersType, ModeType, WorldType
  <1> QED
    BY <1>1 DEF TypeOK, HeadersType, HeaderType, SlotsType, RingType, JobType, ModeType, WorldType

\* The index of an open ring after a sector was erased.
LEMMA ErasedLoaded ==
    ASSUME IndInv, ring.ready, NEW area \in SUBSET Slots,
           slots' = [i \in Slots |-> IF i \in area THEN Erased ELSE slots[i]],
           NEW r \in RingType, ring' = r,
           r.seqs = Cleared(ring, area).seqs, r.dirty = Cleared(ring, area).dirty,
           r.ready = ring.ready, r.generation = ring.generation, r.active = ring.active,
           r.reserved = ring.reserved, r.durable = ring.durable, r.acked = ring.acked,
           r.max = ring.max, r.next = ring.next,
           headers' = headers, last' = last, phase' = phase
    PROVE  RingLoaded'
  <1>1. ring \in RingType /\ RingLoaded
    BY TypeParts DEF IndInv
  <1>2. \A i \in Slots :
           /\ r.seqs[i] = IF slots'[i] > 0 THEN slots'[i] ELSE 0
           /\ slots'[i] # Erased => r.dirty[i]
    <2> SUFFICES ASSUME NEW i \in Slots
                 PROVE  /\ r.seqs[i] = IF slots'[i] > 0 THEN slots'[i] ELSE 0
                        /\ slots'[i] # Erased => r.dirty[i]
      OBVIOUS
    <2>1. CASE i \in area
      <3>1. slots'[i] = 0 /\ r.seqs[i] = 0
        BY <1>1, <2>1, ClearedIs DEF Erased
      <3> QED
        BY <3>1 DEF Erased
    <2>2. CASE i \notin area
      <3>1. slots'[i] = slots[i] /\ r.seqs[i] = ring.seqs[i] /\ r.dirty[i] = ring.dirty[i]
        BY <1>1, <2>2, ClearedIs
      <3>2. /\ ring.seqs[i] = IF slots[i] > 0 THEN slots[i] ELSE 0
            /\ slots[i] # Erased => ring.dirty[i]
        BY <1>1 DEF RingLoaded
      <3> QED
        BY <3>1, <3>2
    <2> QED
      BY <2>1, <2>2
  <1> QED
    BY <1>1, <1>2 DEF RingLoaded

\* An erase that fails closes the ring.
LEMMA EraseFailsStep ==
    ASSUME IndInv, ring.ready, job.at # "idle", NEW area \in SUBSET Slots,
           \A i \in Held(slots) : i \in area =>
               slots[i] <= headers[Best(headers)].acked \/ slots[i] \in overwritten',
           EraseFails(area), overwritten \subseteq overwritten', overwritten' \subseteq Sequences,
           UNCHANGED <<headers, phase, batch, uploaded, last, persisted>>
    PROVE  IndInv'
  <1>1. /\ SlotsType /\ ring \in RingType /\ WorldType /\ TypeOK /\ phase = "open"
    BY TypeParts DEF IndInv, RingLoaded
  <1>2. /\ Fault /\ slots' \in Remains(slots, area, Erased, Torn)
        /\ ring' = [ring EXCEPT !.ready = FALSE] /\ job' = Idle /\ degraded' = TRUE
    BY DEF EraseFails, Fail
  <1>3. ring' \in RingType /\ ~ring'.ready
    BY <1>1, <1>2, ClosedKeeps
  <1>4. /\ SlotsType'
        /\ \A i \in Slots : i \notin area => slots'[i] = slots[i]
        /\ \A i \in Held(slots') : i \in Held(slots) /\ slots'[i] = slots[i]
    BY <1>1, <1>2, AreaErased
  <1>5. TypeOK'
    <2>1. faults' \in 0 .. MaxFaults
      BY <1>1, <1>2, FaultType
    <2> QED
      BY <1>1, <1>2, <1>3, <1>4, <2>1, IdleFits, RecordTypes DEF WorldType
  <1>6. HeadersOrdered' /\ FlashBlank' /\ RecordsKnown' /\ BatchWhole' /\ NothingForgotten'
    <2>1. \A i \in Held(slots) : \/ slots'[i] = slots[i]
                                 \/ slots[i] <= headers[Best(headers)].acked
                                 \/ slots[i] \in overwritten'
      BY <1>4 DEF Held
    <2> QED
      BY <1>3, <1>4, <2>1, EraseKeeps
  <1>7. RingLoaded'
    BY <1>3 DEF RingLoaded
  <1>8. JobSound'
    BY <1>1, <1>2, IdleFits DEF JobSound
  <1> QED
    BY <1>5, <1>6, <1>7, <1>8 DEF IndInv

\* A sector of acknowledged records is erased.
LEMMA RecycleStep == IndInv /\ Recycle => IndInv'
  <1> SUFFICES ASSUME IndInv, Recycle PROVE IndInv'
    OBVIOUS
  <1> DEFINE area == SectorOf(job.slot)
  <1>1. /\ job.at = "recycle" /\ UNCHANGED <<headers, phase, batch, uploaded, history>>
    BY DEF Recycle
  <1>2. /\ headers' = headers /\ phase' = phase /\ batch' = batch /\ uploaded' = uploaded
        /\ last' = last /\ persisted' = persisted /\ overwritten' = overwritten
    BY <1>1 DEF history
  <1>3. /\ SlotsType /\ ring \in RingType /\ job \in JobType /\ ModeType /\ WorldType /\ TypeOK
        /\ RingLoaded
    BY TypeParts DEF IndInv
  <1>4. JobFits(job, ring)
    BY <1>1 DEF IndInv, JobSound, Formatting
  <1>5. /\ ring.ready /\ job.then # "open" /\ ring.next < ring.reserved
        /\ job.slot \in Slots /\ Safe(ring, job.slot) /\ ring.acked = ring.durable
    BY <1>1, <1>4 DEF JobFits
  <1>6. area \in SUBSET Slots /\ job.slot \in area
    BY <1>5, SectorIs
  <1>7. \A i \in Held(slots) : i \in area =>
           slots[i] <= headers[Best(headers)].acked \/ slots[i] \in overwritten'
    <2> SUFFICES ASSUME NEW i \in Slots, slots[i] > 0, i \in area
                 PROVE  slots[i] <= headers[Best(headers)].acked
      BY DEF Held
    <2>1. ring.seqs[i] = slots[i] /\ ring.seqs[i] <= ring.acked
      BY <1>3, <1>5 DEF RingLoaded, Safe
    <2>2. ring.acked = headers[Best(headers)].acked
      BY <1>3, <1>5 DEF RingLoaded
    <2> QED
      BY <2>1, <2>2
  <1>8. CASE EraseFails(area)
    <2>1. overwritten' \subseteq Sequences
      BY <1>2, <1>3 DEF WorldType
    <2> QED
      BY <1>1, <1>2, <1>5, <1>6, <1>7, <1>8, <2>1, EraseFailsStep
  <1>9. CASE /\ slots' = [i \in Slots |-> IF i \in area THEN Erased ELSE slots[i]]
             /\ ring' = Cleared(ring, area)
             /\ job' = [job EXCEPT !.at = "program"]
             /\ UNCHANGED <<degraded, faults>>
    <2>1. /\ ring' \in RingType /\ ring'.ready
          /\ ~ring'.dirty[job.slot]
          /\ ring'.next = ring.next /\ ring'.reserved = ring.reserved
          /\ ring'.acked = ring.acked
      BY <1>3, <1>5, <1>6, <1>9, ClearedIs
    <2>2. /\ SlotsType'
          /\ \A i \in Slots : i \notin area => slots'[i] = slots[i]
          /\ \A i \in Held(slots') : i \in Held(slots) /\ slots'[i] = slots[i]
      BY <1>3, <1>6, <1>9, AreaErased
    <2>3. /\ job' \in JobType /\ job'.at = "program" /\ job'.slot = job.slot
          /\ job'.then = job.then
      BY <1>3, <1>9 DEF JobType
    <2>4. JobSound'
      <3>1. JobFits(job', ring')
        BY <1>5, <2>1, <2>3 DEF JobFits
      <3> QED
        BY <1>2, <1>3, <1>5, <3>1 DEF JobSound, RingLoaded
    <2>5. TypeOK'
      BY <1>1, <1>2, <1>3, <1>9, <2>1, <2>2, <2>3, RecordTypes DEF ModeType, WorldType
    <2>6. RingLoaded'
      <3>1. /\ Cleared(ring, area).ready = ring.ready
            /\ Cleared(ring, area).generation = ring.generation
            /\ Cleared(ring, area).active = ring.active
            /\ Cleared(ring, area).reserved = ring.reserved
            /\ Cleared(ring, area).durable = ring.durable
            /\ Cleared(ring, area).acked = ring.acked
            /\ Cleared(ring, area).max = ring.max /\ Cleared(ring, area).next = ring.next
            /\ Cleared(ring, area) \in RingType
        BY <1>3, <1>6, ClearedIs
      <3> QED
        BY <1>2, <1>5, <1>6, <1>9, <3>1, ErasedLoaded
    <2>7. HeadersOrdered' /\ FlashBlank' /\ RecordsKnown' /\ BatchWhole' /\ NothingForgotten'
      <3>1. \A i \in Held(slots) : \/ slots'[i] = slots[i]
                                   \/ slots[i] <= headers[Best(headers)].acked
                                   \/ slots[i] \in overwritten'
        BY <1>7, <2>2 DEF Held
      <3> QED
        BY <1>2, <1>5, <2>1, <2>2, <3>1, EraseKeeps
    <2> QED
      BY <2>4, <2>5, <2>6, <2>7 DEF IndInv
  <1> QED
    BY <1>1, <1>8, <1>9 DEF Recycle

\* Where no slot is usable, there is an oldest record, and a sector to give up.
LEMMA OldestIs ==
    ASSUME NEW r \in RingType, Usable(r) = {}
    PROVE  Oldest(r) \in SUBSET Slots /\ Oldest(r) # {} /\ Min(Oldest(r)) \in Slots
  <1> DEFINE known == {i \in Slots : r.seqs[i] > 0}
             V == {r.seqs[i] : i \in known}
  <1>1. /\ r.seqs \in [Slots -> Sequences \cup {0}] /\ r.acked \in 0 .. MaxSeq
        /\ r.cursor \in Slots
    BY RingHolds
  <1>2. known # {}
    <2>1. PICK k \in Slots : (r.cursor + k) % (Sectors * PerSector) = 0
      BY <1>1, CursorReaches
    <2>2. k \notin Usable(r)
      OBVIOUS
    <2>3. ~Safe(r, 0)
      BY <2>1, <2>2 DEF Usable
    <2>4. 0 % PerSector = 0
      BY RingAssumption
    <2>5. PICK j \in SectorOf(0) : ~(r.seqs[j] <= r.acked)
      BY <2>3, <2>4 DEF Safe
    <2>6. j \in Slots
      BY <2>5, SlotsWrap, SectorIs
    <2>7. r.seqs[j] \in Nat /\ r.acked \in Nat
      BY <1>1, <2>6 DEF Sequences
    <2>8. r.seqs[j] > 0
      BY <2>5, <2>7
    <2> QED
      BY <2>6, <2>8
  <1>3. \E i \in known : \A j \in known : r.seqs[i] <= r.seqs[j]
    <2>1. V \in SUBSET Nat
      BY <1>1 DEF Sequences
    <2>2. PICK i \in known : TRUE
      BY <1>2
    <2>3. r.seqs[i] \in V
      BY <2>2
    <2>4. Min(V) \in V /\ \A y \in V : Min(V) <= y
      BY <2>1, <2>3, MinNat
    <2> QED
      BY <2>4
  <1> DEFINE oldest == CHOOSE i \in known : \A j \in known : r.seqs[i] <= r.seqs[j]
  <1>4. oldest \in Slots
    BY <1>3
  <1>5. Oldest(r) = SectorOf(oldest)
    BY DEF Oldest
  <1>6. Oldest(r) \in SUBSET Slots /\ oldest \in Oldest(r)
    BY <1>4, <1>5, SectorIs
  <1>7. Oldest(r) \in SUBSET Nat
    BY <1>6, SlotsNat
  <1>8. Min(Oldest(r)) \in Oldest(r)
    BY <1>6, <1>7, MinNat
  <1> QED
    BY <1>6, <1>8

\* The sector of the oldest record is erased for a newer one.
LEMMA RollStep == IndInv /\ Roll => IndInv'
  <1> SUFFICES ASSUME IndInv, Roll PROVE IndInv'
    OBVIOUS
  <1> DEFINE area == Oldest(ring)
             cleared == [Cleared(ring, area) EXCEPT !.cursor = Min(area)]
  <1>1. /\ job.at = "roll" /\ UNCHANGED <<headers, phase, batch, uploaded, last, persisted>>
        /\ overwritten' = overwritten \cup ({ring.seqs[i] : i \in area} \ {0})
    BY DEF Roll
  <1>2. /\ headers' = headers /\ phase' = phase /\ batch' = batch /\ uploaded' = uploaded
        /\ last' = last /\ persisted' = persisted
    BY <1>1
  <1>3. /\ SlotsType /\ ring \in RingType /\ job \in JobType /\ ModeType /\ WorldType /\ TypeOK
        /\ RingLoaded
    BY TypeParts DEF IndInv
  <1>4. JobFits(job, ring)
    BY <1>1 DEF IndInv, JobSound, Formatting
  <1>5. /\ ring.ready /\ job.then # "open" /\ ring.next < ring.reserved /\ Usable(ring) = {}
    BY <1>1, <1>4 DEF JobFits
  <1>6. area \in SUBSET Slots /\ Min(area) \in Slots
    BY <1>3, <1>5, OldestIs
  <1> HIDE DEF area
  <1>7. overwritten \subseteq overwritten' /\ overwritten' \subseteq Sequences
    <2>1. ring.seqs \in [Slots -> Sequences \cup {0}]
      BY <1>3, RingHolds
    <2>2. \A i \in area : ring.seqs[i] \in Sequences \cup {0}
      BY <1>6, <2>1
    <2>3. overwritten \subseteq Sequences
      BY <1>3 DEF WorldType
    <2>4. overwritten' = overwritten \cup ({ring.seqs[i] : i \in area} \ {0})
      BY <1>1 DEF area
    <2> QED
      BY <2>2, <2>3, <2>4
  <1>8. \A i \in Held(slots) : i \in area =>
           slots[i] <= headers[Best(headers)].acked \/ slots[i] \in overwritten'
    <2> SUFFICES ASSUME NEW i \in Slots, slots[i] > 0, i \in area
                 PROVE  slots[i] \in overwritten'
      BY DEF Held
    <2>1. ring.seqs[i] = slots[i] /\ slots[i] # 0
      BY <1>3, <1>5 DEF RingLoaded
    <2>2. overwritten' = overwritten \cup ({ring.seqs[k] : k \in area} \ {0})
      BY <1>1 DEF area
    <2> QED
      BY <2>1, <2>2
  <1>9. CASE EraseFails(area)
    BY <1>1, <1>2, <1>5, <1>6, <1>7, <1>8, <1>9, EraseFailsStep
  <1>10. CASE /\ slots' = [i \in Slots |-> IF i \in area THEN Erased ELSE slots[i]]
              /\ ring' = cleared
              /\ Resume([job EXCEPT !.marker = TRUE], ring')
              /\ UNCHANGED faults
    <2>1. /\ Cleared(ring, area).ready = ring.ready
          /\ Cleared(ring, area).generation = ring.generation
          /\ Cleared(ring, area).active = ring.active
          /\ Cleared(ring, area).reserved = ring.reserved
          /\ Cleared(ring, area).durable = ring.durable
          /\ Cleared(ring, area).acked = ring.acked
          /\ Cleared(ring, area).max = ring.max /\ Cleared(ring, area).next = ring.next
          /\ Cleared(ring, area) \in RingType
      BY <1>3, <1>6, ClearedIs
    <2>2. \A r \in RingType :
            /\ [r EXCEPT !.cursor = Min(area)] \in RingType
            /\ [r EXCEPT !.cursor = Min(area)].seqs = r.seqs
            /\ [r EXCEPT !.cursor = Min(area)].dirty = r.dirty
            /\ [r EXCEPT !.cursor = Min(area)].ready = r.ready
            /\ [r EXCEPT !.cursor = Min(area)].generation = r.generation
            /\ [r EXCEPT !.cursor = Min(area)].active = r.active
            /\ [r EXCEPT !.cursor = Min(area)].reserved = r.reserved
            /\ [r EXCEPT !.cursor = Min(area)].durable = r.durable
            /\ [r EXCEPT !.cursor = Min(area)].acked = r.acked
            /\ [r EXCEPT !.cursor = Min(area)].max = r.max
            /\ [r EXCEPT !.cursor = Min(area)].next = r.next
      BY <1>6 DEF RingType
    <2>3. /\ cleared \in RingType
          /\ cleared.seqs = Cleared(ring, area).seqs /\ cleared.dirty = Cleared(ring, area).dirty
          /\ cleared.ready = ring.ready /\ cleared.generation = ring.generation
          /\ cleared.active = ring.active /\ cleared.reserved = ring.reserved
          /\ cleared.durable = ring.durable /\ cleared.acked = ring.acked
          /\ cleared.max = ring.max /\ cleared.next = ring.next
      BY <2>1, <2>2
    <2> HIDE DEF cleared
    <2>4. /\ SlotsType'
          /\ \A i \in Slots : i \notin area => slots'[i] = slots[i]
          /\ \A i \in Held(slots') : i \in Held(slots) /\ slots'[i] = slots[i]
      BY <1>3, <1>6, <1>10, AreaErased
    <2>5. /\ job' \in JobType /\ JobFits(job', ring') /\ degraded' \in BOOLEAN
      <3>1. [job EXCEPT !.marker = TRUE] \in JobType
            /\ [job EXCEPT !.marker = TRUE].then = job.then
        BY <1>3 DEF JobType
      <3>2. cleared.next <= cleared.reserved
        <4>1. ring.next \in Nat /\ ring.reserved \in Nat
          BY <1>3, RingHolds, SequencesAre
        <4> QED
          BY <1>5, <2>3, <4>1
      <3>3. degraded \in BOOLEAN
        BY <1>3 DEF ModeType
      <3>4. Resume([job EXCEPT !.marker = TRUE], cleared) /\ ring' = cleared
        BY <1>10
      <3> QED
        BY <1>5, <2>3, <3>1, <3>2, <3>3, <3>4, ResumeFits
    <2>6. JobSound'
      BY <1>2, <1>3, <1>5, <2>5 DEF JobSound, RingLoaded
    <2>7. TypeOK'
      <3>1. faults' \in 0 .. MaxFaults /\ last' \in 0 .. MaxSeq /\ persisted' \subseteq Sequences
        BY <1>2, <1>3, <1>10 DEF WorldType
      <3>2. ring' \in RingType
        BY <1>10, <2>3
      <3> QED
        BY <1>1, <1>3, <1>7, <2>4, <2>5, <3>1, <3>2, RecordTypes
    <2>8. RingLoaded'
      BY <1>2, <1>5, <1>6, <1>10, <2>3, ErasedLoaded
    <2>9. HeadersOrdered' /\ FlashBlank' /\ RecordsKnown' /\ BatchWhole' /\ NothingForgotten'
      <3>1. \A i \in Held(slots) : \/ slots'[i] = slots[i]
                                   \/ slots[i] <= headers[Best(headers)].acked
                                   \/ slots[i] \in overwritten'
        BY <1>8, <2>4 DEF Held
      <3>2. ring'.acked = ring.acked
        BY <1>10, <2>3
      <3> QED
        BY <1>2, <1>5, <1>7, <2>4, <3>1, <3>2, EraseKeeps
    <2> QED
      BY <2>6, <2>7, <2>8, <2>9 DEF IndInv
  <1> QED
    BY <1>1, <1>9, <1>10 DEF Roll, area
-----------------------------------------------------------------------------
(* The program of a record. *)

\* What the program of a record starts from.
LEMMA ProgramHolds ==
    ASSUME IndInv, job.at = "program"
    PROVE  /\ ring \in RingType /\ job \in JobType /\ ring.ready /\ job.then # "open"
           /\ job.slot \in Slots /\ ~ring.dirty[job.slot] /\ slots[job.slot] = Erased
           /\ ring.next \in Sequences /\ ring.next + 1 \in Sequences
           /\ last < ring.next /\ ring.next < ring.reserved
           /\ last \in Nat /\ ring.next \in Nat /\ ring.reserved \in Nat /\ phase = "open"
  <1>1. ring \in RingType /\ job \in JobType /\ RingLoaded /\ last \in 0 .. MaxSeq
    BY TypeParts DEF IndInv, WorldType
  <1>2. JobFits(job, ring)
    BY DEF IndInv, JobSound, Formatting
  <1>3. /\ ring.ready /\ job.then # "open" /\ ring.next < ring.reserved
        /\ job.slot \in Slots /\ ~ring.dirty[job.slot]
    BY <1>2 DEF JobFits
  <1>4. slots[job.slot] = Erased
    BY <1>1, <1>3 DEF RingLoaded
  <1>5. ring.next \in Sequences /\ ring.reserved \in Sequences
    BY <1>1, RingHolds
  <1>6. ring.next + 1 \in Sequences /\ ring.next \in Nat /\ ring.reserved \in Nat /\ last \in Nat
    BY <1>1, <1>3, <1>5, SequencesAre
  <1>7. last < ring.next /\ phase = "open"
    BY <1>1, <1>3 DEF RingLoaded
  <1> QED
    BY <1>1, <1>3, <1>4, <1>5, <1>6, <1>7

\* The index after a program whose record is not known to be there.
LEMMA NumberedIs ==
    ASSUME IndInv, job.at = "program"
    PROVE  /\ Numbered \in RingType
           /\ Numbered.seqs = ring.seqs /\ Numbered.dirty = [ring.dirty EXCEPT ![job.slot] = TRUE]
           /\ Numbered.next = ring.next + 1 /\ Numbered.max = ring.max
           /\ Numbered.ready = ring.ready /\ Numbered.generation = ring.generation
           /\ Numbered.active = ring.active /\ Numbered.reserved = ring.reserved
           /\ Numbered.durable = ring.durable /\ Numbered.acked = ring.acked
  <1> DEFINE c == (job.slot + 1) % (Sectors * PerSector)
             d == [ring.dirty EXCEPT ![job.slot] = TRUE]
  <1>1. ring \in RingType /\ job.slot \in Slots /\ ring.next + 1 \in Sequences
    BY ProgramHolds
  <1>2. c \in Slots
    <2>1. job.slot + 1 \in Nat
      <3>1. job.slot \in Nat
        BY <1>1, SlotsNat
      <3> QED
        BY <3>1
    <2> QED
      BY <2>1, SlotsWrap DEF Size
  <1>3. d \in [Slots -> BOOLEAN]
    <2>1. ring.dirty \in [Slots -> BOOLEAN]
      BY <1>1, RingHolds
    <2> QED
      BY <1>1, <2>1
  <1>4. Numbered = [ring EXCEPT !.next = ring.next + 1, !.dirty = d, !.cursor = c]
    BY DEF Numbered
  <1> HIDE DEF c, d
  <1>5. /\ Numbered \in RingType
        /\ Numbered.seqs = ring.seqs /\ Numbered.dirty = d
        /\ Numbered.next = ring.next + 1 /\ Numbered.max = ring.max
        /\ Numbered.ready = ring.ready /\ Numbered.generation = ring.generation
        /\ Numbered.active = ring.active /\ Numbered.reserved = ring.reserved
        /\ Numbered.durable = ring.durable /\ Numbered.acked = ring.acked
    BY <1>1, <1>2, <1>3, <1>4 DEF RingType
  <1> QED
    BY <1>5 DEF d

\* The index after a program whose record is there.
LEMMA IndexedIs ==
    ASSUME IndInv, job.at = "program"
    PROVE  /\ Indexed \in RingType
           /\ Indexed.seqs = [ring.seqs EXCEPT ![job.slot] = ring.next]
           /\ Indexed.dirty = [ring.dirty EXCEPT ![job.slot] = TRUE]
           /\ Indexed.next = ring.next + 1 /\ Indexed.max <= ring.next
           /\ Indexed.ready = ring.ready /\ Indexed.generation = ring.generation
           /\ Indexed.active = ring.active /\ Indexed.reserved = ring.reserved
           /\ Indexed.durable = ring.durable /\ Indexed.acked = ring.acked
  <1> DEFINE m == IF ring.max < ring.next THEN ring.next ELSE ring.max
             q == [ring.seqs EXCEPT ![job.slot] = ring.next]
  <1>1. /\ ring \in RingType /\ job.slot \in Slots /\ ring.next \in Sequences
        /\ ring.seqs \in [Slots -> Sequences \cup {0}] /\ ring.max \in 0 .. MaxSeq
    BY ProgramHolds, RingHolds
  <1>2. m \in 0 .. MaxSeq /\ m <= ring.next
    <2>1. ring.max <= last /\ last < ring.next /\ last \in Nat /\ ring.next \in 0 .. MaxSeq
      BY ProgramHolds, SequencesAre DEF IndInv, RingLoaded
    <2>2. ring.max <= ring.next
      BY <1>1, <2>1
    <2> QED
      BY <1>1, <2>1, <2>2
  <1>3. q \in [Slots -> Sequences \cup {0}]
    BY <1>1
  <1>4. Indexed = [Numbered EXCEPT !.seqs = q, !.max = m]
    BY NumberedIs DEF Indexed
  <1> HIDE DEF m, q
  <1>5. /\ Indexed \in RingType /\ Indexed.seqs = q /\ Indexed.max = m
        /\ Indexed.dirty = Numbered.dirty /\ Indexed.next = Numbered.next
        /\ Indexed.ready = Numbered.ready /\ Indexed.generation = Numbered.generation
        /\ Indexed.active = Numbered.active /\ Indexed.reserved = Numbered.reserved
        /\ Indexed.durable = Numbered.durable /\ Indexed.acked = Numbered.acked
    BY <1>2, <1>3, <1>4, NumberedIs DEF RingType
  <1> QED
    BY <1>2, <1>5, NumberedIs DEF q

\* What is programmed takes nothing away, and is newer than all there was.
LEMMA ProgramKeeps ==
    ASSUME IndInv, job.at = "program",
           NEW left \in {ring.next, Torn, Erased},
           slots' = [slots EXCEPT ![job.slot] = left], last' = ring.next,
           \/ persisted' = persisted
           \/ left = ring.next /\ persisted' = persisted \cup {ring.next},
           headers' = headers, overwritten' = overwritten, uploaded' = uploaded, batch' = batch,
           ring'.ready => ring'.acked = ring.acked
    PROVE  /\ SlotsType' /\ persisted' \subseteq Sequences
           /\ HeadersOrdered' /\ FlashBlank' /\ RecordsKnown' /\ BatchWhole' /\ NothingForgotten'
  <1>1. /\ job.slot \in Slots /\ slots[job.slot] = Erased
        /\ ring.next \in Sequences /\ ring.next \in Nat /\ last \in Nat /\ last < ring.next
        /\ ring.next < ring.reserved /\ ring.ready
    BY ProgramHolds
  <1>2. /\ SlotsType /\ RingLoaded /\ persisted \subseteq Sequences
        /\ batch \subseteq Sequences /\ ring \in RingType
    BY TypeParts DEF IndInv, WorldType
  <1>3. SlotsType' /\ persisted' \subseteq Sequences
    BY <1>1, <1>2 DEF SlotsType
  <1>4. /\ slots'[job.slot] = left
        /\ \A i \in Slots : i # job.slot => slots'[i] = slots[i]
    BY <1>1, <1>2 DEF SlotsType
  <1>5. Valid(headers) # {} /\ ring.reserved = headers[Best(headers)].reserved
    BY <1>1, <1>2 DEF RingLoaded
  <1>6. HeadersOrdered' /\ FlashBlank'
    BY <1>5 DEF IndInv, HeadersOrdered, FlashBlank
  <1>7. \A i \in Held(slots') : \/ i = job.slot /\ slots'[i] = ring.next
                                \/ i \in Held(slots) /\ slots'[i] = slots[i]
    BY <1>1, <1>4 DEF Held, Torn, Erased
  <1>8. \A i \in Held(slots) : slots[i] <= last /\ slots[i] \in Int
    BY <1>2 DEF IndInv, RecordsKnown, Held, SlotsType, Sequences, Torn, Erased
  <1>9. headers[Best(headers)].acked <= last /\ ring.acked <= last
        /\ headers[Best(headers)].acked \in Int /\ ring.acked \in Int
    <2>1. headers[Best(headers)].acked <= last /\ ring.acked <= last
      BY <1>1, <1>2, <1>5 DEF IndInv, RecordsKnown, RingLoaded
    <2>2. ring.acked \in Int /\ ring.durable \in Int
      BY <1>2, RingHolds
    <2> QED
      BY <1>1, <1>2, <2>1, <2>2 DEF RingLoaded
  <1>10. RecordsKnown'
    <2>1. \A i \in Held(slots') : slots'[i] <= ring.next
      BY <1>1, <1>7, <1>8
    <2>2. \A i, j \in Held(slots') : slots'[i] = slots'[j] => i = j
      <3> SUFFICES ASSUME NEW i \in Held(slots'), NEW j \in Held(slots'), slots'[i] = slots'[j]
                   PROVE  i = j
        OBVIOUS
      <3>1. \A k \in Held(slots) : slots[k] # ring.next
        BY <1>1, <1>8
      <3>2. CASE i \in Held(slots) /\ slots'[i] = slots[i] /\ j \in Held(slots) /\ slots'[j] = slots[j]
        BY <3>2 DEF IndInv, RecordsKnown
      <3> QED
        BY <1>7, <3>1, <3>2
    <2>3. ring.next < headers[Best(headers)].reserved /\ headers[Best(headers)].acked <= ring.next
      BY <1>1, <1>5, <1>9
    <2>4. \A i \in Held(slots') : slots'[i] <= last'
      BY <2>1
    <2>5. last' < headers'[Best(headers')].reserved /\ headers'[Best(headers')].acked <= last'
      BY <2>3
    <2> QED
      BY <2>2, <2>4, <2>5, Zenon DEF RecordsKnown
  <1>11. BatchWhole'
    <2> SUFFICES ASSUME NEW b \in batch
                 PROVE  /\ b <= ring.next
                        /\ \A s \in persisted' \ overwritten : s <= b => s \in batch \cup uploaded
      BY DEF BatchWhole
    <2>1. /\ b <= last /\ b \in Nat
          /\ \A s \in persisted \ overwritten : s <= b => s \in batch \cup uploaded
      BY <1>2 DEF IndInv, BatchWhole, Sequences
    <2>2. ~(ring.next <= b) /\ b <= ring.next
      BY <1>1, <2>1
    <2> QED
      BY <2>1, <2>2
  <1>12. NothingForgotten'
    <2> SUFFICES ASSUME NEW s \in persisted' \ overwritten
                 PROVE  /\ (\E i \in Slots : slots'[i] = s) \/ s <= headers[Best(headers)].acked
                        /\ s \notin uploaded => /\ s > headers[Best(headers)].acked
                                                /\ ring'.ready => s > ring'.acked
      BY DEF NothingForgotten
    <2>1. CASE s \in persisted
      <3>1. /\ (\E i \in Slots : slots[i] = s) \/ s <= headers[Best(headers)].acked
            /\ s \notin uploaded => /\ s > headers[Best(headers)].acked
                                    /\ s > ring.acked
        BY <1>1, <2>1 DEF IndInv, NothingForgotten
      <3>2. ASSUME NEW i \in Slots, slots[i] = s PROVE slots'[i] = s
        <4>1. s # Erased
          BY <1>2, <2>1 DEF Sequences, Erased
        <4> QED
          BY <1>1, <1>4, <3>2, <4>1
      <3> QED
        BY <3>1, <3>2
    <2>2. CASE s = ring.next /\ left = ring.next
      <3>1. s > headers[Best(headers)].acked /\ s > ring.acked
        BY <1>1, <1>9, <2>2
      <3> QED
        BY <1>1, <1>4, <2>2, <3>1
    <2> QED
      BY <2>1, <2>2
  <1> QED
    BY <1>3, <1>6, <1>10, <1>11, <1>12

\* An index that is still open is that of the flash after a program, too.
LEMMA ProgramLoaded ==
    ASSUME IndInv, job.at = "program", NEW left \in {ring.next, Torn, Erased},
           slots' = [slots EXCEPT ![job.slot] = left], last' = ring.next,
           NEW r \in RingType, ring' = r,
           r.seqs = [ring.seqs EXCEPT ![job.slot] = IF left = ring.next THEN ring.next ELSE 0],
           r.dirty = [ring.dirty EXCEPT ![job.slot] = TRUE],
           r.next = ring.next + 1, r.max <= ring.next,
           r.generation = ring.generation, r.active = ring.active, r.reserved = ring.reserved,
           r.durable = ring.durable, r.acked = ring.acked,
           headers' = headers, phase' = phase
    PROVE  RingLoaded'
  <1>1. /\ job.slot \in Slots /\ slots[job.slot] = Erased
        /\ ring.next \in Sequences /\ ring.next \in Nat /\ last \in Nat /\ last < ring.next
        /\ ring.next < ring.reserved /\ ring.ready /\ ring.reserved \in Nat
    BY ProgramHolds
  <1>2. /\ RingLoaded /\ SlotsType /\ ring.seqs \in [Slots -> Sequences \cup {0}]
        /\ ring.dirty \in [Slots -> BOOLEAN] /\ ring.acked \in 0 .. MaxSeq
    BY TypeParts, RingHolds DEF IndInv
  <1>3. ring.acked <= ring.next /\ ring.next < ring.next + 1 /\ ring.next + 1 <= ring.reserved
    <2>1. ring.acked <= last /\ ring.acked \in Nat
      BY <1>1, <1>2 DEF RingLoaded
    <2> QED
      BY <1>1, <2>1
  <1>4. \A i \in Slots :
           /\ r.seqs[i] = IF slots'[i] > 0 THEN slots'[i] ELSE 0
           /\ slots'[i] # Erased => r.dirty[i]
    <2> SUFFICES ASSUME NEW i \in Slots
                 PROVE  /\ r.seqs[i] = IF slots'[i] > 0 THEN slots'[i] ELSE 0
                        /\ slots'[i] # Erased => r.dirty[i]
      OBVIOUS
    <2>1. CASE i = job.slot
      <3>1. slots'[i] = left
        BY <1>1, <1>2, <2>1 DEF SlotsType
      <3>2. r.seqs[i] = IF left = ring.next THEN ring.next ELSE 0
        BY <1>1, <1>2, <2>1
      <3>3. (IF left = ring.next THEN ring.next ELSE 0) = IF left > 0 THEN left ELSE 0
        BY <1>1 DEF Sequences, Torn, Erased
      <3>4. r.dirty[i] = TRUE
        BY <1>1, <1>2, <2>1
      <3> QED
        BY <3>1, <3>2, <3>3, <3>4
    <2>2. CASE i # job.slot
      <3>1. slots'[i] = slots[i] /\ r.seqs[i] = ring.seqs[i] /\ r.dirty[i] = ring.dirty[i]
        BY <1>1, <1>2, <2>2 DEF SlotsType
      <3>2. /\ ring.seqs[i] = IF slots[i] > 0 THEN slots[i] ELSE 0
            /\ slots[i] # Erased => ring.dirty[i]
        BY <1>1, <1>2 DEF RingLoaded
      <3> QED
        BY <3>1, <3>2
    <2> QED
      BY <2>1, <2>2
  <1> QED
    BY <1>1, <1>2, <1>3, <1>4 DEF RingLoaded

\* An append whose outcome is uncertain leaves a job that fits.
LEMMA UncertainFits ==
    ASSUME NEW r \in RingType, r.ready, r.next <= r.reserved, Uncertain(r), degraded \in BOOLEAN
    PROVE  job' \in JobType /\ JobFits(job', r) /\ degraded' \in BOOLEAN
  <1>1. CASE Resume([Idle EXCEPT !.at = "append"], r)
    <2>1. [Idle EXCEPT !.at = "append"] \in JobType /\ [Idle EXCEPT !.at = "append"].then # "open"
      BY AppendJobs
    <2> QED
      BY <1>1, <2>1, ResumeFits
  <1>2. CASE Fail
    BY <1>2, IdleFits DEF Fail
  <1> QED
    BY <1>1, <1>2 DEF Uncertain

\* A record is programmed, or not, or in part.
LEMMA ProgramStep == IndInv /\ Program => IndInv'
  <1> SUFFICES ASSUME IndInv, Program PROVE IndInv'
    OBVIOUS
  <1>1. /\ job.at = "program" /\ last' = ring.next
        /\ UNCHANGED <<headers, phase, batch, uploaded, overwritten>>
    BY DEF Program
  <1>2. /\ headers' = headers /\ phase' = phase /\ batch' = batch /\ uploaded' = uploaded
        /\ overwritten' = overwritten
    BY <1>1
  <1>3. /\ ring \in RingType /\ job \in JobType /\ ring.ready /\ job.then # "open"
        /\ phase = "open" /\ ring.next \in 0 .. MaxSeq
        /\ ring.next + 1 <= ring.reserved
    BY <1>1, ProgramHolds, SequencesAre
  <1>4. TypeOK /\ degraded \in BOOLEAN /\ overwritten \subseteq Sequences /\ faults \in 0 .. MaxFaults
    BY TypeParts DEF IndInv, ModeType, WorldType
  <1>5. /\ Numbered \in RingType /\ Numbered.seqs = ring.seqs
        /\ Numbered.dirty = [ring.dirty EXCEPT ![job.slot] = TRUE]
        /\ Numbered.next = ring.next + 1 /\ Numbered.max <= ring.next
        /\ Numbered.ready /\ Numbered.generation = ring.generation
        /\ Numbered.active = ring.active /\ Numbered.reserved = ring.reserved
        /\ Numbered.durable = ring.durable /\ Numbered.acked = ring.acked
    <2>1. ring.max <= ring.next
      <3>1. ring.max <= last /\ last < ring.next /\ last \in Nat /\ ring.next \in Nat
        BY <1>1, ProgramHolds DEF IndInv, RingLoaded
      <3>2. ring.max \in Nat
        BY <1>3, RingHolds
      <3> QED
        BY <3>1, <3>2
    <2> QED
      BY <1>1, <1>3, <2>1, NumberedIs
  <1>6. /\ Indexed \in RingType /\ Indexed.seqs = [ring.seqs EXCEPT ![job.slot] = ring.next]
        /\ Indexed.dirty = [ring.dirty EXCEPT ![job.slot] = TRUE]
        /\ Indexed.next = ring.next + 1 /\ Indexed.max <= ring.next
        /\ Indexed.ready /\ Indexed.generation = ring.generation
        /\ Indexed.active = ring.active /\ Indexed.reserved = ring.reserved
        /\ Indexed.durable = ring.durable /\ Indexed.acked = ring.acked
    BY <1>1, <1>3, IndexedIs
  <1>7. Fault => faults' \in 0 .. MaxFaults
    BY <1>4, FaultType
  <1>8. ASSUME NEW left \in {ring.next, Torn, Erased},
               slots' = [slots EXCEPT ![job.slot] = left],
               \/ persisted' = persisted
               \/ left = ring.next /\ persisted' = persisted \cup {ring.next},
               ring' \in RingType, ring'.ready => ring'.acked = ring.acked,
               RingLoaded', JobFits(job', ring'), job' \in JobType, degraded' \in BOOLEAN,
               faults' \in 0 .. MaxFaults
        PROVE  IndInv'
    <2>1. /\ SlotsType' /\ persisted' \subseteq Sequences
          /\ HeadersOrdered' /\ FlashBlank' /\ RecordsKnown' /\ BatchWhole' /\ NothingForgotten'
      BY <1>1, <1>2, <1>8, ProgramKeeps
    <2>2. last' \in 0 .. MaxSeq /\ overwritten' \subseteq Sequences
      BY <1>1, <1>2, <1>3, <1>4
    <2>3. TypeOK'
      BY <1>1, <1>4, <1>8, <2>1, <2>2, RecordTypes
    <2>4. JobSound'
      BY <1>2, <1>3, <1>8 DEF JobSound
    <2> QED
      BY <1>8, <2>1, <2>3, <2>4 DEF IndInv
  <1>9. ASSUME slots' = [slots EXCEPT ![job.slot] = ring.next], ring' = Indexed
        PROVE  RingLoaded'
    BY <1>1, <1>2, <1>6, <1>9, ProgramLoaded
  <1>10. CASE /\ slots' = [slots EXCEPT ![job.slot] = ring.next]
              /\ ring' = Indexed
              /\ persisted' = persisted \cup {ring.next}
              /\ IF job.marker
                 THEN Resume([job EXCEPT !.marker = FALSE, !.slot = None], Indexed)
                 ELSE job' = Idle /\ UNCHANGED degraded
              /\ UNCHANGED faults
    <2>1. job' \in JobType /\ JobFits(job', Indexed) /\ degraded' \in BOOLEAN
      <3>1. CASE job.marker
        <4>1. [job EXCEPT !.marker = FALSE, !.slot = None] \in JobType
              /\ [job EXCEPT !.marker = FALSE, !.slot = None].then = job.then
          BY <1>3 DEF JobType
        <4>2. Resume([job EXCEPT !.marker = FALSE, !.slot = None], Indexed)
          BY <1>10, <3>1
        <4> QED
          BY <1>3, <1>4, <1>6, <4>1, <4>2, ResumeFits
      <3>2. CASE ~job.marker
        BY <1>4, <1>10, <3>2, IdleFits
      <3> QED
        BY <3>1, <3>2
    <2> QED
      BY <1>4, <1>6, <1>8, <1>9, <1>10, <2>1
  <1>11. CASE /\ Fault
              /\ slots' = [slots EXCEPT ![job.slot] = ring.next]
              /\ ring' = Indexed
              /\ Uncertain(Indexed)
              /\ UNCHANGED persisted
    <2>1. job' \in JobType /\ JobFits(job', Indexed) /\ degraded' \in BOOLEAN
      BY <1>3, <1>4, <1>6, <1>11, UncertainFits
    <2> QED
      BY <1>6, <1>7, <1>8, <1>9, <1>11, <2>1
  <1>12. CASE /\ Fault
              /\ \E left \in {Torn, Erased} : slots' = [slots EXCEPT ![job.slot] = left]
              /\ ring' = Numbered
              /\ Uncertain(Numbered)
              /\ UNCHANGED persisted
    <2>1. PICK left \in {Torn, Erased} : slots' = [slots EXCEPT ![job.slot] = left]
      BY <1>12
    <2>2. job' \in JobType /\ JobFits(job', Numbered) /\ degraded' \in BOOLEAN
      BY <1>3, <1>4, <1>5, <1>12, UncertainFits
    <2>3. RingLoaded'
      <3>1. left # ring.next /\ left \in {ring.next, Torn, Erased}
        BY <1>1, <2>1, ProgramHolds DEF Sequences, Torn, Erased
      <3>2. ring.seqs = [ring.seqs EXCEPT ![job.slot] = IF left = ring.next THEN ring.next ELSE 0]
        <4>1. ring.seqs \in [Slots -> Sequences \cup {0}]
          BY <1>3, RingHolds
        <4>2. job.slot \in Slots /\ slots[job.slot] = Erased
          BY <1>1, ProgramHolds
        <4>3. ring.seqs[job.slot] = 0
          BY <1>3, <4>2 DEF IndInv, RingLoaded, Erased
        <4> QED
          BY <3>1, <4>1, <4>2, <4>3
      <3> QED
        BY <1>1, <1>2, <1>5, <1>12, <2>1, <3>1, <3>2, ProgramLoaded
    <2> QED
      BY <1>5, <1>7, <1>8, <1>12, <2>1, <2>2, <2>3
  <1>13. CASE /\ Fault
              /\ \E left \in {ring.next, Torn, Erased} :
                    slots' = [slots EXCEPT ![job.slot] = left]
              /\ ring' = [Numbered EXCEPT !.ready = FALSE]
              /\ Fail
              /\ UNCHANGED persisted
    <2>1. PICK left \in {ring.next, Torn, Erased} : slots' = [slots EXCEPT ![job.slot] = left]
      BY <1>13
    <2>2. ring' \in RingType /\ ~ring'.ready
      BY <1>5, <1>13, ClosedKeeps
    <2>3. job' \in JobType /\ JobFits(job', ring') /\ degraded' \in BOOLEAN
      BY <1>13, IdleFits DEF Fail
    <2>4. RingLoaded'
      BY <2>2 DEF RingLoaded
    <2> QED
      BY <1>7, <1>8, <1>13, <2>1, <2>2, <2>3, <2>4
  <1> QED
    BY <1>10, <1>11, <1>12, <1>13 DEF Program
-----------------------------------------------------------------------------
(* Upload. *)

\* A step of the uploader keeps what it does not touch.
LEMMA UploadFrame ==
    ASSUME IndInv, UNCHANGED <<flash, ring, phase, history>>, UNCHANGED job,
           batch' \subseteq Sequences, uploaded' \subseteq Sequences,
           uploaded \subseteq uploaded',
           degraded' \in BOOLEAN, faults' \in 0 .. MaxFaults, BatchWhole'
    PROVE  IndInv'
  <1>1. /\ headers' = headers /\ slots' = slots /\ ring' = ring /\ phase' = phase
        /\ last' = last /\ persisted' = persisted /\ overwritten' = overwritten /\ job' = job
    BY DEF flash, history
  <1>2. TypeOK'
    <2>1. HeadersType' /\ SlotsType' /\ ring' \in RingType /\ job' \in JobType /\ ModeType'
          /\ WorldType'
      BY <1>1, TypeParts DEF IndInv, HeadersType, SlotsType, ModeType, WorldType
    <2> QED
      BY <2>1 DEF TypeOK, HeadersType, HeaderType, SlotsType, RingType, JobType, ModeType,
         WorldType
  <1>3. HeadersOrdered' /\ FlashBlank' /\ RecordsKnown' /\ RingLoaded'
    BY <1>1 DEF IndInv, HeadersOrdered, FlashBlank, RecordsKnown, RingLoaded
  <1>4. JobSound'
    BY <1>1 DEF IndInv, JobSound, Formatting
  <1>5. NothingForgotten'
    BY <1>1 DEF IndInv, NothingForgotten
  <1> QED
    BY <1>2, <1>3, <1>4, <1>5 DEF IndInv

\* What is lower than a member of a batch, and held, is of the batch, too.
LEMMA BatchIsLowest ==
    ASSUME NEW S \in SUBSET Sequences, NEW a \in S, NEW b \in S, a <= b,
           Cardinality({t \in S : t < b}) < BatchRecords
    PROVE  Cardinality({t \in S : t < a}) < BatchRecords
  <1> DEFINE A == {t \in S : t < a}
             B == {t \in S : t < b}
  <1>1. IsFiniteSet(Sequences)
    BY FS_Interval, RingAssumption DEF Sequences
  <1>2. IsFiniteSet(B)
    BY <1>1, FS_Subset
  <1>3. A \in SUBSET B
    <2>1. \A t \in S : t \in Int
      BY SequencesAre
    <2>2. \A t \in S : t < a => t < b
      BY <2>1
    <2> QED
      BY <2>2
  <1>4. /\ Cardinality(A) \in Nat /\ Cardinality(B) \in Nat /\ Cardinality(A) <= Cardinality(B)
    BY <1>2, <1>3, FS_Subset, FS_CardinalityType
  <1> QED
    BY <1>4, RingAssumption

\* A batch is taken: the lowest sequences that are not acknowledged.
LEMMA SnapshotStep == IndInv /\ Snapshot => IndInv'
  <1> SUFFICES ASSUME IndInv, Snapshot PROVE IndInv'
    OBVIOUS
  <1>1. Free /\ UNCHANGED <<flash, ring, job, phase, uploaded, history>>
    BY DEF Snapshot
  <1>2. /\ ring \in RingType /\ ring.ready /\ degraded \in BOOLEAN /\ faults \in 0 .. MaxFaults
        /\ TypeOK /\ job = Idle
    BY <1>1, FreeHolds
  <1>3. /\ last' = last /\ persisted' = persisted /\ overwritten' = overwritten
        /\ uploaded' = uploaded
    BY <1>1 DEF history
  <1>4. /\ SlotsType /\ RingLoaded /\ ring.acked \in 0 .. MaxSeq
        /\ ring.seqs \in [Slots -> Sequences \cup {0}] /\ uploaded \subseteq Sequences
        /\ persisted \subseteq Sequences
    BY <1>2, TypeParts, RingHolds DEF IndInv, WorldType
  <1>5. CASE /\ batch' = {s \in Unsent : Cardinality({t \in Unsent : t < s}) < BatchRecords}
             /\ UNCHANGED <<degraded, faults>>
    <2>1. \A s \in Unsent : s \in Sequences /\ \E i \in Slots : slots[i] = s /\ s > 0
      <3> SUFFICES ASSUME NEW s \in Unsent
                   PROVE  s \in Sequences /\ \E i \in Slots : slots[i] = s /\ s > 0
        OBVIOUS
      <3>1. PICK i \in Slots : s = ring.seqs[i] /\ s > ring.acked
        BY DEF Unsent
      <3>2. s \in Sequences /\ s > 0
        <4>1. s \in Sequences \cup {0}
          BY <1>4, <3>1
        <4> QED
          BY <1>4, <3>1, <4>1, SequencesAre
      <3>3. ring.seqs[i] = IF slots[i] > 0 THEN slots[i] ELSE 0
        BY <1>2, <1>4 DEF RingLoaded
      <3> QED
        BY <3>1, <3>2, <3>3
    <2>2. Unsent \in SUBSET Sequences
      BY <2>1
    <2>3. \A s \in Unsent : s <= last
      BY <2>1 DEF IndInv, RecordsKnown, Held
    <2>4. ASSUME NEW s \in persisted \ overwritten, s \notin uploaded PROVE s \in Unsent
      <3>1. /\ (\E i \in Slots : slots[i] = s) \/ s <= headers[Best(headers)].acked
            /\ s > headers[Best(headers)].acked /\ s > ring.acked
        BY <1>2, <2>4 DEF IndInv, NothingForgotten
      <3>2. s \in Nat /\ s > 0
        BY <1>4, SequencesAre
      <3>3. headers[Best(headers)].acked \in Int
        <4>1. ring.durable \in 0 .. MaxSeq
          BY <1>2, RingHolds
        <4> QED
          BY <1>2, <1>4, <4>1 DEF RingLoaded
      <3>4. PICK i \in Slots : slots[i] = s
        BY <3>1, <3>2, <3>3
      <3>5. ring.seqs[i] = s
        BY <1>2, <1>4, <3>2, <3>4 DEF RingLoaded
      <3> QED
        BY <3>1, <3>5 DEF Unsent
    <2>5. BatchWhole'
      <3> SUFFICES ASSUME NEW b \in batch'
                   PROVE  /\ b <= last
                          /\ \A s \in persisted \ overwritten :
                                s <= b => s \in batch' \cup uploaded
        BY <1>3 DEF BatchWhole
      <3>1. b \in Unsent /\ Cardinality({t \in Unsent : t < b}) < BatchRecords
        BY <1>5
      <3>2. ASSUME NEW s \in persisted \ overwritten, s <= b, s \notin uploaded
            PROVE  s \in batch'
        <4>1. s \in Unsent
          BY <2>4, <3>2
        <4>2. Cardinality({t \in Unsent : t < s}) < BatchRecords
          BY <2>2, <3>1, <3>2, <4>1, BatchIsLowest
        <4> QED
          BY <1>5, <4>1, <4>2
      <3> QED
        BY <2>3, <3>1, <3>2
    <2>6. batch' \subseteq Sequences
      BY <1>5, <2>2
    <2>7. degraded' \in BOOLEAN /\ faults' \in 0 .. MaxFaults
      BY <1>2, <1>5
    <2> QED
      BY <1>1, <1>2, <1>3, <1>4, <2>5, <2>6, <2>7, UploadFrame
  <1>6. CASE Fault /\ batch' = {} /\ degraded' = TRUE
    <2>1. faults' \in 0 .. MaxFaults
      BY <1>2, <1>6, FaultType
    <2>2. BatchWhole'
      BY <1>6 DEF BatchWhole
    <2> QED
      BY <1>1, <1>2, <1>3, <1>4, <1>6, <2>1, <2>2, UploadFrame
  <1> QED
    BY <1>5, <1>6 DEF Snapshot

\* The collector commits what it received.
LEMMA CommitStep == IndInv /\ Commit => IndInv'
  <1> SUFFICES ASSUME IndInv, Commit PROVE IndInv'
    OBVIOUS
  <1>1. /\ uploaded' = uploaded \cup batch
        /\ UNCHANGED <<flash, ring, job, phase, degraded, batch, history, faults>>
    BY DEF Commit
  <1>2. /\ batch \subseteq Sequences /\ uploaded \subseteq Sequences /\ degraded \in BOOLEAN
        /\ faults \in 0 .. MaxFaults
    BY TypeParts DEF IndInv, ModeType, WorldType
  <1>3. /\ last' = last /\ persisted' = persisted /\ overwritten' = overwritten /\ batch' = batch
    BY <1>1 DEF history
  <1>4. BatchWhole'
    BY <1>1, <1>3 DEF IndInv, BatchWhole
  <1> QED
    BY <1>1, <1>2, <1>4, UploadFrame

\* The acknowledgement of a batch arrives.
LEMMA AcknowledgeStep == IndInv /\ Acknowledge => IndInv'
  <1> SUFFICES ASSUME IndInv, Acknowledge PROVE IndInv'
    OBVIOUS
  <1> DEFINE seq == Max(batch)
  <1>1. /\ Free /\ batch # {} /\ batch \subseteq uploaded
        /\ UNCHANGED <<flash, phase, uploaded, history, faults>>
    BY DEF Acknowledge
  <1>2. /\ ring \in RingType /\ ring.ready /\ degraded \in BOOLEAN /\ faults \in 0 .. MaxFaults
        /\ TypeOK /\ job = Idle /\ phase = "open" /\ ring.reserved \in Sequences
    BY <1>1, FreeHolds
  <1>3. /\ headers' = headers /\ slots' = slots /\ phase' = phase /\ uploaded' = uploaded
        /\ last' = last /\ persisted' = persisted /\ overwritten' = overwritten
        /\ faults' = faults
    BY <1>1 DEF flash, history
  <1>4. /\ HeadersType /\ SlotsType /\ ModeType /\ WorldType /\ RingLoaded /\ last \in Nat
        /\ batch \subseteq Sequences
    BY <1>2, TypeParts DEF IndInv, WorldType
  <1>5. seq \in batch /\ seq \in 0 .. MaxSeq
    <2>1. batch \in SUBSET (0 .. MaxSeq)
      BY <1>4 DEF Sequences
    <2>2. seq \in batch
      BY <1>1, <2>1, MaxNat, SequencesAre
    <2> QED
      BY <2>1, <2>2
  <1> HIDE DEF seq
  <1>6. CASE Fail /\ UNCHANGED <<ring, batch>>
    <2>1. UNCHANGED <<flash, ring, phase, batch, uploaded, history>>
      BY <1>1, <1>6
    <2>2. job' \in JobType /\ JobFits(job', ring) /\ degraded' \in BOOLEAN
      BY <1>6, IdleFits DEF Fail
    <2> QED
      BY <1>2, <1>3, <2>1, <2>2, MemoryFrame
  <1>7. CASE /\ ring.acked <= seq /\ seq <= ring.max
             /\ ring' = [ring EXCEPT !.acked = seq]
             /\ batch' = {}
             /\ job' = IF seq - ring.durable < Block THEN Idle
                       ELSE [Idle EXCEPT !.at = "checkpoint", !.reserve = ring.reserved]
             /\ UNCHANGED degraded
    <2>1. /\ ring' \in RingType /\ ring'.acked = seq
          /\ ring'.ready = ring.ready /\ ring'.seqs = ring.seqs /\ ring'.dirty = ring.dirty
          /\ ring'.generation = ring.generation /\ ring'.active = ring.active
          /\ ring'.reserved = ring.reserved /\ ring'.durable = ring.durable
          /\ ring'.max = ring.max /\ ring'.next = ring.next
      BY <1>2, <1>5, <1>7 DEF RingType
    <2>2. job' \in JobType /\ JobFits(job', ring')
      <3>1. CASE job' = Idle
        BY <3>1, IdleFits
      <3>2. CASE job' = [Idle EXCEPT !.at = "checkpoint", !.reserve = ring.reserved]
        <4>1. ring.reserved \in 0 .. MaxSeq /\ ring.reserved <= ring.reserved
          BY <1>2, SequencesAre
        <4>2. /\ job' \in JobType /\ job'.at = "checkpoint" /\ job'.then = "idle"
              /\ job'.reserve = ring.reserved
          <5>1. \A j \in JobType :
                  /\ [j EXCEPT !.at = "checkpoint", !.reserve = ring.reserved] \in JobType
                  /\ [j EXCEPT !.at = "checkpoint", !.reserve = ring.reserved].at = "checkpoint"
                  /\ [j EXCEPT !.at = "checkpoint", !.reserve = ring.reserved].then = j.then
                  /\ [j EXCEPT !.at = "checkpoint", !.reserve = ring.reserved].reserve
                       = ring.reserved
            BY <4>1 DEF JobType
          <5>2. Idle \in JobType /\ Idle.then = "idle"
            BY ClosedType DEF Idle
          <5> QED
            BY <3>2, <5>1, <5>2
        <4> QED
          BY <1>2, <2>1, <4>1, <4>2 DEF JobFits
      <3> QED
        BY <1>7, <3>1, <3>2
    <2>3. TypeOK'
      <3>1. HeadersType' /\ SlotsType' /\ ModeType' /\ WorldType'
        BY <1>3, <1>4, <1>7 DEF HeadersType, SlotsType, ModeType, WorldType
      <3> QED
        BY <2>1, <2>2, <3>1 DEF TypeOK, HeadersType, HeaderType, SlotsType, RingType, JobType,
           ModeType, WorldType
    <2>4. HeadersOrdered' /\ FlashBlank' /\ RecordsKnown' /\ BatchWhole'
      BY <1>2, <1>3, <1>7, <2>1 DEF IndInv, HeadersOrdered, FlashBlank, RecordsKnown, BatchWhole
    <2>5. RingLoaded'
      <3>1. ring.durable <= seq /\ seq <= last
        <4>1. ring.durable <= ring.acked /\ ring.max <= last
          BY <1>2, <1>4 DEF RingLoaded
        <4>2. ring.durable \in Int /\ ring.acked \in Int /\ ring.max \in Int
          BY <1>2, RingHolds
        <4> QED
          BY <1>4, <1>5, <1>7, <4>1, <4>2
      <3> QED
        BY <1>2, <1>3, <1>4, <2>1, <3>1 DEF RingLoaded
    <2>6. JobSound'
      BY <1>2, <1>3, <2>2 DEF JobSound
    <2>7. NothingForgotten'
      <3>1. ASSUME NEW s \in persisted \ overwritten, s \notin uploaded PROVE s > seq
        <4>1. s \in Nat
          BY <1>4, SequencesAre DEF WorldType
        <4>2. s <= seq => s \in batch \cup uploaded
          BY <1>5 DEF IndInv, BatchWhole
        <4> QED
          BY <1>1, <1>5, <3>1, <4>1, <4>2
      <3> QED
        BY <1>3, <2>1, <3>1 DEF IndInv, NothingForgotten
    <2> QED
      BY <2>2, <2>3, <2>4, <2>5, <2>6, <2>7 DEF IndInv
  <1> QED
    BY <1>6, <1>7 DEF Acknowledge, seq
-----------------------------------------------------------------------------
(* The theorems. *)

\* The partition as it leaves the factory, before the first boot.
LEMMA InitIndInv == Init => IndInv
  <1> SUFFICES ASSUME Init PROVE IndInv
    OBVIOUS
  <1>1. /\ headers = [p \in Places |-> Blank] /\ slots = [i \in Slots |-> Erased]
        /\ ring = Closed /\ job = Idle /\ phase = "booting" /\ degraded = FALSE /\ batch = {}
        /\ uploaded = {} /\ last = 0 /\ persisted = {} /\ overwritten = {} /\ faults = 0
    BY DEF Init
  <1>2. Blank \in HeaderType /\ Blank.generation = 0
    BY RingAssumption DEF Blank, HeaderType
  <1>3. Valid(headers) = {} /\ Held(slots) = {}
    BY <1>1, <1>2 DEF Valid, Held, Erased
  <1>4. TypeOK
    <2>1. HeadersType /\ SlotsType /\ ring \in RingType /\ job \in JobType /\ ModeType
      BY <1>1, <1>2, ClosedType DEF HeadersType, SlotsType, ModeType
    <2>2. 0 \in 0 .. MaxSeq /\ 0 \in 0 .. MaxFaults
      BY RingAssumption
    <2>3. WorldType
      BY <1>1, <2>2 DEF WorldType
    <2> QED
      BY <2>1, <2>3, TypeParts
  <1>5. ~ring.ready
    BY <1>1 DEF Closed
  <1>6. HeadersOrdered /\ FlashBlank /\ RecordsKnown /\ RingLoaded
    BY <1>1, <1>3, <1>5 DEF HeadersOrdered, FlashBlank, RecordsKnown, RingLoaded
  <1>7. JobSound
    BY <1>1, IdleFits DEF JobSound
  <1>8. BatchWhole /\ NothingForgotten
    BY <1>1 DEF BatchWhole, NothingForgotten
  <1> QED
    BY <1>4, <1>6, <1>7, <1>8 DEF IndInv

\* A step that changes nothing keeps the invariant.
LEMMA StutterStep == IndInv /\ UNCHANGED vars => IndInv'
  <1> SUFFICES ASSUME IndInv, UNCHANGED vars PROVE IndInv'
    OBVIOUS
  <1>1. /\ UNCHANGED <<flash, ring, phase, history>> /\ UNCHANGED job
        /\ batch' = batch /\ uploaded' = uploaded /\ degraded' = degraded /\ faults' = faults
        /\ last' = last /\ persisted' = persisted /\ overwritten' = overwritten
    BY DEF vars, flash, history
  <1>2. /\ batch \subseteq Sequences /\ uploaded \subseteq Sequences /\ degraded \in BOOLEAN
        /\ faults \in 0 .. MaxFaults
    BY TypeParts DEF IndInv, ModeType, WorldType
  <1>3. BatchWhole'
    BY <1>1 DEF IndInv, BatchWhole
  <1> QED
    BY <1>1, <1>2, <1>3, UploadFrame

\* No step of the writer, the uploader, the collector, the flash or the power breaks
\* the invariant.
LEMMA NextIndInv == IndInv /\ [Next]_vars => IndInv'
  <1> SUFFICES ASSUME IndInv, [Next]_vars PROVE IndInv'
    OBVIOUS
  <1>1. CASE Append
    BY <1>1, AppendStep
  <1>2. CASE Summary
    BY <1>2, SummaryStep
  <1>3. CASE Flashing
    BY <1>3, CheckpointEraseStep, CheckpointWriteStep, RecycleStep, RollStep, ProgramStep
    DEF Flashing
  <1>4. CASE Open
    BY <1>4, OpenStep
  <1>5. CASE Reopen
    BY <1>5, ReopenStep
  <1>6. CASE Snapshot
    BY <1>6, SnapshotStep
  <1>7. CASE Commit
    BY <1>7, CommitStep
  <1>8. CASE Acknowledge
    BY <1>8, AcknowledgeStep
  <1>9. CASE Crash
    BY <1>9, CrashStep
  <1>10. CASE UNCHANGED vars
    BY <1>10, StutterStep
  <1> QED
    BY <1>1, <1>2, <1>3, <1>4, <1>5, <1>6, <1>7, <1>8, <1>9, <1>10 DEF Next

\* Every reachable state of the writer, the ring and the flash satisfies the invariant.
THEOREM IndInvHolds == Spec => []IndInv
  BY InitIndInv, NextIndInv, PTL DEF Spec

\* Once the first header is written, begin() accepts the partition whatever power cut
\* or flash error came before, at any step.
THEOREM ReopensHolds == Spec => []Reopens
  <1>1. IndInv => Reopens
    BY HeaderOpens DEF IndInv, Reopens
  <1> QED
    BY <1>1, IndInvHolds, PTL

\* No sequence is programmed that was programmed before, in this boot or another.
THEOREM SequenceFreshHolds == Spec => []SequenceFresh
  <1>1. IndInv => SequenceFresh
    <2> SUFFICES ASSUME IndInv, job.at = "program" PROVE ring.next > last
      BY DEF SequenceFresh
    <2> QED
      BY ProgramHolds
  <1> QED
    BY <1>1, IndInvHolds, PTL

\* A persisted record is on the flash, given up, or durably acknowledged, and no
\* acknowledgement covers a record that the collector does not have.
THEOREM NothingForgottenHolds == Spec => []NothingForgotten
  <1>1. IndInv => NothingForgotten
    BY DEF IndInv
  <1> QED
    BY <1>1, IndInvHolds, PTL
=============================================================================

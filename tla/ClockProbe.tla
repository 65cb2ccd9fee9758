----------------------------- MODULE ClockProbe -----------------------------
(***************************************************************************)
(* How a device record, which only carries its uptime, gets a time of day: *)
(* the collector asks a device for its uptime (clock_probe.py), the device *)
(* answers with what it knows of its own records (BlackBoxEvidence.h), the *)
(* answer becomes an anchor, and the anchors place the records on the PC's *)
(* clock (timeline.py).                                                    *)
(*                                                                         *)
(* Time is an integer.  The PC's wall clock is the time plus an offset     *)
(* that may step; the PC's monotonic clock is the time itself; the device  *)
(* counts from its boot, a little fast or slow, and its records keep the   *)
(* low bits only.                                                          *)
(***************************************************************************)
EXTENDS Integers, Sequences

CONSTANTS
    Horizon,    \* bound on time
    Wrap,       \* 2^32 ms: uptimes in records are modulo this
    MaxSeq,     \* bound: records of the device
    MaxBoot,    \* bound: boots of the device
    Tokens,     \* of challenges
    Patience,   \* 2 s: how long an answer may take
    Interval,   \* 60 s between challenges to a device
    Guard,      \* 50 ms
    MaxDelta,   \* 1800 s: how far from an anchor records are placed
    Drift,      \* one part in Drift (1000) is the assumed drift of the device's oscillator
    StepSizes,  \* by which the wall clock may step
    MaxSteps    \* bound on those steps

VARIABLES
    now, offset, stepped,
    skew,       \* the device's oscillator: -1, 0 or 1 part in 2 * Drift
    boot, booted,
    waiting,    \* device: the record in the writer's queue, or NoRecord
    records,    \* records persisted, by sequence
    covered,    \* device: ClockCoverage
    pending,    \* ClockProbe.pending
    asked,      \* ClockProbe.last
    replies,    \* answers in flight
    anchors     \* clock_anchors

pc == <<offset, stepped, pending, asked, anchors>>
device == <<skew, boot, booted, waiting, records, covered>>
vars == <<now, pc, device, replies>>

NoRecord == [boot |-> 0]
NoCover == [boot |-> 0, first |-> 0, last |-> 0, wraps |-> 0]

Init ==
    /\ now = 0 /\ offset = 0 /\ stepped = 0
    /\ skew \in {-1, 0, 1}
    /\ boot = 1 /\ booted = 0 /\ waiting = NoRecord /\ records = <<>> /\ covered = NoCover
    /\ pending = {} /\ asked = -Interval /\ replies = {} /\ anchors = {}

Wall == now + offset
Uptime == LET elapsed == now - booted IN elapsed + (skew * elapsed) \div (2 * Drift)
Abs(x) == IF x < 0 THEN -x ELSE x

Tick ==
    /\ now < Horizon /\ now' = now + 1
    /\ UNCHANGED <<pc, device, replies>>

StepClock(d) ==
    /\ stepped < MaxSteps /\ stepped' = stepped + 1
    /\ offset' = offset + d
    /\ UNCHANGED <<now, pending, asked, anchors, device, replies>>

-----------------------------------------------------------------------------
(***************************************************************************)
(* The device                                                              *)
(***************************************************************************)
Reboot ==
    /\ boot < MaxBoot /\ boot' = boot + 1
    /\ booted' = now /\ waiting' = NoRecord /\ covered' = NoCover
    /\ UNCHANGED <<now, pc, skew, records, replies>>

\* A record takes its uptime and the number of wraps when it is logged.
Log ==
    /\ waiting = NoRecord /\ Len(records) < MaxSeq
    /\ waiting' = [boot |-> boot, uptime |-> Uptime % Wrap, wraps |-> Uptime \div Wrap, at |-> now]
    /\ UNCHANGED <<now, pc, skew, boot, booted, records, covered, replies>>

\* Broken: only another boot begins a new range of sequences.
ObserveBoot(seq, w) ==
    IF covered.boot # boot
    THEN [boot |-> boot, first |-> seq, last |-> seq, wraps |-> w]
    ELSE [covered EXCEPT !.last = seq, !.wraps = w]

\* ClockCoverage.observe: the sequences of this boot and this round of the counter.
Observe(seq, w) ==
    IF covered.boot # boot \/ covered.wraps # w
    THEN [boot |-> boot, first |-> seq, last |-> seq, wraps |-> w]
    ELSE [covered EXCEPT !.last = seq]

Persist ==
    /\ waiting # NoRecord
    /\ records' = Append(records, [boot |-> boot, uptime |-> waiting.uptime, at |-> waiting.at])
    /\ covered' = Observe(Len(records) + 1, waiting.wraps)
    /\ waiting' = NoRecord
    /\ UNCHANGED <<now, pc, skew, boot, booted, replies>>

\* The device answers a challenge once, however late it comes; no answer when the counter has
\* wrapped since its last record.
Reply(t) ==
    /\ \E p \in pending : p.token = t
    /\ \A r \in replies : r.token # t
    /\ covered.first # 0 /\ Uptime \div Wrap = covered.wraps
    /\ replies' = replies \cup
          {[token |-> t, uptime |-> Uptime, cover |-> covered, offset |-> offset]}
    /\ UNCHANGED <<now, pc, device>>

-----------------------------------------------------------------------------
(***************************************************************************)
(* ClockProbe                                                              *)
(***************************************************************************)
\* After a batch is committed; what is pending for too long is forgotten.
Challenge(t) ==
    /\ now - asked >= Interval /\ asked' = now
    /\ \A p \in pending : p.token # t
    /\ \A r \in replies : r.token # t
    /\ \A a \in anchors : a.id # t
    /\ pending' = {p \in pending : now - p.mono <= Patience}
                  \cup {[token |-> t, mono |-> now, wall |-> Wall]}
    /\ UNCHANGED <<now, offset, stepped, anchors, device, replies>>

\* Broken: only the time the answer took is looked at.
TimelyOnly(p) == now - p.mono <= Patience
\* The answer is quick, and the two clocks agree on how long it took.
Timely(p) ==
    /\ now - p.mono <= Patience
    /\ Wall >= p.wall /\ Abs((Wall - p.wall) - (now - p.mono)) <= Guard

\* Broken: the readings are taken as they are.
AnchorTight(p, r) ==
    [id |-> p.token, min |-> p.wall, max |-> Wall, uptime |-> r.uptime, cover |-> r.cover,
     offset |-> r.offset]
AnchorOf(p, r) ==
    [id |-> p.token, min |-> p.wall - Guard, max |-> Wall + Guard, uptime |-> r.uptime,
     cover |-> r.cover, offset |-> r.offset]

\* A token is used up by its first answer; the anchor may find the queue full.
Receive(r) ==
    /\ replies' = replies \ {r}
    /\ LET mine == {p \in pending : p.token = r.token} IN
       /\ pending' = pending \ mine
       /\ \/ UNCHANGED anchors
          \/ \E p \in mine : Timely(p) /\ anchors' = anchors \cup {AnchorOf(p, r)}
    /\ UNCHANGED <<now, offset, stepped, asked, device>>

Next ==
    \/ Tick \/ (\E d \in StepSizes : StepClock(d))
    \/ Reboot \/ Log \/ Persist \/ (\E t \in Tokens : Reply(t) \/ Challenge(t))
    \/ (\E r \in replies : Receive(r))

Spec == Init /\ [][Next]_vars

-----------------------------------------------------------------------------
(***************************************************************************)
(* Anchor.interval and align_event                                         *)
(***************************************************************************)
Matches(a, seq) ==
    records[seq].boot = a.cover.boot /\ seq >= a.cover.first /\ seq <= a.cover.last

\* Broken: the record is taken to be of the same round as the sample.
Delta(a, seq) == a.cover.wraps * Wrap + records[seq].uptime - a.uptime

\* Broken: the device's oscillator is taken to be exact.
GrowthNone(d) == 0
\* Rounded up here, where the code has fractions.
Growth(d) == (Abs(d) + Drift - 1) \div Drift

Applicable(seq) == {a \in anchors : Matches(a, seq) /\ Abs(Delta(a, seq)) <= MaxDelta}
Lower(a, seq) == a.min + Delta(a, seq) - Growth(Delta(a, seq))
Upper(a, seq) == a.max + Delta(a, seq) + Growth(Delta(a, seq))

\* The aligned interval: the part that all applicable anchors allow; empty if they conflict.
Aligned(seq) ==
    {t \in Int : \A a \in Applicable(seq) : Lower(a, seq) <= t /\ t <= Upper(a, seq)}

\* Types; what is persisted carries the low bits of the uptime only.
TypeOK ==
    /\ now \in 0 .. Horizon /\ offset \in Int /\ stepped \in 0 .. MaxSteps
    /\ skew \in {-1, 0, 1} /\ boot \in 1 .. MaxBoot /\ booted \in 0 .. now
    /\ waiting = NoRecord \/ (waiting.boot = boot /\ waiting.uptime \in 0 .. Wrap - 1)
    /\ \A i \in DOMAIN records : records[i].boot \in 1 .. boot /\ records[i].uptime \in 0 .. Wrap - 1
    /\ Len(records) <= MaxSeq
    /\ covered.boot \in {0, boot} /\ covered.first <= covered.last /\ covered.last \in 0 .. Len(records)
    /\ asked \in -Interval .. now
    /\ \A p \in pending : p.token \in Tokens /\ p.mono \in 0 .. now
    /\ {r.token : r \in replies} \subseteq Tokens /\ {a.id : a \in anchors} \subseteq Tokens

(***************************************************************************)
(* A record that anchors place on the PC's clock is placed where that      *)
(* clock stood when the record was logged: never off by a round of the     *)
(* 32-bit uptime, by another boot, by a late answer or by the device's     *)
(* drift; and anchors conflict only if the PC's clock stepped between      *)
(* them.                                                                   *)
(***************************************************************************)
PlacedRight ==
    \A seq \in DOMAIN records : \A o \in {a.offset : a \in Applicable(seq)} :
        (\A a \in Applicable(seq) : a.offset = o) => records[seq].at + o \in Aligned(seq)

=============================================================================

--------------------------- MODULE BlackBoxIngest ---------------------------
(***************************************************************************)
(* How the records of a device get into the collector's database: the      *)
(* upload sessions of HAS1BlackBox.cpp, the MQTT callback and the SQLite   *)
(* worker of collector.py, and the table of storage.py.                    *)
(*                                                                         *)
(* One device and one ring.  A record is its sequence and its bytes, and   *)
(* the bytes are a small number.  The broker may repeat, delay, reorder or *)
(* lose every message; what the device gives up is decided by the answer   *)
(* alone.                                                                  *)
(***************************************************************************)
EXTENDS Integers, Sequences, FiniteSetsExt

CONSTANTS
    MaxSeq,        \* bound: records the device logs
    Tokens,        \* tokens of a batch (32 random bits); none is drawn twice while in flight
    BatchRecords,  \* records of a batch (16)
    QueueSize,     \* of the collector (64)
    MaxFaults      \* bound on crashes, failed statements and damaged batches

ASSUME IngestAssumption ==
    /\ MaxSeq \in Nat /\ BatchRecords \in Nat \ {0} /\ QueueSize \in Nat /\ MaxFaults \in Nat
    /\ Tokens \subseteq Nat \ {0}   \* 0 stands for no token

VARIABLES
    log,       \* device: bytes of each sequence, 0 when not written yet
    acked,     \* device: every sequence up to it may be erased
    session,   \* device: the batch sent in this session, or NoBatch
    uplink,    \* batches in flight
    answers,   \* acknowledgements in flight
    up,        \* collector: "on", "closing" or "off"
    queue,     \* collector: pending
    worker,    \* collector: the batch in hand and what is done with it
    table,     \* records: bytes of each sequence, 0 when there is none
    faults

device == <<log, acked, session>>
network == <<uplink, answers>>
vars == <<device, network, up, queue, worker, table, faults>>

Sequence == 1 .. MaxSeq
NoBatch == [token |-> 0]
Resting == [at |-> "idle", batch |-> NoBatch]

Init ==
    /\ log = [s \in Sequence |-> 0] /\ acked = 0 /\ session = NoBatch
    /\ uplink = {} /\ answers = {}
    /\ up = "off" /\ queue = <<>> /\ worker = Resting
    /\ table = [s \in Sequence |-> 0]
    /\ faults = 0

Fault == faults < MaxFaults /\ faults' = faults + 1

-----------------------------------------------------------------------------
(***************************************************************************)
(* The device                                                              *)
(***************************************************************************)
Log(s) ==
    /\ log[s] = 0 /\ \A r \in Sequence : r < s => log[r] # 0
    /\ log' = [log EXCEPT ![s] = 1]
    /\ UNCHANGED <<acked, session, network, up, queue, worker, table, faults>>

\* The flash came back older than it was, and a sequence is written with other bytes.
Renumber(s) ==
    /\ log[s] = 1 /\ s > acked /\ Fault
    /\ log' = [log EXCEPT ![s] = 2] /\ session' = NoBatch
    /\ UNCHANGED <<acked, network, up, queue, worker, table>>

InFlight == {m.token : m \in uplink} \cup {a.token : a \in answers}
            \cup {queue[i].token : i \in DOMAIN queue} \cup {worker.batch.token}

\* A session sends the oldest records that are not acknowledged.  A damaged batch does not
\* parse: its bytes are not those of the device.
Send(t) ==
    /\ session = NoBatch /\ t \notin InFlight
    /\ LET waiting == {s \in Sequence : s > acked /\ log[s] # 0}
           sent == {s \in waiting : Cardinality({r \in waiting : r <= s}) <= BatchRecords}
       IN  /\ waiting # {}
           /\ \E intact \in BOOLEAN :
                 /\ IF intact THEN UNCHANGED faults ELSE Fault
                 /\ session' = [token |-> t, last |-> Max(sent), intact |-> intact,
                                rows |-> [s \in sent |-> IF intact THEN log[s] ELSE 3]]
    /\ uplink' = uplink \cup {session'}
    /\ UNCHANGED <<log, acked, answers, up, queue, worker, table>>

GiveUp ==
    /\ session # NoBatch /\ session' = NoBatch
    /\ UNCHANGED <<log, acked, network, up, queue, worker, table, faults>>

\* Broken: the batch that the answer names is not compared.
ExactAckAny(a) == TRUE
ExactAck(a) == a.token = session.token /\ a.last = session.last

Accept(a) ==
    /\ session # NoBatch /\ ExactAck(a)
    /\ acked' = IF a.last > acked THEN a.last ELSE acked
    /\ session' = NoBatch
    /\ UNCHANGED <<log, network, up, queue, worker, table, faults>>

Lose ==
    /\ \/ (\E m \in uplink : uplink' = uplink \ {m} /\ UNCHANGED answers)
       \/ (\E a \in answers : answers' = answers \ {a} /\ UNCHANGED uplink)
    /\ UNCHANGED <<device, up, queue, worker, table, faults>>

-----------------------------------------------------------------------------
(***************************************************************************)
(* Collector.submit, under the lock that close() takes                     *)
(***************************************************************************)
\* Broken: the stop flag is not looked at.
SubmitUnlocked(m) ==
    /\ up # "off" /\ Len(queue) < QueueSize
    /\ queue' = Append(queue, m)
    /\ UNCHANGED <<device, network, up, worker, table, faults>>

\* A batch that is refused here is one the broker keeps or loses.
Submit(m) ==
    /\ up = "on" /\ Len(queue) < QueueSize
    /\ queue' = Append(queue, m)
    /\ UNCHANGED <<device, network, up, worker, table, faults>>

-----------------------------------------------------------------------------
(***************************************************************************)
(* The worker: parse, commit, answer                                       *)
(***************************************************************************)
Take ==
    /\ up # "off" /\ worker = Resting /\ queue # <<>>
    /\ worker' = [at |-> "save", batch |-> Head(queue)]
    /\ queue' = Tail(queue)
    /\ UNCHANGED <<device, network, up, table, faults>>

\* Broken: a batch is taken as it comes.
ParsesAll(m) == TRUE
\* Header, CRC of each record, and sequences that increase.
Parses(m) == m.intact

\* Broken: INSERT OR IGNORE.
CollidesNever(m) == FALSE
\* A sequence that is stored with other bytes refuses the whole batch.
Collides(m) == \E s \in DOMAIN m.rows : table[s] \notin {0, m.rows[s]}

Save ==
    /\ worker.at = "save"
    /\ LET m == worker.batch IN
          \/ /\ Parses(m) /\ ~Collides(m)
             /\ table' = [s \in Sequence |-> IF s \in DOMAIN m.rows /\ table[s] = 0
                                             THEN m.rows[s] ELSE table[s]]
             /\ worker' = [worker EXCEPT !.at = "answer"]
             /\ UNCHANGED faults
          \/ /\ ~Parses(m) \/ Collides(m)
             /\ worker' = Resting /\ UNCHANGED <<table, faults>>
          \/ /\ Fault                   \* sqlite3.Error, OSError: rolled back, no answer
             /\ worker' = Resting /\ UNCHANGED table
    /\ UNCHANGED <<device, network, up, queue>>

\* The publication is taken by the client, or it fails: the device asks again.
Answer ==
    /\ worker.at = "answer" /\ worker' = Resting
    /\ \/ answers' = answers \cup {[token |-> worker.batch.token, last |-> worker.batch.last]}
       \/ UNCHANGED answers
    /\ UNCHANGED <<device, uplink, up, queue, table, faults>>

Start ==
    /\ up = "off" /\ up' = "on" /\ queue' = <<>> /\ worker' = Resting
    /\ UNCHANGED <<device, network, table, faults>>

Close ==
    /\ up = "on" /\ up' = "closing"
    /\ UNCHANGED <<device, network, queue, worker, table, faults>>

\* The worker leaves its loop once the queue is empty.
Exit ==
    /\ up = "closing" /\ worker = Resting /\ queue = <<>>
    /\ up' = "off"
    /\ UNCHANGED <<device, network, queue, worker, table, faults>>

Crash ==
    /\ up # "off" /\ Fault
    /\ up' = "off" /\ queue' = <<>> /\ worker' = Resting
    /\ UNCHANGED <<device, network, table>>

Device ==
    \/ (\E s \in Sequence : Log(s) \/ Renumber(s))
    \/ (\E t \in Tokens : Send(t)) \/ GiveUp \/ (\E a \in answers : Accept(a))
Collector ==
    \/ (\E m \in uplink : Submit(m)) \/ Take \/ Save \/ Answer
    \/ Start \/ Close \/ Exit \/ Crash

Next == Device \/ Lose \/ Collector

Spec == Init /\ [][Next]_vars

\* The worker's thread runs.
Work == Take \/ Save \/ Answer \/ Exit
Fairness == WF_vars(Work)
FairSpec == Spec /\ Fairness

-----------------------------------------------------------------------------
\* Types, and two bounds: the collector's queue, and one batch of a token at a time.
TypeOK ==
    /\ log \in [Sequence -> 0 .. 2] /\ table \in [Sequence -> 0 .. 2]
    /\ acked \in 0 .. MaxSeq /\ faults \in 0 .. MaxFaults
    /\ session.token \in Tokens \cup {0}
    /\ {m.token : m \in uplink} \subseteq Tokens
    /\ {a.token : a \in answers} \subseteq Tokens /\ {a.last : a \in answers} \subseteq Sequence
    /\ up \in {"on", "closing", "off"}
    /\ Len(queue) <= QueueSize /\ \A i \in DOMAIN queue : queue[i].token \in Tokens
    /\ worker = Resting \/ (worker.at \in {"save", "answer"} /\ worker.batch.token \in Tokens)

(***************************************************************************)
(* What the device has given up is in the table, with the bytes the device *)
(* had: whatever was lost, repeated or reordered on the way, whatever      *)
(* crashed between the commit and the answer, and even when a sequence was *)
(* written twice (storage.py, collector.py process, exactAck).             *)
(***************************************************************************)
AckedIsKept == \A s \in Sequence : s <= acked => table[s] = log[s]

(***************************************************************************)
(* Closing ends: the batches accepted before are all settled, and none is  *)
(* accepted behind them, however often the broker repeats one ("once close *)
(* begins, no callback can enqueue behind the writer's final empty-queue   *)
(* check").                                                                *)
(***************************************************************************)
Drains == up = "closing" ~> up = "off"
=============================================================================

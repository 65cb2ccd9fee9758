------------------------ MODULE EventPaths_proofs ------------------------
(***************************************************************************)
(* Proofs about the way of the records into the collector's database, for  *)
(* any number of records and tokens, any size of batch and queue, and any  *)
(* number of crashes, failed statements and damaged batches; about the     *)
(* threads of a receiver of datagrams, for any size of its queue; and      *)
(* about the watch of silent devices, for any devices, any lengths of the  *)
(* silence and the windows that WatchAssumption allows, and any number of  *)
(* failures, stalls, games and restarts.                                   *)
(***************************************************************************)
EXTENDS EventPaths, FiniteSetTheorems, WellFoundedInduction, SequenceTheorems, TLAPS

-----------------------------------------------------------------------------
(***************************************************************************)
(* Batches of a device (BlackBoxIngest)                                    *)
(***************************************************************************)
(* The inductive invariant. *)

\* A batch: its rows are of some of the sequences, each with its bytes.
Rows == UNION {[S -> 0 .. 3] : S \in SUBSET Sequence}
Batch == [token : Tokens, last : Sequence, intact : BOOLEAN, rows : Rows]

Shapes ==
    /\ log \in [Sequence -> 0 .. 2] /\ table \in [Sequence -> 0 .. 2]
    /\ acked \in 0 .. MaxSeq /\ faults \in 0 .. MaxFaults
    /\ session \in Batch \cup {NoBatch}
    /\ uplink \subseteq Batch /\ answers \subseteq [token : Tokens, last : Sequence]
    /\ up \in {"on", "closing", "off"}
    /\ queue \in Seq(Batch) /\ Len(queue) <= QueueSize
    /\ worker \in [at : {"save", "answer"}, batch : Batch] \cup {Resting}

\* The batches on their way to the table.
Carried ==
    uplink \cup {queue[i] : i \in DOMAIN queue} \cup (IF worker = Resting THEN {} ELSE {worker.batch})

\* The device writes its sequences one after the other, and acknowledged are only
\* ones that it wrote.
LogInOrder ==
    /\ \A r, s \in Sequence : r < s /\ log[s] # 0 => log[r] # 0
    /\ \A s \in Sequence : s <= acked => log[s] # 0

\* What parses holds bytes of the device, of now or of before.
BytesKnown == \A m \in Carried : m.intact => \A s \in DOMAIN m.rows : m.rows[s] \in {1, 2}

\* The batch of the session has every record from the acknowledged one to its last,
\* and its bytes are those of the device.
SessionWhole ==
    session # NoBatch =>
        /\ \A s \in Sequence : acked < s /\ s <= session.last => s \in DOMAIN session.rows
        /\ \A s \in DOMAIN session.rows : log[s] # 0
        /\ session.intact => \A s \in DOMAIN session.rows : session.rows[s] = log[s]

\* Whatever carries the token of the session is its batch, and is answered only when
\* the table holds it.
TokensExact ==
    session # NoBatch =>
        /\ \A m \in Carried : m.token = session.token => m = session
        /\ \A a \in answers : a.token = session.token =>
              session.intact /\ \A s \in DOMAIN session.rows : table[s] = session.rows[s]

\* The worker answers for what it has saved.
SavedFirst ==
    worker.at = "answer" =>
        worker.batch.intact
        /\ \A s \in DOMAIN worker.batch.rows : table[s] = worker.batch.rows[s]

IndInv ==
    /\ Shapes /\ LogInOrder /\ BytesKnown /\ SessionWhole /\ TokensExact /\ SavedFirst
    /\ AckedIsKept
-----------------------------------------------------------------------------
(* Shapes. *)

\* What a batch holds.
LEMMA BatchHolds ==
    ASSUME NEW m \in Batch
    PROVE  /\ m.token \in Tokens /\ m.last \in Sequence /\ m.intact \in BOOLEAN
           /\ DOMAIN m.rows \in SUBSET Sequence /\ m.rows \in [DOMAIN m.rows -> 0 .. 3]
           /\ m # NoBatch
  <1>1. m.token \in Tokens /\ m.last \in Sequence /\ m.intact \in BOOLEAN /\ m.rows \in Rows
    BY DEF Batch
  <1>2. PICK S \in SUBSET Sequence : m.rows \in [S -> 0 .. 3]
    BY <1>1 DEF Rows
  <1>3. DOMAIN m.rows \in SUBSET Sequence /\ m.rows \in [DOMAIN m.rows -> 0 .. 3]
    BY <1>2
  <1>4. m # NoBatch
    <2>1. m.token # 0
      BY <1>1, IngestAssumption
    <2> QED
      BY <2>1 DEF NoBatch
  <1> QED
    BY <1>1, <1>3, <1>4

\* A session that is under way has a batch, and a worker that does not rest has one.
LEMMA InHand ==
    ASSUME Shapes
    PROVE  /\ session # NoBatch => session \in Batch
           /\ worker # Resting => /\ worker.batch \in Batch /\ worker.batch \in Carried
                                  /\ worker.at \in {"save", "answer"}
           /\ worker.at \in {"save", "answer"} => worker # Resting
           /\ \A m \in Carried : m \in Batch
  <1>1. session \in Batch \cup {NoBatch}
        /\ worker \in [at : {"save", "answer"}, batch : Batch] \cup {Resting}
        /\ uplink \subseteq Batch /\ queue \in Seq(Batch)
    BY DEF Shapes
  <1>2. \A i \in DOMAIN queue : queue[i] \in Batch
    BY <1>1
  <1>3. worker # Resting => worker.batch \in Batch /\ worker.at \in {"save", "answer"}
    BY <1>1
  <1>4. worker.at \in {"save", "answer"} => worker # Resting
    BY DEF Resting
  <1> QED
    BY <1>1, <1>2, <1>3, <1>4 DEF Carried

\* One fault more is still within the bound.
LEMMA FaultType == Shapes /\ Fault => faults' \in 0 .. MaxFaults
  BY IngestAssumption DEF Shapes, Fault

\* The bounds that the type invariant names follow from the shapes.
LEMMA ShapesType == Shapes => TypeOK
  <1> SUFFICES ASSUME Shapes PROVE TypeOK
    OBVIOUS
  <1>1. session.token \in Tokens \cup {0}
    BY InHand, BatchHolds DEF NoBatch
  <1>2. {m.token : m \in uplink} \subseteq Tokens
    BY InHand, BatchHolds DEF Carried
  <1>3. {a.token : a \in answers} \subseteq Tokens /\ {a.last : a \in answers} \subseteq Sequence
    BY DEF Shapes
  <1>4. \A i \in DOMAIN queue : queue[i].token \in Tokens
    BY InHand, BatchHolds DEF Carried
  <1>5. worker = Resting \/ (worker.at \in {"save", "answer"} /\ worker.batch.token \in Tokens)
    BY InHand, BatchHolds
  <1> QED
    BY <1>1, <1>2, <1>3, <1>4, <1>5 DEF Shapes, TypeOK
-----------------------------------------------------------------------------
(* Steps. *)

\* A step that adds no batch, only fills in empty rows of the table and answers for
\* what the worker has saved keeps the invariant.
LEMMA Frame ==
    ASSUME IndInv, Shapes', SavedFirst', log' = log, acked' = acked,
           session' = session \/ session' = NoBatch,
           Carried' \subseteq Carried,
           \A s \in Sequence : table[s] # 0 => table'[s] = table[s],
           \A a \in answers' : \/ a \in answers
                               \/ worker.at = "answer" /\ a.token = worker.batch.token
    PROVE  IndInv'
  <1>1. Shapes
    BY DEF IndInv
  <1>2. LogInOrder' /\ BytesKnown' /\ SessionWhole'
    BY DEF IndInv, LogInOrder, BytesKnown, SessionWhole
  <1>3. TokensExact'
    <2> SUFFICES ASSUME session' # NoBatch
                 PROVE  /\ \A m \in Carried' : m.token = session.token => m = session
                        /\ \A a \in answers' : a.token = session.token =>
                              /\ session.intact
                              /\ \A s \in DOMAIN session.rows : table'[s] = session.rows[s]
      BY DEF TokensExact
    <2>1. session # NoBatch /\ session' = session
      OBVIOUS
    <2>2. \A m \in Carried' : m.token = session.token => m = session
      BY <2>1 DEF IndInv, TokensExact
    <2>3. ASSUME NEW a \in answers', a.token = session.token
          PROVE  session.intact /\ \A s \in DOMAIN session.rows : table[s] = session.rows[s]
      <3>1. CASE a \in answers
        BY <2>1, <2>3, <3>1 DEF IndInv, TokensExact
      <3>2. CASE worker.at = "answer" /\ a.token = worker.batch.token
        <4>1. worker.batch \in Carried
          BY <1>1, <3>2, InHand
        <4>2. worker.batch = session
          BY <2>1, <2>3, <3>2, <4>1 DEF IndInv, TokensExact
        <4> QED
          BY <3>2, <4>2 DEF IndInv, SavedFirst
      <3> QED
        BY <2>3, <3>1, <3>2
    <2>4. ASSUME session.intact, NEW s \in DOMAIN session.rows
          PROVE  session.rows[s] # 0 /\ s \in Sequence
      <3>1. s \in Sequence
        BY <1>1, <2>1, InHand, BatchHolds
      <3> QED
        BY <2>1, <2>4, <3>1 DEF IndInv, SessionWhole
    <2> QED
      BY <2>2, <2>3, <2>4
  <1>4. AckedIsKept'
    BY DEF IndInv, AckedIsKept, LogInOrder
  <1> QED
    BY <1>2, <1>3, <1>4 DEF IndInv

\* The device writes a record.
LEMMA LogStep == IndInv /\ (\E s \in Sequence : Log(s)) => IndInv'
  <1> SUFFICES ASSUME IndInv, NEW n \in Sequence, Log(n) PROVE IndInv'
    OBVIOUS
  <1>1. /\ log[n] = 0 /\ \A r \in Sequence : r < n => log[r] # 0
        /\ log' = [log EXCEPT ![n] = 1]
        /\ acked' = acked /\ session' = session /\ uplink' = uplink /\ answers' = answers
        /\ up' = up /\ queue' = queue /\ worker' = worker /\ table' = table /\ faults' = faults
    BY DEF Log, network
  <1>2. Shapes /\ log \in [Sequence -> 0 .. 2]
    BY DEF IndInv, Shapes
  <1>3. Carried' = Carried
    BY <1>1 DEF Carried
  <1>4. \A s \in Sequence : log[s] # 0 => log'[s] = log[s] /\ s # n
    BY <1>1, <1>2
  <1>5. Shapes'
    BY <1>1, <1>2 DEF Shapes
  <1>6. LogInOrder'
    <2>1. ASSUME NEW r \in Sequence, NEW s \in Sequence, r < s, log'[s] # 0 PROVE log'[r] # 0
      <3>1. r = n => log'[r] = 1
        BY <1>1, <1>2
      <3>2. r # n => log'[r] = log[r]
        BY <1>1, <1>2
      <3>3. s # n => log'[s] = log[s]
        BY <1>1, <1>2
      <3>4. r # n => log[r] # 0
        BY <1>1, <2>1, <3>3 DEF IndInv, LogInOrder
      <3> QED
        BY <3>1, <3>2, <3>4
    <2>2. \A s \in Sequence : s <= acked => log'[s] # 0
      BY <1>4 DEF IndInv, LogInOrder
    <2> QED
      BY <1>1, <2>1, <2>2 DEF LogInOrder
  <1>7. BytesKnown' /\ TokensExact' /\ SavedFirst'
    BY <1>1, <1>3 DEF IndInv, BytesKnown, TokensExact, SavedFirst
  <1>8. SessionWhole'
    <2>1. session # NoBatch => DOMAIN session.rows \in SUBSET Sequence
      BY <1>2, InHand, BatchHolds
    <2> QED
      BY <1>1, <1>4, <2>1 DEF IndInv, SessionWhole
  <1>9. AckedIsKept'
    BY <1>1, <1>4 DEF IndInv, AckedIsKept, LogInOrder
  <1> QED
    BY <1>5, <1>6, <1>7, <1>8, <1>9 DEF IndInv

\* A record that is not acknowledged is written anew by a restored device.
LEMMA RenumberStep == IndInv /\ (\E s \in Sequence : Renumber(s)) => IndInv'
  <1> SUFFICES ASSUME IndInv, NEW n \in Sequence, Renumber(n) PROVE IndInv'
    OBVIOUS
  <1>1. /\ log[n] = 1 /\ n > acked /\ Fault
        /\ log' = [log EXCEPT ![n] = 2] /\ session' = NoBatch
        /\ acked' = acked /\ uplink' = uplink /\ answers' = answers
        /\ up' = up /\ queue' = queue /\ worker' = worker /\ table' = table
    BY DEF Renumber, network
  <1>2. Shapes /\ log \in [Sequence -> 0 .. 2] /\ acked \in Int
    BY DEF IndInv, Shapes
  <1>3. Carried' = Carried
    BY <1>1 DEF Carried
  <1>4. \A s \in Sequence : /\ log'[s] # 0 <=> log[s] # 0
                            /\ s <= acked => log'[s] = log[s]
    BY <1>1, <1>2 DEF Sequence
  <1>5. Shapes'
    BY <1>1, <1>2, FaultType DEF Shapes
  <1>6. LogInOrder'
    BY <1>1, <1>4 DEF IndInv, LogInOrder
  <1>7. BytesKnown' /\ TokensExact' /\ SavedFirst' /\ SessionWhole'
    BY <1>1, <1>3 DEF IndInv, BytesKnown, TokensExact, SavedFirst, SessionWhole
  <1>8. AckedIsKept'
    BY <1>1, <1>4 DEF IndInv, AckedIsKept
  <1> QED
    BY <1>5, <1>6, <1>7, <1>8 DEF IndInv
-----------------------------------------------------------------------------
(* Numbers. *)

\* A set of naturals has a least element, which Min picks.
LEMMA MinNat ==
    ASSUME NEW S \in SUBSET Nat, S # {}
    PROVE  Min(S) \in S /\ \A y \in S : Min(S) <= y
  <1>1. \E x \in S : \A y \in S : ~(<<y, x>> \in OpToRel(<, Nat))
    BY WFMin, NatLessThanWellFounded
  <1>2. \E x \in S : \A y \in S : x <= y
    <2>1. PICK x \in S : \A y \in S : ~(<<y, x>> \in OpToRel(<, Nat))
      BY <1>1
    <2>2. \A y \in S : ~(y < x)
      BY <2>1 DEF OpToRel
    <2> QED
      BY <2>2
  <1> QED
    BY <1>2 DEF Min

\* A bounded set of naturals has a greatest element, which Max picks.
LEMMA MaxNat ==
    ASSUME NEW n \in Nat, NEW S \in SUBSET (0..n), S # {}
    PROVE  Max(S) \in S /\ \A y \in S : y <= Max(S)
  <1> DEFINE T == {n - x : x \in S}
  <1>1. T \in SUBSET Nat /\ T # {}
    <2>1. \A x \in S : n - x \in Nat
      OBVIOUS
    <2>2. PICK x \in S : TRUE
      OBVIOUS
    <2>3. n - x \in T
      BY <2>2
    <2>4. T \subseteq Nat
      BY <2>1
    <2> QED
      BY <2>3, <2>4
  <1>2. Min(T) \in T /\ \A y \in T : Min(T) <= y
    BY <1>1, MinNat
  <1>3. PICK m \in S : Min(T) = n - m
    BY <1>2
  <1>4. \A y \in S : n - m <= n - y
    BY <1>2, <1>3
  <1>5. \A y \in S : m >= y
    BY <1>4
  <1> QED
    BY <1>5 DEF Max

-----------------------------------------------------------------------------
(* A session sends a batch. *)

Waiting == {s \in Sequence : s > acked /\ log[s] # 0}
Sent == {s \in Waiting : Cardinality({r \in Waiting : r <= s}) <= BatchRecords}

\* Of records that wait, a batch takes the lowest: at least one, and up to its last all.
LEMMA SentIsWhole ==
    ASSUME Shapes, LogInOrder, Waiting # {}
    PROVE  /\ Max(Sent) \in Sent /\ Sent \in SUBSET Sequence
           /\ \A s \in Sequence : acked < s /\ s <= Max(Sent) => s \in Sent
  <1>1. /\ Waiting \in SUBSET Nat /\ Waiting \in SUBSET (0 .. MaxSeq) /\ IsFiniteSet(Waiting)
        /\ MaxSeq \in Nat
    <2>1. IsFiniteSet(Sequence)
      BY FS_Interval, IngestAssumption DEF Sequence
    <2>2. Waiting \in SUBSET Sequence
      BY DEF Waiting
    <2>3. \A n \in Sequence : n \in Nat /\ n \in 0 .. MaxSeq
      BY IngestAssumption DEF Sequence
    <2>4. IsFiniteSet(Waiting)
      BY <2>1, <2>2, FS_Subset
    <2>5. Waiting \in SUBSET Nat /\ Waiting \in SUBSET (0 .. MaxSeq)
      BY <2>2, <2>3
    <2> QED
      BY <2>4, <2>5, IngestAssumption
  <1>2. Sent # {}
    <2> DEFINE n == Min(Waiting)
    <2>1. n \in Waiting /\ \A y \in Waiting : n <= y
      BY <1>1, MinNat
    <2>2. {r \in Waiting : r <= n} = {n}
      <3>1. ASSUME NEW r \in Waiting, r <= n PROVE r = n
        <4>1. r \in Nat /\ n \in Nat /\ n <= r
          BY <1>1, <2>1
        <4> HIDE DEF n
        <4> QED
          BY <3>1, <4>1
      <3> QED
        BY <1>1, <2>1, <3>1
    <2>3. Cardinality({n}) = 1
      BY FS_Singleton
    <2>4. 1 <= BatchRecords
      BY IngestAssumption
    <2>5. n \in Sent
      BY <2>1, <2>2, <2>3, <2>4 DEF Sent
    <2> QED
      BY <2>5
  <1>3. Sent \in SUBSET (0 .. MaxSeq) /\ Sent \in SUBSET Sequence
    BY <1>1 DEF Sent, Waiting
  <1>4. Max(Sent) \in Sent
    BY <1>1, <1>2, <1>3, MaxNat
  <1>5. ASSUME NEW s \in Sequence, acked < s, s <= Max(Sent) PROVE s \in Sent
    <2> DEFINE m == Max(Sent)
               A == {r \in Waiting : r <= s}
               B == {r \in Waiting : r <= m}
    <2>1. m \in Waiting /\ Cardinality(B) <= BatchRecords
      BY <1>4 DEF Sent
    <2>2. m \in Sequence /\ log[m] # 0
      BY <2>1 DEF Waiting
    <2>3. log[s] # 0
      <3>1. CASE s = m
        BY <2>2, <3>1
      <3>2. CASE s # m
        <4>1. s < m
          BY <1>5, <2>2, <3>2 DEF Sequence
        <4> QED
          BY <2>2, <4>1 DEF LogInOrder
      <3> QED
        BY <3>1, <3>2
    <2>4. s \in Waiting
      BY <1>5, <2>3 DEF Waiting, Shapes, Sequence
    <2>5. A \in SUBSET B
      <3>1. ASSUME NEW r \in Waiting, r <= s PROVE r <= m
        <4>1. r \in Nat /\ s \in Nat /\ m \in Nat
          BY <1>1, <2>1, <2>4
        <4>2. s <= m
          BY <1>5
        <4> HIDE DEF m
        <4> QED
          BY <3>1, <4>1, <4>2
      <3> QED
        BY <3>1
    <2>6. IsFiniteSet(B)
      BY <1>1, FS_Subset
    <2>7. Cardinality(A) <= Cardinality(B) /\ Cardinality(A) \in Nat /\ Cardinality(B) \in Nat
      BY <2>5, <2>6, FS_Subset, FS_CardinalityType
    <2>8. Cardinality(A) <= BatchRecords
      BY <2>1, <2>7, IngestAssumption
    <2> QED
      BY <2>4, <2>8 DEF Sent
  <1> QED
    BY <1>3, <1>4, <1>5

\* A batch is sent, whole or damaged, under a token that nothing else carries.
LEMMA SendStep == IndInv /\ (\E t \in Tokens : Send(t)) => IndInv'
  <1> SUFFICES ASSUME IndInv, NEW t \in Tokens, Send(t) PROVE IndInv'
    OBVIOUS
  <1>1. /\ session = NoBatch /\ t \notin InFlight /\ Waiting # {}
        /\ uplink' = uplink \cup {session'}
        /\ log' = log /\ acked' = acked /\ answers' = answers /\ up' = up
        /\ queue' = queue /\ worker' = worker /\ table' = table
    BY DEF Send, Waiting
  <1>2. PICK intact \in BOOLEAN :
           /\ IF intact THEN UNCHANGED faults ELSE Fault
           /\ session' = [token |-> t, last |-> Max(Sent), intact |-> intact,
                          rows |-> [s \in Sent |-> IF intact THEN log[s] ELSE 3]]
    BY DEF Send, Sent, Waiting
  <1>3. Shapes /\ LogInOrder /\ log \in [Sequence -> 0 .. 2]
    BY DEF IndInv, Shapes
  <1>4. /\ Max(Sent) \in Sent /\ Sent \in SUBSET Sequence
        /\ \A s \in Sequence : acked < s /\ s <= Max(Sent) => s \in Sent
        /\ \A s \in Sent : log[s] # 0
    BY <1>1, <1>3, SentIsWhole DEF Sent, Waiting
  <1>5. /\ session'.token = t /\ session'.last = Max(Sent) /\ session'.intact = intact
        /\ session'.rows = [s \in Sent |-> IF intact THEN log[s] ELSE 3]
        /\ DOMAIN session'.rows = Sent
        /\ \A s \in Sent : session'.rows[s] = IF intact THEN log[s] ELSE 3
    BY <1>2
  <1>6. session' \in Batch
    <2>1. session'.rows \in [Sent -> 0 .. 3]
      <3>1. \A s \in Sent : log[s] \in 0 .. 2
        BY <1>3, <1>4
      <3>2. \A s \in Sent : (IF intact THEN log[s] ELSE 3) \in 0 .. 3
        BY <3>1
      <3> QED
        BY <1>5, <3>2
    <2>2. session'.rows \in Rows
      BY <1>4, <2>1 DEF Rows
    <2>3. session' = [token |-> t, last |-> Max(Sent), intact |-> intact, rows |-> session'.rows]
      BY <1>2
    <2> QED
      BY <1>4, <2>2, <2>3 DEF Batch
  <1>7. Carried' = Carried \cup {session'}
    BY <1>1 DEF Carried
  <1>8. Shapes'
    <2>1. faults' \in 0 .. MaxFaults
      BY <1>2, <1>3, FaultType DEF Shapes
    <2> QED
      BY <1>1, <1>3, <1>6, <2>1 DEF Shapes
  <1>9. LogInOrder' /\ AckedIsKept' /\ SavedFirst'
    BY <1>1 DEF IndInv, LogInOrder, AckedIsKept, SavedFirst
  <1>10. BytesKnown'
    <2>1. session'.intact => \A s \in DOMAIN session'.rows : session'.rows[s] \in {1, 2}
      BY <1>3, <1>4, <1>5
    <2> QED
      BY <1>7, <2>1 DEF IndInv, BytesKnown
  <1>11. SessionWhole'
    BY <1>1, <1>4, <1>5 DEF SessionWhole
  <1>12. TokensExact'
    <2>1. \A m \in Carried : m.token # t
      BY <1>1 DEF InFlight, Carried
    <2>2. \A a \in answers : a.token # t
      BY <1>1 DEF InFlight
    <2> QED
      BY <1>1, <1>5, <1>7, <2>1, <2>2 DEF TokensExact
  <1> QED
    BY <1>8, <1>9, <1>10, <1>11, <1>12 DEF IndInv

\* The device takes the answer that names its batch, and may erase what was in it.
LEMMA AcceptStep == IndInv /\ (\E a \in answers : Accept(a)) => IndInv'
  <1> SUFFICES ASSUME IndInv, NEW a \in answers, Accept(a) PROVE IndInv'
    OBVIOUS
  <1>1. /\ session # NoBatch /\ a.token = session.token /\ a.last = session.last
        /\ acked' = IF a.last > acked THEN a.last ELSE acked
        /\ session' = NoBatch
        /\ log' = log /\ uplink' = uplink /\ answers' = answers /\ up' = up
        /\ queue' = queue /\ worker' = worker /\ table' = table /\ faults' = faults
    BY DEF Accept, ExactAck, network
  <1>2. Shapes /\ a.last \in Sequence /\ acked \in 0 .. MaxSeq
    BY DEF IndInv, Shapes
  <1>3. Carried' = Carried
    BY <1>1 DEF Carried
  <1>4. /\ session.intact
        /\ \A s \in DOMAIN session.rows : table[s] = session.rows[s]
        /\ \A s \in DOMAIN session.rows : log[s] # 0 /\ session.rows[s] = log[s]
        /\ \A s \in Sequence : acked < s /\ s <= session.last => s \in DOMAIN session.rows
    BY <1>1 DEF IndInv, TokensExact, SessionWhole
  <1>5. ASSUME NEW s \in Sequence, s <= acked' PROVE log[s] # 0 /\ table[s] = log[s]
    <2>1. s \in Int /\ (s <= acked \/ (acked < s /\ s <= session.last))
      BY <1>1, <1>2, <1>5 DEF Sequence
    <2> QED
      BY <1>4, <2>1 DEF IndInv, LogInOrder, AckedIsKept
  <1>6. Shapes'
    <2>1. acked' \in 0 .. MaxSeq
      BY <1>1, <1>2, IngestAssumption DEF Sequence
    <2> QED
      BY <1>1, <1>2, <2>1 DEF Shapes
  <1>7. LogInOrder' /\ AckedIsKept'
    BY <1>1, <1>5 DEF IndInv, LogInOrder, AckedIsKept
  <1>8. BytesKnown' /\ SavedFirst' /\ SessionWhole' /\ TokensExact'
    BY <1>1, <1>3 DEF IndInv, BytesKnown, SavedFirst, SessionWhole, TokensExact
  <1> QED
    BY <1>6, <1>7, <1>8 DEF IndInv

\* The device gives a session up, and the broker loses what it likes.
LEMMA LossStep == IndInv /\ (GiveUp \/ Lose) => IndInv'
  <1> SUFFICES ASSUME IndInv, GiveUp \/ Lose PROVE IndInv'
    OBVIOUS
  <1>1. /\ log' = log /\ acked' = acked /\ up' = up
        /\ queue' = queue /\ worker' = worker /\ table' = table /\ faults' = faults
        /\ session' = session \/ session' = NoBatch
        /\ uplink' \subseteq uplink /\ answers' \subseteq answers
    BY DEF GiveUp, Lose, network, device
  <1>2. Carried' \subseteq Carried
    BY <1>1 DEF Carried
  <1>3. Shapes' /\ SavedFirst'
    BY <1>1 DEF IndInv, Shapes, SavedFirst
  <1> QED
    BY <1>1, <1>2, <1>3, Frame

\* The callback queues a batch, any number of times.
LEMMA SubmitStep == IndInv /\ (\E m \in uplink : Submit(m)) => IndInv'
  <1> SUFFICES ASSUME IndInv, NEW m \in uplink, Submit(m) PROVE IndInv'
    OBVIOUS
  <1>1. /\ Len(queue) < QueueSize /\ queue' = Append(queue, m)
        /\ log' = log /\ acked' = acked /\ session' = session /\ uplink' = uplink
        /\ answers' = answers /\ up' = up /\ worker' = worker /\ table' = table
        /\ faults' = faults
    BY DEF Submit, device, network
  <1>2. Shapes /\ m \in Batch /\ queue \in Seq(Batch) /\ Len(queue) \in Nat
    BY DEF IndInv, Shapes
  <1>3. /\ queue' \in Seq(Batch) /\ Len(queue') = Len(queue) + 1
        /\ \A i \in DOMAIN queue' : queue'[i] = m \/ (i \in DOMAIN queue /\ queue'[i] = queue[i])
    BY <1>1, <1>2
  <1>4. Carried' \subseteq Carried
    BY <1>1, <1>3 DEF Carried
  <1>5. Shapes' /\ SavedFirst'
    BY <1>1, <1>2, <1>3, IngestAssumption DEF IndInv, Shapes, SavedFirst
  <1> QED
    BY <1>1, <1>4, <1>5, Frame

\* The worker takes the oldest batch.
LEMMA TakeStep == IndInv /\ Take => IndInv'
  <1> SUFFICES ASSUME IndInv, Take PROVE IndInv'
    OBVIOUS
  <1>1. /\ worker = Resting /\ queue # <<>>
        /\ worker' = [at |-> "save", batch |-> Head(queue)] /\ queue' = Tail(queue)
        /\ log' = log /\ acked' = acked /\ session' = session /\ uplink' = uplink
        /\ answers' = answers /\ up' = up /\ table' = table /\ faults' = faults
    BY DEF Take, device, network
  <1>2. Shapes /\ queue \in Seq(Batch)
    BY DEF IndInv, Shapes
  <1>3. /\ queue' \in Seq(Batch) /\ Len(queue') <= Len(queue) /\ Len(queue') \in Nat
        /\ \A i \in DOMAIN queue' : i + 1 \in DOMAIN queue /\ queue'[i] = queue[i + 1]
        /\ 1 \in DOMAIN queue /\ Head(queue) = queue[1] /\ Head(queue) \in Batch
    BY <1>1, <1>2
  <1>4. worker'.at = "save" /\ worker'.batch = Head(queue) /\ worker' # Resting
    BY <1>1 DEF Resting
  <1>5. Carried' \subseteq Carried
    BY <1>1, <1>3, <1>4 DEF Carried
  <1>6. Shapes'
    <2>1. worker' \in [at : {"save", "answer"}, batch : Batch]
      BY <1>1, <1>3
    <2>2. Len(queue') <= QueueSize
      BY <1>2, <1>3, IngestAssumption DEF Shapes
    <2> QED
      BY <1>1, <1>2, <1>3, <2>1, <2>2 DEF Shapes
  <1>7. SavedFirst'
    BY <1>4 DEF SavedFirst
  <1> QED
    BY <1>1, <1>5, <1>6, <1>7, Frame

\* The worker commits a batch that parses and collides with nothing, or none of it.
LEMMA SaveStep == IndInv /\ Save => IndInv'
  <1> SUFFICES ASSUME IndInv, Save PROVE IndInv'
    OBVIOUS
  <1> DEFINE m == worker.batch
  <1>1. /\ worker.at = "save"
        /\ log' = log /\ acked' = acked /\ session' = session /\ uplink' = uplink
        /\ answers' = answers /\ up' = up /\ queue' = queue
    BY DEF Save, device, network
  <1>2. Shapes /\ table \in [Sequence -> 0 .. 2]
    BY DEF IndInv, Shapes
  <1>3. m \in Batch /\ m \in Carried /\ worker # Resting
    BY <1>1, <1>2, InHand
  <1>4. CASE /\ worker' = Resting /\ table' = table /\ faults' \in 0 .. MaxFaults
    <2>1. Carried' \subseteq Carried
      BY <1>1, <1>4 DEF Carried
    <2>2. Shapes' /\ SavedFirst'
      BY <1>1, <1>2, <1>4 DEF Shapes, SavedFirst, Resting
    <2> QED
      BY <1>1, <1>4, <2>1, <2>2, Frame
  <1>5. CASE /\ Parses(m) /\ ~Collides(m)
             /\ table' = [s \in Sequence |-> IF s \in DOMAIN m.rows /\ table[s] = 0
                                             THEN m.rows[s] ELSE table[s]]
             /\ worker' = [worker EXCEPT !.at = "answer"]
             /\ UNCHANGED faults
    <2>1. /\ worker'.at = "answer" /\ worker'.batch = m
          /\ worker' \in [at : {"save", "answer"}, batch : Batch] /\ worker' # Resting
      <3>1. worker \in [at : {"save", "answer"}, batch : Batch]
        BY <1>2, <1>3 DEF Shapes
      <3> QED
        BY <1>5, <3>1 DEF Resting
    <2>2. Carried' \subseteq Carried
      BY <1>1, <1>3, <2>1 DEF Carried
    <2>3. /\ m.intact /\ DOMAIN m.rows \in SUBSET Sequence
          /\ \A s \in DOMAIN m.rows : m.rows[s] \in {1, 2}
          /\ \A s \in DOMAIN m.rows : table[s] \in {0, m.rows[s]}
      BY <1>3, <1>5, BatchHolds DEF Parses, Collides, IndInv, BytesKnown
    <2>4. \A s \in Sequence : table[s] # 0 => table'[s] = table[s]
      BY <1>5
    <2>5. \A s \in DOMAIN m.rows : table'[s] = m.rows[s]
      BY <1>5, <2>3
    <2>6. table' \in [Sequence -> 0 .. 2]
      <3>1. \A s \in Sequence : (IF s \in DOMAIN m.rows /\ table[s] = 0
                                 THEN m.rows[s] ELSE table[s]) \in 0 .. 2
        BY <1>2, <2>3
      <3> QED
        BY <1>5, <3>1
    <2>7. Shapes'
      BY <1>1, <1>2, <1>5, <2>1, <2>6 DEF Shapes
    <2>8. SavedFirst'
      BY <2>1, <2>3, <2>5 DEF SavedFirst
    <2> QED
      BY <1>1, <2>2, <2>4, <2>7, <2>8, Frame
  <1>6. \/ /\ Parses(m) /\ ~Collides(m)
           /\ table' = [s \in Sequence |-> IF s \in DOMAIN m.rows /\ table[s] = 0
                                           THEN m.rows[s] ELSE table[s]]
           /\ worker' = [worker EXCEPT !.at = "answer"]
           /\ UNCHANGED faults
        \/ worker' = Resting /\ table' = table /\ faults' \in 0 .. MaxFaults
    BY <1>2, FaultType DEF Save, Shapes
  <1> QED
    BY <1>4, <1>5, <1>6

\* The worker answers for the batch it saved, or the publication fails.
LEMMA AnswerStep == IndInv /\ Answer => IndInv'
  <1> SUFFICES ASSUME IndInv, Answer PROVE IndInv'
    OBVIOUS
  <1>1. /\ worker.at = "answer" /\ worker' = Resting
        /\ \/ answers' = answers \cup {[token |-> worker.batch.token, last |-> worker.batch.last]}
           \/ answers' = answers
        /\ log' = log /\ acked' = acked /\ session' = session /\ uplink' = uplink
        /\ up' = up /\ queue' = queue /\ table' = table /\ faults' = faults
    BY DEF Answer, device
  <1>2. Shapes /\ worker.batch \in Batch
    BY <1>1, InHand DEF IndInv
  <1>3. Carried' \subseteq Carried
    BY <1>1 DEF Carried
  <1>4. SavedFirst'
    BY <1>1 DEF SavedFirst, Resting
  <1>5. Shapes'
    <2>1. worker.batch.token \in Tokens /\ worker.batch.last \in Sequence
      BY <1>2, BatchHolds
    <2> QED
      BY <1>1, <1>2, <2>1 DEF Shapes
  <1>6. \A a \in answers' : a \in answers \/ a.token = worker.batch.token
    BY <1>1
  <1> QED
    BY <1>1, <1>3, <1>4, <1>5, <1>6, Frame

\* The collector starts, closes, ends or crashes.
LEMMA LifeStep == IndInv /\ (Start \/ Close \/ Exit \/ Crash) => IndInv'
  <1> SUFFICES ASSUME IndInv, Start \/ Close \/ Exit \/ Crash PROVE IndInv'
    OBVIOUS
  <1>1. Shapes
    BY DEF IndInv
  <1>2. /\ log' = log /\ acked' = acked /\ session' = session /\ uplink' = uplink
        /\ answers' = answers /\ table' = table
        /\ up' \in {"on", "closing", "off"} /\ faults' \in 0 .. MaxFaults
        /\ \/ queue' = queue /\ worker' = worker
           \/ queue' = <<>> /\ worker' = Resting
    BY <1>1, FaultType DEF Start, Close, Exit, Crash, device, network, Shapes
  <1>3. Carried' \subseteq Carried
    BY <1>2 DEF Carried
  <1>4. SavedFirst'
    <2>1. worker' = Resting => SavedFirst'
      BY DEF SavedFirst, Resting
    <2>2. worker' = worker => SavedFirst'
      BY <1>2 DEF IndInv, SavedFirst
    <2> QED
      BY <1>2, <2>1, <2>2
  <1>5. Shapes'
    <2>1. queue' \in Seq(Batch) /\ Len(queue') <= QueueSize
      <3>1. CASE queue' = queue
        BY <1>1, <3>1 DEF Shapes
      <3>2. CASE queue' = <<>>
        <4>1. <<>> \in Seq(Batch) /\ Len(<<>>) = 0
          OBVIOUS
        <4>2. 0 <= QueueSize
          BY IngestAssumption
        <4> QED
          BY <3>2, <4>1, <4>2
      <3> QED
        BY <1>2, <3>1, <3>2
    <2>2. worker' = worker \/ worker' = Resting
      BY <1>2
    <2> QED
      BY <1>1, <1>2, <2>1, <2>2 DEF Shapes
  <1> QED
    BY <1>2, <1>3, <1>4, <1>5, Frame
-----------------------------------------------------------------------------
(* The theorems. *)

\* Nothing is written, sent or stored yet.
LEMMA InitIndInv == Init => IndInv
  <1> SUFFICES ASSUME Init PROVE IndInv
    OBVIOUS
  <1>1. 0 \in 0 .. MaxSeq /\ 0 \in 0 .. MaxFaults /\ 0 <= QueueSize
    BY IngestAssumption
  <1>2. <<>> \in Seq(Batch) /\ Len(<<>>) = 0
    OBVIOUS
  <1>3. Shapes
    BY <1>1, <1>2 DEF Init, Shapes
  <1>4. \A s \in Sequence : ~(s <= 0)
    BY DEF Sequence
  <1>5. LogInOrder /\ AckedIsKept
    BY <1>4 DEF Init, LogInOrder, AckedIsKept
  <1>6. Carried = {}
    BY DEF Init, Carried
  <1>7. BytesKnown /\ SessionWhole /\ TokensExact /\ SavedFirst
    BY <1>6 DEF Init, BytesKnown, SessionWhole, TokensExact, SavedFirst, Resting
  <1> QED
    BY <1>3, <1>5, <1>7 DEF IndInv

\* No step of the device, the broker or the collector breaks the invariant.
LEMMA NextIndInv == IndInv /\ [Next]_vars => IndInv'
  <1> SUFFICES ASSUME IndInv, [Next]_vars PROVE IndInv'
    OBVIOUS
  <1>1. CASE Device
    BY <1>1, LogStep, RenumberStep, SendStep, LossStep, AcceptStep DEF Device
  <1>2. CASE Lose
    BY <1>2, LossStep
  <1>3. CASE Collector
    BY <1>3, SubmitStep, TakeStep, SaveStep, AnswerStep, LifeStep DEF Collector
  <1>4. CASE UNCHANGED vars
    <2>1. /\ log' = log /\ acked' = acked /\ session' = session /\ uplink' = uplink
          /\ answers' = answers /\ up' = up /\ queue' = queue /\ worker' = worker
          /\ table' = table /\ faults' = faults
      BY <1>4 DEF vars, device, network
    <2>2. Carried' = Carried
      BY <2>1 DEF Carried
    <2>3. Shapes' /\ SavedFirst'
      BY <2>1 DEF IndInv, Shapes, SavedFirst
    <2> QED
      BY <2>1, <2>2, <2>3, Frame
  <1> QED
    BY <1>1, <1>2, <1>3, <1>4 DEF Next

\* Every reachable state of device, broker and collector satisfies the invariant.
THEOREM IndInvHolds == Spec => []IndInv
  BY InitIndInv, NextIndInv, PTL DEF Spec

\* What the device may erase is in the table with the bytes the device had.
THEOREM AckedIsKeptHolds == Spec => []AckedIsKept
  <1>1. IndInv => AckedIsKept
    BY DEF IndInv
  <1> QED
    BY <1>1, IndInvHolds, PTL

\* The types, the bound of the queue, and at most one batch of a token.
THEOREM TypeOKHolds == Spec => []TypeOK
  <1>1. IndInv => TypeOK
    BY ShapesType DEF IndInv
  <1> QED
    BY <1>1, IndInvHolds, PTL

-----------------------------------------------------------------------------
(***************************************************************************)
(* The receiver of datagrams and the runtime (UdpReceiver)                 *)
(***************************************************************************)
\* The two threads of a receiver start together; the consumer ends behind the reader
\* with an empty queue.
ThreadsInOrder ==
    \A p \in Receiver!Place :
        /\ rReader[p] = "none" <=> rConsumer[p] = "none"
        /\ rReader[p] = "none" => rQueue[p] = 0
        /\ rDone[p] => rReader[p] = "ended"
        /\ rConsumer[p] = "ended" => rDone[p] /\ rQueue[p] = 0

\* What was replaced is over, and nothing is replaced before it is.
ReplacedIsOver ==
    /\ Receiver!Over(1 - rPresent)
    /\ rMonitor \in {"stopped", "starting"} => Receiver!Over(rPresent)

\* The watcher is gone when the receiver is stopped, and stays away.
StoppedLast ==
    /\ rShutdown \in {"stopping", "finished"} => rMonitor = "ended" /\ rTarget = rPresent
    /\ rShutdown = "finished" => Receiver!Over(rTarget)

\* The inductive invariant of a receiver and the runtime.
ReceiverInv == Receiver!TypeOK /\ ThreadsInOrder /\ ReplacedIsOver /\ StoppedLast

\* It holds when the runtime has started its first receiver.
LEMMA ReceiverInit == Receiver!Init => ReceiverInv
  <1> SUFFICES ASSUME Receiver!Init PROVE ReceiverInv
    OBVIOUS
  <1> USE DEF Receiver!Init
  <1>1. rStop \in [Receiver!Place -> BOOLEAN] /\ rDone \in [Receiver!Place -> BOOLEAN]
    OBVIOUS
  <1>2. /\ rReader \in [Receiver!Place -> {"none", "receiving", "datagram", "ended"}]
        /\ rConsumer \in [Receiver!Place -> {"none", "taking", "storing", "ended"}]
    OBVIOUS
  <1>3. /\ rQueue \in [Receiver!Place -> 0 .. Capacity]
        /\ rOwner \in Receiver!Place \cup {Receiver!NoOne}
    BY CapacityAssumption
  <1>4. Receiver!TypeOK
    BY <1>1, <1>2, <1>3 DEF Receiver!TypeOK, Receiver!Place
  <1>5. ThreadsInOrder
    <2>1. \A p \in Receiver!Place : ~rDone[p]
      OBVIOUS
    <2>2. \A p \in Receiver!Place : rReader[p] = "none" /\ rConsumer[p] = "none" /\ rQueue[p] = 0
      OBVIOUS
    <2> QED BY <2>1, <2>2 DEF ThreadsInOrder
  <1>6. ReplacedIsOver /\ StoppedLast
    BY DEF ReplacedIsOver, StoppedLast, Receiver!Over, Receiver!Place
  <1> QED BY <1>4, <1>5, <1>6 DEF ReceiverInv

\* The two places.
LEMMA OtherPlace ==
    ASSUME NEW p \in Receiver!Place
    PROVE  1 - p \in Receiver!Place /\ 1 - (1 - p) = p /\ p # 1 - p
  BY DEF Receiver!Place

\* Counting up and down keeps a queue within its bound.
LEMMA QueueBound ==
    ASSUME NEW p \in Receiver!Place, rQueue \in [Receiver!Place -> 0 .. Capacity],
           \/ rQueue' = rQueue
           \/ rQueue[p] < Capacity /\ rQueue' = [rQueue EXCEPT ![p] = @ + 1]
           \/ rQueue[p] > 0 /\ rQueue' = [rQueue EXCEPT ![p] = @ - 1]
           \/ rQueue' = [rQueue EXCEPT ![p] = 0]
    PROVE  rQueue' \in [Receiver!Place -> 0 .. Capacity]
  <1>1. rQueue[p] \in 0 .. Capacity
    OBVIOUS
  <1>2. rQueue[p] < Capacity => rQueue[p] + 1 \in 0 .. Capacity
    BY <1>1, CapacityAssumption
  <1>3. rQueue[p] > 0 => rQueue[p] - 1 \in 0 .. Capacity
    BY <1>1, CapacityAssumption
  <1> QED BY <1>2, <1>3, CapacityAssumption

\* A step of a thread: what is over stays so, and the rest of the runtime does not move.
LEMMA ReceiverThreads ==
    ASSUME ReceiverInv, NEW p \in Receiver!Place, Receiver!Reader(p) \/ Receiver!Consumer(p)
    PROVE  ReceiverInv'
  <1> USE DEF ReceiverInv, Receiver!TypeOK, Receiver!Reader, Receiver!Consumer, Receiver!Receive,
          Receiver!Submit, Receiver!ReaderEnds, Receiver!ReaderStops, Receiver!Take,
          Receiver!Store, Receiver!ConsumerEnds, Receiver!runtime
  <1>1. /\ rPresent' = rPresent /\ rMonitor' = rMonitor /\ rKind' = rKind /\ rEnding' = rEnding
        /\ rShutdown' = rShutdown /\ rTarget' = rTarget
    OBVIOUS
  <1>2. rStop' \in [Receiver!Place -> BOOLEAN] /\ rDone' \in [Receiver!Place -> BOOLEAN]
    OBVIOUS
  <1>3. /\ rReader' \in [Receiver!Place -> {"none", "receiving", "datagram", "ended"}]
        /\ rConsumer' \in [Receiver!Place -> {"none", "taking", "storing", "ended"}]
    OBVIOUS
  <1>4. rOwner' \in Receiver!Place \cup {Receiver!NoOne}
    OBVIOUS
  <1>5. rQueue' \in [Receiver!Place -> 0 .. Capacity]
    <2>1. \/ rQueue' = rQueue
          \/ rQueue[p] < Capacity /\ rQueue' = [rQueue EXCEPT ![p] = @ + 1]
          \/ rQueue[p] > 0 /\ rQueue' = [rQueue EXCEPT ![p] = @ - 1]
      OBVIOUS
    <2> QED BY <2>1, QueueBound
  <1>6. ThreadsInOrder'
    <2> SUFFICES ASSUME NEW q \in Receiver!Place
                 PROVE  /\ rReader'[q] = "none" <=> rConsumer'[q] = "none"
                        /\ rReader'[q] = "none" => rQueue'[q] = 0
                        /\ rDone'[q] => rReader'[q] = "ended"
                        /\ rConsumer'[q] = "ended" => rDone'[q] /\ rQueue'[q] = 0
      BY DEF ThreadsInOrder
    <2>1. CASE Receiver!Receive(p)
      BY <2>1 DEF ThreadsInOrder
    <2>2. CASE Receiver!Submit(p)
      BY <2>2 DEF ThreadsInOrder
    <2>3. CASE Receiver!ReaderEnds(p)
      BY <2>3 DEF ThreadsInOrder
    <2>4. CASE Receiver!Take(p)
      BY <2>4 DEF ThreadsInOrder
    <2>5. CASE Receiver!Store(p)
      BY <2>5 DEF ThreadsInOrder
    <2>6. CASE Receiver!ConsumerEnds(p)
      BY <2>6 DEF ThreadsInOrder
    <2> QED BY <2>1, <2>2, <2>3, <2>4, <2>5, <2>6
  <1>7. \A q \in Receiver!Place : Receiver!Over(q) => Receiver!Over(q)'
    BY DEF Receiver!Over
  <1>8. 1 - rPresent \in Receiver!Place
    BY OtherPlace
  <1>9. ReplacedIsOver' /\ StoppedLast'
    <2>1. Receiver!Over(1 - rPresent)'
      BY <1>1, <1>7, <1>8 DEF ReplacedIsOver, Receiver!Over
    <2>2. Receiver!Over(rPresent) => Receiver!Over(rPresent)'
      BY <1>1, <1>7 DEF Receiver!Over
    <2>3. Receiver!Over(rTarget) => Receiver!Over(rTarget)'
      BY <1>1, <1>7 DEF Receiver!Over
    <2> QED BY <1>1, <2>1, <2>2, <2>3 DEF ReplacedIsOver, StoppedLast
  <1>10. Receiver!TypeOK'
    BY <1>1, <1>2, <1>3, <1>4, <1>5
  <1> QED BY <1>6, <1>9, <1>10

\* A step of the watcher or of the shutdown that starts no receiver: at most it marks the
\* present one.
LEMMA ReceiverRuntime ==
    ASSUME ReceiverInv,
           \/ Receiver!Watch \/ Receiver!Decide \/ Receiver!WatcherEnds
           \/ Receiver!Shutdown \/ UNCHANGED Receiver!vars
    PROVE  ReceiverInv'
  <1> USE DEF ReceiverInv, Receiver!TypeOK
  <1>1. /\ rDone' = rDone /\ rReader' = rReader /\ rConsumer' = rConsumer /\ rQueue' = rQueue
        /\ rOwner' = rOwner /\ rKind' = rKind /\ rPresent' = rPresent
        /\ rStop' = rStop \/ rStop' = [rStop EXCEPT ![rPresent] = TRUE]
    BY DEF Receiver!Watch, Receiver!Decide, Receiver!WatcherEnds, Receiver!Shutdown,
           Receiver!StopBegins, Receiver!Joined, Receiver!TimedOut, Receiver!Finished,
           Receiver!Mark, Receiver!vars, Receiver!receiver, Receiver!runtime
  <1>2. /\ rEnding' \in BOOLEAN /\ rTarget' \in Receiver!Place
        /\ rMonitor' \in {"waiting", "stopped", "starting", "ended"}
        /\ rShutdown' \in {"no", "joining", "stopping", "finished", "not finished"}
    BY DEF Receiver!Watch, Receiver!Decide, Receiver!WatcherEnds, Receiver!Shutdown,
           Receiver!StopBegins, Receiver!Joined, Receiver!TimedOut, Receiver!Finished,
           Receiver!vars, Receiver!receiver, Receiver!runtime
  <1>3. rStop' \in [Receiver!Place -> BOOLEAN]
    BY <1>1
  <1>4. Receiver!TypeOK'
    BY <1>1, <1>2, <1>3
  <1>5. ThreadsInOrder'
    BY <1>1 DEF ThreadsInOrder
  <1>6. \A q : Receiver!Over(q)' <=> Receiver!Over(q)
    BY <1>1 DEF Receiver!Over
  <1>7. Receiver!Over(1 - rPresent)'
    BY <1>1 DEF Receiver!Over, ReplacedIsOver
  <1>8. rMonitor' \in {"stopped", "starting"} => Receiver!Over(rPresent)'
    <2>1. rMonitor' \in {"stopped", "starting"} => Receiver!Over(rPresent)
      BY DEF ReplacedIsOver, Receiver!Watch, Receiver!Stopped, Receiver!Decide,
             Receiver!WatcherEnds, Receiver!Shutdown, Receiver!StopBegins, Receiver!Joined,
             Receiver!TimedOut, Receiver!Finished, Receiver!vars, Receiver!runtime
    <2> QED BY <1>1, <2>1 DEF Receiver!Over
  <1>9. rShutdown' \in {"stopping", "finished"} => rMonitor' = "ended" /\ rTarget' = rPresent'
    BY DEF StoppedLast, Receiver!Watch, Receiver!Decide, Receiver!WatcherEnds,
           Receiver!Shutdown, Receiver!StopBegins, Receiver!Joined, Receiver!TimedOut,
           Receiver!Finished, Receiver!vars, Receiver!runtime
  <1>10. rShutdown' = "finished" => Receiver!Over(rTarget)'
    <2>1. rShutdown' = "finished" => Receiver!Over(rTarget) /\ rTarget' = rTarget
      BY DEF StoppedLast, Receiver!Watch, Receiver!Decide, Receiver!WatcherEnds,
             Receiver!Shutdown, Receiver!StopBegins, Receiver!Joined, Receiver!TimedOut,
             Receiver!Finished, Receiver!vars, Receiver!runtime
    <2> QED BY <1>1, <2>1 DEF Receiver!Over
  <1> QED BY <1>4, <1>5, <1>7, <1>8, <1>9, <1>10 DEF ReplacedIsOver, StoppedLast

\* A new receiver takes the place of one that is over, and the present one, which is over
\* as well, becomes the one before.
LEMMA ReceiverStart ==
    ASSUME ReceiverInv, NEW bound \in BOOLEAN, Receiver!Start(bound)
    PROVE  ReceiverInv'
  <1> USE DEF ReceiverInv, Receiver!TypeOK
  <1> DEFINE fresh == 1 - rPresent
  <1>1. /\ fresh \in Receiver!Place /\ rPresent \in Receiver!Place
        /\ 1 - fresh = rPresent /\ rPresent # fresh
    BY OtherPlace
  <1>2. /\ rPresent' = fresh /\ rMonitor' = "waiting" /\ rOwner' = rOwner
        /\ UNCHANGED <<rKind, rEnding, rShutdown, rTarget>>
        /\ rMonitor = "starting"
        /\ rStop' = [rStop EXCEPT ![fresh] = FALSE] /\ rDone' = [rDone EXCEPT ![fresh] = FALSE]
        /\ rReader' = [rReader EXCEPT ![fresh] = IF bound THEN "receiving" ELSE "none"]
        /\ rConsumer' = [rConsumer EXCEPT ![fresh] = IF bound THEN "taking" ELSE "none"]
        /\ rQueue' = [rQueue EXCEPT ![fresh] = 0]
    BY DEF Receiver!Start, Receiver!Fresh
  <1> HIDE DEF fresh
  <1>3. rStop' \in [Receiver!Place -> BOOLEAN] /\ rDone' \in [Receiver!Place -> BOOLEAN]
    BY <1>1, <1>2
  <1>4. /\ rReader' \in [Receiver!Place -> {"none", "receiving", "datagram", "ended"}]
        /\ rConsumer' \in [Receiver!Place -> {"none", "taking", "storing", "ended"}]
    BY <1>1, <1>2
  <1>5. rQueue' \in [Receiver!Place -> 0 .. Capacity]
    BY <1>1, <1>2, QueueBound
  <1>6. Receiver!TypeOK'
    BY <1>1, <1>2, <1>3, <1>4, <1>5
  <1>7. ThreadsInOrder'
    <2> SUFFICES ASSUME NEW q \in Receiver!Place
                 PROVE  /\ rReader'[q] = "none" <=> rConsumer'[q] = "none"
                        /\ rReader'[q] = "none" => rQueue'[q] = 0
                        /\ rDone'[q] => rReader'[q] = "ended"
                        /\ rConsumer'[q] = "ended" => rDone'[q] /\ rQueue'[q] = 0
      BY DEF ThreadsInOrder
    <2>1. CASE q = fresh
      BY <1>1, <1>2, <2>1
    <2>2. CASE q # fresh
      BY <1>1, <1>2, <2>2 DEF ThreadsInOrder
    <2> QED BY <2>1, <2>2
  <1>8. ReplacedIsOver'
    <2>1. Receiver!Over(rPresent)
      BY <1>2 DEF ReplacedIsOver
    <2>2. Receiver!Over(1 - rPresent)'
      BY <1>1, <1>2, <2>1 DEF Receiver!Over
    <2> QED BY <1>2, <2>2 DEF ReplacedIsOver
  <1>9. StoppedLast'
    BY <1>2 DEF StoppedLast
  <1> QED BY <1>6, <1>7, <1>8, <1>9

\* Every reachable state of a receiver and the runtime satisfies the invariant.
THEOREM ReceiverInvHolds == Receiver!Spec => []ReceiverInv
  <1>1. ReceiverInv /\ [Receiver!Next]_(Receiver!vars) => ReceiverInv'
    BY ReceiverThreads, ReceiverRuntime, ReceiverStart DEF Receiver!Next, Receiver!Watcher
  <1> QED BY <1>1, ReceiverInit, PTL DEF Receiver!Spec

\* A stop that says it finished left no thread and no queued datagram of either receiver.
THEOREM FinishedIsOverHolds == Receiver!Spec => []FinishedIsOver
  <1>1. ReceiverInv => FinishedIsOver
    <2> SUFFICES ASSUME ReceiverInv, rShutdown = "finished", NEW p \in Receiver!Place
                 PROVE  Receiver!Over(p) /\ rQueue[p] = 0
      BY DEF ReceiverInv, FinishedIsOver, Receiver!FinishedIsOver
    <2>1. rPresent \in Receiver!Place
      BY DEF ReceiverInv, Receiver!TypeOK
    <2>2. p = rPresent \/ p = 1 - rPresent
      BY <2>1 DEF Receiver!Place
    <2>3. Receiver!Over(p)
      BY <2>2 DEF ReceiverInv, StoppedLast, ReplacedIsOver
    <2>4. rQueue[p] = 0
      BY <2>3 DEF ReceiverInv, ThreadsInOrder, Receiver!Over
    <2> QED BY <2>3, <2>4
  <1> QED BY <1>1, ReceiverInvHolds, PTL

-----------------------------------------------------------------------------
(***************************************************************************)
(* The watch of silent devices (GeneratorWatch)                            *)
(*                                                                         *)
(* Who is blamed was down, because whoever is not down has a line of its   *)
(* own among those still to be read whenever nothing else explains its     *)
(* silence (OwnLine), and that line came within a pause of what explained  *)
(* it before (SoonHeard): read in its turn, it is back before the silence  *)
(* is reported.  Who stays down is reported, because nothing that is       *)
(* measured from is much later than its last line (WhileDark), and every   *)
(* line read looks for all silent devices (SilentIsOut).                   *)
(***************************************************************************)
\* The devices whose silence is looked for, and what a report of it consists of.
Named == Watch!Named
Outages == [macs : SUBSET Named, since : Nat, opened : Nat, back : SUBSET Named, always : BOOLEAN]

\* What the world and the watch consist of.
WatchShapes ==
    /\ gNow \in 1 .. WatchHorizon /\ gDown \subseteq Named /\ gStalled \in BOOLEAN
    /\ gEvents \in 0 .. WatchEvents /\ gServer \in 1 .. 1 + gEvents /\ gBoot \in 0 .. gServer
    /\ gLines \subseteq Watch!Devices \X (1 .. gNow) \X (1 .. gServer)
    /\ gLast \in [Named -> 0 .. gClock] /\ gClock \in 0 .. gNow
    /\ gFirst \in 0 .. gNow /\ gResumed \in 0 .. gNow /\ gBooted \in 0 .. gNow /\ gStarted \in 0 .. gNow
    /\ gSession \in 0 .. 2
    /\ gLastDown \in [Named -> 0 .. gNow] /\ gDark \in [Named -> 0 .. gNow]
    /\ gOpen \subseteq Outages /\ gBlamed \subseteq Outages
    /\ \A o \in gOpen \cup gBlamed :
          /\ o.back \subseteq o.macs /\ o.back # o.macs /\ o.opened <= gNow /\ o.since <= gNow
          /\ o.always \/ o.macs \cap Always = {}

\* No line is later than Late.
LinesInTime == \A k \in gLines : gNow <= k[2] + Late

\* What is known of the server's boot, and what comes with it.
BootKnown ==
    /\ gBoot = 0 => gClock = 0 /\ gResumed = 0 /\ gBooted = 0
    /\ gBoot # 0 => gResumed >= 1
    /\ gClock = 0 => gBooted <= gResumed
    /\ gFirst = 0 <=> gClock = 0

\* No two boots log at one time, and once a boot is known the lines of the boots
\* before it are older than its first event.
BootsApart ==
    /\ \A k \in gLines : k[3] # gServer => k[2] < gNow
    /\ \A k, m \in gLines : k[3] < m[3] => k[2] < m[2]
    /\ gBoot = gServer => \A k \in gLines : k[3] # gServer => k[2] < gBooted

\* Nothing explains yet why no line of the device is newer.
Unheard(d, t) == t > gLast[d] /\ t > gResumed + Late /\ t > gLastDown[d]

\* The device's line of that time is still to be read.
Logged(d, t) == \E k \in gLines : k[1] = d /\ k[2] = t

\* When another device was heard since, the device's own line is still to be read.
OwnLine ==
    gBoot # 0 =>
        \A d \in Named :
            /\ \A k \in gLines : Unheard(d, k[2]) => Logged(d, k[2])
            /\ Unheard(d, gClock) => Logged(d, gClock)

\* And the first such line came within a pause of what explains the silence before.
SoonHeard ==
    gClock # 0 => \A d \in Named : Unheard(d, gClock) =>
        \E k \in gLines : k[1] = d /\ ~Unheard(d, k[2] - Pause)

\* Before the first line is read, with the boot known from a snapshot alone.
SnapshotOnly ==
    gClock = 0 /\ gBoot # 0 =>
        /\ ~gStalled
        /\ \A d \in Named : Unheard(d, gNow) =>
              \/ \E k \in gLines : k[1] = d /\ ~Unheard(d, k[2] - 1)
              \/ gServer > gBoot /\ \A k \in gLines : Unheard(d, k[2]) => k[3] > gBoot

\* While a device has been dark, its own lines are from before, the other devices'
\* lines are read or about to be, and nothing else is measured from much later.
DarkFrom(d) == gNow - gDark[d]

WhileDark == \A d \in Named : gDark[d] > 0 =>
    /\ gLast[d] <= DarkFrom(d) /\ \A k \in gLines : k[1] = d => k[2] <= DarkFrom(d)
    /\ \A t \in DarkFrom(d) + 1 .. gNow : t <= gClock \/ \E k \in gLines : k[2] = t
    /\ gResumed <= DarkFrom(d) + 1 + Late /\ gFirst <= DarkFrom(d) + 1 + Late
    /\ d \notin Always => gStarted <= DarkFrom(d)
    /\ gClock > DarkFrom(d) => gBoot = gServer
    /\ \A k \in gLines : k[2] > DarkFrom(d) => k[3] = gServer
    /\ gBoot # gServer => gBooted <= DarkFrom(d)

\* A device that has not been heard for the whole silence is in an outage.
Silent(d) ==
    /\ gClock - gLast[d] >= Silence /\ gClock - gResumed >= Silence
    /\ gClock - (IF d \in Always THEN gFirst ELSE gStarted) >= Silence

\* And whoever is that silent while its game runs is in an open outage.
SilentIsOut ==
    \A d \in Named : Silent(d) /\ (d \in Always \/ gSession # 0) => \E o \in gOpen : d \in o.macs \ o.back

\* The inductive invariant of the watch.
WatchInv == /\ WatchShapes /\ LinesInTime /\ BootKnown /\ BootsApart /\ OwnLine /\ SoonHeard
            /\ SnapshotOnly /\ WhileDark /\ SilentIsOut /\ Watch!OnlyTheDown

-----------------------------------------------------------------------------
\* What the assumptions say of the numbers.
LEMMA WatchNumbers ==
    /\ Silence \in Nat /\ Pause \in Nat /\ Late \in Nat /\ Late < Pause
    /\ Watch!NearWindow \in Nat /\ Silence - Watch!NearWindow > Pause + Late
    /\ Silence > Pause + Late + Late
  <1> DEFINE Half == Silence \div 2
  <1>1. Half \in Nat /\ 2 * Half <= Silence /\ Pause + Late < Half
    BY WatchAssumption
  <1>2. Watch!NearWindow = IF GroupWindow < Half THEN GroupWindow ELSE Half
    BY DEF Watch!NearWindow
  <1> HIDE DEF Half
  <1> QED BY <1>1, <1>2, WatchAssumption

\* The newest of three times.
LEMMA NewestOfThree ==
    ASSUME NEW a \in Int, NEW b \in Int, NEW c \in Int
    PROVE  /\ Watch!Max({a, b, c}) \in {a, b, c} /\ Watch!Max({a, b, c}) >= a
           /\ Watch!Max({a, b, c}) >= b /\ Watch!Max({a, b, c}) >= c
  <1>1. \E m \in {a, b, c} : \A y \in {a, b, c} : m >= y
    <2>1. CASE a >= b /\ a >= c BY <2>1
    <2>2. CASE b >= a /\ b >= c BY <2>2
    <2>3. CASE c >= b /\ c >= a BY <2>3
    <2> QED BY <2>1, <2>2, <2>3
  <1> QED BY <1>1 DEF Watch!Max

\* The oldest of some times is one of them.
LEMMA OldestOfSome == ASSUME NEW S, S \subseteq Nat, S # {} PROVE Watch!Min(S) \in S
  <1> QED BY MinNat DEF Min, Watch!Min

\* The first state.
LEMMA WatchInit == Watch!Init => WatchInv
  <1> SUFFICES ASSUME Watch!Init PROVE WatchInv
    OBVIOUS
  <1>1. /\ gNow = 1 /\ gDown = {} /\ gStalled = FALSE /\ gServer = 1 /\ gLines = {} /\ gEvents = 0
        /\ gLast = [d \in Named |-> 0] /\ gLastDown = [d \in Named |-> 0] /\ gDark = [d \in Named |-> 0]
        /\ gClock = 0 /\ gFirst = 0 /\ gResumed = 0 /\ gBoot = 0 /\ gBooted = 0
        /\ gSession = 0 /\ gStarted = 0 /\ gOpen = {} /\ gBlamed = {}
    BY DEF Watch!Init, Named
  <1>2. WatchShapes
    <2>1. /\ gLast \in [Named -> 0 .. gClock] /\ gLastDown \in [Named -> 0 .. gNow]
          /\ gDark \in [Named -> 0 .. gNow]
      BY <1>1
    <2>2. gNow \in 1 .. WatchHorizon /\ gEvents \in 0 .. WatchEvents
      <3>1. WatchHorizon \in Nat /\ WatchHorizon >= 1 /\ WatchEvents \in Nat
        BY WatchAssumption
      <3> QED BY <1>1, <3>1
    <2>3. /\ gServer \in 1 .. 1 + gEvents /\ gBoot \in 0 .. gServer /\ gClock \in 0 .. gNow
          /\ gFirst \in 0 .. gNow /\ gResumed \in 0 .. gNow /\ gBooted \in 0 .. gNow
          /\ gStarted \in 0 .. gNow /\ gSession \in 0 .. 2
      BY <1>1
    <2>4. gStalled \in BOOLEAN /\ gDown \subseteq Named /\ gLines = {} /\ gOpen = {} /\ gBlamed = {}
      BY <1>1
    <2> QED BY <2>1, <2>2, <2>3, <2>4 DEF WatchShapes
  <1>3. SilentIsOut
    <2>1. \A d \in Named : gClock - gLast[d] = 0
      BY <1>1
    <2>2. Silence > 0
      BY WatchNumbers
    <2> QED BY <2>1, <2>2, WatchNumbers DEF SilentIsOut, Silent
  <1> QED BY <1>1, <1>2, <1>3 DEF WatchInv, LinesInTime, BootKnown, BootsApart, OwnLine, SoonHeard,
             SnapshotOnly, WhileDark, Watch!OnlyTheDown

\* The invariant implies the property and its module's types.
LEMMA WatchTypes == WatchInv => BlamesRight
  <1> SUFFICES ASSUME WatchInv PROVE BlamesRight
    OBVIOUS
  <1> USE DEF Named
  <1>1. Watch!TypeOK
    <2>1. /\ gNow \in 1 .. WatchHorizon /\ gDown \subseteq Named /\ gStalled \in BOOLEAN
          /\ gServer \in 1 .. 1 + WatchEvents /\ gBoot \in 0 .. gServer
          /\ gLines \subseteq Watch!Devices \X (1 .. gNow) \X (1 .. gServer)
          /\ gEvents \in 0 .. WatchEvents
      BY WatchAssumption DEF WatchInv, WatchShapes
    <2>2. /\ gLast \in [Named -> 0 .. gClock] /\ gClock \in 0 .. gNow /\ gSession \in 0 .. 2
          /\ gLastDown \in [Named -> 0 .. gNow] /\ gDark \in [Named -> 0 .. gNow]
          /\ {gFirst, gResumed, gBooted, gStarted} \subseteq 0 .. gNow
      BY DEF WatchInv, WatchShapes
    <2>3. \A o \in gOpen \cup gBlamed :
             /\ o.back \subseteq o.macs /\ o.back # o.macs /\ o.macs \subseteq Named
             /\ o.opened \in 0 .. gNow /\ o.always \in BOOLEAN
      BY DEF WatchInv, WatchShapes, Outages
    <2> QED BY <2>1, <2>2, <2>3 DEF Watch!TypeOK
  <1>2. Watch!NobodyMissed
    <2> SUFFICES ASSUME NEW d \in Named, gDark[d] > Silence + 2 * Late + 1,
                        d \in Always \/ gSession # 0
                 PROVE  \E o \in gOpen : d \in o.macs \ o.back
      BY DEF Watch!NobodyMissed
    <2>1. /\ gDark[d] \in Nat /\ gNow \in Nat /\ gClock \in Nat /\ gResumed \in Nat /\ gFirst \in Nat
          /\ gStarted \in Nat /\ gLast[d] \in Nat /\ Silence \in Nat /\ Late \in Nat
          /\ \A k \in gLines : k[2] \in Nat
      BY WatchNumbers DEF WatchInv, WatchShapes
    <2>2. /\ gLast[d] <= DarkFrom(d) /\ gResumed <= DarkFrom(d) + 1 + Late /\ gFirst <= DarkFrom(d) + 1 + Late
          /\ d \notin Always => gStarted <= DarkFrom(d)
          /\ \A t \in DarkFrom(d) + 1 .. gNow : t <= gClock \/ \E k \in gLines : k[2] = t
      BY <2>1 DEF WatchInv, WhileDark
    <2>3. gClock >= gNow - Late - 1
      <3>1. gNow - Late - 1 \in DarkFrom(d) + 1 .. gNow
        BY <2>1 DEF DarkFrom
      <3> QED BY <2>1, <2>2, <3>1 DEF WatchInv, LinesInTime
    <2>4. Silent(d)
      BY <2>1, <2>2, <2>3 DEF Silent, DarkFrom
    <2> QED BY <2>4 DEF WatchInv, SilentIsOut
  <1> QED BY <1>1, <1>2 DEF WatchInv, BlamesRight


\* The invariant's numbers are numbers.
LEMMA WatchNats ==
    ASSUME WatchInv
    PROVE  /\ gNow \in Nat /\ gClock \in Nat /\ gFirst \in Nat /\ gResumed \in Nat /\ gBooted \in Nat
           /\ gStarted \in Nat /\ gServer \in Nat /\ gBoot \in Nat /\ gNow >= 1 /\ gServer >= 1
           /\ gClock <= gNow /\ gFirst <= gNow /\ gResumed <= gNow /\ gBooted <= gNow /\ gStarted <= gNow
           /\ gBoot <= gServer
           /\ \A d \in Named : /\ gLast[d] \in Nat /\ gLastDown[d] \in Nat /\ gDark[d] \in Nat
                               /\ gLast[d] <= gClock /\ gLastDown[d] <= gNow /\ gDark[d] <= gNow
           /\ \A k \in gLines : /\ k[2] \in Nat /\ k[3] \in Nat /\ k[2] <= gNow /\ k[3] <= gServer
                                /\ k[2] >= 1 /\ k[3] >= 1 /\ gNow <= k[2] + Late
  BY DEF WatchInv, WatchShapes, LinesInTime

-----------------------------------------------------------------------------
\* What a step of time does.
LEMMA TimePasses ==
    ASSUME WatchInv, Watch!Tick \/ Watch!Reboot
    PROVE  /\ gNow' = gNow + 1 /\ gNow' \in 1 .. WatchHorizon
           /\ UNCHANGED <<gDown, gStalled, gLast, gClock, gFirst, gResumed, gBoot, gBooted, gSession,
                          gStarted, gOpen, gBlamed>>
           /\ gLastDown' = [d \in Named |-> IF d \in gDown THEN gNow + 1 ELSE gLastDown[d]]
           /\ gLines \subseteq gLines' /\ \A k \in gLines : gNow - k[2] < Late
           /\ \A k \in gLines' : k \in gLines \/
                 /\ k \in Watch!Devices \X {gNow + 1} \X {gServer}
                 /\ gServer' = gServer /\ ~gStalled /\ k[1] \notin gDown
           /\ gServer' = gServer /\ ~gStalled => \A d \in Named \ gDown : \E k \in gLines' : k[1] = d /\ k[2] = gNow + 1
           /\ \/ gServer' = gServer /\ gEvents' = gEvents
              \/ gServer' = gServer + 1 /\ gLines' = gLines /\ gEvents' = gEvents + 1 /\ gEvents < WatchEvents
           /\ DOMAIN gDark' = Named /\ gDark' = [d \in Named |-> gDark'[d]]
           /\ \A d \in Named :
                 \/ gDark'[d] = 0
                 \/ /\ gDark'[d] = gDark[d] + 1 /\ d \in gDown /\ gServer' = gServer
                    /\ \E k \in gLines' : k[2] = gNow + 1
  <1> USE DEF Named
  <1>1. CASE Watch!Tick
    <2>1. /\ gNow' = gNow + 1 /\ gNow < WatchHorizon /\ \A k \in gLines : gNow - k[2] < Late
          /\ UNCHANGED <<gDown, gStalled, gServer, gEvents>>
          /\ UNCHANGED <<gLast, gClock, gFirst, gResumed, gBoot, gBooted, gSession, gStarted, gOpen, gBlamed>>
          /\ gLastDown' = [d \in Named |-> IF d \in gDown THEN gNow + 1 ELSE gLastDown[d]]
          /\ gLines' = gLines \cup (IF gStalled THEN {}
                                    ELSE {<<d, gNow + 1, gServer>> : d \in Watch!Devices \ gDown})
          /\ gDark' = [d \in Named |-> IF d \in gDown /\ ~gStalled /\ Watch!Devices \ gDown # {}
                                       THEN gDark[d] + 1 ELSE 0]
      BY <1>1 DEF Watch!Tick, Watch!Passes, Watch!watch
    <2>2. \A k \in gLines' : k \in gLines \/
             /\ k \in Watch!Devices \X {gNow + 1} \X {gServer} /\ ~gStalled /\ k[1] \notin gDown
      BY <2>1
    <2>3. ~gStalled => \A d \in Watch!Devices \ gDown : <<d, gNow + 1, gServer>> \in gLines'
      BY <2>1
    <2>4. ~gStalled => \A d \in Watch!Devices \ gDown : \E k \in gLines' : k[1] = d /\ k[2] = gNow + 1
      BY <2>3
    <2>5. gNow' \in 1 .. WatchHorizon
      BY <2>1, WatchNats, WatchAssumption
    <2>6. \A d \in Named \ gDown : d \in Watch!Devices \ gDown
      BY DEF Watch!Devices
    <2>7. \A d \in Named : \/ gDark'[d] = 0
                           \/ gDark'[d] = gDark[d] + 1 /\ d \in gDown /\ \E k \in gLines' : k[2] = gNow + 1
      BY <2>1, <2>4
    <2>8. DOMAIN gDark' = Named /\ gDark' = [d \in Named |-> gDark'[d]]
      BY <2>1
    <2> QED BY <2>1, <2>2, <2>4, <2>5, <2>6, <2>7, <2>8
  <1>2. CASE Watch!Reboot
    <2>1. /\ gNow' = gNow + 1 /\ gNow < WatchHorizon /\ \A k \in gLines : gNow - k[2] < Late
          /\ UNCHANGED <<gDown, gStalled, gLines>>
          /\ UNCHANGED <<gLast, gClock, gFirst, gResumed, gBoot, gBooted, gSession, gStarted, gOpen, gBlamed>>
          /\ gLastDown' = [d \in Named |-> IF d \in gDown THEN gNow + 1 ELSE gLastDown[d]]
          /\ gServer' = gServer + 1 /\ gEvents' = gEvents + 1 /\ gEvents < WatchEvents
          /\ gDark' = [d \in Named |-> 0]
      BY <1>2 DEF Watch!Reboot, Watch!Passes, Watch!Event, Watch!watch
    <2>2. gNow' \in 1 .. WatchHorizon /\ gServer' # gServer
      BY <2>1, WatchNats, WatchAssumption
    <2> QED BY <2>1, <2>2
  <1> QED BY <1>1, <1>2

\* The invariant is kept when time passes, and when the server restarts meanwhile.
LEMMA WatchTimePasses == ASSUME WatchInv, Watch!Tick \/ Watch!Reboot PROVE WatchInv'
  <1>1. /\ gNow' = gNow + 1 /\ gNow' \in 1 .. WatchHorizon
        /\ UNCHANGED <<gDown, gStalled, gLast, gClock, gFirst, gResumed, gBoot, gBooted, gSession,
                       gStarted, gOpen, gBlamed>>
        /\ gLastDown' = [d \in Named |-> IF d \in gDown THEN gNow + 1 ELSE gLastDown[d]]
    BY TimePasses
  <1>2. /\ gLines \subseteq gLines' /\ \A k \in gLines : gNow - k[2] < Late
        /\ \A k \in gLines' : k \in gLines \/
              /\ k \in Watch!Devices \X {gNow + 1} \X {gServer} /\ k[1] \notin gDown
              /\ gServer' = gServer /\ ~gStalled
        /\ gServer' = gServer /\ ~gStalled => \A d \in Named \ gDown : Logged(d, gNow)'
    BY TimePasses DEF Logged
  <1>3. \/ gServer' = gServer /\ gEvents' = gEvents
        \/ gServer' = gServer + 1 /\ gLines' = gLines /\ gEvents' = gEvents + 1 /\ gEvents < WatchEvents
    BY TimePasses
  <1>4. /\ DOMAIN gDark' = Named /\ gDark' = [d \in Named |-> gDark'[d]]
        /\ \A d \in Named : \/ gDark'[d] = 0
                            \/ /\ gDark'[d] = gDark[d] + 1 /\ d \in gDown /\ gServer' = gServer
                               /\ \E k \in gLines' : k[2] = gNow + 1
    BY TimePasses
  <1>5. \A d \in Named : gLastDown'[d] = IF d \in gDown THEN gNow + 1 ELSE gLastDown[d]
    BY <1>1
  <1>6. \A d \in Named : \A t \in Int : /\ Unheard(d, t)' => Unheard(d, t)
                                        /\ d \in gDown /\ t <= gNow + 1 => ~Unheard(d, t)'
                                        /\ d \notin gDown /\ Unheard(d, t) => Unheard(d, t)'
    BY <1>1, <1>5, WatchNats DEF Unheard
  <1>7. \A d \in Named : \A t : Logged(d, t) => Logged(d, t)'
    BY <1>2 DEF Logged
  <1>8. \A k \in gLines' : \/ k \in gLines
                           \/ k[2] = gNow + 1 /\ k[3] = gServer /\ gServer' = gServer
    BY <1>2
  <1>9. WatchShapes'
    <2>1. gLastDown' \in [Named -> 0 .. gNow'] /\ gDark' \in [Named -> 0 .. gNow']
      BY <1>1, <1>4, <1>5, WatchNats
    <2>2. gEvents' \in 0 .. WatchEvents /\ gServer' \in 1 .. 1 + gEvents' /\ gBoot' \in 0 .. gServer'
      BY <1>1, <1>3, WatchNats, WatchAssumption DEF WatchInv, WatchShapes
    <2>3. gLines' \subseteq Watch!Devices \X (1 .. gNow') \X (1 .. gServer')
      BY <1>1, <1>2, <1>3, WatchNats DEF WatchInv, WatchShapes
    <2>4. gLast' \in [Named -> 0 .. gClock'] /\ gDown' \subseteq Named /\ gStalled' \in BOOLEAN /\ gSession' \in 0 .. 2
      BY <1>1 DEF WatchInv, WatchShapes
    <2>5. /\ gClock' \in 0 .. gNow' /\ gFirst' \in 0 .. gNow' /\ gResumed' \in 0 .. gNow'
          /\ gBooted' \in 0 .. gNow' /\ gStarted' \in 0 .. gNow'
      BY <1>1, WatchNats
    <2>6. /\ gOpen' \subseteq Outages /\ gBlamed' \subseteq Outages
          /\ \A o \in gOpen' \cup gBlamed' :
                /\ o.back \subseteq o.macs /\ o.back # o.macs /\ o.opened <= gNow' /\ o.since <= gNow'
                /\ o.always \/ o.macs \cap Always = {}
      <3>1. \A o \in Outages : o.opened \in Nat /\ o.since \in Nat
        BY DEF Outages
      <3> QED BY <1>1, <3>1, WatchNats DEF WatchInv, WatchShapes
    <2> QED BY <1>1, <2>1, <2>2, <2>3, <2>4, <2>5, <2>6 DEF WatchShapes
  <1>10. LinesInTime' /\ BootKnown'
    BY <1>1, <1>2, <1>8, WatchNats, WatchNumbers DEF WatchInv, LinesInTime, BootKnown
  <1>11. BootsApart'
    BY <1>1, <1>3, <1>8, WatchNats DEF WatchInv, BootsApart
  <1>12. OwnLine'
    <2> SUFFICES ASSUME gBoot # 0, NEW d \in Named
                 PROVE  /\ \A k \in gLines' : Unheard(d, k[2])' => Logged(d, k[2])'
                        /\ Unheard(d, gClock)' => Logged(d, gClock)'
      BY <1>1 DEF OwnLine
    <2>1. ASSUME NEW k \in gLines', Unheard(d, k[2])' PROVE Logged(d, k[2])'
      <3>1. CASE k \in gLines
        BY <2>1, <3>1, <1>6, <1>7, WatchNats DEF WatchInv, OwnLine
      <3>2. CASE k \notin gLines
        <4>1. k[2] = gNow' /\ k[2] \in Int /\ k[2] = gNow + 1 /\ gServer' = gServer /\ ~gStalled
          BY <1>1, <1>2, <1>8, <3>2, WatchNats
        <4>2. d \notin gDown
          BY <1>6, <2>1, <4>1
        <4> QED BY <1>2, <4>1, <4>2 DEF Logged
      <3> QED BY <3>1, <3>2
    <2>2. Unheard(d, gClock)' => Logged(d, gClock)'
      <3>1. Unheard(d, gClock)' => Unheard(d, gClock)
        BY <1>1, <1>5, WatchNats, WatchNumbers DEF Unheard
      <3> QED BY <1>1, <1>2, <3>1 DEF WatchInv, OwnLine, Logged
    <2> QED BY <2>1, <2>2
  <1>13. SoonHeard'
    <2> SUFFICES ASSUME gClock # 0, NEW d \in Named, Unheard(d, gClock)'
                 PROVE  \E k \in gLines' : k[1] = d /\ ~Unheard(d, k[2] - Pause)'
      BY <1>1 DEF SoonHeard
    <2>1. Unheard(d, gClock)
      BY <1>1, <1>5, WatchNats DEF Unheard
    <2>2. PICK k \in gLines : k[1] = d /\ ~Unheard(d, k[2] - Pause)
      BY <2>1 DEF WatchInv, SoonHeard
    <2>3. k[2] - Pause \in Int
      BY WatchNats, WatchNumbers
    <2> QED BY <1>2, <1>6, <2>2, <2>3
  <1>14. SnapshotOnly'
    <2> SUFFICES ASSUME gClock = 0, gBoot # 0
                 PROVE  /\ ~gStalled
                        /\ \A d \in Named : Unheard(d, gNow)' =>
                              \/ \E k \in gLines' : k[1] = d /\ ~Unheard(d, k[2] - 1)'
                              \/ gServer' > gBoot /\ \A k \in gLines' : Unheard(d, k[2])' => k[3] > gBoot
      BY <1>1 DEF SnapshotOnly
    <2>1. ~gStalled
      BY DEF WatchInv, SnapshotOnly
    <2> SUFFICES ASSUME NEW d \in Named, Unheard(d, gNow)'
                 PROVE  \/ \E k \in gLines' : k[1] = d /\ ~Unheard(d, k[2] - 1)'
                        \/ gServer' > gBoot /\ \A k \in gLines' : Unheard(d, k[2])' => k[3] > gBoot
      BY <2>1
    <2>2. d \notin gDown
      BY <1>1, <1>5, WatchNats DEF Unheard
    <2>3. CASE Unheard(d, gNow)
      <3>1. CASE \E k \in gLines : k[1] = d /\ ~Unheard(d, k[2] - 1)
        BY <1>2, <1>6, <3>1, WatchNats
      <3>2. CASE gServer > gBoot /\ \A k \in gLines : Unheard(d, k[2]) => k[3] > gBoot
        BY <1>3, <1>6, <1>8, <3>2, WatchNats
      <3> QED BY <2>3, <3>1, <3>2 DEF WatchInv, SnapshotOnly
    <2>4. CASE ~Unheard(d, gNow)
      <3>1. CASE gServer' = gServer
        <4>1. PICK k \in gLines' : k[1] = d /\ k[2] = gNow + 1
          BY <1>1, <1>2, <2>1, <2>2, <3>1 DEF Logged
        <4>2. k[2] - 1 = gNow /\ ~Unheard(d, k[2] - 1)'
          BY <1>6, <2>4, <4>1, WatchNats
        <4> QED BY <4>1, <4>2
      <3>2. CASE gServer' # gServer
        <4>1. gLines' = gLines /\ gServer' > gBoot
          BY <1>3, <3>2, WatchNats
        <4>2. \A k \in gLines : ~Unheard(d, k[2])
          BY <2>4, WatchNats, WatchNumbers DEF Unheard
        <4> QED BY <1>6, <4>1, <4>2, WatchNats
      <3> QED BY <3>1, <3>2
    <2> QED BY <2>3, <2>4
  <1>15. WhileDark'
    <2> SUFFICES ASSUME NEW d \in Named, gDark'[d] > 0
                 PROVE  /\ gLast[d] <= DarkFrom(d)' /\ \A k \in gLines' : k[1] = d => k[2] <= DarkFrom(d)'
                        /\ \A t \in DarkFrom(d)' + 1 .. gNow' : t <= gClock \/ \E k \in gLines' : k[2] = t
                        /\ gResumed <= DarkFrom(d)' + 1 + Late /\ gFirst <= DarkFrom(d)' + 1 + Late
                        /\ d \notin Always => gStarted <= DarkFrom(d)'
                        /\ gClock > DarkFrom(d)' => gBoot = gServer'
                        /\ \A k \in gLines' : k[2] > DarkFrom(d)' => k[3] = gServer'
                        /\ gBoot # gServer' => gBooted <= DarkFrom(d)'
      BY <1>1 DEF WhileDark
    <2>1. gDark'[d] = gDark[d] + 1 /\ d \in gDown /\ gServer' = gServer /\ \E k \in gLines' : k[2] = gNow + 1
      BY <1>4
    <2>2. DarkFrom(d)' = DarkFrom(d) /\ DarkFrom(d) \in Int /\ DarkFrom(d) <= gNow
      BY <1>1, <2>1, WatchNats DEF DarkFrom
    <2>3. \A k \in gLines' : k[1] = d => k \in gLines
      BY <1>2, <2>1
    <2>4. CASE gDark[d] > 0
      <3>1. \A t \in DarkFrom(d)' + 1 .. gNow' : t <= gClock \/ \E k \in gLines' : k[2] = t
        BY <1>1, <1>2, <2>1, <2>2, <2>4, WatchNats DEF WatchInv, WhileDark
      <3> QED BY <1>8, <2>1, <2>2, <2>3, <2>4, <3>1, WatchNats DEF WatchInv, WhileDark
    <2>5. CASE gDark[d] = 0
      <3>1. DarkFrom(d) = gNow
        BY <2>5, WatchNats DEF DarkFrom
      <3>2. gLast[d] <= gNow /\ gLast[d] \in Nat
        BY WatchNats
      <3> QED BY <1>1, <1>8, <2>1, <2>2, <2>3, <3>1, <3>2, WatchNats, WatchNumbers
    <2> QED BY <2>4, <2>5, WatchNats
  <1>16. SilentIsOut' /\ Watch!OnlyTheDown'
    <2>1. SilentIsOut'
      BY <1>1 DEF WatchInv, SilentIsOut, Silent
    <2>2. Watch!OnlyTheDown'
      <3> SUFFICES ASSUME NEW o \in gBlamed, NEW d \in o.macs
                   PROVE  gLastDown'[d] # 0 /\ o.opened - gLastDown'[d] <= Pause + Late
        BY <1>1 DEF Watch!OnlyTheDown
      <3>1. /\ d \in Named /\ o.opened \in Nat /\ o.opened <= gNow
            /\ gLastDown[d] # 0 /\ o.opened - gLastDown[d] <= Pause + Late
        BY DEF WatchInv, WatchShapes, Outages, Watch!OnlyTheDown
      <3> QED BY <1>5, <3>1, WatchNats, WatchNumbers
    <2> QED BY <2>1, <2>2
  <1> QED BY <1>9, <1>10, <1>11, <1>12, <1>13, <1>14, <1>15, <1>16 DEF WatchInv


-----------------------------------------------------------------------------
\* A device fails or returns, the server stalls or goes on, or nothing happens.
LEMMA WatchQuiet ==
    ASSUME WatchInv,
           UNCHANGED <<gNow, gServer, gLines, gLast, gClock, gFirst, gResumed, gBoot, gBooted, gSession,
                       gStarted, gOpen, gLastDown, gDark, gBlamed>>,
           gDown' \subseteq Named, gStalled' \in BOOLEAN,
           gEvents' \in Nat, gEvents <= gEvents', gEvents' <= WatchEvents,
           gStalled' => gStalled \/ gClock # 0
    PROVE  WatchInv'
  <1>1. WatchShapes'
    <2>1. gEvents \in Nat /\ WatchEvents \in Nat /\ gServer \in Nat /\ 1 <= gServer /\ gServer <= 1 + gEvents
      BY WatchAssumption DEF WatchInv, WatchShapes
    <2>2. gEvents' \in 0 .. WatchEvents
      BY <2>1
    <2>3. gServer' \in 1 .. 1 + gEvents'
      <3>1. PICK n \in Nat : gEvents' = n /\ gEvents <= n
        OBVIOUS
      <3>2. gServer \in 1 .. 1 + n
        BY <2>1, <3>1
      <3> QED BY <3>1, <3>2
    <2> QED BY <2>2, <2>3 DEF WatchInv, WatchShapes
  <1>2. SnapshotOnly'
    BY DEF WatchInv, SnapshotOnly, Unheard
  <1> QED BY <1>1, <1>2 DEF WatchInv, LinesInTime, BootKnown, BootsApart, OwnLine, SoonHeard, Unheard, Logged,
             WhileDark, DarkFrom, SilentIsOut, Silent, Watch!OnlyTheDown

\* So it is when a device stops or sends again, and when the server stalls or goes on.
LEMMA WatchWorld ==
    ASSUME WatchInv, (\E d \in Named : Watch!Fail(d) \/ Watch!Return(d)) \/ Watch!Stall
    PROVE  WatchInv'
  <1>1. /\ gEvents \in Nat /\ gEvents <= WatchEvents /\ WatchEvents \in Nat
        /\ gDown \subseteq Named /\ gStalled \in BOOLEAN
    BY WatchAssumption DEF WatchInv, WatchShapes
  <1>2. CASE \E d \in Named : Watch!Fail(d) \/ Watch!Return(d)
    <2>1. /\ UNCHANGED <<gNow, gServer, gLines, gLastDown, gDark, gStalled>> /\ UNCHANGED Watch!watch
          /\ gEvents < WatchEvents /\ gEvents' = gEvents + 1 /\ gDown' \subseteq Named
      BY <1>1, <1>2 DEF Watch!Fail, Watch!Return, Watch!Event
    <2> QED BY <1>1, <2>1, WatchQuiet DEF Watch!watch
  <1>3. CASE Watch!Stall
    <2>1. /\ UNCHANGED <<gNow, gServer, gLines, gLastDown, gDark, gDown>> /\ UNCHANGED Watch!watch
          /\ gStalled' = ~gStalled
          /\ IF gStalled THEN gEvents' = gEvents ELSE gClock # 0 /\ gEvents < WatchEvents /\ gEvents' = gEvents + 1
      BY <1>3 DEF Watch!Stall, Watch!Event
    <2>2. gEvents' \in Nat /\ gEvents <= gEvents' /\ gEvents' <= WatchEvents
      BY <1>1, <2>1
    <2>3. gStalled' \in BOOLEAN /\ (gStalled' => gStalled \/ gClock # 0)
      BY <2>1
    <2>4. UNCHANGED <<gLast, gClock, gFirst, gResumed, gBoot, gBooted, gSession, gStarted, gOpen, gBlamed>>
      BY <2>1 DEF Watch!watch
    <2> QED BY <1>1, <2>1, <2>2, <2>3, <2>4, WatchQuiet
  <1> QED BY <1>2, <1>3

-----------------------------------------------------------------------------
\* A snapshot: what is not of the server's boot is measured from now.
LEMMA WatchGame == ASSUME WatchInv, NEW s \in 0 .. 2, Watch!Game(s) PROVE WatchInv'
  <1>1. /\ gEvents < WatchEvents /\ gEvents' = gEvents + 1 /\ ~gStalled
        /\ gSession' = s /\ gStarted' \in {0, gNow} /\ (s # 0 => gStarted' = gNow)
        /\ UNCHANGED <<gNow, gDown, gStalled, gServer, gLines, gLastDown, gLast, gClock, gFirst>>
        /\ gOpen' = Watch!Ongoing(gOpen) /\ gBlamed' = {}
        /\ gDark' = [d \in Named |-> IF d \in Always THEN gDark[d] ELSE 0]
    BY DEF Watch!Game, Watch!Event, Named
  <1>2. /\ gBoot' = gServer
        /\ gBooted' = (IF gServer # gBoot THEN gNow ELSE gBooted)
        /\ gResumed' = (IF gServer # gBoot THEN gNow ELSE gResumed)
    BY WatchNats DEF Watch!Game, Watch!Heard, Watch!ResumedBy, Watch!NewBoot
  <1>3. \A d \in Named : gDark'[d] = 0 \/ (d \in Always /\ gDark'[d] = gDark[d])
    BY <1>1
  <1>4. gOpen' \subseteq gOpen /\ \A o \in gOpen : o.always => o \in gOpen'
    BY <1>1 DEF Watch!Ongoing
  <1>5. \A d \in Named : \A t \in Int : /\ Unheard(d, t)' => Unheard(d, t)
                                        /\ Unheard(d, t)' => gServer = gBoot \/ t > gNow + Late
    BY <1>1, <1>2, WatchNats, WatchNumbers DEF Unheard
  <1>6. gServer = gBoot => \A d \in Named : \A t : Unheard(d, t)' = Unheard(d, t)
    BY <1>1, <1>2 DEF Unheard
  <1>7. WatchShapes'
    <2>1. gDark' \in [Named -> 0 .. gNow'] /\ gLastDown' \in [Named -> 0 .. gNow']
      BY <1>1, WatchNats DEF WatchInv, WatchShapes
    <2>2. gEvents' \in 0 .. WatchEvents /\ gServer' \in 1 .. 1 + gEvents' /\ gBoot' \in 0 .. gServer'
      BY <1>1, <1>2, WatchAssumption DEF WatchInv, WatchShapes
    <2>3. /\ gResumed' \in 0 .. gNow' /\ gBooted' \in 0 .. gNow' /\ gStarted' \in 0 .. gNow'
      BY <1>1, <1>2, WatchNats
    <2>4. /\ gNow' \in 1 .. WatchHorizon /\ gDown' \subseteq Named /\ gStalled' \in BOOLEAN
          /\ gLines' \subseteq Watch!Devices \X (1 .. gNow') \X (1 .. gServer') /\ gSession' \in 0 .. 2
          /\ gLast' \in [Named -> 0 .. gClock'] /\ gClock' \in 0 .. gNow' /\ gFirst' \in 0 .. gNow'
      BY <1>1 DEF WatchInv, WatchShapes
    <2>5. /\ gOpen' \subseteq Outages /\ gBlamed' \subseteq Outages
          /\ \A o \in gOpen' \cup gBlamed' :
                /\ o.back \subseteq o.macs /\ o.back # o.macs /\ o.opened <= gNow' /\ o.since <= gNow'
                /\ o.always \/ o.macs \cap Always = {}
      BY <1>1, <1>4 DEF WatchInv, WatchShapes
    <2> QED BY <2>1, <2>2, <2>3, <2>4, <2>5 DEF WatchShapes
  <1>8. LinesInTime' /\ BootKnown'
    BY <1>1, <1>2, WatchNats DEF WatchInv, LinesInTime, BootKnown
  <1>9. BootsApart'
    BY <1>1, <1>2 DEF WatchInv, BootsApart
  <1>10. OwnLine'
    <2> SUFFICES ASSUME NEW d \in Named
                 PROVE  /\ \A k \in gLines : Unheard(d, k[2])' => Logged(d, k[2])
                        /\ Unheard(d, gClock)' => Logged(d, gClock)
      BY <1>1 DEF OwnLine, Logged
    <2>1. CASE gServer = gBoot
      BY <1>1, <1>6, <2>1, WatchNats DEF WatchInv, OwnLine, Unheard
    <2>2. CASE gServer # gBoot
      BY <1>1, <1>2, <2>2, WatchNats, WatchNumbers DEF Unheard
    <2> QED BY <2>1, <2>2
  <1>11. SoonHeard'
    <2>1. CASE gServer = gBoot
      BY <1>1, <1>2, <2>1 DEF WatchInv, SoonHeard, Unheard
    <2>2. CASE gServer # gBoot
      BY <1>1, <1>2, <2>2, WatchNats, WatchNumbers DEF SoonHeard, Unheard
    <2> QED BY <2>1, <2>2
  <1>12. SnapshotOnly'
    <2>1. CASE gServer = gBoot
      BY <1>1, <1>2, <2>1, WatchNats DEF WatchInv, SnapshotOnly, Unheard
    <2>2. CASE gServer # gBoot
      BY <1>1, <1>2, <2>2, WatchNats, WatchNumbers DEF SnapshotOnly, Unheard
    <2> QED BY <2>1, <2>2
  <1>13. WhileDark'
    <2> SUFFICES ASSUME NEW d \in Named, gDark'[d] > 0
                 PROVE  /\ gLast[d] <= DarkFrom(d) /\ \A k \in gLines : k[1] = d => k[2] <= DarkFrom(d)
                        /\ \A t \in DarkFrom(d) + 1 .. gNow : t <= gClock \/ \E k \in gLines : k[2] = t
                        /\ gResumed' <= DarkFrom(d) + 1 + Late /\ gFirst <= DarkFrom(d) + 1 + Late
                        /\ d \in Always
                        /\ \A k \in gLines : k[2] > DarkFrom(d) => k[3] = gServer
                        /\ DarkFrom(d)' = DarkFrom(d)
      BY <1>1, <1>2 DEF WhileDark
    <2>1. d \in Always /\ gDark'[d] = gDark[d] /\ gDark[d] > 0 /\ DarkFrom(d)' = DarkFrom(d)
      BY <1>1, <1>3 DEF DarkFrom
    <2>2. /\ \A t \in DarkFrom(d) + 1 .. gNow : t <= gClock \/ \E k \in gLines : k[2] = t
          /\ gResumed <= DarkFrom(d) + 1 + Late
          /\ gClock > DarkFrom(d) => gBoot = gServer
      BY <2>1 DEF WatchInv, WhileDark
    <2>3. gResumed' <= DarkFrom(d) + 1 + Late
      <3> SUFFICES ASSUME gServer # gBoot, gNow > DarkFrom(d) + 1 + Late PROVE FALSE
        BY <1>2, <2>2, WatchNats, WatchNumbers DEF DarkFrom
      <3>1. DarkFrom(d) + 1 \in DarkFrom(d) + 1 .. gNow
        BY <2>1, WatchNats, WatchNumbers DEF DarkFrom
      <3>2. ~ \E k \in gLines : k[2] = DarkFrom(d) + 1
        <4>1. \A k \in gLines : k[2] \in Nat /\ gNow <= k[2] + Late
          BY WatchNats
        <4> QED BY <4>1, WatchNats, WatchNumbers DEF DarkFrom
      <3> QED BY <2>2, <3>1, <3>2, WatchNats DEF DarkFrom
    <2> QED BY <2>1, <2>3 DEF WatchInv, WhileDark
  <1>14. SilentIsOut'
    <2> SUFFICES ASSUME NEW d \in Named, Silent(d)', d \in Always \/ s # 0
                 PROVE  \E o \in gOpen' : d \in o.macs \ o.back
      BY <1>1 DEF SilentIsOut
    <2>1. CASE d \in Always
      <3>1. Silent(d)
        BY <1>1, <1>2, <2>1, WatchNats, WatchNumbers DEF Silent
      <3>2. PICK o \in gOpen : d \in o.macs \ o.back
        BY <2>1, <3>1 DEF WatchInv, SilentIsOut
      <3>3. o.always
        BY <2>1, <3>2 DEF WatchInv, WatchShapes
      <3> QED BY <1>4, <3>2, <3>3
    <2>2. CASE d \notin Always
      BY <1>1, <2>2, WatchNats, WatchNumbers DEF Silent
    <2> QED BY <2>1, <2>2
  <1>15. Watch!OnlyTheDown'
    BY <1>1 DEF Watch!OnlyTheDown
  <1> QED BY <1>7, <1>8, <1>9, <1>10, <1>11, <1>12, <1>13, <1>14, <1>15 DEF WatchInv

-----------------------------------------------------------------------------
\* The collector starts again with what was open.
LEMMA WatchRestart == ASSUME WatchInv, Watch!Restart PROVE WatchInv'
  <1>1. /\ gEvents < WatchEvents /\ gEvents' = gEvents + 1
        /\ gLast' = [d \in Named |-> 0] /\ gClock' = 0 /\ gFirst' = 0 /\ gResumed' = 0
        /\ gBoot' = 0 /\ gBooted' = 0 /\ gBlamed' = {}
        /\ gOpen' = {[o EXCEPT !.back = {}] : o \in gOpen}
        /\ gDark' = [d \in Named |-> 0]
        /\ UNCHANGED <<gNow, gDown, gStalled, gServer, gLines, gLastDown>>
        /\ gSession' \in {0, gSession}
        /\ gStarted' = 0 \/ \E o \in gOpen : gStarted' = o.since
    BY DEF Watch!Restart, Watch!Event, Watch!Ongoing, Named
  <1>2. WatchShapes'
    <2>1. \A o \in gOpen : o \in Outages /\ o.back \subseteq o.macs /\ o.back # o.macs /\ o.opened <= gNow
                           /\ o.since <= gNow /\ (o.always \/ o.macs \cap Always = {})
      BY DEF WatchInv, WatchShapes
    <2>2. ASSUME NEW p \in gOpen'
          PROVE  /\ p \in Outages /\ p.back \subseteq p.macs /\ p.back # p.macs /\ p.opened <= gNow
                 /\ p.since <= gNow /\ (p.always \/ p.macs \cap Always = {})
      <3>1. PICK o \in gOpen : p = [o EXCEPT !.back = {}]
        BY <1>1
      <3> QED BY <2>1, <3>1 DEF Outages
    <2>3. gStarted' \in 0 .. gNow'
      BY <1>1, <2>1, WatchNats DEF Outages
    <2>4. gLast' \in [Named -> 0 .. gClock'] /\ gDark' \in [Named -> 0 .. gNow'] /\ gClock' \in 0 .. gNow'
          /\ gFirst' \in 0 .. gNow' /\ gResumed' \in 0 .. gNow' /\ gBooted' \in 0 .. gNow' /\ gBoot' \in 0 .. gServer'
      BY <1>1, WatchNats
    <2>5. gEvents' \in 0 .. WatchEvents /\ gServer' \in 1 .. 1 + gEvents'
      BY <1>1, WatchAssumption DEF WatchInv, WatchShapes
    <2>6. /\ gNow' \in 1 .. WatchHorizon /\ gDown' \subseteq Named /\ gStalled' \in BOOLEAN /\ gSession' \in 0 .. 2
          /\ gLines' \subseteq Watch!Devices \X (1 .. gNow') \X (1 .. gServer')
          /\ gLastDown' \in [Named -> 0 .. gNow'] /\ gBlamed' = {}
      BY <1>1 DEF WatchInv, WatchShapes
    <2> QED BY <1>1, <2>2, <2>3, <2>4, <2>5, <2>6 DEF WatchShapes
  <1>3. LinesInTime' /\ BootKnown' /\ BootsApart'
    BY <1>1, WatchNats DEF WatchInv, LinesInTime, BootKnown, BootsApart
  <1>4. OwnLine' /\ SoonHeard' /\ SnapshotOnly' /\ WhileDark' /\ Watch!OnlyTheDown'
    BY <1>1 DEF OwnLine, SoonHeard, SnapshotOnly, WhileDark, Watch!OnlyTheDown
  <1>5. SilentIsOut'
    <2>1. \A d \in Named : gClock' - gLast'[d] = 0
      BY <1>1
    <2>2. Silence > 0
      BY WatchNumbers
    <2> QED BY <2>1, <2>2, WatchNumbers DEF SilentIsOut, Silent
  <1> QED BY <1>2, <1>3, <1>4, <1>5 DEF WatchInv


-----------------------------------------------------------------------------
\* A line of another boot, no older than the first event of the boot that is known.
Restarted(k) == k[3] # gBoot /\ ~(gBooted # 0 /\ k[2] < gBooted)

\* What the watch takes from a line, before it looks for silence.
LEMMA LineRead ==
    ASSUME WatchInv, NEW l \in gLines, Watch!Read(l)
    PROVE  /\ UNCHANGED <<gNow, gDown, gStalled, gServer, gEvents, gLastDown, gDark, gSession, gStarted>>
           /\ gLines' = gLines \ {l}
           /\ gBoot' = (IF Restarted(l) THEN l[3] ELSE gBoot)
           /\ gBooted' = (IF Restarted(l) THEN l[2] ELSE gBooted)
           /\ gResumed' = (IF gClock # 0 /\ l[2] - gClock > Pause THEN l[2]
                           ELSE IF Restarted(l) /\ l[2] > gResumed THEN l[2] ELSE gResumed)
           /\ gClock' = (IF l[2] > gClock THEN l[2] ELSE gClock)
           /\ gFirst' = (IF gFirst = 0 THEN l[2] ELSE gFirst)
           /\ gLast' = [d \in Named |-> IF d = l[1] /\ l[2] > gLast[d] THEN l[2] ELSE gLast[d]]
  <1>1. /\ UNCHANGED <<gNow, gDown, gStalled, gServer, gEvents, gLastDown, gDark, gSession, gStarted>>
        /\ gLines' = gLines \ {l}
        /\ gClock' = (IF l[2] > gClock THEN l[2] ELSE gClock)
        /\ gFirst' = (IF gFirst = 0 THEN l[2] ELSE gFirst)
    BY DEF Watch!Read
  <1>2. gLast' = (IF l[1] \in Named /\ l[2] > gLast[l[1]] THEN [gLast EXCEPT ![l[1]] = l[2]] ELSE gLast)
    BY DEF Watch!Read, Named
  <1>3. gLast' = [d \in Named |-> IF d = l[1] /\ l[2] > gLast[d] THEN l[2] ELSE gLast[d]]
    BY <1>2 DEF WatchInv, WatchShapes
  <1>4. /\ gBoot' = (IF Restarted(l) THEN l[3] ELSE gBoot)
        /\ gBooted' = (IF Restarted(l) THEN l[2] ELSE gBooted)
        /\ gResumed' = (IF gClock # 0 /\ l[2] - gClock > Pause THEN l[2]
                        ELSE IF Restarted(l) /\ l[2] > gResumed THEN l[2] ELSE gResumed)
    BY DEF Watch!Read, Watch!Heard, Watch!NewBoot, Watch!Resumes, Watch!ResumedBy, Restarted
  <1> QED BY <1>1, <1>3, <1>4

\* Reading a line keeps what the invariant says of the lines and of the times.
LEMMA ReadKeepsTimes ==
    ASSUME WatchInv, NEW l \in gLines, Watch!Read(l)
    PROVE  /\ LinesInTime' /\ BootKnown' /\ BootsApart' /\ OwnLine' /\ SoonHeard' /\ SnapshotOnly' /\ WhileDark'
           /\ gClock' > 0
  <1> DEFINE at == l[2]
             c == IF at > gClock THEN at ELSE gClock
             r == IF gClock # 0 /\ at - gClock > Pause THEN at
                  ELSE IF Restarted(l) /\ at > gResumed THEN at ELSE gResumed
             Later(d, t) == t > gLast'[d] /\ t > r + Late /\ t > gLastDown[d]
  <1>1. /\ UNCHANGED <<gNow, gStalled, gServer, gLastDown, gDark, gStarted>>
        /\ gLines' = gLines \ {l} /\ gClock' = c /\ gResumed' = r
        /\ gBoot' = (IF Restarted(l) THEN l[3] ELSE gBoot)
        /\ gBooted' = (IF Restarted(l) THEN at ELSE gBooted)
        /\ gFirst' = (IF gFirst = 0 THEN at ELSE gFirst)
    BY LineRead
  <1>2. /\ at \in Nat /\ at >= 1 /\ at <= gNow /\ gNow <= at + Late
        /\ l[3] \in Nat /\ l[3] >= 1 /\ l[3] <= gServer
        /\ c \in Nat /\ c >= 1 /\ c >= at /\ c >= gClock /\ c <= gNow /\ (c = at \/ c = gClock)
        /\ r \in Nat /\ r <= gNow /\ (r = at \/ r = gResumed)
    BY WatchNats
  <1>3. /\ gClock # 0 /\ at - gClock > Pause => r = at
        /\ Restarted(l) => r >= at
        /\ r < gResumed => r = at /\ gClock # 0
    BY WatchNats
  <1>4. \A d \in Named : /\ gLast'[d] \in Nat /\ gLast'[d] >= gLast[d] /\ (d # l[1] => gLast'[d] = gLast[d])
                         /\ d = l[1] => gLast'[d] >= at
                         /\ (gLast'[d] = at /\ d = l[1]) \/ gLast'[d] = gLast[d]
    BY <1>2, LineRead, WatchNats
  <1>5. \A d, t : Unheard(d, t)' <=> Later(d, t)
    BY <1>1 DEF Unheard
  <1>6. gClock = 0 => gFirst = 0 /\ \A d \in Named : gLast[d] = 0
    BY WatchNats DEF WatchInv, BootKnown
  <1> HIDE DEF c, r, at
  <1>7. \A d \in Named : \A t \in Nat : Later(d, t) /\ t <= gNow => Unheard(d, t)
    <2> SUFFICES ASSUME NEW d \in Named, NEW t \in Nat, Later(d, t), t <= gNow PROVE Unheard(d, t)
      OBVIOUS
    <2>1. r >= gResumed
      <3>1. t > r + Late
        OBVIOUS
      <3> QED BY <1>2, <1>3, <3>1, WatchNats, WatchNumbers
    <2> QED BY <1>2, <1>4, <2>1, WatchNats, WatchNumbers DEF Unheard
  <1>8. gBoot = 0 => Restarted(l)
    BY <1>2 DEF WatchInv, BootKnown, Restarted, at
  <1>9. \A d \in Named : \A t : t # at => (Logged(d, t) => Logged(d, t)')
    BY <1>1 DEF Logged, at
  <1>10. \A d \in Named : \A t \in Nat : Later(d, t) /\ t <= gNow /\ Logged(d, t) => Logged(d, t)'
    <2> SUFFICES ASSUME NEW d \in Named, NEW t \in Nat, Later(d, t), Logged(d, t) PROVE Logged(d, t)'
      OBVIOUS
    <2>1. PICK k \in gLines : k[1] = d /\ k[2] = t
      BY DEF Logged
    <2>2. k # l
      BY <1>2, <1>4, <2>1 DEF at
    <2> QED BY <1>1, <2>1, <2>2 DEF Logged
  <1>11. BootKnown' /\ LinesInTime' /\ gClock' > 0
    <2>1. LinesInTime' /\ gClock' > 0
      BY <1>1, <1>2 DEF WatchInv, LinesInTime
    <2>2. gBoot' # 0 => r >= 1
      BY <1>1, <1>2, <1>3, WatchNats DEF WatchInv, BootKnown
    <2>3. gBoot' # 0
      BY <1>1, <1>2, <1>8
    <2>4. (gFirst' = 0) = FALSE /\ (gClock' = 0) = FALSE
      BY <1>1, <1>2
    <2> QED BY <1>1, <2>1, <2>2, <2>3, <2>4 DEF BootKnown
  <1>12. BootsApart'
    <2>1. gLines' \subseteq gLines
      BY <1>1
    <2>2. ASSUME gBoot' = gServer, NEW k \in gLines', k[3] # gServer PROVE k[2] < gBooted'
      <3>1. k[3] < gServer /\ k \in gLines /\ k[3] \in Nat
        BY <2>1, <2>2, WatchNats
      <3>2. CASE Restarted(l)
        <4>1. l[3] = gServer
          BY <1>1, <2>2, <3>2
        <4>2. k[2] < l[2]
          BY <3>1, <4>1 DEF WatchInv, BootsApart
        <4> QED BY <1>1, <3>2, <4>2 DEF at
      <3>3. CASE ~Restarted(l)
        BY <1>1, <2>2, <3>1, <3>3 DEF WatchInv, BootsApart
      <3> QED BY <3>2, <3>3
    <2> QED BY <1>1, <2>1, <2>2 DEF WatchInv, BootsApart
  <1>13. OwnLine'
    <2> SUFFICES ASSUME NEW d \in Named
                 PROVE  /\ \A k \in gLines' : Later(d, k[2]) => Logged(d, k[2])'
                        /\ Later(d, c) => Logged(d, gClock)'
      BY <1>1, <1>5 DEF OwnLine
    <2>1. ASSUME NEW k \in gLines, Later(d, k[2]) PROVE Logged(d, k[2])'
      <3>1. k[2] \in Nat /\ k[2] <= gNow /\ Unheard(d, k[2])
        BY <1>7, <2>1, WatchNats
      <3>2. CASE gBoot # 0
        BY <1>10, <2>1, <3>1, <3>2 DEF WatchInv, OwnLine
      <3>3. CASE gBoot = 0
        <4>1. r >= at /\ k[2] > r + Late
          BY <1>3, <1>8, <2>1, <3>3
        <4> QED BY <1>2, <3>1, <4>1, WatchNats, WatchNumbers
      <3> QED BY <3>2, <3>3
    <2>2. Later(d, c) => Logged(d, gClock)'
      <3> SUFFICES ASSUME Later(d, c) PROVE Logged(d, gClock)'
        OBVIOUS
      <3>1. CASE c = at
        <4>1. Logged(d, l[2])'
          BY <2>1, <3>1 DEF at
        <4> QED BY <1>1, <3>1, <4>1 DEF Logged, at
      <3>2. CASE c = gClock /\ c # at
        <4>1. gBoot # 0
          BY <1>2, <3>2 DEF WatchInv, BootKnown
        <4>2. Unheard(d, gClock)
          BY <1>2, <1>7, <3>2
        <4>3. Logged(d, gClock)
          BY <4>1, <4>2 DEF WatchInv, OwnLine
        <4> QED BY <1>1, <3>2, <4>3 DEF Logged, at
      <3> QED BY <1>2, <3>1, <3>2
    <2> QED BY <1>1, <2>1, <2>2
  <1>14. SoonHeard'
    <2> SUFFICES ASSUME NEW d \in Named, Later(d, c)
                 PROVE  \E k \in gLines' : k[1] = d /\ ~Later(d, k[2] - Pause)
      BY <1>1, <1>5 DEF SoonHeard
    <2>1. Unheard(d, c) /\ d \in Named
      BY <1>2, <1>7
    <2>2. Logged(d, gClock)'
      BY <1>1, <1>5, <1>11, <1>13, <1>2 DEF OwnLine, BootKnown
    <2>3. PICK w \in gLines' : w[1] = d /\ w[2] = c
      BY <1>1, <2>2 DEF Logged
    <2>4. ASSUME NEW k \in gLines, k[1] = d, ~Unheard(d, k[2] - Pause)
          PROVE  \E m \in gLines' : m[1] = d /\ ~Later(d, m[2] - Pause)
      <3>1. CASE k = l
        <4>1. at \in Nat /\ gLast'[d] >= at /\ gNow <= at + Late /\ c <= gNow
          BY <1>2, <1>4, <2>4, <3>1
        <4>2. ~Later(d, c - Pause)
          BY <1>2, <1>4, <4>1, WatchNats, WatchNumbers
        <4> QED BY <2>3, <4>2
      <3>2. CASE k # l
        <4>1. r >= gResumed
          BY <1>2, <1>3, <2>4, WatchNats, WatchNumbers
        <4>2. ~Later(d, k[2] - Pause)
          BY <1>4, <2>4, <4>1, <1>2, WatchNats, WatchNumbers DEF Unheard
        <4> QED BY <1>1, <2>4, <3>2, <4>2
      <3> QED BY <3>1, <3>2
    <2>5. CASE gClock # 0 /\ Unheard(d, gClock)
      BY <2>4, <2>5 DEF WatchInv, SoonHeard
    <2>6. CASE gClock # 0 /\ ~Unheard(d, gClock)
      <3>1. c = at /\ at > gClock
        BY <1>2, <2>1, <2>6, WatchNats
      <3>2. at - gClock <= Pause
        <4>1. c > r + Late
          OBVIOUS
        <4> QED BY <1>2, <1>3, <2>6, <3>1, <4>1, WatchNats, WatchNumbers
      <3>3. r >= gResumed
        BY <1>2, <1>3, WatchNats, WatchNumbers
      <3>4. ~Later(d, c - Pause)
        BY <1>2, <1>4, <2>6, <3>1, <3>2, <3>3, WatchNats, WatchNumbers DEF Unheard
      <3> QED BY <2>3, <3>4
    <2>7. CASE gClock = 0
      <3>1. c = at /\ ~Restarted(l) /\ gBoot # 0
        BY <1>2, <1>3, <1>8, <2>7, WatchNats, WatchNumbers
      <3>2. Unheard(d, gNow)
        BY <1>2, <2>1, WatchNats, WatchNumbers DEF Unheard
      <3>3. CASE \E k \in gLines : k[1] = d /\ ~Unheard(d, k[2] - 1)
        <4>1. PICK k \in gLines : k[1] = d /\ ~Unheard(d, k[2] - 1)
          BY <3>3
        <4>2. ~Unheard(d, k[2] - Pause)
          BY <4>1, WatchNats, WatchNumbers DEF Unheard
        <4> QED BY <2>4, <4>1, <4>2
      <3>4. CASE gServer > gBoot /\ \A k \in gLines : Unheard(d, k[2]) => k[3] > gBoot
        <4>1. l[3] > gBoot
          BY <2>1, <3>1, <3>4 DEF at
        <4>2. at >= gBooted
          BY <1>2, <2>1, <2>7, <3>1, WatchNats, WatchNumbers DEF Unheard, WatchInv, BootKnown
        <4> QED BY <1>2, <3>1, <4>1, <4>2, WatchNats DEF Restarted, at
      <3> QED BY <2>7, <3>1, <3>2, <3>3, <3>4 DEF WatchInv, SnapshotOnly
    <2> QED BY <2>5, <2>6, <2>7
  <1>15. SnapshotOnly'
    BY <1>1, <1>2 DEF SnapshotOnly
  <1>16. WhileDark'
    <2> SUFFICES ASSUME NEW d \in Named, gDark[d] > 0
                 PROVE  /\ gLast'[d] <= DarkFrom(d) /\ \A k \in gLines' : k[1] = d => k[2] <= DarkFrom(d)
                        /\ \A t \in DarkFrom(d) + 1 .. gNow : t <= c \/ \E k \in gLines' : k[2] = t
                        /\ r <= DarkFrom(d) + 1 + Late /\ gFirst' <= DarkFrom(d) + 1 + Late
                        /\ d \notin Always => gStarted <= DarkFrom(d)
                        /\ c > DarkFrom(d) => gBoot' = gServer
                        /\ \A k \in gLines' : k[2] > DarkFrom(d) => k[3] = gServer
                        /\ gBoot' # gServer => gBooted' <= DarkFrom(d)
      BY <1>1 DEF WhileDark, DarkFrom
    <2> DEFINE s == DarkFrom(d)
    <2>1. s \in Int /\ s < gNow /\ s >= 0
      BY WatchNats DEF DarkFrom
    <2>2. /\ gLast[d] <= s /\ \A k \in gLines : k[1] = d => k[2] <= s
          /\ \A t \in s + 1 .. gNow : t <= gClock \/ \E k \in gLines : k[2] = t
          /\ gResumed <= s + 1 + Late /\ gFirst <= s + 1 + Late
          /\ d \notin Always => gStarted <= s
          /\ gClock > s => gBoot = gServer
          /\ \A k \in gLines : k[2] > s => k[3] = gServer
          /\ gBoot # gServer => gBooted <= s
      BY DEF WatchInv, WhileDark
    <2> HIDE DEF s
    <2>3. at > s + 1 + Late => gClock >= at - Late - 1 /\ gClock > s
      <3> SUFFICES ASSUME at > s + 1 + Late PROVE gClock >= at - Late - 1 /\ gClock > s
        OBVIOUS
      <3>1. at - Late - 1 \in s + 1 .. gNow
        BY <1>2, <2>1, WatchNats, WatchNumbers
      <3>2. ~ \E k \in gLines : k[2] = at - Late - 1
        BY <1>2, WatchNats, WatchNumbers
      <3> QED BY <1>2, <2>1, <2>2, <3>1, <3>2, WatchNats, WatchNumbers
    <2>4. gLast'[d] <= s /\ \A k \in gLines' : k[1] = d => k[2] <= s
      BY <1>1, <1>4, <2>2 DEF at
    <2>5. ASSUME NEW t \in s + 1 .. gNow PROVE t <= c \/ \E k \in gLines' : k[2] = t
      <3>1. t \in Int
        OBVIOUS
      <3>2. CASE t <= gClock
        BY <1>2, <2>1, <3>1, <3>2, WatchNats
      <3>3. CASE \E k \in gLines : k[2] = t
        <4>1. PICK k \in gLines : k[2] = t
          BY <3>3
        <4> QED BY <1>1, <1>2, <4>1 DEF at
      <3> QED BY <2>2, <2>5, <3>2, <3>3
    <2>6. r <= s + 1 + Late
      <3> SUFFICES ASSUME r = at, at > s + 1 + Late PROVE FALSE
        BY <1>2, <2>2, <2>1, WatchNats, WatchNumbers
      <3>1. gClock >= at - Late - 1 /\ gClock > s /\ gBoot = gServer /\ gClock # 0
        BY <1>2, <2>1, <2>2, <2>3, WatchNats, WatchNumbers
      <3>2. l[3] = gServer
        BY <2>1, <2>2, WatchNumbers, <1>2 DEF at
      <3>3. ~Restarted(l) /\ ~(at - gClock > Pause)
        BY <1>2, <3>1, <3>2, WatchNats, WatchNumbers DEF Restarted
      <3>4. r = gResumed
        BY <3>3 DEF r
      <3> QED BY <1>2, <2>1, <2>2, <3>4, WatchNumbers
    <2>7. gFirst' <= s + 1 + Late
      <3>1. CASE gFirst = 0
        <4>1. gClock = 0 /\ gFirst' = at
          BY <1>1, <3>1 DEF WatchInv, BootKnown
        <4> QED BY <1>2, <2>1, <2>3, <4>1, WatchNats, WatchNumbers
      <3>2. CASE gFirst # 0
        BY <1>1, <2>2, <3>2
      <3> QED BY <3>1, <3>2
    <2>8. at > s => gBoot' = gServer
      <3> SUFFICES ASSUME at > s PROVE gBoot' = gServer
        OBVIOUS
      <3>1. l[3] = gServer
        BY <2>2 DEF at
      <3>2. gBoot # gServer => Restarted(l)
        BY <1>2, <2>1, <2>2, <3>1, WatchNats DEF Restarted, at
      <3> QED BY <1>1, <3>1, <3>2
    <2>9. gBoot = gServer => gBoot' = gServer
      <3>1. gBoot = gServer /\ l[3] # gServer => at < gBooted
        BY DEF WatchInv, BootsApart, at
      <3>2. gBoot = gServer => ~Restarted(l)
        BY <1>2, <3>1, WatchNats DEF Restarted, at
      <3> QED BY <1>1, <3>2
    <2>10. c > s => gBoot' = gServer
      BY <1>2, <2>2, <2>8, <2>9
    <2>11. gBoot' # gServer => gBooted' <= s
      BY <1>1, <1>2, <2>1, <2>2, <2>8, <2>9
    <2>12. \A k \in gLines' : k[2] > s => k[3] = gServer
      BY <1>1, <2>2
    <2> QED BY <2>2, <2>4, <2>5, <2>6, <2>7, <2>10, <2>11, <2>12 DEF s
  <1> QED BY <1>11, <1>12, <1>13, <1>14, <1>15, <1>16


-----------------------------------------------------------------------------
\* After a line is read the times are times, and no line explains less than the code
\* measures from.
LEMMA BaselineIs ==
    ASSUME WatchInv, NEW l \in gLines, Watch!Read(l)
    PROVE  /\ gClock' \in 1 .. gNow /\ gFirst' \in 0 .. gNow /\ gResumed' \in 0 .. gNow
           /\ gBooted' \in 0 .. gNow /\ gBoot' \in 0 .. gServer /\ gLast' \in [Named -> 0 .. gClock']
           /\ \A d \in Named :
                 /\ Watch!Baseline(d) \in Nat /\ Watch!Baseline(d) <= gNow
                 /\ Watch!Baseline(d) >= gLast'[d] /\ Watch!Baseline(d) >= gResumed'
                 /\ Silent(d)' => Watch!Gap(d) >= Silence
  <1>1. PICK c \in Nat, f \in Nat, r \in Nat :
           /\ gClock' = c /\ gFirst' = f /\ gResumed' = r
           /\ c >= 1 /\ c >= gClock /\ c >= l[2] /\ c <= gNow /\ f <= gNow /\ r <= gNow
    BY LineRead, WatchNats
  <1>2. /\ gLast' = [d \in Named |-> IF d = l[1] /\ l[2] > gLast[d] THEN l[2] ELSE gLast[d]]
        /\ gBooted' = (IF Restarted(l) THEN l[2] ELSE gBooted)
        /\ gBoot' = (IF Restarted(l) THEN l[3] ELSE gBoot) /\ gStarted' = gStarted
    BY LineRead
  <1>3. \A d \in Named : gLast'[d] \in Nat /\ gLast'[d] <= c
    BY <1>1, <1>2, WatchNats
  <1>4. /\ gClock' \in 1 .. gNow /\ gFirst' \in 0 .. gNow /\ gResumed' \in 0 .. gNow
        /\ gBooted' \in 0 .. gNow /\ gBoot' \in 0 .. gServer /\ gLast' \in [Named -> 0 .. gClock']
    BY <1>1, <1>2, <1>3, WatchNats
  <1>5. ASSUME NEW d \in Named
        PROVE  /\ Watch!Baseline(d) \in Nat /\ Watch!Baseline(d) <= gNow
               /\ Watch!Baseline(d) >= gLast'[d] /\ Watch!Baseline(d) >= gResumed'
               /\ Silent(d)' => Watch!Gap(d) >= Silence
    <2>1. PICK t \in Nat : t = gLast'[d] /\ t <= gNow
      BY <1>1, <1>3, WatchNats
    <2>2. PICK u \in Nat : u = (IF d \in Always THEN f ELSE gStarted) /\ u <= gNow
      BY <1>1, WatchNats
    <2>3. Watch!Baseline(d) = Watch!Max({t, u, r})
      BY <1>1, <2>1, <2>2 DEF Watch!Baseline
    <2>4. Watch!Baseline(d) \in {t, u, r} /\ Watch!Baseline(d) >= t /\ Watch!Baseline(d) >= u /\ Watch!Baseline(d) >= r
      <3>1. /\ Watch!Max({t, u, r}) \in {t, u, r} /\ Watch!Max({t, u, r}) >= t
            /\ Watch!Max({t, u, r}) >= u /\ Watch!Max({t, u, r}) >= r
        <4>1. t \in Int /\ u \in Int /\ r \in Int
          OBVIOUS
        <4> QED BY <4>1, NewestOfThree
      <3> QED BY <2>3, <3>1
    <2>5. Watch!Gap(d) = c - Watch!Baseline(d)
      BY <1>1 DEF Watch!Gap
    <2>6. Silent(d)' => c - t >= Silence /\ c - r >= Silence /\ c - u >= Silence
      BY <1>1, <1>2, <2>1, <2>2 DEF Silent
    <2> QED BY <1>1, <2>1, <2>2, <2>4, <2>5, <2>6
  <1> QED BY <1>4, <1>5

\* A group to report: somebody in it is silent too long, and nobody in it is far from it.
LEMMA GroupsAre ==
    ASSUME WatchInv, NEW l \in gLines, Watch!Read(l), NEW outages, NEW g \in Watch!Groups(outages)
    PROVE  /\ g.macs \subseteq Named /\ g.macs # {} /\ g.always \in BOOLEAN
           /\ g.always \/ g.macs \subseteq Watched
           /\ gClock' - gResumed' >= Silence
           /\ \A d \in g.macs : gClock' - gLast'[d] >= Silence - Watch!NearWindow
  <1>1. /\ \A d \in Named : /\ Watch!Gap(d) = gClock' - Watch!Baseline(d) /\ Watch!Baseline(d) \in Nat
                            /\ Watch!Baseline(d) >= gLast'[d] /\ Watch!Baseline(d) >= gResumed'
                            /\ gLast'[d] \in Nat
        /\ \E c \in Nat : gClock' = c
        /\ \E r \in Nat : gResumed' = r
    BY BaselineIs DEF Watch!Gap
  <1>2. \A d \in Named : Watch!Gap(d) >= Silence - Watch!NearWindow => gClock' - gLast'[d] >= Silence - Watch!NearWindow
    BY <1>1, WatchNumbers
  <1>3. \A d \in Named : Watch!Gap(d) >= Silence =>
           /\ gClock' - gResumed' >= Silence /\ Watch!Gap(d) >= Silence - Watch!NearWindow
    BY <1>1, WatchNumbers
  <1> DEFINE free == Watched \ Watch!Busy(outages)
             over == {d \in free : Watch!Gap(d) >= Silence}
             near == {d \in free : Watch!Gap(d) >= Silence - Watch!NearWindow}
             game == IF gSession = 0 \/ over = {} THEN {}
                     ELSE IF Watch!Cardinality(near) >= GroupMin THEN {near}
                     ELSE {{d} : d \in over}
             lasting == {x \in Always \ Watch!Busy(outages) : Watch!Gap(x) >= Silence}
  <1>4. Watched \subseteq Named /\ Always \subseteq Named
    BY DEF Named, Watch!Named
  <1>5. Watch!Groups(outages) = {[macs |-> h, always |-> FALSE] : h \in game}
                                \cup {[macs |-> {d}, always |-> TRUE] : d \in lasting}
    BY DEF Watch!Groups
  <1>6. over \subseteq near
    BY <1>3, <1>4
  <1>7. CASE \E h \in game : g = [macs |-> h, always |-> FALSE]
    <2>1. PICK h \in game : g = [macs |-> h, always |-> FALSE]
      BY <1>7
    <2>2. over # {} /\ (h = near \/ \E d \in over : h = {d})
      BY <2>1
    <2>3. h \subseteq near /\ h # {}
      BY <1>6, <2>2
    <2>4. g.macs = h /\ g.always = FALSE
      BY <2>1
    <2> HIDE DEF game
    <2> QED BY <1>2, <1>3, <1>4, <2>2, <2>3, <2>4
  <1>8. CASE \E d \in lasting : g = [macs |-> {d}, always |-> TRUE]
    <2>1. PICK d \in lasting : g = [macs |-> {d}, always |-> TRUE]
      BY <1>8
    <2> QED BY <1>2, <1>3, <1>4, <2>1
  <1> HIDE DEF game, lasting
  <1> QED BY <1>5, <1>7, <1>8

\* Whoever is silent and not in an outage is in a group to report.
LEMMA SilentIsReported ==
    ASSUME WatchInv, NEW l \in gLines, Watch!Read(l), NEW outages,
           NEW d \in Named, Silent(d)', d \in Always \/ gSession # 0, d \notin Watch!Busy(outages)
    PROVE  \E g \in Watch!Groups(outages) : d \in g.macs
  <1>1. Watch!Gap(d) >= Silence
    BY BaselineIs
  <1> DEFINE free == Watched \ Watch!Busy(outages)
             over == {x \in free : Watch!Gap(x) >= Silence}
             near == {x \in free : Watch!Gap(x) >= Silence - Watch!NearWindow}
             game == IF gSession = 0 \/ over = {} THEN {}
                     ELSE IF Watch!Cardinality(near) >= GroupMin THEN {near}
                     ELSE {{x} : x \in over}
             lasting == {x \in Always \ Watch!Busy(outages) : Watch!Gap(x) >= Silence}
  <1>2. Watch!Groups(outages) = {[macs |-> h, always |-> FALSE] : h \in game}
                                \cup {[macs |-> {x}, always |-> TRUE] : x \in lasting}
    BY DEF Watch!Groups
  <1>3. CASE d \in Always
    <2>1. d \in lasting
      BY <1>1, <1>3
    <2> DEFINE g == [macs |-> {d}, always |-> TRUE]
    <2>2. g \in Watch!Groups(outages) /\ d \in g.macs
      BY <1>2, <2>1
    <2> QED BY <2>2
  <1>4. CASE d \notin Always
    <2>1. d \in over /\ gSession # 0
      BY <1>1, <1>4 DEF Named, Watch!Named
    <2>2. Watch!Gap(d) >= Silence - Watch!NearWindow
      <3>1. \E n \in Int : Watch!Gap(d) = n
        BY BaselineIs DEF Watch!Gap
      <3> QED BY <1>1, <3>1, WatchNumbers
    <2>3. d \in near
      BY <2>1, <2>2
    <2>4. \E h \in game : d \in h
      BY <2>1, <2>3
    <2> HIDE DEF game
    <2>5. PICK h \in game : d \in h
      BY <2>4
    <2> DEFINE g == [macs |-> h, always |-> FALSE]
    <2>6. g \in Watch!Groups(outages) /\ d \in g.macs
      BY <1>2, <2>5
    <2> QED BY <2>6
  <1> QED BY <1>3, <1>4

\* A line ends outages or brings a member back; what is left waits for somebody.
LEMMA OutagesLeft ==
    ASSUME WatchInv, NEW l \in gLines, NEW p,
           p \in Watch!OpenAfter(l[3], l[2]) \/ p \in Watch!Recover(Watch!OpenAfter(l[3], l[2]), l[1], l[2])
    PROVE  /\ p \in Outages /\ p.back \subseteq p.macs /\ p.back # p.macs /\ p.opened <= gNow /\ p.since <= gNow
           /\ p.always \/ p.macs \cap Always = {}
  <1>1. Watch!OpenAfter(l[3], l[2]) \subseteq gOpen
    BY DEF Watch!OpenAfter, Watch!Ongoing
  <1>2. CASE p \in Watch!OpenAfter(l[3], l[2])
    BY <1>1, <1>2 DEF WatchInv, WatchShapes
  <1>3. CASE p \in Watch!Recover(Watch!OpenAfter(l[3], l[2]), l[1], l[2])
    <2>1. PICK o \in gOpen : /\ p = [o EXCEPT !.back = IF l[1] \in o.macs /\ l[2] > o.opened
                                                       THEN o.back \cup {l[1]} ELSE o.back]
                             /\ p.back # p.macs
      BY <1>1, <1>3 DEF Watch!Recover
    <2>2. /\ o \in Outages /\ o.back \subseteq o.macs /\ o.opened <= gNow /\ o.since <= gNow
          /\ o.always \/ o.macs \cap Always = {}
      BY DEF WatchInv, WatchShapes
    <2>3. CASE l[1] \in o.macs /\ l[2] > o.opened
      <3>1. p = [o EXCEPT !.back = o.back \cup {l[1]}]
        BY <2>1, <2>3
      <3> QED BY <2>1, <2>2, <2>3, <3>1 DEF Outages
    <2>4. CASE ~(l[1] \in o.macs /\ l[2] > o.opened)
      <3>1. p = [o EXCEPT !.back = o.back]
        BY <2>1, <2>4
      <3> QED BY <2>1, <2>2, <3>1 DEF Outages
    <2> QED BY <2>3, <2>4
  <1> QED BY <1>2, <1>3

\* The invariant is kept when a line is read.
LEMMA WatchReads == ASSUME WatchInv, NEW l \in gLines, Watch!Read(l) PROVE WatchInv'
  <1> DEFINE known == Watch!OpenAfter(l[3], l[2])
             outages == IF l[1] \in Named THEN Watch!Recover(known, l[1], l[2]) ELSE known
             Opened(g) == [macs |-> g.macs, since |-> Watch!Min({Watch!Baseline(d) : d \in g.macs}),
                           opened |-> gClock', back |-> {}, always |-> g.always]
  <1>1. gBlamed' = {Opened(g) : g \in Watch!Groups(outages)} /\ gOpen' = outages \cup gBlamed'
    BY DEF Watch!Read, Watch!Evaluate, Named
  <1>2. /\ UNCHANGED <<gNow, gDown, gStalled, gServer, gEvents, gLastDown, gDark, gSession, gStarted>>
        /\ gLines' = gLines \ {l}
    BY LineRead
  <1>3. /\ LinesInTime' /\ BootKnown' /\ BootsApart' /\ OwnLine' /\ SoonHeard' /\ SnapshotOnly'
        /\ WhileDark' /\ gClock' > 0
    BY ReadKeepsTimes
  <1>4. \A p \in outages : /\ p \in Outages /\ p.back \subseteq p.macs /\ p.back # p.macs
                           /\ p.opened <= gNow /\ p.since <= gNow /\ (p.always \/ p.macs \cap Always = {})
    BY OutagesLeft
  <1> HIDE DEF outages
  <1>5. \A g \in Watch!Groups(outages) :
           /\ g.macs \subseteq Named /\ g.macs # {} /\ g.always \in BOOLEAN
           /\ g.always \/ g.macs \subseteq Watched
           /\ gClock' - gResumed' >= Silence
           /\ \A d \in g.macs : gClock' - gLast'[d] >= Silence - Watch!NearWindow
    BY GroupsAre
  <1>6. ASSUME NEW g \in Watch!Groups(outages)
        PROVE  /\ Opened(g) \in Outages /\ Opened(g).back \subseteq Opened(g).macs
               /\ Opened(g).back # Opened(g).macs /\ Opened(g).opened <= gNow /\ Opened(g).since <= gNow
               /\ Opened(g).always \/ Opened(g).macs \cap Always = {}
    <2> DEFINE B == {Watch!Baseline(d) : d \in g.macs}
    <2>1. B \subseteq Nat /\ B # {} /\ \A b \in B : b <= gNow
      BY <1>5, BaselineIs
    <2>2. Watch!Min(B) \in B
      <3> HIDE DEF B
      <3> QED BY <2>1, OldestOfSome
    <2>3. Watch!Min(B) \in Nat /\ Watch!Min(B) <= gNow
      BY <2>1, <2>2
    <2> HIDE DEF B
    <2>4. Opened(g) = [macs |-> g.macs, since |-> Watch!Min(B), opened |-> gClock', back |-> {}, always |-> g.always]
      BY DEF B
    <2>5. gClock' \in Nat /\ gClock' <= gNow
      BY BaselineIs, WatchNats
    <2> QED BY <1>5, <2>3, <2>4, <2>5, WatchAssumption DEF Outages
  <1>7. WatchShapes'
    <2>1. /\ gOpen' \subseteq Outages /\ gBlamed' \subseteq Outages
          /\ \A o \in gOpen' \cup gBlamed' :
                /\ o.back \subseteq o.macs /\ o.back # o.macs /\ o.opened <= gNow' /\ o.since <= gNow'
                /\ o.always \/ o.macs \cap Always = {}
      <3> SUFFICES ASSUME NEW o \in outages \cup gBlamed'
                   PROVE  /\ o \in Outages /\ o.back \subseteq o.macs /\ o.back # o.macs
                          /\ o.opened <= gNow /\ o.since <= gNow /\ (o.always \/ o.macs \cap Always = {})
        BY <1>1, <1>2
      <3>1. CASE o \in gBlamed'
        <4>1. PICK g \in Watch!Groups(outages) : o = Opened(g)
          BY <1>1, <3>1
        <4> QED BY <1>6, <4>1
      <3> QED BY <1>4, <3>1
    <2>2. /\ gClock' \in 0 .. gNow' /\ gFirst' \in 0 .. gNow' /\ gResumed' \in 0 .. gNow' /\ gBooted' \in 0 .. gNow'
          /\ gBoot' \in 0 .. gServer' /\ gLast' \in [Named -> 0 .. gClock']
      BY <1>2, BaselineIs, WatchNats
    <2>3. /\ gNow' \in 1 .. WatchHorizon /\ gDown' \subseteq Named /\ gStalled' \in BOOLEAN
          /\ gEvents' \in 0 .. WatchEvents /\ gServer' \in 1 .. 1 + gEvents'
          /\ gLines' \subseteq Watch!Devices \X (1 .. gNow') \X (1 .. gServer')
          /\ gStarted' \in 0 .. gNow' /\ gSession' \in 0 .. 2
          /\ gLastDown' \in [Named -> 0 .. gNow'] /\ gDark' \in [Named -> 0 .. gNow']
      BY <1>2 DEF WatchInv, WatchShapes
    <2> QED BY <2>1, <2>2, <2>3 DEF WatchShapes
  <1>8. SilentIsOut'
    <2> SUFFICES ASSUME NEW d \in Named, Silent(d)', d \in Always \/ gSession # 0
                 PROVE  \E o \in gOpen' : d \in o.macs \ o.back
      BY <1>2 DEF SilentIsOut
    <2>1. CASE d \in Watch!Busy(outages)
      BY <1>1, <2>1 DEF Watch!Busy
    <2>2. CASE d \notin Watch!Busy(outages)
      <3>1. PICK g \in Watch!Groups(outages) : d \in g.macs
        BY <2>2, SilentIsReported
      <3>2. Opened(g) \in gOpen' /\ Opened(g).macs = g.macs /\ Opened(g).back = {}
        BY <1>1, <3>1
      <3> QED BY <3>1, <3>2
    <2> QED BY <2>1, <2>2
  <1>9. Watch!OnlyTheDown'
    <2> SUFFICES ASSUME NEW g \in Watch!Groups(outages), NEW d \in g.macs
                 PROVE  gLastDown'[d] # 0 /\ gClock' - gLastDown'[d] <= Pause + Late
      <3> SUFFICES ASSUME NEW o \in gBlamed', NEW d \in o.macs
                   PROVE  gLastDown'[d] # 0 /\ o.opened - gLastDown'[d] <= Pause + Late
        BY DEF Watch!OnlyTheDown
      <3>1. PICK g \in Watch!Groups(outages) : o = Opened(g)
        BY <1>1
      <3>2. o.macs = g.macs /\ o.opened = gClock'
        BY <3>1
      <3> HIDE DEF Opened
      <3> QED BY <3>2
    <2>1. PICK c \in Nat, r \in Nat, t \in Nat :
             gClock' = c /\ gResumed' = r /\ t = gLast'[d] /\ c <= gNow /\ c # 0
      BY <1>5, BaselineIs, WatchNats
    <2>2. /\ d \in Named /\ c - r >= Silence /\ c - t >= Silence - Watch!NearWindow
          /\ gLastDown'[d] = gLastDown[d] /\ gLastDown[d] \in Nat
      BY <1>2, <1>5, <2>1, WatchNats
    <2>3. r >= 1
      <3>1. PICK b \in Nat : gBoot' = b
        BY BaselineIs, WatchNats
      <3> QED BY <1>3, <2>1, <3>1 DEF BootKnown
    <2>4. \A x \in Int : Unheard(d, x)' <=> x > t /\ x > r + Late /\ x > gLastDown[d]
      BY <2>1, <2>2 DEF Unheard
    <2>5. ~ (c - Pause - Late > t /\ c - Pause - Late > r + Late /\ c - Pause - Late > gLastDown[d])
      <3>1. CASE ~Unheard(d, gClock)'
        <4>1. ~ (c > t /\ c > r + Late /\ c > gLastDown[d])
          BY <2>1, <2>2, <3>1 DEF Unheard
        <4> QED BY <2>1, <2>2, <4>1, WatchNumbers
      <3>2. CASE Unheard(d, gClock)'
        <4>1. PICK k \in gLines' : k[1] = d /\ ~Unheard(d, k[2] - Pause)'
          BY <1>3, <2>1, <2>2, <3>2 DEF SoonHeard
        <4>2. k[2] \in Nat /\ gNow <= k[2] + Late
          BY <1>2, WatchNats
        <4>3. k[2] - Pause \in Int
          BY <4>2, WatchNumbers
        <4>4. ~ (k[2] - Pause > t /\ k[2] - Pause > r + Late /\ k[2] - Pause > gLastDown[d])
          BY <2>4, <4>1, <4>3
        <4> QED BY <2>1, <2>2, <4>2, <4>4, WatchNats, WatchNumbers
      <3> QED BY <3>1, <3>2
    <2>6. gLastDown[d] # 0 /\ c - gLastDown[d] <= Pause + Late
      BY <2>1, <2>2, <2>3, <2>5, WatchNumbers
    <2> QED BY <2>1, <2>2, <2>6
  <1> QED BY <1>3, <1>7, <1>8, <1>9 DEF WatchInv

-----------------------------------------------------------------------------
\* The invariant is kept.
LEMMA WatchNext == WatchInv /\ [Watch!Next]_(Watch!vars) => WatchInv'
  <1> SUFFICES ASSUME WatchInv, [Watch!Next]_(Watch!vars) PROVE WatchInv'
    OBVIOUS
  <1>1. CASE Watch!Tick \/ Watch!Reboot
    BY <1>1, WatchTimePasses
  <1>2. CASE Watch!Stall \/ \E d \in Named : Watch!Fail(d) \/ Watch!Return(d)
    BY <1>2, WatchWorld
  <1>3. CASE \E l \in gLines : Watch!Read(l)
    BY <1>3, WatchReads
  <1>4. CASE \E s \in 0 .. 2 : Watch!Game(s)
    BY <1>4, WatchGame
  <1>5. CASE Watch!Restart
    BY <1>5, WatchRestart
  <1>6. CASE UNCHANGED Watch!vars
    <2>1. UNCHANGED <<gNow, gServer, gLines, gLast, gClock, gFirst, gResumed, gBoot, gBooted, gSession,
                      gStarted, gOpen, gLastDown, gDark, gBlamed, gDown, gStalled, gEvents>>
      BY <1>6 DEF Watch!vars, Watch!world, Watch!watch
    <2>2. gEvents \in Nat /\ gEvents <= WatchEvents /\ gDown \subseteq Named /\ gStalled \in BOOLEAN
      BY WatchAssumption DEF WatchInv, WatchShapes
    <2> QED BY <2>1, <2>2, WatchQuiet
  <1> QED BY <1>1, <1>2, <1>3, <1>4, <1>5, <1>6 DEF Watch!Next, Named

\* Every reachable state of the watch satisfies the invariant.
THEOREM WatchInvHolds == Watch!Spec => []WatchInv
  <1> QED BY WatchInit, WatchNext, PTL DEF Watch!Spec

\* No device that kept sending is blamed for a pause or a restart of the server, a new
\* game, a restart of the collector or a late line, and no device that stayed silent is
\* left out, also after it was in a group and came back (generator_watch.py).
THEOREM BlamesRightHolds == Watch!Spec => []BlamesRight
  <1> QED BY WatchTypes, WatchInvHolds, PTL

=============================================================================

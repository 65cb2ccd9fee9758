---------------------- MODULE WatchAndRelease_proofs ----------------------
(***************************************************************************)
(* Proofs about the telemetry journal, the upload of sub boards, the       *)
(* release scripts, the restarts of a generator, the update of a tag       *)
(* machine's boards and the clock probe, for any values of the constants   *)
(* that satisfy the assumptions of WatchAndRelease and EvidenceJournal.    *)
(* Each part has its inductive invariant, a lemma for each of its actions, *)
(* and its theorems at the end.                                            *)
(***************************************************************************)
EXTENDS WatchAndRelease, SequenceTheorems, TLAPS

-----------------------------------------------------------------------------
(***************************************************************************)
(* The telemetry journal (EvidenceJournal): retention deletes nothing the  *)
(* incident worker had still to read, what it deleted stays away, and its  *)
(* watermark steps over nothing.                                           *)
(***************************************************************************)
(* The inductive invariant, by its parts. *)

Seqs == Records \cup {0}
Polls == [at : {"rows"}, rows : SUBSET Records, high : Seqs, top : Seqs, floor : Days,
          evidence : Int, scan : Seqs]
Reads == [at : {"reads"}, windows : SUBSET WindowDays]
Scanned == [at : {"scanned"}]
Sweeps == [at : {"marks", "expire", "classify", "done"}, place : [day : Int, of : Seqs],
           windows : SUBSET WindowDays, read : 0 .. MaxIngest, full : BOOLEAN, from : Int,
           awaiting : Days]

Shapes ==
    /\ today \in 1 .. LastDay /\ received \in [Records -> Days]
    /\ inserted \in 0 .. MaxIngest /\ read \in 0 .. inserted
    /\ ingest \in [Records -> 0 .. inserted] /\ journal = {r \in Records : ingest[r] # 0}
    /\ incidents \subseteq WindowDays /\ keeps \subseteq WindowDays
    /\ mark \in [pruned : Days, evidence : Int, classified : Days, scanned : Days]
    /\ crashes \in 0 .. MaxCrashes /\ pruned \subseteq Records /\ overdue \subseteq Records
    /\ \A r \in journal \cup pruned : received[r] \in 1 .. today
    /\ journal \cap pruned = {} /\ \A r \in Records : received[r] \in 0 .. today

\* A poll holds records of the device's table.
PollShape ==
    /\ cursor \in [scan : Seqs, high : Seqs] /\ cursor.scan <= cursor.high
    /\ poll \in {NoPoll} \cup Polls
    /\ poll.at = "rows" =>
          /\ poll.scan <= poll.high /\ poll.high <= poll.top
          /\ \A r \in poll.rows : received[r] \in 1 .. today

\* Neither mark is ahead of the day, and everything that was deleted lies behind them.
MarksBehind ==
    /\ mark.pruned = Never \/ mark.pruned <= Cutoff
    /\ mark.evidence = Never \/ mark.evidence <= Expiry
    /\ \A r \in pruned : /\ mark.pruned # Never /\ received[r] < mark.pruned
                         /\ r \in Lasting => received[r] < mark.evidence

Sweeping == job.at \in {"marks", "expire", "classify", "done"}
Deleting == job.at \in {"expire", "classify", "done"}

\* What a job knows, and where it is.
JobShape ==
    /\ job \in {NoJob} \cup Reads \cup Sweeps \cup Scanned
    /\ job # NoJob => today > FullDays
    /\ job.at = "reads" => job.windows \subseteq incidents
    /\ Sweeping =>
          /\ job.read <= read /\ mark.pruned = Cutoff
          /\ Expiry <= job.from /\ (job.from = Expiry \/ job.from = mark.classified)
    /\ Deleting => mark.evidence = Expiry
    /\ job.at = "marks" => job.place = Start /\ job.awaiting = Never
    /\ job.at = "expire" /\ job.awaiting # Never => job.awaiting < Expiry
    /\ job.at \in {"expire", "classify"} /\ job.awaiting # Never => job.awaiting <= job.place.day
    /\ job.at = "classify" => job.from <= job.place.day

Excused(r) == received[r] \in incidents \cup keeps \/ r \in overdue

\* A row that was kept for the worker, and holds the watermark back.
Kept(r) == ingest[r] > job.read /\ job.awaiting # Never /\ job.awaiting <= received[r]

\* A window that was released meanwhile excuses the rows that were there; later ones wait.
WindowsHeld ==
    Sweeping => \A r \in journal : received[r] \in job.windows => Excused(r) \/ ingest[r] > job.read

\* What each sweep leaves behind it.
ExpiredSwept ==
    Deleting => \A r \in journal :
        received[r] < Expiry /\ (job.at = "expire" => ~After(r, job.place)) => r \in overdue \/ Kept(r)
ClassifiedSwept ==
    job.at \in {"classify", "done"} => \A r \in journal :
        r \notin Lasting /\ received[r] >= job.from /\ received[r] < Cutoff
            /\ (job.at = "classify" => ~After(r, job.place)) => Excused(r) \/ Kept(r)

\* Below the watermark nothing is left without an excuse, while a job runs too.
Clean == \A r \in journal : received[r] < mark.classified /\ r \notin Lasting => Excused(r)

SweepInv == WindowsHeld /\ ExpiredSwept /\ ClassifiedSwept /\ Clean

IndInv == Shapes /\ PollShape /\ MarksBehind /\ JobShape /\ SweepInv
-----------------------------------------------------------------------------
(* Facts about numbers and records. *)

\* Days are numbers, and what expires is older than what leaves the full window.
LEMMA Numbers ==
    ASSUME Shapes
    PROVE  /\ today \in Nat /\ today >= 1 /\ Cutoff \in Int /\ Expiry \in Int
           /\ Expiry < Cutoff /\ Cutoff < today /\ inserted \in Nat /\ read \in Nat /\ read <= inserted
           /\ mark.pruned \in Nat /\ mark.evidence \in Int /\ mark.classified \in Nat /\ mark.scanned \in Nat
           /\ \A r \in journal : /\ r \in Records /\ r \in Nat /\ r >= 1 /\ ingest[r] \in Nat
                                 /\ received[r] \in Nat /\ received[r] >= 1 /\ received[r] <= today
  <1>1. today \in Nat /\ today >= 1 /\ inserted \in Nat /\ read \in Nat /\ read <= inserted
    BY JournalAssumption DEF Shapes
  <1>2. Cutoff \in Int /\ Expiry \in Int /\ Expiry < Cutoff /\ Cutoff < today
    BY <1>1, JournalAssumption DEF Cutoff, Expiry
  <1>3. mark.pruned \in Nat /\ mark.evidence \in Int /\ mark.classified \in Nat /\ mark.scanned \in Nat
    <2>1. /\ mark.pruned \in Days /\ mark.evidence \in Int /\ mark.classified \in Days
          /\ mark.scanned \in Days
      BY DEF Shapes
    <2> QED
      BY <2>1, JournalAssumption DEF Days
  <1>4. \A r \in journal : /\ r \in Records /\ r \in Nat /\ r >= 1 /\ ingest[r] \in Nat
                           /\ received[r] \in Nat /\ received[r] >= 1 /\ received[r] <= today
    BY <1>1, JournalAssumption DEF Shapes
  <1> QED
    BY <1>1, <1>2, <1>3, <1>4

\* A job that sweeps has a place, and one that does not has none.
LEMMA JobTypes ==
    ASSUME JobShape
    PROVE  /\ job.at \in {"idle", "reads", "marks", "expire", "classify", "done", "scanned"}
           /\ job = NoJob <=> job.at = "idle"
           /\ job.at = "reads" => job \in Reads
           /\ Sweeping => job \in Sweeps
  BY DEF JobShape, NoJob, Reads, Sweeps, Scanned, Sweeping

\* The fields of a job that sweeps.
LEMMA SweepTypes ==
    ASSUME NEW j \in Sweeps
    PROVE  /\ j.place.day \in Int /\ j.place.of \in Seqs /\ j.windows \subseteq WindowDays
           /\ j.read \in Nat /\ j.from \in Int /\ j.awaiting \in Nat /\ j.awaiting \in Days
  <1>1. /\ j.place \in [day : Int, of : Seqs] /\ j.windows \subseteq WindowDays /\ j.read \in 0 .. MaxIngest
        /\ j.from \in Int /\ j.awaiting \in Days
    BY DEF Sweeps
  <1>2. j.awaiting \in Nat /\ j.read \in Nat
    BY <1>1, JournalAssumption DEF Days
  <1> QED
    BY <1>1, <1>2

\* The records of the device are numbers, and so are their places.
LEMMA SeqsNat == \A x \in Seqs : x \in Nat
  BY JournalAssumption DEF Seqs
-----------------------------------------------------------------------------
(* Steps that leave the job, the marks and the rows alone. *)

\* What the sweeps left behind stays so when no excuse is taken back.
LEMMA QuietSweep ==
    ASSUME SweepInv, UNCHANGED <<today, journal, ingest, mark, job>>,
           \A r \in journal : received'[r] = received[r],
           \A r \in journal : Excused(r) => Excused(r)',
           \A r \in journal : r \in overdue => r \in overdue'
    PROVE  SweepInv'
  <1>1. WindowsHeld'
    BY DEF SweepInv, WindowsHeld, Sweeping
  <1>2. ExpiredSwept'
    BY DEF SweepInv, ExpiredSwept, Deleting, Expiry, After, Kept
  <1>3. ClassifiedSwept'
    BY DEF SweepInv, ClassifiedSwept, Cutoff, After, Kept
  <1>4. Clean'
    BY DEF SweepInv, Clean
  <1> QED
    BY <1>1, <1>2, <1>3, <1>4 DEF SweepInv

\* The marks and the job are untouched.
LEMMA QuietMarks ==
    ASSUME MarksBehind, UNCHANGED <<today, received, mark, pruned>>
    PROVE  MarksBehind'
  BY DEF MarksBehind, Cutoff, Expiry

\* What a job knows stays true while it, the marks and the worker stand still.
LEMMA QuietJob ==
    ASSUME JobShape, UNCHANGED <<today, mark, job, incidents, read>>
    PROVE  JobShape'
  BY DEF JobShape, Sweeping, Deleting, Cutoff, Expiry

\* A poll that nobody touches keeps its shape.
LEMMA QuietPoll ==
    ASSUME PollShape, UNCHANGED <<today, received, cursor, poll>>
    PROVE  PollShape'
  BY DEF PollShape

\* A day passes while neither a poll nor a job is under way.
LEMMA NextDayStep == ASSUME IndInv, NextDay PROVE IndInv'
  <1>1. /\ today < LastDay /\ poll = NoPoll /\ job = NoJob /\ today' = today + 1
        /\ UNCHANGED <<received, journal, ingest, inserted, cursor, poll, read, incidents, keeps, mark,
                       job, pruned, crashes, overdue>>
    BY DEF NextDay, collector, retention
  <1>2. today \in Nat /\ today >= 1 /\ mark.pruned \in Nat /\ Cutoff \in Int
        /\ mark.evidence \in Int /\ Expiry \in Int
    BY Numbers DEF IndInv
  <1>3. Shapes'
    <2>1. /\ today' \in 1 .. LastDay /\ \A r \in journal \cup pruned : received[r] \in 1 .. today'
          /\ \A r \in Records : received[r] \in 0 .. today'
      BY <1>1, <1>2, JournalAssumption DEF IndInv, Shapes
    <2> QED
      BY <1>1, <2>1 DEF IndInv, Shapes
  <1>4. PollShape'
    BY <1>1 DEF IndInv, PollShape, NoPoll
  <1>5. MarksBehind'
    <2>1. Cutoff' = Cutoff + 1 /\ Expiry' = Expiry + 1
      BY <1>1, <1>2, JournalAssumption DEF Cutoff, Expiry
    <2>2. /\ mark.pruned = Never \/ mark.pruned <= Cutoff'
          /\ mark.evidence = Never \/ mark.evidence <= Expiry'
      BY <1>2, <2>1 DEF IndInv, MarksBehind
    <2> QED
      BY <1>1, <2>2 DEF IndInv, MarksBehind
  <1>6. job.at = "idle"
    BY <1>1 DEF NoJob
  <1>7. JobShape'
    BY <1>1, <1>6 DEF JobShape, Sweeping, Deleting
  <1>8. SweepInv'
    BY <1>1, <1>6 DEF IndInv, SweepInv, WindowsHeld, ExpiredSwept, ClassifiedSwept, Clean, Sweeping,
                     Deleting, Excused
  <1> QED
    BY <1>3, <1>4, <1>5, <1>7, <1>8 DEF IndInv

\* A batch is committed.
LEMMA ArriveStep == ASSUME IndInv, NEW r \in Records, Arrive(r) PROVE IndInv'
  <1>1. /\ received[r] = 0 /\ received' = [received EXCEPT ![r] = today]
        /\ UNCHANGED <<today, journal, ingest, inserted, cursor, poll, read, incidents, keeps, mark,
                       job, pruned, crashes, overdue>>
    BY DEF Arrive, collector, retention
  <1>2. received \in [Records -> Days] /\ today \in 1 .. LastDay /\ today \in Days
    BY JournalAssumption DEF IndInv, Shapes, Days
  <1>3. received' \in [Records -> Days] /\ \A x \in Records : x # r => received'[x] = received[x]
    BY <1>1, <1>2
  <1>4. /\ \A x \in journal \cup pruned : received'[x] = received[x]
        /\ poll.at = "rows" => \A x \in poll.rows : x \in Records => received'[x] = received[x]
    <2>1. \A x \in Records : received[x] \in 1 .. today => received'[x] = received[x]
      BY <1>1, <1>3
    <2>2. journal \subseteq Records /\ pruned \subseteq Records
      BY DEF IndInv, Shapes
    <2> QED
      BY <2>1, <2>2 DEF IndInv, Shapes, PollShape
  <1>5. Shapes'
    <2>1. \A x \in Records : received'[x] \in 0 .. today
      BY <1>1, <1>2, <1>3 DEF IndInv, Shapes
    <2> QED
      BY <1>1, <1>3, <1>4, <2>1 DEF IndInv, Shapes
  <1>6. PollShape'
    <2>1. poll.at = "rows" => poll.rows \subseteq Records
      BY DEF IndInv, PollShape, NoPoll, Polls
    <2>2. poll.at = "rows" => \A x \in poll.rows : received'[x] \in 1 .. today
      BY <1>4, <2>1 DEF IndInv, PollShape
    <2> QED
      BY <1>1, <2>2 DEF IndInv, PollShape
  <1>7. MarksBehind'
    BY <1>1, <1>4 DEF IndInv, MarksBehind, Cutoff, Expiry
  <1>8. JobShape'
    BY <1>1, QuietJob DEF IndInv
  <1>9. SweepInv'
    <2>1. \A x \in journal : Excused(x) => Excused(x)'
      BY <1>1, <1>4 DEF Excused
    <2> QED
      BY <1>1, <1>4, <2>1, QuietSweep DEF IndInv
  <1> QED
    BY <1>5, <1>6, <1>7, <1>8, <1>9 DEF IndInv

\* A poll begins.
LEMMA PollBeginsStep == ASSUME IndInv, PollBegins PROVE IndInv'
  <1>1. UNCHANGED <<today, received, journal, ingest, inserted, cursor, read, incidents, keeps, mark,
                    job, pruned, crashes, overdue>>
    BY DEF PollBegins, retention
  <1>2. PICK scan \in Records \cup {0} :
            /\ Continued(scan)
            /\ poll' = [at |-> "rows", rows |-> TailPage \cup ReconcilePage, high |-> cursor.high,
                        top |-> cursor.high, floor |-> mark.pruned, evidence |-> mark.evidence,
                        scan |-> scan]
    BY DEF PollBegins
  <1>3. TailPage \subseteq Held /\ ReconcilePage \subseteq {r \in Held : r <= cursor.high}
    BY DEF TailPage, ReconcilePage, Page
  <1>4. /\ cursor \in [scan : Seqs, high : Seqs] /\ cursor.high \in Seqs /\ cursor.high \in Nat
        /\ mark.pruned \in Days /\ mark.evidence \in Int
    BY SeqsNat DEF IndInv, PollShape, Shapes
  <1>5. scan \in Seqs /\ scan <= cursor.high
    <2>1. scan \in Seqs
      BY DEF Seqs
    <2>2. scan = 0 \/ scan \in ReconcilePage
      BY <1>2 DEF Continued
    <2> QED
      BY <1>3, <1>4, <2>1, <2>2
  <1>6. Held \subseteq Records
    BY DEF Held
  <1>7. \A r \in Held : received[r] \in 1 .. today
    BY Numbers DEF Held, IndInv, Shapes
  <1>8. poll' \in Polls
    <2>1. TailPage \cup ReconcilePage \in SUBSET Records
      BY <1>3, <1>6
    <2> QED
      BY <1>2, <1>4, <1>5, <2>1 DEF Polls
  <1>9. /\ poll'.rows \subseteq Held /\ poll'.scan <= poll'.high /\ poll'.high <= poll'.top
    BY <1>2, <1>3, <1>4, <1>5
  <1>10. Shapes'
    BY <1>1 DEF IndInv, Shapes
  <1>11. PollShape'
    BY <1>1, <1>7, <1>8, <1>9 DEF IndInv, PollShape
  <1>12. MarksBehind' /\ JobShape'
    BY <1>1, QuietMarks, QuietJob DEF IndInv
  <1>13. SweepInv'
    BY <1>1, QuietSweep DEF IndInv, Excused
  <1> QED
    BY <1>10, <1>11, <1>12, <1>13 DEF IndInv

\* The cursor is saved.
LEMMA PollEndsStep == ASSUME IndInv, PollEnds PROVE IndInv'
  <1>1. /\ UNCHANGED <<today, received, journal, ingest, inserted, read, incidents, keeps, mark,
                       job, pruned, crashes, overdue>>
        /\ poll.at = "rows" /\ poll' = NoPoll /\ cursor' = [scan |-> poll.scan, high |-> poll.top]
    BY DEF PollEnds, retention
  <1>2. /\ poll.scan \in Seqs /\ poll.high \in Seqs /\ poll.top \in Seqs
        /\ poll.scan <= poll.high /\ poll.high <= poll.top
    BY <1>1 DEF IndInv, PollShape, NoPoll, Polls
  <1>3. poll.scan <= poll.top
    <2>1. poll.scan \in Nat /\ poll.high \in Nat /\ poll.top \in Nat
      BY <1>2, SeqsNat
    <2> QED
      BY <1>2, <2>1
  <1>4. Shapes'
    BY <1>1 DEF IndInv, Shapes
  <1>5. PollShape'
    BY <1>1, <1>2, <1>3 DEF PollShape, NoPoll
  <1>6. MarksBehind' /\ JobShape'
    BY <1>1, QuietMarks, QuietJob DEF IndInv
  <1>7. SweepInv'
    BY <1>1, QuietSweep DEF IndInv, Excused
  <1> QED
    BY <1>4, <1>5, <1>6, <1>7 DEF IndInv

\* The collector restarts.
LEMMA RestartStep == ASSUME IndInv, Restart PROVE IndInv'
  <1>1. /\ UNCHANGED <<today, received, journal, ingest, inserted, cursor, read, incidents, keeps, mark,
                       job, pruned, overdue>>
        /\ poll' = NoPoll /\ crashes < MaxCrashes /\ crashes' = crashes + 1
    BY DEF Restart, retention
  <1>2. Shapes'
    <2>1. crashes' \in 0 .. MaxCrashes
      BY <1>1, JournalAssumption DEF IndInv, Shapes
    <2> QED
      BY <1>1, <2>1 DEF IndInv, Shapes
  <1>3. PollShape'
    BY <1>1 DEF IndInv, PollShape, NoPoll
  <1>4. MarksBehind' /\ JobShape'
    BY <1>1, QuietMarks, QuietJob DEF IndInv
  <1>5. SweepInv'
    BY <1>1, QuietSweep DEF IndInv, Excused
  <1> QED
    BY <1>2, <1>3, <1>4, <1>5 DEF IndInv

\* The worker reads a row; it may find an incident.
LEMMA WorkerReadsStep == ASSUME IndInv, WorkerReads PROVE IndInv'
  <1>1. UNCHANGED <<today, received, journal, ingest, inserted, cursor, poll, keeps, mark, job, pruned,
                    crashes, overdue>>
    BY DEF WorkerReads, collector, retention
  <1>2. PICK r \in Unread :
            /\ read' = ingest[r]
            /\ incidents' \in {incidents, incidents \cup ({received[r]} \cap WindowDays)}
    BY DEF WorkerReads
  <1>3. r \in journal /\ ingest[r] > read /\ ingest[r] \in 0 .. inserted
    BY DEF Unread, IndInv, Shapes
  <1>4. read' \in 0 .. inserted /\ read <= read' /\ read \in Nat
    BY <1>2, <1>3, Numbers DEF IndInv
  <1>5. incidents \subseteq incidents' /\ incidents' \subseteq WindowDays
    BY <1>2 DEF IndInv, Shapes
  <1>6. Shapes'
    BY <1>1, <1>4, <1>5 DEF IndInv, Shapes
  <1>7. PollShape' /\ MarksBehind'
    BY <1>1, QuietPoll, QuietMarks DEF IndInv
  <1>8. JobShape'
    <2>1. Sweeping => job.read <= read'
      <3>1. Sweeping => job.read <= read /\ job.read \in Nat
        BY JobTypes, SweepTypes DEF IndInv, JobShape
      <3> QED
        BY <1>3, <1>4, <3>1, Numbers DEF IndInv
    <2>2. job.at = "reads" => job.windows \subseteq incidents'
      BY <1>5 DEF IndInv, JobShape
    <2> QED
      BY <1>1, <2>1, <2>2 DEF IndInv, JobShape, Sweeping, Deleting, Cutoff, Expiry
  <1>9. SweepInv'
    <2>1. \A x \in journal : Excused(x) => Excused(x)'
      BY <1>1, <1>5 DEF Excused
    <2> QED
      BY <1>1, <2>1, QuietSweep DEF IndInv
  <1> QED
    BY <1>6, <1>7, <1>8, <1>9 DEF IndInv

\* An operator keeps a day or releases it.
LEMMA KeepStep == ASSUME IndInv, NEW d \in WindowDays, AddKeep(d) \/ RemoveKeep(d) PROVE IndInv'
  <1>1. UNCHANGED <<today, received, journal, ingest, inserted, cursor, poll, read, incidents, mark, job,
                    pruned, crashes>>
    BY DEF AddKeep, RemoveKeep, collector, retention
  <1>2. \/ keeps' = keeps \cup {d} /\ overdue' = overdue
        \/ keeps' = keeps \ {d} /\ overdue' = overdue \cup {r \in journal : received[r] = d}
    BY DEF AddKeep, RemoveKeep
  <1>3. Shapes'
    BY <1>1, <1>2 DEF IndInv, Shapes
  <1>4. PollShape' /\ MarksBehind' /\ JobShape'
    BY <1>1, QuietPoll, QuietMarks, QuietJob DEF IndInv
  <1>5. SweepInv'
    <2>1. \A x \in journal : Excused(x) => Excused(x)'
      BY <1>1, <1>2 DEF Excused
    <2> QED
      BY <1>1, <1>2, <2>1, QuietSweep DEF IndInv
  <1> QED
    BY <1>3, <1>4, <1>5 DEF IndInv

\* A record that is inserted behind the sweep, or behind the watermark, is overdue.
LEMMA InsertStep ==
    ASSUME IndInv, NEW r \in Records, r \notin journal, received[r] \in 1 .. today, Insert(r),
           UNCHANGED <<today, received, cursor, read, incidents, keeps, mark, job, crashes>>
    PROVE  Shapes' /\ MarksBehind' /\ JobShape' /\ SweepInv'
  <1>1. /\ inserted < MaxIngest /\ journal' = journal \cup {r} /\ inserted' = inserted + 1
        /\ ingest' = [ingest EXCEPT ![r] = inserted + 1] /\ pruned' = pruned \ {r}
        /\ overdue' = IF received[r] < mark.classified \/ Passed(r)
                      THEN overdue \cup {r} ELSE overdue
    BY DEF Insert
  <1>2. Shapes /\ inserted \in Nat /\ read <= inserted /\ read \in Nat
    BY Numbers DEF IndInv
  <1>3. inserted + 1 \in 0 .. MaxIngest /\ read \in 0 .. inserted + 1 /\ inserted + 1 # 0
    BY <1>1, <1>2, JournalAssumption
  <1>4. /\ ingest' \in [Records -> 0 .. inserted + 1] /\ ingest'[r] = inserted + 1
        /\ \A x \in Records : x # r => ingest'[x] = ingest[x]
    <2>1. ingest \in [Records -> 0 .. inserted]
      BY <1>2 DEF Shapes
    <2>2. ingest \in [Records -> 0 .. inserted + 1]
      BY <1>2, <2>1
    <2>3. inserted + 1 \in 0 .. inserted + 1
      BY <1>2
    <2> QED
      BY <1>1, <2>1, <2>2, <2>3
  <1>5. journal' = {x \in Records : ingest'[x] # 0}
    <2>1. journal = {x \in Records : ingest[x] # 0}
      BY <1>2 DEF Shapes
    <2> QED
      BY <1>1, <1>3, <1>4, <2>1
  <1>6. Shapes'
    BY <1>1, <1>3, <1>4, <1>5 DEF IndInv, Shapes
  <1>7. MarksBehind'
    BY <1>1 DEF IndInv, MarksBehind, Cutoff, Expiry
  <1>8. JobShape'
    BY QuietJob DEF IndInv
  <1>9. \A x \in journal : x # r /\ ingest'[x] = ingest[x] /\ (Excused(x) => Excused(x)')
    BY <1>1, <1>2, <1>4 DEF Shapes, Excused
  <1>10. Sweeping => ingest'[r] > job.read
    <2>1. Sweeping => job.read <= read /\ job.read \in Nat
      BY JobTypes, SweepTypes DEF IndInv, JobShape
    <2> QED
      BY <1>2, <1>4, <2>1
  <1>11. (received[r] < mark.classified \/ Passed(r)) => r \in overdue' /\ Excused(r)'
    BY <1>1 DEF Excused
  <1>12. WindowsHeld'
    BY <1>1, <1>9, <1>10 DEF IndInv, SweepInv, WindowsHeld, Sweeping
  <1>13. ExpiredSwept'
    <2> SUFFICES ASSUME Deleting, NEW x \in journal', received[x] < Expiry,
                        job.at = "expire" => ~After(x, job.place)
                 PROVE  x \in overdue' \/ Kept(x)'
      BY DEF ExpiredSwept, Deleting, Expiry, After
    <2>1. CASE x = r
      <3>1. job \in Sweeps
        BY JobTypes DEF IndInv, Sweeping, Deleting
      <3>2. /\ job.place.day \in Int /\ job.from \in Int /\ received[r] \in Int /\ Expiry \in Int
            /\ Cutoff \in Int /\ Expiry < Cutoff
        BY <1>2, <3>1, SweepTypes, Numbers
      <3>3. Passed(r)
        <4>1. CASE job.at = "expire"
          BY <2>1, <4>1 DEF Passed
        <4>2. CASE job.at = "classify"
          <5>1. Expiry <= job.from /\ job.from <= job.place.day
            BY <4>2 DEF IndInv, JobShape, Sweeping
          <5>2. received[r] < job.place.day
            BY <2>1, <3>2, <5>1
          <5>3. ~After(r, job.place)
            BY <3>2, <5>2 DEF After
          <5> QED
            BY <4>2, <5>3 DEF Passed
        <4>3. CASE job.at = "done"
          BY <2>1, <3>2, <4>3 DEF Passed
        <4> QED
          BY <4>1, <4>2, <4>3 DEF Deleting
      <3> QED
        BY <1>11, <2>1, <3>3
    <2>2. CASE x # r
      BY <1>1, <1>9, <2>2 DEF IndInv, SweepInv, ExpiredSwept, Kept
    <2> QED
      BY <2>1, <2>2
  <1>14. ClassifiedSwept'
    <2> SUFFICES ASSUME job.at \in {"classify", "done"}, NEW x \in journal', x \notin Lasting,
                        received[x] >= job.from, received[x] < Cutoff,
                        job.at = "classify" => ~After(x, job.place)
                 PROVE  Excused(x)' \/ Kept(x)'
      BY DEF ClassifiedSwept, Cutoff, After
    <2>1. CASE x = r
      <3>1. Passed(r)
        BY <2>1 DEF Passed
      <3> QED
        BY <1>11, <2>1, <3>1
    <2>2. CASE x # r
      <3>1. x \in journal
        BY <1>1, <2>2
      <3>2. Excused(x) \/ Kept(x)
        BY <3>1 DEF IndInv, SweepInv, ClassifiedSwept
      <3>3. Kept(x) => Kept(x)'
        BY <1>9, <3>1 DEF Kept
      <3> QED
        BY <1>9, <3>1, <3>2, <3>3
    <2> QED
      BY <2>1, <2>2
  <1>15. Clean'
    <2> SUFFICES ASSUME NEW x \in journal', received[x] < mark.classified, x \notin Lasting
                 PROVE  Excused(x)'
      BY DEF Clean
    <2>1. CASE x = r
      BY <1>11, <2>1
    <2>2. CASE x # r
      BY <1>1, <1>9, <2>2 DEF IndInv, SweepInv, Clean
    <2> QED
      BY <2>1, <2>2
  <1> QED
    BY <1>6, <1>7, <1>8, <1>12, <1>13, <1>14, <1>15 DEF SweepInv

\* A poll that has still these rows to handle, and has seen this record last.
Handled(p, rows, top) == [p EXCEPT !.rows = rows, !.top = top]

\* Handling a row changes nothing of a poll but its rows and its top.
LEMMA HandledTypes ==
    ASSUME NEW p \in Polls, NEW rows \in SUBSET Records, NEW top \in Seqs
    PROVE  /\ Handled(p, rows, top) \in Polls
           /\ Handled(p, rows, top).rows = rows /\ Handled(p, rows, top).top = top
           /\ Handled(p, rows, top).high = p.high /\ Handled(p, rows, top).scan = p.scan
           /\ Handled(p, rows, top).floor = p.floor /\ Handled(p, rows, top).evidence = p.evidence
           /\ Handled(p, rows, top).at = "rows"
  BY DEF Polls, Handled

\* One record of the poll: it is there, was pruned, or is inserted.
LEMMA PollRowStep == ASSUME IndInv, PollRow PROVE IndInv'
  <1>1. /\ poll.at = "rows"
        /\ UNCHANGED <<today, received, cursor, read, incidents, keeps, mark, job, crashes>>
    BY DEF PollRow
  <1>2. PICK r \in poll.rows :
            /\ poll' = [poll EXCEPT !.rows = @ \ {r}, !.top = Larger(r, @)]
            /\ \/ UNCHANGED <<journal, ingest, inserted, pruned, overdue>>
               \/ r \notin journal /\ Insert(r)
    BY DEF PollRow
  <1>3. poll \in Polls
    BY <1>1 DEF IndInv, PollShape, NoPoll
  <1>4. r \in Records /\ received[r] \in 1 .. today
    BY <1>1, <1>2, <1>3 DEF IndInv, PollShape, Polls
  <1>5. /\ poll' \in Polls /\ poll'.rows \subseteq poll.rows /\ poll'.high = poll.high
        /\ poll'.scan = poll.scan /\ poll'.floor = poll.floor /\ poll'.evidence = poll.evidence
        /\ poll.top \in Seqs /\ poll'.top = Larger(r, poll.top) /\ poll'.at = "rows"
    <2>1. r \in Seqs /\ poll.top \in Seqs
      BY <1>3, <1>4 DEF Seqs, Polls
    <2>2. Larger(r, poll.top) \in Seqs
      BY <2>1 DEF Larger
    <2>3. poll.rows \ {r} \in SUBSET Records
      BY <1>3 DEF Polls
    <2>4. poll' = Handled(poll, poll.rows \ {r}, Larger(r, poll.top))
      BY <1>2 DEF Handled
    <2> QED
      BY <1>3, <2>1, <2>2, <2>3, <2>4, HandledTypes
  <1>6. PollShape'
    <2>1. poll.high \in Seqs
      BY <1>3 DEF Polls
    <2>2. poll.high \in Nat /\ poll.top \in Nat /\ r \in Nat
      BY <1>4, <1>5, <2>1, SeqsNat, JournalAssumption
    <2>3. poll.high <= poll'.top
      BY <1>1, <1>5, <2>2 DEF IndInv, PollShape, Larger
    <2> QED
      BY <1>1, <1>5, <2>3 DEF IndInv, PollShape
  <1>7. CASE UNCHANGED <<journal, ingest, inserted, pruned, overdue>>
    <2>1. Shapes'
      BY <1>1, <1>7 DEF IndInv, Shapes
    <2>2. MarksBehind' /\ JobShape'
      BY <1>1, <1>7, QuietMarks, QuietJob DEF IndInv
    <2>3. SweepInv'
      BY <1>1, <1>7, QuietSweep DEF IndInv, Excused
    <2> QED
      BY <1>6, <2>1, <2>2, <2>3 DEF IndInv
  <1>8. CASE r \notin journal /\ Insert(r)
    BY <1>1, <1>4, <1>6, <1>8, InsertStep DEF IndInv
  <1> QED
    BY <1>2, <1>7, <1>8
-----------------------------------------------------------------------------
(* The retention job. *)

\* The job reads the incidents.
LEMMA PruneReadsStep == ASSUME IndInv, PruneReads PROVE IndInv'
  <1>1. /\ today > FullDays /\ job' = [at |-> "reads", windows |-> incidents]
        /\ UNCHANGED <<today, received, journal, ingest, inserted, cursor, poll, read, incidents, keeps,
                       mark, crashes, pruned, overdue>>
    BY DEF PruneReads, collector
  <1>2. job' \in Reads /\ job'.at = "reads" /\ job'.windows = incidents
    BY <1>1 DEF Reads, IndInv, Shapes
  <1>3. Shapes'
    BY <1>1 DEF IndInv, Shapes
  <1>4. PollShape' /\ MarksBehind'
    BY <1>1, QuietPoll, QuietMarks DEF IndInv
  <1>5. JobShape'
    BY <1>1, <1>2 DEF JobShape, Sweeping, Deleting
  <1>6. SweepInv'
    BY <1>1, <1>2 DEF IndInv, SweepInv, WindowsHeld, ExpiredSwept, ClassifiedSwept, Clean, Sweeping,
                     Deleting, Excused
  <1> QED
    BY <1>3, <1>4, <1>5, <1>6 DEF IndInv

\* The job is killed.
LEMMA KilledStep == ASSUME IndInv, Killed PROVE IndInv'
  <1>1. /\ job' = NoJob /\ job'.at = "idle" /\ crashes < MaxCrashes /\ crashes' = crashes + 1
        /\ UNCHANGED <<today, received, journal, ingest, inserted, cursor, poll, read, incidents, keeps,
                       mark, pruned, overdue>>
    BY DEF Killed, collector, NoJob
  <1>2. Shapes'
    <2>1. crashes' \in 0 .. MaxCrashes
      BY <1>1, JournalAssumption DEF IndInv, Shapes
    <2> QED
      BY <1>1, <2>1 DEF IndInv, Shapes
  <1>3. PollShape' /\ MarksBehind'
    BY <1>1, QuietPoll, QuietMarks DEF IndInv
  <1>4. JobShape'
    BY <1>1 DEF JobShape, Sweeping, Deleting
  <1>5. SweepInv'
    BY <1>1 DEF IndInv, SweepInv, WindowsHeld, ExpiredSwept, ClassifiedSwept, Clean, Sweeping, Deleting,
                Excused
  <1> QED
    BY <1>2, <1>3, <1>4, <1>5 DEF IndInv

\* The first mark is written, and the job knows what it will sweep.
LEMMA PruneBeginsStep == ASSUME IndInv, PruneBegins PROVE IndInv'
  <1> DEFINE from == IF FullScan THEN Expiry ELSE Larger(Expiry, mark.classified)
  <1>1. /\ job.at = "reads" /\ mark' = [mark EXCEPT !.pruned = Larger(Cutoff, @)]
        /\ UNCHANGED <<today, received, journal, ingest, inserted, cursor, poll, read, incidents, keeps,
                       crashes, pruned, overdue>>
        /\ job' = [at |-> "marks", place |-> Start, windows |-> job.windows \cup keeps, read |-> read,
                   full |-> FullScan, from |-> from, awaiting |-> Never]
    BY DEF PruneBegins, Scoped, collector
  <1>2. /\ today \in Nat /\ Cutoff \in Int /\ Expiry \in Int /\ mark.pruned \in Nat
        /\ mark.classified \in Nat /\ mark.evidence \in Int /\ read \in Nat /\ Expiry < Cutoff
    BY Numbers DEF IndInv
  <1>3. today > FullDays /\ Cutoff >= 1 /\ Cutoff \in Days
    <2>1. today > FullDays
      BY <1>1 DEF IndInv, JobShape, NoJob
    <2>2. today <= LastDay
      BY JournalAssumption DEF IndInv, Shapes
    <2> QED
      BY <1>2, <2>1, <2>2, JournalAssumption DEF Cutoff, Days
  <1>4. Larger(Cutoff, mark.pruned) = Cutoff
    BY <1>2, <1>3 DEF IndInv, MarksBehind, Larger, Never
  <1>5. /\ mark' \in [pruned : Days, evidence : Int, classified : Days, scanned : Days]
        /\ mark'.pruned = Cutoff /\ mark'.evidence = mark.evidence /\ mark'.classified = mark.classified
    <2>1. mark \in [pruned : Days, evidence : Int, classified : Days, scanned : Days]
      BY DEF IndInv, Shapes
    <2>2. mark' = [mark EXCEPT !.pruned = Cutoff]
      BY <1>1, <1>4
    <2> QED
      BY <1>2, <1>3, <2>1, <2>2
  <1>6. Cutoff' = Cutoff /\ Expiry' = Expiry
    BY <1>1 DEF Cutoff, Expiry
  <1>7. from \in Int /\ Expiry <= from /\ (from = Expiry \/ from = mark.classified)
    BY <1>2 DEF Larger
  <1> HIDE DEF from
  <1>8. job.windows \cup keeps \subseteq incidents \cup keeps /\ job.windows \cup keeps \subseteq WindowDays
    BY <1>1 DEF IndInv, Shapes, JobShape
  <1>9. /\ job' \in Sweeps /\ job'.at = "marks" /\ job'.read = read /\ job'.from = from
        /\ job'.awaiting = Never /\ job'.place = Start /\ job'.windows = job.windows \cup keeps
    <2>1. Start \in [day : Int, of : Seqs] /\ FullScan \in BOOLEAN /\ Never \in Days
      BY JournalAssumption DEF Start, Seqs, FullScan, Never, Days
    <2>2. read \in 0 .. MaxIngest
      BY JournalAssumption DEF IndInv, Shapes
    <2> QED
      BY <1>1, <1>7, <1>8, <2>1, <2>2 DEF Sweeps
  <1>10. Shapes'
    BY <1>1, <1>5 DEF IndInv, Shapes
  <1>11. PollShape'
    BY <1>1, QuietPoll DEF IndInv
  <1>12. MarksBehind'
    <2>1. ASSUME NEW r \in pruned
          PROVE  received[r] < Cutoff /\ (r \in Lasting => received[r] < mark.evidence)
      <3>1. /\ mark.pruned # Never /\ received[r] < mark.pruned /\ mark.pruned <= Cutoff
            /\ r \in Lasting => received[r] < mark.evidence
        BY DEF IndInv, MarksBehind
      <3>2. received[r] \in Int
        BY DEF IndInv, Shapes
      <3> QED
        BY <1>2, <3>1, <3>2
    <2>2. Cutoff # Never /\ Cutoff <= Cutoff
      BY <1>2, <1>3 DEF Never
    <2>3. mark.evidence = Never \/ mark.evidence <= Expiry
      BY DEF IndInv, MarksBehind
    <2> QED
      BY <1>1, <1>5, <1>6, <2>1, <2>2, <2>3 DEF MarksBehind
  <1>13. JobShape'
    BY <1>1, <1>2, <1>3, <1>5, <1>6, <1>7, <1>9 DEF JobShape, Sweeping, Deleting
  <1>14. SweepInv'
    <2>1. WindowsHeld'
      BY <1>1, <1>8, <1>9 DEF WindowsHeld, Excused
    <2>2. ExpiredSwept'
      BY <1>9 DEF ExpiredSwept, Deleting
    <2>3. ClassifiedSwept'
      BY <1>9 DEF ClassifiedSwept
    <2>4. Clean'
      BY <1>1, <1>5 DEF IndInv, SweepInv, Clean, Excused
    <2> QED
      BY <2>1, <2>2, <2>3, <2>4 DEF SweepInv
  <1> QED
    BY <1>10, <1>11, <1>12, <1>13, <1>14 DEF IndInv
\* The second mark is written, and the sweep begins before the first day.
LEMMA PruneMarksStep == ASSUME IndInv, PruneMarks PROVE IndInv'
  <1>1. /\ job.at = "marks" /\ mark' = [mark EXCEPT !.evidence = Expiry]
        /\ job' = [job EXCEPT !.at = "expire"]
        /\ UNCHANGED <<today, received, journal, ingest, inserted, cursor, poll, read, incidents, keeps,
                       crashes, pruned, overdue>>
    BY DEF PruneMarks, collector
  <1>2. Cutoff \in Int /\ Expiry \in Int /\ Cutoff' = Cutoff /\ Expiry' = Expiry
    BY <1>1, Numbers DEF IndInv, Cutoff, Expiry
  <1>3. /\ mark' \in [pruned : Days, evidence : Int, classified : Days, scanned : Days]
        /\ mark'.pruned = mark.pruned /\ mark'.evidence = Expiry /\ mark'.classified = mark.classified
    <2>1. mark \in [pruned : Days, evidence : Int, classified : Days, scanned : Days]
      BY DEF IndInv, Shapes
    <2> QED
      BY <1>1, <1>2, <2>1
  <1>4. job \in Sweeps /\ Sweeping /\ job.place = Start /\ job.awaiting = Never
    BY <1>1, JobTypes DEF IndInv, Sweeping, JobShape
  <1>5. /\ job' \in Sweeps /\ job'.at = "expire" /\ job'.read = job.read /\ job'.from = job.from
        /\ job'.awaiting = Never /\ job'.place = Start /\ job'.windows = job.windows
    BY <1>1, <1>4 DEF Sweeps
  <1>6. Shapes'
    BY <1>1, <1>3 DEF IndInv, Shapes
  <1>7. PollShape'
    BY <1>1, QuietPoll DEF IndInv
  <1>8. MarksBehind'
    <2>1. ASSUME NEW r \in pruned, r \in Lasting PROVE received[r] < Expiry
      <3>1. received[r] < mark.evidence /\ (mark.evidence = Never \/ mark.evidence <= Expiry)
        BY <2>1 DEF IndInv, MarksBehind
      <3>2. received[r] \in Nat /\ received[r] >= 1 /\ mark.evidence \in Int
        BY Numbers DEF IndInv, Shapes
      <3> QED
        BY <1>2, <3>1, <3>2 DEF Never
    <2>2. Expiry <= Expiry
      BY <1>2
    <2> QED
      BY <1>1, <1>2, <1>3, <2>1, <2>2 DEF IndInv, MarksBehind
  <1>9. JobShape'
    <2>1. job # NoJob /\ job' # NoJob
      BY <1>1, <1>5 DEF NoJob
    <2> QED
      BY <1>1, <1>2, <1>3, <1>4, <1>5, <2>1 DEF IndInv, JobShape, Sweeping, Deleting
  <1>10. SweepInv'
    <2>1. WindowsHeld'
      BY <1>1, <1>4, <1>5 DEF IndInv, SweepInv, WindowsHeld, Excused
    <2>2. ExpiredSwept'
      <3>1. \A r \in journal' : received'[r] > job'.place.day
        BY <1>1, <1>5, Numbers DEF IndInv, Start
      <3> QED
        BY <1>5, <3>1 DEF ExpiredSwept, After
    <2>3. ClassifiedSwept'
      BY <1>5 DEF ClassifiedSwept
    <2>4. Clean'
      BY <1>1, <1>3 DEF IndInv, SweepInv, Clean, Excused
    <2> QED
      BY <2>1, <2>2, <2>3, <2>4 DEF SweepInv
  <1> QED
    BY <1>6, <1>7, <1>8, <1>9, <1>10 DEF IndInv

-----------------------------------------------------------------------------
(* The two sweeps. *)

\* What a job that sweeps becomes: it has passed a row, or begins the next range.
Moved(j, place, awaiting) == [j EXCEPT !.place = place, !.awaiting = awaiting]
Turned(j, at, place) == [j EXCEPT !.at = at, !.place = place]

\* Passing a row changes nothing of a job but its place and what it waits for.
LEMMA MovedTypes ==
    ASSUME NEW j \in Sweeps, NEW place \in [day : Int, of : Seqs], NEW awaiting \in Days
    PROVE  /\ Moved(j, place, awaiting) \in Sweeps
           /\ Moved(j, place, awaiting).place = place /\ Moved(j, place, awaiting).awaiting = awaiting
           /\ Moved(j, place, awaiting).at = j.at /\ Moved(j, place, awaiting).windows = j.windows
           /\ Moved(j, place, awaiting).read = j.read /\ Moved(j, place, awaiting).from = j.from
           /\ Moved(j, place, awaiting).full = j.full
  BY DEF Sweeps, Moved

\* Beginning a range changes nothing of a job but its place and its range.
LEMMA TurnedTypes ==
    ASSUME NEW j \in Sweeps, NEW place \in [day : Int, of : Seqs], NEW at \in {"classify", "done"}
    PROVE  /\ Turned(j, at, place) \in Sweeps
           /\ Turned(j, at, place).place = place /\ Turned(j, at, place).at = at
           /\ Turned(j, at, place).awaiting = j.awaiting /\ Turned(j, at, place).windows = j.windows
           /\ Turned(j, at, place).read = j.read /\ Turned(j, at, place).from = j.from
           /\ Turned(j, at, place).full = j.full
  BY DEF Sweeps, Turned

Swept == IF job.at = "expire" THEN Expired ELSE Classified
Place(row) == [day |-> received[row], of |-> row]
Waited(row) == IF job.awaiting = Never /\ Awaiting(row) THEN received[row] ELSE job.awaiting

\* A step of either sweep that passes a row, or finds none.
Passes(row) ==
    LET doomed == IF Doomed(row) THEN {row} ELSE {} IN
    /\ row \in Swept /\ After(row, job.place)
    /\ \A x \in Swept : After(x, job.place) => x = row \/ After(x, Place(row))
    /\ job' = Moved(job, Place(row), Waited(row))
    /\ journal' = journal \ doomed
    /\ ingest' = [r \in Records |-> IF r \in doomed THEN 0 ELSE ingest[r]]
    /\ pruned' = pruned \cup doomed /\ overdue' = overdue \ doomed
    /\ UNCHANGED <<today, received, inserted, cursor, poll, read, incidents, keeps, mark, crashes>>
Through(next, first) ==
    /\ \A x \in Swept : ~After(x, job.place)
    /\ job' = Turned(job, next, first)
    /\ UNCHANGED <<today, received, journal, ingest, inserted, cursor, poll, read, incidents, keeps,
                   mark, crashes, pruned, overdue>>

\* A sweep passes a row or is through.
LEMMA SweepCases ==
    /\ Expire => /\ job.at = "expire"
                 /\ (\E row \in journal : Passes(row)) \/ Through("classify", [day |-> job.from, of |-> 0])
    /\ Classify => /\ job.at = "classify"
                   /\ (\E row \in journal : Passes(row)) \/ Through("done", Start)
  <1>1. ASSUME NEW range \in SUBSET journal, range = Swept, NEW next, NEW first,
               SweepPage(range, next, first)
        PROVE  (\E row \in journal : Passes(row)) \/ Through(next, first)
    <2> DEFINE rest == {r \in range : After(r, job.place)}
    <2>1. UNCHANGED <<today, received, inserted, cursor, poll, read, incidents, keeps, mark, crashes>>
      BY <1>1 DEF SweepPage, collector
    <2>2. CASE /\ rest = {} /\ job' = [job EXCEPT !.at = next, !.place = first]
               /\ UNCHANGED <<journal, ingest, pruned, overdue>>
      BY <1>1, <2>1, <2>2 DEF Through, Turned
    <2>3. ASSUME NEW row \in rest,
                 LET place == [day |-> received[row], of |-> row]
                     doomed == IF Doomed(row) THEN {row} ELSE {}
                 IN  /\ \A x \in rest : x = row \/ After(x, place)
                     /\ job' = [job EXCEPT !.place = place,
                               !.awaiting = IF @ = Never /\ Awaiting(row) THEN received[row] ELSE @]
                     /\ journal' = journal \ doomed
                     /\ ingest' = [r \in Records |-> IF r \in doomed THEN 0 ELSE ingest[r]]
                     /\ pruned' = pruned \cup doomed /\ overdue' = overdue \ doomed
          PROVE  Passes(row) /\ row \in journal
      <3>1. row \in range /\ After(row, job.place) /\ row \in journal
        BY <1>1
      <3>2. \A x \in range : After(x, job.place) => x = row \/ After(x, Place(row))
        BY <2>3 DEF Place
      <3>3. job' = Moved(job, Place(row), Waited(row))
        BY <2>3 DEF Moved, Place, Waited
      <3> QED
        BY <1>1, <2>1, <2>3, <3>1, <3>2, <3>3 DEF Passes
    <2> QED
      BY <1>1, <2>2, <2>3 DEF SweepPage
  <1>2. Expired \in SUBSET journal /\ Classified \in SUBSET journal
    BY DEF Expired, Classified
  <1>3. ASSUME Expire
        PROVE  /\ job.at = "expire"
               /\ (\E row \in journal : Passes(row)) \/ Through("classify", [day |-> job.from, of |-> 0])
    <2>1. job.at = "expire" /\ SweepPage(Expired, "classify", [day |-> job.from, of |-> 0])
      BY <1>3 DEF Expire
    <2>2. Swept = Expired
      BY <2>1 DEF Swept
    <2> QED
      BY <1>1, <1>2, <2>1, <2>2
  <1>4. ASSUME Classify
        PROVE  /\ job.at = "classify"
               /\ (\E row \in journal : Passes(row)) \/ Through("done", Start)
    <2>1. job.at = "classify" /\ SweepPage(Classified, "done", Start)
      BY <1>4 DEF Classify
    <2>2. Swept = Classified
      BY <2>1 DEF Swept
    <2> QED
      BY <1>1, <1>2, <2>1, <2>2
  <1> QED
    BY <1>3, <1>4

\* What a job that passes a row becomes, and what it leaves of the rows.
LEMMA PassesFacts ==
    ASSUME IndInv, job.at \in {"expire", "classify"}, NEW row \in journal, Passes(row)
    PROVE  /\ job \in Sweeps /\ job' \in Sweeps /\ job'.at = job.at /\ job'.windows = job.windows
           /\ job'.read = job.read /\ job'.from = job.from
           /\ job'.place = Place(row) /\ job'.place.day = received[row] /\ job'.awaiting = Waited(row)
           /\ job.place.day <= received[row] /\ Waited(row) \in Nat
           /\ Waited(row) # Never => Waited(row) <= received[row]
           /\ \A x \in journal' : /\ x \in journal /\ ingest'[x] = ingest[x]
                                  /\ Excused(x) => Excused(x)'
                                  /\ x \in overdue => x \in overdue'
                                  /\ Kept(x) => Kept(x)'
           /\ row \in journal' => ~Doomed(row)
           /\ row \in journal' /\ Awaiting(row) => Kept(row)'
  <1> DEFINE doomed == IF Doomed(row) THEN {row} ELSE {}
  <1>1. /\ After(row, job.place) /\ job' = Moved(job, Place(row), Waited(row))
        /\ journal' = journal \ doomed /\ overdue' = overdue \ doomed
        /\ ingest' = [r \in Records |-> IF r \in doomed THEN 0 ELSE ingest[r]]
        /\ UNCHANGED <<received, incidents, keeps>>
    BY DEF Passes
  <1>2. job \in Sweeps /\ Sweeping
    BY JobTypes DEF IndInv, Sweeping
  <1>3. /\ job.place.day \in Int /\ job.read \in Nat /\ job.from \in Int /\ job.awaiting \in Nat
        /\ job.awaiting \in Days
    BY <1>2, SweepTypes
  <1>4. /\ row \in Records /\ received[row] \in Nat /\ received[row] >= 1 /\ received[row] \in Days
        /\ ingest[row] \in Nat
    BY Numbers DEF IndInv, Shapes
  <1>5. job.place.day <= received[row]
    BY <1>1, <1>3, <1>4 DEF After
  <1>6. job.awaiting # Never => job.awaiting <= job.place.day
    BY DEF IndInv, JobShape
  <1>7. Waited(row) \in Days /\ Waited(row) \in Nat
    BY <1>3, <1>4 DEF Waited
  <1>8. Waited(row) # Never => Waited(row) <= received[row]
    BY <1>3, <1>4, <1>5, <1>6 DEF Waited
  <1>9. Place(row) \in [day : Int, of : Seqs] /\ Place(row).day = received[row]
    BY <1>4 DEF Place, Seqs
  <1>10. /\ job' \in Sweeps /\ job'.at = job.at /\ job'.windows = job.windows
         /\ job'.read = job.read /\ job'.from = job.from
         /\ job'.place = Place(row) /\ job'.place.day = received[row] /\ job'.awaiting = Waited(row)
    BY <1>1, <1>2, <1>7, <1>9, MovedTypes
  <1>11. job.awaiting # Never => Waited(row) = job.awaiting
    BY DEF Waited
  <1>12. ASSUME NEW x \in journal'
         PROVE  /\ x \in journal /\ ingest'[x] = ingest[x]
                /\ Excused(x) => Excused(x)'
                /\ x \in overdue => x \in overdue'
                /\ Kept(x) => Kept(x)'
    <2>1. x \in journal /\ x \notin doomed /\ x \in Records
      BY <1>1 DEF IndInv, Shapes
    <2>2. ingest'[x] = ingest[x]
      BY <1>1, <2>1
    <2>3. x \in overdue => x \in overdue'
      BY <1>1, <2>1
    <2>4. Excused(x) => Excused(x)'
      BY <1>1, <2>3 DEF Excused
    <2>5. Kept(x) => Kept(x)'
      BY <1>1, <1>10, <1>11, <2>2 DEF Kept
    <2> QED
      BY <2>1, <2>2, <2>3, <2>4, <2>5
  <1>13. row \in journal' => ~Doomed(row)
    BY <1>1
  <1>14. ASSUME row \in journal', Awaiting(row)
         PROVE  Kept(row)'
    <2>1. ingest'[row] > job'.read
      BY <1>10, <1>12, <1>14 DEF Awaiting
    <2>2. Waited(row) # Never
      BY <1>4, <1>14 DEF Waited, Never
    <2> QED
      BY <1>1, <1>8, <1>10, <2>1, <2>2 DEF Kept
  <1> QED
    BY <1>2, <1>5, <1>7, <1>8, <1>10, <1>12, <1>13, <1>14

\* A sweep passes a row: it deletes it, or has a reason to leave it.
LEMMA PassesStep ==
    ASSUME IndInv, job.at \in {"expire", "classify"}, NEW row \in journal, Passes(row)
    PROVE  IndInv'
  <1> DEFINE doomed == IF Doomed(row) THEN {row} ELSE {}
  <1>1. /\ row \in Swept /\ \A x \in Swept : After(x, job.place) => x = row \/ After(x, Place(row))
        /\ journal' = journal \ doomed /\ overdue' = overdue \ doomed /\ pruned' = pruned \cup doomed
        /\ ingest' = [r \in Records |-> IF r \in doomed THEN 0 ELSE ingest[r]]
        /\ UNCHANGED <<today, received, inserted, cursor, poll, read, incidents, keeps, mark, crashes>>
    BY DEF Passes
  <1>2. /\ job'.at = job.at /\ job'.windows = job.windows /\ job'.read = job.read /\ job'.from = job.from
        /\ job'.place.day = received[row] /\ job'.awaiting = Waited(row) /\ job' \in Sweeps
        /\ job'.place = Place(row)
    BY PassesFacts
  <1>3. Sweeping /\ Deleting /\ job # NoJob
    BY DEF Sweeping, Deleting, NoJob
  <1>4. /\ row \in Records /\ received[row] \in Nat /\ received[row] >= 1 /\ received[row] <= today
        /\ Cutoff \in Int /\ Expiry \in Int /\ Expiry < Cutoff /\ job.from \in Int
        /\ today > FullDays /\ mark.pruned = Cutoff /\ mark.evidence = Expiry /\ Cutoff # Never
    <2>1. today > FullDays /\ mark.pruned = Cutoff /\ mark.evidence = Expiry
      BY <1>3 DEF IndInv, JobShape
    <2>2. job.from \in Int
      BY <1>3, JobTypes, SweepTypes DEF IndInv
    <2>3. Cutoff # Never
      BY <2>1, Numbers, JournalAssumption DEF IndInv, Cutoff, Never
    <2> QED
      BY <2>1, <2>2, <2>3, Numbers DEF IndInv
  <1>5. /\ received[row] < Cutoff
        /\ job.at = "expire" => received[row] < Expiry
        /\ job.at = "classify" => received[row] >= job.from
    BY <1>1, <1>4 DEF Swept, Expired, Classified
  <1>6. Cutoff' = Cutoff /\ Expiry' = Expiry
    BY <1>1 DEF Cutoff, Expiry
  <1>7. Shapes'
    <2>1. ingest' \in [Records -> 0 .. inserted] /\ journal' = {r \in Records : ingest'[r] # 0}
      <3>1. ingest \in [Records -> 0 .. inserted] /\ journal = {r \in Records : ingest[r] # 0}
            /\ 0 \in 0 .. inserted
        BY Numbers DEF IndInv, Shapes
      <3> QED
        BY <1>1, <3>1
    <2>2. journal' \cap pruned' = {} /\ journal' \cup pruned' \subseteq journal \cup pruned
      BY <1>1 DEF IndInv, Shapes
    <2>3. overdue' \subseteq Records /\ pruned' \subseteq Records
      BY <1>1, <1>4 DEF IndInv, Shapes
    <2> QED
      BY <1>1, <2>1, <2>2, <2>3 DEF IndInv, Shapes
  <1>8. PollShape'
    BY <1>1, QuietPoll DEF IndInv
  <1>9. MarksBehind'
    <2>1. ASSUME row \in doomed
          PROVE  row \in Lasting => received[row] < mark.evidence
      <3>1. CASE job.at = "expire"
        BY <1>4, <1>5, <3>1
      <3>2. CASE job.at = "classify"
        BY <2>1, <3>2 DEF Doomed, Protected
      <3> QED
        BY <3>1, <3>2
    <2>2. \A r \in pruned' : r \in pruned \/ (r = row /\ row \in doomed)
      BY <1>1
    <2>3. \A r \in pruned' : /\ mark.pruned # Never /\ received[r] < mark.pruned
                             /\ r \in Lasting => received[r] < mark.evidence
      BY <1>4, <1>5, <2>1, <2>2 DEF IndInv, MarksBehind
    <2> QED
      BY <1>1, <1>6, <2>3 DEF IndInv, MarksBehind
  <1>10. JobShape'
    <2>1. Waited(row) # Never => Waited(row) <= received[row] /\ (job.at = "expire" => Waited(row) < Expiry)
      BY <1>4, <1>5, PassesFacts
    <2>2. job.at = "classify" => job.from <= received[row]
      BY <1>4, <1>5
    <2> QED
      BY <1>1, <1>2, <1>3, <1>6, <2>1, <2>2 DEF IndInv, JobShape, Sweeping, Deleting, NoJob
  <1>11. WindowsHeld'
    <2> SUFFICES ASSUME NEW x \in journal', received[x] \in job.windows
                 PROVE  Excused(x)' \/ ingest'[x] > job.read
      BY <1>1, <1>2 DEF WindowsHeld
    <2>1. Excused(x) \/ ingest[x] > job.read
      BY <1>3, PassesFacts DEF IndInv, SweepInv, WindowsHeld
    <2> QED
      BY <2>1, PassesFacts
  <1>12. \A x \in Swept : x # row /\ After(x, job.place) => After(x, Place(row))
    BY <1>1
  <1>13. ExpiredSwept'
    <2> SUFFICES ASSUME NEW x \in journal', received[x] < Expiry,
                        job.at = "expire" => ~After(x, Place(row))
                 PROVE  x \in overdue' \/ Kept(x)'
      BY <1>1, <1>2, <1>6 DEF ExpiredSwept, After
    <2>1. CASE job.at = "expire" => ~After(x, job.place)
      <3>1. x \in overdue \/ Kept(x)
        BY <1>3, <2>1, PassesFacts DEF IndInv, SweepInv, ExpiredSwept
      <3> QED
        BY <3>1, PassesFacts
    <2>2. CASE job.at = "expire" /\ After(x, job.place)
      <3>1. x \in Swept
        BY <2>2, PassesFacts DEF Swept, Expired
      <3>2. x = row
        BY <1>12, <2>2, <3>1
      <3>3. Awaiting(row)
        BY <2>2, <3>2, PassesFacts DEF Doomed
      <3> QED
        BY <3>2, <3>3, PassesFacts
    <2> QED
      BY <2>1, <2>2
  <1>14. ClassifiedSwept'
    <2> SUFFICES ASSUME job.at = "classify", NEW x \in journal', x \notin Lasting,
                        received[x] >= job.from, received[x] < Cutoff, ~After(x, Place(row))
                 PROVE  Excused(x)' \/ Kept(x)'
      BY <1>1, <1>2, <1>6 DEF ClassifiedSwept, After
    <2>1. CASE ~After(x, job.place)
      <3>1. Excused(x) \/ Kept(x)
        BY <2>1, PassesFacts DEF IndInv, SweepInv, ClassifiedSwept
      <3> QED
        BY <3>1, PassesFacts
    <2>2. CASE After(x, job.place)
      <3>1. x \in Swept
        BY PassesFacts DEF Swept, Classified
      <3>2. x = row
        BY <1>12, <2>2, <3>1
      <3>3. Awaiting(row) \/ received[row] \in job.windows
        BY <3>2, PassesFacts DEF Doomed, Protected
      <3>4. CASE Awaiting(row)
        BY <3>2, <3>4, PassesFacts
      <3>5. CASE received[row] \in job.windows
        <4>1. Excused(row) \/ Awaiting(row)
          BY <1>3, <3>5 DEF IndInv, SweepInv, WindowsHeld, Awaiting
        <4> QED
          BY <3>2, <4>1, PassesFacts
      <3> QED
        BY <3>3, <3>4, <3>5
    <2> QED
      BY <2>1, <2>2
  <1>15. Clean'
    BY <1>1, PassesFacts DEF IndInv, SweepInv, Clean
  <1> QED
    BY <1>7, <1>8, <1>9, <1>10, <1>11, <1>13, <1>14, <1>15 DEF IndInv, SweepInv

\* A sweep that is through leaves nothing in its range without a reason.
LEMMA ThroughStep ==
    ASSUME IndInv,
           \/ job.at = "expire" /\ Through("classify", [day |-> job.from, of |-> 0])
           \/ job.at = "classify" /\ Through("done", Start)
    PROVE  IndInv'
  <1>1. Sweeping /\ Deleting /\ job \in Sweeps /\ job.at \in {"expire", "classify"}
    BY JobTypes DEF IndInv, Sweeping, Deleting
  <1>2. /\ job.from \in Int /\ job.awaiting \in Nat /\ Cutoff \in Int /\ Expiry \in Int /\ Expiry < Cutoff
        /\ Expiry <= job.from
    BY <1>1, SweepTypes, Numbers DEF IndInv, JobShape
  <1>3. UNCHANGED <<today, received, journal, ingest, inserted, cursor, poll, read, incidents, keeps,
                    mark, crashes, pruned, overdue>>
    BY DEF Through
  <1>4. [day |-> job.from, of |-> 0] \in [day : Int, of : Seqs] /\ Start \in [day : Int, of : Seqs]
    BY <1>2 DEF Start, Seqs
  <1>5. /\ job' \in Sweeps /\ job'.at \in {"classify", "done"} /\ job'.awaiting = job.awaiting
        /\ job'.windows = job.windows /\ job'.read = job.read /\ job'.from = job.from
        /\ job.at = "expire" => job'.at = "classify" /\ job'.place.day = job.from /\ job'.place.of = 0
        /\ job.at = "classify" => job'.at = "done"
    <2>1. CASE job.at = "expire" /\ Through("classify", [day |-> job.from, of |-> 0])
      <3>1. PICK place \in [day : Int, of : Seqs] :
                job' = Turned(job, "classify", place) /\ place.day = job.from /\ place.of = 0
        BY <1>4, <2>1 DEF Through
      <3> QED
        BY <1>1, <2>1, <3>1, TurnedTypes
    <2>2. CASE job.at = "classify" /\ Through("done", Start)
      BY <1>1, <1>4, <2>2, TurnedTypes DEF Through
    <2> QED
      BY <2>1, <2>2
  <1>6. \A x \in Swept : ~After(x, job.place)
    BY DEF Through
  <1>7. Cutoff' = Cutoff /\ Expiry' = Expiry
    BY <1>3 DEF Cutoff, Expiry
  <1>8. Shapes' /\ PollShape' /\ MarksBehind'
    BY <1>3, QuietPoll, QuietMarks DEF IndInv, Shapes
  <1>9. JobShape'
    <2>1. job # NoJob /\ job' # NoJob
      BY <1>1, <1>5 DEF NoJob
    <2>2. job.at = "expire" /\ job.awaiting # Never => job.awaiting <= job.from
      BY <1>2 DEF IndInv, JobShape
    <2>3. job.from <= job.from
      BY <1>2
    <2> QED
      BY <1>1, <1>3, <1>5, <1>7, <2>1, <2>2, <2>3 DEF IndInv, JobShape, Sweeping, Deleting
  <1>10. \A x \in journal : /\ Excused(x) => Excused(x)'
                            /\ Kept(x) => Kept(x)'
                            /\ x \in overdue => x \in overdue'
    BY <1>3, <1>5 DEF Excused, Kept
  <1>11. WindowsHeld'
    BY <1>1, <1>3, <1>5, <1>10 DEF IndInv, SweepInv, WindowsHeld
  <1>12. ExpiredSwept'
    <2> SUFFICES ASSUME NEW x \in journal, received[x] < Expiry
                 PROVE  x \in overdue' \/ Kept(x)'
      BY <1>3, <1>7 DEF ExpiredSwept
    <2>1. job.at = "expire" => ~After(x, job.place)
      BY <1>6 DEF Swept, Expired
    <2>2. x \in overdue \/ Kept(x)
      BY <1>1, <2>1 DEF IndInv, SweepInv, ExpiredSwept
    <2> QED
      BY <1>10, <2>2
  <1>13. ClassifiedSwept'
    <2> SUFFICES ASSUME NEW x \in journal, x \notin Lasting, received[x] >= job.from, received[x] < Cutoff,
                        job'.at = "classify" => ~After(x, job.place)'
                 PROVE  Excused(x)' \/ Kept(x)'
      BY <1>3, <1>5, <1>7 DEF ClassifiedSwept
    <2>1. CASE job.at = "expire"
      <3>1. x \in Nat /\ x >= 1 /\ received[x] \in Nat
        BY Numbers DEF IndInv
      <3>2. ~(received[x] > job.from \/ (received[x] = job.from /\ x > 0))
        BY <1>3, <1>5, <2>1 DEF After
      <3> QED
        BY <1>2, <3>1, <3>2
    <2>2. CASE job.at = "classify"
      <3>1. x \in Swept
        BY <2>2 DEF Swept, Classified
      <3>2. Excused(x) \/ Kept(x)
        BY <1>6, <2>2, <3>1 DEF IndInv, SweepInv, ClassifiedSwept
      <3> QED
        BY <1>10, <3>2
    <2> QED
      BY <1>1, <2>1, <2>2
  <1>14. Clean'
    BY <1>3, <1>10 DEF IndInv, SweepInv, Clean
  <1> QED
    BY <1>8, <1>9, <1>11, <1>12, <1>13, <1>14 DEF IndInv, SweepInv

\* The watermark moves up to the first row that was kept for the worker.
LEMMA PruneEndsStep == ASSUME IndInv, PruneEnds PROVE IndInv'
  <1> DEFINE classified == IF job.awaiting # Never /\ job.awaiting < Cutoff THEN job.awaiting ELSE Cutoff
  <1>1. /\ job.at = "done" /\ job' \in {NoJob} \cup Scanned /\ job'.at \in {"idle", "scanned"}
        /\ mark' = [mark EXCEPT !.classified = classified]
        /\ UNCHANGED <<today, received, journal, ingest, inserted, cursor, poll, read, incidents, keeps,
                       crashes, pruned, overdue>>
    BY DEF PruneEnds, Ending, Scanning, Scanned, collector, NoJob
  <1>2. job \in Sweeps /\ Sweeping /\ Deleting
    BY <1>1, JobTypes DEF IndInv, Sweeping, Deleting
  <1>3. /\ job.from \in Int /\ job.awaiting \in Nat /\ job.awaiting \in Days /\ Cutoff \in Int
        /\ Expiry \in Int /\ Expiry < Cutoff /\ (job.from = Expiry \/ job.from = mark.classified)
    BY <1>2, SweepTypes, Numbers DEF IndInv, JobShape
  <1>4. Cutoff \in Days /\ today \in Days
    <2>1. today > FullDays
      BY <1>2 DEF IndInv, JobShape, Sweeping, NoJob
    <2>2. today \in 1 .. LastDay
      BY DEF IndInv, Shapes
    <2> QED
      BY <2>1, <2>2, JournalAssumption DEF Cutoff, Days
  <1>5. /\ classified \in Days /\ classified \in Int /\ classified <= Cutoff
        /\ job.awaiting # Never => classified <= job.awaiting
    BY <1>3, <1>4
  <1> HIDE DEF classified
  <1>6. /\ mark' \in [pruned : Days, evidence : Int, classified : Days, scanned : Days]
        /\ mark'.pruned = mark.pruned /\ mark'.evidence = mark.evidence /\ mark'.classified = classified
    <2>1. mark \in [pruned : Days, evidence : Int, classified : Days, scanned : Days]
      BY DEF IndInv, Shapes
    <2> QED
      BY <1>1, <1>5, <2>1
  <1>7. Shapes'
    BY <1>1, <1>6 DEF IndInv, Shapes
  <1>8. PollShape'
    BY <1>1, <1>6, QuietPoll DEF IndInv
  <1>9. MarksBehind'
    BY <1>1, <1>6 DEF IndInv, MarksBehind, Cutoff, Expiry
  <1>10. JobShape'
    BY <1>1, <1>2 DEF IndInv, JobShape, Sweeping, Deleting, NoJob
  <1>11. Clean'
    <2> SUFFICES ASSUME NEW x \in journal, received[x] < classified, x \notin Lasting
                 PROVE  Excused(x)
      BY <1>1, <1>6 DEF Clean, Excused
    <2>1. received[x] \in Nat
      BY Numbers DEF IndInv
    <2>2. received[x] < Cutoff
      BY <1>3, <1>5, <2>1
    <2>3. ~Kept(x)
      BY <1>3, <1>5, <2>1 DEF Kept
    <2>4. CASE received[x] < Expiry
      <3>1. x \in overdue \/ Kept(x)
        BY <1>1, <1>2, <2>4 DEF IndInv, SweepInv, ExpiredSwept
      <3> QED
        BY <2>3, <3>1 DEF Excused
    <2>5. CASE received[x] >= job.from
      <3>1. Excused(x) \/ Kept(x)
        BY <1>1, <2>2, <2>5 DEF IndInv, SweepInv, ClassifiedSwept
      <3> QED
        BY <2>3, <3>1
    <2>6. CASE received[x] < mark.classified
      BY <2>6 DEF IndInv, SweepInv, Clean
    <2> QED
      BY <1>3, <2>1, <2>4, <2>5, <2>6
  <1>12. SweepInv'
    BY <1>1, <1>11 DEF SweepInv, WindowsHeld, ExpiredSwept, ClassifiedSwept, Sweeping, Deleting
  <1> QED
    BY <1>7, <1>8, <1>9, <1>10, <1>12 DEF IndInv
\* The day of a full scan is written.
LEMMA PruneScannedStep == ASSUME IndInv, PruneScanned PROVE IndInv'
  <1>1. /\ job' = NoJob /\ job'.at = "idle" /\ mark' = [mark EXCEPT !.scanned = today]
        /\ UNCHANGED <<today, received, journal, ingest, inserted, cursor, poll, read, incidents, keeps,
                       crashes, pruned, overdue>>
    BY DEF PruneScanned, collector, NoJob
  <1>2. /\ mark' \in [pruned : Days, evidence : Int, classified : Days, scanned : Days]
        /\ mark'.pruned = mark.pruned /\ mark'.evidence = mark.evidence
        /\ mark'.classified = mark.classified
    <2>1. /\ mark \in [pruned : Days, evidence : Int, classified : Days, scanned : Days]
          /\ today \in Days
      BY JournalAssumption DEF IndInv, Shapes, Days
    <2> QED
      BY <1>1, <2>1
  <1>3. Shapes'
    BY <1>1, <1>2 DEF IndInv, Shapes
  <1>4. PollShape' /\ MarksBehind'
    BY <1>1, <1>2, QuietPoll DEF IndInv, MarksBehind, Cutoff, Expiry
  <1>5. JobShape'
    BY <1>1 DEF JobShape, Sweeping, Deleting
  <1>6. SweepInv'
    BY <1>1, <1>2 DEF IndInv, SweepInv, WindowsHeld, ExpiredSwept, ClassifiedSwept, Clean, Sweeping,
                     Deleting, Excused
  <1> QED
    BY <1>3, <1>4, <1>5, <1>6 DEF IndInv

-----------------------------------------------------------------------------
(* The theorems. *)

\* The collector starts with an empty journal and no job.
LEMMA InitIndInv == Init => IndInv
  <1> SUFFICES ASSUME Init PROVE IndInv
    OBVIOUS
  <1>1. Shapes
    BY JournalAssumption DEF Init, Shapes, Days, Never
  <1>2. PollShape
    BY DEF Init, PollShape, NoPoll, Seqs
  <1>3. MarksBehind
    BY DEF Init, MarksBehind
  <1>4. JobShape
    BY DEF Init, JobShape, NoJob, Sweeping, Deleting
  <1>5. SweepInv
    BY DEF Init, SweepInv, WindowsHeld, ExpiredSwept, ClassifiedSwept, Clean
  <1> QED
    BY <1>1, <1>2, <1>3, <1>4, <1>5 DEF IndInv

\* Nothing the collector, the worker, an operator or the job does breaks the invariant.
LEMMA NextIndInv == IndInv /\ [Next]_vars => IndInv'
  <1> SUFFICES ASSUME IndInv, [Next]_vars PROVE IndInv'
    OBVIOUS
  <1>1. CASE NextDay
    BY <1>1, NextDayStep
  <1>2. CASE \E r \in Records : Arrive(r)
    BY <1>2, ArriveStep
  <1>3. CASE Importer
    BY <1>3, PollBeginsStep, PollRowStep, PollEndsStep DEF Importer
  <1>4. CASE Restart
    BY <1>4, RestartStep
  <1>5. CASE WorkerReads
    BY <1>5, WorkerReadsStep
  <1>6. CASE \E d \in WindowDays : AddKeep(d) \/ RemoveKeep(d)
    BY <1>6, KeepStep
  <1>7. CASE Expire \/ Classify
    <2>1. job.at \in {"expire", "classify"}
      BY <1>7, SweepCases
    <2>2. CASE \E row \in journal : Passes(row)
      BY <2>1, <2>2, PassesStep
    <2>3. CASE ~\E row \in journal : Passes(row)
      BY <1>7, <2>3, SweepCases, ThroughStep
    <2> QED
      BY <2>2, <2>3
  <1>8. CASE PruneReads \/ PruneBegins \/ PruneMarks \/ PruneEnds \/ PruneScanned \/ Killed
    BY <1>8, PruneReadsStep, PruneBeginsStep, PruneMarksStep, PruneEndsStep, PruneScannedStep, KilledStep
  <1>9. CASE UNCHANGED vars
    <2>1. UNCHANGED <<today, received, journal, ingest, inserted, cursor, poll, read, incidents, keeps,
                      mark, job, crashes, pruned, overdue>>
      BY <1>9 DEF vars, collector, retention
    <2>2. Shapes'
      BY <2>1 DEF IndInv, Shapes
    <2>3. PollShape' /\ MarksBehind' /\ JobShape'
      BY <2>1, QuietPoll, QuietMarks, QuietJob DEF IndInv
    <2>4. SweepInv'
      BY <2>1, QuietSweep DEF IndInv, Excused
    <2> QED
      BY <2>2, <2>3, <2>4 DEF IndInv
  <1> QED
    BY <1>1, <1>2, <1>3, <1>4, <1>5, <1>6, <1>7, <1>8, <1>9 DEF Next, Retention

\* The inductive invariant holds in every behaviour.
THEOREM IndInvHolds == Spec => []IndInv
  BY InitIndInv, NextIndInv, PTL DEF Spec

\* The types are part of it.
LEMMA IndInvTypeOK == IndInv => TypeOK
  <1> SUFFICES ASSUME IndInv PROVE TypeOK
    OBVIOUS
  <1>1. /\ mark.pruned \in Days /\ mark.evidence \in Int /\ mark.classified \in Days
        /\ mark.scanned \in Days
    BY DEF IndInv, Shapes
  <1>2. cursor.scan \in 0 .. cursor.high /\ cursor.high \in Records \cup {0}
    <2>1. cursor.scan \in Seqs /\ cursor.high \in Seqs /\ cursor.scan <= cursor.high
      BY DEF IndInv, PollShape
    <2> QED
      BY <2>1, SeqsNat DEF Seqs
  <1>3. poll = NoPoll \/ (poll.at = "rows" /\ poll.rows \subseteq Records)
    BY DEF IndInv, PollShape, Polls
  <1>4. job = NoJob \/ job.at \in {"reads", "marks", "expire", "classify", "done", "scanned"}
    BY DEF IndInv, JobShape, Reads, Sweeps, Scanned
  <1> QED
    BY <1>1, <1>2, <1>3, <1>4 DEF IndInv, Shapes, TypeOK

(***************************************************************************)
(* Below the watermark of retention (mark.classified) nothing is left that *)
(* it would delete but what was inserted or released later, however jobs,  *)
(* kills, imports, the worker and the operator interleave.                 *)
(***************************************************************************)
THEOREM SweptCleanHolds == Spec => []SweptClean
  <1>1. IndInv => SweptClean
    <2> SUFFICES ASSUME IndInv PROVE SweptClean
      OBVIOUS
    <2>1. Clean
      BY DEF IndInv, SweepInv
    <2> QED
      BY <2>1, IndInvTypeOK DEF SweptClean, Clean, Excused
  <1> QED
    BY <1>1, IndInvHolds, PTL

\* A row leaves the journal only when a sweep passes it and finds it read by the worker.
LEMMA DeletedWasRead ==
    ASSUME IndInv, [Next]_vars, NEW r \in Records, r \in journal, r \notin journal'
    PROVE  ingest[r] <= read
  <1>1. Expire \/ Classify
    BY DEF Next, NextDay, Arrive, Importer, PollBegins, PollRow, PollEnds, Insert, Restart, WorkerReads,
           AddKeep, RemoveKeep, Retention, PruneReads, PruneBegins, PruneMarks, PruneEnds,
           PruneScanned, Killed, vars
  <1>2. PICK row \in journal : Passes(row)
    <2>1. ~Through("classify", [day |-> job.from, of |-> 0]) /\ ~Through("done", Start)
      BY DEF Through
    <2> QED
      BY <1>1, <2>1, SweepCases
  <1>3. r = row /\ ~Awaiting(r)
    BY <1>2 DEF Passes, Doomed
  <1>4. Sweeping /\ job \in Sweeps
    BY <1>1, SweepCases, JobTypes DEF IndInv, Sweeping
  <1>5. job.read <= read /\ job.read \in Nat
    BY <1>4, SweepTypes DEF IndInv, JobShape
  <1>6. ingest[r] \in Nat /\ read \in Nat
    BY Numbers DEF IndInv
  <1> QED
    BY <1>3, <1>5, <1>6 DEF Awaiting

\* What comes back was above the high-water mark of its poll, or its poll had an older floor.
LEMMA BackForAReason ==
    ASSUME IndInv, [Next]_vars, NEW r \in pruned, r \in journal'
    PROVE  \/ r > poll.high
           \/ poll.floor < mark.pruned
           \/ r \in Lasting /\ poll.evidence < mark.evidence
  <1>1. r \notin journal /\ r \in Records
    BY DEF IndInv, Shapes
  <1>2. PollRow
    <2>1. ~Expire /\ ~Classify
      BY <1>1, SweepCases DEF Passes, Through
    <2> QED
      BY <1>1, <2>1 DEF Next, NextDay, Arrive, Importer, PollBegins, PollEnds, Restart, WorkerReads,
           AddKeep, RemoveKeep, Retention, PruneReads, PruneBegins, PruneMarks, PruneEnds,
           PruneScanned, Killed, vars
  <1>3. poll.at = "rows" /\ ~SkipPruned(r)
    BY <1>1, <1>2 DEF PollRow, Insert
  <1>4. /\ poll.floor \in Nat /\ poll.evidence \in Int /\ poll.high \in Nat /\ r \in Nat
        /\ mark.pruned \in Nat /\ mark.evidence \in Int
        /\ received[r] \in Nat /\ received[r] >= 1
    <2>1. poll.floor \in Days /\ poll.evidence \in Int /\ poll.high \in Seqs
      BY <1>3 DEF IndInv, PollShape, NoPoll, Polls
    <2>2. received[r] \in 1 .. today
      BY DEF IndInv, Shapes
    <2> QED
      BY <1>1, <2>1, <2>2, SeqsNat, Numbers, JournalAssumption DEF IndInv, Days
  <1>5. received[r] < mark.pruned /\ (r \in Lasting => received[r] < mark.evidence)
    BY DEF IndInv, MarksBehind
  <1>6. \/ poll.floor = 0 \/ r > poll.high \/ received[r] >= poll.floor
        \/ r \in Lasting /\ (poll.evidence = 0 \/ received[r] >= poll.evidence)
    BY <1>3, <1>4 DEF SkipPruned, Never
  <1> QED
    BY <1>4, <1>5, <1>6

(***************************************************************************)
(* The job deletes no row that the incident worker had still to read, and  *)
(* a record it deleted comes back in no way but those StaysPruned names.   *)
(***************************************************************************)
THEOREM DeletedForGoodHolds == Spec => DeletedForGood
  <1>1. IndInv /\ [Next]_vars =>
            [\A r \in Records : r \in journal /\ r \notin journal' => ingest[r] <= read]_vars
    BY DeletedWasRead
  <1>2. IndInv /\ [Next]_vars =>
            [\A r \in pruned : r \in journal' =>
                \/ r > poll.high
                \/ poll.floor < mark.pruned
                \/ r \in Lasting /\ poll.evidence < mark.evidence]_vars
    BY BackForAReason
  <1> QED
    BY <1>1, <1>2, IndInvHolds, PTL DEF Spec, DeletedForGood, UnreadStays, StaysPruned

-----------------------------------------------------------------------------
(***************************************************************************)
(* The upload of sub boards (UsbUpload)                                    *)
(***************************************************************************)
\* The types of the script's run, of the page and of the units.
UploadStates == {"start", "tools", "before", "tag", "get", "after", "recheck", "wait", "claim",
                 "baseline", "write", "away", "done", "failed"}

Uploads ==
    [pc : UploadStates, left : Nat, count : 1 .. MaxCount, asked : Addresses \cup {None},
     ignored : SUBSET Addresses, done : SUBSET {IdOf[u] : u \in Units}, snapshot : Nat,
     got : [Upload!Files -> Upload!Contents \cup {None}], unit : Units \cup {None},
     port : Addresses \cup {None}, stable : Nat]

UploadShapes ==
    /\ uAt \in [Units -> Addresses \cup {None}]
    /\ uPage \in [edition : 0 .. MaxEditions, bytes : [Upload!Files -> Upload!Contents], tag : Upload!Contents]
    /\ uRun \in Uploads
    /\ uLoose \in SUBSET Units
    /\ uWritten \in [Units -> Nat \X (Upload!Contents \cup {None})]

\* No two units are at one address.
OneEach == \A u, w \in Units : u # w => uAt[u] = None \/ uAt[u] # uAt[w]

\* What the polls and the writes count stays in its range, by the place of the script.
WithinCounts ==
    /\ NoId \notin uRun.done
    /\ uRun.left <= uRun.count
    /\ uRun.stable <= (IF StablePolls > AwayPolls THEN StablePolls ELSE AwayPolls)
    /\ uRun.pc \in {"start", "tools", "before", "tag", "get", "after", "recheck"} => uRun.stable = 0
    /\ uRun.pc = "wait" => uRun.stable < StablePolls
    /\ uRun.pc = "away" => uRun.stable <= AwayPolls

\* From the first poll on, the three files in hand are the reviewed ones.
OnlyReviewed == uRun.pc \in {"wait", "claim", "baseline", "write", "away"} =>
                   \A f \in Upload!Files : uRun.got[f] = Upload!Pinned

\* An address is asked for by hand only for a single unit.
AskedIsSingle == uRun.asked # None => uRun.count = 1

\* What is not plugged in was unplugged at some time.
AwayIsLoose == \A u \in Units : uAt[u] = None => u \in uLoose

\* A unit at an address that was free when the script looked, or freed since, was
\* unplugged since the start.
NewIsLoose == uRun.pc \notin {"start", "failed"} /\ uRun.asked = None =>
                 \A u \in Units : uAt[u] # None /\ uAt[u] \notin uRun.ignored => u \in uLoose

\* While a unit is handled it stays where it was chosen, and was not written before.
ChosenStays ==
    uRun.pc \in Upload!Handling =>
        /\ uRun.port \in Addresses
        /\ uRun.asked = None => /\ uRun.unit \in Supported \cap uLoose
                                /\ uAt[uRun.unit] = uRun.port
                                /\ IdOf[uRun.unit] = NoId \/ IdOf[uRun.unit] \notin uRun.done

\* The claim is checked before the baseline, and both before the write.
CheckedFirst ==
    /\ uRun.pc \in {"baseline", "write"} => Upload!Identified
    /\ uRun.pc = "write" => \E u \in BaselineUnits : uAt[u] = uRun.port

\* What was written is on the list of the units done, so the list is as long as the
\* writes are many.
WrittenOnce ==
    uRun.pc \notin {"done", "failed"} =>
        /\ uRun.left >= 1
        /\ \A u \in Units : uWritten[u][1] > 0 =>
              uRun.left < uRun.count /\ IdOf[u] \in uRun.done /\ IdOf[u] # NoId

\* The inductive invariant of the upload.
UploadInv == /\ UploadShapes /\ OneEach /\ WithinCounts /\ OnlyReviewed /\ AskedIsSingle /\ AwayIsLoose
             /\ NewIsLoose /\ ChosenStays /\ CheckedFirst /\ WrittenOnce
             /\ Upload!OnlyFresh

\* The invariant's shapes are those of the module's type invariant.
LEMMA UploadTypes == ASSUME UploadInv PROVE Upload!TypeOK
  <1>1. /\ uRun \in Uploads /\ uPage.edition \in 0 .. MaxEditions
        /\ uPage.bytes \in [Upload!Files -> Upload!Contents] /\ uPage.tag \in Upload!Contents
    BY DEF UploadInv, UploadShapes
  <1>2. /\ uRun.left \in 0 .. uRun.count
        /\ uRun.stable \in 0 .. (IF StablePolls > AwayPolls THEN StablePolls ELSE AwayPolls)
        /\ NoId \notin uRun.done
    BY <1>1, UploadAssumption DEF UploadInv, WithinCounts, Uploads
  <1>3. \A u \in Units : uWritten[u][1] \in Nat
    BY DEF UploadInv, UploadShapes
  <1>4. /\ uRun.pc \in UploadStates /\ uRun.count \in 1 .. MaxCount /\ uRun.ignored \subseteq Addresses
        /\ uRun.unit \in Units \cup {None} /\ uRun.port \in Addresses \cup {None}
    BY <1>1 DEF Uploads
  <1> QED
    BY <1>1, <1>2, <1>3, <1>4 DEF UploadInv, UploadShapes, OneEach, UploadStates, Upload!TypeOK

\* It holds before the script's first step.
LEMMA UploadInit == ASSUME Upload!Init PROVE UploadInv
  <1>1. PICK plan \in Upload!Plans :
           /\ Upload!Sensible(plan)
           /\ uRun = [pc |-> "start", left |-> plan.count, count |-> plan.count,
                     asked |-> plan.asked, ignored |-> {}, done |-> {},
                     snapshot |-> 0, got |-> [f \in Upload!Files |-> None],
                     unit |-> None, port |-> None, stable |-> 0]
    BY DEF Upload!Init
  <1>2. plan.count \in 1 .. MaxCount /\ plan.asked \in Addresses \cup {None}
    BY DEF Upload!Plans
  <1>3. uRun \in Uploads
    BY <1>1, <1>2, UploadAssumption DEF Uploads, UploadStates
  <1>4. /\ uRun.pc = "start" /\ uRun.left = plan.count /\ uRun.count = plan.count
        /\ uRun.asked = plan.asked /\ uRun.done = {} /\ uRun.stable = 0
    BY <1>1
  <1>5. uWritten = [u \in Units |-> <<0, None>>]
    BY DEF Upload!Init
  <1>6. UploadShapes
    <2>1. uAt \in [Units -> Addresses \cup {None}] /\ uLoose \in SUBSET Units
      BY DEF Upload!Init
    <2>2. uPage \in [edition : 0 .. MaxEditions, bytes : [Upload!Files -> Upload!Contents], tag : Upload!Contents]
      BY UploadAssumption DEF Upload!Init, Upload!Contents, Upload!Pinned
    <2> QED BY <1>3, <1>5, <2>1, <2>2 DEF UploadShapes
  <1>7. OneEach /\ AwayIsLoose
    BY DEF Upload!Init, OneEach, AwayIsLoose
  <1>8. WithinCounts
    BY <1>2, <1>4, UploadAssumption DEF WithinCounts
  <1>9. OnlyReviewed /\ NewIsLoose /\ ChosenStays /\ CheckedFirst
    BY <1>4 DEF OnlyReviewed, NewIsLoose, ChosenStays, CheckedFirst, Upload!Handling
  <1>10. AskedIsSingle
    BY <1>1, <1>2, <1>4 DEF AskedIsSingle, Upload!Sensible
  <1>11. WrittenOnce /\ Upload!OnlyFresh
    BY <1>2, <1>4, <1>5 DEF WrittenOnce, Upload!OnlyFresh
  <1> QED BY <1>6, <1>7, <1>8, <1>9, <1>10, <1>11 DEF UploadInv

-----------------------------------------------------------------------------
\* Step(c) replaces the fields of the run that c has: the steps of the script, by
\* their fields.
UploadFields == {"pc", "left", "count", "asked", "ignored", "done", "snapshot", "got", "unit", "port", "stable"}

UploadRecord(r) ==
    r = [pc |-> r.pc, left |-> r.left, count |-> r.count, asked |-> r.asked, ignored |-> r.ignored,
         done |-> r.done, snapshot |-> r.snapshot, got |-> r.got, unit |-> r.unit, port |-> r.port,
         stable |-> r.stable]

LEMMA StepFields == ASSUME UploadRecord(uRun), NEW c, Upload!Step(c)
                PROVE  /\ UploadRecord(uRun')
                       /\ \A f \in UploadFields : uRun'[f] = IF f \in DOMAIN c THEN c[f] ELSE uRun[f]
  <1>1. DOMAIN uRun = UploadFields
    BY DEF UploadRecord, UploadFields
  <1>2. uRun' = [f \in UploadFields |-> IF f \in DOMAIN c THEN c[f] ELSE uRun[f]]
    BY <1>1 DEF Upload!Step
  <1>3. UploadRecord(uRun')
    BY <1>2 DEF UploadRecord, UploadFields
  <1> QED BY <1>2, <1>3

LEMMA UploadIsRecord == ASSUME UploadShapes PROVE UploadRecord(uRun)
  BY DEF UploadShapes, Uploads, UploadRecord

LEMMA StepTo ==
    ASSUME UploadRecord(uRun), NEW x, Upload!Step([pc |-> x])
    PROVE  uRun' = [uRun EXCEPT !.pc = x]
  <1> DEFINE c == [pc |-> x]
  <1>1. DOMAIN c = {"pc"} /\ c.pc = x
    OBVIOUS
  <1>2. /\ UploadRecord(uRun')
        /\ \A f \in UploadFields : uRun'[f] = IF f \in DOMAIN c THEN c[f] ELSE uRun[f]
    BY StepFields
  <1> HIDE DEF c
  <1>3. /\ uRun'.pc = x /\ uRun'.left = uRun.left /\ uRun'.count = uRun.count /\ uRun'.asked = uRun.asked
        /\ uRun'.ignored = uRun.ignored /\ uRun'.done = uRun.done /\ uRun'.snapshot = uRun.snapshot /\ uRun'.got = uRun.got
        /\ uRun'.unit = uRun.unit /\ uRun'.port = uRun.port /\ uRun'.stable = uRun.stable
    BY <1>1, <1>2 DEF UploadFields
  <1> QED BY <1>2, <1>3 DEF UploadRecord

LEMMA StepStart ==
    ASSUME UploadRecord(uRun), NEW x, NEW y, Upload!Step([pc |-> x, ignored |-> y])
    PROVE  uRun' = [uRun EXCEPT !.pc = x, !.ignored = y]
  <1> DEFINE c == [pc |-> x, ignored |-> y]
  <1>1. DOMAIN c = {"pc", "ignored"} /\ c.pc = x /\ c.ignored = y
    OBVIOUS
  <1>2. /\ UploadRecord(uRun')
        /\ \A f \in UploadFields : uRun'[f] = IF f \in DOMAIN c THEN c[f] ELSE uRun[f]
    BY StepFields
  <1> HIDE DEF c
  <1>3. /\ uRun'.pc = x /\ uRun'.ignored = y /\ uRun'.left = uRun.left /\ uRun'.count = uRun.count
        /\ uRun'.asked = uRun.asked /\ uRun'.done = uRun.done /\ uRun'.snapshot = uRun.snapshot /\ uRun'.got = uRun.got
        /\ uRun'.unit = uRun.unit /\ uRun'.port = uRun.port /\ uRun'.stable = uRun.stable
    BY <1>1, <1>2 DEF UploadFields
  <1> QED BY <1>2, <1>3 DEF UploadRecord

LEMMA StepBefore ==
    ASSUME UploadRecord(uRun), NEW x, NEW y, Upload!Step([pc |-> x, snapshot |-> y])
    PROVE  uRun' = [uRun EXCEPT !.pc = x, !.snapshot = y]
  <1> DEFINE c == [pc |-> x, snapshot |-> y]
  <1>1. DOMAIN c = {"pc", "snapshot"} /\ c.pc = x /\ c.snapshot = y
    OBVIOUS
  <1>2. /\ UploadRecord(uRun')
        /\ \A f \in UploadFields : uRun'[f] = IF f \in DOMAIN c THEN c[f] ELSE uRun[f]
    BY StepFields
  <1> HIDE DEF c
  <1>3. /\ uRun'.pc = x /\ uRun'.snapshot = y /\ uRun'.left = uRun.left /\ uRun'.count = uRun.count
        /\ uRun'.asked = uRun.asked /\ uRun'.ignored = uRun.ignored /\ uRun'.done = uRun.done /\ uRun'.got = uRun.got
        /\ uRun'.unit = uRun.unit /\ uRun'.port = uRun.port /\ uRun'.stable = uRun.stable
    BY <1>1, <1>2 DEF UploadFields
  <1> QED BY <1>2, <1>3 DEF UploadRecord

LEMMA StepGet ==
    ASSUME UploadRecord(uRun), NEW x, Upload!Step([got |-> x])
    PROVE  uRun' = [uRun EXCEPT !.got = x]
  <1> DEFINE c == [got |-> x]
  <1>1. DOMAIN c = {"got"} /\ c.got = x
    OBVIOUS
  <1>2. /\ UploadRecord(uRun')
        /\ \A f \in UploadFields : uRun'[f] = IF f \in DOMAIN c THEN c[f] ELSE uRun[f]
    BY StepFields
  <1> HIDE DEF c
  <1>3. /\ uRun'.got = x /\ uRun'.pc = uRun.pc /\ uRun'.left = uRun.left /\ uRun'.count = uRun.count
        /\ uRun'.asked = uRun.asked /\ uRun'.ignored = uRun.ignored /\ uRun'.done = uRun.done /\ uRun'.snapshot = uRun.snapshot
        /\ uRun'.unit = uRun.unit /\ uRun'.port = uRun.port /\ uRun'.stable = uRun.stable
    BY <1>1, <1>2 DEF UploadFields
  <1> QED BY <1>2, <1>3 DEF UploadRecord

LEMMA StepStable ==
    ASSUME UploadRecord(uRun), NEW x, Upload!Step([stable |-> x])
    PROVE  uRun' = [uRun EXCEPT !.stable = x]
  <1> DEFINE c == [stable |-> x]
  <1>1. DOMAIN c = {"stable"} /\ c.stable = x
    OBVIOUS
  <1>2. /\ UploadRecord(uRun')
        /\ \A f \in UploadFields : uRun'[f] = IF f \in DOMAIN c THEN c[f] ELSE uRun[f]
    BY StepFields
  <1> HIDE DEF c
  <1>3. /\ uRun'.stable = x /\ uRun'.pc = uRun.pc /\ uRun'.left = uRun.left /\ uRun'.count = uRun.count
        /\ uRun'.asked = uRun.asked /\ uRun'.ignored = uRun.ignored /\ uRun'.done = uRun.done /\ uRun'.snapshot = uRun.snapshot
        /\ uRun'.got = uRun.got /\ uRun'.unit = uRun.unit /\ uRun'.port = uRun.port
    BY <1>1, <1>2 DEF UploadFields
  <1> QED BY <1>2, <1>3 DEF UploadRecord

LEMMA StepPort ==
    ASSUME UploadRecord(uRun), NEW x, NEW y, Upload!Step([pc |-> x, port |-> y])
    PROVE  uRun' = [uRun EXCEPT !.pc = x, !.port = y]
  <1> DEFINE c == [pc |-> x, port |-> y]
  <1>1. DOMAIN c = {"pc", "port"} /\ c.pc = x /\ c.port = y
    OBVIOUS
  <1>2. /\ UploadRecord(uRun')
        /\ \A f \in UploadFields : uRun'[f] = IF f \in DOMAIN c THEN c[f] ELSE uRun[f]
    BY StepFields
  <1> HIDE DEF c
  <1>3. /\ uRun'.pc = x /\ uRun'.port = y /\ uRun'.left = uRun.left /\ uRun'.count = uRun.count
        /\ uRun'.asked = uRun.asked /\ uRun'.ignored = uRun.ignored /\ uRun'.done = uRun.done /\ uRun'.snapshot = uRun.snapshot
        /\ uRun'.got = uRun.got /\ uRun'.unit = uRun.unit /\ uRun'.stable = uRun.stable
    BY <1>1, <1>2 DEF UploadFields
  <1> QED BY <1>2, <1>3 DEF UploadRecord

LEMMA StepKeep ==
    ASSUME UploadRecord(uRun), NEW c, DOMAIN c = {"ignored", "unit", "port", "stable"}, Upload!Step(c)
    PROVE  uRun' = [uRun EXCEPT !.ignored = c.ignored, !.unit = c.unit, !.port = c.port, !.stable = c.stable]
  <1>1. /\ UploadRecord(uRun')
        /\ \A f \in UploadFields : uRun'[f] = IF f \in DOMAIN c THEN c[f] ELSE uRun[f]
    BY StepFields
  <1>2. /\ uRun'.ignored = c.ignored /\ uRun'.unit = c.unit /\ uRun'.port = c.port /\ uRun'.stable = c.stable
        /\ uRun'.pc = uRun.pc /\ uRun'.left = uRun.left /\ uRun'.count = uRun.count /\ uRun'.asked = uRun.asked
        /\ uRun'.done = uRun.done /\ uRun'.snapshot = uRun.snapshot /\ uRun'.got = uRun.got
    BY <1>1 DEF UploadFields
  <1> QED BY <1>1, <1>2 DEF UploadRecord

LEMMA StepChoice ==
    ASSUME UploadRecord(uRun), NEW c, DOMAIN c = {"ignored", "unit", "port", "stable", "pc"}, Upload!Step(c)
    PROVE  uRun' = [uRun EXCEPT !.ignored = c.ignored, !.unit = c.unit, !.port = c.port, !.stable = c.stable, !.pc = c.pc]
  <1>1. /\ UploadRecord(uRun')
        /\ \A f \in UploadFields : uRun'[f] = IF f \in DOMAIN c THEN c[f] ELSE uRun[f]
    BY StepFields
  <1>2. /\ uRun'.ignored = c.ignored /\ uRun'.unit = c.unit /\ uRun'.port = c.port /\ uRun'.stable = c.stable
        /\ uRun'.pc = c.pc /\ uRun'.left = uRun.left /\ uRun'.count = uRun.count /\ uRun'.asked = uRun.asked
        /\ uRun'.done = uRun.done /\ uRun'.snapshot = uRun.snapshot /\ uRun'.got = uRun.got
    BY <1>1 DEF UploadFields
  <1> QED BY <1>1, <1>2 DEF UploadRecord

LEMMA StepAway ==
    ASSUME UploadRecord(uRun), NEW c, DOMAIN c = {"pc", "ignored", "unit", "port", "stable"}, Upload!Step(c)
    PROVE  uRun' = [uRun EXCEPT !.pc = c.pc, !.ignored = c.ignored, !.unit = c.unit, !.port = c.port, !.stable = c.stable]
  <1>1. /\ UploadRecord(uRun')
        /\ \A f \in UploadFields : uRun'[f] = IF f \in DOMAIN c THEN c[f] ELSE uRun[f]
    BY StepFields
  <1>2. /\ uRun'.pc = c.pc /\ uRun'.ignored = c.ignored /\ uRun'.unit = c.unit /\ uRun'.port = c.port
        /\ uRun'.stable = c.stable /\ uRun'.left = uRun.left /\ uRun'.count = uRun.count /\ uRun'.asked = uRun.asked
        /\ uRun'.done = uRun.done /\ uRun'.snapshot = uRun.snapshot /\ uRun'.got = uRun.got
    BY <1>1 DEF UploadFields
  <1> QED BY <1>1, <1>2 DEF UploadRecord

LEMMA StepWrite ==
    ASSUME UploadRecord(uRun), NEW c, DOMAIN c = {"pc", "left", "done", "stable"}, Upload!Step(c)
    PROVE  uRun' = [uRun EXCEPT !.pc = c.pc, !.left = c.left, !.done = c.done, !.stable = c.stable]
  <1>1. /\ UploadRecord(uRun')
        /\ \A f \in UploadFields : uRun'[f] = IF f \in DOMAIN c THEN c[f] ELSE uRun[f]
    BY StepFields
  <1>2. /\ uRun'.pc = c.pc /\ uRun'.left = c.left /\ uRun'.done = c.done /\ uRun'.stable = c.stable
        /\ uRun'.count = uRun.count /\ uRun'.asked = uRun.asked /\ uRun'.ignored = uRun.ignored /\ uRun'.snapshot = uRun.snapshot
        /\ uRun'.got = uRun.got /\ uRun'.unit = uRun.unit /\ uRun'.port = uRun.port
    BY <1>1 DEF UploadFields
  <1> QED BY <1>1, <1>2 DEF UploadRecord

-----------------------------------------------------------------------------
UploadRest == UNCHANGED <<uAt, uPage, uLoose, uWritten>>

\* The script gives up: nothing is written after it.
LEMMA UploadFails ==
    ASSUME UploadInv, UploadRest, uRun' = [uRun EXCEPT !.pc = "failed"] PROVE UploadInv'
  <1>1. uRun \in Uploads
    BY DEF UploadInv, UploadShapes
  <1>2. /\ uRun'.pc = "failed" /\ uRun'.done = uRun.done /\ uRun'.left = uRun.left /\ uRun'.count = uRun.count
        /\ uRun'.stable = uRun.stable /\ uRun'.asked = uRun.asked /\ uRun'.ignored = uRun.ignored
    BY <1>1 DEF Uploads
  <1>3. UploadShapes'
    <2>1. uRun' \in Uploads
      BY <1>1 DEF Uploads, UploadStates
    <2> QED BY <2>1 DEF UploadInv, UploadShapes, UploadRest
  <1>4. OneEach' /\ AwayIsLoose'
    BY DEF UploadInv, OneEach, AwayIsLoose, UploadRest
  <1>5. WithinCounts' /\ AskedIsSingle'
    BY <1>2 DEF UploadInv, WithinCounts, AskedIsSingle
  <1>6. OnlyReviewed' /\ ChosenStays' /\ CheckedFirst' /\ WrittenOnce'
    BY <1>2 DEF OnlyReviewed, ChosenStays, CheckedFirst, WrittenOnce, Upload!Handling
  <1>7. NewIsLoose'
    BY <1>2 DEF NewIsLoose
  <1>8. Upload!OnlyFresh'
    BY <1>2 DEF UploadInv, Upload!OnlyFresh, UploadRest
  <1> QED BY <1>3, <1>4, <1>5, <1>6, <1>7, <1>8 DEF UploadInv

\* The steps of the download that only move on.
LEMMA UploadGoesOn ==
    ASSUME UploadInv, UploadRest, uRun.pc \in {"tools", "before", "tag", "get", "after"},
           NEW x \in {"before", "tag", "get", "after", "recheck"},
           NEW n \in Nat, NEW g \in [Upload!Files -> Upload!Contents \cup {None}],
           uRun' = [uRun EXCEPT !.pc = x, !.snapshot = n, !.got = g]
    PROVE  UploadInv'
  <1>1. uRun \in Uploads
    BY DEF UploadInv, UploadShapes
  <1>2. /\ uRun'.pc = x /\ uRun'.done = uRun.done /\ uRun'.left = uRun.left /\ uRun'.count = uRun.count
        /\ uRun'.stable = uRun.stable /\ uRun'.asked = uRun.asked /\ uRun'.ignored = uRun.ignored
    BY <1>1 DEF Uploads
  <1>3. UploadShapes'
    <2>1. uRun' \in Uploads
      BY <1>1 DEF Uploads, UploadStates
    <2> QED BY <2>1 DEF UploadInv, UploadShapes, UploadRest
  <1>4. OneEach' /\ AwayIsLoose'
    BY DEF UploadInv, OneEach, AwayIsLoose, UploadRest
  <1>5. WithinCounts' /\ AskedIsSingle'
    BY <1>2 DEF UploadInv, WithinCounts, AskedIsSingle
  <1>6. OnlyReviewed' /\ ChosenStays' /\ CheckedFirst'
    BY <1>2 DEF OnlyReviewed, ChosenStays, CheckedFirst, Upload!Handling
  <1>7. WrittenOnce'
    BY <1>2 DEF UploadInv, WrittenOnce, UploadRest
  <1>8. NewIsLoose'
    BY <1>2 DEF UploadInv, NewIsLoose, UploadRest
  <1>9. Upload!OnlyFresh'
    BY <1>2 DEF UploadInv, Upload!OnlyFresh, UploadRest
  <1> QED BY <1>3, <1>4, <1>5, <1>6, <1>7, <1>8, <1>9 DEF UploadInv

\* A unit is plugged in or out, a page is replaced: the script does not step.
LEMMA UploadPlugs ==
    ASSUME UploadInv, NEW u \in Units, NEW a \in Addresses, Upload!Plug(u, a) PROVE UploadInv'
  <1>1. /\ uAt[u] = None /\ \A w \in Units : uAt[w] # a
        /\ uAt' = [uAt EXCEPT ![u] = a] /\ UNCHANGED <<uPage, uRun, uLoose, uWritten>>
    BY DEF Upload!Plug
  <1>2. /\ uAt \in [Units -> Addresses \cup {None}] /\ a # None
        /\ \A w \in Units : w # u => uAt'[w] = uAt[w]
        /\ uAt'[u] = a
    BY <1>1, UploadAssumption DEF UploadInv, UploadShapes
  <1>3. UploadShapes'
    BY <1>1, <1>2 DEF UploadInv, UploadShapes
  <1>4. OneEach'
    BY <1>1, <1>2 DEF UploadInv, OneEach
  <1>5. AwayIsLoose' /\ NewIsLoose'
    BY <1>1, <1>2 DEF UploadInv, AwayIsLoose, NewIsLoose
  <1>6. ChosenStays'
    BY <1>1, <1>2, UploadAssumption DEF UploadInv, ChosenStays
  <1>7. CheckedFirst'
    <2>1. uRun.pc = "write" => \E w \in BaselineUnits : uAt'[w] = uRun.port
      <3>1. SUFFICES ASSUME uRun.pc = "write" PROVE \E w \in BaselineUnits : uAt'[w] = uRun.port
        OBVIOUS
      <3>2. PICK w \in BaselineUnits : uAt[w] = uRun.port
        BY <3>1 DEF UploadInv, CheckedFirst
      <3>3. uRun.port # None
        BY <3>1, UploadAssumption DEF UploadInv, ChosenStays, Upload!Handling
      <3>4. w # u /\ w \in Units
        BY <3>2, <3>3, <1>1, UploadAssumption
      <3> QED BY <3>2, <3>4, <1>2
    <2> QED BY <2>1, <1>1 DEF UploadInv, CheckedFirst, Upload!Identified
  <1>8. WithinCounts' /\ OnlyReviewed' /\ AskedIsSingle' /\ WrittenOnce' /\ Upload!OnlyFresh'
    BY <1>1 DEF UploadInv, WithinCounts, OnlyReviewed, AskedIsSingle, WrittenOnce, Upload!OnlyFresh
  <1> QED BY <1>3, <1>4, <1>5, <1>6, <1>7, <1>8 DEF UploadInv

\* A unit that is unplugged is loose, and it is not the one in hand.
LEMMA UploadUnplugs ==
    ASSUME UploadInv, NEW u \in Units, Upload!Unplug(u) PROVE UploadInv'
  <1>1. /\ uAt[u] # None /\ ~(uRun.pc \in Upload!Handling /\ uAt[u] = uRun.port)
        /\ uAt' = [uAt EXCEPT ![u] = None] /\ uLoose' = uLoose \cup {u}
        /\ UNCHANGED <<uPage, uRun, uWritten>>
    BY DEF Upload!Unplug
  <1>2. /\ \A w \in Units : w # u => uAt'[w] = uAt[w]
        /\ uAt'[u] = None
    BY <1>1, UploadAssumption DEF UploadInv, UploadShapes
  <1>3. UploadShapes'
    BY <1>1, <1>2 DEF UploadInv, UploadShapes
  <1>4. OneEach'
    BY <1>1, <1>2 DEF UploadInv, OneEach
  <1>5. AwayIsLoose' /\ NewIsLoose'
    BY <1>1, <1>2 DEF UploadInv, AwayIsLoose, NewIsLoose
  <1>6. ChosenStays'
    BY <1>1, <1>2, UploadAssumption DEF UploadInv, ChosenStays
  <1>7. CheckedFirst'
    <2>1. uRun.pc = "write" => \E w \in BaselineUnits : uAt'[w] = uRun.port
      <3>1. SUFFICES ASSUME uRun.pc = "write" PROVE \E w \in BaselineUnits : uAt'[w] = uRun.port
        OBVIOUS
      <3>2. PICK w \in BaselineUnits : uAt[w] = uRun.port
        BY <3>1 DEF UploadInv, CheckedFirst
      <3>4. w # u /\ w \in Units
        BY <3>1, <3>2, <1>1, UploadAssumption DEF Upload!Handling
      <3> QED BY <3>2, <3>4, <1>2
    <2> QED BY <2>1, <1>1 DEF UploadInv, CheckedFirst, Upload!Identified
  <1>8. WithinCounts' /\ OnlyReviewed' /\ AskedIsSingle' /\ WrittenOnce'
    BY <1>1 DEF UploadInv, WithinCounts, OnlyReviewed, AskedIsSingle, WrittenOnce
  <1>9. Upload!OnlyFresh'
    BY <1>1 DEF UploadInv, Upload!OnlyFresh
  <1> QED BY <1>3, <1>4, <1>5, <1>6, <1>7, <1>8, <1>9 DEF UploadInv

\* The page and the tag may change under the script.
LEMMA UploadPage ==
    ASSUME UploadInv, NEW c \in Upload!Contents,
           Upload!MoveTag(c) \/ \E f \in Upload!Files : Upload!Replace(f, c)
    PROVE  UploadInv'
  <1>1. UNCHANGED <<uAt, uRun, uLoose, uWritten>>
    BY DEF Upload!MoveTag, Upload!Replace
  <1>2. uPage' \in [edition : 0 .. MaxEditions, bytes : [Upload!Files -> Upload!Contents], tag : Upload!Contents]
    <2>1. CASE Upload!MoveTag(c)
      BY <2>1 DEF UploadInv, UploadShapes, Upload!MoveTag
    <2>2. CASE \E f \in Upload!Files : Upload!Replace(f, c)
      <3>1. PICK f \in Upload!Files : Upload!Replace(f, c)
        BY <2>2
      <3>2. /\ uPage.edition \in 0 .. MaxEditions /\ uPage.edition < MaxEditions
            /\ uPage.bytes \in [Upload!Files -> Upload!Contents]
        BY <3>1 DEF UploadInv, UploadShapes, Upload!Replace
      <3>3. uPage.edition + 1 \in 0 .. MaxEditions /\ [uPage.bytes EXCEPT ![f] = c] \in [Upload!Files -> Upload!Contents]
        BY <3>2, UploadAssumption
      <3>4. uPage' = [uPage EXCEPT !.edition = uPage.edition + 1, !.bytes = [uPage.bytes EXCEPT ![f] = c]]
        BY <3>1 DEF UploadInv, UploadShapes, Upload!Replace
      <3> QED BY <3>3, <3>4 DEF UploadInv, UploadShapes
    <2> QED BY <2>1, <2>2
  <1>3. UploadShapes'
    BY <1>1, <1>2 DEF UploadInv, UploadShapes
  <1>4. OneEach' /\ AwayIsLoose' /\ NewIsLoose'
    BY <1>1 DEF UploadInv, OneEach, AwayIsLoose, NewIsLoose
  <1>5. WithinCounts' /\ OnlyReviewed' /\ AskedIsSingle' /\ WrittenOnce' /\ Upload!OnlyFresh'
    BY <1>1 DEF UploadInv, WithinCounts, OnlyReviewed, AskedIsSingle, WrittenOnce, Upload!OnlyFresh
  <1>6. ChosenStays' /\ CheckedFirst'
    BY <1>1 DEF UploadInv, ChosenStays, CheckedFirst, Upload!Identified
  <1> QED BY <1>3, <1>4, <1>5, <1>6 DEF UploadInv
\* The addresses taken at the start are those of the units that were never unplugged.
LEMMA UploadStarts == ASSUME UploadInv, Upload!Start PROVE UploadInv'
  <1> DEFINE taken == IF uRun.asked = None THEN Upload!Occupied ELSE {}
  <1>1. uRun \in Uploads /\ UploadRecord(uRun)
    BY UploadIsRecord DEF UploadInv, UploadShapes
  <1>2. uRun.pc = "start" /\ UploadRest /\ uRun' = [uRun EXCEPT !.pc = "tools", !.ignored = taken]
    BY <1>1, StepStart DEF Upload!Start, Upload!Quiet, UploadRest
  <1>3. taken \subseteq Addresses
    BY DEF UploadInv, UploadShapes, Upload!Occupied, Upload!Ports
  <1>4. uRun.asked = None => \A u \in Units : uAt[u] # None => uAt[u] \in taken
    BY DEF Upload!Occupied, Upload!Ports
  <1> HIDE DEF taken
  <1>5. /\ uRun'.pc = "tools" /\ uRun'.done = uRun.done /\ uRun'.left = uRun.left /\ uRun'.count = uRun.count
        /\ uRun'.stable = uRun.stable /\ uRun'.asked = uRun.asked /\ uRun'.ignored = taken
    BY <1>1, <1>2 DEF Uploads
  <1>6. UploadShapes'
    <2>1. uRun' \in Uploads
      BY <1>1, <1>2, <1>3 DEF Uploads, UploadStates
    <2> QED BY <2>1, <1>2 DEF UploadInv, UploadShapes, UploadRest
  <1>7. OneEach' /\ AwayIsLoose'
    BY <1>2 DEF UploadInv, OneEach, AwayIsLoose, UploadRest
  <1>8. WithinCounts' /\ AskedIsSingle'
    BY <1>2, <1>5 DEF UploadInv, WithinCounts, AskedIsSingle
  <1>9. OnlyReviewed' /\ ChosenStays' /\ CheckedFirst'
    BY <1>5 DEF OnlyReviewed, ChosenStays, CheckedFirst, Upload!Handling
  <1>10. WrittenOnce' /\ Upload!OnlyFresh'
    BY <1>2, <1>5 DEF UploadInv, WrittenOnce, Upload!OnlyFresh, UploadRest
  <1>11. NewIsLoose'
    BY <1>2, <1>4, <1>5 DEF NewIsLoose, UploadRest
  <1> QED BY <1>6, <1>7, <1>8, <1>9, <1>10, <1>11 DEF UploadInv

\* The recheck finds the reviewed files before the first poll.
LEMMA UploadChecked ==
    ASSUME UploadInv, UploadRest, uRun.pc = "recheck", Upload!Valid, uRun' = [uRun EXCEPT !.pc = "wait"]
    PROVE  UploadInv'
  <1>1. uRun \in Uploads
    BY DEF UploadInv, UploadShapes
  <1>2. /\ uRun'.pc = "wait" /\ uRun'.done = uRun.done /\ uRun'.left = uRun.left /\ uRun'.count = uRun.count
        /\ uRun'.stable = uRun.stable /\ uRun'.asked = uRun.asked /\ uRun'.ignored = uRun.ignored
        /\ uRun'.got = uRun.got
    BY <1>1 DEF Uploads
  <1>3. UploadShapes'
    <2>1. uRun' \in Uploads
      BY <1>1 DEF Uploads, UploadStates
    <2> QED BY <2>1 DEF UploadInv, UploadShapes, UploadRest
  <1>4. OneEach' /\ AwayIsLoose' /\ AskedIsSingle'
    BY <1>2 DEF UploadInv, OneEach, AwayIsLoose, AskedIsSingle, UploadRest
  <1>5. WithinCounts'
    BY <1>2, UploadAssumption DEF UploadInv, WithinCounts
  <1>6. OnlyReviewed' /\ ChosenStays' /\ CheckedFirst'
    BY <1>2 DEF OnlyReviewed, ChosenStays, CheckedFirst, Upload!Handling, Upload!Valid
  <1>7. WrittenOnce' /\ NewIsLoose' /\ Upload!OnlyFresh'
    BY <1>2 DEF UploadInv, WrittenOnce, NewIsLoose, Upload!OnlyFresh, UploadRest
  <1> QED BY <1>3, <1>4, <1>5, <1>6, <1>7 DEF UploadInv

\* What a poll leaves of the addresses that were taken still covers every unit
\* that was never unplugged.
LEMMA StillIgnored ==
    ASSUME UploadInv, uRun.pc = "wait", uRun.asked = None
    PROVE  /\ Upload!Ignored \subseteq Addresses
           /\ \A u \in Units : uAt[u] # None /\ uAt[u] \notin Upload!Ignored => u \in uLoose
  <1>1. Upload!Ignored \subseteq Addresses
    BY DEF UploadInv, UploadShapes, Uploads, Upload!Ignored
  <1>2. \A u \in Units : uAt[u] # None => uAt[u] \in Upload!Occupied
    BY DEF Upload!Occupied, Upload!Ports
  <1>3. \A u \in Units : uAt[u] # None /\ uAt[u] \notin uRun.ignored => u \in uLoose
    BY DEF UploadInv, NewIsLoose
  <1> QED BY <1>1, <1>2, <1>3 DEF Upload!Ignored

\* A poll counts, or chooses a unit that is new since the start.
LEMMA UploadPolls == ASSUME UploadInv, Upload!Poll PROVE UploadInv'
  <1> DEFINE unit == CHOOSE u \in Upload!Fresh : TRUE
             stable == IF Upload!Same(unit) THEN uRun.stable + 1 ELSE 1
             next == IF stable = StablePolls THEN "claim" ELSE "wait"
  <1>1. uRun \in Uploads /\ UploadRecord(uRun)
    BY UploadIsRecord DEF UploadInv, UploadShapes
  <1>2. uRun.pc = "wait" /\ uRun.asked = None /\ UploadRest
    BY DEF Upload!Poll, Upload!Quiet, UploadRest
  <1>3. /\ Upload!Ignored \subseteq Addresses
        /\ \A u \in Units : uAt[u] # None /\ uAt[u] \notin Upload!Ignored => u \in uLoose
    BY <1>2, StillIgnored
  <1>4. CASE uRun' = [uRun EXCEPT !.pc = "failed"]
    BY <1>2, <1>4, UploadFails
  <1>5. CASE uRun' = [uRun EXCEPT !.ignored = Upload!Ignored, !.unit = None, !.port = None, !.stable = 0]
    <2>2. /\ uRun'.pc = "wait" /\ uRun'.done = uRun.done /\ uRun'.left = uRun.left /\ uRun'.count = uRun.count
          /\ uRun'.stable = 0 /\ uRun'.asked = uRun.asked /\ uRun'.ignored = Upload!Ignored
          /\ uRun'.got = uRun.got
      BY <1>1, <1>2, <1>5 DEF Uploads
    <2>3. UploadShapes'
      <3>1. uRun' \in Uploads
        BY <1>1, <1>3, <1>5 DEF Uploads, UploadStates
      <3> QED BY <3>1, <1>2 DEF UploadInv, UploadShapes, UploadRest
    <2>4. OneEach' /\ AwayIsLoose' /\ AskedIsSingle'
      BY <1>2, <2>2 DEF UploadInv, OneEach, AwayIsLoose, AskedIsSingle, UploadRest
    <2>5. WithinCounts'
      BY <1>2, <2>2, UploadAssumption DEF UploadInv, WithinCounts
    <2>6. OnlyReviewed' /\ ChosenStays' /\ CheckedFirst'
      BY <1>2, <2>2 DEF UploadInv, OnlyReviewed, ChosenStays, CheckedFirst, Upload!Handling
    <2>7. WrittenOnce' /\ Upload!OnlyFresh'
      BY <1>2, <2>2 DEF UploadInv, WrittenOnce, Upload!OnlyFresh, UploadRest
    <2>8. NewIsLoose'
      BY <1>2, <1>3, <2>2 DEF NewIsLoose, UploadRest
    <2> QED BY <2>3, <2>4, <2>5, <2>6, <2>7, <2>8 DEF UploadInv
  <1>6. CASE /\ Upload!Fresh # {}
             /\ uRun' = [uRun EXCEPT !.ignored = Upload!Ignored, !.unit = unit, !.port = uAt[unit],
                                     !.stable = stable, !.pc = next]
    <2>1. unit \in Upload!Fresh
      BY <1>6, Zenon
    <2>2. stable \in Nat /\ stable <= StablePolls /\ (stable = StablePolls \/ stable < StablePolls)
      BY <1>1, <1>2, UploadAssumption DEF UploadInv, WithinCounts, Uploads
    <2> HIDE DEF unit, stable
    <2>3. /\ unit \in Supported /\ unit \in Units /\ uAt[unit] # None /\ uAt[unit] \notin Upload!Ignored
          /\ IdOf[unit] = NoId \/ IdOf[unit] \notin uRun.done
      BY <2>1, UploadAssumption DEF Upload!Fresh, Upload!Unseen, Upload!Ports
    <2>4. unit \in uLoose /\ uAt[unit] \in Addresses
      BY <2>3, <1>3 DEF UploadInv, UploadShapes
    <2>5. /\ uRun'.pc = next /\ uRun'.done = uRun.done /\ uRun'.left = uRun.left /\ uRun'.count = uRun.count
          /\ uRun'.stable = stable /\ uRun'.asked = None /\ uRun'.ignored = Upload!Ignored
          /\ uRun'.got = uRun.got /\ uRun'.unit = unit /\ uRun'.port = uAt[unit]
      BY <1>1, <1>2, <1>6 DEF Uploads
    <2>6. next \in {"claim", "wait"} /\ (next = "wait" => stable < StablePolls)
      BY <2>2
    <2> HIDE DEF next
    <2>7. UploadShapes'
      <3>1. uRun' \in Uploads
        BY <1>1, <1>3, <1>6, <2>2, <2>3, <2>4, <2>6 DEF Uploads, UploadStates
      <3> QED BY <3>1, <1>2 DEF UploadInv, UploadShapes, UploadRest
    <2>8. OneEach' /\ AwayIsLoose' /\ AskedIsSingle'
      BY <1>2, <2>5 DEF UploadInv, OneEach, AwayIsLoose, AskedIsSingle, UploadRest
    <2>9. WithinCounts'
      BY <1>2, <2>2, <2>5, <2>6, UploadAssumption DEF UploadInv, WithinCounts
    <2>10. OnlyReviewed' /\ CheckedFirst'
      BY <1>2, <2>5, <2>6 DEF UploadInv, OnlyReviewed, CheckedFirst
    <2>11. ChosenStays'
      BY <1>2, <2>3, <2>4, <2>5 DEF ChosenStays, UploadRest
    <2>12. WrittenOnce' /\ Upload!OnlyFresh'
      BY <1>2, <2>5, <2>6 DEF UploadInv, WrittenOnce, Upload!OnlyFresh, UploadRest
    <2>13. NewIsLoose'
      BY <1>2, <1>3, <2>5 DEF NewIsLoose, UploadRest
    <2> QED BY <2>7, <2>8, <2>9, <2>10, <2>11, <2>12, <2>13 DEF UploadInv
  <1>7. \/ Upload!Step([pc |-> "failed"])
        \/ Upload!Step([ignored |-> Upload!Ignored, unit |-> None, port |-> None, stable |-> 0])
        \/ /\ Upload!Fresh # {}
           /\ Upload!Step([ignored |-> Upload!Ignored, unit |-> unit, port |-> uAt[unit],
                           stable |-> stable, pc |-> next])
    BY DEF Upload!Poll, Upload!Give
  <1> HIDE DEF unit, stable, next
  <1>8. \/ uRun' = [uRun EXCEPT !.pc = "failed"]
        \/ uRun' = [uRun EXCEPT !.ignored = Upload!Ignored, !.unit = None, !.port = None, !.stable = 0]
        \/ /\ Upload!Fresh # {}
           /\ uRun' = [uRun EXCEPT !.ignored = Upload!Ignored, !.unit = unit, !.port = uAt[unit],
                                   !.stable = stable, !.pc = next]
    <2>1. CASE Upload!Step([pc |-> "failed"])
      BY <1>1, <2>1, StepTo DEF Upload!To
    <2>2. CASE Upload!Step([ignored |-> Upload!Ignored, unit |-> None, port |-> None, stable |-> 0])
      <3> DEFINE c == [ignored |-> Upload!Ignored, unit |-> None, port |-> None, stable |-> 0]
      <3>1. /\ DOMAIN c = {"ignored", "unit", "port", "stable"}
            /\ c.ignored = Upload!Ignored /\ c.unit = None /\ c.port = None /\ c.stable = 0
        OBVIOUS
      <3>2. Upload!Step(c)
        BY <2>2
      <3> HIDE DEF c
      <3> QED BY <1>1, <3>1, <3>2, StepKeep
    <2>3. CASE /\ Upload!Fresh # {}
               /\ Upload!Step([ignored |-> Upload!Ignored, unit |-> unit, port |-> uAt[unit],
                               stable |-> stable, pc |-> next])
      <3> DEFINE c == [ignored |-> Upload!Ignored, unit |-> unit, port |-> uAt[unit],
                       stable |-> stable, pc |-> next]
      <3>1. /\ DOMAIN c = {"ignored", "unit", "port", "stable", "pc"}
            /\ c.ignored = Upload!Ignored /\ c.unit = unit /\ c.port = uAt[unit]
            /\ c.stable = stable /\ c.pc = next
        OBVIOUS
      <3>2. Upload!Step(c)
        BY <2>3
      <3> HIDE DEF c
      <3> QED BY <1>1, <2>3, <3>1, <3>2, StepChoice
    <2> QED BY <1>7, <2>1, <2>2, <2>3
  <1> QED BY <1>4, <1>5, <1>6, <1>8
\* A step that only moves on: to the write, or away from it.
LEMMA UploadHandles ==
    ASSUME UploadInv, UploadRest, NEW x \in {"claim", "baseline", "write"}, NEW p \in Addresses,
           uRun' = [uRun EXCEPT !.pc = x, !.port = p],
           \/ uRun.pc = "wait" /\ x = "claim" /\ uRun.asked # None
           \/ /\ uRun.pc \in {"claim", "baseline"} /\ x # "claim" /\ p = uRun.port /\ Upload!Identified
              /\ x = "write" => \E u \in BaselineUnits : uAt[u] = uRun.port
    PROVE  UploadInv'
  <1>1. uRun \in Uploads
    BY DEF UploadInv, UploadShapes
  <1>2. /\ uRun'.pc = x /\ uRun'.done = uRun.done /\ uRun'.left = uRun.left /\ uRun'.count = uRun.count
        /\ uRun'.stable = uRun.stable /\ uRun'.asked = uRun.asked /\ uRun'.ignored = uRun.ignored
        /\ uRun'.got = uRun.got /\ uRun'.unit = uRun.unit /\ uRun'.port = p
    BY <1>1 DEF Uploads
  <1>3. UploadShapes'
    <2>1. uRun' \in Uploads
      BY <1>1 DEF Uploads, UploadStates
    <2> QED BY <2>1 DEF UploadInv, UploadShapes, UploadRest
  <1>4. OneEach' /\ AwayIsLoose' /\ AskedIsSingle'
    BY <1>2 DEF UploadInv, OneEach, AwayIsLoose, AskedIsSingle, UploadRest
  <1>5. WithinCounts' /\ OnlyReviewed'
    BY <1>2 DEF UploadInv, WithinCounts, OnlyReviewed
  <1>6. ChosenStays'
    BY <1>2 DEF UploadInv, ChosenStays, Upload!Handling, UploadRest
  <1>7. CheckedFirst'
    BY <1>2 DEF CheckedFirst, Upload!Identified, UploadRest
  <1>8. WrittenOnce' /\ NewIsLoose' /\ Upload!OnlyFresh'
    BY <1>2 DEF UploadInv, WrittenOnce, NewIsLoose, Upload!OnlyFresh, UploadRest
  <1> QED BY <1>3, <1>4, <1>5, <1>6, <1>7, <1>8 DEF UploadInv

LEMMA PortAgain == ASSUME uRun \in Uploads, NEW x, uRun' = [uRun EXCEPT !.pc = x]
                   PROVE  uRun' = [uRun EXCEPT !.pc = x, !.port = uRun.port]
  BY DEF Uploads

\* The address asked for, the claim and the baseline check.
LEMMA UploadChooses ==
    ASSUME UploadInv, NEW ok \in BOOLEAN,
           Upload!Explicit(ok) \/ Upload!Claim(ok) \/ Upload!VerifyBaseline(ok)
    PROVE  UploadInv'
  <1>1. uRun \in Uploads /\ UploadRecord(uRun)
    BY UploadIsRecord DEF UploadInv, UploadShapes
  <1>2. CASE Upload!Explicit(ok)
    <2>1. uRun.pc = "wait" /\ uRun.asked # None /\ UploadRest
      BY <1>2 DEF Upload!Explicit, Upload!Quiet, UploadRest
    <2>2. uRun.asked \in Addresses
      BY <1>1, <2>1 DEF Uploads
    <2>3. Upload!Step([pc |-> "failed"]) \/ Upload!Step([pc |-> "claim", port |-> uRun.asked])
      BY <1>2 DEF Upload!Explicit, Upload!Give
    <2>4. CASE Upload!Step([pc |-> "failed"])
      BY <1>1, <2>1, <2>4, StepTo, UploadFails DEF Upload!To
    <2>5. CASE Upload!Step([pc |-> "claim", port |-> uRun.asked])
      <3>1. uRun' = [uRun EXCEPT !.pc = "claim", !.port = uRun.asked]
        BY <1>1, <2>5, StepPort
      <3> QED BY <2>1, <2>2, <3>1, UploadHandles
    <2> QED BY <2>3, <2>4, <2>5
  <1>3. CASE Upload!Claim(ok)
    <2>1. uRun.pc = "claim" /\ UploadRest
      BY <1>3 DEF Upload!Claim, Upload!Quiet, UploadRest
    <2>2. Upload!Step([pc |-> "failed"]) \/ (Upload!Identified /\ Upload!Step(Upload!To("baseline")))
      BY <1>3 DEF Upload!Claim, Upload!Give
    <2>3. CASE Upload!Step([pc |-> "failed"])
      BY <1>1, <2>1, <2>3, StepTo, UploadFails DEF Upload!To
    <2>4. CASE Upload!Identified /\ Upload!Step(Upload!To("baseline"))
      <3>1. uRun' = [uRun EXCEPT !.pc = "baseline", !.port = uRun.port]
        BY <1>1, <2>4, StepTo, PortAgain DEF Upload!To
      <3>2. uRun.port \in Addresses
        BY <2>1 DEF UploadInv, ChosenStays, Upload!Handling
      <3> QED BY <2>1, <2>4, <3>1, <3>2, UploadHandles
    <2> QED BY <2>2, <2>3, <2>4
  <1>4. CASE Upload!VerifyBaseline(ok)
    <2>1. uRun.pc = "baseline" /\ UploadRest
      BY <1>4 DEF Upload!VerifyBaseline, Upload!Quiet, UploadRest
    <2>2. \/ Upload!Step([pc |-> "failed"])
          \/ (\E u \in BaselineUnits : uAt[u] = uRun.port) /\ Upload!Step(Upload!To("write"))
      BY <1>4 DEF Upload!VerifyBaseline, Upload!Give
    <2>3. CASE Upload!Step([pc |-> "failed"])
      BY <1>1, <2>1, <2>3, StepTo, UploadFails DEF Upload!To
    <2>4. CASE (\E u \in BaselineUnits : uAt[u] = uRun.port) /\ Upload!Step(Upload!To("write"))
      <3>1. uRun' = [uRun EXCEPT !.pc = "write", !.port = uRun.port]
        BY <1>1, <2>4, StepTo, PortAgain DEF Upload!To
      <3>2. uRun.port \in Addresses /\ Upload!Identified
        BY <2>1 DEF UploadInv, ChosenStays, CheckedFirst, Upload!Handling
      <3> QED BY <2>1, <2>4, <3>1, <3>2, UploadHandles
    <2> QED BY <2>2, <2>3, <2>4
  <1> QED BY <1>2, <1>3, <1>4

\* Between two units: the address of the last one is ignored until it is free.
LEMMA UploadGoesAway == ASSUME UploadInv, Upload!Away PROVE UploadInv'
  <1>1. uRun \in Uploads /\ UploadRecord(uRun)
    BY UploadIsRecord DEF UploadInv, UploadShapes
  <1>2. uRun.pc = "away" /\ UploadRest /\ uRun.stable \in Nat /\ uRun.stable <= AwayPolls
    BY <1>1 DEF Upload!Away, Upload!Quiet, UploadRest, UploadInv, WithinCounts, Uploads
  <1>3. CASE \E n \in 0 .. AwayPolls : uRun' = [uRun EXCEPT !.stable = n]
    <2>1. PICK n \in 0 .. AwayPolls : uRun' = [uRun EXCEPT !.stable = n]
      BY <1>3
    <2>2. /\ uRun'.pc = "away" /\ uRun'.done = uRun.done /\ uRun'.left = uRun.left /\ uRun'.count = uRun.count
          /\ uRun'.stable = n /\ uRun'.asked = uRun.asked /\ uRun'.ignored = uRun.ignored
          /\ uRun'.got = uRun.got
      BY <1>1, <1>2, <2>1 DEF Uploads
    <2>3. UploadShapes'
      <3>1. uRun' \in Uploads
        BY <1>1, <2>1, UploadAssumption DEF Uploads, UploadStates
      <3> QED BY <3>1, <1>2 DEF UploadInv, UploadShapes, UploadRest
    <2>4. OneEach' /\ AwayIsLoose' /\ AskedIsSingle'
      BY <1>2, <2>2 DEF UploadInv, OneEach, AwayIsLoose, AskedIsSingle, UploadRest
    <2>5. WithinCounts'
      BY <1>2, <2>2, UploadAssumption DEF UploadInv, WithinCounts
    <2>6. OnlyReviewed' /\ ChosenStays' /\ CheckedFirst'
      BY <1>2, <2>2 DEF UploadInv, OnlyReviewed, ChosenStays, CheckedFirst, Upload!Handling
    <2>7. WrittenOnce' /\ Upload!OnlyFresh' /\ NewIsLoose'
      BY <1>2, <2>2 DEF UploadInv, WrittenOnce, Upload!OnlyFresh, NewIsLoose, UploadRest
    <2> QED BY <2>3, <2>4, <2>5, <2>6, <2>7 DEF UploadInv
  <1>4. CASE uRun' = [uRun EXCEPT !.pc = "wait", !.ignored = Upload!Occupied, !.unit = None,
                                  !.port = None, !.stable = 0]
    <2>1. /\ Upload!Occupied \subseteq Addresses
          /\ \A u \in Units : uAt[u] # None => uAt[u] \in Upload!Occupied
      BY DEF UploadInv, UploadShapes, Upload!Occupied, Upload!Ports
    <2>2. /\ uRun'.pc = "wait" /\ uRun'.done = uRun.done /\ uRun'.left = uRun.left /\ uRun'.count = uRun.count
          /\ uRun'.stable = 0 /\ uRun'.asked = uRun.asked /\ uRun'.ignored = Upload!Occupied
          /\ uRun'.got = uRun.got
      BY <1>1, <1>4 DEF Uploads
    <2>3. UploadShapes'
      <3>1. uRun' \in Uploads
        BY <1>1, <1>4, <2>1 DEF Uploads, UploadStates
      <3> QED BY <3>1, <1>2 DEF UploadInv, UploadShapes, UploadRest
    <2>4. OneEach' /\ AwayIsLoose' /\ AskedIsSingle'
      BY <1>2, <2>2 DEF UploadInv, OneEach, AwayIsLoose, AskedIsSingle, UploadRest
    <2>5. WithinCounts'
      BY <1>2, <2>2, UploadAssumption DEF UploadInv, WithinCounts
    <2>6. OnlyReviewed' /\ ChosenStays' /\ CheckedFirst'
      BY <1>2, <2>2 DEF UploadInv, OnlyReviewed, ChosenStays, CheckedFirst, Upload!Handling
    <2>7. WrittenOnce' /\ Upload!OnlyFresh'
      BY <1>2, <2>2 DEF UploadInv, WrittenOnce, Upload!OnlyFresh, UploadRest
    <2>8. NewIsLoose'
      BY <1>2, <2>1, <2>2 DEF NewIsLoose, UploadRest
    <2> QED BY <2>3, <2>4, <2>5, <2>6, <2>7, <2>8 DEF UploadInv
  <1>5. \/ Upload!Step([stable |-> 0])
        \/ uRun.stable < AwayPolls /\ Upload!Step([stable |-> uRun.stable + 1])
        \/ Upload!Step([pc |-> "wait", ignored |-> Upload!Occupied, unit |-> None, port |-> None,
                        stable |-> 0])
    BY DEF Upload!Away
  <1>6. CASE Upload!Step([stable |-> 0])
    BY <1>1, <1>3, <1>6, StepStable, UploadAssumption
  <1>7. CASE uRun.stable < AwayPolls /\ Upload!Step([stable |-> uRun.stable + 1])
    <2>1. uRun' = [uRun EXCEPT !.stable = uRun.stable + 1]
      BY <1>1, <1>7, StepStable
    <2>2. uRun.stable + 1 \in 0 .. AwayPolls
      BY <1>2, <1>7, UploadAssumption
    <2> QED BY <1>3, <2>1, <2>2
  <1>8. CASE Upload!Step([pc |-> "wait", ignored |-> Upload!Occupied, unit |-> None, port |-> None,
                          stable |-> 0])
    <2> DEFINE c == [pc |-> "wait", ignored |-> Upload!Occupied, unit |-> None, port |-> None,
                     stable |-> 0]
    <2>1. /\ DOMAIN c = {"pc", "ignored", "unit", "port", "stable"}
          /\ c.pc = "wait" /\ c.ignored = Upload!Occupied /\ c.unit = None /\ c.port = None
          /\ c.stable = 0
      OBVIOUS
    <2>2. Upload!Step(c)
      BY <1>8
    <2> HIDE DEF c
    <2> QED BY <1>1, <1>4, <2>1, <2>2, StepAway
  <1> QED BY <1>5, <1>6, <1>7, <1>8
\* The write: of the units at the port, none has been written before, and with
\* no port asked for it is the chosen one.
LEMMA UploadWrites == ASSUME UploadInv, NEW ok \in BOOLEAN, Upload!Write(ok) PROVE UploadInv'
  <1> DEFINE ids == uRun.done \cup ({IdOf[u] : u \in {uRun.unit} \ {None}} \ {NoId})
             next == IF uRun.left > 1 THEN "away" ELSE "done"
  <1>1. uRun \in Uploads /\ UploadRecord(uRun)
    BY UploadIsRecord DEF UploadInv, UploadShapes
  <1>2. /\ uRun.pc = "write" /\ UNCHANGED <<uAt, uPage, uLoose>>
        /\ uWritten' = [u \in Units |-> IF uAt[u] = uRun.port
                                        THEN <<uWritten[u][1] + 1, uRun.got["update.bin"]>>
                                        ELSE uWritten[u]]
    BY DEF Upload!Write
  <1>3. /\ uRun.got["update.bin"] = Upload!Pinned /\ uRun.port \in Addresses /\ Upload!Identified
        /\ uRun.left >= 1 /\ uRun.left \in Nat /\ uRun.left <= uRun.count /\ uRun.count \in Nat
    BY <1>1, <1>2, UploadAssumption
       DEF UploadInv, OnlyReviewed, ChosenStays, CheckedFirst, WrittenOnce, WithinCounts, Uploads,
           Upload!Handling, Upload!Files
  <1>4. \A u \in Units : uAt[u] = uRun.port =>
           /\ uWritten[u][1] = 0 /\ u \in BaselineUnits
           /\ uRun.asked = None => u = uRun.unit /\ u \in Supported \cap uLoose
    <2>1. SUFFICES ASSUME NEW u \in Units, uAt[u] = uRun.port
                   PROVE  /\ uWritten[u][1] = 0 /\ u \in BaselineUnits
                          /\ uRun.asked = None => u = uRun.unit /\ u \in Supported \cap uLoose
      OBVIOUS
    <2>2. uRun.port # None
      BY <1>3, UploadAssumption
    <2>3. PICK w \in BaselineUnits : uAt[w] = uRun.port
      BY <1>2 DEF UploadInv, CheckedFirst
    <2>4. w = u
      BY <2>1, <2>2, <2>3, UploadAssumption DEF UploadInv, OneEach
    <2>5. uRun.asked = None => u = uRun.unit /\ u \in Supported \cap uLoose
      BY <1>2, <2>1, <2>2, UploadAssumption DEF UploadInv, OneEach, ChosenStays, Upload!Handling
    <2>6. uWritten[u][1] \in Nat
      BY DEF UploadInv, UploadShapes
    <2>7. ASSUME uWritten[u][1] > 0 PROVE FALSE
      <3>1. uRun.left < uRun.count /\ IdOf[u] \in uRun.done /\ IdOf[u] # NoId
        BY <1>2, <2>7 DEF UploadInv, WrittenOnce
      <3>2. uRun.asked = None
        BY <1>3, <3>1 DEF UploadInv, AskedIsSingle
      <3>3. IdOf[u] = NoId \/ IdOf[u] \notin uRun.done
        BY <1>2, <2>5, <3>2 DEF UploadInv, ChosenStays, Upload!Handling
      <3> QED BY <3>1, <3>3
    <2> QED BY <2>3, <2>4, <2>5, <2>6, <2>7
  <1>5. uWritten' \in [Units -> Nat \X (Upload!Contents \cup {None})]
    <2>1. Upload!Pinned \in Upload!Contents
      BY DEF Upload!Contents
    <2>2. \A u \in Units : <<uWritten[u][1] + 1, uRun.got["update.bin"]>> \in Nat \X (Upload!Contents \cup {None})
      BY <1>3, <2>1 DEF UploadInv, UploadShapes
    <2> QED BY <1>2, <2>2 DEF UploadInv, UploadShapes
  <1>6. Upload!OnlyFresh'
    <2>1. SUFFICES ASSUME NEW u \in Units, uWritten'[u][1] > 0
                   PROVE  /\ uWritten'[u] = <<1, Upload!Pinned>> /\ u \in BaselineUnits
                          /\ uRun'.asked = None => u \in Supported \cap uLoose'
      BY DEF Upload!OnlyFresh
    <2>2. uRun'.asked = uRun.asked
      <3> DEFINE c == [pc |-> next, left |-> uRun.left - 1, done |-> ids, stable |-> 0]
      <3>1. Upload!Step(c) \/ Upload!Step([pc |-> "failed"])
        BY DEF Upload!Write, Upload!Give
      <3>2. DOMAIN c = {"pc", "left", "done", "stable"} /\ DOMAIN [pc |-> "failed"] = {"pc"}
        OBVIOUS
      <3> HIDE DEF c
      <3> QED BY <1>1, <3>1, <3>2, StepFields DEF UploadFields
    <2>3. CASE uAt[u] = uRun.port
      BY <1>2, <1>3, <1>4, <2>2, <2>3
    <2>4. CASE uAt[u] # uRun.port
      BY <1>2, <2>1, <2>2, <2>4 DEF UploadInv, Upload!OnlyFresh
    <2> QED BY <2>3, <2>4
  <1>7. OneEach' /\ AwayIsLoose'
    BY <1>2 DEF UploadInv, OneEach, AwayIsLoose
  <1>8. CASE uRun' = [uRun EXCEPT !.pc = "failed"]
    <2>1. /\ uRun'.pc = "failed" /\ uRun'.done = uRun.done /\ uRun'.left = uRun.left /\ uRun'.count = uRun.count
          /\ uRun'.stable = uRun.stable /\ uRun'.asked = uRun.asked
      BY <1>1, <1>8 DEF Uploads
    <2>2. UploadShapes'
      <3>1. uRun' \in Uploads
        BY <1>1, <1>8 DEF Uploads, UploadStates
      <3> QED BY <3>1, <1>2, <1>5 DEF UploadInv, UploadShapes
    <2>3. WithinCounts' /\ AskedIsSingle'
      BY <2>1 DEF UploadInv, WithinCounts, AskedIsSingle
    <2>4. OnlyReviewed' /\ ChosenStays' /\ CheckedFirst' /\ WrittenOnce' /\ NewIsLoose'
      BY <2>1 DEF OnlyReviewed, ChosenStays, CheckedFirst, WrittenOnce, NewIsLoose, Upload!Handling
    <2> QED BY <1>6, <1>7, <2>2, <2>3, <2>4 DEF UploadInv
  <1>9. CASE uRun' = [uRun EXCEPT !.pc = next, !.left = uRun.left - 1, !.done = ids, !.stable = 0]
    <2>1. /\ ids \subseteq {IdOf[u] : u \in Units} /\ NoId \notin ids /\ uRun.done \subseteq ids
          /\ uRun.unit # None /\ IdOf[uRun.unit] # NoId => IdOf[uRun.unit] \in ids
      BY <1>1 DEF UploadInv, WithinCounts, Uploads
    <2>2. next \in {"away", "done"} /\ (next = "away" <=> uRun.left > 1)
      OBVIOUS
    <2> HIDE DEF ids, next
    <2>3. /\ uRun'.pc = next /\ uRun'.done = ids /\ uRun'.left = uRun.left - 1 /\ uRun'.count = uRun.count
          /\ uRun'.stable = 0 /\ uRun'.asked = uRun.asked /\ uRun'.got = uRun.got
          /\ uRun'.ignored = uRun.ignored
      BY <1>1, <1>9 DEF Uploads
    <2>4. UploadShapes'
      <3>1. uRun' \in Uploads
        <4>1. /\ uRun.left - 1 \in Nat /\ next \in UploadStates /\ ids \in SUBSET {IdOf[u] : u \in Units}
          BY <1>3, <2>1, <2>2 DEF UploadStates
        <4> QED BY <1>1, <1>9, <4>1 DEF Uploads
      <3> QED BY <3>1, <1>2, <1>5 DEF UploadInv, UploadShapes
    <2>5. WithinCounts' /\ AskedIsSingle'
      BY <1>3, <2>1, <2>2, <2>3, UploadAssumption DEF UploadInv, WithinCounts, AskedIsSingle
    <2>6. OnlyReviewed' /\ ChosenStays' /\ CheckedFirst'
      BY <1>2, <2>2, <2>3 DEF UploadInv, OnlyReviewed, ChosenStays, CheckedFirst, Upload!Handling
    <2>7. NewIsLoose'
      BY <1>2, <2>2, <2>3 DEF UploadInv, NewIsLoose
    <2>8. WrittenOnce'
      <3>1. SUFFICES ASSUME next = "away"
                     PROVE  /\ uRun.left - 1 >= 1
                            /\ \A u \in Units : uWritten'[u][1] > 0 =>
                                  uRun.left - 1 < uRun.count /\ IdOf[u] \in ids /\ IdOf[u] # NoId
        BY <2>2, <2>3 DEF WrittenOnce
      <3>2. uRun.left > 1 /\ uRun.count > 1 /\ uRun.asked = None
        BY <1>3, <2>2, <3>1 DEF UploadInv, AskedIsSingle
      <3>3. /\ uRun.unit \in Units /\ uRun.unit # None /\ IdOf[uRun.unit] # NoId
        BY <1>2, <1>3, <3>2, UploadAssumption DEF UploadInv, ChosenStays, Upload!Handling, Upload!Identified
      <3>4. \A u \in Units : uWritten'[u][1] > 0 => IdOf[u] \in ids /\ IdOf[u] # NoId
        <4>1. SUFFICES ASSUME NEW u \in Units, uWritten'[u][1] > 0 PROVE IdOf[u] \in ids /\ IdOf[u] # NoId
          OBVIOUS
        <4>2. CASE uAt[u] = uRun.port
          BY <1>4, <2>1, <3>2, <3>3, <4>2
        <4>3. CASE uAt[u] # uRun.port
          <5>1. uWritten[u][1] > 0
            BY <1>2, <4>1, <4>3
          <5> QED BY <1>2, <2>1, <5>1 DEF UploadInv, WrittenOnce
        <4> QED BY <4>2, <4>3
      <3> QED BY <1>3, <3>2, <3>4
    <2> QED BY <1>6, <1>7, <2>4, <2>5, <2>6, <2>7, <2>8 DEF UploadInv
  <1>10. Upload!Step([pc |-> "failed"]) \/
         Upload!Step([pc |-> next, left |-> uRun.left - 1, done |-> ids, stable |-> 0])
    BY DEF Upload!Write, Upload!Give
  <1>11. CASE Upload!Step([pc |-> "failed"])
    BY <1>1, <1>8, <1>11, StepTo DEF Upload!To
  <1>12. CASE Upload!Step([pc |-> next, left |-> uRun.left - 1, done |-> ids, stable |-> 0])
    <2> DEFINE c == [pc |-> next, left |-> uRun.left - 1, done |-> ids, stable |-> 0]
    <2>1. /\ DOMAIN c = {"pc", "left", "done", "stable"}
          /\ c.pc = next /\ c.left = uRun.left - 1 /\ c.done = ids /\ c.stable = 0
      OBVIOUS
    <2>2. Upload!Step(c)
      BY <1>12
    <2> HIDE DEF c, next, ids
    <2>3. uRun' = [uRun EXCEPT !.pc = next, !.left = uRun.left - 1, !.done = ids, !.stable = 0]
      BY <1>1, <2>1, <2>2, StepWrite
    <2> QED BY <1>9, <2>3 DEF next, ids
  <1> QED BY <1>10, <1>11, <1>12

LEMMA SameRun == ASSUME uRun \in Uploads, NEW x, uRun' = [uRun EXCEPT !.pc = x]
                 PROVE  uRun' = [uRun EXCEPT !.pc = x, !.snapshot = uRun.snapshot, !.got = uRun.got]
  BY DEF Uploads

\* The download, before any unit is looked at.
LEMMA UploadDownloads ==
    ASSUME UploadInv, NEW ok \in BOOLEAN,
           \/ Upload!Tools(ok) \/ Upload!Before \/ Upload!TagBefore \/ Upload!Get \/ Upload!After
           \/ Upload!Check \/ Upload!Abort
    PROVE  UploadInv'
  <1>1. uRun \in Uploads /\ UploadRecord(uRun)
    BY UploadIsRecord DEF UploadInv, UploadShapes
  <1>2. UploadRest
    BY DEF Upload!Tools, Upload!Before, Upload!TagBefore, Upload!Get, Upload!After, Upload!Check,
           Upload!Abort, Upload!Quiet, UploadRest
  <1>3. ASSUME Upload!Step([pc |-> "failed"]) PROVE UploadInv'
    BY <1>1, <1>2, <1>3, StepTo, UploadFails DEF Upload!To
  <1>4. ASSUME uRun.pc \in {"tools", "before", "tag", "get", "after"},
               NEW x \in {"before", "tag", "get", "after", "recheck"}, Upload!Step(Upload!To(x))
        PROVE  UploadInv'
    <2>1. uRun' = [uRun EXCEPT !.pc = x, !.snapshot = uRun.snapshot, !.got = uRun.got]
      <3>1. uRun' = [uRun EXCEPT !.pc = x]
        BY <1>1, <1>4, StepTo DEF Upload!To
      <3> QED BY <1>1, <3>1, SameRun
    <2>2. uRun.snapshot \in Nat /\ uRun.got \in [Upload!Files -> Upload!Contents \cup {None}]
      BY <1>1 DEF Uploads
    <2> QED BY <1>2, <1>4, <2>1, <2>2, UploadGoesOn
  <1>5. CASE Upload!Tools(ok)
    BY <1>3, <1>4, <1>5 DEF Upload!Tools, Upload!Give
  <1>6. CASE Upload!Before
    <2>1. CASE Upload!Step([pc |-> "tag", snapshot |-> Upload!Snapshot])
      <3>1. uRun' = [uRun EXCEPT !.pc = "tag", !.snapshot = Upload!Snapshot]
        BY <1>1, <2>1, StepBefore
      <3>2. uRun' = [uRun EXCEPT !.pc = "tag", !.snapshot = Upload!Snapshot, !.got = uRun.got]
        BY <1>1, <3>1 DEF Uploads
      <3>3. Upload!Snapshot \in Nat /\ uRun.got \in [Upload!Files -> Upload!Contents \cup {None}]
        BY <1>1, UploadAssumption DEF Uploads, UploadInv, UploadShapes, Upload!Snapshot
      <3>4. uRun.pc = "before"
        BY <1>6 DEF Upload!Before
      <3> QED BY <1>2, <3>2, <3>3, <3>4, UploadGoesOn
    <2> QED BY <1>3, <1>6, <2>1 DEF Upload!Before, Upload!Give
  <1>7. CASE Upload!TagBefore
    BY <1>3, <1>4, <1>7 DEF Upload!TagBefore, Upload!Give
  <1>8. CASE Upload!Get
    <2>1. uRun.pc = "get"
      BY <1>8 DEF Upload!Get
    <2>2. CASE \E f \in Upload!Files : Upload!Step([got |-> [uRun.got EXCEPT ![f] = uPage.bytes[f]]])
      <3>1. PICK f \in Upload!Files : Upload!Step([got |-> [uRun.got EXCEPT ![f] = uPage.bytes[f]]])
        BY <2>2
      <3> DEFINE g == [uRun.got EXCEPT ![f] = uPage.bytes[f]]
      <3>2. g \in [Upload!Files -> Upload!Contents \cup {None}]
        BY <1>1 DEF Uploads, UploadInv, UploadShapes
      <3>3. uRun' = [uRun EXCEPT !.got = g]
        BY <1>1, <3>1, StepGet
      <3> HIDE DEF g
      <3>4. uRun' = [uRun EXCEPT !.pc = "get", !.snapshot = uRun.snapshot, !.got = g] /\ uRun.snapshot \in Nat
        BY <1>1, <2>1, <3>3 DEF Uploads
      <3> QED BY <1>2, <2>1, <3>2, <3>4, UploadGoesOn
    <2> QED BY <1>4, <1>8, <2>1, <2>2 DEF Upload!Get
  <1>9. CASE Upload!After
    BY <1>3, <1>4, <1>9 DEF Upload!After, Upload!Give
  <1>10. CASE Upload!Check
    <2>1. CASE Upload!Valid /\ Upload!Step(Upload!To("wait"))
      <3>1. uRun' = [uRun EXCEPT !.pc = "wait"]
        BY <1>1, <2>1, StepTo DEF Upload!To
      <3> QED BY <1>2, <1>10, <2>1, <3>1, UploadChecked DEF Upload!Check
    <2> QED BY <1>3, <1>10, <2>1 DEF Upload!Check, Upload!Give
  <1>11. CASE Upload!Abort
    BY <1>3, <1>11 DEF Upload!Abort, Upload!To
  <1> QED BY <1>5, <1>6, <1>7, <1>8, <1>9, <1>10, <1>11

\* Every step of the upload keeps the invariant.
LEMMA UploadNext == ASSUME UploadInv, [Upload!Next]_Upload!vars PROVE UploadInv'
  <1>1. CASE \E u \in Units : Upload!Unplug(u) \/ \E a \in Addresses : Upload!Plug(u, a)
    BY <1>1, UploadPlugs, UploadUnplugs
  <1>2. CASE \E c \in Upload!Contents : Upload!MoveTag(c) \/ \E f \in Upload!Files : Upload!Replace(f, c)
    BY <1>2, UploadPage
  <1>3. CASE Upload!Start
    BY <1>3, UploadStarts
  <1>4. CASE Upload!Poll
    BY <1>4, UploadPolls
  <1>5. CASE Upload!Away
    BY <1>5, UploadGoesAway
  <1>6. CASE Upload!Before \/ Upload!TagBefore \/ Upload!Get \/ Upload!After \/ Upload!Check \/ Upload!Abort
    BY <1>6, UploadDownloads
  <1>7. CASE \E ok \in BOOLEAN : Upload!Tools(ok) \/ Upload!Explicit(ok) \/ Upload!Claim(ok)
                               \/ Upload!VerifyBaseline(ok) \/ Upload!Write(ok)
    BY <1>7, UploadDownloads, UploadChooses, UploadWrites
  <1>8. CASE UNCHANGED Upload!vars
    <2>1. UNCHANGED <<uAt, uPage, uRun, uLoose, uWritten>>
      BY <1>8 DEF Upload!vars
    <2>2. UploadShapes' /\ OneEach' /\ WithinCounts' /\ OnlyReviewed' /\ AskedIsSingle' /\ AwayIsLoose'
      BY <2>1 DEF UploadInv, UploadShapes, OneEach, WithinCounts, OnlyReviewed, AskedIsSingle, AwayIsLoose
    <2>3. NewIsLoose' /\ ChosenStays' /\ CheckedFirst' /\ WrittenOnce' /\ Upload!OnlyFresh'
      BY <2>1 DEF UploadInv, NewIsLoose, ChosenStays, CheckedFirst, WrittenOnce, Upload!OnlyFresh,
                  Upload!Identified
    <2> QED BY <2>2, <2>3 DEF UploadInv
  <1> QED BY <1>1, <1>2, <1>3, <1>4, <1>5, <1>6, <1>7, <1>8 DEF Upload!Next

\* Every reachable state of the upload satisfies the invariant.
THEOREM UploadInvHolds == Upload!Spec => []UploadInv
  <1> QED BY UploadInit, UploadNext, PTL DEF Upload!Spec

\* Only the reviewed image is written, and only to boards that were plugged in for it
\* or asked for by hand, whatever is plugged in and out or replaced on the page
\* meanwhile (auto_usb_upload.py).
THEOREM OnlyFreshHolds == Upload!Spec => []OnlyFresh
  <1>1. UploadInv => OnlyFresh
    BY UploadTypes DEF UploadInv, OnlyFresh
  <1> QED BY <1>1, UploadInvHolds, PTL

-----------------------------------------------------------------------------
(***************************************************************************)
(* The restarts of a generator that is offline (OfflineRecovery)           *)
(***************************************************************************)
\* The types of a run, and of what the model remembers of the runs before.
RecoveryRuns ==
    [at : {"boot", "loop", "check"}, cause : Recovery!Causes, seen : Recovery!Orders \cup {"unseen"},
     offline : Recovery!Unset .. Recovery!Longest, stable : Recovery!Unset .. Stable,
     reply : Recovery!Unset .. ServerFresh, known : BOOLEAN, maintenance : {"none", "github", "update"},
     age : 0 .. AbortAfter, restart : Recovery!Unset .. AbortAfter,
     flight : BOOLEAN, uncertain : BOOLEAN, turned : BOOLEAN]

RecoveryPasts ==
    [since : Recovery!Unset .. Recovery!Longest, gap : Recovery!Unset .. Recovery!Longest,
     chain : 0 .. Len(Delays) + 1, tries : Nat, down : 0 .. Recovery!Longest + 2]

RecoveryShapes ==
    /\ rLink \in BOOLEAN /\ rOrder \in Recovery!Orders /\ rEvents \in 0 .. RecoveryEvents
    /\ rHistory \in [attempts : 0 .. Len(Delays), pending : BOOLEAN]
    /\ rUpdates \in 0 .. UpdateAttempts
    /\ rRun \in RecoveryRuns
    /\ rPast \in RecoveryPasts

\* Every attempt to update is in the count that survives a restart, and none begins
\* at its limit.
Rationed ==
    /\ rPast.tries = rUpdates
    /\ rRun.maintenance = "github" /\ rRun.at # "check" /\ rRun.restart = -1 => rUpdates < UpdateAttempts

\* The time since the last restart for the link bounds what the present outage has
\* lasted, and a count of attempts is cleared only after a time of health; a chain of
\* restarts is no longer than that count, unless the count is at its end.
Spaced ==
    /\ rPast.since # -1 /\ rRun.at = "boot" =>
          rHistory.pending /\ rRun.cause = "software" /\ rHistory.attempts >= 1
    /\ rPast.since # -1 /\ rRun.offline # -1 => rRun.offline <= rPast.since
    /\ rRun.stable # -1 => rRun.known
    /\ rPast.since # -1 /\ rRun.stable # -1 => rRun.stable <= rPast.since \/ rPast.since = Recovery!Longest
    /\ rPast.since # -1 /\ rHistory.attempts = 0 /\ rRun.at # "boot" =>
          /\ rRun.known
          /\ \/ rPast.since = Recovery!Longest
             \/ rPast.since >= Stable + (IF rRun.offline = -1 THEN 0 ELSE rRun.offline)
    /\ rPast.chain > 0 =>
          /\ ~rLink /\ rPast.since # -1 /\ rHistory.attempts >= 1
          /\ rHistory.attempts >= rPast.chain \/ rHistory.attempts = Len(Delays)

\* The time without link is bounded by the outage's age, by the age of what blocks
\* the restart, and by the delay that is due.
CutOff ==
    /\ rPast.down > 0 => /\ ~rLink /\ rRun.at = "loop" /\ ~rRun.flight /\ ~rRun.uncertain
                         /\ rRun.turned => rRun.offline # -1
                         /\ rRun.maintenance # "none" =>
                               IF rRun.restart = -1
                               THEN rPast.down <= rRun.age /\ (rRun.turned => rRun.age < AbortAfter)
                               ELSE rPast.down <= rRun.restart /\ (rRun.turned => rRun.restart < AbortAfter)
    /\ rPast.down <= rRun.offline + (IF rRun.offline = -1 THEN 2 ELSE 1)
    /\ rPast.down <= Recovery!Delay(rHistory.attempts, rRun.known) + (IF rRun.turned THEN 0 ELSE 1)

\* The inductive invariant of the offline recovery.
RecoveryInv == RecoveryShapes /\ Rationed /\ Spaced /\ CutOff /\ Recovery!NoStorm

\* The delays, and the longest of them.
LEMMA DelayBounds ==
    /\ Recovery!Longest \in Nat /\ Delays[1] \in Nat /\ Delays[1] <= Recovery!Longest
    /\ \A i \in 1 .. Len(Delays) : Delays[i] \in Nat /\ Delays[1] <= Delays[i] /\ Delays[i] <= Recovery!Longest
    /\ Len(Delays) \in Nat
  BY RecoveryAssumption DEF Recovery!Longest

LEMMA DelayRange ==
    ASSUME NEW n \in 0 .. Len(Delays), NEW k
    PROVE  /\ Recovery!Delay(n, k) \in Nat /\ Recovery!Delay(n, k) <= Recovery!Longest
           /\ AbortAfter <= Recovery!Delay(n, k)
  BY DelayBounds, RecoveryAssumption DEF Recovery!Delay

\* The invariant implies the property and its module's types.
LEMMA RecoveryTypes == ASSUME RecoveryInv PROVE RestartsRationed
  <1>1. Recovery!TypeOK
    BY DEF RecoveryInv, RecoveryShapes, RecoveryRuns, RecoveryPasts, Recovery!TypeOK
  <1>2. Recovery!UpdatesRationed
    BY RecoveryAssumption DEF RecoveryInv, RecoveryShapes, Rationed, Recovery!UpdatesRationed
  <1>3. Recovery!NeverGivesUp
    <2>1. rHistory.attempts \in 0 .. Len(Delays) /\ rPast.down \in Nat
      BY DelayBounds DEF RecoveryInv, RecoveryShapes, RecoveryPasts
    <2> QED BY <2>1, DelayRange DEF RecoveryInv, CutOff, Recovery!NeverGivesUp
  <1> QED BY <1>1, <1>2, <1>3 DEF RecoveryInv, RestartsRationed

\* The fields of a run that boots.
LEMMA BootingFields ==
    ASSUME NEW c \in Recovery!Causes
    PROVE  LET b == Recovery!Booting(c)
           IN  /\ b \in RecoveryRuns
               /\ b.at = "boot" /\ b.cause = c /\ b.offline = -1 /\ b.stable = -1 /\ b.known = FALSE
               /\ b.maintenance = "none" /\ b.age = 0 /\ b.restart = -1 /\ b.flight = FALSE
               /\ b.uncertain = FALSE /\ b.turned = FALSE
  <1>1. -1 \in -1 .. Recovery!Longest /\ -1 \in -1 .. Stable /\ -1 \in -1 .. ServerFresh
        /\ 0 \in 0 .. AbortAfter /\ -1 \in -1 .. AbortAfter
    BY DelayBounds, RecoveryAssumption
  <1> QED BY <1>1 DEF Recovery!Booting, RecoveryRuns, Recovery!Unset

\* It holds when the generator is switched on.
LEMMA RecoveryInit == ASSUME Recovery!Init PROVE RecoveryInv
  <1>1. /\ rRun = Recovery!Booting("power") /\ "power" \in Recovery!Causes
        /\ rPast = [since |-> -1, gap |-> -1, chain |-> 0, tries |-> 0, down |-> 0]
        /\ rHistory = [attempts |-> 0, pending |-> FALSE] /\ rUpdates = 0 /\ rEvents = 0
        /\ rLink \in BOOLEAN /\ rOrder \in Recovery!Orders
    BY DEF Recovery!Init, Recovery!Causes, Recovery!Unset
  <1>2. /\ rRun \in RecoveryRuns /\ rRun.at = "boot" /\ rRun.offline = -1 /\ rRun.stable = -1
        /\ rRun.maintenance = "none" /\ rRun.turned = FALSE
    BY <1>1, BootingFields
  <1>3. rPast \in RecoveryPasts
    BY <1>1, DelayBounds DEF RecoveryPasts, Recovery!Unset
  <1>4. RecoveryShapes
    BY <1>1, <1>2, <1>3, DelayBounds, RecoveryAssumption DEF RecoveryShapes
  <1>5. Rationed /\ Spaced /\ Recovery!NoStorm
    BY <1>1, <1>2 DEF Rationed, Spaced, Recovery!NoStorm, Recovery!Unset
  <1>6. CutOff
    BY <1>1, <1>2, <1>4, DelayRange DEF CutOff, RecoveryShapes
  <1> QED BY <1>4, <1>5, <1>6 DEF RecoveryInv

\* What Sampled makes of a run without link, and with it.
LEMMA SampledOff ==
    ASSUME RecoveryInv
    PROVE  LET r == Recovery!Sampled(FALSE)
           IN  /\ r \in RecoveryRuns
               /\ r.at = rRun.at /\ r.cause = rRun.cause /\ r.maintenance = rRun.maintenance
               /\ r.age = rRun.age /\ r.restart = rRun.restart /\ r.flight = rRun.flight
               /\ r.uncertain = rRun.uncertain /\ r.turned = rRun.turned /\ r.known = rRun.known
               /\ r.offline = (IF rRun.offline = -1 THEN 0 ELSE rRun.offline)
               /\ r.stable = -1
  <1>1. rRun \in RecoveryRuns
    BY DEF RecoveryInv, RecoveryShapes
  <1>2. 0 \in -1 .. Recovery!Longest /\ -1 \in -1 .. Stable
    BY DelayBounds, RecoveryAssumption
  <1> QED BY <1>1, <1>2 DEF Recovery!Sampled, RecoveryRuns, Recovery!Unset

LEMMA SampledOn ==
    ASSUME RecoveryInv
    PROVE  LET r == Recovery!Sampled(TRUE)
           IN  /\ r \in RecoveryRuns
               /\ r.at = rRun.at /\ r.cause = rRun.cause /\ r.maintenance = rRun.maintenance
               /\ r.age = rRun.age /\ r.restart = rRun.restart /\ r.flight = rRun.flight
               /\ r.uncertain = rRun.uncertain /\ r.turned = rRun.turned
               /\ r.offline = -1 /\ r.known = TRUE
               /\ r.stable \in {-1, 0, rRun.stable}
  <1>1. rRun \in RecoveryRuns
    BY DEF RecoveryInv, RecoveryShapes
  <1>2. -1 \in -1 .. Recovery!Longest /\ -1 \in -1 .. Stable /\ 0 \in -1 .. Stable
    BY DelayBounds, RecoveryAssumption
  <1> QED BY <1>1, <1>2 DEF Recovery!Sampled, RecoveryRuns, Recovery!Unset

-----------------------------------------------------------------------------
\* A reset for any reason but the link: the distances are counted anew.
LEMMA RecoveryResets ==
    ASSUME RecoveryInv, NEW c \in Recovery!Causes, rRun' = Recovery!Booting(c),
           rPast' \in RecoveryPasts, rPast'.since = -1, rPast'.gap = -1, rPast'.chain = 0, rPast'.down = 0,
           rPast'.tries = rUpdates', rUpdates' \in 0 .. UpdateAttempts,
           rHistory' \in [attempts : 0 .. Len(Delays), pending : BOOLEAN],
           rLink' \in BOOLEAN, rOrder' \in Recovery!Orders, rEvents' \in 0 .. RecoveryEvents
    PROVE  RecoveryInv'
  <1>1. /\ rRun' \in RecoveryRuns /\ rRun'.at = "boot" /\ rRun'.offline = -1 /\ rRun'.stable = -1
        /\ rRun'.maintenance = "none" /\ rRun'.turned = FALSE
    BY BootingFields
  <1>2. RecoveryShapes'
    BY <1>1 DEF RecoveryShapes
  <1>3. Rationed' /\ Spaced' /\ Recovery!NoStorm'
    BY <1>1 DEF Rationed, Spaced, Recovery!NoStorm, Recovery!Unset
  <1>4. CutOff'
    <2>1. Recovery!Delay(rHistory'.attempts, rRun'.known) \in Nat
      BY DelayRange
    <2> QED BY <1>1, <2>1 DEF CutOff
  <1> QED BY <1>2, <1>3, <1>4 DEF RecoveryInv

\* What is remembered at a restart for the link.
LEMMA RestartPast ==
    ASSUME RecoveryInv, Recovery!Restart
    PROVE  /\ rPast' \in RecoveryPasts /\ rPast'.since = -1 /\ rPast'.gap = -1 /\ rPast'.chain = 0
           /\ rPast'.down = 0 /\ rPast'.tries = rUpdates /\ rRun' = Recovery!Booting("software")
  <1>1. rPast \in RecoveryPasts
    BY DEF RecoveryInv, RecoveryShapes
  <1>2. rPast' = [rPast EXCEPT !.since = -1, !.gap = -1, !.chain = 0, !.down = 0]
    BY DEF Recovery!Restart, Recovery!Unset
  <1>3. -1 \in Recovery!Unset .. Recovery!Longest /\ 0 \in 0 .. Len(Delays) + 1 /\ 0 \in 0 .. Recovery!Longest + 2
    BY DelayBounds DEF Recovery!Unset
  <1> QED BY <1>1, <1>2, <1>3 DEF RecoveryPasts, Recovery!Restart, RecoveryInv, Rationed

\* setup(): what the boot makes of the attempts it finds.
LEMMA RecoveryBegins == ASSUME RecoveryInv, Recovery!Begin PROVE RecoveryInv'
  <1>1. /\ rRun \in RecoveryRuns /\ rPast \in RecoveryPasts
        /\ rHistory \in [attempts : 0 .. Len(Delays), pending : BOOLEAN]
    BY DEF RecoveryInv, RecoveryShapes
  <1>2. /\ rRun.at = "boot" /\ rRun' = [rRun EXCEPT !.at = "loop"]
        /\ rHistory' = [attempts |-> IF rRun.cause = "software" /\ rHistory.pending
                                     THEN rHistory.attempts ELSE 0, pending |-> FALSE]
        /\ \/ rRun.cause = "power" /\ rUpdates' = 0 /\ rPast' = [rPast EXCEPT !.tries = 0]
           \/ UNCHANGED <<rUpdates, rPast>>
        /\ UNCHANGED <<rLink, rOrder, rEvents>>
    BY DEF Recovery!Begin
  <1>3. /\ rRun' \in RecoveryRuns /\ rRun'.at = "loop" /\ rRun'.offline = rRun.offline
        /\ rRun'.stable = rRun.stable /\ rRun'.known = rRun.known /\ rRun'.maintenance = rRun.maintenance
        /\ rRun'.restart = rRun.restart /\ rRun'.turned = rRun.turned
    BY <1>1, <1>2 DEF RecoveryRuns
  <1>4. /\ rHistory' \in [attempts : 0 .. Len(Delays), pending : BOOLEAN]
        /\ rPast.since # -1 => rHistory'.attempts = rHistory.attempts /\ rHistory.attempts >= 1
    BY <1>1, <1>2, DelayBounds DEF RecoveryInv, Spaced
  <1>5. /\ rPast' \in RecoveryPasts /\ rPast'.since = rPast.since /\ rPast'.gap = rPast.gap
        /\ rPast'.chain = rPast.chain /\ rPast'.down = rPast.down /\ rPast'.tries = rUpdates'
        /\ rUpdates' \in 0 .. UpdateAttempts /\ (rUpdates' = rUpdates \/ rUpdates' = 0)
    <2>1. rUpdates \in 0 .. UpdateAttempts /\ 0 \in 0 .. UpdateAttempts /\ rPast.tries = rUpdates
      BY RecoveryAssumption DEF RecoveryInv, RecoveryShapes, Rationed
    <2>2. CASE rUpdates' = 0 /\ rPast' = [rPast EXCEPT !.tries = 0]
      BY <1>1, <2>1, <2>2 DEF RecoveryPasts
    <2>3. CASE UNCHANGED <<rUpdates, rPast>>
      BY <1>1, <2>1, <2>3
    <2> QED BY <1>2, <2>2, <2>3
  <1>6. RecoveryShapes'
    BY <1>2, <1>3, <1>4, <1>5 DEF RecoveryInv, RecoveryShapes
  <1>7. Rationed'
    BY <1>2, <1>3, <1>5, RecoveryAssumption DEF RecoveryInv, RecoveryShapes, Rationed
  <1>8. Spaced'
    BY <1>1, <1>2, <1>3, <1>4, <1>5 DEF RecoveryInv, Spaced
  <1>9. Recovery!NoStorm'
    BY <1>5 DEF RecoveryInv, Recovery!NoStorm
  <1>10. CutOff'
    <2>1. rPast.down = 0
      BY <1>1, <1>2, DelayBounds DEF RecoveryInv, CutOff, RecoveryPasts
    <2>2. Recovery!Delay(rHistory'.attempts, rRun'.known) \in Nat
      BY <1>4, DelayRange
    <2>3. rRun'.offline \in Int /\ rRun'.offline >= -1
      BY <1>3, DelayBounds DEF RecoveryRuns, Recovery!Unset
    <2> QED BY <1>5, <2>1, <2>2, <2>3 DEF CutOff
  <1> QED BY <1>6, <1>7, <1>8, <1>9, <1>10 DEF RecoveryInv

\* Resets for another reason: power, a crash, an order of the server, an update.
LEMMA RecoveryOtherReset ==
    ASSUME RecoveryInv, NEW c \in Recovery!Causes, Recovery!OtherReset(c) PROVE RecoveryInv'
  <1>1. /\ rPast \in RecoveryPasts
        /\ rHistory \in [attempts : 0 .. Len(Delays), pending : BOOLEAN] /\ rUpdates \in 0 .. UpdateAttempts
        /\ rPast.tries = rUpdates /\ rEvents \in 0 .. RecoveryEvents
        /\ rLink \in BOOLEAN /\ rOrder \in Recovery!Orders
    BY DEF RecoveryInv, RecoveryShapes, Rationed
  <1>2. /\ rEvents < RecoveryEvents /\ rEvents' = rEvents + 1 /\ rRun' = Recovery!Booting(c)
        /\ UNCHANGED <<rLink, rOrder>>
        /\ \/ /\ UNCHANGED <<rHistory, rUpdates>>
              /\ rPast' = [rPast EXCEPT !.since = -1, !.gap = -1, !.chain = 0, !.down = 0]
           \/ /\ rUpdates' = 0 /\ rHistory' = [attempts |-> 0, pending |-> FALSE]
              /\ rPast' = [rPast EXCEPT !.since = -1, !.gap = -1, !.chain = 0, !.down = 0, !.tries = 0]
    BY DEF Recovery!OtherReset, Recovery!Unset
  <1>3. -1 \in Recovery!Unset .. Recovery!Longest /\ 0 \in 0 .. Len(Delays) + 1 /\ 0 \in 0 .. Recovery!Longest + 2
        /\ 0 \in 0 .. Len(Delays) /\ 0 \in 0 .. UpdateAttempts /\ rEvents' \in 0 .. RecoveryEvents
    <2>1. rEvents' \in 0 .. RecoveryEvents /\ 0 \in 0 .. UpdateAttempts
      BY <1>1, <1>2, RecoveryAssumption
    <2> QED BY <2>1, DelayBounds DEF Recovery!Unset
  <1>4. CASE /\ UNCHANGED <<rHistory, rUpdates>>
             /\ rPast' = [rPast EXCEPT !.since = -1, !.gap = -1, !.chain = 0, !.down = 0]
    <2>1. /\ rPast' \in RecoveryPasts /\ rPast'.since = -1 /\ rPast'.gap = -1 /\ rPast'.chain = 0
          /\ rPast'.down = 0 /\ rPast'.tries = rPast.tries
      BY <1>1, <1>3, <1>4 DEF RecoveryPasts
    <2>2. /\ rHistory' = rHistory /\ rUpdates' = rUpdates
      BY <1>4
    <2> QED BY <1>1, <1>2, <1>3, <2>1, <2>2, RecoveryResets
  <1>5. CASE /\ rUpdates' = 0 /\ rHistory' = [attempts |-> 0, pending |-> FALSE]
             /\ rPast' = [rPast EXCEPT !.since = -1, !.gap = -1, !.chain = 0, !.down = 0, !.tries = 0]
    <2>1. /\ rPast' \in RecoveryPasts /\ rPast'.since = -1 /\ rPast'.gap = -1 /\ rPast'.chain = 0
          /\ rPast'.down = 0 /\ rPast'.tries = 0
      BY <1>1, <1>3, <1>5 DEF RecoveryPasts
    <2>2. rHistory' \in [attempts : 0 .. Len(Delays), pending : BOOLEAN]
      BY <1>3, <1>5
    <2> QED BY <1>1, <1>2, <1>3, <1>5, <2>1, <2>2, RecoveryResets
  <1> QED BY <1>2, <1>4, <1>5

\* The restart for the link: its delay has passed, and the next one is no shorter.
LEMMA RecoveryOwnRestart == ASSUME RecoveryInv, Recovery!OwnRestart PROVE RecoveryInv'
  <1> DEFINE r == Recovery!Sampled(FALSE)
  <1>1. /\ rRun \in RecoveryRuns /\ rPast \in RecoveryPasts
        /\ rHistory \in [attempts : 0 .. Len(Delays), pending : BOOLEAN]
    BY DEF RecoveryInv, RecoveryShapes
  <1>2. /\ rRun.at = "loop" /\ ~rLink
        /\ r.offline # -1 /\ r.offline >= Recovery!Delay(rHistory.attempts, r.known)
        /\ rHistory' = Recovery!Requested /\ rRun' = Recovery!Booting("software")
        /\ rPast' = [rPast EXCEPT !.gap = rPast.since, !.since = 0, !.down = 0,
                                  !.chain = IF @ > Len(Delays) THEN @ ELSE @ + 1]
        /\ UNCHANGED <<rLink, rOrder, rUpdates, rEvents>>
    BY DEF Recovery!OwnRestart, Recovery!Due, Recovery!Unset
  <1>3. /\ r.offline = (IF rRun.offline = -1 THEN 0 ELSE rRun.offline)
        /\ r.known = rRun.known
    BY SampledOff
  <1> HIDE DEF r
  <1>4. rRun.offline # -1 /\ rRun.offline >= Recovery!Delay(rHistory.attempts, rRun.known)
        /\ rRun.offline \in Nat
    <2>1. /\ Recovery!Delay(rHistory.attempts, rRun.known) \in Nat
          /\ AbortAfter <= Recovery!Delay(rHistory.attempts, rRun.known)
      BY <1>1, DelayRange
    <2>2. rRun.offline \in -1 .. Recovery!Longest
      BY <1>1 DEF RecoveryRuns, Recovery!Unset
    <2> QED BY <1>2, <1>3, <2>1, <2>2, DelayBounds, RecoveryAssumption
  <1>5. /\ rRun' \in RecoveryRuns /\ rRun'.at = "boot" /\ rRun'.cause = "software" /\ rRun'.offline = -1
        /\ rRun'.stable = -1 /\ rRun'.maintenance = "none" /\ rRun'.turned = FALSE
    BY <1>2, BootingFields DEF Recovery!Causes
  <1>6. /\ rHistory' \in [attempts : 0 .. Len(Delays), pending : BOOLEAN] /\ rHistory'.pending
        /\ rHistory'.attempts >= 1
        /\ rHistory'.attempts = rHistory.attempts + 1 \/ rHistory'.attempts = Len(Delays)
    BY <1>1, <1>2, DelayBounds, RecoveryAssumption DEF Recovery!Requested
  <1>7. /\ rPast' \in RecoveryPasts /\ rPast'.since = 0 /\ rPast'.gap = rPast.since /\ rPast'.down = 0
        /\ rPast'.tries = rPast.tries
        /\ rPast'.chain = (IF rPast.chain > Len(Delays) THEN rPast.chain ELSE rPast.chain + 1)
    <2>1. /\ 0 \in Recovery!Unset .. Recovery!Longest /\ 0 \in 0 .. Recovery!Longest + 2
          /\ (IF rPast.chain > Len(Delays) THEN rPast.chain ELSE rPast.chain + 1) \in 0 .. Len(Delays) + 1
      BY <1>1, DelayBounds DEF Recovery!Unset, RecoveryPasts
    <2> QED BY <1>1, <1>2, <2>1 DEF RecoveryPasts
  <1>8. RecoveryShapes'
    BY <1>2, <1>5, <1>6, <1>7 DEF RecoveryInv, RecoveryShapes
  <1>9. Rationed'
    BY <1>2, <1>5, <1>7 DEF RecoveryInv, Rationed
  <1>10. rPast.chain \in 0 .. Len(Delays) + 1 /\ rPast.since \in -1 .. Recovery!Longest
         /\ rHistory.attempts \in 0 .. Len(Delays) /\ Len(Delays) \in Nat /\ Len(Delays) >= 1
    BY <1>1, RecoveryAssumption DEF RecoveryPasts, Recovery!Unset
  <1>11. rPast.chain > 0 => rHistory.attempts >= rPast.chain \/ rHistory.attempts = Len(Delays)
    BY DEF RecoveryInv, Spaced
  <1>12. Spaced'
    BY <1>2, <1>5, <1>6, <1>7, <1>10, <1>11 DEF Spaced
  <1>13. Recovery!NoStorm'
    <2>1. SUFFICES ASSUME rPast.since # -1
                   PROVE  /\ rPast.since >= Recovery!SoonestAgain
                          /\ rPast'.chain >= 2 => rPast.since >= Delays[rPast'.chain - 1]
      BY <1>7 DEF Recovery!NoStorm, Recovery!Unset
    <2>2. rRun.offline <= rPast.since
      BY <1>4, <2>1 DEF RecoveryInv, Spaced
    <2>3. CASE rHistory.attempts = 0
      <3>1. rRun.known /\ (rPast.since = Recovery!Longest \/ rPast.since >= Stable + rRun.offline)
            /\ ~(rPast.chain > 0)
        BY <1>2, <1>4, <2>1, <2>3 DEF RecoveryInv, Spaced
      <3>2. rRun.offline >= KnownDelay
        BY <1>4, <2>3, <3>1 DEF Recovery!Delay
      <3> QED BY <1>4, <1>7, <1>10, <3>1, <3>2, DelayBounds, RecoveryAssumption DEF Recovery!SoonestAgain
    <2>4. CASE rHistory.attempts # 0
      <3>1. rRun.offline >= Delays[rHistory.attempts] /\ rHistory.attempts \in 1 .. Len(Delays)
        BY <1>4, <1>10, <2>4 DEF Recovery!Delay
      <3>2. rPast.since >= Delays[rHistory.attempts] /\ rPast.since >= Delays[1]
        BY <1>4, <1>10, <2>2, <3>1, DelayBounds
      <3>3. rPast.since >= Recovery!SoonestAgain
        BY <1>10, <3>2, DelayBounds, RecoveryAssumption DEF Recovery!SoonestAgain
      <3>4. ASSUME rPast'.chain >= 2 PROVE rPast.since >= Delays[rPast'.chain - 1]
        <4>1. rPast'.chain - 1 \in 1 .. Len(Delays) /\ rPast'.chain - 1 <= rHistory.attempts
          BY <1>7, <1>10, <1>11, <3>4
        <4>2. Delays[rPast'.chain - 1] <= Delays[rHistory.attempts]
          BY <3>1, <4>1, RecoveryAssumption
        <4> QED BY <1>10, <3>1, <3>2, <4>1, <4>2, DelayBounds
      <3> QED BY <3>3, <3>4
    <2> QED BY <2>3, <2>4
  <1>14. CutOff'
    <2>1. Recovery!Delay(rHistory'.attempts, rRun'.known) \in Nat
      BY <1>6, DelayRange
    <2> QED BY <1>5, <1>7, <2>1 DEF CutOff
  <1> QED BY <1>8, <1>9, <1>12, <1>13, <1>14 DEF RecoveryInv
\* With nothing down, CutOff says nothing.
LEMMA NotDown == ASSUME RecoveryShapes', rPast'.down = 0 PROVE CutOff'
  <1>1. rHistory'.attempts \in 0 .. Len(Delays) /\ rRun'.offline \in -1 .. Recovery!Longest
    BY DEF RecoveryShapes, RecoveryRuns, Recovery!Unset
  <1>2. Recovery!Delay(rHistory'.attempts, rRun'.known) \in Nat
    BY <1>1, DelayRange
  <1> QED BY <1>1, <1>2, DelayBounds DEF CutOff

\* While the link is there no outage is measured, and a count of attempts ends
\* only with a time of health.
LEMMA SpacedOn ==
    ASSUME RecoveryInv, rRun.at # "boot", rRun'.at # "boot", rRun'.offline = -1, rRun'.known,
           rRun'.stable \in {-1, 0, rRun.stable},
           \/ rHistory' = rHistory
           \/ rHistory' = [attempts |-> 0, pending |-> FALSE] /\ rRun'.stable # -1 /\ rRun'.stable >= Stable,
           rPast'.since = rPast.since, rPast'.gap = rPast.gap, rPast'.chain = 0
    PROVE  Spaced' /\ Recovery!NoStorm'
  <1>1. /\ rPast.since \in -1 .. Recovery!Longest /\ rRun.stable \in -1 .. Stable
        /\ rHistory.attempts \in 0 .. Len(Delays) /\ rRun.offline \in -1 .. Recovery!Longest
    BY DEF RecoveryInv, RecoveryShapes, RecoveryPasts, RecoveryRuns, Recovery!Unset
  <1>2. rPast.since # -1 /\ rRun'.stable # -1 => rRun'.stable <= rPast.since \/ rPast.since = Recovery!Longest
    BY <1>1, DelayBounds, RecoveryAssumption DEF RecoveryInv, Spaced
  <1>3. rPast.since # -1 /\ rHistory'.attempts = 0 => rPast.since = Recovery!Longest \/ rPast.since >= Stable
    <2>1. CASE rHistory' = rHistory
      BY <1>1, <2>1, DelayBounds, RecoveryAssumption DEF RecoveryInv, Spaced
    <2>2. CASE rRun'.stable # -1 /\ rRun'.stable >= Stable
      BY <1>1, <1>2, <2>2, DelayBounds, RecoveryAssumption
    <2> QED BY <2>1, <2>2
  <1>4. Spaced'
    BY <1>1, <1>2, <1>3, DelayBounds, RecoveryAssumption DEF Spaced
  <1> QED BY <1>4 DEF RecoveryInv, Recovery!NoStorm

\* Without it the outage goes on, and the attempts stay.
LEMMA SpacedOff ==
    ASSUME RecoveryInv, rRun.at # "boot", rRun'.at # "boot",
           rRun'.offline = (IF rRun.offline = -1 THEN 0 ELSE rRun.offline), rRun'.known = rRun.known,
           rRun'.stable = -1, rHistory' = rHistory, rPast' = rPast, rLink' = rLink
    PROVE  Spaced' /\ Recovery!NoStorm'
  <1>1. /\ rPast.since \in -1 .. Recovery!Longest
        /\ rHistory.attempts \in 0 .. Len(Delays) /\ rRun.offline \in -1 .. Recovery!Longest
    BY DEF RecoveryInv, RecoveryShapes, RecoveryPasts, RecoveryRuns, Recovery!Unset
  <1>2. Spaced'
    BY <1>1, DelayBounds, RecoveryAssumption DEF RecoveryInv, Spaced
  <1> QED BY <1>2 DEF RecoveryInv, Recovery!NoStorm

\* A turn with the link clears the attempts only when the link was stable.
LEMMA RememberedOn ==
    ASSUME RecoveryInv, rHistory' = Recovery!Remembered(Recovery!Sampled(TRUE))
    PROVE  /\ rHistory' \in [attempts : 0 .. Len(Delays), pending : BOOLEAN]
           /\ \/ rHistory' = rHistory
              \/ /\ rHistory' = [attempts |-> 0, pending |-> FALSE]
                 /\ Recovery!Sampled(TRUE).stable # -1 /\ Recovery!Sampled(TRUE).stable >= Stable
  <1> DEFINE r == Recovery!Sampled(TRUE)
  <1>1. \/ rHistory' = rHistory
        \/ rHistory' = [attempts |-> 0, pending |-> FALSE] /\ r.stable # -1 /\ r.stable >= Stable
    BY DEF Recovery!Remembered, Recovery!Recovered, Recovery!Unset
  <1> HIDE DEF r
  <1>2. rHistory \in [attempts : 0 .. Len(Delays), pending : BOOLEAN] /\ 0 \in 0 .. Len(Delays)
    BY DelayBounds DEF RecoveryInv, RecoveryShapes
  <1>3. CASE rHistory' = rHistory
    BY <1>1, <1>2, <1>3
  <1>4. CASE rHistory' = [attempts |-> 0, pending |-> FALSE] /\ r.stable # -1 /\ r.stable >= Stable
    <2>1. rHistory' = [attempts |-> 0, pending |-> FALSE]
      BY <1>4
    <2>2. [attempts |-> 0, pending |-> FALSE] \in [attempts : 0 .. Len(Delays), pending : BOOLEAN]
      BY <1>2
    <2>3. rHistory' \in [attempts : 0 .. Len(Delays), pending : BOOLEAN]
      BY <2>1, <2>2, Zenon
    <2> QED BY <1>4, <2>3 DEF r
  <1> QED BY <1>1, <1>3, <1>4

\* The link comes back while a restart is due.
LEMMA RecoveryBackInTime == ASSUME RecoveryInv, Recovery!BackInTime PROVE RecoveryInv'
  <1> DEFINE r == Recovery!Sampled(TRUE)
  <1>1. /\ rRun \in RecoveryRuns /\ rPast \in RecoveryPasts
    BY DEF RecoveryInv, RecoveryShapes
  <1>2. /\ rRun.at = "loop" /\ rLink' = TRUE /\ rPast' = [rPast EXCEPT !.chain = 0, !.down = 0]
        /\ rRun' = [r EXCEPT !.turned = TRUE]
        /\ UNCHANGED <<rOrder, rUpdates, rEvents>>
    BY DEF Recovery!BackInTime
  <1>3. /\ rHistory' \in [attempts : 0 .. Len(Delays), pending : BOOLEAN]
        /\ \/ rHistory' = rHistory
           \/ rHistory' = [attempts |-> 0, pending |-> FALSE] /\ r.stable # -1 /\ r.stable >= Stable
    BY RememberedOn DEF Recovery!BackInTime
  <1>4. /\ r \in RecoveryRuns /\ r.at = rRun.at /\ r.maintenance = rRun.maintenance
        /\ r.restart = rRun.restart /\ r.offline = -1 /\ r.known = TRUE /\ r.stable \in {-1, 0, rRun.stable}
    BY SampledOn
  <1> HIDE DEF r
  <1>5. /\ rRun' \in RecoveryRuns /\ rRun'.at = "loop" /\ rRun'.maintenance = rRun.maintenance
        /\ rRun'.restart = rRun.restart /\ rRun'.offline = -1 /\ rRun'.known = TRUE /\ rRun'.stable = r.stable
    BY <1>2, <1>4 DEF RecoveryRuns
  <1>6. /\ rPast' \in RecoveryPasts /\ rPast'.since = rPast.since /\ rPast'.gap = rPast.gap
        /\ rPast'.chain = 0 /\ rPast'.down = 0 /\ rPast'.tries = rPast.tries
    <2>1. 0 \in 0 .. Len(Delays) + 1 /\ 0 \in 0 .. Recovery!Longest + 2
      BY DelayBounds
    <2> QED BY <1>1, <1>2, <2>1 DEF RecoveryPasts
  <1>7. RecoveryShapes'
    BY <1>2, <1>3, <1>5, <1>6 DEF RecoveryInv, RecoveryShapes
  <1>8. Rationed'
    BY <1>2, <1>5, <1>6 DEF RecoveryInv, Rationed
  <1>9. Spaced' /\ Recovery!NoStorm'
    BY <1>2, <1>3, <1>4, <1>5, <1>6, SpacedOn
  <1> QED BY <1>6, <1>7, <1>8, <1>9, NotDown DEF RecoveryInv

\* A turn with the link: nothing is down.
LEMMA RecoveryTurnsOn == ASSUME RecoveryInv, Recovery!Turn, rLink PROVE RecoveryInv'
  <1> DEFINE r == Recovery!Sampled(TRUE)
  <1>1. /\ rRun \in RecoveryRuns /\ rPast \in RecoveryPasts /\ rLink = TRUE
        /\ rPast.tries = rUpdates /\ rUpdates \in 0 .. UpdateAttempts
    BY DEF RecoveryInv, RecoveryShapes, Rationed
  <1>2. /\ rRun.at = "loop" /\ UNCHANGED <<rLink, rOrder, rEvents>>
        /\ rHistory' = Recovery!Remembered(r)
    BY <1>1 DEF Recovery!Turn
  <1>3. PICK busy \in BOOLEAN :
          IF r.maintenance = "none" THEN rRun' = [r EXCEPT !.turned = TRUE] /\ UNCHANGED <<rUpdates, rPast>>
          ELSE IF Recovery!StartsCheck(r, busy)
          THEN /\ rRun' = [r EXCEPT !.at = "check"] /\ rUpdates' = Recovery!Counted(r)
               /\ rPast' = [rPast EXCEPT !.tries = IF r.maintenance = "github" THEN @ + 1 ELSE @]
          ELSE IF Recovery!Leaves(r, busy) THEN Recovery!Restart /\ UNCHANGED rUpdates
          ELSE /\ rRun' = [r EXCEPT !.turned = TRUE, !.maintenance = IF Recovery!Aborts(r) THEN "none" ELSE @]
               /\ UNCHANGED <<rUpdates, rPast>>
    BY <1>1 DEF Recovery!Turn
  <1>4. /\ rHistory' \in [attempts : 0 .. Len(Delays), pending : BOOLEAN]
        /\ \/ rHistory' = rHistory
           \/ rHistory' = [attempts |-> 0, pending |-> FALSE] /\ r.stable # -1 /\ r.stable >= Stable
    BY <1>2, RememberedOn
  <1>5. /\ r \in RecoveryRuns /\ r.at = "loop" /\ r.maintenance = rRun.maintenance
        /\ r.restart = rRun.restart /\ r.offline = -1 /\ r.known = TRUE /\ r.stable \in {-1, 0, rRun.stable}
    BY <1>2, SampledOn
  <1> HIDE DEF r
  <1>6. rPast.chain = 0 /\ rPast.down = 0
    BY <1>1, DelayBounds DEF RecoveryInv, Spaced, CutOff, RecoveryPasts
  <1>7. ASSUME rRun' \in RecoveryRuns, rRun'.at # "boot", rRun'.offline = -1, rRun'.known, rRun'.stable = r.stable,
               rPast' \in RecoveryPasts, rPast'.since = rPast.since, rPast'.gap = rPast.gap,
               rPast'.chain = 0, rPast'.down = 0, rUpdates' \in 0 .. UpdateAttempts, Rationed'
        PROVE  RecoveryInv'
    <2>1. RecoveryShapes'
      BY <1>2, <1>4, <1>7 DEF RecoveryInv, RecoveryShapes
    <2>2. Spaced' /\ Recovery!NoStorm'
      BY <1>2, <1>4, <1>5, <1>7, SpacedOn
    <2> QED BY <1>7, <2>1, <2>2, NotDown DEF RecoveryInv
  <1>8. ASSUME UNCHANGED <<rUpdates, rPast>>, NEW m \in {"none", rRun.maintenance},
               rRun' = [r EXCEPT !.turned = TRUE, !.maintenance = m]
        PROVE  RecoveryInv'
    <2>1. /\ rRun' \in RecoveryRuns /\ rRun'.at = "loop" /\ rRun'.offline = -1 /\ rRun'.known = TRUE
          /\ rRun'.stable = r.stable /\ rRun'.maintenance \in {"none", rRun.maintenance}
          /\ rRun'.restart = rRun.restart
      BY <1>1, <1>5, <1>8 DEF RecoveryRuns
    <2>2. Rationed'
      BY <1>2, <1>8, <2>1 DEF RecoveryInv, Rationed
    <2> QED BY <1>1, <1>6, <1>7, <1>8, <2>1, <2>2
  <1>9. CASE r.maintenance = "none" /\ rRun' = [r EXCEPT !.turned = TRUE] /\ UNCHANGED <<rUpdates, rPast>>
    <2>1. rRun' = [r EXCEPT !.turned = TRUE, !.maintenance = "none"]
      BY <1>5, <1>9 DEF RecoveryRuns
    <2> QED BY <1>8, <1>9, <2>1
  <1>10. CASE /\ r.maintenance # "none" /\ Recovery!StartsCheck(r, busy)
              /\ rRun' = [r EXCEPT !.at = "check"] /\ rUpdates' = Recovery!Counted(r)
              /\ rPast' = [rPast EXCEPT !.tries = IF r.maintenance = "github" THEN @ + 1 ELSE @]
    <2>1. /\ rRun' \in RecoveryRuns /\ rRun'.at = "check" /\ rRun'.offline = -1 /\ rRun'.known = TRUE
          /\ rRun'.stable = r.stable
      BY <1>5, <1>10 DEF RecoveryRuns
    <2>2. r.maintenance = "github" => rUpdates < UpdateAttempts
      BY <1>2, <1>5, <1>10 DEF RecoveryInv, Rationed, Recovery!StartsCheck, Recovery!Unset
    <2>3. rUpdates' = (IF r.maintenance = "github" THEN rUpdates + 1 ELSE rUpdates)
      BY <1>10 DEF Recovery!Counted
    <2>4. rUpdates' \in 0 .. UpdateAttempts /\ rUpdates' \in Nat
      BY <1>1, <2>2, <2>3, RecoveryAssumption
    <2>5. /\ rPast' \in RecoveryPasts /\ rPast'.since = rPast.since /\ rPast'.gap = rPast.gap
          /\ rPast'.chain = 0 /\ rPast'.down = 0 /\ rPast'.tries = rUpdates'
      <3>1. (IF r.maintenance = "github" THEN rPast.tries + 1 ELSE rPast.tries) = rUpdates'
        BY <1>1, <2>3
      <3>2. rPast' = [rPast EXCEPT !.tries = rUpdates']
        BY <1>10, <3>1
      <3> QED BY <1>1, <1>6, <2>4, <3>2 DEF RecoveryPasts
    <2>6. Rationed'
      BY <2>1, <2>5 DEF Rationed
    <2> QED BY <1>7, <2>1, <2>4, <2>5, <2>6
  <1>11. CASE Recovery!Restart /\ UNCHANGED rUpdates
    <2>1. /\ rPast' \in RecoveryPasts /\ rPast'.since = -1 /\ rPast'.gap = -1 /\ rPast'.chain = 0
          /\ rPast'.down = 0 /\ rPast'.tries = rUpdates /\ rRun' = Recovery!Booting("software")
      BY <1>11, RestartPast
    <2>2. "software" \in Recovery!Causes /\ rLink' \in BOOLEAN /\ rOrder' \in Recovery!Orders
          /\ rEvents' \in 0 .. RecoveryEvents
      BY <1>2 DEF Recovery!Causes, RecoveryInv, RecoveryShapes
    <2> QED BY <1>1, <1>4, <1>11, <2>1, <2>2, RecoveryResets
  <1>12. CASE /\ rRun' = [r EXCEPT !.turned = TRUE, !.maintenance = IF Recovery!Aborts(r) THEN "none" ELSE @]
              /\ UNCHANGED <<rUpdates, rPast>>
    <2>1. PICK m \in {"none", rRun.maintenance} : rRun' = [r EXCEPT !.turned = TRUE, !.maintenance = m]
      BY <1>5, <1>12
    <2> QED BY <1>8, <1>12, <2>1
  <1> QED BY <1>3, <1>9, <1>10, <1>11, <1>12
\* A turn without it: an outage that is due is left only to what blocks it.
LEMMA RecoveryTurnsOff == ASSUME RecoveryInv, Recovery!Turn, ~rLink PROVE RecoveryInv'
  <1> DEFINE r == Recovery!Sampled(FALSE)
  <1>1. /\ rRun \in RecoveryRuns /\ rPast \in RecoveryPasts /\ rLink = FALSE
        /\ rHistory \in [attempts : 0 .. Len(Delays), pending : BOOLEAN]
        /\ rPast.tries = rUpdates /\ rUpdates \in 0 .. UpdateAttempts
    BY DEF RecoveryInv, RecoveryShapes, Rationed
  <1>2. /\ rRun.at = "loop" /\ UNCHANGED <<rLink, rOrder, rEvents>>
        /\ rHistory' = Recovery!Remembered(r) /\ ~(Recovery!Due(r) /\ ~Recovery!Blocked(r))
    BY <1>1 DEF Recovery!Turn
  <1>3. PICK busy \in BOOLEAN :
          IF r.maintenance = "none" THEN rRun' = [r EXCEPT !.turned = TRUE] /\ UNCHANGED <<rUpdates, rPast>>
          ELSE IF Recovery!StartsCheck(r, busy)
          THEN /\ rRun' = [r EXCEPT !.at = "check"] /\ rUpdates' = Recovery!Counted(r)
               /\ rPast' = [rPast EXCEPT !.tries = IF r.maintenance = "github" THEN @ + 1 ELSE @]
          ELSE IF Recovery!Leaves(r, busy) THEN Recovery!Restart /\ UNCHANGED rUpdates
          ELSE /\ rRun' = [r EXCEPT !.turned = TRUE, !.maintenance = IF Recovery!Aborts(r) THEN "none" ELSE @]
               /\ UNCHANGED <<rUpdates, rPast>>
    BY <1>1 DEF Recovery!Turn
  <1>4. /\ r \in RecoveryRuns /\ r.at = "loop" /\ r.maintenance = rRun.maintenance /\ r.age = rRun.age
        /\ r.restart = rRun.restart /\ r.flight = rRun.flight /\ r.uncertain = rRun.uncertain
        /\ r.known = rRun.known /\ r.stable = -1
        /\ r.offline = (IF rRun.offline = -1 THEN 0 ELSE rRun.offline)
    BY <1>2, SampledOff
  <1>5. rHistory' = rHistory
    BY <1>2, <1>4 DEF Recovery!Remembered, Recovery!Recovered, Recovery!Unset
  <1>6. r.offline \in Nat /\ (rPast.down > 0 => rPast.down <= r.offline + 1)
    <2>1. rRun.offline \in Int /\ rRun.offline >= -1 /\ rPast.down \in Int
      BY <1>1, DelayBounds DEF RecoveryRuns, RecoveryPasts, Recovery!Unset
    <2>2. rPast.down <= rRun.offline + (IF rRun.offline = -1 THEN 2 ELSE 1)
      BY DEF RecoveryInv, CutOff
    <2> HIDE DEF r
    <2> QED BY <1>4, <2>1, <2>2
  <1> HIDE DEF r
  <1>7. ASSUME UNCHANGED <<rUpdates, rPast>>, NEW m \in {"none", rRun.maintenance},
               rRun' = [r EXCEPT !.turned = TRUE, !.maintenance = m],
               m # "none" => ~Recovery!Aborts(r) /\ ~Recovery!Leaves(r, busy),
               m = "none" => rRun.maintenance = "none" \/ Recovery!Aborts(r)
        PROVE  RecoveryInv'
    <2>1. /\ rRun' \in RecoveryRuns /\ rRun'.at = "loop" /\ rRun'.offline = r.offline /\ rRun'.known = rRun.known
          /\ rRun'.stable = -1 /\ rRun'.maintenance = m /\ rRun'.age = rRun.age
          /\ rRun'.restart = rRun.restart /\ rRun'.flight = rRun.flight /\ rRun'.uncertain = rRun.uncertain
          /\ rRun'.turned = TRUE
      BY <1>1, <1>4, <1>7 DEF RecoveryRuns
    <2>2. RecoveryShapes'
      BY <1>2, <1>5, <1>7, <2>1 DEF RecoveryInv, RecoveryShapes
    <2>3. Rationed'
      BY <1>2, <1>7, <2>1 DEF RecoveryInv, Rationed
    <2>4. Spaced' /\ Recovery!NoStorm'
      BY <1>2, <1>4, <1>5, <1>7, <2>1, SpacedOff
    <2>5. CASE rPast.down = 0
      BY <1>7, <2>2, <2>3, <2>4, <2>5, NotDown DEF RecoveryInv
    <2>6. CASE rPast.down # 0
      <3> DEFINE delay == Recovery!Delay(rHistory.attempts, rRun.known)
      <3>1. delay \in Nat /\ AbortAfter <= delay
        BY <1>1, DelayRange
      <3>2. /\ rPast.down \in Nat /\ rPast.down > 0 /\ ~rRun.flight /\ ~rRun.uncertain
            /\ rRun.age \in Nat /\ rRun.age <= AbortAfter /\ rRun.restart \in Int
            /\ rRun.maintenance # "none" =>
                   IF rRun.restart = -1 THEN rPast.down <= rRun.age ELSE rPast.down <= rRun.restart
        <4>1. /\ rPast.down \in Nat /\ rRun.age \in Nat /\ rRun.age <= AbortAfter /\ rRun.restart \in Int
          BY <1>1, DelayBounds, RecoveryAssumption DEF RecoveryPasts, RecoveryRuns, Recovery!Unset
        <4>2. rPast.down > 0
          BY <2>6, <4>1
        <4>3. /\ ~rRun.flight /\ ~rRun.uncertain
              /\ rRun.maintenance # "none" =>
                     IF rRun.restart = -1 THEN rPast.down <= rRun.age ELSE rPast.down <= rRun.restart
          BY <4>2 DEF RecoveryInv, CutOff
        <4> QED BY <4>1, <4>2, <4>3
      <3>3. m # "none" => IF rRun.restart = -1 THEN rRun.age < AbortAfter ELSE rRun.restart < AbortAfter
        BY <1>1, <1>4, <1>7, <3>2, RecoveryAssumption DEF Recovery!Aborts, Recovery!Leaves, Recovery!Unset
      <3>4. rPast.down <= delay
        <4>1. CASE m # "none"
          BY <1>7, <3>1, <3>2, <3>3, <4>1, RecoveryAssumption
        <4>2. CASE rRun.maintenance # "none" /\ Recovery!Aborts(r)
          BY <1>4, <3>1, <3>2, <4>2, RecoveryAssumption DEF Recovery!Aborts, Recovery!Unset
        <4>3. CASE rRun.maintenance = "none"
          <5>1. ~Recovery!Blocked(r)
            BY <1>4, <3>2, <4>3 DEF Recovery!Blocked
          <5>2. ~(r.offline >= delay)
            BY <1>2, <1>4, <1>6, <5>1 DEF Recovery!Due, Recovery!Unset
          <5> QED BY <1>6, <3>1, <3>2, <5>2
        <4> QED BY <1>7, <4>1, <4>2, <4>3
      <3> HIDE DEF delay
      <3>5. /\ rPast' = rPast /\ ~rLink' /\ rHistory' = rHistory /\ delay = Recovery!Delay(rHistory'.attempts, rRun'.known)
        BY <1>1, <1>2, <1>5, <1>7, <2>1 DEF delay
      <3>6. rPast.down <= r.offline + 1 /\ r.offline # -1
        BY <1>6, <3>2
      <3>7. CutOff'
        BY <1>6, <1>7, <2>1, <3>1, <3>2, <3>3, <3>4, <3>5, <3>6 DEF CutOff
      <3> QED BY <2>2, <2>3, <2>4, <3>7 DEF RecoveryInv
    <2> QED BY <2>5, <2>6
  <1>8. CASE r.maintenance = "none" /\ rRun' = [r EXCEPT !.turned = TRUE] /\ UNCHANGED <<rUpdates, rPast>>
    <2>1. rRun' = [r EXCEPT !.turned = TRUE, !.maintenance = "none"]
      BY <1>4, <1>8 DEF RecoveryRuns
    <2> QED BY <1>4, <1>7, <1>8, <2>1
  <1>9. ~Recovery!StartsCheck(r, busy)
    BY <1>1 DEF Recovery!StartsCheck
  <1>10. CASE Recovery!Restart /\ UNCHANGED rUpdates
    <2>1. /\ rPast' \in RecoveryPasts /\ rPast'.since = -1 /\ rPast'.gap = -1 /\ rPast'.chain = 0
          /\ rPast'.down = 0 /\ rPast'.tries = rUpdates /\ rRun' = Recovery!Booting("software")
      BY <1>10, RestartPast
    <2>2. "software" \in Recovery!Causes /\ rLink' \in BOOLEAN /\ rOrder' \in Recovery!Orders
          /\ rEvents' \in 0 .. RecoveryEvents
      BY <1>2 DEF Recovery!Causes, RecoveryInv, RecoveryShapes
    <2> QED BY <1>1, <1>5, <1>10, <2>1, <2>2, RecoveryResets
  <1>11. CASE /\ r.maintenance # "none" /\ ~Recovery!Leaves(r, busy)
              /\ rRun' = [r EXCEPT !.turned = TRUE, !.maintenance = IF Recovery!Aborts(r) THEN "none" ELSE @]
              /\ UNCHANGED <<rUpdates, rPast>>
    <2>1. CASE Recovery!Aborts(r)
      BY <1>7, <1>11, <2>1
    <2>2. CASE ~Recovery!Aborts(r)
      <3>1. rRun' = [r EXCEPT !.turned = TRUE, !.maintenance = rRun.maintenance]
        BY <1>4, <1>11, <2>2
      <3> QED BY <1>4, <1>7, <1>11, <2>2, <3>1
    <2> QED BY <2>1, <2>2
  <1> QED BY <1>3, <1>8, <1>9, <1>10, <1>11
-----------------------------------------------------------------------------
\* The steps that leave the ages and the counts alone.
LEMMA RecoveryFrame ==
    ASSUME RecoveryInv, RecoveryShapes', rHistory' = rHistory, rUpdates' = rUpdates,
           rRun'.at = rRun.at, rRun'.cause = rRun.cause, rRun'.offline = rRun.offline,
           rRun'.stable = rRun.stable, rRun'.known = rRun.known, rRun'.maintenance = rRun.maintenance,
           rRun'.age = rRun.age, rRun'.restart = rRun.restart, rRun'.turned = rRun.turned,
           rPast'.since = rPast.since, rPast'.gap = rPast.gap, rPast'.tries = rPast.tries,
           rPast'.chain = 0 \/ (rPast'.chain = rPast.chain /\ ~rLink'),
           rPast'.down = 0 \/ (rPast'.down = rPast.down /\ ~rLink' /\ ~rRun'.flight /\ ~rRun'.uncertain)
    PROVE  RecoveryInv'
  <1>1. Rationed'
    BY DEF RecoveryInv, Rationed
  <1>2. Spaced'
    BY DEF RecoveryInv, Spaced
  <1>3. Recovery!NoStorm'
    BY DEF RecoveryInv, Recovery!NoStorm
  <1>4. CASE rPast'.down = 0
    BY <1>1, <1>2, <1>3, <1>4, NotDown DEF RecoveryInv
  <1>5. CASE rPast'.down = rPast.down /\ ~rLink' /\ ~rRun'.flight /\ ~rRun'.uncertain
    <2>1. Recovery!Delay(rHistory'.attempts, rRun'.known) = Recovery!Delay(rHistory.attempts, rRun.known)
      OBVIOUS
    <2>2. CutOff'
      BY <1>5, <2>1 DEF RecoveryInv, CutOff
    <2> QED BY <1>1, <1>2, <1>3, <2>2 DEF RecoveryInv
  <1> QED BY <1>4, <1>5

\* With the link, or during a boot or a check, no time without link is counted.
LEMMA UpOnLink == ASSUME RecoveryInv, rLink \/ rRun.at # "loop" PROVE rPast.down = 0
  BY DelayBounds DEF RecoveryInv, RecoveryShapes, RecoveryPasts, CutOff

LEMMA UnchainedOnLink == ASSUME RecoveryInv, rLink PROVE rPast.chain = 0
  BY DelayBounds DEF RecoveryInv, RecoveryShapes, RecoveryPasts, Spaced

\* Answers of the server, and their absence.
LEMMA RecoveryAnswers ==
    ASSUME RecoveryInv, Recovery!Poll \/ Recovery!Exchange \/ Recovery!Uncertain PROVE RecoveryInv'
  <1>1. rRun \in RecoveryRuns /\ rPast \in RecoveryPasts /\ rLink \in BOOLEAN
    BY DEF RecoveryInv, RecoveryShapes
  <1>2. rPast.down > 0 => ~rLink /\ ~rRun.flight /\ ~rRun.uncertain
    BY DEF RecoveryInv, CutOff
  <1>3. rPast.down \in Nat /\ rPast.chain \in Nat /\ (rPast.chain > 0 => ~rLink)
    BY <1>1, DelayBounds DEF RecoveryPasts, RecoveryInv, Spaced
  <1>4. CASE Recovery!Poll
    <2>1. /\ rRun' = [rRun EXCEPT !.reply = 0] /\ UNCHANGED <<rLink, rOrder, rHistory, rUpdates, rPast, rEvents>>
          /\ rLink
      BY <1>4 DEF Recovery!Poll
    <2>2. 0 \in Recovery!Unset .. ServerFresh
      BY RecoveryAssumption DEF Recovery!Unset
    <2>3. /\ rRun' \in RecoveryRuns
          /\ rRun'.at = rRun.at /\ rRun'.cause = rRun.cause /\ rRun'.offline = rRun.offline
          /\ rRun'.stable = rRun.stable /\ rRun'.known = rRun.known /\ rRun'.maintenance = rRun.maintenance
          /\ rRun'.age = rRun.age /\ rRun'.restart = rRun.restart /\ rRun'.turned = rRun.turned
      BY <1>1, <2>1, <2>2 DEF RecoveryRuns
    <2>4. RecoveryShapes'
      BY <2>1, <2>3 DEF RecoveryInv, RecoveryShapes
    <2> QED BY <2>1, <2>3, <2>4, UpOnLink, UnchainedOnLink, RecoveryFrame
  <1>5. CASE Recovery!Exchange
    <2>1. /\ UNCHANGED <<rLink, rOrder, rHistory, rUpdates, rPast, rEvents>>
          /\ \/ rRun' = [rRun EXCEPT !.flight = FALSE]
             \/ rLink /\ rRun' = [rRun EXCEPT !.flight = TRUE]
      BY <1>5 DEF Recovery!Exchange
    <2>2. /\ rRun' \in RecoveryRuns
          /\ rRun'.at = rRun.at /\ rRun'.cause = rRun.cause /\ rRun'.offline = rRun.offline
          /\ rRun'.stable = rRun.stable /\ rRun'.known = rRun.known /\ rRun'.maintenance = rRun.maintenance
          /\ rRun'.age = rRun.age /\ rRun'.restart = rRun.restart /\ rRun'.turned = rRun.turned
          /\ rRun'.uncertain = rRun.uncertain
      BY <1>1, <2>1 DEF RecoveryRuns
    <2>3. ~rLink => ~rRun'.flight
      BY <1>1, <2>1 DEF RecoveryRuns
    <2>4. RecoveryShapes'
      BY <2>1, <2>2 DEF RecoveryInv, RecoveryShapes
    <2>5. rPast'.chain = 0 \/ (rPast'.chain = rPast.chain /\ ~rLink')
      BY <1>3, <2>1
    <2>6. rPast'.down = 0 \/ (rPast'.down = rPast.down /\ ~rLink' /\ ~rRun'.flight /\ ~rRun'.uncertain)
      BY <1>2, <1>3, <2>1, <2>2, <2>3
    <2> QED BY <2>1, <2>2, <2>4, <2>5, <2>6, RecoveryFrame
  <1>6. CASE Recovery!Uncertain
    <2>1. /\ UNCHANGED <<rLink, rOrder, rHistory, rUpdates, rEvents>> /\ rPast' = [rPast EXCEPT !.down = 0]
          /\ \/ rRun' = [rRun EXCEPT !.uncertain = FALSE]
             \/ rRun' = [rRun EXCEPT !.uncertain = TRUE]
      BY <1>6 DEF Recovery!Uncertain
    <2>2. /\ rRun' \in RecoveryRuns
          /\ rRun'.at = rRun.at /\ rRun'.cause = rRun.cause /\ rRun'.offline = rRun.offline
          /\ rRun'.stable = rRun.stable /\ rRun'.known = rRun.known /\ rRun'.maintenance = rRun.maintenance
          /\ rRun'.age = rRun.age /\ rRun'.restart = rRun.restart /\ rRun'.turned = rRun.turned
      BY <1>1, <2>1 DEF RecoveryRuns
    <2>3. /\ rPast' \in RecoveryPasts /\ rPast'.since = rPast.since /\ rPast'.gap = rPast.gap
          /\ rPast'.tries = rPast.tries /\ rPast'.chain = rPast.chain /\ rPast'.down = 0
      <3>1. 0 \in 0 .. Recovery!Longest + 2
        BY DelayBounds
      <3> QED BY <1>1, <2>1, <3>1 DEF RecoveryPasts
    <2>4. RecoveryShapes'
      BY <2>1, <2>2, <2>3 DEF RecoveryInv, RecoveryShapes
    <2>5. rPast'.chain = 0 \/ (rPast'.chain = rPast.chain /\ ~rLink')
      BY <1>3, <2>1, <2>3
    <2> QED BY <2>1, <2>2, <2>3, <2>4, <2>5, RecoveryFrame
  <1> QED BY <1>4, <1>5, <1>6

\* The link and the order change by themselves.
LEMMA RecoveryWorld ==
    ASSUME RecoveryInv, Recovery!Reported \/ Recovery!Operator \/ Recovery!Link PROVE RecoveryInv'
  <1>1. rRun \in RecoveryRuns /\ rPast \in RecoveryPasts /\ rLink \in BOOLEAN
        /\ rEvents \in 0 .. RecoveryEvents
    BY DEF RecoveryInv, RecoveryShapes
  <1>2. rPast.down \in Nat /\ (rPast.down > 0 => ~rLink /\ ~rRun.flight /\ ~rRun.uncertain)
        /\ rPast.chain \in Nat /\ (rPast.chain > 0 => ~rLink)
    BY <1>1, DelayBounds DEF RecoveryInv, CutOff, RecoveryPasts, Spaced
  <1>3. /\ rHistory' = rHistory /\ rUpdates' = rUpdates /\ rRun' = rRun
    BY DEF Recovery!Reported, Recovery!Operator, Recovery!Link
  <1>4. CASE Recovery!Reported \/ Recovery!Operator
    <2>1. /\ rLink' = rLink /\ rPast' = rPast /\ rOrder' \in Recovery!Orders
      BY <1>4 DEF Recovery!Reported, Recovery!Operator, Recovery!Orders
    <2>2. rEvents' \in 0 .. RecoveryEvents
      BY <1>1, <1>4, RecoveryAssumption DEF Recovery!Reported, Recovery!Operator
    <2>3. RecoveryShapes'
      BY <1>3, <2>1, <2>2 DEF RecoveryInv, RecoveryShapes
    <2>4. rPast'.chain = 0 \/ (rPast'.chain = rPast.chain /\ ~rLink')
      BY <1>2, <2>1
    <2>5. rPast'.down = 0 \/ (rPast'.down = rPast.down /\ ~rLink' /\ ~rRun'.flight /\ ~rRun'.uncertain)
      BY <1>2, <1>3, <2>1
    <2> QED BY <1>3, <2>1, <2>3, <2>4, <2>5, RecoveryFrame
  <1>5. CASE Recovery!Link
    <2>1. /\ rLink' = ~rLink /\ rPast' = (IF rLink THEN rPast ELSE [rPast EXCEPT !.chain = 0, !.down = 0])
          /\ rOrder' = rOrder /\ rEvents' = rEvents
      BY <1>5 DEF Recovery!Link
    <2>2. /\ rPast' \in RecoveryPasts /\ rPast'.since = rPast.since /\ rPast'.gap = rPast.gap
          /\ rPast'.tries = rPast.tries /\ rPast'.chain = 0 /\ rPast'.down = 0
      <3>1. 0 \in 0 .. Recovery!Longest + 2 /\ 0 \in 0 .. Len(Delays) + 1
        BY DelayBounds
      <3>2. CASE rLink
        BY <1>1, <1>2, <2>1, <3>2, UpOnLink, UnchainedOnLink
      <3>3. CASE ~rLink
        <4>1. rPast' = [rPast EXCEPT !.chain = 0, !.down = 0]
          BY <2>1, <3>3
        <4> QED BY <1>1, <3>1, <4>1 DEF RecoveryPasts
      <3> QED BY <3>2, <3>3
    <2>3. RecoveryShapes'
      <3>1. rLink' \in BOOLEAN
        BY <2>1
      <3> QED BY <1>3, <2>1, <2>2, <3>1 DEF RecoveryInv, RecoveryShapes
    <2> QED BY <1>3, <2>2, <2>3, RecoveryFrame
  <1> QED BY <1>4, <1>5

\* A snapshot with an order to update begins an attempt where one is left.
LEMMA RecoverySnapshot == ASSUME RecoveryInv, Recovery!Snapshot PROVE RecoveryInv'
  <1>1. /\ rRun \in RecoveryRuns /\ rPast \in RecoveryPasts /\ rLink \in BOOLEAN
        /\ rUpdates \in 0 .. UpdateAttempts /\ rPast.tries = rUpdates /\ rOrder \in Recovery!Orders
    BY DEF RecoveryInv, RecoveryShapes, Rationed
  <1>2. /\ rRun.at = "loop" /\ rLink
        /\ rRun' = [rRun EXCEPT !.reply = 0, !.seen = rOrder, !.maintenance = Recovery!Asked, !.age = 0]
        /\ \/ rOrder # "github" /\ rUpdates' = 0 /\ rPast' = [rPast EXCEPT !.tries = 0]
           \/ rOrder = "github" /\ rUpdates' = rUpdates /\ rPast' = rPast
        /\ UNCHANGED <<rLink, rOrder, rHistory, rEvents>>
    BY DEF Recovery!Snapshot
  <1>3. /\ Recovery!Asked \in {"none", "github", "update"}
        /\ Recovery!Asked = "github" => rOrder = "github" /\ rUpdates < UpdateAttempts
    BY <1>1 DEF Recovery!Asked, Recovery!Orders
  <1>4. /\ rRun' \in RecoveryRuns
        /\ rRun'.at = "loop" /\ rRun'.offline = rRun.offline /\ rRun'.cause = rRun.cause
        /\ rRun'.stable = rRun.stable /\ rRun'.known = rRun.known /\ rRun'.maintenance = Recovery!Asked
    <2>1. 0 \in Recovery!Unset .. ServerFresh /\ 0 \in 0 .. AbortAfter
      BY RecoveryAssumption DEF Recovery!Unset
    <2> QED BY <1>1, <1>2, <1>3, <2>1 DEF RecoveryRuns
  <1>5. /\ rPast' \in RecoveryPasts /\ rPast'.since = rPast.since /\ rPast'.gap = rPast.gap
        /\ rPast'.tries = rUpdates' /\ rPast'.chain = 0 /\ rPast'.down = 0
        /\ rUpdates' \in 0 .. UpdateAttempts
    <2>1. rPast.chain = 0 /\ rPast.down = 0
      BY <1>2, UpOnLink, UnchainedOnLink
    <2>2. CASE rUpdates' = 0 /\ rPast' = [rPast EXCEPT !.tries = 0]
      <3>1. 0 \in 0 .. UpdateAttempts
        BY RecoveryAssumption
      <3> QED BY <1>1, <2>1, <2>2, <3>1 DEF RecoveryPasts
    <2>3. CASE rUpdates' = rUpdates /\ rPast' = rPast
      BY <1>1, <2>1, <2>3
    <2> QED BY <1>2, <2>2, <2>3
  <1>6. RecoveryShapes'
    BY <1>2, <1>4, <1>5 DEF RecoveryInv, RecoveryShapes
  <1>7. Rationed'
    BY <1>2, <1>3, <1>4, <1>5 DEF Rationed
  <1>8. Spaced' /\ Recovery!NoStorm'
    BY <1>2, <1>4, <1>5 DEF RecoveryInv, Spaced, Recovery!NoStorm
  <1> QED BY <1>5, <1>6, <1>7, <1>8, NotDown DEF RecoveryInv

\* The end of an update check.
LEMMA RecoveryChecks ==
    ASSUME RecoveryInv, Recovery!CheckRestarts \/ Recovery!CheckReturns PROVE RecoveryInv'
  <1>1. /\ rRun \in RecoveryRuns /\ rPast \in RecoveryPasts
        /\ rHistory \in [attempts : 0 .. Len(Delays), pending : BOOLEAN]
        /\ rUpdates \in 0 .. UpdateAttempts /\ rLink \in BOOLEAN /\ rOrder \in Recovery!Orders
        /\ rEvents \in 0 .. RecoveryEvents
    BY DEF RecoveryInv, RecoveryShapes
  <1>2. /\ rRun.at = "check" /\ UNCHANGED <<rLink, rOrder, rHistory, rUpdates, rEvents>>
    BY DEF Recovery!CheckRestarts, Recovery!CheckReturns
  <1>3. CASE Recovery!CheckRestarts
    <2>1. /\ rPast' \in RecoveryPasts /\ rPast'.since = -1 /\ rPast'.gap = -1 /\ rPast'.chain = 0
          /\ rPast'.down = 0 /\ rPast'.tries = rUpdates /\ rRun' = Recovery!Booting("software")
      BY <1>3, RestartPast DEF Recovery!CheckRestarts
    <2>2. "software" \in Recovery!Causes
      BY DEF Recovery!Causes
    <2> QED BY <1>1, <1>2, <2>1, <2>2, RecoveryResets
  <1>4. CASE Recovery!CheckReturns
    <2>1. /\ rPast' = rPast
          /\ \/ rRun' = [rRun EXCEPT !.at = "loop", !.restart = 0]
             \/ rRun' = [rRun EXCEPT !.at = "loop", !.maintenance = "none"]
      BY <1>4 DEF Recovery!CheckReturns
    <2>2. 0 \in Recovery!Unset .. AbortAfter
      BY RecoveryAssumption DEF Recovery!Unset
    <2>3. /\ rRun' \in RecoveryRuns
          /\ rRun'.at = "loop" /\ rRun'.offline = rRun.offline /\ rRun'.cause = rRun.cause
          /\ rRun'.stable = rRun.stable /\ rRun'.known = rRun.known
          /\ rRun'.restart = 0 \/ rRun'.maintenance = "none"
      BY <1>1, <2>1, <2>2 DEF RecoveryRuns
    <2>4. RecoveryShapes'
      BY <1>1, <1>2, <2>1, <2>3 DEF RecoveryShapes
    <2>5. Rationed'
      BY <1>2, <2>1, <2>3 DEF RecoveryInv, Rationed
    <2>6. Spaced' /\ Recovery!NoStorm'
      BY <1>2, <2>1, <2>3 DEF RecoveryInv, Spaced, Recovery!NoStorm
    <2>7. rPast'.down = 0
      BY <1>2, <2>1, UpOnLink
    <2> QED BY <2>4, <2>5, <2>6, <2>7, NotDown DEF RecoveryInv
  <1> QED BY <1>3, <1>4
\* An age grows by one up to its bound.
LEMMA OlderBounds ==
    ASSUME NEW most \in Nat, NEW n \in -1 .. most
    PROVE  /\ Recovery!Older(n, most) \in -1 .. most
           /\ n = -1 => Recovery!Older(n, most) = -1
           /\ n = most => Recovery!Older(n, most) = most
           /\ n # -1 /\ n # most => Recovery!Older(n, most) = n + 1
           /\ n # -1 => Recovery!Older(n, most) \in 0 .. most
  BY DEF Recovery!Older, Recovery!Unset

\* A unit of time passes: it cannot while a step is due.
LEMMA RecoveryTicks == ASSUME RecoveryInv, Recovery!Tick PROVE RecoveryInv'
  <1> DEFINE age == IF rRun.maintenance = "none" THEN 0 ELSE Recovery!Older(rRun.age, AbortAfter)
             offline == Recovery!Older(rRun.offline, Recovery!Longest)
             stable == Recovery!Older(rRun.stable, Stable)
             reply == Recovery!Older(rRun.reply, ServerFresh)
             restart == Recovery!Older(rRun.restart, AbortAfter)
             since == Recovery!Older(rPast.since, Recovery!Longest)
             down == IF rLink \/ rRun.at # "loop" \/ rRun.uncertain THEN 0
                     ELSE Recovery!Older(rPast.down, Recovery!Longest + 2)
  <1>1. /\ rRun \in RecoveryRuns /\ rPast \in RecoveryPasts
    BY DEF RecoveryInv, RecoveryShapes
  <1>2. /\ ~rRun.flight /\ (rRun.at = "loop" => rRun.turned)
        /\ rRun' = [rRun EXCEPT !.offline = offline, !.stable = stable, !.reply = reply,
                                !.restart = restart, !.age = age, !.turned = FALSE]
        /\ rPast' = [rPast EXCEPT !.since = since, !.down = down]
        /\ UNCHANGED <<rLink, rOrder, rHistory, rUpdates, rEvents>>
    BY <1>1 DEF Recovery!Tick, RecoveryRuns, RecoveryPasts
  <1>3. /\ rRun.offline \in -1 .. Recovery!Longest /\ rRun.stable \in -1 .. Stable
        /\ rRun.reply \in -1 .. ServerFresh /\ rRun.restart \in -1 .. AbortAfter
        /\ rRun.age \in 0 .. AbortAfter /\ rPast.since \in -1 .. Recovery!Longest
        /\ rPast.down \in 0 .. Recovery!Longest + 2
    BY <1>1 DEF RecoveryRuns, RecoveryPasts, Recovery!Unset
  <1>4. /\ Recovery!Longest \in Nat /\ Stable \in Nat /\ ServerFresh \in Nat /\ AbortAfter \in Nat
        /\ Recovery!Longest + 2 \in Nat /\ 1 <= AbortAfter
    BY DelayBounds, RecoveryAssumption
  <1>5. /\ offline \in -1 .. Recovery!Longest
        /\ rRun.offline = -1 => offline = -1
        /\ rRun.offline = Recovery!Longest => offline = Recovery!Longest
        /\ rRun.offline # -1 /\ rRun.offline # Recovery!Longest => offline = rRun.offline + 1
    BY <1>3, <1>4, OlderBounds
  <1>6. /\ stable \in -1 .. Stable
        /\ rRun.stable = -1 => stable = -1
        /\ rRun.stable = Stable => stable = Stable
        /\ rRun.stable # -1 /\ rRun.stable # Stable => stable = rRun.stable + 1
    BY <1>3, <1>4, OlderBounds
  <1>7. /\ restart \in -1 .. AbortAfter
        /\ rRun.restart = -1 => restart = -1
        /\ rRun.restart = AbortAfter => restart = AbortAfter
        /\ rRun.restart # -1 /\ rRun.restart # AbortAfter => restart = rRun.restart + 1
    BY <1>3, <1>4, OlderBounds
  <1>8. /\ reply \in -1 .. ServerFresh
    BY <1>3, <1>4, OlderBounds
  <1>9. /\ since \in -1 .. Recovery!Longest
        /\ rPast.since = -1 => since = -1
        /\ rPast.since = Recovery!Longest => since = Recovery!Longest
        /\ rPast.since # -1 /\ rPast.since # Recovery!Longest => since = rPast.since + 1
    BY <1>3, <1>4, OlderBounds
  <1>10. /\ age \in 0 .. AbortAfter
         /\ rRun.maintenance # "none" /\ rRun.age = AbortAfter => age = AbortAfter
         /\ rRun.maintenance # "none" /\ rRun.age # AbortAfter => age = rRun.age + 1
    <2>1. rRun.age \in -1 .. AbortAfter /\ rRun.age # -1
      BY <1>3, <1>4
    <2> QED BY <1>3, <1>4, <2>1, OlderBounds
  <1>11. /\ down \in 0 .. Recovery!Longest + 2
         /\ down > 0 => /\ ~rLink /\ rRun.at = "loop" /\ ~rRun.uncertain
                        /\ down = (IF rPast.down = Recovery!Longest + 2 THEN rPast.down ELSE rPast.down + 1)
    <2>1. rPast.down \in -1 .. Recovery!Longest + 2 /\ rPast.down # -1
      BY <1>3, <1>4
    <2> QED BY <1>3, <1>4, <2>1, OlderBounds
  <1> HIDE DEF age, offline, stable, reply, restart, since, down
  <1>12. /\ rRun' \in RecoveryRuns
         /\ rRun'.at = rRun.at /\ rRun'.cause = rRun.cause /\ rRun'.offline = offline
         /\ rRun'.stable = stable /\ rRun'.known = rRun.known /\ rRun'.maintenance = rRun.maintenance
         /\ rRun'.age = age /\ rRun'.restart = restart /\ rRun'.turned = FALSE
         /\ rRun'.flight = rRun.flight /\ rRun'.uncertain = rRun.uncertain
    BY <1>1, <1>2, <1>5, <1>6, <1>7, <1>8, <1>10 DEF RecoveryRuns, Recovery!Unset
  <1>13. /\ rPast' \in RecoveryPasts /\ rPast'.since = since /\ rPast'.gap = rPast.gap
         /\ rPast'.chain = rPast.chain /\ rPast'.tries = rPast.tries /\ rPast'.down = down
    BY <1>1, <1>2, <1>9, <1>11 DEF RecoveryPasts, Recovery!Unset
  <1>14. RecoveryShapes'
    BY <1>2, <1>12, <1>13 DEF RecoveryInv, RecoveryShapes
  <1>15. Rationed'
    BY <1>2, <1>7, <1>12, <1>13, <1>3, <1>4 DEF RecoveryInv, Rationed
  <1>16. Spaced'
    <2>1. since # -1 => rPast.since # -1
      BY <1>9
    <2>2. since # -1 /\ offline # -1 => offline <= since
      BY <1>3, <1>4, <1>5, <1>9 DEF RecoveryInv, Spaced
    <2>3. stable # -1 => rRun.known
      BY <1>6 DEF RecoveryInv, Spaced
    <2>4. since # -1 /\ stable # -1 => stable <= since \/ since = Recovery!Longest
      BY <1>3, <1>4, <1>6, <1>9 DEF RecoveryInv, Spaced
    <2>5. since # -1 /\ rHistory.attempts = 0 /\ rRun.at # "boot" =>
             /\ rRun.known
             /\ since = Recovery!Longest \/ since >= Stable + (IF offline = -1 THEN 0 ELSE offline)
      BY <1>3, <1>4, <1>5, <1>9 DEF RecoveryInv, Spaced
    <2>6. rPast.chain > 0 => since # -1
      BY <1>3, <1>4, <1>9 DEF RecoveryInv, Spaced
    <2> QED BY <1>2, <1>12, <1>13, <2>1, <2>2, <2>3, <2>4, <2>5, <2>6 DEF RecoveryInv, Spaced
  <1>17. Recovery!NoStorm'
    BY <1>13 DEF RecoveryInv, Recovery!NoStorm
  <1>18. CASE down = 0
    BY <1>13, <1>14, <1>15, <1>16, <1>17, <1>18, NotDown DEF RecoveryInv
  <1>19. CASE down # 0
    <2> DEFINE delay == Recovery!Delay(rHistory.attempts, rRun.known)
    <2>1. delay \in Nat /\ delay <= Recovery!Longest
      BY DelayRange DEF RecoveryInv, RecoveryShapes
    <2>2. down > 0 /\ rRun.turned /\ ~rLink /\ rRun.at = "loop" /\ ~rRun.uncertain
      BY <1>2, <1>4, <1>11, <1>19
    <2>3. rPast.down <= delay
      <3>1. rPast.down <= delay + 0
        BY <2>2 DEF RecoveryInv, CutOff
      <3> HIDE DEF delay
      <3> QED BY <1>3, <1>4, <2>1, <3>1
    <2> HIDE DEF delay
    <2>4. down = rPast.down + 1
      BY <1>3, <1>4, <1>11, <2>1, <2>2, <2>3
    <2>5. rRun.maintenance # "none" =>
             IF restart = -1 THEN down <= age ELSE down <= restart
      BY <1>3, <1>4, <1>7, <1>10, <2>2, <2>4 DEF RecoveryInv, CutOff
    <2>6. down <= offline + (IF offline = -1 THEN 2 ELSE 1)
      BY <1>3, <1>4, <1>5, <2>1, <2>2, <2>3, <2>4 DEF RecoveryInv, CutOff
    <2>7. delay = Recovery!Delay(rHistory'.attempts, rRun'.known)
      BY <1>2, <1>12 DEF delay
    <2>8. CutOff'
      BY <1>2, <1>12, <1>13, <1>3, <1>4, <2>1, <2>2, <2>3, <2>4, <2>5, <2>6, <2>7 DEF CutOff
    <2> QED BY <1>14, <1>15, <1>16, <1>17, <2>8 DEF RecoveryInv
  <1> QED BY <1>18, <1>19

\* Every step of the recovery keeps the invariant.
LEMMA RecoveryNext == ASSUME RecoveryInv, [Recovery!Next]_Recovery!vars PROVE RecoveryInv'
  <1>1. CASE Recovery!Begin \/ Recovery!OwnRestart \/ Recovery!BackInTime
    BY <1>1, RecoveryBegins, RecoveryOwnRestart, RecoveryBackInTime
  <1>2. CASE Recovery!Turn
    BY <1>2, RecoveryTurnsOn, RecoveryTurnsOff
  <1>3. CASE Recovery!CheckRestarts \/ Recovery!CheckReturns
    BY <1>3, RecoveryChecks
  <1>4. CASE Recovery!Poll \/ Recovery!Exchange \/ Recovery!Uncertain
    BY <1>4, RecoveryAnswers
  <1>5. CASE Recovery!Snapshot
    BY <1>5, RecoverySnapshot
  <1>6. CASE Recovery!Reported \/ Recovery!Operator \/ Recovery!Link
    BY <1>6, RecoveryWorld
  <1>7. CASE \E cause \in Recovery!Causes : Recovery!OtherReset(cause)
    BY <1>7, RecoveryOtherReset
  <1>8. CASE Recovery!Tick
    BY <1>8, RecoveryTicks
  <1>9. CASE UNCHANGED Recovery!vars
    <2>1. UNCHANGED <<rLink, rOrder, rHistory, rUpdates, rRun, rPast, rEvents>>
      BY <1>9 DEF Recovery!vars
    <2>2. RecoveryShapes' /\ Rationed' /\ Spaced' /\ CutOff' /\ Recovery!NoStorm'
      BY <2>1 DEF RecoveryInv, RecoveryShapes, Rationed, Spaced, CutOff, Recovery!NoStorm
    <2> QED BY <2>2 DEF RecoveryInv
  <1> QED BY <1>1, <1>2, <1>3, <1>4, <1>5, <1>6, <1>7, <1>8, <1>9 DEF Recovery!Next

\* Every reachable state of the recovery satisfies the invariant.
THEOREM RecoveryInvHolds == Recovery!Spec => []RecoveryInv
  <1> QED BY RecoveryInit, RecoveryNext, PTL DEF Recovery!Spec

\* Restarts for the link are as far apart as the delays say, updates are tried as often
\* as the ration allows, and an outage ends in a restart unless something blocks it
\* (generator_offline_recovery.h).
THEOREM RestartsRationedHolds == Recovery!Spec => []RestartsRationed
  <1> QED BY RecoveryTypes, RecoveryInvHolds, PTL

-----------------------------------------------------------------------------
(***************************************************************************)
(* The release scripts and the channel (ReleaseArchive)                    *)
(***************************************************************************)
\* The types of a job, of the releases and of the channel.
ArchivePlaces == {"idle", "capture", "build", "push", "verify", "find", "create", "check", "refused",
                  "upload", "publish", "confirm", "channel", "clear", "point"}
AssetNames == {"build-provenance.json", "ota.txt", "update.bin"}
PointerNames == {"ota.txt", "ota.sig"}

Images == {<<t, b>> : t \in Archive!Trees, b \in Builds}
Metas == {<<v, t, b>> : v \in Archive!Versions, t \in Archive!Trees, b \in Builds}
Proofs == {<<t>> : t \in Archive!Trees}
AssetBytes == {Archive!Absent, Archive!Broken} \cup Proofs \cup Images \cup Metas

Releases == [state : {"none", "draft", "public"}, target : Archive!Trees \cup {0}, assets : [AssetNames -> AssetBytes]]

ArchiveShapes ==
    /\ aTree \in Archive!Trees /\ aHead \in Archive!Trees /\ aRemote \in SUBSET Archive!Trees
    /\ aJob \in [pc : ArchivePlaces, record : Archive!Trees \cup {0}, image : {Archive!Absent} \cup Images]
    /\ aRelease \in [Archive!Versions -> Releases]
    /\ aTag \in [Archive!Versions -> Archive!Trees \cup {0}]
    /\ aChannel \in [PointerNames -> {Archive!Absent, Archive!Broken} \cup Metas]
    /\ aBoard \in [read : {Archive!Absent} \cup Metas, target : {Archive!Absent} \cup Metas]
    /\ aJobs \in 0 .. MaxJobs /\ aFaults \in 0 .. MaxFaults

\* What the job has captured and compiled: nothing newer than the tree, and once
\* the commit is verified, the commit's own source.
Compiled ==
    /\ (aJob.record = 0) = (aJob.pc \in {"idle", "capture"})
    /\ (aJob.image = Archive!Absent) = (aJob.pc \in {"idle", "capture", "build"})
    /\ aJob.pc \in {"build", "push", "verify"} => aJob.record <= aTree
    /\ aJob.pc \in {"push", "verify"} =>
          \E t \in Archive!Trees, b \in Builds : aJob.image = <<t, b>> /\ aJob.record <= t /\ t <= aTree
    /\ aJob.pc \notin {"idle", "capture", "build", "push", "verify"} =>
          aJob.record \in aRemote /\ \E b \in Builds : aJob.image = <<aJob.record, b>>

\* What the job has seen of its release; no other job changes it meanwhile.
Seen ==
    /\ aJob.pc = "create" => Archive!Ours.state = "none" /\ aTag[Archive!Version] = 0
    /\ aJob.pc \in {"check", "upload", "publish"} =>
          /\ Archive!Ours.state \in {"draft", "public"}
          /\ Archive!Ours.target = aJob.record /\ Archive!TagAllows
    /\ aJob.pc \in {"upload", "publish"} => Archive!Ours.state = "draft"
    /\ aJob.pc \in {"publish", "confirm", "channel", "clear", "point"} => Archive!Complete
    /\ aJob.pc \in {"confirm", "channel", "clear", "point"} => Archive!Ours.state = "public"

\* A text that names a public archive with that image.
Names(m) == /\ m \in Metas
            /\ aRelease[m[1]].state = "public"
            /\ aRelease[m[1]].assets["ota.txt"] = m
            /\ aRelease[m[1]].assets["update.bin"] = Tail(m)

\* What is in the channel, or in the hands of a board, names a public archive.
ChannelPoints ==
    /\ \A n \in PointerNames : aChannel[n] \in {Archive!Absent, Archive!Broken} \/ Names(aChannel[n])
    /\ aBoard.read = Archive!Absent \/ Names(aBoard.read)
    /\ aBoard.target = Archive!Absent \/ Names(aBoard.target)

\* The inductive invariant of the archive and the channel.
ArchiveInv == ArchiveShapes /\ Compiled /\ Seen /\ Archive!Pinned /\ ChannelPoints

-----------------------------------------------------------------------------
\* The commits and their versions.
LEMMA TreeFacts ==
    /\ Archive!Trees \subseteq Nat /\ 0 \notin Archive!Trees /\ 1 \in Archive!Trees
    /\ \A t \in Archive!Trees : VersionOf[t] \in Archive!Versions
    /\ \A t \in Archive!Trees : t <= Len(VersionOf) /\ t >= 1
    /\ \A t \in Archive!Trees : t < Len(VersionOf) => t + 1 \in Archive!Trees
  BY ArchiveAssumption DEF Archive!Trees, Archive!Versions

\* The texts of the channel are sequences: their parts.
LEMMA Texts == ASSUME NEW v, NEW t, NEW b PROVE <<v>> \o <<t, b>> = <<v, t, b>>
  <1> DEFINE S == {v, t, b}
             c == <<v>> \o <<t, b>>
             d == <<v, t, b>>
  <1>1. /\ <<v>> \in Seq(S) /\ <<t, b>> \in Seq(S) /\ d \in Seq(S)
        /\ Len(d) = 3 /\ d[1] = v /\ d[2] = t /\ d[3] = b
        /\ Len(<<v>>) = 1 /\ Len(<<t, b>>) = 2
    OBVIOUS
  <1>2. /\ c \in Seq(S) /\ Len(c) = 3
        /\ \A i \in 1 .. 3 : c[i] = IF i <= 1 THEN <<v>>[i] ELSE <<t, b>>[i - 1]
    BY <1>1, ConcatProperties
  <1>3. c[1] = v /\ c[2] = t /\ c[3] = b
    BY <1>2
  <1> HIDE DEF c, d, S
  <1>4. \A i \in 1 .. 3 : c[i] = d[i]
    BY <1>1, <1>3
  <1>5. c = d
    BY <1>1, <1>2, <1>4, SeqEqual
  <1> QED BY <1>5 DEF c, d

LEMMA TextFacts ==
    ASSUME NEW v, NEW t, NEW b
    PROVE  /\ Tail(<<v, t, b>>) = <<t, b>> /\ <<v, t, b>>[1] = v
           /\ <<v, t, b>> # Archive!Absent /\ <<v, t, b>> # Archive!Broken
           /\ <<t, b>> # Archive!Absent
  <1>1. <<v, t, b>> \in Seq({v, t, b}) /\ Len(<<v, t, b>>) = 3 /\ Len(<<t, b>>) = 2
        /\ Len(Archive!Absent) = 0 /\ Len(Archive!Broken) = 1
    BY DEF Archive!Absent, Archive!Broken
  <1> QED BY <1>1

\* The values the archive begins with.
LEMMA NoArchive == Archive!NoRelease \in Releases /\ Archive!NoJob.pc = "idle"
                   /\ Archive!NoJob \in [pc : ArchivePlaces, record : Archive!Trees \cup {0},
                                        image : {Archive!Absent} \cup Images]
                   /\ Archive!NoJob.record = 0 /\ Archive!NoJob.image = Archive!Absent
  BY DEF Archive!NoRelease, Archive!NoJob, Releases, AssetNames, AssetBytes, ArchivePlaces

\* The invariant implies the property and its module's types.
LEMMA ArchiveTypes == ASSUME ArchiveInv PROVE Archived
  <1>1. /\ aJob.pc \in ArchivePlaces /\ aJob.record \in Archive!Trees \cup {0}
        /\ aTree \in Archive!Trees /\ aHead \in Archive!Trees /\ aRemote \subseteq Archive!Trees
        /\ aJobs \in 0 .. MaxJobs /\ aFaults \in 0 .. MaxFaults
    BY DEF ArchiveInv, ArchiveShapes
  <1>2. \A v \in Archive!Versions : /\ aRelease[v].state \in {"none", "draft", "public"}
                                    /\ aRelease[v].target \in Archive!Trees \cup {0}
                                    /\ aTag[v] \in Archive!Trees \cup {0}
    BY DEF ArchiveInv, ArchiveShapes, Releases
  <1>3. aBoard.target = Archive!Absent \/ aBoard.target[1] \in Archive!Versions
    BY DEF ArchiveInv, ChannelPoints, Names, Metas
  <1>4. Archive!Pointed
    BY DEF ArchiveInv, ChannelPoints, Names, Archive!Pointed
  <1>5. Archive!TypeOK
    BY <1>1, <1>2, <1>3 DEF ArchiveInv, Compiled, ArchivePlaces, Archive!TypeOK
  <1> QED BY <1>4, <1>5 DEF ArchiveInv, Archived

\* It holds for the first commit, with nothing archived.
LEMMA ArchiveInit == ASSUME Archive!Init PROVE ArchiveInv
  <1>1. /\ aTree = 1 /\ aHead = 1 /\ aRemote = {1} /\ aJob = Archive!NoJob
        /\ aRelease = [v \in Archive!Versions |-> Archive!NoRelease]
        /\ aTag = [v \in Archive!Versions |-> 0]
        /\ aChannel = [n \in {"ota.txt", "ota.sig"} |-> Archive!Absent]
        /\ aBoard = [read |-> Archive!Absent, target |-> Archive!Absent]
        /\ aJobs = 0 /\ aFaults = 0
    BY DEF Archive!Init
  <1>2. ArchiveShapes
    <2>1. aJobs \in 0 .. MaxJobs /\ aFaults \in 0 .. MaxFaults
      BY <1>1, ArchiveAssumption
    <2>2. aRelease \in [Archive!Versions -> Releases]
      BY <1>1, NoArchive
    <2>3. aChannel \in [PointerNames -> {Archive!Absent, Archive!Broken} \cup Metas]
      BY <1>1 DEF PointerNames
    <2>4. aBoard \in [read : {Archive!Absent} \cup Metas, target : {Archive!Absent} \cup Metas]
      BY <1>1
    <2> QED BY <1>1, <2>1, <2>2, <2>3, <2>4, TreeFacts, NoArchive DEF ArchiveShapes
  <1>3. Compiled /\ Seen
    BY <1>1, NoArchive DEF Compiled, Seen
  <1>4. Archive!Pinned
    BY <1>1 DEF Archive!Pinned, Archive!NoRelease
  <1>5. ChannelPoints
    BY <1>1 DEF ChannelPoints, PointerNames
  <1> QED BY <1>2, <1>3, <1>4, <1>5 DEF ArchiveInv

-----------------------------------------------------------------------------
\* What the job would publish, once its commit is verified.
LEMMA JobBytes ==
    ASSUME ArchiveInv, aJob.pc \notin {"idle", "capture", "build", "push", "verify"}
    PROVE  /\ aJob.record \in Archive!Trees /\ aJob.record \in aRemote /\ aJob.record # 0
           /\ Archive!Version = VersionOf[aJob.record] /\ Archive!Version \in Archive!Versions
           /\ Archive!Metadata \in Metas /\ Archive!Metadata[1] = Archive!Version
           /\ Tail(Archive!Metadata) = aJob.image
           /\ Archive!Bytes["update.bin"] = aJob.image /\ Archive!Bytes["ota.txt"] = Archive!Metadata
           /\ Archive!Bytes["ota.sig"] = Archive!Metadata
           /\ Archive!Bytes["build-provenance.json"] = <<aJob.record>>
           /\ \E b \in Builds : /\ aJob.image = <<aJob.record, b>>
                                /\ Archive!Metadata = <<Archive!Version, aJob.record, b>>
           /\ \A n \in AssetNames : Archive!Bytes[n] \in AssetBytes
  <1>1. PICK b \in Builds : aJob.image = <<aJob.record, b>>
    BY DEF ArchiveInv, Compiled
  <1>2. aJob.record \in aRemote /\ aJob.record \in Archive!Trees /\ aJob.record # 0
    BY TreeFacts DEF ArchiveInv, Compiled, ArchiveShapes
  <1>3. Archive!Version = VersionOf[aJob.record] /\ Archive!Version \in Archive!Versions
    BY <1>2, TreeFacts DEF Archive!Version
  <1>4. Archive!Metadata = <<Archive!Version, aJob.record, b>>
    BY <1>1, Texts DEF Archive!Metadata
  <1>5. /\ Archive!Metadata \in Metas /\ Archive!Metadata[1] = Archive!Version
        /\ Tail(Archive!Metadata) = aJob.image
    BY <1>1, <1>2, <1>3, <1>4, TextFacts DEF Metas
  <1>6. /\ Archive!Bytes["update.bin"] = aJob.image /\ Archive!Bytes["ota.txt"] = Archive!Metadata
        /\ Archive!Bytes["ota.sig"] = Archive!Metadata
        /\ Archive!Bytes["build-provenance.json"] = <<aJob.record>>
    BY DEF Archive!Bytes
  <1>7. \A n \in AssetNames : Archive!Bytes[n] \in AssetBytes
    <2>1. aJob.image \in Images /\ <<aJob.record>> \in Proofs
      BY <1>1, <1>2 DEF Images, Proofs
    <2>2. aJob.image \in AssetBytes /\ <<aJob.record>> \in AssetBytes /\ Archive!Metadata \in AssetBytes
      BY <1>5, <2>1 DEF AssetBytes
    <2> QED BY <1>6, <2>2 DEF AssetNames
  <1> QED BY <1>1, <1>2, <1>3, <1>4, <1>5, <1>6, <1>7

\* A complete release has the job's own bytes.
LEMMA CompleteFields ==
    Archive!Complete <=> \A n \in AssetNames : Archive!Ours.assets[n] = Archive!Bytes[n]
  BY DEF Archive!Complete, Archive!Assets, AssetNames
-----------------------------------------------------------------------------
ArchiveRest == UNCHANGED <<aRelease, aTag, aChannel, aBoard>>

\* The end of a job, whatever ended it.
LEMMA JobStops ==
    ASSUME ArchiveInv, aJob' = Archive!NoJob, ArchiveRest, UNCHANGED <<aTree, aHead, aRemote, aJobs>>,
           aFaults' \in 0 .. MaxFaults
    PROVE  ArchiveInv'
  <1>1. ArchiveShapes'
    BY NoArchive DEF ArchiveInv, ArchiveShapes, ArchiveRest
  <1>2. Compiled' /\ Seen'
    BY NoArchive DEF Compiled, Seen
  <1>3. Archive!Pinned' /\ ChannelPoints'
    BY DEF ArchiveInv, Archive!Pinned, ChannelPoints, Names, ArchiveRest
  <1> QED BY <1>1, <1>2, <1>3 DEF ArchiveInv

\* The steps before the commit is verified; the releases are not looked at.
LEMMA JobPrepares ==
    ASSUME ArchiveInv,
           \/ \E t \in Archive!Trees : Archive!Begin(t)
           \/ Archive!Edit \/ Archive!Capture \/ (\E b \in Builds : Archive!Build(b))
           \/ Archive!Push \/ Archive!Verify
    PROVE  ArchiveInv'
  <1>1. /\ aJob \in [pc : ArchivePlaces, record : Archive!Trees \cup {0}, image : {Archive!Absent} \cup Images]
        /\ aTree \in Archive!Trees /\ aHead \in Archive!Trees /\ aRemote \in SUBSET Archive!Trees
        /\ aJobs \in 0 .. MaxJobs /\ aFaults \in 0 .. MaxFaults
    BY DEF ArchiveInv, ArchiveShapes
  <1>2. ArchiveRest /\ aFaults' = aFaults
    BY DEF Archive!Begin, Archive!Edit, Archive!Capture, Archive!Build, Archive!Push, Archive!Verify,
           Archive!hub, ArchiveRest
  <1>3. ASSUME aTree' \in Archive!Trees, aHead' \in Archive!Trees, aRemote' \in SUBSET Archive!Trees,
               aRemote \subseteq aRemote',
               aJob' \in [pc : ArchivePlaces, record : Archive!Trees \cup {0}, image : {Archive!Absent} \cup Images],
               aJobs' \in 0 .. MaxJobs, Compiled',
               aJob'.pc \in {"idle", "capture", "build", "push", "verify", "find"}
        PROVE  ArchiveInv'
    <2>1. ArchiveShapes'
      BY <1>2, <1>3 DEF ArchiveInv, ArchiveShapes, ArchiveRest
    <2>2. Seen'
      BY <1>3 DEF Seen
    <2>3. Archive!Pinned' /\ ChannelPoints'
      BY <1>2, <1>3 DEF ArchiveInv, Archive!Pinned, ChannelPoints, Names, ArchiveRest
    <2> QED BY <1>3, <2>1, <2>2, <2>3 DEF ArchiveInv
  <1>4. ASSUME NEW t \in Archive!Trees, Archive!Begin(t) PROVE ArchiveInv'
    <2>1. /\ aTree' = t /\ aHead' = t /\ aRemote' = aRemote /\ aJob' = [Archive!NoJob EXCEPT !.pc = "capture"]
          /\ aJobs' = aJobs + 1 /\ aJobs < MaxJobs
      BY <1>4 DEF Archive!Begin
    <2>2. /\ aJob' \in [pc : ArchivePlaces, record : Archive!Trees \cup {0}, image : {Archive!Absent} \cup Images]
          /\ aJob'.pc = "capture" /\ aJob'.record = 0 /\ aJob'.image = Archive!Absent
      BY <2>1 DEF Archive!NoJob, ArchivePlaces
    <2>3. aJobs' \in 0 .. MaxJobs
      BY <1>1, <2>1, ArchiveAssumption
    <2>4. Compiled'
      BY <2>2 DEF Compiled
    <2> QED BY <1>1, <1>3, <2>1, <2>2, <2>3, <2>4
  <1>5. CASE Archive!Edit
    <2>1. /\ aJob.pc \in {"capture", "build", "push", "verify"} /\ aTree < Len(VersionOf) /\ aTree' = aTree + 1
          /\ UNCHANGED <<aHead, aRemote, aJob, aJobs>>
      BY <1>5 DEF Archive!Edit
    <2>2. aTree' \in Archive!Trees /\ aTree \in Nat /\ (aJob.record \in Nat)
      <3>1. aTree + 1 \in Archive!Trees /\ aTree \in Nat
        BY <1>1, <2>1, TreeFacts
      <3>2. aJob.record \in Nat
        <4>1. aJob.record \in Archive!Trees \/ aJob.record = 0
          BY <1>1
        <4>2. CASE aJob.record = 0
          BY <4>2
        <4>3. CASE aJob.record \in Archive!Trees
          BY <4>3, TreeFacts
        <4> QED BY <4>1, <4>2, <4>3
      <3> QED BY <2>1, <3>1, <3>2
    <2>3. Compiled'
      <3>1. aJob.pc \in {"build", "push", "verify"} => aJob.record <= aTree'
        BY <2>1, <2>2 DEF ArchiveInv, Compiled
      <3>2. aJob.pc \in {"push", "verify"} =>
              \E t \in Archive!Trees, b \in Builds : aJob.image = <<t, b>> /\ aJob.record <= t /\ t <= aTree'
        <4>1. SUFFICES ASSUME aJob.pc \in {"push", "verify"}
                       PROVE  \E t \in Archive!Trees, b \in Builds :
                                 aJob.image = <<t, b>> /\ aJob.record <= t /\ t <= aTree'
          OBVIOUS
        <4>2. PICK t \in Archive!Trees, b \in Builds : aJob.image = <<t, b>> /\ aJob.record <= t /\ t <= aTree
          BY <4>1 DEF ArchiveInv, Compiled
        <4>3. t <= aTree'
          BY <2>1, <2>2, <4>2, TreeFacts
        <4> QED BY <4>2, <4>3
      <3> QED BY <2>1, <3>1, <3>2 DEF ArchiveInv, Compiled
    <2> QED BY <1>1, <1>3, <2>1, <2>2, <2>3
  <1>6. CASE Archive!Capture
    <2>1. /\ aJob.pc = "capture" /\ aJob' = [aJob EXCEPT !.pc = "build", !.record = aTree]
          /\ UNCHANGED <<aTree, aHead, aRemote, aJobs>>
      BY <1>6 DEF Archive!Capture, Archive!checkout
    <2>2. /\ aJob' \in [pc : ArchivePlaces, record : Archive!Trees \cup {0}, image : {Archive!Absent} \cup Images]
          /\ aJob'.pc = "build" /\ aJob'.record = aTree /\ aJob'.image = aJob.image
      BY <1>1, <2>1 DEF ArchivePlaces
    <2>3. aTree # 0 /\ aTree <= aTree /\ aJob.image = Archive!Absent
      BY <1>1, <2>1, TreeFacts DEF ArchiveInv, Compiled
    <2>4. Compiled'
      BY <2>1, <2>2, <2>3 DEF Compiled
    <2> QED BY <1>1, <1>3, <2>1, <2>2, <2>4
  <1>7. ASSUME NEW b \in Builds, Archive!Build(b) PROVE ArchiveInv'
    <2>1. /\ aJob.pc = "build" /\ aJob' = [aJob EXCEPT !.pc = "push", !.image = <<aTree, b>>]
          /\ UNCHANGED <<aTree, aHead, aRemote, aJobs>>
      BY <1>7 DEF Archive!Build, Archive!checkout
    <2>2. /\ aJob' \in [pc : ArchivePlaces, record : Archive!Trees \cup {0}, image : {Archive!Absent} \cup Images]
          /\ aJob'.pc = "push" /\ aJob'.record = aJob.record /\ aJob'.image = <<aTree, b>>
      <3>1. <<aTree, b>> \in Images
        BY <1>1 DEF Images
      <3> QED BY <1>1, <2>1, <3>1 DEF ArchivePlaces
    <2>3. /\ aJob.record # 0 /\ aJob.record <= aTree /\ aTree <= aTree /\ <<aTree, b>> # Archive!Absent
      BY <1>1, <2>1, TreeFacts, TextFacts DEF ArchiveInv, Compiled
    <2>4. Compiled'
      BY <1>1, <2>1, <2>2, <2>3 DEF Compiled
    <2> QED BY <1>1, <1>3, <2>1, <2>2, <2>4
  <1>8. CASE Archive!Push
    <2>1. /\ aJob.pc = "push" /\ aJob' = [aJob EXCEPT !.pc = "verify"] /\ aHead' \in {aHead, aTree}
          /\ aRemote' \in {aRemote, aRemote \cup {aHead'}} /\ UNCHANGED <<aTree, aJobs>>
      BY <1>8 DEF Archive!Push, Archive!Goto
    <2>2. /\ aJob' \in [pc : ArchivePlaces, record : Archive!Trees \cup {0}, image : {Archive!Absent} \cup Images]
          /\ aJob'.pc = "verify" /\ aJob'.record = aJob.record /\ aJob'.image = aJob.image
      BY <1>1, <2>1 DEF ArchivePlaces
    <2>3. Compiled'
      BY <2>1, <2>2 DEF ArchiveInv, Compiled
    <2>4. aHead' \in Archive!Trees /\ aRemote' \in SUBSET Archive!Trees /\ aRemote \subseteq aRemote'
      BY <1>1, <2>1
    <2> QED BY <1>1, <1>3, <2>1, <2>2, <2>3, <2>4
  <1>9. CASE Archive!Verify
    <2>1. /\ aJob.pc = "verify" /\ UNCHANGED <<aTree, aHead, aRemote, aJobs>>
          /\ \/ Archive!Committed /\ aJob' = [aJob EXCEPT !.pc = "find"]
             \/ aJob' = Archive!NoJob
      BY <1>9 DEF Archive!Verify, Archive!Goto, Archive!Stop, Archive!checkout
    <2>2. CASE aJob' = Archive!NoJob
      BY <1>1, <1>2, <2>1, <2>2, JobStops
    <2>3. CASE Archive!Committed /\ aJob' = [aJob EXCEPT !.pc = "find"]
      <3>1. /\ aJob' \in [pc : ArchivePlaces, record : Archive!Trees \cup {0}, image : {Archive!Absent} \cup Images]
            /\ aJob'.pc = "find" /\ aJob'.record = aJob.record /\ aJob'.image = aJob.image
        BY <1>1, <2>3 DEF ArchivePlaces
      <3>2. aTree = aJob.record /\ aJob.record \in aRemote
        BY <2>3 DEF Archive!Committed
      <3>3. PICK t \in Archive!Trees, b \in Builds : aJob.image = <<t, b>> /\ aJob.record <= t /\ t <= aTree
        BY <2>1 DEF ArchiveInv, Compiled
      <3>4. t = aJob.record
        BY <1>1, <3>2, <3>3, TreeFacts
      <3>5. Compiled'
        BY <2>1, <3>1, <3>2, <3>3, <3>4 DEF ArchiveInv, Compiled
      <3> QED BY <1>1, <1>3, <2>1, <3>1, <3>5
    <2> QED BY <2>1, <2>2, <2>3
  <1> QED BY <1>4, <1>5, <1>6, <1>7, <1>8, <1>9
-----------------------------------------------------------------------------
\* The job has verified its commit on the remote.
Verified == aJob.pc \notin {"idle", "capture", "build", "push", "verify"}

\* What the job would publish does not depend on the releases.
LEMMA SameBytes ==
    ASSUME aJob'.record = aJob.record, aJob'.image = aJob.image
    PROVE  /\ Archive!Version' = Archive!Version /\ Archive!Metadata' = Archive!Metadata
           /\ Archive!Bytes' = Archive!Bytes
  <1>1. Archive!Version' = Archive!Version
    BY DEF Archive!Version
  <1>2. Archive!Metadata' = Archive!Metadata
    BY <1>1 DEF Archive!Metadata
  <1> QED BY <1>1, <1>2 DEF Archive!Bytes

\* A job that goes on, or ends.
LEMMA JobEither ==
    ASSUME ArchiveInv, Verified, NEW x \in ArchivePlaces \ {"idle", "capture", "build", "push", "verify"},
           \/ aJob' = Archive!NoJob
           \/ aJob' = [aJob EXCEPT !.pc = x] /\ Seen',
           UNCHANGED <<aTree, aHead, aRemote, aJobs, aBoard>>, aFaults' \in 0 .. MaxFaults,
           aRelease' \in [Archive!Versions -> Releases],
           aTag' \in [Archive!Versions -> Archive!Trees \cup {0}],
           aChannel' \in [PointerNames -> {Archive!Absent, Archive!Broken} \cup Metas],
           Archive!Pinned', ChannelPoints'
    PROVE  ArchiveInv'
  <1>1. aJob \in [pc : ArchivePlaces, record : Archive!Trees \cup {0}, image : {Archive!Absent} \cup Images]
    BY DEF ArchiveInv, ArchiveShapes
  <1>2. CASE aJob' = Archive!NoJob
    <2>1. ArchiveShapes'
      BY <1>2, NoArchive DEF ArchiveInv, ArchiveShapes
    <2>2. Compiled' /\ Seen'
      BY <1>2, NoArchive DEF Compiled, Seen
    <2> QED BY <2>1, <2>2 DEF ArchiveInv
  <1>3. CASE aJob' = [aJob EXCEPT !.pc = x] /\ Seen'
    <2>1. /\ aJob' \in [pc : ArchivePlaces, record : Archive!Trees \cup {0}, image : {Archive!Absent} \cup Images]
          /\ aJob'.pc = x /\ aJob'.record = aJob.record /\ aJob'.image = aJob.image
      BY <1>1, <1>3
    <2>2. ArchiveShapes'
      BY <2>1 DEF ArchiveInv, ArchiveShapes
    <2>3. Compiled'
      BY <2>1 DEF ArchiveInv, Compiled, Verified
    <2> QED BY <1>3, <2>2, <2>3 DEF ArchiveInv
  <1> QED BY <1>2, <1>3

\* A step of a verified job that touches no release.
LEMMA JobGoes ==
    ASSUME ArchiveInv, Verified, NEW x \in ArchivePlaces \ {"idle", "capture", "build", "push", "verify"},
           aJob' = [aJob EXCEPT !.pc = x], ArchiveRest, UNCHANGED <<aTree, aHead, aRemote, aJobs, aFaults>>,
           x = "create" => Archive!Ours.state = "none" /\ aTag[Archive!Version] = 0,
           x \in {"check", "upload", "publish"} =>
              /\ Archive!Ours.state \in {"draft", "public"}
              /\ Archive!Ours.target = aJob.record /\ Archive!TagAllows,
           x \in {"upload", "publish"} => Archive!Ours.state = "draft",
           x \in {"publish", "confirm", "channel", "clear", "point"} => Archive!Complete,
           x \in {"confirm", "channel", "clear", "point"} => Archive!Ours.state = "public"
    PROVE  ArchiveInv'
  <1>1. aJob \in [pc : ArchivePlaces, record : Archive!Trees \cup {0}, image : {Archive!Absent} \cup Images]
    BY DEF ArchiveInv, ArchiveShapes
  <1>2. aJob'.pc = x /\ aJob'.record = aJob.record /\ aJob'.image = aJob.image
    BY <1>1
  <1>3. /\ Archive!Version' = Archive!Version /\ Archive!Bytes' = Archive!Bytes
        /\ Archive!Ours' = Archive!Ours
    BY <1>2, SameBytes DEF Archive!Ours, ArchiveRest
  <1>4. Archive!Complete' = Archive!Complete /\ Archive!TagAllows' = Archive!TagAllows
    BY <1>2, <1>3 DEF Archive!Complete, Archive!TagAllows, ArchiveRest
  <1>5. Seen'
    BY <1>2, <1>3, <1>4 DEF Seen, ArchiveRest
  <1>6. Archive!Pinned' /\ ChannelPoints'
    BY DEF ArchiveInv, Archive!Pinned, ChannelPoints, Names, ArchiveRest
  <1>7. /\ aRelease' \in [Archive!Versions -> Releases]
        /\ aTag' \in [Archive!Versions -> Archive!Trees \cup {0}]
        /\ aChannel' \in [PointerNames -> {Archive!Absent, Archive!Broken} \cup Metas]
        /\ aFaults' \in 0 .. MaxFaults /\ UNCHANGED <<aTree, aHead, aRemote, aJobs, aBoard>>
    BY DEF ArchiveInv, ArchiveShapes, ArchiveRest
  <1> QED BY <1>5, <1>6, <1>7, JobEither

\* The steps that only look.
LEMMA JobLooks ==
    ASSUME ArchiveInv,
           \/ Archive!Find \/ Archive!Check \/ Archive!Refuse \/ Archive!Recheck \/ Archive!Confirm
           \/ Archive!Look \/ Archive!Settle
    PROVE  ArchiveInv'
  <1>1. Verified /\ ArchiveRest /\ UNCHANGED <<aTree, aHead, aRemote, aJobs, aFaults>>
    BY DEF Archive!Find, Archive!Check, Archive!Refuse, Archive!Recheck, Archive!Confirm, Archive!Look,
           Archive!Settle, Archive!hub, Archive!checkout, Verified, ArchiveRest
  <1>2. ASSUME Archive!Stop PROVE ArchiveInv'
    BY <1>1, <1>2, JobStops DEF Archive!Stop, ArchiveInv, ArchiveShapes
  <1>3. CASE Archive!Find
    <2>1. \/ Archive!Stop
          \/ /\ Archive!TagAllows /\ Archive!Ours.state = "none" /\ aTag[Archive!Version] = 0
             /\ Archive!Goto("create")
          \/ /\ Archive!TagAllows /\ Archive!Ours.state # "none" /\ Archive!Ours.target = aJob.record
             /\ Archive!Goto("check")
      BY <1>3 DEF Archive!Find
    <2>2. Archive!Ours.state \in {"none", "draft", "public"}
      BY <1>1, JobBytes DEF ArchiveInv, ArchiveShapes, Releases, Archive!Ours, Verified
    <2>3. CASE /\ Archive!Ours.state = "none" /\ aTag[Archive!Version] = 0 /\ Archive!Goto("create")
      BY <1>1, <2>3, JobGoes DEF Archive!Goto, ArchivePlaces
    <2>4. CASE /\ Archive!TagAllows /\ Archive!Ours.state # "none" /\ Archive!Ours.target = aJob.record
               /\ Archive!Goto("check")
      BY <1>1, <2>2, <2>4, JobGoes DEF Archive!Goto, ArchivePlaces
    <2> QED BY <1>2, <2>1, <2>3, <2>4
  <1>4. CASE Archive!Check
    <2>1. \/ Archive!Stop \/ Archive!Goto("refused")
          \/ Archive!Ours.state = "public" /\ Archive!Complete /\ Archive!Goto("channel")
          \/ Archive!Ours.state # "public" /\ Archive!Goto("upload")
      BY <1>4 DEF Archive!Check
    <2>2. /\ Archive!Ours.state \in {"draft", "public"}
          /\ Archive!Ours.target = aJob.record /\ Archive!TagAllows
      BY <1>4 DEF ArchiveInv, Seen, Archive!Check
    <2>3. CASE Archive!Goto("refused")
      BY <1>1, <2>3, JobGoes DEF Archive!Goto, ArchivePlaces
    <2>4. CASE Archive!Ours.state = "public" /\ Archive!Complete /\ Archive!Goto("channel")
      BY <1>1, <2>4, JobGoes DEF Archive!Goto, ArchivePlaces
    <2>5. CASE Archive!Ours.state # "public" /\ Archive!Goto("upload")
      BY <1>1, <2>2, <2>5, JobGoes DEF Archive!Goto, ArchivePlaces
    <2> QED BY <1>2, <2>1, <2>3, <2>4, <2>5
  <1>5. CASE Archive!Recheck
    <2>1. \/ Archive!Stop
          \/ /\ Archive!Complete /\ Archive!Ours.target = aJob.record /\ Archive!Ours.state = "draft"
             /\ Archive!TagAllows /\ Archive!Goto("publish")
      BY <1>5 DEF Archive!Recheck
    <2>2. CASE /\ Archive!Complete /\ Archive!Ours.target = aJob.record /\ Archive!Ours.state = "draft"
               /\ Archive!TagAllows /\ Archive!Goto("publish")
      BY <1>1, <2>2, JobGoes DEF Archive!Goto, ArchivePlaces
    <2> QED BY <1>2, <2>1, <2>2
  <1>6. CASE Archive!Confirm
    <2>1. Archive!Complete /\ Archive!Ours.state = "public"
      BY <1>6 DEF ArchiveInv, Seen, Archive!Confirm
    <2>2. CASE Archive!Goto("channel")
      BY <1>1, <2>1, <2>2, JobGoes DEF Archive!Goto, ArchivePlaces
    <2> QED BY <1>2, <1>6, <2>2 DEF Archive!Confirm
  <1>7. CASE Archive!Look
    <2>1. Archive!Complete /\ Archive!Ours.state = "public"
      BY <1>7 DEF ArchiveInv, Seen, Archive!Look
    <2>2. CASE Archive!Goto("clear")
      BY <1>1, <2>1, <2>2, JobGoes DEF Archive!Goto, ArchivePlaces
    <2> QED BY <1>2, <1>7, <2>2 DEF Archive!Look
  <1>8. CASE Archive!Refuse \/ Archive!Settle
    BY <1>2, <1>8 DEF Archive!Refuse, Archive!Settle
  <1> QED BY <1>3, <1>4, <1>5, <1>6, <1>7, <1>8
-----------------------------------------------------------------------------
\* A public release that is not touched keeps every text that names it.
LEMMA NamesKept ==
    ASSUME ArchiveInv,
           \A v \in Archive!Versions : aRelease[v].state = "public" => aRelease'[v] = aRelease[v]
    PROVE  \A m : Names(m) => Names(m)'
  <1>1. SUFFICES ASSUME NEW m, Names(m) PROVE Names(m)'
    OBVIOUS
  <1>2. m[1] \in Archive!Versions
    BY <1>1, TextFacts DEF Names, Metas
  <1>3. aRelease'[m[1]] = aRelease[m[1]]
    BY <1>1, <1>2 DEF Names
  <1> QED BY <1>1, <1>3 DEF Names

LEMMA PointsKept ==
    ASSUME ArchiveInv, UNCHANGED <<aChannel, aBoard>>,
           \A v \in Archive!Versions : aRelease[v].state = "public" => aRelease'[v] = aRelease[v]
    PROVE  ChannelPoints'
  <1>1. \A m : Names(m) => Names(m)'
    BY NamesKept
  <1> QED BY <1>1 DEF ArchiveInv, ChannelPoints

\* A request was carried out and answered, or the job ends, its work done or not.
LEMMA RequestEnds ==
    ASSUME ArchiveInv, NEW x, NEW done, Archive!Request(x, done)
    PROVE  /\ (done /\ aJob' = [aJob EXCEPT !.pc = x]) \/ aJob' = Archive!NoJob
           /\ aFaults' \in 0 .. MaxFaults
  <1>1. aFaults \in 0 .. MaxFaults
    BY DEF ArchiveInv, ArchiveShapes
  <1> QED BY <1>1, ArchiveAssumption DEF Archive!Request, Archive!Goto, Archive!Stop

\* The fields of the job that its steps change.
LEMMA JobFields ==
    ASSUME ArchiveInv, NEW x, aJob' = [aJob EXCEPT !.pc = x]
    PROVE  /\ aJob'.pc = x /\ aJob'.record = aJob.record /\ aJob'.image = aJob.image
           /\ Archive!Version' = Archive!Version /\ Archive!Bytes' = Archive!Bytes
  <1>1. aJob'.pc = x /\ aJob'.record = aJob.record /\ aJob'.image = aJob.image
    BY DEF ArchiveInv, ArchiveShapes
  <1> QED BY <1>1, SameBytes

\* The draft is created with the job's target, or the job ends.
LEMMA JobCreates == ASSUME ArchiveInv, Archive!Create PROVE ArchiveInv'
  <1>1. PICK done \in BOOLEAN :
           /\ Archive!Request("check", done)
           /\ aRelease' = IF ~done THEN aRelease
                          ELSE [aRelease EXCEPT ![Archive!Version] =
                                  [Archive!NoRelease EXCEPT !.state = "draft", !.target = aJob.record]]
    BY DEF Archive!Create
  <1>2. /\ aJob.pc = "create" /\ UNCHANGED <<aTree, aHead, aRemote, aTag, aChannel, aBoard, aJobs>>
    BY DEF Archive!Create, Archive!checkout
  <1>3. Archive!Ours.state = "none" /\ aTag[Archive!Version] = 0 /\ Verified
    BY <1>2 DEF ArchiveInv, Seen, Verified
  <1>4. Archive!Version \in Archive!Versions /\ aJob.record \in Archive!Trees
        /\ aRelease \in [Archive!Versions -> Releases]
    BY <1>3, JobBytes DEF Verified, ArchiveInv, ArchiveShapes
  <1> DEFINE new == [Archive!NoRelease EXCEPT !.state = "draft", !.target = aJob.record]
  <1>5. new \in Releases /\ new.state = "draft" /\ new.target = aJob.record
    BY <1>4, NoArchive DEF Releases
  <1> HIDE DEF new
  <1>6. aRelease' = aRelease \/ aRelease' = [aRelease EXCEPT ![Archive!Version] = new]
    BY <1>1 DEF new
  <1>7. /\ aRelease' \in [Archive!Versions -> Releases]
        /\ \A v \in Archive!Versions : aRelease[v].state = "public" => aRelease'[v] = aRelease[v]
        /\ \A v \in Archive!Versions : aRelease'[v].state = "public" => aRelease'[v] = aRelease[v]
    BY <1>3, <1>4, <1>5, <1>6 DEF Archive!Ours
  <1>8. Archive!Pinned'
    BY <1>2, <1>7 DEF ArchiveInv, Archive!Pinned
  <1>9. ChannelPoints'
    BY <1>2, <1>7, PointsKept
  <1>10. ASSUME done, aJob' = [aJob EXCEPT !.pc = "check"] PROVE Seen'
    <2>1. /\ aJob'.pc = "check" /\ aJob'.record = aJob.record /\ Archive!Version' = Archive!Version
      BY <1>10, JobFields
    <2>2. aRelease' = [aRelease EXCEPT ![Archive!Version] = new]
      BY <1>1, <1>10 DEF new
    <2>3. Archive!Ours' = new
      BY <1>4, <2>1, <2>2 DEF Archive!Ours
    <2>4. Archive!TagAllows'
      BY <1>2, <1>3, <2>1 DEF Archive!TagAllows
    <2> QED BY <1>5, <2>1, <2>3, <2>4 DEF Seen
  <1>11. /\ aTag' \in [Archive!Versions -> Archive!Trees \cup {0}]
         /\ aChannel' \in [PointerNames -> {Archive!Absent, Archive!Broken} \cup Metas]
    BY <1>2 DEF ArchiveInv, ArchiveShapes
  <1>12. /\ (done /\ aJob' = [aJob EXCEPT !.pc = "check"]) \/ aJob' = Archive!NoJob
         /\ aFaults' \in 0 .. MaxFaults
    BY <1>1, RequestEnds
  <1>13. "check" \in ArchivePlaces \ {"idle", "capture", "build", "push", "verify"}
    BY DEF ArchivePlaces
  <1> QED BY <1>2, <1>3, <1>7, <1>8, <1>9, <1>10, <1>11, <1>12, <1>13, JobEither

\* An asset is stored whole, in part or not at all; the release is a draft.
LEMMA JobUploads == ASSUME ArchiveInv, Archive!Upload PROVE ArchiveInv'
  <1>1. /\ aJob.pc = "upload" /\ UNCHANGED <<aTree, aHead, aRemote, aTag, aChannel, aBoard, aJobs>>
    BY DEF Archive!Upload, Archive!checkout
  <1>2. PICK n : \/ \E done \in BOOLEAN :
                        /\ Archive!Request("upload", done)
                        /\ Archive!Put(<<n, IF done THEN Archive!Bytes[n] ELSE Archive!Absent>>)
                 \/ /\ aFaults < MaxFaults /\ aFaults' = aFaults + 1 /\ Archive!Stop
                    /\ Archive!Put(<<n, Archive!Broken>>)
    BY DEF Archive!Upload
  <1>3. /\ Verified /\ Archive!Ours.state = "draft" /\ Archive!Ours.target = aJob.record /\ Archive!TagAllows
    BY <1>1 DEF ArchiveInv, Seen, Verified
  <1>4. Archive!Version \in Archive!Versions /\ aJob.record \in Archive!Trees
        /\ aRelease \in [Archive!Versions -> Releases] /\ \A a \in AssetNames : Archive!Bytes[a] \in AssetBytes
    BY <1>3, JobBytes DEF Verified, ArchiveInv, ArchiveShapes
  <1>5. PICK bytes : /\ aRelease' = [aRelease EXCEPT ![Archive!Version].assets[n] = bytes]
                     /\ n \in AssetNames => bytes \in AssetBytes
    <2>1. Archive!Absent \in AssetBytes /\ Archive!Broken \in AssetBytes
      BY DEF AssetBytes
    <2>2. \A b : Archive!Put(<<n, b>>) => aRelease' = [aRelease EXCEPT ![Archive!Version].assets[n] = b]
      BY DEF Archive!Put
    <2>3. \/ Archive!Put(<<n, Archive!Bytes[n]>>) \/ Archive!Put(<<n, Archive!Absent>>)
          \/ Archive!Put(<<n, Archive!Broken>>)
      BY <1>2
    <2> QED BY <1>4, <2>1, <2>2, <2>3
  <1> DEFINE new == [aRelease[Archive!Version] EXCEPT !.assets = [@ EXCEPT ![n] = bytes]]
  <1>6. /\ new \in Releases /\ new.state = "draft" /\ new.target = aJob.record
        /\ aRelease' = [aRelease EXCEPT ![Archive!Version] = new]
    <2>1. /\ aRelease[Archive!Version] \in Releases /\ aRelease[Archive!Version].assets \in [AssetNames -> AssetBytes]
          /\ aRelease[Archive!Version].state = "draft" /\ aRelease[Archive!Version].target = aJob.record
      BY <1>3, <1>4 DEF Releases, Archive!Ours
    <2>2. [aRelease[Archive!Version].assets EXCEPT ![n] = bytes] \in [AssetNames -> AssetBytes]
      BY <1>5, <2>1
    <2>3. new \in Releases /\ new.state = "draft" /\ new.target = aJob.record
      BY <2>1, <2>2 DEF Releases
    <2>4. aRelease' = [aRelease EXCEPT ![Archive!Version] = new]
      BY <1>5
    <2> QED BY <2>3, <2>4
  <1> HIDE DEF new
  <1>7. /\ aRelease' \in [Archive!Versions -> Releases]
        /\ \A v \in Archive!Versions : aRelease[v].state = "public" => aRelease'[v] = aRelease[v]
        /\ \A v \in Archive!Versions : aRelease'[v].state = "public" => aRelease'[v] = aRelease[v]
    BY <1>3, <1>4, <1>6 DEF Archive!Ours
  <1>8. Archive!Pinned'
    BY <1>1, <1>7 DEF ArchiveInv, Archive!Pinned
  <1>9. ChannelPoints'
    BY <1>1, <1>7, PointsKept
  <1>10. ASSUME aJob' = [aJob EXCEPT !.pc = "upload"] PROVE Seen'
    <2>1. /\ aJob'.pc = "upload" /\ aJob'.record = aJob.record /\ Archive!Version' = Archive!Version
      BY <1>10, JobFields
    <2>2. Archive!Ours' = new
      BY <1>4, <1>6, <2>1 DEF Archive!Ours
    <2>3. Archive!TagAllows'
      BY <1>1, <1>3, <2>1 DEF Archive!TagAllows
    <2> QED BY <1>6, <2>1, <2>2, <2>3 DEF Seen
  <1>11. /\ aTag' \in [Archive!Versions -> Archive!Trees \cup {0}]
         /\ aChannel' \in [PointerNames -> {Archive!Absent, Archive!Broken} \cup Metas]
         /\ aFaults \in 0 .. MaxFaults
    BY <1>1 DEF ArchiveInv, ArchiveShapes
  <1>12. /\ aJob' = [aJob EXCEPT !.pc = "upload"] \/ aJob' = Archive!NoJob
         /\ aFaults' \in 0 .. MaxFaults
    <2>1. CASE \E done \in BOOLEAN : Archive!Request("upload", done)
      BY <2>1, RequestEnds
    <2>2. CASE aFaults < MaxFaults /\ aFaults' = aFaults + 1 /\ Archive!Stop
      BY <1>11, <2>2, ArchiveAssumption DEF Archive!Stop
    <2> QED BY <1>2, <2>1, <2>2
  <1>13. "upload" \in ArchivePlaces \ {"idle", "capture", "build", "push", "verify"}
    BY DEF ArchivePlaces
  <1> QED BY <1>1, <1>3, <1>7, <1>8, <1>9, <1>10, <1>11, <1>12, <1>13, JobEither
\* The draft becomes public when every asset was read back complete.
LEMMA JobPublishes == ASSUME ArchiveInv, Archive!Publish PROVE ArchiveInv'
  <1>1. PICK done \in BOOLEAN :
           /\ Archive!Request("confirm", done)
           /\ aRelease' = IF done THEN [aRelease EXCEPT ![Archive!Version].state = "public"] ELSE aRelease
           /\ aTag' = IF done /\ aTag[Archive!Version] = 0
                      THEN [aTag EXCEPT ![Archive!Version] = Archive!Ours.target] ELSE aTag
    BY DEF Archive!Publish
  <1>2. /\ aJob.pc = "publish" /\ UNCHANGED <<aTree, aHead, aRemote, aChannel, aBoard, aJobs>>
    BY DEF Archive!Publish, Archive!checkout
  <1>3. /\ Verified /\ Archive!Ours.state = "draft" /\ Archive!Ours.target = aJob.record /\ Archive!TagAllows
        /\ Archive!Complete
    BY <1>2 DEF ArchiveInv, Seen, Verified
  <1>4. /\ Archive!Version \in Archive!Versions /\ aJob.record \in Archive!Trees
        /\ aRelease \in [Archive!Versions -> Releases]
        /\ aTag \in [Archive!Versions -> Archive!Trees \cup {0}]
        /\ aChannel \in [PointerNames -> {Archive!Absent, Archive!Broken} \cup Metas]
    BY <1>3, JobBytes DEF Verified, ArchiveInv, ArchiveShapes
  <1>5. /\ (done /\ aJob' = [aJob EXCEPT !.pc = "confirm"]) \/ aJob' = Archive!NoJob
        /\ aFaults' \in 0 .. MaxFaults
    BY <1>1, RequestEnds
  <1>6. "confirm" \in ArchivePlaces \ {"idle", "capture", "build", "push", "verify"}
    BY DEF ArchivePlaces
  <1>7. CASE ~done
    <2>1. aRelease' = aRelease /\ aTag' = aTag /\ aJob' = Archive!NoJob
      BY <1>1, <1>5, <1>7
    <2> QED BY <1>2, <1>5, <2>1, JobStops DEF ArchiveRest
  <1>8. CASE done
    <2> DEFINE new == [aRelease[Archive!Version] EXCEPT !.state = "public"]
    <2>1. /\ new \in Releases /\ new.state = "public" /\ new.assets = aRelease[Archive!Version].assets
          /\ aRelease' = [aRelease EXCEPT ![Archive!Version] = new]
      <3>1. aRelease[Archive!Version] \in Releases
        BY <1>4
      <3>2. new \in Releases /\ new.state = "public" /\ new.assets = aRelease[Archive!Version].assets
        BY <3>1 DEF Releases
      <3>3. aRelease' = [aRelease EXCEPT ![Archive!Version] = new]
        BY <1>1, <1>8
      <3> QED BY <3>2, <3>3
    <2> HIDE DEF new
    <2>2. /\ aRelease' \in [Archive!Versions -> Releases]
          /\ aRelease'[Archive!Version] = new
          /\ \A v \in Archive!Versions : v # Archive!Version => aRelease'[v] = aRelease[v]
          /\ aRelease[Archive!Version].state = "draft"
      BY <1>3, <1>4, <2>1 DEF Archive!Ours
    <2>3. /\ aTag' \in [Archive!Versions -> Archive!Trees \cup {0}] /\ aTag'[Archive!Version] = aJob.record
          /\ \A v \in Archive!Versions : v # Archive!Version => aTag'[v] = aTag[v]
      BY <1>1, <1>3, <1>4, <1>8 DEF Archive!TagAllows
    <2>4. \A n \in AssetNames : new.assets[n] = Archive!Bytes[n]
      BY <1>3, <2>1, CompleteFields DEF Archive!Ours
    <2>5. Archive!Pinned'
      <3>1. SUFFICES ASSUME NEW v \in Archive!Versions, aRelease'[v].state = "public"
                     PROVE  /\ aTag'[v] \in aRemote /\ VersionOf[aTag'[v]] = v
                            /\ aRelease'[v].assets["build-provenance.json"] = <<aTag'[v]>>
                            /\ \E b \in Builds : /\ aRelease'[v].assets["update.bin"] = <<aTag'[v], b>>
                                                 /\ aRelease'[v].assets["ota.txt"] = <<v, aTag'[v], b>>
        BY <1>2 DEF Archive!Pinned
      <3>2. CASE v # Archive!Version
        BY <2>2, <2>3, <3>1, <3>2 DEF ArchiveInv, Archive!Pinned
      <3>3. CASE v = Archive!Version
        <4>1. /\ aJob.record \in aRemote /\ Archive!Version = VersionOf[aJob.record]
              /\ Archive!Bytes["update.bin"] = aJob.image /\ Archive!Bytes["ota.txt"] = Archive!Metadata
              /\ Archive!Bytes["build-provenance.json"] = <<aJob.record>>
              /\ \E b \in Builds : /\ aJob.image = <<aJob.record, b>>
                                   /\ Archive!Metadata = <<Archive!Version, aJob.record, b>>
          BY <1>3, JobBytes DEF Verified
        <4>2. /\ new.assets["update.bin"] = aJob.image /\ new.assets["ota.txt"] = Archive!Metadata
              /\ new.assets["build-provenance.json"] = <<aJob.record>>
          BY <2>4, <4>1 DEF AssetNames
        <4> QED BY <2>2, <2>3, <3>3, <4>1, <4>2
      <3> QED BY <3>2, <3>3
    <2>6. ChannelPoints'
      BY <1>2, <2>2, PointsKept
    <2>7. ASSUME aJob' = [aJob EXCEPT !.pc = "confirm"] PROVE Seen'
      <3>1. /\ aJob'.pc = "confirm" /\ Archive!Version' = Archive!Version /\ Archive!Bytes' = Archive!Bytes
        BY <2>7, JobFields
      <3>2. Archive!Ours' = new
        BY <2>2, <3>1 DEF Archive!Ours
      <3>3. Archive!Complete'
        BY <2>4, <3>1, <3>2 DEF Archive!Complete, Archive!Assets, AssetNames
      <3> QED BY <2>1, <3>1, <3>2, <3>3 DEF Seen
    <2>8. /\ aChannel' \in [PointerNames -> {Archive!Absent, Archive!Broken} \cup Metas]
      BY <1>2, <1>4
    <2> QED BY <1>2, <1>3, <1>5, <1>6, <2>2, <2>3, <2>5, <2>6, <2>7, <2>8, JobEither
  <1> QED BY <1>7, <1>8

-----------------------------------------------------------------------------
\* What the job writes to the channel: nothing, half a file, or a text that
\* names its own public archive.
LEMMA JobPoints ==
    ASSUME ArchiveInv, aJob.pc \in {"clear", "point"}, UNCHANGED <<aTree, aHead, aRemote, aJobs, aBoard, aRelease, aTag>>,
           aFaults' \in 0 .. MaxFaults, NEW x \in {"clear", "point"},
           aJob' = Archive!NoJob \/ aJob' = [aJob EXCEPT !.pc = x],
           NEW n, NEW bytes, aChannel' = [aChannel EXCEPT ![n] = bytes],
           n \in PointerNames => bytes \in {Archive!Absent, Archive!Broken, aChannel[n], Archive!Metadata}
    PROVE  ArchiveInv'
  <1>1. /\ Verified /\ Archive!Ours.state = "public" /\ Archive!Complete
    BY DEF ArchiveInv, Seen, Verified
  <1>2. /\ aRelease' \in [Archive!Versions -> Releases]
        /\ aTag' \in [Archive!Versions -> Archive!Trees \cup {0}]
        /\ aChannel \in [PointerNames -> {Archive!Absent, Archive!Broken} \cup Metas]
    BY DEF ArchiveInv, ArchiveShapes
  <1>3. Names(Archive!Metadata)
    <2>1. /\ Archive!Metadata \in Metas /\ Archive!Metadata[1] = Archive!Version
          /\ Tail(Archive!Metadata) = aJob.image
          /\ Archive!Bytes["update.bin"] = aJob.image /\ Archive!Bytes["ota.txt"] = Archive!Metadata
      BY <1>1, JobBytes DEF Verified
    <2>2. Archive!Ours.assets["ota.txt"] = Archive!Metadata /\ Archive!Ours.assets["update.bin"] = aJob.image
      BY <1>1, <2>1, CompleteFields DEF AssetNames
    <2> QED BY <1>1, <2>1, <2>2 DEF Names, Archive!Ours
  <1>4. Archive!Metadata \in Metas
    BY <1>3 DEF Names
  <1>5. aChannel' \in [PointerNames -> {Archive!Absent, Archive!Broken} \cup Metas]
    BY <1>2, <1>4
  <1>6. Archive!Pinned'
    BY DEF ArchiveInv, Archive!Pinned
  <1>7. \A m : Names(m)' = Names(m)
    BY DEF Names
  <1>8. \A k \in PointerNames : aChannel'[k] \in {Archive!Absent, Archive!Broken} \/ Names(aChannel'[k])
    <2>1. \A k \in PointerNames : aChannel[k] \in {Archive!Absent, Archive!Broken} \/ Names(aChannel[k])
      BY DEF ArchiveInv, ChannelPoints
    <2>2. \A k \in PointerNames : aChannel'[k] = IF k = n THEN bytes ELSE aChannel[k]
      BY <1>2
    <2> QED BY <1>3, <2>1, <2>2
  <1>9. ChannelPoints'
    BY <1>7, <1>8 DEF ArchiveInv, ChannelPoints
  <1>10. ASSUME aJob' = [aJob EXCEPT !.pc = x] PROVE Seen'
    <2>1. /\ aJob'.pc = x /\ Archive!Version' = Archive!Version /\ Archive!Bytes' = Archive!Bytes
      BY <1>10, JobFields
    <2>2. Archive!Ours' = Archive!Ours
      BY <2>1 DEF Archive!Ours
    <2>3. Archive!Complete'
      BY <1>1, <2>1, <2>2 DEF Archive!Complete
    <2> QED BY <1>1, <2>1, <2>2, <2>3 DEF Seen
  <1>11. x \in ArchivePlaces \ {"idle", "capture", "build", "push", "verify"}
    BY DEF ArchivePlaces
  <1> QED BY <1>1, <1>2, <1>5, <1>6, <1>9, <1>10, <1>11, JobEither

\* The channel loses a pointer.
LEMMA JobClears == ASSUME ArchiveInv, Archive!Clear PROVE ArchiveInv'
  <1>1. /\ aJob.pc = "clear" /\ UNCHANGED <<aTree, aHead, aRemote, aRelease, aTag, aBoard, aJobs>>
    BY DEF Archive!Clear, Archive!checkout
  <1>2. CASE Archive!Goto("point") /\ UNCHANGED <<aChannel, aFaults>>
    <2>1. Archive!Complete /\ Archive!Ours.state = "public" /\ Verified
      BY <1>1 DEF ArchiveInv, Seen, Verified
    <2> QED BY <1>1, <1>2, <2>1, JobGoes DEF Archive!Goto, ArchivePlaces, ArchiveRest
  <1>3. ASSUME NEW n, NEW done \in BOOLEAN, Archive!Request("clear", done),
               Archive!Write(n, IF done THEN Archive!Absent ELSE aChannel[n])
        PROVE  ArchiveInv'
    <2>1. PICK bytes : aChannel' = [aChannel EXCEPT ![n] = bytes] /\ bytes \in {Archive!Absent, aChannel[n]}
      BY <1>3 DEF Archive!Write
    <2>2. /\ aJob' = Archive!NoJob \/ aJob' = [aJob EXCEPT !.pc = "clear"]
          /\ aFaults' \in 0 .. MaxFaults
      BY <1>3, RequestEnds
    <2> QED BY <1>1, <2>1, <2>2, JobPoints
  <1>4. \/ Archive!Goto("point") /\ UNCHANGED <<aChannel, aFaults>>
        \/ \E n : \E done \in BOOLEAN :
              Archive!Request("clear", done) /\ Archive!Write(n, IF done THEN Archive!Absent ELSE aChannel[n])
    BY DEF Archive!Clear
  <1> QED BY <1>2, <1>3, <1>4

\* The channel gets a pointer, which names the job's public archive.
LEMMA JobWritesPointer == ASSUME ArchiveInv, Archive!Point PROVE ArchiveInv'
  <1>1. /\ aJob.pc = "point" /\ UNCHANGED <<aTree, aHead, aRemote, aRelease, aTag, aBoard, aJobs>>
    BY DEF Archive!Point, Archive!checkout
  <1>2. PICK n : \/ \E done \in BOOLEAN :
                        /\ Archive!Request("point", done)
                        /\ Archive!Write(n, IF done THEN Archive!Bytes[n] ELSE Archive!Absent)
                 \/ /\ aFaults < MaxFaults /\ aFaults' = aFaults + 1 /\ Archive!Stop
                    /\ Archive!Write(n, Archive!Broken)
    BY DEF Archive!Point
  <1>3. aFaults \in 0 .. MaxFaults
    BY DEF ArchiveInv, ArchiveShapes
  <1>4. /\ aJob' = Archive!NoJob \/ aJob' = [aJob EXCEPT !.pc = "point"]
        /\ aFaults' \in 0 .. MaxFaults
    <2>1. CASE \E done \in BOOLEAN : Archive!Request("point", done)
      BY <2>1, RequestEnds
    <2>2. CASE aFaults < MaxFaults /\ aFaults' = aFaults + 1 /\ Archive!Stop
      BY <1>3, <2>2, ArchiveAssumption DEF Archive!Stop
    <2> QED BY <1>2, <2>1, <2>2
  <1>5. n \in PointerNames => Archive!Bytes[n] = Archive!Metadata
    BY DEF PointerNames, Archive!Bytes
  <1>6. PICK bytes : /\ aChannel' = [aChannel EXCEPT ![n] = bytes]
                     /\ bytes \in {Archive!Absent, Archive!Broken, Archive!Bytes[n]}
    BY <1>2 DEF Archive!Write
  <1>7. n \in PointerNames => bytes \in {Archive!Absent, Archive!Broken, aChannel[n], Archive!Metadata}
    BY <1>5, <1>6
  <1> QED BY <1>1, <1>4, <1>6, <1>7, JobPoints

\* A job may end anywhere, and leaves what it did.
LEMMA JobDies == ASSUME ArchiveInv, Archive!Die PROVE ArchiveInv'
  <1>1. /\ aFaults < MaxFaults /\ aFaults' = aFaults + 1 /\ aJob' = Archive!NoJob /\ ArchiveRest
        /\ UNCHANGED <<aTree, aHead, aRemote, aJobs>>
    BY DEF Archive!Die, Archive!Stop, Archive!checkout, Archive!hub, ArchiveRest
  <1>2. aFaults' \in 0 .. MaxFaults
    BY <1>1, ArchiveAssumption DEF ArchiveInv, ArchiveShapes
  <1> QED BY <1>1, <1>2, JobStops

\* A board reads the text, then its signature, and trusts what both name.
LEMMA BoardReads == ASSUME ArchiveInv, Archive!ReadText \/ Archive!ReadSignature PROVE ArchiveInv'
  <1>1. /\ UNCHANGED <<aTree, aHead, aRemote, aJob, aRelease, aTag, aChannel, aJobs, aFaults>>
    BY DEF Archive!ReadText, Archive!ReadSignature, Archive!checkout, Archive!hub
  <1>2. /\ aBoard \in [read : {Archive!Absent} \cup Metas, target : {Archive!Absent} \cup Metas]
        /\ aChannel["ota.txt"] \in {Archive!Absent, Archive!Broken} \/ Names(aChannel["ota.txt"])
        /\ aBoard.read = Archive!Absent \/ Names(aBoard.read)
        /\ aBoard.target = Archive!Absent \/ Names(aBoard.target)
    BY DEF ArchiveInv, ArchiveShapes, ChannelPoints, PointerNames
  <1>3. /\ aBoard' \in [read : {Archive!Absent} \cup Metas, target : {Archive!Absent} \cup Metas]
        /\ aBoard'.read = Archive!Absent \/ Names(aBoard'.read)
        /\ aBoard'.target = Archive!Absent \/ Names(aBoard'.target)
    <2>1. CASE Archive!ReadText
      <3>1. Names(aChannel["ota.txt"]) /\ aBoard' = [aBoard EXCEPT !.read = aChannel["ota.txt"]]
        BY <1>2, <2>1 DEF Archive!ReadText
      <3>2. aChannel["ota.txt"] \in Metas
        BY <3>1 DEF Names
      <3> QED BY <1>2, <3>1, <3>2
    <2>2. CASE Archive!ReadSignature
      <3>1. \/ aBoard' = [read |-> Archive!Absent, target |-> aBoard.read]
            \/ aBoard' = [read |-> Archive!Absent, target |-> aBoard.target]
        BY <2>2 DEF Archive!ReadSignature
      <3> QED BY <1>2, <3>1
    <2> QED BY <2>1, <2>2
  <1>4. ArchiveShapes'
    BY <1>1, <1>3 DEF ArchiveInv, ArchiveShapes
  <1>5. Compiled'
    BY <1>1 DEF ArchiveInv, Compiled
  <1>6. Seen'
    <2>1. /\ Archive!Version' = Archive!Version /\ Archive!Bytes' = Archive!Bytes /\ Archive!Ours' = Archive!Ours
      BY <1>1, SameBytes DEF Archive!Ours
    <2>2. Archive!Complete' = Archive!Complete /\ Archive!TagAllows' = Archive!TagAllows
      BY <1>1, <2>1 DEF Archive!Complete, Archive!TagAllows
    <2> QED BY <1>1, <2>1, <2>2 DEF ArchiveInv, Seen
  <1>7. Archive!Pinned'
    BY <1>1 DEF ArchiveInv, Archive!Pinned
  <1>8. ChannelPoints'
    <2>1. \A m : Names(m)' = Names(m)
      BY <1>1 DEF Names
    <2> QED BY <1>1, <1>3, <2>1 DEF ArchiveInv, ChannelPoints
  <1> QED BY <1>4, <1>5, <1>6, <1>7, <1>8 DEF ArchiveInv

\* Every step of the scripts and the boards keeps the invariant.
LEMMA ArchiveNext == ASSUME ArchiveInv, [Archive!Next]_Archive!vars PROVE ArchiveInv'
  <1>1. CASE \/ \E t \in Archive!Trees : Archive!Begin(t)
             \/ Archive!Edit \/ Archive!Capture \/ (\E b \in Builds : Archive!Build(b))
             \/ Archive!Push \/ Archive!Verify
    BY <1>1, JobPrepares
  <1>2. CASE \/ Archive!Find \/ Archive!Check \/ Archive!Refuse \/ Archive!Recheck \/ Archive!Confirm
             \/ Archive!Look \/ Archive!Settle
    BY <1>2, JobLooks
  <1>3. CASE Archive!Create \/ Archive!Upload \/ Archive!Publish
    BY <1>3, JobCreates, JobUploads, JobPublishes
  <1>4. CASE Archive!Clear \/ Archive!Point \/ Archive!Die
    BY <1>4, JobClears, JobWritesPointer, JobDies
  <1>5. CASE Archive!ReadText \/ Archive!ReadSignature
    BY <1>5, BoardReads
  <1>6. CASE UNCHANGED Archive!vars
    <2>1. UNCHANGED <<aTree, aHead, aRemote, aJob, aRelease, aTag, aChannel, aBoard, aJobs, aFaults>>
      BY <1>6 DEF Archive!vars
    <2>2. ArchiveShapes' /\ Compiled'
      BY <2>1 DEF ArchiveInv, ArchiveShapes, Compiled
    <2>3. /\ Archive!Version' = Archive!Version /\ Archive!Bytes' = Archive!Bytes /\ Archive!Ours' = Archive!Ours
      BY <2>1, SameBytes DEF Archive!Ours
    <2>4. Archive!Complete' = Archive!Complete /\ Archive!TagAllows' = Archive!TagAllows
      BY <2>1, <2>3 DEF Archive!Complete, Archive!TagAllows
    <2>5. Seen'
      BY <2>1, <2>3, <2>4 DEF ArchiveInv, Seen
    <2>6. Archive!Pinned' /\ ChannelPoints'
      BY <2>1 DEF ArchiveInv, Archive!Pinned, ChannelPoints, Names
    <2> QED BY <2>2, <2>5, <2>6 DEF ArchiveInv
  <1> QED BY <1>1, <1>2, <1>3, <1>4, <1>5, <1>6 DEF Archive!Next

\* Every reachable state of the archive and its channel satisfies the invariant.
THEOREM ArchiveInvHolds == Archive!Spec => []ArchiveInv
  <1> QED BY ArchiveInit, ArchiveNext, PTL DEF Archive!Spec

\* A public archive is whole, of one build of its commit, and stays so; what a board
\* accepts from the channel names a public archive with that image
\* (archive_iotglove_release.py).
THEOREM ArchivedHolds == Archive!Spec => []Archived
  <1> QED BY ArchiveTypes, ArchiveInvHolds, PTL

-----------------------------------------------------------------------------
(***************************************************************************)
(* The update of a tag machine's boards (BeetleOta)                        *)
(***************************************************************************)
\* The types of a Beetle's record, of a Beetle, of the lines and of the coordinator.
Results == {"Accepted", "Flashing", "Updated", "Skipped", "Failed"}
Final == {"Updated", "Skipped", "Failed"}
BoardRecords == [request : Nat, target : Nat, oldFw : Nat, oldBoot : Nat, result : Results]
AnyRecord == {Beetles!NoRecord} \cup BoardRecords
Workers == {"none", "begun", "flashing", "committed", "leaving", "ended"}
Beetle == [fw : Nat, image : Nat, boot : Nat \ {0}, stored : AnyRecord, last : AnyRecord,
           worker : Workers, told : {<<>>} \cup {<<r>> : r \in BoardRecords}, rfid : BOOLEAN]

QueryLines == [kind : {"query"}, request : Nat]
UpdateLines == [kind : {"update"}, request : Nat, target : Nat]
DownLines == QueryLines \cup UpdateLines \cup [kind : {"probe"}]
VersionLines == [kind : {"version"}, request : Nat, fw : Nat, boot : Nat \ {0}]
OutcomeLines == [kind : {"outcome"}, request : Nat, result : Results \cup {"PeerBusy"},
                 fw : Nat, boot : Nat \ {0}]
UpLines == VersionLines \cup OutcomeLines \cup [kind : {"hello", "error", "ready"}]

AnyOrder == Beetles!Orders \cup {Beetles!NoOrder}
Stages == {"Idle", "DiscoverMain", "UpdateMain", "DiscoverSub", "UpdateSub", "ReadyForTtgo", "Failed"}
Coordinators ==
    [stage : Stages, at : {"loop", "check", "write", "reread"}, my : AnyOrder, cur : AnyOrder,
     queued : BOOLEAN, expected : AnyOrder, cancel : BOOLEAN,
     failures : [Beetles!Boards -> 0 .. BoardAttempts - 1], retry : BOOLEAN, probe : BOOLEAN,
     fresh : BOOLEAN, clearing : BOOLEAN]
Peers ==
    [state : {"discovering", "capable", "waiting", "ready", "failed"}, request : Nat \ {0}, target : Nat,
     fw : Nat, boot : Nat, oldFw : Nat, oldBoot : Nat, seen : BOOLEAN, proof : BOOLEAN,
     updated : {<<>>} \cup (Nat \X (Nat \ {0})), skipped : Nat]

Board == Beetles!Boards
CoordinatorShapes ==
    /\ bServer \in [order : AnyOrder, safe : BOOLEAN]
    /\ bTtgo \in Coordinators
    /\ bPeer \in {Beetles!NoPeer} \cup Peers
    /\ bSaved \in AnyOrder /\ bInstalled \in BOOLEAN
    /\ bRequests \in Nat /\ bRestarted \in BOOLEAN
BoardShapes ==
    /\ bBeetle \in [Board -> Beetle] /\ bUnstored \in BOOLEAN
    /\ bDown \in [Board -> Seq(DownLines)] /\ bUp \in [Board -> Seq(UpLines)]
    /\ \A b \in Board : Len(bDown[b]) <= Depth

Updates(d) == {l \in Range(d) : l.kind = "update"}

\* The task of a Beetle: the record in hand is the one it answers for, the partition is
\* switched only by a task that ends in a restart, and what loop() has not heard yet
\* is the task's last word.
TaskHonest(x) ==
    /\ x.stored.request = x.last.request
    /\ x.worker # "none" => x.stored \in BoardRecords /\ x.last \in BoardRecords
                            /\ x.last.result \notin Final
    /\ x.worker \notin {"committed", "leaving"} => x.image = x.fw
    /\ x.worker \notin {"leaving", "ended"} => x.told = <<>>
    /\ x.told # <<>> => x.told[1].request = x.last.request
    /\ x.worker = "leaving" => x.told = <<>> \/ x.told[1].result = "Flashing"
    /\ x.worker = "ended" => x.told # <<>> /\ x.told[1].result \in Final

\* A line that says an attempt is over says it of the Beetle's last request, and the
\* Beetle rests with the version in the line; unless a request could not be stored.
LineHonest(l, x, lost) ==
    l.kind = "outcome" =>
        \/ l.result = "PeerBusy"
        \/ l.result = "Failed" /\ lost
        \/ /\ l.request = x.last.request
           /\ l.result \in Final => x.worker = "none" /\ l.fw = x.fw

\* Behind a question no older command is on its way.
Sorted(d) ==
    \A i, j \in 1 .. Len(d) :
        i < j /\ d[i].kind = "query" /\ d[j].kind = "update" => d[i].request <= d[j].request

\* Commands arrive in the order of their requests, and behind an answer none is on its
\* way that is older than the question.
InOrder(x, d, u, n) ==
    /\ Sorted(d)
    /\ \A l \in Range(d) : l.kind # "probe" => l.request >= 1 /\ l.request <= n
    /\ \A l \in Range(u) : l.kind = "version" =>
          l.request >= 1 /\ l.request <= n /\ \A c \in Updates(d) : l.request <= c.request
    /\ x.last.request <= n

Honest(x, d, u, n, lost) ==
    TaskHonest(x) /\ (\A l \in Range(u) : LineHonest(l, x, lost)) /\ InOrder(x, d, u, n)

BoardsHonest == \A b \in Board : Honest(bBeetle[b], bDown[b], bUp[b], bRequests, bUnstored)

\* At rest, and no command on its way would begin another attempt.
Rests(x, d) == x.worker = "none" /\ \A c \in Updates(d) : c.request = x.last.request

\* What the coordinator knows of the board in hand.
InHand == Beetles!Board(bTtgo.stage)
Answered == bBeetle[InHand].last.request = bRequests /\ bBeetle[InHand].worker = "none"
PeerKnows ==
    /\ bPeer # Beetles!NoPeer => bPeer.request = bRequests
    /\ bPeer.state \in {"capable", "waiting", "ready", "failed"} => bPeer.boot >= 1
    /\ bPeer.state \in {"discovering", "capable"} => bPeer.updated = <<>> /\ bPeer.skipped = 0
    /\ Beetles!Discovering =>
          /\ bPeer.state \in {"idle", "discovering", "capable"}
          /\ bTtgo.retry <=> bPeer = Beetles!NoPeer
          /\ bPeer.state = "capable" => \A c \in Updates(bDown[InHand]) : c.request = bRequests
    /\ Beetles!Updating =>
          /\ bPeer.state \in {"waiting", "ready", "failed"} /\ bPeer.target = Beetles!Target
          /\ \A c \in Updates(bDown[InHand]) : c.request = bRequests
          /\ bPeer.updated # <<>> \/ bPeer.skipped # 0 \/ bPeer.state = "ready" =>
                Answered /\ bBeetle[InHand].fw = bPeer.target
          /\ bPeer.state = "failed" /\ ~bUnstored => Answered

\* The boards the sequence is done with.
Behind == IF bTtgo.stage \in {"DiscoverSub", "UpdateSub"} THEN {"main"}
          ELSE IF bTtgo.stage = "ReadyForTtgo" THEN {"main", "sub"} ELSE {}
BoardsBehind == \A b \in Behind : Rests(bBeetle[b], bDown[b]) /\ bBeetle[b].fw = Beetles!Target

\* Only the board in hand may be at work.
OthersRest ==
    ~bRestarted /\ ~bUnstored =>
        \A b \in Board : Rests(bBeetle[b], bDown[b]) \/ (Beetles!Updating /\ b = InHand)

\* The phases of an order.
Phases ==
    /\ bTtgo.at = "check" => bTtgo.stage = "ReadyForTtgo"
    /\ bTtgo.clearing => bTtgo.stage = "Idle"
    /\ bTtgo.stage # "Idle" \/ bTtgo.queued => bTtgo.expected \in Beetles!Orders

CoordinatorInv == PeerKnows /\ BoardsBehind /\ OthersRest /\ Phases
BeetleInv == CoordinatorShapes /\ BoardShapes /\ BoardsHonest /\ CoordinatorInv

-----------------------------------------------------------------------------
\* What the lines' operators do to the set of the lines.
LEMMA LinesOf ==
    ASSUME NEW S, NEW s \in Seq(S)
    PROVE  Range(s) \subseteq S /\ Range(s) = {s[i] : i \in 1 .. Len(s)}
  BY DEF Range

\* Lines in a row: one, none, one more, all but the first, two rows.
LEMMA LinesOne ==
    ASSUME NEW S, NEW x \in S
    PROVE  <<x>> \in Seq(S) /\ Len(<<x>>) = 1 /\ Range(<<x>>) = {x} /\ <<x>>[1] = x
           /\ Head(<<x>>) = x /\ Tail(<<x>>) = <<>> /\ <<x>> # <<>>
  BY DEF Range

LEMMA LinesNone == ASSUME NEW S PROVE <<>> \in Seq(S) /\ Len(<<>>) = 0 /\ Range(<<>>) = {}
  BY DEF Range

LEMMA LinesAppend ==
    ASSUME NEW S, NEW s \in Seq(S), NEW x \in S
    PROVE  /\ Append(s, x) \in Seq(S) /\ Len(Append(s, x)) = Len(s) + 1
           /\ Range(Append(s, x)) = Range(s) \cup {x}
  <1>1. /\ Append(s, x) \in Seq(S) /\ Len(Append(s, x)) = Len(s) + 1 /\ Len(s) \in Nat
        /\ \A i \in 1 .. Len(s) : Append(s, x)[i] = s[i]
        /\ Append(s, x)[Len(s) + 1] = x
    OBVIOUS
  <1>2. /\ Range(s) = {s[i] : i \in 1 .. Len(s)}
        /\ Range(Append(s, x)) = {Append(s, x)[i] : i \in 1 .. Len(s) + 1}
    BY <1>1, LinesOf
  <1> QED BY <1>1, <1>2

LEMMA LinesTail ==
    ASSUME NEW S, NEW s \in Seq(S), s # <<>>
    PROVE  /\ Head(s) \in S /\ Tail(s) \in Seq(S) /\ Len(Tail(s)) = Len(s) - 1
           /\ Range(Tail(s)) \subseteq Range(s) /\ Head(s) \in Range(s) /\ Head(s) = s[1]
           /\ Len(s) \in Nat \ {0}
  <1>1. /\ Head(s) \in S /\ Tail(s) \in Seq(S) /\ Len(Tail(s)) = Len(s) - 1
        /\ \A i \in 1 .. Len(Tail(s)) : Tail(s)[i] = s[i + 1]
    BY HeadTailProperties
  <1>2. Len(s) \in Nat \ {0} /\ Head(s) = s[1]
    BY EmptySeq
  <1>3. /\ Range(s) = {s[i] : i \in 1 .. Len(s)}
        /\ Range(Tail(s)) = {Tail(s)[i] : i \in 1 .. Len(s) - 1}
    BY <1>1, LinesOf
  <1>4. \A i \in 1 .. Len(s) - 1 : i + 1 \in 1 .. Len(s)
    BY <1>2
  <1> QED BY <1>1, <1>2, <1>3, <1>4

LEMMA LinesConcat ==
    ASSUME NEW S, NEW s \in Seq(S), NEW t \in Seq(S)
    PROVE  s \o t \in Seq(S) /\ Range(s \o t) = Range(s) \cup Range(t)
  <1>1. /\ s \o t \in Seq(S) /\ Len(s \o t) = Len(s) + Len(t) /\ Len(s) \in Nat /\ Len(t) \in Nat
        /\ \A i \in 1 .. Len(s) + Len(t) :
              (s \o t)[i] = IF i <= Len(s) THEN s[i] ELSE t[i - Len(s)]
    BY ConcatProperties
  <1>2. /\ Range(s) = {s[i] : i \in 1 .. Len(s)} /\ Range(t) = {t[i] : i \in 1 .. Len(t)}
        /\ Range(s \o t) = {(s \o t)[i] : i \in 1 .. Len(s) + Len(t)}
    BY <1>1, LinesOf
  <1>3. ASSUME NEW i \in 1 .. Len(s) PROVE i \in 1 .. Len(s) + Len(t) /\ (s \o t)[i] = s[i]
    BY <1>1
  <1>4. ASSUME NEW i \in 1 .. Len(t)
        PROVE  Len(s) + i \in 1 .. Len(s) + Len(t) /\ (s \o t)[Len(s) + i] = t[i]
    BY <1>1
  <1>5. ASSUME NEW i \in 1 .. Len(s) + Len(t)
        PROVE  (s \o t)[i] \in Range(s) \cup Range(t)
    <2>1. CASE i <= Len(s)
      BY <2>1, <1>1, <1>2
    <2>2. CASE i > Len(s)
      <3>1. i - Len(s) \in 1 .. Len(t)
        BY <1>1, <2>2
      <3> QED BY <3>1, <2>2, <1>1, <1>2
    <2> QED BY <2>1, <2>2, <1>1
  <1>6. Range(s) \subseteq Range(s \o t)
    BY <1>2, <1>3
  <1>7. Range(t) \subseteq Range(s \o t)
    BY <1>2, <1>4
  <1>8. Range(s \o t) \subseteq Range(s) \cup Range(t)
    BY <1>2, <1>5
  <1> QED BY <1>1, <1>6, <1>7, <1>8

\* The order of the commands survives the first being read or lost, and a newer one.
LEMMA SortedTail ==
    ASSUME NEW s \in Seq(DownLines), s # <<>>, Sorted(s)
    PROVE  /\ Sorted(Tail(s))
           /\ Head(s).kind = "query" => \A c \in Updates(Tail(s)) : Head(s).request <= c.request
  <1>1. /\ Tail(s) \in Seq(DownLines) /\ Len(Tail(s)) = Len(s) - 1 /\ Head(s) = s[1] /\ Len(s) \in Nat \ {0}
        /\ \A i \in 1 .. Len(Tail(s)) : Tail(s)[i] = s[i + 1]
    BY LinesTail, HeadTailProperties
  <1>2. Sorted(Tail(s))
    <2>1. SUFFICES ASSUME NEW i \in 1 .. Len(Tail(s)), NEW j \in 1 .. Len(Tail(s)), i < j,
                          Tail(s)[i].kind = "query", Tail(s)[j].kind = "update"
                   PROVE  Tail(s)[i].request <= Tail(s)[j].request
      BY DEF Sorted
    <2>2. i + 1 \in 1 .. Len(s) /\ j + 1 \in 1 .. Len(s) /\ i + 1 < j + 1
      BY <1>1, <2>1
    <2> QED BY <1>1, <2>1, <2>2 DEF Sorted
  <1>3. ASSUME Head(s).kind = "query", NEW c \in Updates(Tail(s)) PROVE Head(s).request <= c.request
    <2>1. PICK j \in 1 .. Len(Tail(s)) : c = Tail(s)[j] /\ c.kind = "update"
      <3>1. c \in Range(Tail(s)) /\ c.kind = "update"
        BY <1>3 DEF Updates
      <3>2. Range(Tail(s)) = {Tail(s)[i] : i \in 1 .. Len(Tail(s))}
        BY <1>1, LinesOf
      <3> QED BY <3>1, <3>2
    <2>2. j + 1 \in 1 .. Len(s) /\ 1 \in 1 .. Len(s) /\ 1 < j + 1
      BY <1>1, <2>1
    <2>3. c = s[j + 1]
      BY <1>1, <2>1
    <2> QED BY <1>1, <1>3, <2>1, <2>2, <2>3 DEF Sorted
  <1> QED BY <1>2, <1>3

\* A command added behind the others.
LEMMA SortedAppend ==
    ASSUME NEW s \in Seq(DownLines), NEW x \in DownLines, Sorted(s),
           x.kind = "update" => \A l \in Range(s) : l.kind = "query" => l.request <= x.request
    PROVE  Sorted(Append(s, x))
  <1>1. /\ Append(s, x) \in Seq(DownLines) /\ Len(Append(s, x)) = Len(s) + 1 /\ Len(s) \in Nat
        /\ \A i \in 1 .. Len(s) : Append(s, x)[i] = s[i]
        /\ Append(s, x)[Len(s) + 1] = x
    OBVIOUS
  <1>2. SUFFICES ASSUME NEW i \in 1 .. Len(s) + 1, NEW j \in 1 .. Len(s) + 1, i < j,
                        Append(s, x)[i].kind = "query", Append(s, x)[j].kind = "update"
                 PROVE  Append(s, x)[i].request <= Append(s, x)[j].request
    BY <1>1 DEF Sorted
  <1>3. i \in 1 .. Len(s) /\ Append(s, x)[i] = s[i]
    BY <1>1, <1>2
  <1>4. CASE j \in 1 .. Len(s)
    BY <1>1, <1>2, <1>3, <1>4 DEF Sorted
  <1>5. CASE j = Len(s) + 1
    <2>1. s[i] \in Range(s)
      BY <1>3, LinesOf
    <2> QED BY <1>1, <1>2, <1>3, <1>5, <2>1
  <1> QED BY <1>1, <1>2, <1>4, <1>5

-----------------------------------------------------------------------------
\* The invariant implies the property and its module's types.
LEMMA BeetleTypes == ASSUME BeetleInv PROVE BeetlesSafe
  <1>1. /\ bTtgo \in Coordinators /\ bServer \in [order : AnyOrder, safe : BOOLEAN]
        /\ bSaved \in AnyOrder /\ bInstalled \in BOOLEAN
        /\ \A b \in Board : bBeetle[b] \in Beetle /\ Len(bDown[b]) <= Depth
    BY DEF BeetleInv, CoordinatorShapes, BoardShapes
  <1>2. bPeer.state \in {"idle", "discovering", "capable", "waiting", "ready", "failed"}
    BY DEF BeetleInv, CoordinatorShapes, Peers, Beetles!NoPeer
  <1>3. ASSUME NEW b \in Board
        PROVE  /\ bBeetle[b].worker \in Workers /\ bBeetle[b].image \in Nat
               /\ bBeetle[b].worker # "none" => bBeetle[b].stored # Beetles!NoRecord
    <2>1. bBeetle[b] \in Beetle /\ TaskHonest(bBeetle[b])
      BY <1>1 DEF BeetleInv, BoardsHonest, Honest
    <2> QED BY <2>1 DEF Beetle, TaskHonest, BoardRecords, Beetles!NoRecord
  <1>4. ASSUME NEW b \in Board PROVE Len(bBeetle[b].told) <= 1
    <2>1. bBeetle[b].told = <<>> \/ \E r \in BoardRecords : bBeetle[b].told = <<r>>
      BY <1>1 DEF Beetle
    <2>2. CASE bBeetle[b].told = <<>>
      BY <2>2, LinesNone
    <2>3. ASSUME NEW r \in BoardRecords, bBeetle[b].told = <<r>> PROVE Len(bBeetle[b].told) <= 1
      BY <2>3, LinesOne
    <2> QED BY <2>1, <2>2, <2>3
  <1>5. Beetles!TypeOK
    BY <1>1, <1>2, <1>3, <1>4 DEF Beetles!TypeOK, Coordinators, Stages, AnyOrder, Workers, Board
  <1>6. Beetles!BeetlesFirst
    BY DEF BeetleInv, CoordinatorInv, Phases, BoardsBehind, Behind, Rests, Beetles!BeetlesFirst,
           Beetles!Boards, Beetles!Busy
  <1>7. Beetles!ReleasedIsQuiet
    BY DEF BeetleInv, CoordinatorInv, OthersRest, Rests, Beetles!ReleasedIsQuiet, Board, Beetles!Busy,
           Beetles!Active, Beetles!Updating
  <1> QED BY <1>5, <1>6, <1>7 DEF BeetlesSafe

\* It holds when the boards start, with nothing on its way.
LEMMA BeetleInit == ASSUME Beetles!Init PROVE BeetleInv
  <1> USE DEF Beetles!Init
  <1>1. /\ bTtgo = Beetles!Reset /\ bPeer = Beetles!NoPeer
        /\ bTtgo.stage = "Idle" /\ bTtgo.at = "loop" /\ ~bTtgo.clearing /\ ~bTtgo.queued
    BY DEF Beetles!Reset
  <1>2. bTtgo \in Coordinators
    <2>1. 0 \in 0 .. BoardAttempts - 1
      BY BeetleAssumption
    <2> QED BY <2>1, <1>1 DEF Coordinators, Stages, AnyOrder, Beetles!Reset, Board
  <1>3. CoordinatorShapes
    BY <1>1, <1>2 DEF CoordinatorShapes, AnyOrder
  <1>4. \A b \in Board :
           /\ bBeetle[b] \in Beetle /\ bBeetle[b].worker = "none" /\ bBeetle[b].told = <<>>
           /\ bBeetle[b].stored = Beetles!NoRecord /\ bBeetle[b].last = Beetles!NoRecord
           /\ bBeetle[b].image = bBeetle[b].fw
           /\ bDown[b] = <<>> /\ bUp[b] = <<>>
    <2>1. SUFFICES ASSUME NEW b \in Board
                   PROVE  /\ bBeetle[b] \in Beetle /\ bBeetle[b].worker = "none" /\ bBeetle[b].told = <<>>
                          /\ bBeetle[b].stored = Beetles!NoRecord /\ bBeetle[b].last = Beetles!NoRecord
                          /\ bBeetle[b].image = bBeetle[b].fw
                          /\ bDown[b] = <<>> /\ bUp[b] = <<>>
      OBVIOUS
    <2>2. PICK v \in BoardVersions :
             bBeetle[b] = [fw |-> v, image |-> v, boot |-> 1, stored |-> Beetles!NoRecord,
                           last |-> Beetles!NoRecord, worker |-> "none", told |-> <<>>, rfid |-> FALSE]
      BY DEF Board
    <2>3. v \in Nat /\ 1 \in Nat \ {0}
      BY BeetleAssumption
    <2>4. bBeetle[b] \in Beetle
      BY <2>2, <2>3 DEF Beetle, AnyRecord, Workers
    <2> QED BY <2>2, <2>4 DEF Board
  <1>5. BoardShapes
    <2>0. <<>> \in Seq(DownLines) /\ <<>> \in Seq(UpLines) /\ Len(<<>>) = 0
      BY LinesNone
    <2>1. /\ bBeetle \in [Board -> Beetle] /\ bUnstored \in BOOLEAN
          /\ bDown \in [Board -> Seq(DownLines)] /\ bUp \in [Board -> Seq(UpLines)]
      <3>1. bBeetle = [b \in Board |-> bBeetle[b]]
        BY DEF Board
      <3>2. bBeetle \in [Board -> Beetle]
        BY <3>1, <1>4
      <3> QED BY <3>2, <2>0 DEF Board
    <2> QED BY <2>0, <2>1, <1>4, BeetleAssumption DEF BoardShapes
  <1>6. ASSUME NEW b \in Board PROVE Honest(bBeetle[b], bDown[b], bUp[b], bRequests, bUnstored)
    <2>1. Range(bDown[b]) = {} /\ Range(bUp[b]) = {} /\ Len(bDown[b]) = 0
      BY <1>4, LinesNone
    <2>2. TaskHonest(bBeetle[b]) /\ bBeetle[b].last.request = 0
      BY <1>4 DEF TaskHonest, Beetles!NoRecord
    <2> QED BY <2>1, <2>2 DEF Honest, InOrder, Sorted, Updates
  <1>7. \A b \in Board : Rests(bBeetle[b], bDown[b])
    BY <1>4, LinesNone DEF Rests, Updates
  <1>8. PeerKnows /\ BoardsBehind /\ OthersRest /\ Phases
    BY <1>1, <1>7 DEF PeerKnows, BoardsBehind, Behind, OthersRest, Phases, Beetles!NoPeer,
                      Beetles!Discovering, Beetles!Updating
  <1> QED BY <1>3, <1>5, <1>6, <1>8 DEF BeetleInv, BoardsHonest, CoordinatorInv

\* A step of a board, which adds no command and begins no attempt while it rests.
LEMMA BoardMoves ==
    ASSUME BeetleInv, NEW b \in Board,
           UNCHANGED <<bServer, bTtgo, bPeer, bSaved, bInstalled, bRequests, bRestarted>>,
           NEW x \in Beetle, NEW d \in Seq(DownLines), NEW u \in Seq(UpLines), Len(d) <= Depth,
           bBeetle' = [bBeetle EXCEPT ![b] = x], bDown' = [bDown EXCEPT ![b] = d],
           bUp' = [bUp EXCEPT ![b] = u],
           bUnstored' \in BOOLEAN, bUnstored => bUnstored',
           Honest(x, d, u, bRequests, bUnstored'),
           Range(d) \subseteq Range(bDown[b]),
           Rests(bBeetle[b], bDown[b]) =>
              /\ x.worker = "none" /\ x.last.request = bBeetle[b].last.request
              /\ x.fw = bBeetle[b].fw
    PROVE  BeetleInv'
  <1>1. /\ CoordinatorShapes' /\ BoardShapes'
        /\ bBeetle'[b] = x /\ bDown'[b] = d /\ bUp'[b] = u
        /\ \A c \in Board : c # b => bBeetle'[c] = bBeetle[c] /\ bDown'[c] = bDown[c] /\ bUp'[c] = bUp[c]
    <2>1. CoordinatorShapes'
      BY DEF BeetleInv, CoordinatorShapes
    <2>2. BoardShapes /\ b \in Board
      BY DEF BeetleInv
    <2>3. /\ bBeetle'[b] = x /\ bDown'[b] = d /\ bUp'[b] = u
          /\ \A c \in Board : c # b => bBeetle'[c] = bBeetle[c] /\ bDown'[c] = bDown[c] /\ bUp'[c] = bUp[c]
      BY <2>2 DEF BoardShapes
    <2>4. /\ bBeetle' \in [Board -> Beetle] /\ bDown' \in [Board -> Seq(DownLines)]
          /\ bUp' \in [Board -> Seq(UpLines)]
      BY <2>2 DEF BoardShapes
    <2>5. \A c \in Board : Len(bDown'[c]) <= Depth
      BY <2>2, <2>3 DEF BoardShapes
    <2> QED BY <2>1, <2>3, <2>4, <2>5 DEF BoardShapes
  <1>2. BoardsHonest'
    <2>1. SUFFICES ASSUME NEW c \in Board
                   PROVE  Honest(bBeetle'[c], bDown'[c], bUp'[c], bRequests', bUnstored')
      BY DEF BoardsHonest
    <2>2. Honest(bBeetle[c], bDown[c], bUp[c], bRequests, bUnstored)
      BY DEF BeetleInv, BoardsHonest
    <2>3. Honest(bBeetle[c], bDown[c], bUp[c], bRequests, bUnstored')
      BY <2>2 DEF Honest, LineHonest
    <2> QED BY <1>1, <2>3
  <1>3. ASSUME NEW c \in Board
        PROVE  /\ Updates(bDown'[c]) \subseteq Updates(bDown[c])
               /\ Rests(bBeetle[c], bDown[c]) =>
                     /\ Rests(bBeetle'[c], bDown'[c]) /\ bBeetle'[c].fw = bBeetle[c].fw
                     /\ bBeetle'[c].last.request = bBeetle[c].last.request
    <2>1. CASE c = b
      BY <2>1, <1>1 DEF Rests, Updates
    <2>2. CASE c # b
      BY <2>2, <1>1
    <2> QED BY <2>1, <2>2
  <1>4. /\ InHand' = InHand /\ Beetles!Discovering' = Beetles!Discovering
        /\ Beetles!Updating' = Beetles!Updating /\ Beetles!Target' = Beetles!Target /\ Behind' = Behind
        /\ InHand \in Board /\ Behind \subseteq Board
    BY DEF InHand, Beetles!Board, Beetles!Discovering, Beetles!Updating, Beetles!Target, Behind, Board,
           Beetles!Boards
  <1>5. PeerKnows'
    <2>1. PeerKnows
      BY DEF BeetleInv, CoordinatorInv
    <2>2. ASSUME Beetles!Updating, Answered
          PROVE  Answered' /\ bBeetle'[InHand].fw = bBeetle[InHand].fw
      <3>1. Rests(bBeetle[InHand], bDown[InHand])
        BY <2>1, <2>2 DEF PeerKnows, Answered, Rests
      <3> QED BY <3>1, <1>3, <1>4, <2>2 DEF Answered, Rests
    <2>3. Updates(bDown'[InHand]) \subseteq Updates(bDown[InHand])
      BY <1>3, <1>4
    <2> HIDE DEF Answered, InHand
    <2> QED BY <1>4, <2>1, <2>2, <2>3 DEF PeerKnows
  <1>6. BoardsBehind'
    BY <1>3, <1>4 DEF BeetleInv, CoordinatorInv, BoardsBehind
  <1>7. OthersRest'
    BY <1>3, <1>4 DEF BeetleInv, CoordinatorInv, OthersRest
  <1>8. Phases'
    BY DEF BeetleInv, CoordinatorInv, Phases
  <1> QED BY <1>1, <1>2, <1>5, <1>6, <1>7, <1>8 DEF BeetleInv, CoordinatorInv

-----------------------------------------------------------------------------
\* A Beetle as the invariant finds it.
BoardState(b) ==
    /\ bBeetle[b] \in Beetle /\ bDown[b] \in Seq(DownLines) /\ bUp[b] \in Seq(UpLines)
    /\ Len(bDown[b]) <= Depth /\ bUnstored \in BOOLEAN
    /\ bBeetle = [bBeetle EXCEPT ![b] = bBeetle[b]] /\ bDown = [bDown EXCEPT ![b] = bDown[b]]
    /\ bUp = [bUp EXCEPT ![b] = bUp[b]]
    /\ Honest(bBeetle[b], bDown[b], bUp[b], bRequests, bUnstored)
    /\ bRequests \in Nat

\* What the invariant says of one Beetle.
LEMMA BoardFacts == ASSUME BeetleInv, NEW b \in Board PROVE BoardState(b)
  <1>1. BoardShapes /\ CoordinatorShapes /\ BoardsHonest
    BY DEF BeetleInv
  <1> QED BY <1>1 DEF BoardState, BoardShapes, CoordinatorShapes, BoardsHonest

\* What a Beetle says with the next line: it adds nothing to what is on its way down.
LEMMA SaysMore ==
    ASSUME NEW x, NEW d, NEW u \in Seq(UpLines), NEW l \in UpLines, NEW n, NEW lost,
           Honest(x, d, u, n, lost), LineHonest(l, x, lost),
           l.kind = "version" => l.request >= 1 /\ l.request <= n /\ \A c \in Updates(d) : l.request <= c.request
    PROVE  Append(u, l) \in Seq(UpLines) /\ Honest(x, d, Append(u, l), n, lost)
  <1>1. Append(u, l) \in Seq(UpLines) /\ Range(Append(u, l)) = Range(u) \cup {l}
    BY LinesAppend
  <1> QED BY <1>1 DEF Honest, InOrder

\* Lines that are lost or read.
LEMMA SaysLess ==
    ASSUME NEW x, NEW d, NEW u, NEW v, NEW n, NEW lost,
           Honest(x, d, u, n, lost), Range(v) \subseteq Range(u)
    PROVE  Honest(x, d, v, n, lost)
  BY DEF Honest, InOrder

\* A command that is read or lost leaves the others in their order.
LEMMA HearsLess ==
    ASSUME NEW x, NEW d \in Seq(DownLines), NEW u, NEW n, NEW lost,
           Honest(x, d, u, n, lost), d # <<>>
    PROVE  /\ Tail(d) \in Seq(DownLines) /\ Len(Tail(d)) <= Len(d) /\ Range(Tail(d)) \subseteq Range(d)
           /\ Updates(Tail(d)) \subseteq Updates(d)
           /\ Honest(x, Tail(d), u, n, lost)
  <1>1. /\ Tail(d) \in Seq(DownLines) /\ Len(Tail(d)) <= Len(d) /\ Range(Tail(d)) \subseteq Range(d)
    BY LinesTail
  <1>2. Updates(Tail(d)) \subseteq Updates(d)
    BY <1>1 DEF Updates
  <1> QED BY <1>1, <1>2, SortedTail DEF Honest, InOrder

\* Another state of the Beetle's task, at work on the same request.
LEMMA WorksOn ==
    ASSUME NEW x, NEW y, NEW d, NEW u, NEW n, NEW lost,
           Honest(x, d, u, n, lost), TaskHonest(y), y.last.request = x.last.request,
           x.worker = "none" => y.worker = "none" /\ y.fw = x.fw
    PROVE  Honest(y, d, u, n, lost)
  BY DEF Honest, InOrder, LineHonest

-----------------------------------------------------------------------------
\* A line is lost.
LEMMA BeetleLoses == ASSUME BeetleInv, NEW b \in Board, Beetles!Lose(b) PROVE BeetleInv'
  <1>1. BoardState(b)
    BY BoardFacts
  <1>2. UNCHANGED <<bServer, bTtgo, bPeer, bSaved, bInstalled, bRequests, bRestarted, bBeetle, bUnstored>>
    BY DEF Beetles!Lose, Beetles!coordinator, Beetles!boards
  <1>3. CASE bDown[b] # <<>> /\ bDown' = [bDown EXCEPT ![b] = Tail(@)] /\ UNCHANGED bUp
    <2>1. /\ Tail(bDown[b]) \in Seq(DownLines) /\ Len(Tail(bDown[b])) <= Len(bDown[b])
          /\ Range(Tail(bDown[b])) \subseteq Range(bDown[b])
          /\ Honest(bBeetle[b], Tail(bDown[b]), bUp[b], bRequests, bUnstored)
      BY <1>1, <1>3, HearsLess DEF BoardState
    <2>2. Len(Tail(bDown[b])) <= Depth
      BY <1>1, <2>1, BeetleAssumption DEF BoardState
    <2> QED BY <1>1, <1>2, <1>3, <2>1, <2>2, BoardMoves DEF BoardState, Rests
  <1>4. CASE bUp[b] # <<>> /\ bUp' = [bUp EXCEPT ![b] = Tail(@)] /\ UNCHANGED bDown
    <2>1. /\ Tail(bUp[b]) \in Seq(UpLines) /\ Range(Tail(bUp[b])) \subseteq Range(bUp[b])
      BY <1>1, <1>4, LinesTail DEF BoardState
    <2>2. Honest(bBeetle[b], bDown[b], Tail(bUp[b]), bRequests, bUnstored)
      BY <1>1, <2>1, SaysLess DEF BoardState
    <2> QED BY <1>1, <1>2, <1>4, <2>1, <2>2, BoardMoves DEF BoardState, Rests
  <1> QED BY <1>3, <1>4 DEF Beetles!Lose

\* The reader of tags is set up.
LEMMA BeetleReads == ASSUME BeetleInv, NEW b \in Board, Beetles!RfidInit(b) PROVE BeetleInv'
  <1>1. BoardState(b)
    BY BoardFacts
  <1> DEFINE y == [bBeetle[b] EXCEPT !.rfid = TRUE]
  <1>2. /\ y \in Beetle /\ y.worker = bBeetle[b].worker /\ y.last = bBeetle[b].last /\ y.fw = bBeetle[b].fw
        /\ TaskHonest(y)
    BY <1>1 DEF BoardState, Beetle, Honest, TaskHonest
  <1>3. bBeetle' = [bBeetle EXCEPT ![b] = y]
    BY <1>1 DEF Beetles!RfidInit, BoardState
  <1> HIDE DEF y
  <1>4. UNCHANGED <<bServer, bTtgo, bPeer, bSaved, bInstalled, bRequests, bRestarted, bDown, bUp, bUnstored>>
    BY DEF Beetles!RfidInit, Beetles!coordinator, Beetles!lines
  <1>5. Honest(y, bDown[b], bUp[b], bRequests, bUnstored)
    BY <1>1, <1>2, WorksOn DEF BoardState
  <1> QED BY <1>1, <1>2, <1>3, <1>4, <1>5, BoardMoves DEF BoardState, Rests

-----------------------------------------------------------------------------
(* The task of a Beetle. *)

\* What the task does with the Beetle, and what loop() is to hear of it.
LEMMA TaskWorks ==
    ASSUME BeetleInv, NEW b \in Board, bBeetle[b].worker # "none",
           NEW y \in Beetle, TaskHonest(y), y.last = bBeetle[b].last, y.worker # "none",
           bBeetle' = [bBeetle EXCEPT ![b] = y],
           UNCHANGED <<bServer, bTtgo, bPeer, bSaved, bInstalled, bRequests, bRestarted, bDown, bUp, bUnstored>>
    PROVE  BeetleInv'
  <1>1. BoardState(b)
    BY BoardFacts
  <1>2. Honest(y, bDown[b], bUp[b], bRequests, bUnstored)
    BY <1>1, WorksOn DEF BoardState
  <1> QED BY <1>1, <1>2, BoardMoves DEF BoardState, Rests

\* Work(b, ...) as a step of the Beetle; with nothing or one record for loop().
Tasked(x, w, image, stored, told) ==
    [x EXCEPT !.worker = w, !.image = image, !.stored = stored, !.told = @ \o told]
NothingElse ==
    UNCHANGED <<bServer, bTtgo, bPeer, bSaved, bInstalled, bRequests, bRestarted, bDown, bUp, bUnstored>>
Tells(w, request, told) ==
    \/ told = <<>> /\ w \in {"begun", "flashing", "committed"}
    \/ \E r \in BoardRecords : /\ told = <<r>> /\ r.request = request
                              /\ \/ w = "leaving" /\ r.result = "Flashing"
                                 \/ w = "ended" /\ r.result \in Final
\* A step of the task from one of its places before the end, in general and in the two
\* forms that occur.
LEMMA TaskStep ==
    ASSUME BeetleInv, NEW b \in Board, NEW w \in Workers, w # "none", NEW image \in Nat,
           NEW stored \in BoardRecords, stored.request = bBeetle[b].last.request,
           bBeetle[b].worker \notin {"none", "leaving", "ended"},
           NEW told, NothingElse, bBeetle' = [bBeetle EXCEPT ![b] = Tasked(bBeetle[b], w, image, stored, told)],
           Tells(w, bBeetle[b].last.request, told),
           w \notin {"committed", "leaving"} => image = bBeetle[b].fw
    PROVE  BeetleInv'
  <1>1. BoardState(b)
    BY BoardFacts
  <1>2. /\ bBeetle[b] \in Beetle /\ TaskHonest(bBeetle[b]) /\ bBeetle[b].told = <<>>
        /\ bBeetle[b].last \in BoardRecords /\ bBeetle[b].last.result \notin Final
    BY <1>1 DEF BoardState, Honest, TaskHonest
  <1>3. <<>> \o told = told
    <2>0. told = <<>> \/ \E r \in BoardRecords : told = <<r>>
      BY DEF Tells
    <2>1. CASE told = <<>>
      BY <2>1, LinesNone, ConcatEmptySeq
    <2>2. ASSUME NEW r \in BoardRecords, told = <<r>> PROVE <<>> \o told = told
      <3>1. told \in Seq(BoardRecords)
        BY <2>2, LinesOne
      <3> QED BY <3>1, ConcatEmptySeq
    <2> QED BY <2>0, <2>1, <2>2
  <1> DEFINE y == [bBeetle[b] EXCEPT !.worker = w, !.image = image, !.stored = stored, !.told = told]
  <1>4. /\ y.worker = w /\ y.image = image /\ y.stored = stored /\ y.told = told
        /\ y.last = bBeetle[b].last /\ y.fw = bBeetle[b].fw
    BY <1>2 DEF Beetle
  <1>8. y \in Beetle
    <2>1. told = <<>> \/ told \in {<<r>> : r \in BoardRecords}
      BY DEF Tells
    <2>2. told \in {<<>>} \cup {<<r>> : r \in BoardRecords}
      BY <2>1
    <2> QED BY <1>2, <2>2 DEF Beetle, AnyRecord
  <1>5. bBeetle' = [bBeetle EXCEPT ![b] = y]
    BY <1>2, <1>3 DEF Tasked
  <1>6. UNCHANGED <<bServer, bTtgo, bPeer, bSaved, bInstalled, bRequests, bRestarted, bDown, bUp, bUnstored>>
    BY DEF NothingElse
  <1> HIDE DEF y
  <1>7. TaskHonest(y)
    <2>1. CASE told = <<>> /\ w \in {"begun", "flashing", "committed"}
      BY <2>1, <1>2, <1>4 DEF TaskHonest
    <2>2. ASSUME NEW r \in BoardRecords, told = <<r>>, r.request = bBeetle[b].last.request,
                 \/ w = "leaving" /\ r.result = "Flashing"
                 \/ w = "ended" /\ r.result \in Final
          PROVE  TaskHonest(y)
      <3>1. told # <<>> /\ told[1] = r
        BY <2>2, LinesOne
      <3> QED BY <2>2, <3>1, <1>2, <1>4 DEF TaskHonest
    <2> QED BY <2>1, <2>2 DEF Tells
  <1> QED BY <1>4, <1>5, <1>6, <1>7, <1>8, TaskWorks

LEMMA TaskQuiet ==
    ASSUME BeetleInv, NEW b \in Board, NEW w \in {"begun", "flashing", "committed"}, NEW image \in Nat,
           bBeetle[b].worker \in {"begun", "flashing", "committed"}, bBeetle[b].stored \in BoardRecords,
           bBeetle[b].stored.request = bBeetle[b].last.request,
           NothingElse, bBeetle' = [bBeetle EXCEPT ![b] = Tasked(bBeetle[b], w, image, bBeetle[b].stored, <<>>)],
           w # "committed" => image = bBeetle[b].fw
    PROVE  BeetleInv'
  <1>1. /\ w \in Workers /\ w # "none"
        /\ w \notin {"committed", "leaving"} => image = bBeetle[b].fw
        /\ bBeetle[b].worker \notin {"none", "leaving", "ended"}
        /\ Tells(w, bBeetle[b].last.request, <<>>)
    BY DEF Workers, Tells
  <1> QED BY <1>1, TaskStep

LEMMA TaskTells ==
    ASSUME BeetleInv, NEW b \in Board, NEW w \in {"leaving", "ended"}, NEW image \in Nat,
           bBeetle[b].worker \in {"begun", "flashing", "committed"}, NEW stored \in BoardRecords,
           stored.request = bBeetle[b].last.request,
           NEW r \in BoardRecords, r.request = bBeetle[b].last.request,
           (w = "leaving" /\ r.result = "Flashing") \/ (w = "ended" /\ r.result \in Final),
           NothingElse, bBeetle' = [bBeetle EXCEPT ![b] = Tasked(bBeetle[b], w, image, stored, <<r>>)],
           w # "leaving" => image = bBeetle[b].fw
    PROVE  BeetleInv'
  <1>1. /\ w \in Workers /\ w # "none"
        /\ w \notin {"committed", "leaving"} => image = bBeetle[b].fw
        /\ bBeetle[b].worker \notin {"none", "leaving", "ended"}
        /\ Tells(w, bBeetle[b].last.request, <<r>>)
    BY DEF Workers, Tells
  <1> QED BY <1>1, TaskStep

\* The steps of the task.
LEMMA BeetleWorks ==
    ASSUME BeetleInv, NEW b \in Board,
           Beetles!Download(b) \/ Beetles!Commit(b) \/ Beetles!Announce(b) \/ Beetles!Skip(b)
              \/ Beetles!FailWork(b)
    PROVE  BeetleInv'
  <1>1. BoardState(b)
    BY BoardFacts
  <1> DEFINE x == bBeetle[b]
  <1>2. /\ x \in Beetle /\ TaskHonest(x)
    BY <1>1 DEF BoardState, Honest
  <1>3. x.worker \in {"begun", "flashing", "committed"}
    BY DEF Beetles!Download, Beetles!Commit, Beetles!Announce, Beetles!Skip, Beetles!FailWork
  <1>4. /\ x.stored \in BoardRecords /\ x.stored.request = x.last.request /\ x.image \in Nat
        /\ x.stored.target \in Nat
        /\ x.worker # "committed" => x.image = x.fw
    BY <1>2, <1>3 DEF TaskHonest, Beetle, BoardRecords
  <1>5. ASSUME NEW r \in Results
        PROVE  /\ Beetles!With(x.stored, r) \in BoardRecords /\ Beetles!With(x.stored, r).result = r
               /\ Beetles!With(x.stored, r).request = x.last.request
    BY <1>4 DEF Beetles!With, BoardRecords
  <1>6. CASE Beetles!Download(b)
    <2>1. /\ NothingElse /\ x.worker = "begun"
          /\ bBeetle' = [bBeetle EXCEPT ![b] = Tasked(x, "flashing", x.image, x.stored, <<>>)]
      BY <1>6 DEF Beetles!Download, Beetles!Work, Tasked, NothingElse, Beetles!coordinator, Beetles!lines
    <2> QED BY <1>3, <1>4, <2>1, TaskQuiet
  <1>7. CASE Beetles!Commit(b)
    <2>1. NothingElse /\ bBeetle' = [bBeetle EXCEPT ![b] = Tasked(x, "committed", x.stored.target, x.stored, <<>>)]
      BY <1>7 DEF Beetles!Commit, Beetles!Work, Tasked, NothingElse, Beetles!coordinator, Beetles!lines
    <2> QED BY <1>3, <1>4, <2>1, TaskQuiet
  <1>8. CASE Beetles!Announce(b)
    <2> DEFINE r == Beetles!With(x.stored, "Flashing")
    <2>1. NothingElse /\ bBeetle' = [bBeetle EXCEPT ![b] = Tasked(x, "leaving", x.image, r, <<r>>)]
      BY <1>8 DEF Beetles!Announce, Beetles!Work, Tasked, NothingElse, Beetles!coordinator, Beetles!lines
    <2>2. r \in BoardRecords /\ r.request = x.last.request /\ r.result = "Flashing"
      BY <1>5 DEF Results
    <2> HIDE DEF r
    <2> QED BY <1>3, <1>4, <2>1, <2>2, TaskTells
  <1>9. ASSUME NEW result \in Final, Beetles!Ends(b, result), x.worker # "committed"
        PROVE  BeetleInv'
    <2> DEFINE r == Beetles!With(x.stored, result)
    <2>1. PICK s \in {r, x.stored} : NothingElse /\ bBeetle' = [bBeetle EXCEPT ![b] = Tasked(x, "ended", x.image, s, <<r>>)]
      BY <1>9 DEF Beetles!Ends, Beetles!Work, Tasked, NothingElse, Beetles!coordinator, Beetles!lines
    <2>2. r \in BoardRecords /\ r.request = x.last.request /\ r.result \in Final
      BY <1>5, <1>9 DEF Results, Final
    <2>3. s \in BoardRecords /\ s.request = x.last.request
      BY <1>4, <2>1, <2>2
    <2> HIDE DEF r
    <2> QED BY <1>3, <1>4, <1>9, <2>1, <2>2, <2>3, TaskTells
  <1>10. CASE Beetles!Skip(b)
    BY <1>9, <1>10 DEF Beetles!Skip, Final
  <1>11. CASE Beetles!FailWork(b)
    BY <1>9, <1>11 DEF Beetles!FailWork, Final
  <1> QED BY <1>6, <1>7, <1>8, <1>10, <1>11

\* loop() hears of the task, and says so.
LEMMA BeetleHears == ASSUME BeetleInv, NEW b \in Board, Beetles!Hear(b) PROVE BeetleInv'
  <1>1. BoardState(b)
    BY BoardFacts
  <1> DEFINE x == bBeetle[b]
             r == Head(x.told)
             over == r.result \notin {"Accepted", "Flashing"}
             y == [x EXCEPT !.last = r, !.told = Tail(@), !.worker = IF over THEN "none" ELSE @]
             l == Beetles!Outcome(b, r.request, r.result)
  <1>2. x \in Beetle /\ TaskHonest(x) /\ x.told # <<>>
    BY <1>1 DEF BoardState, Honest, Beetles!Hear
  <1>3. PICK s \in BoardRecords : x.told = <<s>>
    BY <1>2 DEF Beetle
  <1>4. r = s /\ Tail(x.told) = <<>> /\ x.told[1] = s
    BY <1>3, LinesOne
  <1>5. /\ s.request = x.last.request /\ x.worker \in {"leaving", "ended"}
        /\ x.worker = "leaving" => ~over
        /\ x.worker = "ended" => over
        /\ over => s.result \in Final /\ x.image = x.fw
    BY <1>2, <1>4 DEF TaskHonest, BoardRecords, Results, Final, Beetle, Workers
  <1>6. /\ y \in Beetle /\ y.fw = x.fw /\ y.last = s /\ y.told = <<>> /\ y.image = x.image
        /\ y.stored = x.stored /\ y.worker = IF over THEN "none" ELSE x.worker
    BY <1>2, <1>4 DEF Beetle, AnyRecord, Workers
  <1>7. /\ bBeetle' = [bBeetle EXCEPT ![b] = y]
        /\ bUp' = [bUp EXCEPT ![b] = Append(bUp[b], l)]
    BY <1>1 DEF Beetles!Hear, BoardState
  <1>8. UNCHANGED <<bServer, bTtgo, bPeer, bSaved, bInstalled, bRequests, bRestarted, bDown, bUnstored>>
    BY DEF Beetles!Hear, Beetles!coordinator
  <1>9. l \in UpLines /\ l.kind = "outcome" /\ l.request = s.request /\ l.result = s.result /\ l.fw = x.fw
    BY <1>2, <1>4 DEF Beetles!Outcome, UpLines, OutcomeLines, Beetle, BoardRecords
  <1> HIDE DEF y, l, over
  <1>10. TaskHonest(y)
    <2>1. y.stored.request = y.last.request /\ y.told = <<>>
      BY <1>2, <1>5, <1>6 DEF TaskHonest
    <2>2. CASE over
      BY <2>1, <2>2, <1>5, <1>6 DEF TaskHonest
    <2>3. CASE ~over
      <3>1. /\ y.worker = "leaving" /\ y.last = s /\ s.result \notin Final /\ y.stored \in BoardRecords
        BY <2>3, <1>2, <1>3, <1>4, <1>5, <1>6 DEF TaskHonest, over, Final
      <3> QED BY <2>1, <3>1, <1>3 DEF TaskHonest
    <2> QED BY <2>2, <2>3
  <1>11. Honest(y, bDown[b], bUp[b], bRequests, bUnstored)
    BY <1>1, <1>2, <1>5, <1>6, <1>10, WorksOn DEF BoardState
  <1>12. LineHonest(l, y, bUnstored)
    BY <1>4, <1>5, <1>6, <1>9 DEF LineHonest, over, Final
  <1>13. /\ Append(bUp[b], l) \in Seq(UpLines)
         /\ Honest(y, bDown[b], Append(bUp[b], l), bRequests, bUnstored)
    BY <1>1, <1>9, <1>11, <1>12, SaysMore DEF BoardState
  <1>14. ~Rests(x, bDown[b])
    BY <1>5 DEF Rests
  <1> HIDE DEF x
  <1>15. ~Rests(bBeetle[b], bDown[b])
    BY <1>14 DEF x
  <1> QED BY <1>1, <1>6, <1>7, <1>8, <1>13, <1>15, BoardMoves DEF BoardState

-----------------------------------------------------------------------------
(* A Beetle reads a command, or restarts. *)

LEMMA BeetleRestarts == ASSUME BeetleInv, NEW b \in Board, Beetles!Restarts(b) PROVE BeetleInv'
  <1>1. BoardState(b)
    BY BoardFacts
  <1> DEFINE x == bBeetle[b]
             record == Beetles!Recovered(x.stored, x.image, x.boot + 1)
             y == [fw |-> x.image, image |-> x.image, boot |-> x.boot + 1, stored |-> record,
                   last |-> record, worker |-> "none", told |-> <<>>, rfid |-> FALSE]
             l == [kind |-> "hello"]
  <1>2. x \in Beetle /\ TaskHonest(x)
    BY <1>1 DEF BoardState, Honest
  <1>3. record \in AnyRecord /\ record.request = x.stored.request
    <2>1. x.stored \in AnyRecord
      BY <1>2 DEF Beetle
    <2>2. CASE x.stored = Beetles!NoRecord
      BY <2>2, <2>1 DEF Beetles!Recovered
    <2>3. CASE x.stored \in BoardRecords
      <3>1. ASSUME NEW r \in Results
            PROVE  Beetles!With(x.stored, r) \in BoardRecords /\ Beetles!With(x.stored, r).request = x.stored.request
        BY <2>3 DEF Beetles!With, BoardRecords
      <3> HIDE DEF x
      <3> QED BY <2>3, <3>1 DEF Beetles!Recovered, AnyRecord, Results
    <2> QED BY <2>1, <2>2, <2>3 DEF AnyRecord
  <1> HIDE DEF record
  <1>4. /\ y \in Beetle /\ y.worker = "none" /\ y.last = record /\ y.stored = record /\ y.fw = x.image
        /\ y.image = x.image /\ y.told = <<>>
    <2>1. x.image \in Nat /\ x.boot + 1 \in Nat \ {0}
      BY <1>2 DEF Beetle
    <2> HIDE DEF x
    <2> QED BY <1>3, <2>1 DEF Beetle, Workers
  <1>5. /\ bBeetle' = [bBeetle EXCEPT ![b] = y] /\ bDown' = [bDown EXCEPT ![b] = <<>>]
        /\ bUp' = [bUp EXCEPT ![b] = Append(bUp[b], l)]
    BY <1>1 DEF Beetles!Restarts, BoardState, record
  <1>6. UNCHANGED <<bServer, bTtgo, bPeer, bSaved, bInstalled, bRequests, bRestarted, bUnstored>>
    BY DEF Beetles!Restarts, Beetles!coordinator
  <1> HIDE DEF y
  <1>7. /\ y.last.request = x.last.request /\ TaskHonest(y)
        /\ x.worker = "none" => y.fw = x.fw
    BY <1>2, <1>3, <1>4 DEF TaskHonest
  <1>8. /\ <<>> \in Seq(DownLines) /\ Range(<<>>) = {} /\ Len(<<>>) = 0 /\ Updates(<<>>) = {} /\ Sorted(<<>>)
    BY LinesNone DEF Updates, Sorted
  <1>9. Honest(y, <<>>, bUp[b], bRequests, bUnstored)
    <2>1. Honest(y, bDown[b], bUp[b], bRequests, bUnstored)
      BY <1>1, <1>4, <1>7, WorksOn DEF BoardState
    <2> QED BY <2>1, <1>8 DEF Honest, InOrder
  <1>10. l \in UpLines /\ l.kind = "hello"
    BY DEF UpLines
  <1> HIDE DEF l
  <1>11. /\ Append(bUp[b], l) \in Seq(UpLines)
         /\ Honest(y, <<>>, Append(bUp[b], l), bRequests, bUnstored)
    BY <1>1, <1>9, <1>10, SaysMore DEF BoardState, LineHonest
  <1>12. Len(<<>>) <= Depth /\ bUnstored \in BOOLEAN
    BY <1>1, <1>8, BeetleAssumption DEF BoardState
  <1>13. Rests(bBeetle[b], bDown[b]) =>
           y.worker = "none" /\ y.last.request = bBeetle[b].last.request /\ y.fw = bBeetle[b].fw
    BY <1>4, <1>7 DEF Rests
  <1> QED BY <1>4, <1>5, <1>6, <1>8, <1>11, <1>12, <1>13, BoardMoves

\* What a Beetle answers of its last result.
LEMMA Replays ==
    ASSUME BeetleInv, NEW b \in Board
    PROVE  /\ Beetles!Replay(b) \in Seq(UpLines)
           /\ \A l \in Range(Beetles!Replay(b)) :
                 l.kind = "outcome" /\ \A lost : LineHonest(l, bBeetle[b], lost)
  <1>1. BoardState(b)
    BY BoardFacts
  <1> DEFINE x == bBeetle[b]
             l == Beetles!Outcome(b, x.last.request, x.last.result)
  <1>2. CASE x.last = Beetles!NoRecord
    <2>1. Beetles!Replay(b) = <<>>
      BY <1>2 DEF Beetles!Replay
    <2> QED BY <2>1, LinesNone
  <1>3. CASE x.last # Beetles!NoRecord
    <2>1. x \in Beetle /\ x.last \in BoardRecords /\ TaskHonest(x)
      BY <1>1, <1>3 DEF BoardState, Honest, Beetle, AnyRecord
    <2>2. /\ l \in UpLines /\ l.kind = "outcome" /\ l.request = x.last.request
          /\ l.result = x.last.result /\ l.fw = x.fw
      BY <2>1 DEF Beetles!Outcome, UpLines, OutcomeLines, Beetle, BoardRecords
    <2>3. Beetles!Replay(b) = <<l>>
      BY <1>3 DEF Beetles!Replay
    <2>4. x.worker # "none" => x.last.result \notin Final
      BY <2>1 DEF TaskHonest
    <2>5. x.worker \in Workers
      BY <2>1 DEF Beetle
    <2> HIDE DEF l
    <2>6. ASSUME NEW lost PROVE LineHonest(l, x, lost)
      BY <2>2, <2>4 DEF LineHonest
    <2> QED BY <2>2, <2>3, <2>6, LinesOne
  <1> QED BY <1>2, <1>3

\* A Beetle at rest takes on a request it has not seen: it did not rest in the sense of
\* Rests, for the command was on its way.
LEMMA BeetleAccepts ==
    ASSUME BeetleInv, NEW b \in Board, bUp[b] = <<>>,
           NEW r \in Nat, NEW target \in Nat, r <= bRequests, r # bBeetle[b].last.request,
           bBeetle[b].worker = "none",
           bDown[b] # <<>>, bDown' = [bDown EXCEPT ![b] = Tail(bDown[b])],
           ~Rests(bBeetle[b], bDown[b]),
           UNCHANGED <<bServer, bTtgo, bPeer, bSaved, bInstalled, bRequests, bRestarted>>,
           Beetles!Accept(b, r, target)
    PROVE  BeetleInv'
  <1>1. BoardState(b)
    BY BoardFacts
  <1> DEFINE x == bBeetle[b]
             d == Tail(bDown[b])
             record == [request |-> r, target |-> target, oldFw |-> x.fw, oldBoot |-> x.boot,
                        result |-> "Accepted"]
             y == [x EXCEPT !.stored = record, !.last = record, !.worker = "begun"]
             l == Beetles!Outcome(b, r, "Accepted")
             m == Beetles!Outcome(b, r, "Failed")
  <1>2. x \in Beetle /\ TaskHonest(x) /\ Honest(x, d, bUp[b], bRequests, bUnstored)
    BY <1>1, HearsLess DEF BoardState, Honest
  <1>3. /\ d \in Seq(DownLines) /\ Range(d) \subseteq Range(bDown[b]) /\ Len(d) <= Depth
        /\ Updates(d) \subseteq Updates(bDown[b])
    <2>1. /\ d \in Seq(DownLines) /\ Range(d) \subseteq Range(bDown[b]) /\ Len(d) = Len(bDown[b]) - 1
          /\ Len(bDown[b]) \in Nat \ {0}
      BY <1>1, LinesTail DEF BoardState
    <2> QED BY <2>1, <1>1, BeetleAssumption DEF BoardState, Updates
  <1>4. record \in BoardRecords /\ record.request = r /\ record.result = "Accepted"
    BY <1>2 DEF Beetle, BoardRecords, Results
  <1>5. /\ l \in UpLines /\ l.kind = "outcome" /\ l.request = r /\ l.result = "Accepted"
        /\ m \in UpLines /\ m.kind = "outcome" /\ m.request = r /\ m.result = "Failed"
    BY <1>2 DEF Beetles!Outcome, UpLines, OutcomeLines, Beetle, Results
  <1>6. Range(bUp[b]) = {}
    BY LinesNone
  <1>7. CASE /\ bBeetle' = [bBeetle EXCEPT ![b] = [@ EXCEPT !.stored = record, !.last = record, !.worker = "begun"]]
             /\ bUp' = [bUp EXCEPT ![b] = Append(@, l)] /\ UNCHANGED <<bUnstored, bEvents>>
    <2>1. bBeetle' = [bBeetle EXCEPT ![b] = y] /\ bUp' = [bUp EXCEPT ![b] = Append(bUp[b], l)]
      BY <1>1, <1>7 DEF BoardState
    <2>2. /\ y.stored = record /\ y.last = record /\ y.worker = "begun" /\ y.told = x.told /\ y.image = x.image
          /\ y.fw = x.fw
      BY <1>2 DEF Beetle
    <2>3. y \in Beetle
      <3> HIDE DEF record
      <3> QED BY <1>2, <1>4 DEF Beetle, AnyRecord, Workers
    <2> HIDE DEF record, y, l, d
    <2>4. TaskHonest(y)
      BY <1>2, <1>4, <2>2 DEF TaskHonest, Final
    <2>5. Honest(y, d, bUp[b], bRequests, bUnstored)
      BY <1>2, <1>4, <1>6, <2>2, <2>4 DEF Honest, InOrder
    <2>6. LineHonest(l, y, bUnstored)
      BY <1>4, <1>5, <2>2 DEF LineHonest, Final
    <2>7. Append(bUp[b], l) \in Seq(UpLines) /\ Honest(y, d, Append(bUp[b], l), bRequests, bUnstored)
      BY <1>1, <1>5, <2>5, <2>6, SaysMore DEF BoardState
    <2>8. bDown' = [bDown EXCEPT ![b] = d] /\ bUnstored' = bUnstored /\ bUnstored' \in BOOLEAN
      BY <1>1, <1>7 DEF d, BoardState
    <2> QED BY <1>3, <2>1, <2>3, <2>7, <2>8, BoardMoves
  <1>8. CASE /\ bUnstored' = TRUE /\ bUp' = [bUp EXCEPT ![b] = Append(@, m)] /\ UNCHANGED bBeetle
    <2> HIDE DEF m, d
    <2>1. LineHonest(m, x, TRUE)
      BY <1>5 DEF LineHonest
    <2>2. Honest(x, d, bUp[b], bRequests, TRUE)
      BY <1>2, <1>6 DEF Honest
    <2>3. Append(bUp[b], m) \in Seq(UpLines) /\ Honest(x, d, Append(bUp[b], m), bRequests, TRUE)
      BY <1>1, <1>5, <2>1, <2>2, SaysMore DEF BoardState
    <2>4. /\ bBeetle' = [bBeetle EXCEPT ![b] = x] /\ bDown' = [bDown EXCEPT ![b] = d]
          /\ bUp' = [bUp EXCEPT ![b] = Append(bUp[b], m)]
      BY <1>1, <1>8 DEF BoardState, d
    <2> HIDE DEF x
    <2> QED BY <1>2, <1>3, <1>8, <2>3, <2>4, BoardMoves
  <1> QED BY <1>7, <1>8 DEF Beetles!Accept

\* A Beetle reads a command: question, probe or order.
LEMMA BeetleObeys == ASSUME BeetleInv, NEW b \in Board, Beetles!Read(b) PROVE BeetleInv'
  <1>1. BoardState(b)
    BY BoardFacts
  <1> DEFINE x == bBeetle[b]
             d == Tail(bDown[b])
             line == Head(bDown[b])
  <1>2. x \in Beetle /\ TaskHonest(x) /\ Honest(x, d, bUp[b], bRequests, bUnstored)
    BY <1>1, HearsLess DEF BoardState, Honest, Beetles!Read
  <1>3. /\ bUp[b] = <<>> /\ bDown[b] # <<>>
        /\ bDown' = [bDown EXCEPT ![b] = d]
        /\ UNCHANGED <<bServer, bTtgo, bPeer, bSaved, bInstalled, bRequests, bRestarted>>
    BY <1>1 DEF Beetles!Read, Beetles!coordinator, BoardState
  <1>4. /\ d \in Seq(DownLines) /\ Range(d) \subseteq Range(bDown[b]) /\ Len(d) <= Depth
        /\ line \in DownLines /\ line \in Range(bDown[b])
    <2>1. /\ d \in Seq(DownLines) /\ Range(d) \subseteq Range(bDown[b]) /\ Len(d) = Len(bDown[b]) - 1
          /\ Len(bDown[b]) \in Nat \ {0} /\ line \in DownLines /\ line \in Range(bDown[b])
      BY <1>1, <1>3, LinesTail DEF BoardState
    <2> QED BY <2>1, <1>1, BeetleAssumption DEF BoardState
  <1>5. /\ line.kind \in {"query", "probe", "update"}
        /\ line.kind = "query" => line \in QueryLines
        /\ line.kind = "update" => line \in UpdateLines
    BY <1>4 DEF DownLines, QueryLines, UpdateLines
  <1>6. /\ line.kind # "probe" => line.request >= 1 /\ line.request <= bRequests
        /\ line.kind = "query" => \A c \in Updates(d) : line.request <= c.request
    BY <1>1, <1>3, <1>4, SortedTail DEF BoardState, Honest, InOrder
  <1> HIDE DEF d, line
  \* Answers change nothing else.
  <1>7. ASSUME NEW v \in Seq(UpLines), bUp' = [bUp EXCEPT ![b] = v],
               Honest(x, d, v, bRequests, bUnstored), UNCHANGED <<bBeetle, bUnstored>>
        PROVE  BeetleInv'
    <2>1. /\ bBeetle' = [bBeetle EXCEPT ![b] = x] /\ bUnstored' \in BOOLEAN
          /\ Honest(x, d, v, bRequests, bUnstored')
      BY <1>1, <1>7 DEF BoardState
    <2>2. bUnstored => bUnstored'
      BY <1>7
    <2>3. Rests(bBeetle[b], bDown[b]) =>
             x.worker = "none" /\ x.last.request = bBeetle[b].last.request /\ x.fw = bBeetle[b].fw
      BY DEF Rests
    <2> HIDE DEF x
    <2> QED BY <1>2, <1>3, <1>4, <1>7, <2>1, <2>2, <2>3, BoardMoves
  <1>8. ASSUME NEW l \in UpLines, bUp' = [bUp EXCEPT ![b] = Append(bUp[b], l)],
               LineHonest(l, x, bUnstored), l.kind # "version", UNCHANGED <<bBeetle, bUnstored>>
        PROVE  BeetleInv'
    <2>1. Append(bUp[b], l) \in Seq(UpLines) /\ Honest(x, d, Append(bUp[b], l), bRequests, bUnstored)
      BY <1>1, <1>2, <1>8, SaysMore DEF BoardState
    <2> QED BY <1>7, <1>8, <2>1
  <1>9. CASE line.kind = "query"
    <2> DEFINE l == Beetles!Version(b, line.request)
               s == <<l>>
               t == Beetles!Replay(b)
    <2>1. /\ bUp' = [bUp EXCEPT ![b] = (bUp[b] \o s) \o t]
          /\ UNCHANGED <<bBeetle, bUnstored>>
      BY <1>1, <1>5, <1>9 DEF Beetles!Read, Beetles!boards, BoardState, line
    <2>2. l \in UpLines /\ l.kind = "version" /\ l.request = line.request
      BY <1>2, <1>5, <1>9 DEF Beetles!Version, UpLines, VersionLines, Beetle, QueryLines
    <2> HIDE DEF l
    <2>3. s \in Seq(UpLines) /\ Range(s) = {l}
      BY <2>2, LinesOne
    <2>4. t \in Seq(UpLines) /\ \A q \in Range(t) : q.kind = "outcome" /\ LineHonest(q, x, bUnstored)
      BY Replays
    <2> HIDE DEF s, t
    <2>5. bUp[b] \o s = s
      BY <1>3, <2>3, ConcatEmptySeq
    <2>6. s \o t \in Seq(UpLines) /\ Range(s \o t) = {l} \cup Range(t)
      BY <2>3, <2>4, LinesConcat
    <2>7. Honest(x, d, s \o t, bRequests, bUnstored)
      BY <1>2, <1>6, <1>9, <2>2, <2>4, <2>6 DEF Honest, InOrder, LineHonest
    <2> QED BY <1>7, <2>1, <2>5, <2>6, <2>7
  <1>10. CASE line.kind = "probe"
    <2> DEFINE l == [kind |-> IF x.rfid THEN "ready" ELSE "error"]
    <2>1. /\ bUp' = [bUp EXCEPT ![b] = Append(bUp[b], l)] /\ UNCHANGED <<bBeetle, bUnstored>>
      BY <1>1, <1>5, <1>10 DEF Beetles!Read, Beetles!boards, BoardState, line
    <2>2. l \in UpLines /\ l.kind \in {"ready", "error"}
      BY DEF UpLines
    <2> HIDE DEF l
    <2> QED BY <1>8, <2>1, <2>2 DEF LineHonest
  <1>11. CASE line.kind = "update" /\ Beetles!Busy(b)
    <2> DEFINE l == Beetles!Outcome(b, line.request, IF line.request = x.last.request THEN "Accepted" ELSE "PeerBusy")
    <2>1. /\ bUp' = [bUp EXCEPT ![b] = Append(bUp[b], l)] /\ UNCHANGED <<bBeetle, bUnstored>>
      BY <1>1, <1>5, <1>11 DEF Beetles!Read, Beetles!boards, BoardState, line
    <2>2. /\ l \in UpLines /\ l.kind = "outcome" /\ l.request = line.request
          /\ l.result = IF line.request = x.last.request THEN "Accepted" ELSE "PeerBusy"
      BY <1>2, <1>5, <1>11 DEF Beetles!Outcome, UpLines, OutcomeLines, Beetle, UpdateLines, Results
    <2> HIDE DEF l
    <2> QED BY <1>8, <2>1, <2>2 DEF LineHonest, Final
  <1>12. CASE line.kind = "update" /\ ~Beetles!Busy(b) /\ line.request = x.last.request
    <2> DEFINE t == Beetles!Replay(b)
    <2>1. /\ bUp' = [bUp EXCEPT ![b] = bUp[b] \o t] /\ UNCHANGED <<bBeetle, bUnstored>>
      BY <1>1, <1>5, <1>12 DEF Beetles!Read, Beetles!boards, BoardState, line
    <2>2. t \in Seq(UpLines) /\ \A q \in Range(t) : q.kind = "outcome" /\ LineHonest(q, x, bUnstored)
      BY Replays
    <2> HIDE DEF t
    <2>3. bUp[b] \o t = t
      BY <1>3, <2>2, ConcatEmptySeq
    <2>4. Honest(x, d, t, bRequests, bUnstored)
      BY <1>2, <2>2 DEF Honest, InOrder
    <2> QED BY <1>7, <2>1, <2>2, <2>3, <2>4
  <1>13. CASE line.kind = "update" /\ ~Beetles!Busy(b) /\ line.request # x.last.request
    <2>1. Beetles!Accept(b, line.request, line.target)
      BY <1>5, <1>13 DEF Beetles!Read, line
    <2>2. line.request \in Nat /\ line.target \in Nat
      BY <1>5, <1>13 DEF UpdateLines
    <2>3. ~Rests(bBeetle[b], bDown[b]) /\ bBeetle[b].worker = "none"
      BY <1>4, <1>13 DEF Rests, Updates, Beetles!Busy
    <2> DEFINE r == line.request
               target == line.target
    <2>4. /\ Beetles!Accept(b, r, target) /\ r \in Nat /\ target \in Nat /\ r <= bRequests
          /\ r # bBeetle[b].last.request
      BY <1>6, <1>13, <2>1, <2>2
    <2> HIDE DEF r, target
    <2> QED BY <1>3, <2>3, <2>4, BeetleAccepts DEF d
  <1> QED BY <1>5, <1>9, <1>10, <1>11, <1>12, <1>13

-----------------------------------------------------------------------------
(* The coordinator: what a step of it does to the lines. *)

\* A command goes to a Beetle: a question or an order of the newest request, or a probe.
LEMMA Sends ==
    ASSUME NEW x, NEW d \in Seq(DownLines), NEW u, NEW n \in Nat, NEW lost, Honest(x, d, u, n, lost),
           NEW m \in Nat, n <= m, NEW l \in DownLines,
           l.kind # "probe" => l.request = m /\ m >= 1,
           \A v \in Range(u) : v.kind = "version" => v.request \in Nat,
           \A c \in Range(d) : c.kind # "probe" => c.request \in Nat,
           x.last.request \in Nat
    PROVE  /\ Append(d, l) \in Seq(DownLines) /\ Len(Append(d, l)) = Len(d) + 1
           /\ Updates(Append(d, l)) = Updates(d) \cup (IF l.kind = "update" THEN {l} ELSE {})
           /\ Honest(x, Append(d, l), u, m, lost)
  <1>1. /\ Append(d, l) \in Seq(DownLines) /\ Len(Append(d, l)) = Len(d) + 1
        /\ Range(Append(d, l)) = Range(d) \cup {l}
    BY LinesAppend
  <1>2. Updates(Append(d, l)) = Updates(d) \cup (IF l.kind = "update" THEN {l} ELSE {})
    BY <1>1 DEF Updates
  <1>3. Sorted(Append(d, l))
    <2>1. l.kind = "update" => \A c \in Range(d) : c.kind = "query" => c.request <= l.request
      BY DEF Honest, InOrder
    <2> QED BY <2>1, SortedAppend DEF Honest, InOrder
  <1>4. \A c \in Range(Append(d, l)) : c.kind # "probe" => c.request >= 1 /\ c.request <= m
    BY <1>1 DEF Honest, InOrder
  <1>5. \A v \in Range(u) : v.kind = "version" =>
            v.request >= 1 /\ v.request <= m /\ \A c \in Updates(Append(d, l)) : v.request <= c.request
    BY <1>2 DEF Honest, InOrder
  <1>6. x.last.request <= m
    BY DEF Honest, InOrder
  <1> QED BY <1>1, <1>2, <1>3, <1>4, <1>5, <1>6 DEF Honest, InOrder

\* The numbers in the lines of a board.
LEMMA LineNumbers ==
    ASSUME BeetleInv, NEW b \in Board
    PROVE  /\ \A v \in Range(bUp[b]) : v \in UpLines
           /\ \A v \in Range(bUp[b]) : v.kind = "version" => v.request \in Nat
           /\ \A c \in Range(bDown[b]) : c.kind # "probe" => c.request \in Nat
           /\ \A c \in Updates(bDown[b]) : c.request \in Nat
           /\ bBeetle[b].last.request \in Nat
  <1>1. BoardState(b)
    BY BoardFacts
  <1>2. Range(bUp[b]) \subseteq UpLines /\ Range(bDown[b]) \subseteq DownLines
    BY <1>1, LinesOf DEF BoardState
  <1>3. \A v \in UpLines : v.kind = "version" => v.request \in Nat
    BY DEF UpLines, VersionLines, OutcomeLines
  <1>4. \A c \in DownLines : c.kind # "probe" => c.request \in Nat
    BY DEF DownLines, QueryLines, UpdateLines
  <1>5. bBeetle[b].last.request \in Nat
    BY <1>1 DEF BoardState, Beetle, AnyRecord, BoardRecords, Beetles!NoRecord
  <1> QED BY <1>2, <1>3, <1>4, <1>5 DEF Updates

\* A step that sends nothing.
LEMMA NothingSent ==
    ASSUME BeetleInv, UNCHANGED <<bBeetle, bDown, bUp, bUnstored, bRequests>>
    PROVE  BoardShapes' /\ BoardsHonest'
  BY DEF BeetleInv, BoardShapes, BoardsHonest

\* A step that sends a command.
LEMMA OneSent ==
    ASSUME BeetleInv, NEW b \in Board, NEW l \in DownLines, Beetles!Send(b, l),
           UNCHANGED <<bBeetle, bUp, bUnstored>>, bRequests' \in Nat, bRequests <= bRequests',
           l.kind # "probe" => l.request = bRequests' /\ bRequests' >= 1
    PROVE  /\ BoardShapes' /\ BoardsHonest'
           /\ Updates(bDown'[b]) = Updates(bDown[b]) \cup (IF l.kind = "update" THEN {l} ELSE {})
           /\ \A c \in Board : c # b => Updates(bDown'[c]) = Updates(bDown[c])
  <1>1. BoardState(b) /\ BoardShapes /\ bRequests \in Nat
    BY BoardFacts DEF BeetleInv, CoordinatorShapes
  <1> DEFINE d == Append(bDown[b], l)
  <1>2. bDown' = [bDown EXCEPT ![b] = d] /\ Len(bDown[b]) < Depth
    BY <1>1 DEF Beetles!Send, BoardState
  <1>3. /\ d \in Seq(DownLines) /\ Len(d) = Len(bDown[b]) + 1
        /\ Updates(d) = Updates(bDown[b]) \cup (IF l.kind = "update" THEN {l} ELSE {})
        /\ Honest(bBeetle[b], d, bUp[b], bRequests', bUnstored)
    BY <1>1, LineNumbers, Sends DEF BoardState
  <1>4. Len(d) <= Depth
    <2>1. Len(bDown[b]) \in Nat
      BY <1>1 DEF BoardState
    <2> HIDE DEF d
    <2> QED BY <1>2, <1>3, <2>1, BeetleAssumption
  <1> HIDE DEF d
  <1>5. bDown'[b] = d /\ \A c \in Board : c # b => bDown'[c] = bDown[c]
    BY <1>1, <1>2 DEF BoardShapes
  <1>6. BoardShapes'
    BY <1>1, <1>2, <1>3, <1>4, <1>5 DEF BoardShapes
  <1>7. ASSUME NEW c \in Board, c # b
        PROVE  Honest(bBeetle[c], bDown[c], bUp[c], bRequests', bUnstored)
    <2>1. Honest(bBeetle[c], bDown[c], bUp[c], bRequests, bUnstored)
      BY DEF BeetleInv, BoardsHonest
    <2> QED BY <1>1, <2>1, LineNumbers DEF Honest, InOrder
  <1>8. BoardsHonest'
    BY <1>3, <1>5, <1>7 DEF BoardsHonest
  <1> QED BY <1>3, <1>5, <1>6, <1>8

-----------------------------------------------------------------------------
(* The coordinator: what it knows after a step, by what becomes of the stage. *)

\* A board whose update is over rests, and no command on its way would wake it.
LEMMA HandRests ==
    ASSUME BeetleInv, Beetles!Updating, bPeer.state = "ready" \/ (bPeer.state = "failed" /\ ~bUnstored)
    PROVE  /\ Rests(bBeetle[InHand], bDown[InHand])
           /\ bPeer.state = "ready" => bBeetle[InHand].fw = Beetles!Target
  BY DEF BeetleInv, CoordinatorInv, PeerKnows, Answered, Rests

\* Then all boards rest, when no update is going on or the one in hand is over.
LEMMA QuietNow ==
    ASSUME BeetleInv, ~bRestarted, ~bUnstored,
           ~Beetles!Updating \/ bPeer.state \in {"ready", "failed"}
    PROVE  \A c \in Board : Rests(bBeetle[c], bDown[c])
  BY HandRests DEF BeetleInv, CoordinatorInv, OthersRest

\* The stage stays, and so does the view of the board; the order is sent to no other board.
LEMMA StageStays ==
    ASSUME BeetleInv, bTtgo'.stage = bTtgo.stage, bTtgo'.retry = bTtgo.retry,
           bTtgo.stage # "Idle" => bTtgo'.expected = bTtgo.expected,
           UNCHANGED <<bPeer, bRequests, bRestarted, bBeetle, bUnstored>>,
           \A c \in Board :
              \/ Updates(bDown'[c]) \subseteq Updates(bDown[c])
              \/ Beetles!Updating /\ c = InHand /\ \A l \in Updates(bDown'[c]) : l.request = bRequests
    PROVE  PeerKnows' /\ BoardsBehind' /\ OthersRest'
  <1>1. /\ InHand' = InHand /\ Beetles!Discovering' = Beetles!Discovering
        /\ Beetles!Updating' = Beetles!Updating /\ Behind' = Behind /\ InHand \in Board /\ Behind \subseteq Board
        /\ bTtgo.stage # "Idle" => Beetles!Target' = Beetles!Target
        /\ Beetles!Updating => bTtgo.stage # "Idle" /\ InHand \notin Behind
        /\ Beetles!Discovering => bTtgo.stage # "Idle" /\ ~Beetles!Updating
        /\ bTtgo.stage = "Idle" => Behind = {}
    BY DEF InHand, Beetles!Board, Beetles!Discovering, Beetles!Updating, Beetles!Target, Behind, Board,
           Beetles!Boards
  <1>2. PeerKnows /\ BoardsBehind /\ OthersRest
    BY DEF BeetleInv, CoordinatorInv
  <1>3. Answered' = Answered
    BY <1>1 DEF Answered
  <1> HIDE DEF InHand, Behind, Answered
  <1>4. PeerKnows'
    BY <1>1, <1>2, <1>3 DEF PeerKnows
  <1>5. ASSUME NEW c \in Board, ~(Beetles!Updating /\ c = InHand), Rests(bBeetle[c], bDown[c])
        PROVE  Rests(bBeetle'[c], bDown'[c])
    BY <1>5 DEF Rests
  <1>6. BoardsBehind'
    BY <1>1, <1>2, <1>5 DEF BoardsBehind
  <1>7. OthersRest'
    BY <1>1, <1>2, <1>5 DEF OthersRest
  <1> QED BY <1>4, <1>6, <1>7

\* The sequence is over, or has failed.
LEMMA SequenceOver ==
    ASSUME BeetleInv, bTtgo'.stage \in {"Idle", "Failed"}, bPeer' = Beetles!NoPeer \/ bPeer' = bPeer,
           UNCHANGED <<bRequests, bBeetle, bDown, bUnstored>>, bRestarted => bRestarted',
           ~bRestarted' => ~Beetles!Updating \/ bPeer.state \in {"ready", "failed"}
    PROVE  PeerKnows' /\ BoardsBehind' /\ OthersRest'
  <1>1. ~Beetles!Discovering' /\ ~Beetles!Updating' /\ Behind' = {}
    BY DEF Beetles!Discovering, Beetles!Updating, Behind
  <1>2. PeerKnows'
    BY <1>1 DEF BeetleInv, CoordinatorInv, PeerKnows, Beetles!NoPeer
  <1>3. OthersRest'
    BY QuietNow DEF OthersRest, Rests
  <1> QED BY <1>1, <1>2, <1>3 DEF BoardsBehind

\* Discovery begins, or is due again.
LEMMA DiscoveryBegins ==
    ASSUME BeetleInv, bTtgo'.stage \in {"DiscoverMain", "DiscoverSub"},
           \/ ~bTtgo'.retry /\ bPeer' = Beetles!Discover(bRequests + 1) /\ bRequests' = bRequests + 1
           \/ bTtgo'.retry /\ bPeer' = Beetles!NoPeer /\ bRequests' = bRequests,
           bTtgo'.retry \in BOOLEAN,
           UNCHANGED <<bRestarted, bBeetle, bUnstored>>,
           \A c \in Board : Updates(bDown'[c]) = Updates(bDown[c]),
           ~Beetles!Updating \/ bPeer.state \in {"ready", "failed"},
           bTtgo'.stage = "DiscoverSub" =>
              Rests(bBeetle["main"], bDown["main"]) /\ bBeetle["main"].fw = Beetles!Target'
    PROVE  PeerKnows' /\ BoardsBehind' /\ OthersRest'
  <1>1. /\ Beetles!Discovering' /\ ~Beetles!Updating' /\ "main" \in Board
        /\ Behind' = IF bTtgo'.stage = "DiscoverSub" THEN {"main"} ELSE {}
    BY DEF Beetles!Discovering, Beetles!Updating, Behind, Board, Beetles!Boards
  <1>2. PeerKnows'
    <2>1. CASE ~bTtgo'.retry /\ bPeer' = Beetles!Discover(bRequests + 1) /\ bRequests' = bRequests + 1
      <3>1. /\ bPeer'.state = "discovering" /\ bPeer'.request = bRequests' /\ bPeer'.updated = <<>>
            /\ bPeer'.skipped = 0
        BY <2>1 DEF Beetles!Discover
      <3>2. bPeer' # Beetles!NoPeer
        BY <3>1 DEF Beetles!NoPeer
      <3> QED BY <2>1, <3>1, <3>2, <1>1 DEF PeerKnows
    <2>2. CASE bTtgo'.retry /\ bPeer' = Beetles!NoPeer
      <3>1. bPeer'.state = "idle"
        BY <2>2 DEF Beetles!NoPeer
      <3> QED BY <2>2, <3>1, <1>1 DEF PeerKnows
    <2> QED BY <2>1, <2>2
  <1>3. ASSUME NEW c \in Board, Rests(bBeetle[c], bDown[c]) PROVE Rests(bBeetle'[c], bDown'[c])
    BY <1>3 DEF Rests
  <1>4. BoardsBehind'
    BY <1>1, <1>3 DEF BoardsBehind
  <1>5. OthersRest'
    BY <1>3, QuietNow DEF OthersRest
  <1> QED BY <1>2, <1>4, <1>5

-----------------------------------------------------------------------------
(* The end of an order. *)
LEMMA OrderBegins ==
    ASSUME NEW t \in Coordinators
    PROVE  /\ Beetles!Begin(t) \in Coordinators /\ Beetles!Begin(t).stage = t.stage
           /\ Beetles!Begin(t).at = t.at /\ Beetles!Begin(t).retry = t.retry
           /\ Beetles!Begin(t).clearing = t.clearing
           /\ t.stage # "Idle" => Beetles!Begin(t).expected = t.expected /\ Beetles!Begin(t).queued = t.queued
           /\ (t.stage # "Idle" \/ t.queued => t.expected \in Beetles!Orders) =>
                 (t.stage # "Idle" \/ Beetles!Begin(t).queued => Beetles!Begin(t).expected \in Beetles!Orders)
  BY DEF Coordinators, Beetles!Begin, AnyOrder

\* The coordinator after a reset.
LEMMA Resets ==
    /\ Beetles!Reset \in Coordinators /\ Beetles!Reset.stage = "Idle" /\ Beetles!Reset.at = "loop"
    /\ ~Beetles!Reset.clearing /\ ~Beetles!Reset.queued
    /\ \A my, cur \in AnyOrder :
          /\ [Beetles!Reset EXCEPT !.my = my, !.cur = cur] \in Coordinators
          /\ [Beetles!Reset EXCEPT !.my = my, !.cur = cur].stage = "Idle"
          /\ [Beetles!Reset EXCEPT !.my = my, !.cur = cur].at = "loop"
          /\ ~[Beetles!Reset EXCEPT !.my = my, !.cur = cur].clearing
          /\ ~[Beetles!Reset EXCEPT !.my = my, !.cur = cur].queued
  <1>1. 0 \in 0 .. BoardAttempts - 1
    BY BeetleAssumption
  <1> QED BY <1>1 DEF Coordinators, Stages, AnyOrder, Beetles!Reset, Board

\* The order is given up, and the one read last may begin.
LEMMA OrderEnds ==
    ASSUME BeetleInv, NEW t \in Coordinators, bTtgo' = Beetles!Finished(t), bPeer' = Beetles!NoPeer,
           UNCHANGED <<bServer, bSaved, bInstalled, bRequests, bRestarted, bBeetle, bUnstored, bDown, bUp>>,
           ~Beetles!Updating \/ bPeer.state \in {"ready", "failed"}
    PROVE  BeetleInv'
  <1> DEFINE s == [Beetles!Reset EXCEPT !.my = t.my, !.cur = t.cur]
  <1>1. t.my \in AnyOrder /\ t.cur \in AnyOrder
    BY DEF Coordinators
  <1>2. s \in Coordinators /\ s.stage = "Idle" /\ s.at = "loop" /\ ~s.clearing /\ ~s.queued
    BY <1>1, Resets
  <1>3. bTtgo' = Beetles!Begin(s) /\ bPeer' = Beetles!NoPeer
    BY DEF Beetles!Finished
  <1> HIDE DEF s
  <1>4. /\ bTtgo' \in Coordinators /\ bTtgo'.stage = "Idle" /\ bTtgo'.at = "loop" /\ ~bTtgo'.clearing
        /\ bTtgo'.queued => bTtgo'.expected \in Beetles!Orders
    BY <1>2, <1>3, OrderBegins
  <1>5. PeerKnows' /\ BoardsBehind' /\ OthersRest'
    BY <1>3, <1>4, SequenceOver
  <1>6. Phases'
    BY <1>4 DEF Phases
  <1>7. CoordinatorShapes'
    BY <1>3, <1>4 DEF BeetleInv, CoordinatorShapes
  <1> QED BY <1>5, <1>6, <1>7, NothingSent DEF BeetleInv, CoordinatorInv

\* The order failed, and is to be cleared.
LEMMA OrderFails ==
    ASSUME BeetleInv, bTtgo' \in Coordinators, bTtgo'.stage = "Failed", bTtgo'.at = "loop", ~bTtgo'.clearing,
           bTtgo'.expected \in Beetles!Orders, bPeer' = bPeer, bSaved' \in AnyOrder,
           UNCHANGED <<bServer, bInstalled, bRequests, bRestarted, bBeetle, bUnstored, bDown, bUp>>,
           ~Beetles!Updating \/ bPeer.state \in {"ready", "failed"}
    PROVE  BeetleInv'
  <1>1. PeerKnows' /\ BoardsBehind' /\ OthersRest'
    BY SequenceOver
  <1>2. Phases'
    BY DEF Phases
  <1>3. CoordinatorShapes'
    BY DEF BeetleInv, CoordinatorShapes
  <1> QED BY <1>1, <1>2, <1>3, NothingSent DEF BeetleInv, CoordinatorInv

-----------------------------------------------------------------------------
(* The coordinator hears the board in hand. *)

\* It confirms an update only after it was told of the end of it.
LEMMA Confirms ==
    ASSUME NEW p \in Peers, p.boot >= 1
    PROVE  \/ Beetles!Confirm(p) = p
           \/ /\ Beetles!Confirm(p) \in Peers
              /\ Beetles!Confirm(p).state = "ready"
              /\ p.updated # <<>> \/ p.skipped # 0
              /\ Beetles!Confirm(p).request = p.request /\ Beetles!Confirm(p).boot = p.boot
              /\ Beetles!Confirm(p).target = p.target /\ Beetles!Confirm(p).updated = p.updated
              /\ Beetles!Confirm(p).skipped = p.skipped
  <1> DEFINE q == [p EXCEPT !.state = "ready"]
  <1>1. /\ q \in Peers /\ q.state = "ready" /\ q.request = p.request /\ q.boot = p.boot
        /\ q.target = p.target /\ q.updated = p.updated /\ q.skipped = p.skipped
    BY DEF Peers
  <1>2. p.updated = <<p.fw, p.boot>> => p.updated # <<>>
    OBVIOUS
  <1>3. p.skipped = p.boot => p.skipped # 0
    BY DEF Peers
  <1>4. Beetles!Confirm(p) = p \/ (Beetles!Confirm(p) = q /\ (p.updated = <<p.fw, p.boot>> \/ p.skipped = p.boot))
    BY DEF Beetles!Confirm
  <1> HIDE DEF q
  <1> QED BY <1>1, <1>2, <1>3, <1>4

\* What the view of a board becomes by its version, and by what it says of an attempt:
\* the request and the target stay.
LEMMA HearsVersion ==
    ASSUME NEW p \in Peers, NEW l \in VersionLines
    PROVE  LET q == Beetles!ReceiveVersion(p, l)
           IN /\ q \in Peers /\ q.request = p.request /\ q.target = p.target /\ q.boot >= 1
              /\ q.updated = p.updated /\ q.skipped = p.skipped
              /\ \/ q.state = p.state /\ p.state # "discovering"
                 \/ p.state = "discovering" /\ q.state = "capable"
                 \/ p.state = "waiting" /\ q.state = "ready" /\ (p.updated # <<>> \/ p.skipped # 0)
  <1> DEFINE r == [p EXCEPT !.fw = l.fw, !.boot = l.boot]
             s == [r EXCEPT !.proof = TRUE]
             v == [r EXCEPT !.state = "capable"]
  <1>1. /\ r \in Peers /\ r.request = p.request /\ r.target = p.target /\ r.boot = l.boot /\ r.state = p.state
        /\ r.updated = p.updated /\ r.skipped = p.skipped /\ l.boot >= 1
    <2>1. l.fw \in Nat /\ l.boot \in Nat /\ l.boot >= 1
      BY DEF VersionLines
    <2> QED BY <2>1 DEF Peers
  <1>2. /\ s \in Peers /\ s.request = p.request /\ s.target = p.target /\ s.boot >= 1 /\ s.state = p.state
        /\ s.updated = p.updated /\ s.skipped = p.skipped
    BY <1>1 DEF Peers
  <1>3. /\ v \in Peers /\ v.request = p.request /\ v.target = p.target /\ v.boot >= 1 /\ v.state = "capable"
        /\ v.updated = p.updated /\ v.skipped = p.skipped
    BY <1>1 DEF Peers
  <1>4. CASE p.state = "discovering"
    <2>1. Beetles!ReceiveVersion(p, l) = v
      BY <1>4 DEF Beetles!ReceiveVersion
    <2> HIDE DEF v
    <2> QED BY <2>1, <1>3, <1>4
  <1>5. CASE p.state = "waiting"
    <2>1. Beetles!ReceiveVersion(p, l) = Beetles!Confirm(s)
      BY <1>5 DEF Beetles!ReceiveVersion
    <2> HIDE DEF s, r, v
    <2> QED BY <2>1, <1>2, <1>5, Confirms
  <1>6. CASE p.state \notin {"discovering", "waiting"}
    <2>1. Beetles!ReceiveVersion(p, l) = r
      BY <1>6 DEF Beetles!ReceiveVersion
    <2> HIDE DEF r
    <2> QED BY <2>1, <1>1, <1>6
  <1> QED BY <1>4, <1>5, <1>6

LEMMA HearsOutcome ==
    ASSUME NEW p \in Peers, NEW l \in OutcomeLines, p.state = "waiting", p.boot >= 1
    PROVE  LET q == Beetles!ReceiveOutcome(p, l)
           IN /\ q \in Peers /\ q.request = p.request /\ q.target = p.target /\ q.boot = p.boot
              /\ \/ q.state = "waiting" /\ q.updated = p.updated /\ q.skipped = p.skipped
                 \/ q.state = "failed" /\ l.result \in Final /\ q.updated = p.updated /\ q.skipped = p.skipped
                 \/ q.state \in {"waiting", "ready"} /\ l.result \in {"Updated", "Skipped"} /\ l.fw = p.target
  <1> DEFINE r == [p EXCEPT !.seen = TRUE]
             f == [r EXCEPT !.state = "failed"]
             g == [p EXCEPT !.state = "failed"]
             s == [r EXCEPT !.skipped = l.boot]
             u == [r EXCEPT !.updated = <<l.fw, l.boot>>]
             v == [r EXCEPT !.state = "ready"]
  <1>0. l.fw \in Nat /\ l.boot \in Nat \ {0} /\ l.result \in Results \cup {"PeerBusy"}
    BY DEF OutcomeLines
  <1>1. /\ r \in Peers /\ r.request = p.request /\ r.target = p.target /\ r.boot = p.boot /\ r.state = p.state
        /\ r.updated = p.updated /\ r.skipped = p.skipped
    BY DEF Peers
  <1>2. /\ f \in Peers /\ f.request = p.request /\ f.target = p.target /\ f.boot = p.boot /\ f.state = "failed"
        /\ f.updated = p.updated /\ f.skipped = p.skipped
    BY <1>1 DEF Peers
  <1>3. /\ g \in Peers /\ g.request = p.request /\ g.target = p.target /\ g.boot = p.boot /\ g.state = "failed"
        /\ g.updated = p.updated /\ g.skipped = p.skipped
    BY DEF Peers
  <1>4. /\ s \in Peers /\ s.request = p.request /\ s.target = p.target /\ s.boot = p.boot /\ s.state = "waiting"
    BY <1>0, <1>1 DEF Peers
  <1>5. /\ u \in Peers /\ u.request = p.request /\ u.target = p.target /\ u.boot = p.boot /\ u.state = "waiting"
    <2>1. <<l.fw, l.boot>> \in Nat \X (Nat \ {0})
      BY <1>0
    <2> QED BY <2>1, <1>1 DEF Peers
  <1>6. /\ v \in Peers /\ v.request = p.request /\ v.target = p.target /\ v.boot = p.boot /\ v.state = "ready"
    BY <1>1 DEF Peers
  <1>7. CASE l.result \in {"Accepted", "Flashing"}
    <2>1. Beetles!ReceiveOutcome(p, l) = r
      BY <1>7 DEF Beetles!ReceiveOutcome
    <2> HIDE DEF r
    <2> QED BY <2>1, <1>1
  <1>8. CASE l.result = "Skipped"
    <2>1. \/ Beetles!ReceiveOutcome(p, l) = f
          \/ Beetles!ReceiveOutcome(p, l) = v /\ l.fw = p.target
          \/ Beetles!ReceiveOutcome(p, l) = Beetles!Confirm(s) /\ l.fw = p.target
      BY <1>8 DEF Beetles!ReceiveOutcome
    <2> HIDE DEF r, f, g, s, u, v
    <2> QED BY <2>1, <1>2, <1>4, <1>6, <1>8, Confirms DEF Final
  <1>9. CASE l.result = "Updated"
    <2>1. \/ Beetles!ReceiveOutcome(p, l) = f
          \/ Beetles!ReceiveOutcome(p, l) = Beetles!Confirm(u) /\ l.fw = p.target
      BY <1>9 DEF Beetles!ReceiveOutcome
    <2> HIDE DEF r, f, g, s, u, v
    <2> QED BY <2>1, <1>2, <1>5, <1>9, Confirms DEF Final
  <1>10. CASE l.result = "Failed"
    <2>1. Beetles!ReceiveOutcome(p, l) = g
      BY <1>10 DEF Beetles!ReceiveOutcome
    <2> HIDE DEF g
    <2> QED BY <2>1, <1>3, <1>10 DEF Final
  <1>11. CASE l.result = "PeerBusy"
    <2>1. Beetles!ReceiveOutcome(p, l) = p
      BY <1>11 DEF Beetles!ReceiveOutcome
    <2> QED BY <2>1
  <1> QED BY <1>0, <1>7, <1>8, <1>9, <1>10, <1>11 DEF Results

\* What is known after a line that changes the view of the board in hand.
LEMMA PeerLearns ==
    ASSUME BeetleInv, bPeer \in Peers, bPeer' \in Peers, bPeer'.request = bRequests,
           bPeer'.target = bPeer.target, bPeer'.boot >= 1 \/ bPeer'.state = "discovering",
           bTtgo'.stage = bTtgo.stage, bTtgo'.retry = bTtgo.retry, bTtgo'.expected = bTtgo.expected,
           UNCHANGED <<bRequests, bBeetle, bDown, bUnstored, bRestarted>>,
           Beetles!Discovering =>
              /\ bPeer'.state \in {"discovering", "capable"}
              /\ bPeer'.updated = <<>> /\ bPeer'.skipped = 0
              /\ bPeer'.state = "capable" => \A c \in Updates(bDown[InHand]) : c.request = bRequests,
           Beetles!Updating =>
              /\ bPeer'.state \in {"waiting", "ready", "failed"}
              /\ bPeer'.updated # <<>> \/ bPeer'.skipped # 0 \/ bPeer'.state = "ready" =>
                    Answered /\ bBeetle[InHand].fw = bPeer.target
              /\ bPeer'.state = "failed" /\ ~bUnstored => Answered,
           Beetles!Discovering \/ Beetles!Updating
    PROVE  PeerKnows' /\ BoardsBehind' /\ OthersRest'
  <1>1. /\ InHand' = InHand /\ Beetles!Discovering' = Beetles!Discovering
        /\ Beetles!Updating' = Beetles!Updating /\ Behind' = Behind /\ Beetles!Target' = Beetles!Target
        /\ ~(Beetles!Discovering /\ Beetles!Updating)
    BY DEF InHand, Beetles!Board, Beetles!Discovering, Beetles!Updating, Beetles!Target, Behind
  <1>2. PeerKnows /\ BoardsBehind /\ OthersRest
    BY DEF BeetleInv, CoordinatorInv
  <1>3. Answered' = Answered
    BY <1>1 DEF Answered
  <1>4. bPeer # Beetles!NoPeer /\ bPeer' # Beetles!NoPeer
    BY DEF Peers, Beetles!NoPeer
  <1> HIDE DEF InHand, Behind, Answered
  <1>5. PeerKnows'
    <2>1. CASE Beetles!Discovering
      BY <1>1, <1>2, <1>3, <1>4, <2>1 DEF PeerKnows
    <2>2. CASE Beetles!Updating
      BY <1>1, <1>2, <1>3, <1>4, <2>2 DEF PeerKnows
    <2> QED BY <2>1, <2>2
  <1>6. BoardsBehind'
    BY <1>1, <1>2 DEF BoardsBehind
  <1>7. OthersRest'
    BY <1>1, <1>2 DEF OthersRest
  <1> QED BY <1>5, <1>6, <1>7

\* The coordinator reads a line of a board.
LEMMA BeetleReceives == ASSUME BeetleInv, NEW b \in Board, Beetles!Receive(b) PROVE BeetleInv'
  <1>1. BoardState(b) /\ BoardShapes /\ CoordinatorShapes /\ PeerKnows /\ Phases
    BY BoardFacts DEF BeetleInv, CoordinatorInv
  <1> DEFINE l == Head(bUp[b])
             mine == (Beetles!Discovering \/ Beetles!Updating) /\ b = InHand
  <1>2. /\ bUp[b] # <<>> /\ bUp' = [bUp EXCEPT ![b] = Tail(bUp[b])]
        /\ UNCHANGED <<bServer, bSaved, bInstalled, bRequests, bRestarted, bBeetle, bUnstored, bDown, bEvents>>
    BY <1>1 DEF Beetles!Receive, Beetles!boards, BoardState
  <1>3. /\ bTtgo' = bTtgo \/ bTtgo' = [bTtgo EXCEPT !.fresh = TRUE] \/ bTtgo' = [bTtgo EXCEPT !.fresh = FALSE]
        /\ bPeer' = IF ~mine \/ l.kind \notin {"version", "outcome"} \/ l.request # bPeer.request
                    THEN bPeer
                    ELSE IF l.kind = "version" THEN Beetles!ReceiveVersion(bPeer, l)
                    ELSE IF bPeer.state = "waiting" THEN Beetles!ReceiveOutcome(bPeer, l)
                    ELSE bPeer
    BY DEF Beetles!Receive, InHand
  <1>4. /\ bTtgo' \in Coordinators /\ bTtgo'.stage = bTtgo.stage /\ bTtgo'.retry = bTtgo.retry
        /\ bTtgo'.expected = bTtgo.expected /\ bTtgo'.at = bTtgo.at /\ bTtgo'.clearing = bTtgo.clearing
        /\ bTtgo'.queued = bTtgo.queued
    BY <1>1, <1>3 DEF Coordinators, CoordinatorShapes
  <1>5. /\ Tail(bUp[b]) \in Seq(UpLines) /\ Range(Tail(bUp[b])) \subseteq Range(bUp[b])
        /\ l \in UpLines /\ l \in Range(bUp[b])
    BY <1>1, <1>2, LinesTail DEF BoardState
  <1>6. LineHonest(l, bBeetle[b], bUnstored)
    BY <1>1, <1>5 DEF BoardState, Honest
  <1>7. /\ l.kind = "version" => l \in VersionLines /\ l.request >= 1 /\ l.request <= bRequests
                                 /\ \A c \in Updates(bDown[b]) : l.request <= c.request
        /\ l.kind = "outcome" => l \in OutcomeLines
    <2>1. /\ l.kind = "version" => l \in VersionLines
          /\ l.kind = "outcome" => l \in OutcomeLines
      BY <1>5 DEF UpLines, VersionLines, OutcomeLines
    <2> QED BY <1>1, <1>5, <2>1 DEF BoardState, Honest, InOrder
  <1> HIDE DEF l
  <1>8. BoardShapes' /\ BoardsHonest'
    <2>1. Honest(bBeetle[b], bDown[b], Tail(bUp[b]), bRequests, bUnstored)
      BY <1>1, <1>5, SaysLess DEF BoardState
    <2>2. bUp'[b] = Tail(bUp[b]) /\ \A c \in Board : c # b => bUp'[c] = bUp[c]
      BY <1>1, <1>2 DEF BoardShapes
    <2>3. BoardShapes'
      BY <1>1, <1>2, <1>5 DEF BoardShapes
    <2>4. ASSUME NEW c \in Board PROVE Honest(bBeetle[c], bDown[c], bUp'[c], bRequests, bUnstored)
      BY <2>1, <2>2 DEF BeetleInv, BoardsHonest
    <2>5. BoardsHonest'
      BY <1>2, <2>4 DEF BoardsHonest
    <2> QED BY <2>3, <2>5
  <1>9. Phases'
    BY <1>1, <1>4 DEF Phases
  <1>10. CASE bPeer' = bPeer
    <2>1. PeerKnows' /\ BoardsBehind' /\ OthersRest'
      BY <1>2, <1>4, <1>10, StageStays
    <2>2. CoordinatorShapes'
      BY <1>1, <1>2, <1>4, <1>10 DEF CoordinatorShapes
    <2> QED BY <1>8, <1>9, <2>1, <2>2 DEF BeetleInv, CoordinatorInv
  <1>11. CASE bPeer' # bPeer
    <2>1. mine /\ l.kind \in {"version", "outcome"} /\ l.request = bPeer.request
      BY <1>3, <1>11
    <2>2. bPeer \in Peers /\ bPeer.request = bRequests
      <3>1. ASSUME bPeer = Beetles!NoPeer PROVE FALSE
        <4>1. bPeer.request = 0 /\ bPeer.state = "idle"
          BY <3>1 DEF Beetles!NoPeer
        <4>2. CASE l.kind = "version"
          BY <4>1, <4>2, <1>7, <2>1
        <4>3. CASE l.kind = "outcome"
          BY <4>1, <4>3, <1>3, <1>11
        <4> QED BY <2>1, <4>2, <4>3
      <3> QED BY <1>1, <3>1 DEF CoordinatorShapes, PeerKnows
    <2>3. bPeer.state \in {"discovering", "capable", "waiting", "ready", "failed"}
      BY <2>2 DEF Peers
    <2> DEFINE q == bPeer'
    <2>4. CASE l.kind = "version"
      <3>1. bPeer' = Beetles!ReceiveVersion(bPeer, l)
        BY <1>3, <2>1, <2>4
      <3>2. /\ q \in Peers /\ q.request = bRequests /\ q.target = bPeer.target /\ q.boot >= 1
            /\ q.updated = bPeer.updated /\ q.skipped = bPeer.skipped
            /\ \/ q.state = bPeer.state /\ bPeer.state # "discovering"
               \/ bPeer.state = "discovering" /\ q.state = "capable"
               \/ bPeer.state = "waiting" /\ q.state = "ready" /\ (bPeer.updated # <<>> \/ bPeer.skipped # 0)
        BY <1>7, <2>2, <2>4, <3>1, HearsVersion
      <3>3. b = InHand /\ \A c \in Updates(bDown[InHand]) : c.request = bRequests
        <4>1. \A c \in Updates(bDown[b]) : c.request <= bRequests /\ c.request \in Nat
          BY <1>1, LineNumbers DEF BoardState, Honest, InOrder, Updates
        <4>2. l.request = bRequests /\ bRequests \in Nat
          BY <2>1, <2>2, <1>1 DEF CoordinatorShapes
        <4> HIDE DEF InHand
        <4> QED BY <1>7, <2>1, <2>4, <4>1, <4>2
      <3> HIDE DEF q
      <3>4. q = bPeer'
        BY DEF q
      <3> HIDE DEF InHand, Answered
      <3>5. /\ Beetles!Discovering =>
                  /\ q.state \in {"discovering", "capable"}
                  /\ q.updated = <<>> /\ q.skipped = 0
            /\ Beetles!Updating =>
                  /\ q.state \in {"waiting", "ready", "failed"}
                  /\ q.updated # <<>> \/ q.skipped # 0 \/ q.state = "ready" =>
                        Answered /\ bBeetle[InHand].fw = bPeer.target
                  /\ q.state = "failed" /\ ~bUnstored => Answered
        BY <1>1, <2>3, <3>2 DEF PeerKnows
      <3>6. PeerKnows' /\ BoardsBehind' /\ OthersRest'
        BY <1>2, <1>4, <2>1, <2>2, <3>2, <3>3, <3>4, <3>5, PeerLearns
      <3>7. CoordinatorShapes'
        BY <1>1, <1>2, <1>4, <3>2, <3>4 DEF CoordinatorShapes
      <3> QED BY <1>8, <1>9, <3>6, <3>7 DEF BeetleInv, CoordinatorInv
    <2>5. CASE l.kind = "outcome"
      <3>1. bPeer' = Beetles!ReceiveOutcome(bPeer, l) /\ bPeer.state = "waiting" /\ bPeer.boot >= 1
        BY <1>1, <1>3, <1>11, <2>1, <2>5 DEF PeerKnows
      <3>2. /\ q \in Peers /\ q.request = bRequests /\ q.target = bPeer.target /\ q.boot >= 1
            /\ \/ q.state = "waiting" /\ q.updated = bPeer.updated /\ q.skipped = bPeer.skipped
               \/ q.state = "failed" /\ l.result \in Final /\ q.updated = bPeer.updated
                  /\ q.skipped = bPeer.skipped
               \/ q.state \in {"waiting", "ready"} /\ l.result \in {"Updated", "Skipped"} /\ l.fw = bPeer.target
        BY <1>7, <2>2, <2>5, <3>1, HearsOutcome
      <3>3. Beetles!Updating /\ ~Beetles!Discovering
        BY <1>1, <2>1, <3>1 DEF PeerKnows
      <3>4. /\ l.result \in Final => Answered \/ bUnstored
            /\ l.result \in {"Updated", "Skipped"} => Answered /\ bBeetle[InHand].fw = l.fw
        <4>1. l.request = bRequests /\ b = InHand
          BY <2>1, <2>2
        <4>2. /\ l.result \in Final => (l.request = bBeetle[b].last.request /\ bBeetle[b].worker = "none")
                                       \/ bUnstored
              /\ l.result \in {"Updated", "Skipped"} =>
                    l.request = bBeetle[b].last.request /\ bBeetle[b].worker = "none" /\ l.fw = bBeetle[b].fw
          BY <1>6, <2>5 DEF LineHonest, Final
        <4> QED BY <4>1, <4>2 DEF Answered
      <3> HIDE DEF q
      <3>5. q = bPeer'
        BY DEF q
      <3> HIDE DEF InHand, Answered
      <3>6. /\ q.state \in {"waiting", "ready", "failed"}
            /\ q.updated # <<>> \/ q.skipped # 0 \/ q.state = "ready" =>
                  Answered /\ bBeetle[InHand].fw = bPeer.target
            /\ q.state = "failed" /\ ~bUnstored => Answered
        BY <1>1, <3>2, <3>3, <3>4 DEF PeerKnows
      <3>7. PeerKnows' /\ BoardsBehind' /\ OthersRest'
        BY <1>2, <1>4, <2>2, <3>2, <3>3, <3>5, <3>6, PeerLearns
      <3>8. CoordinatorShapes'
        BY <1>1, <1>2, <1>4, <3>2, <3>5 DEF CoordinatorShapes
      <3> QED BY <1>8, <1>9, <3>7, <3>8 DEF BeetleInv, CoordinatorInv
    <2> QED BY <2>1, <2>4, <2>5
  <1> QED BY <1>10, <1>11

-----------------------------------------------------------------------------
(* The steps of the coordinator that leave the stage as it is. *)
LEMMA CoordinatorStays ==
    ASSUME BeetleInv, bTtgo' \in Coordinators, bTtgo'.stage = bTtgo.stage, bTtgo'.retry = bTtgo.retry,
           bTtgo.stage # "Idle" => bTtgo'.expected = bTtgo.expected,
           bTtgo'.at = "check" => bTtgo.stage = "ReadyForTtgo",
           bTtgo'.clearing => bTtgo.stage = "Idle",
           bTtgo.stage # "Idle" \/ bTtgo'.queued => bTtgo'.expected \in Beetles!Orders,
           bServer' \in [order : AnyOrder, safe : BOOLEAN], bSaved' \in AnyOrder,
           UNCHANGED <<bPeer, bRequests, bRestarted, bInstalled, bBeetle, bUnstored, bDown, bUp>>
    PROVE  BeetleInv'
  <1>1. \A c \in Board : Updates(bDown'[c]) \subseteq Updates(bDown[c])
    OBVIOUS
  <1>2. PeerKnows' /\ BoardsBehind' /\ OthersRest'
    BY <1>1, StageStays
  <1>3. Phases'
    BY DEF Phases
  <1>4. CoordinatorShapes'
    BY DEF BeetleInv, CoordinatorShapes
  <1> QED BY <1>2, <1>3, <1>4, NothingSent DEF BeetleInv, CoordinatorInv

\* What the invariant says of the coordinator.
CoordinatorState ==
    /\ bTtgo \in Coordinators /\ bServer \in [order : AnyOrder, safe : BOOLEAN]
    /\ bPeer \in {Beetles!NoPeer} \cup Peers /\ bSaved \in AnyOrder /\ bInstalled \in BOOLEAN
    /\ bRequests \in Nat /\ bRestarted \in BOOLEAN
    /\ PeerKnows /\ BoardsBehind /\ OthersRest /\ Phases
LEMMA CoordinatorFacts == ASSUME BeetleInv PROVE CoordinatorState /\ bServer.order \in AnyOrder
  BY DEF BeetleInv, CoordinatorShapes, CoordinatorInv, CoordinatorState

\* The row is read again: an order may be queued, or withdrawn.
LEMMA BeetlePolls == ASSUME BeetleInv, Beetles!Poll PROVE BeetleInv'
  <1>1. CoordinatorState /\ bServer.order \in AnyOrder
    BY CoordinatorFacts
  <1>2. UNCHANGED <<bServer, bPeer, bSaved, bInstalled, bRequests, bRestarted, bBeetle, bUnstored, bDown, bUp>>
    BY DEF Beetles!Poll, Beetles!boards, Beetles!lines
  <1> DEFINE t == [bTtgo EXCEPT !.my = bServer.order, !.cur = bServer.order]
             c == t.cancel \/ bServer.order # t.expected \/ (~bServer.safe /\ t.stage # "Failed")
             s == [t EXCEPT !.cancel = c]
  <1>3. /\ t \in Coordinators /\ t.stage = bTtgo.stage /\ t.at = bTtgo.at /\ t.retry = bTtgo.retry
        /\ t.expected = bTtgo.expected /\ t.clearing = bTtgo.clearing /\ t.queued = bTtgo.queued
    BY <1>1 DEF CoordinatorState, Coordinators
  <1>4. c \in BOOLEAN
    OBVIOUS
  <1>5. /\ Beetles!Active => bTtgo' = s
        /\ ~Beetles!Active => bTtgo' = Beetles!Begin(t) \/ bTtgo' = t
    <2>1. s = [t EXCEPT !.cancel = @ \/ bServer.order # t.expected \/ (~bServer.safe /\ t.stage # "Failed")]
      OBVIOUS
    <2> QED BY <2>1 DEF Beetles!Poll
  <1>6. Phases
    BY <1>1 DEF CoordinatorState
  <1>7. CASE Beetles!Active
    <2> HIDE DEF t, c
    <2>1. /\ s \in Coordinators /\ s.stage = t.stage /\ s.at = t.at /\ s.retry = t.retry
          /\ s.expected = t.expected /\ s.clearing = t.clearing /\ s.queued = t.queued
      BY <1>3, <1>4 DEF Coordinators
    <2> HIDE DEF s
    <2> QED BY <1>1, <1>2, <1>3, <1>5, <1>6, <1>7, <2>1, CoordinatorStays DEF CoordinatorState, Phases
  <1>8. CASE ~Beetles!Active
    <2> HIDE DEF t
    <2>1. /\ bTtgo' \in Coordinators /\ bTtgo'.stage = bTtgo.stage /\ bTtgo'.at = bTtgo.at
          /\ bTtgo'.retry = bTtgo.retry /\ bTtgo'.clearing = bTtgo.clearing
          /\ bTtgo.stage = "Idle"
          /\ bTtgo'.queued => bTtgo'.expected \in Beetles!Orders
      <3>1. bTtgo.stage = "Idle" /\ (t.queued => t.expected \in Beetles!Orders)
        BY <1>3, <1>6, <1>8 DEF Beetles!Active, Phases
      <3>2. CASE bTtgo' = t
        BY <3>1, <3>2, <1>3
      <3>3. CASE bTtgo' = Beetles!Begin(t)
        BY <3>1, <3>3, <1>3, OrderBegins
      <3> QED BY <3>2, <3>3, <1>5, <1>8
    <2> QED BY <1>1, <1>2, <1>6, <2>1, CoordinatorStays DEF CoordinatorState, Phases
  <1> QED BY <1>7, <1>8

\* The operator writes the row.
LEMMA BeetleOrders == ASSUME BeetleInv, Beetles!Operator PROVE BeetleInv'
  <1>1. CoordinatorState /\ bServer.order \in AnyOrder
    BY CoordinatorFacts
  <1>2. UNCHANGED <<bTtgo, bPeer, bSaved, bInstalled, bRequests, bRestarted, bBeetle, bUnstored, bDown, bUp>>
    BY DEF Beetles!Operator, Beetles!coordinator, Beetles!boards, Beetles!lines
  <1>3. bServer' \in [order : AnyOrder, safe : BOOLEAN]
    <2>1. CASE \E order \in AnyOrder : bServer' = [bServer EXCEPT !.order = order]
      BY <1>1, <2>1 DEF CoordinatorState
    <2>2. CASE bServer' = [bServer EXCEPT !.safe = ~@]
      BY <1>1, <2>2 DEF CoordinatorState
    <2> QED BY <2>1, <2>2 DEF Beetles!Operator, AnyOrder
  <1> QED BY <1>1, <1>2, <1>3, CoordinatorStays DEF CoordinatorState, Phases

\* The order is cleared: it is read, written, and read again.
LEMMA BeetleClears ==
    ASSUME BeetleInv, Beetles!ClearReads \/ Beetles!ClearWrites
    PROVE  BeetleInv'
  <1>1. CoordinatorState /\ bServer.order \in AnyOrder
    BY CoordinatorFacts
  <1>2. CASE Beetles!ClearWrites
    <2>1. /\ UNCHANGED <<bPeer, bSaved, bInstalled, bRequests, bRestarted, bBeetle, bUnstored, bDown, bUp>>
          /\ bTtgo' = [bTtgo EXCEPT !.at = "reread"]
      BY <1>2 DEF Beetles!ClearWrites, Beetles!boards, Beetles!lines
    <2>2. bServer' \in [order : AnyOrder, safe : BOOLEAN]
      BY <1>1, <1>2 DEF Beetles!ClearWrites, CoordinatorState, AnyOrder
    <2>3. /\ bTtgo' \in Coordinators /\ bTtgo'.stage = bTtgo.stage /\ bTtgo'.at = "reread"
          /\ bTtgo'.retry = bTtgo.retry /\ bTtgo'.expected = bTtgo.expected
          /\ bTtgo'.clearing = bTtgo.clearing /\ bTtgo'.queued = bTtgo.queued
      BY <1>1, <2>1 DEF CoordinatorState, Coordinators
    <2> QED BY <1>1, <2>1, <2>2, <2>3, CoordinatorStays DEF CoordinatorState, Phases
  <1>3. CASE Beetles!ClearReads
    <2> DEFINE t == [bTtgo EXCEPT !.my = bServer.order]
               s == [t EXCEPT !.at = "loop"]
               w == [t EXCEPT !.at = "write"]
    <2>1. /\ UNCHANGED <<bServer, bInstalled, bRequests, bRestarted, bBeetle, bUnstored, bDown, bUp>>
          /\ Beetles!Cleared(s) \/ (bTtgo' = w /\ UNCHANGED <<bPeer, bSaved>>)
          /\ bTtgo.stage = "Failed" \/ bTtgo.clearing
      BY <1>3 DEF Beetles!ClearReads, Beetles!boards, Beetles!lines, Beetles!Clearing
    <2>2. /\ s \in Coordinators /\ w \in Coordinators /\ w.stage = bTtgo.stage /\ w.at = "write"
          /\ w.retry = bTtgo.retry /\ w.expected = bTtgo.expected /\ w.clearing = bTtgo.clearing
          /\ w.queued = bTtgo.queued
      BY <1>1 DEF CoordinatorState, Coordinators
    <2>3. ~Beetles!Updating
      BY <1>1, <2>1 DEF CoordinatorState, Phases, Beetles!Updating
    <2>4. CASE bTtgo' = w /\ UNCHANGED <<bPeer, bSaved>>
      <3> HIDE DEF w
      <3> QED BY <1>1, <2>1, <2>2, <2>4, CoordinatorStays DEF CoordinatorState, Phases
    <2>5. CASE Beetles!Cleared(s) /\ bTtgo.clearing
      <3> DEFINE r == [Beetles!Reset EXCEPT !.my = s.my, !.cur = s.cur, !.queued = FALSE]
      <3>1. s.my \in AnyOrder /\ s.cur \in AnyOrder
        BY <2>2 DEF Coordinators
      <3> HIDE DEF s
      <3>3. bTtgo' = Beetles!Begin(r) /\ bSaved' = Beetles!NoOrder /\ bPeer' = bPeer
        BY <2>5 DEF Beetles!Cleared
      <3>4. r \in Coordinators /\ r.stage = "Idle" /\ r.at = "loop" /\ ~r.clearing /\ ~r.queued
        BY <3>1, Resets DEF Coordinators
      <3> HIDE DEF r
      <3>5. /\ bTtgo' \in Coordinators /\ bTtgo'.stage = "Idle" /\ bTtgo'.at = "loop" /\ ~bTtgo'.clearing
            /\ bTtgo'.queued => bTtgo'.expected \in Beetles!Orders
        BY <3>3, <3>4, OrderBegins
      <3>6. PeerKnows' /\ BoardsBehind' /\ OthersRest'
        BY <2>1, <2>3, <3>3, <3>5, SequenceOver
      <3>7. Phases'
        BY <3>5 DEF Phases
      <3>8. CoordinatorShapes'
        BY <2>1, <3>3, <3>5 DEF BeetleInv, CoordinatorShapes, AnyOrder
      <3> QED BY <2>1, <3>6, <3>7, <3>8, NothingSent DEF BeetleInv, CoordinatorInv
    <2>6. CASE Beetles!Cleared(s) /\ ~bTtgo.clearing
      <3>1. Beetles!Finish(s) /\ UNCHANGED bSaved
        BY <2>6 DEF Beetles!Cleared
      <3>2. bTtgo' = Beetles!Finished(s) /\ bPeer' = Beetles!NoPeer
        BY <3>1 DEF Beetles!Finish
      <3> HIDE DEF s
      <3> QED BY <2>1, <2>2, <2>3, <3>1, <3>2, OrderEnds
    <2> QED BY <2>1, <2>4, <2>5, <2>6
  <1> QED BY <1>2, <1>3

-----------------------------------------------------------------------------
(* The steps of the coordinator that send a command. *)
\* A repetition, or a probe.
LEMMA CoordinatorSends ==
    ASSUME BeetleInv, NEW l \in DownLines, Beetles!Send(InHand, l),
           l.kind # "probe" => l.request = bRequests /\ bRequests >= 1,
           l.kind = "update" => Beetles!Updating,
           bTtgo' \in Coordinators, bTtgo'.stage = bTtgo.stage, bTtgo'.retry = bTtgo.retry,
           bTtgo'.expected = bTtgo.expected, bTtgo'.at = bTtgo.at, bTtgo'.clearing = bTtgo.clearing,
           bTtgo'.queued = bTtgo.queued,
           UNCHANGED <<bServer, bPeer, bSaved, bInstalled, bRequests, bRestarted, bBeetle, bUnstored, bUp>>
    PROVE  BeetleInv'
  <1>1. CoordinatorState
    BY CoordinatorFacts
  <1>2. InHand \in Board
    BY DEF InHand, Beetles!Board, Board, Beetles!Boards
  <1>3. bRequests' \in Nat /\ bRequests <= bRequests' /\ (l.kind # "probe" => l.request = bRequests' /\ bRequests' >= 1)
    BY <1>1 DEF CoordinatorState
  <1> DEFINE h == InHand
  <1>4. /\ BoardShapes' /\ BoardsHonest'
        /\ Updates(bDown'[h]) = Updates(bDown[h]) \cup (IF l.kind = "update" THEN {l} ELSE {})
        /\ \A c \in Board : c # h => Updates(bDown'[c]) = Updates(bDown[c])
    <2>1. h \in Board /\ Beetles!Send(h, l)
      BY <1>2
    <2> HIDE DEF h
    <2> QED BY <2>1, <1>3, OneSent
  <1>5. \A c \in Board :
           \/ Updates(bDown'[c]) \subseteq Updates(bDown[c])
           \/ Beetles!Updating /\ c = InHand /\ \A m \in Updates(bDown'[c]) : m.request = bRequests
    <2>1. Beetles!Updating => \A m \in Updates(bDown[InHand]) : m.request = bRequests
      BY <1>1 DEF CoordinatorState, PeerKnows
    <2>2. l.kind # "update" => \A c \in Board : Updates(bDown'[c]) \subseteq Updates(bDown[c])
      BY <1>4
    <2>3. CASE l.kind = "update"
      BY <2>1, <2>3, <1>4
    <2> QED BY <2>2, <2>3
  <1>6. PeerKnows' /\ BoardsBehind' /\ OthersRest'
    BY <1>5, StageStays
  <1>7. Phases'
    BY <1>1 DEF CoordinatorState, Phases
  <1>8. CoordinatorShapes'
    BY DEF BeetleInv, CoordinatorShapes
  <1> QED BY <1>4, <1>6, <1>7, <1>8 DEF BeetleInv, CoordinatorInv

\* While a sequence is active its order has a target.
LEMMA TargetsAreNumbers ==
    ASSUME BeetleInv, bTtgo.stage # "Idle" PROVE Beetles!Target \in Nat /\ bTtgo.expected \in Beetles!Orders
  BY BeetleAssumption DEF BeetleInv, CoordinatorInv, Phases, Beetles!Target, Beetles!Orders

\* A command or a question is repeated.
LEMMA BeetleRepeats == ASSUME BeetleInv, Beetles!Repeat PROVE BeetleInv'
  <1>1. CoordinatorState
    BY CoordinatorFacts
  <1> DEFINE l == IF Beetles!Updating /\ ~bPeer.seen THEN Beetles!Update(bPeer.request)
                  ELSE Beetles!Query(bPeer.request)
  <1>2. /\ Beetles!Send(InHand, l)
        /\ UNCHANGED <<bTtgo, bServer, bPeer, bSaved, bInstalled, bRequests, bRestarted, bBeetle, bUnstored, bUp>>
        /\ bPeer.state \in {"discovering", "waiting"} /\ bTtgo.stage # "Idle"
    BY DEF Beetles!Repeat, Beetles!Quiet, Beetles!boards, InHand, Beetles!Discovering, Beetles!Updating
  <1>3. bPeer \in Peers /\ bPeer.request = bRequests /\ bPeer.request \in Nat /\ bPeer.request >= 1
    <2>1. bPeer # Beetles!NoPeer
      BY <1>2 DEF Beetles!NoPeer
    <2>2. bPeer \in Peers /\ bPeer.request = bRequests
      BY <1>1, <2>1 DEF CoordinatorState, PeerKnows
    <2> QED BY <2>2 DEF Peers
  <1>4. /\ l \in DownLines /\ l.request = bRequests
        /\ l.kind = "update" => Beetles!Updating
    BY <1>2, <1>3, TargetsAreNumbers DEF Beetles!Update, Beetles!Query, DownLines, QueryLines, UpdateLines
  <1> HIDE DEF l
  <1> QED BY <1>1, <1>2, <1>3, <1>4, CoordinatorSends DEF CoordinatorState

\* A board that is ready is probed.
LEMMA BeetleProbes == ASSUME BeetleInv, Beetles!Probe PROVE BeetleInv'
  <1>1. CoordinatorState
    BY CoordinatorFacts
  <1> DEFINE l == [kind |-> "probe"]
             f == bTtgo.probe /\ bTtgo.fresh
             s == [bTtgo EXCEPT !.probe = TRUE, !.fresh = f]
  <1>2. /\ Beetles!Send(InHand, l) /\ bTtgo' = [bTtgo EXCEPT !.probe = TRUE, !.fresh = bTtgo.probe /\ @]
        /\ UNCHANGED <<bServer, bPeer, bSaved, bInstalled, bRequests, bRestarted, bBeetle, bUnstored, bUp>>
    BY DEF Beetles!Probe, Beetles!Quiet, Beetles!boards, InHand
  <1>3. bTtgo' = s
    BY <1>2
  <1>4. f \in BOOLEAN
    OBVIOUS
  <1> HIDE DEF f
  <1>5. /\ s \in Coordinators /\ s.stage = bTtgo.stage /\ s.at = bTtgo.at /\ s.retry = bTtgo.retry
        /\ s.expected = bTtgo.expected /\ s.clearing = bTtgo.clearing /\ s.queued = bTtgo.queued
    BY <1>1, <1>4 DEF CoordinatorState, Coordinators
  <1>6. l \in DownLines /\ l.kind = "probe"
    BY DEF DownLines
  <1> HIDE DEF l, s
  <1> QED BY <1>2, <1>3, <1>5, <1>6, CoordinatorSends

\* A board that told its version gets the order, or the sequence ends.
LEMMA BeetleUpdates == ASSUME BeetleInv, Beetles!BeginUpdate PROVE BeetleInv'
  <1>1. CoordinatorState /\ bServer.order \in AnyOrder
    BY CoordinatorFacts
  <1> DEFINE t == [bTtgo EXCEPT !.my = bServer.order]
             f == [t EXCEPT !.stage = "Failed"]
             s == [t EXCEPT !.stage = IF @ = "DiscoverMain" THEN "UpdateMain" ELSE "UpdateSub"]
             p == [bPeer EXCEPT !.state = "waiting", !.oldFw = bPeer.fw, !.oldBoot = bPeer.boot,
                                !.target = Beetles!Target]
             l == Beetles!Update(bPeer.request)
  <1>2. /\ UNCHANGED <<bServer, bSaved, bInstalled, bRequests, bRestarted, bBeetle, bUnstored, bUp>>
        /\ Beetles!Discovering /\ bPeer.state = "capable" /\ bTtgo.at = "loop"
        /\ \/ Beetles!Finish(t) /\ UNCHANGED bDown
           \/ bTtgo' = f /\ UNCHANGED <<bPeer, bDown>>
           \/ bTtgo' = s /\ bPeer' = p /\ Beetles!Send(InHand, l)
    BY DEF Beetles!BeginUpdate, Beetles!Quiet, Beetles!boards, InHand, Beetles!Turn
  <1>3. t \in Coordinators
    BY <1>1 DEF CoordinatorState, Coordinators
  <1>4. ~Beetles!Updating /\ bTtgo.stage \in {"DiscoverMain", "DiscoverSub"}
    BY <1>2 DEF Beetles!Discovering, Beetles!Updating
  <1>5. bTtgo.expected \in Beetles!Orders /\ Beetles!Target \in Nat /\ ~bTtgo.clearing
    BY <1>1, <1>4, TargetsAreNumbers DEF CoordinatorState, Phases
  <1>6. CASE Beetles!Finish(t) /\ UNCHANGED bDown
    <2>1. bTtgo' = Beetles!Finished(t) /\ bPeer' = Beetles!NoPeer
      BY <1>6 DEF Beetles!Finish
    <2> HIDE DEF t
    <2> QED BY <1>2, <1>3, <1>4, <1>6, <2>1, OrderEnds
  <1>7. CASE bTtgo' = f /\ UNCHANGED <<bPeer, bDown>>
    <2>1. /\ f \in Coordinators /\ f.stage = "Failed" /\ f.at = "loop" /\ ~f.clearing
          /\ f.expected \in Beetles!Orders
      BY <1>1, <1>2, <1>5 DEF CoordinatorState, Coordinators, Stages
    <2> HIDE DEF f
    <2> QED BY <1>1, <1>2, <1>4, <1>7, <2>1, OrderFails DEF CoordinatorState
  <1>8. CASE bTtgo' = s /\ bPeer' = p /\ Beetles!Send(InHand, l)
    <2>1. bPeer \in Peers /\ bPeer.request = bRequests /\ bPeer.request \in Nat /\ bPeer.request >= 1
          /\ bPeer.updated = <<>> /\ bPeer.skipped = 0 /\ bPeer.boot >= 1
      <3>1. bPeer # Beetles!NoPeer
        BY <1>2 DEF Beetles!NoPeer
      <3>2. bPeer \in Peers /\ bPeer.request = bRequests
        BY <1>1, <3>1 DEF CoordinatorState, PeerKnows
      <3> QED BY <1>1, <1>2, <3>2 DEF Peers, CoordinatorState, PeerKnows
    <2>2. /\ p \in Peers /\ p.state = "waiting" /\ p.request = bRequests /\ p.boot >= 1
          /\ p.updated = <<>> /\ p.skipped = 0 /\ p.target = Beetles!Target
      BY <1>5, <2>1 DEF Peers
    <2>3. /\ s \in Coordinators /\ s.at = "loop" /\ ~s.clearing /\ s.expected = bTtgo.expected
          /\ s.stage = IF bTtgo.stage = "DiscoverMain" THEN "UpdateMain" ELSE "UpdateSub"
      BY <1>1, <1>2, <1>5 DEF CoordinatorState, Coordinators, Stages
    <2>4. l \in DownLines /\ l.kind = "update" /\ l.request = bRequests
      BY <1>5, <2>1 DEF Beetles!Update, DownLines, UpdateLines
    <2> HIDE DEF p, s, l
    <2> DEFINE h == InHand
    <2>5. /\ h \in Board /\ InHand' = h /\ h \notin Behind /\ Behind' = Behind /\ Behind \subseteq Board
          /\ Beetles!Updating' /\ ~Beetles!Discovering' /\ Beetles!Target' = Beetles!Target
      BY <1>4, <1>8, <2>3 DEF InHand, Beetles!Board, Board, Beetles!Boards, Behind, Beetles!Updating,
                              Beetles!Discovering, Beetles!Target
    <2>6. /\ BoardShapes' /\ BoardsHonest'
          /\ Updates(bDown'[h]) = Updates(bDown[h]) \cup {l}
          /\ \A c \in Board : c # h => Updates(bDown'[c]) = Updates(bDown[c])
      <3>1. /\ bRequests' \in Nat /\ bRequests <= bRequests' /\ l.request = bRequests' /\ bRequests' >= 1
            /\ Beetles!Send(h, l)
        BY <1>1, <1>2, <1>8, <2>1, <2>4 DEF CoordinatorState
      <3> HIDE DEF h
      <3> QED BY <1>2, <2>4, <2>5, <3>1, OneSent
    <2>7. \A c \in Updates(bDown'[h]) : c.request = bRequests
      BY <1>1, <1>2, <2>4, <2>6 DEF CoordinatorState, PeerKnows
    <2> HIDE DEF h, Answered
    <2>8. PeerKnows'
      <3>1. bPeer' # Beetles!NoPeer /\ bPeer'.state = "waiting"
        BY <1>8, <2>2 DEF Beetles!NoPeer
      <3> QED BY <1>2, <1>8, <2>2, <2>5, <2>7, <3>1 DEF PeerKnows
    <2>9. ASSUME NEW c \in Board, c # h, Rests(bBeetle[c], bDown[c]) PROVE Rests(bBeetle'[c], bDown'[c])
      BY <1>2, <2>6, <2>9 DEF Rests
    <2>10. BoardsBehind'
      BY <1>1, <1>2, <2>5, <2>9 DEF CoordinatorState, BoardsBehind
    <2>11. OthersRest'
      BY <1>1, <1>2, <1>4, <2>5, <2>9 DEF CoordinatorState, OthersRest
    <2>12. Phases'
      BY <1>5, <1>8, <2>3 DEF Phases
    <2>13. CoordinatorShapes'
      BY <1>1, <1>2, <1>8, <2>2, <2>3 DEF CoordinatorState, CoordinatorShapes
    <2> QED BY <2>6, <2>8, <2>10, <2>11, <2>12, <2>13 DEF BeetleInv, CoordinatorInv
  <1> QED BY <1>2, <1>6, <1>7, <1>8

\* Discovery of a board begins, with a question of a new request.
LEMMA BeetleDiscovers ==
    ASSUME BeetleInv, NEW t \in Coordinators, t.stage \in {"DiscoverMain", "DiscoverSub"},
           t.at = "loop", ~t.clearing, t.expected \in Beetles!Orders,
           t.stage = "DiscoverSub" =>
              Rests(bBeetle["main"], bDown["main"]) /\ bBeetle["main"].fw = TargetOf[t.expected],
           Beetles!StartDiscovery(t),
           UNCHANGED <<bServer, bSaved, bInstalled, bRestarted, bBeetle, bUnstored, bUp>>,
           ~Beetles!Updating \/ bPeer.state \in {"ready", "failed"}
    PROVE  BeetleInv'
  <1>1. CoordinatorState
    BY CoordinatorFacts
  <1> DEFINE s == [t EXCEPT !.probe = FALSE, !.fresh = FALSE, !.retry = FALSE]
             l == Beetles!Query(bRequests + 1)
             h == Beetles!Board(t.stage)
  <1>2. /\ bTtgo' = s /\ bRequests' = bRequests + 1 /\ bPeer' = Beetles!Discover(bRequests + 1)
        /\ Beetles!Send(h, l)
    BY DEF Beetles!StartDiscovery
  <1>3. /\ s \in Coordinators /\ s.stage = t.stage /\ s.at = "loop" /\ ~s.clearing /\ s.expected = t.expected
        /\ s.retry = FALSE
    BY DEF Coordinators
  <1>4. l \in DownLines /\ l.kind = "query" /\ l.request = bRequests + 1
    BY <1>1 DEF CoordinatorState, Beetles!Query, DownLines, QueryLines
  <1>5. h \in Board
    BY DEF Beetles!Board, Board, Beetles!Boards
  <1>6. bPeer' \in Peers
    <2>1. bRequests + 1 \in Nat \ {0}
      BY <1>1 DEF CoordinatorState
    <2> QED BY <1>2, <2>1 DEF Peers, Beetles!Discover
  <1> HIDE DEF s, l, h
  <1>7. BoardShapes' /\ BoardsHonest' /\ \A c \in Board : Updates(bDown'[c]) = Updates(bDown[c])
    <2>1. bRequests' \in Nat /\ bRequests <= bRequests' /\ bRequests' >= 1 /\ l.request = bRequests'
      BY <1>1, <1>2, <1>4 DEF CoordinatorState
    <2> QED BY <1>2, <1>4, <1>5, <2>1, OneSent
  <1>8. PeerKnows' /\ BoardsBehind' /\ OthersRest'
    <2>1. Beetles!Target' = TargetOf[t.expected]
      BY <1>2, <1>3 DEF Beetles!Target
    <2> QED BY <1>2, <1>3, <1>7, <2>1, DiscoveryBegins
  <1>9. Phases'
    BY <1>2, <1>3 DEF Phases
  <1>10. CoordinatorShapes'
    BY <1>1, <1>2, <1>3, <1>6 DEF CoordinatorState, CoordinatorShapes
  <1> QED BY <1>7, <1>8, <1>9, <1>10 DEF BeetleInv, CoordinatorInv

\* A sequence begins, or a retry is due.
LEMMA BeetleStarts == ASSUME BeetleInv, Beetles!StartSequence \/ Beetles!RetryDue PROVE BeetleInv'
  <1>1. CoordinatorState /\ bServer.order \in AnyOrder
    BY CoordinatorFacts
  <1>2. CASE Beetles!StartSequence
    <2> DEFINE t == [bTtgo EXCEPT !.my = bServer.order]
               f == [t EXCEPT !.queued = FALSE, !.expected = Beetles!NoOrder]
               s == [t EXCEPT !.stage = "DiscoverMain"]
    <2>1. /\ UNCHANGED <<bServer, bSaved, bInstalled, bRestarted, bBeetle, bUnstored, bUp>>
          /\ bTtgo.stage = "Idle" /\ bTtgo.at = "loop" /\ ~bTtgo.clearing /\ bTtgo.queued
          /\ \/ bTtgo' = f /\ UNCHANGED <<bPeer, bRequests, bDown>>
             \/ Beetles!StartDiscovery(s)
      BY <1>2 DEF Beetles!StartSequence, Beetles!boards, Beetles!Active
    <2>2. /\ f \in Coordinators /\ f.stage = "Idle" /\ f.at = "loop" /\ ~f.clearing /\ ~f.queued
          /\ f.retry = bTtgo.retry
      BY <1>1, <2>1 DEF CoordinatorState, Coordinators, AnyOrder
    <2>3. /\ s \in Coordinators /\ s.stage = "DiscoverMain" /\ s.at = "loop" /\ ~s.clearing
          /\ s.expected = bTtgo.expected
      BY <1>1, <2>1 DEF CoordinatorState, Coordinators, Stages
    <2>4. bTtgo.expected \in Beetles!Orders
      BY <1>1, <2>1 DEF CoordinatorState, Phases
    <2>5. ~Beetles!Updating
      BY <2>1 DEF Beetles!Updating
    <2>6. CASE bTtgo' = f /\ UNCHANGED <<bPeer, bRequests, bDown>>
      <3> HIDE DEF f
      <3> QED BY <1>1, <2>1, <2>2, <2>6, CoordinatorStays DEF CoordinatorState
    <2>7. CASE Beetles!StartDiscovery(s)
      <3> HIDE DEF s
      <3> QED BY <2>1, <2>3, <2>4, <2>5, <2>7, BeetleDiscovers
    <2> QED BY <2>1, <2>6, <2>7
  <1>3. CASE Beetles!RetryDue
    <2>1. /\ UNCHANGED <<bServer, bSaved, bInstalled, bRestarted, bBeetle, bUnstored, bUp>>
          /\ Beetles!Discovering /\ bTtgo.at = "loop" /\ Beetles!StartDiscovery(bTtgo)
      BY <1>3 DEF Beetles!RetryDue, Beetles!boards, Beetles!Quiet, Beetles!Turn
    <2>2. /\ bTtgo \in Coordinators /\ bTtgo.stage \in {"DiscoverMain", "DiscoverSub"} /\ ~bTtgo.clearing
          /\ bTtgo.expected \in Beetles!Orders /\ ~Beetles!Updating
      BY <1>1, <2>1 DEF CoordinatorState, Phases, Beetles!Discovering, Beetles!Updating
    <2>3. bTtgo.stage = "DiscoverSub" =>
             Rests(bBeetle["main"], bDown["main"]) /\ bBeetle["main"].fw = TargetOf[bTtgo.expected]
      BY <1>1 DEF CoordinatorState, BoardsBehind, Behind, Beetles!Target
    <2> QED BY <2>1, <2>2, <2>3, BeetleDiscovers
  <1> QED BY <1>2, <1>3

\* A board that failed is tried again, or the sequence fails.
LEMMA BeetleRetries ==
    ASSUME BeetleInv, Beetles!DiscoveryFails \/ Beetles!UpdateFails \/ Beetles!ProbeFails
    PROVE  BeetleInv'
  <1>1. CoordinatorState
    BY CoordinatorFacts
  <1> DEFINE b == InHand
             f == [bTtgo EXCEPT !.stage = "Failed"]
             s == [bTtgo EXCEPT !.stage = IF b = "main" THEN "DiscoverMain" ELSE "DiscoverSub",
                                !.failures[b] = @ + 1, !.retry = TRUE, !.probe = FALSE]
  <1>2. /\ UNCHANGED <<bServer, bSaved, bInstalled, bRestarted, bBeetle, bUnstored, bUp, bRequests, bDown>>
        /\ bTtgo.at = "loop"
        /\ Beetles!Discovering \/ (Beetles!Updating /\ bPeer.state \in {"ready", "failed"})
        /\ \/ bTtgo' = f /\ bPeer' = bPeer
           \/ bTtgo' = s /\ bPeer' = Beetles!NoPeer /\ bTtgo.failures[b] < BoardAttempts - 1
    BY DEF Beetles!DiscoveryFails, Beetles!UpdateFails, Beetles!ProbeFails, Beetles!Silent, Beetles!Quiet,
           Beetles!boards, Beetles!Turn, Beetles!Retry, Beetles!GiveUp, InHand
  <1>3. ~Beetles!Updating \/ bPeer.state \in {"ready", "failed"}
    BY <1>2 DEF Beetles!Discovering, Beetles!Updating
  <1>4. /\ bTtgo.stage \in {"DiscoverMain", "UpdateMain", "DiscoverSub", "UpdateSub"}
        /\ ~bTtgo.clearing /\ bTtgo.expected \in Beetles!Orders
    BY <1>1, <1>2 DEF CoordinatorState, Phases, Beetles!Discovering, Beetles!Updating
  <1>5. CASE bTtgo' = f /\ bPeer' = bPeer
    <2>1. /\ f \in Coordinators /\ f.stage = "Failed" /\ f.at = "loop" /\ ~f.clearing
          /\ f.expected \in Beetles!Orders
      BY <1>1, <1>2, <1>4 DEF CoordinatorState, Coordinators, Stages
    <2> HIDE DEF f
    <2> QED BY <1>1, <1>2, <1>3, <1>5, <2>1, OrderFails DEF CoordinatorState
  <1>6. CASE bTtgo' = s /\ bPeer' = Beetles!NoPeer /\ bTtgo.failures[b] < BoardAttempts - 1
    <2>1. b \in Board /\ (b = "main" <=> bTtgo.stage \in {"DiscoverMain", "UpdateMain"})
      BY <1>4 DEF InHand, Beetles!Board, Board, Beetles!Boards
    <2>2. bTtgo.failures[b] + 1 \in 0 .. BoardAttempts - 1
      <3>1. bTtgo.failures[b] \in 0 .. BoardAttempts - 1
        BY <1>1, <2>1 DEF CoordinatorState, Coordinators, Board
      <3> QED BY <1>6, <3>1, BeetleAssumption
    <2> HIDE DEF b
    <2>3. [bTtgo.failures EXCEPT ![b] = @ + 1] \in [Beetles!Boards -> 0 .. BoardAttempts - 1]
      BY <1>1, <2>1, <2>2 DEF CoordinatorState, Coordinators, Board
    <2>4. /\ s \in Coordinators /\ s.at = "loop" /\ ~s.clearing /\ s.expected = bTtgo.expected
          /\ s.retry = TRUE /\ s.stage = IF b = "main" THEN "DiscoverMain" ELSE "DiscoverSub"
      <3> DEFINE g == [bTtgo.failures EXCEPT ![b] = @ + 1]
      <3>1. s = [bTtgo EXCEPT !.stage = IF b = "main" THEN "DiscoverMain" ELSE "DiscoverSub",
                              !.failures = g, !.retry = TRUE, !.probe = FALSE]
        BY <1>1 DEF CoordinatorState, Coordinators
      <3> HIDE DEF s
      <3>2. g \in [Beetles!Boards -> 0 .. BoardAttempts - 1]
        BY <2>3
      <3> HIDE DEF g
      <3> QED BY <1>1, <1>2, <1>4, <3>1, <3>2 DEF CoordinatorState, Coordinators, Stages
    <2> HIDE DEF s
    <2>5. bTtgo'.stage = "DiscoverSub" =>
             Rests(bBeetle["main"], bDown["main"]) /\ bBeetle["main"].fw = Beetles!Target'
      <3>1. bTtgo'.stage = "DiscoverSub" => "main" \in Behind
        BY <1>4, <1>6, <2>1, <2>4 DEF Behind
      <3>2. Beetles!Target' = Beetles!Target
        BY <1>6, <2>4 DEF Beetles!Target
      <3> QED BY <1>1, <3>1, <3>2 DEF CoordinatorState, BoardsBehind
    <2>6. /\ bTtgo'.stage \in {"DiscoverMain", "DiscoverSub"} /\ bTtgo'.retry
          /\ \A c \in Board : Updates(bDown'[c]) = Updates(bDown[c])
      BY <1>2, <1>6, <2>4
    <2>7. PeerKnows' /\ BoardsBehind' /\ OthersRest'
      BY <1>2, <1>3, <1>6, <2>5, <2>6, DiscoveryBegins
    <2>8. Phases'
      BY <1>4, <1>6, <2>4 DEF Phases
    <2>9. CoordinatorShapes'
      BY <1>1, <1>2, <1>6, <2>4 DEF CoordinatorState, CoordinatorShapes
    <2> QED BY <1>2, <2>7, <2>8, <2>9, NothingSent DEF BeetleInv, CoordinatorInv
  <1> QED BY <1>2, <1>5, <1>6

\* An order that was withdrawn, before a board is at work.
LEMMA BeetleCancels == ASSUME BeetleInv, Beetles!CancelSequence PROVE BeetleInv'
  <1>1. CoordinatorState
    BY CoordinatorFacts
  <1>2. /\ UNCHANGED <<bServer, bSaved, bInstalled, bRestarted, bBeetle, bUnstored, bUp, bRequests, bDown>>
        /\ ~Beetles!Updating
        /\ bTtgo' = Beetles!Finished(bTtgo) /\ bPeer' = Beetles!NoPeer
    BY DEF Beetles!CancelSequence, Beetles!Silent, Beetles!Quiet, Beetles!boards, Beetles!Finish,
           Beetles!MayCancel, Beetles!Discovering, Beetles!Updating
  <1> QED BY <1>1, <1>2, OrderEnds DEF CoordinatorState

\* The board in hand is done: the next board, the TTGO, or the end.
LEMMA BeetleAdvances == ASSUME BeetleInv, Beetles!Advance PROVE BeetleInv'
  <1>1. CoordinatorState /\ bServer.order \in AnyOrder
    BY CoordinatorFacts
  <1> DEFINE t == [bTtgo EXCEPT !.my = bServer.order, !.probe = FALSE]
             s == [t EXCEPT !.stage = "DiscoverSub"]
             r == [t EXCEPT !.stage = "ReadyForTtgo"]
  <1>2. /\ UNCHANGED <<bServer, bSaved, bInstalled, bRestarted, bBeetle, bUnstored, bUp>>
        /\ bTtgo.at = "loop" /\ Beetles!Updating /\ bPeer.state = "ready"
        /\ \/ Beetles!Finish(bTtgo) /\ UNCHANGED <<bRequests, bDown>>
           \/ Beetles!Finish(t) /\ UNCHANGED <<bRequests, bDown>>
           \/ bTtgo.stage = "UpdateMain" /\ Beetles!StartDiscovery(s)
           \/ bTtgo.stage # "UpdateMain" /\ bTtgo' = r /\ UNCHANGED <<bPeer, bRequests, bDown>>
    BY DEF Beetles!Advance, Beetles!Quiet, Beetles!boards, Beetles!Turn
  <1>3. /\ bTtgo.stage \in {"UpdateMain", "UpdateSub"} /\ ~bTtgo.clearing /\ bTtgo.expected \in Beetles!Orders
    BY <1>1, <1>2 DEF CoordinatorState, Phases, Beetles!Updating
  <1>4. /\ t \in Coordinators /\ bTtgo \in Coordinators
        /\ s \in Coordinators /\ s.stage = "DiscoverSub" /\ s.at = "loop" /\ ~s.clearing
        /\ s.expected = bTtgo.expected
        /\ r \in Coordinators /\ r.stage = "ReadyForTtgo" /\ r.at = "loop" /\ ~r.clearing
        /\ r.expected = bTtgo.expected
    BY <1>1, <1>2, <1>3 DEF CoordinatorState, Coordinators, Stages
  <1>5. Rests(bBeetle[InHand], bDown[InHand]) /\ bBeetle[InHand].fw = TargetOf[bTtgo.expected]
    BY <1>2, HandRests DEF Beetles!Target
  <1>6. ASSUME NEW u \in {bTtgo, t}, Beetles!Finish(u), UNCHANGED <<bRequests, bDown>> PROVE BeetleInv'
    <2>1. bTtgo' = Beetles!Finished(u) /\ bPeer' = Beetles!NoPeer
      BY <1>6 DEF Beetles!Finish
    <2>2. u \in Coordinators
      BY <1>4
    <2> QED BY <1>2, <1>6, <2>1, <2>2, OrderEnds
  <1> HIDE DEF t, s, r
  <1>7. CASE bTtgo.stage = "UpdateMain" /\ Beetles!StartDiscovery(s)
    <2>1. InHand = "main"
      BY <1>7 DEF InHand, Beetles!Board
    <2> QED BY <1>2, <1>3, <1>4, <1>5, <1>7, <2>1, BeetleDiscovers
  <1>8. CASE bTtgo.stage # "UpdateMain" /\ bTtgo' = r /\ UNCHANGED <<bPeer, bRequests, bDown>>
    <2>1. InHand = "sub" /\ Behind = {"main"}
      BY <1>3, <1>8 DEF InHand, Beetles!Board, Behind
    <2>2. /\ ~Beetles!Updating' /\ ~Beetles!Discovering' /\ Behind' = {"main", "sub"}
          /\ Beetles!Target' = TargetOf[bTtgo.expected] /\ Beetles!Target = TargetOf[bTtgo.expected]
      BY <1>4, <1>8 DEF Beetles!Updating, Beetles!Discovering, Behind, Beetles!Target
    <2>3. BoardsBehind'
      BY <1>1, <1>2, <1>5, <1>8, <2>1, <2>2 DEF CoordinatorState, BoardsBehind, Rests
    <2>4. PeerKnows'
      BY <1>1, <1>8, <2>2 DEF CoordinatorState, PeerKnows
    <2>5. OthersRest'
      BY <1>2, <1>8, QuietNow DEF OthersRest, Rests
    <2>6. Phases'
      BY <1>3, <1>4, <1>8 DEF Phases
    <2>7. CoordinatorShapes'
      BY <1>1, <1>2, <1>4, <1>8 DEF CoordinatorState, CoordinatorShapes
    <2> QED BY <1>2, <1>8, <2>3, <2>4, <2>5, <2>6, <2>7, NothingSent DEF BeetleInv, CoordinatorInv
  <1> QED BY <1>2, <1>6, <1>7, <1>8

\* The TTGO's own turn: it begins, or stays as it is.
LEMMA BeetleTtgo == ASSUME BeetleInv, Beetles!TtgoBegins \/ Beetles!TtgoStays PROVE BeetleInv'
  <1>1. CoordinatorState /\ bServer.order \in AnyOrder
    BY CoordinatorFacts
  <1>2. CASE Beetles!TtgoBegins
    <2> DEFINE t == [bTtgo EXCEPT !.my = bServer.order]
               s == [bTtgo EXCEPT !.my = bServer.order, !.at = "check"]
    <2>1. /\ UNCHANGED <<bServer, bInstalled, bRequests, bRestarted, bBeetle, bUnstored, bDown, bUp>>
          /\ bTtgo.stage = "ReadyForTtgo"
          /\ \/ Beetles!Finish(t) /\ UNCHANGED bSaved
             \/ bTtgo' = s /\ bSaved' \in {bSaved, bTtgo.expected} /\ UNCHANGED bPeer
      BY <1>2 DEF Beetles!TtgoBegins, Beetles!boards, Beetles!lines
    <2>2. /\ t \in Coordinators
          /\ s \in Coordinators /\ s.stage = bTtgo.stage /\ s.retry = bTtgo.retry /\ s.expected = bTtgo.expected
          /\ s.at = "check" /\ s.clearing = bTtgo.clearing /\ s.queued = bTtgo.queued
      BY <1>1 DEF CoordinatorState, Coordinators
    <2>3. bTtgo.expected \in Beetles!Orders /\ ~bTtgo.clearing /\ ~Beetles!Updating
      BY <1>1, <2>1 DEF CoordinatorState, Phases, Beetles!Updating
    <2>4. CASE Beetles!Finish(t) /\ UNCHANGED bSaved
      <3>1. bTtgo' = Beetles!Finished(t) /\ bPeer' = Beetles!NoPeer
        BY <2>4 DEF Beetles!Finish
      <3> HIDE DEF t
      <3> QED BY <2>1, <2>2, <2>3, <2>4, <3>1, OrderEnds
    <2>5. CASE bTtgo' = s /\ bSaved' \in {bSaved, bTtgo.expected} /\ UNCHANGED bPeer
      <3> HIDE DEF s
      <3>1. bSaved' \in AnyOrder
        BY <1>1, <2>3, <2>5 DEF CoordinatorState, AnyOrder
      <3> QED BY <1>1, <2>1, <2>2, <2>3, <2>5, <3>1, CoordinatorStays DEF CoordinatorState
    <2> QED BY <2>1, <2>4, <2>5
  <1>3. CASE Beetles!TtgoStays
    <2> DEFINE f == [bTtgo EXCEPT !.at = "loop", !.stage = "Failed"]
    <2>1. /\ UNCHANGED <<bServer, bPeer, bInstalled, bRequests, bRestarted, bBeetle, bUnstored, bDown, bUp>>
          /\ bTtgo.at = "check" /\ bSaved' = Beetles!NoOrder /\ bTtgo' = f
      BY <1>3 DEF Beetles!TtgoStays, Beetles!boards, Beetles!lines
    <2>2. /\ bTtgo.stage = "ReadyForTtgo" /\ bTtgo.expected \in Beetles!Orders /\ ~bTtgo.clearing
          /\ ~Beetles!Updating
      BY <1>1, <2>1 DEF CoordinatorState, Phases, Beetles!Updating
    <2>3. /\ f \in Coordinators /\ f.stage = "Failed" /\ f.at = "loop" /\ ~f.clearing
          /\ f.expected = bTtgo.expected
      BY <1>1, <2>2 DEF CoordinatorState, Coordinators, Stages
    <2> HIDE DEF f
    <2> QED BY <2>1, <2>2, <2>3, OrderFails DEF AnyOrder
  <1> QED BY <1>2, <1>3

\* A restart of the TTGO ends the sequence: what the boards do then is told by restarted.
LEMMA BeetleBoots ==
    ASSUME BeetleInv, NEW new \in BOOLEAN, Beetles!Booted(new),
           bRestarted' \in BOOLEAN, bRestarted => bRestarted', ~bRestarted' => ~Beetles!Updating
    PROVE  BeetleInv'
  <1>1. CoordinatorState /\ BoardShapes
    BY CoordinatorFacts DEF BeetleInv
  <1> DEFINE s == [Beetles!Reset EXCEPT !.clearing = TRUE, !.expected = bSaved]
  <1>2. /\ UNCHANGED <<bServer, bRequests, bBeetle, bUnstored, bDown>>
        /\ bTtgo' = s \/ bTtgo' = Beetles!Reset
        /\ bSaved' \in {bSaved, Beetles!NoOrder} /\ bPeer' = Beetles!NoPeer /\ bInstalled' = new
        /\ bUp' = [b \in Board |-> <<>>]
    BY DEF Beetles!Booted, Beetles!boards, Board
  <1>3. s \in Coordinators /\ s.stage = "Idle" /\ s.at = "loop" /\ ~s.queued
    <2>1. 0 \in 0 .. BoardAttempts - 1
      BY BeetleAssumption
    <2> QED BY <1>1, <2>1 DEF CoordinatorState, Coordinators, Stages, AnyOrder, Beetles!Reset, Board
  <1> HIDE DEF s
  <1>4. bTtgo' \in Coordinators /\ bTtgo'.stage = "Idle" /\ bTtgo'.at = "loop" /\ ~bTtgo'.queued
    BY <1>2, <1>3, Resets
  <1>5. BoardShapes' /\ BoardsHonest'
    <2>1. <<>> \in Seq(UpLines) /\ Range(<<>>) = {}
      BY LinesNone
    <2>2. BoardShapes'
      BY <1>1, <1>2, <2>1 DEF BoardShapes
    <2>3. ASSUME NEW b \in Board PROVE Honest(bBeetle[b], bDown[b], bUp'[b], bRequests, bUnstored)
      <3>1. bUp'[b] = <<>>
        BY <1>2
      <3>2. Honest(bBeetle[b], bDown[b], bUp[b], bRequests, bUnstored)
        BY DEF BeetleInv, BoardsHonest
      <3> QED BY <2>1, <3>1, <3>2, SaysLess
    <2> QED BY <1>2, <2>2, <2>3 DEF BoardsHonest
  <1>6. PeerKnows' /\ BoardsBehind' /\ OthersRest'
    BY <1>2, <1>4, SequenceOver
  <1>7. Phases'
    BY <1>4 DEF Phases
  <1>8. CoordinatorShapes'
    BY <1>1, <1>2, <1>4 DEF CoordinatorState, CoordinatorShapes, AnyOrder
  <1> QED BY <1>5, <1>6, <1>7, <1>8 DEF BeetleInv, CoordinatorInv

\* The restarts of the TTGO, into its new image or by accident.
LEMMA BeetleTtgoRestarts ==
    ASSUME BeetleInv, Beetles!TtgoInstalls \/ Beetles!TtgoCrashes
    PROVE  BeetleInv'
  <1>1. CoordinatorState
    BY CoordinatorFacts
  <1>2. CASE Beetles!TtgoInstalls
    <2>1. bTtgo.at = "check" /\ Beetles!Booted(TRUE) /\ bRestarted' = bRestarted
      BY <1>2 DEF Beetles!TtgoInstalls
    <2>2. ~Beetles!Updating
      BY <1>1, <2>1 DEF CoordinatorState, Phases, Beetles!Updating
    <2> QED BY <1>1, <2>1, <2>2, BeetleBoots DEF CoordinatorState
  <1>3. CASE Beetles!TtgoCrashes
    <2>1. /\ bRestarted' = (bRestarted \/ Beetles!Active)
          /\ Beetles!Booted(bInstalled) \/ \E new \in BOOLEAN : Beetles!Booted(new)
      BY <1>3 DEF Beetles!TtgoCrashes
    <2>2. PICK new \in BOOLEAN : Beetles!Booted(new)
      BY <1>1, <2>1 DEF CoordinatorState
    <2>3. bRestarted' \in BOOLEAN /\ (bRestarted => bRestarted') /\ (~bRestarted' => ~Beetles!Updating)
      BY <2>1 DEF Beetles!Active, Beetles!Updating
    <2> QED BY <2>2, <2>3, BeetleBoots
  <1> QED BY <1>2, <1>3

-----------------------------------------------------------------------------
\* Every step keeps the invariant.
LEMMA BeetleNext == ASSUME BeetleInv, [Beetles!Next]_(Beetles!vars) PROVE BeetleInv'
  <1>1. CASE UNCHANGED Beetles!vars
    <2>1. UNCHANGED <<bServer, bTtgo, bPeer, bSaved, bInstalled, bBeetle, bDown, bUp, bRequests, bRestarted,
                      bUnstored, bEvents>>
      BY <1>1 DEF Beetles!vars, Beetles!coordinator, Beetles!boards, Beetles!lines
    <2>2. BoardShapes' /\ BoardsHonest'
      BY <2>1, NothingSent
    <2>3. CoordinatorShapes' /\ Phases'
      BY <2>1 DEF BeetleInv, CoordinatorInv, CoordinatorShapes, Phases
    <2>4. PeerKnows' /\ BoardsBehind' /\ OthersRest'
      BY <2>1, StageStays
    <2> QED BY <2>2, <2>3, <2>4 DEF BeetleInv, CoordinatorInv
  <1>2. ASSUME NEW b \in Board,
               \/ Beetles!Read(b) \/ Beetles!Worker(b) \/ Beetles!Hear(b) \/ Beetles!RfidInit(b)
               \/ Beetles!Crash(b) \/ Beetles!Lose(b) \/ Beetles!Receive(b)
        PROVE  BeetleInv'
    <2>1. CASE Beetles!Worker(b)
      <3>1. CASE Beetles!Leave(b)
        BY <3>1, BeetleRestarts DEF Beetles!Leave
      <3> QED BY <2>1, <3>1, BeetleWorks DEF Beetles!Worker
    <2>2. CASE Beetles!Crash(b)
      BY <2>2, BeetleRestarts DEF Beetles!Crash
    <2> QED BY <1>2, <2>1, <2>2, BeetleObeys, BeetleHears, BeetleReads, BeetleLoses, BeetleReceives
  <1>3. CASE Beetles!Sequence
    BY <1>3, BeetleStarts, BeetleCancels, BeetleRetries, BeetleUpdates, BeetleProbes, BeetleAdvances,
       BeetleTtgo, BeetleTtgoRestarts, BeetleClears DEF Beetles!Sequence
  <1>4. CASE Beetles!Poll \/ Beetles!Repeat \/ Beetles!TtgoCrashes \/ Beetles!Operator
    BY <1>4, BeetlePolls, BeetleRepeats, BeetleTtgoRestarts, BeetleOrders
  <1> QED BY <1>1, <1>2, <1>3, <1>4 DEF Beetles!Next, Board

\* The inductive invariant of the update of all boards.
THEOREM BeetleInvHolds == Beetles!Spec => []BeetleInv
  <1>1. Beetles!Init => BeetleInv
    BY BeetleInit
  <1>2. BeetleInv /\ [Beetles!Next]_(Beetles!vars) => BeetleInv'
    BY BeetleNext
  <1> QED BY <1>1, <1>2, PTL DEF Beetles!Spec

\* The TTGO begins its own update only when both Beetles run the order's version and
\* neither is at work, and no Beetle writes flash while the door is free, whatever is
\* lost, repeated or restarted (beetle_ota.ino, ota.cpp).
THEOREM BeetlesSafeHolds == Beetles!Spec => []BeetlesSafe
  <1>1. BeetleInv => BeetlesSafe
    BY BeetleTypes
  <1> QED BY <1>1, BeetleInvHolds, PTL

-----------------------------------------------------------------------------
(***************************************************************************)
(* The clock probe (ClockProbe): a record is placed where the PC's clock   *)
(* stood when it was logged.                                               *)
(***************************************************************************)
(* The inductive invariant, by its parts. *)

\* The device's uptime after x units of time.
Up(x) == x + ((cSkew * x) \div (2 * Drift))

\* What a record keeps, and what a coverage says.
Dated == [boot : Nat, uptime : 0 .. Wrap - 1, at : Nat]
Covers == [boot : Nat, first : Nat, last : Nat, wraps : Int]

\* The types of PC, device and network.
ClockShapes ==
    /\ cNow \in 0 .. ClockHorizon /\ cOffset \in Int /\ cStepped \in 0 .. MaxSteps
    /\ cSkew \in {-1, 0, 1} /\ cBoot \in 1 .. MaxBoot /\ cBooted \in 0 .. cNow
    /\ cRecords \in Seq(Dated) /\ Len(cRecords) <= MaxSeq
    /\ cCovered \in Covers
    /\ cWaiting \in [boot : {cBoot}, uptime : 0 .. Wrap - 1, wraps : Int, at : 0 .. cNow] \cup {Clock!NoRecord}
    /\ cWaiting # Clock!NoRecord => Len(cRecords) < MaxSeq
    /\ cAsked \in -Interval .. cNow
    /\ cPending \subseteq [token : Tokens, mono : 0 .. cNow, wall : Int]
    /\ cReplies \subseteq [token : Tokens, uptime : Int, cover : Covers, offset : Int]
    /\ cAnchors \subseteq [id : Tokens, min : Int, max : Int, uptime : Int, cover : Covers, offset : Int]

\* The wall clock is where it began, or where its step has put it; an answer was given
\* after its challenge, before or after the step.
OffsetsKnown ==
    /\ cStepped = 0 => cOffset = 0
    /\ cStepped # 0 => cOffset \in StepSizes
    /\ \A p \in cPending : p.wall - p.mono \in {0, cOffset}
    /\ \A p \in cPending, r \in cReplies : p.token = r.token => r.offset \in {p.wall - p.mono, cOffset}

\* The rest is about the boots, which began at the times of a sequence.
\* A record keeps the low bits of its uptime.
RecordsTrue(bt) ==
    /\ \A i \in DOMAIN cRecords : LET r == cRecords[i] IN
          r.boot \in 1 .. cBoot /\ r.at >= bt[r.boot] /\ r.uptime = Up(r.at - bt[r.boot]) % Wrap
    /\ cWaiting # Clock!NoRecord =>
          /\ cWaiting.at >= cBooted /\ cWaiting.uptime = Up(cWaiting.at - cBooted) % Wrap
          /\ cWaiting.wraps = Up(cWaiting.at - cBooted) \div Wrap

\* The records that a coverage names are of one boot and one round of its counter.
CoverTrue(c, bt) ==
    /\ c.last <= Len(cRecords)
    /\ \A i \in DOMAIN cRecords : LET r == cRecords[i] IN
          c.first <= i /\ i <= c.last =>
              r.boot = c.boot /\ c.wraps = Up(r.at - bt[r.boot]) \div Wrap

\* That of the device is of its present boot.
CoveredTrue(bt) ==
    /\ CoverTrue(cCovered, bt) /\ cCovered.boot \in {0, cBoot} /\ cCovered.first <= cCovered.last
    /\ cCovered.boot = 0 => cCovered.first = 0
    /\ cCovered.boot # 0 => cCovered.last = Len(cRecords)

\* An answer was given at a time, by the clock of the device and with its offset of the PC.
Sampled(r, t, bt) == t >= bt[r.cover.boot] /\ r.uptime = Up(t - bt[r.cover.boot])

RepliesTrue(bt) ==
    \A r \in cReplies :
        /\ CoverTrue(r.cover, bt) /\ r.cover.boot \in 1 .. cBoot
        /\ \E t \in 0 .. cNow :
              Sampled(r, t, bt) /\ \A p \in cPending : p.token = r.token => p.mono <= t

\* An anchor holds that time, with room for the rounding of two uptimes.
AnchorsTrue(bt) ==
    \A a \in cAnchors :
        /\ CoverTrue(a.cover, bt) /\ a.cover.boot \in 1 .. cBoot
        /\ \E t \in 0 .. cNow :
              Sampled(a, t, bt) /\ a.min < t + a.offset /\ t + a.offset < a.max

Boots(bt) ==
    /\ bt \in Seq(Nat) /\ Len(bt) = cBoot /\ bt[cBoot] = cBooted
    /\ RecordsTrue(bt) /\ CoveredTrue(bt) /\ RepliesTrue(bt) /\ AnchorsTrue(bt)

\* The inductive invariant of the clock probe.
ClockInv == ClockShapes /\ OffsetsKnown /\ \E bt \in Seq(Nat) : Boots(bt)

-----------------------------------------------------------------------------
\* What the assumptions say of the numbers.
LEMMA ClockNumbers ==
    /\ ClockHorizon \in Nat /\ Wrap \in Nat \ {0} /\ MaxSeq \in Nat /\ MaxBoot \in Nat \ {0}
    /\ Interval \in Nat /\ Drift \in Nat \ {0} /\ Guard \in Nat \ {0}
    /\ StepSizes \subseteq Int /\ -Guard \notin StepSizes /\ MaxSteps \in 0 .. 1
  BY ClockAssumption DEF ClockAssumption

\* Quotient and remainder.
LEMMA Quotient ==
    ASSUME NEW n \in Int, NEW w \in Nat \ {0}
    PROVE  /\ w * (n \div w) + (n % w) = n /\ n \div w \in Int /\ n % w \in 0 .. w - 1
           /\ w * (n \div w) <= n /\ n < w * (n \div w) + w
  OBVIOUS

LEMMA Products == ASSUME NEW k \in Nat, NEW m \in Int, NEW n \in Int, m <= n PROVE k * m <= k * n
  OBVIOUS

\* Uptimes are numbers.
LEMMA Uptimes == ASSUME ClockInv, NEW x \in Int PROVE Up(x) \in Int
  <1>1. cSkew \in {-1, 0, 1} /\ 2 * Drift \in Nat \ {0}
    BY ClockNumbers DEF ClockInv, ClockShapes
  <1>2. cSkew * x \in Int
    BY <1>1
  <1>3. (cSkew * x) \div (2 * Drift) \in Int
    BY <1>1, <1>2, Quotient
  <1> QED BY <1>3 DEF Up

\* A difference of two uptimes is that of the times, but for the growth that Anchor
\* allows for and one unit of rounding.
LEMMA DriftBound ==
    ASSUME ClockInv, NEW x \in Int, NEW y \in Int
    PROVE  /\ Clock!Growth(Up(x) - Up(y)) \in Nat
           /\ (x - y) - (Up(x) - Up(y)) <= Clock!Growth(Up(x) - Up(y)) + 1
           /\ (Up(x) - Up(y)) - (x - y) <= Clock!Growth(Up(x) - Up(y)) + 1
  <1> DEFINE n == 2 * Drift
             fx == (cSkew * x) \div n
             fy == (cSkew * y) \div n
             F == fx - fy
             d == Up(x) - Up(y)
             A == Clock!Abs(d)
             G == (A + Drift - 1) \div Drift
             B == IF F < 0 THEN -F ELSE F
  <1>1. cSkew \in {-1, 0, 1} /\ n \in Nat \ {0} /\ Drift \in Nat \ {0}
    BY ClockNumbers DEF ClockInv, ClockShapes
  <1>2. cSkew * x \in Int /\ cSkew * y \in Int
    BY <1>1
  <1>3. fx \in Int /\ fy \in Int /\ F \in Int /\ B \in Nat
    BY <1>1, <1>2, Quotient
  <1>4. /\ n * fx <= cSkew * x /\ cSkew * x < n * fx + n
        /\ n * fy <= cSkew * y /\ cSkew * y < n * fy + n
    BY <1>1, <1>2, Quotient
  <1>5. d = (x - y) + F /\ d \in Int
    BY <1>3 DEF Up
  <1>6. A \in Nat /\ A >= d /\ A >= -d
    BY <1>5 DEF Clock!Abs
  <1>7. G \in Int /\ Drift * G > A - 1
    <2>1. A + Drift - 1 \in Int
      BY <1>1, <1>6
    <2>2. G \in Int /\ A + Drift - 1 < Drift * G + Drift
      BY <2>1, <1>1, Quotient
    <2>3. Drift * G \in Int
      BY <2>2, <1>1
    <2> HIDE DEF G
    <2> QED BY <2>2, <2>3, <1>1, <1>6
  <1>8. G \in Nat /\ Drift * G \in Nat /\ G <= Drift * G
    <2>1. CASE G < 0
      <3>1. Drift * G <= Drift * (-1)
        BY <2>1, <1>1, <1>7, Products
      <3>2. Drift * G <= -1 /\ Drift * G \in Int
        BY <3>1, <1>1, <1>7
      <3> QED BY <3>2, <1>7, <1>6
    <2>2. CASE G >= 0
      <3>1. G * 1 <= G * Drift
        BY <2>2, <1>1, <1>7, Products
      <3> QED BY <3>1, <2>2, <1>1, <1>7
    <2> QED BY <2>1, <2>2, <1>7
  <1> HIDE DEF n, fx, fy, d, A, G
  <1>9. n * F = n * fx - n * fy /\ n * fx \in Int /\ n * fy \in Int
    BY <1>1, <1>3
  <1>10. /\ cSkew * x - cSkew * y <= A + B
         /\ cSkew * y - cSkew * x <= A + B
    <2>1. x - y = d - F
      BY <1>5, <1>3
    <2>2. x - y <= A + B /\ y - x <= A + B
      BY <2>1, <1>3, <1>5, <1>6
    <2>3. CASE cSkew = 1 BY <2>3, <2>2
    <2>4. CASE cSkew = 0 BY <2>4, <2>2, <1>6, <1>3
    <2>5. CASE cSkew = -1 BY <2>5, <2>2
    <2> QED BY <2>3, <2>4, <2>5, <1>1
  <1>11. n * F < A + B + n /\ -(n * F) < A + B + n
    BY <1>4, <1>9, <1>10, <1>1, <1>2, <1>3, <1>6
  <1>12. n * B < A + B + n /\ n * B \in Int
    <2>1. CASE F < 0
      <3>1. n * B = -(n * F)
        BY <2>1, <1>1, <1>3
      <3> QED BY <3>1, <1>11, <1>1, <1>3
    <2>2. CASE F >= 0
      <3>1. B = F
        BY <2>2, <1>3
      <3> QED BY <3>1, <1>11, <1>1, <1>3
    <2> QED BY <2>1, <2>2, <1>3
  <1>13. B <= G + 1
    <2> SUFFICES ASSUME B >= G + 2 PROVE FALSE
      BY <1>3, <1>8
    <2>1. n - 1 \in Nat /\ G + 2 \in Int
      BY <1>1, <1>8
    <2>2. (n - 1) * (G + 2) <= (n - 1) * B
      BY <2>1, <1>3, <1>8, Products
    <2>3. (n - 1) * B = n * B - B
      BY <1>1, <1>3
    <2>4. (n - 1) * (G + 2) = 2 * (Drift * G) + 4 * Drift - G - 2
      <3>1. n = 2 * Drift
        BY DEF n
      <3> QED BY <3>1, <1>1, <1>8
    <2>5. n = 2 * Drift
      BY DEF n
    <2>6. 2 * (Drift * G) + 4 * Drift - G - 2 < A + 2 * Drift
      BY <2>2, <2>3, <2>4, <2>5, <1>12, <1>1, <1>3, <1>6, <1>8
    <2> QED BY <2>6, <1>7, <1>8, <1>1, <1>6
  <1>14. (x - y) - d <= B /\ d - (x - y) <= B
    BY <1>5, <1>3
  <1>15. Clock!Growth(Up(x) - Up(y)) = G
    BY DEF Clock!Growth, G, A, d
  <1> QED BY <1>13, <1>14, <1>15, <1>8, <1>3, <1>5 DEF d

\* The first state.
LEMMA ClockInit == Clock!Init => ClockInv
  <1> SUFFICES ASSUME Clock!Init PROVE ClockInv
    OBVIOUS
  <1>1. /\ cNow = 0 /\ cOffset = 0 /\ cStepped = 0 /\ cSkew \in {-1, 0, 1} /\ cBoot = 1 /\ cBooted = 0
        /\ cWaiting = Clock!NoRecord /\ cRecords = <<>> /\ cCovered = Clock!NoCover
        /\ cPending = {} /\ cAsked = -Interval /\ cReplies = {} /\ cAnchors = {}
    BY DEF Clock!Init
  <1>2. cCovered \in Covers /\ cCovered.boot = 0 /\ cCovered.first = 0 /\ cCovered.last = 0
    BY <1>1 DEF Clock!NoCover, Covers
  <1>3. ClockShapes
    <2>1. cRecords \in Seq(Dated) /\ Len(cRecords) = 0
      BY <1>1
    <2>2. cAsked \in -Interval .. cNow
      BY <1>1, ClockNumbers
    <2> QED BY <1>1, <1>2, <2>1, <2>2, ClockNumbers DEF ClockShapes
  <1>4. OffsetsKnown
    BY <1>1 DEF OffsetsKnown
  <1>5. Boots(<<0>>)
    <2>1. <<0>> \in Seq(Nat) /\ Len(<<0>>) = cBoot /\ <<0>>[cBoot] = cBooted
      BY <1>1
    <2>2. DOMAIN cRecords = {} /\ Len(cRecords) = 0
      BY <1>1
    <2> QED BY <1>1, <1>2, <2>1, <2>2 DEF Boots, RecordsTrue, CoveredTrue, CoverTrue, RepliesTrue, AnchorsTrue
  <1>6. <<0>> \in Seq(Nat)
    OBVIOUS
  <1> QED BY <1>3, <1>4, <1>5, <1>6 DEF ClockInv

\* What a type of the invariant says, for arithmetic.
LEMMA ClockNats ==
    ASSUME ClockInv
    PROVE  /\ cNow \in Nat /\ cOffset \in Int /\ cBoot \in Nat /\ cBoot >= 1 /\ cBooted \in Nat /\ cBooted <= cNow
           /\ \A i \in DOMAIN cRecords : /\ cRecords[i] \in Dated
                                         /\ i \in 1 .. Len(cRecords)
           /\ Len(cRecords) \in Nat /\ DOMAIN cRecords = 1 .. Len(cRecords)
  <1>1. cRecords \in Seq(Dated)
    BY DEF ClockInv, ClockShapes
  <1>2. Len(cRecords) \in Nat /\ DOMAIN cRecords = 1 .. Len(cRecords)
    BY <1>1
  <1>3. \A i \in DOMAIN cRecords : cRecords[i] \in Dated
    BY <1>1, ElementOfSeq, <1>2
  <1> QED BY <1>2, <1>3, ClockNumbers DEF ClockInv, ClockShapes

\* An anchor of the time t holds, in its interval, the time of a record of the same
\* round of the counter.
LEMMA RoundIs ==
    ASSUME ClockInv, NEW x \in Int, NEW y \in Int
    PROVE  /\ Up(x) \in Int /\ Up(y) \in Int
           /\ (Up(x) \div Wrap) * Wrap + ((Up(x) % Wrap) - Up(y)) = Up(x) - Up(y)
  <1> DEFINE u == Up(x)
             v == Up(y)
  <1>1. u \in Int /\ v \in Int
    BY Uptimes
  <1> HIDE DEF u, v
  <1>2. Wrap * (u \div Wrap) + (u % Wrap) = u /\ u \div Wrap \in Int /\ u % Wrap \in Int
    BY <1>1, ClockNumbers, Quotient
  <1>3. Wrap * (u \div Wrap) = (u \div Wrap) * Wrap /\ (u \div Wrap) * Wrap \in Int
    BY <1>2, ClockNumbers
  <1>4. (u \div Wrap) * Wrap + ((u % Wrap) - v) = u - v
    <2> SUFFICES ASSUME NEW p, NEW q, p = (u \div Wrap) * Wrap, q = u % Wrap
                 PROVE  p + (q - v) = u - v
      OBVIOUS
    <2>1. p \in Int /\ q \in Int /\ p + q = u
      BY <1>2, <1>3
    <2> QED BY <2>1, <1>1
  <1> QED BY <1>1, <1>4 DEF u, v

LEMMA PlacedBetween ==
    ASSUME ClockInv, NEW x \in Int, NEW y \in Int, NEW at \in Int, NEW t \in Int, NEW o \in Int,
           NEW lo \in Int, NEW hi \in Int, NEW d, d = Up(x) - Up(y),
           x - y = at - t, lo < t + o, t + o < hi
    PROVE  /\ lo + (d - Clock!Growth(d)) <= at + o
           /\ at + o <= hi + (d + Clock!Growth(d))
  <1> DEFINE G == Clock!Growth(d)
  <1>1. d \in Int
    BY Uptimes
  <1>2. G \in Nat /\ (x - y) - d <= G + 1 /\ d - (x - y) <= G + 1
    BY DriftBound
  <1> HIDE DEF G
  <1>3. (at - t) - d <= G + 1 /\ d - (at - t) <= G + 1
    BY <1>2
  <1>4. lo + (d - G) <= at + o /\ at + o <= hi + (d + G)
    BY <1>1, <1>2, <1>3
  <1> QED BY <1>4 DEF G

\* The invariant implies the property and the module's types.
LEMMA ClockTypes == ClockInv => PlacedRight
  <1> SUFFICES ASSUME ClockInv PROVE PlacedRight
    OBVIOUS
  <1>1. PICK bt \in Seq(Nat) : Boots(bt)
    BY DEF ClockInv
  <1>2. Clock!TypeOK
    <2>1. cWaiting = Clock!NoRecord \/ (cWaiting.boot = cBoot /\ cWaiting.uptime \in 0 .. Wrap - 1)
      BY DEF ClockInv, ClockShapes
    <2>2. \A i \in DOMAIN cRecords : cRecords[i].boot \in 1 .. cBoot /\ cRecords[i].uptime \in 0 .. Wrap - 1
      BY <1>1, ClockNats DEF Boots, RecordsTrue, Dated
    <2>3. cCovered.boot \in {0, cBoot} /\ cCovered.first <= cCovered.last /\ cCovered.last \in 0 .. Len(cRecords)
      BY <1>1, ClockNats DEF Boots, CoveredTrue, CoverTrue, ClockInv, ClockShapes, Covers
    <2>4. \A p \in cPending : p.token \in Tokens /\ p.mono \in 0 .. cNow
      BY DEF ClockInv, ClockShapes
    <2>5. {r.token : r \in cReplies} \subseteq Tokens /\ {b.id : b \in cAnchors} \subseteq Tokens
      BY DEF ClockInv, ClockShapes
    <2> QED BY <2>1, <2>2, <2>3, <2>4, <2>5, ClockNumbers DEF Clock!TypeOK, ClockInv, ClockShapes
  <1>3. ASSUME NEW seq \in DOMAIN cRecords, NEW b \in cAnchors, Clock!Matches(b, seq)
        PROVE  /\ cRecords[seq].at + b.offset \in Int
               /\ Clock!Lower(b, seq) <= cRecords[seq].at + b.offset
               /\ cRecords[seq].at + b.offset <= Clock!Upper(b, seq)
    <2>1. PICK at, m, u : at = cRecords[seq].at /\ m = cRecords[seq].boot /\ u = cRecords[seq].uptime
      OBVIOUS
    <2>2. PICK s : s = bt[m]
      OBVIOUS
    <2>3. at \in Int /\ s \in Int /\ m \in 1 .. cBoot /\ u = Up(at - s) % Wrap
      <3>1. m \in 1 .. cBoot /\ u = Up(at - s) % Wrap
        BY <1>1, <2>1, <2>2 DEF Boots, RecordsTrue
      <3>2. s \in Nat
        BY <1>1, <2>2, <3>1, ElementOfSeq DEF Boots
      <3>3. at \in Nat
        BY <2>1, ClockNats DEF Dated
      <3> QED BY <3>1, <3>2, <3>3
    <2>4. m = b.cover.boot /\ b.cover.first <= seq /\ seq <= b.cover.last
      BY <1>3, <2>1 DEF Clock!Matches
    <2>5. b.cover.wraps = Up(at - s) \div Wrap
      BY <1>1, <2>1, <2>2, <2>4 DEF Boots, AnchorsTrue, CoverTrue
    <2>6. PICK t \in 0 .. cNow : Sampled(b, t, bt) /\ b.min < t + b.offset /\ t + b.offset < b.max
      BY <1>1 DEF Boots, AnchorsTrue
    <2>7. t \in Int /\ b.uptime = Up(t - s)
      BY <2>2, <2>4, <2>6, ClockNats DEF Sampled
    <2>8. b.min \in Int /\ b.max \in Int /\ b.offset \in Int
      BY DEF ClockInv, ClockShapes
    <2>9. PICK d : d = Up(at - s) - Up(t - s)
      OBVIOUS
    <2>10. Clock!Delta(b, seq) = d
      <3>1. Clock!Delta(b, seq) = b.cover.wraps * Wrap + (u - b.uptime)
        BY <2>1 DEF Clock!Delta
      <3>2. at - s \in Int /\ t - s \in Int
        BY <2>3, <2>7
      <3> QED BY <3>1, <3>2, <2>3, <2>5, <2>7, <2>9, RoundIs
    <2>11. /\ b.min + (d - Clock!Growth(d)) <= at + b.offset
           /\ at + b.offset <= b.max + (d + Clock!Growth(d))
      <3>1. at - s \in Int /\ t - s \in Int /\ (at - s) - (t - s) = at - t
        BY <2>3, <2>7
      <3> QED BY <3>1, <2>3, <2>6, <2>7, <2>8, <2>9, PlacedBetween
    <2>12. /\ d \in Int /\ Clock!Growth(d) \in Int /\ at + b.offset \in Int
      <3>1. at - s \in Int /\ t - s \in Int
        BY <2>3, <2>7
      <3>2. Clock!Growth(d) \in Int
        BY <3>1, <2>9, DriftBound
      <3>3. d \in Int
        BY <3>1, <2>9, Uptimes
      <3> QED BY <3>2, <3>3, <2>3, <2>8
    <2>13. PICK g : g = Clock!Growth(d)
      OBVIOUS
    <2>14. /\ Clock!Lower(b, seq) = b.min + (d - g)
           /\ Clock!Upper(b, seq) = (b.max + d) + g
      BY <2>10, <2>13, <2>8, <2>12 DEF Clock!Lower, Clock!Upper
    <2>15. (b.max + d) + g = b.max + (d + g)
      BY <2>8, <2>12, <2>13
    <2> QED BY <2>1, <2>11, <2>12, <2>13, <2>14, <2>15
  <1>4. Clock!PlacedRight
    <2> SUFFICES ASSUME NEW seq \in DOMAIN cRecords, NEW o \in {b.offset : b \in Clock!Applicable(seq)},
                        \A b \in Clock!Applicable(seq) : b.offset = o
                 PROVE  cRecords[seq].at + o \in Clock!Aligned(seq)
      BY DEF Clock!PlacedRight
    <2>1. \A b \in Clock!Applicable(seq) : b \in cAnchors /\ Clock!Matches(b, seq)
      BY DEF Clock!Applicable
    <2>2. cRecords[seq].at + o \in Int
      BY <2>1, <1>3
    <2>3. \A b \in Clock!Applicable(seq) :
             Clock!Lower(b, seq) <= cRecords[seq].at + o /\ cRecords[seq].at + o <= Clock!Upper(b, seq)
      BY <2>1, <1>3
    <2> QED BY <2>2, <2>3 DEF Clock!Aligned
  <1> QED BY <1>2, <1>4 DEF PlacedRight

-----------------------------------------------------------------------------
\* A step that leaves the device alone.
LEMMA DeviceSame ==
    ASSUME UNCHANGED <<cSkew, cBoot, cBooted, cWaiting, cRecords, cCovered>>, NEW bt
    PROVE  /\ RecordsTrue(bt)' <=> RecordsTrue(bt)
           /\ CoveredTrue(bt)' <=> CoveredTrue(bt)
           /\ \A c : CoverTrue(c, bt)' <=> CoverTrue(c, bt)
           /\ \A r, t : Sampled(r, t, bt)' <=> Sampled(r, t, bt)
           /\ bt \in Seq(Nat) /\ RecordsTrue(bt)' /\ CoveredTrue(bt)' /\ RepliesTrue(bt)' /\ AnchorsTrue(bt)'
                /\ Len(bt) = cBoot /\ bt[cBoot] = cBooted => Boots(bt)'
  <1>1. \A x : Up(x)' = Up(x)
    BY DEF Up
  <1>2. \A c : CoverTrue(c, bt)' <=> CoverTrue(c, bt)
    BY <1>1 DEF CoverTrue
  <1>3. RecordsTrue(bt)' <=> RecordsTrue(bt)
    BY <1>1 DEF RecordsTrue, Clock!NoRecord
  <1>4. CoveredTrue(bt)' <=> CoveredTrue(bt)
    BY <1>1 DEF CoveredTrue, CoverTrue
  <1>5. \A r, t : Sampled(r, t, bt)' <=> Sampled(r, t, bt)
    BY <1>1 DEF Sampled
  <1> QED BY <1>2, <1>3, <1>4, <1>5 DEF Boots

\* The invariant is kept as time passes.
LEMMA ClockTicks == ASSUME ClockInv, Clock!Tick PROVE ClockInv'
  <1>1. /\ cNow' = cNow + 1 /\ cNow < ClockHorizon
        /\ UNCHANGED <<cOffset, cStepped, cPending, cAsked, cAnchors, cReplies>>
        /\ UNCHANGED <<cSkew, cBoot, cBooted, cWaiting, cRecords, cCovered>>
    BY DEF Clock!Tick, Clock!pc, Clock!device
  <1>2. \A n \in 0 .. cNow : n \in 0 .. cNow'
    BY <1>1, ClockNats
  <1>3. ClockShapes'
    <2>1. cNow' \in 0 .. ClockHorizon /\ cBooted' \in 0 .. cNow' /\ cAsked' \in -Interval .. cNow'
      BY <1>1, ClockNats, ClockNumbers DEF ClockInv, ClockShapes
    <2>2. cPending' \subseteq [token : Tokens, mono : 0 .. cNow', wall : Int]
      BY <1>1, <1>2 DEF ClockInv, ClockShapes
    <2>3. cWaiting' \in [boot : {cBoot'}, uptime : 0 .. Wrap - 1, wraps : Int, at : 0 .. cNow'] \cup {Clock!NoRecord}
      BY <1>1, <1>2 DEF ClockInv, ClockShapes
    <2> QED BY <1>1, <2>1, <2>2, <2>3 DEF ClockInv, ClockShapes, Clock!NoRecord
  <1>4. OffsetsKnown'
    BY <1>1 DEF ClockInv, OffsetsKnown
  <1>5. PICK bt \in Seq(Nat) : Boots(bt)
    BY DEF ClockInv
  <1>6. RepliesTrue(bt)' /\ AnchorsTrue(bt)'
    BY <1>1, <1>2, <1>5, DeviceSame DEF Boots, RepliesTrue, AnchorsTrue
  <1>7. Boots(bt)'
    BY <1>1, <1>5, <1>6, DeviceSame DEF Boots
  <1> QED BY <1>3, <1>4, <1>7 DEF ClockInv

\* The clock of the PC is set: what was read before was read by the clock as it began.
LEMMA ClockSteps == ASSUME ClockInv, NEW d \in StepSizes, Clock!StepClock(d) PROVE ClockInv'
  <1>1. /\ cStepped < MaxSteps /\ cStepped' = cStepped + 1 /\ cOffset' = cOffset + d
        /\ UNCHANGED <<cNow, cPending, cAsked, cAnchors, cReplies>>
        /\ UNCHANGED <<cSkew, cBoot, cBooted, cWaiting, cRecords, cCovered>>
    BY DEF Clock!StepClock, Clock!device
  <1>2. d \in Int /\ cStepped \in Nat /\ cStepped = 0 /\ cStepped' = 1 /\ MaxSteps = 1
    BY <1>1, ClockNumbers DEF ClockInv, ClockShapes
  <1>3. cOffset = 0 /\ cOffset' = d
    BY <1>1, <1>2 DEF ClockInv, OffsetsKnown
  <1>4. ClockShapes'
    BY <1>1, <1>2, <1>3 DEF ClockInv, ClockShapes, Clock!NoRecord
  <1>5. OffsetsKnown'
    BY <1>1, <1>2, <1>3 DEF ClockInv, OffsetsKnown
  <1>6. PICK bt \in Seq(Nat) : Boots(bt)
    BY DEF ClockInv
  <1>7. RepliesTrue(bt)' /\ AnchorsTrue(bt)'
    BY <1>1, <1>6, DeviceSame DEF Boots, RepliesTrue, AnchorsTrue
  <1>8. Boots(bt)'
    BY <1>1, <1>6, <1>7, DeviceSame DEF Boots
  <1> QED BY <1>4, <1>5, <1>8 DEF ClockInv

\* A challenge has a token of its own, so no answer to it is out.
LEMMA ClockAsks == ASSUME ClockInv, NEW k \in Tokens, Clock!Challenge(k) PROVE ClockInv'
  <1> DEFINE new == [token |-> k, mono |-> cNow, wall |-> cNow + cOffset]
  <1>1. /\ cAsked' = cNow /\ UNCHANGED <<cNow, cOffset, cStepped, cAnchors, cReplies>>
        /\ \A r \in cReplies : r.token # k
        /\ \A p \in cPending' : p \in cPending \/ p = new
        /\ UNCHANGED <<cSkew, cBoot, cBooted, cWaiting, cRecords, cCovered>>
    BY DEF Clock!Challenge, Clock!device, Clock!Wall
  <1>2. new \in [token : Tokens, mono : 0 .. cNow, wall : Int] /\ new.wall - new.mono = cOffset /\ new.token = k
    BY ClockNats
  <1> HIDE DEF new
  <1>3. ClockShapes'
    <2>1. cPending' \subseteq [token : Tokens, mono : 0 .. cNow', wall : Int]
      BY <1>1, <1>2 DEF ClockInv, ClockShapes
    <2>2. cAsked' \in -Interval .. cNow'
      BY <1>1, ClockNats, ClockNumbers
    <2> QED BY <1>1, <2>1, <2>2 DEF ClockInv, ClockShapes, Clock!NoRecord
  <1>4. OffsetsKnown'
    BY <1>1, <1>2 DEF ClockInv, OffsetsKnown
  <1>5. PICK bt \in Seq(Nat) : Boots(bt)
    BY DEF ClockInv
  <1>6. RepliesTrue(bt)' /\ AnchorsTrue(bt)'
    BY <1>1, <1>2, <1>5, DeviceSame DEF Boots, RepliesTrue, AnchorsTrue
  <1>7. Boots(bt)'
    BY <1>1, <1>5, <1>6, DeviceSame DEF Boots
  <1> QED BY <1>3, <1>4, <1>7 DEF ClockInv

\* The device answers a challenge that is out: now.
LEMMA ClockAnswers == ASSUME ClockInv, NEW k \in Tokens, Clock!Reply(k) PROVE ClockInv'
  <1> DEFINE new == [token |-> k, uptime |-> Up(cNow - cBooted), cover |-> cCovered, offset |-> cOffset]
  <1>1. /\ UNCHANGED <<cNow, cOffset, cStepped, cPending, cAsked, cAnchors>>
        /\ UNCHANGED <<cSkew, cBoot, cBooted, cWaiting, cRecords, cCovered>>
        /\ cCovered.first # 0
        /\ cReplies' = cReplies \cup {new}
    BY DEF Clock!Reply, Clock!pc, Clock!device, Clock!Uptime, Up
  <1>2. cNow - cBooted \in Int
    BY ClockNats
  <1>3. /\ new \in [token : Tokens, uptime : Int, cover : Covers, offset : Int]
        /\ new.cover = cCovered /\ new.offset = cOffset /\ new.uptime = Up(cNow - cBooted) /\ new.token = k
    BY <1>2, Uptimes DEF ClockInv, ClockShapes
  <1> HIDE DEF new
  <1>4. ClockShapes'
    BY <1>1, <1>3 DEF ClockInv, ClockShapes, Clock!NoRecord
  <1>5. OffsetsKnown'
    BY <1>1, <1>3 DEF ClockInv, OffsetsKnown
  <1>6. PICK bt \in Seq(Nat) : Boots(bt)
    BY DEF ClockInv
  <1>7. cCovered.boot = cBoot
    BY <1>1, <1>6 DEF Boots, CoveredTrue
  <1>8. Sampled(new, cNow, bt) /\ \A p \in cPending : p.mono <= cNow
    <2>1. bt[cBoot] = cBooted /\ cBooted <= cNow
      BY <1>6, ClockNats DEF Boots
    <2>2. \A p \in cPending : p.mono \in 0 .. cNow
      BY DEF ClockInv, ClockShapes
    <2>3. \A n \in 0 .. cNow : n <= cNow
      BY ClockNats
    <2>4. Sampled(new, cNow, bt)
      BY <1>3, <1>7, <2>1 DEF Sampled
    <2> QED BY <2>2, <2>3, <2>4
  <1>9. AnchorsTrue(bt)'
    BY <1>1, <1>6, DeviceSame DEF Boots, AnchorsTrue
  <1>10. RepliesTrue(bt)'
    <2>1. CoverTrue(new.cover, bt) /\ new.cover.boot \in 1 .. cBoot /\ cNow \in 0 .. cNow
      BY <1>3, <1>6, <1>7, ClockNats DEF Boots, CoveredTrue
    <2>2. \A r \in cReplies' : r \in cReplies \/ r = new
      BY <1>1
    <2> QED BY <1>1, <1>6, <1>8, <2>1, <2>2, DeviceSame DEF Boots, RepliesTrue
  <1>11. Boots(bt)'
    BY <1>1, <1>6, <1>9, <1>10, DeviceSame DEF Boots
  <1> QED BY <1>4, <1>5, <1>11 DEF ClockInv

\* The first answer to a challenge: what was asked at one reading of the clock, and
\* received at another that agrees with the time it took, is between the two.
LEMMA ClockBrackets ==
    ASSUME ClockInv, NEW p \in cPending, NEW r \in cReplies, p.token = r.token,
           Clock!Timely(p), NEW t \in Int, p.mono <= t, t <= cNow
    PROVE  /\ p.wall - Guard \in Int /\ (cNow + cOffset) + Guard \in Int
           /\ p.wall - Guard < t + r.offset /\ t + r.offset < (cNow + cOffset) + Guard
  <1>1. p.mono \in Int /\ p.wall \in Int /\ r.offset \in Int /\ cNow \in Int /\ cOffset \in Int
        /\ Guard \in Nat \ {0}
    <2>1. p \in [token : Tokens, mono : 0 .. cNow, wall : Int] /\ r.offset \in Int
      BY DEF ClockInv, ClockShapes
    <2> QED BY <2>1, ClockNats, ClockNumbers
  <1>2. p.wall - p.mono \in {0, cOffset} /\ r.offset \in {p.wall - p.mono, cOffset}
    BY DEF ClockInv, OffsetsKnown
  <1>3. cOffset = 0 \/ (cOffset # -Guard)
    BY ClockNumbers DEF ClockInv, OffsetsKnown, ClockShapes
  <1>4. Clock!Abs(((cNow + cOffset) - p.wall) - (cNow - p.mono)) <= Guard
    BY DEF Clock!Timely, Clock!Wall
  <1>5. ((cNow + cOffset) - p.wall) - (cNow - p.mono) = cOffset - (p.wall - p.mono)
    BY <1>1
  <1>6. -Guard <= cOffset - (p.wall - p.mono)
    <2>1. PICK e : e = cOffset - (p.wall - p.mono)
      OBVIOUS
    <2>2. e \in Int /\ (IF e < 0 THEN -e ELSE e) <= Guard
      BY <1>1, <1>4, <1>5, <2>1 DEF Clock!Abs
    <2> QED BY <2>1, <2>2, <1>1
  <1>7. CASE p.wall - p.mono = cOffset
    <2>1. r.offset = cOffset /\ p.wall = p.mono + cOffset
      BY <1>1, <1>2, <1>7
    <2> QED BY <2>1, <1>1
  <1>8. CASE p.wall - p.mono = 0 /\ cOffset # 0
    <2>1. p.wall = p.mono /\ cOffset > -Guard /\ r.offset \in {0, cOffset}
      BY <1>1, <1>2, <1>3, <1>6, <1>8
    <2>2. CASE r.offset = 0
      BY <2>1, <2>2, <1>1
    <2>3. CASE r.offset = cOffset
      BY <2>1, <2>3, <1>1
    <2> QED BY <2>1, <2>2, <2>3
  <1> QED BY <1>2, <1>7, <1>8

LEMMA ClockReceives == ASSUME ClockInv, NEW r \in cReplies, Clock!Receive(r) PROVE ClockInv'
  <1>1. /\ cReplies' = cReplies \ {r} /\ cPending' \subseteq cPending
        /\ UNCHANGED <<cNow, cOffset, cStepped, cAsked>>
        /\ UNCHANGED <<cSkew, cBoot, cBooted, cWaiting, cRecords, cCovered>>
    BY DEF Clock!Receive, Clock!device
  <1>2. \/ cAnchors' = cAnchors
        \/ \E p \in cPending : /\ p.token = r.token /\ Clock!Timely(p)
                               /\ cAnchors' = cAnchors \cup {Clock!AnchorOf(p, r)}
    BY DEF Clock!Receive
  <1>3. PICK bt \in Seq(Nat) : Boots(bt)
    BY DEF ClockInv
  <1>4. RepliesTrue(bt)'
    BY <1>1, <1>3, DeviceSame DEF Boots, RepliesTrue
  <1>5. OffsetsKnown'
    BY <1>1 DEF ClockInv, OffsetsKnown
  <1>6. cAnchors' = cAnchors => ClockShapes' /\ AnchorsTrue(bt)'
    <2> SUFFICES ASSUME cAnchors' = cAnchors PROVE ClockShapes' /\ AnchorsTrue(bt)'
      OBVIOUS
    <2>1. ClockShapes'
      BY <1>1 DEF ClockInv, ClockShapes, Clock!NoRecord
    <2>2. AnchorsTrue(bt)'
      BY <1>1, <1>3, DeviceSame DEF Boots, AnchorsTrue
    <2> QED BY <2>1, <2>2
  <1>7. ASSUME NEW p \in cPending, p.token = r.token, Clock!Timely(p),
               cAnchors' = cAnchors \cup {Clock!AnchorOf(p, r)}
        PROVE  ClockShapes' /\ AnchorsTrue(bt)'
    <2>1. CoverTrue(r.cover, bt) /\ r.cover.boot \in 1 .. cBoot
      BY <1>3 DEF Boots, RepliesTrue
    <2>2. PICK t \in 0 .. cNow : Sampled(r, t, bt) /\ p.mono <= t
      BY <1>3, <1>7 DEF Boots, RepliesTrue
    <2>3. t \in Int /\ t <= cNow
      BY ClockNats
    <2>4. /\ p.wall - Guard \in Int /\ (cNow + cOffset) + Guard \in Int
          /\ p.wall - Guard < t + r.offset /\ t + r.offset < (cNow + cOffset) + Guard
      BY <1>7, <2>2, <2>3, ClockBrackets
    <2>5. PICK new : new = Clock!AnchorOf(p, r)
      OBVIOUS
    <2>6. /\ new.cover = r.cover /\ new.uptime = r.uptime /\ new.offset = r.offset
          /\ new.min = p.wall - Guard /\ new.max = (cNow + cOffset) + Guard
      BY <2>5 DEF Clock!AnchorOf, Clock!Wall
    <2>7. new \in [id : Tokens, min : Int, max : Int, uptime : Int, cover : Covers, offset : Int]
      <3>1. p.token \in Tokens /\ r.uptime \in Int /\ r.cover \in Covers /\ r.offset \in Int
        BY DEF ClockInv, ClockShapes
      <3> QED BY <2>4, <2>5, <3>1 DEF Clock!AnchorOf, Clock!Wall
    <2>8. cAnchors' = cAnchors \cup {new}
      BY <1>7, <2>5
    <2>9. ClockShapes'
      BY <1>1, <2>7, <2>8 DEF ClockInv, ClockShapes, Clock!NoRecord
    <2>10. Sampled(new, t, bt) /\ new.min < t + new.offset /\ t + new.offset < new.max
      BY <2>2, <2>4, <2>6 DEF Sampled
    <2>11. CoverTrue(new.cover, bt) /\ new.cover.boot \in 1 .. cBoot
      BY <2>1, <2>6
    <2>12. \A b \in cAnchors' : b \in cAnchors \/ b = new
      BY <2>8
    <2>13. AnchorsTrue(bt)'
      BY <1>1, <1>3, <2>10, <2>11, <2>12, DeviceSame DEF Boots, AnchorsTrue
    <2> QED BY <2>9, <2>13
  <1>8. ClockShapes' /\ AnchorsTrue(bt)'
    BY <1>2, <1>6, <1>7
  <1>9. Boots(bt)'
    BY <1>1, <1>3, <1>4, <1>8, DeviceSame DEF Boots
  <1> QED BY <1>5, <1>8, <1>9 DEF ClockInv

\* A record is logged with the uptime of its time.
LEMMA ClockLogs == ASSUME ClockInv, Clock!Log PROVE ClockInv'
  <1> DEFINE u == Up(cNow - cBooted)
             new == [boot |-> cBoot, uptime |-> u % Wrap, wraps |-> u \div Wrap, at |-> cNow]
  <1>1. /\ UNCHANGED <<cNow, cOffset, cStepped, cPending, cAsked, cAnchors, cReplies>>
        /\ UNCHANGED <<cSkew, cBoot, cBooted, cRecords, cCovered>> /\ cWaiting' = new
        /\ Len(cRecords) < MaxSeq
    BY DEF Clock!Log, Clock!pc, Clock!Uptime, Up
  <1>2. u \in Int /\ u % Wrap \in 0 .. Wrap - 1 /\ u \div Wrap \in Int
    <2>1. cNow - cBooted \in Int
      BY ClockNats
    <2>2. u \in Int
      BY <2>1, Uptimes
    <2> HIDE DEF u
    <2> QED BY <2>2, ClockNumbers, Quotient
  <1>3. \A x : Up(x)' = Up(x)
    BY <1>1 DEF Up
  <1>4. ClockShapes'
    <2>1. cNow \in 0 .. cNow
      BY ClockNats
    <2> HIDE DEF u
    <2>2. cWaiting' \in [boot : {cBoot'}, uptime : 0 .. Wrap - 1, wraps : Int, at : 0 .. cNow'] \cup {Clock!NoRecord}
      BY <1>1, <1>2, <2>1
    <2> QED BY <1>1, <2>2 DEF ClockInv, ClockShapes, Clock!NoRecord
  <1>5. OffsetsKnown'
    BY <1>1 DEF ClockInv, OffsetsKnown
  <1>6. PICK bt \in Seq(Nat) : Boots(bt)
    BY DEF ClockInv
  <1>7. RecordsTrue(bt)'
    <2>1. cWaiting'.at = cNow /\ cWaiting'.uptime = u % Wrap /\ cWaiting'.wraps = u \div Wrap
      BY <1>1
    <2>2. cWaiting'.at >= cBooted
      BY <2>1, ClockNats
    <2>3. Up(cWaiting.at - cBooted)' = u
      BY <1>1, <2>1 DEF Up
    <2> HIDE DEF u
    <2> QED BY <1>1, <1>3, <1>6, <2>1, <2>2, <2>3 DEF Boots, RecordsTrue
  <1>8. \A c : CoverTrue(c, bt)' <=> CoverTrue(c, bt)
    BY <1>1, <1>3 DEF CoverTrue
  <1>9. CoveredTrue(bt)'
    BY <1>1, <1>6, <1>8 DEF Boots, CoveredTrue
  <1>10. RepliesTrue(bt)' /\ AnchorsTrue(bt)'
    BY <1>1, <1>3, <1>6, <1>8 DEF Boots, RepliesTrue, AnchorsTrue, Sampled
  <1>11. Boots(bt)'
    BY <1>1, <1>6, <1>7, <1>9, <1>10 DEF Boots
  <1> QED BY <1>4, <1>5, <1>11 DEF ClockInv

\* The device boots: the boots before keep their times.
LEMMA ClockReboots == ASSUME ClockInv, Clock!Reboot PROVE ClockInv'
  <1>1. /\ UNCHANGED <<cNow, cOffset, cStepped, cPending, cAsked, cAnchors, cReplies>>
        /\ UNCHANGED <<cSkew, cRecords>> /\ cBoot < MaxBoot /\ cBoot' = cBoot + 1 /\ cBooted' = cNow
        /\ cWaiting' = Clock!NoRecord /\ cCovered' = Clock!NoCover
    BY DEF Clock!Reboot, Clock!pc
  <1>2. cCovered' \in Covers /\ cCovered'.boot = 0 /\ cCovered'.first = 0 /\ cCovered'.last = 0
    BY <1>1 DEF Clock!NoCover, Covers
  <1>3. cBoot' \in 1 .. MaxBoot /\ cBooted' \in 0 .. cNow
    BY <1>1, ClockNats, ClockNumbers DEF ClockInv, ClockShapes
  <1>4. ClockShapes'
    BY <1>1, <1>2, <1>3 DEF ClockInv, ClockShapes, Clock!NoRecord
  <1>5. OffsetsKnown'
    BY <1>1 DEF ClockInv, OffsetsKnown
  <1>6. PICK bt \in Seq(Nat) : Boots(bt)
    BY DEF ClockInv
  <1>7. PICK nt : nt = Append(bt, cNow)
    OBVIOUS
  <1>8. /\ nt \in Seq(Nat) /\ Len(nt) = cBoot' /\ nt[cBoot'] = cBooted'
        /\ \A i \in 1 .. cBoot : nt[i] = bt[i]
    <2>1. cNow \in Nat /\ Len(bt) = cBoot
      BY <1>6, ClockNats DEF Boots
    <2> QED BY <1>1, <1>7, <2>1, AppendProperties
  <1>9. \A i \in 1 .. cBoot : i \in 1 .. cBoot'
    BY <1>1, ClockNats
  <1>10. \A x : Up(x)' = Up(x)
    BY <1>1 DEF Up
  <1>11. \A i \in DOMAIN cRecords : cRecords[i].boot \in 1 .. cBoot
    BY <1>6 DEF Boots, RecordsTrue
  <1>12. \A c : CoverTrue(c, bt) => CoverTrue(c, nt)'
    BY <1>1, <1>8, <1>10, <1>11 DEF CoverTrue
  <1>13. RecordsTrue(nt)'
    BY <1>1, <1>6, <1>8, <1>9, <1>10, <1>11 DEF Boots, RecordsTrue, Clock!NoRecord
  <1>14. CoveredTrue(nt)'
    <2>1. \A i \in DOMAIN cRecords : ~(i <= 0)
      BY ClockNats
    <2>2. 0 <= Len(cRecords)
      BY ClockNats
    <2> QED BY <1>1, <1>2, <2>1, <2>2 DEF CoveredTrue, CoverTrue
  <1>15. RepliesTrue(nt)' /\ AnchorsTrue(nt)'
    <2>1. \A c, t : c.cover.boot \in 1 .. cBoot /\ Sampled(c, t, bt) => Sampled(c, t, nt)'
      BY <1>8, <1>10 DEF Sampled
    <2> QED BY <1>1, <1>6, <1>9, <1>12, <2>1 DEF Boots, RepliesTrue, AnchorsTrue
  <1>16. Boots(nt)'
    BY <1>8, <1>13, <1>14, <1>15 DEF Boots
  <1> QED BY <1>4, <1>5, <1>8, <1>16 DEF ClockInv


\* The writer persists what waits, and the device's coverage takes it in: its round
\* goes on, or another begins.
LEMMA ClockPersists == ASSUME ClockInv, Clock!Persist PROVE ClockInv'
  <1> DEFINE new == [boot |-> cBoot, uptime |-> cWaiting.uptime, at |-> cWaiting.at]
             n == Len(cRecords) + 1
             cover == Clock!Observe(n, cWaiting.wraps)
  <1>1. /\ UNCHANGED <<cNow, cOffset, cStepped, cPending, cAsked, cAnchors, cReplies>>
        /\ UNCHANGED <<cSkew, cBoot, cBooted>>
        /\ cWaiting # Clock!NoRecord /\ cWaiting' = Clock!NoRecord
        /\ cRecords' = Append(cRecords, new) /\ cCovered' = cover
    BY DEF Clock!Persist, Clock!pc
  <1>2. /\ cWaiting \in [boot : {cBoot}, uptime : 0 .. Wrap - 1, wraps : Int, at : 0 .. cNow]
        /\ Len(cRecords) < MaxSeq /\ Len(cRecords) \in Nat /\ n \in Nat /\ cBoot \in Nat /\ cBoot # 0
        /\ DOMAIN cRecords = 1 .. Len(cRecords)
    BY <1>1, ClockNats DEF ClockInv, ClockShapes
  <1>3. new \in Dated /\ new.boot = cBoot /\ new.at = cWaiting.at /\ new.uptime = cWaiting.uptime
    <2>1. \A x \in 0 .. cNow : x \in Nat
      BY ClockNats
    <2> QED BY <1>2, <2>1 DEF Dated
  <1> HIDE DEF new
  <1>4. /\ cRecords' \in Seq(Dated) /\ Len(cRecords') = n /\ DOMAIN cRecords' = 1 .. n
        /\ cRecords'[n] = new /\ \A i \in DOMAIN cRecords : cRecords'[i] = cRecords[i]
    <2>1. cRecords \in Seq(Dated)
      BY DEF ClockInv, ClockShapes
    <2>2. /\ cRecords' \in Seq(Dated) /\ Len(cRecords') = n
          /\ cRecords'[n] = new /\ \A i \in 1 .. Len(cRecords) : cRecords'[i] = cRecords[i]
      BY <1>1, <1>3, <2>1, AppendProperties
    <2>3. DOMAIN cRecords' = 1 .. n
      BY <2>2
    <2> QED BY <1>2, <2>2, <2>3
  <1>5. \A i \in DOMAIN cRecords' : i \in DOMAIN cRecords \/ i = n
    BY <1>2, <1>4
  <1>6. \A x : Up(x)' = Up(x)
    BY <1>1 DEF Up
  <1>7. PICK bt \in Seq(Nat) : Boots(bt)
    BY DEF ClockInv
  <1>8. bt[cBoot] = cBooted /\ cBoot \in 1 .. cBoot
    BY <1>7, ClockNats DEF Boots
  <1>9. /\ cWaiting.at >= cBooted /\ cWaiting.uptime = Up(cWaiting.at - cBooted) % Wrap
        /\ cWaiting.wraps = Up(cWaiting.at - cBooted) \div Wrap
    BY <1>1, <1>7 DEF Boots, RecordsTrue
  <1>10. RecordsTrue(bt)'
    <2>1. ASSUME NEW i \in DOMAIN cRecords'
          PROVE  /\ cRecords'[i].boot \in 1 .. cBoot /\ cRecords'[i].at >= bt[cRecords'[i].boot]
                 /\ cRecords'[i].uptime = Up(cRecords'[i].at - bt[cRecords'[i].boot]) % Wrap
      <3>1. CASE i = n
        BY <3>1, <1>3, <1>4, <1>8, <1>9
      <3>2. CASE i \in DOMAIN cRecords
        BY <3>2, <1>4, <1>7 DEF Boots, RecordsTrue
      <3> QED BY <3>1, <3>2, <1>5
    <2> QED BY <1>1, <1>6, <2>1 DEF RecordsTrue, Clock!NoRecord
  \* What a coverage said of the records is unaffected by another.
  <1>11. ASSUME NEW c, CoverTrue(c, bt), c.last \in Int PROVE CoverTrue(c, bt)'
    <2>1. c.last <= Len(cRecords)
      BY <1>11 DEF CoverTrue
    <2>2. c.last <= Len(cRecords')  /\ ~(n <= c.last)
      BY <2>1, <1>11, <1>2, <1>4
    <2>3. ASSUME NEW i \in DOMAIN cRecords', c.first <= i, i <= c.last
          PROVE  cRecords'[i].boot = c.boot /\ c.wraps = Up(cRecords'[i].at - bt[cRecords'[i].boot]) \div Wrap
      <3>1. i \in DOMAIN cRecords
        BY <2>2, <2>3, <1>5
      <3> QED BY <3>1, <2>3, <1>4, <1>11 DEF CoverTrue
    <2> QED BY <2>2, <2>3, <1>6 DEF CoverTrue
  <1>12. cCovered \in Covers /\ cCovered.first \in Nat /\ cCovered.last \in Nat /\ cCovered.boot \in Nat
    BY DEF ClockInv, ClockShapes, Covers
  <1>13. cWaiting.wraps \in Int
    BY <1>2
  <1>14. cCovered' \in Covers /\ CoveredTrue(bt)'
    <2>1. CASE cCovered.boot # cBoot \/ cCovered.wraps # cWaiting.wraps
      <3>1. cCovered' = [boot |-> cBoot, first |-> n, last |-> n, wraps |-> cWaiting.wraps]
        BY <2>1, <1>1 DEF Clock!Observe
      <3>2. /\ cCovered' \in Covers /\ cCovered'.boot = cBoot /\ cCovered'.first = n /\ cCovered'.last = n
            /\ cCovered'.wraps = cWaiting.wraps
        BY <3>1, <1>2, <1>13 DEF Covers
      <3>3. \A i \in DOMAIN cRecords' : n <= i /\ i <= n => i = n
        BY <1>2, <1>4
      <3>4. CoverTrue(cCovered, bt)'
        <4>1. n <= Len(cRecords')
          BY <1>2, <1>4
        <4>2. ASSUME NEW i \in DOMAIN cRecords', cCovered'.first <= i, i <= cCovered'.last
              PROVE  /\ cRecords'[i].boot = cCovered'.boot
                     /\ cCovered'.wraps = Up(cRecords'[i].at - bt[cRecords'[i].boot]) \div Wrap
          BY <4>2, <3>2, <3>3, <1>3, <1>4, <1>8, <1>9
        <4> QED BY <4>1, <4>2, <3>2, <1>6 DEF CoverTrue
      <3>5. n <= n
        BY <1>2
      <3> QED BY <3>2, <3>4, <3>5, <1>1, <1>2, <1>4 DEF CoveredTrue
    <2>2. CASE cCovered.boot = cBoot /\ cCovered.wraps = cWaiting.wraps
      <3>1. cCovered' = [cCovered EXCEPT !.last = n]
        BY <2>2, <1>1 DEF Clock!Observe
      <3>2. /\ cCovered' \in Covers /\ cCovered'.boot = cBoot /\ cCovered'.first = cCovered.first
            /\ cCovered'.last = n /\ cCovered'.wraps = cWaiting.wraps
        BY <3>1, <2>2, <1>2, <1>12 DEF Covers
      <3>3. CoverTrue(cCovered, bt) /\ cCovered.first <= cCovered.last /\ cCovered.last = Len(cRecords)
        BY <2>2, <1>2, <1>7 DEF Boots, CoveredTrue
      <3>4. CoverTrue(cCovered, bt)'
        <4>1. n <= Len(cRecords')
          BY <1>2, <1>4
        <4>2. ASSUME NEW i \in DOMAIN cRecords', cCovered'.first <= i, i <= cCovered'.last
              PROVE  /\ cRecords'[i].boot = cCovered'.boot
                     /\ cCovered'.wraps = Up(cRecords'[i].at - bt[cRecords'[i].boot]) \div Wrap
          <5>1. CASE i = n
            BY <5>1, <3>2, <1>3, <1>4, <1>8, <1>9
          <5>2. CASE i \in DOMAIN cRecords
            <6>1. i <= cCovered.last
              BY <5>2, <3>3, <1>2
            <6> QED BY <5>2, <6>1, <4>2, <3>2, <3>3, <2>2, <1>4 DEF CoverTrue
          <5> QED BY <5>1, <5>2, <1>5
        <4> QED BY <4>1, <4>2, <3>2, <1>6 DEF CoverTrue
      <3>5. cCovered.first <= n
        BY <3>3, <1>2, <1>12
      <3> QED BY <3>2, <3>4, <3>5, <1>1, <1>2, <1>4 DEF CoveredTrue
    <2> QED BY <2>1, <2>2
  <1>15. ClockShapes'
    <2>1. Len(cRecords') <= MaxSeq
      BY <1>2, <1>4, ClockNumbers
    <2> QED BY <1>1, <1>4, <1>14, <2>1 DEF ClockInv, ClockShapes, Clock!NoRecord
  <1>16. OffsetsKnown'
    BY <1>1 DEF ClockInv, OffsetsKnown
  <1>17. RepliesTrue(bt)' /\ AnchorsTrue(bt)'
    <2>1. \A r \in cReplies : r.cover.last \in Int
      BY DEF ClockInv, ClockShapes, Covers
    <2>2. \A a \in cAnchors : a.cover.last \in Int
      BY DEF ClockInv, ClockShapes, Covers
    <2>3. \A r \in cReplies : CoverTrue(r.cover, bt)'
      BY <2>1, <1>7, <1>11 DEF Boots, RepliesTrue
    <2>4. \A a \in cAnchors : CoverTrue(a.cover, bt)'
      BY <2>2, <1>7, <1>11 DEF Boots, AnchorsTrue
    <2>5. \A r, t : Sampled(r, t, bt)' <=> Sampled(r, t, bt)
      BY <1>6 DEF Sampled
    <2> QED BY <1>1, <1>7, <2>3, <2>4, <2>5 DEF Boots, RepliesTrue, AnchorsTrue
  <1>18. Boots(bt)'
    BY <1>1, <1>7, <1>10, <1>14, <1>17 DEF Boots
  <1> QED BY <1>15, <1>16, <1>18 DEF ClockInv

\* Every step keeps the invariant.
LEMMA ClockNext == ClockInv /\ [Clock!Next]_(Clock!vars) => ClockInv'
  <1> SUFFICES ASSUME ClockInv, [Clock!Next]_(Clock!vars) PROVE ClockInv'
    OBVIOUS
  <1>1. CASE UNCHANGED Clock!vars
    <2>1. /\ UNCHANGED <<cNow, cOffset, cStepped, cPending, cAsked, cAnchors, cReplies>>
          /\ UNCHANGED <<cSkew, cBoot, cBooted, cWaiting, cRecords, cCovered>>
      BY <1>1 DEF Clock!vars, Clock!pc, Clock!device
    <2>2. PICK bt \in Seq(Nat) : Boots(bt)
      BY DEF ClockInv
    <2>3. RepliesTrue(bt)' /\ AnchorsTrue(bt)'
      BY <2>1, <2>2, DeviceSame DEF Boots, RepliesTrue, AnchorsTrue
    <2>4. Boots(bt)'
      BY <2>1, <2>2, <2>3, DeviceSame DEF Boots
    <2>5. ClockShapes' /\ OffsetsKnown'
      BY <2>1 DEF ClockInv, ClockShapes, OffsetsKnown, Clock!NoRecord
    <2> QED BY <2>4, <2>5 DEF ClockInv
  <1>2. CASE Clock!Tick
    BY <1>2, ClockTicks
  <1>3. CASE \E d \in StepSizes : Clock!StepClock(d)
    BY <1>3, ClockSteps
  <1>4. CASE Clock!Reboot
    BY <1>4, ClockReboots
  <1>5. CASE Clock!Log
    BY <1>5, ClockLogs
  <1>6. CASE Clock!Persist
    BY <1>6, ClockPersists
  <1>7. CASE \E k \in Tokens : Clock!Reply(k) \/ Clock!Challenge(k)
    BY <1>7, ClockAnswers, ClockAsks
  <1>8. CASE \E r \in cReplies : Clock!Receive(r)
    BY <1>8, ClockReceives
  <1> QED BY <1>1, <1>2, <1>3, <1>4, <1>5, <1>6, <1>7, <1>8 DEF Clock!Next

\* In every behaviour of the probe there are times at which the device booted such that each
\* record, answer and anchor was made at a time that its uptime tells (clock_probe.py and
\* ClockCoverage of BlackBoxEvidence.h).
THEOREM ClockInvHolds == Clock!Spec => []ClockInv
  BY ClockInit, ClockNext, PTL DEF Clock!Spec

\* A record that anchors place is placed where the PC's clock stood when it was logged: never
\* off by a round of the 32-bit uptime, by another boot, by a late answer or by the drift of
\* the device (Anchor.interval and align_event of timeline.py).
THEOREM PlacedRightHolds == Clock!Spec => []PlacedRight
  BY ClockInvHolds, ClockTypes, PTL

=============================================================================

-------------------------- MODULE EvidenceJournal --------------------------
(***************************************************************************)
(* The telemetry journal of the collector and who adds to it and takes     *)
(* from it: the importer of device records (evidence_runtime.py,           *)
(* TelemetryStore.save), the worker that reads it for incidents, and the   *)
(* retention job (retention.py), which is a process of its own.            *)
(*                                                                         *)
(* One device is followed.  Its records are numbered and arrive in the     *)
(* collector's database in any order.  Time is counted in days; incident   *)
(* and keep windows are sets of days.  Every SQLite transaction is one     *)
(* step, and what a process read before it is what it knew then.           *)
(***************************************************************************)
EXTENDS Integers, FiniteSets

CONSTANTS
    Records,      \* 1..n, the sequences of the device's records
    Lasting,      \* those whose kind retention keeps: Boot, Crash, Recovery, Lost, Dropped
    WindowDays,   \* bound: the days that may be in a window of an incident or of an operator
    LastArrival,  \* bound: the last day on which records arrive
    LastDay,      \* bound on the days that pass
    FullDays,     \* 7 in the source
    EvidenceDays, \* 365
    RescanDays,   \* 7
    ImportPage,   \* 128
    MaxCrashes,   \* bound on collector restarts and killed retention jobs
    MaxIngest     \* bound on rows ever inserted into the journal

ASSUME JournalAssumption ==
    /\ Records \subseteq Nat \ {0} /\ Lasting \subseteq Records
    /\ LastDay \in Nat \ {0} /\ LastArrival \in 0 .. LastDay /\ WindowDays \subseteq 1 .. LastDay
    /\ FullDays \in Nat \ {0} /\ EvidenceDays \in Nat /\ FullDays < EvidenceDays
    /\ RescanDays \in Nat /\ ImportPage \in Nat \ {0} /\ MaxCrashes \in Nat /\ MaxIngest \in Nat

VARIABLES
    today,
    received,   \* blackbox.sqlite3: the day a record was committed, 0 if it is not there
    journal,    \* telemetry_events: the records present
    ingest,     \* telemetry_ingest: the AUTOINCREMENT number of each record present, else 0
    inserted,   \* the last number given
    cursor,     \* device_import_cursor
    poll,       \* DeviceImporter.poll: what it read, and the rows it still has to handle
    read,       \* incident_meta.cursor of the incident worker
    incidents,  \* days in the window of an incident
    keeps,      \* days an operator keeps
    mark,       \* retention_state
    job,        \* the retention job: where it is and what it read
    crashes,
    pruned,     \* history: records that retention deleted and nobody brought back
    overdue     \* history: records of a classified range that were inserted, or released, after it

collector == <<cursor, poll>>
retention == <<mark, job, pruned>>
vars == <<today, received, journal, ingest, inserted, collector, read, incidents, keeps, retention,
          crashes, overdue>>

NoPoll == [at |-> "idle"]
NoJob == [at |-> "idle"]
Never == 0
Larger(a, b) == IF a > b THEN a ELSE b

Init ==
    /\ today = 1
    /\ received = [r \in Records |-> 0]
    /\ journal = {} /\ ingest = [r \in Records |-> 0] /\ inserted = 0
    /\ cursor = [scan |-> 0, high |-> 0] /\ poll = NoPoll
    /\ read = 0 /\ incidents = {} /\ keeps = {}
    /\ mark = [pruned |-> Never, evidence |-> Never, classified |-> Never, scanned |-> Never]
    /\ job = NoJob
    /\ crashes = 0 /\ pruned = {} /\ overdue = {}

-----------------------------------------------------------------------------
\* A poll takes seconds and a job minutes: either ends on the day it began.
NextDay ==
    /\ today < LastDay /\ poll = NoPoll /\ job = NoJob
    /\ today' = today + 1
    /\ UNCHANGED <<received, journal, ingest, inserted, collector, read, incidents, keeps, retention,
                   crashes, overdue>>

\* A batch is committed; an old one that was missing may come late.
Arrive(r) ==
    /\ received[r] = 0 /\ today <= LastArrival
    /\ received' = [received EXCEPT ![r] = today]
    /\ UNCHANGED <<today, journal, ingest, inserted, collector, read, incidents, keeps, retention,
                   crashes, overdue>>

-----------------------------------------------------------------------------
(***************************************************************************)
(* DeviceImporter.poll: one page above the high-water mark and one below,  *)
(* then row by row, then the cursor.                                       *)
(***************************************************************************)
Page(S) == {r \in S : Cardinality({x \in S : x < r}) < ImportPage}

Held == {r \in Records : received[r] # 0}
TailPage == Page({r \in Held : r > cursor.high})
ReconcilePage == Page({r \in Held : r > cursor.scan /\ r <= cursor.high})

\* A full page below the mark is continued behind its last row, or the scan begins again.
Continued(scan) ==
    IF Cardinality(ReconcilePage) = ImportPage
    THEN scan \in ReconcilePage /\ \A r \in ReconcilePage : r <= scan
    ELSE scan = 0

\* The cursor, both pages and the floors of retention are read once.
PollBegins ==
    /\ poll.at = "idle" /\ Held # {}
    /\ \E scan \in Records \cup {0} :
          /\ Continued(scan)
          /\ poll' = [at |-> "rows", rows |-> TailPage \cup ReconcilePage, high |-> cursor.high,
                      top |-> cursor.high, floor |-> mark.pruned, evidence |-> mark.evidence,
                      scan |-> scan]
    /\ UNCHANGED <<today, received, journal, ingest, inserted, cursor, read, incidents, keeps,
                   retention, crashes, overdue>>

\* A variant: every record received before the floor counts as pruned.
SkipEverything(r) == poll.floor # Never /\ received[r] < poll.floor

\* skip_pruned_device: a record that was imported once and that retention may have deleted.
SkipPruned(r) ==
    /\ poll.floor # Never /\ r <= poll.high /\ received[r] < poll.floor
    /\ ~(r \in Lasting /\ (poll.evidence = Never \/ received[r] >= poll.evidence))

\* A job ends on the day it began, so its day is today.
Cutoff == today - FullDays
Expiry == today - EvidenceDays

\* Where the running job's sweep is, and what it will not look at any more.
Start == [day |-> 0, of |-> 0]
After(r, place) == received[r] > place.day \/ (received[r] = place.day /\ r > place.of)
Passed(r) == \/ job.at \in {"expire", "classify"} /\ ~After(r, job.place)
             \/ job.at = "done" /\ received[r] < Cutoff

\* TelemetryStore.save of a row that is not there: event, index and ingest number together.
Insert(r) ==
    /\ inserted < MaxIngest
    /\ journal' = journal \cup {r}
    /\ inserted' = inserted + 1
    /\ ingest' = [ingest EXCEPT ![r] = inserted + 1]
    /\ pruned' = pruned \ {r}
    /\ overdue' = IF received[r] < mark.classified \/ Passed(r)
                  THEN overdue \cup {r} ELSE overdue

\* The tail comes first; either page is in the order of its sequences.
Precedes(r, x) == IF (r > poll.high) = (x > poll.high) THEN r <= x ELSE r > poll.high

PollRow ==
    /\ poll.at = "rows"
    /\ \E r \in poll.rows :
          /\ \A x \in poll.rows : Precedes(r, x)
          /\ poll' = [poll EXCEPT !.rows = @ \ {r}, !.top = Larger(r, @)]
          /\ IF r \in journal \/ SkipPruned(r)
             THEN UNCHANGED <<journal, ingest, inserted, pruned, overdue>>
             ELSE Insert(r)
    /\ UNCHANGED <<today, received, cursor, read, incidents, keeps, mark, job, crashes>>

PollEnds ==
    /\ poll.at = "rows" /\ poll.rows = {}
    /\ cursor' = [scan |-> poll.scan, high |-> poll.top]
    /\ poll' = NoPoll
    /\ UNCHANGED <<today, received, journal, ingest, inserted, read, incidents, keeps, retention,
                   crashes, overdue>>

Importer == PollBegins \/ PollRow \/ PollEnds

Restart ==
    /\ poll # NoPoll /\ poll' = NoPoll
    /\ crashes < MaxCrashes /\ crashes' = crashes + 1
    /\ UNCHANGED <<today, received, journal, ingest, inserted, cursor, read, incidents, keeps,
                   retention, overdue>>

-----------------------------------------------------------------------------
(***************************************************************************)
(* The incident worker reads the next row and may find an incident whose   *)
(* window is the row's day.  An operator keeps a day, or releases it.      *)
(***************************************************************************)
Unread == {r \in journal : ingest[r] > read}

WorkerReads ==
    /\ \E r \in Unread :
          /\ \A x \in Unread : ingest[r] <= ingest[x]
          /\ read' = ingest[r]
          /\ incidents' \in {incidents, incidents \cup ({received[r]} \cap WindowDays)}
    /\ UNCHANGED <<today, received, journal, ingest, inserted, collector, keeps, retention, crashes,
                   overdue>>

AddKeep(d) ==
    /\ d \notin keeps /\ keeps' = keeps \cup {d}
    /\ UNCHANGED <<today, received, journal, ingest, inserted, collector, read, incidents, retention,
                   crashes, overdue>>

\* What a released range protected is classified again by the next full scan.
RemoveKeep(d) ==
    /\ d \in keeps /\ keeps' = keeps \ {d}
    /\ overdue' = overdue \cup {r \in journal : received[r] = d}
    /\ UNCHANGED <<today, received, journal, ingest, inserted, collector, read, incidents, retention,
                   crashes>>

-----------------------------------------------------------------------------
(***************************************************************************)
(* prune --apply: the incidents and the worker's cursor; the two marks;    *)
(* two sweeps of short transactions; the watermark; the day of the last    *)
(* full scan.  The connection commits each statement by itself, so that a  *)
(* poll reads, or the job is killed, between any two of these.             *)
(***************************************************************************)
FullScan == mark.classified = Never \/ mark.scanned = Never \/ today - mark.scanned >= RescanDays

\* The incidents come first, and the worker's cursor by a statement of its own.
PruneReads ==
    /\ job.at = "idle" /\ today > FullDays
    /\ job' = [at |-> "reads", windows |-> incidents]
    /\ UNCHANGED <<today, received, journal, ingest, inserted, collector, read, incidents, keeps,
                   mark, crashes, pruned, overdue>>

Scoped ==
    [at |-> "marks", place |-> Start, windows |-> job.windows \cup keeps, read |-> read,
     full |-> FullScan, from |-> IF FullScan THEN Expiry ELSE Larger(Expiry, mark.classified),
     awaiting |-> Never]

\* A variant: the marks are left for the end.
PruneBeginsUnmarked ==
    /\ job.at = "reads" /\ job' = [Scoped EXCEPT !.at = "expire"]
    /\ UNCHANGED <<today, received, journal, ingest, inserted, collector, read, incidents, keeps, mark,
                   crashes, pruned, overdue>>

\* Both marks are written before anything is deleted, pruned_before first.
PruneBegins ==
    /\ job.at = "reads" /\ job' = Scoped
    /\ mark' = [mark EXCEPT !.pruned = Larger(Cutoff, @)]
    /\ UNCHANGED <<today, received, journal, ingest, inserted, collector, read, incidents, keeps,
                   crashes, pruned, overdue>>

PruneMarks ==
    /\ job.at = "marks" /\ job' = [job EXCEPT !.at = "expire"]
    /\ mark' = [mark EXCEPT !.evidence = Expiry]
    /\ UNCHANGED <<today, received, journal, ingest, inserted, collector, read, incidents, keeps,
                   crashes, pruned, overdue>>

Expired == {r \in journal : received[r] < Expiry}
Classified == {r \in journal : received[r] >= job.from /\ received[r] < Cutoff}
Awaiting(r) == ingest[r] > job.read
Protected(r) == r \in Lasting \/ received[r] \in job.windows
\* A variant: the worker's cursor is not looked at.
DoomedUnread(r) == job.at = "classify" => ~Protected(r)

Doomed(r) == ~Awaiting(r) /\ (job.at = "classify" => ~Protected(r))

\* Keyset pages of one row, in the order of their time and name, each with a transaction of its
\* own; the first row kept for the worker will hold the watermark back.
SweepPage(range, next, first) ==
    LET rest == {r \in range : After(r, job.place)} IN
    /\ \/ /\ rest = {} /\ job' = [job EXCEPT !.at = next, !.place = first]
          /\ UNCHANGED <<journal, ingest, pruned, overdue>>
       \/ \E row \in rest :
             LET place == [day |-> received[row], of |-> row]
                 doomed == IF Doomed(row) THEN {row} ELSE {}
             IN  /\ \A x \in rest : x = row \/ After(x, place)
                 /\ job' = [job EXCEPT !.place = place,
                               !.awaiting = IF @ = Never /\ Awaiting(row) THEN received[row] ELSE @]
                 /\ journal' = journal \ doomed
                 /\ ingest' = [r \in Records |-> IF r \in doomed THEN 0 ELSE ingest[r]]
                 /\ pruned' = pruned \cup doomed /\ overdue' = overdue \ doomed
    /\ UNCHANGED <<today, received, inserted, collector, read, incidents, keeps, mark, crashes>>

Expire == job.at = "expire" /\ SweepPage(Expired, "classify", [day |-> job.from, of |-> 0])
Classify == job.at = "classify" /\ SweepPage(Classified, "done", Start)

\* The watermark is committed first; a full scan has its day to write still.
Scanning == [at |-> "scanned"]
Ending == job' = IF job.full THEN Scanning ELSE NoJob

\* A variant: the watermark does not wait for the rows that were kept for the worker.
PruneEndsAhead ==
    /\ job.at = "done" /\ Ending
    /\ mark' = [mark EXCEPT !.classified = Cutoff]
    /\ UNCHANGED <<today, received, journal, ingest, inserted, collector, read, incidents, keeps,
                   crashes, pruned, overdue>>

\* Only after both sweeps: an interrupted run is done again.
PruneEnds ==
    /\ job.at = "done" /\ Ending
    /\ mark' = [mark EXCEPT !.classified = IF job.awaiting # Never /\ job.awaiting < Cutoff
                                           THEN job.awaiting ELSE Cutoff]
    /\ UNCHANGED <<today, received, journal, ingest, inserted, collector, read, incidents, keeps,
                   crashes, pruned, overdue>>

PruneScanned ==
    /\ job.at = "scanned" /\ job' = NoJob
    /\ mark' = [mark EXCEPT !.scanned = today]
    /\ UNCHANGED <<today, received, journal, ingest, inserted, collector, read, incidents, keeps,
                   crashes, pruned, overdue>>

Killed ==
    /\ job # NoJob /\ job' = NoJob
    /\ crashes < MaxCrashes /\ crashes' = crashes + 1
    /\ UNCHANGED <<today, received, journal, ingest, inserted, collector, read, incidents, keeps,
                   mark, pruned, overdue>>

Retention ==
    \/ PruneReads \/ PruneBegins \/ PruneMarks
    \/ Expire \/ Classify
    \/ PruneEnds \/ PruneScanned \/ Killed

Next ==
    \/ NextDay \/ (\E r \in Records : Arrive(r))
    \/ Importer \/ Restart \/ WorkerReads
    \/ (\E d \in WindowDays : AddKeep(d) \/ RemoveKeep(d))
    \/ Retention

Spec == Init /\ [][Next]_vars

\* The collector polls for ever, and each poll makes some progress.
Fairness == WF_vars(Importer)
FairSpec == Spec /\ Fairness

-----------------------------------------------------------------------------
\* Types; a record has an ingest number just while it is in the journal, and only received
\* records are there.
Days == 0 .. LastDay
TypeOK ==
    /\ today \in 1 .. LastDay /\ received \in [Records -> Days]
    /\ inserted \in 0 .. MaxIngest /\ read \in 0 .. inserted
    /\ ingest \in [Records -> 0 .. inserted]
    /\ journal = {r \in Records : ingest[r] # 0}
    /\ \A r \in journal \cup pruned : received[r] \in 1 .. today
    /\ cursor.scan \in 0 .. cursor.high /\ cursor.high \in Records \cup {0}
    /\ poll = NoPoll \/ (poll.at = "rows" /\ poll.rows \subseteq Records)
    /\ incidents \subseteq WindowDays /\ keeps \subseteq WindowDays
    /\ mark.pruned \in Days /\ mark.evidence \in Int /\ mark.classified \in Days /\ mark.scanned \in Days
    /\ job = NoJob \/ job.at \in {"reads", "marks", "expire", "classify", "done", "scanned"}
    /\ crashes \in 0 .. MaxCrashes /\ pruned \cup overdue \subseteq Records

(***************************************************************************)
(* No row is deleted that the incident worker had not read when the        *)
(* retention job looked, however far the two have moved on since, and      *)
(* whether it was inserted before, during or again after an earlier job.   *)
(***************************************************************************)
UnreadStays ==
    [][\A r \in Records : r \in journal /\ r \notin journal' => ingest[r] <= read]_vars

(***************************************************************************)
(* A record that a poll brings back after retention deleted it was above   *)
(* the importer's high-water mark (its cursor was lost by a restart), or   *)
(* the poll had read the floors before a job wrote the one of them that    *)
(* covers the record: both, or for a record of a lasting kind the second   *)
(* alone, when it read them between the two commits.                       *)
(***************************************************************************)
StaysPruned ==
    [][\A r \in pruned : r \in journal' =>
          \/ r > poll.high
          \/ poll.floor < mark.pruned
          \/ r \in Lasting /\ poll.evidence < mark.evidence]_vars

(***************************************************************************)
(* "Before any delete: a racing device import must already skip pruned     *)
(* records" (prune): what the importer once imported and retention deleted *)
(* does not come back.  The code does not keep this for a poll that read   *)
(* the floors before the job had written them: see the README.             *)
(***************************************************************************)
NeverBack == [][\A r \in pruned : r \in journal' => r > poll.high]_vars

(***************************************************************************)
(* Below the watermark no row is left that retention would delete, but for *)
(* those that were inserted or released after their range was classified:  *)
(* a row kept for the worker, or a job that was killed, is never stepped   *)
(* over by the next job, which starts at the watermark.                    *)
(***************************************************************************)
SweptClean ==
    /\ TypeOK
    /\ job.at = "idle" =>
           \A r \in journal : received[r] < mark.classified /\ r \notin Lasting =>
               received[r] \in incidents \cup keeps \/ r \in overdue

\* Retention deletes no row the incident worker had still to read, and what it deleted is not
\* imported again, but in the ways StaysPruned names.
DeletedForGood == UnreadStays /\ StaysPruned

(***************************************************************************)
(* Every record the collector acknowledged is in the journal some day, or  *)
(* retention has deleted it or would: a late one below the high-water mark *)
(* is found by the scan, and one of a lasting kind is never taken for one  *)
(* that was deleted.                                                       *)
(***************************************************************************)
Imported ==
    []<>(\A r \in Records : received[r] # 0 =>
            r \in journal \/ r \in pruned \/ received[r] < mark.evidence
                \/ (received[r] < mark.pruned /\ r \notin Lasting))

=============================================================================

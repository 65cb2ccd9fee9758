--------------------------- MODULE IncidentOutbox ---------------------------
(***************************************************************************)
(* The collector's incidents and their notifications: incidents.py and the *)
(* senders of notifications.py.                                            *)
(*                                                                         *)
(* One thread reads the telemetry journal and keeps incident_state,        *)
(* incident_outbox and the lease of the game server; another claims one    *)
(* row of the outbox at a time and sends it to Slack or Notion.  They      *)
(* share a SQLite file (each transaction is one step) and one              *)
(* threading.Event.  The process may die anywhere; every call of a service *)
(* may be lost before or after it took effect, be refused or be limited.   *)
(*                                                                         *)
(* One game session is followed, so there is one Slack card.  A "server"   *)
(* incident is one the game server lists, a "silent" one is opened by the  *)
(* collector's own watch, and a "reboot" is announced by itself unless it  *)
(* explains a silence.                                                     *)
(***************************************************************************)
EXTENDS Naturals, Sequences, FiniteSets

CONSTANTS
    Scenarios,   \* which incidents of which kind, which channels are enabled
    MaxBacklog,  \* events that wait in the journal
    MaxAttempts, \* 12 in the source
    MaxFaults    \* lost, late, limited and refused calls, deleted cards, crashes, errors

ASSUME OutboxAssumption ==
    /\ \A s \in Scenarios : s.channels \subseteq {"slack", "notion"}
    /\ MaxAttempts \in Nat \ {0} /\ MaxBacklog \in Nat /\ MaxFaults \in Nat

VARIABLES
    scenario,    \* [kind, channels, about]: fixed when the collector starts
    truth,       \* what the server or the watch knows of each incident
    gameOn,      \* the session still runs
    backlog,     \* telemetry_ingest behind the cursor
    due,         \* how many of them the cycle's highwater covers
    cycle,       \* where _process_loop is
    authorized,  \* the threading.Event
    delivery,    \* incident_meta delivery_run is this run
    lease,       \* validated_run, deadline and active_ids of the source
    incident,    \* incident_state
    row,         \* incident_outbox
    link,        \* session_links of Slack: the card is known
    ended,       \* session_times has the end of the game, as the snapshots told it
    worker,      \* where _notification_loop is
    job,         \* what it holds: the claimed row, its payload, its result
    card,        \* the session's Slack card, as people see it
    posts,       \* session cards opened for an incident's alert (not one that replaces a deleted card)
    replies,     \* replies in the card's thread, for each row
    page,        \* the Notion page of each incident
    faults

store == <<incident, row, link, ended>>
remote == <<card, posts, replies, page>>
vars == <<scenario, truth, gameOn, backlog, due, cycle, authorized, delivery, lease, store,
          worker, job, remote, faults>>

Incidents == DOMAIN scenario.kind
Kind(i) == scenario.kind[i]
Channels == scenario.channels
Versions == 1..5    \* alert, follow-up, evidence; from 4 on the refreshes: a reboot, the game's end
States == {"absent", "pending", "retryable", "sending", "delivered", "canceled", "permanent",
           "manual_review"}
Waiting == {"pending", "retryable"}
GivenUp == {"permanent", "manual_review"}

NoLease == [valid |-> FALSE, listed |-> {}]
NoRow == [state |-> "absent", attempts |-> 0, status |-> "open", noted |-> FALSE]
NoJob == [incident |-> "none"]
Hidden == [state |-> "none", noted |-> FALSE]
NoPage == [count |-> 0, tables |-> 0, shows |-> Hidden]

(***************************************************************************)
(* What the collector shows of incident i, as it stands in s: open or how  *)
(* it ended, and the reboot that was noted on it.                          *)
(***************************************************************************)
Shown(s, i) == [state |-> s[i].state, noted |-> s[i].noted]

Init ==
    /\ scenario \in Scenarios
    /\ truth = [i \in Incidents |-> "new"]
    /\ gameOn = TRUE
    /\ backlog = <<>> /\ due = 0
    /\ cycle = "idle" /\ authorized = FALSE /\ delivery = FALSE
    /\ lease = NoLease
    /\ incident = [i \in Incidents |-> [state |-> "none", noted |-> FALSE]]
    /\ row = [i \in Incidents |-> [c \in Channels |-> [v \in Versions |-> NoRow]]]
    /\ link = FALSE /\ ended = FALSE
    /\ worker = "wait" /\ job = NoJob
    /\ card = <<>>
    /\ posts = [i \in Incidents |-> 0]
    /\ replies = [i \in Incidents |-> [v \in Versions |-> 0]]
    /\ page = [i \in Incidents |-> NoPage]
    /\ faults = 0

-----------------------------------------------------------------------------
(***************************************************************************)
(* The game server and the watch write the journal.  The line of an end    *)
(* may be missing; the next snapshot tells it too.                         *)
(***************************************************************************)
Log(event) == Len(backlog) < MaxBacklog /\ backlog' = Append(backlog, event)

Begins(i) ==
    /\ truth[i] = "new"
    /\ gameOn \/ Kind(i) = "reboot"
    /\ truth' = [truth EXCEPT ![i] = IF Kind(i) = "reboot" THEN "over" ELSE "down"]
    /\ Log([type |-> "begin", of |-> i])
    /\ UNCHANGED gameOn

Ends(i) ==
    /\ truth[i] = "down"
    /\ truth' = [truth EXCEPT ![i] = "over"]
    /\ \/ Log([type |-> "end", of |-> i])
       \/ Kind(i) = "server" /\ UNCHANGED backlog
    /\ UNCHANGED gameOn

GameEnds ==
    /\ gameOn /\ gameOn' = FALSE
    /\ truth' = [i \in Incidents |-> IF truth[i] = "down" THEN "over" ELSE truth[i]]
    /\ UNCHANGED backlog

Snapshot(complete) ==
    /\ \A n \in DOMAIN backlog : backlog[n].type # "snapshot"
    /\ Log([type |-> "snapshot", complete |-> complete, on |-> gameOn,
            listed |-> {i \in Incidents : complete /\ Kind(i) = "server" /\ truth[i] = "down"}])
    /\ UNCHANGED <<truth, gameOn>>

Environment ==
    /\ \/ \E i \in Incidents : Begins(i) \/ Ends(i)
       \/ GameEnds
       \/ \E complete \in BOOLEAN : Snapshot(complete)
    /\ UNCHANGED <<scenario, due, cycle, authorized, delivery, lease, store, worker, job, remote,
                   faults>>

-----------------------------------------------------------------------------
(***************************************************************************)
(* The store.  Each operator gives the tables after one method, so that a  *)
(* transaction composes them: t = [incident, row].                         *)
(***************************************************************************)
Tables == [incident |-> incident, row |-> row]

\* INSERT OR IGNORE of one row, with the payload rendered now.
Queue1(t, i, c, v) ==
    IF t.row[i][c][v].state # "absent" THEN t
    ELSE [t EXCEPT !.row[i][c][v] =
            [state |-> "pending", attempts |-> 0, status |-> t.incident[i].state,
             noted |-> t.incident[i].noted]]

\* _queue: a follow-up goes only where the alert was delivered; Notion's carries an evidence row.
QueueOn(t, i, c, v) ==
    IF c \notin Channels \/ (v > 1 /\ t.row[i][c][1].state # "delivered") THEN t
    ELSE IF v = 2 /\ c = "notion" THEN Queue1(Queue1(t, i, c, 2), i, c, 3)
    ELSE Queue1(t, i, c, v)

Queue(t, i, v) == QueueOn(QueueOn(t, i, "notion", v), i, "slack", v)

\* _refresh: queued alerts get the new summary; a delivered one is edited by a row of its own.
RefreshOn(t, i, c, version) ==
    IF c \notin Channels THEN t ELSE
    LET told == [v \in Versions |->
                    IF v <= 2 /\ t.row[i][c][v].state \in Waiting
                    THEN [t.row[i][c][v] EXCEPT !.noted = t.incident[i].noted]
                    ELSE t.row[i][c][v]]
        s == [t EXCEPT !.row[i][c] = told]
    IN  IF told[1].state = "delivered" THEN Queue1(s, i, c, version) ELSE s

Refresh(t, i) == RefreshOn(RefreshOn(t, i, "notion", 4), i, "slack", 4)

\* An alert that was not sent yet is canceled.
Canceled(rows) ==
    [c \in Channels |-> [v \in Versions |->
        IF v = 1 /\ rows[c][v].state \in Waiting THEN [rows[c][v] EXCEPT !.state = "canceled"]
        ELSE rows[c][v]]]

\* _close: only an open incident.
Close(t, i, how) ==
    IF t.incident[i].state # "open" THEN t
    ELSE Queue([incident |-> [t.incident EXCEPT ![i].state = how],
                row |-> [t.row EXCEPT ![i] = Canceled(@)]], i, 2)

\* One transaction over several incidents: what is done for one leaves the others alone.
Each(t, after) ==
    [incident |-> [i \in Incidents |-> IF i \in DOMAIN after THEN after[i].incident[i]
                                      ELSE t.incident[i]],
     row |-> [i \in Incidents |-> IF i \in DOMAIN after THEN after[i].row[i] ELSE t.row[i]]]

CloseAll(t, S, how) == Each(t, [i \in S |-> Close(t, i, how)])

\* _record_open: INSERT OR IGNORE of an incident.
Open(t, i) == IF t.incident[i].state = "none" THEN [t EXCEPT !.incident[i].state = "open"] ELSE t

\* A listed incident is opened, and one that is open is announced.
Lists(t, i) ==
    LET s == Open(t, i) IN IF s.incident[i].state = "open" THEN Queue(s, i, 1) ELSE s

OpenAll(t, S) == Each(t, [i \in S |-> Lists(t, i)])

\* _generator_actions: the watch's decision opens and queues, since no snapshot lists it.
WatchOpens(t, i) == Queue(Open(t, i), i, 1)

\* _merge_reboot: a silence of the same generator that is open or ended lately (recent), and
\* whose alert was not canceled or given up.
Explains(t, r, recent) ==
    {i \in Incidents :
        /\ Kind(i) = "silent" /\ scenario.about[r] = i /\ ~t.incident[i].noted
        /\ t.incident[i].state = "open" \/ (recent /\ t.incident[i].state \in {"recovered", "closed"})
        /\ \E c \in Channels : t.row[i][c][1].state \in Waiting \cup {"sending", "delivered"}}

\* _generator_boot: a note on the silence it explains, or an incident that is already over.
Boot(t, r, recent) ==
    LET silences == Explains(t, r, recent) IN
    IF silences # {}
    THEN LET i == CHOOSE x \in silences : TRUE
         IN  Refresh([t EXCEPT !.incident[i].noted = TRUE], i)
    ELSE IF t.incident[r].state # "none" THEN t
    ELSE Queue([t EXCEPT !.incident[r].state = "recovered"], r, 1)

-----------------------------------------------------------------------------
(***************************************************************************)
(* _process_loop.  The gate closes at once; the backlog up to the          *)
(* highwater is processed, each event with its cursor in one transaction;  *)
(* the gate opens when the cursor reached the highwater.                   *)
(***************************************************************************)
\* A variant: the gate of the last cycle stays open while the backlog is read.
CycleBeginsOpen ==
    /\ cycle = "idle" /\ cycle' = "processing"
    /\ due' = Len(backlog)
    /\ UNCHANGED <<authorized, delivery, backlog, lease, faults, store>>

\* After a step of the wall clock no snapshot that is already in the journal counts.
CycleBegins ==
    /\ cycle = "idle" /\ cycle' = "processing"
    /\ authorized' = FALSE /\ delivery' = FALSE /\ due' = Len(backlog)
    /\ \/ UNCHANGED <<backlog, lease, faults>>
       \/ /\ faults < MaxFaults /\ faults' = faults + 1
          /\ lease' = NoLease
          /\ backlog' = [n \in DOMAIN backlog |->
                            IF backlog[n].type = "snapshot" THEN [type |-> "other"] ELSE backlog[n]]
    /\ UNCHANGED store

Commit(t) ==
    /\ incident' = t.incident /\ row' = t.row
    /\ backlog' = Tail(backlog) /\ due' = due - 1
    /\ UNCHANGED <<cycle, authorized, delivery, link, faults>>

Next1(type) == cycle = "processing" /\ due > 0 /\ backlog[1].type = type

\* A device that fell silent: what the server says waits for a snapshot, the watch's own does not.
ProcessBegin ==
    /\ Next1("begin")
    /\ LET i == backlog[1].of IN
       \/ Kind(i) = "server" /\ Commit(Open(Tables, i))
       \/ Kind(i) = "silent" /\ Commit(WatchOpens(Tables, i))
       \/ Kind(i) = "reboot" /\ \E recent \in BOOLEAN : Commit(Boot(Tables, i, recent))
    /\ UNCHANGED <<lease, ended>>

\* A recovery counts as one only when it is a reconnection that is still fresh.
ProcessEnd ==
    /\ Next1("end")
    /\ \E how \in {"recovered", "closed"} : Commit(Close(Tables, backlog[1].of, how))
    /\ UNCHANGED <<lease, ended>>

\* _session_times: any snapshot tells that the game runs, a complete one that it ended.  Nothing
\* of a session is announced before some snapshot has shown that it runs.
TellsEnd(shot) == ~ended /\ shot.complete /\ ~shot.on
TellsTimes(shot) == ended' = (~shot.on /\ (ended \/ shot.complete))

\* The end is edited into the card by a refresh of an incident announced on it: the one that
\* opened last, which may be any of them.
Carded == {i \in Incidents : "slack" \in Channels /\ row[i]["slack"][1].state = "delivered"}
Timed(shot) ==
    IF TellsEnd(shot) /\ Carded # {} THEN {RefreshOn(Tables, i, "slack", 5) : i \in Carded}
    ELSE {Tables}

\* A snapshot below the floor of a clock step is skipped.
ProcessOther ==
    /\ Next1("other") /\ Commit(Tables)
    /\ UNCHANGED <<lease, ended>>

\* A snapshot read too late, or older than the last one, only tells when the game ran.
ProcessStale ==
    /\ Next1("snapshot") /\ TellsTimes(backlog[1])
    /\ \E t \in Timed(backlog[1]) : Commit(t)
    /\ UNCHANGED lease

\* A fresh snapshot revokes the lease; a complete one grants it again, closes what it no longer
\* lists and queues the alerts of what it does.
ProcessSnapshot ==
    /\ Next1("snapshot") /\ TellsTimes(backlog[1])
    /\ LET shot == backlog[1]
           over == {i \in Incidents : \/ Kind(i) = "server" /\ i \notin shot.listed
                                      \/ Kind(i) = "silent" /\ ~shot.on}
       IN  IF shot.complete
           THEN /\ lease' = [valid |-> TRUE, listed |-> shot.listed]
                /\ \E t \in Timed(shot) : Commit(OpenAll(CloseAll(t, over, "closed"), shot.listed))
           ELSE lease' = NoLease /\ Commit(Tables)

CycleEnds ==
    /\ cycle = "processing" /\ due = 0
    /\ cycle' = "idle" /\ authorized' = TRUE /\ delivery' = TRUE
    /\ UNCHANGED <<backlog, due, lease, store, faults>>

\* Any error, before the backlog is read or later: the transaction is rolled back and the gate
\* closes; the durable revocation may fail with it.
CycleFails ==
    /\ faults < MaxFaults /\ faults' = faults + 1
    /\ cycle' = "idle" /\ authorized' = FALSE /\ due' = 0
    /\ \/ delivery' = FALSE /\ lease' = NoLease
       \/ UNCHANGED <<delivery, lease>>
    /\ UNCHANGED <<backlog, store>>

\* What a lapsed lease listed is not read again.
Lapse ==
    /\ lease.valid /\ lease' = NoLease
    /\ UNCHANGED <<backlog, due, cycle, authorized, delivery, store, faults>>

Cycle ==
    \/ CycleBegins \/ CycleEnds
    \/ ProcessBegin \/ ProcessEnd \/ ProcessOther \/ ProcessStale \/ ProcessSnapshot

ProcessLoop ==
    /\ Cycle \/ CycleFails \/ Lapse
    /\ UNCHANGED <<scenario, truth, gameOn, worker, job, remote>>

-----------------------------------------------------------------------------
(***************************************************************************)
(* _notification_loop, up to the first call of a service.                  *)
(***************************************************************************)
\* The conditions of claim(): an alert needs its incident open, and listed or the watch's own.
Eligible(i, c, v) ==
    /\ delivery /\ lease.valid
    /\ row[i][c][v].state \in Waiting
    /\ \/ v > 1 \/ Kind(i) = "reboot"
       \/ incident[i].state = "open" /\ (Kind(i) = "silent" \/ i \in lease.listed)

\* The Event was set when the worker began to wait for it; it is looked at again after the claim.
Claim(i, c, v) ==
    /\ worker = "wait" /\ Eligible(i, c, v)
    /\ row' = [row EXCEPT ![i][c][v].state = "sending", ![i][c][v].attempts = @ + 1]
    /\ job' = [incident |-> i, channel |-> c, version |-> v]
    /\ worker' = "claimed"
    /\ UNCHANGED <<incident, link, ended>>

ClaimAny == \E i \in Incidents, c \in Channels, v \in Versions : Claim(i, c, v)

PutBack ==
    /\ row' = [row EXCEPT ![job.incident][job.channel][job.version].state = "pending",
                          ![job.incident][job.channel][job.version].attempts = @ - 1]
    /\ worker' = "wait" /\ job' = NoJob
    /\ UNCHANGED <<incident, link, ended>>

\* A reboot alert that waited for more than an hour is dropped by the next claim.
DropStale(i) ==
    /\ worker = "wait" /\ delivery /\ Kind(i) = "reboot"
    /\ \E c \in Channels : row[i][c][1].state \in Waiting
    /\ row' = [row EXCEPT ![i] = Canceled(row[i])]
    /\ UNCHANGED <<incident, link, ended, worker, job>>

Revoked == worker = "claimed" /\ ~authorized /\ PutBack

\* slack_session: the incidents announced in Slack, and the one being delivered.
SessionView(i) ==
    [x \in Incidents |-> IF x = i \/ row[x]["slack"][1].state = "delivered"
                         THEN Shown(incident, x) ELSE Hidden]

CountIn(view, s) == Cardinality({x \in Incidents : view[x].state = s})

\* The payload is read now: the card's lines, and for a refresh the incident as of now.
Build ==
    /\ worker = "claimed" /\ authorized
    /\ LET i == job.incident
           c == job.channel
           v == job.version
           shows == IF v >= 4 THEN Shown(incident, i)
                    ELSE [state |-> row[i][c][v].status, noted |-> row[i][c][v].noted]
       IN  /\ job' = [incident |-> i, channel |-> c, version |-> v, shows |-> shows,
                      view |-> IF c = "slack" THEN SessionView(i) ELSE [x \in Incidents |-> Hidden],
                      edited |-> FALSE]
           /\ worker' = IF c = "notion"
                        THEN IF v = 1 THEN "find" ELSE IF v = 3 THEN "look" ELSE "patch"
                        ELSE IF v = 3 THEN "reply" ELSE IF link THEN "edit" ELSE "post"
    /\ UNCHANGED store

\* The evidence row waits for the device's backlog; waiting is not an attempt, and ends.
Defer ==
    /\ worker = "claimed" /\ authorized /\ job.channel = "notion" /\ job.version = 3
    /\ faults < MaxFaults /\ faults' = faults + 1
    /\ PutBack

Work ==
    /\ \/ Defer
       \/ /\ ClaimAny \/ Revoked \/ Build \/ \E i \in Incidents : DropStale(i)
          /\ UNCHANGED faults
    /\ UNCHANGED <<scenario, truth, gameOn, backlog, due, cycle, authorized, delivery, lease, remote>>

-----------------------------------------------------------------------------
(***************************************************************************)
(* The calls.  An answer is lost before the call took effect or late after *)
(* it; _classify takes neither for a failure unless a repeat is harmless.  *)
(***************************************************************************)
Answers == {"ok", "lost", "late", "limited", "refused"}
Performed(answer) == answer \in {"ok", "late"}

Classify(answer, safe) ==
    CASE answer = "ok" -> "delivered"
      [] answer = "limited" -> "retryable"
      [] answer = "refused" -> "permanent"
      [] OTHER -> IF safe THEN "retryable" ELSE "unknown"

Fault(answer) ==
    /\ answer # "ok" => faults < MaxFaults
    /\ faults' = IF answer = "ok" THEN faults ELSE faults + 1

Result(state, parent) ==
    /\ worker' = "finish"
    /\ job' = [incident |-> job.incident, channel |-> job.channel, version |-> job.version,
               result |-> state, parent |-> parent]

\* A thread reply tells what needs a person: an unrecovered end, a reboot, a new drop on a card
\* on which everything had ended.
NeedsReply(edited) ==
    LET i == job.incident IN
    \/ job.version = 2 /\ job.shows.state = "closed"
    \/ job.version = 4
    \/ job.version = 1 /\ Kind(i) = "reboot"
    \/ /\ job.version = 1 /\ edited /\ CountIn(job.view, "open") = 1
       /\ CountIn(job.view, "recovered") + CountIn(job.view, "closed") > 0

CardWritten(edited) ==
    IF NeedsReply(edited) THEN worker' = "reply" /\ job' = [job EXCEPT !.edited = TRUE]
    ELSE Result("delivered", TRUE)

\* chat.update of the known card, before any reply.
SlackEdit ==
    /\ worker = "edit"
    /\ UNCHANGED <<posts, replies, page>>
    /\ IF card = <<>>
       THEN worker' = "post" /\ UNCHANGED <<job, card, faults>>
       ELSE \E answer \in Answers :
              /\ Fault(answer)
              /\ card' = IF Performed(answer) THEN <<job.view>> ELSE card
              /\ IF answer = "ok" THEN CardWritten(TRUE)
                 ELSE Result(Classify(answer, TRUE), FALSE)

\* chat.postMessage of a new card: a post that may have happened is never repeated.
SlackPost ==
    /\ worker = "post"
    /\ UNCHANGED <<replies, page>>
    /\ \E answer \in Answers :
         /\ Fault(answer)
         /\ card' = IF answer = "ok" THEN <<job.view>> ELSE card
         /\ posts' = [posts EXCEPT ![job.incident] = @ + (IF Performed(answer) /\ ~link THEN 1 ELSE 0)]
         /\ IF answer = "ok" THEN CardWritten(FALSE) ELSE Result(Classify(answer, FALSE), FALSE)

SlackReply ==
    /\ worker = "reply"
    /\ UNCHANGED <<card, posts, page>>
    /\ \E answer \in Answers :
         /\ Fault(answer)
         /\ replies' = [replies EXCEPT ![job.incident][job.version] =
                           @ + (IF Performed(answer) THEN 1 ELSE 0)]
         /\ Result(Classify(answer, FALSE), job.version # 3)

\* The page of an alert is looked up by its incident before it is created; the index may not
\* show a page that was created just now.
NotionFind ==
    /\ worker = "find"
    /\ UNCHANGED <<card, posts, replies, page>>
    /\ \E answer \in {"ok", "lost", "refused"} :
         /\ Fault(answer)
         /\ IF answer # "ok" THEN Result(Classify(answer, TRUE), FALSE)
            ELSE \E indexed \in BOOLEAN :
                    /\ worker' = IF indexed /\ page[job.incident].count > 0 THEN "patch" ELSE "session"
                    /\ UNCHANGED job

\* The session's page is looked up and, if there is none, created; a repeat may leave an empty one.
NotionSession ==
    /\ worker = "session"
    /\ UNCHANGED remote
    /\ \E answer \in {"ok", "lost", "refused"} :
         /\ Fault(answer)
         /\ IF answer = "ok" THEN worker' = "create" /\ UNCHANGED job
            ELSE Result(Classify(answer, TRUE), FALSE)

NotionCreate ==
    /\ worker = "create"
    /\ UNCHANGED <<card, posts, replies>>
    /\ \E answer \in Answers :
         /\ Fault(answer)
         /\ page' = IF Performed(answer)
                    THEN [page EXCEPT ![job.incident].count = @ + 1, ![job.incident].shows = job.shows]
                    ELSE page
         /\ Result(Classify(answer, FALSE), FALSE)

NotionPatch ==
    /\ worker = "patch"
    /\ UNCHANGED <<card, posts, replies>>
    /\ \E answer \in Answers :
         /\ Fault(answer)
         /\ page' = IF Performed(answer) THEN [page EXCEPT ![job.incident].shows = job.shows] ELSE page
         /\ Result(Classify(answer, TRUE), FALSE)

\* The evidence table is appended, which is no edit in place: the children are read first.
NotionLook ==
    /\ worker = "look"
    /\ UNCHANGED remote
    /\ \E answer \in {"ok", "lost", "refused"} :
         /\ Fault(answer)
         /\ IF answer # "ok" THEN Result(Classify(answer, TRUE), FALSE)
            ELSE IF page[job.incident].tables > 0 THEN Result("delivered", FALSE)
            ELSE worker' = "append" /\ UNCHANGED job

NotionAppend ==
    /\ worker = "append"
    /\ UNCHANGED <<card, posts, replies>>
    /\ \E answer \in Answers :
         /\ Fault(answer)
         /\ page' = IF Performed(answer) THEN [page EXCEPT ![job.incident].tables = @ + 1] ELSE page
         /\ Result(Classify(answer, TRUE), FALSE)

Send ==
    /\ \/ SlackEdit \/ SlackPost \/ SlackReply
       \/ NotionFind \/ NotionSession \/ NotionCreate \/ NotionPatch \/ NotionLook \/ NotionAppend
    /\ UNCHANGED <<scenario, truth, gameOn, backlog, due, cycle, authorized, delivery, lease, store>>

-----------------------------------------------------------------------------
(***************************************************************************)
(* finish(): the result and everything that depends on it, one transaction *)
(***************************************************************************)
Settled(r, result) ==
    CASE result = "unknown" -> "manual_review"
      [] result = "retryable" /\ r.attempts >= MaxAttempts -> "manual_review"
      [] OTHER -> result

\* A variant: an incident that ended while its alert was in flight is not looked at.
FinishedBlind(t, i, c, v, result) ==
    [t EXCEPT !.row[i][c][v].state = Settled(t.row[i][c][v], result)]

Finished(t, i, c, v, result) ==
    LET state == Settled(t.row[i][c][v], result)
        first == v = 1
        set == [t EXCEPT !.row[i][c][v].state = state]
        told == IF v = 3 /\ c = "notion" /\ state = "delivered" /\ "slack" \in Channels
                   /\ set.row[i]["slack"][1].state = "delivered"
                THEN Queue1(set, i, "slack", 3) ELSE set
        noted == IF first /\ state = "delivered" /\ t.incident[i].noted
                 THEN RefreshOn(told, i, c, 4) ELSE told
    IN  IF ~first THEN noted
        ELSE IF Kind(i) = "reboot"
        THEN IF state = "delivered" /\ c = "notion" THEN Queue1(noted, i, c, 3) ELSE noted
        ELSE IF t.incident[i].state = "open" THEN noted
        ELSE IF state = "retryable" THEN [noted EXCEPT !.row[i][c][1].state = "canceled"]
        ELSE IF state = "delivered" THEN Queue(noted, i, 2)
        ELSE noted

Finish ==
    /\ worker = "finish"
    /\ LET t == Finished(Tables, job.incident, job.channel, job.version, job.result)
       IN  incident' = t.incident /\ row' = t.row
    /\ link' = (link \/ job.parent)
    /\ worker' = "wait" /\ job' = NoJob
    /\ UNCHANGED <<scenario, truth, gameOn, backlog, due, cycle, authorized, delivery, lease,
                   ended, remote, faults>>

\* An exception after the claim leaves the outcome open: nothing is sent again.
WorkerFails ==
    /\ worker # "wait" /\ faults < MaxFaults /\ faults' = faults + 1
    /\ row' = [row EXCEPT ![job.incident][job.channel][job.version].state = "manual_review"]
    /\ worker' = "wait" /\ job' = NoJob
    /\ UNCHANGED <<scenario, truth, gameOn, backlog, due, cycle, authorized, delivery, lease,
                   incident, link, ended, remote>>

\* A variant: what was being sent is sent again.
RestartResends ==
    /\ faults < MaxFaults /\ faults' = faults + 1
    /\ cycle' = "idle" /\ due' = 0 /\ authorized' = FALSE /\ delivery' = FALSE
    /\ lease' = NoLease
    /\ row' = [i \in Incidents |-> [c \in Channels |-> [v \in Versions |->
                 IF row[i][c][v].state = "sending"
                 THEN [row[i][c][v] EXCEPT !.state = "pending"] ELSE row[i][c][v]]]]
    /\ worker' = "wait" /\ job' = NoJob
    /\ UNCHANGED <<scenario, truth, gameOn, backlog, incident, link, ended, remote>>

\* start_run: no lease of an earlier process is valid, and what it was sending is not known.
Restart ==
    /\ faults < MaxFaults /\ faults' = faults + 1
    /\ cycle' = "idle" /\ due' = 0 /\ authorized' = FALSE /\ delivery' = FALSE
    /\ lease' = NoLease
    /\ row' = [i \in Incidents |-> [c \in Channels |-> [v \in Versions |->
                 IF row[i][c][v].state = "sending"
                 THEN [row[i][c][v] EXCEPT !.state = "manual_review"] ELSE row[i][c][v]]]]
    /\ worker' = "wait" /\ job' = NoJob
    /\ UNCHANGED <<scenario, truth, gameOn, backlog, incident, link, ended, remote>>

\* Someone deletes the card in Slack.
DeleteCard ==
    /\ card # <<>> /\ card' = <<>>
    /\ faults < MaxFaults /\ faults' = faults + 1
    /\ UNCHANGED <<scenario, truth, gameOn, backlog, due, cycle, authorized, delivery, lease, store,
                   worker, job, posts, replies, page>>

Next ==
    \/ Environment \/ ProcessLoop \/ Work \/ Send
    \/ Finish \/ WorkerFails \/ Restart \/ DeleteCard

Spec == Init /\ [][Next]_vars

(***************************************************************************)
(* Both loops run for ever and every call ends at its deadline.  The       *)
(* server keeps sending complete snapshots, some are read fresh and their  *)
(* lease of thirty seconds outlives the cycle; a row that is eligible again *)
(* and again is claimed at last, because claim() takes the oldest and each *)
(* row is attempted twelve times at most.                                  *)
(***************************************************************************)
FairSpec ==
    /\ Spec
    /\ WF_vars(Cycle /\ ProcessLoop)
    /\ SF_vars(ProcessSnapshot /\ backlog[1].complete /\ ProcessLoop)
    /\ SF_vars(lease.valid /\ CycleEnds /\ ProcessLoop)
    /\ SF_vars(Snapshot(TRUE) /\ Environment)
    /\ SF_vars(authorized /\ ClaimAny /\ Work)
    /\ SF_vars(Build /\ Work)
    /\ WF_vars((Revoked /\ Work) \/ Send \/ Finish)

-----------------------------------------------------------------------------
TypeOK ==
    /\ scenario \in Scenarios
    /\ truth \in [Incidents -> {"new", "down", "over"}]
    /\ gameOn \in BOOLEAN
    /\ Len(backlog) <= MaxBacklog /\ due \in 0..Len(backlog)
    /\ cycle \in {"idle", "processing"}
    /\ authorized \in BOOLEAN /\ delivery \in BOOLEAN
    /\ lease \in [valid : BOOLEAN, listed : SUBSET Incidents]
    /\ incident \in [Incidents -> [state : {"none", "open", "recovered", "closed"}, noted : BOOLEAN]]
    /\ \A i \in Incidents, c \in Channels, v \in Versions :
          /\ row[i][c][v].state \in States /\ row[i][c][v].attempts \in 0..MaxAttempts
          /\ row[i][c][v].state = "sending" => job # NoJob /\ job.incident = i /\ job.version = v
    /\ link \in BOOLEAN /\ ended \in BOOLEAN
    /\ worker \in {"wait", "claimed", "edit", "post", "reply", "find", "session", "create", "patch",
                   "look", "append", "finish"}
    /\ faults \in 0..MaxFaults

(***************************************************************************)
(* Nothing that cannot be repeated is said twice, whatever is lost, late,  *)
(* interrupted by a crash or not yet visible in Notion's index: one card   *)
(* is opened for an alert, one page and one evidence table exist for an    *)
(* incident and each row has one reply in the thread.                      *)
(***************************************************************************)
SaidOnce ==
    /\ TypeOK
    /\ \A i \in Incidents :
           /\ posts[i] <= 1 /\ page[i].count <= 1 /\ page[i].tables <= 1
           /\ \A v \in Versions : replies[i][v] <= 1

(***************************************************************************)
(* An alert of a server incident is taken up only for an incident that is  *)
(* listed by a snapshot of this process and when everything the journal    *)
(* held when the last cycle began has been processed: a backlog that       *)
(* already tells the recovery is never overtaken by the alert.             *)
(***************************************************************************)
AlertsCaughtUp ==
    [][\A i \in Incidents, c \in Channels :
          row[i][c][1].state # "sending" /\ row'[i][c][1].state = "sending" =>
             /\ due = 0 /\ lease.valid
             /\ Kind(i) = "server" => i \in lease.listed /\ incident[i].state = "open"]_vars

(***************************************************************************)
(* Once every row of a channel has been delivered or canceled, the Slack   *)
(* card and the Notion page of each announced incident show how it stands, *)
(* and the card shows the reboot noted on it: no change that fell between  *)
(* reading the payload, sending it and finish() is missed.                 *)
(***************************************************************************)
Quiet(c) ==
    c \in Channels /\ \A i \in Incidents, v \in Versions :
        row[i][c][v].state \in {"absent", "delivered", "canceled"}

AnnouncedIsTrue ==
    \A i \in Incidents :
        /\ Quiet("slack") /\ row[i]["slack"][1].state = "delivered" /\ card # <<>>
              => card[1][i] = Shown(incident, i)
        /\ Quiet("notion") /\ row[i]["notion"][1].state = "delivered"
              => page[i].shows.state = incident[i].state

(***************************************************************************)
(* While everything has ended and no edit of the card is waiting, the card *)
(* names no incident as open, announced or not: the comment at             *)
(* incidents.py:682-683 means to keep an incident without a follow-up off  *)
(* the card, where it would be stale.  The code does not keep it: the      *)
(* README has the case, which lasts until another incident of the session  *)
(* or the end of the game (Timed) edits the card.                          *)
(***************************************************************************)
CardHonest ==
    (Quiet("slack") /\ card # <<>> /\ \A i \in Incidents : incident[i].state # "open") =>
        \A i \in Incidents : card[1][i].state # "open"

(***************************************************************************)
(* A reboot that was noted on a silence is seen: the note's alert is still *)
(* to come, was delivered, or was given up for a person to review.  The    *)
(* comment at incidents.py:430 says so, the code does not keep it: the     *)
(* README has the case.                                                    *)
(***************************************************************************)
RebootTold ==
    \A i \in Incidents : incident[i].noted =>
        \E c \in Channels : row[i][c][1].state \notin {"absent", "canceled"}

(***************************************************************************)
(* Every alert that was delivered for an incident that has ended gets its  *)
(* follow-up, or the follow-up waits for a person.  (Each incident lives   *)
(* once and a handled row stays so: again and again nothing is owed.)      *)
(***************************************************************************)
Handled(i, c, v) == row[i][c][v].state \in {"delivered"} \cup GivenUp

FollowedUp ==
    []<>(\A i \in Incidents, c \in Channels :
            Kind(i) # "reboot" /\ row[i][c][1].state = "delivered"
                /\ incident[i].state \in {"recovered", "closed"}
            => Handled(i, c, 2))

=============================================================================

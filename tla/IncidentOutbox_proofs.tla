----------------------- MODULE IncidentOutbox_proofs -----------------------
(***************************************************************************)
(* Proofs about the incidents and their notifications, for any scenarios,  *)
(* attempts and faults that satisfy OutboxAssumption: what cannot be       *)
(* repeated is said once, an alert never overtakes the journal, and when   *)
(* nothing is queued what people see is true.                              *)
(***************************************************************************)
EXTENDS IncidentOutbox, TLAPS

-----------------------------------------------------------------------------
(* The inductive invariant, by its parts. *)

IncidentStates == {"none", "open", "recovered", "closed"}
Shows == [state : IncidentStates, noted : BOOLEAN]
Rows == [state : States, attempts : 0 .. MaxAttempts, status : IncidentStates, noted : BOOLEAN]
Store == [incident : [Incidents -> Shows], row : [Incidents -> [Channels -> [Versions -> Rows]]]]
Events ==
    [type : {"begin", "end"}, of : Incidents]
    \cup [type : {"snapshot"}, complete : BOOLEAN, on : BOOLEAN, listed : SUBSET Incidents]
    \cup {[type |-> "other"]}
Pages == [count : 0 .. 1, tables : 0 .. 1, shows : Shows]

Shapes ==
    /\ scenario \in Scenarios
    /\ truth \in [Incidents -> {"new", "down", "over"}] /\ gameOn \in BOOLEAN
    /\ backlog \in Seq(Events) /\ Len(backlog) <= MaxBacklog /\ due \in 0 .. Len(backlog)
    /\ cycle \in {"idle", "processing"} /\ authorized \in BOOLEAN /\ delivery \in BOOLEAN
    /\ lease \in [valid : BOOLEAN, listed : SUBSET Incidents]
    /\ Tables \in Store
    /\ link \in BOOLEAN /\ ended \in BOOLEAN /\ faults \in 0 .. MaxFaults
    /\ posts \in [Incidents -> 0 .. 1] /\ replies \in [Incidents -> [Versions -> 0 .. 1]]
    /\ page \in [Incidents -> Pages]

\* What the worker holds, in each of its places.
Calling == {"edit", "post", "reply", "find", "session", "create", "patch", "look", "append"}
Claimed == [incident : Incidents, channel : Channels, version : Versions]
Calls == [incident : Incidents, channel : Channels, version : Versions, shows : Shows,
          view : [Incidents -> Shows], edited : BOOLEAN]
Done == [incident : Incidents, channel : Channels, version : Versions,
         result : {"delivered", "retryable", "permanent", "unknown"}, parent : BOOLEAN]
JobShape ==
    /\ worker \in {"wait", "claimed", "finish"} \cup Calling
    /\ worker = "wait" => job = NoJob
    /\ worker = "claimed" => job \in Claimed
    /\ worker \in Calling => job \in Calls
    /\ worker = "finish" => job \in Done

\* The worker's row, and no other, is the one being sent.
Holds(i, c, v) == worker # "wait" /\ job.incident = i /\ job.channel = c /\ job.version = v
SendingHeld ==
    \A i \in Incidents, c \in Channels, v \in Versions :
        row[i][c][v].state = "sending" <=> Holds(i, c, v)

\* A call is for a row of its service and of its kind.
Placed ==
    /\ worker \in {"edit", "post", "reply"} => job.channel = "slack"
    /\ worker \in {"edit", "post"} => job.version # 3
    /\ worker \in {"find", "session", "create", "patch", "look", "append"} => job.channel = "notion"
    /\ worker \in {"find", "session", "create"} => job.version = 1
    /\ worker = "append" => page[job.incident].tables = 0
    /\ worker = "finish" /\ job.channel = "slack" /\ job.version # 3 /\ job.result = "delivered"
           => job.parent

\* Before the card's link is stored, only alerts are on their way to Slack, and none was
\* delivered.
Linked ==
    ~link /\ "slack" \in Channels =>
        \A i \in Incidents :
            /\ row[i]["slack"][1].state # "delivered"
            /\ \A v \in Versions : v # 1 => row[i]["slack"][v].state = "absent"

\* A row that will not be sent again.
Sealed(i, c, v) ==
    /\ c \in Channels
    /\ \/ row[i][c][v].state \in {"delivered", "manual_review"}
       \/ Holds(i, c, v) /\ worker = "finish" /\ job.result \in {"delivered", "unknown"}

\* A card was posted whose link is not stored: its alert is being answered in the thread,
\* or its result stores the link, or it waits for a person.
Posting(i) ==
    /\ "slack" \in Channels
    /\ \/ row[i]["slack"][1].state = "manual_review"
       \/ Holds(i, "slack", 1) /\ worker = "reply"
       \/ Holds(i, "slack", 1) /\ worker = "finish" /\ (job.parent \/ job.result = "unknown")

PostsSealed == ~link => \A i \in Incidents : posts[i] # 0 => Posting(i)
RepliesSealed == \A i \in Incidents, v \in Versions : replies[i][v] # 0 => Sealed(i, "slack", v)
PagesSealed == \A i \in Incidents : page[i].count # 0 => Sealed(i, "notion", 1)

\* A row that may be claimed has an attempt left.
AttemptsLeft ==
    \A i \in Incidents, c \in Channels, v \in Versions :
        /\ row[i][c][v].state \in Waiting => row[i][c][v].attempts < MaxAttempts
        /\ row[i][c][v].state = "sending" => row[i][c][v].attempts > 0

\* Deliveries are allowed only when the backlog of the cycle has been read.
CaughtUp == delivery => due = 0

IndInv ==
    /\ Shapes /\ JobShape /\ SendingHeld /\ Placed /\ Linked
    /\ PostsSealed /\ RepliesSealed /\ PagesSealed /\ AttemptsLeft /\ CaughtUp
-----------------------------------------------------------------------------
(* What the operators of the store do to the rows. *)

\* A row keeps its state and its attempts, begins to wait, or is canceled while it waits.
Keeps(r, s) ==
    \/ s.state = r.state /\ s.attempts = r.attempts
    \/ r.state = "absent" /\ s.state \in {"pending", "canceled"} /\ s.attempts = 0
    \/ r.state \in Waiting /\ s.state = "canceled" /\ s.attempts = r.attempts

\* Tables u follow from t by operators of the store: a row other than the alert's appears
\* only when the alert was delivered.
Later(t, u) ==
    /\ u \in Store
    /\ \A i \in Incidents, c \in Channels, v \in Versions :
           /\ Keeps(t.row[i][c][v], u.row[i][c][v])
           /\ v # 1 /\ u.row[i][c][v].state # "absent" =>
                  t.row[i][c][v].state # "absent" \/ t.row[i][c][1].state = "delivered"

\* Two services at most, five versions, and the alert is the first.
LEMMA Domains ==
    ASSUME scenario \in Scenarios
    PROVE  /\ Channels \subseteq {"slack", "notion"}
           /\ 1 \in Versions /\ 2 \in Versions /\ 3 \in Versions /\ 4 \in Versions /\ 5 \in Versions
           /\ \A v \in Versions : v \in {1, 2, 3, 4, 5}
  BY OutboxAssumption DEF Channels, Versions

\* The parts of well-formed tables.
LEMMA StoreParts ==
    ASSUME NEW t \in Store
    PROVE  /\ t.incident \in [Incidents -> Shows]
           /\ t.row \in [Incidents -> [Channels -> [Versions -> Rows]]]
           /\ t = [incident |-> t.incident, row |-> t.row]
  BY DEF Store

\* The parts of well-formed tables, cell by cell.
LEMMA StoreCells ==
    ASSUME NEW t \in Store, NEW i \in Incidents
    PROVE  /\ t.incident[i] \in Shows
           /\ \A c \in Channels, v \in Versions : t.row[i][c][v] \in Rows
  BY StoreParts

\* Tables are made of their two parts.
LEMMA StoreMade ==
    ASSUME NEW I \in [Incidents -> Shows], NEW R \in [Incidents -> [Channels -> [Versions -> Rows]]]
    PROVE  [incident |-> I, row |-> R] \in Store
  BY DEF Store

\* Doing nothing is a step of the store.
LEMMA LaterSelf == ASSUME NEW t \in Store PROVE Later(t, t)
  BY DEF Later, Keeps

\* Rows compose.
LEMMA KeepsTrans ==
    ASSUME NEW r \in Rows, NEW s \in Rows, NEW q \in Rows, Keeps(r, s), Keeps(s, q)
    PROVE  Keeps(r, q)
  BY DEF Keeps, Waiting

\* Steps of the store compose.
LEMMA LaterTrans ==
    ASSUME NEW t \in Store, NEW u, NEW w, Later(t, u), Later(u, w)
    PROVE  Later(t, w)
  <1>1. u \in Store /\ w \in Store
    BY DEF Later
  <1>2. ASSUME NEW i \in Incidents, NEW c \in Channels, NEW v \in Versions
        PROVE  /\ Keeps(t.row[i][c][v], w.row[i][c][v])
               /\ v # 1 /\ w.row[i][c][v].state # "absent" =>
                      t.row[i][c][v].state # "absent" \/ t.row[i][c][1].state = "delivered"
    <2>1. 1 \in Versions
      BY DEF Versions
    <2>2. /\ t.row[i][c][v] \in Rows /\ u.row[i][c][v] \in Rows /\ w.row[i][c][v] \in Rows
      BY <1>1, StoreCells
    <2>3. Keeps(t.row[i][c][v], u.row[i][c][v]) /\ Keeps(u.row[i][c][v], w.row[i][c][v])
      BY DEF Later
    <2>4. Keeps(t.row[i][c][1], u.row[i][c][1])
      BY <2>1 DEF Later
    <2>5. u.row[i][c][1].state = "delivered" => t.row[i][c][1].state = "delivered"
      BY <2>4 DEF Keeps
    <2>6. /\ v # 1 /\ u.row[i][c][v].state # "absent" =>
                t.row[i][c][v].state # "absent" \/ t.row[i][c][1].state = "delivered"
          /\ v # 1 /\ w.row[i][c][v].state # "absent" =>
                u.row[i][c][v].state # "absent" \/ u.row[i][c][1].state = "delivered"
      BY DEF Later
    <2>7. Keeps(t.row[i][c][v], w.row[i][c][v])
      BY <2>2, <2>3, KeepsTrans
    <2> QED
      BY <2>5, <2>6, <2>7
  <1> QED
    BY <1>1, <1>2 DEF Later

\* Replacing both tables by an EXCEPT.
LEMMA StoreExcept ==
    ASSUME NEW t \in Store, NEW J, NEW R
    PROVE  /\ [t EXCEPT !.row = R] = [incident |-> t.incident, row |-> R]
           /\ [t EXCEPT !.incident = J] = [incident |-> J, row |-> t.row]
  BY DEF Store

\* Changing one row of the tables.
LEMMA PutRow ==
    ASSUME NEW t \in Store, NEW i \in Incidents, NEW c \in Channels, NEW v \in Versions,
           NEW q \in Rows
    PROVE  LET u == [t EXCEPT !.row[i][c][v] = q]
           IN  /\ u \in Store /\ u.incident = t.incident
               /\ \A j \in Incidents, d \in Channels, w \in Versions :
                      u.row[j][d][w] = IF j = i /\ d = c /\ w = v THEN q ELSE t.row[j][d][w]
  <1> DEFINE R == [t.row EXCEPT ![i][c][v] = q]
  <1>1. t.row \in [Incidents -> [Channels -> [Versions -> Rows]]] /\ t.incident \in [Incidents -> Shows]
    BY StoreParts
  <1>2. R \in [Incidents -> [Channels -> [Versions -> Rows]]]
    BY <1>1
  <1>3. \A j \in Incidents, d \in Channels, w \in Versions :
            R[j][d][w] = IF j = i /\ d = c /\ w = v THEN q ELSE t.row[j][d][w]
    BY <1>1
  <1>4. [t EXCEPT !.row[i][c][v] = q] = [incident |-> t.incident, row |-> R]
    <2>1. [t EXCEPT !.row[i][c][v] = q] = [t EXCEPT !.row = R]
      OBVIOUS
    <2> QED
      BY <2>1, StoreExcept
  <1>5. [incident |-> t.incident, row |-> R] \in Store
    BY <1>1, <1>2, StoreMade
  <1> HIDE DEF R
  <1> DEFINE u == [t EXCEPT !.row[i][c][v] = q]
  <1>6. u = [incident |-> t.incident, row |-> R]
    BY <1>4
  <1> HIDE DEF u
  <1>7. u \in Store /\ u.incident = t.incident /\ u.row = R
    BY <1>5, <1>6
  <1>8. \A j \in Incidents, d \in Channels, w \in Versions :
            u.row[j][d][w] = IF j = i /\ d = c /\ w = v THEN q ELSE t.row[j][d][w]
    BY <1>3, <1>7
  <1> QED
    BY <1>7, <1>8 DEF u

\* A row is inserted when it is absent: the alert's, or another behind a delivered alert.
LEMMA Queue1Later ==
    ASSUME NEW t \in Store, NEW i \in Incidents, NEW c \in Channels, NEW v \in Versions,
           v = 1 \/ t.row[i][c][1].state = "delivered"
    PROVE  Later(t, Queue1(t, i, c, v)) /\ Queue1(t, i, c, v).incident = t.incident
  <1>1. CASE t.row[i][c][v].state # "absent"
    BY <1>1, LaterSelf DEF Queue1
  <1>2. CASE t.row[i][c][v].state = "absent"
    <2> DEFINE q == [state |-> "pending", attempts |-> 0, status |-> t.incident[i].state,
                     noted |-> t.incident[i].noted]
    <2>1. q \in Rows
      <3>1. t.incident[i].state \in IncidentStates /\ t.incident[i].noted \in BOOLEAN
        BY StoreCells DEF Shows
      <3>2. "pending" \in States /\ 0 \in 0 .. MaxAttempts
        BY OutboxAssumption DEF States
      <3> QED
        BY <3>1, <3>2 DEF Rows
    <2>2. q.state = "pending" /\ q.attempts = 0
      OBVIOUS
    <2>3. Queue1(t, i, c, v) = [t EXCEPT !.row[i][c][v] = q]
      BY <1>2 DEF Queue1
    <2> HIDE DEF q
    <2> DEFINE u == [t EXCEPT !.row[i][c][v] = q]
    <2>4. /\ u \in Store /\ u.incident = t.incident
          /\ \A j \in Incidents, d \in Channels, w \in Versions :
                 u.row[j][d][w] = IF j = i /\ d = c /\ w = v THEN q ELSE t.row[j][d][w]
      BY <2>1, PutRow
    <2> HIDE DEF u
    <2>5. Later(t, u)
      BY <1>2, <2>2, <2>4 DEF Later, Keeps
    <2> QED
      BY <2>3, <2>4, <2>5 DEF u
  <1> QED
    BY <1>1, <1>2

\* A delivered row stays so.
LEMMA LaterDelivered ==
    ASSUME NEW t, NEW u, Later(t, u), NEW i \in Incidents, NEW c \in Channels, NEW v \in Versions,
           t.row[i][c][v].state = "delivered"
    PROVE  u.row[i][c][v].state = "delivered"
  BY DEF Later, Keeps, Waiting

\* Queueing a version on one channel.
LEMMA QueueOnLater ==
    ASSUME NEW t \in Store, NEW i \in Incidents, NEW c, NEW v \in Versions
    PROVE  Later(t, QueueOn(t, i, c, v)) /\ QueueOn(t, i, c, v).incident = t.incident
  <1>1. CASE c \notin Channels \/ (v > 1 /\ t.row[i][c][1].state # "delivered")
    BY <1>1, LaterSelf DEF QueueOn
  <1>2. CASE ~(c \notin Channels \/ (v > 1 /\ t.row[i][c][1].state # "delivered"))
    <2>1. c \in Channels /\ (v = 1 \/ t.row[i][c][1].state = "delivered")
      BY <1>2 DEF Versions
    <2>2. CASE v = 2 /\ c = "notion"
      <3> DEFINE s == Queue1(t, i, c, 2)
      <3>1. 1 \in Versions /\ 2 \in Versions /\ 3 \in Versions
        BY DEF Versions
      <3>2. t.row[i][c][1].state = "delivered"
        BY <2>1, <2>2
      <3>3. Later(t, s) /\ s.incident = t.incident
        BY <2>1, <3>1, <3>2, Queue1Later
      <3>4. s \in Store /\ s.row[i][c][1].state = "delivered"
        BY <2>1, <3>1, <3>2, <3>3, LaterDelivered DEF Later
      <3>5. Later(s, Queue1(s, i, c, 3)) /\ Queue1(s, i, c, 3).incident = s.incident
        BY <2>1, <3>1, <3>4, Queue1Later
      <3>6. QueueOn(t, i, c, v) = Queue1(s, i, c, 3)
        BY <1>2, <2>2 DEF QueueOn
      <3> HIDE DEF s
      <3> QED
        BY <3>3, <3>5, <3>6, LaterTrans
    <2>3. CASE ~(v = 2 /\ c = "notion")
      <3>1. QueueOn(t, i, c, v) = Queue1(t, i, c, v)
        BY <1>2, <2>3 DEF QueueOn
      <3> QED
        BY <2>1, <3>1, Queue1Later
    <2> QED
      BY <2>2, <2>3
  <1> QED
    BY <1>1, <1>2

\* Queueing a version on both channels.
LEMMA QueueLater ==
    ASSUME NEW t \in Store, NEW i \in Incidents, NEW v \in Versions
    PROVE  Later(t, Queue(t, i, v)) /\ Queue(t, i, v).incident = t.incident
  <1> DEFINE s == QueueOn(t, i, "notion", v)
  <1>1. Later(t, s) /\ s.incident = t.incident
    BY QueueOnLater
  <1>2. s \in Store
    BY <1>1 DEF Later
  <1>3. Queue(t, i, v) = QueueOn(s, i, "slack", v)
    BY DEF Queue
  <1> HIDE DEF s
  <1>4. Later(s, QueueOn(s, i, "slack", v)) /\ QueueOn(s, i, "slack", v).incident = s.incident
    BY <1>2, QueueOnLater
  <1> QED
    BY <1>1, <1>3, <1>4, LaterTrans

\* Changing the rows of one incident on one channel.
LEMMA PutRows ==
    ASSUME NEW t \in Store, NEW i \in Incidents, NEW c \in Channels, NEW q \in [Versions -> Rows]
    PROVE  LET u == [t EXCEPT !.row[i][c] = q]
           IN  /\ u \in Store /\ u.incident = t.incident
               /\ \A j \in Incidents, d \in Channels, w \in Versions :
                      u.row[j][d][w] = IF j = i /\ d = c THEN q[w] ELSE t.row[j][d][w]
  <1> DEFINE R == [t.row EXCEPT ![i][c] = q]
             u == [t EXCEPT !.row[i][c] = q]
  <1>1. t.row \in [Incidents -> [Channels -> [Versions -> Rows]]] /\ t.incident \in [Incidents -> Shows]
    BY StoreParts
  <1>2. R \in [Incidents -> [Channels -> [Versions -> Rows]]]
    BY <1>1
  <1>3. \A j \in Incidents, d \in Channels, w \in Versions :
            R[j][d][w] = IF j = i /\ d = c THEN q[w] ELSE t.row[j][d][w]
    BY <1>1
  <1>4. u = [incident |-> t.incident, row |-> R]
    <2>1. [t EXCEPT !.row[i][c] = q] = [t EXCEPT !.row = R]
      OBVIOUS
    <2> QED
      BY <2>1, StoreExcept
  <1>5. [incident |-> t.incident, row |-> R] \in Store
    BY <1>1, <1>2, StoreMade
  <1> HIDE DEF R, u
  <1>6. u \in Store /\ u.incident = t.incident /\ u.row = R
    BY <1>4, <1>5
  <1>7. \A j \in Incidents, d \in Channels, w \in Versions :
            u.row[j][d][w] = IF j = i /\ d = c THEN q[w] ELSE t.row[j][d][w]
    BY <1>3, <1>6
  <1> QED
    BY <1>6, <1>7 DEF u

\* A new summary for queued alerts, on one channel.
LEMMA RefreshOnLater ==
    ASSUME NEW t \in Store, NEW i \in Incidents, NEW c, NEW version \in Versions
    PROVE  Later(t, RefreshOn(t, i, c, version)) /\ RefreshOn(t, i, c, version).incident = t.incident
  <1>1. CASE c \notin Channels
    BY <1>1, LaterSelf DEF RefreshOn
  <1>2. CASE c \in Channels
    <2> DEFINE told == [v \in Versions |->
                           IF v <= 2 /\ t.row[i][c][v].state \in Waiting
                           THEN [t.row[i][c][v] EXCEPT !.noted = t.incident[i].noted]
                           ELSE t.row[i][c][v]]
               s == [t EXCEPT !.row[i][c] = told]
    <2>1. \A v \in Versions : /\ told[v] \in Rows
                              /\ told[v].state = t.row[i][c][v].state
                              /\ told[v].attempts = t.row[i][c][v].attempts
      <3> TAKE v \in Versions
      <3>1. t.row[i][c][v] \in Rows /\ t.incident[i].noted \in BOOLEAN
        BY <1>2, StoreCells DEF Shows
      <3>2. \A b \in BOOLEAN : LET r == [t.row[i][c][v] EXCEPT !.noted = b]
                               IN  /\ r \in Rows /\ r.state = t.row[i][c][v].state
                                   /\ r.attempts = t.row[i][c][v].attempts
        BY <3>1 DEF Rows
      <3> QED
        BY <3>1, <3>2
    <2>2. told \in [Versions -> Rows]
      BY <2>1
    <2>3. 1 \in Versions
      BY DEF Versions
    <2>4. RefreshOn(t, i, c, version) = IF told[1].state = "delivered" THEN Queue1(s, i, c, version) ELSE s
      BY <1>2 DEF RefreshOn
    <2> HIDE DEF told
    <2>5. /\ s \in Store /\ s.incident = t.incident
          /\ \A j \in Incidents, d \in Channels, w \in Versions :
                 s.row[j][d][w] = IF j = i /\ d = c THEN told[w] ELSE t.row[j][d][w]
      BY <1>2, <2>2, PutRows
    <2> HIDE DEF s
    <2>6. \A j \in Incidents, d \in Channels, w \in Versions :
              /\ s.row[j][d][w].state = t.row[j][d][w].state
              /\ s.row[j][d][w].attempts = t.row[j][d][w].attempts
      BY <2>1, <2>5
    <2>7. Later(t, s)
      BY <2>5, <2>6 DEF Later, Keeps
    <2>8. CASE told[1].state = "delivered"
      <3>1. s.row[i][c][1].state = "delivered"
        BY <1>2, <2>3, <2>5, <2>8
      <3>2. Later(s, Queue1(s, i, c, version)) /\ Queue1(s, i, c, version).incident = s.incident
        BY <1>2, <2>3, <2>5, <3>1, Queue1Later
      <3> QED
        BY <2>4, <2>5, <2>7, <2>8, <3>2, LaterTrans
    <2>9. CASE told[1].state # "delivered"
      BY <2>4, <2>5, <2>7, <2>9
    <2> QED
      BY <2>8, <2>9
  <1> QED
    BY <1>1, <1>2

\* A new summary on both channels.
LEMMA RefreshLater ==
    ASSUME NEW t \in Store, NEW i \in Incidents
    PROVE  Later(t, Refresh(t, i)) /\ Refresh(t, i).incident = t.incident
  <1> DEFINE s == RefreshOn(t, i, "notion", 4)
  <1>1. Later(t, s) /\ s.incident = t.incident
    BY RefreshOnLater DEF Versions
  <1>2. s \in Store /\ 4 \in Versions
    BY <1>1 DEF Later, Versions
  <1>3. Refresh(t, i) = RefreshOn(s, i, "slack", 4)
    BY DEF Refresh
  <1> HIDE DEF s
  <1>4. Later(s, RefreshOn(s, i, "slack", 4)) /\ RefreshOn(s, i, "slack", 4).incident = s.incident
    BY <1>2, RefreshOnLater
  <1> QED
    BY <1>1, <1>3, <1>4, LaterTrans

\* What a snapshot tells of the game is a step of the store.
LEMMA TimedLater ==
    ASSUME Tables \in Store, NEW shot, NEW t \in Timed(shot)
    PROVE  Later(Tables, t)
  <1>1. CASE t = Tables
    BY <1>1, LaterSelf
  <1>2. ASSUME NEW i \in Incidents, t = RefreshOn(Tables, i, "slack", 5) PROVE Later(Tables, t)
    <2>1. 5 \in Versions
      BY DEF Versions
    <2> QED
      BY <1>2, <2>1, RefreshOnLater
  <1> QED
    BY <1>1, <1>2 DEF Timed, Carded

\* Tables that differ from well-formed ones in their rows as Later allows, and in their incidents.
LEMMA LaterMade ==
    ASSUME NEW t \in Store, NEW I \in [Incidents -> Shows],
           NEW R \in [Incidents -> [Channels -> [Versions -> Rows]]],
           \A i \in Incidents, c \in Channels, v \in Versions :
               /\ Keeps(t.row[i][c][v], R[i][c][v])
               /\ v # 1 /\ R[i][c][v].state # "absent" =>
                      t.row[i][c][v].state # "absent" \/ t.row[i][c][1].state = "delivered"
    PROVE  Later(t, [incident |-> I, row |-> R])
  BY StoreMade DEF Later

\* Changing an incident leaves the rows alone.
LEMMA PutIncident ==
    ASSUME NEW t \in Store, NEW I \in [Incidents -> Shows]
    PROVE  /\ Later(t, [incident |-> I, row |-> t.row])
           /\ [t EXCEPT !.incident = I] = [incident |-> I, row |-> t.row]
  <1>1. Later(t, [incident |-> I, row |-> t.row])
    BY StoreParts, LaterMade DEF Keeps
  <1> QED
    BY <1>1, StoreExcept

\* An incident is given a state, or the note of a reboot.
LEMMA MarkedLater ==
    ASSUME NEW t \in Store, NEW i \in Incidents
    PROVE  /\ \A how \in IncidentStates : Later(t, [t EXCEPT !.incident[i].state = how])
           /\ Later(t, [t EXCEPT !.incident[i].noted = TRUE])
  <1>1. t.incident \in [Incidents -> Shows] /\ t.incident[i] \in Shows
    BY StoreParts
  <1>2. ASSUME NEW how \in IncidentStates PROVE Later(t, [t EXCEPT !.incident[i].state = how])
    <2>1. [t.incident[i] EXCEPT !.state = how] \in Shows
      BY <1>1 DEF Shows
    <2>2. [t.incident EXCEPT ![i].state = how] \in [Incidents -> Shows]
      BY <1>1, <2>1
    <2>3. [t EXCEPT !.incident[i].state = how] = [t EXCEPT !.incident = [t.incident EXCEPT ![i].state = how]]
      OBVIOUS
    <2> DEFINE I == [t.incident EXCEPT ![i].state = how]
    <2>4. [t EXCEPT !.incident[i].state = how] = [t EXCEPT !.incident = I]
      BY <2>3
    <2>5. I \in [Incidents -> Shows]
      BY <2>2
    <2> HIDE DEF I
    <2>6. /\ Later(t, [incident |-> I, row |-> t.row])
          /\ [t EXCEPT !.incident = I] = [incident |-> I, row |-> t.row]
      BY <2>5, PutIncident
    <2> QED
      BY <2>4, <2>6
  <1>3. Later(t, [t EXCEPT !.incident[i].noted = TRUE])
    <2>1. [t.incident[i] EXCEPT !.noted = TRUE] \in Shows
      BY <1>1 DEF Shows
    <2>2. [t.incident EXCEPT ![i].noted = TRUE] \in [Incidents -> Shows]
      BY <1>1, <2>1
    <2>3. [t EXCEPT !.incident[i].noted = TRUE] = [t EXCEPT !.incident = [t.incident EXCEPT ![i].noted = TRUE]]
      OBVIOUS
    <2> DEFINE I == [t.incident EXCEPT ![i].noted = TRUE]
    <2>4. [t EXCEPT !.incident[i].noted = TRUE] = [t EXCEPT !.incident = I]
      BY <2>3
    <2>5. I \in [Incidents -> Shows]
      BY <2>2
    <2> HIDE DEF I
    <2>6. /\ Later(t, [incident |-> I, row |-> t.row])
          /\ [t EXCEPT !.incident = I] = [incident |-> I, row |-> t.row]
      BY <2>5, PutIncident
    <2> QED
      BY <2>4, <2>6
  <1> QED
    BY <1>2, <1>3

\* Opening an incident.
LEMMA OpenLater ==
    ASSUME NEW t \in Store, NEW i \in Incidents
    PROVE  Later(t, Open(t, i))
  <1>1. "open" \in IncidentStates
    BY DEF IncidentStates
  <1> QED
    BY <1>1, MarkedLater, LaterSelf DEF Open

\* Opening an incident and announcing it, when it is listed or the watch's own.
LEMMA ListsLater ==
    ASSUME NEW t \in Store, NEW i \in Incidents
    PROVE  Later(t, Lists(t, i)) /\ Later(t, WatchOpens(t, i))
  <1> DEFINE s == Open(t, i)
  <1>1. Later(t, s)
    BY OpenLater
  <1>2. s \in Store /\ 1 \in Versions
    BY <1>1 DEF Later, Versions
  <1>3. WatchOpens(t, i) = Queue(s, i, 1)
    BY DEF WatchOpens
  <1>4. Lists(t, i) = IF s.incident[i].state = "open" THEN Queue(s, i, 1) ELSE s
    BY DEF Lists
  <1> HIDE DEF s
  <1>5. Later(s, Queue(s, i, 1))
    BY <1>2, QueueLater
  <1> QED
    BY <1>1, <1>3, <1>4, <1>5, LaterTrans

\* Closing an incident cancels its alert when that waits, and queues the follow-up.
LEMMA CloseLater ==
    ASSUME NEW t \in Store, NEW i \in Incidents, NEW how \in IncidentStates
    PROVE  Later(t, Close(t, i, how))
  <1>1. CASE t.incident[i].state # "open"
    BY <1>1, LaterSelf DEF Close
  <1>2. CASE t.incident[i].state = "open"
    <2> DEFINE Cancel(r) == IF r.state \in Waiting THEN [r EXCEPT !.state = "canceled"] ELSE r
               I == [t.incident EXCEPT ![i].state = how]
               R == [t.row EXCEPT ![i] = Canceled(t.row[i])]
               s == [incident |-> I, row |-> R]
    <2>1. Close(t, i, how) = Queue(s, i, 2)
      BY <1>2 DEF Close
    <2>2. I \in [Incidents -> Shows]
      <3>1. t.incident \in [Incidents -> Shows]
        BY StoreParts
      <3>2. [t.incident[i] EXCEPT !.state = how] \in Shows
        BY <3>1 DEF Shows
      <3> QED
        BY <3>1, <3>2
    <2>3. \A r \in Rows : Cancel(r) \in Rows /\ Keeps(r, Cancel(r)) /\ Keeps(r, r)
      <3> TAKE r \in Rows
      <3>1. [r EXCEPT !.state = "canceled"] \in Rows
        BY DEF Rows, States
      <3>2. [r EXCEPT !.state = "canceled"].state = "canceled"
            /\ [r EXCEPT !.state = "canceled"].attempts = r.attempts
        BY DEF Rows
      <3> QED
        BY <3>1, <3>2 DEF Keeps
    <2>4. \A r \in Rows : Cancel(r).state # "absent" => r.state # "absent"
      BY DEF Rows, Waiting
    <2> HIDE DEF Cancel
    <2>5. Canceled(t.row[i]) = [c \in Channels |-> [v \in Versions |->
                                   IF v = 1 THEN Cancel(t.row[i][c][v]) ELSE t.row[i][c][v]]]
      BY DEF Canceled, Cancel
    <2>6. /\ R \in [Incidents -> [Channels -> [Versions -> Rows]]]
          /\ \A j \in Incidents, c \in Channels, v \in Versions :
              R[j][c][v] = IF j = i /\ v = 1 THEN Cancel(t.row[j][c][v]) ELSE t.row[j][c][v]
      <3> DEFINE q == [c \in Channels |-> [v \in Versions |->
                         IF v = 1 THEN Cancel(t.row[i][c][v]) ELSE t.row[i][c][v]]]
      <3>1. q \in [Channels -> [Versions -> Rows]]
        BY <2>3, StoreParts
      <3>2. \A c \in Channels, v \in Versions :
                q[c][v] = IF v = 1 THEN Cancel(t.row[i][c][v]) ELSE t.row[i][c][v]
        OBVIOUS
      <3>3. R = [t.row EXCEPT ![i] = q]
        BY <2>5
      <3> HIDE DEF q, R
      <3> QED
        BY <3>1, <3>2, <3>3, StoreParts
    <2> HIDE DEF R, I
    <2>7. \A j \in Incidents, c \in Channels, v \in Versions :
              /\ Keeps(t.row[j][c][v], R[j][c][v])
              /\ v # 1 /\ R[j][c][v].state # "absent" => t.row[j][c][v].state # "absent"
      <3> TAKE j \in Incidents, c \in Channels, v \in Versions
      <3>1. t.row[j][c][v] \in Rows
        BY StoreCells
      <3> QED
        BY <2>3, <2>4, <2>6, <3>1
    <2>8. Later(t, s)
      BY <2>2, <2>6, <2>7, LaterMade
    <2>9. s \in Store /\ 2 \in Versions
      BY <2>8 DEF Later, Versions
    <2> HIDE DEF s
    <2>10. Later(s, Queue(s, i, 2))
      BY <2>9, QueueLater
    <2> QED
      BY <2>1, <2>8, <2>10, LaterTrans
  <1> QED
    BY <1>1, <1>2

\* What is done for each of several incidents is done for all of them at once.
LEMMA EachLater ==
    ASSUME NEW t \in Store, NEW S \in SUBSET Incidents, NEW after, DOMAIN after = S,
           \A i \in S : Later(t, after[i])
    PROVE  Later(t, Each(t, after))
  <1> DEFINE I == [i \in Incidents |-> IF i \in S THEN after[i].incident[i] ELSE t.incident[i]]
             R == [i \in Incidents |-> IF i \in S THEN after[i].row[i] ELSE t.row[i]]
  <1>1. Each(t, after) = [incident |-> I, row |-> R]
    BY DEF Each
  <1>2. \A i \in S : /\ after[i].incident \in [Incidents -> Shows]
                     /\ after[i].row \in [Incidents -> [Channels -> [Versions -> Rows]]]
    BY StoreParts DEF Later
  <1>3. I \in [Incidents -> Shows] /\ R \in [Incidents -> [Channels -> [Versions -> Rows]]]
    BY <1>2, StoreParts
  <1>4. ASSUME NEW i \in Incidents, NEW c \in Channels, NEW v \in Versions
        PROVE  /\ Keeps(t.row[i][c][v], R[i][c][v])
               /\ v # 1 /\ R[i][c][v].state # "absent" =>
                      t.row[i][c][v].state # "absent" \/ t.row[i][c][1].state = "delivered"
    <2>1. CASE i \in S
      <3>1. R[i] = after[i].row[i]
        BY <2>1
      <3> QED
        BY <2>1, <3>1 DEF Later
    <2>2. CASE i \notin S
      <3>1. R[i] = t.row[i]
        BY <2>2
      <3> QED
        BY <3>1 DEF Keeps
    <2> QED
      BY <2>1, <2>2
  <1> HIDE DEF I, R
  <1> QED
    BY <1>1, <1>3, <1>4, LaterMade

\* A complete snapshot closes what it no longer lists and announces what it lists.
LEMMA SnapshotLater ==
    ASSUME NEW t \in Store, NEW S \in SUBSET Incidents, NEW L \in SUBSET Incidents
    PROVE  Later(t, OpenAll(CloseAll(t, S, "closed"), L))
  <1> DEFINE s == CloseAll(t, S, "closed")
  <1>1. Later(t, s)
    <2>1. "closed" \in IncidentStates
      BY DEF IncidentStates
    <2>2. \A i \in S : Later(t, [j \in S |-> Close(t, j, "closed")][i])
      BY <2>1, CloseLater
    <2> QED
      BY <2>2, EachLater DEF CloseAll
  <1>2. s \in Store
    BY <1>1 DEF Later
  <1> HIDE DEF s
  <1>3. Later(s, OpenAll(s, L))
    <2>1. \A i \in L : Later(s, [j \in L |-> Lists(s, j)][i])
      BY <1>2, ListsLater
    <2> QED
      BY <1>2, <2>1, EachLater DEF OpenAll
  <1> QED
    BY <1>1, <1>3, LaterTrans DEF s

\* A reboot is noted on the silence it explains, or announced by itself.
LEMMA BootLater ==
    ASSUME NEW t \in Store, NEW r \in Incidents, NEW recent \in BOOLEAN
    PROVE  Later(t, Boot(t, r, recent))
  <1>1. CASE Explains(t, r, recent) # {}
    <2> DEFINE i == CHOOSE x \in Explains(t, r, recent) : TRUE
               s == [t EXCEPT !.incident[i].noted = TRUE]
    <2>1. i \in Incidents
      BY <1>1 DEF Explains
    <2>2. Boot(t, r, recent) = Refresh(s, i)
      BY <1>1 DEF Boot
    <2> HIDE DEF i
    <2>3. Later(t, s)
      BY <2>1, MarkedLater
    <2>4. s \in Store
      BY <2>3 DEF Later
    <2> HIDE DEF s
    <2>5. Later(s, Refresh(s, i))
      BY <2>1, <2>4, RefreshLater
    <2> QED
      BY <2>2, <2>3, <2>5, LaterTrans
  <1>2. CASE Explains(t, r, recent) = {} /\ t.incident[r].state # "none"
    BY <1>2, LaterSelf DEF Boot
  <1>3. CASE Explains(t, r, recent) = {} /\ t.incident[r].state = "none"
    <2> DEFINE s == [t EXCEPT !.incident[r].state = "recovered"]
    <2>1. Boot(t, r, recent) = Queue(s, r, 1)
      BY <1>3 DEF Boot
    <2>2. Later(t, s) /\ 1 \in Versions
      <3>1. "recovered" \in IncidentStates /\ 1 \in Versions
        BY DEF IncidentStates, Versions
      <3> QED
        BY <3>1, MarkedLater
    <2>3. s \in Store
      BY <2>2 DEF Later
    <2> HIDE DEF s
    <2>4. Later(s, Queue(s, r, 1))
      BY <2>2, <2>3, QueueLater
    <2> QED
      BY <2>1, <2>2, <2>4, LaterTrans
  <1> QED
    BY <1>1, <1>2, <1>3

\* A result settles a row.
LEMMA SettledType ==
    ASSUME NEW r \in Rows, NEW result \in {"delivered", "retryable", "permanent", "unknown"}
    PROVE  /\ Settled(r, result) \in {"delivered", "retryable", "permanent", "manual_review"}
           /\ Settled(r, result) = "retryable" => r.attempts < MaxAttempts
           /\ result = "unknown" => Settled(r, result) = "manual_review"
           /\ result = "delivered" <=> Settled(r, result) = "delivered"
  BY OutboxAssumption DEF Settled, Rows

\* The state of one row is set.
SetState(t, i, c, v, x) == [t EXCEPT !.row[i][c][v].state = x]
LEMMA PutState ==
    ASSUME NEW t \in Store, NEW i \in Incidents, NEW c \in Channels, NEW v \in Versions,
           NEW x \in States
    PROVE  /\ SetState(t, i, c, v, x) \in Store
           /\ SetState(t, i, c, v, x).incident = t.incident
           /\ \A j \in Incidents, d \in Channels, w \in Versions :
                  /\ ~(j = i /\ d = c /\ w = v) =>
                         SetState(t, i, c, v, x).row[j][d][w] = t.row[j][d][w]
                  /\ SetState(t, i, c, v, x).row[j][d][w].attempts = t.row[j][d][w].attempts
                  /\ SetState(t, i, c, v, x).row[j][d][w].status = t.row[j][d][w].status
           /\ SetState(t, i, c, v, x).row[i][c][v].state = x
  <1> DEFINE q == [t.row[i][c][v] EXCEPT !.state = x]
             u == [t EXCEPT !.row[i][c][v].state = x]
  <1>1. t.row[i][c][v] \in Rows
    BY StoreCells
  <1>2. /\ q \in Rows /\ q.state = x /\ q.attempts = t.row[i][c][v].attempts
        /\ q.status = t.row[i][c][v].status
    BY <1>1 DEF Rows
  <1>3. u = [t EXCEPT !.row[i][c][v] = q]
    OBVIOUS
  <1> HIDE DEF q, u
  <1>4. /\ u \in Store /\ u.incident = t.incident
        /\ \A j \in Incidents, d \in Channels, w \in Versions :
               u.row[j][d][w] = IF j = i /\ d = c /\ w = v THEN q ELSE t.row[j][d][w]
    BY <1>2, <1>3, PutRow
  <1>5. SetState(t, i, c, v, x) = u
    BY DEF SetState, u
  <1> QED
    BY <1>2, <1>4, <1>5

\* finish() sets the state of its row, and the rest follows by operators of the store.
LEMMA FinishedLater ==
    ASSUME NEW t \in Store, NEW i \in Incidents, NEW c \in Channels, NEW v \in Versions,
           NEW result \in {"delivered", "retryable", "permanent", "unknown"}
    PROVE  LET s == SetState(t, i, c, v, Settled(t.row[i][c][v], result))
           IN  s \in Store /\ Later(s, Finished(t, i, c, v, result))
  <1> DEFINE state == Settled(t.row[i][c][v], result)
             s == SetState(t, i, c, v, state)
             told == IF v = 3 /\ c = "notion" /\ state = "delivered" /\ "slack" \in Channels
                        /\ s.row[i]["slack"][1].state = "delivered"
                     THEN Queue1(s, i, "slack", 3) ELSE s
             noted == IF v = 1 /\ state = "delivered" /\ t.incident[i].noted
                      THEN RefreshOn(told, i, c, 4) ELSE told
  <1>1. state \in {"delivered", "retryable", "permanent", "manual_review"}
    BY SettledType, StoreCells
  <1>2. state \in States
    BY <1>1 DEF States
  <1>3. s \in Store /\ s.row[i][c][v].state = state
    <2> HIDE DEF state
    <2> QED
      BY <1>2, PutState
  <1>4. 1 \in Versions /\ 2 \in Versions /\ 3 \in Versions
    BY DEF Versions
  <1>5. Finished(t, i, c, v, result) =
            IF v # 1 THEN noted
            ELSE IF Kind(i) = "reboot"
            THEN IF state = "delivered" /\ c = "notion" THEN Queue1(noted, i, c, 3) ELSE noted
            ELSE IF t.incident[i].state = "open" THEN noted
            ELSE IF state = "retryable" THEN [noted EXCEPT !.row[i][c][1].state = "canceled"]
            ELSE IF state = "delivered" THEN Queue(noted, i, 2)
            ELSE noted
    BY DEF Finished, SetState
  <1> HIDE DEF state, s
  <1>6. Later(s, told)
    <2>1. CASE v = 3 /\ c = "notion" /\ state = "delivered" /\ "slack" \in Channels
               /\ s.row[i]["slack"][1].state = "delivered"
      BY <1>3, <1>4, <2>1, Queue1Later
    <2>2. CASE ~(v = 3 /\ c = "notion" /\ state = "delivered" /\ "slack" \in Channels
                 /\ s.row[i]["slack"][1].state = "delivered")
      BY <1>3, <2>2, LaterSelf
    <2> QED
      BY <2>1, <2>2
  <1>7. Later(s, noted) /\ (state = "retryable" /\ v = 1 => noted = s)
    <2>1. told \in Store
      BY <1>6 DEF Later
    <2>2. state = "retryable" /\ v = 1 => noted = s
      OBVIOUS
    <2> HIDE DEF told
    <2>3. Later(told, RefreshOn(told, i, c, 4))
      BY <2>1, RefreshOnLater DEF Versions
    <2> QED
      BY <1>3, <1>6, <2>2, <2>3, LaterTrans
  <1>8. noted \in Store
    BY <1>7 DEF Later
  <1> HIDE DEF told, noted
  <1>9. CASE Finished(t, i, c, v, result) = noted
    BY <1>3, <1>7, <1>9 DEF s, state
  <1>10. CASE /\ v = 1 /\ state = "delivered"
              /\ Finished(t, i, c, v, result) = Queue1(noted, i, c, 3)
    <2>1. noted.row[i][c][1].state = "delivered"
      BY <1>3, <1>4, <1>7, <1>10, LaterDelivered
    <2>2. Later(noted, Queue1(noted, i, c, 3))
      BY <1>4, <1>8, <2>1, Queue1Later
    <2>3. Later(s, Queue1(noted, i, c, 3))
      BY <1>3, <1>7, <2>2, LaterTrans
    <2> QED
      BY <1>3, <1>10, <2>3 DEF s, state
  <1>11. CASE Finished(t, i, c, v, result) = Queue(noted, i, 2)
    <2>1. Later(noted, Queue(noted, i, 2))
      BY <1>4, <1>8, QueueLater
    <2>2. Later(s, Queue(noted, i, 2))
      BY <1>3, <1>7, <2>1, LaterTrans
    <2> QED
      BY <1>3, <1>11, <2>2 DEF s, state
  <1>12. CASE /\ v = 1 /\ state = "retryable"
              /\ Finished(t, i, c, v, result) = [noted EXCEPT !.row[i][c][1].state = "canceled"]
    <2> DEFINE u == SetState(s, i, c, 1, "canceled")
    <2>1. Finished(t, i, c, v, result) = u
      BY <1>7, <1>12 DEF SetState
    <2>2. "canceled" \in States
      BY DEF States
    <2>3. /\ u \in Store
          /\ \A j \in Incidents, d \in Channels, w \in Versions :
                 /\ ~(j = i /\ d = c /\ w = 1) => u.row[j][d][w] = s.row[j][d][w]
                 /\ u.row[j][d][w].attempts = s.row[j][d][w].attempts
          /\ u.row[i][c][1].state = "canceled"
      BY <1>3, <1>4, <2>2, PutState
    <2> HIDE DEF u
    <2>4. Later(s, u)
      BY <1>3, <1>12, <2>3 DEF Later, Keeps, Waiting
    <2> QED
      BY <1>3, <2>1, <2>4 DEF s, state
  <1> QED
    BY <1>5, <1>9, <1>10, <1>11, <1>12
-----------------------------------------------------------------------------
(* Steps, and what they leave alone. *)

\* The scenario is fixed, and with it everything that is made of it.
LEMMA Fixed ==
    ASSUME scenario' = scenario
    PROVE  /\ Incidents' = Incidents /\ Channels' = Channels /\ Store' = Store /\ Events' = Events
           /\ Claimed' = Claimed /\ Calls' = Calls /\ Done' = Done
  <1>1. Incidents' = Incidents /\ Channels' = Channels
    BY DEF Incidents, Channels
  <1> QED
    BY <1>1 DEF Store, Events, Claimed, Calls, Done

\* What the invariant says about rows and the worker.
RowInv ==
    /\ JobShape /\ SendingHeld /\ Placed /\ Linked /\ PostsSealed /\ RepliesSealed
    /\ PagesSealed /\ AttemptsLeft

\* A step that leaves the rows, the worker and the services alone keeps what is said of them.
LEMMA RowFrame ==
    ASSUME RowInv, UNCHANGED <<scenario, row, link, worker, job, posts, replies, page>>
    PROVE  RowInv'
  <1>1. /\ Incidents' = Incidents /\ Channels' = Channels
        /\ Claimed' = Claimed /\ Calls' = Calls /\ Done' = Done
    BY Fixed
  <1>2. JobShape'
    BY <1>1 DEF RowInv, JobShape
  <1>3. SendingHeld'
    BY <1>1 DEF RowInv, SendingHeld, Holds
  <1>4. Placed'
    BY DEF RowInv, Placed
  <1>5. Linked'
    BY <1>1 DEF RowInv, Linked
  <1>6. PostsSealed'
    BY <1>1 DEF RowInv, PostsSealed, Posting, Holds
  <1>7. RepliesSealed' /\ PagesSealed'
    BY <1>1 DEF RowInv, RepliesSealed, PagesSealed, Sealed, Holds
  <1>8. AttemptsLeft'
    BY <1>1 DEF RowInv, AttemptsLeft
  <1> QED
    BY <1>2, <1>3, <1>4, <1>5, <1>6, <1>7, <1>8 DEF RowInv

\* A transaction of _process_loop changes rows as Later allows.
LEMMA RowLater ==
    ASSUME RowInv, Tables \in Store, scenario \in Scenarios,
           Later(Tables, Tables'), UNCHANGED <<scenario, link, worker, job, posts, replies, page>>
    PROVE  RowInv'
  <1>1. /\ Incidents' = Incidents /\ Channels' = Channels
        /\ Claimed' = Claimed /\ Calls' = Calls /\ Done' = Done
    BY Fixed
  <1>2. /\ 1 \in Versions /\ 2 \in Versions /\ 3 \in Versions /\ 4 \in Versions /\ 5 \in Versions
        /\ Channels \subseteq {"slack", "notion"}
    BY Domains
  <1>3. \A i \in Incidents, c \in Channels, v \in Versions :
            /\ row[i][c][v] \in Rows
            /\ Keeps(row[i][c][v], row'[i][c][v])
            /\ v # 1 /\ row'[i][c][v].state # "absent" =>
                   row[i][c][v].state # "absent" \/ row[i][c][1].state = "delivered"
    BY StoreCells DEF Later, Tables
  <1>4. \A i \in Incidents, c \in Channels, v \in Versions :
            /\ row'[i][c][v].state = "sending" <=> row[i][c][v].state = "sending"
            /\ row'[i][c][v].state = "delivered" <=> row[i][c][v].state = "delivered"
            /\ row'[i][c][v].state = "manual_review" <=> row[i][c][v].state = "manual_review"
    BY <1>3 DEF Keeps, Waiting
  <1>5. JobShape'
    BY <1>1 DEF RowInv, JobShape
  <1>6. SendingHeld'
    BY <1>1, <1>4 DEF RowInv, SendingHeld, Holds
  <1>7. Placed'
    BY DEF RowInv, Placed
  <1>8. Linked'
    BY <1>1, <1>2, <1>3, <1>4 DEF RowInv, Linked
  <1>9. PostsSealed'
    <2>1. \A i \in Incidents : Posting(i) => Posting(i)'
      BY <1>1, <1>2, <1>4 DEF Posting, Holds
    <2> QED
      BY <1>1, <2>1 DEF RowInv, PostsSealed
  <1>10. RepliesSealed' /\ PagesSealed'
    <2>1. \A i \in Incidents, c \in {"slack", "notion"}, v \in Versions :
              Sealed(i, c, v) => Sealed(i, c, v)'
      BY <1>1, <1>4 DEF Sealed, Holds
    <2> QED
      BY <1>1, <1>2, <2>1 DEF RowInv, RepliesSealed, PagesSealed
  <1>11. AttemptsLeft'
    <2>1. ASSUME NEW i \in Incidents, NEW c \in Channels, NEW v \in Versions
          PROVE  /\ row'[i][c][v].state \in Waiting => row'[i][c][v].attempts < MaxAttempts
                 /\ row'[i][c][v].state = "sending" => row'[i][c][v].attempts > 0
      <3>1. /\ row[i][c][v].state \in Waiting => row[i][c][v].attempts < MaxAttempts
            /\ row[i][c][v].state = "sending" => row[i][c][v].attempts > 0
        BY DEF RowInv, AttemptsLeft
      <3>2. Keeps(row[i][c][v], row'[i][c][v])
        BY <1>3
      <3> QED
        BY <3>1, <3>2, OutboxAssumption DEF Keeps, Waiting
    <2> QED
      BY <1>1, <2>1 DEF AttemptsLeft
  <1> QED
    BY <1>5, <1>6, <1>7, <1>8, <1>9, <1>10, <1>11 DEF RowInv

\* One row changes.
Put(rows, i, c, v, q) == [rows EXCEPT ![i][c][v] = q]
LEMMA CellStep ==
    ASSUME Tables \in Store, NEW i \in Incidents, NEW c \in Channels, NEW v \in Versions,
           NEW q, q \in Rows, row' = Put(row, i, c, v, q), scenario' = scenario,
           incident' = incident
    PROVE  /\ Tables' \in Store
           /\ \A j \in Incidents, d \in Channels, w \in Versions :
                  row'[j][d][w] = IF j = i /\ d = c /\ w = v THEN q ELSE row[j][d][w]
  <1>1. /\ incident \in [Incidents -> Shows]
        /\ row \in [Incidents -> [Channels -> [Versions -> Rows]]]
    BY StoreParts DEF Tables
  <1>2. row' \in [Incidents -> [Channels -> [Versions -> Rows]]]
    BY <1>1 DEF Put
  <1>3. \A j \in Incidents, d \in Channels, w \in Versions :
            row'[j][d][w] = IF j = i /\ d = c /\ w = v THEN q ELSE row[j][d][w]
    BY <1>1 DEF Put
  <1>4. [incident |-> incident, row |-> row'] \in Store
    BY <1>1, <1>2, StoreMade
  <1> QED
    BY <1>3, <1>4 DEF Tables

\* The row that the worker holds is a row.
LEMMA JobPlace ==
    ASSUME JobShape, worker # "wait"
    PROVE  job.incident \in Incidents /\ job.channel \in Channels /\ job.version \in Versions
  BY DEF JobShape, Claimed, Calls, Done

\* What was said stays sealed when no row leaves or enters the sealed states, and the worker
\* has not called a service yet.
LEMMA QuietRow ==
    ASSUME RowInv, scenario \in Scenarios, UNCHANGED <<scenario, link, posts, replies, page>>,
           worker \in {"wait", "claimed"},
           \A i \in Incidents, c \in Channels, v \in Versions :
               /\ row'[i][c][v].state = "delivered" <=> row[i][c][v].state = "delivered"
               /\ row'[i][c][v].state = "manual_review" <=> row[i][c][v].state = "manual_review"
               /\ row'[i][c][v].state = "absent" <=> row[i][c][v].state = "absent"
    PROVE  Linked' /\ PostsSealed' /\ RepliesSealed' /\ PagesSealed'
  <1>1. Incidents' = Incidents /\ Channels' = Channels
    BY Fixed
  <1>2. 1 \in Versions
    BY Domains
  <1>3. Linked'
    BY <1>1, <1>2 DEF RowInv, Linked
  <1>4. PostsSealed'
    <2>1. \A i \in Incidents : Posting(i) => Posting(i)'
      BY <1>1, <1>2 DEF Posting
    <2> QED
      BY <1>1, <2>1 DEF RowInv, PostsSealed
  <1>5. RepliesSealed' /\ PagesSealed'
    <2>1. \A i \in Incidents, c \in {"slack", "notion"}, v \in Versions :
              Sealed(i, c, v) => Sealed(i, c, v)'
      BY <1>1 DEF Sealed
    <2> QED
      BY <1>1, <1>2, <2>1 DEF RowInv, RepliesSealed, PagesSealed
  <1> QED
    BY <1>3, <1>4, <1>5

\* The worker claims a row.
LEMMA ClaimStep ==
    ASSUME RowInv, Tables \in Store, scenario \in Scenarios,
           NEW i \in Incidents, NEW c \in Channels, NEW v \in Versions, Claim(i, c, v),
           UNCHANGED <<scenario, posts, replies, page>>
    PROVE  RowInv' /\ Tables' \in Store
  <1>1. /\ Incidents' = Incidents /\ Channels' = Channels
        /\ Claimed' = Claimed /\ Calls' = Calls /\ Done' = Done
    BY Fixed
  <1>2. /\ worker = "wait" /\ worker' = "claimed" /\ row[i][c][v].state \in Waiting
        /\ job' = [incident |-> i, channel |-> c, version |-> v]
        /\ UNCHANGED <<incident, link>>
    BY DEF Claim, Eligible
  <1> DEFINE q == [row[i][c][v] EXCEPT !.state = "sending", !.attempts = @ + 1]
  <1>3. row[i][c][v] \in Rows /\ row \in [Incidents -> [Channels -> [Versions -> Rows]]]
    BY StoreParts DEF Tables
  <1>4. row[i][c][v].attempts < MaxAttempts
    BY <1>2 DEF RowInv, AttemptsLeft
  <1>5. q \in Rows /\ q.state = "sending" /\ q.attempts > 0
    <2>1. row[i][c][v].attempts + 1 \in 0 .. MaxAttempts /\ row[i][c][v].attempts + 1 > 0
      BY <1>3, <1>4, OutboxAssumption DEF Rows
    <2>2. "sending" \in States
      BY DEF States
    <2> QED
      BY <1>3, <2>1, <2>2 DEF Rows
  <1>6. row' = Put(row, i, c, v, q)
    BY <1>3 DEF Claim, Put
  <1> HIDE DEF q
  <1>7. /\ Tables' \in Store
        /\ \A j \in Incidents, d \in Channels, w \in Versions :
               row'[j][d][w] = IF j = i /\ d = c /\ w = v THEN q ELSE row[j][d][w]
    <2>1. scenario' = scenario /\ incident' = incident
      BY <1>2
    <2> QED
      BY <1>2, <1>5, <1>6, <2>1, CellStep
  <1>8. Linked' /\ PostsSealed' /\ RepliesSealed' /\ PagesSealed'
    BY <1>2, <1>5, <1>7, QuietRow DEF Waiting
  <1>9. JobShape'
    BY <1>1, <1>2 DEF JobShape, Claimed, Calling
  <1>10. SendingHeld'
    <2>1. \A j \in Incidents, d \in Channels, w \in Versions : row[j][d][w].state # "sending"
      BY <1>2 DEF RowInv, SendingHeld, Holds
    <2> QED
      BY <1>1, <1>2, <1>5, <1>7, <2>1 DEF SendingHeld, Holds
  <1>11. Placed'
    BY <1>2 DEF Placed
  <1>12. AttemptsLeft'
    BY <1>1, <1>5, <1>7 DEF RowInv, AttemptsLeft, Waiting
  <1> QED
    BY <1>7, <1>8, <1>9, <1>10, <1>11, <1>12 DEF RowInv

\* The worker puts a row back.
LEMMA PutBackStep ==
    ASSUME RowInv, Tables \in Store, scenario \in Scenarios, worker = "claimed", PutBack,
           UNCHANGED <<scenario, posts, replies, page>>
    PROVE  RowInv' /\ Tables' \in Store
  <1> DEFINE i == job.incident
             c == job.channel
             v == job.version
             q == [row[i][c][v] EXCEPT !.state = "pending", !.attempts = @ - 1]
  <1>1. /\ Incidents' = Incidents /\ Channels' = Channels
        /\ Claimed' = Claimed /\ Calls' = Calls /\ Done' = Done
    BY Fixed
  <1>2. /\ worker' = "wait" /\ job' = NoJob /\ UNCHANGED <<incident, link>>
        /\ i \in Incidents /\ c \in Channels /\ v \in Versions
    BY JobPlace DEF PutBack, RowInv
  <1>3. row[i][c][v] \in Rows /\ row \in [Incidents -> [Channels -> [Versions -> Rows]]]
    BY <1>2, StoreParts DEF Tables
  <1>4. /\ row[i][c][v].state = "sending" /\ row[i][c][v].attempts > 0
        /\ \A j \in Incidents, d \in Channels, w \in Versions :
               row[j][d][w].state = "sending" => j = i /\ d = c /\ w = v
    BY <1>2 DEF RowInv, SendingHeld, Holds, AttemptsLeft
  <1>5. q \in Rows /\ q.state = "pending" /\ q.attempts < MaxAttempts
    <2>1. /\ row[i][c][v].attempts - 1 \in 0 .. MaxAttempts
          /\ row[i][c][v].attempts - 1 < MaxAttempts
      BY <1>3, <1>4, OutboxAssumption DEF Rows
    <2>2. "pending" \in States
      BY DEF States
    <2> QED
      BY <1>3, <2>1, <2>2 DEF Rows
  <1>6. row' = Put(row, i, c, v, q)
    <2>1. row' = [row EXCEPT ![i][c][v].state = "pending", ![i][c][v].attempts = @ - 1]
      BY DEF PutBack
    <2> HIDE DEF i, c, v
    <2> QED
      BY <2>1, <1>2, <1>3 DEF Put
  <1> HIDE DEF q
  <1>7. /\ Tables' \in Store
        /\ \A j \in Incidents, d \in Channels, w \in Versions :
               row'[j][d][w] = IF j = i /\ d = c /\ w = v THEN q ELSE row[j][d][w]
    <2>1. scenario' = scenario /\ incident' = incident
      BY <1>2
    <2> HIDE DEF i, c, v
    <2> QED
      BY <1>2, <1>5, <1>6, <2>1, CellStep
  <1>8. Linked' /\ PostsSealed' /\ RepliesSealed' /\ PagesSealed'
    BY <1>2, <1>4, <1>5, <1>7, QuietRow
  <1>9. JobShape'
    BY <1>2 DEF JobShape, Calling
  <1>10. SendingHeld'
    BY <1>1, <1>2, <1>4, <1>5, <1>7 DEF SendingHeld, Holds
  <1>11. Placed'
    BY <1>2 DEF Placed
  <1>12. AttemptsLeft'
    BY <1>1, <1>4, <1>5, <1>7 DEF RowInv, AttemptsLeft, Waiting
  <1> QED
    BY <1>7, <1>8, <1>9, <1>10, <1>11, <1>12 DEF RowInv

\* What an incident or a row shows.
LEMMA ShowsType ==
    ASSUME Tables \in Store, NEW i \in Incidents
    PROVE  /\ Shown(incident, i) \in Shows
           /\ \A c \in Channels, v \in Versions :
                  [state |-> row[i][c][v].status, noted |-> row[i][c][v].noted] \in Shows
           /\ Hidden \in Shows
  <1>1. incident[i] \in Shows /\ \A c \in Channels, v \in Versions : row[i][c][v] \in Rows
    BY StoreCells DEF Tables
  <1>2. Shown(incident, i) \in Shows
    BY <1>1 DEF Shown, Shows
  <1>3. \A c \in Channels, v \in Versions :
            [state |-> row[i][c][v].status, noted |-> row[i][c][v].noted] \in Shows
    BY <1>1 DEF Rows, Shows
  <1>4. Hidden \in Shows
    BY DEF Hidden, Shows, IncidentStates
  <1> QED
    BY <1>2, <1>3, <1>4

\* Where a claimed row goes.
NextPlace(c, v) ==
    IF c = "notion" THEN IF v = 1 THEN "find" ELSE IF v = 3 THEN "look" ELSE "patch"
    ELSE IF v = 3 THEN "reply" ELSE IF link THEN "edit" ELSE "post"

\* The payload is built.
LEMMA BuildStep ==
    ASSUME RowInv, Tables \in Store, scenario \in Scenarios, Build,
           UNCHANGED <<scenario, posts, replies, page>>
    PROVE  RowInv' /\ Tables' \in Store
  <1> DEFINE i == job.incident
             c == job.channel
             v == job.version
             shows == IF v >= 4 THEN Shown(incident, i)
                      ELSE [state |-> row[i][c][v].status, noted |-> row[i][c][v].noted]
             view == IF c = "slack" THEN SessionView(i) ELSE [x \in Incidents |-> Hidden]
  <1>1. /\ Incidents' = Incidents /\ Channels' = Channels /\ Store' = Store
        /\ Claimed' = Claimed /\ Calls' = Calls /\ Done' = Done
    BY Fixed
  <1>2. /\ worker = "claimed" /\ worker' = NextPlace(c, v)
        /\ UNCHANGED <<incident, row, link>>
        /\ job' = [incident |-> i, channel |-> c, version |-> v, shows |-> shows, view |-> view,
                   edited |-> FALSE]
    BY DEF Build, store, NextPlace
  <1>3. i \in Incidents /\ c \in Channels /\ v \in Versions /\ Channels \subseteq {"slack", "notion"}
    BY <1>2, JobPlace, Domains DEF RowInv
  <1>4. shows \in Shows /\ view \in [Incidents -> Shows]
    <2>1. \A x \in Incidents : Shown(incident, x) \in Shows /\ Hidden \in Shows
      BY ShowsType
    <2>2. view \in [Incidents -> Shows]
      BY <2>1 DEF SessionView
    <2>3. [state |-> row[i][c][v].status, noted |-> row[i][c][v].noted] \in Shows
      BY <1>3, ShowsType
    <2> QED
      BY <1>3, <2>1, <2>2, <2>3
  <1> HIDE DEF shows, view
  <1>5. job' \in Calls
    BY <1>2, <1>3, <1>4 DEF Calls
  <1>6. /\ job'.incident = i /\ job'.channel = c /\ job'.version = v
        /\ worker' \in Calling \ {"session", "create", "append"}
        /\ worker' \in {"edit", "post", "reply"} => c = "slack"
        /\ worker' \in {"edit", "post"} => v # 3
        /\ worker' \in {"find", "look", "patch"} => c = "notion"
        /\ worker' = "find" => v = 1
    BY <1>2, <1>3 DEF NextPlace, Calling
  <1>7. Linked' /\ PostsSealed' /\ RepliesSealed' /\ PagesSealed'
    BY <1>2, QuietRow
  <1>8. JobShape'
    BY <1>1, <1>5, <1>6 DEF JobShape, Calling
  <1>9. SendingHeld'
    BY <1>1, <1>2, <1>6 DEF RowInv, SendingHeld, Holds, Calling
  <1>10. Placed'
    BY <1>6 DEF Placed, Calling
  <1>11. AttemptsLeft'
    BY <1>1, <1>2 DEF RowInv, AttemptsLeft
  <1>12. Tables' \in Store
    BY <1>2 DEF Tables
  <1> QED
    BY <1>7, <1>8, <1>9, <1>10, <1>11, <1>12 DEF RowInv

\* Canceling an alert that waits.
LEMMA CanceledCells ==
    ASSUME Tables \in Store, NEW i \in Incidents, row' = [row EXCEPT ![i] = Canceled(row[i])],
           scenario' = scenario, incident' = incident
    PROVE  /\ Tables' \in Store
           /\ \A j \in Incidents, c \in Channels, v \in Versions :
                  \/ row'[j][c][v] = row[j][c][v]
                  \/ /\ v = 1 /\ row[j][c][v].state \in Waiting /\ row'[j][c][v].state = "canceled"
                     /\ row'[j][c][v].status = row[j][c][v].status
  <1> DEFINE q == Canceled(row[i])
  <1>1. /\ incident \in [Incidents -> Shows]
        /\ row \in [Incidents -> [Channels -> [Versions -> Rows]]]
    BY StoreParts DEF Tables
  <1>2. \A r \in Rows : [r EXCEPT !.state = "canceled"] \in Rows
                        /\ [r EXCEPT !.state = "canceled"].state = "canceled"
                        /\ [r EXCEPT !.state = "canceled"].status = r.status
    BY DEF Rows, States
  <1>3. q \in [Channels -> [Versions -> Rows]]
    BY <1>1, <1>2 DEF Canceled
  <1>4. \A c \in Channels, v \in Versions :
            \/ q[c][v] = row[i][c][v]
            \/ /\ v = 1 /\ row[i][c][v].state \in Waiting /\ q[c][v].state = "canceled"
               /\ q[c][v].status = row[i][c][v].status
    BY <1>1, <1>2 DEF Canceled
  <1>5. row' = [row EXCEPT ![i] = q]
    OBVIOUS
  <1> HIDE DEF q
  <1>6. row' \in [Incidents -> [Channels -> [Versions -> Rows]]]
    BY <1>1, <1>3, <1>5
  <1>7. \A j \in Incidents : row'[j] = IF j = i THEN q ELSE row[j]
    BY <1>1, <1>5
  <1>8. [incident |-> incident, row |-> row'] \in Store
    BY <1>1, <1>6, StoreMade
  <1>9. Store' = Store
    BY Fixed
  <1> QED
    BY <1>4, <1>7, <1>8, <1>9 DEF Tables

\* A stale alert of a reboot is dropped.
LEMMA DropStep ==
    ASSUME RowInv, Tables \in Store, scenario \in Scenarios, NEW i \in Incidents, DropStale(i),
           UNCHANGED <<scenario, posts, replies, page>>
    PROVE  RowInv' /\ Tables' \in Store
  <1>1. /\ Incidents' = Incidents /\ Channels' = Channels
        /\ Claimed' = Claimed /\ Calls' = Calls /\ Done' = Done
    BY Fixed
  <1>2. worker = "wait" /\ UNCHANGED <<incident, link, worker, job>>
    BY DEF DropStale
  <1>3. /\ Tables' \in Store
        /\ \A j \in Incidents, c \in Channels, v \in Versions :
               \/ row'[j][c][v] = row[j][c][v]
               \/ row[j][c][v].state \in Waiting /\ row'[j][c][v].state = "canceled"
    BY <1>2, CanceledCells DEF DropStale
  <1>4. Linked' /\ PostsSealed' /\ RepliesSealed' /\ PagesSealed'
    BY <1>2, <1>3, QuietRow DEF Waiting
  <1>5. JobShape'
    BY <1>1, <1>2 DEF RowInv, JobShape
  <1>6. SendingHeld'
    BY <1>1, <1>2, <1>3 DEF RowInv, SendingHeld, Holds, Waiting
  <1>7. Placed'
    BY <1>2 DEF RowInv, Placed
  <1>8. AttemptsLeft'
    BY <1>1, <1>3 DEF RowInv, AttemptsLeft, Waiting
  <1> QED
    BY <1>3, <1>4, <1>5, <1>6, <1>7, <1>8 DEF RowInv
-----------------------------------------------------------------------------
(* The calls of the services. *)

RemoteShape ==
    /\ posts \in [Incidents -> 0 .. 1] /\ replies \in [Incidents -> [Versions -> 0 .. 1]]
    /\ page \in [Incidents -> Pages]

\* How an answer is classified: a call that was performed and cannot be repeated is delivered
\* or left to a person.
LEMMA Classified ==
    ASSUME NEW answer \in Answers, NEW safe \in BOOLEAN
    PROVE  /\ Classify(answer, safe) \in {"delivered", "retryable", "permanent", "unknown"}
           /\ Performed(answer) /\ ~safe => Classify(answer, safe) \in {"delivered", "unknown"}
           /\ Classify(answer, safe) = "delivered" <=> answer = "ok"
           /\ answer = "late" /\ ~safe => Classify(answer, safe) = "unknown"
           /\ Performed(answer) <=> answer \in {"ok", "late"}
  BY DEF Answers, Classify, Performed

\* A result ends the call and keeps the row.
SamePlace ==
    job'.incident = job.incident /\ job'.channel = job.channel /\ job'.version = job.version
LEMMA ResultStep ==
    ASSUME job \in Calls, NEW x \in {"delivered", "retryable", "permanent", "unknown"},
           NEW parent \in BOOLEAN, Result(x, parent)
    PROVE  /\ worker' = "finish" /\ job' \in Done /\ SamePlace
           /\ job'.result = x /\ job'.parent = parent
  BY DEF Result, Calls, Done, SamePlace

\* A written card is followed by a reply or by the result.
LEMMA CardWrittenStep ==
    ASSUME job \in Calls, NEW edited \in BOOLEAN, CardWritten(edited)
    PROVE  /\ SamePlace
           /\ \/ worker' = "reply" /\ job' \in Calls
              \/ worker' = "finish" /\ job' \in Done /\ job'.result = "delivered" /\ job'.parent
  <1>1. CASE NeedsReply(edited)
    <2>1. worker' = "reply" /\ job' = [job EXCEPT !.edited = TRUE]
      BY <1>1 DEF CardWritten
    <2>2. job' \in Calls /\ SamePlace
      BY <2>1 DEF Calls, SamePlace
    <2> QED
      BY <2>1, <2>2
  <1>2. CASE ~NeedsReply(edited)
    <2>1. Result("delivered", TRUE)
      BY <1>2 DEF CardWritten
    <2> QED
      BY <2>1, ResultStep
  <1> QED
    BY <1>1, <1>2

\* A call leaves the tables alone; only a reply ends what a posted card waits for.
SendBase == /\ RowInv /\ RemoteShape /\ Tables \in Store /\ scenario \in Scenarios
            /\ worker \in Calling /\ UNCHANGED <<scenario, incident, row, link>>
            /\ worker' # "wait" /\ SamePlace
LEMMA SendFrame ==
    ASSUME SendBase
    PROVE  /\ Linked' /\ AttemptsLeft' /\ SendingHeld'
           /\ /\ posts' = posts
              /\ worker = "reply" => worker' = "finish" /\ (job.version # 3 => job'.parent)
              => PostsSealed'
           /\ replies' = replies => RepliesSealed'
           /\ (\A i \in Incidents : page'[i].count = page[i].count) => PagesSealed'
  <1>1. Incidents' = Incidents /\ Channels' = Channels
    BY Fixed DEF SendBase
  <1>2. worker \in Calling
    BY DEF SendBase
  <1>3. Linked'
    BY <1>1 DEF SendBase, RowInv, Linked
  <1>4. AttemptsLeft'
    BY <1>1 DEF SendBase, RowInv, AttemptsLeft
  <1>5. SendingHeld'
    BY <1>1 DEF SendBase, RowInv, SendingHeld, Holds, Calling, SamePlace
  <1>6. ASSUME posts' = posts,
               worker = "reply" => worker' = "finish" /\ (job.version # 3 => job'.parent)
        PROVE  PostsSealed'
    <2>1. \A i \in Incidents : Posting(i) => Posting(i)'
      BY <1>1, <1>2, <1>6 DEF SendBase, Posting, Holds, SamePlace, Calling
    <2> QED
      BY <1>1, <1>6, <2>1 DEF SendBase, RowInv, PostsSealed
  <1>7. ASSUME NEW i \in Incidents, NEW c, NEW v \in Versions, Sealed(i, c, v) PROVE Sealed(i, c, v)'
    BY <1>1, <1>2, <1>7 DEF SendBase, Sealed, Calling
  <1>8. replies' = replies => RepliesSealed'
    BY <1>1, <1>7 DEF SendBase, RowInv, RepliesSealed
  <1>9. (\A i \in Incidents : page'[i].count = page[i].count) => PagesSealed'
    <2>1. 1 \in Versions
      BY DEF Versions
    <2> QED
      BY <1>1, <1>7, <2>1 DEF SendBase, RowInv, PagesSealed
  <1> QED
    BY <1>3, <1>4, <1>5, <1>6, <1>8, <1>9

\* The remaining parts of the invariant after a call.
LEMMA SendDone ==
    ASSUME SendBase, RemoteShape',
           worker' \in Calling => job' \in Calls, worker' = "finish" => job' \in Done,
           worker' \in Calling \cup {"finish"}, Placed', PostsSealed', RepliesSealed', PagesSealed'
    PROVE  RowInv' /\ RemoteShape' /\ Tables' \in Store
  <1>1. /\ Incidents' = Incidents /\ Channels' = Channels /\ Store' = Store
        /\ Claimed' = Claimed /\ Calls' = Calls /\ Done' = Done
    BY Fixed DEF SendBase
  <1>2. JobShape'
    BY <1>1 DEF JobShape, Calling
  <1>3. Tables' \in Store
    BY DEF SendBase, Tables
  <1>4. Linked' /\ AttemptsLeft' /\ SendingHeld'
    BY SendFrame
  <1> QED
    BY <1>2, <1>3, <1>4 DEF RowInv

SendPre == /\ RowInv /\ RemoteShape /\ Tables \in Store /\ scenario \in Scenarios
           /\ UNCHANGED <<scenario, incident, row, link>>
SendPost == RowInv' /\ RemoteShape' /\ Tables' \in Store

\* Where a call is made from.
LEMMA CallPlace ==
    ASSUME SendPre, worker \in Calling
    PROVE  /\ job \in Calls
           /\ job.incident \in Incidents /\ job.channel \in Channels /\ job.version \in Versions
           /\ row[job.incident][job.channel][job.version].state = "sending"
  <1>1. job \in Calls /\ worker # "wait"
    BY DEF SendPre, RowInv, JobShape, Calling
  <1>2. job.incident \in Incidents /\ job.channel \in Channels /\ job.version \in Versions
    BY <1>1 DEF Calls
  <1> QED
    BY <1>1, <1>2 DEF SendPre, RowInv, SendingHeld, Holds

\* A step that leaves what was said keeps its shape.
LEMMA RemoteFrame ==
    ASSUME RemoteShape, UNCHANGED <<scenario, posts, replies, page>>
    PROVE  RemoteShape'
  BY Fixed DEF RemoteShape

\* The card is edited.
LEMMA SlackEditStep == ASSUME SendPre, SlackEdit PROVE SendPost
  <1>1. worker = "edit" /\ worker \in Calling /\ UNCHANGED <<posts, replies, page>>
    BY DEF SlackEdit, Calling
  <1>2. job \in Calls /\ job.channel = "slack" /\ job.version # 3
    BY <1>1, CallPlace DEF SendPre, RowInv, Placed
  <1>3. /\ SamePlace
        /\ \/ worker' \in {"post", "reply"} /\ job' \in Calls
           \/ /\ worker' = "finish" /\ job' \in Done
              /\ job'.result = "delivered" => job'.parent
    <2>1. CASE card = <<>>
      <3>1. worker' = "post" /\ job' = job
        BY <2>1 DEF SlackEdit
      <3> QED
        BY <1>2, <3>1 DEF SamePlace
    <2>2. CASE card # <<>>
      <3>1. PICK answer \in Answers : IF answer = "ok" THEN CardWritten(TRUE)
                                      ELSE Result(Classify(answer, TRUE), FALSE)
        BY <2>2 DEF SlackEdit
      <3>2. CASE answer = "ok"
        BY <1>2, <3>1, <3>2, CardWrittenStep
      <3>3. CASE answer # "ok"
        <4>1. Classify(answer, TRUE) \in {"delivered", "retryable", "permanent", "unknown"}
              /\ Classify(answer, TRUE) # "delivered"
          BY <3>3, Classified
        <4>2. Result(Classify(answer, TRUE), FALSE)
          BY <3>1, <3>3
        <4> QED
          BY <1>2, <4>1, <4>2, ResultStep
      <3> QED
        BY <3>2, <3>3
    <2> QED
      BY <2>1, <2>2
  <1>4. SendBase
    BY <1>1, <1>3 DEF SendPre, SendBase
  <1>5. PostsSealed' /\ RepliesSealed' /\ PagesSealed'
    BY <1>1, <1>4, SendFrame
  <1>6. Placed'
    BY <1>2, <1>3 DEF Placed, SamePlace
  <1>7. RemoteShape'
    BY <1>1, RemoteFrame DEF SendPre
  <1> QED
    BY <1>3, <1>4, <1>5, <1>6, <1>7, SendDone DEF SendPost, Calling

\* A card is posted: once, while its link is not stored.
LEMMA SlackPostStep == ASSUME SendPre, SlackPost PROVE SendPost
  <1> DEFINE i == job.incident
  <1>1. worker = "post" /\ worker \in Calling /\ UNCHANGED <<replies, page>>
    BY DEF SlackPost, Calling
  <1>2. /\ job \in Calls /\ job.channel = "slack" /\ job.version # 3 /\ i \in Incidents
        /\ "slack" \in Channels /\ job.version \in Versions
        /\ row[i]["slack"][job.version].state = "sending"
    BY <1>1, CallPlace DEF SendPre, RowInv, Placed
  <1>3. PICK answer \in Answers :
            /\ posts' = [posts EXCEPT ![i] = @ + (IF Performed(answer) /\ ~link THEN 1 ELSE 0)]
            /\ IF answer = "ok" THEN CardWritten(FALSE) ELSE Result(Classify(answer, FALSE), FALSE)
    BY DEF SlackPost
  <1>4. /\ SamePlace
        /\ \/ worker' = "reply" /\ job' \in Calls
           \/ /\ worker' = "finish" /\ job' \in Done
              /\ job'.result = "delivered" => job'.parent
              /\ Performed(answer) => job'.parent \/ job'.result = "unknown"
    <2>1. CASE answer = "ok"
      BY <1>2, <1>3, <2>1, CardWrittenStep
    <2>2. CASE answer # "ok"
      <3>1. /\ Classify(answer, FALSE) \in {"delivered", "retryable", "permanent", "unknown"}
            /\ Classify(answer, FALSE) # "delivered"
            /\ Performed(answer) => Classify(answer, FALSE) = "unknown"
        BY <2>2, Classified
      <3>2. Result(Classify(answer, FALSE), FALSE)
        BY <1>3, <2>2
      <3> QED
        BY <1>2, <3>1, <3>2, ResultStep
    <2> QED
      BY <2>1, <2>2
  <1>5. Incidents' = Incidents /\ Channels' = Channels
    BY Fixed DEF SendPre
  <1>6. ~link => job.version = 1 /\ posts[i] = 0
    <2>1. ~link => job.version = 1
      BY <1>2 DEF SendPre, RowInv, Linked
    <2>2. ~link => ~Posting(i)
      BY <1>1, <1>2, <2>1 DEF Posting
    <2> QED
      BY <1>2, <2>1, <2>2 DEF SendPre, RowInv, PostsSealed
  <1>7. posts \in [Incidents -> 0 .. 1]
    BY DEF SendPre, RemoteShape
  <1>8. posts' \in [Incidents -> 0 .. 1] /\ \A j \in Incidents : j # i => posts'[j] = posts[j]
    <2>1. posts[i] + (IF Performed(answer) /\ ~link THEN 1 ELSE 0) \in 0 .. 1
      BY <1>2, <1>6, <1>7
    <2> QED
      BY <1>3, <1>7, <2>1
  <1>9. posts'[i] # 0 /\ ~link => Performed(answer)
    BY <1>2, <1>3, <1>6, <1>7
  <1>10. SendBase
    BY <1>1, <1>4 DEF SendPre, SendBase
  <1>11. RepliesSealed' /\ PagesSealed'
    BY <1>1, <1>10, SendFrame
  <1>12. PostsSealed'
    <2> SUFFICES ASSUME ~link, NEW j \in Incidents, posts'[j] # 0 PROVE Posting(j)'
      BY <1>5 DEF PostsSealed, SendPre
    <2>1. CASE j = i
      BY <1>2, <1>4, <1>5, <1>6, <1>9, <2>1 DEF Posting, Holds, SamePlace
    <2>2. CASE j # i
      <3>1. Posting(j)
        BY <1>8, <2>2 DEF SendPre, RowInv, PostsSealed
      <3>2. row[j]["slack"][1].state = "manual_review"
        BY <1>1, <3>1 DEF Posting
      <3> QED
        BY <1>2, <1>5, <3>2 DEF Posting, SendPre
    <2> QED
      BY <2>1, <2>2
  <1>13. Placed'
    BY <1>2, <1>4 DEF Placed, SamePlace
  <1>14. RemoteShape'
    BY <1>1, <1>5, <1>8 DEF SendPre, RemoteShape
  <1> QED
    BY <1>4, <1>10, <1>11, <1>12, <1>13, <1>14, SendDone DEF SendPost, Calling

\* A reply is posted: one of each row.
LEMMA SlackReplyStep == ASSUME SendPre, SlackReply PROVE SendPost
  <1> DEFINE i == job.incident
             v == job.version
  <1>1. worker = "reply" /\ worker \in Calling /\ UNCHANGED <<posts, page>>
    BY DEF SlackReply, Calling
  <1>2. /\ job \in Calls /\ job.channel = "slack" /\ i \in Incidents /\ v \in Versions
        /\ "slack" \in Channels /\ row[i]["slack"][v].state = "sending"
    BY <1>1, CallPlace DEF SendPre, RowInv, Placed
  <1>3. PICK answer \in Answers :
            /\ replies' = [replies EXCEPT ![i][v] = @ + (IF Performed(answer) THEN 1 ELSE 0)]
            /\ Result(Classify(answer, FALSE), v # 3)
    BY DEF SlackReply
  <1>4. /\ SamePlace /\ worker' = "finish" /\ job' \in Done /\ job'.parent = (v # 3)
        /\ Performed(answer) => job'.result \in {"delivered", "unknown"}
    <2>1. /\ Classify(answer, FALSE) \in {"delivered", "retryable", "permanent", "unknown"}
          /\ Performed(answer) => Classify(answer, FALSE) \in {"delivered", "unknown"}
      BY Classified
    <2> QED
      BY <1>2, <1>3, <2>1, ResultStep
  <1>5. Incidents' = Incidents /\ Channels' = Channels
    BY Fixed DEF SendPre
  <1>6. replies \in [Incidents -> [Versions -> 0 .. 1]]
    BY DEF SendPre, RemoteShape
  <1>7. replies[i][v] = 0
    <2>1. ~Sealed(i, "slack", v)
      BY <1>1, <1>2 DEF Sealed
    <2> QED
      BY <1>2, <2>1 DEF SendPre, RowInv, RepliesSealed
  <1>8. /\ replies' \in [Incidents -> [Versions -> 0 .. 1]]
        /\ \A j \in Incidents, w \in Versions : ~(j = i /\ w = v) => replies'[j][w] = replies[j][w]
        /\ replies'[i][v] # 0 => Performed(answer)
    <2> HIDE DEF i, v
    <2>1. replies[i][v] + (IF Performed(answer) THEN 1 ELSE 0) \in 0 .. 1
      BY <1>7
    <2> QED
      BY <1>2, <1>3, <1>6, <1>7, <2>1
  <1>9. SendBase
    BY <1>1, <1>4 DEF SendPre, SendBase
  <1>10. PostsSealed' /\ PagesSealed'
    BY <1>1, <1>4, <1>9, SendFrame
  <1>11. RepliesSealed'
    <2> SUFFICES ASSUME NEW j \in Incidents, NEW w \in Versions, replies'[j][w] # 0
                 PROVE  Sealed(j, "slack", w)'
      BY <1>5 DEF RepliesSealed
    <2>1. CASE j = i /\ w = v
      BY <1>2, <1>4, <1>5, <1>8, <2>1 DEF Sealed, Holds, SamePlace
    <2>2. CASE ~(j = i /\ w = v)
      <3>1. Sealed(j, "slack", w)
        BY <1>8, <2>2 DEF SendPre, RowInv, RepliesSealed
      <3>2. row[j]["slack"][w].state \in {"delivered", "manual_review"}
        BY <1>1, <3>1 DEF Sealed
      <3> QED
        BY <1>2, <1>5, <3>2 DEF Sealed, SendPre
    <2> QED
      BY <2>1, <2>2
  <1>12. Placed'
    BY <1>4 DEF Placed, SamePlace
  <1>13. RemoteShape'
    BY <1>1, <1>5, <1>8 DEF SendPre, RemoteShape
  <1> QED
    BY <1>4, <1>9, <1>10, <1>11, <1>12, <1>13, SendDone DEF SendPost, Calling

\* A call of Notion that leaves the pages alone.
LEMMA NotionQuiet ==
    ASSUME SendPre, worker \in {"find", "session", "look"}, UNCHANGED <<posts, replies, page>>,
           SamePlace,
           \/ worker' = "finish" /\ job' \in Done
           \/ /\ job' \in Calls
              /\ \/ worker' \in {"patch", "session"} /\ worker = "find"
                 \/ worker' = "create" /\ worker = "session"
                 \/ worker' = "append" /\ worker = "look" /\ page[job.incident].tables = 0
    PROVE  SendPost
  <1>1. worker \in Calling /\ worker # "reply"
    BY DEF Calling
  <1>2. /\ job.channel = "notion"
        /\ worker \in {"find", "session"} => job.version = 1
    BY DEF SendPre, RowInv, Placed
  <1>3. SendBase
    BY <1>1 DEF SendPre, SendBase
  <1>4. PostsSealed' /\ RepliesSealed' /\ PagesSealed'
    BY <1>1, <1>3, SendFrame
  <1>5. Placed'
    BY <1>2 DEF Placed, SamePlace
  <1>6. RemoteShape'
    BY RemoteFrame DEF SendPre
  <1> QED
    BY <1>3, <1>4, <1>5, <1>6, SendDone DEF SendPost, Calling

\* A result that is no delivery, or that any row of Notion may have.
LEMMA NotionResult ==
    ASSUME job \in Calls, NEW answer \in Answers, NEW safe \in BOOLEAN,
           Result(Classify(answer, safe), FALSE)
    PROVE  /\ worker' = "finish" /\ job' \in Done /\ SamePlace
           /\ job'.result = Classify(answer, safe)
  <1> DEFINE x == Classify(answer, safe)
  <1>1. x \in {"delivered", "retryable", "permanent", "unknown"}
    BY Classified
  <1>2. Result(x, FALSE)
    OBVIOUS
  <1> HIDE DEF x
  <1>3. worker' = "finish" /\ job' \in Done /\ SamePlace /\ job'.result = x
    BY <1>1, <1>2, ResultStep
  <1> QED
    BY <1>3 DEF x

\* The page of an alert is looked up.
LEMMA NotionFindStep == ASSUME SendPre, NotionFind PROVE SendPost
  <1>1. worker = "find" /\ worker \in Calling /\ UNCHANGED <<posts, replies, page>>
    BY DEF NotionFind, remote, Calling
  <1>2. job \in Calls
    BY <1>1, CallPlace
  <1>3. PICK answer \in {"ok", "lost", "refused"} :
            IF answer # "ok" THEN Result(Classify(answer, TRUE), FALSE)
            ELSE worker' \in {"patch", "session"} /\ job' = job
    BY DEF NotionFind
  <1>4. answer \in Answers
    BY DEF Answers
  <1>5. CASE answer # "ok"
    BY <1>1, <1>2, <1>3, <1>4, <1>5, NotionResult, NotionQuiet
  <1>6. CASE answer = "ok"
    BY <1>1, <1>2, <1>3, <1>6, NotionQuiet DEF SamePlace
  <1> QED
    BY <1>5, <1>6

\* The page of the session is looked up or created.
LEMMA NotionSessionStep == ASSUME SendPre, NotionSession PROVE SendPost
  <1>1. worker = "session" /\ worker \in Calling /\ UNCHANGED <<posts, replies, page>>
    BY DEF NotionSession, remote, Calling
  <1>2. job \in Calls
    BY <1>1, CallPlace
  <1>3. PICK answer \in {"ok", "lost", "refused"} :
            IF answer = "ok" THEN worker' = "create" /\ job' = job
            ELSE Result(Classify(answer, TRUE), FALSE)
    BY DEF NotionSession
  <1>4. answer \in Answers
    BY DEF Answers
  <1>5. CASE answer # "ok"
    BY <1>1, <1>2, <1>3, <1>4, <1>5, NotionResult, NotionQuiet
  <1>6. CASE answer = "ok"
    BY <1>1, <1>2, <1>3, <1>6, NotionQuiet DEF SamePlace
  <1> QED
    BY <1>5, <1>6

\* The children of the page are read before the table is appended.
LEMMA NotionLookStep == ASSUME SendPre, NotionLook PROVE SendPost
  <1>1. worker = "look" /\ worker \in Calling /\ UNCHANGED <<posts, replies, page>>
    BY DEF NotionLook, remote, Calling
  <1>2. job \in Calls /\ job.incident \in Incidents
    BY <1>1, CallPlace
  <1>3. PICK answer \in {"ok", "lost", "refused"} :
            IF answer # "ok" THEN Result(Classify(answer, TRUE), FALSE)
            ELSE IF page[job.incident].tables > 0 THEN Result("delivered", FALSE)
            ELSE worker' = "append" /\ job' = job
    BY DEF NotionLook
  <1>4. answer \in Answers
    BY DEF Answers
  <1>5. CASE answer # "ok"
    BY <1>1, <1>2, <1>3, <1>4, <1>5, NotionResult, NotionQuiet
  <1>6. CASE answer = "ok" /\ page[job.incident].tables > 0
    <2>1. worker' = "finish" /\ job' \in Done /\ SamePlace
      BY <1>2, <1>3, <1>6, ResultStep
    <2> QED
      BY <1>1, <2>1, NotionQuiet
  <1>7. CASE answer = "ok" /\ ~(page[job.incident].tables > 0)
    <2>1. page[job.incident].tables \in 0 .. 1
      BY <1>2 DEF SendPre, RemoteShape, Pages
    <2>2. page[job.incident].tables = 0
      BY <1>7, <2>1
    <2> QED
      BY <1>1, <1>2, <1>3, <1>7, <2>2, NotionQuiet DEF SamePlace
  <1> QED
    BY <1>5, <1>6, <1>7

\* One page is replaced.
Put1(pages, i, q) == [pages EXCEPT ![i] = q]

\* A page changes: it is created once, its table is appended once.
LEMMA NotionWrite ==
    ASSUME SendPre, worker \in {"create", "patch", "append"}, posts' = posts, replies' = replies,
           NEW answer \in Answers, NEW safe \in BOOLEAN, Result(Classify(answer, safe), FALSE),
           NEW q \in Pages, NEW written \in BOOLEAN,
           page' = IF written THEN Put1(page, job.incident, q) ELSE page,
           \/ q.count = page[job.incident].count
           \/ worker = "create" /\ ~safe /\ (written => Performed(answer))
    PROVE  SendPost
  <1> DEFINE i == job.incident
  <1>1. worker \in Calling /\ worker # "reply"
    BY DEF Calling
  <1>2. /\ job \in Calls /\ job.channel = "notion" /\ i \in Incidents
        /\ worker = "create" => job.version = 1
        /\ "notion" \in Channels
    BY <1>1, CallPlace DEF SendPre, RowInv, Placed
  <1>3. /\ worker' = "finish" /\ job' \in Done /\ SamePlace
        /\ job'.result = Classify(answer, safe)
    BY <1>2, NotionResult
  <1>4. SendBase
    BY <1>1, <1>3 DEF SendPre, SendBase
  <1>5. Incidents' = Incidents /\ Channels' = Channels
    BY Fixed DEF SendPre
  <1>6. page \in [Incidents -> Pages]
    BY DEF SendPre, RemoteShape
  <1>7. /\ page' \in [Incidents -> Pages]
        /\ \A j \in Incidents : page'[j] = IF written /\ j = i THEN q ELSE page[j]
    <2> HIDE DEF i
    <2>1. page' = IF written THEN Put1(page, i, q) ELSE page
      BY DEF i
    <2> QED
      BY <1>2, <1>6, <2>1 DEF Put1
  <1>8. PostsSealed' /\ RepliesSealed'
    BY <1>1, <1>4, SendFrame
  <1>9. PagesSealed'
    <2>1. CASE q.count = page[i].count
      <3>1. \A j \in Incidents : page'[j].count = page[j].count
        BY <1>7, <2>1
      <3> QED
        BY <1>4, <3>1, SendFrame
    <2>2. CASE worker = "create" /\ ~safe /\ (written => Performed(answer))
      <3> SUFFICES ASSUME NEW j \in Incidents, page'[j].count # 0 PROVE Sealed(j, "notion", 1)'
        BY <1>5 DEF PagesSealed
      <3>1. CASE written /\ j = i
        <4>1. job'.result \in {"delivered", "unknown"}
          BY <1>3, <2>2, <3>1, Classified
        <4> QED
          BY <1>2, <1>3, <1>5, <2>2, <3>1, <4>1 DEF Sealed, Holds, SamePlace
      <3>2. CASE ~(written /\ j = i)
        <4>1. Sealed(j, "notion", 1)
          BY <1>7, <3>2 DEF SendPre, RowInv, PagesSealed
        <4>2. row[j]["notion"][1].state \in {"delivered", "manual_review"}
          BY <1>1, <4>1 DEF Sealed
        <4> QED
          BY <1>2, <1>5, <4>2 DEF Sealed, SendPre
      <3> QED
        BY <3>1, <3>2
    <2> QED
      BY <2>1, <2>2
  <1>10. Placed'
    BY <1>2, <1>3 DEF Placed, SamePlace
  <1>11. RemoteShape'
    BY <1>5, <1>7 DEF SendPre, RemoteShape
  <1> QED
    BY <1>3, <1>4, <1>8, <1>9, <1>10, <1>11, SendDone DEF SendPost, Calling

\* The page of an alert is created.
LEMMA NotionCreateStep == ASSUME SendPre, NotionCreate PROVE SendPost
  <1> DEFINE i == job.incident
             q == [page[i] EXCEPT !.count = @ + 1, !.shows = job.shows]
  <1>1. worker = "create" /\ worker \in Calling /\ posts' = posts /\ replies' = replies
    BY DEF NotionCreate, Calling
  <1>2. /\ job \in Calls /\ job.channel = "notion" /\ i \in Incidents /\ job.version = 1
        /\ "notion" \in Channels /\ row[i]["notion"][1].state = "sending"
    BY <1>1, CallPlace DEF SendPre, RowInv, Placed
  <1>3. page \in [Incidents -> Pages] /\ page[i] \in Pages /\ job.shows \in Shows
    BY <1>2 DEF SendPre, RemoteShape, Calls
  <1>4. page[i].count = 0
    <2>1. ~Sealed(i, "notion", 1)
      BY <1>1, <1>2 DEF Sealed
    <2> QED
      BY <1>2, <2>1 DEF SendPre, RowInv, PagesSealed
  <1>5. q \in Pages
    <2> HIDE DEF i
    <2>1. page[i].count + 1 \in 0 .. 1
      BY <1>4
    <2>2. \A p \in Pages, n \in 0 .. 1, x \in Shows :
              [p EXCEPT !.count = n, !.shows = x] \in Pages
      BY DEF Pages
    <2> QED
      BY <1>3, <2>1, <2>2
  <1>6. PICK answer \in Answers :
            /\ page' = IF Performed(answer)
                       THEN [page EXCEPT ![i].count = @ + 1, ![i].shows = job.shows] ELSE page
            /\ Result(Classify(answer, FALSE), FALSE)
    BY DEF NotionCreate
  <1>7. [page EXCEPT ![i].count = @ + 1, ![i].shows = job.shows] = Put1(page, i, q)
    <2> HIDE DEF i
    <2> QED
      BY <1>2, <1>3 DEF Put1
  <1>8. page' = IF Performed(answer) THEN Put1(page, i, q) ELSE page
    BY <1>6, <1>7
  <1>9. Performed(answer) \in BOOLEAN
    BY DEF Performed
  <1> HIDE DEF q
  <1> QED
    BY <1>1, <1>5, <1>6, <1>8, <1>9, NotionWrite

\* The page is edited.
LEMMA NotionPatchStep == ASSUME SendPre, NotionPatch PROVE SendPost
  <1> DEFINE i == job.incident
             q == [page[i] EXCEPT !.shows = job.shows]
  <1>1. worker = "patch" /\ worker \in Calling /\ posts' = posts /\ replies' = replies
    BY DEF NotionPatch, Calling
  <1>2. job \in Calls /\ i \in Incidents
    BY <1>1, CallPlace
  <1>3. page \in [Incidents -> Pages] /\ page[i] \in Pages /\ job.shows \in Shows
    BY <1>2 DEF SendPre, RemoteShape, Calls
  <1>4. q \in Pages /\ q.count = page[i].count
    BY <1>3 DEF Pages
  <1>5. PICK answer \in Answers :
            /\ page' = IF Performed(answer) THEN [page EXCEPT ![i].shows = job.shows] ELSE page
            /\ Result(Classify(answer, TRUE), FALSE)
    BY DEF NotionPatch
  <1>6. page' = IF Performed(answer) THEN Put1(page, i, q) ELSE page
    BY <1>5 DEF Put1
  <1>7. Performed(answer) \in BOOLEAN
    BY DEF Performed
  <1> HIDE DEF q
  <1> QED
    BY <1>1, <1>4, <1>5, <1>6, <1>7, NotionWrite

\* The evidence table is appended.
LEMMA NotionAppendStep == ASSUME SendPre, NotionAppend PROVE SendPost
  <1> DEFINE i == job.incident
             q == [page[i] EXCEPT !.tables = @ + 1]
  <1>1. worker = "append" /\ worker \in Calling /\ posts' = posts /\ replies' = replies
    BY DEF NotionAppend, Calling
  <1>2. job \in Calls /\ i \in Incidents
    BY <1>1, CallPlace
  <1>3. page \in [Incidents -> Pages] /\ page[i] \in Pages /\ page[i].tables = 0
    BY <1>1, <1>2 DEF SendPre, RemoteShape, RowInv, Placed
  <1>4. q \in Pages /\ q.count = page[i].count
    BY <1>3 DEF Pages
  <1>5. PICK answer \in Answers :
            /\ page' = IF Performed(answer) THEN [page EXCEPT ![i].tables = @ + 1] ELSE page
            /\ Result(Classify(answer, TRUE), FALSE)
    BY DEF NotionAppend
  <1>6. page' = IF Performed(answer) THEN Put1(page, i, q) ELSE page
    BY <1>5 DEF Put1
  <1>7. Performed(answer) \in BOOLEAN
    BY DEF Performed
  <1> HIDE DEF q
  <1> QED
    BY <1>1, <1>4, <1>5, <1>6, <1>7, NotionWrite
-----------------------------------------------------------------------------
(* The result, and what ends the worker's hold of a row. *)

\* finish() settles the row that the worker holds.
LEMMA FinishStep ==
    ASSUME RowInv, Tables \in Store, scenario \in Scenarios, Finish
    PROVE  RowInv' /\ Tables' \in Store
  <1> DEFINE i == job.incident
             c == job.channel
             v == job.version
             state == Settled(row[i][c][v], job.result)
             s == SetState(Tables, i, c, v, state)
  <1>1. /\ worker = "finish" /\ worker' = "wait" /\ job' = NoJob
        /\ link' = (link \/ job.parent)
        /\ scenario' = scenario /\ posts' = posts /\ replies' = replies /\ page' = page
        /\ incident' = Finished(Tables, i, c, v, job.result).incident
        /\ row' = Finished(Tables, i, c, v, job.result).row
    BY DEF Finish, remote
  <1>2. /\ job \in Done /\ i \in Incidents /\ c \in Channels /\ v \in Versions
        /\ job.result \in {"delivered", "retryable", "permanent", "unknown"}
        /\ job.parent \in BOOLEAN
        /\ row[i][c][v] \in Rows /\ row[i][c][v].state = "sending"
    <2>1. job \in Done
      BY <1>1 DEF RowInv, JobShape
    <2>2. i \in Incidents /\ c \in Channels /\ v \in Versions
      BY <2>1 DEF Done
    <2>3. row[i][c][v].state = "sending"
      BY <1>1, <2>2 DEF RowInv, SendingHeld, Holds
    <2>4. row[i][c][v] \in Rows
      BY <2>2, StoreCells DEF Tables
    <2> QED
      BY <2>1, <2>2, <2>3, <2>4 DEF Done
  <1>3. /\ state \in {"delivered", "retryable", "permanent", "manual_review"}
        /\ state = "retryable" => row[i][c][v].attempts < MaxAttempts
        /\ job.result = "unknown" => state = "manual_review"
        /\ job.result = "delivered" <=> state = "delivered"
    BY <1>2, SettledType
  <1>4. /\ s \in Store
        /\ \A j \in Incidents, d \in Channels, w \in Versions :
               /\ ~(j = i /\ d = c /\ w = v) => s.row[j][d][w] = row[j][d][w]
               /\ s.row[j][d][w].attempts = row[j][d][w].attempts
        /\ s.row[i][c][v].state = state
    <2>1. Tables.row = row
      BY DEF Tables
    <2>2. state \in States
      BY <1>3 DEF States
    <2> HIDE DEF state, i, c, v
    <2> QED
      BY <1>2, <2>1, <2>2, PutState
  <1>5. Later(s, Finished(Tables, i, c, v, job.result))
    <2>1. Tables.row = row
      BY DEF Tables
    <2> QED
      BY <1>2, <2>1, FinishedLater
  <1>6. Tables' \in Store /\ Later(s, [incident |-> incident', row |-> row'])
    <2>1. Finished(Tables, i, c, v, job.result) \in Store
      BY <1>5 DEF Later
    <2>2. Finished(Tables, i, c, v, job.result) = [incident |-> incident', row |-> row']
      BY <1>1, <2>1, StoreParts
    <2>3. Store' = Store
      BY <1>1, Fixed
    <2> QED
      BY <1>5, <2>1, <2>2, <2>3 DEF Tables
  <1>7. Incidents' = Incidents /\ Channels' = Channels
    BY <1>1, Fixed
  <1> HIDE DEF s, state
  <1>8. \A j \in Incidents, d \in Channels, w \in Versions :
            /\ Keeps(s.row[j][d][w], row'[j][d][w])
            /\ w # 1 /\ row'[j][d][w].state # "absent" =>
                   s.row[j][d][w].state # "absent" \/ s.row[j][d][1].state = "delivered"
    BY <1>6 DEF Later
  <1>9. \A j \in Incidents, d \in Channels, w \in Versions :
            /\ row'[j][d][w].state = "sending" => s.row[j][d][w].state = "sending"
            /\ row'[j][d][w].state = "delivered" <=> s.row[j][d][w].state = "delivered"
            /\ row'[j][d][w].state = "manual_review" <=> s.row[j][d][w].state = "manual_review"
    BY <1>8 DEF Keeps, Waiting
  <1>10. JobShape'
    BY <1>1 DEF JobShape, Calling
  <1>11. SendingHeld'
    <2>1. \A j \in Incidents, d \in Channels, w \in Versions : row'[j][d][w].state # "sending"
      <3> SUFFICES ASSUME NEW j \in Incidents, NEW d \in Channels, NEW w \in Versions,
                          row'[j][d][w].state = "sending"
                   PROVE  FALSE
        OBVIOUS
      <3>1. s.row[j][d][w].state = "sending"
        BY <1>9
      <3>2. ~(j = i /\ d = c /\ w = v)
        BY <1>3, <1>4, <3>1
      <3>3. row[j][d][w].state = "sending"
        BY <1>4, <3>1, <3>2
      <3> QED
        BY <3>2, <3>3 DEF RowInv, SendingHeld, Holds
    <2> QED
      BY <1>1, <1>7, <2>1 DEF SendingHeld, Holds
  <1>12. Placed'
    BY <1>1 DEF Placed
  <1>13. 1 \in Versions /\ Channels \subseteq {"slack", "notion"}
    BY Domains
  <1>14. Linked'
    <2> SUFFICES ASSUME ~link', "slack" \in Channels, NEW j \in Incidents
                 PROVE  /\ row'[j]["slack"][1].state # "delivered"
                        /\ \A w \in Versions : w # 1 => row'[j]["slack"][w].state = "absent"
      BY <1>7 DEF Linked
    <2>1. ~link /\ ~job.parent
      BY <1>1
    <2>2. /\ row[j]["slack"][1].state # "delivered"
          /\ \A w \in Versions : w # 1 => row[j]["slack"][w].state = "absent"
      BY <2>1 DEF RowInv, Linked
    <2>3. c = "slack" => v = 1
      <3>1. c = "slack" /\ v # 1 => row[i]["slack"][v].state = "absent"
        BY <1>2, <2>1 DEF RowInv, Linked
      <3> QED
        BY <1>2, <3>1
    <2>4. c = "slack" => state # "delivered"
      BY <1>1, <1>3, <2>1, <2>3 DEF RowInv, Placed
    <2>5. s.row[j]["slack"][1].state # "delivered"
      BY <1>4, <1>13, <2>2, <2>3, <2>4
    <2>6. \A w \in Versions : w # 1 => s.row[j]["slack"][w].state = "absent"
      BY <1>4, <2>2, <2>3
    <2> QED
      BY <1>8, <1>9, <1>13, <2>5, <2>6
  <1>15. PostsSealed'
    <2> SUFFICES ASSUME ~link', NEW j \in Incidents, posts[j] # 0 PROVE Posting(j)'
      BY <1>1, <1>7 DEF PostsSealed
    <2>1. ~link /\ ~job.parent
      BY <1>1
    <2>2. Posting(j)
      BY <2>1 DEF RowInv, PostsSealed
    <2>3. "slack" \in Channels /\ s.row[j]["slack"][1].state = "manual_review"
      <3>1. CASE row[j]["slack"][1].state = "manual_review"
        <4>1. ~(j = i /\ c = "slack" /\ v = 1)
          BY <1>2, <3>1
        <4> QED
          BY <1>4, <1>13, <2>2, <3>1, <4>1 DEF Posting
      <3>2. CASE row[j]["slack"][1].state # "manual_review"
        <4>1. j = i /\ c = "slack" /\ v = 1 /\ job.result = "unknown"
          BY <1>1, <2>1, <2>2, <3>2 DEF Posting, Holds
        <4> QED
          BY <1>3, <1>4, <2>2, <4>1 DEF Posting
      <3> QED
        BY <3>1, <3>2
    <2>4. row'[j]["slack"][1].state = "manual_review"
      BY <1>9, <1>13, <2>3
    <2> QED
      BY <1>7, <2>3, <2>4 DEF Posting
  <1>16. ASSUME NEW j \in Incidents, NEW d, NEW w \in Versions, Sealed(j, d, w)
         PROVE  Sealed(j, d, w)'
    <2>1. d \in Channels
      BY <1>16 DEF Sealed
    <2>2. s.row[j][d][w].state \in {"delivered", "manual_review"}
      <3>1. CASE row[j][d][w].state \in {"delivered", "manual_review"}
        <4>1. ~(j = i /\ d = c /\ w = v)
          BY <1>2, <3>1
        <4> QED
          BY <1>4, <2>1, <3>1, <4>1
      <3>2. CASE row[j][d][w].state \notin {"delivered", "manual_review"}
        <4>1. j = i /\ d = c /\ w = v /\ job.result \in {"delivered", "unknown"}
          BY <1>16, <3>2 DEF Sealed, Holds
        <4> QED
          BY <1>3, <1>4, <4>1
      <3> QED
        BY <3>1, <3>2
    <2> QED
      BY <1>7, <1>9, <2>1, <2>2 DEF Sealed
  <1>17. RepliesSealed' /\ PagesSealed'
    BY <1>1, <1>7, <1>13, <1>16 DEF RowInv, RepliesSealed, PagesSealed
  <1>18. AttemptsLeft'
    <2>1. ASSUME NEW j \in Incidents, NEW d \in Channels, NEW w \in Versions
          PROVE  /\ row'[j][d][w].state \in Waiting => row'[j][d][w].attempts < MaxAttempts
                 /\ row'[j][d][w].state = "sending" => row'[j][d][w].attempts > 0
      <3>1. /\ row[j][d][w].state \in Waiting => row[j][d][w].attempts < MaxAttempts
            /\ row[j][d][w].state = "sending" => row[j][d][w].attempts > 0
        BY DEF RowInv, AttemptsLeft
      <3>2. /\ s.row[j][d][w].state \in Waiting => s.row[j][d][w].attempts < MaxAttempts
            /\ s.row[j][d][w].state = "sending" => s.row[j][d][w].attempts > 0
        BY <1>3, <1>4, <3>1 DEF Waiting
      <3>3. Keeps(s.row[j][d][w], row'[j][d][w])
        BY <1>8
      <3> QED
        BY <3>2, <3>3, OutboxAssumption DEF Keeps, Waiting
    <2> QED
      BY <1>7, <2>1 DEF AttemptsLeft
  <1> QED
    BY <1>6, <1>10, <1>11, <1>12, <1>14, <1>15, <1>17, <1>18 DEF RowInv

\* What was being sent when the worker fails, or the process ends, waits for a person.
LEMMA AbandonStep ==
    ASSUME RowInv, Tables \in Store, scenario \in Scenarios,
           worker' = "wait", job' = NoJob,
           scenario' = scenario, incident' = incident, link' = link, posts' = posts,
           replies' = replies, page' = page,
           row' \in [Incidents -> [Channels -> [Versions -> Rows]]],
           \A j \in Incidents, d \in Channels, w \in Versions :
               IF row[j][d][w].state = "sending" THEN row'[j][d][w].state = "manual_review"
               ELSE row'[j][d][w] = row[j][d][w]
    PROVE  RowInv' /\ Tables' \in Store
  <1>1. Incidents' = Incidents /\ Channels' = Channels /\ Store' = Store
    BY Fixed
  <1>2. 1 \in Versions /\ Channels \subseteq {"slack", "notion"}
    BY Domains
  <1>3. Tables' \in Store
    <2>1. incident \in [Incidents -> Shows]
      BY StoreParts DEF Tables
    <2>2. [incident |-> incident, row |-> row'] \in Store
      BY <2>1, StoreMade
    <2> QED
      BY <1>1, <2>2 DEF Tables
  <1>4. JobShape'
    BY DEF JobShape, Calling
  <1>5. SendingHeld'
    BY <1>1 DEF SendingHeld, Holds
  <1>6. Placed'
    BY DEF Placed
  <1>7. Linked'
    <2>1. \A j \in Incidents, d \in Channels, w \in Versions :
              /\ row'[j][d][w].state = "delivered" => row[j][d][w].state = "delivered"
              /\ row[j][d][w].state = "absent" => row'[j][d][w].state = "absent"
      <3> TAKE j \in Incidents, d \in Channels, w \in Versions
      <3>1. IF row[j][d][w].state = "sending" THEN row'[j][d][w].state = "manual_review"
            ELSE row'[j][d][w] = row[j][d][w]
        OBVIOUS
      <3> QED
        BY <3>1
    <2> QED
      BY <1>1, <1>2, <2>1 DEF RowInv, Linked
  <1>8. PostsSealed'
    <2>1. \A j \in Incidents : Posting(j) => Posting(j)'
      <3> SUFFICES ASSUME NEW j \in Incidents, Posting(j) PROVE Posting(j)'
        OBVIOUS
      <3>1. Holds(j, "slack", 1) => row[j]["slack"][1].state = "sending"
        BY <1>2 DEF RowInv, SendingHeld, Posting
      <3>2. "slack" \in Channels /\ row'[j]["slack"][1].state = "manual_review"
        BY <1>2, <3>1 DEF Posting
      <3> QED
        BY <1>1, <3>2 DEF Posting
    <2> QED
      BY <1>1, <2>1 DEF RowInv, PostsSealed
  <1>9. ASSUME NEW j \in Incidents, NEW d, NEW w \in Versions, Sealed(j, d, w)
        PROVE  Sealed(j, d, w)'
    <2>1. d \in Channels
      BY <1>9 DEF Sealed
    <2>2. Holds(j, d, w) => row[j][d][w].state = "sending"
      BY <2>1 DEF RowInv, SendingHeld
    <2>3. row'[j][d][w].state \in {"delivered", "manual_review"}
      BY <1>9, <2>1, <2>2 DEF Sealed
    <2> QED
      BY <1>1, <2>1, <2>3 DEF Sealed
  <1>10. RepliesSealed' /\ PagesSealed'
    BY <1>1, <1>2, <1>9 DEF RowInv, RepliesSealed, PagesSealed
  <1>11. AttemptsLeft'
    BY <1>1 DEF RowInv, AttemptsLeft, Waiting
  <1> QED
    BY <1>3, <1>4, <1>5, <1>6, <1>7, <1>8, <1>10, <1>11 DEF RowInv

\* An exception after the claim.
LEMMA WorkerFailsStep ==
    ASSUME RowInv, Tables \in Store, scenario \in Scenarios, WorkerFails
    PROVE  RowInv' /\ Tables' \in Store
  <1> DEFINE i == job.incident
             c == job.channel
             v == job.version
  <1>1. /\ worker # "wait" /\ worker' = "wait" /\ job' = NoJob
        /\ UNCHANGED <<scenario, incident, link, posts, replies, page>>
        /\ row' = [row EXCEPT ![i][c][v].state = "manual_review"]
    BY DEF WorkerFails, remote
  <1>2. i \in Incidents /\ c \in Channels /\ v \in Versions
    BY <1>1, JobPlace DEF RowInv
  <1>3. row \in [Incidents -> [Channels -> [Versions -> Rows]]]
    BY StoreParts DEF Tables
  <1>4. \A j \in Incidents, d \in Channels, w \in Versions :
            row[j][d][w].state = "sending" <=> j = i /\ d = c /\ w = v
    BY <1>1, <1>2 DEF RowInv, SendingHeld, Holds
  <1> DEFINE q == [row[i][c][v] EXCEPT !.state = "manual_review"]
  <1>5. q \in Rows /\ q.state = "manual_review"
    <2>1. \A r \in Rows : [r EXCEPT !.state = "manual_review"] \in Rows
                          /\ [r EXCEPT !.state = "manual_review"].state = "manual_review"
      BY DEF Rows, States
    <2>2. row[i][c][v] \in Rows
      BY <1>2, <1>3
    <2> QED
      BY <2>1, <2>2
  <1>6. row' = [row EXCEPT ![i][c][v] = q]
    BY <1>1, <1>2, <1>3
  <1> HIDE DEF i, c, v, q
  <1>7. /\ row' \in [Incidents -> [Channels -> [Versions -> Rows]]]
        /\ \A j \in Incidents, d \in Channels, w \in Versions :
               row'[j][d][w] = IF j = i /\ d = c /\ w = v THEN q ELSE row[j][d][w]
    BY <1>2, <1>3, <1>5, <1>6
  <1>8. \A j \in Incidents, d \in Channels, w \in Versions :
            IF row[j][d][w].state = "sending" THEN row'[j][d][w].state = "manual_review"
            ELSE row'[j][d][w] = row[j][d][w]
    BY <1>4, <1>5, <1>7
  <1> QED
    BY <1>1, <1>7, <1>8, AbandonStep

\* The process ends and begins again.
LEMMA RestartStep ==
    ASSUME RowInv, Tables \in Store, scenario \in Scenarios, Restart
    PROVE  RowInv' /\ Tables' \in Store
  <1>1. row \in [Incidents -> [Channels -> [Versions -> Rows]]]
    BY StoreParts DEF Tables
  <1>2. \A r \in Rows : [r EXCEPT !.state = "manual_review"] \in Rows
                        /\ [r EXCEPT !.state = "manual_review"].state = "manual_review"
    BY DEF Rows, States
  <1>3. /\ row' \in [Incidents -> [Channels -> [Versions -> Rows]]]
        /\ \A j \in Incidents, d \in Channels, w \in Versions :
               IF row[j][d][w].state = "sending" THEN row'[j][d][w].state = "manual_review"
               ELSE row'[j][d][w] = row[j][d][w]
    <2>1. row' = [i \in Incidents |-> [c \in Channels |-> [v \in Versions |->
                    IF row[i][c][v].state = "sending"
                    THEN [row[i][c][v] EXCEPT !.state = "manual_review"] ELSE row[i][c][v]]]]
      BY DEF Restart
    <2> QED
      BY <1>1, <1>2, <2>1
  <1>4. /\ worker' = "wait" /\ job' = NoJob
        /\ UNCHANGED <<scenario, incident, link, posts, replies, page>>
    BY DEF Restart, remote
  <1> QED
    BY <1>3, <1>4, AbandonStep

-----------------------------------------------------------------------------
(* The journal and the cycle. *)

LoopShape ==
    /\ truth \in [Incidents -> {"new", "down", "over"}] /\ gameOn \in BOOLEAN
    /\ backlog \in Seq(Events) /\ Len(backlog) <= MaxBacklog /\ due \in 0 .. Len(backlog)
    /\ cycle \in {"idle", "processing"} /\ authorized \in BOOLEAN /\ delivery \in BOOLEAN
    /\ lease \in [valid : BOOLEAN, listed : SUBSET Incidents]
    /\ link \in BOOLEAN /\ faults \in 0 .. MaxFaults

\* An event that is read is one of the three kinds.
LEMMA FirstEvent ==
    ASSUME LoopShape, due > 0
    PROVE  /\ backlog[1] \in Events /\ Tail(backlog) \in Seq(Events)
           /\ Len(Tail(backlog)) = Len(backlog) - 1 /\ Len(backlog) \in Nat /\ due \in Nat
           /\ backlog[1].type \in {"begin", "end"} => backlog[1].of \in Incidents
           /\ backlog[1].type = "snapshot" => backlog[1].listed \in SUBSET Incidents
  <1>1. backlog \in Seq(Events) /\ due \in 0 .. Len(backlog)
    BY DEF LoopShape
  <1>2. Len(backlog) \in Nat /\ due \in Nat /\ Len(backlog) > 0
    BY <1>1
  <1>3. backlog # <<>> /\ 1 \in 1 .. Len(backlog)
    BY <1>2
  <1>4. /\ backlog[1] \in Events /\ Tail(backlog) \in Seq(Events)
        /\ Len(Tail(backlog)) = Len(backlog) - 1
    BY <1>1, <1>2, <1>3
  <1>5. \A e \in Events : /\ e.type \in {"begin", "end"} => e.of \in Incidents
                          /\ e.type = "snapshot" => e.listed \in SUBSET Incidents
    BY DEF Events
  <1> QED
    BY <1>2, <1>4, <1>5

\* The server and the watch write the journal.
LEMMA EnvironmentStep ==
    ASSUME LoopShape, Environment
    PROVE  LoopShape' /\ UNCHANGED <<scenario, incident, row, link, worker, job, posts, replies, page>>
           /\ due' = due /\ delivery' = delivery
  <1>1. UNCHANGED <<scenario, due, cycle, authorized, delivery, lease, incident, row, link, worker,
                    job, posts, replies, page, faults>>
    BY DEF Environment, store, remote
  <1>2. Incidents' = Incidents /\ Events' = Events
    BY <1>1, Fixed
  <1>3. ASSUME NEW e \in Events, Log(e)
        PROVE  backlog' \in Seq(Events) /\ Len(backlog') <= MaxBacklog /\ due \in 0 .. Len(backlog')
    <2>1. backlog \in Seq(Events) /\ due \in 0 .. Len(backlog) /\ Len(backlog) < MaxBacklog
      BY <1>3 DEF LoopShape, Log
    <2>2. backlog' = Append(backlog, e)
      BY <1>3 DEF Log
    <2>3. backlog' \in Seq(Events) /\ Len(backlog') = Len(backlog) + 1 /\ Len(backlog) \in Nat
      BY <2>1, <2>2
    <2> QED
      BY <2>1, <2>3, OutboxAssumption
  <1>4. ASSUME backlog' = backlog
        PROVE  backlog' \in Seq(Events) /\ Len(backlog') <= MaxBacklog /\ due \in 0 .. Len(backlog')
    BY <1>4 DEF LoopShape
  <1>5. /\ backlog' \in Seq(Events) /\ Len(backlog') <= MaxBacklog /\ due \in 0 .. Len(backlog')
        /\ truth' \in [Incidents -> {"new", "down", "over"}] /\ gameOn' \in BOOLEAN
    <2>1. ASSUME NEW i \in Incidents, Begins(i)
          PROVE  /\ backlog' \in Seq(Events) /\ Len(backlog') <= MaxBacklog /\ due \in 0 .. Len(backlog')
                 /\ truth' \in [Incidents -> {"new", "down", "over"}] /\ gameOn' \in BOOLEAN
      <3>1. [type |-> "begin", of |-> i] \in Events
        BY DEF Events
      <3>2. Log([type |-> "begin", of |-> i])
        BY <2>1 DEF Begins
      <3>3. truth' \in [Incidents -> {"new", "down", "over"}] /\ gameOn' \in BOOLEAN
        BY <2>1 DEF Begins, LoopShape
      <3> QED
        BY <1>3, <3>1, <3>2, <3>3
    <2>2. ASSUME NEW i \in Incidents, Ends(i)
          PROVE  /\ backlog' \in Seq(Events) /\ Len(backlog') <= MaxBacklog /\ due \in 0 .. Len(backlog')
                 /\ truth' \in [Incidents -> {"new", "down", "over"}] /\ gameOn' \in BOOLEAN
      <3>1. [type |-> "end", of |-> i] \in Events
        BY DEF Events
      <3>2. Log([type |-> "end", of |-> i]) \/ backlog' = backlog
        BY <2>2 DEF Ends
      <3>3. truth' \in [Incidents -> {"new", "down", "over"}] /\ gameOn' \in BOOLEAN
        BY <2>2 DEF Ends, LoopShape
      <3> QED
        BY <1>3, <1>4, <3>1, <3>2, <3>3
    <2>3. ASSUME GameEnds
          PROVE  /\ backlog' \in Seq(Events) /\ Len(backlog') <= MaxBacklog /\ due \in 0 .. Len(backlog')
                 /\ truth' \in [Incidents -> {"new", "down", "over"}] /\ gameOn' \in BOOLEAN
      <3>1. truth' \in [Incidents -> {"new", "down", "over"}] /\ gameOn' \in BOOLEAN /\ backlog' = backlog
        BY <2>3 DEF GameEnds, LoopShape
      <3> QED
        BY <1>4, <3>1
    <2>4. ASSUME NEW complete \in BOOLEAN, Snapshot(complete)
          PROVE  /\ backlog' \in Seq(Events) /\ Len(backlog') <= MaxBacklog /\ due \in 0 .. Len(backlog')
                 /\ truth' \in [Incidents -> {"new", "down", "over"}] /\ gameOn' \in BOOLEAN
      <3> DEFINE e == [type |-> "snapshot", complete |-> complete, on |-> gameOn,
                       listed |-> {i \in Incidents : complete /\ Kind(i) = "server" /\ truth[i] = "down"}]
      <3>1. e \in Events
        BY DEF Events, LoopShape
      <3>2. Log(e)
        BY <2>4 DEF Snapshot
      <3>3. truth' \in [Incidents -> {"new", "down", "over"}] /\ gameOn' \in BOOLEAN
        BY <2>4 DEF Snapshot, LoopShape
      <3> HIDE DEF e
      <3> QED
        BY <1>3, <3>1, <3>2, <3>3
    <2> QED
      BY <2>1, <2>2, <2>3, <2>4 DEF Environment
  <1> QED
    BY <1>1, <1>2, <1>5 DEF LoopShape

\* A transaction with its cursor.
LEMMA CommitStep ==
    ASSUME LoopShape, CaughtUp, Tables \in Store, due > 0, NEW t, Later(Tables, t), Commit(t),
           scenario' = scenario, truth' = truth, gameOn' = gameOn,
           lease' \in [valid : BOOLEAN, listed : SUBSET Incidents]
    PROVE  LoopShape' /\ CaughtUp' /\ Later(Tables, Tables') /\ Tables' \in Store
  <1>1. Incidents' = Incidents /\ Events' = Events /\ Store' = Store
    BY Fixed
  <1>2. t \in Store
    BY DEF Later
  <1>3. Tables' = t
    BY <1>2, StoreParts DEF Commit, Tables
  <1>4. /\ backlog' = Tail(backlog) /\ due' = due - 1
        /\ UNCHANGED <<cycle, authorized, delivery, link, faults>>
    BY DEF Commit
  <1>5. /\ Tail(backlog) \in Seq(Events) /\ Len(Tail(backlog)) = Len(backlog) - 1
        /\ Len(backlog) \in Nat /\ due \in Nat /\ due <= Len(backlog) /\ Len(backlog) <= MaxBacklog
    BY FirstEvent DEF LoopShape
  <1>6. backlog' \in Seq(Events) /\ Len(backlog') <= MaxBacklog /\ due' \in 0 .. Len(backlog')
    BY <1>4, <1>5, OutboxAssumption
  <1>7. LoopShape'
    BY <1>1, <1>4, <1>6 DEF LoopShape
  <1>8. CaughtUp'
    BY <1>4 DEF CaughtUp, LoopShape
  <1> QED
    BY <1>1, <1>2, <1>3, <1>7, <1>8

\* A cycle begins: the gate is closed.
LEMMA CycleBeginsStep ==
    ASSUME LoopShape, CycleBegins, scenario' = scenario, truth' = truth, gameOn' = gameOn,
           link' = link
    PROVE  LoopShape' /\ CaughtUp'
  <1>1. Incidents' = Incidents /\ Events' = Events
    BY Fixed
  <1>2. backlog \in Seq(Events) /\ Len(backlog) <= MaxBacklog /\ Len(backlog) \in Nat
    BY DEF LoopShape
  <1>3. /\ cycle' = "processing" /\ authorized' = FALSE /\ delivery' = FALSE /\ due' = Len(backlog)
    BY DEF CycleBegins
  <1>4. backlog' \in Seq(Events) /\ Len(backlog') = Len(backlog)
    <2>1. CASE backlog' = backlog
      BY <1>2, <2>1
    <2>2. CASE backlog' = [n \in DOMAIN backlog |->
                             IF backlog[n].type = "snapshot" THEN [type |-> "other"] ELSE backlog[n]]
      <3>1. [type |-> "other"] \in Events
        BY DEF Events
      <3>2. DOMAIN backlog = 1 .. Len(backlog) /\ \A n \in DOMAIN backlog : backlog[n] \in Events
        BY <1>2
      <3>3. backlog' \in [1 .. Len(backlog) -> Events]
        BY <2>2, <3>1, <3>2
      <3> QED
        BY <1>2, <3>3
    <2> QED
      BY <2>1, <2>2 DEF CycleBegins
  <1>5. /\ lease' \in [valid : BOOLEAN, listed : SUBSET Incidents] /\ faults' \in 0 .. MaxFaults
    <2>1. NoLease \in [valid : BOOLEAN, listed : SUBSET Incidents]
      BY DEF NoLease
    <2>2. \/ lease' = lease /\ faults' = faults
          \/ lease' = NoLease /\ faults < MaxFaults /\ faults' = faults + 1
      BY DEF CycleBegins
    <2> QED
      BY <2>1, <2>2, OutboxAssumption DEF LoopShape
  <1>6. due' \in 0 .. Len(backlog')
    BY <1>2, <1>3, <1>4
  <1> QED
    BY <1>1, <1>2, <1>3, <1>4, <1>5, <1>6 DEF LoopShape, CaughtUp

\* Leases, and the one that grants nothing.
LEMMA LeaseType ==
    /\ NoLease \in [valid : BOOLEAN, listed : SUBSET Incidents]
    /\ \A b \in BOOLEAN, S \in SUBSET Incidents :
           [valid |-> b, listed |-> S] \in [valid : BOOLEAN, listed : SUBSET Incidents]
  BY DEF NoLease

\* Every step of the loop is a transaction of the store, or leaves the store alone.
LEMMA ProcessLoopStep ==
    ASSUME LoopShape, CaughtUp, Tables \in Store, scenario \in Scenarios, ProcessLoop
    PROVE  /\ LoopShape' /\ CaughtUp' /\ Tables' \in Store /\ Later(Tables, Tables')
           /\ UNCHANGED <<scenario, link, worker, job, posts, replies, page>>
  <1>1. UNCHANGED <<scenario, truth, gameOn, worker, job, posts, replies, page>>
    BY DEF ProcessLoop, remote
  <1>2. Incidents' = Incidents /\ Events' = Events /\ Store' = Store
    BY <1>1, Fixed
  <1>3. ASSUME incident' = incident, row' = row
        PROVE  Tables' \in Store /\ Later(Tables, Tables')
    <2>1. Tables' = Tables
      BY <1>3 DEF Tables
    <2> QED
      BY <1>2, <2>1, LaterSelf
  <1>4. lease \in [valid : BOOLEAN, listed : SUBSET Incidents]
    BY DEF LoopShape
  <1>5. CASE CycleBegins
    <2>1. incident' = incident /\ row' = row /\ link' = link
      BY <1>5 DEF CycleBegins, store
    <2> QED
      BY <1>1, <1>3, <1>5, <2>1, CycleBeginsStep
  <1>6. CASE CycleEnds
    <2>1. incident' = incident /\ row' = row /\ link' = link
      BY <1>6 DEF CycleEnds, store
    <2>2. LoopShape' /\ CaughtUp'
      BY <1>1, <1>2, <1>6, <2>1 DEF CycleEnds, LoopShape, CaughtUp
    <2> QED
      BY <1>1, <1>3, <2>1, <2>2
  <1>7. CASE CycleFails
    <2>1. incident' = incident /\ row' = row /\ link' = link
      BY <1>7 DEF CycleFails, store
    <2>2. LoopShape'
      <3>1. lease' \in [valid : BOOLEAN, listed : SUBSET Incidents] /\ delivery' \in BOOLEAN
        <4>1. lease' = NoLease \/ lease' = lease
          BY <1>7 DEF CycleFails
        <4>2. delivery' \in BOOLEAN
          BY <1>7 DEF CycleFails, LoopShape
        <4> QED
          BY <1>4, <4>1, <4>2, LeaseType
      <3>2. faults' \in 0 .. MaxFaults
        BY <1>7, OutboxAssumption DEF CycleFails, LoopShape
      <3>3. /\ cycle' = "idle" /\ authorized' = FALSE /\ due' = 0 /\ backlog' = backlog
        BY <1>7 DEF CycleFails
      <3>4. Len(backlog) \in Nat
        BY DEF LoopShape
      <3>5. due' \in 0 .. Len(backlog')
        BY <3>3, <3>4
      <3> QED
        BY <1>1, <1>2, <2>1, <3>1, <3>2, <3>3, <3>5 DEF LoopShape
    <2>3. CaughtUp'
      BY <1>7 DEF CycleFails, CaughtUp
    <2> QED
      BY <1>1, <1>3, <2>1, <2>2, <2>3
  <1>8. CASE Lapse
    <2>1. incident' = incident /\ row' = row /\ link' = link
      BY <1>8 DEF Lapse, store
    <2>2. lease' \in [valid : BOOLEAN, listed : SUBSET Incidents]
      BY <1>8, LeaseType DEF Lapse
    <2>3. LoopShape' /\ CaughtUp'
      BY <1>1, <1>2, <1>8, <2>1, <2>2 DEF Lapse, LoopShape, CaughtUp
    <2> QED
      BY <1>1, <1>3, <2>1, <2>3
  <1>9. ASSUME NEW t, Later(Tables, t), Commit(t), due > 0,
               lease' \in [valid : BOOLEAN, listed : SUBSET Incidents]
        PROVE  /\ LoopShape' /\ CaughtUp' /\ Tables' \in Store /\ Later(Tables, Tables')
               /\ link' = link
    <2>1. link' = link
      BY <1>9 DEF Commit
    <2> QED
      BY <1>1, <1>9, <2>1, CommitStep
  <1>10. CASE ProcessBegin
    <2>1. due > 0 /\ backlog[1].of \in Incidents /\ lease' = lease
      BY <1>10, FirstEvent DEF ProcessBegin, Next1
    <2> DEFINE i == backlog[1].of
    <2>2. \/ Commit(Open(Tables, i))
          \/ Commit(WatchOpens(Tables, i))
          \/ \E recent \in BOOLEAN : Commit(Boot(Tables, i, recent))
      BY <1>10 DEF ProcessBegin
    <2>3. /\ Later(Tables, Open(Tables, i)) /\ Later(Tables, WatchOpens(Tables, i))
          /\ \A recent \in BOOLEAN : Later(Tables, Boot(Tables, i, recent))
      <3>1. Later(Tables, Open(Tables, i))
        BY <2>1, OpenLater
      <3>2. Later(Tables, WatchOpens(Tables, i))
        BY <2>1, ListsLater
      <3>3. \A recent \in BOOLEAN : Later(Tables, Boot(Tables, i, recent))
        BY <2>1, BootLater
      <3> QED
        BY <3>1, <3>2, <3>3
    <2> HIDE DEF i
    <2> QED
      BY <1>1, <1>4, <1>9, <2>1, <2>2, <2>3
  <1>11. CASE ProcessEnd
    <2>1. due > 0 /\ backlog[1].of \in Incidents /\ lease' = lease
      BY <1>11, FirstEvent DEF ProcessEnd, Next1
    <2>2. PICK how \in {"recovered", "closed"} : Commit(Close(Tables, backlog[1].of, how))
      BY <1>11 DEF ProcessEnd
    <2>3. how \in IncidentStates
      BY DEF IncidentStates
    <2>4. Later(Tables, Close(Tables, backlog[1].of, how))
      BY <2>1, <2>3, CloseLater
    <2> QED
      BY <1>1, <1>4, <1>9, <2>1, <2>2, <2>4
  <1>12. CASE ProcessOther
    <2>1. due > 0 /\ Commit(Tables) /\ lease' = lease
      BY <1>12 DEF ProcessOther, Next1
    <2> QED
      BY <1>1, <1>4, <1>9, <2>1, LaterSelf
  <1>14. CASE ProcessStale
    <2>1. due > 0 /\ lease' = lease
      BY <1>14 DEF ProcessStale, Next1
    <2>2. PICK t \in Timed(backlog[1]) : Commit(t)
      BY <1>14 DEF ProcessStale
    <2>3. Later(Tables, t)
      BY TimedLater
    <2> QED
      BY <1>1, <1>4, <1>9, <2>1, <2>2, <2>3
  <1>13. CASE ProcessSnapshot
    <2> DEFINE shot == backlog[1]
               over == {i \in Incidents : \/ Kind(i) = "server" /\ i \notin shot.listed
                                          \/ Kind(i) = "silent" /\ ~shot.on}
    <2>1. due > 0 /\ shot.listed \in SUBSET Incidents
      BY <1>13, FirstEvent DEF ProcessSnapshot, Next1
    <2>2. \/ /\ lease' = [valid |-> TRUE, listed |-> shot.listed]
             /\ \E t \in Timed(shot) : Commit(OpenAll(CloseAll(t, over, "closed"), shot.listed))
          \/ lease' = NoLease /\ Commit(Tables)
      BY <1>13 DEF ProcessSnapshot
    <2>3. over \in SUBSET Incidents
      OBVIOUS
    <2> HIDE DEF shot, over
    <2>4. lease' \in [valid : BOOLEAN, listed : SUBSET Incidents]
      <3>1. [valid |-> TRUE, listed |-> shot.listed] \in [valid : BOOLEAN, listed : SUBSET Incidents]
        BY <2>1, LeaseType
      <3> QED
        BY <2>2, <3>1, LeaseType
    <2>5. ASSUME NEW t \in Timed(shot)
          PROVE  Later(Tables, OpenAll(CloseAll(t, over, "closed"), shot.listed))
      <3>1. Later(Tables, t) /\ t \in Store
        BY TimedLater DEF Later
      <3>2. Later(t, OpenAll(CloseAll(t, over, "closed"), shot.listed))
        BY <2>1, <2>3, <3>1, SnapshotLater
      <3> QED
        BY <3>1, <3>2, LaterTrans
    <2>6. Later(Tables, Tables)
      BY LaterSelf
    <2> QED
      BY <1>1, <1>9, <2>1, <2>2, <2>4, <2>5, <2>6
  <1> QED
    BY <1>5, <1>6, <1>7, <1>8, <1>10, <1>11, <1>12, <1>13, <1>14 DEF ProcessLoop, Cycle
-----------------------------------------------------------------------------
(* The worker's steps leave the journal and the cycle alone. *)

\* The loop's state is kept by every step of the worker.
LEMMA LoopFrame ==
    ASSUME LoopShape, CaughtUp,
           UNCHANGED <<scenario, truth, gameOn, backlog, due, cycle, authorized, delivery, lease>>,
           link' \in BOOLEAN, faults' \in 0 .. MaxFaults
    PROVE  LoopShape' /\ CaughtUp'
  <1>1. Incidents' = Incidents /\ Events' = Events
    BY Fixed
  <1> QED
    BY <1>1 DEF LoopShape, CaughtUp

\* One more fault, while there are some left.
LEMMA MoreFaults ==
    ASSUME LoopShape, faults' = faults \/ (faults < MaxFaults /\ faults' = faults + 1)
    PROVE  faults' \in 0 .. MaxFaults
  BY OutboxAssumption DEF LoopShape

\* The worker claims, puts back, builds, or drops.
LEMMA WorkStep ==
    ASSUME RowInv, Tables \in Store, scenario \in Scenarios, LoopShape, CaughtUp, Work
    PROVE  /\ RowInv' /\ Tables' \in Store /\ LoopShape' /\ CaughtUp'
           /\ UNCHANGED <<scenario, posts, replies, page>>
  <1>1. UNCHANGED <<scenario, truth, gameOn, backlog, due, cycle, authorized, delivery, lease,
                    posts, replies, page>>
    BY DEF Work, remote
  <1>2. CASE ClaimAny /\ faults' = faults
    <2>1. PICK i \in Incidents, c \in Channels, v \in Versions : Claim(i, c, v)
      BY <1>2 DEF ClaimAny
    <2>2. RowInv' /\ Tables' \in Store
      BY <1>1, <2>1, ClaimStep
    <2>3. link' = link
      BY <2>1 DEF Claim
    <2>4. link' \in BOOLEAN /\ faults' \in 0 .. MaxFaults
      BY <1>2, <2>3 DEF LoopShape
    <2> QED
      BY <1>1, <2>2, <2>4, LoopFrame
  <1>3. CASE worker = "claimed" /\ PutBack /\ (faults' = faults \/ (faults < MaxFaults /\ faults' = faults + 1))
    <2>1. RowInv' /\ Tables' \in Store
      BY <1>1, <1>3, PutBackStep
    <2>2. link' = link
      BY <1>3 DEF PutBack
    <2>3. link' \in BOOLEAN /\ faults' \in 0 .. MaxFaults
      BY <1>3, <2>2, MoreFaults DEF LoopShape
    <2> QED
      BY <1>1, <2>1, <2>3, LoopFrame
  <1>4. CASE Build /\ faults' = faults
    <2>1. RowInv' /\ Tables' \in Store
      BY <1>1, <1>4, BuildStep
    <2>2. link' = link
      BY <1>4 DEF Build, store
    <2>3. link' \in BOOLEAN /\ faults' \in 0 .. MaxFaults
      BY <1>4, <2>2 DEF LoopShape
    <2> QED
      BY <1>1, <2>1, <2>3, LoopFrame
  <1>5. CASE (\E i \in Incidents : DropStale(i)) /\ faults' = faults
    <2>1. PICK i \in Incidents : DropStale(i)
      BY <1>5
    <2>2. RowInv' /\ Tables' \in Store
      BY <1>1, <2>1, DropStep
    <2>3. link' = link
      BY <2>1 DEF DropStale
    <2>4. link' \in BOOLEAN /\ faults' \in 0 .. MaxFaults
      BY <1>5, <2>3 DEF LoopShape
    <2> QED
      BY <1>1, <2>2, <2>4, LoopFrame
  <1>6. \/ worker = "claimed" /\ PutBack /\ faults < MaxFaults /\ faults' = faults + 1
        \/ /\ ClaimAny \/ (worker = "claimed" /\ PutBack) \/ Build \/ \E i \in Incidents : DropStale(i)
           /\ faults' = faults
    BY DEF Work, Defer, Revoked
  <1> QED
    BY <1>2, <1>3, <1>4, <1>5, <1>6

\* A call of a service.
LEMMA SendStep ==
    ASSUME RowInv, RemoteShape, Tables \in Store, scenario \in Scenarios, LoopShape, CaughtUp, Send
    PROVE  /\ RowInv' /\ RemoteShape' /\ Tables' \in Store /\ LoopShape' /\ CaughtUp'
           /\ scenario' = scenario
  <1>1. UNCHANGED <<scenario, truth, gameOn, backlog, due, cycle, authorized, delivery, lease,
                    incident, row, link>>
    BY DEF Send, store
  <1>2. SendPre
    BY <1>1 DEF SendPre
  <1>3. SendPost
    BY <1>2, SlackEditStep, SlackPostStep, SlackReplyStep, NotionFindStep, NotionSessionStep,
       NotionCreateStep, NotionPatchStep, NotionLookStep, NotionAppendStep DEF Send
  <1>4. faults' = faults \/ (faults < MaxFaults /\ faults' = faults + 1)
    <2>1. faults' = faults \/ \E answer \in Answers \cup {"ok", "lost", "refused"} : Fault(answer)
      BY DEF Send, SlackEdit, SlackPost, SlackReply, NotionFind, NotionSession, NotionCreate,
             NotionPatch, NotionLook, NotionAppend
    <2> QED
      BY <2>1 DEF Fault
  <1>5. link' \in BOOLEAN /\ faults' \in 0 .. MaxFaults
    BY <1>1, <1>4, MoreFaults DEF LoopShape
  <1>6. LoopShape' /\ CaughtUp'
    BY <1>1, <1>5, LoopFrame
  <1> QED
    BY <1>1, <1>3, <1>6 DEF SendPost
-----------------------------------------------------------------------------
(* The inductive invariant. *)

\* The parts, as the steps use them.
LEMMA Parts ==
    IndInv <=> /\ RowInv /\ RemoteShape /\ LoopShape /\ CaughtUp /\ ended \in BOOLEAN
               /\ Tables \in Store /\ scenario \in Scenarios
  BY DEF IndInv, Shapes, RowInv, RemoteShape, LoopShape

\* Only a snapshot tells whether the game has ended.
LEMMA EndedStep == ASSUME [Next]_vars, ended \in BOOLEAN PROVE ended' \in BOOLEAN
  <1>1. CASE UNCHANGED ended
    BY <1>1
  <1>2. CASE ProcessStale \/ ProcessSnapshot
    BY <1>2 DEF ProcessStale, ProcessSnapshot, TellsTimes
  <1>3. UNCHANGED ended \/ ProcessStale \/ ProcessSnapshot
    BY DEF Next, vars, store, Environment, ProcessLoop, Cycle, CycleBegins, CycleEnds, CycleFails,
           Lapse, ProcessBegin, ProcessEnd, ProcessOther, Work, ClaimAny, Claim, Defer, Revoked,
           PutBack, Build, DropStale, Send, Finish, WorkerFails, Restart, DeleteCard
  <1> QED
    BY <1>1, <1>2, <1>3

\* At the start nothing was said.
LEMMA InitIndInv == ASSUME Init PROVE IndInv
  <1>1. /\ scenario \in Scenarios /\ worker = "wait" /\ job = NoJob /\ link = FALSE
        /\ row = [i \in Incidents |-> [c \in Channels |-> [v \in Versions |-> NoRow]]]
        /\ posts = [i \in Incidents |-> 0]
        /\ replies = [i \in Incidents |-> [v \in Versions |-> 0]]
        /\ page = [i \in Incidents |-> NoPage]
        /\ incident = [i \in Incidents |-> [state |-> "none", noted |-> FALSE]]
        /\ delivery = FALSE
    BY DEF Init
  <1>2. 1 \in Versions /\ Channels \subseteq {"slack", "notion"}
    BY <1>1, Domains
  <1>3. NoRow \in Rows /\ NoRow.state = "absent" /\ NoRow.attempts = 0
    BY OutboxAssumption DEF NoRow, Rows, States, IncidentStates
  <1>4. /\ \A i \in Incidents, c \in Channels, v \in Versions : row[i][c][v].state = "absent"
        /\ row \in [Incidents -> [Channels -> [Versions -> Rows]]]
    BY <1>1, <1>3
  <1>5. Tables \in Store
    <2>1. [state |-> "none", noted |-> FALSE] \in Shows
      BY DEF Shows, IncidentStates
    <2>2. incident \in [Incidents -> Shows]
      BY <1>1, <2>1
    <2> QED
      BY <1>4, <2>2, StoreMade DEF Tables
  <1>6. RemoteShape
    <2>1. NoPage \in Pages
      BY DEF NoPage, Pages, Hidden, Shows, IncidentStates
    <2> QED
      BY <1>1, <2>1 DEF RemoteShape
  <1>7. LoopShape
    <2>1. backlog = <<>> /\ due = 0 /\ backlog \in Seq(Events) /\ Len(backlog) = 0
      BY DEF Init
    <2>2. Len(backlog) <= MaxBacklog /\ due \in 0 .. Len(backlog) /\ 0 \in 0 .. MaxFaults
      BY <2>1, OutboxAssumption
    <2>3. /\ truth \in [Incidents -> {"new", "down", "over"}] /\ gameOn = TRUE /\ cycle = "idle"
          /\ authorized = FALSE /\ delivery = FALSE /\ lease = NoLease /\ link = FALSE /\ faults = 0
      BY DEF Init
    <2> QED
      BY <2>1, <2>2, <2>3, LeaseType DEF LoopShape
  <1>8. RowInv
    <2>1. JobShape
      BY <1>1 DEF JobShape, Calling
    <2>2. SendingHeld
      BY <1>1, <1>4 DEF SendingHeld, Holds
    <2>3. Placed
      BY <1>1 DEF Placed
    <2>4. Linked
      BY <1>2, <1>4 DEF Linked
    <2>5. PostsSealed /\ RepliesSealed
      BY <1>1 DEF PostsSealed, RepliesSealed
    <2>6. PagesSealed
      BY <1>1 DEF PagesSealed, NoPage
    <2>7. AttemptsLeft
      BY <1>4 DEF AttemptsLeft, Waiting
    <2> QED
      BY <2>1, <2>2, <2>3, <2>4, <2>5, <2>6, <2>7 DEF RowInv
  <1>9. ended \in BOOLEAN
    BY DEF Init
  <1> QED
    BY <1>1, <1>5, <1>6, <1>7, <1>8, <1>9, Parts DEF CaughtUp

\* Every step keeps the invariant.
LEMMA NextIndInv == ASSUME IndInv, [Next]_vars PROVE IndInv'
  <1>1. /\ RowInv /\ RemoteShape /\ LoopShape /\ CaughtUp
        /\ Tables \in Store /\ scenario \in Scenarios /\ ended' \in BOOLEAN
    BY Parts, EndedStep
  <1>2. ASSUME /\ RowInv' /\ RemoteShape' /\ LoopShape' /\ CaughtUp'
               /\ Tables' \in Store /\ scenario' = scenario
        PROVE  IndInv'
    <2>1. Store' = Store
      BY <1>2, Fixed
    <2> QED
      BY <1>1, <1>2, <2>1, Parts DEF IndInv, Shapes, RowInv, RemoteShape, LoopShape
  <1>3. CASE Environment
    <2>1. LoopShape' /\ UNCHANGED <<scenario, incident, row, link, worker, job, posts, replies, page>>
          /\ due' = due /\ delivery' = delivery
      BY <1>1, <1>3, EnvironmentStep
    <2>2. RowInv' /\ RemoteShape'
      BY <1>1, <2>1, RowFrame, RemoteFrame
    <2>3. Tables' \in Store /\ CaughtUp'
      BY <1>1, <2>1 DEF Tables, CaughtUp
    <2> QED
      BY <1>2, <2>1, <2>2, <2>3
  <1>4. CASE ProcessLoop
    <2>1. /\ LoopShape' /\ CaughtUp' /\ Tables' \in Store /\ Later(Tables, Tables')
          /\ UNCHANGED <<scenario, link, worker, job, posts, replies, page>>
      BY <1>1, <1>4, ProcessLoopStep
    <2>2. RowInv' /\ RemoteShape'
      BY <1>1, <2>1, RowLater, RemoteFrame
    <2> QED
      BY <1>2, <2>1, <2>2
  <1>5. CASE Work
    <2>1. /\ RowInv' /\ Tables' \in Store /\ LoopShape' /\ CaughtUp'
          /\ UNCHANGED <<scenario, posts, replies, page>>
      BY <1>1, <1>5, WorkStep
    <2>2. RemoteShape'
      BY <1>1, <2>1, RemoteFrame
    <2> QED
      BY <1>2, <2>1, <2>2
  <1>6. CASE Send
    BY <1>1, <1>2, <1>6, SendStep
  <1>7. CASE Finish
    <2>1. /\ UNCHANGED <<scenario, truth, gameOn, backlog, due, cycle, authorized, delivery, lease,
                         posts, replies, page, faults>>
          /\ worker = "finish" /\ link' = (link \/ job.parent)
      BY <1>7 DEF Finish, remote
    <2>2. RowInv' /\ Tables' \in Store
      BY <1>1, <1>7, FinishStep
    <2>3. link' \in BOOLEAN /\ faults' \in 0 .. MaxFaults
      BY <1>1, <2>1 DEF LoopShape
    <2>4. LoopShape' /\ CaughtUp' /\ RemoteShape'
      BY <1>1, <2>1, <2>3, LoopFrame, RemoteFrame
    <2> QED
      BY <1>2, <2>1, <2>2, <2>4
  <1>8. CASE WorkerFails
    <2>1. /\ UNCHANGED <<scenario, truth, gameOn, backlog, due, cycle, authorized, delivery, lease,
                         posts, replies, page, link>>
          /\ faults < MaxFaults /\ faults' = faults + 1
      BY <1>8 DEF WorkerFails, remote
    <2>2. RowInv' /\ Tables' \in Store
      BY <1>1, <1>8, WorkerFailsStep
    <2>3. link' \in BOOLEAN /\ faults' \in 0 .. MaxFaults
      BY <1>1, <2>1, MoreFaults DEF LoopShape
    <2>4. LoopShape' /\ CaughtUp' /\ RemoteShape'
      BY <1>1, <2>1, <2>3, LoopFrame, RemoteFrame
    <2> QED
      BY <1>2, <2>1, <2>2, <2>4
  <1>9. CASE Restart
    <2>1. /\ UNCHANGED <<scenario, truth, gameOn, backlog, link, posts, replies, page>>
          /\ faults < MaxFaults /\ faults' = faults + 1
          /\ cycle' = "idle" /\ due' = 0 /\ authorized' = FALSE /\ delivery' = FALSE
          /\ lease' = NoLease
      BY <1>9 DEF Restart, remote
    <2>2. RowInv' /\ Tables' \in Store
      BY <1>1, <1>9, RestartStep
    <2>3. faults' \in 0 .. MaxFaults
      BY <1>1, <2>1, MoreFaults
    <2>4. Incidents' = Incidents /\ Events' = Events
      BY <2>1, Fixed
    <2>5. Len(backlog) \in Nat
      BY <1>1 DEF LoopShape
    <2>6. due' \in 0 .. Len(backlog')
      BY <2>1, <2>5
    <2>7. LoopShape'
      BY <1>1, <2>1, <2>3, <2>4, <2>6, LeaseType DEF LoopShape
    <2>8. CaughtUp' /\ RemoteShape'
      BY <1>1, <2>1, RemoteFrame DEF CaughtUp
    <2> QED
      BY <1>2, <2>1, <2>2, <2>7, <2>8
  <1>10. CASE DeleteCard \/ UNCHANGED vars
    <2>1. /\ UNCHANGED <<scenario, truth, gameOn, backlog, due, cycle, authorized, delivery, lease,
                         incident, row, link, worker, job, posts, replies, page>>
          /\ faults' = faults \/ (faults < MaxFaults /\ faults' = faults + 1)
      BY <1>10 DEF DeleteCard, vars, store, remote
    <2>2. link' \in BOOLEAN /\ faults' \in 0 .. MaxFaults
      BY <1>1, <2>1, MoreFaults DEF LoopShape
    <2>3. LoopShape' /\ CaughtUp' /\ RemoteShape' /\ RowInv'
      BY <1>1, <2>1, <2>2, LoopFrame, RemoteFrame, RowFrame
    <2>4. Tables' \in Store
      BY <1>1, <2>1 DEF Tables
    <2> QED
      BY <1>2, <2>1, <2>3, <2>4
  <1> QED
    BY <1>3, <1>4, <1>5, <1>6, <1>7, <1>8, <1>9, <1>10 DEF Next

\* In every reachable state the worker's row is the one being sent, a row that may be claimed
\* was never performed, and what was said is held by a row that will not be sent again.
THEOREM IndInvHolds == Spec => []IndInv
  BY InitIndInv, NextIndInv, PTL DEF Spec

\* The invariant is enough.
LEMMA SaidOnceFollows == ASSUME IndInv PROVE SaidOnce
  <1>1. /\ Shapes /\ JobShape /\ SendingHeld
    BY DEF IndInv
  <1>2. /\ incident \in [Incidents -> Shows]
        /\ row \in [Incidents -> [Channels -> [Versions -> Rows]]]
    BY <1>1, StoreParts DEF Shapes, Tables
  <1>3. ASSUME NEW i \in Incidents, NEW c \in Channels, NEW v \in Versions
        PROVE  /\ row[i][c][v].state \in States /\ row[i][c][v].attempts \in 0..MaxAttempts
               /\ row[i][c][v].state = "sending" => job # NoJob /\ job.incident = i /\ job.version = v
    <2>1. row[i][c][v] \in Rows
      BY <1>2
    <2>2. row[i][c][v].state = "sending" => worker # "wait" /\ job.incident = i /\ job.version = v
      BY <1>1 DEF SendingHeld, Holds
    <2>3. worker # "wait" => job # NoJob
      <3>1. worker # "wait" => job \in Claimed \cup Calls \cup Done
        BY <1>1 DEF JobShape
      <3>2. \A j \in Claimed \cup Calls \cup Done : "version" \in DOMAIN j
        BY DEF Claimed, Calls, Done
      <3>3. "version" \notin DOMAIN NoJob
        BY DEF NoJob
      <3> QED
        BY <3>1, <3>2, <3>3
    <2> QED
      BY <2>1, <2>2, <2>3 DEF Rows
  <1>4. TypeOK
    <2>1. incident \in [Incidents -> [state : {"none", "open", "recovered", "closed"}, noted : BOOLEAN]]
      BY <1>2 DEF Shows, IncidentStates
    <2>2. worker \in {"wait", "claimed", "edit", "post", "reply", "find", "session", "create", "patch",
                      "look", "append", "finish"}
      BY <1>1 DEF JobShape, Calling
    <2> QED
      BY <1>1, <1>3, <2>1, <2>2 DEF TypeOK, Shapes
  <1>5. ASSUME NEW i \in Incidents
        PROVE  /\ posts[i] <= 1 /\ page[i].count <= 1 /\ page[i].tables <= 1
               /\ \A v \in Versions : replies[i][v] <= 1
    <2>1. posts[i] \in 0 .. 1 /\ page[i] \in Pages /\ \A v \in Versions : replies[i][v] \in 0 .. 1
      BY <1>1 DEF Shapes
    <2>2. page[i].count \in 0 .. 1 /\ page[i].tables \in 0 .. 1
      BY <2>1 DEF Pages
    <2> QED
      BY <2>1, <2>2
  <1> QED
    BY <1>4, <1>5 DEF SaidOnce

\* Whatever is lost, late or interrupted, for any number of incidents, attempts and faults: one
\* card is opened for an alert, one page and one evidence table exist for an incident, and each
\* row has one reply (claim, finish and start_run of incidents.py, the senders of notifications.py).
THEOREM SaidOnceHolds == Spec => []SaidOnce
  BY IndInvHolds, SaidOnceFollows, PTL

\* A row begins to be sent by a claim and by nothing else.
LEMMA OnlyClaims ==
    ASSUME IndInv, [Next]_vars, NEW i \in Incidents, NEW c \in Channels, NEW v \in Versions,
           row[i][c][v].state # "sending", row'[i][c][v].state = "sending"
    PROVE  Eligible(i, c, v)
  <1>1. /\ RowInv /\ LoopShape /\ CaughtUp /\ Tables \in Store /\ scenario \in Scenarios
    BY Parts
  <1>2. IndInv'
    BY NextIndInv
  <1>3. UNCHANGED scenario
    BY DEF Next, vars, Environment, ProcessLoop, Work, Send, Finish, WorkerFails, Restart, DeleteCard
  <1>4. Incidents' = Incidents /\ Channels' = Channels
    BY <1>3, Fixed
  <1>5. worker' # "wait" /\ job'.incident = i /\ job'.channel = c /\ job'.version = v
    BY <1>2, <1>4 DEF IndInv, SendingHeld, Holds
  <1>6. CASE ClaimAny
    <2>1. PICK j \in Incidents, d \in Channels, w \in Versions : Claim(j, d, w)
      BY <1>6 DEF ClaimAny
    <2>2. job' = [incident |-> j, channel |-> d, version |-> w] /\ Eligible(j, d, w)
      BY <2>1 DEF Claim
    <2> QED
      BY <1>5, <2>2
  <1>7. CASE row' = row
    BY <1>7
  <1>8. CASE ProcessLoop
    <2>1. Later(Tables, Tables')
      BY <1>1, <1>8, ProcessLoopStep
    <2>2. Keeps(row[i][c][v], row'[i][c][v])
      BY <2>1 DEF Later, Tables
    <2> QED
      BY <2>2 DEF Keeps
  <1>9. CASE \E j \in Incidents : DropStale(j)
    <2>1. PICK j \in Incidents : DropStale(j)
      BY <1>9
    <2>2. incident' = incident /\ row' = [row EXCEPT ![j] = Canceled(row[j])]
      BY <2>1 DEF DropStale
    <2>3. row'[i][c][v] = row[i][c][v] \/ row'[i][c][v].state = "canceled"
      BY <1>1, <1>3, <2>2, CanceledCells
    <2> QED
      BY <2>3
  <1>10. worker' = "wait" \/ row' = row \/ ProcessLoop \/ ClaimAny \/ \E j \in Incidents : DropStale(j)
    BY DEF Next, vars, store, Environment, Work, Defer, Revoked, PutBack, Build, Send, Finish,
           WorkerFails, Restart, DeleteCard
  <1> QED
    BY <1>5, <1>6, <1>7, <1>8, <1>9, <1>10

\* A claim that takes up an alert finds the backlog of the cycle read and the lease valid.
LEMMA ClaimCaughtUp ==
    ASSUME IndInv, [Next]_vars
    PROVE  [\A i \in Incidents, c \in Channels :
               row[i][c][1].state # "sending" /\ row'[i][c][1].state = "sending" =>
                  /\ due = 0 /\ lease.valid
                  /\ Kind(i) = "server" => i \in lease.listed /\ incident[i].state = "open"]_vars
  <1> SUFFICES ASSUME NEW i \in Incidents, NEW c \in Channels,
                      row[i][c][1].state # "sending", row'[i][c][1].state = "sending"
               PROVE  /\ due = 0 /\ lease.valid
                      /\ Kind(i) = "server" => i \in lease.listed /\ incident[i].state = "open"
    OBVIOUS
  <1>1. 1 \in Versions
    BY DEF Versions
  <1>2. Eligible(i, c, 1)
    BY <1>1, OnlyClaims
  <1> QED
    BY <1>2 DEF Eligible, IndInv, CaughtUp

\* An alert is never taken up before the journal that may tell its recovery has been read, for
\* any backlog and whatever fails (_process_loop and claim of incidents.py).
THEOREM AlertsCaughtUpHolds == Spec => AlertsCaughtUp
  <1>1. Spec => []IndInv
    BY IndInvHolds
  <1> QED
    BY <1>1, ClaimCaughtUp, PTL DEF Spec, AlertsCaughtUp
-----------------------------------------------------------------------------
(* What people see follows the incidents.  First the tables: what the rows  *)
(* say of an incident, and what each operator of the store does to that.    *)

Over == {"recovered", "closed"}
Told(t, c, x) == t.row[x][c][1].state = "delivered"
Ended(t, x) == Kind(x) # "reboot" /\ t.incident[x].state \in Over

\* An edit of what was told of x is still to come, or a person was asked to look.
Owed(t, c, x) == \E v \in {2, 4, 5} : t.row[x][c][v].state \in Waiting \cup GivenUp

\* The rows of an incident agree with it: an alert says how it stands or that it was open; a
\* follow-up, how it ended; a refresh, that a reboot was noted, or the game's end behind an alert.
RowsTrue(t, x, c) ==
    /\ t.row[x][c][1].state # "absent" =>
          /\ t.incident[x].state # "none"
          /\ t.row[x][c][1].status = t.incident[x].state \/ Ended(t, x)
    /\ t.row[x][c][2].state # "absent" =>
          /\ Told(t, c, x) /\ t.incident[x].state \in Over
          /\ t.row[x][c][2].status = t.incident[x].state
    /\ t.row[x][c][4].state # "absent" => Told(t, c, x) /\ t.incident[x].noted
    /\ t.row[x][c][5].state # "absent" => Told(t, c, x)
TrueAt(t, x) ==
    /\ Kind(x) = "reboot" => t.incident[x].state \in {"none", "recovered"}
    /\ \A c \in Channels : RowsTrue(t, x, c)

\* From t to u, every change of what was told of x is followed by a row that will tell it.
RowsTell(t, u, x, c) ==
    /\ Told(u, c, x) <=> Told(t, c, x)
    /\ Told(t, c, x) =>
          /\ u.incident[x].state # t.incident[x].state => u.row[x][c][2].state = "pending"
          /\ u.incident[x].noted # t.incident[x].noted => u.row[x][c][4].state = "pending"
    /\ \A v \in {2, 4, 5} :
          \/ u.row[x][c][v].state = t.row[x][c][v].state
          \/ t.row[x][c][v].state = "absent" /\ u.row[x][c][v].state = "pending"
TellsAt(t, u, x) ==
    /\ t.incident[x].state # "none" /\ u.incident[x].state # t.incident[x].state => Ended(u, x)
    /\ Ended(t, x) => Ended(u, x)
    /\ t.incident[x].noted => u.incident[x].noted
    /\ \A c \in Channels : RowsTell(t, u, x, c)
AllTrue(t) == \A x \in Incidents : TrueAt(t, x)
Tells(t, u) == \A x \in Incidents : TellsAt(t, u, x)

\* A row that is inserted says how its incident stands.
Ready(t, j, d, w) ==
    /\ w = 1 => t.incident[j].state # "none"
    /\ w \in {2, 4, 5} => Told(t, d, j)
    /\ w = 2 => t.incident[j].state \in Over
    /\ w = 4 => t.incident[j].noted
Alike(r, s) == s.state = r.state /\ s.status = r.status
Filled(t, u, j, d, w) ==
    \/ Alike(t.row[j][d][w], u.row[j][d][w])
    \/ /\ t.row[j][d][w].state = "absent" /\ u.row[j][d][w].state = "pending"
       /\ u.row[j][d][w].status = t.incident[j].state
       /\ Ready(t, j, d, w)
\* Tables u follow from t by inserting rows.
Fills(t, u) ==
    /\ u \in Store /\ u.incident = t.incident
    /\ \A j \in Incidents, d \in Channels, w \in Versions : Filled(t, u, j, d, w)

\* Inserting nothing.
LEMMA FillsSelf == ASSUME NEW t \in Store PROVE Fills(t, t)
  BY DEF Fills, Filled, Alike

\* What was told stays told, and a row stays.
LEMMA FillsKeeps ==
    ASSUME NEW t \in Store, NEW u, Fills(t, u), NEW j \in Incidents, NEW d \in Channels
    PROVE  /\ Told(u, d, j) <=> Told(t, d, j)
           /\ \A w \in Versions : /\ t.row[j][d][w].state # "absent" => u.row[j][d][w].state # "absent"
                                  /\ t.row[j][d][w].state = "absent" =>
                                        u.row[j][d][w].state \in {"absent", "pending"}
                                  /\ t.row[j][d][w].state = "pending" => u.row[j][d][w].state = "pending"
  <1>1. 1 \in Versions
    BY DEF Versions
  <1>2. \A w \in Versions : Filled(t, u, j, d, w)
    BY DEF Fills
  <1> QED
    BY <1>1, <1>2 DEF Filled, Alike, Told

\* Insertions compose.
LEMMA FillsTrans ==
    ASSUME NEW t \in Store, NEW s, NEW u, Fills(t, s), Fills(s, u)
    PROVE  Fills(t, u)
  <1>1. s \in Store /\ u \in Store /\ s.incident = t.incident /\ u.incident = t.incident
    BY DEF Fills
  <1>2. ASSUME NEW j \in Incidents, NEW d \in Channels, NEW w \in Versions
        PROVE  Filled(t, u, j, d, w)
    <2>1. Filled(t, s, j, d, w) /\ Filled(s, u, j, d, w)
      BY DEF Fills
    <2>2. Ready(s, j, d, w) <=> Ready(t, j, d, w)
      <3>1. Told(s, d, j) <=> Told(t, d, j)
        BY FillsKeeps
      <3> QED
        BY <1>1, <3>1 DEF Ready
    <2> QED
      BY <1>1, <2>1, <2>2 DEF Filled, Alike
  <1> QED
    BY <1>1, <1>2 DEF Fills

\* The row that is inserted.
New(t, i) == [state |-> "pending", attempts |-> 0, status |-> t.incident[i].state,
              noted |-> t.incident[i].noted]
LEMMA NewRow == ASSUME NEW t \in Store, NEW i \in Incidents PROVE New(t, i) \in Rows
  <1>1. t.incident[i].state \in IncidentStates /\ t.incident[i].noted \in BOOLEAN
    BY StoreCells DEF Shows
  <1>2. "pending" \in States /\ 0 \in 0 .. MaxAttempts
    BY OutboxAssumption DEF States
  <1> QED
    BY <1>1, <1>2 DEF Rows, New

\* One row.
LEMMA Queue1Fills ==
    ASSUME NEW t \in Store, NEW i \in Incidents, NEW c \in Channels, NEW v \in Versions,
           Ready(t, i, c, v)
    PROVE  Fills(t, Queue1(t, i, c, v)) /\ Queue1(t, i, c, v).row[i][c][v].state # "absent"
  <1>1. CASE t.row[i][c][v].state # "absent"
    BY <1>1, FillsSelf DEF Queue1
  <1>2. CASE t.row[i][c][v].state = "absent"
    <2> DEFINE q == New(t, i)
               u == [t EXCEPT !.row[i][c][v] = q]
    <2>1. Queue1(t, i, c, v) = u
      BY <1>2 DEF Queue1, New
    <2>2. q \in Rows /\ q.state = "pending" /\ q.status = t.incident[i].state
      BY NewRow DEF New
    <2> HIDE DEF q
    <2>3. /\ u \in Store /\ u.incident = t.incident
          /\ \A j \in Incidents, d \in Channels, w \in Versions :
                 u.row[j][d][w] = IF j = i /\ d = c /\ w = v THEN q ELSE t.row[j][d][w]
      BY <2>2, PutRow
    <2> HIDE DEF u
    <2>4. Fills(t, u)
      BY <1>2, <2>2, <2>3 DEF Fills, Filled, Alike
    <2> QED
      BY <2>1, <2>2, <2>3, <2>4
  <1> QED
    BY <1>1, <1>2

\* An alert or a follow-up, where it goes.
MayQueue(t, i, v) ==
    /\ v \in {1, 2}
    /\ v = 1 => t.incident[i].state # "none"
    /\ v = 2 => t.incident[i].state \in Over
LEMMA QueueOnFills ==
    ASSUME NEW t \in Store, NEW i \in Incidents, NEW c, NEW v, MayQueue(t, i, v)
    PROVE  /\ Fills(t, QueueOn(t, i, c, v))
           /\ c \in Channels /\ (v = 1 \/ Told(t, c, i)) =>
                  QueueOn(t, i, c, v).row[i][c][v].state # "absent"
  <1>1. 1 \in Versions /\ 2 \in Versions /\ 3 \in Versions /\ v \in {1, 2}
    BY DEF Versions, MayQueue
  <1>2. CASE c \notin Channels \/ (v = 2 /\ ~Told(t, c, i))
    <2>1. QueueOn(t, i, c, v) = t
      BY <1>2 DEF QueueOn, Told
    <2> QED
      BY <1>2, <2>1, FillsSelf
  <1>3. CASE c \in Channels /\ v = 2 /\ Told(t, c, i) /\ c = "notion"
    <2> DEFINE s == Queue1(t, i, c, 2)
               u == Queue1(s, i, c, 3)
    <2>1. QueueOn(t, i, c, v) = u
      BY <1>3 DEF QueueOn, Told
    <2>2. Ready(t, i, c, 2)
      BY <1>3 DEF Ready, MayQueue
    <2>3. Fills(t, s) /\ s.row[i][c][2].state # "absent"
      BY <1>1, <1>3, <2>2, Queue1Fills
    <2> HIDE DEF s
    <2>4. s \in Store /\ Ready(s, i, c, 3)
      BY <2>3 DEF Fills, Ready
    <2>5. Fills(s, u)
      BY <1>1, <1>3, <2>4, Queue1Fills
    <2> HIDE DEF u
    <2>6. u.row[i][c][2].state # "absent"
      BY <1>1, <1>3, <2>3, <2>4, <2>5, FillsKeeps
    <2>7. Fills(t, u)
      BY <2>3, <2>5, FillsTrans
    <2> QED
      BY <1>3, <2>1, <2>6, <2>7
  <1>4. CASE c \in Channels /\ (v = 1 \/ Told(t, c, i)) /\ ~(v = 2 /\ c = "notion")
    <2>1. QueueOn(t, i, c, v) = Queue1(t, i, c, v)
      BY <1>1, <1>4 DEF QueueOn, Told
    <2>2. Ready(t, i, c, v)
      BY <1>1, <1>4 DEF Ready, MayQueue
    <2> QED
      BY <1>1, <1>4, <2>1, <2>2, Queue1Fills
  <1> QED
    BY <1>1, <1>2, <1>3, <1>4

\* An alert or a follow-up on both channels.
LEMMA QueueFills ==
    ASSUME NEW t \in Store, NEW i \in Incidents, NEW v, MayQueue(t, i, v), scenario \in Scenarios
    PROVE  /\ Fills(t, Queue(t, i, v))
           /\ \A c \in Channels : v = 1 \/ Told(t, c, i) => Queue(t, i, v).row[i][c][v].state # "absent"
  <1> DEFINE s == QueueOn(t, i, "notion", v)
             u == QueueOn(s, i, "slack", v)
  <1>1. Queue(t, i, v) = u
    BY DEF Queue
  <1>2. /\ Fills(t, s)
        /\ "notion" \in Channels /\ (v = 1 \/ Told(t, "notion", i)) => s.row[i]["notion"][v].state # "absent"
    BY QueueOnFills
  <1> HIDE DEF s
  <1>3. s \in Store /\ MayQueue(s, i, v) /\ v \in Versions
    BY <1>2 DEF Fills, MayQueue, Versions
  <1>4. /\ Fills(s, u)
        /\ "slack" \in Channels /\ (v = 1 \/ Told(s, "slack", i)) => u.row[i]["slack"][v].state # "absent"
    BY <1>3, QueueOnFills
  <1> HIDE DEF u
  <1>5. Fills(t, u)
    BY <1>2, <1>4, FillsTrans
  <1>6. ASSUME NEW c \in Channels, v = 1 \/ Told(t, c, i) PROVE u.row[i][c][v].state # "absent"
    <2>1. CASE c = "notion"
      BY <1>2, <1>3, <1>4, <1>6, <2>1, FillsKeeps
    <2>2. CASE c = "slack"
      BY <1>2, <1>4, <1>6, <2>2, FillsKeeps
    <2> QED
      BY <2>1, <2>2, Domains
  <1> QED
    BY <1>1, <1>5, <1>6

\* A refresh on one channel: of an incident on which a reboot is noted, or at the end of the game.
LEMMA RefreshOnFills ==
    ASSUME NEW t \in Store, NEW i \in Incidents, NEW c, NEW version \in {4, 5},
           version = 4 => t.incident[i].noted
    PROVE  /\ Fills(t, RefreshOn(t, i, c, version))
           /\ c \in Channels /\ Told(t, c, i) => RefreshOn(t, i, c, version).row[i][c][version].state # "absent"
  <1>1. CASE c \notin Channels
    BY <1>1, FillsSelf DEF RefreshOn
  <1>2. CASE c \in Channels
    <2> DEFINE told == [v \in Versions |->
                           IF v <= 2 /\ t.row[i][c][v].state \in Waiting
                           THEN [t.row[i][c][v] EXCEPT !.noted = t.incident[i].noted]
                           ELSE t.row[i][c][v]]
               s == [t EXCEPT !.row[i][c] = told]
               u == Queue1(s, i, c, version)
    <2>1. \A v \in Versions : told[v] \in Rows /\ Alike(t.row[i][c][v], told[v])
      <3> TAKE v \in Versions
      <3>1. t.row[i][c][v] \in Rows /\ t.incident[i].noted \in BOOLEAN
        BY <1>2, StoreCells DEF Shows
      <3>2. \A b \in BOOLEAN : LET r == [t.row[i][c][v] EXCEPT !.noted = b]
                               IN  r \in Rows /\ Alike(t.row[i][c][v], r)
        BY <3>1 DEF Rows, Alike
      <3> QED
        BY <3>1, <3>2 DEF Alike
    <2>2. told \in [Versions -> Rows]
      BY <2>1
    <2>3. 1 \in Versions /\ version \in Versions
      BY DEF Versions
    <2>4. RefreshOn(t, i, c, version) = IF told[1].state = "delivered" THEN u ELSE s
      BY <1>2 DEF RefreshOn
    <2> HIDE DEF told
    <2>5. /\ s \in Store /\ s.incident = t.incident
          /\ \A j \in Incidents, d \in Channels, w \in Versions :
                 s.row[j][d][w] = IF j = i /\ d = c THEN told[w] ELSE t.row[j][d][w]
      BY <1>2, <2>2, PutRows
    <2> HIDE DEF s
    <2>6. Fills(t, s)
      BY <2>1, <2>5 DEF Fills, Filled, Alike
    <2>7. /\ told[1].state = "delivered" <=> Told(t, c, i)
          /\ Told(s, c, i) <=> Told(t, c, i)
      BY <1>2, <2>1, <2>3, <2>5 DEF Told, Alike
    <2>8. CASE Told(t, c, i)
      <3>1. Ready(s, i, c, version)
        BY <2>5, <2>7, <2>8 DEF Ready
      <3>2. Fills(s, u) /\ u.row[i][c][version].state # "absent"
        BY <1>2, <2>3, <2>5, <3>1, Queue1Fills
      <3> HIDE DEF u
      <3>3. Fills(t, u)
        BY <2>6, <3>2, FillsTrans
      <3> QED
        BY <2>4, <2>7, <2>8, <3>2, <3>3
    <2>9. CASE ~Told(t, c, i)
      BY <2>4, <2>6, <2>7, <2>9
    <2> QED
      BY <2>8, <2>9
  <1> QED
    BY <1>1, <1>2

\* A refresh on both channels.
LEMMA RefreshFills ==
    ASSUME NEW t \in Store, NEW i \in Incidents, t.incident[i].noted, scenario \in Scenarios
    PROVE  /\ Fills(t, Refresh(t, i))
           /\ \A c \in Channels : Told(t, c, i) => Refresh(t, i).row[i][c][4].state # "absent"
  <1> DEFINE s == RefreshOn(t, i, "notion", 4)
             u == RefreshOn(s, i, "slack", 4)
  <1>1. Refresh(t, i) = u
    BY DEF Refresh
  <1>2. /\ Fills(t, s)
        /\ "notion" \in Channels /\ Told(t, "notion", i) => s.row[i]["notion"][4].state # "absent"
    BY RefreshOnFills
  <1> HIDE DEF s
  <1>3. s \in Store /\ s.incident[i].noted /\ 4 \in Versions /\ 5 \in Versions
    BY <1>2 DEF Fills, Versions
  <1>4. /\ Fills(s, u)
        /\ "slack" \in Channels /\ Told(s, "slack", i) => u.row[i]["slack"][4].state # "absent"
    BY <1>3, RefreshOnFills
  <1> HIDE DEF u
  <1>5. Fills(t, u)
    BY <1>2, <1>4, FillsTrans
  <1>6. ASSUME NEW c \in Channels, Told(t, c, i) PROVE u.row[i][c][4].state # "absent"
    <2>1. CASE c = "notion"
      BY <1>2, <1>3, <1>4, <1>6, <2>1, FillsKeeps
    <2>2. CASE c = "slack"
      BY <1>2, <1>4, <1>6, <2>2, FillsKeeps
    <2> QED
      BY <2>1, <2>2, Domains
  <1> QED
    BY <1>1, <1>5, <1>6

\* Rows that are inserted agree with their incident.
LEMMA FillsTrue ==
    ASSUME NEW t \in Store, NEW u, Fills(t, u), NEW x \in Incidents, TrueAt(t, x)
    PROVE  TrueAt(u, x)
  <1>1. u.incident[x] = t.incident[x] /\ 1 \in Versions /\ 2 \in Versions /\ 4 \in Versions /\ 5 \in Versions
    BY DEF Fills, Versions
  <1>2. ASSUME NEW c \in Channels PROVE RowsTrue(u, x, c)
    <2>1. RowsTrue(t, x, c)
      BY DEF TrueAt
    <2>2. Filled(t, u, x, c, 1) /\ Filled(t, u, x, c, 2) /\ Filled(t, u, x, c, 4) /\ Filled(t, u, x, c, 5)
      BY <1>1 DEF Fills
    <2>3. Told(u, c, x) <=> Told(t, c, x)
      BY FillsKeeps
    <2>4. Ended(u, x) <=> Ended(t, x)
      BY <1>1 DEF Ended
    <2> QED
      BY <1>1, <2>1, <2>2, <2>3, <2>4 DEF RowsTrue, Filled, Alike, Ready
  <1> QED
    BY <1>1, <1>2 DEF TrueAt

\* A row told behind an incident that was marked: s is t with marks, u follows by insertions.
Marks(t, s, x) ==
    /\ t.incident[x].state # "none" /\ s.incident[x].state # t.incident[x].state => Ended(s, x)
    /\ Ended(t, x) => Ended(s, x)
    /\ t.incident[x].noted => s.incident[x].noted
    /\ \A c \in Channels :
           /\ Told(s, c, x) <=> Told(t, c, x)
           /\ \A v \in {2, 4, 5} : s.row[x][c][v].state = t.row[x][c][v].state
LEMMA TellsMade ==
    ASSUME NEW t \in Store, NEW s \in Store, NEW u, Fills(s, u), NEW x \in Incidents,
           Marks(t, s, x),
           \A c \in Channels : Told(t, c, x) =>
               /\ s.incident[x].state # t.incident[x].state =>
                      t.row[x][c][2].state = "absent" /\ u.row[x][c][2].state # "absent"
               /\ s.incident[x].noted # t.incident[x].noted =>
                      t.row[x][c][4].state = "absent" /\ u.row[x][c][4].state # "absent"
    PROVE  TellsAt(t, u, x)
  <1>1. u.incident = s.incident /\ 2 \in Versions /\ 4 \in Versions /\ 5 \in Versions
    BY DEF Fills, Versions
  <1>2. Ended(u, x) <=> Ended(s, x)
    BY <1>1 DEF Ended
  <1>3. ASSUME NEW c \in Channels PROVE RowsTell(t, u, x, c)
    <2>1. /\ Told(u, c, x) <=> Told(s, c, x)
          /\ \A v \in {2, 4, 5} :
                 /\ Filled(s, u, x, c, v)
                 /\ s.row[x][c][v].state = "absent" => u.row[x][c][v].state \in {"absent", "pending"}
      BY <1>1, FillsKeeps DEF Fills
    <2>2. \A v \in {2, 4, 5} : s.row[x][c][v].state = t.row[x][c][v].state
      BY DEF Marks
    <2>3. \A v \in {2, 4, 5} :
              \/ u.row[x][c][v].state = t.row[x][c][v].state
              \/ t.row[x][c][v].state = "absent" /\ u.row[x][c][v].state = "pending"
      BY <2>1, <2>2 DEF Filled, Alike
    <2>4. Told(u, c, x) <=> Told(t, c, x)
      BY <2>1 DEF Marks
    <2> QED
      BY <1>1, <2>3, <2>4 DEF RowsTell
  <1> QED
    BY <1>1, <1>2, <1>3 DEF TellsAt, Marks

\* Doing nothing.
LEMMA TellsSelf == ASSUME NEW t \in Store PROVE Tells(t, t)
  BY DEF Tells, TellsAt, RowsTell

\* Transactions compose.
LEMMA TellsTrans ==
    ASSUME NEW t, NEW s, NEW u, Tells(t, s), Tells(s, u)
    PROVE  Tells(t, u)
  <1> SUFFICES ASSUME NEW x \in Incidents PROVE TellsAt(t, u, x)
    BY DEF Tells
  <1>1. TellsAt(t, s, x) /\ TellsAt(s, u, x)
    BY DEF Tells
  <1>2. ASSUME NEW c \in Channels PROVE RowsTell(t, u, x, c)
    <2>1. RowsTell(t, s, x, c) /\ RowsTell(s, u, x, c)
      BY <1>1 DEF TellsAt
    <2> QED
      BY <2>1 DEF RowsTell
  <1>3. /\ t.incident[x].state # "none" /\ u.incident[x].state # t.incident[x].state => Ended(u, x)
        /\ Ended(t, x) => Ended(u, x)
        /\ t.incident[x].noted => u.incident[x].noted
    BY <1>1 DEF TellsAt
  <1> QED
    BY <1>2, <1>3 DEF TellsAt

\* One incident is marked: its state is set, or a reboot is noted on it.
SetIncident(t, i, how) == [t EXCEPT !.incident[i].state = how]
SetNoted(t, i) == [t EXCEPT !.incident[i].noted = TRUE]
LEMMA PutShows ==
    ASSUME NEW t \in Store, NEW i \in Incidents, NEW r \in Shows
    PROVE  LET s == [t EXCEPT !.incident = [t.incident EXCEPT ![i] = r]]
           IN  /\ s \in Store /\ s.row = t.row /\ s.incident[i] = r
               /\ \A x \in Incidents : x # i => s.incident[x] = t.incident[x]
  <1> DEFINE I == [t.incident EXCEPT ![i] = r]
  <1>1. t.incident \in [Incidents -> Shows]
        /\ t.row \in [Incidents -> [Channels -> [Versions -> Rows]]]
    BY StoreParts
  <1>2. I \in [Incidents -> Shows] /\ I[i] = r /\ \A x \in Incidents : x # i => I[x] = t.incident[x]
    BY <1>1
  <1> HIDE DEF I
  <1>3. [t EXCEPT !.incident = I] = [incident |-> I, row |-> t.row]
    BY StoreExcept
  <1>4. [incident |-> I, row |-> t.row] \in Store
    BY <1>1, <1>2, StoreMade
  <1> QED
    BY <1>2, <1>3, <1>4 DEF I

LEMMA PutMark ==
    ASSUME NEW t \in Store, NEW i \in Incidents, NEW how \in IncidentStates
    PROVE  /\ SetIncident(t, i, how) \in Store /\ SetIncident(t, i, how).row = t.row
           /\ \A x \in Incidents : x # i => SetIncident(t, i, how).incident[x] = t.incident[x]
           /\ SetIncident(t, i, how).incident[i].state = how
           /\ SetIncident(t, i, how).incident[i].noted = t.incident[i].noted
  <1> DEFINE r == [t.incident[i] EXCEPT !.state = how]
  <1>1. r \in Shows /\ r.state = how /\ r.noted = t.incident[i].noted
    BY StoreCells DEF Shows
  <1>2. SetIncident(t, i, how) = [t EXCEPT !.incident = [t.incident EXCEPT ![i] = r]]
    BY DEF SetIncident
  <1> HIDE DEF r
  <1> QED
    BY <1>1, <1>2, PutShows

LEMMA PutNoted ==
    ASSUME NEW t \in Store, NEW i \in Incidents
    PROVE  /\ SetNoted(t, i) \in Store /\ SetNoted(t, i).row = t.row
           /\ \A x \in Incidents : x # i => SetNoted(t, i).incident[x] = t.incident[x]
           /\ SetNoted(t, i).incident[i].state = t.incident[i].state
           /\ SetNoted(t, i).incident[i].noted = TRUE
  <1> DEFINE r == [t.incident[i] EXCEPT !.noted = TRUE]
  <1>1. r \in Shows /\ r.state = t.incident[i].state /\ r.noted = TRUE
    BY StoreCells DEF Shows
  <1>2. SetNoted(t, i) = [t EXCEPT !.incident = [t.incident EXCEPT ![i] = r]]
    BY DEF SetNoted
  <1> HIDE DEF r
  <1> QED
    BY <1>1, <1>2, PutShows

\* An incident that was never opened has no rows.
LEMMA NoRows ==
    ASSUME NEW t \in Store, NEW x \in Incidents, TrueAt(t, x), t.incident[x].state = "none",
           NEW c \in Channels
    PROVE  /\ t.row[x][c][1].state = "absent" /\ ~Told(t, c, x)
           /\ \A w \in {2, 4, 5} : t.row[x][c][w].state = "absent"
  BY DEF TrueAt, RowsTrue, Told

\* An incident that is given its first state agrees with its rows: there are none.
LEMMA BeginsTrue ==
    ASSUME NEW t \in Store, AllTrue(t), NEW i \in Incidents, t.incident[i].state = "none",
           NEW how \in {"open", "recovered"}, Kind(i) = "reboot" => how = "recovered"
    PROVE  LET s == SetIncident(t, i, how)
           IN  /\ s \in Store /\ AllTrue(s) /\ s.incident[i].state = how
               /\ \A x \in Incidents : Marks(t, s, x)
               /\ \A x \in Incidents, c \in Channels : Told(t, c, x) => s.incident[x] = t.incident[x]
  <1> DEFINE s == SetIncident(t, i, how)
  <1>1. /\ s \in Store /\ s.row = t.row /\ s.incident[i].state = how
        /\ s.incident[i].noted = t.incident[i].noted
        /\ \A x \in Incidents : x # i => s.incident[x] = t.incident[x]
    <2>1. how \in IncidentStates
      BY DEF IncidentStates
    <2> QED
      BY <2>1, PutMark
  <1> HIDE DEF s
  <1>2. \A c \in Channels : /\ t.row[i][c][1].state = "absent" /\ ~Told(t, c, i)
                            /\ \A w \in {2, 4, 5} : t.row[i][c][w].state = "absent"
    BY NoRows DEF AllTrue
  <1>3. ASSUME NEW x \in Incidents PROVE TrueAt(s, x)
    <2>1. CASE x = i
      BY <1>1, <1>2, <2>1 DEF TrueAt, RowsTrue
    <2>2. CASE x # i
      <3>1. TrueAt(t, x)
        BY DEF AllTrue
      <3> QED
        BY <1>1, <2>2, <3>1 DEF TrueAt, RowsTrue, Told, Ended
    <2> QED
      BY <2>1, <2>2
  <1>4. ASSUME NEW x \in Incidents PROVE Marks(t, s, x)
    <2>1. CASE x = i
      BY <1>1, <2>1 DEF Marks, Told, Ended, Over
    <2>2. CASE x # i
      BY <1>1, <2>2 DEF Marks, Told, Ended
    <2> QED
      BY <2>1, <2>2
  <1>5. \A x \in Incidents, c \in Channels : Told(t, c, x) => s.incident[x] = t.incident[x]
    BY <1>1, <1>2
  <1> QED
    BY <1>1, <1>3, <1>4, <1>5 DEF AllTrue, s

\* An incident is opened, and announced when it is listed or the watch's own.
LEMMA OpenTells ==
    ASSUME NEW t \in Store, AllTrue(t), NEW i \in Incidents, Kind(i) # "reboot",
           scenario \in Scenarios
    PROVE  /\ AllTrue(Open(t, i)) /\ Tells(t, Open(t, i))
           /\ AllTrue(Lists(t, i)) /\ Tells(t, Lists(t, i))
           /\ AllTrue(WatchOpens(t, i)) /\ Tells(t, WatchOpens(t, i))
  <1> DEFINE s == Open(t, i)
             u == Queue(s, i, 1)
  <1>1. /\ s \in Store /\ AllTrue(s) /\ s.incident[i].state # "none"
        /\ \A x \in Incidents : Marks(t, s, x)
        /\ \A x \in Incidents, c \in Channels : Told(t, c, x) => s.incident[x] = t.incident[x]
    <2>1. CASE t.incident[i].state = "none"
      <3>1. s = SetIncident(t, i, "open")
        BY <2>1 DEF Open, SetIncident
      <3> QED
        BY <2>1, <3>1, BeginsTrue
    <2>2. CASE t.incident[i].state # "none"
      <3>1. s = t
        BY <2>2 DEF Open
      <3> QED
        BY <2>2, <3>1 DEF Marks
    <2> QED
      BY <2>1, <2>2
  <1>2. WatchOpens(t, i) = u /\ Lists(t, i) = IF s.incident[i].state = "open" THEN u ELSE s
    BY DEF WatchOpens, Lists
  <1> HIDE DEF s
  <1>3. MayQueue(s, i, 1)
    BY <1>1 DEF MayQueue
  <1>4. Fills(s, u) /\ Fills(s, s)
    BY <1>1, <1>3, QueueFills, FillsSelf
  <1>5. ASSUME NEW w, Fills(s, w) PROVE AllTrue(w) /\ Tells(t, w)
    <2>1. AllTrue(w)
      BY <1>1, <1>5, FillsTrue DEF AllTrue
    <2>2. \A x \in Incidents : TellsAt(t, w, x)
      BY <1>1, <1>5, TellsMade
    <2> QED
      BY <2>1, <2>2 DEF Tells
  <1> QED
    BY <1>2, <1>4, <1>5 DEF s

\* Closing an incident cancels its alert when that waits, and queues the follow-up.
LEMMA CloseTells ==
    ASSUME NEW t \in Store, AllTrue(t), NEW i \in Incidents, NEW how \in Over,
           scenario \in Scenarios
    PROVE  AllTrue(Close(t, i, how)) /\ Tells(t, Close(t, i, how))
  <1>1. CASE t.incident[i].state # "open"
    BY <1>1, TellsSelf DEF Close
  <1>2. CASE t.incident[i].state = "open"
    <2> DEFINE I == [t.incident EXCEPT ![i].state = how]
               q == Canceled(t.row[i])
               R == [t.row EXCEPT ![i] = q]
               s == [incident |-> I, row |-> R]
               u == Queue(s, i, 2)
    <2>1. Close(t, i, how) = u
      BY <1>2 DEF Close
    <2>2. /\ I \in [Incidents -> Shows] /\ I[i].state = how /\ I[i].noted = t.incident[i].noted
          /\ \A x \in Incidents : x # i => I[x] = t.incident[x]
      <3>1. t.incident \in [Incidents -> Shows]
        BY StoreParts
      <3>2. [t.incident[i] EXCEPT !.state = how] \in Shows
        BY <3>1 DEF Shows, IncidentStates, Over
      <3>3. t.incident[i] \in Shows
        BY <3>1
      <3>4. \A r \in Shows : [r EXCEPT !.state = how].state = how /\ [r EXCEPT !.state = how].noted = r.noted
        BY DEF Shows
      <3> QED
        BY <3>1, <3>2, <3>3, <3>4
    <2>3. \A r \in Rows : LET k == [r EXCEPT !.state = "canceled"]
                          IN  k \in Rows /\ k.state = "canceled" /\ k.status = r.status
      BY DEF Rows, States
    <2>4. q \in [Channels -> [Versions -> Rows]]
      BY <2>3, StoreParts DEF Canceled
    <2>5. \A c \in Channels, v \in Versions :
              \/ q[c][v] = t.row[i][c][v]
              \/ /\ v = 1 /\ t.row[i][c][v].state \in Waiting /\ q[c][v].state = "canceled"
                 /\ q[c][v].status = t.row[i][c][v].status
      BY <2>3, StoreParts DEF Canceled
    <2> HIDE DEF q
    <2>6. /\ R \in [Incidents -> [Channels -> [Versions -> Rows]]]
          /\ R[i] = q /\ \A x \in Incidents : x # i => R[x] = t.row[x]
      BY <2>4, StoreParts
    <2>7. s \in Store /\ s.incident = I /\ s.row = R
      BY <2>2, <2>6, StoreMade
    <2> HIDE DEF I, R, s
    <2>8. 1 \in Versions /\ 2 \in Versions /\ 4 \in Versions /\ 5 \in Versions /\ Kind(i) # "reboot"
          /\ how \in {"recovered", "closed"}
      BY <1>2 DEF Versions, AllTrue, TrueAt, Over
    <2>9. \A c \in Channels : RowsTrue(t, i, c) /\ t.row[i][c][2].state = "absent"
      BY <1>2 DEF AllTrue, TrueAt, RowsTrue, Over
    <2>10. Ended(s, i) /\ ~Ended(t, i)
      BY <1>2, <2>2, <2>7, <2>8 DEF Ended, Over
    <2>11. \A c \in Channels : /\ Told(s, c, i) <=> Told(t, c, i)
                               /\ s.row[i][c][1].state # "absent" => t.row[i][c][1].state # "absent"
                               /\ \A w \in {2, 4, 5} : s.row[i][c][w] = t.row[i][c][w]
      BY <2>5, <2>6, <2>7, <2>8 DEF Told, Waiting
    <2>12. ASSUME NEW x \in Incidents PROVE TrueAt(s, x) /\ Marks(t, s, x)
      <3>1. CASE x = i
        <4>1. \A c \in Channels : RowsTrue(s, i, c)
          BY <2>2, <2>7, <2>8, <2>9, <2>10, <2>11 DEF RowsTrue
        <4>2. TrueAt(s, i)
          BY <2>8, <4>1 DEF TrueAt
        <4>3. Marks(t, s, i)
          BY <2>2, <2>7, <2>10, <2>11 DEF Marks
        <4> QED
          BY <3>1, <4>2, <4>3
      <3>2. CASE x # i
        <4>1. s.incident[x] = t.incident[x] /\ s.row[x] = t.row[x] /\ TrueAt(t, x)
          BY <2>2, <2>6, <2>7, <3>2 DEF AllTrue
        <4> QED
          BY <4>1 DEF TrueAt, RowsTrue, Told, Ended, Marks
      <3> QED
        BY <3>1, <3>2
    <2>13. MayQueue(s, i, 2)
      BY <2>2, <2>7 DEF MayQueue
    <2>14. /\ Fills(s, u)
           /\ \A c \in Channels : Told(s, c, i) => u.row[i][c][2].state # "absent"
      BY <2>7, <2>13, QueueFills
    <2> HIDE DEF u
    <2>15. AllTrue(u)
      BY <2>7, <2>12, <2>14, FillsTrue DEF AllTrue
    <2>16. ASSUME NEW x \in Incidents PROVE TellsAt(t, u, x)
      <3>1. \A c \in Channels : Told(t, c, x) =>
                /\ s.incident[x].state # t.incident[x].state =>
                       t.row[x][c][2].state = "absent" /\ u.row[x][c][2].state # "absent"
                /\ s.incident[x].noted # t.incident[x].noted =>
                       t.row[x][c][4].state = "absent" /\ u.row[x][c][4].state # "absent"
        BY <2>2, <2>7, <2>9, <2>11, <2>14
      <3> QED
        BY <2>7, <2>12, <2>14, <3>1, TellsMade
    <2> QED
      BY <2>1, <2>15, <2>16 DEF Tells
  <1> QED
    BY <1>1, <1>2

\* A reboot is noted on the silence it explains, or announced by itself.
LEMMA BootTells ==
    ASSUME NEW t \in Store, AllTrue(t), NEW r \in Incidents, Kind(r) = "reboot",
           NEW recent \in BOOLEAN, scenario \in Scenarios
    PROVE  AllTrue(Boot(t, r, recent)) /\ Tells(t, Boot(t, r, recent))
  <1>1. CASE Explains(t, r, recent) # {}
    <2> DEFINE i == CHOOSE x \in Explains(t, r, recent) : TRUE
               s == SetNoted(t, i)
               u == Refresh(s, i)
    <2>1. i \in Incidents /\ ~t.incident[i].noted
      BY <1>1 DEF Explains
    <2>2. Boot(t, r, recent) = u
      BY <1>1 DEF Boot, SetNoted
    <2> HIDE DEF i
    <2>3. /\ s \in Store /\ s.row = t.row /\ s.incident[i].noted = TRUE
          /\ s.incident[i].state = t.incident[i].state
          /\ \A x \in Incidents : x # i => s.incident[x] = t.incident[x]
      BY <2>1, PutNoted
    <2> HIDE DEF s
    <2>4. /\ \A c \in Channels : t.row[i][c][4].state = "absent"
          /\ \A x \in Incidents : s.incident[x].state = t.incident[x].state
      BY <2>1, <2>3 DEF AllTrue, TrueAt, RowsTrue
    <2>5. ASSUME NEW x \in Incidents PROVE TrueAt(s, x) /\ Marks(t, s, x)
      <3>1. TrueAt(t, x) /\ (Ended(s, x) <=> Ended(t, x)) /\ (t.incident[x].noted => s.incident[x].noted)
        BY <2>3, <2>4 DEF AllTrue, Ended
      <3>2. \A c \in Channels : RowsTrue(s, x, c)
        BY <2>3, <2>4, <3>1 DEF TrueAt, RowsTrue, Told
      <3> QED
        BY <2>3, <2>4, <3>1, <3>2 DEF TrueAt, Marks, Told
    <2>6. /\ Fills(s, u)
          /\ \A c \in Channels : Told(s, c, i) => u.row[i][c][4].state # "absent"
      BY <2>1, <2>3, RefreshFills
    <2> HIDE DEF u
    <2>7. AllTrue(u)
      BY <2>3, <2>5, <2>6, FillsTrue DEF AllTrue
    <2>8. ASSUME NEW x \in Incidents PROVE TellsAt(t, u, x)
      <3>1. \A c \in Channels : Told(t, c, x) =>
                /\ s.incident[x].state # t.incident[x].state =>
                       t.row[x][c][2].state = "absent" /\ u.row[x][c][2].state # "absent"
                /\ s.incident[x].noted # t.incident[x].noted =>
                       t.row[x][c][4].state = "absent" /\ u.row[x][c][4].state # "absent"
        BY <2>3, <2>4, <2>6 DEF Told
      <3> QED
        BY <2>3, <2>5, <2>6, <3>1, TellsMade
    <2> QED
      BY <2>2, <2>7, <2>8 DEF Tells
  <1>2. CASE Explains(t, r, recent) = {} /\ t.incident[r].state # "none"
    BY <1>2, TellsSelf DEF Boot
  <1>3. CASE Explains(t, r, recent) = {} /\ t.incident[r].state = "none"
    <2> DEFINE s == SetIncident(t, r, "recovered")
               u == Queue(s, r, 1)
    <2>1. Boot(t, r, recent) = u
      BY <1>3 DEF Boot, SetIncident
    <2>2. /\ s \in Store /\ AllTrue(s) /\ s.incident[r].state = "recovered"
          /\ \A x \in Incidents : Marks(t, s, x)
          /\ \A x \in Incidents, c \in Channels : Told(t, c, x) => s.incident[x] = t.incident[x]
      BY <1>3, BeginsTrue
    <2> HIDE DEF s
    <2>3. MayQueue(s, r, 1)
      BY <2>2 DEF MayQueue
    <2>4. Fills(s, u)
      BY <2>2, <2>3, QueueFills
    <2> HIDE DEF u
    <2>5. AllTrue(u)
      BY <2>2, <2>4, FillsTrue DEF AllTrue
    <2>6. \A x \in Incidents : TellsAt(t, u, x)
      BY <2>2, <2>4, TellsMade
    <2> QED
      BY <2>1, <2>5, <2>6 DEF Tells
  <1> QED
    BY <1>1, <1>2, <1>3

\* What is done for each of several incidents is done for all of them at once.
LEMMA EachTells ==
    ASSUME NEW t \in Store, AllTrue(t), NEW S \in SUBSET Incidents, NEW after, DOMAIN after = S,
           \A i \in S : AllTrue(after[i]) /\ Tells(t, after[i])
    PROVE  AllTrue(Each(t, after)) /\ Tells(t, Each(t, after))
  <1> DEFINE u == Each(t, after)
  <1>1. \A x \in Incidents :
            /\ u.incident[x] = IF x \in S THEN after[x].incident[x] ELSE t.incident[x]
            /\ u.row[x] = IF x \in S THEN after[x].row[x] ELSE t.row[x]
    BY DEF Each
  <1> HIDE DEF u
  <1>2. ASSUME NEW x \in Incidents PROVE TrueAt(u, x) /\ TellsAt(t, u, x)
    <2>1. CASE x \in S
      <3>1. TrueAt(after[x], x) /\ TellsAt(t, after[x], x)
        BY <2>1 DEF AllTrue, Tells
      <3>2. u.incident[x] = after[x].incident[x] /\ u.row[x] = after[x].row[x]
        BY <1>1, <2>1
      <3>3. TrueAt(u, x)
        BY <3>1, <3>2 DEF TrueAt, RowsTrue, Told, Ended
      <3>4. TellsAt(t, u, x)
        BY <3>1, <3>2 DEF TellsAt, RowsTell, Told, Ended
      <3> QED
        BY <3>3, <3>4
    <2>2. CASE x \notin S
      <3>1. u.incident[x] = t.incident[x] /\ u.row[x] = t.row[x] /\ TrueAt(t, x)
        BY <1>1, <2>2 DEF AllTrue
      <3> QED
        BY <3>1 DEF TrueAt, RowsTrue, TellsAt, RowsTell, Told, Ended
    <2> QED
      BY <2>1, <2>2
  <1> QED
    BY <1>2 DEF AllTrue, Tells, u

\* A complete snapshot closes what it no longer lists and announces what it lists.
LEMMA SnapshotTells ==
    ASSUME NEW t \in Store, AllTrue(t), NEW S \in SUBSET Incidents, NEW L \in SUBSET Incidents,
           \A i \in L : Kind(i) # "reboot", scenario \in Scenarios
    PROVE  LET u == OpenAll(CloseAll(t, S, "closed"), L) IN AllTrue(u) /\ Tells(t, u)
  <1> DEFINE s == CloseAll(t, S, "closed")
  <1>1. s \in Store
    <2>1. "closed" \in IncidentStates
      BY DEF IncidentStates
    <2>2. \A i \in S : Later(t, [j \in S |-> Close(t, j, "closed")][i])
      BY <2>1, CloseLater
    <2>3. Later(t, s)
      BY <2>2, EachLater DEF CloseAll
    <2> QED
      BY <2>3 DEF Later
  <1>2. AllTrue(s) /\ Tells(t, s)
    <2> DEFINE after == [j \in S |-> Close(t, j, "closed")]
    <2>1. \A i \in S : AllTrue(after[i]) /\ Tells(t, after[i])
      BY CloseTells DEF Over
    <2>2. s = Each(t, after) /\ DOMAIN after = S
      BY DEF CloseAll
    <2> HIDE DEF after, s
    <2> QED
      BY <2>1, <2>2, EachTells
  <1> HIDE DEF s
  <1>3. AllTrue(OpenAll(s, L)) /\ Tells(s, OpenAll(s, L))
    <2> DEFINE after == [j \in L |-> Lists(s, j)]
    <2>1. \A i \in L : AllTrue(after[i]) /\ Tells(s, after[i])
      BY <1>1, <1>2, OpenTells
    <2>2. OpenAll(s, L) = Each(s, after) /\ DOMAIN after = L
      BY DEF OpenAll
    <2> HIDE DEF after
    <2> QED
      BY <1>1, <1>2, <2>1, <2>2, EachTells
  <1> QED
    BY <1>2, <1>3, TellsTrans DEF s

\* What a snapshot tells of the game changes nothing that is announced.
LEMMA TimedTells ==
    ASSUME Tables \in Store, AllTrue(Tables), NEW shot, NEW t \in Timed(shot), scenario \in Scenarios
    PROVE  AllTrue(t) /\ Tells(Tables, t)
  <1>1. CASE t = Tables
    BY <1>1, TellsSelf
  <1>2. ASSUME NEW i \in Incidents, t = RefreshOn(Tables, i, "slack", 5)
        PROVE  AllTrue(t) /\ Tells(Tables, t)
    <2>1. Fills(Tables, t)
      BY <1>2, RefreshOnFills
    <2>2. AllTrue(t)
      BY <2>1, FillsTrue DEF AllTrue
    <2>3. \A x \in Incidents : Marks(Tables, Tables, x)
      BY DEF Marks
    <2>4. \A x \in Incidents : TellsAt(Tables, t, x)
      BY <2>1, <2>3, TellsMade
    <2> QED
      BY <2>2, <2>4 DEF Tells
  <1> QED
    BY <1>1, <1>2 DEF Timed, Carded

\* Rows that change their state only, and that keep what was told, still agree.
LEMMA RestatesTrue ==
    ASSUME NEW t, NEW u, u.incident = t.incident, NEW x \in Incidents, TrueAt(t, x),
           \A c \in Channels, v \in Versions :
               /\ u.row[x][c][v].status = t.row[x][c][v].status
               /\ u.row[x][c][v].state # "absent" => t.row[x][c][v].state # "absent",
           \A c \in Channels : Told(t, c, x) => Told(u, c, x)
    PROVE  TrueAt(u, x)
  <1>1. 1 \in Versions /\ 2 \in Versions /\ 4 \in Versions /\ 5 \in Versions
    BY DEF Versions
  <1>2. Ended(u, x) <=> Ended(t, x)
    BY DEF Ended
  <1>3. \A c \in Channels : RowsTrue(u, x, c)
    BY <1>1, <1>2 DEF TrueAt, RowsTrue
  <1> QED
    BY <1>3 DEF TrueAt

\* What is owed stays so when rows are inserted.
LEMMA FillsOwed ==
    ASSUME NEW t \in Store, NEW u, Fills(t, u), NEW x \in Incidents, NEW c \in Channels
    PROVE  /\ Owed(t, c, x) => Owed(u, c, x)
           /\ \A v \in {2, 4, 5} : t.row[x][c][v].state = "absent" /\ u.row[x][c][v].state # "absent" =>
                  Owed(u, c, x)
  <1>1. \A v \in {2, 4, 5} : Filled(t, u, x, c, v)
    BY DEF Fills, Versions
  <1> QED
    BY <1>1 DEF Owed, Filled, Alike, Waiting, GivenUp

\* finish(): a result that is not a delivery leaves an edit owed, and an alert that is delivered
\* for an incident that ended or was noted meanwhile gets its follow-up or its refresh.
Settles(t, u, i, c, v, result) ==
    /\ u.incident = t.incident /\ AllTrue(u)
    /\ \A x \in Incidents, d \in Channels :
           /\ Told(u, d, x) => Told(t, d, x) \/ (x = i /\ d = c /\ v = 1 /\ result = "delivered")
           /\ Owed(t, d, x) => Owed(u, d, x)
    /\ v \in {2, 4, 5} /\ result # "delivered" => Owed(u, c, i)
    /\ v = 1 /\ result = "delivered" /\ (Ended(t, i) \/ t.incident[i].noted) => Owed(u, c, i)
LEMMA FinishedSettles ==
    ASSUME NEW t \in Store, AllTrue(t), NEW i \in Incidents, NEW c \in Channels, NEW v \in Versions,
           t.row[i][c][v].state = "sending", scenario \in Scenarios,
           NEW result \in {"delivered", "retryable", "permanent", "unknown"}
    PROVE  Settles(t, Finished(t, i, c, v, result), i, c, v, result)
  <1> DEFINE state == Settled(t.row[i][c][v], result)
             s == SetState(t, i, c, v, state)
             told == IF v = 3 /\ c = "notion" /\ state = "delivered" /\ "slack" \in Channels
                        /\ s.row[i]["slack"][1].state = "delivered"
                     THEN Queue1(s, i, "slack", 3) ELSE s
             noted == IF v = 1 /\ state = "delivered" /\ t.incident[i].noted
                      THEN RefreshOn(told, i, c, 4) ELSE told
             u == Finished(t, i, c, v, result)
  <1>1. /\ state \in {"delivered", "retryable", "permanent", "manual_review"}
        /\ state = "delivered" <=> result = "delivered"
    BY SettledType, StoreCells
  <1>2. 1 \in Versions /\ 2 \in Versions /\ 3 \in Versions /\ 4 \in Versions /\ 5 \in Versions /\ v \in {1, 2, 3, 4, 5}
    BY DEF Versions
  <1>3. u = IF v # 1 THEN noted
            ELSE IF Kind(i) = "reboot"
            THEN IF state = "delivered" /\ c = "notion" THEN Queue1(noted, i, c, 3) ELSE noted
            ELSE IF t.incident[i].state = "open" THEN noted
            ELSE IF state = "retryable" THEN [noted EXCEPT !.row[i][c][1].state = "canceled"]
            ELSE IF state = "delivered" THEN Queue(noted, i, 2)
            ELSE noted
    BY DEF Finished, SetState
  <1> SUFFICES Settles(t, u, i, c, v, result)
    OBVIOUS
  <1> HIDE DEF u
  <1>5. /\ s \in Store /\ s.incident = t.incident
        /\ \A j \in Incidents, d \in Channels, w \in Versions :
               /\ ~(j = i /\ d = c /\ w = v) => s.row[j][d][w] = t.row[j][d][w]
               /\ s.row[j][d][w].status = t.row[j][d][w].status
        /\ s.row[i][c][v].state = state
    <2>1. state \in States
      BY <1>1 DEF States
    <2> HIDE DEF state
    <2> QED
      BY <2>1, PutState
  <1> HIDE DEF state, s
  <1>6. AllTrue(s)
    <2> SUFFICES ASSUME NEW x \in Incidents PROVE TrueAt(s, x)
      BY DEF AllTrue
    <2>1. /\ TrueAt(t, x)
          /\ \A d \in Channels, w \in Versions :
                 /\ s.row[x][d][w].status = t.row[x][d][w].status
                 /\ s.row[x][d][w].state # "absent" => t.row[x][d][w].state # "absent"
          /\ \A d \in Channels : Told(t, d, x) => Told(s, d, x)
      BY <1>2, <1>5 DEF AllTrue, Told
    <2> QED
      BY <1>5, <2>1, RestatesTrue
  <1>7. ASSUME NEW x \in Incidents, NEW d \in Channels
        PROVE  /\ Told(s, d, x) => Told(t, d, x) \/ (x = i /\ d = c /\ v = 1 /\ result = "delivered")
               /\ Owed(t, d, x) => Owed(s, d, x)
    <2>1. Told(s, d, x) => Told(t, d, x) \/ (x = i /\ d = c /\ v = 1 /\ result = "delivered")
      BY <1>1, <1>2, <1>5 DEF Told
    <2>2. ASSUME NEW w \in {2, 4, 5}, t.row[x][d][w].state \in Waiting \cup GivenUp
          PROVE  s.row[x][d][w].state \in Waiting \cup GivenUp
      BY <1>2, <1>5, <2>2 DEF Waiting, GivenUp
    <2> QED
      BY <2>1, <2>2 DEF Owed
  <1>8. v \in {2, 4, 5} /\ result # "delivered" => Owed(s, c, i)
    BY <1>1, <1>5 DEF Owed, Waiting, GivenUp
  <1>9. v = 1 => \A w \in {2, 4, 5} : s.row[i][c][w].state = "absent"
    <2>1. v = 1 => ~Told(t, c, i)
      BY DEF Told
    <2>2. RowsTrue(t, i, c)
      BY DEF AllTrue, TrueAt
    <2> QED
      BY <1>2, <1>5, <2>1, <2>2 DEF RowsTrue
  <1>10. ASSUME Fills(s, u),
                v = 1 /\ result = "delivered" /\ (Ended(t, i) \/ t.incident[i].noted) =>
                    u.row[i][c][2].state # "absent" \/ u.row[i][c][4].state # "absent"
         PROVE  Settles(t, u, i, c, v, result)
    <2>1. u.incident = t.incident /\ AllTrue(u)
      BY <1>5, <1>6, <1>10, FillsTrue DEF Fills, AllTrue
    <2>2. \A x \in Incidents, d \in Channels :
              /\ Told(u, d, x) => Told(t, d, x) \/ (x = i /\ d = c /\ v = 1 /\ result = "delivered")
              /\ Owed(t, d, x) => Owed(u, d, x)
      BY <1>5, <1>7, <1>10, FillsKeeps, FillsOwed
    <2>3. v \in {2, 4, 5} /\ result # "delivered" => Owed(u, c, i)
      BY <1>5, <1>8, <1>10, FillsOwed
    <2>4. v = 1 /\ result = "delivered" /\ (Ended(t, i) \/ t.incident[i].noted) => Owed(u, c, i)
      BY <1>5, <1>9, <1>10, FillsOwed
    <2> QED
      BY <2>1, <2>2, <2>3, <2>4 DEF Settles
  <1>11. Fills(s, told)
    <2>1. "slack" \in Channels => Ready(s, i, "slack", 3)
      BY DEF Ready
    <2> QED
      BY <1>2, <1>5, <2>1, Queue1Fills, FillsSelf
  <1>12. /\ Fills(s, noted)
         /\ v = 1 /\ result = "delivered" /\ t.incident[i].noted => noted.row[i][c][4].state # "absent"
    <2>1. CASE v = 1 /\ state = "delivered" /\ t.incident[i].noted
      <3>1. told \in Store /\ told.incident[i].noted
        BY <1>5, <1>11, <2>1 DEF Fills
      <3>2. told = s /\ Told(told, c, i)
        BY <1>5, <2>1 DEF Told
      <3>3. noted = RefreshOn(told, i, c, 4)
        BY <2>1
      <3> HIDE DEF told, noted
      <3>4. Fills(told, noted) /\ noted.row[i][c][4].state # "absent"
        BY <3>1, <3>2, <3>3, RefreshOnFills
      <3> QED
        BY <1>5, <1>11, <3>4, FillsTrans
    <2>2. CASE ~(v = 1 /\ state = "delivered" /\ t.incident[i].noted)
      BY <1>1, <1>11, <2>2
    <2> QED
      BY <2>1, <2>2
  <1>13. noted \in Store /\ noted.incident = t.incident /\ (Told(noted, c, i) <=> Told(s, c, i))
    BY <1>5, <1>12, FillsKeeps DEF Fills
  <1>14. v = 1 /\ state = "retryable" => noted = s
    OBVIOUS
  <1> HIDE DEF told, noted
  <1>15. v = 1 => t.incident[i].state # "none"
    BY <1>2 DEF AllTrue, TrueAt, RowsTrue
  <1>16. ASSUME NEW k, Fills(noted, k) PROVE Fills(s, k)
    BY <1>5, <1>12, <1>16, FillsTrans
  <1>17. CASE u = noted /\ ~(v = 1 /\ result = "delivered" /\ Ended(t, i))
    BY <1>10, <1>12, <1>17
  <1>18. CASE v = 1 /\ Kind(i) = "reboot" /\ u = Queue1(noted, i, c, 3)
    <2>1. Ready(noted, i, c, 3)
      BY DEF Ready
    <2>2. Fills(noted, u)
      BY <1>2, <1>13, <1>18, <2>1, Queue1Fills
    <2>3. Fills(s, u) /\ ~Ended(t, i)
      BY <1>16, <1>18, <2>2 DEF Ended
    <2>4. noted.row[i][c][4].state # "absent" => u.row[i][c][4].state # "absent"
      BY <1>2, <1>13, <2>2, FillsKeeps
    <2> QED
      BY <1>10, <1>12, <2>3, <2>4
  <1>19. CASE /\ v = 1 /\ state = "delivered" /\ Kind(i) # "reboot" /\ t.incident[i].state # "open"
              /\ u = Queue(noted, i, 2)
    <2>1. t.incident[i].state \in IncidentStates
      BY StoreCells DEF Shows
    <2>2. MayQueue(noted, i, 2)
      BY <1>13, <1>15, <1>19, <2>1 DEF MayQueue, IncidentStates, Over
    <2>3. Fills(noted, u) /\ (Told(noted, c, i) => u.row[i][c][2].state # "absent")
      BY <1>13, <1>19, <2>2, QueueFills
    <2>4. Told(noted, c, i)
      BY <1>5, <1>13, <1>19 DEF Told
    <2>5. Fills(s, u)
      BY <1>16, <2>3
    <2> QED
      BY <1>10, <2>3, <2>4, <2>5
  <1>20. CASE /\ v = 1 /\ state = "retryable" /\ u = [noted EXCEPT !.row[i][c][1].state = "canceled"]
    <2>1. u = [s EXCEPT !.row[i][c][1].state = "canceled"]
      BY <1>14, <1>20
    <2>2. v = 1 /\ result # "delivered"
      BY <1>1, <1>20
    <2>3. "canceled" \in States
      BY DEF States
    <2>4. u = SetState(s, i, c, 1, "canceled")
      BY <2>1 DEF SetState
    <2>5. /\ u.incident = t.incident
          /\ \A j \in Incidents, d \in Channels, w \in Versions :
                 /\ ~(j = i /\ d = c /\ w = 1) => u.row[j][d][w] = t.row[j][d][w]
                 /\ u.row[j][d][w].status = t.row[j][d][w].status
          /\ u.row[i][c][1].state = "canceled"
      <3> DEFINE k == SetState(s, i, c, 1, "canceled")
      <3>1. /\ k.incident = s.incident
            /\ \A j \in Incidents, d \in Channels, w \in Versions :
                   /\ ~(j = i /\ d = c /\ w = 1) => k.row[j][d][w] = s.row[j][d][w]
                   /\ k.row[j][d][w].status = s.row[j][d][w].status
            /\ k.row[i][c][1].state = "canceled"
        BY <1>2, <1>5, <2>3, PutState
      <3>2. u = k
        BY <2>4
      <3> HIDE DEF k
      <3> QED
        BY <1>2, <1>5, <2>2, <3>1, <3>2
    <2>6. AllTrue(u)
      <3> SUFFICES ASSUME NEW x \in Incidents PROVE TrueAt(u, x)
        BY DEF AllTrue
      <3>1. /\ TrueAt(t, x)
            /\ \A d \in Channels, w \in Versions :
                   /\ u.row[x][d][w].status = t.row[x][d][w].status
                   /\ u.row[x][d][w].state # "absent" => t.row[x][d][w].state # "absent"
            /\ \A d \in Channels : Told(t, d, x) => Told(u, d, x)
        BY <1>2, <2>5, <2>2 DEF AllTrue, Told
      <3> QED
        BY <2>5, <3>1, RestatesTrue
    <2>7. \A x \in Incidents, d \in Channels :
              /\ Told(u, d, x) => Told(t, d, x)
              /\ Owed(t, d, x) => Owed(u, d, x)
      BY <1>2, <2>5 DEF Told, Owed
    <2> QED
      BY <2>5, <2>6, <2>7, <2>2 DEF Settles
  <1>21. Ended(t, i) => Kind(i) # "reboot" /\ t.incident[i].state # "open"
    BY DEF Ended, Over
  <1> QED
    BY <1>1, <1>3, <1>17, <1>18, <1>19, <1>20, <1>21

-----------------------------------------------------------------------------
(* What people see follows the incidents: the invariant, by its parts. *)

CardTrue(x) == card # <<>> => card[1][x] = Shown(incident, x)
PageTrue(x) == page[x].shows.state = incident[x].state
Seen(c, x) == IF c = "slack" THEN CardTrue(x) ELSE PageTrue(x)

\* The worker has not written, for an incident of its row, what the row is for.
Unwritten ==
    \/ worker \in {"claimed", "edit", "post", "find", "session", "create", "patch"}
    \/ worker = "finish" /\ job.result # "delivered"
ToEdit(c, x) ==
    /\ worker # "wait" /\ job.incident = x /\ job.channel = c /\ job.version # 3
    /\ Unwritten
ToldTrue ==
    \A c \in Channels, x \in Incidents :
        Told(Tables, c, x) => Seen(c, x) \/ Owed(Tables, c, x) \/ ToEdit(c, x)

\* What changed since the alert in flight was queued will be told when the alert is finished.
Since(c, x) == Ended(Tables, x) \/ (c = "slack" /\ incident[x].noted)

\* The card that is about to be written shows how things stand, or an edit is owed.
ViewTrue ==
    worker \in {"edit", "post"} =>
        /\ \A x \in Incidents :
               Told(Tables, "slack", x) =>
                   job.view[x] = Shown(incident, x) \/ Owed(Tables, "slack", x)
        /\ job.version = 1 =>
               \/ job.view[job.incident] = Shown(incident, job.incident)
               \/ Since("slack", job.incident)

\* So does the page.
PayloadTrue ==
    worker \in {"find", "session", "create", "patch"} =>
        \/ job.shows.state = incident[job.incident].state
        \/ IF job.version = 1 THEN Since("notion", job.incident)
           ELSE Owed(Tables, "notion", job.incident)

\* What an alert in flight has written is true, or its incident changed since.
Written == worker = "reply" \/ (worker = "finish" /\ job.result = "delivered")
WrittenTrue ==
    Written /\ job.version = 1 =>
        Seen(job.channel, job.incident) \/ Since(job.channel, job.incident)

EvidenceOnly ==
    /\ worker \in {"look", "append"} => job.version = 3
    /\ worker = "patch" => job.version # 3

\* The server's snapshots list its own incidents.
ServersListed ==
    \A n \in DOMAIN backlog :
        backlog[n].type = "snapshot" => \A i \in backlog[n].listed : Kind(i) = "server"

Followed == ToldTrue /\ ViewTrue /\ PayloadTrue /\ WrittenTrue /\ EvidenceOnly
TrueInv == AllTrue(Tables) /\ Followed /\ ServersListed

\* Before and after a step the tables are read alike.
LEMMA Primes ==
    ASSUME scenario' = scenario
    PROVE  /\ Incidents' = Incidents /\ Channels' = Channels
           /\ AllTrue(Tables)' <=> AllTrue(Tables')
           /\ \A c, x : /\ Told(Tables, c, x)' <=> Told(Tables', c, x)
                        /\ Owed(Tables, c, x)' <=> Owed(Tables', c, x)
                        /\ Ended(Tables, x)' <=> Ended(Tables', x)
  <1>1. Incidents' = Incidents /\ Channels' = Channels
    BY Fixed
  <1>2. \A x : Kind(x)' = Kind(x)
    BY DEF Kind
  <1>3. \A c, x : Told(Tables, c, x)' <=> Told(Tables', c, x)
    BY DEF Told
  <1>4. \A c, x : Owed(Tables, c, x)' <=> Owed(Tables', c, x)
    BY DEF Owed, Waiting, GivenUp
  <1>5. \A x : Ended(Tables, x)' <=> Ended(Tables', x)
    BY <1>2 DEF Ended, Over
  <1>6. \A x, c : RowsTrue(Tables, x, c)' <=> RowsTrue(Tables', x, c)
    BY <1>3, <1>5 DEF RowsTrue, Over
  <1>7. \A x : TrueAt(Tables, x)' <=> TrueAt(Tables', x)
    BY <1>1, <1>2, <1>6 DEF TrueAt
  <1>8. AllTrue(Tables)' <=> AllTrue(Tables')
    BY <1>1, <1>7 DEF AllTrue
  <1> QED
    BY <1>1, <1>3, <1>4, <1>5, <1>8

\* A transaction of _process_loop that tells what it changes.
LEMMA TellsStep ==
    ASSUME RowInv, Tables \in Store, scenario \in Scenarios, AllTrue(Tables), Followed,
           Tables' \in Store, AllTrue(Tables'), Tells(Tables, Tables'),
           UNCHANGED <<scenario, worker, job, card, page>>
    PROVE  AllTrue(Tables)' /\ Followed'
  <1>1. Incidents' = Incidents /\ Channels' = Channels /\ AllTrue(Tables)'
    BY Primes
  <1>2. ASSUME NEW x \in Incidents, NEW c \in Channels
        PROVE  /\ Told(Tables, c, x)' <=> Told(Tables, c, x)
               /\ Owed(Tables, c, x) => Owed(Tables, c, x)'
               /\ Told(Tables, c, x) =>
                      \/ Owed(Tables, c, x)'
                      \/ incident'[x].state = incident[x].state /\ incident'[x].noted = incident[x].noted
    <2>1. RowsTell(Tables, Tables', x, c)
      BY DEF Tells, TellsAt
    <2>2. /\ Told(Tables', c, x) <=> Told(Tables, c, x)
          /\ Owed(Tables, c, x) => Owed(Tables', c, x)
          /\ Told(Tables, c, x) =>
                 \/ Owed(Tables', c, x)
                 \/ incident'[x].state = incident[x].state /\ incident'[x].noted = incident[x].noted
      BY <2>1 DEF RowsTell, Owed, Waiting, GivenUp, Tables
    <2> QED
      BY <2>2, Primes
  <1>3. ASSUME NEW x \in Incidents
        PROVE  /\ Ended(Tables, x) => Ended(Tables, x)'
               /\ incident[x].noted => incident'[x].noted
               /\ incident[x].state # "none" => incident'[x].state = incident[x].state \/ Ended(Tables, x)'
    <2>1. TellsAt(Tables, Tables', x)
      BY DEF Tells
    <2>2. /\ Ended(Tables, x) => Ended(Tables', x)
          /\ incident[x].noted => incident'[x].noted
          /\ incident[x].state # "none" => incident'[x].state = incident[x].state \/ Ended(Tables', x)
      BY <2>1 DEF TellsAt, Tables
    <2> QED
      BY <2>2, Primes
  <1>4. ASSUME NEW x \in Incidents, incident'[x].state = incident[x].state
        PROVE  PageTrue(x)' <=> PageTrue(x)
    BY <1>4 DEF PageTrue
  <1>5. ASSUME NEW x \in Incidents, incident'[x].state = incident[x].state,
               incident'[x].noted = incident[x].noted
        PROVE  /\ Shown(incident, x)' = Shown(incident, x)
               /\ \A c \in Channels : Seen(c, x)' <=> Seen(c, x)
    BY <1>4, <1>5 DEF Shown, Seen, CardTrue
  <1>6. \A x \in Incidents : incident[x].noted \in BOOLEAN /\ incident'[x].noted \in BOOLEAN
    BY StoreCells DEF Tables, Shows
  <1>7. ToldTrue'
    <2> SUFFICES ASSUME NEW c \in Channels, NEW x \in Incidents, Told(Tables, c, x)'
                 PROVE  (Seen(c, x) \/ Owed(Tables, c, x) \/ ToEdit(c, x))'
      BY <1>1 DEF ToldTrue
    <2>1. Told(Tables, c, x) /\ (Seen(c, x) \/ Owed(Tables, c, x) \/ ToEdit(c, x))
      BY <1>2 DEF Followed, ToldTrue
    <2>2. ToEdit(c, x) => ToEdit(c, x)'
      BY DEF ToEdit, Unwritten
    <2> QED
      BY <1>2, <1>5, <2>1, <2>2
  <1>8. worker # "wait" =>
            /\ job.incident \in Incidents /\ job.channel \in Channels /\ job.version \in Versions
            /\ row[job.incident][job.channel][job.version].state = "sending"
    BY JobPlace DEF RowInv, SendingHeld, Holds
  <1>9. worker # "wait" /\ job.version = 1 => incident[job.incident].state # "none"
    BY <1>8 DEF AllTrue, TrueAt, RowsTrue, Tables
  <1>10. ASSUME worker # "wait", job.version = 1
         PROVE  LET x == job.incident
                IN  /\ incident'[x].state = incident[x].state \/ Ended(Tables, x)'
                    /\ \/ incident'[x].state = incident[x].state /\ incident'[x].noted = incident[x].noted
                       \/ Since("slack", x)'
    BY <1>3, <1>6, <1>8, <1>9, <1>10 DEF Since
  <1>11. ViewTrue'
    <2> SUFFICES ASSUME worker \in {"edit", "post"} PROVE ViewTrue'
      BY DEF ViewTrue
    <2>1. "slack" \in Channels /\ job.incident \in Incidents
      BY <1>8 DEF RowInv, Placed
    <2>2. ASSUME NEW x \in Incidents, Told(Tables, "slack", x)'
          PROVE  (job.view[x] = Shown(incident, x) \/ Owed(Tables, "slack", x))'
      <3>1. /\ Told(Tables, "slack", x)
            /\ Owed(Tables, "slack", x) => Owed(Tables, "slack", x)'
            /\ \/ Owed(Tables, "slack", x)'
               \/ incident'[x].state = incident[x].state /\ incident'[x].noted = incident[x].noted
        BY <1>2, <2>1, <2>2
      <3>2. job.view[x] = Shown(incident, x) \/ Owed(Tables, "slack", x)
        BY <3>1 DEF Followed, ViewTrue
      <3> QED
        BY <1>5, <3>1, <3>2
    <2>3. ASSUME job.version = 1
          PROVE  (job.view[job.incident] = Shown(incident, job.incident) \/ Since("slack", job.incident))'
      <3>1. job.view[job.incident] = Shown(incident, job.incident) \/ Since("slack", job.incident)
        BY <2>3 DEF Followed, ViewTrue
      <3>2. Since("slack", job.incident) => Since("slack", job.incident)'
        BY <1>3, <2>1 DEF Since
      <3> QED
        BY <1>5, <1>10, <2>1, <2>3, <3>1, <3>2
    <2> QED
      BY <1>1, <2>2, <2>3 DEF ViewTrue
  <1>12. PayloadTrue'
    <2> SUFFICES ASSUME worker \in {"find", "session", "create", "patch"} PROVE PayloadTrue'
      BY DEF PayloadTrue
    <2> DEFINE x == job.incident
    <2>1. /\ "notion" \in Channels /\ x \in Incidents /\ job.channel = "notion"
          /\ job.version # 3 /\ job.version \in {1, 2, 3, 4, 5}
      BY <1>8, Domains DEF RowInv, Placed, Followed, EvidenceOnly
    <2>2. \/ job.shows.state = incident[x].state
          \/ IF job.version = 1 THEN Since("notion", x) ELSE Owed(Tables, "notion", x)
      BY DEF Followed, PayloadTrue
    <2>3. CASE job.version = 1
      BY <1>3, <1>10, <2>1, <2>2, <2>3 DEF PayloadTrue, Since
    <2>4. CASE job.version # 1
      <3>1. Told(Tables, "notion", x)
        BY <1>8, <2>1, <2>4 DEF AllTrue, TrueAt, RowsTrue, Tables
      <3> QED
        BY <1>2, <2>1, <2>2, <2>4, <3>1 DEF PayloadTrue
    <2> QED
      BY <2>3, <2>4
  <1>13. WrittenTrue'
    <2> SUFFICES ASSUME Written, job.version = 1 PROVE WrittenTrue'
      BY DEF WrittenTrue, Written
    <2> DEFINE x == job.incident
               c == job.channel
    <2>1. worker # "wait" /\ x \in Incidents /\ c \in Channels
      BY <1>8 DEF Written
    <2>2. Seen(c, x) \/ Since(c, x)
      BY DEF Followed, WrittenTrue
    <2>3. c \in {"slack", "notion"} /\ (Since(c, x) => Since(c, x)')
      BY <1>3, <2>1, Domains DEF Since
    <2>4. CASE c = "slack"
      BY <1>5, <1>10, <2>1, <2>2, <2>3, <2>4 DEF WrittenTrue
    <2>5. CASE c = "notion"
      <3>1. (Seen(c, x)' <=> PageTrue(x)') /\ (Seen(c, x) <=> PageTrue(x))
        BY <2>5 DEF Seen
      <3>2. incident'[x].state = incident[x].state \/ Since(c, x)'
        BY <1>10, <2>1 DEF Since
      <3> QED
        BY <1>4, <2>1, <2>2, <2>3, <3>1, <3>2 DEF WrittenTrue
    <2> QED
      BY <2>3, <2>4, <2>5
  <1>14. EvidenceOnly'
    BY DEF Followed, EvidenceOnly
  <1> QED
    BY <1>1, <1>7, <1>11, <1>12, <1>13, <1>14 DEF Followed

\* Incidents that stay are shown as before.
LEMMA SameShown ==
    ASSUME UNCHANGED <<scenario, incident>>
    PROVE  /\ Incidents' = Incidents /\ Channels' = Channels
           /\ \A x : /\ Shown(incident, x)' = Shown(incident, x)
                     /\ Ended(Tables, x)' <=> Ended(Tables, x)
                     /\ \A c : Since(c, x)' <=> Since(c, x)
           /\ card' = card => \A x : CardTrue(x)' <=> CardTrue(x)
           /\ page' = page => \A x : PageTrue(x)' <=> PageTrue(x)
  <1>1. Incidents' = Incidents /\ Channels' = Channels /\ \A x : Kind(x)' = Kind(x)
    BY Fixed DEF Kind
  <1>2. \A x : Shown(incident, x)' = Shown(incident, x)
    BY DEF Shown
  <1>3. \A x : Ended(Tables, x)' <=> Ended(Tables, x)
    BY <1>1 DEF Ended, Tables, Over
  <1>4. \A x, c : Since(c, x)' <=> Since(c, x)
    BY <1>3 DEF Since
  <1>5. card' = card => \A x : CardTrue(x)' <=> CardTrue(x)
    BY <1>2 DEF CardTrue
  <1>6. page' = page => \A x : PageTrue(x)' <=> PageTrue(x)
    BY DEF PageTrue
  <1> QED
    BY <1>1, <1>2, <1>3, <1>4, <1>5, <1>6

\* Rows that change their state only: nothing more is told and every incident agrees with them.
LEMMA StatesStep ==
    ASSUME AllTrue(Tables), UNCHANGED <<scenario, incident>>,
           \A x \in Incidents, c \in Channels, v \in Versions :
               /\ row'[x][c][v].status = row[x][c][v].status
               /\ row'[x][c][v].state # "absent" => row[x][c][v].state # "absent"
               /\ row'[x][c][v].state = "delivered" <=> row[x][c][v].state = "delivered"
    PROVE  /\ AllTrue(Tables)'
           /\ \A c \in Channels, x \in Incidents : Told(Tables, c, x)' <=> Told(Tables, c, x)
  <1>1. 1 \in Versions /\ Tables'.incident = Tables.incident
    BY DEF Versions, Tables
  <1>2. \A c \in Channels, x \in Incidents : Told(Tables', c, x) <=> Told(Tables, c, x)
    BY <1>1 DEF Told, Tables
  <1>3. ASSUME NEW x \in Incidents PROVE TrueAt(Tables', x)
    <2>1. TrueAt(Tables, x)
      BY DEF AllTrue
    <2>2. \A c \in Channels, v \in Versions :
              /\ Tables'.row[x][c][v].status = Tables.row[x][c][v].status
              /\ Tables'.row[x][c][v].state # "absent" => Tables.row[x][c][v].state # "absent"
      BY DEF Tables
    <2> QED
      BY <1>1, <1>2, <2>1, <2>2, RestatesTrue
  <1> QED
    BY <1>2, <1>3, Primes DEF AllTrue

\* The cells of the rows after one of them was replaced.
LEMMA PutCells ==
    ASSUME Tables \in Store, NEW i \in Incidents, NEW c \in Channels, NEW v \in Versions, NEW q,
           row' = Put(row, i, c, v, q)
    PROVE  \A j \in Incidents, d \in Channels, w \in Versions :
               row'[j][d][w] = IF j = i /\ d = c /\ w = v THEN q ELSE row[j][d][w]
  <1>1. row \in [Incidents -> [Channels -> [Versions -> Rows]]]
    BY StoreParts DEF Tables
  <1> QED
    BY <1>1 DEF Put

\* A claim takes the row that was owed, and holds it.
LEMMA ClaimTrue ==
    ASSUME RowInv, Tables \in Store, scenario \in Scenarios, AllTrue(Tables), Followed,
           NEW i \in Incidents, NEW c \in Channels, NEW v \in Versions, Claim(i, c, v),
           UNCHANGED <<scenario, card, page>>
    PROVE  AllTrue(Tables)' /\ Followed'
  <1> DEFINE q == [row[i][c][v] EXCEPT !.state = "sending", !.attempts = @ + 1]
  <1>1. /\ worker = "wait" /\ worker' = "claimed" /\ row[i][c][v].state \in Waiting
        /\ job' = [incident |-> i, channel |-> c, version |-> v] /\ incident' = incident
    BY DEF Claim, Eligible
  <1>2. row[i][c][v] \in Rows /\ row \in [Incidents -> [Channels -> [Versions -> Rows]]]
    BY StoreParts DEF Tables
  <1>3. row' = Put(row, i, c, v, q)
    BY <1>2 DEF Claim, Put
  <1>4. q.state = "sending" /\ q.status = row[i][c][v].status
    BY <1>2 DEF Rows
  <1> HIDE DEF q
  <1>5. \A j \in Incidents, d \in Channels, w \in Versions :
            row'[j][d][w] = IF j = i /\ d = c /\ w = v THEN q ELSE row[j][d][w]
    BY <1>3, PutCells
  <1>6. /\ AllTrue(Tables)'
        /\ \A d \in Channels, x \in Incidents : Told(Tables, d, x)' <=> Told(Tables, d, x)
    BY <1>1, <1>4, <1>5, StatesStep DEF Waiting
  <1>7. /\ Incidents' = Incidents /\ Channels' = Channels
        /\ \A d, x : Seen(d, x)' <=> Seen(d, x)
    BY <1>1, SameShown DEF Seen
  <1>8. ASSUME NEW d \in Channels, NEW x \in Incidents, Owed(Tables, d, x)
        PROVE  Owed(Tables, d, x)' \/ ToEdit(d, x)'
    <2>1. PICK w \in {2, 4, 5} : row[x][d][w].state \in Waiting \cup GivenUp
      BY <1>8 DEF Owed, Tables
    <2>2. CASE x = i /\ d = c /\ w = v
      BY <1>1, <2>2 DEF ToEdit, Unwritten
    <2>3. CASE ~(x = i /\ d = c /\ w = v)
      <3>1. row'[x][d][w] = row[x][d][w]
        BY <1>5, <2>3 DEF Versions
      <3> QED
        BY <2>1, <3>1 DEF Owed, Tables, Waiting, GivenUp
    <2> QED
      BY <2>2, <2>3
  <1>9. ToldTrue'
    <2>1. \A d, x : ~ToEdit(d, x)
      BY <1>1 DEF ToEdit
    <2> QED
      BY <1>6, <1>7, <1>8, <2>1 DEF ToldTrue, Followed
  <1>10. ViewTrue' /\ PayloadTrue' /\ WrittenTrue' /\ EvidenceOnly'
    BY <1>1 DEF ViewTrue, PayloadTrue, WrittenTrue, Written, EvidenceOnly
  <1> QED
    BY <1>6, <1>9, <1>10 DEF Followed

\* A row that the worker gives back waits again, or for a person: an edit it held is owed.
LEMMA GiveBackTrue ==
    ASSUME RowInv, Tables \in Store, scenario \in Scenarios, AllTrue(Tables), Followed,
           worker' = "wait", UNCHANGED <<scenario, incident, page>>, card' = card \/ card' = <<>>,
           \A j \in Incidents, d \in Channels, w \in Versions :
               IF row[j][d][w].state = "sending"
               THEN /\ row'[j][d][w].state \in Waiting \cup GivenUp
                    /\ row'[j][d][w].status = row[j][d][w].status
               ELSE row'[j][d][w] = row[j][d][w]
    PROVE  AllTrue(Tables)' /\ Followed'
  <1>1. \A j \in Incidents, d \in Channels, w \in Versions :
            /\ row'[j][d][w].status = row[j][d][w].status
            /\ row'[j][d][w].state # "absent" => row[j][d][w].state # "absent"
            /\ row'[j][d][w].state = "delivered" <=> row[j][d][w].state = "delivered"
            /\ row[j][d][w].state \in Waiting \cup GivenUp \cup {"sending"} =>
                   row'[j][d][w].state \in Waiting \cup GivenUp
    <2> TAKE j \in Incidents, d \in Channels, w \in Versions
    <2>1. CASE row[j][d][w].state = "sending"
      BY <2>1 DEF Waiting, GivenUp
    <2>2. CASE row[j][d][w].state # "sending"
      <3>1. row'[j][d][w] = row[j][d][w]
        BY <2>2
      <3> QED
        BY <2>2, <3>1
    <2> QED
      BY <2>1, <2>2
  <1>2. /\ AllTrue(Tables)'
        /\ \A d \in Channels, x \in Incidents : Told(Tables, d, x)' <=> Told(Tables, d, x)
    BY <1>1, StatesStep
  <1>3. /\ Incidents' = Incidents /\ Channels' = Channels
        /\ \A d, x : Seen(d, x) => Seen(d, x)'
    <2>1. card' = <<>> => \A x : CardTrue(x)'
      BY DEF CardTrue
    <2> QED
      BY <2>1, SameShown DEF Seen
  <1>4. ASSUME NEW d \in Channels, NEW x \in Incidents
        PROVE  /\ Owed(Tables, d, x) => Owed(Tables, d, x)'
               /\ ToEdit(d, x) /\ Told(Tables, d, x) => Owed(Tables, d, x)'
    <2>1. ASSUME NEW w \in {2, 4, 5}, row'[x][d][w].state \in Waiting \cup GivenUp
          PROVE  Owed(Tables, d, x)'
      <3>1. Tables'.row[x][d][w].state \in Waiting \cup GivenUp
        BY <2>1 DEF Tables
      <3>2. Waiting' = Waiting /\ GivenUp' = GivenUp
        BY DEF Waiting, GivenUp
      <3> QED
        BY <3>1, <3>2 DEF Owed
    <2>2. Owed(Tables, d, x) => Owed(Tables, d, x)'
      <3>1. ASSUME NEW w \in {2, 4, 5}, row[x][d][w].state \in Waiting \cup GivenUp
            PROVE  Owed(Tables, d, x)'
        <4>1. w \in Versions
          BY DEF Versions
        <4> QED
          BY <1>1, <2>1, <3>1, <4>1
      <3> QED
        BY <3>1 DEF Owed, Tables
    <2>3. ASSUME ToEdit(d, x), Told(Tables, d, x) PROVE Owed(Tables, d, x)'
      <3>1. job.version \in Versions /\ row[x][d][job.version].state = "sending"
        BY <2>3, JobPlace DEF RowInv, SendingHeld, Holds, ToEdit
      <3>2. job.version \in {2, 4, 5}
        BY <2>3, <3>1 DEF ToEdit, Told, Tables, Versions
      <3> QED
        BY <1>1, <2>1, <3>1, <3>2
    <2> QED
      BY <2>2, <2>3
  <1>5. ToldTrue'
    BY <1>2, <1>3, <1>4 DEF ToldTrue, Followed
  <1>6. ViewTrue' /\ PayloadTrue' /\ WrittenTrue' /\ EvidenceOnly'
    BY DEF ViewTrue, PayloadTrue, WrittenTrue, Written, EvidenceOnly
  <1> QED
    BY <1>2, <1>5, <1>6 DEF Followed

\* A step that leaves the tables alone.
LEMMA SameTables ==
    ASSUME UNCHANGED <<scenario, incident, row>>
    PROVE  /\ Incidents' = Incidents /\ Channels' = Channels
           /\ AllTrue(Tables)' <=> AllTrue(Tables)
           /\ \A c, x : /\ Told(Tables, c, x)' <=> Told(Tables, c, x)
                        /\ Owed(Tables, c, x)' <=> Owed(Tables, c, x)
                        /\ Since(c, x)' <=> Since(c, x)
           /\ \A x : Shown(incident, x)' = Shown(incident, x)
  <1>1. Tables' = Tables
    BY DEF Tables
  <1> QED
    BY <1>1, Primes, SameShown

\* A stale alert of a reboot is dropped.
LEMMA DropTrue ==
    ASSUME Tables \in Store, AllTrue(Tables), Followed, NEW i \in Incidents, DropStale(i),
           UNCHANGED <<scenario, card, page>>
    PROVE  AllTrue(Tables)' /\ Followed'
  <1>1. /\ worker = "wait" /\ UNCHANGED <<incident, link, worker, job>>
        /\ row' = [row EXCEPT ![i] = Canceled(row[i])]
    BY DEF DropStale
  <1>2. \A j \in Incidents, c \in Channels, v \in Versions :
            \/ row'[j][c][v] = row[j][c][v]
            \/ /\ v = 1 /\ row[j][c][v].state \in Waiting /\ row'[j][c][v].state = "canceled"
               /\ row'[j][c][v].status = row[j][c][v].status
    BY <1>1, CanceledCells
  <1>3. \A j \in Incidents, c \in Channels, v \in Versions :
            /\ row'[j][c][v].status = row[j][c][v].status
            /\ row'[j][c][v].state # "absent" => row[j][c][v].state # "absent"
            /\ row'[j][c][v].state = "delivered" <=> row[j][c][v].state = "delivered"
            /\ v # 1 => row'[j][c][v] = row[j][c][v]
    BY <1>2 DEF Waiting
  <1>4. /\ AllTrue(Tables)'
        /\ \A c \in Channels, x \in Incidents : Told(Tables, c, x)' <=> Told(Tables, c, x)
    BY <1>1, <1>3, StatesStep
  <1>5. \A c \in Channels, x \in Incidents : Owed(Tables, c, x) => Owed(Tables, c, x)'
    BY <1>3 DEF Owed, Tables, Versions, Waiting, GivenUp
  <1>6. Incidents' = Incidents /\ Channels' = Channels /\ \A c, x : Seen(c, x)' <=> Seen(c, x)
    BY <1>1, SameShown DEF Seen
  <1>7. ToldTrue'
    <2>1. \A c, x : ~ToEdit(c, x)
      BY <1>1 DEF ToEdit
    <2> QED
      BY <1>4, <1>5, <1>6, <2>1 DEF ToldTrue, Followed
  <1>8. ViewTrue' /\ PayloadTrue' /\ WrittenTrue' /\ EvidenceOnly'
    BY <1>1 DEF ViewTrue, PayloadTrue, WrittenTrue, Written, EvidenceOnly
  <1> QED
    BY <1>4, <1>7, <1>8 DEF Followed

\* The payload that is built is true, or its incident changed since it was queued.
LEMMA BuildTrue ==
    ASSUME RowInv, Tables \in Store, scenario \in Scenarios, AllTrue(Tables), Followed, Build,
           UNCHANGED <<scenario, card, page>>
    PROVE  AllTrue(Tables)' /\ Followed'
  <1> DEFINE i == job.incident
             c == job.channel
             v == job.version
  <1>1. /\ worker = "claimed" /\ worker' = NextPlace(c, v) /\ UNCHANGED <<incident, row, link>>
        /\ job'.incident = i /\ job'.channel = c /\ job'.version = v
        /\ job'.shows = IF v >= 4 THEN Shown(incident, i)
                        ELSE [state |-> row[i][c][v].status, noted |-> row[i][c][v].noted]
        /\ c = "slack" => job'.view = SessionView(i)
    BY DEF Build, store, NextPlace
  <1>2. /\ i \in Incidents /\ c \in Channels /\ c \in {"slack", "notion"} /\ v \in {1, 2, 3, 4, 5}
        /\ row[i][c][v].state = "sending"
    BY <1>1, JobPlace, Domains DEF RowInv, SendingHeld, Holds
  <1>3. /\ Incidents' = Incidents /\ Channels' = Channels /\ AllTrue(Tables)'
        /\ \A d, x : /\ Told(Tables, d, x)' <=> Told(Tables, d, x)
                     /\ Owed(Tables, d, x)' <=> Owed(Tables, d, x)
                     /\ Since(d, x)' <=> Since(d, x)
                     /\ Shown(incident, x)' = Shown(incident, x)
                     /\ Seen(d, x)' <=> Seen(d, x)
    BY <1>1, SameTables, SameShown DEF Seen
  <1>4. ToldTrue'
    <2>1. \A d, x : ToEdit(d, x) => ToEdit(d, x)'
      BY <1>1, <1>2 DEF ToEdit, Unwritten, NextPlace
    <2> QED
      BY <1>3, <2>1 DEF ToldTrue, Followed
  <1>5. ViewTrue'
    <2> SUFFICES ASSUME worker' \in {"edit", "post"} PROVE ViewTrue'
      BY DEF ViewTrue
    <2>1. job'.view = SessionView(i)
      BY <1>1, <1>2 DEF NextPlace
    <2>2. \A x \in Incidents : x = i \/ Told(Tables, "slack", x) => job'.view[x] = Shown(incident, x)
      BY <2>1 DEF SessionView, Told, Tables
    <2> QED
      BY <1>1, <1>2, <1>3, <2>2 DEF ViewTrue
  <1>6. PayloadTrue'
    <2> SUFFICES ASSUME worker' \in {"find", "session", "create", "patch"} PROVE PayloadTrue'
      BY DEF PayloadTrue
    <2>1. c = "notion" /\ v \in {1, 2, 4, 5}
      BY <1>1, <1>2 DEF NextPlace
    <2>2. RowsTrue(Tables, i, "notion")
      BY <1>2, <2>1 DEF AllTrue, TrueAt
    <2>3. CASE v = 1
      <3>1. row[i][c][1].status = incident[i].state \/ Ended(Tables, i)
        BY <1>2, <2>1, <2>2, <2>3 DEF RowsTrue, Tables
      <3>2. job'.shows.state = incident'[i].state \/ Since("notion", i)'
        BY <1>1, <1>3, <2>3, <3>1 DEF Since
      <3> QED
        BY <1>1, <2>3, <3>2 DEF PayloadTrue
    <2>4. CASE v = 2
      <3>1. row[i][c][2].status = incident[i].state
        BY <1>2, <2>1, <2>2, <2>4 DEF RowsTrue, Tables
      <3> QED
        BY <1>1, <2>4, <3>1 DEF PayloadTrue
    <2>5. CASE v \in {4, 5}
      <3>1. v >= 4
        BY <2>5
      <3> QED
        BY <1>1, <2>5, <3>1 DEF PayloadTrue, Shown
    <2> QED
      BY <2>1, <2>3, <2>4, <2>5
  <1>7. WrittenTrue' /\ EvidenceOnly'
    BY <1>1, <1>2 DEF WrittenTrue, Written, EvidenceOnly, NextPlace
  <1> QED
    BY <1>3, <1>4, <1>5, <1>6, <1>7 DEF Followed

\* The worker puts its row back.
LEMMA PutBackTrue ==
    ASSUME RowInv, Tables \in Store, scenario \in Scenarios, AllTrue(Tables), Followed,
           worker = "claimed", PutBack, UNCHANGED <<scenario, card, page>>
    PROVE  AllTrue(Tables)' /\ Followed'
  <1> DEFINE i == job.incident
             c == job.channel
             v == job.version
             q == [row[i][c][v] EXCEPT !.state = "pending", !.attempts = @ - 1]
  <1>1. /\ worker' = "wait" /\ incident' = incident
        /\ i \in Incidents /\ c \in Channels /\ v \in Versions
        /\ \A j \in Incidents, d \in Channels, w \in Versions :
               row[j][d][w].state = "sending" <=> j = i /\ d = c /\ w = v
    BY JobPlace DEF PutBack, RowInv, SendingHeld, Holds
  <1>2. row[i][c][v] \in Rows /\ row \in [Incidents -> [Channels -> [Versions -> Rows]]]
    BY <1>1, StoreParts DEF Tables
  <1>3. q.state = "pending" /\ q.status = row[i][c][v].status
    BY <1>2 DEF Rows
  <1>4. row' = Put(row, i, c, v, q)
    <2>1. row' = [row EXCEPT ![i][c][v].state = "pending", ![i][c][v].attempts = @ - 1]
      BY DEF PutBack
    <2>2. i \in Incidents /\ c \in Channels /\ v \in Versions
      BY <1>1
    <2> HIDE DEF i, c, v
    <2> QED
      BY <2>1, <2>2, <1>2 DEF Put
  <1> HIDE DEF q, i, c, v
  <1>5. \A j \in Incidents, d \in Channels, w \in Versions :
            row'[j][d][w] = IF j = i /\ d = c /\ w = v THEN q ELSE row[j][d][w]
    BY <1>1, <1>4, PutCells
  <1>6. \A j \in Incidents, d \in Channels, w \in Versions :
            IF row[j][d][w].state = "sending"
            THEN /\ row'[j][d][w].state \in Waiting \cup GivenUp
                 /\ row'[j][d][w].status = row[j][d][w].status
            ELSE row'[j][d][w] = row[j][d][w]
    BY <1>1, <1>3, <1>5 DEF Waiting
  <1> QED
    BY <1>1, <1>6, GiveBackTrue

\* Someone deletes the card.
LEMMA DeleteTrue ==
    ASSUME AllTrue(Tables), Followed, DeleteCard
    PROVE  AllTrue(Tables)' /\ Followed'
  <1>1. UNCHANGED <<scenario, incident, row, worker, job, page>> /\ card' = <<>>
    BY DEF DeleteCard, store
  <1>2. /\ Incidents' = Incidents /\ Channels' = Channels /\ AllTrue(Tables)'
        /\ \A d, x : /\ Told(Tables, d, x)' <=> Told(Tables, d, x)
                     /\ Owed(Tables, d, x)' <=> Owed(Tables, d, x)
                     /\ Since(d, x)' <=> Since(d, x)
                     /\ Shown(incident, x)' = Shown(incident, x)
                     /\ PageTrue(x)' <=> PageTrue(x)
    BY <1>1, SameTables, SameShown
  <1>3. \A d, x : Seen(d, x) => Seen(d, x)'
    BY <1>1, <1>2 DEF Seen, CardTrue
  <1>4. \A d, x : ToEdit(d, x) => ToEdit(d, x)'
    BY <1>1 DEF ToEdit, Unwritten
  <1>5. ToldTrue'
    BY <1>2, <1>3, <1>4 DEF ToldTrue, Followed
  <1>6. ViewTrue'
    BY <1>1, <1>2 DEF ViewTrue, Followed
  <1>7. PayloadTrue'
    BY <1>1, <1>2 DEF PayloadTrue, Followed
  <1>8. WrittenTrue' /\ EvidenceOnly'
    BY <1>1, <1>2, <1>3 DEF WrittenTrue, Written, EvidenceOnly, Followed
  <1> QED
    BY <1>2, <1>5, <1>6, <1>7, <1>8 DEF Followed

\* A call is answered: the tables stay, and the worker keeps its row.
CallTrue ==
    /\ SendPre /\ AllTrue(Tables) /\ Followed
    /\ worker \in Calling /\ worker' \in Calling \cup {"finish"} /\ SamePlace

\* What every call leaves alone.
LEMMA CallFrame ==
    ASSUME CallTrue
    PROVE  /\ Incidents' = Incidents /\ Channels' = Channels /\ AllTrue(Tables)'
           /\ \A d, x : /\ Told(Tables, d, x)' <=> Told(Tables, d, x)
                        /\ Owed(Tables, d, x)' <=> Owed(Tables, d, x)
                        /\ Since(d, x)' <=> Since(d, x)
                        /\ Shown(incident, x)' = Shown(incident, x)
                        /\ ToEdit(d, x) /\ Unwritten' => ToEdit(d, x)'
           /\ worker' \in {"reply", "finish"} => ViewTrue' /\ PayloadTrue' /\ EvidenceOnly'
  <1>1. worker # "wait" /\ worker' # "wait"
    BY DEF CallTrue, Calling
  <1>2. UNCHANGED <<scenario, incident, row>> /\ AllTrue(Tables)
    BY DEF CallTrue, SendPre
  <1>3. /\ Incidents' = Incidents /\ Channels' = Channels /\ AllTrue(Tables)'
        /\ \A d, x : /\ Told(Tables, d, x)' <=> Told(Tables, d, x)
                     /\ Owed(Tables, d, x)' <=> Owed(Tables, d, x)
                     /\ Since(d, x)' <=> Since(d, x)
                     /\ Shown(incident, x)' = Shown(incident, x)
    BY <1>2, SameTables
  <1>4. \A d, x : ToEdit(d, x) /\ Unwritten' => ToEdit(d, x)'
    BY <1>1 DEF ToEdit, CallTrue, SamePlace
  <1>5. worker' \in {"reply", "finish"} => ViewTrue' /\ PayloadTrue' /\ EvidenceOnly'
    BY DEF ViewTrue, PayloadTrue, EvidenceOnly
  <1> QED
    BY <1>3, <1>4, <1>5

\* What the alert in flight has written, for its row.
LEMMA WrittenMade ==
    ASSUME SamePlace, NEW d, NEW x, d = job.channel, x = job.incident,
           job.version = 1 /\ Written' => (Seen(d, x) \/ Since(d, x))'
    PROVE  WrittenTrue'
  <1>1. job'.incident = x /\ job'.channel = d /\ job'.version = job.version
    BY DEF SamePlace
  <1> QED
    BY <1>1 DEF WrittenTrue, Seen, CardTrue, PageTrue, Since, Ended

\* A call that changes nothing of what the card and the pages show.
LEMMA NothingWritten ==
    ASSUME CallTrue, card' = card, \A x \in Incidents : page'[x].shows = page[x].shows,
           Unwritten => Unwritten', Written' /\ job.version = 1 => Written
    PROVE  AllTrue(Tables)' /\ ToldTrue' /\ WrittenTrue'
  <1>1. \A d : \A x \in Incidents : Seen(d, x)' <=> Seen(d, x)
    BY CallFrame DEF Seen, CardTrue, PageTrue, CallTrue, SendPre
  <1>2. ToldTrue'
    <2>1. \A d, x : ToEdit(d, x) => Unwritten
      BY DEF ToEdit
    <2> QED
      BY <1>1, <2>1, CallFrame DEF CallTrue, Followed, ToldTrue
  <1>3. WrittenTrue'
    <2>1. ASSUME NEW d, NEW x \in Incidents, d = job.channel, x = job.incident
          PROVE  WrittenTrue'
      <3>1. job.version = 1 /\ Written' => Seen(d, x) \/ Since(d, x)
        BY <2>1 DEF CallTrue, Followed, WrittenTrue
      <3>2. job.version = 1 /\ Written' => (Seen(d, x) \/ Since(d, x))'
        BY <1>1, <3>1, CallFrame
      <3> QED
        BY <2>1, <3>2, WrittenMade DEF CallTrue
    <2> QED
      BY <2>1, CallPlace DEF CallTrue
  <1> QED
    BY <1>2, <1>3, CallFrame

\* The card is written: it shows how things stand, or an edit is owed.
LEMMA CardIsWritten ==
    ASSUME CallTrue, worker \in {"edit", "post"}, card' = <<job.view>>, page' = page,
           worker' \in {"reply", "finish"}
    PROVE  AllTrue(Tables)' /\ Followed'
  <1>1. job.channel = "slack" /\ job.incident \in Incidents
    BY CallPlace DEF CallTrue, SendPre, RowInv, Placed
  <1>2. \A x \in Incidents : job.view[x] = Shown(incident, x) => Seen("slack", x)'
    BY CallFrame DEF Seen, CardTrue
  <1>3. \A d : \A x \in Incidents : d # "slack" => (Seen(d, x)' <=> Seen(d, x))
    BY SameShown DEF Seen, CallTrue, SendPre
  <1>4. ToldTrue'
    <2> SUFFICES ASSUME NEW d \in Channels, NEW x \in Incidents, Told(Tables, d, x)
                 PROVE  (Seen(d, x) \/ Owed(Tables, d, x) \/ ToEdit(d, x))'
      BY CallFrame DEF ToldTrue
    <2>1. CASE d = "slack"
      <3>1. job.view[x] = Shown(incident, x) \/ Owed(Tables, "slack", x)
        BY <2>1 DEF CallTrue, Followed, ViewTrue
      <3> QED
        BY <1>2, <2>1, <3>1, CallFrame
    <2>2. CASE d # "slack"
      <3>1. Seen(d, x) \/ Owed(Tables, d, x)
        BY <1>1, <2>2 DEF CallTrue, Followed, ToldTrue, ToEdit
      <3> QED
        BY <1>3, <2>2, <3>1, CallFrame
    <2> QED
      BY <2>1, <2>2
  <1>5. WrittenTrue'
    <2>1. ASSUME NEW d, NEW x \in Incidents, d = job.channel, x = job.incident
          PROVE  WrittenTrue'
      <3>1. job.version = 1 => job.view[x] = Shown(incident, x) \/ Since(d, x)
        BY <1>1, <2>1 DEF CallTrue, Followed, ViewTrue
      <3>2. job.version = 1 => (Seen(d, x) \/ Since(d, x))'
        BY <1>1, <1>2, <2>1, <3>1, CallFrame
      <3> QED
        BY <2>1, <3>2, WrittenMade DEF CallTrue
    <2> QED
      BY <1>1, <2>1
  <1> QED
    BY <1>4, <1>5, CallFrame DEF Followed

\* The page is written: so does it.
LEMMA PageIsWritten ==
    ASSUME CallTrue, worker \in {"create", "patch"}, card' = card, worker' = "finish",
           \A x \in Incidents :
               page'[x].shows = IF x = job.incident THEN job.shows ELSE page[x].shows
    PROVE  AllTrue(Tables)' /\ Followed'
  <1>1. /\ job.channel = "notion" /\ job.incident \in Incidents /\ job.channel \in Channels
        /\ row[job.incident][job.channel][job.version].state = "sending"
    BY CallPlace DEF CallTrue, SendPre, RowInv, Placed
  <1>2. \A x \in Incidents, d \in Channels :
            ~(d = "notion" /\ x = job.incident) => (Seen(d, x) => Seen(d, x)')
    <2>1. Channels \subseteq {"slack", "notion"}
      BY Domains DEF CallTrue, SendPre
    <2>2. \A x \in Incidents : CardTrue(x) => CardTrue(x)'
      BY CallFrame DEF CardTrue
    <2>3. \A x \in Incidents : x # job.incident => (PageTrue(x) => PageTrue(x)')
      BY DEF PageTrue, CallTrue, SendPre
    <2> QED
      BY <2>1, <2>2, <2>3 DEF Seen
  <1>3. job.shows.state = incident[job.incident].state =>
            \A x \in Incidents : x = job.incident => Seen("notion", x)'
    BY DEF Seen, PageTrue, CallTrue, SendPre
  <1>4. \/ job.shows.state = incident[job.incident].state
        \/ IF job.version = 1 THEN Since("notion", job.incident)
           ELSE Owed(Tables, "notion", job.incident)
    BY DEF CallTrue, Followed, PayloadTrue
  <1>5. ToldTrue'
    <2> SUFFICES ASSUME NEW d \in Channels, NEW x \in Incidents, Told(Tables, d, x)
                 PROVE  (Seen(d, x) \/ Owed(Tables, d, x) \/ ToEdit(d, x))'
      BY CallFrame DEF ToldTrue
    <2>1. CASE d = "notion" /\ x = job.incident
      <3>1. job.version # 1
        BY <1>1, <2>1 DEF Told, Tables
      <3> QED
        BY <1>3, <1>4, <2>1, <3>1, CallFrame
    <2>2. CASE ~(d = "notion" /\ x = job.incident)
      <3>1. Seen(d, x) \/ Owed(Tables, d, x)
        BY <1>1, <2>2 DEF CallTrue, Followed, ToldTrue, ToEdit
      <3> QED
        BY <1>2, <2>2, <3>1, CallFrame
    <2> QED
      BY <2>1, <2>2
  <1>6. WrittenTrue'
    <2>1. ASSUME NEW d, NEW x \in Incidents, d = job.channel, x = job.incident
          PROVE  WrittenTrue'
      <3>1. job.version = 1 => (Seen(d, x) \/ Since(d, x))'
        BY <1>1, <1>3, <1>4, <2>1, CallFrame
      <3> QED
        BY <2>1, <3>1, WrittenMade DEF CallTrue
    <2> QED
      BY <1>1, <2>1
  <1> QED
    BY <1>5, <1>6, CallFrame DEF Followed

\* A call whose answer ends the delivery, and that wrote nothing of what is told.
LEMMA NothingDone ==
    ASSUME SendPre, AllTrue(Tables), Followed, worker \in Calling,
           NEW answer \in Answers, NEW safe \in BOOLEAN, NEW parent \in BOOLEAN,
           Result(Classify(answer, safe), parent), card' = card,
           \A x \in Incidents : page'[x].shows = page[x].shows,
           answer = "ok" => worker \in {"reply", "look", "append"}
    PROVE  AllTrue(Tables)' /\ Followed'
  <1>1. /\ worker' = "finish" /\ SamePlace
        /\ job'.result = "delivered" <=> answer = "ok"
    <2> DEFINE y == Classify(answer, safe)
    <2>1. y \in {"delivered", "retryable", "permanent", "unknown"} /\ (y = "delivered" <=> answer = "ok")
      BY Classified
    <2>2. Result(y, parent) /\ job \in Calls
      BY CallPlace
    <2> HIDE DEF y
    <2> QED
      BY <2>1, <2>2, ResultStep
  <1>2. CallTrue
    BY <1>1 DEF CallTrue
  <1>3. Unwritten => Unwritten'
    BY <1>1 DEF Unwritten, Calling
  <1>4. Written' /\ job.version = 1 => Written
    BY <1>1 DEF Written, Followed, EvidenceOnly
  <1>5. AllTrue(Tables)' /\ ToldTrue' /\ WrittenTrue'
    BY <1>2, <1>3, <1>4, NothingWritten
  <1> QED
    BY <1>1, <1>2, <1>5, CallFrame DEF Followed

\* A call that is followed by another one.
LEMMA NextCall ==
    ASSUME SendPre, AllTrue(Tables), Followed, job' = job, UNCHANGED <<card, page>>,
           \/ worker = "edit" /\ worker' = "post"
           \/ worker = "find" /\ worker' \in {"patch", "session"}
           \/ worker = "session" /\ worker' = "create"
           \/ worker = "look" /\ worker' = "append"
    PROVE  AllTrue(Tables)' /\ Followed'
  <1>1. CallTrue
    BY DEF CallTrue, Calling, SamePlace
  <1>2. (Unwritten => Unwritten') /\ ~Written'
    BY DEF Unwritten, Written
  <1>3. AllTrue(Tables)' /\ ToldTrue' /\ WrittenTrue'
    BY <1>1, <1>2, NothingWritten
  <1>4. ViewTrue'
    BY <1>1, CallFrame DEF ViewTrue, Followed
  <1>5. PayloadTrue'
    BY <1>1, CallFrame DEF PayloadTrue, Followed, SendPre
  <1>6. EvidenceOnly'
    <2>1. worker = "find" => job.version = 1
      BY DEF SendPre, RowInv, Placed
    <2> QED
      BY <2>1 DEF EvidenceOnly, Followed
  <1> QED
    BY <1>3, <1>4, <1>5, <1>6 DEF Followed

TruePre == SendPre /\ AllTrue(Tables) /\ Followed

\* The card is edited.
LEMMA SlackEditTrue == ASSUME TruePre, SlackEdit PROVE AllTrue(Tables)' /\ Followed'
  <1>1. worker = "edit" /\ worker \in Calling /\ page' = page
    BY DEF SlackEdit, Calling
  <1>2. CASE card = <<>>
    <2>1. worker' = "post" /\ UNCHANGED <<job, card>>
      BY <1>2 DEF SlackEdit
    <2> QED
      BY <1>1, <2>1, NextCall DEF TruePre
  <1>3. CASE card # <<>>
    <2>1. PICK answer \in Answers :
              /\ card' = IF Performed(answer) THEN <<job.view>> ELSE card
              /\ IF answer = "ok" THEN CardWritten(TRUE) ELSE Result(Classify(answer, TRUE), FALSE)
      BY <1>3 DEF SlackEdit
    <2>2. job \in Calls /\ (Performed(answer) <=> answer \in {"ok", "late"})
      BY <1>1, CallPlace, Classified DEF TruePre
    <2>3. CASE Performed(answer)
      <3>1. worker' \in {"reply", "finish"} /\ SamePlace
        <4>1. CASE answer = "ok"
          BY <2>1, <2>2, <4>1, CardWrittenStep
        <4>2. CASE answer # "ok"
          BY <2>1, <2>2, <4>2, NotionResult
        <4> QED
          BY <4>1, <4>2
      <3>2. CallTrue
        BY <1>1, <3>1 DEF CallTrue, TruePre, Calling
      <3> QED
        BY <1>1, <2>1, <2>3, <3>1, <3>2, CardIsWritten
    <2>4. CASE ~Performed(answer)
      <3>1. answer # "ok" /\ card' = card /\ Result(Classify(answer, TRUE), FALSE)
        BY <2>1, <2>2, <2>4
      <3> QED
        BY <1>1, <3>1, NothingDone DEF TruePre
    <2> QED
      BY <2>3, <2>4
  <1> QED
    BY <1>2, <1>3

\* A card is posted.
LEMMA SlackPostTrue == ASSUME TruePre, SlackPost PROVE AllTrue(Tables)' /\ Followed'
  <1>1. worker = "post" /\ worker \in Calling /\ page' = page
    BY DEF SlackPost, Calling
  <1>2. PICK answer \in Answers :
            /\ card' = IF answer = "ok" THEN <<job.view>> ELSE card
            /\ IF answer = "ok" THEN CardWritten(FALSE) ELSE Result(Classify(answer, FALSE), FALSE)
    BY DEF SlackPost
  <1>3. job \in Calls
    BY <1>1, CallPlace DEF TruePre
  <1>4. CASE answer = "ok"
    <2>1. worker' \in {"reply", "finish"} /\ SamePlace
      BY <1>2, <1>3, <1>4, CardWrittenStep
    <2>2. CallTrue
      BY <1>1, <2>1 DEF CallTrue, TruePre, Calling
    <2> QED
      BY <1>1, <1>2, <1>4, <2>1, <2>2, CardIsWritten
  <1>5. CASE answer # "ok"
    <2>1. card' = card /\ Result(Classify(answer, FALSE), FALSE)
      BY <1>2, <1>5
    <2> QED
      BY <1>1, <1>5, <2>1, NothingDone DEF TruePre
  <1> QED
    BY <1>4, <1>5

\* The reply in the thread.
LEMMA SlackReplyTrue == ASSUME TruePre, SlackReply PROVE AllTrue(Tables)' /\ Followed'
  <1>1. worker = "reply" /\ worker \in Calling /\ UNCHANGED <<card, page>>
    BY DEF SlackReply, Calling
  <1> DEFINE parent == job.version # 3
  <1>2. PICK answer \in Answers : Result(Classify(answer, FALSE), parent)
    BY DEF SlackReply
  <1>3. parent \in BOOLEAN
    OBVIOUS
  <1> HIDE DEF parent
  <1> QED
    BY <1>1, <1>2, <1>3, NothingDone DEF TruePre

\* The page of an alert is looked up.
LEMMA NotionFindTrue == ASSUME TruePre, NotionFind PROVE AllTrue(Tables)' /\ Followed'
  <1>1. worker = "find" /\ worker \in Calling /\ UNCHANGED <<card, page>>
    BY DEF NotionFind, Calling
  <1>2. PICK answer \in {"ok", "lost", "refused"} :
            IF answer # "ok" THEN Result(Classify(answer, TRUE), FALSE)
            ELSE worker' \in {"patch", "session"} /\ job' = job
    BY DEF NotionFind
  <1>3. answer \in Answers
    BY DEF Answers
  <1>4. CASE answer # "ok"
    BY <1>1, <1>2, <1>3, <1>4, NothingDone DEF TruePre
  <1>5. CASE answer = "ok"
    BY <1>1, <1>2, <1>5, NextCall DEF TruePre
  <1> QED
    BY <1>4, <1>5

\* The page of the session.
LEMMA NotionSessionTrue == ASSUME TruePre, NotionSession PROVE AllTrue(Tables)' /\ Followed'
  <1>1. worker = "session" /\ worker \in Calling /\ UNCHANGED <<card, page>>
    BY DEF NotionSession, remote, Calling
  <1>2. PICK answer \in {"ok", "lost", "refused"} :
            IF answer = "ok" THEN worker' = "create" /\ job' = job
            ELSE Result(Classify(answer, TRUE), FALSE)
    BY DEF NotionSession
  <1>3. answer \in Answers
    BY DEF Answers
  <1>4. CASE answer # "ok"
    BY <1>1, <1>2, <1>3, <1>4, NothingDone DEF TruePre
  <1>5. CASE answer = "ok"
    BY <1>1, <1>2, <1>5, NextCall DEF TruePre
  <1> QED
    BY <1>4, <1>5

\* The page of an alert is created.
LEMMA NotionCreateTrue == ASSUME TruePre, NotionCreate PROVE AllTrue(Tables)' /\ Followed'
  <1>1. worker = "create" /\ worker \in Calling /\ card' = card
    BY DEF NotionCreate, Calling
  <1>2. PICK answer \in Answers :
            /\ page' = IF Performed(answer)
                       THEN [page EXCEPT ![job.incident].count = @ + 1, ![job.incident].shows = job.shows]
                       ELSE page
            /\ Result(Classify(answer, FALSE), FALSE)
    BY DEF NotionCreate
  <1>3. /\ job \in Calls /\ job.incident \in Incidents /\ (Performed(answer) <=> answer \in {"ok", "late"})
        /\ page \in [Incidents -> Pages]
    BY <1>1, CallPlace, Classified DEF TruePre, SendPre, RemoteShape
  <1>4. CASE Performed(answer)
    <2>1. \A x \in Incidents :
              page'[x].shows = IF x = job.incident THEN job.shows ELSE page[x].shows
      BY <1>2, <1>3, <1>4 DEF Pages
    <2>2. worker' = "finish" /\ SamePlace
      BY <1>2, <1>3, NotionResult
    <2>3. CallTrue
      BY <1>1, <2>2 DEF CallTrue, TruePre
    <2> QED
      BY <1>1, <2>1, <2>2, <2>3, PageIsWritten
  <1>5. CASE ~Performed(answer)
    <2>1. page' = page /\ answer # "ok"
      BY <1>2, <1>3, <1>5
    <2> QED
      BY <1>1, <1>2, <2>1, NothingDone DEF TruePre
  <1> QED
    BY <1>4, <1>5

\* The page is edited.
LEMMA NotionPatchTrue == ASSUME TruePre, NotionPatch PROVE AllTrue(Tables)' /\ Followed'
  <1>1. worker = "patch" /\ worker \in Calling /\ card' = card
    BY DEF NotionPatch, Calling
  <1>2. PICK answer \in Answers :
            /\ page' = IF Performed(answer) THEN [page EXCEPT ![job.incident].shows = job.shows] ELSE page
            /\ Result(Classify(answer, TRUE), FALSE)
    BY DEF NotionPatch
  <1>3. /\ job \in Calls /\ job.incident \in Incidents /\ (Performed(answer) <=> answer \in {"ok", "late"})
        /\ page \in [Incidents -> Pages]
    BY <1>1, CallPlace, Classified DEF TruePre, SendPre, RemoteShape
  <1>4. CASE Performed(answer)
    <2>1. \A x \in Incidents :
              page'[x].shows = IF x = job.incident THEN job.shows ELSE page[x].shows
      BY <1>2, <1>3, <1>4 DEF Pages
    <2>2. worker' = "finish" /\ SamePlace
      BY <1>2, <1>3, NotionResult
    <2>3. CallTrue
      BY <1>1, <2>2 DEF CallTrue, TruePre
    <2> QED
      BY <1>1, <2>1, <2>2, <2>3, PageIsWritten
  <1>5. CASE ~Performed(answer)
    <2>1. page' = page /\ answer # "ok"
      BY <1>2, <1>3, <1>5
    <2> QED
      BY <1>1, <1>2, <2>1, NothingDone DEF TruePre
  <1> QED
    BY <1>4, <1>5

\* The children of the page are read.
LEMMA NotionLookTrue == ASSUME TruePre, NotionLook PROVE AllTrue(Tables)' /\ Followed'
  <1>1. worker = "look" /\ worker \in Calling /\ UNCHANGED <<card, page>>
    BY DEF NotionLook, remote, Calling
  <1>2. PICK answer \in {"ok", "lost", "refused"} :
            IF answer # "ok" THEN Result(Classify(answer, TRUE), FALSE)
            ELSE IF page[job.incident].tables > 0 THEN Result("delivered", FALSE)
            ELSE worker' = "append" /\ job' = job
    BY DEF NotionLook
  <1>3. answer \in Answers
    BY DEF Answers
  <1>4. CASE answer # "ok"
    BY <1>1, <1>2, <1>3, <1>4, NothingDone DEF TruePre
  <1>5. CASE answer = "ok" /\ page[job.incident].tables > 0
    <2>1. Result(Classify(answer, TRUE), FALSE)
      BY <1>2, <1>5 DEF Classify
    <2> QED
      BY <1>1, <1>3, <2>1, NothingDone DEF TruePre
  <1>6. CASE answer = "ok" /\ ~(page[job.incident].tables > 0)
    BY <1>1, <1>2, <1>6, NextCall DEF TruePre
  <1> QED
    BY <1>4, <1>5, <1>6

\* The evidence table is appended.
LEMMA NotionAppendTrue == ASSUME TruePre, NotionAppend PROVE AllTrue(Tables)' /\ Followed'
  <1>1. worker = "append" /\ worker \in Calling /\ card' = card
    BY DEF NotionAppend, Calling
  <1>2. PICK answer \in Answers :
            /\ page' = IF Performed(answer) THEN [page EXCEPT ![job.incident].tables = @ + 1] ELSE page
            /\ Result(Classify(answer, TRUE), FALSE)
    BY DEF NotionAppend
  <1>3. job.incident \in Incidents /\ page \in [Incidents -> Pages]
    BY <1>1, CallPlace DEF TruePre, SendPre, RemoteShape
  <1>4. \A x \in Incidents : page'[x].shows = page[x].shows
    BY <1>2, <1>3 DEF Pages
  <1> QED
    BY <1>1, <1>2, <1>4, NothingDone DEF TruePre

\* finish() queues the edit that is owed for what changed while its row was being sent.
LEMMA FinishTrue ==
    ASSUME RowInv, Tables \in Store, scenario \in Scenarios, AllTrue(Tables), Followed, Finish
    PROVE  AllTrue(Tables)' /\ Followed'
  <1> DEFINE i == job.incident
             c == job.channel
             v == job.version
             u == Finished(Tables, i, c, v, job.result)
  <1>1. /\ worker = "finish" /\ worker' = "wait" /\ UNCHANGED <<scenario, card, page>>
        /\ incident' = u.incident /\ row' = u.row
    BY DEF Finish, remote
  <1>2. /\ i \in Incidents /\ c \in Channels /\ v \in Versions
        /\ job.result \in {"delivered", "retryable", "permanent", "unknown"}
        /\ row[i][c][v].state = "sending"
    <2>1. job \in Done /\ worker # "wait"
      BY <1>1 DEF RowInv, JobShape
    <2>2. i \in Incidents /\ c \in Channels /\ v \in Versions
      BY <2>1 DEF Done
    <2> QED
      BY <2>1, <2>2 DEF Done, RowInv, SendingHeld, Holds
  <1>3. Settles(Tables, u, i, c, v, job.result)
    <2>1. Tables.row[i][c][v].state = "sending"
      BY <1>2 DEF Tables
    <2> HIDE DEF i, c, v
    <2> QED
      BY <1>2, <2>1, FinishedSettles
  <1> HIDE DEF u
  <1>4. /\ u.incident = incident /\ AllTrue(u)
        /\ \A x \in Incidents, d \in Channels :
               /\ Told(u, d, x) =>
                      \/ Told(Tables, d, x)
                      \/ x = i /\ d = c /\ v = 1 /\ job.result = "delivered"
               /\ Owed(Tables, d, x) => Owed(u, d, x)
        /\ v \in {2, 4, 5} /\ job.result # "delivered" => Owed(u, c, i)
        /\ v = 1 /\ job.result = "delivered" /\ (Ended(Tables, i) \/ incident[i].noted) => Owed(u, c, i)
    BY <1>3 DEF Settles, Tables
  <1>5. \A d, x : /\ Told(Tables', d, x) <=> Told(u, d, x)
                  /\ Owed(Tables', d, x) <=> Owed(u, d, x)
    BY <1>1 DEF Told, Owed, Tables
  <1>6. AllTrue(Tables')
    BY <1>1, <1>4 DEF AllTrue, TrueAt, RowsTrue, Told, Ended, Tables
  <1>7. /\ Incidents' = Incidents /\ Channels' = Channels /\ AllTrue(Tables)'
        /\ \A d, x : /\ Told(Tables, d, x)' <=> Told(u, d, x)
                     /\ Owed(Tables, d, x)' <=> Owed(u, d, x)
    BY <1>1, <1>5, <1>6, Primes
  <1>8. \A d, x : Seen(d, x)' <=> Seen(d, x)
    BY <1>1, <1>4, SameShown DEF Seen
  <1>9. ASSUME NEW d \in Channels, NEW x \in Incidents, Told(u, d, x)
        PROVE  Seen(d, x) \/ Owed(u, d, x)
    <2>1. CASE Told(Tables, d, x)
      <3>1. Seen(d, x) \/ Owed(Tables, d, x) \/ ToEdit(d, x)
        BY <2>1 DEF Followed, ToldTrue
      <3>2. ASSUME ToEdit(d, x) PROVE Owed(u, d, x)
        <4>1. x = i /\ d = c /\ v # 3 /\ job.result # "delivered"
          BY <1>1, <3>2 DEF ToEdit, Unwritten
        <4>2. v # 1
          BY <1>2, <2>1, <4>1 DEF Told, Tables
        <4>3. v \in {2, 4, 5}
          BY <1>2, <4>1, <4>2 DEF Versions
        <4> QED
          BY <1>4, <4>1, <4>3
      <3> QED
        BY <1>4, <3>1, <3>2
    <2>2. CASE ~Told(Tables, d, x)
      <3>1. x = i /\ d = c /\ v = 1 /\ job.result = "delivered"
        BY <1>4, <1>9, <2>2
      <3>2. Seen(c, i) \/ Since(c, i)
        BY <1>1, <3>1 DEF Followed, WrittenTrue, Written
      <3> QED
        BY <1>4, <3>1, <3>2 DEF Since
    <2> QED
      BY <2>1, <2>2
  <1>10. ToldTrue'
    BY <1>7, <1>8, <1>9 DEF ToldTrue
  <1>11. ViewTrue' /\ PayloadTrue' /\ WrittenTrue' /\ EvidenceOnly'
    BY <1>1 DEF ViewTrue, PayloadTrue, WrittenTrue, Written, EvidenceOnly
  <1> QED
    BY <1>7, <1>10, <1>11 DEF Followed

\* What was being sent when the worker fails waits for a person.
LEMMA WorkerFailsTrue ==
    ASSUME RowInv, Tables \in Store, scenario \in Scenarios, AllTrue(Tables), Followed, WorkerFails
    PROVE  AllTrue(Tables)' /\ Followed'
  <1> DEFINE i == job.incident
             c == job.channel
             v == job.version
             q == [row[i][c][v] EXCEPT !.state = "manual_review"]
  <1>1. /\ worker # "wait" /\ worker' = "wait" /\ UNCHANGED <<scenario, incident, card, page>>
        /\ row' = [row EXCEPT ![i][c][v].state = "manual_review"]
    BY DEF WorkerFails, remote
  <1>2. /\ i \in Incidents /\ c \in Channels /\ v \in Versions
        /\ \A j \in Incidents, d \in Channels, w \in Versions :
               row[j][d][w].state = "sending" <=> j = i /\ d = c /\ w = v
    BY <1>1, JobPlace DEF RowInv, SendingHeld, Holds
  <1>3. row[i][c][v] \in Rows /\ row \in [Incidents -> [Channels -> [Versions -> Rows]]]
    BY <1>2, StoreParts DEF Tables
  <1>4. q.state = "manual_review" /\ q.status = row[i][c][v].status
    BY <1>3 DEF Rows
  <1>5. row' = Put(row, i, c, v, q)
    BY <1>1 DEF Put
  <1> HIDE DEF q, i, c, v
  <1>6. \A j \in Incidents, d \in Channels, w \in Versions :
            row'[j][d][w] = IF j = i /\ d = c /\ w = v THEN q ELSE row[j][d][w]
    BY <1>2, <1>5, PutCells
  <1>7. \A j \in Incidents, d \in Channels, w \in Versions :
            IF row[j][d][w].state = "sending"
            THEN /\ row'[j][d][w].state \in Waiting \cup GivenUp
                 /\ row'[j][d][w].status = row[j][d][w].status
            ELSE row'[j][d][w] = row[j][d][w]
    BY <1>2, <1>4, <1>6 DEF GivenUp
  <1> QED
    BY <1>1, <1>7, GiveBackTrue

\* So does it when the process ends.
LEMMA RestartTrue ==
    ASSUME RowInv, Tables \in Store, scenario \in Scenarios, AllTrue(Tables), Followed, Restart
    PROVE  AllTrue(Tables)' /\ Followed'
  <1>1. row \in [Incidents -> [Channels -> [Versions -> Rows]]]
    BY StoreParts DEF Tables
  <1>2. \A r \in Rows : /\ [r EXCEPT !.state = "manual_review"].state = "manual_review"
                        /\ [r EXCEPT !.state = "manual_review"].status = r.status
    BY DEF Rows
  <1>3. row' = [i \in Incidents |-> [c \in Channels |-> [v \in Versions |->
                  IF row[i][c][v].state = "sending"
                  THEN [row[i][c][v] EXCEPT !.state = "manual_review"] ELSE row[i][c][v]]]]
    BY DEF Restart
  <1>4. \A j \in Incidents, d \in Channels, w \in Versions :
            IF row[j][d][w].state = "sending"
            THEN /\ row'[j][d][w].state \in Waiting \cup GivenUp
                 /\ row'[j][d][w].status = row[j][d][w].status
            ELSE row'[j][d][w] = row[j][d][w]
    BY <1>1, <1>2, <1>3 DEF GivenUp
  <1>5. worker' = "wait" /\ UNCHANGED <<scenario, incident, card, page>>
    BY DEF Restart, remote
  <1> QED
    BY <1>4, <1>5, GiveBackTrue

\* An event is appended to the journal.
LEMMA ListedMore ==
    ASSUME LoopShape, ServersListed, scenario' = scenario, NEW e, backlog' = Append(backlog, e),
           e.type = "snapshot" => \A i \in e.listed : Kind(i) = "server"
    PROVE  ServersListed'
  <1>1. backlog \in Seq(Events) /\ Len(backlog) \in Nat
    BY DEF LoopShape
  <1>2. \A n \in DOMAIN backlog' : backlog'[n] = e \/ (n \in DOMAIN backlog /\ backlog'[n] = backlog[n])
    BY <1>1
  <1>3. \A i : Kind(i)' = Kind(i)
    BY DEF Kind
  <1> QED
    BY <1>2, <1>3 DEF ServersListed

\* The first event is read.
LEMMA ListedLess ==
    ASSUME LoopShape, ServersListed, scenario' = scenario, due > 0, backlog' = Tail(backlog)
    PROVE  ServersListed'
  <1>1. backlog \in Seq(Events) /\ Len(backlog) \in Nat /\ Len(backlog) > 0
    BY DEF LoopShape
  <1>2. \A n \in DOMAIN backlog' : n + 1 \in DOMAIN backlog /\ backlog'[n] = backlog[n + 1]
    BY <1>1
  <1>3. \A i : Kind(i)' = Kind(i)
    BY DEF Kind
  <1> QED
    BY <1>2, <1>3 DEF ServersListed

\* The journal stays, or its snapshots are not looked at.
LEMMA ListedSame ==
    ASSUME ServersListed, scenario' = scenario, DOMAIN backlog' = DOMAIN backlog,
           \A n \in DOMAIN backlog : backlog'[n] = backlog[n] \/ backlog'[n].type # "snapshot"
    PROVE  ServersListed'
  <1>1. \A i : Kind(i)' = Kind(i)
    BY DEF Kind
  <1> QED
    BY <1>1 DEF ServersListed

\* The server and the watch write the journal.
LEMMA EnvironmentTrue ==
    ASSUME LoopShape, TrueInv, Environment
    PROVE  TrueInv'
  <1>1. UNCHANGED <<scenario, incident, row, worker, job, card, page>>
    BY DEF Environment, store, remote
  <1>2. ServersListed'
    <2>1. ASSUME NEW i \in Incidents, Begins(i) \/ Ends(i) PROVE ServersListed'
      <3>1. \/ backlog' = Append(backlog, [type |-> "begin", of |-> i])
            \/ backlog' = Append(backlog, [type |-> "end", of |-> i])
            \/ backlog' = backlog
        BY <2>1 DEF Begins, Ends, Log
      <3>2. [type |-> "begin", of |-> i].type # "snapshot" /\ [type |-> "end", of |-> i].type # "snapshot"
        OBVIOUS
      <3> QED
        BY <1>1, <3>1, <3>2, ListedMore, ListedSame DEF TrueInv
    <2>2. CASE GameEnds
      BY <1>1, <2>2, ListedSame DEF GameEnds, TrueInv
    <2>3. ASSUME NEW complete \in BOOLEAN, Snapshot(complete) PROVE ServersListed'
      <3> DEFINE e == [type |-> "snapshot", complete |-> complete, on |-> gameOn,
                       listed |-> {i \in Incidents : complete /\ Kind(i) = "server" /\ truth[i] = "down"}]
      <3>1. backlog' = Append(backlog, e) /\ \A i \in e.listed : Kind(i) = "server"
        BY <2>3 DEF Snapshot, Log
      <3> HIDE DEF e
      <3> QED
        BY <1>1, <3>1, ListedMore DEF TrueInv
    <2> QED
      BY <2>1, <2>2, <2>3 DEF Environment
  <1>3. /\ Incidents' = Incidents /\ Channels' = Channels /\ AllTrue(Tables)'
        /\ \A d, x : /\ Told(Tables, d, x)' <=> Told(Tables, d, x)
                     /\ Owed(Tables, d, x)' <=> Owed(Tables, d, x)
                     /\ Since(d, x)' <=> Since(d, x)
                     /\ Shown(incident, x)' = Shown(incident, x)
                     /\ Seen(d, x)' <=> Seen(d, x)
                     /\ ToEdit(d, x)' <=> ToEdit(d, x)
    BY <1>1, SameTables, SameShown DEF TrueInv, Seen, ToEdit, Unwritten
  <1>4. ToldTrue'
    BY <1>3 DEF TrueInv, Followed, ToldTrue
  <1>5. ViewTrue'
    BY <1>1, <1>3 DEF TrueInv, Followed, ViewTrue
  <1>6. PayloadTrue'
    BY <1>1, <1>3 DEF TrueInv, Followed, PayloadTrue
  <1>7. WrittenTrue' /\ EvidenceOnly'
    BY <1>1, <1>3 DEF TrueInv, Followed, WrittenTrue, Written, EvidenceOnly
  <1> QED
    BY <1>2, <1>3, <1>4, <1>5, <1>6, <1>7 DEF TrueInv, Followed

\* Every transaction of the loop tells what it changes.
LEMMA ProcessLoopTrue ==
    ASSUME RowInv, LoopShape, CaughtUp, Tables \in Store, scenario \in Scenarios, TrueInv, ProcessLoop
    PROVE  TrueInv'
  <1>1. UNCHANGED <<scenario, worker, job, card, page>> /\ Store' = Store
    BY Fixed DEF ProcessLoop, remote
  <1>2. AllTrue(Tables) /\ Followed /\ ServersListed
    BY DEF TrueInv
  <1>3. Tables' \in Store
    BY ProcessLoopStep, <1>1
  <1>4. ASSUME NEW t, AllTrue(t), Tells(Tables, t), incident' = t.incident, row' = t.row, t \in Store,
               ServersListed'
        PROVE  TrueInv'
    <2>1. Tables' = t
      BY <1>4, StoreParts DEF Tables
    <2> QED
      BY <1>1, <1>2, <1>3, <1>4, <2>1, TellsStep DEF TrueInv
  <1>5. ASSUME NEW t, AllTrue(t), Tells(Tables, t), Later(Tables, t), due > 0, Commit(t)
        PROVE  TrueInv'
    <2>1. /\ incident' = t.incident /\ row' = t.row /\ backlog' = Tail(backlog) /\ t \in Store
      BY <1>5 DEF Commit, Later
    <2>2. ServersListed'
      BY <1>1, <1>2, <1>5, <2>1, ListedLess
    <2> QED
      BY <1>4, <1>5, <2>1, <2>2
  <1>6. AllTrue(Tables) /\ Tells(Tables, Tables) /\ Later(Tables, Tables)
    BY <1>2, TellsSelf, LaterSelf
  <1>7. CASE CycleBegins \/ CycleEnds \/ CycleFails \/ Lapse
    <2>1. incident' = Tables.incident /\ row' = Tables.row
      BY <1>7 DEF CycleBegins, CycleEnds, CycleFails, Lapse, store, Tables
    <2>2. \/ backlog' = backlog
          \/ backlog' = [n \in DOMAIN backlog |->
                           IF backlog[n].type = "snapshot" THEN [type |-> "other"] ELSE backlog[n]]
      BY <1>7 DEF CycleBegins, CycleEnds, CycleFails, Lapse
    <2>3. ServersListed'
      BY <1>1, <1>2, <2>2, ListedSame
    <2> QED
      BY <1>4, <1>6, <2>1, <2>3
  <1>8. CASE ProcessBegin
    <2>1. due > 0 /\ backlog[1].of \in Incidents
      BY <1>8, FirstEvent DEF ProcessBegin, Next1
    <2> DEFINE i == backlog[1].of
    <2>2. \/ Kind(i) = "server" /\ Commit(Open(Tables, i))
          \/ Kind(i) = "silent" /\ Commit(WatchOpens(Tables, i))
          \/ Kind(i) = "reboot" /\ \E recent \in BOOLEAN : Commit(Boot(Tables, i, recent))
      BY <1>8 DEF ProcessBegin
    <2>3. i \in Incidents
      BY <2>1
    <2> HIDE DEF i
    <2>4. CASE Kind(i) = "server" /\ Commit(Open(Tables, i))
      <3>1. AllTrue(Open(Tables, i)) /\ Tells(Tables, Open(Tables, i)) /\ Later(Tables, Open(Tables, i))
        BY <1>2, <2>3, <2>4, OpenTells, OpenLater
      <3> QED
        BY <1>5, <2>1, <2>4, <3>1
    <2>5. CASE Kind(i) = "silent" /\ Commit(WatchOpens(Tables, i))
      <3>1. /\ AllTrue(WatchOpens(Tables, i)) /\ Tells(Tables, WatchOpens(Tables, i))
            /\ Later(Tables, WatchOpens(Tables, i))
        BY <1>2, <2>3, <2>5, OpenTells, ListsLater
      <3> QED
        BY <1>5, <2>1, <2>5, <3>1
    <2>6. ASSUME Kind(i) = "reboot", NEW recent \in BOOLEAN, Commit(Boot(Tables, i, recent))
          PROVE  TrueInv'
      <3>1. AllTrue(Boot(Tables, i, recent)) /\ Tells(Tables, Boot(Tables, i, recent))
        BY <1>2, <2>3, <2>6, BootTells
      <3>2. Later(Tables, Boot(Tables, i, recent))
        BY <2>3, <2>6, BootLater
      <3> QED
        BY <1>5, <2>1, <2>6, <3>1, <3>2
    <2> QED
      BY <2>2, <2>4, <2>5, <2>6
  <1>9. CASE ProcessEnd
    <2>1. due > 0 /\ backlog[1].of \in Incidents
      BY <1>9, FirstEvent DEF ProcessEnd, Next1
    <2>2. PICK how \in {"recovered", "closed"} : Commit(Close(Tables, backlog[1].of, how))
      BY <1>9 DEF ProcessEnd
    <2>3. how \in IncidentStates /\ how \in Over
      BY DEF IncidentStates, Over
    <2>4. /\ AllTrue(Close(Tables, backlog[1].of, how)) /\ Tells(Tables, Close(Tables, backlog[1].of, how))
          /\ Later(Tables, Close(Tables, backlog[1].of, how))
      BY <1>2, <2>1, <2>3, CloseTells, CloseLater
    <2> QED
      BY <1>5, <2>1, <2>2, <2>4
  <1>10. CASE ProcessOther
    <2>1. due > 0 /\ Commit(Tables)
      BY <1>10 DEF ProcessOther, Next1
    <2> QED
      BY <1>5, <1>6, <2>1
  <1>11. CASE ProcessStale
    <2>1. PICK t \in Timed(backlog[1]) : Commit(t)
      BY <1>11 DEF ProcessStale
    <2>2. due > 0
      BY <1>11 DEF ProcessStale, Next1
    <2>3. AllTrue(t) /\ Tells(Tables, t) /\ Later(Tables, t)
      BY <1>2, TimedTells, TimedLater
    <2> QED
      BY <1>5, <2>1, <2>2, <2>3
  <1>12. CASE ProcessSnapshot
    <2> DEFINE shot == backlog[1]
               over == {i \in Incidents : \/ Kind(i) = "server" /\ i \notin shot.listed
                                          \/ Kind(i) = "silent" /\ ~shot.on}
               after(t) == OpenAll(CloseAll(t, over, "closed"), shot.listed)
    <2>1. due > 0 /\ shot.listed \in SUBSET Incidents /\ over \in SUBSET Incidents
      BY <1>12, FirstEvent DEF ProcessSnapshot, Next1
    <2>2. \A i \in shot.listed : Kind(i) # "reboot"
      <3>1. 1 \in DOMAIN backlog /\ shot.type = "snapshot"
        BY <1>12 DEF ProcessSnapshot, Next1, LoopShape
      <3> QED
        BY <1>2, <3>1 DEF ServersListed
    <2>3. (\E t \in Timed(shot) : Commit(after(t))) \/ Commit(Tables)
      BY <1>12 DEF ProcessSnapshot
    <2> HIDE DEF shot, over
    <2>4. ASSUME NEW t \in Timed(shot)
          PROVE  AllTrue(after(t)) /\ Tells(Tables, after(t)) /\ Later(Tables, after(t))
      <3>1. AllTrue(t) /\ Tells(Tables, t) /\ Later(Tables, t) /\ t \in Store
        BY <1>2, TimedTells, TimedLater DEF Later
      <3>2. AllTrue(after(t)) /\ Tells(t, after(t))
        BY <2>1, <2>2, <3>1, SnapshotTells
      <3>3. Later(t, after(t))
        BY <2>1, <3>1, SnapshotLater
      <3> QED
        BY <3>1, <3>2, <3>3, TellsTrans, LaterTrans
    <2> HIDE DEF after
    <2> QED
      BY <1>5, <1>6, <2>1, <2>3, <2>4
  <1> QED
    BY <1>7, <1>8, <1>9, <1>10, <1>11, <1>12 DEF ProcessLoop, Cycle

\* The steps of the worker up to the first call.
LEMMA WorkTrue ==
    ASSUME RowInv, Tables \in Store, scenario \in Scenarios, AllTrue(Tables), Followed, Work
    PROVE  AllTrue(Tables)' /\ Followed'
  <1>1. UNCHANGED <<scenario, card, page>>
    BY DEF Work, remote
  <1>2. \/ worker = "claimed" /\ PutBack
        \/ ClaimAny \/ Build \/ \E i \in Incidents : DropStale(i)
    BY DEF Work, Defer, Revoked
  <1>3. CASE worker = "claimed" /\ PutBack
    BY <1>1, <1>3, PutBackTrue
  <1>4. CASE ClaimAny
    <2>1. PICK i \in Incidents, c \in Channels, v \in Versions : Claim(i, c, v)
      BY <1>4 DEF ClaimAny
    <2> QED
      BY <1>1, <2>1, ClaimTrue
  <1>5. CASE Build
    BY <1>1, <1>5, BuildTrue
  <1>6. CASE \E i \in Incidents : DropStale(i)
    <2>1. PICK i \in Incidents : DropStale(i)
      BY <1>6
    <2> QED
      BY <1>1, <2>1, DropTrue
  <1> QED
    BY <1>2, <1>3, <1>4, <1>5, <1>6

\* The calls.
LEMMA SendTrue ==
    ASSUME RowInv, RemoteShape, Tables \in Store, scenario \in Scenarios, AllTrue(Tables), Followed,
           Send
    PROVE  AllTrue(Tables)' /\ Followed'
  <1>1. TruePre
    BY DEF Send, store, SendPre, TruePre
  <1> QED
    BY <1>1, SlackEditTrue, SlackPostTrue, SlackReplyTrue, NotionFindTrue, NotionSessionTrue,
       NotionCreateTrue, NotionPatchTrue, NotionLookTrue, NotionAppendTrue DEF Send

\* At the start nothing was told.
LEMMA InitTrue == ASSUME Init PROVE TrueInv
  <1>1. /\ worker = "wait" /\ backlog = <<>> /\ scenario \in Scenarios
        /\ row = [i \in Incidents |-> [c \in Channels |-> [v \in Versions |-> NoRow]]]
        /\ incident = [i \in Incidents |-> [state |-> "none", noted |-> FALSE]]
    BY DEF Init
  <1>2. \A i \in Incidents, c \in Channels, v \in {1, 2, 4, 5} : row[i][c][v].state = "absent"
    BY <1>1 DEF NoRow, Versions
  <1>3. AllTrue(Tables)
    BY <1>1, <1>2 DEF AllTrue, TrueAt, RowsTrue, Tables
  <1>4. ToldTrue
    BY <1>2 DEF ToldTrue, Told, Tables
  <1>5. ViewTrue /\ PayloadTrue /\ WrittenTrue /\ EvidenceOnly
    BY <1>1 DEF ViewTrue, PayloadTrue, WrittenTrue, Written, EvidenceOnly
  <1>6. ServersListed
    BY <1>1 DEF ServersListed
  <1> QED
    BY <1>3, <1>4, <1>5, <1>6 DEF TrueInv, Followed

\* Every step keeps what people see, or owes the edit.
LEMMA NextTrue == ASSUME IndInv, TrueInv, [Next]_vars PROVE TrueInv'
  <1>1. /\ RowInv /\ RemoteShape /\ LoopShape /\ CaughtUp
        /\ Tables \in Store /\ scenario \in Scenarios
    BY Parts
  <1>2. AllTrue(Tables) /\ Followed /\ ServersListed
    BY DEF TrueInv
  <1>3. CASE Environment
    BY <1>1, <1>3, EnvironmentTrue
  <1>4. CASE ProcessLoop
    BY <1>1, <1>4, ProcessLoopTrue
  <1>5. ASSUME AllTrue(Tables)' /\ Followed', UNCHANGED <<scenario, backlog>> PROVE TrueInv'
    <2>1. ServersListed'
      BY <1>2, <1>5, ListedSame
    <2> QED
      BY <1>5, <2>1 DEF TrueInv
  <1>6. CASE Work
    <2>1. UNCHANGED <<scenario, backlog>>
      BY <1>6 DEF Work
    <2> QED
      BY <1>1, <1>2, <1>5, <1>6, <2>1, WorkTrue
  <1>7. CASE Send
    <2>1. UNCHANGED <<scenario, backlog>>
      BY <1>7 DEF Send
    <2> QED
      BY <1>1, <1>2, <1>5, <1>7, <2>1, SendTrue
  <1>8. CASE Finish
    <2>1. UNCHANGED <<scenario, backlog>>
      BY <1>8 DEF Finish
    <2> QED
      BY <1>1, <1>2, <1>5, <1>8, <2>1, FinishTrue
  <1>9. CASE WorkerFails
    <2>1. UNCHANGED <<scenario, backlog>>
      BY <1>9 DEF WorkerFails
    <2> QED
      BY <1>1, <1>2, <1>5, <1>9, <2>1, WorkerFailsTrue
  <1>10. CASE Restart
    <2>1. UNCHANGED <<scenario, backlog>>
      BY <1>10 DEF Restart
    <2> QED
      BY <1>1, <1>2, <1>5, <1>10, <2>1, RestartTrue
  <1>11. CASE DeleteCard
    <2>1. UNCHANGED <<scenario, backlog>>
      BY <1>11 DEF DeleteCard
    <2> QED
      BY <1>2, <1>5, <1>11, <2>1, DeleteTrue
  <1>12. CASE UNCHANGED vars
    <2>1. UNCHANGED <<scenario, backlog, incident, row, worker, job, card, page>>
      BY <1>12 DEF vars, store, remote
    <2>2. /\ Incidents' = Incidents /\ Channels' = Channels /\ AllTrue(Tables)'
          /\ \A d, x : /\ Told(Tables, d, x)' <=> Told(Tables, d, x)
                       /\ Owed(Tables, d, x)' <=> Owed(Tables, d, x)
                       /\ Since(d, x)' <=> Since(d, x)
                       /\ Shown(incident, x)' = Shown(incident, x)
                       /\ Seen(d, x)' <=> Seen(d, x)
                       /\ ToEdit(d, x)' <=> ToEdit(d, x)
      BY <1>2, <2>1, SameTables, SameShown DEF Seen, ToEdit, Unwritten
    <2>3. ToldTrue'
      BY <1>2, <2>2 DEF Followed, ToldTrue
    <2>4. ViewTrue'
      BY <1>2, <2>1, <2>2 DEF Followed, ViewTrue
    <2>5. PayloadTrue'
      BY <1>2, <2>1, <2>2 DEF Followed, PayloadTrue
    <2>6. WrittenTrue' /\ EvidenceOnly'
      BY <1>2, <2>1, <2>2 DEF Followed, WrittenTrue, Written, EvidenceOnly
    <2> QED
      BY <1>5, <2>1, <2>2, <2>3, <2>4, <2>5, <2>6 DEF Followed
  <1> QED
    BY <1>3, <1>4, <1>6, <1>7, <1>8, <1>9, <1>10, <1>11, <1>12 DEF Next

\* In every reachable state what was told is true, or an edit is owed or on its way.
THEOREM TrueInvHolds == Spec => []TrueInv
  <1>1. Init => TrueInv
    BY InitTrue
  <1>2. IndInv /\ TrueInv /\ [Next]_vars => TrueInv'
    BY NextTrue
  <1> QED
    BY <1>1, <1>2, IndInvHolds, PTL DEF Spec

\* When nothing is queued no edit is owed and none is on its way.
LEMMA AnnouncedFollows == ASSUME IndInv, TrueInv PROVE AnnouncedIsTrue
  <1>1. RowInv /\ Tables \in Store /\ ToldTrue
    BY Parts DEF TrueInv, Followed
  <1>2. ASSUME NEW c, Quiet(c), NEW i \in Incidents, row[i][c][1].state = "delivered"
        PROVE  Seen(c, i)
    <2>1. /\ c \in Channels
          /\ \A v \in Versions : row[i][c][v].state \in {"absent", "delivered", "canceled"}
      BY <1>2 DEF Quiet
    <2>2. ~Owed(Tables, c, i)
      BY <2>1 DEF Owed, Tables, Versions, Waiting, GivenUp
    <2>3. ~ToEdit(c, i)
      <3> SUFFICES ASSUME ToEdit(c, i) PROVE FALSE
        OBVIOUS
      <3>1. job.version \in Versions /\ row[i][c][job.version].state = "sending"
        BY <1>1, <2>1, JobPlace DEF ToEdit, RowInv, SendingHeld, Holds
      <3> QED
        BY <2>1, <3>1
    <2>4. Told(Tables, c, i)
      BY <1>2 DEF Told, Tables
    <2> QED
      BY <1>1, <2>1, <2>2, <2>3, <2>4 DEF ToldTrue
  <1> QED
    BY <1>2 DEF AnnouncedIsTrue, Seen, CardTrue, PageTrue

(***************************************************************************)
(* Once nothing is queued any more, the card and the pages of announced    *)
(* incidents show how those stand, whatever fell between reading the       *)
(* payload, sending it and finish() (slack_session, _refresh, _close and   *)
(* finish of incidents.py).                                                *)
(***************************************************************************)
THEOREM AnnouncedIsTrueHolds == Spec => []AnnouncedIsTrue
  BY IndInvHolds, TrueInvHolds, AnnouncedFollows, PTL

=============================================================================

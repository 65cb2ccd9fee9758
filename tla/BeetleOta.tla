------------------------------ MODULE BeetleOta ------------------------------
(***************************************************************************)
(* The all-board update of the tag machine.  The TTGO                      *)
(* (HAS1_tagmachine_main/beetle_ota.ino, beetle_ota_state.h) has its two   *)
(* Beetles update themselves, one after the other, and then itself; a      *)
(* Beetle (HAS1_tagmachine_sub/ota.cpp, ota_record.h) works on a request   *)
(* in a task of its own and promises nothing that it has not stored first. *)
(* Between them is a serial line that loses text; each board may restart   *)
(* at any moment, and the order may be replaced on the server meanwhile.   *)
(*                                                                         *)
(* Requests and boot numbers are random 32-bit words in the source: here   *)
(* none is drawn twice.  Left out: partition numbers, which all boards     *)
(* share, orders without version numbers, orders that are refused before   *)
(* they begin, the TTGO-only order, and the door, which is shut exactly    *)
(* while a sequence is active.                                             *)
(***************************************************************************)
EXTENDS Naturals, Sequences

CONSTANTS
    TargetOf,     \* the Beetles' version in each order: a function of the orders
    Versions,     \* versions the Beetles may run at first
    MaxAttempts,  \* kBeetleMaxAttempts, 3
    Depth,        \* bound: commands on their way to a Beetle
    MaxEvents     \* bound: writes of the operator, restarts, lost lines, and downloads,
                  \* requests and writes to flash that fail

VARIABLES
    server,    \* the row: its order, and whether the game phase allows an update
    ttgo,      \* the coordinator
    peer,      \* BeetleOtaPeer of the board in hand
    saved,     \* the TTGO's record in flash: the order it installs, or NoOrder
    installed, \* the TTGO runs its new version
    beetle,    \* the two Beetles
    down, up,  \* lines to and from each of them
    requests,  \* requests drawn
    restarted, \* history: the TTGO restarted while a sequence was active
    unstored,  \* history: a Beetle could not store a request
    events

coordinator == <<ttgo, peer, saved, installed, requests, restarted>>
boards == <<beetle, unstored>>
lines == <<down, up>>
vars == <<server, coordinator, boards, lines, events>>

Boards == {"main", "sub"}
Orders == DOMAIN TargetOf
NoOrder == "none"
NoRecord == [request |-> 0]
NoPeer == [state |-> "idle", request |-> 0]
Reset == [stage |-> "Idle", at |-> "loop", my |-> NoOrder, cur |-> NoOrder, queued |-> FALSE,
          expected |-> NoOrder, cancel |-> FALSE, failures |-> [b \in Boards |-> 0],
          retry |-> FALSE, probe |-> FALSE, fresh |-> FALSE, clearing |-> FALSE]

Init ==
    /\ server \in [order : Orders, safe : {TRUE}]
    /\ ttgo = Reset /\ peer = NoPeer /\ saved = NoOrder /\ installed \in BOOLEAN
    /\ beetle \in [Boards -> {[fw |-> v, image |-> v, boot |-> 1, stored |-> NoRecord, last |-> NoRecord,
                               worker |-> "none", told |-> <<>>, rfid |-> FALSE] : v \in Versions}]
    /\ down = [b \in Boards |-> <<>>] /\ up = [b \in Boards |-> <<>>]
    /\ requests = 0 /\ restarted = FALSE /\ unstored = FALSE
    /\ events = 0

Event == events < MaxEvents /\ events' = events + 1

-----------------------------------------------------------------------------
(***************************************************************************)
(* A Beetle                                                                *)
(***************************************************************************)
Busy(b) == beetle[b].worker # "none"
Version(b, request) == [kind |-> "version", request |-> request, fw |-> beetle[b].fw, boot |-> beetle[b].boot]
Outcome(b, request, result) ==
    [kind |-> "outcome", request |-> request, result |-> result, fw |-> beetle[b].fw, boot |-> beetle[b].boot]

\* OtaReplayResult
Replay(b) ==
    IF beetle[b].last = NoRecord THEN <<>>
    ELSE <<Outcome(b, beetle[b].last.request, beetle[b].last.result)>>

\* OtaRequest that begins an update: the record first, then the answer, then the task.
Accept(b, r, target) ==
    LET record == [request |-> r, target |-> target, oldFw |-> beetle[b].fw,
                   oldBoot |-> beetle[b].boot, result |-> "Accepted"]
    IN \/ /\ beetle' = [beetle EXCEPT ![b] = [@ EXCEPT !.stored = record, !.last = record, !.worker = "begun"]]
          /\ up' = [up EXCEPT ![b] = Append(@, Outcome(b, r, "Accepted"))]
          /\ UNCHANGED <<unstored, events>>
       \/ /\ Event /\ unstored' = TRUE
          /\ up' = [up EXCEPT ![b] = Append(@, Outcome(b, r, "Failed"))]
          /\ UNCHANGED beetle

\* ServiceSerial and OtaHandleCommand; as a bound on the lines, what was answered
\* is read before the next command is.
Read(b) ==
    /\ up[b] = <<>>
    /\ down[b] # <<>> /\ down' = [down EXCEPT ![b] = Tail(@)]
    /\ LET line == Head(down[b]) IN
       CASE line.kind = "query" ->
              /\ up' = [up EXCEPT ![b] = @ \o <<Version(b, line.request)>> \o Replay(b)]
              /\ UNCHANGED <<boards, events>>
         [] line.kind = "probe" ->
              /\ up' = [up EXCEPT ![b] = Append(@, [kind |-> IF beetle[b].rfid THEN "ready" ELSE "error"])]
              /\ UNCHANGED <<boards, events>>
         [] line.kind = "update" ->
              IF Busy(b)
              THEN /\ up' = [up EXCEPT ![b] = Append(@, Outcome(b, line.request,
                        IF line.request = beetle[b].last.request THEN "Accepted" ELSE "PeerBusy"))]
                   /\ UNCHANGED <<boards, events>>
              ELSE IF line.request = beetle[b].last.request
              THEN up' = [up EXCEPT ![b] = @ \o Replay(b)] /\ UNCHANGED <<boards, events>>
              ELSE Accept(b, line.request, line.target)
    /\ UNCHANGED <<server, coordinator>>

\* The task has the record in hand; loop() hears of its results later.
Work(b, worker, image, stored, told) ==
    /\ beetle' = [beetle EXCEPT ![b] = [beetle[b] EXCEPT !.worker = worker, !.image = image,
                                                         !.stored = stored, !.told = @ \o told]]
    /\ UNCHANGED <<server, coordinator, lines, unstored>>
With(record, result) == [record EXCEPT !.result = result]

\* The network, the signed target, and its download into the other partition.
Download(b) ==
    /\ beetle[b].worker = "begun" /\ beetle[b].stored.target > beetle[b].fw
    /\ Work(b, "flashing", beetle[b].image, beetle[b].stored, <<>>) /\ UNCHANGED events

\* The partition is switched; then the record says so.
Commit(b) ==
    /\ beetle[b].worker = "flashing"
    /\ Work(b, "committed", beetle[b].stored.target, beetle[b].stored, <<>>) /\ UNCHANGED events

Announce(b) ==
    /\ beetle[b].worker = "committed"
    /\ LET record == With(beetle[b].stored, "Flashing")
       IN Work(b, "leaving", beetle[b].image, record, <<record>>)
    /\ UNCHANGED events

\* The end of the task; where the result cannot be stored Accepted stays.
Ends(b, result) ==
    LET record == With(beetle[b].stored, result)
    IN \/ Work(b, "ended", beetle[b].image, record, <<record>>)
       \/ Work(b, "ended", beetle[b].image, beetle[b].stored, <<record>>) /\ events' > events

Skip(b) ==
    /\ beetle[b].worker = "begun" /\ beetle[b].stored.target = beetle[b].fw
    /\ Event \/ UNCHANGED events
    /\ Ends(b, "Skipped")

\* An older target, no task, no network, or an image that does not verify.
FailWork(b) ==
    /\ \/ beetle[b].worker = "begun" /\ beetle[b].stored.target < beetle[b].fw /\ UNCHANGED events
       \/ beetle[b].worker \in {"begun", "flashing"} /\ Event
    /\ Ends(b, "Failed")

\* OtaPoll
Hear(b) ==
    /\ beetle[b].told # <<>>
    /\ LET record == Head(beetle[b].told)
           last == record.result \notin {"Accepted", "Flashing"}
       IN /\ beetle' = [beetle EXCEPT ![b] = [beetle[b] EXCEPT !.last = record, !.told = Tail(@),
                                                               !.worker = IF last THEN "none" ELSE @]]
          /\ up' = [up EXCEPT ![b] = Append(@, Outcome(b, record.request, record.result))]
    /\ UNCHANGED <<server, coordinator, down, unstored, events>>

\* Mutant: an attempt that was cut short is left as it was.
Recovered_Pending(record, fw, boot) == record

\* recover(): what a boot makes of the record it finds
Recovered(record, fw, boot) ==
    IF record = NoRecord \/ record.result = "Failed" THEN record
    ELSE IF record.result \in {"Accepted", "Flashing"}
    THEN With(record, IF fw = record.target /\ fw > record.oldFw /\ boot # record.oldBoot
                      THEN "Updated" ELSE "Failed")
    ELSE IF fw = record.target THEN record ELSE With(record, "Failed")

Restarts(b) ==
    LET old == beetle[b]
        record == Recovered(old.stored, old.image, old.boot + 1)
    IN /\ beetle' = [beetle EXCEPT ![b] =
                       [fw |-> old.image, image |-> old.image, boot |-> old.boot + 1, stored |-> record,
                        last |-> record, worker |-> "none", told |-> <<>>, rfid |-> FALSE]]
       /\ down' = [down EXCEPT ![b] = <<>>]
       /\ up' = [up EXCEPT ![b] = Append(@, [kind |-> "hello"])]
       /\ UNCHANGED <<server, coordinator, unstored>>

\* The restart into the new image; power cuts, panics and the watchdog, which
\* also ends a task that takes too long.
Leave(b) == beetle[b].worker = "leaving" /\ Restarts(b) /\ UNCHANGED events
Crash(b) == Event /\ Restarts(b)

\* The reader is set up in the loop; a heartbeat nobody asked for is left out, for
\* it says no more than the answer to a probe.
RfidInit(b) ==
    /\ ~Busy(b) /\ ~beetle[b].rfid
    /\ beetle' = [beetle EXCEPT ![b].rfid = TRUE]
    /\ UNCHANGED <<server, coordinator, lines, unstored, events>>

Lose(b) ==
    /\ \/ down[b] # <<>> /\ down' = [down EXCEPT ![b] = Tail(@)] /\ UNCHANGED up
       \/ up[b] # <<>> /\ up' = [up EXCEPT ![b] = Tail(@)] /\ UNCHANGED down
    /\ Event /\ UNCHANGED <<server, coordinator, boards>>

-----------------------------------------------------------------------------
(***************************************************************************)
(* The coordinator's view of the board in hand: BeetleOtaPeer              *)
(***************************************************************************)
Board(stage) == IF stage \in {"DiscoverMain", "UpdateMain"} THEN "main" ELSE "sub"
Discovering == ttgo.stage \in {"DiscoverMain", "DiscoverSub"}
Updating == ttgo.stage \in {"UpdateMain", "UpdateSub"}
Active == ttgo.stage # "Idle"
Target == TargetOf[ttgo.expected]

Discover(request) ==
    [state |-> "discovering", request |-> request, target |-> 0, fw |-> 0, boot |-> 0, oldFw |-> 0,
     oldBoot |-> 0, seen |-> FALSE, proof |-> FALSE, updated |-> <<>>, skipped |-> 0]

\* confirmUpdated and confirmSkipped
Confirm(p) ==
    IF p.proof /\ (\/ p.updated = <<p.fw, p.boot>>
                   \/ p.skipped = p.boot /\ p.fw = p.oldFw)
    THEN [p EXCEPT !.state = "ready"] ELSE p

ReceiveVersion(p, line) ==
    LET q == [p EXCEPT !.fw = line.fw, !.boot = line.boot]
    IN CASE p.state = "discovering" -> [q EXCEPT !.state = "capable"]
         [] p.state = "waiting" -> Confirm([q EXCEPT !.proof = TRUE])
         [] OTHER -> q

\* Mutant: progress is taken for the end of it.
ReceiveOutcome_Trusting(p, line) ==
    LET q == [p EXCEPT !.seen = TRUE]
    IN CASE line.result \in {"Accepted", "Flashing", "Updated", "Skipped"} -> [q EXCEPT !.state = "ready"]
         [] line.result = "Failed" -> [p EXCEPT !.state = "failed"]
         [] OTHER -> p

\* Waiting and InDoubt are one state: only the log tells them apart.
ReceiveOutcome(p, line) ==
    LET q == [p EXCEPT !.seen = TRUE]
    IN CASE line.result \in {"Accepted", "Flashing"} -> q
         [] line.result = "Skipped" ->
              IF line.fw # p.oldFw \/ line.fw # p.target THEN [q EXCEPT !.state = "failed"]
              ELSE IF line.boot = p.oldBoot THEN [q EXCEPT !.state = "ready"]
              ELSE Confirm([q EXCEPT !.skipped = line.boot])
         [] line.result = "Updated" ->
              IF line.fw <= p.oldFw \/ line.fw # p.target \/ line.boot = p.oldBoot
              THEN [q EXCEPT !.state = "failed"]
              ELSE Confirm([q EXCEPT !.updated = <<line.fw, line.boot>>])
         [] line.result = "Failed" -> [p EXCEPT !.state = "failed"]
         [] line.result = "PeerBusy" -> p

\* ServiceBeetleLinks, HandleBeetleFrame, HandleBeetleOtaResponse: the lines are read
\* all along, also inside the blocking calls.
Receive(b) ==
    /\ up[b] # <<>> /\ up' = [up EXCEPT ![b] = Tail(@)]
    /\ LET line == Head(up[b])
           mine == (Discovering \/ Updating) /\ b = Board(ttgo.stage)
       IN /\ ttgo' = IF ~mine THEN ttgo
                     ELSE CASE line.kind = "ready" -> [ttgo EXCEPT !.fresh = TRUE]
                            [] line.kind \in {"hello", "error"} -> [ttgo EXCEPT !.fresh = FALSE]
                            [] OTHER -> ttgo
          /\ peer' = IF ~mine \/ line.kind \notin {"version", "outcome"} \/ line.request # peer.request
                     THEN peer
                     ELSE IF line.kind = "version" THEN ReceiveVersion(peer, line)
                     ELSE IF peer.state = "waiting" THEN ReceiveOutcome(peer, line)
                     ELSE peer
    /\ UNCHANGED <<server, saved, installed, requests, restarted, boards, down, events>>

-----------------------------------------------------------------------------
(***************************************************************************)
(* The coordinator's loop                                                  *)
(***************************************************************************)
Send(b, line) == Len(down[b]) < Depth /\ down' = [down EXCEPT ![b] = Append(@, line)]
Query(request) == [kind |-> "query", request |-> request]
Update(request) == [kind |-> "update", request |-> request, target |-> Target]

\* BeginBeetleOtaSequence
Begin(t) == IF t.stage # "Idle" \/ t.my \notin Orders \/ t.clearing THEN t
            ELSE [t EXCEPT !.queued = TRUE, !.expected = t.my]

\* FinishOtaSequence: the order read last, if it is one, is not forgotten.
Finished(t) == Begin([Reset EXCEPT !.my = t.my, !.cur = t.cur])
Finish(t) == ttgo' = Finished(t) /\ peer' = NoPeer

\* DataChanged, after a poll of the row
Poll ==
    /\ ttgo.at = "loop"
    /\ LET t == [ttgo EXCEPT !.my = server.order, !.cur = server.order]
       IN ttgo' = IF Active
                  THEN [t EXCEPT !.cancel = @ \/ server.order # t.expected
                                              \/ (~server.safe /\ t.stage # "Failed")]
                  ELSE IF server.order # ttgo.cur THEN Begin(t) ELSE t
    /\ ttgo' # ttgo
    /\ UNCHANGED <<server, peer, saved, installed, requests, restarted, boards, lines, events>>

\* CheckAllBoardGate: a row that cannot be read defers, which is a stutter.
Safe == server.order = ttgo.expected /\ server.safe

\* StartDiscovery
StartDiscovery(t) ==
    /\ requests' = requests + 1
    /\ ttgo' = [t EXCEPT !.probe = FALSE, !.fresh = FALSE, !.retry = FALSE]
    /\ peer' = Discover(requests + 1)
    /\ Send(Board(t.stage), Query(requests + 1))

StartSequence ==
    /\ ttgo.at = "loop" /\ ~Active /\ ~ttgo.clearing /\ ttgo.queued
    /\ LET t == [ttgo EXCEPT !.my = server.order]
       IN IF server.order # t.expected
          THEN /\ ttgo' = [t EXCEPT !.queued = FALSE, !.expected = NoOrder]
               /\ UNCHANGED <<peer, requests, down>>
          ELSE server.safe /\ StartDiscovery([t EXCEPT !.stage = "DiscoverMain"])
    /\ UNCHANGED <<server, saved, installed, restarted, boards, up, events>>

\* FailOtaSequence, and a peer that failed while it may still be tried again.
GiveUp == ttgo' = [ttgo EXCEPT !.stage = "Failed"] /\ peer' = peer
Retry ==
    LET b == Board(ttgo.stage)
    IN IF ttgo.failures[b] < MaxAttempts - 1
       THEN /\ ttgo' = [ttgo EXCEPT !.stage = IF b = "main" THEN "DiscoverMain" ELSE "DiscoverSub",
                                    !.failures[b] = @ + 1, !.retry = TRUE, !.probe = FALSE]
            /\ peer' = NoPeer
       ELSE GiveUp

Turn == ttgo.at = "loop"
Quiet == UNCHANGED <<server, saved, installed, restarted, boards, up, events>>
Silent == Quiet /\ UNCHANGED <<requests, down>>

\* Mutant: an order that is withdrawn stops the sequence at once.
MayCancel_Always == ttgo.stage # "Failed"

\* Never interrupt a board that may be writing flash.
MayCancel == Discovering \/ ttgo.stage = "ReadyForTtgo"

CancelSequence ==
    /\ Turn /\ Active /\ MayCancel /\ ttgo.cancel
    /\ Finish(ttgo) /\ Silent

RetryDue ==
    /\ Turn /\ Discovering /\ ~ttgo.cancel /\ ttgo.retry
    /\ StartDiscovery(ttgo) /\ Quiet

\* Twelve seconds may pass at any time.
DiscoveryFails ==
    /\ Turn /\ Discovering /\ ~ttgo.cancel /\ ~ttgo.retry /\ peer.state = "discovering"
    /\ Retry /\ Silent

BeginUpdate ==
    /\ Turn /\ Discovering /\ ~ttgo.cancel /\ peer.state = "capable"
    /\ LET t == [ttgo EXCEPT !.my = server.order]
       IN IF ~Safe THEN Finish(t) /\ UNCHANGED down
          ELSE IF Target < peer.fw
          THEN ttgo' = [t EXCEPT !.stage = "Failed"] /\ UNCHANGED <<peer, down>>
          ELSE /\ ttgo' = [t EXCEPT !.stage = IF @ = "DiscoverMain" THEN "UpdateMain" ELSE "UpdateSub"]
               /\ peer' = [peer EXCEPT !.state = "waiting", !.oldFw = peer.fw, !.oldBoot = peer.boot,
                                       !.target = Target]
               /\ Send(Board(ttgo.stage), Update(peer.request))
    /\ UNCHANGED requests /\ Quiet

\* The command is repeated until the board says it is at work; then questions are.
Repeat ==
    /\ Turn
    /\ \/ Discovering /\ ~ttgo.retry /\ ~ttgo.cancel /\ peer.state = "discovering"
       \/ Updating /\ peer.state = "waiting"
    /\ Send(Board(ttgo.stage), IF Updating /\ ~peer.seen THEN Update(peer.request) ELSE Query(peer.request))
    /\ UNCHANGED <<ttgo, peer, requests>> /\ Quiet

UpdateFails ==
    /\ Turn /\ Updating /\ peer.state = "failed"
    /\ Retry /\ Silent

Probe ==
    /\ Turn /\ Updating /\ peer.state = "ready" /\ (ttgo.probe => ~ttgo.fresh)
    /\ ttgo' = [ttgo EXCEPT !.probe = TRUE, !.fresh = ttgo.probe /\ @]
    /\ Send(Board(ttgo.stage), [kind |-> "probe"])
    /\ UNCHANGED <<peer, requests>> /\ Quiet

ProbeFails ==
    /\ Turn /\ Updating /\ peer.state = "ready" /\ ttgo.probe /\ ~ttgo.fresh
    /\ GiveUp /\ Silent

\* AdvanceCompletedBoard; when its reading of the row fails, the board is probed again.
Advance ==
    /\ Turn /\ Updating /\ peer.state = "ready" /\ ttgo.probe /\ ttgo.fresh
    /\ LET t == [ttgo EXCEPT !.my = server.order, !.probe = FALSE]
       IN IF ttgo.cancel THEN Finish(ttgo) /\ UNCHANGED <<requests, down>>
          ELSE IF ~Safe THEN Finish(t) /\ UNCHANGED <<requests, down>>
          ELSE IF ttgo.stage = "UpdateMain" THEN StartDiscovery([t EXCEPT !.stage = "DiscoverSub"])
          ELSE ttgo' = [t EXCEPT !.stage = "ReadyForTtgo"] /\ UNCHANGED <<peer, requests, down>>
    /\ Quiet

-----------------------------------------------------------------------------
(***************************************************************************)
(* The TTGO's own update, and the order's end                              *)
(***************************************************************************)
\* RunSignedTtgoCheck: the record is stored before anything is installed.
TtgoBegins ==
    /\ Turn /\ ttgo.stage = "ReadyForTtgo" /\ ~ttgo.cancel
    /\ IF ~Safe THEN Finish([ttgo EXCEPT !.my = server.order]) /\ UNCHANGED saved
       ELSE /\ ttgo' = [ttgo EXCEPT !.my = server.order, !.at = "check"]
            /\ saved' = IF installed THEN saved ELSE ttgo.expected
            /\ UNCHANGED peer
    /\ UNCHANGED <<server, installed, requests, restarted, boards, lines, events>>

\* Nothing to do, or a failure: either way the order is cleared.
TtgoStays ==
    /\ ttgo.at = "check" /\ ((installed /\ UNCHANGED events) \/ (~installed /\ Event))
    /\ saved' = NoOrder /\ ttgo' = [ttgo EXCEPT !.at = "loop", !.stage = "Failed"]
    /\ UNCHANGED <<server, peer, installed, requests, restarted, boards, lines>>

\* setup() after a restart: RecoverPendingTtgoOta
Booted(new) ==
    /\ ttgo' = IF saved # NoOrder /\ new
               THEN [Reset EXCEPT !.clearing = TRUE, !.expected = saved]
               ELSE Reset
    /\ saved' = IF new THEN saved ELSE NoOrder
    /\ peer' = NoPeer /\ installed' = new
    /\ up' = [b \in Boards |-> <<>>]
    /\ UNCHANGED <<server, requests, boards, down>>

TtgoInstalls ==
    /\ ttgo.at = "check" /\ ~installed
    /\ Booted(TRUE) /\ UNCHANGED <<restarted, events>>

TtgoCrashes ==
    /\ Event /\ restarted' = (restarted \/ Active)
    /\ IF ttgo.at = "check" /\ ~installed THEN \E new \in BOOLEAN : Booted(new) ELSE Booted(installed)

\* ClearGithubOtaState: read, write, read again.  A request that fails is made again.
Clearing == ttgo.stage = "Failed" \/ ttgo.clearing
Cleared(t) ==
    IF ttgo.clearing
    THEN /\ ttgo' = Begin([Reset EXCEPT !.my = t.my, !.cur = t.cur, !.queued = FALSE])
         /\ saved' = NoOrder /\ UNCHANGED peer
    ELSE Finish(t) /\ UNCHANGED saved

ClearReads ==
    /\ Clearing /\ ttgo.at \in {"loop", "reread"}
    /\ LET t == [ttgo EXCEPT !.my = server.order]
       IN IF server.order # ttgo.expected THEN Cleared([t EXCEPT !.at = "loop"])
          ELSE ttgo' = [t EXCEPT !.at = "write"] /\ UNCHANGED <<peer, saved>>
    /\ UNCHANGED <<server, installed, requests, restarted, boards, lines, events>>

ClearWrites ==
    /\ ttgo.at = "write"
    /\ \/ server' = [server EXCEPT !.order = NoOrder] /\ UNCHANGED events
       \/ Event /\ UNCHANGED server
    /\ ttgo' = [ttgo EXCEPT !.at = "reread"]
    /\ UNCHANGED <<peer, saved, installed, requests, restarted, boards, lines>>

-----------------------------------------------------------------------------
(***************************************************************************)
(* The server (external)                                                   *)
(***************************************************************************)
Operator ==
    /\ Event
    /\ \/ \E order \in Orders \cup {NoOrder} : order # server.order /\ server' = [server EXCEPT !.order = order]
       \/ server' = [server EXCEPT !.safe = ~@]
    /\ UNCHANGED <<coordinator, boards, lines>>

Worker(b) == Download(b) \/ Commit(b) \/ Announce(b) \/ Skip(b) \/ FailWork(b) \/ Leave(b)
Sequence == \/ StartSequence \/ CancelSequence \/ RetryDue \/ DiscoveryFails \/ BeginUpdate \/ UpdateFails
            \/ Probe \/ ProbeFails \/ Advance \/ TtgoBegins \/ TtgoStays \/ TtgoInstalls
            \/ ClearReads \/ ClearWrites

Next == \/ \E b \in Boards : \/ Read(b) \/ Worker(b) \/ Hear(b) \/ RfidInit(b) \/ Crash(b) \/ Lose(b)
                             \/ Receive(b)
        \/ Poll \/ Sequence \/ Repeat \/ TtgoCrashes \/ Operator

Spec == Init /\ [][Next]_vars

\* Both boards' loops and tasks run, and the server can be reached.
Fairness ==
    /\ \A b \in Boards : /\ WF_vars(Read(b)) /\ WF_vars(Receive(b)) /\ WF_vars(Worker(b)) /\ WF_vars(Hear(b))
                         /\ WF_vars(RfidInit(b))
    /\ WF_vars(Sequence) /\ WF_vars(Repeat)
FairSpec == Spec /\ Fairness

-----------------------------------------------------------------------------
(***************************************************************************)
(* Properties                                                              *)
(***************************************************************************)
TypeOK ==
    /\ server \in [order : Orders \cup {NoOrder}, safe : BOOLEAN]
    /\ ttgo.stage \in {"Idle", "DiscoverMain", "UpdateMain", "DiscoverSub", "UpdateSub", "ReadyForTtgo", "Failed"}
    /\ ttgo.at \in {"loop", "check", "write", "reread"}
    /\ ttgo.failures \in [Boards -> 0 .. MaxAttempts - 1]
    /\ peer.state \in {"idle", "discovering", "capable", "waiting", "ready", "failed"}
    /\ saved \in Orders \cup {NoOrder} /\ installed \in BOOLEAN
    /\ \A b \in Boards :
          /\ beetle[b].worker \in {"none", "begun", "flashing", "committed", "leaving", "ended"}
          /\ beetle[b].image \in Nat /\ Len(beetle[b].told) <= 1
          /\ beetle[b].worker # "none" => beetle[b].stored # NoRecord
          /\ Len(down[b]) <= Depth

\* The TTGO only begins its own update when both Beetles run the version of the
\* order and neither is at work, whatever was lost, repeated or restarted before
\* (README of the machine: the TTGO goes last).
BeetlesFirst ==
    ttgo.at = "check" => \A b \in Boards : beetle[b].fw = Target /\ ~Busy(b)

\* While no sequence is active, and the door free, no Beetle writes its flash:
\* unless the TTGO restarted during a sequence, or a Beetle could not store a
\* request and met a repetition of it later.
ReleasedIsQuiet ==
    ~Active /\ ~restarted /\ ~unstored => \A b \in Boards : ~Busy(b)

\* A sequence ends, whatever restarts: the door does not stay shut.
SequenceEnds == Active ~> ~Active

=============================================================================

---------------------------- MODULE UdpReceiver ----------------------------
(***************************************************************************)
(* A UDP source of telemetry: the receiver with its reader and consumer    *)
(* threads (omada.py OmadaReceiver, gateway.py GatewayReceiver), and the   *)
(* thread of telemetry_runtime.py that replaces a receiver whose reader    *)
(* has ended: _monitor_omada, or _retry_gateway in the evidence thread.    *)
(*                                                                         *)
(* A receiver starts once; a restart makes another, and the consumers of   *)
(* both would use the same SQLite connection.  Two places are enough for   *)
(* the receivers: that of the present one and that of the one before.      *)
(***************************************************************************)
EXTENDS Integers, Sequences

CONSTANT Capacity   \* of a receiver's queue (256)

Place == {0, 1}
NoOne == -1

VARIABLES
    kind,      \* "omada" or "gateway"
    present,   \* which place self.receiver is
    stop,      \* _stop of each receiver
    done,      \* _producer_done
    reader,    \* "none", "receiving", "datagram" (received, not queued) or "ended"
    consumer,  \* "none", "taking", "storing" or "ended"
    queue,     \* datagrams queued
    owner,     \* the receiver whose consumer opened the store both would use, or NoOne
    monitor,   \* "waiting", "stopped" (stop() said the receiver has ended), "starting" or "ended"
    ending,    \* TelemetryRuntime._stop
    shutdown,  \* TelemetryRuntime.stop: "no", "joining", "stopping", or what it returned
    target     \* the receiver it stops

receiver == <<stop, done, reader, consumer, queue, owner>>
runtime == <<kind, present, monitor, ending, shutdown, target>>
vars == <<receiver, runtime>>

Init ==
    /\ kind \in {"omada", "gateway"}
    /\ present = 0 /\ target = 0
    /\ stop = [p \in Place |-> FALSE] /\ done = [p \in Place |-> FALSE]
    /\ reader = [p \in Place |-> "none"] /\ consumer = [p \in Place |-> "none"]
    /\ queue = [p \in Place |-> 0] /\ owner = NoOne
    /\ monitor = "starting" /\ ending = FALSE /\ shutdown = "no"

\* In gateway.py the reader's end also sets the receiver's _stop.
ReaderStops == kind = "gateway"

-----------------------------------------------------------------------------
(***************************************************************************)
(* The reader: recvfrom, then put_nowait                                   *)
(***************************************************************************)
Receive(p) ==
    /\ reader[p] = "receiving" /\ ~stop[p]
    /\ reader' = [reader EXCEPT ![p] = "datagram"]
    /\ UNCHANGED <<stop, done, consumer, queue, owner, runtime>>

\* A datagram that is filtered, does not parse or finds the queue full is counted and gone.
Submit(p) ==
    /\ reader[p] = "datagram" /\ reader' = [reader EXCEPT ![p] = "receiving"]
    /\ \/ queue[p] < Capacity /\ queue' = [queue EXCEPT ![p] = @ + 1]
       \/ UNCHANGED queue
    /\ UNCHANGED <<stop, done, consumer, owner, runtime>>

\* Broken: the reader's end is not announced.
ReaderEndsSilently(p) ==
    /\ reader[p] = "receiving" /\ reader' = [reader EXCEPT ![p] = "ended"]
    /\ stop' = [stop EXCEPT ![p] = @ \/ ReaderStops]
    /\ UNCHANGED <<done, consumer, queue, owner, runtime>>

\* Asked to stop, or the socket failed.
ReaderEnds(p) ==
    /\ reader[p] = "receiving" /\ reader' = [reader EXCEPT ![p] = "ended"]
    /\ stop' = [stop EXCEPT ![p] = @ \/ ReaderStops]
    /\ done' = [done EXCEPT ![p] = TRUE]
    /\ UNCHANGED <<consumer, queue, owner, runtime>>

-----------------------------------------------------------------------------
(***************************************************************************)
(* The consumer: on_event opens the store when there is none               *)
(***************************************************************************)
Take(p) ==
    /\ consumer[p] = "taking" /\ queue[p] > 0
    /\ queue' = [queue EXCEPT ![p] = @ - 1]
    /\ consumer' = [consumer EXCEPT ![p] = "storing"]
    /\ UNCHANGED <<stop, done, reader, owner, runtime>>

\* The disk reserve or the database may refuse it: counted, and gone.
Store(p) ==
    /\ consumer[p] = "storing" /\ consumer' = [consumer EXCEPT ![p] = "taking"]
    /\ owner' \in IF owner = NoOne THEN {NoOne, p} ELSE {owner}
    /\ UNCHANGED <<stop, done, reader, queue, runtime>>

ConsumerEnds(p) ==
    /\ consumer[p] = "taking" /\ done[p] /\ queue[p] = 0
    /\ consumer' = [consumer EXCEPT ![p] = "ended"]
    /\ owner' = NoOne
    /\ UNCHANGED <<stop, done, reader, queue, runtime>>

-----------------------------------------------------------------------------
(***************************************************************************)
(* start(), is_receiving() and stop() of a receiver                        *)
(***************************************************************************)
IsReceiving(p) == reader[p] \in {"receiving", "datagram"} /\ (ReaderStops => ~stop[p])
Over(p) == reader[p] \in {"none", "ended"} /\ consumer[p] \in {"none", "ended"}

\* A new object: its socket is bound and both threads run, or neither.
Fresh(p, bound) ==
    /\ stop' = [stop EXCEPT ![p] = FALSE]
    /\ done' = [done EXCEPT ![p] = FALSE]
    /\ reader' = [reader EXCEPT ![p] = IF bound THEN "receiving" ELSE "none"]
    /\ consumer' = [consumer EXCEPT ![p] = IF bound THEN "taking" ELSE "none"]
    /\ queue' = [queue EXCEPT ![p] = 0]
    /\ UNCHANGED owner

\* stop() marks and closes at once, then joins both threads for a while.
Mark(p) == stop' = [stop EXCEPT ![p] = TRUE] /\ UNCHANGED <<done, reader, consumer, queue, owner>>

-----------------------------------------------------------------------------
(***************************************************************************)
(* The thread that watches the receiver                                    *)
(***************************************************************************)
\* What stop() returns after its timeout.
Stopped(p) == Over(p)

\* Wakes up, finds the reader ended and asks the receiver to stop.
Watch ==
    /\ monitor = "waiting" /\ ~ending /\ ~IsReceiving(present)
    /\ Mark(present)
    /\ monitor' = IF Stopped(present) THEN "stopped" ELSE "waiting"
    /\ UNCHANGED <<kind, present, ending, shutdown, target>>

\* The flag is read again before another receiver is made.
Decide ==
    /\ monitor = "stopped"
    /\ monitor' = IF ending THEN "ended" ELSE "starting"
    /\ UNCHANGED <<kind, present, ending, shutdown, target, receiver>>

Start(bound) ==
    /\ monitor = "starting" /\ monitor' = "waiting"
    /\ present' = 1 - present /\ Fresh(1 - present, bound)
    /\ UNCHANGED <<kind, ending, shutdown, target>>

WatcherEnds ==
    /\ monitor = "waiting" /\ ending /\ monitor' = "ended"
    /\ UNCHANGED <<kind, present, ending, shutdown, target, receiver>>

-----------------------------------------------------------------------------
(***************************************************************************)
(* TelemetryRuntime.stop: first the watcher, then the receiver             *)
(***************************************************************************)
StopBegins ==
    /\ shutdown = "no"
    /\ ending' = TRUE /\ shutdown' = "joining"
    /\ UNCHANGED <<kind, present, monitor, target, receiver>>

\* Broken: the receiver is stopped while the watcher may still replace it.
JoinedEarly ==
    /\ shutdown = "joining" /\ shutdown' = "stopping"
    /\ target' = present /\ Mark(present)
    /\ UNCHANGED <<kind, present, monitor, ending>>

Joined ==
    /\ shutdown = "joining" /\ monitor = "ended" /\ shutdown' = "stopping"
    /\ target' = present /\ Mark(present)
    /\ UNCHANGED <<kind, present, monitor, ending>>

\* Each join has what is left of the five seconds.
TimedOut ==
    /\ shutdown \in {"joining", "stopping"} /\ shutdown' = "not finished"
    /\ Mark(present)
    /\ UNCHANGED <<kind, present, monitor, ending, target>>

Finished ==
    /\ shutdown = "stopping" /\ Over(target) /\ shutdown' = "finished"
    /\ UNCHANGED <<kind, present, monitor, ending, target, receiver>>

Reader(p) == Receive(p) \/ Submit(p) \/ ReaderEnds(p)
Consumer(p) == Take(p) \/ Store(p) \/ ConsumerEnds(p)
Watcher == Watch \/ Decide \/ (\E bound \in BOOLEAN : Start(bound)) \/ WatcherEnds
Shutdown == StopBegins \/ Joined \/ TimedOut \/ Finished

Next == (\E p \in Place : Reader(p) \/ Consumer(p)) \/ Watcher \/ Shutdown

Spec == Init /\ [][Next]_vars

\* Threads run; a bind that fails is tried again until the port is free.
Fairness ==
    /\ \A p \in Place : WF_vars(Submit(p) \/ (stop[p] /\ ReaderEnds(p))) /\ WF_vars(Consumer(p))
    /\ WF_vars(Watcher) /\ SF_vars(Start(TRUE))
FairSpec == Spec /\ Fairness

-----------------------------------------------------------------------------
\* Types, and the bound of each queue.
TypeOK ==
    /\ kind \in {"omada", "gateway"} /\ present \in Place /\ target \in Place
    /\ stop \in [Place -> BOOLEAN] /\ done \in [Place -> BOOLEAN]
    /\ reader \in [Place -> {"none", "receiving", "datagram", "ended"}]
    /\ consumer \in [Place -> {"none", "taking", "storing", "ended"}]
    /\ queue \in [Place -> 0 .. Capacity] /\ owner \in Place \cup {NoOne}
    /\ monitor \in {"waiting", "stopped", "starting", "ended"} /\ ending \in BOOLEAN
    /\ shutdown \in {"no", "joining", "stopping", "finished", "not finished"}

(***************************************************************************)
(* A stop that says it finished has left no thread of any receiver behind, *)
(* and no datagram in a queue: a receiver that the watcher was replacing   *)
(* meanwhile is not forgotten.                                             *)
(***************************************************************************)
FinishedIsOver == shutdown = "finished" => \A p \in Place : Over(p) /\ queue[p] = 0

(***************************************************************************)
(* A source that stopped receiving receives again, unless the collector is *)
(* being stopped: whatever the reader left in the queue, and however many  *)
(* times the port was taken.                                               *)
(***************************************************************************)
ReceivesAgain == []<>(ending \/ IsReceiving(present))
=============================================================================

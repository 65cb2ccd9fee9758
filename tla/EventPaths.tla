------------------------------ MODULE EventPaths ------------------------------
(***************************************************************************)
(* Three ways into the Windows logger, side by side: the batches of a      *)
(* device (BlackBoxIngest), the datagrams of the network equipment, whose  *)
(* receiver is watched, replaced and stopped (UdpReceiver), and the game   *)
(* server's log of requests, from which silent devices are told            *)
(* (GeneratorWatch), the last two with variables of their own.             *)
(***************************************************************************)
EXTENDS BlackBoxIngest

CONSTANTS
    Capacity,                                                      \* UdpReceiver
    Watched, Always, Others, Silence, GroupMin, GroupWindow, Pause, Late,
    WatchHorizon, WatchEvents                                      \* GeneratorWatch

VARIABLES
    rKind, rPresent, rStop, rDone, rReader, rConsumer, rQueue, rOwner,
    rMonitor, rEnding, rShutdown, rTarget,
    gNow, gDown, gStalled, gServer, gLines, gLast, gClock, gFirst, gResumed,
    gBoot, gBooted, gSession, gStarted, gOpen, gEvents, gLastDown, gDark,
    gBlamed

Receiver == INSTANCE UdpReceiver WITH
     kind <- rKind, present <- rPresent, stop <- rStop, done <- rDone,
     reader <- rReader, consumer <- rConsumer, queue <- rQueue,
     owner <- rOwner, monitor <- rMonitor, ending <- rEnding,
     shutdown <- rShutdown, target <- rTarget

Watch == INSTANCE GeneratorWatch WITH
     Horizon <- WatchHorizon, MaxEvents <- WatchEvents, now <- gNow,
     down <- gDown, stalled <- gStalled, server <- gServer, lines <- gLines,
     last <- gLast, clock <- gClock, first <- gFirst, resumed <- gResumed,
     boot <- gBoot, booted <- gBooted, session <- gSession,
     started <- gStarted, open <- gOpen, events <- gEvents,
     lastDown <- gLastDown, dark <- gDark, blamed <- gBlamed

ASSUME CapacityAssumption == Capacity \in Nat

\* A device is watched in games or always, not both.  A line is late by less than
\* the pause that tells a stalled server, and both together are less than half of
\* the silence that is reported.
ASSUME WatchAssumption ==
    /\ Watched \cap Always = {}
    /\ WatchHorizon \in Nat \ {0} /\ WatchEvents \in Nat
    /\ Silence \in Nat /\ GroupWindow \in Nat /\ Pause \in Nat /\ Late \in Nat
    /\ Late < Pause /\ Pause + Late < Silence \div 2

-----------------------------------------------------------------------------
\* A stop that reports success leaves no thread and no datagram behind
\* (UdpReceiver.FinishedIsOver).
FinishedIsOver == Receiver!TypeOK /\ Receiver!FinishedIsOver

\* No device that kept sending is blamed (GeneratorWatch.OnlyTheDown), and none
\* that stayed down is left out (GeneratorWatch.NobodyMissed).
BlamesRight == Watch!TypeOK /\ Watch!OnlyTheDown /\ Watch!NobodyMissed

=============================================================================

---------------------------- MODULE MCEventPaths ----------------------------
(***************************************************************************)
(* The paths of the Windows logger on which events travel: from devices,   *)
(* servers and network equipment into the journal and out as messages.     *)
(* Small instances of the modules, under the fairness each of them states; *)
(* they share no state, so a behaviour is one of the module chosen first.  *)
(***************************************************************************)
EXTENDS EventPaths

CONSTANTS g1, g2, a

VARIABLES which,
    oScenario, oTruth, oGameOn, oBacklog, oDue, oCycle, oAuthorized,
    oDelivery, oLease, oIncident, oRow, oLink, oEnded, oWorker, oJob, oCard,
    oPosts, oReplies, oPage, oFaults,
    jToday, jReceived, jJournal, jIngest, jInserted, jCursor, jPoll, jRead,
    jIncidents, jKeeps, jMark, jJob, jCrashes, jPruned, jOverdue,
    tWritten, tMade, tStored, tStates, tNextFile, tPoll, tFaults

\* One incident, told on one channel.
MCLive == {[kind |-> [i \in {"a"} |-> "server"], channels |-> {c}, about |-> <<>>] : c \in {"slack", "notion"}}

\* Three log files; the first has a line longer than MaxLine.
MCEnds == <<<<2, 7, 9>>, <<2, 4>>, <<2>>>>
MCValid == <<{1, 3}, {2}, {1}>>
MCCuts == <<{1, 6, 9}, {3, 4}, {2}>>

Outbox == INSTANCE IncidentOutbox WITH
     Scenarios <- MCLive, MaxBacklog <- 1, MaxAttempts <- 2, MaxFaults <- 1,
     scenario <- oScenario, truth <- oTruth, gameOn <- oGameOn,
     backlog <- oBacklog, due <- oDue, cycle <- oCycle,
     authorized <- oAuthorized, delivery <- oDelivery, lease <- oLease,
     incident <- oIncident, row <- oRow, link <- oLink, ended <- oEnded,
     worker <- oWorker, job <- oJob, card <- oCard, posts <- oPosts, replies <- oReplies,
     page <- oPage, faults <- oFaults
oVars == <<oScenario, oTruth, oGameOn, oBacklog, oDue, oCycle, oAuthorized,
            oDelivery, oLease, oIncident, oRow, oLink, oEnded, oWorker, oJob,
            oCard, oPosts, oReplies, oPage, oFaults>>

Journal == INSTANCE EvidenceJournal WITH
     Records <- {1, 2}, Lasting <- {2}, WindowDays <- {}, LastArrival <- 2,
     LastDay <- 3, FullDays <- 1, EvidenceDays <- 2, RescanDays <- 2,
     ImportPage <- 1, MaxCrashes <- 1, MaxIngest <- 3, today <- jToday,
     received <- jReceived, journal <- jJournal, ingest <- jIngest,
     inserted <- jInserted, cursor <- jCursor, poll <- jPoll, read <- jRead,
     incidents <- jIncidents, keeps <- jKeeps, mark <- jMark, job <- jJob,
     crashes <- jCrashes, pruned <- jPruned, overdue <- jOverdue
jVars == <<jToday, jReceived, jJournal, jIngest, jInserted, jCursor, jPoll,
            jRead, jIncidents, jKeeps, jMark, jJob, jCrashes, jPruned,
            jOverdue>>

rVars == <<rKind, rPresent, rStop, rDone, rReader, rConsumer, rQueue, rOwner,
            rMonitor, rEnding, rShutdown, rTarget>>

gVars == <<gNow, gDown, gStalled, gServer, gLines, gLast, gClock, gFirst,
            gResumed, gBoot, gBooted, gSession, gStarted, gOpen, gEvents,
            gLastDown, gDark, gBlamed>>

LogTail == INSTANCE ServerTail WITH
     Ends <- MCEnds, Valid <- MCValid, Cuts <- MCCuts, MaxLine <- 2,
     Chunk <- 4, RowBudget <- 2, MaxFiles <- 2, MaxFaults <- 1,
     written <- tWritten, made <- tMade, stored <- tStored, states <- tStates,
     nextFile <- tNextFile, poll <- tPoll, faults <- tFaults
tVars == <<tWritten, tMade, tStored, tStates, tNextFile, tPoll, tFaults>>

Parts == {"outbox", "journal", "ingest", "receiver", "watch", "tail"}
pathsVars == <<which, oVars, jVars, vars, rVars, gVars, tVars>>

\* A part that is not the chosen one stays in one initial state.
PathsInit ==
    /\ which \in Parts
    /\ Outbox!Init /\ (which # "outbox" => oScenario.channels = {"slack"})
    /\ Journal!Init
    /\ Init
    /\ Receiver!Init /\ (which # "receiver" => rKind = "omada")
    /\ Watch!Init
    /\ LogTail!Init

PathsNext ==
    /\ UNCHANGED which
    /\ \/ which = "outbox" /\ Outbox!Next /\ UNCHANGED <<jVars, vars, rVars, gVars, tVars>>
       \/ which = "journal" /\ Journal!Next /\ UNCHANGED <<oVars, vars, rVars, gVars, tVars>>
       \/ which = "ingest" /\ Next /\ UNCHANGED <<oVars, jVars, rVars, gVars, tVars>>
       \/ which = "receiver" /\ Receiver!Next /\ UNCHANGED <<oVars, jVars, vars, gVars, tVars>>
       \/ which = "watch" /\ Watch!Next /\ UNCHANGED <<oVars, jVars, vars, rVars, tVars>>
       \/ which = "tail" /\ LogTail!Next /\ UNCHANGED <<oVars, jVars, vars, rVars, gVars>>

\* The fairness of each part, which binds it when it is the chosen one.
PathsFairness ==
    /\ WF_oVars(which = "outbox" /\ Outbox!Cycle /\ Outbox!ProcessLoop)
    /\ SF_oVars(which = "outbox" /\ Outbox!ProcessSnapshot /\ oBacklog[1].complete /\ Outbox!ProcessLoop)
    /\ SF_oVars(which = "outbox" /\ oLease.valid /\ Outbox!CycleEnds /\ Outbox!ProcessLoop)
    /\ SF_oVars(which = "outbox" /\ Outbox!Snapshot(TRUE) /\ Outbox!Environment)
    /\ SF_oVars(which = "outbox" /\ oAuthorized /\ Outbox!ClaimAny /\ Outbox!Work)
    /\ SF_oVars(which = "outbox" /\ Outbox!Build /\ Outbox!Work)
    /\ WF_oVars(which = "outbox" /\ ((Outbox!Revoked /\ Outbox!Work) \/ Outbox!Send \/ Outbox!Finish))
    /\ WF_jVars(which = "journal" /\ Journal!Importer)
    /\ WF_vars(which = "ingest" /\ Work)
    /\ WF_tVars(which = "tail" /\ LogTail!Tailing)
    /\ \A p \in Receiver!Place :
          /\ WF_rVars(which = "receiver" /\ (Receiver!Submit(p) \/ (rStop[p] /\ Receiver!ReaderEnds(p))))
          /\ WF_rVars(which = "receiver" /\ Receiver!Consumer(p))
    /\ WF_rVars(which = "receiver" /\ Receiver!Watcher)
    /\ SF_rVars(which = "receiver" /\ Receiver!Start(TRUE))
PathsSpec == PathsInit /\ [][PathsNext]_pathsVars /\ PathsFairness

-----------------------------------------------------------------------------
\* An announced incident that has ended is followed up, on every channel it was
\* announced on, whatever failed before (IncidentOutbox.FollowedUp).
FollowedUp == which = "outbox" => Outbox!FollowedUp

\* Every acknowledged record is in the journal some day, or retention has its
\* reason for leaving it out (EvidenceJournal.Imported).
Imported == which = "journal" => Journal!Imported

\* The worker of a closing collector empties the queue and ends
\* (BlackBoxIngest.Drains).
IngestDrains == which = "ingest" => Drains

\* A receiver that failed is replaced until the runtime ends
\* (UdpReceiver.ReceivesAgain).
ReceivesAgain == which = "receiver" => Receiver!ReceivesAgain

\* Each valid finished line of a file that stays is stored some day
\* (ServerTail.EachLineStored, with the types of that module).
EachLineStored == []LogTail!TypeOK /\ (which = "tail" => LogTail!EachLineStored)

=============================================================================

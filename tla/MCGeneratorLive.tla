--------------------------- MODULE MCGeneratorLive ---------------------------
(***************************************************************************)
(* What a generator gets done: its completions, and the requests of its    *)
(* queue, as small instances of the two modules under the fairness each of *)
(* them states.  GeneratorCompletion has a queue of its own of two         *)
(* requests, so that the modules share no state here, and a behaviour is   *)
(* one of the module chosen first.                                         *)
(***************************************************************************)
EXTENDS MCGeneratorCompletion

VARIABLES which,
    qSlots, qActive, qAge, qNextId, qGeneration, qTagToken, qCompletionToken,
    qWireGeneration, qPending, qTransaction, qAwaitingRefresh, qMaintenance,
    qOtaRestart, qFence, qMailbox, qWorker, qUrgentRun, qMain, qSent,
    qWithdrawn, qOvertaken

qVars == <<qSlots, qActive, qAge, qNextId, qGeneration, qTagToken, qCompletionToken,
           qWireGeneration, qPending, qTransaction, qAwaitingRefresh, qMaintenance,
           qOtaRestart, qFence, qMailbox, qWorker, qUrgentRun, qMain, qSent,
           qWithdrawn, qOvertaken>>

\* The reads whose owner has no deadline of its own: heartbeats, the snapshots they
\* ask for, and card lookups.
Requests == INSTANCE NetworkQueue WITH
     NumSlots <- 3, Kinds <- {"Poll", "Tag"}, MaxId <- 3, MaxEpoch <- 2,
     slots <- qSlots, active <- qActive, age <- qAge, nextId <- qNextId,
     generation <- qGeneration, tagToken <- qTagToken,
     completionToken <- qCompletionToken, wireGeneration <- qWireGeneration,
     pending <- qPending, transaction <- qTransaction,
     awaitingRefresh <- qAwaitingRefresh, maintenance <- qMaintenance,
     otaRestart <- qOtaRestart, fence <- qFence, mailbox <- qMailbox,
     worker <- qWorker, urgentRun <- qUrgentRun, main <- qMain, sent <- qSent,
     withdrawn <- qWithdrawn, overtaken <- qOvertaken

liveVars == <<which, vars, qVars>>

\* The part that is not the chosen one stays in one initial state.
LiveInit ==
    /\ which \in {"completion", "queue"}
    /\ Init /\ (which = "queue" => server.count = Maximum)
    /\ Requests!Init

LiveNext ==
    /\ UNCHANGED which
    /\ \/ which = "completion" /\ Next /\ UNCHANGED qVars
       \/ which = "queue" /\ Requests!Next /\ UNCHANGED vars

\* The fairness of the part that is chosen.
CompletionFairness ==
    /\ WF_vars(which = "completion" /\ (SendDiscard \/ SendDispatch))
    /\ WF_vars(which = "completion" /\ SendAnswered)
    /\ WF_vars(which = "completion" /\ ReadAnswered)
    /\ WF_vars(which = "completion" /\ Answers)
    /\ WF_vars(which = "completion" /\ ServiceVerify)
    /\ WF_vars(which = "completion" /\ FaultRead)
    /\ SF_vars(which = "completion" /\ FullSnapshot)
    /\ WF_vars(which = "completion" /\ ProtocolProbe)
    /\ WF_vars(which = "completion" /\ Settle)

QueueFairness ==
    /\ SF_qVars(which = "queue" /\ (Requests!WorkerProceeds \/ Requests!WorkerSelect(FALSE)))
    /\ WF_qVars(which = "queue" /\ Requests!Deliver)
    /\ WF_qVars(which = "queue" /\ Requests!Withdraw)
    /\ WF_qVars(which = "queue" /\ (Requests!RecoveryLifted \/ Requests!RecoveryRestart))
    /\ \A i \in Requests!Slots : WF_qVars(which = "queue" /\ Requests!Grow(i))

LiveSpec == LiveInit /\ [][LiveNext]_liveVars /\ CompletionFairness /\ QueueFairness

-----------------------------------------------------------------------------
\* Even if Wi-Fi never comes back, the owner of a read hears of it
\* (NetworkQueue.ReadsAnswered).
ReadsAnswered == which = "queue" => Requests!ReadsAnswered

=============================================================================

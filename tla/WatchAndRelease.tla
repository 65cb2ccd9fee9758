--------------------------- MODULE WatchAndRelease ---------------------------
(***************************************************************************)
(* What the Windows logger decides by itself (what retention may delete,   *)
(* where a record belongs in time), the two release scripts, the update of *)
(* a tag machine's boards and the restarts of a generator, side by side:   *)
(* an instance of each module, with variables of its own, and what each of *)
(* them promises.                                                          *)
(***************************************************************************)
EXTENDS EvidenceJournal, Sequences

CONSTANTS
    ClockHorizon, Wrap, MaxSeq, MaxBoot, Tokens, Patience, Interval, Guard,
    MaxDelta, Drift, StepSizes, MaxSteps,                          \* ClockProbe
    VersionOf, Builds, MaxJobs, MaxFaults,                         \* ReleaseArchive
    Units, Supported, BaselineUnits, IdOf, NoId, Addresses, None, MaxCount,
    StablePolls, AwayPolls, MaxEditions,                           \* UsbUpload
    TargetOf, BoardVersions, BoardAttempts, Depth, BoardEvents,    \* BeetleOta
    KnownDelay, FirstDelay, Delays, Stable, ServerFresh, AbortAfter,
    UpdateAttempts, RecoveryEvents                                 \* OfflineRecovery

VARIABLES
    cNow, cOffset, cStepped, cSkew, cBoot, cBooted, cWaiting, cRecords,
    cCovered, cPending, cAsked, cReplies, cAnchors,
    aTree, aHead, aRemote, aJob, aRelease, aTag, aChannel, aBoard, aJobs,
    aFaults,
    uAt, uPage, uRun, uLoose, uWritten,
    bServer, bTtgo, bPeer, bSaved, bInstalled, bBeetle, bDown, bUp, bRequests,
    bRestarted, bUnstored, bEvents,
    rLink, rOrder, rHistory, rUpdates, rRun, rPast, rEvents

\* Boards and addresses that may be plugged in, and a number of polls to wait for.
ASSUME UploadAssumption ==
    /\ Supported \subseteq Units /\ BaselineUnits \subseteq Units
    /\ None \notin Units /\ None \notin Addresses
    /\ MaxCount \in Nat /\ StablePolls \in Nat \ {0} /\ AwayPolls \in Nat
    /\ MaxEditions \in Nat

\* The delays grow, the first of them is no shorter than the waits before it, and
\* maintenance without Wi-Fi is given up no later than any of them.
ASSUME RecoveryAssumption ==
    /\ Delays \in Seq(Nat) /\ Len(Delays) >= 1
    /\ \A i, j \in 1 .. Len(Delays) : i <= j => Delays[i] <= Delays[j]
    /\ AbortAfter \in Nat /\ KnownDelay \in Nat /\ FirstDelay \in Nat
    /\ 1 <= AbortAfter /\ AbortAfter <= KnownDelay /\ KnownDelay <= FirstDelay
    /\ FirstDelay <= Delays[1]
    /\ Stable \in Nat /\ ServerFresh \in Nat /\ UpdateAttempts \in Nat /\ RecoveryEvents \in Nat

\* There is a source tree, and each states a version.
ASSUME ArchiveAssumption ==
    /\ VersionOf \in Seq(Nat) /\ Len(VersionOf) >= 1
    /\ MaxJobs \in Nat /\ MaxFaults \in Nat

\* An order names a version, and "none" is not an order; a board is tried at least once.
ASSUME BeetleAssumption ==
    /\ TargetOf \in [DOMAIN TargetOf -> Nat] /\ "none" \notin DOMAIN TargetOf
    /\ BoardVersions \subseteq Nat /\ BoardAttempts \in Nat \ {0} /\ Depth \in Nat

\* The PC's clock is set once at most, and not back by just the guard, which the
\* rounding of the uptimes would then exceed.
ASSUME ClockAssumption ==
    /\ ClockHorizon \in Nat /\ Wrap \in Nat \ {0} /\ MaxSeq \in Nat /\ MaxBoot \in Nat \ {0}
    /\ Interval \in Nat /\ Drift \in Nat \ {0} /\ Guard \in Nat \ {0}
    /\ StepSizes \subseteq Int /\ -Guard \notin StepSizes /\ MaxSteps \in 0 .. 1

Clock == INSTANCE ClockProbe WITH
     Horizon <- ClockHorizon, now <- cNow, offset <- cOffset,
     stepped <- cStepped, skew <- cSkew, boot <- cBoot, booted <- cBooted,
     waiting <- cWaiting, records <- cRecords, covered <- cCovered,
     pending <- cPending, asked <- cAsked, replies <- cReplies,
     anchors <- cAnchors

Archive == INSTANCE ReleaseArchive WITH
     tree <- aTree, head <- aHead, remote <- aRemote, job <- aJob,
     release <- aRelease, tag <- aTag, channel <- aChannel, board <- aBoard,
     jobs <- aJobs, faults <- aFaults

Upload == INSTANCE UsbUpload WITH
     Baseline <- BaselineUnits,
     at <- uAt, page <- uPage, run <- uRun, loose <- uLoose,
     written <- uWritten

Beetles == INSTANCE BeetleOta WITH
     Versions <- BoardVersions, MaxAttempts <- BoardAttempts,
     MaxEvents <- BoardEvents,
     server <- bServer, ttgo <- bTtgo, peer <- bPeer, saved <- bSaved,
     installed <- bInstalled, beetle <- bBeetle, down <- bDown, up <- bUp,
     requests <- bRequests, restarted <- bRestarted, unstored <- bUnstored,
     events <- bEvents

Recovery == INSTANCE OfflineRecovery WITH
     MaxAttempts <- UpdateAttempts, MaxEvents <- RecoveryEvents,
     link <- rLink, order <- rOrder, history <- rHistory,
     updates <- rUpdates, run <- rRun, past <- rPast, events <- rEvents

-----------------------------------------------------------------------------
\* The interval that alignment gives a record holds the time it was written
\* at (ClockProbe.PlacedRight).
PlacedRight == Clock!TypeOK /\ Clock!PlacedRight

\* A public archive is whole and of one build, and a target that a board accepts
\* names a public archive with that image (ReleaseArchive.Pinned, Pointed).
Archived == Archive!TypeOK /\ Archive!Pinned /\ Archive!Pointed

\* Only the reviewed image is written, to boards that were plugged in for it
\* (UsbUpload.OnlyFresh).
OnlyFresh == Upload!TypeOK /\ Upload!OnlyFresh

\* The TTGO goes last, and no Beetle is at work while the door is free
\* (BeetleOta.BeetlesFirst, ReleasedIsQuiet).
BeetlesSafe == Beetles!TypeOK /\ Beetles!BeetlesFirst /\ Beetles!ReleasedIsQuiet

\* A generator restarts neither in a storm nor never (OfflineRecovery.NoStorm,
\* UpdatesRationed, NeverGivesUp): its worker exists and its driver is sound.
RestartsRationed ==
    Recovery!TypeOK /\ Recovery!NoStorm /\ Recovery!UpdatesRationed /\ Recovery!NeverGivesUp

=============================================================================

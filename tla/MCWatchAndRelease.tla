-------------------------- MODULE MCWatchAndRelease -------------------------
(***************************************************************************)
(* Small instances of the modules of WatchAndRelease.  They share no       *)
(* state, so a behaviour is one of the module chosen first.                *)
(***************************************************************************)
EXTENDS WatchAndRelease

CONSTANTS u1, u2, u3, p1, p2

VARIABLE which

\* The clock steps back or forth.
MCStepSizes == {-2, 1}

\* Two commits of one version and one of the next.
MCVersionOf == <<1, 1, 2>>

\* Two orders, for the version before and the version after.
MCTargets == [new |-> 2, old |-> 1]

\* 300 and 900 seconds, next to which the first delays are short.
MCDelays == <<3, 4>>

\* One unit reports no serial number.
MCIds == [u \in {u1, u2, u3} |-> IF u = u3 THEN NoId ELSE u]

cVars == <<cNow, cOffset, cStepped, cSkew, cBoot, cBooted, cWaiting,
            cRecords, cCovered, cPending, cAsked, cReplies, cAnchors>>
aVars == <<aTree, aHead, aRemote, aJob, aRelease, aTag, aChannel, aBoard,
            aJobs, aFaults>>
uVars == <<uAt, uPage, uRun, uLoose, uWritten>>
bVars == <<bServer, bTtgo, bPeer, bSaved, bInstalled, bBeetle, bDown, bUp,
            bRequests, bRestarted, bUnstored, bEvents>>
rVars == <<rLink, rOrder, rHistory, rUpdates, rRun, rPast, rEvents>>

Parts == {"journal", "clock", "archive", "upload", "beetles", "recovery"}
choiceVars == <<which, vars, cVars, aVars, uVars, bVars, rVars>>

\* A part that is not the chosen one stays in one initial state.
ChoiceInit ==
    /\ which \in Parts
    /\ Init
    /\ Clock!Init /\ (which # "clock" => cSkew = 0)
    /\ Archive!Init
    /\ Upload!Init
    /\ which # "upload" =>
          uAt = [u \in {u1, u2, u3} |-> None] /\ uRun.asked = None /\ uRun.left = 1
    /\ Beetles!Init
    /\ which # "beetles" => bServer.order = "new" /\ ~bInstalled
    /\ Recovery!Init
    /\ which # "recovery" => rLink /\ rOrder = "other"

ChoiceNext ==
    /\ UNCHANGED which
    /\ \/ which = "journal" /\ Next /\ UNCHANGED <<cVars, aVars, uVars, bVars, rVars>>
       \/ which = "clock" /\ Clock!Next /\ UNCHANGED <<vars, aVars, uVars, bVars, rVars>>
       \/ which = "archive" /\ Archive!Next /\ UNCHANGED <<vars, cVars, uVars, bVars, rVars>>
       \/ which = "upload" /\ Upload!Next /\ UNCHANGED <<vars, cVars, aVars, bVars, rVars>>
       \/ which = "beetles" /\ Beetles!Next /\ UNCHANGED <<vars, cVars, aVars, uVars, rVars>>
       \/ which = "recovery" /\ Recovery!Next /\ UNCHANGED <<vars, cVars, aVars, uVars, bVars>>

ChoiceSpec == ChoiceInit /\ [][ChoiceNext]_choiceVars

=============================================================================

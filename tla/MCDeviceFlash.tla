---------------------------- MODULE MCDeviceFlash ---------------------------
(***************************************************************************)
(* What a board keeps in flash across restarts and power cuts: the ring of *)
(* black-box records, small enough that a sector still holds a loss marker *)
(* and a record, and the update of a tag machine's boards with one order   *)
(* and one attempt.  They share no state: a behaviour is one of them.      *)
(***************************************************************************)
EXTENDS BlackBoxRing

VARIABLES which,
    bServer, bTtgo, bPeer, bSaved, bInstalled, bBeetle, bDown, bUp, bRequests,
    bRestarted, bUnstored, bEvents

Beetles == INSTANCE BeetleOta WITH
     TargetOf <- [new |-> 2], Versions <- {1}, MaxAttempts <- 1, Depth <- 1,
     MaxEvents <- 1, server <- bServer, ttgo <- bTtgo, peer <- bPeer,
     saved <- bSaved, installed <- bInstalled, beetle <- bBeetle,
     down <- bDown, up <- bUp, requests <- bRequests,
     restarted <- bRestarted, unstored <- bUnstored, events <- bEvents
bVars == <<bServer, bTtgo, bPeer, bSaved, bInstalled, bBeetle, bDown, bUp,
            bRequests, bRestarted, bUnstored, bEvents>>


Alone == Init /\ Beetles!Init
FlashInit == which \in {"ring", "beetles"} /\ Alone /\ (which = "ring" => ~bInstalled)
FlashNext == /\ UNCHANGED which
             /\ \/ which = "ring" /\ Next /\ UNCHANGED bVars
                \/ which = "beetles" /\ Beetles!Next /\ UNCHANGED vars

\* The fairness of each part, which binds it when it is the chosen one.
FlashFairness ==
    /\ WF_vars(which = "ring" /\ Flashing) /\ WF_vars(which = "ring" /\ Open)
    /\ WF_vars(which = "ring" /\ Reopen) /\ SF_vars(which = "ring" /\ Snapshot)
    /\ WF_vars(which = "ring" /\ Commit) /\ SF_vars(which = "ring" /\ Acknowledge)
    /\ \A b \in Beetles!Boards :
          /\ WF_bVars(which = "beetles" /\ Beetles!Read(b))
          /\ WF_bVars(which = "beetles" /\ Beetles!Receive(b))
          /\ WF_bVars(which = "beetles" /\ Beetles!Worker(b))
          /\ WF_bVars(which = "beetles" /\ Beetles!Hear(b))
          /\ WF_bVars(which = "beetles" /\ Beetles!RfidInit(b))
    /\ WF_bVars(which = "beetles" /\ Beetles!Sequence)
    /\ WF_bVars(which = "beetles" /\ Beetles!Repeat)

FlashSpec == FlashInit /\ [][FlashNext]_<<which, vars, bVars>> /\ FlashFairness

-----------------------------------------------------------------------------
\* While it may, the ring delivers each record it holds (BlackBoxRing.Delivered).
RingDelivered == which = "ring" => Delivered

\* An update of a tag machine's boards ends, whatever restarts or is lost
\* (BeetleOta.SequenceEnds).
SequenceEnds == which = "beetles" => Beetles!SequenceEnds

=============================================================================

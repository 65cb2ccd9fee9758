---------------------------- MODULE WireVerdict ----------------------------
(***************************************************************************)
(* What the wire sampler of HAS1_generator promises to the main task: a    *)
(* count of plugged connectors that is published only from a settled vote, *)
(* never jumps while it is qualified, and starts again from "unknown" at   *)
(* every reset.  WireVote implements it; WireSync builds on it.            *)
(***************************************************************************)
EXTENDS Integers

CONSTANTS
    Counts,        \* the counts of plugged connectors (0..4 on the device)
    Generations    \* what tells one reset from the next (32-bit numbers)

VARIABLES
    generation,    \* GeneratorWireState::generation_, changed by every reset
    qualified,     \* qualified_: the last window gave a verdict for every pin
    stable         \* stable_: the last settled count, Unknown before the first

verdictVars == <<generation, qualified, stable>>

Unknown == -1

TypeOK ==
    /\ generation \in Generations
    /\ qualified \in BOOLEAN
    /\ stable \in Counts \cup {Unknown}

Init ==
    /\ generation \in Generations
    /\ qualified = FALSE
    /\ stable = Unknown

\* A reset forgets the verdict and opens a new generation.
Reset ==
    /\ generation' \in Generations \ {generation}
    /\ qualified' = FALSE
    /\ stable' = Unknown

\* The window became ambiguous: the count is kept but may not be acted upon.
Unsettle ==
    /\ qualified' = FALSE
    /\ UNCHANGED <<generation, stable>>

\* A window settled again, after at least one ambiguous window.
Settle(count) ==
    /\ ~qualified
    /\ qualified' = TRUE
    /\ stable' = count
    /\ UNCHANGED generation

Next ==
    \/ Reset
    \/ Unsettle
    \/ \E count \in Counts : Settle(count)

Spec == Init /\ [][Next]_verdictVars
=============================================================================

----------------------------- MODULE WireVote ------------------------------
(***************************************************************************)
(* The wire input task of HAS1_generator (wire.ino) and the sliding vote   *)
(* it feeds (generator_wire_state.h).  The task looks at the generation    *)
(* under wireStateMux, reads the pins WITHOUT the lock, and commits the    *)
(* sample under the lock again; the main task may reset the vote at any    *)
(* moment between those three steps.                                       *)
(*                                                                         *)
(* The acknowledgement half of GeneratorWireState is touched by the main   *)
(* task only and is modelled in WireSync.                                  *)
(***************************************************************************)
EXTENDS Integers, FiniteSets

CONSTANTS
    Pins,            \* the connectors
    Window,          \* WindowSamples (10)
    Required,        \* RequiredVotes (8)
    MaxGeneration    \* bound on the number of resets explored

ASSUME WireVoteAssumption ==
    /\ IsFiniteSet(Pins)
    /\ Window \in Nat \ {0}
    /\ Required \in 1..Window
    /\ 2 * Required - Window >= 2
    /\ MaxGeneration \in Nat

VARIABLES
    masks,            \* masks_: ring of pin masks, a mask being a set of pins
    sampleCount,      \* sampleCount_
    nextSample,       \* nextSample_
    startupComplete,  \* startupComplete_
    aged,             \* uint32_t(now-firstSample_) >= StableMs
    qualified,        \* qualified_
    stable,           \* stable_
    generation,       \* generation_
    enabled,          \* wireSamplingEnabled
    sampler,          \* local variables and program counter of WireSamplerTick
    plugged,          \* the pins that read LOW now
    \* History variables: they record, and nothing reads them.
    readIn,           \* generation in which the GPIO of each slot was read
    verdict,          \* pins found connected by the last settled window
    since             \* samples committed since that window, up to Evidence

voteVars == <<masks, sampleCount, nextSample, startupComplete, aged, qualified,
              stable, generation, readIn, verdict, since>>
vars == <<voteVars, enabled, sampler, plugged>>

Slots    == 0..(Window - 1)
Counts   == 0..Cardinality(Pins)
Unknown  == -1
Evidence == 2 * Required - Window   \* samples that separate two verdicts

Idle == [at |-> "idle"]
Armed == [at : {"armed"}, generation : Nat]
Observed == [at : {"observed"}, generation : Nat, mask : SUBSET Pins, readIn : Nat]

TypeOK ==
    /\ masks \in [Slots -> SUBSET Pins]
    /\ sampleCount \in 0..Window
    /\ nextSample \in Slots
    /\ startupComplete \in BOOLEAN
    /\ aged \in BOOLEAN
    /\ qualified \in BOOLEAN
    /\ stable \in Counts \cup {Unknown}
    /\ generation \in Nat \ {0}
    /\ enabled \in BOOLEAN
    /\ sampler \in {Idle} \cup Armed \cup Observed
    /\ plugged \in SUBSET Pins
    /\ readIn \in [Slots -> Nat]
    /\ verdict \in SUBSET Pins
    /\ since \in 0..Evidence

Init ==
    /\ masks = [slot \in Slots |-> {}]
    /\ sampleCount = 0
    /\ nextSample = 0
    /\ startupComplete = FALSE
    /\ aged = FALSE
    /\ qualified = FALSE
    /\ stable = Unknown
    /\ generation = 1
    /\ enabled = FALSE
    /\ sampler = Idle
    /\ plugged \in SUBSET Pins
    /\ readIn = [slot \in Slots |-> 0]
    /\ verdict = {}
    /\ since = 0
-----------------------------------------------------------------------------
(* The vote. *)

Votes(window, pin) == Cardinality({slot \in Slots : pin \in window[slot]})

Connected(window) == {pin \in Pins : Votes(window, pin) >= Required}

\* Faulty variant: a pin without enough votes either way counts as unplugged.
Ambiguous_Never(window) == FALSE

\* Neither "connected" nor "disconnected" has the required votes for some pin.
Ambiguous(window) ==
    \E pin \in Pins : /\ Votes(window, pin) < Required
                      /\ Window - Votes(window, pin) < Required

\* Faulty variants: the ring index does not wrap; it does not move.
NextSlot_NoWrap == nextSample + 1
NextSlot_Stuck == nextSample

NextSlot == (nextSample + 1) % Window

\* sampleMask up to the vote: the mask replaces the oldest of the ring.
Record(mask, read) ==
    /\ masks' = [masks EXCEPT ![nextSample] = mask]
    /\ readIn' = [readIn EXCEPT ![nextSample] = read]
    /\ nextSample' = NextSlot
    /\ sampleCount' = IF sampleCount < Window THEN sampleCount + 1 ELSE sampleCount

\* Faulty variant: a vote over a ring that is not full yet.
VoteOpen_NotFull == startupComplete \/ aged

\* The ring is full and the startup second is over.
VoteOpen == /\ sampleCount' = Window
            /\ startupComplete \/ aged

\* Faulty variant: an ambiguous window leaves the old count qualified.
Undecided_Qualified ==
    /\ ~VoteOpen \/ Ambiguous(masks')
    /\ startupComplete' = (startupComplete \/ VoteOpen)
    /\ since' = IF since < Evidence THEN since + 1 ELSE since
    /\ UNCHANGED <<qualified, stable, verdict>>

\* No verdict from this sample; the last stable count stays.
Undecided ==
    /\ ~VoteOpen \/ Ambiguous(masks')
    /\ startupComplete' = (startupComplete \/ VoteOpen)
    /\ qualified' = FALSE
    /\ since' = IF since < Evidence THEN since + 1 ELSE since
    /\ UNCHANGED <<stable, verdict>>

\* Every pin has a verdict: the count is published.
Decided ==
    /\ VoteOpen /\ ~Ambiguous(masks')
    /\ startupComplete' = TRUE
    /\ qualified' = TRUE
    /\ stable' = Cardinality(Connected(masks'))
    /\ verdict' = Connected(masks')
    /\ since' = 0
-----------------------------------------------------------------------------
(* The input task: WireSamplerTick, one action per critical section. *)

SamplerArm ==
    /\ sampler = Idle
    /\ enabled
    /\ sampler' = [at |-> "armed", generation |-> generation]
    /\ UNCHANGED <<voteVars, enabled, plugged>>

\* The four digitalReads happen outside the lock.  Reading them together loses
\* no mask: the pins may move to any set of pins just before the read.
SamplerRead ==
    /\ sampler.at = "armed"
    /\ sampler' = [at |-> "observed", generation |-> sampler.generation,
                   mask |-> plugged, readIn |-> generation]
    /\ UNCHANGED <<voteVars, enabled, plugged>>

\* Faulty variant: the generation is not compared again after the pins were read.
SampleCurrent_AnyGeneration == enabled

\* The sample may be used: sampling is still on and no reset came in between.
SampleCurrent == enabled /\ generation = sampler.generation

SamplerCommit ==
    /\ sampler.at = "observed"
    /\ SampleCurrent
    /\ Record(sampler.mask, sampler.readIn)
    /\ Undecided \/ Decided
    /\ sampler' = Idle
    /\ UNCHANGED <<aged, generation, enabled, plugged>>

SamplerDrop ==
    /\ sampler.at = "observed"
    /\ ~SampleCurrent
    /\ sampler' = Idle
    /\ UNCHANGED <<voteVars, enabled, plugged>>

Sampler == SamplerArm \/ SamplerRead \/ SamplerCommit \/ SamplerDrop
-----------------------------------------------------------------------------
(* The main task and the world. *)

\* WireResetTracking: reset() and the sampling switch in one critical section.
ResetTracking(enable) ==
    /\ generation < MaxGeneration
    /\ masks' = [slot \in Slots |-> {}]
    /\ sampleCount' = 0
    /\ nextSample' = 0
    /\ startupComplete' = FALSE
    /\ aged' = FALSE
    /\ qualified' = FALSE
    /\ stable' = Unknown
    /\ generation' = generation + 1
    /\ enabled' = enable
    /\ readIn' = [slot \in Slots |-> 0]
    /\ verdict' = {}
    /\ since' = 0
    /\ UNCHANGED <<sampler, plugged>>

\* A second has passed since the first sample of the generation.
Age ==
    /\ sampleCount > 0
    /\ ~aged
    /\ aged' = TRUE
    /\ UNCHANGED <<masks, sampleCount, nextSample, startupComplete, qualified, stable,
                   generation, readIn, verdict, since, enabled, sampler, plugged>>

\* A player moves connectors, or a contact bounces.
Replug(pins) ==
    /\ pins # plugged
    /\ plugged' = pins
    /\ UNCHANGED <<voteVars, enabled, sampler>>

Next ==
    \/ Sampler
    \/ \E enable \in BOOLEAN : ResetTracking(enable)
    \/ Age
    \/ \E pins \in SUBSET Pins : Replug(pins)

Spec == Init /\ [][Next]_vars

\* The input task is never blocked for good and the clock runs.
FairSpec == Spec /\ WF_vars(Sampler) /\ WF_vars(Age)
-----------------------------------------------------------------------------
(* Properties. *)

\* No sample whose pins were read before the last reset is ever counted: the
\* vote of a new charge cycle starts from observations of that cycle, although
\* the pins are read outside wireStateMux (wire.ino WireSamplerTick).
NoForeignSample ==
    \A slot \in Slots : slot < sampleCount => readIn[slot] = generation

\* A pin that was found connected (or not) still has enough votes to forbid the
\* opposite verdict until Evidence samples have come in (8-of-10 vote: 6).
VotesRemember ==
    (stable # Unknown /\ since < Evidence) =>
        \A pin \in Pins :
            IF pin \in verdict
            THEN Votes(masks, pin) >= Required - since
            ELSE Window - Votes(masks, pin) >= Required - since

\* Within a generation the set of connected pins behind the published count
\* changes only after Evidence samples that followed the last settled window:
\* a bounce shorter than that cannot move the count (generator_wire_state.h).
FlipNeedsEvidence ==
    [][(generation' = generation /\ stable # Unknown /\ verdict' # verdict)
           => since >= Evidence - 1]_vars

\* A published count is the count of a full window of this generation.
VerdictFromFullWindow ==
    qualified => /\ sampleCount = Window
                 /\ stable = Cardinality(Connected(masks))
                 /\ ~Ambiguous(masks)

\* What ties the history to the vote: used to prove the properties above.
SamplerBehind ==
    /\ sampler.at \in {"armed", "observed"} => sampler.generation <= generation
    /\ sampler.at = "observed" =>
           sampler.generation <= sampler.readIn /\ sampler.readIn <= generation
RingFilled == sampleCount < Window => nextSample = sampleCount
VerdictRecorded ==
    /\ stable # Unknown => stable = Cardinality(verdict)
    /\ qualified => stable # Unknown /\ since = 0

IndInv ==
    /\ TypeOK
    /\ SamplerBehind
    /\ RingFilled
    /\ NoForeignSample
    /\ VotesRemember
    /\ VerdictFromFullWindow
    /\ VerdictRecorded

\* The vote implements the promise that the main task relies on.
Verdict == INSTANCE WireVerdict WITH Generations <- Nat
VerdictSpec == Verdict!Spec

\* Once the players leave the connectors alone and sampling stays on, the
\* published count becomes, and stays, the number of plugged connectors.
SettlesOnPlugged ==
    (<>[]enabled /\ <>[][UNCHANGED <<plugged, generation>>]_vars)
        => <>[](qualified /\ stable = Cardinality(plugged))
=============================================================================

-------------------------- MODULE WireVote_proofs --------------------------
(***************************************************************************)
(* Proofs about the wire vote, for any number of connectors and any window *)
(* and number of required votes that satisfy WireVoteAssumption.           *)
(***************************************************************************)
EXTENDS WireVote, FiniteSetTheorems, TLAPS

-----------------------------------------------------------------------------
(* The votes of a window. *)

\* The number of votes of a pin is a number of slots.
LEMMA VotesType ==
    ASSUME NEW window, NEW pin
    PROVE  /\ IsFiniteSet({slot \in Slots : pin \in window[slot]})
           /\ Votes(window, pin) \in Nat
           /\ Votes(window, pin) <= Window
  <1> DEFINE S == {slot \in Slots : pin \in window[slot]}
  <1>1. IsFiniteSet(Slots) /\ Cardinality(Slots) = Window
    BY FS_Interval, WireVoteAssumption DEF Slots
  <1>2. IsFiniteSet(S) /\ Cardinality(S) <= Cardinality(Slots)
    BY <1>1, FS_Subset
  <1>3. Cardinality(S) \in Nat
    BY <1>2, FS_CardinalityType
  <1> QED
    BY <1>1, <1>2, <1>3 DEF Votes

\* Replacing one sample moves the votes of a pin by at most one.
LEMMA VotesMoveByOne ==
    ASSUME NEW window \in [Slots -> SUBSET Pins], NEW i \in Slots,
           NEW mask \in SUBSET Pins, NEW pin
    PROVE  LET after == [window EXCEPT ![i] = mask]
           IN  /\ Votes(after, pin) <= Votes(window, pin) + 1
               /\ Votes(window, pin) <= Votes(after, pin) + 1
  <1> DEFINE after == [window EXCEPT ![i] = mask]
             S == {slot \in Slots : pin \in window[slot]}
             T == {slot \in Slots : pin \in after[slot]}
  <1>1. IsFiniteSet(S) /\ IsFiniteSet(T)
    BY VotesType
  <1>2. S \ {i} = T \ {i}
    OBVIOUS
  <1>3. Cardinality(S \ {i}) = IF i \in S THEN Cardinality(S) - 1 ELSE Cardinality(S)
    BY <1>1, FS_RemoveElement
  <1>4. Cardinality(T \ {i}) = IF i \in T THEN Cardinality(T) - 1 ELSE Cardinality(T)
    BY <1>1, FS_RemoveElement
  <1>5. Cardinality(S) \in Nat /\ Cardinality(T) \in Nat
    BY <1>1, FS_CardinalityType
  <1>6. Cardinality(S) <= Cardinality(T) + 1 /\ Cardinality(T) <= Cardinality(S) + 1
    <2> HIDE DEF S, T
    <2> QED BY <1>2, <1>3, <1>4, <1>5
  <1> QED
    BY <1>6 DEF Votes

\* The connected pins of a window are a count.
LEMMA ConnectedType ==
    ASSUME NEW window
    PROVE  /\ Connected(window) \in SUBSET Pins
           /\ Cardinality(Connected(window)) \in Counts
  <1>1. Connected(window) \in SUBSET Pins
    BY DEF Connected
  <1>2. /\ IsFiniteSet(Connected(window))
        /\ Cardinality(Connected(window)) <= Cardinality(Pins)
    BY <1>1, FS_Subset, WireVoteAssumption
  <1>3. Cardinality(Connected(window)) \in Nat /\ Cardinality(Pins) \in Nat
    BY <1>2, FS_CardinalityType, WireVoteAssumption
  <1> QED
    BY <1>1, <1>2, <1>3 DEF Counts

\* A count is a number, and no number is Unknown.
LEMMA CountsAreKnown == Unknown \notin Counts /\ Counts \subseteq Nat
  BY FS_CardinalityType, WireVoteAssumption DEF Unknown, Counts

\* What the assumptions say of the window and the evidence, in the form the proofs use.
LEMMA ConstantsType ==
    /\ Window \in Nat \ {0} /\ Required \in Nat \ {0}
    /\ Evidence \in Nat /\ Evidence >= 2 /\ Evidence = 2 * Required - Window
    /\ 0 \in Slots /\ Slots \subseteq Nat
  BY WireVoteAssumption DEF Evidence, Slots
-----------------------------------------------------------------------------
(* The inductive invariant. *)

\* The Boolean half of TypeOK, kept apart from the arithmetic.
FlagsType ==
    /\ startupComplete \in BOOLEAN
    /\ aged \in BOOLEAN
    /\ qualified \in BOOLEAN
    /\ enabled \in BOOLEAN

\* The vote starts empty, with nothing settled.
LEMMA InitIndInv == Init => IndInv
  <1> SUFFICES ASSUME Init PROVE IndInv
    OBVIOUS
  <1> USE ConstantsType
  <1>1. TypeOK
    <2>1. FlagsType
      BY DEF Init, FlagsType
    <2>2. /\ masks \in [Slots -> SUBSET Pins] /\ readIn \in [Slots -> Nat]
          /\ sampleCount \in 0..Window /\ nextSample \in Slots /\ since \in 0..Evidence
          /\ generation \in Nat \ {0} /\ stable \in Counts \cup {Unknown}
          /\ plugged \in SUBSET Pins /\ verdict \in SUBSET Pins /\ sampler \in {Idle}
      BY DEF Init
    <2> QED
      BY <2>1, <2>2 DEF TypeOK, FlagsType
  <1>2. SamplerBehind /\ RingFilled /\ VerdictRecorded
    BY DEF Init, SamplerBehind, RingFilled, VerdictRecorded, Idle
  <1>3. NoForeignSample /\ VotesRemember /\ VerdictFromFullWindow
    BY DEF Init, NoForeignSample, VotesRemember, VerdictFromFullWindow, Slots
  <1> QED
    BY <1>1, <1>2, <1>3 DEF IndInv

\* What one sample does to the ring and to the votes in it.
LEMMA RecordStep ==
    ASSUME IndInv, NEW mask \in SUBSET Pins, Record(mask, generation),
           generation' = generation
    PROVE  /\ masks' \in [Slots -> SUBSET Pins]
           /\ readIn' \in [Slots -> Nat]
           /\ nextSample' \in Slots
           /\ sampleCount' \in 0..Window
           /\ RingFilled'
           /\ NoForeignSample'
           /\ \A pin \in Pins : /\ Votes(masks', pin) <= Votes(masks, pin) + 1
                               /\ Votes(masks, pin) <= Votes(masks', pin) + 1
  <1> USE ConstantsType DEF IndInv, TypeOK
  <1>1. nextSample' \in Slots /\ sampleCount' \in 0..Window
    BY DEF Record, NextSlot, Slots
  <1>2. masks' \in [Slots -> SUBSET Pins] /\ readIn' \in [Slots -> Nat]
    BY DEF Record
  <1>3. RingFilled'
    <2>1. nextSample \in 0..(Window - 1) /\ sampleCount \in 0..Window /\ Window \in Nat \ {0}
      BY DEF Slots
    <2>2. sampleCount < Window => nextSample = sampleCount
      BY DEF RingFilled
    <2>3. /\ nextSample' = (nextSample + 1) % Window
          /\ sampleCount' = IF sampleCount < Window THEN sampleCount + 1 ELSE sampleCount
      BY DEF Record, NextSlot
    <2>4. sampleCount' < Window => nextSample' = sampleCount'
      <3> HIDE DEF IndInv, TypeOK
      <3> QED BY <2>1, <2>2, <2>3
    <2> QED
      BY <2>4 DEF RingFilled
  <1>4. NoForeignSample'
    <2> SUFFICES ASSUME NEW slot \in Slots, slot < sampleCount'
                 PROVE  readIn'[slot] = generation
      BY DEF NoForeignSample
    <2>1. CASE slot = nextSample
      BY <2>1 DEF Record
    <2>2. CASE slot # nextSample
      <3>1. slot < sampleCount
        BY <2>2 DEF Record, NextSlot, RingFilled, Slots
      <3>2. readIn'[slot] = readIn[slot]
        BY <2>2 DEF Record
      <3> QED
        BY <3>1, <3>2 DEF NoForeignSample
    <2> QED
      BY <2>1, <2>2
  <1>5. \A pin \in Pins : /\ Votes(masks', pin) <= Votes(masks, pin) + 1
                         /\ Votes(masks, pin) <= Votes(masks', pin) + 1
    BY VotesMoveByOne DEF Record
  <1> QED
    BY <1>1, <1>2, <1>3, <1>4, <1>5

\* The commit of a sample that follows the last reset keeps the invariant.
LEMMA CommitIndInv ==
    ASSUME IndInv, SamplerCommit
    PROVE  IndInv'
  <1> USE ConstantsType
  <1>1. sampler \in Observed /\ sampler.readIn = generation
    BY DEF SamplerCommit, SampleCurrent, IndInv, TypeOK, SamplerBehind, Idle, Armed, Observed
  <1>2. /\ sampler.mask \in SUBSET Pins
        /\ Record(sampler.mask, generation)
        /\ generation' = generation
        /\ sampler' = Idle
        /\ UNCHANGED <<aged, enabled, plugged>>
    BY <1>1 DEF SamplerCommit, Observed
  <1>3. /\ masks' \in [Slots -> SUBSET Pins]
        /\ readIn' \in [Slots -> Nat]
        /\ nextSample' \in Slots
        /\ sampleCount' \in 0..Window
        /\ RingFilled'
        /\ NoForeignSample'
        /\ \A pin \in Pins : /\ Votes(masks', pin) <= Votes(masks, pin) + 1
                            /\ Votes(masks, pin) <= Votes(masks', pin) + 1
    BY <1>2, RecordStep
  <1>4. SamplerBehind'
    BY <1>2 DEF SamplerBehind, Idle
  <1>5. CASE Undecided
    <2>1. TypeOK'
      <3>1. startupComplete' \in BOOLEAN
        BY <1>5 DEF Undecided
      <3>2. since \in 0..Evidence /\ since' = IF since < Evidence THEN since + 1 ELSE since
        BY <1>5 DEF Undecided, IndInv, TypeOK
      <3>3. since' \in 0..Evidence
        BY <3>2
      <3>4. qualified' \in BOOLEAN /\ UNCHANGED <<stable, verdict>>
        BY <1>5 DEF Undecided
      <3> QED
        BY <1>2, <1>3, <3>1, <3>3, <3>4 DEF IndInv, TypeOK
    <2>2. VotesRemember'
      <3> SUFFICES ASSUME stable # Unknown, since' < Evidence, NEW pin \in Pins
                   PROVE  IF pin \in verdict
                          THEN Votes(masks', pin) >= Required - since'
                          ELSE Window - Votes(masks', pin) >= Required - since'
        BY <1>5 DEF VotesRemember, Undecided
      <3>1. since' = since + 1 /\ since < Evidence /\ since \in Nat
        BY <1>5 DEF Undecided, IndInv, TypeOK, Evidence
      <3>2. Votes(masks, pin) \in Nat /\ Votes(masks', pin) \in Nat
        BY VotesType
      <3>3. IF pin \in verdict THEN Votes(masks, pin) >= Required - since
            ELSE Window - Votes(masks, pin) >= Required - since
        BY <3>1 DEF IndInv, VotesRemember
      <3>4. /\ Votes(masks', pin) <= Votes(masks, pin) + 1
            /\ Votes(masks, pin) <= Votes(masks', pin) + 1
        BY <1>3
      <3>5. CASE pin \in verdict
        BY <3>1, <3>2, <3>3, <3>4, <3>5
      <3>6. CASE pin \notin verdict
        BY <3>1, <3>2, <3>3, <3>4, <3>6
      <3> QED
        BY <3>5, <3>6
    <2>3. VerdictFromFullWindow' /\ VerdictRecorded'
      BY <1>5 DEF Undecided, VerdictFromFullWindow, VerdictRecorded, IndInv
    <2> QED
      BY <1>3, <1>4, <2>1, <2>2, <2>3 DEF IndInv
  <1>6. CASE Decided
    <2>1. verdict' \in SUBSET Pins /\ stable' \in Counts /\ stable' = Cardinality(verdict')
      BY <1>6, ConnectedType DEF Decided
    <2>2. TypeOK'
      BY <1>2, <1>3, <1>6, <2>1 DEF Decided, IndInv, TypeOK, Evidence
    <2>3. VotesRemember'
      <3> SUFFICES ASSUME NEW pin \in Pins
                   PROVE  IF pin \in verdict' THEN Votes(masks', pin) >= Required
                          ELSE Window - Votes(masks', pin) >= Required
        BY <1>6 DEF VotesRemember, Decided
      <3>1. Votes(masks', pin) \in Nat
        BY VotesType
      <3>2. CASE pin \in verdict'
        BY <1>6, <3>2 DEF Decided, Connected
      <3>3. CASE pin \notin verdict'
        BY <1>6, <3>1, <3>3 DEF Decided, Connected, Ambiguous
      <3> QED
        BY <3>2, <3>3
    <2>4. VerdictFromFullWindow'
      BY <1>6 DEF Decided, VoteOpen, VerdictFromFullWindow
    <2>5. VerdictRecorded'
      BY <1>6, <2>1, CountsAreKnown DEF Decided, VerdictRecorded
    <2> QED
      BY <1>3, <1>4, <2>2, <2>3, <2>4, <2>5 DEF IndInv
  <1> QED
    BY <1>5, <1>6 DEF SamplerCommit

\* A reset leaves an empty vote of a new generation.
LEMMA ResetIndInv ==
    ASSUME IndInv, NEW enable \in BOOLEAN, ResetTracking(enable)
    PROVE  IndInv'
  <1> USE ConstantsType
  <1>1. TypeOK'
    <2>1. FlagsType'
      BY DEF ResetTracking, FlagsType
    <2>2. generation \in Nat \ {0} /\ generation' = generation + 1
      BY DEF ResetTracking, IndInv, TypeOK
    <2>3. generation' \in Nat \ {0}
      BY <2>2
    <2>4. /\ masks' \in [Slots -> SUBSET Pins] /\ readIn' \in [Slots -> Nat]
          /\ sampleCount' \in 0..Window /\ nextSample' \in Slots /\ since' \in 0..Evidence
          /\ stable' \in Counts \cup {Unknown} /\ verdict' \in SUBSET Pins
      BY DEF ResetTracking
    <2>5. UNCHANGED <<sampler, plugged>>
      BY DEF ResetTracking
    <2> QED
      BY <2>1, <2>3, <2>4, <2>5 DEF IndInv, TypeOK, FlagsType
  <1>2. SamplerBehind'
    BY DEF ResetTracking, IndInv, TypeOK, SamplerBehind, Idle, Armed, Observed
  <1>3. RingFilled' /\ NoForeignSample' /\ VotesRemember'
    BY DEF ResetTracking, RingFilled, NoForeignSample, VotesRemember, Slots
  <1>4. VerdictFromFullWindow' /\ VerdictRecorded'
    BY DEF ResetTracking, VerdictFromFullWindow, VerdictRecorded
  <1> QED
    BY <1>1, <1>2, <1>3, <1>4 DEF IndInv

\* Every other step leaves the vote alone.
LEMMA VoteUntouched ==
    ASSUME IndInv, UNCHANGED <<masks, sampleCount, nextSample, startupComplete, qualified,
                              stable, generation, readIn, verdict, since>>
    PROVE  /\ RingFilled' /\ NoForeignSample' /\ VotesRemember'
           /\ VerdictFromFullWindow' /\ VerdictRecorded'
  BY DEF IndInv, RingFilled, NoForeignSample, VotesRemember, VerdictFromFullWindow,
         VerdictRecorded, Votes, Connected, Ambiguous

\* Neither the sampler, in any of its three steps, nor a reset breaks the invariant.
LEMMA NextIndInv == IndInv /\ [Next]_vars => IndInv'
  <1> SUFFICES ASSUME IndInv, [Next]_vars PROVE IndInv'
    OBVIOUS
  <1> USE ConstantsType
  <1>1. CASE SamplerArm
    <2>1. TypeOK' /\ SamplerBehind'
      BY <1>1 DEF SamplerArm, voteVars, IndInv, TypeOK, SamplerBehind, Idle, Armed, Observed
    <2> QED
      BY <1>1, <2>1, VoteUntouched DEF SamplerArm, voteVars, IndInv
  <1>2. CASE SamplerRead
    <2>1. sampler \in Armed /\ sampler.generation <= generation
      BY <1>2 DEF SamplerRead, IndInv, TypeOK, SamplerBehind, Idle, Armed, Observed
    <2>2. sampler' \in Observed
      BY <1>2, <2>1 DEF SamplerRead, IndInv, TypeOK, Armed, Observed
    <2>3. TypeOK'
      BY <1>2, <2>2 DEF SamplerRead, voteVars, IndInv, TypeOK
    <2>4. SamplerBehind'
      BY <1>2, <2>1 DEF SamplerRead, voteVars, IndInv, TypeOK, SamplerBehind, Armed
    <2> QED
      BY <1>2, <2>3, <2>4, VoteUntouched DEF SamplerRead, voteVars, IndInv
  <1>3. CASE SamplerCommit
    BY <1>3, CommitIndInv
  <1>4. CASE SamplerDrop
    <2>1. TypeOK' /\ SamplerBehind'
      BY <1>4 DEF SamplerDrop, voteVars, IndInv, TypeOK, SamplerBehind, Idle
    <2> QED
      BY <1>4, <2>1, VoteUntouched DEF SamplerDrop, voteVars, IndInv
  <1>5. CASE \E enable \in BOOLEAN : ResetTracking(enable)
    BY <1>5, ResetIndInv
  <1>6. CASE Age
    <2>1. TypeOK' /\ SamplerBehind'
      BY <1>6 DEF Age, IndInv, TypeOK, SamplerBehind
    <2> QED
      BY <1>6, <2>1, VoteUntouched DEF Age, IndInv
  <1>7. CASE \E pins \in SUBSET Pins : Replug(pins)
    <2>1. TypeOK' /\ SamplerBehind'
      BY <1>7 DEF Replug, voteVars, IndInv, TypeOK, SamplerBehind
    <2> QED
      BY <1>7, <2>1, VoteUntouched DEF Replug, voteVars, IndInv
  <1>8. CASE UNCHANGED vars
    <2>1. TypeOK' /\ SamplerBehind'
      BY <1>8 DEF vars, voteVars, IndInv, TypeOK, SamplerBehind
    <2> QED
      BY <1>8, <2>1, VoteUntouched DEF vars, voteVars, IndInv
  <1> QED
    BY <1>1, <1>2, <1>3, <1>4, <1>5, <1>6, <1>7, <1>8 DEF Next, Sampler
-----------------------------------------------------------------------------
(* The theorems. *)

\* The inductive invariant holds in every reachable state.
THEOREM IndInvHolds == Spec => []IndInv
  BY InitIndInv, NextIndInv, PTL DEF Spec

\* Every variable keeps its type, whatever the window and the connectors.
THEOREM TypeCorrect == Spec => []TypeOK
  <1>1. IndInv => TypeOK
    BY DEF IndInv
  <1> QED
    BY IndInvHolds, <1>1, PTL

\* No pin observation made before a reset is counted after it.
THEOREM NoForeignSampleHolds == Spec => []NoForeignSample
  <1>1. IndInv => NoForeignSample
    BY DEF IndInv
  <1> QED
    BY IndInvHolds, <1>1, PTL

\* The window protects the last verdict of every pin for Evidence samples.
THEOREM VotesRememberHolds == Spec => []VotesRemember
  <1>1. IndInv => VotesRemember
    BY DEF IndInv
  <1> QED
    BY IndInvHolds, <1>1, PTL

\* A qualified count is the count of a full window of this generation.
THEOREM VerdictFromFullWindowHolds == Spec => []VerdictFromFullWindow
  <1>1. IndInv => VerdictFromFullWindow
    BY DEF IndInv
  <1> QED
    BY IndInvHolds, <1>1, PTL

\* A sample that decides against the last verdict of some pin comes at least
\* Evidence samples after the window that gave this verdict.
LEMMA DecidedFlip ==
    ASSUME IndInv, SamplerCommit, Decided, stable # Unknown, verdict' # verdict
    PROVE  since >= Evidence - 1
  <1> SUFFICES ASSUME since < Evidence - 1 PROVE FALSE
    BY ConstantsType DEF IndInv, TypeOK
  <1>1. since \in Nat /\ since < Evidence - 1
    BY ConstantsType DEF IndInv, TypeOK
  <1>2. generation' = generation /\ sampler.mask \in SUBSET Pins /\ sampler.readIn = generation
    BY DEF SamplerCommit, SampleCurrent, IndInv, TypeOK, SamplerBehind, Idle, Armed, Observed
  <1>3. Record(sampler.mask, generation)
    BY <1>2 DEF SamplerCommit
  <1>4. PICK pin \in Pins : (pin \in verdict) # (pin \in verdict')
    BY ConnectedType DEF Decided, IndInv, TypeOK
  <1>5. Votes(masks, pin) \in Nat /\ Votes(masks', pin) \in Nat
    BY VotesType
  <1>6. /\ Votes(masks', pin) <= Votes(masks, pin) + 1
        /\ Votes(masks, pin) <= Votes(masks', pin) + 1
    BY <1>2, <1>3, RecordStep
  <1>7. IF pin \in verdict THEN Votes(masks, pin) >= Required - since
        ELSE Window - Votes(masks, pin) >= Required - since
    BY <1>1, ConstantsType DEF IndInv, VotesRemember
  <1>8. CASE pin \in verdict
    <2>1. Votes(masks', pin) < Required
      BY <1>4, <1>5, <1>8, ConstantsType DEF Decided, Connected
    <2>2. Window - Votes(masks', pin) >= Required
      BY <2>1, <1>5, ConstantsType DEF Decided, Ambiguous
    <2> QED
      BY <1>1, <1>5, <1>6, <1>7, <1>8, <2>2, ConstantsType
  <1>9. CASE pin \notin verdict
    <2>1. Votes(masks', pin) >= Required
      BY <1>4, <1>9 DEF Decided, Connected
    <2> QED
      BY <1>1, <1>5, <1>6, <1>7, <1>9, <2>1, ConstantsType
  <1> QED
    BY <1>8, <1>9

\* Only a commit can give a verdict without a reset.
LEMMA VerdictChange ==
    ASSUME IndInv, [Next]_vars, generation' = generation, verdict' # verdict
    PROVE  SamplerCommit /\ Decided
  <1>1. \A enable \in BOOLEAN : ~ResetTracking(enable)
    BY DEF ResetTracking, IndInv, TypeOK
  <1> QED
    BY <1>1 DEF Next, Sampler, SamplerArm, SamplerRead, SamplerCommit, SamplerDrop, Undecided,
                Age, Replug, vars, voteVars

\* Within a generation a verdict changes only on enough evidence, for every
\* window and every number of required votes (six samples for 8 of 10).
THEOREM FlipNeedsEvidenceHolds == Spec => FlipNeedsEvidence
  <1>1. IndInv /\ [Next]_vars =>
          [(generation' = generation /\ stable # Unknown /\ verdict' # verdict)
             => since >= Evidence - 1]_vars
    BY VerdictChange, DecidedFlip
  <1> QED
    BY IndInvHolds, <1>1, PTL DEF Spec, FlipNeedsEvidence
-----------------------------------------------------------------------------
(* The vote implements WireVerdict. *)

\* An empty vote is an unsettled verdict.
LEMMA InitImplements == Init => Verdict!Init
  BY DEF Init, Verdict!Init, Unknown, Verdict!Unknown

\* A full window that decides settles the verdict, or confirms it.
LEMMA DecidedImplements ==
    ASSUME IndInv, SamplerCommit, Decided
    PROVE  Verdict!Next \/ UNCHANGED Verdict!verdictVars
  <1>1. stable' \in Counts /\ qualified' = TRUE /\ generation' = generation
    BY ConnectedType DEF Decided, SamplerCommit
  <1>2. CASE ~qualified
    <2>1. Verdict!Settle(stable')
      BY <1>1, <1>2 DEF Verdict!Settle
    <2> QED
      BY <1>1, <2>1 DEF Verdict!Next
  <1>3. CASE qualified
    <2>1. stable # Unknown /\ since = 0 /\ stable = Cardinality(verdict)
      BY <1>3 DEF IndInv, VerdictRecorded
    <2>2. verdict' = verdict
      BY <2>1, DecidedFlip, ConstantsType
    <2>3. stable' = stable
      BY <2>1, <2>2 DEF Decided
    <2>4. qualified' = qualified
      BY <1>1, <1>3 DEF IndInv, TypeOK
    <2> QED
      BY <1>1, <2>3, <2>4 DEF Verdict!verdictVars
  <1> QED
    BY <1>2, <1>3

\* Every step of the vote is a step of the verdict, or none.
LEMMA NextImplements ==
    IndInv /\ [Next]_vars => Verdict!Next \/ UNCHANGED Verdict!verdictVars
  <1> SUFFICES ASSUME IndInv, [Next]_vars
               PROVE  Verdict!Next \/ UNCHANGED Verdict!verdictVars
    OBVIOUS
  <1>1. CASE SamplerCommit /\ Decided
    BY <1>1, DecidedImplements
  <1>2. CASE SamplerCommit /\ Undecided
    BY <1>2 DEF SamplerCommit, Undecided, Verdict!Next, Verdict!Unsettle
  <1>3. CASE \E enable \in BOOLEAN : ResetTracking(enable)
    <2>1. qualified' = FALSE /\ stable' = Verdict!Unknown
      BY <1>3 DEF ResetTracking, Unknown, Verdict!Unknown
    <2>2. generation \in Nat /\ generation' = generation + 1
      BY <1>3 DEF ResetTracking, IndInv, TypeOK
    <2>3. generation' \in Nat \ {generation}
      BY <2>2
    <2> QED
      BY <2>1, <2>3 DEF Verdict!Next, Verdict!Reset
  <1>4. CASE \/ SamplerArm \/ SamplerRead \/ SamplerDrop \/ Age
            \/ (\E pins \in SUBSET Pins : Replug(pins)) \/ UNCHANGED vars
    <2>1. UNCHANGED <<generation, qualified, stable>>
      BY <1>4 DEF SamplerArm, SamplerRead, SamplerDrop, Age, Replug, vars, voteVars
    <2> QED
      BY <2>1 DEF Verdict!verdictVars
  <1> QED
    BY <1>1, <1>2, <1>3, <1>4 DEF Next, Sampler, SamplerCommit

\* The sampler and its vote keep the promise WireVerdict makes to the main task:
\* a settled count is replaced only after the vote has been ambiguous.
THEOREM VoteImplementsVerdict == Spec => VerdictSpec
  BY InitImplements, NextImplements, IndInvHolds, PTL DEF Spec, VerdictSpec, Verdict!Spec
=============================================================================

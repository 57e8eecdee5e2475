-------------------------- MODULE SendWindow_proofs --------------------------
(***************************************************************************)
(* The send limit, proved for every limit, window and set of sends.        *)
(***************************************************************************)
EXTENDS SendWindow, FiniteSetTheorems, TLAPS

\* The object serves one send after the other: what it serves now was stamped after
\* whatever was forwarded before, and of two forwarded sends one was stamped after
\* the other was forwarded.
OneAtATime ==
  /\ serving # NoSend => \A s \in Sends : stamp[serving] <= forwarded[s]
  /\ \A s, t \in Passed :
       s # t => stamp[s] <= forwarded[t] \/ stamp[t] <= forwarded[s]

StampsAreLimited ==
  IsFiniteSet(Recent(stamp)) /\ Cardinality(Recent(stamp)) <= SendLimit

WindowInv == WindowTypeOK /\ OneAtATime /\ StampsAreLimited

-----------------------------------------------------------------------------

\* Every step keeps the types.
LEMMA WindowTypeStep == WindowTypeOK /\ [WindowNext]_windowVars => WindowTypeOK'
BY WindowAssumption
   DEF WindowTypeOK, WindowNext, windowVars, Stamp, TurnAway, ForwardSend, CutOffSend, Tick,
       Older, Ages

\* A send is stamped only after the one before it was forwarded or cut off.
LEMMA OneAtATimeStep ==
  ASSUME WindowTypeOK, OneAtATime, [WindowNext]_windowVars
  PROVE  OneAtATime'
<1> USE WindowAssumption DEF WindowTypeOK, OneAtATime, Passed, Ages
<1>1. ASSUME NEW s \in Sends, Stamp(s) PROVE OneAtATime'
  BY <1>1 DEF Stamp
<1>2. CASE ForwardSend
  BY <1>2 DEF ForwardSend
<1>3. CASE CutOffSend
  BY <1>3 DEF CutOffSend
<1>4. CASE Tick
  BY <1>4 DEF Tick, Older
<1>5. CASE TurnAway \/ UNCHANGED windowVars
  BY <1>5 DEF TurnAway, windowVars
<1> QED BY <1>1, <1>2, <1>3, <1>4, <1>5 DEF WindowNext

\* A stamp is added only where there is room, and time only takes stamps away.
LEMMA StampsAreLimitedStep ==
  ASSUME WindowTypeOK, StampsAreLimited, [WindowNext]_windowVars
  PROVE  StampsAreLimited'
<1> USE WindowAssumption DEF WindowTypeOK, StampsAreLimited
<1>1. ASSUME NEW s \in Sends, Stamp(s) PROVE StampsAreLimited'
  <2>1. Recent(stamp)' = Recent(stamp) \union {s}
    BY <1>1 DEF Stamp, Recent, Ages
  <2>2. Cardinality(Recent(stamp)) \in Nat /\ Cardinality(Recent(stamp)) < SendLimit
    BY <1>1, FS_CardinalityType DEF Stamp
  <2>3. /\ IsFiniteSet(Recent(stamp) \union {s})
        /\ Cardinality(Recent(stamp) \union {s}) <= Cardinality(Recent(stamp)) + 1
    <3>1. IsFiniteSet(Recent(stamp))
      OBVIOUS
    <3>2. /\ IsFiniteSet(Recent(stamp) \union {s})
          /\ \/ Cardinality(Recent(stamp) \union {s}) = Cardinality(Recent(stamp))
             \/ Cardinality(Recent(stamp) \union {s}) = Cardinality(Recent(stamp)) + 1
      BY ONLY <3>1, FS_AddElement, Zenon
    <3> QED BY <2>2, <3>2
  <2>4. Cardinality(Recent(stamp) \union {s}) \in Nat
    BY <2>3, FS_CardinalityType
  <2> QED BY <2>1, <2>2, <2>3, <2>4
<1>2. CASE Tick
  <2>1. Recent(stamp)' \subseteq Recent(stamp)
    BY <1>2 DEF Tick, Older, Recent, Ages
  <2>2. /\ IsFiniteSet(Recent(stamp)')
        /\ Cardinality(Recent(stamp)') <= Cardinality(Recent(stamp))
    BY <2>1, FS_Subset
  <2>3. Cardinality(Recent(stamp)) \in Nat /\ Cardinality(Recent(stamp)') \in Nat
    BY <2>2, FS_CardinalityType
  <2> QED BY <2>2, <2>3
<1>3. CASE ForwardSend \/ CutOffSend \/ TurnAway \/ UNCHANGED windowVars
  BY <1>3 DEF ForwardSend, CutOffSend, TurnAway, windowVars, Recent
<1> QED BY <1>1, <1>2, <1>3 DEF WindowNext

\* At most one send that was forwarded within the window was stamped before it.
LEMMA OneStraggler ==
  ASSUME WindowInv
  PROVE  SendsAreLimited
<1> USE WindowAssumption DEF WindowInv, WindowTypeOK, StampsAreLimited
<1> DEFINE Late == Passed \ Recent(stamp)
<1>1. \A s, t \in Late : s = t
  BY DEF OneAtATime, Recent, Passed, Ages
<1>2. IsFiniteSet(Late) /\ Cardinality(Late) <= 1
  <2> HIDE DEF Late
  <2>1. IsFiniteSet({}) /\ Cardinality({}) = 0
    BY FS_EmptySet
  <2>2. CASE Late = {}
    BY ONLY <2>1, <2>2
  <2>3. ASSUME NEW s \in Late PROVE IsFiniteSet(Late) /\ Cardinality(Late) <= 1
    <3>1. Late = {s}
      BY ONLY <1>1, <2>3
    <3>2. IsFiniteSet({s}) /\ Cardinality({s}) = 1
      BY FS_Singleton
    <3> QED BY ONLY <3>1, <3>2
  <2> QED BY ONLY <2>2, <2>3
<1>3. /\ IsFiniteSet(Recent(stamp) \union Late)
      /\ Cardinality(Recent(stamp) \union Late) <= SendLimit + 1
  <2>1. /\ IsFiniteSet(Recent(stamp) \union Late)
        /\ Cardinality(Recent(stamp) \union Late)
             = Cardinality(Recent(stamp)) + Cardinality(Late)
                 - Cardinality(Recent(stamp) \intersect Late)
    BY <1>2, FS_Union
  <2>2. Recent(stamp) \intersect Late = {}
    OBVIOUS
  <2>3. Cardinality(Recent(stamp) \intersect Late) = 0
    BY <2>2, FS_EmptySet
  <2>4. Cardinality(Recent(stamp)) \in Nat /\ Cardinality(Late) \in Nat
    BY <1>2, FS_CardinalityType
  <2> HIDE DEF Late
  <2> QED BY <1>2, <2>1, <2>3, <2>4
<1>4. Passed \subseteq Recent(stamp) \union Late
  OBVIOUS
<1>5. /\ IsFiniteSet(Passed)
      /\ Cardinality(Passed) <= Cardinality(Recent(stamp) \union Late)
  BY <1>3, <1>4, FS_Subset
<1>6. /\ Cardinality(Passed) \in Nat
      /\ Cardinality(Recent(stamp) \union Late) \in Nat
  BY <1>3, <1>5, FS_CardinalityType
<1> HIDE DEF Late
<1> QED BY <1>3, <1>5, <1>6 DEF SendsAreLimited

\* The parts of the invariant, put together.
LEMMA WindowInvariantStep == WindowInv /\ [WindowNext]_windowVars => WindowInv'
BY WindowTypeStep, OneAtATimeStep, StampsAreLimitedStep DEF WindowInv

\* Nothing is stamped, and nothing forwarded.
LEMMA WindowInvariantInit == WindowInit => WindowInv
<1> SUFFICES ASSUME WindowInit PROVE WindowInv
  OBVIOUS
<1>1. Recent(stamp) = {} /\ Passed = {}
  BY WindowAssumption DEF WindowInit, Recent, Passed
<1>2. WindowTypeOK /\ OneAtATime
  BY <1>1, WindowAssumption DEF WindowInit, WindowTypeOK, OneAtATime, Ages
<1>3. StampsAreLimited
  BY <1>1, FS_EmptySet, WindowAssumption DEF StampsAreLimited
<1> QED BY <1>2, <1>3 DEF WindowInv

\* However long sends take from their stamp to the container, and wherever the object
\* is reset, no more than SendLimit + 1 are forwarded within a window.
THEOREM Limited == WindowSpec => []SendsAreLimited
BY WindowInvariantInit, WindowInvariantStep, OneStraggler, PTL DEF WindowSpec

=============================================================================

--------------------------- MODULE CircuitBreakerProofs ---------------------------
(* What TLAPS proves of CircuitBreaker, for any configuration and any set of
   callers.                                                                *)
EXTENDS CircuitBreaker, CircuitBreakerOpsProofs

-----------------------------------------------------------------------------
(* The invariant of the specification. *)

LEMMA ConsistentIsSound == Consistent <=> TypeOK /\ Sound(breaker)
BY DEF Consistent, TypeOK, Sound, ClosedBelowThreshold, SuccessesBelowThreshold,
       SlotOnlyInHalfOpen, OpenKnowsSince, ZeroCountMeansNoRecent

(* A breaker that has just timed out finds no live probe: all its sends in
   flight are at least as old as its opening.  So what ProbeHoldsSlot says of
   the breaker it says of the observed breaker too.                        *)
LEMMA ObservedHoldsSlot ==
  ASSUME IInv, ~stray, Observe(breaker).state = "half_open", NEW s \in LiveProbes
  PROVE  /\ breaker.state = "half_open" /\ Observe(breaker) = breaker
         /\ breaker.probeAge = age[s] /\ \A t \in LiveProbes : t = s
<1>1. /\ TypeOK /\ Sound(breaker) /\ breaker \in Breaker
      /\ OpenAdmitsNothing /\ ProbeHoldsSlot
  BY ConsistentIsSound DEF IInv, Sound
<1>2. ~TimeoutElapsed(breaker)
  <2> SUFFICES ASSUME TimeoutElapsed(breaker) PROVE FALSE
    OBVIOUS
  <2>1. breaker.state = "open" /\ breaker.openedAge \in Ages
        /\ breaker.openedAge >= TimeoutSeconds
    BY <1>1 DEF TimeoutElapsed, Breaker
  <2>2. s \in Sends /\ InFlight(s) /\ age[s] < TimeoutSeconds
    BY DEF LiveProbes, InFlight
  <2>3. age[s] >= breaker.openedAge
    BY <1>1, <2>1, <2>2 DEF OpenAdmitsNothing
  <2> QED
    BY <1>1, <2>1, <2>2, <2>3, ConfigAssumption DEF TypeOK, Ages
<1>3. Observe(breaker) = breaker
  BY <1>2 DEF Observe
<1> QED
  BY <1>1, <1>3 DEF ProbeHoldsSlot

LEMMA InitIInv == Init => IInv
<1> SUFFICES ASSUME Init PROVE IInv
  OBVIOUS
<1>1. Sound(breaker) /\ breaker.state = "closed"
  BY NewSound DEF Init, NewBreaker
<1>2. TypeOK
  <2>1. /\ phase \in [Sends -> Phases] /\ age \in [Sends -> Ages]
        /\ probing \in [Sends -> BOOLEAN]
    BY WrittenValues DEF Init, Phases
  <2>2. overrides \in 0..MaxOverrides
    BY BoundAssumption DEF Init
  <2>3. stray \in BOOLEAN /\ calm \in BOOLEAN
    BY Zenon DEF Init
  <2> QED
    BY <1>1, <2>1, <2>2, <2>3 DEF TypeOK, Sound
<1> QED
  BY <1>1, <1>2, ConsistentIsSound DEF IInv, OpenAdmitsNothing, ProbeHoldsSlot

(* A send that leaves (its attempt ended, was cancelled or moves on to the
   except clause) adds no send in flight and no probe.                     *)
LEMMA LeaveEffect ==
  ASSUME TypeOK, NEW s \in Sends, NEW w \in Phases \ {"sending"},
         w = "unwinding" => InFlight(s), Leave(s, w)
  PROVE  /\ phase' \in [Sends -> Phases] /\ age' \in [Sends -> Ages]
         /\ probing' \in [Sends -> BOOLEAN]
         /\ \A t \in Sends : InFlight(t)' => InFlight(t) /\ age'[t] = age[t]
         /\ \A t \in LiveProbes' : t \in LiveProbes /\ t # s /\ age'[t] = age[t]
<1>1. /\ phase' \in [Sends -> Phases] /\ age' \in [Sends -> Ages]
      /\ probing' \in [Sends -> BOOLEAN]
  BY WrittenValues DEF TypeOK, Leave
<1>2. /\ phase'[s] = w
      /\ w # "idle" => age'[s] = age[s]
      /\ \A t \in Sends \ {s} : /\ phase'[t] = phase[t] /\ age'[t] = age[t]
                               /\ probing'[t] = probing[t]
  BY DEF TypeOK, Leave
<1>3. \A t \in Sends : InFlight(t)' => InFlight(t) /\ age'[t] = age[t]
  BY <1>2 DEF InFlight
<1>4. \A t \in LiveProbes' : t \in LiveProbes /\ t # s /\ age'[t] = age[t]
  BY <1>2 DEF LiveProbes
<1> QED
  BY <1>1, <1>3, <1>4

(* The four conjuncts every step has to restore. *)
LEMMA Restored ==
  ASSUME TypeOK', Sound(breaker'), OpenAdmitsNothing', ProbeHoldsSlot'
  PROVE  IInv'
BY DEF IInv, Consistent, TypeOK, Sound, ClosedBelowThreshold, SuccessesBelowThreshold,
       SlotOnlyInHalfOpen, OpenKnowsSince, ZeroCountMeansNoRecent

LEMMA PassOverStep == IInv /\ PassOver => IInv'
<1> SUFFICES ASSUME IInv, PassOver PROVE IInv'
  OBVIOUS
<1>1. TypeOK /\ Sound(breaker) /\ OpenAdmitsNothing
  BY ConsistentIsSound DEF IInv
<1>2. /\ breaker' = Observe(breaker)
      /\ UNCHANGED <<phase, age, probing, stray, calm, overrides>>
  BY DEF PassOver, sendVars
<1>3. Sound(breaker') /\ TypeOK'
  BY <1>1, <1>2, ObserveSound DEF TypeOK, Sound
<1>4. OpenAdmitsNothing'
  BY <1>1, <1>2, ObserveSound DEF OpenAdmitsNothing, InFlight
<1>5. ProbeHoldsSlot'
  BY <1>2, ObservedHoldsSlot DEF ProbeHoldsSlot, LiveProbes
<1> QED
  BY <1>3, <1>4, <1>5, Restored

LEMMA AdmitStep ==
  ASSUME IInv, NEW s \in Sends, Admit(s)
  PROVE  IInv'
<1> DEFINE o == Observe(breaker)
<1>1. TypeOK /\ Sound(breaker) /\ OpenAdmitsNothing
  BY ConsistentIsSound DEF IInv
<1>2. /\ ~InFlight(s) /\ IsAvailable(breaker)
      /\ breaker' = RecordAttempt(breaker)
      /\ phase' = [phase EXCEPT ![s] = "sending"]
      /\ age' = [age EXCEPT ![s] = 0]
      /\ probing' = [probing EXCEPT ![s] = breaker'.state = "half_open"]
      /\ UNCHANGED <<stray, calm, overrides>>
  BY DEF Admit
<1>3. /\ Sound(breaker') /\ breaker'.state = o.state
      /\ breaker'.state = "half_open" => breaker'.probeAge = 0
  BY <1>1, <1>2, AttemptSound
<1>4. /\ breaker'.state # "open"
      /\ breaker'.state = "half_open" => ~ProbeInFlight(o)
  BY <1>2, <1>3 DEF IsAvailable
<1>5. TypeOK'
  <2>1. phase' \in [Sends -> Phases] /\ age' \in [Sends -> Ages]
    BY <1>1, <1>2, WrittenValues DEF TypeOK, Phases
  <2>2. (breaker'.state = "half_open") \in BOOLEAN
    OBVIOUS
  <2>3. probing' \in [Sends -> BOOLEAN]
    BY <1>1, <1>2, <2>2 DEF TypeOK
  <2> QED
    BY <1>1, <1>2, <1>3, <2>1, <2>3 DEF TypeOK, Sound
<1>6. OpenAdmitsNothing'
  BY <1>4 DEF OpenAdmitsNothing
<1>7. ProbeHoldsSlot'
  <2> SUFFICES ASSUME ~stray, breaker'.state = "half_open", NEW t \in LiveProbes'
               PROVE  breaker'.probeAge = age'[t] /\ t = s
    BY <1>2 DEF ProbeHoldsSlot, LiveProbes
  <2>1. age'[s] = 0
    BY <1>1, <1>2 DEF TypeOK
  <2>2. ASSUME t # s PROVE FALSE
    <3>1. t \in LiveProbes
      BY <1>1, <1>2, <2>2 DEF LiveProbes, TypeOK
    <3>2. o = breaker /\ o.probeAge = age[t]
      BY <1>3, <3>1, ObservedHoldsSlot
    <3>3. age[t] \in Nat /\ age[t] < TimeoutSeconds
      BY <1>1, <3>1, ConfigAssumption DEF LiveProbes, TypeOK, Ages
    <3> QED
      BY <1>4, <3>2, <3>3, NoneAssumption DEF ProbeInFlight
  <2> QED
    BY <1>3, <2>1, <2>2
<1> QED
  BY <1>3, <1>5, <1>6, <1>7, Restored

LEMMA SucceedStep ==
  ASSUME IInv, NEW s \in Sends, Succeed(s)
  PROVE  IInv'
<1>1. TypeOK /\ Sound(breaker) /\ OpenAdmitsNothing
  BY ConsistentIsSound DEF IInv
<1>2. /\ breaker' = RecordSuccess(breaker) /\ NoteReport(s)
      /\ Leave(s, "idle") /\ UNCHANGED <<calm, overrides>>
  BY DEF Succeed
<1>3. /\ phase' \in [Sends -> Phases] /\ age' \in [Sends -> Ages]
      /\ probing' \in [Sends -> BOOLEAN]
      /\ \A t \in Sends : InFlight(t)' => InFlight(t) /\ age'[t] = age[t]
      /\ \A t \in LiveProbes' : t \in LiveProbes /\ t # s /\ age'[t] = age[t]
  BY <1>1, <1>2, LeaveEffect DEF Phases
<1>4. /\ Sound(breaker')
      /\ breaker'.state = "open" => breaker' = breaker
      /\ breaker'.state = "half_open" => Observe(breaker).state = "half_open"
  BY <1>1, <1>2, SuccessSound
<1>5. stray' \in BOOLEAN
  BY <1>1, <1>2 DEF NoteReport, TypeOK
<1>6. TypeOK'
  BY <1>1, <1>2, <1>3, <1>4, <1>5 DEF TypeOK, Sound
<1>7. OpenAdmitsNothing'
  BY <1>1, <1>3, <1>4 DEF OpenAdmitsNothing
<1>8. ProbeHoldsSlot'
  <2> SUFFICES ASSUME ~stray', breaker'.state = "half_open", NEW t \in LiveProbes'
               PROVE  FALSE
    BY DEF ProbeHoldsSlot
  <2>1. ~stray /\ Observe(breaker).state = "half_open" /\ HoldsSlot(s)
    BY <1>2, <1>4 DEF NoteReport
  <2>2. t \in LiveProbes /\ t # s
    BY <1>3
  <2>3. breaker.probeAge = age[t] /\ \A u \in LiveProbes : u = t
    BY <2>1, <2>2, ObservedHoldsSlot
  <2>4. s \in LiveProbes
    BY <2>1, <2>2, <2>3 DEF HoldsSlot, LiveProbes
  <2> QED
    BY <2>2, <2>3, <2>4
<1> QED
  BY <1>4, <1>6, <1>7, <1>8, Restored

(* The three ways a failure is reported share this step. *)
LEMMA FailureStep ==
  ASSUME IInv, NEW s \in Sends, NEW w \in Phases \ {"sending"},
         w = "unwinding" => InFlight(s), Leave(s, w), NoteReport(s),
         breaker' = RecordFailure(breaker), UNCHANGED <<calm, overrides>>
  PROVE  IInv'
<1>1. TypeOK /\ Sound(breaker) /\ OpenAdmitsNothing
  BY ConsistentIsSound DEF IInv
<1>2. /\ phase' \in [Sends -> Phases] /\ age' \in [Sends -> Ages]
      /\ probing' \in [Sends -> BOOLEAN]
      /\ \A t \in Sends : InFlight(t)' => InFlight(t) /\ age'[t] = age[t]
  BY <1>1, LeaveEffect
<1>3. /\ Sound(breaker') /\ breaker'.state # "half_open"
      /\ breaker'.state = "open" =>
           \/ breaker'.openedAge = 0
           \/ breaker.state = "open" /\ breaker'.openedAge = breaker.openedAge
  BY <1>1, FailureSound
<1>4. stray' \in BOOLEAN
  BY <1>1 DEF NoteReport, TypeOK
<1>5. TypeOK'
  BY <1>1, <1>2, <1>3, <1>4 DEF TypeOK, Sound
<1>6. OpenAdmitsNothing'
  <2>1. \A t \in Sends : age'[t] >= 0
    BY <1>2, ConfigAssumption DEF Ages
  <2> QED
    BY <1>1, <1>2, <1>3, <2>1 DEF OpenAdmitsNothing
<1>7. ProbeHoldsSlot'
  BY <1>3 DEF ProbeHoldsSlot
<1> QED
  BY <1>3, <1>5, <1>6, <1>7, Restored

LEMMA CancelStep ==
  ASSUME IInv, NEW s \in Sends, Cancel(s)
  PROVE  IInv'
<1>1. TypeOK /\ Sound(breaker) /\ OpenAdmitsNothing /\ ProbeHoldsSlot
  BY ConsistentIsSound DEF IInv
<1>2. Leave(s, "cancelled") /\ UNCHANGED <<breaker, stray, calm, overrides>>
  BY DEF Cancel
<1>3. /\ phase' \in [Sends -> Phases] /\ age' \in [Sends -> Ages]
      /\ probing' \in [Sends -> BOOLEAN]
      /\ \A t \in Sends : InFlight(t)' => InFlight(t) /\ age'[t] = age[t]
      /\ \A t \in LiveProbes' : t \in LiveProbes /\ t # s /\ age'[t] = age[t]
  BY <1>1, <1>2, LeaveEffect DEF Phases
<1>4. TypeOK' /\ Sound(breaker')
  BY <1>1, <1>2, <1>3 DEF TypeOK
<1>5. OpenAdmitsNothing'
  BY <1>1, <1>2, <1>3 DEF OpenAdmitsNothing
<1>6. ProbeHoldsSlot'
  BY <1>1, <1>2, <1>3 DEF ProbeHoldsSlot
<1> QED
  BY <1>4, <1>5, <1>6, Restored

LEMMA OverrideStep == IInv /\ Override => IInv'
<1> SUFFICES ASSUME IInv, Override PROVE IInv'
  OBVIOUS
<1>1. TypeOK /\ Sound(breaker)
  BY ConsistentIsSound DEF IInv
<1>2. /\ overrides < MaxOverrides /\ overrides' = overrides + 1
      /\ breaker' \in {ForceOpen(breaker), ForceClose(breaker), Reset(breaker)}
      /\ UNCHANGED <<phase, age, probing, stray, calm>>
  BY DEF Override, sendVars
<1>3. /\ Sound(breaker') /\ breaker'.state # "half_open"
      /\ breaker'.state = "open" => breaker'.openedAge = 0
  BY <1>1, <1>2, OverridesSound
<1>4. TypeOK'
  <2>1. overrides' \in 0..MaxOverrides
    BY <1>1, <1>2, BoundAssumption DEF TypeOK
  <2> QED
    BY <1>1, <1>2, <1>3, <2>1 DEF TypeOK, Sound
<1>5. OpenAdmitsNothing'
  <2>1. \A t \in Sends : age'[t] >= 0
    BY <1>4, ConfigAssumption DEF TypeOK, Ages
  <2> QED
    BY <1>3, <2>1 DEF OpenAdmitsNothing
<1>6. ProbeHoldsSlot'
  BY <1>3 DEF ProbeHoldsSlot
<1> QED
  BY <1>3, <1>4, <1>5, <1>6, Restored

LEMMA TickStep == IInv /\ Tick => IInv'
<1> SUFFICES ASSUME IInv, Tick PROVE IInv'
  OBVIOUS
<1>1. /\ TypeOK /\ Sound(breaker) /\ breaker \in Breaker
      /\ OpenAdmitsNothing /\ ProbeHoldsSlot
  BY ConsistentIsSound DEF IInv, Sound
<1>2. /\ breaker' = Aged(breaker)
      /\ age' = [s \in Sends |-> IF phase[s] = "idle" THEN age[s]
                                 ELSE Older(age[s], TimeoutSeconds)]
      /\ UNCHANGED <<phase, probing, stray, calm, overrides>>
  BY DEF Tick
<1>3. /\ Sound(breaker') /\ breaker'.state = breaker.state
      /\ breaker'.openedAge = OlderOrNone(breaker.openedAge)
      /\ breaker'.probeAge = OlderOrNone(breaker.probeAge)
  BY <1>1, <1>2, AgedSound DEF Aged, Breaker
<1>4. \A t \in Sends : /\ age[t] \in Ages
                       /\ InFlight(t) => age'[t] = Older(age[t], TimeoutSeconds)
  BY <1>1, <1>2 DEF TypeOK, InFlight
<1>5. TypeOK'
  <2>1. age' \in [Sends -> Ages]
    <3>1. ASSUME NEW t \in Sends
          PROVE  age[t] \in Ages /\ Older(age[t], TimeoutSeconds) \in Ages
      BY <1>4, ConfigAssumption DEF Older, Ages
    <3> QED
      BY <1>2, <3>1
  <2> QED
    BY <1>1, <1>2, <1>3, <2>1 DEF TypeOK, Sound
<1>6. OpenAdmitsNothing'
  <2> SUFFICES ASSUME breaker'.state = "open", NEW t \in Sends, InFlight(t)'
               PROVE  age'[t] >= breaker'.openedAge
    BY DEF OpenAdmitsNothing
  <2>1. breaker.state = "open" /\ InFlight(t)
    BY <1>2, <1>3 DEF InFlight
  <2>2. breaker.openedAge \in Ages /\ age[t] >= breaker.openedAge
    BY <1>1, <2>1 DEF OpenAdmitsNothing, Sound, Breaker
  <2>3. breaker'.openedAge = Older(breaker.openedAge, TimeoutSeconds)
    BY <1>3, <2>2, NoneAssumption DEF OlderOrNone, Ages
  <2>4. Older(age[t], TimeoutSeconds) >= Older(breaker.openedAge, TimeoutSeconds)
    BY <1>4, <2>2, ConfigAssumption DEF Older, Ages
  <2> QED
    BY <1>4, <2>1, <2>3, <2>4
<1>7. ProbeHoldsSlot'
  <2>1. ASSUME NEW t \in LiveProbes'
        PROVE  t \in LiveProbes /\ age'[t] = Older(age[t], TimeoutSeconds)
    <3>1. /\ t \in Sends /\ phase[t] = "sending" /\ probing[t]
          /\ age'[t] < TimeoutSeconds
      BY <1>2 DEF LiveProbes
    <3>2. age[t] \in Ages /\ age'[t] = Older(age[t], TimeoutSeconds)
      BY <1>4, <3>1 DEF InFlight
    <3> QED
      BY <3>1, <3>2, ConfigAssumption DEF LiveProbes, Older, Ages
  <2> SUFFICES ASSUME ~stray, breaker.state = "half_open", NEW t \in LiveProbes'
               PROVE  breaker'.probeAge = age'[t] /\ \A u \in LiveProbes' : u = t
    BY <1>2, <1>3 DEF ProbeHoldsSlot
  <2>2. breaker.probeAge = age[t] /\ \A u \in LiveProbes' : u = t
    BY <1>1, <2>1 DEF ProbeHoldsSlot
  <2>3. age[t] # None
    BY <1>4, NoneAssumption DEF LiveProbes, Ages
  <2> QED
    BY <1>3, <2>1, <2>2, <2>3 DEF OlderOrNone
<1> QED
  BY <1>3, <1>5, <1>6, <1>7, Restored

LEMMA CalmDownStep == IInv /\ CalmDown => IInv'
<1> SUFFICES ASSUME IInv, CalmDown PROVE IInv'
  OBVIOUS
<1>1. /\ UNCHANGED <<breaker, phase, age, probing, stray, overrides>>
      /\ calm' \in BOOLEAN
  BY DEF CalmDown, sendVars
<1>2. TypeOK /\ Sound(breaker) /\ OpenAdmitsNothing /\ ProbeHoldsSlot
  BY ConsistentIsSound DEF IInv
<1> QED
  BY <1>1, <1>2, Restored
  DEF TypeOK, OpenAdmitsNothing, InFlight, ProbeHoldsSlot, LiveProbes

LEMMA StutterStep == IInv /\ UNCHANGED vars => IInv'
BY DEF IInv, vars, Consistent, TypeOK, ClosedBelowThreshold, SuccessesBelowThreshold,
       SlotOnlyInHalfOpen, OpenKnowsSince, ZeroCountMeansNoRecent, OpenAdmitsNothing,
       InFlight, ProbeHoldsSlot, LiveProbes

LEMMA NextStep == IInv /\ [Next]_vars => IInv'
<1> SUFFICES ASSUME IInv, [Next]_vars PROVE IInv'
  OBVIOUS
<1>1. ASSUME NEW s \in Sends, Fail(s) PROVE IInv'
  BY <1>1, FailureStep DEF Fail, Phases
<1>2. ASSUME NEW s \in Sends, FailForSome(s) PROVE IInv'
  BY <1>2, FailureStep DEF FailForSome, Phases, InFlight
<1>3. ASSUME NEW s \in Sends, Unwind(s) PROVE IInv'
  BY <1>3, FailureStep DEF Unwind, Phases
<1> QED
  BY <1>1, <1>2, <1>3, AdmitStep, SucceedStep, CancelStep, PassOverStep, OverrideStep,
     TickStep, CalmDownStep, StutterStep DEF Next

-----------------------------------------------------------------------------
(* The theorems. *)

(* IInv is an invariant, whatever the thresholds, the timeouts and the number
   of callers: reports, cancellations, overrides and the clock may come in
   any order.                                                              *)
THEOREM InvariantHolds == Spec => []IInv
<1>1. Init => IInv
  BY InitIInv
<1>2. IInv /\ [Next]_vars => IInv'
  BY NextStep
<1> QED
  BY <1>1, <1>2, PTL DEF Spec

(* Type correctness. *)
THEOREM TypeCorrect == Spec => []TypeOK
<1>1. IInv => TypeOK
  BY DEF IInv, Consistent
<1> QED
  BY <1>1, InvariantHolds, PTL

(* The circuit opens in the very step that reaches the threshold. *)
THEOREM OpensInTime == Spec => []ClosedBelowThreshold
<1>1. IInv => ClosedBelowThreshold
  BY DEF IInv, Consistent
<1> QED
  BY <1>1, InvariantHolds, PTL

(* The count that record_success consults and the failures that open the
   circuit agree on "none".                                                *)
THEOREM CountsAgree == Spec => []ZeroCountMeansNoRecent
<1>1. IInv => ZeroCountMeansNoRecent
  BY DEF IInv, Consistent
<1> QED
  BY <1>1, InvariantHolds, PTL

(* No send is let through an open circuit. *)
THEOREM OpenCircuitHolds == Spec => []OpenAdmitsNothing
<1>1. IInv => OpenAdmitsNothing
  BY DEF IInv
<1> QED
  BY <1>1, InvariantHolds, PTL

(* What get_stats says of the availability is what is_available answers. *)
THEOREM StatsTellTheTruth == Spec => []StatsAgree
<1>1. IInv => StatsAgree
  <2> SUFFICES ASSUME IInv PROVE StatsAgree
    OBVIOUS
  <2>1. Sound(breaker) /\ breaker \in Breaker
    BY ConsistentIsSound DEF IInv, Sound
  <2>2. CASE TimeoutElapsed(breaker)
    <3>1. Observe(breaker).state = "half_open" /\ Observe(breaker).probeAge = None
      BY <2>1, <2>2 DEF Observe, Breaker
    <3>2. breaker.state = "open" /\ breaker.probeAge = None
      BY <2>1, <2>2 DEF TimeoutElapsed, Sound
    <3> QED
      BY <2>2, <3>1, <3>2
      DEF StatsAgree, StatsAvailable, PeekState, IsAvailable, ProbeInFlight
  <2>3. CASE ~TimeoutElapsed(breaker)
    BY <2>1, <2>3
    DEF StatsAgree, StatsAvailable, PeekState, IsAvailable, Observe, Breaker
  <2> QED
    BY <2>2, <2>3
<1> QED
  BY <1>1, InvariantHolds, PTL

(* One probe at a time, until a report from a send that does not hold the
   slot reaches a half-open breaker.                                       *)
THEOREM SlotAdmitsOneProbe == Spec => []OneProbeUnlessStray
<1>1. IInv => OneProbeUnlessStray
  <2> SUFFICES ASSUME IInv, ~stray, breaker.state = "half_open"
               PROVE  Cardinality(LiveProbes) <= 1
    BY DEF OneProbeUnlessStray, OneProbeAtATime
  <2>1. \A s, t \in LiveProbes : s = t
    BY DEF IInv, ProbeHoldsSlot
  <2>2. CASE LiveProbes = {}
    BY <2>2, FS_EmptySet
  <2>3. CASE LiveProbes # {}
    <3>1. PICK s : LiveProbes = {s}
      BY <2>1, <2>3
    <3>2. Cardinality({s}) = 1
      BY FS_Singleton
    <3> QED
      BY <3>1, <3>2
  <2> QED
    BY <2>2, <2>3
<1> QED
  BY <1>1, InvariantHolds, PTL

-----------------------------------------------------------------------------
(* The owner of the slot.  Only an admitted send claims it; every report, and
   every override, frees it or leaves the breaker where no slot is; and the
   claim ages with its owner.                                              *)

LEMMA ReportFreesSlot ==
  ASSUME Sound(breaker), breaker' \in {RecordSuccess(breaker), RecordFailure(breaker),
                                       ForceOpen(breaker), ForceClose(breaker),
                                       Reset(breaker)}
  PROVE  breaker'.probeAge = None
<1>1. Sound(breaker')
  BY SuccessSound, FailureSound, OverridesSound
<1>2. breaker'.state = "half_open" => breaker' = RecordSuccess(breaker)
  BY FailureSound, OverridesSound
<1> QED
  BY <1>1, <1>2, SuccessSound DEF Sound

LEMMA OwnerStep == IInv /\ SlotHasOwner /\ [Next]_vars => SlotHasOwner'
<1> SUFFICES ASSUME IInv, SlotHasOwner, [Next]_vars, breaker'.probeAge # None
             PROVE  SlotHasOwner'
  BY DEF SlotHasOwner
<1>1. TypeOK /\ Sound(breaker)
  BY ConsistentIsSound DEF IInv
<1> DEFINE Owns(s) == /\ phase[s] \in {"sending", "cancelled"}
                      /\ probing[s] /\ age[s] = breaker.probeAge
<1>2. breaker.probeAge # None => \E s \in Sends : Owns(s)
  BY DEF SlotHasOwner
<1>3. ASSUME NEW s \in Sends, Admit(s) PROVE SlotHasOwner'
  <2>1. breaker' = RecordAttempt(breaker) /\ Sound(breaker')
    BY <1>1, <1>3, AttemptSound DEF Admit
  <2>2. breaker'.state = "half_open" /\ breaker'.probeAge = 0
    BY <1>1, <2>1, AttemptSound DEF Sound
  <2>3. phase'[s] = "sending" /\ probing'[s] /\ age'[s] = 0
    BY <1>1, <1>3, <2>2 DEF Admit, TypeOK
  <2> QED
    BY <2>2, <2>3 DEF SlotHasOwner
<1>4. ASSUME NEW s \in Sends, Succeed(s) \/ Fail(s) \/ FailForSome(s) \/ Unwind(s)
      PROVE  SlotHasOwner'
  BY <1>1, <1>4, ReportFreesSlot DEF Succeed, Fail, FailForSome, Unwind
<1>5. ASSUME NEW s \in Sends, Cancel(s) PROVE SlotHasOwner'
  <2>1. /\ breaker' = breaker
        /\ phase' = [phase EXCEPT ![s] = "cancelled"]
        /\ age' = age /\ probing' = probing
    BY <1>1, <1>5 DEF Cancel, Leave, TypeOK
  <2>2. PICK o \in Sends : Owns(o)
    BY <1>2, <2>1
  <2>3. phase'[o] \in {"sending", "cancelled"}
    BY <1>1, <2>1, <2>2 DEF TypeOK
  <2> QED
    BY <2>1, <2>2, <2>3 DEF SlotHasOwner
<1>6. CASE PassOver
  <2>1. breaker'.probeAge = breaker.probeAge /\ UNCHANGED <<phase, age, probing>>
    <3>1. breaker' = Observe(breaker) /\ Sound(breaker')
      BY <1>1, <1>6, ObserveSound DEF PassOver
    <3>2. ~TimeoutElapsed(breaker)
      BY <1>1, <3>1 DEF Observe, Sound, Breaker
    <3> QED
      BY <1>6, <3>1, <3>2 DEF PassOver, Observe, sendVars
  <2> QED
    BY <1>2, <2>1 DEF SlotHasOwner
<1>7. CASE Override
  BY <1>1, <1>7, ReportFreesSlot DEF Override
<1>8. CASE Tick
  <2>1. breaker'.probeAge = OlderOrNone(breaker.probeAge)
    BY <1>1, <1>8 DEF Tick, Aged, Sound, Breaker
  <2>2. PICK o \in Sends : Owns(o)
    BY <1>2, <2>1 DEF OlderOrNone
  <2>3. age'[o] = OlderOrNone(breaker.probeAge)
    <3>1. breaker.probeAge # None
      BY <2>1 DEF OlderOrNone
    <3> QED
      BY <1>8, <2>2, <3>1 DEF Tick, OlderOrNone
  <2> QED
    BY <1>8, <2>1, <2>2, <2>3 DEF Tick, SlotHasOwner
<1>9. CASE CalmDown \/ UNCHANGED vars
  BY <1>2, <1>9 DEF CalmDown, vars, sendVars, SlotHasOwner
<1> QED
  BY <1>3, <1>4, <1>5, <1>6, <1>7, <1>8, <1>9 DEF Next

(* A held probe slot was claimed by a send that is in flight or was cancelled:
   nobody takes it by looking at the breaker, and no report leaves it behind. *)
THEOREM SlotIsOwned == Spec => []SlotHasOwner
<1>1. Init => SlotHasOwner
  BY DEF Init, NewBreaker, SlotHasOwner
<1> QED
  BY <1>1, OwnerStep, InvariantHolds, PTL DEF Spec
=============================================================================

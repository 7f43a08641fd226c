------------------------- MODULE CircuitBreakerOpsProofs -------------------------
(* What TLAPS proves of the methods of CircuitBreaker as operators, for any
   configuration: whatever breaker they are given that is sound, the one they
   make of it is sound.  The proofs about CircuitBreaker, which is one of them,
   and about Sender, which has one per server, both rest on these lemmas.     *)
EXTENDS CircuitBreakerOps, FiniteSetTheorems, SequenceTheorems, TLAPS

(* CircuitBreaker's Consistent, as a predicate of one breaker. *)
Sound(cb) ==
  /\ cb \in Breaker
  /\ cb.state = "closed" => Len(cb.recent) < FailureThreshold
  /\ cb.successCount < SuccessThreshold
  /\ cb.probeAge # None => cb.state = "half_open"
  /\ cb.state = "open" => cb.openedAge # None
  /\ cb.failureCount = 0 => cb.recent = <<>>

-----------------------------------------------------------------------------
(* The operators keep a breaker sound, and what each does to its state. *)

LEMMA FunctionIsSeq ==
  ASSUME NEW S, NEW n \in Nat, NEW f \in [1..n -> S]
  PROVE  f \in Seq(S) /\ Len(f) = n
OBVIOUS

LEMMA WindowTyped ==
  ASSUME NEW r \in Seq(0..MonitorWindow)
  PROVE  WithinWindow(r) \in Seq(0..MonitorWindow)
<1> DEFINE k == Cardinality(Expired(r))
<1>1. Len(r) \in Nat
  OBVIOUS
<1>2. IsFiniteSet(1..Len(r)) /\ Cardinality(1..Len(r)) = Len(r)
  BY <1>1, FS_Interval
<1>3. Expired(r) \subseteq 1..Len(r)
  BY DEF Expired
<1>4. k \in 0..Len(r)
  BY <1>1, <1>2, <1>3, FS_Subset, FS_CardinalityType
<1>5. ASSUME NEW i \in 1..(Len(r) - k)
      PROVE  r[i + k] \in 0..MonitorWindow
  <2>1. i + k \in 1..Len(r)
    BY <1>1, <1>4
  <2> QED
    BY <2>1, ElementOfSeq
<1>6. Len(r) - k \in Nat
  BY <1>1, <1>4
<1>7. WithinWindow(r) = [i \in 1..(Len(r) - k) |-> r[i + k]]
  BY DEF WithinWindow
<1> HIDE DEF k
<1>8. WithinWindow(r) \in [1..(Len(r) - k) -> 0..MonitorWindow]
  BY <1>5, <1>7
<1> QED
  BY <1>6, <1>8, FunctionIsSeq

(* The values the methods write are of their fields' types. *)
LEMMA WrittenValues ==
  /\ 0 \in Ages
  /\ 0 \in 0..FailureCountCap
  /\ <<>> \in Seq(0..MonitorWindow)
  /\ Len(<<>>) = 0
BY ConfigAssumption DEF Ages

LEMMA NewSound == Sound(NewBreaker)
BY ConfigAssumption, NoneAssumption DEF Sound, NewBreaker, Breaker, Ages

LEMMA ObserveSound ==
  ASSUME NEW cb, Sound(cb)
  PROVE  /\ Sound(Observe(cb))
         /\ Observe(cb).recent = cb.recent
         /\ Observe(cb).failureCount = cb.failureCount
         /\ Observe(cb).openedAge = cb.openedAge
         /\ cb.state # "open" => Observe(cb) = cb
         /\ Observe(cb).state = "open" => Observe(cb) = cb
<1>1. cb \in Breaker
  BY DEF Sound
<1>2. CASE TimeoutElapsed(cb)
  <2>1. Observe(cb) = [cb EXCEPT !.state = "half_open", !.successCount = 0,
                                 !.probeAge = None]
    BY <1>2 DEF Observe
  <2>2. [cb EXCEPT !.state = "half_open", !.successCount = 0,
                   !.probeAge = None] \in Breaker
    BY <1>1 DEF Breaker
  <2> QED
    BY <1>1, <1>2, <2>1, <2>2, ConfigAssumption DEF Sound, Breaker, TimeoutElapsed
<1>3. CASE ~TimeoutElapsed(cb)
  BY <1>3 DEF Observe
<1> QED
  BY <1>2, <1>3

LEMMA AgedSound ==
  ASSUME NEW cb, Sound(cb)
  PROVE  /\ Sound(Aged(cb))
         /\ Aged(cb).state = cb.state
<1> DEFINE r == [i \in 1..Len(cb.recent) |-> Older(cb.recent[i], MonitorWindow)]
<1>1. cb \in Breaker
  BY DEF Sound
<1>2. r \in Seq(0..MonitorWindow) /\ Len(r) = Len(cb.recent)
  <2>1. cb.recent \in Seq(0..MonitorWindow) /\ Len(cb.recent) \in Nat
    BY <1>1 DEF Breaker
  <2>2. \A i \in 1..Len(cb.recent) : r[i] \in 0..MonitorWindow
    BY <2>1, ConfigAssumption DEF Older
  <2>3. r \in [1..Len(cb.recent) -> 0..MonitorWindow]
    BY <2>2
  <2> HIDE DEF r
  <2> QED
    BY <2>1, <2>3, FunctionIsSeq
<1>3. \A a \in Ages \cup {None} : /\ OlderOrNone(a) \in Ages \cup {None}
                                  /\ OlderOrNone(a) = None <=> a = None
  BY ConfigAssumption, NoneAssumption DEF OlderOrNone, Older, Ages
<1>4. cb.failureCount = 0 => r = <<>>
  BY <1>2 DEF Sound
<1>5. Aged(cb) = [cb EXCEPT !.recent = r, !.openedAge = OlderOrNone(@),
                            !.probeAge = OlderOrNone(@)]
  BY DEF Aged
<1> HIDE DEF r
<1>6. Aged(cb) \in Breaker
  BY <1>1, <1>2, <1>3, <1>5 DEF Breaker
<1> QED
  BY <1>1, <1>2, <1>3, <1>4, <1>5, <1>6 DEF Sound, Breaker

(* An admitted send leaves the breaker closed, or half-open with a claimed
   slot.                                                                   *)
LEMMA AttemptSound ==
  ASSUME NEW cb, Sound(cb)
  PROVE  /\ Sound(RecordAttempt(cb))
         /\ RecordAttempt(cb).state = Observe(cb).state
         /\ RecordAttempt(cb).state = "half_open" => RecordAttempt(cb).probeAge = 0
         /\ RecordAttempt(cb).state # "half_open" => RecordAttempt(cb) = Observe(cb)
<1> DEFINE o == Observe(cb)
<1>1. Sound(o)
  BY ObserveSound
<1> HIDE DEF o
<1>2. CASE o.state = "half_open"
  <2>1. RecordAttempt(cb) = [o EXCEPT !.probeAge = 0]
    BY <1>2 DEF RecordAttempt, o
  <2>2. [o EXCEPT !.probeAge = 0] \in Breaker
    BY <1>1, WrittenValues DEF Sound, Breaker
  <2> QED
    BY <1>1, <1>2, <2>1, <2>2 DEF Sound, Breaker, o
<1>3. CASE o.state # "half_open"
  <2>1. RecordAttempt(cb) = o
    BY <1>3 DEF RecordAttempt, o
  <2> QED
    BY <1>1, <1>3, <2>1 DEF o
<1> QED
  BY <1>2, <1>3

(* A reported failure leaves no breaker half-open, and one that is open was
   opened by it just now or was open all along.                            *)
LEMMA FailureSound ==
  ASSUME NEW cb, Sound(cb)
  PROVE  /\ Sound(RecordFailure(cb))
         /\ RecordFailure(cb).state # "half_open"
         /\ RecordFailure(cb).state = "open" =>
              \/ RecordFailure(cb).openedAge = 0
              \/ cb.state = "open" /\ RecordFailure(cb).openedAge = cb.openedAge
<1> DEFINE o == Observe(cb)
           r == WithinWindow(Append(o.recent, 0))
           n == IF o.failureCount < FailureCountCap THEN o.failureCount + 1
                ELSE o.failureCount
           counted == [o EXCEPT !.failureCount = n, !.recent = r]
<1>1. Sound(o) /\ o \in Breaker
  BY ObserveSound DEF Sound
<1>2. o.state = "open" => cb.state = "open" /\ o = cb
  BY ObserveSound
<1>3. r \in Seq(0..MonitorWindow)
  <2>1. Append(o.recent, 0) \in Seq(0..MonitorWindow)
    BY <1>1, ConfigAssumption DEF Breaker
  <2> QED
    BY <2>1, WindowTyped
<1>4. n \in 0..FailureCountCap /\ n # 0
  BY <1>1, ConfigAssumption DEF Breaker
<1>5. RecordFailure(cb) =
        CASE o.state = "closed" /\ OpensWith(counted.recent) -> Trip(counted)
          [] o.state = "half_open" ->
               [Trip(counted) EXCEPT !.successCount = 0, !.probeAge = None]
          [] OTHER -> counted
  BY DEF RecordFailure
<1> HIDE DEF o, r, n
<1>6. counted \in Breaker
  BY <1>1, <1>3, <1>4 DEF Breaker
<1>7. /\ counted.state = o.state /\ counted.successCount = o.successCount
      /\ counted.openedAge = o.openedAge /\ counted.probeAge = o.probeAge
      /\ counted.failureCount = n /\ counted.recent = r
  BY <1>1 DEF Breaker
<1> HIDE DEF counted
<1>8. /\ Trip(counted) \in Breaker
      /\ Trip(counted).state = "open" /\ Trip(counted).openedAge = 0
      /\ Trip(counted).successCount = o.successCount
      /\ Trip(counted).failureCount = n /\ Trip(counted).probeAge = o.probeAge
      /\ [Trip(counted) EXCEPT !.successCount = 0, !.probeAge = None] \in Breaker
  BY <1>6, <1>7, WrittenValues DEF Trip, Breaker
<1>9. CASE o.state = "closed" /\ OpensWith(counted.recent)
  <2>1. RecordFailure(cb) = Trip(counted)
    BY <1>5, <1>9
  <2> QED
    BY <1>1, <1>4, <1>8, <1>9, <2>1, NoneAssumption DEF Sound
<1>10. CASE o.state = "half_open"
  <2>1. RecordFailure(cb) =
          [Trip(counted) EXCEPT !.successCount = 0, !.probeAge = None]
    BY <1>5, <1>10
  <2>2. /\ RecordFailure(cb).state = "open" /\ RecordFailure(cb).openedAge = 0
        /\ RecordFailure(cb).successCount = 0 /\ RecordFailure(cb).probeAge = None
        /\ RecordFailure(cb).failureCount = n
    BY <1>8, <2>1 DEF Breaker
  <2> QED
    BY <1>4, <1>8, <2>1, <2>2, ConfigAssumption, NoneAssumption DEF Sound
<1>11. CASE o.state = "open" \/ (o.state = "closed" /\ ~OpensWith(counted.recent))
  <2>1. RecordFailure(cb) = counted
    BY <1>5, <1>11
  <2>2. Len(r) \in Nat
    BY <1>3
  <2> QED
    BY <1>1, <1>2, <1>3, <1>4, <1>6, <1>7, <1>11, <2>1, <2>2, ConfigAssumption
    DEF Sound, OpensWith
<1>12. o.state \in {"closed", "open", "half_open"}
  BY <1>1 DEF Breaker
<1> QED
  BY <1>9, <1>10, <1>11, <1>12

(* A reported success opens nothing; a breaker that stays half-open has its
   slot freed.                                                             *)
LEMMA SuccessSound ==
  ASSUME NEW cb, Sound(cb)
  PROVE  /\ Sound(RecordSuccess(cb))
         /\ RecordSuccess(cb).state = "open" => RecordSuccess(cb) = cb
         /\ RecordSuccess(cb).state = "half_open" =>
              /\ Observe(cb).state = "half_open"
              /\ RecordSuccess(cb).probeAge = None
<1> DEFINE o == Observe(cb)
           credited == [o EXCEPT !.probeAge = None,
                                 !.successCount = o.successCount + 1]
           shut == [credited EXCEPT !.state = "closed", !.failureCount = 0,
                                    !.successCount = 0, !.recent = <<>>]
<1>1. Sound(o) /\ o \in Breaker
  BY ObserveSound DEF Sound
<1>2. o.state = "open" => o = cb
  BY ObserveSound
<1>3. RecordSuccess(cb) =
        CASE o.state = "closed" -> Forgive(o)
          [] o.state = "open"   -> o
          [] o.state = "half_open" /\ ~ClosesWith(credited.successCount) -> credited
          [] OTHER -> shut
  BY DEF RecordSuccess
<1> HIDE DEF o
<1>4. credited \in Breaker /\ shut \in Breaker
  <2>1. credited \in Breaker
    <3>1. o.successCount + 1 \in Nat
      BY <1>1 DEF Breaker
    <3> QED
      BY <1>1, <3>1 DEF Breaker
  <2> HIDE DEF credited
  <2> QED
    BY <2>1, WrittenValues DEF Breaker
<1>5. CASE o.state = "closed"
  <2>1. RecordSuccess(cb) = Forgive(o)
    BY <1>3, <1>5
  <2>2. [o EXCEPT !.failureCount = 0, !.recent = <<>>] \in Breaker
    BY <1>1, WrittenValues DEF Breaker
  <2> QED
    BY <1>1, <1>5, <2>1, <2>2, ConfigAssumption, WrittenValues
    DEF Sound, Forgive, Breaker
<1>6. CASE o.state = "open"
  BY <1>1, <1>2, <1>3, <1>6
<1>7. CASE o.state = "half_open" /\ ~ClosesWith(credited.successCount)
  <2>1. RecordSuccess(cb) = credited
    BY <1>3, <1>7
  <2>2. /\ credited.state = "half_open" /\ credited.probeAge = None
        /\ credited.successCount = o.successCount + 1
        /\ credited.failureCount = o.failureCount /\ credited.recent = o.recent
    BY <1>1, <1>7 DEF Breaker
  <2> HIDE DEF credited
  <2> QED
    BY <1>1, <1>4, <1>7, <2>1, <2>2, ConfigAssumption
    DEF Sound, ClosesWith, Breaker, o
<1>8. CASE o.state = "half_open" /\ ClosesWith(credited.successCount)
  <2>1. RecordSuccess(cb) = shut
    BY <1>3, <1>8
  <2>2. /\ shut.state = "closed" /\ shut.probeAge = None /\ shut.successCount = 0
        /\ shut.failureCount = 0 /\ shut.recent = <<>>
    BY <1>1 DEF Breaker
  <2> HIDE DEF shut
  <2> QED
    BY <1>4, <2>1, <2>2, ConfigAssumption DEF Sound
<1> QED
  BY <1>1, <1>5, <1>6, <1>7, <1>8 DEF Breaker

(* The operator's overrides: what is forced open is open from now. *)
LEMMA OverridesSound ==
  ASSUME NEW cb, Sound(cb)
  PROVE  /\ Sound(ForceOpen(cb)) /\ ForceOpen(cb).state = "open"
         /\ ForceOpen(cb).openedAge = 0
         /\ Sound(ForceClose(cb)) /\ ForceClose(cb).state = "closed"
         /\ Sound(Reset(cb)) /\ Reset(cb).state = "closed"
<1>1. cb \in Breaker
  BY DEF Sound
<1>2. ForceOpen(cb) \in Breaker /\ ForceClose(cb) \in Breaker
  BY <1>1, WrittenValues DEF ForceOpen, ForceClose, Trip, Breaker
<1>3. /\ Sound(ForceOpen(cb)) /\ ForceOpen(cb).state = "open"
      /\ ForceOpen(cb).openedAge = 0
  BY <1>1, <1>2, NoneAssumption DEF Sound, ForceOpen, Trip, Breaker
<1>4. Sound(ForceClose(cb)) /\ ForceClose(cb).state = "closed"
  BY <1>1, <1>2, ConfigAssumption DEF Sound, ForceClose, Breaker
<1>5. Sound(Reset(cb)) /\ Reset(cb).state = "closed"
  BY NewSound DEF Reset, NewBreaker
<1> QED
  BY <1>3, <1>4, <1>5
=============================================================================

---------------------------- MODULE CircuitBreakerOps ----------------------------
(***************************************************************************)
(* The methods of CircuitBreaker (src/src/msmtp/circuit_breaker.py) as     *)
(* operators from one breaker to the next.  No method of the class awaits, *)
(* so on asyncio's single thread each one is atomic.                       *)
(*                                                                         *)
(* Time.  The code stores timestamps and only ever compares their distance *)
(* from now with a limit of the configuration.  The model stores that      *)
(* distance, an age, and lets it stop growing at the limit it is compared  *)
(* with: from there on every comparison gives the same answer.             *)
(*                                                                         *)
(* Left out: the counters and messages kept for monitoring (total_opens,   *)
(* total_trips, last_error_messages, last_*_time), which no method reads.  *)
(***************************************************************************)
EXTENDS Naturals, Sequences, FiniteSets

CONSTANTS
  FailureThreshold,   \* failures within the window that open the circuit
  SuccessThreshold,   \* successes in half-open that close it
  TimeoutSeconds,     \* time from open to half-open, and for a probe to report
  MonitorWindow,      \* age at which a failure no longer counts
  FailureCountCap,    \* where failureCount stops growing: it is only compared with 0
  None                \* Python's None

ASSUME ConfigAssumption ==
  /\ FailureThreshold \in Nat \ {0}
  /\ SuccessThreshold \in Nat \ {0}
  /\ TimeoutSeconds \in Nat
  /\ MonitorWindow \in Nat
  /\ FailureCountCap \in Nat \ {0}

ASSUME NoneAssumption == None \notin Nat

Ages == 0..TimeoutSeconds

Breaker ==
  [state        : {"closed", "open", "half_open"},
   failureCount : 0..FailureCountCap,
   successCount : Nat,
   recent       : Seq(0..MonitorWindow),   \* _recent_failures, oldest first
   openedAge    : Ages \cup {None},        \* age of opened_at
   probeAge     : Ages \cup {None}]        \* age of _probe_started_at

NewBreaker ==
  [state |-> "closed", failureCount |-> 0, successCount |-> 0,
   recent |-> <<>>, openedAge |-> None, probeAge |-> None]

-----------------------------------------------------------------------------
(* The passing of one unit of time. *)

Older(age, limit) == IF age < limit THEN age + 1 ELSE age

OlderOrNone(age) == IF age = None THEN None ELSE Older(age, TimeoutSeconds)

Aged(cb) ==
  [cb EXCEPT
     !.recent    = [i \in 1..Len(@) |-> Older(@[i], MonitorWindow)],
     !.openedAge = OlderOrNone(@),
     !.probeAge  = OlderOrNone(@)]

(* The failures still inside the window.  The list is in the order of time,
   so those that expired are a prefix of it.                               *)
Expired(recent) == {i \in 1..Len(recent) : recent[i] >= MonitorWindow}

WithinWindow(recent) ==
  LET k == Cardinality(Expired(recent))
  IN  [i \in 1..(Len(recent) - k) |-> recent[i + k]]

-----------------------------------------------------------------------------
(* Reading the state. *)

TimeoutElapsed(cb) ==
  cb.state = "open" /\ cb.openedAge # None /\ cb.openedAge >= TimeoutSeconds

ObserveClaiming(cb) ==              \* mutation: observing claims the probe slot
  IF TimeoutElapsed(cb)
  THEN [cb EXCEPT !.state = "half_open", !.successCount = 0, !.probeAge = 0]
  ELSE cb

(* _get_current_state: every reader moves a timed-out breaker to half-open. *)
Observe(cb) ==
  IF TimeoutElapsed(cb)
  THEN [cb EXCEPT !.state = "half_open", !.successCount = 0, !.probeAge = None]
  ELSE cb

ProbeNeverLost(cb) == cb.probeAge # None     \* mutation: no expiry

ProbeInFlight(cb) == cb.probeAge # None /\ cb.probeAge < TimeoutSeconds

(* is_available, which answers from the state it has just observed. *)
IsAvailableWhenOpen(cb) ==          \* mutation: the check for OPEN dropped
  ~(Observe(cb).state = "half_open" /\ ProbeInFlight(Observe(cb)))

IsAvailableIgnoringProbe(cb) ==     \* mutation: the check for a probe dropped
  Observe(cb).state # "open"

IsAvailable(cb) ==
  \/ Observe(cb).state = "closed"
  \/ Observe(cb).state = "half_open" /\ ~ProbeInFlight(Observe(cb))

(* _peek_state and the "is_available" that get_stats derives from it: the
   read-only twins of the two above.                                       *)
PeekStateStored(cb) == cb.state     \* mutation: the timeout is not looked at

PeekState(cb) == IF TimeoutElapsed(cb) THEN "half_open" ELSE cb.state

StatsAvailable(cb) ==
  PeekState(cb) # "open" /\ ~(PeekState(cb) = "half_open" /\ ProbeInFlight(cb))

-----------------------------------------------------------------------------
(* Changing it. *)

RecordAttempt(cb) ==
  LET o == Observe(cb)
  IN  IF o.state = "half_open" THEN [o EXCEPT !.probeAge = 0] ELSE o

OpensLate(recent) == Len(recent) > FailureThreshold       \* mutation: >

OpensWith(recent) == Len(recent) >= FailureThreshold

ClosesLate(successes) == successes > SuccessThreshold     \* mutation: >

ClosesWith(successes) == successes >= SuccessThreshold

Trip(cb) == [cb EXCEPT !.state = "open", !.openedAge = 0]

RecordFailure(cb) ==
  LET o       == Observe(cb)
      counted == [o EXCEPT
                    !.failureCount = IF @ < FailureCountCap THEN @ + 1 ELSE @,
                    !.recent       = WithinWindow(Append(@, 0))]
  IN  CASE o.state = "closed" /\ OpensWith(counted.recent) ->
             Trip(counted)
        [] o.state = "half_open" ->
             [Trip(counted) EXCEPT !.successCount = 0, !.probeAge = None]
        [] OTHER -> counted

(* record_success in the closed state forgets the failures; the code first
   asks whether failure_count says there are any.                          *)
Forgive(cb) ==
  IF cb.failureCount > 0
  THEN [cb EXCEPT !.failureCount = 0, !.recent = <<>>]
  ELSE cb

RecordSuccess(cb) ==
  LET o        == Observe(cb)
      credited == [o EXCEPT !.probeAge = None, !.successCount = @ + 1]
  IN  CASE o.state = "closed" -> Forgive(o)
        [] o.state = "open"   -> o
        [] o.state = "half_open" /\ ~ClosesWith(credited.successCount) ->
             credited
        [] OTHER ->
             [credited EXCEPT !.state = "closed", !.failureCount = 0,
                              !.successCount = 0, !.recent = <<>>]

ForceOpenUntimed(cb) ==             \* mutation: opened_at is not set
  [cb EXCEPT !.state = "open", !.probeAge = None]

ForceOpen(cb) == [Trip(cb) EXCEPT !.probeAge = None]

ForceCloseKeepingRecent(cb) ==      \* mutation: _recent_failures is not cleared
  [cb EXCEPT !.state = "closed", !.failureCount = 0, !.successCount = 0,
             !.probeAge = None]

ForceClose(cb) ==
  [cb EXCEPT !.state = "closed", !.failureCount = 0, !.successCount = 0,
             !.probeAge = None, !.recent = <<>>]

ResetStateless(cb) ==               \* mutation: the new stats get no state
  [NewBreaker EXCEPT !.state = None]

(* reset: the stats are rebuilt, so opened_at goes back to None too. *)
Reset(cb) == NewBreaker
=============================================================================

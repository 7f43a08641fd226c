------------------------------ MODULE CircuitBreaker ------------------------------
(***************************************************************************)
(* One breaker and the sends that share it.  A send (AsyncSMTPSender.send) *)
(* asks is_available and claims its place with record_attempt in one step  *)
(* (no await lies between); what it reports, if it reports at all, comes   *)
(* after awaits of any length.  A send that the server accepted for some   *)
(* of its recipients only reports its failure twice: at once, and again in *)
(* the except clause after the connection's release was awaited.           *)
(***************************************************************************)
EXTENDS CircuitBreakerOps

CONSTANTS
  Sends,          \* the concurrent callers
  MaxOverrides    \* bound: how often an operator overrides the breaker

ASSUME BoundAssumption == MaxOverrides \in Nat

VARIABLES
  breaker,    \* the CircuitBreaker object
  phase,      \* phase[s]: where send s is
  age,        \* age[s]: time since s was admitted
  probing,    \* probing[s]: s was admitted in half-open and claimed the slot
  stray,      \* history: a report reached a half-open breaker from a send other
              \* than the one holding its probe slot
  calm,       \* from now on no send fails and none is cancelled
  overrides   \* overrides so far

vars == <<breaker, phase, age, probing, stray, calm, overrides>>
sendVars == <<phase, age, probing>>

Phases == {"idle", "sending", "unwinding", "cancelled"}

TypeOK ==
  /\ breaker \in Breaker
  /\ phase \in [Sends -> Phases]
  /\ age \in [Sends -> Ages]
  /\ probing \in [Sends -> BOOLEAN]
  /\ stray \in BOOLEAN
  /\ calm \in BOOLEAN
  /\ overrides \in 0..MaxOverrides

Init ==
  /\ breaker = NewBreaker
  /\ phase = [s \in Sends |-> "idle"]
  /\ age = [s \in Sends |-> 0]
  /\ probing = [s \in Sends |-> FALSE]
  /\ stray = FALSE
  /\ calm = FALSE
  /\ overrides = 0

-----------------------------------------------------------------------------
InFlight(s) == phase[s] \in {"sending", "unwinding"}

(* s still has the slot: it claimed it and the breaker waits for it. *)
HoldsSlot(s) ==
  /\ phase[s] = "sending" /\ probing[s]
  /\ breaker.probeAge # None /\ age[s] = breaker.probeAge

NoteReport(s) ==
  stray' = (stray \/ (Observe(breaker).state = "half_open" /\ ~HoldsSlot(s)))

(* A send returned, or was cancelled, or moves on to unwinding. *)
Leave(s, where) ==
  /\ phase' = [phase EXCEPT ![s] = where]
  /\ age' = [age EXCEPT ![s] = IF where = "idle" THEN 0 ELSE @]
  /\ probing' = [probing EXCEPT ![s] = IF where = "idle" THEN FALSE ELSE @]

(* The availability filter of _select_server looked at this breaker and the
   send went elsewhere or nowhere.                                         *)
PassOver ==
  /\ Observe(breaker) # breaker
  /\ breaker' = Observe(breaker)
  /\ UNCHANGED <<sendVars, stray, calm, overrides>>

(* _select_server returned this breaker's server. *)
Admit(s) ==
  /\ ~InFlight(s)
  /\ IsAvailable(breaker)
  /\ breaker' = RecordAttempt(breaker)
  /\ phase' = [phase EXCEPT ![s] = "sending"]
  /\ age' = [age EXCEPT ![s] = 0]
  /\ probing' = [probing EXCEPT ![s] = breaker'.state = "half_open"]
  /\ UNCHANGED <<stray, calm, overrides>>

Succeed(s) ==
  /\ phase[s] = "sending"
  /\ breaker' = RecordSuccess(breaker)
  /\ NoteReport(s)
  /\ Leave(s, "idle")
  /\ UNCHANGED <<calm, overrides>>

Fail(s) ==
  /\ ~calm
  /\ phase[s] = "sending"
  /\ breaker' = RecordFailure(breaker)
  /\ NoteReport(s)
  /\ Leave(s, "idle")
  /\ UNCHANGED <<calm, overrides>>

FailForSome(s) ==
  /\ ~calm
  /\ phase[s] = "sending"
  /\ breaker' = RecordFailure(breaker)
  /\ NoteReport(s)
  /\ Leave(s, "unwinding")
  /\ UNCHANGED <<calm, overrides>>

(* The exception raised for those recipients reaches send's except clause. *)
Unwind(s) ==
  /\ phase[s] = "unwinding"
  /\ breaker' = RecordFailure(breaker)
  /\ NoteReport(s)
  /\ Leave(s, "idle")
  /\ UNCHANGED <<calm, overrides>>

(* CancelledError is no Exception: neither except clause of send catches it. *)
Cancel(s) ==
  /\ ~calm
  /\ InFlight(s)
  /\ Leave(s, "cancelled")
  /\ UNCHANGED <<breaker, stray, calm, overrides>>

Override ==
  /\ ~calm
  /\ overrides < MaxOverrides
  /\ overrides' = overrides + 1
  /\ breaker' \in {ForceOpen(breaker), ForceClose(breaker), Reset(breaker)}
  /\ UNCHANGED <<sendVars, stray, calm>>

Tick ==
  /\ breaker' = Aged(breaker)
  /\ age' = [s \in Sends |-> IF phase[s] = "idle" THEN age[s]
                             ELSE Older(age[s], TimeoutSeconds)]
  /\ UNCHANGED <<phase, probing, stray, calm, overrides>>

(* The environment stops failing, cancelling and overriding. *)
CalmDown ==
  /\ ~calm
  /\ calm' = TRUE
  /\ UNCHANGED <<breaker, sendVars, stray, overrides>>

Next ==
  \/ \E s \in Sends : \/ Admit(s) \/ Succeed(s) \/ Fail(s) \/ FailForSome(s)
                      \/ Unwind(s) \/ Cancel(s)
  \/ PassOver \/ Override \/ Tick \/ CalmDown

Spec == Init /\ [][Next]_vars

(* Time passes; callers keep calling; a send that is neither failed nor
   cancelled comes to its end.  Failures, cancellations and overrides are
   the environment's and need never happen.                                *)
Fairness ==
  /\ WF_vars(Tick)
  /\ WF_vars(\E s \in Sends : Admit(s))
  /\ \A s \in Sends : WF_vars(Succeed(s)) /\ WF_vars(Unwind(s))

FairSpec == Spec /\ Fairness

-----------------------------------------------------------------------------
(* A closed breaker is never left at its threshold: the failure that reaches
   it opens the circuit in the same step, whichever send reports it
   (record_failure, the closed branch).                                     *)
ClosedBelowThreshold ==
  breaker.state = "closed" => Len(breaker.recent) < FailureThreshold

SuccessesBelowThreshold == breaker.successCount < SuccessThreshold

SlotOnlyInHalfOpen == breaker.probeAge # None => breaker.state = "half_open"

OpenKnowsSince == breaker.state = "open" => breaker.openedAge # None

(* record_success forgets failures only when failure_count is not 0, although
   what opens the circuit is _recent_failures: the two, reset in five places,
   must agree on "none".                                                    *)
ZeroCountMeansNoRecent == breaker.failureCount = 0 => breaker.recent = <<>>

(* What keeps a breaker from getting stuck, whatever order reports, timeouts
   and overrides come in: it is never left with the successes that close it;
   every way out of half-open (closed, re-opened, forced, reset) frees the
   probe slot, so no stale claim blocks the next recovery; and an open breaker
   knows since when, without which it would stay open for ever.             *)
Consistent ==
  /\ TypeOK
  /\ ClosedBelowThreshold
  /\ SuccessesBelowThreshold
  /\ SlotOnlyInHalfOpen
  /\ OpenKnowsSince
  /\ ZeroCountMeansNoRecent

(* get_stats, which reads without moving the breaker, reports the availability
   that is_available would answer.                                          *)
StatsAgree == StatsAvailable(breaker) <=> IsAvailable(breaker)

(* While a circuit is open every send in flight was admitted before it opened:
   nothing is let through to a server known to fail.                        *)
OpenAdmitsNothing ==
  breaker.state = "open" =>
    \A s \in Sends : InFlight(s) => age[s] >= breaker.openedAge

(* Whoever looks at a recovering breaker without sending through it leaves the
   slot alone: a held slot was claimed by a send that is in flight or was
   cancelled.                                                               *)
SlotHasOwner ==
  breaker.probeAge # None =>
    \E s \in Sends : /\ phase[s] \in {"sending", "cancelled"}
                     /\ probing[s]
                     /\ age[s] = breaker.probeAge

LiveProbes ==
  {s \in Sends : phase[s] = "sending" /\ probing[s] /\ age[s] < TimeoutSeconds}

(* "Only one probe at a time; the rest wait for its outcome"
   (circuit_breaker.py:121), as is_available's comment has it.              *)
OneProbeAtATime == breaker.state = "half_open" => Cardinality(LiveProbes) <= 1

(* What the slot does guarantee: one probe at a time as long as no report from
   another send (one admitted before the circuit opened, or one presumed lost)
   reaches the breaker while it is half-open.                               *)
OneProbeUnlessStray == ~stray => OneProbeAtATime

(* Why: as long as no such report came, every send that is out as a probe and
   not presumed lost is the one whose claim the slot records.               *)
ProbeHoldsSlot ==
  ~stray /\ breaker.state = "half_open" =>
    \A s \in LiveProbes : /\ breaker.probeAge = age[s]
                          /\ \A t \in LiveProbes : t = s

(* The inductive invariant of the proofs: the breaker is consistent by itself,
   with the ages of the sends in flight while it is open, and with the probes
   while it is half-open.                                                   *)
IInv ==
  /\ Consistent
  /\ OpenAdmitsNothing
  /\ ProbeHoldsSlot

(* A breaker is never unavailable for good: not open (the timeout), not
   half-open with a probe that will never report (it is presumed lost).     *)
AvailableAgain == []<>IsAvailable(breaker)

(* Once the server accepts mail and sends are neither failed nor cancelled the
   circuit closes, from whatever state it was in.                           *)
Recovers == calm ~> breaker.state = "closed"
=============================================================================

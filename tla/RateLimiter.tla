------------------------------- MODULE RateLimiter -------------------------------
(***************************************************************************)
(* RateLimiter and its TokenBuckets (src/src/msmtp/rate_limiter.py), and   *)
(* the tasks that wait for them.                                           *)
(*                                                                         *)
(* A bucket's lock is never held across an await, so each turn of the loop *)
(* in TokenBucket.acquire is one step, and a composite acquire goes on to  *)
(* the next bucket in the same step until one makes it wait.  Between two  *)
(* turns everybody else may run: waiters poll, in no order.                *)
(*                                                                         *)
(* Tokens are counted in units, Unit of which make one token; a bucket     *)
(* gains Rate[b] of them in one unit of time.  As in the code a bucket is  *)
(* refilled when somebody looks at it.  Of last_update the model keeps the *)
(* time since, which stops growing when the bucket would be full.          *)
(***************************************************************************)
EXTENDS Naturals, FiniteSetsExt

CONSTANTS
  Waiters,      \* tasks that call acquire
  Last,         \* the buckets are 1..Last, in the order of self.buckets
  Unit,
  Rate,         \* Rate[b], in units; a bucket is made for a positive rate only
  Capacity,     \* Capacity[b], in tokens; the constructor makes it at least 1
  Timeouts,     \* the timeouts acquire is called with: numbers, or None
  MaxCancels,   \* bound: how many waiters are cancelled
  None          \* Python's None

Buckets == 1..Last

ASSUME LimiterAssumption ==
  /\ Last \in Nat \ {0} /\ Unit \in Nat \ {0}
  /\ Rate \in [Buckets -> Nat \ {0}]
  /\ Capacity \in [Buckets -> Nat \ {0}]
  /\ Timeouts \subseteq Nat \cup {None} /\ IsFiniteSet(Timeouts)
  /\ IsFiniteSet(Waiters) /\ MaxCancels \in Nat
  /\ None \notin Nat \cup Waiters

VARIABLES
  tokens,     \* tokens[b], in units
  since,      \* since[b]: the time since last_update
  at,         \* at[w]: the bucket w waits for, or 0
  timeout,    \* timeout[w] of the acquire w is in
  waited,     \* waited[w]: the time since that acquire began
  shadow,     \* history: shadow[w][b]: what b would hold had w not called it
  level,      \* history: level[b]: tokens granted, less what b gained since
  cancels     \* cancelled waiters

vars == <<tokens, since, at, timeout, waited, shadow, level, cancels>>

Full(b) == Capacity[b] * Unit

FullAfter(b) == (Full(b) + Rate[b] - 1) \div Rate[b]

Patience == Max((Timeouts \ {None}) \cup {0}) + 1

TypeOK ==
  /\ tokens \in [Buckets -> Nat] /\ \A b \in Buckets : tokens[b] <= Full(b)
  /\ since \in [Buckets -> Nat] /\ \A b \in Buckets : since[b] <= FullAfter(b)
  /\ at \in [Waiters -> 0..Last]
  /\ timeout \in [Waiters -> Timeouts \cup {None}]
  /\ waited \in [Waiters -> 0..Patience]
  /\ shadow \in [Waiters -> [Buckets -> Nat]]
  /\ level \in [Buckets -> Nat]
  /\ cancels \in 0..MaxCancels

Nothing == [b \in Buckets |-> 0]

Init ==
  /\ tokens = [b \in Buckets |-> Full(b)]
  /\ since = Nothing
  /\ at = [w \in Waiters |-> 0]
  /\ timeout = [w \in Waiters |-> None]
  /\ waited = [w \in Waiters |-> 0]
  /\ shadow = [w \in Waiters |-> Nothing]
  /\ level = Nothing
  /\ cancels = 0

-----------------------------------------------------------------------------
AtMost(limit, n) == IF n > limit THEN limit ELSE n

Less(n, m) == IF n > m THEN n - m ELSE 0

RefilledUncapped(b) == tokens[b] + since[b] * Rate[b]    \* mutation: no min

RefilledWhole(b) ==              \* mutation: tokens are kept as an int
  AtMost(Full(b), ((tokens[b] + since[b] * Rate[b]) \div Unit) * Unit)

(* What _refill makes of tokens. *)
Refilled(b) == AtMost(Full(b), tokens[b] + since[b] * Rate[b])

(* The buckets that lack a token, of those an acquire has yet to pass. *)
Lacking(first) == {b \in first..Last : Refilled(b) < Unit}

Stop(first) == IF Lacking(first) = {} THEN Last + 1 ELSE Min(Lacking(first))

Passed(first) == {b \in Buckets : first <= b /\ b < Stop(first)}

LookedAt(first) == {b \in Buckets : first <= b /\ b <= Stop(first)}

Taken(first) ==
  [b \in Buckets |-> IF b \in Passed(first) THEN Refilled(b) - Unit
                     ELSE IF b \in LookedAt(first) THEN Refilled(b) ELSE tokens[b]]

NotNoted(first) == since          \* mutation: last_update is not set

(* _refill's last_update. *)
Noted(first) == [b \in Buckets |-> IF b \in LookedAt(first) THEN 0 ELSE since[b]]

Drained(first) == Taken(first)      \* mutation: nothing is rolled back

RolledBackToAll(first) ==           \* mutation: to the failing bucket as well
  [b \in Buckets |-> IF b <= Stop(first) THEN AtMost(Full(b), Taken(first)[b] + Unit)
                                         ELSE Taken(first)[b]]

(* The roll-back of a denied acquire: one token to each bucket it had passed,
   without a refill of those it passed in earlier steps.                    *)
RolledBack(first) ==
  [b \in Buckets |-> IF b < Stop(first) THEN AtMost(Full(b), Taken(first)[b] + Unit)
                                        ELSE Taken(first)[b]]

(* elapsed + wait_time > timeout, times the rate.  The remaining time that is
   passed to each bucket makes it the time since the whole acquire began.   *)
OutOfTime(b, limit, elapsed) ==
  /\ limit # None
  /\ elapsed * Rate[b] + Unit - Refilled(b) > limit * Rate[b]

-----------------------------------------------------------------------------
(* History: what the others do to the buckets, they do to w's shadow. *)

ShadowsAfter(w, mine, change(_, _)) ==
  [v \in Waiters |->
     IF v = w THEN mine
     ELSE IF at[v] = 0 THEN shadow[v]
     ELSE [b \in Buckets |-> change(b, shadow[v][b])]]

GrantedLevel == [b \in Buckets |-> level[b] + Unit]

Forget(w) ==
  /\ at' = [at EXCEPT ![w] = 0]
  /\ timeout' = [timeout EXCEPT ![w] = None]
  /\ waited' = [waited EXCEPT ![w] = 0]

(* One turn of w's acquire, from bucket `first` on. *)
Turn(w, first, limit, elapsed, mine) ==
  /\ since' = Noted(first)
  /\ UNCHANGED cancels
  /\ \/ /\ Lacking(first) = {}
        /\ tokens' = Taken(first)
        /\ level' = GrantedLevel
        /\ Forget(w)
        /\ shadow' = ShadowsAfter(w, Nothing,
                       LAMBDA b, n : IF b \in Passed(first) THEN n - Unit ELSE n)
     \/ /\ Lacking(first) # {}
        /\ OutOfTime(Stop(first), limit, elapsed)
        /\ tokens' = RolledBack(first)
        /\ Forget(w)
        /\ shadow' = ShadowsAfter(w, Nothing,
                       LAMBDA b, n : IF b < first THEN AtMost(Full(b), n + Unit) ELSE n)
        /\ UNCHANGED level
     \/ /\ Lacking(first) # {}
        /\ ~OutOfTime(Stop(first), limit, elapsed)
        /\ tokens' = Taken(first)
        /\ at' = [at EXCEPT ![w] = Stop(first)]
        /\ timeout' = [timeout EXCEPT ![w] = limit]
        /\ waited' = [waited EXCEPT ![w] = elapsed]
        /\ shadow' = ShadowsAfter(w, mine,
                       LAMBDA b, n : IF b \in Passed(first) THEN n - Unit ELSE n)
        /\ UNCHANGED level

Begin(w) ==
  /\ at[w] = 0
  /\ \E limit \in Timeouts :
       Turn(w, 1, limit, 0, [b \in Buckets |-> Refilled(b)])

(* Its sleep of at most 0.1 s is over. *)
Poll(w) ==
  /\ at[w] # 0
  /\ Turn(w, at[w], timeout[w], waited[w], shadow[w])

(* A cancelled acquire rolls nothing back. *)
Cancel(w) ==
  /\ at[w] # 0
  /\ cancels < MaxCancels
  /\ cancels' = cancels + 1
  /\ Forget(w)
  /\ shadow' = [shadow EXCEPT ![w] = Nothing]
  /\ UNCHANGED <<tokens, since, level>>

(* try_acquire, which refills and checks all buckets before it takes. *)
TryAcquire ==
  /\ since' = Noted(1)
  /\ IF Lacking(1) = {}
     THEN /\ tokens' = Taken(1)
          /\ level' = GrantedLevel
          /\ shadow' = ShadowsAfter(None, Nothing, LAMBDA b, n : n - Unit)
     ELSE /\ tokens' = [b \in Buckets |-> IF b \in LookedAt(1) THEN Refilled(b)
                                                               ELSE tokens[b]]
          /\ UNCHANGED <<level, shadow>>
  /\ UNCHANGED <<at, timeout, waited, cancels>>

Tick ==
  /\ since' = [b \in Buckets |-> AtMost(FullAfter(b), since[b] + 1)]
  /\ waited' = [w \in Waiters |-> IF timeout[w] = None THEN 0
                                  ELSE AtMost(Patience, waited[w] + 1)]
  /\ shadow' = [w \in Waiters |->
                  IF at[w] = 0 THEN shadow[w]
                  ELSE [b \in Buckets |-> AtMost(Full(b), shadow[w][b] + Rate[b])]]
  /\ level' = [b \in Buckets |-> Less(level[b], Rate[b])]
  /\ UNCHANGED <<tokens, at, timeout, cancels>>

Next ==
  \/ \E w \in Waiters : Begin(w) \/ Poll(w) \/ Cancel(w)
  \/ TryAcquire \/ Tick

Spec == Init /\ [][Next]_vars

(* Time passes, and every sleep ends.  Nobody has to call. *)
Fairness == WF_vars(Tick) /\ \A w \in Waiters : WF_vars(Poll(w))

FairSpec == Spec /\ Fairness

-----------------------------------------------------------------------------
(* Over any stretch of time no more is granted than the capacity of the last
   bucket and what it gained meanwhile, however often it was refilled, and by
   whom.  Of an earlier bucket the tokens of waiters that paid it before they
   waited further on, or were denied, may be granted on top.                *)
WithinRate ==
  /\ level[Last] <= Full(Last)
  /\ \A b \in Buckets : level[b] <= Full(b) + Cardinality(Waiters) * Unit

Denied(w) == at[w] # 0 /\ at'[w] = 0 /\ level' = level /\ cancels' = cancels

(* "so we don't silently drain them on a failed multi-window acquire"
   (rate_limiter.py:182): whatever others took and gave back while it waited,
   an acquire that is denied leaves each bucket with no less than if it had
   never been made, and with no more than one token above that.             *)
DeniedCostsNothing ==
  [][\A w \in Waiters : Denied(w) =>
       \A b \in Buckets :
         /\ Refilled(b)' >= shadow[w][b]
         /\ Refilled(b)' <= shadow[w][b] + (IF b < at[w] THEN Unit ELSE 0)]_vars

(* While somebody waits, somebody is granted: waiters who poll without a queue
   may overtake each other, but not so that all of them starve.             *)
SomebodyGetsThrough ==
  \/ []<>(\A w \in Waiters : at[w] = 0)
  \/ []<><<level'[Last] > level[Last]>>_vars
=============================================================================

------------------------------- MODULE SenderProofs -------------------------------
(* What TLAPS proves of Sender, for any messages, servers, limits and settings
   of the breakers.

   The invariant says of every message where its send and its item in the queue
   can be at once (Placed), what a send in flight knows (Knows), how many
   attempts that makes (Counted) and how many servers took it (TakenOnce); of
   all of them together that the two semaphores hold (LimitsKept); and of the
   breakers that they are sound and that one opens only with an excuse.        *)
EXTENDS Sender, CircuitBreakerOpsProofs

PCs == {"unsent", "taken", "limited", "acquiring", "sending", "releasing",
        "backoff", "returned", "cancelled"}
Items == {"absent", "waiting", "taken", "lost", "givenUp"}
Copies == {"none", "one", "several", "unsure"}

(* A message is in the hands of its caller, of the queue, or of a send. *)
Placed(m) ==
  /\ pc[m] = "unsent" => item[m] = "absent"
  /\ pc[m] = "taken" => item[m] = "taken"
  /\ AtWork(m) => item[m] \in {"absent", "taken"}
  /\ pc[m] = "returned" => item[m] \in {"absent", "waiting", "givenUp"}
  /\ pc[m] = "cancelled" => item[m] \in {"absent", "lost"}

(* What a send in flight knows: its server, its attempt and, from the server's
   answer to the release of the connection, what came of it.                 *)
Knows(m) ==
  /\ pc[m] \in {"limited", "acquiring", "sending", "releasing"} => server[m] \in Servers
  /\ AtWork(m) => attempt[m] \in 1..MaxRetries
  /\ pc[m] = "backoff" => attempt[m] < MaxRetries
  /\ pc[m] = "releasing" =>
       /\ outcome[m] \in Outcomes
       /\ outcome[m] = "sent" => copies[m] # "none"
       /\ outcome[m] # "sent" => MayFail(server[m])

(* The attempts at a message: at most MaxRetries in the first call of send and
   in every one the queue made of it, of which the last may be under way.    *)
Counted(m) ==
  /\ pc[m] = "unsent" => total[m] = 0
  /\ pc[m] = "taken" => total[m] <= MaxRetries * tries[m]
  /\ AtWork(m) /\ FromQueue(m) => total[m] <= MaxRetries * tries[m] + attempt[m]
  /\ AtWork(m) /\ ~FromQueue(m) => total[m] <= attempt[m]
  /\ pc[m] \in {"returned", "cancelled"} => total[m] <= MaxRetries * tries[m] + MaxRetries

(* Who took a message once and said so is not asked again: its send is on its
   way out, or is over and left nothing in the queue.                        *)
TakenOnce(m) ==
  /\ copies[m] # "several"
  /\ copies[m] = "one" => \/ pc[m] = "releasing" /\ outcome[m] = "sent"
                          \/ pc[m] = "returned" /\ item[m] = "absent"
                          \/ pc[m] = "cancelled"

MessageSound(m) == Placed(m) /\ Knows(m) /\ Counted(m) /\ TakenOnce(m)

Direct == {m \in Messages : AtWork(m) /\ ~FromQueue(m)}
Retried == {m \in Messages : AtWork(m) /\ FromQueue(m)}

LimitsKept ==
  /\ Cardinality(Direct) <= BulkConcurrency
  /\ Cardinality(Retried) <= RetryConcurrency

(* What may open the breaker of s. *)
Excused(s) ==
  \/ s \in Faulty
  \/ life = "closed"
  \/ leaked[s] # 0
  \/ MaxConnections[s] < BulkConcurrency + RetryConcurrency

BreakersSound ==
  \A s \in Servers : Sound(breaker[s]) /\ (breaker[s].state = "closed" \/ Excused(s))

IInv ==
  /\ TypeOK
  /\ \A m \in Messages : MessageSound(m)
  /\ LimitsKept
  /\ BreakersSound

-----------------------------------------------------------------------------
(* Steps of one send.  Moves says that a step changes nothing of any message
   but m, and what it makes of m has the types.                              *)

Typed ==
  /\ pc \in [Messages -> PCs] /\ server \in [Messages -> Servers \cup {None}]
  /\ attempt \in [Messages -> 0..MaxRetries]
  /\ outcome \in [Messages -> Outcomes \cup {None}]
  /\ item \in [Messages -> Items] /\ tries \in [Messages -> 0..MaxAttempts]

Moves(m) ==
  /\ Typed'
  /\ \A n \in Messages \ {m} :
       /\ pc'[n] = pc[n] /\ server'[n] = server[n] /\ attempt'[n] = attempt[n]
       /\ outcome'[n] = outcome[n] /\ item'[n] = item[n] /\ tries'[n] = tries[n]

History ==
  /\ copies \in [Messages -> Copies] /\ total \in [Messages -> Nat]

Records(m) ==
  /\ History'
  /\ \A n \in Messages \ {m} : copies'[n] = copies[n] /\ total'[n] = total[n]

LEMMA TypeOKParts ==
  TypeOK <=> /\ Typed /\ History
             /\ breaker \in [Servers -> Breaker]
             /\ life \in {"new", "open", "closed"}
             /\ leaked \in [Servers -> Nat]
             /\ cancels \in 0..MaxCancels
BY DEF TypeOK, Typed, History, PCs, Items, Copies

LEMMA BoundTypes ==
  /\ MaxRetries \in Nat \ {0} /\ MaxAttempts \in Nat \ {0}
  /\ BulkConcurrency \in Nat /\ RetryConcurrency \in Nat
  /\ \A s \in Servers : MaxConnections[s] \in Nat
  /\ \A m \in Messages : tries[m] \in Nat => MaxRetries * tries[m] \in Nat
BY SenderAssumption

(* send returns: its message is back with its caller, or in the queue. *)
Answered(m, result) ==
  /\ pc'[m] = "returned" /\ outcome'[m] = result
  /\ item'[m] \in {"absent", "waiting", "givenUp"}
  /\ result = "sent" => item'[m] = "absent"
  /\ item'[m] = "absent" => result \in {"sent", "permanent"} \/ life = "new"
  /\ item'[m] = "absent" => item[m] = "absent" \/ result = "sent"
  /\ \/ tries'[m] = tries[m]
     \/ item[m] = "absent" /\ tries'[m] = 0

LEMMA ReturnEffect ==
  ASSUME Typed, NEW m \in Messages, item[m] \in {"absent", "taken"},
         NEW result \in Outcomes, Return(m, result)
  PROVE  Moves(m) /\ Answered(m, result)
<1>1. Leave(m, "returned", result)
  BY DEF Return
<1>2. /\ pc' \in [Messages -> PCs] /\ server' \in [Messages -> Servers \cup {None}]
      /\ attempt' \in [Messages -> 0..MaxRetries]
      /\ outcome' \in [Messages -> Outcomes \cup {None}]
      /\ pc'[m] = "returned" /\ outcome'[m] = result
      /\ \A n \in Messages \ {m} :
           /\ pc'[n] = pc[n] /\ server'[n] = server[n] /\ attempt'[n] = attempt[n]
           /\ outcome'[n] = outcome[n]
  BY <1>1, BoundTypes DEF Leave, Typed, PCs
<1>3. PICK i \in {"absent", "waiting", "givenUp"}, t \in 0..MaxAttempts :
        /\ item' = [item EXCEPT ![m] = i] /\ tries' = [tries EXCEPT ![m] = t]
        /\ result = "sent" => i = "absent"
        /\ i = "absent" => result \in {"sent", "permanent"} \/ life = "new"
        /\ i = "absent" => item[m] = "absent" \/ result = "sent"
        /\ t = tries[m] \/ (item[m] = "absent" /\ t = 0)
  <2>1. CASE FromQueue(m) /\ result = "sent" /\ Queue!Settle(m)
    <3>1. item' = [item EXCEPT ![m] = "absent"] /\ tries' = [tries EXCEPT ![m] = tries[m]]
      BY <2>1 DEF Queue!Settle, Typed
    <3> QED
      BY <2>1, <3>1 DEF Typed
  <2>2. CASE FromQueue(m) /\ result # "sent" /\ Queue!Fail(m)
    <3>1. /\ \/ item' = [item EXCEPT ![m] = "waiting"]
             \/ item' = [item EXCEPT ![m] = "givenUp"]
          /\ tries' = [tries EXCEPT ![m] = tries[m]]
      BY <2>2 DEF Queue!Fail, Typed
    <3> QED
      BY <2>2, <3>1 DEF Typed
  <2>3. CASE HandsOver(m, result) /\ Queue!Add(m)
    <3>1. /\ item[m] = "absent" /\ result = "transient"
          /\ item' = [item EXCEPT ![m] = "waiting"]
          /\ tries' = [tries EXCEPT ![m] = 0]
      BY <2>3 DEF Queue!Add, HandsOver
    <3>2. 0 \in 0..MaxAttempts
      BY BoundTypes
    <3> WITNESS "waiting" \in {"absent", "waiting", "givenUp"}, 0 \in 0..MaxAttempts
    <3> QED
      BY <3>1
  <2>4. CASE ~FromQueue(m) /\ ~HandsOver(m, result) /\ UNCHANGED queueVars
    <3>1. /\ item[m] = "absent"
          /\ item' = [item EXCEPT ![m] = "absent"]
          /\ tries' = [tries EXCEPT ![m] = tries[m]]
      BY <2>4 DEF FromQueue, queueVars, Typed
    <3>2. result \in {"sent", "permanent"} \/ life = "new"
      BY <2>4 DEF HandsOver, Outcomes
    <3> QED
      BY <3>1, <3>2 DEF Typed
  <2> QED
    BY <2>1, <2>2, <2>3, <2>4 DEF Return
<1>4. /\ item' \in [Messages -> Items] /\ tries' \in [Messages -> 0..MaxAttempts]
      /\ item'[m] = i /\ tries'[m] = t
      /\ \A n \in Messages \ {m} : item'[n] = item[n] /\ tries'[n] = tries[n]
  BY <1>3 DEF Typed, Items
<1>5. Moves(m)
  BY <1>2, <1>4 DEF Moves, Typed
<1> QED
  BY <1>2, <1>3, <1>4, <1>5 DEF Answered

(* The attempt failed: send waits for its next one, or returns. *)
BacksOff(m, k) ==
  /\ pc'[m] = "backoff" /\ attempt'[m] = k /\ k < MaxRetries
  /\ item'[m] = item[m] /\ tries'[m] = tries[m]

LEMMA ExceptEffect ==
  ASSUME Typed, NEW m \in Messages, item[m] \in {"absent", "taken"},
         NEW s \in Servers \cup {None}, NEW k \in 1..MaxRetries,
         NEW result \in Outcomes \ {"sent"}, Except(m, s, k, result)
  PROVE  Moves(m) /\ (BacksOff(m, k) \/ Answered(m, result))
<1>1. CASE result = "transient" /\ k < MaxRetries
  <2>1. /\ pc' = [pc EXCEPT ![m] = "backoff"]
        /\ attempt' = [attempt EXCEPT ![m] = k]
        /\ outcome' = [outcome EXCEPT ![m] = None]
        /\ server' = [server EXCEPT ![m] = s]
        /\ item' = item /\ tries' = tries
    BY <1>1 DEF Except, queueVars
  <2>2. Moves(m)
    BY <2>1, BoundTypes DEF Moves, Typed, PCs
  <2> QED
    BY <1>1, <2>1, <2>2 DEF BacksOff, Typed
<1>2. CASE ~(result = "transient" /\ k < MaxRetries)
  BY <1>2, ReturnEffect DEF Except
<1> QED
  BY <1>1, <1>2

LEMMA ClassIsOutcome ==
  ASSUME NEW exception
  PROVE  Class(exception) \in Outcomes \ {"sent"}
BY DEF Class, Outcomes

-----------------------------------------------------------------------------
(* The breakers. *)

BreakerStep ==
  /\ breaker' \in [Servers -> Breaker]
  /\ \A s \in Servers :
       /\ Sound(breaker'[s])
       /\ breaker'[s].state = "closed" \/ breaker[s].state # "closed" \/ Excused(s)

(* Looking at a breaker, routing a send to it, a success and the passing of
   time open no closed one.                                                  *)
LEMMA KeepsClosed ==
  ASSUME NEW cb, Sound(cb)
  PROVE  /\ \A new \in {cb, Observe(cb), RecordAttempt(cb), RecordSuccess(cb), Aged(cb)} :
              /\ new \in Breaker /\ Sound(new)
              /\ new.state = "closed" \/ cb.state # "closed"
         /\ RecordFailure(cb) \in Breaker /\ Sound(RecordFailure(cb))
         /\ RecordAttempt(Observe(cb)) = RecordAttempt(cb)
<1>1. /\ Sound(Observe(cb)) /\ Sound(RecordAttempt(cb)) /\ Sound(RecordSuccess(cb))
      /\ Sound(Aged(cb)) /\ Sound(RecordFailure(cb))
  BY ObserveSound, AttemptSound, SuccessSound, AgedSound, FailureSound
<1>2. /\ cb.state = "closed" => Observe(cb) = cb
      /\ RecordAttempt(cb).state = Observe(cb).state
      /\ Aged(cb).state = cb.state
  BY ObserveSound, AttemptSound, AgedSound
<1>3. cb.state = "closed" => RecordSuccess(cb).state = "closed"
  <2>1. RecordSuccess(cb).state \in {"closed", "open", "half_open"}
    BY <1>1 DEF Sound, Breaker
  <2> QED
    BY <1>2, <2>1, SuccessSound
<1>4. Observe(Observe(cb)) = Observe(cb)
  BY <1>1, ObserveSound
<1>5. RecordAttempt(Observe(cb)) = RecordAttempt(cb)
  BY <1>4, Zenon DEF RecordAttempt
<1>6. \A b : Sound(b) => b \in Breaker
  BY DEF Sound
<1> QED
  BY <1>1, <1>2, <1>3, <1>5, <1>6

LEMMA HarmlessStep ==
  ASSUME IInv, breaker' \in [Servers -> Breaker],
         \A s \in Servers :
           breaker'[s] \in {breaker[s], Observe(breaker[s]), RecordAttempt(breaker[s]),
                            RecordSuccess(breaker[s]), Aged(breaker[s])}
  PROVE  BreakerStep
BY KeepsClosed DEF IInv, BreakersSound, BreakerStep

LEMMA BlameStep ==
  ASSUME IInv, NEW s \in Servers, Excused(s),
         breaker' = [breaker EXCEPT ![s] = RecordFailure(@)]
  PROVE  BreakerStep
<1>1. \A t \in Servers : Sound(breaker[t])
  BY DEF IInv, BreakersSound
<1>2. breaker \in [Servers -> Breaker]
  BY DEF IInv, TypeOK
<1>3. breaker' \in [Servers -> Breaker]
  BY <1>1, <1>2, KeepsClosed
<1>4. ASSUME NEW t \in Servers
      PROVE  /\ Sound(breaker'[t])
             /\ breaker'[t].state = "closed" \/ breaker[t].state # "closed" \/ Excused(t)
  <2>1. CASE t = s
    BY <1>1, <1>2, <2>1, KeepsClosed
  <2>2. CASE t # s
    BY <1>1, <1>2, <2>2, KeepsClosed
  <2> QED
    BY <2>1, <2>2
<1> QED
  BY <1>3, <1>4 DEF BreakerStep

LEMMA BreakersStay ==
  ASSUME IInv, BreakerStep, \A s \in Servers : Excused(s) => Excused(s)'
  PROVE  BreakersSound'
BY DEF IInv, BreakersSound, BreakerStep

-----------------------------------------------------------------------------
(* The semaphores. *)

LEMMA WorkIsFinite ==
  /\ IsFiniteSet(Direct) /\ IsFiniteSet(Retried)
  /\ Cardinality(Direct) \in Nat /\ Cardinality(Retried) \in Nat
<1>1. Direct \in SUBSET Messages /\ Retried \in SUBSET Messages
  BY DEF Direct, Retried
<1> QED
  BY <1>1, SenderAssumption, FS_Subset, FS_CardinalityType

LEMMA FewerAtWork ==
  ASSUME LimitsKept, Direct' \subseteq Direct, Retried' \subseteq Retried
  PROVE  LimitsKept'
<1>1. /\ Cardinality(Direct') <= Cardinality(Direct)
      /\ Cardinality(Retried') <= Cardinality(Retried)
      /\ IsFiniteSet(Direct') /\ IsFiniteSet(Retried')
  BY WorkIsFinite, FS_Subset
<1>2. Cardinality(Direct') \in Nat /\ Cardinality(Retried') \in Nat
  BY <1>1, FS_CardinalityType
<1> QED
  BY <1>1, <1>2, WorkIsFinite, SenderAssumption DEF LimitsKept

(* A send that goes on keeps its slot, one that ends frees it. *)
LEMMA SameSlot ==
  ASSUME LimitsKept, NEW m \in Messages, Moves(m),
         AtWork(m)' => AtWork(m) /\ item'[m] = item[m]
  PROVE  LimitsKept'
<1>1. \A n \in Messages \ {m} : /\ AtWork(n)' <=> AtWork(n)
                                /\ FromQueue(n)' <=> FromQueue(n)
  BY DEF Moves, AtWork, FromQueue
<1>2. AtWork(m)' => AtWork(m) /\ (FromQueue(m)' <=> FromQueue(m))
  BY DEF FromQueue
<1>3. Direct' \subseteq Direct /\ Retried' \subseteq Retried
  BY <1>1, <1>2 DEF Direct, Retried
<1> QED
  BY <1>3, FewerAtWork

(* The guard of the semaphore lets one more in. *)
LEMMA OneMore ==
  ASSUME NEW S, IsFiniteSet(S), NEW T, NEW x, T \subseteq S \cup {x},
         NEW n \in Nat, Cardinality(S) < n
  PROVE  Cardinality(T) <= n
<1>1. /\ IsFiniteSet(S \cup {x}) /\ Cardinality(S) \in Nat
      /\ Cardinality(S \cup {x}) <= Cardinality(S) + 1
  BY FS_AddElement, FS_CardinalityType
<1>2. Cardinality(T) <= Cardinality(S \cup {x}) /\ IsFiniteSet(T)
  BY <1>1, FS_Subset
<1>3. Cardinality(T) \in Nat /\ Cardinality(S \cup {x}) \in Nat
  BY <1>1, <1>2, FS_CardinalityType
<1> QED
  BY <1>1, <1>2, <1>3

(* A pool with room for all sends that the semaphores let in refuses none of
   them, unless cancelled ones left slots behind.                            *)
LEMMA RefusalIsExcused ==
  ASSUME IInv, NEW m \in Messages, pc[m] \in {"limited", "acquiring"}, PoolRefuses(m)
  PROVE  Excused(server[m])
<1> DEFINE s == server[m]
           work == Direct \cup Retried
<1>1. s \in Servers /\ AtWork(m)
  BY DEF IInv, MessageSound, Knows, AtWork
<1> SUFFICES ASSUME leaked[s] = 0,
                    MaxConnections[s] >= BulkConcurrency + RetryConcurrency
             PROVE  FALSE
  BY <1>1, BoundTypes DEF Excused
<1>2. /\ IsFiniteSet(work)
      /\ Cardinality(work) <= Cardinality(Direct) + Cardinality(Retried)
  <2>1. Cardinality(Direct \cap Retried) \in Nat
    BY WorkIsFinite, FS_Intersection, FS_CardinalityType
  <2>2. /\ IsFiniteSet(work)
        /\ Cardinality(work) = Cardinality(Direct) + Cardinality(Retried)
                               - Cardinality(Direct \cap Retried)
    BY WorkIsFinite, FS_Union
  <2> HIDE DEF work
  <2> QED
    BY <2>1, <2>2, WorkIsFinite
<1>3. Cardinality(work) <= BulkConcurrency + RetryConcurrency
  BY <1>2, WorkIsFinite, FS_CardinalityType, BoundTypes DEF IInv, LimitsKept
<1>4. m \in work
  BY <1>1 DEF Direct, Retried
<1>5. AtPool(s) \ {m} \subseteq work \ {m}
  BY DEF AtPool, Direct, Retried, AtWork
<1>6. /\ IsFiniteSet(work \ {m})
      /\ Cardinality(work \ {m}) = Cardinality(work) - 1
  BY <1>2, <1>4, FS_RemoveElement
<1>7. Cardinality(AtPool(s) \ {m}) <= Cardinality(work) - 1
  BY <1>5, <1>6, FS_Subset
<1>8. /\ Cardinality(AtPool(s) \ {m}) \in Nat /\ Cardinality(work) \in Nat
      /\ MaxConnections[s] \in Nat
  BY <1>1, <1>2, <1>5, <1>6, FS_Subset, FS_CardinalityType, BoundTypes
<1>9. Cardinality(AtPool(s) \ {m}) + leaked[s] >= MaxConnections[s]
  BY DEF PoolRefuses
<1> HIDE DEF s, work
<1> QED
  BY <1>3, <1>7, <1>8, <1>9, BoundTypes

-----------------------------------------------------------------------------
(* What is left to show of a step of one send. *)

Untouched(n) ==
  /\ pc'[n] = pc[n] /\ server'[n] = server[n] /\ attempt'[n] = attempt[n]
  /\ outcome'[n] = outcome[n] /\ item'[n] = item[n] /\ tries'[n] = tries[n]
  /\ copies'[n] = copies[n] /\ total'[n] = total[n]

LEMMA UntouchedSound ==
  ASSUME IInv, NEW n \in Messages, Untouched(n), life = "closed" => life' = "closed"
  PROVE  MessageSound(n)'
<1>1. Placed(n) /\ Knows(n) /\ Counted(n) /\ TakenOnce(n)
  BY DEF IInv, MessageSound
<1>2. Placed(n)' /\ Counted(n)' /\ TakenOnce(n)'
  BY <1>1 DEF Untouched, Placed, Counted, TakenOnce, AtWork, FromQueue
<1>3. Knows(n)'
  BY <1>1 DEF Untouched, Knows, AtWork, MayFail
<1> QED
  BY <1>2, <1>3 DEF MessageSound

LEMMA OthersSound ==
  ASSUME IInv, NEW m \in Messages, Moves(m), Records(m), MessageSound(m)',
         life = "closed" => life' = "closed"
  PROVE  \A n \in Messages : MessageSound(n)'
BY UntouchedSound DEF Moves, Records, Untouched

LEMMA SendStep ==
  ASSUME IInv, NEW m \in Messages, Moves(m), Records(m), MessageSound(m)',
         LimitsKept', BreakerStep, UNCHANGED <<life, leaked, cancels>>
  PROVE  IInv'
<1>1. TypeOK'
  BY TypeOKParts DEF IInv, Moves, Records, BreakerStep, Typed, History, TypeOK, PCs, Items, Copies
<1>2. \A n \in Messages : MessageSound(n)'
  BY OthersSound
<1>3. BreakersSound'
  BY BreakersStay DEF Excused
<1> QED
  BY <1>1, <1>2, <1>3 DEF IInv

(* A message whose send failed or returned is where it belongs, if it was
   counted right up to then.                                                 *)
CountsUpTo(m, k) ==
  /\ item[m] = "absent" => total'[m] <= k
  /\ item[m] = "taken" => total'[m] <= MaxRetries * tries[m] + k

LEMMA AnsweredSound ==
  ASSUME Typed, NEW m \in Messages, NEW result \in Outcomes,
         item[m] \in {"absent", "taken"}, CountsUpTo(m, MaxRetries),
         Moves(m), Records(m), Answered(m, result),
         copies'[m] # "several", copies'[m] = "one" => result = "sent"
  PROVE  MessageSound(m)'
<1>1. tries[m] \in Nat /\ tries'[m] \in Nat /\ total'[m] \in Nat
  BY BoundTypes DEF Typed, Moves, Records, History
<1>2. MaxRetries * tries[m] \in Nat /\ MaxRetries * tries'[m] \in Nat
  BY <1>1, BoundTypes
<1>3. total'[m] <= MaxRetries * tries'[m] + MaxRetries
  <2>1. CASE tries'[m] = tries[m]
    BY <1>1, <1>2, <2>1, BoundTypes DEF CountsUpTo
  <2>2. CASE item[m] = "absent" /\ tries'[m] = 0
    <3>1. total'[m] <= MaxRetries
      BY <2>2 DEF CountsUpTo
    <3> QED
      BY <1>1, <1>2, <3>1, BoundTypes
  <2> QED
    BY <2>1, <2>2 DEF Answered
<1>4. /\ pc'[m] = "returned" /\ item'[m] \in {"absent", "waiting", "givenUp"}
      /\ result = "sent" => item'[m] = "absent"
  BY DEF Answered
<1> QED
  BY <1>3, <1>4 DEF MessageSound, Placed, Knows, Counted, TakenOnce, AtWork

LEMMA BackoffSound ==
  ASSUME NEW m \in Messages, NEW k \in 1..MaxRetries,
         item[m] \in {"absent", "taken"}, CountsUpTo(m, k), BacksOff(m, k),
         copies'[m] \notin {"one", "several"}
  PROVE  MessageSound(m)'
<1>1. /\ pc'[m] = "backoff" /\ attempt'[m] = k /\ k < MaxRetries
      /\ item'[m] = item[m] /\ tries'[m] = tries[m]
  BY DEF BacksOff
<1>2. Placed(m)' /\ Knows(m)' /\ TakenOnce(m)'
  BY <1>1 DEF Placed, Knows, TakenOnce, AtWork
<1>3. Counted(m)'
  BY <1>1 DEF Counted, CountsUpTo, AtWork, FromQueue
<1> QED
  BY <1>2, <1>3 DEF MessageSound

LEMMA CountsGrow ==
  ASSUME Typed, NEW m \in Messages, NEW k \in 1..MaxRetries, CountsUpTo(m, k),
         total'[m] \in Nat
  PROVE  CountsUpTo(m, MaxRetries)
<1>1. tries[m] \in Nat /\ MaxRetries * tries[m] \in Nat
  BY BoundTypes DEF Typed
<1> QED
  BY <1>1, BoundTypes DEF CountsUpTo

LEMMA ExceptSound ==
  ASSUME Typed, NEW m \in Messages, item[m] \in {"absent", "taken"},
         NEW s \in Servers \cup {None}, NEW k \in 1..MaxRetries,
         NEW result \in Outcomes \ {"sent"}, Except(m, s, k, result),
         CountsUpTo(m, k), Records(m), copies'[m] \notin {"one", "several"}
  PROVE  /\ Moves(m) /\ MessageSound(m)'
         /\ AtWork(m)' => item'[m] = item[m]
<1>1. Moves(m) /\ (BacksOff(m, k) \/ Answered(m, result))
  BY ExceptEffect
<1>2. CASE BacksOff(m, k)
  BY <1>1, <1>2, BackoffSound DEF BacksOff
<1>3. CASE Answered(m, result)
  <2>1. total'[m] \in Nat
    BY DEF Records, History
  <2>2. MessageSound(m)'
    BY <1>1, <1>3, <2>1, CountsGrow, AnsweredSound
  <2> QED
    BY <1>1, <1>3, <2>2 DEF Answered, AtWork
<1> QED
  BY <1>1, <1>2, <1>3

-----------------------------------------------------------------------------
(* One turn of send's loop. *)

LEMMA AttemptEffect ==
  ASSUME IInv, NEW m \in Messages, NEW k \in 1..MaxRetries,
         \/ pc[m] \in {"unsent", "taken"}
         \/ pc[m] = "backoff" /\ k = attempt[m] + 1,
         Attempt(m, k)
  PROVE  /\ Moves(m) /\ Records(m) /\ MessageSound(m)' /\ BreakerStep
         /\ AtWork(m)' => item'[m] = item[m]
         /\ UNCHANGED <<life, leaked, cancels>>
<1>1. Typed /\ History /\ breaker \in [Servers -> Breaker]
  BY TypeOKParts DEF IInv
<1>2. Placed(m) /\ Knows(m) /\ Counted(m) /\ TakenOnce(m)
  BY DEF IInv, MessageSound
<1>3. /\ total' = [total EXCEPT ![m] = @ + 1] /\ copies' = copies
      /\ UNCHANGED <<life, leaked, cancels>>
  BY DEF Attempt
<1>4. /\ Records(m) /\ total'[m] = total[m] + 1 /\ copies'[m] = copies[m]
  BY <1>1, <1>3 DEF Records, History
<1>5. item[m] \in {"absent", "taken"} /\ copies'[m] \notin {"one", "several"}
  BY <1>2, <1>4 DEF Placed, TakenOnce, AtWork
<1>6. CountsUpTo(m, k)
  <2>1. /\ total[m] \in Nat /\ tries[m] \in Nat /\ MaxRetries * tries[m] \in Nat
        /\ attempt[m] \in Nat
    BY <1>1, BoundTypes DEF Typed, History
  <2>2. CASE pc[m] \in {"unsent", "taken"}
    BY <1>2, <1>4, <2>1, <2>2 DEF Placed, Counted, CountsUpTo
  <2>3. CASE pc[m] = "backoff" /\ k = attempt[m] + 1
    BY <1>2, <1>4, <2>1, <2>3 DEF Counted, CountsUpTo, AtWork, FromQueue
  <2> QED
    BY <2>2, <2>3
<1>7. Observed \in [Servers -> Breaker] /\ \A t \in Servers : Sound(breaker[t])
  BY KeepsClosed DEF IInv, BreakersSound, Observed
<1>8. ASSUME NEW s \in Choices(m), Chosen(m, s, k)
      PROVE  Moves(m) /\ MessageSound(m)' /\ BreakerStep /\ item'[m] = item[m]
  <2>1. s \in Servers
    BY <1>8 DEF Choices, Preferred, Available
  <2>2. /\ breaker' = [Observed EXCEPT ![s] = RecordAttempt(@)]
        /\ server' = [server EXCEPT ![m] = s]
        /\ pc' = [pc EXCEPT ![m] = "limited"]
        /\ attempt' = [attempt EXCEPT ![m] = k]
        /\ outcome' = [outcome EXCEPT ![m] = None]
        /\ item' = item /\ tries' = tries
    BY <1>8 DEF Chosen, queueVars
  <2>3. Moves(m)
    BY <1>1, <2>1, <2>2 DEF Moves, Typed, PCs
  <2>4. /\ pc'[m] = "limited" /\ server'[m] = s /\ attempt'[m] = k
        /\ item'[m] = item[m] /\ tries'[m] = tries[m]
    BY <1>1, <2>2 DEF Typed
  <2>5. MessageSound(m)'
    <3>1. Placed(m)' /\ Knows(m)' /\ TakenOnce(m)'
      BY <1>5, <2>1, <2>4 DEF Placed, Knows, TakenOnce, AtWork
    <3>2. Counted(m)'
      BY <1>5, <1>6, <2>4 DEF Counted, CountsUpTo, AtWork, FromQueue
    <3> QED
      BY <3>1, <3>2 DEF MessageSound
  <2>6. breaker' \in [Servers -> Breaker]
    <3>1. RecordAttempt(Observed[s]) \in Breaker
      BY <1>7, <2>1, KeepsClosed DEF Observed
    <3> QED
      BY <1>7, <2>2, <3>1
  <2>7. ASSUME NEW t \in Servers
        PROVE  breaker'[t] \in {Observe(breaker[t]), RecordAttempt(breaker[t])}
    <3>1. CASE t = s
      BY <1>7, <2>1, <2>2, <3>1, KeepsClosed DEF Observed
    <3>2. CASE t # s
      BY <1>7, <2>1, <2>2, <3>2 DEF Observed
    <3> QED
      BY <3>1, <3>2
  <2> QED
    BY <2>3, <2>4, <2>5, <2>6, <2>7, HarmlessStep
<1>9. ASSUME NoneAvailable(m, k)
      PROVE  /\ Moves(m) /\ MessageSound(m)' /\ BreakerStep
             /\ AtWork(m)' => item'[m] = item[m]
  <2>1. /\ breaker' = Observed
        /\ Except(m, None, k, Class("SMTPConnectionError"))
    BY <1>9 DEF NoneAvailable
  <2>2. BreakerStep
    BY <1>7, <2>1, HarmlessStep DEF Observed
  <2> QED
    BY <1>1, <1>4, <1>5, <1>6, <2>1, <2>2, ClassIsOutcome, ExceptSound
<1> QED
  BY <1>3, <1>4, <1>8, <1>9 DEF Attempt

LEMMA CallStep ==
  ASSUME IInv, NEW m \in Messages, Call(m)
  PROVE  IInv'
<1>1. /\ pc[m] = "unsent" /\ Attempt(m, 1) /\ 1 \in 1..MaxRetries
      /\ Cardinality(Direct) < BulkConcurrency
  BY BoundTypes DEF Call, Direct
<1>2. /\ Moves(m) /\ Records(m) /\ MessageSound(m)' /\ BreakerStep
      /\ AtWork(m)' => item'[m] = item[m]
      /\ UNCHANGED <<life, leaked, cancels>>
  BY <1>1, AttemptEffect
<1>3. item[m] = "absent"
  BY <1>1 DEF IInv, MessageSound, Placed
<1>4. /\ Direct' \subseteq Direct \cup {m}
      /\ Retried' \subseteq Retried
  BY <1>2, <1>3 DEF Moves, Direct, Retried, AtWork, FromQueue
<1>5. LimitsKept'
  <2>1. Cardinality(Direct') <= BulkConcurrency
    BY <1>1, <1>4, WorkIsFinite, OneMore, BoundTypes
  <2>2. Cardinality(Retried') <= Cardinality(Retried) /\ Cardinality(Retried') \in Nat
    BY <1>4, WorkIsFinite, FS_Subset, FS_CardinalityType
  <2> QED
    BY <2>1, <2>2, WorkIsFinite, BoundTypes DEF IInv, LimitsKept
<1> QED
  BY <1>2, <1>5, SendStep

LEMMA RetryStep ==
  ASSUME IInv, NEW m \in Messages, Retry(m)
  PROVE  IInv'
<1>1. /\ pc[m] = "taken" /\ Attempt(m, 1) /\ 1 \in 1..MaxRetries
      /\ Cardinality(Retried) < RetryConcurrency
  BY BoundTypes DEF Retry, Retried
<1>2. /\ Moves(m) /\ Records(m) /\ MessageSound(m)' /\ BreakerStep
      /\ AtWork(m)' => item'[m] = item[m]
      /\ UNCHANGED <<life, leaked, cancels>>
  BY <1>1, AttemptEffect
<1>3. item[m] = "taken"
  BY <1>1 DEF IInv, MessageSound, Placed
<1>4. /\ Direct' \subseteq Direct
      /\ Retried' \subseteq Retried \cup {m}
  BY <1>2, <1>3 DEF Moves, Direct, Retried, AtWork, FromQueue
<1>5. LimitsKept'
  <2>1. Cardinality(Retried') <= RetryConcurrency
    BY <1>1, <1>4, WorkIsFinite, OneMore, BoundTypes
  <2>2. Cardinality(Direct') <= Cardinality(Direct) /\ Cardinality(Direct') \in Nat
    BY <1>4, WorkIsFinite, FS_Subset, FS_CardinalityType
  <2> QED
    BY <2>1, <2>2, WorkIsFinite, BoundTypes DEF IInv, LimitsKept
<1> QED
  BY <1>2, <1>5, SendStep

LEMMA WakeStep ==
  ASSUME IInv, NEW m \in Messages, Wake(m)
  PROVE  IInv'
<1>1. /\ pc[m] = "backoff" /\ AtWork(m) /\ Attempt(m, attempt[m] + 1)
      /\ attempt[m] + 1 \in 1..MaxRetries
  BY BoundTypes DEF Wake, AtWork, IInv, MessageSound, Knows
<1>2. /\ Moves(m) /\ Records(m) /\ MessageSound(m)' /\ BreakerStep
      /\ AtWork(m)' => item'[m] = item[m]
      /\ UNCHANGED <<life, leaked, cancels>>
  BY <1>1, AttemptEffect
<1>3. LimitsKept'
  BY <1>1, <1>2, SameSlot DEF IInv
<1> QED
  BY <1>2, <1>3, SendStep

-----------------------------------------------------------------------------
(* The awaits of an attempt. *)

LEMMA AtWorkFacts ==
  ASSUME IInv, NEW m \in Messages, AtWork(m)
  PROVE  /\ item[m] \in {"absent", "taken"} /\ attempt[m] \in 1..MaxRetries
         /\ total' = total => CountsUpTo(m, attempt[m])
         /\ copies[m] = "one" => pc[m] = "releasing" /\ outcome[m] = "sent"
         /\ copies[m] # "several"
         /\ pc[m] # "backoff" => server[m] \in Servers
BY DEF IInv, MessageSound, Placed, Knows, Counted, TakenOnce, CountsUpTo, AtWork,
       FromQueue

LEMMA SameRecords ==
  ASSUME IInv, NEW m \in Messages, UNCHANGED <<copies, total>>
  PROVE  Records(m)
BY TypeOKParts DEF IInv, Records, History

(* The attempt raised, and whoever reports it has an excuse. *)
LEMMA FailedStep ==
  ASSUME IInv, NEW m \in Messages, AtWork(m), pc[m] # "backoff",
         copies[m] # "one", Excused(server[m]),
         NEW result \in Outcomes \ {"sent"},
         Except(m, server[m], attempt[m], result),
         breaker' = [breaker EXCEPT ![server[m]] = RecordFailure(@)],
         UNCHANGED <<life, leaked, cancels, copies, total>>
  PROVE  IInv'
<1>1. /\ item[m] \in {"absent", "taken"} /\ attempt[m] \in 1..MaxRetries
      /\ CountsUpTo(m, attempt[m]) /\ server[m] \in Servers
      /\ copies'[m] \notin {"one", "several"}
  BY AtWorkFacts
<1>2. Typed /\ Records(m)
  BY TypeOKParts, SameRecords DEF IInv
<1>3. /\ Moves(m) /\ MessageSound(m)'
      /\ AtWork(m)' => item'[m] = item[m]
  BY <1>1, <1>2, ExceptSound
<1>4. BreakerStep
  BY <1>1, BlameStep
<1>5. LimitsKept'
  BY <1>3, SameSlot DEF IInv
<1> QED
  BY <1>2, <1>3, <1>4, <1>5, SendStep

LEMMA RaiseStep ==
  ASSUME IInv, NEW m \in Messages, pc[m] \in {"limited", "acquiring"},
         Excused(server[m]), NEW exception, Raise(m, exception)
  PROVE  IInv'
<1>1. AtWork(m) /\ pc[m] # "backoff" /\ copies[m] # "one"
  BY AtWorkFacts DEF AtWork
<1>2. /\ breaker' = [breaker EXCEPT ![server[m]] = RecordFailure(@)]
      /\ Except(m, server[m], attempt[m], Class(exception))
      /\ UNCHANGED <<life, leaked, cancels, copies, total>>
  BY DEF Raise, Except, Return, Leave
<1> QED
  BY <1>1, <1>2, ClassIsOutcome, FailedStep

(* The send goes on to its next await. *)
LEMMA GoesOnStep ==
  ASSUME IInv, NEW m \in Messages, AtWork(m),
         NEW w \in {"acquiring", "sending", "releasing"},
         pc' = [pc EXCEPT ![m] = w],
         UNCHANGED <<item, tries, server, attempt, total, life, leaked, cancels>>,
         outcome' \in [Messages -> Outcomes \cup {None}],
         copies' \in [Messages -> Copies],
         \A n \in Messages \ {m} : outcome'[n] = outcome[n] /\ copies'[n] = copies[n],
         server[m] \in Servers, BreakerStep, TakenOnce(m)',
         w = "releasing" => /\ outcome'[m] \in Outcomes
                            /\ outcome'[m] = "sent" => copies'[m] # "none"
                            /\ outcome'[m] # "sent" => MayFail(server[m])
  PROVE  IInv'
<1>1. Typed /\ History
  BY TypeOKParts DEF IInv
<1>2. Moves(m) /\ Records(m)
  BY <1>1 DEF Moves, Typed, Records, History, PCs
<1>3. /\ item[m] \in {"absent", "taken"} /\ attempt[m] \in 1..MaxRetries
      /\ CountsUpTo(m, attempt[m]) /\ pc'[m] = w
  BY <1>1, AtWorkFacts DEF Typed
<1>4. Placed(m)' /\ Counted(m)'
  BY <1>3 DEF Placed, Counted, CountsUpTo, AtWork, FromQueue
<1>5. Knows(m)'
  BY <1>3 DEF Knows, AtWork, MayFail
<1>6. LimitsKept'
  BY <1>2, SameSlot DEF IInv
<1> QED
  BY <1>2, <1>4, <1>5, <1>6, SendStep DEF MessageSound

LEMMA SameBreakers == IInv /\ UNCHANGED breaker => BreakerStep
BY HarmlessStep DEF IInv, TypeOK

LEMMA GotoStep ==
  ASSUME IInv, NEW m \in Messages, pc[m] \in {"limited", "acquiring"},
         NEW w \in {"acquiring", "sending"}, Goto(m, w), UNCHANGED <<outcome, copies>>
  PROVE  IInv'
<1>1. /\ pc' = [pc EXCEPT ![m] = w]
      /\ UNCHANGED <<breaker, item, tries, server, attempt, total, life, leaked, cancels>>
  BY DEF Goto, queueVars
<1>2. AtWork(m) /\ server[m] \in Servers /\ copies'[m] \notin {"one", "several"}
  BY AtWorkFacts DEF AtWork
<1>3. TakenOnce(m)'
  BY <1>2 DEF TakenOnce
<1>4. /\ outcome' \in [Messages -> Outcomes \cup {None}]
      /\ copies' \in [Messages -> Copies]
  BY TypeOKParts DEF IInv, Typed, History
<1> QED
  BY <1>1, <1>2, <1>3, <1>4, SameBreakers, GoesOnStep

LEMMA GrantedStep ==
  ASSUME IInv, NEW m \in Messages, Granted(m)
  PROVE  IInv'
BY GotoStep, RaiseStep, RefusalIsExcused DEF Granted

LEMMA AcquireFailsStep ==
  ASSUME IInv, NEW m \in Messages, AcquireFails(m)
  PROVE  IInv'
<1>1. PICK exception : Raise(m, exception) /\ Excused(server[m])
  BY RefusalIsExcused DEF AcquireFails, MayFail, Excused
<1> QED
  BY <1>1, RaiseStep DEF AcquireFails

LEMMA AcquiredStep ==
  ASSUME IInv, NEW m \in Messages, Acquired(m)
  PROVE  IInv'
BY GotoStep DEF Acquired

LEMMA AcceptedStep ==
  ASSUME IInv, NEW m \in Messages, Accepted(m)
  PROVE  IInv'
<1>1. /\ pc[m] = "sending"
      /\ breaker' = [breaker EXCEPT ![server[m]] = RecordSuccess(@)]
      /\ pc' = [pc EXCEPT ![m] = "releasing"]
      /\ outcome' = [outcome EXCEPT ![m] = "sent"]
      /\ copies' = OneMoreCopy(m)
      /\ UNCHANGED <<item, tries, server, attempt, total, life, leaked, cancels>>
  BY DEF Accepted, queueVars
<1>2. AtWork(m) /\ server[m] \in Servers /\ copies[m] \notin {"one", "several"}
  BY <1>1, AtWorkFacts DEF AtWork
<1>3. Typed /\ History /\ breaker \in [Servers -> Breaker]
  BY TypeOKParts DEF IInv
<1>4. /\ copies' \in [Messages -> Copies]
      /\ copies'[m] \in {"one", "unsure"}
      /\ \A n \in Messages \ {m} : copies'[n] = copies[n]
  BY <1>1, <1>2, <1>3 DEF OneMoreCopy, History, Copies
<1>5. /\ outcome' \in [Messages -> Outcomes \cup {None}]
      /\ outcome'[m] = "sent" /\ pc'[m] = "releasing"
      /\ \A n \in Messages \ {m} : outcome'[n] = outcome[n]
  BY <1>1, <1>3 DEF Typed, Outcomes
<1>6. BreakerStep
  <2>1. RecordSuccess(breaker[server[m]]) \in Breaker
    BY <1>2, KeepsClosed DEF IInv, BreakersSound
  <2> QED
    BY <1>1, <1>2, <1>3, <2>1, HarmlessStep
<1>7. TakenOnce(m)'
  BY <1>4, <1>5 DEF TakenOnce
<1>8. outcome'[m] \in Outcomes
  BY <1>5 DEF Outcomes
<1> QED
  BY <1>1, <1>2, <1>4, <1>5, <1>6, <1>7, <1>8, GoesOnStep

LEMMA AcceptedForSomeStep ==
  ASSUME IInv, NEW m \in Messages, AcceptedForSome(m)
  PROVE  IInv'
<1>1. /\ pc[m] = "sending" /\ server[m] \in Faulty
      /\ breaker' = [breaker EXCEPT ![server[m]] = RecordFailure(@)]
      /\ pc' = [pc EXCEPT ![m] = "releasing"]
      /\ outcome' = [outcome EXCEPT ![m] = "transient"]
      /\ copies' = [copies EXCEPT ![m] = "unsure"]
      /\ UNCHANGED <<item, tries, server, attempt, total, life, leaked, cancels>>
  BY DEF AcceptedForSome, queueVars, Class, Permanent
<1>2. AtWork(m) /\ server[m] \in Servers
  BY <1>1, AtWorkFacts DEF AtWork
<1>3. Typed /\ History
  BY TypeOKParts DEF IInv
<1>4. /\ copies' \in [Messages -> Copies] /\ copies'[m] = "unsure"
      /\ outcome' \in [Messages -> Outcomes \cup {None}]
      /\ outcome'[m] = "transient" /\ "transient" \in Outcomes
      /\ \A n \in Messages \ {m} : outcome'[n] = outcome[n] /\ copies'[n] = copies[n]
  BY <1>1, <1>3 DEF Typed, History, Copies, Outcomes
<1>5. BreakerStep
  BY <1>1, <1>2, BlameStep DEF Excused
<1>6. TakenOnce(m)' /\ MayFail(server[m])
  BY <1>1, <1>4 DEF TakenOnce, MayFail
<1> QED
  BY <1>1, <1>2, <1>4, <1>5, <1>6, GoesOnStep

LEMMA RaisedStep ==
  ASSUME IInv, NEW m \in Messages, Raised(m)
  PROVE  IInv'
<1>1. PICK result \in Outcomes \ {"sent"} :
        /\ outcome' = [outcome EXCEPT ![m] = result]
        /\ \/ UNCHANGED copies
           \/ copies' = [copies EXCEPT ![m] = "unsure"]
  BY ClassIsOutcome DEF Raised
<1>2. /\ pc[m] = "sending" /\ MayFail(server[m])
      /\ pc' = [pc EXCEPT ![m] = "releasing"]
      /\ UNCHANGED <<breaker, item, tries, server, attempt, total, life, leaked, cancels>>
  BY DEF Raised, Goto, queueVars
<1>3. AtWork(m) /\ server[m] \in Servers /\ copies[m] \notin {"one", "several"}
  BY <1>2, AtWorkFacts DEF AtWork
<1>4. Typed /\ History
  BY TypeOKParts DEF IInv
<1>5. /\ copies' \in [Messages -> Copies] /\ copies'[m] \notin {"one", "several"}
      /\ outcome' \in [Messages -> Outcomes \cup {None}]
      /\ outcome'[m] = result
      /\ \A n \in Messages \ {m} : outcome'[n] = outcome[n] /\ copies'[n] = copies[n]
  BY <1>1, <1>3, <1>4 DEF Typed, History, Copies
<1>6. BreakerStep /\ TakenOnce(m)'
  BY <1>2, <1>5, SameBreakers DEF TakenOnce
<1> QED
  BY <1>2, <1>3, <1>5, <1>6, GoesOnStep

LEMMA ReleasedStep ==
  ASSUME IInv, NEW m \in Messages, Released(m)
  PROVE  IInv'
<1>1. /\ pc[m] = "releasing" /\ AtWork(m)
      /\ UNCHANGED <<life, leaked, cancels, copies, total>>
  BY DEF Released, AtWork
<1>2. /\ outcome[m] \in Outcomes /\ server[m] \in Servers
      /\ outcome[m] # "sent" => Excused(server[m]) /\ copies[m] # "one"
  BY <1>1, AtWorkFacts DEF IInv, MessageSound, Knows, MayFail, Excused
<1>3. CASE outcome[m] = "sent"
  <2>1. Return(m, "sent") /\ UNCHANGED breaker
    BY <1>3 DEF Released
  <2>2. Typed /\ Records(m) /\ "sent" \in Outcomes
    BY <1>1, TypeOKParts, SameRecords DEF IInv, Outcomes
  <2>3. /\ item[m] \in {"absent", "taken"} /\ attempt[m] \in 1..MaxRetries
        /\ CountsUpTo(m, attempt[m]) /\ copies'[m] # "several"
    BY <1>1, AtWorkFacts
  <2>4. total'[m] \in Nat
    BY <2>2 DEF Records, History
  <2>5. Moves(m) /\ Answered(m, "sent")
    BY <2>1, <2>2, <2>3, ReturnEffect
  <2>6. MessageSound(m)'
    BY <2>2, <2>3, <2>4, <2>5, CountsGrow, AnsweredSound
  <2>7. LimitsKept'
    BY <2>5, SameSlot DEF IInv, Answered, AtWork
  <2> QED
    BY <1>1, <2>1, <2>2, <2>5, <2>6, <2>7, SameBreakers, SendStep
<1>4. CASE outcome[m] # "sent"
  <2>1. /\ breaker' = [breaker EXCEPT ![server[m]] = RecordFailure(@)]
        /\ Except(m, server[m], attempt[m], outcome[m])
    BY <1>4 DEF Released
  <2> QED
    BY <1>1, <1>2, <1>4, <2>1, FailedStep
<1> QED
  BY <1>3, <1>4

-----------------------------------------------------------------------------
(* The steps that are no send's own. *)

LEMMA TakeBatchStep == IInv /\ TakeBatch => IInv'
<1> SUFFICES ASSUME IInv, TakeBatch PROVE IInv'
  OBVIOUS
<1>1. PICK batch \in SUBSET Messages :
        /\ Queue!Take(batch)
        /\ pc' = [m \in Messages |-> IF m \in batch THEN "taken" ELSE pc[m]]
  BY DEF TakeBatch
<1>2. UNCHANGED <<breaker, server, attempt, outcome, life, leaked, cancels, copies, total>>
  BY DEF TakeBatch
<1>3. /\ \A m \in batch : item[m] = "waiting" /\ tries[m] < MaxAttempts
      /\ item' = [m \in Messages |-> IF m \in batch THEN "taken" ELSE item[m]]
      /\ tries' = [m \in Messages |-> IF m \in batch THEN tries[m] + 1 ELSE tries[m]]
  BY <1>1 DEF Queue!Take
<1>4. Typed /\ History
  BY TypeOKParts DEF IInv
<1>5. Typed'
  BY <1>1, <1>2, <1>3, <1>4, BoundTypes DEF Typed, PCs, Items
<1>6. TypeOK'
  BY <1>2, <1>4, <1>5, TypeOKParts DEF IInv, TypeOK, Typed, History, PCs, Items, Copies
<1>7. ASSUME NEW m \in Messages PROVE MessageSound(m)'
  <2>1. CASE m \notin batch
    <3>1. Untouched(m)
      BY <1>1, <1>2, <1>3, <2>1 DEF Untouched
    <3> QED
      BY <1>2, <3>1, UntouchedSound
  <2>2. CASE m \in batch
    <3>1. /\ pc'[m] = "taken" /\ item'[m] = "taken" /\ tries'[m] = tries[m] + 1
          /\ copies'[m] = copies[m] /\ total'[m] = total[m]
      BY <1>1, <1>2, <1>3, <2>2
    <3>2. pc[m] = "returned"
      BY <1>3, <1>4, <2>2 DEF IInv, MessageSound, Placed, AtWork, Typed, PCs
    <3>3. /\ total[m] <= MaxRetries * tries[m] + MaxRetries
          /\ copies[m] \notin {"one", "several"}
      BY <1>3, <2>2, <3>2 DEF IInv, MessageSound, Counted, TakenOnce
    <3>4. MaxRetries * (tries[m] + 1) = MaxRetries * tries[m] + MaxRetries
      BY <1>4, BoundTypes DEF Typed
    <3> QED
      BY <3>1, <3>3, <3>4
      DEF MessageSound, Placed, Knows, Counted, TakenOnce, AtWork
  <2> QED
    BY <2>1, <2>2
<1>8. LimitsKept'
  <2>1. \A m \in Messages : AtWork(m)' => m \notin batch
    BY <1>1 DEF AtWork
  <2>2. Direct' \subseteq Direct /\ Retried' \subseteq Retried
    BY <1>1, <1>3, <2>1 DEF Direct, Retried, AtWork, FromQueue
  <2> QED
    BY <2>2, FewerAtWork DEF IInv
<1>9. BreakersSound'
  BY <1>2 DEF IInv, BreakersSound, Excused
<1> QED
  BY <1>6, <1>7, <1>8, <1>9 DEF IInv

LEMMA CancelledSound ==
  ASSUME IInv, NEW m \in Messages, AtWork(m) \/ pc[m] = "taken",
         pc'[m] = "cancelled", item'[m] \in {"absent", "lost"}, tries'[m] = tries[m],
         copies'[m] = copies[m], total'[m] = total[m]
  PROVE  MessageSound(m)'
<1>1. /\ tries[m] \in Nat /\ MaxRetries * tries[m] \in Nat /\ total[m] \in Nat
      /\ attempt[m] \in 0..MaxRetries
  BY TypeOKParts, BoundTypes DEF IInv, Typed, History
<1>2. total[m] <= MaxRetries * tries[m] + MaxRetries
  BY <1>1, BoundTypes DEF IInv, MessageSound, Counted
<1>3. copies[m] # "several"
  BY DEF IInv, MessageSound, TakenOnce
<1> QED
  BY <1>2, <1>3 DEF MessageSound, Placed, Knows, Counted, TakenOnce, AtWork

(* Cancelling any of the sends in flight. *)
LEMMA CancelAllStep ==
  ASSUME IInv, NEW S \in SUBSET Messages, CancelAll(S),
         \A m \in S : AtWork(m) \/ pc[m] = "taken",
         item' \in [Messages -> Items], UNCHANGED tries,
         \A m \in S : item'[m] \in {"absent", "lost"},
         \A m \in Messages \ S : item'[m] = item[m],
         life' \in {"new", "open", "closed"}, life = "closed" => life' = "closed",
         cancels' \in 0..MaxCancels
  PROVE  IInv'
<1> DEFINE Lost(s) == {m \in S : pc[m] = "acquiring" /\ server[m] = s}
<1>1. Typed /\ History /\ leaked \in [Servers -> Nat]
  BY TypeOKParts DEF IInv
<1>2. /\ pc' = [m \in Messages |-> IF m \in S THEN "cancelled" ELSE pc[m]]
      /\ leaked' = [s \in Servers |-> leaked[s] + Cardinality(Lost(s))]
      /\ server' = [m \in Messages |-> IF m \in S THEN None ELSE server[m]]
      /\ attempt' = [m \in Messages |-> IF m \in S THEN 0 ELSE attempt[m]]
      /\ outcome' = [m \in Messages |-> IF m \in S THEN None ELSE outcome[m]]
      /\ UNCHANGED <<breaker, copies, total>>
  BY DEF CancelAll
<1>3. \A s \in Servers : Cardinality(Lost(s)) \in Nat
  <2>1. \A s \in Servers : Lost(s) \in SUBSET Messages
    OBVIOUS
  <2> QED
    BY <2>1, SenderAssumption, FS_Subset, FS_CardinalityType
<1> HIDE DEF Lost
<1>4. /\ leaked' \in [Servers -> Nat]
      /\ \A s \in Servers : leaked[s] # 0 => leaked'[s] # 0
  BY <1>1, <1>2, <1>3
<1>5. Typed'
  BY <1>1, <1>2, BoundTypes DEF Typed, PCs
<1>6. TypeOK'
  BY <1>1, <1>2, <1>4, <1>5, TypeOKParts DEF IInv, TypeOK, Typed, History, PCs, Items, Copies
<1>7. ASSUME NEW m \in Messages PROVE MessageSound(m)'
  <2>1. CASE m \in S
    BY <1>2, <2>1, CancelledSound
  <2>2. CASE m \notin S
    <3>1. Untouched(m)
      BY <1>2, <2>2 DEF Untouched
    <3> QED
      BY <3>1, UntouchedSound
  <2> QED
    BY <2>1, <2>2
<1>8. LimitsKept'
  <2>1. \A m \in Messages : AtWork(m)' => m \notin S
    BY <1>2 DEF AtWork
  <2>2. Direct' \subseteq Direct /\ Retried' \subseteq Retried
    BY <1>2, <2>1 DEF Direct, Retried, AtWork, FromQueue
  <2> QED
    BY <2>2, FewerAtWork DEF IInv
<1>9. BreakersSound'
  BY <1>2, <1>4 DEF IInv, BreakersSound, Excused
<1> QED
  BY <1>6, <1>7, <1>8, <1>9 DEF IInv

LEMMA CloseStep == IInv /\ Close => IInv'
<1> SUFFICES ASSUME IInv, Close PROVE IInv'
  OBVIOUS
<1> DEFINE S == {m \in Messages : FromQueue(m)}
<1>1. /\ life' = "closed" /\ CancelAll(S) /\ cancels' = cancels
      /\ item' = [m \in Messages |-> IF item[m] = "taken" THEN "lost" ELSE item[m]]
      /\ tries' = tries
  BY DEF Close, Queue!Stop
<1>2. \A m \in S : AtWork(m) \/ pc[m] = "taken"
  BY TypeOKParts DEF IInv, MessageSound, Placed, FromQueue, AtWork, Typed, PCs
<1>3. /\ item' \in [Messages -> Items]
      /\ \A m \in S : item'[m] \in {"absent", "lost"}
      /\ \A m \in Messages \ S : item'[m] = item[m]
  BY <1>1, TypeOKParts DEF IInv, Typed, Items, FromQueue
<1>4. cancels' \in 0..MaxCancels
  BY <1>1 DEF IInv, TypeOK
<1> HIDE DEF S
<1>5. S \in SUBSET Messages
  BY DEF S
<1> QED
  BY <1>1, <1>2, <1>3, <1>4, <1>5, CancelAllStep

LEMMA CancelStep ==
  ASSUME IInv, NEW m \in Messages, Cancel(m)
  PROVE  IInv'
<1>1. /\ cancels < MaxCancels /\ cancels' = cancels + 1
      /\ AtWork(m) /\ item[m] # "taken" /\ CancelAll({m})
      /\ item' = item /\ tries' = tries /\ life' = life
  BY DEF Cancel, FromQueue, queueVars
<1>2. item[m] = "absent"
  BY <1>1, AtWorkFacts
<1>3. cancels' \in 0..MaxCancels /\ life' \in {"new", "open", "closed"}
  BY <1>1, SenderAssumption DEF IInv, TypeOK
<1>4. item' \in [Messages -> Items]
  BY <1>1, TypeOKParts DEF IInv, Typed
<1> QED
  BY <1>1, <1>2, <1>3, <1>4, CancelAllStep

LEMMA EnterStep == IInv /\ Enter => IInv'
<1> SUFFICES ASSUME IInv, Enter PROVE IInv'
  OBVIOUS
<1>1. /\ life = "new" /\ life' = "open"
      /\ UNCHANGED <<breaker, item, tries, pc, server, attempt, outcome, leaked,
                     cancels, copies, total>>
  BY DEF Enter, queueVars, sendVars
<1>2. TypeOK'
  BY <1>1 DEF IInv, TypeOK
<1>3. \A m \in Messages : MessageSound(m)'
  BY <1>1, UntouchedSound DEF Untouched
<1>4. LimitsKept'
  BY <1>1 DEF IInv, LimitsKept, Direct, Retried, AtWork, FromQueue
<1>5. BreakersSound'
  BY <1>1 DEF IInv, BreakersSound, Excused
<1> QED
  BY <1>2, <1>3, <1>4, <1>5 DEF IInv

(* Nothing changes but the breakers, and none of them opens. *)
LEMMA TickStep == IInv /\ Tick => IInv'
<1> SUFFICES ASSUME IInv, Tick PROVE IInv'
  OBVIOUS
<1>1. /\ breaker' = [s \in Servers |-> Aged(breaker[s])]
      /\ UNCHANGED <<item, tries, pc, server, attempt, outcome, life, leaked,
                     cancels, copies, total>>
  BY DEF Tick, queueVars, sendVars
<1>2. breaker' \in [Servers -> Breaker]
  BY <1>1, KeepsClosed DEF IInv, BreakersSound
<1>3. TypeOK'
  BY <1>1, <1>2 DEF IInv, TypeOK
<1>4. \A m \in Messages : MessageSound(m)'
  BY <1>1, UntouchedSound DEF Untouched
<1>5. LimitsKept'
  BY <1>1 DEF IInv, LimitsKept, Direct, Retried, AtWork, FromQueue
<1>6. BreakersSound'
  BY <1>1, <1>2, HarmlessStep, BreakersStay DEF Excused
<1> QED
  BY <1>3, <1>4, <1>5, <1>6 DEF IInv

LEMMA StutterStep == IInv /\ UNCHANGED vars => IInv'
<1> SUFFICES ASSUME IInv, UNCHANGED vars PROVE IInv'
  OBVIOUS
<1>1. UNCHANGED <<breaker, item, tries, pc, server, attempt, outcome, life, leaked,
                  cancels, copies, total>>
  BY DEF vars, queueVars, sendVars
<1>2. \A m \in Messages : MessageSound(m)'
  BY <1>1, UntouchedSound DEF Untouched
<1> QED
  BY <1>1, <1>2 DEF IInv, TypeOK, LimitsKept, Direct, Retried, AtWork, FromQueue,
                    BreakersSound, Excused

LEMMA InitIInv == Init => IInv
<1> SUFFICES ASSUME Init PROVE IInv
  OBVIOUS
<1>1. /\ item = [m \in Messages |-> "absent"] /\ tries = [m \in Messages |-> 0]
      /\ pc = [m \in Messages |-> "unsent"] /\ breaker = [s \in Servers |-> NewBreaker]
      /\ copies = [m \in Messages |-> "none"] /\ total = [m \in Messages |-> 0]
  BY DEF Init, Queue!Init
<1>2. Sound(NewBreaker) /\ NewBreaker \in Breaker /\ NewBreaker.state = "closed"
  BY NewSound DEF Sound, NewBreaker
<1>3. TypeOK
  BY <1>1, <1>2, BoundTypes, SenderAssumption DEF Init, TypeOK
<1>4. \A m \in Messages : MessageSound(m)
  BY <1>1 DEF MessageSound, Placed, Knows, Counted, TakenOnce, AtWork
<1>5. Direct = {} /\ Retried = {}
  BY <1>1 DEF Direct, Retried, AtWork
<1>6. LimitsKept
  BY <1>5, FS_EmptySet, BoundTypes DEF LimitsKept
<1>7. BreakersSound
  BY <1>1, <1>2 DEF BreakersSound
<1> QED
  BY <1>3, <1>4, <1>6, <1>7 DEF IInv

LEMMA NextStep == IInv /\ [Next]_vars => IInv'
BY CallStep, RetryStep, WakeStep, GrantedStep, AcquireFailsStep, AcquiredStep,
   AcceptedStep, AcceptedForSomeStep, RaisedStep, ReleasedStep, CancelStep,
   TakeBatchStep, EnterStep, CloseStep, TickStep, StutterStep DEF Next, Resume

-----------------------------------------------------------------------------
(* The invariants. *)

(* IInv is an invariant, whatever the messages, servers and limits: sends,
   cancellations, batches of the queue, closing and the clock may come in any
   order.                                                                    *)
THEOREM InvariantHolds == Spec => []IInv
<1>1. Init => IInv
  BY InitIInv
<1>2. IInv /\ [Next]_vars => IInv'
  BY NextStep
<1> QED
  BY <1>1, <1>2, PTL DEF Spec

(* Type correctness. *)
THEOREM TypeCorrect == Spec => []TypeOK
<1>1. IInv => TypeOK
  BY DEF IInv
<1> QED
  BY <1>1, InvariantHolds, PTL

(* What send, its caller and the queue repeat was not delivered: no message is
   taken twice unless a server took it and reported an error.                *)
THEOREM NoDoubleDelivery == Spec => []DeliveredOnce
<1>1. IInv => DeliveredOnce
  BY DEF IInv, MessageSound, TakenOnce, DeliveredOnce
<1> QED
  BY <1>1, InvariantHolds, PTL

(* The bound on the tries is monotone in the tries the queue has made. *)
LEMMA ProductBound ==
  ASSUME NEW t \in 0..MaxAttempts
  PROVE  MaxRetries * t + MaxRetries <= MaxRetries * (1 + MaxAttempts)
<1>1. PICK d \in Nat : MaxAttempts = t + d
  <2>1. MaxAttempts - t \in Nat /\ MaxAttempts = t + (MaxAttempts - t)
    BY BoundTypes
  <2> QED
    BY <2>1
<1>2. MaxRetries * (1 + MaxAttempts) = MaxRetries * t + MaxRetries + MaxRetries * d
  BY <1>1, BoundTypes
<1>3. MaxRetries * d \in Nat /\ MaxRetries * t \in Nat
  BY <1>1, BoundTypes
<1> QED
  BY <1>2, <1>3, BoundTypes

(* The retries of send and those of the queue multiply, and no more: a send that
   the queue called does not add its message again.                          *)
THEOREM RetriesOnlyMultiply == Spec => []TriesBounded
<1>1. IInv => TriesBounded
  <2> SUFFICES ASSUME IInv, NEW m \in Messages
               PROVE  total[m] <= MaxRetries * (1 + MaxAttempts)
    BY DEF TriesBounded
  <2>1. /\ tries[m] \in 0..MaxAttempts /\ attempt[m] \in 0..MaxRetries
        /\ total[m] \in Nat /\ pc[m] \in PCs
    BY TypeOKParts DEF IInv, Typed, History
  <2>2. MaxRetries * tries[m] \in Nat /\ MaxRetries * (1 + MaxAttempts) \in Nat
    BY <2>1, BoundTypes
  <2>3. total[m] <= MaxRetries * tries[m] + MaxRetries
    BY <2>1, <2>2, BoundTypes DEF IInv, MessageSound, Counted, AtWork, PCs
  <2>4. MaxRetries * tries[m] + MaxRetries <= MaxRetries * (1 + MaxAttempts)
    BY <2>1, ProductBound
  <2> QED
    BY <2>1, <2>2, <2>3, <2>4, BoundTypes
<1> QED
  BY <1>1, InvariantHolds, PTL

(* A server that never fails stays in use, for a pool that has room for all
   sends at once: no other server's failure, no cancellation elsewhere and no
   report that comes late is held against it.                                *)
THEOREM HealthyServersStay == Spec => []HealthyStaysClosed
<1>1. IInv => HealthyStaysClosed
  <2> SUFFICES ASSUME IInv, NEW s \in Servers \ Faulty,
                      MaxConnections[s] >= BulkConcurrency + RetryConcurrency,
                      leaked[s] = 0, life # "closed"
               PROVE  breaker[s].state = "closed"
    BY DEF HealthyStaysClosed
  <2>1. ~Excused(s)
    BY BoundTypes DEF Excused
  <2> QED
    BY <2>1 DEF IInv, BreakersSound
<1> QED
  BY <1>1, InvariantHolds, PTL

-----------------------------------------------------------------------------
(* What no step may do. *)

KeptInQueue(m) ==
  life' = "open" =>
    /\ pc[m] # "returned" /\ pc'[m] = "returned" =>
         \/ outcome'[m] \in {"sent", "permanent"}
         \/ item'[m] \in {"waiting", "givenUp"}
    /\ item[m] \notin {"absent", "lost"} =>
         /\ item'[m] # "lost"
         /\ item'[m] = "absent" => copies[m] # "none"

LEMMA ExceptKeeps ==
  ASSUME Typed, NEW m \in Messages, item[m] \in {"absent", "taken"},
         NEW s \in Servers \cup {None}, NEW k \in 1..MaxRetries,
         NEW result \in Outcomes \ {"sent"}, Except(m, s, k, result), life' = life
  PROVE  Moves(m) /\ KeptInQueue(m)
BY ExceptEffect DEF BacksOff, Answered, KeptInQueue

LEMMA AttemptKeeps ==
  ASSUME IInv, NEW m \in Messages, NEW k \in 1..MaxRetries,
         \/ pc[m] \in {"unsent", "taken"}
         \/ pc[m] = "backoff" /\ k = attempt[m] + 1,
         Attempt(m, k)
  PROVE  Moves(m) /\ KeptInQueue(m)
<1>1. Moves(m)
  BY AttemptEffect
<1>2. Typed /\ item[m] \in {"absent", "taken"}
  BY TypeOKParts DEF IInv, MessageSound, Placed, AtWork
<1>3. ASSUME NEW s \in Choices(m), Chosen(m, s, k) PROVE KeptInQueue(m)
  BY <1>2, <1>3 DEF Chosen, KeptInQueue, queueVars, Typed
<1>4. ASSUME NoneAvailable(m, k) PROVE KeptInQueue(m)
  <2>1. life' = life
    BY DEF Attempt
  <2> QED
    BY <1>2, <1>4, <2>1, ClassIsOutcome, ExceptKeeps DEF NoneAvailable
<1> QED
  BY <1>1, <1>3, <1>4 DEF Attempt

LEMMA RaiseKeeps ==
  ASSUME IInv, NEW m \in Messages, AtWork(m), pc[m] # "backoff",
         NEW result \in Outcomes \ {"sent"},
         Except(m, server[m], attempt[m], result), life' = life
  PROVE  Moves(m) /\ KeptInQueue(m)
<1>1. /\ item[m] \in {"absent", "taken"} /\ attempt[m] \in 1..MaxRetries
      /\ server[m] \in Servers /\ Typed
  BY AtWorkFacts, TypeOKParts DEF IInv
<1> QED
  BY <1>1, ExceptKeeps

LEMMA SendKeeps ==
  ASSUME IInv, NEW m \in Messages, Call(m) \/ Resume(m)
  PROVE  \A n \in Messages : KeptInQueue(n)
<1>1. CASE Call(m) \/ Retry(m) \/ Wake(m)
  <2>1. PICK k \in 1..MaxRetries :
          /\ \/ pc[m] \in {"unsent", "taken"}
             \/ pc[m] = "backoff" /\ k = attempt[m] + 1
          /\ Attempt(m, k)
    BY <1>1, BoundTypes DEF Call, Retry, Wake, IInv, MessageSound, Knows, AtWork
  <2> QED
    BY <2>1, AttemptKeeps DEF Moves, KeptInQueue
<1>2. CASE Granted(m) \/ AcquireFails(m) \/ Acquired(m) \/ Accepted(m)
           \/ AcceptedForSome(m) \/ Raised(m)
  <2>1. \/ /\ pc' \in [Messages -> PCs]
           /\ \A n \in Messages : pc'[n] = "returned" => pc[n] = "returned"
           /\ item' = item
        \/ /\ AtWork(m) /\ pc[m] # "backoff"
           /\ \E exception : Except(m, server[m], attempt[m], Class(exception))
           /\ life' = life
    BY <1>2, TypeOKParts
    DEF Granted, AcquireFails, Acquired, Accepted, AcceptedForSome, Raised, Raise, Goto,
        queueVars, AtWork, IInv, Typed, PCs
  <2> QED
    BY <2>1, ClassIsOutcome, RaiseKeeps DEF Moves, KeptInQueue
<1>3. CASE Released(m)
  <2>1. /\ AtWork(m) /\ pc[m] = "releasing" /\ outcome[m] \in Outcomes
        /\ outcome[m] = "sent" => copies[m] # "none"
    BY <1>3 DEF Released, AtWork, IInv, MessageSound, Knows
  <2>2. CASE outcome[m] = "sent"
    <3>1. Typed /\ item[m] \in {"absent", "taken"} /\ Return(m, "sent")
      BY <1>3, <2>1, <2>2, AtWorkFacts, TypeOKParts DEF IInv, Released
    <3>2. Moves(m) /\ Answered(m, "sent")
      BY <2>1, <2>2, <3>1, ReturnEffect
    <3> QED
      BY <2>1, <2>2, <3>2 DEF Moves, Answered, KeptInQueue
  <2>3. CASE outcome[m] # "sent"
    BY <1>3, <2>1, <2>3, RaiseKeeps DEF Released, Moves, KeptInQueue
  <2> QED
    BY <2>2, <2>3
<1> QED
  BY <1>1, <1>2, <1>3 DEF Resume

LEMMA OthersKeep ==
  ASSUME IInv, \/ \E m \in Messages : Cancel(m)
               \/ TakeBatch \/ Enter \/ Close \/ Tick \/ UNCHANGED vars,
         NEW n \in Messages
  PROVE  KeptInQueue(n)
<1>1. CASE \E m \in Messages : Cancel(m)
  BY <1>1 DEF Cancel, CancelAll, queueVars, KeptInQueue
<1>2. CASE TakeBatch
  BY <1>2 DEF TakeBatch, Queue!Take, KeptInQueue
<1>3. CASE Close
  BY <1>3 DEF Close, CancelAll, Queue!Stop, KeptInQueue
<1>4. CASE Enter \/ Tick \/ UNCHANGED vars
  BY <1>4 DEF Enter, Tick, vars, queueVars, sendVars, KeptInQueue
<1> QED
  BY <1>1, <1>2, <1>3, <1>4

(* While the sender is open, a message whose send gave up on a transient error is
   in the running queue, to be tried or given up after its tries, and leaves it
   only once a server took it: no return of send, answer of the handler or
   cancelled caller loses one.                                               *)
THEOREM OnlyCloseLosesAny == Spec => OnlyCloseLoses
<1>1. IInv /\ [Next]_vars => [\A m \in Messages : KeptInQueue(m)]_vars
  BY SendKeeps, OthersKeep DEF Next
<1>2. OnlyCloseLoses <=> [][\A m \in Messages : KeptInQueue(m)]_vars
  BY DEF OnlyCloseLoses, KeptInQueue
<1> QED
  BY <1>1, <1>2, InvariantHolds, PTL DEF Spec

Blamed(s) ==
  \/ breaker'[s] \in {breaker[s], Observe(breaker[s]), RecordAttempt(breaker[s]),
                      Aged(breaker[s])}
  \/ \E m \in Messages :
       /\ pc[m] \in {"limited", "acquiring", "sending", "releasing"}
       /\ server[m] = s /\ pc'[m] # pc[m]

LEMMA AttemptBlames ==
  ASSUME IInv, NEW m \in Messages, NEW k, Attempt(m, k), NEW s \in Servers
  PROVE  Blamed(s)
<1>1. Observed[s] = Observe(breaker[s]) /\ Observed \in [Servers -> Breaker]
  BY KeepsClosed DEF IInv, BreakersSound, Observed
<1>2. RecordAttempt(Observe(breaker[s])) = RecordAttempt(breaker[s])
  BY KeepsClosed DEF IInv, BreakersSound
<1>3. ASSUME NEW t \in Choices(m), Chosen(m, t, k) PROVE Blamed(s)
  <2>1. breaker' = [Observed EXCEPT ![t] = RecordAttempt(@)]
    BY <1>3 DEF Chosen
  <2>2. breaker'[s] \in {Observed[s], RecordAttempt(Observed[s])}
    BY <1>1, <2>1
  <2> QED
    BY <1>1, <1>2, <2>2 DEF Blamed
<1>4. CASE NoneAvailable(m, k)
  BY <1>1, <1>4 DEF NoneAvailable, Blamed
<1> QED
  BY <1>3, <1>4 DEF Attempt

LEMMA SendBlames ==
  ASSUME IInv, NEW m \in Messages, Call(m) \/ Resume(m), NEW s \in Servers
  PROVE  Blamed(s)
<1>1. Typed /\ breaker \in [Servers -> Breaker]
  BY TypeOKParts DEF IInv
<1>2. CASE Call(m) \/ Retry(m) \/ Wake(m)
  BY <1>2, AttemptBlames DEF Call, Retry, Wake
<1>3. CASE UNCHANGED breaker
  BY <1>3 DEF Blamed
<1>4. ASSUME NEW new, breaker' = [breaker EXCEPT ![server[m]] = new],
             pc[m] \in {"limited", "acquiring", "sending", "releasing"}, pc'[m] # pc[m]
      PROVE  Blamed(s)
  BY <1>1, <1>4 DEF Blamed
<1>5. CASE Granted(m) \/ AcquireFails(m) \/ Released(m)
  <2>1. /\ pc[m] \in {"limited", "acquiring", "releasing"}
        /\ \/ UNCHANGED breaker
           \/ /\ breaker' = [breaker EXCEPT ![server[m]] = RecordFailure(@)]
              /\ \E result : Except(m, server[m], attempt[m], result)
    BY <1>5 DEF Granted, AcquireFails, Released, Raise, Goto
  <2>2. (\E result : Except(m, server[m], attempt[m], result)) =>
          pc'[m] \in {"backoff", "returned"}
    BY <1>1 DEF Except, Return, Leave, Typed
  <2> QED
    BY <1>3, <1>4, <2>1, <2>2
<1>6. CASE Accepted(m) \/ AcceptedForSome(m)
  <2>1. pc[m] = "sending" /\ pc'[m] = "releasing"
    BY <1>1, <1>6 DEF Accepted, AcceptedForSome, Typed
  <2> QED
    BY <1>4, <1>6, <2>1 DEF Accepted, AcceptedForSome
<1>7. CASE Acquired(m) \/ Raised(m)
  BY <1>3, <1>7 DEF Acquired, Raised, Goto
<1> QED
  BY <1>2, <1>5, <1>6, <1>7 DEF Resume

(* A breaker hears of a send only from one that was routed to its server in
   the attempt it is at.                                                     *)
THEOREM OnlyUsersBlame == Spec => BlamedByItsUsers
<1>1. ASSUME IInv, [Next]_vars PROVE [\A s \in Servers : Blamed(s)]_vars
  <2>1. CASE \E m \in Messages : Call(m) \/ Resume(m)
    BY <1>1, <2>1, SendBlames
  <2>2. CASE Tick
    BY <2>2 DEF Tick, Blamed
  <2>3. CASE (\E m \in Messages : Cancel(m)) \/ TakeBatch \/ Enter \/ Close
             \/ UNCHANGED vars
    BY <2>3 DEF Cancel, CancelAll, TakeBatch, Enter, Close, vars, Blamed
  <2> QED
    BY <1>1, <2>1, <2>2, <2>3 DEF Next
<1>2. BlamedByItsUsers <=> [][\A s \in Servers : Blamed(s)]_vars
  BY DEF BlamedByItsUsers, Blamed
<1> QED
  BY <1>1, <1>2, InvariantHolds, PTL DEF Spec
=============================================================================

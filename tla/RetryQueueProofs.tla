----------------------------- MODULE RetryQueueProofs -----------------------------
(* What TLAPS proves of RetryQueue, for any ids, timestamps and limits. *)
EXTENDS RetryQueue, TLAPS

LEMMA NoneIsNoItem == None \notin Item
BY QueueAssumption DEF Item

(* attempt reaches the limit exactly when the item is given up. *)
Fit(v) == v.status = "exhausted" <=> v.attempt >= MaxAttempts

(* The tries that an item, or a copy of one, tells of. *)
Told(v) == v.attempt + (IF v.status = "retrying" THEN 1 ELSE 0)

LEMMA ItemTypes ==
  ASSUME NEW v \in Item
  PROVE  /\ v # None /\ v.attempt \in Nat /\ v.attempt <= MaxAttempts /\ Told(v) \in Nat
         /\ v.status \in {"pending", "retrying", "failed", "exhausted"} /\ v.time \in Times
         /\ Fit(v) => Told(v) <= MaxAttempts
<1>1. /\ v.attempt \in Nat /\ v.attempt <= MaxAttempts /\ MaxAttempts \in Nat
      /\ v.status \in {"pending", "retrying", "failed", "exhausted"} /\ v.time \in Times
  BY QueueAssumption DEF Item
<1>2. Told(v) \in Nat /\ (Fit(v) => Told(v) <= MaxAttempts)
  BY <1>1 DEF Told, Fit
<1> QED
  BY <1>1, <1>2, NoneIsNoItem

(* What a step may do to the heap, and must when it makes an item wait. *)
Pushes(id, v) ==
  /\ queue \subseteq queue' /\ queue' \subseteq Times \X Ids
  /\ v.status \in {"pending", "failed"} => <<v.time, id>> \in queue'

(* add of a new id. *)
LEMMA AddNewEffect ==
  ASSUME TypeOK, NEW id \in Ids, AddNew(id)
  PROVE  \E v \in Item :
           /\ items' = [items EXCEPT ![id] = v] /\ Pushes(id, v)
           /\ Fit(v) /\ v.status = "pending" /\ v.attempt = 0
           /\ taken' \in [Ids -> Nat] /\ taken'[id] = 0
           /\ \A d \in Ids \ {id} : taken'[d] = taken[d]
<1>1. PICK t \in Times :
        /\ items' = [items EXCEPT ![id] = [attempt |-> 0, time |-> t, status |-> "pending"]]
        /\ queue' = queue \cup {<<t, id>>}
        /\ taken' = [taken EXCEPT ![id] = 0]
  BY DEF AddNew, NewTimes
<1> DEFINE v == [attempt |-> 0, time |-> t, status |-> "pending"]
<1>2. v \in Item /\ v.attempt = 0 /\ v.time = t /\ v.status = "pending"
  BY QueueAssumption DEF Item
<1>3. /\ taken' \in [Ids -> Nat] /\ taken'[id] = 0
      /\ \A d \in Ids \ {id} : taken'[d] = taken[d]
  BY <1>1 DEF TypeOK
<1>4. items' = [items EXCEPT ![id] = v]
  BY <1>1
<1> HIDE DEF v
<1>5. Pushes(id, v)
  BY <1>1, <1>2 DEF TypeOK, Pushes
<1>6. Fit(v)
  BY <1>2, QueueAssumption DEF Fit
<1> QED
  BY <1>2, <1>3, <1>4, <1>5, <1>6

(* add of an id that is there, from outside or by mark_failed: the item tells of
   at least the tries it told of before.                                      *)
LEMMA AddAgainEffect ==
  ASSUME TypeOK, NEW id \in Ids, items[id] # None, Fit(items[id]),
         NEW item \in {items[id], [items[id] EXCEPT !.status = "failed"]},
         AddAgain(id, item)
  PROVE  \E v \in Item :
           /\ items' = [items EXCEPT ![id] = v] /\ Pushes(id, v)
           /\ Fit(v) /\ Told(items[id]) <= Told(v)
           /\ taken' = taken
           /\ v.status \in {item.status, "exhausted"}
           /\ Has(id, "exhausted") => v.status = "exhausted"
<1> DEFINE n == item.attempt
           m == IF n < MaxAttempts THEN n + 1 ELSE n
<1>1. /\ items[id] \in Item /\ item \in Item /\ n = items[id].attempt
      /\ n \in 0..MaxAttempts
      /\ item.status \in {items[id].status, "failed"}
  BY DEF TypeOK, Item
<1>2. items[id].status = "exhausted" <=> n >= MaxAttempts
  BY <1>1 DEF Fit
<1>3. /\ OneMore(item) \in Item /\ OneMore(item).attempt = m
      /\ OneMore(item).status = item.status
  <2>1. m \in 0..MaxAttempts
    BY <1>1, QueueAssumption
  <2>2. OneMore(item) = [item EXCEPT !.attempt = m]
    BY <1>1 DEF OneMore, Item
  <2> HIDE DEF m, n
  <2> QED
    BY <1>1, <2>1, <2>2 DEF Item
<1>4. taken' = taken /\ m \in Nat /\ n \in Nat /\ MaxAttempts \in Nat
  BY <1>1, QueueAssumption DEF AddAgain
<1>5. Told(items[id]) <= m
  <2>1. items[id].status = "retrying" => m = n + 1
    BY <1>2, <1>4
  <2> QED
    BY <1>1, <1>4, <2>1 DEF Told
<1>6. CASE Exhausted(OneMore(item))
  <2> DEFINE v == [OneMore(item) EXCEPT !.status = "exhausted"]
  <2>1. v \in Item /\ v.attempt = m /\ v.status = "exhausted"
    <3> HIDE DEF m, n
    <3> QED
      BY <1>3 DEF Item
  <2>2. items' = [items EXCEPT ![id] = v] /\ queue' = queue
    BY <1>6 DEF AddAgain
  <2>3. m >= MaxAttempts
    BY <1>3, <1>6 DEF Exhausted
  <2> HIDE DEF v, m, n
  <2>4. Fit(v) /\ Told(v) = m
    BY <1>4, <2>1, <2>3 DEF Fit, Told
  <2>5. Pushes(id, v)
    BY <2>1, <2>2 DEF TypeOK, Pushes
  <2> QED
    BY <1>4, <1>5, <2>1, <2>2, <2>4, <2>5
<1>7. CASE ~Exhausted(OneMore(item))
  <2>1. PICK t \in Times :
          /\ items' = [items EXCEPT ![id] = [OneMore(item) EXCEPT !.time = t]]
          /\ queue' = queue \cup {<<t, id>>}
    BY <1>7 DEF AddAgain, Reschedule, NewTimes
  <2> DEFINE v == [OneMore(item) EXCEPT !.time = t]
  <2>2. v \in Item /\ v.attempt = m /\ v.status = item.status /\ v.time = t
    <3> HIDE DEF m, n
    <3> QED
      BY <1>3 DEF Item
  <2>3. ~(m >= MaxAttempts) /\ m = n + 1
    BY <1>1, <1>3, <1>7, QueueAssumption DEF Exhausted
  <2>4. item.status # "exhausted" /\ items[id].status # "exhausted"
    BY <1>1, <1>2, <1>4, <2>3
  <2>5. items' = [items EXCEPT ![id] = v]
    BY <2>1
  <2> HIDE DEF v, m, n
  <2>6. Pushes(id, v)
    BY <2>1, <2>2 DEF TypeOK, Pushes
  <2>7. Fit(v) /\ m <= Told(v)
    BY <1>4, <2>2, <2>3, <2>4 DEF Fit, Told
  <2>8. Told(items[id]) \in Nat /\ Told(v) \in Nat
    BY <1>1, <2>2, ItemTypes
  <2>9. Told(items[id]) <= Told(v)
    BY <1>4, <1>5, <2>7, <2>8
  <2> QED
    BY <1>4, <2>2, <2>4, <2>5, <2>6, <2>7, <2>9 DEF Has
<1> QED
  BY <1>6, <1>7

-----------------------------------------------------------------------------
(* What must be true of the value a step gives to items[id] for the invariant to
   go on holding of id; the step may push entries, and may end id's task.   *)
Placed(id, v) ==
  /\ v \in Item \cup {None}
  /\ v # None =>
       /\ v.status \in {"pending", "failed"} => <<v.time, id>> \in queue'
       /\ v.status = "retrying" => child'[id] # "none" \/ id \in interrupted

Sound(id, v) ==
  /\ Placed(id, v)
  /\ v # None => Fit(v) /\ taken'[id] <= Told(v)

(* The part of the invariant that does not count tries. *)
QueueSound == TypeOK /\ WaitingIsScheduled /\ RetryingIsHandled

(* A step that concerns one id only. *)
LEMMA OneItemKept ==
  ASSUME QueueSound, NEW id \in Ids, NEW v, Placed(id, v),
         items' = [items EXCEPT ![id] = v],
         queue \subseteq queue', queue' \subseteq Times \X Ids,
         taken' \in [Ids -> Nat],
         child' \in [Ids -> {"none", "waiting", "handling"}],
         \A d \in Ids \ {id} : child'[d] = child[d],
         UNCHANGED <<dueEntries, loop, interrupted, stops>>,
         calls' \in 0..MaxCalls
  PROVE  QueueSound'
<1>1. /\ items' \in [Ids -> Item \cup {None}] /\ items'[id] = v
      /\ \A d \in Ids \ {id} : items'[d] = items[d]
  BY DEF QueueSound, TypeOK, Placed
<1>2. TypeOK'
  BY <1>1 DEF QueueSound, TypeOK
<1>3. WaitingIsScheduled'
  BY <1>1 DEF QueueSound, WaitingIsScheduled, Has, Present, Placed
<1>4. RetryingIsHandled'
  BY <1>1 DEF QueueSound, RetryingIsHandled, Has, Present, Placed
<1> QED
  BY <1>2, <1>3, <1>4 DEF QueueSound

LEMMA OneItem ==
  ASSUME IInv, NEW id \in Ids, NEW v, Sound(id, v),
         items' = [items EXCEPT ![id] = v],
         queue \subseteq queue', queue' \subseteq Times \X Ids,
         taken' \in [Ids -> Nat], \A d \in Ids \ {id} : taken'[d] = taken[d],
         child' \in [Ids -> {"none", "waiting", "handling"}],
         \A d \in Ids \ {id} : child'[d] = child[d],
         UNCHANGED <<dueEntries, loop, interrupted, stops>>,
         calls' \in 0..MaxCalls
  PROVE  IInv'
<1>1. QueueSound'
  <2>1. QueueSound /\ Placed(id, v)
    BY DEF IInv, QueueSound, Sound
  <2> QED
    BY <2>1, OneItemKept
<1>2. /\ items'[id] = v
      /\ \A d \in Ids \ {id} : items'[d] = items[d]
  BY DEF IInv, TypeOK
<1>3. AttemptsCounted'
  <2> SUFFICES ASSUME NEW d \in Ids, Present(d)'
               PROVE  /\ Has(d, "exhausted")' <=> items'[d].attempt >= MaxAttempts
                      /\ taken'[d] <= items'[d].attempt
                                        + (IF Has(d, "retrying")' THEN 1 ELSE 0)
    BY DEF AttemptsCounted
  <2>1. CASE d = id
    BY <1>2, <2>1 DEF Has, Present, Sound, Fit, Told
  <2>2. CASE d # id
    BY <1>2, <2>2 DEF IInv, AttemptsCounted, Has, Present
  <2> QED
    BY <2>1, <2>2
<1> QED
  BY <1>1, <1>3 DEF IInv, QueueSound

LEMMA CountedItems ==
  ASSUME IInv, NEW id \in Ids, items[id] # None
  PROVE  Fit(items[id]) /\ taken[id] <= Told(items[id])
BY DEF IInv, AttemptsCounted, Has, Present, Fit, Told

LEMMA AddNewSound ==
  ASSUME IInv, NEW id \in Ids, AddNew(id)
  PROVE  \E v \in Item :
           /\ Sound(id, v) /\ items' = [items EXCEPT ![id] = v]
           /\ queue \subseteq queue' /\ queue' \subseteq Times \X Ids
           /\ taken' \in [Ids -> Nat] /\ \A d \in Ids \ {id} : taken'[d] = taken[d]
<1>1. TypeOK
  BY DEF IInv
<1>2. PICK v \in Item :
        /\ items' = [items EXCEPT ![id] = v] /\ Pushes(id, v)
        /\ Fit(v) /\ v.status = "pending" /\ v.attempt = 0
        /\ taken' \in [Ids -> Nat] /\ taken'[id] = 0
        /\ \A d \in Ids \ {id} : taken'[d] = taken[d]
  BY <1>1, AddNewEffect
<1>3. Sound(id, v)
  BY <1>2, ItemTypes DEF Sound, Placed, Pushes
<1> QED
  BY <1>2, <1>3 DEF Pushes

LEMMA AddAgainSound ==
  ASSUME IInv, NEW id \in Ids, items[id] # None,
         NEW item \in {items[id], [items[id] EXCEPT !.status = "failed"]},
         AddAgain(id, item),
         item.status = "retrying" => child'[id] # "none" \/ id \in interrupted
  PROVE  \E v \in Item :
           /\ Sound(id, v) /\ items' = [items EXCEPT ![id] = v]
           /\ queue \subseteq queue' /\ queue' \subseteq Times \X Ids
           /\ taken' = taken
           /\ v.status \in {item.status, "exhausted"}
           /\ Has(id, "exhausted") => v.status = "exhausted"
<1>1. TypeOK /\ Fit(items[id]) /\ taken[id] <= Told(items[id])
  BY CountedItems DEF IInv
<1>2. PICK v \in Item :
        /\ items' = [items EXCEPT ![id] = v] /\ Pushes(id, v)
        /\ Fit(v) /\ Told(items[id]) <= Told(v)
        /\ taken' = taken
        /\ v.status \in {item.status, "exhausted"}
        /\ Has(id, "exhausted") => v.status = "exhausted"
  BY <1>1, AddAgainEffect
<1>3. taken'[id] <= Told(v)
  <2>1. taken[id] \in Nat /\ Told(items[id]) \in Nat /\ Told(v) \in Nat
    BY <1>1, ItemTypes DEF TypeOK
  <2> QED
    BY <1>1, <1>2, <2>1
<1>4. Sound(id, v)
  BY <1>2, <1>3 DEF Sound, Placed, Pushes
<1> QED
  BY <1>2, <1>4 DEF Pushes

-----------------------------------------------------------------------------
(* The steps. *)

LEMMA InitIInv == Init => IInv
<1> SUFFICES ASSUME Init PROVE IInv
  OBVIOUS
<1>1. TypeOK
  <2>1. /\ items \in [Ids -> Item \cup {None}] /\ child \in [Ids -> {"none", "waiting", "handling"}]
        /\ taken \in [Ids -> Nat]
    BY DEF Init
  <2>2. queue \in SUBSET (Times \X Ids) /\ dueEntries \in SUBSET queue
    BY DEF Init
  <2>3. loop \in {"off", "sleeping", "batch"} /\ interrupted \in SUBSET Ids
    BY DEF Init
  <2>4. calls \in 0..MaxCalls /\ stops \in 0..MaxStops
    BY QueueAssumption DEF Init
  <2> QED
    BY <2>1, <2>2, <2>3, <2>4 DEF TypeOK
<1>2. \A id \in Ids : ~Present(id)
  BY DEF Init, Present
<1> QED
  BY <1>1, <1>2 DEF IInv, WaitingIsScheduled, RetryingIsHandled, AttemptsCounted, Has

LEMMA RemovedSound ==
  ASSUME IInv, NEW id \in Ids, MarkSuccess(id)
  PROVE  /\ Sound(id, None) /\ items' = [items EXCEPT ![id] = None]
         /\ queue' = queue /\ taken' = taken
BY DEF MarkSuccess, Sound, Placed

LEMMA CallStep == IInv /\ Call => IInv'
<1> SUFFICES ASSUME IInv, Call PROVE IInv'
  OBVIOUS
<1>1. /\ child' = child /\ UNCHANGED <<dueEntries, loop, interrupted, stops>>
      /\ calls' \in 0..MaxCalls
  BY QueueAssumption DEF Call, loopVars, IInv, TypeOK
<1>2. PICK id \in Ids : Add(id) \/ MarkSuccess(id) \/ MarkFailed(id)
  BY DEF Call
<1>3. /\ child \in [Ids -> {"none", "waiting", "handling"}] /\ taken \in [Ids -> Nat]
      /\ queue \subseteq Times \X Ids
      /\ items \in [Ids -> Item \cup {None}]
  BY DEF IInv, TypeOK
<1>4. CASE AddNew(id)
  BY <1>1, <1>3, <1>4, AddNewSound, OneItem
<1>5. CASE items[id] # None /\ AddAgain(id, items[id])
  <2>1. items[id].status = "retrying" => child'[id] # "none" \/ id \in interrupted
    BY <1>1, <1>5 DEF IInv, RetryingIsHandled, Has, Present
  <2> QED
    BY <1>1, <1>3, <1>5, <2>1, AddAgainSound, OneItem
<1>6. CASE MarkSuccess(id)
  BY <1>1, <1>3, <1>6, RemovedSound, OneItem
<1>7. CASE MarkFailed(id) /\ items[id] # None
  <2> DEFINE item == [items[id] EXCEPT !.status = "failed"]
  <2>1. AddAgain(id, item)
    BY <1>7 DEF MarkFailed
  <2>2. item.status = "failed"
    BY <1>3, <1>7 DEF Item
  <2> HIDE DEF item
  <2>3. \E v \in Item : /\ Sound(id, v) /\ items' = [items EXCEPT ![id] = v]
                       /\ queue \subseteq queue' /\ queue' \subseteq Times \X Ids
                       /\ taken' = taken
    BY <1>7, <2>1, <2>2, AddAgainSound DEF item
  <2> QED
    BY <1>1, <1>3, <2>3, OneItem
<1>8. CASE MarkFailed(id) /\ items[id] = None
  <2>1. items' = [items EXCEPT ![id] = None] /\ queue' = queue /\ taken' = taken
    BY <1>3, <1>8 DEF MarkFailed
  <2>2. Sound(id, None)
    BY DEF Sound, Placed
  <2> QED
    BY <1>1, <1>3, <2>1, <2>2, OneItem
<1> QED
  BY <1>2, <1>4, <1>5, <1>6, <1>7, <1>8 DEF Add

(* A process_item that ends: its outcome is recorded, and no task is left. *)
LEMMA OutcomeStep ==
  ASSUME IInv, NEW id \in Ids, Delivered(id) \/ NotDelivered(id)
  PROVE  IInv'
<1>1. /\ child' = [child EXCEPT ![id] = "none"]
      /\ UNCHANGED <<dueEntries, loop, interrupted, calls, stops>>
  BY DEF Delivered, NotDelivered
<1>2. /\ child' \in [Ids -> {"none", "waiting", "handling"}]
      /\ \A d \in Ids \ {id} : child'[d] = child[d]
      /\ taken \in [Ids -> Nat] /\ queue \subseteq Times \X Ids
      /\ items \in [Ids -> Item \cup {None}] /\ calls' \in 0..MaxCalls
  BY <1>1 DEF IInv, TypeOK
<1>3. CASE Delivered(id)
  <2>1. MarkSuccess(id)
    BY <1>3 DEF Delivered
  <2> QED
    BY <1>1, <1>2, <2>1, RemovedSound, OneItem
<1>4. CASE NotDelivered(id) /\ items[id] # None
  <2> DEFINE item == [items[id] EXCEPT !.status = "failed"]
  <2>1. AddAgain(id, item)
    BY <1>4 DEF NotDelivered, MarkFailed
  <2>2. item.status = "failed"
    BY <1>2, <1>4 DEF Item
  <2> HIDE DEF item
  <2>3. \E v \in Item : /\ Sound(id, v) /\ items' = [items EXCEPT ![id] = v]
                       /\ queue \subseteq queue' /\ queue' \subseteq Times \X Ids
                       /\ taken' = taken
    BY <1>4, <2>1, <2>2, AddAgainSound DEF item
  <2> QED
    BY <1>1, <1>2, <2>3, OneItem
<1>5. CASE NotDelivered(id) /\ items[id] = None
  <2>1. items' = [items EXCEPT ![id] = None] /\ queue' = queue /\ taken' = taken
    BY <1>2, <1>5 DEF NotDelivered, MarkFailed
  <2>2. Sound(id, None)
    BY DEF Sound, Placed
  <2> QED
    BY <1>1, <1>2, <2>1, <2>2, OneItem
<1> QED
  BY <1>3, <1>4, <1>5

(* What a batch takes: items that wait and are due. *)
LEMMA TakeBatchEffect ==
  ASSUME TypeOK, TakeBatch
  PROVE  /\ \A id \in Ready :
              /\ id \in Ids /\ items[id] \in Item
              /\ items[id].status \in {"pending", "failed"}
              /\ <<items[id].time, id>> \in dueEntries
              /\ items'[id] \in Item /\ items'[id].status = "retrying"
              /\ items'[id].attempt = items[id].attempt
              /\ taken'[id] = taken[id] + 1 /\ child'[id] = "waiting"
         /\ \A id \in Ids \ Ready :
              /\ items'[id] = items[id] /\ taken'[id] = taken[id] /\ child'[id] = child[id]
<1>1. /\ items' = [id \in Ids |-> IF id \in Ready
                                 THEN [items[id] EXCEPT !.status = "retrying"]
                                 ELSE items[id]]
      /\ taken' = [id \in Ids |-> IF id \in Ready THEN taken[id] + 1 ELSE taken[id]]
      /\ child' = [id \in Ids |-> IF id \in Ready THEN "waiting" ELSE child[id]]
  BY DEF TakeBatch, GetReady
<1>2. \A id \in Ids : items[id] \in Item \cup {None} /\ taken[id] \in Nat
  BY DEF TypeOK
<1>3. \A e \in dueEntries : e \in Times \X Ids
  BY DEF TypeOK
<1>4. \A id \in Ready : /\ id \in Ids /\ items[id] \in Item
                       /\ items[id].status \in {"pending", "failed"}
                       /\ <<items[id].time, id>> \in dueEntries
  <2> SUFFICES ASSUME NEW e \in dueEntries, Current(e)
               PROVE  LET id == e[2]
                      IN  /\ id \in Ids /\ items[id] \in Item
                          /\ items[id].status \in {"pending", "failed"}
                          /\ <<items[id].time, id>> \in dueEntries
    BY DEF Ready
  <2>1. e[2] \in Ids /\ e = <<e[1], e[2]>>
    BY <1>3
  <2> QED
    BY <1>2, <2>1 DEF Current, Item
<1>5. \A id \in Ready : /\ items'[id] \in Item /\ items'[id].status = "retrying"
                       /\ items'[id].attempt = items[id].attempt
                       /\ taken'[id] = taken[id] + 1 /\ child'[id] = "waiting"
  <2> SUFFICES ASSUME NEW id \in Ready
               PROVE  /\ items'[id] \in Item /\ items'[id].status = "retrying"
                      /\ items'[id].attempt = items[id].attempt
                      /\ taken'[id] = taken[id] + 1 /\ child'[id] = "waiting"
    OBVIOUS
  <2>1. id \in Ids /\ items'[id] = [items[id] EXCEPT !.status = "retrying"]
    BY <1>1, <1>4
  <2>2. items'[id] \in Item /\ items'[id].status = "retrying"
        /\ items'[id].attempt = items[id].attempt
    BY <1>4, <2>1 DEF Item
  <2> QED
    BY <1>1, <2>1, <2>2
<1>6. \A id \in Ids \ Ready : /\ items'[id] = items[id] /\ taken'[id] = taken[id]
                              /\ child'[id] = child[id]
  BY <1>1
<1> QED
  BY <1>4, <1>5, <1>6

(* get_ready: an entry that is popped and skipped is no waiting item's. *)
LEMMA TakeBatchKept ==
  ASSUME QueueSound, TakeBatch
  PROVE  QueueSound'
<1>1. /\ queue' = queue \ dueEntries /\ dueEntries' = {}
      /\ items' = [id \in Ids |-> IF id \in Ready
                                 THEN [items[id] EXCEPT !.status = "retrying"]
                                 ELSE items[id]]
      /\ taken' = [id \in Ids |-> IF id \in Ready THEN taken[id] + 1 ELSE taken[id]]
      /\ loop' = (IF Ready = {} THEN "sleeping" ELSE "batch")
      /\ child' = [id \in Ids |-> IF id \in Ready THEN "waiting" ELSE child[id]]
      /\ UNCHANGED <<interrupted, calls, stops>>
  BY DEF TakeBatch, GetReady
<1>2. \A id \in Ids : items[id] \in Item \cup {None} /\ taken[id] \in Nat
  BY DEF QueueSound, TypeOK
<1>3. TypeOK
  BY DEF QueueSound
<1>4. \A id \in Ready : /\ id \in Ids /\ items'[id] \in Item
                       /\ items'[id].status = "retrying" /\ child'[id] = "waiting"
  BY <1>3, TakeBatchEffect
<1>5. \A id \in Ids \ Ready : items'[id] = items[id] /\ child'[id] = child[id]
  BY <1>3, TakeBatchEffect
<1>6. \A id \in Ids : items[id] # None /\ items[id].status \in {"pending", "failed"}
                        /\ <<items[id].time, id>> \in dueEntries => id \in Ready
  <2> SUFFICES ASSUME NEW id \in Ids, items[id] # None,
                      items[id].status \in {"pending", "failed"},
                      <<items[id].time, id>> \in dueEntries
               PROVE  id \in Ready
    OBVIOUS
  <2>1. Current(<<items[id].time, id>>)
    BY DEF Current
  <2> QED
    BY <2>1 DEF Ready
<1>7. TypeOK'
  <2>1. items' \in [Ids -> Item \cup {None}]
    <3>1. \A id \in Ids : items'[id] \in Item \cup {None}
      BY <1>2, <1>4, <1>5
    <3> QED
      BY <1>1, <3>1
  <2>2. taken' \in [Ids -> Nat]
    BY <1>1, <1>2
  <2>3. child' \in [Ids -> {"none", "waiting", "handling"}]
    BY <1>1, <1>3 DEF TypeOK
  <2>4. queue' \in SUBSET (Times \X Ids) /\ dueEntries' \in SUBSET queue'
        /\ loop' \in {"off", "sleeping", "batch"}
    BY <1>1, <1>3 DEF TypeOK
  <2> QED
    BY <1>1, <1>3, <2>1, <2>2, <2>3, <2>4 DEF TypeOK
<1>8. WaitingIsScheduled'
  <2> SUFFICES ASSUME NEW id \in Ids, Has(id, "pending")' \/ Has(id, "failed")'
               PROVE  <<items'[id].time, id>> \in queue'
    BY DEF WaitingIsScheduled
  <2>1. id \notin Ready
    BY <1>4 DEF Has
  <2>2. items'[id] = items[id] /\ (Has(id, "pending") \/ Has(id, "failed"))
    BY <1>5, <2>1 DEF Has, Present
  <2>3. <<items[id].time, id>> \in queue
    BY <2>2 DEF QueueSound, WaitingIsScheduled
  <2>4. <<items[id].time, id>> \notin dueEntries
    BY <1>6, <2>1, <2>2 DEF Has, Present
  <2> QED
    BY <1>1, <2>2, <2>3, <2>4
<1>9. RetryingIsHandled'
  BY <1>1, <1>4, <1>5 DEF QueueSound, RetryingIsHandled, Has, Present
<1> QED
  BY <1>7, <1>8, <1>9 DEF QueueSound

LEMMA TakeBatchStep == IInv /\ TakeBatch => IInv'
<1> SUFFICES ASSUME IInv, TakeBatch PROVE IInv'
  OBVIOUS
<1>1. QueueSound /\ TypeOK
  BY DEF IInv, QueueSound
<1>2. QueueSound'
  BY <1>1, TakeBatchKept
<1>3. AttemptsCounted'
  <2> SUFFICES ASSUME NEW id \in Ids, Present(id)'
               PROVE  /\ Has(id, "exhausted")' <=> items'[id].attempt >= MaxAttempts
                      /\ taken'[id] <= items'[id].attempt
                                         + (IF Has(id, "retrying")' THEN 1 ELSE 0)
    BY DEF AttemptsCounted
  <2>1. CASE id \in Ready
    <3>1. /\ items[id] \in Item /\ items[id].status \in {"pending", "failed"}
          /\ items'[id] \in Item /\ items'[id].status = "retrying"
          /\ items'[id].attempt = items[id].attempt /\ taken'[id] = taken[id] + 1
      BY <1>1, <2>1, TakeBatchEffect
    <3>2. Present(id) /\ ~Has(id, "exhausted") /\ ~Has(id, "retrying")
      BY <3>1, NoneIsNoItem DEF Has, Present
    <3>3. items[id].attempt \in Nat /\ taken[id] \in Nat
      BY <1>1, <3>1, ItemTypes DEF TypeOK
    <3>4. ~(items[id].attempt >= MaxAttempts) /\ taken[id] <= items[id].attempt
      BY <3>2, <3>3 DEF IInv, AttemptsCounted
    <3>5. Has(id, "retrying")' /\ ~Has(id, "exhausted")'
      BY <3>1, NoneIsNoItem DEF Has, Present
    <3> QED
      BY <3>1, <3>3, <3>4, <3>5
  <2>2. CASE id \notin Ready
    <3>1. items'[id] = items[id] /\ taken'[id] = taken[id]
      BY <1>1, <2>2, TakeBatchEffect
    <3> QED
      BY <3>1 DEF IInv, AttemptsCounted, Has, Present
  <2> QED
    BY <2>1, <2>2
<1> QED
  BY <1>2, <1>3 DEF IInv, QueueSound

LEMMA OtherKept ==
  ASSUME QueueSound,
         \/ \E entry \in queue : ComeDue(entry)
         \/ Start \/ EndBatch \/ Stop \/ UNCHANGED vars
         \/ \E id \in Ids : BeginHandling(id)
  PROVE  QueueSound' /\ items' = items /\ queue' = queue /\ taken' = taken
<1>1. items' = items /\ queue' = queue /\ taken' = taken
  BY DEF ComeDue, Start, EndBatch, Stop, BeginHandling, vars
<1>2. TypeOK'
  <2>1. CASE \E entry \in queue : ComeDue(entry)
    BY <2>1 DEF QueueSound, TypeOK, ComeDue
  <2>2. CASE Start \/ EndBatch
    BY <2>2 DEF QueueSound, TypeOK, Start, EndBatch
  <2>3. CASE Stop
    BY <2>3, QueueAssumption DEF QueueSound, TypeOK, Stop
  <2>4. CASE \E id \in Ids : BeginHandling(id)
    BY <2>4 DEF QueueSound, TypeOK, BeginHandling
  <2>5. CASE UNCHANGED vars
    BY <2>5 DEF QueueSound, TypeOK, vars
  <2> QED
    BY <2>1, <2>2, <2>3, <2>4, <2>5
<1>3. WaitingIsScheduled'
  BY <1>1 DEF QueueSound, WaitingIsScheduled, Has, Present
<1>4. RetryingIsHandled'
  <2>1. \A id \in Ids : child[id] # "none" \/ id \in interrupted
                         => child'[id] # "none" \/ id \in interrupted'
    <3>1. CASE Stop
      BY <3>1 DEF Stop
    <3>2. CASE \E id \in Ids : BeginHandling(id)
      BY <3>2 DEF BeginHandling, QueueSound, TypeOK
    <3>3. CASE UNCHANGED <<child, interrupted>>
      BY <3>3
    <3> QED
      BY <3>1, <3>2, <3>3 DEF ComeDue, Start, EndBatch, vars
  <2> QED
    BY <1>1, <2>1 DEF QueueSound, RetryingIsHandled, Has, Present
<1> QED
  BY <1>1, <1>2, <1>3, <1>4 DEF QueueSound

LEMMA OtherStep ==
  ASSUME IInv,
         \/ \E entry \in queue : ComeDue(entry)
         \/ Start \/ EndBatch \/ Stop \/ UNCHANGED vars
         \/ \E id \in Ids : BeginHandling(id)
  PROVE  IInv'
<1>1. QueueSound
  BY DEF IInv, QueueSound
<1>2. QueueSound' /\ items' = items /\ queue' = queue /\ taken' = taken
  BY <1>1, OtherKept
<1>3. AttemptsCounted'
  BY <1>2 DEF IInv, AttemptsCounted, Has, Present
<1> QED
  BY <1>2, <1>3 DEF IInv, QueueSound

LEMMA NextStep == IInv /\ [Next]_vars => IInv'
BY CallStep, TakeBatchStep, OutcomeStep, OtherStep DEF Next

(* The inductive invariant holds in every run. *)
THEOREM InvariantHolds == Spec => []IInv
<1>1. Init => IInv
  BY InitIInv
<1>2. IInv /\ [Next]_vars => IInv'
  BY NextStep
<1> QED
  BY <1>1, <1>2, PTL DEF Spec

(* The queue keeps its type; no delivered item is left in _items. *)
THEOREM TypeCorrect == Spec => []TypeOK
<1>1. IInv => TypeOK
  BY DEF IInv
<1> QED
  BY <1>1, InvariantHolds, PTL

(* An item that waits for a retry is in the heap under its current time,
   whatever was added, marked and popped before.                            *)
THEOREM NoItemForgotten == Spec => []WaitingIsScheduled
<1>1. IInv => WaitingIsScheduled
  BY DEF IInv
<1> QED
  BY <1>1, InvariantHolds, PTL

(* An item is RETRYING only while a task will mark it, or if a stop cancelled
   that task.                                                               *)
THEOREM RetriesAreMarked == Spec => []RetryingIsHandled
<1>1. IInv => RetryingIsHandled
  BY DEF IInv
<1> QED
  BY <1>1, InvariantHolds, PTL

(* No item is handed out more than max_attempts times. *)
THEOREM AttemptsBounded == Spec => []TakenWithinLimit
<1>1. ASSUME IInv PROVE TakenWithinLimit
  <2> SUFFICES ASSUME NEW id \in Ids, Present(id) PROVE taken[id] <= MaxAttempts
    BY DEF TakenWithinLimit
  <2>1. items[id] \in Item /\ taken[id] \in Nat
    BY <1>1 DEF IInv, TypeOK, Present
  <2>2. items[id].attempt \in Nat /\ items[id].attempt <= MaxAttempts
    BY <2>1, QueueAssumption DEF Item
  <2>3. CASE Has(id, "retrying")
    <3>1. ~Has(id, "exhausted")
      BY <2>3 DEF Has
    <3>2. ~(items[id].attempt >= MaxAttempts) /\ taken[id] <= items[id].attempt + 1
      BY <1>1, <2>3, <3>1 DEF IInv, AttemptsCounted
    <3> QED
      BY <2>1, <2>2, <3>2, QueueAssumption
  <2>4. CASE ~Has(id, "retrying")
    <3>1. taken[id] <= items[id].attempt + 0
      BY <1>1, <2>4 DEF IInv, AttemptsCounted
    <3> QED
      BY <2>1, <2>2, <3>1, QueueAssumption
  <2> QED
    BY <2>3, <2>4
<1>2. IInv => TakenWithinLimit
  BY <1>1
<1> QED
  BY <1>2, InvariantHolds, PTL

-----------------------------------------------------------------------------
(* What get_ready hands out. *)
LEMMA ReadyItems ==
  ASSUME IInv, NEW id \in Ready
  PROVE  /\ id \in Ids /\ <<items[id].time, id>> \in dueEntries
         /\ ~Has(id, "exhausted")
<1>1. PICK e \in dueEntries : Current(e) /\ id = e[2]
  BY DEF Ready
<1>2. e \in Times \X Ids
  BY DEF IInv, TypeOK
<1>3. e = <<e[1], e[2]>> /\ e[2] \in Ids
  BY <1>2
<1> QED
  BY <1>1, <1>3 DEF Current, Has

(* An item is handed out only when its current time has passed: the entries a
   new schedule made stale do not count.                                    *)
THEOREM BackoffKept == Spec => RetriedWhenDue
<1> DEFINE A == \A id \in Ids : child[id] = "none" /\ child'[id] # "none" =>
                                <<items[id].time, id>> \in dueEntries
<1>1. ASSUME IInv, [Next]_vars PROVE A
  <2> SUFFICES ASSUME NEW id \in Ids, child[id] = "none", child'[id] # "none"
               PROVE  <<items[id].time, id>> \in dueEntries
    OBVIOUS
  <2>1. child \in [Ids -> {"none", "waiting", "handling"}]
    BY <1>1 DEF IInv, TypeOK
  <2>2. TakeBatch
    BY <1>1, <2>1 DEF Next, vars, Call, loopVars, ComeDue, Start, EndBatch, Stop,
                      BeginHandling, Delivered, NotDelivered
  <2>3. id \in Ready
    BY <2>2 DEF TakeBatch
  <2> QED
    BY <1>1, <2>3, ReadyItems
<1>2. IInv /\ [Next]_vars => [A]_vars
  BY <1>1
<1>3. Spec => []IInv
  BY InvariantHolds
<1> QED
  BY <1>2, <1>3, PTL DEF Spec, RetriedWhenDue

(* An item that is given up is never tried again: it stays EXHAUSTED until it is
   deleted.                                                                 *)
THEOREM GivenUpIsFinal == Spec => GivenUpForGood
<1> DEFINE A == \A id \in Ids : Has(id, "exhausted") =>
                                items'[id] = None \/ items'[id].status = "exhausted"
<1>1. ASSUME IInv, [Next]_vars PROVE A
  <2> SUFFICES ASSUME NEW id \in Ids, Has(id, "exhausted")
               PROVE  items'[id] = None \/ items'[id].status = "exhausted"
    OBVIOUS
  <2> DEFINE Kept == items'[id] = None \/ items'[id].status = "exhausted"
  <2>1. /\ items \in [Ids -> Item \cup {None}] /\ items[id] # None
        /\ items[id].status = "exhausted"
    BY <1>1 DEF IInv, TypeOK, Has, Present
  <2>2. ASSUME items' = items PROVE Kept
    BY <2>1, <2>2
  <2>3. ASSUME NEW d \in Ids \ {id}, NEW v, items' = [items EXCEPT ![d] = v] PROVE Kept
    BY <2>1, <2>3
  <2>4. ASSUME NEW d \in Ids, MarkSuccess(d) PROVE Kept
    BY <2>1, <2>4 DEF MarkSuccess
  <2>5. ASSUME NEW d \in Ids, AddNew(d) PROVE d = id \/ Kept
    BY <2>3, <2>5 DEF AddNew
  <2>6. ASSUME NEW d \in Ids, items[d] # None,
               NEW item \in {items[d], [items[d] EXCEPT !.status = "failed"]},
               AddAgain(d, item), item.status # "retrying"
        PROVE  Kept
    <3>1. PICK v \in Item : /\ items' = [items EXCEPT ![d] = v]
                            /\ Has(d, "exhausted") => v.status = "exhausted"
      BY <1>1, <2>6, AddAgainSound
    <3> QED
      BY <2>1, <2>3, <3>1 DEF Has, Present
  <2>7. ASSUME NEW d \in Ids, MarkFailed(d) PROVE Kept
    <3>1. CASE items[d] = None
      BY <2>2, <2>7, <3>1 DEF MarkFailed
    <3>2. CASE items[d] # None
      <4> DEFINE item == [items[d] EXCEPT !.status = "failed"]
      <4>1. AddAgain(d, item)
        BY <2>7, <3>2 DEF MarkFailed
      <4>2. item.status # "retrying"
        BY <2>1, <3>2 DEF Item
      <4> HIDE DEF item
      <4> QED
        BY <2>6, <3>2, <4>1, <4>2 DEF item
    <3> QED
      BY <3>1, <3>2
  <2>8. ASSUME NEW d \in Ids, Add(d) PROVE Kept
    <3>1. CASE items[d] = None
      BY <2>1, <2>5, <2>8, <3>1 DEF Add
    <3>2. CASE items[d] # None /\ d = id
      BY <2>1, <2>6, <2>8, <3>2 DEF Add
    <3>3. CASE items[d] # None /\ d # id
      BY <2>3, <2>8, <3>3 DEF Add, AddAgain, Reschedule
    <3> QED
      BY <3>1, <3>2, <3>3
  <2>9. CASE Call
    BY <2>4, <2>7, <2>8, <2>9 DEF Call
  <2>10. CASE TakeBatch
    <3>1. id \notin Ready
      BY <1>1, ReadyItems
    <3> QED
      BY <2>1, <2>10, <3>1 DEF TakeBatch, GetReady
  <2>11. CASE \E d \in Ids : Delivered(d) \/ NotDelivered(d)
    BY <2>4, <2>7, <2>11 DEF Delivered, NotDelivered
  <2>12. CASE \/ \E entry \in queue : ComeDue(entry)
              \/ Start \/ EndBatch \/ Stop \/ UNCHANGED vars
              \/ \E d \in Ids : BeginHandling(d)
    BY <2>2, <2>12 DEF ComeDue, Start, EndBatch, Stop, BeginHandling, vars
  <2> QED
    BY <1>1, <2>9, <2>10, <2>11, <2>12 DEF Next
<1>2. IInv /\ [Next]_vars => [A]_vars
  BY <1>1
<1>3. Spec => []IInv
  BY InvariantHolds
<1> QED
  BY <1>2, <1>3, PTL DEF Spec, GivenUpForGood

-----------------------------------------------------------------------------
(* What the queue looks like from outside after a step that concerns one id. *)
LEMMA OneStatus ==
  ASSUME NEW id \in Ids, NEW v, Status(id)' = v,
         \A d \in Ids \ {id} : Status(d)' = Status(d)
  PROVE  [d \in Ids |-> Status(d)]' = [[d \in Ids |-> Status(d)] EXCEPT ![id] = v]
OBVIOUS

LEMMA StatusOf ==
  ASSUME NEW id \in Ids
  PROVE  /\ items[id] = None => Status(id) = "absent"
         /\ items[id] # None /\ items[id].status = "exhausted" => Status(id) = "givenUp"
         /\ items[id] # None /\ items[id].status = "retrying" =>
              Status(id) = IF child[id] = "none" THEN "lost" ELSE "taken"
         /\ items[id] # None /\ items[id].status \in {"pending", "failed"} =>
              Status(id) = "waiting"
BY DEF Status, Has, Present

OtherTasksKept(id) == \A d \in Ids \ {id} : child'[d] = child[d]

LEMMA StatusKept ==
  ASSUME NEW d \in Ids, items'[d] = items[d], child'[d] = child[d]
  PROVE  Status(d)' = Status(d)
BY DEF Status, Has, Present

LEMMA PromiseInit == Init => Promise!Init
<1> SUFFICES ASSUME Init PROVE Promise!Init
  OBVIOUS
<1>1. \A id \in Ids : Status(id) = "absent"
  BY StatusOf DEF Init
<1> QED
  BY <1>1 DEF Init, Promise!Init

LEMMA Stutters ==
  ASSUME \A d \in Ids : Status(d)' = Status(d), taken' = taken
  PROVE  UNCHANGED Promise!vars
BY DEF Promise!vars

LEMMA Fails ==
  ASSUME NEW id \in Ids, Status(id) \in {"waiting", "taken", "lost"},
         \/ Status(id)' = "givenUp"
         \/ Status(id)' = "waiting" /\ taken[id] < MaxAttempts,
         \A d \in Ids \ {id} : Status(d)' = Status(d), taken' = taken
  PROVE  Promise!Next
<1> Promise!Fail(id)
  BY OneStatus DEF Promise!Fail
<1> QED
  BY DEF Promise!Next

MarkedFailed(item) == [item EXCEPT !.status = "failed"]

(* add of an id that is there, and mark_failed. *)
LEMMA AddAgainAsPromised ==
  ASSUME IInv, NEW id \in Ids, items[id] # None,
         NEW item \in {items[id], MarkedFailed(items[id])},
         AddAgain(id, item), OtherTasksKept(id),
         item.status = "failed" \/ (item = items[id] /\ child'[id] = child[id])
  PROVE  [Promise!Next]_(Promise!vars)
<1>1. /\ items[id] \in Item /\ items \in [Ids -> Item \cup {None}]
      /\ items[id].status \in {"pending", "retrying", "failed", "exhausted"}
      /\ taken[id] \in Nat
  BY DEF IInv, TypeOK, Item
<1>2. item.status = "retrying" => child'[id] # "none" \/ id \in interrupted
  BY DEF IInv, RetryingIsHandled, Has, Present
<1>3. PICK v \in Item : /\ Sound(id, v) /\ items' = [items EXCEPT ![id] = v]
                        /\ taken' = taken
                        /\ v.status \in {item.status, "exhausted"}
                        /\ Has(id, "exhausted") => v.status = "exhausted"
  BY <1>2, AddAgainSound DEF MarkedFailed
<1>4. /\ items'[id] = v /\ v # None /\ v.attempt \in Nat
      /\ \A d \in Ids \ {id} : items'[d] = items[d]
  BY <1>1, <1>3, NoneIsNoItem, QueueAssumption DEF Item
<1>5. \A d \in Ids \ {id} : Status(d)' = Status(d)
  BY <1>4, StatusKept DEF OtherTasksKept
<1>6. CASE v.status = "exhausted"
  <2>1. Status(id)' = "givenUp"
    BY <1>4, <1>6 DEF Status, Has, Present
  <2>2. CASE items[id].status = "exhausted"
    BY <1>3, <1>5, <2>1, <2>2, StatusOf, Stutters
  <2>3. CASE items[id].status # "exhausted"
    <3>1. Status(id) \in {"waiting", "taken", "lost"}
      BY <1>1, <2>3, StatusOf
    <3> QED
      BY <1>3, <1>5, <2>1, <3>1, Fails
  <2> QED
    BY <2>2, <2>3
<1>7. CASE v.status # "exhausted" /\ item.status = "failed"
  <2>1. v.status = "failed" /\ items[id].status # "exhausted"
    BY <1>3, <1>7 DEF Has, Present
  <2>2. Status(id)' = "waiting"
    BY <1>4, <2>1 DEF Status, Has, Present
  <2>3. taken[id] < MaxAttempts
    BY <1>1, <1>3, <1>4, <2>1, QueueAssumption DEF Sound, Fit, Told
  <2>4. Status(id) \in {"waiting", "taken", "lost"}
    BY <1>1, <2>1, StatusOf
  <2> QED
    BY <1>3, <1>5, <2>2, <2>3, <2>4, Fails
<1>8. CASE v.status # "exhausted" /\ item.status # "failed"
  <2>1. v.status = items[id].status /\ child'[id] = child[id]
    BY <1>3, <1>8
  <2>2. Status(id)' = Status(id)
    BY <1>4, <2>1 DEF Status, Has, Present
  <2> QED
    BY <1>3, <1>5, <2>2, Stutters
<1> QED
  BY <1>6, <1>7, <1>8

LEMMA AddNewAsPromised ==
  ASSUME IInv, NEW id \in Ids, items[id] = None, AddNew(id), child' = child
  PROVE  Promise!Next
<1>1. PICK t \in Times :
        /\ items' = [items EXCEPT ![id] = [attempt |-> 0, time |-> t, status |-> "pending"]]
        /\ taken' = [taken EXCEPT ![id] = 0]
  BY DEF AddNew, NewTimes
<1> DEFINE v == [attempt |-> 0, time |-> t, status |-> "pending"]
<1>2. v \in Item /\ v.status = "pending"
  BY QueueAssumption DEF Item
<1>3. items' = [items EXCEPT ![id] = v]
  BY <1>1
<1> HIDE DEF v
<1>4. items'[id] = v /\ v # None /\ \A d \in Ids \ {id} : items'[d] = items[d]
  BY <1>2, <1>3, NoneIsNoItem DEF IInv, TypeOK
<1>5. Status(id) = "absent" /\ Status(id)' = "waiting"
  BY <1>2, <1>4 DEF Status, Has, Present
<1>6. \A d \in Ids \ {id} : Status(d)' = Status(d)
  BY <1>4, StatusKept
<1>7. Promise!Add(id)
  BY <1>1, <1>5, <1>6, OneStatus DEF Promise!Add
<1> QED
  BY <1>7 DEF Promise!Next

LEMMA RemovedAsPromised ==
  ASSUME IInv, NEW id \in Ids, MarkSuccess(id),
         OtherTasksKept(id)
  PROVE  [Promise!Next]_(Promise!vars)
<1>1. /\ items'[id] = None /\ taken' = taken
      /\ \A d \in Ids \ {id} : items'[d] = items[d]
  BY DEF MarkSuccess, IInv, TypeOK
<1>2. Status(id)' = "absent"
  BY <1>1 DEF Status, Has, Present
<1>3. \A d \in Ids \ {id} : Status(d)' = Status(d)
  BY <1>1, StatusKept DEF OtherTasksKept
<1>4. CASE Status(id) = "absent"
  BY <1>1, <1>2, <1>3, <1>4, Stutters
<1>5. CASE Status(id) # "absent"
  <2>1. Promise!Settle(id)
    BY <1>1, <1>2, <1>3, <1>5, OneStatus DEF Promise!Settle
  <2> QED
    BY <2>1 DEF Promise!Next
<1> QED
  BY <1>4, <1>5

LEMMA FailedAsPromised ==
  ASSUME IInv, NEW id \in Ids, MarkFailed(id),
         OtherTasksKept(id)
  PROVE  [Promise!Next]_(Promise!vars)
<1>1. CASE items[id] = None
  <2>1. items' = items /\ taken' = taken
    BY <1>1 DEF MarkFailed
  <2>2. Status(id)' = "absent" /\ Status(id) = "absent"
    BY <1>1, <2>1 DEF Status, Has, Present
  <2> QED
    BY <2>1, <2>2, StatusKept, Stutters DEF OtherTasksKept
<1>2. CASE items[id] # None
  <2>1. AddAgain(id, MarkedFailed(items[id]))
    BY <1>2 DEF MarkFailed, MarkedFailed
  <2>2. MarkedFailed(items[id]).status = "failed"
    BY <1>2 DEF IInv, TypeOK, Item, MarkedFailed
  <2> QED
    BY <1>2, <2>1, <2>2, AddAgainAsPromised
<1> QED
  BY <1>1, <1>2

LEMMA CallAsPromised == IInv /\ Call => [Promise!Next]_(Promise!vars)
<1> SUFFICES ASSUME IInv, Call PROVE [Promise!Next]_(Promise!vars)
  OBVIOUS
<1>1. PICK id \in Ids : Add(id) \/ MarkSuccess(id) \/ MarkFailed(id)
  BY DEF Call
<1>2. child' = child
  BY DEF Call, loopVars
<1>3. CASE Add(id) /\ items[id] = None
  BY <1>2, <1>3, AddNewAsPromised DEF Add
<1>4. CASE Add(id) /\ items[id] # None
  <2>1. AddAgain(id, items[id])
    BY <1>4 DEF Add
  <2> QED
    BY <1>2, <1>4, <2>1, AddAgainAsPromised DEF OtherTasksKept
<1> QED
  BY <1>1, <1>2, <1>3, <1>4, RemovedAsPromised, FailedAsPromised DEF OtherTasksKept

LEMMA TakeAsPromised == IInv /\ TakeBatch => [Promise!Next]_(Promise!vars)
<1> SUFFICES ASSUME IInv, TakeBatch PROVE [Promise!Next]_(Promise!vars)
  OBVIOUS
<1>1. /\ items' = [id \in Ids |-> IF id \in Ready
                                 THEN [items[id] EXCEPT !.status = "retrying"]
                                 ELSE items[id]]
      /\ taken' = [id \in Ids |-> IF id \in Ready THEN taken[id] + 1 ELSE taken[id]]
      /\ child' = [id \in Ids |-> IF id \in Ready THEN "waiting" ELSE child[id]]
  BY DEF TakeBatch, GetReady
<1>2. \A id \in Ids \ Ready : Status(id)' = Status(id)
  BY <1>1, StatusKept
<1>3. ASSUME NEW id \in Ready
      PROVE  /\ id \in Ids /\ Status(id) = "waiting" /\ taken[id] < MaxAttempts
             /\ Status(id)' = "taken"
  <2>1. PICK e \in dueEntries : Current(e) /\ id = e[2]
    BY DEF Ready
  <2>2. /\ id \in Ids /\ items[id] \in Item /\ items[id] # None
        /\ items[id].status \in {"pending", "failed"}
        /\ taken[id] \in Nat /\ items[id].attempt \in Nat
    <3>1. e \in Times \X Ids
      BY DEF IInv, TypeOK
    <3>2. id \in Ids
      BY <2>1, <3>1
    <3> QED
      BY <2>1, <3>2, QueueAssumption DEF IInv, TypeOK, Current, Item
  <2>3. taken[id] < MaxAttempts
    BY <2>2, QueueAssumption DEF IInv, AttemptsCounted, Has, Present
  <2>4. /\ items'[id] \in Item /\ items'[id].status = "retrying"
        /\ child'[id] = "waiting"
    BY <1>1, <2>2 DEF Item
  <2>5. Status(id)' = "taken"
    BY <2>4, NoneIsNoItem DEF Status, Has, Present
  <2> QED
    BY <2>2, <2>3, <2>5, StatusOf
<1>4. CASE Ready = {}
  BY <1>1, <1>2, <1>4, Stutters DEF IInv, TypeOK
<1>5. CASE Ready # {}
  <2>1. Promise!Take(Ready)
    BY <1>1, <1>2, <1>3, <1>5 DEF Promise!Take
  <2>2. Ready \in SUBSET Ids
    BY <1>3
  <2> QED
    BY <2>1, <2>2 DEF Promise!Next
<1> QED
  BY <1>4, <1>5

LEMMA StopAsPromised == IInv /\ Stop => Promise!Next
<1> SUFFICES ASSUME IInv, Stop PROVE Promise!Next
  OBVIOUS
<1>1. \A id \in Ids : Status(id)' = IF Status(id) = "taken" THEN "lost" ELSE Status(id)
  BY DEF Stop, Status, Has, Present
<1>2. Promise!Stop
  BY <1>1 DEF Stop, Promise!Stop
<1> QED
  BY <1>2 DEF Promise!Next

LEMMA OtherAsPromised ==
  ASSUME IInv,
         \/ \E entry \in queue : ComeDue(entry)
         \/ Start \/ EndBatch \/ UNCHANGED vars
         \/ \E id \in Ids : BeginHandling(id)
  PROVE  UNCHANGED Promise!vars
<1>1. items' = items /\ taken' = taken
  BY DEF ComeDue, Start, EndBatch, BeginHandling, vars
<1>2. \A d \in Ids : child'[d] = "none" <=> child[d] = "none"
  BY DEF ComeDue, Start, EndBatch, BeginHandling, vars, IInv, TypeOK
<1>3. \A d \in Ids : Status(d)' = Status(d)
  BY <1>1, <1>2 DEF Status, Has, Present
<1> QED
  BY <1>1, <1>3, Stutters

LEMMA PromiseStep == IInv /\ [Next]_vars => [Promise!Next]_(Promise!vars)
<1> SUFFICES ASSUME IInv, [Next]_vars PROVE [Promise!Next]_(Promise!vars)
  OBVIOUS
<1>1. ASSUME NEW id \in Ids, Delivered(id) \/ NotDelivered(id)
      PROVE  [Promise!Next]_(Promise!vars)
  <2>1. OtherTasksKept(id)
    BY <1>1 DEF OtherTasksKept, Delivered, NotDelivered, IInv, TypeOK
  <2> QED
    BY <1>1, <2>1, RemovedAsPromised, FailedAsPromised DEF Delivered, NotDelivered
<1> QED
  BY <1>1, CallAsPromised, TakeAsPromised, StopAsPromised, OtherAsPromised DEF Next

(* The queue implements RetryItems, the queue as the sender uses it: from outside,
   each of its steps is one of an item that waits, is taken for one of at most
   max_attempts tries, and waits again, leaves or is given up.              *)
THEOREM KeepsItsPromise == Spec => RetriesAsPromised
<1>1. Init => Promise!Init
  BY PromiseInit
<1>2. IInv /\ [Next]_vars => [Promise!Next]_(Promise!vars)
  BY PromiseStep
<1>3. Spec => []IInv
  BY InvariantHolds
<1> QED
  BY <1>1, <1>2, <1>3, PTL DEF Spec, RetriesAsPromised, Promise!Spec
=============================================================================

--------------------------- MODULE RetryPersistenceProofs ---------------------------
(* What TLAPS proves of RetryPersistence, for any ids, timestamps, limits, writing
   threads and numbers of crashes and failed writes.

   Once two writes have overlapped nothing is promised of the files.  Until then
   there is one write at a time, and the invariant follows a change on its way: in
   _items, in the copy a thread writes, in the state file.  Each of the three may
   be behind the tries that were made, and the invariant says by how many: _items
   by those that crashes and failed writes made it forget, the other two by one
   more while the try is not written down yet.                               *)
EXTENDS RetryPersistence, RetryQueueProofs

(* In _items and in every copy of it, an item is given up exactly when its
   attempt has reached the limit.                                            *)
FitAll(copy) == \A id \in Ids : copy[id] # None => Fit(copy[id])

AllFit ==
  /\ FitAll(items)
  /\ \A w \in Busy : FitAll(job[w].snap)
  /\ tmpFile \in Snapshot => FitAll(tmpFile)
  /\ stateFile \in Snapshot => FitAll(stateFile)

Forgotten == crashes + errors

ItemSound(id) == Present(id) => taken[id] <= Told(items[id]) + Forgotten

Underway(id) == Has(id, "retrying") /\ child[id] # "none"

CopySound(id, v) ==
  /\ Alive(v) <=> Alive(items[id])
  /\ Alive(v) => taken[id] <= Told(v) + Forgotten + (IF Underway(id) THEN 1 ELSE 0)

(* Nothing about the item is on its way to the file. *)
Settled(id) ==
  /\ Present(id)
  /\ \/ Busy = {} /\ ~Underway(id)
     \/ LoopJobs = {} /\ child[id] = "none" /\ ~Has(id, "retrying")

FileSound(id) ==
  /\ Loaded(id) # None =>
       taken[id] <= Told(Loaded(id)) + Forgotten + (IF up /\ ~Settled(id) THEN 1 ELSE 0)
  /\ promised[id] = "kept" => Loaded(id) # None
  /\ promised[id] = "gone" => Loaded(id) = None

WriteSound(w) ==
  /\ job[w].stage # "queued" => job[w].holds = "tmp"
  /\ job[w].stage = "open" => tmpFile = EmptyFile
  /\ job[w].stage = "written" => tmpFile = job[w].snap
  /\ \A id \in Ids : CopySound(id, job[w].snap[id])

MemoryKept(id) ==
  up => /\ promised[id] = "kept" => Alive(items[id])
        /\ promised[id] = "gone" => ~Alive(items[id])

InOrder ==
  /\ \A v, w \in Busy : v = w
  /\ stateFile \in Snapshot \cup {None}
  /\ \A w \in Busy : WriteSound(w)
  /\ \A id \in Ids : ItemSound(id) /\ FileSound(id) /\ MemoryKept(id)

(* Between batches no task and no write of the loop is under way; and a process
   that is down runs nothing.                                                *)
Resting ==
  /\ loop # "batch" => LoopJobs = {} /\ \A id \in Ids : child[id] = "none"
  /\ ~up => Busy = {} /\ loop = "off" /\ dueEntries = {} /\ \A id \in Ids : items[id] = None

DInv ==
  /\ TypeOKDurable /\ QueueSound
  /\ AllFit /\ Resting
  /\ ~overlapped => InOrder

-----------------------------------------------------------------------------
(* The queue's methods change one item, and keep it fit. *)

Changed(id, v) ==
  /\ v \in Item \cup {None} /\ items' = [items EXCEPT ![id] = v]
  /\ queue \subseteq queue' /\ queue' \subseteq Times \X Ids
  /\ taken' \in [Ids -> Nat] /\ \A d \in Ids \ {id} : taken'[d] = taken[d]
  /\ v # None => /\ Fit(v)
                 /\ v.status \in {"pending", "failed"} => <<v.time, id>> \in queue'
  /\ \/ taken'[id] = 0
     \/ /\ items[id] # None /\ taken'[id] = taken[id]
        /\ v # None => Told(items[id]) <= Told(v)

LEMMA NewChanges ==
  ASSUME TypeOK, NEW id \in Ids, AddNew(id)
  PROVE  \E v : Changed(id, v) /\ v # None /\ v.status = "pending" /\ taken'[id] = 0
<1>1. PICK v \in Item :
        /\ items' = [items EXCEPT ![id] = v] /\ Pushes(id, v)
        /\ Fit(v) /\ v.status = "pending" /\ v.attempt = 0
        /\ taken' \in [Ids -> Nat] /\ taken'[id] = 0
        /\ \A d \in Ids \ {id} : taken'[d] = taken[d]
  BY AddNewEffect
<1>2. v # None
  BY NoneIsNoItem
<1>3. Changed(id, v)
  BY <1>1 DEF Changed, Pushes
<1> QED
  BY <1>1, <1>2, <1>3

LEMMA AgainChanges ==
  ASSUME TypeOK, FitAll(items), NEW id \in Ids, items[id] # None,
         NEW item \in {items[id], [items[id] EXCEPT !.status = "failed"]},
         AddAgain(id, item)
  PROVE  \E v : Changed(id, v) /\ v # None /\ taken' = taken
                  /\ v.status \in {item.status, "exhausted"}
<1>1. Fit(items[id])
  BY DEF FitAll
<1>2. PICK v \in Item :
        /\ items' = [items EXCEPT ![id] = v] /\ Pushes(id, v)
        /\ Fit(v) /\ Told(items[id]) <= Told(v)
        /\ taken' = taken
        /\ v.status \in {item.status, "exhausted"}
        /\ Has(id, "exhausted") => v.status = "exhausted"
  BY <1>1, AddAgainEffect
<1>3. v # None
  BY NoneIsNoItem
<1>4. Changed(id, v)
  BY <1>2 DEF Changed, Pushes, TypeOK
<1> QED
  BY <1>2, <1>3, <1>4

LEMMA SuccessChanges ==
  ASSUME TypeOK, NEW id \in Ids, items[id] # None, MarkSuccess(id)
  PROVE  Changed(id, None) /\ taken' = taken
BY DEF MarkSuccess, Changed, TypeOK

LEMMA FailedChanges ==
  ASSUME TypeOK, FitAll(items), NEW id \in Ids, items[id] # None, MarkFailed(id)
  PROVE  \E v : Changed(id, v) /\ v # None /\ taken' = taken
                  /\ v.status \in {"failed", "exhausted"}
<1> DEFINE item == [items[id] EXCEPT !.status = "failed"]
<1>1. AddAgain(id, item)
  BY DEF MarkFailed
<1>2. item.status = "failed"
  BY DEF TypeOK, Item
<1>3. item \in {items[id], [items[id] EXCEPT !.status = "failed"]}
  OBVIOUS
<1> HIDE DEF item
<1>4. PICK v : Changed(id, v) /\ v # None /\ taken' = taken
                 /\ v.status \in {item.status, "exhausted"}
  BY <1>1, <1>3, AgainChanges
<1> QED
  BY <1>2, <1>4

(* What such a change leaves true. *)
LEMMA ChangedItems ==
  ASSUME DInv, NEW id \in Ids, NEW v, Changed(id, v)
  PROVE  /\ items' \in Snapshot /\ items'[id] = v
         /\ \A d \in Ids \ {id} : items'[d] = items[d]
         /\ FitAll(items)'
<1>1. items \in [Ids -> Item \cup {None}]
  BY DEF DInv, TypeOKDurable, TypeOK
<1>2. /\ items' \in Snapshot /\ items'[id] = v
      /\ \A d \in Ids \ {id} : items'[d] = items[d]
  BY <1>1 DEF Changed, Snapshot
<1>3. FitAll(items)'
  BY <1>2 DEF DInv, AllFit, FitAll, Changed
<1> QED
  BY <1>2, <1>3

LEMMA ChangedSound ==
  ASSUME DInv, InOrder, NEW id \in Ids, NEW v, Changed(id, v),
         UNCHANGED <<crashes, errors>>
  PROVE  \A d \in Ids : ItemSound(d)'
<1>1. /\ items'[id] = v /\ \A d \in Ids \ {id} : items'[d] = items[d]
  BY ChangedItems
<1>2. /\ items \in [Ids -> Item \cup {None}] /\ taken \in [Ids -> Nat]
      /\ Forgotten \in Nat /\ Forgotten' = Forgotten
  BY DiskAssumption DEF DInv, TypeOKDurable, TypeOK, Forgotten
<1>3. \A d \in Ids \ {id} : ItemSound(d)'
  BY <1>1, <1>2 DEF InOrder, ItemSound, Present, Changed
<1>4. ItemSound(id)'
  <2> SUFFICES ASSUME v # None PROVE taken'[id] <= Told(v) + Forgotten
    BY <1>1, <1>2 DEF ItemSound, Present
  <2>1. v \in Item /\ Told(v) \in Nat
    BY ItemTypes DEF Changed
  <2>2. CASE taken'[id] = 0
    BY <1>2, <2>1, <2>2
  <2>3. CASE items[id] # None /\ taken'[id] = taken[id] /\ Told(items[id]) <= Told(v)
    <3>1. taken[id] <= Told(items[id]) + Forgotten /\ items[id] \in Item
      BY <1>2, <2>3 DEF InOrder, ItemSound, Present
    <3>2. Told(items[id]) \in Nat /\ taken[id] \in Nat
      BY <1>2, <3>1, ItemTypes
    <3> QED
      BY <1>2, <2>1, <2>3, <3>1, <3>2
  <2> QED
    BY <2>2, <2>3 DEF Changed
<1> QED
  BY <1>3, <1>4

-----------------------------------------------------------------------------
(* The copy that is made of them. *)

DiskOK ==
  /\ up \in BOOLEAN /\ overlapped \in BOOLEAN
  /\ job \in [Writers -> Job \cup {None}]
  /\ tmpFile \in Content \cup {None}
  /\ stateFile \in Content \cup {None}
  /\ promised \in [Ids -> {"nothing", "kept", "gone"}]
  /\ crashes \in 0..MaxCrashes /\ errors \in 0..MaxErrors

LEMMA JobTypes ==
  ASSUME NEW j \in Job
  PROVE  /\ j # None /\ j.snap \in Snapshot /\ j.by \in {"loop", "caller"}
         /\ j.stage \in {"queued", "open", "written"}
         /\ j.holds \in {"nothing", "tmp", "state"}
<1>1. j # None
  BY DiskAssumption
<1> QED
  BY <1>1 DEF Job

LEMMA PersistedEffect ==
  ASSUME DiskOK, items' \in Snapshot, NEW who \in {"loop", "caller"},
         NEW others \in [Writers -> Job \cup {None}], PersistedBy(who, others)
  PROVE  \E w \in Writers :
           /\ others[w] = None
           /\ job' \in [Writers -> Job \cup {None}]
           /\ job'[w] = [snap |-> items', stage |-> "queued", holds |-> "nothing", by |-> who]
           /\ job'[w] # None
           /\ \A v \in Writers \ {w} : job'[v] = others[v]
<1>1. PICK w \in Writers :
        /\ others[w] = None
        /\ job' = [others EXCEPT ![w] = [snap |-> items', stage |-> "queued",
                                         holds |-> "nothing", by |-> who]]
  BY DEF PersistedBy
<1> DEFINE j == [snap |-> items', stage |-> "queued", holds |-> "nothing", by |-> who]
<1>2. j \in Job
  BY DEF Job
<1>3. job' = [others EXCEPT ![w] = j]
  BY <1>1
<1>4. j # None
  BY <1>2, JobTypes
<1> HIDE DEF j
<1>5. /\ job' \in [Writers -> Job \cup {None}] /\ job'[w] = j
      /\ \A v \in Writers \ {w} : job'[v] = others[v]
  BY <1>2, <1>3
<1> QED
  BY <1>1, <1>4, <1>5 DEF j

(* Of the threads that were at work before, a step keeps the copies. *)
SameCopies(others) ==
  /\ others \in [Writers -> Job \cup {None}]
  /\ \A v \in Writers : /\ others[v] = None <=> job[v] = None
                        /\ others[v] # None => others[v].snap = job[v].snap

LEMMA PersistedTypes ==
  ASSUME DiskOK, AllFit, items' \in Snapshot, FitAll(items)', NEW who \in {"loop", "caller"},
         NEW others, SameCopies(others), PersistedBy(who, others)
  PROVE  DiskOK' /\ AllFit'
<1>1. PICK w \in Writers :
        /\ others[w] = None
        /\ job' \in [Writers -> Job \cup {None}]
        /\ job'[w] = [snap |-> items', stage |-> "queued", holds |-> "nothing", by |-> who]
        /\ job'[w] # None
        /\ \A v \in Writers \ {w} : job'[v] = others[v]
  BY PersistedEffect DEF SameCopies
<1>2. /\ UNCHANGED <<tmpFile, stateFile, up, crashes, errors>>
      /\ overlapped' = (overlapped \/ Busy # {})
      /\ promised' = [id \in Ids |-> IF Alive(items'[id]) <=> Alive(items[id])
                                     THEN promised[id] ELSE "nothing"]
  BY DEF PersistedBy
<1>3. promised' \in [Ids -> {"nothing", "kept", "gone"}]
  BY <1>2 DEF DiskOK
<1>4. DiskOK'
  BY <1>1, <1>2, <1>3 DEF DiskOK
<1>5. \A v \in Busy' : FitAll(job[v].snap)'
  <2> SUFFICES ASSUME NEW v \in Busy' PROVE FitAll(job'[v].snap)
    BY DEF FitAll
  <2>1. CASE v = w
    BY <1>1, <2>1 DEF FitAll
  <2>2. CASE v # w
    <3>1. v \in Busy /\ job'[v].snap = job[v].snap
      BY <1>1, <2>2 DEF Busy, SameCopies
    <3> QED
      BY <3>1 DEF AllFit
  <2> QED
    BY <2>1, <2>2
<1>6. AllFit'
  BY <1>2, <1>5 DEF AllFit, FitAll
<1> QED
  BY <1>4, <1>6

(* The copy starts in order where no other write is under way. *)
LEMMA PersistedInOrder ==
  ASSUME DInv, up, ~overlapped', items' \in Snapshot, taken' \in [Ids -> Nat],
         NEW who \in {"loop", "caller"},
         NEW others, SameCopies(others), PersistedBy(who, others),
         \A id \in Ids : ItemSound(id)',
         \A id \in Ids :
           \/ taken'[id] = 0
           \/ /\ taken'[id] = taken[id]
              /\ who = "caller" /\ Present(id)' /\ child'[id] = "none" /\ ~Has(id, "retrying")'
                   => Present(id) /\ ~Underway(id)
  PROVE  InOrder'
<1>1. DiskOK
  BY DEF DInv, TypeOKDurable, DiskOK
<1>2. PICK w \in Writers :
        /\ others[w] = None
        /\ job' \in [Writers -> Job \cup {None}]
        /\ job'[w] = [snap |-> items', stage |-> "queued", holds |-> "nothing", by |-> who]
        /\ job'[w] # None
        /\ \A v \in Writers \ {w} : job'[v] = others[v]
  BY <1>1, PersistedEffect DEF SameCopies
<1>3. /\ UNCHANGED <<tmpFile, stateFile, up, crashes, errors>>
      /\ overlapped' = (overlapped \/ Busy # {})
      /\ promised' = [id \in Ids |-> IF Alive(items'[id]) <=> Alive(items[id])
                                     THEN promised[id] ELSE "nothing"]
  BY DEF PersistedBy
<1>4. InOrder /\ Busy = {}
  BY <1>3 DEF DInv
<1>5. Busy' = {w}
  <2>1. \A v \in Writers : others[v] = None
    BY <1>4 DEF SameCopies, Busy
  <2> QED
    BY <1>2, <2>1 DEF Busy
<1>6. Forgotten \in Nat /\ Forgotten' = Forgotten
  BY <1>1, <1>3, DiskAssumption DEF DiskOK, Forgotten
<1>7. WriteSound(w)'
  <2>1. \A id \in Ids : CopySound(id, job[w].snap[id])'
    <3> SUFFICES ASSUME NEW id \in Ids PROVE CopySound(id, items[id])'
      BY <1>2 DEF CopySound
    <3>1. CASE items'[id] = None
      BY <3>1 DEF CopySound, Alive
    <3>2. CASE items'[id] \in Item
      <4>1. Told(items'[id]) \in Nat /\ items'[id] # None /\ taken'[id] \in Nat
        BY <3>2, ItemTypes
      <4>2. taken'[id] <= Told(items'[id]) + Forgotten'
        BY <4>1 DEF ItemSound, Present
      <4> QED
        BY <1>6, <4>1, <4>2 DEF CopySound
    <3> QED
      BY <3>1, <3>2 DEF Snapshot
  <2>2. job'[w].stage = "queued"
    BY <1>2
  <2> QED
    BY <2>1, <2>2 DEF WriteSound
<1>8. ASSUME NEW id \in Ids PROVE FileSound(id)' /\ MemoryKept(id)'
  <2>1. Loaded(id)' = Loaded(id) /\ up' = up
    BY <1>3 DEF Loaded, Unreadable
  <2>2. /\ promised'[id] \in {promised[id], "nothing"}
        /\ promised'[id] # "nothing" => (Alive(items'[id]) <=> Alive(items[id]))
    BY <1>3
  <2>3. MemoryKept(id)'
    BY <1>4, <2>1, <2>2 DEF InOrder, MemoryKept
  <2>4. ASSUME Loaded(id) # None
        PROVE  taken'[id] <= Told(Loaded(id)) + Forgotten + (IF ~Settled(id)' THEN 1 ELSE 0)
    <3>1. Loaded(id) \in Item
      BY <1>1, <2>4 DEF Loaded, Unreadable, DiskOK, Content, Snapshot
    <3>2. Told(Loaded(id)) \in Nat /\ taken'[id] \in Nat /\ taken[id] \in Nat
      BY <3>1, ItemTypes DEF DInv, TypeOKDurable, TypeOK
    <3>3. taken[id] <= Told(Loaded(id)) + Forgotten + (IF ~Settled(id) THEN 1 ELSE 0)
      BY <1>4, <2>4 DEF InOrder, FileSound
    <3>4. CASE taken'[id] = 0
      BY <1>6, <3>2, <3>4
    <3>5. CASE taken'[id] = taken[id] /\ ~Settled(id)'
      BY <1>6, <3>2, <3>3, <3>5
    <3>6. CASE taken'[id] = taken[id] /\ taken'[id] # 0 /\ Settled(id)'
      <4>1. who = "caller" /\ Present(id)' /\ child'[id] = "none" /\ ~Has(id, "retrying")'
        BY <1>2, <1>5, <3>6 DEF Settled, LoopJobs
      <4>2. Settled(id)
        BY <1>4, <3>6, <4>1 DEF Settled
      <4> QED
        BY <1>6, <3>2, <3>3, <3>6, <4>2
    <3> QED
      BY <3>4, <3>5, <3>6
  <2>5. FileSound(id)'
    BY <1>4, <1>6, <2>1, <2>2, <2>4 DEF InOrder, FileSound
  <2> QED
    BY <2>3, <2>5
<1>9. stateFile' \in Snapshot \cup {None}
  BY <1>3, <1>4 DEF InOrder
<1> QED
  BY <1>5, <1>7, <1>8, <1>9 DEF InOrder

(* A step that changes one item and persists it. *)
LEMMA ItemPersisted ==
  ASSUME DInv, up, NEW id \in Ids, NEW v, Changed(id, v),
         v # None /\ v.status = "retrying" => child'[id] # "none" \/ id \in interrupted,
         NEW who \in {"loop", "caller"}, Persisted(who),
         who = "caller" => child' = child /\ (taken'[id] = 0 \/ items[id] # None),
         child' \in [Ids -> {"none", "waiting", "handling"}],
         \A d \in Ids \ {id} : child'[d] = child[d],
         UNCHANGED <<dueEntries, loop, interrupted, stops>>,
         calls' \in 0..MaxCalls
  PROVE  /\ DiskOK' /\ QueueSound' /\ AllFit'
         /\ ~overlapped' => InOrder'
<1>1. DiskOK /\ AllFit /\ QueueSound
  BY DEF DInv, TypeOKDurable, DiskOK
<1>2. /\ items' \in Snapshot /\ items'[id] = v
      /\ \A d \in Ids \ {id} : items'[d] = items[d]
      /\ FitAll(items)'
  BY ChangedItems
<1>3. SameCopies(job) /\ PersistedBy(who, job)
  BY <1>1 DEF SameCopies, DiskOK, Persisted
<1>4. DiskOK' /\ AllFit'
  BY <1>1, <1>2, <1>3, PersistedTypes
<1>5. QueueSound'
  <2>1. Placed(id, v)
    BY DEF Placed, Changed
  <2>2. /\ items' = [items EXCEPT ![id] = v]
        /\ queue \subseteq queue' /\ queue' \subseteq Times \X Ids
        /\ taken' \in [Ids -> Nat]
    BY DEF Changed
  <2> QED
    BY <1>1, <2>1, <2>2, OneItemKept
<1>6. ASSUME ~overlapped' PROVE InOrder'
  <2>1. InOrder /\ UNCHANGED <<crashes, errors>>
    BY <1>6 DEF Persisted, PersistedBy, DInv
  <2>2. \A d \in Ids : ItemSound(d)'
    BY <2>1, ChangedSound
  <2>3. \A d \in Ids :
          \/ taken'[d] = 0
          \/ /\ taken'[d] = taken[d]
             /\ who = "caller" /\ Present(d)' /\ child'[d] = "none" /\ ~Has(d, "retrying")'
                  => Present(d) /\ ~Underway(d)
    BY <1>2 DEF Changed, Present, Underway
  <2>4. taken' \in [Ids -> Nat]
    BY DEF Changed
  <2> QED
    BY <1>2, <1>3, <1>6, <2>2, <2>3, <2>4, PersistedInOrder
<1> QED
  BY <1>4, <1>5, <1>6

(* The loop's own writes go on, a caller's is added. *)
LEMMA RestingKept ==
  ASSUME DInv, up, up', NEW who \in {"loop", "caller"}, NEW others, SameCopies(others),
         PersistedBy(who, others), items' \in Snapshot,
         loop' # "batch" =>
           /\ who = "caller" /\ \A id \in Ids : child'[id] = "none"
           /\ \A v \in Writers : others[v] # None => others[v].by = "caller"
  PROVE  Resting'
<1>1. DiskOK
  BY DEF DInv, TypeOKDurable, DiskOK
<1>2. PICK w \in Writers :
        /\ others[w] = None
        /\ job' \in [Writers -> Job \cup {None}]
        /\ job'[w] = [snap |-> items', stage |-> "queued", holds |-> "nothing", by |-> who]
        /\ job'[w] # None
        /\ \A v \in Writers \ {w} : job'[v] = others[v]
  BY <1>1, PersistedEffect DEF SameCopies
<1>3. loop' # "batch" => LoopJobs' = {}
  BY <1>2 DEF LoopJobs, Busy
<1> QED
  BY <1>3 DEF Resting

LEMMA CallDurably == DInv /\ DurableCall => DInv'
<1> SUFFICES ASSUME DInv, DurableCall PROVE DInv'
  OBVIOUS
<1>1. /\ up /\ calls' \in 0..MaxCalls /\ Persisted("caller")
      /\ child' = child /\ UNCHANGED <<dueEntries, loop, interrupted, stops>>
  BY QueueAssumption DEF DurableCall, loopVars, DInv, TypeOKDurable, TypeOK
<1>2. PICK id \in Ids : Add(id) \/ (items[id] # None /\ (MarkSuccess(id) \/ MarkFailed(id)))
  BY DEF DurableCall
<1>3. TypeOK /\ FitAll(items) /\ RetryingIsHandled
  BY DEF DInv, AllFit, QueueSound
<1>4. \E v : /\ Changed(id, v)
             /\ v # None /\ v.status = "retrying" => child[id] # "none" \/ id \in interrupted
             /\ taken'[id] = 0 \/ items[id] # None
  <2>1. CASE AddNew(id)
    BY <1>3, <2>1, NewChanges
  <2>2. CASE items[id] # None /\ AddAgain(id, items[id])
    <3>1. PICK v : Changed(id, v) /\ v.status \in {items[id].status, "exhausted"}
      BY <1>3, <2>2, AgainChanges
    <3>2. items[id].status = "retrying" => child[id] # "none" \/ id \in interrupted
      BY <1>3, <2>2 DEF RetryingIsHandled, Has, Present
    <3> QED
      BY <2>2, <3>1, <3>2
  <2>3. CASE items[id] # None /\ MarkSuccess(id)
    BY <1>3, <2>3, SuccessChanges
  <2>4. CASE items[id] # None /\ MarkFailed(id)
    BY <1>3, <2>4, FailedChanges
  <2> QED
    BY <1>2, <2>1, <2>2, <2>3, <2>4 DEF Add
<1>5. PICK v : /\ Changed(id, v)
               /\ v # None /\ v.status = "retrying" => child[id] # "none" \/ id \in interrupted
               /\ taken'[id] = 0 \/ items[id] # None
  BY <1>4
<1>6. DiskOK' /\ QueueSound' /\ AllFit' /\ (~overlapped' => InOrder')
  <2>1. child' \in [Ids -> {"none", "waiting", "handling"}]
    BY <1>1, <1>3 DEF TypeOK
  <2> QED
    BY <1>1, <1>5, <2>1, ItemPersisted
<1>7. Resting'
  <2>1. DiskOK /\ items' \in Snapshot /\ up'
    BY <1>1, <1>5, ChangedItems DEF DInv, TypeOKDurable, DiskOK, Persisted, PersistedBy
  <2>2. SameCopies(job) /\ PersistedBy("caller", job)
    BY <1>1, <2>1 DEF SameCopies, DiskOK, Persisted
  <2>3. loop' # "batch" => /\ \A d \in Ids : child'[d] = "none"
                           /\ \A v1 \in Writers : job[v1] # None => job[v1].by = "caller"
    <3>1. \A v1 \in Writers : job[v1] # None => job[v1].by \in {"loop", "caller"}
      BY <2>1, JobTypes DEF DiskOK
    <3> QED
      BY <1>1, <3>1 DEF DInv, Resting, LoopJobs, Busy
  <2> QED
    BY <1>1, <2>1, <2>2, <2>3, RestingKept
<1> QED
  BY <1>6, <1>7 DEF DInv, TypeOKDurable, DiskOK, QueueSound

(* Steps that no copy and no count depends on. *)
LEMMA QuietDurably ==
  ASSUME DInv, Resting', QueueSound', items' = items, taken' = taken,
         UNCHANGED <<diskVars, up, crashes, errors>>,
         \A id \in Ids : Present(id) => (child'[id] = "none" <=> child[id] = "none")
  PROVE  DInv'
<1>1. UNCHANGED <<job, tmpFile, stateFile, overlapped, promised, up, crashes, errors>>
  BY DEF diskVars
<1>2. TypeOKDurable'
  BY <1>1 DEF DInv, TypeOKDurable, QueueSound
<1>3. AllFit'
  BY <1>1 DEF DInv, AllFit, FitAll, Busy
<1>4. ASSUME InOrder PROVE InOrder'
  <2>1. Busy' = Busy /\ LoopJobs' = LoopJobs /\ Forgotten' = Forgotten
    BY <1>1 DEF Busy, LoopJobs, Forgotten
  <2>2. \A id \in Ids : /\ Underway(id)' <=> Underway(id)
                        /\ Settled(id)' <=> Settled(id)
                        /\ Loaded(id)' = Loaded(id)
    BY <1>1, <2>1 DEF Underway, Settled, Has, Present, Loaded, Unreadable
  <2>3. \A w \in Busy : WriteSound(w)'
    <3> SUFFICES ASSUME NEW w \in Busy PROVE WriteSound(w)'
      OBVIOUS
    <3>1. \A id \in Ids : CopySound(id, job[w].snap[id])'
      BY <1>1, <1>4, <2>1, <2>2 DEF InOrder, WriteSound, CopySound
    <3> QED
      BY <1>1, <1>4, <3>1 DEF InOrder, WriteSound
  <2>4. \A id \in Ids : ItemSound(id)' /\ FileSound(id)' /\ MemoryKept(id)'
    <3> SUFFICES ASSUME NEW id \in Ids PROVE ItemSound(id)' /\ FileSound(id)' /\ MemoryKept(id)'
      OBVIOUS
    <3>1. ItemSound(id) /\ FileSound(id) /\ MemoryKept(id)
      BY <1>4 DEF InOrder
    <3>2. ItemSound(id)'
      BY <2>1, <3>1 DEF ItemSound, Present
    <3>3. FileSound(id)'
      BY <1>1, <2>1, <2>2, <3>1 DEF FileSound
    <3>4. MemoryKept(id)'
      BY <1>1, <3>1 DEF MemoryKept
    <3> QED
      BY <3>2, <3>3, <3>4
  <2> QED
    BY <1>1, <1>4, <2>1, <2>3, <2>4 DEF InOrder
<1> QED
  BY <1>1, <1>2, <1>3, <1>4 DEF DInv

LEMMA OutcomeDurably ==
  ASSUME DInv, NEW id \in Ids, DurableOutcome(id)
  PROVE  DInv'
<1>1. /\ up /\ (Delivered(id) \/ NotDelivered(id))
      /\ child[id] = "handling" /\ child' = [child EXCEPT ![id] = "none"]
      /\ UNCHANGED <<dueEntries, loop, interrupted, calls, stops>>
      /\ MarkSuccess(id) \/ MarkFailed(id)
  BY DEF DurableOutcome, Delivered, NotDelivered
<1>2. TypeOK /\ FitAll(items) /\ QueueSound
  BY DEF DInv, AllFit, QueueSound
<1>3. /\ child' \in [Ids -> {"none", "waiting", "handling"}]
      /\ \A d \in Ids \ {id} : child'[d] = child[d]
      /\ calls' \in 0..MaxCalls
  BY <1>1, <1>2 DEF TypeOK
<1>4. loop = "batch"
  BY <1>1 DEF DInv, Resting
<1>5. CASE items[id] # None
  <2>1. Persisted("loop")
    BY <1>5 DEF DurableOutcome
  <2>2. PICK v : /\ Changed(id, v)
                 /\ v = None \/ v.status \in {"failed", "exhausted"}
    BY <1>1, <1>2, <1>5, SuccessChanges, FailedChanges
  <2>3. DiskOK' /\ QueueSound' /\ AllFit' /\ (~overlapped' => InOrder')
    <3>1. /\ v # None /\ v.status = "retrying" => child'[id] # "none" \/ id \in interrupted
          /\ "loop" \in {"loop", "caller"}
          /\ "loop" = "caller" => child' = child /\ (taken'[id] = 0 \/ items[id] # None)
      BY <2>2
    <3> QED
      BY <1>1, <1>3, <2>1, <2>2, <3>1, ItemPersisted
  <2>4. Resting'
    <3>1. loop' = "batch" /\ up'
      BY <1>1, <1>4, <2>1 DEF Persisted, PersistedBy
    <3> QED
      BY <3>1 DEF Resting
  <2> QED
    BY <2>3, <2>4 DEF DInv, TypeOKDurable, DiskOK, QueueSound
<1>6. CASE items[id] = None
  <2>1. /\ UNCHANGED <<diskVars, up, crashes, errors>>
        /\ items' = items /\ queue' = queue /\ taken' = taken
    BY <1>1, <1>2, <1>6 DEF DurableOutcome, Unpersisted, MarkSuccess, MarkFailed, TypeOK
  <2>2. QueueSound'
    <3>1. Placed(id, None) /\ items' = [items EXCEPT ![id] = None]
      BY <1>2, <1>6, <2>1 DEF Placed, TypeOK
    <3>2. queue \subseteq queue' /\ queue' \subseteq Times \X Ids /\ taken' \in [Ids -> Nat]
      BY <1>2, <2>1 DEF TypeOK
    <3> QED
      BY <1>1, <1>2, <1>3, <3>1, <3>2, OneItemKept
  <2>3. Resting'
    BY <1>1, <1>4, <2>1 DEF Resting
  <2>4. \A d \in Ids : Present(d) => (child'[d] = "none" <=> child[d] = "none")
    BY <1>3, <1>6 DEF Present
  <2> QED
    BY <2>1, <2>2, <2>3, <2>4, QuietDurably
<1> QED
  BY <1>5, <1>6

LEMMA StopDurably == DInv /\ DurableStop => DInv'
<1> SUFFICES ASSUME DInv, DurableStop PROVE DInv'
  OBVIOUS
<1> DEFINE others == [w \in Writers |-> IF job[w] = None THEN None
                                        ELSE [job[w] EXCEPT !.by = "caller"]]
<1>1. up /\ Stop /\ PersistedBy("caller", others)
  BY DEF DurableStop
<1>2. DiskOK /\ AllFit /\ QueueSound /\ items \in Snapshot
  BY DEF DInv, TypeOKDurable, DiskOK, TypeOK, Snapshot
<1>3. \A w \in Writers :
        /\ others[w] \in Job \cup {None}
        /\ others[w] = None <=> job[w] = None
        /\ others[w] # None => others[w].snap = job[w].snap /\ others[w].by = "caller"
  <2> SUFFICES ASSUME NEW w \in Writers, job[w] # None
               PROVE  LET j == [job[w] EXCEPT !.by = "caller"]
                      IN  j \in Job /\ j # None /\ j.snap = job[w].snap /\ j.by = "caller"
    OBVIOUS
  <2>1. job[w] \in Job
    BY <1>2 DEF DiskOK
  <2>2. LET j == [job[w] EXCEPT !.by = "caller"]
        IN  j \in Job /\ j.snap = job[w].snap /\ j.by = "caller"
    BY <2>1 DEF Job
  <2> QED
    BY <2>2, JobTypes
<1>4. SameCopies(others)
  <2>1. others \in [Writers -> Job \cup {None}]
    BY <1>3
  <2> HIDE DEF others
  <2> QED
    BY <1>3, <2>1 DEF SameCopies
<1> HIDE DEF others
<1>5. QueueSound' /\ items' = items /\ taken' = taken
  BY <1>1, <1>2, OtherKept
<1>6. items' \in Snapshot /\ FitAll(items)' /\ taken' \in [Ids -> Nat]
  BY <1>2, <1>5 DEF AllFit, FitAll, QueueSound, TypeOK
<1>7. DiskOK' /\ AllFit'
  BY <1>1, <1>2, <1>4, <1>6, PersistedTypes
<1>8. ASSUME ~overlapped' PROVE InOrder'
  <2>1. InOrder /\ Forgotten' = Forgotten
    BY <1>1, <1>8 DEF PersistedBy, DInv, Forgotten
  <2>2. \A d \in Ids : ItemSound(d)'
    BY <1>5, <2>1 DEF InOrder, ItemSound, Present
  <2>3. \A d \in Ids :
          \/ taken'[d] = 0
          \/ /\ taken'[d] = taken[d]
             /\ "caller" = "caller" /\ Present(d)' /\ child'[d] = "none" /\ ~Has(d, "retrying")'
                  => Present(d) /\ ~Underway(d)
    BY <1>5 DEF Present, Has, Underway
  <2> QED
    BY <1>1, <1>4, <1>6, <1>8, <2>2, <2>3, PersistedInOrder
<1>9. Resting'
  <2>1. \A id \in Ids : child'[id] = "none"
    BY <1>1 DEF Stop
  <2>2. \A v \in Writers : others[v] # None => others[v].by = "caller"
    BY <1>3
  <2>3. up'
    BY <1>1 DEF PersistedBy
  <2> QED
    BY <1>1, <1>4, <1>6, <2>1, <2>2, <2>3, RestingKept
<1> QED
  BY <1>5, <1>7, <1>8, <1>9 DEF DInv, TypeOKDurable, DiskOK, QueueSound

LEMMA OtherDurably ==
  ASSUME DInv,
         \/ up /\ Unpersisted /\ (Start \/ \E entry \in queue : ComeDue(entry))
         \/ DurableEnd \/ \E id \in Ids : DurableBegin(id)
         \/ UNCHANGED allVars
  PROVE  DInv'
<1>1. /\ UNCHANGED <<diskVars, up, crashes, errors>>
      /\ \/ \E entry \in queue : ComeDue(entry)
         \/ Start \/ EndBatch \/ Stop \/ UNCHANGED vars
         \/ \E id \in Ids : BeginHandling(id)
  BY DEF Unpersisted, DurableEnd, DurableBegin, allVars
<1>2. QueueSound' /\ items' = items /\ taken' = taken
  BY <1>1, OtherKept DEF DInv
<1>3. TypeOK
  BY DEF DInv, TypeOKDurable
<1>4. \A id \in Ids : child'[id] = "none" <=> child[id] = "none"
  <2>1. CASE UNCHANGED child
    BY <2>1
  <2>2. CASE \E id \in Ids : BeginHandling(id)
    BY <1>3, <2>2 DEF BeginHandling, TypeOK
  <2> QED
    BY <2>1, <2>2 DEF Start, ComeDue, DurableEnd, EndBatch, DurableBegin, allVars, vars
<1>5. Resting'
  <2>1. up' = up /\ LoopJobs' = LoopJobs /\ Busy' = Busy
    BY <1>1 DEF LoopJobs, Busy, diskVars
  <2>2. CASE up /\ (Start \/ \E entry \in queue : ComeDue(entry))
    BY <1>4, <2>1, <2>2 DEF DInv, Resting, Start, ComeDue
  <2>3. CASE DurableEnd
    BY <1>4, <2>1, <2>3 DEF DInv, Resting, DurableEnd, EndBatch
  <2>4. CASE \E id \in Ids : DurableBegin(id)
    BY <1>4, <2>1, <2>4 DEF DInv, Resting, DurableBegin, BeginHandling
  <2>5. CASE UNCHANGED allVars
    BY <2>1, <2>5 DEF DInv, Resting, allVars, vars
  <2> QED
    BY <2>2, <2>3, <2>4, <2>5
<1> QED
  BY <1>1, <1>2, <1>4, <1>5, QuietDurably

(* The tries that a batch begins are not written down; nothing of these items is
   on its way to the file then, so no copy was behind.                       *)
LEMMA TakeDurably ==
  ASSUME DInv, up, TakeBatch, Unpersisted
  PROVE  DInv'
<1>1. /\ UNCHANGED <<job, tmpFile, stateFile, overlapped, promised, up, crashes, errors>>
      /\ LoopJobs' = LoopJobs /\ Busy' = Busy /\ Forgotten' = Forgotten
  BY DEF Unpersisted, diskVars, LoopJobs, Busy, Forgotten
<1>2. TypeOK /\ QueueSound /\ loop = "sleeping"
  BY DEF DInv, QueueSound, TakeBatch
<1>3. QueueSound'
  BY <1>2, TakeBatchKept
<1>4. /\ \A id \in Ready :
           /\ id \in Ids /\ items[id] \in Item
           /\ items[id].status \in {"pending", "failed"}
           /\ items'[id] \in Item /\ items'[id].status = "retrying"
           /\ items'[id].attempt = items[id].attempt
           /\ taken'[id] = taken[id] + 1 /\ child'[id] = "waiting"
      /\ \A id \in Ids \ Ready :
           /\ items'[id] = items[id] /\ taken'[id] = taken[id] /\ child'[id] = child[id]
  BY <1>2, TakeBatchEffect
<1>5. \A id \in Ready :
        /\ Present(id) /\ Present(id)' /\ Alive(items[id]) /\ Alive(items'[id])
        /\ Has(id, "retrying")' /\ ~Has(id, "retrying")
        /\ Told(items[id]) \in Nat /\ Told(items'[id]) = Told(items[id]) + 1
        /\ Fit(items[id]) => Fit(items'[id])
  <2> SUFFICES ASSUME NEW id \in Ready
               PROVE  /\ Present(id) /\ Present(id)' /\ Alive(items[id]) /\ Alive(items'[id])
                      /\ Has(id, "retrying")' /\ ~Has(id, "retrying")
                      /\ Told(items[id]) \in Nat /\ Told(items'[id]) = Told(items[id]) + 1
                      /\ Fit(items[id]) => Fit(items'[id])
    OBVIOUS
  <2>1. /\ items[id] # None /\ items'[id] # None /\ items[id].attempt \in Nat
    BY <1>4, ItemTypes
  <2>2. Told(items[id]) = items[id].attempt /\ Told(items'[id]) = items[id].attempt + 1
    BY <1>4, <2>1 DEF Told
  <2>3. Fit(items[id]) => Fit(items'[id])
    BY <1>4 DEF Fit
  <2> QED
    BY <1>4, <2>1, <2>2, <2>3 DEF Present, Alive, Has
<1>6. LoopJobs = {} /\ \A id \in Ids : child[id] = "none"
  BY <1>2 DEF DInv, Resting
<1>7. AllFit'
  <2>1. FitAll(items)'
    <3>1. FitAll(items)
      BY DEF DInv, AllFit
    <3> SUFFICES ASSUME NEW id \in Ids, items'[id] # None PROVE Fit(items'[id])
      BY DEF FitAll
    <3>2. CASE id \in Ready
      BY <1>5, <3>1, <3>2 DEF FitAll, Present
    <3>3. CASE id \notin Ready
      BY <1>4, <3>1, <3>3 DEF FitAll
    <3> QED
      BY <3>2, <3>3
  <2> QED
    BY <1>1, <2>1 DEF DInv, AllFit, FitAll
<1>8. Resting'
  <2>1. loop' # "batch" => Ready = {}
    BY DEF TakeBatch
  <2> QED
    BY <1>1, <1>4, <1>6, <2>1 DEF Resting
<1>9. ASSUME InOrder PROVE InOrder'
  <2>1. taken \in [Ids -> Nat] /\ Forgotten \in Nat
    BY <1>2, DiskAssumption DEF TypeOK, Forgotten, DInv, TypeOKDurable
  <2>2. \A id \in Ids : Loaded(id)' = Loaded(id)
    BY <1>1 DEF Loaded, Unreadable
  <2>3. ASSUME NEW id \in Ids
        PROVE  /\ ItemSound(id)' /\ FileSound(id)' /\ MemoryKept(id)'
               /\ \A w \in Busy : CopySound(id, job[w].snap[id])'
    <3>1. /\ ItemSound(id) /\ FileSound(id) /\ MemoryKept(id)
          /\ \A w \in Busy : CopySound(id, job[w].snap[id])
      BY <1>9 DEF InOrder, WriteSound
    <3>2. /\ Loaded(id) # None => Told(Loaded(id)) \in Nat
          /\ \A w \in Busy : Alive(job[w].snap[id]) => Told(job[w].snap[id]) \in Nat
      <4>1. DiskOK
        BY DEF DInv, TypeOKDurable, DiskOK
      <4>2. Loaded(id) # None => Loaded(id) \in Item
        BY <4>1 DEF Loaded, Unreadable, DiskOK, Content, Snapshot
      <4>3. \A w \in Busy : job[w].snap \in Snapshot
        BY <4>1, JobTypes DEF DiskOK, Busy
      <4>4. \A w \in Busy : Alive(job[w].snap[id]) => job[w].snap[id] \in Item
        BY <4>3 DEF Alive, Snapshot
      <4> QED
        BY <4>2, <4>4, ItemTypes
    <3>3. CASE id \in Ready
      <4>1. ~Underway(id) /\ Underway(id)' /\ Settled(id) /\ ~Settled(id)'
        BY <1>4, <1>5, <1>6, <3>3 DEF Underway, Settled
      <4>2. taken[id] <= Told(items[id]) + Forgotten
        BY <1>5, <3>1, <3>3 DEF ItemSound
      <4>3. ItemSound(id)'
        BY <1>1, <1>4, <1>5, <2>1, <3>3, <4>2 DEF ItemSound
      <4>4. FileSound(id)'
        BY <1>1, <1>4, <2>1, <2>2, <3>1, <3>2, <3>3, <4>1 DEF FileSound
      <4>5. MemoryKept(id)'
        BY <1>1, <1>5, <3>1, <3>3 DEF MemoryKept
      <4>6. \A w \in Busy : CopySound(id, job[w].snap[id])'
        BY <1>1, <1>4, <1>5, <2>1, <3>1, <3>2, <3>3, <4>1 DEF CopySound
      <4> QED
        BY <4>3, <4>4, <4>5, <4>6
    <3>4. CASE id \notin Ready
      <4>1. items'[id] = items[id] /\ taken'[id] = taken[id] /\ child'[id] = child[id]
        BY <1>4, <3>4
      <4>2. (Underway(id)' <=> Underway(id)) /\ (Settled(id)' <=> Settled(id))
        BY <1>1, <4>1 DEF Underway, Settled, Has, Present
      <4>3. ItemSound(id)' /\ MemoryKept(id)'
        BY <1>1, <3>1, <4>1 DEF ItemSound, MemoryKept, Present
      <4>4. FileSound(id)'
        BY <1>1, <2>2, <3>1, <4>1, <4>2 DEF FileSound
      <4>5. \A w \in Busy : CopySound(id, job[w].snap[id])'
        BY <1>1, <3>1, <4>1, <4>2 DEF CopySound
      <4> QED
        BY <4>3, <4>4, <4>5
    <3> QED
      BY <3>3, <3>4
  <2>4. \A w \in Busy : WriteSound(w)'
    BY <1>1, <1>9, <2>3 DEF InOrder, WriteSound
  <2> QED
    BY <1>1, <1>9, <2>3, <2>4 DEF InOrder
<1> QED
  BY <1>1, <1>3, <1>7, <1>8, <1>9 DEF DInv, TypeOKDurable, QueueSound

-----------------------------------------------------------------------------
(* The writing threads. *)

LEMMA WriterKept ==
  ASSUME DInv, NEW w \in Busy, UNCHANGED vars, up' = up,
         \A v \in Writers : job'[v] = None \/ (job[v] # None /\ job'[v].by = job[v].by)
  PROVE  QueueSound' /\ Resting' /\ up
<1>1. QueueSound'
  BY OtherKept DEF DInv
<1>2. up
  BY DEF DInv, Resting
<1>3. LoopJobs' \subseteq LoopJobs
  BY DEF LoopJobs, Busy
<1>4. loop' = loop /\ child' = child
  BY DEF vars
<1> QED
  BY <1>1, <1>2, <1>3, <1>4 DEF DInv, Resting

(* A thread goes on with its copy: it opens the file or writes it. *)
LEMMA GoesOn ==
  ASSUME DInv, NEW w \in Busy, NEW j \in Job, job' = [job EXCEPT ![w] = j],
         j.snap = job[w].snap, j.by = job[w].by
  PROVE  /\ job' \in [Writers -> Job \cup {None}]
         /\ job'[w] = j /\ \A v \in Writers \ {w} : job'[v] = job[v]
         /\ Busy' = Busy /\ LoopJobs' = LoopJobs
         /\ \A v \in Writers : /\ job'[v] = None \/ (job[v] # None /\ job'[v].by = job[v].by)
                               /\ job'[v] # None => job'[v].snap = job[v].snap
<1>1. job \in [Writers -> Job \cup {None}] /\ w \in Writers /\ job[w] # None
  BY DEF DInv, TypeOKDurable, Busy
<1>2. /\ job' \in [Writers -> Job \cup {None}]
      /\ job'[w] = j /\ \A v \in Writers \ {w} : job'[v] = job[v]
  BY <1>1
<1>3. j # None
  BY JobTypes
<1>4. \A v \in Writers : /\ job'[v] = None <=> job[v] = None
                         /\ job'[v] # None => job'[v].by = job[v].by /\ job'[v].snap = job[v].snap
  BY <1>1, <1>2, <1>3
<1>5. Busy' = Busy /\ LoopJobs' = LoopJobs
  BY <1>4 DEF Busy, LoopJobs
<1> QED
  BY <1>2, <1>4, <1>5

LEMMA GoesOnInOrder ==
  ASSUME DInv, InOrder, NEW w \in Busy, NEW j \in Job, job' = [job EXCEPT ![w] = j],
         j.snap = job[w].snap, j.by = job[w].by,
         j.stage # "queued" => j.holds = "tmp",
         j.stage = "open" => tmpFile' = EmptyFile,
         j.stage = "written" => tmpFile' = j.snap,
         UNCHANGED <<vars, stateFile, promised, up, crashes, errors>>
  PROVE  InOrder'
<1>1. job'[w] = j /\ Busy' = Busy /\ LoopJobs' = LoopJobs
  BY GoesOn
<1>2. Busy = {w}
  BY DEF InOrder
<1>3. UNCHANGED <<items, taken, child, stateFile, promised, up, crashes, errors>>
  BY DEF vars
<1>4. \A id \in Ids : /\ Underway(id)' <=> Underway(id)
                      /\ Settled(id)' <=> Settled(id)
                      /\ Loaded(id)' = Loaded(id)
  BY <1>1, <1>3 DEF Underway, Settled, Has, Present, Loaded, Unreadable
<1>5. WriteSound(w)'
  <2>1. \A id \in Ids : CopySound(id, job[w].snap[id])'
    BY <1>1, <1>3, <1>4 DEF InOrder, WriteSound, CopySound, Forgotten
  <2> QED
    BY <1>1, <2>1 DEF WriteSound
<1>6. \A id \in Ids : ItemSound(id)' /\ FileSound(id)' /\ MemoryKept(id)'
  <2> SUFFICES ASSUME NEW id \in Ids PROVE ItemSound(id)' /\ FileSound(id)' /\ MemoryKept(id)'
    OBVIOUS
  <2>1. ItemSound(id) /\ FileSound(id) /\ MemoryKept(id)
    BY DEF InOrder
  <2> QED
    BY <1>3, <1>4, <2>1 DEF ItemSound, FileSound, MemoryKept, Present, Forgotten
<1> QED
  BY <1>1, <1>2, <1>3, <1>5, <1>6 DEF InOrder

LEMMA OpenDurably ==
  ASSUME DInv, NEW w \in Writers, OpenTmp(w)
  PROVE  DInv'
<1> DEFINE j == [job[w] EXCEPT !.stage = "open", !.holds = "tmp"]
<1>1. /\ w \in Busy /\ job[w] \in Job
      /\ tmpFile' = EmptyFile
      /\ UNCHANGED <<vars, stateFile, overlapped, promised, up, crashes, errors>>
  BY DEF OpenTmp, DInv, TypeOKDurable, Busy
<1>2. job' = [job EXCEPT ![w] = j]
  BY DEF OpenTmp
<1>3. /\ j \in Job /\ j.snap = job[w].snap /\ j.by = job[w].by
      /\ j.stage = "open" /\ j.holds = "tmp"
  BY <1>1 DEF Job
<1> HIDE DEF j
<1>4. /\ job' \in [Writers -> Job \cup {None}] /\ Busy' = Busy
      /\ \A v \in Writers : /\ job'[v] = None \/ (job[v] # None /\ job'[v].by = job[v].by)
                            /\ job'[v] # None => job'[v].snap = job[v].snap
  BY <1>1, <1>2, <1>3, GoesOn
<1>5. QueueSound' /\ Resting'
  BY <1>1, <1>4, WriterKept
<1>6. TypeOKDurable'
  BY <1>1, <1>4, <1>5 DEF DInv, TypeOKDurable, QueueSound, Content
<1>7. AllFit'
  <2>1. \A v \in Busy' : job'[v].snap = job[v].snap /\ v \in Busy
    BY <1>4 DEF Busy
  <2>2. tmpFile' \notin Snapshot
    BY <1>1, DiskAssumption
  <2>3. items' = items /\ stateFile' = stateFile
    BY <1>1 DEF vars
  <2> QED
    BY <2>1, <2>2, <2>3 DEF DInv, AllFit, FitAll
<1>8. ASSUME InOrder PROVE InOrder'
  BY <1>1, <1>2, <1>3, <1>8, GoesOnInOrder
<1> QED
  BY <1>1, <1>5, <1>6, <1>7, <1>8 DEF DInv

LEMMA DumpDurably ==
  ASSUME DInv, NEW w \in Writers, Dump(w)
  PROVE  DInv'
<1> DEFINE j == [job[w] EXCEPT !.stage = "written"]
<1>1. /\ w \in Busy /\ job[w] \in Job /\ job[w].stage = "open"
      /\ UNCHANGED <<vars, overlapped, promised, up, crashes, errors>>
  BY DEF Dump, DInv, TypeOKDurable, Busy
<1>2. job' = [job EXCEPT ![w] = j]
  BY DEF Dump
<1>3. /\ j \in Job /\ j.snap = job[w].snap /\ j.by = job[w].by
      /\ j.stage = "written" /\ j.holds = job[w].holds
  BY <1>1 DEF Job
<1> HIDE DEF j
<1>4. /\ job' \in [Writers -> Job \cup {None}] /\ Busy' = Busy
      /\ \A v \in Writers : /\ job'[v] = None \/ (job[v] # None /\ job'[v].by = job[v].by)
                            /\ job'[v] # None => job'[v].snap = job[v].snap
  BY <1>1, <1>2, <1>3, GoesOn
<1>5. QueueSound' /\ Resting'
  BY <1>1, <1>4, WriterKept
<1>6. /\ tmpFile' \in {tmpFile, job[w].snap, TornFile}
      /\ stateFile' \in {stateFile, job[w].snap, TornFile}
  BY DEF Dump, Over
<1>7. job[w].snap \in Snapshot /\ TornFile \notin Snapshot
  BY <1>1, JobTypes, DiskAssumption
<1>8. TypeOKDurable'
  BY <1>1, <1>4, <1>5, <1>6, <1>7 DEF DInv, TypeOKDurable, QueueSound, Content
<1>9. AllFit'
  <2>1. \A v \in Busy' : job'[v].snap = job[v].snap /\ v \in Busy
    BY <1>4 DEF Busy
  <2>2. items' = items
    BY <1>1 DEF vars
  <2>3. AllFit /\ FitAll(job[w].snap)
    BY <1>1 DEF DInv, AllFit
  <2>4. /\ tmpFile' \in Snapshot => FitAll(tmpFile')
        /\ stateFile' \in Snapshot => FitAll(stateFile')
    BY <1>6, <1>7, <2>3 DEF AllFit
  <2>5. \A v \in Busy' : FitAll(job'[v].snap)
    BY <2>1, <2>3 DEF AllFit
  <2> QED
    BY <2>2, <2>3, <2>4, <2>5 DEF AllFit, FitAll
<1>10. ASSUME InOrder PROVE InOrder'
  <2>1. job[w].holds = "tmp" /\ tmpFile = EmptyFile
    BY <1>1, <1>10 DEF InOrder, WriteSound
  <2>2. tmpFile' = job[w].snap /\ stateFile' = stateFile
    BY <2>1 DEF Dump, Over
  <2> QED
    BY <1>1, <1>2, <1>3, <1>10, <2>1, <2>2, GoesOnInOrder
<1> QED
  BY <1>1, <1>5, <1>8, <1>9, <1>10 DEF DInv

(* What a copy that is in order becomes in the state file. *)
LEMMA MovedInOrder ==
  ASSUME DInv, InOrder, NEW w \in Busy, up, UNCHANGED <<vars, up, crashes, errors>>,
         Busy' = {}, stateFile' = job[w].snap, job[w].snap \in Snapshot,
         promised' = [id \in Ids |-> IF Alive(job[w].snap[id]) THEN "kept" ELSE "gone"]
  PROVE  InOrder'
<1>1. UNCHANGED <<items, taken, child, crashes, errors>>
  BY DEF vars
<1>2. stateFile' \notin Unreadable'
  BY DiskAssumption DEF Unreadable
<1>3. ASSUME NEW id \in Ids PROVE ItemSound(id)' /\ FileSound(id)' /\ MemoryKept(id)'
  <2> DEFINE v == job[w].snap[id]
  <2>1. CopySound(id, v) /\ ItemSound(id)
    BY DEF InOrder, WriteSound
  <2>2. Loaded(id)' = (IF Alive(v) THEN v ELSE None) /\ (Alive(v) => v # None)
    BY <1>2 DEF Loaded, Alive
  <2>3. promised'[id] = IF Alive(v) THEN "kept" ELSE "gone"
    OBVIOUS
  <2>4. Underway(id)' <=> Underway(id)
    BY <1>1 DEF Underway, Has, Present
  <2>5. Underway(id)' => ~Settled(id)'
    BY DEF Settled, Underway
  <2>6. Alive(v) => v \in Item
    BY DEF Snapshot, Alive
  <2> HIDE DEF v
  <2>7. taken[id] \in Nat /\ Forgotten \in Nat /\ (Alive(v) => Told(v) \in Nat)
    BY <2>6, ItemTypes, DiskAssumption DEF DInv, TypeOKDurable, TypeOK, Forgotten
  <2>8. ItemSound(id)'
    BY <1>1, <2>1 DEF ItemSound, Present, Forgotten
  <2>9. MemoryKept(id)'
    BY <1>1, <2>1, <2>3 DEF MemoryKept, CopySound
  <2>10. Forgotten' = Forgotten /\ up' /\ taken'[id] = taken[id]
    BY <1>1 DEF Forgotten
  <2>11. Loaded(id)' # None =>
          taken'[id] <= Told(Loaded(id)') + Forgotten' + (IF ~Settled(id)' THEN 1 ELSE 0)
    <3> SUFFICES ASSUME Alive(v)
                 PROVE  taken[id] <= Told(v) + Forgotten + (IF ~Settled(id)' THEN 1 ELSE 0)
      BY <2>2, <2>10
    <3>1. taken[id] <= Told(v) + Forgotten + (IF Underway(id) THEN 1 ELSE 0)
      BY <2>1 DEF CopySound
    <3> QED
      BY <2>4, <2>5, <2>7, <3>1
  <2>12. FileSound(id)'
    BY <2>2, <2>3, <2>10, <2>11 DEF FileSound
  <2> QED
    BY <2>8, <2>9, <2>12
<1> QED
  BY <1>3 DEF InOrder

LEMMA MoveDurably ==
  ASSUME DInv, NEW w \in Writers, Move(w)
  PROVE  DInv'
<1>1. /\ w \in Busy /\ job[w] \in Job /\ job[w].stage = "written"
      /\ UNCHANGED <<vars, overlapped, up, crashes, errors>>
  BY DEF Move, DInv, TypeOKDurable, Busy
<1>2. \A v \in Writers :
        /\ job'[v] \in Job \cup {None}
        /\ job'[v] = None \/ (job[v] # None /\ job'[v].by = job[v].by)
        /\ job'[v] # None => job'[v].snap = job[v].snap
        /\ v = w \/ job[v] = None => job'[v] = None
  <2> SUFFICES ASSUME NEW v \in Writers
               PROVE  /\ job'[v] \in Job \cup {None}
                      /\ job'[v] = None \/ (job[v] # None /\ job'[v].by = job[v].by)
                      /\ job'[v] # None => job'[v].snap = job[v].snap
                      /\ v = w \/ job[v] = None => job'[v] = None
    OBVIOUS
  <2>1. job[v] \in Job \cup {None} /\ job \in [Writers -> Job \cup {None}]
    BY DEF DInv, TypeOKDurable
  <2>2. job'[v] \in {job[v], None, Renamed(job[v])} /\ (v = w => job'[v] = None)
    BY <2>1 DEF Move
  <2>3. job[v] # None => /\ Renamed(job[v]) \in Job /\ Renamed(job[v]).by = job[v].by
                         /\ Renamed(job[v]).snap = job[v].snap
    BY <2>1 DEF Renamed, Job
  <2>4. job[v] = None => Renamed(job[v]) = None
    BY DEF Renamed
  <2> QED
    BY <2>1, <2>2, <2>3, <2>4
<1>3. job' \in [Writers -> Job \cup {None}]
  <2>1. job' = [v \in Writers |-> job'[v]]
    <3>1. CASE tmpFile = None
      BY <3>1 DEF Move, DInv, TypeOKDurable
    <3>2. CASE tmpFile # None
      BY <3>2 DEF Move
    <3> QED
      BY <3>1, <3>2
  <2> QED
    BY <1>2, <2>1
<1>4. QueueSound' /\ Resting' /\ up
  BY <1>1, <1>2, WriterKept
<1>5. /\ \/ tmpFile' = tmpFile /\ stateFile' = stateFile
         \/ tmpFile # None /\ tmpFile' = None /\ stateFile' = tmpFile
      /\ promised' \in [Ids -> {"nothing", "kept", "gone"}]
  BY DEF Move, DInv, TypeOKDurable
<1>6. TypeOKDurable'
  BY <1>1, <1>3, <1>4, <1>5 DEF DInv, TypeOKDurable, QueueSound
<1>7. AllFit'
  <2>1. \A v \in Busy' : job'[v].snap = job[v].snap /\ v \in Busy
    BY <1>2 DEF Busy
  <2>2. items' = items /\ None \notin Snapshot
    BY <1>1, DiskAssumption DEF vars
  <2>3. AllFit
    BY DEF DInv
  <2>4. /\ tmpFile' \in Snapshot => FitAll(tmpFile')
        /\ stateFile' \in Snapshot => FitAll(stateFile')
    BY <1>5, <2>2, <2>3 DEF AllFit
  <2>5. \A v \in Busy' : FitAll(job'[v].snap)
    BY <2>1, <2>3 DEF AllFit
  <2> QED
    BY <2>2, <2>3, <2>4, <2>5 DEF AllFit, FitAll
<1>8. ASSUME InOrder PROVE InOrder'
  <2>1. tmpFile = job[w].snap /\ job[w].snap \in Snapshot
    BY <1>1, <1>8, JobTypes DEF InOrder, WriteSound
  <2>2. tmpFile # None
    BY <2>1, DiskAssumption
  <2>3. Busy' = {}
    BY <1>1, <1>2, <1>8 DEF InOrder, Busy
  <2>4. /\ stateFile' = job[w].snap
        /\ promised' = [id \in Ids |-> IF Alive(job[w].snap[id]) THEN "kept" ELSE "gone"]
    BY <2>1, <2>2 DEF Move
  <2> QED
    BY <1>1, <1>4, <1>8, <2>1, <2>3, <2>4, MovedInOrder
<1> QED
  BY <1>1, <1>4, <1>6, <1>7, <1>8 DEF DInv

(* What the queue forgets more may grow by one. *)
LEMMA LeftInOrder ==
  ASSUME DInv, InOrder, Busy' = {}, Forgotten' = Forgotten + 1,
         UNCHANGED <<stateFile, promised, taken>>, up' => up,
         up' => items' = items,
         ~up' => \A id \in Ids : items'[id] = None
  PROVE  InOrder'
<1>1. Forgotten \in Nat /\ taken \in [Ids -> Nat] /\ items \in [Ids -> Item \cup {None}]
  BY DiskAssumption DEF DInv, TypeOKDurable, TypeOK, Forgotten
<1>2. ASSUME NEW id \in Ids PROVE ItemSound(id)' /\ FileSound(id)' /\ MemoryKept(id)'
  <2>1. ItemSound(id) /\ FileSound(id) /\ MemoryKept(id) /\ Loaded(id)' = Loaded(id)
    BY DEF InOrder, Loaded, Unreadable
  <2>2. /\ Present(id) => Told(items[id]) \in Nat
        /\ Loaded(id) # None => Told(Loaded(id)) \in Nat
    <3>1. Loaded(id) # None => Loaded(id) \in Item
      BY DEF Loaded, Unreadable, DInv, TypeOKDurable, Content, Snapshot
    <3> QED
      BY <1>1, <3>1, ItemTypes DEF Present
  <2>3. ItemSound(id)'
    BY <1>1, <2>1, <2>2 DEF ItemSound, Present
  <2>4. FileSound(id)'
    <3>1. Loaded(id) # None => taken[id] <= Told(Loaded(id)) + (Forgotten + 1)
      BY <1>1, <2>1, <2>2 DEF FileSound
    <3>2. Loaded(id) # None =>
            taken[id] <= Told(Loaded(id)) + (Forgotten + 1)
                           + (IF up' /\ ~Settled(id)' THEN 1 ELSE 0)
      BY <1>1, <2>2, <3>1
    <3> QED
      BY <2>1, <3>2 DEF FileSound
  <2>5. MemoryKept(id)'
    BY <2>1 DEF MemoryKept
  <2> QED
    BY <2>3, <2>4, <2>5
<1> QED
  BY <1>2 DEF InOrder

LEMMA ErrorDurably ==
  ASSUME DInv, NEW w \in Writers, DiskError(w)
  PROVE  DInv'
<1>1. /\ w \in Busy /\ errors' = errors + 1 /\ errors' \in 0..MaxErrors
      /\ job' = [job EXCEPT ![w] = None] /\ job \in [Writers -> Job \cup {None}]
      /\ UNCHANGED <<vars, tmpFile, stateFile, overlapped, promised, up, crashes>>
  BY DiskAssumption DEF DiskError, DInv, TypeOKDurable
<1>2. /\ job' \in [Writers -> Job \cup {None}]
      /\ \A v \in Writers : job'[v] = IF v = w THEN None ELSE job[v]
  BY <1>1
<1>3. QueueSound' /\ Resting' /\ up
  BY <1>1, <1>2, WriterKept
<1>4. TypeOKDurable'
  BY <1>1, <1>2, <1>3 DEF DInv, TypeOKDurable, QueueSound
<1>5. items' = items /\ taken' = taken
  BY <1>1 DEF vars
<1>6. AllFit'
  BY <1>1, <1>2, <1>5 DEF DInv, AllFit, FitAll, Busy
<1>7. ASSUME InOrder PROVE InOrder'
  <2>1. Busy' = {}
    BY <1>1, <1>2, <1>7 DEF InOrder, Busy
  <2>2. Forgotten' = Forgotten + 1
    BY <1>1, DiskAssumption DEF Forgotten, DInv, TypeOKDurable
  <2> QED
    BY <1>1, <1>3, <1>5, <1>7, <2>1, <2>2, LeftInOrder
<1> QED
  BY <1>1, <1>3, <1>4, <1>6, <1>7 DEF DInv

-----------------------------------------------------------------------------
(* The process dies, and another loads the file. *)

LEMMA CrashDurably == DInv /\ Crash => DInv'
<1> SUFFICES ASSUME DInv, Crash PROVE DInv'
  OBVIOUS
<1>1. /\ up' = FALSE /\ crashes' = crashes + 1 /\ crashes' \in 0..MaxCrashes
      /\ items' = [id \in Ids |-> None] /\ queue' = {} /\ dueEntries' = {}
      /\ loop' = "off" /\ child' = [id \in Ids |-> "none"]
      /\ job' = [w \in Writers |-> None]
      /\ UNCHANGED <<taken, interrupted, calls, stops, tmpFile, stateFile, overlapped,
                     promised, errors>>
  BY DiskAssumption DEF Crash, DInv, TypeOKDurable
<1>2. Busy' = {} /\ LoopJobs' = {}
  BY <1>1 DEF Busy, LoopJobs
<1>3. TypeOK'
  BY <1>1 DEF DInv, TypeOKDurable, TypeOK
<1>4. QueueSound'
  BY <1>1, <1>3 DEF QueueSound, WaitingIsScheduled, RetryingIsHandled, Has, Present
<1>5. TypeOKDurable'
  BY <1>1, <1>3 DEF DInv, TypeOKDurable
<1>6. AllFit'
  BY <1>1, <1>2 DEF DInv, AllFit, FitAll
<1>7. Resting'
  BY <1>1, <1>2 DEF Resting
<1>8. ASSUME InOrder PROVE InOrder'
  <2>1. Forgotten' = Forgotten + 1
    BY <1>1, DiskAssumption DEF Forgotten, DInv, TypeOKDurable
  <2> QED
    BY <1>1, <1>2, <1>8, <2>1, LeftInOrder
<1> QED
  BY <1>1, <1>4, <1>5, <1>6, <1>7, <1>8 DEF DInv

LEMMA RestartDurably == DInv /\ Restart => DInv'
<1> SUFFICES ASSUME DInv, Restart PROVE DInv'
  OBVIOUS
<1>1. /\ ~up /\ up' = TRUE
      /\ items' = [id \in Ids |-> Loaded(id)]
      /\ queue' = {<<Loaded(id).time, id>> : id \in {d \in Ids : Loaded(d) # None}}
      /\ interrupted' = interrupted \cup
           {id \in Ids : Loaded(id) # None /\ Loaded(id).status = "retrying"}
      /\ UNCHANGED <<dueEntries, loop, child, taken, calls, stops, crashes, errors,
                     job, tmpFile, stateFile, overlapped, promised>>
  BY DEF Restart, diskVars
<1>2. /\ Busy = {} /\ Busy' = {} /\ LoopJobs' = {} /\ loop = "off" /\ dueEntries = {}
      /\ \A id \in Ids : child[id] = "none"
  BY <1>1 DEF DInv, Resting, Busy, LoopJobs
<1>3. \A id \in Ids : Loaded(id) # None =>
        /\ Loaded(id) \in Item /\ Alive(Loaded(id)) /\ Fit(Loaded(id))
        /\ Loaded(id).time \in Times
  <2> SUFFICES ASSUME NEW id \in Ids, Loaded(id) # None
               PROVE  Loaded(id) \in Item /\ Alive(Loaded(id)) /\ Fit(Loaded(id))
    BY ItemTypes
  <2>1. /\ stateFile \in Snapshot /\ Loaded(id) = stateFile[id] /\ Alive(stateFile[id])
    BY DEF Loaded, Unreadable, DInv, TypeOKDurable, Content
  <2>2. FitAll(stateFile)
    BY <2>1 DEF DInv, AllFit
  <2> QED
    BY <2>1, <2>2 DEF Snapshot, Alive, FitAll
<1>4. \A id \in Ids : items'[id] = Loaded(id) /\ Loaded(id)' = Loaded(id)
  BY <1>1 DEF Loaded, Unreadable
<1>5. TypeOK'
  <2>1. items' \in [Ids -> Item \cup {None}] /\ queue' \in SUBSET (Times \X Ids)
    BY <1>1, <1>3
  <2> QED
    BY <1>1, <1>2, <2>1 DEF DInv, TypeOKDurable, TypeOK
<1>6. QueueSound'
  <2>1. WaitingIsScheduled'
    BY <1>1, <1>4 DEF WaitingIsScheduled, Has, Present
  <2>2. RetryingIsHandled'
    BY <1>1, <1>4 DEF RetryingIsHandled, Has, Present
  <2> QED
    BY <1>5, <2>1, <2>2 DEF QueueSound
<1>7. TypeOKDurable'
  BY <1>1, <1>5 DEF DInv, TypeOKDurable
<1>8. AllFit'
  <2>1. FitAll(items)'
    BY <1>3, <1>4 DEF FitAll
  <2> QED
    BY <1>1, <1>2, <2>1 DEF DInv, AllFit, FitAll
<1>9. Resting'
  BY <1>1, <1>2 DEF Resting
<1>10. ASSUME InOrder PROVE InOrder'
  <2>1. Forgotten \in Nat /\ Forgotten' = Forgotten /\ taken \in [Ids -> Nat]
    BY <1>1, DiskAssumption DEF DInv, TypeOKDurable, TypeOK, Forgotten
  <2>2. ASSUME NEW id \in Ids PROVE ItemSound(id)' /\ FileSound(id)' /\ MemoryKept(id)'
    <3>1. FileSound(id)
      BY <1>10 DEF InOrder
    <3>2. Loaded(id) # None => taken[id] <= Told(Loaded(id)) + Forgotten
                                 /\ Told(Loaded(id)) \in Nat
      BY <1>1, <1>3, <2>1, <3>1, ItemTypes DEF FileSound
    <3>3. ItemSound(id)'
      BY <1>1, <1>4, <2>1, <3>2 DEF ItemSound, Present
    <3>4. FileSound(id)'
      BY <1>1, <1>4, <2>1, <3>1, <3>2 DEF FileSound
    <3>5. MemoryKept(id)'
      BY <1>1, <1>3, <1>4, <3>1 DEF MemoryKept, FileSound, Alive
    <3> QED
      BY <3>3, <3>4, <3>5
  <2> QED
    BY <1>1, <1>2, <1>10, <2>2 DEF InOrder
<1> QED
  BY <1>1, <1>6, <1>7, <1>8, <1>9, <1>10 DEF DInv

-----------------------------------------------------------------------------
LEMMA InitDInv == InitDurable => DInv
<1> SUFFICES ASSUME InitDurable PROVE DInv
  OBVIOUS
<1>1. IInv
  BY InitIInv DEF InitDurable
<1>2. TypeOK /\ QueueSound
  BY <1>1 DEF IInv, QueueSound
<1>3. TypeOKDurable
  <2>1. /\ up = TRUE /\ overlapped = FALSE /\ tmpFile = None /\ stateFile = None
        /\ promised \in [Ids -> {"nothing", "kept", "gone"}]
    BY DEF InitDurable
  <2>2. job \in [Writers -> Job \cup {None}]
    BY DEF InitDurable
  <2>3. crashes \in 0..MaxCrashes /\ errors \in 0..MaxErrors
    BY DiskAssumption DEF InitDurable
  <2> QED
    BY <1>2, <2>1, <2>2, <2>3 DEF TypeOKDurable
<1>4. /\ Busy = {} /\ LoopJobs = {}
      /\ \A id \in Ids : items[id] = None /\ child[id] = "none" /\ Loaded(id) = None
  BY DEF InitDurable, Init, Busy, LoopJobs, Loaded, Unreadable
<1>5. AllFit
  BY <1>4, DiskAssumption DEF InitDurable, AllFit, FitAll
<1>6. Resting
  BY <1>4 DEF InitDurable, Resting
<1>7. InOrder
  BY <1>4 DEF InitDurable, InOrder, ItemSound, FileSound, MemoryKept, Present
<1> QED
  BY <1>2, <1>3, <1>5, <1>6, <1>7 DEF DInv

LEMMA NextDurably == DInv /\ [NextDurable]_allVars => DInv'
<1> SUFFICES ASSUME DInv, [NextDurable]_allVars PROVE DInv'
  OBVIOUS
<1>1. CASE DurableCall
  BY <1>1, CallDurably
<1>2. CASE DurableLoop
  BY <1>2, TakeDurably, OtherDurably DEF DurableLoop
<1>3. CASE DurableEnd \/ \E id \in Ids : DurableBegin(id)
  BY <1>3, OtherDurably
<1>4. CASE DurableStop
  BY <1>4, StopDurably
<1>5. CASE \E id \in Ids : DurableOutcome(id)
  BY <1>5, OutcomeDurably
<1>6. CASE \E w \in Writers : OpenTmp(w) \/ Dump(w) \/ Move(w) \/ DiskError(w)
  BY <1>6, OpenDurably, DumpDurably, MoveDurably, ErrorDurably
<1>7. CASE Crash \/ Restart
  BY <1>7, CrashDurably, RestartDurably
<1>8. CASE UNCHANGED allVars
  BY <1>8, OtherDurably
<1> QED
  BY <1>1, <1>2, <1>3, <1>4, <1>5, <1>6, <1>7, <1>8 DEF NextDurable

(* The inductive invariant holds in every run, with any crashes and failed writes. *)
THEOREM DurableInvariantHolds == SpecDurable => []DInv
<1>1. InitDurable => DInv
  BY InitDInv
<1>2. DInv /\ [NextDurable]_allVars => DInv'
  BY NextDurably
<1> QED
  BY <1>1, <1>2, PTL DEF SpecDurable

(* Queue, threads and files keep their types, overlapping writes included: what
   the threads leave in the files is nothing but a copy, empty or torn.      *)
THEOREM DurableTypes == SpecDurable => []TypeOKDurable
<1>1. DInv => TypeOKDurable
  BY DEF DInv
<1> QED
  BY <1>1, DurableInvariantHolds, PTL

(* The temporary file and its rename keep the state file readable at every
   instant, failed writes and crashes included, until two writes overlap.    *)
THEOREM FileStaysWhole == SpecDurable => []WholeUnlessOverlapped
<1>1. DInv => WholeUnlessOverlapped
  BY DiskAssumption DEF DInv, InOrder, WholeUnlessOverlapped, StateFileWhole
<1> QED
  BY <1>1, DurableInvariantHolds, PTL

(* Unless two writes overlap, what a call wrote down before it returned is not
   lost: an item stays until it is delivered or given up, and one that was
   removed stays away, whatever crashes and restarts there are.              *)
THEOREM PromisesAreKept == SpecDurable => []PromiseKept
<1>1. DInv => PromiseKept
  BY DEF DInv, InOrder, MemoryKept, PromiseKept
<1> QED
  BY <1>1, DurableInvariantHolds, PTL

(* Unless two writes overlap, an item is tried at most max_attempts times and once
   more for each crash and each write that failed.                           *)
THEOREM RestartsCostATry == SpecDurable => []TriesAcrossRestarts
<1>1. DInv => TriesAcrossRestarts
  <2> SUFFICES ASSUME DInv, ~overlapped, NEW id \in Ids, Present(id)
               PROVE  taken[id] <= MaxAttempts + crashes + errors
    BY DEF TriesAcrossRestarts
  <2>1. taken[id] <= Told(items[id]) + Forgotten
    BY DEF DInv, InOrder, ItemSound
  <2>2. items[id] \in Item /\ Fit(items[id])
    BY DEF DInv, TypeOKDurable, TypeOK, AllFit, FitAll, Present
  <2>3. Told(items[id]) \in Nat /\ Told(items[id]) <= MaxAttempts
    BY <2>2, ItemTypes
  <2>4. /\ taken[id] \in Nat /\ crashes \in Nat /\ errors \in Nat /\ MaxAttempts \in Nat
    BY QueueAssumption, DiskAssumption DEF DInv, TypeOKDurable, TypeOK
  <2> QED
    BY <2>1, <2>3, <2>4 DEF Forgotten
<1> QED
  BY <1>1, DurableInvariantHolds, PTL

(* A queue that has loaded its file has every waiting item in the heap again. *)
THEOREM DurableItemsScheduled == SpecDurable => []WaitingIsScheduled
<1>1. DInv => WaitingIsScheduled
  BY DEF DInv, QueueSound
<1> QED
  BY <1>1, DurableInvariantHolds, PTL

(* Also with a file, an item is RETRYING only while a task will mark it, unless a
   stop cancelled that task or the item was loaded in this state.            *)
THEOREM DurableRetriesAreMarked == SpecDurable => []RetryingIsHandled
<1>1. DInv => RetryingIsHandled
  BY DEF DInv, QueueSound
<1> QED
  BY <1>1, DurableInvariantHolds, PTL
=============================================================================

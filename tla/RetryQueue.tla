-------------------------------- MODULE RetryQueue --------------------------------
(***************************************************************************)
(* RetryQueue (src/src/msmtp/retry_queue.py) as the sender sets it up: with *)
(* a handler and without a persist_path.                                   *)
(*                                                                         *)
(* No `async with self._lock` block awaits anything, and without a path    *)
(* _persist_state returns at once; so add, get_ready, mark_success and     *)
(* mark_failed (which ends in add) are each one step, and what interleaves *)
(* with them are the process loop, the items it handles and the callers.   *)
(*                                                                         *)
(* Time.  Of a timestamp the code asks only whether it has passed and      *)
(* whether it is still the item's next_retry_at.  Here a timestamp is a    *)
(* value of Times, new whenever one is calculated, and dueEntries are the  *)
(* heap entries whose time has passed.  Jitter lets them pass in any order.*)
(***************************************************************************)
EXTENDS Naturals, FiniteSets

CONSTANTS
  Ids,          \* the ids callers use
  Times,        \* timestamps; enough of them for each calculation to find a new one
  MaxAttempts,  \* config.max_attempts
  Concurrency,  \* config.concurrency
  MaxCalls,     \* bound: calls of add, mark_success and mark_failed from outside
  MaxStops,     \* bound: how often the queue is stopped
  None          \* Python's None

ASSUME QueueAssumption ==
  /\ MaxAttempts \in Nat \ {0}
  /\ Concurrency \in Nat
  /\ MaxCalls \in Nat
  /\ MaxStops \in Nat
  /\ None \notin [attempt : 0..MaxAttempts, time : Times,
                  status : {"pending", "retrying", "failed", "exhausted"}]

VARIABLES
  items,        \* items[id]: _items.get(id)
  queue,        \* _queue: pairs of a time and an id
  dueEntries,   \* those of them whose time has passed
  loop,         \* the process loop: "off", "sleeping" or gathering a "batch"
  child,        \* child[id]: the process_item of this batch for id
  taken,        \* history: times get_ready handed out the item id stands for
  interrupted,  \* history: ids whose process_item a stop cancelled
  calls, stops  \* calls and stops so far

vars == <<items, queue, dueEntries, loop, child, taken, interrupted, calls, stops>>
loopVars == <<dueEntries, loop, child, interrupted, stops>>

(* attempt stops growing at MaxAttempts, with which alone it is compared.
   SUCCESS is never the status of an item in _items.                        *)
Item == [attempt : 0..MaxAttempts, time : Times,
         status : {"pending", "retrying", "failed", "exhausted"}]

TypeOK ==
  /\ items \in [Ids -> Item \cup {None}]
  /\ queue \in SUBSET (Times \X Ids)
  /\ dueEntries \in SUBSET queue
  /\ loop \in {"off", "sleeping", "batch"}
  /\ child \in [Ids -> {"none", "waiting", "handling"}]
  /\ taken \in [Ids -> Nat]
  /\ interrupted \in SUBSET Ids
  /\ calls \in 0..MaxCalls
  /\ stops \in 0..MaxStops

Init ==
  /\ items = [id \in Ids |-> None]
  /\ queue = {}
  /\ dueEntries = {}
  /\ loop = "off"
  /\ child = [id \in Ids |-> "none"]
  /\ taken = [id \in Ids |-> 0]
  /\ interrupted = {}
  /\ calls = 0
  /\ stops = 0

-----------------------------------------------------------------------------
(* The methods, as they change items, queue and taken. *)

NewTimes(id) == {t \in Times : <<t, id>> \notin queue}

AddNew(id) ==
  \E t \in NewTimes(id) :
    /\ items' = [items EXCEPT ![id] = [attempt |-> 0, time |-> t, status |-> "pending"]]
    /\ queue' = queue \cup {<<t, id>>}
    /\ taken' = [taken EXCEPT ![id] = 0]

OneMoreForgotten(item) == item    \* mutation: attempt is not raised

OneMore(item) ==
  [item EXCEPT !.attempt = IF @ < MaxAttempts THEN @ + 1 ELSE @]

ExhaustedBeyond(item) == item.attempt > MaxAttempts       \* mutation: >

Exhausted(item) == item.attempt >= MaxAttempts

RescheduleUnpushed(id, item) ==  \* mutation: the new time is not pushed
  \E t \in NewTimes(id) :
    /\ items' = [items EXCEPT ![id] = [item EXCEPT !.time = t]]
    /\ UNCHANGED queue

Reschedule(id, item) ==
  \E t \in NewTimes(id) :
    /\ items' = [items EXCEPT ![id] = [item EXCEPT !.time = t]]
    /\ queue' = queue \cup {<<t, id>>}

(* add of an id that is in _items; the status of an item that is scheduled
   again is left as it was.                                                 *)
AddAgain(id, item) ==
  /\ IF Exhausted(OneMore(item))
     THEN /\ items' = [items EXCEPT ![id] = [OneMore(item) EXCEPT !.status = "exhausted"]]
          /\ UNCHANGED queue
     ELSE Reschedule(id, OneMore(item))
  /\ UNCHANGED taken

Add(id) == IF items[id] = None THEN AddNew(id) ELSE AddAgain(id, items[id])

MarkSuccessKeeping(id) ==        \* mutation: the item is not deleted
  /\ items[id] # None
  /\ items' = [items EXCEPT ![id].status = "success"]
  /\ UNCHANGED <<queue, taken>>

(* The heap entry of a deleted item stays. *)
MarkSuccess(id) ==
  /\ items' = [items EXCEPT ![id] = None]
  /\ UNCHANGED <<queue, taken>>

MarkFailedAsItIs(id) ==          \* mutation: status stays RETRYING
  IF items[id] = None
  THEN UNCHANGED <<items, queue, taken>>
  ELSE AddAgain(id, items[id])

MarkFailed(id) ==
  IF items[id] = None
  THEN UNCHANGED <<items, queue, taken>>
  ELSE AddAgain(id, [items[id] EXCEPT !.status = "failed"])

CurrentAnyTime(entry) ==         \* mutation: stale entries are not recognised
  LET item == items[entry[2]]
  IN  item # None /\ item.status \notin {"exhausted", "retrying"}

CurrentThoughExhausted(entry) == \* mutation: EXHAUSTED is not looked at
  LET item == items[entry[2]]
  IN  item # None /\ item.time = entry[1] /\ item.status # "retrying"

(* get_ready hands out the item of an entry it pops, or skips the entry. *)
Current(entry) ==
  LET item == items[entry[2]]
  IN  /\ item # None
      /\ item.time = entry[1]
      /\ item.status \notin {"exhausted", "retrying"}

Ready == {entry[2] : entry \in {e \in dueEntries : Current(e)}}

GetReady ==
  /\ queue' = queue \ dueEntries
  /\ dueEntries' = {}
  /\ items' = [id \in Ids |-> IF id \in Ready
                              THEN [items[id] EXCEPT !.status = "retrying"]
                              ELSE items[id]]
  /\ taken' = [id \in Ids |-> IF id \in Ready THEN taken[id] + 1 ELSE taken[id]]

-----------------------------------------------------------------------------
(* Callers: the sender adds what it could not send; the methods are public, so
   others may add an id again, or mark it, at any time.                     *)

Call ==
  /\ calls < MaxCalls
  /\ calls' = calls + 1
  /\ \E id \in Ids : Add(id) \/ MarkSuccess(id) \/ MarkFailed(id)
  /\ UNCHANGED loopVars

ComeDue(entry) ==
  /\ entry \in queue \ dueEntries
  /\ dueEntries' = dueEntries \cup {entry}
  /\ UNCHANGED <<items, queue, loop, child, taken, interrupted, calls, stops>>

-----------------------------------------------------------------------------
(* The process loop, and the process_item tasks it gathers. *)

Start ==
  /\ loop = "off"
  /\ loop' = "sleeping"
  /\ UNCHANGED <<items, queue, dueEntries, child, taken, interrupted, calls, stops>>

TakeBatch ==
  /\ loop = "sleeping"
  /\ dueEntries # {}
  /\ GetReady
  /\ loop' = IF Ready = {} THEN "sleeping" ELSE "batch"
  /\ child' = [id \in Ids |-> IF id \in Ready THEN "waiting" ELSE child[id]]
  /\ UNCHANGED <<interrupted, calls, stops>>

SlotsUnguarded == Concurrency    \* mutation: no max(1, ...)

Slots == IF Concurrency > 1 THEN Concurrency ELSE 1

Handling == {id \in Ids : child[id] = "handling"}

BeginHandling(id) ==
  /\ child[id] = "waiting"
  /\ Cardinality(Handling) < Slots
  /\ child' = [child EXCEPT ![id] = "handling"]
  /\ UNCHANGED <<items, queue, dueEntries, loop, taken, interrupted, calls, stops>>

(* The handler returned True. *)
Delivered(id) ==
  /\ child[id] = "handling"
  /\ MarkSuccess(id)
  /\ child' = [child EXCEPT ![id] = "none"]
  /\ UNCHANGED <<dueEntries, loop, interrupted, calls, stops>>

(* It returned False or raised. *)
NotDelivered(id) ==
  /\ child[id] = "handling"
  /\ MarkFailed(id)
  /\ child' = [child EXCEPT ![id] = "none"]
  /\ UNCHANGED <<dueEntries, loop, interrupted, calls, stops>>

EndBatch ==
  /\ loop = "batch"
  /\ \A id \in Ids : child[id] = "none"
  /\ loop' = "sleeping"
  /\ UNCHANGED <<items, queue, dueEntries, child, taken, interrupted, calls, stops>>

(* stop cancels the loop and with it every process_item.  CancelledError is no
   Exception: a cancelled process_item marks nothing.                       *)
Stop ==
  /\ loop # "off"
  /\ stops < MaxStops
  /\ stops' = stops + 1
  /\ loop' = "off"
  /\ interrupted' = interrupted \cup {id \in Ids : child[id] # "none"}
  /\ child' = [id \in Ids |-> "none"]
  /\ UNCHANGED <<items, queue, dueEntries, taken, calls>>

Next ==
  \/ Call
  \/ \E entry \in queue : ComeDue(entry)
  \/ Start \/ TakeBatch \/ EndBatch \/ Stop
  \/ \E id \in Ids : BeginHandling(id) \/ Delivered(id) \/ NotDelivered(id)

Spec == Init /\ [][Next]_vars

(* Time passes; the loop and its tasks are scheduled; a handler ends, one way
   or the other.  Nobody has to call, to start or to stop.                  *)
Fairness ==
  /\ \A entry \in Times \X Ids : WF_vars(ComeDue(entry))
  /\ WF_vars(TakeBatch) /\ WF_vars(EndBatch)
  /\ \A id \in Ids : /\ WF_vars(BeginHandling(id))
                     /\ WF_vars(Delivered(id) \/ NotDelivered(id))

FairSpec == Spec /\ Fairness

-----------------------------------------------------------------------------
Present(id) == items[id] # None
Has(id, status) == Present(id) /\ items[id].status = status

(* An item that waits for a retry has its time in the heap, however often it
   was scheduled anew, deleted and added again: without that entry
   get_ready would never see it.                                            *)
WaitingIsScheduled ==
  \A id \in Ids : Has(id, "pending") \/ Has(id, "failed") =>
                    <<items[id].time, id>> \in queue

(* RETRYING means that a task will mark the item, unless a stop cancelled it.
   (get_ready skips items that are RETRYING, so one that is not marked is
   never retried.)                                                          *)
RetryingIsHandled ==
  \A id \in Ids : Has(id, "retrying") => child[id] # "none" \/ id \in interrupted

(* An item is tried max_attempts times at most, add and mark_failed of other
   callers in between included.                                             *)
TakenWithinLimit == \A id \in Ids : Present(id) => taken[id] <= MaxAttempts

(* Why: each try is preceded by a schedule of its own, and each schedule after
   the first by one more attempt.                                           *)
AttemptsCounted ==
  \A id \in Ids : Present(id) =>
    /\ Has(id, "exhausted") <=> items[id].attempt >= MaxAttempts
    /\ taken[id] <= items[id].attempt + (IF Has(id, "retrying") THEN 1 ELSE 0)

(* The inductive invariant of the proofs. *)
IInv == TypeOK /\ WaitingIsScheduled /\ RetryingIsHandled /\ AttemptsCounted

(* An item is not retried before its current time: the entries that a new
   schedule made stale do not count.                                        *)
RetriedWhenDue ==
  [][\A id \in Ids :
       child[id] = "none" /\ child'[id] # "none" =>
         <<items[id].time, id>> \in dueEntries]_vars

(* An item that is given up stays given up, whatever entries it left behind
   in the heap and whoever still marks it as failed.                        *)
GivenUpForGood ==
  [][\A id \in Ids : Has(id, "exhausted") =>
       items'[id] = None \/ items'[id].status = "exhausted"]_vars

(* While the loop runs on, every item is delivered or given up in the end, if
   no stop interrupted it.                                                  *)
Settles ==
  <>[](loop # "off") =>
    \A id \in Ids :
      Present(id) ~> ~Present(id) \/ Has(id, "exhausted") \/ id \in interrupted

(* The queue seen from outside. *)
Status(id) ==
  CASE items[id] = None    -> "absent"
    [] Has(id, "exhausted") -> "givenUp"
    [] Has(id, "retrying")  -> IF child[id] = "none" THEN "lost" ELSE "taken"
    [] OTHER                -> "waiting"

Promise == INSTANCE RetryItems WITH item  <- [id \in Ids |-> Status(id)],
                                    tries <- taken

(* The queue keeps the promise of RetryItems, on which the sender relies: with
   stale heap entries, restarts and callers that add or mark an id while it is
   handled, an item still goes only from waiting to taken, within
   max_attempts, and from there back, out, or to being given up.            *)
RetriesAsPromised == Promise!Spec
=============================================================================

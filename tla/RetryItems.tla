-------------------------------- MODULE RetryItems --------------------------------
(***************************************************************************)
(* What the retry queue (src/src/msmtp/retry_queue.py) promises to whoever *)
(* uses it, without its heap, its times and its tasks: an item that is     *)
(* added waits, is taken for one of at most MaxAttempts tries, and after   *)
(* each failed one waits again or is given up.                             *)
(*                                                                         *)
(* RetryQueue is shown to implement this module; Sender is built on it.    *)
(***************************************************************************)
EXTENDS Naturals

CONSTANTS
  Ids,
  MaxAttempts

VARIABLES
  item,     \* item[id]: "absent", "waiting", "taken" by a handler, "lost" (its
            \* handler was cancelled) or "givenUp"
  tries     \* tries[id]: how often the item was taken since it was added

Init ==
  /\ item = [id \in Ids |-> "absent"]
  /\ tries = [id \in Ids |-> 0]

Add(id) ==
  /\ item[id] = "absent"
  /\ item' = [item EXCEPT ![id] = "waiting"]
  /\ tries' = [tries EXCEPT ![id] = 0]

(* The loop takes what is due, one batch at a time. *)
Take(S) ==
  /\ S # {}
  /\ \A id \in S : item[id] = "waiting" /\ tries[id] < MaxAttempts
  /\ item' = [id \in Ids |-> IF id \in S THEN "taken" ELSE item[id]]
  /\ tries' = [id \in Ids |-> IF id \in S THEN tries[id] + 1 ELSE tries[id]]

(* It was delivered, or somebody else marks it so. *)
Settle(id) ==
  /\ item[id] # "absent"
  /\ item' = [item EXCEPT ![id] = "absent"]
  /\ UNCHANGED tries

(* A try failed, or somebody adds or marks the item in between. *)
Fail(id) ==
  /\ item[id] \in {"waiting", "taken", "lost"}
  /\ \/ tries[id] < MaxAttempts /\ item' = [item EXCEPT ![id] = "waiting"]
     \/ item' = [item EXCEPT ![id] = "givenUp"]
  /\ UNCHANGED tries

(* The loop is stopped in the middle of its batch. *)
Stop ==
  /\ item' = [id \in Ids |-> IF item[id] = "taken" THEN "lost" ELSE item[id]]
  /\ UNCHANGED tries

Next ==
  \/ \E id \in Ids : Add(id) \/ Settle(id) \/ Fail(id)
  \/ \E S \in SUBSET Ids : Take(S)
  \/ Stop

vars == <<item, tries>>

Spec == Init /\ [][Next]_vars
=============================================================================

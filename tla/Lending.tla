---------------------------------- MODULE Lending ----------------------------------
(***************************************************************************)
(* What the connection pool (src/src/msmtp/connection_pool.py) promises to *)
(* its clients, without its lists and counters: a connection is lent to    *)
(* one client at a time, and a client is refused one only while enough     *)
(* others are at work.  A cancelled task may cost the pool a slot for good.*)
(*                                                                         *)
(* ConnectionPool is shown to implement this module.                       *)
(***************************************************************************)
EXTENDS Naturals, FiniteSets

CONSTANTS
  Clients,
  Conns,
  MaxConnections,
  None

VARIABLES
  stage,    \* stage[c]: "idle", "refused", "asking", "using" or "discarding"
  lent,     \* lent[c]: the connection c has, or None
  cancels   \* cancelled tasks

vars == <<stage, lent, cancels>>

Init ==
  /\ stage = [c \in Clients |-> "idle"]
  /\ lent = [c \in Clients |-> None]
  /\ cancels = 0

Move(c, where, k) ==
  /\ stage' = [stage EXCEPT ![c] = where]
  /\ lent' = [lent EXCEPT ![c] = k]

Unlent(c) == {k \in Conns : \A d \in Clients \ {c} : lent[d] # k}

AtWork == {c \in Clients : stage[c] \in {"asking", "using"}}

Outside(c) == stage[c] \in {"idle", "refused", "discarding"}

(* c is given a pooled connection to check, or a slot to make one in. *)
Ask(c) ==
  /\ Outside(c)
  /\ \E k \in Unlent(c) \cup {None} : Move(c, "asking", k)
  /\ UNCHANGED cancels

Refuse(c) ==
  /\ Outside(c)
  /\ Cardinality(AtWork \ {c}) + cancels >= MaxConnections
  /\ Move(c, "refused", None)
  /\ UNCHANGED cancels

Serve(c) ==
  /\ stage[c] = "asking"
  /\ IF lent[c] = None THEN \E k \in Unlent(c) : Move(c, "using", k)
                       ELSE Move(c, "using", lent[c])
  /\ UNCHANGED cancels

GoWithout(c) ==
  /\ stage[c] = "asking" /\ lent[c] = None
  /\ Move(c, "idle", None)
  /\ UNCHANGED cancels

Discard(c) ==
  /\ stage[c] \in {"asking", "using"} /\ lent[c] # None
  /\ Move(c, "discarding", lent[c])
  /\ UNCHANGED cancels

GiveBack(c) ==
  /\ stage[c] \in {"using", "discarding"}
  /\ Move(c, "idle", None)
  /\ UNCHANGED cancels

Cancel ==
  /\ cancels' = cancels + 1
  /\ \/ UNCHANGED <<stage, lent>>
     \/ \E c \in Clients : stage[c] \in {"asking", "discarding"} /\ Move(c, "idle", None)

Next ==
  \/ \E c \in Clients : \/ Ask(c) \/ Refuse(c) \/ Serve(c) \/ GoWithout(c)
                        \/ Discard(c) \/ GiveBack(c)
  \/ Cancel

Spec == Init /\ [][Next]_vars
=============================================================================

------------------------------ MODULE ConnectionPool ------------------------------
(***************************************************************************)
(* SMTPConnectionPool (src/src/msmtp/connection_pool.py) and the clients   *)
(* that take connections from it, each with `async with                    *)
(* AsyncConnectionPool(pool)`.                                             *)
(*                                                                         *)
(* The code runs on one asyncio thread and gives up control only where it  *)
(* awaits something that is not ready: a NOOP, a QUIT, a handshake, the    *)
(* client's own work.  pc[c] says which of these client c waits for, and   *)
(* an action is everything c does from there to its next such await.  No   *)
(* `async with self._lock` block awaits anything, so the lock is free      *)
(* whenever it is asked for and taking it does not suspend.                *)
(***************************************************************************)
EXTENDS Naturals, FiniteSets, SequencesExt

CONSTANTS
  Clients,
  Conns,            \* connection objects; see Fresh
  MaxConnections,   \* max_connections
  MaxCancels,       \* bound: how many tasks are cancelled
  None              \* Python's None

ASSUME PoolAssumption ==
  /\ IsFiniteSet(Clients)
  /\ MaxConnections \in Nat
  /\ MaxCancels \in Nat
  /\ None \notin Conns

VARIABLES
  pool,       \* _pool, a stack of idle connections
  inUse,      \* _in_use
  pending,    \* _pending_count
  closed,     \* _closed
  toClose,    \* what close_all still has to quit
  pc,         \* pc[c]: what client c waits for
  conn,       \* conn[c]: the connection c holds a reference to
  socket,     \* socket[k]; see Sockets
  cancels     \* cancellations so far

vars == <<pool, inUse, pending, closed, toClose, pc, conn, socket, cancels>>

PCs == {"idle", "refused",       \* outside acquire/release
        "checking",              \* acquire: NOOP on a pooled connection
        "evicting",              \* acquire: QUIT of one that failed it
        "connecting",            \* acquire: connect, STARTTLS, login
        "using",                 \* in the body of the `async with`
        "returning",             \* release: NOOP
        "quitting"}              \* release: QUIT

(* quit() asks the server to end the session, and closes the socket when it
   answers 221.  If it raises (another answer, a timeout), the pool swallows
   that and does not call it again, and the socket may be open still.       *)
Sockets == {"up",            \* open
            "down",          \* never opened, or dropped by the server
            "quit",          \* closed after quit() was called
            "left"}          \* open, though quit() was called

Open == {"up", "left"}

Asked == {"quit", "left"}    \* to quit

TypeOK ==
  /\ pool \in Seq(Conns)
  /\ inUse \in SUBSET Conns
  /\ pending \in Nat
  /\ closed \in BOOLEAN
  /\ toClose \in SUBSET Conns
  /\ pc \in [Clients -> PCs]
  /\ conn \in [Clients -> Conns \cup {None}]
  /\ socket \in [Conns -> Sockets]
  /\ cancels \in 0..MaxCancels

Init ==
  /\ pool = <<>>
  /\ inUse = {}
  /\ pending = 0
  /\ closed = FALSE
  /\ toClose = {}
  /\ pc = [c \in Clients |-> "idle"]
  /\ conn = [c \in Clients |-> None]
  /\ socket = [k \in Conns |-> "down"]
  /\ cancels = 0

(* A new SMTP object is any that is not open and that nobody refers to. *)
Held == {conn[c] : c \in Clients} \ {None}

Fresh == {k \in Conns : /\ socket[k] \notin Open
                        /\ k \notin ToSet(pool) \cup inUse \cup toClose \cup Held}

Goto(c, where, k) ==
  /\ pc' = [pc EXCEPT ![c] = where]
  /\ conn' = [conn EXCEPT ![c] = k]

-----------------------------------------------------------------------------
(* acquire: what is decided under the lock. *)

TakeIdleByPeeking(c) ==      \* mutation: the connection is not popped
  /\ pool # <<>>
  /\ inUse' = inUse \cup {Last(pool)}
  /\ Goto(c, "checking", Last(pool))
  /\ UNCHANGED <<pool, pending>>

TakeIdle(c) ==
  /\ pool # <<>>
  /\ pool' = Front(pool)
  /\ inUse' = inUse \cup {Last(pool)}
  /\ Goto(c, "checking", Last(pool))
  /\ UNCHANGED pending

ReserveAtOnce(c) ==          \* mutation: idle connections are not tried first
  /\ Cardinality(inUse) + pending < MaxConnections
  /\ pending' = pending + 1
  /\ Goto(c, "connecting", None)
  /\ UNCHANGED <<pool, inUse>>

Reserve(c) ==
  /\ pool = <<>>
  /\ Cardinality(inUse) + pending < MaxConnections
  /\ pending' = pending + 1
  /\ Goto(c, "connecting", None)
  /\ UNCHANGED <<pool, inUse>>

(* raise ConnectionPoolException("No connections available") *)
Refuse(c) ==
  /\ pool = <<>>
  /\ Cardinality(inUse) + pending >= MaxConnections
  /\ Goto(c, "refused", None)
  /\ UNCHANGED <<pool, inUse, pending>>

Acquire(c) == TakeIdle(c) \/ Reserve(c) \/ Refuse(c)

Begin(c) ==
  /\ pc[c] \in {"idle", "refused"}
  /\ Acquire(c)
  /\ UNCHANGED <<closed, toClose, socket, cancels>>

CheckPassed(c) ==
  /\ pc[c] = "checking"
  /\ socket[conn[c]] \in Open
  /\ Goto(c, "using", conn[c])
  /\ UNCHANGED <<pool, inUse, pending, closed, toClose, socket, cancels>>

CheckFailedKeepingSlot(c) == \* mutation: the connection stays in _in_use
  /\ pc[c] = "checking"
  /\ Goto(c, "evicting", conn[c])
  /\ UNCHANGED <<pool, inUse, pending, closed, toClose, socket, cancels>>

(* The NOOP failed or took five seconds. *)
CheckFailed(c) ==
  /\ pc[c] = "checking"
  /\ inUse' = inUse \ {conn[c]}
  /\ Goto(c, "evicting", conn[c])
  /\ UNCHANGED <<pool, pending, closed, toClose, socket, cancels>>

(* quit() of connection k returned, or raised and was ignored. *)
Quit(k) ==
  \/ socket' = [socket EXCEPT ![k] = "quit"]
  \/ socket[k] \in Open /\ socket' = [socket EXCEPT ![k] = "left"]

(* Either way acquire calls itself. *)
Evicted(c) ==
  /\ pc[c] = "evicting"
  /\ Quit(conn[c])
  /\ Acquire(c)
  /\ UNCHANGED <<closed, toClose, cancels>>

Connected(c) ==
  /\ pc[c] = "connecting"
  /\ \E k \in Fresh :
       /\ socket' = [socket EXCEPT ![k] = "up"]
       /\ inUse' = inUse \cup {k}
       /\ Goto(c, "using", k)
  /\ pending' = pending - 1
  /\ UNCHANGED <<pool, closed, toClose, cancels>>

ConnectFailedKeepingSlot(c) ==   \* mutation: the reservation is not undone
  /\ pc[c] = "connecting"
  /\ Goto(c, "idle", None)
  /\ UNCHANGED <<pool, inUse, pending, closed, toClose, socket, cancels>>

ConnectFailedTwice(c) ==         \* mutation: it is undone in a finally as well
  /\ pc[c] = "connecting"
  /\ pending' = pending - 2
  /\ Goto(c, "idle", None)
  /\ UNCHANGED <<pool, inUse, closed, toClose, socket, cancels>>

ConnectFailed(c) ==
  /\ pc[c] = "connecting"
  /\ pending' = pending - 1
  /\ Goto(c, "idle", None)
  /\ UNCHANGED <<pool, inUse, closed, toClose, socket, cancels>>

-----------------------------------------------------------------------------
(* release, from AsyncConnectionPool.__aexit__: the body of the `async with`
   ended, raised or was cancelled.                                         *)

Release(c) ==
  /\ pc[c] = "using"
  /\ inUse' = inUse \ {conn[c]}
  /\ IF conn[c] \in inUse THEN Goto(c, "returning", conn[c])
                          ELSE Goto(c, "idle", None)
  /\ UNCHANGED <<pool, pending, closed, toClose, socket, cancels>>

ReturnPassedUnguarded(c) ==      \* mutation: _closed is not looked at
  /\ pc[c] = "returning"
  /\ socket[conn[c]] \in Open
  /\ Goto(c, "idle", None)
  /\ pool' = Append(pool, conn[c])
  /\ UNCHANGED <<inUse, pending, closed, toClose, socket, cancels>>

ReturnPassedFallingThrough(c) == \* mutation: no return after the append
  /\ pc[c] = "returning"
  /\ socket[conn[c]] \in Open
  /\ Goto(c, "quitting", conn[c])
  /\ pool' = IF closed THEN pool ELSE Append(pool, conn[c])
  /\ UNCHANGED <<inUse, pending, closed, toClose, socket, cancels>>

ReturnPassed(c) ==
  /\ pc[c] = "returning"
  /\ socket[conn[c]] \in Open
  /\ IF closed THEN Goto(c, "quitting", conn[c]) /\ UNCHANGED pool
               ELSE Goto(c, "idle", None) /\ pool' = Append(pool, conn[c])
  /\ UNCHANGED <<inUse, pending, closed, toClose, socket, cancels>>

ReturnFailed(c) ==
  /\ pc[c] = "returning"
  /\ Goto(c, "quitting", conn[c])
  /\ UNCHANGED <<pool, inUse, pending, closed, toClose, socket, cancels>>

QuitDone(c) ==
  /\ pc[c] = "quitting"
  /\ Quit(conn[c])
  /\ Goto(c, "idle", None)
  /\ UNCHANGED <<pool, inUse, pending, closed, toClose, cancels>>

-----------------------------------------------------------------------------
CloseAllIdle ==                  \* mutation: lent connections are forgotten
  /\ closed' = TRUE
  /\ toClose' = toClose \cup ToSet(pool)
  /\ pool' = <<>>
  /\ inUse' = {}
  /\ UNCHANGED <<pending, pc, conn, socket, cancels>>

(* close_all may be called again while an earlier call is quitting. *)
CloseAll ==
  /\ closed' = TRUE
  /\ toClose' = toClose \cup ToSet(pool) \cup inUse
  /\ pool' = <<>>
  /\ inUse' = {}
  /\ UNCHANGED <<pending, pc, conn, socket, cancels>>

CloseNext(k) ==
  /\ k \in toClose
  /\ Quit(k)
  /\ toClose' = toClose \ {k}
  /\ UNCHANGED <<pool, inUse, pending, closed, pc, conn, cancels>>

(* The server, or the network, drops a connection. *)
Lose(k) ==
  /\ socket[k] \in Open
  /\ socket' = [socket EXCEPT ![k] = IF @ = "left" THEN "quit" ELSE "down"]
  /\ UNCHANGED <<pool, inUse, pending, closed, toClose, pc, conn, cancels>>

(* The task is cancelled while it waits in acquire or release.  CancelledError
   is no Exception, so no except clause of the pool runs.  (A client cancelled
   while it uses its connection just goes on to Release.)                   *)
Cancel(c) ==
  /\ cancels < MaxCancels
  /\ pc[c] \in {"checking", "evicting", "connecting", "returning", "quitting"}
  /\ cancels' = cancels + 1
  /\ Goto(c, "idle", None)
  /\ UNCHANGED <<pool, inUse, pending, closed, toClose, socket>>

(* The same for the task that runs close_all. *)
CancelClose ==
  /\ cancels < MaxCancels
  /\ toClose # {}
  /\ cancels' = cancels + 1
  /\ toClose' = {}
  /\ UNCHANGED <<pool, inUse, pending, closed, pc, conn, socket>>

Resume(c) ==
  \/ CheckPassed(c) \/ CheckFailed(c) \/ Evicted(c)
  \/ Connected(c) \/ ConnectFailed(c)
  \/ Release(c) \/ ReturnPassed(c) \/ ReturnFailed(c) \/ QuitDone(c)

Next ==
  \/ \E c \in Clients : Begin(c) \/ Resume(c) \/ Cancel(c)
  \/ \E k \in Conns : CloseNext(k) \/ Lose(k)
  \/ CloseAll \/ CancelClose

Spec == Init /\ [][Next]_vars

(* Every await ends: the NOOP has a timeout of its own, aiosmtplib gives every
   command and the handshake the server's timeout, and the client's work is
   one send_message.  That anyone acquires, closes or is cancelled is not
   assumed.                                                                *)
Fairness ==
  /\ \A c \in Clients : WF_vars(Resume(c))
  /\ \A k \in Conns : WF_vars(CloseNext(k))

FairSpec == Spec /\ Fairness

-----------------------------------------------------------------------------
Working(c) == pc[c] \in {"checking", "using"}    \* with a connection lent to it

Returnable(c) == Working(c) \/ pc[c] = "returning"  \* it may still be pooled

Connecting == {c \in Clients : pc[c] = "connecting"}

Idle == ToSet(pool)

(* A connection is lent to one client at a time, and an idle one to none:
   while acquire and release of other clients run between the steps of
   one, no connection is popped twice, returned twice or lent while it is
   being checked for its return.                                            *)
ExclusiveLending ==
  /\ \A c, d \in Clients : c # d /\ conn[c] # None => conn[c] # conn[d]
  /\ IsInjective(pool)
  /\ \A k \in Idle : k \notin inUse /\ \A c \in Clients : conn[c] # k

(* A shutdown that overtakes a release leaves nothing behind in the pool: the
   guard of release (connection_pool.py:190) that was put there because the
   health check may be in flight when close_all runs.                       *)
ClosedPoolIsEmpty == closed => pool = <<>>

(* A connection the pool has called quit() on, also if that failed, is not idle
   in it, and nobody works with it or is about to return it, unless it was
   close_all that took it away.                                             *)
QuitIsFinal ==
  /\ \A k \in Idle : socket[k] \notin Asked
  /\ ~closed => \A c \in Clients : Returnable(c) => socket[conn[c]] \notin Asked

(* The two counts that acquire compares with max_connections mean what they
   say: _in_use is what is lent, until close_all clears it, and
   _pending_count is at least the handshakes under way; without cancellations
   neither counts anything else, so every slot comes back.                  *)
SlotsAccounted ==
  /\ ~closed => \A c \in Clients : Working(c) => conn[c] \in inUse
  /\ Cardinality(Connecting) <= pending
  /\ cancels = 0 =>
       /\ \A k \in inUse : \E c \in Clients : Working(c) /\ conn[c] = k
       /\ pending = Cardinality(Connecting)

HoldsWhileBusy ==
  \A c \in Clients :
    conn[c] # None <=>
      pc[c] \in {"checking", "evicting", "using", "returning", "quitting"}

LeavingIsUncounted ==
  \A c \in Clients :
    pc[c] \in {"evicting", "returning", "quitting"} => conn[c] \notin inUse

ClosingIsClosed == toClose # {} => closed

(* The inductive invariant of the proofs.  Beyond the properties above it says
   which waits a client spends with a connection, that one on its way out is
   in no count (so that returning it cannot duplicate it), and that only
   close_all has connections to quit.                                       *)
IInv ==
  /\ TypeOK
  /\ ExclusiveLending
  /\ ClosedPoolIsEmpty
  /\ QuitIsFinal
  /\ SlotsAccounted
  /\ HoldsWhileBusy
  /\ LeavingIsUncounted
  /\ ClosingIsClosed

(* acquire refuses a client only if max_connections others are really at
   work, not because of connections that failed, were evicted or returned.  *)
RefusedOnlyWhenBusy ==
  [][\A c \in Clients :
       cancels = 0 /\ pc'[c] = "refused" /\ pc[c] # "refused" =>
         Cardinality({d \in Clients \ {c} :
                        pc[d] \in {"checking", "using", "connecting"}})
           >= MaxConnections]_vars

(* What bounds the connections the pool or a client still refers to is the number
   of clients, since a new one is made only when none is idle; each cancelled
   acquire may leave one more in _in_use.  (Connections that nobody refers to
   any more, because a release was cancelled or quit() raised, are not counted,
   open as they may be.)                                                    *)
OnePerClient ==
  Cardinality(Idle \cup Held \cup inUse) <= Cardinality(Clients) + cancels

(* The pool seen from outside. *)
Stage(c) ==
  CASE pc[c] \in {"checking", "connecting"} -> "asking"
    [] pc[c] \in {"evicting", "returning", "quitting"} -> "discarding"
    [] OTHER -> pc[c]

Promise == INSTANCE Lending WITH stage <- [c \in Clients |-> Stage(c)],
                                 lent  <- conn

(* The pool keeps the promise of Lending: whatever acquire, release, close_all
   and their awaits do in between, every step is one that lends exclusively, or
   refuses a client while those at work, with one slot for each cancelled
   task, make up max_connections.                                           *)
LendsAsPromised == Promise!Spec

(* "connections being created but not yet in _in_use" (connection_pool.py:119). *)
PendingIsConnecting == pending = Cardinality(Connecting)

(* Once the pool is closed quit() is called on each connection it knows of, the
   ones lent at that moment or made after it included, unless the server drops
   it first or a task is cancelled.  It need not succeed: a connection whose
   quit() raises is not tried again, and may stay open with nobody to close it. *)
ClosedAsksAllToQuit ==
  \A k \in Conns :
    (closed /\ socket[k] = "up" /\ k \in Idle \cup Held \cup inUse)
      ~> socket[k] # "up"
=============================================================================

---------------------------------- MODULE Sender ----------------------------------
(***************************************************************************)
(* AsyncSMTPSender (src/src/msmtp/sender.py): the sends of a send_bulk, the *)
(* breaker of every server, and the retry queue, whose handler is send     *)
(* again.                                                                  *)
(*                                                                         *)
(* pc[m] is the await in which the send of message m is suspended, and an  *)
(* action is everything it does from there to the next one.  The breakers  *)
(* are those of CircuitBreakerOps.  The queue is RetryItems, which         *)
(* RetryQueue implements, and of a pool a send sees what Lending promises: *)
(* it is refused only while enough others are at work with the server, or  *)
(* were cancelled there.                                                   *)
(*                                                                         *)
(* The messages are those that pass the validation of their addresses.     *)
(***************************************************************************)
EXTENDS CircuitBreakerOps

CONSTANTS
  Messages,
  Servers,
  Strategy,         \* "priority", or another that may choose any server
  Priority,         \* Priority[s]: rank by priority and, among equals, position
  Pinned,           \* Pinned[m]: servers whose from_email is the sender of m
  Faulty,           \* servers that may refuse or drop something
  MaxConnections,   \* MaxConnections[s] of the pool of s
  MaxRetries,       \* max_retries
  MaxAttempts,      \* RetryConfig.max_attempts
  BulkConcurrency,  \* concurrency of send_bulk
  RetryConcurrency, \* RetryConfig.concurrency, at least 1
  MaxCancels        \* bound: how many callers are cancelled

ASSUME SenderAssumption ==
  /\ IsFiniteSet(Messages) /\ IsFiniteSet(Servers)
  /\ Priority \in [Servers -> Nat]
  /\ Pinned \in [Messages -> SUBSET Servers]
  /\ Faulty \subseteq Servers
  /\ MaxConnections \in [Servers -> Nat \ {0}]
  /\ MaxRetries \in Nat \ {0} /\ MaxAttempts \in Nat \ {0}
  /\ BulkConcurrency \in Nat /\ RetryConcurrency \in Nat \ {0}
  /\ MaxCancels \in Nat
  /\ None \notin Servers

VARIABLES
  breaker,    \* breaker[s]: the circuit breaker of server s
  item,       \* item[m]: what the retry queue has of m
  tries,      \* tries[m]: how often it has taken it
  life,       \* "new", "open" from __aenter__ to close, "closed"
  pc,         \* pc[m]: where the send of m is
  server,     \* server[m]: the server it chose in this attempt, or None
  attempt,    \* attempt[m]: the attempt of this call of send
  outcome,    \* outcome[m]: "sent", or what raised, while it is known and not
              \* dealt with, and of the last call afterwards
  leaked,     \* leaked[s]: sends cancelled while they acquired from its pool
  cancels,    \* cancelled callers
  copies,     \* history: how often a server took m; "unsure" from when one took
              \* it and reported an error all the same
  total       \* history: attempts at m in all calls of send

Queue == INSTANCE RetryItems WITH Ids <- Messages

queueVars == <<item, tries>>
sendVars == <<pc, server, attempt, outcome>>
vars == <<breaker, queueVars, sendVars, life, leaked, cancels, copies, total>>

Outcomes == {"sent", "transient", "permanent"}

TypeOK ==
  /\ breaker \in [Servers -> Breaker]
  /\ item \in [Messages -> {"absent", "waiting", "taken", "lost", "givenUp"}]
  /\ tries \in [Messages -> 0..MaxAttempts]
  /\ life \in {"new", "open", "closed"}
  /\ pc \in [Messages -> {"unsent",      \* send was not called
                          "taken",       \* the queue's handler is about to call it
                          "limited",     \* in the rate limiter
                          "acquiring", "sending", "releasing",
                          "backoff", "returned", "cancelled"}]
  /\ server \in [Messages -> Servers \cup {None}]
  /\ attempt \in [Messages -> 0..MaxRetries]
  /\ outcome \in [Messages -> Outcomes \cup {None}]
  /\ leaked \in [Servers -> Nat]
  /\ cancels \in 0..MaxCancels
  /\ copies \in [Messages -> {"none", "one", "several", "unsure"}]
  /\ total \in [Messages -> Nat]

Init ==
  /\ breaker = [s \in Servers |-> NewBreaker]
  /\ Queue!Init
  /\ life = "new"
  /\ pc = [m \in Messages |-> "unsent"]
  /\ server = [m \in Messages |-> None]
  /\ attempt = [m \in Messages |-> 0]
  /\ outcome = [m \in Messages |-> None]
  /\ leaked = [s \in Servers |-> 0]
  /\ cancels = 0
  /\ copies = [m \in Messages |-> "none"]
  /\ total = [m \in Messages |-> 0]

-----------------------------------------------------------------------------
(* is_transient_error of what a send may catch: SMTPConnectionError, exceptions
   of the pool and those of aiosmtplib with a 4xx code or without one (all
   recipients refused, a lost connection, a timeout) are transient.         *)
Permanent == {"SMTPAuthenticationError", "code5xx"}

Class(exception) == IF exception \in Permanent THEN "permanent" ELSE "transient"

(* A send that the queue's handler called has a _queue_id. *)
FromQueue(m) == item[m] = "taken"

AtWork(m) == pc[m] \in {"limited", "acquiring", "sending", "releasing", "backoff"}

-----------------------------------------------------------------------------
(* How attempt k at m, by server s or none, ends.  The report to the breaker
   is left to the actions.  What send knows no more once it returned is reset. *)

HandsOver(m, result) ==
  /\ result = "transient"
  /\ ~FromQueue(m)
  /\ life # "new"                \* the handler is set, and stays set

Leave(m, where, result) ==
  /\ pc' = [pc EXCEPT ![m] = where]
  /\ attempt' = [attempt EXCEPT ![m] = 0]
  /\ server' = [server EXCEPT ![m] = None]
  /\ outcome' = [outcome EXCEPT ![m] = result]

ReturnUnanswered(m, result) ==   \* mutation: the handler returns None
  /\ Leave(m, "returned", result)
  /\ IF FromQueue(m) THEN Queue!Fail(m)
     ELSE IF HandsOver(m, result) THEN Queue!Add(m) ELSE UNCHANGED queueVars

ReturnYes(m, result) ==          \* mutation: the handler always returns True
  /\ Leave(m, "returned", result)
  /\ IF FromQueue(m) THEN Queue!Settle(m)
     ELSE IF HandsOver(m, result) THEN Queue!Add(m) ELSE UNCHANGED queueVars

ReturnUnmarked(m, result) ==     \* mutation: mark_failed is not called
  /\ Leave(m, "returned", result)
  /\ IF FromQueue(m)
     THEN IF result = "sent" THEN Queue!Settle(m) ELSE UNCHANGED queueVars
     ELSE IF HandsOver(m, result) THEN Queue!Add(m) ELSE UNCHANGED queueVars

ReturnAddingAnew(m, result) ==   \* mutation: _queue_id is not looked at
  /\ Leave(m, "returned", result)
  /\ IF result = "transient" /\ life # "new"
     THEN /\ item' = [item EXCEPT ![m] = "waiting"]
          /\ tries' = [tries EXCEPT ![m] = 0]
     ELSE IF result = "sent" /\ FromQueue(m) THEN Queue!Settle(m)
     ELSE UNCHANGED queueVars

(* The return of send and, in the queue, of the handler that called it. *)
Return(m, result) ==
  /\ Leave(m, "returned", result)
  /\ \/ FromQueue(m) /\ result = "sent" /\ Queue!Settle(m)
     \/ FromQueue(m) /\ result # "sent" /\ Queue!Fail(m)
     \/ HandsOver(m, result) /\ Queue!Add(m)
     \/ ~FromQueue(m) /\ ~HandsOver(m, result) /\ UNCHANGED queueVars

ExceptOnceMore(m, s, k, result) ==    \* mutation: <=
  IF result = "transient" /\ k <= MaxRetries
  THEN /\ pc' = [pc EXCEPT ![m] = "backoff"]
       /\ attempt' = [attempt EXCEPT ![m] = k]
       /\ outcome' = [outcome EXCEPT ![m] = None]
       /\ server' = [server EXCEPT ![m] = s]
       /\ UNCHANGED queueVars
  ELSE Return(m, result)

(* The except clauses, after their report: SMTPAuthenticationError returns at
   once, like the other permanent errors.                                   *)
Except(m, s, k, result) ==
  IF result = "transient" /\ k < MaxRetries
  THEN /\ pc' = [pc EXCEPT ![m] = "backoff"]
       /\ attempt' = [attempt EXCEPT ![m] = k]
       /\ outcome' = [outcome EXCEPT ![m] = None]
       /\ server' = [server EXCEPT ![m] = s]
       /\ UNCHANGED queueVars
  ELSE Return(m, result)

(* An exception of the pool or the server: the report and the clause. *)
Raise(m, exception) ==
  /\ breaker' = [breaker EXCEPT ![server[m]] = RecordFailure(@)]
  /\ Except(m, server[m], attempt[m], Class(exception))
  /\ UNCHANGED <<life, leaked, cancels, copies, total>>

-----------------------------------------------------------------------------
(* _select_server *)

Available == {s \in Servers : IsAvailable(breaker[s])}

Preferred(m) ==
  IF Available \cap Pinned[m] # {} THEN Available \cap Pinned[m] ELSE Available

Choices(m) ==
  IF Strategy = "priority"
  THEN {s \in Preferred(m) : \A t \in Preferred(m) : Priority[s] <= Priority[t]}
  ELSE Preferred(m)

Observed == [s \in Servers |-> Observe(breaker[s])]

Chosen(m, s, k) ==
  /\ breaker' = [Observed EXCEPT ![s] = RecordAttempt(@)]
  /\ server' = [server EXCEPT ![m] = s]
  /\ pc' = [pc EXCEPT ![m] = "limited"]
  /\ attempt' = [attempt EXCEPT ![m] = k]
  /\ outcome' = [outcome EXCEPT ![m] = None]
  /\ UNCHANGED queueVars

NoneAvailableBlamingLast(m, k) ==    \* mutation: pool is not reset
  /\ Available = {}
  /\ breaker' = IF server[m] = None THEN Observed
                ELSE [Observed EXCEPT ![server[m]] = RecordFailure(@)]
  /\ Except(m, server[m], k, Class("SMTPConnectionError"))

NoneAvailable(m, k) ==
  /\ Available = {}
  /\ breaker' = Observed
  /\ Except(m, None, k, Class("SMTPConnectionError"))

(* One turn of the loop, up to the wait for the rate limiter. *)
Attempt(m, k) ==
  /\ \/ \E s \in Choices(m) : Chosen(m, s, k)
     \/ NoneAvailable(m, k)
  /\ total' = [total EXCEPT ![m] = @ + 1]
  /\ UNCHANGED <<life, leaked, cancels, copies>>

Call(m) ==
  /\ pc[m] = "unsent"
  /\ Cardinality({n \in Messages : AtWork(n) /\ ~FromQueue(n)}) < BulkConcurrency
  /\ Attempt(m, 1)

(* process_item, once it has a slot of the semaphore: _retry_handler. *)
Retry(m) ==
  /\ pc[m] = "taken"
  /\ Cardinality({n \in Messages : AtWork(n) /\ FromQueue(n)}) < RetryConcurrency
  /\ Attempt(m, 1)

Wake(m) ==
  /\ pc[m] = "backoff"
  /\ Attempt(m, attempt[m] + 1)

-----------------------------------------------------------------------------
Goto(m, where) ==
  /\ pc' = [pc EXCEPT ![m] = where]
  /\ UNCHANGED <<breaker, queueVars, server, attempt, life, leaked, cancels, total>>

AtPool(s) ==
  {m \in Messages : pc[m] \in {"acquiring", "sending"} /\ server[m] = s}

PoolRefuses(m) ==
  Cardinality(AtPool(server[m]) \ {m}) + leaked[server[m]] >= MaxConnections[server[m]]

(* Once close quits the connections under their users, any of them may fail. *)
MayFail(s) == s \in Faulty \/ life = "closed"

(* The rate limiter granted, and the pool had room, or not. *)
Granted(m) ==
  /\ pc[m] = "limited"
  /\ \/ Goto(m, "acquiring") /\ UNCHANGED <<outcome, copies>>
     \/ PoolRefuses(m) /\ Raise(m, "ConnectionPoolException")

(* It is refused, too, after the connections it was given failed their check. *)
AcquireFails(m) ==
  /\ pc[m] = "acquiring"
  /\ \/ MayFail(server[m]) /\ Raise(m, "SMTPConnectionError")
     \/ server[m] \in Faulty /\ Raise(m, "SMTPAuthenticationError")
     \/ PoolRefuses(m) /\ Raise(m, "ConnectionPoolException")

Acquired(m) ==
  /\ pc[m] = "acquiring"
  /\ Goto(m, "sending")
  /\ UNCHANGED <<outcome, copies>>

OneMoreCopy(m) ==
  [copies EXCEPT ![m] = CASE @ = "none" -> "one" [] @ = "one" -> "several" [] OTHER -> @]

(* send_message returned without errors.  The report comes at once, then the
   connection is released, then send returns.                               *)
Accepted(m) ==
  /\ pc[m] = "sending"
  /\ breaker' = [breaker EXCEPT ![server[m]] = RecordSuccess(@)]
  /\ pc' = [pc EXCEPT ![m] = "releasing"]
  /\ outcome' = [outcome EXCEPT ![m] = "sent"]
  /\ copies' = OneMoreCopy(m)
  /\ UNCHANGED <<queueVars, server, attempt, life, leaked, cancels, total>>

(* It returned errors for some of the recipients; those are reported at once,
   and once more when the exception they become reaches the except clause.  *)
AcceptedForSome(m) ==
  /\ pc[m] = "sending" /\ server[m] \in Faulty
  /\ breaker' = [breaker EXCEPT ![server[m]] = RecordFailure(@)]
  /\ pc' = [pc EXCEPT ![m] = "releasing"]
  /\ outcome' = [outcome EXCEPT ![m] = Class("SMTPConnectionError")]
  /\ copies' = [copies EXCEPT ![m] = "unsure"]
  /\ UNCHANGED <<queueVars, server, attempt, life, leaked, cancels, total>>

(* It raised; if what was lost is the server's last reply, the server took
   the message all the same.                                                *)
Raised(m) ==
  /\ pc[m] = "sending" /\ MayFail(server[m])
  /\ \E exception \in {"code4xx", "code5xx", "uncoded"} :
       /\ outcome' = [outcome EXCEPT ![m] = Class(exception)]
       /\ \/ UNCHANGED copies
          \/ exception = "uncoded" /\ copies' = [copies EXCEPT ![m] = "unsure"]
  /\ Goto(m, "releasing")

ReleasedBlaming(m) ==            \* mutation: the failure is reported in a finally
  /\ pc[m] = "releasing"
  /\ breaker' = [breaker EXCEPT ![server[m]] = RecordFailure(@)]
  /\ IF outcome[m] = "sent" THEN Return(m, "sent")
                            ELSE Except(m, server[m], attempt[m], outcome[m])
  /\ UNCHANGED <<life, leaked, cancels, copies, total>>

(* The connection is back in the pool, or closed. *)
Released(m) ==
  /\ pc[m] = "releasing"
  /\ IF outcome[m] = "sent"
     THEN Return(m, "sent") /\ UNCHANGED breaker
     ELSE /\ breaker' = [breaker EXCEPT ![server[m]] = RecordFailure(@)]
          /\ Except(m, server[m], attempt[m], outcome[m])
  /\ UNCHANGED <<life, leaked, cancels, copies, total>>

-----------------------------------------------------------------------------
(* The loop of the retry queue takes a batch when the one before is done. *)
TakeBatch ==
  /\ life = "open"
  /\ \A m \in Messages : item[m] # "taken"
  /\ \E batch \in SUBSET Messages :
       /\ Queue!Take(batch)
       /\ pc' = [m \in Messages |-> IF m \in batch THEN "taken" ELSE pc[m]]
  /\ UNCHANGED <<breaker, server, attempt, outcome, life, leaked, cancels, copies, total>>

Enter ==
  /\ life = "new"
  /\ life' = "open"
  /\ UNCHANGED <<breaker, queueVars, sendVars, leaked, cancels, copies, total>>

(* CancelledError passes by the except clauses of send. *)
CancelAll(S) ==
  /\ pc' = [m \in Messages |-> IF m \in S THEN "cancelled" ELSE pc[m]]
  /\ leaked' = [s \in Servers |->
                  leaked[s] + Cardinality({m \in S : pc[m] = "acquiring" /\ server[m] = s})]
  /\ server' = [m \in Messages |-> IF m \in S THEN None ELSE server[m]]
  /\ attempt' = [m \in Messages |-> IF m \in S THEN 0 ELSE attempt[m]]
  /\ outcome' = [m \in Messages |-> IF m \in S THEN None ELSE outcome[m]]
  /\ UNCHANGED <<breaker, copies, total>>

(* Stopping the queue cancels the sends its handlers run; close_all then quits
   all connections, and the sends of callers go on.                         *)
Close ==
  /\ life = "open"
  /\ life' = "closed"
  /\ Queue!Stop
  /\ CancelAll({m \in Messages : FromQueue(m)})
  /\ UNCHANGED cancels

Cancel(m) ==
  /\ cancels < MaxCancels
  /\ cancels' = cancels + 1
  /\ AtWork(m) /\ ~FromQueue(m)
  /\ CancelAll({m})
  /\ UNCHANGED <<queueVars, life>>

Tick ==
  /\ breaker' = [s \in Servers |-> Aged(breaker[s])]
  /\ UNCHANGED <<queueVars, sendVars, life, leaked, cancels, copies, total>>

Resume(m) ==
  \/ Retry(m) \/ Wake(m) \/ Granted(m) \/ AcquireFails(m) \/ Acquired(m)
  \/ Accepted(m) \/ AcceptedForSome(m) \/ Raised(m) \/ Released(m)

Next ==
  \/ \E m \in Messages : Call(m) \/ Resume(m) \/ Cancel(m)
  \/ TakeBatch \/ Enter \/ Close \/ Tick

Spec == Init /\ [][Next]_vars

(* Every await of a send ends: the rate limiter grants (RateLimiter), acquire,
   send_message and release have timeouts, a backoff is finite; and items of
   the queue come due.  Nobody has to call, to enter or to close, and time
   need not pass for the breakers.                                          *)
Fairness ==
  /\ \A m \in Messages : WF_vars(Resume(m))
  /\ WF_vars(TakeBatch)

FairSpec == Spec /\ Fairness

-----------------------------------------------------------------------------
(* No server takes a message twice, whatever fails, is cancelled or closed in
   between, unless one took it and reported an error: send's loop, its caller's
   and the queue's calls of it, and the delays between report and return never
   repeat what succeeded.                                                   *)
DeliveredOnce == \A m \in Messages : copies[m] # "several"

(* send's own retries and the queue's multiply, and that is all: a send that
   the queue called does not add its message again.                         *)
TriesBounded ==
  \A m \in Messages : total[m] <= MaxRetries * (1 + MaxAttempts)

(* While the sender is open, a message whose send gives up on a transient error
   comes into the queue, and is there, waiting, being tried or given up after
   its tries, until a server has taken it: no return of send, answer of the
   handler, or cancelled caller loses one.  Only close does (sender.py:326,
   retry_queue.py:168): it leaves those that wait, and those added after it, in
   a queue that has stopped, and those being tried RETRYING, to be skipped for
   ever.                                                                    *)
OnlyCloseLoses ==
  [][\A m \in Messages :
       life' = "open" =>
         /\ pc[m] # "returned" /\ pc'[m] = "returned" =>
              \/ outcome'[m] \in {"sent", "permanent"}
              \/ item'[m] \in {"waiting", "givenUp"}
         /\ item[m] \notin {"absent", "lost"} =>
              /\ item'[m] # "lost"
              /\ item'[m] = "absent" => copies[m] # "none"]_vars

(* A breaker hears only of sends that were routed to its server in the attempt
   they are at: not, when no server is available any more, of a send whose
   earlier attempt used it (the reset of `pool` in send's loop).            *)
BlamedByItsUsers ==
  [][\A s \in Servers :
       \/ breaker'[s] \in {breaker[s], Observe(breaker[s]),
                            RecordAttempt(breaker[s]), Aged(breaker[s])}
       \/ \E m \in Messages :
            /\ pc[m] \in {"limited", "acquiring", "sending", "releasing"}
            /\ server[m] = s /\ pc'[m] # pc[m]]_vars

(* A server that never refuses or drops anything is never shut out, as long as
   its pool has room for all sends there can be at once, no acquire was
   cancelled, and the sender is not closed.                                 *)
HealthyStaysClosed ==
  \A s \in Servers \ Faulty :
    MaxConnections[s] >= BulkConcurrency + RetryConcurrency
      /\ leaked[s] = 0 /\ life # "closed" => breaker[s].state = "closed"

(* "Circuit breaker for failing servers" (sender.py:55): one that does not fail
   stays in use.                                                            *)
OnlyFailingServersShutOut ==
  \A s \in Servers \ Faulty : life # "closed" => breaker[s].state = "closed"

Done(m) ==
  /\ pc[m] \in {"returned", "cancelled"}
  /\ \/ item[m] \in {"absent", "givenUp", "lost"}
     \/ life = "closed"

(* Whatever servers, breakers and pools do, a send returns, and what it leaves
   in the queue is delivered or given up, or the sender is closed.          *)
Ends == \A m \in Messages : AtWork(m) ~> Done(m)
=============================================================================

# Verification of msmtp

msmtp (`src/src/msmtp`) is an asyncio library that sends mail through several
SMTP servers, with pooled connections, a circuit breaker per server, a rate
limiter and a retry queue. This directory holds TLA+ modules of its components,
TLC configurations that check them on small instances, and TLAPS proofs of
what can be proved for every instance. `PROJECT.json` lists the components, the
runs, the map from definitions to source lines, the hazards, and for every
property a mutant of the code that breaks it.

## 1. The system

| Component | Source | State | Operations |
|---|---|---|---|
| Circuit breaker | `circuit_breaker.py` | state, counters, `_recent_failures`, `opened_at`, `_probe_started_at` | `is_available`, `record_attempt`, `record_success`, `record_failure`, `force_open`, `force_close`, `reset`, `get_stats` |
| Connection pool | `connection_pool.py` | `_pool`, `_in_use`, `_pending_count`, `_closed` | `acquire`, `release`, `close_all`, and `AsyncConnectionPool` around the first two |
| Retry queue | `retry_queue.py` | `_items`, `_queue` (a heap of times and ids), `_running`, the process task | `add`, `get_ready`, `mark_success`, `mark_failed`, `start`, `stop`, the process loop |
| Persistence | `retry_queue.py` | the state file and its temporary file | `_persist_state`, `_write_state_to_disk`, `_load_state` |
| Rate limiter | `rate_limiter.py` | tokens and `last_update` per bucket | `acquire`, `try_acquire` of one bucket and of the composite; the adaptive variant |
| Sender | `sender.py` | a pool (with its breaker) per server, the round-robin index | `send`, `send_bulk`, `_select_server`, `_retry_handler`, `close` |
| Error classification | `exceptions.py` | none | `is_transient_error`, `categorize_exception` |
| Validation, types, exports | `validation.py`, `types.py`, `__init__.py` | none | pure functions and data classes |

How they interact. `send` asks every server's breaker whether it is available,
chooses one, claims its probe slot, waits for the rate limiter, takes a
connection from that server's pool, sends, and reports the outcome to the
breaker; the connection goes back to the pool. Transient failures are retried
with a backoff, and after the last attempt the message goes to the retry queue,
whose loop calls back into `send`. `close` stops the queue and closes the pools.

Everything runs on one asyncio thread. Control changes only at an `await` that
is not ready, so a method without one (all of the breaker) is atomic, and a
method with some is a sequence of atomic steps between which everything else
may happen. The locks are held only over code that does not await, so nobody
ever waits for one. Cancellation arrives at any of these awaits, and
`CancelledError` passes by every `except Exception`.

### Hard behaviours and what would make each component correct

- **Breaker.** Reports come long after admission, in any order, twice, or never;
  overrides come at any time. Correct: it opens at its threshold and not before a
  call returns; while it is open nothing new is in flight; while it recovers one
  probe is out at a time; no order of events leaves it stuck; its statistics say
  what it would do.
- **Pool.** Acquire and release suspend in the middle, connections die, the pool
  is closed under its users, tasks are cancelled. Correct: a connection has one
  user; the counts that limit connections mean what they say; a closed pool
  stays empty and its connections are asked to quit.
- **Retry queue.** Several callers and the process loop change items whose old
  heap entries linger; the loop is stopped in the middle of a batch. Correct: no
  item that waits is forgotten, none is retried early, twice at once, or after it
  was given up; each is settled in the end.
- **Persistence.** Snapshots are written by threads, after the lock was given up;
  the process may die between any two steps. Correct: what was accepted is
  retried after a restart.
- **Rate limiter.** Waiters poll; a composite acquire takes from buckets one after
  the other and rolls back. Correct: no more is granted than the rate allows; a
  denied acquire costs nobody a token; somebody gets through.
- **Sender.** Composes all of these; its own part is which error is retried where,
  and what is reported to whom. Correct: nothing that succeeded is repeated and
  nothing that failed is dropped before `close`, within a bounded number of attempts; a breaker
  hears of the sends that used its server, and of no others.

## 2. Modules

| Module | What it is |
|---|---|
| `CircuitBreakerOps` | the breaker's methods as operators from a breaker to the next |
| `CircuitBreaker` | one breaker and the concurrent sends that share it |
| `MCCircuitBreaker` | symmetry of the sends for TLC |
| `CircuitBreakerOpsProofs` | lemmas about the breaker's methods, for `CircuitBreakerProofs` and `SenderProofs` |
| `CircuitBreakerProofs` | theorems about `CircuitBreaker` |
| `ConnectionPool` | the pool and its clients, step by step between awaits |
| `MCConnectionPool` | symmetry of clients and connections for TLC |
| `ConnectionPoolProofs` | theorems about `ConnectionPool` |
| `RetryQueue` | the queue, its process loop and its callers |
| `RetryQueueProofs` | theorems about `RetryQueue` |
| `RetryPersistence` | `RetryQueue` with its file, the threads that write it, crashes and restarts |
| `MCRetryPersistence` | symmetry of ids, times and threads for TLC |
| `RetryPersistenceProofs` | theorems about `RetryPersistence` |
| `Lending` | what the pool promises: the abstract specification of `ConnectionPool` |
| `RetryItems` | what the queue promises: the abstract specification of `RetryQueue` |
| `Sender` | the sends of `AsyncSMTPSender`, over breakers, pools and queue |
| `MCSender` | priorities, pins and pool sizes for TLC |
| `SenderProofs` | theorems about `Sender` |
| `RateLimiter` | the composite limiter and the tasks that wait for it |
| `MCRateLimiter` | rates and capacities for TLC |
| `RateLimiterProofs` | theorems about `RateLimiter` |

How they fit together: `Sender` extends `CircuitBreakerOps`, as `CircuitBreaker` does,
and has a breaker per server; it instantiates `RetryItems` for its queue, which
`RetryQueue` is shown to implement (`RetriesAsPromised`); and of each pool it uses only
what `Lending` says of a refusal, which `ConnectionPool` is shown to implement
(`LendsAsPromised`). So what `Sender` takes for granted of pool and queue is what the
detailed modules were checked, and proved, to do.

A definition named `...: mutation` in its comment is not part of a model: it is
the form a plausible bug would give the definition after it, and is substituted
for that to see that the property notices.

### Circuit breaker

`CircuitBreakerOps` has one operator per method and keeps the names:
`RecordFailure` is `record_failure`, `Observe` is `_get_current_state`, and so on.
Timestamps become ages. The code only asks whether a timestamp is at least
`timeout_seconds` or `monitor_window_seconds` old, so an age stops growing there
and the state space is finite without losing a behaviour. `failure_count` is only
compared with 0 and stops growing at `FailureCountCap`. What is kept for
monitoring alone (`total_opens`, `total_trips`, `last_error_messages`,
`last_failure_time`, `last_success_time`) is left out.

`CircuitBreaker` adds what `AsyncSMTPSender.send` does around it. `Admit` is
`_select_server` returning this breaker's server and `record_attempt`, one step
since nothing is awaited in between. `Succeed`, `Fail` and `FailForSome` report at
any later time; after `FailForSome` (the server refused some recipients) comes
`Unwind`, the second report of the same failure from the `except` clause, with the
connection's release awaited in between. `Cancel` is a task that never reports.
`PassOver` is the availability filter looking at a breaker it does not use.
`Override` is an operator calling `force_open`, `force_close` or `reset`.
`stray`, `age` and `probing` are history: they let the properties speak about when
a send was admitted.

### Connection pool

`pc[c]` is the await a client is suspended in; one action is everything it does
from there to the next. `acquire`: `Begin` (with `TakeIdle`, `Reserve` or `Refuse`,
the three branches under the lock), `CheckPassed`, `CheckFailed`, `Evicted` (which
ends in the recursive `acquire`, so in one of the three branches again),
`Connected`, `ConnectFailed`. `release`: `Release`, `ReturnPassed`, `ReturnFailed`,
`QuitDone`. `close_all`: `CloseAll`, then `CloseNext` per connection. `Lose` is the
network, `Cancel` and `CancelClose` are cancellations. A connection object is a
member of `Conns`; one nobody refers to any more stands for the next new object.

`quit()` may raise, in `Evicted`, `QuitDone` and `CloseNext` alike; the code swallows
that and goes on as if it had not (`connection_pool.py:164`, `:197`, `:313`). `socket`
therefore tells a connection that was closed (`quit`) from one that was asked to and may
be open still (`left`). Such a one is in none of the pool's lists; only the server ends
it, or a second `quit()` by a client that was checking it when `close_all` ran.

A health check succeeds only on a live connection and may fail on any (it has a
five-second limit). A connection whose NOOP was answered may still die before it is
used. Left out: the socket of a handshake that fails half-way (the code drops it
without closing it; nothing refers to it), latencies, logging, `health_check_interval`
and `max_idle_time`, which the code never reads.

### Retry queue

A timestamp is a value of `Times`, new each time one is calculated, since the code
asks only whether it has passed (`ComeDue` makes it so, in any order, as jitter and
the cap on the delay allow) and whether it is still the item's current one. `Call`
is a caller adding or marking an id from outside; `TakeBatch` is the loop's call of
`get_ready`; `BeginHandling`, `Delivered` and `NotDelivered` are one `process_item`,
`EndBatch` the end of the `gather`. `Stop` cancels all of them at once: whatever
they still do on their way out, they mark nothing. `start` and `stop` are called in
turn, as the sender does.

### Persistence

`RetryPersistence` extends `RetryQueue` and adds to each of its steps what happens to
the file. `PersistedBy` is `_persist_state`: the copy of `_items` is made, and handed to
a thread, before anything else can run, since the lock is given back without an await;
so it belongs to the step that changed the items (`DurableCall`, `DurableOutcome`,
`DurableStop`). `get_ready` writes nothing (`DurableLoop`). A thread then runs
`OpenTmp`, `Dump`, `Move`, or `DiskError` on the way, in any order with the others.
`holds` says under which name a thread has its file open: a rename takes a file from
under its writer. `Crash` ends the process, `Restart` is `__init__` with `_load_state`.
A `process_item` holds its slot and its batch until its write is done (`LoopJobs`); after
a `stop` nobody waits for it any more.

What a file holds is a copy, nothing, or a copy over the end of which a longer one
shows. A copy is written in one piece; that it is still being written shows as the
empty file. The statistics in the file are left out.

`promised` is history: it is set when a call that wrote returns, and taken back when
the item starts or stops being alive.

### Promises of pool and queue

`Lending` knows of each client only whether it asks, uses or discards a connection,
and which. A client may be refused only if the others at work and the cancelled tasks
make up `MaxConnections`. `ConnectionPool` maps `pc` to these stages (`Stage`); idle
connections, counters, sockets and `close_all` disappear.

`RetryItems` has an item absent, waiting, taken, lost (a stop cancelled its handler)
or given up, and counts how often it was taken. `RetryQueue` maps `items` and `child`
to that (`Status`); heap, times and tasks disappear.

### Sender

`pc[m]` is the await in which the send of message `m` is suspended. `Call` (the start of
`send`, when `send_bulk`'s semaphore lets it), `Retry` (the queue's handler calls `send`)
and `Wake` (the end of a backoff) each run one turn of the loop up to the rate limiter:
`Attempt` is `_select_server` and `record_attempt`, or the failure that no server is
available. Then `Granted`, `Acquired` or `AcquireFails`, and one of `Accepted`,
`AcceptedForSome` and `Raised`, whose result is dealt with after the release
(`Released`), as the code's `async with` has it. `Except` is what both `except` clauses
come down to after their report: another attempt, or `Return`, which is the return of
`send` and, for a send the queue called, the handler's answer and `process_item`'s
mark. `TakeBatch` is the queue's loop, `Enter`, `Close` and `Cancel` are what they say;
`Tick` is time as the breakers see it.

The round-robin and weighted strategies may choose any server that is available (and
pinned to the sender, if one is); only the priority strategy determines it. `Class` is
`is_transient_error` of the errors a send can meet. A faulty server may refuse or drop
anything; one that is not only does so after `close` quit its connections. A refused
or failed acquire and a failed send differ in what they report, so they stay apart.
What a send does while the limiter makes it wait is nothing, so the limiter is one
await here.

Left out: building the message, validating and sanitising addresses (a message that
fails there returns before the loop), the counters of `SMTPServerRuntime`, and the text
of results. `copies` and `total` are history.

### Rate limiter

A bucket's lock is never held across an await, so a turn of `acquire`'s loop is one step,
and a composite acquire goes on to the next bucket in the same step until one makes it
wait: `Turn` says which buckets it passes, where it stops, and whether it is granted,
denied (rolling back one token to each bucket it had passed, in this step or earlier
ones) or goes to sleep. `Begin` is the first turn, `Poll` each later one, `TryAcquire`
the check of all buckets before any is used, `Cancel` a cancelled waiter, which rolls
nothing back. Tokens are counted in units, so that a bucket can gain part of a token;
`since` is the time since `last_update`. `Refilled` is `_refill`, and happens where the
code calls it and nowhere else.

`shadow` and `level` are history. `shadow[w]` is what the buckets would hold if `w` had
never called: everything others do is done to it too. `level[b]` rises with every grant
and falls at the bucket's rate, so that it bounds the grants of any stretch of time.

## 3. Runs

| Run | Instance | Result |
|---|---|---|
| `breaker` | 3 sends, thresholds 2, timeout 2, window 3, 1 override | 515,000 states, passes |
| `breaker_liveness` | 2 sends, the same breaker | 149,000 states, passes |
| `breaker_one_probe` | failure threshold 1, success threshold 2 | violated (finding) |
| `pool` | 3 clients, 4 connections, 2 slots, 1 cancellation | 137,000 states, passes |
| `pool_liveness` | 2 clients, 3 connections, 1 slot | 35,000 states, passes |
| `pool_pending` | 2 clients, 1 slot, 1 cancellation | violated (finding) |
| `retry_queue` | 2 ids, 2 attempts, 3 calls, 1 stop, concurrency 0 | 46,000 states, passes |
| `retry_persistence` | 1 id, 2 attempts, 2 calls, 1 stop, 2 threads, 2 crashes, 1 disk error | 986,000 states, passes |
| `retry_persistence_torn` | 1 id, 2 calls, 2 threads | violated (finding) |
| `sender` | 2 messages, 2 servers (1 faulty), 2 retries, 2 attempts in the queue, 1 cancellation | 381,000 states, passes |
| `sender_healthy` | 2 messages, 1 server that never fails, pool of 1 | violated (finding) |
| `rate_limiter` | 2 waiters, 2 buckets, timeouts 2 and none, 1 cancellation | 5,700 states, passes |

Why the bounds suffice.

- *Breaker.* Three sends are what the hardest orders need: one admitted before the
  circuit opened, a probe, and one more that asks. Thresholds of 2 make "one below"
  and "reached" different; a timeout of 2 and a window of 3 give an age before the
  limit, at it and, for failures, past the timeout and inside the window. One
  override reaches every state from which one can be made.
- *Pool.* With two slots a pool can be empty, half used and full; three clients make
  one contend with two; four connections exceed what three clients can hold at once
  (`OnePerClient`), so a new one is to be had unless some were left open, and those
  become new ones when the server drops them. One cancellation separates the
  runs with exact counts (`cancels = 0`) from the rest.
- *Retry queue.* Two ids contend for the one slot that `max(1, concurrency)` leaves
  of concurrency 0; two attempts have a first, a rescheduled and a last try; three
  calls can add, delete and add again, or exhaust an item from outside while it is
  handled. A call pushes at most one entry, so as many times as calls always leave
  a new one.

- *Persistence.* A file holds all items at once, and the properties are about each
  item by itself, so one id has all that can happen to an item (two ids with one crash
  were checked too: 11 million states, which takes longer than a run may). Two threads
  overlap in every way that two can; calls that find none free wait. Two crashes
  let a loaded item be written and lost again.
- *Sender.* Two servers make fail-over possible, and its end, when none is left. The
  faulty one has a pool of one connection, so that its refusals are seen; the other has
  room for all sends there can be (two of callers, one of the queue), which is what
  `HealthyStaysClosed` is about. One message is pinned to the faulty server. Two
  attempts have a first and a last one, in `send` and in the queue. Breakers open at the
  first failure, recover after one unit of time and close at the first success: counting
  up to a threshold is the matter of `breaker`.
- *Rate limiter.* A fast bucket with room for one token before a slow one with room for
  three: a waiter can pay the first and wait for the second, which the first refills
  meanwhile. A token is two units and the slow bucket gains one at a time, so half tokens
  occur. Waiters call again and again; the state space is finite since all ages are
  bounded by the time in which a bucket is full, or a timeout over.

Deadlock checking is on except for the retry queue, which sleeps when there is
nothing to do.

What the properties say is stated at each of them. The ones that took most care:

- `OneProbeUnlessStray`: the slot admits one probe at a time, *as long as* no report
  of another send reaches the half-open breaker. Without that condition it fails
  (`breaker_one_probe`), contrary to the comment in `is_available`.
- `OpenAdmitsNothing`: every send in flight was admitted before the circuit opened.
- `SlotsAccounted`: what acquire counts is what is lent and what is being made, and
  nothing else unless a task was cancelled. `LendsAsPromised` is what a user sees of it:
  exclusive lending, and a refusal only while the others at work, and one slot per
  cancelled task, make up `max_connections`.
- `QuitIsFinal`: the pool never lends, or takes back, a connection that it asked to quit,
  whether or not that worked.
- `ClosedAsksAllToQuit`: after `close_all` every connection the pool knows of, also one
  lent or made later, is asked to quit. Not that every one is closed: a `quit()` that
  raises is ignored, and the pool forgets the connection.
- `OnePerClient`: the connections idle, held or in `_in_use` are at most the clients and
  the cancelled tasks. Connections nobody refers to any more are not counted.
- `RetryingIsHandled`: an item is RETRYING only while a task will mark it, or if a
  stop interrupted that task; such an item is never retried.
- `PromiseKept`: across crashes, restarts and failed writes, what a returned call wrote
  down about an item holds, if no two writes ever overlapped. With overlaps it does
  not: an older copy can be renamed last. `WholeUnlessOverlapped` says the same of the
  state file being readable.
- `TriesAcrossRestarts`: each crash or failed write costs the memory of one try at most.
- `Settles`: otherwise each item is delivered or given up in the end.
- `RetriesAsPromised`: with stale heap entries, restarts and callers that mark an item
  while it is handled, each step is still one of `RetryItems`.
- `DeliveredOnce`: no server takes a message twice, whatever fails, is cancelled or closed
  in between, unless one took it and reported an error all the same (some recipients
  refused, the last reply lost), where a second copy cannot be told from a first.
- `OnlyCloseLoses`: while the sender is open, a message whose `send` gives up on a
  transient error comes into the running queue, and is waiting, tried or given up there
  until a server has taken it. `close` does lose messages: those being tried stay RETRYING
  and are skipped for ever, those waiting or added later stay in a stopped queue. No
  document says otherwise, so the property is about an open sender; that each message is
  dealt with in time is `Ends`.
- `TriesBounded`: `send`'s retries and the queue's multiply, and that is all.
- `BlamedByItsUsers`: when no server is left for an attempt, the failure is not charged
  to the server of the attempt before.
- `HealthyStaysClosed`: a server that never fails is never shut out, *as long as* its
  pool has room for all sends at once, no acquire was cancelled and the sender is open.
  Without that condition it fails (`sender_healthy`).
- `Ends`: every send returns, and what it leaves in the queue is delivered or given up.
- `DeniedCostsNothing`: an acquire that is denied leaves each bucket with no less than if
  it had never been made, and with at most one token more: others could use the room it
  made.
- `WithinRate`: over any stretch of time the last bucket grants no more than its capacity
  and what it gained. An *earlier* bucket can exceed that by one token for each waiter that
  paid it and waits further on, or was rolled back; the bound is reached.
- `SomebodyGetsThrough`: as long as somebody waits, somebody is granted. That each waiter
  is granted in the end does not hold: they poll without a queue.

### Findings

1. A late success of a send admitted before the circuit opened frees the probe slot,
   and a second probe goes out ("Only one probe at a time", `circuit_breaker.py:121`).
   The pool creates its breakers with a success threshold of 3, so this can happen
   as the library is configured.
2. A cancelled handshake leaks its reservation (`connection_pool.py:119`, `:171`).
3. The state file can be empty or torn: concurrent writes share one temporary file
   ("Atomic write pattern", `retry_queue.py:276`).
4. When the caller's own sends use up a pool, its refusals are reported to the server's
   breaker and shut out a server that never failed ("Circuit breaker for failing
   servers", `sender.py:55`, `:303`). By default `send_bulk` and the retry queue send 10
   at a time each, over the 10 connections of a pool.

Noticed on the way and not the subject of a run.

*Pool.* `_pool` can hold more than `max_connections` connections ("Maximum pooled
connections", `connection_pool.py:108`), because a connection is counted nowhere while
`release` checks it. `release`'s health check or `quit` being cancelled drops an open
connection. So does a `quit()` that raises or times out, in `acquire`, `release` and
`close_all`: it is not called again, and nothing closes the socket ("Close all
connections in the pool", `connection_pool.py:293`, holds only if every `quit()` works).

*Retry queue.* Exhausted items stay in `_items` ("Already succeeded or exhausted",
`retry_queue.py:160`). An item that is RETRYING when the file is written, as it is after
`stop` cancelled its handler, is loaded as RETRYING and never retried
(`retry_queue.py:309`, `:168`). An older copy of the items can be written over a newer one.
Heap entries of rescheduled items can outnumber the items (`retry_queue.py:130` bounds
them by the live items).

*Sender.* A send that waits for the rate limiter goes on to its server although the
circuit has opened meanwhile. A permanent refusal of one message (5xx) and the refusal
of all its recipients count as failures of the server, and a partial refusal counts
twice. A permanent error in a retry of the queue is retried up to `max_attempts`, since
the handler answers only yes or no. A send that fails after `close` adds its message to
the stopped queue (`sender.py:326`), and one that `close` interrupts in a retry stays
RETRYING (`retry_queue.py:168`). `send_bulk(concurrency=0)` waits for ever, where the
queue guards against that (`retry_queue.py:226`).

*Rate limiter.* `AdaptiveRateLimiter` "adapts based on server responses", but its factor
is used only when an acquire without a timeout was denied, which with positive rates
never happens. The branch `wait_time <= 0` of `acquire` is not reached.

*Elsewhere.* `total_trips`, "Total state changes", does not count overrides; the README
configures `RetryConfig(exponential_base=...)`, which does not exist.

### Fairness

- *Breaker*: time passes, somebody keeps calling, and a send that is neither failed
  nor cancelled ends, since each of its awaits has a timeout. `Recovers` asks for
  recovery from the moment the environment stops failing (`calm`); failing,
  cancelling and overriding are never assumed.
- *Pool*: every await of a client and of `close_all` ends: a NOOP has a five-second
  limit, aiosmtplib times out every command and the handshake, and a send is finite.
  Nobody is assumed to acquire, close or cancel.
- *Retry queue*: time passes, the loop and its tasks are scheduled, a handler ends in
  one of its two ways. `Settles` is about runs in which the loop stays on from some
  time; starting it again after a stop is not assumed.
- *Sender*: every await of a send ends: the limiter grants (a send gives it no timeout),
  acquire, `send_message` and release have timeouts, a backoff is finite; and the queue's
  loop takes what is due. Nobody is assumed to send, enter, close or cancel, and the
  breakers' time need not pass: a send that finds no server fails, it does not wait.
- *Rate limiter*: time passes, and every sleep ends. Nobody is assumed to call.

## 4. Proofs

`tlapm` checks the seven proof modules completely. Every safety invariant and every
action property that a passing run checks is proved, and both refinements, for every
value of the constants:

- the breaker: any set of sends, any thresholds and times;
- the pool: any finite set of clients, any set of connections, any `max_connections` (0
  included) and number of cancellations;
- the retry queue: any ids, timestamps, `max_attempts`, concurrency, calls and stops; with
  a file, also any writing threads, crashes and failed writes;
- the sender: any messages and servers, priorities, pins, pool sizes and limits, any set of
  servers that fail;
- the rate limiter: any number of buckets, rates, capacities and timeouts, and any finite
  set of waiters.

The assumptions are `ConfigAssumption`, `NoneAssumption`, `BoundAssumption`,
`PoolAssumption`, `QueueAssumption`, `DiskAssumption`, `SenderAssumption` and
`LimiterAssumption`. They say that the numbers are numbers (thresholds and `max_attempts`
positive), that clients and waiters are finitely many, and that None, and what stands for
a file that cannot be read, is none of the other values. TLC evaluates them in every run.

**Breaker.** `IInv` = the breaker is `Consistent` by itself, `OpenAdmitsNothing`, and
`ProbeHoldsSlot`. The properties alone are not inductive. `ClosedBelowThreshold`
needs that an open breaker knows since when and that successes stay below their
threshold, or the next step would start from a breaker no run reaches;
`OneProbeUnlessStray` needs that a live probe's age *is* the age of the slot's claim,
which is what lets a second probe be refused. Each operator of `CircuitBreakerOps` has
a lemma in `CircuitBreakerOpsProofs` that it maps a sound breaker to a sound one; the
steps of `CircuitBreaker` cite these and add the ages. `SlotHasOwner` is inductive by
itself beside `IInv`: only `record_attempt` sets the slot, to age 0 as its send's, and
the send and the slot grow old together. Proved: `TypeOK`, `ClosedBelowThreshold`,
`ZeroCountMeansNoRecent`, `OpenAdmitsNothing`, `StatsAgree`, `OneProbeUnlessStray`,
`SlotHasOwner`. (`ZeroCountMeansNoRecent` and the inductive invariants have no run of
their own.)

**Pool.** `IInv` = the four safety properties plus `HoldsWhileBusy` (which waits a
client spends with a connection), `LeavingIsUncounted` (a connection on its way out is
in no count, so that returning it cannot duplicate it) and `ClosingIsClosed`. `Move`
covers every step of a client that neither touches `_pool` nor a reservation;
`Acquiring`, `ConnectedStep`, `HandshakeEnds`, `PooledStep`, `CloseAllStep` and
`SocketStep` are the others. `Popped` and `Pushed` say what `pop` and `append` do to a
list without duplicates. `RefusedOnlyWhenBusy` follows by counting: without
cancellations `_in_use` is the image of the clients that work, so it has no more
members (`CountsBoundedByBusy`), and only `Refuse` refuses (`RefusedByAcquire`).
Proved: `TypeOK`, `ExclusiveLending`, `ClosedPoolIsEmpty`, `QuitIsFinal`,
`SlotsAccounted`, `RefusedOnlyWhenBusy`, and the refinement `LendsAsPromised`. The last needs
one invariant more, which holds with cancellations too: `SlotsLost` says that
connections nobody works with that are still in `_in_use` (`Orphans`), and reservations of
no handshake, are together no more than the cancelled tasks. Only `Cancel` makes one;
`NoMoreOrphans` covers every other step. With it the counts that acquire looks at are at
most the clients at work and the cancellations (`CountsPaidFor`), and each step is one of
`Lending` (`AcquireAsPromised`, `ResumeAsPromised`, `CancelAsPromised`) or invisible
(`PoolStutters`). `OnePerClient` is proved from `Matched`, which also counts the
connections that handshakes are about to add: a reservation is made when no connection is
idle, and then each one is held by a client that is not among those in a handshake
(`MatchedWhenNoneIdle`); every other step adds neither. What `_in_use` holds besides
are orphans, which `SlotsLost` bounds by the cancellations (`OrphansExceed`). `QuitIsFinal`
includes connections that `release` checks: without them it would not be inductive, since
a passed check puts one back into `_pool`, and a socket left open can pass.

**Retry queue.** `IInv` = `TypeOK`, `WaitingIsScheduled`, `RetryingIsHandled` and
`AttemptsCounted`. The last is why `TakenWithinLimit` holds: `attempt` is raised
between any two tries, so an item was taken at most once more than it was raised, and
`add` marks it EXHAUSTED in the very step in which `attempt` reaches the limit. Most steps
change one id; `OneItem` says that such a step keeps `IInv` if the item's new value is
`Sound`, and `AddNewSound`, `AddAgainSound` and `RemovedSound` say that it is.
`TakeBatchStep` is the one that changes several. Proved: `TypeOK`,
`WaitingIsScheduled`, `RetryingIsHandled`, `TakenWithinLimit`, of every step
`RetriedWhenDue` and `GivenUpForGood`, and the refinement `RetriesAsPromised`. That follows
from `IInv` as it is: `AttemptsCounted` is what makes a failed try wait again only below
`max_attempts`. Each method has a lemma that it is `Add`, `Fail` or `Settle` of `RetryItems`
or changes nothing there (`AddAgainAsPromised` is the one with the most cases).

The effect of each method on one item (`AddNewEffect`, `AddAgainEffect`, `TakeBatchEffect`)
and the part of the invariant that does not count tries (`QueueSound`, kept by
`OneItemKept`, `TakeBatchKept`, `OtherKept`) are stated apart, since a queue with a file
has them too.

**Persistence.** `DInv` = the types, `QueueSound`, `AllFit`, `Resting`, and `InOrder` as long
as no two writes have overlapped. None of the properties is inductive: what a restart
brings back depends on the file, the file on the copy a thread had, the copy on what
`_items` was then. `InOrder` relates the three. `CopySound` and `FileSound` say whether an
item is alive in the copy and in the file, and by how many tries each may be behind: as
many as crashes and failed writes made the queue forget, and one more while the try is
`Underway` or its outcome on its way to the file (not `Settled`). `TakeBatch`, which writes
nothing down, is where that one try is lost if the process dies; `Resting` (between batches
the loop has no task and no write under way) is why it is one and not one for each batch.
`AllFit` (an item is EXHAUSTED exactly at `max_attempts`, in `_items`, in copies under way
and in files alike) holds even when writes overlap, since a torn file is not read. Each
handler is a lemma; `PersistedInOrder` is the one about the copy a handler makes,
`MovedInOrder` the one about the rename. Proved: `TypeOKDurable`, `WholeUnlessOverlapped`,
`PromiseKept`, `TriesAcrossRestarts`, `WaitingIsScheduled`, `RetryingIsHandled`.

**Sender.** `IInv` says of each message where its send and its item can be at once
(`Placed`), what a send in flight knows (`Knows`), how many attempts the tries of the queue
and of the present call make together (`Counted`), and that a message a server took and
acknowledged is on its way out (`TakenOnce`). The last gives `DeliveredOnce`, and needs
`Placed`: without it, an item of a message already sent could still be waiting. `Counted`
gives `TriesBounded`. Of all messages together `LimitsKept` says that the two semaphores
hold, of the breakers `BreakersSound` that they are sound and closed unless `Excused`.
`HealthyStaysClosed` follows: a pool with room for both semaphores never refuses
(`RefusalIsExcused`), so nothing reports a failure of a server that has none. Proved: `TypeOK`, `DeliveredOnce`,
`TriesBounded`, `HealthyStaysClosed`, and of every step `OnlyCloseLoses` and
`BlamedByItsUsers`.

**Rate limiter.** `IInv` compares each bucket, as it would be if refilled now, with two
histories. `Shadowed`: it holds no more than if a waiter had not called acquire, and at
most the token less that the waiter paid. `Budget`: what was granted lately, what the
bucket holds, and the tokens of those who paid it and wait further on, stay within its
capacity and one token for each waiter; for the last bucket, behind which nobody waits,
within its capacity. The tokens of waiters further on are what makes `WithinRate`
inductive: they are taken but not yet granted, and a roll-back returns them. Proved:
`TypeOK`, `WithinRate`, and of every step `DeniedCostsNothing`.

**Only model-checked.** The liveness properties (`AvailableAgain`, `Recovers`,
`ClosedAsksAllToQuit`, `Settles`, `Ends`, `SomebodyGetsThrough`), which are out of the prover's
reach. The violations are TLC's.

## 5. Not modelled

- Validation and sanitisation: about the text of addresses and headers, stateless and
  well within reach of unit tests.
- `categorize_exception`, and classes of `is_transient_error` no send can meet: the first
  has no caller, the others no case.
- `AdaptiveRateLimiter`, whose factor changes nothing (see above); a `TokenBucket` used by
  itself, with more than one token at a time or a rate of zero: `RateLimiter` makes none.
- The statistics of `SMTPServerRuntime`: written and never read by code that decides.
- Types and exports have no behaviour.
- TLS, login and the bytes of SMTP: one await each, as the code sees them.

## 6. Plan

What is left, in order of importance:

1. A breaker of three states that promises only which transitions there are and what
   causes them, implemented by `CircuitBreaker`; then `Sender` could rest on that promise
   as it rests on `Lending` and `RetryItems`.
2. What holds of the state file after writes have overlapped: the recency of what is
   loaded is not promised by the code (see *Persistence* above), but each item loaded was
   once in `_items`.
3. The statistics of `SMTPServerRuntime`, should code come to decide by them.

# rate-sync: formal models, model checking and proofs

This directory holds TLA+ models of `rate-sync` (`src/src/ratesync`), an asyncio rate limiter
with in-process, Redis and PostgreSQL engines, of its registry and of the checks built on them,
together with the TLC runs that check them and the TLAPS proofs of what matters most. Paths below are relative to `src/src/ratesync`.

## 1. Inventory

| component | state | operations | hard behaviour | what makes it correct |
|---|---|---|---|---|
| limiter contract, `core.py` | `RateLimiterMetrics` | `acquire`, `try_acquire`, `release`, `get_state`, `acquire_context` | - | rate slots per period bounded, operations in flight bounded, one release per success |
| in-process engine, `engines/memory.py` | deque of timestamps, `asyncio.Lock`, `asyncio.Semaphore`, metrics | the above, `reset` | tasks interleave at every `await`; a timeout cancels `acquire` at any of them | no place or wake-up lost, grants an interval apart, window never over the limit, every waiter served, `get_state` truthful |
| Redis engine, `engines/redis.py` | per key: last grant, concurrency counter, sorted set of grants, each with a time to live; per process: pool, scripts | the above, `initialize`, `disconnect` | clients on several machines, stale clocks, expiry, crashes, replies that never come, fail-open | atomic scripts keep the rate; the counter equals the holders while keys live |
| Redis sliding window engine, `engines/redis_sliding_window.py` | sorted set of grants | the above | same, and colliding members | limit per window |
| PostgreSQL engine, `engines/postgres.py` | one row per group with a version; a connection pool | the above | row locks in autocommit, compare-and-set, waits that hold a connection, insert races | no interval granted twice, the row's counter exact, no circular wait for pool and lock |
| registry, `registry.py` | dictionaries of stores, configurations and limiters | configure, get, clone, initialize, `check_limiter`, `check_multi_limiters` | lazy creation and initialization by concurrent tasks; several limiters checked in turn | one initialized limiter per id; a combined check grants only what every limiter granted |
| composite, `composite.py` | none of its own | `check` with four strategies | no refund when the strategy refuses | the decision agrees with the strategy |
| FastAPI, `contrib/fastapi` | none of its own | middleware, dependencies | slots taken and never released, errors after the slot was taken | a refused request is refused |
| push gateway, `contrib/prometheus/pushgateway.py` | a background task | start, stop, push loop | cancellation races | stop ends the loop, pushes do not overlap |
| configuration, decorators, headers, identifiers, exceptions | none, or read once | parsing, formatting | - | sequential code |

How they interact: applications call the registry (directly, through the decorator, or through the
FastAPI integration); the registry creates a limiter from its configuration the first time it is
used and calls its engine; engines share state through the event loop (memory) or a server (Redis,
PostgreSQL). `PROJECT.json` lists every component with its status and every hazard with its line.

## 2. Plan

In the order of importance. A module that is proved about has a companion `...Proofs`.

1. `LimiterPromise` (abstract) and `MemoryLimiter`, with `MemoryLimiterProofs`: done.
2. `RedisTokenBucket` with `RedisTokenBucketProofs`: done.
3. `RedisWindow`, both sliding windows on Redis, with `RedisWindowProofs`: done.
4. `PostgresLimiter`, both algorithms, with `PostgresLimiterProofs`: done.
5. `LimiterRegistry` with `LimiterRegistryProofs`: done.
6. `LimitChecks` (single and combined checks, composites, HTTP front ends) with
   `LimitChecksProofs`: done.
7. `RedisWindowPromise` and `PostgresPromise`, how these engines implement `LimiterPromise`, with proofs
   in `RedisWindowProofs` and `PostgresRefinementProofs`: done.
8. `RedisWindowViewer` and `PostgresViewer`, `get_state` among the steps of the clients, with proofs in the
   same two modules: done.

Composition: the engines are modelled one by one against what a limiter owes (`LimiterPromise`,
or the same properties stated directly); `LimiterRegistry` composes them, as far as `initialize()`
and places go, with the registry and its callers; `LimitChecks` composes limiters, reduced to slots
and failures, with the checks that ask several of them. The whole in one module would multiply state
spaces that share no variable but the answer of a limiter.

Runs stay small: two or three clients or tasks, intervals of two or three ticks, one or two places.

## 3. The modules

### LimiterPromise
What any limiter owes: a rate slot is granted only while the last `Span` ticks hold fewer than
`Quota`; an operation starts with a rate slot of its own while fewer than `MaxConcurrent` are in
flight; a rate slot may be wasted. `granted` is the sequence of the ages of the last `Span` ticks'
grants, oldest first; `Ages` holds the three operators on such sequences (`Older`, `Fresh`, `Grant`),
which the engines use for their own records too, and `Total`, how many grants there are of some ages
where a function gives their number by age.

### MemoryLimiter
One step is what a task runs between two suspension points, as asyncio runs it.

| model | code |
|---|---|
| `pc`, `left` | the `await` a task is suspended at, and the rest of its `asyncio.sleep` |
| `lockHeld`, `lockQueue`, `lockWoken` | `asyncio.Lock`: `_locked`, waiters with a pending future, waiters whose future is done and which have not run |
| `semValue`, `semQueue`, `semWoken` | the same for `asyncio.Semaphore` (Python 3.12: `locked()`, hand-over, the loop at the end of `acquire`) |
| `timestamps` | `_timestamps`, as ages |
| `current` | `metrics.current_concurrent` |
| `granted` | history variable: what the limiter really granted, and when |
| `Call`, `LockWakeup`, `SleepDone`, `SemWakeup` | `acquire`, `try_acquire(0)`, `get_state` from one suspension to the next |
| `AcquireLocked`, `TryLocked`, `StateLocked` | the bodies of `async with self._lock` |
| `Release` | `release()` |
| `CancelInLockQueue`, ..., `CancelWokenBySem` | the timeout of `try_acquire(timeout > 0)` (`wait_for` cancels `acquire`) or the caller's own cancellation, at each place |
| `Tick` | time; sleepers may be late, tasks need no time |

Parameters: `Algorithm`, `Interval` (`1 / rate_per_second`), `Limit`, `Horizon` (`window_seconds`,
or the one second after which the token bucket forgets), `MaxConcurrent`. `max_concurrent=None` is
`MaxConcurrent` at least the number of tasks: the semaphore is then never full. `Interval = 0` is a
limiter with `max_concurrent` only. Time needs no bound: ages saturate one tick past `Horizon`, and
an older timestamp is treated like one of that age.

Left out: counters of `RateLimiterMetrics` that nothing reads back, `initialize` (a flag set once
before use; see `LimiterRegistry`), `reset`, the numbers `current_usage` and `reset_at` of `get_state`,
and the delay between `get_state`'s clock and its lock.

### RedisTokenBucket
Clients of one group in several processes, and the server. A step is one script, or what a client
runs between two suspension points.

| model | code |
|---|---|
| `last`, `counter`, `ttl` | the rate key (as the age of the time in it), the concurrent key, and their time to live; a grant sets both with the same one, so one variable serves both |
| `pc = "sent"` | the client read its clock (`timer` is that reading's age) and the request of the acquire script is on its way |
| `pc = "granted"`, `"refused"` | the script was executed and its reply is on its way; `Reply` is its arrival |
| `pc = "sleep"` | the wait the script computed, or the poll interval, capped by the rest of the timeout (`budget`) |
| `pc = "operation"`, `"releasing"` | between acquire and `release()`; the request of the release script on its way |
| `AcquireScript`, `ReleaseScript` | `ACQUIRE_TOKEN_BUCKET_SCRIPT`, `RELEASE_SCRIPT` |
| `FailOpen` | the `except` clause of `_try_acquire_token_bucket` with `fail_closed` off |
| `GiveUp` | cancellation, crash, or a failure that is raised to the caller, at any point |
| `owners`, `leaked`, `granted` | history variables: who has a counted place, counted places nobody will release, what was granted |

`Interval` is `1 / rate_per_second` (`Period`) less the timing margin (`Margin`), and 0, no rate check,
when nothing is left. `FailOpen` stands for the failures `try_acquire` names (`OSError`, `KeyError`,
`ValueError`); whether redis-py lets one of those through is outside this repository. Other failures
are `GiveUp`.

Abstractions: clients' clocks agree (a clock that is behind is a request that is delayed); an
abandoned request is executed before it is abandoned or never (one that is executed later is the
request of another client, which gives up after it); `max_concurrent=None` is a `MaxConcurrent` of
at least the number of clients. Left out: metrics, and `get_state`, `reset` and `disconnect`.

### RedisWindow
The two sliding windows that live in a sorted set at the server: that of the Redis engine, which also
counts places, and the engine of `redis_sliding_window.py`, which does not. `engine` says which one.
Clients, requests, failures and time are as in `RedisTokenBucket`.

| model | code |
|---|---|
| `window` | the sorted set, as the number of members of each age |
| `counter`, `ttl` | the concurrency key, and the time to live of the keys |
| `AcquireScript` | `ACQUIRE_SLIDING_WINDOW_SCRIPT`, `SLIDING_WINDOW_SCRIPT` |
| `Added` | `ZADD`: members of the second engine are made of the time and `math.random`, which begins with the same seed in every script, so two grants of one time may be one member |
| `CleanState` | the request by which `get_state` of any client removes old members |
| `Reset` | `reset()`, once |
| `FailOpen`, `GiveUp` | the `except` clause; cancellation, crash, or an exception that is not caught |
| `owners`, `leaked` | history variables, as in `RedisTokenBucket` |
| `granted` | history variable: the grants whose times are in the window that ends now, by age |

The `:seq` key that numbers the members of the first engine is not modelled: its members are new.

`RedisWindowPromise` extends it by the history variable `served`, the ages of the grants by the moments
their *scripts* were executed, where `granted` goes by the times the requests carried. `KeepsPromise`
maps it to `LimiterPromise`: a client at a place is in flight, and the period is the window less
`MaxDelay`, since a grant made in that period carries a time of the window. It speaks of the Redis
engine, with `fail_closed`, until a reset; the other engine counts no places, and may count two grants as one.

`RedisWindowViewer` extends that by one `get_state()`, called again and again in another process, whose requests
are steps of their own between those of the clients:

| model | code |
|---|---|
| `view`, `clock` | how far it has come; the age of the time it read |
| `StateAsks`, `StateCleans`, `StateCounts`, `StatePlaces` | `redis.py`: the clock, `ZREMRANGEBYSCORE`, `ZCARD`, `GET` |
| `StateRange` | `redis_sliding_window.py`: `ZCOUNT` |
| `StateFails`, `failed` | the `except` clause: allowed with fail-open, an exception without |
| `Free`, `wasFree` | an acquire of this moment would be granted; it was so at some moment of the call (history variable) |

`allowed` is the part of the answer that is modelled; `remaining` and `current_usage` are not.

### PostgresLimiter
Clients of one process that share a pool of connections, and the server. A step is one statement (of
the transaction of the sliding window: `SELECT FOR UPDATE`, `COUNT`, and the rest with `COMMIT`), or
what a client runs between two suspension points.

| model | code |
|---|---|
| `row`, `last`, `count`, `entries` | the row of the group and its columns; the window table, by age |
| `current` | the clients whose `version` is the row's: `UPDATE ... WHERE version = $4` succeeds for them |
| `stale` | the clients that read the `version` of a row which `reset()` has deleted since; `NewVersion` makes any of them current again |
| `locked` | the row lock of a transaction; in autocommit mode (token bucket) it ends with its statement |
| `poolSize`, `Connect` | asyncpg's pool, which may serve any of the clients that wait: it is a queue in which a newcomer can pass a client that has been woken |
| `pc = "nap"`, `"sleep"` | asleep with a connection (`acquire` of the token bucket, inside `async with`), or without |
| `SelectRow`, `UpdateRow`, `InsertRow` | the token bucket's statements, with `UniqueViolationError` |
| `LockRow`, `InsertRow`, `CountEntries`, `Commit` | the sliding window's transaction |
| `ReleaseRow` | `release()`, which does not look whose place it gives back |
| `Leave`, `FailOpen`, `GiveUp` | a client that leaves pool and transaction; the caught failures; cancellation, crash and uncaught exceptions, that of `NOWAIT` on a locked row included |
| `ResetRow`, `ResetWindow` | the two statements of one `reset()` from another process |

A client reads its clock *before* it waits for a connection: `timer` is the age of that reading, up to
`MaxWait`, so stamps, not real times, are what is spaced. `DELETE` of old entries comes just before the lock in
the code and is part of `COUNT` and of the commit here: what is removed is the same while `MaxWait <= Window`, since
no entry that is written in between is old for the client that deletes. That a `DELETE` waits when another
transaction is deleting the same entries is left out. After a reset the
versions start at 1 again, so each version of the new row may be that which a client has read of the
old one: `NewVersion` takes any subset of `stale`. While there is no row, `current` is empty and every
`UPDATE` fails. `granted` holds the stamps of the required interval, or of the window, that ends now; a
place that was granted with an older one counts for no interval.
`PostgresPromise` extends it by `served`, the ages of the grants by the moments their statements were
executed, and states `KeepsPromise` as `RedisWindowPromise` does; the period is the required interval less
`MaxWait` for the token bucket, and the window less `MaxWait - 1` ticks for the sliding window.
`PostgresViewer` extends that by one `get_state()`, called again and again in another process, as
`RedisWindowViewer` does: `StateRow` is the one statement of the token bucket, `StateCount` and `StatePlaces` are
the two of the sliding window that decide `allowed`, each with a clock that was read up to `MaxWait` before.
Left out: a group without `max_concurrent`, metrics, `reset_all`, `disconnect`, pools the application
passes in, and the time to live the row does not have.

### LimiterRegistry
The registry of one process and the tasks that use it.

| model | code |
|---|---|
| `configured`, `current`, `made` | the table `_limiters`: how often an id was configured, and which of the limiters made for it the entry holds |
| `initialized`, `client`, `pool` | what `initialize()` of each engine leaves in a limiter |
| `Configure`, `Obtain`, `Obtained` | `configure_limiter`; `get_limiter` after `clone_limiter`, which makes the limiter |
| `Found`, `SetFlag`, `Connect`, `Answer`, `PoolMade`, `TablesMade`, `NoAnswer`, `ClientClosed`, `PoolClosed` | `_get_or_create_limiter` and the `initialize()` of the memory, Redis and PostgreSQL engines, with the clean-up of one that fails, `await` by `await` |
| `InitializeAll`, `Iterate`, `Conclude`, `IterationFails` | `initialize_all_limiters`, and the `RuntimeError` of a dictionary that grew |
| `Call`, `Answered`, `Cancel` | `acquire_context`, `@rate_limited`, `acquire`, the request of a dependency or the middleware; cancellation |
| `taken`, `Counter`, `Enter`, `Leave` | the places that operations have taken: of the limiter's own semaphore in the process; under the key or in the row of its id on a server, where every limiter made for the id counts |
| `FailOpen`, `FailClosed` | the `except` clause of an engine whose store has no `fail_closed`: the operation starts without a place, and its `release()` takes that of another |
| `answered`, `lost`, `contested` | history variables: the server answered; an open pool was lost; initializations overlapped or were cancelled |

A limiter is named by its id and its number, so that one that was replaced by `configure_limiter` lives on
in the operations it let in. What else takes places (calls that release none, other processes, clients that
crashed) only makes the limiter refuse more, which `Answered` may do at any time; expiry is a matter of
`RedisTokenBucket` and `RedisWindow`. The engine is the same for all ids. Left out: `disconnect`, which nothing in the package calls, and `configure_store`.

### LimitChecks
Tasks that check one limiter or a list of them.

| model | code |
|---|---|
| `kind` of a job | `"request"`: a dependency or the middleware; `"check"`: `check_limiter` with `acquire_if_allowed`; `"peek"`, `"multi"`: `check_multi_limiters` without and with it; `"all"`, `"any"`: a `CompositeRateLimiter`, whose `most_restrictive` decides like `all_must_pass` |
| `at`, `passed`, `refused` | the place in the list, and what the results so far say |
| `Grant`, `Deny`, `GiveBack`, `StateRead` | `try_acquire(0)`, and what follows it: the `release()` of a look, the `get_state` of a composite |
| `GoOn`, `SecondPass`, `Verdict` | the loops of `check_multi_limiters` and of `check`; `from_results`, `_apply_strategy` |
| `BackendFails`, `OtherFailure`, `NotFound` | failures the engine catches, as `RateLimiterAcquisitionError` or fail-open; any other exception: a failing `initialize()`, an error of the driver; `LimiterNotFoundError` |
| `failed` | history variable: the backend of a limiter declared with `fail_closed` failed, in either way |
| `failOpen`, `Raise` | `fail_open` of the front ends: what becomes of an exception that ends the check |
| `FailClosed`, `origin` | `fail_closed`, which arrives when the limiter was configured in the code, and does not from a file |
| `Forget` | the window passes or the keys expire |

`Deny` needs no limiter that is exhausted: `try_acquire(0)` also refuses when another task is in the way, with the
lock of an in-process limiter or between `SELECT` and `UPDATE` of a row. A check that met this is `disturbed`.

A limiter counts places, which `release()` gives back, or is one of a rate, whose slots it does not.
Calls have timeout 0, as the front ends make them; limiters are configured before and initialized in
the same step; nothing is released after an answer, as the front ends release nothing.

## 4. The runs

| run | instance | expected | shows |
|---|---|---|---|
| `MemoryTokenBucket` | 3 tasks, interval 2, 2 places, fair | pass | semaphore places conserved, metric exact, no idle place, no stranded queue, exact queues, refinement of `LimiterPromise`, every waiter served |
| `MemorySlidingWindow` | 4 tasks (symmetric), 2 grants in 3 ticks, 2 places | pass | `get_state` never refuses what would be granted, refinement of `LimiterPromise` |
| `RedisTokenBucket` | 3 clients (symmetric), 2 places, period 3, margin 1, time to live 4, delay 1, hold 3 | pass | the counter at the server is exact, refinement of `LimiterPromise` |
| `RedisFailOpen` | 2 clients, 1 place, fail-open, fair | pass | types, no phantom place, nobody is blocked for ever by lost places |
| `RedisWindow` | 2 clients, 2 grants in 3 ticks, 1 place, time to live 4, both engines, with and without fail-open | pass | no window over the limit, exact counter, no phantom place, `get_state` allows only after a moment with a slot free or on fail-open, refinement of `LimiterPromise` |
| `PostgresLimiter` | 2 clients, 1 place, period 3 or 2 grants in 2 ticks, 1 or 2 connections, waits up to 2, with and without fail-open | pass | rate kept by versions or lock, exact count, no phantom place, no circular wait, `get_state` allows only after a moment with a slot free or on fail-open, refinement of `LimiterPromise` |
| `LimiterRegistry` | 2 tasks, 2 ids of which one is a clone and may be configured twice, 1 place, 3 engines, of which Redis fails closed and PostgreSQL open | pass | one limiter per configuration, operations counted, no limiter asked too early, `initialize()` idempotent, all initialized |
| `LimitChecks` | 2 tasks, a limiter of places, one of a rate, a missing one, 1 slot each, 5 lists, code and file, front ends with and without `fail_open` | pass | what is allowed was granted, what is refused keeps no place, an undisturbed multi-check takes all, `fail_closed` blocks |
| `RedisLongOperation` | operations of 4 ticks, time to live 4 | violation | operations as long as the keys live escape `max_concurrent` |
| `MemorySlowRate` | interval longer than the horizon | violation | a rate below one per second is not kept |
| `MultiNotAtomic` | as `LimitChecks`, from code | violation | `check_multi_limiters` refuses and has consumed a slot of a rate all the same |
| `FileFailsOpen` | as `LimitChecks`, from a file | violation | `fail_closed` of a file does not block |

Why the bounds suffice. Memory: three tasks allow a holder, a woken waiter and one behind it in either
queue, which is what every action of lock and semaphore distinguishes; two places allow a hand-over
of several places at once in `HandOut`; four tasks in the window run fill the window, the places and
both queues. An interval of two ticks lets time pass inside a sleep and during a cancellation.
Redis: three clients allow two holders and one that is refused, a crash of one of them, and an
expiry that races the others; `MaxDelay` is how long a request may take (1: a request is judged with
an older time than another one that overtakes it), `MaxHold` how long a place may be held (3, the longest one less
than the time to live), `MaxTimeout` the longest timeout (0, 1 and none are tried). The time to live
is shorter than the five periods of the code so that keys expire within few ticks: the properties
depend only on its relation to `MaxHold` and to `Period + MaxDelay`.
In `RedisWindow` two clients fill a window of two, send two grants of one instant, and clean with old
times; `granted` counts at most one more than `Limit` for an age. PostgreSQL: two clients race for the
insert, for a version and for the lock, and with one connection a sleeper keeps the other, a releaser,
waiting; `MaxWait` (2) lets a stamp be older than a grant that was made after it, is shorter than the
period (3) and no longer than the window (2), so that `KeepsPromise` promises something of the rate: at most one
grant in one tick for the token bucket, and at most two in one tick for the sliding window; two ticks are violated
for either. In `RedisWindow` the promised period is two ticks, and three are violated. One `get_state` is enough in
both: it changes nothing the clients see but for the removal of old members, which `CleanState` lets anyone do at
any time, so two of them see no more of each other than one sees of the clients. Registry: two
tasks overlap in one `initialize()`, or one uses a limiter that the other, or `Configure`, replaces;
the second id grows the table during an iteration; the limiter of the id that is configured twice shares its place
with the one before it, on a server, and has its own in the process. The guard on `made` in `Obtain` never restricts:
no more limiters are made than configurations. Checks: two tasks disturb each other between two
passes; lists of two, in both orders, put the limiter that refuses first or last.

Deadlock is checked in every run but changes little where `Tick`, `Forget` or `Call` stay enabled;
`NoCircularWait` and the liveness properties are what excludes a real one.

**Fairness.** `WF(Tick)`: time passes. `WF(Resume(t))`: the event loop runs a task whose future is
done or whose timer is over. `WF(Release(t))`: operations end, and `acquire_context` releases in
a `finally`. Calls and cancellations are not fair: nobody must call or give up. For Redis, `WF(Tick)`
and `WF(Step(c))`: requests and replies of a live client arrive, sleepers wake, operations end. No
fairness is assumed of `GiveUp` and `FailOpen`, nor of any client against the others at the server:
`SomebodyServed` promises a grant to somebody, not to the one that waits, because polling clients
have no queue and one of them may lose every race. The modules of sections 3 without a fairness
formula state safety only: `NoCircularWait` says that whoever waits for the
pool or the lock waits, in the end, for a client that only the server or the clock has to serve. That a
`release()` which waits for a connection gets one is promised by nothing, for asyncpg serves its pool in no fixed order.

**What the code does not promise.** Met while modelling and kept out of the properties of passing runs:
`try_acquire(0)` of the in-process engine may wait behind a woken waiter (`memory.py:401`); its
`get_state` refuses for ever at rates below one per second, and too long at rates that are no whole
number (`memory.py:549`); a place lost on Redis
never expires under traffic (`redis.py:82`), and one lost on PostgreSQL never does; a sliding window of
`redis_sliding_window.py` may count two grants of one instant once; a limiter that is configured anew
while it is used lets in `max_concurrent` operations more in the process, and on a server counts with the old one;
with fail-open, the default of Redis and PostgreSQL limiters, operations run without a place and their `release()`
gives away that of another; initializations of one limiter that overlap,
fail or are cancelled may lose a pool or close that of another (`redis.py:405`), which then may be asked with its
client closed; the front ends' own `fail_open`, true by default (`docs/fastapi-integration.md:88`), lets through
what a `fail_closed` limiter does not answer at all: an `initialize()` that fails, or an error of the driver that
the engine does not catch (`dependencies.py:282`, `middleware.py:275`).

## 5. The proofs

**In-process engine.** `MemoryLimiterProofs` proves for all tasks, rates, windows and places
(assumption `MemoryAssumption`: finite `Tasks`, a positive limit, horizon and number of places):
`TypeOK`, `SlotConservation`, at most `MaxConcurrent` operations in flight, `MetricExact`,
`NoIdlePlace`, `LockExclusion`, `LockNotStranded`, `QueuesExact`; and `RateRespected` with
`Span <= Horizon + 1`, which holds for every sliding window and for a token bucket of at least one
grant per second, and which `MemorySlowRate` shows to be needed. Under the same condition
`EngineKeepsPromise` is that the engine implements `LimiterPromise`. `RefusedMeansBusy`, that
`get_state` refuses only when a call would have to wait, is proved for sliding windows and for limiters without
a rate. For a token bucket it does not hold: `get_state` counts against `int(rate_per_second)`, which is
rounded down, so at 1.5 grants per second it refuses for a second what is granted after two thirds of one.

The argument: none of these is inductive alone. A place is conserved only because a task is in one
queue once (or `RemoveAt` and `HandOut` would free two places for one), and queues are exact only
because places of `pc` and queues change together; a sleeper owns the lock, so the timestamps it saw
are still the last ones when it wakes. The invariant `IInv` is the conjunction of the typing of
`pc` and `left`, `LockInv` (lock, queue and woken task), `SemInv` (semaphore, queue, woken
tasks and metric) and `RateInv`: the grants of the last period are the last timestamps, and all
timestamps before them are older than the period (`Remembers`), so that a deque the code finds short
means a period with room; and a sleeper sleeps long enough for that. Each action preserves each
part, one lemma per action and part; general facts on sequences without repetition are lemmas over
an arbitrary set, and `AgesProofs` holds those on sequences of ages.

**Redis token bucket.** `RedisTokenBucketProofs` proves, for all clients, periods, margins, times to
live and delays (`RedisAssumption`: finite `Clients`, positive places, polling interval and time to
live, `Period + MaxDelay <= Ttl`; the code's time to live is more than five periods):

- `TypeOK` and `NoPhantomPlace` with no further condition, fail-open included;
- `CounterExact`, `ConcurrencyBounded` and the refinement of `LimiterPromise` when `FailClosed` and
  `MaxHold < Ttl`. `RedisLongOperation` shows that the second is needed; without the first a
  release may give back the place of another client.

The argument has two invariants. `RateInv`: while the promised period lasts, the rate key exists and
is older than the grant by no more than the delay of its request, so a script that finds the key
missing or an interval old comes after the period. `HoldInv`: the counted owners are the clients at a
place, the keys outlive every place (`KeysOutlive`: age of the place plus the rest of the time to live
is at least `Ttl`, which every later grant only raises), and the counter is their number plus the
places lost. From `KeysOutlive` a tick that expires the keys finds no owner, and all that is
forgotten is lost places.

**Sliding windows on Redis.** `RedisWindowProofs` proves, for all clients, limits, windows, places, times to
live and delays (`WindowAssumption`: finite `Clients`, positive bounds, `Window + MaxDelay <= Ttl`; the
code's time to live is twice the window, or the window and a minute), every property of the run `RedisWindow`:

- `TypeOK`, `RateRespected`, `AllowedWasFree` and `NoPhantomPlace` with no further condition, for both
  engines, fail-open and reset included;
- `CounterExact`, and at most `max_concurrent` operations in flight, when `MaxHold < Ttl`, as above.

`WindowInv` adds to the types that the sorted set has at most `limit` members, that it remembers
every grant of the window that ends now, and that it lives until the last of those has left. It is
kept because a request, however late, removes nothing that is young for *now* (`Prune` with a stamp keeps
more than the window), so a script that finds fewer than `limit` members knows of all grants. For the engine
whose members repeat, "remembers" is weaker, a member for an age with grants, and so is what follows.
`PlacesInv` and, with `KeysOutlive` as for the token bucket, `HoldInv` are about the counter.

`EngineKeepsPromise` is the refinement of `LimiterPromise`, when `MaxHold < Ttl`. A script that grants has
found fewer than `limit` members, that is, `granted` has room; the promise wants room in `served`, the same
grants by other times. `ServedInv` adds that the one follows the other (`Follows`, in `AgesProofs`): for every
age, at most as many grants were *made* since as there are grants *with a time* at most `MaxDelay` older.
A tick and a grant keep this (`FollowsOlder`, `FollowsGrant`), and for the oldest age it says that `served` is no
longer than `granted` has grants (`FollowsLen`). That only a free place is taken follows from the exact counter.

`AllowedIsFree` is about the answer of `get_state`, which reads the window and the places at different moments: both
were free together at one of them, or a failure answered. `ViewInv` carries this from one request to the next. When the
count has shown room, either a place was free then too, or every place is still taken; and while every place is
taken, no script adds a member, so the room that was counted stays (`RoomStays`) until the counter is read or a place
becomes free, which is the moment looked for. For the engine without places, a count that leaves out the members
younger than the time read is right about the moment of that reading: as long as no moment since was free, no
member has come (`NoneSince`).

**PostgreSQL.** `PostgresLimiterProofs` proves, for all clients, pools, periods, margins, limits, windows,
places and waits (`PostgresAssumption`: finite `Clients`, `Margin <= Period`, `MaxWait <= Window`), every
property of the run `PostgresLimiter` but two: `TypeOK`, `RateRespected`, `CounterExact`,
`NoPhantomPlace`, `NoCircularWait`; and that at most `max_concurrent` operations are in
flight when nothing is allowed on a failure nor reset.

`TypeOK` alone says that `count`, which `UPDATE` sets to a number read in an earlier statement, stays within
`max_concurrent`. Its invariant `FlowInv` ties each client's place in the program to what it
has read, to the lock (whoever counts or commits is the client in `locked`, so one at most, and the count
it read is the row's) and to the
versions (`current` and `stale` are disjoint, and inside `update`). On it rest:

- `RateInv`: for the sliding window, entries young enough for some request are at most `limit`,
  contain the grants of the window, and leave room for the client that is about to commit
  (`SlidingKept`; this is what the lock protects between `COUNT` and `INSERT`); for the token bucket before a
  reset, every counted grant is at least as old as `last`, and whoever is in `current` found the present
  row ready (`BucketKept`; this is what the version protects between `SELECT` and `UPDATE`).
- `PlacesInv`: who owns a place is where the code holds one, and the count is at most, and without failures and
  resets exactly, the places held and lost.
- `NoCircularWait`, from `FlowInv` alone: whoever has locked the row is in a transaction, thus connected, and
  no statement of a transaction waits; so a pool with no connection left has one with a client that can go on.

`PostgresRefinementProofs` proves `EngineKeepsPromise`: both algorithms implement `LimiterPromise` until a reset
and without fail-open, with no further assumption. As on Redis, `served` follows `granted` (`Follows`, with
`MaxWait` for the delay). Room is found from the other end: after a grant `RateRespected` holds of `granted`
and so bounds `served`, which was one shorter before (`GrantSeen`). Each step of the engine is then seen as a
tick, a granted start, an end or nothing (`StepsSeen`), and each of those is a step of the promise
(`BucketPromised`, `SlidingPromised`). Places are bounded by the exact count.

`AllowedIsFree`, in the same module, is the answer of `get_state`, by the argument given for Redis: while every
place is taken no transaction adds an entry (`NoEntry`), so room that was counted stays until a place is free
(`RoomStays`). An old clock, or entries too old for this moment, only make `get_state` count more (`CountFinds`).

Proving corrected these two models. The attempt on `PostgresLimiter` showed that in the model a client
could update a row a reset had deleted, which led to `stale`; and a total over ages was a fold, about which
nothing can be proved without induction. `Total` is now the cardinality of a set of pairs (`Members`), and
`AgesProofs` derives from the theorems on finite sets how it changes with one more grant, with a tick
and when old ones are left out (`TotalOneMore`, `TotalShift`, `TotalMonotone`). Where an argument needs the
youngest or the oldest of some ages, `LeastNatural` and `GreatestNatural` provide it. The lemmas on queues without
repetition are there as well, for the lock and semaphore of the in-process engine.

**Registry.** `LimiterRegistryProofs` proves, for all tasks, ids and bounds (`RegistryAssumption`), every
property of the run `LimiterRegistry`: `TypeOK`, `OneLimiterPerConfiguration`, `OperationsCounted`,
`AskedWhenAnswered`, `InitializeIdempotent` and the action property `AllInitialized`.

The invariant joins the table (`TableInv`: no more limiters made than configurations, and while the
entry has no limiter, none made at all or fewer than configurations), the tasks (`HasLimiter`: a task that
initializes, asks or runs got a limiter that was made), the places (`OperationsCounted` itself: under each counter at
most as many operations run as it counts), the answers, the connections
(`ConnectionInv`) and the iteration (`SweepInv`: a limiter the iteration has passed is initialized,
or being initialized by it, unless its entry was replaced since). `OperationsCounted` speaks of limiters in the process
and on a server that fails closed: `max_concurrent` bounds the operations there, since `TypeOK` bounds `taken`. `InitializeIdempotent` needs most: that an uncontested limiter is
initialized by one task at most, which owns the pool it is about to publish. One lemma per action.

**Checks.** `LimitChecksProofs` proves, for all tasks, limiters, lists and numbers of slots
(`ChecksAssumption`), `TypeOK`, `AllowedWasGranted`, `RefusedKeepsNoPlace` and `CodeBlocks`; and
`UndisturbedTakesAll` where no list names a limiter twice (`NoRepetition`).

The properties speak of answered checks, so the invariant says what a check on its way has so far
(`Looks`): of the limiters left of `at`, those it goes by were granted (`GrantedTo`); a check of several
limiters in its first pass has no place, but the one it is about to give back; in its second pass nothing
was refused; and one that goes on after the backend of a declared limiter failed is a multi-check that has refused,
since every other failure ends the check. `GoOnGood` shows that
going on keeps this or ends in an answer that is right (`Holds`); each action is then a case of it.

`UndisturbedTakesAll` has an invariant of its own, `FindInv`, about the checks nobody has disturbed: in
the first pass every limiter of places left of `at` has a free slot; in the second, those left of `at`
are taken once, and the others are free and untaken. A refusal of a limiter with a free slot means that another task
was in the way, and disturbs. Without repetition, the slot the check takes itself
is none of those it still counts on.

**Only model-checked:**

- liveness (`EveryWaiterServed`, `SomebodyServed`): out of the prover's reach.

Every other property of a passing run is stated by a theorem. The properties of the violation runs are false,
and where a theorem needs an assumption that such a run shows to be needed, it is named above.

## 6. Not modelled

- `reset()` of the in-process engine and of the Redis token bucket, `reset_all()`, and `testing.py` which
  calls them: the source gives them to tests. The resets that race operations in interesting ways, those
  of PostgreSQL and of the Redis window, are modelled.
- `disconnect()`: nothing in the package calls it.
- `contrib/prometheus`: a background push loop and metric declarations, independent of the limiters.
- Parsing and validation (`config.py`, `validation.py`, `schemas.py`), headers, responses, addresses,
  identifiers, exceptions: sequential code on one value. What of a configuration a limiter gets wrong
  (`fail_closed`) is in `LimitChecks`.
- Cumulative metrics, which nothing reads back.

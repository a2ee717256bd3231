--------------------------- MODULE MemoryLimiter ---------------------------
(***************************************************************************)
(* The in-process engine (engines/memory.py): tasks of one asyncio event   *)
(* loop share an asyncio.Lock that guards a deque of grant timestamps, and *)
(* an asyncio.Semaphore that bounds the operations in flight.              *)
(*                                                                         *)
(* A step is what a task runs between two suspension points, so a call     *)
(* that finds the lock free, the rate ready and a place in the semaphore   *)
(* is one step from entry to return.  A task can be cancelled at every     *)
(* suspension point: by the timeout of try_acquire(timeout > 0), which     *)
(* runs acquire() under asyncio.wait_for, or by its own caller.            *)
(*                                                                         *)
(* Time is discrete.  Timestamps are kept as ages (now - timestamp), which *)
(* is all the code computes from them, saturated one tick past Horizon,    *)
(* beyond which every timestamp is treated alike.                          *)
(***************************************************************************)
EXTENDS Naturals, FiniteSets, SequencesExt, Ages

CONSTANTS Tasks,          \* tasks that use the limiter
          Algorithm,      \* "token_bucket" or "sliding_window"
          Interval,       \* token_bucket: ticks between two grants (0: no rate limit)
          Limit,          \* sliding_window: grants per window
          Horizon,        \* ticks a timestamp is kept: 1 s, or window_seconds
          MaxConcurrent   \* places in the semaphore

ASSUME MemoryAssumption ==
  /\ IsFiniteSet(Tasks)
  /\ Algorithm \in {"token_bucket", "sliding_window"}
  /\ Interval \in Nat
  /\ Limit \in Nat \ {0}
  /\ Horizon \in Nat \ {0}
  /\ MaxConcurrent \in Nat \ {0}

VARIABLES
  pc,          \* where each task is; see Places
  left,        \* ticks of asyncio.sleep left to each task
  lockHeld,    \* asyncio.Lock._locked
  lockQueue,   \* tasks whose lock future is pending, in order
  lockWoken,   \* tasks whose lock future is done and which have not run yet
  timestamps,  \* self._timestamps as ages, oldest first
  semValue,    \* asyncio.Semaphore._value
  semQueue,    \* tasks whose semaphore future is pending, in order
  semWoken,    \* tasks handed a place which have not run yet
  current,     \* metrics.current_concurrent
  granted      \* history variable: ages of the grants made in the last Span ticks

lockVars == <<lockHeld, lockQueue, lockWoken>>
semVars  == <<semValue, semQueue, semWoken, current>>
rateVars == <<timestamps, granted>>
vars == <<pc, left, lockVars, rateVars, semVars>>

\* A task awaiting the lock is named after the call it makes: acquire(),
\* try_acquire(0) or get_state().
LockWait == {"acquire", "try", "state"}
Places == LockWait \cup {"idle", "sleep", "semaphore", "operation"}

At(place) == {t \in Tasks : pc[t] = place}
Waiting(t) == pc[t] \in LockWait \cup {"sleep", "semaphore"}

\* The period over which the engine bounds its grants, and the bound.
Span  == IF Algorithm = "token_bucket" THEN Interval ELSE Horizon + 1
Quota == IF Algorithm = "token_bucket" THEN 1 ELSE Limit

Init ==
  /\ pc = [t \in Tasks |-> "idle"]
  /\ left = [t \in Tasks |-> 0]
  /\ lockHeld = FALSE
  /\ lockQueue = <<>>
  /\ lockWoken = {}
  /\ timestamps = <<>>
  /\ semValue = MaxConcurrent
  /\ semQueue = <<>>
  /\ semWoken = {}
  /\ current = 0
  /\ granted = <<>>

-----------------------------------------------------------------------------
(* asyncio.Lock and asyncio.Semaphore *)

\* acquire() suspends unless the lock is free and nobody is before us.
LockFree == ~lockHeld /\ lockQueue = <<>> /\ lockWoken = {}

JoinLock(t) == lockQueue' = Append(lockQueue, t) /\ UNCHANGED <<lockHeld, lockWoken>>

\* release(), or a woken waiter that is cancelled: wake the first waiter.
PassLock ==
  /\ lockHeld' = FALSE
  /\ lockWoken' = IF lockQueue = <<>> THEN {} ELSE {Head(lockQueue)}
  /\ lockQueue' = IF lockQueue = <<>> THEN <<>> ELSE Tail(lockQueue)

KeepLock(t) == lockHeld' = TRUE /\ lockWoken' = lockWoken \ {t} /\ UNCHANGED lockQueue

SemLocked == semValue = 0 \/ semQueue # <<>> \/ semWoken # {}

\* release(): the place goes to the first waiter, and to the counter when
\* there is none.
GiveBack ==
  IF semQueue = <<>>
  THEN semValue' = semValue + 1 /\ UNCHANGED <<semQueue, semWoken>>
  ELSE /\ semWoken' = semWoken \cup {Head(semQueue)}
       /\ semQueue' = Tail(semQueue)
       /\ UNCHANGED semValue

\* The end of acquire() for a task that had to wait, cancelled or not: the
\* waiters that came while it had not run yet get what is free (Python 3.12.1).
HandOut(value, queue, woken) ==
  LET n == IF value < Len(queue) THEN value ELSE Len(queue) IN
  /\ semValue' = value - n
  /\ semQueue' = SubSeq(queue, n + 1, Len(queue))
  /\ semWoken' = woken \cup {queue[i] : i \in 1..n}

-----------------------------------------------------------------------------
(* The rate slot *)

\* while timestamps and timestamps[0] < now - horizon: popleft()
Prune(ages) == Fresh(ages, Horizon + 1)

RateReady(ages) ==
  IF Algorithm = "token_bucket"
  THEN ages # <<>> => Last(ages) >= Interval
  ELSE Len(ages) < Limit

\* The wait until the interval is over, or until the oldest grant leaves the
\* window (at least 1 ms: one tick).
WaitTime(ages) ==
  IF Algorithm = "token_bucket"
  THEN Interval - Last(ages)
  ELSE IF Head(ages) < Horizon THEN Horizon - Head(ages) ELSE 1

\* Mutant: the grant is not recorded.
GrantRate_Unrecorded(ages) ==
  /\ timestamps' = ages
  /\ granted' = Grant(granted, Span)

\* A limiter with max_concurrent only records nothing.
Unlimited == Algorithm = "token_bucket" /\ Interval = 0

GrantRate(ages) ==
  /\ timestamps' = IF Unlimited THEN ages ELSE Append(ages, 0)
  /\ granted' = Grant(granted, Span)

-----------------------------------------------------------------------------
(* The calls *)

Return(t) == pc' = [pc EXCEPT ![t] = "idle"] /\ left' = [left EXCEPT ![t] = 0]

\* The last part of a successful call: the operation is in flight.
Enter(t) ==
  /\ pc' = [pc EXCEPT ![t] = "operation"]
  /\ left' = [left EXCEPT ![t] = 0]
  /\ current' = current + 1

\* Mutant: the semaphore is entered whatever its value.
AcquireConcurrentSlot_Unchecked(t) ==
  /\ semValue' = semValue - 1
  /\ Enter(t)
  /\ UNCHANGED <<semQueue, semWoken>>

\* Mutant: the metric is recorded before the wait.
AcquireConcurrentSlot_EarlyMetric(t) ==
  \/ /\ ~SemLocked
     /\ semValue' = semValue - 1
     /\ Enter(t)
     /\ UNCHANGED <<semQueue, semWoken>>
  \/ /\ SemLocked
     /\ semQueue' = Append(semQueue, t)
     /\ pc' = [pc EXCEPT ![t] = "semaphore"]
     /\ left' = [left EXCEPT ![t] = 0]
     /\ current' = current + 1
     /\ UNCHANGED <<semValue, semWoken>>

\* _acquire_concurrent_slot
AcquireConcurrentSlot(t) ==
  \/ /\ ~SemLocked
     /\ semValue' = semValue - 1
     /\ Enter(t)
     /\ UNCHANGED <<semQueue, semWoken>>
  \/ /\ SemLocked
     /\ semQueue' = Append(semQueue, t)
     /\ pc' = [pc EXCEPT ![t] = "semaphore"]
     /\ left' = [left EXCEPT ![t] = 0]
     /\ UNCHANGED <<semValue, semWoken, current>>

\* Mutant: the task that must wait leaves the lock before it sleeps.
AcquireLocked_Unlocked(t) ==
  LET ages == Prune(timestamps) IN
  /\ PassLock
  /\ \/ /\ RateReady(ages)
        /\ GrantRate(ages)
        /\ AcquireConcurrentSlot(t)
     \/ /\ ~RateReady(ages)
        /\ timestamps' = ages
        /\ pc' = [pc EXCEPT ![t] = "sleep"]
        /\ left' = [left EXCEPT ![t] = WaitTime(ages)]
        /\ UNCHANGED <<granted, semVars>>

\* acquire() once the lock is ours.  A task that must wait sleeps with the
\* lock held.
AcquireLocked(t) ==
  LET ages == Prune(timestamps) IN
  \/ /\ RateReady(ages)
     /\ GrantRate(ages)
     /\ PassLock
     /\ AcquireConcurrentSlot(t)
  \/ /\ ~RateReady(ages)
     /\ timestamps' = ages
     /\ KeepLock(t)
     /\ pc' = [pc EXCEPT ![t] = "sleep"]
     /\ left' = [left EXCEPT ![t] = WaitTime(ages)]
     /\ UNCHANGED <<granted, semVars>>

\* Mutant: the semaphore is released when it was only found full.
TryLocked_Refunds(t) ==
  LET ages == Prune(timestamps) IN
  /\ PassLock
  /\ Return(t)
  /\ IF RateReady(ages)
     THEN GrantRate(ages) /\ GiveBack /\ UNCHANGED current
     ELSE timestamps' = ages /\ UNCHANGED <<granted, semVars>>

\* _try_acquire_immediate once the lock is ours.  The rate slot is taken
\* before the semaphore is looked at, and is not given back.
TryLocked(t) ==
  LET ages == Prune(timestamps) IN
  /\ PassLock
  /\ \/ /\ RateReady(ages)
        /\ GrantRate(ages)
        /\ \/ /\ SemLocked
              /\ Return(t)
              /\ UNCHANGED semVars
           \/ /\ ~SemLocked
              /\ semValue' = semValue - 1
              /\ Enter(t)
              /\ UNCHANGED <<semQueue, semWoken>>
     \/ /\ ~RateReady(ages)
        /\ timestamps' = ages
        /\ Return(t)
        /\ UNCHANGED <<granted, semVars>>

\* get_state() filters a copy of the deque under the lock.
StateLocked(t) == PassLock /\ Return(t) /\ UNCHANGED <<rateVars, semVars>>

Locked(t, call) ==
  \/ call = "acquire" /\ AcquireLocked(t)
  \/ call = "try" /\ TryLocked(t)
  \/ call = "state" /\ StateLocked(t)

\* A call is made.  try_acquire(0) first looks at lock.locked(); when that
\* is TRUE it returns False at once, which changes counters only.
Call(t, call) ==
  /\ pc[t] = "idle"
  /\ call = "try" => ~lockHeld
  /\ \/ LockFree /\ Locked(t, call)
     \/ /\ ~LockFree
        /\ JoinLock(t)
        /\ pc' = [pc EXCEPT ![t] = call]
        /\ UNCHANGED <<left, rateVars, semVars>>

LockWakeup(t) == t \in lockWoken /\ Locked(t, pc[t])

\* asyncio.sleep is over: the token bucket records the grant, the sliding
\* window looks at the deque again.
SleepDone(t) ==
  /\ pc[t] = "sleep"
  /\ left[t] = 0
  /\ \/ /\ Algorithm = "token_bucket"
        /\ GrantRate(timestamps)
        /\ PassLock
        /\ AcquireConcurrentSlot(t)
     \/ Algorithm = "sliding_window" /\ AcquireLocked(t)

SemWakeup(t) ==
  /\ t \in semWoken
  /\ HandOut(semValue, semQueue, semWoken \ {t})
  /\ Enter(t)
  /\ UNCHANGED <<lockVars, rateVars>>

\* Mutant: the metric is not decremented.
Release_NoMetric(t) ==
  /\ pc[t] = "operation"
  /\ GiveBack
  /\ Return(t)
  /\ UNCHANGED <<lockVars, rateVars, current>>

\* Mutant: the place is added to the counter behind the semaphore's back.
Release_NoWake(t) ==
  /\ pc[t] = "operation"
  /\ semValue' = semValue + 1
  /\ current' = IF current > 0 THEN current - 1 ELSE 0
  /\ Return(t)
  /\ UNCHANGED <<lockVars, rateVars, semQueue, semWoken>>

\* release(), once per success (the finally of acquire_context).
Release(t) ==
  /\ pc[t] = "operation"
  /\ GiveBack
  /\ current' = IF current > 0 THEN current - 1 ELSE 0
  /\ Return(t)
  /\ UNCHANGED <<lockVars, rateVars>>

\* The timeout of try_acquire(timeout > 0), where wait_for cancels acquire(),
\* or the caller's own cancellation: one action per place CancelledError can
\* be raised at.
CancelInLockQueue(t) ==
  /\ \E i \in DOMAIN lockQueue : lockQueue[i] = t /\ lockQueue' = RemoveAt(lockQueue, i)
  /\ Return(t)
  /\ UNCHANGED <<lockHeld, lockWoken, rateVars, semVars>>

\* Mutant: the cancelled task does not wake the next one.
CancelWokenByLock_NoWake(t) ==
  /\ t \in lockWoken
  /\ lockWoken' = {}
  /\ Return(t)
  /\ UNCHANGED <<lockHeld, lockQueue, rateVars, semVars>>

CancelWokenByLock(t) ==
  /\ t \in lockWoken
  /\ PassLock
  /\ Return(t)
  /\ UNCHANGED <<rateVars, semVars>>

\* Mutant: the lock is not released when the sleep is cancelled.
CancelAsleep_KeepsLock(t) ==
  /\ pc[t] = "sleep"
  /\ Return(t)
  /\ UNCHANGED <<lockVars, rateVars, semVars>>

CancelAsleep(t) ==
  /\ pc[t] = "sleep"
  /\ PassLock
  /\ Return(t)
  /\ UNCHANGED <<rateVars, semVars>>

\* Mutant: the future of the cancelled task stays in the queue.
CancelInSemQueue_Stays(t) ==
  /\ t \in ToSet(semQueue)
  /\ Return(t)
  /\ UNCHANGED <<lockVars, rateVars, semVars>>

CancelInSemQueue(t) ==
  /\ \E i \in DOMAIN semQueue :
       semQueue[i] = t /\ HandOut(semValue, RemoveAt(semQueue, i), semWoken)
  /\ Return(t)
  /\ UNCHANGED <<lockVars, rateVars, current>>

\* The place handed to the cancelled task goes to the next one.
CancelWokenBySem(t) ==
  /\ t \in semWoken
  /\ HandOut(semValue + 1, semQueue, semWoken \ {t})
  /\ Return(t)
  /\ UNCHANGED <<lockVars, rateVars, current>>

Cancel(t) ==
  \/ CancelInLockQueue(t) \/ CancelWokenByLock(t) \/ CancelAsleep(t)
  \/ CancelInSemQueue(t) \/ CancelWokenBySem(t)

\* Time passes.  A sleeper whose time is over may be late.
Tick ==
  /\ timestamps' = [i \in DOMAIN timestamps |->
                      IF timestamps[i] > Horizon THEN timestamps[i] ELSE timestamps[i] + 1]
  /\ left' = [t \in Tasks |-> IF left[t] > 0 THEN left[t] - 1 ELSE 0]
  /\ granted' = Fresh(Older(granted), Span)
  /\ UNCHANGED <<pc, lockVars, semVars>>

Resume(t) == LockWakeup(t) \/ SleepDone(t) \/ SemWakeup(t)

Next ==
  \/ Tick
  \/ \E t \in Tasks : \/ \E call \in LockWait : Call(t, call)
                      \/ Resume(t) \/ Release(t) \/ Cancel(t)

Spec == Init /\ [][Next]_vars

\* The event loop runs every task that is ready, time passes, and every
\* operation ends and releases its place.  Nobody is obliged to call or to
\* cancel.
Fairness ==
  /\ WF_vars(Tick)
  /\ \A t \in Tasks : WF_vars(Resume(t)) /\ WF_vars(Release(t))

FairSpec == Spec /\ Fairness
-----------------------------------------------------------------------------
(* What get_state() reports *)

\* Timestamps not older than the horizon.
Usage == Cardinality({i \in DOMAIN timestamps : timestamps[i] <= Horizon})

\* remaining is the smaller of the two; int(rate_per_second) is Horizon \div
\* Interval, as the horizon of the token bucket is one second.
RemainingRate ==
  LET most == IF Algorithm = "sliding_window" THEN Limit ELSE Horizon \div Interval
  IN  IF Usage < most THEN most - Usage ELSE 0

RemainingConcurrent == IF current < MaxConcurrent THEN MaxConcurrent - current ELSE 0

StateAllowed ==
  /\ ~Unlimited => RemainingRate > 0
  /\ RemainingConcurrent > 0

\* What try_acquire(0) would answer in this state.
CanAcquireNow == LockFree /\ RateReady(Prune(timestamps)) /\ ~SemLocked

-----------------------------------------------------------------------------
(* Properties *)

TypeOK ==
  /\ pc \in [Tasks -> Places]
  /\ left \in [Tasks -> Nat]
  /\ lockHeld \in BOOLEAN
  /\ lockQueue \in Seq(Tasks)
  /\ lockWoken \in SUBSET Tasks
  /\ timestamps \in Seq(0..Horizon+1)
  /\ semValue \in Nat
  /\ semQueue \in Seq(Tasks)
  /\ semWoken \in SUBSET Tasks
  /\ current \in Nat
  /\ granted \in Seq(0..Span-1)

\* The places of the semaphore are neither lost nor made up, whatever calls,
\* timeouts and cancellations cross: each is free, or handed to a task that
\* is about to run, or taken by an operation (memory.py _semaphore).
SlotConservation ==
  semValue + Cardinality(semWoken) + Cardinality(At("operation")) = MaxConcurrent

\* current_concurrent, from which get_state computes the places left, counts
\* the operations in flight: the clamp of record_concurrent_release at zero
\* never hides a release (core.py:68).
MetricExact == current = Cardinality(At("operation"))

\* No task waits for a place while one is free, unless a task that will hand
\* it on is about to run, also when the task a place was handed to has been
\* cancelled (memory.py:287-297 under wait_for).
NoIdlePlace == semQueue # <<>> => semValue = 0 \/ semWoken # {}

\* At most one task is inside the lock or about to enter it, so the deque is
\* never read and then extended by two tasks (memory.py:225-245).
LockExclusion ==
  /\ lockHeld <=> At("sleep") # {}
  /\ \A t, u \in At("sleep") \cup lockWoken : t = u

\* A task that is cancelled while it holds the lock or was just woken for it
\* wakes the next one: the queue is never left with nobody to serve it.
LockNotStranded == lockQueue # <<>> => lockHeld \/ lockWoken # {}

\* Every suspended task is in the one queue that will resume it, once.
QueuesExact ==
  /\ IsInjective(lockQueue)
  /\ IsInjective(semQueue)
  /\ ToSet(lockQueue) \cap lockWoken = {}
  /\ ToSet(semQueue) \cap semWoken = {}
  /\ {t \in Tasks : pc[t] \in LockWait} = ToSet(lockQueue) \cup lockWoken
  /\ At("semaphore") = ToSet(semQueue) \cup semWoken

\* At most Quota grants are made in any Span ticks: limit grants in a window
\* (memory.py:285), and one in an interval ("_interval: Minimum interval
\* between operations", memory.py:63).
RateRespected == Span > 0 => Len(granted) <= Quota

\* get_state never reports a limiter exhausted that would accept a call now
\* (schemas.py:245, "allowed: Whether the next acquire() would succeed").
RefusedMeansBusy == CanAcquireNow => StateAllowed

\* Every acquire() that is not cancelled gets its place, however many other
\* calls come, go, time out and are cancelled.
EveryWaiterServed == \A t \in Tasks : Waiting(t) ~> ~Waiting(t)

\* The engine implements what a limiter promises.
Promise == INSTANCE LimiterPromise WITH
  paid <- At("semaphore"), inFlight <- At("operation")
ImplementsPromise == Promise!Spec
=============================================================================

------------------------ MODULE MemoryLimiterProofs ------------------------
(***************************************************************************)
(* Proofs about the in-process engine, for every number of tasks, every    *)
(* rate and every number of places.                                        *)
(***************************************************************************)
EXTENDS MemoryLimiter, AgesProofs

-----------------------------------------------------------------------------
(***************************************************************************)
(* The lock.  LockInv is inductive by itself: it speaks of the lock's own  *)
(* variables and of the tasks that await it or sleep inside it.            *)
(***************************************************************************)
PcTyping == pc \in [Tasks -> Places]

LockInv ==
  /\ lockHeld \in BOOLEAN
  /\ lockQueue \in Seq(Tasks)
  /\ lockWoken \in SUBSET Tasks
  /\ IsInjective(lockQueue)
  /\ ToSet(lockQueue) \cap lockWoken = {}
  /\ {t \in Tasks : pc[t] \in LockWait} = ToSet(lockQueue) \cup lockWoken
  /\ LockExclusion
  /\ LockNotStranded

\* The lock is t's: free and t is about to take it, or passed to t, or held.
Owner(t) ==
  \/ pc[t] = "idle" /\ LockFree
  \/ t \in lockWoken
  \/ pc[t] = "sleep"

MoveTo(t, place) == pc' = [pc EXCEPT ![t] = place]

LEMMA OwnerAlone ==
  ASSUME PcTyping, LockInv, NEW t \in Tasks, Owner(t)
  PROVE  At("sleep") \cup lockWoken \subseteq {t}
  BY DEF PcTyping, LockInv, LockExclusion, Owner, LockFree, At

\* The owner passes the lock on and goes where nobody needs the lock.
LEMMA PassLockPreserves ==
  ASSUME PcTyping, LockInv, NEW t \in Tasks, Owner(t), PassLock,
         NEW place \in Places \ (LockWait \cup {"sleep"}), MoveTo(t, place)
  PROVE  LockInv'
<1>1. /\ \A u \in Tasks \ {t} : pc[u] # "sleep" /\ u \notin lockWoken /\ pc'[u] = pc[u]
      /\ pc'[t] \notin LockWait \cup {"sleep"}
  BY OwnerAlone DEF PcTyping, MoveTo, At
<1>2. At("sleep")' = {}
  BY <1>1 DEF At
<1>3. t \notin ToSet(lockQueue)
  BY DEF LockInv, Owner, LockFree, LockWait, ToSet, PcTyping
<1>4. {u \in Tasks : pc'[u] \in LockWait} = ToSet(lockQueue)
  BY <1>1, <1>3 DEF LockInv
<1>5. CASE lockQueue = <<>>
  <2>1. lockHeld' = FALSE /\ lockQueue' = <<>> /\ lockWoken' = {}
    BY <1>5 DEF PassLock
  <2>2. ToSet(lockQueue') = {} /\ ToSet(lockQueue) = {} /\ IsInjective(lockQueue')
    BY <1>5, <2>1 DEF ToSet, IsInjective
  <2>3. lockQueue' \in Seq(Tasks)
    BY <2>1, EmptySeq
  <2>4. {u \in Tasks : pc'[u] \in LockWait} = ToSet(lockQueue') \cup lockWoken'
    BY <1>4, <2>1, <2>2
  <2> QED
    BY <1>2, <2>1, <2>2, <2>3, <2>4 DEF LockInv, LockExclusion, LockNotStranded
<1>6. CASE lockQueue # <<>>
  <2>1. lockHeld' = FALSE /\ lockQueue' = Tail(lockQueue) /\ lockWoken' = {Head(lockQueue)}
    BY <1>6 DEF PassLock
  <2>2. /\ lockQueue' \in Seq(Tasks)
        /\ lockWoken' \in SUBSET Tasks
        /\ IsInjective(lockQueue')
        /\ ToSet(lockQueue') = ToSet(lockQueue) \ {Head(lockQueue)}
        /\ Head(lockQueue) \in ToSet(lockQueue)
    BY <1>6, <2>1, QueueTail DEF LockInv
  <2>3. {u \in Tasks : pc'[u] \in LockWait} = ToSet(lockQueue') \cup lockWoken'
    BY <1>4, <2>1, <2>2
  <2> QED
    BY <1>2, <2>1, <2>2, <2>3 DEF LockInv, LockExclusion, LockNotStranded
<1> QED
  BY <1>5, <1>6

\* The owner goes to sleep with the lock held.
LEMMA KeepLockPreserves ==
  ASSUME PcTyping, LockInv, NEW t \in Tasks, Owner(t), KeepLock(t), MoveTo(t, "sleep")
  PROVE  LockInv'
<1>1. /\ \A u \in Tasks \ {t} : pc[u] # "sleep" /\ u \notin lockWoken /\ pc'[u] = pc[u]
      /\ pc'[t] = "sleep"
  BY OwnerAlone DEF PcTyping, MoveTo, At
<1>2. At("sleep")' = {t}
  BY <1>1 DEF At
<1>3. t \notin ToSet(lockQueue)
  BY DEF LockInv, Owner, LockFree, LockWait, ToSet, PcTyping
<1>4. {u \in Tasks : pc'[u] \in LockWait} = ToSet(lockQueue)
  BY <1>1, <1>3 DEF LockInv, LockWait
<1>5. lockHeld' = TRUE /\ lockQueue' = lockQueue /\ lockWoken' = {}
  BY <1>1 DEF KeepLock, LockInv
<1> QED
  BY <1>2, <1>4, <1>5 DEF LockInv, LockExclusion, LockNotStranded

\* A call finds the lock taken, or somebody before it.
LEMMA JoinLockPreserves ==
  ASSUME PcTyping, LockInv, NEW t \in Tasks, pc[t] = "idle", ~LockFree, JoinLock(t),
         NEW call \in LockWait, MoveTo(t, call)
  PROVE  LockInv'
<1>1. t \notin ToSet(lockQueue) /\ t \notin lockWoken
  BY DEF LockInv, LockWait
<1>2. /\ lockQueue' \in Seq(Tasks)
      /\ IsInjective(lockQueue')
      /\ ToSet(lockQueue') = ToSet(lockQueue) \cup {t}
      /\ UNCHANGED <<lockHeld, lockWoken>>
  BY <1>1, QueueAppend DEF LockInv, JoinLock
<1>3. At("sleep")' = At("sleep")
  BY DEF At, MoveTo, PcTyping, LockWait
<1>4. {u \in Tasks : pc'[u] \in LockWait} = ToSet(lockQueue') \cup lockWoken'
  BY <1>2 DEF MoveTo, PcTyping, LockInv
<1>5. lockHeld \/ lockWoken # {}
  BY DEF LockFree, LockInv, LockNotStranded
<1> QED
  BY <1>1, <1>2, <1>3, <1>4, <1>5 DEF LockInv, LockExclusion, LockNotStranded

\* A task leaves the queue before its turn.
LEMMA LeaveLockQueuePreserves ==
  ASSUME PcTyping, LockInv, NEW t \in Tasks, CancelInLockQueue(t)
  PROVE  LockInv'
<1>1. PICK i \in DOMAIN lockQueue : lockQueue[i] = t /\ lockQueue' = RemoveAt(lockQueue, i)
  BY DEF CancelInLockQueue
<1>2. i \in 1..Len(lockQueue)
  BY <1>1 DEF LockInv
<1>3. /\ lockQueue' \in Seq(Tasks)
      /\ IsInjective(lockQueue')
      /\ ToSet(lockQueue') = ToSet(lockQueue) \ {t}
      /\ t \in ToSet(lockQueue)
  BY <1>1, <1>2, QueueRemoveAt DEF LockInv, ToSet
<1>4. UNCHANGED <<lockHeld, lockWoken>> /\ MoveTo(t, "idle")
  BY DEF CancelInLockQueue, Return, MoveTo
<1>5. pc[t] \in LockWait /\ t \notin lockWoken
  BY <1>3 DEF LockInv
<1>6. At("sleep")' = At("sleep")
  BY <1>4, <1>5 DEF At, MoveTo, PcTyping, LockWait
<1>7. {u \in Tasks : pc'[u] \in LockWait} = ToSet(lockQueue') \cup lockWoken'
  BY <1>3, <1>4, <1>5 DEF MoveTo, PcTyping, LockInv, LockWait
<1>8. lockQueue # <<>>
  BY <1>2
<1> QED
  BY <1>3, <1>4, <1>6, <1>7, <1>8 DEF LockInv, LockExclusion, LockNotStranded

\* Whoever moves between places that do not involve the lock leaves it alone.
LEMMA LockUntouched ==
  ASSUME PcTyping, LockInv, UNCHANGED lockVars, NEW t \in Tasks,
         pc[t] \notin LockWait \cup {"sleep"},
         NEW place \in Places \ (LockWait \cup {"sleep"}), MoveTo(t, place)
  PROVE  LockInv'
<1>1. At("sleep")' = At("sleep")
  BY DEF At, MoveTo, PcTyping
<1>2. {u \in Tasks : pc'[u] \in LockWait} = {u \in Tasks : pc[u] \in LockWait}
  BY DEF MoveTo, PcTyping
<1> QED
  BY <1>1, <1>2 DEF LockInv, LockExclusion, LockNotStranded, lockVars

-----------------------------------------------------------------------------
(***************************************************************************)
(* The semaphore.  SemInv is inductive by itself: it speaks of the         *)
(* semaphore's own variables, of the tasks that await it and of the        *)
(* operations in flight.                                                   *)
(***************************************************************************)
SemInv ==
  /\ semValue \in Nat
  /\ semQueue \in Seq(Tasks)
  /\ semWoken \in SUBSET Tasks
  /\ current \in Nat
  /\ IsInjective(semQueue)
  /\ ToSet(semQueue) \cap semWoken = {}
  /\ At("semaphore") = ToSet(semQueue) \cup semWoken
  /\ SlotConservation
  /\ MetricExact
  /\ NoIdlePlace

LEMMA FiniteTasks ==
  ASSUME NEW T \in SUBSET Tasks
  PROVE  IsFiniteSet(T) /\ Cardinality(T) \in Nat
  BY MemoryAssumption, FS_Subset, FS_CardinalityType DEF MemoryAssumption

LEMMA DisjointUnion ==
  ASSUME NEW S \in SUBSET Tasks, NEW T \in SUBSET Tasks, S \cap T = {}
  PROVE  Cardinality(S \cup T) = Cardinality(S) + Cardinality(T)
<1>1. /\ IsFiniteSet(S) /\ Cardinality(S) \in Nat
      /\ IsFiniteSet(T) /\ Cardinality(T) \in Nat
  BY FiniteTasks
<1>2. Cardinality(S \cup T) = Cardinality(S) + Cardinality(T) - Cardinality(S \cap T)
  BY <1>1, FS_Union
<1>3. Cardinality(S \cap T) = 0
  BY FS_EmptySet
<1> QED
  BY <1>1, <1>2, <1>3

\* The first n tasks of a queue are n tasks.
LEMMA PrefixCardinality ==
  ASSUME NEW q \in Seq(Tasks), IsInjective(q), NEW n \in 0..Len(q)
  PROVE  Cardinality({q[i] : i \in 1..n}) = n
<1> DEFINE front == {q[i] : i \in 1..n}
           f == [i \in 1..n |-> q[i]]
<1>1. f \in Bijection(1..n, front)
  <2>1. f \in [1..n -> front]
    OBVIOUS
  <2>2. IsInjective(f)
    BY DEF IsInjective
  <2>3. \A x \in front : \E i \in 1..n : f[i] = x
    OBVIOUS
  <2> QED
    BY <2>1, <2>2, <2>3 DEF Bijection, Injection, Surjection
<1>2. ExistsBijection(1..n, front)
  BY <1>1 DEF ExistsBijection
<1> HIDE DEF front
<1>3. Cardinality(front) = n
  BY <1>2, FS_CountingElements
<1> QED
  BY <1>3 DEF front

\* Handing out what is free moves tasks from the queue to the woken ones,
\* loses no place, and stops only when no place or no waiter is left.
LEMMA HandOutEffect ==
  ASSUME NEW value \in Nat, NEW queue \in Seq(Tasks), IsInjective(queue),
         NEW woken \in SUBSET Tasks, ToSet(queue) \cap woken = {},
         HandOut(value, queue, woken)
  PROVE  /\ semValue' \in Nat
         /\ semQueue' \in Seq(Tasks)
         /\ semWoken' \in SUBSET Tasks
         /\ IsInjective(semQueue')
         /\ ToSet(semQueue') \cap semWoken' = {}
         /\ ToSet(semQueue') \cup semWoken' = ToSet(queue) \cup woken
         /\ semValue' + Cardinality(semWoken') = value + Cardinality(woken)
         /\ semQueue' # <<>> => semValue' = 0
<1> DEFINE n == IF value < Len(queue) THEN value ELSE Len(queue)
           front == {queue[i] : i \in 1..n}
<1>1. /\ n \in 0..Len(queue) /\ n <= value
      /\ semValue' = value - n
      /\ semQueue' = SubSeq(queue, n + 1, Len(queue))
      /\ semWoken' = woken \cup front
  BY DEF HandOut
<1>2. n < Len(queue) => semValue' = 0
  BY <1>1
<1>3. Cardinality(front) = n
  BY <1>1, PrefixCardinality
<1>4. front \subseteq ToSet(queue)
  BY <1>1 DEF ToSet
<1> HIDE DEF n
<1>5. /\ semQueue' \in Seq(Tasks)
      /\ Len(semQueue') = Len(queue) - n
      /\ IsInjective(semQueue')
      /\ ToSet(semQueue') = ToSet(queue) \ front
  <2>1. n \in 0..Len(queue)
    BY <1>1
  <2> DEFINE rest == SubSeq(queue, n + 1, Len(queue))
  <2>2. rest \in Seq(Tasks) /\ IsDrop(rest, queue, n)
    BY <2>1, SubSeqDrops
  <2> HIDE DEF rest
  <2>3. IsInjective(rest) /\ ToSet(rest) = ToSet(queue) \ {queue[i] : i \in 1..n}
    BY <2>1, <2>2, QueueDrop
  <2> QED
    BY <1>1, <2>2, <2>3 DEF rest, IsDrop
<1> HIDE DEF front
<1>6. front \in SUBSET Tasks
  <2>1. ToSet(queue) \subseteq Tasks
    BY QueueElements
  <2> QED
    BY <1>4, <2>1
<1>7. Cardinality(woken \cup front) = Cardinality(woken) + Cardinality(front)
  BY <1>4, <1>6, DisjointUnion
<1>8. semQueue' # <<>> => semValue' = 0
  BY <1>1, <1>2, <1>5
<1>9. semValue' + Cardinality(semWoken') = value + Cardinality(woken)
  BY <1>1, <1>3, <1>7, FiniteTasks
<1> QED
  BY <1>1, <1>4, <1>5, <1>6, <1>8, <1>9

\* The operations in flight, when one starts and when one ends.
LEMMA OperationStarts ==
  ASSUME PcTyping, NEW t \in Tasks, pc[t] # "operation", MoveTo(t, "operation")
  PROVE  Cardinality(At("operation")') = Cardinality(At("operation")) + 1
<1>1. At("operation")' = At("operation") \cup {t} /\ t \notin At("operation")
  BY DEF At, MoveTo, PcTyping
<1>2. At("operation") \in SUBSET Tasks
  BY DEF At
<1> QED
  BY <1>1, <1>2, FiniteTasks, FS_AddElement

LEMMA OperationEnds ==
  ASSUME PcTyping, NEW t \in Tasks, pc[t] = "operation", MoveTo(t, "idle")
  PROVE  /\ Cardinality(At("operation")') = Cardinality(At("operation")) - 1
         /\ Cardinality(At("operation")) > 0
<1>1. At("operation")' = At("operation") \ {t} /\ t \in At("operation")
  BY DEF At, MoveTo, PcTyping
<1>2. At("operation") \in SUBSET Tasks /\ At("operation")' \in SUBSET Tasks
  BY DEF At
<1>3. Cardinality(At("operation")') = Cardinality(At("operation")) - 1
  BY <1>1, <1>2, FiniteTasks, FS_RemoveElement
<1> QED
  BY <1>2, <1>3, FiniteTasks

\* Whoever moves between places that do not involve the semaphore.
LEMMA SemUntouched ==
  ASSUME PcTyping, SemInv, UNCHANGED semVars, NEW t \in Tasks,
         pc[t] \notin {"semaphore", "operation"},
         NEW place \in Places \ {"semaphore", "operation"}, MoveTo(t, place)
  PROVE  SemInv'
<1>1. At("semaphore")' = At("semaphore") /\ At("operation")' = At("operation")
  BY DEF At, MoveTo, PcTyping
<1> QED
  BY <1>1 DEF SemInv, semVars, SlotConservation, MetricExact, NoIdlePlace

\* A place is free and nobody is before us.
TakesPlace(t) ==
  /\ ~SemLocked
  /\ semValue' = semValue - 1
  /\ Enter(t)
  /\ UNCHANGED <<semQueue, semWoken>>

LEMMA TakesPlacePreserves ==
  ASSUME PcTyping, SemInv, NEW t \in Tasks,
         pc[t] \notin {"semaphore", "operation"}, TakesPlace(t)
  PROVE  SemInv'
<1>1. MoveTo(t, "operation") /\ current' = current + 1
  BY DEF TakesPlace, Enter, MoveTo
<1>2. At("semaphore")' = At("semaphore")
  BY <1>1 DEF At, MoveTo, PcTyping
<1>3. Cardinality(At("operation")') = Cardinality(At("operation")) + 1
  BY <1>1, OperationStarts
<1>4. /\ semValue' = semValue - 1 /\ semValue > 0
      /\ semQueue' = semQueue /\ semQueue = <<>>
      /\ semWoken' = semWoken
  BY DEF TakesPlace, SemLocked, SemInv
<1>5. Cardinality(At("operation")) \in Nat /\ Cardinality(semWoken) \in Nat
  BY FiniteTasks DEF At, SemInv
<1>6. SlotConservation' /\ MetricExact'
  BY <1>1, <1>3, <1>4, <1>5 DEF SemInv, SlotConservation, MetricExact
<1> QED
  BY <1>1, <1>2, <1>4, <1>6 DEF SemInv, NoIdlePlace

\* No place is free, or somebody is before us.
LEMMA JoinSemPreserves ==
  ASSUME PcTyping, SemInv, NEW t \in Tasks,
         pc[t] \notin {"semaphore", "operation"},
         SemLocked, semQueue' = Append(semQueue, t), MoveTo(t, "semaphore"),
         UNCHANGED <<semValue, semWoken, current>>
  PROVE  SemInv'
<1>1. t \notin ToSet(semQueue) /\ t \notin semWoken
  BY DEF SemInv, At
<1>2. /\ semQueue' \in Seq(Tasks)
      /\ IsInjective(semQueue')
      /\ ToSet(semQueue') = ToSet(semQueue) \cup {t}
  BY <1>1, QueueAppend DEF SemInv
<1>3. At("semaphore")' = At("semaphore") \cup {t} /\ At("operation")' = At("operation")
  BY DEF At, MoveTo, PcTyping
<1>4. semValue = 0 \/ semWoken # {}
  BY DEF SemLocked, SemInv, NoIdlePlace
<1> QED
  BY <1>1, <1>2, <1>3, <1>4 DEF SemInv, SlotConservation, MetricExact, NoIdlePlace

LEMMA AcquireConcurrentSlotPreserves ==
  ASSUME PcTyping, SemInv, NEW t \in Tasks,
         pc[t] \notin {"semaphore", "operation"}, AcquireConcurrentSlot(t)
  PROVE  SemInv'
<1>1. CASE TakesPlace(t)
  BY <1>1, TakesPlacePreserves
<1>2. CASE ~TakesPlace(t)
  <2>1. /\ SemLocked /\ semQueue' = Append(semQueue, t) /\ MoveTo(t, "semaphore")
        /\ UNCHANGED <<semValue, semWoken, current>>
    BY <1>2 DEF AcquireConcurrentSlot, TakesPlace, MoveTo
  <2> QED
    BY <2>1, JoinSemPreserves
<1> QED
  BY <1>1, <1>2

\* A task that waited leaves the semaphore, with its place or without.
LEMMA SemWakeupPreserves ==
  ASSUME PcTyping, SemInv, NEW t \in Tasks, SemWakeup(t)
  PROVE  SemInv'
<1>1. /\ t \in semWoken /\ t \notin ToSet(semQueue) /\ pc[t] = "semaphore"
      /\ MoveTo(t, "operation") /\ current' = current + 1
  BY DEF SemWakeup, Enter, MoveTo, SemInv, At
<1> DEFINE others == semWoken \ {t}
<1>2. /\ others \in SUBSET Tasks /\ ToSet(semQueue) \cap others = {}
      /\ HandOut(semValue, semQueue, others)
  BY DEF SemWakeup, SemInv
<1>3. Cardinality(others) = Cardinality(semWoken) - 1
  BY <1>1, FiniteTasks, FS_RemoveElement DEF SemInv
<1>4. At("semaphore")' = ToSet(semQueue) \cup others
  BY <1>1 DEF At, MoveTo, PcTyping, SemInv
<1> HIDE DEF others
<1>5. /\ semValue' \in Nat
      /\ semQueue' \in Seq(Tasks)
      /\ semWoken' \in SUBSET Tasks
      /\ IsInjective(semQueue')
      /\ ToSet(semQueue') \cap semWoken' = {}
      /\ ToSet(semQueue') \cup semWoken' = ToSet(semQueue) \cup others
      /\ semValue' + Cardinality(semWoken') = semValue + Cardinality(others)
      /\ semQueue' # <<>> => semValue' = 0
  BY <1>2, HandOutEffect DEF SemInv
<1>6. Cardinality(At("operation")') = Cardinality(At("operation")) + 1
  BY <1>1, OperationStarts
<1>7. /\ Cardinality(At("operation")) \in Nat /\ Cardinality(semWoken) \in Nat
      /\ Cardinality(semWoken') \in Nat
  BY <1>5, FiniteTasks DEF At, SemInv
<1>8. SlotConservation' /\ MetricExact'
  BY <1>1, <1>3, <1>5, <1>6, <1>7 DEF SemInv, SlotConservation, MetricExact
<1> QED
  BY <1>1, <1>4, <1>5, <1>8 DEF SemInv, NoIdlePlace

LEMMA CancelWokenBySemPreserves ==
  ASSUME PcTyping, SemInv, NEW t \in Tasks, CancelWokenBySem(t)
  PROVE  SemInv'
<1>1. /\ t \in semWoken /\ t \notin ToSet(semQueue) /\ pc[t] = "semaphore"
      /\ MoveTo(t, "idle") /\ current' = current
  BY DEF CancelWokenBySem, Return, MoveTo, SemInv, At
<1> DEFINE others == semWoken \ {t}
           free   == semValue + 1
<1>2. /\ others \in SUBSET Tasks /\ ToSet(semQueue) \cap others = {}
      /\ free \in Nat
      /\ HandOut(free, semQueue, others)
  BY DEF CancelWokenBySem, SemInv
<1>3. Cardinality(others) = Cardinality(semWoken) - 1
  BY <1>1, FiniteTasks, FS_RemoveElement DEF SemInv
<1>4. At("semaphore")' = ToSet(semQueue) \cup others /\ At("operation")' = At("operation")
  BY <1>1 DEF At, MoveTo, PcTyping, SemInv
<1> HIDE DEF others, free
<1>5. /\ semValue' \in Nat
      /\ semQueue' \in Seq(Tasks)
      /\ semWoken' \in SUBSET Tasks
      /\ IsInjective(semQueue')
      /\ ToSet(semQueue') \cap semWoken' = {}
      /\ ToSet(semQueue') \cup semWoken' = ToSet(semQueue) \cup others
      /\ semValue' + Cardinality(semWoken') = free + Cardinality(others)
      /\ semQueue' # <<>> => semValue' = 0
  BY <1>2, HandOutEffect DEF SemInv
<1>6. /\ Cardinality(At("operation")) \in Nat /\ Cardinality(semWoken) \in Nat
      /\ Cardinality(semWoken') \in Nat
  BY <1>5, FiniteTasks DEF At, SemInv
<1>7. SlotConservation' /\ MetricExact'
  BY <1>1, <1>3, <1>4, <1>5, <1>6 DEF SemInv, SlotConservation, MetricExact, free
<1> QED
  BY <1>1, <1>4, <1>5, <1>7 DEF SemInv, NoIdlePlace

LEMMA CancelInSemQueuePreserves ==
  ASSUME PcTyping, SemInv, NEW t \in Tasks, CancelInSemQueue(t)
  PROVE  SemInv'
<1>1. PICK i \in DOMAIN semQueue :
        semQueue[i] = t /\ HandOut(semValue, RemoveAt(semQueue, i), semWoken)
  BY DEF CancelInSemQueue
<1>2. i \in 1..Len(semQueue)
  BY <1>1 DEF SemInv
<1> DEFINE rest == RemoveAt(semQueue, i)
<1>3. /\ rest \in Seq(Tasks)
      /\ IsInjective(rest)
      /\ ToSet(rest) = ToSet(semQueue) \ {t}
      /\ t \in ToSet(semQueue)
  BY <1>1, <1>2, QueueRemoveAt DEF SemInv, ToSet
<1>4. HandOut(semValue, rest, semWoken)
  BY <1>1
<1> HIDE DEF rest
<1>5. pc[t] = "semaphore" /\ MoveTo(t, "idle") /\ current' = current
  BY <1>3 DEF CancelInSemQueue, Return, MoveTo, SemInv, At
<1>6. At("semaphore")' = ToSet(rest) \cup semWoken /\ At("operation")' = At("operation")
  BY <1>3, <1>5 DEF At, MoveTo, PcTyping, SemInv
<1>7. ToSet(rest) \cap semWoken = {}
  BY <1>3 DEF SemInv
<1>8. /\ semValue' \in Nat
      /\ semQueue' \in Seq(Tasks)
      /\ semWoken' \in SUBSET Tasks
      /\ IsInjective(semQueue')
      /\ ToSet(semQueue') \cap semWoken' = {}
      /\ ToSet(semQueue') \cup semWoken' = ToSet(rest) \cup semWoken
      /\ semValue' + Cardinality(semWoken') = semValue + Cardinality(semWoken)
      /\ semQueue' # <<>> => semValue' = 0
  BY <1>3, <1>4, <1>7, HandOutEffect DEF SemInv
<1>9. /\ Cardinality(At("operation")) \in Nat /\ Cardinality(semWoken) \in Nat
      /\ Cardinality(semWoken') \in Nat
  BY <1>8, FiniteTasks DEF At, SemInv
<1>10. SlotConservation' /\ MetricExact'
  BY <1>5, <1>6, <1>8, <1>9 DEF SemInv, SlotConservation, MetricExact
<1> QED
  BY <1>5, <1>6, <1>8, <1>10 DEF SemInv, NoIdlePlace

\* An operation ends: its place goes to the first waiter or is free again.
LEMMA ReleasePreserves ==
  ASSUME PcTyping, SemInv, NEW t \in Tasks, Release(t)
  PROVE  SemInv'
<1>1. pc[t] = "operation" /\ MoveTo(t, "idle")
  BY DEF Release, Return, MoveTo
<1>2. At("semaphore")' = At("semaphore")
  BY <1>1 DEF At, MoveTo, PcTyping
<1>3. /\ Cardinality(At("operation")') = Cardinality(At("operation")) - 1
      /\ Cardinality(At("operation")) > 0
  BY <1>1, OperationEnds
<1>4. Cardinality(At("operation")) \in Nat /\ Cardinality(semWoken) \in Nat
  BY FiniteTasks DEF At, SemInv
<1>5. current' = current - 1 /\ current' \in Nat
  BY <1>3, <1>4 DEF Release, SemInv, MetricExact
<1>6. MetricExact'
  BY <1>3, <1>4, <1>5 DEF SemInv, MetricExact
<1>7. CASE semQueue = <<>>
  <2>1. semValue' = semValue + 1 /\ semQueue' = semQueue /\ semWoken' = semWoken
    BY <1>7 DEF Release, GiveBack
  <2>2. SlotConservation'
    BY <1>3, <1>4, <2>1 DEF SemInv, SlotConservation
  <2> QED
    BY <1>2, <1>5, <1>6, <1>7, <2>1, <2>2 DEF SemInv, NoIdlePlace
<1>8. CASE semQueue # <<>>
  <2> DEFINE first == Head(semQueue)
  <2>1. /\ semQueue' \in Seq(Tasks)
        /\ first \in Tasks
        /\ IsInjective(semQueue')
        /\ first \in ToSet(semQueue)
        /\ ToSet(semQueue') = ToSet(semQueue) \ {first}
    <3>1. semQueue' = Tail(semQueue)
      BY <1>8 DEF Release, GiveBack
    <3> QED
      BY <1>8, <3>1, QueueTail DEF SemInv
  <2>2. semWoken' = semWoken \cup {first} /\ semValue' = semValue
    BY <1>8 DEF Release, GiveBack
  <2> HIDE DEF first
  <2>3. first \notin semWoken
    BY <2>1 DEF SemInv
  <2>4. Cardinality(semWoken') = Cardinality(semWoken) + 1
    BY <2>2, <2>3, FiniteTasks, FS_AddElement DEF SemInv
  <2>5. SlotConservation'
    BY <1>3, <1>4, <2>2, <2>4 DEF SemInv, SlotConservation
  <2>6. NoIdlePlace'
    BY <2>2 DEF NoIdlePlace
  <2>7. At("semaphore")' = ToSet(semQueue') \cup semWoken'
    BY <1>2, <2>1, <2>2 DEF SemInv
  <2>8. ToSet(semQueue') \cap semWoken' = {}
    BY <2>1, <2>2, <2>3 DEF SemInv
  <2> QED
    BY <1>5, <1>6, <2>1, <2>2, <2>5, <2>6, <2>7, <2>8 DEF SemInv
<1> QED
  BY <1>7, <1>8

-----------------------------------------------------------------------------
(***************************************************************************)
(* The rate.  The deque remembers every grant of the period the rate is    *)
(* counted over, as it keeps timestamps for Horizon ticks; this needs a    *)
(* period no longer than that.  Whoever sleeps in a token bucket does not  *)
(* wake before the interval of the last grant is over.                     *)
(***************************************************************************)
AgeSeq == Seq(0..Horizon+1)

RateTyping ==
  /\ left \in [Tasks -> Nat]
  /\ timestamps \in AgeSeq
  /\ granted \in Seq(0..Span-1)
  /\ Sorted(granted)

SleepLongEnough ==
  \A t \in At("sleep") : timestamps # <<>> /\ Last(timestamps) + left[t] >= Interval

GrantsKept ==
  /\ Remembers(timestamps, granted, Span)
  /\ RateRespected
  /\ Algorithm = "token_bucket" => SleepLongEnough

KeepsItsGrants == Span <= Horizon + 1

RateInv ==
  /\ RateTyping
  /\ KeepsItsGrants => GrantsKept

LEMMA Parameters ==
  /\ Interval \in Nat /\ Horizon \in Nat /\ Limit \in Nat \ {0}
  /\ Span \in Nat /\ Quota \in Nat \ {0} /\ Horizon + 1 \in Nat
  /\ 0..Horizon+1 \in SUBSET Nat /\ 0 \in 0..Horizon+1
  /\ Span' = Span /\ Quota' = Quota
  BY MemoryAssumption DEF MemoryAssumption, Span, Quota

\* What popping the old timestamps does to the last one.
LEMMA PruneKeepsLast ==
  ASSUME NEW ages \in AgeSeq, NEW r, r = Prune(ages)
  PROVE  /\ r \in AgeSeq
         /\ r # <<>> => ages # <<>> /\ Last(r) = Last(ages)
         /\ r = <<>> /\ ages # <<>> => Last(ages) > Horizon
<1>1. r \in AgeSeq /\ \E n \in 0..Len(ages) : Pops(r, ages, Horizon + 1, n)
  BY Parameters, FreshPops DEF AgeSeq, Prune
<1>2. PICK n \in 0..Len(ages) : Pops(r, ages, Horizon + 1, n)
  BY <1>1
<1>3. /\ Len(ages) \in Nat /\ Len(r) \in Nat /\ Len(r) = Len(ages) - n
      /\ \A i \in 1..Len(ages) : ages[i] \in Nat
  <2>1. ages \in Seq(0..Horizon+1) /\ r \in Seq(0..Horizon+1)
    BY <1>1 DEF AgeSeq
  <2>2. /\ Len(ages) \in Nat /\ Len(r) \in Nat
        /\ \A i \in 1..Len(ages) : ages[i] \in 0..Horizon+1
    BY <2>1, SeqElements
  <2> QED
    BY <1>2, <2>2 DEF Pops, IsDrop
<1>4. ASSUME r # <<>> PROVE ages # <<>> /\ Last(r) = Last(ages)
  <2>1. Len(r) \in 1..(Len(ages) - n) /\ n + Len(r) = Len(ages) /\ Len(ages) # 0
    BY <1>1, <1>3, <1>4 DEF AgeSeq
  <2>2. r[Len(r)] = ages[Len(ages)]
    BY <1>2, <2>1 DEF Pops, IsDrop
  <2> QED
    BY <2>1, <2>2 DEF Last
<1>5. ASSUME r = <<>>, ages # <<>> PROVE Last(ages) > Horizon
  <2>1. Len(r) = 0
    BY <1>5
  <2>2. n = Len(ages) /\ Len(ages) \in 1..n
    BY <1>3, <1>5, <2>1 DEF AgeSeq
  <2>3. ages[Len(ages)] >= Horizon + 1
    BY <1>2, <2>2 DEF Pops
  <2> QED
    BY <1>3, <2>2, <2>3, Parameters DEF Last
<1> QED
  BY <1>1, <1>4, <1>5

\* While a grant is in the span, the last timestamp is the last grant.
LEMMA LastGrantIsLast ==
  ASSUME NEW ages \in AgeSeq, NEW grants \in Seq(0..Span-1), grants # <<>>,
         Remembers(ages, grants, Span)
  PROVE  /\ ages # <<>>
         /\ Last(ages) \in Nat
         /\ Last(ages) < Span
<1>1. PICK n \in 0..Len(ages) : IsDrop(grants, ages, n)
  BY DEF Remembers
<1>2. /\ Len(ages) \in Nat /\ Len(grants) \in Nat \ {0} /\ Len(grants) = Len(ages) - n
      /\ \A i \in 1..Len(grants) : grants[i] \in 0..Span-1
  <2>1. ages \in Seq(0..Horizon+1)
    BY DEF AgeSeq
  <2>2. /\ Len(ages) \in Nat /\ Len(grants) \in Nat
        /\ \A i \in 1..Len(grants) : grants[i] \in 0..Span-1
    BY <2>1, SeqElements
  <2>3. Len(grants) # 0
    BY <2>2
  <2> QED
    BY <1>1, <2>2, <2>3 DEF IsDrop
<1>3. Len(grants) \in 1..(Len(ages) - n) /\ n + Len(grants) = Len(ages) /\ Len(ages) # 0
  BY <1>2
<1>4. grants[Len(grants)] = ages[Len(ages)]
  BY <1>1, <1>3 DEF IsDrop
<1> QED
  BY <1>2, <1>3, <1>4, Parameters DEF Last

\* The period has room for one more grant.
RateFree == Span > 0 => Len(granted) < Quota

LEMMA ReadyMeansFree ==
  ASSUME RateInv, KeepsItsGrants, NEW r, r = Prune(timestamps), RateReady(r)
  PROVE  RateFree
<1>1. timestamps \in AgeSeq /\ granted \in Seq(0..Span-1) /\ Len(granted) \in Nat
  BY SeqElements DEF RateInv, RateTyping
<1>2. Remembers(timestamps, granted, Span)
  BY DEF RateInv, GrantsKept
<1>3. Remembers(r, granted, Span) /\ Len(granted) <= Len(r) /\ r \in AgeSeq
  <2>1. Span <= Horizon + 1
    BY DEF KeepsItsGrants
  <2>2. r = Fresh(timestamps, Horizon + 1)
    BY DEF Prune
  <2>3. timestamps \in Seq(0..Horizon+1)
    BY <1>1 DEF AgeSeq
  <2>4. Remembers(r, granted, Span) /\ Len(granted) <= Len(r)
    BY <1>1, <1>2, <2>1, <2>2, <2>3, Parameters, RemembersFresh
  <2> QED
    BY <1>1, <2>4, PruneKeepsLast
<1>4. CASE Algorithm = "token_bucket"
  <2>1. SUFFICES ASSUME granted # <<>> PROVE FALSE
    BY <1>1, <1>4 DEF RateFree, Quota
  <2>2. r # <<>> /\ Last(r) \in Nat /\ Last(r) < Interval
    BY <1>1, <1>3, <1>4, <2>1, LastGrantIsLast DEF Span
  <2> QED
    BY <1>4, <2>2, Parameters DEF RateReady
<1>5. CASE Algorithm # "token_bucket"
  <2>1. Len(r) < Limit /\ Quota = Limit /\ Len(r) \in Nat
    BY <1>3, <1>5 DEF RateReady, Quota, AgeSeq
  <2> QED
    BY <1>1, <1>3, <2>1, Parameters DEF RateFree
<1> QED
  BY <1>4, <1>5

LEMMA WokenMeansFree ==
  ASSUME RateInv, KeepsItsGrants, Algorithm = "token_bucket",
         NEW t \in At("sleep"), left[t] = 0
  PROVE  RateFree
<1>1. SUFFICES ASSUME granted # <<>> PROVE FALSE
  BY SeqElements DEF RateInv, RateTyping, RateFree, Quota
<1>2. Last(timestamps) \in Nat /\ Last(timestamps) < Interval
  BY <1>1, LastGrantIsLast DEF RateInv, RateTyping, GrantsKept, Span
<1>3. Last(timestamps) + 0 >= Interval
  BY DEF RateInv, GrantsKept, SleepLongEnough
<1> QED
  BY <1>2, <1>3, Parameters

LeftTyped(t) == left' = left \/ left' = [left EXCEPT ![t] = 0]

LEMMA RateUntouched ==
  ASSUME PcTyping, RateInv, UNCHANGED rateVars, NEW t \in Tasks, LeftTyped(t),
         NEW place \in Places \ {"sleep"}, MoveTo(t, place)
  PROVE  RateInv'
<1>1. timestamps' = timestamps /\ granted' = granted /\ Span' = Span /\ Quota' = Quota
  BY Parameters DEF rateVars
<1>2. RateTyping'
  BY <1>1 DEF RateInv, RateTyping, LeftTyped, AgeSeq, Sorted
<1>3. \A u \in At("sleep")' : u \in At("sleep") /\ left'[u] = left[u]
  BY DEF At, MoveTo, PcTyping, LeftTyped, RateInv, RateTyping
<1>4. SleepLongEnough => SleepLongEnough'
  BY <1>1, <1>3 DEF SleepLongEnough
<1>5. Remembers(timestamps, granted, Span)' <=> Remembers(timestamps, granted, Span)
  BY <1>1 DEF Remembers, IsDrop
<1>6. RateRespected' <=> RateRespected
  BY <1>1 DEF RateRespected
<1> QED
  BY <1>1, <1>2, <1>4, <1>5, <1>6 DEF RateInv, GrantsKept, KeepsItsGrants

\* The owner of the lock records a grant.
LEMMA GrantPreserves ==
  ASSUME PcTyping, LockInv, RateInv, NEW t \in Tasks, Owner(t), LeftTyped(t),
         NEW place \in Places \ {"sleep"}, MoveTo(t, place),
         NEW ages \in AgeSeq, GrantRate(ages),
         KeepsItsGrants => RateFree /\ Remembers(ages, granted, Span)
  PROVE  RateInv'
<1>1. At("sleep")' = {}
  BY OwnerAlone DEF At, MoveTo, PcTyping
<1> DEFINE g == granted'
           s == timestamps'
<1>2. g = Grant(granted, Span) /\ s = IF Unlimited THEN ages ELSE Append(ages, 0)
  BY DEF GrantRate
<1>3. granted \in Seq(0..Span-1) /\ Sorted(granted) /\ left \in [Tasks -> Nat]
  BY DEF RateInv, RateTyping
<1> HIDE DEF g, s
<1>4. /\ g \in Seq(0..Span-1) /\ Sorted(g)
      /\ Span > 0 => g = Append(granted, 0) /\ Len(g) = Len(granted) + 1
  BY <1>2, <1>3, Parameters, GrantTyped
<1>5. s \in AgeSeq
  <2> DEFINE Age == 0..Horizon+1
  <2>1. 0 \in Age /\ ages \in Seq(Age)
    BY Parameters DEF AgeSeq
  <2> HIDE DEF Age
  <2>2. ages \in Seq(Age) /\ Append(ages, 0) \in Seq(Age)
    BY <2>1
  <2> QED
    BY <1>2, <2>2 DEF AgeSeq, Age
<1>6. RateTyping'
  <2>1. left' \in [Tasks -> Nat]
    BY <1>3 DEF LeftTyped
  <2> QED
    BY <1>4, <1>5, <2>1, Parameters DEF RateTyping, AgeSeq, Sorted, g, s
<1>7. ASSUME KeepsItsGrants PROVE Remembers(s, g, Span) /\ (Span > 0 => Len(g) <= Quota)
  <2>1. RateFree /\ Remembers(ages, granted, Span) /\ Len(granted) \in Nat
    BY <1>3, <1>7, SeqElements
  <2>2. CASE Span = 0
    <3>1. \A i \in 1..Len(s) : s[i] \in Nat
      BY <1>5, Parameters, SeqElements DEF AgeSeq
    <3>2. Len(s) \in Nat /\ Len(g) = 0
      <4>1. \A i \in 1..Len(g) : g[i] \in 0..Span-1
        BY <1>4, SeqElements
      <4>2. Len(g) \in Nat
        BY <1>4, SeqElements
      <4>3. Len(g) = 0
        <5>1. SUFFICES ASSUME Len(g) # 0 PROVE FALSE
          OBVIOUS
        <5>2. g[1] \in 0..Span-1
          BY <4>1, <4>2, <5>1
        <5> QED
          BY <2>2, <5>2
      <4> QED
        BY <1>5, <4>3, SeqElements DEF AgeSeq
    <3>3. IsDrop(g, s, Len(s)) /\ Len(s) \in 0..Len(s)
      BY <3>2 DEF IsDrop
    <3>4. \A i \in 1..Len(s) : s[i] >= Span
      BY <2>2, <3>1
    <3> QED
      BY <2>2, <3>3, <3>4 DEF Remembers
  <2>3. CASE Span # 0
    <3>1. Span \in Nat \ {0} /\ Span > 0 /\ ~Unlimited
      BY <2>3, Parameters DEF Unlimited, Span
    <3>2. s = Append(ages, 0) /\ g = Append(granted, 0)
      BY <1>2, <1>4, <3>1
    <3>3. ages \in Seq(0..Horizon+1)
      BY DEF AgeSeq
    <3>4. Remembers(s, g, Span)
      BY <1>3, <2>1, <3>1, <3>2, <3>3, Parameters, RemembersGrant
    <3>5. Len(g) <= Quota
      BY <1>4, <2>1, <3>1, Parameters DEF RateFree
    <3> QED
      BY <3>4, <3>5
  <2> QED
    BY <2>2, <2>3
<1>8. SleepLongEnough'
  BY <1>1 DEF SleepLongEnough
<1>9. ASSUME KeepsItsGrants PROVE GrantsKept'
  <2>2. Remembers(timestamps, granted, Span)'
    BY <1>7, <1>9, Parameters DEF Remembers, IsDrop, s, g
  <2>3. RateRespected'
    BY <1>7, <1>9, Parameters DEF RateRespected, g
  <2> QED
    BY <1>8, <2>2, <2>3 DEF GrantsKept
<1> QED
  BY <1>6, <1>9, Parameters DEF RateInv, KeepsItsGrants

\* The owner of the lock drops what is out of date.
LEMMA PruneKeepsGrants ==
  ASSUME RateInv, NEW r, r = Prune(timestamps)
  PROVE  r \in AgeSeq /\ (KeepsItsGrants => Remembers(r, granted, Span))
<1>1. timestamps \in Seq(0..Horizon+1) /\ granted \in Seq(0..Span-1)
  BY DEF RateInv, RateTyping, AgeSeq
<1>2. r \in AgeSeq
  BY <1>1, PruneKeepsLast DEF AgeSeq
<1>3. ASSUME KeepsItsGrants PROVE Remembers(r, granted, Span)
  <2>1. Remembers(timestamps, granted, Span) /\ Span <= Horizon + 1
    BY <1>3 DEF RateInv, GrantsKept, KeepsItsGrants
  <2>2. r = Fresh(timestamps, Horizon + 1)
    BY DEF Prune
  <2> QED
    BY <1>1, <2>1, <2>2, Parameters, RemembersFresh
<1> QED
  BY <1>2, <1>3

LEMMA PrunePreserves ==
  ASSUME PcTyping, LockInv, RateInv, NEW t \in Tasks, Owner(t), LeftTyped(t),
         NEW place \in Places \ {"sleep"}, MoveTo(t, place),
         timestamps' = Prune(timestamps), granted' = granted
  PROVE  RateInv'
<1>1. At("sleep")' = {}
  BY OwnerAlone DEF At, MoveTo, PcTyping
<1> DEFINE r == timestamps'
<1>2. r \in AgeSeq /\ (KeepsItsGrants => Remembers(r, granted, Span))
  BY PruneKeepsGrants
<1> HIDE DEF r
<1>3. RateTyping'
  BY <1>2, Parameters DEF RateInv, RateTyping, LeftTyped, AgeSeq, Sorted, r
<1>4. ASSUME KeepsItsGrants PROVE GrantsKept'
  <2>1. Remembers(timestamps, granted, Span)'
    BY <1>2, <1>4, Parameters DEF Remembers, IsDrop, r
  <2>2. RateRespected'
    BY <1>4, Parameters DEF RateInv, GrantsKept, RateRespected
  <2> QED
    BY <1>1, <2>1, <2>2 DEF GrantsKept, SleepLongEnough
<1> QED
  BY <1>3, <1>4, Parameters DEF RateInv, KeepsItsGrants

\* The owner of the lock goes to sleep.
LEMMA SleepPreserves ==
  ASSUME PcTyping, LockInv, RateInv, NEW t \in Tasks, Owner(t), MoveTo(t, "sleep"),
         timestamps' = Prune(timestamps), granted' = granted,
         ~RateReady(timestamps'),
         left' = [left EXCEPT ![t] = WaitTime(timestamps')]
  PROVE  RateInv'
<1>1. At("sleep")' = {t}
  BY OwnerAlone DEF At, MoveTo, PcTyping
<1> DEFINE r == timestamps'
<1>2. r \in AgeSeq /\ (KeepsItsGrants => Remembers(r, granted, Span))
  BY PruneKeepsGrants
<1>3. ~RateReady(r) /\ left' = [left EXCEPT ![t] = WaitTime(r)]
  OBVIOUS
<1> HIDE DEF r
<1>4. Interval \in Nat /\ Horizon \in Nat /\ Limit \in Nat \ {0}
  BY Parameters
<1>5. r # <<>>
  BY <1>2, <1>3, <1>4 DEF RateReady, AgeSeq
<1>6. Last(r) \in 0..Horizon+1 /\ Head(r) \in 0..Horizon+1
  BY <1>2, <1>5, SeqEnds DEF AgeSeq
<1>7. /\ WaitTime(r) \in Nat
      /\ Algorithm = "token_bucket" => Last(r) + WaitTime(r) = Interval
  BY <1>3, <1>4, <1>5, <1>6 DEF WaitTime, RateReady
<1>8. RateTyping'
  BY <1>2, <1>3, <1>7, Parameters DEF RateInv, RateTyping, AgeSeq, Sorted, r
<1>9. ASSUME Algorithm = "token_bucket" PROVE SleepLongEnough'
  <2>1. left'[t] = WaitTime(r)
    BY <1>3 DEF RateInv, RateTyping
  <2>2. Last(r) + left'[t] >= Interval
    BY <1>4, <1>7, <1>9, <2>1
  <2> QED
    BY <1>1, <1>5, <2>2 DEF SleepLongEnough, r
<1>10. ASSUME KeepsItsGrants PROVE GrantsKept'
  <2>1. Remembers(timestamps, granted, Span)'
    BY <1>2, <1>10, Parameters DEF Remembers, IsDrop, r
  <2>2. RateRespected'
    BY <1>10, Parameters DEF RateInv, GrantsKept, RateRespected
  <2> QED
    BY <1>9, <2>1, <2>2 DEF GrantsKept
<1> QED
  BY <1>8, <1>10, Parameters DEF RateInv, KeepsItsGrants

LEMMA TickPreservesRate ==
  ASSUME PcTyping, RateInv, Tick
  PROVE  RateInv'
<1>1. /\ left \in [Tasks -> Nat]
      /\ timestamps \in Seq(0..Horizon+1)
      /\ granted \in Seq(0..Span-1) /\ Sorted(granted)
  BY DEF RateInv, RateTyping, AgeSeq
<1>2. /\ left' = [t \in Tasks |-> IF left[t] > 0 THEN left[t] - 1 ELSE 0]
      /\ pc' = pc
  BY DEF Tick
<1> DEFINE s == timestamps'
           g == granted'
<1>3. g = Fresh(Older(granted), Span)
  BY DEF Tick
<1>4. /\ DOMAIN timestamps = 1..Len(timestamps)
      /\ Len(timestamps) \in Nat
      /\ \A i \in 1..Len(timestamps) : timestamps[i] \in 0..Horizon+1
  BY <1>1, SeqElements
<1>5. s = [i \in 1..Len(timestamps) |->
             IF timestamps[i] > Horizon THEN timestamps[i] ELSE timestamps[i] + 1]
  BY <1>4 DEF Tick
<1> HIDE DEF s, g
<1>6. s \in Seq(0..Horizon+1) /\ Len(s) = Len(timestamps)
  <2>1. s \in [1..Len(timestamps) -> 0..Horizon+1]
    BY <1>4, <1>5, Parameters
  <2> QED
    BY <1>4, <2>1, SeqOfFunction
<1>7. g \in Seq(0..Span-1) /\ Sorted(g) /\ Len(g) <= Len(granted)
  BY <1>1, <1>3, Parameters, OlderTyped
<1>8. RateTyping'
  <2>1. left' \in [Tasks -> Nat]
    BY <1>1, <1>2
  <2> QED
    BY <1>6, <1>7, <2>1, Parameters DEF RateTyping, AgeSeq, Sorted, s, g
<1>9. ASSUME KeepsItsGrants PROVE Remembers(s, g, Span)
  <2>1. Remembers(timestamps, granted, Span) /\ Span <= Horizon + 1
    BY <1>9 DEF RateInv, GrantsKept, KeepsItsGrants
  <2>2. \A i \in 1..Len(timestamps) :
           /\ timestamps[i] < Span => s[i] = timestamps[i] + 1
           /\ timestamps[i] >= Span => s[i] >= Span
    BY <1>4, <1>5, <2>1, Parameters
  <2> QED
    BY <1>1, <1>3, <1>6, <2>1, <2>2, Parameters, RemembersOlder
<1>10. ASSUME timestamps # <<>>
      PROVE  /\ s # <<>>
             /\ Last(timestamps) \in 0..Horizon+1
             /\ Last(s) =
                  IF Last(timestamps) > Horizon THEN Last(timestamps) ELSE Last(timestamps) + 1
  <2>1. Len(timestamps) \in 1..Len(timestamps)
    BY <1>1, <1>4, <1>10
  <2>2. s # <<>>
    BY <1>6, <2>1
  <2> QED
    BY <1>4, <1>5, <1>6, <2>1, <2>2 DEF Last
<1>11. ASSUME KeepsItsGrants, Algorithm = "token_bucket" PROVE SleepLongEnough'
  <2>1. SUFFICES ASSUME NEW t \in At("sleep")
                 PROVE  s # <<>> /\ Last(s) + left'[t] >= Interval
    BY <1>2 DEF SleepLongEnough, At, s
  <2>2. timestamps # <<>> /\ Last(timestamps) + left[t] >= Interval
    BY <1>11 DEF RateInv, GrantsKept, SleepLongEnough
  <2>3. left[t] \in Nat /\ left'[t] = IF left[t] > 0 THEN left[t] - 1 ELSE 0
    BY <1>1, <1>2 DEF At
  <2>4. Interval <= Horizon + 1
    BY <1>11 DEF KeepsItsGrants, Span
  <2> QED
    BY <1>10, <2>2, <2>3, <2>4, Parameters
<1>12. ASSUME KeepsItsGrants PROVE GrantsKept'
  <2>1. Remembers(timestamps, granted, Span)'
    BY <1>9, <1>12, Parameters DEF Remembers, IsDrop, s, g
  <2>2. RateRespected'
    <3>1. Len(g) \in Nat /\ Len(granted) \in Nat
      BY <1>1, <1>7, SeqElements
    <3>2. Span > 0 => Len(granted) <= Quota
      BY <1>12 DEF RateInv, GrantsKept, RateRespected
    <3> QED
      BY <1>7, <3>1, <3>2, Parameters DEF RateRespected, g
  <2> QED
    BY <1>11, <1>12, <2>1, <2>2 DEF GrantsKept
<1> QED
  BY <1>8, <1>12, Parameters DEF RateInv, KeepsItsGrants

-----------------------------------------------------------------------------
(***************************************************************************)
(* The whole limiter.                                                      *)
(***************************************************************************)
IInv == PcTyping /\ LockInv /\ SemInv /\ RateInv

LEMMA MoveTyped ==
  ASSUME PcTyping, NEW t \in Tasks, NEW place \in Places, MoveTo(t, place)
  PROVE  PcTyping'
  BY DEF PcTyping, MoveTo

LEMMA OwnerIsNotServed ==
  ASSUME LockInv, NEW t \in Tasks, Owner(t)
  PROVE  pc[t] \notin {"semaphore", "operation"}
  BY DEF LockInv, Owner, LockWait

\* The owner records its grant, passes the lock on and turns to the semaphore.
LEMMA GrantedPreserves ==
  ASSUME IInv, NEW t \in Tasks, Owner(t), PassLock, AcquireConcurrentSlot(t),
         NEW ages \in AgeSeq, GrantRate(ages),
         KeepsItsGrants => RateFree /\ Remembers(ages, granted, Span)
  PROVE  IInv'
<1> USE DEF IInv
<1> DEFINE place == IF SemLocked THEN "semaphore" ELSE "operation"
<1>1. place \in Places \ (LockWait \cup {"sleep"}) /\ MoveTo(t, place) /\ LeftTyped(t)
  BY DEF AcquireConcurrentSlot, Enter, MoveTo, LeftTyped, Places, LockWait
<1> HIDE DEF place
<1>2. PcTyping'
  BY <1>1, MoveTyped
<1>3. LockInv'
  BY <1>1, PassLockPreserves
<1>4. SemInv'
  BY OwnerIsNotServed, AcquireConcurrentSlotPreserves
<1>5. RateInv'
  <2>1. place \in Places \ {"sleep"}
    BY <1>1
  <2> QED
    BY <1>1, <2>1, GrantPreserves
<1> QED
  BY <1>2, <1>3, <1>4, <1>5

LEMMA AcquireLockedPreserves ==
  ASSUME IInv, NEW t \in Tasks, Owner(t), AcquireLocked(t)
  PROVE  IInv'
<1> USE DEF IInv
<1> DEFINE ages == Prune(timestamps)
<1>1. ages \in AgeSeq /\ (KeepsItsGrants => Remembers(ages, granted, Span))
  BY PruneKeepsGrants
<1>2. CASE RateReady(ages)
  <2>1. GrantRate(ages) /\ PassLock /\ AcquireConcurrentSlot(t)
    BY <1>2 DEF AcquireLocked
  <2>2. KeepsItsGrants => RateFree
    BY <1>2, ReadyMeansFree
  <2> HIDE DEF ages
  <2> QED
    BY <1>1, <2>1, <2>2, GrantedPreserves
<1>3. CASE ~RateReady(ages)
  <2>1. /\ timestamps' = Prune(timestamps) /\ granted' = granted
        /\ ~RateReady(timestamps')
        /\ KeepLock(t)
        /\ MoveTo(t, "sleep")
        /\ left' = [left EXCEPT ![t] = WaitTime(timestamps')]
        /\ UNCHANGED semVars
    BY <1>3 DEF AcquireLocked, MoveTo
  <2>2. "sleep" \in Places \ {"semaphore", "operation"}
    BY DEF Places
  <2>3. PcTyping'
    BY <2>1, <2>2, MoveTyped
  <2>4. LockInv'
    BY <2>1, KeepLockPreserves
  <2>5. SemInv'
    BY <2>1, <2>2, OwnerIsNotServed, SemUntouched
  <2>6. RateInv'
    BY <2>1, SleepPreserves
  <2> QED
    BY <2>3, <2>4, <2>5, <2>6
<1> QED
  BY <1>2, <1>3

\* The owner returns without a place.
LEMMA OwnerReturns ==
  ASSUME IInv, NEW t \in Tasks, Owner(t), PassLock, Return(t), UNCHANGED semVars, RateInv'
  PROVE  IInv'
<1> USE DEF IInv
<1>1. MoveTo(t, "idle") /\ "idle" \in Places \ (LockWait \cup {"sleep"})
  BY DEF Return, MoveTo, Places, LockWait
<1>2. PcTyping'
  BY <1>1, MoveTyped
<1>3. LockInv'
  BY <1>1, PassLockPreserves
<1>4. SemInv'
  <2>1. "idle" \in Places \ {"semaphore", "operation"}
    BY DEF Places
  <2> QED
    BY <1>1, <2>1, OwnerIsNotServed, SemUntouched
<1> QED
  BY <1>2, <1>3, <1>4

LEMMA ReturnMoves ==
  ASSUME NEW t \in Tasks, Return(t)
  PROVE  /\ MoveTo(t, "idle") /\ LeftTyped(t)
         /\ "idle" \in Places \ (LockWait \cup {"sleep"})
         /\ "idle" \in Places \ {"semaphore", "operation"}
         /\ "idle" \in Places \ {"sleep"}
  BY DEF Return, MoveTo, LeftTyped, Places, LockWait

LEMMA TryLockedPreserves ==
  ASSUME IInv, NEW t \in Tasks, Owner(t), TryLocked(t)
  PROVE  IInv'
<1> USE DEF IInv
<1> DEFINE ages == Prune(timestamps)
<1>1. ages \in AgeSeq /\ (KeepsItsGrants => Remembers(ages, granted, Span))
  BY PruneKeepsGrants
<1>2. PassLock
  BY DEF TryLocked
<1>3. CASE RateReady(ages) /\ TakesPlace(t)
  <2>1. GrantRate(ages) /\ AcquireConcurrentSlot(t)
    BY <1>3 DEF TryLocked, TakesPlace, AcquireConcurrentSlot
  <2>2. KeepsItsGrants => RateFree
    BY <1>3, ReadyMeansFree
  <2> HIDE DEF ages
  <2> QED
    BY <1>1, <1>2, <2>1, <2>2, GrantedPreserves
<1>4. CASE RateReady(ages) /\ ~TakesPlace(t)
  <2>1. GrantRate(ages) /\ Return(t) /\ UNCHANGED semVars
    BY <1>4 DEF TryLocked, TakesPlace
  <2>2. KeepsItsGrants => RateFree
    BY <1>4, ReadyMeansFree
  <2> HIDE DEF ages
  <2>3. RateInv'
    BY <1>1, <2>1, <2>2, ReturnMoves, GrantPreserves
  <2> QED
    BY <1>2, <2>1, <2>3, OwnerReturns
<1>5. CASE ~RateReady(ages)
  <2>1. timestamps' = Prune(timestamps) /\ granted' = granted /\ Return(t) /\ UNCHANGED semVars
    BY <1>5 DEF TryLocked
  <2>2. RateInv'
    BY <2>1, ReturnMoves, PrunePreserves
  <2> QED
    BY <1>2, <2>1, <2>2, OwnerReturns
<1> QED
  BY <1>3, <1>4, <1>5

LEMMA LockedPreserves ==
  ASSUME IInv, NEW t \in Tasks, Owner(t), NEW call, Locked(t, call)
  PROVE  IInv'
<1>1. CASE AcquireLocked(t)
  BY <1>1, AcquireLockedPreserves
<1>2. CASE TryLocked(t)
  BY <1>2, TryLockedPreserves
<1>3. CASE StateLocked(t)
  <2>1. PassLock /\ Return(t) /\ UNCHANGED semVars /\ UNCHANGED rateVars
    BY <1>3 DEF StateLocked
  <2>2. RateInv'
    BY <2>1, ReturnMoves, RateUntouched DEF IInv
  <2> QED
    BY <2>1, <2>2, OwnerReturns
<1> QED
  BY <1>1, <1>2, <1>3 DEF Locked

LEMMA CallPreserves ==
  ASSUME IInv, NEW t \in Tasks, NEW call \in LockWait, Call(t, call)
  PROVE  IInv'
<1>1. pc[t] = "idle"
  BY DEF Call
<1>2. CASE LockFree
  <2>1. Owner(t) /\ Locked(t, call)
    BY <1>1, <1>2 DEF Owner, Call
  <2> QED
    BY <2>1, LockedPreserves
<1>3. CASE ~LockFree
  <2> USE DEF IInv
  <2>1. /\ JoinLock(t) /\ MoveTo(t, call) /\ LeftTyped(t)
        /\ UNCHANGED rateVars /\ UNCHANGED semVars
    BY <1>3 DEF Call, MoveTo, LeftTyped
  <2>2. call \in Places \ {"semaphore", "operation"} /\ call \in Places \ {"sleep"}
    BY DEF Places, LockWait
  <2>3. PcTyping'
    BY <2>1, <2>2, MoveTyped
  <2>4. LockInv'
    BY <1>1, <1>3, <2>1, JoinLockPreserves
  <2>5. SemInv'
    BY <1>1, <2>1, <2>2, SemUntouched
  <2>6. RateInv'
    BY <2>1, <2>2, RateUntouched
  <2> QED
    BY <2>3, <2>4, <2>5, <2>6
<1> QED
  BY <1>2, <1>3

LEMMA ResumePreserves ==
  ASSUME IInv, NEW t \in Tasks, Resume(t)
  PROVE  IInv'
<1>1. CASE LockWakeup(t)
  <2>1. Owner(t) /\ Locked(t, pc[t])
    BY <1>1 DEF LockWakeup, Owner
  <2> QED
    BY <2>1, LockedPreserves
<1>2. CASE SleepDone(t)
  <2>1. pc[t] = "sleep" /\ left[t] = 0 /\ Owner(t) /\ t \in At("sleep")
    BY <1>2 DEF SleepDone, Owner, At
  <2>2. CASE Algorithm = "token_bucket"
    <3>1. GrantRate(timestamps) /\ PassLock /\ AcquireConcurrentSlot(t)
      BY <1>2, <2>2 DEF SleepDone
    <3>2. KeepsItsGrants => RateFree /\ Remembers(timestamps, granted, Span)
      BY <2>1, <2>2, WokenMeansFree DEF IInv, RateInv, GrantsKept
    <3>3. timestamps \in AgeSeq
      BY DEF IInv, RateInv, RateTyping
    <3> QED
      BY <2>1, <3>1, <3>2, <3>3, GrantedPreserves
  <2>3. CASE Algorithm # "token_bucket"
    <3>1. AcquireLocked(t)
      BY <1>2, <2>3 DEF SleepDone
    <3> QED
      BY <2>1, <3>1, AcquireLockedPreserves
  <2> QED
    BY <2>2, <2>3
<1>3. CASE SemWakeup(t)
  <2> USE DEF IInv
  <2>1. /\ MoveTo(t, "operation") /\ LeftTyped(t) /\ pc[t] = "semaphore"
        /\ UNCHANGED lockVars /\ UNCHANGED rateVars
    BY <1>3 DEF SemWakeup, Enter, MoveTo, LeftTyped, SemInv, At
  <2>2. /\ "operation" \in Places \ (LockWait \cup {"sleep"})
        /\ "operation" \in Places \ {"sleep"}
        /\ pc[t] \notin LockWait \cup {"sleep"}
    BY <2>1 DEF Places, LockWait
  <2>3. PcTyping'
    BY <2>1, <2>2, MoveTyped
  <2>4. LockInv'
    BY <2>1, <2>2, LockUntouched
  <2>5. SemInv'
    BY <1>3, SemWakeupPreserves
  <2>6. RateInv'
    BY <2>1, <2>2, RateUntouched
  <2> QED
    BY <2>3, <2>4, <2>5, <2>6
<1> QED
  BY <1>1, <1>2, <1>3 DEF Resume

\* A task that leaves the semaphore and goes idle.
LEMMA LeavesSemaphore ==
  ASSUME IInv, NEW t \in Tasks, Return(t), pc[t] \in {"semaphore", "operation"},
         UNCHANGED lockVars, UNCHANGED rateVars, SemInv'
  PROVE  IInv'
<1> USE DEF IInv
<1>1. pc[t] \notin LockWait \cup {"sleep"}
  BY DEF LockWait
<1>2. PcTyping'
  BY ReturnMoves, MoveTyped
<1>3. LockInv'
  BY <1>1, ReturnMoves, LockUntouched
<1>4. RateInv'
  BY ReturnMoves, RateUntouched
<1> QED
  BY <1>2, <1>3, <1>4

LEMMA ReleaseStepPreserves ==
  ASSUME IInv, NEW t \in Tasks, Release(t)
  PROVE  IInv'
<1>1. /\ Return(t) /\ pc[t] \in {"semaphore", "operation"}
      /\ UNCHANGED lockVars /\ UNCHANGED rateVars
  BY DEF Release
<1>2. SemInv'
  BY ReleasePreserves DEF IInv
<1> QED
  BY <1>1, <1>2, LeavesSemaphore

LEMMA CancelPreserves ==
  ASSUME IInv, NEW t \in Tasks, Cancel(t)
  PROVE  IInv'
<1>1. CASE CancelInLockQueue(t)
  <2> USE DEF IInv
  <2>1. Return(t) /\ UNCHANGED rateVars /\ UNCHANGED semVars
    BY <1>1 DEF CancelInLockQueue
  <2>2. pc[t] \in LockWait
    BY <1>1 DEF CancelInLockQueue, LockInv, ToSet
  <2>3. pc[t] \notin {"semaphore", "operation"}
    BY <2>2 DEF LockWait
  <2>4. PcTyping'
    BY <2>1, ReturnMoves, MoveTyped
  <2>5. LockInv'
    BY <1>1, LeaveLockQueuePreserves
  <2>6. SemInv'
    BY <2>1, <2>3, ReturnMoves, SemUntouched
  <2>7. RateInv'
    BY <2>1, ReturnMoves, RateUntouched
  <2> QED
    BY <2>4, <2>5, <2>6, <2>7
<1>2. CASE CancelWokenByLock(t) \/ CancelAsleep(t)
  <2>1. /\ Owner(t) /\ PassLock /\ Return(t)
        /\ UNCHANGED rateVars /\ UNCHANGED semVars
    BY <1>2 DEF CancelWokenByLock, CancelAsleep, Owner
  <2>2. RateInv'
    BY <2>1, ReturnMoves, RateUntouched DEF IInv
  <2> QED
    BY <2>1, <2>2, OwnerReturns
<1>3. CASE CancelInSemQueue(t)
  <2>1. /\ Return(t) /\ UNCHANGED lockVars /\ UNCHANGED rateVars
        /\ pc[t] \in {"semaphore", "operation"}
    BY <1>3 DEF CancelInSemQueue, IInv, SemInv, At, ToSet
  <2>2. SemInv'
    BY <1>3, CancelInSemQueuePreserves DEF IInv
  <2> QED
    BY <2>1, <2>2, LeavesSemaphore
<1>4. CASE CancelWokenBySem(t)
  <2>1. /\ Return(t) /\ UNCHANGED lockVars /\ UNCHANGED rateVars
        /\ pc[t] \in {"semaphore", "operation"}
    BY <1>4 DEF CancelWokenBySem, IInv, SemInv, At
  <2>2. SemInv'
    BY <1>4, CancelWokenBySemPreserves DEF IInv
  <2> QED
    BY <2>1, <2>2, LeavesSemaphore
<1> QED
  BY <1>1, <1>2, <1>3, <1>4 DEF Cancel

LEMMA TickPreserves ==
  ASSUME IInv, Tick
  PROVE  IInv'
<1>1. pc' = pc /\ UNCHANGED lockVars /\ UNCHANGED semVars
  BY DEF Tick
<1>2. RateInv'
  BY TickPreservesRate DEF IInv
<1>3. PcTyping' /\ LockInv' /\ SemInv'
  BY <1>1 DEF IInv, PcTyping, LockInv, LockExclusion, LockNotStranded, lockVars, At,
              SemInv, SlotConservation, MetricExact, NoIdlePlace, semVars
<1> QED
  BY <1>2, <1>3 DEF IInv

LEMMA InitIInv == Init => IInv
<1> SUFFICES ASSUME Init PROVE IInv
  OBVIOUS
<1> USE DEF Init
<1>1. PcTyping /\ At("sleep") = {} /\ At("semaphore") = {} /\ At("operation") = {}
  BY DEF PcTyping, Places, At
<1>2. {t \in Tasks : pc[t] \in LockWait} = {}
  BY DEF LockWait
<1>3. /\ ToSet(lockQueue) = {} /\ IsInjective(lockQueue) /\ lockQueue \in Seq(Tasks)
      /\ ToSet(semQueue) = {} /\ IsInjective(semQueue) /\ semQueue \in Seq(Tasks)
  BY EmptySeq DEF ToSet, IsInjective
<1>4. LockInv
  BY <1>1, <1>2, <1>3 DEF LockInv, LockExclusion, LockNotStranded
<1>5. Cardinality(At("operation")) = 0 /\ Cardinality(semWoken) = 0
  BY <1>1, FS_EmptySet
<1>6. SemInv
  <2>1. semValue \in Nat /\ current \in Nat /\ semWoken \in SUBSET Tasks
    BY MemoryAssumption DEF MemoryAssumption
  <2>2. SlotConservation /\ MetricExact
    BY <1>5, MemoryAssumption DEF SlotConservation, MetricExact, MemoryAssumption
  <2>3. NoIdlePlace
    BY DEF NoIdlePlace
  <2>4. At("semaphore") = ToSet(semQueue) \cup semWoken
    BY <1>1, <1>3
  <2> QED
    BY <1>3, <2>1, <2>2, <2>3, <2>4 DEF SemInv
<1>7. timestamps \in AgeSeq /\ granted \in Seq(0..Span-1)
  BY EmptySeq DEF AgeSeq
<1>8. RateTyping
  BY <1>7 DEF RateTyping, Sorted
<1>9. RateInv
  <2>1. Len(timestamps) = 0 /\ Len(granted) = 0
    OBVIOUS
  <2>2. IsDrop(granted, timestamps, 0) /\ 0 \in 0..Len(timestamps)
    BY <2>1 DEF IsDrop
  <2>3. Remembers(timestamps, granted, Span)
    BY <2>2 DEF Remembers
  <2>4. RateRespected
    BY <2>1, Parameters DEF RateRespected
  <2> QED
    BY <1>1, <1>8, <2>3, <2>4 DEF RateInv, GrantsKept, SleepLongEnough
<1> QED
  BY <1>1, <1>4, <1>6, <1>9 DEF IInv

LEMMA NextIInv == IInv /\ [Next]_vars => IInv'
<1> SUFFICES ASSUME IInv, [Next]_vars PROVE IInv'
  OBVIOUS
<1>1. CASE Tick
  BY <1>1, TickPreserves
<1>2. ASSUME NEW t \in Tasks, NEW call \in LockWait, Call(t, call) PROVE IInv'
  BY <1>2, CallPreserves
<1>3. ASSUME NEW t \in Tasks, Resume(t) PROVE IInv'
  BY <1>3, ResumePreserves
<1>4. ASSUME NEW t \in Tasks, Release(t) PROVE IInv'
  BY <1>4, ReleaseStepPreserves
<1>5. ASSUME NEW t \in Tasks, Cancel(t) PROVE IInv'
  BY <1>5, CancelPreserves
<1>6. CASE UNCHANGED vars
  <2>1. /\ pc' = pc /\ left' = left /\ UNCHANGED lockVars /\ UNCHANGED semVars
        /\ UNCHANGED rateVars
    BY <1>6 DEF vars
  <2> QED
    BY <2>1 DEF IInv, PcTyping, LockInv, LockExclusion, LockNotStranded, lockVars, At,
                SemInv, SlotConservation, MetricExact, NoIdlePlace, semVars,
                RateInv, RateTyping, GrantsKept, SleepLongEnough, KeepsItsGrants,
                RateRespected, Remembers, IsDrop, Sorted, AgeSeq, rateVars, Span, Quota
<1> QED
  BY <1>1, <1>2, <1>3, <1>4, <1>5, <1>6 DEF Next

LEMMA SpecIInv == Spec => []IInv
  BY InitIInv, NextIInv, PTL DEF Spec

\* Every variable has its type in every reachable state of the engine.
THEOREM TypeCorrect == Spec => []TypeOK
<1>1. IInv => TypeOK
  BY DEF IInv, PcTyping, LockInv, SemInv, RateInv, RateTyping, AgeSeq, TypeOK
<1> QED
  BY <1>1, SpecIInv, PTL

\* No place of the semaphore is lost or made up, however calls, releases,
\* timeouts and cancellations interleave (memory.py:287-341).
THEOREM SlotsConserved == Spec => []SlotConservation
<1>1. IInv => SlotConservation
  BY DEF IInv, SemInv
<1> QED
  BY <1>1, SpecIInv, PTL

\* At most max_concurrent operations are in flight.
THEOREM OperationsBounded == Spec => [](Cardinality(At("operation")) <= MaxConcurrent)
<1>1. IInv => Cardinality(At("operation")) <= MaxConcurrent
  <2> SUFFICES ASSUME IInv PROVE Cardinality(At("operation")) <= MaxConcurrent
    OBVIOUS
  <2>1. /\ Cardinality(At("operation")) \in Nat /\ Cardinality(semWoken) \in Nat
        /\ semValue \in Nat
    BY FiniteTasks DEF At, IInv, SemInv
  <2> QED
    BY <2>1, MemoryAssumption DEF IInv, SemInv, SlotConservation, MemoryAssumption
<1> QED
  BY <1>1, SpecIInv, PTL

\* current_concurrent is the number of operations in flight (core.py:57-71).
THEOREM MetricIsExact == Spec => []MetricExact
<1>1. IInv => MetricExact
  BY DEF IInv, SemInv
<1> QED
  BY <1>1, SpecIInv, PTL

\* A place is never left free while a task waits for one, unless a task that
\* hands it on is about to run (memory.py:287-297).
THEOREM PlacesAreHandedOn == Spec => []NoIdlePlace
<1>1. IInv => NoIdlePlace
  BY DEF IInv, SemInv
<1> QED
  BY <1>1, SpecIInv, PTL

\* The deque of timestamps is read and extended by one task at a time
\* (memory.py:225-245, 259-285).
THEOREM LockExcludes == Spec => []LockExclusion
<1>1. IInv => LockExclusion
  BY DEF IInv, LockInv
<1> QED
  BY <1>1, SpecIInv, PTL

\* A cancelled task never leaves the queue of the lock with nobody to serve it.
THEOREM LockIsPassedOn == Spec => []LockNotStranded
<1>1. IInv => LockNotStranded
  BY DEF IInv, LockInv
<1> QED
  BY <1>1, SpecIInv, PTL

\* Every suspended task is in the one queue that resumes it, once.
THEOREM QueuesAreExact == Spec => []QueuesExact
<1>1. IInv => QueuesExact
  BY DEF IInv, LockInv, SemInv, QueuesExact
<1> QED
  BY <1>1, SpecIInv, PTL

\* At most Quota grants are made in any Span ticks: limit grants in a window,
\* one in an interval (memory.py:215-285, 396-456).  A token bucket slower than
\* one grant per second is excluded, as the deque forgets its last grant before
\* the interval is over; a sliding window always satisfies the assumption.
THEOREM RateKept ==
  ASSUME Span <= Horizon + 1
  PROVE  Spec => []RateRespected
<1>1. IInv => RateRespected
  BY DEF IInv, RateInv, KeepsItsGrants, GrantsKept
<1> QED
  BY <1>1, SpecIInv, PTL

\* get_state counts no more timestamps than a call finds in the deque.
LEMMA UsageCounted ==
  ASSUME NEW r, timestamps \in AgeSeq, r = Prune(timestamps)
  PROVE  Usage \in Nat /\ Len(r) \in Nat /\ Usage <= Len(r)
<1> DEFINE recent == {i \in DOMAIN timestamps : timestamps[i] <= Horizon}
<1>1. \E n \in 0..Len(timestamps) : Pops(r, timestamps, Horizon + 1, n)
  BY Parameters, FreshPops DEF AgeSeq, Prune
<1>2. PICK n \in 0..Len(timestamps) : Pops(r, timestamps, Horizon + 1, n)
  BY <1>1
<1>3. /\ Len(timestamps) \in Nat /\ DOMAIN timestamps = 1..Len(timestamps)
      /\ \A i \in 1..Len(timestamps) : timestamps[i] \in Nat
  <2>1. timestamps \in Seq(0..Horizon+1)
    BY DEF AgeSeq
  <2>2. /\ Len(timestamps) \in Nat /\ DOMAIN timestamps = 1..Len(timestamps)
        /\ \A i \in 1..Len(timestamps) : timestamps[i] \in 0..Horizon+1
    BY <2>1, SeqElements
  <2> QED
    BY <2>2
<1>4. Len(r) = Len(timestamps) - n /\ Len(r) \in Nat /\ n \in Nat
  BY <1>2, <1>3 DEF Pops, IsDrop
<1>5. recent \subseteq (n+1)..Len(timestamps)
  <2> SUFFICES ASSUME NEW i \in 1..Len(timestamps), timestamps[i] <= Horizon
               PROVE  i \in (n+1)..Len(timestamps)
    BY <1>3
  <2>1. ~(i \in 1..n)
    BY <1>2, <1>3, Parameters DEF Pops
  <2> QED
    BY <1>3, <1>4, <2>1
<1>6. IsFiniteSet((n+1)..Len(timestamps)) /\ Cardinality((n+1)..Len(timestamps)) = Len(r)
  <2>1. n + 1 \in Int /\ Len(timestamps) \in Int
    BY <1>3, <1>4
  <2>2. /\ IsFiniteSet((n+1)..Len(timestamps))
        /\ Cardinality((n+1)..Len(timestamps)) =
             IF n + 1 > Len(timestamps) THEN 0 ELSE Len(timestamps) - (n + 1) + 1
    BY <2>1, FS_Interval
  <2>3. CASE n + 1 > Len(timestamps)
    BY <1>3, <1>4, <2>2, <2>3
  <2>4. CASE ~(n + 1 > Len(timestamps))
    BY <1>3, <1>4, <2>2, <2>4
  <2> QED
    BY <2>3, <2>4
<1>7. IsFiniteSet(recent) /\ Cardinality(recent) <= Len(r)
  BY <1>5, <1>6, FS_Subset
<1>8. Cardinality(recent) \in Nat
  BY <1>7, FS_CardinalityType
<1> QED
  BY <1>4, <1>7, <1>8 DEF Usage

\* get_state never reports a sliding window, or a limiter without a rate, exhausted
\* when a call of that moment would succeed: both look at the same edge of the
\* window, and current_concurrent at the same places as the semaphore (memory.py,
\* get_state).  A token bucket is excluded: its remaining grants are computed from
\* a rate rounded down.
THEOREM RefusedIsBusy ==
  ASSUME Algorithm = "sliding_window" \/ Unlimited
  PROVE  Spec => []RefusedMeansBusy
<1>1. ASSUME IInv, CanAcquireNow PROVE StateAllowed
  <2>1. ~Unlimited => RemainingRate > 0
    <3>1. SUFFICES ASSUME Algorithm = "sliding_window" PROVE RemainingRate > 0
      OBVIOUS
    <3>2. timestamps \in AgeSeq /\ Len(Prune(timestamps)) < Limit
      BY <1>1, <3>1 DEF CanAcquireNow, RateReady, IInv, RateInv, RateTyping
    <3>3. PICK r : r = Prune(timestamps)
      OBVIOUS
    <3>4. Usage \in Nat /\ Len(r) \in Nat /\ Usage <= Len(r)
      BY <3>2, <3>3, UsageCounted
    <3>5. Usage < Limit /\ Limit \in Nat
      BY <3>2, <3>3, <3>4, MemoryAssumption DEF MemoryAssumption
    <3> QED
      BY <3>1, <3>4, <3>5 DEF RemainingRate
  <2>2. RemainingConcurrent > 0
    <3>1. semValue \in Nat \ {0} /\ Cardinality(semWoken) \in Nat /\ Cardinality(At("operation")) \in Nat
      BY <1>1, FiniteTasks DEF CanAcquireNow, SemLocked, At, IInv, SemInv
    <3>2. current = Cardinality(At("operation"))
      BY <1>1 DEF IInv, SemInv, MetricExact
    <3>3. semValue + Cardinality(semWoken) + Cardinality(At("operation")) = MaxConcurrent
      BY <1>1 DEF IInv, SemInv, SlotConservation
    <3>4. current < MaxConcurrent /\ MaxConcurrent - current > 0
      BY <3>1, <3>2, <3>3, MemoryAssumption DEF MemoryAssumption
    <3> QED
      BY <3>4 DEF RemainingConcurrent
  <2> QED
    BY <2>1, <2>2 DEF StateAllowed
<1>2. IInv => RefusedMeansBusy
  BY <1>1 DEF RefusedMeansBusy
<1> QED
  BY <1>2, SpecIInv, PTL

-----------------------------------------------------------------------------
(***************************************************************************)
(* The in-process engine implements LimiterPromise: every step is a step   *)
(* of the promise or changes nothing it speaks of.                         *)
(***************************************************************************)
paid == At("semaphore")
inFlight == At("operation")
Unseen == UNCHANGED <<granted, paid, inFlight>>

\* The promise means the same by the operators it shares with the engine.
LEMMA SharedOperators ==
  /\ \A S : Promise!Cardinality(S) = Cardinality(S)
  /\ \A ages, span : Promise!Grant(ages, span) = Grant(ages, span)
  /\ \A ages, span : Promise!Fresh(ages, span) = Fresh(ages, span)
  /\ \A ages : Promise!Older(ages) = Older(ages)
<1>1. \A S : Promise!Cardinality(S) = Cardinality(S)
  BY DEF Promise!Cardinality, Cardinality
<1>2. \A ages, span : Promise!Grant(ages, span) = Grant(ages, span)
  BY DEF Promise!Grant, Grant
<1>3. \A ages, span : Promise!Fresh(ages, span) = Fresh(ages, span)
  BY <1>1 DEF Promise!Fresh, Fresh
<1>4. \A ages : Promise!Older(ages) = Older(ages)
  BY DEF Promise!Older, Older
<1> QED
  BY <1>1, <1>2, <1>3, <1>4

\* What a move of one task does to the tasks at a place.
LEMMA MoveChangesPlaces ==
  ASSUME PcTyping, NEW t \in Tasks, NEW place \in Places, MoveTo(t, place), NEW p
  PROVE  At(p)' = IF place = p THEN At(p) \cup {t} ELSE At(p) \ {t}
  BY DEF PcTyping, MoveTo, At

\* A task outside the semaphore that moves outside it changes nothing.
LEMMA MoveUnseen ==
  ASSUME PcTyping, NEW t \in Tasks, NEW place \in Places \ {"semaphore", "operation"},
         MoveTo(t, place), pc[t] \notin {"semaphore", "operation"}, granted' = granted
  PROVE  Unseen
<1>1. t \notin At("semaphore") /\ t \notin At("operation")
  BY DEF At
<1> QED
  BY <1>1, MoveChangesPlaces DEF Unseen, paid, inFlight

\* A grant that finds room in the period is one the promise allows.
LEMMA GrantIsPromised ==
  ASSUME RateFree, NEW ages, GrantRate(ages)
  PROVE  Promise!GrantRate
  BY SharedOperators DEF RateFree, GrantRate, Promise!GrantRate

\* A free place of the semaphore is one the promise allows to take.
LEMMA FreePlaceIsPromised ==
  ASSUME SemInv, semValue > 0 \/ semWoken # {}
  PROVE  Cardinality(inFlight) < MaxConcurrent
<1>1. /\ semValue \in Nat /\ IsFiniteSet(semWoken)
      /\ Cardinality(semWoken) \in Nat /\ Cardinality(At("operation")) \in Nat
  BY FiniteTasks DEF SemInv, At
<1>2. semWoken # {} => Cardinality(semWoken) # 0
  BY <1>1, FS_EmptySet
<1>3. semValue + Cardinality(semWoken) + Cardinality(At("operation")) = MaxConcurrent
  BY DEF SemInv, SlotConservation
<1> QED
  BY <1>1, <1>2, <1>3, MemoryAssumption DEF inFlight, MemoryAssumption

\* The owner of the lock was granted the rate and turns to the semaphore.
LEMMA GrantedSteps ==
  ASSUME IInv, RateFree, NEW t \in Tasks, Owner(t), NEW ages, GrantRate(ages),
         AcquireConcurrentSlot(t)
  PROVE  Promise!Next
<1>1. t \notin paid \cup inFlight
  BY OwnerIsNotServed DEF IInv, paid, inFlight, At
<1>2. Promise!GrantRate
  BY GrantIsPromised
<1>3. PcTyping
  BY DEF IInv
<1>4. CASE SemLocked
  <2>1. MoveTo(t, "semaphore") /\ "semaphore" \in Places
    BY <1>4 DEF AcquireConcurrentSlot, MoveTo, Places
  <2>2. paid' = paid \cup {t} /\ inFlight' = inFlight
    <3>1. At("semaphore")' = At("semaphore") \cup {t}
      BY <1>3, <2>1, MoveChangesPlaces
    <3>2. At("operation")' = At("operation") \ {t}
      BY <1>3, <2>1, MoveChangesPlaces
    <3> QED
      BY <1>1, <3>1, <3>2 DEF paid, inFlight
  <2>3. Promise!Pay(t)
    BY <1>1, <1>2, <2>2 DEF Promise!Pay, paid, inFlight
  <2> QED
    BY <2>3 DEF Promise!Next
<1>5. CASE ~SemLocked
  <2>1. MoveTo(t, "operation") /\ "operation" \in Places
    BY <1>5 DEF AcquireConcurrentSlot, Enter, MoveTo, Places
  <2>2. inFlight' = inFlight \cup {t} /\ paid' = paid
    BY <1>1, <1>3, <2>1, MoveChangesPlaces DEF paid, inFlight
  <2>3. semValue > 0
    BY <1>5 DEF SemLocked, IInv, SemInv
  <2>4. Cardinality(inFlight) < MaxConcurrent
    BY <2>3, FreePlaceIsPromised DEF IInv
  <2>5. Promise!PayAndStart(t)
    BY <1>1, <1>2, <2>2, <2>4, SharedOperators DEF Promise!PayAndStart, paid, inFlight
  <2> QED
    BY <2>5 DEF Promise!Next
<1> QED
  BY <1>4, <1>5

LEMMA LockedSteps ==
  ASSUME IInv, KeepsItsGrants, NEW t \in Tasks, Owner(t), NEW call, Locked(t, call)
  PROVE  Promise!Next \/ Unseen
<1> DEFINE ages == Prune(timestamps)
<1>1. pc[t] \notin {"semaphore", "operation"} /\ PcTyping /\ RateInv
  BY OwnerIsNotServed DEF IInv
<1>2. CASE RateReady(ages) /\ AcquireConcurrentSlot(t) /\ GrantRate(ages)
  <2>1. RateFree
    BY <1>1, <1>2, ReadyMeansFree
  <2> HIDE DEF ages
  <2> QED
    BY <1>2, <2>1, GrantedSteps
<1>3. CASE RateReady(ages) /\ GrantRate(ages) /\ Return(t)
  <2>1. RateFree
    BY <1>1, <1>3, ReadyMeansFree
  <2>2. t \notin At("semaphore") /\ t \notin At("operation")
    BY <1>1 DEF At
  <2>3. "idle" \in Places /\ MoveTo(t, "idle")
    BY <1>3, ReturnMoves DEF Places
  <2>4. UNCHANGED <<paid, inFlight>>
    BY <1>1, <2>2, <2>3, MoveChangesPlaces DEF paid, inFlight
  <2> HIDE DEF ages
  <2>5. Promise!PayAndWaste
    BY <1>3, <2>1, <2>4, GrantIsPromised DEF Promise!PayAndWaste, paid, inFlight
  <2> QED
    BY <2>5 DEF Promise!Next
<1>4. CASE granted' = granted /\ (Return(t) \/ MoveTo(t, "sleep"))
  <2>1. \/ MoveTo(t, "idle") /\ "idle" \in Places \ {"semaphore", "operation"}
        \/ MoveTo(t, "sleep") /\ "sleep" \in Places \ {"semaphore", "operation"}
    BY <1>4, ReturnMoves DEF Places
  <2> QED
    BY <1>1, <1>4, <2>1, MoveUnseen
<1>5. CASE AcquireLocked(t)
  BY <1>2, <1>4, <1>5 DEF AcquireLocked, MoveTo
<1>6. CASE TryLocked(t)
  BY <1>2, <1>3, <1>4, <1>6 DEF TryLocked, AcquireConcurrentSlot
<1>7. CASE StateLocked(t)
  BY <1>4, <1>7 DEF StateLocked, rateVars
<1> QED
  BY <1>5, <1>6, <1>7 DEF Locked

LEMMA CallSteps ==
  ASSUME IInv, KeepsItsGrants, NEW t \in Tasks, NEW call \in LockWait, Call(t, call)
  PROVE  Promise!Next \/ Unseen
<1>1. CASE LockFree
  <2>1. Owner(t) /\ Locked(t, call)
    BY <1>1 DEF Owner, Call
  <2> QED
    BY <2>1, LockedSteps
<1>2. CASE ~LockFree
  <2>1. MoveTo(t, call) /\ pc[t] \notin {"semaphore", "operation"} /\ granted' = granted
    BY <1>2 DEF Call, MoveTo, rateVars
  <2>2. call \in Places \ {"semaphore", "operation"}
    BY DEF Places, LockWait
  <2> QED
    BY <2>1, <2>2, MoveUnseen DEF IInv
<1> QED
  BY <1>1, <1>2

LEMMA ResumeSteps ==
  ASSUME IInv, KeepsItsGrants, NEW t \in Tasks, Resume(t)
  PROVE  Promise!Next \/ Unseen
<1>1. CASE LockWakeup(t)
  <2>1. Owner(t) /\ Locked(t, pc[t])
    BY <1>1 DEF LockWakeup, Owner
  <2> QED
    BY <2>1, LockedSteps
<1>2. CASE SleepDone(t)
  <2>1. pc[t] = "sleep" /\ left[t] = 0 /\ Owner(t) /\ t \in At("sleep")
    BY <1>2 DEF SleepDone, Owner, At
  <2>2. CASE Algorithm = "token_bucket"
    <3>1. GrantRate(timestamps) /\ AcquireConcurrentSlot(t)
      BY <1>2, <2>2 DEF SleepDone
    <3>2. RateFree
      BY <2>1, <2>2, WokenMeansFree DEF IInv
    <3> QED
      BY <2>1, <3>1, <3>2, GrantedSteps
  <2>3. CASE Algorithm # "token_bucket"
    <3>1. Locked(t, "acquire")
      BY <1>2, <2>3 DEF SleepDone, Locked
    <3> QED
      BY <2>1, <3>1, LockedSteps
  <2> QED
    BY <2>2, <2>3
<1>3. CASE SemWakeup(t)
  <2>1. t \in paid /\ t \notin inFlight /\ semWoken # {}
    BY <1>3 DEF SemWakeup, IInv, SemInv, paid, inFlight, At
  <2>2. MoveTo(t, "operation") /\ "operation" \in Places /\ granted' = granted
    BY <1>3 DEF SemWakeup, Enter, MoveTo, Places, rateVars
  <2>3. paid' = paid \ {t} /\ inFlight' = inFlight \cup {t}
    BY <2>2, MoveChangesPlaces DEF IInv, paid, inFlight
  <2>4. Cardinality(inFlight) < MaxConcurrent
    BY <2>1, FreePlaceIsPromised DEF IInv
  <2>5. Promise!Start(t)
    BY <2>1, <2>2, <2>3, <2>4, SharedOperators DEF Promise!Start, paid, inFlight
  <2> QED
    BY <2>5 DEF Promise!Next
<1> QED
  BY <1>1, <1>2, <1>3 DEF Resume

\* A task that leaves the semaphore ends its operation, or wastes its rate slot.
LEMMA LeavingSteps ==
  ASSUME IInv, NEW t \in Tasks, Return(t), pc[t] \in {"semaphore", "operation"},
         granted' = granted
  PROVE  Promise!Next
<1>1. MoveTo(t, "idle") /\ "idle" \in Places
  BY ReturnMoves DEF Places
<1>2. paid' = paid \ {t} /\ inFlight' = inFlight \ {t}
  BY <1>1, MoveChangesPlaces DEF IInv, paid, inFlight
<1>3. CASE pc[t] = "semaphore"
  <2>1. t \in paid /\ t \notin inFlight
    BY <1>3 DEF paid, inFlight, At
  <2>2. Promise!Waste(t)
    BY <1>2, <2>1 DEF Promise!Waste, paid, inFlight
  <2> QED
    BY <2>2 DEF Promise!Next
<1>4. CASE pc[t] = "operation"
  <2>1. t \in inFlight /\ t \notin paid
    BY <1>4 DEF paid, inFlight, At
  <2>2. Promise!Finish(t)
    BY <1>2, <2>1 DEF Promise!Finish, paid, inFlight
  <2> QED
    BY <2>2 DEF Promise!Next
<1> QED
  BY <1>3, <1>4

LEMMA CancelSteps ==
  ASSUME IInv, NEW t \in Tasks, Cancel(t)
  PROVE  Promise!Next \/ Unseen
<1>1. Return(t) /\ granted' = granted
  BY DEF Cancel, CancelInLockQueue, CancelWokenByLock, CancelAsleep, CancelInSemQueue,
         CancelWokenBySem, rateVars
<1>2. CASE pc[t] \in {"semaphore", "operation"}
  BY <1>1, <1>2, LeavingSteps
<1>3. CASE pc[t] \notin {"semaphore", "operation"}
  BY <1>1, <1>3, ReturnMoves, MoveUnseen DEF IInv
<1> QED
  BY <1>2, <1>3

LEMMA NextIsPromised ==
  ASSUME IInv, KeepsItsGrants, [Next]_vars
  PROVE  Promise!Next \/ Unseen
<1>1. CASE Tick
  <2>1. UNCHANGED <<paid, inFlight>> /\ granted' = Fresh(Older(granted), Span)
    BY <1>1 DEF Tick, paid, inFlight, At
  <2>2. Promise!Tick
    BY <2>1, SharedOperators DEF Promise!Tick, paid, inFlight
  <2> QED
    BY <2>2 DEF Promise!Next
<1>2. ASSUME NEW t \in Tasks, NEW call \in LockWait, Call(t, call)
      PROVE  Promise!Next \/ Unseen
  BY <1>2, CallSteps
<1>3. ASSUME NEW t \in Tasks, Resume(t) PROVE Promise!Next \/ Unseen
  BY <1>3, ResumeSteps
<1>4. ASSUME NEW t \in Tasks, Release(t) PROVE Promise!Next \/ Unseen
  <2>1. Return(t) /\ pc[t] \in {"semaphore", "operation"} /\ granted' = granted
    BY <1>4 DEF Release, rateVars
  <2> QED
    BY <2>1, LeavingSteps
<1>5. ASSUME NEW t \in Tasks, Cancel(t) PROVE Promise!Next \/ Unseen
  BY <1>5, CancelSteps
<1>6. CASE UNCHANGED vars
  BY <1>6 DEF vars, rateVars, Unseen, paid, inFlight, At
<1> QED
  BY <1>1, <1>2, <1>3, <1>4, <1>5, <1>6 DEF Next

\* The engine implements what a limiter promises its callers (core.py,
\* RateLimiter): no operation without a rate slot of its own, no more rate
\* slots than the rate, no more operations than places.  A token bucket slower
\* than one grant per second does not, and is excluded.
THEOREM EngineKeepsPromise ==
  ASSUME Span <= Horizon + 1
  PROVE  Spec => ImplementsPromise
<1>1. Init => Promise!Init
  BY DEF Init, Promise!Init, At
<1>2. IInv /\ [Next]_vars => [Promise!Next]_Promise!vars
  BY NextIsPromised DEF KeepsItsGrants, Unseen, Promise!vars, paid, inFlight
<1> QED
  BY <1>1, <1>2, SpecIInv, PTL DEF Spec, ImplementsPromise, Promise!Spec
=============================================================================

--------------------------- MODULE PostgresLimiter ---------------------------
(***************************************************************************)
(* The PostgreSQL engine (engines/postgres.py): the clients of one process *)
(* share a pool of connections to a server that keeps one row per group,   *)
(* with the time of the last grant, the number of places taken and a       *)
(* version, and a table with the times of the grants of a sliding window.  *)
(* A statement is atomic.  The token bucket reads the row in one statement *)
(* and writes it in another that compares versions; the sliding window     *)
(* keeps the row locked for the length of a transaction.                   *)
(*                                                                         *)
(* Time is discrete and the clocks of the clients agree; a time kept in a  *)
(* variable is an age or a number of ticks left.  A client reads its clock *)
(* before it waits for a connection, so it decides with an old time.       *)
(***************************************************************************)
EXTENDS Integers, SequencesExt, Ages

CONSTANTS Clients,
          None,           \* no client
          Algorithms,     \* the algorithms the group may be configured with
          PoolSizes,      \* the values pool_max_size may have
          Period,         \* ticks in 1 / rate_per_second, 0 for no rate limit
          Margin,         \* timing_margin_ms
          Limit,          \* limit
          Window,         \* window_seconds
          MaxConcurrent,  \* max_concurrent
          Poll,           \* sleep of a client that found every place taken
          MaxTimeout,     \* bound: longest timeout of try_acquire
          MaxDelay,       \* bound: longest time from reading the clock to the grant
          MaxWait         \* bound: the same for a client that waited for a connection

ASSUME PostgresAssumption ==
  /\ IsFiniteSet(Clients)
  /\ None \notin Clients
  /\ Algorithms \subseteq {"token_bucket", "sliding_window"}
  /\ PoolSizes \subseteq Nat \ {0}
  /\ Period \in Nat
  /\ Margin \in 0..Period
  /\ Limit \in Nat \ {0}
  /\ Window \in Nat \ {0}
  /\ MaxConcurrent \in Nat \ {0}
  /\ Poll \in Nat \ {0}
  /\ MaxTimeout \in Nat
  /\ MaxDelay \in 0..MaxWait
  /\ MaxWait \in 0..Window

VARIABLES
  algorithm,  \* chosen at the start
  failClosed, \* chosen at the start
  poolSize,   \* chosen at the start
  row,        \* the row of the group is in the state table
  last,       \* its last_acquisition_at, as an age
  count,      \* its concurrent_count
  current,    \* clients that have read the version which the row has now
  stale,      \* clients that have read a version of a row since deleted, which
              \* the row may have again
  locked,     \* the client whose transaction has the row locked, or None
  entries,    \* the window table: how many entries there are of each age
  pc,         \* where each client is; see Places
  timer,      \* age of the time a client read, or rest of its sleep
  budget,     \* ticks left of the timeout, Never for acquire()
  read,       \* the concurrent_count a client read
  resetting,  \* how far the one reset() is: "no", "half", "done"
  owners,     \* history variable: clients the row counts a place for
  leaked,     \* history variable: places still counted for clients that gave up
  granted     \* history variable: grants that count for the rate, by age of the time
              \* they were made with

config  == <<algorithm, failClosed, poolSize>>
server  == <<row, last, count, current, stale, locked, entries>>
local   == <<pc, timer, budget, read>>
history == <<owners, leaked, granted>>
vars == <<config, server, local, resetting, history>>

Never == MaxTimeout + 1

\* Waiting for a connection; a statement is on its way; the reply of the last
\* one is; asleep with a connection, or without; the operation is in flight; it
\* is over and release() waits for a connection, or has sent its statement.
Places == {"idle", "queue", "select", "insert", "update", "count", "commit", "nothing",
           "granted", "nap", "sleep", "operation", "leaving", "release"}
Statements == {"select", "insert", "update", "count", "commit", "nothing"}
Connected  == Statements \cup {"granted", "nap", "release"}
Stamped    == Statements \cup {"queue"}
Asking     == {"queue", "leaving"}
Holding    == {"granted", "operation", "leaving", "release"}
Waiting(c) == pc[c] \in Stamped \cup {"nap", "sleep"}

At(places) == {c \in Clients : pc[c] \in places}

TokenBucket   == algorithm = "token_bucket"
SlidingWindow == algorithm = "sliding_window"

\* What the token bucket requires between the times of two grants.
Required == Period - Margin

\* Ages from which on the last grant, and an entry, are too old for any request.
Old     == Period + MaxWait
Expired == Window + MaxWait + 1

Nothing == [a \in 0..Expired |-> 0]

\* Ages of the grants that count for the rate, and how many may count.
Recent == IF TokenBucket THEN 0..Required-1 ELSE 0..Window
Quota  == IF TokenBucket THEN 1 ELSE Limit

Init ==
  /\ algorithm \in Algorithms
  /\ failClosed \in BOOLEAN
  /\ poolSize \in PoolSizes
  /\ row = FALSE
  /\ last = Old
  /\ count = 0
  /\ current = {}
  /\ stale = {}
  /\ locked = None
  /\ entries = Nothing
  /\ pc = [c \in Clients |-> "idle"]
  /\ timer = [c \in Clients |-> 0]
  /\ budget = [c \in Clients |-> 0]
  /\ read = [c \in Clients |-> 0]
  /\ resetting = "no"
  /\ owners = {}
  /\ leaked = 0
  /\ granted = [a \in Recent |-> 0]

-----------------------------------------------------------------------------
(* Steps shared by both algorithms *)

Down(n)       == IF n > 0 THEN n - 1 ELSE 0
AtLeast(n, m) == IF n > m THEN n ELSE m
AtMost(n, m)  == IF n < m THEN n ELSE m

\* One more entry, or grant, of an age.
Record(ages, age) == [ages EXCEPT ![age] = @ + 1]

Move(c, place, ticks) ==
  /\ pc' = [pc EXCEPT ![c] = place]
  /\ timer' = [timer EXCEPT ![c] = ticks]

Idle(c) ==
  /\ Move(c, "idle", 0)
  /\ budget' = [budget EXCEPT ![c] = 0]
  /\ read' = [read EXCEPT ![c] = 0]

\* The row gets the next version.
NewVersion ==
  /\ current' \in SUBSET stale
  /\ stale' = stale \ current'

\* The statement that grants a place is executed; its reply is on its way.
TakePlace(c) ==
  /\ Move(c, "granted", 0)
  /\ read' = [read EXCEPT ![c] = 0]
  /\ owners' = owners \cup {c}
  /\ granted' = IF timer[c] \in Recent THEN Record(granted, timer[c]) ELSE granted
  /\ UNCHANGED <<budget, leaked>>

\* acquire() sleeps; try_acquire returns False when its timeout is over, and
\* otherwise sleeps without a connection.
Refuse(c, place, wait) ==
  /\ \/ budget[c] = Never /\ Move(c, place, wait)
        /\ read' = [read EXCEPT ![c] = 0] /\ UNCHANGED budget
     \/ budget[c] = 0 /\ Idle(c)
     \/ budget[c] \in 1..MaxTimeout /\ Move(c, "sleep", AtMost(Poll, budget[c]))
        /\ read' = [read EXCEPT ![c] = 0] /\ UNCHANGED budget
  /\ UNCHANGED history

-----------------------------------------------------------------------------
(* The statements of the token bucket *)

RateReady(c) == Period = 0 \/ last >= timer[c] + Required

\* Mutant: the concurrent_count is not looked at.
SelectRow_Unlimited(c) ==
  /\ pc[c] = "select" /\ TokenBucket
  /\ \/ ~row /\ pc' = [pc EXCEPT ![c] = "insert"]
        /\ UNCHANGED <<current, timer, budget, read, history>>
     \/ row /\ RateReady(c)
        /\ pc' = [pc EXCEPT ![c] = "update"]
        /\ read' = [read EXCEPT ![c] = count]
        /\ current' = current \cup {c}
        /\ UNCHANGED <<timer, budget, history>>
     \/ row /\ ~RateReady(c) /\ UNCHANGED current
        /\ Refuse(c, "nap", AtLeast(Period + timer[c] - last, Poll))
  /\ UNCHANGED <<config, row, last, count, stale, locked, entries, resetting>>

\* SELECT ... FOR UPDATE: the lock ends with the statement.  A client of
\* acquire() that is refused sleeps with its connection.
SelectRow(c) ==
  /\ pc[c] = "select" /\ TokenBucket
  /\ \/ ~row /\ pc' = [pc EXCEPT ![c] = "insert"]
        /\ UNCHANGED <<current, timer, budget, read, history>>
     \/ row /\ RateReady(c) /\ count < MaxConcurrent
        /\ pc' = [pc EXCEPT ![c] = "update"]
        /\ read' = [read EXCEPT ![c] = count]
        /\ current' = current \cup {c}
        /\ UNCHANGED <<timer, budget, history>>
     \/ row /\ ~RateReady(c) /\ UNCHANGED current
        /\ Refuse(c, "nap", AtLeast(Period + timer[c] - last, Poll))
     \/ row /\ RateReady(c) /\ count >= MaxConcurrent /\ UNCHANGED current
        /\ Refuse(c, "nap", Poll)
  /\ UNCHANGED <<config, row, last, count, stale, locked, entries, resetting>>

\* Mutant: WHERE does not name the version.
UpdateRow_AnyVersion(c) ==
  /\ pc[c] = "update"
  /\ last' = timer[c]
  /\ count' = read[c] + 1
  /\ NewVersion
  /\ TakePlace(c)
  /\ UNCHANGED <<config, row, locked, entries, resetting>>

\* UPDATE ... WHERE version = the version read.  acquire() tries again after a
\* pause shorter than a tick.
UpdateRow(c) ==
  /\ pc[c] = "update"
  /\ \/ /\ c \in current
        /\ last' = timer[c]
        /\ count' = read[c] + 1
        /\ NewVersion
        /\ TakePlace(c)
     \/ /\ c \notin current
        /\ stale' = stale \ {c}
        /\ Refuse(c, "nap", 0)
        /\ UNCHANGED <<last, count, current>>
  /\ UNCHANGED <<config, row, locked, entries, resetting>>

\* INSERT of a row of version 1
InsertFirst(c) ==
  /\ ~row
  /\ row' = TRUE
  /\ last' = timer[c]
  /\ count' = 1
  /\ NewVersion
  /\ TakePlace(c)
  /\ UNCHANGED <<locked, entries>>

-----------------------------------------------------------------------------
(* The transaction of the sliding window *)

\* Mutant: SELECT without FOR UPDATE.
LockRow_Unlocked(c) ==
  /\ pc[c] = "select" /\ SlidingWindow
  /\ \/ ~row /\ pc' = [pc EXCEPT ![c] = "insert"] /\ UNCHANGED <<locked, read>>
     \/ /\ row
        /\ pc' = [pc EXCEPT ![c] = "count"]
        /\ locked' = c
        /\ read' = [read EXCEPT ![c] = count]
  /\ UNCHANGED <<config, row, last, count, current, stale, entries, timer, budget,
                 resetting, history>>

\* SELECT ... FOR UPDATE waits for the lock, but does not see the row that
\* another transaction has inserted and not committed.
LockRow(c) ==
  /\ pc[c] = "select" /\ SlidingWindow
  /\ \/ ~row /\ pc' = [pc EXCEPT ![c] = "insert"] /\ UNCHANGED <<locked, read>>
     \/ /\ row /\ locked = None
        /\ pc' = [pc EXCEPT ![c] = "count"]
        /\ locked' = c
        /\ read' = [read EXCEPT ![c] = count]
  /\ UNCHANGED <<config, row, last, count, current, stale, entries, timer, budget,
                 resetting, history>>

InsertAndLock(c) ==
  /\ ~row
  /\ locked' = c
  /\ pc' = [pc EXCEPT ![c] = "count"]
  /\ UNCHANGED <<row, last, count, current, stale, entries, timer, budget, read, history>>

\* INSERT waits for a transaction that has inserted the same row; on a row that is
\* there it fails at once with UniqueViolationError, and the loop starts again,
\* whatever the timeout.
InsertRow(c) ==
  /\ pc[c] = "insert"
  /\ \/ locked = None /\ TokenBucket /\ InsertFirst(c)
     \/ locked = None /\ SlidingWindow /\ InsertAndLock(c)
     \/ row /\ Move(c, "queue", 0) /\ UNCHANGED <<server, budget, read, history>>
  /\ UNCHANGED <<config, resetting>>

\* DELETE ... WHERE timestamp_at < the time read less the window
Prune(ages, age) == [a \in 0..Expired |-> IF a > Window + age THEN 0 ELSE ages[a]]

\* A client that found no room sleeps until the oldest entry leaves the window,
\* even when only a place was missing.
WaitTime(ages) ==
  LET found == {a \in 0..Expired : ages[a] > 0} IN
  IF found = {} THEN Poll
  ELSE AtLeast(Window - (CHOOSE a \in found : \A b \in found : b <= a), Poll)

\* SELECT COUNT(*)
CountEntries(c) ==
  LET free == Total(Prune(entries, timer[c]), 0..Expired) < Limit /\ read[c] < MaxConcurrent IN
  /\ pc[c] = "count"
  /\ pc' = [pc EXCEPT ![c] = IF free THEN "commit" ELSE "nothing"]
  /\ UNCHANGED <<config, server, timer, budget, read, resetting, history>>

\* UPDATE and INSERT, or SELECT MIN(timestamp_at), then COMMIT.
Commit(c) ==
  LET kept == Prune(entries, timer[c]) IN
  /\ \/ pc[c] = "commit" /\ TakePlace(c)
        /\ count' = count + 1
        /\ entries' = Record(kept, timer[c])
     \/ pc[c] = "nothing" /\ Refuse(c, "sleep", WaitTime(kept))
        /\ entries' = kept /\ UNCHANGED count
  /\ locked' = None
  /\ row' = TRUE
  /\ UNCHANGED <<config, last, current, stale, resetting>>

-----------------------------------------------------------------------------
(* The clients *)

\* acquire(), or try_acquire(timeout): the clock is read, then the client asks the
\* pool for a connection.
Call(c, timeout) ==
  /\ pc[c] = "idle"
  /\ Move(c, "queue", 0)
  /\ budget' = [budget EXCEPT ![c] = timeout]
  /\ UNCHANGED <<config, server, read, resetting, history>>

\* The pool serves those that wait in any order: a newcomer may be ahead of a client
\* that waited, which then waits again at the end.
Connect(c) ==
  /\ Cardinality(At(Connected)) < poolSize
  /\ \/ pc[c] = "queue" /\ Move(c, "select", timer[c])
     \/ pc[c] = "leaving" /\ Move(c, "release", 0)
  /\ UNCHANGED <<config, server, budget, read, resetting, history>>

\* The connection goes back to the pool and the operation starts.
Reply(c) ==
  /\ pc[c] = "granted"
  /\ Move(c, "operation", 0)
  /\ budget' = [budget EXCEPT ![c] = 0]
  /\ UNCHANGED <<config, server, read, resetting, history>>

\* A client that slept with its connection returns it and asks for another.
Wake(c) ==
  /\ pc[c] \in {"nap", "sleep"}
  /\ timer[c] = 0
  /\ Move(c, "queue", 0)
  /\ UNCHANGED <<config, server, budget, read, resetting, history>>

\* The operation is over: release() asks for a connection.
Finish(c) ==
  /\ pc[c] = "operation"
  /\ Move(c, "leaving", 0)
  /\ UNCHANGED <<config, server, budget, read, resetting, history>>

\* Mutant: the count is left as it is.
ReleaseRow_KeepsCount(c) ==
  /\ pc[c] = "release"
  /\ row => locked = None
  /\ IF row THEN NewVersion ELSE UNCHANGED <<current, stale>>
  /\ owners' = owners \ {c}
  /\ leaked' = IF c \in owners THEN leaked ELSE Down(leaked)
  /\ Idle(c)
  /\ UNCHANGED <<config, row, last, count, locked, entries, resetting, granted>>

\* UPDATE ... SET concurrent_count = GREATEST(concurrent_count - 1, 0), which
\* waits for the lock.  It does not know whose place it gives back: for a client
\* that has none, a lost one if there is any, or else that of another client.
ReleaseRow(c) ==
  /\ pc[c] = "release"
  /\ row => locked = None
  /\ count' = Down(count)
  /\ IF row THEN NewVersion ELSE UNCHANGED <<current, stale>>
  /\ owners' = owners \ {c}
  /\ leaked' = IF c \in owners THEN leaked ELSE Down(leaked)
  /\ Idle(c)
  /\ UNCHANGED <<config, row, last, locked, entries, resetting, granted>>

\* Mutant: the transaction stays open.
Leave_KeepsLock(c) ==
  /\ current' = current \ {c}
  /\ stale' = stale \ {c}
  /\ UNCHANGED <<row, last, count, locked, entries>>

\* The client leaves the pool; its transaction, if it has one, is rolled back.
Leave(c) ==
  /\ locked' = IF locked = c THEN None ELSE locked
  /\ current' = current \ {c}
  /\ stale' = stale \ {c}
  /\ UNCHANGED <<row, last, count, entries>>

\* A failure try_acquire catches (OSError): with fail_open the request is
\* allowed, whether a place was taken or not.
FailOpen(c) ==
  /\ ~failClosed
  /\ pc[c] \in Stamped \cup {"granted"}
  /\ budget[c] # Never
  /\ Leave(c)
  /\ Move(c, "operation", 0)
  /\ budget' = [budget EXCEPT ![c] = 0]
  /\ read' = [read EXCEPT ![c] = 0]
  /\ UNCHANGED <<config, resetting, history>>

\* The client is cancelled, crashes, or sees a failure that is not caught, such
\* as that of NOWAIT on a locked row.  A place it holds is never given back.
GiveUp(c) ==
  /\ pc[c] # "idle"
  /\ Leave(c)
  /\ Idle(c)
  /\ owners' = owners \ {c}
  /\ leaked' = IF c \in owners /\ leaked < count THEN leaked + 1 ELSE leaked
  /\ UNCHANGED <<config, resetting, granted>>

-----------------------------------------------------------------------------
(* reset(), in another process: two statements *)

ResetRow ==
  /\ resetting = "no"
  /\ row => locked = None
  /\ resetting' = "half"
  /\ row' = FALSE
  /\ last' = Old
  /\ count' = 0
  /\ current' = {}
  /\ stale' = At({"update"})
  /\ owners' = {}
  /\ leaked' = 0
  /\ UNCHANGED <<config, locked, entries, local, granted>>

ResetWindow ==
  /\ resetting = "half"
  /\ resetting' = "done"
  /\ entries' = Nothing
  /\ granted' = [a \in Recent |-> 0]
  /\ UNCHANGED <<config, row, last, count, current, stale, locked, local, owners, leaked>>

-----------------------------------------------------------------------------
(* Time *)

Aged(ages) == [a \in 0..Expired |->
  IF a = 0 THEN 0 ELSE IF a < Expired THEN ages[a-1] ELSE ages[a-1] + ages[a]]

\* A statement and its reply take a bounded time; a free connection is taken
\* at once, and a client that sleeps with one wakes when it should.
Tick ==
  /\ At(Asking) = {} \/ Cardinality(At(Connected)) = poolSize
  /\ \A c \in At({"queue"}) : timer[c] < MaxWait
  /\ \A c \in At(Connected \ {"nap"}) : timer[c] < MaxDelay
  /\ \A c \in At({"nap"}) : timer[c] > 0
  /\ last' = AtMost(last + 1, Old)
  /\ entries' = Aged(entries)
  /\ timer' = [c \in Clients |->
       IF pc[c] \in {"nap", "sleep"} THEN Down(timer[c])
       ELSE IF pc[c] \in {"idle", "operation", "leaving"} THEN 0 ELSE timer[c] + 1]
  /\ budget' = [c \in Clients |->
       IF Waiting(c) /\ budget[c] # Never THEN Down(budget[c]) ELSE budget[c]]
  /\ granted' = [a \in Recent |-> IF a = 0 THEN 0 ELSE granted[a-1]]
  /\ UNCHANGED <<config, row, count, current, stale, locked, pc, read, resetting,
                 owners, leaked>>

Statement(c) ==
  \/ SelectRow(c) \/ UpdateRow(c) \/ InsertRow(c) \/ ReleaseRow(c)
  \/ LockRow(c) \/ CountEntries(c) \/ Commit(c)
Step(c) == Connect(c) \/ Statement(c) \/ Reply(c) \/ Wake(c) \/ Finish(c)

Next ==
  \/ Tick
  \/ ResetRow
  \/ ResetWindow
  \/ \E c \in Clients : \/ \E timeout \in 0..Never : Call(c, timeout)
                        \/ Step(c) \/ FailOpen(c) \/ GiveUp(c)

Spec == Init /\ [][Next]_vars

-----------------------------------------------------------------------------
(* Properties *)

TypeOK ==
  /\ algorithm \in {"token_bucket", "sliding_window"}
  /\ failClosed \in BOOLEAN
  /\ poolSize \in PoolSizes
  /\ row \in BOOLEAN
  /\ last \in 0..Old
  /\ count \in 0..MaxConcurrent
  /\ current \in SUBSET Clients
  /\ stale \in SUBSET Clients
  /\ locked \in Clients \cup {None}
  /\ entries \in [0..Expired -> Nat]
  /\ pc \in [Clients -> Places]
  /\ timer \in [Clients -> Nat]
  /\ budget \in [Clients -> 0..Never]
  /\ read \in [Clients -> 0..MaxConcurrent]
  /\ resetting \in {"no", "half", "done"}
  /\ owners \in SUBSET Clients
  /\ leaked \in Nat
  /\ granted \in [Recent -> Nat]

\* A reset starts the versions again: the token bucket may then take an old row
\* for the new one.
Undisturbed == TokenBucket => resetting = "no"

\* At every moment, of the times that grants were made with, at most one is in the
\* required interval that ends then, or at most limit are in the window that ends
\* then, however old they are when the grants are written.
RateRespected == Undisturbed => Total(granted, Recent) <= Quota

\* The row counts the clients that hold a place and the places lost.
CounterExact ==
  failClosed /\ resetting = "no" => count = Cardinality(owners) + leaked

\* No place is blocked that nobody holds and nobody lost.
NoPhantomPlace == Undisturbed => count <= Cardinality(owners) + leaked

\* Clients whose statement waits for the row that another client has locked, or for
\* one that another client has inserted and not committed.
Blocked == {c \in At({"select", "insert", "release"}) :
  /\ locked # None
  /\ pc[c] = "select" => SlidingWindow
  /\ row <=> pc[c] # "insert"}

\* Clients, the pool and the lock never wait for each other: the client that has the
\* row locked has a connection and nothing to wait for, and while somebody waits
\* for a connection, the pool has one left, or one is with a client that the lock
\* does not stop.
NoCircularWait ==
  /\ Blocked # {} => locked \in At(Connected) \ Blocked
  /\ At(Asking) # {} => Cardinality(At(Connected)) < poolSize \/ At(Connected) \ Blocked # {}
=============================================================================

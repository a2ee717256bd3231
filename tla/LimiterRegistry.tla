-------------------------- MODULE LimiterRegistry --------------------------
(***************************************************************************)
(* The registry of one process (registry.py): the table of configured      *)
(* limiters, the limiters it makes from their configurations the first     *)
(* time they are used, their lazy initialization by the tasks that use     *)
(* them, and the operations that run under them (registry.py, core.py,     *)
(* decorators.py, contrib/fastapi).  The limiters are those of any engine, *)
(* as far as initialize() goes (memory.py, redis.py,                       *)
(* redis_sliding_window.py, postgres.py), and count places: in-process, in  *)
(* the limiter; on a server, under the key or in the row of its id, which  *)
(* all limiters made for the id share.  How an engine decides is the       *)
(* subject of other modules.                                               *)
(*                                                                         *)
(* An id stands for "base:identifier", the limiter of one caller; it comes *)
(* into the table by configure_limiter or as a clone of its base.          *)
(*                                                                         *)
(* A step is what a task runs between two suspension points; "next", in an *)
(* iteration over the table, only divides such a step, where nothing was   *)
(* read that is used after it.                                             *)
(***************************************************************************)
EXTENDS Integers, FiniteSets

CONSTANTS Tasks,         \* tasks of the event loop
          NoId,          \* no id
          Ids,           \* ids of limiters
          Templates,     \* those whose base is configured
          MaxConcurrent, \* max_concurrent
          FailClosed,    \* servers whose stores are configured with fail_closed
          Reconfigured,  \* bound: ids that may be configured more than once
          MaxConfigs     \* bound: how often

ASSUME RegistryAssumption ==
  /\ IsFiniteSet(Tasks)
  /\ NoId \notin Ids
  /\ Templates \subseteq Ids
  /\ FailClosed \subseteq {"redis", "postgres"}
  /\ Reconfigured \subseteq Ids
  /\ MaxConcurrent \in Nat \ {0}
  /\ MaxConfigs \in Nat \ {0}

VARIABLES
  engine,      \* engine of the store
  configured,  \* how often each id has been configured, 0 when it is not in the table
  current,     \* the limiter in the table: which one of those made for the id, 0 for None
  made,        \* how many limiters have been made for each id
  initialized, \* limiters that are marked as initialized
  client,      \* limiters that have a client
  pool,        \* limiters that have a connection pool
  taken,       \* places that operations have taken, of each limiter; on a server, where
               \* the limiters of an id share them, of the first one
  pc,          \* where each task is
  job,         \* what it is doing
  answered,    \* history variable: limiters whose server has answered
  lost,        \* history variable: limiters, not contested, that lost an open pool
  contested    \* history variable: limiters whose initializations overlapped, or
               \* one of which was cancelled

table      == <<configured, current, made>>
connection == <<client, pool, lost>>
limiters   == <<initialized, connection, taken, answered, contested>>
local      == <<pc, job>>
vars == <<engine, table, limiters, local>>

\* A limiter is named by its id and which one of the id's it is.
Limiters == Ids \X (1..MaxConfigs)

\* acquire_context; @rate_limited; acquire() or check_limiter; a dependency or
\* the middleware
Calls == {"context", "decorated", "acquire", "request"}

\* What a limiter was got for: an operation that will release it, a slot only,
\* or just to initialize it.
Aims == {"operation", "slot", "initialize all"}
Aim(call) == IF call \in {"context", "decorated"} THEN "operation" ELSE "slot"

Initializing == {"asking server", "making tables", "closing", "disconnecting"}
Places == {"idle", "next", "asking", "inside"} \cup Initializing

\* What a task does: its aim, the id and number of the limiter it got; and in an
\* iteration over the table, the ids to come and what it looked like at the start.
Jobs == [aim : Aims, id : Ids \cup {NoId}, number : 0..MaxConfigs, ids : SUBSET Ids,
         seen : [Ids -> 0..MaxConfigs]]
NoJob == [aim |-> "slot", id |-> NoId, number |-> 0, ids |-> {}, seen |-> [i \in Ids |-> 0]]

Init ==
  /\ engine \in {"memory", "redis", "postgres"}
  /\ configured = [i \in Ids |-> 0]
  /\ current = [i \in Ids |-> 0]
  /\ made = [i \in Ids |-> 0]
  /\ initialized = {}
  /\ client = {}
  /\ pool = {}
  /\ lost = {}
  /\ taken = [l \in Limiters |-> 0]
  /\ pc = [t \in Tasks |-> "idle"]
  /\ job = [t \in Tasks |-> NoJob]
  /\ answered = {}
  /\ contested = {}

Move(t, place, j) ==
  /\ pc' = [pc EXCEPT ![t] = place]
  /\ job' = [job EXCEPT ![t] = j]

\* The call returns, or raises.
End(t) == Move(t, "idle", NoJob)

\* The limiter a task has got.
Got(t) == <<job[t].id, job[t].number>>

-----------------------------------------------------------------------------
(* The table.  None of its operations suspends.                            *)

Known(i) == configured[i] > 0

\* configure_limiter: the entry is replaced, with the limiter in it.
Configure(i) ==
  /\ configured[i] < IF i \in Reconfigured THEN MaxConfigs ELSE 1
  /\ configured' = [configured EXCEPT ![i] = @ + 1]
  /\ current' = [current EXCEPT ![i] = 0]
  /\ UNCHANGED <<engine, made, limiters, local>>

\* Mutant: the limiter made is not stored in the table.
Obtain_NotStored(i) ==
  /\ configured' = [configured EXCEPT ![i] = IF @ = 0 THEN 1 ELSE @]
  /\ IF current[i] # 0
     THEN UNCHANGED <<current, made>>
     ELSE made[i] < MaxConfigs /\ made' = [made EXCEPT ![i] = @ + 1] /\ UNCHANGED current

\* get_limiter, after clone_limiter when the id is not in the table: the limiter
\* of the entry, which is made now if there is none.
Obtain(i) ==
  /\ configured' = [configured EXCEPT ![i] = IF @ = 0 THEN 1 ELSE @]
  /\ IF current[i] # 0
     THEN UNCHANGED <<current, made>>
     ELSE made[i] < MaxConfigs /\ made' = [made EXCEPT ![i] = @ + 1]
                               /\ current' = [current EXCEPT ![i] = made'[i]]

\* The limiter that Obtain gives.
Obtained(i) == <<i, IF current[i] # 0 THEN current[i] ELSE made[i] + 1>>

-----------------------------------------------------------------------------
(* Getting a limiter that is ready to be asked                             *)

\* The limiter is initialized: it is asked, or the next one is looked at.
Ready(t, j) ==
  IF j.aim = "initialize all"
  THEN Move(t, "next", [j EXCEPT !.id = NoId, !.number = 0])
  ELSE Move(t, "asking", j)

\* Another initialize() of the limiter has begun and not returned.
Overlaps(t, l) == \E u \in Tasks \ {t} : pc[u] \in Initializing /\ Got(u) = l

\* Mutant: initialize() does not ask whether the limiter is initialized.
NeedsInitialize_Always(l) == engine # "memory" \/ l \notin initialized

\* is_initialized is looked at by the caller, and by initialize() itself.
NeedsInitialize(l) == l \notin initialized

\* The in-process engine sets a flag.
SetFlag(t, l, j) ==
  /\ engine = "memory"
  /\ initialized' = initialized \cup {l}
  /\ Ready(t, j)
  /\ UNCHANGED <<connection, contested>>

\* A new pool replaces that of the limiter, if it has one.
Publish(l) ==
  /\ pool' = pool \cup {l}
  /\ lost' = IF l \in pool \ contested' THEN lost \cup {l} ELSE lost

\* Mutant: the limiter is marked as initialized before the server answers.
Connect_Early(t, l, j) ==
  /\ engine # "memory"
  /\ initialized' = initialized \cup {l}
  /\ contested' = IF Overlaps(t, l) THEN contested \cup {l} ELSE contested
  /\ IF engine = "redis" THEN Publish(l) /\ client' = client \cup {l} ELSE UNCHANGED connection
  /\ Move(t, "asking server", j)

\* The server is asked.  The Redis engines publish a new pool and its client first,
\* PostgreSQL's create_pool is awaited.
Connect(t, l, j) ==
  /\ engine # "memory"
  /\ contested' = IF Overlaps(t, l) THEN contested \cup {l} ELSE contested
  /\ IF engine = "redis" THEN Publish(l) /\ client' = client \cup {l} ELSE UNCHANGED connection
  /\ Move(t, "asking server", j)
  /\ UNCHANGED initialized

\* Initialized on first use, which suspends when there is a server to ask.
Found(t, l, j) ==
  \/ /\ ~NeedsInitialize(l)
     /\ Ready(t, j)
     /\ UNCHANGED <<initialized, connection, contested>>
  \/ NeedsInitialize(l) /\ (SetFlag(t, l, j) \/ Connect(t, l, j))

\* Limiter l is taken from the table, or made, for a task with job j.
Get(t, l, j) ==
  /\ Obtain(l[1])
  /\ Found(t, l, [j EXCEPT !.id = l[1], !.number = l[2]])

\* A call.  LimiterNotFoundError is raised, but a decorated function and a request
\* are let through.
Call(t, call, i) ==
  /\ pc[t] = "idle"
  /\ \/ /\ Known(i) \/ (call = "request" /\ i \in Templates)
        /\ Get(t, Obtained(i), [NoJob EXCEPT !.aim = Aim(call)])
     \/ /\ ~Known(i)
        /\ call = "decorated"
        /\ Move(t, "inside", [NoJob EXCEPT !.aim = Aim(call), !.id = i])
        /\ UNCHANGED <<table, initialized, connection, contested>>
  /\ UNCHANGED <<engine, taken, answered>>

\* initialize_all_limiters: the iteration over the dictionary begins.
InitializeAll(t) ==
  /\ pc[t] = "idle"
  /\ Move(t, "next", [NoJob EXCEPT !.aim = "initialize all", !.seen = configured,
                                   !.ids = {i \in Ids : Known(i)}])
  /\ UNCHANGED <<engine, table, limiters>>

\* Mutant: it iterates over a copy of the keys.
SizeChanged_Never(t) == FALSE

\* RuntimeError: the dictionary got an entry while it was iterated over.
SizeChanged(t) == \E i \in Ids : Known(i) /\ job[t].seen[i] = 0

Iterate(t, i) ==
  /\ pc[t] = "next"
  /\ i \in job[t].ids
  /\ ~SizeChanged(t)
  /\ Get(t, Obtained(i), [job[t] EXCEPT !.ids = @ \ {i}])
  /\ UNCHANGED <<engine, taken, answered>>

\* All are initialized.
Conclude(t) ==
  /\ pc[t] = "next"
  /\ job[t].ids = {}
  /\ ~SizeChanged(t)
  /\ End(t)
  /\ UNCHANGED <<engine, table, limiters>>

IterationFails(t) ==
  /\ pc[t] = "next"
  /\ SizeChanged(t)
  /\ End(t)
  /\ UNCHANGED <<engine, table, limiters>>

\* The server answers.  In the Redis engines the scripts are registered with the
\* client, which may be gone: another task closed it.
Answer(t) ==
  /\ pc[t] = "asking server"
  /\ engine = "redis"
  /\ answered' = answered \cup {Got(t)}
  /\ IF Got(t) \notin client
     THEN End(t) /\ UNCHANGED initialized
     ELSE Ready(t, job[t]) /\ initialized' = initialized \cup {Got(t)}
  /\ UNCHANGED <<engine, table, connection, taken, contested>>

\* create_pool returns, and the tables are made.
PoolMade(t) ==
  /\ pc[t] = "asking server"
  /\ engine = "postgres"
  /\ answered' = answered \cup {Got(t)}
  /\ contested' = contested
  /\ Publish(Got(t))
  /\ Move(t, "making tables", job[t])
  /\ UNCHANGED <<engine, table, initialized, client, taken>>

TablesMade(t) ==
  /\ pc[t] = "making tables"
  /\ initialized' = initialized \cup {Got(t)}
  /\ Ready(t, job[t])
  /\ UNCHANGED <<engine, table, connection, taken, answered, contested>>

\* The pool the limiter has now is disconnected, if it has one.
DropPool(t) ==
  IF Got(t) \in pool THEN Move(t, "disconnecting", job[t]) ELSE End(t)

\* It fails to: the client the limiter has now is closed, if it has one.
NoAnswer(t) ==
  /\ pc[t] \in {"asking server", "making tables"}
  /\ IF Got(t) \notin client THEN DropPool(t) ELSE Move(t, "closing", job[t])
  /\ UNCHANGED <<engine, table, limiters>>

ClientClosed(t) ==
  /\ pc[t] = "closing"
  /\ client' = client \ {Got(t)}
  /\ DropPool(t)
  /\ UNCHANGED <<engine, table, initialized, pool, lost, taken, answered, contested>>

\* The failure is raised.
PoolClosed(t) ==
  /\ pc[t] = "disconnecting"
  /\ pool' = pool \ {Got(t)}
  /\ End(t)
  /\ UNCHANGED <<engine, table, initialized, client, lost, taken, answered, contested>>

-----------------------------------------------------------------------------
(* Using it *)

\* Where the places of a limiter are counted.
Counter(l) == IF engine = "memory" THEN l ELSE <<l[1], 1>>

\* The operations it lets run.
InsideOf(l) == {t \in Tasks : pc[t] = "inside" /\ job[t].number # 0 /\ Counter(Got(t)) = l}

\* Mutant: the places taken are not looked at.
FreePlace_Always(l) == TRUE

FreePlace(l) == taken[Counter(l)] < MaxConcurrent

Occupied(l) == [taken EXCEPT ![Counter(l)] = @ + 1]

\* On a server, without going below 0.
Freed(l) == [taken EXCEPT ![Counter(l)] = IF @ > 0 THEN @ - 1 ELSE 0]

\* An operation gets its place and starts.
Enter(t) ==
  /\ pc[t] = "asking" /\ job[t].aim = "operation"
  /\ FreePlace(Got(t))
  /\ taken' = Occupied(Got(t))
  /\ Move(t, "inside", job[t])
  /\ UNCHANGED <<engine, table, initialized, connection, answered, contested>>

\* The server fails, and with fail_open the operation starts without a place.
FailOpen(t) ==
  /\ engine \notin FailClosed \cup {"memory"}
  /\ pc[t] = "asking" /\ job[t].aim = "operation"
  /\ Move(t, "inside", job[t])
  /\ UNCHANGED <<engine, table, limiters>>

\* A call for a slot is answered.  An operation is refused: for the rate, for places
\* that others have (slots, other processes, clients that crashed), or because the
\* server fails.
Answered(t) ==
  /\ pc[t] = "asking"
  /\ End(t)
  /\ UNCHANGED <<engine, table, limiters>>

\* Mutant: the place is given back to the limiter that is in the table now.
Leave_Table(t) ==
  LET l == <<job[t].id, current[job[t].id]>> IN
  /\ pc[t] = "inside"
  /\ taken' = IF job[t].number = 0 \/ l[2] = 0 THEN taken ELSE Freed(l)
  /\ End(t)
  /\ UNCHANGED <<engine, table, initialized, connection, answered, contested>>

\* The operation is over, or was cancelled: release() of the limiter that let it
\* in, if one did.
Leave(t) ==
  /\ pc[t] = "inside"
  /\ taken' = IF job[t].number = 0 THEN taken ELSE Freed(Got(t))
  /\ End(t)
  /\ UNCHANGED <<engine, table, initialized, connection, answered, contested>>

\* The caller is cancelled, or the driver raises an exception that initialize() does
\* not expect (redis.exceptions.RedisError): it does not clean up after that.
Cancel(t) ==
  /\ pc[t] \in Initializing \cup {"asking"}
  /\ contested' = IF pc[t] \in Initializing THEN contested \cup {Got(t)} ELSE contested
  /\ End(t)
  /\ UNCHANGED <<engine, table, initialized, connection, taken, answered>>

-----------------------------------------------------------------------------
Next ==
  \/ \E i \in Ids : Configure(i)
  \/ \E t \in Tasks :
       \/ \E call \in Calls, i \in Ids : Call(t, call, i)
       \/ InitializeAll(t)
       \/ \E i \in Ids : Iterate(t, i)
       \/ Answer(t) \/ PoolMade(t) \/ TablesMade(t)
       \/ NoAnswer(t) \/ ClientClosed(t) \/ PoolClosed(t)
       \/ Conclude(t) \/ IterationFails(t)
       \/ Enter(t) \/ FailOpen(t) \/ Answered(t) \/ Leave(t) \/ Cancel(t)

Spec == Init /\ [][Next]_vars

-----------------------------------------------------------------------------
(* Properties *)

TypeOK ==
  /\ engine \in {"memory", "redis", "postgres"}
  /\ configured \in [Ids -> 0..MaxConfigs]
  /\ current \in [Ids -> 0..MaxConfigs]
  /\ made \in [Ids -> 0..MaxConfigs]
  /\ initialized \in SUBSET Limiters
  /\ client \in SUBSET Limiters
  /\ pool \in SUBSET Limiters
  /\ taken \in [Limiters -> 0..MaxConcurrent]
  /\ pc \in [Tasks -> Places]
  /\ job \in [Tasks -> Jobs]
  /\ answered \in SUBSET Limiters
  /\ lost \in SUBSET Limiters
  /\ contested \in SUBSET Limiters

\* However many tasks use an id for the first time at once, one limiter is made
\* of each configuration of the id (_get_or_create_limiter_sync, registry.py:242).
OneLimiterPerConfiguration == \A i \in Ids : made[i] <= configured[i]

\* Every operation that runs is counted where the limiter that let it in counts its
\* places, also when its id was configured anew in the meantime: no more than
\* max_concurrent of them run.  A server that fails open lets in more.
OperationsCounted ==
  engine \in FailClosed \cup {"memory"} =>
    \A l \in Limiters : Cardinality(InsideOf(l)) <= taken[l]

\* No limiter is asked before the server it needs has answered, whichever task
\* initialized it.
AskedWhenAnswered ==
  engine # "memory" => \A t \in Tasks : pc[t] = "asking" => Got(t) \in answered

\* Unless initializations of a limiter overlap, or one ends as in Cancel, the limiter
\* loses no open pool ("This operation is idempotent - can be called multiple
\* times", redis.py:347, postgres.py:205), and has what it needs once it is
\* initialized.
InitializeIdempotent ==
  /\ lost = {}
  /\ engine = "redis" => initialized \ contested \subseteq client \cap pool
  /\ engine = "postgres" => initialized \ contested \subseteq pool

\* initialize_all_limiters returns only when each limiter of the table has been
\* initialized, except those configured anew meanwhile.
AllInitialized ==
  [][\A t \in Tasks : Conclude(t) =>
       \A i \in Ids : Known(i) /\ job[t].seen[i] \in {0, configured[i]} =>
         <<i, current[i]>> \in initialized]_vars
=============================================================================

----------------------- MODULE LimiterRegistryProofs -----------------------
(***************************************************************************)
(* Theorems about the registry, for every number of tasks, ids, places and *)
(* configurations, and every engine.                                       *)
(***************************************************************************)
EXTENDS LimiterRegistry, FiniteSetTheorems, TLAPS

\* A task that initializes or asks a limiter, or that a limiter let in.
UsesLimiter(t) ==
  \/ pc[t] \in Initializing \cup {"asking"}
  \/ pc[t] = "inside" /\ job[t].number # 0

HasLimiter == \A t \in Tasks : UsesLimiter(t) => Got(t) \in Limiters

\* A limiter of each configuration is still to be made when there is none.
TableInv ==
  \A i \in Ids : /\ made[i] <= configured[i]
                 /\ current[i] = 0 => made[i] = 0 \/ made[i] < configured[i]

\* Only servers are waited for, and only PostgreSQL has tables.
EngineInv ==
  \A t \in Tasks : /\ pc[t] \in Initializing => engine # "memory"
                   /\ pc[t] = "making tables" => engine = "postgres"

AnsweredInv ==
  engine # "memory" =>
    /\ initialized \subseteq answered
    /\ \A t \in Tasks : pc[t] \in {"making tables", "asking"} => Got(t) \in answered

\* Where a task may have a pool of a limiter that is not initialized yet.
Owning == IF engine = "postgres" THEN Initializing \ {"asking server"} ELSE Initializing

\* Who initializes a limiter that is not contested, and what it has then.
OneInitializes ==
  \A t, u \in Tasks :
    /\ pc[t] \in Initializing /\ pc[u] \in Initializing
    /\ Got(t) = Got(u) /\ Got(t) \notin contested
    => t = u
NotInitialized ==
  \A t \in Tasks : pc[t] \in Initializing /\ Got(t) \notin contested => Got(t) \notin initialized
PoolOwned ==
  \A l \in pool \ (contested \cup initialized) : \E t \in Tasks : pc[t] \in Owning /\ Got(t) = l
HasPool ==
  \A t \in Tasks : Got(t) \notin contested =>
    /\ engine = "redis" /\ pc[t] = "asking server" => Got(t) \in client \cap pool
    /\ pc[t] = "making tables" => Got(t) \in pool
ConnectionInv ==
  /\ EngineInv /\ OneInitializes /\ NotInitialized /\ PoolOwned /\ HasPool
  /\ InitializeIdempotent

\* What an iteration over the table has behind it is initialized, or is being so.
Swept(t) ==
  \A i \in Ids :
    /\ job[t].seen[i] <= configured[i]
    /\ job[t].seen[i] = configured[i] /\ Known(i) /\ i \notin job[t].ids =>
         /\ current[i] # 0
         /\ \/ <<i, current[i]>> \in initialized
            \/ pc[t] \in Initializing /\ Got(t) = <<i, current[i]>>
SweepInv == \A t \in Tasks : pc[t] \in {"next"} \cup Initializing => Swept(t)

IInv == /\ TypeOK /\ HasLimiter /\ TableInv /\ OperationsCounted /\ AnsweredInv
        /\ ConnectionInv /\ SweepInv

-----------------------------------------------------------------------------
(* What a step does to the tasks *)

LEMMA Parameters ==
  /\ NoId \notin Ids /\ IsFiniteSet(Tasks)
  /\ MaxConcurrent \in Nat \ {0} /\ MaxConfigs \in Nat \ {0}
  /\ NoJob \in Jobs /\ NoJob.number = 0 /\ NoJob.id = NoId /\ NoJob.aim = "slot"
  /\ NoJob.ids = {} /\ NoJob.seen = [i \in Ids |-> 0]
BY RegistryAssumption DEF RegistryAssumption, NoJob, Jobs, Aims

\* One task moves.
Moved(t, place, j) ==
  /\ pc'[t] = place /\ job'[t] = j /\ Got(t)' = <<j.id, j.number>>
  /\ \A u \in Tasks \ {t} : pc'[u] = pc[u] /\ job'[u] = job[u] /\ Got(u)' = Got(u)

LEMMA MoveMoves ==
  ASSUME TypeOK, NEW t \in Tasks, NEW place \in Places, NEW j \in Jobs, Move(t, place, j)
  PROVE  /\ Moved(t, place, j)
         /\ pc' \in [Tasks -> Places] /\ job' \in [Tasks -> Jobs]
<1>1. pc \in [Tasks -> Places] /\ job \in [Tasks -> Jobs]
  BY DEF TypeOK
<1>2. pc' = [pc EXCEPT ![t] = place] /\ job' = [job EXCEPT ![t] = j]
  BY DEF Move
<1>3. pc'[t] = place /\ job'[t] = j
  BY <1>1, <1>2
<1>4. \A u \in Tasks \ {t} : pc'[u] = pc[u] /\ job'[u] = job[u]
  BY <1>1, <1>2
<1>5. Got(t)' = <<j.id, j.number>> /\ \A u \in Tasks \ {t} : Got(u)' = Got(u)
  BY <1>3, <1>4 DEF Got
<1>6. pc' \in [Tasks -> Places] /\ job' \in [Tasks -> Jobs]
  BY <1>1, <1>2
<1> QED
  BY <1>3, <1>4, <1>5, <1>6 DEF Moved

LEMMA JobTyping ==
  ASSUME TypeOK, NEW t \in Tasks
  PROVE  /\ job[t] \in Jobs /\ job[t].aim \in Aims
         /\ job[t].id \in Ids \cup {NoId} /\ job[t].number \in 0..MaxConfigs
         /\ job[t].ids \in SUBSET Ids /\ job[t].seen \in [Ids -> 0..MaxConfigs]
BY DEF TypeOK, Jobs

-----------------------------------------------------------------------------
(* What a step that moves one task owes each part of the invariant *)

LEMMA TasksKept ==
  ASSUME TypeOK, HasLimiter, NEW t \in Tasks, NEW place \in Places, NEW j \in Jobs,
         Move(t, place, j),
         place \in Initializing \cup {"asking"} => <<j.id, j.number>> \in Limiters,
         place = "inside" /\ j.number # 0 => <<j.id, j.number>> \in Limiters
  PROVE  HasLimiter'
<1>1. Moved(t, place, j)
  BY MoveMoves
<1>2. ASSUME NEW u \in Tasks, UsesLimiter(u)' PROVE Got(u)' \in Limiters
  <2>1. CASE u = t
    BY <1>1, <1>2, <2>1 DEF Moved, UsesLimiter
  <2>2. CASE u # t
    BY <1>1, <1>2, <2>2 DEF Moved, UsesLimiter, HasLimiter
  <2> QED
    BY <2>1, <2>2
<1> QED
  BY <1>2 DEF HasLimiter, Limiters

\* Neither enters nor leaves a limiter.
LEMMA PlacesKept ==
  ASSUME TypeOK, OperationsCounted, NEW t \in Tasks, NEW place \in Places, NEW j \in Jobs,
         Move(t, place, j), UNCHANGED <<engine, taken>>,
         pc[t] = "inside" => job[t].number = 0,
         place = "inside" => j.number = 0
  PROVE  OperationsCounted'
<1>1. Moved(t, place, j)
  BY MoveMoves
<1>2. ASSUME NEW l PROVE InsideOf(l)' = InsideOf(l)
  <2>1. ASSUME NEW u \in Tasks
        PROVE  (pc[u] = "inside" /\ job[u].number # 0 /\ Counter(Got(u)) = l)
                 <=> (pc'[u] = "inside" /\ job'[u].number # 0 /\ Counter(Got(u))' = l)
    BY <1>1 DEF Moved, Counter
  <2> QED
    BY <2>1 DEF InsideOf
<1> QED
  BY <1>2 DEF OperationsCounted, Limiters

LEMMA AnsweredKept ==
  ASSUME TypeOK, AnsweredInv, NEW t \in Tasks, NEW place \in Places, NEW j \in Jobs,
         Move(t, place, j), UNCHANGED engine, answered \subseteq answered',
         engine # "memory" => initialized' \subseteq answered',
         engine # "memory" /\ place \in {"making tables", "asking"} =>
           <<j.id, j.number>> \in answered'
  PROVE  AnsweredInv'
<1>1. Moved(t, place, j)
  BY MoveMoves
<1>2. ASSUME NEW u \in Tasks, engine # "memory", pc'[u] \in {"making tables", "asking"}
      PROVE  Got(u)' \in answered'
  <2>1. CASE u = t
    BY <1>1, <1>2, <2>1 DEF Moved
  <2>2. CASE u # t
    BY <1>1, <1>2, <2>2 DEF Moved, AnsweredInv
  <2> QED
    BY <2>1, <2>2
<1> QED
  BY <1>2 DEF AnsweredInv

\* The initializations that run, and what they left, stay as they are.
LEMMA ConnectionKept ==
  ASSUME TypeOK, ConnectionInv, NEW t \in Tasks, NEW place \in Places, NEW j \in Jobs,
         Move(t, place, j), UNCHANGED <<engine, initialized, connection, contested>>,
         pc[t] \notin Initializing, place \notin Initializing
  PROVE  ConnectionInv'
<1>1. Moved(t, place, j)
  BY MoveMoves
<1>2. /\ pc'[t] \notin Initializing
      /\ \A u \in Tasks \ {t} : pc'[u] = pc[u] /\ Got(u)' = Got(u)
      /\ UNCHANGED <<engine, initialized, client, pool, lost, contested>>
  BY <1>1 DEF Moved, connection
<1>3. \A u \in Tasks : pc'[u] \in Initializing => u # t /\ pc'[u] = pc[u] /\ Got(u)' = Got(u)
  BY <1>2
<1>4. EngineInv'
  BY <1>2, <1>3 DEF ConnectionInv, EngineInv, Initializing
<1>5. OneInitializes'
  BY <1>2, <1>3 DEF ConnectionInv, OneInitializes
<1>6. NotInitialized'
  BY <1>2, <1>3 DEF ConnectionInv, NotInitialized
<1>7. PoolOwned'
  BY <1>2 DEF ConnectionInv, PoolOwned, Owning, Initializing
<1>8. HasPool'
  BY <1>2, <1>3 DEF ConnectionInv, HasPool, Initializing
<1>9. InitializeIdempotent'
  BY <1>2 DEF ConnectionInv, InitializeIdempotent
<1> QED
  BY <1>4, <1>5, <1>6, <1>7, <1>8, <1>9 DEF ConnectionInv

\* The table only gets newer configurations, and limiters where there was none.
TableGrows ==
  \A i \in Ids : /\ configured[i] <= configured'[i]
                 /\ configured[i] > 0 /\ configured'[i] = configured[i] /\ current[i] # 0 =>
                      current'[i] = current[i]

\* What a task that does not move has behind it stays so.
LEMMA SweptBehind ==
  ASSUME TypeOK, SweepInv, TableGrows, configured' \in [Ids -> 0..MaxConfigs],
         initialized \subseteq initialized', NEW u \in Tasks,
         pc[u] \in {"next"} \cup Initializing,
         pc'[u] = pc[u], job'[u] = job[u], Got(u)' = Got(u)
  PROVE  Swept(u)'
<1>1. Swept(u) /\ pc'[u] = pc[u] /\ job'[u] = job[u] /\ Got(u)' = Got(u)
  BY DEF SweepInv
<1>2. \A i \in Ids : /\ job[u].seen[i] \in Int
                     /\ configured[i] \in Nat /\ configured'[i] \in Nat
  BY JobTyping DEF TypeOK
<1>3. ASSUME NEW i \in Ids
      PROVE  /\ job'[u].seen[i] <= configured'[i]
             /\ job'[u].seen[i] = configured'[i] /\ Known(i)' /\ i \notin job'[u].ids =>
                  /\ current'[i] # 0
                  /\ \/ <<i, current'[i]>> \in initialized'
                     \/ pc'[u] \in Initializing /\ Got(u)' = <<i, current'[i]>>
  <2>0. /\ job[u].seen[i] <= configured[i] /\ configured[i] <= configured'[i]
        /\ job'[u].seen[i] = job[u].seen[i]
    BY <1>1 DEF Swept, TableGrows
  <2>1. job'[u].seen[i] <= configured'[i]
    BY <1>2, <2>0
  <2>2. ASSUME job'[u].seen[i] = configured'[i], Known(i)', i \notin job'[u].ids
        PROVE  /\ current'[i] # 0
               /\ \/ <<i, current'[i]>> \in initialized'
                  \/ pc'[u] \in Initializing /\ Got(u)' = <<i, current'[i]>>
    <3>1. job[u].seen[i] = configured[i] /\ configured'[i] = configured[i] /\ configured[i] > 0
      BY <1>2, <2>0, <2>2 DEF Known
    <3>2. /\ current[i] # 0 /\ current'[i] = current[i]
          /\ \/ <<i, current[i]>> \in initialized
             \/ pc[u] \in Initializing /\ Got(u) = <<i, current[i]>>
      BY <1>1, <2>2, <3>1 DEF Swept, TableGrows, Known
    <3> QED
      BY <1>1, <3>2
  <2> QED
    BY <2>1, <2>2
<1> QED
  BY <1>3 DEF Swept

LEMMA SweepKept ==
  ASSUME TypeOK, SweepInv, NEW t \in Tasks, NEW place \in Places, NEW j \in Jobs,
         Move(t, place, j), TableGrows, configured' \in [Ids -> 0..MaxConfigs],
         initialized \subseteq initialized',
         place \in {"next"} \cup Initializing => Swept(t)'
  PROVE  SweepInv'
<1>1. Moved(t, place, j)
  BY MoveMoves
<1>2. ASSUME NEW u \in Tasks \ {t}, pc'[u] \in {"next"} \cup Initializing PROVE Swept(u)'
  <2>1. pc'[u] = pc[u] /\ job'[u] = job[u] /\ Got(u)' = Got(u)
    BY <1>1 DEF Moved
  <2> QED
    BY <1>2, <2>1, SweptBehind
<1> QED
  BY <1>1, <1>2 DEF SweepInv, Moved

-----------------------------------------------------------------------------
(* The table *)

LEMMA ConfigureTable ==
  ASSUME TypeOK, TableInv, NEW i \in Ids, Configure(i)
  PROVE  /\ TableInv' /\ TableGrows
         /\ configured' \in [Ids -> 0..MaxConfigs] /\ current' \in [Ids -> 0..MaxConfigs]
         /\ made' = made
<1>1. /\ configured \in [Ids -> 0..MaxConfigs] /\ current \in [Ids -> 0..MaxConfigs]
      /\ made \in [Ids -> 0..MaxConfigs]
  BY DEF TypeOK
<1>2. /\ configured[i] < MaxConfigs /\ made' = made
      /\ configured' = [configured EXCEPT ![i] = @ + 1] /\ current' = [current EXCEPT ![i] = 0]
  BY <1>1, Parameters DEF Configure
<1>3. configured' \in [Ids -> 0..MaxConfigs] /\ current' \in [Ids -> 0..MaxConfigs]
  BY <1>1, <1>2, Parameters
<1>4. ASSUME NEW k \in Ids
      PROVE  /\ configured[k] \in Nat /\ made[k] \in Nat
             /\ k = i => configured'[k] = configured[k] + 1
             /\ k # i => configured'[k] = configured[k] /\ current'[k] = current[k]
  BY <1>1, <1>2
<1>5. TableInv'
  BY <1>2, <1>4 DEF TableInv
<1>6. TableGrows
  BY <1>4 DEF TableGrows
<1> QED
  BY <1>2, <1>3, <1>5, <1>6

LEMMA ObtainTable ==
  ASSUME TypeOK, TableInv, NEW i \in Ids, Obtain(i)
  PROVE  /\ TableInv' /\ TableGrows
         /\ configured' \in [Ids -> 0..MaxConfigs] /\ current' \in [Ids -> 0..MaxConfigs]
         /\ made' \in [Ids -> 0..MaxConfigs]
         /\ Obtained(i) \in Limiters /\ Obtained(i) = <<i, current'[i]>> /\ current'[i] # 0
         /\ \A k \in Ids : Known(k) => configured'[k] = configured[k]
         /\ \A k \in Ids \ {i} : configured'[k] = configured[k] /\ current'[k] = current[k]
<1>1. /\ configured \in [Ids -> 0..MaxConfigs] /\ current \in [Ids -> 0..MaxConfigs]
      /\ made \in [Ids -> 0..MaxConfigs] /\ MaxConfigs \in Nat \ {0}
  BY Parameters DEF TypeOK
<1>2. configured' = [configured EXCEPT ![i] = IF @ = 0 THEN 1 ELSE @]
  BY DEF Obtain
<1>3. /\ configured' \in [Ids -> 0..MaxConfigs]
      /\ configured'[i] = IF configured[i] = 0 THEN 1 ELSE configured[i]
      /\ \A k \in Ids \ {i} : configured'[k] = configured[k]
  BY <1>1, <1>2
<1>4. \A k \in Ids : Known(k) => configured'[k] = configured[k]
  BY <1>1, <1>3 DEF Known
<1>5. CASE current[i] # 0
  <2>1. current' = current /\ made' = made
    BY <1>5 DEF Obtain
  <2>2. Obtained(i) = <<i, current'[i]>> /\ Obtained(i) \in Limiters
    BY <1>1, <1>5, <2>1 DEF Obtained, Limiters
  <2>3. TableInv'
    <3>1. ASSUME NEW k \in Ids
          PROVE  made[k] <= configured'[k] /\ (current[k] = 0 => made[k] = 0 \/ made[k] < configured'[k])
      <4>1. /\ made[k] \in Nat /\ configured[k] \in Nat /\ made[k] <= configured[k]
            /\ current[k] = 0 => made[k] = 0 \/ made[k] < configured[k]
        BY <1>1 DEF TableInv
      <4>2. configured'[k] = configured[k] \/ (configured[k] = 0 /\ configured'[k] = 1)
        BY <1>3
      <4> QED
        BY <4>1, <4>2
    <3> QED
      BY <2>1, <3>1 DEF TableInv
  <2>4. TableGrows
    BY <1>1, <1>3, <2>1 DEF TableGrows
  <2> QED
    BY <1>1, <1>3, <1>4, <1>5, <2>1, <2>2, <2>3, <2>4
<1>6. CASE current[i] = 0
  <2>1. /\ made[i] < MaxConfigs /\ made' = [made EXCEPT ![i] = @ + 1]
        /\ current' = [current EXCEPT ![i] = made'[i]]
    BY <1>6 DEF Obtain
  <2>2. /\ made'[i] = made[i] + 1 /\ current'[i] = made[i] + 1 /\ made[i] \in Nat
        /\ made[i] + 1 \in 1..MaxConfigs
        /\ \A k \in Ids \ {i} : made'[k] = made[k] /\ current'[k] = current[k]
    BY <1>1, <2>1
  <2>3. made' \in [Ids -> 0..MaxConfigs] /\ current' \in [Ids -> 0..MaxConfigs]
    BY <1>1, <2>1, <2>2
  <2>4. Obtained(i) = <<i, current'[i]>> /\ Obtained(i) \in Limiters
    BY <1>6, <2>2 DEF Obtained, Limiters
  <2>5. TableInv'
    <3>1. ASSUME NEW k \in Ids
          PROVE  made'[k] <= configured'[k] /\ (current'[k] = 0 => made'[k] = 0 \/ made'[k] < configured'[k])
      <4>1. /\ made[k] \in Nat /\ configured[k] \in Nat /\ made[k] <= configured[k]
            /\ current[k] = 0 => made[k] = 0 \/ made[k] < configured[k]
        BY <1>1 DEF TableInv
      <4>2. CASE k = i
        BY <1>3, <1>6, <2>2, <4>1, <4>2
      <4>3. CASE k # i
        BY <1>3, <2>2, <4>1, <4>3
      <4> QED
        BY <4>2, <4>3
    <3> QED
      BY <3>1 DEF TableInv
  <2>6. TableGrows
    BY <1>1, <1>3, <1>6, <2>2 DEF TableGrows
  <2> QED
    BY <1>3, <1>4, <2>2, <2>3, <2>4, <2>5, <2>6
<1> QED
  BY <1>5, <1>6

LEMMA SameTable ==
  ASSUME TypeOK, TableInv, UNCHANGED table
  PROVE  /\ TableInv' /\ TableGrows
         /\ configured' \in [Ids -> 0..MaxConfigs] /\ current' \in [Ids -> 0..MaxConfigs]
         /\ made' \in [Ids -> 0..MaxConfigs]
<1>1. configured' = configured /\ current' = current /\ made' = made
  BY DEF table
<1>2. \A i \in Ids : configured[i] \in Nat
  BY DEF TypeOK
<1> QED
  BY <1>1, <1>2 DEF TypeOK, TableInv, TableGrows

\* What an iteration has behind it stays so while the task goes on with the same job.
LEMMA SweptStays ==
  ASSUME TypeOK, SweepInv, NEW t \in Tasks, NEW place \in Initializing,
         Move(t, place, job[t]), pc[t] \in Initializing, UNCHANGED table,
         initialized \subseteq initialized'
  PROVE  Swept(t)'
<1>1. Moved(t, place, job[t])
  BY MoveMoves, JobTyping DEF Places
<1>2. Swept(t)
  BY DEF SweepInv
<1>3. /\ job'[t] = job[t] /\ Got(t)' = Got(t) /\ pc'[t] \in Initializing
      /\ configured' = configured /\ current' = current
  BY <1>1 DEF Moved, Got, table
<1> QED
  BY <1>2, <1>3 DEF Swept, Known

-----------------------------------------------------------------------------
(* What Ready does *)

LEMMA ReadyMoves ==
  ASSUME TypeOK, NEW t \in Tasks, NEW j \in Jobs, Ready(t, j)
  PROVE  \E place \in {"next", "asking"}, k \in Jobs :
           /\ Move(t, place, k)
           /\ place = "asking" => k = j
           /\ k.ids = j.ids /\ k.seen = j.seen
<1>1. CASE j.aim = "initialize all"
  <2> DEFINE k == [j EXCEPT !.id = NoId, !.number = 0]
  <2>1. k \in Jobs /\ k.ids = j.ids /\ k.seen = j.seen
    BY Parameters DEF Jobs
  <2>2. Move(t, "next", k)
    BY <1>1 DEF Ready
  <2> HIDE DEF k
  <2> QED
    BY <2>1, <2>2
<1>2. CASE j.aim # "initialize all"
  <2>1. Move(t, "asking", j)
    BY <1>2 DEF Ready
  <2> QED
    BY <2>1
<1> QED
  BY <1>1, <1>2

-----------------------------------------------------------------------------
(* Connections *)

\* The in-process engine has none.
LEMMA FlagConnection ==
  ASSUME TypeOK, ConnectionInv, NEW t \in Tasks, NEW place \in Places, NEW j \in Jobs,
         Move(t, place, j), place \notin Initializing, engine = "memory",
         UNCHANGED <<engine, connection, contested>>, initialized \subseteq initialized'
  PROVE  ConnectionInv'
<1>1. Moved(t, place, j)
  BY MoveMoves
<1>2. /\ UNCHANGED <<engine, client, pool, lost, contested>>
      /\ \A u \in Tasks : pc[u] \notin Initializing
  BY DEF ConnectionInv, EngineInv, connection
<1>3. \A u \in Tasks : pc'[u] \notin Initializing
  BY <1>1, <1>2 DEF Moved
<1>4. EngineInv' /\ OneInitializes' /\ NotInitialized'
  BY <1>3 DEF EngineInv, OneInitializes, NotInitialized, Initializing
<1>5. HasPool'
  BY <1>3 DEF HasPool, Initializing
<1>6. PoolOwned'
  <2>1. pool \ (contested \cup initialized) = {}
    BY <1>2 DEF Owning, PoolOwned, ConnectionInv
  <2> QED
    BY <1>2, <2>1 DEF PoolOwned
<1>7. InitializeIdempotent'
  BY <1>2 DEF InitializeIdempotent, ConnectionInv
<1> QED
  BY <1>4, <1>5, <1>6, <1>7 DEF ConnectionInv

LEMMA ConnectConnection ==
  ASSUME TypeOK, ConnectionInv, NEW t \in Tasks, NEW j \in Jobs, NEW l,
         l = <<j.id, j.number>>, l \notin initialized, Connect(t, l, j),
         pc[t] \notin Initializing, UNCHANGED engine
  PROVE  ConnectionInv'
<1>1. Moved(t, "asking server", j)
  BY MoveMoves DEF Connect, Places, Initializing
<1>2. /\ engine # "memory" /\ engine' = engine /\ initialized' = initialized
      /\ contested \subseteq contested' /\ contested' \subseteq contested \cup {l}
      /\ l \notin contested' => ~Overlaps(t, l)
  BY DEF Connect
<1>3. /\ engine = "redis" => client' = client \cup {l} /\ Publish(l)
      /\ engine # "redis" => UNCHANGED <<client, pool, lost>>
  BY DEF Connect, connection
<1>4. /\ pc'[t] = "asking server" /\ Got(t)' = l
      /\ \A u \in Tasks \ {t} : pc'[u] = pc[u] /\ Got(u)' = Got(u)
  BY <1>1 DEF Moved
<1>5. client \subseteq client' /\ pool \subseteq pool'
  BY <1>3 DEF Publish
<1>6. EngineInv'
  BY <1>2, <1>4 DEF ConnectionInv, EngineInv, Initializing
<1>7. \A u \in Tasks \ {t} : pc[u] \in Initializing /\ Got(u) = l => l \in contested'
  BY <1>2 DEF Overlaps
<1>8. OneInitializes'
  <2>1. ASSUME NEW u \in Tasks, NEW v \in Tasks, pc'[u] \in Initializing, pc'[v] \in Initializing,
               Got(u)' = Got(v)', Got(u)' \notin contested', u # v
        PROVE  FALSE
    <3>1. CASE u = t
      BY <1>4, <1>7, <2>1, <3>1
    <3>2. CASE v = t
      BY <1>4, <1>7, <2>1, <3>2
    <3>3. CASE u # t /\ v # t
      BY <1>2, <1>4, <2>1, <3>3 DEF ConnectionInv, OneInitializes
    <3> QED
      BY <3>1, <3>2, <3>3
  <2> QED
    BY <2>1 DEF OneInitializes, Initializing
<1>9. NotInitialized'
  BY <1>2, <1>4 DEF ConnectionInv, NotInitialized, Initializing
<1>10. PoolOwned'
  <2>1. ASSUME NEW x \in pool' \ (contested' \cup initialized')
        PROVE  \E u \in Tasks : pc'[u] \in Owning /\ Got(u)' = x
    <3>1. CASE x \in pool
      <4>1. PICK u \in Tasks : pc[u] \in Owning /\ Got(u) = x
        BY <1>2, <2>1, <3>1 DEF ConnectionInv, PoolOwned
      <4>2. u # t
        BY <4>1 DEF Owning
      <4> QED
        BY <1>4, <4>1, <4>2
    <3>2. CASE x \notin pool
      <4>1. engine = "redis" /\ x = l
        BY <1>3, <2>1, <3>2 DEF Publish
      <4> QED
        BY <1>4, <4>1 DEF Owning, Initializing
    <3> QED
      BY <3>1, <3>2
  <2> QED
    BY <1>2, <2>1 DEF PoolOwned, Owning, Initializing
<1>11. HasPool'
  <2>1. ASSUME NEW u \in Tasks, Got(u)' \notin contested'
        PROVE  /\ engine = "redis" /\ pc'[u] = "asking server" => Got(u)' \in client' \cap pool'
               /\ pc'[u] = "making tables" => Got(u)' \in pool'
    <3>1. CASE u = t
      BY <1>3, <1>4, <3>1 DEF Publish
    <3>2. CASE u # t
      BY <1>2, <1>4, <1>5, <2>1, <3>2 DEF ConnectionInv, HasPool
    <3> QED
      BY <3>1, <3>2
  <2> QED
    BY <1>2, <2>1 DEF HasPool
<1>12. InitializeIdempotent'
  <2>1. l \in pool => l \in contested'
    <3>1. SUFFICES ASSUME l \in pool, l \notin contested' PROVE FALSE
      OBVIOUS
    <3>2. PICK u \in Tasks : pc[u] \in Owning /\ Got(u) = l
      BY <1>2, <3>1 DEF ConnectionInv, PoolOwned
    <3>3. u # t /\ pc[u] \in Initializing
      BY <3>2 DEF Owning
    <3> QED
      BY <1>7, <3>1, <3>2, <3>3
  <2>2. lost' = {}
    <3>1. lost = {}
      BY DEF ConnectionInv, InitializeIdempotent
    <3> QED
      BY <1>3, <2>1, <3>1 DEF Publish
  <2>3. /\ engine = "redis" => initialized' \ contested' \subseteq client' \cap pool'
        /\ engine = "postgres" => initialized' \ contested' \subseteq pool'
    BY <1>2, <1>5 DEF ConnectionInv, InitializeIdempotent
  <2> QED
    BY <1>2, <2>2, <2>3 DEF InitializeIdempotent
<1> QED
  BY <1>6, <1>8, <1>9, <1>10, <1>11, <1>12 DEF ConnectionInv

\* A step of a task that initializes limiter l, which concerns l only.
LEMMA InitializerConnection ==
  ASSUME TypeOK, ConnectionInv, NEW t \in Tasks, NEW place \in Places, NEW j \in Jobs, NEW l,
         Move(t, place, j), pc[t] \in Initializing, l = Got(t),
         place # "asking server",
         place \in Initializing => j = job[t],
         place = "making tables" => engine = "postgres",
         UNCHANGED <<engine, lost>>,
         contested \subseteq contested',
         \A x : x # l => /\ x \in initialized' <=> x \in initialized
                         /\ x \in client' <=> x \in client
                         /\ x \in pool' <=> x \in pool
                         /\ x \in contested' <=> x \in contested,
         l \notin contested' =>
           /\ place \in Initializing => l \notin initialized'
           /\ l \in pool' => l \in initialized' \/ place \in Owning
           /\ place = "making tables" => l \in pool'
           /\ l \in initialized' => /\ engine = "redis" => l \in client' \cap pool'
                                    /\ engine = "postgres" => l \in pool'
  PROVE  ConnectionInv'
<1>1. Moved(t, place, j)
  BY MoveMoves
<1>2. /\ pc'[t] = place /\ (place \in Initializing => Got(t)' = l)
      /\ \A u \in Tasks \ {t} : pc'[u] = pc[u] /\ Got(u)' = Got(u)
      /\ engine' = engine /\ lost' = lost
  BY <1>1 DEF Moved, Got
<1>3. ASSUME NEW u \in Tasks \ {t}, pc[u] \in Initializing, Got(u) \notin contested'
      PROVE  Got(u) # l /\ Got(u) \notin contested
  BY <1>3 DEF ConnectionInv, OneInitializes
<1>4. EngineInv'
  BY <1>2 DEF ConnectionInv, EngineInv, Initializing
<1>5. OneInitializes'
  <2>1. ASSUME NEW u \in Tasks, NEW v \in Tasks, pc'[u] \in Initializing, pc'[v] \in Initializing,
               Got(u)' = Got(v)', Got(u)' \notin contested'
        PROVE  u = v
    <3>1. /\ pc[u] \in Initializing /\ pc[v] \in Initializing
          /\ Got(u)' = Got(u) /\ Got(v)' = Got(v)
      BY <1>2, <2>1
    <3> QED
      BY <2>1, <3>1 DEF ConnectionInv, OneInitializes
  <2> QED
    BY <2>1 DEF OneInitializes, Initializing
<1>6. NotInitialized'
  <2>1. ASSUME NEW u \in Tasks, pc'[u] \in Initializing, Got(u)' \notin contested'
        PROVE  Got(u)' \notin initialized'
    <3>1. CASE u = t
      BY <1>2, <2>1, <3>1
    <3>2. CASE u # t
      BY <1>2, <1>3, <2>1, <3>2 DEF ConnectionInv, NotInitialized
    <3> QED
      BY <3>1, <3>2
  <2> QED
    BY <2>1 DEF NotInitialized, Initializing
<1>7. PoolOwned'
  <2>1. ASSUME NEW x \in pool' \ (contested' \cup initialized')
        PROVE  \E u \in Tasks : pc'[u] \in Owning /\ Got(u)' = x
    <3>1. CASE x = l
      <4>1. place \in Owning /\ place \in Initializing
        BY <2>1, <3>1 DEF Owning
      <4> QED
        BY <1>2, <3>1, <4>1
    <3>2. CASE x # l
      <4>1. x \in pool \ (contested \cup initialized)
        BY <2>1, <3>2
      <4>2. PICK u \in Tasks : pc[u] \in Owning /\ Got(u) = x
        BY <4>1 DEF ConnectionInv, PoolOwned
      <4> QED
        BY <1>2, <3>2, <4>2
    <3> QED
      BY <3>1, <3>2
  <2> QED
    BY <1>2, <2>1 DEF PoolOwned, Owning, Initializing
<1>8. HasPool'
  <2>1. ASSUME NEW u \in Tasks, Got(u)' \notin contested'
        PROVE  /\ engine = "redis" /\ pc'[u] = "asking server" => Got(u)' \in client' \cap pool'
               /\ pc'[u] = "making tables" => Got(u)' \in pool'
    <3>1. CASE u = t
      BY <1>2, <2>1, <3>1 DEF Initializing
    <3>2. CASE u # t
      <4>1. pc'[u] = pc[u] /\ Got(u)' = Got(u)
        BY <1>2, <3>2
      <4>2. pc[u] \in {"asking server", "making tables"} => Got(u) # l /\ Got(u) \notin contested
        BY <1>3, <2>1, <3>2, <4>1 DEF Initializing
      <4> QED
        BY <4>1, <4>2 DEF ConnectionInv, HasPool
    <3> QED
      BY <3>1, <3>2
  <2> QED
    BY <1>2, <2>1 DEF HasPool
<1>9. InitializeIdempotent'
  <2>1. ASSUME NEW x \in initialized' \ contested'
        PROVE  /\ engine = "redis" => x \in client' \cap pool'
               /\ engine = "postgres" => x \in pool'
    <3>1. CASE x = l
      BY <2>1, <3>1
    <3>2. CASE x # l
      BY <2>1, <3>2 DEF ConnectionInv, InitializeIdempotent
    <3> QED
      BY <3>1, <3>2
  <2>2. lost' = {}
    BY <1>2 DEF ConnectionInv, InitializeIdempotent
  <2> QED
    BY <1>2, <2>1, <2>2 DEF InitializeIdempotent
<1> QED
  BY <1>4, <1>5, <1>6, <1>7, <1>8, <1>9 DEF ConnectionInv

-----------------------------------------------------------------------------
(* The steps *)

\* Neither an initialization nor a place.
LEMMA QuietStep ==
  ASSUME IInv, NEW t \in Tasks, NEW place \in {"idle", "next", "inside"}, NEW j \in Jobs,
         Move(t, place, j), UNCHANGED <<engine, table, limiters>>,
         pc[t] \notin Initializing,
         pc[t] = "inside" => job[t].number = 0, place = "inside" => j.number = 0,
         place = "next" => Swept(t)'
  PROVE  IInv'
<1>1. /\ TypeOK /\ HasLimiter /\ TableInv /\ OperationsCounted /\ AnsweredInv
      /\ ConnectionInv /\ SweepInv
  BY DEF IInv
<1>2. /\ place \in Places /\ place \notin Initializing \cup {"asking", "making tables"}
      /\ UNCHANGED <<engine, initialized, connection, taken, answered, contested>>
  BY DEF Places, Initializing, limiters
<1>3. TypeOK'
  BY <1>1, <1>2, MoveMoves, SameTable DEF TypeOK, connection, Limiters, Places, Initializing, Jobs, Aims
<1>4. HasLimiter'
  BY <1>1, <1>2, TasksKept
<1>5. TableInv' /\ TableGrows /\ configured' \in [Ids -> 0..MaxConfigs]
  BY <1>1, SameTable
<1>6. OperationsCounted'
  BY <1>1, <1>2, PlacesKept
<1>7. AnsweredInv'
  BY <1>1, <1>2, AnsweredKept DEF AnsweredInv
<1>8. ConnectionInv'
  BY <1>1, <1>2, ConnectionKept
<1>9. SweepInv'
  BY <1>1, <1>2, <1>5, SweepKept
<1> QED
  BY <1>3, <1>4, <1>5, <1>6, <1>7, <1>8, <1>9 DEF IInv

\* A task goes on with an initialization, or ends it.
LEMMA InitializerStep ==
  ASSUME IInv, NEW t \in Tasks, NEW place \in {"idle", "next", "asking"} \cup Initializing,
         NEW j \in Jobs, Move(t, place, j), pc[t] \in Initializing, ConnectionInv',
         UNCHANGED <<engine, table, taken>>,
         initialized \subseteq initialized', answered \subseteq answered',
         initialized' \subseteq initialized \cup {Got(t)},
         client' \subseteq client, pool' \subseteq pool \cup {Got(t)},
         contested' \subseteq contested \cup {Got(t)}, lost' \subseteq lost \cup {Got(t)},
         answered' \subseteq answered \cup {Got(t)},
         initialized' \subseteq answered',
         place \in {"making tables", "asking"} => Got(t) \in answered',
         place \in Initializing \cup {"asking"} => j = job[t],
         place = "next" => j.ids = job[t].ids /\ j.seen = job[t].seen /\ Got(t) \in initialized'
  PROVE  IInv'
<1>1. /\ TypeOK /\ HasLimiter /\ TableInv /\ OperationsCounted /\ AnsweredInv /\ SweepInv
  BY DEF IInv
<1>2. /\ place \in Places /\ pc[t] # "inside" /\ place # "inside"
      /\ Got(t) = <<job[t].id, job[t].number>> /\ Got(t) \in Limiters
  BY <1>1 DEF Places, Initializing, Got, HasLimiter, UsesLimiter
<1>3. TypeOK'
  <2>1. pc' \in [Tasks -> Places] /\ job' \in [Tasks -> Jobs]
    BY <1>1, <1>2, MoveMoves
  <2>2. /\ initialized' \in SUBSET Limiters /\ client' \in SUBSET Limiters
        /\ pool' \in SUBSET Limiters /\ answered' \in SUBSET Limiters
        /\ lost' \in SUBSET Limiters /\ contested' \in SUBSET Limiters
    BY <1>1, <1>2 DEF TypeOK
  <2>3. engine' \in {"memory", "redis", "postgres"} /\ taken' \in [Limiters -> 0..MaxConcurrent]
    BY <1>1 DEF TypeOK
  <2> QED
    BY <1>1, <2>1, <2>2, <2>3, SameTable DEF TypeOK, Limiters, Places, Initializing, Jobs, Aims
<1>4. HasLimiter'
  BY <1>1, <1>2, TasksKept
<1>5. TableInv' /\ TableGrows /\ configured' \in [Ids -> 0..MaxConfigs]
  BY <1>1, SameTable
<1>6. OperationsCounted'
  BY <1>1, <1>2, PlacesKept
<1>7. AnsweredInv'
  BY <1>1, <1>2, AnsweredKept
<1>8. place \in {"next"} \cup Initializing => Swept(t)'
  <2>1. CASE place \in Initializing
    BY <1>1, <2>1, SweptStays
  <2>2. CASE place = "next"
    <3>1. Moved(t, place, j)
      BY <1>1, <1>2, MoveMoves
    <3>2. Swept(t)
      BY <1>1 DEF SweepInv
    <3> QED
      BY <2>2, <3>1, <3>2 DEF Moved, Swept, Known, table
  <2> QED
    BY <2>1, <2>2
<1>9. SweepInv'
  BY <1>1, <1>2, <1>5, <1>8, SweepKept
<1> QED
  BY <1>3, <1>4, <1>5, <1>6, <1>7, <1>9 DEF IInv

LEMMA AnswerStep ==
  ASSUME IInv, NEW t \in Tasks, Answer(t)
  PROVE  IInv'
<1>1. /\ TypeOK /\ ConnectionInv /\ AnsweredInv /\ job[t] \in Jobs
  BY JobTyping DEF IInv
<1>2. /\ pc[t] = "asking server" /\ pc[t] \in Initializing /\ engine = "redis"
      /\ answered' = answered \cup {Got(t)}
      /\ UNCHANGED <<engine, table, client, pool, lost, taken, contested>>
  BY DEF Answer, Initializing, connection
<1>3. Got(t) \notin contested => Got(t) \in client \cap pool
  BY <1>1, <1>2 DEF ConnectionInv, HasPool
<1>4. CASE Got(t) \notin client
  <2>1. Move(t, "idle", NoJob) /\ initialized' = initialized
    BY <1>4 DEF Answer, End
  <2>2. ConnectionInv'
    BY <1>1, <1>2, <1>3, <1>4, <2>1, Parameters, InitializerConnection DEF Places, Initializing
  <2> QED
    BY <1>1, <1>2, <2>1, <2>2, Parameters, InitializerStep DEF Places, Initializing, AnsweredInv
<1>5. CASE Got(t) \in client
  <2>1. Ready(t, job[t]) /\ initialized' = initialized \cup {Got(t)}
    BY <1>5 DEF Answer
  <2>2. PICK place \in {"next", "asking"}, j \in Jobs :
           /\ Move(t, place, j)
           /\ place = "asking" => j = job[t]
           /\ j.ids = job[t].ids /\ j.seen = job[t].seen
    BY <1>1, <2>1, ReadyMoves
  <2>3. place \in Places /\ place \notin Initializing
    BY DEF Places, Initializing
  <2>4. ConnectionInv'
    BY <1>1, <1>2, <1>3, <2>1, <2>2, <2>3, InitializerConnection DEF Initializing
  <2>5. initialized' \subseteq answered'
    BY <1>1, <1>2, <2>1 DEF AnsweredInv
  <2> QED
    BY <1>2, <2>1, <2>2, <2>3, <2>4, <2>5, InitializerStep
<1> QED
  BY <1>4, <1>5

LEMMA PoolMadeStep ==
  ASSUME IInv, NEW t \in Tasks, PoolMade(t)
  PROVE  IInv'
<1>1. /\ TypeOK /\ ConnectionInv /\ AnsweredInv /\ job[t] \in Jobs
  BY JobTyping DEF IInv
<1>2. /\ pc[t] = "asking server" /\ pc[t] \in Initializing /\ engine = "postgres"
      /\ answered' = answered \cup {Got(t)} /\ pool' = pool \cup {Got(t)}
      /\ Move(t, "making tables", job[t]) /\ contested' = contested
      /\ UNCHANGED <<engine, table, initialized, client, taken>>
  BY DEF PoolMade, Publish, Initializing
<1>3. Got(t) \notin contested => Got(t) \notin pool /\ Got(t) \notin initialized
  <2>1. SUFFICES ASSUME Got(t) \notin contested, Got(t) \in pool PROVE FALSE
    BY <1>1, <1>2 DEF ConnectionInv, NotInitialized
  <2>2. PICK u \in Tasks : pc[u] \in Owning /\ Got(u) = Got(t)
    BY <1>1, <1>2, <2>1 DEF ConnectionInv, PoolOwned, NotInitialized
  <2>3. u = t
    BY <1>1, <1>2, <2>1, <2>2 DEF ConnectionInv, OneInitializes, Owning
  <2> QED
    BY <1>2, <2>2, <2>3 DEF Owning
<1>4. lost' = lost
  BY <1>2, <1>3 DEF PoolMade, Publish
<1>5. "making tables" \in Places /\ "making tables" \in Initializing /\ "making tables" \in Owning
  BY <1>2 DEF Places, Initializing, Owning
<1>6. ConnectionInv'
  BY <1>1, <1>2, <1>3, <1>4, <1>5, InitializerConnection
<1> QED
  BY <1>1, <1>2, <1>4, <1>5, <1>6, InitializerStep DEF AnsweredInv

LEMMA TablesMadeStep ==
  ASSUME IInv, NEW t \in Tasks, TablesMade(t)
  PROVE  IInv'
<1>1. /\ TypeOK /\ ConnectionInv /\ AnsweredInv /\ job[t] \in Jobs
  BY JobTyping DEF IInv
<1>2. /\ pc[t] = "making tables" /\ pc[t] \in Initializing /\ engine = "postgres"
      /\ initialized' = initialized \cup {Got(t)} /\ Ready(t, job[t])
      /\ UNCHANGED <<engine, table, client, pool, lost, taken, answered, contested>>
  BY <1>1 DEF TablesMade, Initializing, connection, ConnectionInv, EngineInv
<1>3. /\ Got(t) \notin contested => Got(t) \in pool
      /\ Got(t) \in answered /\ initialized \subseteq answered
  BY <1>1, <1>2 DEF ConnectionInv, HasPool, AnsweredInv
<1>4. PICK place \in {"next", "asking"}, j \in Jobs :
         /\ Move(t, place, j)
         /\ place = "asking" => j = job[t]
         /\ j.ids = job[t].ids /\ j.seen = job[t].seen
  BY <1>1, <1>2, ReadyMoves
<1>5. place \in Places /\ place \notin Initializing
  BY DEF Places, Initializing
<1>6. ConnectionInv'
  BY <1>1, <1>2, <1>3, <1>4, <1>5, InitializerConnection DEF Initializing
<1> QED
  BY <1>2, <1>3, <1>4, <1>5, <1>6, InitializerStep

\* A task that cleans up after a failure goes on to the pool if there is one.
LEMMA DropPoolMoves ==
  ASSUME TypeOK, NEW t \in Tasks, DropPool(t)
  PROVE  \E place \in {"idle", "disconnecting"}, j \in Jobs :
           /\ Move(t, place, j)
           /\ place = "disconnecting" => j = job[t]
           /\ place = "idle" => Got(t) \notin pool
BY JobTyping, Parameters DEF DropPool, End

LEMMA NoAnswerStep ==
  ASSUME IInv, NEW t \in Tasks, NoAnswer(t)
  PROVE  IInv'
<1>1. /\ TypeOK /\ ConnectionInv /\ AnsweredInv /\ job[t] \in Jobs
  BY JobTyping DEF IInv
<1>2. /\ pc[t] \in Initializing /\ engine # "memory"
      /\ UNCHANGED <<engine, table, initialized, client, pool, lost, taken, answered, contested>>
  BY <1>1 DEF NoAnswer, Initializing, limiters, connection, ConnectionInv, EngineInv
<1>3. PICK place \in {"idle", "closing", "disconnecting"}, j \in Jobs :
         /\ Move(t, place, j)
         /\ place # "idle" => j = job[t]
         /\ place = "idle" => Got(t) \notin pool
  BY <1>1, DropPoolMoves DEF NoAnswer
<1>4. place \in Places /\ (place # "idle" => place \in Initializing /\ place \in Owning)
      /\ (place = "idle" => place \notin Initializing)
  BY DEF Places, Initializing, Owning
<1>5. Got(t) \notin contested => Got(t) \notin initialized
  BY <1>1, <1>2 DEF ConnectionInv, NotInitialized
<1>6. ConnectionInv'
  BY <1>1, <1>2, <1>3, <1>4, <1>5, InitializerConnection
<1> QED
  BY <1>1, <1>2, <1>3, <1>4, <1>6, InitializerStep DEF AnsweredInv

LEMMA ClientClosedStep ==
  ASSUME IInv, NEW t \in Tasks, ClientClosed(t)
  PROVE  IInv'
<1>1. /\ TypeOK /\ ConnectionInv /\ AnsweredInv /\ job[t] \in Jobs
  BY JobTyping DEF IInv
<1>2. /\ pc[t] \in Initializing /\ engine # "memory" /\ client' = client \ {Got(t)}
      /\ UNCHANGED <<engine, table, initialized, pool, lost, taken, answered, contested>>
      /\ DropPool(t)
  BY <1>1 DEF ClientClosed, Initializing, ConnectionInv, EngineInv
<1>3. PICK place \in {"idle", "disconnecting"}, j \in Jobs :
         /\ Move(t, place, j)
         /\ place = "disconnecting" => j = job[t]
         /\ place = "idle" => Got(t) \notin pool
  BY <1>1, <1>2, DropPoolMoves
<1>4. place \in Places /\ (place # "idle" => place \in Initializing /\ place \in Owning)
      /\ (place = "idle" => place \notin Initializing)
  BY DEF Places, Initializing, Owning
<1>5. Got(t) \notin contested => Got(t) \notin initialized
  BY <1>1, <1>2 DEF ConnectionInv, NotInitialized
<1>6. ConnectionInv'
  BY <1>1, <1>2, <1>3, <1>4, <1>5, InitializerConnection
<1> QED
  BY <1>1, <1>2, <1>3, <1>4, <1>6, InitializerStep DEF AnsweredInv

LEMMA PoolClosedStep ==
  ASSUME IInv, NEW t \in Tasks, PoolClosed(t)
  PROVE  IInv'
<1>1. /\ TypeOK /\ ConnectionInv /\ AnsweredInv
  BY DEF IInv
<1>2. /\ pc[t] \in Initializing /\ engine # "memory" /\ pool' = pool \ {Got(t)}
      /\ Move(t, "idle", NoJob)
      /\ UNCHANGED <<engine, table, initialized, client, lost, taken, answered, contested>>
  BY <1>1 DEF PoolClosed, Initializing, ConnectionInv, EngineInv, End
<1>3. Got(t) \notin contested => Got(t) \notin initialized
  BY <1>1, <1>2 DEF ConnectionInv, NotInitialized
<1>4. "idle" \in Places /\ "idle" \notin Initializing
  BY DEF Places, Initializing
<1>5. ConnectionInv'
  BY <1>1, <1>2, <1>3, <1>4, Parameters, InitializerConnection
<1> QED
  BY <1>1, <1>2, <1>4, <1>5, Parameters, InitializerStep DEF AnsweredInv

LEMMA CancelStep ==
  ASSUME IInv, NEW t \in Tasks, Cancel(t)
  PROVE  IInv'
<1>1. /\ TypeOK /\ ConnectionInv /\ AnsweredInv
  BY DEF IInv
<1>2. /\ Move(t, "idle", NoJob)
      /\ UNCHANGED <<engine, table, initialized, connection, taken, answered>>
  BY DEF Cancel, End
<1>3. "idle" \in Places /\ "idle" \notin Initializing
  BY DEF Places, Initializing
<1>4. CASE pc[t] \in Initializing
  <2>1. contested' = contested \cup {Got(t)} /\ engine # "memory"
    BY <1>1, <1>4 DEF Cancel, ConnectionInv, EngineInv
  <2>2. ConnectionInv'
    BY <1>1, <1>2, <1>3, <1>4, <2>1, Parameters, InitializerConnection DEF connection
  <2> QED
    BY <1>1, <1>2, <1>3, <1>4, <2>1, <2>2, Parameters, InitializerStep DEF AnsweredInv, connection
<1>5. CASE pc[t] \notin Initializing
  <2>1. pc[t] = "asking" /\ UNCHANGED limiters
    BY <1>2, <1>5 DEF Cancel, limiters
  <2> QED
    BY <1>2, <1>5, <2>1, Parameters, QuietStep
<1> QED
  BY <1>4, <1>5

\* A limiter is got by a call, or by an iteration that has initialized the others.
LEMMA GetStep ==
  ASSUME IInv, NEW t \in Tasks, NEW i \in Ids, NEW b \in Jobs, Get(t, Obtained(i), b),
         pc[t] \in {"idle", "next"}, UNCHANGED <<engine, taken, answered>>,
         b.seen[i] <= configured[i],
         \A k \in Ids \ {i} :
           /\ b.seen[k] <= configured[k]
           /\ b.seen[k] = configured[k] /\ Known(k) /\ k \notin b.ids =>
                current[k] # 0 /\ <<k, current[k]>> \in initialized
  PROVE  IInv'
<1> DEFINE l == Obtained(i)
           j == [b EXCEPT !.id = l[1], !.number = l[2]]
<1>1. /\ TypeOK /\ HasLimiter /\ TableInv /\ OperationsCounted /\ AnsweredInv
      /\ ConnectionInv /\ SweepInv
  BY DEF IInv
<1>2. Obtain(i) /\ Found(t, l, j)
  <2>1. l[1] = i
    BY DEF Obtained
  <2> QED
    BY <2>1 DEF Get
<1>3. /\ TableInv' /\ TableGrows
      /\ configured' \in [Ids -> 0..MaxConfigs] /\ current' \in [Ids -> 0..MaxConfigs]
      /\ made' \in [Ids -> 0..MaxConfigs]
      /\ l \in Limiters /\ l = <<i, current'[i]>> /\ current'[i] # 0
      /\ \A k \in Ids \ {i} : configured'[k] = configured[k] /\ current'[k] = current[k]
  BY <1>1, <1>2, ObtainTable
<1>4. /\ j \in Jobs /\ l = <<j.id, j.number>> /\ j.ids = b.ids /\ j.seen = b.seen
  <2>1. PICK n \in 1..MaxConfigs : l = <<i, n>>
    <3> HIDE DEF l
    <3> QED
      BY <1>3 DEF Limiters
  <2>2. l[1] = i /\ l[2] = n /\ n \in 0..MaxConfigs
    <3> HIDE DEF l
    <3> QED
      BY <2>1, Parameters
  <2> HIDE DEF l
  <2>3. j = [b EXCEPT !.id = i, !.number = n]
    BY <2>2
  <2>4. b \in Jobs
    OBVIOUS
  <2> HIDE DEF j
  <2>5. j \in Jobs /\ j.id = i /\ j.number = n /\ j.ids = b.ids /\ j.seen = b.seen
    BY <2>2, <2>3, <2>4 DEF Jobs
  <2> QED
    BY <2>1, <2>5
<1>5. b.seen[i] <= configured'[i]
  <2>1. /\ b.seen[i] \in Int /\ configured[i] \in Int /\ configured'[i] \in Int
        /\ configured[i] <= configured'[i]
    BY <1>1, <1>3 DEF Jobs, TypeOK, TableGrows
  <2>2. b.seen[i] <= configured[i]
    OBVIOUS
  <2> DEFINE x == b.seen[i]
             y == configured[i]
             z == configured'[i]
  <2>3. x \in Int /\ y \in Int /\ z \in Int /\ x <= y /\ y <= z
    BY <2>1, <2>2
  <2> HIDE DEF x, y, z
  <2>4. x <= z
    BY <2>3
  <2> QED
    BY <2>4 DEF x, z
<1> HIDE DEF l, j
<1>6. pc[t] \notin Initializing \cup {"inside"}
  BY DEF Initializing
<1>7. ASSUME NEW place \in {"next", "asking", "asking server"}, NEW k \in Jobs,
             Move(t, place, k), place # "next" => k = j,
             k.ids = j.ids, k.seen = j.seen, ConnectionInv',
             initialized \subseteq initialized',
             initialized' \subseteq initialized \cup {l}, client' \subseteq client \cup {l},
             pool' \subseteq pool \cup {l}, lost' \subseteq lost \cup {l},
             contested' \subseteq contested \cup {l},
             place # "asking server" => l \in initialized',
             engine # "memory" => initialized' = initialized
      PROVE  IInv'
  <2>1. place \in Places /\ (place = "asking server" => place \in Initializing)
        /\ (place # "asking server" => place \notin Initializing)
    BY DEF Places, Initializing
  <2>2. Moved(t, place, k) /\ pc' \in [Tasks -> Places] /\ job' \in [Tasks -> Jobs]
    BY <1>1, <1>7, <2>1, MoveMoves
  <2>3. TypeOK'
    <3>1. /\ initialized' \in SUBSET Limiters /\ client' \in SUBSET Limiters
          /\ pool' \in SUBSET Limiters /\ answered' \in SUBSET Limiters
          /\ lost' \in SUBSET Limiters /\ contested' \in SUBSET Limiters
      BY <1>1, <1>3, <1>7 DEF TypeOK
    <3>2. engine' \in {"memory", "redis", "postgres"} /\ taken' \in [Limiters -> 0..MaxConcurrent]
      BY <1>1 DEF TypeOK
    <3> QED
      BY <1>3, <2>2, <3>1, <3>2 DEF TypeOK, Limiters, Places, Initializing, Jobs, Aims
  <2>4. HasLimiter'
    BY <1>1, <1>3, <1>4, <1>7, <2>1, TasksKept DEF Initializing
  <2>5. OperationsCounted'
    BY <1>1, <1>6, <1>7, <2>1, PlacesKept
  <2>6. AnsweredInv'
    <3>1. engine # "memory" => initialized' \subseteq answered'
      BY <1>1, <1>7 DEF AnsweredInv
    <3> QED
      BY <1>1, <1>4, <1>7, <2>1, <3>1, AnsweredKept
  <2>7. place \in {"next"} \cup Initializing => Swept(t)'
    <3>1. ASSUME place \in {"next"} \cup Initializing, NEW m \in Ids
          PROVE  /\ job'[t].seen[m] <= configured'[m]
                 /\ job'[t].seen[m] = configured'[m] /\ Known(m)' /\ m \notin job'[t].ids =>
                      /\ current'[m] # 0
                      /\ \/ <<m, current'[m]>> \in initialized'
                         \/ pc'[t] \in Initializing /\ Got(t)' = <<m, current'[m]>>
      <4>1. job'[t].seen = b.seen /\ job'[t].ids = b.ids
        BY <1>4, <1>7, <2>2 DEF Moved
      <4>2. CASE m = i
        <5>1. b.seen[i] <= configured'[i]
          BY <1>5
        <5>2. l \in initialized' \/ (pc'[t] \in Initializing /\ Got(t)' = l)
          BY <1>4, <1>7, <2>1, <2>2 DEF Moved
        <5>3. current'[i] # 0 /\ l = <<i, current'[i]>>
          BY <1>3
        <5>4. <<i, current'[i]>> \in initialized' \/ (pc'[t] \in Initializing /\ Got(t)' = <<i, current'[i]>>)
          BY <5>2, <5>3
        <5>5. job'[t].seen[i] <= configured'[i]
          BY <4>1, <5>1
        <5> QED
          BY <4>2, <5>3, <5>4, <5>5, Zenon
      <4>3. CASE m # i
        BY <1>3, <1>7, <4>1, <4>3 DEF Known
      <4> QED
        BY <4>2, <4>3
    <3> QED
      BY <3>1 DEF Swept
  <2>8. SweepInv'
    BY <1>1, <1>3, <1>7, <2>1, <2>7, SweepKept
  <2> QED
    BY <1>3, <1>7, <2>3, <2>4, <2>5, <2>6, <2>8 DEF IInv
<1>8. CASE ~NeedsInitialize(l) /\ Ready(t, j) /\ UNCHANGED <<initialized, connection, contested>>
  <2>1. l \in initialized /\ UNCHANGED <<client, pool, lost>>
    BY <1>8 DEF NeedsInitialize, connection
  <2>2. PICK place \in {"next", "asking"}, k \in Jobs :
           Move(t, place, k) /\ (place = "asking" => k = j) /\ k.ids = j.ids /\ k.seen = j.seen
    BY <1>1, <1>4, <1>8, ReadyMoves
  <2>3. place \in Places /\ place \notin Initializing
    BY DEF Places, Initializing
  <2>4. ConnectionInv'
    BY <1>1, <1>6, <1>8, <2>2, <2>3, ConnectionKept
  <2> QED
    BY <1>7, <1>8, <2>1, <2>2, <2>4
<1>9. CASE NeedsInitialize(l) /\ SetFlag(t, l, j)
  <2>1. /\ engine = "memory" /\ initialized' = initialized \cup {l} /\ Ready(t, j)
        /\ UNCHANGED <<connection, contested, client, pool, lost>>
    BY <1>9 DEF SetFlag, connection
  <2>2. PICK place \in {"next", "asking"}, k \in Jobs :
           Move(t, place, k) /\ (place = "asking" => k = j) /\ k.ids = j.ids /\ k.seen = j.seen
    BY <1>1, <1>4, <2>1, ReadyMoves
  <2>3. place \in Places /\ place \notin Initializing
    BY DEF Places, Initializing
  <2>4. ConnectionInv'
    BY <1>1, <2>1, <2>2, <2>3, FlagConnection
  <2> QED
    BY <1>7, <2>1, <2>2, <2>4
<1>10. CASE NeedsInitialize(l) /\ Connect(t, l, j)
  <2>1. ConnectionInv'
    BY <1>1, <1>4, <1>6, <1>10, ConnectConnection DEF NeedsInitialize
  <2>2. Move(t, "asking server", j) /\ initialized' = initialized
    BY <1>10 DEF Connect
  <2>3. /\ client' \subseteq client \cup {l} /\ pool' \subseteq pool \cup {l}
        /\ lost' \subseteq lost \cup {l} /\ contested' \subseteq contested \cup {l}
    BY <1>10 DEF Connect, Publish, connection
  <2> QED
    BY <1>4, <1>7, <2>1, <2>2, <2>3
<1> QED
  BY <1>2, <1>8, <1>9, <1>10 DEF Found

LEMMA CallStep ==
  ASSUME IInv, NEW t \in Tasks, NEW call \in Calls, NEW i \in Ids, Call(t, call, i)
  PROVE  IInv'
<1>1. TypeOK /\ pc[t] = "idle" /\ pc[t] \notin Initializing
  BY DEF IInv, Call, Initializing
<1> DEFINE b == [NoJob EXCEPT !.aim = Aim(call)]
           c == [b EXCEPT !.id = i]
<1>2. /\ b \in Jobs /\ b.number = 0 /\ b.seen = [k \in Ids |-> 0] /\ b.ids = {}
      /\ c \in Jobs /\ c.number = 0
      /\ c = [NoJob EXCEPT !.aim = Aim(call), !.id = i]
  <2>1. Aim(call) \in Aims
    BY DEF Aim, Aims
  <2> QED
    BY <2>1, Parameters DEF Jobs, NoJob
<1>3. \A k \in Ids : /\ configured[k] \in Nat
                     /\ b.seen[k] <= configured[k]
                     /\ ~(b.seen[k] = configured[k] /\ Known(k))
  <2>1. \A k \in Ids : configured[k] \in Nat
    BY <1>1 DEF TypeOK
  <2>2. \A k \in Ids : b.seen[k] = 0
    BY <1>2
  <2> HIDE DEF b
  <2> QED
    BY <2>1, <2>2 DEF Known
<1> HIDE DEF b, c
<1>4. CASE Get(t, Obtained(i), [NoJob EXCEPT !.aim = Aim(call)]) /\ UNCHANGED <<engine, taken, answered>>
  <2>1. Get(t, Obtained(i), b)
    BY <1>4 DEF b
  <2> QED
    BY <1>1, <1>2, <1>3, <1>4, <2>1, GetStep
<1>5. CASE /\ Move(t, "inside", [NoJob EXCEPT !.aim = Aim(call), !.id = i])
           /\ UNCHANGED <<table, initialized, connection, contested>>
           /\ UNCHANGED <<engine, taken, answered>>
  <2>1. Move(t, "inside", c) /\ UNCHANGED <<engine, table, limiters>>
    BY <1>2, <1>5 DEF limiters
  <2> QED
    BY <1>1, <1>2, <2>1, QuietStep
<1> QED
  BY <1>4, <1>5 DEF Call

LEMMA IterateStep ==
  ASSUME IInv, NEW t \in Tasks, NEW i \in Ids, Iterate(t, i)
  PROVE  IInv'
<1> DEFINE b == [job[t] EXCEPT !.ids = @ \ {i}]
<1>1. /\ TypeOK /\ pc[t] = "next" /\ Swept(t) /\ job[t] \in Jobs
      /\ UNCHANGED <<engine, taken, answered>>
  BY JobTyping DEF IInv, Iterate, SweepInv
<1>2. b \in Jobs /\ b.seen = job[t].seen /\ b.ids = job[t].ids \ {i}
  BY <1>1 DEF Jobs
<1>3. Get(t, Obtained(i), b)
  BY DEF Iterate
<1> HIDE DEF b
<1>4. b.seen[i] <= configured[i]
  BY <1>1, <1>2 DEF Swept
<1>5. ASSUME NEW k \in Ids \ {i}
      PROVE  /\ b.seen[k] <= configured[k]
             /\ b.seen[k] = configured[k] /\ Known(k) /\ k \notin b.ids =>
                  current[k] # 0 /\ <<k, current[k]>> \in initialized
  BY <1>1, <1>2 DEF Swept, Initializing
<1> QED
  BY <1>1, <1>2, <1>3, <1>4, <1>5, GetStep

LEMMA ConfigureStep ==
  ASSUME IInv, NEW i \in Ids, Configure(i)
  PROVE  IInv'
<1>1. /\ TypeOK /\ HasLimiter /\ TableInv /\ OperationsCounted /\ AnsweredInv
      /\ ConnectionInv /\ SweepInv
  BY DEF IInv
<1>2. UNCHANGED <<engine, initialized, client, pool, lost, taken, answered, contested, pc, job>>
  BY DEF Configure, limiters, connection, local
<1>3. /\ TableInv' /\ TableGrows
      /\ configured' \in [Ids -> 0..MaxConfigs] /\ current' \in [Ids -> 0..MaxConfigs]
      /\ made' = made
  BY <1>1, ConfigureTable
<1>4. TypeOK'
  BY <1>1, <1>2, <1>3 DEF TypeOK, Limiters, Places, Initializing, Jobs, Aims
<1>5. \A u : Got(u)' = Got(u)
  BY <1>2 DEF Got
<1>6. HasLimiter' /\ AnsweredInv'
  BY <1>1, <1>2, <1>5 DEF HasLimiter, UsesLimiter, AnsweredInv, Initializing, Limiters
<1>7. OperationsCounted'
  BY <1>1, <1>2 DEF OperationsCounted, InsideOf, Counter, Got, Limiters
<1>8. ConnectionInv'
  BY <1>1, <1>2, <1>5 DEF ConnectionInv, EngineInv, OneInitializes, NotInitialized, PoolOwned,
     HasPool, InitializeIdempotent, Owning, Initializing
<1>9. SweepInv'
  <2>1. ASSUME NEW t \in Tasks, pc[t] \in {"next"} \cup Initializing PROVE Swept(t)'
    BY <1>1, <1>2, <1>3, <1>5, <2>1, SweptBehind
  <2> QED
    BY <1>2, <2>1 DEF SweepInv, Initializing
<1> QED
  BY <1>3, <1>4, <1>6, <1>7, <1>8, <1>9 DEF IInv

LEMMA InitializeAllStep ==
  ASSUME IInv, NEW t \in Tasks, InitializeAll(t)
  PROVE  IInv'
<1> DEFINE j == [NoJob EXCEPT !.aim = "initialize all", !.seen = configured,
                              !.ids = {i \in Ids : Known(i)}]
<1>1. /\ TypeOK /\ pc[t] = "idle" /\ pc[t] \notin Initializing
      /\ Move(t, "next", j) /\ UNCHANGED <<engine, table, limiters>>
  BY DEF IInv, InitializeAll, Initializing
<1>2. configured \in [Ids -> 0..MaxConfigs]
  BY <1>1 DEF TypeOK
<1>3. j \in Jobs /\ j.seen = configured /\ j.ids = {i \in Ids : Known(i)}
  BY <1>2, Parameters DEF Jobs, Aims, NoJob
<1> HIDE DEF j
<1>4. Moved(t, "next", j)
  BY <1>1, <1>3, MoveMoves DEF Places
<1>5. Swept(t)'
  <2>1. \A i \in Ids : configured[i] \in Nat
    BY <1>2
  <2> QED
    BY <1>1, <1>3, <1>4, <2>1 DEF Moved, Swept, Known, table
<1> QED
  BY <1>1, <1>3, <1>5, QuietStep

\* Conclude, IterationFails, Answered
LEMMA EndStep ==
  ASSUME IInv, NEW t \in Tasks, End(t), pc[t] \in {"next", "asking"},
         UNCHANGED <<engine, table, limiters>>
  PROVE  IInv'
<1>1. pc[t] \notin Initializing /\ pc[t] # "inside" /\ Move(t, "idle", NoJob)
  BY DEF Initializing, End
<1> QED
  BY <1>1, Parameters, QuietStep

LEMMA FiniteInside ==
  ASSUME NEW l
  PROVE  IsFiniteSet(InsideOf(l)) /\ Cardinality(InsideOf(l)) \in Nat
BY Parameters, FS_Subset, FS_CardinalityType DEF InsideOf

\* The parts that Enter and Leave do not touch.
LEMMA PlaceStep ==
  ASSUME IInv, NEW t \in Tasks, NEW place \in {"idle", "inside"}, NEW j \in Jobs,
         Move(t, place, j), pc[t] \in {"asking", "inside"},
         UNCHANGED <<engine, table, initialized, connection, answered, contested>>,
         place = "inside" => <<j.id, j.number>> \in Limiters,
         taken' \in [Limiters -> 0..MaxConcurrent], OperationsCounted'
  PROVE  IInv'
<1>1. /\ TypeOK /\ HasLimiter /\ TableInv /\ AnsweredInv /\ ConnectionInv /\ SweepInv
  BY DEF IInv
<1>2. /\ place \in Places /\ place \notin Initializing \cup {"asking", "making tables", "next"}
      /\ pc[t] \notin Initializing
  BY DEF Places, Initializing
<1>3. TypeOK'
  BY <1>1, <1>2, MoveMoves, SameTable DEF TypeOK, connection, Limiters, Places, Initializing, Jobs, Aims
<1>4. HasLimiter'
  BY <1>1, <1>2, TasksKept
<1>5. TableInv' /\ TableGrows /\ configured' \in [Ids -> 0..MaxConfigs]
  BY <1>1, SameTable
<1>6. AnsweredInv'
  BY <1>1, <1>2, AnsweredKept DEF AnsweredInv
<1>7. ConnectionInv'
  BY <1>1, <1>2, ConnectionKept
<1>8. SweepInv'
  BY <1>1, <1>2, <1>5, SweepKept
<1> QED
  BY <1>3, <1>4, <1>5, <1>6, <1>7, <1>8 DEF IInv

LEMMA CounterTyping ==
  ASSUME NEW l \in Limiters
  PROVE  Counter(l) \in Limiters
BY Parameters DEF Limiters, Counter

LEMMA EnterStep ==
  ASSUME IInv, NEW t \in Tasks, Enter(t)
  PROVE  IInv'
<1>0. PICK l \in Limiters : l = Counter(Got(t))
  BY CounterTyping DEF IInv, Enter, HasLimiter, UsesLimiter
<1>1. /\ TypeOK /\ OperationsCounted /\ job[t] \in Jobs
      /\ pc[t] = "asking" /\ taken[l] < MaxConcurrent
      /\ taken' = [taken EXCEPT ![l] = @ + 1]
      /\ Move(t, "inside", job[t])
      /\ UNCHANGED <<engine, table, initialized, connection, answered, contested>>
  BY <1>0, JobTyping DEF IInv, Enter, FreePlace, Occupied
<1>2. Got(t) \in Limiters /\ Moved(t, "inside", job[t])
  BY <1>1, MoveMoves DEF IInv, HasLimiter, UsesLimiter, Places
<1>3. /\ taken \in [Limiters -> 0..MaxConcurrent] /\ taken[l] + 1 \in 0..MaxConcurrent
  BY <1>1, Parameters DEF TypeOK
<1>4. taken' \in [Limiters -> 0..MaxConcurrent]
  BY <1>1, <1>3
<1>5. OperationsCounted'
  <2> SUFFICES ASSUME engine \in FailClosed \cup {"memory"}, NEW m \in Limiters
               PROVE  Cardinality(InsideOf(m)') <= taken'[m]
    BY <1>1 DEF OperationsCounted, Limiters
  <2>1. Cardinality(InsideOf(m)) <= taken[m] /\ Cardinality(InsideOf(m)) \in Nat
    BY <1>1, FiniteInside DEF OperationsCounted
  <2>2. CASE m = l
    <3>1. InsideOf(l)' \subseteq InsideOf(l) \cup {t}
      BY <1>1, <1>2 DEF InsideOf, Moved, Counter
    <3>2. Cardinality(InsideOf(l)') <= Cardinality(InsideOf(l)) + 1
      <4>1. /\ IsFiniteSet(InsideOf(l)) /\ IsFiniteSet(InsideOf(l) \cup {t})
            /\ Cardinality(InsideOf(l) \cup {t}) \in {Cardinality(InsideOf(l)), Cardinality(InsideOf(l)) + 1}
        BY FiniteInside, FS_AddElement
      <4>2. Cardinality(InsideOf(l)') <= Cardinality(InsideOf(l) \cup {t})
        BY <3>1, <4>1, FS_Subset
      <4>3. Cardinality(InsideOf(l)) \in Nat /\ Cardinality(InsideOf(l)') \in Nat
        BY <3>1, <4>1, FiniteInside, FS_Subset, FS_CardinalityType
      <4> QED
        BY <4>1, <4>2, <4>3
    <3>3. Cardinality(InsideOf(l)') \in Nat
      BY <3>1, FiniteInside, FS_AddElement, FS_Subset, FS_CardinalityType
    <3>4. taken'[l] = taken[l] + 1 /\ taken[l] \in Nat
      BY <1>1, <1>3
    <3> QED
      BY <2>1, <2>2, <3>2, <3>3, <3>4
  <2>3. CASE m # l
    <3>1. InsideOf(m)' = InsideOf(m)
      <4>1. Got(t)' = Got(t) /\ Counter(Got(t))' = l /\ pc[t] # "inside"
        BY <1>0, <1>1, <1>2 DEF Moved, Counter, Got
      <4>2. \A u \in Tasks \ {t} : Counter(Got(u))' = Counter(Got(u))
        BY <1>1, <1>2 DEF Moved, Counter
      <4> QED
        BY <1>2, <2>3, <4>1, <4>2 DEF InsideOf, Moved
    <3>2. taken'[m] = taken[m]
      BY <1>1, <1>3, <2>3
    <3> QED
      BY <2>1, <3>1, <3>2
  <2> QED
    BY <2>2, <2>3
<1> QED
  BY <1>1, <1>2, <1>4, <1>5, PlaceStep DEF Got

LEMMA FailOpenStep ==
  ASSUME IInv, NEW t \in Tasks, FailOpen(t)
  PROVE  IInv'
<1>1. /\ TypeOK /\ job[t] \in Jobs /\ pc[t] = "asking" /\ Move(t, "inside", job[t])
      /\ UNCHANGED <<engine, table, initialized, connection, taken, answered, contested>>
  BY JobTyping DEF IInv, FailOpen, limiters
<1>2. Got(t) \in Limiters /\ Got(t) = <<job[t].id, job[t].number>>
  BY <1>1 DEF IInv, HasLimiter, UsesLimiter, Got
<1>3. taken' \in [Limiters -> 0..MaxConcurrent] /\ OperationsCounted'
  BY <1>1 DEF FailOpen, TypeOK, OperationsCounted
<1> QED
  BY <1>1, <1>2, <1>3, PlaceStep

LEMMA LeaveStep ==
  ASSUME IInv, NEW t \in Tasks, Leave(t)
  PROVE  IInv'
<1>1. /\ TypeOK /\ OperationsCounted /\ pc[t] = "inside" /\ pc[t] \notin Initializing
      /\ Move(t, "idle", NoJob)
      /\ UNCHANGED <<engine, table, initialized, connection, answered, contested>>
  BY DEF IInv, Leave, End, Initializing
<1>2. CASE job[t].number = 0
  <2>1. UNCHANGED limiters
    BY <1>1, <1>2 DEF Leave, limiters
  <2> QED
    BY <1>1, <1>2, <2>1, Parameters, QuietStep
<1>3. CASE job[t].number # 0
  <2>0. PICK l \in Limiters : l = Counter(Got(t))
    BY <1>1, <1>3, CounterTyping DEF IInv, HasLimiter, UsesLimiter
  <2>1. taken' = [taken EXCEPT ![l] = IF @ > 0 THEN @ - 1 ELSE 0]
    BY <1>3, <2>0 DEF Leave, Freed
  <2>2. Moved(t, "idle", NoJob)
    BY <1>1, MoveMoves, Parameters DEF Places
  <2>3. /\ taken \in [Limiters -> 0..MaxConcurrent]
        /\ taken' \in [Limiters -> 0..MaxConcurrent]
        /\ \A m \in Limiters \ {l} : taken'[m] = taken[m]
        /\ taken'[l] = IF taken[l] > 0 THEN taken[l] - 1 ELSE 0
    <3>1. taken \in [Limiters -> 0..MaxConcurrent]
      BY <1>1 DEF TypeOK
    <3>2. (IF taken[l] > 0 THEN taken[l] - 1 ELSE 0) \in 0..MaxConcurrent
      BY <3>1, Parameters
    <3> QED
      BY <2>1, <3>1, <3>2
  <2>4. OperationsCounted'
    <3> SUFFICES ASSUME engine \in FailClosed \cup {"memory"}, NEW m \in Limiters
                 PROVE  Cardinality(InsideOf(m)') <= taken'[m]
      BY <1>1 DEF OperationsCounted, Limiters
    <3>1. /\ Cardinality(InsideOf(m)) <= taken[m]
          /\ IsFiniteSet(InsideOf(m)) /\ Cardinality(InsideOf(m)) \in Nat
      BY <1>1, FiniteInside DEF OperationsCounted
    <3>2. CASE m = l
      <4>1. t \in InsideOf(l)
        BY <1>1, <1>3, <2>0 DEF InsideOf
      <4>2. InsideOf(l)' = InsideOf(l) \ {t}
        BY <1>1, <2>0, <2>2 DEF InsideOf, Moved, Counter
      <4>3. Cardinality(InsideOf(l) \ {t}) = Cardinality(InsideOf(l)) - 1
        BY <3>1, <3>2, <4>1, FS_RemoveElement
      <4>4. Cardinality(InsideOf(l)) # 0
        BY <3>1, <3>2, <4>1, FS_EmptySet
      <4>5. taken[l] \in Nat
        BY <2>3
      <4> QED
        BY <2>3, <3>1, <3>2, <4>2, <4>3, <4>4, <4>5
    <3>3. CASE m # l
      <4>1. InsideOf(m)' = InsideOf(m)
        BY <1>1, <2>0, <2>2, <3>3 DEF InsideOf, Moved, Counter
      <4> QED
        BY <2>3, <3>1, <3>3, <4>1
    <3> QED
      BY <3>2, <3>3
  <2> QED
    BY <1>1, <2>3, <2>4, Parameters, PlaceStep
<1> QED
  BY <1>2, <1>3

-----------------------------------------------------------------------------
(* The invariant *)

LEMMA InitIInv == Init => IInv
<1> SUFFICES ASSUME Init PROVE IInv
  OBVIOUS
<1>1. /\ configured = [i \in Ids |-> 0] /\ current = [i \in Ids |-> 0] /\ made = [i \in Ids |-> 0]
      /\ initialized = {} /\ client = {} /\ pool = {} /\ lost = {} /\ answered = {} /\ contested = {}
      /\ taken = [l \in Limiters |-> 0]
      /\ pc = [t \in Tasks |-> "idle"] /\ job = [t \in Tasks |-> NoJob]
      /\ engine \in {"memory", "redis", "postgres"}
  BY DEF Init
<1>2. \A t \in Tasks : pc[t] = "idle"
  BY <1>1
<1>3. TypeOK
  BY <1>1, Parameters DEF TypeOK, Places
<1>4. HasLimiter /\ AnsweredInv
  BY <1>1, <1>2 DEF HasLimiter, UsesLimiter, Initializing, AnsweredInv
<1>5. TableInv
  BY <1>1 DEF TableInv
<1>6. OperationsCounted
  <2>1. \A l : InsideOf(l) = {}
    BY <1>2 DEF InsideOf
  <2>2. Cardinality({}) = 0
    BY FS_EmptySet
  <2> QED
    BY <1>1, <2>1, <2>2 DEF OperationsCounted
<1>7. ConnectionInv
  BY <1>1, <1>2 DEF ConnectionInv, EngineInv, OneInitializes, NotInitialized, PoolOwned, HasPool,
     InitializeIdempotent, Initializing
<1>8. SweepInv
  BY <1>2 DEF SweepInv, Initializing
<1> QED
  BY <1>3, <1>4, <1>5, <1>6, <1>7, <1>8 DEF IInv

LEMMA NextIInv == IInv /\ [Next]_vars => IInv'
<1> SUFFICES ASSUME IInv, [Next]_vars PROVE IInv'
  OBVIOUS
<1>1. ASSUME NEW i \in Ids, Configure(i) PROVE IInv'
  BY <1>1, ConfigureStep
<1>2. ASSUME NEW t \in Tasks, NEW call \in Calls, NEW i \in Ids, Call(t, call, i) PROVE IInv'
  BY <1>2, CallStep
<1>3. ASSUME NEW t \in Tasks, InitializeAll(t) PROVE IInv'
  BY <1>3, InitializeAllStep
<1>4. ASSUME NEW t \in Tasks, NEW i \in Ids, Iterate(t, i) PROVE IInv'
  BY <1>4, IterateStep
<1>5. ASSUME NEW t \in Tasks, Answer(t) \/ PoolMade(t) \/ TablesMade(t) PROVE IInv'
  BY <1>5, AnswerStep, PoolMadeStep, TablesMadeStep
<1>6. ASSUME NEW t \in Tasks, NoAnswer(t) \/ ClientClosed(t) \/ PoolClosed(t) PROVE IInv'
  BY <1>6, NoAnswerStep, ClientClosedStep, PoolClosedStep
<1>7. ASSUME NEW t \in Tasks, Conclude(t) \/ IterationFails(t) \/ Answered(t) PROVE IInv'
  BY <1>7, EndStep DEF Conclude, IterationFails, Answered
<1>8. ASSUME NEW t \in Tasks, Enter(t) \/ FailOpen(t) \/ Leave(t) \/ Cancel(t) PROVE IInv'
  BY <1>8, EnterStep, FailOpenStep, LeaveStep, CancelStep
<1>9. CASE UNCHANGED vars
  <2>1. UNCHANGED <<engine, configured, current, made, initialized, client, pool, lost, taken,
                    answered, contested, pc, job>>
    BY <1>9 DEF vars, table, limiters, connection, local
  <2>2. \A t : Got(t)' = Got(t)
    BY <2>1 DEF Got
  <2>3. TypeOK'
    BY <2>1 DEF IInv, TypeOK, Limiters, Places, Initializing, Jobs, Aims
  <2>4. HasLimiter' /\ AnsweredInv'
    BY <2>1, <2>2 DEF IInv, HasLimiter, UsesLimiter, AnsweredInv, Limiters, Initializing
  <2>5. TableInv'
    BY <2>1 DEF IInv, TableInv
  <2>6. OperationsCounted'
    BY <2>1, <2>2 DEF IInv, OperationsCounted, InsideOf, Counter, Limiters
  <2>7. ConnectionInv'
    BY <2>1, <2>2 DEF IInv, ConnectionInv, EngineInv, OneInitializes, NotInitialized, PoolOwned,
       HasPool, Owning, InitializeIdempotent, Initializing
  <2>8. SweepInv'
    BY <2>1, <2>2 DEF IInv, SweepInv, Swept, Known, Initializing
  <2> QED
    BY <2>3, <2>4, <2>5, <2>6, <2>7, <2>8 DEF IInv
<1> QED
  BY <1>1, <1>2, <1>3, <1>4, <1>5, <1>6, <1>7, <1>8, <1>9 DEF Next

LEMMA Invariant == Spec => []IInv
<1> QED
  BY InitIInv, NextIInv, PTL DEF Spec

\* Every variable keeps its type; no limiter counts more operations than it has
\* places (acquire and release of each engine).
THEOREM TypeCorrect == Spec => []TypeOK
<1>1. IInv => TypeOK
  BY DEF IInv
<1> QED
  BY <1>1, Invariant, PTL

\* One limiter is made of each configuration, however many tasks use an id for the
\* first time at once (_get_or_create_limiter_sync).
THEOREM OneLimiterMade == Spec => []OneLimiterPerConfiguration
<1>1. IInv => OneLimiterPerConfiguration
  BY DEF IInv, TableInv, OneLimiterPerConfiguration
<1> QED
  BY <1>1, Invariant, PTL

\* The operations that limiters of an id let in are counted where they count their
\* places, also those of a limiter that configure_limiter has replaced in the table
\* (acquire_context): in the process, or on a server that fails closed.
THEOREM OperationsAreCounted == Spec => []OperationsCounted
<1>1. IInv => OperationsCounted
  BY DEF IInv
<1> QED
  BY <1>1, Invariant, PTL

\* No limiter is asked before its server answered an initialize() of it
\* (_get_or_create_limiter, the decorator and the HTTP front ends).
THEOREM AskedAfterAnswer == Spec => []AskedWhenAnswered
<1>1. IInv => AskedWhenAnswered
  BY DEF IInv, AnsweredInv, AskedWhenAnswered
<1> QED
  BY <1>1, Invariant, PTL

\* Initializations that do not overlap, and end by themselves, lose no pool and leave
\* what the limiter needs (initialize of the Redis and PostgreSQL engines).
THEOREM InitializesOnce == Spec => []InitializeIdempotent
<1>1. IInv => InitializeIdempotent
  BY DEF IInv, ConnectionInv
<1> QED
  BY <1>1, Invariant, PTL

\* initialize_all_limiters returns when every limiter of the table is initialized
\* that was not configured anew meanwhile.
THEOREM AllAreInitialized == Spec => AllInitialized
<1> DEFINE Done == \A t \in Tasks : Conclude(t) =>
       \A i \in Ids : Known(i) /\ job[t].seen[i] \in {0, configured[i]} =>
         <<i, current[i]>> \in initialized
<1>1. IInv => Done
  <2> SUFFICES ASSUME IInv, NEW t \in Tasks, Conclude(t),
                      NEW i \in Ids, Known(i), job[t].seen[i] \in {0, configured[i]}
               PROVE  <<i, current[i]>> \in initialized
    OBVIOUS
  <2>1. pc[t] = "next" /\ job[t].ids = {} /\ job[t].seen[i] # 0
    BY DEF Conclude, SizeChanged
  <2>2. Swept(t)
    BY <2>1 DEF IInv, SweepInv
  <2> QED
    BY <2>1, <2>2 DEF Swept, Initializing
<1>2. IInv => [Done]_vars
  BY <1>1
<1>3. [][Done]_vars => AllInitialized
  BY PTL DEF AllInitialized
<1> QED
  BY <1>2, <1>3, Invariant, PTL
=============================================================================

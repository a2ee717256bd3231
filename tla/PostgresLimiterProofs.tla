----------------------- MODULE PostgresLimiterProofs -----------------------
(***************************************************************************)
(* Theorems about the PostgreSQL engine, for every number of clients and   *)
(* of connections, every rate, limit, window and number of places.         *)
(***************************************************************************)
EXTENDS PostgresLimiter, AgesProofs

Transaction == {"count", "commit", "nothing"}

\* Where a client is agrees with the time and the count it has read, with the
\* lock and with the versions.
Fits(c) ==
  /\ pc[c] \in Stamped => timer[c] <= MaxWait
  /\ pc[c] \notin Transaction \cup {"update"} => read[c] = 0
  /\ pc[c] = "update" => TokenBucket
  /\ pc[c] \in {"update", "commit"} => read[c] < MaxConcurrent
  /\ pc[c] \in Transaction => SlidingWindow /\ read[c] = count
  /\ locked = c <=> pc[c] \in Transaction
  /\ c \in current \cup stale => pc[c] = "update"

FlowInv ==
  /\ TypeOK
  /\ \A c \in Clients : Fits(c)
  /\ ~row => count = 0 /\ current = {}
  /\ resetting = "no" => stale = {}
  /\ current \cap stale = {}

LEMMA Parameters ==
  /\ Period \in Nat /\ Margin \in 0..Period /\ Limit \in Nat \ {0} /\ Window \in Nat \ {0}
  /\ MaxConcurrent \in Nat \ {0} /\ Poll \in Nat \ {0} /\ MaxTimeout \in Nat
  /\ MaxWait \in Nat /\ MaxDelay \in Nat /\ MaxDelay <= MaxWait /\ MaxWait <= Window
  /\ Never = MaxTimeout + 1 /\ Never \in Nat
  /\ Required = Period - Margin /\ Required \in Nat /\ Required <= Period
  /\ Period = 0 => Required = 0
  /\ Old = Period + MaxWait /\ Old \in Nat
  /\ Expired = Window + MaxWait + 1 /\ Expired \in Nat
  /\ None \notin Clients
  BY PostgresAssumption DEF PostgresAssumption, Never, Required, Old, Expired

LEMMA SmallNumbers ==
  ASSUME NEW n \in Int, NEW m \in Nat
  PROVE  /\ n \in Nat => Down(n) \in Nat /\ Down(n) <= n /\ (n > 0 => Down(n) = n - 1)
         /\ AtLeast(n, m) \in Nat
         /\ n \in Nat => AtMost(n, m) \in Nat /\ AtMost(n, m) <= n /\ AtMost(n, m) <= m
  BY DEF Down, AtLeast, AtMost

LEMMA FlowFacts ==
  ASSUME FlowInv, NEW c \in Clients
  PROVE  /\ pc[c] \in Places /\ timer[c] \in Nat /\ read[c] \in 0..MaxConcurrent
         /\ budget[c] \in 0..Never
         /\ pc = [pc EXCEPT ![c] = pc[c]] /\ timer = [timer EXCEPT ![c] = timer[c]]
         /\ read = [read EXCEPT ![c] = read[c]] /\ budget = [budget EXCEPT ![c] = budget[c]]
         /\ Fits(c)
         /\ TypeOK
  BY DEF FlowInv, TypeOK

-----------------------------------------------------------------------------
(* The steps of a client *)

\* Client c is at place now, with the given time, count and budget.
Moved(c, place, ticks, number, rest) ==
  /\ pc' = [pc EXCEPT ![c] = place]
  /\ timer' = [timer EXCEPT ![c] = ticks]
  /\ read' = [read EXCEPT ![c] = number]
  /\ budget' = [budget EXCEPT ![c] = rest]

ServerTyping ==
  /\ row \in BOOLEAN
  /\ last \in 0..Old
  /\ count \in 0..MaxConcurrent
  /\ current \in SUBSET Clients
  /\ stale \in SUBSET Clients
  /\ locked \in Clients \cup {None}
  /\ entries \in [0..Expired -> Nat]

HistoryTyping ==
  /\ owners \in SUBSET Clients
  /\ leaked \in Nat
  /\ granted \in [Recent -> Nat]

\* What a client does to the others: it takes no lock of theirs, changes no count
\* that one of them has locked, and makes current only those that may be.
Spares(c) ==
  /\ \A d \in Clients \ {c} : (locked' = d <=> locked = d) /\ (locked = d => count' = count)
  /\ \A d \in (current' \cup stale') \ {c} : d \in current \cup stale

\* What is to be shown of the client itself.
Arrives(c, place, ticks, number) ==
  /\ place \in Stamped => ticks <= MaxWait
  /\ place \notin Transaction \cup {"update"} => number = 0
  /\ place = "update" => TokenBucket
  /\ place \in {"update", "commit"} => number < MaxConcurrent
  /\ place \in Transaction => SlidingWindow /\ number = count'
  /\ locked' = c <=> place \in Transaction
  /\ c \in current' \cup stale' => place = "update"

LEMMA ClientFlow ==
  ASSUME FlowInv, NEW c \in Clients, NEW place \in Places, NEW ticks \in Nat,
         NEW number \in 0..MaxConcurrent, NEW rest \in 0..Never,
         Moved(c, place, ticks, number, rest),
         Arrives(c, place, ticks, number), Spares(c),
         UNCHANGED <<config, resetting>>, ServerTyping', HistoryTyping',
         ~row' => count' = 0 /\ current' = {},
         resetting = "no" => stale' = {},
         current' \cap stale' = {}
  PROVE  FlowInv'
<1>1. TypeOK'
  BY DEF FlowInv, TypeOK, Moved, Spares, ServerTyping, HistoryTyping, config
<1>2. algorithm' = algorithm
  BY DEF config
<1>3. Fits(c)'
  <2>1. pc'[c] = place /\ timer'[c] = ticks /\ read'[c] = number
    BY DEF Moved, FlowInv, TypeOK
  <2> QED
    BY <1>2, <2>1 DEF Arrives, Fits, TokenBucket, SlidingWindow
<1>4. ASSUME NEW d \in Clients, d # c PROVE Fits(d)'
  <2>1. pc'[d] = pc[d] /\ timer'[d] = timer[d] /\ read'[d] = read[d]
    BY <1>4 DEF Moved, FlowInv, TypeOK
  <2>2. /\ (locked' = d) <=> (locked = d)
        /\ locked = d => count' = count
        /\ d \in current' \cup stale' => d \in current \cup stale
    BY <1>4 DEF Spares
  <2>3. Fits(d)
    BY DEF FlowInv
  <2> QED
    BY <1>2, <2>1, <2>2, <2>3 DEF Fits, TokenBucket, SlidingWindow
<1>5. \A d \in Clients : Fits(d)'
  BY <1>3, <1>4
<1> QED
  BY <1>1, <1>5 DEF FlowInv, Spares

\* The server is left alone.
LEMMA QuietServer ==
  ASSUME FlowInv, UNCHANGED server
  PROVE  /\ ServerTyping' /\ (~row' => count' = 0 /\ current' = {})
         /\ resetting = "no" => stale' = {}
         /\ current' \cap stale' = {}
         /\ UNCHANGED <<row, last, count, current, stale, locked, entries>>
  BY Parameters DEF FlowInv, TypeOK, server, ServerTyping

LEMMA TakePlaceMoves ==
  ASSUME FlowInv, NEW c \in Clients, TakePlace(c), UNCHANGED config
  PROVE  /\ Moved(c, "granted", 0, 0, budget[c])
         /\ HistoryTyping'
<1>1. Moved(c, "granted", 0, 0, budget[c])
  BY FlowFacts DEF TakePlace, Move, Moved
<1>2. Recent' = Recent
  BY DEF config, Recent, TokenBucket
<1>3. granted' \in [Recent -> Nat]
  BY DEF TakePlace, Record, FlowInv, TypeOK
<1> QED
  BY <1>1, <1>2, <1>3 DEF TakePlace, HistoryTyping, FlowInv, TypeOK

\* Where a client is that does not ask for a connection any more, and has no lock.
Resting == {"idle", "nap", "sleep", "operation", "granted"}

LEMMA RefuseMoves ==
  ASSUME FlowInv, NEW c \in Clients, NEW place \in {"nap", "sleep"}, NEW wait \in Nat,
         Refuse(c, place, wait), UNCHANGED config
  PROVE  /\ \E to \in {"idle", "nap", "sleep"}, ticks \in Nat, rest \in 0..Never :
              Moved(c, to, ticks, 0, rest)
         /\ HistoryTyping'
<1>1. HistoryTyping'
  BY DEF Refuse, history, HistoryTyping, config, Recent, TokenBucket, FlowInv, TypeOK
<1>2. AtMost(Poll, budget[c]) \in Nat /\ 0 \in Nat /\ 0 \in 0..Never
  <2>1. budget[c] \in 0..Never
    BY FlowFacts
  <2>2. budget[c] \in Nat /\ Poll \in Int /\ Poll \in Nat
    BY <2>1, Parameters
  <2>3. AtMost(Poll, budget[c]) \in Nat
    BY <2>2 DEF AtMost
  <2> QED
    BY <2>3, Parameters
<1>3. CASE budget[c] = Never /\ Move(c, place, wait) /\ read' = [read EXCEPT ![c] = 0]
           /\ UNCHANGED budget
  BY <1>1, <1>3, FlowFacts DEF Moved, Move
<1>4. CASE Idle(c)
  BY <1>1, <1>2, <1>4 DEF Moved, Move, Idle
<1>5. CASE Move(c, "sleep", AtMost(Poll, budget[c])) /\ read' = [read EXCEPT ![c] = 0]
           /\ UNCHANGED budget
  BY <1>1, <1>2, <1>5, FlowFacts DEF Moved, Move
<1> QED
  BY <1>1, <1>3, <1>4, <1>5 DEF Refuse

LEMMA QuietHistory ==
  ASSUME FlowInv, UNCHANGED <<config, history>>
  PROVE  HistoryTyping'
  BY DEF history, HistoryTyping, config, Recent, TokenBucket, FlowInv, TypeOK

\* A step of a client that takes no lock, changes no count that
\* is locked and makes nobody current.
LEMMA RestFlow ==
  ASSUME FlowInv, NEW c \in Clients, NEW place \in Resting, NEW ticks \in Nat,
         NEW rest \in 0..Never, Moved(c, place, ticks, 0, rest),
         UNCHANGED <<config, resetting>>, ServerTyping', HistoryTyping',
         ~row' => count' = 0 /\ current' = {},
         resetting = "no" => stale' = {},
         current' \cap stale' = {},
         c \notin current' \cup stale',
         current' \cup stale' \subseteq current \cup stale,
         locked' = IF locked = c THEN None ELSE locked,
         count' = count \/ locked \in {c, None}
  PROVE  FlowInv'
<1>1. /\ place \in Places /\ 0 \in 0..MaxConcurrent
      /\ place \notin Stamped \cup Transaction \cup {"update", "commit"}
  BY Parameters DEF Resting, Places, Stamped, Statements, Transaction
<1>2. Spares(c)
  BY Parameters DEF Spares
<1>3. locked' # c
  BY Parameters
<1>4. Arrives(c, place, ticks, 0)
  BY <1>1, <1>3 DEF Arrives
<1> QED
  BY <1>1, <1>2, <1>4, ClientFlow

LEMMA ReplyFlow ==
  ASSUME FlowInv, NEW c \in Clients, Reply(c)
  PROVE  FlowInv'
<1>1. pc[c] \notin {"update"} \cup Transaction /\ read[c] = 0 /\ locked # c
      /\ c \notin current \cup stale
  BY FlowFacts DEF Reply, Transaction, Fits
<1>2. Moved(c, "operation", 0, 0, 0)
  BY <1>1, FlowFacts DEF Reply, Move, Moved
<1>3. UNCHANGED <<config, resetting>> /\ ServerTyping' /\ HistoryTyping'
  BY QuietServer, QuietHistory DEF Reply
<1>4. /\ ~row' => count' = 0 /\ current' = {}
      /\ resetting = "no" => stale' = {}
      /\ current' \cap stale' = {}
      /\ UNCHANGED <<count, current, stale, locked>>
  BY QuietServer DEF Reply
<1>5. "operation" \in Resting /\ 0 \in Nat /\ 0 \in 0..Never
  BY Parameters DEF Resting
<1> QED
  BY <1>1, <1>2, <1>3, <1>4, <1>5, RestFlow
\* A step that leaves the server alone.
LEMMA QuietFlow ==
  ASSUME FlowInv, NEW c \in Clients, NEW place \in Places, NEW ticks \in Nat,
         NEW number \in 0..MaxConcurrent, NEW rest \in 0..Never,
         Moved(c, place, ticks, number, rest),
         Arrives(c, place, ticks, number),
         UNCHANGED <<config, server, resetting, history>>
  PROVE  FlowInv'
<1>1. ServerTyping' /\ HistoryTyping'
  BY QuietServer, QuietHistory
<1>2. /\ ~row' => count' = 0 /\ current' = {}
      /\ resetting = "no" => stale' = {}
      /\ current' \cap stale' = {}
      /\ UNCHANGED <<count, current, stale, locked>>
  BY QuietServer
<1>3. Spares(c)
  BY <1>2 DEF Spares
<1> QED
  BY <1>1, <1>2, <1>3, ClientFlow

\* A client that has read neither a count nor a version.
Unbound(c) == pc[c] \notin Transaction \cup {"update"}

LEMMA UnboundFacts ==
  ASSUME FlowInv, NEW c \in Clients, Unbound(c)
  PROVE  /\ read[c] = 0 /\ locked # c /\ c \notin current \cup stale
  BY FlowFacts DEF Unbound, Fits

LEMMA AskFlow ==
  ASSUME FlowInv, NEW c \in Clients, Unbound(c), NEW place \in Asking, Move(c, place, 0),
         NEW rest \in 0..Never, budget' = [budget EXCEPT ![c] = rest], read' = read,
         UNCHANGED <<config, server, resetting, history>>
  PROVE  FlowInv'
<1>1. read[c] = 0 /\ read = [read EXCEPT ![c] = read[c]]
  BY FlowFacts, UnboundFacts
<1>2. Moved(c, place, 0, 0, rest)
  BY <1>1 DEF Move, Moved
<1>3. locked' # c /\ c \notin current' \cup stale'
  BY UnboundFacts, QuietServer
<1>4. /\ place \in Places /\ place \notin Transaction \cup {"update", "commit"}
      /\ 0 <= MaxWait /\ 0 \in Nat /\ 0 \in 0..MaxConcurrent
  BY Parameters DEF Asking, Places, Transaction
<1>5. Arrives(c, place, 0, 0)
  BY <1>3, <1>4 DEF Arrives
<1> QED
  BY <1>2, <1>4, <1>5, QuietFlow

LEMMA CallFlow ==
  ASSUME FlowInv, NEW c \in Clients, NEW timeout \in 0..Never, Call(c, timeout)
  PROVE  FlowInv'
<1>1. Unbound(c) /\ "queue" \in Asking
  BY DEF Call, Unbound, Asking, Transaction
<1> QED
  BY <1>1, AskFlow DEF Call

LEMMA WakeFinishFlow ==
  ASSUME FlowInv, NEW c \in Clients, Wake(c) \/ Finish(c)
  PROVE  FlowInv'
<1>1. Unbound(c)
  BY DEF Wake, Finish, Unbound, Asking, Transaction
<1>2. "queue" \in Asking /\ "leaving" \in Asking
  BY DEF Asking
<1>3. budget[c] \in 0..Never /\ budget = [budget EXCEPT ![c] = budget[c]]
  BY FlowFacts
<1>4. \/ Move(c, "queue", 0)
      \/ Move(c, "leaving", 0)
  BY DEF Wake, Finish
<1>5. budget' = budget /\ read' = read /\ UNCHANGED <<config, server, resetting, history>>
  BY DEF Wake, Finish
<1> QED
  BY <1>1, <1>2, <1>3, <1>4, <1>5, AskFlow

LEMMA ConnectFlow ==
  ASSUME FlowInv, NEW c \in Clients, Connect(c)
  PROVE  FlowInv'
<1>1. Unbound(c) /\ UNCHANGED <<config, server, budget, read, resetting, history>>
  BY DEF Connect, Unbound, Transaction
<1>2. read[c] = 0 /\ locked' # c /\ c \notin current' \cup stale'
  BY <1>1, UnboundFacts, QuietServer
<1>3. /\ {"select", "release"} \subseteq Places /\ 0 \in Nat
      /\ 0 \in 0..MaxConcurrent /\ timer[c] \in Nat /\ budget[c] \in 0..Never
  BY FlowFacts, Parameters DEF Places
<1>4. PICK place \in {"select", "release"}, ticks \in Nat :
        Move(c, place, ticks) /\ (place = "select" => ticks <= MaxWait)
  <2>1. CASE pc[c] = "queue" /\ Move(c, "select", timer[c])
    <3>1. timer[c] <= MaxWait
      BY <2>1, FlowFacts DEF Fits, Stamped
    <3> QED
      BY <1>3, <2>1, <3>1
  <2>2. CASE pc[c] = "leaving" /\ Move(c, "release", 0)
    BY <1>3, <2>2
  <2> QED
    BY <2>1, <2>2 DEF Connect
<1>5. Moved(c, place, ticks, 0, budget[c])
  BY <1>1, <1>2, <1>4, FlowFacts DEF Moved, Move
<1>6. /\ place \notin Transaction \cup {"update", "commit"}
      /\ place \in Stamped => place = "select"
  BY DEF Transaction, Stamped, Statements
<1>7. Arrives(c, place, ticks, 0)
  BY <1>2, <1>4, <1>6 DEF Arrives
<1> QED
  BY <1>1, <1>3, <1>5, <1>7, QuietFlow

\* A step within a transaction, which counts nothing yet.
LEMMA TransactionFlow ==
  ASSUME FlowInv, NEW c \in Clients, pc[c] \in Statements, c \notin current \cup stale,
         NEW place \in Transaction, Moved(c, place, timer[c], count, budget[c]),
         SlidingWindow, place = "commit" => count < MaxConcurrent,
         locked \in {None, c}, locked' = c,
         UNCHANGED <<config, row, last, count, current, stale, entries, resetting, history>>
  PROVE  FlowInv'
<1>1. pc[c] \in Stamped
  BY DEF Statements, Stamped
<1>2. /\ timer[c] \in Nat /\ timer[c] <= MaxWait /\ budget[c] \in 0..Never
      /\ count \in 0..MaxConcurrent
  BY <1>1, FlowFacts DEF Fits, TypeOK
<1>3. place \in Places /\ place # "update"
  BY DEF Places, Transaction
<1>4. Spares(c)
  <2>1. \A d \in Clients \ {c} : (locked' = d <=> locked = d)
    BY Parameters
  <2> QED
    BY <1>1, <2>1 DEF Spares
<1>5. Arrives(c, place, timer[c], count)
  BY <1>2, <1>3 DEF Arrives
<1>6. HistoryTyping' /\ ServerTyping'
  BY QuietHistory DEF ServerTyping, FlowInv, TypeOK
<1>7. /\ ~row' => count' = 0 /\ current' = {}
      /\ resetting = "no" => stale' = {}
      /\ current' \cap stale' = {}
  BY DEF FlowInv
<1> QED
  BY <1>2, <1>3, <1>4, <1>5, <1>6, <1>7, ClientFlow

\* The row was not found: it is inserted next.
LEMMA InsertNext ==
  ASSUME FlowInv, NEW c \in Clients, pc[c] = "select", pc' = [pc EXCEPT ![c] = "insert"],
         UNCHANGED <<config, server, timer, budget, read, resetting, history>>
  PROVE  FlowInv'
<1>1. /\ pc[c] \in Statements /\ pc[c] \in Stamped /\ Unbound(c)
      /\ "insert" \in Places /\ "insert" \notin Transaction \cup {"update", "commit"}
  BY DEF Statements, Stamped, Unbound, Transaction, Places
<1>2. read[c] = 0 /\ locked # c /\ c \notin current \cup stale
  BY <1>1, UnboundFacts
<1>3. /\ timer[c] \in Nat /\ budget[c] \in 0..Never /\ 0 \in 0..MaxConcurrent
      /\ timer[c] <= MaxWait
  <2>1. timer[c] \in Nat /\ budget[c] \in 0..Never /\ Fits(c)
    BY FlowFacts
  <2>2. timer[c] <= MaxWait
    BY <1>1, <2>1 DEF Fits
  <2>3. 0 \in 0..MaxConcurrent
    BY Parameters
  <2> QED
    BY <2>1, <2>2, <2>3
<1>4. Moved(c, "insert", timer[c], 0, budget[c])
  BY <1>2, FlowFacts DEF Moved
<1>5. locked' # c /\ c \notin current' \cup stale'
  BY <1>2, QuietServer
<1>6. Arrives(c, "insert", timer[c], 0)
  BY <1>1, <1>3, <1>5 DEF Arrives
<1> QED
  BY <1>1, <1>3, <1>4, <1>6, QuietFlow

LEMMA SelectFlow ==
  ASSUME FlowInv, NEW c \in Clients, SelectRow(c)
  PROVE  FlowInv'
<1>1. /\ pc[c] = "select" /\ pc[c] \in Statements /\ Unbound(c)
  BY DEF SelectRow, Statements, Unbound, Transaction
<1>2. read[c] = 0 /\ locked # c /\ c \notin current \cup stale
  BY <1>1, UnboundFacts
<1>3. /\ UNCHANGED <<config, resetting, row, last, count, stale, locked, entries>>
      /\ TokenBucket
  BY DEF SelectRow
<1>4. CASE ~row /\ pc' = [pc EXCEPT ![c] = "insert"]
           /\ UNCHANGED <<current, timer, budget, read, history>>
  BY <1>1, <1>3, <1>4, InsertNext DEF server
<1>5. CASE /\ row /\ count < MaxConcurrent /\ pc' = [pc EXCEPT ![c] = "update"]
           /\ read' = [read EXCEPT ![c] = count] /\ current' = current \cup {c}
           /\ UNCHANGED <<timer, budget, history>>
  <2>1. Moved(c, "update", timer[c], count, budget[c])
    BY <1>5, FlowFacts DEF Moved
  <2>2. ServerTyping' /\ HistoryTyping'
    BY <1>3, <1>5, QuietHistory DEF ServerTyping, FlowInv, TypeOK
  <2>3. /\ timer[c] \in Nat /\ timer[c] <= MaxWait /\ budget[c] \in 0..Never
        /\ count \in 0..MaxConcurrent
    BY <1>1, FlowFacts DEF Fits, TypeOK, Statements, Stamped
  <2>4. /\ "update" \in Places /\ "update" \notin Transaction
    BY DEF Places, Transaction
  <2>5. Spares(c)
    BY <1>1, <1>3, <1>5 DEF Spares
  <2>6. locked' # c /\ count < MaxConcurrent
    BY <1>1, <1>2, <1>3, <1>5
  <2>7. Arrives(c, "update", timer[c], count)
    BY <1>3, <2>3, <2>4, <2>6 DEF Arrives
  <2>8. /\ ~row' => count' = 0 /\ current' = {}
        /\ resetting = "no" => stale' = {}
        /\ current' \cap stale' = {}
    BY <1>2, <1>3, <1>5 DEF FlowInv
  <2> QED
    BY <1>3, <2>1, <2>2, <2>3, <2>4, <2>5, <2>7, <2>8, ClientFlow
<1>6. ASSUME NEW wait \in Nat, Refuse(c, "nap", wait), UNCHANGED current PROVE FlowInv'
  <2>1. PICK to \in {"idle", "nap", "sleep"}, ticks \in Nat, rest \in 0..Never :
          Moved(c, to, ticks, 0, rest)
    BY <1>3, <1>6, RefuseMoves
  <2>2. HistoryTyping'
    BY <1>3, <1>6, RefuseMoves
  <2>3. /\ ServerTyping' /\ (~row' => count' = 0 /\ current' = {})
        /\ (resetting = "no" => stale' = {}) /\ current' \cap stale' = {}
    BY <1>3, <1>6 DEF ServerTyping, FlowInv, TypeOK
  <2>4. to \in Resting
    BY DEF Resting
  <2> QED
    BY <1>1, <1>2, <1>3, <1>6, <2>1, <2>2, <2>3, <2>4, RestFlow
<1>7. AtLeast(Period + timer[c] - last, Poll) \in Nat /\ Poll \in Nat
  <2>1. timer[c] \in Nat /\ last \in Nat
    BY FlowFacts, Parameters DEF TypeOK
  <2> QED
    BY <2>1, Parameters DEF AtLeast
<1> QED
  BY <1>4, <1>5, <1>6, <1>7 DEF SelectRow

\* The token bucket locks nothing for longer than a statement.
LEMMA Unlocked ==
  ASSUME FlowInv, TokenBucket
  PROVE  locked = None
<1>1. ~SlidingWindow
  BY DEF TokenBucket, SlidingWindow
<1>2. \A d \in Clients : locked # d
  BY <1>1 DEF FlowInv, Fits
<1> QED
  BY <1>2 DEF FlowInv, TypeOK

\* The next version of a row is current for nobody who did not read it.
LEMMA VersionFlow ==
  ASSUME FlowInv, NewVersion
  PROVE  /\ current' \in SUBSET stale /\ stale' \in SUBSET stale
         /\ current' \cap stale' = {} /\ current \cap (current' \cup stale') = {}
         /\ current' \in SUBSET Clients /\ stale' \in SUBSET Clients
         /\ resetting = "no" => current' = {} /\ stale' = {}
  BY DEF NewVersion, FlowInv, TypeOK


LEMMA UpdateFlow ==
  ASSUME FlowInv, NEW c \in Clients, UpdateRow(c)
  PROVE  FlowInv'
<1>1. /\ pc[c] = "update" /\ pc[c] \in Stamped /\ pc[c] \notin Transaction
      /\ UNCHANGED <<config, row, locked, entries, resetting>>
  BY DEF UpdateRow, Statements, Stamped, Transaction
<1>2. /\ read[c] \in Nat /\ read[c] < MaxConcurrent /\ TokenBucket
      /\ timer[c] \in Nat /\ timer[c] <= MaxWait /\ budget[c] \in 0..Never
  <2>1. /\ read[c] \in 0..MaxConcurrent /\ timer[c] \in Nat /\ budget[c] \in 0..Never /\ Fits(c)
    BY FlowFacts
  <2> QED
    BY <1>1, <2>1, Parameters DEF Fits
<1>3. locked = None
  BY <1>2, Unlocked
<1>4. CASE /\ c \in current /\ last' = timer[c] /\ count' = read[c] + 1
           /\ NewVersion /\ TakePlace(c)
  <2>1. /\ Moved(c, "granted", 0, 0, budget[c]) /\ HistoryTyping'
    BY <1>1, <1>4, TakePlaceMoves
  <2>2. row
    BY <1>4 DEF FlowInv
  <2>3. ServerTyping'
    <3>1. last' \in 0..Old /\ count' \in 0..MaxConcurrent
      BY <1>2, <1>4, Parameters
    <3> QED
      BY <1>1, <1>4, <3>1, VersionFlow DEF ServerTyping, FlowInv, TypeOK
  <2>4. c \notin current' \cup stale' /\ current' \cup stale' \subseteq current \cup stale
    BY <1>4, VersionFlow
  <2>5. /\ resetting = "no" => stale' = {}
        /\ current' \cap stale' = {}
    BY <1>4, VersionFlow
  <2>6. "granted" \in Resting /\ 0 \in Nat /\ locked' = None /\ row'
    BY <1>1, <1>3, <2>2 DEF Resting
  <2> QED
    BY <1>1, <1>2, <1>3, <2>1, <2>3, <2>4, <2>5, <2>6, RestFlow
<1>5. CASE /\ c \notin current /\ stale' = stale \ {c} /\ Refuse(c, "nap", 0)
           /\ UNCHANGED <<last, count, current>>
  <2>1. PICK to \in {"idle", "nap", "sleep"}, ticks \in Nat, rest \in 0..Never :
          Moved(c, to, ticks, 0, rest)
    BY <1>1, <1>5, RefuseMoves
  <2>2. HistoryTyping'
    BY <1>1, <1>5, RefuseMoves
  <2>3. /\ ServerTyping' /\ (~row' => count' = 0 /\ current' = {})
        /\ (resetting = "no" => stale' = {}) /\ current' \cap stale' = {}
        /\ c \notin current' \cup stale' /\ current' \cup stale' \subseteq current \cup stale
    BY <1>1, <1>5 DEF ServerTyping, FlowInv, TypeOK
  <2>4. to \in Resting
    BY DEF Resting
  <2> QED
    BY <1>1, <1>3, <1>5, <2>1, <2>2, <2>3, <2>4, RestFlow
<1> QED
  BY <1>4, <1>5 DEF UpdateRow

LEMMA RecordTyped ==
  ASSUME NEW f \in [0..Expired -> Nat], NEW a \in 0..Expired
  PROVE  /\ Record(f, a) \in [0..Expired -> Nat]
         /\ Record(f, a)[a] = f[a] + 1 /\ \A b \in (0..Expired) \ {a} : Record(f, a)[b] = f[b]
  BY DEF Record

LEMMA PruneTyped ==
  ASSUME NEW f \in [0..Expired -> Nat], NEW age \in Nat
  PROVE  /\ Prune(f, age) \in [0..Expired -> Nat]
         /\ \A a \in 0..Expired : Prune(f, age)[a] <= f[a]
         /\ \A a \in 0..Expired : a <= Window + age => Prune(f, age)[a] = f[a]
         /\ \A a \in 0..Expired : a > Window + age => Prune(f, age)[a] = 0
  BY Parameters DEF Prune

LEMMA WaitIsNatural ==
  ASSUME NEW f \in [0..Expired -> Nat]
  PROVE  WaitTime(f) \in Nat
<1> DEFINE found == {a \in 0..Expired : f[a] > 0}
<1>1. CASE found = {}
  BY <1>1, Parameters DEF WaitTime
<1>2. CASE found # {}
  <2>1. found \in SUBSET (0..Expired) /\ Expired \in Nat
    BY Parameters
  <2> HIDE DEF found
  <2>2. \E a \in found : \A b \in found : b <= a
    BY <1>2, <2>1, GreatestNatural
  <2> DEFINE oldest == CHOOSE a \in found : \A b \in found : b <= a
  <2>3. oldest \in found
    BY <2>2
  <2>4. WaitTime(f) = AtLeast(Window - oldest, Poll)
    BY <1>2 DEF WaitTime, found
  <2>5. Window - oldest \in Int
    <3>1. oldest \in 0..Expired
      BY <2>1, <2>3
    <3> HIDE DEF oldest
    <3> QED
      BY <3>1, Parameters
  <2> HIDE DEF oldest
  <2> QED
    BY <2>4, <2>5, Parameters DEF AtLeast
<1> QED
  BY <1>1, <1>2

LEMMA InsertFlow ==
  ASSUME FlowInv, NEW c \in Clients, InsertRow(c)
  PROVE  FlowInv'
<1>1. /\ pc[c] = "insert" /\ pc[c] \in Statements /\ pc[c] \in Stamped /\ Unbound(c)
      /\ UNCHANGED <<config, resetting>>
  BY DEF InsertRow, Statements, Stamped, Unbound, Transaction
<1>2. read[c] = 0 /\ locked # c /\ c \notin current \cup stale
  BY <1>1, UnboundFacts
<1>3. /\ timer[c] \in Nat /\ timer[c] <= MaxWait /\ budget[c] \in 0..Never
      /\ budget = [budget EXCEPT ![c] = budget[c]] /\ timer = [timer EXCEPT ![c] = timer[c]]
      /\ read = [read EXCEPT ![c] = 0]
  BY <1>1, <1>2, FlowFacts DEF Fits
<1>4. CASE locked = None /\ InsertFirst(c)
  <2>1. /\ row' = TRUE /\ last' = timer[c] /\ count' = 1 /\ NewVersion /\ TakePlace(c)
        /\ UNCHANGED <<locked, entries>>
    BY <1>4 DEF InsertFirst
  <2>2. /\ Moved(c, "granted", 0, 0, budget[c]) /\ HistoryTyping'
    BY <1>1, <2>1, TakePlaceMoves
  <2>3. ServerTyping'
    <3>1. last' \in 0..Old /\ count' \in 0..MaxConcurrent
      BY <1>3, <2>1, Parameters
    <3> QED
      BY <2>1, <3>1, VersionFlow DEF ServerTyping, FlowInv, TypeOK
  <2>4. /\ c \notin current' \cup stale' /\ current' \cup stale' \subseteq current \cup stale
        /\ resetting = "no" => stale' = {}
        /\ current' \cap stale' = {}
    BY <1>2, <2>1, VersionFlow
  <2>5. "granted" \in Resting /\ 0 \in Nat
    BY DEF Resting
  <2> QED
    BY <1>1, <1>3, <1>4, <2>1, <2>2, <2>3, <2>4, <2>5, RestFlow
<1>5. CASE locked = None /\ SlidingWindow /\ InsertAndLock(c)
  <2>1. /\ ~row /\ count = 0 /\ locked' = c
        /\ UNCHANGED <<row, last, count, current, stale, entries, timer, budget, read, history>>
        /\ pc' = [pc EXCEPT ![c] = "count"]
    BY <1>5 DEF InsertAndLock, FlowInv
  <2>2. Moved(c, "count", timer[c], count, budget[c])
    BY <1>3, <2>1 DEF Moved
  <2>3. "count" \in Transaction
    BY DEF Transaction
  <2> QED
    BY <1>1, <1>2, <1>5, <2>1, <2>2, <2>3, TransactionFlow
<1>6. CASE Move(c, "queue", 0) /\ UNCHANGED <<server, budget, read, history>>
  <2>1. "queue" \in Asking
    BY DEF Asking
  <2> QED
    BY <1>1, <1>3, <1>6, <2>1, AskFlow
<1> QED
  BY <1>4, <1>5, <1>6 DEF InsertRow

LEMMA LockFlow ==
  ASSUME FlowInv, NEW c \in Clients, LockRow(c)
  PROVE  FlowInv'
<1>1. /\ pc[c] = "select" /\ pc[c] \in Statements /\ Unbound(c) /\ SlidingWindow
      /\ UNCHANGED <<config, row, last, count, current, stale, entries, timer, budget,
                     resetting, history>>
  BY DEF LockRow, Statements, Unbound, Transaction
<1>2. CASE pc' = [pc EXCEPT ![c] = "insert"] /\ UNCHANGED <<locked, read>>
  BY <1>1, <1>2, InsertNext DEF server
<1>3. CASE /\ locked = None /\ pc' = [pc EXCEPT ![c] = "count"] /\ locked' = c
           /\ read' = [read EXCEPT ![c] = count]
  <2>1. Moved(c, "count", timer[c], count, budget[c])
    BY <1>1, <1>3, FlowFacts DEF Moved
  <2>2. "count" \in Transaction
    BY DEF Transaction
  <2>3. c \notin current \cup stale
    BY <1>1, UnboundFacts
  <2> QED
    BY <1>1, <1>3, <2>1, <2>2, <2>3, TransactionFlow
<1> QED
  BY <1>2, <1>3 DEF LockRow

\* The client that has the row locked.
LEMMA LockedFacts ==
  ASSUME FlowInv, NEW c \in Clients, pc[c] \in Transaction
  PROVE  /\ locked = c /\ SlidingWindow /\ read[c] = count /\ c \notin current \cup stale
         /\ timer[c] \in Nat /\ timer[c] <= MaxWait /\ pc[c] \in Statements
         /\ pc[c] \in Stamped
<1>1. pc[c] \in Statements /\ pc[c] \in Stamped /\ pc[c] # "update"
  BY DEF Transaction, Statements, Stamped
<1> QED
  BY <1>1, FlowFacts DEF Fits

LEMMA CountFlow ==
  ASSUME FlowInv, NEW c \in Clients, CountEntries(c)
  PROVE  FlowInv'
<1>1. /\ pc[c] = "count" /\ pc[c] \in Transaction
      /\ UNCHANGED <<config, server, timer, budget, read, resetting, history>>
  BY DEF CountEntries, Transaction
<1>2. \E place \in {"commit", "nothing"} :
        pc' = [pc EXCEPT ![c] = place] /\ (place = "commit" => read[c] < MaxConcurrent)
  BY DEF CountEntries
<1>3. PICK place \in {"commit", "nothing"} :
        pc' = [pc EXCEPT ![c] = place] /\ (place = "commit" => read[c] < MaxConcurrent)
  BY <1>2
<1>4. place \in Transaction
  BY DEF Transaction
<1>5. /\ locked = c /\ SlidingWindow /\ read[c] = count /\ c \notin current \cup stale
      /\ pc[c] \in Statements
  BY <1>1, LockedFacts
<1>6. Moved(c, place, timer[c], count, budget[c])
  BY <1>1, <1>3, <1>5, FlowFacts DEF Moved
<1>7. UNCHANGED <<row, last, count, current, stale, locked, entries>>
  BY <1>1, QuietServer
<1> QED
  BY <1>1, <1>3, <1>4, <1>5, <1>6, <1>7, TransactionFlow

LEMMA CommitFlow ==
  ASSUME FlowInv, NEW c \in Clients, Commit(c)
  PROVE  FlowInv'
<1>1. /\ pc[c] \in Transaction /\ locked' = None /\ row' = TRUE
      /\ UNCHANGED <<config, last, current, stale, resetting>>
  BY DEF Commit, Transaction
<1>2. /\ locked = c /\ read[c] = count /\ c \notin current \cup stale
      /\ timer[c] \in 0..Expired /\ timer[c] \in Nat
      /\ pc[c] = "commit" => count < MaxConcurrent
  <2>1. /\ timer[c] \in Nat /\ timer[c] <= MaxWait
        /\ locked = c /\ read[c] = count /\ c \notin current \cup stale
    BY <1>1, LockedFacts
  <2>2. pc[c] = "commit" => count < MaxConcurrent
    BY <2>1, FlowFacts DEF Fits
  <2> QED
    BY <2>1, <2>2, Parameters
<1>3. /\ Prune(entries, timer[c]) \in [0..Expired -> Nat]
      /\ Record(Prune(entries, timer[c]), timer[c]) \in [0..Expired -> Nat]
  <2>1. entries \in [0..Expired -> Nat]
    BY DEF FlowInv, TypeOK
  <2> QED
    BY <1>2, <2>1, PruneTyped, RecordTyped
<1>4. resetting = "no" => stale' = {}
  BY <1>1 DEF FlowInv
<1>5. current' \cap stale' = {} /\ c \notin current' \cup stale'
      /\ current' \cup stale' \subseteq current \cup stale
  BY <1>1, <1>2 DEF FlowInv
<1>6. CASE /\ pc[c] = "commit" /\ TakePlace(c) /\ count' = count + 1
           /\ entries' = Record(Prune(entries, timer[c]), timer[c])
  <2>1. /\ Moved(c, "granted", 0, 0, budget[c]) /\ HistoryTyping'
    BY <1>1, <1>6, TakePlaceMoves
  <2>2. ServerTyping'
    <3>1. count' \in 0..MaxConcurrent
      BY <1>2, <1>6, Parameters DEF FlowInv, TypeOK
    <3> QED
      BY <1>1, <1>3, <1>6, <3>1 DEF ServerTyping, FlowInv, TypeOK
  <2>3. "granted" \in Resting /\ 0 \in Nat /\ budget[c] \in 0..Never
    BY FlowFacts DEF Resting
  <2> QED
    BY <1>1, <1>2, <1>4, <1>5, <2>1, <2>2, <2>3, RestFlow
<1>7. CASE /\ pc[c] = "nothing" /\ Refuse(c, "sleep", WaitTime(Prune(entries, timer[c])))
           /\ entries' = Prune(entries, timer[c]) /\ UNCHANGED count
  <2>1. WaitTime(Prune(entries, timer[c])) \in Nat
    BY <1>3, WaitIsNatural
  <2>2. PICK to \in {"idle", "nap", "sleep"}, ticks \in Nat, rest \in 0..Never :
          Moved(c, to, ticks, 0, rest)
    BY <1>1, <1>7, <2>1, RefuseMoves
  <2>3. HistoryTyping'
    BY <1>1, <1>7, <2>1, RefuseMoves
  <2>4. ServerTyping'
    BY <1>1, <1>3, <1>7 DEF ServerTyping, FlowInv, TypeOK
  <2>5. to \in Resting
    BY DEF Resting
  <2> QED
    BY <1>1, <1>2, <1>4, <1>5, <1>7, <2>2, <2>3, <2>4, <2>5, RestFlow
<1> QED
  BY <1>6, <1>7 DEF Commit

LEMMA ReleaseFlow ==
  ASSUME FlowInv, NEW c \in Clients, ReleaseRow(c)
  PROVE  FlowInv'
<1>1. /\ pc[c] = "release" /\ Unbound(c) /\ Idle(c) /\ count' = Down(count)
      /\ row => locked = None
      /\ UNCHANGED <<config, row, last, locked, entries, resetting, granted>>
      /\ IF row THEN NewVersion ELSE UNCHANGED <<current, stale>>
  BY DEF ReleaseRow, Unbound, Transaction
<1>2. c \notin current \cup stale /\ locked # c
  BY <1>1, UnboundFacts
<1>3. Moved(c, "idle", 0, 0, 0) /\ "idle" \in Resting /\ 0 \in Nat /\ 0 \in 0..Never
  BY <1>1, Parameters DEF Idle, Move, Moved, Resting
<1>4. /\ current' \cup stale' \subseteq current \cup stale /\ current' \cap stale' = {}
      /\ current' \in SUBSET Clients /\ stale' \in SUBSET Clients
      /\ resetting = "no" => stale' = {}
      /\ ~row' => current' = {}
  <2>1. CASE row
    BY <1>1, <2>1, VersionFlow
  <2>2. CASE ~row
    BY <1>1, <2>2 DEF FlowInv, TypeOK
  <2> QED
    BY <2>1, <2>2
<1>5. count' \in 0..MaxConcurrent /\ (~row' => count' = 0)
  BY <1>1, Parameters DEF Down, FlowInv, TypeOK
<1>6. ServerTyping'
  BY <1>1, <1>4, <1>5 DEF ServerTyping, FlowInv, TypeOK
<1>7. HistoryTyping'
  <2>1. leaked' \in Nat /\ owners' \in SUBSET Clients
    BY DEF ReleaseRow, Down, FlowInv, TypeOK
  <2> QED
    BY <1>1, <2>1 DEF HistoryTyping, FlowInv, TypeOK, config, Recent, TokenBucket
<1>8. locked' = (IF locked = c THEN None ELSE locked) /\ (count' = count \/ locked \in {c, None})
  BY <1>1, <1>2 DEF Down, FlowInv
<1> QED
  BY <1>1, <1>2, <1>3, <1>4, <1>5, <1>6, <1>7, <1>8, RestFlow

\* A client that leaves takes its lock and its version with it.
LEMMA LeaveFlow ==
  ASSUME FlowInv, NEW c \in Clients, NEW place \in {"idle", "operation"},
         Moved(c, place, 0, 0, 0), Leave(c), UNCHANGED <<config, resetting>>, HistoryTyping'
  PROVE  FlowInv'
<1>1. /\ locked' = (IF locked = c THEN None ELSE locked)
      /\ current' = current \ {c} /\ stale' = stale \ {c}
      /\ UNCHANGED <<row, last, count, entries>>
  BY DEF Leave
<1>2. /\ place \in Places /\ place \notin Stamped \cup Transaction \cup {"update", "commit"}
      /\ 0 \in Nat /\ 0 \in 0..Never /\ 0 \in 0..MaxConcurrent
  BY Parameters DEF Places, Stamped, Statements, Transaction
<1>3. ServerTyping'
  BY <1>1 DEF ServerTyping, FlowInv, TypeOK
<1>4. Spares(c)
  BY <1>1, Parameters DEF Spares
<1>5. locked' # c
  BY <1>1, Parameters
<1>6. Arrives(c, place, 0, 0)
  BY <1>1, <1>2, <1>5 DEF Arrives
<1>7. /\ ~row' => count' = 0 /\ current' = {}
      /\ resetting = "no" => stale' = {}
      /\ current' \cap stale' = {}
  BY <1>1 DEF FlowInv
<1> QED
  BY <1>2, <1>3, <1>4, <1>6, <1>7, ClientFlow

LEMMA FailOpenFlow ==
  ASSUME FlowInv, NEW c \in Clients, FailOpen(c)
  PROVE  FlowInv'
<1>1. Moved(c, "operation", 0, 0, 0)
  BY DEF FailOpen, Move, Moved
<1>2. HistoryTyping'
  BY QuietHistory DEF FailOpen
<1> QED
  BY <1>1, <1>2, LeaveFlow DEF FailOpen

LEMMA GiveUpFlow ==
  ASSUME FlowInv, NEW c \in Clients, GiveUp(c)
  PROVE  FlowInv'
<1>1. Moved(c, "idle", 0, 0, 0)
  BY DEF GiveUp, Idle, Move, Moved
<1>2. HistoryTyping'
  <2>1. leaked' \in Nat /\ owners' \in SUBSET Clients
    BY DEF GiveUp, FlowInv, TypeOK
  <2> QED
    BY <2>1 DEF GiveUp, HistoryTyping, FlowInv, TypeOK, config, Recent, TokenBucket
<1> QED
  BY <1>1, <1>2, LeaveFlow DEF GiveUp

-----------------------------------------------------------------------------
(* Time and resets *)

\* What a tick does to the time and the budget of a client.
LEMMA TickClient ==
  ASSUME FlowInv, Tick, NEW c \in Clients
  PROVE  /\ pc'[c] = pc[c] /\ read'[c] = read[c]
         /\ pc[c] \in {"nap", "sleep"} => timer'[c] = Down(timer[c])
         /\ pc[c] \in {"idle", "operation", "leaving"} => timer'[c] = 0
         /\ pc[c] \notin {"idle", "operation", "leaving", "nap", "sleep"} => timer'[c] = timer[c] + 1
         /\ pc[c] \in Stamped => timer[c] < MaxWait
         /\ timer'[c] \in Nat /\ budget'[c] \in 0..Never
<1>1. timer[c] \in Nat /\ budget[c] \in 0..Never
  BY FlowFacts
<1>2. Down(timer[c]) \in Nat /\ Down(budget[c]) \in 0..Never
  BY <1>1, Parameters DEF Down
<1>3. pc[c] \in Stamped => timer[c] < MaxWait
  <2>1. CASE pc[c] = "queue"
    BY <2>1 DEF Tick, At
  <2>2. CASE pc[c] \in Statements
    <3>1. pc[c] \in Connected \ {"nap"}
      BY <2>2 DEF Statements, Connected
    <3>2. timer[c] < MaxDelay
      BY <3>1 DEF Tick, At
    <3> QED
      BY <1>1, <3>2, Parameters
  <2> QED
    BY <2>1, <2>2 DEF Stamped
<1> QED
  BY <1>1, <1>2, <1>3 DEF Tick

LEMMA AgedTyped ==
  ASSUME NEW f \in [0..Expired -> Nat]
  PROVE  /\ Aged(f) \in [0..Expired -> Nat]
         /\ Aged(f)[0] = 0
         /\ \A a \in 0..Expired : a # 0 /\ a # Expired => a - 1 \in 0..Expired /\ Aged(f)[a] = f[a-1]
<1>1. \A a \in 0..Expired : a # 0 => a - 1 \in 0..Expired
  BY Parameters
<1> QED
  BY <1>1, Parameters DEF Aged

LEMMA TickFlow ==
  ASSUME FlowInv, Tick
  PROVE  FlowInv'
<1>1. UNCHANGED <<config, row, count, current, stale, locked, pc, read, resetting, owners, leaked>>
  BY DEF Tick
<1>2. \A c \in Clients : timer'[c] \in Nat /\ budget'[c] \in 0..Never
  BY TickClient
<1>3. timer' \in [Clients -> Nat] /\ budget' \in [Clients -> 0..Never]
  <2>1. timer' = [c \in Clients |-> timer'[c]] /\ budget' = [c \in Clients |-> budget'[c]]
    BY DEF Tick
  <2> QED
    BY <1>2, <2>1
<1>4. last' \in 0..Old
  BY Parameters DEF Tick, AtMost, FlowInv, TypeOK
<1>5. entries' \in [0..Expired -> Nat]
  BY AgedTyped DEF Tick, FlowInv, TypeOK
<1>6. granted' \in [Recent -> Nat] /\ Recent' = Recent
  <2>1. Recent' = Recent
    BY <1>1 DEF config, Recent, TokenBucket
  <2>2. \A a \in Recent : a # 0 => a - 1 \in Recent
    BY Parameters DEF Recent
  <2>3. granted \in [Recent -> Nat]
    BY DEF FlowInv, TypeOK
  <2> QED
    BY <2>1, <2>2, <2>3 DEF Tick
<1>7. TypeOK'
  BY <1>1, <1>3, <1>4, <1>5, <1>6 DEF FlowInv, TypeOK, config
<1>8. ASSUME NEW c \in Clients PROVE Fits(c)'
  <2>1. pc'[c] \in Stamped => timer'[c] <= MaxWait
    <3>1. SUFFICES ASSUME pc[c] \in Stamped PROVE timer'[c] <= MaxWait
      BY TickClient
    <3>2. timer[c] \in Nat /\ timer[c] < MaxWait /\ timer'[c] = timer[c] + 1
      BY <3>1, TickClient, FlowFacts DEF Stamped, Statements
    <3> QED
      BY <3>2, Parameters
  <2>2. Fits(c)
    BY FlowFacts
  <2> QED
    BY <1>1, <2>1, <2>2 DEF Fits, config, TokenBucket, SlidingWindow
<1> QED
  BY <1>1, <1>7, <1>8 DEF FlowInv

LEMMA ResetFlow ==
  ASSUME FlowInv, ResetRow \/ ResetWindow
  PROVE  FlowInv'
<1>1. CASE ResetRow
  <2>1. /\ row => locked = None
        /\ resetting' = "half" /\ row' = FALSE /\ last' = Old /\ count' = 0
        /\ current' = {} /\ stale' = At({"update"}) /\ owners' = {} /\ leaked' = 0
        /\ UNCHANGED <<config, locked, entries, pc, timer, budget, read, granted>>
    BY <1>1 DEF ResetRow, local
  <2>2. TypeOK'
    <3>1. Recent' = Recent /\ stale' \in SUBSET Clients /\ last' \in 0..Old /\ 0 \in 0..MaxConcurrent
      BY <2>1, Parameters DEF At, config, Recent, TokenBucket
    <3> QED
      BY <2>1, <3>1 DEF FlowInv, TypeOK, config
  <2>3. ASSUME NEW c \in Clients PROVE Fits(c)'
    <3>1. Fits(c) /\ stale' \subseteq At({"update"})
      BY <2>1, FlowFacts
    <3>2. locked # c \/ count = 0
      BY <2>1, Parameters DEF FlowInv
    <3> QED
      BY <2>1, <3>1, <3>2 DEF Fits, config, TokenBucket, SlidingWindow, At
  <2> QED
    BY <2>1, <2>2, <2>3 DEF FlowInv
<1>2. CASE ResetWindow
  <2>1. /\ resetting' = "done" /\ resetting = "half" /\ entries' = Nothing
        /\ granted' = [a \in Recent |-> 0]
        /\ UNCHANGED <<config, row, last, count, current, stale, locked,
                       pc, timer, budget, read, owners, leaked>>
    BY <1>2 DEF ResetWindow, local
  <2>2. TypeOK'
    <3>1. entries' \in [0..Expired -> Nat] /\ granted' \in [Recent -> Nat] /\ Recent' = Recent
      BY <2>1, Parameters DEF Nothing, config, Recent, TokenBucket
    <3> QED
      BY <2>1, <3>1 DEF FlowInv, TypeOK, config
  <2>3. ASSUME NEW c \in Clients PROVE Fits(c)'
    BY <2>1, FlowFacts DEF Fits, config, TokenBucket, SlidingWindow
  <2> QED
    BY <2>1, <2>2, <2>3 DEF FlowInv
<1> QED
  BY <1>1, <1>2

LEMMA InitFlow ==
  ASSUME Init
  PROVE  FlowInv
<1>1. algorithm \in {"token_bucket", "sliding_window"}
  BY PostgresAssumption DEF Init, PostgresAssumption
<1>2. TypeOK
  <2>1. /\ pc \in [Clients -> Places] /\ timer \in [Clients -> Nat]
        /\ budget \in [Clients -> 0..Never] /\ read \in [Clients -> 0..MaxConcurrent]
    BY Parameters DEF Init, Places
  <2>2. entries \in [0..Expired -> Nat] /\ granted \in [Recent -> Nat]
    BY DEF Init, Nothing
  <2>3. last \in 0..Old /\ count \in 0..MaxConcurrent
    BY Parameters DEF Init
  <2> QED
    BY <1>1, <2>1, <2>2, <2>3 DEF Init, TypeOK
<1>3. \A c \in Clients : Fits(c)
  BY Parameters DEF Init, Fits, Stamped, Statements, Transaction
<1> QED
  BY <1>2, <1>3 DEF Init, FlowInv

LEMMA NextFlow ==
  ASSUME FlowInv, [Next]_vars
  PROVE  FlowInv'
<1>1. CASE UNCHANGED vars
  <2>1. UNCHANGED <<algorithm, failClosed, poolSize, row, last, count, current, stale, locked,
                    entries, pc, timer, budget, read, resetting, owners, leaked, granted>>
    BY <1>1 DEF vars, config, server, local, history
  <2>2. Recent' = Recent
    BY <2>1 DEF Recent, TokenBucket
  <2>3. TypeOK'
    BY <2>1, <2>2 DEF FlowInv, TypeOK
  <2>4. ASSUME NEW c \in Clients PROVE Fits(c)'
    BY <2>1, FlowFacts DEF Fits, TokenBucket, SlidingWindow
  <2> QED
    BY <2>1, <2>3, <2>4 DEF FlowInv
<1> QED
  BY <1>1, TickFlow, ResetFlow, CallFlow, ConnectFlow, SelectFlow, UpdateFlow, InsertFlow,
     ReleaseFlow, LockFlow, CountFlow, CommitFlow, ReplyFlow, WakeFinishFlow, FailOpenFlow,
     GiveUpFlow
     DEF Next, Step, Statement

LEMMA SpecFlow == Spec => []FlowInv
  BY InitFlow, NextFlow, PTL DEF Spec

\* Every variable keeps its type; in particular the row never counts more than
\* max_concurrent places, whatever fails and whenever the group is reset.
THEOREM TypeCorrect == Spec => []TypeOK
<1>1. FlowInv => TypeOK
  BY DEF FlowInv
<1> QED
  BY <1>1, SpecFlow, PTL

-----------------------------------------------------------------------------
(* Totals of entries *)

LEMMA Ranges ==
  /\ IsFiniteSet(0..Window) /\ IsFiniteSet(0..Expired) /\ IsFiniteSet(0..Expired-1)
  /\ 0..Window \subseteq 0..Expired-1 /\ 0..Expired-1 \subseteq 0..Expired
  /\ \A a \in 0..Expired : a \in Nat /\ a <= Expired
  /\ \A a \in Nat : a <= Window => a \in 0..Window
<1>1. 0 \in Int /\ Window \in Int /\ Expired \in Int /\ Expired - 1 \in Int
  BY Parameters
<1>2. IsFiniteSet(0..Window) /\ IsFiniteSet(0..Expired) /\ IsFiniteSet(0..Expired-1)
  BY <1>1, FS_Interval
<1> QED
  BY <1>2, Parameters

-----------------------------------------------------------------------------
(* The rate *)

\* Of the entries that some request may count there are at most limit; every grant
\* of the window is among them; and the client that is about to add one has left
\* out only those that are too old for the time it has read.
SlidingKept ==
  /\ Total(entries, 0..Expired-1) <= Limit
  /\ \A a \in 0..Window : granted[a] <= entries[a]
  /\ \A c \in At({"commit"}) : Total(Prune(entries, timer[c]), 0..Expired) < Limit

\* The row has the time of the last grant, and who has read its present version
\* has read the same time and count and found them ready.
BucketKept ==
  /\ \A a \in Recent : granted[a] > 0 => row /\ a >= last
  /\ \A c \in current : RateReady(c) /\ read[c] = count
  /\ Total(granted, Recent) <= 1

RateHeld ==
  /\ SlidingWindow => SlidingKept
  /\ TokenBucket /\ resetting = "no" => BucketKept

RateInv == FlowInv /\ RateHeld

LEMMA RecentFacts ==
  ASSUME FlowInv
  PROVE  /\ IsFiniteSet(Recent) /\ \A a \in Recent : a \in Nat /\ (a # 0 => a - 1 \in Recent)
         /\ granted \in [Recent -> Nat]
         /\ TokenBucket => \A a \in Recent : a < Required
         /\ TokenBucket /\ Required = 0 => Recent = {}
         /\ SlidingWindow => Recent = 0..Window
         /\ TokenBucket <=> ~SlidingWindow
<1>1. TokenBucket <=> ~SlidingWindow
  BY DEF FlowInv, TypeOK, TokenBucket, SlidingWindow
<1>2. IsFiniteSet(0..Required-1) /\ IsFiniteSet(0..Window)
  <2>1. 0 \in Int /\ Required - 1 \in Int
    BY Parameters
  <2> QED
    BY <2>1, Ranges, FS_Interval
<1>3. IsFiniteSet(Recent)
  BY <1>2 DEF Recent
<1>4. \A a \in Recent : a \in Nat /\ (a # 0 => a - 1 \in Recent)
  BY Parameters DEF Recent
<1>5. TokenBucket => (\A a \in Recent : a < Required) /\ (Required = 0 => Recent = {})
  BY Parameters DEF Recent
<1> QED
  BY <1>1, <1>3, <1>4, <1>5 DEF FlowInv, TypeOK, Recent

\* A step of a client moves no other.
LEMMA OneMoves ==
  ASSUME FlowInv, NEW c \in Clients, NEW d \in Clients \ {c},
         \/ Step(c) \/ FailOpen(c) \/ GiveUp(c)
         \/ \E timeout \in 0..Never : Call(c, timeout)
  PROVE  pc'[d] = pc[d] /\ timer'[d] = timer[d] /\ read'[d] = read[d]
<1>1. /\ \A x : pc' = [pc EXCEPT ![c] = x] => pc'[d] = pc[d]
      /\ \A x : timer' = [timer EXCEPT ![c] = x] => timer'[d] = timer[d]
      /\ \A x : read' = [read EXCEPT ![c] = x] => read'[d] = read[d]
  BY DEF FlowInv, TypeOK
<1>2. CASE \E timeout \in 0..Never : Call(c, timeout)
  BY <1>1, <1>2 DEF Call, Move
<1>3. CASE FailOpen(c) \/ GiveUp(c)
  BY <1>1, <1>3 DEF FailOpen, GiveUp, Idle, Move
<1>4. ASSUME NEW place, NEW wait, Refuse(c, place, wait)
      PROVE  pc'[d] = pc[d] /\ timer'[d] = timer[d] /\ read'[d] = read[d]
  BY <1>1, <1>4 DEF Refuse, Idle, Move
<1>5. TakePlace(c) => pc'[d] = pc[d] /\ timer'[d] = timer[d] /\ read'[d] = read[d]
  BY <1>1 DEF TakePlace, Move
<1>6. CASE SelectRow(c)
  BY <1>1, <1>4, <1>6 DEF SelectRow
<1>7. CASE UpdateRow(c)
  BY <1>4, <1>5, <1>7 DEF UpdateRow
<1>8. CASE InsertRow(c)
  BY <1>1, <1>5, <1>8 DEF InsertRow, InsertFirst, InsertAndLock, Move
<1>9. CASE LockRow(c) \/ CountEntries(c)
  BY <1>1, <1>9 DEF LockRow, CountEntries
<1>10. CASE Commit(c)
  BY <1>4, <1>5, <1>10 DEF Commit
<1>11. CASE ReleaseRow(c) \/ Reply(c) \/ Wake(c) \/ Finish(c) \/ Connect(c)
  BY <1>1, <1>11 DEF ReleaseRow, Reply, Wake, Finish, Connect, Idle, Move
<1> QED
  BY <1>2, <1>3, <1>6, <1>7, <1>8, <1>9, <1>10, <1>11 DEF Step, Statement

\* A step that writes neither the time of the last grant nor an entry.
LEMMA QuietRate ==
  ASSUME RateInv, NEW c \in Clients,
         \A d \in Clients \ {c} : pc'[d] = pc[d] /\ timer'[d] = timer[d] /\ read'[d] = read[d],
         pc'[c] # "commit",
         UNCHANGED <<config, row, last, entries, granted, resetting>>,
         current' \subseteq current \ {c},
         count' = count \/ current' = {}
  PROVE  RateHeld'
<1>1. /\ TokenBucket' = TokenBucket /\ SlidingWindow' = SlidingWindow /\ Recent' = Recent
      /\ current \subseteq Clients
  BY DEF RateInv, FlowInv, TypeOK, config, TokenBucket, SlidingWindow, Recent
<1>2. ASSUME SlidingKept PROVE SlidingKept'
  <2>1. \A d \in At({"commit"})' : d \in At({"commit"}) /\ timer'[d] = timer[d]
    BY DEF At
  <2> QED
    BY <1>2, <2>1 DEF SlidingKept
<1>3. ASSUME BucketKept PROVE BucketKept'
  <2>1. \A d \in current' : d \in current /\ timer'[d] = timer[d] /\ read'[d] = read[d]
    BY <1>1
  <2> QED
    BY <1>1, <1>3, <2>1 DEF BucketKept, RateReady
<1> QED
  BY <1>1, <1>2, <1>3 DEF RateInv, RateHeld

LEMMA EntryFacts ==
  ASSUME FlowInv, NEW n \in Nat
  PROVE  /\ entries \in [0..Expired -> Nat]
         /\ Prune(entries, n) \in [0..Expired -> Nat]
         /\ Total(entries, 0..Expired-1) \in Nat
         /\ Total(Prune(entries, n), 0..Expired) \in Nat
<1>1. entries \in [0..Expired -> Nat] /\ Prune(entries, n) \in [0..Expired -> Nat]
  BY PruneTyped DEF FlowInv, TypeOK
<1>2. /\ \A a \in 0..Expired-1 : entries[a] \in Nat
      /\ \A a \in 0..Expired : Prune(entries, n)[a] \in Nat
  BY <1>1, Ranges
<1> QED
  BY <1>1, <1>2, Ranges, TotalType

\* The only transaction that may add an entry adds one.
LEMMA CommitRate ==
  ASSUME RateInv, NEW c \in Clients, Commit(c)
  PROVE  RateHeld'
<1> DEFINE kept == Prune(entries, timer[c])
<1>1. FlowInv /\ pc[c] \in Transaction /\ (pc[c] = "commit" \/ pc[c] = "nothing")
  BY DEF RateInv, Commit, Transaction
<1>2. /\ SlidingWindow /\ ~TokenBucket /\ timer[c] \in Nat /\ timer[c] <= MaxWait /\ locked = c
  BY <1>1, LockedFacts, RecentFacts
<1>3. SlidingWindow' /\ ~TokenBucket'
  BY <1>2 DEF Commit, config, SlidingWindow, TokenBucket
<1>4. SlidingKept
  BY <1>2 DEF RateInv, RateHeld
<1>5. pc'[c] # "commit"
  BY <1>1 DEF Commit, TakePlace, Refuse, Idle, Move, FlowInv, TypeOK
<1>6. At({"commit"})' = {}
  <2>1. SUFFICES ASSUME NEW d \in Clients \ {c}, pc'[d] = "commit" PROVE FALSE
    BY <1>5 DEF At
  <2>2. pc[d] = "commit"
    BY <1>1, <2>1, OneMoves DEF Step, Statement
  <2>3. pc[d] \in Transaction
    BY <2>2 DEF Transaction
  <2> QED
    BY <1>1, <1>2, <2>1, <2>3, LockedFacts
<1>7. /\ entries \in [0..Expired -> Nat] /\ kept \in [0..Expired -> Nat]
      /\ Total(entries, 0..Expired-1) \in Nat /\ Total(kept, 0..Expired) \in Nat
  BY <1>1, <1>2, EntryFacts
<1>8. /\ \A a \in 0..Expired : kept[a] \in Nat /\ kept[a] <= entries[a] /\ entries[a] \in Nat
      /\ \A a \in 0..Window : kept[a] = entries[a]
  <2>1. \A a \in 0..Window : a \in 0..Expired /\ a <= Window + timer[c]
    BY <1>2, Parameters
  <2> QED
    BY <1>2, <1>7, <2>1, PruneTyped
<1>9. Recent = 0..Window /\ granted \in [0..Window -> Nat]
  BY <1>1, <1>2, RecentFacts
<1>10. timer[c] \in 0..Window /\ timer[c] \in 0..Expired /\ timer[c] \in 0..Expired-1
  BY <1>2, Parameters
<1> HIDE DEF kept
<1>11. CASE pc[c] = "commit" /\ TakePlace(c) /\ entries' = Record(kept, timer[c])
  <2>1. Total(kept, 0..Expired) < Limit
    BY <1>4, <1>11 DEF SlidingKept, At, kept
  <2>2. /\ entries' \in [0..Expired -> Nat] /\ entries'[timer[c]] = kept[timer[c]] + 1
        /\ \A a \in (0..Expired) \ {timer[c]} : entries'[a] = kept[a]
    BY <1>7, <1>10, <1>11, RecordTyped
  <2>3. Total(entries', 0..Expired) = Total(kept, 0..Expired) + 1
    BY <1>8, <1>10, <2>2, Ranges, TotalOneMore
  <2>4. Total(entries', 0..Expired-1) <= Total(entries', 0..Expired)
    <3>1. \A a \in 0..Expired : entries'[a] \in Nat
      BY <2>2
    <3>2. 0..Expired-1 \in SUBSET (0..Expired) /\ \A a \in 0..Expired-1 : entries'[a] \in Nat
      BY <3>1, Ranges
    <3>3. \A a \in 0..Expired-1 : entries'[a] <= entries'[a]
      BY <3>2
    <3> QED
      BY <3>1, <3>2, <3>3, Ranges, TotalMonotone
  <2>5. Total(entries', 0..Expired-1) <= Limit
    <3>1. \A a \in 0..Expired-1 : entries'[a] \in Nat
      BY <2>2, Ranges
    <3>2. Total(entries', 0..Expired-1) \in Nat
      BY <3>1, Ranges, TotalType
    <3> QED
      BY <1>7, <2>1, <2>3, <2>4, <3>2, Parameters
  <2>6. \A a \in 0..Window : granted'[a] <= entries'[a]
    <3>1. granted' = [granted EXCEPT ![timer[c]] = @ + 1]
      BY <1>9, <1>10, <1>11 DEF TakePlace, Record
    <3>2. /\ granted'[timer[c]] = granted[timer[c]] + 1
          /\ \A a \in (0..Window) \ {timer[c]} : granted'[a] = granted[a]
      BY <1>9, <1>10, <3>1
    <3>3. \A a \in 0..Window : granted[a] <= kept[a] /\ granted[a] \in Nat /\ kept[a] \in Nat
                               /\ a \in 0..Expired
      BY <1>4, <1>8, <1>9, Parameters DEF SlidingKept
    <3>4. granted'[timer[c]] <= entries'[timer[c]]
      BY <1>10, <2>2, <3>2, <3>3
    <3> QED
      BY <2>2, <3>2, <3>3, <3>4
  <2> QED
    BY <1>3, <1>6, <2>5, <2>6 DEF SlidingKept, RateHeld
<1>12. CASE pc[c] = "nothing" /\ (\E wait : Refuse(c, "sleep", wait)) /\ entries' = kept
  <2>1. Total(kept, 0..Expired-1) <= Total(entries, 0..Expired-1)
    <3>1. \A a \in 0..Expired-1 : kept[a] \in Nat /\ entries[a] \in Nat /\ kept[a] <= entries[a]
      BY <1>8, Ranges
    <3>2. 0..Expired-1 \in SUBSET (0..Expired-1)
      OBVIOUS
    <3> QED
      BY <3>1, <3>2, Ranges, TotalMonotone
  <2>2. Total(kept, 0..Expired-1) \in Nat
    <3>1. \A a \in 0..Expired-1 : kept[a] \in Nat
      BY <1>8, Ranges
    <3> QED
      BY <3>1, Ranges, TotalType
  <2>3. Total(entries', 0..Expired-1) <= Limit
    BY <1>4, <1>7, <1>12, <2>1, <2>2, Parameters DEF SlidingKept
  <2>4. granted' = granted
    BY <1>12 DEF Refuse, history
  <2>5. \A a \in 0..Window : granted'[a] <= entries'[a]
    BY <1>4, <1>8, <1>12, <2>4 DEF SlidingKept
  <2> QED
    BY <1>3, <1>6, <2>3, <2>5 DEF SlidingKept, RateHeld
<1> QED
  BY <1>11, <1>12 DEF Commit, kept

\* The client that may add an entry has counted them, and nobody adds one since.
LEMMA CountRate ==
  ASSUME RateInv, NEW c \in Clients, CountEntries(c)
  PROVE  RateHeld'
<1>1. FlowInv /\ pc[c] \in Transaction
      /\ UNCHANGED <<config, server, timer, history>>
  BY DEF RateInv, CountEntries, Transaction
<1>2. SlidingWindow /\ ~TokenBucket /\ SlidingKept
  BY <1>1, LockedFacts, RecentFacts DEF RateInv, RateHeld
<1>3. SlidingWindow' /\ ~TokenBucket'
  BY <1>1, <1>2 DEF config, SlidingWindow, TokenBucket
<1>4. entries' = entries /\ granted' = granted
  BY <1>1 DEF server, history
<1>5. \A d \in At({"commit"})' : Total(Prune(entries, timer[d]), 0..Expired) < Limit
  <2>1. SUFFICES ASSUME NEW d \in Clients, pc'[d] = "commit"
                 PROVE  Total(Prune(entries, timer[d]), 0..Expired) < Limit
    BY DEF At
  <2>2. CASE d = c
    BY <2>1, <2>2 DEF CountEntries, FlowInv, TypeOK, RateInv
  <2>3. CASE d # c
    <3>1. pc[d] = "commit"
      BY <1>1, <2>1, <2>3, OneMoves DEF Step, Statement
    <3> QED
      BY <1>2, <3>1 DEF SlidingKept, At
  <2> QED
    BY <2>2, <2>3
<1>6. \A d \in At({"commit"})' : Total(Prune(entries', timer'[d]), 0..Expired) < Limit
  BY <1>1, <1>4, <1>5
<1> QED
  BY <1>2, <1>3, <1>4, <1>6 DEF SlidingKept, RateHeld

\* A grant of the token bucket when no other counts.
LEMMA FirstGrant ==
  ASSUME RateInv, TokenBucket, NEW c \in Clients, pc[c] \in Stamped, TakePlace(c), NewVersion,
         row', last' = timer[c], UNCHANGED <<config, resetting>>,
         resetting = "no" => \A a \in Recent : granted[a] = 0
  PROVE  RateHeld'
<1>1. /\ TokenBucket' /\ ~SlidingWindow' /\ Recent' = Recent
  BY RecentFacts DEF RateInv, config, TokenBucket, SlidingWindow, Recent
<1>2. ASSUME resetting = "no" PROVE BucketKept'
  <2>1. current' = {}
    BY <1>2, VersionFlow DEF RateInv
  <2>2. /\ IsFiniteSet(Recent) /\ granted \in [Recent -> Nat]
        /\ \A a \in Recent : granted[a] = 0 /\ a \in Nat
    BY <1>2, RecentFacts DEF RateInv
  <2>3. granted' = IF timer[c] \in Recent THEN [granted EXCEPT ![timer[c]] = @ + 1] ELSE granted
    BY DEF TakePlace, Record
  <2>4. \A a \in Recent : granted'[a] > 0 => a = timer[c]
    BY <2>2, <2>3
  <2>5. Total(granted, Recent) = 0
    BY <2>2, TotalZero
  <2>6. Total(granted', Recent) <= 1
    <3>1. CASE timer[c] \in Recent
      <4>1. /\ granted'[timer[c]] = granted[timer[c]] + 1
            /\ \A a \in Recent \ {timer[c]} : granted'[a] = granted[a]
            /\ \A a \in Recent : granted[a] \in Nat
        BY <2>2, <2>3, <3>1
      <4>2. Total(granted', Recent) = Total(granted, Recent) + 1
        BY <2>2, <3>1, <4>1, TotalOneMore
      <4> QED
        BY <2>5, <4>2
    <3>2. CASE timer[c] \notin Recent
      BY <2>3, <2>5, <3>2
    <3> QED
      BY <3>1, <3>2
  <2>7. timer[c] \in Nat
    BY FlowFacts DEF RateInv
  <2>8. \A a \in Recent : granted'[a] > 0 => row' /\ a >= last'
    BY <2>4, <2>7
  <2> QED
    BY <1>1, <2>1, <2>6, <2>8 DEF BucketKept
<1> QED
  BY <1>1, <1>2 DEF RateHeld

\* A refused client of a token bucket.
LEMMA RefuseRate ==
  ASSUME RateInv, NEW c \in Clients, SelectRow(c) \/ UpdateRow(c), c \notin current,
         NEW wait, Refuse(c, "nap", wait), UNCHANGED <<config, row, last, entries, resetting>>,
         count' = count, current' = current
  PROVE  RateHeld'
<1>1. \A d \in Clients \ {c} : pc'[d] = pc[d] /\ timer'[d] = timer[d] /\ read'[d] = read[d]
  BY OneMoves DEF RateInv, Step, Statement
<1>2. pc'[c] # "commit" /\ granted' = granted
  BY DEF Refuse, Idle, Move, history, RateInv, FlowInv, TypeOK
<1> QED
  BY <1>1, <1>2, QuietRate

LEMMA SelectRate ==
  ASSUME RateInv, NEW c \in Clients, SelectRow(c)
  PROVE  RateHeld'
<1>1. /\ FlowInv /\ Unbound(c) /\ TokenBucket
      /\ UNCHANGED <<config, row, last, count, entries, resetting>>
  BY DEF RateInv, SelectRow, Unbound, Transaction
<1>2. c \notin current /\ current \subseteq Clients
  BY <1>1, UnboundFacts DEF FlowInv, TypeOK
<1>3. \A d \in Clients \ {c} : pc'[d] = pc[d] /\ timer'[d] = timer[d] /\ read'[d] = read[d]
  BY <1>1, OneMoves DEF Step, Statement
<1>4. CASE pc' = [pc EXCEPT ![c] = "insert"] /\ UNCHANGED <<current, history>>
  <2>1. pc'[c] # "commit" /\ granted' = granted
    BY <1>4 DEF RateInv, FlowInv, TypeOK, history
  <2> QED
    BY <1>1, <1>2, <1>3, <1>4, <2>1, QuietRate
<1>5. CASE /\ RateReady(c) /\ read' = [read EXCEPT ![c] = count] /\ current' = current \cup {c}
           /\ UNCHANGED <<timer, history>>
  <2>1. TokenBucket' /\ ~SlidingWindow' /\ Recent' = Recent
    BY <1>1, RecentFacts DEF config, TokenBucket, SlidingWindow, Recent
  <2>2. ASSUME BucketKept PROVE BucketKept'
    <3>1. read'[c] = count
      BY <1>5 DEF RateInv, FlowInv, TypeOK
    <3>2. \A d \in current' : RateReady(d)' /\ read'[d] = count'
      BY <1>1, <1>2, <1>3, <1>5, <2>2, <3>1 DEF BucketKept, RateReady
    <3> QED
      BY <1>1, <1>5, <2>1, <2>2, <3>2 DEF BucketKept, history
  <2> QED
    BY <1>1, <2>1, <2>2 DEF RateInv, RateHeld
<1>6. ASSUME NEW wait, Refuse(c, "nap", wait), UNCHANGED current PROVE RateHeld'
  BY <1>1, <1>2, <1>6, RefuseRate
<1> QED
  BY <1>4, <1>5, <1>6 DEF SelectRow

\* The version has not changed since the row was read: the grant before is as old
\* as it was found to be.
LEMMA UpdateRate ==
  ASSUME RateInv, NEW c \in Clients, UpdateRow(c)
  PROVE  RateHeld'
<1>1. /\ FlowInv /\ pc[c] = "update" /\ pc[c] \in Stamped
      /\ UNCHANGED <<config, row, entries, resetting>>
  BY DEF RateInv, UpdateRow, Statements, Stamped
<1>2. TokenBucket /\ timer[c] \in Nat
  BY <1>1, FlowFacts DEF Fits
<1>3. CASE /\ c \in current /\ last' = timer[c] /\ NewVersion /\ TakePlace(c)
  <2>1. row
    BY <1>1, <1>3 DEF FlowInv
  <2>2. ASSUME resetting = "no" PROVE \A a \in Recent : granted[a] = 0
    <3>1. BucketKept /\ RateReady(c)
      BY <1>2, <1>3, <2>2 DEF RateInv, RateHeld, BucketKept
    <3>2. CASE Required = 0
      BY <1>1, <1>2, <3>2, RecentFacts
    <3>3. CASE Required # 0
      <4>1. last >= timer[c] + Required /\ last \in Nat
        BY <1>1, <3>1, <3>3, Parameters DEF RateReady, FlowInv, TypeOK
      <4>2. \A a \in Recent : a \in Nat /\ a < Required /\ granted[a] \in Nat
        BY <1>1, <1>2, RecentFacts
      <4>3. \A a \in Recent : granted[a] > 0 => a >= last
        BY <3>1 DEF BucketKept
      <4> QED
        BY <1>2, <4>1, <4>2, <4>3, Parameters
    <3> QED
      BY <3>2, <3>3
  <2> QED
    BY <1>1, <1>2, <1>3, <2>1, <2>2, FirstGrant
<1>4. CASE /\ c \notin current /\ Refuse(c, "nap", 0) /\ UNCHANGED <<last, count, current>>
  BY <1>1, <1>4, RefuseRate
<1> QED
  BY <1>3, <1>4 DEF UpdateRow

LEMMA InsertRate ==
  ASSUME RateInv, NEW c \in Clients, InsertRow(c)
  PROVE  RateHeld'
<1>1. /\ FlowInv /\ Unbound(c) /\ pc[c] \in Stamped /\ UNCHANGED <<config, resetting>>
  BY DEF RateInv, InsertRow, Unbound, Transaction, Stamped, Statements
<1>2. c \notin current
  BY <1>1, UnboundFacts
<1>3. \A d \in Clients \ {c} : pc'[d] = pc[d] /\ timer'[d] = timer[d] /\ read'[d] = read[d]
  BY <1>1, OneMoves DEF Step, Statement
<1>4. CASE TokenBucket /\ InsertFirst(c)
  <2>1. /\ ~row /\ row' /\ last' = timer[c] /\ NewVersion /\ TakePlace(c)
    BY <1>4 DEF InsertFirst
  <2>2. ASSUME resetting = "no" PROVE \A a \in Recent : granted[a] = 0
    <3>1. BucketKept
      BY <1>4, <2>2 DEF RateInv, RateHeld
    <3>2. \A a \in Recent : granted[a] \in Nat /\ ~(granted[a] > 0)
      BY <1>1, <2>1, <3>1, RecentFacts DEF BucketKept
    <3> QED
      BY <3>2
  <2> QED
    BY <1>1, <1>4, <2>1, <2>2, FirstGrant
<1>5. CASE InsertAndLock(c)
  <2>1. pc'[c] # "commit" /\ granted' = granted
    BY <1>5 DEF InsertAndLock, RateInv, FlowInv, TypeOK, history
  <2>2. UNCHANGED <<row, last, count, current, entries>>
    BY <1>5 DEF InsertAndLock
  <2> QED
    BY <1>1, <1>2, <1>3, <2>1, <2>2, QuietRate
<1>6. CASE Move(c, "queue", 0) /\ UNCHANGED <<server, history>>
  <2>1. pc'[c] # "commit" /\ granted' = granted
    BY <1>6 DEF Move, RateInv, FlowInv, TypeOK, history
  <2>2. UNCHANGED <<row, last, count, current, entries>>
    BY <1>6 DEF server
  <2> QED
    BY <1>1, <1>2, <1>3, <2>1, <2>2, QuietRate
<1> QED
  BY <1>4, <1>5, <1>6 DEF InsertRow

\* The other steps of a client.
LEMMA OtherRate ==
  ASSUME RateInv, NEW c \in Clients,
         \/ Connect(c) \/ Reply(c) \/ Wake(c) \/ Finish(c) \/ LockRow(c) \/ ReleaseRow(c)
         \/ FailOpen(c) \/ GiveUp(c)
         \/ \E timeout \in 0..Never : Call(c, timeout)
  PROVE  RateHeld'
<1>1. FlowInv /\ current \subseteq Clients
  BY DEF RateInv, FlowInv, TypeOK
<1>2. \A d \in Clients \ {c} : pc'[d] = pc[d] /\ timer'[d] = timer[d] /\ read'[d] = read[d]
  BY <1>1, OneMoves DEF Step, Statement
<1>3. pc'[c] # "commit"
  <2>1. \E place \in Places \ {"commit"} : pc' = [pc EXCEPT ![c] = place]
    BY DEF Connect, Reply, Wake, Finish, LockRow, ReleaseRow, FailOpen, GiveUp, Call, Idle,
       Move, Places
  <2> QED
    BY <1>1, <2>1 DEF FlowInv, TypeOK
<1>4. UNCHANGED <<config, row, last, entries, granted, resetting>>
  BY DEF Connect, Reply, Wake, Finish, LockRow, ReleaseRow, FailOpen, GiveUp, Call, Leave,
     server, history
<1>5. CASE ReleaseRow(c)
  <2>1. c \notin current
    BY <1>1, <1>5, UnboundFacts DEF ReleaseRow, Unbound, Transaction
  <2>2. CASE row
    <3>1. NewVersion
      BY <1>5, <2>2 DEF ReleaseRow
    <3>2. CASE resetting = "no"
      <4>1. current' = {}
        BY <1>1, <3>1, <3>2, VersionFlow
      <4> QED
        BY <1>2, <1>3, <1>4, <4>1, QuietRate
    <3>3. CASE resetting # "no"
      <4>1. \A d \in At({"commit"})' : d \in At({"commit"}) /\ timer'[d] = timer[d]
        BY <1>2, <1>3 DEF At
      <4>2. SlidingWindow' = SlidingWindow /\ resetting' = resetting
        BY <1>4 DEF config, SlidingWindow
      <4> QED
        BY <1>4, <3>3, <4>1, <4>2 DEF RateInv, RateHeld, SlidingKept
    <3> QED
      BY <3>2, <3>3
  <2>3. CASE ~row
    <3>1. current = {} /\ current' = {}
      BY <1>1, <1>5, <2>3 DEF ReleaseRow, FlowInv
    <3> QED
      BY <1>2, <1>3, <1>4, <3>1, QuietRate
  <2> QED
    BY <2>2, <2>3
<1>6. CASE FailOpen(c) \/ GiveUp(c)
  <2>1. current' = current \ {c} /\ count' = count
    BY <1>6 DEF FailOpen, GiveUp, Leave
  <2> QED
    BY <1>2, <1>3, <1>4, <2>1, QuietRate
<1>7. CASE \/ Connect(c) \/ Reply(c) \/ Wake(c) \/ Finish(c) \/ LockRow(c)
           \/ \E timeout \in 0..Never : Call(c, timeout)
  <2>1. current' = current /\ count' = count
    BY <1>7 DEF Connect, Reply, Wake, Finish, LockRow, Call, server
  <2>2. c \notin current
    <3>1. pc[c] # "update"
      BY <1>7 DEF Connect, Reply, Wake, Finish, LockRow, Call
    <3> QED
      BY <1>1, <3>1, FlowFacts DEF Fits
  <2> QED
    BY <1>2, <1>3, <1>4, <2>1, <2>2, QuietRate
<1> QED
  BY <1>5, <1>6, <1>7

\* A request made with the time n counts no more entries a tick later.
LEMMA AgedPruned ==
  ASSUME NEW f \in [0..Expired -> Nat], NEW n \in Nat, n < MaxWait
  PROVE  Total(Prune(Aged(f), n + 1), 0..Expired) <= Total(Prune(f, n), 0..Expired)
<1> DEFINE g     == Aged(f)
           kept  == Prune(f, n)
           later == Prune(g, n + 1)
<1>1. /\ g \in [0..Expired -> Nat] /\ g[0] = 0
      /\ \A a \in 0..Expired : a # 0 /\ a # Expired => a - 1 \in 0..Expired /\ g[a] = f[a-1]
  BY AgedTyped
<1>2. n + 1 \in Nat
  OBVIOUS
<1> HIDE DEF g
<1>3. /\ kept \in [0..Expired -> Nat]
      /\ \A a \in 0..Expired : a <= Window + n => kept[a] = f[a]
      /\ \A a \in 0..Expired : a > Window + n => kept[a] = 0
  BY PruneTyped
<1>4. /\ \A a \in 0..Expired : a <= Window + (n + 1) => later[a] = g[a]
      /\ \A a \in 0..Expired : a > Window + (n + 1) => later[a] = 0
  BY <1>1, <1>2, PruneTyped
<1> HIDE DEF kept, later
<1>5. ASSUME NEW a \in 0..Expired
      PROVE  /\ a \in Nat
             /\ a = 0 => later[a] = 0
             /\ a # 0 => a - 1 \in 0..Expired /\ later[a] = kept[a - 1]
  <2>1. a \in Nat /\ a <= Expired /\ (a # 0 => a - 1 \in 0..Expired)
    BY Parameters
  <2>2. CASE a = 0
    <3>1. a <= Window + (n + 1)
      BY <2>2, Parameters
    <3> QED
      BY <1>1, <1>4, <2>1, <2>2, <3>1
  <2>3. CASE a # 0 /\ a > Window + (n + 1)
    <3>1. a - 1 > Window + n
      BY <2>1, <2>3, Parameters
    <3> QED
      BY <1>3, <1>4, <2>1, <2>3, <3>1
  <2>4. CASE a # 0 /\ a <= Window + (n + 1)
    <3>1. a - 1 <= Window + n /\ a # Expired
      BY <2>1, <2>4, Parameters
    <3> QED
      BY <1>1, <1>3, <1>4, <2>1, <2>4, <3>1
  <2>5. a > Window + (n + 1) \/ a <= Window + (n + 1)
    BY <2>1, Parameters
  <2> QED
    BY <2>1, <2>2, <2>3, <2>4, <2>5
<1>6. \A a \in 0..Expired : kept[a] \in Nat
  BY <1>3
<1>7. Total(later, 0..Expired) <= Total(kept, 0..Expired)
  BY <1>5, <1>6, Ranges, TotalShift
<1> QED
  BY <1>7 DEF g, kept, later

LEMMA TickSliding ==
  ASSUME FlowInv, Tick, SlidingWindow, SlidingKept
  PROVE  SlidingKept'
<1>1. /\ entries \in [0..Expired -> Nat] /\ Total(entries, 0..Expired-1) \in Nat
  BY EntryFacts, Parameters
<1>2. /\ entries' \in [0..Expired -> Nat] /\ entries'[0] = 0
      /\ \A a \in 0..Expired : a # 0 /\ a # Expired => a - 1 \in 0..Expired /\ entries'[a] = entries[a-1]
  BY <1>1, AgedTyped DEF Tick
<1>3. \A a \in 0..Expired-1 : /\ a \in Nat /\ a \in 0..Expired /\ a # Expired
                              /\ a # 0 => a - 1 \in 0..Expired-1
  BY Parameters
<1>4. Total(entries', 0..Expired-1) <= Limit
  <2>1. \A a \in 0..Expired-1 : entries[a] \in Nat
    BY <1>1, <1>3
  <2>2. \A a \in 0..Expired-1 : /\ a \in Nat
                                /\ a = 0 => entries'[a] = 0
                                /\ a # 0 => a - 1 \in 0..Expired-1 /\ entries'[a] = entries[a - 1]
    BY <1>2, <1>3
  <2>3. Total(entries', 0..Expired-1) <= Total(entries, 0..Expired-1)
    BY <2>1, <2>2, Ranges, TotalShift
  <2>4. Total(entries', 0..Expired-1) \in Nat
    <3>1. \A a \in 0..Expired-1 : entries'[a] \in Nat
      BY <1>2, <1>3
    <3> QED
      BY <3>1, Ranges, TotalType
  <2> QED
    BY <1>1, <2>3, <2>4, Parameters DEF SlidingKept
<1>5. \A a \in 0..Window : granted'[a] <= entries'[a]
  <2>1. SUFFICES ASSUME NEW a \in 0..Window PROVE granted'[a] <= entries'[a]
    OBVIOUS
  <2>2. granted'[a] = IF a = 0 THEN 0 ELSE granted[a-1]
    BY RecentFacts DEF Tick
  <2>3. a \in 0..Expired-1
    BY Ranges
  <2>4. CASE a = 0
    BY <1>2, <2>2, <2>4
  <2>5. CASE a # 0
    <3>1. a - 1 \in 0..Window
      BY <2>5, Parameters
    <3> QED
      BY <1>2, <1>3, <2>2, <2>3, <2>5, <3>1 DEF SlidingKept
  <2> QED
    BY <2>4, <2>5
<1>6. ASSUME NEW c \in Clients, pc'[c] = "commit"
      PROVE  Total(Prune(entries', timer'[c]), 0..Expired) < Limit
  <2>1. pc[c] = "commit" /\ timer[c] \in Nat /\ timer'[c] = timer[c] + 1 /\ timer[c] < MaxWait
    BY <1>6, TickClient, FlowFacts DEF Stamped, Statements
  <2>2. /\ Total(Prune(entries, timer[c]), 0..Expired) < Limit
        /\ Total(Prune(entries, timer[c]), 0..Expired) \in Nat
    BY <2>1, EntryFacts DEF SlidingKept, At
  <2>3. entries' = Aged(entries)
    BY DEF Tick
  <2>4. Total(Prune(entries', timer'[c]), 0..Expired) <= Total(Prune(entries, timer[c]), 0..Expired)
    BY <1>1, <2>1, <2>3, AgedPruned
  <2>5. Total(Prune(entries', timer'[c]), 0..Expired) \in Nat
    <3>1. FlowInv' /\ timer'[c] \in Nat
      BY <2>1, TickFlow
    <3>2. PICK f \in [0..Expired -> Nat] : f = entries'
      BY <1>2
    <3>3. PICK n \in Nat : n = timer'[c]
      BY <3>1
    <3>4. \A a \in 0..Expired : Prune(f, n)[a] \in Nat
      BY PruneTyped
    <3> QED
      BY <3>2, <3>3, <3>4, Ranges, TotalType
  <2> QED
    BY <2>2, <2>4, <2>5, Parameters
<1> QED
  BY <1>4, <1>5, <1>6 DEF SlidingKept, At

LEMMA TickBucket ==
  ASSUME FlowInv, Tick, TokenBucket, BucketKept
  PROVE  BucketKept'
<1>1. /\ Recent' = Recent
      /\ UNCHANGED <<row, count, current>> /\ \A c \in current : c \in Clients
  BY DEF Tick, config, Recent, TokenBucket, FlowInv, TypeOK
<1>2. last \in 0..Old /\ last' = (IF last + 1 < Old THEN last + 1 ELSE Old) /\ last' <= last + 1
  BY Parameters DEF Tick, AtMost, FlowInv, TypeOK
<1>3. \A a \in Recent : /\ a \in Nat
                        /\ a = 0 => granted'[a] = 0
                        /\ a # 0 => a - 1 \in Recent /\ granted'[a] = granted[a - 1]
  BY RecentFacts DEF Tick
<1>4. \A a \in Recent : granted[a] \in Nat /\ granted'[a] \in Nat
  BY <1>3, RecentFacts
<1>5. ASSUME NEW a \in Recent, granted'[a] > 0 PROVE row' /\ a >= last'
  <2>1. a # 0 /\ a \in Nat /\ a - 1 \in Recent /\ granted[a - 1] > 0
    BY <1>3, <1>5
  <2>2. row /\ a - 1 >= last
    BY <2>1 DEF BucketKept
  <2> QED
    BY <1>1, <1>2, <2>1, <2>2, Parameters
<1>6. ASSUME NEW c \in current PROVE RateReady(c)' /\ read'[c] = count'
  <2>1. c \in Clients /\ RateReady(c) /\ read[c] = count /\ Fits(c)
    BY <1>1, FlowFacts DEF BucketKept
  <2>2. pc[c] = "update" /\ pc[c] \in Stamped
    BY <2>1 DEF Fits, Stamped, Statements
  <2>3. /\ timer'[c] = timer[c] + 1 /\ timer[c] < MaxWait /\ timer[c] \in Nat
        /\ read'[c] = read[c]
    BY <2>1, <2>2, TickClient, FlowFacts
  <2>4. Period = 0 \/ last' >= timer'[c] + Required
    BY <1>2, <2>1, <2>3, Parameters DEF RateReady
  <2> QED
    BY <1>1, <2>1, <2>3, <2>4 DEF RateReady
<1>7. Total(granted', Recent) <= 1
  <2>1. Total(granted', Recent) <= Total(granted, Recent)
    BY <1>3, <1>4, RecentFacts, TotalShift
  <2>2. Total(granted', Recent) \in Nat /\ Total(granted, Recent) \in Nat
    BY <1>4, RecentFacts, TotalType
  <2> QED
    BY <2>1, <2>2 DEF BucketKept
<1> QED
  BY <1>1, <1>5, <1>6, <1>7 DEF BucketKept

LEMMA TickRate ==
  ASSUME RateInv, Tick
  PROVE  RateHeld'
<1>1. TokenBucket' = TokenBucket /\ SlidingWindow' = SlidingWindow /\ resetting' = resetting
  BY DEF Tick, config, TokenBucket, SlidingWindow
<1> QED
  BY <1>1, TickSliding, TickBucket DEF RateInv, RateHeld

LEMMA NothingRate ==
  ASSUME NEW n \in Nat
  PROVE  /\ Total(Nothing, 0..Expired-1) = 0 /\ Total(Prune(Nothing, n), 0..Expired) = 0
         /\ \A a \in 0..Window : Nothing[a] = 0
<1>1. \A a \in 0..Expired : Nothing[a] = 0 /\ Prune(Nothing, n)[a] = 0
  BY Parameters DEF Nothing, Prune
<1>2. /\ \A a \in 0..Expired-1 : Nothing[a] = 0
      /\ \A a \in 0..Window : Nothing[a] = 0
  BY <1>1, Ranges
<1> QED
  BY <1>1, <1>2, TotalZero

LEMMA ResetRate ==
  ASSUME RateInv, ResetRow \/ ResetWindow
  PROVE  RateHeld'
<1>1. /\ TokenBucket' = TokenBucket /\ SlidingWindow' = SlidingWindow /\ resetting' # "no"
      /\ pc' = pc /\ timer' = timer /\ UNCHANGED config
  BY DEF ResetRow, ResetWindow, config, local, TokenBucket, SlidingWindow
<1>2. ASSUME SlidingWindow, SlidingKept PROVE SlidingKept'
  <2>1. CASE ResetRow
    BY <1>1, <1>2, <2>1 DEF ResetRow, SlidingKept, At
  <2>2. CASE ResetWindow
    <3>1. entries' = Nothing /\ \A a \in 0..Window : granted'[a] = 0
      BY <1>2, <2>2, RecentFacts DEF ResetWindow, RateInv
    <3>2. \A c \in At({"commit"})' : timer'[c] \in Nat
      BY <1>1, FlowFacts DEF At, RateInv
    <3>3. /\ Total(Nothing, 0..Expired-1) = 0
          /\ \A n \in Nat : Total(Prune(Nothing, n), 0..Expired) = 0
          /\ \A a \in 0..Window : Nothing[a] = 0
      BY NothingRate, Parameters
    <3> QED
      BY <3>1, <3>2, <3>3, Parameters DEF SlidingKept
  <2> QED
    BY <2>1, <2>2
<1> QED
  BY <1>1, <1>2 DEF RateInv, RateHeld

LEMMA InitRate ==
  ASSUME Init
  PROVE  RateHeld
<1>1. FlowInv /\ entries = Nothing /\ current = {} /\ At({"commit"}) = {}
      /\ \A a \in Recent : granted[a] = 0
  BY InitFlow DEF Init, At
<1>2. /\ Total(Nothing, 0..Expired-1) = 0 /\ \A a \in 0..Window : Nothing[a] = 0
  BY NothingRate, Parameters
<1>3. Total(granted, Recent) = 0
  BY <1>1, TotalZero
<1>4. SlidingWindow => SlidingKept
  <2>1. SlidingWindow => \A a \in 0..Window : granted[a] <= entries[a]
    BY <1>1, <1>2, RecentFacts
  <2>2. Total(entries, 0..Expired-1) <= Limit
    BY <1>1, <1>2, Parameters
  <2> QED
    BY <1>1, <2>1, <2>2 DEF SlidingKept
<1>5. BucketKept
  BY <1>1, <1>3 DEF BucketKept
<1> QED
  BY <1>4, <1>5 DEF RateHeld

LEMMA StillRate ==
  ASSUME RateInv, UNCHANGED vars
  PROVE  RateHeld'
<1>1. UNCHANGED <<algorithm, row, last, count, current, entries, pc, timer, read, resetting, granted>>
  BY DEF vars, config, server, local, history
<1> QED
  BY <1>1 DEF RateInv, RateHeld, TokenBucket, SlidingWindow, SlidingKept, BucketKept, At,
              Recent, RateReady

LEMMA NextRate ==
  ASSUME RateInv, [Next]_vars
  PROVE  RateInv'
<1>1. FlowInv'
  BY NextFlow DEF RateInv
<1>2. RateHeld'
  BY StillRate, TickRate, ResetRate, SelectRate, UpdateRate, InsertRate, CountRate, CommitRate,
     OtherRate
     DEF Next, Step, Statement
<1> QED
  BY <1>1, <1>2 DEF RateInv

LEMMA SpecRate == Spec => []RateInv
<1>1. Init => RateInv
  BY InitFlow, InitRate DEF RateInv
<1>2. RateInv /\ [Next]_vars => RateInv'
  BY NextRate
<1> QED
  BY <1>1, <1>2, PTL DEF Spec

\* However the statements of the clients interleave and fail, at every moment at
\* most limit grants have a time in the window that ends then, and at most one in
\* the required interval while the group is not reset (postgres.py, the UPDATE that
\* compares versions and the transaction that locks the row).
THEOREM RateKept == Spec => []RateRespected
<1>1. RateInv => RateRespected
  <2> SUFFICES ASSUME RateInv, Undisturbed PROVE Total(granted, Recent) <= Quota
    BY DEF RateRespected
  <2>1. CASE TokenBucket
    BY <2>1 DEF RateInv, RateHeld, BucketKept, Undisturbed, Quota
  <2>2. CASE SlidingWindow
    <3>1. FlowInv /\ SlidingKept /\ ~TokenBucket
      BY <2>2, RecentFacts DEF RateInv, RateHeld
    <3>2. Recent = 0..Window /\ granted \in [0..Window -> Nat] /\ Quota = Limit
      BY <2>2, <3>1, RecentFacts DEF Quota
    <3>3. /\ \A a \in 0..Window : granted[a] \in Nat
          /\ \A a \in 0..Expired-1 : entries[a] \in Nat
          /\ 0..Window \in SUBSET (0..Expired-1)
      BY <3>1, <3>2, Ranges DEF FlowInv, TypeOK
    <3>4. Total(granted, 0..Window) <= Total(entries, 0..Expired-1)
      BY <3>1, <3>3, Ranges, TotalMonotone DEF SlidingKept
    <3>5. Total(granted, 0..Window) \in Nat /\ Total(entries, 0..Expired-1) \in Nat
      BY <3>3, Ranges, TotalType
    <3> QED
      BY <3>1, <3>2, <3>4, <3>5, Parameters DEF SlidingKept
  <2> QED
    BY <2>1, <2>2, RecentFacts DEF RateInv
<1> QED
  BY <1>1, SpecRate, PTL

-----------------------------------------------------------------------------
(* The places *)

OwnersHold == owners \subseteq At(Holding)

\* With no request let through on a failure, whoever is at such a place holds one.
CountKept ==
  failClosed /\ resetting = "no" => owners = At(Holding) /\ count = Cardinality(owners) + leaked

PlacesHeld == OwnersHold /\ NoPhantomPlace /\ CountKept
PlacesInv  == RateInv /\ PlacesHeld

LEMMA FiniteClients ==
  ASSUME NEW S \in SUBSET Clients
  PROVE  /\ IsFiniteSet(S) /\ Cardinality(S) \in Nat
         /\ \A c \in S : Cardinality(S \ {c}) = Cardinality(S) - 1 /\ Cardinality(S) > 0
         /\ \A c \in Clients \ S : Cardinality(S \cup {c}) = Cardinality(S) + 1
         /\ \A c : c \notin S => S \ {c} = S
<1>1. IsFiniteSet(S) /\ Cardinality(S) \in Nat
  BY PostgresAssumption, FS_Subset, FS_CardinalityType DEF PostgresAssumption
<1>2. \A c \in S : Cardinality(S \ {c}) = Cardinality(S) - 1
  BY <1>1, FS_RemoveElement
<1>3. S # {} => Cardinality(S) > 0
  BY <1>1, FS_EmptySet
<1>4. \A c \in Clients \ S : Cardinality(S \cup {c}) = Cardinality(S) + 1
  BY <1>1, FS_AddElement
<1> QED
  BY <1>1, <1>2, <1>3, <1>4

LEMMA PlacesFacts ==
  ASSUME PlacesInv
  PROVE  /\ FlowInv /\ RateInv /\ OwnersHold /\ NoPhantomPlace /\ CountKept
         /\ owners \in SUBSET Clients /\ leaked \in Nat /\ count \in Nat
         /\ IsFiniteSet(owners) /\ Cardinality(owners) \in Nat
<1>1. FlowInv /\ RateInv /\ OwnersHold /\ NoPhantomPlace /\ CountKept
  BY DEF PlacesInv, RateInv, PlacesHeld
<1>2. owners \in SUBSET Clients /\ leaked \in Nat /\ count \in Nat
  BY <1>1, Parameters DEF FlowInv, TypeOK
<1> QED
  BY <1>1, <1>2, FiniteClients

\* A step of a client that takes no place and gives none back.
LEMMA StayPlaces ==
  ASSUME PlacesInv, NEW c \in Clients,
         \A d \in Clients \ {c} : pc'[d] = pc[d],
         UNCHANGED <<config, resetting, count, owners, leaked>>,
         pc[c] \in Holding => pc'[c] \in Holding,
         failClosed /\ pc'[c] \in Holding => pc[c] \in Holding
  PROVE  PlacesHeld'
<1>1. failClosed' = failClosed /\ Undisturbed' = Undisturbed
  BY DEF config, Undisturbed, TokenBucket
<1>2. \A d \in At(Holding) : d \in At(Holding)'
  BY DEF At
<1>3. failClosed => \A d \in At(Holding)' : d \in At(Holding)
  BY DEF At
<1>4. OwnersHold'
  BY <1>2, PlacesFacts DEF OwnersHold
<1>5. NoPhantomPlace'
  BY <1>1, PlacesFacts DEF NoPhantomPlace
<1>6. CountKept'
  BY <1>1, <1>2, <1>3, PlacesFacts DEF CountKept
<1> QED
  BY <1>4, <1>5, <1>6 DEF PlacesHeld

\* The row counts one place more, for c.
LEMMA TakePlaces ==
  ASSUME PlacesInv, NEW c \in Clients, pc[c] \notin Holding, TakePlace(c),
         UNCHANGED <<config, resetting>>,
         Undisturbed => count' = count + 1
  PROVE  PlacesHeld'
<1>1. /\ failClosed' = failClosed /\ Undisturbed' = Undisturbed
      /\ resetting = "no" => Undisturbed
  BY DEF config, Undisturbed, TokenBucket
<1>2. pc' = [pc EXCEPT ![c] = "granted"] /\ owners' = owners \cup {c} /\ leaked' = leaked
  BY DEF TakePlace, Move
<1>3. /\ pc'[c] = "granted" /\ "granted" \in Holding
      /\ \A d \in Clients \ {c} : pc'[d] = pc[d]
  BY <1>2, PlacesFacts DEF FlowInv, TypeOK, Holding
<1>4. \A d \in Clients : d \in At(Holding)' <=> d \in At(Holding) \cup {c}
  BY <1>3 DEF At
<1>5. c \notin owners
  BY PlacesFacts DEF OwnersHold, At
<1>6. Cardinality(owners') = Cardinality(owners) + 1
  BY <1>2, <1>5, PlacesFacts, FiniteClients
<1>7. OwnersHold'
  BY <1>2, <1>4, PlacesFacts DEF OwnersHold
<1>8. NoPhantomPlace'
  BY <1>1, <1>2, <1>6, PlacesFacts DEF NoPhantomPlace
<1>9. CountKept'
  <2>1. SUFFICES ASSUME failClosed, resetting = "no"
                 PROVE  owners' = At(Holding)' /\ count' = Cardinality(owners') + leaked'
    BY <1>1 DEF CountKept
  <2>2. owners = At(Holding) /\ count = Cardinality(owners) + leaked
    BY <2>1, PlacesFacts DEF CountKept
  <2>3. owners' = At(Holding)'
    <3>1. owners' \subseteq Clients /\ At(Holding)' \subseteq Clients
      BY <1>2, PlacesFacts DEF At
    <3> QED
      BY <1>2, <1>4, <2>2, <3>1
  <2> QED
    BY <1>1, <1>2, <1>6, <2>1, <2>2, <2>3, PlacesFacts
<1> QED
  BY <1>7, <1>8, <1>9 DEF PlacesHeld

\* Client c holds no place any more.
LEMMA LeavePlaces ==
  ASSUME PlacesInv, NEW c \in Clients, pc' = [pc EXCEPT ![c] = "idle"], owners' = owners \ {c},
         UNCHANGED <<config, resetting>>, count' \in Nat, leaked' \in Nat,
         c \in owners => count' - leaked' <= count - leaked - 1 \/ count' <= leaked',
         c \notin owners => count' - leaked' <= count - leaked \/ count' <= leaked',
         c \in owners /\ leaked < count => count' - leaked' = count - leaked - 1,
         c \notin owners /\ pc[c] \notin Holding => count' - leaked' = count - leaked
  PROVE  PlacesHeld'
<1>1. failClosed' = failClosed /\ Undisturbed' = Undisturbed
  BY DEF config, Undisturbed, TokenBucket
<1>2. \A d \in Clients : d \in At(Holding)' <=> d \in At(Holding) \ {c}
  <2>1. "idle" \notin Holding
    BY DEF Holding
  <2> QED
    BY <2>1, PlacesFacts DEF At, FlowInv, TypeOK
<1>3. /\ c \in owners => Cardinality(owners') = Cardinality(owners) - 1 /\ Cardinality(owners) > 0
      /\ c \notin owners => owners' = owners
      /\ Cardinality(owners') \in Nat
  BY PlacesFacts, FiniteClients
<1>4. OwnersHold'
  BY <1>2, PlacesFacts DEF OwnersHold
<1>5. PICK n \in Nat, h \in Nat, m \in Nat :
        n = count /\ h = Cardinality(owners) /\ m = leaked
  BY PlacesFacts
<1>6. PICK k \in Nat, i \in Nat, l \in Nat :
        k = count' /\ i = Cardinality(owners') /\ l = leaked'
  BY <1>3
<1>7. /\ c \in owners => i = h - 1 /\ h > 0 /\ (k - l <= n - m - 1 \/ k <= l)
                         /\ (m < n => k - l = n - m - 1)
      /\ c \notin owners => i = h /\ (k - l <= n - m \/ k <= l)
                            /\ (pc[c] \notin Holding => k - l = n - m)
  BY <1>3, <1>5, <1>6
<1>8. NoPhantomPlace'
  <2>1. SUFFICES ASSUME n <= h + m PROVE k <= i + l
    BY <1>1, <1>5, <1>6, PlacesFacts DEF NoPhantomPlace
  <2>2. CASE c \in owners
    BY <1>7, <2>1, <2>2
  <2>3. CASE c \notin owners
    BY <1>7, <2>1, <2>3
  <2> QED
    BY <2>2, <2>3
<1>9. CountKept'
  <2>1. SUFFICES ASSUME failClosed, resetting = "no"
                 PROVE  owners' = At(Holding)' /\ k = i + l
    BY <1>1, <1>6 DEF CountKept
  <2>2. owners = At(Holding) /\ n = h + m
    BY <1>5, <2>1, PlacesFacts DEF CountKept
  <2>3. owners' = At(Holding)'
    <3>1. owners' \subseteq Clients /\ At(Holding)' \subseteq Clients
      BY PlacesFacts DEF At
    <3> QED
      BY <1>2, <2>2, <3>1
  <2>4. CASE c \in owners
    BY <1>7, <2>2, <2>3, <2>4
  <2>5. CASE c \notin owners
    <3>1. pc[c] \notin Holding
      BY <2>2, <2>5 DEF At
    <3> QED
      BY <1>7, <2>2, <2>3, <2>5, <3>1
  <2> QED
    BY <2>4, <2>5
<1> QED
  BY <1>4, <1>8, <1>9 DEF PlacesHeld

\* A refused client has no place.
LEMMA RefusePlaces ==
  ASSUME PlacesInv, NEW c \in Clients, pc[c] \notin Holding,
         NEW place \in {"nap", "sleep"}, NEW wait, Refuse(c, place, wait),
         \A d \in Clients \ {c} : pc'[d] = pc[d],
         UNCHANGED <<config, resetting, count>>
  PROVE  PlacesHeld'
<1>1. UNCHANGED <<owners, leaked>>
  BY DEF Refuse, history
<1>2. \E to \in {"idle", "nap", "sleep"} : pc' = [pc EXCEPT ![c] = to]
  BY DEF Refuse, Idle, Move
<1>3. pc'[c] \notin Holding
  BY <1>2, PlacesFacts DEF FlowInv, TypeOK, Holding
<1> QED
  BY <1>1, <1>3, StayPlaces

LEMMA UpdatePlaces ==
  ASSUME PlacesInv, NEW c \in Clients, UpdateRow(c)
  PROVE  PlacesHeld'
<1>1. /\ FlowInv /\ RateInv /\ pc[c] \notin Holding /\ UNCHANGED <<config, resetting>>
  BY PlacesFacts DEF UpdateRow, Holding
<1>2. \A d \in Clients \ {c} : pc'[d] = pc[d]
  BY <1>1, OneMoves DEF Step, Statement
<1>3. TokenBucket
  BY <1>1, FlowFacts DEF Fits, UpdateRow
<1>4. CASE c \in current /\ count' = read[c] + 1 /\ TakePlace(c)
  <2>1. Undisturbed => read[c] = count
    BY <1>1, <1>3, <1>4 DEF RateInv, RateHeld, BucketKept, Undisturbed
  <2> QED
    BY <1>1, <1>4, <2>1, TakePlaces
<1>5. CASE Refuse(c, "nap", 0) /\ count' = count
  BY <1>1, <1>2, <1>5, RefusePlaces
<1> QED
  BY <1>4, <1>5 DEF UpdateRow

LEMMA SelectPlaces ==
  ASSUME PlacesInv, NEW c \in Clients, SelectRow(c) \/ LockRow(c) \/ CountEntries(c)
  PROVE  PlacesHeld'
<1>1. /\ FlowInv /\ pc[c] \notin Holding /\ UNCHANGED <<config, resetting, count>>
  BY PlacesFacts DEF SelectRow, LockRow, CountEntries, Holding, server
<1>2. \A d \in Clients \ {c} : pc'[d] = pc[d]
  BY <1>1, OneMoves DEF Step, Statement
<1>3. ASSUME NEW wait, Refuse(c, "nap", wait) PROVE PlacesHeld'
  BY <1>1, <1>2, <1>3, RefusePlaces
<1>4. CASE /\ \E place \in Statements : pc' = [pc EXCEPT ![c] = place]
           /\ UNCHANGED history
  <2>1. pc'[c] \notin Holding
    BY <1>1, <1>4 DEF FlowInv, TypeOK, Statements, Holding
  <2> QED
    BY <1>1, <1>2, <1>4, <2>1, StayPlaces DEF history
<1>5. {"insert", "update", "count", "commit", "nothing"} \subseteq Statements
  BY DEF Statements
<1> QED
  BY <1>3, <1>4, <1>5 DEF SelectRow, LockRow, CountEntries

LEMMA InsertPlaces ==
  ASSUME PlacesInv, NEW c \in Clients, InsertRow(c)
  PROVE  PlacesHeld'
<1>1. /\ FlowInv /\ pc[c] \notin Holding /\ UNCHANGED <<config, resetting>>
  BY PlacesFacts DEF InsertRow, Holding
<1>2. \A d \in Clients \ {c} : pc'[d] = pc[d]
  BY <1>1, OneMoves DEF Step, Statement
<1>3. CASE InsertFirst(c)
  <2>1. count = 0 /\ count' = 1 /\ TakePlace(c)
    BY <1>1, <1>3 DEF InsertFirst, FlowInv
  <2> QED
    BY <1>1, <2>1, TakePlaces
<1>4. CASE /\ pc' = [pc EXCEPT ![c] = "count"] \/ pc' = [pc EXCEPT ![c] = "queue"]
           /\ UNCHANGED <<count, history>>
  <2>1. pc'[c] \notin Holding
    BY <1>1, <1>4 DEF FlowInv, TypeOK, Holding
  <2> QED
    BY <1>1, <1>2, <1>4, <2>1, StayPlaces DEF history
<1> QED
  BY <1>3, <1>4 DEF InsertRow, InsertAndLock, Move, server

LEMMA CommitPlaces ==
  ASSUME PlacesInv, NEW c \in Clients, Commit(c)
  PROVE  PlacesHeld'
<1>1. /\ FlowInv /\ pc[c] \notin Holding /\ UNCHANGED <<config, resetting>>
  BY PlacesFacts DEF Commit, Holding
<1>2. \A d \in Clients \ {c} : pc'[d] = pc[d]
  BY <1>1, OneMoves DEF Step, Statement
<1>3. CASE TakePlace(c) /\ count' = count + 1
  BY <1>1, <1>3, TakePlaces
<1>4. ASSUME NEW wait, Refuse(c, "sleep", wait), UNCHANGED count PROVE PlacesHeld'
  BY <1>1, <1>2, <1>4, RefusePlaces
<1> QED
  BY <1>3, <1>4 DEF Commit

LEMMA ReleasePlaces ==
  ASSUME PlacesInv, NEW c \in Clients, ReleaseRow(c)
  PROVE  PlacesHeld'
<1>1. /\ pc[c] \in Holding /\ pc' = [pc EXCEPT ![c] = "idle"] /\ owners' = owners \ {c}
      /\ UNCHANGED <<config, resetting>>
      /\ count' = Down(count) /\ leaked' = IF c \in owners THEN leaked ELSE Down(leaked)
  BY DEF ReleaseRow, Idle, Move, Holding
<1>2. PICK n \in Nat, m \in Nat : n = count /\ m = leaked
  BY PlacesFacts
<1>3. Down(n) \in Nat /\ Down(m) \in Nat
  BY SmallNumbers
<1>4. PICK k \in Nat, l \in Nat : k = count' /\ l = leaked'
  BY <1>1, <1>2, <1>3
<1>5. k = Down(n) /\ l = IF c \in owners THEN m ELSE Down(m)
  BY <1>1, <1>2, <1>4
<1>6. (n > 0 => k = n - 1) /\ (n = 0 => k = 0)
  BY <1>5 DEF Down
<1>7. CASE c \in owners
  <2>1. l = m
    BY <1>5, <1>7
  <2>2. (k - l <= n - m - 1 \/ k <= l) /\ (m < n => k - l = n - m - 1)
    BY <1>6, <2>1
  <2> QED
    BY <1>1, <1>2, <1>4, <1>7, <2>2, LeavePlaces
<1>8. CASE c \notin owners
  <2>1. (m > 0 => l = m - 1) /\ (m = 0 => l = 0)
    BY <1>5, <1>8 DEF Down
  <2>2. k - l <= n - m \/ k <= l
    BY <1>6, <2>1
  <2> QED
    BY <1>1, <1>2, <1>4, <1>8, <2>2, LeavePlaces
<1> QED
  BY <1>7, <1>8

\* The place of a client that gives up is lost.
LEMMA GiveUpPlaces ==
  ASSUME PlacesInv, NEW c \in Clients, GiveUp(c)
  PROVE  PlacesHeld'
<1>1. /\ pc' = [pc EXCEPT ![c] = "idle"] /\ owners' = owners \ {c}
      /\ UNCHANGED <<config, resetting, count>>
      /\ leaked' = IF c \in owners /\ leaked < count THEN leaked + 1 ELSE leaked
  BY DEF GiveUp, Leave, Idle, Move
<1>2. count \in Nat /\ leaked \in Nat /\ count' \in Nat /\ leaked' \in Nat
  BY <1>1, PlacesFacts
<1>3. c \in owners /\ leaked < count => count' - leaked' = count - leaked - 1
  BY <1>1, <1>2
<1>4. c \in owners => count' - leaked' <= count - leaked - 1 \/ count' <= leaked'
  BY <1>1, <1>2
<1>5. /\ c \notin owners => count' - leaked' <= count - leaked \/ count' <= leaked'
      /\ c \notin owners /\ pc[c] \notin Holding => count' - leaked' = count - leaked
  BY <1>1, <1>2
<1>6. UNCHANGED <<config, resetting>>
  BY <1>1
<1> QED
  BY <1>1, <1>2, <1>3, <1>4, <1>5, <1>6, LeavePlaces

LEMMA OtherPlaces ==
  ASSUME PlacesInv, NEW c \in Clients,
         \/ Connect(c) \/ Reply(c) \/ Wake(c) \/ Finish(c) \/ FailOpen(c)
         \/ \E timeout \in 0..Never : Call(c, timeout)
  PROVE  PlacesHeld'
<1>1. FlowInv /\ pc \in [Clients -> Places]
  BY PlacesFacts DEF FlowInv, TypeOK
<1>2. \A d \in Clients \ {c} : pc'[d] = pc[d]
  BY <1>1, OneMoves DEF Step
<1>3. UNCHANGED <<config, resetting, count, owners, leaked>>
  BY DEF Connect, Reply, Wake, Finish, FailOpen, Call, Leave, server, history
<1>4. CASE Connect(c)
  <2>1. CASE pc[c] = "queue" /\ Move(c, "select", timer[c])
    <3>1. pc'[c] = "select"
      BY <1>1, <2>1 DEF Move
    <3> QED
      BY <1>2, <1>3, <2>1, <3>1, StayPlaces DEF Holding
  <2>2. CASE pc[c] = "leaving" /\ Move(c, "release", 0)
    <3>1. pc'[c] = "release"
      BY <1>1, <2>2 DEF Move
    <3> QED
      BY <1>2, <1>3, <2>2, <3>1, StayPlaces DEF Holding
  <2> QED
    BY <1>4, <2>1, <2>2 DEF Connect
<1>5. CASE Reply(c) \/ Finish(c)
  <2>1. pc[c] \in Holding /\ pc'[c] \in Holding
    BY <1>1, <1>5 DEF Reply, Finish, Move, Holding
  <2> QED
    BY <1>2, <1>3, <2>1, StayPlaces
<1>6. CASE FailOpen(c)
  <2>1. ~failClosed /\ pc'[c] \in Holding
    BY <1>1, <1>6 DEF FailOpen, Move, Holding
  <2> QED
    BY <1>2, <1>3, <2>1, StayPlaces
<1>7. CASE Wake(c) \/ \E timeout \in 0..Never : Call(c, timeout)
  <2>1. pc[c] \notin Holding /\ pc'[c] \notin Holding
    BY <1>1, <1>7 DEF Wake, Call, Move, Holding
  <2> QED
    BY <1>2, <1>3, <2>1, StayPlaces
<1> QED
  BY <1>4, <1>5, <1>6, <1>7

\* A step of nobody.
LEMMA QuietPlaces ==
  ASSUME PlacesInv, UNCHANGED <<config, count, pc, owners, leaked>>,
         resetting' = "no" => resetting = "no"
  PROVE  PlacesHeld'
<1>1. failClosed' = failClosed /\ (Undisturbed' => Undisturbed) /\ At(Holding)' = At(Holding)
  BY DEF config, Undisturbed, TokenBucket, At
<1> QED
  BY <1>1, PlacesFacts DEF PlacesHeld, OwnersHold, NoPhantomPlace, CountKept

LEMMA ResetPlaces ==
  ASSUME PlacesInv, ResetRow
  PROVE  PlacesHeld'
<1>1. owners' = {} /\ leaked' = 0 /\ count' = 0 /\ resetting' = "half"
  BY DEF ResetRow
<1>2. Cardinality(owners') = 0
  BY <1>1, FS_EmptySet
<1> QED
  BY <1>1, <1>2 DEF PlacesHeld, OwnersHold, NoPhantomPlace, CountKept

LEMMA NextPlaces ==
  ASSUME PlacesInv, [Next]_vars
  PROVE  PlacesInv'
<1>1. RateInv'
  BY NextRate, PlacesFacts
<1>2. CASE UNCHANGED vars \/ Tick \/ ResetWindow
  BY <1>1, <1>2, QuietPlaces DEF vars, config, server, local, history, Tick, ResetWindow, PlacesInv
<1>3. CASE ~(UNCHANGED vars \/ Tick \/ ResetWindow)
  <2>1. PlacesHeld'
    BY <1>3, ResetPlaces, UpdatePlaces, SelectPlaces, InsertPlaces, CommitPlaces, ReleasePlaces,
       GiveUpPlaces, OtherPlaces
       DEF Next, Step, Statement
  <2> QED
    BY <1>1, <2>1 DEF PlacesInv
<1> QED
  BY <1>2, <1>3

LEMMA SpecPlaces == Spec => []PlacesInv
<1>1. Init => PlacesInv
  <2> SUFFICES ASSUME Init PROVE PlacesInv
    OBVIOUS
  <2>1. owners = {} /\ At(Holding) = {} /\ count = 0 /\ leaked = 0
    BY DEF Init, At, Holding
  <2>2. Cardinality(owners) = 0
    BY <2>1, FS_EmptySet
  <2> QED
    BY <2>1, <2>2, InitFlow, InitRate
       DEF PlacesInv, PlacesHeld, RateInv, OwnersHold, NoPhantomPlace, CountKept
<1>2. PlacesInv /\ [Next]_vars => PlacesInv'
  BY NextPlaces
<1> QED
  BY <1>1, <1>2, PTL DEF Spec

\* The row never counts a place that no client holds and none has lost, whatever
\* fails, whoever gives a place back, and while the token bucket is not reset
\* (postgres.py, the UPDATEs of acquire and of release).
THEOREM NoPhantomPlaces == Spec => []NoPhantomPlace
<1>1. PlacesInv => NoPhantomPlace
  BY DEF PlacesInv, PlacesHeld
<1> QED
  BY <1>1, SpecPlaces, PTL

\* With no request let through on a failure and no reset, the row counts exactly
\* the places held and those lost (postgres.py, the UPDATEs of acquire and of
\* release).
THEOREM CounterIsExact == Spec => []CounterExact
<1>1. PlacesInv => CounterExact
  BY DEF PlacesInv, PlacesHeld, CountKept, CounterExact
<1> QED
  BY <1>1, SpecPlaces, PTL

\* Then at most max_concurrent operations are in flight, wherever their clients
\* run and however many crash (core.py:87).
THEOREM OperationsBounded ==
  Spec => [](failClosed /\ resetting = "no" => Cardinality(At({"operation"})) <= MaxConcurrent)
<1>1. ASSUME PlacesInv, failClosed, resetting = "no"
      PROVE  Cardinality(At({"operation"})) <= MaxConcurrent
  <2>1. owners = At(Holding) /\ count = Cardinality(owners) + leaked
    BY <1>1, PlacesFacts DEF CountKept
  <2>2. At({"operation"}) \subseteq owners
    BY <2>1 DEF At, Holding
  <2>3. Cardinality(At({"operation"})) <= Cardinality(owners) /\ Cardinality(At({"operation"})) \in Nat
    BY <1>1, <2>2, PlacesFacts, FiniteClients, FS_Subset
  <2>4. count <= MaxConcurrent
    BY <1>1, PlacesFacts, Parameters DEF FlowInv, TypeOK
  <2> QED
    BY <1>1, <2>1, <2>3, <2>4, PlacesFacts, Parameters
<1>2. PlacesInv => (failClosed /\ resetting = "no" =>
                      Cardinality(At({"operation"})) <= MaxConcurrent)
  BY <1>1
<1> QED
  BY <1>2, SpecPlaces, PTL
-----------------------------------------------------------------------------
(* Nobody waits for somebody who waits for him *)

\* Whoever has locked the row is in a transaction: connected, and not waiting.
LEMMA LockerGoesOn ==
  ASSUME FlowInv, locked # None
  PROVE  locked \in At(Connected) \ Blocked
<1>1. locked \in Clients
  BY DEF FlowInv, TypeOK
<1>2. pc[locked] \in Transaction
  BY <1>1 DEF FlowInv, Fits
<1> QED
  BY <1>1, <1>2 DEF At, Connected, Statements, Blocked, Transaction

\* A pool with no connection left has given one to somebody.
LEMMA ConnectionGoesOn ==
  ASSUME FlowInv, Cardinality(At(Connected)) >= poolSize
  PROVE  At(Connected) \ Blocked # {}
<1>1. poolSize \in Nat \ {0}
  BY PostgresAssumption DEF PostgresAssumption, FlowInv, TypeOK
<1>2. At(Connected) # {}
  <2>1. SUFFICES ASSUME At(Connected) = {} PROVE FALSE
    OBVIOUS
  <2>2. Cardinality(At(Connected)) = 0
    BY <2>1, FS_EmptySet
  <2> QED
    BY <1>1, <2>2
<1>3. CASE locked = None
  <2>1. Blocked = {}
    BY <1>3 DEF Blocked
  <2> QED
    BY <1>2, <2>1
<1>4. CASE locked # None
  BY <1>4, LockerGoesOn
<1> QED
  BY <1>3, <1>4

\* The clients, the pool and the row lock never wait for each other, for every
\* number of clients and connections: sleepers that keep their connections, a
\* transaction that is abandoned and a reset included.
THEOREM NobodyWaitsForAll == Spec => []NoCircularWait
<1>1. FlowInv => NoCircularWait
  <2> SUFFICES ASSUME FlowInv PROVE NoCircularWait
    OBVIOUS
  <2>1. Blocked # {} => locked # None
    BY DEF Blocked
  <2>2. Cardinality(At(Connected)) \in Nat /\ poolSize \in Nat
    <3>1. At(Connected) \in SUBSET Clients
      BY DEF At
    <3>2. poolSize \in Nat
      BY PostgresAssumption DEF PostgresAssumption, FlowInv, TypeOK
    <3> QED
      BY <3>1, <3>2, FiniteClients
  <2>3. Cardinality(At(Connected)) < poolSize \/ At(Connected) \ Blocked # {}
    BY <2>2, ConnectionGoesOn
  <2> QED
    BY <2>1, <2>3, LockerGoesOn DEF NoCircularWait
<1> QED
  BY <1>1, SpecFlow, PTL
=============================================================================

---------------------- MODULE PostgresRefinementProofs ----------------------
(***************************************************************************)
(* The PostgreSQL engine keeps what a limiter promises, with either        *)
(* algorithm and for every value of the constants.  That its rate and its  *)
(* places are respected is proved in PostgresLimiterProofs, of the times   *)
(* clients read before they waited; here the grants of the last Span ticks *)
(* are shown to be among those that count for those times.                 *)
(***************************************************************************)
EXTENDS PostgresViewer, PostgresLimiterProofs

\* The grants of the last Span ticks carry times that still count.
ServedKept ==
  /\ served \in Seq(0..Span-1) /\ Sorted(served)
  /\ Follows(served, granted, Span, MaxWait)

ServedInv == FlowInv /\ ServedKept

LEMMA SpanFacts ==
  ASSUME FlowInv
  PROVE  /\ Span \in Nat /\ MaxWait \in Nat
         /\ Span # 0 => 0..Span+MaxWait-1 = Recent /\ 0..MaxWait \subseteq Recent
         /\ TokenBucket => Span = BucketSpan /\ Quota = 1
         /\ ~TokenBucket => Span = WindowSpan /\ Quota = Limit
<1>1. CASE TokenBucket
  <2>1. Span = IF MaxWait < Required THEN Required - MaxWait ELSE 0
    BY <1>1 DEF Span, BucketSpan
  <2>2. Recent = 0..Required-1 /\ Quota = 1
    BY <1>1 DEF Recent, Quota
  <2> QED
    BY <1>1, <2>1, <2>2, Parameters DEF Span
<1>2. CASE ~TokenBucket
  <2>1. Span = Window - MaxWait + 1
    BY <1>2 DEF Span, WindowSpan
  <2>2. Recent = 0..Window /\ Quota = Limit
    BY <1>2 DEF Recent, Quota
  <2> QED
    BY <1>2, <2>1, <2>2, Parameters DEF Span
<1> QED
  BY <1>1, <1>2

LEMMA SpanStays ==
  ASSUME UNCHANGED config
  PROVE  UNCHANGED <<Span, Recent, Quota, TokenBucket>>
  BY DEF config, Span, BucketSpan, WindowSpan, Recent, Quota, TokenBucket, Required

\* Without a period nothing is counted.
LEMMA NoPeriod ==
  ASSUME Span = 0
  PROVE  \A s, f : Follows(s, f, Span, MaxWait)
<1>1. 0..Span-1 = {}
  OBVIOUS
<1> QED
  BY <1>1 DEF Follows

LEMMA NothingServed ==
  ASSUME FlowInv, NEW f, f \in [Recent -> Nat]
  PROVE  /\ <<>> \in Seq(0..Span-1) /\ Sorted(<<>>)
         /\ Follows(<<>>, f, Span, MaxWait)
<1>1. ASSUME Span # 0, NEW k \in 0..Span-1
      PROVE  Cardinality(Since(<<>>, k)) <= Total(f, 0..k+MaxWait)
  <2>1. Since(<<>>, k) = {}
    BY DEF Since
  <2>2. k + MaxWait \in Nat /\ 0..k+MaxWait \subseteq 0..Span+MaxWait-1
    BY SpanFacts
  <2>3. IsFiniteSet(0..k+MaxWait) /\ \A a \in 0..k+MaxWait : f[a] \in Nat
    BY <1>1, <2>2, FirstAges, SpanFacts
  <2>4. Total(f, 0..k+MaxWait) \in Nat
    BY <2>3, TotalType
  <2>5. Cardinality(Since(<<>>, k)) = 0
    BY <2>1, FS_EmptySet
  <2> QED
    BY <2>4, <2>5
<1> QED
  BY <1>1, NoPeriod DEF Follows, Sorted

\* A grant is counted by the time its client read, which is at most MaxWait old.
LEMMA GrantServed ==
  ASSUME ServedInv, NEW c \in Clients, pc[c] \in Statements, TakePlace(c), UNCHANGED config,
         served' = Grant(served, Span)
  PROVE  ServedKept'
<1>1. /\ served \in Seq(0..Span-1) /\ Sorted(served) /\ FlowInv /\ granted \in [Recent -> Nat]
      /\ Follows(served, granted, Span, MaxWait)
  BY DEF ServedInv, ServedKept, FlowInv, TypeOK
<1>2. timer[c] \in 0..MaxWait
  <2>1. Fits(c) /\ timer[c] \in Nat
    BY <1>1, FlowFacts
  <2>2. pc[c] \in Stamped
    BY DEF Stamped
  <2> QED
    BY <2>1, <2>2, Parameters DEF Fits
<1>3. served' \in Seq(0..Span-1) /\ Sorted(served')
  BY <1>1, SpanFacts, GrantTyped
<1>4. Follows(served', granted', Span, MaxWait)
  <2>1. CASE Span = 0
    BY <2>1, NoPeriod
  <2>2. CASE Span # 0
    <3>1. timer[c] \in Recent /\ 0..Span+MaxWait-1 = Recent
      BY <1>1, <1>2, <2>2, SpanFacts
    <3>2. granted' = [granted EXCEPT ![timer[c]] = @ + 1]
      BY <3>1 DEF TakePlace, Record
    <3>3. PICK g : g = granted'
      OBVIOUS
    <3>4. /\ \A a \in 0..Span+MaxWait-1 : granted[a] \in Nat
          /\ g[timer[c]] = granted[timer[c]] + 1
          /\ \A a \in (0..Span+MaxWait-1) \ {timer[c]} : g[a] = granted[a]
      BY <1>1, <3>1, <3>2, <3>3
    <3>5. Follows(Grant(served, Span), g, Span, MaxWait)
      BY <1>1, <1>2, <3>4, SpanFacts, FollowsGrant
    <3> QED
      BY <3>3, <3>5
  <2> QED
    BY <2>1, <2>2
<1> QED
  BY <1>3, <1>4, SpanStays DEF ServedKept

LEMMA TickServed ==
  ASSUME ServedInv, Tick, served' = Fresh(Older(served), Span)
  PROVE  ServedKept'
<1>1. /\ served \in Seq(0..Span-1) /\ Sorted(served) /\ FlowInv /\ granted \in [Recent -> Nat]
      /\ Follows(served, granted, Span, MaxWait)
      /\ granted' = [a \in Recent |-> IF a = 0 THEN 0 ELSE granted[a - 1]]
      /\ UNCHANGED config
  BY DEF ServedInv, ServedKept, FlowInv, TypeOK, Tick
<1>2. served' \in Seq(0..Span-1) /\ Sorted(served')
  BY <1>1, SpanFacts, OlderTyped
<1>3. Follows(served', granted', Span, MaxWait)
  <2>1. CASE Span = 0
    BY <2>1, NoPeriod
  <2>2. CASE Span # 0
    <3>1. PICK g : g = granted'
      OBVIOUS
    <3>2. /\ \A a \in 0..Span+MaxWait-1 : granted[a] \in Nat
          /\ \A a \in 0..Span+MaxWait-1 : g[a] \in Nat /\ (a # 0 => g[a] = granted[a - 1])
      <4>1. ASSUME NEW a \in Recent
            PROVE  granted[a] \in Nat /\ g[a] \in Nat /\ (a # 0 => g[a] = granted[a - 1])
        <5>1. a \in Nat /\ (a # 0 => a - 1 \in Recent)
          BY <1>1, RecentFacts
        <5> QED
          BY <1>1, <3>1, <5>1
      <4> QED
        BY <1>1, <2>2, <4>1, SpanFacts
    <3>3. PICK r : r = served'
      OBVIOUS
    <3>4. Follows(r, g, Span, MaxWait)
      BY <1>1, <3>2, <3>3, SpanFacts, FollowsOlder
    <3> QED
      BY <3>1, <3>3, <3>4
  <2> QED
    BY <2>1, <2>2
<1> QED
  BY <1>1, <1>2, <1>3, SpanStays DEF ServedKept

\* Steps that count no grant.
LEMMA OtherServed ==
  ASSUME ServedInv, UNCHANGED <<config, served, granted>>
  PROVE  ServedKept'
  BY SpanStays DEF ServedInv, ServedKept

LEMMA ResetServed ==
  ASSUME ServedInv, FlowInv', UNCHANGED config, served' = <<>>
  PROVE  ServedKept'
<1>1. FlowInv' /\ granted' \in [Recent' -> Nat]
  BY DEF FlowInv, TypeOK
<1>2. FlowInv /\ granted' \in [Recent -> Nat]
  BY <1>1, SpanStays DEF ServedInv
<1>3. PICK g : g = granted'
  OBVIOUS
<1>4. <<>> \in Seq(0..Span-1) /\ Sorted(<<>>) /\ Follows(<<>>, g, Span, MaxWait)
  BY <1>2, <1>3, NothingServed
<1> QED
  BY <1>3, <1>4, SpanStays DEF ServedKept

-----------------------------------------------------------------------------
(* What the clients do *)

ClientActs(c) ==
  \/ \E timeout \in 0..Never : Call(c, timeout)
  \/ Step(c) \/ FailOpen(c) \/ GiveUp(c)

\* A client moves without a grant: it leaves, or stays outside the places, or
\* inside, or is let through on a failure.
MovesOn(c) ==
  /\ pc'[c] = "granted" => pc[c] = "granted"
  /\ UNCHANGED <<config, granted>>
  /\ \E place : /\ pc' = [pc EXCEPT ![c] = place]
                /\ place = "idle" \/ (place \in Holding <=> pc[c] \in Holding) \/ ~failClosed

LEMMA RefuseMovesOn ==
  ASSUME FlowInv, NEW c \in Clients, pc[c] \in Statements, NEW place \in {"nap", "sleep"},
         NEW wait, Refuse(c, place, wait), UNCHANGED config
  PROVE  MovesOn(c)
<1>1. \E to \in {"idle", "nap", "sleep"} : pc' = [pc EXCEPT ![c] = to]
  BY DEF Refuse, Idle, Move
<1>2. UNCHANGED granted /\ pc \in [Clients -> Places]
  BY DEF Refuse, history, FlowInv, TypeOK
<1> QED
  BY <1>1, <1>2 DEF MovesOn, Statements, Holding

LEMMA MoveMovesOn ==
  ASSUME FlowInv, NEW c \in Clients, NEW place, pc' = [pc EXCEPT ![c] = place],
         place # "granted", UNCHANGED <<config, granted>>,
         place = "idle" \/ (place \in Holding <=> pc[c] \in Holding) \/ ~failClosed
  PROVE  MovesOn(c)
<1>1. pc'[c] = place
  BY DEF FlowInv, TypeOK
<1> QED
  BY <1>1 DEF MovesOn

LEMMA StatementMoves ==
  ASSUME FlowInv, NEW c \in Clients, Statement(c)
  PROVE  \/ pc[c] \in Statements /\ TakePlace(c) /\ UNCHANGED config
         \/ MovesOn(c)
<1>1. UNCHANGED config
  BY DEF Statement, SelectRow, UpdateRow, InsertRow, ReleaseRow, LockRow, CountEntries, Commit
<1>2. CASE SelectRow(c) \/ LockRow(c) \/ CountEntries(c)
  <2>1. pc[c] \in Statements
    BY <1>2 DEF SelectRow, LockRow, CountEntries, Statements
  <2>2. ASSUME NEW wait, Refuse(c, "nap", wait) PROVE MovesOn(c)
    BY <1>1, <2>1, <2>2, RefuseMovesOn
  <2>3. ASSUME NEW place \in {"insert", "update", "count", "commit", "nothing"},
               pc' = [pc EXCEPT ![c] = place], UNCHANGED history
        PROVE  MovesOn(c)
    <3>1. place # "granted" /\ (place \in Holding <=> pc[c] \in Holding) /\ UNCHANGED granted
      BY <2>1, <2>3 DEF Statements, Holding, history
    <3> QED
      BY <1>1, <2>3, <3>1, MoveMovesOn
  <2> QED
    BY <1>2, <2>2, <2>3 DEF SelectRow, LockRow, CountEntries
<1>3. CASE UpdateRow(c)
  <2>1. pc[c] \in Statements
    BY <1>3 DEF UpdateRow, Statements
  <2> QED
    BY <1>1, <1>3, <2>1, RefuseMovesOn DEF UpdateRow
<1>4. CASE InsertRow(c)
  <2>1. pc[c] \in Statements
    BY <1>4 DEF InsertRow, Statements
  <2>2. ASSUME NEW place \in {"count", "queue"}, pc' = [pc EXCEPT ![c] = place], UNCHANGED history
        PROVE  MovesOn(c)
    <3>1. place # "granted" /\ (place \in Holding <=> pc[c] \in Holding) /\ UNCHANGED granted
      BY <2>1, <2>2 DEF Statements, Holding, history
    <3> QED
      BY <1>1, <2>2, <3>1, MoveMovesOn
  <2> QED
    BY <1>1, <1>4, <2>1, <2>2 DEF InsertRow, InsertFirst, InsertAndLock, Move
<1>5. CASE Commit(c)
  <2>1. pc[c] \in Statements
    BY <1>5 DEF Commit, Statements
  <2> QED
    BY <1>1, <1>5, <2>1, RefuseMovesOn DEF Commit
<1>6. CASE ReleaseRow(c)
  <2>1. pc' = [pc EXCEPT ![c] = "idle"] /\ UNCHANGED granted
    BY <1>6 DEF ReleaseRow, Idle, Move
  <2> QED
    BY <1>1, <2>1, MoveMovesOn
<1> QED
  BY <1>2, <1>3, <1>4, <1>5, <1>6 DEF Statement

LEMMA ClientMoves ==
  ASSUME FlowInv, NEW c \in Clients, ClientActs(c)
  PROVE  \/ Step(c) /\ pc[c] \in Statements /\ TakePlace(c) /\ UNCHANGED config
         \/ MovesOn(c)
<1>1. CASE Statement(c)
  BY <1>1, StatementMoves DEF Step
<1>2. CASE Connect(c)
  <2>1. UNCHANGED <<config, granted>>
    BY <1>2 DEF Connect, history
  <2>2. CASE pc[c] = "queue" /\ pc' = [pc EXCEPT ![c] = "select"]
    BY <2>1, <2>2, MoveMovesOn DEF Holding
  <2>3. CASE pc[c] = "leaving" /\ pc' = [pc EXCEPT ![c] = "release"]
    BY <2>1, <2>3, MoveMovesOn DEF Holding
  <2> QED
    BY <1>2, <2>2, <2>3 DEF Connect, Move
<1>3. CASE Reply(c) \/ Finish(c)
  <2>1. UNCHANGED <<config, granted>>
    BY <1>3 DEF Reply, Finish, history
  <2>2. \E place \in {"operation", "leaving"} : pc' = [pc EXCEPT ![c] = place]
    BY <1>3 DEF Reply, Finish, Move
  <2>3. pc[c] \in Holding
    BY <1>3 DEF Reply, Finish, Holding
  <2> QED
    BY <2>1, <2>2, <2>3, MoveMovesOn DEF Holding
<1>4. CASE Wake(c) \/ \E timeout \in 0..Never : Call(c, timeout)
  <2>1. UNCHANGED <<config, granted>>
    BY <1>4 DEF Wake, Call, history
  <2>2. pc' = [pc EXCEPT ![c] = "queue"] /\ pc[c] \notin Holding
    BY <1>4 DEF Wake, Call, Move, Holding
  <2> QED
    BY <2>1, <2>2, MoveMovesOn DEF Holding
<1>5. CASE FailOpen(c)
  <2>1. pc' = [pc EXCEPT ![c] = "operation"] /\ ~failClosed /\ UNCHANGED <<config, granted>>
    BY <1>5 DEF FailOpen, Move, history
  <2> QED
    BY <2>1, MoveMovesOn
<1>6. CASE GiveUp(c)
  <2>1. pc' = [pc EXCEPT ![c] = "idle"] /\ UNCHANGED <<config, granted>>
    BY <1>6 DEF GiveUp, Idle, Move
  <2> QED
    BY <2>1, MoveMovesOn
<1> QED
  BY <1>1, <1>2, <1>3, <1>4, <1>5, <1>6 DEF ClientActs, Step

\* A statement grants and that is served, or neither.
ClientServes(c) ==
  \/ /\ pc[c] \in Statements /\ TakePlace(c) /\ UNCHANGED config
     /\ served' = Grant(served, Span)
  \/ MovesOn(c) /\ UNCHANGED served

LEMMA ServedSteps ==
  ASSUME FlowInv, ServedNext
  PROVE  \/ Tick /\ served' = Fresh(Older(served), Span)
         \/ (ResetRow \/ ResetWindow) /\ served' = <<>>
         \/ \E c \in Clients : ClientServes(c)
<1>1. ASSUME NEW c \in Clients, Step(c),
             served' = IF Grants(c) THEN Grant(served, Span) ELSE served
      PROVE  ClientServes(c)
  <2>1. CASE pc[c] \in Statements /\ TakePlace(c) /\ UNCHANGED config
    <3>1. Grants(c)
      BY <2>1 DEF Grants, TakePlace, Move, Statements, FlowInv, TypeOK
    <3> QED
      BY <1>1, <2>1, <3>1 DEF ClientServes
  <2>2. CASE MovesOn(c)
    <3>1. ~Grants(c)
      BY <2>2 DEF MovesOn, Grants
    <3> QED
      BY <1>1, <2>2, <3>1 DEF ClientServes
  <2> QED
    BY <1>1, <2>1, <2>2, ClientMoves DEF ClientActs
<1>2. ASSUME NEW c \in Clients, UNCHANGED served,
             (\E timeout \in 0..Never : Call(c, timeout)) \/ FailOpen(c) \/ GiveUp(c)
      PROVE  ClientServes(c)
  <2>1. ~TakePlace(c)
    <3>1. pc'[c] # "granted"
      BY <1>2 DEF Call, FailOpen, GiveUp, Idle, Move, FlowInv, TypeOK
    <3> QED
      BY <3>1 DEF TakePlace, Move, FlowInv, TypeOK
  <2> QED
    BY <1>2, <2>1, ClientMoves DEF ClientServes, ClientActs
<1> QED
  BY <1>1, <1>2 DEF ServedNext, ServedTick, ServedStep

LEMMA ServedStepsAreSteps ==
  ASSUME [ServedNext]_<<vars, served>>
  PROVE  [Next]_vars
  BY DEF ServedNext, ServedTick, ServedStep, Next

LEMMA NextServed ==
  ASSUME ServedInv, [ServedNext]_<<vars, served>>
  PROVE  ServedInv'
<1>1. FlowInv /\ FlowInv'
  BY ServedStepsAreSteps, NextFlow DEF ServedInv
<1>2. CASE UNCHANGED <<vars, served>>
  <2>1. UNCHANGED <<config, served, granted>>
    BY <1>2 DEF vars, history
  <2> QED
    BY <1>1, <2>1, OtherServed DEF ServedInv
<1>3. CASE (ResetRow \/ ResetWindow) /\ served' = <<>>
  <2>1. UNCHANGED config
    BY <1>3 DEF ResetRow, ResetWindow
  <2> QED
    BY <1>1, <1>3, <2>1, ResetServed DEF ServedInv
<1>4. ASSUME NEW c \in Clients, ClientServes(c) PROVE ServedKept'
  BY <1>4, GrantServed, OtherServed DEF ClientServes, MovesOn
<1>5. CASE ServedNext
  BY <1>1, <1>3, <1>4, <1>5, ServedSteps, TickServed DEF ServedInv
<1> QED
  BY <1>2, <1>5

LEMMA SpecServed == ServedSpec => []ServedInv
<1>1. ServedInit => ServedInv
  <2> SUFFICES ASSUME ServedInit PROVE ServedInv
    OBVIOUS
  <2>1. FlowInv /\ served = <<>>
    BY InitFlow DEF ServedInit
  <2>2. granted \in [Recent -> Nat]
    BY <2>1 DEF FlowInv, TypeOK
  <2> QED
    BY <2>1, <2>2, NothingServed DEF ServedInv, ServedKept
<1> QED
  BY <1>1, NextServed, PTL DEF ServedSpec

LEMMA ServedSpecIsSpec == ServedSpec => Spec
<1>1. ServedInit => Init
  BY DEF ServedInit
<1> QED
  BY <1>1, ServedStepsAreSteps, PTL DEF ServedSpec, Spec

-----------------------------------------------------------------------------
(* What the callers see *)

Unseen == UNCHANGED <<served, At(Holding)>>

\* A place is taken with a grant, while both are left.
Serves(c) ==
  /\ c \notin At(Holding)
  /\ Cardinality(At(Holding)) < MaxConcurrent
  /\ At(Holding)' = At(Holding) \cup {c}
  /\ Span > 0 => Len(served) < Quota
  /\ served' = Grant(served, Span)

Ends(c) ==
  /\ c \in At(Holding)
  /\ At(Holding)' = At(Holding) \ {c}
  /\ UNCHANGED served

Passes ==
  /\ served' = Fresh(Older(served), Span)
  /\ UNCHANGED At(Holding)

LEMMA MoveChangesHolders ==
  ASSUME FlowInv, NEW c \in Clients, NEW place, pc' = [pc EXCEPT ![c] = place]
  PROVE  /\ place \in Holding => At(Holding)' = At(Holding) \cup {c}
         /\ place \notin Holding => At(Holding)' = At(Holding) \ {c}
  BY DEF FlowInv, TypeOK, At

\* What the engine counts after a grant has room for it.
LEMMA GrantSeen ==
  ASSUME ServedInv, ServedInv', PlacesInv', RateRespected', AsPromised',
         NEW c \in Clients, pc[c] \in Statements, TakePlace(c), UNCHANGED config,
         served' = Grant(served, Span)
  PROVE  Serves(c)
<1>1. FlowInv /\ pc' = [pc EXCEPT ![c] = "granted"]
  BY DEF ServedInv, TakePlace, Move
<1>2. c \notin At(Holding)
  BY DEF At, Holding, Statements
<1>3. At(Holding)' = At(Holding) \cup {c}
  <2>1. "granted" \in Holding
    BY DEF Holding
  <2> QED
    BY <1>1, <2>1, MoveChangesHolders
<1>4. Cardinality(At(Holding)) < MaxConcurrent
  <2>1. /\ owners' = At(Holding)' /\ count' = Cardinality(owners') + leaked'
        /\ count' \in 0..MaxConcurrent /\ leaked' \in Nat
    BY DEF PlacesInv, RateInv, FlowInv, TypeOK, PlacesHeld, CountKept, AsPromised
  <2>2. At(Holding) \in SUBSET Clients
    BY DEF At
  <2>3. /\ Cardinality(At(Holding) \cup {c}) = Cardinality(At(Holding)) + 1
        /\ Cardinality(At(Holding)) \in Nat
    BY <1>2, <2>2, FiniteClients
  <2>4. Cardinality(owners') = Cardinality(At(Holding)) + 1
    BY <1>3, <2>1, <2>3
  <2> QED
    BY <2>1, <2>3, <2>4, Parameters
<1>5. ASSUME Span > 0 PROVE Len(served) < Quota
  <2>1. /\ Span \in Nat \ {0} /\ 0..Span+MaxWait-1 = Recent /\ MaxWait \in Nat
        /\ served \in Seq(0..Span-1)
    BY <1>1, <1>5, SpanFacts DEF ServedInv, ServedKept
  <2>2. PICK r, g : r = served' /\ g = granted'
    OBVIOUS
  <2>3. /\ r \in Seq(0..Span-1) /\ Follows(r, g, Span, MaxWait)
        /\ g \in [Recent -> Nat] /\ Total(g, Recent) <= Quota
    BY <2>2, SpanStays DEF ServedInv, ServedKept, FlowInv, TypeOK, RateRespected, Undisturbed,
                           AsPromised
  <2>4. Len(r) <= Total(g, Recent)
    BY <2>1, <2>3, FollowsLen
  <2>5. Total(g, Recent) \in Nat
    BY <1>1, <2>3, RecentFacts, TotalType
  <2>6. r = Append(served, 0)
    BY <1>5, <2>2 DEF Grant
  <2>7. Len(served) \in Nat /\ Len(r) = Len(served) + 1
    BY <2>1, <2>6
  <2>8. Quota \in Nat
    BY Parameters DEF Quota
  <2> QED
    BY <2>3, <2>4, <2>5, <2>7, <2>8
<1> QED
  BY <1>2, <1>3, <1>4, <1>5 DEF Serves

\* Every step is one of a limiter, or nothing to its callers.
LEMMA StepsSeen ==
  ASSUME ServedInv, ServedInv', PlacesInv', RateRespected', AsPromised',
         [ServedNext]_<<vars, served>>
  PROVE  \/ Unseen \/ Passes
         \/ \E c \in Clients : Serves(c) \/ Ends(c)
<1>1. FlowInv /\ AsPromised' /\ (UNCHANGED config => failClosed)
  BY DEF ServedInv, AsPromised, config
<1>2. CASE UNCHANGED <<vars, served>>
  BY <1>2 DEF Unseen, vars, local, At
<1>3. CASE Tick /\ served' = Fresh(Older(served), Span)
  BY <1>3 DEF Passes, Tick, At
<1>4. CASE (ResetRow \/ ResetWindow) /\ served' = <<>>
  BY <1>4 DEF ResetRow, ResetWindow, AsPromised
<1>5. ASSUME NEW c \in Clients, ClientServes(c)
      PROVE  Unseen \/ Serves(c) \/ Ends(c)
  <2>1. CASE MovesOn(c) /\ UNCHANGED served
    <3>1. PICK place : /\ pc' = [pc EXCEPT ![c] = place]
                       /\ place = "idle" \/ (place \in Holding <=> pc[c] \in Holding)
      BY <1>1, <2>1 DEF MovesOn
    <3>2. c \in At(Holding) <=> pc[c] \in Holding
      BY DEF At
    <3>3. CASE place \in Holding <=> pc[c] \in Holding
      BY <1>1, <2>1, <3>1, <3>2, <3>3, MoveChangesHolders DEF Unseen
    <3>4. CASE place = "idle" /\ pc[c] \in Holding
      <4>1. place \notin Holding
        BY <3>4 DEF Holding
      <4> QED
        BY <1>1, <2>1, <3>1, <3>2, <3>4, <4>1, MoveChangesHolders DEF Ends
    <3>5. "idle" \notin Holding
      BY DEF Holding
    <3> QED
      BY <3>1, <3>3, <3>4, <3>5
  <2>2. CASE ~(MovesOn(c) /\ UNCHANGED served)
    BY <1>5, <2>2, GrantSeen DEF ClientServes
  <2> QED
    BY <2>1, <2>2
<1> QED
  BY <1>1, <1>2, <1>3, <1>4, <1>5, ServedSteps

\* LimiterPromise reads the operators it is built from in the same way.
LEMMA SharedOperators ==
  /\ \A S : Bucket!Cardinality(S) = Cardinality(S) /\ Sliding!Cardinality(S) = Cardinality(S)
  /\ \A ages, span : /\ Bucket!Grant(ages, span) = Grant(ages, span)
                     /\ Sliding!Grant(ages, span) = Grant(ages, span)
                     /\ Bucket!Fresh(ages, span) = Fresh(ages, span)
                     /\ Sliding!Fresh(ages, span) = Fresh(ages, span)
  /\ \A ages : Bucket!Older(ages) = Older(ages) /\ Sliding!Older(ages) = Older(ages)
<1>1. \A S : Bucket!Cardinality(S) = Cardinality(S) /\ Sliding!Cardinality(S) = Cardinality(S)
  BY DEF Bucket!Cardinality, Sliding!Cardinality, Cardinality
<1>2. \A ages, span : /\ Bucket!Grant(ages, span) = Grant(ages, span)
                      /\ Sliding!Grant(ages, span) = Grant(ages, span)
  BY DEF Bucket!Grant, Sliding!Grant, Grant
<1>3. \A ages, span : /\ Bucket!Fresh(ages, span) = Fresh(ages, span)
                      /\ Sliding!Fresh(ages, span) = Fresh(ages, span)
  BY <1>1 DEF Bucket!Fresh, Sliding!Fresh, Fresh
<1>4. \A ages : Bucket!Older(ages) = Older(ages) /\ Sliding!Older(ages) = Older(ages)
  BY DEF Bucket!Older, Sliding!Older, Older
<1> QED
  BY <1>1, <1>2, <1>3, <1>4

LEMMA BucketPromised ==
  ASSUME FlowInv, TokenBucket, Passes \/ \E c \in Clients : Serves(c) \/ Ends(c)
  PROVE  Bucket!Next
<1>1. Span = BucketSpan /\ Quota = 1
  BY SpanFacts
<1>2. Passes => Bucket!Tick
  BY <1>1, SharedOperators DEF Passes, Bucket!Tick
<1>3. \A c \in Clients : Serves(c) => Bucket!PayAndStart(c)
  BY <1>1, SharedOperators DEF Serves, Bucket!PayAndStart, Bucket!GrantRate
<1>4. \A c \in Clients : Ends(c) => Bucket!Finish(c)
  BY DEF Ends, Bucket!Finish
<1> QED
  BY <1>2, <1>3, <1>4 DEF Bucket!Next

LEMMA SlidingPromised ==
  ASSUME FlowInv, ~TokenBucket, Passes \/ \E c \in Clients : Serves(c) \/ Ends(c)
  PROVE  Sliding!Next
<1>1. Span = WindowSpan /\ Quota = Limit
  BY SpanFacts
<1>2. Passes => Sliding!Tick
  BY <1>1, SharedOperators DEF Passes, Sliding!Tick
<1>3. \A c \in Clients : Serves(c) => Sliding!PayAndStart(c)
  BY <1>1, SharedOperators DEF Serves, Sliding!PayAndStart, Sliding!GrantRate
<1>4. \A c \in Clients : Ends(c) => Sliding!Finish(c)
  BY DEF Ends, Sliding!Finish
<1> QED
  BY <1>2, <1>3, <1>4 DEF Sliding!Next

\* The PostgreSQL engine does what a limiter promises its callers (core.py,
\* RateLimiter; postgres.py, the UPDATE that compares versions and the transaction
\* that locks the row), counted when the statement grants, for a period shorter
\* than the interval or the window by the longest time a client waits: until
\* somebody resets the group, when failures are not turned into grants.
THEOREM EngineKeepsPromise == ServedSpec => KeepsPromise
<1>1. ServedInit => Bucket!Init
  BY DEF ServedInit, Init, Bucket!Init, At, Holding
<1>2. /\ ServedInv /\ ServedInv' /\ PlacesInv' /\ RateRespected'
      /\ [ServedNext]_<<vars, served>>
      => [AsPromised' => IF TokenBucket THEN Bucket!Next ELSE Sliding!Next]_(Bucket!vars)
  <2> SUFFICES ASSUME ServedInv, ServedInv', PlacesInv', RateRespected', AsPromised',
                      [ServedNext]_<<vars, served>>,
                      ~UNCHANGED Bucket!vars
               PROVE  IF TokenBucket THEN Bucket!Next ELSE Sliding!Next
    OBVIOUS
  <2>1. ~Unseen
    BY DEF Unseen, Bucket!vars
  <2>2. Passes \/ \E c \in Clients : Serves(c) \/ Ends(c)
    BY <2>1, StepsSeen
  <2> QED
    BY <2>2, BucketPromised, SlidingPromised DEF ServedInv
<1> QED
  BY <1>1, <1>2, SpecServed, ServedSpecIsSpec, SpecPlaces, RateKept, PTL
     DEF ServedSpec, KeepsPromise

-----------------------------------------------------------------------------
(* What get_state answers *)

\* The window has room for a grant of this moment.
Room == Total(Prune(entries, 0), 0..Expired) < Limit

ViewInv ==
  /\ FlowInv
  /\ view \in {"away", "counted", "allowed"}
  /\ wasFree \in BOOLEAN /\ failed \in BOOLEAN
  /\ view = "counted" => SlidingWindow /\ (wasFree \/ (Room /\ count >= MaxConcurrent))
  /\ AllowedWasFree

\* While every place is taken no client can enter the window.
LEMMA NoEntry ==
  ASSUME FlowInv, Next, SlidingWindow, count >= MaxConcurrent
  PROVE  \/ entries' \in {entries, Aged(entries), Nothing}
         \/ \E age \in Nat : entries' = Prune(entries, age)
<1>1. ASSUME NEW c \in Clients, Commit(c)
      PROVE  \E age \in Nat : entries' = Prune(entries, age)
  <2>1. timer[c] \in Nat /\ Fits(c) /\ count \in Nat
    BY FlowFacts, Parameters DEF TypeOK
  <2>2. pc[c] # "commit"
    BY <2>1, Parameters DEF Fits, Transaction
  <2> QED
    BY <1>1, <2>1, <2>2 DEF Commit
<1>2. ASSUME NEW c \in Clients, SelectRow(c) \/ UpdateRow(c) \/ InsertRow(c) \/ ReleaseRow(c)
                                \/ LockRow(c) \/ CountEntries(c)
      PROVE  entries' = entries
  BY <1>2 DEF SelectRow, UpdateRow, InsertRow, InsertFirst, InsertAndLock, ReleaseRow, LockRow,
              CountEntries, server
<1>3. ASSUME NEW c \in Clients, Connect(c) \/ Reply(c) \/ Wake(c) \/ Finish(c)
                                \/ FailOpen(c) \/ GiveUp(c)
                                \/ \E timeout \in 0..Never : Call(c, timeout)
      PROVE  entries' = entries
  BY <1>3 DEF Connect, Reply, Wake, Finish, FailOpen, GiveUp, Call, Leave, server
<1>4. Tick => entries' = Aged(entries)
  BY DEF Tick
<1>5. ResetRow \/ ResetWindow => entries' \in {entries, Nothing}
  BY DEF ResetRow, ResetWindow
<1> QED
  BY <1>1, <1>2, <1>3, <1>4, <1>5 DEF Next, Step, Statement

LEMMA PrunedLess ==
  ASSUME NEW f \in [0..Expired -> Nat], NEW age \in Nat
  PROVE  Total(Prune(Prune(f, age), 0), 0..Expired) <= Total(Prune(f, 0), 0..Expired)
<1>1. PICK g : g = Prune(f, 0)
  OBVIOUS
<1>2. PICK h : h = Prune(f, age)
  OBVIOUS
<1>3. PICK r : r = Prune(h, 0)
  OBVIOUS
<1>4. ASSUME NEW a \in 0..Expired PROVE r[a] <= g[a]
  <2>1. g \in [0..Expired -> Nat] /\ (a <= Window + 0 => g[a] = f[a])
    BY <1>1, PruneTyped
  <2>2. h \in [0..Expired -> Nat] /\ h[a] <= f[a]
    BY <1>2, PruneTyped
  <2>3. r \in [0..Expired -> Nat] /\ r[a] <= h[a] /\ (a > Window + 0 => r[a] = 0)
    <3>1. h \in [0..Expired -> Nat] /\ 0 \in Nat
      BY <2>2
    <3> QED
      BY <1>3, <3>1, PruneTyped
  <2>4. /\ f[a] \in Nat /\ g[a] \in Nat /\ h[a] \in Nat /\ r[a] \in Nat
        /\ a \in Int /\ Window + 0 \in Int
    BY <2>1, <2>2, <2>3, Parameters
  <2> QED
    BY <2>1, <2>2, <2>3, <2>4
<1>5. g \in [0..Expired -> Nat] /\ r \in [0..Expired -> Nat]
  <2>1. h \in [0..Expired -> Nat]
    BY <1>2, PruneTyped
  <2> QED
    BY <1>1, <1>3, <2>1, PruneTyped
<1>6. Total(r, 0..Expired) <= Total(g, 0..Expired)
  BY <1>4, <1>5, Ranges, TotalMonotone
<1> QED
  BY <1>1, <1>2, <1>3, <1>6

LEMMA AgedLess ==
  ASSUME NEW f \in [0..Expired -> Nat]
  PROVE  Total(Prune(Aged(f), 0), 0..Expired) <= Total(Prune(f, 0), 0..Expired)
<1>1. PICK g : g = Prune(f, 0)
  OBVIOUS
<1>2. PICK h : h = Aged(f)
  OBVIOUS
<1>3. PICK r : r = Prune(h, 0)
  OBVIOUS
<1>4. /\ h \in [0..Expired -> Nat]
      /\ \A a \in 0..Expired : a = 0 => h[a] = 0
      /\ \A a \in 0..Expired : a # 0 /\ a < Expired => h[a] = f[a - 1]
  BY <1>2, Parameters DEF Aged
<1>5. /\ g \in [0..Expired -> Nat] /\ r \in [0..Expired -> Nat]
      /\ \A a \in 0..Expired : a <= Window + 0 => g[a] = f[a] /\ r[a] = h[a]
      /\ \A a \in 0..Expired : a > Window + 0 => r[a] = 0
  <2>1. g \in [0..Expired -> Nat] /\ \A a \in 0..Expired : a <= Window + 0 => g[a] = f[a]
    BY <1>1, PruneTyped
  <2>2. /\ r \in [0..Expired -> Nat]
        /\ \A a \in 0..Expired : a <= Window + 0 => r[a] = h[a]
        /\ \A a \in 0..Expired : a > Window + 0 => r[a] = 0
    <3>1. h \in [0..Expired -> Nat] /\ 0 \in Nat
      BY <1>4
    <3> QED
      BY <1>3, <3>1, PruneTyped
  <2> QED
    BY <2>1, <2>2
<1>6. IsFiniteSet(0..Expired) /\ IsFiniteSet(0..Window)
  BY Ranges
<1>7. Total(r, 0..Expired) <= Total(r, 0..Window)
  <2>1. \A a \in 0..Expired : r[a] \in Nat /\ (r[a] > 0 => a \in 0..Window /\ r[a] <= r[a])
    BY <1>5, Parameters
  <2>2. \A a \in 0..Window : r[a] \in Nat
    BY <1>5, Parameters
  <2> QED
    BY <1>6, <2>1, <2>2, TotalWithin
<1>8. Total(r, 0..Window) <= Total(g, 0..Expired)
  <2>1. ASSUME NEW a \in 0..Window
        PROVE  /\ a \in Nat /\ (a = 0 => r[a] = 0)
               /\ a # 0 => a - 1 \in 0..Expired /\ r[a] = g[a - 1]
    BY <1>4, <1>5, Parameters
  <2> QED
    BY <1>5, <1>6, <2>1, TotalShift
<1>9. /\ Total(r, 0..Expired) \in Nat /\ Total(r, 0..Window) \in Nat
      /\ Total(g, 0..Expired) \in Nat
  <2>1. \A a \in 0..Window : r[a] \in Nat
    BY <1>5, Parameters
  <2> QED
    BY <1>5, <1>6, <2>1, TotalType
<1> QED
  BY <1>1, <1>2, <1>3, <1>7, <1>8, <1>9

LEMMA RoomStays ==
  ASSUME FlowInv, [Next]_vars, SlidingWindow, count >= MaxConcurrent, Room
  PROVE  Room'
<1>1. entries \in [0..Expired -> Nat]
  BY DEF FlowInv, TypeOK
<1>2. \/ entries' \in {entries, Aged(entries), Nothing}
      \/ \E age \in Nat : entries' = Prune(entries, age)
  BY NoEntry DEF vars, server
<1>3. Total(Prune(entries, 0), 0..Expired) \in Nat
  <2>1. Prune(entries, 0) \in [0..Expired -> Nat]
    BY <1>1, PruneTyped
  <2>2. IsFiniteSet(0..Expired)
    BY Parameters, FS_Interval
  <2>3. PICK g : g = Prune(entries, 0)
    OBVIOUS
  <2>4. Total(g, 0..Expired) \in Nat
    BY <2>1, <2>2, <2>3, TotalType
  <2> QED
    BY <2>3, <2>4
<1>4. Total(Prune(Nothing, 0), 0..Expired) = 0
  <2>1. \A a \in 0..Expired : Prune(Nothing, 0)[a] = 0
    BY DEF Prune, Nothing
  <2> QED
    BY <2>1, TotalZero
<1>5. PICK ages : ages = entries'
  OBVIOUS
<1>6. Total(Prune(ages, 0), 0..Expired) < Limit
  <2>1. CASE ages = entries
    BY <2>1 DEF Room
  <2>2. CASE ages = Nothing
    BY <1>4, <2>2, Parameters
  <2>3. ASSUME Total(Prune(ages, 0), 0..Expired) <= Total(Prune(entries, 0), 0..Expired),
               ages \in [0..Expired -> Nat]
        PROVE  Total(Prune(ages, 0), 0..Expired) < Limit
    <3>1. IsFiniteSet(0..Expired) /\ Prune(ages, 0) \in [0..Expired -> Nat]
      <4>1. Prune(ages, 0) \in [0..Expired -> Nat]
        BY <2>3, PruneTyped
      <4> QED
        BY <4>1, Ranges
    <3>2. PICK g : g = Prune(ages, 0)
      OBVIOUS
    <3>3. Total(g, 0..Expired) \in Nat
      BY <3>1, <3>2, TotalType
    <3> QED
      BY <1>3, <2>3, <3>2, <3>3, Parameters DEF Room
  <2>4. CASE ages = Aged(entries)
    <3>1. ages \in [0..Expired -> Nat]
      BY <1>1, <2>4, Parameters DEF Aged
    <3> QED
      BY <1>1, <2>3, <2>4, <3>1, AgedLess
  <2>5. ASSUME NEW age \in Nat, ages = Prune(entries, age)
        PROVE  Total(Prune(ages, 0), 0..Expired) < Limit
    BY <1>1, <2>3, <2>5, PrunedLess, PruneTyped
  <2> QED
    BY <1>2, <1>5, <2>1, <2>2, <2>4, <2>5
<1> QED
  BY <1>5, <1>6 DEF Room, Prune

\* Reading the entries of a longer window finds those of this moment's.
LEMMA CountFinds ==
  ASSUME FlowInv, NEW stamp \in 0..MaxWait, Total(entries, 0..Window+stamp) < Limit
  PROVE  Room
<1>1. /\ entries \in [0..Expired -> Nat] /\ stamp \in Nat
      /\ Window+stamp \in Nat /\ 0..Window+stamp \subseteq 0..Expired
  BY Parameters DEF FlowInv, TypeOK
<1>2. PICK g : g = Prune(entries, 0)
  OBVIOUS
<1>3. /\ g \in [0..Expired -> Nat]
      /\ \A a \in 0..Expired : g[a] <= entries[a]
      /\ \A a \in 0..Expired : a > Window + 0 => g[a] = 0
  BY <1>1, <1>2, PruneTyped
<1>4. \A a \in 0..Expired : g[a] > 0 => a \in 0..Window+stamp /\ g[a] <= entries[a]
  BY <1>1, <1>3, Parameters
<1>5. IsFiniteSet(0..Window+stamp) /\ IsFiniteSet(0..Expired)
  BY <1>1, Parameters, FS_Interval
<1>6. \A a \in 0..Window+stamp : entries[a] \in Nat
  BY <1>1
<1>7. Total(g, 0..Expired) <= Total(entries, 0..Window+stamp)
  BY <1>3, <1>4, <1>5, <1>6, TotalWithin
<1>8. Total(g, 0..Expired) \in Nat /\ Total(entries, 0..Window+stamp) \in Nat
  BY <1>3, <1>5, <1>6, TotalType
<1> QED
  BY <1>2, <1>7, <1>8, Parameters DEF Room

LEMMA ViewStepsAreSteps ==
  ASSUME [ViewNext]_<<vars, served, viewing>>
  PROVE  [Next]_vars /\ [ServedNext]_<<vars, served>>
<1>1. ServedNext \/ UNCHANGED <<vars, served>>
  BY DEF ViewNext, StateRow, StateCount, StatePlaces, StateFails, StateEnds
<1> QED
  BY <1>1, ServedStepsAreSteps

LEMMA ConfigStays ==
  ASSUME ServedNext
  PROVE  UNCHANGED config
  BY DEF ServedNext, ServedTick, ServedStep, Tick, ResetRow, ResetWindow, Call, FailOpen, GiveUp,
         Step, Connect, Reply, Wake, Finish, Statement, SelectRow, UpdateRow, InsertRow,
         ReleaseRow, LockRow, CountEntries, Commit

LEMMA TurnFacts ==
  ASSUME NEW place, NEW free \in BOOLEAN, Turn(place, free)
  PROVE  /\ view' = place /\ failed' = FALSE /\ wasFree' \in BOOLEAN
         /\ wasFree' <=> place # "away" /\ free
  BY Zenon DEF Turn

LEMMA FreeSplit ==
  /\ Free \in BOOLEAN
  /\ TokenBucket => (Free <=> (row => (Period = 0 \/ last >= Required) /\ count < MaxConcurrent))
  /\ SlidingWindow => (Free <=> Room /\ count < MaxConcurrent)
  BY DEF Free, Room, TokenBucket, SlidingWindow

LEMMA WatchKeeps ==
  ASSUME ViewInv, ServedNext, Watch
  PROVE  ViewInv'
<1>1. FlowInv /\ FlowInv' /\ [Next]_vars /\ UNCHANGED config /\ count' \in Nat
  <2>1. [Next]_vars /\ UNCHANGED config
    BY ServedStepsAreSteps, ConfigStays
  <2>2. FlowInv'
    BY <2>1, NextFlow DEF ViewInv
  <2>3. count' \in Nat
    BY <2>2, Parameters DEF FlowInv, TypeOK
  <2> QED
    BY <2>1, <2>2, <2>3 DEF ViewInv
<1>2. /\ view' = view /\ view # "allowed" /\ failed' \in BOOLEAN /\ wasFree' \in BOOLEAN
      /\ view = "counted" => (wasFree' <=> wasFree \/ Free')
  <2>1. wasFree \in BOOLEAN
    BY DEF ViewInv
  <2>2. (wasFree \/ Free') \in BOOLEAN
    BY SMT
  <2>3. /\ view' = view /\ view # "allowed" /\ failed' = FALSE /\ wasFree' \in BOOLEAN
        /\ wasFree' <=> view # "away" /\ (wasFree \/ Free')
    BY Zenon, <2>2 DEF Watch, Turn
  <2> QED
    BY Zenon, <2>3
<1>3. ASSUME view = "counted"
      PROVE  SlidingWindow' /\ (wasFree' \/ (Room' /\ count' >= MaxConcurrent))
  <2>1. SlidingWindow /\ SlidingWindow' /\ (Free' <=> Room' /\ count' < MaxConcurrent)
    <3>1. SlidingWindow /\ SlidingWindow'
      BY <1>1, <1>3 DEF ViewInv, SlidingWindow, config
    <3> QED
      BY <3>1 DEF Free, Room, SlidingWindow, TokenBucket
  <2>2. CASE wasFree'
    BY Zenon, <2>1, <2>2
  <2>3. CASE ~wasFree'
    <3>1. ~wasFree /\ ~Free'
      BY Zenon, <1>2, <1>3, <2>3
    <3>2. Room /\ count >= MaxConcurrent
      BY Zenon, <1>3, <3>1 DEF ViewInv
    <3>3. Room'
      BY <1>1, <2>1, <3>2, RoomStays
    <3>4. ~(count' < MaxConcurrent)
      BY Zenon, <2>1, <3>1, <3>3
    <3>5. count' >= MaxConcurrent
      BY <1>1, <3>4, Parameters
    <3> QED
      BY Zenon, <2>1, <3>3, <3>5
  <2> QED
    BY Zenon, <2>2, <2>3
<1>4. view' \in {"away", "counted", "allowed"} /\ view' # "allowed"
  BY Zenon, <1>2 DEF ViewInv
<1> QED
  BY Zenon, <1>1, <1>2, <1>3, <1>4 DEF ViewInv, AllowedWasFree

LEMMA StateKeeps ==
  ASSUME ViewInv, UNCHANGED <<vars, served>>,
         \/ \E stamp \in 0..MaxWait : StateRow(stamp) \/ StateCount(stamp)
         \/ StatePlaces \/ StateFails \/ StateEnds
  PROVE  ViewInv'
<1>1. FlowInv /\ FlowInv' /\ (~row => count = 0) /\ count \in Nat /\ last \in Nat
  <2>1. FlowInv /\ FlowInv'
    BY NextFlow DEF ViewInv
  <2>2. (~row => count = 0) /\ count \in 0..MaxConcurrent /\ last \in 0..Old
    BY <2>1 DEF FlowInv, TypeOK
  <2> QED
    BY <2>1, <2>2, Parameters
<1>2. /\ UNCHANGED <<algorithm, failClosed, row, last, count, entries>>
      /\ SlidingWindow' = SlidingWindow /\ Room' = Room
  BY DEF vars, config, server, SlidingWindow, Room, Prune
\* What a step of get_state has to show.
<1> DEFINE Kept(to) ==
      /\ view' = to /\ wasFree' \in BOOLEAN /\ failed' \in BOOLEAN
      /\ to = "counted" => SlidingWindow /\ (wasFree' \/ (Room /\ count >= MaxConcurrent))
      /\ to = "allowed" => wasFree' \/ (failed' /\ ~failClosed)
<1>3. ASSUME NEW to \in {"away", "counted", "allowed"}, Kept(to)
      PROVE  ViewInv'
  <2>1. AllowedWasFree'
    BY Zenon, <1>2, <1>3 DEF AllowedWasFree
  <2>2. view' = "counted" => SlidingWindow' /\ (wasFree' \/ (Room' /\ count' >= MaxConcurrent))
    BY Zenon, <1>2, <1>3
  <2> QED
    BY Zenon, <1>1, <1>3, <2>1, <2>2 DEF ViewInv
<1>4. ASSUME NEW stamp \in 0..MaxWait, StateRow(stamp)
      PROVE  \E to \in {"away", "counted", "allowed"} : Kept(to)
  <2> DEFINE allowed == row => (Period = 0 \/ last >= stamp + Period) /\ count < MaxConcurrent
  <2>1. TokenBucket /\ Turn(IF allowed THEN "allowed" ELSE "away", Free)
    BY Zenon, <1>4 DEF StateRow
  <2>2. allowed => Free
    <3>1. last >= stamp + Period => last >= Required
      BY <1>1, Parameters
    <3> QED
      BY <2>1, <3>1, FreeSplit
  <2> HIDE DEF allowed
  <2>3. CASE allowed
    BY Zenon, <2>1, <2>2, <2>3, FreeSplit, TurnFacts
  <2>4. CASE ~allowed
    BY Zenon, <2>1, <2>4, FreeSplit, TurnFacts
  <2> QED
    BY Zenon, <2>3, <2>4
<1>5. ASSUME NEW stamp \in 0..MaxWait, StateCount(stamp)
      PROVE  \E to \in {"away", "counted", "allowed"} : Kept(to)
  <2> DEFINE room == Total(entries, 0..Window+stamp) < Limit
  <2>1. SlidingWindow /\ Turn(IF room THEN "counted" ELSE "away", Free)
    BY Zenon, <1>5 DEF StateCount
  <2>2. room => Room
    BY <1>1, CountFinds
  <2> HIDE DEF room
  <2>3. CASE room
    <3>1. Free \/ count >= MaxConcurrent
      <4>1. count < MaxConcurrent \/ count >= MaxConcurrent
        BY <1>1, Parameters
      <4> QED
        BY Zenon, <2>1, <2>2, <2>3, <4>1, FreeSplit
    <3> QED
      BY Zenon, <2>1, <2>2, <2>3, <3>1, FreeSplit, TurnFacts
  <2>4. CASE ~room
    BY Zenon, <2>1, <2>4, FreeSplit, TurnFacts
  <2> QED
    BY Zenon, <2>3, <2>4
<1>6. ASSUME StatePlaces PROVE \E to \in {"away", "counted", "allowed"} : Kept(to)
  <2> DEFINE place == row => count < MaxConcurrent
  <2>1. view = "counted" /\ Turn(IF place THEN "allowed" ELSE "away", wasFree)
    BY Zenon, <1>6 DEF StatePlaces
  <2>2. wasFree \in BOOLEAN /\ (wasFree \/ count >= MaxConcurrent)
    BY Zenon, <2>1 DEF ViewInv
  <2>3. place => ~(count >= MaxConcurrent)
    BY <1>1, Parameters
  <2> HIDE DEF place
  <2>4. CASE place
    BY Zenon, <2>1, <2>2, <2>3, <2>4, TurnFacts
  <2>5. CASE ~place
    BY Zenon, <2>1, <2>2, <2>5, TurnFacts
  <2> QED
    BY Zenon, <2>4, <2>5
<1>7. ASSUME StateFails PROVE \E to \in {"away", "counted", "allowed"} : Kept(to)
  <2>1. failClosed \in BOOLEAN
    BY <1>1 DEF FlowInv, TypeOK
  <2>2. CASE failClosed
    BY Zenon, <1>7, <2>1, <2>2 DEF StateFails
  <2>3. CASE ~failClosed
    BY Zenon, <1>7, <2>1, <2>3 DEF StateFails
  <2> QED
    BY Zenon, <2>2, <2>3
<1>8. ASSUME StateEnds PROVE \E to \in {"away", "counted", "allowed"} : Kept(to)
  BY Zenon, <1>8, TurnFacts DEF StateEnds
<1> HIDE DEF Kept
<1> QED
  BY <1>3, <1>4, <1>5, <1>6, <1>7, <1>8

LEMMA NextView ==
  ASSUME ViewInv, [ViewNext]_<<vars, served, viewing>>
  PROVE  ViewInv'
<1>1. CASE UNCHANGED <<vars, served, viewing>>
  <2>1. FlowInv' /\ UNCHANGED <<algorithm, failClosed, count, entries, view, failed, wasFree>>
    BY <1>1, NextFlow DEF ViewInv, vars, config, server, viewing
  <2> QED
    BY <2>1 DEF ViewInv, AllowedWasFree, SlidingWindow, Room, Prune
<1>2. CASE ServedNext /\ Watch
  BY <1>2, WatchKeeps
<1>3. CASE ViewNext /\ ~(ServedNext /\ Watch)
  <2>1. UNCHANGED <<vars, served>>
    BY <1>3 DEF ViewNext, StateRow, StateCount, StatePlaces, StateFails, StateEnds
  <2> QED
    BY <1>3, <2>1, StateKeeps DEF ViewNext
<1> QED
  BY <1>1, <1>2, <1>3

\* get_state says allowed only when an acquire would have been granted at some
\* moment while it was reading, or on a failure when failures let requests
\* through (postgres.py, get_state): the window and the places, which it reads in
\* two statements while the clients come and go, were free together.
THEOREM AllowedIsFree == ViewSpec => []AllowedWasFree
<1>1. ViewInit => ViewInv
  BY InitFlow DEF ViewInit, ServedInit, ViewInv, AllowedWasFree
<1>2. ViewInv => AllowedWasFree
  BY DEF ViewInv
<1> QED
  BY <1>1, <1>2, NextView, PTL DEF ViewSpec
=============================================================================

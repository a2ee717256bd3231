----------------------- MODULE RedisTokenBucketProofs -----------------------
(***************************************************************************)
(* Theorems about the token bucket of the Redis engine, for every number   *)
(* of clients, interval, number of places, time to live and delay.         *)
(***************************************************************************)
EXTENDS RedisTokenBucket, AgesProofs

\* A request in flight is at most MaxDelay old.
SentRecently == \A c \in At({"sent"}) : timer[c] <= MaxDelay

\* The rate key still exists and is older than the last grant by no more than
\* the delay of the request that made it, while the promised period lasts.
GrantKept ==
  /\ Len(granted) <= 1
  /\ Len(granted) = 1 => /\ last <= granted[1] + MaxDelay
                         /\ granted[1] + ttl >= Ttl

RateInv == TypeOK /\ SentRecently /\ GrantKept

-----------------------------------------------------------------------------
(* Types and the rate *)

LEMMA Parameters ==
  /\ Interval \in Nat /\ MaxDelay \in Nat /\ MaxHold \in Nat /\ Ttl \in Nat \ {0}
  /\ MaxConcurrent \in Nat \ {0} /\ Poll \in Nat \ {0} /\ MaxTimeout \in Nat
  /\ Interval + MaxDelay <= Ttl
  /\ Old = Interval + MaxDelay /\ Old \in Nat
  /\ Never = MaxTimeout + 1 /\ Never \in Nat
  /\ Span \in Nat /\ Span <= Interval
  /\ Span > 0 => Span = Interval - MaxDelay
  /\ Span' = Span /\ Old' = Old /\ Never' = Never /\ Interval' = Interval
<1>1. Interval \in Nat /\ Interval <= Period
  BY RedisAssumption DEF RedisAssumption, Interval
<1> QED
  BY <1>1, RedisAssumption DEF RedisAssumption, Old, Never, Span, Interval

LEMMA OneIfSome ==
  ASSUME NEW n \in Nat, n <= 1
  PROVE  n = 0 \/ n = 1
  OBVIOUS

LEMMA OneGrantOlder ==
  ASSUME NEW span \in Nat, NEW grants \in Seq(0..span-1), Len(grants) <= 1,
         NEW g, g = Fresh(Older(grants), span)
  PROVE  /\ g \in Seq(0..span-1)
         /\ Len(g) <= 1
         /\ Len(g) = 1 => /\ Len(grants) = 1
                          /\ grants[1] \in 0..span-1
                          /\ g[1] = grants[1] + 1
                          /\ g[1] \in 0..span-1
<1> DEFINE o == Older(grants)
<1>1. /\ Len(grants) \in Nat /\ DOMAIN grants = 1..Len(grants)
      /\ \A i \in 1..Len(grants) : grants[i] \in 0..span-1
  BY SeqElements
<1>2. o = [i \in 1..Len(grants) |-> grants[i] + 1]
  BY <1>1 DEF Older
<1>3. o \in [1..Len(grants) -> Nat]
  BY <1>1, <1>2
<1>4. o \in Seq(Nat) /\ Len(o) = Len(grants)
  BY <1>1, <1>3, SeqOfFunction
<1>5. Sorted(grants)
  BY <1>1 DEF Sorted
<1>6. g \in Seq(0..span-1) /\ Len(g) <= Len(grants)
  BY <1>5, OlderTyped
<1>7. PICK n \in 0..Len(o) : Pops(g, o, span, n)
  <2> HIDE DEF o
  <2>1. Nat \in SUBSET Nat /\ g = Fresh(o, span)
    BY DEF o
  <2> QED
    BY <1>4, <2>1, FreshPops
<1>8. ASSUME Len(g) = 1 PROVE Len(grants) = 1 /\ g[1] = o[1] /\ o[1] = grants[1] + 1
  <2>1. Len(grants) = 1 /\ n = 0
    <3>1. Len(o) = Len(grants) /\ n \in 0..Len(grants) /\ Len(g) = Len(o) - n
      BY <1>4, <1>7 DEF Pops, IsDrop
    <3>2. Len(grants) \in Nat /\ Len(grants) <= 1 /\ 1 = Len(grants) - n
      BY <1>1, <1>8, <3>1
    <3> QED
      BY <3>1, <3>2
  <2>2. o[1] = grants[1] + 1
    <3>1. 1 \in 1..Len(grants)
      BY <2>1
    <3> QED
      BY <1>2, <3>1
  <2> HIDE DEF o
  <2>3. g[1] = o[1]
    <3>1. Len(o) = 1 /\ \A i \in 1..(Len(o) - n) : g[i] = o[n + i]
      BY <1>4, <1>7, <2>1 DEF Pops, IsDrop
    <3> QED
      BY <2>1, <3>1
  <2> QED
    BY <2>1, <2>2, <2>3
<1>9. Len(g) \in Nat /\ \A i \in 1..Len(g) : g[i] \in 0..span-1
  BY <1>6, SeqElements
<1> QED
  BY <1>1, <1>6, <1>8, <1>9

\* The script grants when the last grant is out of the promised period.
LEMMA ReadyMeansFree ==
  ASSUME RateInv, NEW c \in Clients, pc[c] = "sent", RateReady(timer[c])
  PROVE  Span > 0 => Len(granted) = 0
<1> SUFFICES ASSUME Span > 0, Len(granted) # 0 PROVE FALSE
  OBVIOUS
<1>1. Len(granted) = 1 /\ granted[1] \in 0..Span-1
  <2>1. granted \in Seq(0..Span-1) /\ Len(granted) <= 1
    BY DEF RateInv, TypeOK, GrantKept
  <2>2. Len(granted) \in Nat /\ \A i \in 1..Len(granted) : granted[i] \in 0..Span-1
    BY <2>1, SeqElements
  <2>3. Len(granted) = 1
    <3>1. Len(granted) \in Nat /\ Len(granted) <= 1
      BY <2>1, <2>2
    <3> QED
      BY <3>1, OneIfSome
  <2> QED
    BY <2>2, <2>3
<1>2. last <= granted[1] + MaxDelay /\ granted[1] + ttl >= Ttl
  BY <1>1 DEF RateInv, GrantKept
<1>3. timer[c] \in Nat /\ last \in Nat /\ ttl \in Nat
  BY Parameters DEF RateInv, TypeOK
<1>4. last < Interval
  BY <1>1, <1>2, <1>3, Parameters
<1>5. ttl # 0 /\ Interval # 0
  BY <1>1, <1>2, <1>3, Parameters
<1> QED
  BY <1>3, <1>4, <1>5, Parameters DEF RateReady

\* What the places and the timers look like after the move of one client.
LEMMA ClientTyping ==
  ASSUME TypeOK, SentRecently, NEW c \in Clients, NEW place \in Places, NEW t \in Nat,
         NEW b \in 0..Never,
         pc' = [pc EXCEPT ![c] = place], timer' = [timer EXCEPT ![c] = t],
         budget' = [budget EXCEPT ![c] = b],
         place = "sent" => t <= MaxDelay
  PROVE  /\ pc' \in [Clients -> Places]
         /\ timer' \in [Clients -> Nat]
         /\ budget' \in [Clients -> 0..Never]
         /\ SentRecently'
<1>1. /\ pc' \in [Clients -> Places]
      /\ timer' \in [Clients -> Nat]
      /\ budget' \in [Clients -> 0..Never]
  BY DEF TypeOK
<1>2. ASSUME NEW d \in At({"sent"})' PROVE timer'[d] <= MaxDelay
  <2>1. CASE d = c
    BY <1>2, <2>1 DEF At, TypeOK
  <2>2. CASE d # c
    BY <1>2, <2>2 DEF At, TypeOK, SentRecently
  <2> QED
    BY <2>1, <2>2
<1> QED
  BY <1>1, <1>2 DEF SentRecently

LEMMA TakePlaceRate ==
  ASSUME RateInv, NEW c \in Clients, pc[c] = "sent", RateReady(timer[c]), TakePlace(c)
  PROVE  RateInv'
<1>1. timer[c] \in Nat /\ timer[c] <= MaxDelay /\ budget[c] \in 0..Never
  BY DEF RateInv, TypeOK, SentRecently, At
<1>2. budget' = [budget EXCEPT ![c] = budget[c]] /\ "granted" \in Places
  BY DEF TakePlace, RateInv, TypeOK, Places
<1>3. /\ pc' \in [Clients -> Places]
      /\ timer' \in [Clients -> Nat]
      /\ budget' \in [Clients -> 0..Never]
      /\ SentRecently'
  BY <1>1, <1>2, ClientTyping DEF RateInv, TakePlace
<1>4. granted \in Seq(0..Span-1) /\ granted' = Grant(granted, Span) /\ Sorted(granted)
  BY SeqElements DEF RateInv, TypeOK, GrantKept, TakePlace, Sorted
<1>5. /\ granted' \in Seq(0..Span-1)
      /\ Span > 0 => granted' = Append(granted, 0) /\ Len(granted') = Len(granted) + 1
  BY <1>4, Parameters, GrantTyped
<1>6. last' \in 0..Old /\ ttl' = Ttl /\ (Span > 0 => last' <= MaxDelay)
  BY <1>1, Parameters DEF TakePlace, RateInv, TypeOK
<1>7. counter' \in Nat /\ owners' \in SUBSET Clients /\ leaked' \in Nat
  BY DEF TakePlace, RateInv, TypeOK
<1>8. GrantKept'
  <2>1. CASE Span > 0
    <3>1. Len(granted) = 0
      BY <2>1, ReadyMeansFree
    <3>2. Len(granted') = 1 /\ granted'[1] = 0
      BY <1>4, <1>5, <2>1, <3>1
    <3> QED
      BY <1>6, <2>1, <3>2, Parameters DEF GrantKept
  <2>2. CASE Span = 0
    <3>1. Len(granted') = 0
      BY <1>5, <2>2, SeqElements
    <3> QED
      BY <3>1 DEF GrantKept
  <2> QED
    BY <2>1, <2>2, Parameters
<1> QED
  BY <1>3, <1>5, <1>6, <1>7, <1>8, Parameters DEF RateInv, TypeOK

\* Steps that leave the rate key and the grants alone.
LEMMA OtherRate ==
  ASSUME RateInv, NEW c \in Clients, NEW place \in Places, NEW t \in Nat, NEW b \in 0..Never,
         pc' = [pc EXCEPT ![c] = place], timer' = [timer EXCEPT ![c] = t],
         budget' = [budget EXCEPT ![c] = b], place = "sent" => t <= MaxDelay,
         UNCHANGED <<last, ttl, granted>>,
         counter' \in Nat, owners' \in SUBSET Clients, leaked' \in Nat
  PROVE  RateInv'
<1>1. /\ pc' \in [Clients -> Places]
      /\ timer' \in [Clients -> Nat]
      /\ budget' \in [Clients -> 0..Never]
      /\ SentRecently'
  BY ClientTyping DEF RateInv
<1>2. GrantKept'
  BY DEF RateInv, GrantKept
<1> QED
  BY <1>1, <1>2, Parameters DEF RateInv, TypeOK

\* Time passes: a key that is about to expire remembers no grant that matters.
LEMMA TickRate ==
  ASSUME RateInv, Tick
  PROVE  RateInv'
<1>1. /\ last \in 0..Old /\ ttl \in 0..Ttl /\ counter \in Nat /\ leaked \in Nat
      /\ pc \in [Clients -> Places] /\ timer \in [Clients -> Nat]
      /\ budget \in [Clients -> 0..Never] /\ owners \in SUBSET Clients
      /\ granted \in Seq(0..Span-1) /\ Len(granted) <= 1
  BY DEF RateInv, TypeOK, GrantKept
<1>2. last' \in 0..Old /\ ttl' \in 0..Ttl
  BY <1>1, Parameters DEF Tick, Down
<1>3. counter' \in Nat /\ leaked' \in Nat /\ owners' \in SUBSET Clients
  BY <1>1 DEF Tick, Expire
<1>4. timer' \in [Clients -> Nat]
  <2>1. \A c \in Clients : timer[c] \in Nat /\ Down(timer[c]) \in Nat
    BY <1>1 DEF Down
  <2> QED
    BY <2>1 DEF Tick
<1>5. budget' \in [Clients -> 0..Never]
  <2>1. \A c \in Clients : budget[c] \in 0..Never /\ Down(budget[c]) \in 0..Never
    BY <1>1, Parameters DEF Down
  <2> QED
    BY <2>1 DEF Tick
<1>6. SentRecently'
  <2>1. SUFFICES ASSUME NEW c \in At({"sent"})' PROVE timer'[c] <= MaxDelay
    BY DEF SentRecently
  <2>2. c \in Clients /\ pc[c] = "sent" /\ c \in At({"sent"})
    BY <2>1 DEF At, Tick
  <2>3. timer'[c] = timer[c] + 1 /\ timer[c] < MaxDelay /\ timer[c] \in Nat
    BY <1>1, <2>2 DEF Tick
  <2> QED
    BY <2>3, Parameters
<1>7. granted' = Fresh(Older(granted), Span)
  BY DEF Tick
<1>8. /\ granted' \in Seq(0..Span-1)
      /\ Len(granted') <= 1
      /\ Len(granted') = 1 => /\ Len(granted) = 1
                              /\ granted[1] \in 0..Span-1
                              /\ granted'[1] = granted[1] + 1
                              /\ granted'[1] \in 0..Span-1
  BY <1>1, <1>7, Parameters, OneGrantOlder
<1>9. ASSUME Len(granted') = 1
      PROVE  last' <= granted'[1] + MaxDelay /\ granted'[1] + ttl' >= Ttl
  <2>1. granted[1] \in 0..Span-1 /\ granted'[1] = granted[1] + 1 /\ granted[1] + 1 < Span
    BY <1>8, <1>9, Parameters
  <2>2. last <= granted[1] + MaxDelay /\ granted[1] + ttl >= Ttl
    BY <1>8, <1>9 DEF RateInv, GrantKept
  <2>3. last < Old /\ ttl > 1
    BY <1>1, <2>1, <2>2, Parameters
  <2>4. last' = last + 1 /\ ttl' = ttl - 1
    BY <1>1, <2>3, Parameters DEF Tick, Down
  <2> QED
    BY <1>1, <2>1, <2>2, <2>4, Parameters
<1> QED
  BY <1>1, <1>2, <1>3, <1>4, <1>5, <1>6, <1>8, <1>9, Parameters
     DEF RateInv, TypeOK, GrantKept, Tick

\* A client that goes back to idle.
LEMMA IdleRate ==
  ASSUME RateInv, NEW c \in Clients, Idle(c), UNCHANGED <<last, ttl, granted>>,
         counter' \in Nat, owners' \in SUBSET Clients, leaked' \in Nat
  PROVE  RateInv'
<1>1. "idle" \in Places /\ 0 \in Nat /\ 0 \in 0..Never
  BY Parameters DEF Places
<1> QED
  BY <1>1, OtherRate DEF Idle

LEMMA ClientRate ==
  ASSUME RateInv, NEW c \in Clients,
         \/ \E timeout \in 0..Never : Call(c, timeout)
         \/ Step(c) \/ FailOpen(c) \/ GiveUp(c)
  PROVE  RateInv'
<1>1. /\ last \in 0..Old /\ counter \in Nat /\ owners \in SUBSET Clients /\ leaked \in Nat
      /\ timer[c] \in Nat /\ budget[c] \in 0..Never
      /\ timer = [timer EXCEPT ![c] = timer[c]] /\ budget = [budget EXCEPT ![c] = budget[c]]
  BY DEF RateInv, TypeOK
<1>2. /\ 0 \in Nat /\ 0 \in 0..Never
      /\ {"sent", "granted", "refused", "sleep", "operation", "releasing"} \subseteq Places
  BY Parameters DEF Places
<1>3. ASSUME NEW timeout \in 0..Never, Call(c, timeout) PROVE RateInv'
  <2>1. 0 <= MaxDelay
    BY Parameters
  <2> QED
    BY <1>1, <1>2, <1>3, <2>1, OtherRate DEF Call, server, history
<1>4. CASE AcquireScript(c)
  <2>1. CASE RateReady(timer[c]) /\ TakePlace(c)
    BY <1>4, <2>1, TakePlaceRate DEF AcquireScript
  <2>2. ASSUME NEW wait \in Nat, Refuse(c, wait), UNCHANGED server PROVE RateInv'
    BY <1>1, <1>2, <2>2, OtherRate DEF Refuse, server, history
  <2>3. ~RateReady(timer[c]) => Interval + timer[c] - last \in Nat
    BY <1>1, Parameters DEF RateReady
  <2> QED
    BY <1>4, <2>1, <2>2, <2>3, Parameters DEF AcquireScript
<1>5. CASE Reply(c)
  <2>1. CASE Idle(c)
    BY <1>1, <1>5, <2>1, IdleRate DEF Reply, server, history
  <2>2. CASE pc' = [pc EXCEPT ![c] = "operation"] /\ timer' = timer
             /\ budget' = [budget EXCEPT ![c] = 0]
    BY <1>1, <1>2, <1>5, <2>2, OtherRate DEF Reply, server, history
  <2>3. CASE Sleep(c)
    <3> DEFINE rest == IF timer[c] < budget[c] \/ budget[c] = Never
                       THEN timer[c] ELSE budget[c]
    <3>1. rest \in Nat
      BY <1>1, Parameters
    <3>2. /\ pc' = [pc EXCEPT ![c] = "sleep"]
          /\ timer' = [timer EXCEPT ![c] = rest]
          /\ budget' = budget
      BY <2>3 DEF Sleep
    <3> HIDE DEF rest
    <3> QED
      BY <1>1, <1>2, <1>5, <3>1, <3>2, OtherRate DEF Reply, server, history
  <2> QED
    BY <1>5, <2>1, <2>2, <2>3 DEF Reply
<1>6. CASE Wake(c)
  <2>1. timer[c] <= MaxDelay
    BY <1>6, Parameters DEF Wake
  <2> QED
    BY <1>1, <1>2, <1>6, <2>1, OtherRate DEF Wake, server, history
<1>7. CASE Finish(c)
  BY <1>1, <1>2, <1>7, OtherRate DEF Finish, server, history
<1>8. CASE ReleaseScript(c)
  <2>1. counter' \in Nat /\ owners' \in SUBSET Clients /\ leaked' \in Nat
    BY <1>1, <1>8 DEF ReleaseScript, Down
  <2> QED
    BY <1>8, <2>1, IdleRate DEF ReleaseScript
<1>9. CASE FailOpen(c)
  <2> DEFINE t == IF pc[c] = "granted" THEN timer[c] ELSE 0
  <2>1. /\ t \in Nat
        /\ pc' = [pc EXCEPT ![c] = "operation"]
        /\ timer' = [timer EXCEPT ![c] = t]
        /\ budget' = [budget EXCEPT ![c] = 0]
    BY <1>1, <1>9 DEF FailOpen
  <2> HIDE DEF t
  <2> QED
    BY <1>1, <1>2, <1>9, <2>1, OtherRate DEF FailOpen, server, history
<1>10. CASE GiveUp(c)
  <2>1. counter' \in Nat /\ owners' \in SUBSET Clients /\ leaked' \in Nat
    BY <1>1, <1>10 DEF GiveUp, server
  <2> QED
    BY <1>10, <2>1, IdleRate DEF GiveUp, server
<1> QED
  BY <1>3, <1>4, <1>5, <1>6, <1>7, <1>8, <1>9, <1>10 DEF Step

LEMMA InitRate ==
  ASSUME Init
  PROVE  RateInv
<1>1. TypeOK
  BY Parameters DEF Init, TypeOK, Places
<1>2. SentRecently /\ GrantKept
  BY DEF Init, SentRecently, GrantKept, At
<1> QED
  BY <1>1, <1>2 DEF RateInv

LEMMA NextRate ==
  ASSUME RateInv, [Next]_vars
  PROVE  RateInv'
<1>1. CASE UNCHANGED vars
  BY <1>1, Parameters DEF RateInv, TypeOK, SentRecently, GrantKept, At, vars, server, history
<1> QED
  BY <1>1, TickRate, ClientRate DEF Next

LEMMA SpecRate == Spec => []RateInv
  BY InitRate, NextRate, PTL DEF Spec

\* Every variable keeps its type, whatever fails and whoever gives up.
THEOREM TypeCorrect == Spec => []TypeOK
<1>1. RateInv => TypeOK
  BY DEF RateInv
<1> QED
  BY <1>1, SpecRate, PTL

-----------------------------------------------------------------------------
(* The counter *)

\* A place is counted only for a client that holds it.
OwnersHold == owners \subseteq At(Holding)

PlacesInv == RateInv /\ OwnersHold /\ NoPhantomPlace

LEMMA FiniteOwners ==
  ASSUME NEW S \in SUBSET Clients
  PROVE  /\ IsFiniteSet(S) /\ Cardinality(S) \in Nat
         /\ \A c \in S : Cardinality(S \ {c}) = Cardinality(S) - 1 /\ Cardinality(S) > 0
         /\ \A c \in Clients \ S : Cardinality(S \cup {c}) = Cardinality(S) + 1
<1>1. IsFiniteSet(S) /\ Cardinality(S) \in Nat
  BY RedisAssumption, FS_Subset, FS_CardinalityType DEF RedisAssumption
<1>2. ASSUME NEW c \in S PROVE Cardinality(S \ {c}) = Cardinality(S) - 1 /\ Cardinality(S) > 0
  <2>1. Cardinality(S \ {c}) = Cardinality(S) - 1
    BY <1>1, FS_RemoveElement
  <2>2. Cardinality(S) # 0
    BY <1>1, FS_EmptySet
  <2> QED
    BY <1>1, <2>1, <2>2
<1>3. ASSUME NEW c \in Clients \ S PROVE Cardinality(S \cup {c}) = Cardinality(S) + 1
  BY <1>1, FS_AddElement
<1> QED
  BY <1>1, <1>2, <1>3

\* What the move of one client does to the clients that hold a place.
LEMMA MoveChangesHolders ==
  ASSUME TypeOK, NEW c \in Clients, NEW place, pc' = [pc EXCEPT ![c] = place]
  PROVE  /\ place \in Holding => At(Holding)' = At(Holding) \cup {c}
         /\ place \notin Holding => At(Holding)' = At(Holding) \ {c}
  BY DEF TypeOK, At

\* A client that leaves takes at most its own place with it.
LEMMA LeavePlaces ==
  ASSUME PlacesInv, NEW c \in Clients, Idle(c), owners' = owners \ {c},
         counter' \in Nat, leaked' \in Nat,
         counter' <= Cardinality(owners \ {c}) + leaked'
  PROVE  OwnersHold' /\ NoPhantomPlace'
<1>1. At(Holding)' = At(Holding) \ {c}
  <2>1. "idle" \notin Holding
    BY DEF Holding
  <2> QED
    BY <2>1, MoveChangesHolders DEF Idle, PlacesInv, RateInv
<1>2. OwnersHold'
  BY <1>1 DEF PlacesInv, OwnersHold
<1>3. NoPhantomPlace'
  BY DEF NoPhantomPlace
<1> QED
  BY <1>2, <1>3

LEMMA StayPlaces ==
  ASSUME PlacesInv, UNCHANGED <<counter, owners, leaked>>, owners \subseteq At(Holding)'
  PROVE  OwnersHold' /\ NoPhantomPlace'
  BY DEF PlacesInv, OwnersHold, NoPhantomPlace

LEMMA ClientPlaces ==
  ASSUME PlacesInv, NEW c \in Clients,
         \/ \E timeout \in 0..Never : Call(c, timeout)
         \/ Step(c) \/ FailOpen(c) \/ GiveUp(c)
  PROVE  OwnersHold' /\ NoPhantomPlace'
<1>1. /\ TypeOK /\ owners \in SUBSET Clients /\ counter \in Nat /\ leaked \in Nat
      /\ owners \subseteq At(Holding)
      /\ counter <= Cardinality(owners) + leaked
      /\ Cardinality(owners) \in Nat
  BY FiniteOwners DEF PlacesInv, RateInv, TypeOK, OwnersHold, NoPhantomPlace
<1>2. ASSUME pc[c] \notin Holding PROVE c \notin owners
  BY <1>1, <1>2 DEF At
<1>3. ASSUME NEW place, pc' = [pc EXCEPT ![c] = place], UNCHANGED <<counter, owners, leaked>>,
             pc[c] \in Holding => place \in Holding
      PROVE  OwnersHold' /\ NoPhantomPlace'
  <2>1. owners \subseteq At(Holding)'
    BY <1>1, <1>2, <1>3, MoveChangesHolders
  <2> QED
    BY <1>3, <2>1, StayPlaces
<1>4. ASSUME NEW timeout \in 0..Never, Call(c, timeout) PROVE OwnersHold' /\ NoPhantomPlace'
  BY <1>3, <1>4 DEF Call, server, history, Holding
<1>5. CASE AcquireScript(c)
  <2>1. CASE TakePlace(c)
    <3>1. c \notin owners
      BY <1>2, <1>5 DEF AcquireScript, Holding
    <3>2. /\ owners' = owners \cup {c} /\ counter' = counter + 1 /\ leaked' = leaked
          /\ At(Holding)' = At(Holding) \cup {c}
      BY <1>1, <2>1, MoveChangesHolders DEF TakePlace, Holding
    <3>3. Cardinality(owners') = Cardinality(owners) + 1
      BY <1>1, <3>1, <3>2, FiniteOwners
    <3> QED
      BY <1>1, <3>2, <3>3 DEF OwnersHold, NoPhantomPlace
  <2>2. ASSUME NEW wait, Refuse(c, wait), UNCHANGED server PROVE OwnersHold' /\ NoPhantomPlace'
    BY <1>3, <1>5, <2>2 DEF AcquireScript, Refuse, server, history, Holding
  <2> QED
    BY <1>5, <2>1, <2>2 DEF AcquireScript
<1>6. CASE Reply(c)
  BY <1>3, <1>6 DEF Reply, Idle, Sleep, server, history, Holding
<1>7. CASE Wake(c)
  BY <1>3, <1>7 DEF Wake, server, history, Holding
<1>8. CASE Finish(c)
  BY <1>3, <1>8 DEF Finish, server, history, Holding
<1>9. CASE FailOpen(c)
  BY <1>3, <1>9 DEF FailOpen, server, history, Holding
<1>10. CASE ReleaseScript(c)
  <2>1. /\ Idle(c) /\ owners' = owners \ {c} /\ counter' = Down(counter)
        /\ leaked' = IF c \in owners THEN leaked ELSE Down(leaked)
    BY <1>10 DEF ReleaseScript
  <2>2. counter' \in Nat /\ leaked' \in Nat
    BY <1>1, <2>1 DEF Down
  <2>3. counter' <= Cardinality(owners \ {c}) + leaked'
    <3>1. CASE c \in owners
      <4>1. Cardinality(owners \ {c}) = Cardinality(owners) - 1 /\ Cardinality(owners) > 0
        BY <1>1, <3>1, FiniteOwners
      <4> QED
        BY <1>1, <2>1, <3>1, <4>1 DEF Down
    <3>2. CASE c \notin owners
      <4>1. owners \ {c} = owners
        BY <3>2
      <4> QED
        BY <1>1, <2>1, <3>2, <4>1 DEF Down
    <3> QED
      BY <3>1, <3>2
  <2> QED
    BY <2>1, <2>2, <2>3, LeavePlaces
<1>11. CASE GiveUp(c)
  <2>1. /\ Idle(c) /\ owners' = owners \ {c} /\ counter' = counter
        /\ leaked' = IF c \in owners /\ leaked < counter THEN leaked + 1 ELSE leaked
    BY <1>11 DEF GiveUp, server
  <2>2. counter' <= Cardinality(owners \ {c}) + leaked'
    <3>1. CASE c \in owners
      <4>1. Cardinality(owners \ {c}) = Cardinality(owners) - 1 /\ Cardinality(owners) > 0
        BY <1>1, <3>1, FiniteOwners
      <4> QED
        BY <1>1, <2>1, <3>1, <4>1
    <3>2. CASE c \notin owners
      <4>1. owners \ {c} = owners
        BY <3>2
      <4> QED
        BY <1>1, <2>1, <3>2, <4>1
    <3> QED
      BY <3>1, <3>2
  <2>3. counter' \in Nat /\ leaked' \in Nat
    BY <1>1, <2>1
  <2> QED
    BY <2>1, <2>2, <2>3, LeavePlaces
<1> QED
  BY <1>4, <1>5, <1>6, <1>7, <1>8, <1>9, <1>10, <1>11 DEF Step

LEMMA TickPlaces ==
  ASSUME PlacesInv, Tick
  PROVE  OwnersHold' /\ NoPhantomPlace'
<1>1. At(Holding)' = At(Holding) /\ owners' = owners
  BY DEF Tick, At
<1>2. /\ owners \in SUBSET Clients /\ counter \in Nat /\ leaked \in Nat
      /\ counter <= Cardinality(owners) + leaked /\ Cardinality(owners) \in Nat
  BY FiniteOwners DEF PlacesInv, RateInv, TypeOK, NoPhantomPlace
<1>3. counter' <= Cardinality(owners) + leaked'
  BY <1>2 DEF Tick, Expire
<1> QED
  BY <1>1, <1>3 DEF PlacesInv, OwnersHold, NoPhantomPlace

LEMMA SpecPlaces == Spec => []PlacesInv
<1>1. Init => PlacesInv
  <2> SUFFICES ASSUME Init PROVE PlacesInv
    OBVIOUS
  <2>1. owners = {} /\ counter = 0 /\ leaked = 0 /\ Cardinality({}) = 0
    BY FS_EmptySet DEF Init
  <2> QED
    BY <2>1, InitRate DEF PlacesInv, OwnersHold, NoPhantomPlace
<1>2. PlacesInv /\ [Next]_vars => PlacesInv'
  <2> SUFFICES ASSUME PlacesInv, [Next]_vars PROVE PlacesInv'
    OBVIOUS
  <2>1. RateInv'
    BY NextRate DEF PlacesInv
  <2>2. CASE UNCHANGED vars
    <3>1. At(Holding)' = At(Holding) /\ UNCHANGED <<counter, owners, leaked>>
      BY <2>2 DEF vars, server, history, At
    <3> QED
      BY <2>1, <3>1, StayPlaces DEF PlacesInv, OwnersHold
  <2> QED
    BY <2>1, <2>2, ClientPlaces, TickPlaces DEF Next, PlacesInv
<1> QED
  BY <1>1, <1>2, PTL DEF Spec

\* No place is counted that nobody holds and nobody lost: whatever fails, and
\* with requests allowed without a place, the counter blocks no place for
\* nothing (redis.py, RELEASE_SCRIPT and the fail-open branch of try_acquire).
THEOREM NoPhantomPlaces == Spec => []NoPhantomPlace
<1>1. PlacesInv => NoPhantomPlace
  BY DEF PlacesInv
<1> QED
  BY <1>1, SpecPlaces, PTL

-----------------------------------------------------------------------------
(* The places, when nothing is allowed without one and no operation outlives *)
(* the keys                                                                  *)

\* The keys live on while a client holds a place: they got their time to live
\* when it was taken, and a place is held for less.
KeysOutlive == \A c \in owners : timer[c] <= MaxHold /\ timer[c] + ttl >= Ttl

HoldInv ==
  /\ owners = At(Holding)
  /\ KeysOutlive
  /\ CounterExact
  /\ counter <= MaxConcurrent

ExactInv == RateInv /\ HoldInv

LEMMA ExactFacts ==
  ASSUME ExactInv
  PROVE  /\ TypeOK /\ owners = At(Holding) /\ owners \in SUBSET Clients
         /\ counter \in Nat /\ leaked \in Nat /\ ttl \in 0..Ttl /\ timer \in [Clients -> Nat]
         /\ Cardinality(owners) \in Nat
         /\ counter = Cardinality(owners) + leaked /\ counter <= MaxConcurrent
  BY FiniteOwners DEF ExactInv, RateInv, TypeOK, HoldInv, CounterExact

\* A client moves outside the places, or inside with the one it holds.
LEMMA StayHold ==
  ASSUME ExactInv, NEW c \in Clients, NEW place, NEW t,
         pc' = [pc EXCEPT ![c] = place], timer' = [timer EXCEPT ![c] = t],
         place \in Holding <=> pc[c] \in Holding, pc[c] \in Holding => t = timer[c],
         UNCHANGED <<ttl, counter, owners, leaked>>
  PROVE  HoldInv'
<1>1. At(Holding)' = At(Holding)
  <2>1. c \in At(Holding) <=> pc[c] \in Holding
    BY DEF At
  <2> QED
    BY <2>1, ExactFacts, MoveChangesHolders
<1>2. \A d \in owners : timer'[d] = timer[d]
  BY ExactFacts DEF At
<1>3. KeysOutlive'
  BY <1>2 DEF ExactInv, HoldInv, KeysOutlive
<1> QED
  BY <1>1, <1>3 DEF ExactInv, HoldInv, CounterExact

LEMMA TakeHold ==
  ASSUME ExactInv, NEW c \in Clients, pc[c] = "sent", counter < MaxConcurrent, TakePlace(c)
  PROVE  HoldInv'
<1>1. c \notin owners
  BY ExactFacts DEF At, Holding
<1>2. Cardinality(owners \cup {c}) = Cardinality(owners) + 1
  BY <1>1, ExactFacts, FiniteOwners
<1>3. /\ owners' = owners \cup {c} /\ counter' = counter + 1 /\ leaked' = leaked /\ ttl' = Ttl
      /\ timer' = [timer EXCEPT ![c] = 0] /\ pc' = [pc EXCEPT ![c] = "granted"]
  BY DEF TakePlace
<1>4. At(Holding)' = At(Holding) \cup {c}
  <2>1. "granted" \in Holding
    BY DEF Holding
  <2> QED
    BY <1>3, <2>1, ExactFacts, MoveChangesHolders
<1>5. KeysOutlive'
  <2>1. SUFFICES ASSUME NEW d \in owners' PROVE timer'[d] <= MaxHold /\ timer'[d] + ttl' >= Ttl
    BY Parameters DEF KeysOutlive
  <2>2. CASE d = c
    BY <1>3, <2>2, ExactFacts, Parameters
  <2>3. CASE d # c
    <3>1. d \in owners /\ timer'[d] = timer[d] /\ timer[d] \in Nat
      BY <1>3, <2>1, <2>3, ExactFacts
    <3>2. timer[d] <= MaxHold
      BY <3>1 DEF ExactInv, HoldInv, KeysOutlive
    <3> QED
      BY <1>3, <3>1, <3>2, Parameters
  <2> QED
    BY <2>2, <2>3
<1>6. CounterExact' /\ counter' <= MaxConcurrent
  BY <1>2, <1>3, ExactFacts, Parameters DEF CounterExact
<1> QED
  BY <1>3, <1>4, <1>5, <1>6, ExactFacts DEF HoldInv

LEMMA LeaveHold ==
  ASSUME ExactInv, NEW c \in Clients, Idle(c), owners' = owners \ {c}, ttl' = ttl,
         counter' = Cardinality(owners \ {c}) + leaked', counter' <= counter
  PROVE  HoldInv'
<1>1. At(Holding)' = At(Holding) \ {c}
  <2>1. "idle" \notin Holding
    BY DEF Holding
  <2> QED
    BY <2>1, ExactFacts, MoveChangesHolders DEF Idle
<1>2. \A d \in owners' : d \in owners /\ timer'[d] = timer[d]
  BY ExactFacts DEF Idle
<1>3. KeysOutlive'
  BY <1>2 DEF ExactInv, HoldInv, KeysOutlive
<1>4. CounterExact' /\ counter' <= MaxConcurrent
  <2>1. Cardinality(owners') \in Nat
    BY ExactFacts, FiniteOwners
  <2> QED
    BY <2>1, ExactFacts, Parameters DEF CounterExact
<1> QED
  BY <1>1, <1>3, <1>4, ExactFacts DEF HoldInv

LEMMA TickHold ==
  ASSUME ExactInv, MaxHold < Ttl, Tick
  PROVE  HoldInv'
<1>1. At(Holding)' = At(Holding) /\ owners' = owners
  BY DEF Tick, At
<1>2. ASSUME NEW c \in owners
      PROVE  /\ timer'[c] = timer[c] + 1 /\ timer[c] \in Nat
             /\ timer'[c] <= MaxHold /\ timer'[c] + ttl' >= Ttl
             /\ ttl > 1
  <2>1. c \in At(Holding) /\ timer[c] \in Nat /\ ttl \in Nat
    BY <1>2, ExactFacts, Parameters
  <2>2. c \in Clients /\ pc[c] \in Holding /\ pc[c] # "sleep"
    BY <2>1 DEF At, Holding
  <2>3. timer[c] < MaxHold /\ timer[c] + ttl >= Ttl
    BY <1>2, <2>1 DEF Tick, ExactInv, HoldInv, KeysOutlive
  <2>4. timer'[c] = timer[c] + 1
    BY <2>2 DEF Tick
  <2>5. ttl > 1
    BY <2>1, <2>3, Parameters
  <2>6. ttl' = ttl - 1
    BY <2>1, <2>5 DEF Tick, Down
  <2> QED
    BY <2>1, <2>3, <2>4, <2>5, <2>6, Parameters
<1>3. KeysOutlive'
  BY <1>1, <1>2, Parameters DEF KeysOutlive
<1>4. CounterExact' /\ counter' <= MaxConcurrent
  <2>1. CASE ttl > 1
    BY <1>1, <2>1, ExactFacts, Parameters DEF Tick, Expire, CounterExact
  <2>2. CASE ~(ttl > 1)
    <3>1. owners' = {} /\ counter' = 0 /\ leaked' = 0
      BY <1>1, <1>2, <2>2 DEF Tick, Expire
    <3>2. Cardinality(owners') = 0
      BY <3>1, FS_EmptySet
    <3> QED
      BY <3>1, <3>2, Parameters DEF CounterExact
  <2> QED
    BY <2>1, <2>2
<1> QED
  BY <1>1, <1>3, <1>4, ExactFacts DEF HoldInv

\* The moves of a client change the places it holds in one of three ways.
LEMMA ClientMoves ==
  ASSUME ExactInv, FailClosed, NEW c \in Clients,
         \/ \E timeout \in 0..Never : Call(c, timeout)
         \/ Step(c) \/ FailOpen(c) \/ GiveUp(c)
  PROVE  \/ pc[c] = "sent" /\ RateReady(timer[c]) /\ counter < MaxConcurrent /\ TakePlace(c)
         \/ /\ Idle(c) /\ owners' = owners \ {c} /\ UNCHANGED <<ttl, granted>>
            /\ counter' = Cardinality(owners \ {c}) + leaked' /\ counter' <= counter
         \/ /\ \E place, t :
                  /\ pc' = [pc EXCEPT ![c] = place] /\ timer' = [timer EXCEPT ![c] = t]
                  /\ place \in Holding <=> pc[c] \in Holding
                  /\ pc[c] \in Holding => t = timer[c]
            /\ UNCHANGED <<ttl, granted, counter, owners, leaked>>
<1> DEFINE Stays ==
      /\ \E place, t :
           /\ pc' = [pc EXCEPT ![c] = place] /\ timer' = [timer EXCEPT ![c] = t]
           /\ place \in Holding <=> pc[c] \in Holding
           /\ pc[c] \in Holding => t = timer[c]
      /\ UNCHANGED <<ttl, granted, counter, owners, leaked>>
<1>1. timer = [timer EXCEPT ![c] = timer[c]]
  BY ExactFacts
<1>2. /\ pc[c] \in Holding <=> c \in owners
      /\ c \in owners => /\ Cardinality(owners \ {c}) = Cardinality(owners) - 1
                         /\ Cardinality(owners) > 0
      /\ c \notin owners => owners \ {c} = owners
  BY ExactFacts, FiniteOwners DEF At
<1>3. ASSUME NEW timeout \in 0..Never, Call(c, timeout) PROVE Stays
  BY <1>3 DEF Call, server, history, Holding
<1>4. ASSUME NEW wait, pc[c] = "sent", Refuse(c, wait), UNCHANGED server PROVE Stays
  BY <1>4 DEF Refuse, server, history, Holding
<1>5. CASE Reply(c)
  BY <1>1, <1>5 DEF Reply, Idle, Sleep, server, history, Holding
<1>6. CASE Wake(c) \/ Finish(c)
  BY <1>1, <1>6 DEF Wake, Finish, server, history, Holding
<1>7. CASE FailOpen(c)
  BY <1>7 DEF FailOpen
<1>8. CASE ReleaseScript(c)
  <2>1. c \in owners
    BY <1>2, <1>8 DEF ReleaseScript, Holding
  <2> QED
    BY <1>2, <1>8, <2>1, ExactFacts DEF ReleaseScript, Down
<1>9. CASE GiveUp(c)
  BY <1>2, <1>9, ExactFacts DEF GiveUp, server
<1> QED
  BY <1>3, <1>4, <1>5, <1>6, <1>7, <1>8, <1>9 DEF Step, AcquireScript

LEMMA NextExact ==
  ASSUME ExactInv, FailClosed, MaxHold < Ttl, [Next]_vars
  PROVE  ExactInv'
<1>1. RateInv'
  BY NextRate DEF ExactInv
<1>2. CASE UNCHANGED vars
  BY <1>1, <1>2 DEF ExactInv, HoldInv, KeysOutlive, CounterExact, At, vars, server, history
<1>3. CASE Tick
  BY <1>1, <1>3, TickHold DEF ExactInv
<1>4. ASSUME NEW c \in Clients,
             \/ \E timeout \in 0..Never : Call(c, timeout)
             \/ Step(c) \/ FailOpen(c) \/ GiveUp(c)
      PROVE  HoldInv'
  BY <1>4, ClientMoves, TakeHold, LeaveHold, StayHold
<1> QED
  BY <1>1, <1>2, <1>3, <1>4 DEF Next, ExactInv

LEMMA SpecExact ==
  ASSUME FailClosed, MaxHold < Ttl
  PROVE  Spec => []ExactInv
<1>1. Init => ExactInv
  <2> SUFFICES ASSUME Init PROVE ExactInv
    OBVIOUS
  <2>1. At(Holding) = {} /\ owners = {} /\ counter = 0 /\ leaked = 0 /\ Cardinality({}) = 0
    BY FS_EmptySet DEF Init, At, Holding
  <2> QED
    BY <2>1, InitRate, Parameters DEF ExactInv, HoldInv, KeysOutlive, CounterExact
<1>2. ExactInv /\ [Next]_vars => ExactInv'
  BY NextExact
<1> QED
  BY <1>1, <1>2, PTL DEF Spec

\* The counter of the server counts every place held, and every place lost and
\* not yet expired, as long as no operation outlives the keys and nothing is
\* allowed without a place: no release gives back the place of another client
\* (redis.py, the two scripts).
THEOREM CounterIsExact ==
  ASSUME FailClosed, MaxHold < Ttl
  PROVE  Spec => []CounterExact
<1>1. ExactInv => CounterExact
  BY DEF ExactInv, HoldInv
<1> QED
  BY <1>1, SpecExact, PTL

\* Then at most max_concurrent operations are in flight, wherever their clients
\* run and however many of them crash (core.py:87).
THEOREM OperationsBounded ==
  ASSUME FailClosed, MaxHold < Ttl
  PROVE  Spec => []ConcurrencyBounded
<1>1. ExactInv => ConcurrencyBounded
  <2> SUFFICES ASSUME ExactInv PROVE ConcurrencyBounded
    OBVIOUS
  <2>1. At({"operation"}) \subseteq owners
    BY ExactFacts DEF At, Holding
  <2>2. Cardinality(At({"operation"})) <= Cardinality(owners) /\ Cardinality(At({"operation"})) \in Nat
    BY <2>1, ExactFacts, FiniteOwners, FS_Subset
  <2> QED
    BY <2>2, ExactFacts, Parameters DEF ConcurrencyBounded
<1> QED
  BY <1>1, SpecExact, PTL

-----------------------------------------------------------------------------
(* The engine keeps the promise of a limiter *)

Unseen == UNCHANGED <<granted, At(Holding)>>

LEMMA SharedOperators ==
  /\ \A S : Promise!Cardinality(S) = Cardinality(S)
  /\ \A ages, span : Promise!Grant(ages, span) = Grant(ages, span)
  /\ \A ages, span : Promise!Fresh(ages, span) = Fresh(ages, span)
  /\ \A ages : Promise!Older(ages) = Older(ages)
<1>1. \A S : Promise!Cardinality(S) = Cardinality(S)
  BY DEF Promise!Cardinality, Cardinality
<1>2. \A ages, span : Promise!Grant(ages, span) = Grant(ages, span)
  BY DEF Promise!Grant, Grant
<1>3. \A ages, span : Promise!Fresh(ages, span) = Fresh(ages, span)
  BY <1>1 DEF Promise!Fresh, Fresh
<1>4. \A ages : Promise!Older(ages) = Older(ages)
  BY DEF Promise!Older, Older
<1> QED
  BY <1>1, <1>2, <1>3, <1>4

LEMMA ClientPromised ==
  ASSUME ExactInv, FailClosed, NEW c \in Clients,
         \/ \E timeout \in 0..Never : Call(c, timeout)
         \/ Step(c) \/ FailOpen(c) \/ GiveUp(c)
  PROVE  Promise!Next \/ Unseen
<1>1. CASE pc[c] = "sent" /\ RateReady(timer[c]) /\ counter < MaxConcurrent /\ TakePlace(c)
  <2>1. Span > 0 => Len(granted) < Quota
    BY <1>1, ReadyMeansFree DEF ExactInv, Quota
  <2>2. granted' = Grant(granted, Span)
    BY <1>1 DEF TakePlace
  <2>3. c \notin At(Holding)
    BY <1>1 DEF At, Holding
  <2>4. At(Holding)' = At(Holding) \cup {c}
    <3>1. "granted" \in Holding
      BY DEF Holding
    <3> QED
      BY <1>1, <3>1, ExactFacts, MoveChangesHolders DEF TakePlace
  <2>5. Cardinality(At(Holding)) < MaxConcurrent
    BY <1>1, ExactFacts, Parameters
  <2>6. Promise!PayAndStart(c)
    BY <2>1, <2>2, <2>3, <2>4, <2>5, SharedOperators DEF Promise!PayAndStart, Promise!GrantRate
  <2> QED
    BY <2>6 DEF Promise!Next
<1>2. CASE Idle(c) /\ UNCHANGED granted
  <2>1. At(Holding)' = At(Holding) \ {c}
    <3>1. "idle" \notin Holding
      BY DEF Holding
    <3> QED
      BY <1>2, <3>1, ExactFacts, MoveChangesHolders DEF Idle
  <2>2. CASE c \in At(Holding)
    <3>1. Promise!Finish(c)
      BY <1>2, <2>1, <2>2 DEF Promise!Finish
    <3> QED
      BY <3>1 DEF Promise!Next
  <2>3. CASE c \notin At(Holding)
    BY <1>2, <2>1, <2>3 DEF Unseen
  <2> QED
    BY <2>2, <2>3
<1>3. ASSUME NEW place, pc' = [pc EXCEPT ![c] = place],
             place \in Holding <=> pc[c] \in Holding, UNCHANGED granted
      PROVE  Unseen
  <2>1. c \in At(Holding) <=> pc[c] \in Holding
    BY DEF At
  <2> QED
    BY <1>3, <2>1, ExactFacts, MoveChangesHolders DEF Unseen
<1> QED
  BY <1>1, <1>2, <1>3, ClientMoves

\* The engine implements what a limiter promises its callers (core.py,
\* RateLimiter), for a period shorter than the interval by the longest delay of
\* a request, when no operation outlives the keys and backend failures are not
\* turned into grants.
THEOREM EngineKeepsPromise ==
  ASSUME FailClosed, MaxHold < Ttl
  PROVE  Spec => ImplementsPromise
<1>1. Init => Promise!Init
  BY DEF Init, Promise!Init, At, Holding
<1>2. ExactInv /\ [Next]_vars => [Promise!Next]_Promise!vars
  <2> SUFFICES ASSUME ExactInv, [Next]_vars PROVE Promise!Next \/ Unseen
    BY DEF Unseen, Promise!vars
  <2>1. CASE Tick
    <3>1. granted' = Fresh(Older(granted), Span) /\ At(Holding)' = At(Holding)
      BY <2>1 DEF Tick, At
    <3>2. Promise!Tick
      BY <3>1, SharedOperators DEF Promise!Tick
    <3> QED
      BY <3>2 DEF Promise!Next
  <2>2. CASE UNCHANGED vars
    BY <2>2 DEF Unseen, vars, history, At
  <2> QED
    BY <2>1, <2>2, ClientPromised DEF Next
<1> QED
  BY <1>1, <1>2, SpecExact, PTL DEF Spec, ImplementsPromise, Promise!Spec
=============================================================================

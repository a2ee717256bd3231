-------------------------- MODULE RedisWindowProofs --------------------------
(***************************************************************************)
(* Theorems about the sliding windows on Redis, for every number of        *)
(* clients, limit, window, number of places, time to live and delay.       *)
(***************************************************************************)
EXTENDS RedisWindowViewer, AgesProofs

Kept == 0..Top-1

\* A request in flight is at most MaxDelay old.
SentRecently == \A c \in At({"sent"}) : timer[c] <= MaxDelay

\* The sorted set has no more than limit members, remembers every grant of the
\* window that ends now, and does not expire before those have left the window.
WindowKept ==
  /\ Total(window, Kept) <= Limit
  /\ \A a \in Recent : granted[a] > 0 => window[a] > 0 /\ a + ttl >= Ttl
  /\ CountsPlaces => \A a \in Recent : granted[a] <= window[a]

WindowInv == TypeOK /\ SentRecently /\ WindowKept

-----------------------------------------------------------------------------
(* Numbers *)

LEMMA Parameters ==
  /\ Limit \in Nat \ {0} /\ Window \in Nat \ {0} /\ MaxConcurrent \in Nat \ {0}
  /\ Poll \in Nat \ {0} /\ Recheck \in Nat \ {0} /\ MaxTimeout \in Nat
  /\ MaxDelay \in Nat /\ MaxHold \in Nat /\ Ttl \in Nat \ {0}
  /\ Window + MaxDelay <= Ttl
  /\ Top = Window + MaxDelay /\ Top \in Nat \ {0}
  /\ Never = MaxTimeout + 1 /\ Never \in Nat
  /\ Recent \subseteq Kept /\ IsFiniteSet(Kept) /\ IsFiniteSet(Recent)
  /\ \A a \in Kept : a \in Nat /\ a < Top
  /\ \A a \in Recent : a \in Nat /\ a < Window
  /\ \A a \in Nat : a < Top => a \in Kept
  /\ \A a \in Nat : a < Window => a \in Recent
<1>1. Top = Window + MaxDelay /\ Top \in Nat \ {0} /\ Window \in Nat \ {0} /\ MaxDelay \in Nat
  BY WindowAssumption DEF WindowAssumption, Top
<1>2. IsFiniteSet(Kept) /\ IsFiniteSet(Recent)
  <2>1. 0 \in Int /\ Top - 1 \in Int /\ Window - 1 \in Int
    BY <1>1
  <2> QED
    BY <2>1, FS_Interval DEF Kept, Recent
<1>3. /\ \A a \in Kept : a \in Nat /\ a < Top
      /\ \A a \in Recent : a \in Nat /\ a < Window
      /\ \A a \in Nat : a < Top => a \in Kept
      /\ \A a \in Nat : a < Window => a \in Recent
      /\ Recent \subseteq Kept
  BY <1>1 DEF Kept, Recent
<1> QED
  BY <1>1, <1>2, <1>3, WindowAssumption DEF WindowAssumption, Never

LEMMA Constants ==
  UNCHANGED <<Kept, Recent, Top, Never>>
  BY DEF Kept, Recent, Top, Never

LEMMA SmallNumbers ==
  ASSUME NEW n \in Nat
  PROVE  /\ Down(n) \in Nat /\ Down(n) <= n /\ (n > 0 => Down(n) = n - 1)
         /\ \A m \in Nat : AtMost(n, m) \in Nat /\ AtMost(n, m) <= n /\ AtMost(n, m) <= m
  BY DEF Down, AtMost

-----------------------------------------------------------------------------
(* The sorted set *)

\* Members that leave the sorted set of a late or punctual request have left the
\* window that ends now.
LEMMA PruneKeeps ==
  ASSUME NEW f \in [Kept -> Nat], NEW stamp \in Nat
  PROVE  /\ Prune(f, stamp) \in [Kept -> Nat]
         /\ \A a \in Kept : Prune(f, stamp)[a] <= f[a]
         /\ \A a \in Kept : a < Window + stamp => Prune(f, stamp)[a] = f[a]
         /\ \A a \in Kept : Prune(f, stamp)[a] > 0 => a < Window + stamp
         /\ \A a \in Recent : Prune(f, stamp)[a] = f[a]
         /\ Total(Prune(f, stamp), Kept) <= Total(f, Kept)
<1> DEFINE g == Prune(f, stamp)
<1>1. g = [a \in Kept |-> IF a >= Window + stamp THEN 0 ELSE f[a]]
  BY DEF Prune, Kept
<1>2. /\ g \in [Kept -> Nat]
      /\ \A a \in Kept : g[a] <= f[a]
      /\ \A a \in Kept : a < Window + stamp => g[a] = f[a]
      /\ \A a \in Kept : g[a] > 0 => a < Window + stamp
  BY <1>1, Parameters
<1>3. \A a \in Recent : g[a] = f[a]
  <2>1. \A a \in Recent : a \in Kept /\ a < Window + stamp
    BY Parameters
  <2> QED
    BY <1>2, <2>1
<1> HIDE DEF g
<1>4. Total(g, Kept) <= Total(f, Kept)
  BY <1>2, Parameters, TotalMonotone
<1> QED
  BY <1>2, <1>3, <1>4 DEF g

LEMMA OldestIs ==
  ASSUME NEW f \in [Kept -> Nat], Total(f, Kept) >= Limit
  PROVE  Oldest(f) \in Kept /\ f[Oldest(f)] > 0
<1> DEFINE Found == {a \in Kept : f[a] > 0}
<1>1. Found # {}
  <2>1. Total(f, Kept) # 0
    <3>1. Total(f, Kept) \in Nat
      BY Parameters, TotalType
    <3> QED
      BY <3>1, Parameters
  <2> QED
    BY <2>1, TotalPositive
<1>2. \E a \in Found : \A b \in Found : b <= a
  <2>1. Top - 1 \in Nat /\ Found \in SUBSET (0..Top-1)
    BY Parameters DEF Kept
  <2> HIDE DEF Found
  <2> QED
    BY <1>1, <2>1, GreatestNatural
<1>3. \E a \in Kept : f[a] > 0 /\ \A b \in Kept : f[b] > 0 => b <= a
  BY <1>2
<1> QED
  BY <1>3 DEF Oldest, Kept

\* The wait a refused request is told.
LEMMA WaitIsNatural ==
  ASSUME NEW f \in [Kept -> Nat], NEW stamp \in Nat,
         Total(Prune(f, stamp), Kept) >= Limit
  PROVE  WaitTime(Prune(f, stamp), stamp) \in Nat
<1> DEFINE g == Prune(f, stamp)
<1>1. g \in [Kept -> Nat] /\ \A a \in Kept : g[a] > 0 => a < Window + stamp
  BY PruneKeeps
<1> HIDE DEF g
<1>2. Oldest(g) \in Kept /\ Oldest(g) < Window + stamp
  BY <1>1, OldestIs DEF g
<1>3. Window + stamp - Oldest(g) \in Nat
  BY <1>2, Parameters
<1>4. WaitTime(g, stamp) \in Nat
  BY <1>3, Parameters, SmallNumbers DEF WaitTime
<1> QED
  BY <1>4 DEF g

LEMMA PrunedWindow ==
  ASSUME WindowInv, NEW stamp \in Nat, window' = Prune(window, stamp),
         UNCHANGED <<engine, ttl, granted>>
  PROVE  window' \in [Kept -> Nat] /\ WindowKept'
<1>1. /\ window \in [Kept -> Nat] /\ granted \in [Recent -> Nat]
      /\ Total(window, Kept) <= Limit
  BY DEF WindowInv, TypeOK, WindowKept, Kept
<1>2. /\ window' \in [Kept -> Nat] /\ \A a \in Recent : window'[a] = window[a]
      /\ Total(window', Kept) <= Total(window, Kept)
  BY <1>1, PruneKeeps
<1>3. Total(window, Kept) \in Nat /\ Total(window', Kept) \in Nat
  BY <1>1, <1>2, Parameters, TotalType
<1>4. Total(window', Kept) <= Limit
  BY <1>1, <1>2, <1>3, Parameters
<1> QED
  BY <1>2, <1>4, Constants DEF WindowInv, WindowKept, CountsPlaces

\* A grant is added to what is left of the window of its time.
LEMMA GrantedWindow ==
  ASSUME WindowInv, NEW stamp \in Nat, stamp <= MaxDelay,
         NEW f, f = Prune(window, stamp), Total(f, Kept) < Limit,
         window' \in Added(f, stamp), ttl' = Ttl, granted' = Record(stamp),
         UNCHANGED engine
  PROVE  /\ window' \in [Kept -> Nat] /\ granted' \in [Recent -> Nat]
         /\ WindowKept'
<1>1. /\ window \in [Kept -> Nat] /\ granted \in [Recent -> Nat] /\ ttl \in 0..Ttl
      /\ \A a \in Recent : granted[a] > 0 => window[a] > 0 /\ a + ttl >= Ttl
      /\ CountsPlaces => \A a \in Recent : granted[a] <= window[a]
  BY DEF WindowInv, TypeOK, WindowKept, Kept
<1>2. f \in [Kept -> Nat] /\ \A a \in Recent : f[a] = window[a]
  BY <1>1, PruneKeeps
<1>3. stamp \in Kept
  BY Parameters
<1>4. Total(f, Kept) \in Nat
  BY <1>2, Parameters, TotalType
<1>5. /\ window' \in [Kept -> Nat]
      /\ \A a \in Kept : window'[a] >= f[a]
      /\ window'[stamp] > 0
      /\ CountsPlaces => window'[stamp] = f[stamp] + 1
      /\ Total(window', Kept) <= Limit
  <2>1. CASE window' = [f EXCEPT ![stamp] = @ + 1]
    <3>1. /\ window' \in [Kept -> Nat] /\ window'[stamp] = f[stamp] + 1
          /\ \A a \in Kept \ {stamp} : window'[a] = f[a]
      BY <1>2, <1>3, <2>1
    <3>2. Total(window', Kept) = Total(f, Kept) + 1
      <4>1. IsFiniteSet(Kept) /\ \A a \in Kept : f[a] \in Nat
        BY <1>2, Parameters
      <4>2. PICK w : w = window'
        OBVIOUS
      <4>3. w[stamp] = f[stamp] + 1 /\ \A a \in Kept \ {stamp} : w[a] = f[a]
        BY <3>1, <4>2
      <4>4. Total(w, Kept) = Total(f, Kept) + 1
        BY <1>3, <4>1, <4>3, TotalOneMore
      <4> QED
        BY <4>2, <4>4
    <3>3. \A a \in Kept : window'[a] >= f[a]
      BY <1>2, <1>3, <3>1
    <3> QED
      BY <1>2, <1>3, <1>4, <3>1, <3>2, <3>3, Parameters
  <2>2. CASE window' = f /\ ~CountsPlaces /\ f[stamp] # 0
    BY <1>2, <1>3, <1>4, <2>2, Parameters
  <2> QED
    BY <2>1, <2>2 DEF Added
<1>6. /\ granted' \in [Recent -> Nat]
      /\ \A a \in Recent : a # stamp => granted'[a] = granted[a]
      /\ stamp \in Recent => granted'[stamp] <= granted[stamp] + 1
  <2>1. \A a \in Recent : AtMost(granted[a], Limit) \in Nat /\ AtMost(granted[a], Limit) <= granted[a]
    BY <1>1, Parameters, SmallNumbers
  <2> QED
    BY <1>1, <2>1 DEF Record
<1>7. ASSUME NEW a \in Recent, granted'[a] > 0
      PROVE  window'[a] > 0 /\ a + ttl' >= Ttl'
  <2>1. a + ttl' >= Ttl /\ a \in Kept
    BY Parameters
  <2>2. CASE a = stamp
    BY <1>5, <2>1, <2>2
  <2>3. CASE a # stamp
    <3>1. f[a] > 0 /\ f[a] \in Nat /\ window'[a] >= f[a] /\ window'[a] \in Nat
      BY <1>1, <1>2, <1>5, <1>6, <1>7, <2>1, <2>3
    <3> QED
      BY <2>1, <3>1
  <2> QED
    BY <2>2, <2>3
<1>8. ASSUME CountsPlaces, NEW a \in Recent PROVE granted'[a] <= window'[a]
  <2>1. /\ a \in Kept /\ f[a] = window[a] /\ granted[a] <= window[a]
        /\ granted[a] \in Nat /\ f[a] \in Nat /\ granted'[a] \in Nat /\ window'[a] \in Nat
        /\ window'[a] >= f[a]
    BY <1>1, <1>2, <1>5, <1>6, <1>8, Parameters
  <2>2. CASE a = stamp
    BY <1>5, <1>6, <1>8, <2>1, <2>2
  <2>3. CASE a # stamp
    BY <1>6, <2>1, <2>3
  <2> QED
    BY <2>2, <2>3
<1> QED
  BY <1>5, <1>6, <1>7, <1>8, Constants DEF WindowKept, CountsPlaces

\* Time passes: the keys expire after the window.
LEMMA AgedWindow ==
  ASSUME WindowInv, Tick
  PROVE  /\ window' \in [Kept -> Nat] /\ granted' \in [Recent -> Nat]
         /\ WindowKept'
<1>1. /\ window \in [Kept -> Nat] /\ granted \in [Recent -> Nat] /\ ttl \in 0..Ttl
      /\ Total(window, Kept) <= Limit
      /\ \A a \in Recent : granted[a] > 0 => window[a] > 0 /\ a + ttl >= Ttl
      /\ CountsPlaces => \A a \in Recent : granted[a] <= window[a]
  BY DEF WindowInv, TypeOK, WindowKept, Kept
<1>2. /\ granted' \in [Recent -> Nat]
      /\ \A a \in Recent : a = 0 => granted'[a] = 0
      /\ \A a \in Recent : a # 0 => a - 1 \in Recent /\ granted'[a] = granted[a - 1]
  <2>1. granted' = [a \in Recent |-> IF a = 0 THEN 0 ELSE granted[a - 1]]
    BY <1>1 DEF Tick, Aged
  <2>2. \A a \in Recent : a # 0 => a - 1 \in Recent
    BY Parameters
  <2> QED
    BY <1>1, <2>1, <2>2
<1>3. ttl' = Down(ttl) /\ engine' = engine
  BY DEF Tick, config
<1>4. CASE ttl > 1
  <2>1. window' = [a \in Kept |-> IF a = 0 THEN 0 ELSE window[a - 1]]
    BY <1>1, <1>4 DEF Tick, Expire, Aged
  <2>2. \A a \in Kept : a # 0 => a - 1 \in Kept
    BY Parameters
  <2>3. /\ window' \in [Kept -> Nat]
        /\ \A a \in Kept : a \in Nat /\ (a = 0 => window'[a] = 0)
                        /\ (a # 0 => a - 1 \in Kept /\ window'[a] = window[a - 1])
    BY <1>1, <2>1, <2>2, Parameters
  <2>4. Total(window', Kept) <= Total(window, Kept)
    <3>1. \A a \in Kept : window[a] \in Nat
      BY <1>1
    <3> QED
      BY <2>3, <3>1, Parameters, TotalShift
  <2>5. Total(window', Kept) <= Limit
    <3>1. Total(window, Kept) \in Nat /\ Total(window', Kept) \in Nat
      BY <1>1, <2>3, Parameters, TotalType
    <3> QED
      BY <1>1, <2>4, <3>1, Parameters
  <2>6. ttl' = ttl - 1
    BY <1>1, <1>3, <1>4, SmallNumbers
  <2>7. ASSUME NEW a \in Recent, granted'[a] > 0
        PROVE  window'[a] > 0 /\ a + ttl' >= Ttl
    <3>1. a # 0 /\ a - 1 \in Recent /\ granted[a - 1] > 0 /\ a \in Kept /\ a \in Nat
      BY <1>2, <2>7, Parameters
    <3>2. window[a - 1] > 0 /\ (a - 1) + ttl >= Ttl /\ window'[a] = window[a - 1]
      BY <1>1, <2>3, <3>1
    <3> QED
      BY <1>1, <2>6, <3>1, <3>2, Parameters
  <2>8. ASSUME CountsPlaces, NEW a \in Recent PROVE granted'[a] <= window'[a]
    <3>1. a \in Kept
      BY Parameters
    <3>2. CASE a = 0
      BY <1>2, <2>3, <3>1, <3>2
    <3>3. CASE a # 0
      BY <1>1, <1>2, <2>3, <2>8, <3>1, <3>3
    <3> QED
      BY <3>2, <3>3
  <2> QED
    BY <1>2, <1>3, <2>3, <2>5, <2>7, <2>8, Constants DEF WindowKept, CountsPlaces
<1>5. CASE ~(ttl > 1)
  <2>1. window' = Nothing
    BY <1>5 DEF Tick, Expire
  <2>2. window' \in [Kept -> Nat] /\ \A a \in Kept : window'[a] = 0
    BY <2>1 DEF Nothing, Kept
  <2>3. Total(window', Kept) = 0
    BY <2>2, TotalZero
  <2>4. ASSUME NEW a \in Recent PROVE granted'[a] = 0
    <3> SUFFICES ASSUME granted'[a] # 0 PROVE FALSE
      OBVIOUS
    <3>1. a # 0 /\ a - 1 \in Recent /\ granted[a - 1] > 0 /\ a \in Nat /\ a < Window
      BY <1>1, <1>2, Parameters
    <3>2. (a - 1) + ttl >= Ttl
      BY <1>1, <3>1
    <3> QED
      BY <1>1, <1>5, <3>1, <3>2, Parameters
  <2>5. \A a \in Recent : a \in Kept /\ ~(granted'[a] > 0) /\ granted'[a] <= window'[a]
    BY <2>2, <2>4, Parameters
  <2> QED
    BY <1>2, <1>3, <2>2, <2>3, <2>5, Constants, Parameters DEF WindowKept, CountsPlaces
<1> QED
  BY <1>4, <1>5

-----------------------------------------------------------------------------
(* Types and the rate *)

\* What the places and the timers look like after the move of one client.
LEMMA ClientTyping ==
  ASSUME TypeOK, SentRecently, NEW c \in Clients, NEW place \in Places, NEW t \in Nat,
         NEW b \in 0..Never, Move(c, place, t), budget' = [budget EXCEPT ![c] = b],
         place = "sent" => t <= MaxDelay
  PROVE  /\ pc' \in [Clients -> Places]
         /\ timer' \in [Clients -> Nat]
         /\ budget' \in [Clients -> 0..Never]
         /\ SentRecently'
<1>1. pc' = [pc EXCEPT ![c] = place] /\ timer' = [timer EXCEPT ![c] = t]
  BY DEF Move
<1>2. /\ pc' \in [Clients -> Places]
      /\ timer' \in [Clients -> Nat]
      /\ budget' \in [Clients -> 0..Never]
  BY <1>1 DEF TypeOK
<1>3. ASSUME NEW d \in At({"sent"})' PROVE timer'[d] <= MaxDelay
  <2>1. CASE d = c
    BY <1>1, <1>3, <2>1 DEF At, TypeOK
  <2>2. CASE d # c
    BY <1>1, <1>3, <2>2 DEF At, TypeOK, SentRecently
  <2> QED
    BY <2>1, <2>2
<1> QED
  BY <1>2, <1>3 DEF SentRecently

\* The move of a client, whatever it does at the server.
LEMMA ClientStep ==
  ASSUME WindowInv, NEW c \in Clients, NEW place \in Places, NEW t \in Nat, NEW b \in 0..Never,
         Move(c, place, t), budget' = [budget EXCEPT ![c] = b], place = "sent" => t <= MaxDelay,
         UNCHANGED <<config, wasReset>>,
         window' \in [Kept -> Nat], granted' \in [Recent -> Nat], WindowKept',
         ttl' \in 0..Ttl, counter' \in 0..MaxConcurrent, owners' \in SUBSET Clients,
         leaked' \in Nat
  PROVE  WindowInv'
<1>1. /\ pc' \in [Clients -> Places]
      /\ timer' \in [Clients -> Nat]
      /\ budget' \in [Clients -> 0..Never]
      /\ SentRecently'
  BY ClientTyping DEF WindowInv
<1> QED
  BY <1>1, Constants DEF WindowInv, TypeOK, config, Kept

\* A client moves and leaves the sorted set alone.
LEMMA QuietStep ==
  ASSUME WindowInv, NEW c \in Clients, NEW place \in Places, NEW t \in Nat, NEW b \in 0..Never,
         Move(c, place, t), budget' = [budget EXCEPT ![c] = b], place = "sent" => t <= MaxDelay,
         UNCHANGED <<config, wasReset, window, ttl, granted>>,
         counter' \in 0..MaxConcurrent, owners' \in SUBSET Clients, leaked' \in Nat
  PROVE  WindowInv'
<1>1. window' \in [Kept -> Nat] /\ granted' \in [Recent -> Nat] /\ ttl' \in 0..Ttl
  BY DEF WindowInv, TypeOK, Kept
<1>2. WindowKept'
  BY Constants DEF WindowInv, WindowKept, CountsPlaces, config
<1> QED
  BY <1>1, <1>2, ClientStep

LEMMA AcquireWindow ==
  ASSUME WindowInv, NEW c \in Clients, AcquireScript(c)
  PROVE  WindowInv'
<1> DEFINE f == Prune(window, timer[c])
           full == Total(f, Kept) >= Limit
           busy == CountsPlaces /\ counter >= MaxConcurrent
<1>1. /\ pc[c] = "sent" /\ UNCHANGED <<config, wasReset>>
      /\ \/ full /\ Refuse(c, WaitTime(f, timer[c])) /\ window' = f
         \/ Refuse(c, Poll) /\ window' = f
         \/ /\ ~full /\ ~busy
            /\ window' \in Added(f, timer[c])
            /\ ttl' = Ttl
            /\ Occupy(c)
            /\ Move(c, "granted", 0)
            /\ granted' = Record(timer[c])
            /\ UNCHANGED <<budget, leaked>>
  BY DEF AcquireScript, Kept
<1>2. /\ timer[c] \in Nat /\ timer[c] <= MaxDelay /\ budget[c] \in 0..Never
      /\ budget = [budget EXCEPT ![c] = budget[c]]
      /\ ttl \in 0..Ttl /\ counter \in 0..MaxConcurrent /\ owners \in SUBSET Clients
      /\ leaked \in Nat /\ window \in [Kept -> Nat] /\ granted \in [Recent -> Nat]
  BY <1>1 DEF WindowInv, TypeOK, SentRecently, At, Kept
<1>3. {"refused", "granted"} \subseteq Places /\ 0 \in Nat
  BY DEF Places
<1>4. Total(f, Kept) \in Nat
  BY <1>2, Parameters, PruneKeeps, TotalType
<1>5. ASSUME NEW wait \in Nat, Refuse(c, wait), window' = f PROVE WindowInv'
  <2> HIDE DEF f
  <2>1. window' \in [Kept -> Nat] /\ WindowKept'
    BY <1>1, <1>2, <1>5, PrunedWindow DEF Refuse, history, config, f
  <2> QED
    BY <1>1, <1>2, <1>3, <1>5, <2>1, ClientStep DEF Refuse, history
<1>6. full => WaitTime(f, timer[c]) \in Nat
  BY <1>2, WaitIsNatural
<1>7. CASE /\ ~full /\ ~busy
           /\ window' \in Added(f, timer[c])
           /\ ttl' = Ttl
           /\ Occupy(c)
           /\ Move(c, "granted", 0)
           /\ granted' = Record(timer[c])
           /\ UNCHANGED <<budget, leaked>>
  <2>1. Total(f, Kept) < Limit
    BY <1>4, <1>7, Parameters
  <2> HIDE DEF f
  <2>2. window' \in [Kept -> Nat] /\ granted' \in [Recent -> Nat] /\ WindowKept'
    BY <1>1, <1>2, <1>7, <2>1, GrantedWindow DEF config, f
  <2>3. counter' \in 0..MaxConcurrent /\ owners' \in SUBSET Clients
    BY <1>2, <1>7, Parameters DEF Occupy
  <2>4. ttl' \in 0..Ttl
    BY <1>7, Parameters
  <2> QED
    BY <1>1, <1>2, <1>3, <1>7, <2>2, <2>3, <2>4, ClientStep
<1> HIDE DEF f
<1> QED
  BY <1>1, <1>5, <1>6, <1>7, Parameters

LEMMA ClientWindow ==
  ASSUME WindowInv, NEW c \in Clients,
         \/ \E timeout \in 0..Never : Call(c, timeout)
         \/ Step(c) \/ FailOpen(c) \/ GiveUp(c)
  PROVE  WindowInv'
<1>1. /\ counter \in 0..MaxConcurrent /\ owners \in SUBSET Clients /\ leaked \in Nat
      /\ timer[c] \in Nat /\ budget[c] \in 0..Never
      /\ budget = [budget EXCEPT ![c] = budget[c]]
  BY DEF WindowInv, TypeOK
<1>2. /\ 0 \in Nat /\ 0 \in 0..Never /\ 0 <= MaxDelay
      /\ Places = {"idle", "sent", "granted", "refused", "sleep", "operation", "releasing"}
  BY Parameters DEF Places
<1>3. ASSUME NEW timeout \in 0..Never, Call(c, timeout) PROVE WindowInv'
  BY <1>1, <1>2, <1>3, QuietStep DEF Call, server, history
<1>4. ASSUME Idle(c), UNCHANGED <<config, wasReset, window, ttl, granted>>,
             counter' \in 0..MaxConcurrent, owners' \in SUBSET Clients, leaked' \in Nat
      PROVE  WindowInv'
  BY <1>2, <1>4, QuietStep DEF Idle
<1>5. CASE Reply(c)
  <2>1. CASE Idle(c)
    BY <1>1, <1>4, <1>5, <2>1 DEF Reply, server, history
  <2>2. CASE Move(c, "operation", timer[c]) /\ budget' = [budget EXCEPT ![c] = 0]
    BY <1>1, <1>2, <1>5, <2>2, QuietStep DEF Reply, server, history
  <2>3. ASSUME NEW rest \in Nat, Move(c, "sleep", rest), UNCHANGED budget PROVE WindowInv'
    BY <1>1, <1>2, <1>5, <2>3, QuietStep DEF Reply, server, history
  <2>4. (IF budget[c] = Never THEN timer[c] ELSE AtMost(timer[c], budget[c])) \in Nat
    BY <1>1, Parameters, SmallNumbers
  <2> QED
    BY <1>5, <2>1, <2>2, <2>3, <2>4 DEF Reply
<1>6. CASE Wake(c)
  BY <1>1, <1>2, <1>6, QuietStep DEF Wake, server, history
<1>7. CASE Finish(c)
  BY <1>1, <1>2, <1>7, QuietStep DEF Finish, server, history
<1>8. CASE ReleaseScript(c)
  <2>1. counter' \in 0..MaxConcurrent /\ owners' \in SUBSET Clients /\ leaked' \in Nat
    BY <1>1, <1>8, Parameters DEF ReleaseScript, Down
  <2> QED
    BY <1>4, <1>8, <2>1 DEF ReleaseScript
<1>9. CASE FailOpen(c)
  <2>1. CASE CountsPlaces
    <3>1. (IF pc[c] = "granted" THEN timer[c] ELSE 0) \in Nat
      BY <1>1
    <3>2. ASSUME NEW t \in Nat, Move(c, "operation", t), budget' = [budget EXCEPT ![c] = 0]
          PROVE  WindowInv'
      BY <1>1, <1>2, <1>9, <3>2, QuietStep DEF FailOpen, server, history
    <3> QED
      BY <1>9, <2>1, <3>1, <3>2 DEF FailOpen
  <2>2. CASE ~CountsPlaces
    BY <1>1, <1>4, <1>9, <2>2 DEF FailOpen, server, history
  <2> QED
    BY <2>1, <2>2
<1>10. CASE GiveUp(c)
  <2>1. counter' \in 0..MaxConcurrent /\ owners' \in SUBSET Clients /\ leaked' \in Nat
    BY <1>1, <1>10 DEF GiveUp, server
  <2> QED
    BY <1>4, <1>10, <2>1 DEF GiveUp, server
<1>11. CASE AcquireScript(c)
  BY <1>11, AcquireWindow
<1> QED
  BY <1>3, <1>5, <1>6, <1>7, <1>8, <1>9, <1>10, <1>11 DEF Step

LEMMA TickWindow ==
  ASSUME WindowInv, Tick
  PROVE  WindowInv'
<1>1. /\ ttl \in 0..Ttl /\ counter \in 0..MaxConcurrent /\ leaked \in Nat
      /\ pc \in [Clients -> Places] /\ timer \in [Clients -> Nat]
      /\ budget \in [Clients -> 0..Never] /\ owners \in SUBSET Clients
  BY DEF WindowInv, TypeOK
<1>2. ttl' \in 0..Ttl /\ counter' \in 0..MaxConcurrent /\ leaked' \in Nat
  BY <1>1, Parameters DEF Tick, Expire, Down
<1>3. timer' \in [Clients -> Nat]
  <2>1. \A c \in Clients : timer[c] \in Nat /\ Down(timer[c]) \in Nat
    BY <1>1 DEF Down
  <2> QED
    BY <2>1 DEF Tick
<1>4. budget' \in [Clients -> 0..Never]
  <2>1. \A c \in Clients : budget[c] \in 0..Never /\ Down(budget[c]) \in 0..Never
    BY <1>1, Parameters DEF Down
  <2> QED
    BY <2>1 DEF Tick
<1>5. SentRecently'
  <2> SUFFICES ASSUME NEW c \in At({"sent"})' PROVE timer'[c] <= MaxDelay
    BY DEF SentRecently
  <2>1. c \in Clients /\ pc[c] = "sent" /\ c \in At({"sent"})
    BY DEF At, Tick
  <2>2. timer'[c] = timer[c] + 1 /\ timer[c] < MaxDelay /\ timer[c] \in Nat
    BY <1>1, <2>1 DEF Tick
  <2> QED
    BY <2>2, Parameters
<1>6. window' \in [Kept -> Nat] /\ granted' \in [Recent -> Nat] /\ WindowKept'
  BY AgedWindow
<1> QED
  BY <1>1, <1>2, <1>3, <1>4, <1>5, <1>6, Constants DEF WindowInv, TypeOK, Tick, config, Kept

LEMMA ResetWindow ==
  ASSUME WindowInv, Reset
  PROVE  WindowInv'
<1>1. /\ window' \in [Kept -> Nat] /\ \A a \in Kept : window'[a] = 0
      /\ granted' \in [Recent -> Nat] /\ \A a \in Recent : granted'[a] = 0
  BY DEF Reset, Nothing, Kept
<1>2. Total(window', Kept) = 0
  BY <1>1, TotalZero
<1>3. WindowKept'
  <2>1. \A a \in Recent : a \in Kept /\ ~(granted'[a] > 0) /\ granted'[a] <= window'[a]
    BY <1>1, Parameters
  <2> QED
    BY <1>2, <2>1, Constants, Parameters DEF WindowKept
<1>4. SentRecently'
  BY DEF WindowInv, SentRecently, At, Reset, local
<1>5. TypeOK'
  BY <1>1, Constants, Parameters DEF WindowInv, TypeOK, Reset, config, local, Kept
<1> QED
  BY <1>3, <1>4, <1>5 DEF WindowInv

LEMMA CleanWindow ==
  ASSUME WindowInv, NEW stamp \in 0..MaxDelay, CleanState(stamp)
  PROVE  WindowInv'
<1>1. window' = Prune(window, stamp) /\ stamp \in Nat
  BY Parameters DEF CleanState
<1>2. UNCHANGED <<engine, ttl, granted>>
  BY DEF CleanState, config, history
<1>3. window' \in [Kept -> Nat] /\ WindowKept'
  BY <1>1, <1>2, PrunedWindow
<1>4. SentRecently'
  BY DEF WindowInv, SentRecently, At, CleanState, local
<1> QED
  BY <1>3, <1>4, Constants DEF WindowInv, TypeOK, CleanState, config, local, history, Kept

LEMMA InitWindow ==
  ASSUME Init
  PROVE  WindowInv
<1>1. /\ window \in [Kept -> Nat] /\ \A a \in Kept : window[a] = 0
      /\ granted \in [Recent -> Nat] /\ \A a \in Recent : granted[a] = 0
  BY DEF Init, Nothing, Kept
<1>2. Total(window, Kept) = 0
  BY <1>1, TotalZero
<1>3. WindowKept
  <2>1. \A a \in Recent : a \in Kept /\ ~(granted[a] > 0) /\ granted[a] <= window[a]
    BY <1>1, Parameters
  <2> QED
    BY <1>2, <2>1, Parameters DEF WindowKept
<1>4. TypeOK
  <2>1. /\ engine \in {"redis", "redis_sliding_window"} /\ failClosed \in BOOLEAN
        /\ counter \in 0..MaxConcurrent /\ ttl \in 0..Ttl
    BY Parameters, WindowAssumption DEF Init, WindowAssumption
  <2>2. /\ pc \in [Clients -> Places] /\ timer \in [Clients -> Nat]
        /\ budget \in [Clients -> 0..Never]
    BY Parameters DEF Init, Places
  <2>3. wasReset \in BOOLEAN /\ owners \in SUBSET Clients /\ leaked \in Nat
    BY DEF Init
  <2> QED
    BY <1>1, <2>1, <2>2, <2>3 DEF TypeOK, Kept
<1>5. SentRecently
  BY DEF Init, SentRecently, At
<1> QED
  BY <1>3, <1>4, <1>5 DEF WindowInv

LEMMA NextWindow ==
  ASSUME WindowInv, [Next]_vars
  PROVE  WindowInv'
<1>1. CASE UNCHANGED vars
  BY <1>1, Constants DEF WindowInv, TypeOK, SentRecently, WindowKept, CountsPlaces, At,
                         vars, config, server, local, history
<1> QED
  BY <1>1, TickWindow, ResetWindow, CleanWindow, ClientWindow DEF Next

LEMMA SpecWindow == Spec => []WindowInv
  BY InitWindow, NextWindow, PTL DEF Spec

\* Every variable keeps its type, and the counter never exceeds max_concurrent,
\* whatever fails, whoever gives up and however late the scripts are executed.
THEOREM TypeCorrect == Spec => []TypeOK
<1>1. WindowInv => TypeOK
  BY DEF WindowInv
<1> QED
  BY <1>1, SpecWindow, PTL

\* At every moment at most limit grants carry times of the window that ends then
\* (redis.py, ACQUIRE_SLIDING_WINDOW_SCRIPT; redis_sliding_window.py,
\* SLIDING_WINDOW_SCRIPT), with requests delayed, the window cleaned by anyone and
\* the keys expiring.
THEOREM RateKept == Spec => []RateRespected
<1>1. WindowInv => RateRespected
  <2> SUFFICES ASSUME WindowInv PROVE RateRespected
    OBVIOUS
  <2>1. /\ window \in [Kept -> Nat] /\ granted \in [Recent -> Nat]
        /\ Total(window, Kept) <= Limit
        /\ \A a \in Recent : granted[a] > 0 => window[a] > 0
        /\ CountsPlaces => \A a \in Recent : granted[a] <= window[a]
    BY DEF WindowInv, TypeOK, WindowKept, Kept
  <2>2. Total(window, Kept) \in Nat /\ Limit \in Nat
    BY <2>1, Parameters, TotalType
  <2>3. CASE CountsPlaces
    <3>1. Total(granted, Recent) <= Total(window, Kept)
      BY <2>1, <2>3, Parameters, TotalMonotone
    <3>2. Total(granted, Recent) \in Nat
      BY <2>1, Parameters, TotalType
    <3> QED
      BY <2>1, <2>2, <2>3, <3>1, <3>2 DEF RateRespected
  <2>4. CASE ~CountsPlaces
    <3> DEFINE Used == {a \in Recent : granted[a] > 0}
    <3>1. Used \in SUBSET Kept /\ \A a \in Used : window[a] > 0
      BY <2>1, Parameters
    <3>2. IsFiniteSet(Used) /\ Cardinality(Used) \in Nat
      BY Parameters, FS_Subset, FS_CardinalityType
    <3>3. Cardinality(Used) <= Total(window, Kept)
      <4> HIDE DEF Used
      <4>1. \A a \in Kept : window[a] \in Nat
        BY <2>1
      <4> QED
        BY <3>1, <4>1, Parameters, AgesWithSome
    <3> HIDE DEF Used
    <3>4. Cardinality(Used) <= Limit
      BY <2>1, <2>2, <3>2, <3>3
    <3> QED
      BY <2>4, <3>4 DEF RateRespected, Used
  <2> QED
    BY <2>3, <2>4
<1> QED
  BY <1>1, SpecWindow, PTL

-----------------------------------------------------------------------------
(* The counter *)

LEMMA FiniteOwners ==
  ASSUME NEW S \in SUBSET Clients
  PROVE  /\ IsFiniteSet(S) /\ Cardinality(S) \in Nat
         /\ \A c \in S : Cardinality(S \ {c}) = Cardinality(S) - 1 /\ Cardinality(S) > 0
         /\ \A c \in Clients \ S : Cardinality(S \cup {c}) = Cardinality(S) + 1
         /\ \A c : c \notin S => S \ {c} = S
<1>1. IsFiniteSet(S) /\ Cardinality(S) \in Nat
  BY WindowAssumption, FS_Subset, FS_CardinalityType DEF WindowAssumption
<1>2. \A c \in S : Cardinality(S \ {c}) = Cardinality(S) - 1
  BY <1>1, FS_RemoveElement
<1>3. S # {} => Cardinality(S) > 0
  BY <1>1, FS_EmptySet
<1>4. \A c \in Clients \ S : Cardinality(S \cup {c}) = Cardinality(S) + 1
  BY <1>1, FS_AddElement
<1> QED
  BY <1>1, <1>2, <1>3, <1>4

\* What the move of one client does to the clients that hold a place.
LEMMA MoveChangesHolders ==
  ASSUME TypeOK, NEW c \in Clients, NEW place, pc' = [pc EXCEPT ![c] = place]
  PROVE  /\ place \in Holding => At(Holding)' = At(Holding) \cup {c}
         /\ place \notin Holding => At(Holding)' = At(Holding) \ {c}
  BY DEF TypeOK, At

\* A place is counted only for a client that holds it, and by the engine that counts.
OwnersHold ==
  /\ owners \subseteq At(Holding)
  /\ ~CountsPlaces => owners = {}

PlacesInv == WindowInv /\ OwnersHold /\ NoPhantomPlace

LEMMA PlacesFacts ==
  ASSUME PlacesInv
  PROVE  /\ TypeOK /\ owners \in SUBSET Clients /\ counter \in Nat /\ leaked \in Nat
         /\ owners \subseteq At(Holding)
         /\ ~CountsPlaces => owners = {}
         /\ counter <= Cardinality(owners) + leaked
         /\ Cardinality(owners) \in Nat
  BY Parameters, FiniteOwners DEF PlacesInv, WindowInv, TypeOK, OwnersHold, NoPhantomPlace

\* A client moves, and keeps the place it holds.
LEMMA KeepPlaces ==
  ASSUME PlacesInv, NEW c \in Clients, NEW place, pc' = [pc EXCEPT ![c] = place],
         UNCHANGED <<engine, counter, owners, leaked>>,
         c \in owners => place \in Holding
  PROVE  OwnersHold' /\ NoPhantomPlace'
<1>1. owners \subseteq At(Holding)'
  BY PlacesFacts, MoveChangesHolders
<1> QED
  BY <1>1 DEF PlacesInv, OwnersHold, NoPhantomPlace, CountsPlaces

\* A client that leaves takes at most its own place with it.
LEMMA LeavePlaces ==
  ASSUME PlacesInv, NEW c \in Clients, Idle(c), engine' = engine, owners' = owners \ {c},
         counter' <= Cardinality(owners \ {c}) + leaked'
  PROVE  OwnersHold' /\ NoPhantomPlace'
<1>1. At(Holding)' = At(Holding) \ {c}
  <2>1. "idle" \notin Holding
    BY DEF Holding
  <2> QED
    BY <2>1, PlacesFacts, MoveChangesHolders DEF Idle, Move
<1> QED
  BY <1>1, PlacesFacts DEF OwnersHold, NoPhantomPlace, CountsPlaces

LEMMA ClientPlaces ==
  ASSUME PlacesInv, NEW c \in Clients,
         \/ \E timeout \in 0..Never : Call(c, timeout)
         \/ Step(c) \/ FailOpen(c) \/ GiveUp(c)
  PROVE  OwnersHold' /\ NoPhantomPlace'
<1>1. /\ c \in owners => pc[c] \in Holding /\ CountsPlaces
      /\ counter \in Nat /\ leaked \in Nat /\ counter <= Cardinality(owners) + leaked
      /\ Cardinality(owners) \in Nat
  BY PlacesFacts DEF At
<1>2. /\ c \in owners => /\ Cardinality(owners \ {c}) = Cardinality(owners) - 1
                         /\ Cardinality(owners) > 0
      /\ c \notin owners => /\ Cardinality(owners \cup {c}) = Cardinality(owners) + 1
                            /\ owners \ {c} = owners
  BY PlacesFacts, FiniteOwners
<1>3. ASSUME NEW timeout \in 0..Never, Call(c, timeout) PROVE OwnersHold' /\ NoPhantomPlace'
  BY <1>1, <1>3, KeepPlaces DEF Call, Move, config, server, history, Holding
<1>4. CASE AcquireScript(c)
  <2>1. c \notin owners /\ engine' = engine
    BY <1>1, <1>4 DEF AcquireScript, Holding, config
  <2>2. ASSUME NEW wait, Refuse(c, wait) PROVE OwnersHold' /\ NoPhantomPlace'
    BY <2>1, <2>2, KeepPlaces DEF Refuse, Move, history
  <2>3. CASE Occupy(c) /\ Move(c, "granted", 0) /\ UNCHANGED leaked
    <3>1. CASE CountsPlaces
      <4>1. /\ owners' = owners \cup {c} /\ counter' = counter + 1 /\ leaked' = leaked
            /\ At(Holding)' = At(Holding) \cup {c}
        BY <2>3, <3>1, PlacesFacts, MoveChangesHolders DEF Occupy, Move, Holding
      <4> QED
        BY <1>2, <2>1, <3>1, <4>1, PlacesFacts DEF OwnersHold, NoPhantomPlace, CountsPlaces
    <3>2. CASE ~CountsPlaces
      BY <2>1, <2>3, <3>2, KeepPlaces DEF Occupy, Move
    <3> QED
      BY <3>1, <3>2
  <2> QED
    BY <1>4, <2>2, <2>3 DEF AcquireScript
<1>5. CASE Reply(c)
  <2>1. /\ \E place : pc' = [pc EXCEPT ![c] = place] /\ (c \in owners => place \in Holding)
        /\ UNCHANGED <<engine, counter, owners, leaked>>
    BY <1>1, <1>5 DEF Reply, Idle, Move, config, server, history, Holding
  <2> QED
    BY <2>1, KeepPlaces
<1>6. CASE Wake(c) \/ Finish(c)
  BY <1>1, <1>6, KeepPlaces DEF Wake, Finish, Move, config, server, history, Holding
<1>7. CASE FailOpen(c)
  <2>1. /\ \E place : pc' = [pc EXCEPT ![c] = place] /\ (c \in owners => place \in Holding)
        /\ UNCHANGED <<engine, counter, owners, leaked>>
    BY <1>1, <1>7 DEF FailOpen, Idle, Move, config, server, history, Holding
  <2> QED
    BY <2>1, KeepPlaces
<1>8. CASE ReleaseScript(c)
  <2>1. /\ Idle(c) /\ engine' = engine /\ owners' = owners \ {c} /\ counter' = Down(counter)
        /\ leaked' = IF c \in owners THEN leaked ELSE Down(leaked)
    BY <1>8 DEF ReleaseScript, config
  <2>2. counter' <= Cardinality(owners \ {c}) + leaked'
    <3>1. CASE c \in owners
      BY <1>1, <1>2, <2>1, <3>1 DEF Down
    <3>2. CASE c \notin owners
      BY <1>1, <1>2, <2>1, <3>2 DEF Down
    <3> QED
      BY <3>1, <3>2
  <2> QED
    BY <2>1, <2>2, LeavePlaces
<1>9. CASE GiveUp(c)
  <2>1. /\ Idle(c) /\ engine' = engine /\ owners' = owners \ {c} /\ counter' = counter
        /\ leaked' = IF c \in owners /\ leaked < counter THEN leaked + 1 ELSE leaked
    BY <1>9 DEF GiveUp, config, server
  <2>2. counter' <= Cardinality(owners \ {c}) + leaked'
    BY <1>1, <1>2, <2>1
  <2> QED
    BY <2>1, <2>2, LeavePlaces
<1> QED
  BY <1>3, <1>4, <1>5, <1>6, <1>7, <1>8, <1>9 DEF Step

\* Time, a reset and a cleaned window count no place.
LEMMA QuietPlaces ==
  ASSUME PlacesInv, Tick \/ Reset \/ \E stamp \in 0..MaxDelay : CleanState(stamp)
  PROVE  OwnersHold' /\ NoPhantomPlace'
<1>1. At(Holding)' = At(Holding) /\ engine' = engine
  BY DEF Tick, Reset, CleanState, At, config, local
<1>2. CASE Tick
  <2>1. owners' = owners /\ counter' <= Cardinality(owners) + leaked'
    BY <1>2, PlacesFacts DEF Tick, Expire
  <2> QED
    BY <1>1, <2>1, PlacesFacts DEF OwnersHold, NoPhantomPlace, CountsPlaces
<1>3. CASE Reset
  <2>1. owners' = {} /\ counter' = 0 /\ leaked' = 0 /\ Cardinality({}) = 0
    BY <1>3, FS_EmptySet DEF Reset
  <2> QED
    BY <2>1 DEF OwnersHold, NoPhantomPlace
<1>4. ASSUME NEW stamp \in 0..MaxDelay, CleanState(stamp) PROVE OwnersHold' /\ NoPhantomPlace'
  BY <1>1, <1>4, PlacesFacts DEF CleanState, history, OwnersHold, NoPhantomPlace, CountsPlaces
<1> QED
  BY <1>2, <1>3, <1>4

LEMMA SpecPlaces == Spec => []PlacesInv
<1>1. Init => PlacesInv
  <2> SUFFICES ASSUME Init PROVE PlacesInv
    OBVIOUS
  <2>1. owners = {} /\ counter = 0 /\ leaked = 0 /\ Cardinality({}) = 0
    BY FS_EmptySet DEF Init
  <2> QED
    BY <2>1, InitWindow DEF PlacesInv, OwnersHold, NoPhantomPlace
<1>2. PlacesInv /\ [Next]_vars => PlacesInv'
  <2> SUFFICES ASSUME PlacesInv, [Next]_vars PROVE PlacesInv'
    OBVIOUS
  <2>1. WindowInv'
    BY NextWindow DEF PlacesInv
  <2>2. CASE UNCHANGED vars
    <3>1. At(Holding)' = At(Holding) /\ UNCHANGED <<engine, counter, owners, leaked>>
      BY <2>2 DEF vars, config, server, local, history, At
    <3> QED
      BY <2>1, <3>1 DEF PlacesInv, OwnersHold, NoPhantomPlace, CountsPlaces
  <2> QED
    BY <2>1, <2>2, ClientPlaces, QuietPlaces DEF Next, PlacesInv
<1> QED
  BY <1>1, <1>2, PTL DEF Spec

\* Requests allowed without a place, a reset while places are held and keys
\* that expire leave no place counted that nobody holds and nobody lost
\* (redis.py, RELEASE_SCRIPT, reset and the fail-open branch of try_acquire).
THEOREM NoPhantomPlaces == Spec => []NoPhantomPlace
<1>1. PlacesInv => NoPhantomPlace
  BY DEF PlacesInv
<1> QED
  BY <1>1, SpecPlaces, PTL

-----------------------------------------------------------------------------
(* The places, when nothing is allowed without one, nothing was reset and no *)
(* operation outlives the keys                                               *)

\* The keys live on while a client holds a place: they got their time to live
\* when it was taken, and a place is held for less.
KeysOutlive == \A c \in owners : timer[c] <= MaxHold /\ timer[c] + ttl >= Ttl

HoldKept ==
  /\ owners = IF CountsPlaces THEN At(Holding) ELSE {}
  /\ KeysOutlive
  /\ counter = Cardinality(owners) + leaked

HoldInv == WindowInv /\ (Undisturbed => HoldKept)

LEMMA HoldFacts ==
  ASSUME HoldInv, Undisturbed
  PROVE  /\ TypeOK /\ HoldKept /\ owners \in SUBSET Clients
         /\ owners = IF CountsPlaces THEN At(Holding) ELSE {}
         /\ counter \in Nat /\ leaked \in Nat /\ ttl \in 0..Ttl /\ timer \in [Clients -> Nat]
         /\ Cardinality(owners) \in Nat /\ counter = Cardinality(owners) + leaked
  BY Parameters, FiniteOwners DEF HoldInv, HoldKept, WindowInv, TypeOK

\* A client moves outside the places, or inside with the one it holds.
LEMMA StayHold ==
  ASSUME HoldInv, Undisturbed, NEW c \in Clients, NEW place, NEW t,
         pc' = [pc EXCEPT ![c] = place], timer' = [timer EXCEPT ![c] = t],
         CountsPlaces => (place \in Holding <=> pc[c] \in Holding),
         CountsPlaces /\ pc[c] \in Holding => t = timer[c],
         UNCHANGED <<engine, ttl, counter, owners, leaked>>
  PROVE  HoldKept'
<1>1. CountsPlaces => At(Holding)' = At(Holding)
  <2>1. c \in At(Holding) <=> pc[c] \in Holding
    BY DEF At
  <2> QED
    BY <2>1, HoldFacts, MoveChangesHolders
<1>2. \A d \in owners : timer'[d] = timer[d]
  BY HoldFacts DEF At
<1>3. KeysOutlive'
  BY <1>2, HoldFacts DEF HoldKept, KeysOutlive
<1> QED
  BY <1>1, <1>3, HoldFacts DEF HoldKept, CountsPlaces

LEMMA TakeHold ==
  ASSUME HoldInv, Undisturbed, NEW c \in Clients, pc[c] = "sent", CountsPlaces,
         Occupy(c), Move(c, "granted", 0), ttl' = Ttl, UNCHANGED <<engine, leaked>>
  PROVE  HoldKept'
<1>1. c \notin owners
  BY HoldFacts DEF At, Holding
<1>2. Cardinality(owners \cup {c}) = Cardinality(owners) + 1
  BY <1>1, HoldFacts, FiniteOwners
<1>3. /\ owners' = owners \cup {c} /\ counter' = counter + 1
      /\ timer' = [timer EXCEPT ![c] = 0] /\ pc' = [pc EXCEPT ![c] = "granted"]
  BY DEF Occupy, Move
<1>4. At(Holding)' = At(Holding) \cup {c}
  <2>1. "granted" \in Holding
    BY DEF Holding
  <2> QED
    BY <1>3, <2>1, HoldFacts, MoveChangesHolders
<1>5. KeysOutlive'
  <2>1. SUFFICES ASSUME NEW d \in owners' PROVE timer'[d] <= MaxHold /\ timer'[d] + ttl' >= Ttl
    BY DEF KeysOutlive
  <2>2. CASE d = c
    BY <1>3, <2>2, HoldFacts, Parameters
  <2>3. CASE d # c
    <3>1. d \in owners /\ timer'[d] = timer[d] /\ timer[d] \in Nat
      BY <1>3, <2>1, <2>3, HoldFacts
    <3>2. timer[d] <= MaxHold
      BY <3>1, HoldFacts DEF HoldKept, KeysOutlive
    <3> QED
      BY <3>1, <3>2, Parameters
  <2> QED
    BY <2>2, <2>3
<1>6. counter' = Cardinality(owners') + leaked'
  BY <1>2, <1>3, HoldFacts
<1> QED
  BY <1>3, <1>4, <1>5, <1>6, HoldFacts DEF HoldKept, CountsPlaces

LEMMA LeaveHold ==
  ASSUME HoldInv, Undisturbed, NEW c \in Clients, Idle(c), owners' = owners \ {c},
         UNCHANGED <<engine, ttl>>, counter' = Cardinality(owners \ {c}) + leaked'
  PROVE  HoldKept'
<1>1. At(Holding)' = At(Holding) \ {c}
  <2>1. "idle" \notin Holding
    BY DEF Holding
  <2> QED
    BY <2>1, HoldFacts, MoveChangesHolders DEF Idle, Move
<1>2. \A d \in owners' : d \in owners /\ timer'[d] = timer[d]
  BY HoldFacts DEF Idle, Move
<1>3. KeysOutlive'
  BY <1>2, HoldFacts DEF HoldKept, KeysOutlive
<1> QED
  BY <1>1, <1>3, HoldFacts DEF HoldKept, CountsPlaces

\* The place of a client that waits for the keys' last tick has outlived the
\* longest hold.
LEMMA TickHold ==
  ASSUME HoldInv, Undisturbed, MaxHold < Ttl, Tick
  PROVE  HoldKept'
<1>1. At(Holding)' = At(Holding) /\ owners' = owners /\ engine' = engine
  BY DEF Tick, At, config
<1>2. ASSUME NEW c \in owners
      PROVE  /\ timer'[c] = timer[c] + 1 /\ timer[c] \in Nat
             /\ timer'[c] <= MaxHold /\ timer'[c] + ttl' >= Ttl
             /\ ttl > 1
  <2>1. c \in At(Holding) /\ timer[c] \in Nat /\ ttl \in Nat
    BY <1>2, HoldFacts, Parameters
  <2>2. c \in Clients /\ pc[c] \in Holding /\ pc[c] # "sleep"
    BY <2>1 DEF At, Holding
  <2>3. timer[c] < MaxHold /\ timer[c] + ttl >= Ttl
    BY <1>2, <2>1, HoldFacts DEF Tick, HoldKept, KeysOutlive
  <2>4. timer'[c] = timer[c] + 1
    BY <2>2 DEF Tick
  <2>5. ttl > 1
    BY <2>1, <2>3, Parameters
  <2>6. ttl' = ttl - 1
    BY <2>1, <2>5 DEF Tick, Down
  <2> QED
    BY <2>1, <2>3, <2>4, <2>5, <2>6, Parameters
<1>3. KeysOutlive'
  BY <1>1, <1>2, Parameters DEF KeysOutlive
<1>4. counter' = Cardinality(owners') + leaked'
  <2>1. CASE ttl > 1
    BY <1>1, <2>1, HoldFacts DEF Tick, Expire
  <2>2. CASE ~(ttl > 1)
    <3>1. owners' = {} /\ counter' = 0 /\ leaked' = 0
      BY <1>1, <1>2, <2>2 DEF Tick, Expire
    <3>2. Cardinality(owners') = 0
      BY <3>1, FS_EmptySet
    <3> QED
      BY <3>1, <3>2
  <2> QED
    BY <2>1, <2>2
<1> QED
  BY <1>1, <1>3, <1>4, HoldFacts DEF HoldKept, CountsPlaces

LEMMA ClientHold ==
  ASSUME HoldInv, Undisturbed, NEW c \in Clients,
         \/ \E timeout \in 0..Never : Call(c, timeout)
         \/ Step(c) \/ FailOpen(c) \/ GiveUp(c)
  PROVE  HoldKept'
<1>1. timer = [timer EXCEPT ![c] = timer[c]]
  BY HoldFacts
<1>2. /\ CountsPlaces => (pc[c] \in Holding <=> c \in owners)
      /\ c \in owners => /\ Cardinality(owners \ {c}) = Cardinality(owners) - 1
                         /\ Cardinality(owners) > 0
      /\ c \notin owners => owners \ {c} = owners
  BY HoldFacts, FiniteOwners DEF At
<1>3. ASSUME NEW timeout \in 0..Never, Call(c, timeout) PROVE HoldKept'
  BY <1>3, StayHold DEF Call, Move, config, server, history, Holding
<1>4. CASE AcquireScript(c)
  <2>1. engine' = engine /\ pc[c] = "sent" /\ pc[c] \notin Holding
    BY <1>4 DEF AcquireScript, config, Holding
  <2>2. ASSUME NEW wait, Refuse(c, wait) PROVE HoldKept'
    <3>1. "refused" \notin Holding
      BY DEF Holding
    <3> QED
      BY <2>1, <2>2, <3>1, StayHold DEF Refuse, Move, history
  <2>3. CASE Occupy(c) /\ Move(c, "granted", 0) /\ ttl' = Ttl /\ UNCHANGED leaked
    <3>1. CASE CountsPlaces
      BY <2>1, <2>3, <3>1, TakeHold
    <3>2. CASE ~CountsPlaces
      <4>1. owners = {} /\ owners' = {} /\ counter' = counter /\ ~CountsPlaces'
        BY <2>1, <2>3, <3>2, HoldFacts DEF Occupy, CountsPlaces
      <4> QED
        BY <2>3, <4>1, HoldFacts DEF HoldKept, KeysOutlive
    <3> QED
      BY <3>1, <3>2
  <2> QED
    BY <1>4, <2>2, <2>3 DEF AcquireScript
<1>5. CASE Reply(c)
  <2>1. /\ \E place, t :
             /\ pc' = [pc EXCEPT ![c] = place] /\ timer' = [timer EXCEPT ![c] = t]
             /\ CountsPlaces => (place \in Holding <=> pc[c] \in Holding)
             /\ CountsPlaces /\ pc[c] \in Holding => t = timer[c]
        /\ UNCHANGED <<engine, ttl, counter, owners, leaked>>
    BY <1>1, <1>5 DEF Reply, Idle, Move, config, server, history, Holding
  <2> QED
    BY <2>1, StayHold
<1>6. CASE Wake(c) \/ Finish(c)
  BY <1>1, <1>6, StayHold DEF Wake, Finish, Move, config, server, history, Holding
<1>7. CASE FailOpen(c)
  BY <1>7 DEF FailOpen, Undisturbed
<1>8. CASE ReleaseScript(c)
  <2>1. /\ Idle(c) /\ owners' = owners \ {c} /\ counter' = Down(counter)
        /\ leaked' = (IF c \in owners THEN leaked ELSE Down(leaked))
        /\ UNCHANGED <<engine, ttl>>
    BY <1>8 DEF ReleaseScript, config
  <2>2. counter' = Cardinality(owners \ {c}) + leaked'
    <3>1. CASE c \in owners
      BY <1>2, <2>1, <3>1, HoldFacts DEF Down
    <3>2. CASE c \notin owners
      <4>1. ~CountsPlaces /\ Cardinality(owners) = 0
        BY <1>2, <1>8, <3>2, HoldFacts, FS_EmptySet DEF ReleaseScript, Holding
      <4> QED
        BY <1>2, <2>1, <3>2, <4>1, HoldFacts DEF Down
    <3> QED
      BY <3>1, <3>2
  <2> QED
    BY <2>1, <2>2, LeaveHold
<1>9. CASE GiveUp(c)
  <2>1. /\ Idle(c) /\ owners' = owners \ {c} /\ counter' = counter
        /\ leaked' = (IF c \in owners /\ leaked < counter THEN leaked + 1 ELSE leaked)
        /\ UNCHANGED <<engine, ttl>>
    BY <1>9 DEF GiveUp, config, server
  <2>2. counter' = Cardinality(owners \ {c}) + leaked'
    BY <1>2, <2>1, HoldFacts
  <2> QED
    BY <2>1, <2>2, LeaveHold
<1> QED
  BY <1>3, <1>4, <1>5, <1>6, <1>7, <1>8, <1>9 DEF Step

LEMMA NextHold ==
  ASSUME HoldInv, MaxHold < Ttl, [Next]_vars
  PROVE  HoldInv'
<1>1. WindowInv'
  BY NextWindow DEF HoldInv
<1>2. SUFFICES ASSUME Undisturbed' PROVE HoldKept'
  BY <1>1 DEF HoldInv
<1>3. CASE UNCHANGED vars
  <2>1. /\ At(Holding)' = At(Holding) /\ Undisturbed
        /\ UNCHANGED <<engine, ttl, timer, counter, owners, leaked>>
    BY <1>2, <1>3 DEF vars, config, server, local, history, At, Undisturbed
  <2> QED
    BY <2>1, HoldFacts DEF HoldKept, KeysOutlive, CountsPlaces
<1>4. CASE Tick
  BY <1>2, <1>4, TickHold DEF Tick, Undisturbed, config
<1>5. CASE Reset
  BY <1>2, <1>5 DEF Reset, Undisturbed
<1>6. ASSUME NEW stamp \in 0..MaxDelay, CleanState(stamp) PROVE HoldKept'
  <2>1. /\ At(Holding)' = At(Holding) /\ Undisturbed
        /\ UNCHANGED <<engine, ttl, timer, counter, owners, leaked>>
    BY <1>2, <1>6 DEF CleanState, config, local, history, At, Undisturbed
  <2> QED
    BY <2>1, HoldFacts DEF HoldKept, KeysOutlive, CountsPlaces
<1>7. ASSUME NEW c \in Clients,
             \/ \E timeout \in 0..Never : Call(c, timeout)
             \/ Step(c) \/ FailOpen(c) \/ GiveUp(c)
      PROVE  HoldKept'
  <2>1. UNCHANGED <<failClosed, wasReset>>
    BY <1>7 DEF Step, Call, AcquireScript, Reply, Wake, Finish, ReleaseScript, FailOpen, GiveUp,
                config
  <2> QED
    BY <1>2, <1>7, <2>1, ClientHold DEF Undisturbed
<1> QED
  BY <1>3, <1>4, <1>5, <1>6, <1>7 DEF Next

LEMMA SpecHold ==
  ASSUME MaxHold < Ttl
  PROVE  Spec => []HoldInv
<1>1. Init => HoldInv
  <2> SUFFICES ASSUME Init PROVE HoldInv
    OBVIOUS
  <2>1. At(Holding) = {} /\ owners = {} /\ counter = 0 /\ leaked = 0 /\ Cardinality({}) = 0
    BY FS_EmptySet DEF Init, At, Holding
  <2> QED
    BY <2>1, InitWindow DEF HoldInv, HoldKept, KeysOutlive
<1>2. HoldInv /\ [Next]_vars => HoldInv'
  BY NextHold
<1> QED
  BY <1>1, <1>2, PTL DEF Spec

\* The counter counts every place held and every place lost and not yet expired,
\* as long as no operation outlives the keys, nothing is allowed without a place
\* and nothing is reset (redis.py, ACQUIRE_SLIDING_WINDOW_SCRIPT and
\* RELEASE_SCRIPT).
THEOREM CounterIsExact ==
  ASSUME MaxHold < Ttl
  PROVE  Spec => []CounterExact
<1>1. HoldInv => CounterExact
  BY DEF HoldInv, HoldKept, Undisturbed, CounterExact
<1> QED
  BY <1>1, SpecHold, PTL

\* Then a sliding window of the Redis engine, too, has at most max_concurrent
\* operations in flight, wherever their clients run and however many crash
\* (core.py:87).
THEOREM OperationsBounded ==
  ASSUME MaxHold < Ttl
  PROVE  Spec => [](CountsPlaces /\ failClosed /\ ~wasReset =>
                      Cardinality(At({"operation"})) <= MaxConcurrent)
<1>1. ASSUME HoldInv, CountsPlaces, Undisturbed
      PROVE  Cardinality(At({"operation"})) <= MaxConcurrent
  <2>1. At({"operation"}) \subseteq owners
    BY <1>1, HoldFacts DEF At, Holding
  <2>2. Cardinality(At({"operation"})) <= Cardinality(owners) /\ Cardinality(At({"operation"})) \in Nat
    BY <1>1, <2>1, HoldFacts, FiniteOwners, FS_Subset
  <2>3. counter <= MaxConcurrent
    BY <1>1, HoldFacts, Parameters DEF TypeOK
  <2> QED
    BY <1>1, <2>2, <2>3, HoldFacts, Parameters
<1>2. HoldInv => (CountsPlaces /\ failClosed /\ ~wasReset =>
                    Cardinality(At({"operation"})) <= MaxConcurrent)
  BY <1>1 DEF Undisturbed
<1> QED
  BY <1>2, SpecHold, PTL
-----------------------------------------------------------------------------
(* What the engine promises *)

\* The grants of the last Span ticks carry times of the window that ends now.
ServedKept ==
  /\ served \in Seq(0..Span-1) /\ Sorted(served)
  /\ CountsPlaces => Follows(served, granted, Span, MaxDelay)

ServedInv == WindowInv /\ ServedKept

LEMMA SpanFacts ==
  /\ Span \in Nat /\ MaxDelay \in Nat
  /\ Span # 0 => 0..Span+MaxDelay-1 = Recent
  /\ Span # 0 => 0..MaxDelay \subseteq Recent
  /\ Span = 0 => \A f : Follows(served, f, Span, MaxDelay)
<1>1. Span \in Nat /\ (Span # 0 => MaxDelay < Window /\ Span = Window - MaxDelay)
  BY Parameters DEF Span
<1>2. Span # 0 => 0..Span+MaxDelay-1 = Recent /\ 0..MaxDelay \subseteq Recent
  BY <1>1, Parameters DEF Recent
<1>3. Span = 0 => 0..Span-1 = {}
  OBVIOUS
<1> QED
  BY <1>1, <1>2, <1>3, Parameters DEF Follows

LEMMA SpanConstant ==
  UNCHANGED <<Span, MaxDelay>>
  BY DEF Span

\* What the script has seen when it grants: the window has room for one more of
\* that time, and there is a free place.
LEMMA GrantSeen ==
  ASSUME WindowInv, NEW c \in Clients, AcquireScript(c), Grants(c)
  PROVE  /\ Total(granted, Recent) < Limit
         /\ counter < MaxConcurrent
         /\ timer[c] \in 0..MaxDelay
         /\ timer[c] \in Recent => granted'[timer[c]] = granted[timer[c]] + 1
         /\ \A a \in Recent \ {timer[c]} : granted'[a] = granted[a]
         /\ pc' = [pc EXCEPT ![c] = "granted"]
<1> DEFINE f == Prune(window, timer[c])
<1>1. /\ pc[c] = "sent" /\ CountsPlaces /\ pc'[c] = "granted"
      /\ window \in [Kept -> Nat] /\ granted \in [Recent -> Nat]
      /\ counter \in 0..MaxConcurrent /\ pc \in [Clients -> Places]
      /\ \A a \in Recent : granted[a] <= window[a]
  BY DEF Grants, WindowInv, TypeOK, WindowKept, Kept
<1>2. timer[c] \in Nat /\ timer[c] <= MaxDelay
  BY <1>1 DEF WindowInv, TypeOK, SentRecently, At
<1>3. ~(\E wait : Refuse(c, wait))
  BY <1>1 DEF Refuse, Move
<1>4. /\ ~(Total(f, Kept) >= Limit) /\ ~(counter >= MaxConcurrent)
      /\ Move(c, "granted", 0) /\ granted' = Record(timer[c])
  BY <1>1, <1>3 DEF AcquireScript, Kept
<1>5. f \in [Kept -> Nat] /\ \A a \in Recent : f[a] = window[a]
  BY <1>1, <1>2, PruneKeeps
<1> HIDE DEF f
<1>6. Total(f, Kept) \in Nat /\ Total(granted, Recent) \in Nat
  BY <1>1, <1>5, Parameters, TotalType
<1>7. Total(granted, Recent) <= Total(f, Kept)
  BY <1>1, <1>5, Parameters, TotalMonotone
<1>8. Total(granted, Recent) < Limit
  BY <1>4, <1>6, <1>7, Parameters
<1>9. ASSUME timer[c] \in Recent PROVE granted'[timer[c]] = granted[timer[c]] + 1
  <2> DEFINE a == timer[c]
  <2>1. granted[a] \in Nat /\ granted[a] <= Total(granted, Recent)
    BY <1>1, <1>9, Parameters, OneOfTotal
  <2>2. AtMost(granted[a], Limit) = granted[a]
    BY <1>6, <1>8, <2>1, Parameters DEF AtMost
  <2> QED
    BY <1>4, <1>9, <2>2 DEF Record
<1>10. \A a \in Recent \ {timer[c]} : granted'[a] = granted[a]
  BY <1>4 DEF Record
<1> QED
  BY <1>1, <1>2, <1>4, <1>8, <1>9, <1>10, Parameters DEF Move

LEMMA GrantServed ==
  ASSUME ServedInv, NEW c \in Clients, AcquireScript(c), Grants(c), served' = Grant(served, Span)
  PROVE  ServedKept' /\ (Span > 0 => Len(served) < Limit)
<1>1. /\ served \in Seq(0..Span-1) /\ Sorted(served) /\ WindowInv /\ granted \in [Recent -> Nat]
      /\ CountsPlaces /\ CountsPlaces'
      /\ Follows(served, granted, Span, MaxDelay)
  BY DEF ServedInv, ServedKept, Grants, WindowInv, TypeOK, AcquireScript, config, CountsPlaces
<1>2. /\ Total(granted, Recent) < Limit /\ timer[c] \in 0..MaxDelay
      /\ timer[c] \in Recent => granted'[timer[c]] = granted[timer[c]] + 1
      /\ \A a \in Recent \ {timer[c]} : granted'[a] = granted[a]
  BY <1>1, GrantSeen
<1>3. served' \in Seq(0..Span-1) /\ Sorted(served')
  BY <1>1, SpanFacts, GrantTyped
<1>4. Follows(served', granted', Span, MaxDelay)
  <2>1. CASE Span = 0
    BY <1>1, <2>1, SpanFacts DEF Grant
  <2>2. CASE Span # 0
    <3>1. PICK g : g = granted'
      OBVIOUS
    <3>2. /\ \A a \in 0..Span+MaxDelay-1 : granted[a] \in Nat
          /\ g[timer[c]] = granted[timer[c]] + 1
          /\ \A a \in (0..Span+MaxDelay-1) \ {timer[c]} : g[a] = granted[a]
      BY <1>1, <1>2, <2>2, <3>1, SpanFacts
    <3>3. Follows(Grant(served, Span), g, Span, MaxDelay)
      BY <1>1, <1>2, <3>2, SpanFacts, FollowsGrant
    <3> QED
      BY <3>1, <3>3
  <2> QED
    BY <2>1, <2>2
<1>5. ASSUME Span > 0 PROVE Len(served) < Limit
  <2>1. Span \in Nat \ {0} /\ 0..Span+MaxDelay-1 = Recent
    BY <1>5, SpanFacts
  <2>2. Len(served) <= Total(granted, Recent)
    BY <1>1, <2>1, SpanFacts, FollowsLen
  <2>3. Len(served) \in Nat /\ Total(granted, Recent) \in Nat
    BY <1>1, Parameters, TotalType
  <2> QED
    BY <1>2, <2>2, <2>3, Parameters
<1> QED
  BY <1>1, <1>3, <1>4, <1>5, SpanConstant DEF ServedKept

LEMMA TickServed ==
  ASSUME ServedInv, Tick, served' = Fresh(Older(served), Span)
  PROVE  ServedKept'
<1>1. /\ served \in Seq(0..Span-1) /\ Sorted(served) /\ granted \in [Recent -> Nat]
      /\ CountsPlaces' <=> CountsPlaces
      /\ CountsPlaces => Follows(served, granted, Span, MaxDelay)
      /\ granted' = [a \in Recent |-> IF a = 0 THEN 0 ELSE granted[a - 1]]
  BY DEF ServedInv, ServedKept, WindowInv, TypeOK, Tick, config, CountsPlaces, Aged
<1>2. served' \in Seq(0..Span-1) /\ Sorted(served')
  BY <1>1, SpanFacts, OlderTyped
<1>3. ASSUME CountsPlaces PROVE Follows(served', granted', Span, MaxDelay)
  <2>1. CASE Span = 0
    <3>1. 0..Span-1 = {}
      BY <2>1
    <3> QED
      BY <3>1 DEF Follows
  <2>2. CASE Span # 0
    <3>1. PICK g : g = granted'
      OBVIOUS
    <3>2. /\ \A a \in 0..Span+MaxDelay-1 : granted[a] \in Nat
          /\ \A a \in 0..Span+MaxDelay-1 : g[a] \in Nat /\ (a # 0 => g[a] = granted[a - 1])
      <4>1. ASSUME NEW a \in Recent
            PROVE  /\ granted[a] \in Nat
                   /\ g[a] \in Nat /\ (a # 0 => g[a] = granted[a - 1])
        <5>1. a \in Nat /\ a < Window /\ (a # 0 => a - 1 \in Recent)
          BY Parameters
        <5> QED
          BY <1>1, <3>1, <5>1
      <4> QED
        BY <2>2, <4>1, SpanFacts
    <3>3. PICK r : r = served'
      OBVIOUS
    <3>4. Follows(r, g, Span, MaxDelay)
      BY <1>1, <1>3, <3>2, <3>3, SpanFacts, FollowsOlder
    <3> QED
      BY <3>1, <3>3, <3>4
  <2> QED
    BY <2>1, <2>2
<1> QED
  BY <1>1, <1>2, <1>3, SpanConstant DEF ServedKept

LEMMA NothingServed ==
  ASSUME NEW f \in [Recent -> Nat]
  PROVE  /\ <<>> \in Seq(0..Span-1) /\ Sorted(<<>>)
         /\ Follows(<<>>, f, Span, MaxDelay)
<1>1. CASE Span = 0
  <2>1. 0..Span-1 = {}
    BY <1>1
  <2> QED
    BY <2>1 DEF Follows, Sorted
<1>2. CASE Span # 0
  <2>1. ASSUME NEW k \in 0..Span-1 PROVE Cardinality(Since(<<>>, k)) <= Total(f, 0..k+MaxDelay)
    <3>1. Since(<<>>, k) = {}
      BY DEF Since
    <3>2. k + MaxDelay \in Nat /\ 0..k+MaxDelay \subseteq 0..Span+MaxDelay-1
      BY SpanFacts
    <3>3. IsFiniteSet(0..k+MaxDelay) /\ \A a \in 0..k+MaxDelay : f[a] \in Nat
      BY <1>2, <3>2, FirstAges, SpanFacts
    <3>4. Total(f, 0..k+MaxDelay) \in Nat
      BY <3>3, TotalType
    <3> QED
      BY <3>1, <3>4, FS_EmptySet
  <2> QED
    BY <2>1 DEF Follows, Sorted
<1> QED
  BY <1>1, <1>2

\* Everything that is neither a grant nor a tick leaves the grants alone.
LEMMA OtherServed ==
  ASSUME ServedInv, UNCHANGED <<engine, served>>, CountsPlaces => granted' = granted
  PROVE  ServedKept'
  BY SpanConstant DEF ServedInv, ServedKept, CountsPlaces

\* A client takes a step.
ClientActs(c) ==
  \/ \E timeout \in 0..Never : Call(c, timeout)
  \/ Step(c) \/ FailOpen(c) \/ GiveUp(c)

\* A client does something, and if the script grants, that is served.
ClientServes(c) ==
  /\ ClientActs(c)
  /\ \/ AcquireScript(c) /\ Grants(c) /\ served' = Grant(served, Span)
     \/ ~(AcquireScript(c) /\ Grants(c)) /\ UNCHANGED served

LEMMA OnlyScriptGrants ==
  ASSUME WindowInv, NEW c \in Clients, Grants(c), Step(c)
  PROVE  AcquireScript(c)
<1>1. pc[c] = "sent"
  BY DEF Grants
<1> QED
  BY <1>1 DEF Step, Reply, Wake, Finish, ReleaseScript

LEMMA ServedSteps ==
  ASSUME WindowInv, ServedNext
  PROVE  \/ Tick /\ served' = Fresh(Older(served), Span)
         \/ Reset /\ served' = <<>>
         \/ \E stamp \in 0..MaxDelay : CleanState(stamp) /\ UNCHANGED served
         \/ \E c \in Clients : ClientServes(c)
<1>1. ASSUME NEW c \in Clients, Step(c),
             served' = IF Grants(c) THEN Grant(served, Span) ELSE served
      PROVE  ClientServes(c)
  BY <1>1, OnlyScriptGrants DEF ClientServes, ClientActs
<1>2. ASSUME NEW c \in Clients, UNCHANGED served,
             (\E timeout \in 0..Never : Call(c, timeout)) \/ FailOpen(c) \/ GiveUp(c)
      PROVE  ClientServes(c)
  <2>1. ~(AcquireScript(c) /\ Grants(c))
    <3>1. ASSUME AcquireScript(c), Grants(c) PROVE FALSE
      <4>1. pc[c] = "sent" /\ pc'[c] = "granted" /\ pc \in [Clients -> Places]
        BY <3>1 DEF Grants, WindowInv, TypeOK
      <4> QED
        BY <1>2, <4>1 DEF Call, FailOpen, GiveUp, Idle, Move
    <3> QED
      BY <3>1
  <2> QED
    BY <1>2, <2>1 DEF ClientServes, ClientActs
<1> QED
  BY <1>1, <1>2 DEF ServedNext, ServedTick, ServedStep

LEMMA ServedStepsAreSteps ==
  ASSUME [ServedNext]_<<vars, served>>
  PROVE  [Next]_vars
  BY DEF ServedNext, ServedTick, ServedStep, Next

LEMMA ClientServed ==
  ASSUME ServedInv, NEW c \in Clients, ClientServes(c)
  PROVE  ServedKept'
<1>1. CASE AcquireScript(c) /\ Grants(c) /\ served' = Grant(served, Span)
  BY <1>1, GrantServed
<1>2. CASE ~(AcquireScript(c) /\ Grants(c)) /\ UNCHANGED served
  <2>1. engine' = engine
    BY DEF ClientServes, ClientActs, Step, Call, AcquireScript, Reply, Wake, Finish,
           ReleaseScript, FailOpen, GiveUp, config
  <2>2. ASSUME CountsPlaces PROVE granted' = granted
    <3>1. CASE AcquireScript(c)
      <4>1. pc[c] = "sent" /\ pc'[c] # "granted"
        BY <1>2, <2>2, <3>1 DEF Grants, AcquireScript
      <4>2. pc \in [Clients -> Places]
        BY DEF ServedInv, WindowInv, TypeOK
      <4>3. ~Move(c, "granted", 0)
        BY <4>1, <4>2 DEF Move
      <4> QED
        BY <3>1, <4>3 DEF AcquireScript, Refuse, history
    <3>2. CASE ~AcquireScript(c)
      BY <3>2 DEF ClientServes, ClientActs, Step, Call, Reply, Wake, Finish, ReleaseScript,
                  FailOpen, GiveUp, history
    <3> QED
      BY <3>1, <3>2
  <2> QED
    BY <1>2, <2>1, <2>2, OtherServed
<1> QED
  BY <1>1, <1>2 DEF ClientServes

LEMMA NextServed ==
  ASSUME ServedInv, [ServedNext]_<<vars, served>>
  PROVE  ServedInv'
<1>1. WindowInv'
  BY ServedStepsAreSteps, NextWindow DEF ServedInv
<1>2. CASE UNCHANGED <<vars, served>>
  <2>1. UNCHANGED <<engine, served, granted>>
    BY <1>2 DEF vars, config, history
  <2> QED
    BY <1>1, <2>1, OtherServed DEF ServedInv
<1>3. CASE Reset /\ served' = <<>>
  <2>1. granted' \in [Recent -> Nat]
    BY <1>1, Constants DEF WindowInv, TypeOK
  <2> QED
    BY <1>1, <1>3, <2>1, NothingServed, SpanConstant DEF ServedInv, ServedKept
<1>4. ASSUME NEW stamp \in 0..MaxDelay, CleanState(stamp), UNCHANGED served PROVE ServedKept'
  BY <1>4, OtherServed DEF CleanState, config, history
<1>5. CASE ServedNext
  <2>1. WindowInv
    BY DEF ServedInv
  <2> QED
    BY <1>1, <1>3, <1>4, <1>5, <2>1, ServedSteps, TickServed, ClientServed DEF ServedInv
<1> QED
  BY <1>2, <1>5

LEMMA SpecServed == ServedSpec => []ServedInv
<1>1. ServedInit => ServedInv
  <2> SUFFICES ASSUME ServedInit PROVE ServedInv
    OBVIOUS
  <2>1. WindowInv /\ served = <<>>
    BY InitWindow DEF ServedInit
  <2>2. granted \in [Recent -> Nat]
    BY <2>1 DEF WindowInv, TypeOK
  <2> QED
    BY <2>1, <2>2, NothingServed DEF ServedInv, ServedKept
<1> QED
  BY <1>1, NextServed, PTL DEF ServedSpec

LEMMA ServedSpecIsSpec == ServedSpec => Spec
<1>1. ServedInit => Init
  BY DEF ServedInit
<1> QED
  BY <1>1, ServedStepsAreSteps, PTL DEF ServedSpec, Spec

\* The caller of LimiterPromise sees nothing of a step.
Unseen == UNCHANGED <<served, At(Holding)>>

\* LimiterPromise reads the operators it is built from in the same way.
LEMMA SharedOperators ==
  /\ \A S : Promise!Cardinality(S) = Cardinality(S)
  /\ \A ages, span : Promise!Grant(ages, span) = Grant(ages, span)
  /\ \A ages, span : Promise!Fresh(ages, span) = Fresh(ages, span)
  /\ \A ages : Promise!Older(ages) = Older(ages)
<1>1. \A S : Promise!Cardinality(S) = Cardinality(S)
  BY DEF Promise!Cardinality, Cardinality
<1>2. \A ages, span : Promise!Grant(ages, span) = Grant(ages, span)
  BY DEF Promise!Grant, Grant
<1>3. \A ages, span : Promise!Fresh(ages, span) = Fresh(ages, span)
  BY <1>1 DEF Promise!Fresh, Fresh
<1>4. \A ages : Promise!Older(ages) = Older(ages)
  BY DEF Promise!Older, Older
<1> QED
  BY <1>1, <1>2, <1>3, <1>4

LEMMA GrantPromised ==
  ASSUME ServedInv, HoldInv, Undisturbed, NEW c \in Clients,
         AcquireScript(c), Grants(c), served' = Grant(served, Span)
  PROVE  Promise!Next
<1>1. WindowInv /\ CountsPlaces /\ pc[c] = "sent"
  BY DEF ServedInv, Grants
<1>2. counter < MaxConcurrent /\ pc' = [pc EXCEPT ![c] = "granted"]
  BY <1>1, GrantSeen
<1>3. Span > 0 => Len(served) < Limit
  BY GrantServed
<1>4. c \notin At(Holding)
  BY <1>1 DEF At, Holding
<1>5. At(Holding)' = At(Holding) \cup {c}
  <2>1. "granted" \in Holding
    BY DEF Holding
  <2> QED
    BY <1>2, <2>1, HoldFacts, MoveChangesHolders
<1>6. Cardinality(At(Holding)) < MaxConcurrent
  BY <1>1, <1>2, HoldFacts, Parameters
<1>7. Promise!PayAndStart(c)
  BY <1>3, <1>4, <1>5, <1>6, SharedOperators DEF Promise!PayAndStart, Promise!GrantRate
<1> QED
  BY <1>7 DEF Promise!Next

LEMMA ClientPromised ==
  ASSUME ServedInv, HoldInv, Undisturbed, CountsPlaces, NEW c \in Clients, ClientServes(c)
  PROVE  Promise!Next \/ Unseen
<1>1. CASE AcquireScript(c) /\ Grants(c) /\ served' = Grant(served, Span)
  BY <1>1, GrantPromised
<1>2. CASE ~(AcquireScript(c) /\ Grants(c)) /\ UNCHANGED served
  <2>1. TypeOK /\ pc \in [Clients -> Places]
    BY DEF ServedInv, WindowInv, TypeOK
  <2>2. CASE Idle(c)
    <3>1. At(Holding)' = At(Holding) \ {c}
      <4>1. "idle" \notin Holding
        BY DEF Holding
      <4> QED
        BY <2>1, <2>2, <4>1, MoveChangesHolders DEF Idle, Move
    <3>2. CASE c \in At(Holding)
      <4>1. Promise!Finish(c)
        BY <1>2, <3>1, <3>2 DEF Promise!Finish
      <4> QED
        BY <4>1 DEF Promise!Next
    <3>3. CASE c \notin At(Holding)
      BY <1>2, <3>1, <3>3 DEF Unseen
    <3> QED
      BY <3>2, <3>3
  <2>3. ASSUME NEW place, pc' = [pc EXCEPT ![c] = place], place \in Holding <=> pc[c] \in Holding
        PROVE  Unseen
    <3>1. c \in At(Holding) <=> pc[c] \in Holding
      BY DEF At
    <3> QED
      BY <1>2, <2>1, <2>3, <3>1, MoveChangesHolders DEF Unseen
  <2>4. CASE AcquireScript(c)
    <3>1. pc[c] = "sent" /\ pc'[c] # "granted"
      BY <1>2, <2>4 DEF Grants, AcquireScript
    <3>2. ~Move(c, "granted", 0)
      BY <2>1, <3>1 DEF Move
    <3>3. PICK wait : Refuse(c, wait)
      BY <2>4, <3>2 DEF AcquireScript
    <3> QED
      BY <2>3, <3>1, <3>3 DEF Refuse, Move, Holding
  <2>5. CASE Reply(c)
    BY <2>2, <2>3, <2>5 DEF Reply, Move, Holding
  <2>6. CASE (\E timeout \in 0..Never : Call(c, timeout)) \/ Wake(c) \/ Finish(c)
    BY <2>3, <2>6 DEF Call, Wake, Finish, Move, Holding
  <2>7. CASE ReleaseScript(c) \/ GiveUp(c)
    BY <2>2, <2>7 DEF ReleaseScript, GiveUp
  <2>8. ~FailOpen(c)
    BY DEF FailOpen, Undisturbed
  <2> QED
    BY <2>4, <2>5, <2>6, <2>7, <2>8 DEF ClientServes, ClientActs, Step
<1> QED
  BY <1>1, <1>2 DEF ClientServes

\* The sliding window of the Redis engine does what a limiter promises its callers
\* (core.py, RateLimiter; redis.py, ACQUIRE_SLIDING_WINDOW_SCRIPT), counted when
\* the script grants, for a period shorter than the window by the longest delay of
\* a request: until somebody resets it, when no operation outlives the keys and
\* failures are not turned into grants.
THEOREM EngineKeepsPromise ==
  ASSUME MaxHold < Ttl
  PROVE  ServedSpec => KeepsPromise
<1>1. ServedInit => Promise!Init
  BY DEF ServedInit, Init, Promise!Init, At, Holding
<1>2. ASSUME ServedInv, HoldInv, [ServedNext]_<<vars, served>>, CountsPlaces, Undisturbed'
      PROVE  Promise!Next \/ Unseen
  <2>1. CASE UNCHANGED <<vars, served>>
    BY <2>1 DEF Unseen, vars, local, At
  <2>2. CASE Tick /\ served' = Fresh(Older(served), Span)
    <3>1. At(Holding)' = At(Holding)
      BY <2>2 DEF Tick, At
    <3>2. Promise!Tick
      BY <2>2, <3>1, SharedOperators DEF Promise!Tick
    <3> QED
      BY <3>2 DEF Promise!Next
  <2>3. CASE Reset /\ served' = <<>>
    BY <1>2, <2>3 DEF Reset, Undisturbed
  <2>4. ASSUME NEW stamp \in 0..MaxDelay, CleanState(stamp), UNCHANGED served PROVE Unseen
    BY <2>4 DEF CleanState, local, Unseen, At
  <2>5. ASSUME NEW c \in Clients, ClientServes(c) PROVE Promise!Next \/ Unseen
    <3>1. UNCHANGED <<failClosed, wasReset>>
      BY <2>5 DEF ClientServes, ClientActs, Step, Call, AcquireScript, Reply, Wake, Finish,
                  ReleaseScript, FailOpen, GiveUp, config
    <3> QED
      BY <1>2, <2>5, <3>1, ClientPromised DEF Undisturbed
  <2>6. WindowInv
    BY <1>2 DEF ServedInv
  <2> QED
    BY <1>2, <2>1, <2>2, <2>3, <2>4, <2>5, <2>6, ServedSteps
<1>3. Unseen => UNCHANGED Promise!vars
  BY DEF Unseen, Promise!vars
<1>4. /\ ServedInv /\ HoldInv /\ [ServedNext]_<<vars, served>>
      => [CountsPlaces /\ Undisturbed' => Promise!Next]_(Promise!vars)
  BY <1>2, <1>3
<1> QED
  BY <1>1, <1>4, SpecServed, ServedSpecIsSpec, SpecHold, PTL DEF ServedSpec, KeepsPromise

-----------------------------------------------------------------------------
(* What get_state answers *)

\* The window has room for a grant of this moment.
Room == Total(Prune(window, 0), Kept) < Limit

\* No member is younger than a time read then.
NoneSince(age) == \A a \in Kept : a < age => window[a] = 0

ViewInv ==
  /\ WindowInv
  /\ view \in {"away", "asked", "cleaned", "counted", "allowed"}
  /\ clock \in 0..MaxDelay
  /\ wasFree \in BOOLEAN /\ failed \in BOOLEAN
  /\ view \in {"asked", "cleaned", "counted"} => (Free => wasFree)
  /\ view \in {"cleaned", "counted"} => CountsPlaces
  /\ view = "counted" => (wasFree \/ (Room /\ counter >= MaxConcurrent))
  /\ view = "asked" /\ ~CountsPlaces => (wasFree \/ NoneSince(clock))
  /\ AllowedWasFree

LEMMA FreeIs ==
  /\ Free \in BOOLEAN
  /\ Free <=> Room /\ (CountsPlaces => counter < MaxConcurrent)
  BY DEF Free, Room, Kept

LEMMA TotalPruned ==
  ASSUME NEW f \in [Kept -> Nat], NEW age \in Nat
  PROVE  Prune(f, age) \in [Kept -> Nat] /\ Total(Prune(f, age), Kept) \in Nat
<1>1. PICK g : g = Prune(f, age)
  OBVIOUS
<1>2. g \in [Kept -> Nat]
  BY <1>1, PruneKeeps
<1>3. Total(g, Kept) \in Nat
  BY <1>2, Parameters, TotalType
<1> QED
  BY <1>1, <1>2, <1>3

\* What an earlier or an emptier window would find.
LEMMA PrunedLess ==
  ASSUME NEW f \in [Kept -> Nat], NEW h \in [Kept -> Nat], NEW age \in Nat,
         \A a \in Recent : f[a] <= h[a]
  PROVE  Total(Prune(f, 0), Kept) <= Total(Prune(h, age), Kept)
<1>1. PICK g : g = Prune(f, 0)
  OBVIOUS
<1>2. PICK r : r = Prune(h, age)
  OBVIOUS
<1>3. /\ g \in [Kept -> Nat] /\ \A a \in Kept : g[a] > 0 => a < Window + 0
      /\ \A a \in Recent : g[a] = f[a]
  BY <1>1, PruneKeeps
<1>4. r \in [Kept -> Nat] /\ \A a \in Recent : r[a] = h[a]
  BY <1>2, PruneKeeps
<1>5. ASSUME NEW a \in Kept PROVE g[a] <= r[a]
  <2>1. g[a] \in Nat /\ r[a] \in Nat /\ a \in Nat
    BY <1>3, <1>4, Parameters
  <2>2. CASE a \in Recent
    BY <1>3, <1>4, <2>2
  <2>3. CASE a \notin Recent
    <3>1. ~(g[a] > 0)
      BY <1>3, <2>1, <2>3, Parameters
    <3> QED
      BY <2>1, <3>1
  <2> QED
    BY <2>2, <2>3
<1>6. Total(g, Kept) <= Total(r, Kept)
  BY <1>3, <1>4, <1>5, Parameters, TotalMonotone
<1> QED
  BY <1>1, <1>2, <1>6

LEMMA AgedLess ==
  ASSUME NEW f \in [Kept -> Nat]
  PROVE  /\ Aged(f) \in [Kept -> Nat]
         /\ Total(Prune(Aged(f), 0), Kept) <= Total(Prune(f, 0), Kept)
<1>1. PICK g : g = Prune(f, 0)
  OBVIOUS
<1>2. PICK h : h = Aged(f)
  OBVIOUS
<1>3. /\ h \in [Kept -> Nat]
      /\ \A a \in Kept : a = 0 => h[a] = 0
      /\ \A a \in Kept : a # 0 => a - 1 \in Kept /\ h[a] = f[a - 1]
  <2>1. h = [a \in Kept |-> IF a = 0 THEN 0 ELSE f[a - 1]]
    BY <1>2 DEF Aged
  <2>2. \A a \in Kept : a # 0 => a - 1 \in Kept
    BY Parameters
  <2> QED
    BY <2>1, <2>2
<1>4. PICK r : r = Prune(h, 0)
  OBVIOUS
<1>5. g \in [Kept -> Nat] /\ \A a \in Recent : g[a] = f[a]
  BY <1>1, PruneKeeps
<1>6. /\ r \in [Kept -> Nat] /\ \A a \in Recent : r[a] = h[a]
      /\ \A a \in Kept : r[a] > 0 => a < Window + 0
  BY <1>3, <1>4, PruneKeeps
<1>7. Total(r, Kept) <= Total(r, Recent)
  <2>1. \A a \in Kept : r[a] \in Nat /\ (r[a] > 0 => a \in Recent /\ r[a] <= r[a])
    BY <1>6, Parameters
  <2>2. \A a \in Recent : r[a] \in Nat
    BY <1>6, Parameters
  <2> QED
    BY <2>1, <2>2, Parameters, TotalWithin
<1>8. Total(r, Recent) <= Total(g, Kept)
  <2>1. ASSUME NEW a \in Recent
        PROVE  /\ a \in Nat /\ (a = 0 => r[a] = 0)
               /\ a # 0 => a - 1 \in Kept /\ r[a] = g[a - 1]
    <3>1. a \in Kept /\ a \in Nat /\ (a # 0 => a - 1 \in Recent)
      BY Parameters
    <3> QED
      BY <1>3, <1>5, <1>6, <3>1
  <2>2. \A a \in Kept : g[a] \in Nat
    BY <1>5
  <2> QED
    BY <2>1, <2>2, Parameters, TotalShift
<1>9. Total(r, Kept) \in Nat /\ Total(r, Recent) \in Nat /\ Total(g, Kept) \in Nat
  <2>1. \A a \in Recent : r[a] \in Nat
    BY <1>6, Parameters
  <2> QED
    BY <1>5, <1>6, <2>1, Parameters, TotalType
<1> QED
  BY <1>1, <1>2, <1>3, <1>4, <1>7, <1>8, <1>9

\* The window after a step.
LEMMA WindowSteps ==
  ASSUME WindowInv, ServedNext
  PROVE  /\ UNCHANGED config
         /\ ServedTick => window' \in {Aged(window), Nothing}
         /\ ServedStep => \/ window' \in {window, Nothing}
                          \/ \E age \in Nat : window' = Prune(window, age)
                          \/ \E c \in Clients :
                               /\ timer[c] \in Nat
                               /\ Total(Prune(window, timer[c]), Kept) < Limit
                               /\ CountsPlaces => counter < MaxConcurrent
<1>1. counter \in Nat /\ timer \in [Clients -> Nat] /\ window \in [Kept -> Nat]
  BY Parameters DEF WindowInv, TypeOK, Kept
<1>2. ASSUME NEW c \in Clients, AcquireScript(c)
      PROVE  \/ \E age \in Nat : window' = Prune(window, age)
             \/ /\ timer[c] \in Nat
                /\ Total(Prune(window, timer[c]), Kept) < Limit
                /\ CountsPlaces => counter < MaxConcurrent
  <2>1. timer[c] \in Nat /\ Total(Prune(window, timer[c]), Kept) \in Nat
    BY <1>1, TotalPruned
  <2>2. \/ window' = Prune(window, timer[c])
        \/ /\ ~(Total(Prune(window, timer[c]), Kept) >= Limit)
           /\ ~(CountsPlaces /\ counter >= MaxConcurrent)
    BY <1>2 DEF AcquireScript, Kept
  <2> QED
    BY <1>1, <2>1, <2>2, Parameters
<1>3. ASSUME NEW c \in Clients, Reply(c) \/ Wake(c) \/ Finish(c) \/ ReleaseScript(c)
                                \/ FailOpen(c) \/ GiveUp(c)
                                \/ \E timeout \in 0..Never : Call(c, timeout)
      PROVE  window' = window
  BY <1>3 DEF Reply, Wake, Finish, ReleaseScript, FailOpen, GiveUp, Call, server
<1>4. Reset => window' = Nothing
  BY DEF Reset
<1>5. \A age \in 0..MaxDelay : CleanState(age) => age \in Nat /\ window' = Prune(window, age)
  BY Parameters DEF CleanState
<1>6. Tick => window' \in {Aged(window), Nothing}
  BY DEF Tick, Expire
<1>7. UNCHANGED config
  BY DEF ServedNext, ServedTick, ServedStep, Tick, Reset, CleanState, Call, FailOpen, GiveUp,
         Step, AcquireScript, Reply, Wake, Finish, ReleaseScript
<1>8. ServedTick => window' \in {Aged(window), Nothing}
  BY <1>6 DEF ServedTick
<1>9. ASSUME ServedStep
      PROVE  \/ window' \in {window, Nothing}
             \/ \E age \in Nat : window' = Prune(window, age)
             \/ \E c \in Clients : /\ timer[c] \in Nat
                                   /\ Total(Prune(window, timer[c]), Kept) < Limit
                                   /\ CountsPlaces => counter < MaxConcurrent
  BY <1>2, <1>3, <1>4, <1>5, <1>9 DEF ServedStep, Step
<1> QED
  BY <1>7, <1>8, <1>9

LEMMA EmptyWindow ==
  /\ Nothing \in [Kept -> Nat] /\ \A a \in Kept : Nothing[a] = 0
  /\ Total(Prune(Nothing, 0), Kept) = 0
<1>1. Nothing \in [Kept -> Nat] /\ \A a \in Kept : Nothing[a] = 0
  BY DEF Nothing, Kept
<1>2. \A a \in Kept : Prune(Nothing, 0)[a] = 0
  BY <1>1 DEF Prune, Kept
<1> QED
  BY <1>1, <1>2, TotalZero

\* While every place is taken no grant enters the window.
LEMMA RoomStays ==
  ASSUME WindowInv, ServedNext, CountsPlaces, counter >= MaxConcurrent, Room
  PROVE  Room'
<1>1. window \in [Kept -> Nat] /\ counter \in Nat
  BY Parameters DEF WindowInv, TypeOK, Kept
<1>2. PICK f : f = window'
  OBVIOUS
<1>3. \/ f \in {window, Aged(window), Nothing}
      \/ \E age \in Nat : f = Prune(window, age)
  BY <1>1, <1>2, WindowSteps, Parameters DEF ServedNext
<1>4. Total(Prune(window, 0), Kept) \in Nat /\ Total(Prune(window, 0), Kept) < Limit
  BY <1>1, TotalPruned DEF Room
<1>5. ASSUME f \in [Kept -> Nat], Total(Prune(f, 0), Kept) <= Total(Prune(window, 0), Kept)
      PROVE  Total(Prune(f, 0), Kept) < Limit
  <2>1. Total(Prune(f, 0), Kept) \in Nat
    BY <1>5, TotalPruned
  <2> QED
    BY <1>4, <1>5, <2>1, Parameters
<1>6. Total(Prune(f, 0), Kept) < Limit
  <2>1. CASE f = window
    BY <1>4, <2>1
  <2>2. CASE f = Aged(window)
    BY <1>1, <1>5, <2>2, AgedLess
  <2>3. CASE f = Nothing
    BY <2>3, EmptyWindow, Parameters
  <2>4. ASSUME NEW age \in Nat, f = Prune(window, age)
        PROVE  Total(Prune(f, 0), Kept) < Limit
    <3>1. f \in [Kept -> Nat] /\ \A a \in Recent : f[a] = window[a]
      BY <1>1, <2>4, PruneKeeps
    <3>2. \A a \in Recent : f[a] <= window[a]
      BY <1>1, <3>1, Parameters
    <3>3. Total(Prune(f, 0), Kept) <= Total(Prune(window, 0), Kept)
      BY <1>1, <3>1, <3>2, PrunedLess
    <3> QED
      BY <1>5, <3>1, <3>3
  <2> QED
    BY <1>3, <2>1, <2>2, <2>3, <2>4
<1> QED
  BY <1>2, <1>6, Constants DEF Room, Prune

\* While the window is full no grant enters it, whatever its time.
LEMMA NoneSinceStays ==
  ASSUME WindowInv, ServedNext, ~CountsPlaces, ~Free, NEW age \in Nat, NoneSince(age)
  PROVE  /\ ServedTick => \A a \in Kept : a < age + 1 => window'[a] = 0
         /\ ServedStep => \A a \in Kept : a < age => window'[a] = 0
<1>1. window \in [Kept -> Nat]
  BY DEF WindowInv, TypeOK, Kept
<1>2. ASSUME NEW c \in Clients, timer[c] \in Nat, Total(Prune(window, timer[c]), Kept) < Limit
      PROVE  FALSE
  <2>1. \A a \in Recent : window[a] <= window[a]
    BY <1>1, Parameters
  <2>2. Total(Prune(window, 0), Kept) <= Total(Prune(window, timer[c]), Kept)
    BY <1>1, <1>2, <2>1, PrunedLess
  <2>3. Room
    BY <1>1, <1>2, <2>2, TotalPruned, Parameters DEF Room
  <2> QED
    BY <2>3, FreeIs
<1>3. PICK f : f = window'
  OBVIOUS
<1>4. /\ ServedTick => f \in {Aged(window), Nothing}
      /\ ServedStep => f \in {window, Nothing} \/ \E k \in Nat : f = Prune(window, k)
  BY <1>2, <1>3, WindowSteps
<1>5. f = Nothing => \A a \in Kept : f[a] = 0
  BY EmptyWindow
<1>6. ASSUME ServedTick PROVE \A a \in Kept : a < age + 1 => f[a] = 0
  <2>1. f \in {Aged(window), Nothing}
    BY <1>4, <1>6
  <2>2. ASSUME f = Aged(window), NEW a \in Kept, a < age + 1 PROVE f[a] = 0
    <3>1. f[a] = IF a = 0 THEN 0 ELSE window[a - 1]
      BY <1>1, <2>2 DEF Aged
    <3>2. a # 0 => a - 1 \in Kept /\ a - 1 < age
      BY <2>2, Parameters
    <3> QED
      BY <3>1, <3>2 DEF NoneSince
  <2> QED
    BY <1>5, <2>1, <2>2
<1>7. ASSUME ServedStep PROVE \A a \in Kept : a < age => f[a] = 0
  <2>1. ASSUME NEW a \in Kept, a < age, f # Nothing PROVE f[a] = 0
    <3>1. window[a] = 0
      BY <2>1 DEF NoneSince
    <3>2. ASSUME NEW k \in Nat, f = Prune(window, k) PROVE f[a] = 0
      BY <2>1, <3>1, <3>2 DEF Prune, Kept
    <3> QED
      BY <1>4, <1>7, <2>1, <3>1, <3>2
  <2> QED
    BY <1>5, <2>1
<1> QED
  BY <1>3, <1>6, <1>7

LEMMA TurnFacts ==
  ASSUME NEW place, NEW age, NEW free \in BOOLEAN, Turn(place, age, free)
  PROVE  /\ view' = place /\ clock' = age /\ failed' = FALSE /\ wasFree' \in BOOLEAN
         /\ wasFree' <=> place # "away" /\ free
  BY Zenon DEF Turn

LEMMA ViewStepsAreSteps ==
  ASSUME [ViewNext]_<<vars, served, viewing>>, clock \in 0..MaxDelay
  PROVE  [Next]_vars
<1>1. StateCleans => [Next]_vars
  <2> SUFFICES ASSUME StateCleans PROVE Next
    OBVIOUS
  <2>1. CleanState(clock)
    BY DEF StateCleans
  <2>2. \E age \in 0..MaxDelay : CleanState(age)
    BY <2>1
  <2> QED
    BY <2>2 DEF Next
<1> QED
  BY <1>1, ServedStepsAreSteps
     DEF ViewNext, ServedNext, StateAsks, StateCounts, StatePlaces, StateRange, StateFails,
         StateEnds

LEMMA WatchKeeps ==
  ASSUME ViewInv, ServedNext, WindowInv', NEW age \in 0..MaxDelay, view # "allowed",
         Turn(view, age, wasFree \/ Free'),
         view = "asked" => (ServedTick /\ age = clock + 1) \/ (ServedStep /\ age = clock)
  PROVE  ViewInv'
<1>1. /\ view' = view /\ clock' = age /\ failed' \in BOOLEAN /\ wasFree' \in BOOLEAN
      /\ view # "away" => (wasFree' <=> wasFree \/ Free')
  <2>1. (wasFree \/ Free') \in BOOLEAN
    BY SMT
  <2> QED
    BY Zenon, <2>1, TurnFacts
<1>2. /\ WindowInv /\ UNCHANGED config /\ (CountsPlaces' <=> CountsPlaces)
      /\ Free' <=> Room' /\ (CountsPlaces' => counter' < MaxConcurrent)
  <2>1. WindowInv /\ UNCHANGED config
    BY WindowSteps DEF ViewInv
  <2> QED
    BY <2>1, Constants DEF CountsPlaces, config, Free, Room, Kept
<1>3. ASSUME view \in {"cleaned", "counted"} PROVE CountsPlaces'
  BY Zenon, <1>2, <1>3 DEF ViewInv
<1>4. ASSUME view = "counted" PROVE wasFree' \/ (Room' /\ counter' >= MaxConcurrent)
  <2>1. CASE wasFree'
    BY Zenon, <2>1
  <2>2. CASE ~wasFree'
    <3>1. ~wasFree /\ ~Free'
      BY Zenon, <1>1, <1>4, <2>2
    <3>2. CountsPlaces /\ Room /\ counter >= MaxConcurrent
      BY Zenon, <1>4, <3>1 DEF ViewInv
    <3>3. Room'
      BY <1>2, <3>2, RoomStays
    <3>4. ~(counter' < MaxConcurrent)
      BY Zenon, <1>2, <3>1, <3>3
    <3>5. counter' >= MaxConcurrent
      <4>1. counter' \in Nat
        BY Parameters DEF WindowInv, TypeOK
      <4> QED
        BY <3>4, <4>1, Parameters
    <3> QED
      BY Zenon, <3>3, <3>5
  <2> QED
    BY Zenon, <2>1, <2>2
<1>5. ASSUME view = "asked", ~CountsPlaces' PROVE wasFree' \/ NoneSince(clock)'
  <2>1. CASE wasFree'
    BY Zenon, <2>1
  <2>2. CASE ~wasFree'
    <3>1. ~wasFree /\ ~CountsPlaces
      BY Zenon, <1>1, <1>2, <1>5, <2>2
    <3>2. ~Free /\ NoneSince(clock)
      BY Zenon, <1>5, <3>1 DEF ViewInv
    <3>3. clock \in Nat
      BY Parameters DEF ViewInv
    <3>4. /\ ServedTick => \A a \in Kept : a < clock + 1 => window'[a] = 0
          /\ ServedStep => \A a \in Kept : a < clock => window'[a] = 0
      BY <1>2, <3>1, <3>2, <3>3, NoneSinceStays
    <3>5. \A a \in Kept : a < age => window'[a] = 0
      BY <1>5, <3>4
    <3> QED
      BY <1>1, <3>5, Constants DEF NoneSince
  <2> QED
    BY Zenon, <2>1, <2>2
<1>6. view' \in {"asked", "cleaned", "counted"} => (Free' => wasFree')
  BY Zenon, <1>1
<1>7. view' \in {"away", "asked", "cleaned", "counted"} /\ view' # "allowed"
  BY Zenon, <1>1 DEF ViewInv
<1>8. AllowedWasFree'
  BY Zenon, <1>7 DEF AllowedWasFree
<1>9. clock' \in 0..MaxDelay
  BY Zenon, <1>1
<1> QED
  BY Zenon, <1>1, <1>3, <1>4, <1>5, <1>6, <1>7, <1>8, <1>9 DEF ViewInv

\* What is counted of the times from the one read on, when no member is younger.
LEMMA RangeCounts ==
  ASSUME WindowInv, clock \in 0..MaxDelay, NoneSince(clock),
         NEW some, some = {a \in 0..Top-1 : a \in clock..Window+clock},
         Total(window, some) < Limit
  PROVE  Room
<1>1. window \in [Kept -> Nat] /\ clock \in Nat
  BY Parameters DEF WindowInv, TypeOK, Kept
<1>2. PICK g : g = Prune(window, 0)
  OBVIOUS
<1>3. /\ g \in [Kept -> Nat] /\ \A a \in Kept : g[a] > 0 => a < Window + 0
      /\ \A a \in Kept : g[a] <= window[a]
  BY <1>1, <1>2, PruneKeeps
<1>4. some \in SUBSET Kept /\ IsFiniteSet(some)
  <2>1. some \in SUBSET Kept
    BY DEF Kept
  <2> QED
    BY <2>1, Parameters, FS_Subset
<1>5. ASSUME NEW a \in Kept, g[a] > 0 PROVE a \in some /\ g[a] <= window[a]
  <2>1. /\ a \in Nat /\ a < Window /\ window[a] \in Nat /\ g[a] \in Nat /\ g[a] <= window[a]
        /\ a \in 0..Top-1
    BY <1>1, <1>3, <1>5, Parameters DEF Kept
  <2>2. ~(a < clock)
    BY <1>5, <2>1 DEF NoneSince
  <2>3. a \in clock..Window+clock
    BY <1>1, <2>1, <2>2, Parameters
  <2> QED
    BY <2>1, <2>3
<1>6. /\ \A a \in Kept : g[a] \in Nat
      /\ \A a \in some : window[a] \in Nat
  BY <1>1, <1>3, <1>4
<1>7. Total(g, Kept) <= Total(window, some)
  BY <1>4, <1>5, <1>6, TotalWithin
<1>8. Total(g, Kept) \in Nat /\ Total(window, some) \in Nat
  BY <1>4, <1>6, Parameters, TotalType
<1> QED
  BY <1>2, <1>7, <1>8, Parameters DEF Room

LEMMA CardFinds ==
  ASSUME WindowInv, Total(window, 0..Top-1) < Limit
  PROVE  Room
<1>1. window \in [Kept -> Nat] /\ Total(window, Kept) < Limit
  BY DEF WindowInv, TypeOK, Kept
<1>2. Total(Prune(window, 0), Kept) <= Total(window, Kept)
  BY <1>1, PruneKeeps
<1>3. Total(window, Kept) \in Nat
  BY <1>1, Parameters, TotalType
<1> QED
  BY <1>1, <1>2, <1>3, TotalPruned, Parameters DEF Room

LEMMA StateKeeps ==
  ASSUME ViewInv, WindowInv',
         StateAsks \/ StateCleans \/ StateCounts \/ StatePlaces \/ StateRange
           \/ StateFails \/ StateEnds
  PROVE  ViewInv'
<1> USE DEF ViewInv
<1>1. WindowInv /\ counter \in Nat /\ clock \in 0..MaxDelay /\ 0 \in 0..MaxDelay
  <2>1. WindowInv /\ counter \in 0..MaxConcurrent
    BY DEF WindowInv, TypeOK
  <2> QED
    BY <2>1, Parameters
<1>2. UNCHANGED config /\ (CountsPlaces' <=> CountsPlaces)
  BY DEF StateAsks, StateCleans, CleanState, StateCounts, StatePlaces, StateRange, StateFails,
         StateEnds, vars, config, CountsPlaces
<1>3. UNCHANGED vars => (Free' <=> Free) /\ (Room' <=> Room) /\ counter' = counter
  BY DEF vars, config, server, Free, Room, Prune, CountsPlaces
\* What a request of get_state has to show.
<1> DEFINE Shown(to) ==
      /\ view' = to /\ clock' = 0 /\ wasFree' \in BOOLEAN /\ failed' \in BOOLEAN
      /\ to \in {"asked", "cleaned", "counted"} => (Free' => wasFree')
      /\ to \in {"cleaned", "counted"} => CountsPlaces
      /\ to = "counted" => (wasFree' \/ (Room' /\ counter' >= MaxConcurrent))
      /\ to = "allowed" => wasFree' \/ (failed' /\ ~failClosed)
<1>4. ASSUME NEW to \in {"away", "asked", "cleaned", "counted", "allowed"}, Shown(to)
      PROVE  ViewInv'
  <2>1. failClosed' = failClosed
    BY <1>2 DEF config
  <2>2. AllowedWasFree'
    BY Zenon, <1>4, <2>1 DEF AllowedWasFree
  <2>3. view' \in {"cleaned", "counted"} => CountsPlaces'
    BY Zenon, <1>2, <1>4
  <2>4. NoneSince(clock)'
    <3>1. clock' = 0
      BY Zenon, <1>4
    <3>2. \A a \in Kept : ~(a < 0)
      BY Parameters
    <3> QED
      BY <3>1, <3>2, Constants DEF NoneSince
  <2>5. clock' \in 0..MaxDelay
    BY Zenon, <1>1, <1>4
  <2> QED
    BY Zenon, <1>4, <2>2, <2>3, <2>4, <2>5
<1>5. ASSUME StateAsks PROVE \E to \in {"asked"} : Shown(to)
  <2>1. Turn("asked", 0, Free) /\ UNCHANGED vars
    BY Zenon, <1>5 DEF StateAsks
  <2>2. /\ view' = "asked" /\ clock' = 0 /\ failed' = FALSE /\ wasFree' \in BOOLEAN
        /\ wasFree' <=> Free
    <3>1. "asked" # "away"
      OBVIOUS
    <3> QED
      BY Zenon, <2>1, <3>1, FreeIs, TurnFacts
  <2> QED
    BY Zenon, <1>3, <2>1, <2>2
<1>6. ASSUME StateCleans PROVE \E to \in {"cleaned"} : Shown(to)
  <2>1. Turn("cleaned", 0, wasFree \/ Free') /\ CountsPlaces
    BY Zenon, <1>6 DEF StateCleans, CleanState
  <2>2. (wasFree \/ Free') \in BOOLEAN
    BY SMT
  <2> QED
    BY Zenon, <2>1, <2>2, TurnFacts
<1>7. ASSUME StateCounts PROVE \E to \in {"counted", "away"} : Shown(to)
  <2> DEFINE room == Total(window, 0..Top-1) < Limit
  <2>1. /\ Turn(IF room THEN "counted" ELSE "away", 0, wasFree) /\ UNCHANGED vars
        /\ wasFree \in BOOLEAN /\ CountsPlaces /\ (Free => wasFree)
    BY Zenon, <1>7 DEF StateCounts
  <2>2. room => Room
    BY <1>1, CardFinds
  <2> HIDE DEF room
  <2>3. CASE room
    <3>1. wasFree \/ counter >= MaxConcurrent
      <4>1. counter < MaxConcurrent \/ counter >= MaxConcurrent
        BY <1>1, Parameters
      <4> QED
        BY Zenon, <2>1, <2>2, <2>3, <4>1, FreeIs
    <3>2. Room' /\ counter' = counter /\ (Free' => wasFree)
      BY Zenon, <1>3, <2>1, <2>2, <2>3
    <3>3. /\ view' = "counted" /\ clock' = 0 /\ failed' = FALSE /\ wasFree' \in BOOLEAN
          /\ wasFree' <=> wasFree
      <4>1. "counted" # "away"
        OBVIOUS
      <4> QED
        BY Zenon, <2>1, <2>3, <4>1, TurnFacts
    <3>4. counter >= MaxConcurrent => counter' >= MaxConcurrent
      BY <3>2
    <3> QED
      BY Zenon, <2>1, <3>1, <3>2, <3>3, <3>4
  <2>4. CASE ~room
    BY Zenon, <2>1, <2>4, TurnFacts
  <2> QED
    BY Zenon, <2>3, <2>4
<1>8. ASSUME StatePlaces PROVE \E to \in {"allowed", "away"} : Shown(to)
  <2> DEFINE place == counter < MaxConcurrent
  <2>1. /\ Turn(IF place THEN "allowed" ELSE "away", 0, wasFree)
        /\ wasFree \in BOOLEAN /\ (wasFree \/ counter >= MaxConcurrent)
    BY Zenon, <1>8 DEF StatePlaces
  <2>2. place => ~(counter >= MaxConcurrent)
    BY <1>1, Parameters
  <2> HIDE DEF place
  <2>3. CASE place
    BY Zenon, <2>1, <2>2, <2>3, TurnFacts
  <2>4. CASE ~place
    BY Zenon, <2>1, <2>4, TurnFacts
  <2> QED
    BY Zenon, <2>3, <2>4
<1>9. ASSUME StateRange PROVE \E to \in {"allowed", "away"} : Shown(to)
  <2> DEFINE some == {a \in 0..Top-1 : a \in clock..Window+clock}
             room == Total(window, some) < Limit
  <2>1. /\ Turn(IF room THEN "allowed" ELSE "away", 0, wasFree) /\ ~CountsPlaces
        /\ wasFree \in BOOLEAN /\ (Free => wasFree) /\ (wasFree \/ NoneSince(clock))
    BY Zenon, <1>9 DEF StateRange
  <2>2. room => wasFree
    <3>1. room /\ NoneSince(clock) => Room
      <4> HIDE DEF some
      <4>1. PICK few : few = some
        OBVIOUS
      <4>2. few = {a \in 0..Top-1 : a \in clock..Window+clock}
        BY <4>1 DEF some
      <4> QED
        BY <1>1, <4>1, <4>2, RangeCounts
    <3> HIDE DEF room
    <3> QED
      BY Zenon, <2>1, <3>1, FreeIs
  <2> HIDE DEF room
  <2>3. CASE room
    BY Zenon, <2>1, <2>2, <2>3, TurnFacts
  <2>4. CASE ~room
    BY Zenon, <2>1, <2>4, TurnFacts
  <2> QED
    BY Zenon, <2>3, <2>4
<1>10. ASSUME StateFails PROVE \E to \in {"allowed", "away"} : Shown(to)
  <2>1. failClosed \in BOOLEAN
    BY <1>1 DEF WindowInv, TypeOK
  <2>2. CASE failClosed
    BY Zenon, <1>10, <2>2 DEF StateFails
  <2>3. CASE ~failClosed
    BY Zenon, <1>10, <2>3 DEF StateFails
  <2> QED
    BY Zenon, <2>2, <2>3
<1>11. ASSUME StateEnds PROVE \E to \in {"away"} : Shown(to)
  BY Zenon, <1>11, TurnFacts DEF StateEnds
<1> HIDE DEF Shown
<1>12. \E to \in {"away", "asked", "cleaned", "counted", "allowed"} : Shown(to)
  BY <1>5, <1>6, <1>7, <1>8, <1>9, <1>10, <1>11
<1> QED
  BY Zenon, <1>4, <1>12

LEMMA NextView ==
  ASSUME ViewInv, [ViewNext]_<<vars, served, viewing>>
  PROVE  ViewInv'
<1>1. WindowInv' /\ clock \in 0..MaxDelay /\ clock \in Nat
  BY ViewStepsAreSteps, NextWindow, Parameters DEF ViewInv
<1>2. CASE UNCHANGED <<vars, served, viewing>>
  <2>1. UNCHANGED <<engine, failClosed, window, counter, view, clock, failed, wasFree>>
    BY <1>2 DEF vars, config, server, viewing
  <2> QED
    BY <1>1, <2>1 DEF ViewInv, AllowedWasFree, CountsPlaces, Free, Room, Prune, NoneSince, Kept,
                      Top
<1>3. CASE ServedTick /\ IF view = "asked" THEN clock < MaxDelay /\ Watch(clock + 1) ELSE Watch(0)
  <2>1. CASE view = "asked"
    <3>1. clock + 1 \in 0..MaxDelay
      BY <1>1, <1>3, <2>1, Parameters
    <3>2. Turn(view, clock + 1, wasFree \/ Free')
      BY Zenon, <1>3, <2>1 DEF Watch
    <3> QED
      BY <1>1, <1>3, <2>1, <3>1, <3>2, WatchKeeps DEF ServedNext
  <2>2. CASE view # "asked"
    <3>1. 0 \in 0..MaxDelay
      BY Parameters
    <3>2. Turn(view, 0, wasFree \/ Free') /\ view # "allowed"
      BY Zenon, <1>3, <2>2 DEF Watch
    <3> QED
      BY <1>1, <1>3, <2>2, <3>1, <3>2, WatchKeeps DEF ServedNext
  <2> QED
    BY <2>1, <2>2
<1>4. CASE ServedStep /\ Watch(clock)
  <2>1. Turn(view, clock, wasFree \/ Free') /\ view # "allowed"
    BY Zenon, <1>4 DEF Watch
  <2> QED
    BY <1>1, <1>4, <2>1, WatchKeeps DEF ServedNext
<1> QED
  BY <1>1, <1>2, <1>3, <1>4, StateKeeps DEF ViewNext

\* get_state says allowed only when an acquire would have been granted at some
\* moment since it was called, or on a failure when failures let requests through
\* (redis.py, redis_sliding_window.py, get_state): the window and the places, which
\* the Redis engine reads in three requests, were free together, and what the other
\* engine does not count, the times after the one it read, only free windows got.
THEOREM AllowedIsFree == ViewSpec => []AllowedWasFree
<1>1. ViewInit => ViewInv
  <2> SUFFICES ASSUME ViewInit PROVE ViewInv
    OBVIOUS
  <2>1. WindowInv /\ view = "away" /\ clock = 0 /\ failed = FALSE /\ wasFree = FALSE
    BY InitWindow DEF ViewInit, ServedInit
  <2>2. 0 \in 0..MaxDelay
    BY Parameters
  <2> QED
    BY <2>1, <2>2 DEF ViewInv, AllowedWasFree
<1>2. ViewInv => AllowedWasFree
  BY DEF ViewInv
<1> QED
  BY <1>1, <1>2, NextView, PTL DEF ViewSpec
=============================================================================

----------------------------- MODULE RedisWindow -----------------------------
(***************************************************************************)
(* The sliding windows on Redis: that of the Redis engine (redis.py),      *)
(* which also counts places, and the engine that only counts grants        *)
(* (redis_sliding_window.py).  A script keeps the grants of a window in a  *)
(* sorted set, by the time the client sent.  RedisTokenBucket describes    *)
(* how time, requests and failures are modelled.                           *)
(*                                                                         *)
(* A grant is a member of the sorted set.  The Redis engine numbers its    *)
(* members; those of the other engine are made of the time and a random    *)
(* number, and math.random begins with the same seed in every script: two  *)
(* grants with the same time may be one member.                            *)
(***************************************************************************)
EXTENDS Integers, FiniteSets, Ages

CONSTANTS Clients,
          Engines,        \* the engines the group may be configured with
          Limit,          \* limit
          Window,         \* window_seconds
          MaxConcurrent,  \* max_concurrent, of the Redis engine
          Ttl,            \* time to live of the keys
          Poll,           \* sleep of a client that found every place taken
          Recheck,        \* sleep between two scripts of the other engine
          MaxTimeout,     \* bound: longest timeout of try_acquire
          MaxDelay,       \* bound: longest time from reading the clock to the script
          MaxHold         \* bound: longest time from the acquire to the release script

ASSUME WindowAssumption ==
  /\ IsFiniteSet(Clients)
  /\ Engines \subseteq {"redis", "redis_sliding_window"}
  /\ Limit \in Nat \ {0}
  /\ Window \in Nat \ {0}
  /\ MaxConcurrent \in Nat \ {0}
  /\ Poll \in Nat \ {0}
  /\ Recheck \in Nat \ {0}
  /\ MaxTimeout \in Nat
  /\ MaxDelay \in Nat
  /\ MaxHold \in Nat
  /\ Ttl \in Nat
  /\ Window + MaxDelay <= Ttl

VARIABLES
  engine,     \* chosen at the start
  failClosed, \* chosen at the start
  window,     \* the sorted set: how many members there are of each age
  counter,    \* the concurrent key, 0 when it does not exist
  ttl,        \* ticks until the keys expire, 0 when they do not exist
  pc,         \* where each client is; see Places
  timer,      \* age of the time in the request, or of the place, or rest of the sleep
  budget,     \* ticks left of the timeout, Never for acquire()
  wasReset,   \* reset() was called
  owners,     \* history variable: clients the counter counts a place for
  leaked,     \* history variable: places still counted for clients that gave up
  granted     \* history variable: grants of the window that ends now, by age of the
              \* time they were made with; one more than Limit stands for any
              \* number above it

config  == <<engine, failClosed>>
server  == <<window, counter, ttl>>
local   == <<pc, timer, budget>>
history == <<owners, leaked, granted>>
vars == <<config, server, local, wasReset, history>>

Never == MaxTimeout + 1

\* As in RedisTokenBucket.
Places  == {"idle", "sent", "granted", "refused", "sleep", "operation", "releasing"}
Holding == {"granted", "operation", "releasing"}
Waiting(c) == pc[c] \in {"sent", "refused", "sleep"}

At(places) == {c \in Clients : pc[c] \in places}

CountsPlaces == engine = "redis"

\* Members of an age of Top are old for every request.
Top     == Window + MaxDelay
Nothing == [a \in 0..Top-1 |-> 0]

\* Ages in the window that ends now.
Recent == 0..Window-1

Init ==
  /\ engine \in Engines
  /\ failClosed \in BOOLEAN
  /\ window = Nothing
  /\ counter = 0
  /\ ttl = 0
  /\ pc = [c \in Clients |-> "idle"]
  /\ timer = [c \in Clients |-> 0]
  /\ budget = [c \in Clients |-> 0]
  /\ wasReset = FALSE
  /\ owners = {}
  /\ leaked = 0
  /\ granted = [a \in Recent |-> 0]

-----------------------------------------------------------------------------
(* The scripts *)

Down(n)      == IF n > 0 THEN n - 1 ELSE 0
AtMost(n, m) == IF n < m THEN n ELSE m

Move(c, place, ticks) ==
  /\ pc' = [pc EXCEPT ![c] = place]
  /\ timer' = [timer EXCEPT ![c] = ticks]

\* Mutant: members that are a tick younger are removed too.
Prune_Early(members, stamp) ==
  [a \in 0..Top-1 |-> IF a + 1 >= Window + stamp THEN 0 ELSE members[a]]

\* ZREMRANGEBYSCORE up to now - window_seconds, where now is stamp old
Prune(members, stamp) == [a \in 0..Top-1 |-> IF a >= Window + stamp THEN 0 ELSE members[a]]

\* ZRANGE 0 0
Oldest(members) ==
  CHOOSE a \in 0..Top-1 : members[a] > 0 /\ \A b \in 0..Top-1 : members[b] > 0 => b <= a

\* ZADD: a member of the Redis engine is always a new one.
Added(members, stamp) ==
  {[members EXCEPT ![stamp] = @ + 1]} \cup IF CountsPlaces \/ members[stamp] = 0 THEN {} ELSE {members}

\* The exact time until the oldest member leaves the window; the other engine looks
\* again after a fixed time.
WaitTime(members, stamp) ==
  IF CountsPlaces THEN Window + stamp - Oldest(members) ELSE Recheck

\* One more grant whose time is in the window, if stamp is.
Record(stamp) == [a \in Recent |-> IF a = stamp THEN AtMost(granted[a], Limit) + 1 ELSE granted[a]]

Refuse(c, wait) ==
  /\ Move(c, "refused", wait)
  /\ UNCHANGED <<counter, ttl, budget, history>>

\* The places of a grant.
Occupy(c) ==
  IF CountsPlaces THEN counter' = counter + 1 /\ owners' = owners \cup {c}
                  ELSE UNCHANGED <<counter, owners>>

\* Mutant: the counter is incremented without a look at it.
AcquireScript_Unlimited(c) ==
  LET members == Prune(window, timer[c])
      full    == Total(members, 0..Top-1) >= Limit IN
  /\ pc[c] = "sent"
  /\ \/ full /\ Refuse(c, WaitTime(members, timer[c])) /\ window' = members
     \/ /\ ~full
        /\ window' \in Added(members, timer[c])
        /\ ttl' = Ttl
        /\ Occupy(c)
        /\ Move(c, "granted", 0)
        /\ granted' = Record(timer[c])
        /\ UNCHANGED <<budget, leaked>>
  /\ UNCHANGED <<config, wasReset>>

\* ACQUIRE_SLIDING_WINDOW_SCRIPT, SLIDING_WINDOW_SCRIPT
AcquireScript(c) ==
  LET members == Prune(window, timer[c])
      full    == Total(members, 0..Top-1) >= Limit
      busy    == CountsPlaces /\ counter >= MaxConcurrent IN
  /\ pc[c] = "sent"
  /\ \/ full /\ Refuse(c, WaitTime(members, timer[c])) /\ window' = members
     \/ ~full /\ busy /\ Refuse(c, Poll) /\ window' = members
     \/ /\ ~full /\ ~busy
        /\ window' \in Added(members, timer[c])
        /\ ttl' = Ttl
        /\ Occupy(c)
        /\ Move(c, "granted", 0)
        /\ granted' = Record(timer[c])
        /\ UNCHANGED <<budget, leaked>>
  /\ UNCHANGED <<config, wasReset>>

Idle(c) ==
  /\ Move(c, "idle", 0)
  /\ budget' = [budget EXCEPT ![c] = 0]

\* Mutant: the counter is not decremented.
ReleaseScript_NoDecr(c) ==
  /\ pc[c] = "releasing"
  /\ owners' = owners \ {c}
  /\ Idle(c)
  /\ UNCHANGED <<config, server, wasReset, leaked, granted>>

\* RELEASE_SCRIPT, as in RedisTokenBucket
ReleaseScript(c) ==
  /\ pc[c] = "releasing"
  /\ counter' = Down(counter)
  /\ owners' = owners \ {c}
  /\ leaked' = IF c \in owners THEN leaked ELSE Down(leaked)
  /\ Idle(c)
  /\ UNCHANGED <<config, window, ttl, wasReset, granted>>

\* get_state() of the Redis engine removes old members too, in a request of
\* its own.  RedisWindowViewer has the requests after it, which only read.
CleanState(stamp) ==
  /\ CountsPlaces
  /\ window' = Prune(window, stamp)
  /\ UNCHANGED <<config, counter, ttl, local, wasReset, history>>

\* reset(): DEL of all the keys
Reset ==
  /\ ~wasReset
  /\ wasReset' = TRUE
  /\ window' = Nothing
  /\ counter' = 0
  /\ ttl' = 0
  /\ owners' = {}
  /\ leaked' = 0
  /\ granted' = [a \in Recent |-> 0]
  /\ UNCHANGED <<config, local>>

-----------------------------------------------------------------------------
(* The clients *)

\* acquire(), or try_acquire(timeout): the clock is read and the script sent.
Call(c, timeout) ==
  /\ pc[c] = "idle"
  /\ Move(c, "sent", 0)
  /\ budget' = [budget EXCEPT ![c] = timeout]
  /\ UNCHANGED <<config, server, wasReset, history>>

\* The reply arrives.  A client of the other engine is done with a grant.
Reply(c) ==
  /\ \/ /\ pc[c] = "granted" /\ CountsPlaces
        /\ Move(c, "operation", timer[c])
        /\ budget' = [budget EXCEPT ![c] = 0]
     \/ pc[c] = "granted" /\ ~CountsPlaces /\ Idle(c)
     \/ pc[c] = "refused" /\ budget[c] = 0 /\ Idle(c)
     \/ /\ pc[c] = "refused" /\ budget[c] > 0
        /\ Move(c, "sleep", IF budget[c] = Never THEN timer[c] ELSE AtMost(timer[c], budget[c]))
        /\ UNCHANGED budget
  /\ UNCHANGED <<config, server, wasReset, history>>

\* The clock is read again.
Wake(c) ==
  /\ pc[c] = "sleep"
  /\ timer[c] = 0
  /\ Move(c, "sent", 0)
  /\ UNCHANGED <<config, server, budget, wasReset, history>>

\* The operation is over: release() sends its script.
Finish(c) ==
  /\ pc[c] = "operation"
  /\ Move(c, "releasing", timer[c])
  /\ UNCHANGED <<config, server, budget, wasReset, history>>

\* A failure try_acquire catches: with fail_open the request is allowed.
FailOpen(c) ==
  /\ ~failClosed
  /\ pc[c] \in {"sent", "granted", "refused"}
  /\ budget[c] # Never
  /\ IF CountsPlaces
     THEN /\ Move(c, "operation", IF pc[c] = "granted" THEN timer[c] ELSE 0)
          /\ budget' = [budget EXCEPT ![c] = 0]
     ELSE Idle(c)
  /\ UNCHANGED <<config, server, wasReset, history>>

\* The client is cancelled, crashes, or sees a failure that is not caught.
GiveUp(c) ==
  /\ pc[c] # "idle"
  /\ Idle(c)
  /\ owners' = owners \ {c}
  /\ leaked' = IF c \in owners /\ leaked < counter THEN leaked + 1 ELSE leaked
  /\ UNCHANGED <<config, server, wasReset, granted>>

-----------------------------------------------------------------------------
(* Time *)

Aged(members) == [a \in DOMAIN members |-> IF a = 0 THEN 0 ELSE members[a-1]]

\* The keys expire: grants and places they counted are forgotten.
Expire ==
  /\ window' = IF ttl > 1 THEN Aged(window) ELSE Nothing
  /\ counter' = IF ttl > 1 THEN counter ELSE 0
  /\ leaked' = IF ttl > 1 THEN leaked ELSE 0

Tick ==
  /\ \A c \in At({"sent"}) : timer[c] < MaxDelay
  /\ \A c \in At(Holding) : timer[c] < MaxHold
  /\ ttl' = Down(ttl)
  /\ Expire
  /\ timer' = [c \in Clients |->
       IF pc[c] = "sleep" THEN Down(timer[c])
       ELSE IF pc[c] \in Holding \cup {"sent"} THEN timer[c] + 1 ELSE timer[c]]
  /\ budget' = [c \in Clients |->
       IF Waiting(c) /\ budget[c] # Never THEN Down(budget[c]) ELSE budget[c]]
  /\ granted' = Aged(granted)
  /\ UNCHANGED <<config, pc, wasReset, owners>>

Step(c) == AcquireScript(c) \/ Reply(c) \/ Wake(c) \/ Finish(c) \/ ReleaseScript(c)

Next ==
  \/ Tick
  \/ Reset
  \/ \E stamp \in 0..MaxDelay : CleanState(stamp)
  \/ \E c \in Clients : \/ \E timeout \in 0..Never : Call(c, timeout)
                        \/ Step(c) \/ FailOpen(c) \/ GiveUp(c)

Spec == Init /\ [][Next]_vars

-----------------------------------------------------------------------------
(* Properties *)

TypeOK ==
  /\ engine \in {"redis", "redis_sliding_window"}
  /\ failClosed \in BOOLEAN
  /\ window \in [0..Top-1 -> Nat]
  /\ counter \in 0..MaxConcurrent
  /\ ttl \in 0..Ttl
  /\ pc \in [Clients -> Places]
  /\ timer \in [Clients -> Nat]
  /\ budget \in [Clients -> 0..Never]
  /\ wasReset \in BOOLEAN
  /\ owners \in SUBSET Clients
  /\ leaked \in Nat
  /\ granted \in [Recent -> Nat]

\* At every moment at most limit grants carry times of the window that ends then,
\* however late their scripts are executed and whoever cleans the window ("Sliding
\* window acquire script: uses sorted set to track timestamps", redis.py:89).  Of
\* the other engine, whose members repeat, at most limit times of it have grants.
RateRespected ==
  IF CountsPlaces THEN Total(granted, Recent) <= Limit
                  ELSE Cardinality({a \in Recent : granted[a] > 0}) <= Limit

\* The counter counts the clients that hold a place and the places lost and not
\* yet expired.
CounterExact ==
  failClosed /\ ~wasReset => counter = Cardinality(owners) + leaked

\* Requests allowed without a place, and a reset while places are held, block
\* no place that nobody holds and nobody lost.
NoPhantomPlace == counter <= Cardinality(owners) + leaked
=============================================================================

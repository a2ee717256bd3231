-------------------------- MODULE RedisTokenBucket --------------------------
(***************************************************************************)
(* The token bucket of the Redis engine (engines/redis.py): clients in     *)
(* several processes send Lua scripts to one server.  A script is atomic;  *)
(* requests and replies take time, fail and are abandoned by clients that  *)
(* are cancelled or crash.  The server keeps the time of the last grant    *)
(* and a counter of the places taken, in two keys that expire together, as *)
(* the acquire script sets both with the same time to live.                *)
(*                                                                         *)
(* Time is discrete and the clocks of the clients agree; a time kept in a  *)
(* variable is an age or a number of ticks left.  A request that is        *)
(* abandoned is either executed before or never.                           *)
(***************************************************************************)
EXTENDS Integers, FiniteSets, Ages

CONSTANTS Clients,
          Period,         \* ticks in 1 / rate_per_second, 0 for no rate limit
          Margin,         \* timing_margin_ms
          MaxConcurrent,  \* places
          Ttl,            \* time to live of the keys
          FailClosed,     \* fail_closed
          Poll,           \* sleep of a client that found every place taken
          MaxTimeout,     \* bound: longest timeout of try_acquire
          MaxDelay,       \* bound: longest time from reading the clock to the script
          MaxHold         \* bound: longest time from the acquire to the release script

ASSUME RedisAssumption ==
  /\ IsFiniteSet(Clients)
  /\ Period \in Nat
  /\ Margin \in Nat
  /\ MaxConcurrent \in Nat \ {0}
  /\ Poll \in Nat \ {0}
  /\ MaxTimeout \in Nat
  /\ MaxDelay \in Nat
  /\ MaxHold \in Nat
  /\ Ttl \in Nat \ {0}
  /\ Period + MaxDelay <= Ttl
  /\ FailClosed \in BOOLEAN

VARIABLES
  last,     \* the rate key, as the age of the time in it
  ttl,      \* ticks until the keys expire, 0 when they do not exist
  counter,  \* the concurrent key, 0 when it does not exist
  pc,       \* where each client is; see Places
  timer,    \* age of the time in the request, or of the place, or rest of the sleep
  budget,   \* ticks left of the timeout, Never for acquire()
  owners,   \* history variable: clients the counter counts a place for
  leaked,   \* history variable: places still counted for clients that gave up
  granted   \* history variable: ages of the grants made in the last Span ticks

server  == <<last, ttl, counter>>
history == <<owners, leaked, granted>>
vars == <<server, pc, timer, budget, history>>

Never == MaxTimeout + 1

\* A request or a reply of the acquire script is on its way, the client sleeps,
\* its operation is in flight, the request of the release script is on its way.
Places == {"idle", "sent", "granted", "refused", "sleep", "operation", "releasing"}
Holding == {"granted", "operation", "releasing"}
Waiting(c) == pc[c] \in {"sent", "refused", "sleep"}

At(places) == {c \in Clients : pc[c] \in places}

\* The interval the script is sent; one of 0 or less switches its rate check off.
Interval == IF Period > Margin THEN Period - Margin ELSE 0

\* An age from which on the last grant is too old to matter to any request.
Old == Interval + MaxDelay

\* Grants are an interval apart on the clocks of the clients; the server
\* executes one at most MaxDelay later.
Span  == IF Interval > MaxDelay THEN Interval - MaxDelay ELSE 0
Quota == 1

Init ==
  /\ last = Old
  /\ ttl = 0
  /\ counter = 0
  /\ pc = [c \in Clients |-> "idle"]
  /\ timer = [c \in Clients |-> 0]
  /\ budget = [c \in Clients |-> 0]
  /\ owners = {}
  /\ leaked = 0
  /\ granted = <<>>

-----------------------------------------------------------------------------
(* The scripts *)

Down(n) == IF n > 0 THEN n - 1 ELSE 0

\* elapsed >= interval, where elapsed = now - last_time and now is stamp old
RateReady(stamp) == Interval = 0 \/ ttl = 0 \/ last >= stamp + Interval

Refuse(c, wait) ==
  /\ pc' = [pc EXCEPT ![c] = "refused"]
  /\ timer' = [timer EXCEPT ![c] = wait]
  /\ UNCHANGED <<history, budget>>

\* Mutant: SET with NX, so that the rate key keeps the time it has.
TakePlace_KeepsRate(c) ==
  /\ last' = IF Interval > 0 /\ ttl = 0 THEN timer[c] ELSE last
  /\ ttl' = Ttl
  /\ counter' = counter + 1
  /\ pc' = [pc EXCEPT ![c] = "granted"]
  /\ timer' = [timer EXCEPT ![c] = 0]
  /\ owners' = owners \cup {c}
  /\ granted' = Grant(granted, Span)
  /\ UNCHANGED <<budget, leaked>>

TakePlace(c) ==
  /\ last' = IF Interval > 0 THEN timer[c] ELSE last
  /\ ttl' = Ttl
  /\ counter' = counter + 1
  /\ pc' = [pc EXCEPT ![c] = "granted"]
  /\ timer' = [timer EXCEPT ![c] = 0]
  /\ owners' = owners \cup {c}
  /\ granted' = Grant(granted, Span)
  /\ UNCHANGED <<budget, leaked>>

\* Mutant: the keys are given a new time to live whatever the outcome.
AcquireScript_AlwaysExpire(c) ==
  /\ pc[c] = "sent"
  /\ \/ ~RateReady(timer[c]) /\ Refuse(c, Interval + timer[c] - last) /\ UNCHANGED server
     \/ RateReady(timer[c]) /\ counter >= MaxConcurrent /\ Refuse(c, Poll)
        /\ ttl' = Ttl /\ UNCHANGED <<last, counter>>
     \/ RateReady(timer[c]) /\ counter < MaxConcurrent /\ TakePlace(c)

\* ACQUIRE_TOKEN_BUCKET_SCRIPT.  The reply carries the exact time to wait for
\* the rate; a client that finds every place taken polls.
AcquireScript(c) ==
  /\ pc[c] = "sent"
  /\ \/ ~RateReady(timer[c]) /\ Refuse(c, Interval + timer[c] - last) /\ UNCHANGED server
     \/ RateReady(timer[c]) /\ counter >= MaxConcurrent /\ Refuse(c, Poll) /\ UNCHANGED server
     \/ RateReady(timer[c]) /\ counter < MaxConcurrent /\ TakePlace(c)

Idle(c) ==
  /\ pc' = [pc EXCEPT ![c] = "idle"]
  /\ timer' = [timer EXCEPT ![c] = 0]
  /\ budget' = [budget EXCEPT ![c] = 0]

\* Mutant: the counter is not decremented.
ReleaseScript_NoDecr(c) ==
  /\ pc[c] = "releasing"
  /\ owners' = owners \ {c}
  /\ Idle(c)
  /\ UNCHANGED <<server, leaked, granted>>

\* Mutant: DECR without looking at the counter.
ReleaseScript_Unguarded(c) ==
  /\ pc[c] = "releasing"
  /\ counter' = counter - 1
  /\ owners' = owners \ {c}
  /\ Idle(c)
  /\ UNCHANGED <<last, ttl, leaked, granted>>

\* RELEASE_SCRIPT.  It does not know whose place it gives back: for a client
\* that has none, a lost one if there is any, or else that of another client.
ReleaseScript(c) ==
  /\ pc[c] = "releasing"
  /\ counter' = Down(counter)
  /\ owners' = owners \ {c}
  /\ leaked' = IF c \in owners THEN leaked ELSE Down(leaked)
  /\ Idle(c)
  /\ UNCHANGED <<last, ttl, granted>>

-----------------------------------------------------------------------------
(* The clients *)

\* acquire(), or try_acquire(timeout): the clock is read and the script sent.
Call(c, timeout) ==
  /\ pc[c] = "idle"
  /\ pc' = [pc EXCEPT ![c] = "sent"]
  /\ timer' = [timer EXCEPT ![c] = 0]
  /\ budget' = [budget EXCEPT ![c] = timeout]
  /\ UNCHANGED <<server, history>>

Sleep(c) ==
  LET rest == IF timer[c] < budget[c] \/ budget[c] = Never THEN timer[c] ELSE budget[c] IN
  /\ pc' = [pc EXCEPT ![c] = "sleep"]
  /\ timer' = [timer EXCEPT ![c] = rest]
  /\ UNCHANGED budget

\* The reply arrives.  A refused try_acquire whose timeout is over returns
\* False, and otherwise sleeps no longer than its timeout.
Reply(c) ==
  /\ \/ /\ pc[c] = "granted"
        /\ pc' = [pc EXCEPT ![c] = "operation"]
        /\ budget' = [budget EXCEPT ![c] = 0]
        /\ UNCHANGED timer
     \/ pc[c] = "refused" /\ budget[c] = 0 /\ Idle(c)
     \/ pc[c] = "refused" /\ budget[c] > 0 /\ Sleep(c)
  /\ UNCHANGED <<server, history>>

\* The clock is read again.
Wake(c) ==
  /\ pc[c] = "sleep"
  /\ timer[c] = 0
  /\ pc' = [pc EXCEPT ![c] = "sent"]
  /\ UNCHANGED <<server, timer, budget, history>>

\* The operation is over: release() sends its script.
Finish(c) ==
  /\ pc[c] = "operation"
  /\ pc' = [pc EXCEPT ![c] = "releasing"]
  /\ UNCHANGED <<server, timer, budget, history>>

\* A failure try_acquire catches (OSError): with fail_open the request is
\* allowed, whether the script was executed or not.
FailOpen(c) ==
  /\ ~FailClosed
  /\ pc[c] \in {"sent", "granted", "refused"}
  /\ budget[c] # Never
  /\ pc' = [pc EXCEPT ![c] = "operation"]
  /\ timer' = [timer EXCEPT ![c] = IF pc[c] = "granted" THEN timer[c] ELSE 0]
  /\ budget' = [budget EXCEPT ![c] = 0]
  /\ UNCHANGED <<server, history>>

\* The client is cancelled, crashes, or sees a failure that is not caught: by
\* acquire() and release() none is, by try_acquire only those above, which it
\* turns into an exception with fail_closed.  Nothing is undone at the server.
GiveUp(c) ==
  /\ pc[c] # "idle"
  /\ Idle(c)
  /\ owners' = owners \ {c}
  /\ leaked' = IF c \in owners /\ leaked < counter THEN leaked + 1 ELSE leaked
  /\ UNCHANGED <<server, granted>>

-----------------------------------------------------------------------------
(* Time *)

\* The keys expire: the places they counted are forgotten.
Expire ==
  /\ counter' = IF ttl > 1 THEN counter ELSE 0
  /\ leaked' = IF ttl > 1 THEN leaked ELSE 0

Tick ==
  /\ \A c \in At({"sent"}) : timer[c] < MaxDelay
  /\ \A c \in At(Holding) : timer[c] < MaxHold
  /\ last' = IF ttl > 1 /\ last < Old THEN last + 1 ELSE Old
  /\ ttl' = Down(ttl)
  /\ Expire
  /\ timer' = [c \in Clients |->
       IF pc[c] = "sleep" THEN Down(timer[c])
       ELSE IF pc[c] \in Holding \cup {"sent"} THEN timer[c] + 1 ELSE timer[c]]
  /\ budget' = [c \in Clients |->
       IF Waiting(c) /\ budget[c] # Never THEN Down(budget[c]) ELSE budget[c]]
  /\ granted' = Fresh(Older(granted), Span)
  /\ UNCHANGED <<pc, owners>>

Step(c) == AcquireScript(c) \/ Reply(c) \/ Wake(c) \/ Finish(c) \/ ReleaseScript(c)

Next ==
  \/ Tick
  \/ \E c \in Clients : \/ \E timeout \in 0..Never : Call(c, timeout)
                        \/ Step(c) \/ FailOpen(c) \/ GiveUp(c)

Spec == Init /\ [][Next]_vars

\* Requests and replies arrive, sleepers wake, operations end, time passes.
\* Nobody is obliged to call, and every client may give up at any time.
FairSpec == Spec /\ WF_vars(Tick) /\ \A c \in Clients : WF_vars(Step(c))

-----------------------------------------------------------------------------
(* Properties *)

TypeOK ==
  /\ last \in 0..Old
  /\ ttl \in 0..Ttl
  /\ counter \in Nat
  /\ pc \in [Clients -> Places]
  /\ timer \in [Clients -> Nat]
  /\ budget \in [Clients -> 0..Never]
  /\ owners \in SUBSET Clients
  /\ leaked \in Nat
  /\ granted \in Seq(0..Span-1)

\* The counter counts the clients that hold a place, and the places lost by
\* clients that gave up and not yet expired: no release gives back the place
\* of another ("decrements concurrency counter atomically", redis.py:149).
CounterExact == counter = Cardinality(owners) + leaked

\* The counter never counts a place that nobody holds and nobody lost, even
\* when requests are allowed without a place: no place is blocked for nothing.
NoPhantomPlace == counter <= Cardinality(owners) + leaked

\* max_concurrent: at most that many operations are in flight, wherever their
\* clients run (core.py:87).
ConcurrencyBounded == Cardinality(At({"operation"})) <= MaxConcurrent

\* Whenever a client waits, somebody is granted a place later, or it stops
\* waiting: places lost by crashed clients never block the limiter for ever.
SomebodyServed == \A c \in Clients : Waiting(c) ~> (~Waiting(c) \/ owners # {})

\* The engine implements what a limiter promises, for a period shorter than
\* the interval by the delay of a request.
Promise == INSTANCE LimiterPromise WITH
  Tasks <- Clients, paid <- {}, inFlight <- At(Holding)
ImplementsPromise == Promise!Spec
=============================================================================

------------------------- MODULE RedisWindowPromise -------------------------
(***************************************************************************)
(* What callers of the sliding window on Redis see of it: RedisWindow      *)
(* counts a grant by the time its request carries; here a history variable *)
(* adds when the script granted it, and what a limiter promises is stated  *)
(* for those moments.                                                      *)
(***************************************************************************)
EXTENDS RedisWindow

VARIABLE served   \* history variable: ages of the grants made in the last Span ticks,
                  \* oldest first

\* A grant made in the last Span ticks carries a time of the window.
Span == IF MaxDelay < Window THEN Window - MaxDelay ELSE 0

\* The script of a client grants a place.  The other engine grants none.
Grants(c) == CountsPlaces /\ pc[c] = "sent" /\ pc'[c] = "granted"

ServedInit == Init /\ served = <<>>

ServedTick == Tick /\ served' = Fresh(Older(served), Span)

ServedStep ==
  \/ Reset /\ served' = <<>>
  \/ \E stamp \in 0..MaxDelay : CleanState(stamp) /\ UNCHANGED served
  \/ \E c \in Clients :
       \/ \E timeout \in 0..Never : Call(c, timeout) /\ UNCHANGED served
       \/ Step(c) /\ served' = IF Grants(c) THEN Grant(served, Span) ELSE served
       \/ (FailOpen(c) \/ GiveUp(c)) /\ UNCHANGED served

ServedNext == ServedTick \/ ServedStep

ServedSpec == ServedInit /\ [][ServedNext]_<<vars, served>>

-----------------------------------------------------------------------------
(* Properties *)

Undisturbed == failClosed /\ ~wasReset

\* The sliding window of the Redis engine does what a limiter promises, until
\* somebody resets the group, unless requests are allowed on failures: no Span
\* ticks see more grants than the limit, and an operation starts only in a free
\* place.
Promise == INSTANCE LimiterPromise WITH
  Tasks <- Clients, Quota <- Limit, granted <- served, paid <- {}, inFlight <- At(Holding)
KeepsPromise ==
  /\ Promise!Init
  /\ [][CountsPlaces /\ Undisturbed' => Promise!Next]_(Promise!vars)
=============================================================================

-------------------------- MODULE LimiterPromise --------------------------
(***************************************************************************)
(* What a rate limiter promises its callers (core.py, RateLimiter): an     *)
(* operation starts only after it was granted a rate slot of its own, at   *)
(* most Quota rate slots are granted in any Span consecutive ticks, and at *)
(* most MaxConcurrent operations are in flight.  The engines are shown to  *)
(* implement this module.                                                  *)
(***************************************************************************)
EXTENDS Ages

CONSTANTS Tasks,          \* the callers
          Span,           \* length, in ticks, of the period the rate is counted over
          Quota,          \* rate slots that may be granted in one Span
          MaxConcurrent   \* operations that may be in flight together

VARIABLES granted,    \* ages of the rate slots granted in the last Span ticks
          paid,       \* callers with a rate slot who have not started yet
          inFlight    \* callers whose operation is in progress

vars == <<granted, paid, inFlight>>

Init ==
  /\ granted = <<>>
  /\ paid = {}
  /\ inFlight = {}

\* One more rate slot now; legal only while the period holds fewer than Quota.
GrantRate ==
  /\ Span > 0 => Len(granted) < Quota
  /\ granted' = Grant(granted, Span)

Pay(t) ==
  /\ t \notin paid \cup inFlight
  /\ GrantRate
  /\ paid' = paid \cup {t}
  /\ UNCHANGED inFlight

\* The caller had its rate slot, and takes one of the MaxConcurrent places.
Start(t) ==
  /\ t \in paid
  /\ Cardinality(inFlight) < MaxConcurrent
  /\ paid' = paid \ {t}
  /\ inFlight' = inFlight \cup {t}
  /\ UNCHANGED granted

PayAndStart(t) ==
  /\ t \notin paid \cup inFlight
  /\ GrantRate
  /\ Cardinality(inFlight) < MaxConcurrent
  /\ inFlight' = inFlight \cup {t}
  /\ UNCHANGED paid

\* A rate slot is spent without an operation: the caller gave up, or was
\* refused a place after it had been granted the rate.
Waste(t) ==
  /\ t \in paid
  /\ paid' = paid \ {t}
  /\ UNCHANGED <<granted, inFlight>>

PayAndWaste ==
  /\ GrantRate
  /\ UNCHANGED <<paid, inFlight>>

Finish(t) ==
  /\ t \in inFlight
  /\ inFlight' = inFlight \ {t}
  /\ UNCHANGED <<granted, paid>>

Tick ==
  /\ granted' = Fresh(Older(granted), Span)
  /\ UNCHANGED <<paid, inFlight>>

Next ==
  \/ Tick
  \/ PayAndWaste
  \/ \E t \in Tasks : Pay(t) \/ Start(t) \/ PayAndStart(t) \/ Waste(t) \/ Finish(t)

Spec == Init /\ [][Next]_vars
===========================================================================

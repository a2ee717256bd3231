--------------------------- MODULE PostgresPromise ---------------------------
(***************************************************************************)
(* What callers of the PostgreSQL engine see of it: PostgresLimiter counts *)
(* a grant by the time its client read before it waited for a connection;  *)
(* here a history variable adds when the statement was executed, and what  *)
(* a limiter promises is stated for those moments.                         *)
(***************************************************************************)
EXTENDS PostgresLimiter

VARIABLE served   \* history variable: ages of the grants made in the last Span ticks,
                  \* oldest first

\* A grant made in the last Span ticks carries a time that still counts.
BucketSpan == IF MaxWait < Required THEN Required - MaxWait ELSE 0
WindowSpan == Window - MaxWait + 1
Span       == IF TokenBucket THEN BucketSpan ELSE WindowSpan

\* The statement of a client grants.
Grants(c) == pc[c] # "granted" /\ pc'[c] = "granted"

ServedInit == Init /\ served = <<>>

ServedTick == Tick /\ served' = Fresh(Older(served), Span)

ServedStep ==
  \/ (ResetRow \/ ResetWindow) /\ served' = <<>>
  \/ \E c \in Clients :
       \/ \E timeout \in 0..Never : Call(c, timeout) /\ UNCHANGED served
       \/ Step(c) /\ served' = IF Grants(c) THEN Grant(served, Span) ELSE served
       \/ (FailOpen(c) \/ GiveUp(c)) /\ UNCHANGED served

ServedNext == ServedTick \/ ServedStep

ServedSpec == ServedInit /\ [][ServedNext]_<<vars, served>>

-----------------------------------------------------------------------------
(* Properties *)

Bucket == INSTANCE LimiterPromise WITH
  Tasks <- Clients, Span <- BucketSpan, Quota <- 1,
  granted <- served, paid <- {}, inFlight <- At(Holding)
Sliding == INSTANCE LimiterPromise WITH
  Tasks <- Clients, Span <- WindowSpan, Quota <- Limit,
  granted <- served, paid <- {}, inFlight <- At(Holding)

AsPromised == failClosed /\ resetting = "no"

\* The PostgreSQL engine does what a limiter promises, with either algorithm, until
\* somebody resets the group, unless requests are allowed on failures.
KeepsPromise ==
  /\ Bucket!Init
  /\ [][AsPromised' => IF TokenBucket THEN Bucket!Next ELSE Sliding!Next]_(Bucket!vars)
=============================================================================

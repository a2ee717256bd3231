-------------------------- MODULE RedisWindowViewer --------------------------
(***************************************************************************)
(* get_state() of the sliding windows on Redis, called in another process  *)
(* than those of the clients.  The Redis engine removes old members,       *)
(* counts those left and reads the counter, in three requests; the engine  *)
(* that only counts grants reads its clock and counts in one.  The clients *)
(* go on between the requests.                                             *)
(***************************************************************************)
EXTENDS RedisWindowPromise

VARIABLES
  view,     \* get_state is away, has read the clock, has cleaned the window, has
            \* counted its members, or has answered allowed
  clock,    \* age of the time it read
  failed,   \* its answer was given on a failure
  wasFree   \* history variable: at some moment since it was called an acquire of that
            \* moment would have been granted

viewing == <<view, clock, failed, wasFree>>

\* An acquire whose script is executed as soon as it reads its clock is granted.
Free ==
  /\ Total(Prune(window, 0), 0..Top-1) < Limit
  /\ CountsPlaces => counter < MaxConcurrent

ViewInit ==
  /\ ServedInit
  /\ view = "away"
  /\ clock = 0
  /\ failed = FALSE
  /\ wasFree = FALSE

\* It reads on, with a time and what the history tells, or is done.
Turn(place, age, free) ==
  /\ view' = place
  /\ clock' = age
  /\ failed' = FALSE
  /\ wasFree' = (place # "away" /\ free)

\* The clock is read.
StateAsks ==
  /\ view = "away"
  /\ Turn("asked", 0, Free)
  /\ UNCHANGED <<vars, served>>

\* ZREMRANGEBYSCORE
StateCleans ==
  /\ view = "asked"
  /\ CleanState(clock)
  /\ Turn("cleaned", 0, wasFree \/ Free')
  /\ UNCHANGED served

\* ZCARD
StateCounts ==
  /\ view = "cleaned"
  /\ Turn(IF Total(window, 0..Top-1) < Limit THEN "counted" ELSE "away", 0, wasFree)
  /\ UNCHANGED <<vars, served>>

\* Mutant: the counter is not looked at.
StatePlaces_Unread ==
  /\ view = "counted"
  /\ Turn("allowed", 0, wasFree)
  /\ UNCHANGED <<vars, served>>

\* GET of the counter
StatePlaces ==
  /\ view = "counted"
  /\ Turn(IF counter < MaxConcurrent THEN "allowed" ELSE "away", 0, wasFree)
  /\ UNCHANGED <<vars, served>>

\* The other engine: ZCOUNT of the times since the one read less the window, without
\* those after it.
StateRange ==
  LET members == {a \in 0..Top-1 : a \in clock..Window+clock} IN
  /\ view = "asked" /\ ~CountsPlaces
  /\ Turn(IF Total(window, members) < Limit THEN "allowed" ELSE "away", 0, wasFree)
  /\ UNCHANGED <<vars, served>>

\* A failure that get_state catches.
StateFails ==
  /\ view \notin {"away", "allowed"}
  /\ view' = IF failClosed THEN "away" ELSE "allowed"
  /\ clock' = 0
  /\ failed' = ~failClosed
  /\ wasFree' = FALSE
  /\ UNCHANGED <<vars, served>>

\* The caller has its answer.
StateEnds ==
  /\ view = "allowed"
  /\ Turn("away", 0, FALSE)
  /\ UNCHANGED <<vars, served>>

\* The clients take a step before it answers.
Watch(age) ==
  /\ view # "allowed"
  /\ Turn(view, age, wasFree \/ Free')

ViewNext ==
  \/ ServedTick /\ IF view = "asked" THEN clock < MaxDelay /\ Watch(clock + 1) ELSE Watch(0)
  \/ ServedStep /\ Watch(clock)
  \/ StateAsks \/ StateCleans \/ StateCounts \/ StatePlaces \/ StateRange
  \/ StateFails \/ StateEnds

ViewSpec == ViewInit /\ [][ViewNext]_<<vars, served, viewing>>

-----------------------------------------------------------------------------
(* Properties *)

\* When get_state answers allowed, an acquire would have been granted at some moment
\* since it was called, although grants, releases and its own failures come between
\* its requests: only a failure, and only with fail_open, is answered so with
\* nothing free.
AllowedWasFree == view = "allowed" => wasFree \/ (failed /\ ~failClosed)
=============================================================================

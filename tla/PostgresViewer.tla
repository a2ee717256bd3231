---------------------------- MODULE PostgresViewer ----------------------------
(***************************************************************************)
(* get_state() of the PostgreSQL engine, called in another process than    *)
(* those of the clients: it reads its clock, waits for a connection, and   *)
(* reads the row in one statement, or the window table and the row in two, *)
(* while the clients go on.                                                *)
(***************************************************************************)
EXTENDS PostgresPromise

VARIABLES
  view,     \* get_state is away, has counted the entries, or has answered allowed
  failed,   \* its answer was given on a failure
  wasFree   \* history variable: at some moment since its first statement an acquire of
            \* that moment would have been granted

viewing == <<view, failed, wasFree>>

\* An acquire that reads its clock now, with nobody ahead of it, is granted.
Free ==
  IF TokenBucket
  THEN row => (Period = 0 \/ last >= Required) /\ count < MaxConcurrent
  ELSE Total(Prune(entries, 0), 0..Expired) < Limit /\ count < MaxConcurrent

ViewInit ==
  /\ ServedInit
  /\ view = "away"
  /\ failed = FALSE
  /\ wasFree = FALSE

\* It reads on, with what the history tells, or is done.
Turn(place, free) ==
  /\ view' = place
  /\ wasFree' = (place # "away" /\ free)
  /\ failed' = FALSE

\* The one statement of the token bucket; the clock was read stamp ago.
StateRow(stamp) ==
  LET allowed == row => (Period = 0 \/ last >= stamp + Period) /\ count < MaxConcurrent IN
  /\ TokenBucket /\ view = "away"
  /\ Turn(IF allowed THEN "allowed" ELSE "away", Free)
  /\ UNCHANGED <<vars, served>>

\* Mutant: an entry on the edge of the window is not counted.
StateCount_Open(stamp) ==
  LET room == Total(entries, 0..Window+stamp-1) < Limit IN
  /\ SlidingWindow /\ view = "away"
  /\ Turn(IF room THEN "counted" ELSE "away", Free)
  /\ UNCHANGED <<vars, served>>

\* SELECT COUNT(*) ... WHERE timestamp_at >= the time read less the window
StateCount(stamp) ==
  LET room == Total(entries, 0..Window+stamp) < Limit IN
  /\ SlidingWindow /\ view = "away"
  /\ Turn(IF room THEN "counted" ELSE "away", Free)
  /\ UNCHANGED <<vars, served>>

\* SELECT concurrent_count
StatePlaces ==
  /\ view = "counted"
  /\ Turn(IF row => count < MaxConcurrent THEN "allowed" ELSE "away", wasFree)
  /\ UNCHANGED <<vars, served>>

\* A failure that get_state catches.
StateFails ==
  /\ view # "allowed"
  /\ view' = IF failClosed THEN "away" ELSE "allowed"
  /\ failed' = ~failClosed
  /\ wasFree' = FALSE
  /\ UNCHANGED <<vars, served>>

\* The caller has its answer.
StateEnds ==
  /\ view = "allowed"
  /\ Turn("away", FALSE)
  /\ UNCHANGED <<vars, served>>

\* The clients take a step before it answers.
Watch ==
  /\ view # "allowed"
  /\ Turn(view, wasFree \/ Free')

ViewNext ==
  \/ ServedNext /\ Watch
  \/ \E stamp \in 0..MaxWait : StateRow(stamp) \/ StateCount(stamp)
  \/ StatePlaces \/ StateFails \/ StateEnds

ViewSpec == ViewInit /\ [][ViewNext]_<<vars, served, viewing>>

-----------------------------------------------------------------------------
(* Properties *)

\* get_state says allowed only when, at some moment since its first statement, an
\* acquire of that moment would have been granted (although the entries and the
\* places are read in two statements), or when it failed and failures let requests
\* through.
AllowedWasFree == view = "allowed" => wasFree \/ (failed /\ ~failClosed)
=============================================================================

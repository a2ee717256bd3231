----------------------------- MODULE LimitChecks -----------------------------
(***************************************************************************)
(* The checks that ask several limiters, or turn what limiters say into an *)
(* answer: check_limiter and check_multi_limiters (registry.py), the       *)
(* strategies of CompositeRateLimiter (composite.py), and the HTTP front   *)
(* ends that ask for one identifier of a request (contrib/fastapi).        *)
(*                                                                         *)
(* A limiter is reduced to what the checks see of it: slots that are       *)
(* granted or refused without waiting (timeout 0), places that release()   *)
(* gives back and slots of a rate that it does not, and a backend that     *)
(* fails.  fail_closed reaches it by configure_limiter or, from a file, by *)
(* _load_limiters (config.py), which leaves it out.  The front ends have a *)
(* flag of their own, fail_open, for the exceptions that reach them.       *)
(***************************************************************************)
EXTENDS Integers, Sequences

CONSTANTS Tasks,   \* tasks of the event loop
          Known,   \* limiters that are configured, or whose base is
          Missing, \* ids that have no configuration
          RateIds, \* limiters of a rate; the others count places
          Lists,   \* the lists of ids that are checked
          Slots,   \* slots of each limiter
          Declared, \* limiters that are declared with fail_closed
          Origins  \* where the limiters may be configured: "code", "file"

Ids == Known \cup Missing

ASSUME ChecksAssumption ==
  /\ Known \cap Missing = {}
  /\ RateIds \subseteq Known
  /\ Declared \subseteq Known
  /\ \A list \in Lists : list \in Seq(Ids) /\ list # <<>>
  /\ Slots \in Nat \ {0}
  /\ Origins \subseteq {"code", "file"}

VARIABLES
  origin,    \* where the limiters were configured
  failOpen,  \* fail_open of the front ends
  used,      \* slots taken of each limiter
  pc,        \* where each task is in its check
  job,       \* its check; at "done", what came of it
  disturbed  \* history variable: tasks during whose multi-check another got a slot, or
             \* was in its way

config == <<origin, failOpen>>
vars == <<config, used, pc, job, disturbed>>

\* A dependency or the middleware; check_limiter; check_multi_limiters without and
\* with acquire_if_allowed; a composite in which all, or any, must pass.
Single    == {"request", "check"}
Multi     == {"peek", "multi"}
Composite == {"all", "any"}
FrontEnds == {"request"} \cup Composite
Busy == {"asking", "peeked", "reading", "taking"}
Kinds     == Single \cup Multi \cup Composite

\* A check looks at its list from left to right (at).  passed and refused say whether
\* a limiter allowed or refused it; took, how many slots of each limiter it got and
\* did not give back.  History: failed, the backend of a limiter that was declared
\* with fail_closed failed; spared, something was let through without a slot, or an
\* exception ended the check.
Jobs == [kind : Kinds, list : Lists \cup {<<>>}, at : Nat, passed : BOOLEAN, refused : BOOLEAN,
         took : [Ids -> Nat], failed : BOOLEAN, spared : BOOLEAN,
         answer : {"none", "allowed", "refused", "raised"}]
NoJob == [kind |-> "check", list |-> <<>>, at |-> 1, passed |-> FALSE, refused |-> FALSE,
          took |-> [i \in Ids |-> 0], failed |-> FALSE, spared |-> FALSE, answer |-> "none"]

Init ==
  /\ origin \in Origins
  /\ failOpen \in BOOLEAN
  /\ used = [i \in Known |-> 0]
  /\ pc = [t \in Tasks |-> "idle"]
  /\ job = [t \in Tasks |-> NoJob]
  /\ disturbed = {}

\* Mutant: the flag of the code does not reach the limiter either.
FailClosed_Never == {}

\* The limiters made with fail_closed.
FailClosed == IF origin = "file" THEN {} ELSE Declared

\* The limiter task t looks at.
Now(t) == job[t].list[job[t].at]

-----------------------------------------------------------------------------
(* How a check goes on *)

Move(t, place, j) ==
  /\ pc' = [pc EXCEPT ![t] = place]
  /\ job' = [job EXCEPT ![t] = j]

\* The answer; how far the check got and why is forgotten.
Answer(t, j, answer) ==
  Move(t, "done", [j EXCEPT !.answer = answer, !.at = 1, !.passed = FALSE, !.refused = FALSE])

\* Mutant: one limiter that allows is enough for every kind.
Verdict_Any(j) == j.passed

\* Whether a check is allowed after its limiters were asked.
Verdict(j) == IF j.kind = "any" THEN j.passed ELSE ~j.refused

\* Mutant: the second pass acquires also when a limiter refused.
SecondPass_Always(t, j) == j.kind = "multi" /\ pc[t] # "taking"

\* All allowed: check_multi_limiters goes through the list again to acquire.
SecondPass(t, j) == j.kind = "multi" /\ pc[t] # "taking" /\ Verdict(j)

\* The next limiter of the list, or the answer.
GoOn(t, j) ==
  IF j.at < Len(j.list)
  THEN Move(t, IF pc[t] = "taking" THEN "taking" ELSE "asking", [j EXCEPT !.at = @ + 1])
  ELSE IF SecondPass(t, j)
  THEN Move(t, "taking", [j EXCEPT !.at = 1])
  ELSE Answer(t, j, IF Verdict(j) THEN "allowed" ELSE "refused")

\* A limiter allows or refuses; in the second pass that is not looked at.
Allow(j)     == [j EXCEPT !.passed = TRUE]
Refuse(t, j) == IF pc[t] = "taking" THEN j ELSE [j EXCEPT !.refused = TRUE]
Spare(j)     == [j EXCEPT !.spared = TRUE]

\* An exception ends the check.  The HTTP front ends let the request through if they
\* were made with fail_open, but for a cancellation.
Raise(t, j) ==
  \/ Answer(t, Spare(j), "raised")
  \/ failOpen /\ j.kind \in FrontEnds /\ Answer(t, Spare(j), "allowed")

-----------------------------------------------------------------------------
(* Actions *)

Call(t, kind, list) ==
  /\ pc[t] = "idle"
  /\ kind \in Single => Len(list) = 1
  /\ Move(t, "asking", [NoJob EXCEPT !.kind = kind, !.list = list])
  /\ UNCHANGED <<config, used, disturbed>>

\* The answer is returned.
Return(t) ==
  /\ pc[t] = "done"
  /\ Move(t, "idle", NoJob)
  /\ disturbed' = disturbed \ {t}
  /\ UNCHANGED <<config, used>>

Asking(t) == pc[t] \in {"asking", "taking"} /\ Now(t) \in Known

\* Mutant: a slot is given without a look at those taken.
Free_Always(i) == TRUE

Free(i) == used[i] < Slots

\* try_acquire gets a slot.  A first look gives it back; a composite then reads the
\* state of the limiter.
Grant(t) ==
  LET j == Allow([job[t] EXCEPT !.took[Now(t)] = @ + 1]) IN
  /\ Asking(t)
  /\ Free(Now(t))
  /\ used' = [used EXCEPT ![Now(t)] = @ + 1]
  /\ disturbed' = disturbed \cup {u \in Tasks \ {t} : pc[u] \in Busy /\ job[u].kind = "multi"}
  /\ \/ pc[t] = "asking" /\ j.kind \in Multi /\ Move(t, "peeked", j)
     \/ j.kind \in Composite /\ Move(t, "reading", j)
     \/ (pc[t] = "taking" \/ j.kind \in Single) /\ GoOn(t, j)
  /\ UNCHANGED config

\* It gets none: there is none, or another task is in the way (the lock of an
\* in-process limiter is taken, the row was changed since it was read).  A composite
\* reads the state all the same.
Deny(t) ==
  /\ Asking(t)
  /\ IF job[t].kind \in Composite
     THEN Move(t, "reading", Refuse(t, job[t]))
     ELSE GoOn(t, Refuse(t, job[t]))
  /\ disturbed' = IF Free(Now(t)) THEN disturbed \cup {t} ELSE disturbed
  /\ UNCHANGED <<config, used>>

\* Mutant: the first look of check_multi_limiters keeps the slot.
GiveBack_Kept(t) ==
  /\ pc[t] = "peeked"
  /\ GoOn(t, job[t])
  /\ UNCHANGED <<config, used, disturbed>>

\* release() after the first look; it changes nothing of a limiter of a rate.
GiveBack(t) ==
  /\ pc[t] = "peeked"
  /\ IF Now(t) \in RateIds
     THEN GoOn(t, job[t]) /\ UNCHANGED used
     ELSE /\ used' = [used EXCEPT ![Now(t)] = IF @ = 0 THEN 0 ELSE @ - 1]
          /\ GoOn(t, [job[t] EXCEPT !.took[Now(t)] = @ - 1])
  /\ UNCHANGED <<config, disturbed>>

\* A composite has read the state.
StateRead(t) ==
  /\ pc[t] = "reading"
  /\ GoOn(t, job[t])
  /\ UNCHANGED <<config, used, disturbed>>

\* The backend of the limiter fails.
Failing(t) == [job[t] EXCEPT !.failed = @ \/ Now(t) \in Declared]

\* It fails in a way the engine expects: it lets the caller through, or raises
\* RateLimiterAcquisitionError, which only a composite takes for a failure.  The
\* second pass of check_multi_limiters looks at nothing.
BackendFails(t) ==
  /\ Asking(t)
  /\ \/ Now(t) \notin FailClosed /\ job[t].kind \in Composite
        /\ Move(t, "reading", Spare(Allow(Failing(t))))
     \/ pc[t] = "taking" /\ GoOn(t, Spare(Allow(job[t])))
     \/ Now(t) \notin FailClosed /\ pc[t] = "asking" /\ job[t].kind \notin Composite
        /\ GoOn(t, Spare(Allow(Failing(t))))
     \/ Now(t) \in FailClosed /\ job[t].kind \in Composite /\ Raise(t, Failing(t))
     \/ Now(t) \in FailClosed /\ pc[t] = "asking" /\ job[t].kind \notin Composite
        /\ GoOn(t, Refuse(t, Failing(t)))
  /\ UNCHANGED <<config, used, disturbed>>

\* Any other exception: initialize() fails, an error of the driver that the engine
\* does not catch, the state cannot be read, a release fails.
OtherFailure(t) ==
  /\ pc[t] \in {"peeked", "reading"} \/ Asking(t)
  /\ Raise(t, Failing(t))
  /\ UNCHANGED <<config, used, disturbed>>

\* LimiterNotFoundError: a request and check_multi_limiters let it pass.
NotFound(t) ==
  /\ pc[t] \in {"asking", "taking"}
  /\ Now(t) \in Missing
  /\ IF job[t].kind \in Multi \cup {"request"}
     THEN GoOn(t, Spare(Allow(job[t])))
     ELSE Raise(t, job[t])
  /\ UNCHANGED <<config, used, disturbed>>

\* The window passes, or the keys of the limiter expire at the server.
Forget(i) ==
  /\ used[i] > 0
  /\ used' = [used EXCEPT ![i] = 0]
  /\ UNCHANGED <<config, pc, job, disturbed>>

-----------------------------------------------------------------------------
Next ==
  \/ \E t \in Tasks :
       \/ \E kind \in Kinds, list \in Lists : Call(t, kind, list)
       \/ Return(t) \/ Grant(t) \/ Deny(t) \/ GiveBack(t) \/ StateRead(t)
       \/ BackendFails(t) \/ OtherFailure(t) \/ NotFound(t)
  \/ \E i \in Known : Forget(i)

Spec == Init /\ [][Next]_vars

-----------------------------------------------------------------------------
(* Properties *)

TypeOK ==
  /\ origin \in Origins
  /\ failOpen \in BOOLEAN
  /\ used \in [Known -> 0..Slots]
  /\ pc \in [Tasks -> {"idle", "done"} \cup Busy]
  /\ job \in [Tasks -> Jobs]
  /\ \A t \in Tasks : pc[t] \in Busy => job[t].at \in 1..Len(job[t].list)
  /\ disturbed \in SUBSET Tasks

Listed(j) == {j.list[k] : k \in 1..Len(j.list)}
Answered(kinds) == {t \in Tasks : pc[t] = "done" /\ job[t].kind \in kinds}

\* Unless something failed or was not configured, what is allowed was granted by
\* every limiter it names, or by one of them where any must pass.
AllowedWasGranted ==
  \A t \in Answered(Kinds \ Multi) :
    LET j == job[t] IN
    j.answer = "allowed" /\ ~j.spared =>
      IF j.kind = "any" THEN \E i \in Listed(j) : j.took[i] > 0
                        ELSE \A i \in Listed(j) : j.took[i] > 0

\* A check that was refused, or was only a look, keeps no place of any limiter:
\* check_multi_limiters acquires from none of them then.  (It does keep the slots of
\* a rate that its first look consumed, and a composite keeps what it took.)
RefusedKeepsNoPlace ==
  \A t \in Answered(Multi) :
    LET j == job[t] IN
    j.answer = "refused" \/ (j.kind = "peek" /\ j.answer = "allowed") =>
      \A i \in Known \ RateIds : j.took[i] = 0

\* check_multi_limiters acquires from all limiters it allows, as long as they count
\* places and no other task gets a slot between its two passes or is in its way.
UndisturbedTakesAll ==
  \A t \in Answered({"multi"}) \ disturbed :
    LET j == job[t] IN
    j.answer = "allowed" /\ ~j.spared => \A i \in Listed(j) \ RateIds : j.took[i] = 1

\* A limiter declared with fail_closed blocks the requests and checks that ask it
\* when its backend fails, in whatever way: "fail_closed: If True, blocks requests when
\* backend fails" (registry.py:161).  Only a front end made with fail_open, which is
\* the default, lets through what an exception ends.  The second pass of
\* check_multi_limiters, which gives no answer, is not meant.
DeclaredBlocks ==
  \A t \in Answered(Kinds) :
    job[t].failed /\ job[t].answer = "allowed" => failOpen /\ job[t].kind \in FrontEnds

\* So it does when it was declared in the code: in this package, by a call of
\* configure_limiter (registry.py:134).
CodeBlocks == origin = "code" => DeclaredBlocks

\* "If acquire_if_allowed is True, acquires from ALL limiters only if ALL of them
\* allow the request.  Otherwise, none are acquired." (check_multi_limiters,
\* registry.py:913)  The first pass consumes slots, the second ignores refusals.
AllOrNothing ==
  \A t \in Answered({"multi"}) :
    LET j == job[t] IN
    ~j.spared /\ ~j.failed =>
      /\ j.answer = "allowed" => \A i \in Listed(j) : j.took[i] > 0
      /\ j.answer = "refused" => \A i \in Listed(j) : j.took[i] = 0
=============================================================================

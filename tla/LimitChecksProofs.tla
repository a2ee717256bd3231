------------------------- MODULE LimitChecksProofs -------------------------
(***************************************************************************)
(* Theorems about the checks, for every number of tasks, limiters and      *)
(* slots, and every set of lists.                                          *)
(***************************************************************************)
EXTENDS LimitChecks, TLAPS

Places == {"idle", "done"} \cup Busy

\* Of what was looked at so far, the first n limiters of the list, what a check
\* that is not spared goes by was granted.
GrantedTo(j, n) ==
  ~j.spared =>
    /\ j.kind \in Single \cup {"all"} /\ ~j.refused => \A m \in 1..n : j.took[j.list[m]] > 0
    /\ j.kind = "any" /\ j.passed => \E m \in 1..n : j.took[j.list[m]] > 0

NoPlaces(j) == \A i \in Known \ RateIds : j.took[i] = 0

\* A check that goes on, with what it looks at now still to be counted or not.
Looks(place, j) ==
  /\ j.at \in 1..Len(j.list)
  /\ j.kind \in Single => Len(j.list) = 1
  /\ place = "peeked" => j.kind \in Multi
  /\ place = "reading" => j.kind \in Composite
  /\ place = "taking" => j.kind = "multi" /\ ~j.refused
  /\ origin = "code" /\ j.failed => j.refused /\ j.kind \in Multi
  /\ place = "asking" => GrantedTo(j, j.at - 1)
  /\ place = "reading" => GrantedTo(j, j.at)
  /\ place = "asking" /\ j.kind \in Multi => NoPlaces(j)
  /\ place = "peeked" => /\ j.took[j.list[j.at]] > 0
                         /\ \A i \in Known \ RateIds :
                              j.took[i] = IF i = j.list[j.at] THEN 1 ELSE 0

\* A check that was answered.
Holds(j) ==
  /\ j.kind \notin Multi /\ j.answer = "allowed" /\ ~j.spared =>
       IF j.kind = "any" THEN \E i \in Listed(j) : j.took[i] > 0
                         ELSE \A i \in Listed(j) : j.took[i] > 0
  /\ j.kind \in Multi /\ (j.answer = "refused" \/ (j.kind = "peek" /\ j.answer = "allowed")) =>
       NoPlaces(j)
  /\ origin = "code" /\ j.failed /\ j.answer = "allowed" => failOpen /\ j.kind \in FrontEnds

Good(place, j) == /\ place \in Busy => Looks(place, j)
                  /\ place = "done" => Holds(j)

TaskInv == \A t \in Tasks : Good(pc[t], job[t])

-----------------------------------------------------------------------------
(* Lists and moves *)

LEMMA ListElements ==
  ASSUME NEW list \in Lists
  PROVE  /\ Len(list) \in Nat \ {0}
         /\ \A n \in 1..Len(list) : list[n] \in Ids
<1>1. list \in Seq(Ids) /\ list # <<>>
  BY ChecksAssumption DEF ChecksAssumption
<1> QED
  BY <1>1

LEMMA JobFields ==
  ASSUME NEW j \in Jobs
  PROVE  /\ j.kind \in Kinds /\ j.list \in Lists \cup {<<>>} /\ j.at \in Nat
         /\ j.passed \in BOOLEAN /\ j.refused \in BOOLEAN /\ j.took \in [Ids -> Nat]
         /\ j.failed \in BOOLEAN /\ j.spared \in BOOLEAN
         /\ j.answer \in {"none", "allowed", "refused", "raised"}
BY DEF Jobs

\* A busy check has a list, and looks at an id.
LEMMA BusyList ==
  ASSUME NEW j \in Jobs, j.at \in 1..Len(j.list)
  PROVE  /\ j.list \in Lists /\ Len(j.list) \in Nat \ {0} /\ j.list[j.at] \in Ids
         /\ \A n \in 1..Len(j.list) : j.list[n] \in Ids
<1>1. j.list # <<>>
  BY DEF Jobs
<1>2. j.list \in Lists
  BY <1>1, JobFields
<1> QED
  BY <1>2, ListElements

LEMMA Moves ==
  ASSUME TypeOK, TaskInv, NEW t \in Tasks, NEW place \in Places, NEW j \in Jobs,
         Move(t, place, j), UNCHANGED config, Good(place, j)
  PROVE  /\ TaskInv'
         /\ pc' \in [Tasks -> Places] /\ job' \in [Tasks -> Jobs]
         /\ pc'[t] = place /\ job'[t] = j
         /\ \A u \in Tasks \ {t} : pc'[u] = pc[u] /\ job'[u] = job[u]
         /\ \A u \in Tasks : pc'[u] \in Busy => job'[u].at \in 1..Len(job'[u].list)
<1>1. pc \in [Tasks -> Places] /\ job \in [Tasks -> Jobs]
  BY DEF TypeOK, Places
<1>2. pc' = [pc EXCEPT ![t] = place] /\ job' = [job EXCEPT ![t] = j]
  BY DEF Move
<1>3. /\ pc' \in [Tasks -> Places] /\ job' \in [Tasks -> Jobs]
      /\ pc'[t] = place /\ job'[t] = j
      /\ \A u \in Tasks \ {t} : pc'[u] = pc[u] /\ job'[u] = job[u]
  BY <1>1, <1>2
<1>4. \A u \in Tasks : Good(pc'[u], job'[u])
  BY <1>3 DEF TaskInv
<1>5. TaskInv'
  <2>1. \A u \in Tasks : Good(pc[u], job[u])'
    BY <1>4 DEF config, Good, Looks, Holds, NoPlaces, GrantedTo, Listed
  <2> QED
    BY <2>1 DEF TaskInv
<1>6. \A u \in Tasks : pc'[u] \in Busy => job'[u].at \in 1..Len(job'[u].list)
  BY <1>4 DEF Good, Looks
<1> QED
  BY <1>3, <1>5, <1>6

\* The answer keeps what the check got and forgets the rest.
LEMMA AnswerMoves ==
  ASSUME NEW t \in Tasks, NEW j \in Jobs, NEW answer \in {"allowed", "refused", "raised"},
         Answer(t, j, answer)
  PROVE  \E k \in Jobs :
           /\ Move(t, "done", k)
           /\ k.kind = j.kind /\ k.list = j.list /\ k.took = j.took
           /\ k.failed = j.failed /\ k.spared = j.spared /\ k.answer = answer
<1> DEFINE k == [j EXCEPT !.answer = answer, !.at = 1, !.passed = FALSE, !.refused = FALSE]
<1>1. /\ k \in Jobs /\ k.kind = j.kind /\ k.list = j.list /\ k.took = j.took
      /\ k.failed = j.failed /\ k.spared = j.spared /\ k.answer = answer
  BY DEF Jobs
<1>2. Move(t, "done", k)
  BY DEF Answer
<1> HIDE DEF k
<1> QED
  BY <1>1, <1>2

\* The next limiter, the second pass, or the answer.
LEMMA GoOnGood ==
  ASSUME NEW t \in Tasks, NEW j \in Jobs, GoOn(t, j),
         j.at \in 1..Len(j.list),
         j.kind \in Single => Len(j.list) = 1,
         pc[t] = "taking" => j.kind = "multi" /\ ~j.refused,
         origin = "code" /\ j.failed => j.refused /\ j.kind \notin Composite,
         j.kind \notin Multi => GrantedTo(j, j.at),
         pc[t] # "taking" /\ j.kind \in Multi => NoPlaces(j)
  PROVE  \E place \in Places, k \in Jobs : Move(t, place, k) /\ Good(place, k)
<1>1. /\ Len(j.list) \in Nat \ {0} /\ j.at \in Nat /\ j.kind \in Kinds
      /\ \A n \in 1..Len(j.list) : j.list[n] \in Ids
  BY BusyList, JobFields
<1>2. {"asking", "taking", "done"} \subseteq Places /\ {"asking", "taking"} \subseteq Busy
      /\ "done" \notin Busy
  BY DEF Places, Busy
<1>3. CASE j.at < Len(j.list)
  <2> DEFINE k == [j EXCEPT !.at = @ + 1]
             place == IF pc[t] = "taking" THEN "taking" ELSE "asking"
  <2>1. /\ k \in Jobs /\ k.at = j.at + 1 /\ k.kind = j.kind /\ k.list = j.list
        /\ k.passed = j.passed /\ k.refused = j.refused /\ k.took = j.took
        /\ k.failed = j.failed /\ k.spared = j.spared
    BY DEF Jobs
  <2>2. Move(t, place, k)
    BY <1>3 DEF GoOn
  <2>3. place \in Places /\ place \in {"asking", "taking"} /\ (place = "taking" <=> pc[t] = "taking")
    BY <1>2
  <2> HIDE DEF k, place
  <2>4. k.at \in 1..Len(k.list) /\ k.at - 1 = j.at
    BY <1>1, <1>3, <2>1
  <2>5. j.kind \notin Single
    BY <1>1, <1>3
  <2>6. GrantedTo(k, k.at - 1)
    <3>1. CASE j.kind \in Multi
      BY <2>1, <3>1 DEF GrantedTo, Multi, Single
    <3>2. CASE j.kind \notin Multi
      BY <2>1, <2>4, <3>2 DEF GrantedTo
    <3> QED
      BY <3>1, <3>2
  <2>7. Looks(place, k)
    BY <1>1, <2>1, <2>3, <2>4, <2>5, <2>6 DEF Looks, NoPlaces, Kinds, Multi
  <2> QED
    BY <2>1, <2>2, <2>3, <2>7 DEF Good
<1>4. CASE j.at >= Len(j.list) /\ SecondPass(t, j)
  <2> DEFINE k == [j EXCEPT !.at = 1]
  <2>1. /\ k \in Jobs /\ k.at = 1 /\ k.kind = j.kind /\ k.list = j.list
        /\ k.refused = j.refused /\ k.failed = j.failed
    BY DEF Jobs
  <2>2. Move(t, "taking", k)
    BY <1>1, <1>4 DEF GoOn
  <2> HIDE DEF k
  <2>3. j.kind = "multi" /\ ~j.refused
    BY <1>4 DEF SecondPass, Verdict
  <2>4. Looks("taking", k)
    BY <1>1, <2>1, <2>3 DEF Looks, Single, Multi
  <2> QED
    BY <1>2, <2>1, <2>2, <2>4 DEF Good
<1>5. CASE j.at >= Len(j.list) /\ ~SecondPass(t, j)
  <2> DEFINE answer == IF Verdict(j) THEN "allowed" ELSE "refused"
  <2>1. Answer(t, j, answer)
    BY <1>1, <1>5 DEF GoOn
  <2>2. answer \in {"allowed", "refused", "raised"} /\ (answer = "allowed" <=> Verdict(j))
    OBVIOUS
  <2> HIDE DEF answer
  <2>3. PICK k \in Jobs :
           /\ Move(t, "done", k)
           /\ k.kind = j.kind /\ k.list = j.list /\ k.took = j.took
           /\ k.failed = j.failed /\ k.spared = j.spared /\ k.answer = answer
    BY <2>1, <2>2, AnswerMoves
  <2>4. j.at = Len(j.list)
    BY <1>1, <1>5
  <2>5. Listed(k) = {j.list[n] : n \in 1..j.at}
    BY <2>3, <2>4 DEF Listed
  <2>6. ASSUME k.kind \notin Multi, k.answer = "allowed", ~k.spared
        PROVE  IF k.kind = "any" THEN \E i \in Listed(k) : k.took[i] > 0
                                 ELSE \A i \in Listed(k) : k.took[i] > 0
    <3>1. Verdict(j) /\ GrantedTo(j, j.at) /\ ~j.spared /\ j.kind \in Single \cup {"all", "any"}
      BY <1>1, <2>2, <2>3, <2>6 DEF Kinds, Composite
    <3>2. CASE j.kind = "any"
      BY <2>3, <2>5, <3>1, <3>2 DEF Verdict, GrantedTo
    <3>3. CASE j.kind # "any"
      BY <2>3, <2>5, <3>1, <3>3 DEF Verdict, GrantedTo
    <3> QED
      BY <2>3, <3>2, <3>3
  <2>7. ASSUME k.kind \in Multi, k.answer = "refused" \/ (k.kind = "peek" /\ k.answer = "allowed")
        PROVE  NoPlaces(k)
    <3>1. pc[t] # "taking"
      BY <2>2, <2>3, <2>7 DEF Verdict
    <3> QED
      BY <2>3, <2>7, <3>1 DEF NoPlaces
  <2>8. ASSUME origin = "code", k.failed PROVE k.answer # "allowed"
    BY <2>2, <2>3, <2>8 DEF Verdict, Composite
  <2>9. Holds(k)
    BY <2>6, <2>7, <2>8 DEF Holds
  <2> QED
    BY <1>2, <2>3, <2>9 DEF Good
<1> QED
  BY <1>1, <1>3, <1>4, <1>5

\* An exception leaves a check raised, or let through by its front end.
LEMMA RaisedGood ==
  ASSUME NEW t \in Tasks, NEW j \in Jobs, NEW answer \in {"allowed", "refused", "raised"},
         Answer(t, j, answer), j.spared = TRUE,
         answer = "raised" \/ (answer = "allowed" /\ failOpen /\ j.kind \in FrontEnds)
  PROVE  \E place \in Places, k \in Jobs : Move(t, place, k) /\ Good(place, k)
<1>1. PICK k \in Jobs :
        /\ Move(t, "done", k)
        /\ k.kind = j.kind /\ k.list = j.list /\ k.took = j.took
        /\ k.failed = j.failed /\ k.spared = j.spared /\ k.answer = answer
  BY AnswerMoves
<1>2. Holds(k)
  BY <1>1 DEF Holds, FrontEnds, Composite, Multi
<1> QED
  BY <1>1, <1>2 DEF Good, Places, Busy

LEMMA RaiseGood ==
  ASSUME NEW t \in Tasks, NEW j \in Jobs, Raise(t, j)
  PROVE  \E place \in Places, k \in Jobs : Move(t, place, k) /\ Good(place, k)
<1>1. Spare(j) \in Jobs /\ Spare(j).kind = j.kind /\ Spare(j).spared
  BY DEF Spare, Jobs
<1>2. PICK s \in Jobs, answer \in {"allowed", "raised"} :
        /\ Answer(t, s, answer) /\ s.spared
        /\ answer = "raised" \/ (answer = "allowed" /\ failOpen /\ s.kind \in FrontEnds)
  BY <1>1 DEF Raise
<1>3. answer \in {"allowed", "refused", "raised"} /\ s.spared = TRUE
  BY <1>2, JobFields
<1> QED
  BY <1>2, <1>3, RaisedGood

\* What a step of one check has to show.
LEMMA StepGood ==
  ASSUME TypeOK, TaskInv, NEW t \in Tasks, UNCHANGED config,
         \E place \in Places, k \in Jobs : Move(t, place, k) /\ Good(place, k),
         used' \in [Known -> 0..Slots], disturbed' \in SUBSET Tasks
  PROVE  TypeOK' /\ TaskInv'
<1>1. PICK place \in Places, k \in Jobs : Move(t, place, k) /\ Good(place, k)
  OBVIOUS
<1>2. /\ TaskInv' /\ pc' \in [Tasks -> Places] /\ job' \in [Tasks -> Jobs]
      /\ \A u \in Tasks : pc'[u] \in Busy => job'[u].at \in 1..Len(job'[u].list)
  BY <1>1, Moves
<1>3. origin' \in Origins /\ failOpen' \in BOOLEAN
  BY DEF TypeOK, config
<1> QED
  BY <1>2, <1>3 DEF TypeOK, Places

LEMMA BusyJob ==
  ASSUME TypeOK, TaskInv, NEW t \in Tasks, pc[t] \in Busy
  PROVE  job[t] \in Jobs /\ Looks(pc[t], job[t]) /\ Now(t) \in Ids
<1>1. job[t] \in Jobs /\ job[t].at \in 1..Len(job[t].list)
  BY DEF TypeOK
<1>2. Looks(pc[t], job[t])
  BY DEF TaskInv, Good
<1> QED
  BY <1>1, <1>2, BusyList DEF Now

LEMMA SharedParts ==
  ASSUME TypeOK
  PROVE  used \in [Known -> 0..Slots] /\ disturbed \in SUBSET Tasks /\ Slots \in Nat \ {0}
BY ChecksAssumption DEF TypeOK, ChecksAssumption

-----------------------------------------------------------------------------
(* One lemma per action *)

LEMMA CallGood ==
  ASSUME TypeOK, TaskInv, NEW t \in Tasks, NEW kind \in Kinds, NEW list \in Lists,
         Call(t, kind, list)
  PROVE  TypeOK' /\ TaskInv'
<1> DEFINE k == [NoJob EXCEPT !.kind = kind, !.list = list]
<1>1. /\ k \in Jobs /\ k.kind = kind /\ k.list = list /\ k.at = 1
      /\ ~k.passed /\ ~k.refused /\ ~k.failed /\ k.took = [i \in Ids |-> 0]
  BY DEF NoJob, Jobs, Kinds, Single
<1>2. kind \in Single => Len(list) = 1
  BY DEF Call
<1> HIDE DEF k
<1>3. Len(list) \in Nat \ {0}
  BY ListElements
<1>4. GrantedTo(k, k.at - 1)
  BY <1>1 DEF GrantedTo
<1>5. NoPlaces(k)
  BY <1>1 DEF NoPlaces, Ids
<1>6. Looks("asking", k)
  BY <1>1, <1>2, <1>3, <1>4, <1>5 DEF Looks
<1>7. Move(t, "asking", k) /\ UNCHANGED <<config, used, disturbed>>
  BY DEF Call, k
<1>8. "asking" \in Places /\ Good("asking", k)
  BY <1>6 DEF Good, Places, Busy
<1> QED
  BY <1>1, <1>7, <1>8, StepGood, SharedParts

LEMMA ReturnGood ==
  ASSUME TypeOK, TaskInv, NEW t \in Tasks, Return(t)
  PROVE  TypeOK' /\ TaskInv'
<1>1. disturbed' \in SUBSET Tasks /\ used' = used
  BY DEF Return, TypeOK
<1>2. Move(t, "idle", NoJob) /\ UNCHANGED config
  BY DEF Return
<1>3. NoJob \in Jobs
  BY DEF NoJob, Jobs, Kinds, Single
<1>4. Good("idle", NoJob) /\ "idle" \in Places
  BY DEF Good, Places, Busy
<1> QED
  BY <1>1, <1>2, <1>3, <1>4, StepGood, SharedParts
LEMMA GrantedFields ==
  ASSUME NEW o \in Jobs, NEW i \in Ids
  PROVE  LET j == Allow([o EXCEPT !.took[i] = @ + 1]) IN
         /\ o.took \in [Ids -> Nat] /\ j \in Jobs /\ j.kind = o.kind /\ j.list = o.list
         /\ j.at = o.at /\ j.passed /\ j.refused = o.refused /\ j.failed = o.failed
         /\ j.spared = o.spared /\ j.took = [o.took EXCEPT ![i] = @ + 1]
<1> DEFINE more == [o.took EXCEPT ![i] = @ + 1]
<1>1. o.took \in [Ids -> Nat]
  BY JobFields
<1>2. more \in [Ids -> Nat]
  BY <1>1
<1>3. [o EXCEPT !.took[i] = @ + 1] = [o EXCEPT !.took = more]
  BY DEF Jobs
<1> HIDE DEF more
<1>4. [o EXCEPT !.took = more] \in Jobs
  BY <1>2 DEF Jobs
<1> QED
  BY <1>1, <1>2, <1>3, <1>4 DEF Jobs, Allow, more

LEMMA GrantGood ==
  ASSUME TypeOK, TaskInv, NEW t \in Tasks, Grant(t)
  PROVE  TypeOK' /\ TaskInv'
<1> DEFINE o == job[t]
           i == Now(t)
           j == Allow([job[t] EXCEPT !.took[Now(t)] = @ + 1])
<1>1. pc[t] \in {"asking", "taking"} /\ i \in Known /\ Free(i)
  BY DEF Grant, Asking
<1>2. pc[t] \in Busy
  BY <1>1 DEF Busy
<1>3. o \in Jobs /\ Looks(pc[t], o) /\ i \in Ids /\ i = o.list[o.at]
  BY <1>2, BusyJob DEF Now
<1>5. /\ used' = [used EXCEPT ![i] = @ + 1]
      /\ disturbed' = disturbed \cup {u \in Tasks \ {t} : pc[u] \in Busy /\ job[u].kind = "multi"}
      /\ \/ pc[t] = "asking" /\ j.kind \in Multi /\ Move(t, "peeked", j)
         \/ j.kind \in Composite /\ Move(t, "reading", j)
         \/ (pc[t] = "taking" \/ j.kind \in Single) /\ GoOn(t, j)
      /\ UNCHANGED config
  BY DEF Grant
<1>6. /\ o.took \in [Ids -> Nat] /\ j \in Jobs /\ j.kind = o.kind /\ j.list = o.list
      /\ j.at = o.at /\ j.passed /\ j.refused = o.refused /\ j.failed = o.failed
      /\ j.spared = o.spared /\ j.took = [o.took EXCEPT ![i] = @ + 1]
  BY <1>3, GrantedFields
<1> HIDE DEF o, i, j
<1>7. /\ j \in Jobs /\ j.kind = o.kind /\ j.list = o.list /\ j.at = o.at
      /\ j.passed /\ j.refused = o.refused /\ j.failed = o.failed /\ j.spared = o.spared
      /\ j.took = [o.took EXCEPT ![i] = @ + 1]
  BY <1>6
<1>8. used' \in [Known -> 0..Slots] /\ disturbed' \in SUBSET Tasks
  <2>1. used[i] \in 0..Slots /\ used[i] < Slots /\ Slots \in Nat \ {0}
    BY <1>1, SharedParts DEF Free
  <2>2. used[i] + 1 \in 0..Slots
    BY <2>1
  <2> QED
    BY <1>5, <2>2, SharedParts
<1>9. /\ \A m \in Ids : j.took[m] >= o.took[m]
      /\ j.took[i] > 0
      /\ \A m \in Ids \ {i} : j.took[m] = o.took[m]
      /\ j.took[i] = o.took[i] + 1
  BY <1>3, <1>6, <1>7
<1>10. /\ o.at \in 1..Len(o.list) /\ Len(o.list) \in Nat
       /\ \A n \in 1..Len(o.list) : o.list[n] \in Ids
  BY <1>3, BusyList DEF Looks
<1>11. j.kind \notin Multi => GrantedTo(j, j.at)
  <2>1. ASSUME j.kind \notin Multi PROVE GrantedTo(o, o.at - 1)
    BY <1>1, <1>3, <1>7, <2>1 DEF Looks, Multi
  <2>2. ASSUME j.kind \notin Multi, NEW m \in 1..j.at,
               m \in 1..(o.at - 1) => o.took[o.list[m]] > 0
        PROVE  j.took[j.list[m]] > 0
    <3>1. m \in 1..Len(o.list) /\ (m = o.at \/ m \in 1..(o.at - 1))
      BY <1>7, <1>10, <2>2
    <3>2. o.list[m] \in Ids /\ o.took[o.list[m]] \in Nat /\ j.took[o.list[m]] \in Nat
      BY <1>6, <1>7, <1>10, <3>1, JobFields
    <3> QED
      BY <1>3, <1>7, <1>9, <2>2, <3>1, <3>2
  <2>3. j.at \in 1..j.at /\ j.took[j.list[j.at]] > 0
    BY <1>3, <1>7, <1>9, <1>10
  <2> QED
    BY <1>7, <2>1, <2>2, <2>3 DEF GrantedTo
<1>12. CASE pc[t] = "asking" /\ j.kind \in Multi /\ Move(t, "peeked", j)
  <2>1. \A m \in Known \ RateIds : j.took[m] = IF m = j.list[j.at] THEN 1 ELSE 0
    BY <1>3, <1>7, <1>9, <1>12 DEF Looks, NoPlaces, Ids
  <2>2. Looks("peeked", j)
    BY <1>3, <1>7, <1>9, <1>12, <2>1 DEF Looks
  <2> QED
    BY <1>5, <1>7, <1>8, <1>12, <2>2, StepGood DEF Good, Places, Busy
<1>13. CASE j.kind \in Composite /\ Move(t, "reading", j)
  <2>1. Looks("reading", j)
    BY <1>3, <1>7, <1>11, <1>13 DEF Looks, Multi, Composite
  <2> QED
    BY <1>5, <1>7, <1>8, <1>13, <2>1, StepGood DEF Good, Places, Busy
<1>14. CASE (pc[t] = "taking" \/ j.kind \in Single) /\ GoOn(t, j)
  <2>1. pc[t] # "taking" => j.kind \notin Multi
    BY <1>14 DEF Multi, Single
  <2>2. pc[t] = "taking" => j.kind = "multi" /\ ~j.refused
    BY <1>3, <1>7 DEF Looks
  <2>3. origin = "code" /\ j.failed => j.refused /\ j.kind \notin Composite
    BY <1>3, <1>7 DEF Looks, Multi, Composite
  <2>4. j.at \in 1..Len(j.list) /\ (j.kind \in Single => Len(j.list) = 1)
    BY <1>3, <1>7 DEF Looks
  <2>5. \E place \in Places, k \in Jobs : Move(t, place, k) /\ Good(place, k)
    BY <1>7, <1>11, <1>14, <2>1, <2>2, <2>3, <2>4, GoOnGood
  <2> QED
    BY <1>5, <1>8, <2>5, StepGood
<1> QED
  BY <1>5, <1>12, <1>13, <1>14

LEMMA DenyGood ==
  ASSUME TypeOK, TaskInv, NEW t \in Tasks, Deny(t)
  PROVE  TypeOK' /\ TaskInv'
<1> DEFINE o == job[t]
           j == Refuse(t, job[t])
<1>1. /\ pc[t] \in {"asking", "taking"} /\ pc[t] \in Busy /\ UNCHANGED <<config, used>>
      /\ used' \in [Known -> 0..Slots] /\ disturbed' \in SUBSET Tasks
  BY SharedParts DEF Deny, Asking, Busy
<1>2. o \in Jobs /\ Looks(pc[t], o)
  BY <1>1, BusyJob
<1>3. /\ j \in Jobs /\ j.kind = o.kind /\ j.list = o.list /\ j.at = o.at /\ j.took = o.took
      /\ j.passed = o.passed /\ j.failed = o.failed /\ j.spared = o.spared
      /\ j.refused = (pc[t] # "taking" \/ o.refused)
  BY <1>2 DEF Refuse, Jobs
<1>4. IF o.kind \in Composite THEN Move(t, "reading", j) ELSE GoOn(t, j)
  BY DEF Deny
<1> HIDE DEF o, j
<1>5. o.at \in 1..Len(o.list) /\ Len(o.list) \in Nat \ {0}
  BY <1>2, BusyList DEF Looks
<1>6. j.kind \notin Multi => pc[t] = "asking" /\ j.refused /\ GrantedTo(o, o.at - 1)
  BY <1>1, <1>2, <1>3 DEF Looks, Multi
<1>7. j.kind \notin Multi => GrantedTo(j, j.at)
  <2>1. 1..(o.at - 1) \subseteq 1..o.at
    BY <1>5
  <2> QED
    BY <1>3, <1>6, <2>1 DEF GrantedTo
<1>8. CASE o.kind \in Composite
  <2>1. Looks("reading", j)
    BY <1>2, <1>3, <1>7, <1>8 DEF Looks, Multi, Composite
  <2> QED
    BY <1>1, <1>3, <1>4, <1>8, <2>1, StepGood, SharedParts DEF Good, Places, Busy
<1>9. CASE o.kind \notin Composite
  <2>1. /\ pc[t] = "taking" => j.kind = "multi" /\ ~j.refused
        /\ origin = "code" /\ j.failed => j.refused /\ j.kind \notin Composite
        /\ j.at \in 1..Len(j.list) /\ (j.kind \in Single => Len(j.list) = 1)
        /\ pc[t] # "taking" /\ j.kind \in Multi => NoPlaces(j)
    BY <1>1, <1>2, <1>3, <1>9 DEF Looks, NoPlaces
  <2>2. \E place \in Places, k \in Jobs : Move(t, place, k) /\ Good(place, k)
    BY <1>3, <1>4, <1>7, <1>9, <2>1, GoOnGood
  <2> QED
    BY <1>1, <2>2, StepGood, SharedParts
<1> QED
  BY <1>8, <1>9

\* The first look ends: a place that was taken is given back.
LEMMA GaveBack ==
  ASSUME TypeOK, TaskInv, NEW t \in Tasks, GiveBack(t)
  PROVE  /\ \E j \in Jobs :
              /\ GoOn(t, j) /\ NoPlaces(j) /\ j.kind = job[t].kind /\ j.list = job[t].list
              /\ j.at = job[t].at /\ j.refused = job[t].refused /\ j.failed = job[t].failed
              /\ j.spared = job[t].spared
         /\ used' \in [Known -> 0..Slots]
         /\ \A i \in Known : used'[i] <= used[i]
         /\ Now(t) \in Known \ RateIds => used'[Now(t)] < Slots
<1> DEFINE o == job[t]
           i == Now(t)
<1>1. pc[t] = "peeked" /\ pc[t] \in Busy /\ UNCHANGED <<config, disturbed>>
  BY DEF GiveBack, Busy
<1>2. o \in Jobs /\ Looks("peeked", o) /\ i \in Ids /\ i = o.list[o.at]
  BY <1>1, BusyJob DEF Now
<1>3. o.took \in [Ids -> Nat]
  BY <1>2, JobFields
<1> DEFINE less == [o.took EXCEPT ![i] = @ - 1]
           j == IF i \in RateIds THEN o ELSE [o EXCEPT !.took = less]
<1>4. [o EXCEPT !.took[Now(t)] = @ - 1] = [o EXCEPT !.took = less]
  BY <1>2 DEF Jobs
<1>5. GoOn(t, j)
  <2> HIDE DEF less
  <2> QED
    BY <1>4 DEF GiveBack
<1>6. IF i \in RateIds THEN UNCHANGED used
      ELSE used' = [used EXCEPT ![i] = IF @ = 0 THEN 0 ELSE @ - 1]
  BY DEF GiveBack
<1> HIDE DEF o, i
<1>7. /\ o.took[i] > 0 /\ o.kind \in Multi /\ o.at \in 1..Len(o.list)
      /\ o.kind \in Single => Len(o.list) = 1
      /\ origin = "code" /\ o.failed => o.refused /\ o.kind \in Multi
      /\ \A m \in Known \ RateIds : o.took[m] = IF m = i THEN 1 ELSE 0
  BY <1>2 DEF Looks
<1>8. /\ less \in [Ids -> Nat]
      /\ i \notin RateIds => \A m \in Known \ RateIds : less[m] = 0
  <2>1. o.took[i] - 1 \in Nat
    BY <1>2, <1>3, <1>7
  <2>2. /\ less \in [Ids -> Nat]
        /\ \A m \in Ids : less[m] = IF m = i THEN o.took[i] - 1 ELSE o.took[m]
    BY <1>2, <1>3, <2>1
  <2> HIDE DEF less
  <2> QED
    BY <1>7, <2>2 DEF Ids
<1>9. /\ j \in Jobs /\ j.kind = o.kind /\ j.list = o.list /\ j.at = o.at
      /\ j.refused = o.refused /\ j.failed = o.failed /\ j.spared = o.spared
      /\ j.took = IF i \in RateIds THEN o.took ELSE less
  <2> HIDE DEF less
  <2> QED
    BY <1>2, <1>8 DEF Jobs
<1> HIDE DEF less, j
<1>10. NoPlaces(j)
  BY <1>7, <1>8, <1>9 DEF NoPlaces
<1>11. ASSUME i \notin RateIds, i \in Known
       PROVE  used[i] \in 0..Slots /\ Slots \in Nat \ {0}
              /\ (IF used[i] = 0 THEN 0 ELSE used[i] - 1) \in 0..Slots
              /\ (IF used[i] = 0 THEN 0 ELSE used[i] - 1) <= used[i]
              /\ (IF used[i] = 0 THEN 0 ELSE used[i] - 1) < Slots
  <2>1. used[i] \in 0..Slots /\ Slots \in Nat \ {0}
    BY <1>11, SharedParts
  <2> QED
    BY <2>1
<1>12. used' \in [Known -> 0..Slots] /\ \A m \in Known : used'[m] <= used[m]
  <2>1. \A m \in Known : used[m] \in 0..Slots /\ used[m] <= used[m]
    BY SharedParts
  <2>2. CASE i \in RateIds
    BY <1>6, <2>1, <2>2, SharedParts
  <2>3. CASE i \notin RateIds
    BY <1>6, <1>11, <2>1, <2>3, SharedParts
  <2> QED
    BY <2>2, <2>3
<1>13. i \in Known \ RateIds => used'[i] < Slots
  BY <1>6, <1>11, SharedParts
<1>14. j \in Jobs /\ GoOn(t, j) /\ NoPlaces(j) /\ j.kind = o.kind /\ j.list = o.list
       /\ j.at = o.at /\ j.refused = o.refused /\ j.failed = o.failed /\ j.spared = o.spared
  BY <1>5, <1>9, <1>10
<1> QED
  BY <1>12, <1>13, <1>14 DEF o, i

LEMMA GiveBackGood ==
  ASSUME TypeOK, TaskInv, NEW t \in Tasks, GiveBack(t)
  PROVE  TypeOK' /\ TaskInv'
<1>1. pc[t] = "peeked" /\ pc[t] \in Busy /\ UNCHANGED <<config, disturbed>>
  BY DEF GiveBack, Busy
<1>2. Looks("peeked", job[t])
  BY <1>1, BusyJob
<1>3. PICK j \in Jobs :
        /\ GoOn(t, j) /\ NoPlaces(j) /\ j.kind = job[t].kind /\ j.list = job[t].list
        /\ j.at = job[t].at /\ j.refused = job[t].refused /\ j.failed = job[t].failed
        /\ j.spared = job[t].spared
  BY GaveBack
<1>4. /\ pc[t] = "taking" => j.kind = "multi" /\ ~j.refused
      /\ origin = "code" /\ j.failed => j.refused /\ j.kind \notin Composite
      /\ j.at \in 1..Len(j.list) /\ (j.kind \in Single => Len(j.list) = 1)
      /\ j.kind \in Multi
  BY <1>1, <1>2, <1>3 DEF Looks, Multi, Composite
<1>5. \E place \in Places, k \in Jobs : Move(t, place, k) /\ Good(place, k)
  BY <1>3, <1>4, GoOnGood
<1> QED
  BY <1>1, <1>5, GaveBack, StepGood, SharedParts

LEMMA StateReadGood ==
  ASSUME TypeOK, TaskInv, NEW t \in Tasks, StateRead(t)
  PROVE  TypeOK' /\ TaskInv'
<1> DEFINE o == job[t]
<1>1. /\ pc[t] = "reading" /\ pc[t] \in Busy /\ UNCHANGED <<config, used, disturbed>>
      /\ GoOn(t, o)
  BY DEF StateRead, Busy
<1>2. o \in Jobs /\ Looks("reading", o)
  BY <1>1, BusyJob
<1> HIDE DEF o
<1>3. /\ o.kind \in Composite /\ GrantedTo(o, o.at) /\ o.at \in 1..Len(o.list)
      /\ o.kind \in Single => Len(o.list) = 1
      /\ origin = "code" /\ o.failed => o.refused /\ o.kind \in Multi
  BY <1>2 DEF Looks
<1>4. o.kind \notin Multi /\ pc[t] # "taking"
  BY <1>1, <1>3 DEF Composite, Multi
<1>5. \E place \in Places, k \in Jobs : Move(t, place, k) /\ Good(place, k)
  BY <1>1, <1>2, <1>3, <1>4, GoOnGood
<1> QED
  BY <1>1, <1>5, StepGood, SharedParts

\* A check that lets a limiter pass without a slot goes on.
LEMMA SpareGoesOn ==
  ASSUME TypeOK, TaskInv, NEW t \in Tasks, pc[t] \in {"asking", "taking"},
         NEW j \in Jobs, GoOn(t, j), j.spared = TRUE,
         j.kind = job[t].kind, j.list = job[t].list, j.at = job[t].at, j.took = job[t].took,
         j.refused = job[t].refused,
         origin = "code" /\ j.failed => job[t].failed, j.kind \notin Composite
  PROVE  \E place \in Places, k \in Jobs : Move(t, place, k) /\ Good(place, k)
<1> DEFINE o == job[t]
<1>1. pc[t] \in Busy
  BY DEF Busy
<1>2. o \in Jobs /\ Looks(pc[t], o)
  BY <1>1, BusyJob
<1>3. /\ j.kind = o.kind /\ j.list = o.list /\ j.at = o.at /\ j.took = o.took
      /\ j.refused = o.refused /\ (origin = "code" /\ j.failed => o.failed)
  OBVIOUS
<1> HIDE DEF o
<1>4. /\ pc[t] = "taking" => j.kind = "multi" /\ ~j.refused
      /\ origin = "code" /\ j.failed => j.refused /\ j.kind \notin Composite
      /\ j.at \in 1..Len(j.list) /\ (j.kind \in Single => Len(j.list) = 1)
      /\ pc[t] # "taking" /\ j.kind \in Multi => NoPlaces(j)
  BY <1>2, <1>3 DEF Looks, NoPlaces
<1>5. GrantedTo(j, j.at)
  BY DEF GrantedTo
<1> QED
  BY <1>4, <1>5, GoOnGood

LEMMA FailingFields ==
  ASSUME TypeOK, NEW t \in Tasks
  PROVE  LET j == Failing(t) IN
         /\ j \in Jobs /\ j.kind = job[t].kind /\ j.list = job[t].list /\ j.at = job[t].at
         /\ j.took = job[t].took /\ j.passed = job[t].passed /\ j.refused = job[t].refused
         /\ j.spared = job[t].spared /\ j.failed = (job[t].failed \/ Now(t) \in Declared)
BY DEF TypeOK, Failing, Jobs

LEMMA SparedFields ==
  ASSUME NEW j \in Jobs
  PROVE  LET k == Spare(Allow(j)) IN
         /\ k \in Jobs /\ k.kind = j.kind /\ k.list = j.list /\ k.at = j.at
         /\ k.took = j.took /\ k.refused = j.refused /\ k.failed = j.failed /\ k.spared = TRUE
BY DEF Spare, Allow, Jobs

LEMMA BackendFailsGood ==
  ASSUME TypeOK, TaskInv, NEW t \in Tasks, BackendFails(t)
  PROVE  TypeOK' /\ TaskInv'
<1> DEFINE o == job[t]
           j == Failing(t)
<1>1. /\ pc[t] \in {"asking", "taking"} /\ pc[t] \in Busy
      /\ UNCHANGED <<config, used, disturbed>>
      /\ \/ Now(t) \notin FailClosed /\ o.kind \in Composite /\ Move(t, "reading", Spare(Allow(j)))
         \/ pc[t] = "taking" /\ GoOn(t, Spare(Allow(o)))
         \/ Now(t) \notin FailClosed /\ pc[t] = "asking" /\ o.kind \notin Composite
            /\ GoOn(t, Spare(Allow(j)))
         \/ Now(t) \in FailClosed /\ o.kind \in Composite /\ Raise(t, j)
         \/ Now(t) \in FailClosed /\ pc[t] = "asking" /\ o.kind \notin Composite
            /\ GoOn(t, Refuse(t, j))
  BY DEF BackendFails, Asking, Busy
<1>2. o \in Jobs /\ Looks(pc[t], o)
  BY <1>1, BusyJob
<1>3. /\ j \in Jobs /\ j.kind = o.kind /\ j.list = o.list /\ j.at = o.at /\ j.took = o.took
      /\ j.passed = o.passed /\ j.refused = o.refused /\ j.spared = o.spared
      /\ j.failed = (o.failed \/ Now(t) \in Declared)
  BY FailingFields
<1>4. origin = "code" => FailClosed = Declared
  BY DEF FailClosed
<1>5. o = job[t]
  OBVIOUS
<1> HIDE DEF o, j
<1>6. CASE Now(t) \notin FailClosed /\ o.kind \in Composite /\ Move(t, "reading", Spare(Allow(j)))
  <2> DEFINE k == Spare(Allow(j))
  <2>1. /\ k \in Jobs /\ k.kind = o.kind /\ k.list = o.list /\ k.at = o.at
        /\ k.failed = j.failed /\ k.spared = TRUE
    BY <1>3, SparedFields
  <2>2. Move(t, "reading", k)
    BY <1>6
  <2> HIDE DEF k
  <2>3. GrantedTo(k, k.at)
    BY <2>1 DEF GrantedTo
  <2>4. Looks("reading", k)
    BY <1>2, <1>3, <1>4, <1>6, <2>1, <2>3 DEF Looks, Composite, Multi
  <2> QED
    BY <1>1, <2>1, <2>2, <2>4, StepGood, SharedParts DEF Good, Places, Busy
<1>7. CASE pc[t] = "taking" /\ GoOn(t, Spare(Allow(o)))
  <2> DEFINE k == Spare(Allow(o))
  <2>1. /\ k \in Jobs /\ k.kind = o.kind /\ k.list = o.list /\ k.at = o.at /\ k.took = o.took
        /\ k.refused = o.refused /\ k.failed = o.failed /\ k.spared = TRUE
    BY <1>2, SparedFields
  <2>2. GoOn(t, k)
    BY <1>7
  <2> HIDE DEF k
  <2>3. o.kind \notin Composite
    BY <1>2, <1>7 DEF Looks, Composite
  <2>4. \E place \in Places, m \in Jobs : Move(t, place, m) /\ Good(place, m)
    BY <1>5, <1>7, <2>1, <2>2, <2>3, SpareGoesOn
  <2> QED
    BY <1>1, <2>4, StepGood, SharedParts
<1>8. CASE Now(t) \notin FailClosed /\ pc[t] = "asking" /\ o.kind \notin Composite
           /\ GoOn(t, Spare(Allow(j)))
  <2> DEFINE k == Spare(Allow(j))
  <2>1. /\ k \in Jobs /\ k.kind = o.kind /\ k.list = o.list /\ k.at = o.at /\ k.took = o.took
        /\ k.refused = o.refused /\ k.failed = j.failed /\ k.spared = TRUE
    BY <1>3, SparedFields
  <2>2. GoOn(t, k)
    BY <1>8
  <2> HIDE DEF k
  <2>3. origin = "code" /\ k.failed => o.failed
    BY <1>3, <1>4, <1>8, <2>1
  <2>4. \E place \in Places, m \in Jobs : Move(t, place, m) /\ Good(place, m)
    BY <1>5, <1>8, <2>1, <2>2, <2>3, SpareGoesOn
  <2> QED
    BY <1>1, <2>4, StepGood, SharedParts
<1>9. CASE Raise(t, j)
  BY <1>1, <1>3, <1>9, RaiseGood, StepGood, SharedParts
<1>10. CASE pc[t] = "asking" /\ o.kind \notin Composite /\ GoOn(t, Refuse(t, j))
  <2> DEFINE k == Refuse(t, j)
  <2>1. /\ k \in Jobs /\ k.kind = o.kind /\ k.list = o.list /\ k.at = o.at /\ k.took = o.took
        /\ k.refused = TRUE
    BY <1>3, <1>10 DEF Refuse, Jobs
  <2>2. GoOn(t, k)
    BY <1>10
  <2> HIDE DEF k
  <2>3. o.at \in 1..Len(o.list) /\ Len(o.list) \in Nat \ {0}
    BY <1>2, BusyList DEF Looks
  <2>4. GrantedTo(k, k.at)
    BY <1>10, <2>1 DEF GrantedTo, Composite
  <2>5. /\ k.kind \notin Composite /\ pc[t] # "taking"
        /\ k.at \in 1..Len(k.list) /\ (k.kind \in Single => Len(k.list) = 1)
        /\ k.kind \in Multi => NoPlaces(k)
    BY <1>2, <1>10, <2>1 DEF Looks, NoPlaces
  <2>6. \E place \in Places, m \in Jobs : Move(t, place, m) /\ Good(place, m)
    BY <2>1, <2>2, <2>4, <2>5, GoOnGood
  <2> QED
    BY <1>1, <2>6, StepGood, SharedParts
<1> QED
  BY <1>1, <1>6, <1>7, <1>8, <1>9, <1>10

LEMMA RaisesGood ==
  ASSUME TypeOK, TaskInv, NEW t \in Tasks, NEW j \in Jobs, Raise(t, j),
         UNCHANGED <<config, used, disturbed>>
  PROVE  TypeOK' /\ TaskInv'
BY RaiseGood, StepGood, SharedParts

LEMMA NotFoundGood ==
  ASSUME TypeOK, TaskInv, NEW t \in Tasks, NotFound(t)
  PROVE  TypeOK' /\ TaskInv'
<1> DEFINE o == job[t]
           j == Spare(Allow(o))
<1>1. /\ pc[t] \in {"asking", "taking"} /\ pc[t] \in Busy
      /\ UNCHANGED <<config, used, disturbed>>
      /\ IF o.kind \in Multi \cup {"request"} THEN GoOn(t, j) ELSE Raise(t, o)
  BY DEF NotFound, Busy
<1>2. CASE o.kind \in Multi \cup {"request"}
  <2>1. o \in Jobs
    BY <1>1, BusyJob
  <2>2. /\ j \in Jobs /\ j.kind = o.kind /\ j.list = o.list /\ j.at = o.at /\ j.took = o.took
        /\ j.refused = o.refused /\ j.failed = o.failed /\ j.spared = TRUE
    BY <2>1 DEF Spare, Allow, Jobs
  <2>3. o.kind \notin Composite /\ GoOn(t, j)
    BY <1>1, <1>2 DEF Multi, Composite
  <2> HIDE DEF j
  <2>4. \E place \in Places, k \in Jobs : Move(t, place, k) /\ Good(place, k)
    BY <1>1, <2>2, <2>3, SpareGoesOn
  <2> QED
    BY <1>1, <2>4, StepGood, SharedParts
<1>3. CASE o.kind \notin Multi \cup {"request"}
  BY <1>1, <1>3, BusyJob, RaisesGood
<1> QED
  BY <1>2, <1>3

LEMMA ForgetGood ==
  ASSUME TypeOK, TaskInv, NEW i \in Known, Forget(i)
  PROVE  TypeOK' /\ TaskInv'
<1>1. used' \in [Known -> 0..Slots]
  BY SharedParts DEF Forget
<1>2. UNCHANGED <<config, pc, job, disturbed>>
  BY DEF Forget
<1>3. TypeOK'
  BY <1>1, <1>2 DEF TypeOK, config
<1>4. TaskInv'
  BY <1>2 DEF config, TaskInv, Good, Looks, Holds, GrantedTo, NoPlaces, Listed
<1> QED
  BY <1>3, <1>4

-----------------------------------------------------------------------------
(* The theorems *)

IInv == TypeOK /\ TaskInv

LEMMA InitGood == Init => IInv
<1> SUFFICES ASSUME Init PROVE TypeOK /\ TaskInv
  BY DEF IInv
<1>1. NoJob \in Jobs
  BY DEF NoJob, Jobs, Kinds, Single
<1>2. Slots \in Nat \ {0}
  BY ChecksAssumption DEF ChecksAssumption
<1>3. \A t \in Tasks : pc[t] = "idle"
  BY DEF Init
<1>4. TaskInv
  BY <1>3 DEF TaskInv, Good, Busy
<1>5. TypeOK
  BY <1>1, <1>2, <1>3 DEF Init, TypeOK, Busy
<1> QED
  BY <1>4, <1>5

LEMMA NextGood == IInv /\ [Next]_vars => IInv'
<1> SUFFICES ASSUME TypeOK, TaskInv, [Next]_vars PROVE TypeOK' /\ TaskInv'
  BY DEF IInv
<1>1. CASE UNCHANGED vars
  BY <1>1 DEF vars, config, TypeOK, TaskInv, Good, Looks, Holds, GrantedTo, NoPlaces, Listed
<1>2. ASSUME NEW t \in Tasks, NEW kind \in Kinds, NEW list \in Lists, Call(t, kind, list)
      PROVE  TypeOK' /\ TaskInv'
  BY <1>2, CallGood
<1>3. ASSUME NEW t \in Tasks,
             \/ Return(t) \/ Grant(t) \/ Deny(t) \/ GiveBack(t) \/ StateRead(t)
             \/ BackendFails(t) \/ NotFound(t)
      PROVE  TypeOK' /\ TaskInv'
  BY <1>3, ReturnGood, GrantGood, DenyGood, GiveBackGood, StateReadGood,
     BackendFailsGood, NotFoundGood
<1>4. ASSUME NEW t \in Tasks, OtherFailure(t) PROVE TypeOK' /\ TaskInv'
  <2>1. Raise(t, Failing(t)) /\ UNCHANGED <<config, used, disturbed>>
    BY <1>4 DEF OtherFailure
  <2> QED
    BY <2>1, FailingFields, RaisesGood
<1>5. ASSUME NEW i \in Known, Forget(i) PROVE TypeOK' /\ TaskInv'
  BY <1>5, ForgetGood
<1> QED
  BY <1>1, <1>2, <1>3, <1>4, <1>5 DEF Next

THEOREM Invariant == Spec => []IInv
<1> QED
  BY InitGood, NextGood, PTL DEF Spec

\* Every variable keeps its type: no limiter has more slots taken than it has, and a
\* busy check is at an element of its list.
THEOREM TypeCorrect == Spec => []TypeOK
<1>1. IInv => TypeOK
  BY DEF IInv
<1> QED
  BY Invariant, <1>1, PTL

LEMMA DoneHolds ==
  ASSUME IInv, NEW kinds, NEW t \in Answered(kinds)
  PROVE  Holds(job[t]) /\ job[t].kind \in kinds /\ t \in Tasks
BY DEF IInv, TaskInv, Good, Answered

\* What a check or a composite allows was granted by every limiter it names, or by
\* one of them where any must pass, unless something failed or was missing.
THEOREM GrantedIfAllowed == Spec => []AllowedWasGranted
<1>1. IInv => AllowedWasGranted
  <2> SUFFICES ASSUME IInv, NEW t \in Answered(Kinds \ Multi)
               PROVE  LET j == job[t] IN
                      j.answer = "allowed" /\ ~j.spared =>
                        IF j.kind = "any" THEN \E i \in Listed(j) : j.took[i] > 0
                                          ELSE \A i \in Listed(j) : j.took[i] > 0
    BY DEF AllowedWasGranted
  <2>1. Holds(job[t]) /\ job[t].kind \notin Multi
    BY DoneHolds
  <2> QED
    BY <2>1 DEF Holds
<1> QED
  BY Invariant, <1>1, PTL

\* check_multi_limiters keeps no place when it refuses, or when it only looked.
THEOREM RefusedKeepsNothing == Spec => []RefusedKeepsNoPlace
<1>1. IInv => RefusedKeepsNoPlace
  <2> SUFFICES ASSUME IInv, NEW t \in Answered(Multi)
               PROVE  LET j == job[t] IN
                      j.answer = "refused" \/ (j.kind = "peek" /\ j.answer = "allowed") =>
                        \A i \in Known \ RateIds : j.took[i] = 0
    BY DEF RefusedKeepsNoPlace
  <2>1. Holds(job[t]) /\ job[t].kind \in Multi
    BY DoneHolds
  <2> QED
    BY <2>1 DEF Holds, NoPlaces
<1> QED
  BY Invariant, <1>1, PTL

\* A limiter that the code declared with fail_closed blocks the requests and checks
\* that ask it when its backend fails, in whatever way; what an exception ends may be
\* let through, but only by a front end that was made with fail_open.
THEOREM FailsClosed == Spec => []CodeBlocks
<1>1. IInv => CodeBlocks
  <2> SUFFICES ASSUME IInv, origin = "code", NEW t \in Answered(Kinds),
                      job[t].failed, job[t].answer = "allowed"
               PROVE  failOpen /\ job[t].kind \in FrontEnds
    BY DEF CodeBlocks, DeclaredBlocks
  <2>1. Holds(job[t])
    BY DoneHolds
  <2> QED
    BY <2>1 DEF Holds
<1> QED
  BY Invariant, <1>1, PTL

-----------------------------------------------------------------------------
(* The second pass of check_multi_limiters, for lists that name no limiter *)
(* twice                                                                   *)

NoRepetition == \A list \in Lists : \A m, n \in 1..Len(list) : list[m] = list[n] => m = n

\* The n-th limiter of the list counts places, and u leaves one free.
Roomy(j, n, u) == j.list[n] \notin RateIds => j.list[n] \in Known /\ u[j.list[n]] < Slots
Took(j, n, k)  == j.list[n] \notin RateIds => j.took[j.list[n]] = k

\* What an undisturbed check of several limiters has found or taken so far.
Finds(place, j, u) ==
  j.kind = "multi" /\ ~j.spared =>
    /\ place \in {"asking", "peeked"} /\ ~j.refused => \A n \in 1..(j.at - 1) : Roomy(j, n, u)
    /\ place = "peeked" => j.list[j.at] \in Known
    /\ place = "taking" => /\ \A n \in 1..(j.at - 1) : Took(j, n, 1)
                           /\ \A n \in j.at..Len(j.list) : Roomy(j, n, u) /\ Took(j, n, 0)
    /\ place = "done" /\ j.answer = "allowed" => \A n \in 1..Len(j.list) : Took(j, n, 1)

FindInv == \A t \in Tasks \ disturbed : Finds(pc[t], job[t], used)

LEMMA FindsLower ==
  ASSUME NEW place, NEW j \in Jobs, NEW u \in [Known -> 0..Slots], NEW v \in [Known -> 0..Slots],
         Finds(place, j, u), \A i \in Known : v[i] <= u[i]
  PROVE  Finds(place, j, v)
<1>1. \A n : Roomy(j, n, u) => Roomy(j, n, v)
  <2> SUFFICES ASSUME NEW n, Roomy(j, n, u), j.list[n] \notin RateIds
               PROVE  j.list[n] \in Known /\ v[j.list[n]] < Slots
    BY DEF Roomy
  <2>1. j.list[n] \in Known /\ u[j.list[n]] < Slots
    BY DEF Roomy
  <2>2. u[j.list[n]] \in 0..Slots /\ v[j.list[n]] \in 0..Slots /\ v[j.list[n]] <= u[j.list[n]]
        /\ Slots \in Nat
    BY <2>1, ChecksAssumption DEF ChecksAssumption
  <2> QED
    BY <2>1, <2>2
<1> QED
  BY <1>1 DEF Finds

\* What a step of one check owes FindInv: itself, and the others, who are disturbed by
\* a slot that is taken.
LEMMA FindsKept ==
  ASSUME TypeOK, FindInv, NEW t \in Tasks, NEW place, NEW j, Move(t, place, j),
         used' \in [Known -> 0..Slots],
         disturbed \ {t} \subseteq disturbed',
         t \notin disturbed' => Finds(place, j, used'),
         \/ \A i \in Known : used'[i] <= used[i]
         \/ \A u \in Tasks \ {t} : pc[u] \in Busy /\ job[u].kind = "multi" => u \in disturbed'
  PROVE  FindInv'
<1>1. pc \in [Tasks -> Places] /\ job \in [Tasks -> Jobs] /\ used \in [Known -> 0..Slots]
  BY DEF TypeOK, Places
<1>2. /\ pc'[t] = place /\ job'[t] = j
      /\ \A u \in Tasks \ {t} : pc'[u] = pc[u] /\ job'[u] = job[u]
  BY <1>1 DEF Move
<1>3. ASSUME NEW u \in Tasks, u \notin disturbed' PROVE Finds(pc'[u], job'[u], used')
  <2>1. CASE u = t
    BY <1>2, <1>3, <2>1
  <2>2. CASE u # t
    <3>1. Finds(pc[u], job[u], used) /\ job[u] \in Jobs
      BY <1>1, <1>3, <2>2 DEF FindInv
    <3>2. Finds(pc[u], job[u], used')
      <4>1. CASE \A i \in Known : used'[i] <= used[i]
        BY <1>1, <3>1, <4>1, FindsLower
      <4>2. CASE ~(pc[u] \in Busy /\ job[u].kind = "multi")
        BY <3>1, <4>2 DEF Finds, Busy
      <4> QED
        BY <1>3, <2>2, <4>1, <4>2
    <3> QED
      BY <1>2, <2>2, <3>2
  <2> QED
    BY <2>1, <2>2
<1>4. \A u \in Tasks : u \notin disturbed' => Finds(pc[u], job[u], used)'
  BY <1>3 DEF Finds, Roomy, Took
<1> QED
  BY <1>4 DEF FindInv

LEMMA GoOnMoves ==
  ASSUME NEW t \in Tasks, NEW j \in Jobs, GoOn(t, j)
  PROVE  \E place \in Places, k \in Jobs : Move(t, place, k)
<1>1. CASE j.at < Len(j.list)
  <2> DEFINE k == [j EXCEPT !.at = @ + 1]
             place == IF pc[t] = "taking" THEN "taking" ELSE "asking"
  <2>1. k \in Jobs /\ place \in Places
    BY DEF Jobs, Places, Busy
  <2>2. Move(t, place, k)
    BY <1>1 DEF GoOn
  <2> HIDE DEF k, place
  <2> QED
    BY <2>1, <2>2
<1>2. CASE ~(j.at < Len(j.list)) /\ SecondPass(t, j)
  <2> DEFINE k == [j EXCEPT !.at = 1]
  <2>1. k \in Jobs /\ "taking" \in Places
    BY DEF Jobs, Places, Busy
  <2>2. Move(t, "taking", k)
    BY <1>2 DEF GoOn
  <2> HIDE DEF k
  <2> QED
    BY <2>1, <2>2
<1>3. CASE ~(j.at < Len(j.list)) /\ ~SecondPass(t, j)
  <2> DEFINE answer == IF Verdict(j) THEN "allowed" ELSE "refused"
  <2>1. Answer(t, j, answer) /\ answer \in {"allowed", "refused", "raised"}
    BY <1>3 DEF GoOn
  <2> HIDE DEF answer
  <2>2. PICK k \in Jobs :
           /\ Move(t, "done", k)
           /\ k.kind = j.kind /\ k.list = j.list /\ k.took = j.took
           /\ k.failed = j.failed /\ k.spared = j.spared /\ k.answer = answer
    BY <2>1, AnswerMoves
  <2> QED
    BY <2>2 DEF Places
<1> QED
  BY <1>1, <1>2, <1>3

\* Going on, with used as it is after the step.
LEMMA GoOnFinds ==
  ASSUME NEW t \in Tasks, NEW j \in Jobs, GoOn(t, j), NEW v,
         j.at \in 1..Len(j.list),
         pc[t] \in Busy,
         pc[t] = "taking" => ~j.refused,
         j.kind = "multi" /\ ~j.spared =>
           /\ pc[t] # "taking" /\ ~j.refused =>
                NoPlaces(j) /\ \A n \in 1..j.at : Roomy(j, n, v)
           /\ pc[t] = "taking" =>
                /\ \A n \in 1..j.at : Took(j, n, 1)
                /\ \A n \in (j.at + 1)..Len(j.list) : Roomy(j, n, v) /\ Took(j, n, 0)
  PROVE  \E place, k : Move(t, place, k) /\ Finds(place, k, v)
<1>1. /\ Len(j.list) \in Nat \ {0} /\ j.at \in Nat
      /\ \A n \in 1..Len(j.list) : j.list[n] \in Ids
  BY BusyList, JobFields
<1>2. CASE j.at < Len(j.list)
  <2> DEFINE k == [j EXCEPT !.at = @ + 1]
             place == IF pc[t] = "taking" THEN "taking" ELSE "asking"
  <2>1. /\ k.at = j.at + 1 /\ k.kind = j.kind /\ k.list = j.list
        /\ k.refused = j.refused /\ k.took = j.took /\ k.spared = j.spared
    BY DEF Jobs
  <2>2. Move(t, place, k)
    BY <1>2 DEF GoOn
  <2>3. (place = "taking" <=> pc[t] = "taking") /\ place \in {"taking", "asking"}
    OBVIOUS
  <2> HIDE DEF k, place
  <2>4. k.at - 1 = j.at
    BY <1>1, <2>1
  <2>5. \A n : /\ Roomy(j, n, v) => Roomy(k, n, v)
               /\ Took(j, n, 0) => Took(k, n, 0)
               /\ Took(j, n, 1) => Took(k, n, 1)
    BY <2>1 DEF Roomy, Took
  <2>6. Finds(place, k, v)
    BY <2>1, <2>3, <2>4, <2>5 DEF Finds
  <2> QED
    BY <2>2, <2>6
<1>3. CASE j.at >= Len(j.list) /\ SecondPass(t, j)
  <2> DEFINE k == [j EXCEPT !.at = 1]
  <2>1. /\ k.at = 1 /\ k.kind = j.kind /\ k.list = j.list
        /\ k.took = j.took /\ k.spared = j.spared
    BY DEF Jobs
  <2>2. Move(t, "taking", k)
    BY <1>1, <1>3 DEF GoOn
  <2> HIDE DEF k
  <2>3. j.kind = "multi" /\ ~j.refused /\ pc[t] # "taking" /\ j.at = Len(j.list)
    BY <1>1, <1>3 DEF SecondPass, Verdict
  <2>4. ASSUME ~j.spared, NEW n \in 1..Len(j.list) PROVE Roomy(k, n, v) /\ Took(k, n, 0)
    <3>1. NoPlaces(j) /\ Roomy(j, n, v)
      BY <2>3, <2>4
    <3> QED
      BY <2>1, <3>1 DEF Roomy, Took, NoPlaces
  <2>5. Finds("taking", k, v)
    BY <2>1, <2>4 DEF Finds
  <2> QED
    BY <2>2, <2>5
<1>4. CASE j.at >= Len(j.list) /\ ~SecondPass(t, j)
  <2> DEFINE answer == IF Verdict(j) THEN "allowed" ELSE "refused"
  <2>1. Answer(t, j, answer)
    BY <1>1, <1>4 DEF GoOn
  <2>2. answer \in {"allowed", "refused", "raised"} /\ (answer = "allowed" <=> Verdict(j))
    OBVIOUS
  <2> HIDE DEF answer
  <2>3. PICK k \in Jobs :
           /\ Move(t, "done", k)
           /\ k.kind = j.kind /\ k.list = j.list /\ k.took = j.took
           /\ k.failed = j.failed /\ k.spared = j.spared /\ k.answer = answer
    BY <2>1, <2>2, AnswerMoves
  <2>4. ASSUME k.kind = "multi", ~k.spared, k.answer = "allowed", NEW n \in 1..Len(k.list)
        PROVE  Took(k, n, 1)
    <3>1. pc[t] = "taking" /\ j.at = Len(j.list)
      BY <1>1, <1>4, <2>2, <2>3, <2>4 DEF SecondPass
    <3>2. Took(j, n, 1)
      BY <2>3, <2>4, <3>1
    <3> QED
      BY <2>3, <3>2 DEF Took
  <2>5. Finds("done", k, v)
    BY <2>4 DEF Finds
  <2> QED
    BY <2>3, <2>5
<1> QED
  BY <1>1, <1>2, <1>3, <1>4

LEMMA BusyFinds ==
  ASSUME TypeOK, TaskInv, FindInv, NEW t \in Tasks, pc[t] \in Busy
  PROVE  /\ job[t] \in Jobs /\ Looks(pc[t], job[t]) /\ Now(t) \in Ids
         /\ t \notin disturbed => Finds(pc[t], job[t], used)
         /\ used \in [Known -> 0..Slots] /\ \A i \in Known : used[i] <= used[i]
<1>1. \A i \in Known : used[i] <= used[i]
  <2>1. \A i \in Known : used[i] \in 0..Slots /\ Slots \in Nat
    BY SharedParts
  <2> QED
    BY <2>1
<1> QED
  BY <1>1, BusyJob, SharedParts DEF FindInv

\* A check that is no multi-check, or is spared, is not spoken of.
LEMMA SparedFinds ==
  ASSUME TypeOK, FindInv, NEW t \in Tasks, NEW place, NEW j, Move(t, place, j),
         j.kind # "multi" \/ j.spared = TRUE, UNCHANGED used, disturbed \subseteq disturbed'
  PROVE  FindInv'
<1>1. Finds(place, j, used')
  BY DEF Finds
<1>2. used' \in [Known -> 0..Slots] /\ \A i \in Known : used'[i] <= used[i]
  <2>1. \A i \in Known : used[i] \in 0..Slots /\ Slots \in Nat
    BY SharedParts
  <2> QED
    BY <2>1, SharedParts
<1> QED
  BY <1>1, <1>2, FindsKept

LEMMA GoOnSpared ==
  ASSUME TypeOK, TaskInv, FindInv, NEW t \in Tasks, pc[t] \in Busy,
         NEW j \in Jobs, GoOn(t, j), j.at = job[t].at, j.list = job[t].list,
         pc[t] = "taking" => ~j.refused,
         j.kind # "multi" \/ j.spared = TRUE \/ (pc[t] # "taking" /\ j.refused),
         UNCHANGED used, disturbed \subseteq disturbed'
  PROVE  FindInv'
<1>1. j.at \in 1..Len(j.list)
  BY BusyFinds DEF Looks
<1>2. j.kind = "multi" /\ ~j.spared =>
        /\ pc[t] # "taking" /\ ~j.refused =>
             NoPlaces(j) /\ \A n \in 1..j.at : Roomy(j, n, used)
        /\ pc[t] = "taking" =>
             /\ \A n \in 1..j.at : Took(j, n, 1)
             /\ \A n \in (j.at + 1)..Len(j.list) : Roomy(j, n, used) /\ Took(j, n, 0)
  OBVIOUS
<1>3. PICK place, k : Move(t, place, k) /\ Finds(place, k, used)
  BY <1>1, <1>2, GoOnFinds
<1>4. \A i \in Known : used'[i] <= used[i]
  BY BusyFinds
<1>5. used' \in [Known -> 0..Slots] /\ disturbed \ {t} \subseteq disturbed'
  BY SharedParts
<1>6. Finds(place, k, used')
  BY <1>3 DEF Finds, Roomy
<1> QED
  BY <1>3, <1>4, <1>5, <1>6, FindsKept

LEMMA RaiseFinds ==
  ASSUME TypeOK, FindInv, NEW t \in Tasks, NEW j \in Jobs, Raise(t, j),
         UNCHANGED <<used, disturbed>>
  PROVE  FindInv'
<1>1. Spare(j) \in Jobs /\ Spare(j).spared = TRUE
  BY DEF Spare, Jobs
<1>2. PICK s \in Jobs, answer \in {"allowed", "refused", "raised"} :
        Answer(t, s, answer) /\ s.spared = TRUE
  BY <1>1 DEF Raise
<1>3. PICK k \in Jobs : /\ Move(t, "done", k)
                        /\ k.kind = s.kind /\ k.list = s.list /\ k.took = s.took
                        /\ k.failed = s.failed /\ k.spared = s.spared /\ k.answer = answer
  BY <1>2, AnswerMoves
<1>4. k.spared = TRUE
  BY <1>2, <1>3
<1> QED
  BY <1>3, <1>4, SparedFinds

LEMMA CallFinds ==
  ASSUME TypeOK, FindInv, NEW t \in Tasks, NEW kind \in Kinds, NEW list \in Lists,
         Call(t, kind, list)
  PROVE  FindInv'
<1> DEFINE k == [NoJob EXCEPT !.kind = kind, !.list = list]
<1>1. Move(t, "asking", k) /\ UNCHANGED <<used, disturbed>>
  BY DEF Call
<1>2. k.at = 1
  BY DEF NoJob
<1> HIDE DEF k
<1>3. Finds("asking", k, used')
  BY <1>2 DEF Finds
<1>4. used' \in [Known -> 0..Slots] /\ \A i \in Known : used'[i] <= used[i]
  <2>1. \A i \in Known : used[i] \in 0..Slots /\ Slots \in Nat
    BY SharedParts
  <2> QED
    BY <1>1, <2>1, SharedParts
<1> QED
  BY <1>1, <1>3, <1>4, FindsKept

LEMMA ReturnFinds ==
  ASSUME TypeOK, FindInv, NEW t \in Tasks, Return(t)
  PROVE  FindInv'
<1>1. Move(t, "idle", NoJob) /\ disturbed \ {t} \subseteq disturbed' /\ UNCHANGED used
  BY DEF Return
<1>2. Finds("idle", NoJob, used')
  BY DEF Finds
<1>3. used' \in [Known -> 0..Slots] /\ \A i \in Known : used'[i] <= used[i]
  <2>1. \A i \in Known : used[i] \in 0..Slots /\ Slots \in Nat
    BY SharedParts
  <2> QED
    BY <1>1, <2>1, SharedParts
<1> QED
  BY <1>1, <1>2, <1>3, FindsKept

LEMMA GrantFinds ==
  ASSUME NoRepetition, TypeOK, TaskInv, FindInv, NEW t \in Tasks, Grant(t), TypeOK'
  PROVE  FindInv'
<1> DEFINE o == job[t]
           i == Now(t)
           j == Allow([job[t] EXCEPT !.took[Now(t)] = @ + 1])
<1>1. pc[t] \in {"asking", "taking"} /\ pc[t] \in Busy /\ i \in Known /\ Free(i)
  BY DEF Grant, Asking, Busy
<1>2. /\ o \in Jobs /\ Looks(pc[t], o) /\ i \in Ids /\ i = o.list[o.at]
      /\ t \notin disturbed => Finds(pc[t], o, used)
  BY <1>1, BusyFinds DEF Now
<1>3. /\ used' = [used EXCEPT ![i] = @ + 1]
      /\ disturbed' = disturbed \cup {u \in Tasks \ {t} : pc[u] \in Busy /\ job[u].kind = "multi"}
      /\ \/ pc[t] = "asking" /\ j.kind \in Multi /\ Move(t, "peeked", j)
         \/ j.kind \in Composite /\ Move(t, "reading", j)
         \/ (pc[t] = "taking" \/ j.kind \in Single) /\ GoOn(t, j)
  BY DEF Grant
<1>4. /\ o.took \in [Ids -> Nat] /\ j \in Jobs /\ j.kind = o.kind /\ j.list = o.list
      /\ j.at = o.at /\ j.passed /\ j.refused = o.refused /\ j.failed = o.failed
      /\ j.spared = o.spared /\ j.took = [o.took EXCEPT ![i] = @ + 1]
  BY <1>2, GrantedFields
<1> HIDE DEF o, i, j
<1>5. used' \in [Known -> 0..Slots] /\ used \in [Known -> 0..Slots]
  BY DEF TypeOK
<1>6. /\ disturbed \ {t} \subseteq disturbed'
      /\ \A u \in Tasks \ {t} : pc[u] \in Busy /\ job[u].kind = "multi" => u \in disturbed'
      /\ t \notin disturbed' => t \notin disturbed
  BY <1>3
<1>7. /\ o.at \in 1..Len(o.list) /\ Len(o.list) \in Nat \ {0} /\ o.list \in Lists
      /\ \A n \in 1..Len(o.list) : o.list[n] \in Ids
  BY <1>2, BusyList DEF Looks
<1>8. ASSUME NEW n \in 1..Len(o.list), n # o.at
      PROVE  /\ Roomy(o, n, used) => Roomy(j, n, used')
             /\ Took(o, n, 0) => Took(j, n, 0)
             /\ Took(o, n, 1) => Took(j, n, 1)
  <2>1. o.list[n] # i /\ o.list[n] \in Ids
    BY <1>2, <1>7, <1>8 DEF NoRepetition
  <2>2. j.took[o.list[n]] = o.took[o.list[n]]
    BY <1>4, <2>1
  <2>3. o.list[n] \in Known => used'[o.list[n]] = used[o.list[n]]
    BY <1>3, <1>5, <2>1
  <2> QED
    BY <1>4, <2>2, <2>3 DEF Roomy, Took
<1>9. CASE pc[t] = "asking" /\ j.kind \in Multi /\ Move(t, "peeked", j)
  <2>1. ASSUME t \notin disturbed' PROVE Finds("peeked", j, used')
    <3>1. Finds("asking", o, used)
      BY <1>2, <1>6, <1>9, <2>1
    <3>2. ASSUME j.kind = "multi", ~j.spared, ~j.refused, NEW n \in 1..(j.at - 1)
          PROVE  Roomy(j, n, used')
      <4>1. n \in 1..(o.at - 1) /\ n \in 1..Len(o.list) /\ n # o.at
        BY <1>4, <1>7, <3>2
      <4>2. Roomy(o, n, used)
        BY <1>4, <3>1, <3>2, <4>1 DEF Finds
      <4> QED
        BY <1>8, <4>1, <4>2
    <3> QED
      BY <1>1, <1>2, <1>4, <3>2 DEF Finds
  <2> QED
    BY <1>5, <1>6, <1>9, <2>1, FindsKept
<1>10. CASE j.kind \in Composite /\ Move(t, "reading", j)
  <2>1. Finds("reading", j, used')
    BY <1>10 DEF Finds, Composite
  <2> QED
    BY <1>5, <1>6, <1>10, <2>1, FindsKept
<1>11. CASE (pc[t] = "taking" \/ j.kind \in Single) /\ GoOn(t, j)
  <2>1. PICK place, k : Move(t, place, k) /\ (t \notin disturbed' => Finds(place, k, used'))
    <3>1. CASE t \in disturbed'
      <4>1. \E place \in Places, k \in Jobs : Move(t, place, k)
        BY <1>4, <1>11, AnswerMoves, GoOnMoves
      <4> QED
        BY <3>1, <4>1
    <3>2. CASE t \notin disturbed'
      <4>1. ASSUME j.kind = "multi", ~j.spared
            PROVE  /\ pc[t] = "taking"
                   /\ \A n \in 1..j.at : Took(j, n, 1)
                   /\ \A n \in (j.at + 1)..Len(j.list) : Roomy(j, n, used') /\ Took(j, n, 0)
        <5>1. pc[t] = "taking"
          BY <1>11, <4>1 DEF Single
        <5>2. Finds("taking", o, used)
          BY <1>2, <1>6, <3>2, <5>1
        <5>3. /\ \A n \in 1..(o.at - 1) : Took(o, n, 1)
              /\ \A n \in o.at..Len(o.list) : Roomy(o, n, used) /\ Took(o, n, 0)
          BY <1>4, <4>1, <5>2 DEF Finds
        <5>4. Took(j, o.at, 1)
          <6>1. Took(o, o.at, 0)
            BY <1>7, <5>3
          <6>2. i \notin RateIds => o.took[i] = 0
            BY <1>2, <6>1 DEF Took
          <6>3. i \notin RateIds => j.took[i] = 1
            BY <1>2, <1>4, <6>2
          <6> QED
            BY <1>2, <1>4, <6>3 DEF Took
        <5>5. ASSUME NEW n \in 1..j.at PROVE Took(j, n, 1)
          <6>1. CASE n = o.at
            BY <5>4, <6>1
          <6>2. CASE n # o.at
            <7>1. n \in 1..(o.at - 1) /\ n \in 1..Len(o.list)
              BY <1>4, <1>7, <6>2
            <7> QED
              BY <1>8, <5>3, <6>2, <7>1
          <6> QED
            BY <6>1, <6>2
        <5>6. ASSUME NEW n \in (j.at + 1)..Len(j.list) PROVE Roomy(j, n, used') /\ Took(j, n, 0)
          <6>1. n \in o.at..Len(o.list) /\ n \in 1..Len(o.list) /\ n # o.at
            BY <1>4, <1>7
          <6> QED
            BY <1>8, <5>3, <6>1
        <5> QED
          BY <5>1, <5>5, <5>6
      <4>2. j.at \in 1..Len(j.list) /\ (pc[t] = "taking" => ~j.refused)
        BY <1>2, <1>4, <1>7 DEF Looks
      <4>3. \E place, k : Move(t, place, k) /\ Finds(place, k, used')
        BY <1>1, <1>4, <1>11, <4>1, <4>2, GoOnFinds
      <4> QED
        BY <4>3
    <3> QED
      BY <3>1, <3>2
  <2> QED
    BY <1>5, <1>6, <2>1, FindsKept
<1> QED
  BY <1>3, <1>9, <1>10, <1>11

LEMMA DenyFinds ==
  ASSUME TypeOK, TaskInv, FindInv, NEW t \in Tasks, Deny(t), TypeOK'
  PROVE  FindInv'
<1> DEFINE o == job[t]
           j == Refuse(t, job[t])
<1>1. /\ pc[t] \in {"asking", "taking"} /\ pc[t] \in Busy /\ UNCHANGED used
      /\ Now(t) \in Known /\ disturbed \subseteq disturbed'
      /\ t \notin disturbed' => ~Free(Now(t)) /\ t \notin disturbed
  BY DEF Deny, Asking, Busy
<1>2. /\ o \in Jobs /\ Looks(pc[t], o) /\ Now(t) = o.list[o.at]
      /\ t \notin disturbed => Finds(pc[t], o, used)
  BY <1>1, BusyFinds DEF Now
<1>3. /\ j \in Jobs /\ j.kind = o.kind /\ j.list = o.list /\ j.at = o.at
      /\ j.spared = o.spared /\ (pc[t] = "taking" => j = o) /\ (pc[t] # "taking" => j.refused)
  BY <1>2 DEF Refuse, Jobs
<1>4. IF o.kind \in Composite THEN Move(t, "reading", j) ELSE GoOn(t, j)
  BY DEF Deny
<1>5. o.list = job[t].list /\ o.at = job[t].at
  OBVIOUS
<1> HIDE DEF o, j
<1>6. CASE o.kind \in Composite
  <2>1. j.kind # "multi"
    BY <1>3, <1>6 DEF Composite
  <2> QED
    BY <1>1, <1>4, <1>6, <2>1, SparedFinds
<1>7. CASE o.kind \notin Composite /\ pc[t] # "taking"
  BY <1>1, <1>3, <1>4, <1>5, <1>7, GoOnSpared
<1>8. CASE o.kind \notin Composite /\ pc[t] = "taking"
  <2>1. j = o /\ GoOn(t, o) /\ o.kind = "multi" /\ ~o.refused /\ o.at \in 1..Len(o.list)
    BY <1>2, <1>3, <1>4, <1>8 DEF Looks
  <2>2. o.at \in Nat /\ Len(o.list) \in Nat
    BY <1>2, <2>1, BusyList, JobFields
  <2>3. ASSUME t \notin disturbed', ~o.spared
        PROVE  /\ \A n \in 1..o.at : Took(o, n, 1)
               /\ \A n \in (o.at + 1)..Len(o.list) : Roomy(o, n, used) /\ Took(o, n, 0)
    <3>1. /\ \A n \in 1..(o.at - 1) : Took(o, n, 1)
          /\ \A n \in o.at..Len(o.list) : Roomy(o, n, used) /\ Took(o, n, 0)
      BY <1>1, <1>2, <1>8, <2>1, <2>3 DEF Finds
    <3>2. Roomy(o, o.at, used)
      BY <2>1, <2>2, <3>1
    <3>3. Took(o, o.at, 1)
      BY <1>1, <1>2, <2>3, <3>2 DEF Roomy, Took, Free
    <3>4. \A n \in 1..o.at : n = o.at \/ n \in 1..(o.at - 1)
      BY <2>2
    <3>5. \A n \in (o.at + 1)..Len(o.list) : n \in o.at..Len(o.list)
      BY <2>1, <2>2
    <3> QED
      BY <3>1, <3>3, <3>4, <3>5
  <2>4. PICK place, k : Move(t, place, k) /\ (t \notin disturbed' => Finds(place, k, used))
    <3>1. CASE t \in disturbed'
      <4>1. \E place \in Places, k \in Jobs : Move(t, place, k)
        BY <1>2, <2>1, GoOnMoves
      <4> QED
        BY <3>1, <4>1
    <3>2. CASE t \notin disturbed'
      <4>1. \E place, k : Move(t, place, k) /\ Finds(place, k, used)
        BY <1>1, <1>2, <1>8, <2>1, <2>3, <3>2, GoOnFinds
      <4> QED
        BY <4>1
    <3> QED
      BY <3>1, <3>2
  <2>5. t \notin disturbed' => Finds(place, k, used')
    BY <1>1, <2>4 DEF Finds, Roomy
  <2>6. used' \in [Known -> 0..Slots] /\ (\A i \in Known : used'[i] <= used[i])
        /\ disturbed \ {t} \subseteq disturbed'
    BY <1>1, BusyFinds
  <2> QED
    BY <2>4, <2>5, <2>6, FindsKept
<1> QED
  BY <1>6, <1>7, <1>8

LEMMA GiveBackFinds ==
  ASSUME TypeOK, TaskInv, FindInv, NEW t \in Tasks, GiveBack(t)
  PROVE  FindInv'
<1> DEFINE o == job[t]
<1>1. pc[t] = "peeked" /\ pc[t] \in Busy /\ UNCHANGED disturbed
  BY DEF GiveBack, Busy
<1>2. /\ o \in Jobs /\ Looks("peeked", o) /\ Now(t) = o.list[o.at]
      /\ t \notin disturbed => Finds("peeked", o, used)
      /\ used \in [Known -> 0..Slots]
  BY <1>1, BusyFinds DEF Now
<1>3. PICK j \in Jobs :
        /\ GoOn(t, j) /\ NoPlaces(j) /\ j.kind = o.kind /\ j.list = o.list
        /\ j.at = o.at /\ j.refused = o.refused /\ j.failed = o.failed
        /\ j.spared = o.spared
  BY GaveBack
<1>4. /\ used' \in [Known -> 0..Slots] /\ \A i \in Known : used'[i] <= used[i]
      /\ Now(t) \in Known \ RateIds => used'[Now(t)] < Slots
  BY GaveBack
<1> HIDE DEF o
<1>5. PICK u : u = used'
  OBVIOUS
<1>6. o.at \in 1..Len(o.list) /\ o.at \in Nat
  BY <1>2, JobFields DEF Looks
<1>7. ASSUME t \notin disturbed, j.kind = "multi", ~j.spared, ~j.refused, NEW n \in 1..j.at
      PROVE  Roomy(j, n, u)
  <2>1. Finds("peeked", o, u)
    BY <1>2, <1>4, <1>5, <1>7, FindsLower
  <2>2. CASE n = o.at
    <3>1. o.list[o.at] \in Known
      BY <1>3, <1>7, <2>1 DEF Finds
    <3> QED
      BY <1>2, <1>3, <1>4, <1>5, <2>2, <3>1 DEF Roomy
  <2>3. CASE n # o.at
    <3>1. n \in 1..(o.at - 1)
      BY <1>3, <1>6, <2>3
    <3>2. Roomy(o, n, u)
      BY <1>3, <1>7, <2>1, <3>1 DEF Finds
    <3> QED
      BY <1>3, <3>2 DEF Roomy
  <2> QED
    BY <2>2, <2>3
<1>8. PICK place, k : Move(t, place, k) /\ (t \notin disturbed => Finds(place, k, u))
  <2>1. CASE t \in disturbed
    <3>1. \E place \in Places, k \in Jobs : Move(t, place, k)
      BY <1>3, GoOnMoves
    <3> QED
      BY <2>1, <3>1
  <2>2. CASE t \notin disturbed
    <3>1. \E place, k : Move(t, place, k) /\ Finds(place, k, u)
      BY <1>1, <1>3, <1>6, <1>7, <2>2, GoOnFinds
    <3> QED
      BY <3>1
  <2> QED
    BY <2>1, <2>2
<1>9. t \notin disturbed' => Finds(place, k, used')
  BY <1>1, <1>5, <1>8
<1> QED
  BY <1>1, <1>4, <1>8, <1>9, FindsKept

LEMMA StateReadFinds ==
  ASSUME TypeOK, TaskInv, FindInv, NEW t \in Tasks, StateRead(t)
  PROVE  FindInv'
<1>1. pc[t] = "reading" /\ pc[t] \in Busy /\ GoOn(t, job[t]) /\ UNCHANGED <<used, disturbed>>
  BY DEF StateRead, Busy
<1>2. job[t] \in Jobs /\ job[t].kind # "multi"
  BY <1>1, BusyFinds DEF Looks, Composite
<1> QED
  BY <1>1, <1>2, GoOnSpared

LEMMA BackendFailsFinds ==
  ASSUME TypeOK, TaskInv, FindInv, NEW t \in Tasks, BackendFails(t)
  PROVE  FindInv'
<1> DEFINE o == job[t]
<1>1. /\ pc[t] \in Busy /\ UNCHANGED <<used, disturbed>>
      /\ \/ o.kind \in Composite /\ Move(t, "reading", Spare(Allow(Failing(t))))
         \/ \E j \in {o, Failing(t)} : GoOn(t, Spare(Allow(j)))
         \/ Raise(t, Failing(t))
         \/ pc[t] = "asking" /\ GoOn(t, Refuse(t, Failing(t)))
  BY DEF BackendFails, Asking, Busy
<1>2. o \in Jobs /\ Looks(pc[t], o)
  BY <1>1, BusyFinds
<1>3. \A j \in {o, Failing(t)} : j \in Jobs /\ j.list = o.list /\ j.at = o.at /\ j.refused = o.refused
  BY <1>2, FailingFields
<1>4. pc[t] = "taking" => ~o.refused
  BY <1>2 DEF Looks
<1>5. CASE o.kind \in Composite /\ Move(t, "reading", Spare(Allow(Failing(t))))
  <2>1. Spare(Allow(Failing(t))).spared = TRUE
    BY <1>3, SparedFields
  <2> QED
    BY <1>1, <1>5, <2>1, SparedFinds
<1>6. ASSUME NEW j \in {o, Failing(t)}, GoOn(t, Spare(Allow(j))) PROVE FindInv'
  <2> DEFINE k == Spare(Allow(j))
  <2>1. /\ k \in Jobs /\ k.spared = TRUE /\ k.list = o.list /\ k.at = o.at
        /\ k.refused = o.refused
    BY <1>3, SparedFields
  <2>2. GoOn(t, k)
    BY <1>6
  <2> HIDE DEF k
  <2> QED
    BY <1>1, <1>4, <2>1, <2>2, GoOnSpared
<1>7. CASE Raise(t, Failing(t))
  BY <1>1, <1>3, <1>7, RaiseFinds
<1>8. CASE pc[t] = "asking" /\ GoOn(t, Refuse(t, Failing(t)))
  <2> DEFINE k == Refuse(t, Failing(t))
  <2>1. k \in Jobs /\ k.refused = TRUE /\ k.list = o.list /\ k.at = o.at
    BY <1>3, <1>8 DEF Refuse, Jobs
  <2>2. GoOn(t, k) /\ pc[t] # "taking"
    BY <1>8
  <2> HIDE DEF k
  <2> QED
    BY <1>1, <2>1, <2>2, GoOnSpared
<1> QED
  BY <1>1, <1>5, <1>6, <1>7, <1>8

LEMMA NotFoundFinds ==
  ASSUME TypeOK, TaskInv, FindInv, NEW t \in Tasks, NotFound(t)
  PROVE  FindInv'
<1> DEFINE o == job[t]
           k == Spare(Allow(o))
<1>1. /\ pc[t] \in Busy /\ UNCHANGED <<used, disturbed>>
      /\ GoOn(t, k) \/ Raise(t, o)
  BY DEF NotFound, Busy
<1>2. o \in Jobs /\ Looks(pc[t], o)
  BY <1>1, BusyFinds
<1>3. CASE GoOn(t, k)
  <2>1. /\ k \in Jobs /\ k.spared = TRUE /\ k.list = o.list /\ k.at = o.at
        /\ k.refused = o.refused
    BY <1>2 DEF Spare, Allow, Jobs
  <2>2. pc[t] = "taking" => ~o.refused
    BY <1>2 DEF Looks
  <2> HIDE DEF k
  <2> QED
    BY <1>1, <1>3, <2>1, <2>2, GoOnSpared
<1>4. CASE Raise(t, o)
  BY <1>1, <1>2, <1>4, RaiseFinds
<1> QED
  BY <1>1, <1>3, <1>4

LEMMA ForgetFinds ==
  ASSUME TypeOK, FindInv, NEW i \in Known, Forget(i)
  PROVE  FindInv'
<1>1. /\ used' = [used EXCEPT ![i] = 0] /\ UNCHANGED <<pc, job, disturbed>>
      /\ used \in [Known -> 0..Slots] /\ Slots \in Nat /\ job \in [Tasks -> Jobs]
  BY SharedParts DEF Forget, TypeOK
<1>2. used' \in [Known -> 0..Slots] /\ \A m \in Known : used'[m] <= used[m]
  <2>1. \A m \in Known : used[m] \in 0..Slots /\ used[m] <= used[m] /\ 0 <= used[m]
    BY <1>1
  <2> QED
    BY <1>1, <2>1
<1>3. ASSUME NEW t \in Tasks \ disturbed PROVE Finds(pc[t], job[t], used')
  <2>1. Finds(pc[t], job[t], used) /\ job[t] \in Jobs
    BY <1>1, <1>3 DEF FindInv
  <2> QED
    BY <1>1, <1>2, <2>1, FindsLower
<1>4. \A t \in Tasks \ disturbed : Finds(pc'[t], job'[t], used')
  BY <1>1, <1>3
<1> QED
  BY <1>1, <1>4 DEF FindInv, Finds, Roomy, Took

LEMMA NextFinds ==
  ASSUME NoRepetition, IInv, FindInv, [Next]_vars
  PROVE  FindInv'
<1>1. TypeOK /\ TaskInv /\ TypeOK'
  BY NextGood DEF IInv
<1>2. CASE UNCHANGED vars
  BY <1>2 DEF vars, FindInv, Finds, Roomy, Took
<1>3. ASSUME NEW t \in Tasks, NEW kind \in Kinds, NEW list \in Lists, Call(t, kind, list)
      PROVE  FindInv'
  BY <1>1, <1>3, CallFinds
<1>4. ASSUME NEW t \in Tasks,
             \/ Return(t) \/ Grant(t) \/ Deny(t) \/ GiveBack(t) \/ StateRead(t)
             \/ BackendFails(t) \/ NotFound(t)
      PROVE  FindInv'
  BY <1>1, <1>4, ReturnFinds, GrantFinds, DenyFinds, GiveBackFinds, StateReadFinds,
     BackendFailsFinds, NotFoundFinds
<1>5. ASSUME NEW t \in Tasks, OtherFailure(t) PROVE FindInv'
  <2>1. Raise(t, Failing(t)) /\ UNCHANGED <<used, disturbed>>
    BY <1>5 DEF OtherFailure
  <2>2. Failing(t) \in Jobs
    BY <1>1, FailingFields
  <2> QED
    BY <1>1, <2>1, <2>2, RaiseFinds
<1>6. ASSUME NEW i \in Known, Forget(i) PROVE FindInv'
  BY <1>1, <1>6, ForgetFinds
<1> QED
  BY <1>2, <1>3, <1>4, <1>5, <1>6 DEF Next

\* Where no list names a limiter twice, check_multi_limiters acquires from all the
\* limiters it allows, as long as they count places and no other check gets a slot
\* between its two passes.
THEOREM UndisturbedTakes ==
  ASSUME NoRepetition
  PROVE  Spec => []UndisturbedTakesAll
<1>1. Init => FindInv
  <2> SUFFICES ASSUME Init, NEW t \in Tasks PROVE Finds(pc[t], job[t], used)
    BY DEF FindInv
  <2>1. pc[t] = "idle"
    BY DEF Init
  <2> QED
    BY <2>1 DEF Finds
<1>2. IInv /\ FindInv /\ [Next]_vars => FindInv'
  BY NextFinds
<1>3. FindInv => UndisturbedTakesAll
  <2> SUFFICES ASSUME FindInv, NEW t \in Answered({"multi"}) \ disturbed,
                      job[t].answer = "allowed", ~job[t].spared,
                      NEW i \in Listed(job[t]) \ RateIds
               PROVE  job[t].took[i] = 1
    BY DEF UndisturbedTakesAll
  <2>1. Finds("done", job[t], used) /\ job[t].kind = "multi"
    BY DEF FindInv, Answered
  <2>2. PICK n \in 1..Len(job[t].list) : i = job[t].list[n]
    BY DEF Listed
  <2>3. Took(job[t], n, 1)
    BY <2>1 DEF Finds
  <2> QED
    BY <2>2, <2>3 DEF Took
<1> QED
  BY Invariant, <1>1, <1>2, <1>3, PTL DEF Spec
=============================================================================

------------------------------- MODULE Ages -------------------------------
(***************************************************************************)
(* Grants are remembered as a sequence of ages, in ticks, oldest first, or *)
(* by how many of them there are of each age.                              *)
(***************************************************************************)
EXTENDS Naturals, Sequences, FiniteSets

Older(ages) == [i \in DOMAIN ages |-> ages[i] + 1]

\* The ages left when those of span and more are popped from the front.
Fresh(ages, span) ==
  LET popped == {k \in DOMAIN ages : \A i \in 1..k : ages[i] >= span}
  IN  SubSeq(ages, Cardinality(popped) + 1, Len(ages))

\* One more grant now; a period of no length remembers none.
Grant(ages, span) == IF span = 0 THEN ages ELSE Append(ages, 0)

\* Where numbers[a] grants have the age a: those of some ages, each with its age
\* and its number among those of that age, and how many they are.
Members(numbers, some) == UNION {{a} \X (1..numbers[a]) : a \in some}
Total(numbers, some)   == Cardinality(Members(numbers, some))
===========================================================================

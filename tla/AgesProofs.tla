----------------------------- MODULE AgesProofs -----------------------------
(***************************************************************************)
(* Lemmas about sequences of ages: what popping the old ones leaves, and   *)
(* when a sequence of timestamps still remembers every recent grant; about *)
(* how many grants of some ages there are; and about queues.               *)
(***************************************************************************)
EXTENDS Ages, SequencesExt, FiniteSetTheorems, SequenceTheorems, WellFoundedInduction, TLAPS

LEMMA SeqOfFunction ==
  ASSUME NEW S, NEW n \in Nat, NEW f \in [1..n -> S]
  PROVE  f \in Seq(S) /\ Len(f) = n
  OBVIOUS

LEMMA SeqElements ==
  ASSUME NEW S, NEW q \in Seq(S)
  PROVE  /\ Len(q) \in Nat
         /\ DOMAIN q = 1..Len(q)
         /\ \A i \in 1..Len(q) : q[i] \in S
  OBVIOUS

LEMMA IntervalCardinality ==
  ASSUME NEW n \in Nat
  PROVE  IsFiniteSet(1..n) /\ Cardinality(1..n) = n
<1>1. 1 \in Int /\ n \in Int
  OBVIOUS
<1>2. IsFiniteSet(1..n) /\ Cardinality(1..n) = IF 1 > n THEN 0 ELSE n - 1 + 1
  BY <1>1, FS_Interval
<1> QED
  BY <1>2

\* r is q without its first n elements.
IsDrop(r, q, n) ==
  /\ Len(r) = Len(q) - n
  /\ \A i \in 1..(Len(q) - n) : r[i] = q[n + i]

LEMMA SubSeqDrops ==
  ASSUME NEW S, NEW q \in Seq(S), NEW n \in 0..Len(q)
  PROVE  /\ SubSeq(q, n + 1, Len(q)) \in Seq(S)
         /\ IsDrop(SubSeq(q, n + 1, Len(q)), q, n)
<1> DEFINE r == SubSeq(q, n + 1, Len(q))
<1>1. \A i \in (n+1)..Len(q) : q[i] \in S
  OBVIOUS
<1>2. /\ r \in Seq(S)
      /\ Len(r) = IF n + 1 <= Len(q) THEN Len(q) - (n + 1) + 1 ELSE 0
      /\ \A i \in 1..(Len(q) - (n + 1) + 1) : r[i] = q[n + 1 + i - 1]
  BY <1>1, SubSeqProperties, n + 1 \in Int, Len(q) \in Int
<1> QED
  BY <1>2 DEF IsDrop

\* r is ages without its first n, all of them of span and more, and without
\* no more than those.
Pops(r, ages, span, n) ==
  /\ n \in 0..Len(ages)
  /\ IsDrop(r, ages, n)
  /\ \A i \in 1..n : ages[i] >= span
  /\ n < Len(ages) => ages[n + 1] < span

LEMMA FreshPops ==
  ASSUME NEW S \in SUBSET Nat, NEW ages \in Seq(S), NEW span \in Nat,
         NEW r, r = Fresh(ages, span)
  PROVE  r \in Seq(S) /\ \E n \in 0..Len(ages) : Pops(r, ages, span, n)
<1> DEFINE popped == {k \in DOMAIN ages : \A i \in 1..k : ages[i] >= span}
           n == Cardinality(popped)
<1>1. /\ Len(ages) \in Nat
      /\ DOMAIN ages = 1..Len(ages)
      /\ \A i \in 1..Len(ages) : ages[i] \in Nat
  BY SeqElements
<1>2. IsFiniteSet(1..Len(ages)) /\ Cardinality(1..Len(ages)) = Len(ages)
  BY <1>1, IntervalCardinality
<1>3. popped \in SUBSET (1..Len(ages))
  BY <1>1
<1>4. r = SubSeq(ages, n + 1, Len(ages))
  BY DEF Fresh
<1>5. \A k \in popped : 1..k \in SUBSET popped
  <2>1. SUFFICES ASSUME NEW k \in popped, NEW j \in 1..k PROVE j \in popped
    OBVIOUS
  <2>2. k \in 1..Len(ages) /\ \A i \in 1..k : ages[i] >= span
    BY <1>1
  <2>3. j \in 1..Len(ages) /\ \A i \in 1..j : i \in 1..k
    BY <1>1, <2>2
  <2> QED
    BY <1>1, <2>2, <2>3
<1>6. \A k \in 1..Len(ages) : k \in popped <=> \A i \in 1..k : ages[i] >= span
  BY <1>1
<1> HIDE DEF popped
<1>7. IsFiniteSet(popped) /\ n <= Len(ages) /\ n \in Nat
  BY <1>2, <1>3, FS_Subset, FS_CardinalityType
<1>8. popped = 1..n
  <2>1. ASSUME NEW k \in popped PROVE k \in 1..n
    <3>1. k \in 1..Len(ages) /\ 1..k \in SUBSET popped
      BY <1>3, <1>5
    <3>2. Cardinality(1..k) = k
      BY <1>1, <3>1, IntervalCardinality
    <3>3. Cardinality(1..k) <= n
      BY <1>7, <3>1, FS_Subset
    <3> HIDE DEF n
    <3> QED
      BY <1>1, <1>7, <3>1, <3>2, <3>3
  <2>2. popped \in SUBSET (1..n)
    BY <2>1
  <2> HIDE DEF n
  <2>3. IsFiniteSet(1..n) /\ Cardinality(1..n) = n
    BY <1>7, IntervalCardinality
  <2> USE DEF n
  <2> QED
    BY <2>2, <2>3, FS_Subset
<1> HIDE DEF n
<1>9. n \in 0..Len(ages)
  BY <1>1, <1>7
<1>10. r \in Seq(S) /\ IsDrop(r, ages, n)
  BY <1>4, <1>9, SubSeqDrops
<1>11. \A i \in 1..n : ages[i] >= span
  BY <1>1, <1>6, <1>8, <1>9
<1>12. ASSUME n < Len(ages) PROVE ages[n + 1] < span
  <2>1. n + 1 \in 1..Len(ages) /\ n + 1 \notin 1..n
    BY <1>1, <1>9, <1>12
  <2>2. PICK i \in 1..(n + 1) : ~(ages[i] >= span)
    BY <1>6, <1>8, <2>1
  <2>3. i = n + 1
    BY <1>9, <1>11, <2>2
  <2> QED
    BY <1>1, <2>1, <2>2, <2>3
<1> QED
  BY <1>9, <1>10, <1>11, <1>12 DEF Pops

-----------------------------------------------------------------------------
\* Oldest first.
Sorted(ages) == \A i, j \in 1..Len(ages) : i < j => ages[i] >= ages[j]

\* Nothing old is left of a sorted sequence.
LEMMA FreshSorted ==
  ASSUME NEW S \in SUBSET Nat, NEW ages \in Seq(S), NEW span \in Nat,
         NEW r, r = Fresh(ages, span), Sorted(ages)
  PROVE  Sorted(r) /\ r \in Seq(0..span-1)
<1>1. PICK n \in 0..Len(ages) : Pops(r, ages, span, n)
  BY FreshPops
<1>2. r \in Seq(S)
  BY FreshPops
<1>3. Len(ages) \in Nat /\ \A i \in 1..Len(ages) : ages[i] \in Nat
  BY SeqElements
<1>4. /\ Len(r) = Len(ages) - n /\ Len(r) \in Nat
      /\ \A i \in 1..Len(r) : r[i] = ages[n + i] /\ n + i \in 1..Len(ages)
  BY <1>1, <1>3 DEF Pops, IsDrop
<1>5. Sorted(r)
  <2>1. SUFFICES ASSUME NEW i \in 1..Len(r), NEW j \in 1..Len(r), i < j
                 PROVE  r[i] >= r[j]
    BY DEF Sorted
  <2>2. /\ n + i \in 1..Len(ages) /\ n + j \in 1..Len(ages) /\ n + i < n + j
        /\ r[i] = ages[n + i] /\ r[j] = ages[n + j]
    BY <1>4, <2>1
  <2> QED
    BY <2>2 DEF Sorted
<1>6. \A i \in 1..Len(r) : r[i] \in 0..span-1
  <2>1. SUFFICES ASSUME NEW i \in 1..Len(r) PROVE r[i] \in 0..span-1
    OBVIOUS
  <2>2. n + 1 \in 1..Len(ages) /\ n < Len(ages) /\ n + i \in 1..Len(ages)
    BY <1>1, <1>3, <1>4, <2>1
  <2>3. ages[n + 1] < span
    BY <1>1, <2>2 DEF Pops
  <2>4. ages[n + i] <= ages[n + 1]
    BY <1>3, <2>1, <2>2 DEF Sorted
  <2> QED
    BY <1>3, <1>4, <2>2, <2>3, <2>4
<1>7. r \in [1..Len(r) -> 0..span-1]
  BY <1>2, <1>6, SeqElements
<1> QED
  BY <1>4, <1>5, <1>7, SeqOfFunction

\* grants are the last of ages, and all before them are of span and more.
Remembers(ages, grants, span) ==
  \E n \in 0..Len(ages) :
    /\ IsDrop(grants, ages, n)
    /\ \A i \in 1..n : ages[i] >= span

\* Popping what is older than the span forgets no grant.
LEMMA RemembersFresh ==
  ASSUME NEW S \in SUBSET Nat, NEW ages \in Seq(S), NEW span \in Nat,
         NEW grants \in Seq(0..span-1), Remembers(ages, grants, span),
         NEW horizon \in Nat, span <= horizon, NEW r, r = Fresh(ages, horizon)
  PROVE  Remembers(r, grants, span) /\ Len(grants) <= Len(r)
<1>1. PICK n \in 0..Len(ages) : IsDrop(grants, ages, n) /\ \A i \in 1..n : ages[i] >= span
  BY DEF Remembers
<1>2. PICK m \in 0..Len(ages) : Pops(r, ages, horizon, m)
  BY FreshPops
<1>3. /\ Len(ages) \in Nat /\ \A i \in 1..Len(ages) : ages[i] \in Nat
      /\ Len(grants) \in Nat /\ \A i \in 1..Len(grants) : grants[i] \in 0..span-1
  BY SeqElements
<1>4. m <= n
  <2>1. SUFFICES ASSUME n < m PROVE FALSE
    BY <1>1, <1>2
  <2>2. ages[n + 1] >= horizon
    BY <1>1, <1>2, <2>1 DEF Pops
  <2>3. 1 \in 1..Len(grants) /\ grants[1] = ages[n + 1]
    BY <1>1, <1>2, <1>3, <2>1 DEF IsDrop
  <2> QED
    BY <1>3, <2>2, <2>3
<1>5. /\ Len(r) = Len(ages) - m
      /\ \A i \in 1..(Len(ages) - m) : r[i] = ages[m + i]
  BY <1>2 DEF Pops, IsDrop
<1>6. /\ Len(grants) = Len(ages) - n
      /\ \A i \in 1..(Len(ages) - n) : grants[i] = ages[n + i]
  BY <1>1 DEF IsDrop
<1>7. n - m \in 0..Len(r)
  BY <1>1, <1>2, <1>3, <1>4, <1>5
<1>8. IsDrop(grants, r, n - m)
  <2>1. Len(grants) = Len(r) - (n - m)
    BY <1>1, <1>2, <1>3, <1>5, <1>6
  <2>2. ASSUME NEW i \in 1..(Len(r) - (n - m)) PROVE grants[i] = r[(n - m) + i]
    <3>1. /\ i \in 1..(Len(ages) - n)
          /\ (n - m) + i \in 1..(Len(ages) - m)
          /\ m + ((n - m) + i) = n + i
      BY <1>1, <1>2, <1>3, <1>4, <1>5
    <3> QED
      BY <1>5, <1>6, <3>1
  <2> QED
    BY <2>1, <2>2 DEF IsDrop
<1>9. ASSUME NEW i \in 1..(n - m) PROVE r[i] >= span
  <2>1. m + i \in 1..n /\ i \in 1..(Len(ages) - m)
    BY <1>1, <1>2, <1>3, <1>4
  <2> QED
    BY <1>1, <1>5, <2>1
<1>10. Remembers(r, grants, span)
  BY <1>7, <1>8, <1>9 DEF Remembers
<1>11. Len(grants) <= Len(r)
  BY <1>1, <1>2, <1>3, <1>4, <1>5, <1>6
<1> QED
  BY <1>10, <1>11

\* A grant recorded in both is remembered.
LEMMA RemembersGrant ==
  ASSUME NEW S \in SUBSET Nat, 0 \in S, NEW ages \in Seq(S), NEW span \in Nat \ {0},
         NEW grants \in Seq(0..span-1), Remembers(ages, grants, span)
  PROVE  Remembers(Append(ages, 0), Append(grants, 0), span)
<1>1. PICK n \in 0..Len(ages) : IsDrop(grants, ages, n) /\ \A i \in 1..n : ages[i] >= span
  BY DEF Remembers
<1> DEFINE a == Append(ages, 0)
           g == Append(grants, 0)
<1>2. /\ Len(ages) \in Nat /\ Len(a) = Len(ages) + 1
      /\ \A i \in 1..Len(ages) : a[i] = ages[i]
      /\ a[Len(ages) + 1] = 0
  OBVIOUS
<1>3. /\ Len(grants) \in Nat /\ Len(g) = Len(grants) + 1
      /\ \A i \in 1..Len(grants) : g[i] = grants[i]
      /\ g[Len(grants) + 1] = 0
  OBVIOUS
<1> HIDE DEF a, g
<1>4. /\ Len(grants) = Len(ages) - n
      /\ \A i \in 1..(Len(ages) - n) : grants[i] = ages[n + i]
  BY <1>1 DEF IsDrop
<1>5. IsDrop(g, a, n)
  <2>1. Len(g) = Len(a) - n
    BY <1>2, <1>3, <1>4
  <2>2. ASSUME NEW i \in 1..(Len(a) - n) PROVE g[i] = a[n + i]
    <3>1. CASE i = Len(grants) + 1
      <4>1. n + i = Len(ages) + 1
        BY <1>2, <1>3, <1>4, <3>1
      <4> QED
        BY <1>2, <1>3, <3>1, <4>1
    <3>2. CASE i # Len(grants) + 1
      <4>1. i \in 1..Len(grants) /\ i \in 1..(Len(ages) - n) /\ n + i \in 1..Len(ages)
        BY <1>2, <1>3, <1>4, <3>2
      <4> QED
        BY <1>2, <1>3, <1>4, <4>1
    <3> QED
      BY <3>1, <3>2
  <2> QED
    BY <2>1, <2>2 DEF IsDrop
<1>6. n \in 0..Len(a) /\ \A i \in 1..n : a[i] >= span
  BY <1>1, <1>2
<1>7. Remembers(a, g, span)
  BY <1>5, <1>6 DEF Remembers
<1> QED
  BY <1>7 DEF a, g

\* So is every grant still in the span when both grow older; ages of span and
\* more may be kept as they are.
LEMMA RemembersOlder ==
  ASSUME NEW S \in SUBSET Nat, NEW ages \in Seq(S), NEW older \in Seq(S),
         NEW span \in Nat, NEW grants \in Seq(0..span-1), Sorted(grants),
         Remembers(ages, grants, span),
         Len(older) = Len(ages),
         \A i \in 1..Len(ages) :
           /\ ages[i] < span => older[i] = ages[i] + 1
           /\ ages[i] >= span => older[i] >= span,
         NEW g, g = Fresh(Older(grants), span)
  PROVE  Remembers(older, g, span) /\ Len(g) <= Len(grants)
<1> DEFINE o == Older(grants)
<1>1. /\ Len(grants) \in Nat /\ DOMAIN grants = 1..Len(grants)
      /\ \A i \in 1..Len(grants) : grants[i] \in 0..span-1
      /\ Len(ages) \in Nat /\ \A i \in 1..Len(ages) : ages[i] \in Nat
  BY SeqElements
<1>2. /\ o \in Seq(Nat) /\ Len(o) = Len(grants)
      /\ \A i \in 1..Len(grants) : o[i] = grants[i] + 1
  <2>1. o = [i \in 1..Len(grants) |-> grants[i] + 1]
    BY <1>1 DEF Older
  <2>2. o \in [1..Len(grants) -> Nat]
    BY <1>1, <2>1
  <2> QED
    BY <1>1, <2>1, <2>2, SeqOfFunction
<1> HIDE DEF o
<1>3. g = Fresh(o, span)
  BY DEF o
<1>4. PICK m \in 0..Len(o) : Pops(g, o, span, m)
  BY <1>2, <1>3, FreshPops
<1>5. PICK n \in 0..Len(ages) : IsDrop(grants, ages, n) /\ \A i \in 1..n : ages[i] >= span
  BY DEF Remembers
<1>6. /\ Len(grants) = Len(ages) - n
      /\ \A i \in 1..(Len(ages) - n) : grants[i] = ages[n + i]
  BY <1>5 DEF IsDrop
<1>7. /\ Len(g) = Len(o) - m
      /\ \A i \in 1..(Len(o) - m) : g[i] = o[m + i]
      /\ \A i \in 1..m : o[i] >= span
  BY <1>4 DEF Pops, IsDrop
<1>8. \A i \in 1..Len(grants) : n + i \in 1..Len(ages) /\ older[n + i] = o[i]
  <2>1. SUFFICES ASSUME NEW i \in 1..Len(grants)
                 PROVE  n + i \in 1..Len(ages) /\ older[n + i] = o[i]
    OBVIOUS
  <2>2. n + i \in 1..Len(ages) /\ grants[i] = ages[n + i]
    BY <1>1, <1>5, <1>6
  <2>3. ages[n + i] < span
    BY <1>1, <2>2
  <2> QED
    BY <1>2, <2>2, <2>3
<1>9. n + m \in 0..Len(older)
  BY <1>1, <1>2, <1>4, <1>5, <1>6
<1>10. IsDrop(g, older, n + m)
  <2>1. Len(g) = Len(older) - (n + m)
    BY <1>1, <1>2, <1>4, <1>5, <1>6, <1>7
  <2>2. ASSUME NEW i \in 1..(Len(older) - (n + m)) PROVE g[i] = older[(n + m) + i]
    <3>1. i \in 1..(Len(o) - m) /\ m + i \in 1..Len(grants) /\ n + (m + i) = (n + m) + i
      BY <1>1, <1>2, <1>4, <1>5, <1>6, <1>7
    <3> QED
      BY <1>7, <1>8, <3>1
  <2> QED
    BY <2>1, <2>2 DEF IsDrop
<1>11. ASSUME NEW i \in 1..(n + m) PROVE older[i] >= span
  <2>1. CASE i \in 1..n
    <3>1. i \in 1..Len(ages) /\ ages[i] >= span
      BY <1>1, <1>5, <2>1
    <3> QED
      BY <3>1
  <2>2. CASE i \notin 1..n
    <3>1. i - n \in 1..m /\ i - n \in 1..Len(grants) /\ n + (i - n) = i
      BY <1>2, <1>4, <1>5, <2>2
    <3> QED
      BY <1>7, <1>8, <3>1
  <2> QED
    BY <2>1, <2>2
<1>12. Len(g) <= Len(grants)
  BY <1>1, <1>2, <1>4, <1>7
<1> QED
  BY <1>9, <1>10, <1>11, <1>12 DEF Remembers

\* Grants stay sorted and in the span when they grow older.
LEMMA OlderTyped ==
  ASSUME NEW span \in Nat, NEW grants \in Seq(0..span-1), Sorted(grants),
         NEW g, g = Fresh(Older(grants), span)
  PROVE  g \in Seq(0..span-1) /\ Sorted(g) /\ Len(g) <= Len(grants)
<1> DEFINE o == Older(grants)
<1>1. /\ Len(grants) \in Nat /\ DOMAIN grants = 1..Len(grants)
      /\ \A i \in 1..Len(grants) : grants[i] \in 0..span-1
  BY SeqElements
<1>2. /\ o \in Seq(Nat) /\ Len(o) = Len(grants)
      /\ \A i \in 1..Len(grants) : o[i] = grants[i] + 1
  <2>1. o = [i \in 1..Len(grants) |-> grants[i] + 1]
    BY <1>1 DEF Older
  <2>2. o \in [1..Len(grants) -> Nat]
    BY <1>1, <2>1
  <2> QED
    BY <1>1, <2>1, <2>2, SeqOfFunction
<1>3. Sorted(o)
  BY <1>1, <1>2 DEF Sorted
<1> HIDE DEF o
<1>4. g = Fresh(o, span)
  BY DEF o
<1>5. g \in Seq(0..span-1) /\ Sorted(g)
  BY <1>2, <1>3, <1>4, FreshSorted
<1>6. PICK m \in 0..Len(o) : Pops(g, o, span, m)
  BY <1>2, <1>4, FreshPops
<1> QED
  BY <1>1, <1>2, <1>5, <1>6 DEF Pops, IsDrop

\* One more grant now keeps them so.
LEMMA GrantTyped ==
  ASSUME NEW span \in Nat, NEW grants \in Seq(0..span-1), Sorted(grants),
         NEW g, g = Grant(grants, span)
  PROVE  /\ g \in Seq(0..span-1)
         /\ Sorted(g)
         /\ span > 0 => g = Append(grants, 0) /\ Len(g) = Len(grants) + 1
<1>1. CASE span = 0
  BY <1>1 DEF Grant
<1>2. CASE span # 0
  <2> DEFINE Age == 0..span-1
  <2>1. g = Append(grants, 0) /\ 0 \in Age /\ grants \in Seq(Age)
    BY <1>2 DEF Grant
  <2>2. \A i \in 1..Len(grants) : grants[i] \in Nat
    BY SeqElements
  <2> HIDE DEF Age
  <2>3. /\ g \in Seq(Age) /\ Len(g) = Len(grants) + 1 /\ Len(grants) \in Nat
        /\ \A i \in 1..Len(grants) : g[i] = grants[i]
        /\ g[Len(grants) + 1] = 0
    BY <2>1
  <2>4. Sorted(g)
    BY <2>2, <2>3 DEF Sorted
  <2> QED
    BY <2>1, <2>3, <2>4 DEF Age
<1> QED
  BY <1>1, <1>2

-----------------------------------------------------------------------------
(* How many there are of some ages *)

LEMMA MembersOf ==
  ASSUME NEW f, NEW S
  PROVE  /\ \A a \in S : \A n \in 1..f[a] : <<a, n>> \in Members(f, S)
         /\ \A m \in Members(f, S) : \E a \in S : \E n \in 1..f[a] : m = <<a, n>>
         /\ \A a, n : <<a, n>> \in Members(f, S) => a \in S /\ n \in 1..f[a]
  BY DEF Members

LEMMA TotalType ==
  ASSUME NEW S, IsFiniteSet(S), NEW f, \A a \in S : f[a] \in Nat
  PROVE  IsFiniteSet(Members(f, S)) /\ Total(f, S) \in Nat
<1> DEFINE Of(a) == {a} \X (1..f[a])
           Parts == {Of(a) : a \in S}
           g == [a \in S |-> Of(a)]
<1>1. g \in Surjection(S, Parts)
  BY DEF Surjection
<1>2. IsFiniteSet(Parts)
  <2> HIDE DEF g, Parts
  <2> QED
    BY <1>1, FS_Surjection
<1>3. ASSUME NEW a \in S PROVE IsFiniteSet(Of(a))
  BY IntervalCardinality, FS_Singleton, FS_Product
<1>4. IsFiniteSet(UNION Parts)
  <2>1. \A T \in Parts : IsFiniteSet(T)
    BY <1>3
  <2> HIDE DEF Parts
  <2> QED
    BY <1>2, <2>1, FS_UNION
<1>5. Members(f, S) = UNION Parts
  BY DEF Members
<1> QED
  BY <1>4, <1>5, FS_CardinalityType DEF Total

\* Fewer of each age, of ages among those counted, are fewer.
LEMMA TotalWithin ==
  ASSUME NEW R, NEW f, \A a \in R : f[a] \in Nat,
         NEW S, IsFiniteSet(S), NEW g, \A a \in S : g[a] \in Nat,
         \A a \in R : f[a] > 0 => a \in S /\ f[a] <= g[a]
  PROVE  Total(f, R) <= Total(g, S)
<1>1. Members(f, R) \subseteq Members(g, S)
  <2> SUFFICES ASSUME NEW m \in Members(f, R) PROVE m \in Members(g, S)
    OBVIOUS
  <2>1. PICK a \in R : \E n \in 1..f[a] : m = <<a, n>>
    BY MembersOf
  <2>2. PICK n \in 1..f[a] : m = <<a, n>>
    BY <2>1
  <2>3. f[a] \in Nat /\ f[a] > 0 /\ n \in Nat /\ n <= f[a] /\ 1 <= n
    BY <2>2
  <2>4. a \in S /\ f[a] <= g[a] /\ g[a] \in Nat
    BY <2>3
  <2>5. n \in 1..g[a]
    BY <2>3, <2>4
  <2> QED
    BY <2>2, <2>4, <2>5, MembersOf
<1> QED
  BY <1>1, TotalType, FS_Subset DEF Total

LEMMA TotalMonotone ==
  ASSUME NEW S, IsFiniteSet(S), NEW R \in SUBSET S,
         NEW f, \A a \in R : f[a] \in Nat, NEW g, \A a \in S : g[a] \in Nat,
         \A a \in R : f[a] <= g[a]
  PROVE  Total(f, R) <= Total(g, S)
  BY TotalWithin

\* A set of natural numbers has a least element.
LEMMA LeastNatural ==
  ASSUME NEW S \in SUBSET Nat, S # {}
  PROVE  \E a \in S : \A b \in S : a <= b
<1> DEFINE Smaller == {p \in Nat \X Nat : p[1] < p[2]}
<1>1. IsWellFoundedOn(Smaller, Nat)
  BY NatLessThanWellFounded DEF OpToRel
<1>2. PICK a \in S : \A b \in S : ~(<<b, a>> \in Smaller)
  <2> HIDE DEF Smaller
  <2> QED
    BY <1>1, WFMin
<1>3. ASSUME NEW b \in S, ~(a <= b) PROVE FALSE
  <2>1. a \in Nat /\ b \in Nat /\ b < a
    BY <1>3
  <2>2. <<b, a>> \in Smaller
    BY <2>1
  <2> QED
    BY <1>2, <2>2
<1> QED
  BY <1>3

\* Among bounded ages there is an oldest.
LEMMA GreatestNatural ==
  ASSUME NEW n \in Nat, NEW S \in SUBSET (0..n), S # {}
  PROVE  \E a \in S : \A b \in S : b <= a
<1> DEFINE Rest == {k \in 0..n : n - k \in S}
<1>1. ASSUME NEW b \in S PROVE b \in 0..n /\ n - b \in Rest
  <2>1. b \in 0..n /\ n - b \in 0..n /\ n - (n - b) = b
    OBVIOUS
  <2> QED
    BY <2>1
<1>2. Rest # {} /\ Rest \in SUBSET Nat
  <2>1. PICK b \in S : TRUE
    OBVIOUS
  <2>2. n - b \in Rest
    BY <1>1
  <2> QED
    BY <2>2
<1>3. PICK k \in Rest : \A l \in Rest : k <= l
  <2> HIDE DEF Rest
  <2> QED
    BY <1>2, LeastNatural
<1>4. k \in 0..n /\ n - k \in S
  OBVIOUS
<1> HIDE DEF Rest
<1>5. ASSUME NEW b \in S PROVE b <= n - k
  <2>1. b \in 0..n /\ k <= n - b
    BY <1>1, <1>3
  <2> QED
    BY <1>4, <2>1
<1> QED
  BY <1>4, <1>5

LEMMA TotalZero ==
  ASSUME NEW S, NEW f, \A a \in S : f[a] = 0
  PROVE  Total(f, S) = 0
<1>1. Members(f, S) = {}
  <2> SUFFICES ASSUME NEW m \in Members(f, S) PROVE FALSE
    OBVIOUS
  <2>1. PICK a \in S : \E n \in 1..f[a] : m = <<a, n>>
    BY MembersOf
  <2> QED
    BY <2>1
<1> QED
  BY <1>1, FS_EmptySet DEF Total

LEMMA TotalPositive ==
  ASSUME NEW S, NEW f, \A a \in S : f[a] \in Nat, Total(f, S) # 0
  PROVE  \E a \in S : f[a] > 0
<1> SUFFICES ASSUME \A a \in S : ~(f[a] > 0) PROVE FALSE
  OBVIOUS
<1>1. \A a \in S : f[a] = 0
  OBVIOUS
<1> QED
  BY <1>1, TotalZero

\* One more of one age is one more.
LEMMA TotalOneMore ==
  ASSUME NEW S, IsFiniteSet(S), NEW f, \A a \in S : f[a] \in Nat,
         NEW g, NEW b \in S, g[b] = f[b] + 1, \A a \in S \ {b} : g[a] = f[a]
  PROVE  Total(g, S) = Total(f, S) + 1
<1> DEFINE new == <<b, f[b] + 1>>
<1>1. Members(g, S) = Members(f, S) \cup {new}
  <2>1. ASSUME NEW m \in Members(g, S) PROVE m \in Members(f, S) \cup {new}
    <3>1. PICK a \in S : \E n \in 1..g[a] : m = <<a, n>>
      BY MembersOf
    <3>2. PICK n \in 1..g[a] : m = <<a, n>>
      BY <3>1
    <3>3. a = b => n \in 1..f[b] \/ n = f[b] + 1
      BY <3>2
    <3>4. a # b => n \in 1..f[a]
      BY <3>2
    <3> QED
      BY <3>2, <3>3, <3>4, MembersOf
  <2>2. ASSUME NEW m \in Members(f, S) PROVE m \in Members(g, S)
    <3>1. PICK a \in S : \E n \in 1..f[a] : m = <<a, n>>
      BY MembersOf
    <3>2. PICK n \in 1..f[a] : m = <<a, n>>
      BY <3>1
    <3>3. n \in 1..g[a]
      BY <3>2
    <3> QED
      BY <3>2, <3>3, MembersOf
  <2>3. new \in Members(g, S)
    <3>1. f[b] + 1 \in 1..g[b]
      OBVIOUS
    <3> QED
      BY <3>1, MembersOf
  <2> QED
    BY <2>1, <2>2, <2>3
<1>2. new \notin Members(f, S)
  <2> SUFFICES ASSUME new \in Members(f, S) PROVE FALSE
    OBVIOUS
  <2>1. f[b] + 1 \in 1..f[b] /\ f[b] \in Nat
    BY MembersOf
  <2> QED
    BY <2>1
<1> HIDE DEF new
<1> QED
  BY <1>1, <1>2, TotalType, FS_AddElement DEF Total

\* A tick makes none; those whose age is no longer among the ages are gone.
LEMMA TotalShift ==
  ASSUME NEW R, NEW S, IsFiniteSet(S), NEW f, \A a \in S : f[a] \in Nat,
         NEW g, \A a \in R : a \in Nat /\ (a = 0 => g[a] = 0)
                          /\ (a # 0 => a - 1 \in S /\ g[a] = f[a - 1])
  PROVE  Total(g, R) <= Total(f, S)
<1> DEFINE M == Members(g, R)
           N == Members(f, S)
           back == [m \in M |-> <<m[1] - 1, m[2]>>]
<1>1. ASSUME NEW m \in M
      PROVE  /\ m = <<m[1], m[2]>> /\ m[1] \in Nat \ {0}
             /\ <<m[1] - 1, m[2]>> \in N
  <2>1. PICK a \in R : \E n \in 1..g[a] : m = <<a, n>>
    BY MembersOf
  <2>2. PICK n \in 1..g[a] : m = <<a, n>>
    BY <2>1
  <2>3. a \in Nat \ {0} /\ a - 1 \in S /\ n \in 1..f[a - 1]
    BY <2>2
  <2>4. <<a - 1, n>> \in N
    BY <2>3, MembersOf
  <2>5. m[1] = a /\ m[2] = n
    BY <2>2
  <2> HIDE DEF N
  <2> QED
    BY <2>2, <2>3, <2>4, <2>5
<1> HIDE DEF M, N
<1>2. back \in [M -> N]
  BY <1>1
<1>3. ASSUME NEW l \in M, NEW m \in M, back[l] = back[m] PROVE l = m
  <2>1. <<l[1] - 1, l[2]>> = <<m[1] - 1, m[2]>>
    BY <1>3
  <2>2. l[1] - 1 = m[1] - 1 /\ l[2] = m[2]
    BY <2>1
  <2>3. l[1] \in Nat /\ m[1] \in Nat
    BY <1>1
  <2>4. l[1] = m[1]
    BY <2>2, <2>3
  <2>5. l = <<l[1], l[2]>> /\ m = <<m[1], m[2]>>
    BY <1>1
  <2> QED
    BY <2>2, <2>4, <2>5
<1>4. back \in Injection(M, N)
  BY <1>2, <1>3 DEF Injection, IsInjective
<1>5. IsFiniteSet(N)
  BY TotalType DEF N
<1> HIDE DEF back
<1>6. Cardinality(M) <= Cardinality(N)
  BY <1>4, <1>5, FS_Injection
<1> QED
  BY <1>6 DEF M, N, Total

\* So does the other way: a tick loses none, if no age is lost.
LEMMA TotalForward ==
  ASSUME NEW S, NEW f, \A a \in S : f[a] \in Nat,
         NEW R, IsFiniteSet(R), NEW g, \A a \in R : g[a] \in Nat,
         \A a \in S : a \in Nat /\ a + 1 \in R /\ g[a + 1] = f[a]
  PROVE  Total(f, S) <= Total(g, R)
<1> DEFINE M == Members(f, S)
           N == Members(g, R)
           next == [m \in M |-> <<m[1] + 1, m[2]>>]
<1>1. ASSUME NEW m \in M
      PROVE  m = <<m[1], m[2]>> /\ m[1] \in Nat /\ <<m[1] + 1, m[2]>> \in N
  <2>1. PICK a \in S : \E n \in 1..f[a] : m = <<a, n>>
    BY MembersOf
  <2>2. PICK n \in 1..f[a] : m = <<a, n>>
    BY <2>1
  <2>3. a \in Nat /\ a + 1 \in R /\ n \in 1..g[a + 1]
    BY <2>2
  <2>4. <<a + 1, n>> \in N
    BY <2>3, MembersOf
  <2>5. m[1] = a /\ m[2] = n
    BY <2>2
  <2> HIDE DEF N
  <2> QED
    BY <2>2, <2>3, <2>4, <2>5
<1> HIDE DEF M, N
<1>2. next \in [M -> N]
  BY <1>1
<1>3. ASSUME NEW l \in M, NEW m \in M, next[l] = next[m] PROVE l = m
  <2>1. <<l[1] + 1, l[2]>> = <<m[1] + 1, m[2]>>
    BY <1>3
  <2>2. l[1] + 1 = m[1] + 1 /\ l[2] = m[2]
    BY <2>1
  <2>3. l[1] \in Nat /\ m[1] \in Nat
    BY <1>1
  <2>4. l[1] = m[1]
    BY <2>2, <2>3
  <2>5. l = <<l[1], l[2]>> /\ m = <<m[1], m[2]>>
    BY <1>1
  <2> QED
    BY <2>2, <2>4, <2>5
<1>4. next \in Injection(M, N)
  BY <1>2, <1>3 DEF Injection, IsInjective
<1>5. IsFiniteSet(N)
  BY TotalType DEF N
<1> HIDE DEF next
<1>6. Cardinality(M) <= Cardinality(N)
  BY <1>4, <1>5, FS_Injection
<1> QED
  BY <1>6 DEF M, N, Total

\* Those of one age are no more than all of them.
LEMMA OneOfTotal ==
  ASSUME NEW S, IsFiniteSet(S), NEW f, \A a \in S : f[a] \in Nat, NEW b \in S
  PROVE  f[b] <= Total(f, S)
<1> DEFINE N == Members(f, S)
           each == [n \in 1..f[b] |-> <<b, n>>]
<1>1. \A n \in 1..f[b] : <<b, n>> \in N
  BY MembersOf
<1> HIDE DEF N
<1>2. each \in [1..f[b] -> N]
  BY <1>1
<1>3. ASSUME NEW l \in 1..f[b], NEW n \in 1..f[b], each[l] = each[n] PROVE l = n
  <2>1. <<b, l>> = <<b, n>>
    BY <1>3
  <2> QED
    BY <2>1
<1>4. each \in Injection(1..f[b], N)
  BY <1>2, <1>3 DEF Injection, IsInjective
<1>5. IsFiniteSet(N)
  BY TotalType DEF N
<1> HIDE DEF each
<1>6. Cardinality(1..f[b]) <= Cardinality(N)
  BY <1>4, <1>5, FS_Injection
<1>7. Cardinality(1..f[b]) = f[b]
  BY IntervalCardinality
<1> QED
  BY <1>6, <1>7 DEF N, Total

\* As many ages as there are some of are no more than all of them.
LEMMA AgesWithSome ==
  ASSUME NEW S, IsFiniteSet(S), NEW f, \A a \in S : f[a] \in Nat,
         NEW R \in SUBSET S, \A a \in R : f[a] > 0
  PROVE  Cardinality(R) <= Total(f, S)
<1> DEFINE N == Members(f, S)
           first == [a \in R |-> <<a, 1>>]
<1>1. ASSUME NEW a \in R PROVE <<a, 1>> \in N
  <2>1. 1 \in 1..f[a]
    OBVIOUS
  <2> QED
    BY <2>1, MembersOf
<1> HIDE DEF N
<1>2. first \in [R -> N]
  BY <1>1
<1>3. ASSUME NEW a \in R, NEW b \in R, first[a] = first[b] PROVE a = b
  <2>1. <<a, 1>> = <<b, 1>>
    BY <1>3
  <2> QED
    BY <2>1
<1>4. first \in Injection(R, N)
  BY <1>2, <1>3 DEF Injection, IsInjective
<1>5. IsFiniteSet(N)
  BY TotalType DEF N
<1> HIDE DEF first
<1>6. Cardinality(R) <= Cardinality(N)
  BY <1>4, <1>5, FS_Injection
<1> QED
  BY <1>6 DEF N, Total

-----------------------------------------------------------------------------
(***************************************************************************)
(* Grants that are counted twice: by when they were made, in served, and   *)
(* by the time their requests carry, in numbers.                           *)
(***************************************************************************)

\* Where the grants of that age and younger are.
Since(served, age) == {i \in DOMAIN served : served[i] <= age}

\* Whatever was granted carries a time that is at most delay older.
Follows(served, numbers, span, delay) ==
  \A k \in 0..span-1 : Cardinality(Since(served, k)) <= Total(numbers, 0..k+delay)

LEMMA SinceType ==
  ASSUME NEW S \in SUBSET Nat, NEW served \in Seq(S), NEW k \in Nat
  PROVE  /\ Since(served, k) \in SUBSET (1..Len(served))
         /\ IsFiniteSet(Since(served, k))
         /\ Cardinality(Since(served, k)) \in Nat
<1>1. Len(served) \in Nat /\ DOMAIN served = 1..Len(served)
  BY SeqElements
<1>2. Since(served, k) \in SUBSET (1..Len(served))
  BY <1>1 DEF Since
<1>3. IsFiniteSet(1..Len(served))
  BY <1>1, IntervalCardinality
<1> QED
  BY <1>2, <1>3, FS_Subset, FS_CardinalityType

LEMMA FirstAges ==
  ASSUME NEW n \in Nat
  PROVE  IsFiniteSet(0..n)
<1>1. 0 \in Int /\ n \in Int
  OBVIOUS
<1> QED
  BY <1>1, FS_Interval

\* A tick keeps it so.
LEMMA FollowsOlder ==
  ASSUME NEW span \in Nat, NEW delay \in Nat, NEW served \in Seq(0..span-1),
         NEW f, \A a \in 0..span+delay-1 : f[a] \in Nat,
         NEW g, \A a \in 0..span+delay-1 : g[a] \in Nat /\ (a # 0 => g[a] = f[a - 1]),
         Follows(served, f, span, delay),
         NEW r, r = Fresh(Older(served), span)
  PROVE  Follows(r, g, span, delay)
<1> DEFINE o == Older(served)
<1>1. /\ Len(served) \in Nat /\ DOMAIN served = 1..Len(served)
      /\ \A i \in 1..Len(served) : served[i] \in 0..span-1
  BY SeqElements
<1>2. /\ o \in Seq(Nat) /\ Len(o) = Len(served)
      /\ \A i \in 1..Len(served) : o[i] = served[i] + 1
  <2>1. o = [i \in 1..Len(served) |-> served[i] + 1]
    BY <1>1 DEF Older
  <2>2. o \in [1..Len(served) -> Nat]
    BY <1>1, <2>1
  <2> QED
    BY <1>1, <2>1, <2>2, SeqOfFunction
<1> HIDE DEF o
<1>3. r = Fresh(o, span)
  BY DEF o
<1>4. r \in Seq(Nat) /\ \E n \in 0..Len(o) : Pops(r, o, span, n)
  BY <1>2, <1>3, FreshPops
<1>5. PICK n \in 0..Len(o) : Pops(r, o, span, n)
  BY <1>4
<1>6. /\ Len(r) \in Nat /\ DOMAIN r = 1..Len(r) /\ Len(r) = Len(served) - n
      /\ \A i \in 1..Len(r) : r[i] = o[n + i]
  BY <1>1, <1>2, <1>4, <1>5, SeqElements DEF Pops, IsDrop
<1>7. ASSUME NEW i \in 1..Len(r)
      PROVE  n + i \in 1..Len(served) /\ r[i] = served[n + i] + 1
  <2>1. n + i \in 1..Len(served)
    BY <1>1, <1>2, <1>6
  <2> QED
    BY <1>2, <1>6, <2>1
<1>8. SUFFICES ASSUME NEW k \in 0..span-1
               PROVE  Cardinality(Since(r, k)) <= Total(g, 0..k+delay)
  BY DEF Follows
<1>9. /\ k \in Nat /\ k + delay \in Nat /\ IsFiniteSet(0..k+delay)
      /\ \A a \in 0..k+delay : a \in 0..span+delay-1 /\ g[a] \in Nat
  BY FirstAges
<1>10. Total(g, 0..k+delay) \in Nat
  BY <1>9, TotalType
<1>11. CASE k = 0
  <2>1. Since(r, k) = {}
    <3> SUFFICES ASSUME NEW i \in Since(r, k) PROVE FALSE
      OBVIOUS
    <3>1. i \in 1..Len(r) /\ r[i] <= 0
      BY <1>6, <1>11 DEF Since
    <3>2. served[n + i] \in Nat /\ r[i] = served[n + i] + 1
      BY <1>1, <1>7, <3>1
    <3> QED
      BY <3>1, <3>2
  <2> QED
    BY <1>10, <2>1, FS_EmptySet
<1>12. CASE k # 0
  <2> DEFINE l == k - 1
             there == [i \in Since(r, k) |-> n + i]
  <2>1. l \in 0..span-1 /\ l \in Nat /\ l + delay \in Nat /\ l + 1 = k
    BY <1>12
  <2> HIDE DEF l
  <2>2. ASSUME NEW i \in Since(r, k) PROVE i \in Nat /\ n + i \in Since(served, l)
    <3>1. i \in 1..Len(r) /\ r[i] <= k
      BY <1>6 DEF Since
    <3>2. n + i \in 1..Len(served) /\ served[n + i] \in Nat /\ served[n + i] + 1 <= k
      BY <1>1, <1>7, <3>1
    <3>3. i \in Nat /\ served[n + i] <= l /\ n + i \in DOMAIN served
      BY <1>1, <1>6, <1>9, <2>1, <3>1, <3>2
    <3> HIDE DEF there
    <3> QED
      BY <3>3 DEF Since
  <2>3. there \in Injection(Since(r, k), Since(served, l))
    <3>1. there \in [Since(r, k) -> Since(served, l)]
      BY <2>2
    <3>2. ASSUME NEW i \in Since(r, k), NEW j \in Since(r, k), there[i] = there[j]
          PROVE  i = j
      <4>1. i \in Nat /\ j \in Nat /\ n \in Nat
        BY <1>1, <1>2, <2>2
      <4>2. n + i = n + j
        BY <3>2
      <4> QED
        BY <4>1, <4>2
    <3> QED
      BY <3>1, <3>2 DEF Injection, IsInjective
  <2> HIDE DEF there
  <2>4. IsFiniteSet(Since(served, l)) /\ Cardinality(Since(served, l)) \in Nat
    BY <2>1, SinceType, 0..span-1 \in SUBSET Nat
  <2>5. Cardinality(Since(r, k)) <= Cardinality(Since(served, l))
    BY <2>3, <2>4, FS_Injection
  <2>6. Cardinality(Since(served, l)) <= Total(f, 0..l+delay)
    BY <2>1 DEF Follows
  <2>7. /\ IsFiniteSet(0..l+delay)
        /\ \A a \in 0..l+delay : f[a] \in Nat
        /\ \A a \in 0..l+delay : a \in Nat /\ a + 1 \in 0..k+delay /\ g[a + 1] = f[a]
    <3>1. ASSUME NEW a \in 0..l+delay
          PROVE  /\ a \in Nat /\ a \in 0..span+delay-1
                 /\ a + 1 \in 0..k+delay /\ a + 1 \in 0..span+delay-1
                 /\ a + 1 # 0 /\ (a + 1) - 1 = a
      BY <2>1
    <3> QED
      BY <2>1, <3>1, FirstAges
  <2>8. Total(f, 0..l+delay) <= Total(g, 0..k+delay)
    BY <1>9, <2>7, TotalForward
  <2>9. Total(f, 0..l+delay) \in Nat
    BY <2>7, TotalType
  <2>10. Cardinality(Since(r, k)) \in Nat
    BY <1>4, <1>9, SinceType
  <2> QED
    BY <1>10, <2>4, <2>5, <2>6, <2>8, <2>9, <2>10
<1> QED
  BY <1>11, <1>12

\* So does a grant whose time is at most delay old.
LEMMA FollowsGrant ==
  ASSUME NEW span \in Nat, NEW delay \in Nat, NEW served \in Seq(0..span-1),
         NEW f, \A a \in 0..span+delay-1 : f[a] \in Nat,
         NEW g, NEW b \in 0..delay,
         span # 0 => g[b] = f[b] + 1,
         \A a \in (0..span+delay-1) \ {b} : g[a] = f[a],
         Follows(served, f, span, delay)
  PROVE  Follows(Grant(served, span), g, span, delay)
<1>1. SUFFICES ASSUME NEW k \in 0..span-1
               PROVE  Cardinality(Since(Grant(served, span), k)) <= Total(g, 0..k+delay)
  BY DEF Follows
<1>2. span # 0 /\ k \in Nat /\ Grant(served, span) = Append(served, 0)
  BY DEF Grant
<1> DEFINE r == Append(served, 0)
           n == Len(served) + 1
<1>3. Len(served) \in Nat /\ DOMAIN served = 1..Len(served)
  BY SeqElements
<1>4. /\ DOMAIN r = 1..n /\ r[n] = 0
      /\ \A i \in 1..Len(served) : r[i] = served[i]
  OBVIOUS
<1> HIDE DEF r
<1>5. Since(r, k) = Since(served, k) \cup {n}
  BY <1>2, <1>3, <1>4 DEF Since
<1>6. n \notin Since(served, k)
  BY <1>3 DEF Since
<1> HIDE DEF n
<1>7. IsFiniteSet(Since(served, k)) /\ Cardinality(Since(served, k)) \in Nat
  BY <1>2, SinceType, 0..span-1 \in SUBSET Nat
<1>8. Cardinality(Since(r, k)) = Cardinality(Since(served, k)) + 1
  BY <1>5, <1>6, <1>7, FS_AddElement
<1>9. /\ IsFiniteSet(0..k+delay) /\ b \in 0..k+delay
      /\ \A a \in 0..k+delay : a \in 0..span+delay-1 /\ f[a] \in Nat
      /\ \A a \in (0..k+delay) \ {b} : g[a] = f[a]
  <2>1. k + delay \in Nat /\ b \in 0..k+delay
    BY <1>2
  <2>2. ASSUME NEW a \in 0..k+delay PROVE a \in 0..span+delay-1
    BY <1>2
  <2> QED
    BY <2>1, <2>2, FirstAges
<1>10. Total(g, 0..k+delay) = Total(f, 0..k+delay) + 1
  BY <1>2, <1>9, TotalOneMore
<1>11. Cardinality(Since(served, k)) <= Total(f, 0..k+delay) /\ Total(f, 0..k+delay) \in Nat
  BY <1>9, TotalType DEF Follows
<1> QED
  BY <1>2, <1>7, <1>8, <1>10, <1>11 DEF r

\* As many grants as carry times of the last span and delay are the most there
\* were in the last span.
LEMMA FollowsLen ==
  ASSUME NEW span \in Nat \ {0}, NEW delay \in Nat, NEW served \in Seq(0..span-1),
         NEW f, Follows(served, f, span, delay)
  PROVE  Len(served) <= Total(f, 0..span+delay-1)
<1>1. /\ Len(served) \in Nat /\ DOMAIN served = 1..Len(served)
      /\ \A i \in 1..Len(served) : served[i] \in 0..span-1
  BY SeqElements
<1> DEFINE k == span - 1
<1>2. k \in 0..span-1 /\ k + delay = span + delay - 1 /\ 0..k+delay = 0..span+delay-1
  OBVIOUS
<1>3. \A i \in 1..Len(served) : served[i] <= k
  BY <1>1
<1> HIDE DEF k
<1>4. Since(served, k) = 1..Len(served)
  BY <1>1, <1>3 DEF Since
<1>5. Cardinality(Since(served, k)) = Len(served)
  BY <1>1, <1>4, IntervalCardinality
<1>6. Cardinality(Since(served, k)) <= Total(f, 0..k+delay)
  BY <1>2 DEF Follows
<1> QED
  BY <1>2, <1>5, <1>6

-----------------------------------------------------------------------------
(***************************************************************************)
(* Queues: what joining, leaving at the front and leaving in the middle do *)
(* to the set of those in a queue that holds each of them once.            *)
(***************************************************************************)
LEMMA QueueAppend ==
  ASSUME NEW S, NEW q \in Seq(S), NEW x \in S, IsInjective(q), x \notin ToSet(q)
  PROVE  /\ Append(q, x) \in Seq(S)
         /\ IsInjective(Append(q, x))
         /\ ToSet(Append(q, x)) = ToSet(q) \cup {x}
  BY DEF IsInjective, ToSet

LEMMA QueueElements ==
  ASSUME NEW S, NEW q \in Seq(S)
  PROVE  ToSet(q) \subseteq S
  BY DEF ToSet

LEMMA SeqEnds ==
  ASSUME NEW S, NEW q \in Seq(S), q # <<>>
  PROVE  Head(q) \in S /\ Last(q) \in S
  BY DEF Last

LEMMA QueueTail ==
  ASSUME NEW S, NEW q \in Seq(S), IsInjective(q), q # <<>>
  PROVE  /\ Tail(q) \in Seq(S)
         /\ Head(q) \in S
         /\ IsInjective(Tail(q))
         /\ Head(q) \in ToSet(q)
         /\ ToSet(Tail(q)) = ToSet(q) \ {Head(q)}
<1>1. /\ Tail(q) \in Seq(S)
      /\ Len(Tail(q)) = Len(q) - 1
      /\ \A i \in 1..(Len(q) - 1) : Tail(q)[i] = q[i+1]
      /\ Len(q) >= 1
      /\ Head(q) = q[1]
  OBVIOUS
<1>2. IsInjective(Tail(q))
  BY <1>1 DEF IsInjective
<1>3. Head(q) \in S /\ Head(q) \in ToSet(q)
  BY <1>1 DEF ToSet
<1>4. ASSUME NEW x \in ToSet(Tail(q)) PROVE x \in ToSet(q) \ {Head(q)}
  BY <1>1 DEF ToSet, IsInjective
<1>5. ASSUME NEW x \in ToSet(q), x # Head(q) PROVE x \in ToSet(Tail(q))
  <2>1. PICK j \in 1..Len(q) : x = q[j]
    BY DEF ToSet
  <2>2. j - 1 \in 1..(Len(q) - 1)
    BY <1>1, <1>5, <2>1
  <2>3. x = Tail(q)[j-1] /\ j-1 \in DOMAIN Tail(q)
    BY <1>1, <2>1, <2>2
  <2> DEFINE tail == Tail(q)
  <2> HIDE DEF tail
  <2>4. x \in ToSet(tail)
    BY <2>3 DEF ToSet, tail
  <2> QED
    BY <2>4 DEF tail
<1> QED
  BY <1>1, <1>2, <1>3, <1>4, <1>5

\* The first n leave.
LEMMA QueueDrop ==
  ASSUME NEW S, NEW q \in Seq(S), IsInjective(q), NEW n \in 0..Len(q),
         NEW r \in Seq(S), IsDrop(r, q, n)
  PROVE  /\ IsInjective(r)
         /\ ToSet(r) = ToSet(q) \ {q[i] : i \in 1..n}
<1> USE DEF IsDrop
<1>1. \A i \in 1..(Len(q) - n) : n + i \in 1..Len(q) /\ n + i \notin 1..n /\ r[i] = q[n + i]
  OBVIOUS
<1>2. \A i, j \in 1..Len(q) : q[i] = q[j] => i = j
  BY DEF IsInjective
<1>3. IsInjective(r)
  <2>1. DOMAIN r = 1..(Len(q) - n)
    OBVIOUS
  <2> QED
    BY <1>1, <1>2, <2>1 DEF IsInjective
<1>4. ASSUME NEW x \in ToSet(r) PROVE x \in ToSet(q) \ {q[i] : i \in 1..n}
  <2>1. PICK i \in 1..(Len(q) - n) : x = r[i]
    BY DEF ToSet
  <2>2. PICK c \in 1..Len(q) : x = q[c] /\ c = n + i
    BY <1>1, <2>1
  <2>3. x \in ToSet(q)
    BY <2>2 DEF ToSet
  <2>4. ASSUME NEW k \in 1..n, x = q[k] PROVE FALSE
    BY <1>2, <2>1, <2>2, <2>4
  <2> QED
    BY <2>3, <2>4
<1>5. ASSUME NEW x \in ToSet(q), x \notin {q[i] : i \in 1..n} PROVE x \in ToSet(r)
  <2>1. PICK j \in 1..Len(q) : x = q[j]
    BY DEF ToSet
  <2>2. j - n \in 1..(Len(q) - n) /\ n + (j - n) = j
    BY <1>5, <2>1
  <2>3. x = r[j - n] /\ j - n \in DOMAIN r
    BY <2>1, <2>2
  <2> QED
    BY <2>3 DEF ToSet
<1> QED
  BY <1>3, <1>4, <1>5

\* r is q without its i-th element.
IsWithout(r, q, i) ==
  /\ Len(r) = Len(q) - 1
  /\ \A j \in 1..(Len(q) - 1) : r[j] = IF j < i THEN q[j] ELSE q[j+1]

\* The i-th leaves.
LEMMA QueueWithout ==
  ASSUME NEW S, NEW q \in Seq(S), IsInjective(q), NEW i \in 1..Len(q),
         NEW r \in Seq(S), IsWithout(r, q, i)
  PROVE  IsInjective(r) /\ ToSet(r) = ToSet(q) \ {q[i]}
<1> USE DEF IsWithout
<1>1. \A j \in 1..(Len(q) - 1) :
        \E c \in 1..Len(q) : r[j] = q[c] /\ c = IF j < i THEN j ELSE j + 1
  OBVIOUS
<1>2. ASSUME NEW a \in 1..(Len(q) - 1), NEW b \in 1..(Len(q) - 1), r[a] = r[b]
      PROVE  a = b
  <2>1. PICK c \in 1..Len(q) : r[a] = q[c] /\ c = IF a < i THEN a ELSE a + 1
    BY <1>1
  <2>2. PICK d \in 1..Len(q) : r[b] = q[d] /\ d = IF b < i THEN b ELSE b + 1
    BY <1>1
  <2>3. q[c] = q[d]
    BY <1>2, <2>1, <2>2
  <2>4. c = d
    BY <2>3 DEF IsInjective
  <2> QED
    BY <2>1, <2>2, <2>4
<1>3. IsInjective(r)
  BY <1>2 DEF IsInjective
<1>4. ASSUME NEW x \in ToSet(r) PROVE x \in ToSet(q) \ {q[i]}
  <2>1. PICK j \in 1..(Len(q) - 1) : x = r[j]
    BY DEF ToSet
  <2>2. PICK c \in 1..Len(q) : x = q[c] /\ c = IF j < i THEN j ELSE j + 1
    BY <1>1, <2>1
  <2>3. c # i
    BY <2>2
  <2>4. q[c] # q[i]
    BY <2>3 DEF IsInjective
  <2> QED
    BY <2>2, <2>4 DEF ToSet
<1>5. ASSUME NEW x \in ToSet(q), x # q[i] PROVE x \in ToSet(r)
  <2>1. PICK j \in 1..Len(q) : x = q[j]
    BY DEF ToSet
  <2>2. CASE j < i
    <3>1. j \in 1..(Len(q) - 1) /\ x = r[j]
      BY <2>1, <2>2
    <3> QED
      BY <3>1 DEF ToSet
  <2>3. CASE j > i
    <3>1. j - 1 \in 1..(Len(q) - 1) /\ ~(j - 1 < i) /\ (j - 1) + 1 = j
      BY <2>3
    <3>2. x = r[j-1]
      BY <2>1, <3>1
    <3> QED
      BY <3>1, <3>2 DEF ToSet
  <2> QED
    BY <1>5, <2>1, <2>2, <2>3
<1> QED
  BY <1>3, <1>4, <1>5

LEMMA QueueRemoveAt ==
  ASSUME NEW S, NEW q \in Seq(S), IsInjective(q), NEW i \in 1..Len(q)
  PROVE  /\ RemoveAt(q, i) \in Seq(S) /\ IsWithout(RemoveAt(q, i), q, i)
         /\ IsInjective(RemoveAt(q, i))
         /\ ToSet(RemoveAt(q, i)) = ToSet(q) \ {q[i]}
<1> DEFINE front == SubSeq(q, 1, i-1)
           rear  == SubSeq(q, i+1, Len(q))
           r     == RemoveAt(q, i)
<1>1. /\ front \in Seq(S)
      /\ Len(front) = i - 1
      /\ \A j \in 1..(i-1) : front[j] = q[j]
  BY SubSeqProperties, 1 \in Int, i-1 \in Int
<1>2. /\ rear \in Seq(S)
      /\ Len(rear) = Len(q) - i
      /\ \A j \in 1..(Len(q) - i) : rear[j] = q[i + j]
  BY SubSeqDrops DEF IsDrop
<1>3. r = front \o rear
  BY DEF RemoveAt
<1> HIDE DEF front, rear, r
<1>4. /\ r \in Seq(S)
      /\ Len(r) = Len(front) + Len(rear)
      /\ \A j \in 1..(Len(front) + Len(rear)) :
           r[j] = IF j <= Len(front) THEN front[j] ELSE rear[j - Len(front)]
  BY <1>1, <1>2, <1>3, ConcatProperties
<1>5. ASSUME NEW j \in 1..(Len(q) - 1) PROVE r[j] = IF j < i THEN q[j] ELSE q[j+1]
  <2>1. CASE j < i
    <3>1. j \in 1..(i - 1) /\ j \in 1..(Len(front) + Len(rear)) /\ j <= Len(front)
      BY <1>1, <1>2, <2>1
    <3>2. r[j] = front[j] /\ front[j] = q[j]
      BY <1>1, <1>4, <3>1
    <3> QED
      BY <2>1, <3>2
  <2>2. CASE j >= i
    <3>1. /\ j - (i - 1) \in 1..(Len(q) - i)
          /\ i + (j - (i - 1)) = j + 1
          /\ j \in 1..(Len(front) + Len(rear))
          /\ ~(j <= Len(front))
      BY <1>1, <1>2, <2>2
    <3>2. r[j] = rear[j - (i - 1)]
      BY <1>1, <1>4, <3>1
    <3>3. rear[j - (i - 1)] = q[i + (j - (i - 1))]
      BY <1>2, <3>1
    <3> QED
      BY <2>2, <3>1, <3>2, <3>3
  <2> QED
    BY <2>1, <2>2
<1>6. Len(r) = Len(q) - 1
  BY <1>1, <1>2, <1>4
<1>7. IsWithout(r, q, i)
  BY <1>5, <1>6 DEF IsWithout
<1>8. IsInjective(r) /\ ToSet(r) = ToSet(q) \ {q[i]}
  BY <1>4, <1>7, QueueWithout
<1> QED
  BY <1>4, <1>7, <1>8 DEF r
=============================================================================

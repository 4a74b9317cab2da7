------------------------ MODULE SessionMemoryProofs ------------------------
(***************************************************************************)
(* The theorems about SessionMemory, for any keys, values, sizes, budget   *)
(* and bounds.  First what folds, and the operators on contexts and tasks, *)
(* return, then the two ways a reply and an operation go on, then the      *)
(* invariant.                                                              *)
(***************************************************************************)
EXTENDS SessionMemory, FiniteSetTheorems, SequenceTheorems, WellFoundedInduction, TLAPS

TaskOrNone == Task \cup {NoTask}

\* An operation has the task it waits for, and belongs to a turn.
FollowUpHasItsTask ==
  /\ followUp \in {"tool", "final"} => tasks[followUp] # NoTask
  /\ followUp # "none" => turn > 0

Inv == /\ TypeOK /\ FollowUpHasItsTask
       /\ MemoryIsDurable /\ NothingForgotten /\ OpenOperationIsOwned

-----------------------------------------------------------------------------
(* Induction, and the folds that go through a list.                        *)

\* Induction over the naturals, as a fact about sets of them.
LEMMA InSteps ==
  ASSUME NEW S \in SUBSET Nat, 0 \in S, \A n \in S : n + 1 \in S
  PROVE  S = Nat
<1> DEFINE R == OpToRel(<, Nat)
           T == Nat \ S
<1>1. IsWellFoundedOn(R, Nat)
  BY NatLessThanWellFounded
<1>2. \A m, n \in Nat : m < n => <<m, n>> \in R
  BY DEF OpToRel
<1> HIDE DEF R
<1>3. SUFFICES ASSUME T # {} PROVE FALSE
  OBVIOUS
<1>4. PICK x \in T : \A y \in T : ~ (<<y, x>> \in R)
  <2>1. T \subseteq Nat
    OBVIOUS
  <2> HIDE DEF T
  <2> QED
    BY <1>1, <1>3, <2>1, WFMin
<1>5. x - 1 \in Nat /\ x - 1 < x /\ x = (x - 1) + 1
  OBVIOUS
<1> QED
  BY <1>2, <1>4, <1>5

\* A set of numbers up to k that is not empty has a largest one.
LEMMA LargestIsThere ==
  ASSUME NEW k \in Nat, NEW s \in SUBSET (1..k), s # {}
  PROVE  Max(s) \in s /\ \A i \in s : i <= Max(s)
<1> DEFINE Largest(t) == \E i \in t : \A j \in t : i >= j
           S == {m \in Nat : \A t \in SUBSET (1..m) : t # {} => Largest(t)}
<1>1. 0 \in S
  <2>1. \A t \in SUBSET (1..0) : t = {}
    OBVIOUS
  <2> QED
    BY <2>1
<1>2. ASSUME NEW m \in S PROVE m + 1 \in S
  <2> SUFFICES ASSUME NEW t \in SUBSET (1..m + 1), t # {} PROVE Largest(t)
    OBVIOUS
  <2>1. CASE m + 1 \in t
    BY <2>1
  <2>2. CASE m + 1 \notin t
    <3>1. t \in SUBSET (1..m)
      BY <2>2
    <3> QED
      BY <3>1
  <2> QED
    BY <2>1, <2>2
<1>3. S = Nat
  <2>1. S \in SUBSET Nat
    OBVIOUS
  <2> HIDE DEF S
  <2> QED
    BY <1>1, <1>2, <2>1, InSteps
<1>4. Largest(s)
  BY <1>3
<1>5. Max(s) \in s /\ \A i \in s : Max(s) >= i
  BY <1>4 DEF Max
<1> QED
  BY <1>5

\* g folds step over every set of numbers up to n, and run over all of them up to a number.
FoldsSets(g, n, base, step) ==
  \A s \in SUBSET (1..n) : g[s] = IF s = {} THEN base ELSE step[Max(s)][g[s \ {Max(s)}]]

FoldsWithin(g, n, V, base, step) ==
  /\ g[{}] = base
  /\ \A s \in SUBSET (1..n) :
       s # {} /\ g[s \ {Max(s)}] \in V => g[s] = step[Max(s)][g[s \ {Max(s)}]]

FoldsNumbers(run, n, base, step) ==
  run[0] = base /\ \A k \in 1..n : run[k] = step[k][run[k - 1]]

\* A fold over the numbers up to n, from the largest down, is well defined.
LEMMA FoldExists ==
  ASSUME NEW n \in Nat, NEW V, NEW base \in V, NEW step \in [1..n -> [V -> V]]
  PROVE  \E g \in [SUBSET (1..n) -> V] : FoldsSets(g, n, base, step)
<1> DEFINE Folds(g, m) == FoldsSets(g, m, base, step)
           FoldsTo(m) == \E g \in [SUBSET (1..m) -> V] : Folds(g, m)
           S == {m \in Nat : m <= n => FoldsTo(m)}
<1>1. 0 \in S
  <2> DEFINE g == [s \in SUBSET (1..0) |-> base]
  <2>1. \A s \in SUBSET (1..0) : s = {}
    OBVIOUS
  <2>2. g \in [SUBSET (1..0) -> V] /\ Folds(g, 0)
    BY <2>1 DEF FoldsSets
  <2> HIDE DEF g, Folds
  <2> QED
    BY <2>2
<1>2. ASSUME NEW m \in S PROVE m + 1 \in S
  <2> HIDE DEF Folds, FoldsTo
  <2> SUFFICES ASSUME m + 1 <= n PROVE FoldsTo(m + 1)
    OBVIOUS
  <2>0. m \in Nat /\ FoldsTo(m)
    OBVIOUS
  <2> HIDE DEF S
  <2>1. PICK g \in [SUBSET (1..m) -> V] : Folds(g, m)
    BY <2>0 DEF FoldsTo
  <2> DEFINE h == [s \in SUBSET (1..m + 1) |->
                     IF m + 1 \in s THEN step[m + 1][g[s \ {m + 1}]] ELSE g[s]]
  <2>2. \A s \in SUBSET (1..m + 1) : /\ s \ {m + 1} \in SUBSET (1..m)
                                     /\ m + 1 \notin s => s \in SUBSET (1..m)
    BY <2>0
  <2>3. step[m + 1] \in [V -> V]
    BY <2>0
  <2>4. h \in [SUBSET (1..m + 1) -> V]
    BY <2>2, <2>3
  <2>5. ASSUME NEW s \in SUBSET (1..m + 1)
        PROVE  h[s] = IF s = {} THEN base ELSE step[Max(s)][h[s \ {Max(s)}]]
    <3>1. CASE m + 1 \in s
      <4>1. Max(s) = m + 1
        <5>0. m + 1 \in Nat /\ s # {}
          BY <2>0, <3>1
        <5>1. Max(s) \in s /\ \A i \in s : i <= Max(s)
          BY <5>0, LargestIsThere
        <5>2. Max(s) \in 1..m + 1
          BY <5>1
        <5> QED
          BY <2>0, <3>1, <5>1, <5>2
      <4>2. h[s \ {m + 1}] = g[s \ {m + 1}]
        BY <2>2
      <4>3. h[s] = step[m + 1][g[s \ {m + 1}]] /\ s # {}
        BY <3>1
      <4> HIDE DEF h
      <4> QED
        BY <4>1, <4>2, <4>3
    <3>2. CASE m + 1 \notin s
      <4>1. s \in SUBSET (1..m) /\ s \ {Max(s)} \in SUBSET (1..m)
        BY <2>2, <3>2
      <4>2. h[s] = g[s] /\ h[s \ {Max(s)}] = g[s \ {Max(s)}]
        BY <3>2, <4>1
      <4> QED
        BY <2>1, <4>1, <4>2 DEF Folds, FoldsSets
    <3> QED
      BY <3>1, <3>2
  <2> HIDE DEF h
  <2>6. Folds(h, m + 1)
    BY <2>5 DEF Folds, FoldsSets
  <2> QED
    BY <2>4, <2>6 DEF FoldsTo
<1>3. S = Nat
  <2>1. S \in SUBSET Nat
    OBVIOUS
  <2> HIDE DEF S
  <2> QED
    BY <1>1, <1>2, <2>1, InSteps
<1> HIDE DEF FoldsTo
<1>4. FoldsTo(n)
  BY <1>3
<1> QED
  BY <1>4 DEF FoldsTo

\* Such a fold, run number by number.
LEMMA FoldRuns ==
  ASSUME NEW n \in Nat, NEW V, NEW base \in V, NEW step \in [1..n -> [V -> V]], NEW g,
         FoldsWithin(g, n, V, base, step)
  PROVE  \E run \in [0..n -> V] : FoldsNumbers(run, n, base, step) /\ g[1..n] = run[n]
<1>1. 1..0 = {}
  OBVIOUS
<1>2. ASSUME NEW k \in 1..n, g[1..k - 1] \in V
      PROVE  g[1..k] = step[k][g[1..k - 1]]
  <2>1. 1..k \in SUBSET (1..n) /\ k \in 1..k
    OBVIOUS
  <2>2. Max(1..k) \in 1..k /\ k <= Max(1..k)
    BY <2>1, LargestIsThere
  <2>3. Max(1..k) = k
    BY <2>2
  <2>4. (1..k) \ {k} = 1..k - 1 /\ 1..k # {}
    OBVIOUS
  <2>5. g[(1..k) \ {Max(1..k)}] \in V
    BY <1>2, <2>3, <2>4
  <2>6. g[1..k] = step[Max(1..k)][g[(1..k) \ {Max(1..k)}]]
    BY <2>1, <2>4, <2>5 DEF FoldsWithin
  <2> QED
    BY <2>3, <2>4, <2>6
<1> DEFINE S == {k \in Nat : k <= n => g[1..k] \in V}
<1>3. S = Nat
  <2>1. S \in SUBSET Nat /\ 0 \in S
    BY <1>1 DEF FoldsWithin
  <2>2. ASSUME NEW k \in S PROVE k + 1 \in S
    <3> SUFFICES ASSUME k + 1 <= n PROVE g[1..k + 1] \in V
      OBVIOUS
    <3>1. k + 1 \in 1..n /\ (k + 1) - 1 = k /\ g[1..k] \in V
      OBVIOUS
    <3>2. g[1..k + 1] = step[k + 1][g[1..k]]
      BY <1>2, <3>1
    <3>3. step[k + 1] \in [V -> V]
      BY <3>1
    <3> QED
      BY <3>1, <3>2, <3>3
  <2> HIDE DEF S
  <2> QED
    BY <2>1, <2>2, InSteps
<1> DEFINE run == [k \in 0..n |-> g[1..k]]
<1>4. \A k \in 0..n : g[1..k] \in V
  BY <1>3
<1>5. \A k \in 1..n : k - 1 \in 0..n /\ k \in 0..n
  OBVIOUS
<1>6. run \in [0..n -> V]
  BY <1>4
<1>7. \A k \in 1..n : run[k] = step[k][run[k - 1]]
  BY <1>2, <1>4, <1>5
<1>8. run[0] = base /\ g[1..n] = run[n]
  BY <1>1 DEF FoldsWithin
<1> HIDE DEF run
<1>9. FoldsNumbers(run, n, base, step)
  BY <1>7, <1>8 DEF FoldsNumbers
<1> QED
  BY <1>6, <1>8, <1>9

-----------------------------------------------------------------------------
(* Contexts.                                                               *)

\* Of two members of a set, more members are not above the larger one.
LEMMA CountsDiffer ==
  ASSUME NEW S \in SUBSET Nat, IsFiniteSet(S), NEW i \in S, NEW k \in S, i < k
  PROVE  Cardinality({j \in S : j <= i}) # Cardinality({j \in S : j <= k})
<1> DEFINE Below(m) == {j \in S : j <= m}
<1>0. \A j \in S : j \in Nat
  OBVIOUS
<1>1. Below(i) \in SUBSET Below(k) /\ k \in Below(k) /\ k \notin Below(i)
  <2>1. ~(k <= i) /\ k <= k /\ \A j \in S : j <= i => j <= k
    BY <1>0
  <2> QED
    BY <2>1
<1>2. IsFiniteSet(Below(k))
  <2>1. Below(k) \in SUBSET S
    OBVIOUS
  <2> QED
    BY <2>1, FS_Subset
<1>3. Cardinality(Below(i)) # Cardinality(Below(k))
  BY <1>1, <1>2, FS_Subset
<1> QED
  BY <1>3

\* The n-th smallest of a finite set of numbers is one of them: counting what
\* is not above a number is injective, and so meets every count.
LEMMA NthIsMember ==
  ASSUME NEW S \in SUBSET Nat, IsFiniteSet(S), NEW n \in 1..Cardinality(S)
  PROVE  \E i \in S : Cardinality({j \in S : j <= i}) = n
<1> DEFINE Below(i) == {j \in S : j <= i}
           count == [i \in S |-> Cardinality(Below(i))]
           T == 1..Cardinality(S)
<1>1. Cardinality(S) \in Nat
  BY FS_CardinalityType
<1>2. ASSUME NEW i \in S
      PROVE  /\ IsFiniteSet(Below(i)) /\ Cardinality(Below(i)) \in Nat
             /\ Cardinality(Below(i)) <= Cardinality(S) /\ Cardinality(Below(i)) > 0
  <2>1. Below(i) \in SUBSET S /\ i \in Below(i)
    OBVIOUS
  <2>2. IsFiniteSet(Below(i)) /\ Cardinality(Below(i)) <= Cardinality(S)
    BY <2>1, FS_Subset
  <2>3. Cardinality(Below(i)) \in Nat /\ Cardinality(Below(i)) # 0
    BY <2>1, <2>2, FS_CardinalityType, FS_EmptySet
  <2> QED
    BY <2>2, <2>3
<1>3. count \in [S -> T]
  BY <1>1, <1>2
<1>4. ASSUME NEW i \in S, NEW k \in S, i < k
      PROVE  count[i] # count[k]
  BY <1>4, CountsDiffer
<1>5. count \in Injection(S, T)
  <2>1. ASSUME NEW i \in S, NEW k \in S, count[i] = count[k]
        PROVE  i = k
    <3>1. i \in Nat /\ k \in Nat /\ ~(i < k) /\ ~(k < i)
      BY <1>4, <2>1
    <3> QED
      BY <3>1
  <2> HIDE DEF count, T
  <2> QED
    BY <1>3, <2>1 DEF Injection, IsInjective
<1>6. IsFiniteSet(T) /\ Cardinality(T) = Cardinality(S)
  BY <1>1, FS_Interval
<1>7. count \in Surjection(S, T)
  <2> HIDE DEF count, T
  <2> QED
    BY <1>5, <1>6, FS_Injection
<1> QED
  BY <1>7 DEF Surjection

\* What is picked from a list comes from it.
LEMMA PickedAreThere ==
  ASSUME NEW S, NEW items \in Seq(S), NEW indexes \in SUBSET DOMAIN items
  PROVE  /\ Pick(items, indexes) \in Seq(S)
         /\ \A n \in DOMAIN Pick(items, indexes) :
              \E i \in DOMAIN items : Pick(items, indexes)[n] = items[i]
<1> DEFINE at(n) == CHOOSE i \in indexes : Cardinality({j \in indexes : j <= i}) = n
           N == Cardinality(indexes)
<1>1. DOMAIN items = 1..Len(items) /\ Len(items) \in Nat
  OBVIOUS
<1>2. IsFiniteSet(indexes) /\ indexes \in SUBSET Nat /\ N \in Nat
  <2>1. IsFiniteSet(1..Len(items))
    BY <1>1, FS_Interval
  <2>2. IsFiniteSet(indexes)
    BY <1>1, <2>1, FS_Subset
  <2> QED
    BY <1>1, <2>2, FS_CardinalityType
<1>3. ASSUME NEW n \in 1..N
      PROVE  at(n) \in DOMAIN items
  <2>1. \E i \in indexes : Cardinality({j \in indexes : j <= i}) = n
    BY <1>2, NthIsMember
  <2> QED
    BY <2>1
<1> HIDE DEF at
<1>4. \A n \in 1..N : items[at(n)] \in S
  BY <1>1, <1>3
<1>5. Pick(items, indexes) = [n \in 1..N |-> items[at(n)]]
  BY DEF Pick, at
<1> HIDE DEF N
<1>6. [n \in 1..N |-> items[at(n)]] \in Seq(S)
  BY <1>2, <1>4
<1> QED
  BY <1>2, <1>3, <1>5, <1>6

\* The names of a longer list are those of its parts.
LEMMA NamesOfBoth ==
  ASSUME NEW S, NEW a \in Seq(S), NEW b \in Seq(S)
  PROVE  Names(a \o b) = Names(a) \cup Names(b)
<1>1. /\ a \o b \in Seq(S) /\ Len(a \o b) = Len(a) + Len(b)
      /\ \A i \in 1..Len(a) + Len(b) :
           (a \o b)[i] = IF i <= Len(a) THEN a[i] ELSE b[i - Len(a)]
  BY ConcatProperties
<1>2. /\ DOMAIN a = 1..Len(a) /\ DOMAIN b = 1..Len(b) /\ Len(a) \in Nat /\ Len(b) \in Nat
      /\ DOMAIN (a \o b) = 1..Len(a) + Len(b)
  BY <1>1
<1> DEFINE ab == a \o b
<1> HIDE DEF ab
<1>3. \A i \in DOMAIN a : i \in DOMAIN ab /\ ab[i] = a[i]
  BY <1>1, <1>2 DEF ab
<1>4. \A i \in DOMAIN b : i + Len(a) \in DOMAIN ab /\ ab[i + Len(a)] = b[i]
  <2> SUFFICES ASSUME NEW i \in 1..Len(b)
               PROVE  i + Len(a) \in DOMAIN ab /\ ab[i + Len(a)] = b[i]
    BY <1>2
  <2>1. i + Len(a) \in 1..Len(a) + Len(b) /\ ~(i + Len(a) <= Len(a)) /\ (i + Len(a)) - Len(a) = i
    BY <1>2
  <2> QED
    BY <1>1, <1>2, <2>1 DEF ab
<1>5. \A i \in DOMAIN ab : \/ i \in DOMAIN a /\ ab[i] = a[i]
                           \/ i - Len(a) \in DOMAIN b /\ ab[i] = b[i - Len(a)]
  BY <1>1, <1>2 DEF ab
<1>6. Names(ab) = Names(a) \cup Names(b)
  BY <1>3, <1>4, <1>5 DEF Names
<1> QED
  BY <1>6 DEF ab

\* The names of a list of items are names.
LEMMA NamesAreNames ==
  ASSUME NEW items \in Seq(Item)
  PROVE  Names(items) \subseteq Name
<1>1. \A i \in DOMAIN items : items[i] \in Item
  OBVIOUS
<1>2. \A item \in Item : item.name \in Name
  BY DEF Item
<1> QED
  BY <1>1, <1>2 DEF Names

\* What the Brain is shown is part of the context.
LEMMA PromptIsPart ==
  ASSUME NEW c \in Context
  PROVE  PromptItems(c) \in Seq(Item) /\ Names(PromptItems(c)) \subseteq Names(c.items)
<1>1. c.items \in Seq(Item)
  BY DEF Context
<1> DEFINE indexes == Retained(c) \cap DOMAIN c.items
<1>2. indexes \in SUBSET DOMAIN c.items
  OBVIOUS
<1> HIDE DEF indexes
<1>3. /\ Pick(c.items, indexes) \in Seq(Item)
      /\ \A n \in DOMAIN Pick(c.items, indexes) :
           \E i \in DOMAIN c.items : Pick(c.items, indexes)[n] = c.items[i]
  BY <1>1, <1>2, PickedAreThere
<1>4. Names(Pick(c.items, indexes)) \subseteq Names(c.items)
  BY <1>3 DEF Names
<1> QED
  BY <1>1, <1>3, <1>4 DEF PromptItems, indexes

\* Items have a size.
LEMMA ItemsHaveSize ==
  ASSUME NEW items \in Seq(Item)
  PROVE  \A i \in DOMAIN items : items[i].size \in Nat
<1>1. \A i \in DOMAIN items : items[i] \in Item
  OBVIOUS
<1>2. \A item \in Item : item.size \in Nat
  BY SessionMemoryAssumption DEF Item
<1> QED
  BY <1>1, <1>2

\* The tokens of a list are the sum of its sizes.
LEMMA TokensAdd ==
  ASSUME NEW items \in Seq(Item)
  PROVE  \E sum \in [0..Len(items) -> Nat] :
           /\ sum[0] = 0
           /\ \A n \in 1..Len(items) : sum[n] = sum[n - 1] + items[n].size
           /\ Tokens(items) = sum[Len(items)]
<1> DEFINE n == Len(items)
           IsFold(g) == g = [s \in SUBSET DOMAIN items |->
                               IF s = {} THEN 0 ELSE g[s \ {Max(s)}] + items[Max(s)].size]
           step == [k \in 1..n |-> [v \in Nat |-> v + items[k].size]]
           fold == CHOOSE g : IsFold(g)
<1>1. n \in Nat /\ DOMAIN items = 1..n
  OBVIOUS
<1>2. Tokens(items) = fold[DOMAIN items]
  BY DEF Tokens, FoldLeft, MapThenFoldSet
<1>3. \A k \in 1..n : items[k].size \in Nat
  BY <1>1, ItemsHaveSize
<1> HIDE DEF n
<1>4. step \in [1..n -> [Nat -> Nat]] /\ 0 \in Nat
  BY <1>3
<1>5. \A k \in 1..n, v \in Nat : step[k][v] = v + items[k].size
  OBVIOUS
<1> HIDE DEF step
<1> HIDE DEF fold, IsFold
<1>6. PICK g \in [SUBSET (1..n) -> Nat] : FoldsSets(g, n, 0, step)
  BY <1>1, <1>4, FoldExists
<1>7. \A s \in SUBSET (1..n) : s # {} => Max(s) \in 1..n /\ s \ {Max(s)} \in SUBSET (1..n)
  BY <1>1, LargestIsThere
<1>8. IsFold(g)
  <2>1. \A s \in SUBSET (1..n) :
          g[s] = IF s = {} THEN 0 ELSE g[s \ {Max(s)}] + items[Max(s)].size
    BY <1>5, <1>6, <1>7 DEF FoldsSets
  <2> QED
    BY <1>1, <1>6, <2>1 DEF IsFold
<1>9. IsFold(fold)
  BY <1>8 DEF fold
<1>10. FoldsWithin(fold, n, Nat, 0, step)
  <2>1. \A s \in SUBSET (1..n) :
          fold[s] = IF s = {} THEN 0 ELSE fold[s \ {Max(s)}] + items[Max(s)].size
    BY <1>1, <1>9 DEF IsFold
  <2> QED
    BY <1>5, <1>7, <2>1 DEF FoldsWithin
<1>11. PICK run \in [0..n -> Nat] : FoldsNumbers(run, n, 0, step) /\ fold[1..n] = run[n]
  <2> DEFINE V == Nat
             base == 0
  <2>1. base \in V /\ step \in [1..n -> [V -> V]]
    BY <1>4
  <2>3. FoldsWithin(fold, n, V, base, step) 
    BY <1>10
  <2>4. n \in Nat
    BY <1>1
  <2> HIDE DEF V, base
  <2>2. \E run \in [0..n -> V] : FoldsNumbers(run, n, base, step) /\ fold[1..n] = run[n]
    BY <2>1, <2>3, <2>4, FoldRuns
  <2> QED
    BY <2>2 DEF V, base
<1>12. \A k \in 1..n : run[k] = run[k - 1] + items[k].size
  <2>1. \A k \in 1..n : k - 1 \in 0..n
    BY <1>1
  <2> QED
    BY <1>5, <1>11, <2>1 DEF FoldsNumbers
<1> QED
  BY <1>1, <1>2, <1>11, <1>12 DEF n, FoldsNumbers

\* What is left of the room as the items are gone through, from the newest to the oldest.
LEMMA RetainedFills ==
  ASSUME NEW c \in Context, Room(c) \in Nat
  PROVE  \E left \in [0..Len(c.items) -> Nat] :
           /\ left[Len(c.items)] = Room(c)
           /\ Retained(c) \in SUBSET (1..Len(c.items))
           /\ \A i \in 1..Len(c.items) :
                left[i - 1] = IF i \in Retained(c) THEN left[i] - c.items[i].size ELSE left[i]
<1> DEFINE n == Len(c.items)
           seq == Reverse([i \in 1..Len(c.items) |-> i])
           base == [kept |-> {}, room |-> Room(c)]
           Takes(acc, i) == IF c.items[i].size <= acc.room
                            THEN [kept |-> acc.kept \cup {i}, room |-> acc.room - c.items[i].size]
                            ELSE acc
           IsFold(g) == g = [s \in SUBSET DOMAIN seq |->
                               IF s = {} THEN base ELSE Takes(g[s \ {Max(s)}], seq[Max(s)])]
           V == [kept : SUBSET (1..n), room : Nat]
           step == [k \in 1..n |-> [v \in V |-> Takes(v, (n - k) + 1)]]
           fold == CHOOSE g : IsFold(g)
<1>1. n \in Nat /\ DOMAIN c.items = 1..n
  BY DEF Context
<1>2. Retained(c) = fold[DOMAIN seq].kept
  BY DEF Retained, FoldLeft, MapThenFoldSet
<1>3. DOMAIN seq = 1..n /\ \A k \in 1..n : seq[k] = (n - k) + 1
  BY <1>1 DEF Reverse
<1>4. \A k \in 1..n : c.items[k].size \in Nat
  <2>1. c.items \in Seq(Item)
    BY DEF Context
  <2> QED
    BY <1>1, <2>1, ItemsHaveSize
<1> HIDE DEF n, seq
<1>5. \A v \in V, k \in 1..n : (n - k) + 1 \in 1..n /\ Takes(v, (n - k) + 1) \in V
  BY <1>1, <1>4
<1>6. step \in [1..n -> [V -> V]] /\ base \in V
  BY <1>5
<1>7. \A k \in 1..n, v \in V : step[k][v] = Takes(v, (n - k) + 1)
  OBVIOUS
<1>8. \A v \in V, i \in 1..n :
        /\ v.room \in Nat
        /\ c.items[i].size <= v.room =>
             Takes(v, i) = [kept |-> v.kept \cup {i}, room |-> v.room - c.items[i].size]
        /\ ~(c.items[i].size <= v.room) => Takes(v, i) = v
  BY <1>4
<1> HIDE DEF step, fold, Takes, V, IsFold, base
<1>9. PICK g \in [SUBSET (1..n) -> V] : FoldsSets(g, n, base, step)
  BY <1>1, <1>6, FoldExists
<1>10. \A s \in SUBSET (1..n) : s # {} => Max(s) \in 1..n /\ s \ {Max(s)} \in SUBSET (1..n)
  BY <1>1, LargestIsThere
<1>11. IsFold(g)
  <2>1. \A s \in SUBSET (1..n) :
          g[s] = IF s = {} THEN base ELSE Takes(g[s \ {Max(s)}], seq[Max(s)])
    <3>1. ASSUME NEW s \in SUBSET (1..n), s # {}
          PROVE  g[s] = Takes(g[s \ {Max(s)}], seq[Max(s)])
      <4>1. Max(s) \in 1..n /\ g[s \ {Max(s)}] \in V
        BY <1>9, <1>10, <3>1
      <4>2. step[Max(s)][g[s \ {Max(s)}]] = Takes(g[s \ {Max(s)}], (n - Max(s)) + 1)
        BY <1>7, <4>1
      <4>3. seq[Max(s)] = (n - Max(s)) + 1
        BY <1>3, <4>1
      <4>4. g[s] = step[Max(s)][g[s \ {Max(s)}]]
        BY <1>9, <3>1 DEF FoldsSets
      <4> QED
        BY <4>2, <4>3, <4>4
    <3> QED
      BY <1>9, <3>1 DEF FoldsSets
  <2> QED
    BY <1>3, <1>9, <2>1 DEF IsFold
<1>12. IsFold(fold)
  BY <1>11 DEF fold
<1>13. FoldsWithin(fold, n, V, base, step)
  <2>1. \A s \in SUBSET (1..n) :
          fold[s] = IF s = {} THEN base ELSE Takes(fold[s \ {Max(s)}], seq[Max(s)])
    BY <1>3, <1>12 DEF IsFold
  <2>2. ASSUME NEW s \in SUBSET (1..n), s # {}, fold[s \ {Max(s)}] \in V
        PROVE  fold[s] = step[Max(s)][fold[s \ {Max(s)}]]
    <3>1. Max(s) \in 1..n
      BY <1>10, <2>2
    <3>2. step[Max(s)][fold[s \ {Max(s)}]] = Takes(fold[s \ {Max(s)}], (n - Max(s)) + 1)
      BY <1>7, <2>2, <3>1
    <3>3. seq[Max(s)] = (n - Max(s)) + 1
      BY <1>3, <3>1
    <3> QED
      BY <2>1, <2>2, <3>2, <3>3
  <2>3. fold[{}] = base
    BY <2>1
  <2> QED
    BY <2>2, <2>3 DEF FoldsWithin
<1>14. PICK run \in [0..n -> V] : FoldsNumbers(run, n, base, step) /\ fold[1..n] = run[n]
  BY <1>1, <1>6, <1>13, FoldRuns
<1>15. Retained(c) = run[n].kept
  BY <1>2, <1>3, <1>14
<1>16. ASSUME NEW k \in 0..n - 1
       PROVE  /\ run[k] \in V /\ run[k + 1] \in V /\ n - k \in 1..n
              /\ run[k + 1] = Takes(run[k], n - k)
  <2>1. k \in 0..n /\ k + 1 \in 1..n /\ k + 1 \in 0..n /\ (k + 1) - 1 = k
        /\ (n - (k + 1)) + 1 = n - k /\ n - k \in 1..n
    BY <1>1
  <2>2. run[k + 1] = step[k + 1][run[k]]
    BY <1>14, <2>1 DEF FoldsNumbers
  <2> QED
    BY <1>7, <2>1, <2>2
\* After k steps only the newest k have been looked at, and the fold agrees about them.
<1> DEFINE Settled(k) == /\ run[k].kept \subseteq (n - k) + 1..n
                         /\ \A j \in 0..k : run[k].kept \cap ((n - j) + 1..n) = run[j].kept
           S == {k \in Nat : k <= n => Settled(k)}
<1>17. S = Nat
  <2>1. 0 \in S
    <3>1. run[0] = base /\ base.kept = {}
      BY <1>14 DEF FoldsNumbers, base
    <3> QED
      BY <1>1, <3>1
  <2>2. ASSUME NEW k \in S PROVE k + 1 \in S
    <3> HIDE DEF Settled
    <3> SUFFICES ASSUME k + 1 <= n PROVE Settled(k + 1)
      OBVIOUS
    <3>1. k \in Nat /\ Settled(k) /\ k \in 0..n - 1
      BY <1>1
    <3> HIDE DEF S
    <3>2. run[k + 1].kept = run[k].kept \/ run[k + 1].kept = run[k].kept \cup {n - k}
      BY <1>8, <1>16, <3>1
    <3>3. run[k + 1].kept \subseteq (n - (k + 1)) + 1..n
      BY <1>1, <3>1, <3>2 DEF Settled
    <3>4. ASSUME NEW j \in 0..k
          PROVE  run[k + 1].kept \cap ((n - j) + 1..n) = run[j].kept
      <4>1. n - k \notin (n - j) + 1..n
        BY <1>1, <3>1
      <4>2. run[k].kept \cap ((n - j) + 1..n) = run[j].kept
        BY <3>1 DEF Settled
      <4> QED
        BY <3>2, <4>1, <4>2
    <3>5. run[k + 1].kept \cap ((n - (k + 1)) + 1..n) = run[k + 1].kept
      BY <3>3
    <3>6. \A j \in 0..k + 1 : j \in 0..k \/ j = k + 1
      BY <3>1
    <3> QED
      BY <3>3, <3>4, <3>5, <3>6 DEF Settled
  <2>3. S \in SUBSET Nat
    OBVIOUS
  <2> HIDE DEF S
  <2> QED
    BY <2>1, <2>2, <2>3, InSteps
<1>18. \A j \in 0..n : run[n].kept \cap ((n - j) + 1..n) = run[j].kept
  BY <1>1, <1>17
<1> HIDE DEF Settled, S
<1> DEFINE left == [i \in 0..n |-> run[n - i].room]
<1>19. \A i \in 0..n : n - i \in 0..n /\ run[n - i] \in V /\ run[n - i].room \in Nat
  BY <1>1 DEF V
<1>20. left \in [0..n -> Nat]
  BY <1>19
<1>21. left[n] = Room(c)
  BY <1>1, <1>14 DEF FoldsNumbers, base
<1>22. Retained(c) \in SUBSET (1..n)
  BY <1>1, <1>15 DEF V
<1>23. ASSUME NEW i \in 1..n
       PROVE  left[i - 1] = IF i \in Retained(c) THEN left[i] - c.items[i].size ELSE left[i]
  <2> DEFINE k == n - i
  <2>1. k \in 0..n - 1 /\ k \in 0..n /\ k + 1 \in 0..n /\ n - k = i /\ (n - (k + 1)) + 1 = i
        /\ i \in 0..n /\ i - 1 \in 0..n /\ n - (i - 1) = k + 1 /\ i \in i..n
    BY <1>1
  <2>2. left[i] = run[k].room /\ left[i - 1] = run[k + 1].room
    BY <2>1
  <2> HIDE DEF k, left
  <2>3. run[k] \in V /\ run[k + 1] = Takes(run[k], i)
    BY <1>16, <2>1
  <2>4. run[n].kept \cap (i..n) = run[k + 1].kept
    BY <1>18, <2>1
  <2>5. i \notin run[k].kept
    <3>1. run[n].kept \cap ((n - k) + 1..n) = run[k].kept /\ i \notin (n - k) + 1..n
      BY <1>1, <1>18, <2>1
    <3> QED
      BY <3>1
  <2>6. i \in Retained(c) <=> i \in run[k + 1].kept
    BY <1>15, <2>1, <2>4
  <2> QED
    BY <1>8, <2>2, <2>3, <2>5, <2>6
<1> HIDE DEF left
<1> QED
  BY <1>20, <1>21, <1>22, <1>23 DEF n

\* What a context retains fits into the room there is.
LEMMA RetainedFits ==
  ASSUME NEW c \in Context, Room(c) \in Nat
  PROVE  Tokens(Pick(c.items, Retained(c) \cap DOMAIN c.items)) <= Room(c)
<1> DEFINE n == Len(c.items)
           kept == Retained(c)
           picked == Pick(c.items, kept \cap DOMAIN c.items)
           at(m) == CHOOSE i \in kept : Cardinality({j \in kept : j <= i}) = m
           Below(k) == {j \in kept : j <= k}
           N == Cardinality(kept)
<1>1. n \in Nat /\ DOMAIN c.items = 1..n /\ c.items \in Seq(Item)
  BY DEF Context
<1>2. PICK left \in [0..n -> Nat] :
        /\ left[n] = Room(c)
        /\ kept \in SUBSET (1..n)
        /\ \A i \in 1..n :
             left[i - 1] = IF i \in kept THEN left[i] - c.items[i].size ELSE left[i]
  BY RetainedFills
<1>3. kept \cap DOMAIN c.items = kept /\ kept \in SUBSET DOMAIN c.items
  BY <1>1, <1>2
<1> HIDE DEF n
<1>4. /\ IsFiniteSet(kept) /\ kept \in SUBSET Nat /\ N \in Nat
      /\ \A k \in Nat : IsFiniteSet(Below(k)) /\ Cardinality(Below(k)) \in Nat
  <2>1. IsFiniteSet(1..n)
    BY <1>1, FS_Interval
  <2>2. IsFiniteSet(kept)
    BY <1>2, <2>1, FS_Subset
  <2>3. \A k \in Nat : Below(k) \in SUBSET kept
    OBVIOUS
  <2>4. \A k \in Nat : IsFiniteSet(Below(k))
    BY <2>2, <2>3, FS_Subset
  <2> QED
    BY <1>1, <1>2, <2>2, <2>4, FS_CardinalityType
<1> HIDE DEF kept
<1>5. /\ picked = [m \in 1..N |-> c.items[at(m)]]
      /\ picked \in Seq(Item)
  <2>1. picked = Pick(c.items, kept)
    BY <1>3
  <2>2. Pick(c.items, kept) \in Seq(Item)
    BY <1>1, <1>3, PickedAreThere
  <2>3. Pick(c.items, kept) = [m \in 1..N |-> c.items[at(m)]]
    BY DEF Pick
  <2> QED
    BY <2>1, <2>2, <2>3
<1>6. ASSUME NEW i \in kept
      PROVE  Cardinality(Below(i)) \in 1..N /\ picked[Cardinality(Below(i))] = c.items[i]
  <2> DEFINE m == Cardinality(Below(i))
  <2>1. i \in Nat /\ Below(i) \in SUBSET kept /\ i \in Below(i)
    BY <1>4
  <2>2. m \in 1..N
    <3>1. m <= N
      BY <1>4, <2>1, FS_Subset
    <3>2. m # 0 /\ m \in Nat
      BY <1>4, <2>1, FS_EmptySet
    <3> QED
      BY <1>4, <3>1, <3>2
  <2>3. \A k \in kept : Cardinality(Below(k)) = m => k = i
    <3>1. ASSUME NEW k \in kept, k # i PROVE Cardinality(Below(k)) # m
      <4>1. k \in Nat /\ (k < i \/ i < k)
        BY <1>4, <2>1, <3>1
      <4> QED
        BY <1>4, <4>1, CountsDiffer
    <3> QED
      BY <3>1
  <2>4. at(m) = i
    BY <2>3
  <2> HIDE DEF m, at
  <2> QED
    BY <1>5, <2>2, <2>4 DEF m
<1>7. Below(0) = {}
  <2>1. \A j \in kept : j \in 1..n
    BY <1>2
  <2>2. \A j \in kept : ~ (j <= 0)
    BY <1>1, <2>1
  <2> QED
    BY <2>2
<1>8. ASSUME NEW k \in 0..n - 1
      PROVE  Cardinality(Below(k + 1)) = IF k + 1 \in kept THEN Cardinality(Below(k)) + 1
                                                           ELSE Cardinality(Below(k))
  <2>0. k \in Nat /\ k + 1 \in Nat /\ \A j \in kept : j \in Nat
    BY <1>1, <1>4
  <2>1. CASE k + 1 \in kept
    <3>1. Below(k + 1) = Below(k) \cup {k + 1} /\ k + 1 \notin Below(k)
      BY <2>0, <2>1
    <3> QED
      BY <1>4, <2>0, <2>1, <3>1, FS_AddElement
  <2>2. CASE k + 1 \notin kept
    <3>1. Below(k + 1) = Below(k)
      <4>1. \A j \in kept : j # k + 1
        BY <2>2
      <4>2. \A j \in kept : j <= k + 1 <=> j <= k
        BY <2>0, <4>1
      <4> QED
        BY <4>2
    <3> QED
      BY <2>2, <3>1
  <2> QED
    BY <2>1, <2>2
<1>9. Below(n) = kept
  <2>1. \A j \in kept : j <= n
    BY <1>1, <1>2
  <2> QED
    BY <2>1
<1> DEFINE count == [k \in 0..n |-> Cardinality(Below(k))]
<1>10. /\ \A k \in 0..n : count[k] = Cardinality(Below(k))
       /\ count[0] = 0 /\ count[n] = N
  <2>1. \A k \in 0..n : count[k] = Cardinality(Below(k))
    OBVIOUS
  <2>2. 0 \in 0..n /\ n \in 0..n
    BY <1>1
  <2> HIDE DEF count, Below
  <2> QED
    BY <1>7, <1>9, <2>1, <2>2, FS_EmptySet
<1>11. Len(picked) = N /\ DOMAIN picked = 1..N
  BY <1>4, <1>5
<1> HIDE DEF count, Below, N, at, picked
<1>13. PICK sum \in [0..N -> Nat] : /\ sum[0] = 0
                                    /\ \A m \in 1..N : sum[m] = sum[m - 1] + picked[m].size
                                    /\ Tokens(picked) = sum[N]
  BY <1>5, <1>11, TokensAdd
<1> DEFINE S == {k \in Nat : k <= n => count[k] \in 0..N /\ sum[count[k]] = left[k] - left[0]}
<1>14. S = Nat
  <2>1. 0 \in S
    <3>1. count[0] \in 0..N /\ sum[count[0]] = 0 /\ left[0] \in Nat
      BY <1>1, <1>4, <1>10, <1>13
    <3> QED
      BY <3>1
  <2>2. ASSUME NEW k \in S PROVE k + 1 \in S
    <3> SUFFICES ASSUME k + 1 <= n
                 PROVE  count[k + 1] \in 0..N /\ sum[count[k + 1]] = left[k + 1] - left[0]
      OBVIOUS
    <3>1. /\ k \in 0..n - 1 /\ k \in 0..n /\ k + 1 \in 1..n /\ k + 1 \in 0..n /\ (k + 1) - 1 = k
          /\ count[k] \in 0..N /\ sum[count[k]] = left[k] - left[0] /\ 0 \in 0..n
      BY <1>1
    <3>2. left[k] \in Nat /\ left[k + 1] \in Nat /\ left[0] \in Nat
      BY <1>2, <3>1
    <3>3. CASE k + 1 \in kept
      <4>1. count[k + 1] = count[k] + 1
        BY <1>8, <1>10, <3>1, <3>3
      <4>2. count[k + 1] \in 1..N /\ picked[count[k + 1]] = c.items[k + 1]
        BY <1>6, <1>10, <3>1, <3>3
      <4>3. sum[count[k + 1]] = sum[count[k + 1] - 1] + picked[count[k + 1]].size
        BY <1>13, <4>2
      <4>4. count[k + 1] - 1 = count[k]
        BY <3>1, <4>1
      <4>5. left[k] = left[k + 1] - c.items[k + 1].size /\ c.items[k + 1].size \in Nat
        BY <1>1, <1>2, <3>1, <3>3, ItemsHaveSize
      <4>6. sum[count[k + 1]] = (left[k] - left[0]) + c.items[k + 1].size
        BY <3>1, <4>2, <4>3, <4>4
      <4>7. (left[k] - left[0]) + c.items[k + 1].size = left[k + 1] - left[0]
        BY <3>2, <4>5
      <4>8. count[k + 1] \in 0..N
        <5>1. 1..N \subseteq 0..N
          OBVIOUS
        <5> QED
          BY <4>2, <5>1
      <4> QED
        BY <4>6, <4>7, <4>8
    <3>4. CASE k + 1 \notin kept
      <4>1. count[k + 1] = count[k]
        BY <1>8, <1>10, <3>1, <3>4
      <4>2. left[k] = left[k + 1]
        BY <1>2, <3>1, <3>4
      <4> QED
        BY <3>1, <4>1, <4>2
    <3> QED
      BY <3>3, <3>4
  <2>3. S \in SUBSET Nat
    OBVIOUS
  <2> HIDE DEF S
  <2> QED
    BY <2>1, <2>2, <2>3, InSteps
<1>15. sum[N] = left[n] - left[0] /\ left[n] \in Nat /\ left[0] \in Nat
  <2>1. n \in S /\ n \in 0..n /\ 0 \in 0..n
    BY <1>1, <1>14
  <2> QED
    BY <1>1, <1>2, <1>10, <2>1
<1>16. Tokens(picked) <= Room(c)
  BY <1>2, <1>13, <1>15
<1> QED
  BY <1>16 DEF picked, kept

\* A prompt fits, with a summary and without.
LEMMA PromptFits ==
  ASSUME NEW c \in Context
  PROVE  PromptSize(c) <= Budget
<1>1. c.items \in Seq(Item) /\ c.summary \in Nat
  <2>1. c.summary \in 0..MaxSummary /\ MaxSummary \in Nat
    BY SessionMemoryAssumption DEF Context
  <2> QED
    BY <2>1 DEF Context
<1>2. \A items \in Seq(Item) : Tokens(items) \in Nat
  <2> TAKE items \in Seq(Item)
  <2>1. PICK sum \in [0..Len(items) -> Nat] : Tokens(items) = sum[Len(items)]
    BY TokensAdd
  <2> QED
    BY <2>1
<1>3. CASE ~ OverBudget(c)
  BY <1>1, <1>2, <1>3, SessionMemoryAssumption DEF OverBudget, PromptSize
<1>4. CASE OverBudget(c)
  <2>1. Budget \in Nat /\ Budget > 0
    BY SessionMemoryAssumption
  <2>2. Heading(c) \in Nat /\ Heading(c) < Budget
    BY <1>1, <2>1 DEF Heading
  <2>3. Room(c) \in Nat /\ (Room(c) + Heading(c)) + 1 = Budget
    BY <2>1, <2>2 DEF Room
  <2>4. Tokens(PromptItems(c)) <= Room(c)
    BY <1>1, <1>4, <2>3, RetainedFits DEF PromptItems
  <2>5. Tokens(PromptItems(c)) \in Nat
    BY <1>2, PromptIsPart
  <2>6. PromptSize(c) = (Tokens(PromptItems(c)) + Heading(c)) + 1
    BY <1>4 DEF PromptSize
  <2> QED
    BY <2>1, <2>2, <2>3, <2>4, <2>5, <2>6
<1> QED
  BY <1>3, <1>4

\* A summary forgets nothing.
LEMMA CompactionKeeps ==
  ASSUME NEW c \in Context, NEW size \in 0..MaxSummary
  PROVE  /\ Compacted(c, size) \in Context
         /\ Names(Compacted(c, size).items) \cup Compacted(c, size).covered
              = Names(c.items) \cup c.covered
<1>1. /\ c.items \in Seq(Item) /\ c.generation \in Nat /\ c.covered \in SUBSET Name
      /\ Names(c.items) \subseteq Name
  BY NamesAreNames DEF Context
<1>2. PromptItems(c) \in Seq(Item) /\ Names(PromptItems(c)) \subseteq Names(c.items)
  BY PromptIsPart
<1> DEFINE covered == c.covered \cup (Names(c.items) \ Names(PromptItems(c)))
<1>3. /\ Compacted(c, size).items = PromptItems(c) /\ Compacted(c, size).covered = covered
      /\ Compacted(c, size) = [generation |-> c.generation + 1, items |-> PromptItems(c),
                               covered |-> covered, summary |-> size]
  BY DEF Compacted
<1>4. covered \in SUBSET Name
  BY <1>1
<1>5. Compacted(c, size) \in Context
  BY <1>1, <1>2, <1>3, <1>4 DEF Context
<1> QED
  BY <1>2, <1>3, <1>5

\* Texts that are accepted are in the context, and what was there stays.
LEMMA AdditionKeeps ==
  ASSUME NEW c \in Context, NEW items \in Seq(Item)
  PROVE  /\ With(c, items) \in Context
         /\ With(c, items).covered = c.covered
         /\ Names(c.items) \subseteq Names(With(c, items).items)
<1>1. c.items \in Seq(Item) /\ c.generation \in Nat /\ Len(items) \in Nat
  BY DEF Context
<1>2. c.items \o items \in Seq(Item)
  BY <1>1, ConcatProperties
<1>3. Names(c.items \o items) = Names(c.items) \cup Names(items)
  BY <1>1, NamesOfBoth
<1> DEFINE joined == c.items \o items
           n == Len(items)
<1>4. c.covered \in SUBSET Name /\ c.summary \in 0..MaxSummary
  BY DEF Context
<1>5. With(c, items) = [generation |-> c.generation + n, items |-> joined,
                        covered |-> c.covered, summary |-> c.summary]
  BY DEF With
<1>6. c.generation + n \in Nat /\ joined \in Seq(Item)
  BY <1>1, <1>2
<1> HIDE DEF joined, n
<1>7. With(c, items) \in Context /\ With(c, items).items = joined
      /\ With(c, items).covered = c.covered
  BY <1>4, <1>5, <1>6 DEF Context
<1> QED
  BY <1>3, <1>7 DEF joined

-----------------------------------------------------------------------------
(* Tasks.                                                                  *)

States == {"running", "succeeded", "failed", "cancelled", "timed_out"}

\* A task keeps its shape whatever becomes of it, and only a launch makes one run.
LEMMA TaskFields ==
  ASSUME NEW t \in Task
  PROVE  /\ Left(t) \in Task /\ Left(t).state = t.state
         /\ \A s \in States \ {"running"} :
              Closed(t, s) \in Task /\ Closed(t, s).state # "running"
         /\ Cancelled(t) \in Task /\ Cancelled(t).state # "running"
<1>1. Left(t) \in Task /\ Left(t).state = t.state
  BY DEF Left, Task
<1>2. ASSUME NEW r \in Task, NEW s \in States \ {"running"}
      PROVE  /\ [r EXCEPT !.state = IF @ = "running" THEN s ELSE @] \in Task
             /\ [r EXCEPT !.state = IF @ = "running" THEN s ELSE @].state # "running"
  BY DEF Task, States
<1>3. \A s \in States \ {"running"} : Closed(t, s) \in Task /\ Closed(t, s).state # "running"
  BY <1>1, <1>2 DEF Closed
<1>4. t # NoTask /\ "cancelled" \in States \ {"running"}
  BY NothingAssumption DEF States
<1>5. Cancelled(t) \in Task /\ Cancelled(t).state # "running"
  BY <1>2, <1>4 DEF Cancelled
<1> QED
  BY <1>1, <1>3, <1>5

\* A new task has the shape of one.
LEMMA LaunchedIsTask ==
  ASSUME TypeOK, NEW c \in Context, NEW source \in Context \cup {NoSource}
  PROVE  /\ Launched(c, source) \in Task
         /\ Launched(c, source).state = "running" /\ Launched(c, source).awaited
<1>1. DataOf(c) \in Data
  BY DEF DataOf, Data, TypeOK, Memory, Context
<1> QED
  BY <1>1 DEF Launched, Task

\* The texts of a reply are items.
LEMMA TextsAreItems ==
  ASSUME NEW segment \in {1, 2}, NEW text, NEW success, NEW size \in Sizes, turn' \in 1..MaxTurn
  PROVE  Texts(segment, text, success, size) \in Seq(Item)
<1> DEFINE item(kind) == <<[name |-> [turn |-> turn', segment |-> segment, kind |-> kind],
                            size |-> size]>>
<1>1. ASSUME NEW kind \in {"input", "output", "observation"}
      PROVE  item(kind) \in Seq(Item)
  <2>1. [name |-> [turn |-> turn', segment |-> segment, kind |-> kind], size |-> size] \in Item
    BY DEF Item, Name
  <2> QED
    BY <2>1
<1> HIDE DEF item
<1>2. <<>> \in Seq(Item)
  OBVIOUS
<1>3. \A a, b \in Seq(Item) : a \o b \in Seq(Item)
  BY ConcatProperties
<1> DEFINE first == IF segment = 1 THEN item("input") ELSE <<>>
           second == IF success THEN item("observation") ELSE <<>>
           third == IF text = "spoken" THEN item("output") ELSE <<>>
<1>4. first \in Seq(Item) /\ second \in Seq(Item) /\ third \in Seq(Item)
  BY <1>1, <1>2
<1> HIDE DEF first, second, third
<1>5. first \o second \o third \in Seq(Item)
  BY <1>3, <1>4
<1> QED
  BY <1>5 DEF Texts, item, first, second, third

\* A reply leaves the operation's tasks as it found them, and forgets nothing.
LEMMA Applied ==
  ASSUME TypeOK, NothingForgotten, NEW base \in [Kinds -> TaskOrNone],
         NEW segment \in {1, 2}, NEW text, NEW success, NEW terminal,
         turn' \in 1..MaxTurn, Apply(base, segment, text, success, terminal)
  PROVE  /\ tasks' \in [Kinds -> TaskOrNone]
         /\ tasks'["tool"] = base["tool"] /\ tasks'["final"] = base["final"]
         /\ context' \in Context /\ accepted' \subseteq Name /\ NothingForgotten'
         /\ phase' \in {"reasoning", "left"} /\ (phase' = "reasoning" => ~terminal)
<1>t. context \in Context /\ accepted \subseteq Name
  BY DEF TypeOK
<1>1. CASE text = "rejected"
  BY <1>1, <1>t DEF Apply, NothingForgotten
<1>2. CASE text # "rejected"
  <2> DEFINE speech == IF segment = 1 THEN "first" ELSE "second"
             maintained(admitted) == terminal /\ (text = "silent" \/ speech \in admitted)
             starts(admitted, c) ==
               {k \in admitted :
                  \/ k = speech /\ text = "spoken"
                  \/ k = "extract" /\ maintained(admitted) /\ segment = 1
                  \/ k = "compact" /\ maintained(admitted) /\ OverBudget(c)}
  <2>1. PICK size \in Sizes, admitted \in SUBSET (Kinds \ {"tool", "final"}) :
          LET c == With(context, Texts(segment, text, success, size))
          IN  /\ tasks' = [k \in Kinds |->
                             IF k \in starts(admitted, c)
                               THEN Launched(c, IF k = "compact" THEN c ELSE NoSource)
                               ELSE base[k]]
              /\ context' = c
              /\ accepted' = accepted \cup (Names(c.items) \ Names(context.items))
              /\ phase' = IF text = "spoken" \/ terminal THEN "left" ELSE "reasoning"
    BY <1>2 DEF Apply
  <2> DEFINE c == With(context, Texts(segment, text, success, size))
             started == starts(admitted, c)
  <2>2. started \subseteq Kinds \ {"tool", "final"}
    OBVIOUS
  <2> HIDE DEF starts
  <2>3. /\ c \in Context /\ c.covered = context.covered /\ Names(context.items) \subseteq Names(c.items)
    BY <1>t, TextsAreItems, AdditionKeeps
  <2>4. /\ context' = c
        /\ accepted' = accepted \cup (Names(c.items) \ Names(context.items))
        /\ tasks' = [k \in Kinds |->
                       IF k \in started
                         THEN Launched(c, IF k = "compact" THEN c ELSE NoSource)
                         ELSE base[k]]
    BY <2>1
  <2>5. phase' = IF text = "spoken" \/ terminal THEN "left" ELSE "reasoning"
    BY <2>1
  <2> HIDE DEF c, started
  <2>6. ASSUME NEW k \in Kinds
        PROVE  (IF k \in started THEN Launched(c, IF k = "compact" THEN c ELSE NoSource)
                                 ELSE base[k]) \in TaskOrNone
    BY <2>3, LaunchedIsTask DEF TaskOrNone
  <2>7. tasks' \in [Kinds -> TaskOrNone]
    BY <2>4, <2>6
  <2>8. tasks'["tool"] = base["tool"] /\ tasks'["final"] = base["final"]
    BY <2>2, <2>4 DEF Kinds, Speeches
  <2>9. Names(c.items) \subseteq Name
    BY <2>3, NamesAreNames DEF Context
  <2>10. accepted' = Names(context'.items) \cup context'.covered
    BY <2>3, <2>4 DEF NothingForgotten
  <2> QED
    BY <1>t, <2>3, <2>4, <2>5, <2>7, <2>8, <2>9, <2>10 DEF NothingForgotten
<1> QED
  BY <1>1, <1>2

\* The coroutine of an operation leaves none of its tasks running.
LEMMA FollowUpEnded ==
  ASSUME NEW base \in [Kinds -> TaskOrNone], EndFollowUp(base)
  PROVE  /\ tasks' \in [Kinds -> TaskOrNone] /\ followUp' = "none" /\ phase' = "left"
         /\ \A k \in {"tool", "final"} : tasks'[k] # NoTask => tasks'[k].state # "running"
<1>1. ASSUME NEW t \in TaskOrNone, t # NoTask
      PROVE  Closed(t, "failed") \in Task /\ Closed(t, "failed").state # "running"
  BY <1>1, TaskFields DEF TaskOrNone, States
<1>2. tasks' = [k \in Kinds |-> IF k \in {"tool", "final"} /\ base[k] # NoTask
                                  THEN Closed(base[k], "failed") ELSE base[k]]
  BY DEF EndFollowUp
<1>3. \A k \in Kinds : base[k] \in TaskOrNone
  OBVIOUS
<1>4. tasks' \in [Kinds -> TaskOrNone]
  BY <1>1, <1>2, <1>3 DEF TaskOrNone
<1>5. \A k \in {"tool", "final"} : tasks'[k] # NoTask => tasks'[k].state # "running"
  BY <1>1, <1>2, <1>3 DEF Kinds
<1> QED
  BY <1>4, <1>5 DEF EndFollowUp

\* The final reply is launched behind a tool that does not run, or the
\* operation ends.
LEMMA FinalLaunched ==
  ASSUME TypeOK, NEW base \in [Kinds -> TaskOrNone], LaunchFinal(base),
         base["tool"] # NoTask => base["tool"].state # "running"
  PROVE  /\ tasks' \in [Kinds -> TaskOrNone] /\ followUp' \in {"none", "final"}
         /\ phase' \in {phase, "left"} /\ (followUp' = "none" => phase' = "left")
         /\ followUp' = "final" => tasks'["final"] # NoTask /\ tasks'["final"].awaited
         /\ \A k \in {"tool", "final"} :
              tasks'[k] # NoTask /\ tasks'[k].state = "running" => followUp' = k
<1>1. CASE EndFollowUp(base)
  BY <1>1, FollowUpEnded
<1>2. CASE /\ tasks' = [base EXCEPT !["final"] = Launched(context, NoSource)]
           /\ followUp' = "final"
           /\ UNCHANGED phase
  <2>1. Launched(context, NoSource) \in Task /\ Launched(context, NoSource).awaited
    BY LaunchedIsTask DEF TypeOK
  <2>2. /\ tasks' \in [Kinds -> TaskOrNone] /\ tasks'["tool"] = base["tool"]
        /\ tasks'["final"] = Launched(context, NoSource)
    BY <1>2, <2>1 DEF TaskOrNone, Kinds
  <2> QED
    BY <1>2, <2>1, <2>2, NothingAssumption
<1> QED
  BY <1>1, <1>2 DEF LaunchFinal

-----------------------------------------------------------------------------
(* The steps of a turn.                                                    *)

\* What the steps of a turn change, and keep.
Turns ==
  /\ turn \in 0..MaxTurn /\ phase \in {"reasoning", "left"} /\ observed \in BOOLEAN
  /\ followUp \in {"none", "starting", "tool", "final"}
  /\ tasks \in [Kinds -> TaskOrNone] /\ context \in Context /\ accepted \subseteq Name
Operates == FollowUpHasItsTask /\ OpenOperationIsOwned

\* They start out well shaped.
LEMMA TurnsTyped ==
  ASSUME TypeOK
  PROVE  Turns
BY DEF TypeOK, Turns, TaskOrNone

\* An input begins a turn without tasks of an operation.
LEMMA ReplyStep ==
  ASSUME TypeOK, NothingForgotten, NEW text \in {"silent", "spoken", "rejected"},
         NEW asks \in BOOLEAN, Reply(text, asks)
  PROVE  Turns' /\ Operates' /\ NothingForgotten'
<1>1. turn' \in 1..MaxTurn /\ turn' > 0 /\ followUp' = IF asks THEN "starting" ELSE "none"
  BY SessionMemoryAssumption DEF TypeOK, Reply
<1>2. Idle \in [Kinds -> TaskOrNone] /\ Idle["tool"] = NoTask /\ Idle["final"] = NoTask
  BY DEF Idle, TaskOrNone, Kinds
<1>3. Apply(Idle, 1, text, FALSE, ~asks) /\ observed' = FALSE
  BY DEF Reply
<1>4. /\ tasks' \in [Kinds -> TaskOrNone]
      /\ tasks'["tool"] = NoTask /\ tasks'["final"] = NoTask
      /\ context' \in Context /\ accepted' \subseteq Name /\ NothingForgotten'
      /\ phase' \in {"reasoning", "left"} /\ (phase' = "reasoning" => asks)
  <2>2. 1 \in {1, 2}
    OBVIOUS
  <2> QED
    BY <1>1, <1>2, <1>3, <2>2, Applied
<1>5. Turns'
  <2>1. turn' \in 0..MaxTurn /\ followUp' \in {"none", "starting", "tool", "final"}
    BY <1>1
  <2>2. observed' \in BOOLEAN
    BY <1>3
  <2> QED
    BY <1>4, <2>1, <2>2 DEF Turns
<1>6. Operates'
  BY <1>1, <1>4 DEF Operates, FollowUpHasItsTask, OpenOperationIsOwned
<1> QED
  BY <1>4, <1>5, <1>6

\* After the tool there is the final reply, or nothing.
LEMMA LaunchStep ==
  ASSUME TypeOK, FollowUpHasItsTask, NothingForgotten, followUp # "none",
         UNCHANGED <<turn, context, accepted>>, observed' \in BOOLEAN,
         NEW base \in [Kinds -> TaskOrNone],
         \/ EndFollowUp(base)
         \/ LaunchFinal(base) /\ (base["tool"] # NoTask => base["tool"].state # "running")
  PROVE  Turns' /\ Operates' /\ NothingForgotten'
<1>1. NothingForgotten'
  BY DEF NothingForgotten
<1>2. Turns /\ turn > 0
  BY TurnsTyped DEF FollowUpHasItsTask
<1>3. CASE EndFollowUp(base)
  <2>1. /\ tasks' \in [Kinds -> TaskOrNone] /\ followUp' = "none" /\ phase' = "left"
        /\ \A k \in {"tool", "final"} : tasks'[k] # NoTask => tasks'[k].state # "running"
    BY <1>3, FollowUpEnded
  <2> QED
    BY <1>1, <1>2, <2>1 DEF Turns, Operates, FollowUpHasItsTask, OpenOperationIsOwned
<1>4. CASE LaunchFinal(base) /\ (base["tool"] # NoTask => base["tool"].state # "running")
  <2>1. /\ tasks' \in [Kinds -> TaskOrNone] /\ followUp' \in {"none", "final"}
        /\ phase' \in {phase, "left"} /\ (followUp' = "none" => phase' = "left")
        /\ followUp' = "final" => tasks'["final"] # NoTask /\ tasks'["final"].awaited
        /\ \A k \in {"tool", "final"} :
             tasks'[k] # NoTask /\ tasks'[k].state = "running" => followUp' = k
    BY <1>4, FinalLaunched
  <2>2. \A k \in {"tool", "final"} : tasks'[k] # NoTask /\ tasks'[k].state = "running" =>
          tasks'[k].awaited
    BY <2>1
  <2>3. Turns'
    BY <1>2, <2>1 DEF Turns
  <2>4. OpenOperationIsOwned'
    BY <2>1, <2>2 DEF OpenOperationIsOwned
  <2>5. FollowUpHasItsTask'
    BY <1>2, <2>1 DEF FollowUpHasItsTask
  <2> QED
    BY <1>1, <2>3, <2>4, <2>5 DEF Operates
<1> QED
  BY <1>3, <1>4

\* The coroutine of an operation starts with a tool, or goes on without one.
LEMMA StartToolStep ==
  ASSUME TypeOK, Operates, NothingForgotten, StartTool
  PROVE  Turns' /\ Operates' /\ NothingForgotten'
<1>1. /\ followUp = "starting" /\ UNCHANGED <<turn, context, accepted>> /\ observed' = observed
  BY DEF StartTool
<1>2. Turns /\ FollowUpHasItsTask /\ turn > 0
  BY <1>1, TurnsTyped DEF Operates, FollowUpHasItsTask
<1>3. \A k \in {"tool", "final"} : tasks[k] # NoTask => tasks[k].state # "running"
  BY <1>1 DEF Operates, OpenOperationIsOwned
<1>4. CASE LaunchFinal(tasks)
  BY <1>1, <1>2, <1>3, <1>4, LaunchStep DEF Turns
<1>5. CASE /\ tasks' = [tasks EXCEPT !["tool"] = Launched(context, NoSource)]
           /\ followUp' = "tool"
           /\ UNCHANGED phase
  <2>1. Launched(context, NoSource) \in Task /\ Launched(context, NoSource).awaited
    BY LaunchedIsTask DEF TypeOK
  <2>2. /\ tasks' \in [Kinds -> TaskOrNone] /\ tasks'["final"] = tasks["final"]
        /\ tasks'["tool"] = Launched(context, NoSource) /\ tasks'["tool"] # NoTask
    BY <1>2, <1>5, <2>1, NothingAssumption DEF Turns, TaskOrNone, Kinds
  <2>3. Turns'
    BY <1>1, <1>2, <1>5, <2>2 DEF Turns
  <2>4. Operates'
    BY <1>1, <1>2, <1>3, <1>5, <2>1, <2>2 DEF Operates, FollowUpHasItsTask, OpenOperationIsOwned
  <2> QED
    BY <1>1, <2>3, <2>4 DEF NothingForgotten
<1> QED
  BY <1>4, <1>5 DEF StartTool

\* The coroutine of a tool that succeeded, was late or was refused goes on with
\* a tool that does not run, or ends.
LEMMA AnswerToolStep ==
  ASSUME TypeOK, Operates, NothingForgotten,
         NEW outcome \in {"success", "failure", "late", "outlived"}, AnswerTool(outcome)
  PROVE  Turns' /\ Operates' /\ NothingForgotten'
<1>1. /\ followUp = "tool" /\ UNCHANGED <<turn, context, accepted>>
      /\ observed' \in BOOLEAN
  BY DEF AnswerTool
<1>2. Turns /\ FollowUpHasItsTask /\ tasks["tool"] \in Task
  BY <1>1, TurnsTyped DEF Operates, FollowUpHasItsTask, Turns, TaskOrNone, Kinds
<1> DEFINE t == IF outcome = "late" THEN Closed(tasks["tool"], "timed_out") ELSE Left(tasks["tool"])
           base == [tasks EXCEPT !["tool"] = t]
           won == [tasks EXCEPT !["tool"] = Closed(@, "succeeded")]
<1>3. t \in Task /\ Closed(tasks["tool"], "succeeded") \in Task
      /\ Closed(tasks["tool"], "succeeded").state # "running"
  BY <1>2, TaskFields DEF States
<1>4. /\ tasks \in [Kinds -> TaskOrNone]
      /\ base \in [Kinds -> TaskOrNone] /\ base["tool"] = t
      /\ won \in [Kinds -> TaskOrNone] /\ won["tool"] = Closed(tasks["tool"], "succeeded")
  BY <1>2, <1>3 DEF Turns, TaskOrNone, Kinds
<1>5. \/ EndFollowUp(tasks) \/ LaunchFinal(won) \/ EndFollowUp(base)
      \/ t.state = "timed_out" /\ LaunchFinal(base)
  BY DEF AnswerTool
<1> HIDE DEF t, base, won
<1> QED
  BY <1>1, <1>2, <1>3, <1>4, <1>5, LaunchStep

\* The final reply is applied behind tasks that are closed, or ends the operation.
LEMMA AnswerFinalStep ==
  ASSUME TypeOK, Operates, NothingForgotten,
         NEW text \in {"silent", "spoken", "rejected", "none"}, AnswerFinal(text)
  PROVE  Turns' /\ Operates' /\ NothingForgotten'
<1>1. followUp = "final" /\ UNCHANGED <<turn, observed>>
  BY DEF AnswerFinal
<1>2. Turns /\ FollowUpHasItsTask /\ tasks["final"] \in Task /\ turn > 0
  BY <1>1, TurnsTyped DEF Operates, FollowUpHasItsTask, Turns, TaskOrNone, Kinds
<1>3. CASE EndFollowUp(tasks) /\ UNCHANGED <<context, accepted>>
  BY <1>1, <1>2, <1>3, LaunchStep DEF Turns
<1>4. CASE /\ Apply([tasks EXCEPT !["final"] = Closed(@, "succeeded")], 2, text, observed, TRUE)
           /\ followUp' = "none"
  <2> DEFINE base == [tasks EXCEPT !["final"] = Closed(@, "succeeded")]
  <2>1. Closed(tasks["final"], "succeeded") \in Task
        /\ Closed(tasks["final"], "succeeded").state # "running"
    BY <1>2, TaskFields DEF States
  <2>2. /\ base \in [Kinds -> TaskOrNone] /\ base["tool"] = tasks["tool"]
        /\ base["final"] = Closed(tasks["final"], "succeeded")
    BY <1>2, <2>1 DEF Turns, TaskOrNone, Kinds
  <2>3. tasks["tool"] # NoTask => tasks["tool"].state # "running"
    BY <1>1 DEF Operates, OpenOperationIsOwned
  <2>4. turn' \in 1..MaxTurn /\ 2 \in {1, 2}
    BY <1>1, <1>2, SessionMemoryAssumption DEF Turns
  <2> HIDE DEF base
  <2>5. Apply(base, 2, text, observed, TRUE)
    BY <1>4 DEF base
  <2>6. /\ tasks' \in [Kinds -> TaskOrNone]
        /\ tasks'["tool"] = base["tool"] /\ tasks'["final"] = base["final"]
        /\ context' \in Context /\ accepted' \subseteq Name /\ NothingForgotten'
        /\ phase' \in {"reasoning", "left"} /\ phase' # "reasoning"
    BY <2>2, <2>4, <2>5, Applied
  <2>7. Turns'
    BY <1>1, <1>2, <1>4, <2>6 DEF Turns
  <2>8. Operates'
    BY <1>4, <2>1, <2>2, <2>3, <2>6 DEF Operates, FollowUpHasItsTask, OpenOperationIsOwned
  <2> QED
    BY <2>6, <2>7, <2>8
<1> QED
  BY <1>3, <1>4 DEF AnswerFinal

\* A step that touches no task of an operation keeps the operation.
LEMMA OtherTask ==
  ASSUME TypeOK, Operates, UNCHANGED turnVars, NEW k \in Kinds \ {"tool", "final"},
         NEW t \in Task, tasks' = [tasks EXCEPT ![k] = t]
  PROVE  tasks' \in [Kinds -> TaskOrNone] /\ Operates'
<1>1. /\ tasks' \in [Kinds -> TaskOrNone] /\ tasks'["tool"] = tasks["tool"]
      /\ tasks'["final"] = tasks["final"]
  BY TurnsTyped DEF Turns, TaskOrNone, Kinds
<1>2. followUp' = followUp /\ phase' = phase /\ turn' = turn
  BY DEF turnVars
<1>3. followUp \in {"tool", "final"} => tasks'[followUp] = tasks[followUp]
  BY <1>1
<1>4. FollowUpHasItsTask'
  BY <1>2, <1>3 DEF Operates, FollowUpHasItsTask
<1>5. OpenOperationIsOwned'
  BY <1>1, <1>2 DEF Operates, OpenOperationIsOwned
<1> QED
  BY <1>1, <1>4, <1>5 DEF Operates

-----------------------------------------------------------------------------
(* The steps of the memory and of the session.                             *)

\* What the steps of the memory change, and keep.
Stores ==
  /\ up \in BOOLEAN /\ ended \in BOOLEAN /\ identity \in 0..MaxIdentity
  /\ memory \in Memory /\ disk \in Memory \cup {NoFile}
  /\ MemoryIsDurable

\* The invariant in the parts in which it is kept.
LEMMA Parts ==
  Inv <=> Turns /\ Operates /\ NothingForgotten /\ Stores
BY DEF Inv, TypeOK, Turns, Operates, Stores, TaskOrNone

\* And in the next state.
LEMMA Whole ==
  ASSUME Turns', Operates', NothingForgotten', Stores'
  PROVE  Inv'
BY DEF Inv, TypeOK, Turns, Operates, Stores, TaskOrNone

\* A step that leaves the memory and its file alone keeps them.
LEMMA StoresKept ==
  ASSUME Stores, UNCHANGED <<lifeVars, storeVars>>, identity' \in 0..MaxIdentity
  PROVE  Stores'
BY DEF Stores, lifeVars, storeVars, MemoryIsDurable, Load

\* A text in the context stays as long as the context does.
LEMMA ContextKept ==
  ASSUME NothingForgotten, UNCHANGED <<context, accepted>>
  PROVE  NothingForgotten'
BY DEF NothingForgotten

\* One task outside of the operation moves, and nothing else of the turn does.
LEMMA TaskStep ==
  ASSUME Inv, UNCHANGED <<turnVars, accepted>>, context' \in Context,
         NEW k \in Kinds \ {"tool", "final"}, NEW t \in Task,
         tasks' = [tasks EXCEPT ![k] = t]
  PROVE  Turns' /\ Operates'
<1>1. tasks' \in [Kinds -> TaskOrNone] /\ Operates'
  BY OtherTask DEF Inv, Operates
<1> QED
  BY <1>1, TurnsTyped DEF Inv, Turns, turnVars

\* A task that is awaited is one.
LEMMA AwaitedIsTask ==
  ASSUME Inv, NEW k \in Kinds, Awaited(k)
  PROVE  /\ tasks[k] \in Task
         /\ Left(tasks[k]) \in Task
         /\ Closed(tasks[k], "failed") \in Task
         /\ Closed(tasks[k], "succeeded") \in Task
<1>1. tasks[k] \in Task
  BY DEF Inv, TypeOK, Awaited
<1> QED
  BY <1>1, TaskFields DEF States

\* A speech that ends closes its own task.
LEMMA FinishSpeechStep ==
  ASSUME Inv, NEW k \in Speeches, NEW succeeds \in BOOLEAN, FinishSpeech(k, succeeds)
  PROVE  Inv'
<1>1. k \in Kinds \ {"tool", "final"}
  BY DEF Kinds, Speeches
<1> DEFINE t == IF ~succeeds THEN Closed(tasks[k], "failed")
                ELSE IF Accepts(k) THEN Closed(tasks[k], "succeeded") ELSE Left(tasks[k])
<1>2. t \in Task /\ tasks' = [tasks EXCEPT ![k] = t]
  BY <1>1, AwaitedIsTask DEF FinishSpeech
<1>3. UNCHANGED <<lifeVars, turnVars, storeVars, context, identity, accepted>>
  BY DEF FinishSpeech
<1> HIDE DEF t
<1>4. Turns' /\ Operates'
  BY <1>1, <1>2, <1>3, TaskStep DEF Inv, TypeOK
<1> QED
  BY <1>3, <1>4, Parts, Whole, StoresKept, ContextKept DEF Stores

\* So does a maintenance that fails.
LEMMA FailMaintenanceStep ==
  ASSUME Inv, NEW k \in {"extract", "compact"}, FailMaintenance(k)
  PROVE  Inv'
<1>1. k \in Kinds \ {"tool", "final"}
  BY DEF Kinds, Speeches
<1>2. Closed(tasks[k], "failed") \in Task
      /\ tasks' = [tasks EXCEPT ![k] = Closed(tasks[k], "failed")]
  BY <1>1, AwaitedIsTask DEF FailMaintenance
<1>3. UNCHANGED <<lifeVars, turnVars, storeVars, context, identity, accepted>>
  BY DEF FailMaintenance
<1>4. Turns' /\ Operates'
  BY <1>1, <1>2, <1>3, TaskStep DEF Inv, TypeOK
<1> QED
  BY <1>3, <1>4, Parts, Whole, StoresKept, ContextKept DEF Stores

\* A memory with one more fact is a memory.
LEMMA ExtendedIsMemory ==
  ASSUME Inv, NEW key \in Keys, NEW entry \in Entry, memory.revision < MaxRevision
  PROVE  Extended(key, entry) \in Memory
<1>1. memory \in Memory
  BY DEF Inv, TypeOK
<1>2. memory.revision \in 0..MaxRevision /\ memory.entries \in [Keys -> Entry \cup {NoEntry}]
  BY <1>1 DEF Memory
<1>3. memory.revision + 1 \in 0..MaxRevision
  BY <1>2, SessionMemoryAssumption
<1>4. [memory.entries EXCEPT ![key] = entry] \in [Keys -> Entry \cup {NoEntry}]
  BY <1>2
<1> QED
  BY <1>3, <1>4 DEF Extended, Memory

\* A staged copy reaches the file and the memory in one step, or neither.
LEMMA AnswerExtractionStep ==
  ASSUME Inv, NEW key \in Keys, NEW entry \in Entry, AnswerExtraction(key, entry)
  PROVE  Inv'
<1>1. "extract" \in Kinds \ {"tool", "final"}
  BY DEF Kinds, Speeches
<1>2. Awaited("extract")
      /\ UNCHANGED <<lifeVars, turnVars, context, identity, accepted>>
  BY DEF AnswerExtraction
<1>3. \E t \in Task : tasks' = [tasks EXCEPT !["extract"] = t]
  BY <1>1, <1>2, AwaitedIsTask DEF AnswerExtraction, SaveThenSwap
<1>4. Turns' /\ Operates'
  BY <1>1, <1>2, <1>3, TaskStep DEF Inv, TypeOK
<1>5. CASE UNCHANGED storeVars
  BY <1>2, <1>4, <1>5, Parts, Whole, StoresKept, ContextKept DEF Stores
<1>6. CASE ~UNCHANGED storeVars
  <2>1. /\ disk' = Extended(key, entry) /\ memory' = Extended(key, entry)
        /\ memory.revision < MaxRevision
    BY <1>6 DEF AnswerExtraction, SaveThenSwap
  <2>2. Extended(key, entry) \in Memory /\ Extended(key, entry) # NoFile
    BY <2>1, ExtendedIsMemory, NothingAssumption
  <2>3. Stores'
    BY <1>2, <2>1, <2>2, Parts DEF Stores, MemoryIsDurable, Load, lifeVars
  <2> QED
    BY <1>2, <1>4, <2>3, Parts, Whole, ContextKept
<1> QED
  BY <1>5, <1>6

\* A summary takes the place of what it stands for.
LEMMA AnswerCompactionStep ==
  ASSUME Inv, NEW size \in 1..MaxSummary + 1, AnswerCompaction(size)
  PROVE  Inv'
<1>1. "compact" \in Kinds \ {"tool", "final"}
  BY DEF Kinds, Speeches
<1>2. Awaited("compact")
      /\ UNCHANGED <<lifeVars, turnVars, storeVars, identity, accepted>>
  BY DEF AnswerCompaction
<1>3. \E t \in Task : tasks' = [tasks EXCEPT !["compact"] = t]
  BY <1>1, <1>2, AwaitedIsTask DEF AnswerCompaction
<1>4. context \in Context /\ MaxSummary \in Nat
  BY SessionMemoryAssumption DEF Inv, TypeOK
<1>5. context' = context \/ (context' = Compacted(context, size) /\ size <= MaxSummary)
  BY DEF AnswerCompaction, MayReplace
<1>6. context' \in Context /\ NothingForgotten'
  <2>1. CASE context' = context
    BY <1>2, <1>4, <2>1, ContextKept DEF Inv
  <2>2. CASE context' = Compacted(context, size) /\ size <= MaxSummary
    <3>1. size \in 0..MaxSummary
      BY <1>4, <2>2
    <3>2. /\ Compacted(context, size) \in Context
          /\ Names(Compacted(context, size).items) \cup Compacted(context, size).covered
               = Names(context.items) \cup context.covered
      BY <1>4, <3>1, CompactionKeeps
    <3> QED
      BY <1>2, <2>2, <3>2 DEF Inv, NothingForgotten
  <2> QED
    BY <1>5, <2>1, <2>2
<1>7. Turns' /\ Operates'
  BY <1>1, <1>2, <1>3, <1>6, TaskStep
<1> QED
  BY <1>2, <1>6, <1>7, Parts, Whole, StoresKept DEF Stores

\* An enrolment tells nobody.
LEMMA EnrollStep ==
  ASSUME Inv, Enroll
  PROVE  Inv'
<1>1. identity' \in 0..MaxIdentity
  BY SessionMemoryAssumption DEF Inv, TypeOK, Enroll
<1>2. UNCHANGED <<lifeVars, turnVars, tasks, storeVars, context, accepted>>
  BY DEF Enroll
<1>3. Turns' /\ Operates'
  BY <1>2, Parts DEF Turns, Operates, FollowUpHasItsTask, OpenOperationIsOwned, turnVars
<1> QED
  BY <1>1, <1>2, <1>3, Parts, Whole, StoresKept, ContextKept

\* A revocation leaves no task running.
LEMMA RevokeStep ==
  ASSUME Inv, Revoke
  PROVE  Inv'
<1>1. identity' \in 0..MaxIdentity
  BY SessionMemoryAssumption DEF Inv, TypeOK, Revoke
<1>2. UNCHANGED <<lifeVars, turnVars, storeVars, context, accepted>>
  BY DEF Revoke
<1>3. \A k \in Kinds : /\ tasks'[k] \in TaskOrNone /\ (tasks'[k] = NoTask <=> tasks[k] = NoTask)
                       /\ tasks'[k] # NoTask => tasks'[k].state # "running"
  <2> SUFFICES ASSUME NEW k \in Kinds
               PROVE  /\ tasks'[k] \in TaskOrNone /\ (tasks'[k] = NoTask <=> tasks[k] = NoTask)
                      /\ tasks'[k] # NoTask => tasks'[k].state # "running"
    OBVIOUS
  <2>1. tasks'[k] = Cancelled(tasks[k]) /\ tasks[k] \in TaskOrNone
    BY DEF Revoke, Inv, TypeOK, TaskOrNone
  <2>2. CASE tasks[k] = NoTask
    BY <2>1, <2>2 DEF Cancelled, TaskOrNone
  <2>3. CASE tasks[k] \in Task
    BY <2>1, <2>3, TaskFields, NothingAssumption DEF TaskOrNone
  <2> QED
    BY <2>1, <2>2, <2>3 DEF TaskOrNone
<1>4. tasks' \in [Kinds -> TaskOrNone]
  <2>1. tasks' = [k \in Kinds |-> Cancelled(tasks[k])]
    BY DEF Revoke
  <2> QED
    BY <1>3, <2>1
<1>5. Turns'
  BY <1>2, <1>4, Parts DEF Turns, turnVars
<1>6. /\ followUp' = followUp /\ phase' = phase /\ turn' = turn
      /\ "tool" \in Kinds /\ "final" \in Kinds
  BY <1>2 DEF turnVars, Kinds
<1>7. FollowUpHasItsTask /\ OpenOperationIsOwned
  BY DEF Inv
<1>8. FollowUpHasItsTask'
  BY <1>3, <1>6, <1>7 DEF FollowUpHasItsTask
<1>9. OpenOperationIsOwned'
  BY <1>3, <1>6, <1>7 DEF OpenOperationIsOwned
<1> QED
  BY <1>1, <1>2, <1>5, <1>8, <1>9, Parts, Whole, StoresKept, ContextKept DEF Operates

\* Nothing has been said or done.
LEMMA NothingYet ==
  /\ EmptyMemory \in Memory /\ EmptyMemory # NoFile
  /\ Idle \in [Kinds -> TaskOrNone] /\ \A k \in Kinds : Idle[k] = NoTask
  /\ EmptyContext \in Context
  /\ \A c \in Context : [EmptyContext EXCEPT !.generation = c.generation + 1] \in Context
  /\ Names(<<>>) = {}
<1>1. EmptyMemory \in Memory
  BY SessionMemoryAssumption DEF EmptyMemory, Memory
<1>2. 0 \in 0..MaxSummary /\ <<>> \in Seq(Item) /\ {} \in SUBSET Name
  BY SessionMemoryAssumption
<1>3. EmptyContext \in Context
  BY <1>2 DEF EmptyContext, Context
<1>4. ASSUME NEW c \in Context
      PROVE  [EmptyContext EXCEPT !.generation = c.generation + 1] \in Context
  <2>1. c.generation + 1 \in Nat
    BY DEF Context
  <2> QED
    BY <1>3, <2>1 DEF Context
<1>5. Names(<<>>) = {}
  BY DEF Names
<1> QED
  BY <1>1, <1>3, <1>4, <1>5, NothingAssumption DEF Idle, TaskOrNone

\* Without a turn nothing is owned, and without texts nothing is forgotten.
LEMMA Emptied ==
  ASSUME tasks' = Idle, followUp' = "none", phase' = "left", accepted' = {},
         turn' \in 0..MaxTurn, observed' \in BOOLEAN,
         context' \in Context, context'.items = <<>>, context'.covered = {}
  PROVE  Turns' /\ Operates' /\ NothingForgotten'
<1>1. tasks' \in [Kinds -> TaskOrNone] /\ tasks'["tool"] = NoTask /\ tasks'["final"] = NoTask
  BY NothingYet DEF Kinds
<1>2. Turns'
  BY <1>1 DEF Turns
<1>3. Operates'
  BY <1>1 DEF Operates, FollowUpHasItsTask, OpenOperationIsOwned
<1> QED
  BY <1>2, <1>3, NothingYet DEF NothingForgotten

\* The end of a session empties all that it remembers.
LEMMA EndStep ==
  ASSUME Inv, End
  PROVE  Inv'
<1>1. /\ context \in Context /\ memory \in Memory /\ disk \in Memory \cup {NoFile}
      /\ turn \in 0..MaxTurn /\ observed \in BOOLEAN
      /\ identity \in 0..MaxIdentity /\ up \in BOOLEAN
  BY DEF Inv, TypeOK
<1>2. /\ context' \in Context /\ context'.items = <<>> /\ context'.covered = {}
  BY <1>1, NothingYet DEF End, EmptyContext
<1>3. Turns' /\ Operates' /\ NothingForgotten'
  BY <1>1, <1>2, Emptied DEF End
<1>4. memory' \in Memory
  <2>1. memory.revision + 1 \in 0..MaxRevision
    BY <1>1, SessionMemoryAssumption DEF End, Memory
  <2> QED
    BY <2>1, NothingYet DEF End, Memory, EmptyMemory
<1>5. Stores'
  BY <1>1, <1>4 DEF End, Stores, MemoryIsDurable
<1> QED
  BY <1>3, <1>5, Parts, Whole

\* A session that is down remembers what its file holds.
LEMMA DownStep ==
  ASSUME Inv, Down, UNCHANGED <<turn, identity>>, disk' \in Memory \cup {NoFile}
  PROVE  Inv'
<1>1. turn \in 0..MaxTurn /\ identity \in 0..MaxIdentity
  BY DEF Inv, TypeOK
<1>2. /\ context' \in Context /\ context'.items = <<>> /\ context'.covered = {}
  BY NothingYet DEF Down, EmptyContext
<1>3. Turns' /\ Operates' /\ NothingForgotten'
  BY <1>1, <1>2, Emptied DEF Down
<1>4. Stores'
  BY <1>1, NothingYet DEF Down, Stores, MemoryIsDurable
<1> QED
  BY <1>3, <1>4, Parts, Whole

\* A session starts with the memory of its file.
LEMMA StartStep ==
  ASSUME Inv, Start
  PROVE  Inv'
<1>1. UNCHANGED <<ended, turnVars, tasks, disk, context, identity, accepted>> /\ up' = TRUE
  BY DEF Start
<1>2. Turns' /\ Operates'
  BY <1>1, Parts DEF Turns, Operates, FollowUpHasItsTask, OpenOperationIsOwned, turnVars
<1>3. memory' = Load /\ Load \in Memory /\ Load' = Load
  BY <1>1, NothingYet DEF Start, Load, Inv, TypeOK
<1>4. Stores'
  BY <1>1, <1>3 DEF Stores, MemoryIsDurable, Inv, TypeOK
<1> QED
  BY <1>1, <1>2, <1>4, Parts, Whole, ContextKept

-----------------------------------------------------------------------------
(* The theorems.                                                           *)

\* A session that was never started has nothing.
LEMMA Initially ==
  ASSUME Init
  PROVE  Inv
<1>1. {0} \subseteq 0..MaxTurn /\ {0} \subseteq 0..MaxIdentity
  BY SessionMemoryAssumption
<1>2. TypeOK
  BY <1>1, NothingYet DEF Init, TypeOK, TaskOrNone
<1>3. NothingForgotten
  BY NothingYet DEF Init, NothingForgotten, EmptyContext
<1>4. OpenOperationIsOwned /\ FollowUpHasItsTask /\ MemoryIsDurable
  BY NothingYet DEF Init, OpenOperationIsOwned, FollowUpHasItsTask, MemoryIsDurable, Kinds
<1> QED
  BY <1>2, <1>3, <1>4 DEF Inv

\* A step of the turn leaves the memory and its file alone.
LEMMA TurnStep ==
  ASSUME Inv, Turns' /\ Operates' /\ NothingForgotten',
         UNCHANGED <<lifeVars, storeVars, identity>>
  PROVE  Inv'
BY Parts, Whole, StoresKept DEF Stores

\* Every step keeps the invariant.
LEMMA Kept ==
  ASSUME Inv, [Next]_vars
  PROVE  Inv'
<1>i. TypeOK /\ Operates /\ NothingForgotten
  BY DEF Inv, Operates
<1>1. ASSUME NEW text \in {"silent", "spoken", "rejected"}, NEW asks \in BOOLEAN, Reply(text, asks)
      PROVE  Inv'
  <2>1. UNCHANGED <<lifeVars, storeVars, identity>>
    BY <1>1 DEF Reply
  <2> QED
    BY <1>i, <1>1, <2>1, ReplyStep, TurnStep
<1>2. CASE Operation
  <2>1. UNCHANGED <<lifeVars, storeVars, identity>>
    BY <1>2 DEF Operation, StartTool, AnswerTool, AnswerFinal
  <2>2. Turns' /\ Operates' /\ NothingForgotten'
    BY <1>i, <1>2, StartToolStep, AnswerToolStep, AnswerFinalStep DEF Operation
  <2> QED
    BY <2>1, <2>2, TurnStep
<1>3. CASE Speaking
  BY <1>3, FinishSpeechStep DEF Speaking
<1>4. CASE Extraction
  BY <1>4, AnswerExtractionStep, FailMaintenanceStep DEF Extraction
<1>5. CASE Compaction
  BY <1>5, AnswerCompactionStep, FailMaintenanceStep DEF Compaction
<1>6. CASE Enroll
  BY <1>6, EnrollStep
<1>7. CASE Revoke
  BY <1>7, RevokeStep
<1>8. CASE End
  BY <1>8, EndStep
<1>9. CASE Stop
  <2>1. Down /\ UNCHANGED <<turn, identity>> /\ disk' \in Memory \cup {NoFile}
    BY <1>9 DEF Stop, Inv, TypeOK
  <2> QED
    BY <2>1, DownStep
<1>10. CASE Start
  BY <1>10, StartStep
<1>11. ASSUME NEW key \in Keys, NEW entry \in Entry, CrashInCommit(key, entry)
       PROVE  Inv'
  <2>1. Down /\ UNCHANGED <<turn, identity>> /\ disk' = Extended(key, entry)
        /\ memory.revision < MaxRevision
    BY <1>11 DEF CrashInCommit
  <2> QED
    BY <2>1, ExtendedIsMemory, DownStep
<1>12. CASE UNCHANGED vars
  <2>1. UNCHANGED <<lifeVars, storeVars, identity>> /\ UNCHANGED <<turnVars, tasks, context, accepted>>
    BY <1>12 DEF vars
  <2>2. Turns' /\ Operates'
    BY <2>1, Parts DEF Turns, Operates, FollowUpHasItsTask, OpenOperationIsOwned, turnVars
  <2> QED
    BY <1>i, <2>1, <2>2, ContextKept, TurnStep
<1> QED
  BY <1>1, <1>2, <1>3, <1>4, <1>5, <1>6, <1>7, <1>8, <1>9, <1>10, <1>11, <1>12 DEF Next

\* The invariant holds of every session, whatever its turns say and whatever fails.
THEOREM Invariants == Spec => []Inv
<1>1. Init => Inv
  BY Initially
<1>2. Inv /\ [Next]_vars => Inv'
  BY Kept
<1> QED
  BY <1>1, <1>2, PTL DEF Spec

\* Every variable keeps to its shape.
THEOREM TypeCorrect == Spec => []TypeOK
<1>1. Inv => TypeOK
  BY DEF Inv
<1> QED
  BY <1>1, Invariants, PTL

\* What a live session remembers is what it would load: a refused write changes
\* neither, and a stop right after a write changes only what is loaded next
\* (reduce_memory, MarkdownMemoryStore.save).
THEOREM MemoryIsSaved == Spec => []MemoryIsDurable
<1>1. Inv => MemoryIsDurable
  BY DEF Inv
<1> QED
  BY <1>1, Invariants, PTL

\* Every text that was accepted into the context is in it raw, or stands behind
\* its summary (consider, compact).
THEOREM NothingIsForgotten == Spec => []NothingForgotten
<1>1. Inv => NothingForgotten
  BY DEF Inv
<1> QED
  BY <1>1, Invariants, PTL

\* An operation's tasks run, and its turn reasons, only as long as its coroutine
\* is there to close them (_run_operation_followup).
THEOREM OperationsAreOwned == Spec => []OpenOperationIsOwned
<1>1. Inv => OpenOperationIsOwned
  BY DEF Inv
<1> QED
  BY <1>1, Invariants, PTL

\* The Brain is never shown more than its budget, whether or not the summary of an
\* oversized context ever came (compose_context).
THEOREM PromptsFit == Spec => []PromptFitsBudget
<1>1. TypeOK => PromptFitsBudget
  BY PromptFits DEF TypeOK, PromptFitsBudget
<1> QED
  BY <1>1, TypeCorrect, PTL

=============================================================================

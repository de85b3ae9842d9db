---------------------------- MODULE Bindings_proof ----------------------------
(***************************************************************************)
(* What the pure operators of Bindings return, for any list of entries:    *)
(* the facts about one store operation on which the proofs of SessionFile  *)
(* and OpencodeTurn rest.                                                  *)
(***************************************************************************)
EXTENDS Bindings, FiniteSetTheorems, TLAPS

\* Every set of naturals has a least element: the intervals up to its members
\* are finite sets, which strict inclusion orders without infinite descent.
LEMMA LeastNatural ==
    ASSUME NEW S, S \subseteq Nat, S # {}
    PROVE  \E m \in S : \A n \in S : m <= n
<1> DEFINE T == {1 .. n : n \in S}
           R == StrictSubsetOrdering(Nat)
<1>1. T \subseteq FiniteSubsetsOf(Nat) /\ T # {}
  <2>1. ASSUME NEW n \in S PROVE 1 .. n \in SUBSET Nat /\ IsFiniteSet(1 .. n)
    BY FS_Interval
  <2>2. QED
    BY <2>1 DEF FiniteSubsetsOf
<1>2. IsWellFoundedOn(R, FiniteSubsetsOf(Nat))
  BY FS_StrictSubsetOrderingWellFounded
<1>3. PICK x \in T : \A y \in T : ~(<<y, x>> \in R)
  <2> HIDE DEF T, R
  <2>1. QED
    BY <1>1, <1>2, WFMin
<1>4. PICK m \in S : x = 1 .. m
  BY <1>3
<1>5. ASSUME NEW n \in S, n < m
      PROVE  FALSE
  <2>1. <<1 .. n, 1 .. m>> \in R
    <3>1. (1 .. n) \subseteq (1 .. m) /\ m \in 1 .. m /\ m \notin 1 .. n
      BY <1>5
    <3>2. 1 .. n \in SUBSET Nat /\ 1 .. m \in SUBSET Nat
      OBVIOUS
    <3>3. QED
      BY <3>1, <3>2 DEF StrictSubsetOrdering
  <2>2. QED
    BY <1>3, <1>4, <2>1
<1>6. QED
  BY <1>5

\* What Min returns on a set of naturals.
LEMMA MinIsLeast ==
    ASSUME NEW S, S \subseteq Nat, S # {}
    PROVE  Min(S) \in S /\ \A n \in S : Min(S) <= n
BY LeastNatural DEF Min

\* A bounded set of naturals has a greatest element.
LEMMA GreatestNatural ==
    ASSUME NEW S, NEW n \in Nat, S \subseteq 0 .. n, S # {}
    PROVE  \E m \in S : \A i \in S : i <= m
<1> DEFINE T == {n - i : i \in S}
<1>1. T \subseteq Nat /\ T # {}
  <2>1. \A i \in S : n - i \in Nat
    OBVIOUS
  <2>2. QED
    BY <2>1
<1>2. PICK m \in T : \A j \in T : m <= j
  <2> HIDE DEF T
  <2>1. QED
    BY <1>1, LeastNatural
<1>3. PICK i \in S : m = n - i
  BY <1>2
<1>4. \A j \in S : n - i <= n - j
  BY <1>2, <1>3
<1>5. QED
  BY <1>4

-----------------------------------------------------------------------------
\* How many of kept lie at or before i: the place of i in the filtered list.
Place(kept, i) == Cardinality({j \in kept : j <= i})

\* Places are numbers between 1 and the number of kept indices, and grow.
LEMMA PlacesGrow ==
    ASSUME NEW n \in Nat, NEW kept, kept \subseteq 1 .. n
    PROVE  /\ Cardinality(kept) \in 0 .. n
           /\ \A i \in kept : Place(kept, i) \in 1 .. Cardinality(kept)
           /\ \A i, j \in kept : i < j => Place(kept, i) < Place(kept, j)
<1>1. IsFiniteSet(1 .. n) /\ Cardinality(1 .. n) = n
  BY FS_Interval
<1>2. IsFiniteSet(kept) /\ Cardinality(kept) <= n
  <2>1. kept \in SUBSET (1 .. n)
    OBVIOUS
  <2>2. QED
    BY <1>1, <2>1, FS_Subset
<1>3. Cardinality(kept) \in Nat
  BY <1>2, FS_CardinalityType
<1>i. \A i \in kept : i \in Nat
  OBVIOUS
<1>4. ASSUME NEW i \in kept
      PROVE  Place(kept, i) \in 1 .. Cardinality(kept)
  <2> DEFINE upto == {j \in kept : j <= i}
  <2>1. upto \in SUBSET kept /\ i \in upto
    BY <1>i
  <2> HIDE DEF upto
  <2>2. IsFiniteSet(upto) /\ Cardinality(upto) <= Cardinality(kept)
    BY <1>2, <2>1, FS_Subset
  <2>3. Cardinality(upto) \in Nat /\ Cardinality(upto) # 0
    BY <2>1, <2>2, FS_CardinalityType, FS_EmptySet
  <2>4. QED
    BY <1>3, <2>2, <2>3 DEF Place, upto
<1>5. ASSUME NEW i \in kept, NEW j \in kept, i < j
      PROVE  Place(kept, i) < Place(kept, j)
  <2> DEFINE a == {k \in kept : k <= i}
             b == {k \in kept : k <= j}
  <2>1. a \in SUBSET b /\ a # b /\ b \in SUBSET kept
    <3>1. j \in b /\ j \notin a
      BY <1>i, <1>5
    <3>2. \A k \in kept : k <= i => k <= j
      BY <1>i, <1>5
    <3>3. QED
      BY <3>1, <3>2
  <2> HIDE DEF a, b
  <2>2. IsFiniteSet(b)
    BY <1>2, <2>1, FS_Subset
  <2>3. IsFiniteSet(a) /\ Cardinality(a) <= Cardinality(b)
        /\ Cardinality(a) # Cardinality(b)
    BY <2>1, <2>2, FS_Subset
  <2>4. Cardinality(a) \in Nat /\ Cardinality(b) \in Nat
    BY <2>2, <2>3, FS_CardinalityType
  <2>5. QED
    BY <2>3, <2>4 DEF Place, a, b
<1>6. QED
  BY <1>2, <1>3, <1>4, <1>5

\* Every place is taken.
LEMMA PlacesFilled ==
    ASSUME NEW n \in Nat, NEW kept, kept \subseteq 1 .. n,
           NEW k \in 1 .. Cardinality(kept)
    PROVE  \E i \in kept : Place(kept, i) = k
<1> DEFINE S == {i \in kept : Place(kept, i) >= k}
<1>i. \A i \in kept : i \in Nat /\ i <= n
  OBVIOUS
<1>1. Cardinality(kept) \in Nat /\ IsFiniteSet(kept)
  <2>1. kept \in SUBSET (1 .. n) /\ IsFiniteSet(1 .. n)
    BY FS_Interval
  <2>2. QED
    BY <2>1, FS_Subset, FS_CardinalityType
<1>2. S \subseteq Nat /\ S # {}
  <2>1. kept # {}
    BY FS_EmptySet
  <2>2. PICK m \in kept : \A i \in kept : i <= m
    <3>1. kept \subseteq 0 .. n
      OBVIOUS
    <3>2. QED
      BY <2>1, <3>1, GreatestNatural
  <2>3. {i \in kept : i <= m} = kept
    BY <2>2
  <2>4. Place(kept, m) = Cardinality(kept)
    BY <2>3 DEF Place
  <2>5. m \in S
    BY <1>1, <2>2, <2>4
  <2>6. QED
    BY <2>5, <1>i
<1>3. PICK m \in S : \A i \in S : m <= i
  <2> HIDE DEF S
  <2>1. QED
    BY <1>2, LeastNatural
<1>4. m \in kept /\ Place(kept, m) >= k
  BY <1>3
<1>5. SUFFICES ASSUME Place(kept, m) # k PROVE FALSE
  BY <1>4
<1> DEFINE before == {j \in kept : j < m}
<1>6. IsFiniteSet(before) /\ m \notin before
  <2>1. before \in SUBSET kept /\ m \notin before
    BY <1>4
  <2> HIDE DEF before
  <2>2. QED
    BY <1>1, <2>1, FS_Subset
<1>7. {j \in kept : j <= m} = before \cup {m}
  <2>1. \A j \in kept : j <= m <=> j < m \/ j = m
    BY <1>i, <1>4
  <2>2. QED
    BY <1>4, <2>1
<1>8. Place(kept, m) = Cardinality(before) + 1 /\ Cardinality(before) \in Nat
  <2> HIDE DEF before
  <2>1. QED
    BY <1>6, <1>7, FS_AddElement, FS_CardinalityType DEF Place
<1>9. Cardinality(before) >= k
  BY <1>4, <1>5, <1>8
<1>10. before # {}
  BY <1>9, FS_EmptySet
<1>11. PICK p \in before : \A i \in before : i <= p
  <2>1. before \subseteq 0 .. n
    <3>1. kept \subseteq 0 .. n
      BY <1>i
    <3>2. QED
      BY <3>1
  <2> HIDE DEF before
  <2>2. QED
    BY <1>10, <2>1, GreatestNatural
<1>12. {j \in kept : j <= p} = before
  <2>1. \A j \in kept : j <= p <=> j < m
    BY <1>i, <1>4, <1>11
  <2>2. QED
    BY <2>1
<1>13. p \in S /\ p < m
  BY <1>9, <1>11, <1>12 DEF Place
<1>14. QED
  BY <1>3, <1>13, <1>4

\* Filter returns a list of the entries at the kept indices, each once and in
\* their order.
LEMMA FilterSound ==
    ASSUME NEW E, NEW list \in Seq(E), NEW kept, kept \subseteq DOMAIN list
    PROVE  /\ Filter(list, kept) \in Seq(E)
           /\ Len(Filter(list, kept)) = Cardinality(kept)
           /\ Cardinality(kept) <= Len(list)
           /\ \E at \in [1 .. Cardinality(kept) -> kept] :
                 /\ \A k \in 1 .. Cardinality(kept) :
                       Filter(list, kept)[k] = list[at[k]]
                 /\ \A k, l \in 1 .. Cardinality(kept) : k < l => at[k] < at[l]
                 /\ \A i \in kept : \E k \in 1 .. Cardinality(kept) : at[k] = i
<1>1. kept \subseteq 1 .. Len(list) /\ Len(list) \in Nat
  OBVIOUS
<1> DEFINE N  == Cardinality(kept)
           P(k) == CHOOSE i \in kept : Place(kept, i) = k
           at == [k \in 1 .. N |-> P(k)]
<1>2. /\ N \in 0 .. Len(list)
      /\ \A i \in kept : Place(kept, i) \in 1 .. N
      /\ \A i, j \in kept : i < j => Place(kept, i) < Place(kept, j)
  BY <1>1, PlacesGrow
<1>3. \A k \in 1 .. N : P(k) \in kept /\ Place(kept, P(k)) = k
  BY <1>1, PlacesFilled
<1>4. Filter(list, kept) = [k \in 1 .. N |-> list[P(k)]]
  BY DEF Filter, Place
<1> HIDE DEF N, P
<1>5. at \in [1 .. N -> kept]
  BY <1>3
<1>6. \A k \in 1 .. N : Filter(list, kept)[k] = list[at[k]] /\ list[at[k]] \in E
  BY <1>1, <1>3, <1>4
<1>7. Filter(list, kept) \in Seq(E) /\ Len(Filter(list, kept)) = N
  BY <1>2, <1>4, <1>6
<1>8. ASSUME NEW i \in kept PROVE P(Place(kept, i)) = i
  BY <1>1, <1>2, <1>3
<1>9. \A k, l \in 1 .. N : k < l => at[k] < at[l]
  BY <1>1, <1>2, <1>3
<1>10. \A i \in kept : \E k \in 1 .. N : at[k] = i
  BY <1>2, <1>8
<1> HIDE DEF at
<1>11. N <= Len(list)
  BY <1>2
<1>12. QED
  BY <1>5, <1>6, <1>7, <1>9, <1>10, <1>11 DEF N

-----------------------------------------------------------------------------
\* Is the entry a proper start of a thread with this baseline?
IsParent(e, baseline) ==
    /\ baseline.known /\ e.baseline.known
    /\ e.baseline.of # <<>>
    /\ hashesArePrefix(e.baseline.of, baseline.of)

\* bind() overwrites the entry of its conversation if there is one, else a
\* thread it continues, if any.
LEMMA SlotSound ==
    ASSUME NEW E, NEW list \in Seq(E), NEW c, NEW baseline
    PROVE  /\ Slot(list, c, baseline) \in 0 .. Len(list)
           /\ \A i \in DOMAIN list : list[i].cid = c =>
                 /\ Slot(list, c, baseline) # 0
                 /\ list[Slot(list, c, baseline)].cid = c
           /\ Slot(list, c, baseline) # 0 =>
                 \/ list[Slot(list, c, baseline)].cid = c
                 \/ IsParent(list[Slot(list, c, baseline)], baseline)
<1> DEFINE same   == {i \in DOMAIN list : list[i].cid = c}
           parent == {i \in DOMAIN list : IsParent(list[i], baseline)}
<1>1. same \subseteq Nat /\ parent \subseteq Nat
  OBVIOUS
<1>2. Slot(list, c, baseline) =
         IF same # {} THEN Min(same) ELSE IF parent = {} THEN 0 ELSE Min(parent)
  BY DEF Slot, FirstIndex, IsParent
<1>3. same # {} => Min(same) \in same
  <2> HIDE DEF same
  <2>1. QED
    BY <1>1, MinIsLeast
<1>4. parent # {} => Min(parent) \in parent
  <2> HIDE DEF parent
  <2>1. QED
    BY <1>1, MinIsLeast
<1>5. CASE same # {}
  <2>1. Slot(list, c, baseline) \in same
    BY <1>2, <1>3, <1>5
  <2>2. QED
    BY <2>1
<1>6. CASE same = {} /\ parent # {}
  <2>1. Slot(list, c, baseline) \in parent
    BY <1>2, <1>4, <1>6
  <2>2. QED
    BY <2>1, <1>6
<1>7. CASE same = {} /\ parent = {}
  <2>1. Slot(list, c, baseline) = 0
    BY <1>2, <1>7
  <2>2. QED
    BY <2>1, <1>7
<1>8. QED
  BY <1>5, <1>6, <1>7

\* The entry to evict is one of the oldest, and the first of them.
LEMMA OldestSound ==
    ASSUME NEW E, NEW list \in Seq(E), list # <<>>,
           \A i \in DOMAIN list : list[i].at \in Nat
    PROVE  /\ Oldest(list) \in DOMAIN list
           /\ \A j \in DOMAIN list : list[Oldest(list)].at <= list[j].at
           /\ \A j \in DOMAIN list :
                 j < Oldest(list) => list[Oldest(list)].at < list[j].at
<1> DEFINE ages   == {list[i].at : i \in DOMAIN list}
           oldest == {i \in DOMAIN list : \A j \in DOMAIN list : list[i].at <= list[j].at}
<1>1. DOMAIN list = 1 .. Len(list) /\ Len(list) \in Nat /\ Len(list) # 0
  OBVIOUS
<1>2. ages \subseteq Nat /\ ages # {}
  BY <1>1
<1>3. PICK a \in ages : \A b \in ages : a <= b
  <2> HIDE DEF ages
  <2>1. QED
    BY <1>2, LeastNatural
<1>4. oldest \subseteq Nat /\ oldest # {}
  <2>1. PICK i \in DOMAIN list : a = list[i].at
    BY <1>3
  <2>2. \A j \in DOMAIN list : a <= list[j].at
    BY <1>3
  <2>3. QED
    BY <1>1, <2>1, <2>2
<1>5. Oldest(list) \in oldest /\ \A j \in oldest : Oldest(list) <= j
  <2>1. Oldest(list) = Min(oldest)
    BY DEF Oldest
  <2> HIDE DEF oldest
  <2>2. QED
    BY <2>1, <1>4, MinIsLeast
<1>6. Oldest(list) \in DOMAIN list /\ \A j \in DOMAIN list : list[Oldest(list)].at <= list[j].at
  BY <1>5
<1>7. ASSUME NEW j \in DOMAIN list, j < Oldest(list),
             ~(list[Oldest(list)].at < list[j].at)
      PROVE  FALSE
  <2>1. list[Oldest(list)].at = list[j].at
    BY <1>6, <1>7
  <2>2. j \in oldest
    BY <1>6, <2>1
  <2>3. Oldest(list) <= j
    BY <1>5, <2>2
  <2>4. QED
    BY <1>1, <1>6, <1>7, <2>3
<1>8. QED
  BY <1>6, <1>7

\* Taking one entry out leaves the others in their order.
LEMMA RemoveAtSound ==
    ASSUME NEW E, NEW list \in Seq(E), NEW i \in DOMAIN list
    PROVE  /\ RemoveAt(list, i) \in Seq(E)
           /\ Len(RemoveAt(list, i)) = Len(list) - 1
           /\ \A k \in 1 .. Len(list) - 1 :
                 RemoveAt(list, i)[k] = IF k < i THEN list[k] ELSE list[k + 1]
<1>1. DOMAIN list = 1 .. Len(list) /\ Len(list) \in Nat /\ i \in 1 .. Len(list)
  OBVIOUS
<1> DEFINE a == SubSeq(list, 1, i - 1)
           b == SubSeq(list, i + 1, Len(list))
<1>2. a \in Seq(E) /\ Len(a) = i - 1 /\ \A k \in 1 .. i - 1 : a[k] = list[k]
  BY <1>1
<1>3. b \in Seq(E) /\ Len(b) = Len(list) - i /\ \A k \in 1 .. Len(list) - i : b[k] = list[k + i]
  BY <1>1
<1>4. RemoveAt(list, i) = a \o b
  BY DEF RemoveAt
<1> HIDE DEF a, b
<1>5. Len(a \o b) = Len(list) - 1 /\ a \o b \in Seq(E)
  <2>1. a \o b \in Seq(E) /\ Len(a \o b) = Len(a) + Len(b)
    <3>1. a \in Seq(E) /\ b \in Seq(E)
      BY <1>2, <1>3
    <3>2. QED
      BY <3>1
  <2>2. QED
    BY <1>1, <1>2, <1>3, <2>1
<1>6. ASSUME NEW k \in 1 .. Len(list) - 1
      PROVE  (a \o b)[k] = IF k < i THEN list[k] ELSE list[k + 1]
  <2>1. (a \o b)[k] = IF k <= i - 1 THEN a[k] ELSE b[k - (i - 1)]
    <3>1. k \in 1 .. Len(a) + Len(b)
      BY <1>1, <1>2, <1>3
    <3>2. (a \o b)[k] = IF k <= Len(a) THEN a[k] ELSE b[k - Len(a)]
      BY <1>2, <1>3, <3>1
    <3>3. QED
      BY <1>2, <3>2
  <2>2. CASE k < i
    <3>1. k \in 1 .. i - 1
      BY <1>1, <2>2
    <3>2. QED
      BY <1>1, <1>2, <2>1, <2>2, <3>1
  <2>3. CASE ~(k < i)
    <3>1. k - (i - 1) \in 1 .. Len(list) - i /\ (k - (i - 1)) + i = k + 1
      BY <1>1, <2>3
    <3>2. QED
      BY <1>1, <1>2, <1>3, <2>1, <2>3, <3>1
  <2>4. QED
    BY <2>2, <2>3
<1>7. QED
  BY <1>4, <1>5, <1>6

-----------------------------------------------------------------------------
\* No two entries name the same conversation.
OneEach(list) ==
    \A i, j \in DOMAIN list : list[i].cid = list[j].cid => i = j

\* An entry that a bind of a new one may cost the list.
MayBeLost(list, old, new) ==
    \/ old.cid = new.cid
    \/ IsParent(old, new.baseline)
    \/ Len(list) = MaxBindings /\ \A e \in Entries(list) : old.at <= e.at

\* The list after a bind holds the new entry and the earlier ones but for at
\* most one, keeps its cap and names no conversation twice.
LEMMA BindSound ==
    ASSUME NEW E, NEW list \in Seq(E), NEW c, NEW baseline, NEW now \in Nat,
           Binding(c, baseline, now) \in E,
           Len(list) <= MaxBindings,
           \A i \in DOMAIN list : list[i].at \in Nat /\ list[i].at <= now
    PROVE  LET new   == Binding(c, baseline, now)
               after == Bind(list, c, baseline, now)
           IN /\ after \in Seq(E) /\ Len(after) <= MaxBindings
              /\ new \in Entries(after)
              /\ Entries(after) \subseteq Entries(list) \cup {new}
              /\ OneEach(list) => OneEach(after)
              /\ \E i \in 0 .. Len(list) :
                    /\ i # 0 => MayBeLost(list, list[i], new)
                    /\ \A j \in DOMAIN list \ {i} : list[j] \in Entries(after)
<1> DEFINE new   == Binding(c, baseline, now)
           after == Bind(list, c, baseline, now)
           s     == Slot(list, c, baseline)
           N     == Len(list)
<1>0. DOMAIN list = 1 .. N /\ N \in Nat /\ MaxBindings \in Nat \ {0}
  BY BindingsAssumption
<1>1. /\ s \in 0 .. N
      /\ \A i \in DOMAIN list : list[i].cid = c => s # 0 /\ list[s].cid = c
      /\ s # 0 => list[s].cid = c \/ IsParent(list[s], baseline)
  BY SlotSound
<1>2. new \in E /\ new.cid = c /\ new.baseline = baseline /\ new.at = now
  BY DEF Binding
<1>3. after = Capped(IF s = 0 THEN Append(list, new) ELSE [list EXCEPT ![s] = new])
  BY DEF Bind
<1> SUFFICES /\ after \in Seq(E) /\ Len(after) <= MaxBindings
             /\ new \in Entries(after)
             /\ Entries(after) \subseteq Entries(list) \cup {new}
             /\ OneEach(list) => OneEach(after)
             /\ \E i \in 0 .. N :
                   /\ i # 0 => MayBeLost(list, list[i], new)
                   /\ \A j \in DOMAIN list \ {i} : list[j] \in Entries(after)
  OBVIOUS
<1> HIDE DEF new, after, s
<1>4. CASE s # 0
  <2>1. s \in DOMAIN list
    BY <1>0, <1>1, <1>4
  <2>2. after = [list EXCEPT ![s] = new]
    BY <1>0, <1>3, <1>4 DEF Capped
  <2>3. /\ after \in Seq(E) /\ Len(after) = N /\ DOMAIN after = DOMAIN list
        /\ after[s] = new /\ \A j \in DOMAIN list \ {s} : after[j] = list[j]
    BY <1>2, <2>1, <2>2
  <2>4. OneEach(list) => OneEach(after)
    BY <1>1, <1>2, <2>1, <2>3 DEF OneEach
  <2>5. MayBeLost(list, list[s], new)
    BY <1>1, <1>2, <1>4 DEF MayBeLost
  <2>6. QED
    BY <1>1, <2>1, <2>3, <2>4, <2>5 DEF Entries
<1>5. CASE s = 0
  <2> DEFINE all == Append(list, new)
  <2>1. /\ all \in Seq(E) /\ Len(all) = N + 1 /\ DOMAIN all = 1 .. N + 1
        /\ all[N + 1] = new /\ \A j \in 1 .. N : all[j] = list[j]
    BY <1>0, <1>2
  <2>2. \A i \in DOMAIN list : list[i].cid # c
    BY <1>1, <1>5
  <2>3. OneEach(list) => OneEach(all)
    <3>1. \A j \in 1 .. N + 1 : j = N + 1 \/ j \in 1 .. N
      BY <1>0
    <3> HIDE DEF all
    <3>2. QED
      BY <1>0, <1>2, <2>1, <2>2, <3>1 DEF OneEach
  <2> HIDE DEF all
  <2>4. CASE N < MaxBindings
    <3>1. after = all
      BY <1>0, <1>3, <1>5, <2>1, <2>4 DEF Capped, all
    <3>2. N + 1 \in DOMAIN all /\ N + 1 <= MaxBindings
      BY <1>0, <2>1, <2>4
    <3>3. \A j \in DOMAIN list : list[j] \in Entries(all)
      BY <1>0, <2>1 DEF Entries
    <3>4. new \in Entries(all)
      BY <2>1, <3>2 DEF Entries
    <3>5. Entries(all) \subseteq Entries(list) \cup {new}
      <4>1. \A j \in 1 .. N + 1 : j = N + 1 \/ j \in 1 .. N
        BY <1>0
      <4>2. QED
        BY <1>0, <2>1, <4>1 DEF Entries
    <3>6. QED
      BY <1>0, <2>1, <2>3, <3>1, <3>2, <3>3, <3>4, <3>5
  <2>5. CASE N = MaxBindings
    <3> DEFINE o == Oldest(all)
    <3>1. after = RemoveAt(all, o)
      BY <1>0, <1>3, <1>5, <2>1, <2>5 DEF Capped, all
    <3>2. \A i \in DOMAIN all : all[i].at \in Nat
      <4>1. \A j \in 1 .. N + 1 : j = N + 1 \/ j \in 1 .. N
        BY <1>0
      <4>2. QED
        BY <1>0, <1>2, <2>1, <4>1
    <3>3. /\ o \in 1 .. N + 1
          /\ \A j \in 1 .. N + 1 : all[o].at <= all[j].at
          /\ \A j \in 1 .. N + 1 : j < o => all[o].at < all[j].at
      <4>1. all # <<>>
        BY <1>0, <2>1
      <4>2. QED
        BY <2>1, <3>2, <4>1, OldestSound
    <3> HIDE DEF o
    <3>4. o \in 1 .. N
      <4>1. SUFFICES ASSUME o = N + 1 PROVE FALSE
        BY <1>0, <3>3
      <4>2. 1 \in 1 .. N /\ 1 < N + 1 /\ 1 \in 1 .. N + 1
        BY <1>0, <2>5
      <4>3. now < list[1].at
        BY <1>2, <2>1, <3>3, <4>1, <4>2
      <4>4. list[1].at <= now /\ list[1].at \in Nat
        BY <1>0, <4>2
      <4>5. QED
        BY <4>3, <4>4
    <3>5. /\ after \in Seq(E) /\ Len(after) = N
          /\ \A k \in 1 .. N : after[k] = IF k < o THEN all[k] ELSE all[k + 1]
      <4>1. o \in DOMAIN all /\ Len(all) - 1 = N
        BY <1>0, <2>1, <3>3
      <4>2. QED
        BY <2>1, <3>1, <4>1, RemoveAtSound
    <3>6. DOMAIN after = 1 .. N
      BY <3>5, <1>0
    <3>7. new \in Entries(after)
      <4>1. N \in 1 .. N /\ ~(N < o)
        BY <1>0, <3>4
      <4>2. after[N] = new
        BY <2>1, <3>5, <4>1
      <4>3. QED
        BY <3>6, <4>1, <4>2 DEF Entries
    <3>8. ASSUME NEW k \in 1 .. N
          PROVE  after[k] \in Entries(list) \cup {new}
      <4>1. CASE k < o
        BY <1>0, <2>1, <3>5, <4>1 DEF Entries
      <4>2. CASE ~(k < o) /\ k = N
        BY <2>1, <3>5, <4>2
      <4>3. CASE ~(k < o) /\ k # N
        <5>1. k + 1 \in 1 .. N
          <6>1. N \in Nat /\ k \in 1 .. N /\ k # N
            BY <1>0, <4>3
          <6> HIDE DEF N
          <6>2. QED
            BY <6>1
        <5>2. QED
          BY <1>0, <2>1, <3>5, <4>3, <5>1 DEF Entries
      <4>4. QED
        BY <4>1, <4>2, <4>3
    <3>9. ASSUME NEW j \in 1 .. N, j # o
          PROVE  list[j] \in Entries(after)
      <4>1. CASE j < o
        BY <2>1, <3>5, <3>6, <4>1 DEF Entries
      <4>2. CASE o < j
        <5>1. j - 1 \in 1 .. N /\ ~(j - 1 < o) /\ (j - 1) + 1 = j
          BY <1>0, <3>4, <4>2
        <5>2. after[j - 1] = list[j]
          BY <2>1, <3>5, <5>1
        <5>3. QED
          BY <3>6, <5>1, <5>2 DEF Entries
      <4>3. QED
        BY <1>0, <3>4, <3>9, <4>1, <4>2
    <3>10. OneEach(all) => OneEach(after)
      <4> DEFINE src(k) == IF k < o THEN k ELSE k + 1
      <4>1. \A k \in 1 .. N : src(k) \in 1 .. N + 1 /\ after[k] = all[src(k)]
        BY <1>0, <3>4, <3>5
      <4>2. \A k, l \in 1 .. N : src(k) = src(l) => k = l
        BY <1>0, <3>4
      <4> HIDE DEF src
      <4>3. QED
        BY <2>1, <3>6, <4>1, <4>2 DEF OneEach
    <3>11. MayBeLost(list, list[o], new)
      <4>1. \A j \in 1 .. N : list[o].at <= list[j].at
        BY <1>0, <2>1, <3>3, <3>4
      <4>2. \A e \in Entries(list) : list[o].at <= e.at
        BY <1>0, <4>1 DEF Entries
      <4>3. QED
        BY <2>5, <4>2 DEF MayBeLost
    <3>12. Entries(after) \subseteq Entries(list) \cup {new}
      BY <3>6, <3>8 DEF Entries
    <3>13. o \in 0 .. N /\ \A j \in DOMAIN list \ {o} : list[j] \in Entries(after)
      BY <1>0, <3>4, <3>9
    <3>14. Len(after) <= MaxBindings
      BY <1>0, <2>5, <3>5
    <3>15. QED
      BY <2>3, <3>5, <3>7, <3>10, <3>11, <3>12, <3>13, <3>14
  <2>6. N < MaxBindings \/ N = MaxBindings
    <3>1. N \in Nat /\ MaxBindings \in Nat /\ N <= MaxBindings
      BY <1>0
    <3> HIDE DEF N
    <3>2. QED
      BY <3>1
  <2>7. QED
    BY <2>4, <2>5, <2>6
<1>6. QED
  BY <1>4, <1>5

\* The entries of a filtered list.
LEMMA FilterEntries ==
    ASSUME NEW E, NEW list \in Seq(E), NEW kept, kept \subseteq DOMAIN list
    PROVE  /\ Filter(list, kept) \in Seq(E)
           /\ Len(Filter(list, kept)) <= Len(list)
           /\ Entries(Filter(list, kept)) = {list[i] : i \in kept}
           /\ OneEach(list) => OneEach(Filter(list, kept))
<1> DEFINE after == Filter(list, kept)
           N     == Cardinality(kept)
<1>1. /\ after \in Seq(E) /\ Len(after) = N /\ N <= Len(list)
      /\ \E at \in [1 .. N -> kept] :
            /\ \A k \in 1 .. N : after[k] = list[at[k]]
            /\ \A k, l \in 1 .. N : k < l => at[k] < at[l]
            /\ \A i \in kept : \E k \in 1 .. N : at[k] = i
  BY FilterSound
<1> HIDE DEF after, N
<1>2. PICK at \in [1 .. N -> kept] :
            /\ \A k \in 1 .. N : after[k] = list[at[k]]
            /\ \A k, l \in 1 .. N : k < l => at[k] < at[l]
            /\ \A i \in kept : \E k \in 1 .. N : at[k] = i
  BY <1>1
<1>3. DOMAIN after = 1 .. N /\ N \in Nat
  BY <1>1
<1>4. Entries(after) = {list[i] : i \in kept}
  <2>1. ASSUME NEW k \in 1 .. N PROVE \E i \in kept : after[k] = list[i]
    BY <1>2
  <2>2. ASSUME NEW i \in kept PROVE \E k \in 1 .. N : after[k] = list[i]
    BY <1>2
  <2>3. Entries(after) = {after[k] : k \in 1 .. N}
    BY <1>3 DEF Entries
  <2>4. QED
    BY <2>1, <2>2, <2>3
<1>5. ASSUME OneEach(list), NEW k \in 1 .. N, NEW l \in 1 .. N,
             after[k].cid = after[l].cid
      PROVE  k = l
  <2>1. at[k] \in DOMAIN list /\ at[l] \in DOMAIN list
    BY <1>2
  <2>2. at[k] = at[l]
    BY <1>2, <1>5, <2>1 DEF OneEach
  <2>3. DOMAIN list \subseteq Nat
    OBVIOUS
  <2>4. ~(k < l) /\ ~(l < k)
    BY <1>2, <2>1, <2>2, <2>3
  <2>5. QED
    BY <2>4
<1>6. OneEach(list) => OneEach(after)
  BY <1>3, <1>5 DEF OneEach
<1>7. QED
  BY <1>1, <1>4, <1>6 DEF after

\* rebind() drops the entries of one conversation and no other.
LEMMA DropSound ==
    ASSUME NEW E, NEW list \in Seq(E), NEW c
    PROVE  /\ Drop(list, c) \in Seq(E) /\ Len(Drop(list, c)) <= Len(list)
           /\ Entries(Drop(list, c)) = {e \in Entries(list) : e.cid # c}
           /\ OneEach(list) => OneEach(Drop(list, c))
<1> DEFINE kept == {i \in DOMAIN list : list[i].cid # c}
<1>1. kept \subseteq DOMAIN list /\ Drop(list, c) = Filter(list, kept)
  BY DEF Drop
<1>2. {list[i] : i \in kept} = {e \in Entries(list) : e.cid # c}
  BY DEF Entries
<1> HIDE DEF kept
<1>3. QED
  BY <1>1, <1>2, FilterEntries

\* load() drops the entries past the retention age and no other.
LEMMA FreshSound ==
    ASSUME NEW E, NEW list \in Seq(E), NEW now
    PROVE  /\ Fresh(list, now) \in Seq(E) /\ Len(Fresh(list, now)) <= Len(list)
           /\ Entries(Fresh(list, now)) = {e \in Entries(list) : e.at > now - MaxAge}
           /\ OneEach(list) => OneEach(Fresh(list, now))
<1> DEFINE kept == {i \in DOMAIN list : list[i].at > now - MaxAge}
<1>1. kept \subseteq DOMAIN list /\ Fresh(list, now) = Filter(list, kept)
  BY DEF Fresh
<1>2. {list[i] : i \in kept} = {e \in Entries(list) : e.at > now - MaxAge}
  BY DEF Entries
<1> HIDE DEF kept
<1>3. QED
  BY <1>1, <1>2, FilterEntries

\* resolve() finds the entry of a longest matching thread if any matches, else
\* one without a baseline; it finds none only if there is neither.
LEMMA ResolveSound ==
    ASSUME NEW E, NEW list \in Seq(E), NEW incoming \in Seq(Nat),
           \A i \in DOMAIN list : list[i].baseline.of \in Seq(Nat)
    PROVE  LET found == Resolve(list, incoming)
           IN /\ found \in 0 .. Len(list)
              /\ \A i \in DOMAIN list : Matches(list[i], incoming) =>
                    /\ found # 0 /\ Matches(list[found], incoming)
                    /\ Len(list[i].baseline.of) <= Len(list[found].baseline.of)
              /\ found = 0 => \A i \in DOMAIN list :
                    list[i].baseline.known /\ ~Matches(list[i], incoming)
<1> DEFINE size(i)  == Len(list[i].baseline.of)
           matching == {i \in DOMAIN list : Matches(list[i], incoming)}
           longest  == {i \in matching : \A j \in matching : size(j) <= size(i)}
           adopt    == {i \in DOMAIN list : ~list[i].baseline.known}
           found    == Resolve(list, incoming)
<1>1. found = IF matching # {} THEN Min(longest)
              ELSE IF adopt = {} THEN 0 ELSE Min(adopt)
  BY DEF Resolve, FirstIndex
<1>2. DOMAIN list = 1 .. Len(list) /\ Len(list) \in Nat
  OBVIOUS
<1>3. \A i \in DOMAIN list : list[i].baseline.of \in Seq(Nat) /\ size(i) \in Nat
  OBVIOUS
<1>4. \A i \in matching : size(i) <= Len(incoming)
  BY <1>3 DEF Matches, hashesArePrefix, IsPrefix
<1>n. Len(incoming) \in Nat
  OBVIOUS
<1> SUFFICES /\ found \in 0 .. Len(list)
             /\ \A i \in matching : found \in matching /\ size(i) <= size(found)
             /\ found = 0 => matching = {} /\ adopt = {}
  BY <1>2
<1> HIDE DEF found
<1>5. CASE matching # {}
  <2> DEFINE sizes == {size(i) : i \in matching}
  <2>1. sizes \subseteq 0 .. Len(incoming) /\ sizes # {}
    <3>1. \A i \in matching : size(i) \in 0 .. Len(incoming)
      BY <1>3, <1>4
    <3> HIDE DEF size, matching
    <3>2. QED
      BY <3>1, <1>5
  <2>2. PICK m \in sizes : \A n \in sizes : n <= m
    <3> HIDE DEF sizes
    <3>1. QED
      BY <2>1, <1>n, GreatestNatural
  <2>3. longest # {}
    <3>1. PICK i \in matching : m = size(i)
      BY <2>2
    <3> HIDE DEF matching, size
    <3>2. QED
      BY <2>2, <3>1
  <2>4. longest \subseteq Nat
    BY <1>2
  <2>5. found \in longest
    <3> HIDE DEF longest, matching
    <3>1. QED
      BY <1>1, <1>5, <2>3, <2>4, MinIsLeast
  <2>6. QED
    BY <1>2, <1>5, <2>5
<1>6. CASE matching = {} /\ adopt # {}
  <2>1. adopt \subseteq Nat
    BY <1>2
  <2>2. found \in adopt
    <3> HIDE DEF adopt, matching
    <3>1. QED
      BY <1>1, <1>6, <2>1, MinIsLeast
  <2>3. found \in 1 .. Len(list)
    BY <1>2, <2>2
  <2>4. QED
    BY <1>2, <1>6, <2>3
<1>7. CASE matching = {} /\ adopt = {}
  <2>1. found = 0
    BY <1>1, <1>7
  <2>2. QED
    BY <1>2, <1>7, <2>1
<1>8. QED
  BY <1>5, <1>6, <1>7
=============================================================================

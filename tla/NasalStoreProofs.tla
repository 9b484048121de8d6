---------------------------- MODULE NasalStoreProofs ----------------------------
(* Proofs about NasalStore: what its operators keep (see NasalStoreInv).    *)
EXTENDS NasalStoreInv, NasalInduction, FiniteSetTheorems

-----------------------------------------------------------------------------
(* Sequences whatever their elements are.                                   *)

LEMMA SeqIntro ==
  ASSUME NEW S, NEW q \in Seq(S)
  PROVE  IsSeq(q)
<1>1. \A i \in 1..Len(q) : q[i] \in Range(q)
  BY DEF Range
<1> QED
  BY <1>1 DEF IsSeq

LEMMA SeqAppend ==
  ASSUME NEW q, IsSeq(q), NEW x
  PROVE  /\ IsSeq(Append(q, x))
         /\ Len(Append(q, x)) = Len(q) + 1
         /\ \A i \in 1..Len(q) : Append(q, x)[i] = q[i]
         /\ Append(q, x)[Len(q) + 1] = x
<1> DEFINE S == Range(q)
<1> q \in Seq(S)
  BY DEF IsSeq
<1> HIDE DEF S
<1> DEFINE T == S \cup {x}
<1>1. q \in Seq(T) /\ x \in T
  OBVIOUS
<1>2. Append(q, x) \in Seq(T)
  BY <1>1
<1>3. IsSeq(Append(q, x))
  BY <1>2, SeqIntro
<1>4. /\ Len(Append(q, x)) = Len(q) + 1
      /\ \A i \in 1..Len(q) : Append(q, x)[i] = q[i]
      /\ Append(q, x)[Len(q) + 1] = x
  BY <1>1
<1> QED
  BY <1>3, <1>4

LEMMA SeqFacts ==
  ASSUME NEW q, IsSeq(q)
  PROVE  /\ Len(q) \in Nat
         /\ DOMAIN q = 1..Len(q)
         /\ q = [i \in 1..Len(q) |-> q[i]]
BY DEF IsSeq

LEMMA SeqPrefix ==
  ASSUME NEW q, IsSeq(q), NEW n \in 0..Len(q)
  PROVE  /\ IsSeq(SubSeq(q, 1, n))
         /\ Len(SubSeq(q, 1, n)) = n
         /\ \A i \in 1..n : SubSeq(q, 1, n)[i] = q[i]
<1> DEFINE S == Range(q)
<1> q \in Seq(S)
  BY DEF IsSeq
<1> HIDE DEF S
<1>1. SubSeq(q, 1, n) \in Seq(S)
  BY DEF IsSeq
<1>2. IsSeq(SubSeq(q, 1, n))
  BY <1>1, SeqIntro
<1>3. /\ Len(SubSeq(q, 1, n)) = n
      /\ \A i \in 1..n : SubSeq(q, 1, n)[i] = q[i]
  OBVIOUS
<1> QED
  BY <1>2, <1>3

LEMMA SeqMade ==
  ASSUME NEW n \in Nat, NEW S, NEW q, q = [i \in 1..n |-> q[i]], \A i \in 1..n : q[i] \in S
  PROVE  q \in Seq(S) /\ Len(q) = n
OBVIOUS

-----------------------------------------------------------------------------
(* Counting.                                                                *)

LEMMA CountNat ==
  ASSUME NEW q, IsSeq(q), NEW a
  PROVE  Count(q, a) \in Nat /\ IsFiniteSet({i \in DOMAIN q : q[i] = a})
<1> DEFINE S == {i \in DOMAIN q : q[i] = a}
<1>1. S \subseteq 1..Len(q) /\ Len(q) \in Nat
  BY SeqFacts
<1>2. IsFiniteSet(S)
  BY <1>1, FS_Interval, FS_Subset
<1> QED
  BY <1>2, FS_CardinalityType DEF Count

LEMMA CountAppend ==
  ASSUME NEW q, IsSeq(q), NEW x, NEW a
  PROVE  Count(Append(q, x), a) = Count(q, a) + (IF x = a THEN 1 ELSE 0)
<1> DEFINE S == {i \in DOMAIN q : q[i] = a}
           r == Append(q, x)
           T == {i \in DOMAIN r : r[i] = a}
<1>1. /\ DOMAIN q = 1..Len(q) /\ Len(q) \in Nat
      /\ DOMAIN r = 1..(Len(q) + 1)
      /\ \A i \in 1..Len(q) : r[i] = q[i]
      /\ r[Len(q) + 1] = x
  BY SeqFacts, SeqAppend, SeqFacts
<1>2. IsFiniteSet(S) /\ Len(q) + 1 \notin S
  <2>1. IsFiniteSet(S)
    BY CountNat
  <2>2. Len(q) + 1 \notin S
    BY <1>1
  <2> QED
    BY <2>1, <2>2
<1> HIDE DEF r
<1>3. T = IF x = a THEN S \cup {Len(q) + 1} ELSE S
  BY <1>1
<1>4. Cardinality(S \cup {Len(q) + 1}) = Cardinality(S) + 1
  BY <1>2, FS_AddElement
<1>5. Cardinality(S) \in Nat
  BY <1>2, FS_CardinalityType
<1> HIDE DEF S, T
<1>6. Cardinality(T) = Cardinality(S) + (IF x = a THEN 1 ELSE 0)
  BY <1>3, <1>4, <1>5
<1> QED
  BY <1>6 DEF S, T, r, Count

LEMMA CountEmpty ==
  ASSUME NEW a
  PROVE  Count(<<>>, a) = 0
<1>1. {i \in DOMAIN <<>> : <<>>[i] = a} = {}
  OBVIOUS
<1> QED
  BY <1>1, FS_EmptySet DEF Count

LEMMA TupleSeq ==
  ASSUME NEW x, NEW y
  PROVE  IsSeq(<<>>) /\ IsSeq(<<x>>) /\ IsSeq(<<x, y>>)
<1> DEFINE S == {x, y}
<1>1. x \in S /\ y \in S
  OBVIOUS
<1> HIDE DEF S
<1>2. <<>> \in Seq(S)
  OBVIOUS
<1>3. <<x>> \in Seq(S)
  BY <1>1
<1>4. <<x, y>> \in Seq(S)
  BY <1>1
<1> QED
  BY <1>2, <1>3, <1>4, SeqIntro

LEMMA CountTwo ==
  ASSUME NEW x, NEW y, NEW a
  PROVE  /\ Count(<<x>>, a) = IF x = a THEN 1 ELSE 0
         /\ Count(<<x, y>>, a) = (IF x = a THEN 1 ELSE 0) + (IF y = a THEN 1 ELSE 0)
<1> DEFINE q == <<x>>
           r == <<x, y>>
           P == IF x = a THEN {1} ELSE {}
           Q == IF y = a THEN {2} ELSE {}
<1>1. DOMAIN q = {1} /\ q[1] = x /\ DOMAIN r = {1, 2} /\ r[1] = x /\ r[2] = y
  OBVIOUS
<1> HIDE DEF q, r
<1>2. {i \in DOMAIN q : q[i] = a} = P
  BY <1>1
<1>3. {i \in DOMAIN r : r[i] = a} = P \cup Q
  BY <1>1
<1>4. /\ IsFiniteSet(P) /\ Cardinality(P) = (IF x = a THEN 1 ELSE 0)
      /\ IsFiniteSet(Q) /\ Cardinality(Q) = (IF y = a THEN 1 ELSE 0)
  BY FS_EmptySet, FS_Singleton
<1>5. P \cap Q = {}
  OBVIOUS
<1> HIDE DEF P, Q
<1>6. Cardinality(P \cup Q) = Cardinality(P) + Cardinality(Q) - Cardinality(P \cap Q)
  BY <1>4, FS_Union
<1>7. Cardinality(P \cap Q) = 0
  BY <1>5, FS_EmptySet
<1>8. Cardinality(P \cup Q) = (IF x = a THEN 1 ELSE 0) + (IF y = a THEN 1 ELSE 0)
  BY <1>4, <1>6, <1>7
<1>9. Count(q, a) = Cardinality(P) /\ Count(r, a) = Cardinality(P \cup Q)
  BY <1>2, <1>3 DEF Count
<1> QED
  BY <1>4, <1>8, <1>9 DEF q, r

(* Taking the last one away.                                                *)
LEMMA CountFront ==
  ASSUME NEW q, IsSeq(q), Len(q) > 0, NEW a
  PROVE  Count(q, a) = Count(SubSeq(q, 1, Len(q) - 1), a) + (IF q[Len(q)] = a THEN 1 ELSE 0)
<1> DEFINE p == SubSeq(q, 1, Len(q) - 1)
<1>1. IsSeq(p) /\ Len(p) = Len(q) - 1 /\ \A i \in 1..Len(p) : p[i] = q[i]
  <2>1. Len(q) \in Nat /\ Len(q) - 1 \in 0..Len(q)
    BY SeqFacts
  <2> QED
    BY <2>1, SeqPrefix
<1>2. q = Append(p, q[Len(q)])
  <2> DEFINE S == Range(q)
  <2>1. q \in Seq(S)
    BY DEF IsSeq
  <2> HIDE DEF S
  <2> QED
    BY <2>1
<1> HIDE DEF p
<1>3. Count(Append(p, q[Len(q)]), a) = Count(p, a) + (IF q[Len(q)] = a THEN 1 ELSE 0)
  BY <1>1, CountAppend
<1> QED
  BY <1>2, <1>3 DEF p

-----------------------------------------------------------------------------
(* The references that cells hold.                                          *)

LEMMA InCellsNat ==
  ASSUME NEW s, NEW C, IsFiniteSet(C), NEW a
  PROVE  InCells(s, C, a) \in Nat /\ IsFiniteSet({c \in C : s.mem[c] = a})
<1>1. IsFiniteSet({c \in C : s.mem[c] = a})
  BY FS_Subset
<1> QED
  BY <1>1, FS_CardinalityType DEF InCells

LEMMA InCellsSplit ==
  ASSUME NEW s, NEW C, IsFiniteSet(C), NEW B \in SUBSET C, NEW a
  PROVE  InCells(s, C, a) = InCells(s, B, a) + InCells(s, C \ B, a)
<1> DEFINE S == {c \in C : s.mem[c] = a}
           P == {c \in B : s.mem[c] = a}
           Q == {c \in C \ B : s.mem[c] = a}
<1>1. S = P \cup Q /\ P \cap Q = {}
  OBVIOUS
<1>2. IsFiniteSet(B) /\ IsFiniteSet(C \ B)
  BY FS_Subset
<1>3. IsFiniteSet(P) /\ IsFiniteSet(Q)
  BY <1>2, FS_Subset
<1> HIDE DEF S, P, Q
<1>4. Cardinality(P \cup Q) = Cardinality(P) + Cardinality(Q) - Cardinality(P \cap Q)
  BY <1>3, FS_Union
<1>5. Cardinality(P \cap Q) = 0
  BY <1>1, FS_EmptySet
<1>6. Cardinality(P) \in Nat /\ Cardinality(Q) \in Nat
  BY <1>3, FS_CardinalityType
<1>7. Cardinality(S) = Cardinality(P) + Cardinality(Q)
  BY <1>1, <1>4, <1>5, <1>6
<1> QED
  BY <1>7 DEF S, P, Q, InCells

LEMMA InCellsSame ==
  ASSUME NEW s, NEW t, NEW C, NEW a, \A c \in C : s.mem[c] = t.mem[c]
  PROVE  InCells(s, C, a) = InCells(t, C, a)
<1>1. {c \in C : s.mem[c] = a} = {c \in C : t.mem[c] = a}
  OBVIOUS
<1> QED
  BY <1>1 DEF InCells

LEMMA InCellsNone ==
  ASSUME NEW s, NEW C, NEW a, \A c \in C : s.mem[c] # a
  PROVE  InCells(s, C, a) = 0
<1>1. {c \in C : s.mem[c] = a} = {}
  OBVIOUS
<1> QED
  BY <1>1, FS_EmptySet DEF InCells

LEMMA InCellsZero ==
  ASSUME NEW s, NEW C, IsFiniteSet(C), NEW a, InCells(s, C, a) = 0
  PROVE  \A c \in C : s.mem[c] # a
<1> DEFINE S == {c \in C : s.mem[c] = a}
<1>1. IsFiniteSet(S)
  BY InCellsNat
<1>2. Cardinality(S) = 0
  BY DEF InCells
<1>3. S = {}
  BY <1>1, <1>2, FS_EmptySet
<1> QED
  BY <1>3

LEMMA InCellsOne ==
  ASSUME NEW s, NEW c, NEW a
  PROVE  InCells(s, {c}, a) = IF s.mem[c] = a THEN 1 ELSE 0
<1>1. {d \in {c} : s.mem[d] = a} = IF s.mem[c] = a THEN {c} ELSE {}
  OBVIOUS
<1> QED
  BY <1>1, FS_EmptySet, FS_Singleton DEF InCells

-----------------------------------------------------------------------------
(* The references that functions hold without a cell.                       *)

DirectsInOrder(s, B) == \A b \in B : IsSeq(Direct(s.unit[b]))

LEMMA PlacesFinite ==
  ASSUME NEW s, NEW B, IsFiniteSet(B), DirectsInOrder(s, B)
  PROVE  IsFiniteSet(DirectPlaces(s, B))
<1> DEFINE Of(b) == {b} \X DOMAIN Direct(s.unit[b])
           All == {Of(b) : b \in B}
<1>1. \A b \in B : IsFiniteSet(Of(b))
  <2> TAKE b \in B
  <2>1. IsFiniteSet(DOMAIN Direct(s.unit[b]))
    <3>1. DOMAIN Direct(s.unit[b]) = 1..Len(Direct(s.unit[b])) /\ Len(Direct(s.unit[b])) \in Nat
      BY SeqFacts DEF DirectsInOrder
    <3> QED
      BY <3>1, FS_Interval
  <2>2. IsFiniteSet({b})
    BY FS_Singleton
  <2> QED
    BY <2>1, <2>2, FS_Product
<1>2. IsFiniteSet(All)
  <2> DEFINE f == [b \in B |-> Of(b)]
  <2>1. f \in Surjection(B, All)
    BY DEF Surjection
  <2> HIDE DEF f, All
  <2> QED
    BY <2>1, FS_Surjection
<1>3. \A S \in All : IsFiniteSet(S)
  BY <1>1
<1>4. IsFiniteSet(UNION All)
  <2> HIDE DEF All
  <2> QED
    BY <1>2, <1>3, FS_UNION
<1> QED
  BY <1>4 DEF DirectPlaces

DirectsTo(s, B, a) == {p \in DirectPlaces(s, B) : Direct(s.unit[p[1]])[p[2]] = a}

LEMMA InUnitsNat ==
  ASSUME NEW s, NEW B, IsFiniteSet(B), DirectsInOrder(s, B), NEW a
  PROVE  /\ InUnits(s, B, a) \in Nat
         /\ InUnits(s, B, a) = Cardinality(DirectsTo(s, B, a))
         /\ IsFiniteSet(DirectsTo(s, B, a))
<1>1. IsFiniteSet(DirectsTo(s, B, a))
  <2>1. IsFiniteSet(DirectPlaces(s, B)) /\ DirectsTo(s, B, a) \subseteq DirectPlaces(s, B)
    BY PlacesFinite DEF DirectsTo
  <2> QED
    BY <2>1, FS_Subset
<1>2. InUnits(s, B, a) = Cardinality(DirectsTo(s, B, a))
  BY DEF InUnits, DirectsTo
<1> QED
  BY <1>1, <1>2, FS_CardinalityType

LEMMA InUnitsSplit ==
  ASSUME NEW s, NEW B, IsFiniteSet(B), DirectsInOrder(s, B), NEW D \in SUBSET B, NEW a
  PROVE  InUnits(s, B, a) = InUnits(s, D, a) + InUnits(s, B \ D, a)
<1> DEFINE S == DirectsTo(s, B, a)
           P == DirectsTo(s, D, a)
           Q == DirectsTo(s, B \ D, a)
<1>1. S = P \cup Q
  BY DEF DirectPlaces, DirectsTo
<1>2. P \cap Q = {}
  BY DEF DirectPlaces, DirectsTo
<1>3. IsFiniteSet(D) /\ IsFiniteSet(B \ D) /\ DirectsInOrder(s, D) /\ DirectsInOrder(s, B \ D)
  BY FS_Subset DEF DirectsInOrder
<1>4. /\ IsFiniteSet(P) /\ InUnits(s, D, a) = Cardinality(P)
      /\ IsFiniteSet(Q) /\ InUnits(s, B \ D, a) = Cardinality(Q)
      /\ InUnits(s, B, a) = Cardinality(S)
  <2>1. IsFiniteSet(P) /\ InUnits(s, D, a) = Cardinality(P)
    BY <1>3, InUnitsNat
  <2>2. IsFiniteSet(Q) /\ InUnits(s, B \ D, a) = Cardinality(Q)
    BY <1>3, InUnitsNat
  <2>3. InUnits(s, B, a) = Cardinality(S)
    BY InUnitsNat
  <2> QED
    BY <2>1, <2>2, <2>3
<1> HIDE DEF S, P, Q
<1>5. Cardinality(P \cup Q) = Cardinality(P) + Cardinality(Q) - Cardinality(P \cap Q)
  BY <1>4, FS_Union
<1>6. Cardinality(P \cap Q) = 0
  BY <1>2, FS_EmptySet
<1>7. Cardinality(P) \in Nat /\ Cardinality(Q) \in Nat
  BY <1>4, FS_CardinalityType
<1>8. Cardinality(S) = Cardinality(P) + Cardinality(Q)
  BY <1>1, <1>5, <1>6, <1>7
<1> QED
  BY <1>4, <1>8

LEMMA InUnitsSame ==
  ASSUME NEW s, NEW t, NEW B, NEW a, \A b \in B : Direct(s.unit[b]) = Direct(t.unit[b])
  PROVE  InUnits(s, B, a) = InUnits(t, B, a)
<1>1. DirectPlaces(s, B) = DirectPlaces(t, B)
  BY DEF DirectPlaces
<1>2. \A p \in DirectPlaces(s, B) : Direct(s.unit[p[1]]) = Direct(t.unit[p[1]])
  BY DEF DirectPlaces
<1> DEFINE P == DirectPlaces(s, B)
           Q == DirectPlaces(t, B)
<1>3. {p \in P : Direct(s.unit[p[1]])[p[2]] = a} = {p \in Q : Direct(t.unit[p[1]])[p[2]] = a}
  <2> HIDE DEF P, Q
  <2>1. P = Q /\ \A p \in P : Direct(s.unit[p[1]]) = Direct(t.unit[p[1]])
    BY <1>1, <1>2 DEF P, Q
  <2> QED
    BY <2>1
<1> QED
  BY <1>3 DEF InUnits, P, Q

LEMMA InUnitsNone ==
  ASSUME NEW s, NEW B, NEW a,
         \A b \in B : \A i \in DOMAIN Direct(s.unit[b]) : Direct(s.unit[b])[i] # a
  PROVE  InUnits(s, B, a) = 0
<1>1. {p \in DirectPlaces(s, B) : Direct(s.unit[p[1]])[p[2]] = a} = {}
  BY DEF DirectPlaces
<1> QED
  BY <1>1, FS_EmptySet DEF InUnits

LEMMA InUnitsZero ==
  ASSUME NEW s, NEW B, IsFiniteSet(B), DirectsInOrder(s, B), NEW a, InUnits(s, B, a) = 0
  PROVE  \A b \in B : \A i \in DOMAIN Direct(s.unit[b]) : Direct(s.unit[b])[i] # a
<1>1. DirectsTo(s, B, a) = {}
  BY InUnitsNat, FS_EmptySet
<1> SUFFICES ASSUME NEW b \in B, NEW i \in DOMAIN Direct(s.unit[b]), Direct(s.unit[b])[i] = a
             PROVE  FALSE
  OBVIOUS
<1>2. <<b, i>> \in DirectPlaces(s, B)
  BY DEF DirectPlaces
<1>3. <<b, i>> \in DirectsTo(s, B, a)
  BY <1>2 DEF DirectsTo
<1> QED
  BY <1>1, <1>3

-----------------------------------------------------------------------------
(* A set that grows, step by step, within a finite set comes to an end.     *)

Room(U, d) == Cardinality(U \ d)

EndsBy(U, g, f, n) ==
  /\ f \in [SUBSET U -> SUBSET U]
  /\ \A d \in SUBSET U : Room(U, d) <= n => f[d] = IF g[d] = d THEN d ELSE f[g[d]]

Growing(U, g) == g \in [SUBSET U -> SUBSET U] /\ \A d \in SUBSET U : d \subseteq g[d]
GrownBy(U, g, f) == f = [d \in SUBSET U |-> IF g[d] = d THEN d ELSE f[g[d]]]

LEMMA GrowthLess ==
  ASSUME NEW U, IsFiniteSet(U), NEW d \in SUBSET U, NEW e \in SUBSET U, d \subseteq e, d # e
  PROVE  /\ Room(U, d) \in Nat /\ Room(U, e) \in Nat
         /\ Room(U, e) < Room(U, d)
<1>1. IsFiniteSet(U \ d) /\ U \ e \in SUBSET (U \ d)
  BY FS_Subset
<1>2. /\ IsFiniteSet(U \ e)
      /\ Room(U, e) <= Room(U, d)
      /\ Room(U, d) = Room(U, e) => U \ d = U \ e
  BY <1>1, FS_Subset DEF Room
<1>3. U \ d # U \ e
  OBVIOUS
<1>4. Room(U, d) \in Nat /\ Room(U, e) \in Nat
  BY <1>1, <1>2, FS_CardinalityType DEF Room
<1> QED
  BY <1>2, <1>3, <1>4

LEMMA GrowthExists ==
  ASSUME NEW U, IsFiniteSet(U), NEW g, Growing(U, g)
  PROVE  \E f : GrownBy(U, g, f)
<1> /\ g \in [SUBSET U -> SUBSET U]
    /\ \A d \in SUBSET U : d \subseteq g[d]
  BY DEF Growing
<1> DEFINE S == {n \in Nat : \E f : EndsBy(U, g, f, n)}
<1>1. \A d \in SUBSET U : Room(U, d) \in Nat
  BY FS_Subset, FS_CardinalityType DEF Room
<1>2. \A d \in SUBSET U : g[d] \in SUBSET U
                         /\ (g[d] # d => Room(U, g[d]) < Room(U, d))
  BY GrowthLess
<1>3. 0 \in S
  <2> DEFINE f == [d \in SUBSET U |-> d]
  <2>1. f \in [SUBSET U -> SUBSET U]
    OBVIOUS
  <2>2. \A d \in SUBSET U : Room(U, d) <= 0 => g[d] = d
    <3> TAKE d \in SUBSET U
    <3>1. Room(U, d) \in Nat /\ Room(U, g[d]) \in Nat
      BY <1>1
    <3>2. g[d] # d => Room(U, g[d]) < Room(U, d)
      BY <1>2
    <3> QED
      BY <3>1, <3>2
  <2>3. \A d \in SUBSET U : f[d] = d
    OBVIOUS
  <2> HIDE DEF f
  <2>4. EndsBy(U, g, f, 0)
    BY <2>1, <2>2, <2>3 DEF EndsBy
  <2> QED
    BY <2>4
<1>4. \A n \in Nat : n \in S => n + 1 \in S
  <2> SUFFICES ASSUME NEW n \in Nat, NEW f, EndsBy(U, g, f, n) PROVE \E h : EndsBy(U, g, h, n + 1)
    OBVIOUS
  <2> DEFINE h == [d \in SUBSET U |->
                    IF Room(U, d) <= n THEN f[d] ELSE IF g[d] = d THEN d ELSE f[g[d]]]
  <2>1. h \in [SUBSET U -> SUBSET U]
    BY DEF EndsBy
  <2>2. ASSUME NEW d \in SUBSET U, Room(U, d) <= n + 1
        PROVE  h[d] = IF g[d] = d THEN d ELSE h[g[d]]
    <3>1. h[d] = IF Room(U, d) <= n THEN f[d] ELSE IF g[d] = d THEN d ELSE f[g[d]]
      OBVIOUS
    <3>2. h[g[d]] = IF Room(U, g[d]) <= n THEN f[g[d]]
                    ELSE IF g[g[d]] = g[d] THEN g[d] ELSE f[g[g[d]]]
      OBVIOUS
    <3>3. Room(U, d) \in Nat /\ Room(U, g[d]) \in Nat
      BY <1>1, <1>2
    <3>4. g[d] # d => Room(U, g[d]) <= n
      <4>1. g[d] # d => Room(U, g[d]) < Room(U, d)
        BY <1>2
      <4> QED
        BY <2>2, <3>3, <4>1
    <3>5. Room(U, d) <= n => f[d] = IF g[d] = d THEN d ELSE f[g[d]]
      BY DEF EndsBy
    <3> HIDE DEF h
    <3> QED
      BY <3>1, <3>2, <3>4, <3>5
  <2> HIDE DEF h
  <2>3. EndsBy(U, g, h, n + 1)
    BY <2>1, <2>2 DEF EndsBy
  <2> QED
    BY <2>3
<1>5. Cardinality(U) \in S
  <2>1. Nat \subseteq S
    <3> HIDE DEF S
    <3> QED
      BY <1>3, <1>4, SetInduction
  <2> QED
    BY <2>1, FS_CardinalityType
<1>6. PICK f : EndsBy(U, g, f, Cardinality(U))
  BY <1>5
<1>7. \A d \in SUBSET U : Room(U, d) <= Cardinality(U)
  <2> TAKE d \in SUBSET U
  <2>1. U \ d \in SUBSET U
    OBVIOUS
  <2> QED
    BY <2>1, FS_Subset DEF Room
<1>8. f = [d \in SUBSET U |-> IF g[d] = d THEN d ELSE f[g[d]]]
  BY <1>6, <1>7 DEF EndsBy
<1> QED
  BY <1>8 DEF GrownBy

(* What holds of each set on the way holds where it ends.                   *)
LEMMA GrowthKeeps ==
  ASSUME NEW U, IsFiniteSet(U), NEW g, Growing(U, g), NEW f, GrownBy(U, g, f),
         NEW Q, Q \in SUBSET SUBSET U, \A d \in Q : g[d] \in Q
  PROVE  \A d \in Q : f[d] \in Q /\ g[f[d]] = f[d]
<1> /\ g \in [SUBSET U -> SUBSET U]
    /\ \A d \in SUBSET U : d \subseteq g[d]
  BY DEF Growing
<1> f = [d \in SUBSET U |-> IF g[d] = d THEN d ELSE f[g[d]]]
  BY DEF GrownBy
<1> DEFINE Good(d) == f[d] \in Q /\ g[f[d]] = f[d]
           S == {n \in Nat : \A d \in Q : Room(U, d) <= n => Good(d)}
<1>1. \A d \in Q : f[d] = IF g[d] = d THEN d ELSE f[g[d]]
  <2> TAKE d \in Q
  <2>1. d \in SUBSET U
    OBVIOUS
  <2>2. [x \in SUBSET U |-> IF g[x] = x THEN x ELSE f[g[x]]][d] = IF g[d] = d THEN d ELSE f[g[d]]
    BY <2>1
  <2> QED
    BY <2>2
<1>2. \A d \in Q : /\ Room(U, d) \in Nat
                   /\ g[d] # d => Room(U, g[d]) < Room(U, d)
  <2> TAKE d \in Q
  <2>1. d \in SUBSET U /\ g[d] \in SUBSET U /\ d \subseteq g[d]
    OBVIOUS
  <2>2. IsFiniteSet(U \ d)
    BY <2>1, FS_Subset
  <2>3. Room(U, d) \in Nat
    BY <2>2, FS_CardinalityType DEF Room
  <2>4. g[d] # d => Room(U, g[d]) < Room(U, d)
    BY <2>1, GrowthLess
  <2> QED
    BY <2>3, <2>4
<1>3. \A d \in Q : g[d] = d => Good(d)
  BY <1>1
<1>4. \A d \in Q : g[d] # d /\ Good(g[d]) => Good(d)
  BY <1>1
<1> HIDE DEF Good
<1>5. 0 \in S
  <2> SUFFICES ASSUME NEW d \in Q, Room(U, d) <= 0 PROVE Good(d)
    OBVIOUS
  <2>1. g[d] \in Q
    OBVIOUS
  <2>2. Room(U, d) \in Nat /\ Room(U, g[d]) \in Nat
    BY <2>1, <1>2
  <2>3. g[d] # d => Room(U, g[d]) < Room(U, d)
    BY <1>2
  <2>4. g[d] = d
    BY <2>2, <2>3
  <2> QED
    BY <1>3, <2>4
<1>6. \A n \in Nat : n \in S => n + 1 \in S
  <2> SUFFICES ASSUME NEW n \in Nat, n \in S, NEW d \in Q, Room(U, d) <= n + 1 PROVE Good(d)
    OBVIOUS
  <2>1. CASE g[d] = d
    BY <1>3, <2>1
  <2>2. CASE g[d] # d
    <3>1. g[d] \in Q
      OBVIOUS
    <3>2. Room(U, d) \in Nat /\ Room(U, g[d]) \in Nat
      BY <3>1, <1>2
    <3>3. Room(U, g[d]) <= n
      <4>1. Room(U, g[d]) < Room(U, d)
        BY <1>2, <2>2
      <4> QED
        BY <3>2, <4>1
    <3>4. Good(g[d])
      BY <3>1, <3>3
    <3> QED
      BY <1>4, <2>2, <3>4
  <2> QED
    BY <2>1, <2>2
<1>7. Nat \subseteq S
  <2> HIDE DEF S
  <2> QED
    BY <1>5, <1>6, SetInduction
<1> SUFFICES ASSUME NEW d \in Q PROVE Good(d)
  BY DEF Good
<1>8. Room(U, d) \in Nat
  BY <1>2
<1>9. Room(U, d) \in S
  BY <1>7, <1>8
<1> QED
  BY <1>8, <1>9

-----------------------------------------------------------------------------
(* What a release comes to.                                                 *)

LEMMA Bounded ==
  ASSUME NEW s, Shape(s), Owned(s)
  PROVE  /\ IsFiniteSet(DOMAIN s.unit) /\ IsFiniteSet(DOMAIN s.mem)
         /\ DirectsInOrder(s, DOMAIN s.unit)
         /\ \A d \in SUBSET DOMAIN s.unit : CellsIn(s, d) \subseteq DOMAIN s.mem
<1>1. IsFiniteSet(1..s.units) /\ IsFiniteSet(1..s.cells)
  <2>1. s.units \in Nat /\ s.cells \in Nat
    BY DEF Shape
  <2> QED
    BY SMTT(30), <2>1, FS_Interval
<1>2. IsFiniteSet(DOMAIN s.unit) /\ IsFiniteSet(DOMAIN s.mem)
  BY <1>1, FS_Subset DEF Shape
<1>3. ASSUME NEW b \in DOMAIN s.unit PROVE IsSeq(Direct(s.unit[b]))
  <2>1. CASE s.unit[b].type = "function"
    <3> DEFINE val == s.unit[b].val
    <3>1. WellFunction(val)
      BY <2>1 DEF Shape, WellUnit, WellVal
    <3>2. val.default \in Seq(Int) /\ val.closure \in Int
      BY <3>1 DEF WellFunction
    <3> HIDE DEF val
    <3>3. <<val.closure>> \o val.default \in Seq(Int)
      BY <3>2
    <3>4. Direct(s.unit[b]) = <<val.closure>> \o val.default
      BY <2>1 DEF Direct, val
    <3> QED
      BY <3>3, <3>4, SeqIntro
  <2>2. CASE s.unit[b].type # "function"
    <3>1. Direct(s.unit[b]) = <<>>
      BY <2>2 DEF Direct
    <3> QED
      BY <3>1, TupleSeq
  <2> QED
    BY <2>1, <2>2
<1>4. ASSUME NEW d \in SUBSET DOMAIN s.unit PROVE CellsIn(s, d) \subseteq DOMAIN s.mem
  BY DEF CellsIn, Owned
<1> QED
  BY <1>2, <1>3, <1>4 DEF DirectsInOrder

LEMMA GivenBackNat ==
  ASSUME NEW s, Shape(s), Owned(s), NEW addrs, IsSeq(addrs), NEW cells \in SUBSET DOMAIN s.mem,
         NEW d \in SUBSET DOMAIN s.unit, NEW b
  PROVE  /\ GivenBack(s, addrs, cells, d, b) \in Nat
         /\ Count(addrs, b) \in Nat
         /\ InCells(s, cells \cup CellsIn(s, d), b) \in Nat
         /\ InUnits(s, d, b) \in Nat
         /\ GivenBack(s, addrs, cells, d, b) =
              Count(addrs, b) + InCells(s, cells \cup CellsIn(s, d), b) + InUnits(s, d, b)
<1>1. Count(addrs, b) \in Nat
  BY CountNat
<1>2. InCells(s, cells \cup CellsIn(s, d), b) \in Nat
  <2>1. cells \cup CellsIn(s, d) \in SUBSET DOMAIN s.mem
    BY Bounded
  <2>2. IsFiniteSet(cells \cup CellsIn(s, d))
    BY <2>1, Bounded, FS_Subset
  <2> QED
    BY <2>2, InCellsNat
<1>3. InUnits(s, d, b) \in Nat
  <2>1. IsFiniteSet(d) /\ DirectsInOrder(s, d)
    <3>1. IsFiniteSet(d)
      BY Bounded, FS_Subset
    <3>2. DirectsInOrder(s, d)
      BY Bounded DEF DirectsInOrder
    <3> QED
      BY <3>1, <3>2
  <2> QED
    BY <2>1, InUnitsNat
<1>4. GivenBack(s, addrs, cells, d, b) =
              Count(addrs, b) + InCells(s, cells \cup CellsIn(s, d), b) + InUnits(s, d, b)
  BY DEF GivenBack
<1> DEFINE all == cells \cup CellsIn(s, d)
           given == GivenBack(s, addrs, cells, d, b)
<1>5. given = Count(addrs, b) + InCells(s, all, b) + InUnits(s, d, b)
  BY <1>4
<1>6. InCells(s, all, b) \in Nat
  BY <1>2
<1> HIDE DEF all, given
<1>7. given \in Nat
  BY <1>1, <1>3, <1>5, <1>6
<1>8. GivenBack(s, addrs, cells, d, b) \in Nat
  BY <1>7 DEF given
<1> QED
  BY <1>1, <1>2, <1>3, <1>4, <1>8

LEMMA GivenBackGrows ==
  ASSUME NEW s, Shape(s), Owned(s), NEW addrs, IsSeq(addrs), NEW cells \in SUBSET DOMAIN s.mem,
         NEW d \in SUBSET DOMAIN s.unit, NEW e \in SUBSET DOMAIN s.unit, d \subseteq e, NEW b
  PROVE  GivenBack(s, addrs, cells, d, b) <= GivenBack(s, addrs, cells, e, b)
<1> DEFINE C == cells \cup CellsIn(s, d)
           F == cells \cup CellsIn(s, e)
<1>1. C \in SUBSET F /\ F \in SUBSET DOMAIN s.mem
  BY Bounded DEF CellsIn
<1>2. IsFiniteSet(F) /\ IsFiniteSet(F \ C) /\ IsFiniteSet(e) /\ IsFiniteSet(e \ d)
  BY <1>1, Bounded, FS_Subset
<1>3. DirectsInOrder(s, e) /\ DirectsInOrder(s, e \ d)
  BY Bounded DEF DirectsInOrder
<1>4. InCells(s, F, b) = InCells(s, C, b) + InCells(s, F \ C, b)
  BY <1>1, <1>2, InCellsSplit
<1>5. InUnits(s, e, b) = InUnits(s, d, b) + InUnits(s, e \ d, b)
  BY <1>2, <1>3, InUnitsSplit
<1>6. InCells(s, F \ C, b) \in Nat /\ InUnits(s, e \ d, b) \in Nat
  BY <1>2, <1>3, InCellsNat, InUnitsNat
<1> DEFINE before == GivenBack(s, addrs, cells, d, b)
           after == GivenBack(s, addrs, cells, e, b)
           more == InCells(s, F \ C, b)
           others == InUnits(s, e \ d, b)
<1>7. /\ before = Count(addrs, b) + InCells(s, C, b) + InUnits(s, d, b)
      /\ Count(addrs, b) \in Nat /\ InCells(s, C, b) \in Nat /\ InUnits(s, d, b) \in Nat
  <2> HIDE DEF C, before
  <2> QED
    BY GivenBackNat DEF C, before
<1>8. after = Count(addrs, b) + InCells(s, F, b) + InUnits(s, e, b)
  <2> HIDE DEF F, after
  <2> QED
    BY GivenBackNat DEF F, after
<1>9. before <= after
  <2>1. /\ InCells(s, F, b) = InCells(s, C, b) + more
        /\ InUnits(s, e, b) = InUnits(s, d, b) + others
        /\ more \in Nat /\ others \in Nat
    BY <1>4, <1>5, <1>6
  <2> HIDE DEF C, F, before, after, more, others
  <2> QED
    BY <1>7, <1>8, <2>1
<1> QED
  BY <1>9

(* The units that are destroyed are those that lose all their references.   *)
Closing(s, addrs, cells, dead) ==
  /\ dead \subseteq DOMAIN s.unit
  /\ \A b \in DOMAIN s.unit :
       b \in dead <=> s.unit[b].cnt <= GivenBack(s, addrs, cells, dead, b)

LeftUnits(s, addrs, cells, dead) ==
  [b \in DOMAIN s.unit \ dead |->
    [s.unit[b] EXCEPT !.cnt = @ - GivenBack(s, addrs, cells, dead, b)]]
LeftMem(s, cells, dead) == Restrict(s.mem, DOMAIN s.mem \ (cells \cup CellsIn(s, dead)))
Left(s, addrs, cells, dead) ==
  [s EXCEPT !.unit = LeftUnits(s, addrs, cells, dead), !.mem = LeftMem(s, cells, dead)]

LEMMA ReleasedLeft ==
  ASSUME NEW s, Shape(s), Owned(s), NEW addrs, IsSeq(addrs), NEW cells \in SUBSET DOMAIN s.mem
  PROVE  \E dead : /\ Closing(s, addrs, cells, dead)
                   /\ Released(s, addrs, cells) = Left(s, addrs, cells, dead)
<1> DEFINE U == DOMAIN s.unit
           Un(d) == {b \in U : s.unit[b].cnt <= GivenBack(s, addrs, cells, d, b)}
           g == [d \in SUBSET U |-> d \cup Un(d)]
           Q == {d \in SUBSET U : d \subseteq Un(d)}
           dying == CHOOSE f : f = [dead \in SUBSET U |->
                      IF Un(dead) \subseteq dead THEN dead ELSE f[dead \cup Un(dead)]]
           D == Dying(s, addrs, cells)
<1>1. D = dying[{}]
  BY DEF Dying
<1>2. \A b \in U : s.unit[b].cnt \in Nat
  BY DEF Shape, WellUnit
<1>3. ASSUME NEW d \in SUBSET U, NEW e \in SUBSET U, d \subseteq e PROVE Un(d) \subseteq Un(e)
  <2> SUFFICES ASSUME NEW b \in Un(d) PROVE b \in Un(e)
    OBVIOUS
  <2>1. b \in U /\ s.unit[b].cnt \in Nat /\ s.unit[b].cnt <= GivenBack(s, addrs, cells, d, b)
    BY <1>2
  <2>2. GivenBack(s, addrs, cells, d, b) <= GivenBack(s, addrs, cells, e, b)
    BY <1>3, GivenBackGrows
  <2>3. GivenBack(s, addrs, cells, d, b) \in Nat /\ GivenBack(s, addrs, cells, e, b) \in Nat
    BY GivenBackNat
  <2>4. s.unit[b].cnt <= GivenBack(s, addrs, cells, e, b)
    <3> DEFINE x == s.unit[b].cnt
               y == GivenBack(s, addrs, cells, d, b)
               z == GivenBack(s, addrs, cells, e, b)
    <3>1. x \in Nat /\ y \in Nat /\ z \in Nat /\ x <= y /\ y <= z
      BY <2>1, <2>2, <2>3
    <3> HIDE DEF x, y, z
    <3>2. x <= z
      BY <3>1
    <3> QED
      BY <3>2 DEF x, z
  <2> QED
    BY <2>1, <2>4
<1>4. \A d \in SUBSET U : Un(d) \in SUBSET U
  OBVIOUS
<1>5. IsFiniteSet(U)
  BY Bounded
<1>11. Un({}) \subseteq U
  OBVIOUS
<1>12. ASSUME NEW dead \in SUBSET U, Un(dead) = dead PROVE Closing(s, addrs, cells, dead)
  BY <1>12 DEF Closing
<1> HIDE DEF U, Un
<1>6. g \in [SUBSET U -> SUBSET U] /\ \A d \in SUBSET U : g[d] = d \cup Un(d)
  BY <1>4
<1>7. \A d \in Q : g[d] \in Q
  <2> SUFFICES ASSUME NEW d \in Q PROVE g[d] \in Q
    OBVIOUS
  <2>1. d \in SUBSET U /\ g[d] \in SUBSET U /\ d \subseteq Un(d)
    BY <1>6
  <2>2. g[d] = Un(d) /\ d \subseteq g[d]
    BY <2>1, <1>6
  <2>3. Un(d) \subseteq Un(g[d])
    BY <2>1, <2>2, <1>3
  <2> HIDE DEF g
  <2> QED
    BY <2>1, <2>2, <2>3
<1>8. \E f : f = [dead \in SUBSET U |->
                   IF Un(dead) \subseteq dead THEN dead ELSE f[dead \cup Un(dead)]]
  <2>1. PICK f : GrownBy(U, g, f)
    <3>1. Growing(U, g)
      BY <1>6 DEF Growing
    <3> HIDE DEF g, Q, dying
    <3> QED
      BY <1>5, <3>1, GrowthExists
  <2>2. \A d \in SUBSET U : (g[d] = d <=> Un(d) \subseteq d) /\ g[d] = d \cup Un(d)
    BY <1>6
  <2> HIDE DEF g
  <2>3. f = [dead \in SUBSET U |->
              IF Un(dead) \subseteq dead THEN dead ELSE f[dead \cup Un(dead)]]
    BY <2>1, <2>2 DEF GrownBy
  <2> QED
    BY <2>3
<1>9. dying = [dead \in SUBSET U |->
                IF Un(dead) \subseteq dead THEN dead ELSE dying[dead \cup Un(dead)]]
  BY <1>8
<1> HIDE DEF dying
<1>10. dying = [d \in SUBSET U |-> IF g[d] = d THEN d ELSE dying[g[d]]]
  <2>1. \A d \in SUBSET U : (g[d] = d <=> Un(d) \subseteq d) /\ g[d] = d \cup Un(d)
    BY <1>6
  <2> HIDE DEF g
  <2> QED
    BY ZenonT(40), <1>9, <2>1
<1>13. D \in Q /\ g[D] = D
  <2>1. {} \in Q
    OBVIOUS
  <2>2. Q \in SUBSET SUBSET U /\ Growing(U, g)
    BY <1>6 DEF Growing
  <2>4. GrownBy(U, g, dying)
    BY <1>10 DEF GrownBy
  <2> HIDE DEF Q, g
  <2>3. \A d \in Q : dying[d] \in Q /\ g[dying[d]] = dying[d]
    BY <1>5, <1>7, <2>2, <2>4, GrowthKeeps
  <2> QED
    BY <1>1, <2>1, <2>3
<1>14. D \in SUBSET U /\ Un(D) = D
  BY <1>6, <1>13
<1>15. Closing(s, addrs, cells, D)
  BY <1>12, <1>14
<1>16. Released(s, addrs, cells) = Left(s, addrs, cells, D)
  BY DEF Released, Left, LeftUnits, LeftMem
<1> QED
  BY <1>15, <1>16

LEMMA SameContents ==
  ASSUME NEW u, NEW w, u.type = w.type, u.val = w.val
  PROVE  Cells(u) = Cells(w) /\ Direct(u) = Direct(w)
BY DEF Cells, Direct

LeftIs(s, addrs, cells, dead, r) ==
  /\ r = [unit |-> r.unit, mem |-> r.mem, units |-> s.units, cells |-> s.cells]
  /\ DOMAIN r.unit = DOMAIN s.unit \ dead
  /\ r.unit = [b \in DOMAIN r.unit |-> r.unit[b]]
  /\ \A b \in DOMAIN r.unit :
       /\ r.unit[b].type = s.unit[b].type /\ r.unit[b].val = s.unit[b].val
       /\ r.unit[b].cnt = s.unit[b].cnt - GivenBack(s, addrs, cells, dead, b)
       /\ WellUnit(r.unit[b])
  /\ DOMAIN r.mem = DOMAIN s.mem \ (cells \cup CellsIn(s, dead))
  /\ r.mem = [c \in DOMAIN r.mem |-> r.mem[c]]
  /\ \A c \in DOMAIN r.mem : r.mem[c] = s.mem[c]

LEMMA LeftFacts ==
  ASSUME NEW s, Shape(s), Owned(s), NEW addrs, IsSeq(addrs), NEW cells \in SUBSET DOMAIN s.mem,
         NEW dead, Closing(s, addrs, cells, dead),
         NEW r, r = Left(s, addrs, cells, dead)
  PROVE  LeftIs(s, addrs, cells, dead, r)
<1> DEFINE U == LeftUnits(s, addrs, cells, dead)
           M == LeftMem(s, cells, dead)
<1>1. r = [unit |-> U, mem |-> M, units |-> s.units, cells |-> s.cells]
  <2>1. s = [unit |-> s.unit, mem |-> s.mem, units |-> s.units, cells |-> s.cells]
    BY DEF Shape
  <2> HIDE DEF U, M
  <2>2. r = [s EXCEPT !.unit = U, !.mem = M]
    BY DEF Left, U, M
  <2> QED
    BY <2>1, <2>2
<1>2. /\ DOMAIN U = DOMAIN s.unit \ dead
      /\ U = [b \in DOMAIN U |-> U[b]]
  BY DEF LeftUnits
<1>3. ASSUME NEW b \in DOMAIN s.unit \ dead
      PROVE  /\ U[b].type = s.unit[b].type /\ U[b].val = s.unit[b].val
             /\ U[b].cnt = s.unit[b].cnt - GivenBack(s, addrs, cells, dead, b)
             /\ WellUnit(U[b])
  <2> DEFINE given == GivenBack(s, addrs, cells, dead, b)
             u == s.unit[b]
  <2>1. given \in Nat
    BY GivenBackNat DEF Closing
  <2>2. /\ u = [type |-> u.type, cnt |-> u.cnt, val |-> u.val] /\ u.cnt \in Nat
        /\ WellVal(u.type, u.val)
    BY DEF Shape, WellUnit
  <2>3. ~(u.cnt <= given)
    BY DEF Closing
  <2>4. U[b] = [u EXCEPT !.cnt = @ - given]
    BY DEF LeftUnits
  <2> HIDE DEF given, u, U
  <2>5. U[b] = [type |-> u.type, cnt |-> u.cnt - given, val |-> u.val]
    BY <2>2, <2>4
  <2>6. u.cnt - given \in Nat
    BY <2>1, <2>2, <2>3
  <2>7. U[b].type = u.type /\ U[b].val = u.val /\ U[b].cnt = u.cnt - given
    BY <2>5
  <2>8. WellUnit(U[b])
    BY <2>2, <2>5, <2>6, <2>7 DEF WellUnit
  <2> QED
    BY <2>7, <2>8 DEF u, given
<1>4. /\ DOMAIN M = DOMAIN s.mem \ (cells \cup CellsIn(s, dead))
      /\ M = [c \in DOMAIN M |-> M[c]]
      /\ \A c \in DOMAIN M : M[c] = s.mem[c]
  BY DEF LeftMem, Restrict
<1> HIDE DEF U, M
<1>5. r.unit = U /\ r.mem = M
  BY <1>1
<1> QED
  BY <1>1, <1>2, <1>3, <1>4, <1>5 DEF LeftIs

LEMMA LeftShape ==
  ASSUME NEW s, Shape(s), Owned(s), NEW addrs, IsSeq(addrs), NEW cells \in SUBSET DOMAIN s.mem,
         \A b \in DOMAIN s.unit : Cells(s.unit[b]) \cap cells = {},
         NEW dead, Closing(s, addrs, cells, dead),
         NEW r, r = Left(s, addrs, cells, dead)
  PROVE  Shape(r) /\ Owned(r)
<1>0. LeftIs(s, addrs, cells, dead, r)
  BY LeftFacts
<1>1. /\ r = [unit |-> r.unit, mem |-> r.mem, units |-> s.units, cells |-> s.cells]
      /\ DOMAIN r.unit = DOMAIN s.unit \ dead
      /\ r.unit = [b \in DOMAIN r.unit |-> r.unit[b]]
      /\ DOMAIN r.mem = DOMAIN s.mem \ (cells \cup CellsIn(s, dead))
      /\ r.mem = [c \in DOMAIN r.mem |-> r.mem[c]]
  BY <1>0 DEF LeftIs
<1>3. \A b \in DOMAIN r.unit : /\ WellUnit(r.unit[b])
                               /\ r.unit[b].type = s.unit[b].type
                               /\ r.unit[b].val = s.unit[b].val
  BY <1>0 DEF LeftIs
<1>4. Shape(r)
  <2>1. r.units = s.units /\ r.cells = s.cells
    BY <1>1
  <2>2. s.units \in Nat /\ s.cells \in Nat
        /\ DOMAIN s.unit \subseteq 1..s.units /\ DOMAIN s.mem \subseteq 1..s.cells
    BY DEF Shape
  <2>3. DOMAIN r.unit \subseteq 1..r.units /\ DOMAIN r.mem \subseteq 1..r.cells
    BY <1>1, <2>1, <2>2
  <2> QED
    BY <1>1, <1>3, <2>1, <2>2, <2>3 DEF Shape
<1>5. \A b \in DOMAIN r.unit : /\ b \in DOMAIN s.unit
                               /\ b \notin dead
                               /\ r.unit[b].type = s.unit[b].type /\ r.unit[b].val = s.unit[b].val
                               /\ Cells(r.unit[b]) = Cells(s.unit[b])
  BY <1>1, <1>3, SameContents
<1>6. \A b \in DOMAIN r.unit : Cells(r.unit[b]) \subseteq DOMAIN r.mem
  <2> TAKE b \in DOMAIN r.unit
  <2>1. Cells(s.unit[b]) \subseteq DOMAIN s.mem /\ Cells(s.unit[b]) \cap cells = {}
    BY <1>5 DEF Owned
  <2>2. \A d \in dead : Cells(s.unit[b]) \cap Cells(s.unit[d]) = {}
    BY <1>5 DEF Owned, Closing
  <2>3. Cells(s.unit[b]) \cap CellsIn(s, dead) = {}
    BY <2>2 DEF CellsIn
  <2> QED
    BY <1>1, <1>5, <2>1, <2>3
<1>7. Owned(r)
  <2>1. \A b \in DOMAIN r.unit : Separate(r.unit[b].type, r.unit[b].val)
    BY <1>5 DEF Owned
  <2>2. \A b, d \in DOMAIN r.unit : b # d => Cells(r.unit[b]) \cap Cells(r.unit[d]) = {}
    BY <1>5 DEF Owned
  <2> QED
    BY <1>6, <2>1, <2>2 DEF Owned
<1> QED
  BY <1>4, <1>7

-----------------------------------------------------------------------------
(* What the store holds, before and after.                                  *)

LEMMA HeldNat ==
  ASSUME NEW s, Shape(s), Owned(s), NEW b
  PROVE  /\ InCells(s, DOMAIN s.mem, b) \in Nat
         /\ InUnits(s, DOMAIN s.unit, b) \in Nat
         /\ HeldInside(s, b) = InCells(s, DOMAIN s.mem, b) + InUnits(s, DOMAIN s.unit, b)
         /\ HeldInside(s, b) \in Nat
<1>1. /\ IsFiniteSet(DOMAIN s.unit) /\ IsFiniteSet(DOMAIN s.mem)
      /\ DirectsInOrder(s, DOMAIN s.unit)
  BY Bounded
<1>2. InCells(s, DOMAIN s.mem, b) \in Nat
  BY <1>1, InCellsNat
<1>3. InUnits(s, DOMAIN s.unit, b) \in Nat
  BY <1>1, InUnitsNat
<1>4. HeldInside(s, b) = InCells(s, DOMAIN s.mem, b) + InUnits(s, DOMAIN s.unit, b)
  BY DEF HeldInside
<1> DEFINE inCells == InCells(s, DOMAIN s.mem, b)
           inUnits == InUnits(s, DOMAIN s.unit, b)
<1>5. inCells \in Nat /\ inUnits \in Nat
  BY <1>2, <1>3
<1> HIDE DEF inCells, inUnits
<1>6. inCells + inUnits \in Nat
  BY <1>5
<1> QED
  BY <1>2, <1>3, <1>4, <1>6 DEF inCells, inUnits

(* What is held nowhere is in no cell and in no function.                   *)
LEMMA HeldNowhere ==
  ASSUME NEW s, Shape(s), Owned(s), NEW b, HeldInside(s, b) = 0
  PROVE  /\ \A c \in DOMAIN s.mem : s.mem[c] # b
         /\ \A d \in DOMAIN s.unit : \A i \in DOMAIN Direct(s.unit[d]) : Direct(s.unit[d])[i] # b
<1>1. /\ IsFiniteSet(DOMAIN s.unit) /\ IsFiniteSet(DOMAIN s.mem)
      /\ DirectsInOrder(s, DOMAIN s.unit)
  BY Bounded
<1> DEFINE inCells == InCells(s, DOMAIN s.mem, b)
           inUnits == InUnits(s, DOMAIN s.unit, b)
<1>2. inCells \in Nat /\ inUnits \in Nat /\ inCells + inUnits = 0
  BY HeldNat
<1>3. inCells = 0 /\ inUnits = 0
  <2> HIDE DEF inCells, inUnits
  <2> QED
    BY <1>2
<1>4. \A c \in DOMAIN s.mem : s.mem[c] # b
  BY <1>1, <1>3, InCellsZero
<1>5. \A d \in DOMAIN s.unit : \A i \in DOMAIN Direct(s.unit[d]) : Direct(s.unit[d])[i] # b
  BY <1>1, <1>3, InUnitsZero
<1> QED
  BY <1>4, <1>5

LEMMA HeldLeft ==
  ASSUME NEW s, Shape(s), Owned(s), NEW addrs, IsSeq(addrs), NEW cells \in SUBSET DOMAIN s.mem,
         \A b \in DOMAIN s.unit : Cells(s.unit[b]) \cap cells = {},
         NEW dead, Closing(s, addrs, cells, dead),
         NEW r, r = Left(s, addrs, cells, dead), NEW b
  PROVE  /\ HeldInside(s, b) + Count(addrs, b) =
              HeldInside(r, b) + GivenBack(s, addrs, cells, dead, b)
         /\ HeldInside(s, b) \in Nat /\ HeldInside(r, b) \in Nat
         /\ Count(addrs, b) \in Nat /\ GivenBack(s, addrs, cells, dead, b) \in Nat
<1>0. LeftIs(s, addrs, cells, dead, r)
  BY LeftFacts
<1>1. Shape(r) /\ Owned(r)
  BY LeftShape
<1> DEFINE C == cells \cup CellsIn(s, dead)
           M == DOMAIN s.mem
           U == DOMAIN s.unit
<1>2. C \in SUBSET M /\ dead \in SUBSET U
  BY Bounded DEF Closing
<1>3. IsFiniteSet(M) /\ IsFiniteSet(U) /\ DirectsInOrder(s, U)
  BY Bounded
<1>4. InCells(s, M, b) = InCells(s, C, b) + InCells(s, M \ C, b)
  <2> HIDE DEF C, M
  <2> QED
    BY <1>2, <1>3, InCellsSplit
<1>5. InUnits(s, U, b) = InUnits(s, dead, b) + InUnits(s, U \ dead, b)
  <2> HIDE DEF U
  <2> QED
    BY <1>2, <1>3, InUnitsSplit
<1>6. DOMAIN r.mem = M \ C /\ \A c \in M \ C : s.mem[c] = r.mem[c]
  BY <1>0 DEF LeftIs
<1>7. InCells(s, M \ C, b) = InCells(r, DOMAIN r.mem, b)
  <2> HIDE DEF M, C
  <2>1. InCells(s, M \ C, b) = InCells(r, M \ C, b)
    BY <1>6, InCellsSame
  <2> QED
    BY <1>6, <2>1
<1>8. DOMAIN r.unit = U \ dead /\ \A d \in U \ dead : Direct(s.unit[d]) = Direct(r.unit[d])
  BY <1>0, SameContents DEF LeftIs
<1>9. InUnits(s, U \ dead, b) = InUnits(r, DOMAIN r.unit, b)
  <2> HIDE DEF U
  <2>1. InUnits(s, U \ dead, b) = InUnits(r, U \ dead, b)
    BY <1>8, InUnitsSame
  <2> QED
    BY <1>8, <2>1
<1>10. /\ HeldInside(s, b) = InCells(s, M, b) + InUnits(s, U, b)
       /\ HeldInside(s, b) \in Nat
  BY HeldNat
<1>11. /\ HeldInside(r, b) = InCells(r, DOMAIN r.mem, b) + InUnits(r, DOMAIN r.unit, b)
       /\ HeldInside(r, b) \in Nat
       /\ InCells(r, DOMAIN r.mem, b) \in Nat
       /\ InUnits(r, DOMAIN r.unit, b) \in Nat
  BY <1>1, HeldNat
<1>12. /\ GivenBack(s, addrs, cells, dead, b) \in Nat
       /\ Count(addrs, b) \in Nat
       /\ InCells(s, C, b) \in Nat
       /\ InUnits(s, dead, b) \in Nat
       /\ GivenBack(s, addrs, cells, dead, b) =
            Count(addrs, b) + InCells(s, C, b) + InUnits(s, dead, b)
  <2>1. dead \in SUBSET DOMAIN s.unit
    BY <1>2
  <2> DEFINE given == GivenBack(s, addrs, cells, dead, b)
  <2> HIDE DEF C, given
  <2>2. given \in Nat /\ Count(addrs, b) \in Nat
    BY <2>1, GivenBackNat DEF given
  <2>3. InCells(s, C, b) \in Nat /\ InUnits(s, dead, b) \in Nat
    BY <2>1, GivenBackNat DEF C
  <2>4. given = Count(addrs, b) + InCells(s, C, b) + InUnits(s, dead, b)
    BY <2>1, GivenBackNat DEF C, given
  <2> QED
    BY <2>2, <2>3, <2>4 DEF given
<1> DEFINE a1 == HeldInside(s, b)
           a2 == HeldInside(r, b)
           a3 == GivenBack(s, addrs, cells, dead, b)
           a4 == Count(addrs, b)
           a5 == InCells(s, C, b)
           a6 == InUnits(s, dead, b)
           a7 == InCells(r, DOMAIN r.mem, b)
           a8 == InUnits(r, DOMAIN r.unit, b)
<1>13. /\ a1 = (a5 + a7) + (a6 + a8) /\ a2 = a7 + a8 /\ a3 = a4 + a5 + a6
       /\ a1 \in Nat /\ a2 \in Nat /\ a3 \in Nat /\ a4 \in Nat
       /\ a5 \in Nat /\ a6 \in Nat /\ a7 \in Nat /\ a8 \in Nat
  BY <1>4, <1>5, <1>7, <1>9, <1>10, <1>11, <1>12
<1>14. a1 + a4 = a2 + a3 /\ a1 \in Nat /\ a2 \in Nat /\ a4 \in Nat /\ a3 \in Nat
  <2> HIDE DEF a1, a2, a3, a4, a5, a6, a7, a8
  <2> QED
    BY <1>13
<1> QED
  BY <1>14

Fewer(refs, addrs) == [a \in Int |-> refs[a] - Count(addrs, a)]

(* The references given back must be owned: those to the units that this    *)
(* destroys.                                                                *)
LEMMA LeftSound ==
  ASSUME NEW s, NEW refs, NEW account, Sound(s, refs, account),
         NEW addrs, IsSeq(addrs), NEW cells \in SUBSET DOMAIN s.mem,
         \A b \in DOMAIN s.unit : Cells(s.unit[b]) \cap cells = {},
         NEW dead, Closing(s, addrs, cells, dead),
         \A b \in dead : Count(addrs, b) <= refs[b],
         NEW r, r = Left(s, addrs, cells, dead)
  PROVE  Sound(r, Fewer(refs, addrs), account)
<1> DEFINE rest == Fewer(refs, addrs)
<1>1. Shape(s) /\ Owned(s) /\ Counted(s, refs) /\ Valid(s, refs) /\ Typed(s, account)
      /\ refs \in [Int -> Int]
  BY DEF Sound
<1>2. Shape(r) /\ Owned(r)
  BY <1>1, LeftShape
<1>3. LeftIs(s, addrs, cells, dead, r)
  BY <1>1, LeftFacts
<1>4. \A b \in Int : Count(addrs, b) \in Nat
  BY CountNat
<1>5. /\ rest \in [Int -> Int]
      /\ \A b \in Int : rest[b] = refs[b] - Count(addrs, b)
  BY <1>1, <1>4 DEF Fewer
<1>6. DOMAIN s.unit \subseteq Int /\ DOMAIN r.unit = DOMAIN s.unit \ dead /\ dead \subseteq DOMAIN s.unit
  <2>1. DOMAIN s.unit \subseteq 1..s.units /\ s.units \in Nat
    BY <1>1 DEF Shape
  <2> QED
    BY <1>3, <2>1 DEF LeftIs, Closing
<1> HIDE DEF rest
<1>7. Counted(r, rest)
  <2> SUFFICES ASSUME NEW b \in DOMAIN r.unit PROVE r.unit[b].cnt >= rest[b] + HeldInside(r, b)
    BY DEF Counted
  <2> DEFINE a1 == HeldInside(s, b)
             a2 == HeldInside(r, b)
             a3 == GivenBack(s, addrs, cells, dead, b)
             a4 == Count(addrs, b)
             x == s.unit[b].cnt
             y == r.unit[b].cnt
  <2>1. a1 + a4 = a2 + a3 /\ a1 \in Nat /\ a2 \in Nat /\ a3 \in Nat /\ a4 \in Nat
    BY <1>1, HeldLeft
  <2>2. y = x - a3 /\ b \in Int
    BY <1>3, <1>6 DEF LeftIs
  <2>3. x \in Nat /\ x >= refs[b] + a1
    BY <1>1, <1>6 DEF Shape, WellUnit, Counted
  <2>4. rest[b] = refs[b] - a4 /\ refs[b] \in Int
    BY <1>1, <1>5, <2>2
  <2> HIDE DEF a1, a2, a3, a4, x, y
  <2>5. y >= rest[b] + a2
    BY <2>1, <2>2, <2>3, <2>4
  <2> QED
    BY <2>5 DEF y, a2
<1>8. ASSUME NEW b \in dead PROVE HeldInside(r, b) = 0 /\ rest[b] <= 0
  <2> DEFINE a1 == HeldInside(s, b)
             a2 == HeldInside(r, b)
             a3 == GivenBack(s, addrs, cells, dead, b)
             a4 == Count(addrs, b)
             x == s.unit[b].cnt
  <2>1. a1 + a4 = a2 + a3 /\ a1 \in Nat /\ a2 \in Nat /\ a3 \in Nat /\ a4 \in Nat
    BY <1>1, HeldLeft
  <2>2. x <= a3 /\ b \in Int /\ b \in DOMAIN s.unit
    BY <1>6 DEF Closing
  <2>3. x \in Nat /\ x >= refs[b] + a1
    BY <1>1, <2>2 DEF Shape, WellUnit, Counted
  <2>4. rest[b] = refs[b] - a4 /\ refs[b] \in Int /\ a4 <= refs[b]
    BY <1>1, <1>5, <2>2
  <2> HIDE DEF a1, a2, a3, a4, x
  <2>5. a2 = 0 /\ rest[b] <= 0
    BY <2>1, <2>2, <2>3, <2>4
  <2> QED
    BY <2>5 DEF a2
<1>9. ASSUME NEW b \in dead
      PROVE  /\ \A c \in DOMAIN r.mem : r.mem[c] # b
             /\ \A d \in DOMAIN r.unit : \A i \in DOMAIN Direct(r.unit[d]) : Direct(r.unit[d])[i] # b
  BY <1>2, <1>8, HeldNowhere
<1>10. \A d \in DOMAIN r.unit : /\ d \in DOMAIN s.unit
                                /\ r.unit[d].type = s.unit[d].type
                                /\ r.unit[d].val = s.unit[d].val
                                /\ Direct(r.unit[d]) = Direct(s.unit[d])
  BY <1>3, SameContents DEF LeftIs
<1>11. Valid(r, rest)
  <2>1. ASSUME NEW a \in Int, rest[a] > 0 PROVE a \in DOMAIN r.unit \cup {None}
    <3>1. refs[a] > 0
      BY <1>1, <1>4, <1>5, <2>1
    <3>2. a \in DOMAIN s.unit \cup {None}
      BY <1>1, <3>1 DEF Valid
    <3>3. a \notin dead
      BY <1>1, <1>5, <1>8, <2>1
    <3> QED
      BY <1>6, <3>2, <3>3
  <2>2. ASSUME NEW c \in DOMAIN r.mem PROVE r.mem[c] \in DOMAIN r.unit \cup {None}
    <3>1. c \in DOMAIN s.mem /\ r.mem[c] = s.mem[c]
      BY <1>3 DEF LeftIs
    <3>2. s.mem[c] \in DOMAIN s.unit \cup {None}
      BY <1>1, <3>1 DEF Valid
    <3>3. r.mem[c] \notin dead
      BY <1>9
    <3> QED
      BY <1>6, <3>1, <3>2, <3>3
  <2>3. ASSUME NEW b \in DOMAIN r.unit, NEW i \in DOMAIN Direct(r.unit[b])
        PROVE  Direct(r.unit[b])[i] \in DOMAIN r.unit \cup {None}
    <3>1. Direct(r.unit[b])[i] \in DOMAIN s.unit \cup {None}
      BY <1>1, <1>10 DEF Valid
    <3>2. Direct(r.unit[b])[i] \notin dead
      BY <1>9
    <3> QED
      BY <1>6, <3>1, <3>2
  <2> QED
    BY <2>1, <2>2, <2>3 DEF Valid
<1>12. Typed(r, account)
  <2>1. r.units = s.units
    BY <1>3 DEF LeftIs
  <2>2. ASSUME NEW b \in DOMAIN r.unit, r.unit[b].type = "function"
        PROVE  \/ r.unit[b].val.closure \in DOMAIN r.unit /\ r.unit[r.unit[b].val.closure].type = "closure"
               \/ r.unit[b].val.closure = None /\ b \in account.open
    <3> DEFINE x == s.unit[b].val.closure
    <3>1. \/ x \in DOMAIN s.unit /\ s.unit[x].type = "closure"
          \/ x = None /\ b \in account.open
      BY <1>1, <1>10, <2>2 DEF Typed
    <3>2. r.unit[b].val.closure = x
      BY <1>10
    <3>3. x \notin dead
      <4>1. Direct(r.unit[b]) = <<x>> \o r.unit[b].val.default
        BY <1>10, <2>2 DEF Direct
      <4>2. r.unit[b].val.default \in Seq(Int) /\ x \in Int
        BY <1>2, <2>2, <3>2 DEF Shape, WellUnit, WellVal, WellFunction
      <4> HIDE DEF x
      <4>3. 1 \in DOMAIN Direct(r.unit[b]) /\ Direct(r.unit[b])[1] = x
        BY <4>1, <4>2
      <4> QED
        BY <1>9, <4>3
    <3> HIDE DEF x
    <3>4. x \in DOMAIN s.unit => x \in DOMAIN r.unit /\ r.unit[x].type = s.unit[x].type
      BY <1>6, <1>10, <3>3
    <3> QED
      BY <3>1, <3>2, <3>4
  <2>3. /\ account.scopes \in [Int -> Nat]
        /\ DOMAIN account.kind \subseteq 1..r.units
        /\ \A a \in Int : a > r.units => account.scopes[a] = 0
    BY <1>1, <2>1 DEF Typed
  <2>4. /\ \A b \in DOMAIN r.unit : b \in DOMAIN account.kind => r.unit[b].type = account.kind[b]
        /\ \A b \in DOMAIN r.unit : r.unit[b].type = "closure" =>
             Len(r.unit[b].val) >= 1 + account.scopes[b]
    BY <1>1, <1>10 DEF Typed
  <2> QED
    BY <2>2, <2>3, <2>4 DEF Typed
<1> QED
  BY <1>2, <1>5, <1>7, <1>11, <1>12 DEF Sound, rest

-----------------------------------------------------------------------------
(* Other contents for one unit, and n new cells.                            *)

Fresh(s, n) == (s.cells + 1)..(s.cells + n)

Refills(s, t, v, n) ==
  /\ n \in Nat
  /\ t = [unit |-> t.unit, mem |-> t.mem, units |-> s.units, cells |-> s.cells + n]
  /\ DOMAIN t.unit = DOMAIN s.unit
  /\ t.unit = [b \in DOMAIN t.unit |-> t.unit[b]]
  /\ \A b \in DOMAIN s.unit : /\ WellUnit(t.unit[b])
                              /\ t.unit[b].type = s.unit[b].type
                              /\ b # v => t.unit[b].val = s.unit[b].val
  /\ v \in DOMAIN s.unit => /\ s.unit[v].type # "function"
                            /\ Separate(t.unit[v].type, t.unit[v].val)
                            /\ Cells(t.unit[v]) \subseteq DOMAIN s.mem \cup Fresh(s, n)
                            /\ \A b \in DOMAIN s.unit : b # v =>
                                 Cells(t.unit[v]) \cap Cells(s.unit[b]) = {}
  /\ DOMAIN t.mem = DOMAIN s.mem \cup Fresh(s, n)
  /\ t.mem = [c \in DOMAIN t.mem |-> t.mem[c]]
  /\ \A c \in DOMAIN s.mem : t.mem[c] = s.mem[c]
  /\ \A c \in Fresh(s, n) : t.mem[c] \in DOMAIN s.unit \cup {None}

(* What the user owns after that, and what the counts must allow for.       *)
Covered(s, t, n, refs, owned) ==
  /\ owned \in [Int -> Int]
  /\ \A b \in DOMAIN s.unit :
       owned[b] + InCells(t, Fresh(s, n), b) + s.unit[b].cnt <= refs[b] + t.unit[b].cnt
  /\ \A a \in Int : owned[a] > 0 => a \in DOMAIN s.unit \cup {None}

Rescoped(t, v, account, after) ==
  /\ after.scopes \in [Int -> Nat]
  /\ \A a \in Int : a # v => after.scopes[a] = account.scopes[a]
  /\ v \notin DOMAIN t.unit => after = account
  /\ v \in DOMAIN t.unit /\ t.unit[v].type = "closure" =>
       Len(t.unit[v].val) >= 1 + after.scopes[v]
  /\ after.kind = account.kind /\ after.open = account.open

LEMMA RefillShape ==
  ASSUME NEW s, Shape(s), Owned(s), NEW t, NEW v, NEW n, Refills(s, t, v, n)
  PROVE  /\ Shape(t) /\ Owned(t)
         /\ DOMAIN s.mem \cap Fresh(s, n) = {}
         /\ IsFiniteSet(Fresh(s, n))
<1>1. s.cells \in Nat /\ DOMAIN s.mem \subseteq 1..s.cells /\ s.units \in Nat
      /\ DOMAIN s.unit \subseteq 1..s.units /\ n \in Nat
  BY DEF Shape, Refills
<1>2. DOMAIN s.mem \cap Fresh(s, n) = {}
  BY <1>1 DEF Fresh
<1>3. IsFiniteSet(Fresh(s, n))
  <2>1. s.cells + 1 \in Int /\ s.cells + n \in Int
    BY <1>1
  <2> QED
    BY <2>1, FS_Interval DEF Fresh
<1>4. t.units = s.units /\ t.cells = s.cells + n
  <2> DEFINE m == s.cells + n
  <2>1. t = [unit |-> t.unit, mem |-> t.mem, units |-> s.units, cells |-> m]
    BY DEF Refills
  <2> HIDE DEF m
  <2>2. t.units = s.units /\ t.cells = m
    BY <2>1
  <2> QED
    BY <2>2 DEF m
<1>5. Shape(t)
  <2>1. DOMAIN t.mem \subseteq 1..t.cells /\ t.cells \in Nat
    <3>1. Fresh(s, n) \subseteq 1..t.cells
      BY <1>1, <1>4 DEF Fresh
    <3>2. DOMAIN s.mem \subseteq 1..t.cells /\ t.cells \in Nat
      BY <1>1, <1>4
    <3>3. DOMAIN t.mem = DOMAIN s.mem \cup Fresh(s, n)
      BY DEF Refills
    <3> QED
      BY <3>1, <3>2, <3>3
  <2>2. DOMAIN t.unit \subseteq 1..t.units /\ t.units \in Nat
    BY <1>1, <1>4 DEF Refills
  <2>3. \A b \in DOMAIN t.unit : WellUnit(t.unit[b])
    BY DEF Refills
  <2>4. t = [unit |-> t.unit, mem |-> t.mem, units |-> t.units, cells |-> t.cells]
    <3> DEFINE m == s.cells + n
    <3>1. t = [unit |-> t.unit, mem |-> t.mem, units |-> s.units, cells |-> m]
      BY DEF Refills
    <3>2. t.units = s.units /\ t.cells = m
      BY <1>4
    <3> HIDE DEF m
    <3> QED
      BY <3>1, <3>2
  <2>5. t.unit = [b \in DOMAIN t.unit |-> t.unit[b]] /\ t.mem = [c \in DOMAIN t.mem |-> t.mem[c]]
    BY DEF Refills
  <2> QED
    BY <2>1, <2>2, <2>3, <2>4, <2>5 DEF Shape
<1>6. ASSUME NEW b \in DOMAIN t.unit
      PROVE  /\ b \in DOMAIN s.unit
             /\ b # v => Cells(t.unit[b]) = Cells(s.unit[b])
             /\ Separate(t.unit[b].type, t.unit[b].val)
             /\ Cells(t.unit[b]) \subseteq DOMAIN s.mem \cup Fresh(s, n)
  <2>1. b \in DOMAIN s.unit /\ t.unit[b].type = s.unit[b].type
        /\ (b # v => t.unit[b].val = s.unit[b].val)
    BY DEF Refills
  <2>2. CASE b = v
    BY <2>1, <2>2 DEF Refills
  <2>3. CASE b # v
    <3>1. Cells(t.unit[b]) = Cells(s.unit[b])
      BY <2>1, <2>3, SameContents
    <3>2. Separate(t.unit[b].type, t.unit[b].val)
      BY <2>1, <2>3 DEF Owned
    <3>3. Cells(s.unit[b]) \subseteq DOMAIN s.mem
      BY <2>1 DEF Owned
    <3> QED
      BY <2>1, <2>3, <3>1, <3>2, <3>3
  <2> QED
    BY <2>2, <2>3
<1>8. \A b \in DOMAIN t.unit : Cells(t.unit[b]) \subseteq DOMAIN t.mem
  <2>1. DOMAIN t.mem = DOMAIN s.mem \cup Fresh(s, n)
    BY DEF Refills
  <2> QED
    BY <1>6, <2>1
<1>9. \A b, d \in DOMAIN t.unit : b # d => Cells(t.unit[b]) \cap Cells(t.unit[d]) = {}
  <2> SUFFICES ASSUME NEW b \in DOMAIN t.unit, NEW d \in DOMAIN t.unit, b # d
               PROVE  Cells(t.unit[b]) \cap Cells(t.unit[d]) = {}
    OBVIOUS
  <2>1. b \in DOMAIN s.unit /\ d \in DOMAIN s.unit
    BY <1>6
  <2>2. CASE b = v
    <3>1. Cells(t.unit[d]) = Cells(s.unit[d])
      BY <1>6, <2>2
    <3>2. Cells(t.unit[v]) \cap Cells(s.unit[d]) = {}
      BY <2>1, <2>2 DEF Refills
    <3> QED
      BY <2>2, <3>1, <3>2
  <2>3. CASE d = v
    <3>1. Cells(t.unit[b]) = Cells(s.unit[b])
      BY <1>6, <2>3
    <3>2. Cells(t.unit[v]) \cap Cells(s.unit[b]) = {}
      BY <2>1, <2>3 DEF Refills
    <3> QED
      BY <2>3, <3>1, <3>2
  <2>4. CASE b # v /\ d # v
    BY <1>6, <2>1, <2>4 DEF Owned
  <2> QED
    BY <2>2, <2>3, <2>4
<1>10. Owned(t)
  BY <1>6, <1>8, <1>9 DEF Owned
<1> QED
  BY <1>2, <1>3, <1>5, <1>10

LEMMA RefillHeld ==
  ASSUME NEW s, Shape(s), Owned(s), NEW t, NEW v, NEW n, Refills(s, t, v, n), NEW b
  PROVE  /\ HeldInside(t, b) = HeldInside(s, b) + InCells(t, Fresh(s, n), b)
         /\ HeldInside(t, b) \in Nat /\ HeldInside(s, b) \in Nat
         /\ InCells(t, Fresh(s, n), b) \in Nat
<1> DEFINE M == DOMAIN s.mem
           F == Fresh(s, n)
           U == DOMAIN s.unit
<1>1. Shape(t) /\ Owned(t) /\ M \cap F = {} /\ IsFiniteSet(F)
  BY RefillShape
<1>2. DOMAIN t.mem = M \cup F /\ \A c \in M : t.mem[c] = s.mem[c]
  BY DEF Refills
<1>3. IsFiniteSet(M) /\ IsFiniteSet(M \cup F)
  <2>1. IsFiniteSet(M)
    BY Bounded
  <2> HIDE DEF M, F
  <2> QED
    BY <1>1, <2>1, FS_Union
<1>4. InCells(t, M \cup F, b) = InCells(s, M, b) + InCells(t, F, b)
  <2> HIDE DEF M, F
  <2>1. F \in SUBSET (M \cup F) /\ (M \cup F) \ F = M
    BY <1>1
  <2> DEFINE A == M \cup F
  <2>2. IsFiniteSet(A) /\ F \in SUBSET A /\ A \ F = M
    BY <1>3, <2>1
  <2> HIDE DEF A
  <2>3. InCells(t, A, b) = InCells(t, F, b) + InCells(t, A \ F, b)
    BY <2>2, InCellsSplit
  <2>4. InCells(t, A, b) = InCells(t, F, b) + InCells(t, M, b)
    BY <2>2, <2>3
  <2>5. InCells(t, M, b) = InCells(s, M, b)
    BY <1>2, InCellsSame
  <2>6. InCells(t, F, b) \in Nat /\ InCells(s, M, b) \in Nat
    BY <1>1, <1>3, InCellsNat
  <2>7. InCells(t, A, b) = InCells(s, M, b) + InCells(t, F, b)
    BY <2>4, <2>5, <2>6
  <2> QED
    BY <2>7 DEF A
<1>5. InUnits(t, U, b) = InUnits(s, U, b)
  <2>1. \A d \in U : Direct(t.unit[d]) = Direct(s.unit[d])
    <3> TAKE d \in U
    <3>1. t.unit[d].type = s.unit[d].type
          /\ (d # v => t.unit[d].val = s.unit[d].val)
          /\ (d = v => s.unit[d].type # "function")
      BY DEF Refills
    <3>2. CASE d = v
      BY <3>1, <3>2 DEF Direct
    <3>3. CASE d # v
      BY <3>1, <3>3, SameContents
    <3> QED
      BY <3>2, <3>3
  <2> HIDE DEF U
  <2> QED
    BY <2>1, InUnitsSame
<1>6. DOMAIN t.unit = U
  BY DEF Refills
<1>7. /\ HeldInside(s, b) = InCells(s, M, b) + InUnits(s, U, b)
      /\ HeldInside(s, b) \in Nat /\ InCells(s, M, b) \in Nat /\ InUnits(s, U, b) \in Nat
  BY HeldNat
<1>8. /\ HeldInside(t, b) = InCells(t, M \cup F, b) + InUnits(t, U, b)
      /\ HeldInside(t, b) \in Nat
  <2>1. /\ HeldInside(t, b) = InCells(t, DOMAIN t.mem, b) + InUnits(t, DOMAIN t.unit, b)
        /\ HeldInside(t, b) \in Nat
    BY <1>1, HeldNat
  <2> HIDE DEF M, F, U
  <2> QED
    BY <1>2, <1>6, <2>1
<1>9. InCells(t, F, b) \in Nat
  BY <1>1, InCellsNat
<1> DEFINE x == HeldInside(t, b)
           y == HeldInside(s, b)
           z == InCells(t, F, b)
           k == InCells(s, M, b)
           j == InUnits(s, U, b)
<1>10. x = (k + z) + j /\ y = k + j /\ k \in Nat /\ j \in Nat /\ z \in Nat
  BY <1>4, <1>5, <1>7, <1>8, <1>9
<1>11. x = y + z
  <2> HIDE DEF x, y, z, k, j
  <2> QED
    BY <1>10
<1> QED
  BY <1>7, <1>8, <1>9, <1>11

LEMMA RefillSound ==
  ASSUME NEW s, NEW refs, NEW account, Sound(s, refs, account),
         NEW t, NEW v, NEW n, Refills(s, t, v, n),
         NEW owned, Covered(s, t, n, refs, owned),
         NEW after, Rescoped(t, v, account, after)
  PROVE  Sound(t, owned, after)
<1>1. Shape(s) /\ Owned(s) /\ Counted(s, refs) /\ Valid(s, refs) /\ Typed(s, account)
      /\ refs \in [Int -> Int]
  BY DEF Sound
<1>2. Shape(t) /\ Owned(t)
  BY <1>1, RefillShape
<1>3. DOMAIN t.unit = DOMAIN s.unit /\ DOMAIN t.mem = DOMAIN s.mem \cup Fresh(s, n)
  BY DEF Refills
<1>4. DOMAIN s.unit \subseteq Int
  <2>1. DOMAIN s.unit \subseteq 1..s.units
    BY <1>1 DEF Shape
  <2> QED
    BY <2>1
<1>5. Counted(t, owned)
  <2> SUFFICES ASSUME NEW b \in DOMAIN s.unit PROVE t.unit[b].cnt >= owned[b] + HeldInside(t, b)
    BY <1>3 DEF Counted
  <2> DEFINE x == HeldInside(t, b)
             y == HeldInside(s, b)
             z == InCells(t, Fresh(s, n), b)
             before == s.unit[b].cnt
             now == t.unit[b].cnt
  <2>1. x = y + z /\ x \in Nat /\ y \in Nat /\ z \in Nat
    BY <1>1, RefillHeld
  <2>2. before \in Nat /\ now \in Nat
    BY <1>1, <1>2, <1>3 DEF Shape, WellUnit
  <2>3. owned[b] \in Int /\ refs[b] \in Int
    BY <1>1, <1>4 DEF Covered
  <2>4. owned[b] + z + before <= refs[b] + now
    BY DEF Covered
  <2>5. before >= refs[b] + y
    BY <1>1 DEF Counted
  <2> HIDE DEF x, y, z, before, now
  <2>6. now >= owned[b] + x
    BY <2>1, <2>2, <2>3, <2>4, <2>5
  <2> QED
    BY <2>6 DEF now, x
<1>6. \A d \in DOMAIN s.unit :
        /\ t.unit[d].type = s.unit[d].type
        /\ s.unit[d].type = "function" => t.unit[d].val = s.unit[d].val
        /\ d # v => t.unit[d].val = s.unit[d].val
        /\ Direct(t.unit[d]) = Direct(s.unit[d])
  <2> TAKE d \in DOMAIN s.unit
  <2>1. t.unit[d].type = s.unit[d].type
        /\ (d # v => t.unit[d].val = s.unit[d].val)
        /\ (d = v => s.unit[d].type # "function")
    BY DEF Refills
  <2>2. CASE d = v
    BY <2>1, <2>2 DEF Direct
  <2>3. CASE d # v
    BY <2>1, <2>3, SameContents
  <2> QED
    BY <2>2, <2>3
<1>7. Valid(t, owned)
  <2>1. \A a \in Int : owned[a] > 0 => a \in DOMAIN t.unit \cup {None}
    BY <1>3 DEF Covered
  <2>2. ASSUME NEW c \in DOMAIN t.mem PROVE t.mem[c] \in DOMAIN t.unit \cup {None}
    <3>1. CASE c \in DOMAIN s.mem
      <4>1. t.mem[c] = s.mem[c]
        BY <3>1 DEF Refills
      <4>2. s.mem[c] \in DOMAIN s.unit \cup {None}
        BY <1>1, <3>1 DEF Valid
      <4> QED
        BY <1>3, <4>1, <4>2
    <3>2. CASE c \in Fresh(s, n)
      BY <1>3, <3>2 DEF Refills
    <3> QED
      BY <1>3, <3>1, <3>2
  <2>3. \A b \in DOMAIN t.unit : \A i \in DOMAIN Direct(t.unit[b]) :
          Direct(t.unit[b])[i] \in DOMAIN t.unit \cup {None}
    BY <1>1, <1>3, <1>6 DEF Valid
  <2> QED
    BY <2>1, <2>2, <2>3 DEF Valid
<1>8. Typed(t, after)
  <2>1. t.units = s.units
    <3> DEFINE m == s.cells + n
    <3>1. t = [unit |-> t.unit, mem |-> t.mem, units |-> s.units, cells |-> m]
      BY DEF Refills
    <3> HIDE DEF m
    <3> QED
      BY <3>1
  <2>2. /\ after.scopes \in [Int -> Nat]
        /\ after.kind = account.kind /\ after.open = account.open
        /\ \A a \in Int : a # v => after.scopes[a] = account.scopes[a]
        /\ v \notin DOMAIN s.unit => after = account
    BY <1>3 DEF Rescoped
  <2>3. DOMAIN after.kind \subseteq 1..t.units
    BY <1>1, <2>1, <2>2 DEF Typed
  <2>4. \A b \in DOMAIN t.unit : b \in DOMAIN after.kind => t.unit[b].type = after.kind[b]
    BY <1>1, <1>3, <1>6, <2>2 DEF Typed
  <2>5. ASSUME NEW b \in DOMAIN t.unit, t.unit[b].type = "closure"
        PROVE  Len(t.unit[b].val) >= 1 + after.scopes[b]
    <3>1. CASE b = v
      BY <1>3, <2>5, <3>1 DEF Rescoped
    <3>2. CASE b # v
      <4>1. after.scopes[b] = account.scopes[b]
        BY <1>3, <1>4, <2>2, <3>2
      <4>2. Len(s.unit[b].val) >= 1 + account.scopes[b]
        BY <1>1, <1>3, <1>6, <2>5 DEF Typed
      <4> QED
        BY <1>3, <1>6, <3>2, <4>1, <4>2
    <3> QED
      BY <3>1, <3>2
  <2>6. \A a \in Int : a > t.units => after.scopes[a] = 0
    <3> TAKE a \in Int
    <3>1. a > s.units => account.scopes[a] = 0
      BY <1>1 DEF Typed
    <3>2. CASE v \in DOMAIN s.unit
      <4>1. v \in 1..s.units /\ s.units \in Nat
        BY <1>1, <3>2 DEF Shape
      <4>2. a > s.units => a # v
        BY <4>1
      <4> QED
        BY <2>1, <2>2, <3>1, <4>2
    <3>3. CASE v \notin DOMAIN s.unit
      BY <2>1, <2>2, <3>1, <3>3
    <3> QED
      BY <3>2, <3>3
  <2>7. ASSUME NEW b \in DOMAIN t.unit, t.unit[b].type = "function"
        PROVE  \/ t.unit[b].val.closure \in DOMAIN t.unit /\ t.unit[t.unit[b].val.closure].type = "closure"
               \/ t.unit[b].val.closure = None /\ b \in after.open
    <3>1. b \in DOMAIN s.unit /\ s.unit[b].type = "function" /\ t.unit[b].val = s.unit[b].val
      BY <1>3, <1>6, <2>7
    <3>2. \/ s.unit[b].val.closure \in DOMAIN s.unit /\ s.unit[s.unit[b].val.closure].type = "closure"
          \/ s.unit[b].val.closure = None /\ b \in account.open
      BY <1>1, <3>1 DEF Typed
    <3> QED
      BY <1>3, <1>6, <2>2, <3>1, <3>2
  <2> QED
    BY <2>2, <2>3, <2>4, <2>5, <2>6, <2>7 DEF Typed
<1>9. owned \in [Int -> Int]
  BY DEF Covered
<1> QED
  BY <1>2, <1>5, <1>7, <1>8, <1>9 DEF Sound

(* The same scopes: contents that are those of no closure, or as long.      *)
LEMMA RefillKeeps ==
  ASSUME NEW s, NEW refs, NEW account, Sound(s, refs, account),
         NEW t, NEW v, NEW n, Refills(s, t, v, n),
         NEW owned, Covered(s, t, n, refs, owned),
         v \in DOMAIN s.unit /\ s.unit[v].type = "closure" =>
           /\ Len(s.unit[v].val) \in Int /\ Len(t.unit[v].val) \in Int
           /\ Len(t.unit[v].val) >= Len(s.unit[v].val)
  PROVE  Sound(t, owned, account)
<1>1. Typed(s, account) /\ Shape(s)
  BY DEF Sound
<1>2. Rescoped(t, v, account, account)
  <2>1. account.scopes \in [Int -> Nat]
    BY <1>1 DEF Typed
  <2>2. ASSUME v \in DOMAIN t.unit, t.unit[v].type = "closure"
        PROVE  Len(t.unit[v].val) >= 1 + account.scopes[v]
    <3>1. v \in DOMAIN s.unit /\ s.unit[v].type = "closure"
      BY <2>2 DEF Refills
    <3>2. v \in Int
      <4>1. v \in 1..s.units
        BY <1>1, <3>1 DEF Shape
      <4> QED
        BY <4>1
    <3>3. account.scopes[v] \in Nat
      BY <2>1, <3>2
    <3>4. Len(s.unit[v].val) >= 1 + account.scopes[v]
      BY <1>1, <3>1 DEF Typed
    <3> DEFINE x == Len(s.unit[v].val)
               y == Len(t.unit[v].val)
    <3>5. x \in Int /\ y \in Int /\ y >= x /\ x >= 1 + account.scopes[v]
      BY <3>1, <3>4
    <3> HIDE DEF x, y
    <3>6. y >= 1 + account.scopes[v]
      BY <3>3, <3>5
    <3> QED
      BY <3>6 DEF y
  <2> QED
    BY <2>1, <2>2 DEF Rescoped
<1> QED
  BY <1>2, RefillSound

-----------------------------------------------------------------------------
(* References.                                                              *)

More(refs, addrs) == [a \in Int |-> refs[a] + Count(addrs, a)]

LEMMA MoreFewer ==
  ASSUME NEW refs \in [Int -> Int], NEW addrs, IsSeq(addrs)
  PROVE  /\ More(refs, addrs) \in [Int -> Int]
         /\ Fewer(refs, addrs) \in [Int -> Int]
         /\ \A a \in Int : /\ More(refs, addrs)[a] = refs[a] + Count(addrs, a)
                           /\ Fewer(refs, addrs)[a] = refs[a] - Count(addrs, a)
                           /\ Count(addrs, a) \in Nat
<1>1. \A a \in Int : Count(addrs, a) \in Nat
  BY CountNat
<1> QED
  BY <1>1 DEF More, Fewer

LEMMA MoreFewerOne ==
  ASSUME NEW refs \in [Int -> Int], NEW x
  PROVE  /\ More(refs, <<x>>) \in [Int -> Int]
         /\ Fewer(refs, <<x>>) \in [Int -> Int]
         /\ \A a \in Int : /\ More(refs, <<x>>)[a] = refs[a] + (IF x = a THEN 1 ELSE 0)
                           /\ Fewer(refs, <<x>>)[a] = refs[a] - (IF x = a THEN 1 ELSE 0)
<1> DEFINE q == <<x>>
<1>1. IsSeq(q) /\ \A a : Count(q, a) = IF x = a THEN 1 ELSE 0
  BY TupleSeq, CountTwo
<1> HIDE DEF q
<1>2. /\ More(refs, q) \in [Int -> Int]
      /\ Fewer(refs, q) \in [Int -> Int]
      /\ \A a \in Int : /\ More(refs, q)[a] = refs[a] + Count(q, a)
                        /\ Fewer(refs, q)[a] = refs[a] - Count(q, a)
  BY <1>1, MoreFewer
<1>3. /\ More(refs, q) \in [Int -> Int]
      /\ Fewer(refs, q) \in [Int -> Int]
      /\ \A a \in Int : /\ More(refs, q)[a] = refs[a] + (IF x = a THEN 1 ELSE 0)
                        /\ Fewer(refs, q)[a] = refs[a] - (IF x = a THEN 1 ELSE 0)
  BY <1>1, <1>2
<1> QED
  BY <1>3 DEF q

Held(s) == DOMAIN s.unit \cup {None}

LEMMA Addresses ==
  ASSUME NEW s, NEW refs, NEW account, Sound(s, refs, account)
  PROVE  /\ refs \in [Int -> Int]
         /\ DOMAIN s.unit \subseteq Nat /\ DOMAIN s.unit \subseteq Int /\ None \in Int
         /\ None \notin DOMAIN s.unit
         /\ Held(s) \subseteq Int
         /\ DOMAIN s.mem \subseteq Nat
         /\ NextUnit(s) \notin DOMAIN s.unit /\ NextUnit(s) \in Nat /\ NextUnit(s) # None
         /\ NextCell(s) \notin DOMAIN s.mem /\ NextCell(s) \in Nat
<1>1. /\ s.units \in Nat /\ s.cells \in Nat
      /\ DOMAIN s.unit \subseteq 1..s.units
      /\ DOMAIN s.mem \subseteq 1..s.cells
      /\ refs \in [Int -> Int]
  BY DEF Sound, Shape
<1> QED
  BY <1>1 DEF NextUnit, NextCell, None, Held

LEMMA FreshNone ==
  ASSUME NEW s, Shape(s), NEW t, NEW b
  PROVE  Fresh(s, 0) = {} /\ InCells(t, Fresh(s, 0), b) = 0
<1>1. s.cells \in Nat
  BY DEF Shape
<1>2. Fresh(s, 0) = {}
  BY <1>1 DEF Fresh
<1>3. InCells(t, {}, b) = 0
  BY InCellsNone
<1> QED
  BY <1>2, <1>3

(* A user that owns less.                                                   *)
LEMMA Weaker ==
  ASSUME NEW s, NEW refs, NEW account, Sound(s, refs, account),
         NEW owned \in [Int -> Int],
         \A a \in Int : a # None /\ owned[a] > 0 => owned[a] <= refs[a],
         \A a \in DOMAIN s.unit : owned[a] <= refs[a]
  PROVE  Sound(s, owned, account)
<1>1. Shape(s) /\ Owned(s) /\ Counted(s, refs) /\ Valid(s, refs) /\ Typed(s, account)
      /\ refs \in [Int -> Int]
  BY DEF Sound
<1>2. Counted(s, owned)
  <2> SUFFICES ASSUME NEW b \in DOMAIN s.unit PROVE s.unit[b].cnt >= owned[b] + HeldInside(s, b)
    BY DEF Counted
  <2>1. b \in Int
    BY Addresses
  <2> DEFINE x == s.unit[b].cnt
             y == HeldInside(s, b)
  <2>2. x \in Nat /\ y \in Nat
    BY <1>1, HeldNat DEF Shape, WellUnit
  <2>3. x >= refs[b] + y /\ owned[b] <= refs[b] /\ owned[b] \in Int /\ refs[b] \in Int
    BY <1>1, <2>1 DEF Counted
  <2> HIDE DEF x, y
  <2>4. x >= owned[b] + y
    BY <2>2, <2>3
  <2> QED
    BY <2>4 DEF x, y
<1>3. \A a \in Int : a # None /\ owned[a] > 0 => refs[a] > 0
  <2> TAKE a \in Int
  <2>1. owned[a] \in Int /\ refs[a] \in Int
    BY <1>1
  <2>2. a # None /\ owned[a] > 0 => owned[a] <= refs[a]
    OBVIOUS
  <2> QED
    BY <2>1, <2>2
<1>4. Valid(s, owned)
  BY <1>1, <1>3 DEF Valid
<1> QED
  BY <1>1, <1>2, <1>4 DEF Sound

LEMMA ReferenceSound ==
  ASSUME NEW s, NEW refs, NEW account, Sound(s, refs, account), NEW a \in Held(s)
  PROVE  Sound(add_reference(s, a), More(refs, <<a>>), account)
<1> DEFINE t == add_reference(s, a)
           owned == More(refs, <<a>>)
<1>1. Shape(s) /\ Owned(s) /\ Counted(s, refs) /\ Valid(s, refs) /\ refs \in [Int -> Int]
  BY DEF Sound
<1>3. owned \in [Int -> Int] /\ \A b \in Int : owned[b] = refs[b] + (IF a = b THEN 1 ELSE 0)
  BY <1>1, MoreFewerOne
<1> HIDE DEF owned
<1>4. DOMAIN s.unit \subseteq Int /\ None \notin DOMAIN s.unit
  BY Addresses
<1>5. s = [unit |-> s.unit, mem |-> s.mem, units |-> s.units, cells |-> s.cells]
      /\ s.unit = [b \in DOMAIN s.unit |-> s.unit[b]]
      /\ s.mem = [c \in DOMAIN s.mem |-> s.mem[c]]
      /\ s.cells \in Nat
      /\ \A b \in DOMAIN s.unit : WellUnit(s.unit[b])
  BY <1>1 DEF Shape
<1>6. /\ t = [unit |-> t.unit, mem |-> s.mem, units |-> s.units, cells |-> s.cells]
      /\ DOMAIN t.unit = DOMAIN s.unit /\ t.unit = [b \in DOMAIN s.unit |-> t.unit[b]]
      /\ \A b \in DOMAIN s.unit :
           t.unit[b] = IF a = b THEN [s.unit[b] EXCEPT !.cnt = @ + 1] ELSE s.unit[b]
  <2>1. CASE a \in DOMAIN s.unit
    <3>1. t = [s EXCEPT !.unit[a].cnt = @ + 1]
      BY <2>1 DEF add_reference, Live
    <3> HIDE DEF t
    <3> QED
      BY <1>5, <2>1, <3>1
  <2>2. CASE a \notin DOMAIN s.unit
    <3>1. t = s
      BY <2>2 DEF add_reference, Live
    <3> HIDE DEF t
    <3> QED
      BY <1>5, <2>2, <3>1
  <2> QED
    BY <2>1, <2>2
<1> HIDE DEF t
<1>7. \A b \in DOMAIN s.unit : /\ WellUnit(t.unit[b])
                               /\ t.unit[b].type = s.unit[b].type
                               /\ t.unit[b].val = s.unit[b].val
                               /\ t.unit[b].cnt = s.unit[b].cnt + (IF a = b THEN 1 ELSE 0)
  <2> TAKE b \in DOMAIN s.unit
  <2> DEFINE u == s.unit[b]
             w == t.unit[b]
  <2>1. /\ u = [type |-> u.type, cnt |-> u.cnt, val |-> u.val] /\ u.cnt \in Nat
        /\ WellVal(u.type, u.val)
    BY <1>5 DEF WellUnit
  <2>2. w = IF a = b THEN [u EXCEPT !.cnt = @ + 1] ELSE u
    BY <1>6
  <2> HIDE DEF u, w
  <2>3. w = [type |-> u.type, cnt |-> u.cnt + (IF a = b THEN 1 ELSE 0), val |-> u.val]
    BY <2>1, <2>2
  <2>4. w.type = u.type /\ w.val = u.val /\ w.cnt = u.cnt + (IF a = b THEN 1 ELSE 0)
    BY <2>3
  <2>5. w.cnt \in Nat
    BY <2>1, <2>4
  <2>6. WellUnit(w)
    BY <2>1, <2>3, <2>4, <2>5 DEF WellUnit
  <2> QED
    BY <2>4, <2>6 DEF u, w
<1>8. Fresh(s, 0) = {}
  BY <1>1, FreshNone
<1>9. Refills(s, t, None, 0)
  <2>1. t = [unit |-> t.unit, mem |-> t.mem, units |-> s.units, cells |-> s.cells + 0]
        /\ t.mem = s.mem
    BY <1>5, <1>6
  <2> QED
    BY <1>4, <1>5, <1>6, <1>7, <1>8, <2>1 DEF Refills
<1>10. Covered(s, t, 0, refs, owned)
  <2>1. ASSUME NEW b \in DOMAIN s.unit
        PROVE  owned[b] + InCells(t, Fresh(s, 0), b) + s.unit[b].cnt <= refs[b] + t.unit[b].cnt
    <3> DEFINE x == s.unit[b].cnt
               y == t.unit[b].cnt
               z == InCells(t, Fresh(s, 0), b)
    <3>1. x \in Nat /\ y = x + (IF a = b THEN 1 ELSE 0) /\ z = 0
      <4>1. x \in Nat /\ y = x + (IF a = b THEN 1 ELSE 0)
        BY <1>5, <1>7 DEF WellUnit
      <4>2. z = 0
        BY <1>1, FreshNone
      <4> QED
        BY <4>1, <4>2
    <3>2. refs[b] \in Int /\ owned[b] = refs[b] + (IF a = b THEN 1 ELSE 0)
      BY <1>1, <1>3, <1>4
    <3> HIDE DEF x, y, z
    <3>3. owned[b] + z + x <= refs[b] + y
      BY <3>1, <3>2
    <3> QED
      BY <3>3 DEF x, y, z
  <2>2. ASSUME NEW b \in Int, owned[b] > 0 PROVE b \in DOMAIN s.unit \cup {None}
    <3>1. CASE a = b
      BY <3>1 DEF Held
    <3>2. CASE a # b
      <4>1. owned[b] = refs[b]
        BY <1>1, <1>3, <3>2
      <4> QED
        BY <1>1, <2>2, <4>1 DEF Valid
    <3> QED
      BY <3>1, <3>2
  <2> QED
    BY <1>3, <2>1, <2>2 DEF Covered
<1> QED
  BY <1>4, <1>9, <1>10, RefillKeeps DEF t, owned

-----------------------------------------------------------------------------
(* A release.                                                               *)

(* What it leaves is as it was.                                             *)
Kept(s, r) ==
  /\ r.units = s.units /\ r.cells = s.cells
  /\ DOMAIN r.unit \subseteq DOMAIN s.unit
  /\ \A b \in DOMAIN r.unit : r.unit[b].type = s.unit[b].type /\ r.unit[b].val = s.unit[b].val
  /\ DOMAIN r.mem \subseteq DOMAIN s.mem
  /\ \A c \in DOMAIN r.mem : r.mem[c] = s.mem[c]

LEMMA LeftKept ==
  ASSUME NEW s, Shape(s), Owned(s), NEW addrs, IsSeq(addrs), NEW cells \in SUBSET DOMAIN s.mem,
         NEW dead, Closing(s, addrs, cells, dead),
         NEW r, r = Left(s, addrs, cells, dead)
  PROVE  /\ Kept(s, r)
         /\ DOMAIN r.unit = DOMAIN s.unit \ dead
         /\ DOMAIN r.mem \cap cells = {}
<1>1. LeftIs(s, addrs, cells, dead, r)
  BY LeftFacts
<1>2. r.units = s.units /\ r.cells = s.cells
  BY <1>1 DEF LeftIs
<1> QED
  BY <1>1, <1>2 DEF LeftIs, Kept

LEMMA ReleasedSound ==
  ASSUME NEW s, NEW refs, NEW account, Sound(s, refs, account),
         NEW addrs, IsSeq(addrs), \A b \in DOMAIN s.unit : Count(addrs, b) <= refs[b],
         NEW cells \in SUBSET DOMAIN s.mem,
         \A b \in DOMAIN s.unit : Cells(s.unit[b]) \cap cells = {},
         NEW r, r = Released(s, addrs, cells)
  PROVE  Sound(r, Fewer(refs, addrs), account) /\ Kept(s, r) /\ DOMAIN r.mem \cap cells = {}
<1>1. Shape(s) /\ Owned(s)
  BY DEF Sound
<1>2. PICK dead : Closing(s, addrs, cells, dead) /\ r = Left(s, addrs, cells, dead)
  BY <1>1, ReleasedLeft
<1>3. \A b \in dead : Count(addrs, b) <= refs[b]
  BY <1>2 DEF Closing
<1>4. Sound(r, Fewer(refs, addrs), account)
  BY <1>2, <1>3, LeftSound
<1>5. Kept(s, r)
  BY <1>1, <1>2, LeftKept
<1>6. DOMAIN r.mem \cap cells = {}
  BY <1>1, <1>2, LeftKept
<1> QED
  BY <1>4, <1>5, <1>6

LEMMA DelAllSound ==
  ASSUME NEW s, NEW refs, NEW account, Sound(s, refs, account),
         NEW addrs, IsSeq(addrs), \A b \in DOMAIN s.unit : Count(addrs, b) <= refs[b]
  PROVE  Sound(DelAll(s, addrs), Fewer(refs, addrs), account) /\ Kept(s, DelAll(s, addrs))
<1>1. \A b \in DOMAIN s.unit : Cells(s.unit[b]) \cap {} = {}
  OBVIOUS
<1>2. DelAll(s, addrs) = Released(s, addrs, {}) /\ {} \in SUBSET DOMAIN s.mem
  BY DEF DelAll
<1> QED
  BY <1>1, <1>2, ReleasedSound

LEMMA DelSound ==
  ASSUME NEW s, NEW refs, NEW account, Sound(s, refs, account),
         NEW a, a \in DOMAIN s.unit => refs[a] > 0,
         \A b \in DOMAIN s.unit : b # a => refs[b] >= 0
  PROVE  Sound(del_reference(s, a), Fewer(refs, <<a>>), account) /\ Kept(s, del_reference(s, a))
<1> DEFINE q == <<a>>
<1>1. IsSeq(q) /\ \A b : Count(q, b) = IF a = b THEN 1 ELSE 0
  BY TupleSeq, CountTwo
<1>2. del_reference(s, a) = DelAll(s, q)
  BY DEF del_reference
<1> HIDE DEF q
<1>3. \A b \in DOMAIN s.unit : Count(q, b) <= refs[b]
  <2> TAKE b \in DOMAIN s.unit
  <2>1. refs[b] \in Int
    BY Addresses
  <2> QED
    BY <1>1, <2>1
<1>4. Sound(DelAll(s, q), Fewer(refs, q), account) /\ Kept(s, DelAll(s, q))
  BY <1>1, <1>3, DelAllSound
<1> QED
  BY <1>2, <1>4 DEF q

-----------------------------------------------------------------------------
(* A release of cells of a unit, which gets other contents without them.    *)

SetVal(s, v, val) == [s EXCEPT !.unit[v].val = val]

SetValIs(s, v, val, t) ==
  /\ t = [unit |-> t.unit, mem |-> s.mem, units |-> s.units, cells |-> s.cells]
  /\ DOMAIN t.unit = DOMAIN s.unit
  /\ t.unit = [b \in DOMAIN t.unit |-> t.unit[b]]
  /\ \A b \in DOMAIN s.unit : b # v => t.unit[b] = s.unit[b]
  /\ t.unit[v] = [type |-> s.unit[v].type, cnt |-> s.unit[v].cnt, val |-> val]

IsStore(s) ==
  /\ s = [unit |-> s.unit, mem |-> s.mem, units |-> s.units, cells |-> s.cells]
  /\ s.unit = [b \in DOMAIN s.unit |-> s.unit[b]]
IsUnit(u) == u = [type |-> u.type, cnt |-> u.cnt, val |-> u.val]

LEMMA ShapeStore ==
  ASSUME NEW s, Shape(s)
  PROVE  IsStore(s) /\ \A b \in DOMAIN s.unit : IsUnit(s.unit[b])
BY DEF Shape, IsStore, WellUnit, IsUnit

LEMMA SetValFacts ==
  ASSUME NEW s, IsStore(s), NEW v \in DOMAIN s.unit, IsUnit(s.unit[v]),
         NEW val, NEW t, t = SetVal(s, v, val)
  PROVE  SetValIs(s, v, val, t)
<1> DEFINE u == s.unit[v]
           f == [s.unit EXCEPT ![v].val = val]
<1>1. t = [unit |-> f, mem |-> s.mem, units |-> s.units, cells |-> s.cells]
  <2> HIDE DEF u
  <2> QED
    BY DEF SetVal, IsStore
<1>2. f[v] = [u EXCEPT !.val = val]
  BY DEF IsStore
<1>3. [u EXCEPT !.val = val] = [type |-> u.type, cnt |-> u.cnt, val |-> val]
  <2> HIDE DEF u
  <2> QED
    BY DEF u, IsUnit
<1>4. DOMAIN f = DOMAIN s.unit /\ f = [b \in DOMAIN f |-> f[b]]
      /\ \A b \in DOMAIN s.unit : b # v => f[b] = s.unit[b]
  BY DEF IsStore
<1> HIDE DEF f
<1>5. t.unit = f
  BY <1>1
<1> QED
  BY <1>1, <1>2, <1>3, <1>4, <1>5 DEF u, SetValIs

LEMMA SetValNone ==
  ASSUME NEW s, IsStore(s), NEW v, v \notin DOMAIN s.unit, NEW val
  PROVE  SetVal(s, v, val) = s
BY DEF SetVal, IsStore

(* The contents val suit unit v: well formed, with cells that exist and are *)
(* in no other unit.                                                        *)
Suits(s, v, val) ==
  LET new == [type |-> s.unit[v].type, val |-> val]
  IN /\ v \in DOMAIN s.unit /\ s.unit[v].type # "function"
     /\ WellVal(s.unit[v].type, val)
     /\ Separate(s.unit[v].type, val)
     /\ Cells(new) \subseteq DOMAIN s.mem
     /\ \A b \in DOMAIN s.unit : b # v => Cells(new) \cap Cells(s.unit[b]) = {}

LongEnough(s, v, val, account, after) ==
  /\ after.scopes \in [Int -> Nat]
  /\ \A a \in Int : a # v => after.scopes[a] = account.scopes[a]
  /\ s.unit[v].type = "closure" => Len(val) >= 1 + after.scopes[v]
  /\ after.kind = account.kind /\ after.open = account.open

LEMMA SetValRefills ==
  ASSUME NEW s, Shape(s), Owned(s), NEW v, NEW val, Suits(s, v, val),
         NEW t, t = SetVal(s, v, val)
  PROVE  /\ Refills(s, t, v, 0)
         /\ \A b \in DOMAIN s.unit : t.unit[b].cnt = s.unit[b].cnt
         /\ t.unit[v].val = val
<1>1. s = [unit |-> s.unit, mem |-> s.mem, units |-> s.units, cells |-> s.cells]
      /\ s.unit = [b \in DOMAIN s.unit |-> s.unit[b]]
      /\ s.mem = [c \in DOMAIN s.mem |-> s.mem[c]]
      /\ s.cells \in Nat
      /\ \A b \in DOMAIN s.unit : WellUnit(s.unit[b])
  BY DEF Shape
<1>2. v \in DOMAIN s.unit
  BY DEF Suits
<1>3. s.unit[v].cnt \in Nat
  BY <1>1, <1>2 DEF WellUnit
<1>0. SetValIs(s, v, val, t)
  BY <1>2, ShapeStore, SetValFacts
<1>4. /\ t = [unit |-> t.unit, mem |-> s.mem, units |-> s.units, cells |-> s.cells]
      /\ DOMAIN t.unit = DOMAIN s.unit
      /\ t.unit = [b \in DOMAIN t.unit |-> t.unit[b]]
  BY <1>0 DEF SetValIs
<1>5. \A b \in DOMAIN s.unit : b # v => t.unit[b] = s.unit[b]
  BY <1>0 DEF SetValIs
<1>6. t.unit[v] = [type |-> s.unit[v].type, cnt |-> s.unit[v].cnt, val |-> val]
  BY <1>0 DEF SetValIs
<1>7. t.unit[v].type = s.unit[v].type /\ t.unit[v].val = val /\ t.unit[v].cnt = s.unit[v].cnt
  BY <1>6
<1>8. \A b \in DOMAIN s.unit : /\ WellUnit(t.unit[b])
                               /\ t.unit[b].type = s.unit[b].type
                               /\ t.unit[b].cnt = s.unit[b].cnt
                               /\ b # v => t.unit[b].val = s.unit[b].val
  <2> TAKE b \in DOMAIN s.unit
  <2>1. CASE b = v
    <3>1. WellVal(s.unit[v].type, val)
      BY DEF Suits
    <3>2. WellUnit(t.unit[v])
      BY <1>3, <1>6, <1>7, <3>1 DEF WellUnit
    <3> QED
      BY <1>7, <2>1, <3>2
  <2>2. CASE b # v
    BY <1>1, <1>5, <2>2
  <2> QED
    BY <2>1, <2>2
<1>9. Fresh(s, 0) = {}
  BY FreshNone
<1>10. /\ s.unit[v].type # "function"
       /\ Separate(t.unit[v].type, t.unit[v].val)
       /\ Cells(t.unit[v]) \subseteq DOMAIN s.mem
       /\ \A b \in DOMAIN s.unit : b # v => Cells(t.unit[v]) \cap Cells(s.unit[b]) = {}
  <2> DEFINE new == [type |-> s.unit[v].type, val |-> val]
  <2>1. new.type = s.unit[v].type /\ new.val = val
    OBVIOUS
  <2>2. Cells(t.unit[v]) = Cells(new)
    <3> HIDE DEF new
    <3> QED
      BY <1>7, <2>1, SameContents
  <2>3. /\ s.unit[v].type # "function"
        /\ Separate(s.unit[v].type, val)
        /\ Cells(new) \subseteq DOMAIN s.mem
        /\ \A b \in DOMAIN s.unit : b # v => Cells(new) \cap Cells(s.unit[b]) = {}
    BY DEF Suits
  <2> HIDE DEF new
  <2> QED
    BY <1>7, <2>2, <2>3
<1>11. t = [unit |-> t.unit, mem |-> t.mem, units |-> s.units, cells |-> s.cells + 0]
       /\ t.mem = s.mem
  BY <1>1, <1>4
<1>13. DOMAIN t.mem = DOMAIN s.mem \cup Fresh(s, 0)
       /\ t.mem = [c \in DOMAIN t.mem |-> t.mem[c]]
       /\ \A c \in DOMAIN s.mem : t.mem[c] = s.mem[c]
  BY <1>1, <1>9, <1>11
<1>14. Cells(t.unit[v]) \subseteq DOMAIN s.mem \cup Fresh(s, 0)
  BY <1>10
<1>15. \A c \in Fresh(s, 0) : t.mem[c] \in DOMAIN s.unit \cup {None}
  BY <1>9
<1>16. /\ t = [unit |-> t.unit, mem |-> t.mem, units |-> s.units, cells |-> s.cells + 0]
       /\ DOMAIN t.unit = DOMAIN s.unit
       /\ t.unit = [b \in DOMAIN t.unit |-> t.unit[b]]
  BY <1>4, <1>11
<1>12. Refills(s, t, v, 0)
  BY <1>8, <1>10, <1>13, <1>14, <1>15, <1>16 DEF Refills
<1> QED
  BY <1>7, <1>8, <1>12

LEMMA SetValSound ==
  ASSUME NEW s, NEW refs, NEW account, Sound(s, refs, account),
         NEW v, NEW val, Suits(s, v, val), NEW after, LongEnough(s, v, val, account, after),
         NEW t, t = SetVal(s, v, val)
  PROVE  Sound(t, refs, after)
<1>1. Shape(s) /\ Owned(s) /\ Counted(s, refs) /\ Valid(s, refs) /\ refs \in [Int -> Int]
  BY DEF Sound
<1>2. /\ Refills(s, t, v, 0)
      /\ \A b \in DOMAIN s.unit : t.unit[b].cnt = s.unit[b].cnt
      /\ t.unit[v].val = val
  BY <1>1, SetValRefills
<1>3. Covered(s, t, 0, refs, refs)
  <2>1. ASSUME NEW b \in DOMAIN s.unit
        PROVE  refs[b] + InCells(t, Fresh(s, 0), b) + s.unit[b].cnt <= refs[b] + t.unit[b].cnt
    <3> DEFINE x == s.unit[b].cnt
               z == InCells(t, Fresh(s, 0), b)
    <3>1. x \in Nat
      BY <1>1 DEF Shape, WellUnit
    <3>2. z = 0
      BY <1>1, FreshNone
    <3>3. refs[b] \in Int
      <4>1. b \in Int
        BY Addresses
      <4> QED
        BY <1>1, <4>1
    <3>4. t.unit[b].cnt = x
      BY <1>2
    <3> HIDE DEF x, z
    <3>5. refs[b] + z + x <= refs[b] + x
      BY <3>1, <3>2, <3>3
    <3> QED
      BY <3>4, <3>5 DEF x, z
  <2> QED
    BY <1>1, <2>1 DEF Covered, Valid
<1>4. Rescoped(t, v, account, after)
  <2>1. v \in DOMAIN t.unit /\ t.unit[v].type = s.unit[v].type
    BY <1>2 DEF Refills, Suits
  <2> QED
    BY <1>2, <2>1 DEF Rescoped, LongEnough
<1> QED
  BY <1>2, <1>3, <1>4, RefillSound

(* The cells released are those that the new contents of v lack.            *)
Sheds(s, v, val, cells) ==
  LET new == [type |-> s.unit[v].type, val |-> val]
  IN /\ cells \in SUBSET DOMAIN s.mem
     /\ cells \subseteq Cells(s.unit[v])
     /\ Cells(new) = Cells(s.unit[v]) \ cells

LEMMA ShedsSuits ==
  ASSUME NEW s, Shape(s), Owned(s), NEW v, NEW val, v \in DOMAIN s.unit,
         s.unit[v].type # "function", WellVal(s.unit[v].type, val), Separate(s.unit[v].type, val),
         NEW cells, cells \subseteq Cells(s.unit[v]),
         Cells([type |-> s.unit[v].type, val |-> val]) = Cells(s.unit[v]) \ cells
  PROVE  Suits(s, v, val) /\ Sheds(s, v, val, cells)
<1> DEFINE new == [type |-> s.unit[v].type, val |-> val]
<1>1. Cells(s.unit[v]) \subseteq DOMAIN s.mem
  BY DEF Owned
<1>2. Cells(new) = Cells(s.unit[v]) \ cells
  OBVIOUS
<1> HIDE DEF new
<1>3. ASSUME NEW b \in DOMAIN s.unit, b # v PROVE Cells(new) \cap Cells(s.unit[b]) = {}
  <2>1. Cells(s.unit[v]) \cap Cells(s.unit[b]) = {}
    BY <1>3 DEF Owned
  <2> QED
    BY <1>2, <2>1
<1>4. Cells(new) \subseteq DOMAIN s.mem /\ cells \in SUBSET DOMAIN s.mem
  BY <1>1, <1>2
<1> QED
  BY <1>2, <1>3, <1>4 DEF Suits, Sheds, new

LEMMA ShedLeft ==
  ASSUME NEW s, Shape(s), Owned(s), NEW addrs, IsSeq(addrs), NEW v, NEW val, NEW cells,
         Suits(s, v, val), Sheds(s, v, val, cells), NEW t, t = SetVal(s, v, val)
  PROVE  /\ Shape(t) /\ Owned(t)
         /\ cells \in SUBSET DOMAIN t.mem
         /\ \A b \in DOMAIN t.unit : Cells(t.unit[b]) \cap cells = {}
         /\ \E dead : /\ Closing(t, addrs, cells, dead)
                      /\ SetVal(Released(s, addrs, cells), v, val) = Left(t, addrs, cells, dead)
<1>1. /\ Refills(s, t, v, 0)
      /\ \A b \in DOMAIN s.unit : t.unit[b].cnt = s.unit[b].cnt
      /\ t.unit[v].val = val
  BY SetValRefills
<1>2. Shape(t) /\ Owned(t)
  BY <1>1, RefillShape
<1>3. s = [unit |-> s.unit, mem |-> s.mem, units |-> s.units, cells |-> s.cells]
      /\ s.unit = [b \in DOMAIN s.unit |-> s.unit[b]]
      /\ s.mem = [c \in DOMAIN s.mem |-> s.mem[c]]
      /\ \A b \in DOMAIN s.unit : WellUnit(s.unit[b])
  BY DEF Shape
<1>4. v \in DOMAIN s.unit /\ s.unit[v].type # "function"
  BY DEF Suits
<1>5. SetValIs(s, v, val, t)
  BY <1>4, ShapeStore, SetValFacts
<1>6. /\ t = [unit |-> t.unit, mem |-> s.mem, units |-> s.units, cells |-> s.cells]
      /\ DOMAIN t.unit = DOMAIN s.unit
      /\ t.unit = [b \in DOMAIN t.unit |-> t.unit[b]]
  BY <1>5 DEF SetValIs
<1>7. \A b \in DOMAIN s.unit : b # v => t.unit[b] = s.unit[b]
  BY <1>5 DEF SetValIs
<1>8. t.unit[v] = [type |-> s.unit[v].type, cnt |-> s.unit[v].cnt, val |-> val]
  BY <1>5 DEF SetValIs
<1>9. t.mem = s.mem
  BY <1>6
<1>10. Cells(t.unit[v]) = Cells(s.unit[v]) \ cells /\ cells \subseteq Cells(s.unit[v])
       /\ cells \in SUBSET DOMAIN s.mem
  <2> DEFINE new == [type |-> s.unit[v].type, val |-> val]
  <2>1. new.type = s.unit[v].type /\ new.val = val
        /\ t.unit[v].type = s.unit[v].type /\ t.unit[v].val = val
    BY <1>8
  <2>2. Cells(new) = Cells(s.unit[v]) \ cells /\ cells \subseteq Cells(s.unit[v])
        /\ cells \in SUBSET DOMAIN s.mem
    BY DEF Sheds
  <2> HIDE DEF new
  <2>3. Cells(t.unit[v]) = Cells(new)
    BY <2>1, SameContents
  <2> QED
    BY <2>2, <2>3
<1>11. \A b \in DOMAIN t.unit : Cells(t.unit[b]) \cap cells = {}
  <2> TAKE b \in DOMAIN t.unit
  <2>1. CASE b = v
    BY <1>10, <2>1
  <2>2. CASE b # v
    <3>1. Cells(s.unit[v]) \cap Cells(s.unit[b]) = {} /\ t.unit[b] = s.unit[b]
      BY <1>4, <1>6, <1>7, <2>2 DEF Owned
    <3> QED
      BY <1>10, <3>1
  <2> QED
    BY <2>1, <2>2
<1>12. PICK dead : Closing(s, addrs, cells, dead) /\ Released(s, addrs, cells) = Left(s, addrs, cells, dead)
  BY <1>10, ReleasedLeft
<1>13. cells \cup CellsIn(s, dead) = cells \cup CellsIn(t, dead)
  <2>1. dead \subseteq DOMAIN s.unit
    BY <1>12 DEF Closing
  <2>2. \A b \in dead : cells \cup Cells(s.unit[b]) = cells \cup Cells(t.unit[b])
    <3> TAKE b \in dead
    <3>1. CASE b = v
      BY <1>10, <3>1
    <3>2. CASE b # v
      BY <1>7, <2>1, <3>2
    <3> QED
      BY <3>1, <3>2
  <2> QED
    BY <2>2 DEF CellsIn
<1>14. \A b : GivenBack(s, addrs, cells, dead, b) = GivenBack(t, addrs, cells, dead, b)
  <2> TAKE b
  <2> DEFINE C == cells \cup CellsIn(s, dead)
  <2>1. GivenBack(s, addrs, cells, dead, b) = Count(addrs, b) + InCells(s, C, b) + InUnits(s, dead, b)
    BY DEF GivenBack
  <2>2. GivenBack(t, addrs, cells, dead, b) = Count(addrs, b) + InCells(t, C, b) + InUnits(t, dead, b)
    BY <1>13 DEF GivenBack
  <2>3. InCells(s, C, b) = InCells(t, C, b)
    BY <1>9, InCellsSame
  <2>4. \A d \in dead : Direct(s.unit[d]) = Direct(t.unit[d])
    <3> TAKE d \in dead
    <3>1. CASE d = v
      <4>1. t.unit[v].type = s.unit[v].type
        BY <1>8
      <4> QED
        BY <1>4, <3>1, <4>1 DEF Direct
    <3>2. CASE d # v
      BY <1>7, <1>12, <3>2 DEF Closing
    <3> QED
      BY <3>1, <3>2
  <2>5. InUnits(s, dead, b) = InUnits(t, dead, b)
    BY <2>4, InUnitsSame
  <2> QED
    BY <2>1, <2>2, <2>3, <2>5
<1>15. Closing(t, addrs, cells, dead)
  BY <1>1, <1>6, <1>12, <1>14 DEF Closing
<1>16. SetVal(Released(s, addrs, cells), v, val) = Left(t, addrs, cells, dead)
  <2> DEFINE r == Left(s, addrs, cells, dead)
             l == Left(t, addrs, cells, dead)
             w == SetVal(r, v, val)
  <2>1. LeftIs(s, addrs, cells, dead, r)
    BY <1>10, <1>12, LeftFacts
  <2>2. cells \in SUBSET DOMAIN t.mem
    BY <1>9, <1>10
  <2>3. LeftIs(t, addrs, cells, dead, l)
    BY <1>2, <1>15, <2>2, LeftFacts
  <2> HIDE DEF r, l
  <2>4. l.mem = r.mem
    <3>1. /\ r.mem = [c \in DOMAIN r.mem |-> r.mem[c]] /\ l.mem = [c \in DOMAIN l.mem |-> l.mem[c]]
          /\ DOMAIN r.mem = DOMAIN s.mem \ (cells \cup CellsIn(s, dead))
          /\ DOMAIN l.mem = DOMAIN t.mem \ (cells \cup CellsIn(t, dead))
      BY <2>1, <2>3 DEF LeftIs
    <3>2. DOMAIN r.mem = DOMAIN l.mem
      BY <1>9, <1>13, <3>1
    <3>3. \A c \in DOMAIN r.mem : r.mem[c] = l.mem[c]
      BY <1>9, <2>1, <2>3, <3>2 DEF LeftIs
    <3> QED
      BY <3>1, <3>2, <3>3
  <2>5. /\ r = [unit |-> r.unit, mem |-> r.mem, units |-> s.units, cells |-> s.cells]
        /\ DOMAIN r.unit = DOMAIN s.unit \ dead
        /\ r.unit = [b \in DOMAIN r.unit |-> r.unit[b]]
        /\ l = [unit |-> l.unit, mem |-> l.mem, units |-> t.units, cells |-> t.cells]
        /\ DOMAIN l.unit = DOMAIN t.unit \ dead
        /\ l.unit = [b \in DOMAIN l.unit |-> l.unit[b]]
    BY <2>1, <2>3 DEF LeftIs
  <2>6. t.units = s.units /\ t.cells = s.cells
    BY <1>6
  <2>7. r.units = s.units /\ r.cells = s.cells
    BY <2>5
  <2>8. ASSUME NEW b \in DOMAIN l.unit
        PROVE  l.unit[b] = IF b = v THEN [type |-> r.unit[b].type, cnt |-> r.unit[b].cnt, val |-> val]
                           ELSE r.unit[b]
    <3>1. b \in DOMAIN r.unit /\ b \in DOMAIN s.unit
      BY <1>6, <2>5
    <3>2. /\ r.unit[b].type = s.unit[b].type /\ r.unit[b].val = s.unit[b].val
          /\ r.unit[b].cnt = s.unit[b].cnt - GivenBack(s, addrs, cells, dead, b)
          /\ WellUnit(r.unit[b])
      BY <2>1, <3>1 DEF LeftIs
    <3>3. /\ l.unit[b].type = t.unit[b].type /\ l.unit[b].val = t.unit[b].val
          /\ l.unit[b].cnt = t.unit[b].cnt - GivenBack(t, addrs, cells, dead, b)
          /\ WellUnit(l.unit[b])
      BY <2>3 DEF LeftIs
    <3>4. l.unit[b].type = r.unit[b].type /\ l.unit[b].cnt = r.unit[b].cnt
      <4>1. t.unit[b].type = s.unit[b].type
        BY <1>1, <3>1 DEF Refills
      <4>2. t.unit[b].cnt = s.unit[b].cnt
        BY <1>1, <3>1
      <4> QED
        BY <1>14, <3>2, <3>3, <4>1, <4>2
    <3>5. l.unit[b].val = IF b = v THEN val ELSE r.unit[b].val
      BY <1>1, <1>7, <3>1, <3>2, <3>3
    <3> DEFINE x == l.unit[b]
               y == r.unit[b]
    <3>6. x = [type |-> x.type, cnt |-> x.cnt, val |-> x.val]
          /\ y = [type |-> y.type, cnt |-> y.cnt, val |-> y.val]
      BY <3>2, <3>3 DEF WellUnit
    <3>7. x.type = y.type /\ x.cnt = y.cnt /\ x.val = IF b = v THEN val ELSE y.val
      BY <3>4, <3>5
    <3> HIDE DEF x, y
    <3>8. x = IF b = v THEN [type |-> y.type, cnt |-> y.cnt, val |-> val] ELSE y
      BY <3>6, <3>7
    <3> QED
      BY <3>8 DEF x, y
  <2>9. CASE v \in DOMAIN r.unit
    <3>1. IsUnit(r.unit[v])
      BY <2>1, <2>9 DEF LeftIs, WellUnit, IsUnit
    <3>2. IsStore(r)
      BY <2>5, <2>7 DEF IsStore
    <3>0. SetValIs(r, v, val, w)
      BY <2>9, <3>1, <3>2, SetValFacts
    <3> HIDE DEF w
    <3>3. /\ w = [unit |-> w.unit, mem |-> r.mem, units |-> r.units, cells |-> r.cells]
          /\ DOMAIN w.unit = DOMAIN r.unit
          /\ w.unit = [b \in DOMAIN w.unit |-> w.unit[b]]
      BY <3>0 DEF SetValIs
    <3>4. \A b \in DOMAIN r.unit : b # v => w.unit[b] = r.unit[b]
      BY <3>0 DEF SetValIs
    <3>5. w.unit[v] = [type |-> r.unit[v].type, cnt |-> r.unit[v].cnt, val |-> val]
      BY <3>0 DEF SetValIs
    <3>6. DOMAIN l.unit = DOMAIN w.unit
      BY <1>6, <2>5, <3>3
    <3>7. \A b \in DOMAIN l.unit : l.unit[b] = w.unit[b]
      <4> TAKE b \in DOMAIN l.unit
      <4>1. b \in DOMAIN r.unit
        BY <3>3, <3>6
      <4>2. CASE b = v
        <5>1. l.unit[b] = [type |-> r.unit[b].type, cnt |-> r.unit[b].cnt, val |-> val]
          BY <2>8, <4>2
        <5> QED
          BY <3>5, <4>2, <5>1
      <4>3. CASE b # v
        <5>1. l.unit[b] = r.unit[b]
          BY <2>8, <4>3
        <5> QED
          BY <3>4, <4>1, <4>3, <5>1
      <4> QED
        BY <4>2, <4>3
    <3>8. l.unit = w.unit
      BY <2>5, <3>3, <3>6, <3>7
    <3>9. l = w
      BY <2>4, <2>5, <2>6, <2>7, <3>3, <3>8
    <3> QED
      BY <1>12, <3>9 DEF w, r, l
  <2>10. CASE v \notin DOMAIN r.unit
    <3>1. IsStore(r)
      BY <2>5, <2>7 DEF IsStore
    <3>2. w = r
      BY <2>10, <3>1, SetValNone
    <3>3. DOMAIN l.unit = DOMAIN r.unit
      BY <1>6, <2>5
    <3>4. \A b \in DOMAIN l.unit : l.unit[b] = r.unit[b]
      BY <2>8, <2>10, <3>3
    <3>5. l.unit = r.unit
      BY <2>5, <3>3, <3>4
    <3>6. l = r
      BY <2>4, <2>5, <2>6, <3>5
    <3> QED
      BY <1>12, <3>2, <3>6 DEF w, r, l
  <2> QED
    BY <2>9, <2>10
<1> QED
  BY <1>2, <1>9, <1>10, <1>11, <1>15, <1>16

-----------------------------------------------------------------------------
(* New units, which hold nothing.                                           *)

NewUnits(s, n) == (s.units + 1)..(s.units + n)
Bare(u) == Cells(u) = {} /\ \A i \in DOMAIN Direct(u) : Direct(u)[i] = None
NewUnit(u) ==
  /\ WellUnit(u) /\ Bare(u) /\ Separate(u.type, u.val)
  /\ u.type = "closure" => Len(u.val) >= 1
  /\ u.type = "function" => u.val.closure = None

Adds(s, t, n) ==
  /\ n \in Nat
  /\ t = [unit |-> t.unit, mem |-> s.mem, units |-> s.units + n, cells |-> s.cells]
  /\ DOMAIN t.unit = DOMAIN s.unit \cup NewUnits(s, n)
  /\ t.unit = [b \in DOMAIN t.unit |-> t.unit[b]]
  /\ \A b \in DOMAIN s.unit : t.unit[b] = s.unit[b]
  /\ \A b \in NewUnits(s, n) : NewUnit(t.unit[b])

AlsoOwned(s, t, n, refs, owned) ==
  /\ owned \in [Int -> Int]
  /\ \A b \in DOMAIN s.unit : owned[b] <= refs[b]
  /\ \A b \in NewUnits(s, n) : owned[b] <= t.unit[b].cnt
  /\ \A a \in Int : a # None /\ owned[a] > 0 => a \in DOMAIN t.unit

AlsoOpen(s, t, n, account, after) ==
  /\ after.scopes = account.scopes /\ after.kind = account.kind
  /\ account.open \subseteq after.open
  /\ \A b \in NewUnits(s, n) : t.unit[b].type = "function" => b \in after.open

LEMMA AddsShape ==
  ASSUME NEW s, Shape(s), Owned(s), NEW t, NEW n, Adds(s, t, n)
  PROVE  /\ Shape(t) /\ Owned(t)
         /\ t.mem = s.mem /\ t.units = s.units + n /\ t.cells = s.cells
         /\ DOMAIN s.unit \cap NewUnits(s, n) = {}
         /\ IsFiniteSet(NewUnits(s, n))
<1>1. s.cells \in Nat /\ DOMAIN s.mem \subseteq 1..s.cells /\ s.units \in Nat
      /\ DOMAIN s.unit \subseteq 1..s.units /\ n \in Nat
  BY DEF Shape, Adds
<1>2. DOMAIN s.unit \cap NewUnits(s, n) = {}
  BY <1>1 DEF NewUnits
<1>3. IsFiniteSet(NewUnits(s, n))
  <2>1. s.units + 1 \in Int /\ s.units + n \in Int
    BY <1>1
  <2> QED
    BY <2>1, FS_Interval DEF NewUnits
<1>4. t.units = s.units + n /\ t.cells = s.cells /\ t.mem = s.mem
  <2> DEFINE m == s.units + n
  <2>1. t = [unit |-> t.unit, mem |-> s.mem, units |-> m, cells |-> s.cells]
    BY DEF Adds
  <2> HIDE DEF m
  <2>2. t.units = m /\ t.cells = s.cells /\ t.mem = s.mem
    BY <2>1
  <2> QED
    BY <2>2 DEF m
<1>5. \A b \in DOMAIN t.unit : WellUnit(t.unit[b])
  <2>1. \A b \in DOMAIN s.unit : WellUnit(s.unit[b])
    BY DEF Shape
  <2>2. \A b \in NewUnits(s, n) : WellUnit(t.unit[b])
    BY DEF Adds, NewUnit
  <2> QED
    BY <2>1, <2>2 DEF Adds
<1>6. Shape(t)
  <2>1. DOMAIN t.unit \subseteq 1..t.units /\ t.units \in Nat
    <3>1. NewUnits(s, n) \subseteq 1..t.units
      BY <1>1, <1>4 DEF NewUnits
    <3>2. DOMAIN s.unit \subseteq 1..t.units /\ t.units \in Nat
      BY <1>1, <1>4
    <3>3. DOMAIN t.unit = DOMAIN s.unit \cup NewUnits(s, n)
      BY DEF Adds
    <3> QED
      BY <3>1, <3>2, <3>3
  <2>2. t = [unit |-> t.unit, mem |-> t.mem, units |-> t.units, cells |-> t.cells]
    <3> DEFINE m == s.units + n
    <3>1. t = [unit |-> t.unit, mem |-> s.mem, units |-> m, cells |-> s.cells]
      BY DEF Adds
    <3>2. t.units = m /\ t.cells = s.cells /\ t.mem = s.mem
      BY <1>4
    <3> HIDE DEF m
    <3> QED
      BY <3>1, <3>2
  <2>3. t.unit = [b \in DOMAIN t.unit |-> t.unit[b]]
    BY DEF Adds
  <2>4. t.mem = [c \in DOMAIN t.mem |-> t.mem[c]] /\ DOMAIN t.mem \subseteq 1..t.cells
        /\ t.cells \in Nat
    BY <1>4 DEF Shape
  <2> QED
    BY <1>5, <2>1, <2>2, <2>3, <2>4 DEF Shape
<1>7. \A b \in NewUnits(s, n) : Cells(t.unit[b]) = {} /\ Separate(t.unit[b].type, t.unit[b].val)
  BY DEF Adds, NewUnit, Bare
<1>8. \A b \in DOMAIN s.unit : t.unit[b] = s.unit[b]
  BY DEF Adds
<1>9. DOMAIN t.unit = DOMAIN s.unit \cup NewUnits(s, n)
  BY DEF Adds
<1>10. Owned(t)
  <2>1. ASSUME NEW b \in DOMAIN t.unit
        PROVE  Separate(t.unit[b].type, t.unit[b].val) /\ Cells(t.unit[b]) \subseteq DOMAIN t.mem
    <3>1. CASE b \in NewUnits(s, n)
      BY <1>7, <3>1
    <3>2. CASE b \in DOMAIN s.unit
      BY <1>4, <1>8, <3>2 DEF Owned
    <3> QED
      BY <1>9, <3>1, <3>2
  <2>2. ASSUME NEW b \in DOMAIN t.unit, NEW d \in DOMAIN t.unit, b # d
        PROVE  Cells(t.unit[b]) \cap Cells(t.unit[d]) = {}
    <3>1. CASE b \in NewUnits(s, n)
      BY <1>7, <3>1
    <3>2. CASE d \in NewUnits(s, n)
      BY <1>7, <3>2
    <3>3. CASE b \in DOMAIN s.unit /\ d \in DOMAIN s.unit
      BY <1>8, <2>2, <3>3 DEF Owned
    <3> QED
      BY <1>9, <3>1, <3>2, <3>3
  <2> QED
    BY <2>1, <2>2 DEF Owned
<1> QED
  BY <1>2, <1>3, <1>4, <1>6, <1>10

LEMMA AddsHeld ==
  ASSUME NEW s, Shape(s), Owned(s), NEW t, NEW n, Adds(s, t, n), NEW b, b # None
  PROVE  HeldInside(t, b) = HeldInside(s, b) /\ HeldInside(s, b) \in Nat
<1> DEFINE U == DOMAIN s.unit
           N == NewUnits(s, n)
<1>1. Shape(t) /\ Owned(t) /\ t.mem = s.mem /\ U \cap N = {} /\ IsFiniteSet(N)
  BY AddsShape
<1>2. DOMAIN t.unit = U \cup N
  BY DEF Adds
<1>3. /\ HeldInside(s, b) = InCells(s, DOMAIN s.mem, b) + InUnits(s, U, b)
      /\ HeldInside(s, b) \in Nat /\ InCells(s, DOMAIN s.mem, b) \in Nat /\ InUnits(s, U, b) \in Nat
  BY HeldNat
<1>4. HeldInside(t, b) = InCells(t, DOMAIN t.mem, b) + InUnits(t, DOMAIN t.unit, b)
  BY <1>1, HeldNat
<1>5. InCells(t, DOMAIN t.mem, b) = InCells(s, DOMAIN s.mem, b)
  BY <1>1 DEF InCells
<1>6. InUnits(t, U \cup N, b) = InUnits(s, U, b)
  <2>1. IsFiniteSet(DOMAIN t.unit) /\ DirectsInOrder(t, DOMAIN t.unit)
    BY <1>1, Bounded
  <2> DEFINE A == U \cup N
  <2>2. IsFiniteSet(A) /\ DirectsInOrder(t, A) /\ N \in SUBSET A /\ A \ N = U
    BY <1>1, <1>2, <2>1
  <2>3. \A d \in N : \A i \in DOMAIN Direct(t.unit[d]) : Direct(t.unit[d])[i] # b
    BY DEF Adds, NewUnit, Bare
  <2>4. \A d \in U : Direct(t.unit[d]) = Direct(s.unit[d])
    BY DEF Adds
  <2> HIDE DEF A, N, U
  <2>5. InUnits(t, A, b) = InUnits(t, N, b) + InUnits(t, A \ N, b)
    BY <2>2, InUnitsSplit
  <2>6. InUnits(t, N, b) = 0
    BY <2>3, InUnitsNone
  <2>7. InUnits(t, U, b) = InUnits(s, U, b)
    BY <2>4, InUnitsSame
  <2>8. InUnits(t, A, b) = 0 + InUnits(s, U, b)
    BY <2>2, <2>5, <2>6, <2>7
  <2>9. InUnits(t, A, b) = InUnits(s, U, b)
    BY <1>3, <2>8
  <2> QED
    BY <2>9 DEF A
<1> HIDE DEF U, N
<1> QED
  BY <1>2, <1>3, <1>4, <1>5, <1>6

LEMMA AddsSound ==
  ASSUME NEW s, NEW refs, NEW account, Sound(s, refs, account),
         NEW t, NEW n, Adds(s, t, n), NEW owned, AlsoOwned(s, t, n, refs, owned),
         NEW after, AlsoOpen(s, t, n, account, after)
  PROVE  Sound(t, owned, after)
<1>1. Shape(s) /\ Owned(s) /\ Counted(s, refs) /\ Valid(s, refs) /\ Typed(s, account)
      /\ refs \in [Int -> Int]
  BY DEF Sound
<1>2. Shape(t) /\ Owned(t) /\ t.mem = s.mem /\ t.units = s.units + n
      /\ DOMAIN s.unit \cap NewUnits(s, n) = {}
  BY <1>1, AddsShape
<1>3. /\ DOMAIN t.unit = DOMAIN s.unit \cup NewUnits(s, n)
      /\ \A b \in DOMAIN s.unit : t.unit[b] = s.unit[b]
      /\ \A b \in NewUnits(s, n) : NewUnit(t.unit[b])
      /\ n \in Nat
  BY DEF Adds
<1>4. DOMAIN s.unit \subseteq Int /\ None \notin DOMAIN t.unit /\ DOMAIN t.unit \subseteq Int
      /\ NewUnits(s, n) \subseteq Nat
  <2>1. DOMAIN t.unit \subseteq 1..t.units /\ t.units \in Nat
    BY <1>2 DEF Shape
  <2> QED
    BY <1>3, <2>1 DEF None
<1>5. Counted(t, owned)
  <2> SUFFICES ASSUME NEW b \in DOMAIN t.unit PROVE t.unit[b].cnt >= owned[b] + HeldInside(t, b)
    BY DEF Counted
  <2>1. HeldInside(t, b) = HeldInside(s, b) /\ HeldInside(s, b) \in Nat
    BY <1>1, <1>4, AddsHeld
  <2> DEFINE x == t.unit[b].cnt
             y == HeldInside(s, b)
  <2>2. owned[b] \in Int /\ x \in Nat /\ refs[b] \in Int
    BY <1>1, <1>2, <1>4 DEF AlsoOwned, Shape, WellUnit
  <2>3. CASE b \in DOMAIN s.unit
    <3>1. x >= refs[b] + y /\ owned[b] <= refs[b]
      BY <1>1, <1>3, <2>3 DEF Counted, AlsoOwned
    <3> HIDE DEF x, y
    <3>2. x >= owned[b] + y
      BY <2>1, <2>2, <3>1 DEF y
    <3> QED
      BY <2>1, <3>2 DEF x, y
  <2>4. CASE b \in NewUnits(s, n)
    <3>1. y = 0
      <4>1. b \notin DOMAIN s.unit /\ b # None
        BY <1>2, <1>4, <2>4
      <4>2. \A c \in DOMAIN s.mem : s.mem[c] # b
        BY <1>1, <4>1 DEF Valid
      <4>3. \A d \in DOMAIN s.unit : \A i \in DOMAIN Direct(s.unit[d]) : Direct(s.unit[d])[i] # b
        BY <1>1, <4>1 DEF Valid
      <4>4. InCells(s, DOMAIN s.mem, b) = 0
        BY <4>2, InCellsNone
      <4>5. InUnits(s, DOMAIN s.unit, b) = 0
        BY <4>3, InUnitsNone
      <4> QED
        BY <4>4, <4>5 DEF HeldInside
    <3>2. owned[b] <= x
      BY <2>4 DEF AlsoOwned
    <3> HIDE DEF x, y
    <3>3. x >= owned[b] + y
      BY <2>2, <3>1, <3>2
    <3> QED
      BY <2>1, <3>3 DEF x, y
  <2> QED
    BY <1>3, <2>3, <2>4
<1>6. Valid(t, owned)
  <2>1. \A a \in Int : owned[a] > 0 => a \in DOMAIN t.unit \cup {None}
    BY DEF AlsoOwned
  <2>2. \A c \in DOMAIN t.mem : t.mem[c] \in DOMAIN t.unit \cup {None}
    BY <1>1, <1>2, <1>3 DEF Valid
  <2>3. ASSUME NEW b \in DOMAIN t.unit, NEW i \in DOMAIN Direct(t.unit[b])
        PROVE  Direct(t.unit[b])[i] \in DOMAIN t.unit \cup {None}
    <3>1. CASE b \in DOMAIN s.unit
      <4>1. t.unit[b] = s.unit[b]
        BY <1>3, <3>1
      <4>2. Direct(s.unit[b])[i] \in DOMAIN s.unit \cup {None}
        BY <1>1, <2>3, <3>1, <4>1 DEF Valid
      <4> QED
        BY <1>3, <4>1, <4>2
    <3>2. CASE b \in NewUnits(s, n)
      BY <1>3, <2>3, <3>2 DEF NewUnit, Bare
    <3> QED
      BY <1>3, <3>1, <3>2
  <2> QED
    BY <2>1, <2>2, <2>3 DEF Valid
<1>7. Typed(t, after)
  <2>0. after.scopes = account.scopes /\ after.kind = account.kind
        /\ account.open \subseteq after.open
        /\ \A b \in NewUnits(s, n) : t.unit[b].type = "function" => b \in after.open
    BY DEF AlsoOpen
  <2>1. s.units \in Nat /\ n \in Nat /\ t.units = s.units + n /\ DOMAIN s.unit \subseteq 1..s.units
    BY <1>1, <1>2, <1>3 DEF Shape
  <2>2. after.scopes \in [Int -> Nat] /\ DOMAIN after.kind \subseteq 1..t.units
    <3>1. account.scopes \in [Int -> Nat] /\ DOMAIN account.kind \subseteq 1..s.units
      BY <1>1 DEF Typed
    <3>2. 1..s.units \subseteq 1..t.units
      BY <2>1
    <3> QED
      BY <2>0, <3>1, <3>2
  <2>3. \A b \in NewUnits(s, n) : b \notin DOMAIN after.kind /\ after.scopes[b] = 0
    <3> TAKE b \in NewUnits(s, n)
    <3>1. b \in Int /\ b > s.units /\ b \notin 1..s.units
      BY <2>1 DEF NewUnits
    <3> QED
      BY <1>1, <2>0, <3>1 DEF Typed
  <2>4. \A b \in DOMAIN t.unit : b \in DOMAIN after.kind => t.unit[b].type = after.kind[b]
    BY <1>1, <1>3, <2>0, <2>3 DEF Typed
  <2>5. ASSUME NEW b \in DOMAIN t.unit, t.unit[b].type = "closure"
        PROVE  Len(t.unit[b].val) >= 1 + after.scopes[b]
    <3>1. CASE b \in DOMAIN s.unit
      BY <1>1, <1>3, <2>0, <2>5, <3>1 DEF Typed
    <3>2. CASE b \in NewUnits(s, n)
      <4>1. Len(t.unit[b].val) >= 1
        BY <1>3, <2>5, <3>2 DEF NewUnit
      <4>2. 1 + after.scopes[b] = 1
        BY <2>3, <3>2
      <4> QED
        BY <4>1, <4>2
    <3> QED
      BY <1>3, <3>1, <3>2
  <2>6. \A a \in Int : a > t.units => after.scopes[a] = 0
    <3> TAKE a \in Int
    <3>1. a > t.units => a > s.units
      BY <2>1
    <3> QED
      BY <1>1, <2>0, <3>1 DEF Typed
  <2>7. ASSUME NEW b \in DOMAIN t.unit, t.unit[b].type = "function"
        PROVE  \/ t.unit[b].val.closure \in DOMAIN t.unit /\ t.unit[t.unit[b].val.closure].type = "closure"
               \/ t.unit[b].val.closure = None /\ b \in after.open
    <3>1. CASE b \in DOMAIN s.unit
      <4>1. \/ s.unit[b].val.closure \in DOMAIN s.unit /\ s.unit[s.unit[b].val.closure].type = "closure"
            \/ s.unit[b].val.closure = None /\ b \in account.open
        BY <1>1, <1>3, <2>7, <3>1 DEF Typed
      <4> QED
        BY <1>3, <2>0, <3>1, <4>1
    <3>2. CASE b \in NewUnits(s, n)
      BY <1>3, <2>0, <2>7, <3>2 DEF NewUnit
    <3> QED
      BY <1>3, <3>1, <3>2
  <2> QED
    BY <2>2, <2>4, <2>5, <2>6, <2>7 DEF Typed
<1>8. owned \in [Int -> Int]
  BY DEF AlsoOwned
<1> QED
  BY <1>2, <1>5, <1>6, <1>7, <1>8 DEF Sound

LEMMA AddsThese ==
  ASSUME NEW s, Shape(s), NEW n \in Nat, NEW new,
         new = [b \in NewUnits(s, n) |-> new[b]],
         \A b \in NewUnits(s, n) : NewUnit(new[b]),
         NEW t, t = [unit |-> Extended(s.unit, new), mem |-> s.mem, units |-> s.units + n, cells |-> s.cells]
  PROVE  Adds(s, t, n) /\ \A b \in NewUnits(s, n) : t.unit[b] = new[b]
<1>1. s.units \in Nat /\ DOMAIN s.unit \subseteq 1..s.units /\ s.unit = [b \in DOMAIN s.unit |-> s.unit[b]]
  BY DEF Shape
<1>2. DOMAIN s.unit \cap NewUnits(s, n) = {}
  BY <1>1 DEF NewUnits
<1> DEFINE all == Extended(s.unit, new)
           N == NewUnits(s, n)
<1>3. DOMAIN new = N
  OBVIOUS
<1>4. /\ DOMAIN all = DOMAIN s.unit \cup N
      /\ all = [b \in DOMAIN all |-> all[b]]
      /\ \A b \in DOMAIN s.unit : all[b] = s.unit[b]
      /\ \A b \in N : all[b] = new[b]
  <2> HIDE DEF N
  <2> QED
    BY <1>2, <1>3 DEF Extended, N
<1> HIDE DEF all
<1> DEFINE m == s.units + n
<1>5. t = [unit |-> all, mem |-> s.mem, units |-> m, cells |-> s.cells]
  BY DEF all
<1> HIDE DEF m, N
<1>6. t.unit = all
  BY <1>5
<1>7. t = [unit |-> t.unit, mem |-> s.mem, units |-> m, cells |-> s.cells]
  BY <1>5, <1>6
<1>8. \A b \in N : NewUnit(t.unit[b])
  BY <1>4, <1>6 DEF N
<1> QED
  BY <1>4, <1>6, <1>7, <1>8 DEF Adds, m, N

(* An address that was not there before, and is owned by nobody.            *)
LEMMA NextOwned ==
  ASSUME NEW s, NEW refs, NEW account, Sound(s, refs, account), NEW n \in Nat
  PROVE  \A b \in NewUnits(s, n) : b \in Int /\ refs[b] <= 0 /\ refs[b] \in Int /\ b # None
<1>1. s.units \in Nat /\ DOMAIN s.unit \subseteq 1..s.units /\ refs \in [Int -> Int] /\ Valid(s, refs)
  BY DEF Sound, Shape
<1> TAKE b \in NewUnits(s, n)
<1>2. b \in Int /\ b # None /\ b \notin DOMAIN s.unit
  BY <1>1 DEF NewUnits, None
<1>3. ~(refs[b] > 0) /\ refs[b] \in Int
  BY <1>1, <1>2 DEF Valid
<1> QED
  BY <1>2, <1>3

Opened(account, b, type) ==
  [account EXCEPT !.open = IF type = "function" THEN @ \cup {b} ELSE @]
IsAccount(account) ==
  account = [scopes |-> account.scopes, kind |-> account.kind, open |-> account.open]

LEMMA AllocSound ==
  ASSUME NEW s, NEW refs, NEW account, Sound(s, refs, account), IsAccount(account),
         NEW type, NEW val, NewUnit([type |-> type, cnt |-> 1, val |-> val]),
         NEW t, t = gc_alloc_with(s, type, val)
  PROVE  /\ Sound(t, More(refs, <<NextUnit(s)>>), Opened(account, NextUnit(s), type))
         /\ Adds(s, t, 1)
         /\ NextUnit(s) \in DOMAIN t.unit
         /\ t.unit[NextUnit(s)] = [type |-> type, cnt |-> 1, val |-> val]
<1> DEFINE u == [type |-> type, cnt |-> 1, val |-> val]
           new == [b \in {NextUnit(s)} |-> u]
           owned == More(refs, <<NextUnit(s)>>)
           after == Opened(account, NextUnit(s), type)
<1>1. Shape(s) /\ s.units \in Nat /\ refs \in [Int -> Int] /\ Valid(s, refs)
  BY DEF Sound, Shape
<1>2. NewUnits(s, 1) = {NextUnit(s)} /\ NextUnit(s) \in Int
  BY <1>1 DEF NewUnits, NextUnit
<1>3. new = [b \in NewUnits(s, 1) |-> new[b]] /\ new[NextUnit(s)] = u
  <2> HIDE DEF u
  <2> QED
    BY <1>2
<1>4. t = [unit |-> Extended(s.unit, new), mem |-> s.mem, units |-> s.units + 1, cells |-> s.cells]
  <2> DEFINE all == With(s.unit, NextUnit(s), u)
  <2>1. t = [s EXCEPT !.units = @ + 1, !.unit = all]
    BY DEF gc_alloc_with
  <2>2. IsStore(s)
    BY <1>1, ShapeStore
  <2>3. all = Extended(s.unit, new)
    <3>1. NextUnit(s) \notin DOMAIN s.unit
      BY Addresses
    <3> HIDE DEF u
    <3> QED
      BY <3>1 DEF With, Extended
  <2> HIDE DEF new, all
  <2>4. t = [unit |-> all, mem |-> s.mem, units |-> s.units + 1, cells |-> s.cells]
    BY <2>1, <2>2 DEF IsStore
  <2> QED
    BY <2>3, <2>4
<1>5. \A b \in NewUnits(s, 1) : NewUnit(new[b])
  <2>1. NewUnit(u)
    OBVIOUS
  <2> HIDE DEF new, u
  <2> QED
    BY <1>2, <1>3, <2>1
<1>6. Adds(s, t, 1) /\ t.unit[NextUnit(s)] = u
  <2> HIDE DEF new, u
  <2>1. Adds(s, t, 1) /\ \A b \in NewUnits(s, 1) : t.unit[b] = new[b]
    BY <1>1, <1>3, <1>4, <1>5, AddsThese
  <2> QED
    BY <1>2, <1>3, <2>1
<1>7. DOMAIN t.unit = DOMAIN s.unit \cup NewUnits(s, 1)
  BY <1>6 DEF Adds
<1>8. owned \in [Int -> Int]
      /\ \A b \in Int : owned[b] = refs[b] + (IF NextUnit(s) = b THEN 1 ELSE 0)
  BY <1>1, MoreFewerOne
<1>9. \A b \in DOMAIN s.unit : b \in Int /\ b # NextUnit(s)
  BY Addresses
<1>10. u.cnt = 1 /\ u.type = type
  OBVIOUS
<1> HIDE DEF new, u, owned
<1>11. AlsoOwned(s, t, 1, refs, owned)
  <2>1. \A b \in DOMAIN s.unit : owned[b] <= refs[b]
    <3> TAKE b \in DOMAIN s.unit
    <3>1. owned[b] = refs[b] + 0 /\ refs[b] \in Int
      BY <1>1, <1>8, <1>9
    <3> QED
      BY <3>1
  <2>2. \A b \in NewUnits(s, 1) : owned[b] <= t.unit[b].cnt
    <3> TAKE b \in NewUnits(s, 1)
    <3>1. b = NextUnit(s) /\ refs[b] <= 0 /\ refs[b] \in Int
      BY <1>2, NextOwned
    <3>2. owned[b] = refs[b] + 1 /\ t.unit[b].cnt = 1
      BY <1>2, <1>6, <1>8, <1>10, <3>1
    <3> QED
      BY <3>1, <3>2
  <2>3. ASSUME NEW a \in Int, a # None, owned[a] > 0
        PROVE  a \in DOMAIN t.unit
    <3>1. CASE a = NextUnit(s)
      BY <1>2, <1>7, <3>1
    <3>2. CASE a # NextUnit(s)
      <4>1. refs[a] > 0
        BY <1>1, <1>8, <2>3, <3>2
      <4> QED
        BY <1>1, <1>7, <2>3, <4>1 DEF Valid
    <3> QED
      BY <3>1, <3>2
  <2> QED
    BY <1>8, <2>1, <2>2, <2>3 DEF AlsoOwned
<1>12. AlsoOpen(s, t, 1, account, after)
  <2>1. /\ after.scopes = account.scopes /\ after.kind = account.kind
        /\ after.open = IF type = "function" THEN account.open \cup {NextUnit(s)} ELSE account.open
    BY DEF Opened, IsAccount
  <2>2. \A b \in NewUnits(s, 1) : t.unit[b].type = type /\ b = NextUnit(s)
    BY <1>2, <1>6, <1>10
  <2> HIDE DEF after
  <2> QED
    BY <2>1, <2>2 DEF AlsoOpen
<1>13. Sound(t, owned, after)
  <2> HIDE DEF after
  <2> QED
    BY <1>6, <1>11, <1>12, AddsSound
<1> QED
  BY <1>2, <1>6, <1>7, <1>13 DEF owned, after, u

-----------------------------------------------------------------------------
(* A new cell, which then gets a place in a unit.                           *)

LEMMA MemAllocSound ==
  ASSUME NEW s, NEW refs, NEW account, Sound(s, refs, account), NEW a \in Held(s),
         NEW t, t = mem_alloc(s, a)
  PROVE  /\ Sound(t, Fewer(refs, <<a>>), account)
         /\ t = [unit |-> s.unit, mem |-> t.mem, units |-> s.units, cells |-> s.cells + 1]
         /\ DOMAIN t.mem = DOMAIN s.mem \cup {NextCell(s)}
         /\ \A c \in DOMAIN s.mem : t.mem[c] = s.mem[c]
         /\ t.mem[NextCell(s)] = a
<1> DEFINE owned == Fewer(refs, <<a>>)
           all == With(s.mem, NextCell(s), a)
           m == s.cells + 1
<1>1. Shape(s) /\ Owned(s) /\ Valid(s, refs) /\ refs \in [Int -> Int] /\ s.cells \in Nat
  BY DEF Sound, Shape
<1>2. NextCell(s) \notin DOMAIN s.mem /\ NextCell(s) \in Nat
      /\ None \notin DOMAIN s.unit /\ DOMAIN s.unit \subseteq Int
  BY Addresses
<1>3. /\ DOMAIN all = DOMAIN s.mem \cup {NextCell(s)}
      /\ all = [c \in DOMAIN all |-> all[c]]
      /\ \A c \in DOMAIN s.mem : all[c] = s.mem[c]
      /\ all[NextCell(s)] = a
  BY <1>2 DEF With
<1>4. t = [unit |-> s.unit, mem |-> all, units |-> s.units, cells |-> m]
  <2>1. t = [s EXCEPT !.cells = m, !.mem = all]
    BY DEF mem_alloc
  <2>2. IsStore(s)
    BY <1>1, ShapeStore
  <2> HIDE DEF all, m
  <2> QED
    BY <2>1, <2>2 DEF IsStore
<1> HIDE DEF all
<1>5. t.mem = all /\ t.unit = s.unit
      /\ t = [unit |-> t.unit, mem |-> t.mem, units |-> s.units, cells |-> m]
  <2> HIDE DEF m
  <2> QED
    BY <1>4
<1>6. Fresh(s, 1) = {NextCell(s)}
  BY <1>1 DEF Fresh, NextCell
<1>7. Refills(s, t, None, 1)
  <2>1. \A b \in DOMAIN s.unit : WellUnit(t.unit[b]) /\ t.unit[b] = s.unit[b]
    BY <1>1, <1>5 DEF Shape
  <2>2. DOMAIN t.unit = DOMAIN s.unit /\ t.unit = [b \in DOMAIN t.unit |-> t.unit[b]]
    BY <1>1, <1>5 DEF Shape
  <2>3. /\ DOMAIN t.mem = DOMAIN s.mem \cup Fresh(s, 1)
        /\ t.mem = [c \in DOMAIN t.mem |-> t.mem[c]]
        /\ \A c \in DOMAIN s.mem : t.mem[c] = s.mem[c]
        /\ \A c \in Fresh(s, 1) : t.mem[c] \in DOMAIN s.unit \cup {None}
    BY <1>3, <1>5, <1>6 DEF Held
  <2> QED
    BY <1>2, <1>5, <2>1, <2>2, <2>3 DEF Refills, m
<1>8. owned \in [Int -> Int] /\ \A b \in Int : owned[b] = refs[b] - (IF a = b THEN 1 ELSE 0)
  BY <1>1, MoreFewerOne
<1> HIDE DEF owned
<1>9. Covered(s, t, 1, refs, owned)
  <2>1. ASSUME NEW b \in DOMAIN s.unit
        PROVE  owned[b] + InCells(t, Fresh(s, 1), b) + s.unit[b].cnt <= refs[b] + t.unit[b].cnt
    <3> DEFINE x == s.unit[b].cnt
               z == InCells(t, Fresh(s, 1), b)
    <3>1. x \in Nat /\ t.unit[b].cnt = x
      BY <1>1, <1>5 DEF Shape, WellUnit
    <3>2. z = IF a = b THEN 1 ELSE 0
      BY <1>3, <1>5, <1>6, InCellsOne
    <3>3. refs[b] \in Int /\ owned[b] = refs[b] - (IF a = b THEN 1 ELSE 0)
      BY <1>1, <1>2, <1>8
    <3> HIDE DEF x, z
    <3>4. owned[b] + z + x <= refs[b] + x
      BY <3>1, <3>2, <3>3
    <3> QED
      BY <3>1, <3>4 DEF x, z
  <2>2. ASSUME NEW b \in Int, owned[b] > 0 PROVE b \in DOMAIN s.unit \cup {None}
    <3>1. refs[b] > 0
      BY <1>1, <1>8, <2>2
    <3> QED
      BY <1>1, <3>1 DEF Valid
  <2> QED
    BY <1>8, <2>1, <2>2 DEF Covered
<1>10. Sound(t, owned, account)
  BY <1>2, <1>7, <1>9, RefillKeeps
<1>11. DOMAIN t.mem = DOMAIN s.mem \cup {NextCell(s)} /\ t.mem[NextCell(s)] = a
       /\ \A c \in DOMAIN s.mem : t.mem[c] = s.mem[c]
  BY <1>3, <1>5
<1> QED
  BY <1>5, <1>10, <1>11 DEF owned, m

(* Contents with one cell more, that was in no unit.                        *)
LEMMA AttachSound ==
  ASSUME NEW s, NEW refs, NEW account, Sound(s, refs, account),
         NEW c \in DOMAIN s.mem, \A b \in DOMAIN s.unit : c \notin Cells(s.unit[b]),
         NEW v \in DOMAIN s.unit, s.unit[v].type # "function",
         NEW val, WellVal(s.unit[v].type, val), Separate(s.unit[v].type, val),
         Cells([type |-> s.unit[v].type, val |-> val]) \subseteq Cells(s.unit[v]) \cup {c},
         s.unit[v].type = "closure" => Len(val) = Len(s.unit[v].val)
  PROVE  Sound(SetVal(s, v, val), refs, account)
<1> DEFINE new == [type |-> s.unit[v].type, val |-> val]
<1>1. Owned(s) /\ Shape(s) /\ Typed(s, account)
  BY DEF Sound
<1>2. Cells(new) \subseteq Cells(s.unit[v]) \cup {c}
  OBVIOUS
<1> HIDE DEF new
<1>3. Cells(s.unit[v]) \subseteq DOMAIN s.mem
  BY <1>1 DEF Owned
<1>4. ASSUME NEW b \in DOMAIN s.unit, b # v PROVE Cells(new) \cap Cells(s.unit[b]) = {}
  <2>1. Cells(s.unit[v]) \cap Cells(s.unit[b]) = {}
    BY <1>1, <1>4 DEF Owned
  <2>2. c \notin Cells(s.unit[b])
    OBVIOUS
  <2> QED
    BY <1>2, <2>1, <2>2
<1>5. Cells(new) \subseteq DOMAIN s.mem
  BY <1>2, <1>3
<1>6. Suits(s, v, val)
  BY <1>4, <1>5 DEF Suits, new
<1>7. LongEnough(s, v, val, account, account)
  <2>1. s.unit[v].type = "closure" => Len(s.unit[v].val) >= 1 + account.scopes[v]
    BY <1>1 DEF Typed
  <2> QED
    BY <1>1, <2>1 DEF LongEnough, Typed
<1> QED
  BY <1>6, <1>7, SetValSound

LEMMA NewCellFree ==
  ASSUME NEW s, NEW refs, NEW account, Sound(s, refs, account)
  PROVE  \A b \in DOMAIN s.unit : NextCell(s) \notin Cells(s.unit[b])
<1>1. \A b \in DOMAIN s.unit : Cells(s.unit[b]) \subseteq DOMAIN s.mem
  BY DEF Sound, Owned
<1>2. NextCell(s) \notin DOMAIN s.mem
  BY Addresses
<1> QED
  BY <1>1, <1>2

LEMMA CellsByType ==
  ASSUME NEW u
  PROVE  /\ u.type = "vector" => Cells(u) = CellsOf(u.val)
         /\ u.type = "hash" => Cells(u) = CellsOf(u.val)
         /\ u.type = "closure" => Cells(u) = UNION {CellsOf(u.val[i]) : i \in DOMAIN u.val}
         /\ u.type \notin {"vector", "hash", "closure"} => Cells(u) = {}
         /\ u.type # "function" => Direct(u) = <<>>
BY DEF Cells, Direct

LEMMA VectorAddSound ==
  ASSUME NEW s, NEW refs, NEW account, Sound(s, refs, account), NEW a \in Held(s),
         NEW v \in DOMAIN s.unit, s.unit[v].type = "vector"
  PROVE  Sound(VectorAdd(s, v, a), Fewer(refs, <<a>>), account)
<1> DEFINE m == mem_alloc(s, a)
           owned == Fewer(refs, <<a>>)
           old == s.unit[v].val
           c == NextCell(s)
           val == Append(old, c)
<1>1. /\ Sound(m, owned, account)
      /\ m = [unit |-> s.unit, mem |-> m.mem, units |-> s.units, cells |-> s.cells + 1]
      /\ DOMAIN m.mem = DOMAIN s.mem \cup {NextCell(s)}
  BY MemAllocSound
<1>2. VectorAdd(s, v, a) = SetVal(m, v, val)
  <2>1. m.unit[v].val = old
    <3> HIDE DEF m
    <3>1. m.unit = s.unit
      BY <1>1
    <3> QED
      BY <3>1
  <2> HIDE DEF m, old
  <2>2. VectorAdd(s, v, a) = [m EXCEPT !.unit[v].val = Append(@, c)]
    BY DEF VectorAdd, m
  <2> HIDE DEF c
  <2>3. [m EXCEPT !.unit[v].val = Append(@, c)] = SetVal(m, v, Append(m.unit[v].val, c))
    <3>1. IsStore(m) /\ v \in DOMAIN m.unit /\ IsUnit(m.unit[v])
      <4>1. Shape(m) /\ m.unit = s.unit
        BY <1>1 DEF Sound
      <4> QED
        BY <4>1, ShapeStore
    <3> QED
      BY <3>1 DEF SetVal, IsStore, IsUnit
  <2> QED
    BY <2>1, <2>2, <2>3
<1> HIDE DEF m, owned
<1>3. m.unit = s.unit
  BY <1>1
<1>4. Shape(s) /\ Owned(s)
  BY DEF Sound
<1>5. old \in Seq(Nat) /\ c \in Nat /\ c \notin Cells(s.unit[v])
      /\ \A b \in DOMAIN s.unit : c \notin Cells(s.unit[b])
  <2>1. WellVal("vector", old)
    BY <1>4 DEF Shape, WellUnit
  <2>2. c \in Nat /\ \A b \in DOMAIN s.unit : c \notin Cells(s.unit[b])
    BY Addresses, NewCellFree
  <2> QED
    BY <2>1, <2>2 DEF WellVal
<1>6. Cells(s.unit[v]) = {old[i] : i \in DOMAIN old}
  BY CellsByType DEF CellsOf
<1>7. \A i, j \in DOMAIN old : old[i] = old[j] => i = j
  <2>1. Separate("vector", old)
    BY <1>4 DEF Owned
  <2> QED
    BY <2>1 DEF Separate
<1> DEFINE new == [type |-> s.unit[v].type, val |-> val]
<1>8. new.type = "vector" /\ new.val = val
  OBVIOUS
<1> HIDE DEF old, c, new
<1>9. val \in Seq(Nat) /\ DOMAIN val = DOMAIN old \cup {Len(old) + 1}
      /\ Len(old) + 1 \notin DOMAIN old
      /\ val[Len(old) + 1] = c /\ \A i \in DOMAIN old : val[i] = old[i]
  BY <1>5
<1> HIDE DEF val
<1>10. WellVal("vector", val)
  BY <1>9 DEF WellVal
<1>11. Separate("vector", val)
  <2>1. \A i \in DOMAIN old : old[i] # c
    BY <1>5, <1>6
  <2>2. \A i, j \in DOMAIN val : val[i] = val[j] => i = j
    BY <1>7, <1>9, <2>1
  <2> QED
    BY <2>2 DEF Separate
<1>12. Cells(new) \subseteq Cells(s.unit[v]) \cup {c}
  <2>1. Cells(new) = {val[i] : i \in DOMAIN val}
    BY <1>8, CellsByType DEF CellsOf
  <2> QED
    BY <1>6, <1>9, <2>1
<1>13. c \in DOMAIN m.mem
  BY <1>1 DEF c
<1>14. Sound(SetVal(m, v, val), owned, account)
  BY <1>1, <1>3, <1>5, <1>10, <1>11, <1>12, <1>13, AttachSound DEF new
<1> QED
  BY <1>2, <1>14 DEF owned

(* A map of cells with another cell for a key.                              *)
LEMMA WithMap ==
  ASSUME NEW f, IsMap(f), NEW x, NEW c \in Nat, c \notin CellsOf(f), NEW g, g = With(f, x, c)
  PROVE  /\ IsMap(g)
         /\ CellsOf(g) \subseteq CellsOf(f) \cup {c}
         /\ (\A y, z \in DOMAIN f : f[y] = f[z] => y = z)
              => \A y, z \in DOMAIN g : g[y] = g[z] => y = z
<1>1. /\ DOMAIN g = DOMAIN f \cup {x} /\ g[x] = c
      /\ \A z \in DOMAIN f : z # x => g[z] = f[z]
      /\ g = [z \in DOMAIN g |-> g[z]]
  BY DEF With
<1>2. \A z \in DOMAIN f : f[z] \in Nat /\ f[z] # c
  BY DEF IsMap, CellsOf
<1>3. IsMap(g)
  BY <1>1, <1>2 DEF IsMap
<1>4. CellsOf(g) \subseteq CellsOf(f) \cup {c}
  BY <1>1 DEF CellsOf
<1>5. ASSUME \A y, z \in DOMAIN f : f[y] = f[z] => y = z
      PROVE  \A y, z \in DOMAIN g : g[y] = g[z] => y = z
  BY <1>1, <1>2, <1>5
<1> QED
  BY <1>3, <1>4, <1>5

LEMMA HashAddSound ==
  ASSUME NEW s, NEW refs, NEW account, Sound(s, refs, account), NEW a \in Held(s),
         NEW v \in DOMAIN s.unit, s.unit[v].type = "hash", NEW key
  PROVE  Sound(HashAdd(s, v, key, a), Fewer(refs, <<a>>), account)
<1> DEFINE m == mem_alloc(s, a)
           owned == Fewer(refs, <<a>>)
           old == s.unit[v].val
           c == NextCell(s)
           val == With(old, key, c)
<1>1. /\ Sound(m, owned, account)
      /\ m = [unit |-> s.unit, mem |-> m.mem, units |-> s.units, cells |-> s.cells + 1]
      /\ DOMAIN m.mem = DOMAIN s.mem \cup {NextCell(s)}
  BY MemAllocSound
<1>2. CASE key \in DOMAIN old
  <2>1. HashAdd(s, v, key, a) = s
    BY <1>2 DEF HashAdd, Val
  <2>2. owned \in [Int -> Int] /\ \A b \in Int : owned[b] <= refs[b]
    <3>1. refs \in [Int -> Int]
      BY DEF Sound
    <3>2. owned \in [Int -> Int] /\ \A b \in Int : owned[b] = refs[b] - (IF a = b THEN 1 ELSE 0)
      BY <3>1, MoreFewerOne
    <3> QED
      BY <3>1, <3>2
  <2>3. DOMAIN s.unit \subseteq Int
    BY Addresses
  <2> HIDE DEF owned, old
  <2>4. Sound(s, owned, account)
    BY <2>2, <2>3, Weaker
  <2> QED
    BY <2>1, <2>4 DEF owned
<1>3. CASE key \notin DOMAIN old
  <2>1. HashAdd(s, v, key, a) = SetVal(m, v, val)
    <3>1. m.unit[v].val = old
      <4> HIDE DEF m
      <4>1. m.unit = s.unit
        BY <1>1
      <4> QED
        BY <4>1
    <3> HIDE DEF m
    <3>2. HashAdd(s, v, key, a) = [m EXCEPT !.unit[v].val = With(@, key, c)]
      BY <1>3 DEF HashAdd, m, Val
    <3> HIDE DEF c, old
    <3>3. [m EXCEPT !.unit[v].val = With(@, key, c)] = SetVal(m, v, With(m.unit[v].val, key, c))
      <4>1. IsStore(m) /\ v \in DOMAIN m.unit /\ IsUnit(m.unit[v])
        <5>1. Shape(m) /\ m.unit = s.unit
          BY <1>1 DEF Sound
        <5> QED
          BY <5>1, ShapeStore
      <4> QED
        BY <4>1 DEF SetVal, IsStore, IsUnit
    <3> QED
      BY <3>1, <3>2, <3>3
  <2> HIDE DEF m, owned
  <2>3. m.unit = s.unit
    BY <1>1
  <2>4. Shape(s) /\ Owned(s)
    BY DEF Sound
  <2>5. IsMap(old) /\ c \in Nat /\ \A b \in DOMAIN s.unit : c \notin Cells(s.unit[b])
    <3>1. WellVal("hash", old)
      BY <2>4 DEF Shape, WellUnit
    <3>2. c \in Nat /\ \A b \in DOMAIN s.unit : c \notin Cells(s.unit[b])
      BY Addresses, NewCellFree
    <3> QED
      BY <3>1, <3>2 DEF WellVal
  <2>6. Cells(s.unit[v]) = CellsOf(old)
    BY CellsByType
  <2>7. \A i, j \in DOMAIN old : old[i] = old[j] => i = j
    <3>1. Separate("hash", old)
      BY <2>4 DEF Owned
    <3> QED
      BY <3>1 DEF Separate
  <2> DEFINE new == [type |-> s.unit[v].type, val |-> val]
  <2>8. new.type = "hash" /\ new.val = val
    OBVIOUS
  <2> HIDE DEF old, c, new
  <2>9. /\ IsMap(val)
        /\ CellsOf(val) \subseteq CellsOf(old) \cup {c}
        /\ \A y, z \in DOMAIN val : val[y] = val[z] => y = z
    BY <2>5, <2>6, <2>7, WithMap
  <2> HIDE DEF val
  <2>10. WellVal("hash", val) /\ Separate("hash", val)
    BY <2>9 DEF WellVal, Separate
  <2>12. Cells(new) \subseteq Cells(s.unit[v]) \cup {c}
    BY <2>6, <2>8, <2>9, CellsByType
  <2>13. c \in DOMAIN m.mem
    BY <1>1 DEF c
  <2>14. Sound(SetVal(m, v, val), owned, account)
    BY <1>1, <2>3, <2>5, <2>10, <2>12, <2>13, AttachSound DEF new
  <2> QED
    BY <2>1, <2>14 DEF owned
<1> QED
  BY <1>2, <1>3

-----------------------------------------------------------------------------
(* Several values that are counted, each in a new cell.                     *)

LEMMA FreshCount ==
  ASSUME NEW s, s.cells \in Nat, NEW values, IsSeq(values), NEW t,
         \A i \in DOMAIN values : t.mem[s.cells + i] = values[i], NEW b
  PROVE  InCells(t, Fresh(s, Len(values)), b) = Count(values, b)
<1> DEFINE n == Len(values)
           S == {i \in DOMAIN values : values[i] = b}
           T == {c \in Fresh(s, n) : t.mem[c] = b}
           f == [i \in S |-> s.cells + i]
<1>1. n \in Nat /\ DOMAIN values = 1..n
  BY SeqFacts
<1>2. \A i \in 1..n : s.cells + i \in Fresh(s, n) /\ i \in Nat
  <2> HIDE DEF n
  <2> QED
    BY <1>1 DEF Fresh
<1>3. \A c \in Fresh(s, n) : \E i \in 1..n : c = s.cells + i
  <2> HIDE DEF n
  <2> TAKE c \in Fresh(s, n)
  <2>1. c \in Int /\ c - s.cells \in 1..n /\ c = s.cells + (c - s.cells)
    BY <1>1 DEF Fresh
  <2> QED
    BY <2>1
<1>4. f \in Surjection(S, T)
  <2> HIDE DEF n
  <2>1. f \in [S -> T]
    BY <1>1, <1>2
  <2>2. \A c \in T : \E i \in S : f[i] = c
    BY <1>1, <1>3
  <2> QED
    BY <2>1, <2>2 DEF Surjection
<1>5. f \in Injection(S, T)
  <2> HIDE DEF n
  <2>1. f \in [S -> T]
    BY <1>1, <1>2
  <2>2. \A i, j \in S : f[i] = f[j] => i = j
    BY <1>1, <1>2
  <2> HIDE DEF f, S, T
  <2> QED
    BY <2>1, <2>2 DEF Injection, IsInjective
<1>6. IsFiniteSet(S)
  BY CountNat
<1>7. Cardinality(T) = Cardinality(S)
  <2> HIDE DEF S, T, f
  <2> QED
    BY <1>4, <1>5, <1>6, FS_Surjection
<1> QED
  BY <1>7 DEF InCells, Count


StoreAllIs(s, v, val, values, t) ==
  /\ t = [unit |-> t.unit, mem |-> t.mem, units |-> s.units, cells |-> s.cells + Len(values)]
  /\ DOMAIN t.unit = DOMAIN s.unit /\ t.unit = [b \in DOMAIN t.unit |-> t.unit[b]]
  /\ DOMAIN t.mem = DOMAIN s.mem \cup Fresh(s, Len(values))
  /\ t.mem = [c \in DOMAIN t.mem |-> t.mem[c]]
  /\ \A c \in DOMAIN s.mem : t.mem[c] = s.mem[c]
  /\ \A i \in DOMAIN values : t.mem[s.cells + i] = values[i]
  /\ \A b \in DOMAIN s.unit :
       t.unit[b] = [type |-> s.unit[b].type, cnt |-> s.unit[b].cnt + Count(values, b),
                    val |-> IF b = v THEN val ELSE s.unit[b].val]

LEMMA StoreAllFacts ==
  ASSUME NEW s, Shape(s), NEW v, NEW val, NEW values, IsSeq(values),
         NEW t, t = StoreAll(s, v, val, values)
  PROVE  StoreAllIs(s, v, val, values, t)
<1> DEFINE n == Len(values)
           new == [c \in Fresh(s, n) |-> values[c - s.cells]]
           all == Extended(s.mem, new)
           units == [b \in DOMAIN s.unit |-> [s.unit[b] EXCEPT !.cnt = @ + Count(values, b),
                                                !.val = IF b = v THEN val ELSE @]]
           m == s.cells + n
<1>1. s.cells \in Nat /\ DOMAIN s.mem \subseteq 1..s.cells /\ n \in Nat /\ DOMAIN values = 1..n
  BY SeqFacts DEF Shape
<1>2. DOMAIN s.mem \cap Fresh(s, n) = {}
  <2> HIDE DEF n
  <2> QED
    BY <1>1 DEF Fresh
<1>3. t = [unit |-> units, mem |-> all, units |-> s.units, cells |-> m]
  <2>1. t = [s EXCEPT !.unit = units, !.cells = m, !.mem = all]
    BY DEF StoreAll, Fresh
  <2>2. IsStore(s)
    BY ShapeStore
  <2> HIDE DEF units, m, all
  <2> QED
    BY <2>1, <2>2 DEF IsStore
<1>4. \A b \in DOMAIN s.unit :
        units[b] = [type |-> s.unit[b].type, cnt |-> s.unit[b].cnt + Count(values, b),
                    val |-> IF b = v THEN val ELSE s.unit[b].val]
  <2> TAKE b \in DOMAIN s.unit
  <2> DEFINE k == Count(values, b)
             u == s.unit[b]
  <2>1. units[b] = [u EXCEPT !.cnt = @ + k, !.val = IF b = v THEN val ELSE @]
    OBVIOUS
  <2>2. IsUnit(u)
    BY ShapeStore
  <2> HIDE DEF k, u, units
  <2>3. units[b] = [type |-> u.type, cnt |-> u.cnt + k, val |-> IF b = v THEN val ELSE u.val]
    BY <2>1, <2>2 DEF IsUnit
  <2> QED
    BY <2>3 DEF k, u
<1>5. DOMAIN units = DOMAIN s.unit /\ units = [b \in DOMAIN units |-> units[b]]
  OBVIOUS
<1>6. /\ DOMAIN all = DOMAIN s.mem \cup Fresh(s, n)
      /\ all = [c \in DOMAIN all |-> all[c]]
      /\ \A c \in DOMAIN s.mem : all[c] = s.mem[c]
      /\ \A c \in Fresh(s, n) : all[c] = values[c - s.cells]
  <2> HIDE DEF n
  <2> QED
    BY <1>2 DEF Extended
<1> HIDE DEF all, units, new
<1>7. \A i \in DOMAIN values : all[s.cells + i] = values[i]
  <2> HIDE DEF n
  <2> TAKE i \in DOMAIN values
  <2>1. i \in Nat /\ s.cells + i \in Fresh(s, n) /\ (s.cells + i) - s.cells = i
    BY <1>1 DEF Fresh
  <2> QED
    BY <1>6, <2>1
<1>8. t.unit = units /\ t.mem = all
  <2> HIDE DEF m
  <2> QED
    BY <1>3
<1>9. t = [unit |-> t.unit, mem |-> t.mem, units |-> s.units, cells |-> m]
  <2> HIDE DEF m
  <2> QED
    BY <1>3, <1>8
<1>10. /\ DOMAIN t.unit = DOMAIN s.unit /\ t.unit = [b \in DOMAIN t.unit |-> t.unit[b]]
       /\ DOMAIN t.mem = DOMAIN s.mem \cup Fresh(s, n)
       /\ t.mem = [c \in DOMAIN t.mem |-> t.mem[c]]
       /\ \A c \in DOMAIN s.mem : t.mem[c] = s.mem[c]
       /\ \A i \in DOMAIN values : t.mem[s.cells + i] = values[i]
  BY <1>5, <1>6, <1>7, <1>8
<1>11. \A b \in DOMAIN s.unit :
        t.unit[b] = [type |-> s.unit[b].type, cnt |-> s.unit[b].cnt + Count(values, b),
                     val |-> IF b = v THEN val ELSE s.unit[b].val]
  BY <1>4, <1>8
<1> QED
  BY <1>9, <1>10, <1>11 DEF m, StoreAllIs

(* The contents val suit unit v, with n new cells.                          *)
SuitsFresh(s, v, val, n) ==
  /\ v \in DOMAIN s.unit /\ s.unit[v].type # "function"
  /\ WellVal(s.unit[v].type, val) /\ Separate(s.unit[v].type, val)
  /\ Cells([type |-> s.unit[v].type, val |-> val]) \subseteq Cells(s.unit[v]) \cup Fresh(s, n)
  /\ s.unit[v].type = "closure" => Len(val) >= Len(s.unit[v].val)
LEMMA StoreAllSound ==
  ASSUME NEW s, NEW refs, NEW account, Sound(s, refs, account),
         NEW values, IsSeq(values), \A i \in DOMAIN values : values[i] \in Held(s),
         NEW v, NEW val, SuitsFresh(s, v, val, Len(values)),
         NEW t, t = StoreAll(s, v, val, values)
  PROVE  /\ Sound(t, refs, account)
         /\ StoreAllIs(s, v, val, values, t)
<1> DEFINE n == Len(values)
           new == [type |-> s.unit[v].type, val |-> val]
<1>1. Shape(s) /\ Owned(s) /\ Valid(s, refs) /\ refs \in [Int -> Int] /\ s.cells \in Nat
      /\ \A b \in DOMAIN s.unit : WellUnit(s.unit[b])
  BY DEF Sound, Shape
<1>2. DOMAIN s.unit \subseteq Int
  BY Addresses
<1>3. StoreAllIs(s, v, val, values, t)
  BY <1>1, StoreAllFacts
<1>4. v \in DOMAIN s.unit /\ s.unit[v].type # "function"
      /\ WellVal(s.unit[v].type, val) /\ Separate(s.unit[v].type, val)
      /\ Cells(new) \subseteq Cells(s.unit[v]) \cup Fresh(s, n)
      /\ (s.unit[v].type = "closure" => Len(val) >= Len(s.unit[v].val))
  BY DEF SuitsFresh
<1>5. ASSUME NEW b \in DOMAIN s.unit
      PROVE  /\ WellUnit(t.unit[b])
             /\ t.unit[b].type = s.unit[b].type
             /\ t.unit[b].val = IF b = v THEN val ELSE s.unit[b].val
             /\ t.unit[b].cnt = s.unit[b].cnt + Count(values, b)
  <2> DEFINE w == IF b = v THEN val ELSE s.unit[b].val
             k == Count(values, b)
             u == s.unit[b]
             x == t.unit[b]
  <2>1. x = [type |-> u.type, cnt |-> u.cnt + k, val |-> w]
    BY <1>3 DEF StoreAllIs
  <2>2. k \in Nat
    BY CountNat
  <2>3. u.cnt \in Nat /\ WellVal(u.type, u.val)
    BY <1>1 DEF WellUnit
  <2>4. WellVal(u.type, w)
    BY <1>4, <2>3
  <2> HIDE DEF w, k, u, x
  <2>5. x.type = u.type /\ x.cnt = u.cnt + k /\ x.val = w /\ x.cnt \in Nat
    BY <2>1, <2>2, <2>3
  <2>6. WellUnit(x)
    BY <2>1, <2>4, <2>5 DEF WellUnit
  <2> QED
    BY <2>5, <2>6 DEF w, k, u, x
<1>6. n \in Nat /\ DOMAIN values = 1..n
  BY SeqFacts
<1>7. ASSUME NEW c \in Fresh(s, n) PROVE t.mem[c] \in DOMAIN s.unit \cup {None}
  <2>1. c - s.cells \in 1..n /\ s.cells + (c - s.cells) = c
    <3> HIDE DEF n
    <3>1. s.cells \in Nat /\ n \in Nat
      BY <1>1, <1>6
    <3> QED
      BY <1>7, <3>1 DEF Fresh
  <2>2. t.mem[s.cells + (c - s.cells)] = values[c - s.cells]
    BY <1>3, <1>6, <2>1 DEF StoreAllIs
  <2> QED
    BY <1>6, <2>1, <2>2 DEF Held
<1>8. /\ Separate(t.unit[v].type, t.unit[v].val)
      /\ Cells(t.unit[v]) = Cells(new)
  <2>1. t.unit[v].type = s.unit[v].type /\ t.unit[v].val = val
    BY <1>4, <1>5
  <2>2. new.type = s.unit[v].type /\ new.val = val
    OBVIOUS
  <2> HIDE DEF new
  <2> QED
    BY <1>4, <2>1, <2>2, SameContents
<1> HIDE DEF new
<1>9. Cells(t.unit[v]) \subseteq DOMAIN s.mem \cup Fresh(s, n)
      /\ \A b \in DOMAIN s.unit : b # v => Cells(t.unit[v]) \cap Cells(s.unit[b]) = {}
  <2>1. \A b \in DOMAIN s.unit : Cells(s.unit[b]) \subseteq DOMAIN s.mem
    BY <1>1 DEF Owned
  <2>2. \A b \in DOMAIN s.unit : b # v => Cells(s.unit[v]) \cap Cells(s.unit[b]) = {}
    BY <1>1, <1>4 DEF Owned
  <2>3. DOMAIN s.mem \cap Fresh(s, n) = {}
    <3> HIDE DEF n
    <3>1. DOMAIN s.mem \subseteq 1..s.cells /\ s.cells \in Nat /\ n \in Nat
      BY <1>1, <1>6 DEF Shape
    <3> QED
      BY <3>1 DEF Fresh
  <2>4. Cells(t.unit[v]) \subseteq Cells(s.unit[v]) \cup Fresh(s, n)
    BY <1>4, <1>8
  <2> HIDE DEF n
  <2>5. Cells(t.unit[v]) \subseteq DOMAIN s.mem \cup Fresh(s, n)
    BY <1>4, <2>1, <2>4
  <2>6. ASSUME NEW b \in DOMAIN s.unit, b # v
        PROVE  Cells(t.unit[v]) \cap Cells(s.unit[b]) = {}
    <3>1. Cells(s.unit[b]) \subseteq DOMAIN s.mem /\ Cells(s.unit[v]) \cap Cells(s.unit[b]) = {}
      BY <2>1, <2>2, <2>6
    <3> QED
      BY <2>3, <2>4, <3>1
  <2> QED
    BY <2>5, <2>6
<1>10. /\ t = [unit |-> t.unit, mem |-> t.mem, units |-> s.units, cells |-> s.cells + n]
       /\ DOMAIN t.unit = DOMAIN s.unit
       /\ t.unit = [b \in DOMAIN t.unit |-> t.unit[b]]
       /\ DOMAIN t.mem = DOMAIN s.mem \cup Fresh(s, n)
       /\ t.mem = [c \in DOMAIN t.mem |-> t.mem[c]]
       /\ \A c \in DOMAIN s.mem : t.mem[c] = s.mem[c]
  BY <1>3 DEF StoreAllIs
<1>11. \A b \in DOMAIN s.unit : /\ WellUnit(t.unit[b])
                                /\ t.unit[b].type = s.unit[b].type
                                /\ b # v => t.unit[b].val = s.unit[b].val
  BY <1>5
<1>12. Refills(s, t, v, n)
  <2> HIDE DEF n
  <2> QED
    BY <1>4, <1>6, <1>7, <1>8, <1>9, <1>10, <1>11 DEF Refills
<1>13. Covered(s, t, n, refs, refs)
  <2>1. ASSUME NEW b \in DOMAIN s.unit
        PROVE  refs[b] + InCells(t, Fresh(s, n), b) + s.unit[b].cnt <= refs[b] + t.unit[b].cnt
    <3> DEFINE x == s.unit[b].cnt
               z == InCells(t, Fresh(s, n), b)
               k == Count(values, b)
    <3>1. x \in Nat /\ t.unit[b].cnt = x + k
      BY <1>1, <1>5 DEF WellUnit
    <3>2. z = k
      <4>1. \A i \in DOMAIN values : t.mem[s.cells + i] = values[i]
        BY <1>3 DEF StoreAllIs
      <4> QED
        BY <1>1, <4>1, FreshCount
    <3>3. refs[b] \in Int /\ k \in Nat
      BY <1>1, <1>2, CountNat
    <3> HIDE DEF x, z, k
    <3>4. refs[b] + z + x <= refs[b] + (x + k)
      BY <3>1, <3>2, <3>3
    <3> QED
      BY <3>1, <3>4 DEF x, z
  <2> QED
    BY <1>1, <2>1 DEF Covered, Valid
<1>14. v \in DOMAIN s.unit /\ s.unit[v].type = "closure" =>
           /\ Len(s.unit[v].val) \in Int /\ Len(t.unit[v].val) \in Int
           /\ Len(t.unit[v].val) >= Len(s.unit[v].val)
  <2> SUFFICES ASSUME s.unit[v].type = "closure"
               PROVE  /\ Len(s.unit[v].val) \in Int /\ Len(t.unit[v].val) \in Int
                      /\ Len(t.unit[v].val) >= Len(s.unit[v].val)
    OBVIOUS
  <2>1. IsSeq(s.unit[v].val) /\ IsSeq(val)
    <3>1. WellVal("closure", s.unit[v].val) /\ WellVal("closure", val)
      BY <1>1, <1>4 DEF WellUnit
    <3> QED
      BY <3>1 DEF WellVal
  <2>2. t.unit[v].val = val /\ Len(val) >= Len(s.unit[v].val)
    BY <1>4, <1>5
  <2>3. Len(s.unit[v].val) \in Nat /\ Len(val) \in Nat
    BY <2>1, SeqFacts
  <2> QED
    BY <2>2, <2>3
<1>15. Sound(t, refs, account)
  <2> HIDE DEF n
  <2> QED
    BY <1>12, <1>13, <1>14, RefillKeeps
<1> QED
  BY <1>3, <1>15

LEMMA NatSeq ==
  ASSUME NEW n \in Nat, NEW q, q = [i \in 1..n |-> q[i]], \A i \in 1..n : q[i] \in Nat
  PROVE  q \in Seq(Nat) /\ Len(q) = n
OBVIOUS

LEMMA NatConcat ==
  ASSUME NEW q \in Seq(Nat), NEW r \in Seq(Nat), NEW w, w = q \o r
  PROVE  /\ w \in Seq(Nat) /\ Len(w) = Len(q) + Len(r)
         /\ \A i \in 1..(Len(q) + Len(r)) : w[i] = IF i <= Len(q) THEN q[i] ELSE r[i - Len(q)]
OBVIOUS

LEMMA VectorAddAllSound ==
  ASSUME NEW s, NEW refs, NEW account, Sound(s, refs, account),
         NEW values, IsSeq(values), \A i \in DOMAIN values : values[i] \in Held(s),
         NEW v \in DOMAIN s.unit, s.unit[v].type = "vector"
  PROVE  Sound(VectorAddAll(s, v, values), refs, account)
<1> DEFINE n == Len(values)
           old == s.unit[v].val
           k == Len(old)
           cells == [i \in DOMAIN values |-> s.cells + i]
           val == old \o cells
           new == [type |-> s.unit[v].type, val |-> val]
           t == VectorAddAll(s, v, values)
<1>1. Shape(s) /\ Owned(s) /\ s.cells \in Nat /\ DOMAIN s.mem \subseteq 1..s.cells
  BY DEF Sound, Shape
<1>2. n \in Nat /\ DOMAIN values = 1..n
  BY SeqFacts
<1>3. old \in Seq(Nat)
  <2>1. WellVal("vector", old)
    BY <1>1 DEF Shape, WellUnit
  <2> QED
    BY <2>1 DEF WellVal
<1>4. cells \in Seq(Nat) /\ Len(cells) = n /\ \A i \in 1..n : cells[i] = s.cells + i
  <2> HIDE DEF n
  <2>1. cells = [i \in 1..n |-> s.cells + i]
    BY <1>2
  <2> HIDE DEF cells
  <2>2. \A i \in 1..n : cells[i] = s.cells + i /\ cells[i] \in Nat
    BY <1>1, <1>2, <2>1
  <2>3. cells = [i \in 1..n |-> cells[i]]
    BY <2>1
  <2>4. n \in Nat
    BY <1>2
  <2>5. cells \in Seq(Nat) /\ Len(cells) = n
    BY <2>2, <2>3, <2>4, NatSeq
  <2> QED
    BY <2>2, <2>5
<1>5. Cells(s.unit[v]) = {old[i] : i \in DOMAIN old} /\ Cells(s.unit[v]) \subseteq DOMAIN s.mem
  BY <1>1, CellsByType DEF CellsOf, Owned
<1>6. \A i, j \in DOMAIN old : old[i] = old[j] => i = j
  <2>1. Separate("vector", old)
    BY <1>1 DEF Owned
  <2> QED
    BY <2>1 DEF Separate
<1>7. t = StoreAll(s, v, val, values)
  BY DEF VectorAddAll, Val
<1>8. new.type = "vector" /\ new.val = val
  OBVIOUS
<1> HIDE DEF n, old, cells, t, new
<1>9. k \in Nat /\ DOMAIN old = 1..k
  BY <1>3
<1>10. /\ val \in Seq(Nat) /\ DOMAIN val = 1..(k + n)
       /\ \A i \in 1..k : val[i] = old[i]
       /\ \A i \in (k + 1)..(k + n) : val[i] = s.cells + (i - k)
  <2>0. /\ val \in Seq(Nat) /\ Len(val) = Len(old) + Len(cells)
        /\ \A i \in 1..(Len(old) + Len(cells)) :
             val[i] = IF i <= Len(old) THEN old[i] ELSE cells[i - Len(old)]
    <3>1. cells \in Seq(Nat)
      BY <1>4
    <3> QED
      BY <1>3, <3>1, NatConcat
  <2>1. val \in Seq(Nat) /\ Len(val) = k + n
    BY <1>4, <2>0
  <2>2. \A i \in 1..(k + n) : val[i] = IF i <= k THEN old[i] ELSE cells[i - k]
    BY <1>4, <2>0
  <2>3. \A i \in (k + 1)..(k + n) : i \in 1..(k + n) /\ ~(i <= k) /\ i - k \in 1..n
    BY <1>2, <1>9
  <2>4. \A i \in 1..k : i \in 1..(k + n) /\ i <= k
    BY <1>2, <1>9
  <2> HIDE DEF val, k
  <2>5. DOMAIN val = 1..(k + n)
    BY <2>1
  <2> QED
    BY <1>4, <2>1, <2>2, <2>3, <2>4, <2>5
<1> HIDE DEF val, k
<1>11. \A i \in 1..(k + n) : i \in 1..k \/ i \in (k + 1)..(k + n)
  BY <1>2, <1>9
<1>12. \A i \in (k + 1)..(k + n) : s.cells + (i - k) \in Fresh(s, n) /\ i - k \in Int /\ i \in Int
  BY <1>1, <1>2, <1>9 DEF Fresh
<1>13. \A i \in 1..k : old[i] \in DOMAIN s.mem
  BY <1>5, <1>9
<1>14. \A c \in DOMAIN s.mem : c \notin Fresh(s, n)
  BY <1>1, <1>2 DEF Fresh
<1>15. Separate("vector", val)
  <2>1. ASSUME NEW i \in 1..(k + n), NEW j \in 1..(k + n), val[i] = val[j] PROVE i = j
    <3>1. CASE i \in 1..k /\ j \in 1..k
      BY <1>6, <1>9, <1>10, <2>1, <3>1
    <3>2. CASE i \in (k + 1)..(k + n) /\ j \in (k + 1)..(k + n)
      <4>1. s.cells + (i - k) = s.cells + (j - k)
        BY <1>10, <2>1, <3>2
      <4> QED
        BY <1>1, <1>9, <1>12, <3>2, <4>1
    <3>3. CASE i \in 1..k /\ j \in (k + 1)..(k + n)
      BY <1>10, <1>12, <1>13, <1>14, <2>1, <3>3
    <3>4. CASE j \in 1..k /\ i \in (k + 1)..(k + n)
      BY <1>10, <1>12, <1>13, <1>14, <2>1, <3>4
    <3> QED
      BY <1>11, <3>1, <3>2, <3>3, <3>4
  <2> QED
    BY <1>10, <2>1 DEF Separate
<1>16. WellVal("vector", val)
  BY <1>10 DEF WellVal
<1>17. Cells(new) \subseteq Cells(s.unit[v]) \cup Fresh(s, n)
  <2>1. Cells(new) = {val[i] : i \in DOMAIN val}
    BY <1>8, CellsByType DEF CellsOf
  <2>2. \A i \in 1..k : val[i] \in Cells(s.unit[v])
    BY <1>5, <1>9, <1>10
  <2>3. \A i \in (k + 1)..(k + n) : val[i] \in Fresh(s, n)
    BY <1>10, <1>12
  <2> QED
    BY <1>10, <1>11, <2>1, <2>2, <2>3
<1>18. SuitsFresh(s, v, val, n)
  BY <1>15, <1>16, <1>17 DEF SuitsFresh, new
<1>19. Sound(t, refs, account)
  BY <1>7, <1>18, StoreAllSound DEF n
<1> QED
  BY <1>19 DEF t

LEMMA VectorAddNewSound ==
  ASSUME NEW s, NEW refs, NEW account, Sound(s, refs, account),
         NEW vals, IsSeq(vals), NEW type \in {"nil", "string"},
         NEW v \in DOMAIN s.unit, s.unit[v].type = "vector"
  PROVE  Sound(VectorAddNew(s, v, type, vals), refs, account)
<1> DEFINE n == Len(vals)
           new == [b \in NewUnits(s, n) |-> [type |-> type, cnt |-> 0, val |-> vals[b - s.units]]]
           made == [s EXCEPT !.units = @ + n, !.unit = Extended(@, new)]
           values == [i \in DOMAIN vals |-> s.units + i]
<1>1. Shape(s) /\ s.units \in Nat /\ Valid(s, refs) /\ refs \in [Int -> Int]
  BY DEF Sound, Shape
<1>2. n \in Nat /\ DOMAIN vals = 1..n
  BY SeqFacts
<1>3. VectorAddNew(s, v, type, vals) = VectorAddAll(made, v, values)
  BY DEF VectorAddNew, NewUnits
<1> HIDE DEF n
<1>4. \A b \in NewUnits(s, n) : NewUnit(new[b]) /\ new[b].cnt = 0 /\ new[b].type = type
  <2> TAKE b \in NewUnits(s, n)
  <2> DEFINE x == vals[b - s.units]
  <2>1. new[b] = [type |-> type, cnt |-> 0, val |-> x]
    OBVIOUS
  <2> HIDE DEF x, new
  <2> DEFINE u == new[b]
  <2>2. u.type = type /\ u.cnt = 0 /\ u.val = x /\ u = [type |-> type, cnt |-> 0, val |-> x]
    BY <2>1
  <2> HIDE DEF u
  <2>3. WellUnit(u)
    BY <2>2 DEF WellUnit, WellVal
  <2>4. Bare(u) /\ Separate(u.type, u.val)
    <3>1. Cells(u) = {} /\ Direct(u) = <<>>
      BY <2>2, CellsByType
    <3> QED
      BY <2>2, <3>1 DEF Bare, Separate
  <2>5. NewUnit(u)
    BY <2>2, <2>3, <2>4 DEF NewUnit
  <2> QED
    BY <2>2, <2>5 DEF u
<1>5. new = [b \in NewUnits(s, n) |-> new[b]]
  OBVIOUS
<1>6. made = [unit |-> Extended(s.unit, new), mem |-> s.mem, units |-> s.units + n, cells |-> s.cells]
  <2> DEFINE all == Extended(s.unit, new)
             m == s.units + n
  <2>1. made = [s EXCEPT !.units = m, !.unit = all]
    OBVIOUS
  <2>2. IsStore(s)
    BY <1>1, ShapeStore
  <2> HIDE DEF all, m, made
  <2>3. made = [unit |-> all, mem |-> s.mem, units |-> m, cells |-> s.cells]
    BY <2>1, <2>2 DEF IsStore
  <2> QED
    BY <2>3 DEF all, m
<1> HIDE DEF new, made
<1>7. Adds(s, made, n) /\ \A b \in NewUnits(s, n) : made.unit[b] = new[b]
  <2>1. \A b \in NewUnits(s, n) : NewUnit(new[b])
    BY <1>4
  <2>2. Shape(s) /\ n \in Nat
    BY <1>1, <1>2
  <2> QED
    BY <1>5, <1>6, <2>1, <2>2, AddsThese
<1>8. /\ DOMAIN made.unit = DOMAIN s.unit \cup NewUnits(s, n)
      /\ \A b \in DOMAIN s.unit : made.unit[b] = s.unit[b]
  BY <1>7 DEF Adds
<1>9. AlsoOwned(s, made, n, refs, refs)
  <2>1. \A b \in DOMAIN s.unit : refs[b] <= refs[b]
    <3> TAKE b \in DOMAIN s.unit
    <3>1. b \in Int
      BY Addresses
    <3>2. refs[b] \in Int
      BY <1>1, <3>1
    <3> QED
      BY <3>2
  <2>2. \A b \in NewUnits(s, n) : refs[b] <= made.unit[b].cnt
    <3> TAKE b \in NewUnits(s, n)
    <3>1. refs[b] <= 0
      BY <1>2, NextOwned
    <3>2. made.unit[b].cnt = 0
      BY <1>4, <1>7
    <3> QED
      BY <3>1, <3>2
  <2>3. \A a \in Int : a # None /\ refs[a] > 0 => a \in DOMAIN made.unit
    BY <1>1, <1>8 DEF Valid
  <2> QED
    BY <1>1, <2>1, <2>2, <2>3 DEF AlsoOwned
<1>10. AlsoOpen(s, made, n, account, account)
  <2>1. \A b \in NewUnits(s, n) : made.unit[b].type # "function"
    BY <1>4, <1>7
  <2> QED
    BY <2>1 DEF AlsoOpen
<1>11. Sound(made, refs, account)
  BY <1>7, <1>9, <1>10, AddsSound
<1>12. v \in DOMAIN made.unit /\ made.unit[v].type = "vector"
  BY <1>8
<1>13. IsSeq(values) /\ \A i \in DOMAIN values : values[i] \in Held(made)
  <2>1. values = [i \in 1..n |-> s.units + i]
    BY <1>2
  <2> HIDE DEF values
  <2>0. s.units \in Nat /\ n \in Nat
    BY <1>1, <1>2
  <2>2. \A i \in 1..n : values[i] \in Nat /\ values[i] \in NewUnits(s, n)
    BY <2>0, <2>1 DEF NewUnits
  <2>3. values = [i \in 1..n |-> values[i]] /\ DOMAIN values = 1..n
    BY <2>1
  <2>4. values \in Seq(Nat)
    BY <2>0, <2>2, <2>3, NatSeq
  <2> QED
    BY <1>8, <2>2, <2>3, <2>4, SeqIntro DEF Held
<1> HIDE DEF values
<1>14. Sound(VectorAddAll(made, v, values), refs, account)
  BY <1>11, <1>12, <1>13, VectorAddAllSound
<1> QED
  BY <1>3, <1>14

-----------------------------------------------------------------------------
(* Functions.                                                               *)

LEMMA InUnitsOne ==
  ASSUME NEW s, NEW f, IsSeq(Direct(s.unit[f])), NEW a
  PROVE  InUnits(s, {f}, a) = Count(Direct(s.unit[f]), a) /\ Count(Direct(s.unit[f]), a) \in Nat
<1> DEFINE d == Direct(s.unit[f])
           S == {i \in DOMAIN d : d[i] = a}
           T == DirectsTo(s, {f}, a)
           g == [i \in S |-> <<f, i>>]
<1>1. IsFiniteSet(S) /\ Cardinality(S) = Count(d, a) /\ Count(d, a) \in Nat
  BY CountNat DEF Count
<1>2. T = {p \in {f} \X DOMAIN d : d[p[2]] = a}
  <2>1. DirectPlaces(s, {f}) = {f} \X DOMAIN d
    BY DEF DirectPlaces
  <2>2. T = {p \in {f} \X DOMAIN d : Direct(s.unit[p[1]])[p[2]] = a}
    BY <2>1 DEF DirectsTo
  <2>3. \A p \in {f} \X DOMAIN d : p[1] = f
    OBVIOUS
  <2>4. \A p \in {f} \X DOMAIN d : Direct(s.unit[p[1]])[p[2]] = d[p[2]]
    BY <2>3
  <2> HIDE DEF d, T
  <2> QED
    BY <2>2, <2>4
<1> HIDE DEF d
<1>3. g \in Surjection(S, T)
  <2>1. \A i \in S : <<f, i>> \in T
    BY <1>2
  <2>2. \A p \in T : \E i \in S : p = <<f, i>>
    BY <1>2
  <2> HIDE DEF S, T
  <2> QED
    BY <2>1, <2>2 DEF Surjection
<1>4. g \in Injection(S, T)
  <2>1. g \in [S -> T]
    BY <1>3 DEF Surjection
  <2>2. \A i, j \in S : g[i] = g[j] => i = j
    OBVIOUS
  <2> HIDE DEF g, S, T
  <2> QED
    BY <2>1, <2>2 DEF Injection, IsInjective
<1> HIDE DEF S, T, g
<1>5. Cardinality(T) = Cardinality(S)
  BY <1>1, <1>3, <1>4, FS_Surjection
<1>6. InUnits(s, {f}, a) = Cardinality(T)
  BY DEF InUnits, DirectsTo, T
<1> QED
  BY <1>1, <1>5, <1>6 DEF d

LEMMA DirectOf ==
  ASSUME NEW val, WellFunction(val), NEW type, NEW cnt,
         NEW u, u = [type |-> type, cnt |-> cnt, val |-> val]
  PROVE  /\ type = "function" => Direct(u) = <<val.closure>> \o val.default
         /\ IsSeq(<<val.closure>> \o val.default) /\ IsSeq(val.default)
         /\ Len(<<val.closure>> \o val.default) = 1 + Len(val.default)
         /\ (<<val.closure>> \o val.default)[1] = val.closure
         /\ \A i \in 1..Len(val.default) : (<<val.closure>> \o val.default)[i + 1] = val.default[i]
         /\ Len(val.default) \in Nat /\ DOMAIN val.default = 1..Len(val.default)
<1> DEFINE c == val.closure
           q == val.default
           d == <<c>> \o q
<1>1. q \in Seq(Int) /\ c \in Int
  BY DEF WellFunction
<1>2. type = "function" => Direct(u) = d
  BY DEF Direct
<1> HIDE DEF c, q
<1>3. d \in Seq(Int) /\ Len(d) = 1 + Len(q) /\ d[1] = c /\ \A i \in 1..Len(q) : d[i + 1] = q[i]
  BY <1>1
<1>4. IsSeq(d) /\ IsSeq(q)
  BY <1>1, <1>3, SeqIntro
<1>5. Len(q) \in Nat /\ DOMAIN q = 1..Len(q)
  BY <1>1
<1> QED
  BY <1>2, <1>3, <1>4, <1>5 DEF c, q

LEMMA CountClosure ==
  ASSUME NEW c \in Int, NEW q \in Seq(Int), NEW a
  PROVE  Count(<<c>> \o q, a) = (IF c = a THEN 1 ELSE 0) + Count(q, a) /\ Count(q, a) \in Nat
<1> DEFINE d == <<c>> \o q
           S == {i \in DOMAIN q : q[i] = a}
           T == {i \in DOMAIN d : d[i] = a}
           g == [i \in S |-> i + 1]
           R == {i \in 2..(Len(q) + 1) : d[i] = a}
<1>1. /\ Len(q) \in Nat /\ DOMAIN q = 1..Len(q) /\ DOMAIN d = 1..(Len(q) + 1) /\ d[1] = c
      /\ \A i \in 1..Len(q) : d[i + 1] = q[i]
  OBVIOUS
<1> HIDE DEF d
<1>2. IsSeq(q)
  BY SeqIntro
<1>3. IsFiniteSet(S) /\ Cardinality(S) = Count(q, a) /\ Count(q, a) \in Nat
  BY <1>2, CountNat DEF Count
<1>4. g \in Surjection(S, R) /\ g \in Injection(S, R)
  <2>1. \A i \in S : i + 1 \in R /\ i \in Int
    BY <1>1
  <2>2. \A j \in R : j - 1 \in S /\ j = (j - 1) + 1
    <3> TAKE j \in R
    <3>1. j - 1 \in 1..Len(q) /\ j = (j - 1) + 1
      BY <1>1
    <3> QED
      BY <1>1, <3>1
  <2>3. \A i, j \in S : i + 1 = j + 1 => i = j
    BY <2>1
  <2> HIDE DEF S, R
  <2>4. g \in [S -> R] /\ \A i \in S : g[i] = i + 1
    BY <2>1
  <2> HIDE DEF g
  <2>5. g \in Surjection(S, R)
    BY <2>2, <2>4 DEF Surjection
  <2>6. g \in Injection(S, R)
    BY <2>3, <2>4 DEF Injection, IsInjective
  <2> QED
    BY <2>5, <2>6
<1>5. IsFiniteSet(R) /\ Cardinality(R) = Cardinality(S)
  <2> HIDE DEF g, S, R
  <2> QED
    BY <1>3, <1>4, FS_Surjection
<1>6. T = IF c = a THEN R \cup {1} ELSE R
  <2>1. DOMAIN d = {1} \cup (2..(Len(q) + 1))
    BY <1>1
  <2> QED
    BY <1>1, <2>1
<1>7. 1 \notin R
  OBVIOUS
<1>8. Cardinality(T) = Cardinality(R) + (IF c = a THEN 1 ELSE 0)
  <2> HIDE DEF T, R
  <2>1. CASE c = a
    <3>1. Cardinality(R \cup {1}) = Cardinality(R) + 1
      BY <1>5, <1>7, FS_AddElement
    <3> QED
      BY <1>6, <2>1, <3>1
  <2>2. CASE c # a
    <3>1. Cardinality(R) \in Nat
      BY <1>5, FS_CardinalityType
    <3> QED
      BY <1>6, <2>2, <3>1
  <2> QED
    BY <2>1, <2>2
<1>9. Count(d, a) = Cardinality(T)
  BY DEF Count
<1> HIDE DEF T, R, S
<1> QED
  BY <1>3, <1>5, <1>8, <1>9 DEF d

(* Function f gets other contents; owned and refs are the user's references *)
(* after and before.                                                        *)
Reshaped(s, f, val, refs, owned, account, after) ==
  LET old == Direct(s.unit[f])
      new == <<val.closure>> \o val.default
  IN /\ f \in DOMAIN s.unit /\ s.unit[f].type = "function"
     /\ WellFunction(val)
     /\ \A i \in DOMAIN new : new[i] \in Held(s)
     /\ owned \in [Int -> Int]
     /\ \A b \in DOMAIN s.unit : owned[b] + Count(new, b) <= refs[b] + Count(old, b)
     /\ \A a \in Int : owned[a] > 0 => a \in Held(s)
     /\ \/ val.closure \in DOMAIN s.unit /\ s.unit[val.closure].type = "closure"
        \/ val.closure = None /\ f \in after.open
     /\ after.scopes = account.scopes /\ after.kind = account.kind
     /\ \A b \in account.open : b # f => b \in after.open

LEMMA FunctionSound ==
  ASSUME NEW s, NEW refs, NEW account, Sound(s, refs, account),
         NEW f, NEW val, NEW owned, NEW after, Reshaped(s, f, val, refs, owned, account, after),
         NEW t, t = SetVal(s, f, val)
  PROVE  Sound(t, owned, after) /\ SetValIs(s, f, val, t)
<1> DEFINE old == Direct(s.unit[f])
           new == <<val.closure>> \o val.default
           U == DOMAIN s.unit
<1>1. Shape(s) /\ Owned(s) /\ Counted(s, refs) /\ Valid(s, refs) /\ Typed(s, account)
      /\ refs \in [Int -> Int] /\ \A b \in DOMAIN s.unit : WellUnit(s.unit[b])
  BY DEF Sound, Shape
<1>2. /\ f \in U /\ s.unit[f].type = "function"
      /\ WellFunction(val)
      /\ \A i \in DOMAIN new : new[i] \in Held(s)
      /\ owned \in [Int -> Int]
      /\ \A b \in U : owned[b] + Count(new, b) <= refs[b] + Count(old, b)
      /\ \A a \in Int : owned[a] > 0 => a \in Held(s)
      /\ \/ val.closure \in U /\ s.unit[val.closure].type = "closure"
         \/ val.closure = None /\ f \in after.open
      /\ after.scopes = account.scopes /\ after.kind = account.kind
      /\ \A b \in account.open : b # f => b \in after.open
  BY DEF Reshaped
<1>3. SetValIs(s, f, val, t)
  <2>1. IsStore(s) /\ IsUnit(s.unit[f])
    BY <1>1, <1>2, ShapeStore
  <2> QED
    BY <1>2, <2>1, SetValFacts
<1>4. /\ t = [unit |-> t.unit, mem |-> s.mem, units |-> s.units, cells |-> s.cells]
      /\ DOMAIN t.unit = U
      /\ t.unit = [b \in DOMAIN t.unit |-> t.unit[b]]
      /\ \A b \in U : b # f => t.unit[b] = s.unit[b]
      /\ t.unit[f] = [type |-> s.unit[f].type, cnt |-> s.unit[f].cnt, val |-> val]
  BY <1>3 DEF SetValIs
<1>5. t.mem = s.mem /\ t.units = s.units /\ t.cells = s.cells
  BY <1>4
<1>6. t.unit[f].type = "function" /\ t.unit[f].cnt = s.unit[f].cnt /\ t.unit[f].val = val
      /\ WellUnit(t.unit[f]) /\ Direct(t.unit[f]) = new
  <2> DEFINE u == t.unit[f]
             k == s.unit[f].cnt
  <2>1. u = [type |-> "function", cnt |-> k, val |-> val]
    BY <1>2, <1>4
  <2>2. k \in Nat
    BY <1>1, <1>2 DEF WellUnit
  <2>3. Direct(u) = new
    BY <1>2, <2>1, DirectOf
  <2> HIDE DEF u, k, new
  <2>4. u.type = "function" /\ u.cnt = k /\ u.val = val
    BY <2>1
  <2>5. WellUnit(u)
    BY <1>2, <2>1, <2>2, <2>4 DEF WellUnit, WellVal
  <2> QED
    BY <2>3, <2>4, <2>5 DEF u, k
<1>7. \A b \in U : /\ t.unit[b].type = s.unit[b].type /\ t.unit[b].cnt = s.unit[b].cnt
                   /\ Cells(t.unit[b]) = Cells(s.unit[b])
                   /\ b # f => t.unit[b] = s.unit[b] /\ Direct(t.unit[b]) = Direct(s.unit[b])
                   /\ Separate(t.unit[b].type, t.unit[b].val)
                   /\ WellUnit(t.unit[b])
  <2> TAKE b \in U
  <2>1. CASE b = f
    <3>1. Cells(t.unit[f]) = {} /\ Cells(s.unit[f]) = {}
      BY <1>2, <1>6, CellsByType
    <3>2. Separate(t.unit[f].type, t.unit[f].val)
      BY <1>6 DEF Separate
    <3> QED
      BY <1>2, <1>6, <2>1, <3>1, <3>2
  <2>2. CASE b # f
    BY <1>1, <1>4, <2>2 DEF Owned
  <2> QED
    BY <2>1, <2>2
<1>8. Shape(t)
  <2>1. s.mem = [c \in DOMAIN s.mem |-> s.mem[c]] /\ DOMAIN s.mem \subseteq 1..s.cells
        /\ s.cells \in Nat /\ s.units \in Nat /\ DOMAIN s.unit \subseteq 1..s.units
    BY <1>1 DEF Shape
  <2>2. t = [unit |-> t.unit, mem |-> t.mem, units |-> t.units, cells |-> t.cells]
    BY <1>4, <1>5
  <2>3. \A b \in DOMAIN t.unit : WellUnit(t.unit[b])
    BY <1>4, <1>7
  <2> QED
    BY <1>4, <1>5, <2>1, <2>2, <2>3 DEF Shape
<1>9. Owned(t)
  <2>1. \A b \in U : Cells(t.unit[b]) \subseteq DOMAIN t.mem
    BY <1>1, <1>5, <1>7 DEF Owned
  <2>2. \A b, d \in U : b # d => Cells(t.unit[b]) \cap Cells(t.unit[d]) = {}
    BY <1>1, <1>7 DEF Owned
  <2> QED
    BY <1>4, <1>7, <2>1, <2>2 DEF Owned
<1> HIDE DEF old, new, U
<1>10. Counted(t, owned)
  <2> SUFFICES ASSUME NEW b \in U PROVE t.unit[b].cnt >= owned[b] + HeldInside(t, b)
    BY <1>4 DEF Counted
  <2> DEFINE V == U \ {f}
             x == s.unit[b].cnt
             m == InCells(s, DOMAIN s.mem, b)
             i == InUnits(s, V, b)
             o == Count(old, b)
             n == Count(new, b)
  <2>0. b \in Int
    BY Addresses DEF U
  <2>1. x \in Nat /\ t.unit[b].cnt = x /\ owned[b] \in Int /\ refs[b] \in Int
    BY <1>1, <1>2, <1>7, <2>0 DEF WellUnit, U
  <2>2. /\ IsFiniteSet(U) /\ DirectsInOrder(s, U) /\ DirectsInOrder(t, U)
        /\ V \in SUBSET U /\ U \ V = {f} /\ IsFiniteSet(V)
    <3>1. IsFiniteSet(U) /\ DirectsInOrder(s, U) /\ DirectsInOrder(t, U)
      BY <1>1, <1>4, <1>8, <1>9, Bounded DEF U
    <3> QED
      BY <1>2, <3>1, FS_Subset
  <2>3. InUnits(s, U, b) = i + InUnits(s, {f}, b) /\ i \in Nat
    <3>1. InUnits(s, U, b) = InUnits(s, V, b) + InUnits(s, U \ V, b)
      BY <2>2, InUnitsSplit
    <3>2. DirectsInOrder(s, V)
      BY <2>2 DEF DirectsInOrder
    <3>3. i \in Nat
      BY <2>2, <3>2, InUnitsNat
    <3> QED
      BY <2>2, <3>1, <3>3
  <2>4. InUnits(t, U, b) = i + InUnits(t, {f}, b)
    <3>1. InUnits(t, U, b) = InUnits(t, V, b) + InUnits(t, U \ V, b)
      BY <2>2, InUnitsSplit
    <3>2. InUnits(t, V, b) = InUnits(s, V, b)
      <4>1. \A d \in V : Direct(t.unit[d]) = Direct(s.unit[d])
        BY <1>7
      <4> QED
        BY <4>1, InUnitsSame
    <3> QED
      BY <2>2, <3>1, <3>2
  <2>5. InUnits(s, {f}, b) = o /\ InUnits(t, {f}, b) = n /\ o \in Nat /\ n \in Nat
    <3>1. IsSeq(old) /\ IsSeq(new)
      BY <1>2, <1>6, <2>2 DEF DirectsInOrder, old
    <3>2. InUnits(s, {f}, b) = Count(Direct(s.unit[f]), b) /\ Count(Direct(s.unit[f]), b) \in Nat
      BY <3>1, InUnitsOne DEF old
    <3>3. IsSeq(Direct(t.unit[f]))
      BY <1>6, <3>1
    <3>4. InUnits(t, {f}, b) = Count(Direct(t.unit[f]), b) /\ Count(Direct(t.unit[f]), b) \in Nat
      BY <3>3, InUnitsOne
    <3> QED
      BY <1>6, <3>2, <3>4 DEF old
  <2>6. InCells(t, DOMAIN t.mem, b) = m /\ m \in Nat
    <3>1. m \in Nat
      BY <1>1, HeldNat
    <3> QED
      BY <1>5, <3>1 DEF InCells
  <2>7. HeldInside(s, b) = m + InUnits(s, U, b) /\ HeldInside(t, b) = InCells(t, DOMAIN t.mem, b) + InUnits(t, U, b)
    BY <1>4 DEF HeldInside, U
  <2>8. x >= refs[b] + HeldInside(s, b) /\ owned[b] + n <= refs[b] + o
    BY <1>1, <1>2 DEF Counted, U
  <2> HIDE DEF V, x, m, i, o, n
  <2>9. HeldInside(s, b) = m + (i + o) /\ HeldInside(t, b) = m + (i + n)
    BY <2>3, <2>4, <2>5, <2>6, <2>7
  <2>10. x >= owned[b] + HeldInside(t, b)
    BY <2>1, <2>3, <2>5, <2>6, <2>8, <2>9
  <2> QED
    BY <2>1, <2>10
<1>11. Valid(t, owned)
  <2>1. \A a \in Int : owned[a] > 0 => a \in DOMAIN t.unit \cup {None}
    BY <1>2, <1>4 DEF Held, U
  <2>2. \A c \in DOMAIN t.mem : t.mem[c] \in DOMAIN t.unit \cup {None}
    BY <1>1, <1>4, <1>5 DEF Valid, U
  <2>3. ASSUME NEW b \in DOMAIN t.unit, NEW i \in DOMAIN Direct(t.unit[b])
        PROVE  Direct(t.unit[b])[i] \in DOMAIN t.unit \cup {None}
    <3>1. CASE b = f
      BY <1>2, <1>4, <1>6, <2>3, <3>1 DEF Held, U
    <3>2. CASE b # f
      BY <1>1, <1>4, <1>7, <2>3, <3>2 DEF Valid, U
    <3> QED
      BY <3>1, <3>2
  <2> QED
    BY <2>1, <2>2, <2>3 DEF Valid
<1>12. Typed(t, after)
  <2>1. after.scopes \in [Int -> Nat] /\ DOMAIN after.kind \subseteq 1..t.units
        /\ \A a \in Int : a > t.units => after.scopes[a] = 0
    BY <1>1, <1>2, <1>5 DEF Typed
  <2>2. \A b \in DOMAIN t.unit : b \in DOMAIN after.kind => t.unit[b].type = after.kind[b]
    BY ZenonT(40), <1>1, <1>2, <1>4, <1>7 DEF Typed, U
  <2>3. ASSUME NEW b \in DOMAIN t.unit, t.unit[b].type = "closure"
        PROVE  Len(t.unit[b].val) >= 1 + after.scopes[b]
    <3>1. b # f /\ b \in U
      BY <1>4, <1>6, <2>3
    <3> QED
      BY <1>1, <1>2, <1>7, <2>3, <3>1 DEF Typed, U
  <2>4. ASSUME NEW b \in DOMAIN t.unit, t.unit[b].type = "function"
        PROVE  \/ t.unit[b].val.closure \in DOMAIN t.unit /\ t.unit[t.unit[b].val.closure].type = "closure"
               \/ t.unit[b].val.closure = None /\ b \in after.open
    <3>1. CASE b = f
      BY <1>2, <1>4, <1>6, <1>7, <3>1
    <3>2. CASE b # f
      <4>1. \/ s.unit[b].val.closure \in U /\ s.unit[s.unit[b].val.closure].type = "closure"
            \/ s.unit[b].val.closure = None /\ b \in account.open
        BY <1>1, <1>4, <1>7, <2>4, <3>2 DEF Typed, U
      <4> QED
        BY <1>2, <1>4, <1>7, <2>4, <3>2, <4>1
    <3> QED
      BY <3>1, <3>2
  <2> QED
    BY <2>1, <2>2, <2>3, <2>4 DEF Typed
<1> QED
  BY <1>2, <1>3, <1>8, <1>9, <1>10, <1>11, <1>12 DEF Sound

FunctionFacts(s, refs, account, f) ==
  LET val == s.unit[f].val
      d == <<val.closure>> \o val.default
  IN /\ WellFunction(val) /\ Direct(s.unit[f]) = d
     /\ \A i \in DOMAIN d : d[i] \in Held(s)
     /\ val.closure \in Held(s) /\ \A i \in DOMAIN val.default : val.default[i] \in Held(s)
     /\ \/ val.closure \in DOMAIN s.unit /\ s.unit[val.closure].type = "closure"
        \/ val.closure = None /\ f \in account.open

LEMMA OfFunction ==
  ASSUME NEW s, NEW refs, NEW account, Sound(s, refs, account),
         NEW f \in DOMAIN s.unit, s.unit[f].type = "function"
  PROVE  FunctionFacts(s, refs, account, f)
<1> DEFINE u == s.unit[f]
           val == u.val
           d == <<val.closure>> \o val.default
<1>1. WellUnit(u) /\ Valid(s, refs) /\ Typed(s, account)
  BY DEF Sound, Shape
<1>2. u = [type |-> "function", cnt |-> u.cnt, val |-> val] /\ WellFunction(val)
  BY <1>1 DEF WellUnit, WellVal
<1>3. /\ Direct(u) = d /\ IsSeq(d) /\ Len(d) = 1 + Len(val.default)
      /\ d[1] = val.closure /\ \A i \in 1..Len(val.default) : d[i + 1] = val.default[i]
      /\ Len(val.default) \in Nat /\ DOMAIN val.default = 1..Len(val.default)
  <2> HIDE DEF u
  <2> QED
    BY <1>2, DirectOf
<1>4. \A i \in DOMAIN d : d[i] \in Held(s)
  BY <1>1, <1>3 DEF Valid, Held
<1>5. /\ 1 \in DOMAIN d /\ \A i \in DOMAIN val.default : i + 1 \in DOMAIN d
  <2> HIDE DEF d
  <2>1. DOMAIN d = 1..Len(d)
    BY <1>3, SeqFacts
  <2> QED
    BY <1>3, <2>1
<1>6. \/ val.closure \in DOMAIN s.unit /\ s.unit[val.closure].type = "closure"
      \/ val.closure = None /\ f \in account.open
  BY <1>1 DEF Typed
<1>7. val.closure \in Held(s) /\ \A i \in DOMAIN val.default : val.default[i] \in Held(s)
  <2> HIDE DEF d
  <2>1. \A i \in DOMAIN val.default : val.default[i] = d[i + 1]
    BY <1>3
  <2> QED
    BY <1>3, <1>4, <1>5, <2>1
<1> QED
  BY <1>2, <1>3, <1>4, <1>6, <1>7 DEF FunctionFacts

LEMMA OtherDefault ==
  ASSUME NEW v, NEW e, NEW p, NEW d, NEW y, NEW c, NEW q,
         v = [entry |-> e, para |-> p, default |-> d, dynamic |-> y, closure |-> c],
         NEW w, w = [v EXCEPT !.default = q]
  PROVE  w = [entry |-> e, para |-> p, default |-> q, dynamic |-> y, closure |-> c]
OBVIOUS

LEMMA ParaSound ==
  ASSUME NEW s, NEW refs, NEW account, Sound(s, refs, account), NEW a \in Held(s),
         NEW f \in DOMAIN s.unit, s.unit[f].type = "function", NEW name,
         NEW t, t = [s EXCEPT !.unit[f].val.para = Append(@, name),
                              !.unit[f].val.default = Append(@, a)]
  PROVE  Sound(t, Fewer(refs, <<a>>), account)
<1> DEFINE old == s.unit[f].val
           p == Append(old.para, name)
           q == Append(old.default, a)
           val == [entry |-> old.entry, para |-> p, default |-> q,
                   dynamic |-> old.dynamic, closure |-> old.closure]
           d == <<old.closure>> \o old.default
           e == <<old.closure>> \o q
           owned == Fewer(refs, <<a>>)
<1>0. refs \in [Int -> Int] /\ Shape(s) /\ Valid(s, refs) /\ a \in Int
  BY Addresses DEF Sound
<1>1. FunctionFacts(s, refs, account, f)
  BY OfFunction
<1>2. /\ WellFunction(old) /\ Direct(s.unit[f]) = d
      /\ \A i \in DOMAIN d : d[i] \in Held(s)
      /\ old.closure \in Held(s) /\ \A i \in DOMAIN old.default : old.default[i] \in Held(s)
      /\ \/ old.closure \in DOMAIN s.unit /\ s.unit[old.closure].type = "closure"
         \/ old.closure = None /\ f \in account.open
  BY <1>1 DEF FunctionFacts
<1>3. /\ old = [entry |-> old.entry, para |-> old.para, default |-> old.default,
                dynamic |-> old.dynamic, closure |-> old.closure]
      /\ IsSeq(old.para) /\ old.default \in Seq(Int) /\ Len(old.para) = Len(old.default)
      /\ old.closure \in Int
  BY <1>2 DEF WellFunction
<1>4. t = SetVal(s, f, val)
  <2>1. IsStore(s) /\ IsUnit(s.unit[f])
    BY <1>0, ShapeStore
  <2> DEFINE v1 == [old EXCEPT !.para = Append(@, name)]
             v2 == [v1 EXCEPT !.default = Append(@, a)]
  <2>2. v2 = val
    <3> HIDE DEF old
    <3>1. v1 = [entry |-> old.entry, para |-> p, default |-> old.default,
                dynamic |-> old.dynamic, closure |-> old.closure]
      BY SMTT(30), <1>3
    <3> HIDE DEF v1, p
    <3>2. v1.default = old.default
      BY <3>1
    <3>3. v2 = [v1 EXCEPT !.default = q]
      BY <3>2
    <3> HIDE DEF q, v2
    <3>4. v2 = [entry |-> old.entry, para |-> p, default |-> q,
                dynamic |-> old.dynamic, closure |-> old.closure]
      BY ONLY <3>1, <3>3, OtherDefault
    <3> QED
      BY ONLY <3>4 DEF val
  <2>3. t = SetVal(SetVal(s, f, v1), f, v2)
    <3> DEFINE m == SetVal(s, f, v1)
    <3>1. SetValIs(s, f, v1, m)
      BY <2>1, SetValFacts
    <3>2. m.unit[f].val = v1 /\ f \in DOMAIN m.unit
      <4> HIDE DEF m, v1
      <4>1. m.unit[f] = [type |-> s.unit[f].type, cnt |-> s.unit[f].cnt, val |-> v1]
            /\ DOMAIN m.unit = DOMAIN s.unit
        BY <3>1 DEF SetValIs
      <4> QED
        BY <4>1
    <3>3. t = [m EXCEPT !.unit[f].val.default = Append(@, a)]
      BY ZenonT(40) DEF SetVal
    <3> HIDE DEF m, v1
    <3>4. t = [m EXCEPT !.unit[f].val = [m.unit[f].val EXCEPT !.default = Append(@, a)]]
      BY <3>3
    <3>5. t = [m EXCEPT !.unit[f].val = v2]
      BY <3>2, <3>4
    <3> QED
      BY <3>5 DEF SetVal, m
  <2> HIDE DEF v1, v2, val
  <2>4. SetVal(SetVal(s, f, v1), f, v2) = SetVal(s, f, v2)
    BY <2>1 DEF SetVal, IsStore
  <2> QED
    BY <2>2, <2>3, <2>4
<1>5. WellFunction(val)
  <2>1. IsSeq(p) /\ Len(p) = Len(old.para) + 1
    BY <1>3, SeqAppend
  <2>2. q \in Seq(Int) /\ Len(q) = Len(old.default) + 1
    BY <1>0, <1>3
  <2> HIDE DEF p, q, old
  <2> QED
    BY <1>3, <2>1, <2>2 DEF WellFunction
<1>6. val.closure = old.closure /\ val.default = q
  OBVIOUS
<1>7. /\ q \in Seq(Int) /\ \A i \in DOMAIN q : q[i] \in Held(s)
      /\ IsSeq(old.default)
  <2>1. IsSeq(old.default) /\ q \in Seq(Int)
    BY <1>0, <1>3, SeqIntro
  <2>2. /\ Len(q) = Len(old.default) + 1 /\ IsSeq(q) /\ q[Len(old.default) + 1] = a
        /\ \A i \in 1..Len(old.default) : q[i] = old.default[i]
        /\ Len(old.default) \in Nat /\ DOMAIN old.default = 1..Len(old.default)
    BY <2>1, SeqAppend, SeqFacts
  <2>3. DOMAIN q = 1..Len(q)
    BY <2>2, SeqFacts
  <2> HIDE DEF q, old
  <2>4. \A i \in DOMAIN q : i \in 1..Len(old.default) \/ i = Len(old.default) + 1
    BY <2>2, <2>3
  <2> QED
    BY <1>2, <2>1, <2>2, <2>4
<1>8. \A i \in DOMAIN e : e[i] \in Held(s)
  <2>1. /\ e[1] = old.closure /\ Len(q) \in Nat
        /\ \A i \in 1..Len(q) : e[i + 1] = q[i]
        /\ DOMAIN e = 1..(Len(q) + 1) /\ DOMAIN q = 1..Len(q)
    <3> HIDE DEF q, old
    <3> QED
      BY <1>3, <1>7
  <2> HIDE DEF e, q, old
  <2>2. \A i \in DOMAIN e : i = 1 \/ (i - 1 \in 1..Len(q) /\ (i - 1) + 1 = i)
    BY <2>1
  <2> QED
    BY <1>2, <1>7, <2>1, <2>2
<1>9. /\ owned \in [Int -> Int]
      /\ \A b \in Int : owned[b] = refs[b] - (IF a = b THEN 1 ELSE 0) /\ refs[b] \in Int
  BY <1>0, MoreFewerOne
<1>10. \A b \in DOMAIN s.unit : owned[b] + Count(e, b) <= refs[b] + Count(d, b)
  <2> TAKE b \in DOMAIN s.unit
  <2>1. b \in Int
    BY Addresses
  <2> DEFINE k == IF old.closure = b THEN 1 ELSE 0
             x == IF a = b THEN 1 ELSE 0
             m == Count(old.default, b)
  <2>2. Count(d, b) = k + m /\ m \in Nat
    BY <1>3, CountClosure
  <2>3. Count(e, b) = k + Count(q, b)
    <3> HIDE DEF q, old
    <3>1. old.closure \in Int /\ q \in Seq(Int)
      BY <1>3, <1>7
    <3> QED
      BY <3>1, CountClosure
  <2>4. Count(q, b) = m + x
    BY <1>7, CountAppend
  <2>5. k \in Nat /\ x \in Nat
    OBVIOUS
  <2>6. owned[b] = refs[b] - x /\ refs[b] \in Int
    BY <1>9, <2>1
  <2> HIDE DEF k, x, m, owned, e, d, q
  <2> QED
    BY <2>2, <2>3, <2>4, <2>5, <2>6
<1>11. \A b \in Int : owned[b] > 0 => b \in Held(s)
  <2> TAKE b \in Int
  <2>1. owned[b] = refs[b] - (IF a = b THEN 1 ELSE 0) /\ refs[b] \in Int
    BY <1>9
  <2> HIDE DEF owned
  <2>2. owned[b] > 0 => refs[b] > 0
    BY <2>1
  <2> QED
    BY <1>0, <2>2 DEF Valid, Held
<1>12. Reshaped(s, f, val, refs, owned, account, account)
  <2> HIDE DEF val, owned, old, q
  <2> QED
    BY <1>2, <1>5, <1>6, <1>8, <1>9, <1>10, <1>11 DEF Reshaped, old
<1> QED
  BY <1>4, <1>12, FunctionSound

LEMMA FieldsSound ==
  ASSUME NEW s, NEW refs, NEW account, Sound(s, refs, account),
         NEW f \in DOMAIN s.unit, s.unit[f].type = "function",
         NEW val, WellFunction(val), val.default = s.unit[f].val.default,
         val.closure = s.unit[f].val.closure,
         NEW t, t = SetVal(s, f, val)
  PROVE  Sound(t, refs, account)
<1> DEFINE old == s.unit[f].val
           d == <<old.closure>> \o old.default
           e == <<val.closure>> \o val.default
<1>0. refs \in [Int -> Int] /\ Valid(s, refs)
  BY DEF Sound
<1>1. FunctionFacts(s, refs, account, f)
  BY OfFunction
<1>2. /\ Direct(s.unit[f]) = d
      /\ \A i \in DOMAIN d : d[i] \in Held(s)
      /\ \/ val.closure \in DOMAIN s.unit /\ s.unit[val.closure].type = "closure"
         \/ val.closure = None /\ f \in account.open
  BY <1>1 DEF FunctionFacts
<1>3. e = d
  OBVIOUS
<1>4. \A b \in DOMAIN s.unit : refs[b] + Count(e, b) <= refs[b] + Count(d, b)
  <2> TAKE b \in DOMAIN s.unit
  <2>1. b \in Int
    BY Addresses
  <2>2. IsSeq(e)
    <3> DEFINE q == val.default
               c == val.closure
    <3>1. q \in Seq(Int) /\ c \in Int
      BY DEF WellFunction
    <3> HIDE DEF q, c
    <3>2. <<c>> \o q \in Seq(Int)
      BY <3>1
    <3>3. IsSeq(<<c>> \o q)
      BY <3>2, SeqIntro
    <3> QED
      BY <3>3 DEF q, c
  <2>3. Count(e, b) \in Nat /\ refs[b] \in Int
    BY <1>0, <2>1, <2>2, CountNat
  <2> DEFINE k == Count(e, b)
  <2>4. k = Count(d, b)
    BY <1>3
  <2> HIDE DEF k
  <2>5. refs[b] + k <= refs[b] + k
    BY <2>3 DEF k
  <2> QED
    BY <2>4, <2>5 DEF k
<1>5. Reshaped(s, f, val, refs, refs, account, account)
  <2>1. \A a \in Int : refs[a] > 0 => a \in Held(s)
    BY <1>0 DEF Valid, Held
  <2> QED
    BY <1>0, <1>2, <1>3, <1>4, <2>1 DEF Reshaped
<1> QED
  BY <1>5, FunctionSound

LEMMA EntrySound ==
  ASSUME NEW s, NEW refs, NEW account, Sound(s, refs, account),
         NEW f \in DOMAIN s.unit, s.unit[f].type = "function", NEW x,
         NEW t, \/ t = [s EXCEPT !.unit[f].val.entry = x]
                \/ t = [s EXCEPT !.unit[f].val.dynamic = x]
  PROVE  Sound(t, refs, account)
<1> DEFINE old == s.unit[f].val
           v1 == [old EXCEPT !.entry = x]
           v2 == [old EXCEPT !.dynamic = x]
<1>1. FunctionFacts(s, refs, account, f)
  BY OfFunction
<1>2. WellFunction(old)
  BY <1>1 DEF FunctionFacts
<1> HIDE DEF old
<1>3. /\ old = [entry |-> old.entry, para |-> old.para, default |-> old.default,
                dynamic |-> old.dynamic, closure |-> old.closure]
      /\ IsSeq(old.para) /\ old.default \in Seq(Int) /\ Len(old.para) = Len(old.default)
      /\ old.closure \in Int
  BY <1>2 DEF WellFunction
<1>4. WellFunction(v1) /\ v1.default = old.default /\ v1.closure = old.closure
  <2>0. old = [entry |-> old.entry, para |-> old.para, default |-> old.default,
               dynamic |-> old.dynamic, closure |-> old.closure]
    BY <1>3
  <2>1. v1 = [entry |-> x, para |-> old.para, default |-> old.default,
              dynamic |-> old.dynamic, closure |-> old.closure]
    BY <2>0
  <2> HIDE DEF v1
  <2>2. v1.entry = x /\ v1.para = old.para /\ v1.default = old.default
        /\ v1.dynamic = old.dynamic /\ v1.closure = old.closure
    BY <2>1
  <2> QED
    BY <1>3, <2>1, <2>2 DEF WellFunction
<1>5. WellFunction(v2) /\ v2.default = old.default /\ v2.closure = old.closure
  <2>0. old = [entry |-> old.entry, para |-> old.para, default |-> old.default,
               dynamic |-> old.dynamic, closure |-> old.closure]
    BY <1>3
  <2>1. v2 = [entry |-> old.entry, para |-> old.para, default |-> old.default,
              dynamic |-> x, closure |-> old.closure]
    BY <2>0
  <2> HIDE DEF v2
  <2>2. v2.entry = old.entry /\ v2.para = old.para /\ v2.default = old.default
        /\ v2.dynamic = x /\ v2.closure = old.closure
    BY <2>1
  <2> QED
    BY <1>3, <2>1, <2>2 DEF WellFunction
<1>6. t = SetVal(s, f, v1) \/ t = SetVal(s, f, v2)
  BY DEF SetVal, old
<1> HIDE DEF v1, v2
<1>7. CASE t = SetVal(s, f, v1)
  BY <1>4, <1>7, FieldsSound DEF old
<1>8. CASE t = SetVal(s, f, v2)
  BY <1>5, <1>8, FieldsSound DEF old
<1> QED
  BY <1>6, <1>7, <1>8

(* Function f gets closure c, and takes over a reference to it.             *)
Closed(account, f) == [account EXCEPT !.open = @ \ {f}]

LEMMA ClosureSound ==
  ASSUME NEW s, NEW refs, NEW account, Sound(s, refs, account), IsAccount(account),
         NEW f \in DOMAIN s.unit, s.unit[f].type = "function",
         NEW c \in DOMAIN s.unit, s.unit[c].type = "closure",
         NEW t, t = [s EXCEPT !.unit[f].val.closure = c]
  PROVE  /\ Sound(t, Fewer(refs, <<c>>), Closed(account, f))
         /\ \E val : SetValIs(s, f, val, t)
<1> DEFINE old == s.unit[f].val
           val == [old EXCEPT !.closure = c]
           d == <<old.closure>> \o old.default
           e == <<c>> \o old.default
           owned == Fewer(refs, <<c>>)
           after == Closed(account, f)
<1>0. refs \in [Int -> Int] /\ Shape(s) /\ Valid(s, refs) /\ c \in Int
  BY Addresses DEF Sound
<1>1. FunctionFacts(s, refs, account, f)
  BY OfFunction
<1>2. /\ WellFunction(old) /\ Direct(s.unit[f]) = d
      /\ \A i \in DOMAIN old.default : old.default[i] \in Held(s)
  BY <1>1 DEF FunctionFacts
<1>3. t = SetVal(s, f, val)
  BY DEF SetVal
<1> HIDE DEF old
<1>4. /\ old = [entry |-> old.entry, para |-> old.para, default |-> old.default,
                dynamic |-> old.dynamic, closure |-> old.closure]
      /\ IsSeq(old.para) /\ old.default \in Seq(Int) /\ Len(old.para) = Len(old.default)
      /\ old.closure \in Int
  BY <1>2 DEF WellFunction
<1>5. WellFunction(val) /\ val.default = old.default /\ val.closure = c
  <2>1. val = [entry |-> old.entry, para |-> old.para, default |-> old.default,
               dynamic |-> old.dynamic, closure |-> c]
    BY <1>4
  <2> HIDE DEF val
  <2>2. val.entry = old.entry /\ val.para = old.para /\ val.default = old.default
        /\ val.dynamic = old.dynamic /\ val.closure = c
    BY <2>1
  <2>3. c \in Int
    BY <1>0
  <2>4. val = [entry |-> val.entry, para |-> val.para, default |-> val.default,
               dynamic |-> val.dynamic, closure |-> val.closure]
    BY <2>1, <2>2
  <2> QED
    BY <1>4, <2>2, <2>3, <2>4 DEF WellFunction
<1> HIDE DEF val
<1>6. \A i \in DOMAIN e : e[i] \in Held(s)
  <2> DEFINE q == old.default
  <2>1. /\ e[1] = c /\ Len(q) \in Nat
        /\ \A i \in 1..Len(q) : e[i + 1] = q[i]
        /\ DOMAIN e = 1..(Len(q) + 1) /\ DOMAIN q = 1..Len(q)
    BY <1>4
  <2> HIDE DEF e
  <2>2. \A i \in DOMAIN e : i = 1 \/ (i - 1 \in 1..Len(q) /\ (i - 1) + 1 = i)
    BY <2>1
  <2>3. c \in Held(s)
    BY DEF Held
  <2> QED
    BY ZenonT(40), <1>2, <2>1, <2>2, <2>3
<1>7. /\ owned \in [Int -> Int]
      /\ \A b \in Int : owned[b] = refs[b] - (IF c = b THEN 1 ELSE 0) /\ refs[b] \in Int
  BY <1>0, MoreFewerOne
<1>8. \A b \in DOMAIN s.unit : owned[b] + Count(e, b) <= refs[b] + Count(d, b)
  <2> TAKE b \in DOMAIN s.unit
  <2>1. b \in Int
    BY Addresses
  <2> DEFINE k == IF old.closure = b THEN 1 ELSE 0
             x == IF c = b THEN 1 ELSE 0
             m == Count(old.default, b)
  <2>2. Count(d, b) = k + m /\ m \in Nat
    BY <1>4, CountClosure
  <2>3. Count(e, b) = x + m
    <3>1. c \in Int /\ old.default \in Seq(Int)
      BY <1>0, <1>4
    <3> QED
      BY <3>1, CountClosure
  <2>5. k \in Nat /\ x \in Nat
    OBVIOUS
  <2>6. owned[b] = refs[b] - x /\ refs[b] \in Int
    BY <1>7, <2>1
  <2> HIDE DEF k, x, m, owned, e, d
  <2> QED
    BY <2>2, <2>3, <2>5, <2>6
<1>9. \A b \in Int : owned[b] > 0 => b \in Held(s)
  <2> TAKE b \in Int
  <2>1. owned[b] = refs[b] - (IF c = b THEN 1 ELSE 0) /\ refs[b] \in Int
    BY <1>7
  <2> HIDE DEF owned
  <2>2. owned[b] > 0 => refs[b] > 0
    BY <2>1
  <2> QED
    BY <1>0, <2>2 DEF Valid, Held
<1>10. /\ after.scopes = account.scopes /\ after.kind = account.kind
       /\ after.open = account.open \ {f}
  BY DEF Closed, IsAccount
<1>11. Reshaped(s, f, val, refs, owned, account, after)
  <2>1. <<val.closure>> \o val.default = e
    BY <1>5
  <2>2. \A b \in account.open : b # f => b \in after.open
    BY <1>10
  <2>3. val.closure \in DOMAIN s.unit /\ s.unit[val.closure].type = "closure"
    BY <1>5
  <2> HIDE DEF owned, e, d, after
  <2> QED
    BY <1>2, <1>5, <1>6, <1>7, <1>8, <1>9, <1>10, <2>1, <2>2, <2>3 DEF Reshaped
<1>12. Sound(t, owned, after) /\ SetValIs(s, f, val, t)
  BY <1>3, <1>11, FunctionSound
<1> QED
  BY <1>12

-----------------------------------------------------------------------------
(* Closures.                                                                *)

LEMMA SetInOrder ==
  ASSUME NEW N, IsFiniteSet(N), NEW q, q = SetToSeq(N)
  PROVE  /\ Cardinality(N) \in Nat
         /\ q \in [1..Cardinality(N) -> N]
         /\ \A i, j \in 1..Cardinality(N) : q[i] = q[j] => i = j
         /\ \A x \in N : \E i \in 1..Cardinality(N) : q[i] = x
<1> DEFINE n == Cardinality(N)
<1>1. n \in Nat
  BY FS_CardinalityType
<1>2. \E f \in [1..n -> N] : IsInjective(f)
  <2>1. PICK m \in Nat : ExistsBijection(1..m, N)
    BY FS_NatBijection
  <2>2. n = m
    BY <2>1, FS_CountingElements
  <2>3. PICK f : f \in Bijection(1..n, N)
    BY <2>1, <2>2 DEF ExistsBijection
  <2>4. f \in [1..n -> N] /\ IsInjective(f)
    BY <2>3 DEF Bijection, Injection
  <2> QED
    BY <2>4
<1>3. q \in [1..n -> N] /\ IsInjective(q)
  BY <1>2 DEF SetToSeq
<1>4. q \in Injection(1..n, N)
  BY <1>3 DEF Injection
<1>5. q \in Surjection(1..n, N)
  <2>1. IsFiniteSet(1..n) /\ Cardinality(1..n) = n
    BY <1>1, FS_Interval
  <2> QED
    BY <1>4, <2>1, FS_Injection
<1>6. \A x \in N : \E i \in 1..n : q[i] = x
  BY <1>5 DEF Surjection
<1>7. \A i, j \in 1..n : q[i] = q[j] => i = j
  BY <1>3 DEF IsInjective
<1> QED
  BY <1>1, <1>3, <1>6, <1>7

(* The places of names in the scopes of a closure.                          *)
Names(scopes) == UNION {{i} \X DOMAIN scopes[i] : i \in DOMAIN scopes}

LEMMA NamesFinite ==
  ASSUME NEW s, NEW refs, NEW account, Sound(s, refs, account),
         NEW c \in DOMAIN s.unit, s.unit[c].type = "closure"
  PROVE  /\ IsFiniteSet(Names(s.unit[c].val))
         /\ \A p \in Names(s.unit[c].val) : s.unit[c].val[p[1]][p[2]] \in DOMAIN s.mem
<1> DEFINE scopes == s.unit[c].val
           N == Names(scopes)
           g == [p \in N |-> scopes[p[1]][p[2]]]
<1>1. Shape(s) /\ Owned(s)
  BY DEF Sound
<1>2. /\ \A i, j \in DOMAIN scopes : \A x \in DOMAIN scopes[i], y \in DOMAIN scopes[j] :
           scopes[i][x] = scopes[j][y] => i = j /\ x = y
      /\ UNION {CellsOf(scopes[i]) : i \in DOMAIN scopes} \subseteq DOMAIN s.mem
  <2>1. Separate("closure", scopes) /\ Cells(s.unit[c]) \subseteq DOMAIN s.mem
    BY <1>1 DEF Owned
  <2>2. Cells(s.unit[c]) = UNION {CellsOf(scopes[i]) : i \in DOMAIN scopes}
    BY CellsByType
  <2> QED
    BY <2>1, <2>2 DEF Separate
<1>3. \A p \in N : p[1] \in DOMAIN scopes /\ p[2] \in DOMAIN scopes[p[1]] /\ p = <<p[1], p[2]>>
  BY DEF Names
<1> HIDE DEF scopes, N
<1>4. \A p \in N : scopes[p[1]][p[2]] \in DOMAIN s.mem
  BY <1>2, <1>3 DEF CellsOf
<1>5. \A p, q \in N : g[p] = g[q] => p = q
  <2> TAKE p, q \in N
  <2> HAVE g[p] = g[q]
  <2>1. p[1] = q[1] /\ p[2] = q[2]
    BY <1>2, <1>3
  <2>2. p = <<p[1], p[2]>> /\ q = <<q[1], q[2]>>
    BY <1>3
  <2> QED
    BY <2>1, <2>2
<1>6. g \in Injection(N, DOMAIN s.mem)
  <2>1. g \in [N -> DOMAIN s.mem]
    BY <1>4
  <2> HIDE DEF g
  <2> QED
    BY <1>5, <2>1 DEF Injection, IsInjective
<1> HIDE DEF g
<1>7. IsFiniteSet(N)
  <2>1. IsFiniteSet(DOMAIN s.mem)
    BY <1>1, Bounded
  <2> QED
    BY <1>6, <2>1, FS_Injection
<1> QED
  BY <1>4, <1>7 DEF N, scopes

LEMMA CopyScopesSound ==
  ASSUME NEW s, NEW refs, NEW account, Sound(s, refs, account),
         NEW c \in DOMAIN s.unit, s.unit[c].type = "closure",
         NEW src \in DOMAIN s.unit, s.unit[src].type = "closure",
         Len(s.unit[src].val) >= Len(s.unit[c].val),
         NEW t, t = CopyScopes(s, c, src)
  PROVE  /\ Sound(t, refs, account)
         /\ DOMAIN t.unit = DOMAIN s.unit /\ t.units = s.units
         /\ \A b \in DOMAIN s.unit : t.unit[b].type = s.unit[b].type
<1> DEFINE scopes == s.unit[src].val
           N == Names(scopes)
           n == Cardinality(N)
           names == SetToSeq(N)
           PlaceOf(i, k) == CHOOSE m \in DOMAIN names : names[m] = <<i, k>>
           copy == [i \in DOMAIN scopes |-> [k \in DOMAIN scopes[i] |-> s.cells + PlaceOf(i, k)]]
           Copied(m) == s.mem[scopes[names[m][1]][names[m][2]]]
           values == [m \in DOMAIN names |-> Copied(m)]
<1>1. Shape(s) /\ Owned(s) /\ Valid(s, refs) /\ s.cells \in Nat
      /\ \A b \in DOMAIN s.unit : WellUnit(s.unit[b])
  BY DEF Sound, Shape
<1>2. t = StoreAll(s, c, copy, values)
  BY DEF CopyScopes, Val, Names
<1>3. IsFiniteSet(N) /\ \A p \in N : scopes[p[1]][p[2]] \in DOMAIN s.mem
  BY NamesFinite
<1>4. IsSeq(scopes) /\ \A i \in DOMAIN scopes : IsMap(scopes[i])
  <2>1. WellVal("closure", scopes)
    BY <1>1 DEF WellUnit
  <2> QED
    BY <2>1 DEF WellVal
<1>5. Len(scopes) >= Len(s.unit[c].val)
  OBVIOUS
<1> HIDE DEF scopes, N, names
<1>6. /\ n \in Nat /\ names \in [1..n -> N]
      /\ \A i, j \in 1..n : names[i] = names[j] => i = j
      /\ \A x \in N : \E i \in 1..n : names[i] = x
  BY <1>3, SetInOrder DEF names
<1> HIDE DEF n
<1>7. DOMAIN names = 1..n
  BY <1>6
<1>8. \A i \in DOMAIN scopes : \A k \in DOMAIN scopes[i] : PlaceOf(i, k) \in 1..n /\ names[PlaceOf(i, k)] = <<i, k>>
  <2> TAKE i \in DOMAIN scopes
  <2> TAKE k \in DOMAIN scopes[i]
  <2>1. <<i, k>> \in N
    BY DEF N, Names
  <2>2. \E m \in DOMAIN names : names[m] = <<i, k>>
    BY <1>6, <1>7, <2>1
  <2> QED
    BY <1>7, <2>2
<1> HIDE DEF PlaceOf
<1>9. /\ IsSeq(values) /\ Len(values) = n /\ \A i \in DOMAIN values : values[i] \in Held(s)
  <2>1. \A m \in 1..n : Copied(m) \in Held(s)
    <3> TAKE m \in 1..n
    <3>1. names[m] \in N
      BY <1>6
    <3> QED
      BY <1>1, <1>3, <3>1 DEF Valid, Held
  <2> HIDE DEF Copied
  <2>2. values = [m \in 1..n |-> Copied(m)]
    BY <1>7
  <2> HIDE DEF values
  <2>3. values \in Seq(Held(s)) /\ Len(values) = n /\ DOMAIN values = 1..n
        /\ \A m \in 1..n : values[m] \in Held(s)
    <3>1. n \in Nat
      BY <1>6
    <3> QED
      BY <2>1, <2>2, <3>1
  <2> QED
    BY <2>3, SeqIntro
<1> HIDE DEF values
<1>10. /\ DOMAIN copy = DOMAIN scopes /\ copy = [i \in DOMAIN scopes |-> copy[i]]
       /\ \A i \in DOMAIN scopes :
            copy[i] = [k \in DOMAIN scopes[i] |-> s.cells + PlaceOf(i, k)]
  OBVIOUS
<1>11. \A i \in DOMAIN scopes :
         /\ DOMAIN copy[i] = DOMAIN scopes[i]
         /\ IsMap(copy[i])
         /\ \A k \in DOMAIN scopes[i] : copy[i][k] = s.cells + PlaceOf(i, k)
  <2> TAKE i \in DOMAIN scopes
  <2>1. copy[i] = [k \in DOMAIN scopes[i] |-> s.cells + PlaceOf(i, k)]
    BY <1>10
  <2> HIDE DEF copy
  <2>2. DOMAIN copy[i] = DOMAIN scopes[i]
        /\ \A k \in DOMAIN scopes[i] : copy[i][k] = s.cells + PlaceOf(i, k)
    BY <2>1
  <2>3. \A k \in DOMAIN scopes[i] : s.cells + PlaceOf(i, k) \in Nat
    <3> TAKE k \in DOMAIN scopes[i]
    <3>1. PlaceOf(i, k) \in 1..n /\ s.cells \in Nat
      BY <1>1, <1>8
    <3> QED
      BY <3>1
  <2>4. copy[i] \in [DOMAIN scopes[i] -> Nat]
    BY <2>1, <2>3
  <2> QED
    BY <2>2, <2>4 DEF IsMap
<1> HIDE DEF copy
<1>12. IsSeq(copy) /\ Len(copy) = Len(scopes)
  <2>1. DOMAIN scopes = 1..Len(scopes) /\ Len(scopes) \in Nat
    BY <1>4, SeqFacts
  <2> DEFINE k == Len(scopes)
  <2>2. DOMAIN copy = 1..k /\ k \in Nat /\ copy = [i \in 1..k |-> copy[i]]
    BY <1>10, <2>1
  <2> HIDE DEF k
  <2>3. \A i \in 1..k : copy[i] \in Range(copy)
    BY <2>2 DEF Range
  <2>4. copy \in Seq(Range(copy)) /\ Len(copy) = k
    BY <2>2, <2>3, SeqMade
  <2> QED
    BY <2>4 DEF IsSeq, k
<1>13. WellVal("closure", copy)
  BY <1>10, <1>11, <1>12 DEF WellVal
<1>14. Separate("closure", copy)
  <2>1. ASSUME NEW i \in DOMAIN scopes, NEW j \in DOMAIN scopes,
               NEW x \in DOMAIN scopes[i], NEW y \in DOMAIN scopes[j], copy[i][x] = copy[j][y]
        PROVE  i = j /\ x = y
    <3>1. s.cells + PlaceOf(i, x) = s.cells + PlaceOf(j, y)
      BY <1>11, <2>1
    <3>2. PlaceOf(i, x) \in 1..n /\ PlaceOf(j, y) \in 1..n
          /\ names[PlaceOf(i, x)] = <<i, x>> /\ names[PlaceOf(j, y)] = <<j, y>>
      BY <1>8
    <3>3. PlaceOf(i, x) = PlaceOf(j, y)
      <4> DEFINE m == PlaceOf(i, x)
                 o == PlaceOf(j, y)
      <4>1. m \in Int /\ o \in Int /\ s.cells \in Int /\ s.cells + m = s.cells + o
        BY <1>1, <3>1, <3>2
      <4> HIDE DEF m, o
      <4>2. m = o
        BY <4>1
      <4> QED
        BY <4>2 DEF m, o
    <3>4. <<i, x>> = <<j, y>>
      BY <3>2, <3>3
    <3> QED
      BY <3>4
  <2>2. \A i \in DOMAIN copy : DOMAIN copy[i] = DOMAIN scopes[i]
    BY <1>10, <1>11
  <2> QED
    BY <1>10, <2>1, <2>2 DEF Separate
<1>15. UNION {CellsOf(copy[i]) : i \in DOMAIN copy} \subseteq Fresh(s, n)
  <2>1. ASSUME NEW i \in DOMAIN scopes, NEW k \in DOMAIN scopes[i] PROVE copy[i][k] \in Fresh(s, n)
    <3> DEFINE m == PlaceOf(i, k)
    <3>1. copy[i][k] = s.cells + m /\ m \in 1..n /\ n \in Nat /\ s.cells \in Nat
      BY <1>1, <1>6, <1>8, <1>11
    <3> HIDE DEF m
    <3> QED
      BY <3>1 DEF Fresh
  <2> QED
    BY <1>10, <1>11, <2>1 DEF CellsOf
<1>16. SuitsFresh(s, c, copy, Len(values))
  <2> DEFINE new == [type |-> s.unit[c].type, val |-> copy]
  <2>1. new.type = "closure" /\ new.val = copy
    OBVIOUS
  <2> HIDE DEF new
  <2>2. Cells(new) \subseteq Fresh(s, n)
    BY <1>15, <2>1, CellsByType
  <2>3. Cells(new) \subseteq Cells(s.unit[c]) \cup Fresh(s, Len(values))
    BY <1>9, <2>2
  <2>4. Len(copy) >= Len(s.unit[c].val)
    BY <1>5, <1>12
  <2> QED
    BY <1>13, <1>14, <2>3, <2>4 DEF SuitsFresh, new
<1>17. Sound(t, refs, account) /\ StoreAllIs(s, c, copy, values, t)
  BY <1>2, <1>9, <1>16, StoreAllSound
<1>18. DOMAIN t.unit = DOMAIN s.unit /\ t.units = s.units
  <2> DEFINE m == s.cells + Len(values)
  <2>1. t = [unit |-> t.unit, mem |-> t.mem, units |-> s.units, cells |-> m]
        /\ DOMAIN t.unit = DOMAIN s.unit
    BY <1>17 DEF StoreAllIs
  <2> HIDE DEF m
  <2> QED
    BY <2>1
<1>19. ASSUME NEW b \in DOMAIN s.unit PROVE t.unit[b].type = s.unit[b].type
  <2> DEFINE y == s.unit[b].type
             x == s.unit[b].cnt + Count(values, b)
             w == IF b = c THEN copy ELSE s.unit[b].val
  <2>1. t.unit[b] = [type |-> y, cnt |-> x, val |-> w]
    BY <1>17 DEF StoreAllIs
  <2> HIDE DEF x, y, w
  <2>2. t.unit[b].type = y
    BY <2>1
  <2> QED
    BY <2>2 DEF y
<1> QED
  BY <1>17, <1>18, <1>19

-----------------------------------------------------------------------------
(* New values of each type.                                                 *)

LEMMA EmptyIs ==
  ASSUME NEW e, e = <<>>
  PROVE  /\ e \in Seq(Nat) /\ e \in Seq(Int) /\ IsSeq(e) /\ IsMap(e) /\ Len(e) = 0
         /\ DOMAIN e = {} /\ CellsOf(e) = {}
<1>1. DOMAIN e = {} /\ e \in Seq(Nat) /\ e \in Seq(Int) /\ Len(e) = 0
  OBVIOUS
<1>2. e \in [DOMAIN e -> Nat]
  <2>1. e = [x \in {} |-> x]
    OBVIOUS
  <2> QED
    BY <1>1, <2>1
<1>3. IsSeq(e)
  BY <1>1, SeqIntro
<1>4. CellsOf(e) = {}
  BY <1>1 DEF CellsOf
<1> QED
  BY <1>1, <1>2, <1>3, <1>4 DEF IsMap

LEMMA NewScalar ==
  ASSUME NEW type, type \notin {"vector", "hash", "closure", "function"}, NEW val
  PROVE  NewUnit([type |-> type, cnt |-> 1, val |-> val])
<1> DEFINE u == [type |-> type, cnt |-> 1, val |-> val]
<1>1. u.type = type /\ u.cnt = 1 /\ u.val = val /\ u = [type |-> u.type, cnt |-> u.cnt, val |-> u.val]
  OBVIOUS
<1> HIDE DEF u
<1>2. WellUnit(u) /\ Separate(u.type, u.val)
  BY <1>1 DEF WellUnit, WellVal, Separate
<1>3. Cells(u) = {} /\ Direct(u) = <<>>
  BY <1>1, CellsByType
<1>4. Bare(u)
  BY <1>3 DEF Bare
<1> QED
  BY <1>1, <1>2, <1>4 DEF NewUnit, u

LEMMA NewContainer ==
  ASSUME NEW type \in {"vector", "hash"}
  PROVE  NewUnit([type |-> type, cnt |-> 1, val |-> <<>>])
<1> DEFINE val == <<>>
           u == [type |-> type, cnt |-> 1, val |-> val]
<1>1. u.type = type /\ u.cnt = 1 /\ u.val = val /\ u = [type |-> u.type, cnt |-> u.cnt, val |-> u.val]
  OBVIOUS
<1>2. val \in Seq(Nat) /\ IsMap(val) /\ DOMAIN val = {} /\ CellsOf(val) = {}
  BY EmptyIs
<1> HIDE DEF u, val
<1>3. WellUnit(u)
  BY <1>1, <1>2 DEF WellUnit, WellVal
<1>4. Separate(u.type, u.val)
  BY <1>1, <1>2 DEF Separate
<1>5. Cells(u) = {} /\ Direct(u) = <<>>
  BY <1>1, <1>2, CellsByType
<1>6. Bare(u)
  BY <1>5 DEF Bare
<1>7. NewUnit(u)
  BY <1>1, <1>3, <1>4, <1>6 DEF NewUnit
<1> QED
  BY <1>7 DEF u, val

LEMMA OneScope ==
  /\ IsSeq(<<<<>>>>) /\ Len(<<<<>>>>) = 1 /\ DOMAIN <<<<>>>> = {1} /\ <<<<>>>>[1] = <<>>
<1> DEFINE e == <<>>
<1>1. IsSeq(<<e>>)
  BY TupleSeq
<1> HIDE DEF e
<1>2. Len(<<e>>) = 1 /\ DOMAIN <<e>> = {1} /\ <<e>>[1] = e
  OBVIOUS
<1> QED
  BY <1>1, <1>2 DEF e

LEMMA NewClosure ==
  NewUnit([type |-> "closure", cnt |-> 1, val |-> <<<<>>>>])
<1> DEFINE e == <<>>
           val == <<e>>
           u == [type |-> "closure", cnt |-> 1, val |-> val]
<1>1. u.type = "closure" /\ u.cnt = 1 /\ u.val = val /\ u = [type |-> u.type, cnt |-> u.cnt, val |-> u.val]
  OBVIOUS
<1>2. IsMap(e) /\ DOMAIN e = {} /\ CellsOf(e) = {}
  BY EmptyIs
<1>3. IsSeq(val) /\ Len(val) = 1 /\ DOMAIN val = {1} /\ val[1] = e
  BY OneScope
<1> HIDE DEF u, val, e
<1>4. \A i \in DOMAIN val : val[i] = e
  BY <1>3
<1>5. WellUnit(u)
  <2>1. WellVal("closure", val)
    BY <1>2, <1>3, <1>4 DEF WellVal
  <2> QED
    BY <1>1, <2>1 DEF WellUnit
<1>6. Separate(u.type, u.val)
  BY <1>1, <1>2, <1>4 DEF Separate
<1>7. Cells(u) = {} /\ Direct(u) = <<>>
  <2>1. Cells(u) = UNION {CellsOf(val[i]) : i \in DOMAIN val} /\ Direct(u) = <<>>
    BY <1>1, CellsByType
  <2> QED
    BY <1>2, <1>4, <2>1
<1>8. Bare(u)
  BY <1>7 DEF Bare
<1>9. NewUnit(u)
  BY <1>1, <1>3, <1>5, <1>6, <1>8 DEF NewUnit
<1> QED
  BY <1>9 DEF u, val, e

LEMMA NewFunction ==
  NewUnit([type |-> "function", cnt |-> 1, val |-> NoFunction])
<1> DEFINE e == <<>>
           val == NoFunction
           u == [type |-> "function", cnt |-> 1, val |-> val]
<1>1. u.type = "function" /\ u.cnt = 1 /\ u.val = val /\ u = [type |-> u.type, cnt |-> u.cnt, val |-> u.val]
  OBVIOUS
<1>2. e \in Seq(Int) /\ IsSeq(e) /\ DOMAIN e = {}
  BY EmptyIs
<1>3. /\ val = [entry |-> val.entry, para |-> val.para, default |-> val.default,
                dynamic |-> val.dynamic, closure |-> val.closure]
      /\ val.para = e /\ val.default = e /\ val.closure = None
  BY DEF NoFunction
<1>4. WellFunction(val)
  <2> HIDE DEF val, e
  <2>1. val.closure \in Int
    BY <1>3 DEF None
  <2> QED
    BY <1>2, <1>3, <2>1 DEF WellFunction
<1>5. Direct(u) = <<None>> \o e
  BY <1>1, <1>3 DEF Direct
<1>6. \A i \in DOMAIN (<<None>> \o e) : (<<None>> \o e)[i] = None
  OBVIOUS
<1> HIDE DEF u, val, e
<1>7. WellUnit(u)
  BY <1>1, <1>4 DEF WellUnit, WellVal
<1>8. Separate(u.type, u.val)
  BY <1>1 DEF Separate
<1>9. Cells(u) = {}
  BY <1>1, CellsByType
<1>10. Bare(u)
  BY <1>5, <1>6, <1>9 DEF Bare
<1>11. NewUnit(u)
  BY <1>1, <1>3, <1>7, <1>8, <1>10 DEF NewUnit
<1> QED
  BY <1>11 DEF u, val

(* Nothing changes but that there is a new unit.                            *)
Allocated(s, t, type) ==
  /\ DOMAIN t.unit = DOMAIN s.unit \cup {NextUnit(s)}
  /\ \A b \in DOMAIN s.unit : t.unit[b] = s.unit[b]
  /\ t.unit[NextUnit(s)].type = type
  /\ t.units = s.units + 1 /\ t.mem = s.mem /\ t.cells = s.cells

LEMMA AllocIs ==
  ASSUME NEW s, Shape(s), Owned(s), NEW t, Adds(s, t, 1), NEW type, NEW val,
         t.unit[NextUnit(s)] = [type |-> type, cnt |-> 1, val |-> val]
  PROVE  Allocated(s, t, type)
<1>1. t.mem = s.mem /\ t.units = s.units + 1 /\ t.cells = s.cells
  BY AddsShape
<1>2. NewUnits(s, 1) = {NextUnit(s)}
  <2>1. s.units \in Nat
    BY DEF Shape
  <2> QED
    BY <2>1 DEF NewUnits, NextUnit
<1>3. DOMAIN t.unit = DOMAIN s.unit \cup {NextUnit(s)} /\ \A b \in DOMAIN s.unit : t.unit[b] = s.unit[b]
  BY <1>2 DEF Adds
<1> QED
  BY <1>1, <1>3 DEF Allocated

LEMMA NewSound ==
  ASSUME NEW s, NEW refs, NEW account, Sound(s, refs, account), IsAccount(account),
         NEW type, NEW val,
         \/ type \notin {"vector", "hash", "closure", "function"}
         \/ type \in {"vector", "hash"} /\ val = <<>>
         \/ type = "closure" /\ val = <<<<>>>>
         \/ type = "function" /\ val = NoFunction,
         NEW t, t = gc_alloc_with(s, type, val)
  PROVE  /\ Sound(t, More(refs, <<NextUnit(s)>>), Opened(account, NextUnit(s), type))
         /\ type # "function" => Sound(t, More(refs, <<NextUnit(s)>>), account)
         /\ Allocated(s, t, type)
         /\ t.unit[NextUnit(s)].val = val
<1>1. NewUnit([type |-> type, cnt |-> 1, val |-> val])
  <2>1. CASE type \notin {"vector", "hash", "closure", "function"}
    BY <2>1, NewScalar
  <2>2. CASE type \in {"vector", "hash"} /\ val = <<>>
    BY <2>2, NewContainer
  <2>3. CASE type = "closure" /\ val = <<<<>>>>
    BY <2>3, NewClosure
  <2>4. CASE type = "function" /\ val = NoFunction
    BY <2>4, NewFunction
  <2> QED
    BY <2>1, <2>2, <2>3, <2>4
<1>2. /\ Sound(t, More(refs, <<NextUnit(s)>>), Opened(account, NextUnit(s), type))
      /\ Adds(s, t, 1)
      /\ t.unit[NextUnit(s)] = [type |-> type, cnt |-> 1, val |-> val]
  BY <1>1, AllocSound
<1>3. Allocated(s, t, type)
  BY <1>2, AllocIs DEF Sound
<1>4. type # "function" => Opened(account, NextUnit(s), type) = account
  <2> SUFFICES ASSUME type # "function" PROVE [account EXCEPT !.open = account.open] = account
    BY DEF Opened
  <2> QED
    BY DEF IsAccount
<1>5. t.unit[NextUnit(s)].val = val
  BY <1>2
<1> QED
  BY <1>2, <1>3, <1>4, <1>5

LEMMA NewOf ==
  NewContents["vector"] = <<>> /\ NewContents["hash"] = <<>>
  /\ NewContents["closure"] = <<<<>>>> /\ NewContents["function"] = NoFunction
<1> DEFINE e == <<>>
           o == <<<<>>>>
           f == NoFunction
<1> HIDE DEF e, o, f
<1>1. NewContents = [nil |-> 0, number |-> 0, string |-> "", vector |-> e, hash |-> e,
                     function |-> f, closure |-> o]
  BY DEF NewContents, e, o, f
<1>2. /\ NewContents["vector"] = e /\ NewContents["hash"] = e
      /\ NewContents["closure"] = o /\ NewContents["function"] = f
  BY <1>1
<1> QED
  BY <1>2 DEF e, o, f

LEMMA TypeIs ==
  ASSUME NEW s, NEW refs, NEW account, Sound(s, refs, account), NEW a \in DOMAIN s.unit
  PROVE  a \in Int /\ a # None /\ (a \in DOMAIN account.kind => s.unit[a].type = account.kind[a])
<1>1. a \in Int /\ a # None
  BY Addresses
<1> QED
  BY <1>1 DEF Sound, Typed

LEMMA SetClosureSound ==
  ASSUME NEW s, NEW refs, NEW account, Sound(s, refs, account), IsAccount(account),
         NEW f \in DOMAIN s.unit, s.unit[f].type = "function",
         NEW src \in DOMAIN s.unit, s.unit[src].type = "closure",
         NEW t, t = set_closure_addr(s, f, src)
  PROVE  /\ Sound(t, refs, Closed(account, f))
         /\ DOMAIN s.unit \subseteq DOMAIN t.unit
<1> DEFINE c == NextUnit(s)
           r == gc_alloc(s, "closure")
           m == [r EXCEPT !.unit[f].val.closure = c]
           more == More(refs, <<c>>)
           same == Fewer(more, <<c>>)
           after == Closed(account, f)
<1>1. Shape(s) /\ Owned(s) /\ Typed(s, account) /\ refs \in [Int -> Int] /\ c \in Int
      /\ c \notin DOMAIN s.unit
  BY Addresses DEF Sound
<1>2. Sound(r, more, account) /\ Allocated(s, r, "closure") /\ r.unit[c].val = <<<<>>>>
  <2>1. r = gc_alloc_with(s, "closure", <<<<>>>>)
    BY NewOf DEF gc_alloc
  <2> QED
    BY <2>1, NewSound
<1>3. t = CopyScopes(m, c, src)
  BY DEF set_closure_addr
<1> HIDE DEF r, c
<1>4. /\ DOMAIN r.unit = DOMAIN s.unit \cup {c} /\ r.unit[c].type = "closure"
      /\ \A b \in DOMAIN s.unit : r.unit[b] = s.unit[b]
  BY <1>2 DEF Allocated, c
<1>5. Sound(m, same, after) /\ \E val : SetValIs(r, f, val, m)
  BY SMTT(30), <1>2, <1>4, ClosureSound
<1> HIDE DEF m
<1>6. PICK val : SetValIs(r, f, val, m)
  BY <1>5
<1>7. DOMAIN m.unit = DOMAIN r.unit /\ \A b \in DOMAIN r.unit : b # f => m.unit[b] = r.unit[b]
  BY <1>6 DEF SetValIs
<1>8. c # f /\ src # f /\ src # c
  BY <1>1, <1>4
<1>9. m.unit[c] = r.unit[c] /\ m.unit[src] = s.unit[src]
  BY <1>4, <1>7, <1>8
<1>10. Len(m.unit[src].val) >= Len(m.unit[c].val)
  <2>1. Len(m.unit[c].val) = 1
    BY <1>2, <1>9, OneScope
  <2>2. Len(s.unit[src].val) >= 1 + account.scopes[src] /\ account.scopes[src] \in Nat
    <3>1. src \in Int
      BY Addresses
    <3> QED
      BY <1>1, <3>1 DEF Typed
  <2>3. Len(s.unit[src].val) \in Nat
    <3>1. WellVal("closure", s.unit[src].val)
      BY <1>1 DEF Shape, WellUnit
    <3> QED
      BY <3>1, SeqFacts DEF WellVal
  <2> QED
    BY <1>9, <2>1, <2>2, <2>3
<1>11. Sound(t, same, after) /\ DOMAIN t.unit = DOMAIN m.unit
  BY <1>3, <1>4, <1>5, <1>7, <1>9, <1>10, CopyScopesSound
<1>12. same = refs
  <2>1. /\ more \in [Int -> Int] /\ \A a \in Int : more[a] = refs[a] + (IF c = a THEN 1 ELSE 0)
    BY <1>1, MoreFewerOne
  <2>2. /\ same \in [Int -> Int] /\ \A a \in Int : same[a] = more[a] - (IF c = a THEN 1 ELSE 0)
    <3> HIDE DEF more
    <3> QED
      BY <2>1, MoreFewerOne
  <2> HIDE DEF more, same
  <2>3. \A a \in Int : same[a] = refs[a]
    BY <1>1, <2>1, <2>2
  <2> QED
    BY <1>1, <2>2, <2>3
<1> QED
  BY <1>4, <1>7, <1>11, <1>12

LEMMA MoreThenFewer ==
  ASSUME NEW refs \in [Int -> Int], NEW x
  PROVE  Fewer(More(refs, <<x>>), <<x>>) = refs
<1> DEFINE more == More(refs, <<x>>)
           same == Fewer(more, <<x>>)
<1>1. /\ more \in [Int -> Int] /\ \A a \in Int : more[a] = refs[a] + (IF x = a THEN 1 ELSE 0)
  BY MoreFewerOne
<1> HIDE DEF more
<1>2. /\ same \in [Int -> Int] /\ \A a \in Int : same[a] = more[a] - (IF x = a THEN 1 ELSE 0)
  BY <1>1, MoreFewerOne
<1> HIDE DEF same
<1>3. \A a \in Int : same[a] = refs[a]
  BY <1>1, <1>2
<1>4. same = refs
  BY <1>2, <1>3
<1> QED
  BY <1>4 DEF same, more

LEMMA OpenClose ==
  ASSUME NEW account, IsAccount(account), account.open = {}, NEW f
  PROVE  /\ IsAccount(Opened(account, f, "function"))
         /\ Closed(Opened(account, f, "function"), f) = account
<1> DEFINE o == Opened(account, f, "function")
<1>1. o = [scopes |-> account.scopes, kind |-> account.kind, open |-> {f}]
  BY DEF Opened, IsAccount
<1> HIDE DEF o
<1>2. o.scopes = account.scopes /\ o.kind = account.kind /\ o.open = {f}
  BY <1>1
<1>3. IsAccount(o)
  BY <1>1, <1>2 DEF IsAccount
<1>4. Closed(o, f) = [scopes |-> account.scopes, kind |-> account.kind, open |-> {}]
  BY <1>1, <1>2 DEF Closed
<1>5. Closed(o, f) = account
  BY <1>4 DEF IsAccount
<1> QED
  BY <1>3, <1>5 DEF o

NewFunc(s, scope) ==
  LET f == NextUnit(s)
      made == gc_alloc(s, "function")
      empty == NextUnit(made)
  IN IF scope # None THEN set_closure_addr(made, f, scope)
     ELSE del_reference(set_closure_addr(gc_alloc(made, "closure"), f, empty), empty)

LEMMA NewFuncSound ==
  ASSUME NEW s, NEW refs, NEW account, Sound(s, refs, account), IsAccount(account),
         account.open = {}, refs \in [Int -> Nat],
         NEW scope, scope # None => scope \in DOMAIN s.unit /\ s.unit[scope].type = "closure"
  PROVE  Sound(NewFunc(s, scope), More(refs, <<NextUnit(s)>>), account)
<1> DEFINE f == NextUnit(s)
           made == gc_alloc(s, "function")
           empty == NextUnit(made)
           two == gc_alloc(made, "closure")
           set == set_closure_addr(two, f, empty)
           more == More(refs, <<f>>)
           both == More(more, <<empty>>)
           opened == Opened(account, f, "function")
<1>1. NewFunc(s, scope) = IF scope # None THEN set_closure_addr(made, f, scope)
                          ELSE del_reference(set, empty)
  BY DEF NewFunc
<1>2. Sound(made, more, opened) /\ Allocated(s, made, "function")
  <2>1. made = gc_alloc_with(s, "function", NoFunction)
    BY NewOf DEF gc_alloc
  <2> HIDE DEF made
  <2> QED
    BY <2>1, NewSound
<1>3. IsAccount(opened) /\ Closed(opened, f) = account
  BY OpenClose
<1>4. f \in DOMAIN made.unit /\ made.unit[f].type = "function"
      /\ \A b \in DOMAIN s.unit : b \in DOMAIN made.unit /\ made.unit[b] = s.unit[b]
  BY <1>2 DEF Allocated
<1> HIDE DEF made, opened, f, more
<1>5. CASE scope # None
  <2>1. scope \in DOMAIN made.unit /\ made.unit[scope].type = "closure"
    BY <1>4, <1>5
  <2>2. Sound(set_closure_addr(made, f, scope), more, Closed(opened, f))
    BY <1>2, <1>3, <1>4, <2>1, SetClosureSound
  <2> QED
    BY <1>1, <1>3, <1>5, <2>2 DEF more, f
<1>6. CASE scope = None
  <2>1. Sound(two, both, opened) /\ Allocated(made, two, "closure")
    <3>1. two = gc_alloc_with(made, "closure", <<<<>>>>)
      BY NewOf DEF gc_alloc
    <3> HIDE DEF two
    <3> QED
      BY <1>2, <1>3, <3>1, NewSound
  <2>2. /\ f \in DOMAIN two.unit /\ two.unit[f].type = "function"
        /\ empty \in DOMAIN two.unit /\ two.unit[empty].type = "closure"
    BY <1>4, <2>1 DEF Allocated
  <2>3. empty \in Int
    BY <1>2, Addresses
  <2> HIDE DEF two, empty, both
  <2>4. Sound(set, both, account)
    BY <1>3, <2>1, <2>2, SetClosureSound
  <2>5. more \in [Int -> Nat] /\ more \in [Int -> Int]
    <3>1. refs \in [Int -> Int]
      BY DEF Sound
    <3>2. more \in [Int -> Int] /\ \A a \in Int : more[a] = refs[a] + (IF f = a THEN 1 ELSE 0)
      BY <3>1, MoreFewerOne DEF more
    <3> HIDE DEF more
    <3>3. \A a \in Int : more[a] \in Nat
      BY <3>2
    <3> QED
      BY <3>2, <3>3
  <2>6. both \in [Int -> Int] /\ \A a \in Int : both[a] = more[a] + (IF empty = a THEN 1 ELSE 0)
    BY <2>5, MoreFewerOne DEF both
  <2>7. both[empty] > 0 /\ \A b \in Int : both[b] >= 0
    <3>1. more[empty] \in Nat /\ both[empty] = more[empty] + 1
      BY <2>3, <2>5, <2>6
    <3>2. \A b \in Int : more[b] \in Nat
      BY <2>5
    <3> QED
      BY <2>6, <3>1, <3>2
  <2> HIDE DEF set
  <2>8. DOMAIN set.unit \subseteq Int
    BY <2>4, Addresses
  <2>9. Sound(del_reference(set, empty), Fewer(both, <<empty>>), account)
    BY <2>4, <2>7, <2>8, DelSound
  <2>10. Fewer(both, <<empty>>) = more
    BY <2>5, MoreThenFewer DEF both
  <2> QED
    BY <1>1, <1>6, <2>9, <2>10 DEF more, f
<1> QED
  BY <1>5, <1>6

-----------------------------------------------------------------------------
(* Cells.                                                                   *)

SetCellIs(s, c, a, t) ==
  /\ t = [unit |-> s.unit, mem |-> t.mem, units |-> s.units, cells |-> s.cells]
  /\ DOMAIN t.mem = DOMAIN s.mem /\ t.mem[c] = a
  /\ t.mem = [d \in DOMAIN t.mem |-> t.mem[d]]
  /\ \A d \in DOMAIN s.mem : d # c => t.mem[d] = s.mem[d]

LEMMA SetCellFacts ==
  ASSUME NEW s, Shape(s), NEW c \in DOMAIN s.mem, NEW a,
         NEW t, t = [s EXCEPT !.mem[c] = a]
  PROVE  SetCellIs(s, c, a, t)
<1> DEFINE m == [s.mem EXCEPT ![c] = a]
<1>0. IsStore(s) /\ s.mem = [d \in DOMAIN s.mem |-> s.mem[d]]
  BY ShapeStore DEF Shape
<1>1. t = [s EXCEPT !.mem = m]
  OBVIOUS
<1>2. /\ DOMAIN m = DOMAIN s.mem /\ m[c] = a /\ m = [d \in DOMAIN m |-> m[d]]
      /\ \A d \in DOMAIN s.mem : d # c => m[d] = s.mem[d]
  BY <1>0
<1> HIDE DEF m
<1>3. t = [unit |-> s.unit, mem |-> m, units |-> s.units, cells |-> s.cells]
  BY <1>0, <1>1 DEF IsStore
<1>4. t.mem = m
  BY <1>3
<1> QED
  BY <1>2, <1>3, <1>4 DEF SetCellIs

LEMMA SetCellSound ==
  ASSUME NEW s, NEW refs, NEW account, Sound(s, refs, account),
         NEW c \in DOMAIN s.mem, NEW a \in Held(s),
         NEW t, SetCellIs(s, c, a, t),
         NEW owned \in [Int -> Int],
         \A b \in DOMAIN s.unit :
           owned[b] = refs[b] - (IF a = b THEN 1 ELSE 0) + (IF s.mem[c] = b THEN 1 ELSE 0),
         \A b \in Int : b # None /\ owned[b] > 0 => b \in DOMAIN s.unit
  PROVE  Sound(t, owned, account)
<1>1. Shape(s) /\ Owned(s) /\ Counted(s, refs) /\ Valid(s, refs) /\ Typed(s, account)
      /\ refs \in [Int -> Int]
      /\ s.mem = [d \in DOMAIN s.mem |-> s.mem[d]]
  BY DEF Sound, Shape
<1>2. /\ t = [unit |-> s.unit, mem |-> t.mem, units |-> s.units, cells |-> s.cells]
      /\ DOMAIN t.mem = DOMAIN s.mem /\ t.mem[c] = a
      /\ t.mem = [d \in DOMAIN t.mem |-> t.mem[d]]
      /\ \A d \in DOMAIN s.mem : d # c => t.mem[d] = s.mem[d]
  BY DEF SetCellIs
<1>3. t.unit = s.unit /\ t.units = s.units /\ t.cells = s.cells
  BY <1>2
<1>4. Shape(t)
  <2>1. t = [unit |-> t.unit, mem |-> t.mem, units |-> t.units, cells |-> t.cells]
    BY <1>2, <1>3
  <2> QED
    BY <1>1, <1>2, <1>3, <2>1 DEF Shape
<1>5. Owned(t)
  BY <1>1, <1>2, <1>3 DEF Owned
<1>6. \A b \in DOMAIN s.unit :
        InCells(t, DOMAIN s.mem, b) + (IF s.mem[c] = b THEN 1 ELSE 0)
          = InCells(s, DOMAIN s.mem, b) + (IF a = b THEN 1 ELSE 0)
        /\ InCells(t, DOMAIN s.mem, b) \in Nat /\ InCells(s, DOMAIN s.mem, b) \in Nat
  <2> TAKE b \in DOMAIN s.unit
  <2> DEFINE C == DOMAIN s.mem
             D == C \ {c}
             k == InCells(s, D, b)
             x == IF s.mem[c] = b THEN 1 ELSE 0
             y == IF a = b THEN 1 ELSE 0
  <2>1. IsFiniteSet(C) /\ {c} \in SUBSET C
    BY <1>1, Bounded
  <2>2. InCells(s, C, b) = InCells(s, {c}, b) + k
    BY <2>1, InCellsSplit
  <2>3. InCells(t, C, b) = InCells(t, {c}, b) + InCells(t, D, b)
    BY <2>1, InCellsSplit
  <2>4. InCells(t, D, b) = k
    <3>1. \A d \in D : t.mem[d] = s.mem[d]
      BY <1>2
    <3> QED
      BY <3>1, InCellsSame
  <2>5. InCells(s, {c}, b) = x /\ InCells(t, {c}, b) = y
    BY <1>2, InCellsOne
  <2>6. k \in Nat /\ x \in Nat /\ y \in Nat
    <3>1. IsFiniteSet(D)
      BY <2>1, FS_Subset
    <3> QED
      BY <3>1, InCellsNat
  <2> HIDE DEF C, D, k, x, y
  <2>7. InCells(s, C, b) = x + k /\ InCells(t, C, b) = y + k
    BY <2>2, <2>3, <2>4, <2>5
  <2>8. (y + k) + x = (x + k) + y /\ y + k \in Nat /\ x + k \in Nat
    BY <2>6
  <2> QED
    BY <2>7, <2>8 DEF C, x, y
<1>7. Counted(t, owned)
  <2> SUFFICES ASSUME NEW b \in DOMAIN s.unit PROVE s.unit[b].cnt >= owned[b] + HeldInside(t, b)
    BY <1>3 DEF Counted
  <2> DEFINE n == s.unit[b].cnt
             u == InUnits(s, DOMAIN s.unit, b)
             i == InCells(s, DOMAIN s.mem, b)
             j == InCells(t, DOMAIN s.mem, b)
             x == IF s.mem[c] = b THEN 1 ELSE 0
             y == IF a = b THEN 1 ELSE 0
  <2>1. HeldInside(s, b) = i + u /\ u \in Nat
    BY <1>1, HeldNat
  <2>2. HeldInside(t, b) = j + u
    <3>1. HeldInside(t, b) = InCells(t, DOMAIN t.mem, b) + InUnits(t, DOMAIN t.unit, b)
      BY DEF HeldInside
    <3>2. InUnits(t, DOMAIN s.unit, b) = u
      BY <1>3, InUnitsSame
    <3> QED
      BY <1>2, <1>3, <3>1, <3>2
  <2>3. j + x = i + y /\ j \in Nat /\ i \in Nat
    BY <1>6
  <2>4. b \in Int
    BY Addresses
  <2>5. refs[b] \in Int /\ n \in Nat
    BY <1>1, <2>4 DEF Shape, WellUnit
  <2>6. owned[b] = refs[b] - y + x
    OBVIOUS
  <2>7. n >= refs[b] + HeldInside(s, b)
    BY <1>1 DEF Counted
  <2>8. x \in Nat /\ y \in Nat
    OBVIOUS
  <2> HIDE DEF n, u, i, j, x, y
  <2>9. n >= owned[b] + HeldInside(t, b)
    BY <2>1, <2>2, <2>3, <2>5, <2>6, <2>7, <2>8
  <2> QED
    BY <2>9 DEF n
<1>8. Valid(t, owned)
  <2>1. \A b \in Int : owned[b] > 0 => b \in DOMAIN t.unit \cup {None}
    BY <1>3
  <2>2. \A d \in DOMAIN t.mem : t.mem[d] \in DOMAIN t.unit \cup {None}
    <3> TAKE d \in DOMAIN t.mem
    <3>1. CASE d = c
      BY <1>2, <1>3, <3>1 DEF Held
    <3>2. CASE d # c
      BY <1>1, <1>2, <1>3, <3>2 DEF Valid
    <3> QED
      BY <3>1, <3>2
  <2> QED
    BY <1>1, <1>3, <2>1, <2>2 DEF Valid
<1>9. Typed(t, account)
  BY <1>1, <1>3 DEF Typed
<1> QED
  BY <1>4, <1>5, <1>7, <1>8, <1>9 DEF Sound

LEMMA FewerWeaker ==
  ASSUME NEW s, NEW refs, NEW account, Sound(s, refs, account), NEW a \in Int
  PROVE  Sound(s, Fewer(refs, <<a>>), account)
<1> DEFINE owned == Fewer(refs, <<a>>)
<1>1. refs \in [Int -> Int] /\ DOMAIN s.unit \subseteq Int
  BY Addresses
<1>2. owned \in [Int -> Int] /\ \A b \in Int : owned[b] = refs[b] - (IF a = b THEN 1 ELSE 0)
  BY <1>1, MoreFewerOne
<1> HIDE DEF owned
<1>3. \A b \in Int : owned[b] <= refs[b]
  BY <1>1, <1>2
<1>4. Sound(s, owned, account)
  BY <1>1, <1>2, <1>3, Weaker
<1> QED
  BY <1>4 DEF owned

LEMMA Owner ==
  ASSUME NEW s, NEW refs, NEW account, Sound(s, refs, account), NEW a \in Int, refs[a] > 0, a # None
  PROVE  a \in DOMAIN s.unit /\ a \in Held(s)
BY DEF Sound, Valid, Held

LEMMA MemChangeSound ==
  ASSUME NEW s, NEW refs, NEW account, Sound(s, refs, account), refs \in [Int -> Nat],
         NEW c, NEW a \in Held(s), a # None => refs[a] > 0,
         NEW t, t = mem_change(s, c, a)
  PROVE  Sound(t, Fewer(refs, <<a>>), account)
<1> DEFINE x == s.mem[c]
           e == [s EXCEPT !.mem[c] = None]
           r == del_reference(e, x)
           owned == Fewer(refs, <<a>>)
           more == More(refs, <<x>>)
<1>0. refs \in [Int -> Int] /\ a \in Int /\ Shape(s) /\ Valid(s, refs)
      /\ DOMAIN s.unit \subseteq Int /\ None \notin DOMAIN s.unit
  BY Addresses DEF Sound
<1>1. CASE c \notin DOMAIN s.mem
  <2>1. t = s
    BY <1>1 DEF mem_change
  <2> QED
    BY <1>0, <2>1, FewerWeaker
<1>2. CASE c \in DOMAIN s.mem
  <2>1. t = [r EXCEPT !.mem[c] = a]
    BY <1>2 DEF mem_change
  <2>2. SetCellIs(s, c, None, e)
    BY <1>0, <1>2, SetCellFacts
  <2> HIDE DEF e
  <2>3. x \in Held(s)
    BY <1>0, <1>2 DEF Valid, Held
  <2> HIDE DEF x
  <2>4. more \in [Int -> Int] /\ \A b \in Int : more[b] = refs[b] + (IF x = b THEN 1 ELSE 0)
    BY <1>0, MoreFewerOne
  <2> HIDE DEF more
  <2>5. Sound(e, more, account)
    <3>1. \A b \in DOMAIN s.unit :
            more[b] = refs[b] - (IF None = b THEN 1 ELSE 0) + (IF s.mem[c] = b THEN 1 ELSE 0)
      <4> TAKE b \in DOMAIN s.unit
      <4>1. b # None /\ refs[b] \in Int /\ more[b] = refs[b] + (IF x = b THEN 1 ELSE 0)
        BY <1>0, <2>4
      <4>2. (IF None = b THEN 1 ELSE 0) = 0
        BY <4>1
      <4> DEFINE k == IF x = b THEN 1 ELSE 0
      <4>3. k \in Nat
        OBVIOUS
      <4> HIDE DEF k
      <4>4. more[b] = refs[b] - 0 + k
        BY <4>1, <4>3 DEF k
      <4> QED
        BY <4>2, <4>4 DEF k, x
    <3>2. \A b \in Int : b # None /\ more[b] > 0 => b \in DOMAIN s.unit
      <4> TAKE b \in Int
      <4>1. CASE x = b
        BY <2>3, <4>1 DEF Held
      <4>2. CASE x # b
        <5>1. more[b] = refs[b] + 0 /\ refs[b] \in Int
          BY <1>0, <2>4, <4>2
        <5>2. more[b] = refs[b]
          BY <5>1
        <5> QED
          BY <1>0, <5>2 DEF Valid
      <4> QED
        BY <4>1, <4>2
    <3>3. None \in Held(s)
      BY DEF Held
    <3> QED
      BY <1>2, <2>2, <2>4, <3>1, <3>2, <3>3, SetCellSound
  <2>6. Sound(r, refs, account) /\ Kept(e, r)
    <3>1. \A b \in Int : more[b] >= 0 /\ (x = b => more[b] > 0)
      <4> TAKE b \in Int
      <4>1. refs[b] \in Nat /\ more[b] = refs[b] + (IF x = b THEN 1 ELSE 0)
        BY <2>4
      <4> QED
        BY <4>1
    <3>2. DOMAIN e.unit \subseteq Int
      BY <2>5, Addresses
    <3>3. Sound(r, Fewer(more, <<x>>), account) /\ Kept(e, r)
      BY <2>5, <3>1, <3>2, DelSound
    <3>4. Fewer(more, <<x>>) = refs
      BY <1>0, MoreThenFewer DEF more
    <3> QED
      BY <3>3, <3>4
  <2> HIDE DEF r
  <2>7. Shape(r) /\ Valid(r, refs) /\ a \in Held(r)
    <3>1. CASE a # None
      BY <1>0, <2>6, <3>1, Owner DEF Sound
    <3>2. CASE a = None
      BY <2>6, <3>2 DEF Sound, Held
    <3> QED
      BY <3>1, <3>2
  <2>8. CASE c \in DOMAIN r.mem
    <3>1. r.mem[c] = None
      <4>1. e.mem[c] = None
        BY <2>2 DEF SetCellIs
      <4> QED
        BY <2>6, <2>8, <4>1 DEF Kept
    <3>2. SetCellIs(r, c, a, t)
      BY <2>1, <2>7, <2>8, SetCellFacts
    <3>3. owned \in [Int -> Int] /\ \A b \in Int : owned[b] = refs[b] - (IF a = b THEN 1 ELSE 0)
      BY <1>0, MoreFewerOne
    <3> HIDE DEF owned
    <3>4. \A b \in DOMAIN r.unit : b \in Int /\ b # None
      BY <2>6, Addresses
    <3>5. \A b \in DOMAIN r.unit :
            owned[b] = refs[b] - (IF a = b THEN 1 ELSE 0) + (IF r.mem[c] = b THEN 1 ELSE 0)
      <4> TAKE b \in DOMAIN r.unit
      <4>1. owned[b] = refs[b] - (IF a = b THEN 1 ELSE 0) /\ owned[b] \in Int
        BY <3>3, <3>4
      <4>2. (IF r.mem[c] = b THEN 1 ELSE 0) = 0
        BY <3>1, <3>4
      <4>3. owned[b] + 0 = owned[b]
        BY <4>1
      <4> QED
        BY <4>1, <4>2, <4>3
    <3>6. \A b \in Int : b # None /\ owned[b] > 0 => b \in DOMAIN r.unit
      <4> TAKE b \in Int
      <4>1. owned[b] <= refs[b] /\ owned[b] \in Int /\ refs[b] \in Int
        BY <1>0, <3>3
      <4>2. owned[b] > 0 => refs[b] > 0
        BY <4>1
      <4> QED
        BY <2>7, <4>2 DEF Valid
    <3>7. Sound(t, owned, account)
      BY <2>6, <2>7, <2>8, <3>2, <3>3, <3>5, <3>6, SetCellSound
    <3> QED
      BY <3>7 DEF owned
  <2>9. CASE c \notin DOMAIN r.mem
    <3>1. t = r
      <4>1. IsStore(r) /\ r.mem = [d \in DOMAIN r.mem |-> r.mem[d]]
        BY <2>7, ShapeStore DEF Shape
      <4>2. [r.mem EXCEPT ![c] = a] = r.mem
        BY <2>9, <4>1
      <4>3. t = [r EXCEPT !.mem = [r.mem EXCEPT ![c] = a]]
        BY <2>1
      <4> QED
        BY <4>1, <4>2, <4>3 DEF IsStore
    <3> QED
      BY <1>0, <2>6, <3>1, FewerWeaker
  <2> QED
    BY <2>8, <2>9
<1> QED
  BY <1>1, <1>2

-----------------------------------------------------------------------------
(* Contents that lose cells.                                                *)

KeptBut(s, t, v, val) ==
  /\ t.units = s.units /\ t.cells = s.cells
  /\ DOMAIN t.unit \subseteq DOMAIN s.unit
  /\ \A b \in DOMAIN t.unit : /\ t.unit[b].type = s.unit[b].type
                              /\ t.unit[b].val = IF b = v THEN val ELSE s.unit[b].val
  /\ DOMAIN t.mem \subseteq DOMAIN s.mem
  /\ \A c \in DOMAIN t.mem : t.mem[c] = s.mem[c]

(* What is destroyed has no references that are not given back.             *)
Spared(s, addrs, cells, refs) ==
  \A dead : Closing(s, addrs, cells, dead) => \A b \in dead : Count(addrs, b) <= refs[b]

LEMMA ShedSoundIf ==
  ASSUME NEW s, NEW refs, NEW account, Sound(s, refs, account),
         NEW addrs, IsSeq(addrs),
         NEW v, NEW val, NEW cells, Suits(s, v, val), Sheds(s, v, val, cells),
         Spared(SetVal(s, v, val), addrs, cells, refs),
         NEW after, LongEnough(s, v, val, account, after),
         NEW t, t = SetVal(Released(s, addrs, cells), v, val)
  PROVE  Sound(t, Fewer(refs, addrs), after) /\ KeptBut(s, t, v, val) /\ DOMAIN t.mem \cap cells = {}
<1> DEFINE m == SetVal(s, v, val)
<1>1. Shape(s) /\ Owned(s)
  BY DEF Sound
<1>2. Sound(m, refs, after)
  BY SetValSound
<1>3. /\ Shape(m) /\ Owned(m)
      /\ cells \in SUBSET DOMAIN m.mem
      /\ \A b \in DOMAIN m.unit : Cells(m.unit[b]) \cap cells = {}
      /\ \E dead : Closing(m, addrs, cells, dead) /\ t = Left(m, addrs, cells, dead)
  BY <1>1, ShedLeft
<1>4. PICK dead : Closing(m, addrs, cells, dead) /\ t = Left(m, addrs, cells, dead)
  BY <1>3
<1>7. \A b \in dead : Count(addrs, b) <= refs[b]
  BY <1>4 DEF Spared
<1>5. SetValIs(s, v, val, m)
  <2>1. IsStore(s) /\ v \in DOMAIN s.unit /\ IsUnit(s.unit[v])
    BY <1>1, ShapeStore DEF Suits
  <2> QED
    BY <2>1, SetValFacts
<1> HIDE DEF m
<1>6. /\ m.mem = s.mem /\ m.units = s.units /\ m.cells = s.cells /\ DOMAIN m.unit = DOMAIN s.unit
      /\ \A b \in DOMAIN s.unit : /\ m.unit[b].type = s.unit[b].type
                                  /\ m.unit[b].val = IF b = v THEN val ELSE s.unit[b].val
  <2>1. m = [unit |-> m.unit, mem |-> s.mem, units |-> s.units, cells |-> s.cells]
        /\ DOMAIN m.unit = DOMAIN s.unit
    BY <1>5 DEF SetValIs
  <2>2. m.mem = s.mem /\ m.units = s.units /\ m.cells = s.cells
    BY <2>1
  <2>3. \A b \in DOMAIN s.unit : b # v => m.unit[b] = s.unit[b]
    BY <1>5 DEF SetValIs
  <2>4. m.unit[v].type = s.unit[v].type /\ m.unit[v].val = val
    BY <1>5 DEF SetValIs
  <2> QED
    BY <2>1, <2>2, <2>3, <2>4
<1>8. Sound(t, Fewer(refs, addrs), after)
  BY <1>2, <1>3, <1>4, <1>7, LeftSound
<1>9. Kept(m, t) /\ DOMAIN t.mem \cap cells = {}
  <2>1. Shape(m) /\ Owned(m) /\ cells \in SUBSET DOMAIN m.mem
    BY <1>3
  <2> HIDE DEF m
  <2> QED
    BY SMTT(30), <2>1, <1>4, LeftKept
<1>10. KeptBut(s, t, v, val)
  BY <1>6, <1>9 DEF Kept, KeptBut
<1> QED
  BY <1>8, <1>9, <1>10

LEMMA ShedSound ==
  ASSUME NEW s, NEW refs, NEW account, Sound(s, refs, account),
         NEW addrs, IsSeq(addrs), \A b \in DOMAIN s.unit : Count(addrs, b) <= refs[b],
         NEW v, NEW val, NEW cells, Suits(s, v, val), Sheds(s, v, val, cells),
         NEW after, LongEnough(s, v, val, account, after),
         NEW t, t = SetVal(Released(s, addrs, cells), v, val)
  PROVE  Sound(t, Fewer(refs, addrs), after) /\ KeptBut(s, t, v, val) /\ DOMAIN t.mem \cap cells = {}
<1> DEFINE m == SetVal(s, v, val)
<1>1. DOMAIN m.unit = DOMAIN s.unit
  <2>1. IsStore(s) /\ v \in DOMAIN s.unit /\ IsUnit(s.unit[v])
    BY ShapeStore DEF Suits, Sound
  <2>2. SetValIs(s, v, val, m)
    BY <2>1, SetValFacts
  <2> HIDE DEF m
  <2> QED
    BY <2>2 DEF SetValIs
<1>2. \A dead : Closing(m, addrs, cells, dead) => \A b \in dead : Count(addrs, b) <= refs[b]
  BY <1>1 DEF Closing
<1> HIDE DEF m
<1>3. Spared(SetVal(s, v, val), addrs, cells, refs)
  BY <1>2 DEF m, Spared
<1> QED
  BY <1>3, ShedSoundIf

LEMMA NoFewer ==
  ASSUME NEW refs \in [Int -> Int]
  PROVE  Fewer(refs, <<>>) = refs /\ More(refs, <<>>) = refs
<1> DEFINE f == Fewer(refs, <<>>)
           m == More(refs, <<>>)
<1>1. /\ f \in [Int -> Int] /\ \A a \in Int : f[a] = refs[a] - Count(<<>>, a)
      /\ m \in [Int -> Int] /\ \A a \in Int : m[a] = refs[a] + Count(<<>>, a)
  <2>1. IsSeq(<<>>)
    BY TupleSeq
  <2> QED
    BY <2>1, MoreFewer
<1>2. \A a \in Int : Count(<<>>, a) = 0
  BY CountEmpty
<1> HIDE DEF f, m
<1>3. \A a \in Int : f[a] = refs[a] /\ m[a] = refs[a]
  BY <1>1, <1>2
<1>4. f = refs /\ m = refs
  BY <1>1, <1>3
<1> QED
  BY <1>4 DEF f, m

LEMMA SetValNew ==
  ASSUME NEW s, NEW refs, NEW account, Sound(s, refs, account),
         NEW v, NEW val, NEW new, new = [s EXCEPT !.unit[v].val = val]
  PROVE  /\ v \notin DOMAIN s.unit => new = s
         /\ v \in DOMAIN s.unit => new = SetVal(s, v, val) /\ SetValIs(s, v, val, new)
<1>1. IsStore(s) /\ \A b \in DOMAIN s.unit : IsUnit(s.unit[b])
  BY ShapeStore DEF Sound
<1>2. new = SetVal(s, v, val)
  BY DEF SetVal
<1> QED
  BY <1>1, <1>2, SetValNone, SetValFacts

Scoped(account, c, n) ==
  [account EXCEPT !.scopes = [a \in Int |-> IF a = c THEN account.scopes[a] + n ELSE account.scopes[a]]]

LEMMA ScopedIs ==
  ASSUME NEW account, IsAccount(account), NEW c, NEW n
  PROVE  /\ IsAccount(Scoped(account, c, n))
         /\ Scoped(account, c, n).scopes =
              [a \in Int |-> IF a = c THEN account.scopes[a] + n ELSE account.scopes[a]]
         /\ Scoped(account, c, n).kind = account.kind /\ Scoped(account, c, n).open = account.open
<1> DEFINE m == [a \in Int |-> IF a = c THEN account.scopes[a] + n ELSE account.scopes[a]]
           o == Scoped(account, c, n)
<1> HIDE DEF m
<1>1. o = [scopes |-> m, kind |-> account.kind, open |-> account.open]
  BY DEF IsAccount, Scoped, m
<1> HIDE DEF o
<1>2. o.scopes = m /\ o.kind = account.kind /\ o.open = account.open
  BY <1>1
<1> QED
  BY <1>1, <1>2 DEF IsAccount, o, m

(* What is known of the scopes of a closure.                                *)
ScopeFacts(s, account, c) ==
  LET scopes == s.unit[c].val
  IN /\ IsSeq(scopes) /\ Len(scopes) \in Nat /\ DOMAIN scopes = 1..Len(scopes)
     /\ account.scopes \in [Int -> Nat] /\ account.scopes[c] \in Nat
     /\ Len(scopes) >= 1 + account.scopes[c]
     /\ \A i \in DOMAIN scopes : IsMap(scopes[i])
     /\ \A i, j \in DOMAIN scopes : \A x \in DOMAIN scopes[i], y \in DOMAIN scopes[j] :
          scopes[i][x] = scopes[j][y] => i = j /\ x = y
     /\ Cells(s.unit[c]) = UNION {CellsOf(scopes[i]) : i \in DOMAIN scopes}
     /\ Cells(s.unit[c]) \subseteq DOMAIN s.mem

LEMMA OfClosure ==
  ASSUME NEW s, NEW refs, NEW account, Sound(s, refs, account),
         NEW c \in DOMAIN s.unit, s.unit[c].type = "closure"
  PROVE  ScopeFacts(s, account, c)
<1> DEFINE scopes == s.unit[c].val
<1>1. WellVal("closure", scopes) /\ Separate("closure", scopes) /\ Cells(s.unit[c]) \subseteq DOMAIN s.mem
  BY DEF Sound, Shape, WellUnit, Owned
<1>2. account.scopes \in [Int -> Nat] /\ Len(scopes) >= 1 + account.scopes[c] /\ c \in Int
  BY Addresses DEF Sound, Typed
<1>3. Cells(s.unit[c]) = UNION {CellsOf(scopes[i]) : i \in DOMAIN scopes}
  BY CellsByType
<1> HIDE DEF scopes
<1>4. IsSeq(scopes) /\ (\A i \in DOMAIN scopes : IsMap(scopes[i]))
      /\ \A i, j \in DOMAIN scopes : \A x \in DOMAIN scopes[i], y \in DOMAIN scopes[j] :
           scopes[i][x] = scopes[j][y] => i = j /\ x = y
  BY <1>1 DEF WellVal, Separate
<1>5. Len(scopes) \in Nat /\ DOMAIN scopes = 1..Len(scopes)
  BY <1>4, SeqFacts
<1> QED
  BY <1>1, <1>2, <1>3, <1>4, <1>5 DEF ScopeFacts, scopes

-----------------------------------------------------------------------------
(* Scopes.                                                                  *)

LEMMA AddScopeSound ==
  ASSUME NEW s, NEW refs, NEW account, Sound(s, refs, account), IsAccount(account),
         NEW c \in DOMAIN s.unit, s.unit[c].type = "closure",
         NEW t, t = add_scope(s, c)
  PROVE  /\ Sound(t, refs, Scoped(account, c, 1))
         /\ SetValIs(s, c, Append(s.unit[c].val, <<>>), t)
<1> DEFINE scopes == s.unit[c].val
           val == Append(scopes, <<>>)
           new == [type |-> s.unit[c].type, val |-> val]
           after == Scoped(account, c, 1)
<1>1. Shape(s) /\ Owned(s) /\ IsStore(s) /\ IsUnit(s.unit[c])
  BY ShapeStore DEF Sound
<1>2. t = SetVal(s, c, val)
  BY <1>1 DEF add_scope, SetVal, IsStore, IsUnit
<1>3. SetValIs(s, c, val, t)
  BY <1>1, <1>2, SetValFacts
<1>4. ScopeFacts(s, account, c)
  BY OfClosure
<1>5. new.type = "closure" /\ new.val = val
  OBVIOUS
<1> HIDE DEF scopes, new
<1>6. /\ IsSeq(scopes) /\ Len(scopes) \in Nat /\ DOMAIN scopes = 1..Len(scopes)
  BY <1>4 DEF ScopeFacts, scopes
<1>a. /\ account.scopes \in [Int -> Nat] /\ account.scopes[c] \in Nat
      /\ Len(scopes) >= 1 + account.scopes[c]
  BY <1>4 DEF ScopeFacts, scopes
<1>b. \A i \in DOMAIN scopes : IsMap(scopes[i])
  BY <1>4 DEF ScopeFacts, scopes
<1>c. \A i, j \in DOMAIN scopes : \A x \in DOMAIN scopes[i], y \in DOMAIN scopes[j] :
        scopes[i][x] = scopes[j][y] => i = j /\ x = y
  BY <1>4 DEF ScopeFacts, scopes
<1>d. /\ Cells(s.unit[c]) = UNION {CellsOf(scopes[i]) : i \in DOMAIN scopes}
      /\ Cells(s.unit[c]) \subseteq DOMAIN s.mem
  BY <1>4 DEF ScopeFacts, scopes
<1>7. /\ IsSeq(val) /\ Len(val) = Len(scopes) + 1 /\ DOMAIN val = DOMAIN scopes \cup {Len(scopes) + 1}
      /\ \A i \in DOMAIN scopes : val[i] = scopes[i]
      /\ val[Len(scopes) + 1] = <<>>
  <2>1. /\ IsSeq(val) /\ Len(val) = Len(scopes) + 1
        /\ \A i \in 1..Len(scopes) : val[i] = scopes[i]
        /\ val[Len(scopes) + 1] = <<>>
    BY <1>6, SeqAppend
  <2>2. DOMAIN val = 1..(Len(scopes) + 1)
    BY <2>1, SeqFacts
  <2> QED
    BY <1>6, <2>1, <2>2
<1> HIDE DEF val
<1>8. WellVal("closure", val) /\ Separate("closure", val)
  <2>1. IsMap(<<>>) /\ DOMAIN <<>> = {}
    BY EmptyIs
  <2>2. \A i \in DOMAIN val : IsMap(val[i])
    BY <1>b, <1>7, <2>1
  <2>3. \A i, j \in DOMAIN val : \A x \in DOMAIN val[i], y \in DOMAIN val[j] :
          val[i][x] = val[j][y] => i = j /\ x = y
    BY <1>c, <1>7, <2>1
  <2> QED
    BY <1>7, <2>2, <2>3 DEF WellVal, Separate
<1>9. Cells(new) = Cells(s.unit[c])
  <2>1. Cells(new) = UNION {CellsOf(val[i]) : i \in DOMAIN val}
    BY <1>5, CellsByType
  <2>2. CellsOf(<<>>) = {}
    BY EmptyIs
  <2> QED
    BY <1>d, <1>7, <2>1, <2>2
<1>10. Suits(s, c, val)
  <2>1. \A b \in DOMAIN s.unit : b # c => Cells(new) \cap Cells(s.unit[b]) = {}
    BY <1>1, <1>9 DEF Owned
  <2> QED
    BY <1>d, <1>8, <1>9, <2>1 DEF Suits, new
<1>11. LongEnough(s, c, val, account, after)
  <2>1. c \in Int
    BY Addresses
  <2>2. after.scopes = [a \in Int |-> IF a = c THEN account.scopes[a] + 1 ELSE account.scopes[a]]
        /\ after.kind = account.kind /\ after.open = account.open
    BY ScopedIs
  <2> DEFINE m == account.scopes
             w == after.scopes
             n == Len(val)
             k == Len(scopes)
  <2>5. w = [a \in Int |-> IF a = c THEN m[a] + 1 ELSE m[a]]
    BY <2>2
  <2>6. m \in [Int -> Nat] /\ k >= 1 + m[c] /\ n = k + 1 /\ k \in Nat
    BY <1>6, <1>a, <1>7
  <2> HIDE DEF after, m, w, n, k
  <2>3. w \in [Int -> Nat] /\ w[c] = m[c] + 1
        /\ \A a \in Int : a # c => w[a] = m[a]
    BY <2>1, <2>5, <2>6
  <2>4. n >= 1 + w[c]
    <3>1. m[c] \in Nat
      BY <2>1, <2>6
    <3> QED
      BY <3>1, <2>3, <2>6
  <2> QED
    BY <2>2, <2>3, <2>4 DEF LongEnough, m, w, n, k
<1>12. Sound(t, refs, after)
  BY <1>2, <1>10, <1>11, SetValSound
<1> QED
  BY <1>3, <1>12 DEF val, scopes, after

(* What is left of a store by a release, with other contents for a unit     *)
(* that may be gone as well.                                                *)
LEMMA ReleasedKept ==
  ASSUME NEW s, Shape(s), Owned(s), NEW addrs, IsSeq(addrs), NEW cells \in SUBSET DOMAIN s.mem,
         NEW r, r = Released(s, addrs, cells)
  PROVE  Kept(s, r) /\ IsStore(r) /\ \A b \in DOMAIN r.unit : IsUnit(r.unit[b])
<1>1. PICK dead : Closing(s, addrs, cells, dead) /\ r = Left(s, addrs, cells, dead)
  BY ReleasedLeft
<1>2. Kept(s, r)
  BY <1>1, LeftKept
<1>3. LeftIs(s, addrs, cells, dead, r)
  BY <1>1, LeftFacts
<1>4. /\ r = [unit |-> r.unit, mem |-> r.mem, units |-> s.units, cells |-> s.cells]
      /\ r.unit = [b \in DOMAIN r.unit |-> r.unit[b]]
      /\ \A b \in DOMAIN r.unit : WellUnit(r.unit[b])
  BY <1>3 DEF LeftIs
<1>5. IsStore(r)
  BY <1>2, <1>4 DEF IsStore, Kept
<1> QED
  BY <1>2, <1>4, <1>5 DEF IsUnit, WellUnit

(* What is there later of what was there: all but the contents of unit c.   *)
SameBut(s, t, c) ==
  /\ t.units >= s.units /\ t.cells >= s.cells
  /\ t.units \in Nat /\ t.cells \in Nat
  /\ \A b \in DOMAIN t.unit : b <= s.units =>
       b \in DOMAIN s.unit /\ t.unit[b].type = s.unit[b].type
       /\ (b # c => t.unit[b].val = s.unit[b].val)
  /\ \A d \in DOMAIN t.mem : d <= s.cells => d \in DOMAIN s.mem /\ t.mem[d] = s.mem[d]

ScopeCells(scopes) == UNION {CellsOf(scopes[i]) : i \in DOMAIN scopes}

LEMMA ShortScopes ==
  ASSUME NEW scopes, IsSeq(scopes), NEW n, n = Len(scopes), n >= 1,
         WellVal("closure", scopes), Separate("closure", scopes),
         NEW val, val = SubSeq(scopes, 1, n - 1)
  PROVE  /\ WellVal("closure", val) /\ Separate("closure", val) /\ Len(val) = n - 1
         /\ ScopeCells(val) = ScopeCells(scopes) \ CellsOf(scopes[n])
<1>1. n \in Nat /\ DOMAIN scopes = 1..n
  BY SeqFacts
<1>a. \A i \in DOMAIN scopes : IsMap(scopes[i])
  BY DEF WellVal
<1>b. \A i, j \in DOMAIN scopes : \A x \in DOMAIN scopes[i], y \in DOMAIN scopes[j] :
        scopes[i][x] = scopes[j][y] => i = j /\ x = y
  BY DEF Separate
<1>2. n - 1 \in 0..Len(scopes)
  BY <1>1
<1>3. /\ IsSeq(val) /\ Len(val) = n - 1 /\ DOMAIN val = 1..(n - 1)
      /\ \A i \in 1..(n - 1) : val[i] = scopes[i]
  <2>1. IsSeq(val) /\ Len(val) = n - 1 /\ \A i \in 1..(n - 1) : val[i] = scopes[i]
    BY <1>2, SeqPrefix
  <2> QED
    BY <2>1, SeqFacts
<1>4. /\ \A i \in DOMAIN val : i \in DOMAIN scopes /\ i # n /\ val[i] = scopes[i]
      /\ DOMAIN scopes = DOMAIN val \cup {n} /\ n \in DOMAIN scopes
  <2>1. 1..n = (1..(n - 1)) \cup {n} /\ n \in 1..n /\ n \notin 1..(n - 1)
    BY <1>1
  <2> QED
    BY <1>1, <1>3, <2>1
<1>5. WellVal("closure", val)
  <2>1. \A i \in DOMAIN val : IsMap(val[i])
    BY <1>4, <1>a
  <2> QED
    BY <1>3, <2>1 DEF WellVal
<1>6. Separate("closure", val)
  <2>1. \A i, j \in DOMAIN val : \A x \in DOMAIN val[i], y \in DOMAIN val[j] :
          val[i][x] = val[j][y] => i = j /\ x = y
    BY <1>4, <1>b
  <2> QED
    BY <2>1 DEF Separate
<1>7. \A i \in DOMAIN val : CellsOf(val[i]) = CellsOf(scopes[i])
  BY <1>4
<1>8. \A i \in DOMAIN val : CellsOf(scopes[i]) \cap CellsOf(scopes[n]) = {}
  BY <1>4, <1>b DEF CellsOf
<1>9. UNION {CellsOf(val[i]) : i \in DOMAIN val} = UNION {CellsOf(scopes[i]) : i \in DOMAIN val}
  BY <1>7
<1>10. UNION {CellsOf(scopes[i]) : i \in DOMAIN val}
        = (UNION {CellsOf(scopes[i]) : i \in DOMAIN scopes}) \ CellsOf(scopes[n])
  BY <1>4, <1>8
<1> QED
  BY <1>3, <1>5, <1>6, <1>9, <1>10 DEF ScopeCells

LEMMA DelScopeSound ==
  ASSUME NEW s, NEW refs, NEW account, Sound(s, refs, account), IsAccount(account),
         NEW c \in DOMAIN s.unit, s.unit[c].type = "closure", account.scopes[c] >= 1,
         refs \in [Int -> Nat],
         NEW t, t = del_scope(s, c)
  PROVE  /\ Sound(t, refs, Scoped(account, c, -1))
         /\ SameBut(s, t, c)
<1> DEFINE scopes == s.unit[c].val
           n == Len(scopes)
           val == SubSeq(scopes, 1, n - 1)
           new == [type |-> s.unit[c].type, val |-> val]
           after == Scoped(account, c, -1)
           cells == CellsOf(scopes[n])
           r == Released(s, <<>>, cells)
<1>1. Shape(s) /\ Owned(s)
  BY DEF Sound
<1>2. ScopeFacts(s, account, c)
  BY OfClosure
<1>3. t = [r EXCEPT !.unit[c].val = SubSeq(@, 1, Len(@) - 1)]
  BY DEF del_scope, FreeAll, Last, Front, Val
<1>4. new.type = "closure" /\ new.val = val
  OBVIOUS
<1>5. Cells(new) = ScopeCells(val)
  <2> HIDE DEF val, new
  <2> QED
    BY <1>4, CellsByType DEF ScopeCells
<1> HIDE DEF new, after, r, cells
<1>6. IsSeq(scopes) /\ n \in Nat /\ DOMAIN scopes = 1..n
  BY <1>2 DEF ScopeFacts
<1>7. account.scopes \in [Int -> Nat] /\ account.scopes[c] \in Nat /\ n >= 1 + account.scopes[c]
  BY <1>2 DEF ScopeFacts
<1>8. /\ WellVal("closure", val) /\ Separate("closure", val) /\ Len(val) = n - 1
      /\ ScopeCells(val) = ScopeCells(scopes) \ cells
  <2>1. WellVal("closure", scopes)
    BY <1>1 DEF Shape, WellUnit
  <2>2. Separate("closure", scopes)
    BY <1>1 DEF Owned
  <2>3. n >= 1
    <3> DEFINE k == account.scopes[c]
    <3>1. k \in Nat /\ n >= 1 + k
      BY <1>7
    <3> HIDE DEF k, n
    <3> QED
      BY <1>6, <3>1
  <2>4. n = Len(scopes) /\ val = SubSeq(scopes, 1, n - 1) /\ cells = CellsOf(scopes[n])
    BY DEF cells
  <2> HIDE DEF scopes, n, val
  <2>5. /\ WellVal("closure", val) /\ Separate("closure", val) /\ Len(val) = n - 1
        /\ ScopeCells(val) = ScopeCells(scopes) \ CellsOf(scopes[n])
    BY <1>6, <2>1, <2>2, <2>3, <2>4, ShortScopes
  <2> QED
    BY <2>4, <2>5
<1>9. Cells(s.unit[c]) = ScopeCells(scopes)
  BY <1>2 DEF ScopeFacts, ScopeCells
<1> HIDE DEF val
<1>10. Suits(s, c, val) /\ Sheds(s, c, val, cells)
  <2>1. Cells(new) = Cells(s.unit[c]) \ cells
    BY <1>5, <1>8, <1>9
  <2>2. cells \subseteq Cells(s.unit[c])
    <3>1. n \in DOMAIN scopes
      <4> DEFINE k == account.scopes[c]
                 d == DOMAIN scopes
      <4>1. k \in Nat /\ n >= 1 + k /\ n \in Nat /\ d = 1..n
        BY <1>6, <1>7
      <4> HIDE DEF k, n, scopes, d
      <4>2. n \in d
        BY <4>1
      <4> QED
        BY <4>2 DEF d
    <3> QED
      BY <1>9, <3>1 DEF cells, ScopeCells
  <2> QED
    BY <1>1, <1>8, <2>1, <2>2, ShedsSuits DEF new
<1>11. LongEnough(s, c, val, account, after)
  <2>1. c \in Int
    BY Addresses
  <2>2. after.scopes = [a \in Int |-> IF a = c THEN account.scopes[a] + (-1) ELSE account.scopes[a]]
        /\ after.kind = account.kind /\ after.open = account.open
    BY ScopedIs DEF after
  <2> DEFINE m == account.scopes
             w == after.scopes
             l == Len(val)
  <2>3. w = [a \in Int |-> IF a = c THEN m[a] + (-1) ELSE m[a]]
    BY <2>2
  <2>4. m \in [Int -> Nat] /\ m[c] >= 1 /\ n >= 1 + m[c] /\ l = n - 1 /\ n \in Nat
    BY <1>6, <1>7, <1>8
  <2> HIDE DEF m, w, n, l
  <2>5. w \in [Int -> Nat] /\ w[c] = m[c] - 1 /\ \A a \in Int : a # c => w[a] = m[a]
    BY <2>1, <2>3, <2>4
  <2>6. l >= 1 + w[c]
    <3>1. m[c] \in Nat
      BY <2>1, <2>4
    <3> QED
      BY <3>1, <2>5, <2>4
  <2> QED
    BY <2>2, <2>5, <2>6 DEF LongEnough, m, w, n, l
<1>12. IsSeq(<<>>) /\ \A b \in DOMAIN s.unit : Count(<<>>, b) <= refs[b]
  <2>1. \A b \in DOMAIN s.unit : refs[b] \in Nat /\ Count(<<>>, b) = 0
    BY CountEmpty, Addresses
  <2>2. IsSeq(<<>>)
    BY TupleSeq
  <2> QED
    BY <2>1, <2>2
<1>13. Kept(s, r) /\ IsStore(r) /\ \A b \in DOMAIN r.unit : IsUnit(r.unit[b])
  <2>1. cells \in SUBSET DOMAIN s.mem
    BY <1>10 DEF Sheds
  <2> QED
    BY <1>1, <1>12, <2>1, ReleasedKept DEF r
<1>14. t = SetVal(r, c, val)
  <2>1. CASE c \in DOMAIN r.unit
    <3>1. r.unit[c].val = scopes
      BY <1>13, <2>1 DEF Kept
    <3>2. t = SetVal(r, c, SubSeq(r.unit[c].val, 1, Len(r.unit[c].val) - 1))
      BY <1>3, <1>13, <2>1 DEF SetVal, IsStore, IsUnit
    <3> QED
      BY <3>1, <3>2 DEF val
  <2>2. CASE c \notin DOMAIN r.unit
    <3>1. t = r
      BY <1>3, <1>13, <2>2 DEF IsStore
    <3> QED
      BY <1>13, <2>2, <3>1, SetValNone
  <2> QED
    BY <2>1, <2>2
<1>15. Sound(t, Fewer(refs, <<>>), after) /\ KeptBut(s, t, c, val)
  BY <1>10, <1>11, <1>12, <1>14, ShedSound DEF r
<1>16. Fewer(refs, <<>>) = refs
  BY NoFewer
<1>17. SameBut(s, t, c)
  <2>1. s.units \in Nat /\ s.cells \in Nat
    BY <1>1 DEF Shape
  <2>2. t.units = s.units /\ t.cells = s.cells /\ s.units >= s.units /\ s.cells >= s.cells
    BY SMTT(30), <1>15, <2>1 DEF KeptBut
  <2>3. \A b \in DOMAIN t.unit : b \in DOMAIN s.unit /\ t.unit[b].type = s.unit[b].type
          /\ (b # c => t.unit[b].val = s.unit[b].val)
    BY <1>15 DEF KeptBut
  <2>4. \A d \in DOMAIN t.mem : d \in DOMAIN s.mem /\ t.mem[d] = s.mem[d]
    BY <1>15 DEF KeptBut
  <2> QED
    BY <2>1, <2>2, <2>3, <2>4 DEF SameBut
<1> QED
  BY <1>15, <1>16, <1>17 DEF after

-----------------------------------------------------------------------------
(* A value that is in a cell of its own, without a reference for that yet,  *)
(* and in a unit x that the user holds, is not destroyed in between.        *)
HoldsValue(s, x, a) ==
  \/ \E d \in Cells(s.unit[x]) : s.mem[d] = a
  \/ \E i \in DOMAIN Direct(s.unit[x]) : Direct(s.unit[x])[i] = a

LEMMA InCellsTwo ==
  ASSUME NEW s, NEW M, IsFiniteSet(M), NEW a, NEW d \in M, NEW e \in M, d # e,
         s.mem[d] = a, s.mem[e] = a
  PROVE  InCells(s, M, a) \in Nat /\ InCells(s, M, a) >= 2
<1>1. IsFiniteSet(M \ {e}) /\ IsFiniteSet((M \ {e}) \ {d})
  BY FS_Difference, FS_Singleton
<1>2. InCells(s, M, a) = InCells(s, {e}, a) + InCells(s, M \ {e}, a)
  <2>1. {e} \in SUBSET M
    OBVIOUS
  <2> QED
    BY <2>1, InCellsSplit
<1>3. InCells(s, M \ {e}, a) = InCells(s, {d}, a) + InCells(s, (M \ {e}) \ {d}, a)
  <2>1. {d} \in SUBSET (M \ {e})
    OBVIOUS
  <2> QED
    BY <1>1, <2>1, InCellsSplit
<1>4. InCells(s, {e}, a) = 1 /\ InCells(s, {d}, a) = 1
  BY InCellsOne
<1>5. InCells(s, (M \ {e}) \ {d}, a) \in Nat
  BY <1>1, InCellsNat
<1> QED
  BY <1>2, <1>3, <1>4, <1>5

LEMMA InCellsSome ==
  ASSUME NEW s, NEW M, IsFiniteSet(M), NEW a, NEW e \in M, s.mem[e] = a
  PROVE  InCells(s, M, a) \in Nat /\ InCells(s, M, a) >= 1
<1>1. IsFiniteSet(M \ {e})
  BY FS_Difference, FS_Singleton
<1>2. InCells(s, M, a) = InCells(s, {e}, a) + InCells(s, M \ {e}, a)
  <2>1. {e} \in SUBSET M
    OBVIOUS
  <2> QED
    BY <2>1, InCellsSplit
<1>3. InCells(s, {e}, a) = 1
  BY InCellsOne
<1>4. InCells(s, M \ {e}, a) \in Nat
  BY <1>1, InCellsNat
<1> QED
  BY <1>2, <1>3, <1>4

LEMMA Survives ==
  ASSUME NEW s, NEW refs, NEW account, Sound(s, refs, account),
         NEW none, IsSeq(none), \A b : Count(none, b) = 0,
         NEW cells \in SUBSET DOMAIN s.mem, \A b \in DOMAIN s.unit : Cells(s.unit[b]) \cap cells = {},
         NEW dead, Closing(s, none, cells, dead),
         NEW a \in DOMAIN s.unit, refs[a] >= -1,
         NEW x \in DOMAIN s.unit, refs[x] > 0, HoldsValue(s, x, a),
         NEW e \in DOMAIN s.mem, e \notin cells, s.mem[e] = a,
         \A b \in DOMAIN s.unit : e \notin Cells(s.unit[b])
  PROVE  a \notin dead
<1> DEFINE r == Left(s, none, cells, dead)
           held == HeldInside(s, a)
           left == HeldInside(r, a)
           back == GivenBack(s, none, cells, dead, a)
<1>1. Shape(s) /\ Owned(s) /\ refs \in [Int -> Int] /\ Counted(s, refs)
  BY DEF Sound
<1>2. LeftIs(s, none, cells, dead, r)
  BY <1>1, LeftFacts
<1>3. Shape(r) /\ Owned(r)
  BY <1>1, LeftShape
<1>4. \A b : /\ HeldInside(s, b) + Count(none, b) = HeldInside(r, b) + GivenBack(s, none, cells, dead, b)
             /\ HeldInside(s, b) \in Nat /\ HeldInside(r, b) \in Nat
             /\ Count(none, b) = 0 /\ GivenBack(s, none, cells, dead, b) \in Nat
  <2> TAKE b
  <2>1. r = Left(s, none, cells, dead)
    OBVIOUS
  <2>2. /\ HeldInside(s, b) + Count(none, b) = HeldInside(r, b) + GivenBack(s, none, cells, dead, b)
        /\ HeldInside(s, b) \in Nat /\ HeldInside(r, b) \in Nat
        /\ GivenBack(s, none, cells, dead, b) \in Nat
    <3> HIDE DEF r
    <3> QED
      BY <1>1, <2>1, HeldLeft
  <2>3. Count(none, b) = 0
    OBVIOUS
  <2> HIDE DEF r
  <2> QED
    BY <2>2, <2>3 DEF r
<1>5. \A b \in DOMAIN s.unit : s.unit[b].cnt \in Nat /\ s.unit[b].cnt >= refs[b] + HeldInside(s, b)
  BY <1>1 DEF Counted, Shape, WellUnit
<1>6. DOMAIN s.unit \subseteq Int
  BY Addresses
<1> HIDE DEF r
<1>7. x \notin dead
  <2> DEFINE h == HeldInside(s, x)
             g == GivenBack(s, none, cells, dead, x)
             l == HeldInside(r, x)
             k == s.unit[x].cnt
             f == refs[x]
  <2>1. h + Count(none, x) = l + g /\ h \in Nat /\ l \in Nat /\ g \in Nat /\ Count(none, x) = 0
    BY <1>4
  <2>2. k \in Nat /\ k >= f + h /\ f \in Int /\ f > 0
    BY <1>1, <1>5, <1>6
  <2>3. x \in dead <=> k <= g
    BY DEF Closing
  <2> HIDE DEF h, g, l, k, f
  <2> QED
    BY <2>1, <2>2, <2>3
<1>8. DOMAIN r.mem = DOMAIN s.mem \ (cells \cup CellsIn(s, dead))
      /\ \A c \in DOMAIN r.mem : r.mem[c] = s.mem[c]
  BY <1>2 DEF LeftIs
<1>9. dead \subseteq DOMAIN s.unit
  BY DEF Closing
<1>10. e \in DOMAIN r.mem /\ r.mem[e] = a
  BY <1>8, <1>9 DEF CellsIn
<1>11. left \in Nat /\ left >= 2
  <2>1. /\ InCells(r, DOMAIN r.mem, a) \in Nat /\ InUnits(r, DOMAIN r.unit, a) \in Nat
        /\ left = InCells(r, DOMAIN r.mem, a) + InUnits(r, DOMAIN r.unit, a)
    BY <1>3, HeldNat
  <2>2. IsFiniteSet(DOMAIN r.mem) /\ IsFiniteSet(DOMAIN r.unit) /\ DirectsInOrder(r, DOMAIN r.unit)
    BY <1>3, Bounded
  <2>3. CASE \E d \in Cells(s.unit[x]) : s.mem[d] = a
    <3>1. PICK d \in Cells(s.unit[x]) : s.mem[d] = a
      BY <2>3
    <3>2. d # e
      BY <3>1
    <3>3. d \in DOMAIN s.mem /\ d \notin cells /\ d \notin CellsIn(s, dead)
      <4>1. d \in DOMAIN s.mem /\ d \notin cells
        BY <1>1 DEF Owned
      <4>2. \A b \in dead : d \notin Cells(s.unit[b])
        BY <1>1, <1>7, <1>9 DEF Owned
      <4> QED
        BY <4>1, <4>2 DEF CellsIn
    <3>4. d \in DOMAIN r.mem /\ r.mem[d] = a
      BY <1>8, <3>1, <3>3
    <3>5. InCells(r, DOMAIN r.mem, a) >= 2
      BY <1>10, <2>2, <3>2, <3>4, InCellsTwo
    <3> QED
      BY <2>1, <3>5
  <2>4. CASE \E i \in DOMAIN Direct(s.unit[x]) : Direct(s.unit[x])[i] = a
    <3>1. x \in DOMAIN r.unit /\ r.unit[x].type = s.unit[x].type /\ r.unit[x].val = s.unit[x].val
      BY <1>2, <1>7 DEF LeftIs
    <3>2. Direct(r.unit[x]) = Direct(s.unit[x])
      BY <3>1, SameContents
    <3>3. InUnits(r, DOMAIN r.unit, a) # 0
      BY <2>2, <2>4, <3>1, <3>2, InUnitsZero
    <3>4. InCells(r, DOMAIN r.mem, a) >= 1
      BY <1>10, <2>2, InCellsSome
    <3> QED
      BY <2>1, <3>3, <3>4
  <2> QED
    BY <2>3, <2>4 DEF HoldsValue
<1>12. SUFFICES ASSUME a \in dead PROVE FALSE
  OBVIOUS
<1> DEFINE k == s.unit[a].cnt
           f == refs[a]
<1>13. held + Count(none, a) = left + back /\ held \in Nat /\ back \in Nat /\ Count(none, a) = 0
  BY <1>4
<1>14. k \in Nat /\ k >= f + held /\ f \in Int /\ f >= -1
  BY <1>1, <1>5, <1>6
<1>15. k <= back
  BY <1>12 DEF Closing
<1> HIDE DEF held, left, back, k, f
<1> QED
  BY <1>11, <1>13, <1>14, <1>15

-----------------------------------------------------------------------------
(* Contents of a closure with another map for its innermost scope.          *)
Rescope(scopes, n, m, val) ==
  /\ DOMAIN val = DOMAIN scopes
  /\ val = [i \in DOMAIN val |-> val[i]]
  /\ n \in DOMAIN scopes => val[n] = m
  /\ \A i \in DOMAIN scopes : i # n => val[i] = scopes[i]

LEMMA RescopeIs ==
  ASSUME NEW scopes, NEW n, NEW m, NEW val, val = [scopes EXCEPT ![n] = m]
  PROVE  Rescope(scopes, n, m, val)
BY DEF Rescope

LEMMA OtherScope ==
  ASSUME NEW scopes, WellVal("closure", scopes), NEW n, n = Len(scopes), n >= 1,
         NEW m, IsMap(m), NEW val, Rescope(scopes, n, m, val)
  PROVE  /\ WellVal("closure", val) /\ Len(val) = n /\ DOMAIN val = DOMAIN scopes
         /\ n \in DOMAIN scopes /\ val[n] = m
         /\ \A i \in DOMAIN scopes : i # n => val[i] = scopes[i]
<1>1. IsSeq(scopes) /\ \A i \in DOMAIN scopes : IsMap(scopes[i])
  BY DEF WellVal
<1>2. n \in Nat /\ DOMAIN scopes = 1..n
  BY <1>1, SeqFacts
<1>3. n \in DOMAIN scopes
  BY <1>2
<1>4. DOMAIN val = 1..n /\ val = [i \in 1..n |-> val[i]]
      /\ val[n] = m /\ \A i \in DOMAIN scopes : i # n => val[i] = scopes[i]
  BY <1>2, <1>3 DEF Rescope
<1>5. val \in Seq(Range(val)) /\ Len(val) = n
  <2>1. \A i \in 1..n : val[i] \in Range(val)
    BY <1>4 DEF Range
  <2> QED
    BY <1>2, <1>4, <2>1, SeqMade
<1>6. \A i \in DOMAIN val : IsMap(val[i])
  BY <1>1, <1>2, <1>4
<1>7. WellVal("closure", val)
  BY <1>5, <1>6 DEF WellVal, IsSeq
<1> QED
  BY <1>2, <1>3, <1>4, <1>5, <1>7

LEMMA WithScope ==
  ASSUME NEW scopes, WellVal("closure", scopes), Separate("closure", scopes),
         NEW n, n = Len(scopes), n >= 1, NEW key,
         NEW e \in Nat, e \notin ScopeCells(scopes),
         NEW val, Rescope(scopes, n, With(scopes[n], key, e), val)
  PROVE  /\ WellVal("closure", val) /\ Separate("closure", val) /\ Len(val) = n
         /\ ScopeCells(val) \subseteq ScopeCells(scopes) \cup {e}
<1> DEFINE f == scopes[n]
           m == With(f, key, e)
<1>1. IsSeq(scopes) /\ \A i \in DOMAIN scopes : IsMap(scopes[i])
  BY DEF WellVal
<1>2. n \in DOMAIN scopes
  <2>1. n \in Nat /\ DOMAIN scopes = 1..n
    BY <1>1, SeqFacts
  <2> QED
    BY <2>1
<1>3. \A i, j \in DOMAIN scopes : \A x \in DOMAIN scopes[i], y \in DOMAIN scopes[j] :
        scopes[i][x] = scopes[j][y] => i = j /\ x = y
  BY DEF Separate
<1>4. \A i \in DOMAIN scopes : \A x \in DOMAIN scopes[i] : scopes[i][x] # e
  BY DEF ScopeCells, CellsOf
<1>5. IsMap(f) /\ e \notin CellsOf(f) /\ \A y, z \in DOMAIN f : f[y] = f[z] => y = z
  BY <1>1, <1>2, <1>3, <1>4 DEF CellsOf
<1>6. /\ IsMap(m) /\ CellsOf(m) \subseteq CellsOf(f) \cup {e}
      /\ \A y, z \in DOMAIN m : m[y] = m[z] => y = z
  <2>1. m = With(f, key, e)
    OBVIOUS
  <2> HIDE DEF m, f
  <2> QED
    BY <1>5, <2>1, WithMap
<1>7. \A x \in DOMAIN m : m[x] = e \/ \E y \in DOMAIN f : m[x] = f[y]
  <2> HIDE DEF m, f
  <2> QED
    BY <1>6 DEF CellsOf
<1> HIDE DEF m
<1>8. /\ WellVal("closure", val) /\ Len(val) = n /\ DOMAIN val = DOMAIN scopes
      /\ val[n] = m /\ \A i \in DOMAIN scopes : i # n => val[i] = scopes[i]
  <2>1. Rescope(scopes, n, m, val)
    BY DEF m
  <2> QED
    BY <1>6, <2>1, OtherScope
<1>9. \A i, j \in DOMAIN val : \A x \in DOMAIN val[i], y \in DOMAIN val[j] :
        val[i][x] = val[j][y] => i = j /\ x = y
  <2> SUFFICES ASSUME NEW i \in DOMAIN val, NEW j \in DOMAIN val,
                      NEW x \in DOMAIN val[i], NEW y \in DOMAIN val[j], val[i][x] = val[j][y]
               PROVE  i = j /\ x = y
    OBVIOUS
  <2>1. CASE i # n /\ j # n
    BY <1>3, <1>8, <2>1
  <2>2. CASE i = n /\ j = n
    BY <1>6, <1>8, <2>2
  <2>3. CASE i = n /\ j # n
    <3>1. val[i] = m /\ val[j] = scopes[j] /\ j \in DOMAIN scopes
      BY <1>8, <2>3
    <3>2. m[x] # e
      BY <1>4, <3>1
    <3>3. PICK z \in DOMAIN f : m[x] = f[z]
      BY <1>7, <3>1, <3>2
    <3>4. /\ n \in DOMAIN scopes /\ z \in DOMAIN scopes[n] /\ y \in DOMAIN scopes[j]
          /\ scopes[n][z] = scopes[j][y]
      BY <1>2, <2>3, <3>1, <3>3
    <3>5. n = j
      BY <1>3, <3>1, <3>4
    <3> QED
      BY <2>3, <3>5
  <2>4. CASE i # n /\ j = n
    <3>1. val[j] = m /\ val[i] = scopes[i] /\ i \in DOMAIN scopes
      BY <1>8, <2>4
    <3>2. m[y] # e
      BY <1>4, <3>1
    <3>3. PICK z \in DOMAIN f : m[y] = f[z]
      BY <1>7, <3>1, <3>2
    <3>4. /\ n \in DOMAIN scopes /\ z \in DOMAIN scopes[n] /\ x \in DOMAIN scopes[i]
          /\ scopes[i][x] = scopes[n][z]
      BY <1>2, <2>4, <3>1, <3>3
    <3>5. i = n
      BY <1>3, <3>1, <3>4
    <3> QED
      BY <2>4, <3>5
  <2> QED
    BY <2>1, <2>2, <2>3, <2>4
<1>10. ScopeCells(val) \subseteq ScopeCells(scopes) \cup {e}
  <2>1. \A i \in DOMAIN scopes : CellsOf(val[i]) \subseteq CellsOf(scopes[i]) \cup {e}
    BY <1>6, <1>8
  <2> QED
    BY <1>8, <2>1 DEF ScopeCells
<1> QED
  BY <1>8, <1>9, <1>10 DEF Separate

WithName(scopes, n, key, e) == [scopes EXCEPT ![n] = With(scopes[n], key, e)]

LEMMA WithoutScope ==
  ASSUME NEW scopes, WellVal("closure", scopes), Separate("closure", scopes),
         NEW n, n = Len(scopes), n >= 1, NEW key \in DOMAIN scopes[n],
         NEW val, Rescope(scopes, n, Without(scopes[n], key), val)
  PROVE  /\ WellVal("closure", val) /\ Separate("closure", val) /\ Len(val) = n
         /\ ScopeCells(val) = ScopeCells(scopes) \ {scopes[n][key]}
         /\ scopes[n][key] \in ScopeCells(scopes)
         /\ \A e : WithName(val, n, key, e) = WithName(scopes, n, key, e)
<1> DEFINE f == scopes[n]
           m == Without(f, key)
<1>1. IsSeq(scopes) /\ \A i \in DOMAIN scopes : IsMap(scopes[i])
  BY DEF WellVal
<1>2. n \in DOMAIN scopes /\ scopes = [i \in DOMAIN scopes |-> scopes[i]]
  <2>1. n \in Nat /\ DOMAIN scopes = 1..n /\ scopes = [i \in 1..n |-> scopes[i]]
    BY <1>1, SeqFacts
  <2> QED
    BY <2>1
<1>3. \A i, j \in DOMAIN scopes : \A x \in DOMAIN scopes[i], y \in DOMAIN scopes[j] :
        scopes[i][x] = scopes[j][y] => i = j /\ x = y
  BY DEF Separate
<1>4. DOMAIN m = DOMAIN f \ {key} /\ (\A x \in DOMAIN m : m[x] = f[x]) /\ IsMap(m)
  <2>1. IsMap(f)
    BY <1>1, <1>2
  <2> HIDE DEF f
  <2> QED
    BY <2>1 DEF Without, Restrict, IsMap
<1>5. \A e : With(m, key, e) = With(f, key, e)
  <2> HIDE DEF f, m
  <2> QED
    BY <1>4 DEF With
<1> HIDE DEF m
<1>6. /\ WellVal("closure", val) /\ Len(val) = n /\ DOMAIN val = DOMAIN scopes
      /\ val[n] = m /\ \A i \in DOMAIN scopes : i # n => val[i] = scopes[i]
  <2>1. Rescope(scopes, n, m, val)
    BY DEF m
  <2> QED
    BY <1>4, <2>1, OtherScope
<1>7. \A i \in DOMAIN val : /\ DOMAIN val[i] \subseteq DOMAIN scopes[i]
                            /\ \A x \in DOMAIN val[i] : val[i][x] = scopes[i][x]
  BY <1>4, <1>6
<1>8. \A i, j \in DOMAIN val : \A x \in DOMAIN val[i], y \in DOMAIN val[j] :
        val[i][x] = val[j][y] => i = j /\ x = y
  <2> SUFFICES ASSUME NEW i \in DOMAIN val, NEW j \in DOMAIN val,
                      NEW x \in DOMAIN val[i], NEW y \in DOMAIN val[j], val[i][x] = val[j][y]
               PROVE  i = j /\ x = y
    OBVIOUS
  <2>1. i \in DOMAIN scopes /\ j \in DOMAIN scopes /\ x \in DOMAIN scopes[i] /\ y \in DOMAIN scopes[j]
        /\ val[i][x] = scopes[i][x] /\ val[j][y] = scopes[j][y]
    BY <1>6, <1>7
  <2>2. scopes[i][x] = scopes[j][y]
    BY <2>1
  <2> QED
    BY <1>3, <2>1, <2>2
<1>9. ScopeCells(val) = ScopeCells(scopes) \ {f[key]}
  <2>1. ScopeCells(val) \subseteq ScopeCells(scopes)
    BY <1>6, <1>7 DEF ScopeCells, CellsOf
  <2>2. f[key] \notin ScopeCells(val)
    <3> SUFFICES ASSUME NEW i \in DOMAIN val, NEW x \in DOMAIN val[i], val[i][x] = f[key]
                 PROVE  FALSE
      BY DEF ScopeCells, CellsOf
    <3>1. i \in DOMAIN scopes /\ x \in DOMAIN scopes[i] /\ scopes[i][x] = scopes[n][key]
      BY <1>6, <1>7
    <3>2. i = n /\ x = key
      BY <1>2, <1>3, <3>1
    <3> QED
      BY <1>4, <1>6, <3>2
  <2>3. ASSUME NEW c \in ScopeCells(scopes), c # f[key] PROVE c \in ScopeCells(val)
    <3>3. PICK i \in DOMAIN scopes : \E x \in DOMAIN scopes[i] : c = scopes[i][x]
      BY DEF ScopeCells, CellsOf
    <3>1. PICK x \in DOMAIN scopes[i] : c = scopes[i][x]
      BY <3>3
    <3>2. x \in DOMAIN val[i] /\ val[i][x] = c
      <4>1. CASE i = n
        BY <1>4, <1>6, <2>3, <3>1, <4>1
      <4>2. CASE i # n
        BY <1>6, <3>1, <4>2
      <4> QED
        BY <4>1, <4>2
    <3> QED
      BY <1>6, <3>1, <3>2 DEF ScopeCells, CellsOf
  <2> QED
    BY <2>1, <2>2, <2>3
<1>10. f[key] \in ScopeCells(scopes)
  BY <1>2 DEF ScopeCells, CellsOf
<1>11. \A e : WithName(val, n, key, e) = WithName(scopes, n, key, e)
  <2> TAKE e
  <2> DEFINE w == With(val[n], key, e)
  <2>1. w = With(f, key, e)
    BY <1>5, <1>6
  <2>2. val = [scopes EXCEPT ![n] = m]
    BY <1>2, <1>6 DEF m, Rescope
  <2> HIDE DEF w
  <2>3. [val EXCEPT ![n] = w] = [scopes EXCEPT ![n] = w]
    BY <1>2, <2>2
  <2> QED
    BY <2>1, <2>3 DEF w, WithName
<1> QED
  BY <1>5, <1>6, <1>8, <1>9, <1>10, <1>11 DEF Separate

-----------------------------------------------------------------------------
(* A new value in the innermost scope of a closure.                         *)
LEMMA ReleasedFree ==
  ASSUME NEW s, Shape(s), Owned(s), NEW addrs, IsSeq(addrs), NEW cells \in SUBSET DOMAIN s.mem,
         NEW e \in DOMAIN s.mem, e \notin cells, \A b \in DOMAIN s.unit : e \notin Cells(s.unit[b]),
         NEW r, r = Released(s, addrs, cells)
  PROVE  e \in DOMAIN r.mem
<1>1. PICK dead : Closing(s, addrs, cells, dead) /\ r = Left(s, addrs, cells, dead)
  BY ReleasedLeft
<1>2. LeftIs(s, addrs, cells, dead, r)
  BY <1>1, LeftFacts
<1>3. DOMAIN r.mem = DOMAIN s.mem \ (cells \cup CellsIn(s, dead))
  BY <1>2 DEF LeftIs
<1>4. e \notin CellsIn(s, dead)
  BY <1>1 DEF Closing, CellsIn
<1> QED
  BY <1>3, <1>4

LEMMA AttachScope ==
  ASSUME NEW s, NEW refs, NEW account, Sound(s, refs, account),
         NEW c \in DOMAIN s.unit, s.unit[c].type = "closure",
         NEW e \in DOMAIN s.mem, \A b \in DOMAIN s.unit : e \notin Cells(s.unit[b]),
         NEW n, n = Len(s.unit[c].val), NEW key,
         NEW val, Rescope(s.unit[c].val, n, With(s.unit[c].val[n], key, e), val)
  PROVE  Sound(SetVal(s, c, val), refs, account)
<1> DEFINE scopes == s.unit[c].val
           new == [type |-> s.unit[c].type, val |-> val]
<1>1. WellVal("closure", scopes) /\ Separate("closure", scopes)
  BY DEF Sound, Shape, Owned, WellUnit
<1>2. n >= 1
  <2>1. ScopeFacts(s, account, c)
    BY OfClosure
  <2> DEFINE k == account.scopes[c]
  <2>2. n \in Nat /\ k \in Nat /\ n >= 1 + k
    BY <2>1 DEF ScopeFacts
  <2> HIDE DEF k
  <2> QED
    BY <2>2
<1>3. Cells(s.unit[c]) = ScopeCells(scopes)
  BY CellsByType DEF ScopeCells
<1>4. e \in Nat /\ e \notin ScopeCells(scopes)
  BY <1>3, Addresses
<1>5. new.type = "closure" /\ new.val = val
  OBVIOUS
<1> HIDE DEF new
<1>6. Cells(new) = ScopeCells(val)
  BY <1>5, CellsByType DEF ScopeCells
<1>7. /\ WellVal("closure", val) /\ Separate("closure", val) /\ Len(val) = n
      /\ ScopeCells(val) \subseteq ScopeCells(scopes) \cup {e}
  <2>1. n = Len(scopes) /\ Rescope(scopes, n, With(scopes[n], key, e), val)
    OBVIOUS
  <2> HIDE DEF scopes
  <2> QED
    BY <1>1, <1>2, <1>4, <2>1, WithScope
<1> QED
  BY <1>3, <1>6, <1>7, AttachSound DEF new

Innermost(s, c, n, key, e) == WithName(s.unit[c].val, n, key, e)
InnermostSet(s, c, n, key, e) == [s EXCEPT !.unit[c].val[n] = With(@, key, e)]

LEMMA SetInner ==
  ASSUME NEW s, IsStore(s), NEW c \in DOMAIN s.unit, IsUnit(s.unit[c]), NEW n, NEW key, NEW e
  PROVE  /\ InnermostSet(s, c, n, key, e) = SetVal(s, c, Innermost(s, c, n, key, e))
         /\ Rescope(s.unit[c].val, n, With(s.unit[c].val[n], key, e), Innermost(s, c, n, key, e))
<1>1. InnermostSet(s, c, n, key, e) = SetVal(s, c, Innermost(s, c, n, key, e))
  <2>1. CASE n \in DOMAIN s.unit[c].val
    BY <2>1 DEF SetVal, IsStore, IsUnit, Innermost, InnermostSet, WithName
  <2>2. CASE n \notin DOMAIN s.unit[c].val
    BY <2>2 DEF SetVal, IsStore, IsUnit, Innermost, InnermostSet, WithName
  <2> QED
    BY <2>1, <2>2
<1>3. Rescope(s.unit[c].val, n, With(s.unit[c].val[n], key, e), Innermost(s, c, n, key, e))
  BY RescopeIs DEF Innermost, WithName
<1> QED
  BY <1>1, <1>3

(* Somebody else has a reference to value a as well.                        *)
Backed(s, refs, a) ==
  \/ a = None
  \/ refs[a] > 0
  \/ \E x \in DOMAIN s.unit : s.unit[x].type # "closure" /\ refs[x] > 0 /\ HoldsValue(s, x, a)

(* The new cell exists, and is not in the closure yet.                      *)
Freshly(s, m, a, e) ==
  /\ m.unit = s.unit /\ m.units = s.units /\ m.cells = s.cells + 1
  /\ e = NextCell(s) /\ e \in DOMAIN m.mem /\ m.mem[e] = a
  /\ DOMAIN m.mem = DOMAIN s.mem \cup {e}
  /\ \A d \in DOMAIN s.mem : m.mem[d] = s.mem[d]
  /\ \A b \in DOMAIN m.unit : e \notin Cells(m.unit[b])

LEMMA FreshlyMade ==
  ASSUME NEW s, NEW refs, NEW account, Sound(s, refs, account), NEW a \in Held(s),
         NEW m, m = mem_alloc(s, a)
  PROVE  Sound(m, Fewer(refs, <<a>>), account) /\ Freshly(s, m, a, NextCell(s))
<1>1. /\ Sound(m, Fewer(refs, <<a>>), account)
      /\ m = [unit |-> s.unit, mem |-> m.mem, units |-> s.units, cells |-> s.cells + 1]
      /\ DOMAIN m.mem = DOMAIN s.mem \cup {NextCell(s)}
      /\ \A c \in DOMAIN s.mem : m.mem[c] = s.mem[c]
      /\ m.mem[NextCell(s)] = a
  BY MemAllocSound
<1>2. \A b \in DOMAIN s.unit : NextCell(s) \notin Cells(s.unit[b])
  BY NewCellFree
<1>3. m.unit = s.unit /\ m.units = s.units /\ m.cells = s.cells + 1
  BY <1>1
<1> QED
  BY <1>1, <1>2, <1>3 DEF Freshly

LEMMA HeldByCell ==
  ASSUME NEW s, NEW refs, NEW account, Sound(s, refs, account), NEW e \in DOMAIN s.mem
  PROVE  s.mem[e] \in Held(s)
BY DEF Sound, Valid, Held

LEMMA FreshlySame ==
  ASSUME NEW s, Shape(s), NEW m, NEW a, NEW e, Freshly(s, m, a, e), NEW t, NEW c,
         t.units = m.units, t.cells = m.cells, DOMAIN t.unit \subseteq DOMAIN m.unit,
         \A b \in DOMAIN t.unit : t.unit[b].type = m.unit[b].type /\ (b # c => t.unit[b].val = m.unit[b].val),
         DOMAIN t.mem \subseteq DOMAIN m.mem, \A d \in DOMAIN t.mem : t.mem[d] = m.mem[d]
  PROVE  SameBut(s, t, c)
<1>1. s.units \in Nat /\ s.cells \in Nat /\ e = s.cells + 1
  BY DEF Shape, Freshly, NextCell
<1>2. t.units = s.units /\ t.cells = s.cells + 1 /\ ~(e <= s.cells)
  BY <1>1 DEF Freshly
<1>3. \A b \in DOMAIN t.unit : b \in DOMAIN s.unit /\ t.unit[b].type = s.unit[b].type
        /\ (b # c => t.unit[b].val = s.unit[b].val)
  BY DEF Freshly
<1>4. \A d \in DOMAIN t.mem : d # e => d \in DOMAIN s.mem /\ t.mem[d] = s.mem[d]
  BY DEF Freshly
<1>5. \A d \in DOMAIN t.mem : d <= s.cells => d \in DOMAIN s.mem /\ t.mem[d] = s.mem[d]
  BY <1>2, <1>4
<1>6. t.units >= s.units /\ t.cells >= s.cells /\ t.units \in Nat /\ t.cells \in Nat
  BY <1>1, <1>2
<1> QED
  BY <1>3, <1>5, <1>6 DEF SameBut

(* The name is new in the scope.                                            *)
LEMMA NewNameSound ==
  ASSUME NEW s, NEW refs, NEW account, Sound(s, refs, account), NEW a \in Held(s),
         NEW c \in DOMAIN s.unit, s.unit[c].type = "closure", NEW key,
         key \notin DOMAIN Val(s, c)[Len(Val(s, c))],
         NEW t, t = add_new_value(s, c, key, a)
  PROVE  Sound(t, Fewer(refs, <<a>>), account) /\ SameBut(s, t, c) /\ a \in Held(t)
<1> DEFINE m == mem_alloc(s, a)
           e == NextCell(s)
           scopes == s.unit[c].val
           n == Len(scopes)
           owned == Fewer(refs, <<a>>)
<1>1. Sound(m, owned, account) /\ Freshly(s, m, a, e)
  BY FreshlyMade
<1>2. t = InnermostSet(m, c, n, key, e)
  BY DEF add_new_value, Val, InnermostSet
<1> HIDE DEF m, e, owned
<1>3. m.unit = s.unit
  BY <1>1 DEF Freshly
<1>4. Shape(m) /\ Shape(s)
  BY <1>1 DEF Sound
<1>5. IsStore(m) /\ IsUnit(m.unit[c]) /\ c \in DOMAIN m.unit
  BY <1>3, <1>4, ShapeStore
<1> DEFINE val == Innermost(m, c, n, key, e)
<1>8. n = Len(m.unit[c].val) /\ m.unit[c].type = "closure"
  BY <1>3
<1> HIDE DEF n
<1>6. t = SetVal(m, c, val)
  BY <1>2, <1>5, SetInner
<1>7. Rescope(m.unit[c].val, n, With(m.unit[c].val[n], key, e), val)
  BY <1>5, SetInner
<1> HIDE DEF val
<1>9. Sound(t, owned, account)
  <2>1. e \in DOMAIN m.mem /\ \A b \in DOMAIN m.unit : e \notin Cells(m.unit[b])
    BY <1>1 DEF Freshly
  <2> QED
    BY <1>1, <1>5, <1>6, <1>7, <1>8, <2>1, AttachScope
<1>10. SetValIs(m, c, val, t)
  BY <1>5, <1>6, SetValFacts
<1>11. t.mem = m.mem /\ t.units = m.units /\ t.cells = m.cells
  <2>1. t = [unit |-> t.unit, mem |-> m.mem, units |-> m.units, cells |-> m.cells]
    BY <1>10 DEF SetValIs
  <2> QED
    BY <2>1
<1>12. DOMAIN t.unit = DOMAIN m.unit
       /\ \A b \in DOMAIN t.unit : t.unit[b].type = m.unit[b].type /\ (b # c => t.unit[b].val = m.unit[b].val)
  <2>1. t.unit[c].type = m.unit[c].type
    BY <1>10 DEF SetValIs
  <2>2. DOMAIN t.unit = DOMAIN m.unit /\ \A b \in DOMAIN t.unit : b # c => t.unit[b] = m.unit[b]
    BY <1>10 DEF SetValIs
  <2> QED
    BY <2>1, <2>2
<1>13. SameBut(s, t, c)
  BY <1>1, <1>4, <1>11, <1>12, FreshlySame
<1>14. a \in Held(t)
  BY <1>1, <1>9, <1>11, HeldByCell DEF Freshly
<1> QED
  BY <1>9, <1>13, <1>14 DEF owned

(* The name is in the scope: its cell is given back first.                  *)
Shedding(s, c, n, key, val, old, account) ==
  /\ Suits(s, c, val) /\ Sheds(s, c, val, {old}) /\ LongEnough(s, c, val, account, account)
  /\ \A e : WithName(val, n, key, e) = WithName(s.unit[c].val, n, key, e)
  /\ Len(val) = n
  /\ old \in Cells(s.unit[c])

LEMMA ShedName ==
  ASSUME NEW s, NEW refs, NEW account, Sound(s, refs, account),
         NEW c \in DOMAIN s.unit, s.unit[c].type = "closure",
         NEW n, n = Len(s.unit[c].val), NEW key \in DOMAIN s.unit[c].val[n],
         NEW val, Rescope(s.unit[c].val, n, Without(s.unit[c].val[n], key), val),
         NEW old, old = s.unit[c].val[n][key]
  PROVE  Shedding(s, c, n, key, val, old, account)
<1> DEFINE scopes == s.unit[c].val
           new == [type |-> s.unit[c].type, val |-> val]
<1>1. WellVal("closure", scopes) /\ Separate("closure", scopes) /\ Shape(s) /\ Owned(s)
  BY DEF Sound, Shape, Owned, WellUnit
<1>2. account.scopes \in [Int -> Nat] /\ account.scopes[c] \in Nat /\ n \in Nat /\ n >= 1 + account.scopes[c]
  <2>1. ScopeFacts(s, account, c)
    BY OfClosure
  <2> QED
    BY <2>1 DEF ScopeFacts
<1>3. n >= 1
  <2> DEFINE k == account.scopes[c]
  <2>1. n \in Nat /\ k \in Nat /\ n >= 1 + k
    BY <1>2
  <2> HIDE DEF k
  <2> QED
    BY <2>1
<1>4. Cells(s.unit[c]) = ScopeCells(scopes)
  BY CellsByType DEF ScopeCells
<1>5. new.type = "closure" /\ new.val = val
  OBVIOUS
<1> HIDE DEF new
<1>6. Cells(new) = ScopeCells(val)
  BY <1>5, CellsByType DEF ScopeCells
<1>7. n = Len(scopes) /\ Rescope(scopes, n, Without(scopes[n], key), val) /\ key \in DOMAIN scopes[n]
      /\ old = scopes[n][key]
  OBVIOUS
<1> HIDE DEF scopes
<1>8. /\ WellVal("closure", val) /\ Separate("closure", val) /\ Len(val) = n
      /\ ScopeCells(val) = ScopeCells(scopes) \ {old}
      /\ old \in ScopeCells(scopes)
  BY <1>1, <1>3, <1>7, WithoutScope
<1>9. \A e : WithName(val, n, key, e) = WithName(scopes, n, key, e)
  BY <1>1, <1>3, <1>7, WithoutScope
<1>10. Suits(s, c, val) /\ Sheds(s, c, val, {old})
  <2>1. Cells(new) = Cells(s.unit[c]) \ {old} /\ {old} \subseteq Cells(s.unit[c])
    BY <1>4, <1>6, <1>8
  <2> QED
    BY <1>1, <1>8, <2>1, ShedsSuits DEF new
<1>11. LongEnough(s, c, val, account, account)
  BY <1>2, <1>8 DEF LongEnough
<1> QED
  BY <1>4, <1>8, <1>9, <1>10, <1>11 DEF scopes, Shedding

LEMMA OldNameStays ==
  ASSUME NEW s, NEW refs, NEW account, Sound(s, refs, account), refs \in [Int -> Nat],
         NEW a \in Held(s), Backed(s, refs, a),
         NEW m, NEW e, Freshly(s, m, a, e), Sound(m, Fewer(refs, <<a>>), account),
         NEW c \in DOMAIN s.unit, s.unit[c].type = "closure", NEW val, NEW cells,
         Suits(m, c, val), Sheds(m, c, val, cells), LongEnough(m, c, val, account, account),
         NEW none, IsSeq(none), \A b : Count(none, b) = 0
  PROVE  Spared(SetVal(m, c, val), none, cells, Fewer(refs, <<a>>))
<1> DEFINE u == SetVal(m, c, val)
           owned == Fewer(refs, <<a>>)
<1> SUFFICES ASSUME NEW dead, Closing(u, none, cells, dead), NEW b \in dead
             PROVE  Count(none, b) <= owned[b]
  BY DEF Spared
<1>1. Shape(m) /\ Owned(m)
  BY DEF Sound
<1>2. Sound(u, owned, account)
  BY SetValSound
<1>3. /\ cells \in SUBSET DOMAIN u.mem
      /\ \A d \in DOMAIN u.unit : Cells(u.unit[d]) \cap cells = {}
  BY <1>1, ShedLeft
<1>4. SetValIs(m, c, val, u)
  <2>1. IsStore(m) /\ c \in DOMAIN m.unit /\ IsUnit(m.unit[c])
    BY <1>1, ShapeStore DEF Suits
  <2> QED
    BY <2>1, SetValFacts
<1>5. /\ \A d \in Int : owned[d] = refs[d] - (IF a = d THEN 1 ELSE 0)
      /\ \A d \in Int : refs[d] \in Nat
  BY MoreFewerOne
<1> HIDE DEF u, owned
<1>6. m.unit = s.unit /\ DOMAIN u.unit = DOMAIN m.unit
      /\ \A d \in DOMAIN u.unit : d # c => u.unit[d] = s.unit[d]
  BY <1>4 DEF SetValIs, Freshly
<1>7. u.mem = m.mem
  <2>1. u = [unit |-> u.unit, mem |-> m.mem, units |-> m.units, cells |-> m.cells]
    BY <1>4 DEF SetValIs
  <2> QED
    BY <2>1
<1>8. dead \subseteq DOMAIN s.unit /\ DOMAIN s.unit \subseteq Int /\ None \notin DOMAIN s.unit
  BY <1>6, Addresses DEF Closing
<1>9. CASE b # a
  <2>1. owned[b] = refs[b] /\ refs[b] \in Nat /\ Count(none, b) = 0
    BY <1>5, <1>8, <1>9
  <2> QED
    BY <2>1
<1>10. CASE b = a /\ refs[a] > 0
  <2>1. owned[b] = refs[b] - 1 /\ refs[b] \in Nat /\ refs[b] > 0 /\ Count(none, b) = 0
    BY <1>5, <1>8, <1>10
  <2> QED
    BY <2>1
<1>11. CASE b = a /\ ~(refs[a] > 0)
  <2>1. a # None /\ a \in DOMAIN u.unit
    BY <1>6, <1>8, <1>11
  <2>2. PICK x \in DOMAIN s.unit : s.unit[x].type # "closure" /\ refs[x] > 0 /\ HoldsValue(s, x, a)
    BY <1>11, <2>1 DEF Backed
  <2>3. x # a /\ x # c /\ owned[x] = refs[x]
    BY <1>5, <1>8, <1>11, <2>2
  <2>4. owned[x] > 0 /\ x \in DOMAIN u.unit /\ u.unit[x] = s.unit[x]
    BY <1>6, <2>2, <2>3
  <2>5. HoldsValue(u, x, a)
    <3>1. CASE \E d \in Cells(s.unit[x]) : s.mem[d] = a
      <4>1. PICK d \in Cells(s.unit[x]) : s.mem[d] = a
        BY <3>1
      <4>2. d \in DOMAIN s.mem
        BY <4>1 DEF Sound, Owned
      <4>3. u.mem[d] = a
        BY <1>7, <4>1, <4>2 DEF Freshly
      <4> QED
        BY <2>4, <4>1, <4>3 DEF HoldsValue
    <3>2. CASE \E i \in DOMAIN Direct(s.unit[x]) : Direct(s.unit[x])[i] = a
      BY <2>4, <3>2 DEF HoldsValue
    <3> QED
      BY <2>2, <3>1, <3>2 DEF HoldsValue
  <2>6. owned[a] >= -1
    <3>1. owned[a] = refs[a] - 1 /\ refs[a] \in Nat
      BY <1>5, <1>8, <1>11
    <3> QED
      BY <3>1
  <2>7. e \in DOMAIN u.mem /\ u.mem[e] = a
    BY <1>7 DEF Freshly
  <2>8. \A d \in DOMAIN u.unit : e \notin Cells(u.unit[d])
    <3>1. \A d \in DOMAIN m.unit : e \notin Cells(m.unit[d])
      BY DEF Freshly
    <3>2. e \notin Cells(u.unit[c])
      <4>1. Cells([type |-> m.unit[c].type, val |-> val]) \subseteq Cells(m.unit[c])
        BY DEF Sheds
      <4>2. Cells(u.unit[c]) = Cells([type |-> m.unit[c].type, val |-> val])
        <5>1. u.unit[c].type = m.unit[c].type /\ u.unit[c].val = val
          BY <1>4 DEF SetValIs
        <5> DEFINE w == [type |-> m.unit[c].type, val |-> val]
        <5>2. w.type = m.unit[c].type /\ w.val = val
          OBVIOUS
        <5> HIDE DEF w
        <5>3. Cells(u.unit[c]) = Cells(w)
          BY <5>1, <5>2, SameContents
        <5> QED
          BY <5>3 DEF w
      <4>3. c \in DOMAIN m.unit
        BY <1>6
      <4> QED
        BY <3>1, <4>1, <4>2, <4>3
    <3> QED
      BY <1>6, <3>1, <3>2
  <2>9. e \notin cells
    <3>1. cells \subseteq Cells(m.unit[c]) /\ c \in DOMAIN m.unit
      BY <1>6 DEF Sheds
    <3> QED
      BY <3>1 DEF Freshly
  <2>10. a \notin dead
    BY <1>2, <1>3, <2>1, <2>4, <2>5, <2>6, <2>7, <2>8, <2>9, Survives
  <2> QED
    BY <1>11, <2>10
<1> QED
  BY <1>9, <1>10, <1>11

LEMMA SetValTwice ==
  ASSUME NEW s, IsStore(s), NEW c \in DOMAIN s.unit, IsUnit(s.unit[c]), NEW x, NEW y
  PROVE  SetVal(SetVal(s, c, x), c, y) = SetVal(s, c, y)
BY DEF SetVal, IsStore, IsUnit

LEMMA InnerNone ==
  ASSUME NEW s, IsStore(s), NEW c, c \notin DOMAIN s.unit, NEW n, NEW key, NEW e
  PROVE  InnermostSet(s, c, n, key, e) = s
BY DEF InnermostSet, IsStore

SameRest(s, c, t) ==
  /\ t.mem = s.mem /\ t.units = s.units /\ t.cells = s.cells /\ DOMAIN t.unit = DOMAIN s.unit
  /\ \A b \in DOMAIN s.unit : b # c => t.unit[b] = s.unit[b]
  /\ \A b \in DOMAIN s.unit : t.unit[b].type = s.unit[b].type

LEMMA SetValMem ==
  ASSUME NEW s, IsStore(s), NEW c, c \in DOMAIN s.unit => IsUnit(s.unit[c]),
         NEW x, NEW t, t = SetVal(s, c, x)
  PROVE  SameRest(s, c, t)
<1>1. /\ t.mem = s.mem /\ t.units = s.units /\ t.cells = s.cells /\ DOMAIN t.unit = DOMAIN s.unit
      /\ \A b \in DOMAIN s.unit : b # c => t.unit[b] = s.unit[b]
  BY DEF SetVal, IsStore
<1>2. c \in DOMAIN s.unit => t.unit[c].type = s.unit[c].type
  BY DEF SetVal, IsStore, IsUnit
<1> QED
  BY <1>1, <1>2 DEF SameRest

LEMMA OldNameSound ==
  ASSUME NEW s, NEW refs, NEW account, Sound(s, refs, account), refs \in [Int -> Nat],
         NEW a \in Held(s), Backed(s, refs, a),
         NEW c \in DOMAIN s.unit, s.unit[c].type = "closure", NEW key,
         NEW n, n = Len(s.unit[c].val), key \in DOMAIN s.unit[c].val[n],
         NEW none, IsSeq(none), \A b : Count(none, b) = 0,
         Fewer(Fewer(refs, <<a>>), none) = Fewer(refs, <<a>>),
         NEW t, t = InnermostSet(Released(mem_alloc(s, a), none, {s.unit[c].val[n][key]}), c, n, key, NextCell(s))
  PROVE  Sound(t, Fewer(refs, <<a>>), account) /\ SameBut(s, t, c) /\ a \in Held(t)
<1> DEFINE m == mem_alloc(s, a)
           e == NextCell(s)
           scopes == s.unit[c].val
           owned == Fewer(refs, <<a>>)
           old == scopes[n][key]
           r == Released(m, none, {old})
           val == [scopes EXCEPT ![n] = Without(scopes[n], key)]
           t1 == SetVal(r, c, val)
<1>1. Sound(m, owned, account) /\ Freshly(s, m, a, e)
  BY FreshlyMade
<1>2. t = InnermostSet(r, c, n, key, e)
  OBVIOUS
<1>3. key \in DOMAIN scopes[n]
  OBVIOUS
<1>4. Rescope(scopes, n, Without(scopes[n], key), val)
  BY RescopeIs
<1>5. IsSeq(none) /\ (\A b : Count(none, b) = 0) /\ Fewer(owned, none) = owned
  OBVIOUS
<1> HIDE DEF m, e, owned, r, val
<1>6. m.unit = s.unit
  BY <1>1 DEF Freshly
<1>7. Shape(m) /\ Shape(s) /\ Owned(m)
  BY <1>1 DEF Sound
<1>8. n = Len(m.unit[c].val) /\ m.unit[c].type = "closure" /\ c \in DOMAIN m.unit /\ m.unit[c].val = scopes
  BY <1>6
<1>9. old = m.unit[c].val[n][key]
  BY <1>6
<1> HIDE DEF scopes, old
<1>10. /\ Suits(m, c, val) /\ Sheds(m, c, val, {old}) /\ LongEnough(m, c, val, account, account)
       /\ \A d : WithName(val, n, key, d) = WithName(scopes, n, key, d)
       /\ Len(val) = n
       /\ old \in Cells(m.unit[c])
  <2>1. key \in DOMAIN m.unit[c].val[n]
        /\ Rescope(m.unit[c].val, n, Without(m.unit[c].val[n], key), val)
    BY <1>3, <1>4, <1>8
  <2>2. Shedding(m, c, n, key, val, old, account)
    BY <1>1, <1>8, <1>9, <2>1, ShedName
  <2> QED
    BY <1>8, <2>2 DEF Shedding
<1>11. Spared(SetVal(m, c, val), none, {old}, owned)
  BY <1>1, <1>5, <1>10, OldNameStays DEF owned
<1>12. Sound(t1, owned, account) /\ KeptBut(m, t1, c, val)
  <2>1. t1 = SetVal(Released(m, none, {old}), c, val)
    BY DEF r
  <2> HIDE DEF t1
  <2>2. Sound(t1, Fewer(owned, none), account) /\ KeptBut(m, t1, c, val)
    BY <1>1, <1>5, <1>10, <1>11, <2>1, ShedSoundIf
  <2> QED
    BY <1>5, <2>2
<1>13. {old} \in SUBSET DOMAIN m.mem /\ e \notin {old} /\ e \in DOMAIN m.mem
       /\ \A b \in DOMAIN m.unit : e \notin Cells(m.unit[b])
  <2>1. old \in DOMAIN m.mem
    BY <1>10 DEF Sheds
  <2>2. e \in DOMAIN m.mem /\ \A b \in DOMAIN m.unit : e \notin Cells(m.unit[b])
    BY <1>1 DEF Freshly
  <2> QED
    BY <1>8, <1>10, <2>1, <2>2
<1>14. Kept(m, r) /\ IsStore(r) /\ \A b \in DOMAIN r.unit : IsUnit(r.unit[b])
  BY <1>5, <1>7, <1>13, ReleasedKept DEF r
<1>15. e \in DOMAIN r.mem
  BY <1>5, <1>7, <1>13, ReleasedFree DEF r
<1>16. t1.mem = r.mem /\ t1.units = r.units /\ t1.cells = r.cells /\ DOMAIN t1.unit = DOMAIN r.unit
  <2>1. SameRest(r, c, t1)
    BY <1>14, SetValMem
  <2> QED
    BY <2>1 DEF SameRest
<1>17. Sound(t, owned, account) /\ SameRest(r, c, t)
  <2>1. CASE c \in DOMAIN r.unit
    <3> DEFINE new == WithName(val, n, key, e)
    <3>1. r.unit[c].val = scopes /\ r.unit[c].type = "closure" /\ IsUnit(r.unit[c])
      BY <1>8, <1>14, <2>1 DEF Kept
    <3>2. Innermost(r, c, n, key, e) = new
      BY <1>10, <3>1 DEF Innermost
    <3> HIDE DEF new, t1
    <3>3. t = SetVal(r, c, new)
      BY <1>2, <1>14, <2>1, <3>1, <3>2, SetInner
    <3>4. t = SetVal(t1, c, new)
      BY <1>14, <2>1, <3>1, <3>3, SetValTwice DEF t1
    <3>5. c \in DOMAIN t1.unit /\ t1.unit[c].type = "closure" /\ t1.unit[c].val = val
      BY <1>8, <1>12, <1>16, <2>1 DEF KeptBut
    <3>6. Rescope(t1.unit[c].val, n, With(t1.unit[c].val[n], key, e), new)
      BY <3>5, RescopeIs DEF new, WithName
    <3>7. e \in DOMAIN t1.mem
      BY <1>15, <1>16
    <3>8. \A b \in DOMAIN t1.unit : e \notin Cells(t1.unit[b])
      <4> SUFFICES ASSUME NEW b \in DOMAIN t1.unit PROVE e \notin Cells(t1.unit[b])
        OBVIOUS
      <4>1. b \in DOMAIN m.unit /\ e \notin Cells(m.unit[b])
        BY <1>13, <1>14, <1>16 DEF Kept
      <4>2. CASE b # c
        <5>1. t1.unit[b].type = m.unit[b].type /\ t1.unit[b].val = m.unit[b].val
          BY <1>12, <4>2 DEF KeptBut
        <5> QED
          BY <4>1, <5>1, SameContents
      <4>3. CASE b = c
        <5> DEFINE w == [type |-> m.unit[c].type, val |-> val]
        <5>1. w.type = m.unit[c].type /\ w.val = val /\ Cells(w) \subseteq Cells(m.unit[c])
          BY <1>10 DEF Sheds
        <5> HIDE DEF w
        <5>2. Cells(t1.unit[c]) = Cells(w)
          BY <1>8, <3>5, <5>1, SameContents
        <5> QED
          BY <4>1, <4>3, <5>1, <5>2
      <4> QED
        BY <4>2, <4>3
    <3>9. n = Len(t1.unit[c].val)
      BY <1>10, <3>5
    <3>10. Sound(t, owned, account)
      BY <1>12, <3>4, <3>5, <3>6, <3>7, <3>8, <3>9, AttachScope
    <3>11. SameRest(r, c, t)
      BY <1>14, <3>3, SetValMem
    <3> QED
      BY <3>10, <3>11
  <2>2. CASE c \notin DOMAIN r.unit
    <3>1. t = r
      BY <1>2, <1>14, <2>2, InnerNone
    <3>2. t1 = r
      BY <1>14, <2>2, SetValNone
    <3> HIDE DEF t1
    <3>3. Sound(r, owned, account)
      BY <1>12, <3>2
    <3>4. SameRest(r, c, r)
      BY DEF SameRest
    <3> QED
      BY <3>1, <3>3, <3>4
  <2> QED
    BY <2>1, <2>2
<1>18. SameBut(s, t, c)
  <2>1. /\ r.units = m.units /\ r.cells = m.cells /\ DOMAIN r.unit \subseteq DOMAIN m.unit
        /\ DOMAIN r.mem \subseteq DOMAIN m.mem /\ \A d \in DOMAIN r.mem : r.mem[d] = m.mem[d]
    BY <1>14 DEF Kept
  <2>2. \A b \in DOMAIN r.unit : r.unit[b].type = m.unit[b].type /\ r.unit[b].val = m.unit[b].val
    BY <1>14 DEF Kept
  <2>3. /\ t.units = m.units /\ t.cells = m.cells /\ DOMAIN t.unit \subseteq DOMAIN m.unit
        /\ DOMAIN t.mem \subseteq DOMAIN m.mem /\ \A d \in DOMAIN t.mem : t.mem[d] = m.mem[d]
    BY ZenonT(40), <1>17, <2>1 DEF SameRest
  <2>4. \A b \in DOMAIN t.unit :
          t.unit[b].type = m.unit[b].type /\ (b # c => t.unit[b].val = m.unit[b].val)
    BY ZenonT(40), <1>17, <2>2 DEF SameRest
  <2> QED
    BY ZenonT(40), <1>1, <1>7, <2>3, <2>4, FreshlySame
<1>19. a \in Held(t)
  <2>1. r.mem[e] = a
    BY <1>1, <1>14, <1>15 DEF Kept, Freshly
  <2> QED
    BY <1>15, <1>17, <2>1, HeldByCell DEF SameRest
<1> QED
  BY <1>17, <1>18, <1>19 DEF owned

LEMMA NewNameCase ==
  ASSUME NEW s, NEW refs, NEW account, Sound(s, refs, account), refs \in [Int -> Nat],
         NEW a \in Held(s), NEW c, NEW key,
         key \in DOMAIN Val(s, c)[Len(Val(s, c))],
         NEW none, none = <<>>
  PROVE  /\ IsSeq(none) /\ (\A b : Count(none, b) = 0)
         /\ Fewer(Fewer(refs, <<a>>), none) = Fewer(refs, <<a>>)
         /\ add_new_value(s, c, key, a) =
              InnermostSet(Released(mem_alloc(s, a), none, {s.unit[c].val[Len(s.unit[c].val)][key]}),
                           c, Len(s.unit[c].val), key, NextCell(s))
<1>1. IsSeq(none) /\ \A b : Count(none, b) = 0
  BY TupleSeq, CountEmpty
<1>2. Fewer(Fewer(refs, <<a>>), none) = Fewer(refs, <<a>>)
  <2> DEFINE owned == Fewer(refs, <<a>>)
  <2>1. owned \in [Int -> Int]
    BY FreshlyMade DEF Sound
  <2> HIDE DEF owned
  <2>2. Fewer(owned, none) = owned
    BY <2>1, NoFewer
  <2> QED
    BY <2>2 DEF owned
<1>3. add_new_value(s, c, key, a) =
        InnermostSet(Released(mem_alloc(s, a), none, {s.unit[c].val[Len(s.unit[c].val)][key]}),
                     c, Len(s.unit[c].val), key, NextCell(s))
  BY DEF add_new_value, Val, InnermostSet, mem_free, FreeAll
<1> QED
  BY <1>1, <1>2, <1>3

LEMMA AddNewValueSound ==
  ASSUME NEW s, NEW refs, NEW account, Sound(s, refs, account), refs \in [Int -> Nat],
         NEW a \in Held(s), Backed(s, refs, a),
         NEW c \in DOMAIN s.unit, s.unit[c].type = "closure", NEW key,
         NEW t, t = add_new_value(s, c, key, a)
  PROVE  Sound(t, Fewer(refs, <<a>>), account) /\ SameBut(s, t, c) /\ a \in Held(t)
<1>1. CASE key \notin DOMAIN Val(s, c)[Len(Val(s, c))]
  BY <1>1, NewNameSound
<1>2. CASE key \in DOMAIN Val(s, c)[Len(Val(s, c))]
  <2> DEFINE none == <<>>
             n == Len(s.unit[c].val)
  <2>1. /\ IsSeq(none) /\ (\A b : Count(none, b) = 0)
        /\ Fewer(Fewer(refs, <<a>>), none) = Fewer(refs, <<a>>)
        /\ t = InnermostSet(Released(mem_alloc(s, a), none, {s.unit[c].val[n][key]}), c, n, key, NextCell(s))
    <3>1. none = <<>>
      OBVIOUS
    <3> HIDE DEF none
    <3> QED
      BY <1>2, <3>1, NewNameCase
  <2>2. n = Len(s.unit[c].val) /\ key \in DOMAIN s.unit[c].val[n]
    BY <1>2 DEF Val
  <2> HIDE DEF none, n
  <2> QED
    BY <2>1, <2>2, OldNameSound
<1> QED
  BY <1>1, <1>2

-----------------------------------------------------------------------------
(* One parameter after the other.                                           *)
LEMMA SameButMore ==
  ASSUME NEW s, NEW t, NEW u, NEW c, SameBut(s, t, c), SameBut(t, u, c), Shape(s), Shape(u)
  PROVE  SameBut(s, u, c)
<1>1. s.units \in Int /\ s.cells \in Int /\ t.units \in Int /\ t.cells \in Int
      /\ DOMAIN u.unit \subseteq Int /\ DOMAIN u.mem \subseteq Int
  BY DEF SameBut, Shape
<1>2. u.units >= s.units /\ u.cells >= s.cells /\ u.units \in Nat /\ u.cells \in Nat
  BY <1>1 DEF SameBut
<1>3. ASSUME NEW b \in DOMAIN u.unit, b <= s.units
      PROVE  b \in DOMAIN s.unit /\ u.unit[b].type = s.unit[b].type
             /\ (b # c => u.unit[b].val = s.unit[b].val)
  <2>1. b <= t.units
    BY <1>1, <1>3 DEF SameBut
  <2>2. b \in DOMAIN t.unit /\ u.unit[b].type = t.unit[b].type /\ (b # c => u.unit[b].val = t.unit[b].val)
    BY <2>1 DEF SameBut
  <2> QED
    BY <2>2, <1>3 DEF SameBut
<1>4. ASSUME NEW d \in DOMAIN u.mem, d <= s.cells
      PROVE  d \in DOMAIN s.mem /\ u.mem[d] = s.mem[d]
  <2>1. d <= t.cells
    BY <1>1, <1>4 DEF SameBut
  <2>2. d \in DOMAIN t.mem /\ u.mem[d] = t.mem[d]
    BY <2>1 DEF SameBut
  <2> QED
    BY <2>2, <1>4 DEF SameBut
<1> QED
  BY <1>2, <1>3, <1>4 DEF SameBut

LEMMA ReferenceIs ==
  ASSUME NEW s, Shape(s), NEW a, NEW t, t = add_reference(s, a)
  PROVE  /\ t.mem = s.mem /\ t.units = s.units /\ t.cells = s.cells
         /\ DOMAIN t.unit = DOMAIN s.unit
         /\ \A b \in DOMAIN s.unit : t.unit[b].type = s.unit[b].type /\ t.unit[b].val = s.unit[b].val
<1>1. s = [unit |-> s.unit, mem |-> s.mem, units |-> s.units, cells |-> s.cells]
      /\ s.unit = [b \in DOMAIN s.unit |-> s.unit[b]]
  BY DEF Shape
<1>2. \A b \in DOMAIN s.unit : s.unit[b] = [type |-> s.unit[b].type, cnt |-> s.unit[b].cnt, val |-> s.unit[b].val]
  BY DEF Shape, WellUnit
<1>3. CASE a \notin DOMAIN s.unit
  <2>1. t = s
    BY <1>3 DEF add_reference, Live
  <2> QED
    BY <2>1
<1>4. CASE a \in DOMAIN s.unit
  <2>1. t = [s EXCEPT !.unit[a].cnt = @ + 1]
    BY <1>4 DEF add_reference, Live
  <2>2. /\ t.mem = s.mem /\ t.units = s.units /\ t.cells = s.cells
        /\ DOMAIN t.unit = DOMAIN s.unit
        /\ \A b \in DOMAIN s.unit :
             t.unit[b] = IF a = b THEN [s.unit[b] EXCEPT !.cnt = @ + 1] ELSE s.unit[b]
    BY <1>1, <1>4, <2>1
  <2>3. \A b \in DOMAIN s.unit : t.unit[b].type = s.unit[b].type /\ t.unit[b].val = s.unit[b].val
    <3> TAKE b \in DOMAIN s.unit
    <3> DEFINE u == s.unit[b]
               w == t.unit[b]
    <3>1. u = [type |-> u.type, cnt |-> u.cnt, val |-> u.val]
      BY <1>2
    <3>2. w = IF a = b THEN [u EXCEPT !.cnt = @ + 1] ELSE u
      BY <2>2
    <3> HIDE DEF u, w
    <3>3. w.type = u.type /\ w.val = u.val
      BY <3>1, <3>2
    <3> QED
      BY <3>3 DEF u, w
  <2> QED
    BY <2>2, <2>3
<1> QED
  BY <1>3, <1>4

LEMMA ReferenceSame ==
  ASSUME NEW s, Shape(s), NEW a, NEW t, t = add_reference(s, a), NEW c
  PROVE  SameBut(s, t, c)
<1>1. s.units \in Nat /\ s.cells \in Nat
  BY DEF Shape
<1> QED
  BY <1>1, ReferenceIs DEF SameBut

LEMMA FewerThenMore ==
  ASSUME NEW refs \in [Int -> Int], NEW x
  PROVE  More(Fewer(refs, <<x>>), <<x>>) = refs
<1> DEFINE fewer == Fewer(refs, <<x>>)
           same == More(fewer, <<x>>)
<1>1. /\ fewer \in [Int -> Int] /\ \A a \in Int : fewer[a] = refs[a] - (IF x = a THEN 1 ELSE 0)
  <2>1. fewer \in [Int -> Int]
    BY MoreFewerOne
  <2>2. \A a \in Int : fewer[a] = refs[a] - (IF x = a THEN 1 ELSE 0)
    BY MoreFewerOne
  <2> QED
    BY <2>1, <2>2
<1> HIDE DEF fewer
<1>2. /\ same \in [Int -> Int] /\ \A a \in Int : same[a] = fewer[a] + (IF x = a THEN 1 ELSE 0)
  BY <1>1, MoreFewerOne
<1> HIDE DEF same
<1>3. \A a \in Int : same[a] = refs[a]
  BY <1>1, <1>2
<1>4. same = refs
  BY <1>2, <1>3
<1> QED
  BY <1>4 DEF same, fewer

(* A name in the innermost scope of a closure that is counted for it.       *)
LEMMA BindSound ==
  ASSUME NEW s, NEW refs, NEW account, Sound(s, refs, account), refs \in [Int -> Nat],
         NEW a \in Held(s), Backed(s, refs, a),
         NEW c \in DOMAIN s.unit, s.unit[c].type = "closure", NEW name,
         NEW t, t = BindName(s, c, name, a)
  PROVE  Sound(t, refs, account) /\ SameBut(s, t, c)
<1> DEFINE u == add_new_value(s, c, name, a)
           fewer == Fewer(refs, <<a>>)
<1>1. Sound(u, fewer, account) /\ SameBut(s, u, c) /\ a \in Held(u)
  BY AddNewValueSound
<1>2. t = add_reference(u, a)
  BY DEF BindName
<1>3. More(fewer, <<a>>) = refs
  BY FewerThenMore
<1> HIDE DEF u, fewer
<1>4. Sound(t, refs, account)
  BY <1>1, <1>2, <1>3, ReferenceSound
<1>5. Shape(s) /\ Shape(u) /\ Shape(t)
  BY <1>1, <1>4 DEF Sound
<1>6. SameBut(u, t, c)
  BY <1>2, <1>5, ReferenceSame
<1> QED
  BY <1>1, <1>4, <1>5, <1>6, SameButMore

(* What the user holds, directly or in a unit that is no closure, is there  *)
(* later as well.                                                           *)
LEMMA BackedStill ==
  ASSUME NEW s, NEW refs, NEW account, Sound(s, refs, account), NEW a \in Held(s), Backed(s, refs, a),
         NEW t, NEW owned, NEW after, Sound(t, owned, after), \A x \in Int : owned[x] >= refs[x],
         NEW c, SameBut(s, t, c), c \in DOMAIN s.unit => s.unit[c].type = "closure"
  PROVE  Backed(t, owned, a) /\ a \in Held(t)
<1>1. Shape(s) /\ Owned(s) /\ refs \in [Int -> Int] /\ Valid(t, owned) /\ Owned(t) /\ owned \in [Int -> Int]
      /\ Shape(t)
  BY DEF Sound
<1>2. Held(s) \subseteq Int /\ DOMAIN s.unit \subseteq Int /\ DOMAIN s.mem \subseteq Nat
  BY Addresses
<1>3. \A b \in DOMAIN s.unit : b <= s.units
  BY <1>1 DEF Shape
<1>4. \A x \in Int : refs[x] > 0 => owned[x] > 0 /\ x \in Held(t)
  BY <1>1 DEF Valid, Held
<1>5. CASE a = None
  BY <1>5 DEF Backed, Held
<1>6. CASE refs[a] > 0
  BY <1>2, <1>4, <1>6 DEF Backed
<1>7. ASSUME NEW x \in DOMAIN s.unit, s.unit[x].type # "closure", refs[x] > 0, HoldsValue(s, x, a)
      PROVE  Backed(t, owned, a) /\ a \in Held(t)
  <2>1. x \in DOMAIN t.unit /\ owned[x] > 0 /\ x <= s.units /\ x # c
    <3>1. x \in Int /\ x # None
      BY <1>2, Addresses
    <3> QED
      BY <3>1, <1>3, <1>4, <1>7 DEF Held
  <2>2. t.unit[x].type = s.unit[x].type /\ t.unit[x].val = s.unit[x].val
    BY <2>1 DEF SameBut
  <2>3. Cells(t.unit[x]) = Cells(s.unit[x]) /\ Direct(t.unit[x]) = Direct(s.unit[x])
    BY <2>2, SameContents
  <2>4. HoldsValue(t, x, a) /\ a \in Held(t)
    <3>1. CASE \E d \in Cells(s.unit[x]) : s.mem[d] = a
      <4>1. PICK d \in Cells(s.unit[x]) : s.mem[d] = a
        BY <3>1
      <4>2. d \in DOMAIN s.mem /\ d \in DOMAIN t.mem
        BY <1>1, <2>1, <2>3, <1>7 DEF Owned
      <4>3. d <= s.cells
        BY <1>1, <4>2 DEF Shape
      <4>4. t.mem[d] = a
        BY <4>1, <4>2, <4>3 DEF SameBut
      <4> QED
        BY <1>1, <2>3, <4>1, <4>2, <4>4 DEF HoldsValue, Valid, Held
    <3>2. CASE \E i \in DOMAIN Direct(s.unit[x]) : Direct(s.unit[x])[i] = a
      BY <1>1, <2>1, <2>3, <3>2 DEF HoldsValue, Valid, Held
    <3> QED
      BY <3>1, <3>2, <1>7 DEF HoldsValue
  <2> QED
    BY <2>1, <2>2, <2>4, <1>7 DEF Backed
<1> QED
  BY <1>5, <1>6, <1>7 DEF Backed

Bindings(s, c, names, values, N, bound) ==
  bound = [n \in 0..N |-> IF n = 0 THEN s ELSE BindName(bound[n - 1], c, names[n], values[n])]

LEMMA BindingsExist ==
  ASSUME NEW s, NEW c, NEW names, NEW values, NEW N \in Nat
  PROVE  \E bound : Bindings(s, c, names, values, N, bound)
<1> DEFINE Next(t, n) == BindName(t, c, names[n], values[n])
           Upto(n, f) == f = [m \in 0..n |-> IF m = 0 THEN s ELSE Next(f[m - 1], m)]
           S == {n \in Nat : \E f : Upto(n, f)}
<1> HIDE DEF Next
<1>1. 0 \in S
  <2> DEFINE f == [m \in 0..0 |-> s]
  <2>1. f = [m \in 0..0 |-> IF m = 0 THEN s ELSE Next(f[m - 1], m)]
    OBVIOUS
  <2> QED
    BY <2>1
<1>2. ASSUME NEW n \in Nat, n \in S
      PROVE  n + 1 \in S
  <2>1. PICK f : Upto(n, f)
    BY <1>2
  <2> DEFINE h == [m \in 0..(n + 1) |-> IF m = n + 1 THEN Next(f[n], n + 1) ELSE f[m]]
  <2>2. \A m \in 0..n : f[m] = IF m = 0 THEN s ELSE Next(f[m - 1], m)
    BY <2>1
  <2>3. /\ h = [m \in 0..(n + 1) |-> h[m]]
        /\ h[n + 1] = Next(f[n], n + 1)
        /\ \A m \in 0..n : h[m] = f[m]
    OBVIOUS
  <2> HIDE DEF h
  <2>4. ASSUME NEW m \in 0..(n + 1)
        PROVE  h[m] = IF m = 0 THEN s ELSE Next(h[m - 1], m)
    <3>1. CASE m = n + 1
      <4>1. m # 0 /\ m - 1 = n /\ n \in 0..n
        BY <3>1
      <4> QED
        BY <3>1, <4>1, <2>3
    <3>2. CASE m # n + 1 /\ m # 0
      <4>1. m \in 0..n /\ m - 1 \in 0..n
        BY <3>2
      <4> QED
        BY <4>1, <3>2, <2>2, <2>3
    <3>3. CASE m = 0
      <4>1. m \in 0..n
        BY <3>3
      <4> QED
        BY <4>1, <3>3, <2>2, <2>3
    <3> QED
      BY <3>1, <3>2, <3>3
  <2>5. Upto(n + 1, h)
    BY <2>3, <2>4
  <2> QED
    BY <2>5
<1>3. N \in S
  <2>1. Nat \subseteq S
    <3> HIDE DEF S
    <3> QED
      BY <1>1, <1>2, SetInduction
  <2> QED
    BY <2>1
<1>4. PICK f : Upto(N, f)
  BY <1>3
<1>5. Bindings(s, c, names, values, N, f)
  BY <1>4 DEF Bindings, Next
<1> QED
  BY <1>5

LEMMA BindingsSound ==
  ASSUME NEW s, NEW refs, NEW account, Sound(s, refs, account), refs \in [Int -> Nat],
         NEW c \in DOMAIN s.unit, s.unit[c].type = "closure", refs[c] > 0,
         NEW names, NEW values, NEW N \in Nat,
         \A n \in 1..N : values[n] \in Held(s) /\ Backed(s, refs, values[n]),
         NEW bound, Bindings(s, c, names, values, N, bound)
  PROVE  Sound(bound[N], refs, account) /\ SameBut(s, bound[N], c)
<1> DEFINE Good(t) == Sound(t, refs, account) /\ SameBut(s, t, c)
           S == {n \in Nat : n <= N => Good(bound[n])}
<1>1. /\ 0 \in 0..N /\ bound[0] = s
      /\ \A n \in 1..N : bound[n] = BindName(bound[n - 1], c, names[n], values[n])
  <2>1. \A n \in 0..N : bound[n] = IF n = 0 THEN s ELSE BindName(bound[n - 1], c, names[n], values[n])
    BY DEF Bindings
  <2> QED
    BY <2>1
<1>2. Shape(s) /\ c \in Int /\ c # None
  BY Addresses DEF Sound
<1>3. 0 \in S
  <2>1. s.units \in Nat /\ s.cells \in Nat
    BY <1>2 DEF Shape
  <2>2. SameBut(s, s, c)
    BY <2>1 DEF SameBut
  <2> QED
    BY <1>1, <2>2
<1>4. ASSUME NEW n \in Nat, n \in S
      PROVE  n + 1 \in S
  <2> SUFFICES ASSUME n + 1 <= N PROVE Good(bound[n + 1])
    OBVIOUS
  <2> DEFINE u == bound[n]
             t == bound[n + 1]
             a == values[n + 1]
  <2>1. n + 1 \in 1..N /\ n + 1 - 1 = n /\ n <= N
    OBVIOUS
  <2>2. Sound(u, refs, account) /\ SameBut(s, u, c)
    BY <1>4, <2>1
  <2>3. t = BindName(u, c, names[n + 1], a)
    BY <1>1, <2>1
  <2>4. a \in Held(s) /\ Backed(s, refs, a)
    BY <2>1
  <2> HIDE DEF u, t, a
  <2>5. Backed(u, refs, a) /\ a \in Held(u)
    <3>1. \A x \in Int : refs[x] >= refs[x]
      OBVIOUS
    <3> QED
      BY <2>2, <2>4, <3>1, BackedStill
  <2>6. c \in DOMAIN u.unit /\ u.unit[c].type = "closure"
    <3>1. c \in DOMAIN u.unit
      BY <2>2, <1>2, Owner
    <3>2. c <= s.units
      BY <1>2 DEF Shape
    <3> QED
      BY <2>2, <3>1, <3>2 DEF SameBut
  <2> DEFINE name == names[n + 1]
  <2> HIDE DEF name
  <2>8. t = BindName(u, c, name, a)
    BY <2>3 DEF name
  <2>9. Sound(t, refs, account) /\ SameBut(u, t, c)
    BY <2>2, <2>5, <2>6, <2>8, BindSound
  <2>10. SameBut(s, t, c)
    <3>1. Shape(t)
      BY <2>9 DEF Sound
    <3> QED
      BY <2>2, <2>9, <3>1, <1>2, SameButMore
  <2> QED
    BY <2>9, <2>10 DEF t
<1>5. N \in S
  <2>1. Nat \subseteq S
    <3> HIDE DEF S
    <3> QED
      BY <1>3, <1>4, SetInduction
  <2> QED
    BY <2>1
<1> QED
  BY <1>5

LEMMA BindNamesSound ==
  ASSUME NEW s, NEW refs, NEW account, Sound(s, refs, account), refs \in [Int -> Nat],
         NEW c \in DOMAIN s.unit, s.unit[c].type = "closure", refs[c] > 0,
         NEW names, IsSeq(names), NEW values,
         \A n \in DOMAIN names : values[n] \in Held(s) /\ Backed(s, refs, values[n]),
         NEW t, t = BindNames(s, c, names, values)
  PROVE  Sound(t, refs, account) /\ SameBut(s, t, c)
<1> DEFINE N == Len(names)
           bound == CHOOSE bound : Bindings(s, c, names, values, N, bound)
<1>1. N \in Nat /\ DOMAIN names = 1..N
  BY SeqFacts
<1>2. t = bound[N]
  BY DEF BindNames, Bindings
<1>3. Bindings(s, c, names, values, N, bound)
  <2>1. \E f : Bindings(s, c, names, values, N, f)
    <3> HIDE DEF N
    <3> QED
      BY <1>1, BindingsExist
  <2> HIDE DEF N
  <2> QED
    BY <2>1
<1> HIDE DEF N, bound
<1> QED
  BY <1>1, <1>2, <1>3, BindingsSound

(* A call opens a scope in the closure, holds the closure and binds names.  *)
LEMMA OpenCallSound ==
  ASSUME NEW s, NEW refs, NEW account, Sound(s, refs, account), refs \in [Int -> Nat],
         IsAccount(account),
         NEW c \in DOMAIN s.unit, s.unit[c].type = "closure",
         NEW names, IsSeq(names), NEW values,
         \A n \in DOMAIN names : values[n] \in Held(s) /\ Backed(s, refs, values[n]),
         NEW t, t = BindNames(add_reference(add_scope(s, c), c), c, names, values)
  PROVE  Sound(t, More(refs, <<c>>), Scoped(account, c, 1)) /\ SameBut(s, t, c)
<1> DEFINE u == add_scope(s, c)
           w == add_reference(u, c)
           after == Scoped(account, c, 1)
           owned == More(refs, <<c>>)
           val == Append(s.unit[c].val, <<>>)
<1>1. Sound(u, refs, after) /\ SetValIs(s, c, val, u)
  BY AddScopeSound
<1> HIDE DEF u, after, val
<1>2. Shape(s) /\ Shape(u)
  BY <1>1 DEF Sound
<1>3. SameBut(s, u, c) /\ c \in Held(u)
  <2>1. s.units \in Nat /\ s.cells \in Nat
    BY <1>2 DEF Shape
  <2>2. u.units = s.units /\ u.cells = s.cells /\ u.mem = s.mem /\ DOMAIN u.unit = DOMAIN s.unit
        /\ u.unit[c].type = s.unit[c].type /\ \A b \in DOMAIN s.unit : b # c => u.unit[b] = s.unit[b]
    BY <1>1 DEF SetValIs
  <2> QED
    BY <2>1, <2>2 DEF SameBut, Held
<1>4. Sound(w, owned, after)
  BY <1>1, <1>3, ReferenceSound
<1>5. SameBut(s, w, c)
  <2>1. Shape(w)
    BY <1>4 DEF Sound
  <2>2. SameBut(u, w, c)
    BY <1>2, ReferenceSame
  <2> QED
    BY <1>2, <1>3, <2>1, <2>2, SameButMore
<1>6. owned \in [Int -> Nat] /\ (\A x \in Int : owned[x] >= refs[x]) /\ owned[c] > 0 /\ c \in Int /\ c # None
  <2>1. c \in Int /\ c # None /\ refs \in [Int -> Int]
    BY Addresses DEF Sound
  <2>2. owned \in [Int -> Int] /\ \A a \in Int : owned[a] = refs[a] + (IF c = a THEN 1 ELSE 0)
    BY <2>1, MoreFewerOne
  <2> HIDE DEF owned
  <2>3. \A a \in Int : owned[a] \in Nat /\ owned[a] >= refs[a]
    BY <2>2
  <2> QED
    BY <2>1, <2>2, <2>3
<1> HIDE DEF w, owned
<1>7. c \in DOMAIN w.unit /\ w.unit[c].type = "closure"
  <2>1. c \in DOMAIN w.unit
    BY <1>4, <1>6, Owner
  <2>2. c <= s.units
    BY <1>2 DEF Shape
  <2> QED
    BY <1>5, <2>1, <2>2 DEF SameBut
<1>8. ASSUME NEW n \in DOMAIN names
      PROVE  values[n] \in Held(w) /\ Backed(w, owned, values[n])
  <2> DEFINE a == values[n]
  <2>1. a \in Held(s) /\ Backed(s, refs, a)
    OBVIOUS
  <2> HIDE DEF a
  <2>2. a \in Held(w) /\ Backed(w, owned, a)
    BY <2>1, <1>4, <1>5, <1>6, BackedStill
  <2> QED
    BY <2>2 DEF a
<1>9. t = BindNames(w, c, names, values)
  BY DEF w, u
<1>10. Sound(t, owned, after) /\ SameBut(w, t, c)
  BY <1>4, <1>6, <1>7, <1>8, <1>9, BindNamesSound
<1>11. SameBut(s, t, c)
  <2>1. Shape(t)
    BY <1>10 DEF Sound
  <2> QED
    BY <1>2, <1>5, <1>10, <2>1, SameButMore
<1> QED
  BY <1>10, <1>11 DEF owned, after

(* The values that are left over go to a new vector, which gets a name.     *)
LEMMA RestNamedSound ==
  ASSUME NEW s, NEW refs, NEW account, Sound(s, refs, account), refs \in [Int -> Nat],
         IsAccount(account),
         NEW c \in DOMAIN s.unit, refs[c] > 0, c \in DOMAIN account.kind, account.kind[c] = "closure",
         NEW values, IsSeq(values), \A i \in DOMAIN values : values[i] \in Held(s),
         NEW v, v = NextUnit(s), NEW name,
         NEW t, t = add_new_value(VectorAddAll(gc_alloc(s, "vector"), v, values), c, name, v)
  PROVE  Sound(t, refs, account)
<1> DEFINE u == gc_alloc(s, "vector")
           w == VectorAddAll(u, v, values)
           more == More(refs, <<v>>)
<1>1. Sound(u, more, account) /\ Allocated(s, u, "vector")
  <2>1. u = gc_alloc_with(s, "vector", <<>>)
    BY NewOf DEF gc_alloc
  <2> HIDE DEF u
  <2> QED
    BY <2>1, NewSound
<1>2. v \in DOMAIN u.unit /\ u.unit[v].type = "vector"
  BY <1>1 DEF Allocated
<1>3. \A i \in DOMAIN values : values[i] \in Held(u)
  BY <1>1 DEF Allocated, Held
<1> HIDE DEF u
<1>4. Sound(w, more, account)
  <2> HIDE DEF more
  <2> QED
    BY <1>1, <1>2, <1>3, VectorAddAllSound
<1>5. /\ more \in [Int -> Nat] /\ v \in Int /\ v # None /\ more[v] > 0 /\ c \in Int /\ more[c] > 0 /\ c # None
  <2>1. v \in Int /\ v # None /\ refs \in [Int -> Int] /\ c \in Int /\ c # None
    BY Addresses DEF Sound
  <2>2. more \in [Int -> Int] /\ \A a \in Int : more[a] = refs[a] + (IF v = a THEN 1 ELSE 0)
    BY <2>1, MoreFewerOne
  <2> HIDE DEF more
  <2>3. \A a \in Int : more[a] \in Nat
    BY <2>2
  <2> QED
    BY <2>1, <2>2, <2>3
<1>6. Fewer(more, <<v>>) = refs
  <2>1. refs \in [Int -> Int]
    BY DEF Sound
  <2> QED
    BY <2>1, MoreThenFewer
<1> HIDE DEF w, more
<1>7. c \in DOMAIN w.unit /\ w.unit[c].type = "closure"
  <2>1. c \in DOMAIN w.unit
    BY <1>4, <1>5, Owner
  <2> QED
    BY <1>4, <2>1, TypeIs
<1>8. v \in Held(w) /\ Backed(w, more, v)
  BY <1>4, <1>5, Owner DEF Backed
<1>9. t = add_new_value(w, c, name, v)
  BY DEF w, u
<1> QED
  BY <1>4, <1>5, <1>6, <1>7, <1>8, <1>9, AddNewValueSound

-----------------------------------------------------------------------------
(* Vectors and hashes that get shorter.                                     *)
LEMMA ReleasedUnit ==
  ASSUME NEW s, NEW refs, NEW account, Sound(s, refs, account),
         NEW v \in DOMAIN s.unit, NEW cells, cells \subseteq Cells(s.unit[v]),
         NEW r, r = FreeAll(s, cells)
  PROVE  /\ IsStore(r)
         /\ v \in DOMAIN r.unit => IsUnit(r.unit[v]) /\ r.unit[v].val = s.unit[v].val
<1>1. Shape(s) /\ Owned(s)
  BY DEF Sound
<1>2. cells \in SUBSET DOMAIN s.mem
  BY <1>1 DEF Owned
<1>3. IsSeq(<<>>)
  BY TupleSeq
<1>4. Kept(s, r) /\ IsStore(r) /\ \A b \in DOMAIN r.unit : IsUnit(r.unit[b])
  <2> DEFINE none == <<>>
  <2>1. r = Released(s, none, cells) /\ IsSeq(none)
    BY <1>3 DEF FreeAll
  <2> HIDE DEF none
  <2> QED
    BY <1>1, <1>2, <2>1, ReleasedKept
<1> QED
  BY <1>4 DEF Kept

LEMMA FewerCellsSound ==
  ASSUME NEW s, NEW refs, NEW account, Sound(s, refs, account), refs \in [Int -> Nat],
         NEW v \in DOMAIN s.unit, s.unit[v].type \in {"vector", "hash"},
         NEW val, WellVal(s.unit[v].type, val), Separate(s.unit[v].type, val),
         NEW cells, cells \subseteq CellsOf(s.unit[v].val), CellsOf(val) = CellsOf(s.unit[v].val) \ cells,
         NEW t, t = SetVal(FreeAll(s, cells), v, val)
  PROVE  Sound(t, refs, account)
<1> DEFINE new == [type |-> s.unit[v].type, val |-> val]
           none == <<>>
<1>1. Shape(s) /\ Owned(s) /\ Typed(s, account)
  BY DEF Sound
<1>2. Cells(new) = CellsOf(val) /\ Cells(s.unit[v]) = CellsOf(s.unit[v].val)
  <2>1. new.type = s.unit[v].type /\ new.val = val
    OBVIOUS
  <2> HIDE DEF new
  <2> QED
    BY <2>1, CellsByType
<1>3. Suits(s, v, val) /\ Sheds(s, v, val, cells)
  BY <1>1, <1>2, ShedsSuits
<1>4. LongEnough(s, v, val, account, account)
  BY <1>1 DEF LongEnough, Typed
<1>5. IsSeq(none) /\ (\A b \in DOMAIN s.unit : Count(none, b) <= refs[b]) /\ Fewer(refs, none) = refs
  <2>1. \A b \in DOMAIN s.unit : refs[b] \in Nat /\ Count(none, b) = 0
    BY CountEmpty, Addresses
  <2>2. refs \in [Int -> Int]
    BY DEF Sound
  <2>3. IsSeq(none)
    BY TupleSeq
  <2>4. Fewer(refs, none) = refs
    BY <2>2, NoFewer
  <2> HIDE DEF none
  <2>5. \A b \in DOMAIN s.unit : Count(none, b) <= refs[b]
    BY <2>1
  <2> QED
    BY <2>3, <2>4, <2>5
<1> HIDE DEF none
<1>6. t = SetVal(Released(s, none, cells), v, val)
  BY DEF none, FreeAll
<1>7. Sound(t, Fewer(refs, none), account)
  BY <1>3, <1>4, <1>5, <1>6, ShedSound
<1> QED
  BY <1>5, <1>7

CellsAfter(q, n) == {q[i] : i \in (n + 1)..Len(q)}
LEMMA ShortVector ==
  ASSUME NEW q \in Seq(Nat), \A x, y \in DOMAIN q : q[x] = q[y] => x = y, NEW n \in 0..Len(q),
         NEW val, val = SubSeq(q, 1, n)
  PROVE  /\ WellVal("vector", val) /\ Separate("vector", val)
         /\ CellsAfter(q, n) \subseteq CellsOf(q)
         /\ CellsOf(val) = CellsOf(q) \ CellsAfter(q, n)
<1>1. Len(q) \in Nat /\ DOMAIN q = 1..Len(q) /\ \A i \in 1..Len(q) : q[i] \in Nat
  OBVIOUS
<1>2. IsSeq(q)
  BY SeqIntro
<1>3. IsSeq(val) /\ Len(val) = n /\ \A i \in 1..n : val[i] = q[i]
  BY <1>2, SeqPrefix
<1>4. DOMAIN val = 1..n /\ val = [i \in 1..n |-> val[i]]
  BY <1>3, SeqFacts
<1>5. n \in Nat /\ \A i \in 1..n : i \in 1..Len(q)
  BY <1>1
<1>6. val \in Seq(Nat)
  <2>1. \A i \in 1..n : val[i] \in Nat
    BY <1>1, <1>3, <1>5
  <2> QED
    BY <1>4, <1>5, <2>1, NatSeq
<1>7. Separate("vector", val)
  <2>1. \A x, y \in DOMAIN val : val[x] = val[y] => x = y
    BY <1>1, <1>3, <1>4, <1>5
  <2> QED
    BY <2>1 DEF Separate
<1>a. CellsAfter(q, n) = {q[i] : i \in (n + 1)..Len(q)}
  BY DEF CellsAfter
<1>8. CellsAfter(q, n) \subseteq CellsOf(q)
  <2>1. \A i \in (n + 1)..Len(q) : i \in DOMAIN q
    BY <1>1, <1>5
  <2> QED
    BY <2>1, <1>a DEF CellsOf
<1>9. ASSUME NEW x
      PROVE  x \in CellsOf(val) <=> x \in CellsOf(q) /\ x \notin CellsAfter(q, n)
  <2>1. ASSUME x \in CellsOf(val)
        PROVE  x \in CellsOf(q) /\ x \notin CellsAfter(q, n)
    <3>1. PICK i \in 1..n : x = val[i]
      BY <1>4, <2>1 DEF CellsOf
    <3>2. i \in DOMAIN q /\ x = q[i]
      BY <1>1, <1>3, <1>5, <3>1
    <3>3. \A j \in (n + 1)..Len(q) : j \in DOMAIN q /\ j # i
      BY <1>1, <1>5, <3>1
    <3>4. \A j \in (n + 1)..Len(q) : q[j] # x
      BY <3>2, <3>3
    <3> QED
      BY <3>2, <3>4, <1>a DEF CellsOf
  <2>2. ASSUME x \in CellsOf(q), x \notin CellsAfter(q, n)
        PROVE  x \in CellsOf(val)
    <3>1. PICK i \in DOMAIN q : x = q[i]
      BY <2>2 DEF CellsOf
    <3>2. i \in 1..Len(q) /\ i \notin (n + 1)..Len(q)
      BY <1>1, <2>2, <3>1, <1>a
    <3>3. i \in 1..n
      <4> DEFINE l == Len(q)
      <4>1. l \in Nat /\ i \in 1..l /\ ~(i \in (n + 1)..l)
        BY <1>1, <3>2
      <4> HIDE DEF l
      <4> QED
        BY <1>5, <4>1
    <3>4. val[i] = x /\ i \in DOMAIN val
      BY <1>3, <1>4, <3>1, <3>3
    <3> QED
      BY <3>4 DEF CellsOf
  <2> QED
    BY <2>1, <2>2
<1>10. CellsOf(val) = CellsOf(q) \ CellsAfter(q, n)
  BY <1>9
<1> QED
  BY <1>6, <1>7, <1>8, <1>10 DEF WellVal

LEMMA VectorFacts ==
  ASSUME NEW s, NEW refs, NEW account, Sound(s, refs, account),
         NEW v \in DOMAIN s.unit, s.unit[v].type = "vector"
  PROVE  /\ s.unit[v].val \in Seq(Nat)
         /\ \A x, y \in DOMAIN s.unit[v].val : s.unit[v].val[x] = s.unit[v].val[y] => x = y
         /\ Cells(s.unit[v]) = CellsOf(s.unit[v].val)
         /\ \A i \in DOMAIN s.unit[v].val : s.unit[v].val[i] \in DOMAIN s.mem
<1>1. Shape(s) /\ Owned(s)
  BY DEF Sound
<1>2. WellVal("vector", s.unit[v].val) /\ Separate("vector", s.unit[v].val)
  BY <1>1 DEF Shape, WellUnit, Owned
<1>3. Cells(s.unit[v]) = CellsOf(s.unit[v].val) /\ Cells(s.unit[v]) \subseteq DOMAIN s.mem
  BY <1>1, CellsByType DEF Owned
<1>4. \A i \in DOMAIN s.unit[v].val : s.unit[v].val[i] \in DOMAIN s.mem
  BY <1>3 DEF CellsOf
<1>5. s.unit[v].val \in Seq(Nat)
  BY <1>2 DEF WellVal
<1>6. \A x, y \in DOMAIN s.unit[v].val : s.unit[v].val[x] = s.unit[v].val[y] => x = y
  BY <1>2 DEF Separate
<1> QED
  BY <1>3, <1>4, <1>5, <1>6

LEMMA ShrinkSound ==
  ASSUME NEW s, NEW refs, NEW account, Sound(s, refs, account), refs \in [Int -> Nat],
         NEW v \in DOMAIN s.unit, s.unit[v].type = "vector",
         NEW q, q = s.unit[v].val, NEW n \in 0..Len(q), NEW val, val = SubSeq(q, 1, n),
         NEW cells, cells = CellsAfter(q, n),
         NEW r, r = FreeAll(s, cells)
  PROVE  Sound(SetVal(r, v, val), refs, account) /\ cells \subseteq Cells(s.unit[v])
<1> DEFINE t == SetVal(r, v, val)
<1>1. q \in Seq(Nat) /\ (\A x, y \in DOMAIN q : q[x] = q[y] => x = y) /\ Cells(s.unit[v]) = CellsOf(q)
  BY VectorFacts
<1>2. /\ WellVal("vector", val) /\ Separate("vector", val)
      /\ cells \subseteq CellsOf(q) /\ CellsOf(val) = CellsOf(q) \ cells
  BY <1>1, ShortVector
<1>3. t = SetVal(FreeAll(s, cells), v, val)
  OBVIOUS
<1> HIDE DEF t
<1>4. Sound(t, refs, account)
  BY <1>2, <1>3, FewerCellsSound
<1> QED
  BY <1>1, <1>2, <1>4 DEF t

LEMMA ShortenedIs ==
  ASSUME NEW r, IsStore(r), NEW v, NEW q,
         v \in DOMAIN r.unit => IsUnit(r.unit[v]) /\ r.unit[v].val = q, NEW n
  PROVE  Shortened(r, v, n) = SetVal(r, v, SubSeq(q, 1, n))
<1>1. CASE v \in DOMAIN r.unit
  <2>1. Shortened(r, v, n) = SetVal(r, v, SubSeq(r.unit[v].val, 1, n))
    BY <1>1 DEF SetVal, Shortened, IsStore, IsUnit
  <2> QED
    BY <2>1, <1>1
<1>2. CASE v \notin DOMAIN r.unit
  <2>1. Shortened(r, v, n) = r
    BY <1>2 DEF Shortened, IsStore
  <2> QED
    BY <2>1, <1>2, SetValNone
<1> QED
  BY <1>1, <1>2

LEMMA CutIs ==
  ASSUME NEW s, NEW v, NEW n
  PROVE  Cut(s, v, n) = Shortened(FreeAll(s, CellsAfter(s.unit[v].val, n)), v, n)
BY DEF Cut, Val, CellsAfter

LEMMA CutSound ==
  ASSUME NEW s, NEW refs, NEW account, Sound(s, refs, account), refs \in [Int -> Nat],
         NEW v \in DOMAIN s.unit, s.unit[v].type = "vector",
         NEW n \in 0..Len(s.unit[v].val),
         NEW t, t = Cut(s, v, n)
  PROVE  Sound(t, refs, account)
<1> DEFINE q == s.unit[v].val
           cells == CellsAfter(q, n)
           r == FreeAll(s, cells)
           val == SubSeq(q, 1, n)
<1>1. t = Shortened(r, v, n)
  BY CutIs
<1>a. r = FreeAll(s, cells) /\ cells = CellsAfter(q, n) /\ val = SubSeq(q, 1, n)
      /\ q = s.unit[v].val /\ n \in 0..Len(q)
  OBVIOUS
<1> HIDE DEF cells, val, r, q
<1>2. Sound(SetVal(r, v, val), refs, account) /\ cells \subseteq Cells(s.unit[v])
  BY <1>a, ShrinkSound
<1>3. IsStore(r) /\ (v \in DOMAIN r.unit => IsUnit(r.unit[v]) /\ r.unit[v].val = q)
  <2>1. r = FreeAll(s, cells) /\ cells \subseteq Cells(s.unit[v])
    BY <1>2, <1>a
  <2>2. IsStore(r) /\ (v \in DOMAIN r.unit => IsUnit(r.unit[v]) /\ r.unit[v].val = s.unit[v].val)
    BY <2>1, ReleasedUnit
  <2> QED
    BY <2>2 DEF q
<1>4. t = SetVal(r, v, val)
  BY <1>1, <1>3, ShortenedIs DEF val
<1> QED
  BY <1>2, <1>4

(* The last element, with a reference to its value first.                   *)
LEMMA DelElemIs ==
  ASSUME NEW s, NEW v, NEW result, result = DelElem(s, v), NEW a, a = result.ret,
         NEW t, t = result.vm, NEW q, q = s.unit[v].val
  PROVE  a = s.mem[q[Len(q)]] /\ t = Cut(add_reference(s, a), v, Len(q) - 1)
BY DEF DelElem, Returns, Val, Last

LEMMA MoreNat ==
  ASSUME NEW refs \in [Int -> Nat], NEW a, NEW owned, owned = More(refs, <<a>>)
  PROVE  owned \in [Int -> Nat]
  <2>1. refs \in [Int -> Int]
    OBVIOUS
  <2>2. owned \in [Int -> Int]
    BY <2>1, MoreFewerOne
  <2>3. \A x \in Int : owned[x] = refs[x] + (IF a = x THEN 1 ELSE 0)
    BY <2>1, MoreFewerOne
  <2>4. \A x \in Int : owned[x] \in Nat
    BY <2>3
  <2> QED
    BY <2>2, <2>4

LEMMA RefUnit ==
  ASSUME NEW s, Shape(s), NEW v \in DOMAIN s.unit, NEW a, NEW u, u = add_reference(s, a)
  PROVE v \in DOMAIN u.unit /\ u.unit[v].type = s.unit[v].type /\ u.unit[v].val = s.unit[v].val
BY DEF add_reference, Live, Shape, WellUnit

LEMMA ReferenceThenCut ==
  ASSUME NEW s, NEW refs, NEW account, Sound(s, refs, account), refs \in [Int -> Nat],
         NEW v \in DOMAIN s.unit, s.unit[v].type = "vector",
         NEW n \in 0..Len(s.unit[v].val), NEW a \in Held(s),
         NEW u, u = add_reference(s, a), NEW owned, owned = More(refs, <<a>>)
  PROVE  Sound(Cut(u, v, n), owned, account)
<1>1. Sound(u, owned, account)
  BY ReferenceSound
<1>2. owned \in [Int -> Nat]
  BY MoreNat
<1>3. Shape(s)
  BY DEF Sound
<1>4. v \in DOMAIN u.unit /\ u.unit[v].type = s.unit[v].type /\ u.unit[v].val = s.unit[v].val
  BY SMTT(30), <1>3, RefUnit
<1> QED
  BY <1>1, <1>2, <1>4, CutSound

LEMMA LastPlace ==
  ASSUME NEW q \in Seq(Nat), Len(q) > 0
  PROVE  Len(q) \in DOMAIN q /\ Len(q) - 1 \in 0..Len(q)
OBVIOUS

LEMMA PopSound ==
  ASSUME NEW s, NEW refs, NEW account, Sound(s, refs, account), refs \in [Int -> Nat],
         NEW v \in DOMAIN s.unit, s.unit[v].type = "vector",
         NEW q, q = s.unit[v].val, Len(q) > 0,
         NEW a, a = s.mem[q[Len(q)]],
         NEW t, t = Cut(add_reference(s, a), v, Len(q) - 1)
  PROVE  Sound(t, More(refs, <<a>>), account) /\ a \in Held(s)
<1>1. /\ q \in Seq(Nat) /\ (\A i \in DOMAIN q : q[i] \in DOMAIN s.mem)
  BY VectorFacts
<1>2. Len(q) \in DOMAIN q /\ Len(q) - 1 \in 0..Len(q)
  BY <1>1, LastPlace
<1>3. a \in Held(s)
  BY <1>1, <1>2, HeldByCell
<1>4. Sound(t, More(refs, <<a>>), account)
  BY <1>2, <1>3, ReferenceThenCut
<1> QED
  BY <1>3, <1>4

LEMMA HashFacts ==
  ASSUME NEW s, NEW refs, NEW account, Sound(s, refs, account),
         NEW h \in DOMAIN s.unit, s.unit[h].type = "hash"
  PROVE  /\ IsMap(s.unit[h].val)
         /\ \A x, y \in DOMAIN s.unit[h].val : s.unit[h].val[x] = s.unit[h].val[y] => x = y
         /\ Cells(s.unit[h]) = CellsOf(s.unit[h].val)
         /\ \A x \in DOMAIN s.unit[h].val : s.unit[h].val[x] \in DOMAIN s.mem
<1>1. Shape(s) /\ Owned(s)
  BY DEF Sound
<1>2. WellVal("hash", s.unit[h].val) /\ Separate("hash", s.unit[h].val)
  BY <1>1 DEF Shape, WellUnit, Owned
<1>3. Cells(s.unit[h]) = CellsOf(s.unit[h].val) /\ Cells(s.unit[h]) \subseteq DOMAIN s.mem
  BY <1>1, CellsByType DEF Owned
<1>4. \A i \in DOMAIN s.unit[h].val : s.unit[h].val[i] \in DOMAIN s.mem
  BY <1>3 DEF CellsOf
<1>5. IsMap(s.unit[h].val)
  BY <1>2 DEF WellVal
<1>6. \A x, y \in DOMAIN s.unit[h].val : s.unit[h].val[x] = s.unit[h].val[y] => x = y
  BY <1>2 DEF Separate
<1> QED
  BY <1>3, <1>4, <1>5, <1>6

LEMMA WithoutMap ==
  ASSUME NEW m, IsMap(m), \A x, y \in DOMAIN m : m[x] = m[y] => x = y, NEW key \in DOMAIN m,
         NEW val, val = Without(m, key)
  PROVE  /\ IsMap(val) /\ (\A x, y \in DOMAIN val : val[x] = val[y] => x = y)
         /\ {m[key]} \subseteq CellsOf(m)
         /\ CellsOf(val) = CellsOf(m) \ {m[key]}
<1>1. val = [x \in DOMAIN m \ {key} |-> m[x]]
  BY DEF Without, Restrict
<1> QED
  BY <1>1 DEF IsMap, CellsOf

LEMMA ErasedSound ==
  ASSUME NEW s, NEW refs, NEW account, Sound(s, refs, account), refs \in [Int -> Nat],
         NEW h \in DOMAIN s.unit, s.unit[h].type = "hash", NEW key,
         NEW t, t = Erased(s, h, key)
  PROVE  Sound(t, refs, account)
<1> DEFINE m == s.unit[h].val
           val == Without(m, key)
           cells == {m[key]}
           r == FreeAll(s, cells)
<1>1. IsMap(m) /\ (\A x, y \in DOMAIN m : m[x] = m[y] => x = y) /\ Cells(s.unit[h]) = CellsOf(m)
  BY HashFacts
<1>2. CASE key \notin DOMAIN m
  BY <1>2 DEF Erased, Val
<1>3. CASE key \in DOMAIN m
  <2>1. t = [r EXCEPT !.unit[h].val = Without(@, key)]
    BY <1>3 DEF Erased, Val, mem_free
  <2>2. /\ IsMap(val) /\ (\A x, y \in DOMAIN val : val[x] = val[y] => x = y)
        /\ cells \subseteq CellsOf(m) /\ CellsOf(val) = CellsOf(m) \ cells
    <3> HIDE DEF m
    <3> QED
      BY <1>1, <1>3, WithoutMap
  <2> HIDE DEF cells, val
  <2>3. WellVal("hash", val) /\ Separate("hash", val)
    BY <2>2 DEF WellVal, Separate
  <2>4. IsStore(r) /\ (h \in DOMAIN r.unit => IsUnit(r.unit[h]) /\ r.unit[h].val = m)
    BY <1>1, <2>2, ReleasedUnit
  <2>5. Sound(SetVal(r, h, val), refs, account)
    BY <2>2, <2>3, FewerCellsSound
  <2> HIDE DEF r, m
  <2>6. t = SetVal(r, h, val)
    <3>1. CASE h \in DOMAIN r.unit
      <4>1. t = SetVal(r, h, Without(r.unit[h].val, key))
        BY <2>1, <2>4, <3>1 DEF SetVal, IsStore, IsUnit
      <4> QED
        BY <4>1, <2>4, <3>1 DEF val
    <3>2. CASE h \notin DOMAIN r.unit
      <4>1. t = r
        BY <2>1, <2>4, <3>2 DEF IsStore
      <4> QED
        BY <2>4, <3>2, <4>1, SetValNone
    <3> QED
      BY <3>1, <3>2
  <2> QED
    BY <2>5, <2>6
<1> QED
  BY <1>2, <1>3

(* Vectors that are filled with new values.                                 *)
LEMMA AlikeSeq ==
  ASSUME NEW n \in Nat, NEW x, NEW q, q = [i \in 1..n |-> x]
  PROVE  IsSeq(q) /\ DOMAIN q = 1..n
<1>1. q = [i \in 1..n |-> q[i]] /\ \A i \in 1..n : q[i] \in {x}
  OBVIOUS
<1>2. q \in Seq({x}) /\ Len(q) = n
  BY <1>1, SeqMade
<1> QED
  BY <1>2, SeqIntro

LEMMA GrowSound ==
  ASSUME NEW s, NEW refs, NEW account, Sound(s, refs, account),
         NEW v \in DOMAIN s.unit, s.unit[v].type = "vector",
         NEW n \in Nat, n >= Len(s.unit[v].val)
  PROVE  Sound(Grow(s, v, n), refs, account)
<1> DEFINE l == Len(s.unit[v].val)
           vals == [i \in 1..(n - l) |-> NewContents.nil]
<1>1. s.unit[v].val \in Seq(Nat)
  BY VectorFacts
<1>2. n - l \in Nat
  BY <1>1
<1>3. Grow(s, v, n) = VectorAddNew(s, v, "nil", vals)
  BY DEF Grow, Val
<1> HIDE DEF l
<1>4. IsSeq(vals)
  BY <1>2, AlikeSeq
<1> HIDE DEF vals
<1>5. Sound(VectorAddNew(s, v, "nil", vals), refs, account)
  BY <1>4, VectorAddNewSound
<1> QED
  BY <1>3, <1>5

LEMMA KeysFinite ==
  ASSUME NEW s, NEW refs, NEW account, Sound(s, refs, account),
         NEW h \in DOMAIN s.unit, s.unit[h].type = "hash"
  PROVE  IsFiniteSet(DOMAIN s.unit[h].val)
<1> DEFINE m == s.unit[h].val
<1>1. /\ IsMap(m) /\ (\A x, y \in DOMAIN m : m[x] = m[y] => x = y)
      /\ \A x \in DOMAIN m : m[x] \in DOMAIN s.mem
  BY HashFacts
<1>2. IsFiniteSet(DOMAIN s.mem)
  BY Bounded DEF Sound
<1> HIDE DEF m
<1>3. m \in Injection(DOMAIN m, DOMAIN s.mem)
  BY <1>1 DEF Injection, IsInjective, IsMap
<1>4. IsFiniteSet(DOMAIN m)
  BY <1>2, <1>3, FS_Injection
<1> QED
  BY <1>4 DEF m

LEMMA KeysInOrder ==
  ASSUME NEW N, IsFiniteSet(N), NEW q, q = SetToSeq(N)
  PROVE  IsSeq(q)
<1>1. Cardinality(N) \in Nat /\ q \in [1..Cardinality(N) -> N]
  BY SetInOrder
<1> DEFINE n == Cardinality(N)
<1>2. n \in Nat /\ q = [i \in 1..n |-> q[i]] /\ \A i \in 1..n : q[i] \in N
  BY <1>1
<1> HIDE DEF n
<1>3. q \in Seq(N)
  BY <1>2, SeqMade
<1> QED
  BY <1>3, SeqIntro

LEMMA NewStringsSound ==
  ASSUME NEW s, NEW refs, NEW account, Sound(s, refs, account), IsAccount(account),
         NEW strings, IsSeq(strings), NEW result, result = NewStrings(s, strings)
  PROVE  /\ Sound(result.vm, More(refs, <<NextUnit(s)>>), account)
         /\ result.ret = NextUnit(s)
<1> DEFINE v == NextUnit(s)
           made == gc_alloc(s, "vector")
           owned == More(refs, <<v>>)
<1>1. result.vm = VectorAddNew(made, v, "string", strings) /\ result.ret = v
  BY DEF NewStrings, Returns
<1>2. made = gc_alloc_with(s, "vector", NewContents["vector"])
  BY DEF gc_alloc
<1>3. NewContents["vector"] = <<>>
  BY NewOf
<1>4. Sound(made, owned, account) /\ Allocated(s, made, "vector")
  BY <1>2, <1>3, NewSound
<1>5. v \in DOMAIN made.unit /\ made.unit[v].type = "vector"
  BY <1>4 DEF Allocated
<1> HIDE DEF made, owned, v
<1>6. Sound(VectorAddNew(made, v, "string", strings), owned, account)
  BY <1>4, <1>5, VectorAddNewSound
<1> QED
  BY <1>1, <1>6 DEF owned, v

-----------------------------------------------------------------------------
(* What is found in a hash, or in its parents, stays where it was found as  *)
(* long as the hash does.                                                   *)
HasParent(s, g, b) ==
  LET own == s.unit[g].val
      a == s.mem[own["parents"]]
  IN /\ "parents" \in DOMAIN own /\ Type(s, a) = "vector" /\ Type(s, b) = "hash"
     /\ \E i \in DOMAIN s.unit[a].val : b = s.mem[s.unit[a].val[i]]

LEMMA FoundInIs ==
  ASSUME NEW s, NEW g, NEW key, NEW wanted, NEW before, NEW e,
         e = FoundIn(s, g, key, wanted, before), e # None
  PROVE  \/ key \in DOMAIN s.unit[g].val /\ e = s.unit[g].val[key]
         \/ \E b : HasParent(s, g, b) /\ e = before[b]
<1> DEFINE own == s.unit[g].val
           a == s.mem[own["parents"]]
           parents == IF Type(s, a) = "vector" THEN s.unit[a].val ELSE <<>>
           Given(i) == IF Type(s, s.mem[parents[i]]) = "hash" THEN before[s.mem[parents[i]]] ELSE None
           first == {i \in DOMAIN parents : Given(i) # None /\ \A j \in 1..(i - 1) : Given(j) = None}
           i0 == CHOOSE i \in first : TRUE
<1>1. e = CASE key \in DOMAIN own -> IF own[key] \in wanted THEN own[key] ELSE None
            [] key \notin DOMAIN own /\ "parents" \in DOMAIN own ->
                 IF first = {} THEN None ELSE Given(i0)
            [] OTHER -> None
  BY DEF FoundIn, Val
<1>2. CASE key \in DOMAIN own
  BY <1>1, <1>2
<1>3. CASE key \notin DOMAIN own
  <2>1. "parents" \in DOMAIN own /\ first # {} /\ e = Given(i0)
    <3> HIDE DEF own, first, i0, Given
    <3> QED
      BY <1>1, <1>3
  <2>2. i0 \in first
    <3> HIDE DEF first
    <3> QED
      BY <2>1
  <2>3. i0 \in DOMAIN parents /\ Given(i0) # None
    <3> HIDE DEF i0, Given, parents
    <3> QED
      BY <2>2
  <2>4. Type(s, s.mem[parents[i0]]) = "hash" /\ e = before[s.mem[parents[i0]]]
    <3> HIDE DEF i0, parents
    <3> QED
      BY <2>1, <2>3
  <2>5. Type(s, a) = "vector" /\ parents = s.unit[a].val
    <3> HIDE DEF i0, a, own
    <3> QED
      BY <2>3
  <2>6. HasParent(s, g, s.mem[parents[i0]])
    <3> HIDE DEF i0
    <3> QED
      BY <2>1, <2>3, <2>4, <2>5 DEF HasParent
  <2> QED
    BY <2>4, <2>6
<1> QED
  BY <1>2, <1>3

Searched(s, key, wanted, N, nothing, found) ==
  found = [n \in 0..N |-> IF n = 0 THEN nothing
                          ELSE [g \in DOMAIN s.unit |-> FoundIn(s, g, key, wanted, found[n - 1])]]

LEMMA SearchExists ==
  ASSUME NEW s, NEW key, NEW wanted, NEW nothing, NEW N \in Nat
  PROVE  \E found : Searched(s, key, wanted, N, nothing, found)
<1> DEFINE Next(t) == [g \in DOMAIN s.unit |-> FoundIn(s, g, key, wanted, t)]
           Upto(n, f) == f = [m \in 0..n |-> IF m = 0 THEN nothing ELSE Next(f[m - 1])]
           S == {n \in Nat : \E f : Upto(n, f)}
<1> HIDE DEF Next
<1>1. 0 \in S
  <2> DEFINE f == [m \in 0..0 |-> nothing]
  <2>1. f = [m \in 0..0 |-> IF m = 0 THEN nothing ELSE Next(f[m - 1])]
    OBVIOUS
  <2> QED
    BY <2>1
<1>2. ASSUME NEW n \in Nat, n \in S
      PROVE  n + 1 \in S
  <2>1. PICK f : Upto(n, f)
    BY <1>2
  <2> DEFINE h == [m \in 0..(n + 1) |-> IF m = n + 1 THEN Next(f[n]) ELSE f[m]]
  <2>2. \A m \in 0..n : f[m] = IF m = 0 THEN nothing ELSE Next(f[m - 1])
    BY <2>1
  <2>3. /\ h = [m \in 0..(n + 1) |-> h[m]]
        /\ h[n + 1] = Next(f[n])
        /\ \A m \in 0..n : h[m] = f[m]
    OBVIOUS
  <2> HIDE DEF h
  <2>4. ASSUME NEW m \in 0..(n + 1)
        PROVE  h[m] = IF m = 0 THEN nothing ELSE Next(h[m - 1])
    <3>1. CASE m = n + 1
      <4>1. m # 0 /\ m - 1 = n /\ n \in 0..n
        BY <3>1
      <4> QED
        BY <3>1, <4>1, <2>3
    <3>2. CASE m # n + 1 /\ m # 0
      <4>1. m \in 0..n /\ m - 1 \in 0..n
        BY <3>2
      <4> QED
        BY <4>1, <3>2, <2>2, <2>3
    <3>3. CASE m = 0
      <4>1. m \in 0..n
        BY <3>3
      <4> QED
        BY <4>1, <3>3, <2>2, <2>3
    <3> QED
      BY <3>1, <3>2, <3>3
  <2>5. Upto(n + 1, h)
    BY <2>3, <2>4
  <2> QED
    BY <2>5
<1>3. N \in S
  <2>1. Nat \subseteq S
    <3> HIDE DEF S
    <3> QED
      BY <1>1, <1>2, SetInduction
  <2> QED
    BY <2>1
<1>4. PICK f : Upto(N, f)
  BY <1>3
<1>5. Searched(s, key, wanted, N, nothing, f)
  BY <1>4 DEF Searched, Next
<1> QED
  BY <1>5

LEMMA CellStays ==
  ASSUME NEW s, NEW refs, NEW account, Sound(s, refs, account),
         NEW t, NEW owned, NEW after, Sound(t, owned, after),
         NEW c, SameBut(s, t, c),
         NEW x \in DOMAIN t.unit, x \in DOMAIN s.unit, x # c, NEW d \in Cells(s.unit[x])
  PROVE  d \in DOMAIN s.mem /\ d \in DOMAIN t.mem /\ t.mem[d] = s.mem[d] /\ s.mem[d] \in Held(t)
<1>1. Shape(s) /\ Owned(s) /\ Valid(t, owned) /\ Owned(t)
  BY DEF Sound
<1>2. x <= s.units
  BY <1>1 DEF Shape
<1>3. t.unit[x].type = s.unit[x].type /\ t.unit[x].val = s.unit[x].val
  BY <1>2 DEF SameBut
<1>4. Cells(t.unit[x]) = Cells(s.unit[x])
  BY <1>3, SameContents
<1>5. d \in DOMAIN s.mem /\ d \in DOMAIN t.mem
  BY <1>1, <1>4 DEF Owned
<1>6. d <= s.cells
  BY <1>1, <1>5 DEF Shape
<1>7. t.mem[d] = s.mem[d]
  BY <1>5, <1>6 DEF SameBut
<1> QED
  BY <1>1, <1>5, <1>7 DEF Valid, Held

(* A parent of a hash that is still there is still there too.               *)
LEMMA ParentStays ==
  ASSUME NEW s, NEW refs, NEW account, Sound(s, refs, account),
         NEW t, NEW owned, NEW after, Sound(t, owned, after),
         NEW c, SameBut(s, t, c), c \in DOMAIN s.unit => s.unit[c].type = "closure",
         NEW g \in DOMAIN t.unit, g \in DOMAIN s.unit, s.unit[g].type = "hash",
         NEW b, HasParent(s, g, b)
  PROVE  b \in DOMAIN t.unit /\ b \in DOMAIN s.unit /\ s.unit[b].type = "hash"
<1> DEFINE own == s.unit[g].val
           cell == own["parents"]
           a == s.mem[cell]
<1>1. /\ "parents" \in DOMAIN own /\ Type(s, a) = "vector" /\ Type(s, b) = "hash"
      /\ \E i \in DOMAIN s.unit[a].val : b = s.mem[s.unit[a].val[i]]
  BY DEF HasParent
<1>2. a \in DOMAIN s.unit /\ s.unit[a].type = "vector" /\ b \in DOMAIN s.unit /\ s.unit[b].type = "hash"
  BY <1>1 DEF Type, Live
<1>3. None \notin DOMAIN s.unit
  BY Addresses
<1> HIDE DEF a
<1>4. a \in DOMAIN t.unit
  <2>1. cell \in Cells(s.unit[g])
    <3>1. Cells(s.unit[g]) = CellsOf(s.unit[g].val)
      BY HashFacts
    <3> QED
      BY <1>1, <3>1 DEF CellsOf
  <2>2. s.mem[cell] \in Held(t)
    BY <1>2, <2>1, CellStays
  <2> QED
    BY <1>2, <1>3, <2>2 DEF Held, a
<1>5. PICK i \in DOMAIN s.unit[a].val : b = s.mem[s.unit[a].val[i]]
  BY <1>1
<1>6. b \in DOMAIN t.unit
  <2>1. s.unit[a].val[i] \in Cells(s.unit[a])
    <3>1. Cells(s.unit[a]) = CellsOf(s.unit[a].val)
      BY <1>2, VectorFacts
    <3> QED
      BY <1>5, <3>1 DEF CellsOf
  <2>2. s.mem[s.unit[a].val[i]] \in Held(t)
    BY <1>2, <1>4, <2>1, CellStays
  <2> QED
    BY <1>2, <1>3, <1>5, <2>2 DEF Held
<1> QED
  BY <1>2, <1>6

LEMMA FoundStays ==
  ASSUME NEW s, NEW refs, NEW account, Sound(s, refs, account),
         NEW t, NEW owned, NEW after, Sound(t, owned, after),
         NEW c, SameBut(s, t, c), c \in DOMAIN s.unit => s.unit[c].type = "closure",
         NEW h \in DOMAIN t.unit, h \in DOMAIN s.unit, s.unit[h].type = "hash",
         NEW key, NEW wanted, NEW e, e = FoundCell(s, h, key, wanted), e # None
  PROVE  e \in DOMAIN s.mem /\ s.mem[e] \in Held(t)
<1> DEFINE nothing == [g \in DOMAIN s.unit |-> None]
           N == s.units
           found == CHOOSE found : Searched(s, key, wanted, N, nothing, found)
           Stays(x) == x # None => x \in DOMAIN s.mem /\ s.mem[x] \in Held(t)
           There == {g \in DOMAIN t.unit : g \in DOMAIN s.unit /\ s.unit[g].type = "hash"}
           S == {n \in Nat : n <= N => \A g \in There : Stays(found[n][g])}
<1>1. N \in Nat
  BY DEF Sound, Shape
<1>2. e = found[N][h]
  BY DEF FoundCell, Searched
<1>3. Searched(s, key, wanted, N, nothing, found)
  <2> HIDE DEF nothing, N
  <2>1. \E f : Searched(s, key, wanted, N, nothing, f)
    BY <1>1, SearchExists
  <2> QED
    BY <2>1
<1> HIDE DEF found, N, Stays
<1>4. /\ found[0] = nothing
      /\ \A n \in 1..N : found[n] = [g \in DOMAIN s.unit |-> FoundIn(s, g, key, wanted, found[n - 1])]
  <2> HIDE DEF nothing
  <2> DEFINE Gen(f) == [g \in DOMAIN s.unit |-> FoundIn(s, g, key, wanted, f)]
  <2>1. \A n \in 0..N : found[n] = IF n = 0 THEN nothing ELSE Gen(found[n - 1])
    BY <1>3 DEF Searched
  <2> HIDE DEF Gen
  <2>2. found[0] = nothing /\ \A n \in 1..N : found[n] = Gen(found[n - 1])
    BY <1>1, <2>1
  <2> QED
    BY <2>2 DEF Gen
<1>5. 0 \in S
  <2>1. \A g \in There : found[0][g] = None
    BY <1>4
  <2> QED
    BY <2>1 DEF Stays
<1>6. ASSUME NEW n \in Nat, n \in S
      PROVE  n + 1 \in S
  <2> SUFFICES ASSUME n + 1 <= N, NEW g \in There, found[n + 1][g] # None
               PROVE  found[n + 1][g] \in DOMAIN s.mem /\ s.mem[found[n + 1][g]] \in Held(t)
    BY DEF Stays
  <2> DEFINE before == found[n]
             x == found[n + 1][g]
  <2>1. \A b \in There : Stays(before[b])
    BY <1>1, <1>6
  <2>2. x = FoundIn(s, g, key, wanted, before)
    <3>1. n + 1 \in 1..N /\ n + 1 - 1 = n /\ g \in DOMAIN s.unit
      OBVIOUS
    <3>2. found[n + 1] = [y \in DOMAIN s.unit |-> FoundIn(s, y, key, wanted, found[n])]
      BY <1>4, <3>1
    <3> QED
      BY <3>1, <3>2
  <2>3. x # None /\ g \in DOMAIN t.unit /\ g \in DOMAIN s.unit /\ s.unit[g].type = "hash"
    OBVIOUS
  <2> HIDE DEF before, x
  <2>4. CASE key \in DOMAIN s.unit[g].val /\ x = s.unit[g].val[key]
    <3>1. x \in Cells(s.unit[g])
      <4>1. Cells(s.unit[g]) = CellsOf(s.unit[g].val)
        BY <2>3, HashFacts
      <4> QED
        BY <2>4, <4>1 DEF CellsOf
    <3>2. g # c
      BY <2>3
    <3>3. x \in DOMAIN s.mem /\ s.mem[x] \in Held(t)
      BY <2>3, <3>1, <3>2, CellStays
    <3> QED
      BY <3>3 DEF x
  <2>5. CASE \E b : HasParent(s, g, b) /\ x = before[b]
    <3>1. PICK b : HasParent(s, g, b) /\ x = before[b]
      BY <2>5
    <3>2. b \in There
      BY <2>3, <3>1, ParentStays
    <3>3. Stays(x)
      BY <2>1, <3>1, <3>2
    <3> QED
      BY <2>3, <3>3 DEF x, Stays
  <2> QED
    BY <2>2, <2>3, <2>4, <2>5, FoundInIs
<1>7. N \in S
  <2>1. Nat \subseteq S
    <3> HIDE DEF S
    <3> QED
      BY <1>5, <1>6, SetInduction
  <2> QED
    BY <1>1, <2>1
<1> QED
  BY <1>1, <1>2, <1>7 DEF Stays

=============================================================================

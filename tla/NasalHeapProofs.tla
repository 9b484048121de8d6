---------------------------- MODULE NasalHeapProofs ----------------------------
(* Proofs about NasalHeap.                                                 *)
EXTENDS NasalHeapInv, TLAPS, FiniteSetTheorems

Value0 == Unit \cup {NoAddr}
One(x, w) == IF x = w THEN 1 ELSE 0

-----------------------------------------------------------------------------
(* Counting the fields that refer to a value.                              *)

(* The fields and the slots are finitely many, so that the holders of a    *)
(* value can be counted.                                                   *)
LEMMA FieldsFinite == IsFiniteSet(Field) /\ IsFiniteSet(Direct)
<1>1. IsFiniteSet(Unit)
  BY FS_Interval, GcAssumption DEF Unit
<1>2. IsFiniteSet(0..MaxIndex) /\ IsFiniteSet(Slot)
  BY FS_Interval, LabelAssumption, BoundAssumption DEF Slot
<1>3. IsFiniteSet(Name \cup {Elem})
  BY FS_AddElement, LabelAssumption
<1>4. IsFiniteSet(Label)
  BY <1>2, <1>3, FS_Product DEF Label
<1> QED
  BY <1>1, <1>2, <1>4, FS_Product DEF Field, Direct

(* One element more, one element less.                                     *)
LEMMA CountAdd ==
  ASSUME NEW S, IsFiniteSet(S), NEW x, x \notin S
  PROVE  Cardinality(S \cup {x}) = Cardinality(S) + 1
BY FS_AddElement

LEMMA CountRemove ==
  ASSUME NEW S, IsFiniteSet(S), NEW x, x \in S
  PROVE  Cardinality(S \ {x}) = Cardinality(S) - 1
BY FS_RemoveElement

Cells0 == Cell \cup {NoCell}

(* No field has cell c.                                                     *)
Fresh(e, c) == \A q \in Field : e[q] # c

(* f2 is f with f2[x] = y.                                                  *)
Put(f2, f, x, y) == f2 = [f EXCEPT ![x] = y]

LEMMA RefsFinite ==
  ASSUME NEW e, NEW m, NEW w
  PROVE  IsFiniteSet(RefsOf(e, m, w)) /\ Cardinality(RefsOf(e, m, w)) \in Nat
BY FieldsFinite, FS_Subset, FS_CardinalityType DEF RefsOf

(* A field that gets a fresh cell for v is one more reference to v.         *)
LEMMA RefsFresh ==
  ASSUME NEW e \in [Field -> Cells0], NEW m \in [Cell -> Value0],
         NEW p \in Field, NEW c \in Cell, NEW v \in Value0, NEW w \in Unit,
         e[p] = NoCell, Fresh(e, c),
         NEW e2, Put(e2, e, p, c), NEW m2, Put(m2, m, c, v)
  PROVE  Cardinality(RefsOf(e2, m2, w)) = Cardinality(RefsOf(e, m, w)) + One(v, w)
<1> DEFINE N == RefsOf(e2, m2, w)
           O == RefsOf(e, m, w)
<1>0. c # NoCell
  BY MemAssumption DEF Cell, NoCell
<1>1. CASE v = w
  <2>1. N = O \cup {p} /\ p \notin O
    BY <1>0, <1>1 DEF RefsOf, Cells0, Fresh, Put
  <2> QED BY <2>1, <1>1, CountAdd, RefsFinite DEF One
<1>2. CASE v # w
  <2>1. N = O
    BY <1>0, <1>2 DEF RefsOf, Cells0, Fresh, Put
  <2> QED BY <2>1, <1>2, RefsFinite DEF One
<1> QED BY <1>1, <1>2

(* A field that gives up its cell is one reference less to what it stored.  *)
LEMMA RefsDrop ==
  ASSUME NEW e \in [Field -> Cells0], NEW m \in [Cell -> Value0],
         NEW p \in Field, NEW w \in Unit, e[p] # NoCell,
         NEW e2, Put(e2, e, p, NoCell)
  PROVE  Cardinality(RefsOf(e2, m, w)) = Cardinality(RefsOf(e, m, w)) - One(m[e[p]], w)
<1> DEFINE N == RefsOf(e2, m, w)
           O == RefsOf(e, m, w)
<1>1. CASE m[e[p]] = w
  <2>1. N = O \ {p} /\ p \in O
    BY <1>1 DEF RefsOf, Cells0, Fresh, Put
  <2> QED BY <2>1, <1>1, CountRemove, RefsFinite DEF One
<1>2. CASE m[e[p]] # w
  <2>1. N = O
    BY <1>2 DEF RefsOf, Cells0, Fresh, Put
  <2> QED BY <2>1, <1>2, RefsFinite DEF One
<1> QED BY <1>1, <1>2

(* A store moves one reference from the old value of a cell to the new.     *)
LEMMA RefsStore ==
  ASSUME NEW e \in [Field -> Cells0], NEW m \in [Cell -> Value0],
         NEW p \in Field, NEW v \in Value0, NEW w \in Unit,
         e[p] # NoCell, \A q \in Field : e[q] = e[p] => q = p,
         NEW m2, Put(m2, m, e[p], v)
  PROVE  Cardinality(RefsOf(e, m2, w))
           = Cardinality(RefsOf(e, m, w)) - One(m[e[p]], w) + One(v, w)
<1>1. e[p] \in Cell
  BY DEF Cells0
<1>2. PICK d : Put(d, e, p, NoCell)
  BY DEF Put
<1>3. d \in [Field -> Cells0] /\ d[p] = NoCell /\ Fresh(d, e[p])
  BY MemAssumption, <1>1, <1>2 DEF Cells0, Cell, NoCell, Fresh, Put
<1>4. Put(e, d, p, e[p])
  BY <1>2 DEF Cells0, Put
<1>5. Cardinality(RefsOf(d, m, w)) = Cardinality(RefsOf(e, m, w)) - One(m[e[p]], w)
  BY <1>2, RefsDrop
<1>6. Cardinality(RefsOf(e, m2, w)) = Cardinality(RefsOf(d, m, w)) + One(v, w)
  BY <1>1, <1>3, <1>4, RefsFresh
<1>7. Cardinality(RefsOf(e, m, w)) \in Nat /\ One(m[e[p]], w) \in Nat /\ One(v, w) \in Nat
  BY RefsFinite DEF One
<1> QED BY <1>5, <1>6, <1>7

(* A new cell in the place of an older one.                                 *)
LEMMA RefsReplace ==
  ASSUME NEW e \in [Field -> Cells0], NEW m \in [Cell -> Value0],
         NEW p \in Field, NEW c \in Cell, NEW v \in Value0, NEW w \in Unit,
         e[p] # NoCell, Fresh(e, c),
         NEW e2, Put(e2, e, p, c), NEW m2, Put(m2, m, c, v)
  PROVE  Cardinality(RefsOf(e2, m2, w))
           = Cardinality(RefsOf(e, m, w)) - One(m[e[p]], w) + One(v, w)
<1>1. PICK d : Put(d, e, p, NoCell)
  BY DEF Put
<1>2. d \in [Field -> Cells0] /\ d[p] = NoCell /\ Fresh(d, c)
  BY MemAssumption, <1>1 DEF Cells0, Cell, NoCell, Fresh, Put
<1>3. Put(e2, d, p, c)
  BY <1>1 DEF Put
<1>4. Cardinality(RefsOf(d, m, w)) = Cardinality(RefsOf(e, m, w)) - One(m[e[p]], w)
  BY <1>1, RefsDrop
<1>5. Cardinality(RefsOf(e2, m2, w)) = Cardinality(RefsOf(d, m, w)) + One(v, w)
  BY <1>2, <1>3, RefsFresh
<1>6. Cardinality(RefsOf(e, m, w)) \in Nat /\ One(m[e[p]], w) \in Nat /\ One(v, w) \in Nat
  BY RefsFinite DEF One
<1> QED BY <1>4, <1>5, <1>6

(* The same for the references without a cell.                              *)
LEMMA DirectDrop ==
  ASSUME NEW d \in [Direct -> Value0], NEW q \in Direct, NEW w \in Unit,
         NEW d2, d2 = [d EXCEPT ![q] = NoAddr]
  PROVE  Cardinality(SlotsOf(d2, w))
           = Cardinality(SlotsOf(d, w)) - One(d[q], w)
<1> DEFINE N == SlotsOf(d2, w)
           O == SlotsOf(d, w)
<1>0. w # NoAddr
  BY GcAssumption DEF Unit, NoAddr
<1>1. IsFiniteSet(O) /\ Cardinality(O) \in Nat
  BY FieldsFinite, FS_Subset, FS_CardinalityType DEF SlotsOf
<1>2. CASE d[q] = w
  <2>1. N = O \ {q} /\ q \in O
    BY <1>0, <1>2 DEF Value0, SlotsOf
  <2> QED BY <2>1, <1>1, <1>2, CountRemove DEF One
<1>3. CASE d[q] # w
  <2>1. N = O
    BY <1>0, <1>3 DEF Value0, SlotsOf
  <2> QED BY <2>1, <1>1, <1>3 DEF One
<1> QED BY <1>2, <1>3

LEMMA DirectFresh ==
  ASSUME NEW d \in [Direct -> Value0], NEW q \in Direct, NEW v \in Unit, NEW w \in Unit,
         d[q] = NoAddr, NEW d2, d2 = [d EXCEPT ![q] = v]
  PROVE  Cardinality(SlotsOf(d2, w))
           = Cardinality(SlotsOf(d, w)) + One(v, w)
<1> DEFINE N == SlotsOf(d2, w)
           O == SlotsOf(d, w)
<1>0. w # NoAddr
  BY GcAssumption DEF Unit, NoAddr
<1>1. IsFiniteSet(O) /\ Cardinality(O) \in Nat
  BY FieldsFinite, FS_Subset, FS_CardinalityType DEF SlotsOf
<1>2. CASE v = w
  <2>1. N = O \cup {q} /\ q \notin O
    BY <1>0, <1>2 DEF Value0, SlotsOf
  <2> QED BY <2>1, <1>1, <1>2, CountAdd DEF One
<1>3. CASE v # w
  <2>1. N = O
    BY <1>0, <1>3 DEF Value0, SlotsOf
  <2> QED BY <2>1, <1>1, <1>3 DEF One
<1> QED BY <1>2, <1>3

-----------------------------------------------------------------------------
(* The queues and the call stack: sequences without repetitions.           *)

LEMMA ElementsType ==
  ASSUME NEW S, NEW s \in Seq(S)
  PROVE  Elements(s) \subseteq S
BY DEF Elements

LEMMA InChunk ==
  ASSUME NEW m \in Nat, NEW n \in Nat, NEW u \in m..(n - 1)
  PROVE  u >= m /\ u < n /\ ~(u < m)
OBVIOUS

(* A call enters a destructor.                                             *)
LEMMA SeqPush ==
  ASSUME NEW S, NEW s \in Seq(S), NEW x \in S, Injective(s), x \notin Elements(s)
  PROVE  /\ <<x>> \o s \in Seq(S)
         /\ Injective(<<x>> \o s)
         /\ Elements(<<x>> \o s) = Elements(s) \cup {x}
<1> DEFINE t == <<x>> \o s
<1>1. /\ t \in Seq(S) /\ Len(t) = Len(s) + 1 /\ t[1] = x
      /\ \A i \in 1..Len(s) : t[i + 1] = s[i]
  OBVIOUS
<1> HIDE DEF t
<1>2. \A i \in 1..Len(t) : i = 1 \/ (i - 1 \in 1..Len(s) /\ t[i] = s[i - 1])
  BY <1>1
<1>3. DOMAIN t = 1..Len(t) /\ DOMAIN s = 1..Len(s)
  BY <1>1
<1>4. Injective(t)
  <2> SUFFICES ASSUME NEW i \in 1..Len(t), NEW j \in 1..Len(t), t[i] = t[j]
               PROVE  i = j
    BY <1>3 DEF Injective
  <2>1. CASE i = 1 /\ j # 1
    BY <1>1, <1>2, <1>3, <2>1 DEF Elements
  <2>2. CASE i # 1 /\ j = 1
    BY <1>1, <1>2, <1>3, <2>2 DEF Elements
  <2>3. CASE i # 1 /\ j # 1
    <3>1. s[i - 1] = s[j - 1] /\ i - 1 \in DOMAIN s /\ j - 1 \in DOMAIN s
      BY <1>2, <1>3, <2>3
    <3> QED BY <3>1 DEF Injective
  <2> QED BY <2>1, <2>2, <2>3
<1>5. Elements(t) = Elements(s) \cup {x}
  <2>1. ASSUME NEW y \in Elements(t) PROVE y \in Elements(s) \cup {x}
    BY <1>1, <1>2, <1>3 DEF Elements
  <2>2. ASSUME NEW y \in Elements(s) PROVE y \in Elements(t)
    BY <1>1, <1>3 DEF Elements
  <2>3. x \in Elements(t)
    BY <1>1, <1>3 DEF Elements
  <2> QED BY <2>1, <2>2, <2>3
<1> QED BY <1>1, <1>4, <1>5 DEF t

(* A unit or a cell goes to the end of a free queue.                       *)
LEMMA SeqAppend ==
  ASSUME NEW S, NEW s \in Seq(S), NEW x \in S, Injective(s), x \notin Elements(s)
  PROVE  /\ Append(s, x) \in Seq(S)
         /\ Injective(Append(s, x))
         /\ Elements(Append(s, x)) = Elements(s) \cup {x}
<1> DEFINE t == Append(s, x)
<1>1. /\ t \in Seq(S) /\ Len(t) = Len(s) + 1 /\ t[Len(s) + 1] = x
      /\ \A i \in 1..Len(s) : t[i] = s[i]
  OBVIOUS
<1> HIDE DEF t
<1>3. DOMAIN t = 1..Len(t) /\ DOMAIN s = 1..Len(s)
  BY <1>1
<1>4. Injective(t)
  BY <1>1, <1>3 DEF Injective, Elements
<1>5. Elements(t) = Elements(s) \cup {x}
  <2>1. ASSUME NEW y \in Elements(t) PROVE y \in Elements(s) \cup {x}
    BY <1>1, <1>3 DEF Elements
  <2>2. ASSUME NEW y \in Elements(s) PROVE y \in Elements(t)
    BY <1>1, <1>3 DEF Elements
  <2>3. x \in Elements(t)
    BY <1>1, <1>3 DEF Elements
  <2> QED BY <2>1, <2>2, <2>3
<1> QED BY <1>1, <1>4, <1>5 DEF t

(* A destructor returns, or a queue is popped.                             *)
LEMMA SeqTail ==
  ASSUME NEW S, NEW s \in Seq(S), Injective(s), s # <<>>
  PROVE  /\ Head(s) \in S /\ Head(s) \in Elements(s)
         /\ Tail(s) \in Seq(S)
         /\ Injective(Tail(s))
         /\ Elements(Tail(s)) = Elements(s) \ {Head(s)}
<1> DEFINE t == Tail(s)
<1>1. /\ t \in Seq(S) /\ Len(t) = Len(s) - 1 /\ Head(s) = s[1] /\ Len(s) > 0
      /\ \A i \in 1..Len(t) : t[i] = s[i + 1]
  OBVIOUS
<1> HIDE DEF t
<1>2. \A i \in 2..Len(s) : i - 1 \in 1..Len(t) /\ t[i - 1] = s[i]
  BY <1>1
<1>3. DOMAIN t = 1..Len(t) /\ DOMAIN s = 1..Len(s)
  BY <1>1
<1>4. Injective(t)
  BY <1>1, <1>3 DEF Injective, Elements
<1>5. Elements(t) = Elements(s) \ {Head(s)}
  <2>1. ASSUME NEW y \in Elements(t) PROVE y \in Elements(s) \ {Head(s)}
    BY <1>1, <1>3 DEF Elements, Injective
  <2>2. ASSUME NEW y \in Elements(s), y # Head(s) PROVE y \in Elements(t)
    <3>1. PICK i \in 1..Len(s) : y = s[i]
      BY <1>3 DEF Elements
    <3>2. i \in 2..Len(s)
      BY <1>1, <2>2, <3>1
    <3> QED BY <1>2, <1>3, <3>1, <3>2 DEF Elements
  <2> QED BY <2>1, <2>2
<1>6. Head(s) \in Elements(s) /\ Head(s) \in S
  BY <1>1, <1>3 DEF Elements
<1> QED BY <1>1, <1>4, <1>5, <1>6 DEF t

(* A free queue that is empty is filled with the addresses of a new chunk. *)
LEMMA SeqChunk ==
  ASSUME NEW n \in Nat, NEW k \in Nat \ {0}, NEW m \in Nat, n + k <= m
  PROVE  /\ Chunk(n, k) \in Seq(0..(m - 1)) /\ Chunk(n, k) # <<>>
         /\ Injective(Chunk(n, k))
         /\ Elements(Chunk(n, k)) = n..(n + k - 1)
<1> DEFINE s == Chunk(n, k)
<1>0. s = [i \in 1..k |-> n + i - 1]
  BY DEF Chunk
<1> HIDE DEF s
<1>1. s \in [1..k -> 0..(m - 1)]
  BY <1>0
<1>2. s \in Seq(0..(m - 1)) /\ Len(s) = k
  BY <1>1
<1>3. Injective(s)
  BY <1>0 DEF Injective
<1>4. Elements(s) = n..(n + k - 1)
  <2>1. ASSUME NEW y \in Elements(s) PROVE y \in n..(n + k - 1)
    BY <1>0 DEF Elements
  <2>2. ASSUME NEW y \in n..(n + k - 1) PROVE y \in Elements(s)
    <3>1. y - n + 1 \in DOMAIN s /\ s[y - n + 1] = y
      BY <1>0
    <3> QED BY <3>1 DEF Elements
  <2> QED BY <2>1, <2>2
<1> QED BY <1>2, <1>3, <1>4 DEF s

-----------------------------------------------------------------------------
(* What the operations of the garbage collector and the memory manager do. *)

LEMMA Addresses ==
  /\ NoAddr \notin Unit /\ NoCell \notin Cell
  /\ Unit \subseteq Nat /\ Cell \subseteq Nat
BY GcAssumption, MemAssumption DEF Unit, Cell, NoAddr, NoCell

(* del_reference takes one from the count of a live value; the value that  *)
(* had one holder is collected, and its destructor is the innermost call.  *)
LEMMA DelReferenceFacts ==
  ASSUME TypeOK, UnitInv, NEW v \in Value, del_reference(v)
  PROVE  /\ ref_cnt' \in [Unit -> Nat]
         /\ \A w \in Unit : ref_cnt'[w] = IF w = v /\ ~collected[w]
                                         THEN ref_cnt[w] - 1 ELSE ref_cnt[w]
         /\ collected' \in [Unit -> BOOLEAN]
         /\ \A w \in Unit : collected[w] => collected'[w]
         /\ LiveInv'
         /\ dying' \in Seq(Unit) /\ Injective(dying')
         /\ Elements(dying') = Elements(dying) \cup {w \in Unit : ~collected[w] /\ collected'[w]}
<1> USE DEF TypeOK, UnitInv, DyingInv, LiveInv, Value
<1>1. CASE ~Live(v)
  <2>1. ref_cnt' = ref_cnt /\ collected' = collected /\ dying' = dying
    BY <1>1 DEF del_reference
  <2>2. v \in Unit => collected[v]
    BY <1>1 DEF Live
  <2> QED BY <2>1, <2>2
<1>2. CASE Live(v) /\ ref_cnt[v] # 1
  <2>1. /\ v \in Unit /\ ~collected[v]
        /\ ref_cnt' = [ref_cnt EXCEPT ![v] = @ - 1]
        /\ collected' = collected /\ dying' = dying
    BY <1>2 DEF del_reference, Live
  <2>2. ref_cnt[v] \in Nat /\ ref_cnt[v] # 0
    BY <2>1
  <2> QED BY <1>2, <2>1, <2>2
<1>3. CASE Live(v) /\ ref_cnt[v] = 1
  <2>1. /\ v \in Unit /\ ~collected[v]
        /\ ref_cnt' = [ref_cnt EXCEPT ![v] = @ - 1]
        /\ collected' = [collected EXCEPT ![v] = TRUE] /\ dying' = <<v>> \o dying
    BY <1>3 DEF del_reference, Live
  <2>2. v \notin Elements(dying)
    BY <2>1
  <2>3. /\ dying' \in Seq(Unit) /\ Injective(dying')
        /\ Elements(dying') = Elements(dying) \cup {v}
    BY <2>1, <2>2, SeqPush
  <2>4. {w \in Unit : ~collected[w] /\ collected'[w]} = {v}
    BY <2>1
  <2>5. ref_cnt' \in [Unit -> Nat] /\ ref_cnt'[v] = 0
    BY <1>3, <2>1
  <2>6. LiveInv'
    BY <2>1, <2>5
  <2> QED BY <2>1, <2>3, <2>4, <2>5, <2>6
<1> QED BY <1>1, <1>2, <1>3

LEMMA AddReferenceFacts ==
  ASSUME TypeOK, NEW v \in Value, add_reference(v)
  PROVE  /\ ref_cnt' \in [Unit -> Nat]
         /\ \A w \in Unit : ref_cnt'[w] = IF w = v /\ ~collected[w]
                                         THEN ref_cnt[w] + 1 ELSE ref_cnt[w]
<1>1. CASE Live(v)
  <2>1. /\ v \in Unit /\ ~collected[v] /\ ref_cnt[v] \in Nat
        /\ ref_cnt' = [ref_cnt EXCEPT ![v] = @ + 1]
    BY <1>1 DEF add_reference, Live, TypeOK
  <2> QED BY <2>1 DEF TypeOK
<1>2. CASE ~Live(v)
  BY <1>2 DEF add_reference, Live, TypeOK, Value
<1> QED BY <1>1, <1>2

(* gc_alloc takes a unit that is neither in use nor dying.                 *)
LEMMA GcAllocFacts ==
  ASSUME TypeOK, UnitInv, NEW t \in Type, gc_alloc(t)
  PROVE  /\ NewUnit \in Unit /\ collected[NewUnit] /\ NewUnit \notin Elements(dying)
         /\ NewUnit < gcSize' /\ gcSize' \in 0..GcMax /\ gcSize <= gcSize'
         /\ gcFree' \in Seq(Unit) /\ Injective(gcFree') /\ NewUnit \notin Elements(gcFree')
         /\ \A u \in Elements(gcFree') : u \in Elements(gcFree) \/ u \in gcSize..(gcSize' - 1)
<1> USE DEF TypeOK, UnitInv, DyingInv, GcFreeInv, UnusedInv
<1>1. CASE gcFree = <<>>
  <2>1. GcQueue = Chunk(gcSize, GcChunk)
    BY <1>1 DEF GcQueue
  <2>2. gcSize + GcChunk <= GcMax /\ gcSize' = gcSize + GcChunk /\ gcFree' = Tail(GcQueue)
    BY <1>1 DEF gc_alloc
  <2>3. /\ GcQueue \in Seq(Unit) /\ GcQueue # <<>> /\ Injective(GcQueue)
        /\ Elements(GcQueue) = gcSize..(gcSize' - 1)
    BY <2>1, <2>2, GcAssumption, SeqChunk DEF Unit
  <2>4. /\ NewUnit \in Unit /\ NewUnit \in gcSize..(gcSize' - 1)
        /\ gcFree' \in Seq(Unit) /\ Injective(gcFree')
        /\ Elements(gcFree') = gcSize..(gcSize' - 1) \ {NewUnit}
    BY <2>2, <2>3, SeqTail DEF NewUnit
  <2>5. gcSize \in Nat /\ gcSize' \in 0..GcMax
    BY <2>2, GcAssumption
  <2>6. NewUnit \notin Elements(dying)
    <3>1. ~(NewUnit < gcSize)
      BY <2>4, <2>5
    <3> QED BY <3>1
  <2>7. collected[NewUnit]
    BY <2>4, <2>5, Addresses
  <2>8. NewUnit < gcSize' /\ gcSize <= gcSize' /\ NewUnit \notin Elements(gcFree')
    BY <2>2, <2>4, <2>5, GcAssumption
  <2> QED BY <2>4, <2>5, <2>6, <2>7, <2>8
<1>2. CASE gcFree # <<>>
  <2>1. GcQueue = gcFree /\ gcSize' = gcSize /\ gcFree' = Tail(gcFree)
    BY <1>2 DEF gc_alloc, GcQueue
  <2>2. /\ NewUnit \in Unit /\ NewUnit \in Elements(gcFree)
        /\ gcFree' \in Seq(Unit) /\ Injective(gcFree')
        /\ Elements(gcFree') = Elements(gcFree) \ {NewUnit}
    BY <1>2, <2>1, SeqTail DEF NewUnit
  <2> QED BY <2>1, <2>2
<1> QED BY <1>1, <1>2

(* mem_alloc takes a cell that no field and no mem_free has.               *)
LEMMA MemAllocFacts ==
  ASSUME TypeOK, CellInv, NEW v \in Value, mem_alloc(v)
  PROVE  /\ NewCell \in Cell /\ Fresh(elems, NewCell)
         /\ \A f \in Unit \cup {NoAddr} : freeing[f] # NewCell
         /\ NewCell < memSize' /\ memSize' \in 0..MemMax /\ memSize <= memSize'
         /\ memFree' \in Seq(Cell) /\ Injective(memFree') /\ NewCell \notin Elements(memFree')
         /\ \A c \in Elements(memFree') : c \in Elements(memFree) \/ c \in memSize..(memSize' - 1)
         /\ Put(memory', memory, NewCell, v) /\ memory' \in [Cell -> Value]
<1> USE DEF TypeOK, CellInv, FieldCellInv, FreeingCellInv, FreeCellInv
<1>1. CASE memFree = <<>>
  <2>1. MemQueue = Chunk(memSize, MemChunk)
    BY <1>1 DEF MemQueue
  <2>2. memSize + MemChunk <= MemMax /\ memSize' = memSize + MemChunk /\ memFree' = Tail(MemQueue)
    BY <1>1 DEF mem_alloc
  <2>3. /\ MemQueue \in Seq(Cell) /\ MemQueue # <<>> /\ Injective(MemQueue)
        /\ Elements(MemQueue) = memSize..(memSize' - 1)
    BY <2>1, <2>2, MemAssumption, SeqChunk DEF Cell
  <2>4. /\ NewCell \in Cell /\ NewCell \in memSize..(memSize' - 1)
        /\ memFree' \in Seq(Cell) /\ Injective(memFree')
        /\ Elements(memFree') = memSize..(memSize' - 1) \ {NewCell}
    BY <2>2, <2>3, SeqTail DEF NewCell
  <2>5. memSize \in Nat /\ memSize' \in 0..MemMax
    BY <2>2, MemAssumption
  <2>6. Fresh(elems, NewCell)
    <3>1. ~(NewCell < memSize) /\ NewCell # NoCell
      BY <2>4, <2>5, Addresses
    <3> QED BY <3>1 DEF Fresh
  <2>7. \A f \in Unit \cup {NoAddr} : freeing[f] # NewCell
    <3>1. ~(NewCell < memSize) /\ NewCell # NoCell
      BY <2>4, <2>5, Addresses
    <3> QED BY <3>1
  <2>8. Put(memory', memory, NewCell, v) /\ memory' \in [Cell -> Value]
    BY DEF mem_alloc, Put, Value
  <2>9. NewCell < memSize' /\ memSize <= memSize' /\ NewCell \notin Elements(memFree')
    BY <2>2, <2>4, <2>5, MemAssumption
  <2> QED BY <2>4, <2>5, <2>6, <2>7, <2>8, <2>9
<1>2. CASE memFree # <<>>
  <2>1. MemQueue = memFree /\ memSize' = memSize /\ memFree' = Tail(memFree)
    BY <1>2 DEF mem_alloc, MemQueue
  <2>2. /\ NewCell \in Cell /\ NewCell \in Elements(memFree)
        /\ memFree' \in Seq(Cell) /\ Injective(memFree')
        /\ Elements(memFree') = Elements(memFree) \ {NewCell}
    BY <1>2, <2>1, SeqTail DEF NewCell
  <2>3. NewCell # NoCell
    BY <2>2, Addresses
  <2>4. Put(memory', memory, NewCell, v) /\ memory' \in [Cell -> Value]
    BY DEF mem_alloc, Put, Value
  <2> QED BY <2>1, <2>2, <2>3, <2>4 DEF Fresh
<1> QED BY <1>1, <1>2

(* HandOver takes one reference from the caller.                           *)
LEMMA HandOverFacts ==
  ASSUME TypeOK, NEW v \in Value, Owns(v), HandOver(v)
  PROVE  /\ held' \in [Unit -> Nat]
         /\ \A w \in Unit : held'[w] = held[w] - One(v, w)
<1> USE DEF TypeOK, Value, Owns, HandOver, One
<1>1. CASE v = NoAddr
  BY <1>1, Addresses
<1>2. CASE v # NoAddr
  <2>1. v \in Unit /\ held[v] > 0 /\ held' = [held EXCEPT ![v] = @ - 1]
    BY <1>2
  <2>2. held[v] \in Nat
    BY <2>1
  <2> QED BY <2>1, <2>2
<1> QED BY <1>1, <1>2

(* The first half of mem_free: the cell moves from the field to the frame. *)
LEMMA MemFreeFacts ==
  ASSUME TypeOK, NEW p \in Field, elems[p] # NoCell, NEW f \in Unit \cup {NoAddr},
         mem_free(p, f)
  PROVE  /\ elems[p] \in Cell /\ memory[elems[p]] \in Value
         /\ del_reference(memory[elems[p]])
         /\ elems' = [elems EXCEPT ![p] = NoCell]
         /\ elems' \in [Field -> Cells0]
         /\ freeing' = [freeing EXCEPT ![f] = elems[p]]
         /\ freeing' \in [Unit \cup {NoAddr} -> Cells0]
BY DEF TypeOK, mem_free, Cells0, Value

(* The second half: the cell moves from the frame to the queue.            *)
LEMMA MemFreeReturnFacts ==
  ASSUME TypeOK, CellInv, NEW f \in Unit \cup {NoAddr}, freeing[f] # NoCell,
         mem_free_return(f)
  PROVE  /\ freeing[f] \in Cell
         /\ memFree' \in Seq(Cell) /\ Injective(memFree')
         /\ Elements(memFree') = Elements(memFree) \cup {freeing[f]}
         /\ freeing' = [freeing EXCEPT ![f] = NoCell]
         /\ freeing' \in [Unit \cup {NoAddr} -> Cells0]
<1>1. freeing[f] \in Cell /\ memFree \in Seq(Cell)
  BY DEF TypeOK
<1>2. freeing[f] \notin Elements(memFree) /\ Injective(memFree)
  BY DEF CellInv, FreeingCellInv, FreeCellInv
<1>3. memFree' = Append(memFree, freeing[f]) /\ freeing' = [freeing EXCEPT ![f] = NoCell]
  BY DEF mem_free_return
<1> QED BY <1>1, <1>2, <1>3, SeqAppend DEF TypeOK, Cells0

(* A value has as many holders as its count says; one that something holds *)
(* has not been given back.                                                *)
LEMMA HoldersType ==
  ASSUME TypeOK, NEW v \in Unit
  PROVE  /\ Cardinality(CellRefs(v)) \in Nat /\ Cardinality(DirectRefs(v)) \in Nat
         /\ held[v] \in Nat /\ lost[v] \in Nat /\ Holders(v) \in Nat
<1>1. Cardinality(CellRefs(v)) \in Nat
  BY RefsFinite DEF CellRefs
<1>2. Cardinality(DirectRefs(v)) \in Nat
  BY FieldsFinite, FS_Subset, FS_CardinalityType DEF DirectRefs, SlotsOf
<1>3. held[v] \in Nat /\ lost[v] \in Nat
  BY DEF TypeOK
<1> QED BY <1>1, <1>2, <1>3 DEF Holders

LEMMA ReferredIsLive ==
  ASSUME TypeOK, LiveInv, CountExact, ~Clearing, NEW v \in Unit,
         \/ held[v] > 0 \/ lost[v] > 0
         \/ \E p \in Field : elems[p] # NoCell /\ memory[elems[p]] = v
         \/ \E q \in Direct : direct[q] = v
  PROVE  Live(v)
<1>1. Holders(v) > 0
  <2>1. CASE held[v] > 0 \/ lost[v] > 0
    BY <2>1, HoldersType DEF Holders
  <2>2. CASE \E p \in Field : elems[p] # NoCell /\ memory[elems[p]] = v
    <3>1. CellRefs(v) # {}
      BY <2>2 DEF CellRefs, RefsOf
    <3>2. Cardinality(CellRefs(v)) # 0
      BY <3>1, RefsFinite, FS_EmptySet DEF CellRefs
    <3> QED BY <3>2, HoldersType DEF Holders
  <2>3. CASE \E q \in Direct : direct[q] = v
    <3>1. DirectRefs(v) # {} /\ IsFiniteSet(DirectRefs(v))
      BY <2>3, FieldsFinite, FS_Subset DEF DirectRefs, SlotsOf
    <3>2. Cardinality(DirectRefs(v)) # 0
      BY <3>1, FS_EmptySet
    <3> QED BY <3>2, HoldersType DEF Holders
  <2> QED BY <2>1, <2>2, <2>3
<1>2. ref_cnt[v] = Holders(v) /\ ref_cnt[v] # 0
  BY <1>1, HoldersType DEF CountExact
<1> QED BY <1>2 DEF LiveInv, Live

LEMMA PinnedIsLive ==
  ASSUME TypeOK, LiveInv, CountExact, ~Clearing, NEW v \in Unit, PinnedBy(held, v)
  PROVE  Live(v)
<1>1. CASE held[v] > 0
  BY <1>1, ReferredIsLive
<1>2. ASSUME NEW u \in Unit, Refers(u, v) PROVE Live(v)
  <2>1. CASE \E l \in Label : elems[<<u, l>>] # NoCell /\ memory[elems[<<u, l>>]] = v
    <3>1. \A l \in Label : <<u, l>> \in Field
      BY DEF Field
    <3> QED BY <2>1, <3>1, ReferredIsLive
  <2>2. CASE \E s \in Slot : direct[<<u, s>>] = v
    <3>1. \A s \in Slot : <<u, s>> \in Direct
      BY DEF Direct
    <3> QED BY <2>2, <3>1, ReferredIsLive
  <2> QED BY <1>2, <2>1, <2>2 DEF Refers
<1> QED BY <1>1, <1>2 DEF PinnedBy

-----------------------------------------------------------------------------
(* Type correctness.                                                       *)

LEMMA TypeDestroy ==
  ASSUME IInv, Destroy
  PROVE  TypeOK'
<1> USE DEF IInv
<1>0. dying # <<>> /\ Head(dying) \in Unit /\ Tail(dying) \in Seq(Unit)
  <2>1. dying # <<>>
    BY DEF Destroy, DestroyField, DestroyCell, DestroyDirect, DestroyReturn
  <2> QED BY <2>1, SeqTail DEF TypeOK, UnitInv, DyingInv
<1>1. CASE DestroyField
  <2>1. PICK l \in Label : /\ elems[<<Head(dying), l>>] # NoCell
                           /\ mem_free(<<Head(dying), l>>, Head(dying))
    BY <1>1 DEF DestroyField
  <2>2. <<Head(dying), l>> \in Field
    BY <1>0 DEF Field
  <2>3. /\ elems' \in [Field -> Cells0] /\ freeing' \in [Unit \cup {NoAddr} -> Cells0]
        /\ ref_cnt' \in [Unit -> Nat] /\ collected' \in [Unit -> BOOLEAN]
        /\ dying' \in Seq(Unit)
    BY <1>0, <2>1, <2>2, MemFreeFacts, DelReferenceFacts
  <2> QED BY <1>1, <2>3 DEF DestroyField, TypeOK, Cells0, queues, objects, caller
<1>2. CASE DestroyCell
  <2>1. memFree' \in Seq(Cell) /\ freeing' \in [Unit \cup {NoAddr} -> Cells0]
    BY <1>0, <1>2, MemFreeReturnFacts DEF DestroyCell
  <2> QED BY <1>2, <2>1 DEF DestroyCell, TypeOK, Cells0, objects, caller
<1>3. CASE DestroyDirect
  <2>1. PICK s \in Slot : /\ direct' = [direct EXCEPT ![<<Head(dying), s>>] = NoAddr]
                          /\ del_reference(direct[<<Head(dying), s>>])
    BY <1>3 DEF DestroyDirect
  <2>2. direct[<<Head(dying), s>>] \in Value
    BY <1>0 DEF TypeOK, Direct, Value
  <2>3. /\ ref_cnt' \in [Unit -> Nat] /\ collected' \in [Unit -> BOOLEAN]
        /\ dying' \in Seq(Unit)
    BY <2>1, <2>2, DelReferenceFacts
  <2> QED BY <1>3, <2>1, <2>3 DEF DestroyDirect, TypeOK, queues, caller
<1>4. CASE DestroyReturn
  <2>1. gcFree' \in Seq(Unit)
    BY <1>0, <1>4 DEF DestroyReturn, TypeOK
  <2>2. size' \in [Unit -> 0..(MaxIndex + 1)]
    <3>1. 0 \in 0..(MaxIndex + 1)
      BY LabelAssumption
    <3> QED BY <1>4, <3>1 DEF DestroyReturn, TypeOK
  <2>3. type' \in [Unit -> Type]
    BY <1>4 DEF DestroyReturn, TypeOK, Type
  <2> QED BY <1>0, <1>4, <2>1, <2>2, <2>3 DEF DestroyReturn, TypeOK, caller
<1> QED BY <1>1, <1>2, <1>3, <1>4 DEF Destroy

(* Operations on containers that free a cell of one of their fields.        *)
LEMMA TypeFree ==
  ASSUME IInv, NEW p \in Field, elems[p] # NoCell, mem_free(p, NoAddr)
  PROVE  /\ elems' \in [Field -> Cells0] /\ freeing' \in [Unit \cup {NoAddr} -> Cells0]
         /\ ref_cnt' \in [Unit -> Nat] /\ collected' \in [Unit -> BOOLEAN]
         /\ dying' \in Seq(Unit)
BY MemFreeFacts, DelReferenceFacts DEF IInv

LEMMA TypeContinue ==
  ASSUME IInv, Continue
  PROVE  TypeOK'
<1> USE DEF IInv
<1>1. CASE Destroy
  BY <1>1, TypeDestroy
<1>2. CASE MemFreeReturn
  <2>1. memFree' \in Seq(Cell) /\ freeing' \in [Unit \cup {NoAddr} -> Cells0]
    BY <1>2, MemFreeReturnFacts DEF MemFreeReturn
  <2>2. op' \in [kind : OpKind, a : -1..GcMax, src : -1..(GcMax - 1), fn : -1..(GcMax - 1)]
    BY <1>2, GcAssumption DEF MemFreeReturn, TypeOK, NoOp, Operate, OpKind, NoAddr
  <2> QED BY <1>2, <2>1, <2>2 DEF MemFreeReturn, TypeOK, Cells0, objects, caller
<1>3. CASE DelScopeField
  <2>1. op.a \in Unit
    BY <1>3 DEF DelScopeField, OpInv
  <2>2. PICK l \in ScopeLabel(op.a) : /\ elems[<<op.a, l>>] # NoCell
                                      /\ mem_free(<<op.a, l>>, NoAddr)
    BY <1>3 DEF DelScopeField
  <2>3. <<op.a, l>> \in Field
    <3>1. size[op.a] \in 0..(MaxIndex + 1) /\ size[op.a] > 0
      BY <1>3, <2>1 DEF DelScopeField, OpInv, TypeOK
    <3> QED BY <2>1, <3>1, LabelAssumption DEF ScopeLabel, Field, Label
  <2> QED BY <1>3, <2>2, <2>3, TypeFree
          DEF DelScopeField, TypeOK, Cells0, queues, objects, caller
<1>4. CASE DelScopeReturn
  <2>1. op.a \in Unit /\ size[op.a] \in 0..(MaxIndex + 1) /\ size[op.a] > 0
    BY <1>4 DEF DelScopeReturn, OpInv, TypeOK
  <2>2. size[op.a] - 1 \in 0..(MaxIndex + 1)
    BY <2>1, LabelAssumption
  <2>3. size' \in [Unit -> 0..(MaxIndex + 1)]
    BY <1>4, <2>2 DEF DelScopeReturn, TypeOK
  <2>4. op' \in [kind : OpKind, a : -1..GcMax, src : -1..(GcMax - 1), fn : -1..(GcMax - 1)]
    BY <1>4, GcAssumption DEF DelScopeReturn, NoOp, Operate, OpKind, NoAddr
  <2> QED BY <1>4, <2>3, <2>4 DEF DelScopeReturn, TypeOK, queues, caller
<1>5. CASE SetClosureAlloc
  <2>1. op.src \in Unit
    BY <1>5 DEF SetClosureAlloc, OpInv
  <2>2. "closure" \in Type
    BY DEF Type
  <2>3. NewUnit \in Unit /\ gcSize' \in 0..GcMax /\ gcFree' \in Seq(Unit)
    BY <1>5, <2>2, GcAllocFacts DEF SetClosureAlloc
  <2>4. /\ collected' \in [Unit -> BOOLEAN] /\ ref_cnt' \in [Unit -> Nat]
        /\ type' \in [Unit -> Type]
    BY <1>5, <2>2, <2>3 DEF SetClosureAlloc, gc_alloc, TypeOK
  <2>5. size' \in [Unit -> 0..(MaxIndex + 1)] /\ held' \in [Unit -> Nat]
    BY <1>5, <2>1, <2>3 DEF SetClosureAlloc, TypeOK
  <2>6. op' \in [kind : OpKind, a : -1..GcMax, src : -1..(GcMax - 1), fn : -1..(GcMax - 1)]
    <3>1. NewUnit \in -1..GcMax
      BY <2>3, GcAssumption DEF Unit
    <3> QED BY <1>5, <3>1 DEF SetClosureAlloc, TypeOK, OpKind
  <2> QED BY <1>5, <2>3, <2>4, <2>5, <2>6 DEF SetClosureAlloc, TypeOK
<1>6. CASE SetClosureCopy
  <2>1. op.src \in Unit
    BY <1>6 DEF SetClosureCopy, OpInv
  <2>2. PICK l \in Fields(op.src) :
             /\ mem_alloc(memory[elems[<<op.src, l>>]])
             /\ add_reference(memory[elems[<<op.src, l>>]])
             /\ elems' = [elems EXCEPT ![<<op.a, l>>] = NewCell]
    BY <1>6 DEF SetClosureCopy
  <2>3. memory[elems[<<op.src, l>>]] \in Value
    BY <2>1 DEF Fields, Field, TypeOK, Value
  <2>4. /\ NewCell \in Cell /\ memSize' \in 0..MemMax /\ memFree' \in Seq(Cell)
        /\ memory' \in [Cell -> Value]
    BY <2>2, <2>3, MemAllocFacts
  <2>5. ref_cnt' \in [Unit -> Nat]
    BY <2>2, <2>3, AddReferenceFacts
  <2>6. elems' \in [Field -> Cells0]
    BY <2>2, <2>4 DEF TypeOK, Cells0
  <2> QED BY <1>6, <2>4, <2>5, <2>6 DEF SetClosureCopy, TypeOK, Value, Cells0, objects, caller
<1>7. CASE SetClosureReturn
  <2>1. op.fn \in Unit /\ op.a \in Unit /\ held[op.a] > 0
    BY <1>7 DEF SetClosureReturn, OpInv
  <2>2. held' \in [Unit -> Nat]
    BY <1>7, <2>1, HandOverFacts DEF SetClosureReturn, Owns, Value
  <2>3. direct' \in [Direct -> Value]
    BY <1>7, <2>1 DEF SetClosureReturn, TypeOK, Value
  <2>4. op' \in [kind : OpKind, a : -1..GcMax, src : -1..(GcMax - 1), fn : -1..(GcMax - 1)]
    BY <1>7, GcAssumption DEF SetClosureReturn, NoOp, Operate, OpKind, NoAddr
  <2> QED BY <1>7, <2>2, <2>3, <2>4 DEF SetClosureReturn, TypeOK, Value, queues
<1>8. CASE ClearStep
  <2>1. op.a \in 0..gcSize /\ op.a < gcSize /\ gcSize \in 0..GcMax
    BY <1>8 DEF ClearStep, OpInv, TypeOK
  <2>2. op.a \in Unit /\ op.a + 1 \in -1..GcMax
    BY <2>1, GcAssumption DEF Unit
  <2>3. op' \in [kind : OpKind, a : -1..GcMax, src : -1..(GcMax - 1), fn : -1..(GcMax - 1)]
    BY <1>8, <2>2 DEF ClearStep, TypeOK
  <2>4. /\ ref_cnt' \in [Unit -> Nat] /\ collected' \in [Unit -> BOOLEAN]
        /\ dying' \in Seq(Unit)
    <3>1. CASE ref_cnt[op.a] # 0
      <4>1. /\ ref_cnt' = [ref_cnt EXCEPT ![op.a] = 0]
            /\ collected' = [collected EXCEPT ![op.a] = TRUE]
            /\ dying' = <<op.a>>
        BY <1>8, <3>1 DEF ClearStep
      <4> QED BY <2>2, <4>1 DEF TypeOK
    <3>2. CASE ref_cnt[op.a] = 0
      BY <1>8, <3>2 DEF ClearStep, TypeOK
    <3> QED BY <3>1, <3>2
  <2> QED BY <1>8, <2>3, <2>4 DEF ClearStep, TypeOK, queues, objects, caller
<1>9. CASE ClearEnd
  <2>1. op' \in [kind : OpKind, a : -1..GcMax, src : -1..(GcMax - 1), fn : -1..(GcMax - 1)]
    BY <1>9, GcAssumption DEF ClearEnd, NoOp, Operate, OpKind, NoAddr
  <2>2. gcSize' \in 0..GcMax /\ memSize' \in 0..MemMax
    BY <1>9, GcAssumption, MemAssumption DEF ClearEnd
  <2>3. memory' \in [Cell -> Value] /\ held' \in [Unit -> Nat] /\ lost' \in [Unit -> Nat]
    BY <1>9 DEF ClearEnd, Value
  <2> QED BY <1>9, <2>1, <2>2, <2>3 DEF ClearEnd, TypeOK, Value, objects
<1> QED BY <1>1, <1>2, <1>3, <1>4, <1>5, <1>6, <1>7, <1>8, <1>9 DEF Continue

LEMMA TypeCall ==
  ASSUME IInv, Call
  PROVE  TypeOK'
<1> USE DEF IInv
<1> DEFINE Ops == [kind : OpKind, a : -1..GcMax, src : -1..(GcMax - 1), fn : -1..(GcMax - 1)]
<1>0. \A a \in Unit : a \in -1..GcMax /\ a \in -1..(GcMax - 1)
  BY GcAssumption DEF Unit
<1>1. ASSUME NEW t \in Kind, GcAlloc(t) PROVE TypeOK'
  <2>1. t \in Type
    BY KindAssumption
  <2>2. NewUnit \in Unit /\ gcSize' \in 0..GcMax /\ gcFree' \in Seq(Unit)
    BY <1>1, <2>1, GcAllocFacts DEF GcAlloc
  <2>3. /\ collected' \in [Unit -> BOOLEAN] /\ ref_cnt' \in [Unit -> Nat]
        /\ type' \in [Unit -> Type]
    BY <1>1, <2>1, <2>2 DEF GcAlloc, gc_alloc, TypeOK
  <2>4. held' \in [Unit -> Nat]
    BY <1>1, <2>2 DEF GcAlloc, TypeOK
  <2>5. size' \in [Unit -> 0..(MaxIndex + 1)]
    <3>1. 0 \in 0..(MaxIndex + 1) /\ 1 \in 0..(MaxIndex + 1)
      BY LabelAssumption
    <3> QED BY <1>1, <2>2, <3>1 DEF GcAlloc, TypeOK
  <2> QED BY <1>1, <2>2, <2>3, <2>4, <2>5 DEF GcAlloc, TypeOK
<1>2. ASSUME NEW v \in Unit, AddReference(v) PROVE TypeOK'
  <2>1. ref_cnt' \in [Unit -> Nat]
    BY <1>2, AddReferenceFacts DEF AddReference, Value
  <2>2. held' \in [Unit -> Nat]
    <3>1. held[v] + 1 \in Nat
      BY DEF TypeOK
    <3> QED BY <1>2, <3>1 DEF AddReference, TypeOK
  <2> QED BY <1>2, <2>1, <2>2 DEF AddReference, TypeOK, queues, objects
<1>3. ASSUME NEW v \in Unit, DelReference(v) PROVE TypeOK'
  <2>1. /\ ref_cnt' \in [Unit -> Nat] /\ collected' \in [Unit -> BOOLEAN]
        /\ dying' \in Seq(Unit)
    BY <1>3, DelReferenceFacts DEF DelReference, Value
  <2>2. held' \in [Unit -> Nat]
    <3>1. held[v] - 1 \in Nat
      BY <1>3 DEF DelReference, TypeOK
    <3> QED BY <1>3, <3>1 DEF DelReference, TypeOK
  <2> QED BY <1>3, <2>1, <2>2 DEF DelReference, TypeOK, queues, objects
<1>4. ASSUME NEW a \in Unit, NEW v \in Value, VectorAddElem(a, v) PROVE TypeOK'
  <2>1. /\ NewCell \in Cell /\ memSize' \in 0..MemMax /\ memFree' \in Seq(Cell)
        /\ memory' \in [Cell -> Value]
    BY <1>4, MemAllocFacts DEF VectorAddElem
  <2>2. held' \in [Unit -> Nat]
    BY <1>4, HandOverFacts DEF VectorAddElem
  <2>3. size' \in [Unit -> 0..(MaxIndex + 1)]
    <3>1. size[a] + 1 \in 0..(MaxIndex + 1)
      BY <1>4, LabelAssumption DEF VectorAddElem, TypeOK
    <3> QED BY <1>4, <3>1 DEF VectorAddElem, TypeOK
  <2> QED BY <1>4, <2>1, <2>2, <2>3 DEF VectorAddElem, TypeOK, Value
<1>5. ASSUME NEW a \in Unit, VectorDelElem(a) PROVE TypeOK'
  <2>1. /\ size[a] \in 1..(MaxIndex + 1)
        /\ elems[<<a, <<size[a] - 1, Elem>>>>] \in Cell
        /\ memory[elems[<<a, <<size[a] - 1, Elem>>>>]] \in Value
    <3>1. size[a] \in 1..(MaxIndex + 1)
      BY <1>5, LabelAssumption DEF VectorDelElem, TypeOK
    <3>2. size[a] - 1 \in 0..MaxIndex /\ size[a] - 1 < size[a]
      BY <3>1, LabelAssumption
    <3>3. Live(a) /\ type[a] = "vector"
      <4>1. ~Clearing /\ PinnedBy(held, a)
        BY <1>5 DEF VectorDelElem, Pinned, Idle, NoOp, Operate, Clearing
      <4> QED BY <1>5, <4>1, PinnedIsLive DEF VectorDelElem, UnitInv
    <3>4. elems[<<a, <<size[a] - 1, Elem>>>>] # NoCell
      BY <3>2, <3>3 DEF VectorInv
    <3>5. <<a, <<size[a] - 1, Elem>>>> \in Field
      BY <3>2 DEF Field, Label
    <3> QED BY <3>1, <3>4, <3>5 DEF TypeOK, Value
  <2>2. elems' \in [Field -> Cells0]
    BY <1>5 DEF VectorDelElem, TypeOK, Cells0
  <2>3. memFree' \in Seq(Cell)
    BY <1>5, <2>1 DEF VectorDelElem, TypeOK
  <2>4. held' \in [Unit -> Nat]
    <3> DEFINE v == memory[elems[<<a, <<size[a] - 1, Elem>>>>]]
    <3>1. \A w \in Unit : held[w] + 1 \in Nat
      BY DEF TypeOK
    <3>2. held' = IF Live(v) THEN [held EXCEPT ![v] = @ + 1] ELSE held
      BY <1>5 DEF VectorDelElem
    <3> HIDE DEF v
    <3>3. CASE Live(v)
      <4>1. v \in Unit /\ held[v] + 1 \in Nat /\ held' = [held EXCEPT ![v] = @ + 1]
        BY <3>1, <3>2, <3>3 DEF Live
      <4> QED BY <4>1 DEF TypeOK
    <3>4. CASE ~Live(v)
      BY <3>2, <3>4 DEF TypeOK
    <3> QED BY <3>3, <3>4
  <2>5. size' \in [Unit -> 0..(MaxIndex + 1)]
    <3>1. size[a] - 1 \in 0..(MaxIndex + 1)
      BY <2>1, LabelAssumption
    <3> QED BY <1>5, <3>1 DEF VectorDelElem, TypeOK
  <2> QED BY <1>5, <2>2, <2>3, <2>4, <2>5 DEF VectorDelElem, TypeOK, Cells0
<1>6. ASSUME NEW a \in Unit, ClosureAddScope(a) PROVE TypeOK'
  <2>1. size[a] + 1 \in 0..(MaxIndex + 1)
    BY <1>6, LabelAssumption DEF ClosureAddScope, TypeOK
  <2>2. size' \in [Unit -> 0..(MaxIndex + 1)]
    BY <1>6, <2>1 DEF ClosureAddScope, TypeOK
  <2> QED BY <1>6, <2>2 DEF ClosureAddScope, TypeOK, queues, caller
<1>7. ASSUME NEW a \in Unit, ClosureDelScope(a) PROVE TypeOK'
  <2>1. op' \in Ops
    BY <1>0, <1>7, GcAssumption DEF ClosureDelScope, Operate, NoAddr, OpKind
  <2> QED BY <1>7, <2>1 DEF ClosureDelScope, TypeOK, queues, objects, caller
<1>8. ASSUME NEW a \in Unit, NEW k \in Name, HashDelElem(a, k) PROVE TypeOK'
  <2>1. <<a, <<0, k>>>> \in Field
    BY LabelAssumption DEF Field, Label
  <2>2. op' \in Ops
    BY <1>0, <1>8, GcAssumption DEF HashDelElem, Operate, NoAddr, OpKind
  <2> QED BY <1>8, <2>1, <2>2, TypeFree
          DEF HashDelElem, TypeOK, Cells0, queues, objects, caller
<1>9. ASSUME NEW a \in Unit, NEW k \in Name, NEW v \in Value, HashAddElem(a, k, v)
      PROVE  TypeOK'
  <2>1. /\ NewCell \in Cell /\ memSize' \in 0..MemMax /\ memFree' \in Seq(Cell)
        /\ memory' \in [Cell -> Value]
    BY <1>9, MemAllocFacts DEF HashAddElem
  <2>2. held' \in [Unit -> Nat]
    BY <1>9, HandOverFacts DEF HashAddElem
  <2> QED BY <1>9, <2>1, <2>2 DEF HashAddElem, TypeOK, Value, objects
<1>10. ASSUME NEW a \in Unit, NEW k \in Name, NEW v \in Value, HashAddElemAgain(a, k, v)
       PROVE  TypeOK'
  <2>1. held' \in [Unit -> Nat]
    BY <1>10, HandOverFacts DEF HashAddElemAgain
  <2>2. lost' \in [Unit -> Nat]
    <3>1. v \in Unit => lost[v] + 1 \in Nat
      BY DEF TypeOK
    <3> QED BY <1>10, <3>1 DEF HashAddElemAgain, TypeOK
  <2> QED BY <1>10, <2>1, <2>2 DEF HashAddElemAgain, TypeOK, queues, objects
<1>11. ASSUME NEW a \in Unit, NEW x \in Name, NEW v \in Value, ClosureAddNewValue(a, x, v)
       PROVE  TypeOK'
  <2> DEFINE p == <<a, <<size[a] - 1, x>>>>
  <2>1. /\ NewCell \in Cell /\ memSize' \in 0..MemMax /\ memFree' \in Seq(Cell)
        /\ memory' \in [Cell -> Value]
    BY <1>11, MemAllocFacts DEF ClosureAddNewValue
  <2>2. held' \in [Unit -> Nat]
    BY <1>11, HandOverFacts DEF ClosureAddNewValue
  <2>3. p \in Field
    <3>1. size[a] - 1 \in 0..MaxIndex
      BY <1>11, LabelAssumption DEF ClosureAddNewValue, TypeOK
    <3> QED BY <3>1 DEF Field, Label
  <2>4. elems' \in [Field -> Cells0]
    BY <1>11, <2>1 DEF ClosureAddNewValue, TypeOK, Cells0
  <2>5. CASE elems[p] = NoCell
    BY <1>11, <2>1, <2>2, <2>4, <2>5 DEF ClosureAddNewValue, TypeOK, Value, Cells0, objects
  <2>6. CASE elems[p] # NoCell
    <3>1. /\ freeing' = [freeing EXCEPT ![NoAddr] = elems[p]]
          /\ del_reference(memory[elems[p]])
          /\ op' = Operate("mem_free", a)
      BY <1>11, <2>6 DEF ClosureAddNewValue
    <3>2. elems[p] \in Cell /\ memory[elems[p]] \in Value
      BY <2>3, <2>6 DEF TypeOK, Value
    <3>3. /\ ref_cnt' \in [Unit -> Nat] /\ collected' \in [Unit -> BOOLEAN]
          /\ dying' \in Seq(Unit)
      BY <3>1, <3>2, DelReferenceFacts
    <3>4. op' \in Ops
      BY <1>0, <3>1, GcAssumption DEF Operate, NoAddr, OpKind
    <3>5. freeing' \in [Unit \cup {NoAddr} -> Cells0]
      BY <3>1, <3>2 DEF TypeOK, Cells0
    <3> QED BY <1>11, <2>1, <2>2, <2>4, <3>3, <3>4, <3>5
            DEF ClosureAddNewValue, TypeOK, Value, Cells0, objects
  <2> QED BY <2>5, <2>6
<1>12. ASSUME NEW p \in Field, NEW v \in Value, MemChange(p, v) PROVE TypeOK'
  <2>1. memory[elems[p]] \in Value
    BY <1>12 DEF MemChange, TypeOK, Value
  <2>2. /\ ref_cnt' \in [Unit -> Nat] /\ collected' \in [Unit -> BOOLEAN]
        /\ dying' \in Seq(Unit)
    BY <1>12, <2>1, DelReferenceFacts DEF MemChange
  <2>3. held' \in [Unit -> Nat]
    BY <1>12, HandOverFacts DEF MemChange
  <2>4. memory' \in [Cell -> Value]
    BY <1>12 DEF MemChange, TypeOK, Value
  <2> QED BY <1>12, <2>2, <2>3, <2>4 DEF MemChange, TypeOK, Value, queues, objects
<1>13. ASSUME NEW f \in Unit, NEW s \in Slot, NEW v \in Value, FunctionAddPara(f, s, v)
       PROVE  TypeOK'
  <2>1. held' \in [Unit -> Nat]
    BY <1>13, HandOverFacts DEF FunctionAddPara
  <2>2. direct' \in [Direct -> Value]
    BY <1>13 DEF FunctionAddPara, TypeOK, Value
  <2> QED BY <1>13, <2>1, <2>2 DEF FunctionAddPara, TypeOK, Value, queues
<1>14. ASSUME NEW f \in Unit, NEW src \in Unit, FunctionSetClosure(f, src) PROVE TypeOK'
  <2>1. direct[<<f, 0>>] \in Value
    BY BoundAssumption DEF Direct, Slot, TypeOK, Value
  <2>2. /\ ref_cnt' \in [Unit -> Nat] /\ collected' \in [Unit -> BOOLEAN]
        /\ dying' \in Seq(Unit)
    BY <1>14, <2>1, DelReferenceFacts DEF FunctionSetClosure
  <2>3. direct' \in [Direct -> Value]
    BY <1>14 DEF FunctionSetClosure, TypeOK, Value
  <2>4. op' \in Ops
    BY <1>0, <1>14, GcAssumption DEF FunctionSetClosure, NoAddr, OpKind
  <2> QED BY <1>14, <2>2, <2>3, <2>4 DEF FunctionSetClosure, TypeOK, Value, queues, caller
<1>15. CASE ClearBegin
  <2>1. op' \in Ops
    BY <1>15, GcAssumption DEF ClearBegin, Operate, NoAddr, OpKind
  <2> QED BY <1>15, <2>1 DEF ClearBegin, TypeOK, queues, objects, caller
<1> QED
  BY <1>1, <1>2, <1>3, <1>4, <1>5, <1>6, <1>7, <1>8, <1>9, <1>10, <1>11, <1>12, <1>13,
     <1>14, <1>15 DEF Call

LEMMA TypeStep ==
  ASSUME IInv, [Next]_vars
  PROVE  TypeOK'
<1>1. CASE UNCHANGED vars
  BY <1>1 DEF IInv, TypeOK, vars
<1> QED BY <1>1, TypeContinue, TypeCall DEF Next

-----------------------------------------------------------------------------
(* Units: in use, dying or free.                                           *)

(* A unit that is neither in use nor dying is not filled.                  *)
DeadKept ==
  \A u \in Unit : collected[u] /\ u \notin Elements(dying) /\ u \notin Elements(dying')
                    /\ Emptied(u) => Emptied(u)'

LEMMA UnitDelReference ==
  ASSUME IInv, NEW v \in Value, del_reference(v), UNCHANGED <<gcSize, gcFree>>, DeadKept
  PROVE  UnitInv'
<1> USE DEF IInv
<1>1. /\ \A w \in Unit : collected[w] => collected'[w]
      /\ LiveInv' /\ dying' \in Seq(Unit) /\ Injective(dying')
      /\ Elements(dying') = Elements(dying) \cup {w \in Unit : ~collected[w] /\ collected'[w]}
  BY DelReferenceFacts
<1>2. Elements(dying) \subseteq Unit /\ Elements(gcFree) \subseteq Unit
  BY ElementsType DEF TypeOK
<1>3. DyingInv'
  <2>1. \A u \in Elements(dying') : collected'[u] /\ u < gcSize
    <3>1. \A u \in Unit : ~collected[u] => u < gcSize
      BY Addresses DEF UnitInv, UnusedInv, TypeOK
    <3> QED BY <1>1, <1>2, <3>1 DEF UnitInv, DyingInv
  <2> QED BY <1>1, <2>1 DEF DyingInv
<1>4. GcFreeInv'
  BY <1>1, <1>2 DEF UnitInv, GcFreeInv
<1>5. UnusedInv'
  BY <1>1 DEF UnitInv, UnusedInv
<1>6. DeadInv'
  <2> SUFFICES ASSUME NEW u \in Unit, collected'[u], u \notin Elements(dying')
               PROVE  Emptied(u)'
    BY DEF DeadInv
  <2>1. collected[u] /\ u \notin Elements(dying)
    BY <1>1
  <2> QED BY <2>1 DEF DeadKept, UnitInv, DeadInv
<1> QED BY <1>1, <1>3, <1>4, <1>5, <1>6 DEF UnitInv

LEMMA UnitKept ==
  ASSUME IInv, UNCHANGED <<gcSize, gcFree, collected, dying>>, LiveInv', DeadKept
  PROVE  UnitInv'
<1> USE DEF IInv, UnitInv
<1>1. DyingInv'
  BY DEF DyingInv
<1>2. GcFreeInv'
  BY DEF GcFreeInv
<1>3. UnusedInv'
  BY DEF UnusedInv
<1>4. DeadInv'
  BY DEF DeadInv, DeadKept
<1> QED BY <1>1, <1>2, <1>3, <1>4

(* The counts do not change, and what changes belongs to a value in use.   *)
LEMMA UnitLive ==
  ASSUME IInv, UNCHANGED <<gcSize, gcFree, collected, dying, ref_cnt>>,
         \A u \in Unit : freeing'[u] = freeing[u],
         NEW a \in Unit, Live(a),
         \A p \in Field : p[1] # a => elems'[p] = elems[p],
         \A q \in Direct : q[1] # a => direct'[q] = direct[q]
  PROVE  UnitInv'
<1>1. LiveInv'
  BY DEF IInv, UnitInv, LiveInv
<1>2. DeadKept
  <2> SUFFICES ASSUME NEW u \in Unit, collected[u], Emptied(u) PROVE Emptied(u)'
    BY DEF DeadKept
  <2>1. u # a
    BY DEF Live
  <2>2. \A l \in Label : <<u, l>> \in Field /\ <<u, l>>[1] = u
    BY DEF Field
  <2>3. \A s \in Slot : <<u, s>> \in Direct /\ <<u, s>>[1] = u
    BY DEF Direct
  <2> QED BY <2>1, <2>2, <2>3 DEF Emptied
<1> QED BY <1>1, <1>2, UnitKept

LEMMA UnitAlloc ==
  ASSUME IInv, NEW t \in Type, gc_alloc(t), UNCHANGED <<elems, direct, dying, freeing>>
  PROVE  UnitInv'
<1> USE DEF IInv, UnitInv
<1>1. /\ NewUnit \in Unit /\ collected[NewUnit] /\ NewUnit \notin Elements(dying)
      /\ NewUnit < gcSize' /\ gcSize' \in 0..GcMax /\ gcSize <= gcSize'
      /\ gcFree' \in Seq(Unit) /\ Injective(gcFree') /\ NewUnit \notin Elements(gcFree')
      /\ \A u \in Elements(gcFree') : u \in Elements(gcFree) \/ u \in gcSize..(gcSize' - 1)
  BY GcAllocFacts
<1>2. collected' = [collected EXCEPT ![NewUnit] = FALSE] /\ ref_cnt' = [ref_cnt EXCEPT ![NewUnit] = 1]
  BY DEF gc_alloc
<1>3. /\ Elements(dying) \subseteq Unit /\ Elements(gcFree) \subseteq Unit
      /\ gcSize \in Nat /\ gcSize' \in Nat /\ Unit \subseteq Nat
  BY <1>1, ElementsType, Addresses DEF TypeOK
<1>4. DyingInv'
  <2>1. ASSUME NEW u \in Elements(dying)
        PROVE  u # NewUnit /\ u < gcSize' /\ collected[u] /\ u \in Unit
    <3>1. u \in Nat /\ u < gcSize /\ collected[u] /\ u \in Unit
      BY <1>3 DEF DyingInv
    <3> QED BY <1>1, <1>3, <3>1
  <2> QED BY <1>2, <2>1 DEF DyingInv, TypeOK
<1>5. GcFreeInv'
  <2>1. ASSUME NEW u \in Elements(gcFree')
        PROVE  u \in Unit /\ collected[u] /\ u < gcSize' /\ u \notin Elements(dying)
    <3>1. u \in Unit
      BY <1>1 DEF Elements
    <3>2. CASE u \in Elements(gcFree)
      BY <1>1, <1>3, <3>1, <3>2 DEF GcFreeInv
    <3>3. CASE u \in gcSize..(gcSize' - 1)
      <4>1. u >= gcSize /\ u < gcSize' /\ ~(u < gcSize)
        BY <1>3, <3>3, InChunk
      <4> QED BY <3>1, <4>1 DEF UnusedInv, DyingInv
    <3> QED BY <1>1, <3>2, <3>3
  <2>2. \A u \in Elements(gcFree') : u # NewUnit
    BY <1>1
  <2> QED BY <1>1, <1>2, <2>1, <2>2 DEF GcFreeInv, TypeOK
<1>6. UnusedInv'
  BY <1>1, <1>2, <1>3 DEF UnusedInv, TypeOK
<1>7. DeadInv'
  BY <1>1, <1>2 DEF DeadInv, Emptied, TypeOK
<1>8. LiveInv'
  BY <1>1, <1>2 DEF LiveInv, TypeOK
<1> QED BY <1>4, <1>5, <1>6, <1>7, <1>8

LEMMA DyingHead ==
  ASSUME IInv, dying # <<>>
  PROVE  /\ Head(dying) \in Unit /\ Head(dying) \in Elements(dying)
         /\ collected[Head(dying)] /\ Head(dying) < gcSize
         /\ Tail(dying) \in Seq(Unit) /\ Injective(Tail(dying))
         /\ Elements(Tail(dying)) = Elements(dying) \ {Head(dying)}
BY SeqTail DEF IInv, TypeOK, UnitInv, DyingInv

LEMMA UnitDestroy ==
  ASSUME IInv, Destroy
  PROVE  UnitInv'
<1> USE DEF IInv
<1>0. dying # <<>>
  BY DEF Destroy, DestroyField, DestroyCell, DestroyDirect, DestroyReturn
<1>1. CASE DestroyField
  <2>1. PICK l \in Label : /\ elems[<<Head(dying), l>>] # NoCell
                           /\ mem_free(<<Head(dying), l>>, Head(dying))
    BY <1>1 DEF DestroyField
  <2>2. <<Head(dying), l>> \in Field
    BY <1>0, DyingHead DEF Field
  <2>3. /\ memory[elems[<<Head(dying), l>>]] \in Value
        /\ del_reference(memory[elems[<<Head(dying), l>>]])
        /\ elems' = [elems EXCEPT ![<<Head(dying), l>>] = NoCell]
        /\ freeing' = [freeing EXCEPT ![Head(dying)] = elems[<<Head(dying), l>>]]
    BY <1>0, <2>1, <2>2, DyingHead, MemFreeFacts
  <2>4. DeadKept
    <3> SUFFICES ASSUME NEW u \in Unit, u \notin Elements(dying), Emptied(u)
                 PROVE  Emptied(u)'
      BY DEF DeadKept
    <3>1. u # Head(dying)
      BY <1>0, DyingHead
    <3>2. /\ \A k \in Label : elems'[<<u, k>>] = NoCell
          /\ \A s \in Slot : direct'[<<u, s>>] = NoAddr
      BY <1>1, <2>3 DEF DestroyField, objects, Emptied, TypeOK, Field
    <3>3. freeing'[u] = NoCell
      BY <2>3, <3>1 DEF Emptied, TypeOK
    <3> QED BY <3>2, <3>3 DEF Emptied
  <2> QED BY <1>1, <2>3, <2>4, UnitDelReference DEF DestroyField, queues
<1>2. CASE DestroyCell
  <2>1. DeadKept
    BY <1>2 DEF DestroyCell, mem_free_return, objects, DeadKept, Emptied, TypeOK
  <2>2. LiveInv'
    BY <1>2 DEF DestroyCell, UnitInv, LiveInv
  <2> QED BY <1>2, <2>1, <2>2, UnitKept DEF DestroyCell
<1>3. CASE DestroyDirect
  <2>1. PICK s \in Slot : /\ direct' = [direct EXCEPT ![<<Head(dying), s>>] = NoAddr]
                          /\ del_reference(direct[<<Head(dying), s>>])
    BY <1>3 DEF DestroyDirect
  <2>2. direct[<<Head(dying), s>>] \in Value
    BY <1>0, DyingHead DEF TypeOK, Direct, Value
  <2>3. DeadKept
    BY <1>3, <2>1 DEF DestroyDirect, DeadKept, Emptied, TypeOK, Direct
  <2> QED BY <1>3, <2>1, <2>2, <2>3, UnitDelReference DEF DestroyDirect, queues
<1>4. CASE DestroyReturn
  <2> DEFINE u == Head(dying)
  <2>1. /\ u \in Unit /\ u \in Elements(dying) /\ collected[u] /\ u < gcSize
        /\ Tail(dying) \in Seq(Unit) /\ Injective(Tail(dying))
        /\ Elements(Tail(dying)) = Elements(dying) \ {u}
    BY <1>0, DyingHead
  <2>2. /\ Emptied(u) /\ dying' = Tail(dying)
        /\ gcFree' = gcFree \/ gcFree' = Append(gcFree, u)
        /\ UNCHANGED <<gcSize, collected, ref_cnt, elems, direct, freeing>>
    BY <1>4 DEF DestroyReturn
  <2> HIDE DEF u
  <2>3. DyingInv'
    BY <2>1, <2>2 DEF UnitInv, DyingInv
  <2>4. GcFreeInv'
    <3>1. CASE gcFree' = gcFree
      BY <2>1, <2>2, <3>1 DEF UnitInv, GcFreeInv
    <3>2. CASE gcFree' = Append(gcFree, u)
      <4>1. u \notin Elements(gcFree) /\ Injective(gcFree) /\ gcFree \in Seq(Unit)
        BY <2>1 DEF UnitInv, GcFreeInv, TypeOK
      <4>2. Injective(gcFree') /\ Elements(gcFree') = Elements(gcFree) \cup {u}
        BY <2>1, <3>2, <4>1, SeqAppend
      <4> QED BY <2>1, <2>2, <4>2 DEF UnitInv, GcFreeInv
    <3> QED BY <2>2, <3>1, <3>2
  <2>5. UnusedInv' /\ LiveInv'
    BY <2>2 DEF UnitInv, UnusedInv, LiveInv
  <2>6. DeadInv'
    BY <2>1, <2>2 DEF UnitInv, DeadInv, Emptied
  <2> QED BY <2>3, <2>4, <2>5, <2>6 DEF UnitInv
<1> QED BY <1>1, <1>2, <1>3, <1>4 DEF Destroy

LEMMA OpTargets ==
  ASSUME IInv, op.kind \in {"mem_free", "del_scope", "set_closure"}
  PROVE  op.a \in Unit /\ Live(op.a)
<1>1. op.a \in Unit /\ PinnedBy(held, op.a)
  BY DEF IInv, OpInv, PinnedBy
<1>2. ~Clearing
  BY DEF Clearing
<1> QED BY <1>1, <1>2, PinnedIsLive DEF IInv, UnitInv

LEMMA OpSources ==
  ASSUME IInv, op.kind \in {"reclosure", "set_closure"}
  PROVE  op.src \in Unit /\ Live(op.src) /\ op.fn \in Unit /\ Live(op.fn)
<1>1. op.src \in Unit /\ held[op.src] > 0 /\ op.fn \in Unit /\ held[op.fn] > 0
  BY DEF IInv, OpInv
<1>2. ~Clearing
  BY DEF Clearing
<1> QED BY <1>1, <1>2, ReferredIsLive DEF IInv, UnitInv

(* All units are collected when the loop of clear has ended.               *)
LEMMA ClearedAll ==
  ASSUME IInv, op.kind = "clear", op.a = gcSize
  PROVE  \A u \in Unit : collected[u]
<1>1. \A u \in Unit : u < gcSize => collected[u]
  BY DEF IInv, OpInv
<1>2. \A u \in Unit : u < gcSize \/ u >= gcSize
  BY Addresses DEF IInv, TypeOK
<1> QED BY <1>1, <1>2 DEF IInv, UnitInv, UnusedInv

LEMMA UnitContinue ==
  ASSUME IInv, Continue
  PROVE  UnitInv'
<1> USE DEF IInv
<1>1. CASE Destroy
  BY <1>1, UnitDestroy
<1>2. CASE MemFreeReturn
  <2>1. LiveInv'
    BY <1>2 DEF MemFreeReturn, UnitInv, LiveInv
  <2>2. DeadKept
    BY <1>2, Addresses DEF MemFreeReturn, mem_free_return, objects, DeadKept, Emptied, TypeOK
  <2> QED BY <1>2, <2>1, <2>2, UnitKept DEF MemFreeReturn
<1>3. CASE DelScopeField
  <2>1. op.a \in Unit /\ op.kind = "del_scope"
    BY <1>3 DEF DelScopeField, OpInv
  <2>2. PICK l \in ScopeLabel(op.a) : /\ elems[<<op.a, l>>] # NoCell
                                      /\ mem_free(<<op.a, l>>, NoAddr)
    BY <1>3 DEF DelScopeField
  <2>3. <<op.a, l>> \in Field
    <3>1. size[op.a] \in 0..(MaxIndex + 1) /\ size[op.a] > 0
      BY <2>1 DEF OpInv, TypeOK
    <3> QED BY <2>1, <3>1, LabelAssumption DEF ScopeLabel, Field, Label
  <2>4. /\ memory[elems[<<op.a, l>>]] \in Value
        /\ del_reference(memory[elems[<<op.a, l>>]])
        /\ elems' = [elems EXCEPT ![<<op.a, l>>] = NoCell]
        /\ freeing' = [freeing EXCEPT ![NoAddr] = elems[<<op.a, l>>]]
    BY <2>2, <2>3, MemFreeFacts
  <2>5. DeadKept
    BY <1>3, <2>4, Addresses DEF DelScopeField, objects, DeadKept, Emptied, TypeOK, Field
  <2> QED BY <1>3, <2>4, <2>5, UnitDelReference DEF DelScopeField, queues
<1>4. CASE DelScopeReturn
  <2>1. LiveInv' /\ DeadKept
    BY <1>4 DEF DelScopeReturn, UnitInv, LiveInv, DeadKept, Emptied
  <2> QED BY <1>4, <2>1, UnitKept DEF DelScopeReturn, queues
<1>5. CASE SetClosureAlloc
  BY <1>5, UnitAlloc DEF SetClosureAlloc, Type
<1>6. CASE SetClosureCopy
  <2>1. op.kind = "set_closure"
    BY <1>6 DEF SetClosureCopy
  <2>2. op.src \in Unit /\ Live(op.src) /\ op.a \in Unit /\ Live(op.a)
    BY <2>1, OpSources, OpTargets
  <2>3. PICK l \in Fields(op.src) :
             /\ mem_alloc(memory[elems[<<op.src, l>>]])
             /\ add_reference(memory[elems[<<op.src, l>>]])
             /\ elems' = [elems EXCEPT ![<<op.a, l>>] = NewCell]
    BY <1>6 DEF SetClosureCopy
  <2>4. memory[elems[<<op.src, l>>]] \in Value
    BY <2>2 DEF Fields, Field, TypeOK, Value
  <2>5. LiveInv'
    <3>1. ASSUME NEW w \in Unit
          PROVE  /\ ref_cnt[w] \in Nat /\ ref_cnt'[w] \in Nat
                 /\ collected[w] => ref_cnt'[w] = ref_cnt[w]
                 /\ ~collected[w] => ref_cnt'[w] >= ref_cnt[w]
      <4>1. /\ ref_cnt' \in [Unit -> Nat]
            /\ \/ ref_cnt'[w] = ref_cnt[w]
               \/ ~collected[w] /\ ref_cnt'[w] = ref_cnt[w] + 1
        BY <2>3, <2>4, AddReferenceFacts
      <4>2. ref_cnt[w] \in Nat
        BY DEF TypeOK
      <4> QED BY <4>1, <4>2
    <3>2. collected' = collected
      BY <1>6 DEF SetClosureCopy
    <3> QED BY <3>1, <3>2 DEF UnitInv, LiveInv
  <2>6. DeadKept
    <3> SUFFICES ASSUME NEW u \in Unit, collected[u], Emptied(u) PROVE Emptied(u)'
      BY DEF DeadKept
    <3>1. u # op.a
      BY <2>2 DEF Live
    <3> QED BY <1>6, <2>3, <3>1 DEF SetClosureCopy, objects, Emptied, TypeOK, Field
  <2> QED BY <1>6, <2>5, <2>6, UnitKept DEF SetClosureCopy
<1>7. CASE SetClosureReturn
  <2>1. op.kind = "set_closure"
    BY <1>7 DEF SetClosureReturn
  <2>2. op.fn \in Unit /\ Live(op.fn)
    BY <2>1, OpSources
  <2>3. \A q \in Direct : q[1] # op.fn => direct'[q] = direct[q]
    BY <1>7 DEF SetClosureReturn, TypeOK
  <2> QED BY <1>7, <2>2, <2>3, UnitLive DEF SetClosureReturn, queues
<1>8. CASE ClearStep
  <2>1. op.a \in Unit /\ op.a < gcSize
    <3>1. op.a \in 0..gcSize /\ op.a < gcSize /\ gcSize \in 0..GcMax
      BY <1>8 DEF ClearStep, OpInv, TypeOK
    <3> QED BY <3>1, GcAssumption DEF Unit
  <2>2. CASE ref_cnt[op.a] = 0
    <3>1. LiveInv' /\ DeadKept
      BY <1>8, <2>2 DEF ClearStep, UnitInv, LiveInv, DeadKept, Emptied, objects
    <3> QED BY <1>8, <2>2, <3>1, UnitKept DEF ClearStep, queues
  <2>3. CASE ref_cnt[op.a] # 0
    <3>1. /\ ref_cnt' = [ref_cnt EXCEPT ![op.a] = 0]
          /\ collected' = [collected EXCEPT ![op.a] = TRUE]
          /\ dying = <<>> /\ dying' = <<op.a>>
          /\ UNCHANGED <<gcSize, gcFree, elems, direct, freeing>>
      BY <1>8, <2>3 DEF ClearStep, queues, objects
    <3>2. ~collected[op.a]
      BY <2>1, <2>3 DEF UnitInv, LiveInv
    <3>3. Elements(dying) = {} /\ Elements(dying') = {op.a} /\ Injective(dying')
      BY <3>1 DEF Elements, Injective
    <3>4. DyingInv'
      BY <2>1, <3>1, <3>3 DEF DyingInv, TypeOK
    <3>5. GcFreeInv'
      <4>1. Elements(gcFree) \subseteq Unit
        BY ElementsType DEF TypeOK
      <4> QED BY <2>1, <3>1, <3>2, <3>3, <4>1 DEF UnitInv, GcFreeInv, TypeOK
    <3>6. UnusedInv' /\ LiveInv'
      BY <2>1, <3>1 DEF UnitInv, UnusedInv, LiveInv, TypeOK
    <3>7. DeadInv'
      BY <2>1, <3>1, <3>3 DEF UnitInv, DeadInv, Emptied, TypeOK
    <3> QED BY <3>4, <3>5, <3>6, <3>7 DEF UnitInv
  <2> QED BY <2>2, <2>3
<1>9. CASE ClearEnd
  <2>1. \A u \in Unit : collected[u]
    BY <1>9, ClearedAll DEF ClearEnd
  <2>2. /\ gcSize' = 0 /\ gcFree' = <<>> /\ dying = <<>>
        /\ UNCHANGED <<collected, ref_cnt, elems, direct, freeing, dying>>
    BY <1>9 DEF ClearEnd, objects
  <2>3. Elements(dying) = {} /\ Elements(gcFree') = {} /\ Injective(gcFree')
    BY <2>2 DEF Elements, Injective
  <2>4. DyingInv' /\ GcFreeInv'
    BY <2>2, <2>3 DEF UnitInv, DyingInv, GcFreeInv, Elements, Injective
  <2>5. UnusedInv' /\ LiveInv' /\ DeadInv'
    BY <2>1, <2>2 DEF UnitInv, UnusedInv, LiveInv, DeadInv, Emptied
  <2> QED BY <2>4, <2>5 DEF UnitInv
<1> QED BY <1>1, <1>2, <1>3, <1>4, <1>5, <1>6, <1>7, <1>8, <1>9 DEF Continue

LEMMA UnitCall ==
  ASSUME IInv, Call
  PROVE  UnitInv'
<1> USE DEF IInv
<1>0. ASSUME Idle, NEW a \in Unit, PinnedBy(held, a) PROVE Live(a)
  <2>1. ~Clearing
    BY <1>0 DEF Idle, NoOp, Operate, Clearing
  <2> QED BY <1>0, <2>1, PinnedIsLive DEF UnitInv
<1>1. ASSUME NEW t \in Kind, GcAlloc(t) PROVE UnitInv'
  <2>1. t \in Type
    BY KindAssumption
  <2> QED BY <1>1, <2>1, UnitAlloc DEF GcAlloc
<1>2. ASSUME NEW v \in Unit, AddReference(v) PROVE UnitInv'
  <2>1. LiveInv'
    <3>1. v \in Value /\ Live(v)
      BY <1>2 DEF AddReference, Value
    <3>2. /\ ref_cnt[v] \in Nat
          /\ \A w \in Unit : ref_cnt'[w] = IF w = v /\ ~collected[w]
                                           THEN ref_cnt[w] + 1 ELSE ref_cnt[w]
      BY <1>2, <3>1, AddReferenceFacts DEF AddReference, TypeOK
    <3>3. collected' = collected
      BY <1>2 DEF AddReference
    <3> QED BY <3>1, <3>2, <3>3 DEF UnitInv, LiveInv, Live
  <2>2. DeadKept
    BY <1>2 DEF AddReference, DeadKept, Emptied, objects
  <2> QED BY <1>2, <2>1, <2>2, UnitKept DEF AddReference, queues
<1>3. ASSUME NEW v \in Unit, DelReference(v) PROVE UnitInv'
  <2>1. DeadKept
    BY <1>3 DEF DelReference, DeadKept, Emptied, objects
  <2> QED BY <1>3, <2>1, UnitDelReference DEF DelReference, Value, queues
<1>4. ASSUME NEW a \in Unit, NEW v \in Value, VectorAddElem(a, v) PROVE UnitInv'
  <2>1. Live(a)
    BY <1>0, <1>4 DEF VectorAddElem, Pinned
  <2>2. \A p \in Field : p[1] # a => elems'[p] = elems[p]
    BY <1>4 DEF VectorAddElem, TypeOK
  <2> QED BY <1>4, <2>1, <2>2, UnitLive DEF VectorAddElem
<1>5. ASSUME NEW a \in Unit, VectorDelElem(a) PROVE UnitInv'
  <2>1. Live(a)
    BY <1>0, <1>5 DEF VectorDelElem, Pinned
  <2>2. \A p \in Field : p[1] # a => elems'[p] = elems[p]
    BY <1>5 DEF VectorDelElem, TypeOK
  <2> QED BY <1>5, <2>1, <2>2, UnitLive DEF VectorDelElem
<1>6. ASSUME NEW a \in Unit, ClosureAddScope(a) \/ ClosureDelScope(a) PROVE UnitInv'
  <2>1. LiveInv' /\ DeadKept
    BY <1>6 DEF ClosureAddScope, ClosureDelScope, UnitInv, LiveInv, DeadKept, Emptied, objects
  <2> QED BY <1>6, <2>1, UnitKept DEF ClosureAddScope, ClosureDelScope, queues
<1>7. ASSUME NEW a \in Unit, NEW k \in Name, HashDelElem(a, k) PROVE UnitInv'
  <2> DEFINE p == <<a, <<0, k>>>>
  <2>1. p \in Field /\ p[1] = a
    BY LabelAssumption DEF Field, Label
  <2>2. Live(a)
    BY <1>0, <1>7 DEF HashDelElem, Pinned
  <2>3. /\ memory[elems[p]] \in Value /\ del_reference(memory[elems[p]])
        /\ elems' = [elems EXCEPT ![p] = NoCell]
        /\ freeing' = [freeing EXCEPT ![NoAddr] = elems[p]]
    BY <1>7, <2>1, MemFreeFacts DEF HashDelElem
  <2>4. DeadKept
    BY <1>7, <2>3, Addresses DEF HashDelElem, objects, DeadKept, Emptied, TypeOK, Field
  <2> QED BY <1>7, <2>3, <2>4, UnitDelReference DEF HashDelElem, queues
<1>8. ASSUME NEW a \in Unit, NEW k \in Name, NEW v \in Value, HashAddElem(a, k, v)
      PROVE  UnitInv'
  <2>1. Live(a)
    BY <1>0, <1>8 DEF HashAddElem, Pinned
  <2>2. \A p \in Field : p[1] # a => elems'[p] = elems[p]
    BY <1>8 DEF HashAddElem, TypeOK
  <2> QED BY <1>8, <2>1, <2>2, UnitLive DEF HashAddElem, objects
<1>9. ASSUME NEW a \in Unit, NEW k \in Name, NEW v \in Value, HashAddElemAgain(a, k, v)
      PROVE  UnitInv'
  <2>1. LiveInv' /\ DeadKept
    BY <1>9 DEF HashAddElemAgain, UnitInv, LiveInv, DeadKept, Emptied, objects
  <2> QED BY <1>9, <2>1, UnitKept DEF HashAddElemAgain, queues
<1>10. ASSUME NEW a \in Unit, NEW x \in Name, NEW v \in Value, ClosureAddNewValue(a, x, v)
       PROVE  UnitInv'
  <2> DEFINE p == <<a, <<size[a] - 1, x>>>>
  <2>1. Live(a)
    <3>1. ASSUME NEW w \in Unit
          PROVE  held[w] \in Nat /\ held'[w] \in Nat /\ held'[w] <= held[w]
      <4>1. held[w] \in Nat /\ One(v, w) \in Nat
        BY DEF One, TypeOK
      <4>2. held'[w] \in Nat /\ held'[w] = held[w] - One(v, w)
        BY <1>10, HandOverFacts DEF ClosureAddNewValue
      <4> QED BY <4>1, <4>2
    <3>2. PinnedBy(held, a)
      BY <1>10, <3>1 DEF ClosureAddNewValue, PinnedBy
    <3> QED BY <1>0, <1>10, <3>2 DEF ClosureAddNewValue
  <2>2. \A q \in Field : q[1] # a => elems'[q] = elems[q]
    BY <1>10 DEF ClosureAddNewValue, TypeOK
  <2>3. CASE elems[p] = NoCell
    BY <1>10, <2>1, <2>2, <2>3, UnitLive DEF ClosureAddNewValue, objects
  <2>4. CASE elems[p] # NoCell
    <3>1. /\ freeing' = [freeing EXCEPT ![NoAddr] = elems[p]]
          /\ del_reference(memory[elems[p]])
      BY <1>10, <2>4 DEF ClosureAddNewValue
    <3>2. p \in Field
      <4>1. size[a] - 1 \in 0..MaxIndex
        BY <1>10, LabelAssumption DEF ClosureAddNewValue, TypeOK
      <4> QED BY <4>1 DEF Field, Label
    <3>3. memory[elems[p]] \in Value
      BY <2>4, <3>2 DEF TypeOK, Value
    <3>4. DeadKept
      <4> SUFFICES ASSUME NEW u \in Unit, collected[u], Emptied(u) PROVE Emptied(u)'
        BY DEF DeadKept
      <4>1. u # a
        BY <2>1 DEF Live
      <4>2. \A l \in Label : <<u, l>> \in Field /\ <<u, l>>[1] = u
        BY DEF Field
      <4>3. freeing'[u] = freeing[u] /\ direct' = direct
        BY <1>10, <3>1, Addresses DEF ClosureAddNewValue, objects, TypeOK
      <4> QED BY <2>2, <4>1, <4>2, <4>3 DEF Emptied
    <3> QED BY <1>10, <3>1, <3>3, <3>4, UnitDelReference DEF ClosureAddNewValue
  <2> QED BY <2>3, <2>4
<1>11. ASSUME NEW p \in Field, NEW v \in Value, MemChange(p, v) PROVE UnitInv'
  <2>1. memory[elems[p]] \in Value
    BY <1>11 DEF MemChange, TypeOK, Value
  <2>2. DeadKept
    BY <1>11 DEF MemChange, DeadKept, Emptied, objects
  <2> QED BY <1>11, <2>1, <2>2, UnitDelReference DEF MemChange, queues
<1>12. ASSUME NEW f \in Unit, NEW s \in Slot, NEW v \in Value, FunctionAddPara(f, s, v)
       PROVE  UnitInv'
  <2>1. Live(f)
    BY <1>0, <1>12 DEF FunctionAddPara, PinnedBy
  <2>2. \A q \in Direct : q[1] # f => direct'[q] = direct[q]
    BY <1>12 DEF FunctionAddPara, TypeOK
  <2> QED BY <1>12, <2>1, <2>2, UnitLive DEF FunctionAddPara, queues
<1>13. ASSUME NEW f \in Unit, NEW src \in Unit, FunctionSetClosure(f, src) PROVE UnitInv'
  <2>1. direct[<<f, 0>>] \in Value
    BY BoundAssumption DEF Direct, Slot, TypeOK, Value
  <2>2. DeadKept
    BY <1>13 DEF FunctionSetClosure, DeadKept, Emptied, TypeOK, Direct
  <2> QED BY <1>13, <2>1, <2>2, UnitDelReference DEF FunctionSetClosure, queues
<1>14. CASE ClearBegin
  <2>1. LiveInv' /\ DeadKept
    BY <1>14 DEF ClearBegin, UnitInv, LiveInv, DeadKept, Emptied, objects
  <2> QED BY <1>14, <2>1, UnitKept DEF ClearBegin, queues
<1> QED
  BY <1>1, <1>2, <1>3, <1>4, <1>5, <1>6, <1>7, <1>8, <1>9, <1>10, <1>11, <1>12, <1>13,
     <1>14 DEF Call

LEMMA UnitStep ==
  ASSUME IInv, [Next]_vars
  PROVE  UnitInv'
<1>1. CASE UNCHANGED vars
  BY <1>1 DEF IInv, UnitInv, DyingInv, GcFreeInv, UnusedInv, DeadInv, LiveInv, Emptied,
              Elements, Injective, vars
<1> QED BY <1>1, UnitContinue, UnitCall DEF Next

-----------------------------------------------------------------------------
(* Cells: of a field, of a mem_free under way, or free.                    *)

LEMMA CellKept ==
  ASSUME CellInv, UNCHANGED <<elems, freeing, memFree, memSize>>
  PROVE  CellInv'
BY DEF CellInv, FieldCellInv, FreeingCellInv, FreeCellInv, Elements, Injective

(* mem_alloc for a field without a cell.                                   *)
LEMMA CellPut ==
  ASSUME TypeOK, CellInv, NEW v \in Value, mem_alloc(v), NEW p \in Field, elems[p] = NoCell,
         elems' = [elems EXCEPT ![p] = NewCell], UNCHANGED freeing
  PROVE  CellInv'
<1> USE DEF CellInv
<1> DEFINE c == NewCell
<1>1. /\ c \in Cell /\ Fresh(elems, c)
      /\ \A f \in Unit \cup {NoAddr} : freeing[f] # c
      /\ c < memSize' /\ memSize' \in 0..MemMax /\ memSize <= memSize'
      /\ memFree' \in Seq(Cell) /\ Injective(memFree') /\ c \notin Elements(memFree')
      /\ \A d \in Elements(memFree') : d \in Elements(memFree) \/ d \in memSize..(memSize' - 1)
  BY MemAllocFacts
<1> HIDE DEF c
<1>2. memSize \in Nat /\ memSize' \in Nat /\ Cell \subseteq Nat /\ NoCell \notin Cell
  BY <1>1, Addresses DEF TypeOK
<1>3. /\ elems' \in [Field -> Cells0] /\ elems'[p] = c
      /\ \A q \in Field : q # p => elems'[q] = elems[q]
  BY <1>1 DEF TypeOK, Cells0, c
<1>4. ASSUME NEW d \in Cell, d < memSize, d \notin Elements(memFree)
      PROVE  d < memSize' /\ d \notin Elements(memFree')
  <2>1. d < memSize'
    BY <1>1, <1>2, <1>4
  <2>2. ~(d \in memSize..(memSize' - 1))
    BY <1>2, <1>4, InChunk
  <2> QED BY <1>1, <1>4, <2>1, <2>2
<1>5. FieldCellInv'
  <2> SUFFICES ASSUME NEW q \in Field, elems'[q] # NoCell
               PROVE  /\ elems'[q] < memSize' /\ elems'[q] \notin Elements(memFree')
                      /\ \A r \in Field : elems'[r] = elems'[q] => r = q
                      /\ \A f \in Unit \cup {NoAddr} : freeing[f] # elems'[q]
    BY DEF FieldCellInv
  <2>1. CASE q = p
    BY <1>1, <1>3, <2>1 DEF Fresh
  <2>2. CASE q # p
    <3>1. elems'[q] = elems[q] /\ elems[q] \in Cell
      BY <1>3, <2>2 DEF TypeOK
    <3>2. elems[q] < memSize' /\ elems[q] \notin Elements(memFree')
      BY <1>4, <3>1 DEF FieldCellInv
    <3>3. \A r \in Field : elems'[r] = elems'[q] => r = q
      BY <1>1, <1>3, <3>1 DEF Fresh, FieldCellInv
    <3> QED BY <3>1, <3>2, <3>3 DEF FieldCellInv
  <2> QED BY <2>1, <2>2
<1>6. FreeingCellInv'
  <2> SUFFICES ASSUME NEW f \in Unit \cup {NoAddr}, freeing[f] # NoCell
               PROVE  /\ freeing[f] < memSize' /\ freeing[f] \notin Elements(memFree')
                      /\ \A g \in Unit \cup {NoAddr} : freeing[g] = freeing[f] => g = f
    BY DEF FreeingCellInv
  <2>1. freeing[f] \in Cell
    BY DEF TypeOK
  <2> QED BY <1>4, <2>1 DEF FreeingCellInv
<1>7. FreeCellInv'
  <2>1. ASSUME NEW d \in Elements(memFree') PROVE d < memSize'
    <3>1. d \in Nat
      BY <1>1, <1>2, ElementsType
    <3>2. CASE d \in Elements(memFree)
      BY <1>1, <1>2, <3>1, <3>2 DEF FreeCellInv
    <3>3. CASE d \in memSize..(memSize' - 1)
      BY <1>2, <3>3, InChunk
    <3> QED BY <1>1, <3>2, <3>3
  <2> QED BY <1>1, <2>1 DEF FreeCellInv
<1> QED BY <1>5, <1>6, <1>7

(* The first half of mem_free: the cell moves from the field to the frame. *)
LEMMA CellFree ==
  ASSUME TypeOK, CellInv, NEW p \in Field, elems[p] # NoCell,
         NEW f \in Unit \cup {NoAddr}, freeing[f] = NoCell, mem_free(p, f),
         UNCHANGED <<memFree, memSize>>
  PROVE  CellInv'
<1> USE DEF CellInv
<1>1. /\ elems[p] \in Cell
      /\ elems' = [elems EXCEPT ![p] = NoCell] /\ freeing' = [freeing EXCEPT ![f] = elems[p]]
  BY MemFreeFacts
<1>2. /\ elems'[p] = NoCell /\ \A q \in Field : q # p => elems'[q] = elems[q]
      /\ freeing'[f] = elems[p]
      /\ \A g \in Unit \cup {NoAddr} : g # f => freeing'[g] = freeing[g]
  BY <1>1 DEF TypeOK
<1>3. FieldCellInv'
  BY <1>1, <1>2 DEF FieldCellInv, Elements
<1>4. FreeingCellInv'
  <2> SUFFICES ASSUME NEW g \in Unit \cup {NoAddr}, freeing'[g] # NoCell
               PROVE  /\ freeing'[g] < memSize /\ freeing'[g] \notin Elements(memFree)
                      /\ \A h \in Unit \cup {NoAddr} : freeing'[h] = freeing'[g] => h = g
    BY DEF FreeingCellInv, Elements
  <2>1. CASE g = f
    BY <1>2, <2>1 DEF FieldCellInv
  <2>2. CASE g # f
    BY <1>2, <2>2 DEF FieldCellInv, FreeingCellInv
  <2> QED BY <2>1, <2>2
<1>5. FreeCellInv'
  BY DEF FreeCellInv, Elements, Injective
<1> QED BY <1>3, <1>4, <1>5

(* The second half: the cell moves from the frame to the queue.            *)
LEMMA CellReturn ==
  ASSUME TypeOK, CellInv, NEW f \in Unit \cup {NoAddr}, freeing[f] # NoCell,
         mem_free_return(f), UNCHANGED <<elems, memSize>>
  PROVE  CellInv'
<1> USE DEF CellInv
<1>1. /\ freeing[f] \in Cell /\ memFree' \in Seq(Cell) /\ Injective(memFree')
      /\ Elements(memFree') = Elements(memFree) \cup {freeing[f]}
      /\ freeing' = [freeing EXCEPT ![f] = NoCell]
  BY MemFreeReturnFacts
<1>2. /\ freeing'[f] = NoCell
      /\ \A g \in Unit \cup {NoAddr} : g # f => freeing'[g] = freeing[g]
  BY <1>1 DEF TypeOK
<1>3. FieldCellInv'
  BY <1>1, <1>2 DEF FieldCellInv
<1>4. FreeingCellInv'
  BY <1>1, <1>2 DEF FreeingCellInv
<1>5. FreeCellInv'
  BY <1>1 DEF FreeCellInv, FreeingCellInv
<1> QED BY <1>3, <1>4, <1>5

LEMMA CellDestroy ==
  ASSUME IInv, Destroy
  PROVE  CellInv'
<1> USE DEF IInv
<1>0. dying # <<>>
  BY DEF Destroy, DestroyField, DestroyCell, DestroyDirect, DestroyReturn
<1>1. CASE DestroyField
  <2>1. PICK l \in Label : /\ elems[<<Head(dying), l>>] # NoCell
                           /\ mem_free(<<Head(dying), l>>, Head(dying))
    BY <1>1 DEF DestroyField
  <2>2. <<Head(dying), l>> \in Field /\ Head(dying) \in Unit
    BY <1>0, DyingHead DEF Field
  <2> QED BY <1>1, <2>1, <2>2, CellFree DEF DestroyField, queues
<1>2. CASE DestroyCell
  BY <1>0, <1>2, DyingHead, CellReturn DEF DestroyCell
<1>3. CASE DestroyDirect
  BY <1>3, CellKept DEF DestroyDirect, queues
<1>4. CASE DestroyReturn
  BY <1>4, CellKept DEF DestroyReturn
<1> QED BY <1>1, <1>2, <1>3, <1>4 DEF Destroy

LEMMA CellContinue ==
  ASSUME IInv, Continue
  PROVE  CellInv'
<1> USE DEF IInv
<1>1. CASE Destroy
  BY <1>1, CellDestroy
<1>2. CASE MemFreeReturn
  BY <1>2, CellReturn DEF MemFreeReturn
<1>3. CASE DelScopeField
  <2>1. op.a \in Unit /\ op.kind = "del_scope" /\ freeing[NoAddr] = NoCell
    BY <1>3 DEF DelScopeField, OpInv
  <2>2. PICK l \in ScopeLabel(op.a) : /\ elems[<<op.a, l>>] # NoCell
                                      /\ mem_free(<<op.a, l>>, NoAddr)
    BY <1>3 DEF DelScopeField
  <2>3. <<op.a, l>> \in Field
    <3>1. size[op.a] \in 0..(MaxIndex + 1) /\ size[op.a] > 0
      BY <2>1 DEF OpInv, TypeOK
    <3> QED BY <2>1, <3>1, LabelAssumption DEF ScopeLabel, Field, Label
  <2> QED BY <1>3, <2>1, <2>2, <2>3, CellFree DEF DelScopeField, queues
<1>4. CASE DelScopeReturn \/ SetClosureAlloc \/ SetClosureReturn \/ ClearStep
  BY <1>4, CellKept
     DEF DelScopeReturn, SetClosureAlloc, SetClosureReturn, ClearStep, queues
<1>5. CASE SetClosureCopy
  <2>1. op.kind = "set_closure"
    BY <1>5 DEF SetClosureCopy
  <2>2. op.src \in Unit /\ op.a \in Unit
    BY <2>1, OpSources, OpTargets
  <2>3. PICK l \in Fields(op.src) \ Fields(op.a) :
             /\ mem_alloc(memory[elems[<<op.src, l>>]])
             /\ elems' = [elems EXCEPT ![<<op.a, l>>] = NewCell]
    BY <1>5 DEF SetClosureCopy
  <2>4. memory[elems[<<op.src, l>>]] \in Value
    BY <2>2, <2>3 DEF Fields, Field, TypeOK, Value
  <2>5. <<op.a, l>> \in Field /\ elems[<<op.a, l>>] = NoCell
    BY <2>2, <2>3 DEF Fields, Field
  <2> QED BY <1>5, <2>3, <2>4, <2>5, CellPut DEF SetClosureCopy
<1>6. CASE ClearEnd
  <2>1. \A u \in Unit : collected[u]
    BY <1>6, ClearedAll DEF ClearEnd
  <2>2. Elements(dying) = {}
    BY <1>6 DEF ClearEnd, Elements
  <2>3. \A u \in Unit : Emptied(u)
    BY <2>1, <2>2 DEF UnitInv, DeadInv
  <2>4. freeing[NoAddr] = NoCell
    BY <1>6 DEF ClearEnd, OpInv
  <2>5. \A p \in Field : elems[p] = NoCell
    BY <2>3 DEF Emptied, Field
  <2>6. \A f \in Unit \cup {NoAddr} : freeing[f] = NoCell
    BY <2>3, <2>4 DEF Emptied
  <2>7. memFree' = <<>> /\ UNCHANGED <<elems, freeing>>
    BY <1>6 DEF ClearEnd
  <2> QED BY <2>5, <2>6, <2>7
          DEF CellInv, FieldCellInv, FreeingCellInv, FreeCellInv, Elements, Injective
<1> QED BY <1>1, <1>2, <1>3, <1>4, <1>5, <1>6 DEF Continue

LEMMA CellCall ==
  ASSUME IInv, Call
  PROVE  CellInv'
<1> USE DEF IInv
<1>0. ASSUME Idle, NEW a \in Unit, PinnedBy(held, a) PROVE Live(a)
  <2>1. ~Clearing
    BY <1>0 DEF Idle, NoOp, Operate, Clearing
  <2> QED BY <1>0, <2>1, PinnedIsLive DEF UnitInv
<1>a. Idle => freeing[NoAddr] = NoCell
  BY DEF Idle, NoOp, Operate, OpInv
<1>1. ASSUME NEW t \in Kind, GcAlloc(t) PROVE CellInv'
  BY <1>1, CellKept DEF GcAlloc
<1>2. ASSUME NEW v \in Unit, AddReference(v) \/ DelReference(v) PROVE CellInv'
  BY <1>2, CellKept DEF AddReference, DelReference, queues
<1>3. ASSUME NEW a \in Unit, NEW v \in Value, VectorAddElem(a, v) PROVE CellInv'
  <2>1. Live(a) /\ type[a] = "vector"
    BY <1>0, <1>3 DEF VectorAddElem, Pinned
  <2>2. size[a] \in 0..MaxIndex /\ ~(size[a] < size[a])
    BY <1>3, LabelAssumption DEF VectorAddElem, TypeOK
  <2>3. elems[<<a, <<size[a], Elem>>>>] = NoCell /\ <<a, <<size[a], Elem>>>> \in Field
    BY <2>1, <2>2 DEF VectorInv, Field, Label
  <2> QED BY <1>3, <2>3, CellPut DEF VectorAddElem
<1>4. ASSUME NEW a \in Unit, VectorDelElem(a) PROVE CellInv'
  <2> DEFINE p == <<a, <<size[a] - 1, Elem>>>>
  <2>1. Live(a) /\ type[a] = "vector"
    BY <1>0, <1>4 DEF VectorDelElem, Pinned
  <2>2. size[a] - 1 \in 0..MaxIndex /\ size[a] - 1 < size[a]
    <3>1. size[a] \in 0..(MaxIndex + 1) /\ size[a] > 0
      BY <1>4 DEF VectorDelElem, TypeOK
    <3> QED BY <3>1, LabelAssumption
  <2>3. p \in Field /\ elems[p] \in Cell
    BY <2>1, <2>2 DEF VectorInv, Field, Label, TypeOK
  <2>4. /\ elems' = [elems EXCEPT ![p] = NoCell] /\ memFree' = Append(memFree, elems[p])
        /\ UNCHANGED <<freeing, memSize>>
    BY <1>4 DEF VectorDelElem
  <2> HIDE DEF p
  <2>5. elems[p] # NoCell
    BY <2>3, Addresses
  <2>6. /\ Injective(memFree') /\ Elements(memFree') = Elements(memFree) \cup {elems[p]}
    <3>1. elems[p] \notin Elements(memFree) /\ Injective(memFree) /\ memFree \in Seq(Cell)
      BY <2>3, <2>5 DEF CellInv, FieldCellInv, FreeCellInv, TypeOK
    <3> QED BY <2>3, <2>4, <3>1, SeqAppend
  <2>7. elems'[p] = NoCell /\ \A q \in Field : q # p => elems'[q] = elems[q]
    BY <2>3, <2>4 DEF TypeOK
  <2>8. FieldCellInv'
    BY <2>3, <2>4, <2>5, <2>6, <2>7 DEF CellInv, FieldCellInv
  <2>9. FreeingCellInv' /\ FreeCellInv'
    BY <2>3, <2>4, <2>5, <2>6 DEF CellInv, FieldCellInv, FreeingCellInv, FreeCellInv
  <2> QED BY <2>8, <2>9 DEF CellInv
<1>5. ASSUME NEW a \in Unit, ClosureAddScope(a) \/ ClosureDelScope(a) PROVE CellInv'
  BY <1>5, CellKept DEF ClosureAddScope, ClosureDelScope, queues
<1>6. ASSUME NEW a \in Unit, NEW k \in Name, HashDelElem(a, k) PROVE CellInv'
  <2>1. <<a, <<0, k>>>> \in Field
    BY LabelAssumption DEF Field, Label
  <2> QED BY <1>6, <1>a, <2>1, CellFree DEF HashDelElem, queues
<1>7. ASSUME NEW a \in Unit, NEW k \in Name, NEW v \in Value, HashAddElem(a, k, v)
      PROVE  CellInv'
  <2>1. <<a, <<0, k>>>> \in Field
    BY LabelAssumption DEF Field, Label
  <2> QED BY <1>7, <2>1, CellPut DEF HashAddElem
<1>8. ASSUME NEW a \in Unit, NEW k \in Name, NEW v \in Value, HashAddElemAgain(a, k, v)
      PROVE  CellInv'
  BY <1>8, CellKept DEF HashAddElemAgain, queues
<1>9. ASSUME NEW a \in Unit, NEW x \in Name, NEW v \in Value, ClosureAddNewValue(a, x, v)
      PROVE  CellInv'
  <2> DEFINE p == <<a, <<size[a] - 1, x>>>>
  <2>1. p \in Field
    <3>1. size[a] - 1 \in 0..MaxIndex
      BY <1>9, LabelAssumption DEF ClosureAddNewValue, TypeOK
    <3> QED BY <3>1 DEF Field, Label
  <2>2. mem_alloc(v) /\ elems' = [elems EXCEPT ![p] = NewCell]
    BY <1>9 DEF ClosureAddNewValue
  <2>3. CASE elems[p] = NoCell
    BY <1>9, <2>1, <2>2, <2>3, CellPut DEF ClosureAddNewValue
  <2>4. CASE elems[p] # NoCell
    <3>1. freeing' = [freeing EXCEPT ![NoAddr] = elems[p]] /\ freeing[NoAddr] = NoCell
      BY <1>9, <1>a, <2>4 DEF ClosureAddNewValue
    <3> HIDE DEF p
    <3> DEFINE c == NewCell
    <3>2. /\ c \in Cell /\ Fresh(elems, c)
          /\ \A f \in Unit \cup {NoAddr} : freeing[f] # c
          /\ c < memSize' /\ memSize' \in 0..MemMax /\ memSize <= memSize'
          /\ memFree' \in Seq(Cell) /\ Injective(memFree') /\ c \notin Elements(memFree')
          /\ \A d \in Elements(memFree') : d \in Elements(memFree) \/ d \in memSize..(memSize' - 1)
      BY <2>2, MemAllocFacts
    <3> HIDE DEF c
    <3>3. memSize \in Nat /\ memSize' \in Nat /\ Cell \subseteq Nat /\ NoCell \notin Cell
      BY <3>2, Addresses DEF TypeOK
    <3>4. elems[p] \in Cell
      BY <2>1, <2>4 DEF TypeOK
    <3>5. /\ elems'[p] = c /\ \A q \in Field : q # p => elems'[q] = elems[q]
          /\ freeing'[NoAddr] = elems[p]
          /\ \A f \in Unit \cup {NoAddr} : f # NoAddr => freeing'[f] = freeing[f]
      BY <2>1, <2>2, <3>1 DEF TypeOK, c
    <3>6. ASSUME NEW d \in Cell, d < memSize, d \notin Elements(memFree)
          PROVE  d < memSize' /\ d \notin Elements(memFree')
      <4>1. d < memSize'
        BY <3>2, <3>3, <3>6
      <4>2. ~(d \in memSize..(memSize' - 1))
        BY <3>3, <3>6, InChunk
      <4> QED BY <3>2, <3>6, <4>1, <4>2
    <3>7. FieldCellInv'
      <4> SUFFICES ASSUME NEW q \in Field, elems'[q] # NoCell
                   PROVE  /\ elems'[q] < memSize' /\ elems'[q] \notin Elements(memFree')
                          /\ \A r \in Field : elems'[r] = elems'[q] => r = q
                          /\ \A f \in Unit \cup {NoAddr} : freeing'[f] # elems'[q]
        BY DEF FieldCellInv
      <4>1. CASE q = p
        BY <2>1, <3>2, <3>5, <4>1 DEF Fresh
      <4>2. CASE q # p
        <5>1. elems'[q] = elems[q] /\ elems[q] \in Cell
          BY <3>5, <4>2 DEF TypeOK
        <5>2. elems[q] < memSize' /\ elems[q] \notin Elements(memFree')
          BY <3>6, <5>1 DEF FieldCellInv, CellInv
        <5>3. \A r \in Field : elems'[r] = elems'[q] => r = q
          BY <3>2, <3>5, <5>1 DEF Fresh, FieldCellInv, CellInv
        <5>4. \A f \in Unit \cup {NoAddr} : freeing'[f] # elems'[q]
          BY <2>1, <3>5, <4>2, <5>1 DEF FieldCellInv, CellInv
        <5> QED BY <5>1, <5>2, <5>3, <5>4
      <4> QED BY <4>1, <4>2
    <3>8. FreeingCellInv'
      <4> SUFFICES ASSUME NEW f \in Unit \cup {NoAddr}, freeing'[f] # NoCell
                   PROVE  /\ freeing'[f] < memSize' /\ freeing'[f] \notin Elements(memFree')
                          /\ \A g \in Unit \cup {NoAddr} : freeing'[g] = freeing'[f] => g = f
        BY DEF FreeingCellInv
      <4>1. CASE f = NoAddr
        BY <2>1, <2>4, <3>4, <3>5, <3>6, <4>1 DEF CellInv, FieldCellInv
      <4>2. CASE f # NoAddr
        <5>1. freeing'[f] = freeing[f] /\ freeing[f] \in Cell
          BY <3>5, <4>2 DEF TypeOK
        <5> QED BY <2>1, <2>4, <3>5, <3>6, <5>1 DEF CellInv, FieldCellInv, FreeingCellInv
      <4> QED BY <4>1, <4>2
    <3>9. FreeCellInv'
      <4>1. ASSUME NEW d \in Elements(memFree') PROVE d < memSize'
        <5>1. d \in Nat
          BY <3>2, <3>3, ElementsType
        <5>2. CASE d \in Elements(memFree)
          BY <3>2, <3>3, <5>1, <5>2 DEF CellInv, FreeCellInv
        <5>3. CASE d \in memSize..(memSize' - 1)
          BY <3>3, <5>3, InChunk
        <5> QED BY <3>2, <5>2, <5>3
      <4> QED BY <3>2, <4>1 DEF FreeCellInv
    <3> QED BY <3>7, <3>8, <3>9 DEF CellInv
  <2> QED BY <2>3, <2>4
<1>10. ASSUME NEW p \in Field, NEW v \in Value, MemChange(p, v) PROVE CellInv'
  BY <1>10, CellKept DEF MemChange, queues
<1>11. ASSUME NEW f \in Unit, NEW s \in Slot, NEW v \in Value, FunctionAddPara(f, s, v)
       PROVE  CellInv'
  BY <1>11, CellKept DEF FunctionAddPara, queues
<1>12. ASSUME NEW f \in Unit, NEW src \in Unit, FunctionSetClosure(f, src) PROVE CellInv'
  BY <1>12, CellKept DEF FunctionSetClosure, queues
<1>13. CASE ClearBegin
  BY <1>13, CellKept DEF ClearBegin, queues
<1> QED
  BY <1>1, <1>2, <1>3, <1>4, <1>5, <1>6, <1>7, <1>8, <1>9, <1>10, <1>11, <1>12, <1>13
     DEF Call

LEMMA CellStep ==
  ASSUME IInv, [Next]_vars
  PROVE  CellInv'
<1>1. CASE UNCHANGED vars
  BY <1>1, CellKept DEF IInv, vars
<1> QED BY <1>1, CellContinue, CellCall DEF Next

-----------------------------------------------------------------------------
(* The reference counts.                                                    *)

Cells(w) == Cardinality(CellRefs(w))
Slots(w) == Cardinality(DirectRefs(w))

LEMMA CountAt ==
  ASSUME IInv, ~Clearing, NEW w \in Unit
  PROVE  /\ ref_cnt[w] = Cells(w) + Slots(w) + held[w] + lost[w]
         /\ Cells(w) \in Nat /\ Slots(w) \in Nat /\ held[w] \in Nat /\ lost[w] \in Nat
BY HoldersType DEF IInv, CountExact, Holders, Cells, Slots

(* The holders and the counts do not change.                                *)
LEMMA CountKept ==
  ASSUME CountExact, Clearing => Clearing',
         UNCHANGED <<ref_cnt, elems, memory, direct, held, lost>>
  PROVE  CountExact'
<1>1. \A v \in Unit : Holders(v)' = Holders(v)
  BY DEF Holders, CellRefs, DirectRefs, RefsOf, SlotsOf
<1> QED BY <1>1 DEF CountExact

(* Every reference that is deleted was counted.                             *)
LEMMA CountDel ==
  ASSUME IInv, NEW v \in Value, v = NoAddr \/ Live(v), del_reference(v), NEW w \in Unit
  PROVE  ref_cnt'[w] = ref_cnt[w] - One(v, w)
<1>1. /\ ref_cnt'[w] = IF w = v /\ ~collected[w] THEN ref_cnt[w] - 1 ELSE ref_cnt[w]
      /\ ref_cnt[w] \in Nat
  BY DelReferenceFacts DEF IInv, TypeOK
<1>2. CASE v = w
  BY <1>1, <1>2, Addresses DEF Live, One
<1>3. CASE v # w
  BY <1>1, <1>3 DEF One
<1> QED BY <1>2, <1>3

LEMMA StoredIsLive ==
  ASSUME IInv, ~Clearing, NEW p \in Field, elems[p] # NoCell
  PROVE  /\ elems[p] \in Cell /\ memory[elems[p]] \in Value
         /\ memory[elems[p]] = NoAddr \/ Live(memory[elems[p]])
<1>1. elems[p] \in Cell /\ memory[elems[p]] \in Value
  BY DEF IInv, TypeOK, Value
<1>2. ASSUME memory[elems[p]] # NoAddr PROVE Live(memory[elems[p]])
  <2>1. memory[elems[p]] \in Unit
    BY <1>1, <1>2 DEF Value
  <2> QED BY <2>1, ReferredIsLive DEF IInv, UnitInv
<1> QED BY <1>1, <1>2

LEMMA DirectIsLive ==
  ASSUME IInv, ~Clearing, NEW q \in Direct
  PROVE  direct[q] \in Value /\ (direct[q] = NoAddr \/ Live(direct[q]))
<1>1. direct[q] \in Value
  BY DEF IInv, TypeOK, Value
<1>2. ASSUME direct[q] # NoAddr PROVE Live(direct[q])
  <2>1. direct[q] \in Unit
    BY <1>1, <1>2 DEF Value
  <2> QED BY <2>1, ReferredIsLive DEF IInv, UnitInv
<1> QED BY <1>1, <1>2

LEMMA ElemsType ==
  ASSUME IInv
  PROVE  /\ elems \in [Field -> Cells0] /\ memory \in [Cell -> Value0]
         /\ direct \in [Direct -> Value0]
BY DEF IInv, TypeOK, Cells0, Value0

(* mem_free deletes the reference that its field was.                       *)
LEMMA CountFree ==
  ASSUME IInv, ~Clearing, NEW p \in Field, elems[p] # NoCell,
         elems' = [elems EXCEPT ![p] = NoCell], del_reference(memory[elems[p]]),
         UNCHANGED <<memory, direct, held, lost>>
  PROVE  CountExact'
<1> SUFFICES ASSUME NEW w \in Unit PROVE ref_cnt'[w] = Holders(w)'
  BY DEF CountExact
<1>1. Put(elems', elems, p, NoCell)
  BY DEF Put
<1>2. Cells(w)' = Cells(w) - One(memory[elems[p]], w)
  BY <1>1, ElemsType, RefsDrop DEF Cells, CellRefs
<1>3. ref_cnt'[w] = ref_cnt[w] - One(memory[elems[p]], w)
  BY StoredIsLive, CountDel
<1>4. Slots(w)' = Slots(w)
  BY DEF Slots, DirectRefs, SlotsOf
<1>5. One(memory[elems[p]], w) \in Nat
  BY DEF One
<1>6. Holders(w)' = Cells(w)' + Slots(w)' + held'[w] + lost'[w]
  BY DEF Holders, Cells, Slots
<1> QED BY <1>2, <1>3, <1>4, <1>5, <1>6, CountAt

LEMMA NoSummand ==
  ASSUME NEW a \in Nat, NEW b \in Nat, NEW c \in Nat, NEW d \in Nat, 0 = a + b + c + d
  PROVE  a = 0 /\ b = 0 /\ c = 0 /\ d = 0
OBVIOUS

(* A new unit has one holder, the caller that asked for it.                 *)
LEMMA CountAlloc ==
  ASSUME IInv, ~Clearing, NEW t \in Type, gc_alloc(t), held' = [held EXCEPT ![NewUnit] = 1],
         UNCHANGED <<elems, memory, direct, lost>>
  PROVE  CountExact'
<1> SUFFICES ASSUME NEW w \in Unit PROVE ref_cnt'[w] = Holders(w)'
  BY DEF CountExact
<1>1. NewUnit \in Unit /\ collected[NewUnit] /\ ref_cnt' = [ref_cnt EXCEPT ![NewUnit] = 1]
  BY GcAllocFacts DEF IInv, gc_alloc
<1>2. ref_cnt[NewUnit] = 0
  BY <1>1 DEF IInv, UnitInv, LiveInv
<1>3. Cells(w)' = Cells(w) /\ Slots(w)' = Slots(w)
  BY DEF Cells, CellRefs, RefsOf, Slots, DirectRefs, SlotsOf
<1>4. Holders(w)' = Cells(w)' + Slots(w)' + held'[w] + lost'[w]
  BY DEF Holders, Cells, Slots
<1>5. CASE w = NewUnit
  <2>0. /\ 0 = Cells(w) + Slots(w) + held[w] + lost[w]
        /\ Cells(w) \in Nat /\ Slots(w) \in Nat /\ held[w] \in Nat /\ lost[w] \in Nat
    BY <1>2, <1>5, CountAt
  <2>1. Cells(w) = 0 /\ Slots(w) = 0 /\ held[w] = 0 /\ lost[w] = 0
    BY <2>0, NoSummand
  <2>2. ref_cnt'[w] = 1 /\ held'[w] = 1
    BY <1>1, <1>5 DEF IInv, TypeOK
  <2> QED BY <1>3, <1>4, <2>1, <2>2
<1>6. CASE w # NewUnit
  <2>1. ref_cnt'[w] = ref_cnt[w] /\ held'[w] = held[w]
    BY <1>1, <1>6 DEF IInv, TypeOK
  <2> QED BY <1>3, <1>4, <2>1, CountAt
<1> QED BY <1>5, <1>6

(* A value handed over to a new cell has a field where it had the caller.   *)
LEMMA CountPut ==
  ASSUME IInv, ~Clearing, NEW v \in Value, Owns(v), HandOver(v), mem_alloc(v),
         NEW p \in Field, elems[p] = NoCell, elems' = [elems EXCEPT ![p] = NewCell],
         UNCHANGED <<ref_cnt, direct, lost>>
  PROVE  CountExact'
<1> SUFFICES ASSUME NEW w \in Unit PROVE ref_cnt'[w] = Holders(w)'
  BY DEF CountExact
<1>1. NewCell \in Cell /\ Fresh(elems, NewCell) /\ Put(memory', memory, NewCell, v)
  BY MemAllocFacts DEF IInv
<1>2. Put(elems', elems, p, NewCell) /\ v \in Value0
  BY DEF Put, Value, Value0
<1>3. Cells(w)' = Cells(w) + One(v, w)
  BY <1>1, <1>2, ElemsType, RefsFresh DEF Cells, CellRefs
<1>4. held'[w] = held[w] - One(v, w)
  BY HandOverFacts DEF IInv
<1>5. Slots(w)' = Slots(w)
  BY DEF Slots, DirectRefs, SlotsOf
<1>6. One(v, w) \in Nat
  BY DEF One
<1>7. Holders(w)' = Cells(w)' + Slots(w)' + held'[w] + lost'[w]
  BY DEF Holders, Cells, Slots
<1> QED BY <1>3, <1>4, <1>5, <1>6, <1>7, CountAt

(* A reference of a function is dropped.                                    *)
LEMMA CountDirect ==
  ASSUME IInv, ~Clearing, NEW q \in Direct, direct' = [direct EXCEPT ![q] = NoAddr],
         del_reference(direct[q]), UNCHANGED <<elems, memory, held, lost>>
  PROVE  CountExact'
<1> SUFFICES ASSUME NEW w \in Unit PROVE ref_cnt'[w] = Holders(w)'
  BY DEF CountExact
<1>1. Slots(w)' = Slots(w) - One(direct[q], w)
  BY ElemsType, DirectDrop DEF Slots, DirectRefs
<1>2. ref_cnt'[w] = ref_cnt[w] - One(direct[q], w)
  BY DirectIsLive, CountDel
<1>3. Cells(w)' = Cells(w)
  BY DEF Cells, CellRefs, RefsOf
<1>4. One(direct[q], w) \in Nat
  BY DEF One
<1>5. Holders(w)' = Cells(w)' + Slots(w)' + held'[w] + lost'[w]
  BY DEF Holders, Cells, Slots
<1> QED BY <1>1, <1>2, <1>3, <1>4, <1>5, CountAt

(* The caller's reference becomes one of a function.                        *)
LEMMA CountGive ==
  ASSUME IInv, ~Clearing, NEW q \in Direct, NEW v \in Unit, direct[q] = NoAddr,
         Owns(v), HandOver(v), direct' = [direct EXCEPT ![q] = v],
         UNCHANGED <<ref_cnt, elems, memory, lost>>
  PROVE  CountExact'
<1> SUFFICES ASSUME NEW w \in Unit PROVE ref_cnt'[w] = Holders(w)'
  BY DEF CountExact
<1>1. Slots(w)' = Slots(w) + One(v, w)
  BY ElemsType, DirectFresh DEF Slots, DirectRefs
<1>2. held'[w] = held[w] - One(v, w)
  BY HandOverFacts DEF IInv, Value
<1>3. Cells(w)' = Cells(w)
  BY DEF Cells, CellRefs, RefsOf
<1>4. One(v, w) \in Nat
  BY DEF One
<1>5. Holders(w)' = Cells(w)' + Slots(w)' + held'[w] + lost'[w]
  BY DEF Holders, Cells, Slots
<1> QED BY <1>1, <1>2, <1>3, <1>4, <1>5, CountAt

LEMMA CountContinue ==
  ASSUME IInv, Continue
  PROVE  CountExact'
<1>1. CASE Destroy
  <2>1. op' = op
    BY <1>1 DEF Destroy, DestroyField, DestroyCell, DestroyDirect, DestroyReturn
  <2>2. CASE Clearing
    BY <2>1, <2>2 DEF CountExact, Clearing
  <2>3. CASE ~Clearing /\ DestroyField
    <3>0. Head(dying) \in Unit
      BY <2>3, DyingHead DEF DestroyField
    <3>1. PICK l \in Label : /\ elems[<<Head(dying), l>>] # NoCell
                             /\ mem_free(<<Head(dying), l>>, Head(dying))
      BY <2>3 DEF DestroyField
    <3>2. <<Head(dying), l>> \in Field
      BY <3>0 DEF Field
    <3> QED BY <2>3, <3>1, <3>2, CountFree DEF DestroyField, mem_free, objects, caller
  <2>4. CASE ~Clearing /\ DestroyDirect
    <3>0. Head(dying) \in Unit
      BY <2>4, DyingHead DEF DestroyDirect
    <3>1. PICK s \in Slot : /\ direct' = [direct EXCEPT ![<<Head(dying), s>>] = NoAddr]
                            /\ del_reference(direct[<<Head(dying), s>>])
      BY <2>4 DEF DestroyDirect
    <3>2. <<Head(dying), s>> \in Direct
      BY <3>0 DEF Direct
    <3> QED BY <2>4, <3>1, <3>2, CountDirect DEF DestroyDirect, caller
  <2>5. CASE DestroyCell \/ DestroyReturn
    BY <2>1, <2>5, CountKept
       DEF IInv, DestroyCell, DestroyReturn, objects, caller, Clearing
  <2> QED BY <1>1, <2>2, <2>3, <2>4, <2>5 DEF Destroy
<1>2. CASE MemFreeReturn
  <2>1. Clearing => Clearing'
    BY <1>2 DEF MemFreeReturn, Clearing
  <2> QED BY <1>2, <2>1, CountKept DEF IInv, MemFreeReturn, objects, caller
<1>3. CASE DelScopeField
  <2>1. op.a \in Unit /\ op.kind = "del_scope"
    BY <1>3 DEF DelScopeField, IInv, OpInv
  <2>2. PICK l \in ScopeLabel(op.a) : /\ elems[<<op.a, l>>] # NoCell
                                      /\ mem_free(<<op.a, l>>, NoAddr)
    BY <1>3 DEF DelScopeField
  <2>3. <<op.a, l>> \in Field
    <3>1. size[op.a] \in 0..(MaxIndex + 1) /\ size[op.a] > 0
      BY <2>1 DEF IInv, OpInv, TypeOK
    <3> QED BY <2>1, <3>1, LabelAssumption DEF ScopeLabel, Field, Label
  <2> QED BY <1>3, <2>1, <2>2, <2>3, CountFree
          DEF DelScopeField, mem_free, objects, caller, Clearing
<1>4. CASE DelScopeReturn
  BY <1>4, CountKept DEF IInv, DelScopeReturn, caller, Clearing
<1>5. CASE SetClosureAlloc
  <2>1. ~Clearing /\ gc_alloc("closure") /\ "closure" \in Type
    BY <1>5 DEF SetClosureAlloc, Clearing, Type
  <2> QED BY <1>5, <2>1, CountAlloc DEF SetClosureAlloc
<1>6. CASE SetClosureCopy
  <2>0. ~Clearing /\ op.kind = "set_closure"
    BY <1>6 DEF SetClosureCopy, Clearing
  <2>1. op.src \in Unit /\ op.a \in Unit
    BY <2>0, OpSources, OpTargets
  <2>2. PICK l \in Fields(op.src) \ Fields(op.a) :
             /\ mem_alloc(memory[elems[<<op.src, l>>]])
             /\ add_reference(memory[elems[<<op.src, l>>]])
             /\ elems' = [elems EXCEPT ![<<op.a, l>>] = NewCell]
    BY <1>6 DEF SetClosureCopy
  <2> DEFINE v == memory[elems[<<op.src, l>>]]
             p == <<op.a, l>>
  <2>3. p \in Field /\ elems[p] = NoCell /\ <<op.src, l>> \in Field
        /\ elems[<<op.src, l>>] # NoCell
    BY <2>1, <2>2 DEF Fields, Field
  <2>4. v \in Value /\ (v = NoAddr \/ Live(v))
    BY <2>0, <2>3, StoredIsLive
  <2>5. mem_alloc(v) /\ add_reference(v) /\ elems' = [elems EXCEPT ![p] = NewCell]
    BY <2>2
  <2>6. UNCHANGED <<direct, held, lost>>
    BY <1>6 DEF SetClosureCopy, objects, caller
  <2> HIDE DEF v, p
  <2> SUFFICES ASSUME NEW w \in Unit PROVE ref_cnt'[w] = Holders(w)'
    BY DEF CountExact
  <2>7. NewCell \in Cell /\ Fresh(elems, NewCell) /\ Put(memory', memory, NewCell, v)
    BY <2>4, <2>5, MemAllocFacts DEF IInv
  <2>8. Put(elems', elems, p, NewCell) /\ v \in Value0
    BY <2>4, <2>5 DEF Put, Value, Value0
  <2>9. Cells(w)' = Cells(w) + One(v, w)
    BY <2>3, <2>7, <2>8, ElemsType, RefsFresh DEF Cells, CellRefs
  <2>10. ref_cnt'[w] = ref_cnt[w] + One(v, w)
    <3>1. /\ ref_cnt'[w] = IF w = v /\ ~collected[w] THEN ref_cnt[w] + 1 ELSE ref_cnt[w]
          /\ ref_cnt[w] \in Nat
      BY <2>4, <2>5, AddReferenceFacts DEF IInv, TypeOK
    <3> QED BY <2>4, <3>1, Addresses DEF Live, One
  <2>11. Slots(w)' = Slots(w)
    BY <2>6 DEF Slots, DirectRefs, SlotsOf
  <2>12. One(v, w) \in Nat
    BY DEF One
  <2>13. Holders(w)' = Cells(w)' + Slots(w)' + held'[w] + lost'[w]
    BY DEF Holders, Cells, Slots
  <2> QED BY <2>0, <2>6, <2>9, <2>10, <2>11, <2>12, <2>13, CountAt
<1>7. CASE SetClosureReturn
  <2>0. ~Clearing /\ op.kind = "set_closure"
    BY <1>7 DEF SetClosureReturn, Clearing
  <2>1. op.a \in Unit /\ held[op.a] > 0 /\ op.fn \in Unit /\ direct[<<op.fn, 0>>] = NoAddr
    BY <2>0 DEF IInv, OpInv
  <2>2. <<op.fn, 0>> \in Direct
    BY <2>1, BoundAssumption DEF Direct, Slot
  <2> QED BY <1>7, <2>0, <2>1, <2>2, CountGive DEF SetClosureReturn, Owns
<1>8. CASE ClearStep
  BY <1>8 DEF ClearStep, CountExact, Clearing, IInv, TypeOK
<1>9. CASE ClearEnd
  <2>1. \A u \in Unit : collected[u]
    BY <1>9, ClearedAll DEF ClearEnd
  <2>2. Elements(dying) = {}
    BY <1>9 DEF ClearEnd, Elements
  <2>3. \A u \in Unit : Emptied(u) /\ ref_cnt[u] = 0
    BY <2>1, <2>2 DEF IInv, UnitInv, DeadInv, LiveInv
  <2>4. (\A p \in Field : elems'[p] = NoCell) /\ (\A q \in Direct : direct'[q] = NoAddr)
    BY <1>9, <2>3 DEF Emptied, Field, Direct, ClearEnd, objects
  <2> SUFFICES ASSUME NEW w \in Unit PROVE ref_cnt'[w] = Holders(w)'
    BY DEF CountExact
  <2>5. CellRefs(w)' = {} /\ DirectRefs(w)' = {}
    BY <2>4, Addresses DEF CellRefs, RefsOf, DirectRefs, SlotsOf
  <2>6. ref_cnt'[w] = 0 /\ held'[w] = 0 /\ lost'[w] = 0
    BY <1>9, <2>3 DEF ClearEnd
  <2> QED BY <2>5, <2>6, FS_EmptySet DEF Holders
<1> QED BY <1>1, <1>2, <1>3, <1>4, <1>5, <1>6, <1>7, <1>8, <1>9 DEF Continue

LEMMA CountCall ==
  ASSUME IInv, Call
  PROVE  CountExact'
<1>a. Idle => ~Clearing
  BY DEF Idle, NoOp, Operate, Clearing
<1>b. ASSUME Idle, NEW a \in Unit, PinnedBy(held, a) PROVE Live(a)
  BY <1>a, <1>b, PinnedIsLive DEF IInv, UnitInv
<1>1. ASSUME NEW t \in Kind, GcAlloc(t) PROVE CountExact'
  <2>1. ~Clearing /\ t \in Type
    BY <1>1, <1>a, KindAssumption DEF GcAlloc
  <2> QED BY <1>1, <2>1, CountAlloc DEF GcAlloc
<1>2. ASSUME NEW v \in Unit, AddReference(v) PROVE CountExact'
  <2> SUFFICES ASSUME NEW w \in Unit PROVE ref_cnt'[w] = Holders(w)'
    BY DEF CountExact
  <2>1. v \in Value /\ Live(v) /\ add_reference(v) /\ ~Clearing
    BY <1>2, <1>a DEF AddReference, Value
  <2>2. ref_cnt'[w] = ref_cnt[w] + One(v, w)
    <3>1. /\ ref_cnt'[w] = IF w = v /\ ~collected[w] THEN ref_cnt[w] + 1 ELSE ref_cnt[w]
          /\ ref_cnt[w] \in Nat
      BY <2>1, AddReferenceFacts DEF IInv, TypeOK
    <3> QED BY <2>1, <3>1 DEF Live, One
  <2>3. held'[w] = held[w] + One(v, w)
    BY <1>2 DEF AddReference, IInv, TypeOK, One
  <2>4. Cells(w)' = Cells(w) /\ Slots(w)' = Slots(w) /\ lost' = lost
    BY <1>2 DEF AddReference, objects, Cells, CellRefs, RefsOf, Slots, DirectRefs, SlotsOf
  <2>5. Holders(w)' = Cells(w)' + Slots(w)' + held'[w] + lost'[w]
    BY DEF Holders, Cells, Slots
  <2>6. One(v, w) \in Nat
    BY DEF One
  <2> QED BY <2>1, <2>2, <2>3, <2>4, <2>5, <2>6, CountAt
<1>3. ASSUME NEW v \in Unit, DelReference(v) PROVE CountExact'
  <2> SUFFICES ASSUME NEW w \in Unit PROVE ref_cnt'[w] = Holders(w)'
    BY DEF CountExact
  <2>1. v \in Value /\ held[v] > 0 /\ del_reference(v) /\ ~Clearing
    BY <1>3, <1>a DEF DelReference, Value
  <2>2. Live(v)
    BY <1>3, <1>b, <2>1 DEF PinnedBy, DelReference
  <2>3. ref_cnt'[w] = ref_cnt[w] - One(v, w)
    BY <2>1, <2>2, CountDel
  <2>4. held'[w] = held[w] - One(v, w)
    BY <1>3 DEF DelReference, IInv, TypeOK, One
  <2>5. Cells(w)' = Cells(w) /\ Slots(w)' = Slots(w) /\ lost' = lost
    BY <1>3 DEF DelReference, objects, Cells, CellRefs, RefsOf, Slots, DirectRefs, SlotsOf
  <2>6. Holders(w)' = Cells(w)' + Slots(w)' + held'[w] + lost'[w]
    BY DEF Holders, Cells, Slots
  <2>7. One(v, w) \in Nat
    BY DEF One
  <2> QED BY <2>1, <2>3, <2>4, <2>5, <2>6, <2>7, CountAt
<1>4. ASSUME NEW a \in Unit, NEW v \in Value, VectorAddElem(a, v) PROVE CountExact'
  <2>1. Live(a) /\ type[a] = "vector" /\ ~Clearing
    BY <1>4, <1>a, <1>b DEF VectorAddElem, Pinned
  <2>2. size[a] \in 0..MaxIndex /\ ~(size[a] < size[a])
    BY <1>4, LabelAssumption DEF VectorAddElem, IInv, TypeOK
  <2>3. elems[<<a, <<size[a], Elem>>>>] = NoCell /\ <<a, <<size[a], Elem>>>> \in Field
    BY <2>1, <2>2 DEF IInv, VectorInv, Field, Label
  <2> QED BY <1>4, <2>1, <2>3, CountPut DEF VectorAddElem
<1>5. ASSUME NEW a \in Unit, VectorDelElem(a) PROVE CountExact'
  <2> DEFINE p == <<a, <<size[a] - 1, Elem>>>>
             v == memory[elems[p]]
  <2>1. Live(a) /\ type[a] = "vector" /\ ~Clearing
    BY <1>5, <1>a, <1>b DEF VectorDelElem, Pinned
  <2>2. size[a] - 1 \in 0..MaxIndex /\ size[a] - 1 < size[a]
    <3>1. size[a] \in 0..(MaxIndex + 1) /\ size[a] > 0
      BY <1>5 DEF VectorDelElem, IInv, TypeOK
    <3> QED BY <3>1, LabelAssumption
  <2>3. p \in Field /\ elems[p] # NoCell
    BY <2>1, <2>2 DEF IInv, VectorInv, Field, Label
  <2>4. v \in Value /\ (v = NoAddr \/ Live(v))
    BY <2>1, <2>3, StoredIsLive
  <2>5. /\ elems' = [elems EXCEPT ![p] = NoCell]
        /\ held' = IF Live(v) THEN [held EXCEPT ![v] = @ + 1] ELSE held
        /\ UNCHANGED <<ref_cnt, direct, memory, lost>>
    BY <1>5 DEF VectorDelElem
  <2> SUFFICES ASSUME NEW w \in Unit PROVE ref_cnt'[w] = Holders(w)'
    BY DEF CountExact
  <2>6. Cells(w)' = Cells(w) - One(v, w)
    BY <2>3, <2>5, ElemsType, RefsDrop DEF Cells, CellRefs, Put
  <2> HIDE DEF p, v
  <2>7. held'[w] = held[w] + One(v, w)
    <3>1. CASE v = NoAddr
      BY <2>5, <3>1, Addresses DEF One, Live, IInv, TypeOK
    <3>2. CASE Live(v)
      <4>1. v \in Unit /\ held' = [held EXCEPT ![v] = @ + 1] /\ held \in [Unit -> Nat]
        BY <2>5, <3>2 DEF Live, IInv, TypeOK
      <4>2. held[v] \in Nat /\ held[w] \in Nat
        BY <4>1
      <4> QED BY <4>1, <4>2 DEF One
    <3> QED BY <2>4, <3>1, <3>2
  <2>8. Slots(w)' = Slots(w)
    BY <2>5 DEF Slots, DirectRefs, SlotsOf
  <2>9. Holders(w)' = Cells(w)' + Slots(w)' + held'[w] + lost'[w]
    BY DEF Holders, Cells, Slots
  <2>10. One(v, w) \in Nat
    BY DEF One
  <2> QED BY <2>1, <2>5, <2>6, <2>7, <2>8, <2>9, <2>10, CountAt
<1>6. ASSUME NEW a \in Unit, ClosureAddScope(a) \/ ClosureDelScope(a) PROVE CountExact'
  BY <1>6, <1>a, CountKept DEF IInv, ClosureAddScope, ClosureDelScope, objects, caller, Clearing
<1>7. ASSUME NEW a \in Unit, NEW k \in Name, HashDelElem(a, k) PROVE CountExact'
  <2>1. <<a, <<0, k>>>> \in Field
    BY LabelAssumption DEF Field, Label
  <2> QED BY <1>7, <1>a, <2>1, CountFree DEF HashDelElem, mem_free, objects, caller
<1>8. ASSUME NEW a \in Unit, NEW k \in Name, NEW v \in Value, HashAddElem(a, k, v)
      PROVE  CountExact'
  <2>1. <<a, <<0, k>>>> \in Field
    BY LabelAssumption DEF Field, Label
  <2> QED BY <1>8, <1>a, <2>1, CountPut DEF HashAddElem, objects
<1>9. ASSUME NEW a \in Unit, NEW k \in Name, NEW v \in Value, HashAddElemAgain(a, k, v)
      PROVE  CountExact'
  <2> SUFFICES ASSUME NEW w \in Unit PROVE ref_cnt'[w] = Holders(w)'
    BY DEF CountExact
  <2>1. held'[w] = held[w] - One(v, w) /\ ~Clearing
    BY <1>9, <1>a, HandOverFacts DEF HashAddElemAgain, IInv
  <2>2. lost'[w] = lost[w] + One(v, w)
    <3>1. v \in Unit /\ lost' = [lost EXCEPT ![v] = @ + 1] /\ lost \in [Unit -> Nat]
      BY <1>9 DEF HashAddElemAgain, IInv, TypeOK, Value
    <3>2. lost[v] \in Nat /\ lost[w] \in Nat
      BY <3>1
    <3> QED BY <3>1, <3>2 DEF One
  <2>3. Cells(w)' = Cells(w) /\ Slots(w)' = Slots(w) /\ ref_cnt' = ref_cnt
    BY <1>9 DEF HashAddElemAgain, objects, Cells, CellRefs, RefsOf, Slots, DirectRefs, SlotsOf
  <2>4. Holders(w)' = Cells(w)' + Slots(w)' + held'[w] + lost'[w]
    BY DEF Holders, Cells, Slots
  <2>5. One(v, w) \in Nat
    BY DEF One
  <2> QED BY <2>1, <2>2, <2>3, <2>4, <2>5, CountAt
<1>10. ASSUME NEW a \in Unit, NEW x \in Name, NEW v \in Value, ClosureAddNewValue(a, x, v)
       PROVE  CountExact'
  <2> DEFINE p == <<a, <<size[a] - 1, x>>>>
  <2>1. p \in Field
    <3>1. size[a] \in 0..(MaxIndex + 1) /\ size[a] > 0
      BY <1>10 DEF ClosureAddNewValue, IInv, TypeOK
    <3>2. size[a] - 1 \in 0..MaxIndex
      BY <3>1, LabelAssumption
    <3> QED BY <3>2 DEF Field, Label
  <2>2. /\ mem_alloc(v) /\ elems' = [elems EXCEPT ![p] = NewCell] /\ ~Clearing
        /\ Owns(v) /\ HandOver(v) /\ UNCHANGED <<direct, lost>>
    BY <1>10, <1>a DEF ClosureAddNewValue, objects
  <2>3. CASE elems[p] = NoCell
    <3>1. ref_cnt' = ref_cnt
      BY <1>10, <2>3 DEF ClosureAddNewValue
    <3> HIDE DEF p
    <3> QED BY <2>1, <2>2, <2>3, <3>1, CountPut
  <2>4. CASE elems[p] # NoCell
    <3>1. del_reference(memory[elems[p]])
      BY <1>10, <2>4 DEF ClosureAddNewValue
    <3> HIDE DEF p
    <3> SUFFICES ASSUME NEW w \in Unit PROVE ref_cnt'[w] = Holders(w)'
      BY DEF CountExact
    <3>2. NewCell \in Cell /\ Fresh(elems, NewCell) /\ Put(memory', memory, NewCell, v)
      BY <2>2, MemAllocFacts DEF IInv
    <3>3. Put(elems', elems, p, NewCell) /\ v \in Value0
      BY <2>2 DEF Put, Value, Value0
    <3>4. Cells(w)' = Cells(w) - One(memory[elems[p]], w) + One(v, w)
      BY <2>1, <2>4, <3>2, <3>3, ElemsType, RefsReplace DEF Cells, CellRefs
    <3>5. held'[w] = held[w] - One(v, w)
      BY <2>2, HandOverFacts DEF IInv
    <3>6. ref_cnt'[w] = ref_cnt[w] - One(memory[elems[p]], w)
      BY <2>1, <2>2, <2>4, <3>1, StoredIsLive, CountDel
    <3>7. Slots(w)' = Slots(w)
      BY <2>2 DEF Slots, DirectRefs, SlotsOf
    <3>8. Holders(w)' = Cells(w)' + Slots(w)' + held'[w] + lost'[w]
      BY DEF Holders, Cells, Slots
    <3>9. One(v, w) \in Nat /\ One(memory[elems[p]], w) \in Nat
      BY DEF One
    <3> QED BY <2>2, <3>4, <3>5, <3>6, <3>7, <3>8, <3>9, CountAt
  <2> QED BY <2>3, <2>4
<1>11. ASSUME NEW p \in Field, NEW v \in Value, MemChange(p, v) PROVE CountExact'
  <2>1. /\ elems[p] # NoCell /\ Owns(v) /\ HandOver(v) /\ ~Clearing
        /\ Put(memory', memory, elems[p], v) /\ del_reference(memory[elems[p]])
        /\ UNCHANGED <<elems, direct, lost>>
    BY <1>11, <1>a DEF MemChange, Put, objects
  <2> SUFFICES ASSUME NEW w \in Unit PROVE ref_cnt'[w] = Holders(w)'
    BY DEF CountExact
  <2>2. Cells(w)' = Cells(w) - One(memory[elems[p]], w) + One(v, w)
    <3>1. v \in Value0 /\ \A q \in Field : elems[q] = elems[p] => q = p
      BY <2>1 DEF IInv, CellInv, FieldCellInv, Value, Value0
    <3>2. Cardinality(RefsOf(elems, memory', w))
            = Cardinality(RefsOf(elems, memory, w)) - One(memory[elems[p]], w) + One(v, w)
      BY <2>1, <3>1, ElemsType, RefsStore
    <3> QED BY <2>1, <3>2 DEF Cells, CellRefs
  <2>3. held'[w] = held[w] - One(v, w)
    BY <2>1, HandOverFacts DEF IInv
  <2>4. ref_cnt'[w] = ref_cnt[w] - One(memory[elems[p]], w)
    BY <2>1, StoredIsLive, CountDel
  <2>5. Slots(w)' = Slots(w)
    BY <2>1 DEF Slots, DirectRefs, SlotsOf
  <2>6. Holders(w)' = Cells(w)' + Slots(w)' + held'[w] + lost'[w]
    BY DEF Holders, Cells, Slots
  <2>7. One(v, w) \in Nat /\ One(memory[elems[p]], w) \in Nat
    BY DEF One
  <2> QED BY <2>1, <2>2, <2>3, <2>4, <2>5, <2>6, <2>7, CountAt
<1>12. ASSUME NEW f \in Unit, NEW s \in Slot, NEW v \in Value, FunctionAddPara(f, s, v)
       PROVE  CountExact'
  <2>1. v \in Unit /\ <<f, s>> \in Direct
    BY <1>12 DEF FunctionAddPara, Value, Direct
  <2> QED BY <1>12, <1>a, <2>1, CountGive DEF FunctionAddPara
<1>13. ASSUME NEW f \in Unit, NEW src \in Unit, FunctionSetClosure(f, src) PROVE CountExact'
  <2>1. <<f, 0>> \in Direct
    BY BoundAssumption DEF Direct, Slot
  <2> QED BY <1>13, <1>a, <2>1, CountDirect DEF FunctionSetClosure, caller
<1>14. CASE ClearBegin
  BY <1>14 DEF ClearBegin, CountExact, Clearing, Operate
<1> QED
  BY <1>1, <1>2, <1>3, <1>4, <1>5, <1>6, <1>7, <1>8, <1>9, <1>10, <1>11, <1>12, <1>13, <1>14
     DEF Call

LEMMA CountStep ==
  ASSUME IInv, [Next]_vars
  PROVE  CountExact'
<1>1. CASE UNCHANGED vars
  BY <1>1, CountKept DEF IInv, vars, Clearing
<1> QED BY <1>1, CountContinue, CountCall DEF Next

-----------------------------------------------------------------------------
(* The elements of vectors.                                                 *)

(* A vector in use was one before the step and has the same elements.       *)
SameVector(a) ==
  /\ Live(a) /\ type[a] = "vector" /\ size'[a] = size[a]
  /\ \A i \in 0..MaxIndex : elems'[<<a, <<i, Elem>>>>] = elems[<<a, <<i, Elem>>>>]

LEMMA VectorKept ==
  ASSUME VectorInv, \A a \in Unit : Live(a)' /\ type'[a] = "vector" => SameVector(a)
  PROVE  VectorInv'
BY DEF VectorInv, SameVector

(* del_reference makes no value live.                                       *)
LEMMA DelLive ==
  ASSUME IInv, NEW v \in Value, del_reference(v), NEW a \in Unit, Live(a)'
  PROVE  Live(a)
BY DelReferenceFacts DEF IInv, Live

(* A name is no label of an element.                                        *)
LEMMA NameElem ==
  ASSUME NEW a, NEW b, NEW d, NEW x \in Name, NEW i
  PROVE  <<a, <<d, x>>>> # <<b, <<i, Elem>>>>
BY LabelAssumption

LEMMA VectorUntouched ==
  ASSUME IInv, \A a \in Unit : Live(a)' => Live(a), UNCHANGED <<type, size>>,
         \A a \in Unit, i \in 0..MaxIndex : Live(a)' /\ type[a] = "vector" =>
           elems'[<<a, <<i, Elem>>>>] = elems[<<a, <<i, Elem>>>>]
  PROVE  VectorInv'
BY VectorKept DEF IInv, SameVector

(* A new unit is a vector without elements, or no vector.                   *)
LEMMA VectorAlloc ==
  ASSUME IInv, NEW t \in Type, gc_alloc(t), UNCHANGED elems,
         NEW n \in Nat, size' = [size EXCEPT ![NewUnit] = n], t = "vector" => n = 0
  PROVE  VectorInv'
<1>1. NewUnit \in Unit /\ collected[NewUnit] /\ NewUnit \notin Elements(dying)
  BY GcAllocFacts DEF IInv
<1>2. Emptied(NewUnit)
  BY <1>1 DEF IInv, UnitInv, DeadInv
<1> SUFFICES ASSUME NEW a \in Unit, Live(a)', type'[a] = "vector", NEW i \in 0..MaxIndex
             PROVE  elems'[<<a, <<i, Elem>>>>] # NoCell <=> i < size'[a]
  BY DEF VectorInv
<1>3. CASE a = NewUnit
  <2>1. size'[a] = 0 /\ <<i, Elem>> \in Label
    BY <1>3 DEF gc_alloc, IInv, TypeOK, Label
  <2> QED BY <1>2, <1>3, <2>1 DEF Emptied
<1>4. CASE a # NewUnit
  <2>1. Live(a) /\ type[a] = "vector" /\ size'[a] = size[a]
    BY <1>4 DEF gc_alloc, IInv, TypeOK, Live
  <2> QED BY <2>1 DEF IInv, VectorInv
<1> QED BY <1>3, <1>4

LEMMA VectorContinue ==
  ASSUME IInv, Continue
  PROVE  VectorInv'
<1>1. CASE Destroy
  <2>0. dying # <<>> /\ Head(dying) \in Unit /\ collected[Head(dying)]
    BY <1>1, DyingHead DEF Destroy, DestroyField, DestroyCell, DestroyDirect, DestroyReturn
  <2>1. CASE DestroyField
    <3>1. PICK l \in Label : /\ elems[<<Head(dying), l>>] # NoCell
                             /\ mem_free(<<Head(dying), l>>, Head(dying))
      BY <2>1 DEF DestroyField
    <3>2. <<Head(dying), l>> \in Field
      BY <2>0 DEF Field
    <3>3. memory[elems[<<Head(dying), l>>]] \in Value
          /\ del_reference(memory[elems[<<Head(dying), l>>]])
      BY <3>1, <3>2 DEF mem_free, IInv, TypeOK, Value
    <3>4. \A a \in Unit : Live(a)' => Live(a)
      BY <3>3, DelLive
    <3>5. \A a \in Unit, i \in 0..MaxIndex : Live(a) =>
            elems'[<<a, <<i, Elem>>>>] = elems[<<a, <<i, Elem>>>>]
      BY <2>0, <3>1, <3>2 DEF mem_free, Live, IInv, TypeOK, Field, Label
    <3> QED BY <2>1, <3>4, <3>5, VectorUntouched DEF DestroyField, objects
  <2>2. CASE DestroyDirect
    <3>1. PICK s \in Slot : del_reference(direct[<<Head(dying), s>>])
      BY <2>2 DEF DestroyDirect
    <3>2. direct[<<Head(dying), s>>] \in Value
      BY <2>0 DEF IInv, TypeOK, Direct, Value
    <3>3. \A a \in Unit : Live(a)' => Live(a)
      BY <3>1, <3>2, DelLive
    <3> QED BY <2>2, <3>3, VectorUntouched DEF DestroyDirect
  <2>3. CASE DestroyCell
    BY <2>3, VectorUntouched DEF DestroyCell, objects, Live
  <2>4. CASE DestroyReturn
    <3>1. ASSUME NEW a \in Unit, Live(a)', type'[a] = "vector" PROVE SameVector(a)
      <4>1. Live(a) /\ a # Head(dying)
        BY <2>0, <2>4, <3>1 DEF DestroyReturn, Live
      <4> QED BY <2>4, <3>1, <4>1 DEF DestroyReturn, SameVector, IInv, TypeOK
    <3> QED BY <3>1, VectorKept DEF IInv
  <2> QED BY <1>1, <2>1, <2>2, <2>3, <2>4 DEF Destroy
<1>2. CASE MemFreeReturn
  BY <1>2, VectorUntouched DEF MemFreeReturn, objects, Live
<1>3. CASE DelScopeField
  <2>1. op.a \in Unit
    BY <1>3 DEF DelScopeField, IInv, OpInv
  <2>2. PICK l \in ScopeLabel(op.a) : /\ elems[<<op.a, l>>] # NoCell
                                      /\ mem_free(<<op.a, l>>, NoAddr)
    BY <1>3 DEF DelScopeField
  <2>3. PICK d \in {size[op.a] - 1}, x \in Name : l = <<d, x>>
    BY DEF ScopeLabel
  <2>4. <<op.a, l>> \in Field
    <3>1. size[op.a] \in 0..(MaxIndex + 1) /\ size[op.a] > 0
      BY <1>3, <2>1 DEF IInv, OpInv, TypeOK, DelScopeField
    <3> QED BY <2>1, <3>1, LabelAssumption DEF ScopeLabel, Field, Label
  <2>5. \A a \in Unit : Live(a)' => Live(a)
    <3>1. memory[elems[<<op.a, l>>]] \in Value /\ del_reference(memory[elems[<<op.a, l>>]])
      BY <2>2, <2>4 DEF mem_free, IInv, TypeOK, Value
    <3> QED BY <3>1, DelLive
  <2>6. ASSUME NEW a \in Unit, NEW i \in 0..MaxIndex
        PROVE  elems'[<<a, <<i, Elem>>>>] = elems[<<a, <<i, Elem>>>>]
    <3>1. <<a, <<i, Elem>>>> # <<op.a, l>> /\ <<a, <<i, Elem>>>> \in Field
      BY <2>3, NameElem DEF Field, Label
    <3> QED BY <2>2, <3>1 DEF mem_free, IInv, TypeOK
  <2> QED BY <1>3, <2>5, <2>6, VectorUntouched DEF DelScopeField, objects
<1>4. CASE DelScopeReturn
  <2>1. op.a \in Unit /\ type[op.a] = "closure"
    BY <1>4 DEF DelScopeReturn, IInv, OpInv
  <2>2. ASSUME NEW a \in Unit, Live(a)', type'[a] = "vector" PROVE SameVector(a)
    BY <1>4, <2>1, <2>2 DEF DelScopeReturn, SameVector, Live, IInv, TypeOK
  <2> QED BY <2>2, VectorKept DEF IInv
<1>5. CASE SetClosureAlloc
  <2>1. gc_alloc("closure") /\ "closure" \in Type /\ "closure" # "vector"
    BY <1>5 DEF SetClosureAlloc, Type
  <2>2. size[op.src] \in Nat
    BY <1>5, OpSources, LabelAssumption DEF SetClosureAlloc, IInv, TypeOK
  <2> QED BY <1>5, <2>1, <2>2, VectorAlloc DEF SetClosureAlloc
<1>6. CASE SetClosureCopy
  <2>1. op.a \in Unit /\ type[op.a] = "closure"
    BY <1>6 DEF SetClosureCopy, IInv, OpInv
  <2>2. PICK l \in Label : elems' = [elems EXCEPT ![<<op.a, l>>] = NewCell]
    BY <1>6 DEF SetClosureCopy, Fields
  <2>3. ASSUME NEW a \in Unit, type[a] = "vector", NEW i \in 0..MaxIndex
        PROVE  elems'[<<a, <<i, Elem>>>>] = elems[<<a, <<i, Elem>>>>]
    <3>1. <<a, <<i, Elem>>>> # <<op.a, l>> /\ <<a, <<i, Elem>>>> \in Field
      BY <2>1, <2>3 DEF Field, Label
    <3> QED BY <2>2, <3>1 DEF IInv, TypeOK
  <2> QED BY <1>6, <2>3, VectorUntouched DEF SetClosureCopy, objects, Live
<1>7. CASE SetClosureReturn
  BY <1>7, VectorUntouched DEF SetClosureReturn, Live
<1>8. CASE ClearStep
  <2>1. \A a \in Unit : Live(a)' => Live(a)
    BY <1>8 DEF ClearStep, Live, IInv, TypeOK
  <2> QED BY <1>8, <2>1, VectorUntouched DEF ClearStep, objects
<1>9. CASE ClearEnd
  BY <1>9, VectorUntouched DEF ClearEnd, objects, Live
<1> QED BY <1>1, <1>2, <1>3, <1>4, <1>5, <1>6, <1>7, <1>8, <1>9 DEF Continue

LEMMA VectorCall ==
  ASSUME IInv, Call
  PROVE  VectorInv'
<1>b. ASSUME Idle, NEW a \in Unit, PinnedBy(held, a) PROVE Live(a)
  <2>1. ~Clearing
    BY <1>b DEF Idle, NoOp, Operate, Clearing
  <2> QED BY <1>b, <2>1, PinnedIsLive DEF IInv, UnitInv
<1>1. ASSUME NEW t \in Kind, GcAlloc(t) PROVE VectorInv'
  <2>1. t \in Type /\ gc_alloc(t)
    BY <1>1, KindAssumption DEF GcAlloc
  <2> DEFINE n == IF t = "closure" THEN 1 ELSE 0
  <2>2. n \in Nat /\ (t = "vector" => n = 0)
    OBVIOUS
  <2>3. size' = [size EXCEPT ![NewUnit] = n] /\ UNCHANGED elems
    BY <1>1 DEF GcAlloc
  <2> HIDE DEF n
  <2> QED BY <2>1, <2>2, <2>3, VectorAlloc
<1>2. ASSUME NEW v \in Unit, AddReference(v) PROVE VectorInv'
  BY <1>2, VectorUntouched DEF AddReference, objects, Live
<1>3. ASSUME NEW v \in Unit, DelReference(v) PROVE VectorInv'
  <2>1. \A a \in Unit : Live(a)' => Live(a)
    BY <1>3, DelLive DEF DelReference, Value
  <2> QED BY <1>3, <2>1, VectorUntouched DEF DelReference, objects
<1>4. ASSUME NEW a \in Unit, NEW v \in Value, VectorAddElem(a, v) PROVE VectorInv'
  <2>1. Live(a) /\ type[a] = "vector" /\ size[a] \in 0..MaxIndex /\ NewCell # NoCell
    <3>1. size[a] \in 0..(MaxIndex + 1) /\ size[a] <= MaxIndex
      BY <1>4 DEF VectorAddElem, IInv, TypeOK
    <3>2. NewCell \in Cell
      BY <1>4, MemAllocFacts DEF VectorAddElem, IInv
    <3> QED BY <1>4, <1>b, <3>1, <3>2, LabelAssumption, Addresses DEF VectorAddElem, Pinned
  <2>2. /\ elems' = [elems EXCEPT ![<<a, <<size[a], Elem>>>>] = NewCell]
        /\ size' = [size EXCEPT ![a] = @ + 1] /\ type' = type /\ collected' = collected
    BY <1>4 DEF VectorAddElem
  <2> SUFFICES ASSUME NEW b \in Unit, Live(b)', type'[b] = "vector", NEW i \in 0..MaxIndex
               PROVE  elems'[<<b, <<i, Elem>>>>] # NoCell <=> i < size'[b]
    BY DEF VectorInv
  <2>3. Live(b) /\ type[b] = "vector" /\ <<b, <<i, Elem>>>> \in Field
    BY <2>2 DEF Live, Field, Label
  <2>4. elems[<<b, <<i, Elem>>>>] # NoCell <=> i < size[b]
    BY <2>3 DEF IInv, VectorInv
  <2>5. size[b] \in Nat /\ i \in Nat
    BY LabelAssumption DEF IInv, TypeOK
  <2>6. CASE b # a
    BY <2>2, <2>3, <2>4, <2>6 DEF IInv, TypeOK
  <2>7. CASE b = a /\ i = size[a]
    BY <2>1, <2>2, <2>3, <2>5, <2>7 DEF IInv, TypeOK
  <2>8. CASE b = a /\ i # size[a]
    <3>1. elems'[<<b, <<i, Elem>>>>] = elems[<<b, <<i, Elem>>>>] /\ size'[b] = size[b] + 1
      BY <2>2, <2>3, <2>8 DEF IInv, TypeOK
    <3> QED BY <2>4, <2>5, <2>8, <3>1
  <2> QED BY <2>6, <2>7, <2>8
<1>5. ASSUME NEW a \in Unit, VectorDelElem(a) PROVE VectorInv'
  <2>1. size[a] \in 0..(MaxIndex + 1) /\ size[a] > 0
    BY <1>5 DEF VectorDelElem, IInv, TypeOK
  <2>2. /\ elems' = [elems EXCEPT ![<<a, <<size[a] - 1, Elem>>>>] = NoCell]
        /\ size' = [size EXCEPT ![a] = @ - 1] /\ type' = type /\ collected' = collected
    BY <1>5 DEF VectorDelElem
  <2> SUFFICES ASSUME NEW b \in Unit, Live(b)', type'[b] = "vector", NEW i \in 0..MaxIndex
               PROVE  elems'[<<b, <<i, Elem>>>>] # NoCell <=> i < size'[b]
    BY DEF VectorInv
  <2>3. Live(b) /\ type[b] = "vector" /\ <<b, <<i, Elem>>>> \in Field
    BY <2>2 DEF Live, Field, Label
  <2>4. elems[<<b, <<i, Elem>>>>] # NoCell <=> i < size[b]
    BY <2>3 DEF IInv, VectorInv
  <2>5. size[b] \in Nat /\ i \in Nat
    BY LabelAssumption DEF IInv, TypeOK
  <2>6. CASE b # a
    BY <2>2, <2>3, <2>4, <2>6 DEF IInv, TypeOK
  <2>7. CASE b = a /\ i = size[a] - 1
    <3>1. elems'[<<b, <<i, Elem>>>>] = NoCell /\ size'[b] = size[b] - 1
      BY <2>2, <2>3, <2>7 DEF IInv, TypeOK
    <3> QED BY <2>5, <2>7, <3>1
  <2>8. CASE b = a /\ i # size[a] - 1
    <3>1. elems'[<<b, <<i, Elem>>>>] = elems[<<b, <<i, Elem>>>>] /\ size'[b] = size[b] - 1
      BY <2>2, <2>3, <2>8 DEF IInv, TypeOK
    <3> QED BY <2>4, <2>5, <2>8, <3>1
  <2> QED BY <2>6, <2>7, <2>8
<1>6. ASSUME NEW a \in Unit, ClosureAddScope(a) PROVE VectorInv'
  <2>1. ASSUME NEW b \in Unit, Live(b)', type'[b] = "vector" PROVE SameVector(b)
    BY <1>6, <2>1 DEF ClosureAddScope, SameVector, Live, IInv, TypeOK
  <2> QED BY <2>1, VectorKept DEF IInv
<1>7. ASSUME NEW a \in Unit, ClosureDelScope(a) PROVE VectorInv'
  BY <1>7, VectorUntouched DEF ClosureDelScope, objects, Live
<1>8. ASSUME NEW a \in Unit, NEW k \in Name, HashDelElem(a, k) PROVE VectorInv'
  <2>1. <<a, <<0, k>>>> \in Field /\ elems[<<a, <<0, k>>>>] # NoCell
    BY <1>8, LabelAssumption DEF Field, Label, HashDelElem
  <2>2. \A b \in Unit : Live(b)' => Live(b)
    <3>1. /\ memory[elems[<<a, <<0, k>>>>]] \in Value
          /\ del_reference(memory[elems[<<a, <<0, k>>>>]])
      BY <1>8, <2>1 DEF HashDelElem, mem_free, IInv, TypeOK, Value
    <3> QED BY <3>1, DelLive
  <2>3. ASSUME NEW b \in Unit, NEW i \in 0..MaxIndex
        PROVE  elems'[<<b, <<i, Elem>>>>] = elems[<<b, <<i, Elem>>>>]
    <3>1. <<b, <<i, Elem>>>> # <<a, <<0, k>>>> /\ <<b, <<i, Elem>>>> \in Field
      BY NameElem DEF Field, Label
    <3> QED BY <1>8, <3>1 DEF HashDelElem, mem_free, IInv, TypeOK
  <2> QED BY <1>8, <2>2, <2>3, VectorUntouched DEF HashDelElem, objects
<1>9. ASSUME NEW a \in Unit, NEW k \in Name, NEW v \in Value, HashAddElem(a, k, v)
      PROVE  VectorInv'
  <2>1. ASSUME NEW b \in Unit, NEW i \in 0..MaxIndex
        PROVE  elems'[<<b, <<i, Elem>>>>] = elems[<<b, <<i, Elem>>>>]
    <3>1. <<b, <<i, Elem>>>> # <<a, <<0, k>>>> /\ <<b, <<i, Elem>>>> \in Field
      BY NameElem DEF Field, Label
    <3> QED BY <1>9, <3>1 DEF HashAddElem, IInv, TypeOK
  <2> QED BY <1>9, <2>1, VectorUntouched DEF HashAddElem, objects, Live
<1>10. ASSUME NEW a \in Unit, NEW k \in Name, NEW v \in Value, HashAddElemAgain(a, k, v)
       PROVE  VectorInv'
  BY <1>10, VectorUntouched DEF HashAddElemAgain, objects, Live
<1>11. ASSUME NEW a \in Unit, NEW x \in Name, NEW v \in Value, ClosureAddNewValue(a, x, v)
       PROVE  VectorInv'
  <2> DEFINE p == <<a, <<size[a] - 1, x>>>>
  <2>1. p \in Field
    <3>1. size[a] \in 0..(MaxIndex + 1) /\ size[a] > 0
      BY <1>11 DEF ClosureAddNewValue, IInv, TypeOK
    <3>2. size[a] - 1 \in 0..MaxIndex
      BY <3>1, LabelAssumption
    <3> QED BY <3>2 DEF Field, Label
  <2>2. elems' = [elems EXCEPT ![p] = NewCell] /\ UNCHANGED <<type, size>>
    BY <1>11 DEF ClosureAddNewValue, objects
  <2>3. \A b \in Unit : Live(b)' => Live(b)
    <3>1. CASE elems[p] = NoCell
      BY <1>11, <3>1 DEF ClosureAddNewValue, Live
    <3>2. CASE elems[p] # NoCell
      <4>1. del_reference(memory[elems[p]])
        BY <1>11, <3>2 DEF ClosureAddNewValue
      <4> HIDE DEF p
      <4>2. memory[elems[p]] \in Value
        BY <2>1, <3>2 DEF IInv, TypeOK, Value
      <4> QED BY <4>1, <4>2, DelLive
    <3> QED BY <3>1, <3>2
  <2>4. ASSUME NEW b \in Unit, NEW i \in 0..MaxIndex
        PROVE  elems'[<<b, <<i, Elem>>>>] = elems[<<b, <<i, Elem>>>>]
    <3>1. <<b, <<i, Elem>>>> # p /\ <<b, <<i, Elem>>>> \in Field
      BY NameElem DEF Field, Label
    <3> QED BY <2>2, <3>1 DEF IInv, TypeOK
  <2> QED BY <2>2, <2>3, <2>4, VectorUntouched
<1>12. ASSUME NEW p \in Field, NEW v \in Value, MemChange(p, v) PROVE VectorInv'
  <2>1. memory[elems[p]] \in Value /\ del_reference(memory[elems[p]])
    BY <1>12 DEF MemChange, IInv, TypeOK, Value
  <2>2. \A b \in Unit : Live(b)' => Live(b)
    BY <2>1, DelLive
  <2> QED BY <1>12, <2>2, VectorUntouched DEF MemChange, objects
<1>13. ASSUME NEW f \in Unit, NEW s \in Slot, NEW v \in Value, FunctionAddPara(f, s, v)
       PROVE  VectorInv'
  BY <1>13, VectorUntouched DEF FunctionAddPara, Live
<1>14. ASSUME NEW f \in Unit, NEW src \in Unit, FunctionSetClosure(f, src) PROVE VectorInv'
  <2>1. <<f, 0>> \in Direct
    BY BoundAssumption DEF Direct, Slot
  <2>2. direct[<<f, 0>>] \in Value /\ del_reference(direct[<<f, 0>>])
    BY <1>14, <2>1 DEF FunctionSetClosure, IInv, TypeOK, Value
  <2>3. \A b \in Unit : Live(b)' => Live(b)
    BY <2>2, DelLive
  <2> QED BY <1>14, <2>3, VectorUntouched DEF FunctionSetClosure
<1>15. CASE ClearBegin
  BY <1>15, VectorUntouched DEF ClearBegin, objects, Live
<1> QED
  BY <1>1, <1>2, <1>3, <1>4, <1>5, <1>6, <1>7, <1>8, <1>9, <1>10, <1>11, <1>12, <1>13,
     <1>14, <1>15 DEF Call

LEMMA VectorStep ==
  ASSUME IInv, [Next]_vars
  PROVE  VectorInv'
<1>1. CASE UNCHANGED vars
  BY <1>1, VectorUntouched DEF vars, Live
<1> QED BY <1>1, VectorContinue, VectorCall DEF Next

-----------------------------------------------------------------------------
(* The operation under way.                                                 *)

LEMMA OpIdle ==
  ASSUME op' = NoOp, freeing'[NoAddr] = NoCell
  PROVE  OpInv'
BY DEF OpInv, NoOp, Operate

(* No operation is under way before the step, nor after it.                 *)
LEMMA OpStays ==
  ASSUME IInv, Idle, UNCHANGED op, freeing'[NoAddr] = freeing[NoAddr]
  PROVE  OpInv'
<1>1. freeing[NoAddr] = NoCell /\ op = NoOp
  BY DEF Idle, IInv, OpInv, NoOp, Operate
<1> QED BY <1>1, OpIdle

(* A unit that loses a field is not the one that keeps a container pinned.  *)
LEMMA StillPinned ==
  ASSUME NEW a \in Unit, NEW d, PinnedBy(held', a),
         d = a \/ ~(held'[d] > 0),
         \A p \in Field : p[1] # d /\ elems[p] # NoCell =>
           elems'[p] # NoCell /\ memory'[elems'[p]] = memory[elems[p]],
         \A q \in Direct : q[1] # d => direct'[q] = direct[q]
  PROVE  PinnedBy(held, a)'
<1>1. CASE held'[a] > 0
  BY <1>1 DEF PinnedBy
<1>2. ASSUME NEW u \in Unit, held'[u] > 0, Refers(u, a), ~(held'[a] > 0)
      PROVE  Refers(u, a)'
  <2>1. u # d
    BY <1>2
  <2>2. CASE \E l \in Label : elems[<<u, l>>] # NoCell /\ memory[elems[<<u, l>>]] = a
    <3>1. PICK l \in Label : elems[<<u, l>>] # NoCell /\ memory[elems[<<u, l>>]] = a
      BY <2>2
    <3>2. <<u, l>> \in Field /\ <<u, l>>[1] # d
      BY <2>1 DEF Field
    <3>3. elems'[<<u, l>>] # NoCell /\ memory'[elems'[<<u, l>>]] = a
      BY <3>1, <3>2
    <3> QED BY <3>3 DEF Refers
  <2>3. CASE \E s \in Slot : direct[<<u, s>>] = a
    <3>1. PICK s \in Slot : direct[<<u, s>>] = a
      BY <2>3
    <3>2. <<u, s>> \in Direct /\ <<u, s>>[1] # d
      BY <2>1 DEF Direct
    <3>3. direct'[<<u, s>>] = a
      BY <3>1, <3>2
    <3> QED BY <3>3 DEF Refers
  <2> QED BY <1>2, <2>2, <2>3 DEF Refers
<1> QED BY <1>1, <1>2 DEF PinnedBy

(* A destructor works on a value that the caller does not hold.             *)
LEMMA OpDestroy ==
  ASSUME IInv, Destroy
  PROVE  OpInv'
<1>1. dying # <<>> /\ UNCHANGED <<op, held, memory, gcSize>>
  BY DEF Destroy, DestroyField, DestroyCell, DestroyDirect, DestroyReturn, queues, caller
<1> DEFINE d == Head(dying)
<1>2. d \in Unit /\ collected[d]
  BY <1>1, DyingHead
<1>3. freeing'[NoAddr] = freeing[NoAddr]
  <2>1. d # NoAddr /\ freeing \in [Unit \cup {NoAddr} -> Cell \cup {NoCell}]
    BY <1>2, Addresses DEF IInv, TypeOK
  <2>2. CASE DestroyField
    BY <2>1, <2>2 DEF DestroyField, mem_free
  <2>3. CASE DestroyCell
    BY <2>1, <2>3 DEF DestroyCell, mem_free_return
  <2>4. CASE DestroyDirect \/ DestroyReturn
    BY <2>4 DEF DestroyDirect, DestroyReturn
  <2> QED BY <2>2, <2>3, <2>4 DEF Destroy
<1>4. /\ \A p \in Field : p[1] # d => elems'[p] = elems[p]
      /\ \A q \in Direct : q[1] # d => direct'[q] = direct[q]
      /\ \A u \in Unit : u # d => size'[u] = size[u] /\ type'[u] = type[u]
  <2>1. CASE DestroyField
    <3>1. PICK l \in Label : elems' = [elems EXCEPT ![<<d, l>>] = NoCell]
      BY <2>1 DEF DestroyField, mem_free
    <3>2. \A p \in Field : p[1] # d => p # <<d, l>>
      OBVIOUS
    <3>3. UNCHANGED <<direct, size, type>>
      BY <2>1 DEF DestroyField, objects
    <3> QED BY <3>1, <3>2, <3>3 DEF IInv, TypeOK
  <2>2. CASE DestroyDirect
    <3>1. PICK s \in Slot : direct' = [direct EXCEPT ![<<d, s>>] = NoAddr]
      BY <2>2 DEF DestroyDirect
    <3>2. \A q \in Direct : q[1] # d => q # <<d, s>>
      OBVIOUS
    <3>3. UNCHANGED <<elems, size, type>>
      BY <2>2 DEF DestroyDirect
    <3> QED BY <3>1, <3>2, <3>3 DEF IInv, TypeOK
  <2>3. CASE DestroyCell
    BY <2>3 DEF DestroyCell, objects
  <2>4. CASE DestroyReturn
    BY <2>4 DEF DestroyReturn, IInv, TypeOK
  <2> QED BY <2>1, <2>2, <2>3, <2>4 DEF Destroy
<1>5. \A u \in Unit : collected[u] => collected'[u]
  <2>1. CASE DestroyField
    <3>1. PICK l \in Label : /\ elems[<<d, l>>] # NoCell /\ mem_free(<<d, l>>, d)
      BY <2>1 DEF DestroyField
    <3>2. <<d, l>> \in Field
      BY <1>2 DEF Field
    <3>3. memory[elems[<<d, l>>]] \in Value /\ del_reference(memory[elems[<<d, l>>]])
      BY <3>1, <3>2 DEF mem_free, IInv, TypeOK, Value
    <3> QED BY <3>3, DelReferenceFacts DEF IInv
  <2>2. CASE DestroyDirect
    <3>1. PICK s \in Slot : del_reference(direct[<<d, s>>])
      BY <2>2 DEF DestroyDirect
    <3>2. direct[<<d, s>>] \in Value
      BY <1>2 DEF IInv, TypeOK, Direct, Value
    <3> QED BY <3>1, <3>2, DelReferenceFacts DEF IInv
  <2>3. CASE DestroyCell \/ DestroyReturn
    BY <2>3 DEF DestroyCell, DestroyReturn
  <2> QED BY <2>1, <2>2, <2>3 DEF Destroy
<1> HIDE DEF d
<1>6. ASSUME ~Clearing, NEW u \in Unit, held[u] > 0 PROVE u # d
  BY <1>2, <1>6, ReferredIsLive DEF IInv, UnitInv, Live
<1>7. CASE op.kind = "idle"
  BY <1>1, <1>3, <1>7, OpIdle DEF IInv, OpInv, NoOp, Operate
<1>8. CASE op.kind = "mem_free"
  <2>1. op.a \in Unit /\ PinnedBy(held', op.a) /\ ~(held'[d] > 0)
    BY <1>1, <1>2, <1>6, <1>8 DEF IInv, OpInv, Clearing
  <2>2. PinnedBy(held, op.a)'
    <3>1. \A p \in Field : p[1] # d /\ elems[p] # NoCell =>
            elems'[p] # NoCell /\ memory'[elems'[p]] = memory[elems[p]]
      BY <1>1, <1>4
    <3>2. PICK a \in Unit : a = op.a
      BY <2>1
    <3>3. PinnedBy(held, a)'
      BY <1>4, <2>1, <3>1, <3>2, StillPinned
    <3> QED BY <1>1, <3>2, <3>3
  <2> QED BY <1>1, <1>8, <2>1, <2>2 DEF IInv, OpInv
<1>9. CASE op.kind = "del_scope"
  <2>1. op.a \in Unit /\ held[op.a] > 0 /\ ~Clearing
    BY <1>9 DEF IInv, OpInv, Clearing
  <2>2. op.a # d
    BY <1>6, <2>1
  <2> QED BY <1>1, <1>4, <1>9, <2>1, <2>2 DEF IInv, OpInv
<1>10. CASE op.kind \in {"reclosure", "set_closure"}
  <2>1. op.fn \in Unit /\ held[op.fn] > 0 /\ ~Clearing
    BY <1>10 DEF IInv, OpInv, Clearing
  <2>2. op.fn # d /\ <<op.fn, 0>> \in Direct /\ <<op.fn, 0>>[1] = op.fn
    BY <1>6, <2>1, BoundAssumption DEF Direct, Slot
  <2>3. direct'[<<op.fn, 0>>] = direct[<<op.fn, 0>>]
    BY <1>4, <2>2
  <2>4. op.kind = "set_closure" => type'[op.a] = type[op.a]
    BY <1>4, <1>6, <2>1 DEF IInv, OpInv
  <2> QED BY <1>1, <1>3, <1>10, <2>3, <2>4 DEF IInv, OpInv
<1>11. CASE op.kind = "clear"
  BY <1>1, <1>3, <1>5, <1>11 DEF IInv, OpInv
<1>12. op.kind \in OpKind
  BY DEF IInv, TypeOK
<1> QED BY <1>7, <1>8, <1>9, <1>10, <1>11, <1>12 DEF OpKind

LEMMA OpContinue ==
  ASSUME IInv, Continue
  PROVE  OpInv'
<1>1. CASE Destroy
  BY <1>1, OpDestroy
<1>2. CASE MemFreeReturn
  <2>1. /\ op' = IF op.kind = "mem_free" THEN NoOp ELSE op
        /\ freeing[NoAddr] # NoCell /\ freeing'[NoAddr] = NoCell
        /\ UNCHANGED <<held, size, type>>
    BY <1>2 DEF MemFreeReturn, mem_free_return, objects, caller, IInv, TypeOK
  <2>2. op.kind \in {"mem_free", "del_scope"}
    BY <2>1 DEF IInv, OpInv
  <2>3. CASE op.kind = "mem_free"
    BY <2>1, <2>3, OpIdle
  <2>4. CASE op.kind = "del_scope"
    BY <2>1, <2>4 DEF IInv, OpInv
  <2> QED BY <2>2, <2>3, <2>4
<1>3. CASE DelScopeField
  BY <1>3 DEF DelScopeField, objects, caller, IInv, OpInv
<1>4. CASE DelScopeReturn
  BY <1>4, OpIdle DEF DelScopeReturn
<1>5. CASE SetClosureAlloc
  <2>1. /\ NewUnit \in Unit /\ op.kind = "reclosure" /\ op \in [kind : OpKind, a : -1..GcMax,
              src : -1..(GcMax - 1), fn : -1..(GcMax - 1)]
        /\ op' = [op EXCEPT !.kind = "set_closure", !.a = NewUnit]
    BY <1>5, GcAllocFacts DEF SetClosureAlloc, IInv, Type, TypeOK
  <2>2. op'.kind = "set_closure" /\ op'.a = NewUnit /\ op'.src = op.src /\ op'.fn = op.fn
    BY <2>1
  <2>3. /\ held' = [held EXCEPT ![NewUnit] = 1] /\ held \in [Unit -> Nat]
        /\ type' = [type EXCEPT ![NewUnit] = "closure"] /\ type \in [Unit -> Type]
        /\ UNCHANGED <<direct, freeing>>
    BY <1>5 DEF SetClosureAlloc, gc_alloc, IInv, TypeOK
  <2>4. held'[NewUnit] > 0 /\ \A u \in Unit : held[u] > 0 => held'[u] > 0
    BY <2>1, <2>3
  <2>5. type'[NewUnit] = "closure"
    BY <2>1, <2>3
  <2>6. /\ op.src \in Unit /\ op.fn \in Unit /\ held[op.src] > 0 /\ held[op.fn] > 0
        /\ direct[<<op.fn, 0>>] = NoAddr /\ freeing[NoAddr] = NoCell
    BY <2>1 DEF IInv, OpInv
  <2> QED BY <2>1, <2>2, <2>3, <2>4, <2>5, <2>6 DEF OpInv
<1>6. CASE SetClosureCopy
  BY <1>6 DEF SetClosureCopy, objects, caller, IInv, OpInv
<1>7. CASE SetClosureReturn
  BY <1>7, OpIdle DEF SetClosureReturn, IInv, OpInv
<1>8. CASE ClearStep
  <2>1. /\ op.kind = "clear" /\ op' = [op EXCEPT !.a = @ + 1] /\ op.a \in 0..gcSize
        /\ op.a < gcSize /\ gcSize \in 0..GcMax /\ freeing[NoAddr] = NoCell
        /\ op \in [kind : OpKind, a : -1..GcMax, src : -1..(GcMax - 1), fn : -1..(GcMax - 1)]
    BY <1>8 DEF ClearStep, IInv, OpInv, TypeOK
  <2>2. op'.kind = "clear" /\ op'.a = op.a + 1 /\ op'.a \in 0..gcSize
    BY <2>1, GcAssumption
  <2>3. UNCHANGED <<gcSize, freeing>>
    BY <1>8 DEF ClearStep, queues
  <2>4. ASSUME NEW u \in Unit, u < op.a + 1 PROVE collected'[u]
    <3>1. u < op.a \/ u = op.a
      BY <2>1, <2>4, Addresses
    <3>2. CASE u < op.a
      <4>1. collected[u]
        BY <2>1, <3>2 DEF IInv, OpInv
      <4> QED BY <1>8, <4>1 DEF ClearStep, IInv, TypeOK
    <3>3. CASE u = op.a
      <4>1. ref_cnt[u] = 0 => collected[u]
        BY DEF IInv, UnitInv, LiveInv
      <4> QED BY <1>8, <3>3, <4>1 DEF ClearStep, IInv, TypeOK
    <3> QED BY <3>1, <3>2, <3>3
  <2> QED BY <2>1, <2>2, <2>3, <2>4 DEF OpInv
<1>9. CASE ClearEnd
  BY <1>9, OpIdle DEF ClearEnd, IInv, OpInv
<1> QED BY <1>1, <1>2, <1>3, <1>4, <1>5, <1>6, <1>7, <1>8, <1>9 DEF Continue

LEMMA OpCall ==
  ASSUME IInv, Call
  PROVE  OpInv'
<1>a. Idle => ~Clearing /\ freeing[NoAddr] = NoCell /\ op = NoOp
  BY DEF Idle, NoOp, Operate, Clearing, IInv, OpInv
<1>1. ASSUME NEW t \in Kind, GcAlloc(t) PROVE OpInv'
  BY <1>1, OpStays DEF GcAlloc
<1>2. ASSUME NEW v \in Unit, AddReference(v) \/ DelReference(v) PROVE OpInv'
  BY <1>2, OpStays DEF AddReference, DelReference
<1>3. ASSUME NEW a \in Unit, NEW v \in Value, VectorAddElem(a, v) PROVE OpInv'
  BY <1>3, OpStays DEF VectorAddElem
<1>4. ASSUME NEW a \in Unit, VectorDelElem(a) \/ ClosureAddScope(a) PROVE OpInv'
  BY <1>4, OpStays DEF VectorDelElem, ClosureAddScope
<1>5. ASSUME NEW a \in Unit, ClosureDelScope(a) PROVE OpInv'
  <2>1. /\ op' = Operate("del_scope", a) /\ held[a] > 0 /\ type[a] = "closure" /\ size[a] > 0
        /\ UNCHANGED <<held, type, size>>
    BY <1>5 DEF ClosureDelScope, objects, caller
  <2> QED BY <2>1 DEF OpInv, Operate
<1>6. ASSUME NEW a \in Unit, NEW k \in Name, HashDelElem(a, k) PROVE OpInv'
  <2>1. <<a, <<0, k>>>> \in Field
    BY LabelAssumption DEF Field, Label
  <2>2. /\ elems' = [elems EXCEPT ![<<a, <<0, k>>>>] = NoCell] /\ PinnedBy(held', a)
        /\ UNCHANGED <<memory, direct, held>> /\ op' = Operate("mem_free", a)
    BY <1>6 DEF HashDelElem, mem_free, objects, caller, Pinned
  <2>3. \A p \in Field : p[1] # a => elems'[p] = elems[p]
    <3>1. \A p \in Field : p[1] # a => p # <<a, <<0, k>>>>
      OBVIOUS
    <3> QED BY <2>2, <3>1 DEF IInv, TypeOK
  <2>4. PinnedBy(held, a)'
    BY <2>2, <2>3, StillPinned
  <2> QED BY <2>2, <2>4 DEF OpInv, Operate
<1>7. ASSUME NEW a \in Unit, NEW k \in Name, NEW v \in Value,
             HashAddElem(a, k, v) \/ HashAddElemAgain(a, k, v)
      PROVE  OpInv'
  BY <1>7, OpStays DEF HashAddElem, HashAddElemAgain
<1>8. ASSUME NEW a \in Unit, NEW x \in Name, NEW v \in Value, ClosureAddNewValue(a, x, v)
      PROVE  OpInv'
  <2> DEFINE p == <<a, <<size[a] - 1, x>>>>
  <2>0. Idle
    BY <1>8 DEF ClosureAddNewValue
  <2>1. CASE elems[p] = NoCell
    <3>1. UNCHANGED <<op, freeing>>
      BY <1>8, <2>1 DEF ClosureAddNewValue
    <3> QED BY <2>0, <3>1, OpStays
  <2>2. CASE elems[p] # NoCell
    <3>1. /\ op' = Operate("mem_free", a) /\ elems' = [elems EXCEPT ![p] = NewCell]
          /\ mem_alloc(v) /\ PinnedBy(held', a) /\ UNCHANGED direct
      BY <1>8, <2>2 DEF ClosureAddNewValue, objects
    <3>2. NewCell \in Cell /\ Fresh(elems, NewCell) /\ Put(memory', memory, NewCell, v)
      BY <3>1, MemAllocFacts DEF IInv
    <3>3. ASSUME NEW q \in Field, q[1] # a, elems[q] # NoCell
          PROVE  elems'[q] # NoCell /\ memory'[elems'[q]] = memory[elems[q]]
      <4>1. q # p
        BY <3>3
      <4>2. elems'[q] = elems[q] /\ elems[q] \in Cell /\ elems[q] # NewCell
        BY <3>1, <3>2, <3>3, <4>1 DEF IInv, TypeOK, Fresh
      <4> QED BY <3>2, <3>3, <4>2 DEF Put, IInv, TypeOK
    <3>4. PinnedBy(held, a)'
      BY <3>1, <3>3, StillPinned
    <3> QED BY <3>1, <3>4 DEF OpInv, Operate
  <2> QED BY <2>1, <2>2
<1>9. ASSUME NEW p \in Field, NEW v \in Value, MemChange(p, v) PROVE OpInv'
  BY <1>9, OpStays DEF MemChange
<1>10. ASSUME NEW f \in Unit, NEW s \in Slot, NEW v \in Value, FunctionAddPara(f, s, v)
       PROVE  OpInv'
  BY <1>10, OpStays DEF FunctionAddPara
<1>11. ASSUME NEW f \in Unit, NEW src \in Unit, FunctionSetClosure(f, src) PROVE OpInv'
  <2>1. /\ op' = [kind |-> "reclosure", a |-> NoAddr, src |-> src, fn |-> f]
        /\ held[f] > 0 /\ held[src] > 0 /\ direct' = [direct EXCEPT ![<<f, 0>>] = NoAddr]
        /\ UNCHANGED <<held, freeing>>
    BY <1>11 DEF FunctionSetClosure, caller
  <2>2. <<f, 0>> \in Direct
    BY BoundAssumption DEF Direct, Slot
  <2>3. direct'[<<f, 0>>] = NoAddr
    BY <2>1, <2>2 DEF IInv, TypeOK
  <2>4. freeing'[NoAddr] = NoCell
    BY <1>11, <1>a, <2>1 DEF FunctionSetClosure
  <2> QED BY <2>1, <2>3, <2>4 DEF OpInv
<1>12. CASE ClearBegin
  <2>1. op' = Operate("clear", 0) /\ UNCHANGED <<freeing, gcSize>> /\ freeing[NoAddr] = NoCell
    BY <1>12, <1>a DEF ClearBegin, queues
  <2>2. 0 \in 0..gcSize /\ \A u \in Unit : ~(u < 0)
    BY Addresses DEF IInv, TypeOK
  <2> QED BY <2>1, <2>2 DEF OpInv, Operate
<1> QED
  BY <1>1, <1>2, <1>3, <1>4, <1>5, <1>6, <1>7, <1>8, <1>9, <1>10, <1>11, <1>12 DEF Call

LEMMA OpStep ==
  ASSUME IInv, [Next]_vars
  PROVE  OpInv'
<1>1. CASE UNCHANGED vars
  BY <1>1 DEF IInv, OpInv, vars, PinnedBy, Refers
<1> QED BY <1>1, OpContinue, OpCall DEF Next

-----------------------------------------------------------------------------
(* The invariant holds initially.                                           *)

LEMMA Initially ==
  ASSUME Init
  PROVE  IInv
<1>1. TypeOK
  <2>1. NoOp \in [kind : OpKind, a : -1..GcMax, src : -1..(GcMax - 1), fn : -1..(GcMax - 1)]
    BY GcAssumption DEF NoOp, Operate, OpKind, NoAddr
  <2>2. 0 \in 0..GcMax /\ 0 \in 0..MemMax /\ 0 \in 0..(MaxIndex + 1)
    BY GcAssumption, MemAssumption, LabelAssumption
  <2> QED BY <2>1, <2>2 DEF Init, TypeOK, Type
<1>2. Elements(<<>>) = {} /\ Injective(<<>>)
  BY DEF Elements, Injective
<1>3. UnitInv
  BY <1>2, Addresses
     DEF Init, UnitInv, DyingInv, GcFreeInv, UnusedInv, DeadInv, LiveInv, Emptied, Field, Direct
<1>4. CellInv
  BY <1>2 DEF Init, CellInv, FieldCellInv, FreeingCellInv, FreeCellInv
<1>5. CountExact
  <2> SUFFICES ASSUME NEW w \in Unit PROVE ref_cnt[w] = Holders(w)
    BY DEF CountExact
  <2>1. CellRefs(w) = {} /\ DirectRefs(w) = {}
    BY Addresses DEF Init, CellRefs, RefsOf, DirectRefs, SlotsOf
  <2> QED BY <2>1, FS_EmptySet DEF Init, Holders
<1>6. OpInv
  BY DEF Init, OpInv, NoOp, Operate
<1>7. VectorInv
  BY DEF Init, VectorInv, Live
<1> QED BY <1>1, <1>3, <1>4, <1>5, <1>6, <1>7 DEF IInv

-----------------------------------------------------------------------------
(* The theorems.                                                            *)

(* IInv holds in every state that the heap can reach.                       *)
THEOREM InductiveInvariant == Spec => []IInv
<1>1. Init => IInv
  BY Initially
<1>2. IInv /\ [Next]_vars => IInv'
  BY TypeStep, UnitStep, CellStep, CountStep, OpStep, VectorStep DEF IInv
<1> QED BY <1>1, <1>2, PTL DEF Spec

(* Every variable of the heap has its type.                                 *)
THEOREM TypeCorrect == Spec => []TypeOK
<1>1. IInv => TypeOK
  BY DEF IInv
<1> QED BY <1>1, InductiveInvariant, PTL

(* add_reference and del_reference keep the count of a value equal to the   *)
(* number of its holders, through every cascade of destructors.             *)
THEOREM CountsAreExact == Spec => []CountExact
<1>1. IInv => CountExact
  BY DEF IInv
<1> QED BY <1>1, InductiveInvariant, PTL

(* Nothing refers to a unit that gc_alloc may hand out again, and a unit    *)
(* nothing refers to is given back.                                         *)
THEOREM NoDanglingNoLeak == Spec => []LiveIffHeld
<1>1. ASSUME IInv PROVE LiveIffHeld
  <2> SUFFICES ASSUME ~Clearing, NEW v \in Unit PROVE Live(v) <=> Holders(v) > 0
    BY DEF LiveIffHeld
  <2>1. ref_cnt[v] = Holders(v) /\ Holders(v) \in Nat /\ (collected[v] <=> ref_cnt[v] = 0)
    BY <1>1, HoldersType DEF IInv, CountExact, UnitInv, LiveInv
  <2> QED BY <2>1 DEF Live
<1> QED BY <1>1, InductiveInvariant, PTL

(* The cascade an operation starts never destroys what it works on.         *)
THEOREM TargetsSurvive == Spec => []TargetSurvives
<1>1. ASSUME IInv PROVE TargetSurvives
  <2> SUFFICES ASSUME ~Clearing, NEW u \in {op.a, op.src, op.fn} \ {NoAddr} PROVE Live(u)
    BY DEF TargetSurvives
  <2>1. op.kind \in {"idle", "mem_free", "del_scope", "reclosure", "set_closure"}
    BY <1>1 DEF IInv, TypeOK, OpKind, Clearing
  <2>2. CASE op.kind = "idle"
    BY <1>1, <2>2 DEF IInv, OpInv, NoOp, Operate
  <2>3. CASE op.kind = "mem_free"
    BY <1>1, <2>3, OpTargets DEF IInv, OpInv
  <2>4. CASE op.kind = "del_scope"
    BY <1>1, <2>4, OpTargets DEF IInv, OpInv
  <2>5. CASE op.kind = "reclosure"
    BY <1>1, <2>5, OpSources DEF IInv, OpInv
  <2>6. CASE op.kind = "set_closure"
    BY <1>1, <2>6, OpTargets, OpSources
  <2> QED BY <2>1, <2>2, <2>3, <2>4, <2>5, <2>6
<1> QED BY <1>1, InductiveInvariant, PTL

(* Outside of vm.clear only a value that nothing holds any more is given to *)
(* its destructor.                                                          *)
THEOREM NothingFreedInUse == Spec => FreedOnlyWhenUnheld
<1>1. ASSUME IInv, IInv', [Next]_vars
      PROVE  [\A v \in Unit : Live(v) /\ collected'[v] => (Clearing \/ Holders(v)' = 0)]_vars
  <2> SUFFICES ASSUME Next, NEW v \in Unit, Live(v), collected'[v], ~Clearing
               PROVE  Holders(v)' = 0
    BY <1>1
  <2>1. CASE Clearing'
    <3>1. ~Continue
      <4>1. op \in [kind : OpKind, a : -1..GcMax, src : -1..(GcMax - 1), fn : -1..(GcMax - 1)]
        BY <1>1 DEF IInv, TypeOK
      <4>2. ~Destroy /\ ~DelScopeField /\ ~SetClosureCopy
        BY <2>1 DEF Destroy, DestroyField, DestroyCell, DestroyDirect, DestroyReturn,
                    DelScopeField, SetClosureCopy, Clearing
      <4>3. ~MemFreeReturn /\ ~DelScopeReturn /\ ~SetClosureReturn
        BY <2>1 DEF MemFreeReturn, DelScopeReturn, SetClosureReturn, Clearing, NoOp, Operate
      <4>4. ASSUME SetClosureAlloc PROVE FALSE
        <5>1. op' = [op EXCEPT !.kind = "set_closure", !.a = NewUnit]
          BY <4>4 DEF SetClosureAlloc
        <5>2. op'.kind = "set_closure"
          BY <4>1, <5>1
        <5> QED BY <2>1, <5>2 DEF Clearing
      <4>5. ~ClearStep /\ ~ClearEnd
        BY DEF ClearStep, ClearEnd, Clearing
      <4> QED BY <4>2, <4>3, <4>4, <4>5 DEF Continue
    <3>2. ASSUME UNCHANGED op PROVE FALSE
      BY <2>1, <3>2 DEF Clearing
    <3>3. ASSUME NEW a, op' = Operate("mem_free", a) \/ op' = Operate("del_scope", a)
          PROVE  FALSE
      BY <2>1, <3>3 DEF Clearing, Operate
    <3>4. ASSUME op'.kind = "reclosure" PROVE FALSE
      BY <2>1, <3>4 DEF Clearing
    <3>5. ASSUME NEW a \in Unit, NEW k \in Name, NEW w \in Value,
                 \/ HashAddElem(a, k, w) \/ HashAddElemAgain(a, k, w)
                 \/ ClosureAddNewValue(a, k, w)
          PROVE  FALSE
      BY <3>2, <3>3, <3>5 DEF HashAddElem, HashAddElemAgain, ClosureAddNewValue
    <3>6. ASSUME NEW a \in Unit, NEW k \in Name,
                 \/ VectorDelElem(a) \/ ClosureAddScope(a) \/ ClosureDelScope(a)
                 \/ HashDelElem(a, k)
          PROVE  FALSE
      BY <3>2, <3>3, <3>6 DEF VectorDelElem, ClosureAddScope, ClosureDelScope, HashDelElem
    <3>7. ASSUME NEW a \in Unit, NEW w \in Value,
                 \/ VectorAddElem(a, w) \/ AddReference(a) \/ DelReference(a)
                 \/ \E t \in Kind : GcAlloc(t)
                 \/ \E p \in Field : MemChange(p, w)
                 \/ \E s \in Slot : FunctionAddPara(a, s, w)
          PROVE  FALSE
      BY <3>2, <3>7 DEF VectorAddElem, AddReference, DelReference, GcAlloc, MemChange,
                        FunctionAddPara
    <3>8. ASSUME NEW f \in Unit, NEW src \in Unit, FunctionSetClosure(f, src) PROVE FALSE
      BY <3>4, <3>8 DEF FunctionSetClosure
    <3>9. CASE ClearBegin
      BY <3>9 DEF ClearBegin, Live
    <3>10. CASE ~ClearBegin
      <4>1. Call /\ \A a \in Unit : ~VectorDelElem(a) /\ ~ClosureAddScope(a) /\ ~ClosureDelScope(a)
        BY <3>1, <3>2, <3>3 DEF Next, VectorDelElem, ClosureAddScope, ClosureDelScope
      <4>2. \A t \in Kind : ~GcAlloc(t)
        BY <3>2 DEF GcAlloc
      <4>3. \A a \in Unit : ~AddReference(a) /\ ~DelReference(a)
        BY <3>2 DEF AddReference, DelReference
      <4> QED BY <3>5, <3>10, <3>6, <3>7, <3>8, <4>1, <4>2, <4>3 DEF Call
    <3> QED BY <3>9, <3>10
  <2>2. CASE ~Clearing'
    BY <1>1, <2>2 DEF IInv, UnitInv, LiveInv, CountExact
  <2> QED BY <2>1, <2>2
<1> QED BY <1>1, InductiveInvariant, PTL DEF Spec, FreedOnlyWhenUnheld
=============================================================================

------------------------- MODULE NasalHeapCoverProofs -------------------------
(* Proofs that NasalHeap loses nothing: each cell and each unit is         *)
(* accounted for exactly once, and vm.clear gets all of them back.         *)
(* NasalHeapProofs shows that none is in two places; here that each is in  *)
(* one.                                                                    *)
EXTENDS NasalHeapProofs

Frame == Unit \cup {NoAddr}

(* A cell ever allocated is free, or of a field, or in a mem_free.         *)
CellSomewhere(c) ==
  \/ c \in Elements(memFree)
  \/ \E p \in Field : elems[p] = c
  \/ \E f \in Frame : freeing[f] = c
CellCover == \A c \in Cell : c < memSize => CellSomewhere(c)

(* A unit not in use is free or dying, but for those clear has destroyed.  *)
UnitCover ==
  ~Clearing => \A u \in Unit :
    u < gcSize /\ collected[u] => u \in Elements(gcFree) \cup Elements(dying)

(* A value that is destroyed has left its unit.                            *)
PlainCover == \A u \in Unit : collected[u] /\ u \notin Elements(dying) => type[u] = "plain"

Cover == CellCover /\ UnitCover /\ PlainCover

LEMMA OldOrNew ==
  ASSUME NEW m \in Nat, NEW n \in Nat, NEW x \in Nat, x < n
  PROVE  x < m \/ x \in m..(n - 1)
OBVIOUS

-----------------------------------------------------------------------------
(* Cells.                                                                  *)

LEMMA CellCoverKept ==
  ASSUME CellCover, UNCHANGED <<elems, freeing, memFree, memSize>>
  PROVE  CellCover'
BY DEF CellCover, CellSomewhere, Elements

(* mem_alloc takes one cell and makes the rest of a new chunk free.        *)
LEMMA MemAllocCover ==
  ASSUME TypeOK, CellInv, NEW v \in Value, mem_alloc(v),
         NEW c \in Cell, c < memSize', c # NewCell
  PROVE  c \in Elements(memFree') \/ (c < memSize /\ c \notin Elements(memFree))
<1> USE DEF TypeOK, CellInv, FreeCellInv
<1>1. CASE memFree = <<>>
  <2>1. MemQueue = Chunk(memSize, MemChunk)
    BY <1>1 DEF MemQueue
  <2>2. memSize + MemChunk <= MemMax /\ memSize' = memSize + MemChunk /\ memFree' = Tail(MemQueue)
    BY <1>1 DEF mem_alloc
  <2>3. /\ MemQueue \in Seq(Cell) /\ MemQueue # <<>> /\ Injective(MemQueue)
        /\ Elements(MemQueue) = memSize..(memSize' - 1)
    BY <2>1, <2>2, MemAssumption, SeqChunk DEF Cell
  <2>4. Elements(memFree') = memSize..(memSize' - 1) \ {NewCell}
    BY <2>2, <2>3, SeqTail DEF NewCell
  <2>5. c \in Nat /\ memSize \in Nat /\ memSize' \in Nat
    BY <2>2, MemAssumption, Addresses
  <2>6. Elements(memFree) = {}
    BY <1>1 DEF Elements
  <2>7. c < memSize \/ c \in memSize..(memSize' - 1)
    BY <2>5, OldOrNew
  <2>8. c < memSize => c \notin Elements(memFree)
    BY <2>6
  <2>9. c \in memSize..(memSize' - 1) => c \in Elements(memFree')
    BY <2>4
  <2> QED BY <2>7, <2>8, <2>9, Zenon
<1>2. CASE memFree # <<>>
  <2>1. MemQueue = memFree /\ memSize' = memSize /\ memFree' = Tail(memFree)
    BY <1>2 DEF mem_alloc, MemQueue
  <2>2. Elements(memFree') = Elements(memFree) \ {NewCell}
    BY <1>2, <2>1, SeqTail DEF NewCell
  <2> QED BY <2>1, <2>2
<1> QED BY <1>1, <1>2

LEMMA CellCoverPut ==
  ASSUME TypeOK, CellInv, CellCover, NEW v \in Value, mem_alloc(v),
         NEW p \in Field, elems[p] = NoCell,
         elems' = [elems EXCEPT ![p] = NewCell], UNCHANGED freeing
  PROVE  CellCover'
<1> SUFFICES ASSUME NEW c \in Cell, c < memSize' PROVE CellSomewhere(c)'
  BY DEF CellCover
<1>1. elems'[p] = NewCell /\ \A q \in Field : q # p => elems'[q] = elems[q]
  BY DEF TypeOK
<1>2. CASE c = NewCell
  BY <1>1, <1>2 DEF CellSomewhere
<1>3. CASE c # NewCell /\ c \in Elements(memFree')
  BY <1>3 DEF CellSomewhere, Elements
<1>4. CASE c # NewCell /\ c < memSize /\ c \notin Elements(memFree)
  <2>1. CellSomewhere(c)
    BY <1>4 DEF CellCover
  <2>2. CASE \E q \in Field : elems[q] = c
    <3>1. PICK q \in Field : elems[q] = c
      BY <2>2
    <3>2. q # p
      BY <3>1, Addresses
    <3> QED BY <1>1, <3>1, <3>2 DEF CellSomewhere
  <2>3. CASE \E f \in Frame : freeing[f] = c
    BY <2>3 DEF CellSomewhere
  <2> QED BY <1>4, <2>1, <2>2, <2>3 DEF CellSomewhere
<1> QED BY <1>2, <1>3, <1>4, MemAllocCover

LEMMA CellCoverFree ==
  ASSUME TypeOK, CellCover, NEW p \in Field, elems[p] # NoCell,
         NEW f \in Frame, freeing[f] = NoCell, mem_free(p, f),
         UNCHANGED <<memFree, memSize>>
  PROVE  CellCover'
<1>1. /\ elems' = [elems EXCEPT ![p] = NoCell] /\ freeing' = [freeing EXCEPT ![f] = elems[p]]
  BY MemFreeFacts DEF Frame
<1>2. /\ \A q \in Field : q # p => elems'[q] = elems[q]
      /\ freeing'[f] = elems[p]
      /\ \A g \in Frame : g # f => freeing'[g] = freeing[g]
  BY <1>1 DEF TypeOK, Frame
<1> SUFFICES ASSUME NEW c \in Cell, c < memSize PROVE CellSomewhere(c)'
  BY DEF CellCover
<1>3. CellSomewhere(c)
  BY DEF CellCover
<1>4. CASE c \in Elements(memFree)
  BY <1>4 DEF CellSomewhere, Elements
<1>5. CASE \E q \in Field : elems[q] = c
  BY <1>2, <1>5 DEF CellSomewhere
<1>6. CASE \E g \in Frame : freeing[g] = c
  <2>1. PICK g \in Frame : freeing[g] = c
    BY <1>6
  <2>2. g # f
    BY <2>1, Addresses
  <2> QED BY <1>2, <2>1, <2>2 DEF CellSomewhere
<1> QED BY <1>3, <1>4, <1>5, <1>6 DEF CellSomewhere

LEMMA CellCoverReturn ==
  ASSUME TypeOK, CellInv, CellCover, NEW f \in Frame, freeing[f] # NoCell,
         mem_free_return(f), UNCHANGED <<elems, memSize>>
  PROVE  CellCover'
<1>1. /\ Elements(memFree') = Elements(memFree) \cup {freeing[f]}
      /\ freeing' = [freeing EXCEPT ![f] = NoCell]
  BY MemFreeReturnFacts DEF Frame
<1>2. \A g \in Frame : g # f => freeing'[g] = freeing[g]
  BY <1>1 DEF TypeOK, Frame
<1>3. Elements(memFree)' = Elements(memFree')
  BY DEF Elements
<1> SUFFICES ASSUME NEW c \in Cell, c < memSize PROVE CellSomewhere(c)'
  BY DEF CellCover
<1>4. CellSomewhere(c)
  BY DEF CellCover
<1> QED BY <1>1, <1>2, <1>3, <1>4 DEF CellSomewhere

LEMMA CellCoverContinue ==
  ASSUME IInv, CellCover, Continue
  PROVE  CellCover'
<1> USE DEF IInv
<1>1. CASE DestroyField
  <2>1. PICK l \in Label : /\ elems[<<Head(dying), l>>] # NoCell
                           /\ mem_free(<<Head(dying), l>>, Head(dying))
    BY <1>1 DEF DestroyField
  <2>2. <<Head(dying), l>> \in Field /\ Head(dying) \in Frame
    BY <1>1, DyingHead DEF DestroyField, Field, Frame
  <2> QED BY <1>1, <2>1, <2>2, CellCoverFree DEF DestroyField, queues
<1>2. CASE DestroyCell
  <2>1. Head(dying) \in Frame
    BY <1>2, DyingHead DEF DestroyCell, Frame
  <2> QED BY <1>2, <2>1, CellCoverReturn DEF DestroyCell
<1>3. CASE DestroyDirect \/ DestroyReturn
  BY <1>3, CellCoverKept DEF DestroyDirect, DestroyReturn, queues
<1>4. CASE MemFreeReturn
  BY <1>4, CellCoverReturn DEF MemFreeReturn, Frame
<1>5. CASE DelScopeField
  <2>1. op.a \in Unit /\ op.kind = "del_scope" /\ freeing[NoAddr] = NoCell
    BY <1>5 DEF DelScopeField, OpInv
  <2>2. PICK l \in ScopeLabel(op.a) : /\ elems[<<op.a, l>>] # NoCell
                                      /\ mem_free(<<op.a, l>>, NoAddr)
    BY <1>5 DEF DelScopeField
  <2>3. <<op.a, l>> \in Field
    <3>1. size[op.a] \in 0..(MaxIndex + 1) /\ size[op.a] > 0
      BY <2>1 DEF OpInv, TypeOK
    <3> QED BY <2>1, <3>1, LabelAssumption DEF ScopeLabel, Field, Label
  <2> QED BY <1>5, <2>1, <2>2, <2>3, CellCoverFree DEF DelScopeField, queues, Frame
<1>6. CASE DelScopeReturn \/ SetClosureAlloc \/ SetClosureReturn \/ ClearStep
  BY <1>6, CellCoverKept DEF DelScopeReturn, SetClosureAlloc, SetClosureReturn, ClearStep, queues
<1>7. CASE SetClosureCopy
  <2>1. op.kind = "set_closure"
    BY <1>7 DEF SetClosureCopy
  <2>2. op.src \in Unit /\ op.a \in Unit
    BY <2>1, OpSources, OpTargets
  <2>3. PICK l \in Fields(op.src) \ Fields(op.a) :
             /\ mem_alloc(memory[elems[<<op.src, l>>]])
             /\ elems' = [elems EXCEPT ![<<op.a, l>>] = NewCell]
    BY <1>7 DEF SetClosureCopy
  <2>4. memory[elems[<<op.src, l>>]] \in Value
    BY <2>2, <2>3 DEF Fields, Field, TypeOK, Value
  <2>5. <<op.a, l>> \in Field /\ elems[<<op.a, l>>] = NoCell
    BY <2>2, <2>3 DEF Fields, Field
  <2> QED BY <1>7, <2>3, <2>4, <2>5, CellCoverPut DEF SetClosureCopy
<1>8. CASE ClearEnd
  <2>1. memSize' = 0
    BY <1>8 DEF ClearEnd
  <2> QED BY <2>1, Addresses DEF CellCover
<1> QED BY <1>1, <1>2, <1>3, <1>4, <1>5, <1>6, <1>7, <1>8 DEF Continue, Destroy

LEMMA CellCoverCall ==
  ASSUME IInv, CellCover, Call
  PROVE  CellCover'
<1> USE DEF IInv
<1>a. Idle => freeing[NoAddr] = NoCell
  BY DEF Idle, NoOp, Operate, OpInv
<1>b. ASSUME Idle, NEW a \in Unit, Pinned(a) PROVE Live(a)
  <2>1. ~Clearing
    BY <1>b DEF Idle, NoOp, Operate, Clearing
  <2> QED BY <1>b, <2>1, PinnedIsLive DEF UnitInv, Pinned
<1>1. ASSUME NEW t \in Kind, GcAlloc(t) PROVE CellCover'
  BY <1>1, CellCoverKept DEF GcAlloc
<1>2. ASSUME NEW v \in Unit, AddReference(v) \/ DelReference(v) PROVE CellCover'
  BY <1>2, CellCoverKept DEF AddReference, DelReference, queues
<1>3. ASSUME NEW a \in Unit, NEW v \in Value, VectorAddElem(a, v) PROVE CellCover'
  <2>1. Live(a) /\ type[a] = "vector"
    BY <1>b, <1>3 DEF VectorAddElem
  <2>2. size[a] \in 0..MaxIndex /\ ~(size[a] < size[a])
    BY <1>3, LabelAssumption DEF VectorAddElem, TypeOK
  <2>3. elems[<<a, <<size[a], Elem>>>>] = NoCell /\ <<a, <<size[a], Elem>>>> \in Field
    BY <2>1, <2>2 DEF VectorInv, Field, Label
  <2> QED BY <1>3, <2>3, CellCoverPut DEF VectorAddElem
<1>4. ASSUME NEW a \in Unit, VectorDelElem(a) PROVE CellCover'
  <2> DEFINE p == <<a, <<size[a] - 1, Elem>>>>
  <2>1. Live(a) /\ type[a] = "vector"
    BY <1>b, <1>4 DEF VectorDelElem
  <2>2. size[a] - 1 \in 0..MaxIndex /\ size[a] - 1 < size[a]
    <3>1. size[a] \in 0..(MaxIndex + 1) /\ size[a] > 0
      BY <1>4 DEF VectorDelElem, TypeOK
    <3> QED BY <3>1, LabelAssumption
  <2>3. p \in Field /\ elems[p] \in Cell
    BY <2>1, <2>2 DEF VectorInv, Field, Label, TypeOK
  <2>4. /\ elems' = [elems EXCEPT ![p] = NoCell] /\ memFree' = Append(memFree, elems[p])
        /\ UNCHANGED <<freeing, memSize>>
    BY <1>4 DEF VectorDelElem
  <2> HIDE DEF p
  <2>5. Elements(memFree') = Elements(memFree) \cup {elems[p]}
    <3>1. elems[p] \notin Elements(memFree) /\ Injective(memFree) /\ memFree \in Seq(Cell)
      BY <2>3, Addresses DEF CellInv, FieldCellInv, FreeCellInv, TypeOK
    <3> QED BY <2>3, <2>4, <3>1, SeqAppend
  <2>6. \A q \in Field : q # p => elems'[q] = elems[q]
    BY <2>3, <2>4 DEF TypeOK
  <2>7. Elements(memFree)' = Elements(memFree')
    BY DEF Elements
  <2> SUFFICES ASSUME NEW c \in Cell, c < memSize PROVE CellSomewhere(c)'
    BY <2>4 DEF CellCover
  <2>8. CellSomewhere(c)
    BY DEF CellCover
  <2> QED BY <2>3, <2>4, <2>5, <2>6, <2>7, <2>8 DEF CellSomewhere
<1>5. ASSUME NEW a \in Unit, ClosureAddScope(a) \/ ClosureDelScope(a) PROVE CellCover'
  BY <1>5, CellCoverKept DEF ClosureAddScope, ClosureDelScope, queues
<1>6. ASSUME NEW a \in Unit, NEW k \in Name, HashDelElem(a, k) PROVE CellCover'
  <2>1. <<a, <<0, k>>>> \in Field
    BY LabelAssumption DEF Field, Label
  <2> QED BY <1>6, <1>a, <2>1, CellCoverFree DEF HashDelElem, queues, Frame
<1>7. ASSUME NEW a \in Unit, NEW k \in Name, NEW v \in Value, HashAddElem(a, k, v)
      PROVE  CellCover'
  <2>1. <<a, <<0, k>>>> \in Field
    BY LabelAssumption DEF Field, Label
  <2> QED BY <1>7, <2>1, CellCoverPut DEF HashAddElem
<1>8. ASSUME NEW a \in Unit, NEW k \in Name, NEW v \in Value, HashAddElemAgain(a, k, v)
      PROVE  CellCover'
  BY <1>8, CellCoverKept DEF HashAddElemAgain, queues
<1>9. ASSUME NEW a \in Unit, NEW x \in Name, NEW v \in Value, ClosureAddNewValue(a, x, v)
      PROVE  CellCover'
  <2> DEFINE p == <<a, <<size[a] - 1, x>>>>
  <2>1. p \in Field
    <3>1. size[a] - 1 \in 0..MaxIndex
      BY <1>9, LabelAssumption, SMTT(30) DEF ClosureAddNewValue, TypeOK
    <3> QED BY <3>1 DEF Field, Label
  <2>2. mem_alloc(v) /\ elems' = [elems EXCEPT ![p] = NewCell]
    BY <1>9 DEF ClosureAddNewValue
  <2>3. CASE elems[p] = NoCell
    BY <1>9, <2>1, <2>2, <2>3, CellCoverPut DEF ClosureAddNewValue
  <2>4. CASE elems[p] # NoCell
    <3>1. freeing' = [freeing EXCEPT ![NoAddr] = elems[p]] /\ freeing[NoAddr] = NoCell
      BY <1>9, <1>a, <2>4 DEF ClosureAddNewValue
    <3> HIDE DEF p
    <3>2. /\ elems'[p] = NewCell /\ \A q \in Field : q # p => elems'[q] = elems[q]
          /\ freeing'[NoAddr] = elems[p]
          /\ \A f \in Frame : f # NoAddr => freeing'[f] = freeing[f]
      BY <2>1, <2>2, <3>1 DEF TypeOK, Frame
    <3> SUFFICES ASSUME NEW c \in Cell, c < memSize' PROVE CellSomewhere(c)'
      BY DEF CellCover
    <3>3. CASE c = NewCell
      BY <2>1, <3>2, <3>3 DEF CellSomewhere
    <3>4. CASE c # NewCell /\ c \in Elements(memFree')
      BY <3>4 DEF CellSomewhere, Elements
    <3>5. CASE c # NewCell /\ c < memSize /\ c \notin Elements(memFree)
      <4>1. CellSomewhere(c)
        BY <3>5 DEF CellCover
      <4>2. CASE \E q \in Field : elems[q] = c
        BY <3>2, <4>2 DEF CellSomewhere, Frame
      <4>3. CASE \E f \in Frame : freeing[f] = c
        <5>1. PICK f \in Frame : freeing[f] = c
          BY <4>3
        <5>2. f # NoAddr
          BY <3>1, <5>1, Addresses
        <5> QED BY <3>2, <5>1, <5>2 DEF CellSomewhere
      <4> QED BY <3>5, <4>1, <4>2, <4>3 DEF CellSomewhere
    <3> QED BY <2>2, <3>3, <3>4, <3>5, MemAllocCover
  <2> QED BY <2>3, <2>4
<1>10. ASSUME NEW p \in Field, NEW v \in Value, MemChange(p, v) PROVE CellCover'
  BY <1>10, CellCoverKept DEF MemChange, queues
<1>11. ASSUME NEW f \in Unit, NEW s \in Slot, NEW v \in Value, FunctionAddPara(f, s, v)
       PROVE  CellCover'
  BY <1>11, CellCoverKept DEF FunctionAddPara, queues
<1>12. ASSUME NEW f \in Unit, NEW src \in Unit, FunctionSetClosure(f, src) PROVE CellCover'
  BY <1>12, CellCoverKept DEF FunctionSetClosure, queues
<1>13. CASE ClearBegin
  BY <1>13, CellCoverKept DEF ClearBegin, queues
<1> QED
  BY <1>1, <1>2, <1>3, <1>4, <1>5, <1>6, <1>7, <1>8, <1>9, <1>10, <1>11, <1>12, <1>13
     DEF Call

LEMMA CellCoverStep ==
  ASSUME IInv, CellCover, [Next]_vars
  PROVE  CellCover'
<1>1. CASE UNCHANGED vars
  BY <1>1, CellCoverKept DEF vars
<1> QED BY <1>1, CellCoverContinue, CellCoverCall DEF Next

-----------------------------------------------------------------------------
(* Units.                                                                  *)

LEMMA UnitCoverKept ==
  ASSUME UnitCover, PlainCover, Clearing => Clearing',
         UNCHANGED <<gcSize, gcFree, collected, type, dying>>
  PROVE  UnitCover' /\ PlainCover'
BY DEF UnitCover, PlainCover, Elements

(* del_reference: what it collects is dying.                               *)
LEMMA UnitCoverDel ==
  ASSUME IInv, UnitCover, PlainCover, Clearing => Clearing', NEW v \in Value, del_reference(v),
         UNCHANGED <<gcSize, gcFree, type>>
  PROVE  UnitCover' /\ PlainCover'
<1>1. Elements(dying') = Elements(dying) \cup {w \in Unit : ~collected[w] /\ collected'[w]}
  BY DelReferenceFacts DEF IInv
<1>2. Elements(gcFree)' = Elements(gcFree) /\ Elements(dying)' = Elements(dying')
  BY DEF Elements
<1> QED BY <1>1, <1>2 DEF UnitCover, PlainCover

(* gc_alloc takes one unit and makes the rest of a new chunk free.         *)
LEMMA GcAllocCover ==
  ASSUME TypeOK, UnitInv, NEW t \in Type, gc_alloc(t),
         NEW u \in Unit, u < gcSize', u # NewUnit
  PROVE  u \in Elements(gcFree') \/ (u < gcSize /\ u \notin Elements(gcFree))
<1> USE DEF TypeOK, UnitInv, GcFreeInv
<1>1. CASE gcFree = <<>>
  <2>1. GcQueue = Chunk(gcSize, GcChunk)
    BY <1>1 DEF GcQueue
  <2>2. gcSize + GcChunk <= GcMax /\ gcSize' = gcSize + GcChunk /\ gcFree' = Tail(GcQueue)
    BY <1>1 DEF gc_alloc
  <2>3. /\ GcQueue \in Seq(Unit) /\ GcQueue # <<>> /\ Injective(GcQueue)
        /\ Elements(GcQueue) = gcSize..(gcSize' - 1)
    BY <2>1, <2>2, GcAssumption, SeqChunk, SMTT(30) DEF Unit
  <2>4. Elements(gcFree') = gcSize..(gcSize' - 1) \ {NewUnit}
    BY <2>2, <2>3, SeqTail DEF NewUnit
  <2>5. u \in Nat /\ gcSize \in Nat /\ gcSize' \in Nat
    BY <2>2, GcAssumption, Addresses
  <2>6. Elements(gcFree) = {}
    BY <1>1 DEF Elements
  <2>7. u < gcSize \/ u \in gcSize..(gcSize' - 1)
    BY <2>5, OldOrNew
  <2>8. u < gcSize => u \notin Elements(gcFree)
    BY <2>6
  <2>9. u \in gcSize..(gcSize' - 1) => u \in Elements(gcFree')
    BY <2>4
  <2> QED BY <2>7, <2>8, <2>9, Zenon
<1>2. CASE gcFree # <<>>
  <2>1. GcQueue = gcFree /\ gcSize' = gcSize /\ gcFree' = Tail(gcFree)
    BY <1>2 DEF gc_alloc, GcQueue
  <2>2. Elements(gcFree') = Elements(gcFree) \ {NewUnit}
    BY <1>2, <2>1, SeqTail DEF NewUnit
  <2> QED BY <2>1, <2>2
<1> QED BY <1>1, <1>2

LEMMA UnitCoverAlloc ==
  ASSUME IInv, UnitCover, PlainCover, Clearing => Clearing', NEW t \in Type, gc_alloc(t),
         UNCHANGED dying
  PROVE  UnitCover' /\ PlainCover'
<1>1. /\ NewUnit \in Unit /\ collected[NewUnit]
      /\ collected' = [collected EXCEPT ![NewUnit] = FALSE]
      /\ type' = [type EXCEPT ![NewUnit] = t]
  BY GcAllocFacts DEF IInv, gc_alloc
<1>2. /\ ~collected'[NewUnit]
      /\ \A u \in Unit : u # NewUnit => collected'[u] = collected[u] /\ type'[u] = type[u]
  BY <1>1 DEF IInv, TypeOK
<1>3. Elements(gcFree)' = Elements(gcFree') /\ Elements(dying)' = Elements(dying)
  BY DEF Elements
<1>4. UnitCover'
  <2> SUFFICES ASSUME ~Clearing, NEW u \in Unit, u < gcSize', collected'[u]
               PROVE  u \in Elements(gcFree') \cup Elements(dying)
    BY <1>3 DEF UnitCover
  <2>1. u # NewUnit /\ collected[u]
    BY <1>2
  <2>2. u \in Elements(gcFree') \/ (u < gcSize /\ u \notin Elements(gcFree))
    BY <2>1, GcAllocCover DEF IInv
  <2> QED BY <2>1, <2>2 DEF UnitCover
<1>5. PlainCover'
  BY <1>2, <1>3 DEF PlainCover
<1> QED BY <1>4, <1>5

LEMMA UnitCoverReturn ==
  ASSUME IInv, UnitCover, PlainCover, DestroyReturn
  PROVE  UnitCover' /\ PlainCover'
<1> DEFINE u == Head(dying)
<1>1. /\ u \in Unit /\ u \in Elements(dying)
      /\ Elements(Tail(dying)) = Elements(dying) \ {u}
  BY DyingHead DEF DestroyReturn
<1>2. /\ dying' = Tail(dying) /\ type' = [type EXCEPT ![u] = "plain"]
      /\ gcFree' = IF op.kind = "clear" /\ Len(dying) = 1 THEN gcFree ELSE Append(gcFree, u)
      /\ UNCHANGED <<gcSize, collected, op>>
  BY DEF DestroyReturn
<1> HIDE DEF u
<1>3. Elements(gcFree)' = Elements(gcFree') /\ Elements(dying)' = Elements(dying) \ {u}
  BY <1>1, <1>2 DEF Elements
<1>4. UnitCover'
  <2> SUFFICES ASSUME ~Clearing, NEW w \in Unit, w < gcSize, collected[w]
               PROVE  w \in Elements(gcFree') \cup (Elements(dying) \ {u})
    BY <1>2, <1>3 DEF UnitCover, Clearing
  <2>1. gcFree' = Append(gcFree, u)
    BY <1>2 DEF Clearing
  <2>2. Elements(gcFree') = Elements(gcFree) \cup {u}
    <3>1. u \notin Elements(gcFree) /\ Injective(gcFree) /\ gcFree \in Seq(Unit)
      BY <1>1 DEF IInv, UnitInv, GcFreeInv, TypeOK
    <3> QED BY <1>1, <2>1, <3>1, SeqAppend
  <2> QED BY <2>2 DEF UnitCover
<1>5. PlainCover'
  <2>1. type'[u] = "plain" /\ \A w \in Unit : w # u => type'[w] = type[w]
    BY <1>1, <1>2 DEF IInv, TypeOK
  <2> QED BY <1>2, <1>3, <2>1 DEF PlainCover
<1> QED BY <1>4, <1>5

LEMMA UnitCoverContinue ==
  ASSUME IInv, UnitCover, PlainCover, Continue
  PROVE  UnitCover' /\ PlainCover'
<1> USE DEF IInv
<1>1. CASE DestroyField
  <2>1. PICK l \in Label : /\ elems[<<Head(dying), l>>] # NoCell
                           /\ mem_free(<<Head(dying), l>>, Head(dying))
    BY <1>1 DEF DestroyField
  <2>2. <<Head(dying), l>> \in Field /\ Head(dying) \in Unit
    BY <1>1, DyingHead DEF DestroyField, Field
  <2>3. /\ memory[elems[<<Head(dying), l>>]] \in Value
        /\ del_reference(memory[elems[<<Head(dying), l>>]])
    BY <2>1, <2>2, MemFreeFacts
  <2> QED BY <1>1, <2>3, UnitCoverDel DEF DestroyField, queues, objects, Clearing
<1>2. CASE DestroyCell
  BY <1>2, UnitCoverKept DEF DestroyCell, objects, Clearing
<1>3. CASE DestroyDirect
  <2>1. PICK s \in Slot : del_reference(direct[<<Head(dying), s>>])
    BY <1>3 DEF DestroyDirect
  <2>2. direct[<<Head(dying), s>>] \in Value
    BY <1>3, DyingHead DEF DestroyDirect, TypeOK, Direct, Value
  <2> QED BY <1>3, <2>1, <2>2, UnitCoverDel DEF DestroyDirect, queues, Clearing
<1>4. CASE DestroyReturn
  BY <1>4, UnitCoverReturn
<1>5. CASE MemFreeReturn
  <2>1. Clearing => Clearing'
    BY <1>5 DEF MemFreeReturn, Clearing
  <2> QED BY <1>5, <2>1, UnitCoverKept DEF MemFreeReturn, objects
<1>6. CASE DelScopeField
  <2>1. op.a \in Unit /\ op.kind = "del_scope"
    BY <1>6 DEF DelScopeField, OpInv
  <2>2. PICK l \in ScopeLabel(op.a) : /\ elems[<<op.a, l>>] # NoCell
                                      /\ mem_free(<<op.a, l>>, NoAddr)
    BY <1>6 DEF DelScopeField
  <2>3. <<op.a, l>> \in Field
    <3>1. size[op.a] \in 0..(MaxIndex + 1) /\ size[op.a] > 0
      BY <2>1 DEF OpInv, TypeOK
    <3> QED BY <2>1, <3>1, LabelAssumption DEF ScopeLabel, Field, Label
  <2>4. /\ memory[elems[<<op.a, l>>]] \in Value
        /\ del_reference(memory[elems[<<op.a, l>>]])
    BY <2>2, <2>3, MemFreeFacts
  <2> QED BY <1>6, <2>4, UnitCoverDel DEF DelScopeField, queues, objects, Clearing
<1>7. CASE DelScopeReturn
  BY <1>7, UnitCoverKept DEF DelScopeReturn, queues, Clearing
<1>8. CASE SetClosureAlloc
  <2>1. ~Clearing
    BY <1>8 DEF SetClosureAlloc, Clearing
  <2> QED BY <1>8, <2>1, UnitCoverAlloc DEF SetClosureAlloc, Type
<1>9. CASE SetClosureCopy
  BY <1>9, UnitCoverKept DEF SetClosureCopy, objects, Clearing
<1>10. CASE SetClosureReturn
  BY <1>10, UnitCoverKept DEF SetClosureReturn, queues, Clearing
<1>11. CASE ClearStep
  <2>1. op.a \in Unit /\ op.kind = "clear" /\ op'.kind = "clear"
    <3>1. op.a \in 0..gcSize /\ op.a < gcSize /\ gcSize \in 0..GcMax
      BY <1>11 DEF ClearStep, OpInv, TypeOK
    <3>2. op \in [kind : OpKind, a : -1..GcMax, src : -1..(GcMax - 1), fn : -1..(GcMax - 1)]
      BY DEF TypeOK
    <3> QED BY <1>11, <3>1, <3>2, GcAssumption DEF Unit, ClearStep
  <2>2. UnitCover'
    BY <2>1 DEF UnitCover, Clearing
  <2>3. CASE ref_cnt[op.a] = 0
    BY <1>11, <2>2, <2>3 DEF ClearStep, objects, PlainCover, Elements
  <2>4. CASE ref_cnt[op.a] # 0
    <3>1. /\ collected' = [collected EXCEPT ![op.a] = TRUE]
          /\ dying = <<>> /\ dying' = <<op.a>> /\ type' = type
      BY <1>11, <2>4 DEF ClearStep, objects
    <3>2. Elements(dying) = {} /\ Elements(dying') = {op.a}
      BY <3>1 DEF Elements
    <3> QED BY <2>1, <2>2, <3>1, <3>2 DEF PlainCover, TypeOK, Elements
  <2> QED BY <2>3, <2>4
<1>12. CASE ClearEnd
  <2>1. gcSize' = 0 /\ UNCHANGED <<collected, type, dying>>
    BY <1>12 DEF ClearEnd, objects
  <2>2. UnitCover'
    BY <2>1, Addresses DEF UnitCover
  <2>3. PlainCover'
    BY <2>1 DEF PlainCover, Elements
  <2> QED BY <2>2, <2>3
<1> QED BY <1>1, <1>2, <1>3, <1>4, <1>5, <1>6, <1>7, <1>8, <1>9, <1>10, <1>11, <1>12
        DEF Continue, Destroy

LEMMA CallFindsIdle ==
  ASSUME Call
  PROVE  Idle
<1>1. ASSUME NEW t \in Kind, GcAlloc(t) PROVE Idle
  BY <1>1 DEF GcAlloc
<1>2. ASSUME NEW v \in Unit, AddReference(v) \/ DelReference(v) PROVE Idle
  BY <1>2 DEF AddReference, DelReference
<1>3. ASSUME NEW a \in Unit, NEW v \in Value, VectorAddElem(a, v) PROVE Idle
  BY <1>3 DEF VectorAddElem
<1>4. ASSUME NEW a \in Unit, VectorDelElem(a) \/ ClosureAddScope(a) \/ ClosureDelScope(a)
      PROVE  Idle
  BY <1>4 DEF VectorDelElem, ClosureAddScope, ClosureDelScope
<1>5. ASSUME NEW a \in Unit, NEW k \in Name, HashDelElem(a, k) PROVE Idle
  BY <1>5 DEF HashDelElem
<1>6. ASSUME NEW a \in Unit, NEW k \in Name, NEW v \in Value,
             HashAddElem(a, k, v) \/ HashAddElemAgain(a, k, v) \/ ClosureAddNewValue(a, k, v)
      PROVE  Idle
  BY <1>6 DEF HashAddElem, HashAddElemAgain, ClosureAddNewValue
<1>7. ASSUME NEW p \in Field, NEW v \in Value, MemChange(p, v) PROVE Idle
  BY <1>7 DEF MemChange
<1>8. ASSUME NEW f \in Unit, NEW s \in Slot, NEW v \in Value, FunctionAddPara(f, s, v)
      PROVE  Idle
  BY <1>8 DEF FunctionAddPara
<1>9. ASSUME NEW f \in Unit, NEW src \in Unit, FunctionSetClosure(f, src) PROVE Idle
  BY <1>9 DEF FunctionSetClosure
<1>10. ASSUME ClearBegin PROVE Idle
  BY <1>10 DEF ClearBegin
<1> QED
  BY <1>1, <1>2, <1>3, <1>4, <1>5, <1>6, <1>7, <1>8, <1>9, <1>10 DEF Call

LEMMA UnitCoverCall ==
  ASSUME IInv, UnitCover, PlainCover, Call
  PROVE  UnitCover' /\ PlainCover'
<1> USE DEF IInv
<1>0. ~Clearing
  BY CallFindsIdle DEF Idle, NoOp, Operate, Clearing
<1>1. ASSUME NEW t \in Kind, GcAlloc(t) PROVE UnitCover' /\ PlainCover'
  BY <1>0, <1>1, UnitCoverAlloc, KindAssumption DEF GcAlloc
<1>2. ASSUME NEW v \in Unit, AddReference(v) PROVE UnitCover' /\ PlainCover'
  BY <1>0, <1>2, UnitCoverKept DEF AddReference, queues, objects
<1>3. ASSUME NEW v \in Unit, DelReference(v) PROVE UnitCover' /\ PlainCover'
  BY <1>0, <1>3, UnitCoverDel DEF DelReference, queues, objects, Value
<1>4. ASSUME NEW a \in Unit, NEW v \in Value, VectorAddElem(a, v)
      PROVE  UnitCover' /\ PlainCover'
  BY <1>0, <1>4, UnitCoverKept DEF VectorAddElem
<1>5. ASSUME NEW a \in Unit, VectorDelElem(a) \/ ClosureAddScope(a) \/ ClosureDelScope(a)
      PROVE  UnitCover' /\ PlainCover'
  BY <1>0, <1>5, UnitCoverKept
     DEF VectorDelElem, ClosureAddScope, ClosureDelScope, queues, objects
<1>6. ASSUME NEW a \in Unit, NEW k \in Name, HashDelElem(a, k)
      PROVE  UnitCover' /\ PlainCover'
  <2> DEFINE p == <<a, <<0, k>>>>
  <2>1. p \in Field
    BY LabelAssumption DEF Field, Label
  <2>2. memory[elems[p]] \in Value /\ del_reference(memory[elems[p]])
    BY <1>6, <2>1, MemFreeFacts DEF HashDelElem
  <2> QED BY <1>0, <1>6, <2>2, UnitCoverDel DEF HashDelElem, queues, objects
<1>7. ASSUME NEW a \in Unit, NEW k \in Name, NEW v \in Value,
             HashAddElem(a, k, v) \/ HashAddElemAgain(a, k, v)
      PROVE  UnitCover' /\ PlainCover'
  BY <1>0, <1>7, UnitCoverKept DEF HashAddElem, HashAddElemAgain, queues, objects
<1>8. ASSUME NEW a \in Unit, NEW x \in Name, NEW v \in Value, ClosureAddNewValue(a, x, v)
      PROVE  UnitCover' /\ PlainCover'
  <2> DEFINE p == <<a, <<size[a] - 1, x>>>>
  <2>1. CASE elems[p] = NoCell
    BY <1>0, <1>8, <2>1, UnitCoverKept DEF ClosureAddNewValue, objects
  <2>2. CASE elems[p] # NoCell
    <3>1. del_reference(memory[elems[p]])
      BY <1>8, <2>2 DEF ClosureAddNewValue
    <3>2. p \in Field
      <4>1. size[a] - 1 \in 0..MaxIndex
        BY <1>8, LabelAssumption, SMTT(30) DEF ClosureAddNewValue, TypeOK
      <4> QED BY <4>1 DEF Field, Label
    <3>3. memory[elems[p]] \in Value
      BY <2>2, <3>2 DEF TypeOK, Value
    <3> QED BY <1>0, <1>8, <3>1, <3>3, UnitCoverDel DEF ClosureAddNewValue, objects
  <2> QED BY <2>1, <2>2
<1>9. ASSUME NEW p \in Field, NEW v \in Value, MemChange(p, v)
      PROVE  UnitCover' /\ PlainCover'
  <2>1. memory[elems[p]] \in Value
    BY <1>9 DEF MemChange, TypeOK, Value
  <2> QED BY <1>0, <1>9, <2>1, UnitCoverDel DEF MemChange, queues, objects
<1>10. ASSUME NEW f \in Unit, NEW s \in Slot, NEW v \in Value, FunctionAddPara(f, s, v)
       PROVE  UnitCover' /\ PlainCover'
  BY <1>0, <1>10, UnitCoverKept DEF FunctionAddPara, queues
<1>11. ASSUME NEW f \in Unit, NEW src \in Unit, FunctionSetClosure(f, src)
       PROVE  UnitCover' /\ PlainCover'
  <2>1. direct[<<f, 0>>] \in Value
    BY BoundAssumption, SMTT(30) DEF Direct, Slot, TypeOK, Value
  <2> QED BY <1>0, <1>11, <2>1, UnitCoverDel DEF FunctionSetClosure, queues
<1>12. CASE ClearBegin
  BY <1>0, <1>12, UnitCoverKept DEF ClearBegin, queues, objects
<1> QED
  BY <1>1, <1>2, <1>3, <1>4, <1>5, <1>6, <1>7, <1>8, <1>9, <1>10, <1>11, <1>12 DEF Call

LEMMA CoverStep ==
  ASSUME IInv, Cover, [Next]_vars
  PROVE  Cover'
<1>1. CASE UNCHANGED vars
  <2>1. Clearing => Clearing'
    BY <1>1 DEF vars, Clearing
  <2> QED BY <1>1, <2>1, UnitCoverKept, CellCoverKept DEF vars, Cover
<1>2. CASE Next
  BY <1>2, CellCoverStep, UnitCoverContinue, UnitCoverCall DEF Cover, Next
<1> QED BY <1>1, <1>2

LEMMA CoverInit == Init => Cover
BY Addresses DEF Init, Cover, CellCover, UnitCover, PlainCover

LEMMA CoverHolds == Spec => [](IInv /\ Cover)
<1>1. Init => Cover
  BY CoverInit
<1>2. IInv /\ Cover /\ [Next]_vars => Cover'
  BY CoverStep
<1> QED BY <1>1, <1>2, InductiveInvariant, PTL DEF Spec

-----------------------------------------------------------------------------
(* Counting.                                                               *)

LEMMA CountsNone ==
  ASSUME NEW S, \A x \in S : FALSE
  PROVE  Cardinality(S) = 0
BY FS_EmptySet

LEMMA CountsOne ==
  ASSUME NEW S, NEW x \in S, \A y \in S : y = x
  PROVE  Cardinality(S) = 1
<1>1. S = {x}
  OBVIOUS
<1> QED BY <1>1, FS_Singleton

(* An address is once in a queue without repetitions, or not at all.       *)
LEMMA OccursOnce ==
  ASSUME NEW S, NEW s \in Seq(S), Injective(s), NEW x
  PROVE  Cardinality(Occurrences(s, x)) = IF x \in Elements(s) THEN 1 ELSE 0
<1>1. CASE x \in Elements(s)
  <2>1. PICK i \in DOMAIN s : s[i] = x
    BY <1>1 DEF Elements
  <2>2. i \in Occurrences(s, x) /\ \A j \in Occurrences(s, x) : j = i
    BY <2>1 DEF Occurrences, Injective
  <2> QED BY <1>1, <2>2, CountsOne
<1>2. CASE x \notin Elements(s)
  <2>1. \A i \in Occurrences(s, x) : FALSE
    BY <1>2 DEF Occurrences, Elements
  <2> QED BY <1>2, <2>1, CountsNone
<1> QED BY <1>1, <1>2

(* A queue without repetitions is as long as it has elements.              *)
LEMMA QueueLength ==
  ASSUME NEW S, NEW s \in Seq(S), Injective(s)
  PROVE  Len(s) = Cardinality(Elements(s))
<1>1. Len(s) \in Nat /\ DOMAIN s = 1..Len(s) /\ s \in [1..Len(s) -> Elements(s)]
  BY DEF Elements
<1>2. s \in Injection(1..Len(s), Elements(s))
  BY <1>1 DEF Injection, IsInjective, Injective
<1>3. s \in Surjection(1..Len(s), Elements(s))
  BY <1>1 DEF Surjection, Elements
<1>4. IsFiniteSet(1..Len(s)) /\ Cardinality(1..Len(s)) = Len(s)
  BY <1>1, FS_Interval
<1> QED BY <1>2, <1>3, <1>4, FS_Surjection

-----------------------------------------------------------------------------
(* The theorems.                                                           *)

(* No cell is freed twice and none is forgotten: each cell ever allocated  *)
(* is in exactly one place, in the middle of every cascade of destructors  *)
(* and while vm.clear destroys values in use.                              *)
THEOREM NoCellTwiceNoneLost == Spec => []CellsPartitioned
<1>1. ASSUME IInv, CellCover PROVE CellsPartitioned
  <2> SUFFICES ASSUME NEW c \in Cell
               PROVE  Cardinality(Occurrences(memFree, c)) + Cardinality({p \in Field : elems[p] = c})
                        + Cardinality({f \in Frame : freeing[f] = c})
                      = IF c < memSize THEN 1 ELSE 0
    BY DEF CellsPartitioned, Frame
  <2> DEFINE P == {p \in Field : elems[p] = c}
             F == {f \in Frame : freeing[f] = c}
  <2>0. c # NoCell
    BY Addresses
  <2>1. Cardinality(Occurrences(memFree, c)) = IF c \in Elements(memFree) THEN 1 ELSE 0
    BY <1>1, OccursOnce DEF IInv, TypeOK, CellInv, FreeCellInv
  <2>2. Cardinality(P) = IF P = {} THEN 0 ELSE 1
    <3>1. CASE P = {}
      BY <3>1, CountsNone
    <3>2. CASE P # {}
      <4>1. PICK p \in P : TRUE
        BY <3>2
      <4>2. \A q \in P : q = p
        BY <1>1, <2>0, <4>1 DEF IInv, CellInv, FieldCellInv
      <4> HIDE DEF P
      <4> QED BY <3>2, <4>1, <4>2, CountsOne
    <3> QED BY <3>1, <3>2
  <2>3. Cardinality(F) = IF F = {} THEN 0 ELSE 1
    <3>1. CASE F = {}
      BY <3>1, CountsNone
    <3>2. CASE F # {}
      <4>1. PICK f \in F : TRUE
        BY <3>2
      <4>2. \A g \in F : g = f
        BY <1>1, <2>0, <4>1 DEF IInv, CellInv, FreeingCellInv, Frame
      <4> HIDE DEF F
      <4> QED BY <3>2, <4>1, <4>2, CountsOne
    <3> QED BY <3>1, <3>2
  <2>4. c \in Elements(memFree) => c < memSize /\ P = {} /\ F = {}
    BY <1>1, <2>0 DEF IInv, CellInv, FreeCellInv, FieldCellInv, FreeingCellInv, Frame
  <2>5. P # {} => c < memSize /\ c \notin Elements(memFree) /\ F = {}
    BY <1>1, <2>0 DEF IInv, CellInv, FieldCellInv, Frame
  <2>6. F # {} => c < memSize
    BY <1>1, <2>0 DEF IInv, CellInv, FreeingCellInv, Frame
  <2>7. c < memSize => c \in Elements(memFree) \/ P # {} \/ F # {}
    BY <1>1 DEF CellCover, CellSomewhere
  <2> HIDE DEF P, F
  <2>8. CASE c \in Elements(memFree)
    BY <2>1, <2>2, <2>3, <2>4, <2>8 DEF P, F
  <2>9. CASE c \notin Elements(memFree)
    BY <2>1, <2>2, <2>3, <2>5, <2>6, <2>7, <2>9 DEF P, F
  <2> QED BY <2>8, <2>9
<1> QED BY <1>1, CoverHolds, PTL DEF Cover

(* A unit is free, dying or in use, and only one of them: no destructor    *)
(* runs twice, no unit is lost, and none is handed out while dying.        *)
THEOREM NoUnitTwiceNoneLost == Spec => []UnitsPartitioned
<1>1. ASSUME IInv, UnitCover PROVE UnitsPartitioned
  <2> SUFFICES ASSUME ~Clearing, NEW u \in Unit
               PROVE  Cardinality(Occurrences(gcFree, u)) + Cardinality(Occurrences(dying, u))
                        + (IF collected[u] THEN 0 ELSE 1)
                      = IF u < gcSize THEN 1 ELSE 0
    BY DEF UnitsPartitioned
  <2>1. Cardinality(Occurrences(gcFree, u)) = IF u \in Elements(gcFree) THEN 1 ELSE 0
    BY <1>1, OccursOnce DEF IInv, TypeOK, UnitInv, GcFreeInv
  <2>2. Cardinality(Occurrences(dying, u)) = IF u \in Elements(dying) THEN 1 ELSE 0
    BY <1>1, OccursOnce DEF IInv, TypeOK, UnitInv, DyingInv
  <2>3. u \in Elements(gcFree) => collected[u] /\ u < gcSize /\ u \notin Elements(dying)
    BY <1>1 DEF IInv, UnitInv, GcFreeInv
  <2>4. u \in Elements(dying) => collected[u] /\ u < gcSize
    BY <1>1 DEF IInv, UnitInv, DyingInv
  <2>5. ~collected[u] => u < gcSize
    BY <1>1, Addresses DEF IInv, UnitInv, UnusedInv, TypeOK
  <2>6. collected[u] /\ u < gcSize => u \in Elements(gcFree) \/ u \in Elements(dying)
    BY <1>1 DEF UnitCover
  <2> QED BY <2>1, <2>2, <2>3, <2>4, <2>5, <2>6
<1> QED BY <1>1, CoverHolds, PTL DEF Cover

(* vm.clear destroys every object and gets every cell back once, whatever  *)
(* cycles and leaked references the heap holds.                            *)
THEOREM ClearIsComplete == Spec => []ClearDestroysAll
<1>1. ASSUME IInv, Cover PROVE ClearDestroysAll
  <2> SUFFICES ASSUME Clearing, dying = <<>>, op.a = gcSize
               PROVE  /\ \A u \in Unit : /\ collected[u] /\ ref_cnt[u] = 0
                                         /\ Emptied(u) /\ type[u] = "plain"
                      /\ Len(memFree) = memSize
                      /\ {memFree[i] : i \in 1..Len(memFree)} = 0..(memSize - 1)
    BY DEF ClearDestroysAll
  <2>1. \A u \in Unit : collected[u]
    BY <1>1, ClearedAll DEF Clearing
  <2>2. \A u \in Unit : ref_cnt[u] = 0
    BY <1>1, <2>1 DEF IInv, UnitInv, LiveInv
  <2>3. Elements(dying) = {}
    BY DEF Elements
  <2>4. \A u \in Unit : Emptied(u) /\ type[u] = "plain"
    BY <1>1, <2>1, <2>3 DEF IInv, UnitInv, DeadInv, Cover, PlainCover
  <2>5. \A p \in Field : elems[p] = NoCell
    BY <2>4 DEF Emptied, Field
  <2>6. \A f \in Frame : freeing[f] = NoCell
    <3>1. freeing[NoAddr] = NoCell
      BY <1>1 DEF IInv, OpInv, Clearing
    <3> QED BY <2>4, <3>1 DEF Emptied, Frame
  <2>7. memFree \in Seq(Cell) /\ Injective(memFree) /\ memSize \in 0..MemMax
    BY <1>1 DEF IInv, TypeOK, CellInv, FreeCellInv
  <2>8. Elements(memFree) = 0..(memSize - 1)
    <3>1. ASSUME NEW c \in Elements(memFree) PROVE c \in 0..(memSize - 1)
      <4>1. c \in Cell /\ c < memSize
        BY <1>1, <2>7, ElementsType DEF IInv, CellInv, FreeCellInv
      <4> QED BY <2>7, <4>1, MemAssumption DEF Cell
    <3>2. ASSUME NEW c \in 0..(memSize - 1) PROVE c \in Elements(memFree)
      <4>1. c \in Cell /\ c < memSize
        BY <2>7, MemAssumption DEF Cell
      <4>2. CellSomewhere(c)
        BY <1>1, <4>1 DEF Cover, CellCover
      <4> QED BY <2>5, <2>6, <4>1, <4>2, Addresses DEF CellSomewhere
    <3> QED BY <3>1, <3>2
  <2>9. Len(memFree) = memSize
    <3>1. Cardinality(0..(memSize - 1)) = memSize
      BY <2>7, FS_Interval, MemAssumption
    <3> QED BY <2>7, <2>8, <3>1, QueueLength
  <2>10. {memFree[i] : i \in 1..Len(memFree)} = 0..(memSize - 1)
    BY <2>7, <2>8 DEF Elements
  <2> QED BY <2>1, <2>2, <2>4, <2>9, <2>10
<1> QED BY <1>1, CoverHolds, PTL
=============================================================================

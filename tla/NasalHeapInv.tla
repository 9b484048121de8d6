----------------------------- MODULE NasalHeapInv -----------------------------
(* The inductive invariant of NasalHeap, in named parts.  TLC checks it on  *)
(* the instances of MCNasalHeap; NasalHeapProofs proves it.                 *)
EXTENDS NasalHeap

Elements(s) == {s[i] : i \in DOMAIN s}
Injective(s) == \A i, j \in DOMAIN s : s[i] = s[j] => i = j

(* A unit is dying once, or free once, or in use, or waits at the end of    *)
(* clear; one that is neither in use nor dying has nothing left in it.      *)
DyingInv ==
  /\ Injective(dying)
  /\ \A u \in Elements(dying) : collected[u] /\ u < gcSize

GcFreeInv ==
  /\ Injective(gcFree)
  /\ \A u \in Elements(gcFree) : collected[u] /\ u < gcSize /\ u \notin Elements(dying)

UnusedInv == \A u \in Unit : u >= gcSize => collected[u]
DeadInv   == \A u \in Unit : collected[u] /\ u \notin Elements(dying) => Emptied(u)
LiveInv   == \A u \in Unit : collected[u] <=> ref_cnt[u] = 0

UnitInv == DyingInv /\ GcFreeInv /\ UnusedInv /\ DeadInv /\ LiveInv

(* A cell is the cell of one field, or of one mem_free, or free once.       *)
FieldCellInv ==
  \A p \in Field : elems[p] # NoCell =>
    /\ elems[p] < memSize
    /\ \A q \in Field : elems[q] = elems[p] => q = p
    /\ \A f \in Unit \cup {NoAddr} : freeing[f] # elems[p]
    /\ elems[p] \notin Elements(memFree)

FreeingCellInv ==
  \A f \in Unit \cup {NoAddr} : freeing[f] # NoCell =>
    /\ freeing[f] < memSize
    /\ \A g \in Unit \cup {NoAddr} : freeing[g] = freeing[f] => g = f
    /\ freeing[f] \notin Elements(memFree)

FreeCellInv ==
  /\ Injective(memFree)
  /\ \A c \in Elements(memFree) : c < memSize

CellInv == FieldCellInv /\ FreeingCellInv /\ FreeCellInv

(* An operation under way works on containers its caller has pinned.        *)
OpInv ==
  /\ op.kind = "idle" => op = NoOp
  /\ op.kind \notin {"mem_free", "del_scope"} => freeing[NoAddr] = NoCell
  /\ op.kind = "mem_free" =>
       /\ op.a \in Unit /\ op.src = NoAddr /\ op.fn = NoAddr
       /\ PinnedBy(held, op.a)
  /\ op.kind = "del_scope" =>
       /\ op.a \in Unit /\ op.src = NoAddr /\ op.fn = NoAddr
       /\ held[op.a] > 0 /\ size[op.a] > 0 /\ type[op.a] = "closure"
  /\ op.kind \in {"reclosure", "set_closure"} =>
       /\ op.src \in Unit /\ op.fn \in Unit
       /\ held[op.src] > 0 /\ held[op.fn] > 0
       /\ direct[<<op.fn, 0>>] = NoAddr
  /\ op.kind = "reclosure" => op.a = NoAddr
  /\ op.kind = "set_closure" =>
       op.a \in Unit /\ held[op.a] > 0 /\ type[op.a] = "closure"
  /\ op.kind = "clear" =>
       /\ op.a \in 0..gcSize
       /\ \A u \in Unit : u < op.a => collected[u]

(* del_elem takes the last element: the elements of a vector are in cells   *)
(* without a gap.                                                           *)
VectorInv ==
  \A a \in Unit : Live(a) /\ type[a] = "vector" =>
    \A i \in 0..MaxIndex : elems[<<a, <<i, Elem>>>>] # NoCell <=> i < size[a]

IInv == TypeOK /\ UnitInv /\ CellInv /\ CountExact /\ OpInv /\ VectorInv
=============================================================================

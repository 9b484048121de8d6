----------------------------- MODULE MCNasalHeap -----------------------------
(* Small instances of NasalHeap for TLC: one key besides the element name.  *)
EXTENDS NasalHeapInv

CONSTANT MaxOwned  \* bound: references the caller owns or has lost, in all

MCName == {"x"}
MCElem == "elem"

RECURSIVE Total(_, _)
Total(f, S) == IF S = {} THEN 0 ELSE LET u == CHOOSE u \in S : TRUE IN f[u] + Total(f, S \ {u})

(* The new closure of set_closure_addr is one reference more, for a while.  *)
FewOwned ==
  Total(held, Unit) + Total(lost, Unit) <= MaxOwned + (IF op.kind = "set_closure" THEN 1 ELSE 0)
=============================================================================

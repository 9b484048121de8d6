------------------------------ MODULE NasalHeap ------------------------------
(***************************************************************************)
(* The heap of the interpreter (nasal_gc.h): the reference-counting        *)
(* garbage collector and the memory manager of nasal_virtual_machine, and  *)
(* the operations of the container classes nasal_vector, nasal_hash,       *)
(* nasal_function and nasal_closure that allocate, share and release.      *)
(*                                                                         *)
(* A value lives in a gc unit.  A container does not point at its values:  *)
(* each of its fields is a memory cell and the cell stores the address of  *)
(* the value's unit.  A function points at its closure and at its default  *)
(* arguments directly.                                                     *)
(*                                                                         *)
(* del_reference is recursive in the code: the count that reaches zero     *)
(* runs the destructor of the value, which frees the cells of its fields,  *)
(* which deletes references.  Here the C++ call stack is the variable      *)
(* dying, and one iteration of a destructor's loop is one step, so that    *)
(* the interleaving of the free queues with the recursion is the code's.   *)
(* The order in which a destructor visits the fields of one container is   *)
(* left open (vector order, key order and scope order are all allowed).    *)
(*                                                                         *)
(* The caller (the byte code machine and the builtin functions) is any     *)
(* program that keeps the ownership protocol of the opcodes: held[v]       *)
(* counts the references its stacks and local variables own, and lost[v]   *)
(* the references no one will ever delete.                                 *)
(***************************************************************************)
EXTENDS Integers, Sequences, FiniteSets

CONSTANTS
  GcMax,     \* bound: addresses of garbage_collector_memory are 0..GcMax-1
  GcChunk,   \* units added when the gc free queue is empty (64 in the code)
  MemMax,    \* bound: addresses of memory_manager_memory are 0..MemMax-1
  MemChunk,  \* cells added when the cell free queue is empty (256 in the code)
  MaxIndex,  \* bound: largest vector index and deepest scope of a closure
  Name,      \* hash keys and identifiers
  Elem,      \* the name part of the label of a vector element
  MaxPara,   \* bound: default arguments of a function
  MaxHeld,   \* bound: references to one value the caller owns, or has lost
  Kind       \* bound: the types of the values the caller allocates

ASSUME GcAssumption  == GcMax \in Nat /\ GcChunk \in Nat \ {0}
ASSUME MemAssumption == MemMax \in Nat /\ MemChunk \in Nat \ {0}
ASSUME LabelAssumption == MaxIndex \in Nat /\ IsFiniteSet(Name) /\ Elem \notin Name
ASSUME BoundAssumption == MaxPara \in Nat /\ MaxHeld \in Nat

Type == {"plain", "vector", "hash", "function", "closure"}
ASSUME KindAssumption == Kind \subseteq Type

NoAddr == -1
NoCell == -1
Unit   == 0..(GcMax - 1)
Cell   == 0..(MemMax - 1)

(***************************************************************************)
(* A field is named by the unit of its container and a label: element i of *)
(* a vector is <<i, Elem>>, member k of a hash <<0, k>>, variable x of     *)
(* scope d of a closure <<d, x>>.  Slot 0 of a function is its closure,    *)
(* the other slots are its default arguments.                              *)
(***************************************************************************)
Label  == (0..MaxIndex) \X (Name \cup {Elem})
Field  == Unit \X Label
Slot   == 0..MaxPara
Direct == Unit \X Slot

VARIABLES
  gcSize,     \* garbage_collector_memory.size()
  gcFree,     \* garbage_collector_free_space
  collected,  \* gc_unit::collected
  ref_cnt,    \* gc_unit::ref_cnt
  type,       \* nasal_scalar::type; "plain" is nil, number and string
  size,       \* elems.size() of a vector, of a closure the number of scopes
  elems,      \* the cell of each field, NoCell where there is none
  direct,     \* closure_addr and default_para_addr of a function
  memSize,    \* memory_manager_memory.size()
  memFree,    \* memory_manager_free_space
  memory,     \* memory_manager_memory
  dying,      \* units whose destructor is running, the innermost first
  freeing,    \* the cell whose mem_free is waiting for del_reference, for
              \* each running destructor and for the caller (at NoAddr)
  op,         \* the operation the caller has under way
  held,       \* references owned by the caller
  lost        \* references that were dropped without del_reference

queues  == <<gcSize, gcFree, memSize, memFree>>
objects == <<type, size, direct>>
caller  == <<held, lost>>
vars == <<gcSize, gcFree, collected, ref_cnt, type, size, elems, direct,
          memSize, memFree, memory, dying, freeing, op, held, lost>>

Operate(k, c) == [kind |-> k, a |-> c, src |-> NoAddr, fn |-> NoAddr]
NoOp == Operate("idle", NoAddr)
OpKind == {"idle", "mem_free", "del_scope", "reclosure", "set_closure", "clear"}

Init ==
  /\ gcSize = 0 /\ gcFree = <<>>
  /\ collected = [u \in Unit |-> TRUE]
  /\ ref_cnt = [u \in Unit |-> 0]
  /\ type = [u \in Unit |-> "plain"]
  /\ size = [u \in Unit |-> 0]
  /\ elems = [p \in Field |-> NoCell]
  /\ direct = [q \in Direct |-> NoAddr]
  /\ memSize = 0 /\ memFree = <<>>
  /\ memory = [c \in Cell |-> NoAddr]
  /\ dying = <<>>
  /\ freeing = [u \in Unit \cup {NoAddr} |-> NoCell]
  /\ op = NoOp
  /\ held = [u \in Unit |-> 0]
  /\ lost = [u \in Unit |-> 0]

-----------------------------------------------------------------------------
(* The garbage collector and the memory manager.                           *)

Live(v) == v \in Unit /\ ~collected[v]

(* The addresses pushed to a free queue that was found empty.              *)
Chunk(n, k) == [i \in 1..k |-> n + i - 1]

(* Mutant: the new units are numbered from mem_size + 1. *)
GcQueueOffByOne ==
  IF gcFree = <<>> THEN Chunk(gcSize + 1, GcChunk) ELSE gcFree

GcQueue == IF gcFree = <<>> THEN Chunk(gcSize, GcChunk) ELSE gcFree
MemQueue == IF memFree = <<>> THEN Chunk(memSize, MemChunk) ELSE memFree
NewUnit == Head(GcQueue)
NewCell == Head(MemQueue)

gc_alloc(t) ==
  /\ gcFree # <<>> \/ gcSize + GcChunk <= GcMax
  /\ gcSize' = IF gcFree = <<>> THEN gcSize + GcChunk ELSE gcSize
  /\ gcFree' = Tail(GcQueue)
  /\ collected' = [collected EXCEPT ![NewUnit] = FALSE]
  /\ ref_cnt' = [ref_cnt EXCEPT ![NewUnit] = 1]
  /\ type' = [type EXCEPT ![NewUnit] = t]

mem_alloc(v) ==
  /\ memFree # <<>> \/ memSize + MemChunk <= MemMax
  /\ memSize' = IF memFree = <<>> THEN memSize + MemChunk ELSE memSize
  /\ memFree' = Tail(MemQueue)
  /\ memory' = [memory EXCEPT ![NewCell] = v]

add_reference(v) ==
  ref_cnt' = IF Live(v) THEN [ref_cnt EXCEPT ![v] = @ + 1] ELSE ref_cnt

(* Mutant: the count is tested before it is decremented. *)
DelReferenceLate(v) ==
  IF Live(v)
  THEN /\ ref_cnt' = [ref_cnt EXCEPT ![v] = IF @ = 0 THEN 0 ELSE @ - 1]
       /\ IF ref_cnt[v] = 0
          THEN /\ collected' = [collected EXCEPT ![v] = TRUE]
               /\ dying' = <<v>> \o dying
          ELSE UNCHANGED <<collected, dying>>
  ELSE UNCHANGED <<ref_cnt, collected, dying>>

(* Mutant: a value with one holder left is destroyed. *)
DelReferenceEarly(v) ==
  IF Live(v)
  THEN /\ ref_cnt' = [ref_cnt EXCEPT ![v] = @ - 1]
       /\ IF ref_cnt[v] <= 2
          THEN /\ collected' = [collected EXCEPT ![v] = TRUE]
               /\ dying' = <<v>> \o dying
          ELSE UNCHANGED <<collected, dying>>
  ELSE UNCHANGED <<ref_cnt, collected, dying>>

(* The count that reaches zero enters the destructor of the value.         *)
del_reference(v) ==
  IF Live(v)
  THEN /\ ref_cnt' = [ref_cnt EXCEPT ![v] = @ - 1]
       /\ IF ref_cnt[v] = 1
          THEN /\ collected' = [collected EXCEPT ![v] = TRUE]
               /\ dying' = <<v>> \o dying
          ELSE UNCHANGED <<collected, dying>>
  ELSE UNCHANGED <<ref_cnt, collected, dying>>

(* The first half of mem_free: field p gives up its cell, whose number     *)
(* stays with the calling frame until del_reference has returned.          *)
mem_free(p, frame) ==
  /\ elems' = [elems EXCEPT ![p] = NoCell]
  /\ freeing' = [freeing EXCEPT ![frame] = elems[p]]
  /\ del_reference(memory[elems[p]])

(* The second half of mem_free: the cell goes to the end of the queue.     *)
mem_free_return(frame) ==
  /\ memFree' = Append(memFree, freeing[frame])
  /\ freeing' = [freeing EXCEPT ![frame] = NoCell]

-----------------------------------------------------------------------------
(* Destructors: nasal_scalar::clear on the value of unit Head(dying).      *)

DestroyField ==
  /\ dying # <<>>
  /\ freeing[Head(dying)] = NoCell
  /\ \E l \in Label :
       /\ elems[<<Head(dying), l>>] # NoCell
       /\ mem_free(<<Head(dying), l>>, Head(dying))
  /\ UNCHANGED <<queues, objects, memory, op, caller>>

DestroyCell ==
  /\ dying # <<>>
  /\ freeing[Head(dying)] # NoCell
  /\ mem_free_return(Head(dying))
  /\ UNCHANGED <<gcSize, gcFree, collected, ref_cnt, objects, elems, memSize,
                 memory, dying, op, caller>>

(* ~nasal_function: the references it owns without a cell.                 *)
DestroyDirect ==
  /\ dying # <<>>
  /\ \E s \in Slot :
       /\ direct[<<Head(dying), s>>] # NoAddr
       /\ direct' = [direct EXCEPT ![<<Head(dying), s>>] = NoAddr]
       /\ del_reference(direct[<<Head(dying), s>>])
  /\ UNCHANGED <<queues, type, size, elems, memory, freeing, op, caller>>

Emptied(u) ==
  /\ freeing[u] = NoCell
  /\ \A l \in Label : elems[<<u, l>>] = NoCell
  /\ \A s \in Slot : direct[<<u, s>>] = NoAddr

(* Mutant: the unit is not pushed to the free queue. *)
DestroyReturnNoPush ==
  /\ dying # <<>>
  /\ Emptied(Head(dying))
  /\ dying' = Tail(dying)
  /\ type' = [type EXCEPT ![Head(dying)] = "plain"]
  /\ size' = [size EXCEPT ![Head(dying)] = 0]
  /\ UNCHANGED <<queues, collected, ref_cnt, elems, direct, memory, freeing, op, caller>>

(* The destructor returns.  del_reference then gives the unit back; the    *)
(* loop of nasal_virtual_machine::clear, which is not inside               *)
(* del_reference, does not.                                                *)
DestroyReturn ==
  /\ dying # <<>>
  /\ Emptied(Head(dying))
  /\ dying' = Tail(dying)
  /\ type' = [type EXCEPT ![Head(dying)] = "plain"]
  /\ size' = [size EXCEPT ![Head(dying)] = 0]
  /\ gcFree' = IF op.kind = "clear" /\ Len(dying) = 1
               THEN gcFree ELSE Append(gcFree, Head(dying))
  /\ UNCHANGED <<gcSize, collected, ref_cnt, elems, direct, memSize, memFree,
                 memory, freeing, op, caller>>

Destroy == DestroyField \/ DestroyCell \/ DestroyDirect \/ DestroyReturn

-----------------------------------------------------------------------------
(* Operations of the caller.  They start when no other is under way.       *)

Idle == op = NoOp /\ dying = <<>>

(* The caller passes -1 where a builtin function failed to return a value. *)
Owns(v) == v = NoAddr \/ (v \in Unit /\ held[v] > 0)
HandOver(v) == held' = IF v = NoAddr THEN held ELSE [held EXCEPT ![v] = @ - 1]

(* A container is operated on while it is on a stack (h is held), or while *)
(* a value on a stack refers to it: the closure of a called function, the  *)
(* vector or hash in a variable of the running scope.                      *)
Refers(u, v) ==
  \/ \E l \in Label : elems[<<u, l>>] # NoCell /\ memory[elems[<<u, l>>]] = v
  \/ \E s \in Slot : direct[<<u, s>>] = v
PinnedBy(h, v) == h[v] > 0 \/ \E u \in Unit : h[u] > 0 /\ Refers(u, v)
Pinned(v) == PinnedBy(held, v)

(* The memory address of a left value is found by a walk of any length.    *)
Reachable(v) ==
  LET Reach[n \in 0..GcMax] ==
        IF n = 0 THEN {u \in Unit : held[u] > 0}
        ELSE Reach[n - 1] \cup {w \in Unit : \E u \in Reach[n - 1] : Refers(u, w)}
  IN v \in Reach[GcMax]

GcAlloc(t) ==
  /\ Idle
  /\ gc_alloc(t)
  /\ size' = [size EXCEPT ![NewUnit] = IF t = "closure" THEN 1 ELSE 0]
  /\ held' = [held EXCEPT ![NewUnit] = 1]
  /\ UNCHANGED <<elems, direct, memSize, memFree, memory, dying, freeing, op, lost>>

(* Mutant: the caller shares the value and forgets add_reference. *)
AddReferenceForgotten(v) ==
  /\ Idle
  /\ Live(v)
  /\ held[v] < MaxHeld
  /\ held' = [held EXCEPT ![v] = @ + 1]
  /\ UNCHANGED <<queues, collected, ref_cnt, objects, elems, memory, dying, freeing,
                 op, lost>>

AddReference(v) ==
  /\ Idle
  /\ Live(v)
  /\ held[v] < MaxHeld
  /\ add_reference(v)
  /\ held' = [held EXCEPT ![v] = @ + 1]
  /\ UNCHANGED <<queues, collected, objects, elems, memory, dying, freeing, op, lost>>

DelReference(v) ==
  /\ Idle
  /\ held[v] > 0
  /\ held' = [held EXCEPT ![v] = @ - 1]
  /\ del_reference(v)
  /\ UNCHANGED <<queues, objects, elems, memory, freeing, op, lost>>

VectorAddElem(a, v) ==
  /\ Idle
  /\ Pinned(a) /\ type[a] = "vector"
  /\ Owns(v)
  /\ size[a] <= MaxIndex
  /\ mem_alloc(v)
  /\ elems' = [elems EXCEPT ![<<a, <<size[a], Elem>>>>] = NewCell]
  /\ size' = [size EXCEPT ![a] = @ + 1]
  /\ HandOver(v)
  /\ UNCHANGED <<gcSize, gcFree, collected, ref_cnt, type, direct, dying, freeing, op, lost>>

(* Mutant: del_elem does not add the reference of the caller. *)
VectorDelElemNoRef(a) ==
  /\ Idle
  /\ Pinned(a) /\ type[a] = "vector"
  /\ size[a] > 0
  /\ LET p == <<a, <<size[a] - 1, Elem>>>>
         v == memory[elems[p]]
     IN /\ mem_free(p, NoAddr)
        /\ held' = IF v # NoAddr THEN [held EXCEPT ![v] = @ + 1] ELSE held
  /\ size' = [size EXCEPT ![a] = @ - 1]
  /\ op' = Operate("mem_free", a)
  /\ UNCHANGED <<queues, type, direct, memory, lost>>

(* del_elem returns the last element: the reference it adds for the caller *)
(* and the one mem_free deletes cancel out, and no destructor runs.        *)
VectorDelElem(a) ==
  /\ Idle
  /\ Pinned(a) /\ type[a] = "vector"
  /\ size[a] > 0
  /\ LET p == <<a, <<size[a] - 1, Elem>>>>
         v == memory[elems[p]]
     IN /\ elems' = [elems EXCEPT ![p] = NoCell]
        /\ memFree' = Append(memFree, elems[p])
        /\ held' = IF Live(v) THEN [held EXCEPT ![v] = @ + 1] ELSE held
  /\ size' = [size EXCEPT ![a] = @ - 1]
  /\ UNCHANGED <<gcSize, gcFree, collected, ref_cnt, type, direct, memSize, memory,
                 dying, freeing, op, lost>>

HashAddElem(a, k, v) ==
  /\ Idle
  /\ Pinned(a) /\ type[a] = "hash"
  /\ Owns(v)
  /\ elems[<<a, <<0, k>>>>] = NoCell
  /\ mem_alloc(v)
  /\ elems' = [elems EXCEPT ![<<a, <<0, k>>>>] = NewCell]
  /\ HandOver(v)
  /\ UNCHANGED <<gcSize, gcFree, collected, ref_cnt, objects, dying, freeing, op, lost>>

(* add_elem of a key the hash already has: the hash keeps the old value,   *)
(* the caller has given the new one away, and its reference is lost.       *)
HashAddElemAgain(a, k, v) ==
  /\ Idle
  /\ Pinned(a) /\ type[a] = "hash"
  /\ Owns(v) /\ v # NoAddr /\ lost[v] < MaxHeld
  /\ elems[<<a, <<0, k>>>>] # NoCell
  /\ HandOver(v)
  /\ lost' = [lost EXCEPT ![v] = @ + 1]
  /\ UNCHANGED <<queues, collected, ref_cnt, objects, elems, memory, dying, freeing, op>>

(* Mutant: the member is freed and not erased from the map. *)
HashDelElemNoErase(a, k) ==
  /\ Idle
  /\ Pinned(a) /\ type[a] = "hash"
  /\ elems[<<a, <<0, k>>>>] # NoCell
  /\ freeing' = [freeing EXCEPT ![NoAddr] = elems[<<a, <<0, k>>>>]]
  /\ del_reference(memory[elems[<<a, <<0, k>>>>]])
  /\ op' = Operate("mem_free", a)
  /\ UNCHANGED <<queues, objects, elems, memory, caller>>

HashDelElem(a, k) ==
  /\ Idle
  /\ Pinned(a) /\ type[a] = "hash"
  /\ elems[<<a, <<0, k>>>>] # NoCell
  /\ mem_free(<<a, <<0, k>>>>, NoAddr)
  /\ op' = Operate("mem_free", a)
  /\ UNCHANGED <<queues, objects, memory, caller>>

(* mem_change stores a value the caller owns in the cell of field p.  The  *)
(* container is reached without passing through the old value, so that its *)
(* destructor does not see this cell and the store is in the same step.    *)
MemChange(p, v) ==
  /\ Idle
  /\ elems[p] # NoCell
  /\ Reachable(p[1])
  /\ Owns(v)
  /\ memory' = [memory EXCEPT ![elems[p]] = v]
  /\ HandOver(v)
  /\ del_reference(memory[elems[p]])
  /\ UNCHANGED <<queues, objects, elems, freeing, op, lost>>

(* add_para with a default value.                                          *)
FunctionAddPara(f, s, v) ==
  /\ Idle
  /\ held[f] > 0 /\ type[f] = "function"
  /\ s > 0 /\ direct[<<f, s>>] = NoAddr
  /\ Owns(v) /\ v # NoAddr
  /\ direct' = [direct EXCEPT ![<<f, s>>] = v]
  /\ HandOver(v)
  /\ UNCHANGED <<queues, collected, ref_cnt, type, size, elems, memory, dying,
                 freeing, op, lost>>

ClosureAddScope(a) ==
  /\ Idle
  /\ Pinned(a) /\ type[a] = "closure"
  /\ size[a] <= MaxIndex
  /\ size' = [size EXCEPT ![a] = @ + 1]
  /\ UNCHANGED <<queues, collected, ref_cnt, type, elems, direct, memory, dying,
                 freeing, op, caller>>

(* Mutant: the cell of the older definition is forgotten. *)
ClosureAddNewValueNoFree(a, x, v) ==
  /\ Idle
  /\ type[a] = "closure" /\ size[a] > 0
  /\ Owns(v)
  /\ HandOver(v)
  /\ PinnedBy(held', a)
  /\ mem_alloc(v)
  /\ elems' = [elems EXCEPT ![<<a, <<size[a] - 1, x>>>>] = NewCell]
  /\ UNCHANGED <<gcSize, gcFree, collected, ref_cnt, objects, dying, freeing, op, lost>>

(* add_new_value: the new cell is allocated first, then the cell of an     *)
(* older definition in the same scope is freed.  The value handed over is  *)
(* never the one the caller reaches the closure by.                        *)
ClosureAddNewValue(a, x, v) ==
  /\ Idle
  /\ type[a] = "closure" /\ size[a] > 0
  /\ Owns(v)
  /\ HandOver(v)
  /\ PinnedBy(held', a)
  /\ mem_alloc(v)
  /\ LET p == <<a, <<size[a] - 1, x>>>> IN
       /\ elems' = [elems EXCEPT ![p] = NewCell]
       /\ IF elems[p] = NoCell
          THEN UNCHANGED <<collected, ref_cnt, dying, freeing, op>>
          ELSE /\ freeing' = [freeing EXCEPT ![NoAddr] = elems[p]]
               /\ del_reference(memory[elems[p]])
               /\ op' = Operate("mem_free", a)
  /\ UNCHANGED <<gcSize, gcFree, objects, lost>>

(* The caller's own mem_free returns.                                      *)
MemFreeReturn ==
  /\ dying = <<>>
  /\ freeing[NoAddr] # NoCell
  /\ mem_free_return(NoAddr)
  /\ op' = IF op.kind = "mem_free" THEN NoOp ELSE op
  /\ UNCHANGED <<gcSize, gcFree, collected, ref_cnt, objects, elems, memSize,
                 memory, dying, caller>>

(* del_scope frees the variables of the last scope one by one.             *)
ClosureDelScope(a) ==
  /\ Idle
  /\ held[a] > 0 /\ type[a] = "closure" /\ size[a] > 0
  /\ op' = Operate("del_scope", a)
  /\ UNCHANGED <<queues, collected, ref_cnt, objects, elems, memory, dying,
                 freeing, caller>>

ScopeLabel(a) == {size[a] - 1} \X Name

DelScopeField ==
  /\ op.kind = "del_scope" /\ dying = <<>> /\ freeing[NoAddr] = NoCell
  /\ \E l \in ScopeLabel(op.a) :
       /\ elems[<<op.a, l>>] # NoCell
       /\ mem_free(<<op.a, l>>, NoAddr)
  /\ UNCHANGED <<queues, objects, memory, op, caller>>

DelScopeReturn ==
  /\ op.kind = "del_scope" /\ dying = <<>> /\ freeing[NoAddr] = NoCell
  /\ \A l \in ScopeLabel(op.a) : elems[<<op.a, l>>] = NoCell
  /\ size' = [size EXCEPT ![op.a] = @ - 1]
  /\ op' = NoOp
  /\ UNCHANGED <<queues, collected, ref_cnt, type, elems, direct, memory, dying,
                 freeing, caller>>

-----------------------------------------------------------------------------
(* nasal_function::set_closure_addr(src): drop the closure the function    *)
(* has, allocate a new one and copy every scope of src into it.  The       *)
(* cells are new, the values shared: a closure captures by value.          *)

Fields(a) == {l \in Label : elems[<<a, l>>] # NoCell}
FreeCells == Len(memFree) + ((MemMax - memSize) \div MemChunk) * MemChunk

FunctionSetClosure(f, src) ==
  /\ Idle
  /\ held[f] > 0 /\ type[f] = "function"
  /\ held[src] > 0 /\ type[src] = "closure"
  /\ gcFree # <<>> \/ gcSize + GcChunk <= GcMax
  /\ Cardinality(Fields(src)) <= FreeCells
  /\ op' = [kind |-> "reclosure", a |-> NoAddr, src |-> src, fn |-> f]
  /\ direct' = [direct EXCEPT ![<<f, 0>>] = NoAddr]
  /\ del_reference(direct[<<f, 0>>])
  /\ UNCHANGED <<queues, type, size, elems, memory, freeing, caller>>

SetClosureAlloc ==
  /\ op.kind = "reclosure" /\ dying = <<>>
  /\ gc_alloc("closure")
  /\ size' = [size EXCEPT ![NewUnit] = size[op.src]]
  /\ held' = [held EXCEPT ![NewUnit] = 1]
  /\ op' = [op EXCEPT !.kind = "set_closure", !.a = NewUnit]
  /\ UNCHANGED <<elems, direct, memSize, memFree, memory, dying, freeing, lost>>

(* Mutant: the copy of a cell does not count as a reference. *)
SetClosureCopyNoRef ==
  /\ op.kind = "set_closure"
  /\ \E l \in Fields(op.src) \ Fields(op.a) :
       /\ mem_alloc(memory[elems[<<op.src, l>>]])
       /\ elems' = [elems EXCEPT ![<<op.a, l>>] = NewCell]
  /\ UNCHANGED <<gcSize, gcFree, collected, ref_cnt, objects, dying, freeing, op, caller>>

SetClosureCopy ==
  /\ op.kind = "set_closure"
  /\ \E l \in Fields(op.src) \ Fields(op.a) :
       /\ mem_alloc(memory[elems[<<op.src, l>>]])
       /\ add_reference(memory[elems[<<op.src, l>>]])
       /\ elems' = [elems EXCEPT ![<<op.a, l>>] = NewCell]
  /\ UNCHANGED <<gcSize, gcFree, collected, objects, dying, freeing, op, caller>>

SetClosureReturn ==
  /\ op.kind = "set_closure"
  /\ Fields(op.src) = Fields(op.a)
  /\ direct' = [direct EXCEPT ![<<op.fn, 0>>] = op.a]
  /\ HandOver(op.a)
  /\ op' = NoOp
  /\ UNCHANGED <<queues, collected, ref_cnt, type, size, elems, memory, dying,
                 freeing, lost>>

-----------------------------------------------------------------------------
(* nasal_virtual_machine::clear: the loop over all units, then the reset.  *)

ClearBegin ==
  /\ Idle
  /\ op' = Operate("clear", 0)
  /\ UNCHANGED <<queues, collected, ref_cnt, objects, elems, memory, dying,
                 freeing, caller>>

(* Mutant: clear does not mark the unit collected before its destructor. *)
ClearStepUnmarked ==
  /\ op.kind = "clear" /\ dying = <<>> /\ op.a < gcSize
  /\ op' = [op EXCEPT !.a = @ + 1]
  /\ IF ref_cnt[op.a] # 0
     THEN /\ ref_cnt' = [ref_cnt EXCEPT ![op.a] = 0]
          /\ dying' = <<op.a>>
     ELSE UNCHANGED <<ref_cnt, dying>>
  /\ UNCHANGED <<queues, collected, objects, elems, memory, freeing, caller>>

(* Mutant: the loop of clear goes on only after a unit in use. *)
ClearStepStuck ==
  /\ op.kind = "clear" /\ dying = <<>> /\ op.a < gcSize
  /\ ref_cnt[op.a] # 0
  /\ op' = [op EXCEPT !.a = @ + 1]
  /\ ref_cnt' = [ref_cnt EXCEPT ![op.a] = 0]
  /\ collected' = [collected EXCEPT ![op.a] = TRUE]
  /\ dying' = <<op.a>>
  /\ UNCHANGED <<queues, objects, elems, memory, freeing, caller>>

ClearStep ==
  /\ op.kind = "clear" /\ dying = <<>> /\ op.a < gcSize
  /\ op' = [op EXCEPT !.a = @ + 1]
  /\ IF ref_cnt[op.a] # 0
     THEN /\ ref_cnt' = [ref_cnt EXCEPT ![op.a] = 0]
          /\ collected' = [collected EXCEPT ![op.a] = TRUE]
          /\ dying' = <<op.a>>
     ELSE UNCHANGED <<ref_cnt, collected, dying>>
  /\ UNCHANGED <<queues, objects, elems, memory, freeing, caller>>

(* The units are deleted, both free queues and both memories emptied; the  *)
(* caller empties its stacks without deleting their references.            *)
ClearEnd ==
  /\ op.kind = "clear" /\ dying = <<>> /\ op.a = gcSize
  /\ gcSize' = 0 /\ gcFree' = <<>>
  /\ memSize' = 0 /\ memFree' = <<>>
  /\ memory' = [c \in Cell |-> NoAddr]
  /\ op' = NoOp
  /\ held' = [u \in Unit |-> 0] /\ lost' = [u \in Unit |-> 0]
  /\ UNCHANGED <<collected, ref_cnt, objects, elems, dying, freeing>>

-----------------------------------------------------------------------------

(* What a call does after its first step.                                  *)
Continue ==
  \/ Destroy \/ MemFreeReturn
  \/ DelScopeField \/ DelScopeReturn
  \/ SetClosureAlloc \/ SetClosureCopy \/ SetClosureReturn
  \/ ClearStep \/ ClearEnd

Value == Unit \cup {NoAddr}

Call ==
  \/ \E t \in Kind : GcAlloc(t)
  \/ \E v \in Unit : AddReference(v) \/ DelReference(v)
  \/ \E a \in Unit, v \in Value : VectorAddElem(a, v)
  \/ \E a \in Unit : VectorDelElem(a) \/ ClosureAddScope(a) \/ ClosureDelScope(a)
  \/ \E a \in Unit, k \in Name : HashDelElem(a, k)
  \/ \E a \in Unit, k \in Name, v \in Value :
       HashAddElem(a, k, v) \/ HashAddElemAgain(a, k, v) \/ ClosureAddNewValue(a, k, v)
  \/ \E p \in Field, v \in Value : MemChange(p, v)
  \/ \E f \in Unit, s \in Slot, v \in Value : FunctionAddPara(f, s, v)
  \/ \E f, src \in Unit : FunctionSetClosure(f, src)
  \/ ClearBegin

Next == Continue \/ Call

(* A call runs to its end: the interpreter has one thread and no call of   *)
(* the heap waits for anything.  Nothing is assumed of the caller.         *)
Fairness == WF_vars(Continue)

Spec == Init /\ [][Next]_vars /\ Fairness

-----------------------------------------------------------------------------
(* Properties.                                                             *)

(* Every variable has its type.                                            *)
TypeOK ==
  /\ gcSize \in 0..GcMax /\ gcFree \in Seq(Unit)
  /\ collected \in [Unit -> BOOLEAN] /\ ref_cnt \in [Unit -> Nat]
  /\ type \in [Unit -> Type] /\ size \in [Unit -> 0..(MaxIndex + 1)]
  /\ elems \in [Field -> Cell \cup {NoCell}]
  /\ direct \in [Direct -> Unit \cup {NoAddr}]
  /\ memSize \in 0..MemMax /\ memFree \in Seq(Cell)
  /\ memory \in [Cell -> Unit \cup {NoAddr}]
  /\ dying \in Seq(Unit)
  /\ freeing \in [Unit \cup {NoAddr} -> Cell \cup {NoCell}]
  /\ op \in [kind : OpKind, a : -1..GcMax, src : -1..(GcMax - 1), fn : -1..(GcMax - 1)]
  /\ held \in [Unit -> Nat] /\ lost \in [Unit -> Nat]

RefsOf(e, m, v) == {p \in Field : e[p] # NoCell /\ m[e[p]] = v}
CellRefs(v) == RefsOf(elems, memory, v)
SlotsOf(d, v) == {q \in Direct : d[q] = v}
DirectRefs(v) == SlotsOf(direct, v)
Holders(v) == Cardinality(CellRefs(v)) + Cardinality(DirectRefs(v)) + held[v] + lost[v]

Clearing == op.kind = "clear"

(* The reference count of a value is the number of its holders, at every   *)
(* step of every cascade of destructors: add_reference and del_reference   *)
(* are called exactly where a holder appears or goes.                      *)
CountExact == ~Clearing => \A v \in Unit : ref_cnt[v] = Holders(v)

(* A unit is in use exactly as long as it has a holder.  So nothing refers *)
(* to a unit that was given back (gc_get would answer with                 *)
(* error_returned_value, or with the unit's next value), and what is left  *)
(* behind is referred to, by a cycle or by a lost reference.               *)
LiveIffHeld == ~Clearing => \A v \in Unit : Live(v) <=> Holders(v) > 0

Occurrences(s, x) == {i \in DOMAIN s : s[i] = x}

(* mem_free checks for no double free: each cell ever allocated is free    *)
(* once, or the cell of one field, or in the hands of one mem_free, also   *)
(* while vm.clear destroys objects that refer to each other.               *)
CellsPartitioned ==
  \A c \in Cell :
    Cardinality(Occurrences(memFree, c)) + Cardinality({p \in Field : elems[p] = c})
      + Cardinality({u \in Unit \cup {NoAddr} : freeing[u] = c})
    = IF c < memSize THEN 1 ELSE 0

(* A unit is free once, or dying once, or in use: no destructor runs twice *)
(* and no unit is handed out while its destructor is running.              *)
UnitsPartitioned ==
  ~Clearing => \A u \in Unit :
    Cardinality(Occurrences(gcFree, u)) + Cardinality(Occurrences(dying, u))
      + (IF collected[u] THEN 0 ELSE 1)
    = IF u < gcSize THEN 1 ELSE 0

(* Destroying the values that an operation releases never destroys the     *)
(* container or the function it is working on.                             *)
TargetSurvives ==
  ~Clearing => \A u \in {op.a, op.src, op.fn} \ {NoAddr} : Live(u)

(* Only a value that no container, stack or running call refers to any     *)
(* more is given to its destructor; vm.clear alone destroys values in use. *)
FreedOnlyWhenUnheld ==
  [][ \A v \in Unit : Live(v) /\ collected'[v] => (Clearing \/ Holders(v)' = 0) ]_vars

(* When vm.clear reaches the end of the units, every object is destroyed,  *)
(* those of reference cycles and those leaked included, and every cell is  *)
(* back in the queue once ("circular reference will cause using destructor *)
(* repeatedly": it does not).                                              *)
ClearDestroysAll ==
  Clearing /\ dying = <<>> /\ op.a = gcSize =>
    /\ \A u \in Unit : collected[u] /\ ref_cnt[u] = 0 /\ Emptied(u) /\ type[u] = "plain"
    /\ Len(memFree) = memSize /\ {memFree[i] : i \in 1..Len(memFree)} = 0..(memSize - 1)

(* Every call returns: the recursion of del_reference ends on every graph  *)
(* of values, cyclic ones included.                                        *)
CallReturns == (~Idle) ~> Idle
=============================================================================

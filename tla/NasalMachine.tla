------------------------------ MODULE NasalMachine ------------------------------
(***************************************************************************)
(* The machine of NasalVM with any code at all: AnyProgram is any set of   *)
(* programs, and nothing is known of their opcodes, operands and order,    *)
(* nor of the code generator.  What is true of every step of this machine  *)
(* is true of the steps of NasalExec and NasalSession that change it.      *)
(***************************************************************************)
EXTENDS NasalVM, NasalStoreInv

CONSTANT AnyProgram  \* a set of records, as main_progress of NasalCodegen makes

exec == <<exec_code, layout, ptr, error, vm, global_scope_addr, stacks>>

(* The code generator is trusted for one thing: a builtin call has the     *)
(* name of a builtin function.  OperandsReady checks it on its programs.    *)
Step ==
  \/ Execute /\ (Current = "builtincall" => BuiltinFits)
  \/ Clear
  \/ \E program \in AnyProgram : Run(program)
Machine == Init /\ [][Step]_exec

-----------------------------------------------------------------------------
(* No count is too low: a value has at least one reference for each stack   *)
(* entry, cell, function and scope that holds it, so that del_reference     *)
(* gives none back that something still holds.                              *)
CountsSuffice ==
  \A a \in DOMAIN vm.unit : vm.unit[a].cnt >= Count(Roots, a) + HeldInside(vm, a)
-----------------------------------------------------------------------------
(* The inductive invariant: what the stacks hold is what the store may      *)
(* count on (Sound of NasalStoreInv), stacks as arguments so that a handler *)
(* can be followed from one operation to the next.                          *)

One(x, a) == IF x = a THEN 1 ELSE 0

(* The value an entry holds: that of a memory entry is none.                *)
Address(e) == IF e.k = "value" THEN e.a ELSE None
Addrs(values) == [i \in DOMAIN values |-> Address(values[i])]
Entries(values) == IsSeq(values) /\ \A i \in DOMAIN values : Address(values[i]) \in Int

(* The references of the machine, and what it knows of the store: the types *)
(* of the units, and the scopes that the calls under way have opened.       *)
Hands(values, locals, slices, global) ==
  [a \in Int |-> Count(Addrs(values), a) + Count(locals, a) + Count(slices, a) + One(global, a)]
Kinds(s) == [b \in DOMAIN s.unit |-> s.unit[b].type]
Account(locals, kind) ==
  [scopes |-> [a \in Int |-> Count(locals, a)], kind |-> kind, open |-> {}]

LiveAs(s, a, type) == a \in DOMAIN s.unit /\ s.unit[a].type = type

(* The stacks, and what they refer to.                                      *)
StacksFit(values, locals, slices, calls, global) ==
  /\ Entries(values)
  /\ locals \in Seq(Int) /\ slices \in Seq(Int) /\ IsSeq(calls) /\ global \in Int
  /\ Len(locals) = Len(calls) + 1 /\ locals[1] = None
Referred(s, locals, slices, global) ==
  /\ \A i \in DOMAIN slices : LiveAs(s, slices[i], "vector")
  /\ \A i \in DOMAIN locals : locals[i] # None => LiveAs(s, locals[i], "closure")
  /\ global # None => LiveAs(s, global, "closure")
Stacked(s, values, locals, slices, calls, global) ==
  /\ StacksFit(values, locals, slices, calls, global)
  /\ Referred(s, locals, slices, global)
  /\ Sound(s, Hands(values, locals, slices, global), Account(locals, Kinds(s)))

Now == Stacked(vm, value_stack, local_scope_stack, slice_stack, call_stack, global_scope_addr)

(* Between two programs the stacks are empty; during one there is a global  *)
(* scope.                                                                   *)
Rest0 ==
  /\ ptr = 0 /\ value_stack = <<>> /\ local_scope_stack = <<None>>
  /\ slice_stack = <<>> /\ call_stack = <<>>
IInv ==
  /\ Now
  /\ Idle => Rest0
  /\ ~Idle => global_scope_addr # None
=============================================================================

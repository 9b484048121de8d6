------------------------------ MODULE NasalValue ------------------------------
(***************************************************************************)
(* What expressions that need no variable give when the tree interpreter   *)
(* evaluates each of them in a session that has just begun.                *)
(***************************************************************************)
EXTENDS NasalScalar

Tree == INSTANCE NasalRuntime WITH root <- <<>>, expr <- 0, rt <- 0, builtin_die_state <- 0

(* Vectors, hashes and functions are told apart by their types only.        *)
Seen(r) ==
  CASE r.error \/ r.addr = Tree!None -> <<"none", r.error>>
    [] ~(r.error \/ r.addr = Tree!None) /\ Tree!Type(r.vm, r.addr) \in {"number", "string"} ->
         <<Tree!Type(r.vm, r.addr), Tree!Val(r.vm, r.addr)>>
    [] OTHER -> <<Tree!Type(r.vm, r.addr)>>
Values(exprs) == {Seen(r) : r \in {Tree!eval(Tree!Idle, e, Tree!None) : e \in exprs}}
=============================================================================

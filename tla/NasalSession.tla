------------------------------ MODULE NasalSession ------------------------------
(***************************************************************************)
(* A session of main.cpp after parsing and linking: the commands exec and  *)
(* run hand the same syntax tree to two machines, each with a store of its *)
(* own.  The builtin functions are shared, and so is the state that the    *)
(* builtin die leaves.                                                     *)
(*                                                                         *)
(* Each program of Source is run by exec and then by run, so that what the *)
(* second machine makes of it can be compared with what the first one did; *)
(* those of TreeSource are run by run alone.                               *)
(***************************************************************************)
EXTENDS NasalExec

CONSTANTS
  TreeSource,  \* a sequence of syntax trees, as Source
  Depth        \* bound: how deep values are compared

VARIABLES
  root, expr, rt,   \* of the tree interpreter: see NasalRuntime
  outcome           \* what became of the program under exec

Tree == INSTANCE NasalRuntime

tree == <<root, expr, rt>>
exec == <<exec_code, layout, ptr, error, vm, global_scope_addr, stacks>>
session == <<vars, tree, outcome>>

(* What a value looks like from outside, to a depth; functions all look the *)
(* same.                                                                    *)
RECURSIVE Image(_, _, _)
Image(s, a, depth) ==
  LET Of(c) == Image(s, mem_get(s, c), depth - 1)
  IN CASE Type(s, a) \in {"number", "string"} -> <<Type(s, a), Val(s, a)>>
       [] depth > 0 /\ Type(s, a) = "vector" ->
            <<"vector", [i \in DOMAIN Val(s, a) |-> Of(Val(s, a)[i])]>>
       [] depth > 0 /\ Type(s, a) = "hash" ->
            <<"hash", [k \in DOMAIN Val(s, a) |-> Of(Val(s, a)[k])]>>
       [] OTHER -> <<Type(s, a)>>

Globals(s, global) ==
  LET scope == Val(s, global)[1]
  IN [name \in DOMAIN scope |-> Image(s, mem_get(s, scope[name]), Depth)]

(* program counts the programs of Source; 0 between two of them.            *)
NoOutcome == [program |-> 0, error |-> FALSE, globals |-> <<>>]

ExecStart ==
  /\ Idle /\ ~Tree!Running /\ outcome = NoOutcome
  /\ \E i \in DOMAIN Source : /\ Run(main_progress(Source[i]))
                             /\ outcome' = [NoOutcome EXCEPT !.program = i]
  /\ UNCHANGED tree
ExecStep == Execute /\ UNCHANGED <<tree, outcome>>
ExecEnd ==
  /\ Clear
  /\ outcome' = [outcome EXCEPT !.error = error > 0,
                               !.globals = IF error > 0 THEN <<>>
                                           ELSE Globals(vm, global_scope_addr)]
  /\ UNCHANGED tree

TreeStart ==
  /\ Idle /\ outcome # NoOutcome
  /\ Tree!Run(Source[outcome.program])
  /\ UNCHANGED <<exec, outcome>>
TreeOnlyStart ==
  /\ Idle /\ outcome = NoOutcome
  /\ \E i \in DOMAIN TreeSource : Tree!Run(TreeSource[i])
  /\ UNCHANGED <<exec, outcome>>
TreeStep == Tree!main_progress /\ UNCHANGED <<exec, outcome>>
TreeEnd == Tree!Clear /\ outcome' = NoOutcome /\ UNCHANGED exec

SessionNext ==
  ExecStart \/ ExecStep \/ ExecEnd \/ TreeStart \/ TreeOnlyStart \/ TreeStep \/ TreeEnd
SessionInit == Init /\ Tree!Init /\ outcome = NoOutcome

(* Fairness as in NasalExec: the bytecode machine runs on while it can.     *)
Session ==
  SessionInit /\ [][SessionNext]_session /\ ([]<>Idle \/ []<><<~Idle>>_vars)

-----------------------------------------------------------------------------
(* Where both machines come to the end of a program without an error, all   *)
(* its variables have the same values in both.                              *)
SameGlobals ==
  Tree!Running /\ ~Tree!More /\ ~Tree!Stopped(rt) /\ outcome # NoOutcome /\ ~outcome.error =>
    Globals(rt.vm, rt.global) = outcome.globals

(* The properties of the tree interpreter: see NasalRuntime.                *)
RunReferencesExact == Tree!ReferencesExact
RunAddressesValid == Tree!AddressesValid
RunPlacesValid == Tree!PlacesValid
RunScopesClosed == [][Tree!ClosesScopes]_rt
=============================================================================

------------------------------- MODULE NasalExec -------------------------------
(***************************************************************************)
(* The command exec after parsing and linking: the code generator          *)
(* (NasalCodegen) turns a syntax tree into code, and the bytecode machine  *)
(* (NasalVM) runs it.  Programs are run one after the other by the same    *)
(* machine, as by the commands of one session.                             *)
(***************************************************************************)
EXTENDS NasalCodegen, NasalVM

CONSTANT Source  \* the programs: a sequence of syntax trees

Exec(programs) ==
  Idle /\ \E i \in DOMAIN programs : Run(main_progress(programs[i]))

Next == Execute \/ Clear \/ Exec(Source)

(* The machine runs until the program is over.  The second conjunct is weak *)
(* fairness of Execute \/ Clear: just where the machine is not idle is that *)
(* action enabled, and every step from there is one of its steps.           *)
Spec == Init /\ [][Next]_vars /\ ([]<>Idle \/ []<><<~Idle>>_vars)

-----------------------------------------------------------------------------
(* Properties of the code that is made.                                     *)

(* The functions, by the address of their entry, that address at is inside. *)
InBody(at) == {i \in 0..(at - 1) : /\ exec_code[i + 1].op = "entry"
                                    /\ at >= exec_code[i + 1].x
                                    /\ at < exec_code[i + 2].x}
JumpOps == {"jmp", "jmptrue", "jmpfalse", "forindex", "foreach"}

(* No jump leads out of the code, into the body of a function or out of it: *)
(* a body is entered by callf and left by return, with their stacks.  The   *)
(* code is looked at where a run starts.                                    *)
JumpsInsideFunction ==
  ptr = 0 => \A i \in DOMAIN exec_code :
    exec_code[i].op \in JumpOps =>
      /\ exec_code[i].x \in 0..(Len(exec_code) - 1)
      /\ InBody(exec_code[i].x) = InBody(i - 1)

(* break leads behind the innermost loop around it, continue to the place   *)
(* where that loop goes on: no other loop takes them for its own.           *)
Around(at) == {loop \in Range(layout.loops) : loop.from <= at /\ at < loop.to}
Innermost(at) ==
  CHOOSE loop \in Around(at) : \A other \in Around(at) : other.from <= loop.from
JumpsOwnLoop ==
  ptr = 0 => \A jump \in Range(layout.jumps) :
    exec_code[jump.at + 1].x = IF jump.what = "break" THEN Innermost(jump.at).to
                               ELSE Innermost(jump.at).again

(* Where a statement of the main program begins, nothing is left of the     *)
(* statements before it: all stacks are as they were at the start.  Slices  *)
(* and the values of a vector (callvi) never pop that vector.               *)
LeavesVector == {"callvi", "sliceend"}
StatementsBalanced ==
  (\A i \in DOMAIN exec_code : exec_code[i].op \notin LeavesVector) /\ Running /\ ptr \in layout.starts /\ call_stack = <<>> =>
    value_stack = <<>> /\ slice_stack = <<>> /\ counter_stack = <<>>

(* "delete function" (nasal_bytecode_vm.h:1456): what return takes from     *)
(* below the value it returns is the function that was called.              *)
ReturnDeletesFunction ==
  Running /\ Current = "return" =>
    Len(value_stack) >= 2 /\ Type(vm, Second) = "function"

(* A program without endless loops or recursion comes to its end, by        *)
(* whichever branch, loop exit or error.                                    *)
RunEnds == ~Idle ~> Idle
=============================================================================

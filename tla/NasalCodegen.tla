------------------------------ MODULE NasalCodegen ------------------------------
(***************************************************************************)
(* The code generator (nasal_codegen.h): from a syntax tree to the         *)
(* sequence of opcodes the bytecode machine runs.                          *)
(*                                                                         *)
(* A node of the tree is a record: its type t (nasal_ast's, without ast_), *)
(* its name or number v and its children c.  Each X_gen of the source is   *)
(* the operator of that name, from the generator's state and a node to the *)
(* state after it.  Addresses count from 0 as in the source.  The operand  *)
(* of an opcode is the name or the number itself: the tables exec_code     *)
(* indexes into (number_table, string_table) are one to one.               *)
(***************************************************************************)
EXTENDS Integers, Sequences, SequencesExt

CONSTANT Builtin  \* names of builtin_func_table

Node(t, v, c) == [t |-> t, v |-> v, c |-> c]

(* The state of the generator: exec_code, and the addresses of the jumps of *)
(* continue and break that are still to be given a target.  loops and jumps *)
(* only record what was compiled: the loops (their first address, where     *)
(* continue and break should lead) and the jumps of continue and break.     *)
Generator == [code |-> <<>>, continue_ptr |-> <<>>, break_ptr |-> <<>>,
              loops |-> <<>>, jumps |-> <<>>]

Here(g) == Len(g.code)
Emit(g, op, x) == [g EXCEPT !.code = Append(@, [op |-> op, x |-> x])]
Patch(g, at, target) == [g EXCEPT !.code[at + 1].x = target]
PatchAll(g, ats, target) ==
  [g EXCEPT !.code = [i \in DOMAIN @ |-> IF i - 1 \in Range(ats)
                                         THEN [@[i] EXCEPT !.x = target] ELSE @[i]]]

pop_gen(g) == Emit(g, "pop", 0)
nil_gen(g) == Emit(g, "pushnil", 0)

(* An expression is compiled by calculation_gen and a block by block_gen:   *)
(* gen is either, so that there is one operator the others come back to.    *)
RECURSIVE gen(_, _)

number_gen(g, ast) ==
  CASE ast.v = 1 -> Emit(g, "pushone", 0)
    [] ast.v = 0 -> Emit(g, "pushzero", 0)
    [] OTHER -> Emit(g, "pushnum", ast.v)

string_gen(g, ast) == Emit(g, "pushstr", ast.v)

Elements(g, op, es) ==
  LET f[n \in 0..Len(es)] ==
        IF n = 0 THEN g ELSE Emit(gen(f[n - 1], es[n]), op, 0)
  IN f[Len(es)]
Members(g, ms) ==
  LET f[n \in 0..Len(ms)] ==
        IF n = 0 THEN g
        ELSE Emit(gen(f[n - 1], ms[n].c[2]), "hashapp", ms[n].c[1].v)
  IN f[Len(ms)]

vector_gen(g, ast) == Elements(Emit(g, "newvec", 0), "vecapp", ast.c)
hash_gen(g, ast) == Members(Emit(g, "newhash", 0), ast.c)

Parameter(g, p) ==
  CASE p.t = "identifier" -> Emit(g, "para", p.v)
    [] p.t = "default_arg" -> Emit(gen(g, p.c[2]), "defpara", p.c[1].v)
    [] p.t = "dynamic_id" -> Emit(g, "dynpara", p.v)

Parameters(g, ps) ==
  LET f[n \in 0..Len(ps)] == IF n = 0 THEN g ELSE Parameter(f[n - 1], ps[n])
  IN f[Len(ps)]

(* The code of the body stands where the function value is made, and is     *)
(* jumped over.  A body that does not end in a return gets one.             *)
function_gen(g, ast) ==
  LET head == Parameters(Emit(g, "newfunc", 0), ast.c[1].c)
      over == Here(head) + 1
      start == Emit(Emit(head, "entry", Here(head) + 2), "jmp", 0)
      block == ast.c[2]
      body == gen(start, block)
      end == IF block.c = <<>> \/ Last(block.c).t # "return"
             THEN Emit(nil_gen(body), "return", 0) ELSE body
  IN Patch(end, over, Here(end))

call_id(g, ast) ==
  Emit(g, IF ast.v \in Builtin THEN "builtincall" ELSE "call", ast.v)
call_hash(g, ast) == Emit(g, "callh", ast.v)

Slice(g, e) ==
  IF e.t = "subvec"
  THEN Emit(gen(gen(g, e.c[1]), e.c[2]), "slice2", 0)
  ELSE Emit(gen(g, e), "slice", 0)

call_vec(g, ast) ==
  LET f[n \in 0..Len(ast.c)] ==
        IF n = 0 THEN Emit(g, "slicebegin", 0) ELSE Slice(f[n - 1], ast.c[n])
  IN IF Len(ast.c) = 1 /\ ast.c[1].t # "subvec"
     THEN Emit(gen(g, ast.c[1]), "callv", 0)
     ELSE Emit(f[Len(ast.c)], "sliceend", 0)

call_func(g, ast) ==
  LET args == IF ast.c # <<>> /\ ast.c[1].t = "hashmember"
              THEN Members(Emit(g, "newhash", 0), ast.c)
              ELSE Elements(Emit(g, "newvec", 0), "vecapp", ast.c)
  IN Emit(args, "callf", 0)

(* The arguments after the name of a builtin are dropped: a builtin finds   *)
(* its arguments by name in the scope of the function around it.            *)
call_gen(g, ast) ==
  LET Call(h, e) == CASE e.t = "call_hash" -> call_hash(h, e)
                      [] e.t = "call_vec" -> call_vec(h, e)
                      [] e.t = "call_func" -> call_func(h, e)
      f[n \in DOMAIN ast.c] ==
        IF n = 1 THEN gen(g, ast.c[1]) ELSE Call(f[n - 1], ast.c[n])
  IN IF Last(f[1].code).op = "builtincall" THEN f[1] ELSE f[Len(ast.c)]

mem_call_id(g, ast) == Emit(g, "mcall", ast.v)
mem_call_vec(g, ast) == Emit(gen(g, ast.c[1]), "mcallv", 0)
mem_call_hash(g, ast) == Emit(g, "mcallh", ast.v)
mem_call(g, ast) ==
  LET Call(h, e) == CASE e.t = "call_hash" -> mem_call_hash(h, e)
                      [] e.t = "call_vec" -> mem_call_vec(h, e)
                      [] OTHER -> h
      f[n \in DOMAIN ast.c] ==
        IF n = 1 THEN mem_call_id(g, ast.c[1]) ELSE Call(f[n - 1], ast.c[n])
  IN IF ast.t = "identifier" THEN mem_call_id(g, ast) ELSE f[Len(ast.c)]

single_def(g, ast) == Emit(gen(g, ast.c[2]), "load", ast.c[1].v)

multi_def(g, ast) ==
  LET names == ast.c[1].c
      value == ast.c[2]
      Value(h, n) == IF value.t = "multi_scalar" THEN gen(h, value.c[n])
                     ELSE Emit(h, "callvi", n - 1)
      f[n \in 0..Len(names)] ==
        CASE n > 0 -> Emit(Value(f[n - 1], n), "load", names[n].v)
          [] n = 0 /\ value.t = "multi_scalar" -> g
          [] OTHER -> gen(g, value)
  IN f[Len(names)]

definition_gen(g, ast) ==
  IF ast.c[1].t = "identifier" THEN single_def(g, ast) ELSE multi_def(g, ast)

(* All values are computed, the last one first, before any is assigned.     *)
Values(g, es) ==
  LET f[n \in 0..Len(es)] ==
        IF n = 0 THEN g ELSE gen(f[n - 1], es[Len(es) - n + 1])
  IN f[Len(es)]

multi_assignment_gen(g, ast) ==
  LET places == ast.c[1].c
      value == ast.c[2]
      Value(h, n) == IF value.t = "multi_scalar" THEN h ELSE Emit(h, "callvi", n - 1)
      f[n \in 0..Len(places)] ==
        CASE n > 0 -> pop_gen(Emit(mem_call(Value(f[n - 1], n), places[n]), "meq", 0))
          [] n = 0 /\ value.t = "multi_scalar" -> Values(g, value.c)
          [] OTHER -> gen(g, value)
  IN f[Len(places)]

(* jmpfalse looks at the condition and leaves it on the stack: either way   *)
(* it is popped, at the start of the block and at that of what comes next.  *)
conditional_gen(g, ast) ==
  LET Branch(s, b) ==   \* s: the state, and the jumps to the end so far
        IF b.t \in {"if", "elsif"}
        THEN LET cond == Emit(gen(s.g, b.c[1]), "jmpfalse", 0)
                 block == gen(pop_gen(cond), b.c[2])
                 exit == Emit(block, "jmp", 0)
             IN [g |-> pop_gen(Patch(exit, Here(cond) - 1, Here(exit))),
                 ends |-> Append(s.ends, Here(block))]
        ELSE [s EXCEPT !.g = gen(@, b.c[1])]
      f[n \in 0..Len(ast.c)] ==
        IF n = 0 THEN [g |-> g, ends |-> <<>>] ELSE Branch(f[n - 1], ast.c[n])
      all == f[Len(ast.c)]
  IN PatchAll(all.g, all.ends, Here(all.g))

(* Mutant: the two places are exchanged. *)
LoadBreakContinue(g, continue_place, break_place) ==
  [PatchAll(PatchAll(g, g.continue_ptr, break_place), g.break_ptr, continue_place)
   EXCEPT !.continue_ptr = <<>>, !.break_ptr = <<>>]

(* Mutant: the jumps stay pending. *)
LoadKeepsPending(g, continue_place, break_place) ==
  PatchAll(PatchAll(g, g.continue_ptr, continue_place), g.break_ptr, break_place)

(* Every continue and break that has no target yet gets this loop's.        *)
load_continue_break(g, continue_place, break_place) ==
  [PatchAll(PatchAll(g, g.continue_ptr, continue_place), g.break_ptr, break_place)
   EXCEPT !.continue_ptr = <<>>, !.break_ptr = <<>>]

Loop(g, from, continue_place) ==
  [load_continue_break(g, continue_place, Here(g)) EXCEPT
     !.loops = Append(@, [from |-> from, to |-> Here(g), again |-> continue_place])]

while_gen(g, ast) ==
  LET cond == Emit(gen(g, ast.c[1]), "jmpfalse", 0)
      again == Emit(gen(pop_gen(cond), ast.c[2]), "jmp", Here(g))
      exit == pop_gen(Patch(again, Here(cond) - 1, Here(again)))
  IN Loop(exit, Here(g), Here(exit) - 2)

(* The first and the third part of for: and, or and a bare name are none of *)
(* the cases of the switch, so that no code is generated for them.          *)
Part(g, ast) ==
  CASE ast.t = "definition" -> definition_gen(g, ast)
    [] ast.t = "multi_assign" -> multi_assignment_gen(g, ast)
    [] ast.t \in {"null", "nil", "number", "string", "function",
                  "identifier", "or", "and"} -> g
    [] OTHER -> pop_gen(gen(g, ast))

for_gen(g, ast) ==
  LET first == Part(g, ast.c[1])
      cond == Emit(IF ast.c[2].t = "null" THEN Emit(first, "pushone", 0)
                   ELSE gen(first, ast.c[2]), "jmpfalse", 0)
      block == gen(pop_gen(cond), ast.c[4])
      again == Emit(Part(block, ast.c[3]), "jmp", Here(first))
      exit == pop_gen(Patch(again, Here(cond) - 1, Here(again)))
  IN Loop(exit, Here(first), Here(block))

(* Mutant: continue does not count. *)
ContinueUncounted(g, op, ast) ==
  LET head == Emit(gen(g, ast.c[2]), "counter", 0)
      step == Emit(head, op, 0)
      bound == IF ast.c[1].t = "new_iter" THEN Emit(step, "load", ast.c[1].c[1].v)
               ELSE Emit(mem_call(step, ast.c[1]), "meq", 0)
      again == Emit(gen(bound, ast.c[3]), "jmp", Here(head))
      exit == Patch(again, Here(head), Here(again))
  IN Loop(exit, Here(head), Here(head) + 1)

(* forindex and foreach differ in the opcode only.  An iterator that is no  *)
(* new variable is assigned by meq, whose value stays on the stack.         *)
iterator_gen(g, op, ast) ==
  LET head == Emit(gen(g, ast.c[2]), "counter", 0)
      step == Emit(head, op, 0)
      bound == IF ast.c[1].t = "new_iter" THEN Emit(step, "load", ast.c[1].c[1].v)
               ELSE Emit(mem_call(step, ast.c[1]), "meq", 0)
      again == Emit(gen(bound, ast.c[3]), "jmp", Here(head))
      exit == Patch(again, Here(head), Here(again))
  IN Loop(exit, Here(head), Here(exit) - 1)

forindex_gen(g, ast) == iterator_gen(g, "forindex", ast)
foreach_gen(g, ast) == iterator_gen(g, "foreach", ast)

loop_gen(g, ast) ==
  CASE ast.t = "while" -> while_gen(g, ast)
    [] ast.t = "for" -> for_gen(g, ast)
    [] ast.t = "forindex" -> forindex_gen(g, ast)
    [] ast.t = "foreach" -> foreach_gen(g, ast)

or_gen(g, ast) ==
  LET a == Emit(gen(g, ast.c[1]), "jmptrue", 0)
      b == Emit(gen(pop_gen(a), ast.c[2]), "jmptrue", 0)
      exit == nil_gen(pop_gen(b))
  IN PatchAll(exit, <<Here(a) - 1, Here(b) - 1>>, Here(exit))

and_gen(g, ast) ==
  LET a == gen(g, ast.c[1])
      false == Emit(Emit(a, "jmptrue", Here(a) + 2), "jmp", 0)
      b == gen(pop_gen(false), ast.c[2])
      exit == Emit(b, "jmptrue", Here(b) + 3)
  IN nil_gen(pop_gen(Patch(exit, Here(false) - 1, Here(exit))))

trino_gen(g, ast) ==
  LET cond == Emit(gen(g, ast.c[1]), "jmpfalse", 0)
      a == Emit(gen(pop_gen(cond), ast.c[2]), "jmp", 0)
      b == gen(pop_gen(Patch(a, Here(cond) - 1, Here(a))), ast.c[3])
  IN Patch(b, Here(a) - 1, Here(b))

Binary == [add |-> "add", sub |-> "sub", mult |-> "mul", div |-> "div", link |-> "lnk",
           cmp_equal |-> "eq", cmp_not_equal |-> "neq", less_equal |-> "leq",
           less_than |-> "less", greater_equal |-> "geq", greater_than |-> "grt"]
Unary == [unary_sub |-> "usub", unary_not |-> "unot"]
Assignment == [equal |-> "meq", add_equal |-> "addeq", sub_equal |-> "subeq",
               mult_equal |-> "muleq", div_equal |-> "diveq", link_equal |-> "lnkeq"]

(* The value assigned is computed before the place it is assigned to.       *)
assignment_gen(g, ast) ==
  Emit(mem_call(gen(g, ast.c[2]), ast.c[1]), Assignment[ast.t], 0)

calculation_gen(g, ast) ==
  CASE ast.t = "nil" -> nil_gen(g)
    [] ast.t = "number" -> number_gen(g, ast)
    [] ast.t = "string" -> string_gen(g, ast)
    [] ast.t = "identifier" -> call_id(g, ast)
    [] ast.t = "vector" -> vector_gen(g, ast)
    [] ast.t = "hash" -> hash_gen(g, ast)
    [] ast.t = "function" -> function_gen(g, ast)
    [] ast.t = "call" -> call_gen(g, ast)
    [] ast.t = "or" -> or_gen(g, ast)
    [] ast.t = "and" -> and_gen(g, ast)
    [] ast.t = "trinocular" -> trino_gen(g, ast)
    [] ast.t \in DOMAIN Assignment -> assignment_gen(g, ast)
    [] ast.t \in DOMAIN Binary ->
         Emit(gen(gen(g, ast.c[1]), ast.c[2]), Binary[ast.t], 0)
    [] ast.t \in DOMAIN Unary -> Emit(gen(g, ast.c[1]), Unary[ast.t], 0)

return_gen(g, ast) ==
  Emit(IF ast.c = <<>> THEN nil_gen(g) ELSE gen(g, ast.c[1]), "return", 0)

Jump(g, what) ==
  [Emit(g, "jmp", 0) EXCEPT !.jumps = Append(@, [at |-> Here(g), what |-> what])]

(* A statement: one that only names a constant or a function makes no code, *)
(* and the value of any other expression is popped.                         *)
statement_gen(g, ast) ==
  CASE ast.t \in {"null", "nil", "number", "string", "function"} -> g
    [] ast.t = "definition" -> definition_gen(g, ast)
    [] ast.t = "multi_assign" -> multi_assignment_gen(g, ast)
    [] ast.t = "conditional" -> conditional_gen(g, ast)
    [] ast.t \in {"while", "for", "forindex", "foreach"} -> loop_gen(g, ast)
    [] ast.t = "continue" ->
         [Jump(g, "continue") EXCEPT !.continue_ptr = Append(@, Here(g))]
    [] ast.t = "break" -> [Jump(g, "break") EXCEPT !.break_ptr = Append(@, Here(g))]
    [] ast.t = "return" -> return_gen(g, ast)
    [] OTHER -> pop_gen(gen(g, ast))

block_gen(g, ast) ==
  LET f[n \in 0..Len(ast.c)] == IF n = 0 THEN g ELSE statement_gen(f[n - 1], ast.c[n])
  IN f[Len(ast.c)]

gen(g, ast) == IF ast.t = "block" THEN block_gen(g, ast) ELSE calculation_gen(g, ast)

(* The program: its statements, then nop.  layout says where the statements *)
(* begin and nop stands, where the loops are, and what jumps out of them.   *)
(* The parser lets no break, continue or return through outside of a loop   *)
(* or function; the source has no case for them here.                       *)
main_progress(ast) ==
  LET After(n) == gen(Generator, Node("block", "", SubSeq(ast.c, 1, n)))
      end == Emit(After(Len(ast.c)), "nop", 0)
  IN [code |-> end.code,
      layout |-> [starts |-> {Here(After(n)) : n \in 0..Len(ast.c)},
                  loops |-> end.loops, jumps |-> end.jumps]]
=============================================================================

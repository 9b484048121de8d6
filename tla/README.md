# Verification of the Nasal interpreter

The repository is an interpreter for the scripting language Nasal: a lexer, a
parser, an import linker, a code generator with a bytecode machine (`exec`), an
older interpreter of syntax trees (`run`), and a reference-counting heap that
both interpreters share. Everything runs in one thread of one process. What is
hard is not concurrency but *bookkeeping*: reference counts kept by hand in
every handler, destructors that re-enter the heap that called them, jump targets
computed by adding one or two to an address, five stacks that every opcode
must leave in the shape the next opcode takes for granted, and twenty mutually
recursive methods of a parser that hand one position to each other.

## Inventory

| Component | State | Operations | Used by | Status |
|---|---|---|---|---|
| Heap: `nasal_virtual_machine` and the value classes (`nasal_gc.h`) | units with `collected` and `ref_cnt`, memory cells, two free queues; fields of vectors, hashes, functions, closures | `gc_alloc`, `add_reference`, `del_reference`, `mem_alloc`, `mem_free`, `mem_change`, `clear`, `add_elem`, `del_elem`, `add_scope`, `del_scope`, `add_new_value`, `add_para`, `set_closure_addr` and all destructors | both interpreters, builtins | modelled |
| Import linker (`nasal_import.h`) | `filename_table`, `error`, `import_ast`, the recursion of `load` | `link`, `load`, `file_import`, `linker` | `main.cpp` | modelled |
| Code generator (`nasal_codegen.h`) | `exec_code`, pending jumps `continue_ptr`, `break_ptr`; tables of constants | one `..._gen` per kind of node | `main.cpp` | modelled |
| Bytecode machine (`nasal_bytecode_vm.h`) | `ptr`, `error`, `value_stack`, `local_scope_stack`, `slice_stack`, `call_stack`, `counter_stack`, `global_scope_addr` | one handler per opcode, `run`, `clear` | `main.cpp` | modelled |
| Tree interpreter (`nasal_runtime.h`) | a heap, the main closure, `error`, `function_returned_address` | one method per kind of node, `run` | `main.cpp` | modelled |
| Parser (`nasal_parse.h`) | token list, `ptr`, `in_loop`, `in_function`, `error`, `root` | recursive descent, folding of literals | `main.cpp`, import linker | modelled |
| Lexer (`nasal_lexer.h`) | `res`, `res_size`, `token_list`, `error` | `openfile`, `scanner`, `clear` | `main.cpp`, import linker | modelled |
| Conversions (`nasal_misc.h`) | none | number to string and back | machines, builtins, lexer, parser | modelled |
| Builtin functions (`nasal_builtin.h`, `lib.nas`) | `builtin_die_state` | the functions of `builtin_func_table` | both interpreters | partly |
| Session (`main.cpp`) | the objects above, kept from one command to the next; the name of the file | `lex`, `ast`, `code`, `exec`, `run`, `del`, a file name | the user | partly: in two parts, before and after the linker |
| Syntax tree (`nasal_ast.h`) | a tree | constructors | all | data only |

How they interact: `main.cpp` calls lexer, parser, linker and generator in this
order and stops at the first that reports an error. The linker calls the lexer
and the parser again for each imported file. The generator's code goes to the
bytecode machine, or the tree to the tree interpreter; each drives a heap of its
own. A builtin function gets the address of the calling function's closure and
the heap; `builtin_die_state` is one global for both machines. The heap calls
itself: deleting the last reference runs a destructor, which frees cells, which
deletes references.

What makes each part correct, and what is hard about it:

- **Heap.** A unit is in use exactly as long as something refers to it, each
  cell and each unit is in one place (used, free, or in the hands of one running
  destructor), and no release destroys what the running operation works on.
  Hard: the recursion between `del_reference` and the destructors, cyclic
  values, and operations that allocate, free and store in an order of their own.
- **Linker.** Each file is loaded once, imports stand in front of the statements
  that need them, errors of inner files survive, and import cycles end.
- **Lexer and parser.** A tree that is handed on has the children the later stages
  read by position; no text is accepted after a token that is not there was read;
  operators bind and statements end where they should; nothing of a text that
  failed reaches the next. Hard: after an error the methods go on and return trees
  with holes, and the objects are shared by all commands.
- **Generator and bytecode machine.** Every statement leaves all stacks as it found them,
  on every branch and loop exit; every jump belongs to its own loop and function;
  every handler finds the operands it takes for granted; every handler accounts
  for the references it pushes, pops, stores and overwrites. Hard: these are
  contracts between two files that no type states, and an error in one handler
  shows, if at all, many opcodes later.
- **Tree interpreter.** Every method releases its temporaries on every return,
  closes the scopes it opened, and does not go on with an address that a call in
  between gave back. And the two machines agree: each is the only
  specification the repository has of the other.

`PROJECT.json` lists the hazards one by one, each at its line.

## The modules

| Module | What it is |
|---|---|
| `NasalHeap` | the heap, one action per iteration of a destructor's loop |
| `NasalHeapInv` | its inductive invariant, in named parts |
| `NasalHeapProofs`, `NasalHeapCoverProofs` | the proofs about it |
| `NasalImport` | the import linker |
| `NasalLinked` | what the linker promises: one depth-first search, in one step |
| `NasalImportProofs` | the proofs about the linker: types, the shape of the tree, the depth |
| `NasalImportSearchProofs` | which files a link loads, in which order, and that it gets nearer its end with each step |
| `NasalImportLinkedProofs` | that `NasalImport` implements `NasalLinked` |
| `NasalInduction` | least numbers and induction over a set of naturals, for those proofs |
| `NasalScalar` | numbers, strings, their conversions, arithmetic and comparison |
| `NasalStore` | the heap's methods as operators on one record, each done in one step, values with contents |
| `NasalBuiltin` | the builtin functions on a store (EXTENDS `NasalStore`, `NasalScalar`) |
| `NasalStoreInv` | what the store keeps, given an account of what its user holds |
| `NasalStoreProofs` | that each operation of the store and each builtin function keeps it |
| `NasalVM` | the bytecode machine, one action per opcode (EXTENDS `NasalBuiltin`) |
| `NasalMachine` | the bytecode machine with any code at all, and its inductive invariant (EXTENDS `NasalVM`, `NasalStoreInv`) |
| `NasalVMProofs` | the proofs about it |
| `NasalCodegen` | the code generator: an operator from syntax trees to code |
| `NasalExec` | the command `exec`: trees are compiled and run (EXTENDS `NasalCodegen`, `NasalVM`) |
| `NasalRuntime` | the command `run`: the tree interpreter (EXTENDS `NasalBuiltin`) |
| `NasalSession` | both on the same trees, in one session (EXTENDS `NasalExec`, INSTANCE `NasalRuntime`) |
| `NasalLexer` | the lexer |
| `NasalParse` | the parser |
| `NasalFront` | the commands up to the parser, on files one after the other (EXTENDS `NasalParse`, INSTANCE `NasalLexer`) |
| `NasalValue` | what a closed expression is worth to the tree interpreter; used to judge the parser's folding |
| `NasalPrograms` | families of programs as trees |
| `MCNasalHeap`, `MCNasalExec`, `MCNasalSession`, `MCNasalFront` | instances for TLC; `MCNasalFront` also writes the programs out as text |

### NasalHeap

Variables are those of the code: `gcSize`, `gcFree`, `collected` and `ref_cnt`
for the units, `memSize`, `memFree` and `memory` for the cells, `type`, `size`,
`elems` and `direct` for the values. A field is a pair of a unit and a label;
`elems` gives its cell and `memory` the value in the cell. A function refers to
its closure and its default arguments without a cell (`direct`).

The C++ call stack of nested destructors is the sequence `dying`, the innermost
first, and `freeing` holds the cell each pending `mem_free` will push to the
queue when its `del_reference` returns. Each step is one iteration of one
destructor's loop, so the order in which units and cells come back to the queues
is the order of the code. The order in which a destructor visits the fields is
left open. An operation of several steps (`del_scope`, `set_closure_addr`,
`clear`, a `mem_free` of the caller) is the record `op`.

The caller is any program that keeps the ownership protocol of the opcodes.
`held[v]` counts the references its stacks and locals own; it passes a value to a
container only if it owns it, and operates on a container it holds or reaches
from what it holds. `lost[v]` counts the references the code itself drops without
`del_reference`: `nasal_hash::add_elem` with a key that is already there.

### NasalImport and NasalLinked

The files on disk are any function from names to sequences of imports and plain
statements, some of them unreadable (a missing file, or an error of the lexer or
parser). `calls` is the stack of the recursive calls of `load`; a step is one
iteration of its loop, with the beginning of `file_import` if the node is an
import. `Link` may be taken again after a link has ended, by the same object.

`NasalLinked` has no loop, no stack and no table that outlives a link: linking
yields the statements of all files in depth-first order, each file once (the
main program a second time when a file imports it back), each import as the empty
node that is left of it, and the number of files met that cannot be read. The
search is the recursive function `Visit` over the places it can be at: the rest of
a file and the files met so far. `NasalImport` instantiates it as `Searched`
(`program` is `import_ast`, `errors` is `error`, `busy` is a stack that is not
empty) and states in `ImplementsLinked` that it implements it.

### NasalScalar, NasalStore, NasalBuiltin, NasalVM, NasalCodegen, NasalExec

The store does in one step what `NasalHeap` does in many: nothing runs between
the steps of a heap call, and that the cascades end in the right state is what
`NasalHeap` is about. Here values have contents, because the opcodes branch on
them. Addresses are taken in the order 1, 2, ... of the first one unused; cells
that are given back leave the domain, so that a use after free shows.

A release is described by what is left in the end (`Released`): `del_reference`, the
destructors and `mem_free` call each other until nothing more dies, the units that die
are the least set of those whose references are all given back, and in which order the
calls came makes no difference to it. The search of a hash through its `parents`
(`FoundCell`) goes through as many generations as there are units. So `NasalStore`,
`NasalBuiltin` and `NasalVM` need no `RECURSIVE` operator, and can be proved about.

`NasalCodegen!gen` threads a record (`Generator`: code, pending jumps) through
one operator per `..._gen` of the source. The layout it also records (where each
loop begins, ends and continues, where each statement starts) is used by
properties only. `NasalVM` has one action per opcode. Where a handler takes the
type of an operand for granted, the guard is `Ready`, and `OperandsReady` says
that it is always met, and that a builtin call names a builtin function. Handlers that call `die` end the run, as `run()` does;
`Clear` is what `run()` does at its end. An address of a value and one of a cell
are both an `int` on the same C++ stack; here they carry a tag.

The machines calculate with integers and `NaN`, which also stands for quotients
that are no integers; programs calculate no further with those. The conversions
of `NasalScalar` work digit by digit on texts and on decimals `[m, e]`
(hexadecimal, octal, point, exponent); only the rounding of doubles is left out. Strings are
TLA+ strings, compared by the codes of their characters.

### NasalRuntime and NasalSession

Each method of `nasal_runtime` is an operator from a record (the heap, the main
closure, the error, what the last method returned) to the record after it; an
action is one statement of the main program, as in the loop of `main_progress`.

Three fields of the record only record what the code does, so that properties can be
stated exactly. `broken` is set where a C++ method goes on with an address that was
given back while it computed something else, and says which kind it is: one the method
owned a reference to (`owned`), or one it had found without a reference (`found`), or
the last parameter of a function that has none (`empty`). The model goes no further
there. `lost` are the values whose reference the code drops without giving it back: the key
of `x["k"]`, the arguments evaluated before one that is -1, the value of a key
that a hash has already. `left` are the closures of calls that returned without `del_scope`.

- `RunReferencesExact`: a count is the number of holders plus the number of times the
  value is in `lost`; of all types, after every statement, whatever was called in it.
- `RunAddressesValid`: nothing `owned` is given back, although calls in between assign,
  cut or clear the variable it came from (families `InUse`, `TakenAway`, `Retired`). It
  is false of what is only `found`, which the code does not protect: that is
  `RunPlacesValid`, which `RunReleasing` refutes.
- `RunScopesClosed`: a statement leaves every closure with as many scopes as it had, and one
  more for each call that returned before its body. Such calls are not only those that end
  in an error: when an argument or a default is -1 (an element that is not there),
  `call_function` returns from `nasal_runtime.h:777`, `819`, `828`, `859` or `898` without an
  error, the program goes on, and the scope stays open under those of the later
  calls. The family `Missing` has these calls with every kind of parameter list, in
  recursion and as methods. No document says what such a call should do, so it is the exception
  in the property, and counted.

`NasalSession` gives each program to `exec` and then to `run`. What is kept between
them is compared by `SameGlobals`: the values of all global variables, to depth
`Depth`, functions apart.

The two machines differ, in the code and so in the model, in many places that no
document decides. Each difference has its place in the operators of both machines;
`SameGlobals` compares where both machines end without an error, and the programs
that both are given leave the rest out:

| Program | `exec` | `run` |
|---|---|---|
| a builtin that rejects its arguments | goes on with -1 | stops |
| `or`, `and` that is false | nil | 0 |
| `!` of a container, `~=` on something that is no scalar | stops | goes on with -1 |
| an argument that is not known, too many arguments | ignored | stops |
| missing arguments in a named call of a dynamic function | stops | an empty vector |
| assignment to a member that is not there | stops | adds it |
| `x[a:b]` | without the end, `a < b` required | with the end |
| a default value | evaluated when the function is made | evaluated at the call |
| `builtin_die_state` | never reset | reset by each run |

In `run`, the end of a slice given as a string is written to the
*begin* (`nasal_runtime.h:573`). For an index or a key that is not there, `calculation` returns -1
without an error (`nasal_runtime.h:630`), where a comment (`nasal_runtime.h:1482`) speaks of an
address, and the -1 is stored and passed on.

### NasalLexer, NasalParse, NasalFront

The lexer works on the characters of a text, the parser on its tokens; both are
operators, one per method, on records that stand for the two objects. A parser's
`ptr` goes up and down as in the code. Both
record in a field `over` that something was read that is not there: a character
beyond the text, a token beyond the last one, the first child of a node without
children. Errors are counted in the code and only told apart from none here.
`NasalFront` has one action per command and keeps both objects from one command
to the next, with `res_size` that stays behind when a file cannot be opened.

The folding of literals is modelled rule by rule (it is other code than that of
either machine), and `NasalValue` evaluates the same literals by `NasalRuntime`.

Oddities of the parser that the model has because the code has them: `nil <= nil` and `nil >= nil`
are folded to 1 and are 0 at run time; `0 == "a"` is rejected and `"a" == 0`
accepted; `f() and nil` drops the call; any token after a comma of a multiple
definition is taken for an identifier; `x[] = 1` is accepted; a default parameter
may not be followed by a dynamic one; a `break` in a function inside a loop
passes.

## The runs

| Run | Module | States | What it checks and shows |
|---|---|---|---|
| `HeapClosures` | `MCNasalHeap` | 331 000 | functions and closures: counts exact, live iff held, cells in one place, targets survive, through every cascade, including functions that own their own closure |
| `HeapContainers` | `MCNasalHeap` | 221 000 | vectors and hashes: the same with the inductive invariant of the proofs, units in one place, nothing in use is freed, and `vm.clear` destroys every object once, cyclic ones included |
| `HeapReturns` | `MCNasalHeap` | 556 000 | every heap call returns (liveness), and the inductive invariant, on functions with closures and default arguments: values with fields and direct references at once, in cycles |
| `ImportTrees` | `NasalImport` | 767 000 | three files of up to two statements: loaded once, complete, ordered, errors kept, depth bounded, every link ends (liveness, so without symmetry) because each step leaves less to be done, and the linker implements `NasalLinked` |
| `SessionPrograms` | `MCNasalSession` | 135 000 | about 2500 programs compiled and run opcode by opcode and then by the tree interpreter: code, stacks, references and termination of `exec`; references, addresses and scopes of `run`; and that both give the same values |
| `FrontTexts` | `MCNasalFront` | 8 600 | about 4000 texts, right and damaged, and sessions of several files: shape of accepted trees, nothing read beyond the end, numerals, folding, programs read back from their text, nothing left of an earlier file |
| `ExecEarlyJump` | `MCNasalExec` | violation | a `break` that stands before an inner loop is taken by the inner loop |
| `ExecLeaving` | `MCNasalExec` | violation | `return` inside `foreach` deletes the loop's vector in place of the function |
| `ExecOldIterator` | `MCNasalExec` | violation | `foreach` over an existing variable takes the assigned value for the vector |
| `ExecReleasing` | `MCNasalExec` | violation | a cell on the stack is freed by the call that computes the next index |
| `RunOr` | `MCNasalSession` | violation | a statement that is an `or` is run by `exec` and skipped by `run` |
| `RunReleasing` | `MCNasalSession` | violation | the place that an assignment of `run` has found is freed by the call that computes the value |

Every property of a passing run has a mutant in `PROJECT.json`: a plausible slip
in one mapped definition that makes TLC report the property. The mutants stand
in the modules just before what they mutate.

### Bounds, and why they are enough

- *Heap.* Three units, two cells, one key, two elements or scopes. Two units are enough for
  a cycle and for a cascade of length two; a third is needed for
  `set_closure_addr` (function, source, copy), and two cells for the copy of a
  variable. `GcChunk = 1` (`HeapContainers`) makes every
  allocation grow the memory, `GcChunk = 3` (the others) makes a chunk of
  several. Default arguments are only in `HeapReturns`, which has one scope for them. `MaxHeld = 1` and `FewOwned` (at most two references in the hands of
  the caller) stand for stacks of that depth: a value with two holders, one on
  the stack and one in a container, is the smallest that tells "last reference"
  from "not last". Once the bounds are reached the caller can only go on with
  other operations: allocation is guarded, never wrong. The theorems then do
  without these bounds.
- *Import.* Three files are the least with a chain, a diamond and a cycle that
  does not pass through the main program; two statements per file are the least
  with something before and after an import, or two imports.
- *Programs.* Families of programs, each a full product: 23 operators on pairs of
  9 operands (every type, numeric and other strings, zero); 5 x 5 kinds of nested
  loops with a `continue` or `break` in each; 6 parameter lists x 5 bodies x 7
  argument lists; recursion, functions made by functions, methods, parents; the
  builtins on objects of all types; 13 paths into 7 holders, read, assigned and updated; 64
  pairs of slice bounds. loops over a vector that the body assigns, cuts or appends to. `TreePrograms`
  are for `run` alone: `break` and `return` out of
  every kind of loop inside every kind of loop, slices that are kept, elements that are not
  there as values, arguments and defaults (4 parameter lists x 8 argument lists, each called again
  afterwards), calls that take a variable's value away in 4 ways while an index, an
  operator, an assignment or the call itself uses it in 8, and the places and hashes that are
  used without a reference. `Depth = 3` is deeper than any container
  the programs build. `IntBits = 10` (in `NasalBuiltin`) is the width of the bitwise
  operators: the operands of the programs are smaller.
- *Texts.* All those programs, written out with as few parentheses as the
  grammar allows; five samples that together hold every kind of statement and
  expression, in which each token in turn is lost, doubled, swapped with the one
  before it, or cut off with all behind it; numerals of every form; and, for
  what a session leaves behind, four files and a missing one (`Mixed`) opened
  in any order by any command. Two files in a row are the least that can show a leftover; the
  four end in different nestings and stages.

Of the programs that `exec` gets, the passing families leave out what the violation runs
of `exec` show, and what follows from the same code: `break` out of a loop over a vector, elements of
nil or of a number, a `break` in a function inside a loop. After it the machine works on
operands of the wrong kind, where the C++ reads an object as one of another type. Each of
these has a hazard in `PROJECT.json` that says so. `run` is given all of
them, and the programs of `RunReleasing` too: the model stops at the place where the code
uses what was given back. Only arguments for a function without parameters are in no run
(`NoParameters`: `back()` of an empty vector, `nasal_runtime.h:864`).

### Fairness

The process has one thread and no modelled handler waits for anything (`input`
is left out and `sleep` ends), so what has begun goes on. That is all that is
assumed: weak fairness of `Continue` in `NasalHeap` (the remaining steps of a
heap call; nothing of the caller), of `Load` in `NasalImport` (nothing of `Link`),
and of `Execute \/ Clear` in `NasalExec` and `NasalSession` (nothing of starting a program).
The last is written out, `[]<>Idle \/ []<><<~Idle>>_vars`, because just there
where the machine is not idle that action is enabled, and TLC then need not
evaluate `ENABLED` of every handler. The methods of the tree interpreter, the
lexer and the parser are operators: that TLC can evaluate them at all on
each program and text is their termination.

### What the violation runs show

1. `load_continue_break` (`nasal_codegen.h:689`) resolves *all* pending jumps
   when *any* loop is complete. `test/neo4j.nas:128` breaks out of a loop before
   an inner loop stands; `run` leaves the outer loop there, `exec` does not.
2. `opr_return` (`nasal_bytecode_vm.h:1457`) deletes the second entry of
   `value_stack`, commented "delete function". Inside a `foreach` it is the
   vector. `test/props.nas:280` has such functions.
3. `foreach_gen` and `forindex_gen` (`nasal_codegen.h:797`, `832`) emit `meq` for an
   existing iterator without a `pop` of the value `meq` leaves.
   `test/props.nas:145` has such a loop.
4. (`TargetsAlive`, which holds on the other programs.) `mem_change` and `mem_get` ask their caller to make sure the cell is in use
   ("this process doesn't check", `nasal_gc.h:811`). `mem_call` pushes the cell of
   `x[0]` and then runs the code of the next index, which may release it.
5. `main_progress` and `block_progress` of the tree interpreter
   (`nasal_runtime.h:195`) have no case for a statement that is an `or` or an
   `and`. `test/special.nas:18` has `f1() or f2();` and says it prints 1; `run` calls neither.
6. The same comment on `mem_change`, for `run`: an assignment finds its place first
   (`nasal_runtime.h:1696`) and then computes the value, and `x[0]=g()` with a `g` that
   assigns `x` writes a cell that is in the free queue. The family `Unowned` also has an operator with `=`, an
   index that does it, an assignment of several values, and a method of a hash that no
   variable holds, which is released (`nasal_runtime.h:513`) before it is bound as `me`.

## What is proved

`NasalHeapProofs` and `NasalHeapCoverProofs` prove, for every size of both
memories, both chunk sizes, every vector length and scope depth, every finite set
of names and every number of default arguments:

| Theorem | Statement |
|---|---|
| `InductiveInvariant` | `Spec => []IInv` |
| `TypeCorrect` | `Spec => []TypeOK` |
| `CountsAreExact` | `Spec => []CountExact`: a count is the number of holders, at each step of each cascade |
| `NoDanglingNoLeak` | `Spec => []LiveIffHeld`: in use exactly as long as held |
| `TargetsSurvive` | `Spec => []TargetSurvives`: no operation loses what it works on |
| `NothingFreedInUse` | `Spec => FreedOnlyWhenUnheld`: destructors start only for the last holder, but for `clear` |
| `NoCellTwiceNoneLost` | `Spec => []CellsPartitioned`: each allocated cell is in one place |
| `NoUnitTwiceNoneLost` | `Spec => []UnitsPartitioned`: each allocated unit is in one place |
| `ClearIsComplete` | `Spec => []ClearDestroysAll`: `clear` ends with every value destroyed and every cell free |

and `NasalImportProofs`, `NasalImportSearchProofs` and `NasalImportLinkedProofs`, for
every finite set of files of any length, whichever of them are broken and however
they import each other:

| Theorem | Statement |
|---|---|
| `TypeCorrect` | `Spec => []TypeOK`, with `error` at most the number of broken files |
| `TreeHasNoImport` | `Spec => []NoImportLeft`: no import is left for the generator |
| `RecursionBounded` | `Spec => []DepthBounded`: no file is being loaded twice at once, the main program apart, so the recursion ends |
| `EachFileOnce` | `Spec => []LoadedOnce`: no file's statements stand twice in the tree, but for the main program's |
| `AllLinked` | `Spec => []LinkComplete`: a link without errors has the statements of every file that imports lead to, and of no other |
| `ImportedBefore` | `Spec => []ImportsFirst`: what a file imports stands before the statements that follow the import |
| `LinkTerminates` | `Spec => LinkShrinks`: each step of `load` leaves less to be done, in a measure that cannot go down for ever |
| `LinkerSearches` | `Spec => ImplementsLinked`: the linker refines the depth-first search of `NasalLinked` |

and `NasalVMProofs`, with `NasalStoreProofs`, for the bytecode machine with *any* code:
any set of programs, whatever their opcodes, operands and order, so nothing is
known of the code generator:

| Theorem | Statement |
|---|---|
| `MachineInvariant` | `Machine => []IInv` (`Machine` and `IInv` are those of `NasalMachine`) |
| `NothingDangles` | `Machine => []NoDangling`: no entry of a stack, no cell, no default argument and no closure refers to a value that was given back |
| `FramesMatch` | `Machine => []FramesMatched`: the stacks of calls and of scopes go together, and a closure has a scope for each call under way in it |
| `CountsNeverLow` | `Machine => []CountsSuffice`: a count is never below the number of holders |

Assumed are only the named assumptions of three modules: of `NasalHeap`, that sizes are naturals, chunk
sizes are positive, `Name` is finite and `Elem` is no name, `Kind` is a set of types;
of `NasalImport`, that `File` is finite and the other two kinds of statement and the
missing file are no files; of `NasalScalar`, that `NaN` is no integer.

Two things restrict the steps of `Machine`. An opcode is executed when its operands are `Ready`, as in
`NasalVM`: otherwise the C++ has no defined behaviour. And a `builtincall` must name a
builtin function (`BuiltinFits`), with, for `split`, the parts of the string in a sequence: the
length of a string is beyond the provers. TLC checks both, as parts of
`OperandsReady`, on every step of `SessionPrograms`.

`Execute`, `Clear` and `Run` are the same definitions in `Machine`, `NasalExec` and
`NasalSession`, and the actions of `NasalSession` that are none of these leave the machine
alone; so what is proved of `Machine` holds of all programs that the generator writes, as long
as their operands are `Ready` and their builtins there (the model stops where they are not). That is
not itself a theorem: `NasalExec` and `NasalSession` reach `RECURSIVE` operators (of the generator and of the
tree interpreter).

*The counts.* `CountExact` is not inductive alone. When the destructor of a unit
frees a field, the count of one value falls by one, and so must its holders:
that needs each cell to belong to *one* field (`CellInv`: a cell shared by two
fields would lose two holders, and a cell still in the free queue would be
overwritten by the next `mem_alloc`). When `gc_alloc` sets a count to one the unit
must have no holder: that needs units in the queue to be collected, with nothing
left in them (`UnitInv`), and collected units to have count zero. When
`del_scope` or `set_closure_addr` goes on after a cascade, what it works on must
not have been part of it: `OpInv` says that its caller still pins it, which with
`CountExact` keeps it live (lemmas `PinnedIsLive`, `OpStays`). `del_elem` takes the last element of a
vector and adds a reference before it frees the cell; that the last element is there
at all is `VectorInv`. So

    IInv == TypeOK /\ UnitInv /\ CellInv /\ CountExact /\ OpInv /\ VectorInv

Each part has lemmas for the heap's primitive operations (`UnitDelReference`,
`CellPut`, `CountAlloc`, ...), then one for the steps of destructors and calls
under way (`UnitContinue`, ...), one for the operations (`UnitCall`, ...), and one
for the whole (`UnitStep`, ...). Counting is done by lemmas about the set of
fields that refer to a value (`RefsFresh`, `RefsDrop`, `RefsStore`).

*Nothing is lost.* `CellInv` and `UnitInv` say that a cell or a unit is in *at
most* one place. That it is in at least one is a second invariant, `Cover`, inductive
relative to `IInv`: each allocated cell is in the queue, of a field, or in a pending
`mem_free`; each unit not in use is in the queue or dying, unless
`clear` is under way, which destroys values without giving their units back; and a
value that is destroyed has left its unit (`PlainCover`). At the end of `clear` no
value is left, hence no field, hence every cell is in the queue.

*The linker.* The invariant describes the whole stack of calls. Of each frame:
the statements before `i` hold no import any more, and neither does `new_root`, so
`LoadReturn` passes on a tree without imports. Of all frames but the innermost: they
wait at a statement that is cleared already, because `file_import` clears the node before it
loads the file. Of the stack: the files of all calls but the first are in the
table and different from each other, because a file is entered before `load` is
called for it and is never entered twice; so the depth is at most one more than
the number of files. Of the errors: their number is that of the broken files in the
table. There is one lemma per operation on a frame (`AdvancedGood`,
`LoadedGood`, ...), one per operation on the stack (`StackStep`, `StackPush`,
`StackPop`), and one per action.

*Which files, and in which order.* The table alone says too little: it holds the
files met, not those whose statements have arrived, and it never holds the main
program unless something imports it. `SInv` adds how the calls hang together. Each
call but the first was made for the import that its caller waits at; a file in the
table is either of a call under way or has been passed by a call that has ended,
and then all its imports are in the table too; the trees of the calls, put
together from the first to the innermost, are made of pieces, each the statements of
one file between two imports. `AllLinked` follows because at the end the table is
closed under imports, and what the imports lead to is the smallest such set;
`EachFileOnce` because each piece belongs to a file that was entered once; `ImportedBefore` because a call
appends the tree of the file before it goes on.

*The end of a link.* That each link ends is a liveness property and stays with
TLC. What it rests on is the action property `LinkShrinks`: the number of files not yet
in the table, the depth of the calls, and the statements left in the innermost call
go down in lexicographic order. A call that enters a file raises the depth and
lowers the first; a return lowers the depth; everything else lowers the last.

*The refinement.* `Visit` calls itself on the rest of a file and on the file that is
imported, and TLA+ lets one unfold a recursive function only where some function
satisfies its equation. That is proved first: places are ranked by the files not
yet met and then by the statements left, and the functions that are right up to a rank are
put together (`NasalInduction` derives the induction it needs from the existence of
least numbers, as the library's theorem takes an operator for a parameter). Then `LInv`
says of each call that what `Visit` gives for its whole file is what the call has
already, followed by what `Visit` gives for the rest, and that the calls together have
met what the table holds and counted the errors. A step of `load` unfolds `Visit`
once in the innermost call and leaves the other calls' sums as they are; the last
return leaves nothing to come, so `import_ast` and `error` are what `Visit` yields.
All other steps are stutters.

*The store.* The machine's invariant is about two things that change together in every
handler: what the stacks hold, and what the store counts. `NasalStoreInv` cuts them apart. `Sound(s,
refs, account)` says of a store, for a user that owns `refs[a]` references to each
address `a`: the fields have their types (`Shape`); each cell belongs to one place of one unit (`Owned`); each count
is at least `refs` plus the holders inside the store (`Counted`); whatever is held, by the user or
inside, is in use (`Valid`); and units keep the type the user knows them by, closures
the scopes it has opened in them, functions a closure (`Typed`). `Owned` is needed as in `NasalHeap`: a
cell with two owners would give its reference back twice. `Valid` follows from
`Counted` only while nothing dies; that it survives a release is the point of `Released`:
a unit that stays has a holder that stays. `Typed` is what `FramesMatched` and `Ready`
of `return` lean on: a scope that was opened stays until the call returns.
There is a lemma for each operation of the store, saying what the user has to own before it and what it
owns after, and one for each builtin function (the arguments stay where they are, one reference to the result is
gained). Counting is about sums over cells and places (`InCells`, `InUnits`), which are
split, extended and restricted by lemmas of their own.

*The machine.* `Hands` are the references that the four stacks and the global scope own, `Account` the
scopes of the calls under way. `Now` says that the store is `Sound` for these, and that
`slice_stack` holds vectors, `local_scope_stack` closures, one more than there are calls. The
stacks are arguments, so that a handler is followed from one store operation to the
next with the stacks as they are half way: pushed a reference before, popped one after. One lemma per
handler (`...Keeps`), then `ExecuteKeeps` and `StepKeeps`. Only one direction of the count is inductive for any code:
`ReferencesExact` says also that no count is too high, which a key that is added twice to
a hash breaks (`nasal_gc.h:259` keeps neither the new value nor its reference), and which depends on the program.

Only model-checked, and why:

- liveness (`CallReturns`, `LinkEnds`, `RunEnds`): fairness is out of the prover's
  reach; of `LinkEnds` the part without it, `LinkShrinks`, is proved;
- `OperandsReady`, `TargetsAlive` and the other half of `ReferencesExact`: false for arbitrary code, they
  depend on the generator;
- everything about programs and texts: the lexer, the parser, the generator
  and the tree interpreter are written with `RECURSIVE` operators, in whose presence the provers are not
  available. The recursive functions of the linker's modules show what it takes to do without: an
  existence proof for each.

## What is not modelled, and why

- The import stage between `NasalFront` and `NasalSession`: `NasalImport` models it
  on its own, with the lexer's and the parser's verdict on each file given. The
  composition would multiply files by texts by programs and connects them only
  through the two error flags and the tree.
- Builtins: mathematics, `rand` and `time` compute outside the integers and touch no
  container; `input`, `finput` and `import` are input; `str` gives a
  *number* object a string (`nasal_builtin.h:472`), a value that has no counterpart in the
  model.
- Infinite numbers and the rounding of doubles; lines and columns; the text of messages;
  `print_byte_code` and the other printers; the tables of constants, which map each number
  and string to an index and back.
- Back quotes, and the escapes `\a`, `\b`, `\v`, `\0`: TLA+ has no notation for the characters.
- A second `exec` after `die`: nothing in the repository says what it should do.
- Exhaustion of memory or of the C++ stack, which a hash among its own `parents` runs into.

## What could come next

The main parts of the program are modelled. Of the proofs, the next is the generator, written
without `RECURSIVE`: that each construct leaves the stacks as it found them would give
`OperandsReady` for every program without the loops of the violation runs. Left of the model are the composition of the
front end, the linker and the machines in one session; fractions in the machines, by the decimals that
the conversions already use; and an abstract object graph, implemented by `NasalHeap`,
in which what becomes unreachable and is on no cycle vanishes at once.

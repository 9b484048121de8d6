------------------------------ MODULE NasalLinked ------------------------------
(***************************************************************************)
(* What the import linker promises, with no loop, no stack and no table    *)
(* that outlives the link: linking f yields the statements of all files    *)
(* its imports lead to and then those of f, each file behind those it      *)
(* imports, by depth first search; a file already met is left out.  A link *)
(* takes two steps, since its caller waits for it.                         *)
(***************************************************************************)
EXTENDS Integers, Sequences, FiniteSets

CONSTANTS File, Plain, NoFile, MaxLen

VARIABLES
  body, broken,  \* the files, as in NasalImport
  main,          \* the program being linked, or linked last
  busy,          \* whether a link is under way
  program,       \* the statements, none of them an import
  errors         \* how many files could not be read

linked == <<body, broken, main, busy, program, errors>>

(* The statements of f; one that imports a file is there but empty.        *)
Own(f) ==
  [i \in 1..Len(body[f]) |->
     [file |-> f, at |-> i, what |-> IF body[f][i] = Plain THEN Plain ELSE <<>>]]

(* A place of the search: before statement i of a file, some files met.    *)
Place == [file : File, i : 1..(MaxLen + 1), met : SUBSET File]
At(f, i, met) == [file |-> f, i |-> i, met |-> met]

(* The search from a place to the end of its file: which files it has met  *)
(* then, and what it contributes to the program, in order.                 *)
Visit[p \in Place] ==
  LET g == body[p.file][p.i]
      found == IF g = Plain \/ g \in p.met THEN [met |-> p.met, program |-> <<>>]
               ELSE IF g \in broken THEN [met |-> p.met \cup {g}, program |-> <<>>]
               ELSE Visit[At(g, 1, p.met \cup {g})]
      rest == Visit[At(p.file, p.i + 1, found.met)]
  IN IF p.i > Len(body[p.file]) THEN [met |-> p.met, program |-> Own(p.file)]
     ELSE [met |-> rest.met, program |-> found.program \o rest.program]

Begin(f) ==
  /\ ~busy /\ f \notin broken
  /\ busy' = TRUE
  /\ main' = f
  /\ program' = <<>> /\ errors' = 0
  /\ UNCHANGED <<body, broken>>

Finish ==
  /\ busy /\ busy' = FALSE
  /\ LET all == Visit[At(main, 1, {})]
     IN program' = all.program /\ errors' = Cardinality(all.met \cap broken)
  /\ UNCHANGED <<body, broken, main>>

LinkedInit ==
  /\ body \in [File -> UNION {[1..n -> File \cup {Plain}] : n \in 0..MaxLen}]
  /\ broken \in SUBSET File
  /\ main = NoFile
  /\ busy = FALSE /\ program = <<>> /\ errors = 0

Linking == LinkedInit /\ [][(\E f \in File : Begin(f)) \/ Finish]_linked
=============================================================================

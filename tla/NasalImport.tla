------------------------------ MODULE NasalImport ------------------------------
(***************************************************************************)
(* The import linker (nasal_import.h).  nasal_import::link is given the    *)
(* syntax tree of the main program and replaces every import("file") at    *)
(* its top level by the statements of that file, recursively: the imported *)
(* statements go in front of the statements of the importing file.         *)
(*                                                                         *)
(* load and file_import call each other.  Here that C++ call stack is the  *)
(* variable calls, and one iteration of load's loop is one step.  What a   *)
(* file holds is its sequence of top-level statements: a statement is the  *)
(* file it imports, or Plain.  A file is broken if it cannot be opened, or *)
(* the lexer or the parser reports an error in it.                         *)
(***************************************************************************)
EXTENDS Integers, Sequences, FiniteSets

CONSTANTS
  File,    \* names of files
  Plain,   \* any statement that is no import
  NoFile,  \* no file: nothing has been linked yet
  MaxLen   \* bound: statements of a file

ASSUME FileAssumption ==
  IsFiniteSet(File) /\ {Plain, NoFile, <<>>} \cap File = {} /\ MaxLen \in Nat

Statement == File \cup {Plain}
Bodies == UNION {[1..n -> Statement] : n \in 0..MaxLen}

(* A node of the tree: statement at of file, and what it is.  An import     *)
(* that was processed is set to ast_null and stays in the tree as Null.     *)
Null == <<>>
Node == [file : File, at : 1..MaxLen, what : Statement \cup {Null}]

VARIABLES
  body,            \* the files on disk
  broken,          \* the files that cannot be read
  main,            \* the program being linked, or linked last
  filename_table,  \* nasal_import::filename_table
  error,           \* nasal_import::error
  calls,           \* the calls of load under way, the innermost last
  import_ast       \* nasal_import::import_ast

vars == <<body, broken, main, filename_table, error, calls, import_ast>>
disk == <<body, broken>>

Tree(f) == [i \in 1..Len(body[f]) |-> [file |-> f, at |-> i, what |-> body[f][i]]]
Frame(f) == [file |-> f, root |-> Tree(f), i |-> 1, new_root |-> <<>>]

Init ==
  /\ body \in [File -> Bodies]
  /\ broken \in SUBSET File /\ broken # File
  /\ main = NoFile
  /\ filename_table = <<>> /\ error = 0
  /\ calls = <<>> /\ import_ast = <<>>

(* Mutant: the table of the link before is kept. *)
LinkKeepsTable(f) ==
  /\ calls = <<>>
  /\ f \notin broken
  /\ main' = f
  /\ error' = 0
  /\ import_ast' = <<>>
  /\ calls' = <<Frame(f)>>
  /\ UNCHANGED <<disk, filename_table>>

(* main.cpp links a program the lexer and the parser have accepted.         *)
Link(f) ==
  /\ calls = <<>>
  /\ f \notin broken
  /\ main' = f
  /\ error' = 0 /\ filename_table' = <<>>
  /\ import_ast' = <<>>
  /\ calls' = <<Frame(f)>>
  /\ UNCHANGED disk

Top == calls[Len(calls)]
InLoop == calls # <<>> /\ Top.i <= Len(Top.root)
Current == Top.root[Top.i].what
check_import == InLoop /\ Current \in File

(* Mutant: the search starts at the second entry. *)
CheckExistFromSecond(f) ==
  \E i \in DOMAIN filename_table : i > 1 /\ filename_table[i] = f

(* "avoid importing the same file"                                          *)
check_exist(f) == \E i \in DOMAIN filename_table : filename_table[i] = f

(* Mutant: the import node is left in the tree. *)
NulledNot(frame) == frame

(* file_import clears the import node before anything else.                 *)
Nulled(frame) == [frame EXCEPT !.root[frame.i].what = Null]
Advanced(frame) == [frame EXCEPT !.i = @ + 1]

LoadOther ==
  /\ InLoop /\ Current \notin File
  /\ calls' = [calls EXCEPT ![Len(calls)] = Advanced(@)]
  /\ UNCHANGED <<disk, main, filename_table, error, import_ast>>

ImportAgain ==
  /\ check_import /\ check_exist(Current)
  /\ calls' = [calls EXCEPT ![Len(calls)] = Advanced(Nulled(@))]
  /\ UNCHANGED <<disk, main, filename_table, error, import_ast>>

(* Mutant: a file that could not be loaded is not entered in the table. *)
ImportBrokenNoTable ==
  /\ check_import /\ ~check_exist(Current) /\ Current \in broken
  /\ error' = error + 1
  /\ calls' = [calls EXCEPT ![Len(calls)] = Advanced(Nulled(@))]
  /\ UNCHANGED <<disk, main, filename_table, import_ast>>

ImportBroken ==
  /\ check_import /\ ~check_exist(Current) /\ Current \in broken
  /\ filename_table' = Append(filename_table, Current)
  /\ error' = error + 1
  /\ calls' = [calls EXCEPT ![Len(calls)] = Advanced(Nulled(@))]
  /\ UNCHANGED <<disk, main, import_ast>>

(* Mutant: the file is not entered in the table (a chain is cut somewhere). *)
ImportFileNoTable ==
  /\ check_import /\ ~check_exist(Current) /\ Current \notin broken
  /\ Len(calls) <= Cardinality(File) + 3
  /\ calls' = [calls EXCEPT ![Len(calls)] = Nulled(@)] \o <<Frame(Current)>>
  /\ UNCHANGED <<disk, main, filename_table, error, import_ast>>

ImportFile ==
  /\ check_import /\ ~check_exist(Current) /\ Current \notin broken
  /\ filename_table' = Append(filename_table, Current)
  /\ calls' = [calls EXCEPT ![Len(calls)] = Nulled(@)] \o <<Frame(Current)>>
  /\ UNCHANGED <<disk, main, error, import_ast>>

(* Mutant: the file's own statements go in front of what it imports. *)
LoadedInFront(frame) == frame.root \o frame.new_root

(* linker(new_root,root): the imported statements first, then the file's.   *)
Loaded(frame) == frame.new_root \o frame.root

LoadReturn ==
  /\ calls # <<>> /\ Top.i > Len(Top.root)
  /\ LET n == Len(calls)
         outer == SubSeq(calls, 1, n - 1)
     IN IF n = 1
        THEN import_ast' = Loaded(Top) /\ calls' = <<>>
        ELSE /\ calls' = [outer EXCEPT ![n - 1].new_root = @ \o Loaded(Top),
                                       ![n - 1].i = @ + 1]
             /\ UNCHANGED import_ast
  /\ UNCHANGED <<disk, main, filename_table, error>>

Load == LoadOther \/ ImportAgain \/ ImportBroken \/ ImportFile \/ LoadReturn
Next == (\E f \in File : Link(f)) \/ Load

(* A link under way goes on: nothing else runs in the process.              *)
Spec == Init /\ [][Next]_vars /\ WF_vars(Load)

-----------------------------------------------------------------------------
(* Properties.                                                              *)

Linked == calls = <<>> /\ main # NoFile
From(f) == {i \in DOMAIN import_ast : import_ast[i].file = f}
Imports(f) == {body[f][i] : i \in DOMAIN body[f]} \cap File

(* The files an import chain leads to from f, by readable files only: the   *)
(* smallest set that holds what f imports and what its files import.        *)
Closed(S) == \A g \in S \ broken : Imports(g) \subseteq S
Reached(f) ==
  {g \in File : \A S \in SUBSET File : Imports(f) \subseteq S /\ Closed(S) => g \in S}

(* Every variable has its type; a broken file is reported once.             *)
TypeOK ==
  /\ body \in [File -> Bodies] /\ broken \subseteq File
  /\ main \in File \cup {NoFile}
  /\ filename_table \in Seq(File) /\ error \in 0..Cardinality(broken)
  /\ \A k \in DOMAIN calls :
       /\ calls[k].file \in File /\ calls[k].root \in Seq(Node)
       /\ calls[k].i \in 1..(MaxLen + 1) /\ calls[k].new_root \in Seq(Node)
  /\ import_ast \in Seq(Node)

(* A file is loaded once however many import chains lead to it; only the    *)
(* main program, which is never entered in the table, is loaded a second    *)
(* time when a chain leads back to it.                                      *)
LoadedOnce ==
  \A i, j \in DOMAIN import_ast :
    i # j /\ import_ast[i].file = import_ast[j].file /\ import_ast[i].at = import_ast[j].at =>
      /\ import_ast[i].file = main
      /\ main \in Reached(main)
      /\ \A k \in DOMAIN import_ast \ {i, j} :
           import_ast[k].file = main => import_ast[k].at # import_ast[i].at

(* If no file is broken, exactly the files reached are linked, and an error *)
(* is reported exactly when an import chain leads to a broken file.         *)
LinkComplete ==
  Linked =>
    /\ (error = 0) <=> (Reached(main) \cap broken = {})
    /\ error = 0 => \A f \in File :
         From(f) # {} <=> f \in Reached(main) \cup {main} /\ body[f] # <<>>

(* No import is left in the tree: the code generator knows no such call.    *)
NoImportLeft == \A i \in DOMAIN import_ast : import_ast[i].what \notin File

(* What a file imports stands in front of all its own statements, unless    *)
(* the imported file imports it back.                                       *)
ImportsFirst ==
  Linked => \A f, g \in File :
    g \in Imports(f) /\ g \notin broken /\ f \notin Reached(g) /\ main \notin Reached(main) =>
      \A i \in From(f) : \A j \in From(g) : j < i

(* The recursion is no deeper than there are files, the main program twice. *)
DepthBounded ==
  /\ \A k, l \in DOMAIN calls : 1 < k /\ k < l => calls[k].file # calls[l].file
  /\ Len(calls) <= Cardinality(File) + 1

(* "avoid infinite loading loop": every link ends, on import cycles too.    *)
LinkEnds == (calls # <<>>) ~> (calls = <<>>)

(* How far a link is from its end: the files not entered in the table, then *)
(* the calls under way, then the statements the innermost has not seen.     *)
Left ==
  <<Cardinality({f \in File : ~ check_exist(f)}),
    Len(calls),
    IF calls = <<>> THEN 0 ELSE Len(Top.root) + 1 - Top.i>>
Less(l, m) == \E k \in 1..3 : l[k] < m[k] /\ \A j \in 1..(k - 1) : l[j] = m[j]

(* Why it ends: no step of load loads a file again, calls load or goes back *)
(* to a statement without entering a file that was not in the table.        *)
LinkShrinks == [][Load => Less(Left', Left)]_vars

Searched == INSTANCE NasalLinked WITH
  busy <- calls # <<>>,
  program <- import_ast,
  errors <- IF calls = <<>> THEN error ELSE 0

(* The linker implements the depth first search that lists each file once:  *)
(* on every set of files, import cycles, repeated imports and files that    *)
(* cannot be read included, it ends with just that program and that number  *)
(* of errors, and a link does not depend on those before it.  That it ends  *)
(* is LinkEnds.                                                             *)
ImplementsLinked == Searched!Linking
=============================================================================

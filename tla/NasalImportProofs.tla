-------------------------- MODULE NasalImportProofs --------------------------
(* Proofs about NasalImport, for any finite set of files and any length of *)
(* a file: the types, no import left in the tree, the recursion's depth.   *)
EXTENDS NasalImport, TLAPS, SequenceTheorems, FiniteSetTheorems

FrameType == [file : File, root : Seq(Node), i : Nat, new_root : Seq(Node)]

NoImports(tree) == \A j \in 1..Len(tree) : tree[j].what \notin File

(* The statements before i are cleared of imports, and so is what they     *)
(* brought in.                                                             *)
Good(frame) ==
  /\ frame \in FrameType
  /\ Len(frame.root) <= MaxLen
  /\ frame.i \in 1..(Len(frame.root) + 1)
  /\ \A j \in 1..(frame.i - 1) : frame.root[j].what \notin File
  /\ NoImports(frame.new_root)

(* A call of load that waits for file_import has cleared the import.       *)
Waiting(frame) ==
  frame.i <= Len(frame.root) /\ frame.root[frame.i].what \notin File

(* The stack of calls when the files of table are entered: every call but  *)
(* the first is of an entered file, no two of the same.                    *)
Stack(stack, table) ==
  /\ stack \in Seq(FrameType)
  /\ \A k \in 1..Len(stack) : Good(stack[k])
  /\ \A k \in 1..(Len(stack) - 1) : Waiting(stack[k])
  /\ Len(stack) <= Cardinality(table) + 1
  /\ \A k \in 2..Len(stack) : stack[k].file \in table
  /\ \A k, l \in 2..Len(stack) : k < l => stack[k].file # stack[l].file

Listed == {filename_table[n] : n \in 1..Len(filename_table)}

(* The inductive invariant.                                                *)
IInv ==
  /\ body \in [File -> Bodies] /\ broken \subseteq File
  /\ main \in File \cup {NoFile}
  /\ filename_table \in Seq(File)
  /\ error = Cardinality(Listed \cap broken)
  /\ Stack(calls, Listed)
  /\ import_ast \in Seq(Node) /\ NoImports(import_ast)

LEMMA NotEmpty ==
  ASSUME NEW s, Len(s) # 0
  PROVE  s # <<>>
<1>1. Len(<<>>) = 0
  OBVIOUS
<1> QED
  BY <1>1, Zenon

-----------------------------------------------------------------------------
(* One call of load.                                                       *)

LEMMA NullIsNoFile == Null \notin File
BY FileAssumption DEF Null

(* A call starts with the file's statements, none looked at.               *)
LEMMA FrameGood ==
  ASSUME body \in [File -> Bodies], NEW f \in File
  PROVE  Good(Frame(f)) /\ Frame(f).file = f
<1>1. PICK n \in 0..MaxLen : body[f] \in [1..n -> Statement]
  BY DEF Bodies
<1>2. Len(body[f]) = n
  BY <1>1, FileAssumption
<1>3. Tree(f) \in [1..n -> Node] /\ Tree(f) \in Seq(Node) /\ Len(Tree(f)) = n
  <2>1. \A i \in 1..n : i \in 1..MaxLen
    BY <1>1, FileAssumption
  <2>2. Tree(f) = [i \in 1..n |-> [file |-> f, at |-> i, what |-> body[f][i]]]
    BY <1>2 DEF Tree
  <2>3. Tree(f) \in [1..n -> Node]
    BY <1>1, <2>1, <2>2 DEF Node
  <2> QED
    BY <2>3, FileAssumption
<1>4. <<>> \in Seq(Node) /\ Len(<<>>) = 0
  BY EmptySeq
<1> QED
  BY <1>3, <1>4, FileAssumption DEF Frame, FrameType, Good, NoImports

(* A statement that is no import is passed over.                           *)
LEMMA AdvancedGood ==
  ASSUME NEW frame, Good(frame), Waiting(frame)
  PROVE  Good(Advanced(frame)) /\ Advanced(frame).file = frame.file
<1>1. Advanced(frame) = [file |-> frame.file, root |-> frame.root,
                         i |-> frame.i + 1, new_root |-> frame.new_root]
  BY SMTT(30) DEF Good, FrameType, Advanced
<1> QED
  BY <1>1, LenProperties DEF Good, Waiting, FrameType

(* An import is cleared before anything else is done with it.              *)
LEMMA NulledGood ==
  ASSUME NEW frame, Good(frame), frame.i <= Len(frame.root)
  PROVE  Good(Nulled(frame)) /\ Waiting(Nulled(frame)) /\ Nulled(frame).file = frame.file
<1> DEFINE node == [frame.root[frame.i] EXCEPT !.what = Null]
           root == [frame.root EXCEPT ![frame.i] = node]
<1>1. frame.root \in Seq(Node) /\ frame.i \in 1..Len(frame.root)
  BY DEF Good, FrameType
<1>2. frame.root[frame.i] \in Node
  BY <1>1, ElementOfSeq
<1>3. node \in Node /\ node.what = Null
  BY <1>2 DEF Node
<1>4. /\ root \in Seq(Node) /\ Len(root) = Len(frame.root)
      /\ \A j \in 1..Len(frame.root) : root[j] = IF j = frame.i THEN node ELSE frame.root[j]
  BY <1>1, <1>3, ExceptSeq
<1>5. Nulled(frame) = [file |-> frame.file, root |-> root,
                       i |-> frame.i, new_root |-> frame.new_root]
  <2>1. Nulled(frame) = [frame EXCEPT !.root = root]
    BY Zenon DEF Nulled
  <2> HIDE DEF root
  <2> QED
    BY <2>1 DEF Good, FrameType
<1>6. \A j \in 1..frame.i : root[j].what \notin File
  <2> TAKE j \in 1..frame.i
  <2>1. j \in 1..Len(frame.root)
    BY <1>1, LenProperties
  <2>2. CASE j = frame.i
    BY <2>1, <2>2, <1>3, <1>4, NullIsNoFile
  <2>3. CASE j # frame.i
    <3>1. j \in 1..(frame.i - 1) /\ root[j] = frame.root[j]
      BY <1>1, <1>4, <2>1, <2>3, LenProperties
    <3> QED
      BY <3>1 DEF Good
  <2> QED
    BY <2>2, <2>3
<1> HIDE DEF node, root
<1> QED
  BY <1>1, <1>4, <1>5, <1>6, LenProperties DEF Good, Waiting, FrameType

(* Trees put one behind the other.                                         *)
LEMMA LinkedTrees ==
  ASSUME NEW s \in Seq(Node), NEW t \in Seq(Node), NoImports(s), NoImports(t)
  PROVE  s \o t \in Seq(Node) /\ NoImports(s \o t)
<1>1. Len(s) \in Nat /\ Len(t) \in Nat
  BY LenProperties
<1>2. /\ s \o t \in Seq(Node) /\ Len(s \o t) = Len(s) + Len(t)
      /\ \A j \in 1..(Len(s) + Len(t)) : (s \o t)[j] = IF j <= Len(s) THEN s[j] ELSE t[j - Len(s)]
  BY ConcatProperties
<1>3. \A j \in 1..Len(s \o t) : (s \o t)[j].what \notin File
  <2> TAKE j \in 1..Len(s \o t)
  <2>1. CASE j <= Len(s)
    BY <1>1, <1>2, <2>1 DEF NoImports
  <2>2. CASE j > Len(s)
    BY <1>1, <1>2, <2>2 DEF NoImports
  <2> QED
    BY <1>1, <2>1, <2>2
<1> QED
  BY <1>2, <1>3 DEF NoImports

(* A call that is through returns a tree without imports.                  *)
LEMMA LoadedGood ==
  ASSUME NEW frame, Good(frame), frame.i > Len(frame.root)
  PROVE  Loaded(frame) \in Seq(Node) /\ NoImports(Loaded(frame))
<1>1. frame.root \in Seq(Node) /\ frame.new_root \in Seq(Node)
  BY DEF Good, FrameType
<1>2. NoImports(frame.root) /\ NoImports(frame.new_root)
  BY <1>1, LenProperties DEF Good, NoImports
<1> QED
  BY <1>1, <1>2, LinkedTrees DEF Loaded

LEMMA Fields ==
  ASSUME NEW f, NEW t, NEW n, NEW u, NEW frame,
         frame = [file |-> f, root |-> t, i |-> n, new_root |-> u]
  PROVE  frame.file = f /\ frame.root = t /\ frame.i = n /\ frame.new_root = u
OBVIOUS

LEMMA FieldsChanged ==
  ASSUME NEW frame \in FrameType, NEW u, NEW n,
         NEW changed, changed = [frame EXCEPT !.new_root = u, !.i = n]
  PROVE  changed = [file |-> frame.file, root |-> frame.root, i |-> n, new_root |-> u]
<1>1. DOMAIN frame = {"file", "root", "i", "new_root"}
  BY DEF FrameType
<1>2. frame = [x \in {"file", "root", "i", "new_root"} |-> frame[x]]
  BY <1>1 DEF FrameType
<1> QED
  BY <1>1, <1>2

(* The call that waited takes what it imported and goes on.                *)
LEMMA ResumedGood ==
  ASSUME NEW frame, Good(frame), Waiting(frame),
         NEW tree \in Seq(Node), NoImports(tree), NEW resumed,
         resumed = [file |-> frame.file, root |-> frame.root,
                    i |-> frame.i + 1, new_root |-> frame.new_root \o tree]
  PROVE  Good(resumed) /\ resumed.file = frame.file
<1>1. frame.new_root \in Seq(Node)
  BY DEF Good, FrameType
<1>2. frame.new_root \o tree \in Seq(Node) /\ NoImports(frame.new_root \o tree)
  BY <1>1, LinkedTrees DEF Good
<1>3. \A j \in 1..frame.i : frame.root[j].what \notin File
  <2> TAKE j \in 1..frame.i
  <2>1. j = frame.i \/ j \in 1..(frame.i - 1)
    BY DEF Good, FrameType
  <2> QED
    BY <2>1 DEF Good, Waiting
<1>4. Len(frame.root) \in Nat /\ frame.i \in Nat /\ frame.i + 1 - 1 = frame.i
  BY LenProperties DEF Good, FrameType
<1>5. /\ resumed \in FrameType
      /\ resumed.file = frame.file /\ resumed.root = frame.root
      /\ resumed.i = frame.i + 1 /\ resumed.new_root = frame.new_root \o tree
  BY <1>2, <1>4, Fields DEF Good, FrameType
<1>6. resumed.i \in 1..(Len(resumed.root) + 1) /\ resumed.i - 1 = frame.i
  BY <1>4, <1>5 DEF Waiting
<1> QED
  BY <1>2, <1>3, <1>5, <1>6 DEF Good

-----------------------------------------------------------------------------
(* The calls under way.                                                    *)

(* The innermost call goes a step further.                                 *)
LEMMA StackStep ==
  ASSUME NEW table, NEW stack, Stack(stack, table), stack # <<>>,
         NEW frame, Good(frame), frame.file = stack[Len(stack)].file
  PROVE  Stack([stack EXCEPT ![Len(stack)] = frame], table)
<1> DEFINE n == Len(stack)
           new == [stack EXCEPT ![n] = frame]
<1>1. stack \in Seq(FrameType) /\ n \in Nat /\ n \in 1..n /\ frame \in FrameType
  BY EmptySeq, LenProperties DEF Stack, Good
<1>2. /\ new \in Seq(FrameType) /\ Len(new) = n
      /\ \A j \in 1..n : new[j] = IF j = n THEN frame ELSE stack[j]
  BY <1>1, ExceptSeq
<1>3. \A k \in 1..n : Good(new[k]) /\ new[k].file = stack[k].file
  BY <1>1, <1>2 DEF Stack
<1>4. \A k \in 1..(n - 1) : Waiting(new[k])
  <2> TAKE k \in 1..(n - 1)
  <2>1. k \in 1..n /\ k # n
    BY <1>1
  <2>2. new[k] = stack[k]
    BY <1>2, <2>1
  <2> QED
    BY <2>2 DEF Stack
<1>5. \A k \in 2..n : k \in 1..n
  BY <1>1
<1> HIDE DEF new
<1> QED
  BY <1>1, <1>2, <1>3, <1>4, <1>5 DEF Stack

(* The innermost call waits for a file that was not entered before.        *)
LEMMA StackPush ==
  ASSUME NEW table, IsFiniteSet(table), NEW stack, Stack(stack, table), stack # <<>>,
         Waiting(stack[Len(stack)]),
         NEW frame, Good(frame), frame.file \notin table
  PROVE  Stack(stack \o <<frame>>, table \cup {frame.file})
<1> DEFINE n == Len(stack)
           new == stack \o <<frame>>
<1>1. stack \in Seq(FrameType) /\ n \in Nat /\ n \in 1..n
  BY EmptySeq, LenProperties DEF Stack
<1>2. <<frame>> \in Seq(FrameType) /\ Len(<<frame>>) = 1 /\ <<frame>>[1] = frame
  BY DEF Good
<1>3. /\ new \in Seq(FrameType) /\ Len(new) = n + 1
      /\ \A k \in 1..n : new[k] = stack[k]
      /\ new[n + 1] = frame
  BY <1>1, <1>2, ConcatProperties
<1>4. Cardinality(table) \in Nat /\ Cardinality(table \cup {frame.file}) = Cardinality(table) + 1
  BY FS_CardinalityType, FS_AddElement
<1>5. \A k \in 1..(n + 1) : k \in 1..n \/ k = n + 1
  BY <1>1
<1>6. \A k \in 1..(n + 1) : Good(new[k])
  BY <1>3, <1>5 DEF Stack
<1>7. \A k \in 1..n : Waiting(new[k])
  <2> TAKE k \in 1..n
  <2>1. k = n \/ k \in 1..(n - 1)
    BY <1>1
  <2> QED
    BY <1>3, <2>1 DEF Stack
<1>8. \A k \in 2..(n + 1) : new[k].file \in table \cup {frame.file}
  BY <1>1, <1>3 DEF Stack
<1>9. \A k, l \in 2..(n + 1) : k < l => new[k].file # new[l].file
  <2> SUFFICES ASSUME NEW k \in 2..(n + 1), NEW l \in 2..(n + 1), k < l
               PROVE  new[k].file # new[l].file
    OBVIOUS
  <2>1. k \in 2..n /\ k \in 1..n
    BY <1>1
  <2>2. CASE l = n + 1
    BY <1>3, <2>1, <2>2 DEF Stack
  <2>3. CASE l # n + 1
    BY <1>1, <1>3, <2>1, <2>3 DEF Stack
  <2> QED
    BY <2>2, <2>3
<1> HIDE DEF new
<1> QED
  BY <1>1, <1>3, <1>4, <1>6, <1>7, <1>8, <1>9 DEF Stack

(* The innermost call returns.                                             *)
LEMMA StackPop ==
  ASSUME NEW table, IsFiniteSet(table), NEW stack, Stack(stack, table), Len(stack) > 1,
         NEW outer, outer = SubSeq(stack, 1, Len(stack) - 1)
  PROVE  /\ Stack(outer, table) /\ outer # <<>> /\ Len(outer) = Len(stack) - 1
         /\ Good(outer[Len(outer)]) /\ Waiting(outer[Len(outer)])
<1> DEFINE n == Len(stack)
<1>1. stack \in Seq(FrameType) /\ n \in Nat
  BY LenProperties DEF Stack
<1>2. \A k \in 1..(n - 1) : stack[k] \in FrameType
  BY <1>1, ElementOfSeq
<1>3. /\ outer \in Seq(FrameType) /\ Len(outer) = n - 1
      /\ \A k \in 1..(n - 1) : outer[k] = stack[k]
  BY <1>1, <1>2, SubSeqProperties
<1>4. outer # <<>>
  <2>1. Len(outer) # 0
    BY <1>1, <1>3
  <2> QED
    BY <2>1, NotEmpty
<1>5. Good(outer[n - 1]) /\ Waiting(outer[n - 1])
  BY <1>1, <1>3 DEF Stack
<1>6. (\A k \in 1..(n - 1) : k \in 1..n) /\ (\A k \in 2..(n - 1) : k \in 2..n /\ k \in 1..(n - 1))
  BY <1>1
<1>7. \A k \in 1..(n - 2) : k \in 1..(n - 1)
  BY <1>1
<1>8. (\A k \in 1..(n - 1) : Good(outer[k])) /\ (\A k \in 1..(n - 2) : Waiting(outer[k]))
  BY <1>3, <1>6, <1>7 DEF Stack
<1>9. n - 1 <= Cardinality(table) + 1
  BY <1>1, FS_CardinalityType DEF Stack
<1>10. \A k \in 2..(n - 1) : outer[k].file \in table
  BY <1>3, <1>6 DEF Stack
<1>11. \A k, l \in 2..(n - 1) : k < l => outer[k].file # outer[l].file
  BY <1>3, <1>6 DEF Stack
<1> QED
  BY <1>1, <1>3, <1>4, <1>5, <1>8, <1>9, <1>10, <1>11 DEF Stack

-----------------------------------------------------------------------------
(* The table and the errors.                                               *)

LEMMA ListedFinite ==
  ASSUME filename_table \in Seq(File)
  PROVE  Listed \subseteq File /\ IsFiniteSet(Listed) /\ Cardinality(Listed) <= Cardinality(File)
<1>1. Listed \subseteq File
  BY ElementOfSeq DEF Listed
<1> QED
  BY <1>1, FS_Subset, FileAssumption

LEMMA ListedAppend ==
  ASSUME filename_table \in Seq(File), NEW f \in File,
         filename_table' = Append(filename_table, f)
  PROVE  filename_table' \in Seq(File) /\ Listed' = Listed \cup {f}
<1> DEFINE n == Len(filename_table)
<1>1. n \in Nat
  BY LenProperties
<1>2. /\ filename_table' \in Seq(File) /\ Len(filename_table') = n + 1
      /\ \A k \in 1..n : filename_table'[k] = filename_table[k]
      /\ filename_table'[n + 1] = f
  BY <1>1
<1>3. \A k \in 1..(n + 1) : k \in 1..n \/ k = n + 1
  BY <1>1
<1>4. \A k \in 1..n : k \in 1..(n + 1)
  BY <1>1
<1>5. n + 1 \in 1..(n + 1)
  BY <1>1
<1>6. Listed' = {filename_table'[k] : k \in 1..(n + 1)}
  BY <1>2 DEF Listed
<1>7. Listed' \subseteq Listed \cup {f}
  BY <1>2, <1>3, <1>6 DEF Listed
<1>8. Listed \subseteq Listed' /\ f \in Listed'
  BY <1>2, <1>4, <1>5, <1>6 DEF Listed
<1> QED
  BY <1>2, <1>7, <1>8

LEMMA ListedEmpty ==
  ASSUME filename_table = <<>>
  PROVE  Listed = {} /\ Cardinality(Listed) = 0 /\ Cardinality(Listed \cap broken) = 0
<1>1. Listed = {}
  BY DEF Listed
<1> QED
  BY <1>1, FS_EmptySet

(* check_exist looks the file up in the table.                             *)
LEMMA ExistIsListed ==
  ASSUME filename_table \in Seq(File), NEW f
  PROVE  check_exist(f) <=> f \in Listed
BY LenProperties DEF check_exist, Listed

(* The innermost call inside load's loop.                                  *)
LEMMA TopGood ==
  ASSUME IInv, calls # <<>>
  PROVE  Good(Top) /\ Top = calls[Len(calls)] /\ Len(calls) \in Nat \ {0}
BY EmptySeq DEF IInv, Stack, Top

LEMMA NoCalls ==
  ASSUME NEW table, IsFiniteSet(table)
  PROVE  Stack(<<>>, table)
BY FS_CardinalityType, EmptySeq DEF Stack

LEMMA OneCall ==
  ASSUME NEW table, IsFiniteSet(table), NEW frame, Good(frame)
  PROVE  Stack(<<frame>>, table)
<1>1. <<frame>> \in Seq(FrameType) /\ Len(<<frame>>) = 1 /\ <<frame>>[1] = frame
  BY DEF Good
<1> QED
  BY <1>1, FS_CardinalityType DEF Stack

-----------------------------------------------------------------------------
(* The invariant holds at first, and every step keeps it.                  *)

LEMMA InitIInv == Init => IInv
<1> SUFFICES ASSUME Init PROVE IInv
  OBVIOUS
<1>1. filename_table = <<>> /\ error = 0 /\ calls = <<>> /\ import_ast = <<>>
  BY DEF Init
<1>2. Stack(calls, Listed)
  BY <1>1, ListedEmpty, FS_EmptySet, NoCalls
<1>3. import_ast \in Seq(Node) /\ NoImports(import_ast) /\ filename_table \in Seq(File)
  BY <1>1, EmptySeq DEF NoImports
<1> QED
  BY <1>1, <1>2, <1>3, ListedEmpty DEF Init, IInv

LEMMA LinkIInv ==
  ASSUME IInv, NEW f \in File, Link(f)
  PROVE  IInv'
<1>1. /\ filename_table' = <<>> /\ error' = 0 /\ import_ast' = <<>> /\ calls' = <<Frame(f)>>
      /\ main' = f /\ body' = body /\ broken' = broken
  BY DEF Link, disk
<1>2. Good(Frame(f))
  BY FrameGood DEF IInv
<1>3. Listed' = {} /\ Cardinality((Listed \cap broken)') = 0
  <2>1. Listed' = {}
    BY <1>1 DEF Listed
  <2> QED
    BY <2>1, FS_EmptySet
<1>4. Stack(calls, Listed)'
  BY <1>1, <1>2, <1>3, OneCall, FS_EmptySet
<1>5. import_ast' \in Seq(Node) /\ NoImports(import_ast') /\ filename_table' \in Seq(File)
  BY <1>1, EmptySeq DEF NoImports
<1> QED
  BY <1>1, <1>3, <1>4, <1>5 DEF IInv

(* A step of the innermost call that leaves the table alone.               *)
LEMMA TopStep ==
  ASSUME IInv, calls # <<>>, NEW frame, Good(frame), frame.file = Top.file,
         calls' = [calls EXCEPT ![Len(calls)] = frame],
         UNCHANGED <<disk, main, filename_table, error, import_ast>>
  PROVE  IInv'
<1>1. Stack(calls, Listed)' 
  <2>1. Stack([calls EXCEPT ![Len(calls)] = frame], Listed)
    BY StackStep DEF IInv, Top
  <2> QED
    BY <2>1 DEF Listed
<1> QED
  BY <1>1 DEF IInv, Listed, disk

LEMMA LoadOtherIInv ==
  ASSUME IInv, LoadOther
  PROVE  IInv'
<1>1. Good(Top) /\ Waiting(Top)
  BY TopGood DEF LoadOther, InLoop, Current, Waiting
<1>2. Good(Advanced(Top)) /\ Advanced(Top).file = Top.file
  BY <1>1, AdvancedGood
<1>3. calls' = [calls EXCEPT ![Len(calls)] = Advanced(Top)]
  BY DEF LoadOther, Top
<1> QED
  BY <1>2, <1>3, TopStep DEF LoadOther, InLoop

(* The import is cleared and passed over.                                  *)
LEMMA Passed ==
  ASSUME IInv, InLoop
  PROVE  Good(Advanced(Nulled(Top))) /\ Advanced(Nulled(Top)).file = Top.file
<1>1. Good(Top)
  BY TopGood DEF InLoop
<1>2. Good(Nulled(Top)) /\ Waiting(Nulled(Top)) /\ Nulled(Top).file = Top.file
  BY <1>1, NulledGood DEF InLoop
<1> QED
  BY <1>2, AdvancedGood

LEMMA ImportAgainIInv ==
  ASSUME IInv, ImportAgain
  PROVE  IInv'
<1>1. calls' = [calls EXCEPT ![Len(calls)] = Advanced(Nulled(Top))]
  BY DEF ImportAgain, Top
<1> QED
  BY <1>1, Passed, TopStep DEF ImportAgain, check_import, InLoop

LEMMA ImportBrokenIInv ==
  ASSUME IInv, ImportBroken
  PROVE  IInv'
<1> DEFINE f == Current
<1>1. /\ f \in File /\ f \in broken /\ f \notin Listed
      /\ filename_table' = Append(filename_table, f) /\ error' = error + 1
      /\ calls' = [calls EXCEPT ![Len(calls)] = Advanced(Nulled(Top))]
      /\ calls # <<>>
      /\ body' = body /\ broken' = broken /\ main' = main /\ import_ast' = import_ast
  BY ExistIsListed DEF ImportBroken, check_import, InLoop, Top, IInv, disk
<1>2. filename_table' \in Seq(File) /\ Listed' = Listed \cup {f}
  BY <1>1, ListedAppend DEF IInv
<1>3. IsFiniteSet(Listed) /\ Cardinality(Listed) \in Nat
  BY ListedFinite, FS_CardinalityType DEF IInv
<1>4. Cardinality(Listed') = Cardinality(Listed) + 1
  BY <1>1, <1>2, <1>3, FS_AddElement
<1>5. error' = Cardinality((Listed \cap broken)')
  <2>1. (Listed \cap broken)' = (Listed \cap broken) \cup {f}
    BY <1>1, <1>2
  <2>2. IsFiniteSet(Listed \cap broken)
    BY <1>3, FS_Subset
  <2> QED
    BY <1>1, <2>1, <2>2, FS_AddElement DEF IInv
<1>6. Stack(calls, Listed)'
  <2>1. Stack(calls', Listed)
    <3>1. Good(Advanced(Nulled(Top))) /\ Advanced(Nulled(Top)).file = Top.file
      BY Passed DEF ImportBroken, check_import
    <3> QED
      BY <1>1, <3>1, StackStep DEF IInv, Top
  <2>2. Len(calls') \in Nat
    BY <2>1, LenProperties DEF Stack
  <2> QED
    BY <1>2, <1>3, <1>4, <2>1, <2>2 DEF Stack
<1> HIDE DEF f
<1> QED
  BY <1>1, <1>2, <1>5, <1>6 DEF IInv

LEMMA ImportFileIInv ==
  ASSUME IInv, ImportFile
  PROVE  IInv'
<1> DEFINE f == Current
           paused == [calls EXCEPT ![Len(calls)] = Nulled(Top)]
<1>1. /\ f \in File /\ f \notin broken /\ f \notin Listed
      /\ filename_table' = Append(filename_table, f)
      /\ calls' = paused \o <<Frame(f)>>
      /\ calls # <<>> /\ Top.i <= Len(Top.root)
      /\ body' = body /\ broken' = broken /\ main' = main /\ error' = error
      /\ import_ast' = import_ast
  BY ExistIsListed DEF ImportFile, check_import, InLoop, Top, IInv, disk
<1>2. filename_table' \in Seq(File) /\ Listed' = Listed \cup {f}
  BY <1>1, ListedAppend DEF IInv
<1>3. IsFiniteSet(Listed)
  BY ListedFinite DEF IInv
<1>4. Good(Nulled(Top)) /\ Waiting(Nulled(Top)) /\ Nulled(Top).file = Top.file
  BY <1>1, TopGood, NulledGood
<1>5. Stack(paused, Listed)
  BY <1>1, <1>4, StackStep DEF IInv, Top
<1>6. paused # <<>> /\ paused[Len(paused)] = Nulled(Top)
  <2>1. calls \in Seq(FrameType) /\ Len(calls) \in 1..Len(calls) /\ Nulled(Top) \in FrameType
    BY <1>1, <1>4, EmptySeq DEF IInv, Stack, Good
  <2>2. Len(paused) = Len(calls) /\ paused[Len(calls)] = Nulled(Top)
    BY <2>1, ExceptSeq
  <2>3. Len(paused) # 0
    BY <2>1, <2>2
  <2> HIDE DEF paused
  <2> QED
    BY <2>2, <2>3, NotEmpty
<1>7. Good(Frame(f)) /\ Frame(f).file = f
  BY <1>1, FrameGood DEF IInv
<1> HIDE DEF paused, f
<1>8. Stack(calls, Listed)'
  BY <1>1, <1>2, <1>3, <1>4, <1>5, <1>6, <1>7, StackPush
<1>9. (Listed \cap broken)' = Listed \cap broken
  BY <1>1, <1>2
<1> QED
  BY <1>1, <1>2, <1>8, <1>9 DEF IInv

LEMMA LoadReturnIInv ==
  ASSUME IInv, LoadReturn
  PROVE  IInv'
<1> DEFINE n == Len(calls)
           outer == SubSeq(calls, 1, n - 1)
<1>1. /\ calls # <<>> /\ Top.i > Len(Top.root)
      /\ body' = body /\ broken' = broken /\ main' = main /\ error' = error
      /\ filename_table' = filename_table
  BY DEF LoadReturn, disk
<1>2. Good(Top) /\ n \in Nat \ {0}
  BY <1>1, TopGood
<1>3. Loaded(Top) \in Seq(Node) /\ NoImports(Loaded(Top))
  BY <1>1, <1>2, LoadedGood
<1>4. Listed' = Listed /\ IsFiniteSet(Listed)
  BY <1>1, ListedFinite DEF Listed, IInv
<1>5. CASE n = 1
  <2>1. import_ast' = Loaded(Top) /\ calls' = <<>>
    BY <1>5 DEF LoadReturn
  <2>2. Stack(calls, Listed)'
    BY <1>4, <2>1, NoCalls
  <2> QED
    BY <1>1, <1>3, <1>4, <2>1, <2>2 DEF IInv
<1>6. CASE n # 1
  <2> DEFINE resumed == [outer[n - 1] EXCEPT !.new_root = @ \o Loaded(Top), !.i = @ + 1]
  <2>1. /\ calls' = [outer EXCEPT ![n - 1].new_root = @ \o Loaded(Top), ![n - 1].i = @ + 1]
        /\ import_ast' = import_ast
    BY <1>6 DEF LoadReturn
  <2>2. /\ Stack(outer, Listed) /\ outer # <<>> /\ Len(outer) = n - 1
        /\ Good(outer[Len(outer)]) /\ Waiting(outer[Len(outer)])
    <3>1. Stack(calls, Listed)
      BY DEF IInv
    <3>2. Len(calls) > 1
      <4>1. \A m \in Nat \ {0} : m # 1 => m > 1
        OBVIOUS
      <4> QED
        BY <1>2, <1>6, <4>1, Zenon
    <3> QED
      BY <1>4, <3>1, <3>2, StackPop
  <2>3. Good(resumed) /\ resumed.file = outer[n - 1].file
    <3>1. outer[n - 1] \in FrameType
      BY <2>2 DEF Good
    <3> HIDE DEF outer
    <3>2. resumed = [file |-> outer[n - 1].file, root |-> outer[n - 1].root, i |-> outer[n - 1].i + 1,
                     new_root |-> outer[n - 1].new_root \o Loaded(Top)]
      BY <3>1, FieldsChanged, Zenon
    <3> HIDE DEF resumed, n
    <3> QED
      BY <1>3, <2>2, <3>2, ResumedGood
  <2>4. calls' = [outer EXCEPT ![n - 1] = resumed]
    <3>1. n - 1 \in DOMAIN outer /\ outer[n - 1] \in FrameType
      BY <1>2, <1>6, <2>2, LenProperties, ElementOfSeq DEF Stack
    <3> HIDE DEF outer
    <3> QED
      BY <2>1, <3>1 DEF FrameType
  <2> HIDE DEF outer, resumed
  <2>5. Stack(calls, Listed)'
    BY <1>4, <2>2, <2>3, <2>4, StackStep
  <2> QED
    BY <1>1, <1>4, <2>1, <2>5 DEF IInv
<1> QED
  BY <1>5, <1>6

LEMMA NextIInv == IInv /\ [Next]_vars => IInv'
<1> SUFFICES ASSUME IInv, [Next]_vars PROVE IInv'
  OBVIOUS
<1>1. CASE \E f \in File : Link(f)
  BY <1>1, LinkIInv
<1>2. CASE LoadOther
  BY <1>2, LoadOtherIInv
<1>3. CASE ImportAgain
  BY <1>3, ImportAgainIInv
<1>4. CASE ImportBroken
  BY <1>4, ImportBrokenIInv
<1>5. CASE ImportFile
  BY <1>5, ImportFileIInv
<1>6. CASE LoadReturn
  BY <1>6, LoadReturnIInv
<1>7. CASE UNCHANGED vars
  BY <1>7 DEF vars, IInv, Listed
<1> QED
  BY <1>1, <1>2, <1>3, <1>4, <1>5, <1>6, <1>7 DEF Next, Load

LEMMA InvariantHolds == Spec => []IInv
BY InitIInv, NextIInv, PTL DEF Spec

-----------------------------------------------------------------------------
(* What the invariant gives.                                               *)

(* Every variable keeps its type, and the errors reported never outnumber  *)
(* the files that cannot be read: each is reported at most once in a link. *)
THEOREM TypeCorrect == Spec => []TypeOK
<1>1. IInv => TypeOK
  <2> SUFFICES ASSUME IInv PROVE TypeOK
    OBVIOUS
  <2>1. IsFiniteSet(broken) /\ Cardinality(broken) \in Nat
    BY FS_Subset, FS_CardinalityType, FileAssumption DEF IInv
  <2>2. IsFiniteSet(Listed \cap broken) /\ Cardinality(Listed \cap broken) <= Cardinality(broken)
    BY <2>1, FS_Subset
  <2>3. error \in 0..Cardinality(broken)
    BY <2>1, <2>2, FS_CardinalityType DEF IInv
  <2>4. ASSUME NEW k \in DOMAIN calls
        PROVE  /\ calls[k].file \in File /\ calls[k].root \in Seq(Node)
               /\ calls[k].i \in 1..(MaxLen + 1) /\ calls[k].new_root \in Seq(Node)
    <3>1. Good(calls[k])
      BY LenProperties DEF IInv, Stack
    <3>2. Len(calls[k].root) \in Nat
      BY <3>1, LenProperties DEF Good, FrameType
    <3> QED
      BY <3>1, <3>2, FileAssumption DEF Good, FrameType
  <2> QED
    BY <2>3, <2>4 DEF IInv, TypeOK
<1> QED
  BY <1>1, InvariantHolds, PTL

(* The tree a link leaves holds no import at its top level: what the code  *)
(* generator gets was linked all the way down.                             *)
THEOREM TreeHasNoImport == Spec => []NoImportLeft
<1>1. IInv => NoImportLeft
  BY LenProperties DEF IInv, NoImports, NoImportLeft
<1> QED
  BY <1>1, InvariantHolds, PTL

(* load calls itself no deeper than there are files, and never for a file  *)
(* it is loading, the main program apart: the infinite loading loop the    *)
(* comment in file_import speaks of cannot come about.                     *)
THEOREM RecursionBounded == Spec => []DepthBounded
<1>1. IInv => DepthBounded
  <2> SUFFICES ASSUME IInv PROVE DepthBounded
    OBVIOUS
  <2>1. Len(calls) \in Nat /\ DOMAIN calls = 1..Len(calls)
    BY LenProperties DEF IInv, Stack
  <2>2. Len(calls) <= Cardinality(File) + 1
    <3>1. Cardinality(Listed) <= Cardinality(File) /\ Cardinality(Listed) \in Nat /\ Cardinality(File) \in Nat
      BY ListedFinite, FS_CardinalityType, FileAssumption DEF IInv
    <3> QED
      BY <2>1, <3>1 DEF IInv, Stack
  <2>3. ASSUME NEW k \in DOMAIN calls, NEW l \in DOMAIN calls, 1 < k, k < l
        PROVE  calls[k].file # calls[l].file
    <3>1. k \in 2..Len(calls) /\ l \in 2..Len(calls)
      BY <2>1, <2>3
    <3> QED
      BY <2>3, <3>1 DEF IInv, Stack
  <2> QED
    BY <2>2, <2>3 DEF DepthBounded
<1> QED
  BY <1>1, InvariantHolds, PTL
=============================================================================

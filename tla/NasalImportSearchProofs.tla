----------------------- MODULE NasalImportSearchProofs -----------------------
(* Proofs about NasalImport, for any finite set of files: what is linked,  *)
(* how often and in which order.                                           *)
EXTENDS NasalImportProofs

(* A call's own tree is the file's, but for the imports that were cleared. *)
Copy(frame) ==
  /\ Len(frame.root) = Len(body[frame.file])
  /\ \A j \in 1..Len(frame.root) : frame.root[j].file = frame.file /\ frame.root[j].at = j

(* The statements from here on were not looked at, those before were.      *)
Unread(frame, here) ==
  \A j \in here..Len(frame.root) : frame.root[j].what = body[frame.file][j]
Read(frame, here, table) ==
  \A j \in 1..(here - 1) : body[frame.file][j] \in table \cup {Plain}

(* Where call k goes on: one that waits has looked at the import it is at. *)
Ahead(stack, k) == IF k = Len(stack) THEN stack[k].i ELSE stack[k].i + 1

(* Every call is of a file the calls before it lead to.                    *)
Chain(stack, table) ==
  /\ stack[1].file = main
  /\ \A k \in 1..Len(stack) :
       /\ stack[k].file \notin broken
       /\ Copy(stack[k])
       /\ Unread(stack[k], Ahead(stack, k)) /\ Read(stack[k], Ahead(stack, k), table)
  /\ \A k, l \in 1..Len(stack) : k < l => stack[l].file \in Reached(stack[k].file)

(* The files whose loading has come to an end.                             *)
Underway(stack) == {stack[k].file : k \in 2..Len(stack)}
Done(stack, table) == (table \ broken) \ Underway(stack)

(* What is done has all its imports entered; one of them is still being    *)
(* loaded only if that one leads back.                                     *)
Entered(stack, table) ==
  /\ table \subseteq Reached(main)
  /\ \A f \in Done(stack, table) : Imports(f) \subseteq table
  /\ \A f \in Done(stack, table) : \A k \in 1..Len(stack) :
       stack[k].file \in Imports(f) => f \in Reached(stack[k].file)

(* The trees the calls have taken in, put one behind the other in the      *)
(* order of the calls: call k's is the piece up to cut[k].                 *)
Piece(part, tree, from, upto) ==
  /\ Len(part) = upto - from
  /\ \A j \in 1..Len(part) : part[j] = tree[from + j]
Pieces(stack, tree, cut) ==
  /\ tree \in Seq(Node)
  /\ cut \in [0..Len(stack) -> 0..Len(tree)]
  /\ cut[0] = 0 /\ cut[Len(stack)] = Len(tree)
  /\ \A k \in 1..Len(stack) : Piece(stack[k].new_root, tree, cut[k - 1], cut[k])

Once(tree) ==
  \A i, j \in 1..Len(tree) :
    i # j => tree[i].file # tree[j].file \/ tree[i].at # tree[j].at
InOrder(tree) ==
  \A i, j \in 1..Len(tree) :
    tree[j].file \in Imports(tree[i].file) /\ tree[i].file \notin Reached(tree[j].file) => j < i

(* They hold the statements of the files done, once, imports first.        *)
Brought(tree, done) ==
  /\ \A j \in 1..Len(tree) :
       tree[j].file \in done /\ tree[j].at \in 1..Len(body[tree[j].file])
  /\ \A f \in done : body[f] # <<>> => \E j \in 1..Len(tree) : tree[j].file = f
  /\ Once(tree) /\ InOrder(tree)

Search(stack, table) ==
  /\ Chain(stack, table) /\ Entered(stack, table)
  /\ \E tree, cut : Pieces(stack, tree, cut) /\ Brought(tree, Done(stack, table))

(* With IInv, the inductive invariant.                                     *)
SInv ==
  /\ calls # <<>> => import_ast = <<>> /\ Search(calls, Listed)
  /\ Linked => Listed = Reached(main)
  /\ LoadedOnce /\ LinkComplete /\ ImportsFirst

-----------------------------------------------------------------------------
(* The files reached.                                                      *)

LEMMA ReachedFiles ==
  ASSUME NEW f
  PROVE  /\ Reached(f) \subseteq File /\ Imports(f) \subseteq Reached(f)
         /\ Closed(Reached(f))
<1>1. Reached(f) \subseteq File /\ Imports(f) \subseteq Reached(f)
  BY DEF Reached, Imports
<1>2. ASSUME NEW g \in Reached(f) \ broken, NEW h \in Imports(g)
      PROVE  h \in Reached(f)
  <2>1. h \in File
    BY DEF Imports
  <2>2. ASSUME NEW S \in SUBSET File, Imports(f) \subseteq S, Closed(S)
        PROVE  h \in S
    <3>1. g \in S
      BY <2>2 DEF Reached
    <3> QED
      BY <2>2, <3>1 DEF Closed
  <2> QED
    BY <2>1, <2>2 DEF Reached
<1> QED
  BY <1>1, <1>2 DEF Closed

LEMMA ReachedLeast ==
  ASSUME NEW f, NEW S \in SUBSET File, Imports(f) \subseteq S, Closed(S)
  PROVE  Reached(f) \subseteq S
BY DEF Reached

(* What the innermost call imports is reached from every call.             *)
LEMMA ReachedBelow ==
  ASSUME NEW stack, Len(stack) \in Nat, NEW table, Chain(stack, table), NEW k \in 1..Len(stack)
  PROVE  Imports(stack[Len(stack)].file) \subseteq Reached(stack[k].file)
<1>1. CASE k = Len(stack)
  BY <1>1, ReachedFiles
<1>2. CASE k # Len(stack)
  <2>1. Len(stack) \in 1..Len(stack) /\ k < Len(stack)
    BY <1>2
  <2>2. stack[Len(stack)].file \in Reached(stack[k].file) \ broken
    BY <2>1 DEF Chain
  <2> QED
    BY <2>2, ReachedFiles DEF Closed
<1> QED
  BY <1>1, <1>2

LEMMA ImportsReached ==
  ASSUME NEW stack, Len(stack) \in Nat \ {0}, NEW table, Chain(stack, table)
  PROVE  Imports(stack[Len(stack)].file) \subseteq Reached(main)
<1>1. 1 \in 1..Len(stack) /\ stack[1].file = main
  BY DEF Chain
<1> QED
  BY <1>1, ReachedBelow

-----------------------------------------------------------------------------
(* One call of load.                                                       *)

LEMMA BodyOf ==
  ASSUME body \in [File -> Bodies], NEW f \in File
  PROVE  /\ Len(body[f]) \in 0..MaxLen /\ DOMAIN body[f] = 1..Len(body[f])
         /\ \A j \in 1..Len(body[f]) : body[f][j] \in Statement
<1>1. PICK n \in 0..MaxLen : body[f] \in [1..n -> Statement]
  BY DEF Bodies
<1> QED
  BY <1>1, FileAssumption

LEMMA BodyNotEmpty ==
  ASSUME body \in [File -> Bodies], NEW f \in File
  PROVE  body[f] # <<>> <=> Len(body[f]) # 0
<1>1. PICK n \in 0..MaxLen : body[f] \in [1..n -> Statement]
  BY DEF Bodies
<1>2. Len(body[f]) = n /\ n \in Nat
  BY <1>1, FileAssumption
<1>3. n = 0 => body[f] = <<>>
  BY <1>1
<1> QED
  BY <1>2, <1>3, NotEmpty

(* A call starts with a copy of its file.                                  *)
LEMMA FrameCopy ==
  ASSUME body \in [File -> Bodies], NEW f \in File
  PROVE  /\ Copy(Frame(f)) /\ Unread(Frame(f), 1)
         /\ Frame(f).file = f /\ Frame(f).i = 1 /\ Frame(f).new_root = <<>>
<1> DEFINE n == Len(body[f])
<1>1. n \in Nat
  BY BodyOf, FileAssumption
<1>2. Tree(f) = [j \in 1..n |-> [file |-> f, at |-> j, what |-> body[f][j]]]
  BY DEF Tree
<1>3. Len(Tree(f)) = n
  <2> HIDE DEF n
  <2> QED
    BY <1>1, <1>2
<1>4. \A j \in 1..n : Tree(f)[j].file = f /\ Tree(f)[j].at = j /\ Tree(f)[j].what = body[f][j]
  BY <1>2
<1>5. /\ Frame(f).file = f /\ Frame(f).root = Tree(f) /\ Frame(f).i = 1
      /\ Frame(f).new_root = <<>>
  BY DEF Frame
<1> QED
  BY <1>3, <1>4, <1>5 DEF Copy, Unread

(* Clearing an import leaves the rest of the call as it was.               *)
LEMMA NulledCopy ==
  ASSUME NEW frame, Good(frame), frame.i <= Len(frame.root),
         Copy(frame), Unread(frame, frame.i)
  PROVE  /\ Copy(Nulled(frame)) /\ Unread(Nulled(frame), frame.i + 1)
         /\ Nulled(frame).file = frame.file /\ Nulled(frame).i = frame.i
         /\ Nulled(frame).new_root = frame.new_root
         /\ Len(Nulled(frame).root) = Len(frame.root)
<1> DEFINE node == [frame.root[frame.i] EXCEPT !.what = Null]
           root == [frame.root EXCEPT ![frame.i] = node]
<1>1. frame.root \in Seq(Node) /\ frame.i \in 1..Len(frame.root)
  BY DEF Good, FrameType
<1>2. frame.root[frame.i] \in Node
  BY <1>1, ElementOfSeq
<1>3. node \in Node /\ node.file = frame.root[frame.i].file /\ node.at = frame.root[frame.i].at
  BY <1>2 DEF Node
<1>4. /\ Len(root) = Len(frame.root)
      /\ \A j \in 1..Len(frame.root) : root[j] = IF j = frame.i THEN node ELSE frame.root[j]
  BY <1>1, <1>3, ExceptSeq
<1>5. Nulled(frame) = [file |-> frame.file, root |-> root,
                       i |-> frame.i, new_root |-> frame.new_root]
  <2>1. Nulled(frame) = [frame EXCEPT !.root = root]
    BY Zenon DEF Nulled
  <2> HIDE DEF root
  <2> QED
    BY <2>1 DEF Good, FrameType
<1> HIDE DEF node, root
<1>6. /\ Nulled(frame).file = frame.file /\ Nulled(frame).root = root
      /\ Nulled(frame).i = frame.i /\ Nulled(frame).new_root = frame.new_root
  BY <1>5
<1>7. \A j \in 1..Len(frame.root) : root[j].file = frame.file /\ root[j].at = j
  BY <1>3, <1>4 DEF Copy
<1>8. \A j \in (frame.i + 1)..Len(frame.root) : root[j].what = body[frame.file][j]
  <2> TAKE j \in (frame.i + 1)..Len(frame.root)
  <2>1. j \in 1..Len(frame.root) /\ j # frame.i /\ j \in frame.i..Len(frame.root)
    BY <1>1
  <2> QED
    BY <1>4, <2>1 DEF Unread
<1> QED
  BY <1>4, <1>6, <1>7, <1>8 DEF Copy, Unread

LEMMA OneMore ==
  ASSUME NEW S, NEW s \in Seq(S), NEW x \in S
  PROVE  /\ Len(s \o <<x>>) = Len(s) + 1 /\ (s \o <<x>>)[Len(s) + 1] = x
         /\ \A k \in 1..Len(s) : (s \o <<x>>)[k] = s[k]
<1>1. Len(s) \in Nat
  BY LenProperties
<1>2. <<x>> \in Seq(S) /\ Len(<<x>>) = 1 /\ <<x>>[1] = x
  OBVIOUS
<1> QED
  BY <1>1, <1>2, ConcatProperties

LEMMA AdvancedFields ==
  ASSUME NEW frame \in FrameType
  PROVE  /\ Advanced(frame).file = frame.file /\ Advanced(frame).root = frame.root
         /\ Advanced(frame).i = frame.i + 1 /\ Advanced(frame).new_root = frame.new_root
<1>1. Advanced(frame) = [file |-> frame.file, root |-> frame.root,
                         i |-> frame.i + 1, new_root |-> frame.new_root]
  BY SMTT(30) DEF FrameType, Advanced
<1> QED
  BY <1>1, Fields

-----------------------------------------------------------------------------
(* The steps.                                                              *)

(* What the innermost call is at is what its file says there.              *)
LEMMA CurrentIs ==
  ASSUME IInv, InLoop, Chain(calls, Listed)
  PROVE  /\ Good(Top) /\ Top.file \in File \ broken /\ Copy(Top) /\ Unread(Top, Top.i)
         /\ Read(Top, Top.i, Listed)
         /\ Top.i \in 1..Len(body[Top.file])
         /\ Current = body[Top.file][Top.i]
         /\ Current \in File \cup {Plain}
         /\ Current \in File => Current \in Imports(Top.file)
<1>1. Good(Top) /\ Top = calls[Len(calls)] /\ Len(calls) \in Nat \ {0}
  BY TopGood DEF InLoop
<1>2. Len(calls) \in 1..Len(calls)
  BY <1>1
<1>3. /\ Top.file \notin broken /\ Copy(Top) /\ Unread(Top, Top.i)
      /\ Read(Top, Top.i, Listed)
  BY <1>1, <1>2 DEF Chain, Ahead
<1>4. Top.file \in File /\ Top.root \in Seq(Node) /\ Top.i \in 1..Len(Top.root)
  BY <1>1 DEF Good, FrameType, InLoop
<1>5. Top.i \in 1..Len(body[Top.file]) /\ Top.i \in Top.i..Len(Top.root)
  BY <1>3, <1>4 DEF Copy
<1>6. Current = body[Top.file][Top.i]
  BY <1>3, <1>5 DEF Unread, Current
<1>7. Current \in Statement
  BY <1>4, <1>5, <1>6, BodyOf DEF IInv
<1>8. Current \in File => Current \in Imports(Top.file)
  <2>1. DOMAIN body[Top.file] = 1..Len(body[Top.file])
    BY <1>4, BodyOf DEF IInv
  <2> QED
    BY <1>5, <1>6, <2>1 DEF Imports
<1> QED
  BY <1>1, <1>3, <1>4, <1>5, <1>6, <1>7, <1>8 DEF Statement

(* The files done before are done still when the innermost call moves and  *)
(* only a file that cannot be read is entered.                             *)
LEMMA DoneSame ==
  ASSUME NEW stack, NEW moved, NEW table, NEW entered,
         Len(moved) = Len(stack), \A k \in 1..Len(stack) : moved[k].file = stack[k].file,
         table \subseteq entered, entered \ table \subseteq broken
  PROVE  Done(moved, entered) = Done(stack, table)
<1>1. Underway(moved) \subseteq Underway(stack)
  <2> SUFFICES ASSUME NEW k \in 2..Len(moved)
               PROVE  moved[k].file \in Underway(stack)
    BY DEF Underway
  <2>1. k \in 1..Len(stack)
    OBVIOUS
  <2> QED
    BY <2>1 DEF Underway
<1>2. Underway(stack) \subseteq Underway(moved)
  <2> SUFFICES ASSUME NEW k \in 2..Len(stack)
               PROVE  stack[k].file \in Underway(moved)
    BY DEF Underway
  <2>1. k \in 1..Len(stack) /\ k \in 2..Len(moved) /\ stack[k].file = moved[k].file
    OBVIOUS
  <2> QED
    BY <2>1 DEF Underway
<1> QED
  BY <1>1, <1>2 DEF Done

(* The innermost call passes one statement.                                *)
LEMMA SearchMoves ==
  ASSUME NEW stack, NEW n \in Nat \ {0}, n = Len(stack),
         NEW table, Search(stack, table),
         NEW entered, table \subseteq entered, entered \ table \subseteq broken,
         entered \subseteq Reached(main),
         NEW moved, Len(moved) = n, \A k \in 1..(n - 1) : moved[k] = stack[k],
         moved[n].file = stack[n].file, moved[n].new_root = stack[n].new_root,
         stack[n].i \in Nat, moved[n].i = stack[n].i + 1,
         Copy(moved[n]), Unread(moved[n], moved[n].i),
         body[stack[n].file][stack[n].i] \in entered \cup {Plain}
  PROVE  Search(moved, entered)
<1>1. n \in 1..n /\ \A k \in 1..n : k = n \/ (k \in 1..(n - 1) /\ k # n)
  OBVIOUS
<1>2. \A k \in 1..n : moved[k].file = stack[k].file /\ moved[k].new_root = stack[k].new_root
  BY <1>1
<1>3. Done(moved, entered) = Done(stack, table)
  BY <1>2, DoneSame
<1>4. Chain(moved, entered)
  <2>1. moved[1].file = main /\ \A k \in 1..n : moved[k].file \notin broken
    BY <1>1, <1>2 DEF Search, Chain
  <2>2. \A k, l \in 1..n : k < l => moved[l].file \in Reached(moved[k].file)
    BY <1>2 DEF Search, Chain
  <2>3. ASSUME NEW k \in 1..n
        PROVE  /\ Copy(moved[k]) /\ Unread(moved[k], Ahead(moved, k))
               /\ Read(moved[k], Ahead(moved, k), entered)
    <3>1. CASE k = n
      <4>1. Ahead(moved, k) = stack[n].i + 1
        BY <3>1 DEF Ahead
      <4>2. Read(stack[n], stack[n].i, table)
        BY <1>1 DEF Search, Chain, Ahead
      <4>3. Read(moved[n], stack[n].i + 1, entered)
        <5> SUFFICES ASSUME NEW j \in 1..(stack[n].i + 1 - 1)
                     PROVE  body[stack[n].file][j] \in entered \cup {Plain}
          BY DEF Read
        <5>1. j = stack[n].i \/ j \in 1..(stack[n].i - 1)
          OBVIOUS
        <5> QED
          BY <4>2, <5>1 DEF Read
      <4> QED
        BY <3>1, <4>1, <4>3
    <3>2. CASE k # n
      <4>1. moved[k] = stack[k] /\ Ahead(moved, k) = Ahead(stack, k)
        BY <1>1, <3>2 DEF Ahead
      <4>2. /\ Copy(stack[k]) /\ Unread(stack[k], Ahead(stack, k))
            /\ Read(stack[k], Ahead(stack, k), table)
        BY DEF Search, Chain
      <4> QED
        BY <4>1, <4>2 DEF Read
    <3> QED
      BY <3>1, <3>2
  <2> QED
    BY <2>1, <2>2, <2>3 DEF Chain
<1>5. Entered(moved, entered)
  BY <1>2, <1>3 DEF Search, Entered
<1>6. \E tree, cut : Pieces(moved, tree, cut) /\ Brought(tree, Done(moved, entered))
  <2>1. PICK tree, cut : Pieces(stack, tree, cut) /\ Brought(tree, Done(stack, table))
    BY DEF Search
  <2>2. Pieces(moved, tree, cut)
    BY <1>2, <2>1 DEF Pieces
  <2> QED
    BY <1>3, <2>1, <2>2
<1> QED
  BY <1>4, <1>5, <1>6 DEF Search

(* The innermost call waits for a file that was not entered before.        *)
LEMMA SearchPush ==
  ASSUME NEW stack, NEW n \in Nat \ {0}, n = Len(stack),
         NEW table, Search(stack, table),
         NEW h \in Imports(stack[n].file), h \notin broken, h \notin table,
         NEW pushed, Len(pushed) = n + 1, \A k \in 1..(n - 1) : pushed[k] = stack[k],
         pushed[n].file = stack[n].file, pushed[n].new_root = stack[n].new_root,
         stack[n].i \in Nat, pushed[n].i = stack[n].i, body[stack[n].file][stack[n].i] = h,
         Copy(pushed[n]), Unread(pushed[n], stack[n].i + 1),
         pushed[n + 1].file = h, pushed[n + 1].new_root = <<>>, pushed[n + 1].i = 1,
         Copy(pushed[n + 1]), Unread(pushed[n + 1], 1)
  PROVE  Search(pushed, table \cup {h})
<1>1. n \in 1..n /\ \A k \in 1..n : k = n \/ (k \in 1..(n - 1) /\ k # n)
  OBVIOUS
<1>2. \A k \in 1..n : pushed[k].file = stack[k].file /\ pushed[k].new_root = stack[k].new_root
  BY <1>1
<1>3. \A k \in 1..(n + 1) : k = n + 1 \/ (k \in 1..n /\ k # n + 1)
  OBVIOUS
<1>4. Done(pushed, table \cup {h}) = Done(stack, table)
  <2>1. Underway(pushed) \subseteq Underway(stack) \cup {h}
    <3> SUFFICES ASSUME NEW k \in 2..(n + 1)
                 PROVE  pushed[k].file \in Underway(stack) \cup {h}
      BY DEF Underway
    <3>1. k = n + 1 \/ (k \in 1..n /\ k \in 2..n)
      OBVIOUS
    <3> QED
      BY <1>2, <3>1 DEF Underway
  <2>2. Underway(stack) \subseteq Underway(pushed)
    <3> SUFFICES ASSUME NEW k \in 2..n
                 PROVE  stack[k].file \in Underway(pushed)
      BY DEF Underway
    <3>1. k \in 1..n /\ k \in 2..Len(pushed) /\ stack[k].file = pushed[k].file
      BY <1>2
    <3> QED
      BY <3>1 DEF Underway
  <2>3. h \in Underway(pushed)
    <3>1. n + 1 \in 2..Len(pushed) /\ pushed[n + 1].file = h
      OBVIOUS
    <3> QED
      BY <3>1 DEF Underway
  <2> QED
    BY <2>1, <2>2, <2>3 DEF Done
<1>5. Chain(stack, table) /\ Entered(stack, table)
  BY DEF Search
<1>6. Chain(pushed, table \cup {h})
  <2>1. pushed[1].file = main /\ \A k \in 1..(n + 1) : pushed[k].file \notin broken
    BY <1>2, <1>3, <1>5 DEF Chain
  <2>2. ASSUME NEW k \in 1..(n + 1), NEW l \in 1..(n + 1), k < l
        PROVE  pushed[l].file \in Reached(pushed[k].file)
    <3>1. k \in 1..n /\ pushed[k].file = stack[k].file
      BY <1>2, <2>2
    <3>2. CASE l = n + 1
      BY <1>5, <3>1, <3>2, ReachedBelow
    <3>3. CASE l # n + 1
      BY <1>2, <1>3, <1>5, <2>2, <3>1, <3>3 DEF Chain
    <3> QED
      BY <3>2, <3>3
  <2>3. ASSUME NEW k \in 1..(n + 1)
        PROVE  /\ Copy(pushed[k]) /\ Unread(pushed[k], Ahead(pushed, k))
               /\ Read(pushed[k], Ahead(pushed, k), table \cup {h})
    <3>1. CASE k = n + 1
      <4>1. Ahead(pushed, k) = 1
        BY <3>1 DEF Ahead
      <4> QED
        BY <3>1, <4>1 DEF Read
    <3>2. CASE k = n
      <4>1. Ahead(pushed, k) = stack[n].i + 1
        BY <3>2 DEF Ahead
      <4>2. Read(stack[n], stack[n].i, table)
        BY <1>1, <1>5 DEF Chain, Ahead
      <4>3. Read(pushed[n], stack[n].i + 1, table \cup {h})
        <5> SUFFICES ASSUME NEW j \in 1..(stack[n].i + 1 - 1)
                     PROVE  body[stack[n].file][j] \in table \cup {h} \cup {Plain}
          BY DEF Read
        <5>1. j = stack[n].i \/ j \in 1..(stack[n].i - 1)
          OBVIOUS
        <5> QED
          BY <4>2, <5>1 DEF Read
      <4> QED
        BY <3>2, <4>1, <4>3
    <3>3. CASE k \in 1..(n - 1)
      <4>1. pushed[k] = stack[k] /\ k \in 1..n
        BY <3>3
      <4>2. Ahead(pushed, k) = Ahead(stack, k)
        BY <3>3, <4>1 DEF Ahead
      <4>3. /\ Copy(stack[k]) /\ Unread(stack[k], Ahead(stack, k))
            /\ Read(stack[k], Ahead(stack, k), table)
        BY <1>5, <4>1 DEF Chain
      <4> QED
        BY <4>1, <4>2, <4>3 DEF Read
    <3> QED
      BY <1>1, <1>3, <3>1, <3>2, <3>3
  <2> QED
    BY <2>1, <2>2, <2>3 DEF Chain
<1>7. Entered(pushed, table \cup {h})
  <2>1. table \cup {h} \subseteq Reached(main)
    BY <1>5, ImportsReached DEF Entered
  <2>2. ASSUME NEW f \in Done(stack, table), NEW k \in 1..(n + 1), pushed[k].file \in Imports(f)
        PROVE  f \in Reached(pushed[k].file)
    <3>1. CASE k = n + 1
      BY <1>5, <2>2, <3>1 DEF Entered
    <3>2. CASE k # n + 1
      BY <1>2, <1>3, <1>5, <2>2, <3>2 DEF Entered
    <3> QED
      BY <3>1, <3>2
  <2> QED
    BY <1>4, <1>5, <2>1, <2>2 DEF Entered
<1>8. \E tree, cut : Pieces(pushed, tree, cut) /\ Brought(tree, Done(pushed, table \cup {h}))
  <2>1. PICK tree, cut : Pieces(stack, tree, cut) /\ Brought(tree, Done(stack, table))
    BY DEF Search
  <2> DEFINE more == [k \in 0..(n + 1) |-> IF k = n + 1 THEN Len(tree) ELSE cut[k]]
  <2>2. Len(tree) \in Nat /\ tree \in Seq(Node) /\ cut \in [0..n -> 0..Len(tree)]
    BY <2>1, LenProperties DEF Pieces
  <2>3. /\ more \in [0..(n + 1) -> 0..Len(tree)] /\ more[n + 1] = Len(tree)
        /\ \A k \in 0..n : more[k] = cut[k]
    BY <2>2
  <2> HIDE DEF more
  <2>4. cut[0] = 0 /\ cut[n] = Len(tree) /\ 0 \in 0..n /\ n \in 0..n
    BY <2>1 DEF Pieces
  <2>5. ASSUME NEW k \in 1..(n + 1)
        PROVE  Piece(pushed[k].new_root, tree, more[k - 1], more[k])
    <3>1. CASE k = n + 1
      <4>1. Len(<<>>) = 0 /\ more[k - 1] = Len(tree) /\ more[k] = Len(tree)
        BY <2>3, <2>4, <3>1, EmptySeq
      <4> QED
        BY <2>2, <3>1, <4>1 DEF Piece
    <3>2. CASE k # n + 1
      <4>1. k \in 1..n /\ k - 1 \in 0..n /\ k \in 0..n
        BY <3>2
      <4>2. Piece(stack[k].new_root, tree, cut[k - 1], cut[k])
        BY <2>1, <4>1 DEF Pieces
      <4> QED
        BY <1>2, <2>3, <4>1, <4>2
    <3> QED
      BY <3>1, <3>2
  <2>6. Pieces(pushed, tree, more)
    BY <2>2, <2>3, <2>4, <2>5 DEF Pieces
  <2> QED
    BY <1>4, <2>1, <2>6
<1> QED
  BY <1>6, <1>7, <1>8 DEF Search

(* A file's own statements go behind all that was taken in.                *)
LEMMA BroughtMore ==
  ASSUME NEW tree \in Seq(Node), NEW done, Brought(tree, done),
         NEW h, h \notin done, NEW root \in Seq(Node), Len(root) = Len(body[h]),
         \A j \in 1..Len(root) : root[j].file = h /\ root[j].at = j,
         body[h] # <<>> => Len(body[h]) # 0,
         \A f \in done : h \in Imports(f) => f \in Reached(h)
  PROVE  Brought(tree \o root, done \cup {h})
<1> DEFINE both == tree \o root
           m == Len(tree)
           l == Len(root)
<1>1. m \in Nat /\ l \in Nat
  BY LenProperties
<1>2. /\ Len(both) = m + l
      /\ \A j \in 1..(m + l) : both[j] = IF j <= m THEN tree[j] ELSE root[j - m]
  BY ConcatProperties, ZenonT(30)
<1> HIDE DEF both
<1>3. ASSUME NEW j \in 1..(m + l)
      PROVE  \/ j \in 1..m /\ both[j] = tree[j] /\ both[j].file \in done
             \/ j > m /\ j - m \in 1..l /\ both[j].file = h /\ both[j].at = j - m
  <2>1. CASE j <= m
    <3>1. j \in 1..m
      BY <1>1, <2>1
    <3> QED
      BY <1>2, <2>1, <3>1 DEF Brought
  <2>2. CASE j > m
    <3>1. j - m \in 1..l /\ both[j] = root[j - m]
      BY <1>1, <1>2, <2>2
    <3> QED
      BY <2>2, <3>1
  <2> QED
    BY <1>1, <2>1, <2>2
<1>4. ASSUME NEW j \in 1..(m + l)
      PROVE  both[j].file \in done \cup {h} /\ both[j].at \in 1..Len(body[both[j].file])
  <2>1. CASE j \in 1..m /\ both[j] = tree[j] /\ both[j].file \in done
    BY <2>1 DEF Brought
  <2>2. CASE j - m \in 1..l /\ both[j].file = h /\ both[j].at = j - m
    BY <2>2
  <2> QED
    BY <1>3, <2>1, <2>2
<1>5. ASSUME NEW f \in done \cup {h}, body[f] # <<>>
      PROVE  \E j \in 1..(m + l) : both[j].file = f
  <2>1. CASE f \in done
    <3>1. PICK j \in 1..m : tree[j].file = f
      BY <1>5, <2>1 DEF Brought
    <3>2. j \in 1..(m + l) /\ both[j] = tree[j]
      BY <1>1, <1>2
    <3> QED
      BY <3>1, <3>2
  <2>2. CASE f = h
    <3>1. 1 \in 1..l /\ m + 1 \in 1..(m + l) /\ m + 1 - m = 1 /\ ~ (m + 1 <= m)
      BY <1>1, <1>5, <2>2
    <3>2. both[m + 1] = root[1]
      BY <1>2, <3>1
    <3> QED
      BY <2>2, <3>1, <3>2
  <2> QED
    BY <2>1, <2>2
<1>6. Once(both)
  <2> SUFFICES ASSUME NEW i \in 1..(m + l), NEW j \in 1..(m + l), i # j
               PROVE  both[i].file # both[j].file \/ both[i].at # both[j].at
    BY <1>2 DEF Once
  <2>1. CASE i \in 1..m /\ j \in 1..m
    BY <1>1, <1>2, <2>1 DEF Brought, Once
  <2>2. CASE ~ (i \in 1..m /\ j \in 1..m)
    BY <1>1, <1>3, <2>2, SMTT(30)
  <2> QED
    BY <2>1, <2>2
<1>7. InOrder(both)
  <2> SUFFICES ASSUME NEW i \in 1..(m + l), NEW j \in 1..(m + l),
                      both[j].file \in Imports(both[i].file),
                      both[i].file \notin Reached(both[j].file)
               PROVE  j < i
    BY <1>2 DEF InOrder
  <2>1. CASE i \in 1..m /\ j \in 1..m
    BY <1>1, <1>2, <2>1 DEF Brought, InOrder
  <2>2. CASE i \in 1..m /\ ~ (j \in 1..m)
    <3>1. both[i].file \in done /\ both[j].file = h
      BY <1>1, <1>3, <2>2
    <3> QED
      BY <3>1
  <2>3. CASE ~ (i \in 1..m) /\ j \in 1..m
    BY <1>1, <2>3
  <2>4. CASE ~ (i \in 1..m) /\ ~ (j \in 1..m)
    <3>1. both[i].file = h /\ both[j].file = h
      BY <1>1, <1>3, <2>4
    <3> QED
      BY <3>1, ReachedFiles
  <2> QED
    BY <2>1, <2>2, <2>3, <2>4
<1>8. Len(both) = m + l
  BY <1>2
<1> HIDE DEF m, l
<1>9. Brought(both, done \cup {h})
  BY <1>4, <1>5, <1>6, <1>7, <1>8 DEF Brought
<1> QED
  BY <1>9 DEF both

(* More put behind it does not move a piece.                               *)
LEMMA PieceKept ==
  ASSUME NEW tree \in Seq(Node), NEW root \in Seq(Node), NEW part \in Seq(Node),
         NEW from \in 0..Len(tree), NEW upto \in 0..Len(tree), Piece(part, tree, from, upto)
  PROVE  Piece(part, tree \o root, from, upto)
<1>1. Len(tree) \in Nat /\ Len(root) \in Nat /\ Len(part) \in Nat
  BY LenProperties
<1>2. \A j \in 1..(Len(tree) + Len(root)) :
        (tree \o root)[j] = IF j <= Len(tree) THEN tree[j] ELSE root[j - Len(tree)]
  BY ConcatProperties
<1> SUFFICES ASSUME NEW j \in 1..Len(part)
             PROVE  part[j] = (tree \o root)[from + j]
  BY DEF Piece
<1>3. part[j] = tree[from + j] /\ Len(part) = upto - from
  BY DEF Piece
<1>4. from + j \in 1..(Len(tree) + Len(root)) /\ from + j <= Len(tree)
  BY <1>1, <1>3
<1> QED
  BY <1>2, <1>3, <1>4

(* Two neighbouring pieces, and more put behind both.                      *)
LEMMA PieceJoined ==
  ASSUME NEW tree \in Seq(Node), NEW root \in Seq(Node),
         NEW left \in Seq(Node), NEW right \in Seq(Node),
         NEW from \in 0..Len(tree), NEW mid \in 0..Len(tree),
         Piece(left, tree, from, mid), Piece(right, tree, mid, Len(tree))
  PROVE  Piece(left \o (right \o root), tree \o root, from, Len(tree \o root))
<1> DEFINE t == Len(tree)
           r == Len(root)
           a == Len(left)
           b == Len(right)
           both == right \o root
           all == left \o both
           long == tree \o root
<1>1. t \in Nat /\ r \in Nat /\ a \in Nat /\ b \in Nat
  BY LenProperties
<1>2. a = mid - from /\ b = t - mid
  BY DEF Piece
<1>3. /\ Len(long) = t + r
      /\ \A j \in 1..(t + r) : long[j] = IF j <= t THEN tree[j] ELSE root[j - t]
  BY ConcatProperties
<1>4. /\ both \in Seq(Node) /\ Len(both) = b + r
      /\ \A j \in 1..(b + r) : both[j] = IF j <= b THEN right[j] ELSE root[j - b]
  BY ConcatProperties
<1>5. /\ Len(all) = a + (b + r)
      /\ \A j \in 1..(a + (b + r)) : all[j] = IF j <= a THEN left[j] ELSE both[j - a]
  <2> HIDE DEF both
  <2>1. \A s \in Seq(Node) :
          /\ Len(left \o s) = a + Len(s)
          /\ \A j \in 1..(a + Len(s)) : (left \o s)[j] = IF j <= a THEN left[j] ELSE s[j - a]
    BY ConcatProperties
  <2> QED
    BY <1>4, <2>1
<1> HIDE DEF all, both, long
<1>6. ASSUME NEW j \in 1..(a + (b + r))
      PROVE  all[j] = long[from + j]
  <2>1. from + j \in 1..(t + r)
    BY <1>1, <1>2
  <2>2. CASE j <= a
    <3>1. j \in 1..a /\ from + j <= t
      BY <1>1, <1>2, <2>2
    <3>2. left[j] = tree[from + j]
      BY <3>1 DEF Piece
    <3> QED
      BY <1>3, <1>5, <2>1, <2>2, <3>1, <3>2
  <2>3. CASE j > a /\ j - a <= b
    <3>1. j - a \in 1..b /\ j - a \in 1..(b + r) /\ from + j <= t /\ mid + (j - a) = from + j /\ ~ (j <= a)
      BY <1>1, <1>2, <2>3
    <3>2. right[j - a] = tree[mid + (j - a)]
      BY <3>1 DEF Piece
    <3>3. all[j] = right[j - a]
      BY <1>4, <1>5, <2>3, <3>1
    <3> QED
      BY <1>3, <2>1, <3>1, <3>2, <3>3
  <2>4. CASE j > a /\ j - a > b
    <3>1. j - a \in 1..(b + r) /\ ~ (j - a <= b) /\ ~ (from + j <= t) /\ j - a - b = from + j - t /\ ~ (j <= a)
      BY <1>1, <1>2, <2>4
    <3>2. all[j] = root[j - a - b]
      BY <1>4, <1>5, <3>1
    <3> QED
      BY <1>3, <2>1, <3>1, <3>2, SMTT(30)
  <2> QED
    BY <1>1, <2>2, <2>3, <2>4
<1>7. Len(all) = Len(long) - from
  BY <1>1, <1>2, <1>3, <1>5
<1>8. Piece(all, long, from, Len(long))
  BY <1>5, <1>6, <1>7 DEF Piece
<1> QED
  BY <1>8 DEF all, both, long

(* What the innermost call returns goes into the call before it.           *)
LEMMA PiecesPop ==
  ASSUME NEW stack, NEW n \in Nat, n > 1, n = Len(stack),
         \A k \in 1..n : stack[k].new_root \in Seq(Node),
         NEW tree, NEW cut, Pieces(stack, tree, cut), NEW root \in Seq(Node),
         NEW popped, Len(popped) = n - 1, \A k \in 1..(n - 2) : popped[k] = stack[k],
         popped[n - 1].new_root = stack[n - 1].new_root \o (stack[n].new_root \o root)
  PROVE  \E less : Pieces(popped, tree \o root, less)
<1> DEFINE long == tree \o root
           less == [k \in 0..(n - 1) |-> IF k = n - 1 THEN Len(long) ELSE cut[k]]
<1>1. tree \in Seq(Node) /\ Len(tree) \in Nat /\ Len(root) \in Nat
  BY LenProperties DEF Pieces
<1>2. long \in Seq(Node) /\ Len(long) = Len(tree) + Len(root)
  BY <1>1, ConcatProperties
<1>3. cut \in [0..n -> 0..Len(tree)] /\ cut[0] = 0 /\ cut[n] = Len(tree)
  BY DEF Pieces
<1>4. \A k \in 0..n : cut[k] \in 0..Len(tree) /\ cut[k] \in 0..Len(long)
  BY <1>1, <1>2, <1>3
<1> HIDE DEF long
<1>5. \A k \in 0..(n - 1) : k \in 0..n
  OBVIOUS
<1>6. /\ less \in [0..(n - 1) -> 0..Len(long)] /\ less[n - 1] = Len(long)
      /\ \A k \in 0..(n - 2) : less[k] = cut[k]
  <2>1. Len(long) \in 0..Len(long)
    BY <1>1, <1>2
  <2>2. ASSUME NEW k \in 0..(n - 1)
        PROVE  (IF k = n - 1 THEN Len(long) ELSE cut[k]) \in 0..Len(long)
    BY <1>4, <1>5, <2>1
  <2>3. less \in [0..(n - 1) -> 0..Len(long)]
    BY <2>2
  <2>4. n - 1 \in 0..(n - 1) /\ \A k \in 0..(n - 2) : k \in 0..(n - 1) /\ k # n - 1
    OBVIOUS
  <2> QED
    BY <2>3, <2>4
<1>7. less[0] = 0
  BY <1>3, <1>6
<1> HIDE DEF less
<1>8. ASSUME NEW k \in 1..(n - 1)
      PROVE  Piece(popped[k].new_root, long, less[k - 1], less[k])
  <2>1. /\ k \in 1..n /\ k + 1 \in 1..n /\ k - 1 \in 0..(n - 2) /\ k - 1 \in 0..n /\ k \in 0..n
        /\ k + 1 - 1 = k
    OBVIOUS
  <2>2. Piece(stack[k].new_root, tree, cut[k - 1], cut[k])
    BY <2>1 DEF Pieces
  <2>3. CASE k = n - 1
    <3>1. Piece(stack[n].new_root, tree, cut[n - 1], cut[n])
      BY DEF Pieces
    <3>2. Piece(stack[k].new_root \o (stack[n].new_root \o root), long, cut[k - 1], Len(long))
      <4>1. /\ stack[k].new_root \in Seq(Node) /\ stack[n].new_root \in Seq(Node)
            /\ cut[k - 1] \in 0..Len(tree) /\ cut[k] \in 0..Len(tree)
            /\ Piece(stack[n].new_root, tree, cut[k], Len(tree))
        BY <1>3, <1>4, <2>1, <2>3, <3>1, SMTT(30)
      <4> QED
        BY <1>1, <2>2, <4>1, PieceJoined DEF long
    <3> QED
      BY <1>6, <2>1, <2>3, <3>2
  <2>4. CASE k # n - 1
    <3>1. k \in 1..(n - 2) /\ k \in 0..(n - 2)
      BY <2>4
    <3>2. Piece(stack[k].new_root, long, cut[k - 1], cut[k])
      BY <1>1, <1>4, <2>1, <2>2, PieceKept DEF long
    <3> QED
      BY <1>6, <2>1, <3>1, <3>2
  <2> QED
    BY <2>3, <2>4
<1>9. Pieces(popped, long, less)
  BY <1>2, <1>6, <1>7, <1>8 DEF Pieces
<1> QED
  BY <1>9 DEF long

(* The innermost call returns to the one before it.                        *)
LEMMA SearchPop ==
  ASSUME body \in [File -> Bodies],
         NEW stack, NEW n \in Nat, n > 1, n = Len(stack),
         NEW table, Search(stack, table), NEW h \in File, h = stack[n].file, h \in table,
         \A k \in 2..(n - 1) : stack[k].file # h,
         \A k \in 1..n : stack[k].new_root \in Seq(Node),
         stack[n].root \in Seq(Node), stack[n].i = Len(stack[n].root) + 1,
         NEW popped, Len(popped) = n - 1, \A k \in 1..(n - 2) : popped[k] = stack[k],
         popped[n - 1].file = stack[n - 1].file, popped[n - 1].root = stack[n - 1].root,
         popped[n - 1].i = stack[n - 1].i + 1,
         popped[n - 1].new_root = stack[n - 1].new_root \o (stack[n].new_root \o stack[n].root)
  PROVE  Search(popped, table)
<1>1. n \in 1..n /\ n - 1 \in 1..n /\ 1 \in 1..(n - 1)
  OBVIOUS
<1>2. \A k \in 1..(n - 1) : k \in 1..n /\ popped[k].file = stack[k].file
  OBVIOUS
<1>3. Chain(stack, table) /\ Entered(stack, table)
  BY DEF Search
<1>4. h \notin broken /\ Copy(stack[n]) /\ Read(stack[n], stack[n].i, table)
  BY <1>1, <1>3 DEF Chain, Ahead
<1>5. Imports(h) \subseteq table
  <2> SUFFICES ASSUME NEW f \in Imports(h)
               PROVE  f \in table
    OBVIOUS
  <2>1. PICK j \in DOMAIN body[h] : f = body[h][j] /\ f \in File
    BY DEF Imports
  <2>2. j \in 1..(stack[n].i - 1)
    <3>1. j \in 1..Len(stack[n].root) /\ Len(stack[n].root) \in Nat
      BY <1>4, BodyOf, LenProperties DEF Copy
    <3> QED
      BY <3>1
  <2>3. f \in table \cup {Plain}
    BY <1>4, <2>1, <2>2 DEF Read
  <2> QED
    BY <2>1, <2>3, FileAssumption
<1>6. Done(popped, table) = Done(stack, table) \cup {h} /\ h \notin Done(stack, table)
  <2>1. Underway(stack) \subseteq Underway(popped) \cup {h}
    <3> SUFFICES ASSUME NEW k \in 2..n
                 PROVE  stack[k].file \in Underway(popped) \cup {h}
      BY DEF Underway
    <3>1. k = n \/ (k \in 1..(n - 1) /\ k \in 2..Len(popped))
      OBVIOUS
    <3> QED
      BY <1>2, <3>1 DEF Underway
  <2>2. ASSUME NEW f \in Underway(popped)
        PROVE  f \in Underway(stack) /\ f # h
    <3>1. PICK k \in 2..(n - 1) : f = popped[k].file
      BY DEF Underway
    <3>2. k \in 2..Len(stack) /\ popped[k].file = stack[k].file /\ stack[k].file # h
      <4>1. k \in 1..(n - 1) /\ k \in 2..n
        OBVIOUS
      <4> QED
        BY <1>2, <4>1
    <3> QED
      BY <3>1, <3>2 DEF Underway
  <2>3. h \in Underway(stack)
    <3>1. n \in 2..Len(stack)
      OBVIOUS
    <3> QED
      BY <3>1 DEF Underway
  <2> QED
    BY <1>4, <2>1, <2>2, <2>3 DEF Done
<1>7. Chain(popped, table)
  <2>1. popped[1].file = main /\ \A k \in 1..(n - 1) : popped[k].file \notin broken
    BY <1>1, <1>2, <1>3 DEF Chain
  <2>2. \A k, l \in 1..(n - 1) : k < l => popped[l].file \in Reached(popped[k].file)
    BY <1>2, <1>3 DEF Chain
  <2>3. ASSUME NEW k \in 1..(n - 1)
        PROVE  /\ Copy(popped[k]) /\ Unread(popped[k], Ahead(popped, k))
               /\ Read(popped[k], Ahead(popped, k), table)
    <3>1. popped[k].file = stack[k].file /\ popped[k].root = stack[k].root
      <4>1. k = n - 1 \/ k \in 1..(n - 2)
        OBVIOUS
      <4> QED
        BY <4>1
    <3>2. Ahead(popped, k) = Ahead(stack, k)
      <4>1. k = n - 1 \/ (k \in 1..(n - 2) /\ k # n - 1)
        OBVIOUS
      <4> QED
        BY <4>1 DEF Ahead
    <3>3. /\ Copy(stack[k]) /\ Unread(stack[k], Ahead(stack, k))
          /\ Read(stack[k], Ahead(stack, k), table)
      BY <1>2, <1>3 DEF Chain
    <3> QED
      BY <3>1, <3>2, <3>3 DEF Copy, Unread, Read
  <2> QED
    BY <2>1, <2>2, <2>3 DEF Chain
<1>8. Entered(popped, table)
  <2>1. ASSUME NEW k \in 1..(n - 1)
        PROVE  h \in Reached(popped[k].file)
    <3>1. k \in 1..n /\ k < n
      OBVIOUS
    <3> QED
      BY <1>1, <1>2, <1>3, <3>1 DEF Chain
  <2>2. ASSUME NEW f \in Done(popped, table), NEW k \in 1..(n - 1), popped[k].file \in Imports(f)
        PROVE  f \in Reached(popped[k].file)
    <3>1. CASE f = h
      BY <2>1, <3>1
    <3>2. CASE f \in Done(stack, table)
      BY <1>2, <1>3, <2>2, <3>2 DEF Entered
    <3> QED
      BY <1>6, <3>1, <3>2
  <2> QED
    BY <1>3, <1>5, <1>6, <2>2 DEF Entered
<1>9. \E tree, cut : Pieces(popped, tree, cut) /\ Brought(tree, Done(popped, table))
  <2>1. PICK tree, cut : Pieces(stack, tree, cut) /\ Brought(tree, Done(stack, table))
    BY DEF Search
  <2>2. PICK less : Pieces(popped, tree \o stack[n].root, less)
    BY <2>1, PiecesPop, ZenonT(30)
  <2>3. tree \in Seq(Node)
    BY <2>1 DEF Pieces
  <2>4. /\ Len(stack[n].root) = Len(body[h])
        /\ \A j \in 1..Len(stack[n].root) : stack[n].root[j].file = h /\ stack[n].root[j].at = j
    BY <1>4 DEF Copy
  <2>5. body[h] # <<>> => Len(body[h]) # 0
    BY BodyNotEmpty
  <2>6. \A f \in Done(stack, table) : h \in Imports(f) => f \in Reached(h)
    BY <1>1, <1>3 DEF Entered
  <2>7. Brought(tree \o stack[n].root, Done(stack, table) \cup {h})
    BY <1>6, <2>1, <2>3, <2>4, <2>5, <2>6, BroughtMore, ZenonT(30)
  <2> QED
    BY <1>6, <2>2, <2>7
<1> QED
  BY <1>7, <1>8, <1>9 DEF Search

(* The call of the main program returns: the link is over.                 *)
LEMMA SearchLast ==
  ASSUME body \in [File -> Bodies], main \in File,
         NEW frame \in FrameType, NEW table \in SUBSET File,
         NEW stack, Len(stack) = 1, stack[1] = frame, Search(stack, table),
         frame.i = Len(frame.root) + 1
  PROVE  /\ table = Reached(main)
         /\ Brought(frame.new_root, table \ broken)
         /\ Len(frame.root) = Len(body[main])
         /\ \A j \in 1..Len(frame.root) : frame.root[j].file = main /\ frame.root[j].at = j
<1>1. Len(stack) = 1 /\ stack[1] = frame /\ 1 \in 1..1
  OBVIOUS
<1>2. Chain(stack, table) /\ Entered(stack, table)
  BY DEF Search
<1>3. Done(stack, table) = table \ broken
  <2>1. \A k \in Int : ~ (k \in 2..1)
    OBVIOUS
  <2>2. Underway(stack) = {}
    BY <1>1, <2>1 DEF Underway
  <2> QED
    BY <2>2 DEF Done
<1>4. /\ frame.file = main /\ main \notin broken /\ Copy(frame)
      /\ Read(frame, frame.i, table)
  BY <1>1, <1>2 DEF Chain, Ahead
<1>5. Imports(main) \subseteq table
  <2> SUFFICES ASSUME NEW f \in Imports(main)
               PROVE  f \in table
    OBVIOUS
  <2>1. PICK j \in DOMAIN body[main] : f = body[main][j] /\ f \in File
    BY DEF Imports
  <2>2. j \in 1..(frame.i - 1)
    <3>1. j \in 1..Len(frame.root) /\ Len(frame.root) \in Nat
      BY <1>4, BodyOf, LenProperties DEF Copy, FrameType
    <3> QED
      BY <3>1
  <2>3. f \in table \cup {Plain}
    BY <1>4, <2>1, <2>2 DEF Read
  <2> QED
    BY <2>1, <2>3, FileAssumption
<1>6. table = Reached(main)
  <2>1. Closed(table)
    BY <1>2, <1>3 DEF Closed, Entered
  <2> QED
    BY <1>2, <1>5, <2>1, ReachedLeast DEF Entered
<1>7. PICK tree, cut : Pieces(stack, tree, cut) /\ Brought(tree, table \ broken)
  BY <1>3 DEF Search
<1>8. tree = frame.new_root
  <2>1. tree \in Seq(Node) /\ cut[0] = 0 /\ cut[1] = Len(tree) /\ Piece(frame.new_root, tree, cut[0], cut[1])
    <3>1. 1 - 1 = 0
      OBVIOUS
    <3> QED
      BY <1>1, <1>7, <3>1 DEF Pieces
  <2>2. frame.new_root \in Seq(Node)
    BY DEF FrameType
  <2>3. Len(tree) \in Nat /\ Len(frame.new_root) \in Nat
    BY <2>1, <2>2, LenProperties
  <2>4. Len(frame.new_root) = Len(tree) - 0 /\ Len(tree) - 0 = Len(tree)
    BY <2>1, <2>3 DEF Piece
  <2>5. \A j \in 1..Len(frame.new_root) : frame.new_root[j] = tree[j]
    <3> TAKE j \in 1..Len(frame.new_root)
    <3>1. frame.new_root[j] = tree[0 + j] /\ 0 + j = j
      BY <2>1 DEF Piece
    <3> QED
      BY <3>1
  <2> QED
    BY <2>1, <2>2, <2>4, <2>5, SeqEqual
<1> QED
  BY <1>4, <1>6, <1>7, <1>8 DEF Copy

-----------------------------------------------------------------------------
(* The tree a link leaves: what was brought in, then the main program.     *)

LEMMA LeftTree ==
  ASSUME NEW tree \in Seq(Node), NEW root \in Seq(Node), NEW done, Brought(tree, done),
         \A j \in 1..Len(root) : root[j].file = main /\ root[j].at = j
  PROVE  /\ DOMAIN (tree \o root) = 1..(Len(tree) + Len(root))
         /\ Len(tree) \in Nat /\ Len(root) \in Nat
         /\ \A j \in 1..Len(tree) : (tree \o root)[j] = tree[j] /\ tree[j].file \in done
         /\ \A j \in 1..(Len(tree) + Len(root)) : j > Len(tree) =>
              (tree \o root)[j].file = main /\ (tree \o root)[j].at = j - Len(tree)
<1>1. Len(tree) \in Nat /\ Len(root) \in Nat
  BY LenProperties
<1>2. /\ Len(tree \o root) = Len(tree) + Len(root) /\ tree \o root \in Seq(Node)
      /\ \A j \in 1..(Len(tree) + Len(root)) :
           (tree \o root)[j] = IF j <= Len(tree) THEN tree[j] ELSE root[j - Len(tree)]
  BY ConcatProperties
<1>3. DOMAIN (tree \o root) = 1..(Len(tree) + Len(root))
  BY <1>2, LenProperties
<1>4. ASSUME NEW j \in 1..Len(tree)
      PROVE  (tree \o root)[j] = tree[j] /\ tree[j].file \in done
  <2>1. j \in 1..(Len(tree) + Len(root)) /\ j <= Len(tree)
    BY <1>1
  <2> QED
    BY <1>2, <2>1 DEF Brought
<1>5. ASSUME NEW j \in 1..(Len(tree) + Len(root)), j > Len(tree)
      PROVE  (tree \o root)[j].file = main /\ (tree \o root)[j].at = j - Len(tree)
  <2>1. j - Len(tree) \in 1..Len(root) /\ ~ (j <= Len(tree))
    BY <1>1, <1>5
  <2> QED
    BY <1>2, <2>1
<1> QED
  BY <1>1, <1>3, <1>4, <1>5

LEMMA LeftOnce ==
  ASSUME NEW tree \in Seq(Node), NEW root \in Seq(Node), Brought(tree, Reached(main) \ broken),
         \A j \in 1..Len(root) : root[j].file = main /\ root[j].at = j,
         import_ast' = tree \o root, body' = body, broken' = broken, main' = main
  PROVE  LoadedOnce'
<1> DEFINE t == tree \o root
           m == Len(tree)
<1>1. /\ DOMAIN t = 1..(m + Len(root)) /\ m \in Nat /\ Len(root) \in Nat
      /\ \A j \in 1..m : t[j] = tree[j] /\ tree[j].file \in Reached(main) \ broken
      /\ \A j \in 1..(m + Len(root)) : j > m => t[j].file = main /\ t[j].at = j - m
  BY LeftTree
<1> HIDE DEF t, m
<1>2. \A j \in DOMAIN t : j \in 1..m \/ j > m
  BY <1>1
<1>3. ASSUME NEW i \in DOMAIN t, NEW j \in DOMAIN t, i # j,
             t[i].file = t[j].file, t[i].at = t[j].at
      PROVE  (i \in 1..m /\ j > m) \/ (i > m /\ j \in 1..m)
  <2>1. CASE i \in 1..m /\ j \in 1..m
    <3>1. tree[i].file = tree[j].file /\ tree[i].at = tree[j].at
      BY <1>1, <1>3, <2>1
    <3>2. Once(tree)
      BY DEF Brought
    <3> QED
      BY <1>3, <2>1, <3>1, <3>2 DEF Once, m
  <2>2. CASE i > m /\ j > m
    BY <1>1, <1>3, <2>2
  <2> QED
    BY <1>2, <2>1, <2>2
<1>4. ASSUME NEW i \in DOMAIN t, NEW j \in DOMAIN t, i # j,
             t[i].file = t[j].file, t[i].at = t[j].at
      PROVE  /\ t[i].file = main /\ main \in Reached(main)
             /\ \A k \in DOMAIN t \ {i, j} : t[k].file = main => t[k].at # t[i].at
  <2>1. t[i].file = main /\ main \in Reached(main)
    <3>1. CASE i \in 1..m /\ j > m
      <4>1. t[j].file = main /\ t[i].file \in Reached(main)
        BY <1>1, <3>1
      <4> QED
        BY <1>4, <4>1
    <3>2. CASE i > m /\ j \in 1..m
      <4>1. t[i].file = main /\ t[j].file \in Reached(main)
        BY <1>1, <3>2
      <4> QED
        BY <1>4, <4>1
    <3> QED
      BY <1>3, <1>4, <3>1, <3>2
  <2>2. ASSUME NEW k \in DOMAIN t \ {i, j}, t[k].file = main, t[k].at = t[i].at
        PROVE  FALSE
    <3>1. (i \in 1..m /\ j > m) \/ (i > m /\ j \in 1..m)
      BY <1>3, <1>4
    <3>2. (i \in 1..m /\ k > m) \/ (i > m /\ k \in 1..m)
      BY <1>3, <2>1, <2>2
    <3>3. (j \in 1..m /\ k > m) \/ (j > m /\ k \in 1..m)
      BY <1>3, <1>4, <2>1, <2>2
    <3> QED
      BY <1>1, <3>1, <3>2, <3>3
  <2> QED
    BY <2>1, <2>2
<1>5. import_ast' = t
  BY DEF t
<1>6. Reached(main)' = Reached(main)
  BY DEF Reached, Closed, Imports
<1> QED
  BY <1>4, <1>5, <1>6 DEF LoadedOnce

LEMMA LeftComplete ==
  ASSUME body \in [File -> Bodies], main \in File,
         NEW tree \in Seq(Node), NEW root \in Seq(Node), Brought(tree, Reached(main) \ broken),
         \A j \in 1..Len(root) : root[j].file = main /\ root[j].at = j,
         Len(root) = Len(body[main]), error = Cardinality(Reached(main) \cap broken),
         import_ast' = tree \o root, body' = body, broken' = broken, main' = main, error' = error
  PROVE  LinkComplete'
<1> DEFINE t == tree \o root
           m == Len(tree)
<1>1. /\ DOMAIN t = 1..(m + Len(root)) /\ m \in Nat /\ Len(root) \in Nat
      /\ \A j \in 1..m : t[j] = tree[j] /\ tree[j].file \in Reached(main) \ broken
      /\ \A j \in 1..(m + Len(root)) : j > m => t[j].file = main /\ t[j].at = j - m
  BY LeftTree
<1>2. \A j \in DOMAIN t : j \in 1..m \/ j > m
  BY <1>1
<1>3. error = 0 <=> Reached(main) \cap broken = {}
  <2>1. IsFiniteSet(Reached(main) \cap broken)
    <3>1. Reached(main) \cap broken \subseteq File
      BY ReachedFiles
    <3> QED
      BY <3>1, FS_Subset, FileAssumption
  <2> QED
    BY <2>1, FS_EmptySet
<1> HIDE DEF t, m
<1>4. ASSUME error = 0, NEW f \in File
      PROVE  (\E j \in DOMAIN t : t[j].file = f) <=> f \in Reached(main) \cup {main} /\ body[f] # <<>>
  <2>1. ASSUME NEW j \in DOMAIN t, t[j].file = f
        PROVE  f \in Reached(main) \cup {main} /\ body[f] # <<>>
    <3>1. CASE j \in 1..m
      <4>1. tree[j].file = f /\ f \in Reached(main)
        BY <1>1, <2>1, <3>1
      <4>2. tree[j].at \in 1..Len(body[f])
        BY <3>1, <4>1 DEF Brought, m
      <4>3. Len(body[f]) # 0
        BY <4>2
      <4> QED
        BY <4>1, <4>3, BodyNotEmpty
    <3>2. CASE j > m
      <4>1. f = main /\ Len(body[f]) # 0
        BY <1>1, <2>1, <3>2
      <4> QED
        BY <4>1, BodyNotEmpty
    <3> QED
      BY <1>2, <3>1, <3>2
  <2>2. ASSUME f \in Reached(main), body[f] # <<>>
        PROVE  \E j \in DOMAIN t : t[j].file = f
    <3>1. f \in Reached(main) \ broken
      BY <1>3, <1>4, <2>2
    <3>2. PICK j \in 1..m : tree[j].file = f
      BY <2>2, <3>1 DEF Brought, m
    <3>3. j \in DOMAIN t
      BY <1>1
    <3> QED
      BY <1>1, <3>2, <3>3
  <2>3. ASSUME f = main, body[f] # <<>>
        PROVE  \E j \in DOMAIN t : t[j].file = f
    <3>1. Len(root) # 0
      BY <2>3, BodyNotEmpty
    <3>2. m + 1 \in DOMAIN t /\ m + 1 > m
      BY <1>1, <3>1
    <3> QED
      BY <1>1, <2>3, <3>2
  <2> QED
    BY <2>1, <2>2, <2>3
<1>5. import_ast' = t
  BY DEF t
<1>6. Reached(main)' = Reached(main)
  BY DEF Reached, Closed, Imports
<1>7. ASSUME NEW f \in File
      PROVE  From(f)' # {} <=> \E j \in DOMAIN t : t[j].file = f
  BY <1>5 DEF From
<1> QED
  BY <1>3, <1>4, <1>6, <1>7 DEF LinkComplete

LEMMA LeftInOrder ==
  ASSUME NEW tree \in Seq(Node), NEW root \in Seq(Node), Brought(tree, Reached(main) \ broken),
         \A j \in 1..Len(root) : root[j].file = main /\ root[j].at = j,
         import_ast' = tree \o root, body' = body, broken' = broken, main' = main
  PROVE  ImportsFirst'
<1> DEFINE t == tree \o root
           m == Len(tree)
<1>1. /\ DOMAIN t = 1..(m + Len(root)) /\ m \in Nat /\ Len(root) \in Nat
      /\ \A j \in 1..m : t[j] = tree[j] /\ tree[j].file \in Reached(main) \ broken
      /\ \A j \in 1..(m + Len(root)) : j > m => t[j].file = main /\ t[j].at = j - m
  BY LeftTree
<1>2. \A j \in DOMAIN t : j \in 1..m \/ j > m
  BY <1>1
<1> HIDE DEF t, m
<1>3. ASSUME NEW f \in File, NEW g \in File, g \in Imports(f), f \notin Reached(g),
             main \notin Reached(main),
             NEW i \in DOMAIN t, NEW j \in DOMAIN t, t[i].file = f, t[j].file = g
      PROVE  j < i
  <2>1. CASE i \in 1..m /\ j \in 1..m
    BY <1>1, <1>3, <2>1 DEF Brought, InOrder, m
  <2>2. CASE i \in 1..m /\ j > m
    <3>1. f \in Reached(main) \ broken /\ g = main
      BY <1>1, <1>3, <2>2
    <3> QED
      BY <1>3, <3>1, ReachedFiles DEF Closed
  <2>3. CASE i > m /\ j \in 1..m
    BY <1>1, <2>3
  <2>4. CASE i > m /\ j > m
    <3>1. f = main /\ g = main
      BY <1>1, <1>3, <2>4
    <3> QED
      BY <1>3, <3>1, ReachedFiles
  <2> QED
    BY <1>2, <2>1, <2>2, <2>3, <2>4
<1>4. import_ast' = t
  BY DEF t
<1>5. ASSUME NEW f
      PROVE  Reached(f)' = Reached(f) /\ Imports(f)' = Imports(f)
  BY DEF Reached, Closed, Imports
<1> QED
  BY <1>3, <1>4, <1>5 DEF ImportsFirst, From

-----------------------------------------------------------------------------
(* The invariant holds at first, and every step keeps it.                  *)

LEMMA NothingLeft ==
  ASSUME import_ast = <<>>
  PROVE  LoadedOnce
<1>1. DOMAIN import_ast = {}
  BY EmptySeq, LenProperties
<1> QED
  BY <1>1 DEF LoadedOnce

LEMMA InitSInv == Init => SInv
<1> SUFFICES ASSUME Init PROVE SInv
  OBVIOUS
<1>1. ~ Linked /\ calls = <<>> /\ import_ast = <<>>
  BY DEF Init, Linked
<1> QED
  BY <1>1, NothingLeft DEF SInv, LinkComplete, ImportsFirst

(* Within a link the disk and the main program stay.                       *)
LEMMA SearchLater ==
  ASSUME body' = body, broken' = broken, main' = main, Search(calls', Listed')
  PROVE  Search(calls, Listed)'
<1>1. ASSUME NEW f
      PROVE  Reached(f)' = Reached(f) /\ Imports(f)' = Imports(f)
  BY DEF Reached, Closed, Imports
<1>2. Done(calls, Listed)' = Done(calls', Listed')
  BY DEF Done, Underway
<1>3. Chain(calls, Listed)'
  BY <1>1 DEF Search, Chain, Copy, Unread, Read, Ahead
<1>4. Entered(calls, Listed)'
  BY <1>1, <1>2 DEF Search, Entered
<1>5. PICK tree, cut : Pieces(calls', tree, cut) /\ Brought(tree, Done(calls', Listed'))
  BY DEF Search
<1>6. Brought(tree, Done(calls, Listed))'
  BY <1>1, <1>2, <1>5 DEF Brought, Once, InOrder
<1>7. Pieces(calls, tree, cut)'
  BY <1>5 DEF Pieces, Piece
<1> QED
  BY <1>3, <1>4, <1>6, <1>7 DEF Search

LEMMA GoesOn ==
  ASSUME SInv, calls # <<>>, calls' # <<>>, import_ast' = import_ast,
         body' = body, broken' = broken, main' = main, Search(calls', Listed')
  PROVE  SInv'
<1>1. import_ast' = <<>>
  BY DEF SInv
<1>2. Search(calls, Listed)'
  BY SearchLater
<1>3. LoadedOnce'
  <2>1. DOMAIN import_ast' = {}
    BY <1>1, EmptySeq, LenProperties
  <2> QED
    BY <2>1 DEF LoadedOnce
<1>4. ~ Linked'
  BY DEF Linked
<1> QED
  BY <1>1, <1>2, <1>3, <1>4 DEF SInv, LinkComplete, ImportsFirst

LEMMA LinkSInv ==
  ASSUME IInv, NEW f \in File, Link(f)
  PROVE  SInv'
<1>1. /\ calls' = <<Frame(f)>> /\ filename_table' = <<>> /\ import_ast' = <<>>
      /\ main' = f /\ body' = body /\ broken' = broken /\ f \notin broken
  BY DEF Link, disk
<1>2. Listed' = {}
  BY <1>1 DEF Listed
<1>3. Len(calls') = 1 /\ calls'[1] = Frame(f) /\ calls' # <<>>
  BY <1>1
<1>4. /\ Copy(Frame(f)) /\ Unread(Frame(f), 1)
      /\ Frame(f).file = f /\ Frame(f).i = 1 /\ Frame(f).new_root = <<>>
  BY FrameCopy DEF IInv
<1>5. Chain(calls, Listed)'
  <2>1. /\ \A k \in 1..1 : k = 1
        /\ Ahead(calls, 1)' = 1
    BY <1>3, <1>4 DEF Ahead
  <2>2. Copy(calls[1])' /\ Unread(calls[1], 1)' /\ Read(calls[1], 1, Listed)'
    BY <1>1, <1>3, <1>4 DEF Copy, Unread, Read
  <2>3. \A k, l \in 1..1 : ~ (k < l)
    OBVIOUS
  <2> QED
    BY <1>1, <1>3, <1>4, <2>1, <2>2, <2>3 DEF Chain
<1>6. Entered(calls, Listed)' /\ Done(calls, Listed)' = {}
  BY <1>2 DEF Entered, Done
<1>7. (\E tree, cut : Pieces(calls, tree, cut) /\ Brought(tree, Done(calls, Listed)))'
  <2> DEFINE cut == [k \in 0..1 |-> 0]
  <2>1. <<>> \in Seq(Node) /\ Len(<<>>) = 0
    BY EmptySeq
  <2>2. cut \in [0..1 -> 0..0] /\ cut[0] = 0 /\ cut[1] = 0
    OBVIOUS
  <2> HIDE DEF cut
  <2>3. \A k \in 1..1 : k = 1 /\ k - 1 = 0
    OBVIOUS
  <2>4. Piece(<<>>, <<>>, 0, 0)'
    BY <2>1 DEF Piece
  <2>5. Pieces(calls, <<>>, cut)'
    BY <1>3, <1>4, <2>1, <2>2, <2>3, <2>4 DEF Pieces
  <2>6. Brought(<<>>, {})'
    BY <2>1 DEF Brought, Once, InOrder
  <2> QED
    BY <1>6, <2>5, <2>6
<1>8. LoadedOnce'
  <2>1. DOMAIN import_ast' = {}
    BY <1>1, EmptySeq, LenProperties
  <2> QED
    BY <2>1 DEF LoadedOnce
<1>9. ~ Linked'
  BY <1>3 DEF Linked
<1> QED
  BY <1>1, <1>5, <1>6, <1>7, <1>8, <1>9 DEF SInv, Search, LinkComplete, ImportsFirst

(* A statement is passed over.                                             *)
LEMMA PassedSInv ==
  ASSUME IInv, SInv, InLoop, NEW frame \in FrameType,
         calls' = [calls EXCEPT ![Len(calls)] = frame],
         frame.file = Top.file, frame.i = Top.i + 1, frame.new_root = Top.new_root,
         Copy(frame), Unread(frame, Top.i + 1),
         Listed \subseteq Listed', Listed' \ Listed \subseteq broken,
         Listed' \subseteq Reached(main), Current \in Listed' \cup {Plain},
         UNCHANGED <<disk, main, import_ast>>
  PROVE  SInv'
<1> DEFINE n == Len(calls)
<1>1. /\ Good(Top) /\ Top = calls[n] /\ n \in Nat \ {0} /\ calls \in Seq(FrameType) /\ n \in 1..n
  BY TopGood DEF InLoop, IInv, Stack
<1>2. Search(calls, Listed) /\ calls # <<>>
  BY DEF SInv, InLoop
<1>3. /\ calls' \in Seq(FrameType) /\ Len(calls') = n
      /\ \A k \in 1..n : calls'[k] = IF k = n THEN frame ELSE calls[k]
  BY <1>1, ExceptSeq
<1>4. (\A k \in 1..(n - 1) : calls'[k] = calls[k]) /\ calls'[n] = frame
  <2>1. \A k \in 1..(n - 1) : k \in 1..n /\ k # n
    BY <1>1
  <2> QED
    BY <1>1, <1>3, <2>1
<1>5. Current = body[Top.file][Top.i] /\ Top.i \in Nat
  BY <1>1, <1>2, CurrentIs DEF Search, Good
<1>6. calls' # <<>>
  BY <1>1, <1>3, NotEmpty
<1>7. Search(calls', Listed')
  <2> SUFFICES ASSUME NEW moved, moved = calls', NEW entered, entered = Listed'
               PROVE  Search(moved, entered)
    OBVIOUS
  <2> HIDE DEF n
  <2> QED
    BY <1>1, <1>2, <1>3, <1>4, <1>5, SearchMoves, ZenonT(30) DEF n
<1> QED
  BY <1>2, <1>6, <1>7, GoesOn DEF disk

LEMMA LoadOtherSInv ==
  ASSUME IInv, SInv, LoadOther
  PROVE  SInv'
<1> DEFINE frame == Advanced(Top)
<1>1. /\ InLoop /\ Current \notin File /\ calls' = [calls EXCEPT ![Len(calls)] = frame]
      /\ UNCHANGED <<disk, main, import_ast>> /\ Listed' = Listed
  BY DEF LoadOther, Top, Listed
<1>2. Chain(calls, Listed) /\ Listed \subseteq Reached(main)
  BY <1>1 DEF SInv, InLoop, Search, Entered
<1>3. Good(Top) /\ Copy(Top) /\ Unread(Top, Top.i) /\ Current \in File \cup {Plain}
  BY <1>1, <1>2, CurrentIs
<1>4. Waiting(Top)
  BY <1>1 DEF InLoop, Current, Waiting
<1>5. /\ frame \in FrameType /\ frame.file = Top.file /\ frame.root = Top.root
      /\ frame.i = Top.i + 1 /\ frame.new_root = Top.new_root
  BY <1>3, <1>4, AdvancedGood, AdvancedFields DEF Good
<1> HIDE DEF frame
<1>6. Copy(frame) /\ Unread(frame, Top.i + 1)
  <2>1. \A j \in (Top.i + 1)..Len(Top.root) : j \in Top.i..Len(Top.root)
    BY <1>3 DEF Good
  <2> QED
    BY <1>3, <1>5, <2>1 DEF Copy, Unread
<1> QED
  BY <1>1, <1>2, <1>3, <1>5, <1>6, PassedSInv

(* The call goes on behind an import that was cleared.                     *)
LEMMA PassedImport ==
  ASSUME IInv, SInv, check_import
  PROVE  LET frame == Advanced(Nulled(Top))
         IN /\ frame \in FrameType /\ frame.file = Top.file
            /\ frame.i = Top.i + 1 /\ frame.new_root = Top.new_root
            /\ Copy(frame) /\ Unread(frame, Top.i + 1)
<1> DEFINE frame == Advanced(Nulled(Top))
<1>1. Chain(calls, Listed) /\ InLoop
  BY DEF SInv, Search, check_import, InLoop
<1>2. Good(Top) /\ Top.i <= Len(Top.root) /\ Copy(Top) /\ Unread(Top, Top.i)
  BY <1>1, CurrentIs DEF InLoop
<1>3. /\ Copy(Nulled(Top)) /\ Unread(Nulled(Top), Top.i + 1)
      /\ Nulled(Top).file = Top.file /\ Nulled(Top).i = Top.i
      /\ Nulled(Top).new_root = Top.new_root
  BY <1>2, NulledCopy
<1>4. Nulled(Top) \in FrameType /\ frame \in FrameType
  BY <1>1, <1>2, NulledGood, Passed DEF Good
<1>5. /\ frame.file = Top.file /\ frame.root = Nulled(Top).root
      /\ frame.i = Top.i + 1 /\ frame.new_root = Top.new_root
  BY <1>3, <1>4, AdvancedFields
<1>6. Copy(frame) /\ Unread(frame, Top.i + 1)
  BY <1>3, <1>5 DEF Copy, Unread
<1> QED
  BY <1>4, <1>5, <1>6

LEMMA ImportAgainSInv ==
  ASSUME IInv, SInv, ImportAgain
  PROVE  SInv'
<1> DEFINE frame == Advanced(Nulled(Top))
<1>1. /\ check_import /\ InLoop /\ calls' = [calls EXCEPT ![Len(calls)] = frame]
      /\ UNCHANGED <<disk, main, import_ast>> /\ Listed' = Listed
      /\ Current \in Listed
  BY ExistIsListed DEF ImportAgain, check_import, Top, Listed, IInv
<1>2. Listed \subseteq Reached(main)
  BY <1>1 DEF SInv, InLoop, Search, Entered
<1>3. /\ frame \in FrameType /\ frame.file = Top.file
      /\ frame.i = Top.i + 1 /\ frame.new_root = Top.new_root
      /\ Copy(frame) /\ Unread(frame, Top.i + 1)
  BY <1>1, PassedImport
<1> HIDE DEF frame
<1> QED
  BY <1>1, <1>2, <1>3, PassedSInv

LEMMA ImportBrokenSInv ==
  ASSUME IInv, SInv, ImportBroken
  PROVE  SInv'
<1> DEFINE frame == Advanced(Nulled(Top))
<1>1. /\ check_import /\ InLoop /\ calls' = [calls EXCEPT ![Len(calls)] = frame]
      /\ UNCHANGED <<disk, main, import_ast>> /\ Current \in File \cap broken
      /\ filename_table' = Append(filename_table, Current)
  BY DEF ImportBroken, check_import, Top
<1>2. Listed' = Listed \cup {Current}
  BY <1>1, ListedAppend DEF IInv
<1>3. Chain(calls, Listed) /\ Listed \subseteq Reached(main)
  BY <1>1 DEF SInv, InLoop, Search, Entered
<1>4. Current \in Reached(main)
  <2>1. Current \in Imports(Top.file) /\ Len(calls) \in Nat \ {0}
    BY <1>1, <1>3, CurrentIs, TopGood DEF InLoop
  <2> QED
    BY <1>3, <2>1, ImportsReached DEF Top
<1>5. /\ frame \in FrameType /\ frame.file = Top.file
      /\ frame.i = Top.i + 1 /\ frame.new_root = Top.new_root
      /\ Copy(frame) /\ Unread(frame, Top.i + 1)
  BY <1>1, PassedImport
<1> HIDE DEF frame
<1>6. /\ Listed \subseteq Listed' /\ Listed' \ Listed \subseteq broken
      /\ Listed' \subseteq Reached(main) /\ Current \in Listed' \cup {Plain}
  BY <1>1, <1>2, <1>3, <1>4
<1> QED
  BY <1>1, <1>5, <1>6, PassedSInv

LEMMA ImportFileSInv ==
  ASSUME IInv, SInv, ImportFile
  PROVE  SInv'
<1> DEFINE n == Len(calls)
           h == Current
           paused == [calls EXCEPT ![n] = Nulled(Top)]
           pushed == paused \o <<Frame(h)>>
<1>1. /\ check_import /\ InLoop /\ calls # <<>> /\ calls' = pushed
      /\ UNCHANGED <<disk, main, import_ast>>
      /\ h \in File /\ h \notin broken /\ h \notin Listed
      /\ filename_table' = Append(filename_table, h)
  BY ExistIsListed DEF ImportFile, check_import, InLoop, Top, IInv
<1>2. Listed' = Listed \cup {h}
  BY <1>1, ListedAppend DEF IInv
<1>3. Search(calls, Listed) /\ Chain(calls, Listed)
  BY <1>1 DEF SInv, InLoop, Search
<1>4. /\ Good(Top) /\ Copy(Top) /\ Unread(Top, Top.i) /\ h \in Imports(Top.file)
      /\ h = body[Top.file][Top.i] /\ Top.i <= Len(Top.root) /\ Top.i \in Nat
  BY <1>1, <1>3, CurrentIs DEF InLoop, Good
<1>5. calls \in Seq(FrameType) /\ n \in Nat \ {0} /\ n \in 1..n /\ Top = calls[n] /\ n = Len(calls)
  BY <1>1, TopGood DEF IInv, Stack
<1>6. /\ Copy(Nulled(Top)) /\ Unread(Nulled(Top), Top.i + 1)
      /\ Nulled(Top).file = Top.file /\ Nulled(Top).i = Top.i
      /\ Nulled(Top).new_root = Top.new_root /\ Nulled(Top) \in FrameType
  BY <1>4, NulledCopy, NulledGood DEF Good
<1>7. /\ paused \in Seq(FrameType) /\ Len(paused) = n
      /\ \A k \in 1..n : paused[k] = IF k = n THEN Nulled(Top) ELSE calls[k]
  BY <1>5, <1>6, ExceptSeq
<1>8. /\ Copy(Frame(h)) /\ Unread(Frame(h), 1) /\ Frame(h) \in FrameType
      /\ Frame(h).file = h /\ Frame(h).i = 1 /\ Frame(h).new_root = <<>>
  BY <1>1, FrameCopy, FrameGood DEF IInv, Good
<1> HIDE DEF paused, n, h
<1>9. Len(pushed) = n + 1 /\ pushed[n + 1] = Frame(h) /\ \A k \in 1..n : pushed[k] = paused[k]
  <2>1. paused \in Seq(FrameType) /\ Len(paused) = n /\ Frame(h) \in FrameType
    BY <1>7, <1>8
  <2> QED
    BY <2>1, OneMore
<1> HIDE DEF pushed
<1>10. (\A k \in 1..(n - 1) : pushed[k] = calls[k]) /\ pushed[n] = Nulled(Top)
  <2>1. \A k \in 1..(n - 1) : k \in 1..n /\ k # n
    BY <1>5
  <2> QED
    BY <1>5, <1>7, <1>9, <2>1
<1>11. Search(pushed, Listed \cup {h})
  <2>1. /\ n \in Nat \ {0} /\ n = Len(calls) /\ h \in Imports(calls[n].file)
        /\ h \notin broken /\ h \notin Listed
        /\ calls[n].i \in Nat /\ body[calls[n].file][calls[n].i] = h
    BY <1>1, <1>4, <1>5
  <2>2. /\ Len(pushed) = n + 1 /\ \A k \in 1..(n - 1) : pushed[k] = calls[k]
        /\ pushed[n].file = calls[n].file /\ pushed[n].new_root = calls[n].new_root
        /\ pushed[n].i = calls[n].i /\ Copy(pushed[n]) /\ Unread(pushed[n], calls[n].i + 1)
    BY <1>5, <1>6, <1>9, <1>10
  <2>3. /\ pushed[n + 1].file = h /\ pushed[n + 1].new_root = <<>> /\ pushed[n + 1].i = 1
        /\ Copy(pushed[n + 1]) /\ Unread(pushed[n + 1], 1)
    BY <1>8, <1>9
  <2> QED
    BY <1>3, <2>1, <2>2, <2>3, SearchPush
<1>12. pushed # <<>>
  <2>1. Len(pushed) # 0
    BY <1>5, <1>9
  <2> QED
    BY <2>1, NotEmpty
<1> QED
  BY <1>1, <1>2, <1>11, <1>12, GoesOn DEF disk

(* The stack when a call returns to the one before it.                     *)
LEMMA Popped ==
  ASSUME IInv, LoadReturn, NEW n \in Nat, n > 1, n = Len(calls)
  PROVE  /\ Len(calls') = n - 1 /\ calls' # <<>> /\ import_ast' = import_ast
         /\ \A k \in 1..(n - 2) : calls'[k] = calls[k]
         /\ calls'[n - 1].file = calls[n - 1].file
         /\ calls'[n - 1].root = calls[n - 1].root
         /\ calls'[n - 1].i = calls[n - 1].i + 1
         /\ calls'[n - 1].new_root = calls[n - 1].new_root \o (calls[n].new_root \o calls[n].root)
<1> DEFINE outer == SubSeq(calls, 1, n - 1)
           tree == calls[n].new_root \o calls[n].root
           last == [outer[n - 1] EXCEPT !.new_root = @ \o tree, !.i = @ + 1]
<1>1. calls \in Seq(FrameType) /\ n - 1 \in 1..(n - 1) /\ n - 1 \in 1..n
  BY DEF IInv, Stack
<1>2. /\ calls' = [outer EXCEPT ![n - 1].new_root = @ \o tree, ![n - 1].i = @ + 1]
      /\ import_ast' = import_ast
  <2>1. n # 1
    OBVIOUS
  <2> QED
    BY <2>1 DEF LoadReturn, Top, Loaded
<1>3. /\ outer \in Seq(FrameType) /\ Len(outer) = n - 1
      /\ \A k \in 1..(n - 1) : outer[k] = calls[k]
  <2>1. \A k \in 1..(n - 1) : calls[k] \in FrameType
    BY <1>1, ElementOfSeq
  <2> QED
    BY <1>1, <2>1, SubSeqProperties
<1>4. outer[n - 1] = calls[n - 1] /\ calls[n - 1] \in FrameType
  BY <1>1, <1>3, ElementOfSeq
<1> HIDE DEF outer, tree
<1>5. outer[n - 1] \in FrameType
  BY <1>4
<1>6. /\ last.file = calls[n - 1].file /\ last.root = calls[n - 1].root
      /\ last.i = calls[n - 1].i + 1 /\ last.new_root = calls[n - 1].new_root \o tree
  <2>1. /\ last.file = outer[n - 1].file /\ last.root = outer[n - 1].root
        /\ last.i = outer[n - 1].i + 1 /\ last.new_root = outer[n - 1].new_root \o tree
    <3>1. PICK frame, u, m, changed :
            /\ changed = last
            /\ frame = outer[n - 1] /\ u = frame.new_root \o tree /\ m = frame.i + 1
            /\ changed = [frame EXCEPT !.new_root = u, !.i = m]
      OBVIOUS
    <3> HIDE DEF last
    <3>2. frame \in FrameType
      BY <1>5, <3>1
    <3>3. changed = [frame EXCEPT !.new_root = u, !.i = m]
      BY <3>1
    <3>4. /\ changed.file = frame.file /\ changed.root = frame.root
          /\ changed.i = m /\ changed.new_root = u
      BY <3>2, <3>3 DEF FrameType
    <3> QED
      BY <3>1, <3>4
  <2> QED
    BY <1>4, <2>1
<1>7. calls' = [outer EXCEPT ![n - 1] = last]
  <2>1. n - 1 \in DOMAIN outer /\ outer[n - 1] \in FrameType
    BY <1>1, <1>3, <1>4, LenProperties
  <2> QED
    BY <1>2, <2>1 DEF FrameType
<1> HIDE DEF last
<1>8. DOMAIN outer = 1..(n - 1)
  BY <1>3, LenProperties
<1>9. DOMAIN calls' = 1..(n - 1)
  BY <1>7, <1>8
<1>10. Len(calls') = n - 1
  <2>1. calls' \in Seq(FrameType)
    BY NextIInv DEF Next, Load, IInv, Stack
  <2>2. Len(calls') \in Nat /\ DOMAIN calls' = 1..Len(calls')
    BY <2>1, LenProperties
  <2> QED
    BY <1>9, <2>2
<1>11. calls'[n - 1] = last /\ \A k \in 1..(n - 2) : calls'[k] = calls[k]
  <2>1. \A k \in 1..(n - 2) : k \in 1..(n - 1) /\ k # n - 1
    OBVIOUS
  <2> QED
    BY <1>1, <1>3, <1>7, <1>8, <2>1
<1>12. calls' # <<>>
  <2>1. Len(calls') # 0
    BY <1>10
  <2> QED
    BY <2>1, NotEmpty
<1> QED
  BY <1>2, <1>6, <1>10, <1>11, <1>12 DEF tree

LEMMA LoadReturnSInv ==
  ASSUME IInv, SInv, LoadReturn
  PROVE  SInv'
<1> DEFINE n == Len(calls)
<1>1. /\ calls # <<>> /\ Top.i > Len(Top.root)
      /\ body' = body /\ broken' = broken /\ main' = main /\ error' = error
      /\ filename_table' = filename_table
  BY DEF LoadReturn, disk
<1>2. Good(Top) /\ n \in Nat \ {0} /\ n \in 1..n /\ calls \in Seq(FrameType) /\ Top = calls[n]
  BY <1>1, TopGood DEF IInv, Stack
<1>3. Search(calls, Listed) /\ Chain(calls, Listed) /\ Listed' = Listed /\ Listed \subseteq File
  BY <1>1, ListedFinite DEF SInv, Search, Listed, IInv
<1>4. /\ Top \in FrameType /\ Top.i = Len(Top.root) + 1
      /\ Top.root \in Seq(Node) /\ Top.new_root \in Seq(Node)
  <2>1. Top.i \in 1..(Len(Top.root) + 1) /\ Len(Top.root) \in Nat
    BY <1>2, LenProperties DEF Good, FrameType
  <2> QED
    BY <1>1, <1>2, <2>1 DEF Good, FrameType
<1>5. CASE n = 1
  <2>1. import_ast' = Top.new_root \o Top.root /\ calls' = <<>>
    BY <1>5 DEF LoadReturn, Loaded
  <2>2. main \in File
    BY <1>2, <1>3, <1>5 DEF Chain, Good, FrameType
  <2>3. /\ Listed = Reached(main) /\ Brought(Top.new_root, Listed \ broken)
        /\ Len(Top.root) = Len(body[main])
        /\ \A j \in 1..Len(Top.root) : Top.root[j].file = main /\ Top.root[j].at = j
    <3>1. Len(calls) = 1 /\ calls[1] = Top
      BY <1>2, <1>5
    <3>2. body \in [File -> Bodies]
      BY DEF IInv
    <3> QED
      BY <1>3, <1>4, <2>2, <3>1, <3>2, SearchLast
  <2>4. LoadedOnce'
    BY <1>1, <1>4, <2>1, <2>3, LeftOnce
  <2>5. LinkComplete'
    BY <1>1, <1>4, <2>1, <2>2, <2>3, LeftComplete DEF IInv
  <2>6. ImportsFirst'
    BY <1>1, <1>4, <2>1, <2>3, LeftInOrder
  <2>7. Reached(main)' = Reached(main)
    BY <1>1 DEF Reached, Closed, Imports
  <2> QED
    BY <1>3, <2>1, <2>3, <2>4, <2>5, <2>6, <2>7 DEF SInv
<1>6. CASE n # 1
  <2>1. n \in Nat /\ n > 1 /\ n = Len(calls)
    <3>1. \A m \in Nat \ {0} : m # 1 => m \in Nat /\ m > 1
      OBVIOUS
    <3> QED
      BY <1>2, <1>6, <3>1, Zenon
  <2> HIDE DEF n
  <2>2. /\ Len(calls') = n - 1 /\ calls' # <<>> /\ import_ast' = import_ast
        /\ \A k \in 1..(n - 2) : calls'[k] = calls[k]
        /\ calls'[n - 1].file = calls[n - 1].file
        /\ calls'[n - 1].root = calls[n - 1].root
        /\ calls'[n - 1].i = calls[n - 1].i + 1
        /\ calls'[n - 1].new_root = calls[n - 1].new_root \o (calls[n].new_root \o calls[n].root)
    BY <2>1, Popped
  <2>3. /\ calls[n].file \in File /\ calls[n].file \in Listed
        /\ \A k \in 2..(n - 1) : calls[k].file # calls[n].file
    <3>1. n \in 2..n /\ \A k \in 2..(n - 1) : k \in 2..n /\ k < n
      BY <2>1
    <3> QED
      BY <1>2, <2>1, <3>1 DEF IInv, Stack, Good, FrameType
  <2>4. \A k \in 1..n : calls[k].new_root \in Seq(Node)
    <3>1. \A k \in 1..n : calls[k] \in FrameType
      BY <1>2, <2>1, ElementOfSeq
    <3> QED
      BY <3>1 DEF FrameType
  <2>5. Search(calls', Listed)
    <3> SUFFICES ASSUME NEW popped, popped = calls'
                 PROVE  Search(popped, Listed)
      OBVIOUS
    <3>1. /\ calls[n].root \in Seq(Node) /\ calls[n].i = Len(calls[n].root) + 1
          /\ Search(calls, Listed) /\ body \in [File -> Bodies]
      BY <1>2, <1>3, <1>4 DEF IInv
    <3> QED
      BY <2>1, <2>2, <2>3, <2>4, <3>1, SearchPop
  <2> QED
    BY <1>1, <1>3, <2>2, <2>5, GoesOn
<1> QED
  BY <1>5, <1>6

LEMMA NextSInv == IInv /\ SInv /\ [Next]_vars => SInv'
<1> SUFFICES ASSUME IInv, SInv, [Next]_vars PROVE SInv'
  OBVIOUS
<1>1. CASE \E f \in File : Link(f)
  BY <1>1, LinkSInv
<1>2. CASE LoadOther
  BY <1>2, LoadOtherSInv
<1>3. CASE ImportAgain
  BY <1>3, ImportAgainSInv
<1>4. CASE ImportBroken
  BY <1>4, ImportBrokenSInv
<1>5. CASE ImportFile
  BY <1>5, ImportFileSInv
<1>6. CASE LoadReturn
  BY <1>6, LoadReturnSInv
<1>7. CASE UNCHANGED vars
  <2>1. /\ body' = body /\ broken' = broken /\ main' = main /\ error' = error
        /\ filename_table' = filename_table /\ calls' = calls /\ import_ast' = import_ast
        /\ Listed' = Listed
    BY <1>7 DEF vars, Listed
  <2>2. CASE calls # <<>>
    BY <2>1, <2>2, GoesOn DEF SInv
  <2>3. CASE calls = <<>>
    <3>1. ASSUME NEW f
          PROVE  Reached(f)' = Reached(f) /\ Imports(f)' = Imports(f) /\ From(f)' = From(f)
      BY <2>1 DEF Reached, Closed, Imports, From
    <3>2. Linked' <=> Linked
      BY <2>1 DEF Linked
    <3>3. LoadedOnce'
      BY <2>1, <3>1 DEF SInv, LoadedOnce
    <3>4. LinkComplete'
      BY <2>1, <3>1, <3>2 DEF SInv, LinkComplete
    <3>5. ImportsFirst'
      BY <2>1, <3>1, <3>2 DEF SInv, ImportsFirst
    <3> QED
      BY <2>1, <2>3, <3>1, <3>2, <3>3, <3>4, <3>5 DEF SInv
  <2> QED
    BY <2>2, <2>3
<1> QED
  BY <1>1, <1>2, <1>3, <1>4, <1>5, <1>6, <1>7 DEF Next, Load

LEMMA SearchHolds == Spec => []SInv
<1>1. Init => IInv /\ SInv
  BY InitIInv, InitSInv
<1>2. (IInv /\ SInv) /\ [Next]_vars => (IInv /\ SInv)'
  BY NextIInv, NextSInv
<1> QED
  BY <1>1, <1>2, PTL DEF Spec

-----------------------------------------------------------------------------
(* What the invariant gives.                                               *)

(* However many import chains lead to a file, its statements are linked    *)
(* once; those of the main program at most twice, and twice only if a      *)
(* chain leads back to it: filename_table does what it is there for.       *)
THEOREM EachFileOnce == Spec => []LoadedOnce
<1>1. SInv => LoadedOnce
  BY DEF SInv
<1> QED
  BY <1>1, SearchHolds, PTL

(* The link reports an error exactly if a chain leads to a file that       *)
(* cannot be read, and otherwise leaves the statements of all files        *)
(* reached and of no other: neither the early return for a file met before *)
(* nor the order in which load and file_import call each other loses one.  *)
THEOREM AllLinked == Spec => []LinkComplete
<1>1. SInv => LinkComplete
  BY DEF SInv
<1> QED
  BY <1>1, SearchHolds, PTL

(* What a file imports is executed before the file's own statements,       *)
(* whatever was linked before it, unless the two import each other.        *)
THEOREM ImportedBefore == Spec => []ImportsFirst
<1>1. SInv => ImportsFirst
  BY DEF SInv
<1> QED
  BY <1>1, SearchHolds, PTL
-----------------------------------------------------------------------------
(* Why a link ends.                                                        *)

LEMMA LessFirst ==
  ASSUME NEW a, NEW b, NEW c, NEW d, NEW e, NEW f, a < d
  PROVE  Less(<<a, b, c>>, <<d, e, f>>)
<1>1. 1 \in 1..3 /\ \A j \in 1..(1 - 1) : FALSE
  OBVIOUS
<1> QED
  BY <1>1 DEF Less

LEMMA LessSecond ==
  ASSUME NEW a, NEW b, NEW c, NEW e, NEW f, b < e
  PROVE  Less(<<a, b, c>>, <<a, e, f>>)
<1>1. 2 \in 1..3 /\ \A j \in 1..(2 - 1) : j = 1
  OBVIOUS
<1> QED
  BY <1>1 DEF Less

LEMMA LessThird ==
  ASSUME NEW a, NEW b, NEW c, NEW f, c < f
  PROVE  Less(<<a, b, c>>, <<a, b, f>>)
<1>1. 3 \in 1..3 /\ \A j \in 1..(3 - 1) : j = 1 \/ j = 2
  OBVIOUS
<1> QED
  BY <1>1 DEF Less

LEMMA LeftIs ==
  ASSUME filename_table \in Seq(File)
  PROVE  {f \in File : ~ check_exist(f)} = File \ Listed
BY ExistIsListed

(* A file is entered.                                                      *)
LEMMA LeftFewer ==
  ASSUME IInv, NEW f \in File \ Listed, filename_table' = Append(filename_table, f)
  PROVE  Less(Left', Left)
<1> DEFINE unlisted == {g \in File : ~ check_exist(g)}
<1>1. filename_table' \in Seq(File) /\ Listed' = Listed \cup {f}
  BY ListedAppend DEF IInv
<1>2. unlisted = File \ Listed
  BY LeftIs DEF IInv
<1>3. unlisted' = File \ Listed'
  BY <1>1, ExistIsListed DEF check_exist, Listed
<1>4. Cardinality(unlisted') < Cardinality(unlisted)
  <2>1. unlisted' \subseteq unlisted /\ unlisted' # unlisted
    BY <1>1, <1>2, <1>3
  <2>2. IsFiniteSet(unlisted) /\ IsFiniteSet(unlisted')
    BY <1>2, <1>3, FS_Subset, FileAssumption
  <2> HIDE DEF unlisted
  <2>3. /\ Cardinality(unlisted') <= Cardinality(unlisted)
        /\ Cardinality(unlisted') # Cardinality(unlisted)
    BY <2>1, <2>2, FS_Subset
  <2>4. Cardinality(unlisted) \in Nat /\ Cardinality(unlisted') \in Nat
    BY <2>2, FS_CardinalityType
  <2> QED
    BY <2>3, <2>4
<1> QED
  BY <1>4, LessFirst DEF Left

(* The innermost call goes on behind a statement.                          *)
LEMMA LeftNearer ==
  ASSUME IInv, InLoop, filename_table' = filename_table,
         NEW frame \in FrameType, calls' = [calls EXCEPT ![Len(calls)] = frame],
         frame.i = Top.i + 1, Len(frame.root) = Len(Top.root)
  PROVE  Less(Left', Left)
<1> DEFINE n == Len(calls)
           count == Cardinality({f \in File : ~ check_exist(f)})
<1>1. /\ Good(Top) /\ Top = calls[n] /\ n \in Nat \ {0} /\ calls \in Seq(FrameType)
      /\ n \in 1..n /\ calls # <<>>
  BY TopGood DEF InLoop, IInv, Stack
<1>2. Len(calls') = n /\ calls'[n] = frame
  BY <1>1, ExceptSeq
<1>3. calls' # <<>> /\ Top' = frame
  BY <1>1, <1>2, NotEmpty DEF Top
<1>4. count' = count
  BY DEF check_exist
<1>5. Len(frame.root) + 1 - frame.i < Len(Top.root) + 1 - Top.i
  BY <1>1, LenProperties DEF Good, FrameType
<1>6. /\ Left = <<count, n, Len(Top.root) + 1 - Top.i>>
      /\ Left' = <<count, n, Len(frame.root) + 1 - frame.i>>
  BY <1>1, <1>2, <1>3, <1>4 DEF Left
<1> HIDE DEF n, count
<1> QED
  BY <1>5, <1>6, LessThird

(* The innermost call returns.                                             *)
LEMMA LeftShallower ==
  ASSUME IInv, LoadReturn
  PROVE  Less(Left', Left)
<1> DEFINE n == Len(calls)
           count == Cardinality({f \in File : ~ check_exist(f)})
<1>1. calls # <<>> /\ n \in Nat \ {0}
  BY TopGood DEF LoadReturn
<1>2. Len(calls') < n
  <2>1. CASE n = 1
    <3>1. calls' = <<>>
      BY <2>1 DEF LoadReturn
    <3> QED
      BY <2>1, <3>1, EmptySeq
  <2>2. CASE n # 1
    <3>1. n \in Nat /\ n > 1
      <4>1. \A m \in Nat \ {0} : m # 1 => m \in Nat /\ m > 1
        OBVIOUS
      <4> QED
        BY <1>1, <2>2, <4>1, Zenon
    <3>2. Len(calls') = n - 1
      <4> HIDE DEF n
      <4> QED
        BY <3>1, Popped DEF n
    <3> QED
      BY <3>1, <3>2
  <2> QED
    BY <2>1, <2>2
<1>3. count' = count
  BY DEF LoadReturn, check_exist
<1>4. \E c, d : Left = <<count, n, c>> /\ Left' = <<count, Len(calls'), d>>
  BY <1>3 DEF Left
<1> HIDE DEF n, count
<1> QED
  BY <1>2, <1>4, LessSecond

LEMMA LoadShrinks ==
  ASSUME IInv, SInv, Load
  PROVE  Less(Left', Left)
<1>1. ASSUME InLoop
      PROVE  Good(Top) /\ Copy(Top) /\ Current = body[Top.file][Top.i]
  BY <1>1, CurrentIs DEF SInv, InLoop, Search
<1>2. CASE LoadOther
  <2>1. InLoop /\ Waiting(Top) /\ Good(Top)
    BY <1>1, <1>2 DEF LoadOther, InLoop, Current, Waiting
  <2>2. /\ Advanced(Top) \in FrameType /\ Advanced(Top).i = Top.i + 1
        /\ Advanced(Top).root = Top.root
    BY <2>1, AdvancedGood, AdvancedFields DEF Good
  <2>3. calls' = [calls EXCEPT ![Len(calls)] = Advanced(Top)] /\ filename_table' = filename_table
    BY <1>2 DEF LoadOther, Top
  <2> QED
    BY <2>1, <2>2, <2>3, LeftNearer
<1>3. CASE ImportAgain
  <2> DEFINE frame == Advanced(Nulled(Top))
  <2>1. /\ check_import /\ InLoop /\ filename_table' = filename_table
        /\ calls' = [calls EXCEPT ![Len(calls)] = frame]
    BY <1>3 DEF ImportAgain, check_import, Top
  <2>2. frame \in FrameType /\ frame.file = Top.file /\ frame.i = Top.i + 1 /\ Copy(frame)
    BY <2>1, PassedImport
  <2> HIDE DEF frame
  <2>3. Len(frame.root) = Len(Top.root)
    BY <1>1, <2>1, <2>2 DEF Copy
  <2> QED
    BY <2>1, <2>2, <2>3, LeftNearer
<1>4. CASE ImportBroken \/ ImportFile
  <2>1. /\ Current \in File \ Listed /\ filename_table' = Append(filename_table, Current)
    BY <1>4, ExistIsListed DEF ImportBroken, ImportFile, check_import, IInv
  <2> QED
    BY <2>1, LeftFewer
<1> QED
  BY <1>2, <1>3, <1>4, LeftShallower DEF Load

(* Every step of load brings the end of the link nearer, in an order that  *)
(* has no infinite descent: import cycles and repeated imports included,   *)
(* the loops and the recursion of load and file_import end.                *)
THEOREM LinkTerminates == Spec => LinkShrinks
<1>1. IInv /\ SInv /\ [Next]_vars => [Load => Less(Left', Left)]_vars
  BY LoadShrinks
<1>2. Spec => []IInv
  BY InvariantHolds
<1> QED
  BY <1>1, <1>2, SearchHolds, PTL DEF Spec, LinkShrinks
=============================================================================

----------------------- MODULE NasalImportLinkedProofs -----------------------
(* NasalImport implements NasalLinked, for any finite set of files: the    *)
(* loops, the recursion and the table of files carry out the depth first   *)
(* search.                                                                 *)
EXTENDS NasalImportSearchProofs, NasalInduction

Place == Searched!Place
At(f, i, met) == Searched!At(f, i, met)
Own(f) == Searched!Own(f)
Visit == Searched!Visit

-----------------------------------------------------------------------------
(* The search of NasalLinked is a recursive function: it has to be shown   *)
(* that there is a function with its equation.                             *)

Found == [met : SUBSET File, program : Seq(Node)]

(* What the search finds at p itself, and from p on, by the function h.    *)
Here(h, p) ==
  LET g == body[p.file][p.i]
  IN IF g = Plain \/ g \in p.met THEN [met |-> p.met, program |-> <<>>]
     ELSE IF g \in broken THEN [met |-> p.met \cup {g}, program |-> <<>>]
     ELSE h[At(g, 1, p.met \cup {g})]
Later(h, p) == h[At(p.file, p.i + 1, Here(h, p).met)]
Unfolded(h, p) ==
  IF p.i > Len(body[p.file]) THEN [met |-> p.met, program |-> Own(p.file)]
  ELSE [met |-> Later(h, p).met, program |-> Here(h, p).program \o Later(h, p).program]

(* What is left to search: files not met, then statements.                 *)
Rank(p) == Cardinality(File \ p.met) * (MaxLen + 2) + (MaxLen + 1 - p.i)

LEMMA FieldsOfPlace ==
  ASSUME NEW f, NEW i, NEW met
  PROVE  /\ At(f, i, met).file = f /\ At(f, i, met).i = i /\ At(f, i, met).met = met
         /\ f \in File /\ i \in 1..(MaxLen + 1) /\ met \in SUBSET File => At(f, i, met) \in Place
BY DEF At, Place, Searched!At, Searched!Place

LEMMA PlaceFields ==
  ASSUME NEW p \in Place
  PROVE  p.file \in File /\ p.i \in 1..(MaxLen + 1) /\ p.met \in SUBSET File
BY DEF Place, Searched!Place

LEMMA NextMultiple ==
  ASSUME NEW a \in Nat, NEW b \in Nat, NEW c \in Nat, a < b
  PROVE  a * c \in Nat /\ b * c \in Nat /\ a * c + c <= b * c
<1>1. PICK d \in Nat : b = a + 1 + d
  <2>1. b - a - 1 \in Nat /\ b = a + 1 + (b - a - 1)
    OBVIOUS
  <2> QED
    BY <2>1
<1>2. d * c \in Nat /\ a * c \in Nat
  OBVIOUS
<1>3. (a + 1 + d) * c = a * c + c + d * c
  OBVIOUS
<1> QED
  BY <1>1, <1>2, <1>3

LEMMA LeftToMeet ==
  ASSUME NEW met \in SUBSET File
  PROVE  /\ IsFiniteSet(File \ met) /\ Cardinality(File \ met) \in Nat
         /\ Cardinality(File \ met) * (MaxLen + 2) \in Nat
<1>1. IsFiniteSet(File \ met) /\ Cardinality(File \ met) \in Nat
  BY FS_Subset, FS_CardinalityType, FileAssumption
<1>2. \A a, c \in Nat : a * c \in Nat
  OBVIOUS
<1>3. MaxLen + 2 \in Nat
  BY FileAssumption
<1> QED
  BY <1>1, <1>2, <1>3

LEMMA RankType ==
  ASSUME NEW p \in Place
  PROVE  Rank(p) \in Nat
<1>1. p.i \in 1..(MaxLen + 1) /\ Cardinality(File \ p.met) * (MaxLen + 2) \in Nat
  BY PlaceFields, LeftToMeet
<1> DEFINE c == Cardinality(File \ p.met) * (MaxLen + 2)
<1> HIDE DEF c
<1>2. Rank(p) = c + (MaxLen + 1 - p.i) /\ c \in Nat
  BY <1>1 DEF Rank, c
<1> QED
  BY <1>1, <1>2, FileAssumption

(* A place with more files met is later, wherever it is.                   *)
LEMMA RankMeeting ==
  ASSUME NEW p \in Place, NEW q \in Place, p.met \subseteq q.met, p.met # q.met
  PROVE  Rank(q) < Rank(p)
<1> DEFINE a == Cardinality(File \ q.met)
           b == Cardinality(File \ p.met)
           c == MaxLen + 2
<1>1. p.i \in 1..(MaxLen + 1) /\ q.i \in 1..(MaxLen + 1) /\ MaxLen \in Nat
  BY PlaceFields, FileAssumption
<1>2. a \in Nat /\ b \in Nat /\ a < b
  <2>1. IsFiniteSet(File \ p.met) /\ p.met \in SUBSET File /\ q.met \in SUBSET File
    BY PlaceFields, LeftToMeet
  <2>2. File \ q.met \subseteq File \ p.met /\ File \ q.met # File \ p.met
    BY <2>1
  <2>3. a <= b /\ a # b
    BY <2>1, <2>2, FS_Subset
  <2>4. a \in Nat /\ b \in Nat
    BY <2>1, LeftToMeet
  <2> HIDE DEF a, b
  <2> QED
    BY <2>3, <2>4
<1>3. Rank(p) = b * c + (MaxLen + 1 - p.i) /\ Rank(q) = a * c + (MaxLen + 1 - q.i)
  BY DEF Rank
<1>4. c \in Nat
  BY <1>1
<1> HIDE DEF a, b
<1>5. a * c \in Nat /\ b * c \in Nat /\ a * c + c <= b * c
  BY <1>2, <1>4, NextMultiple
<1> DEFINE ac == a * c
           bc == b * c
<1>6. ac \in Nat /\ bc \in Nat /\ ac + (MaxLen + 2) <= bc
  BY <1>5
<1>7. Rank(p) = bc + (MaxLen + 1 - p.i) /\ Rank(q) = ac + (MaxLen + 1 - q.i)
  BY <1>3
<1> HIDE DEF ac, bc
<1> QED
  BY <1>1, <1>6, <1>7

(* So is a later statement with no fewer files met.                        *)
LEMMA RankLater ==
  ASSUME NEW p \in Place, NEW q \in Place, p.met \subseteq q.met, p.i < q.i
  PROVE  Rank(q) < Rank(p)
<1>1. CASE p.met # q.met
  BY <1>1, RankMeeting
<1>2. CASE p.met = q.met
  <2> DEFINE c == Cardinality(File \ p.met) * (MaxLen + 2)
  <2>1. /\ c \in Nat /\ MaxLen \in Nat
        /\ p.i \in 1..(MaxLen + 1) /\ q.i \in 1..(MaxLen + 1)
    BY PlaceFields, LeftToMeet, FileAssumption
  <2>2. Rank(p) = c + (MaxLen + 1 - p.i) /\ Rank(q) = c + (MaxLen + 1 - q.i)
    BY <1>2 DEF Rank
  <2> HIDE DEF c
  <2> QED
    BY <2>1, <2>2
<1> QED
  BY <1>1, <1>2

LEMMA OwnTree ==
  ASSUME body \in [File -> Bodies], NEW f \in File
  PROVE  /\ Own(f) \in Seq(Node) /\ Len(Own(f)) = Len(body[f])
         /\ \A j \in 1..Len(body[f]) :
              Own(f)[j] = [file |-> f, at |-> j,
                           what |-> IF body[f][j] = Plain THEN Plain ELSE Null]
<1>1. Len(body[f]) \in 0..MaxLen
  BY BodyOf
<1>2. Own(f) = [j \in 1..Len(body[f]) |->
                 [file |-> f, at |-> j, what |-> IF body[f][j] = Plain THEN Plain ELSE Null]]
  BY DEF Own, Searched!Own, Null
<1>3. ASSUME NEW j \in 1..Len(body[f])
      PROVE  [file |-> f, at |-> j, what |-> IF body[f][j] = Plain THEN Plain ELSE Null] \in Node
  <2>1. j \in 1..MaxLen
    BY <1>1, FileAssumption
  <2> QED
    BY <2>1 DEF Node, Statement
<1>4. Own(f) \in [1..Len(body[f]) -> Node]
  BY <1>2, <1>3
<1> QED
  BY <1>1, <1>2, <1>4

(* What the search finds from p on depends on h at later places only.      *)
LEMMA UnfoldedBy ==
  ASSUME body \in [File -> Bodies], NEW p \in Place, NEW h, NEW g,
         \A q \in Place : Rank(q) < Rank(p) =>
           h[q] = g[q] /\ h[q] \in Found /\ q.met \subseteq h[q].met
  PROVE  /\ Unfolded(g, p) = Unfolded(h, p)
         /\ Unfolded(h, p) \in Found /\ p.met \subseteq Unfolded(h, p).met
<1>1. /\ p.file \in File /\ p.i \in 1..(MaxLen + 1) /\ p.met \in SUBSET File
      /\ Len(body[p.file]) \in 0..MaxLen
      /\ \A j \in 1..Len(body[p.file]) : body[p.file][j] \in Statement
  BY PlaceFields, BodyOf
<1>2. CASE p.i > Len(body[p.file])
  <2>1. /\ Unfolded(h, p) = [met |-> p.met, program |-> Own(p.file)]
        /\ Unfolded(g, p) = [met |-> p.met, program |-> Own(p.file)]
    BY <1>2 DEF Unfolded
  <2> QED
    BY <1>1, <2>1, OwnTree DEF Found
<1>3. CASE ~(p.i > Len(body[p.file]))
  <2> DEFINE s == body[p.file][p.i]
             into == At(s, 1, p.met \cup {s})
             here == Here(h, p)
             next == At(p.file, p.i + 1, here.met)
  <2>1. s \in File \cup {Plain} /\ p.i + 1 \in 1..(MaxLen + 1) /\ p.i < p.i + 1
    BY <1>1, <1>3, FileAssumption DEF Statement
  <2>2. Here(g, p) = here /\ here \in Found /\ p.met \subseteq here.met
    <3>1. CASE s = Plain \/ s \in p.met
      <4>1. here = [met |-> p.met, program |-> <<>>] /\ Here(g, p) = [met |-> p.met, program |-> <<>>]
        BY <3>1 DEF Here
      <4> QED
        BY <1>1, <4>1, EmptySeq DEF Found
    <3>2. CASE ~(s = Plain \/ s \in p.met) /\ s \in broken
      <4>1. /\ here = [met |-> p.met \cup {s}, program |-> <<>>]
            /\ Here(g, p) = [met |-> p.met \cup {s}, program |-> <<>>]
        BY <3>2 DEF Here
      <4>2. p.met \cup {s} \in SUBSET File
        BY <1>1, <2>1, <3>2
      <4> HIDE DEF here, s
      <4> QED
        BY <4>1, <4>2, EmptySeq DEF Found
    <3>3. CASE ~(s = Plain \/ s \in p.met) /\ s \notin broken
      <4>1. here = h[into] /\ Here(g, p) = g[into]
        BY <3>3 DEF Here
      <4>2. s \in File /\ p.met \cup {s} \in SUBSET File /\ 1 \in 1..(MaxLen + 1)
        BY <1>1, <2>1, <3>3, FileAssumption
      <4>3. into \in Place /\ into.met = p.met \cup {s}
        BY <4>2, FieldsOfPlace
      <4>4. Rank(into) < Rank(p)
        <5>1. p.met \subseteq into.met /\ p.met # into.met
          BY <3>3, <4>3
        <5> HIDE DEF into
        <5> QED
          BY <4>3, <5>1, RankMeeting
      <4> HIDE DEF into, here
      <4> QED
        BY <4>1, <4>3, <4>4
    <3> QED
      BY <3>1, <3>2, <3>3
  <2> HIDE DEF here
  <2>3. here.met \in SUBSET File /\ here.program \in Seq(Node)
    BY <2>2 DEF Found
  <2>4. next \in Place /\ next.met = here.met /\ next.i = p.i + 1
    BY <1>1, <2>1, <2>3, FieldsOfPlace
  <2>5. Rank(next) < Rank(p)
    <3> HIDE DEF next
    <3> QED
      BY <2>1, <2>2, <2>4, RankLater
  <2>6. /\ Later(h, p) = h[next] /\ Later(g, p) = g[next]
    BY <2>2 DEF Later, here
  <2> HIDE DEF next
  <2> DEFINE later == h[next]
  <2>7. g[next] = later /\ later \in Found /\ here.met \subseteq later.met
    BY <2>4, <2>5
  <2> HIDE DEF later
  <2>8. later.met \in SUBSET File /\ later.program \in Seq(Node)
    BY <2>7 DEF Found
  <2>9. /\ Unfolded(h, p) = [met |-> later.met, program |-> here.program \o later.program]
        /\ Unfolded(g, p) = [met |-> later.met, program |-> here.program \o later.program]
    BY <1>3, <2>2, <2>6, <2>7 DEF Unfolded, here, later
  <2>10. here.program \o later.program \in Seq(Node)
    BY <2>3, <2>8, ConcatProperties
  <2> QED
    BY <2>2, <2>7, <2>8, <2>9, <2>10 DEF Found
<1> QED
  BY <1>2, <1>3

(* h has the equation of the search at all places of a lower rank.         *)
Below(h, n) ==
  \A p \in Place : Rank(p) < n => h[p] = Unfolded(h, p) /\ p.met \subseteq h[p].met

LEMMA OneRankMore ==
  ASSUME body \in [File -> Bodies], NEW n \in Nat,
         NEW h \in [Place -> Found], Below(h, n)
  PROVE  \E g \in [Place -> Found] : Below(g, n + 1)
<1> DEFINE g == [p \in Place |-> IF Rank(p) < n + 1 THEN Unfolded(h, p) ELSE h[p]]
<1>1. ASSUME NEW p \in Place, Rank(p) < n + 1
      PROVE  \A q \in Place : Rank(q) < Rank(p) =>
               h[q] = g[q] /\ h[q] \in Found /\ q.met \subseteq h[q].met
  <2> TAKE q \in Place
  <2> HAVE Rank(q) < Rank(p)
  <2>1. Rank(q) < n /\ Rank(q) < n + 1
    BY <1>1, RankType
  <2>2. g[q] = Unfolded(h, q)
    BY <2>1
  <2> HIDE DEF g
  <2> QED
    BY <2>1, <2>2 DEF Below
<1>2. ASSUME NEW p \in Place, Rank(p) < n + 1
      PROVE  /\ Unfolded(g, p) = Unfolded(h, p)
             /\ Unfolded(h, p) \in Found /\ p.met \subseteq Unfolded(h, p).met
  <2> HIDE DEF g
  <2> QED
    BY <1>1, <1>2, UnfoldedBy
<1>3. \A p \in Place : Rank(p) < n + 1 => g[p] = Unfolded(h, p)
  OBVIOUS
<1>4. g \in [Place -> Found]
  BY <1>2
<1> HIDE DEF g
<1>5. Below(g, n + 1)
  BY <1>2, <1>3 DEF Below
<1> QED
  BY <1>4, <1>5

LEMMA SearchToRank ==
  ASSUME body \in [File -> Bodies], NEW n \in Nat
  PROVE  \E h \in [Place -> Found] : Below(h, n)
<1> DEFINE S == {m \in Nat : \E h \in [Place -> Found] : Below(h, m)}
<1>1. 0 \in S
  <2> DEFINE h == [p \in Place |-> [met |-> p.met, program |-> <<>>]]
  <2>1. h \in [Place -> Found]
    BY PlaceFields, EmptySeq DEF Found
  <2> HIDE DEF h
  <2>2. Below(h, 0)
    <3>1. \A p \in Place : ~(Rank(p) < 0)
      BY RankType
    <3> QED
      BY <3>1 DEF Below
  <2> QED
    BY <2>1, <2>2
<1>2. \A m \in Nat : m \in S => m + 1 \in S
  <2> TAKE m \in Nat
  <2> HAVE m \in S
  <2>1. PICK h \in [Place -> Found] : Below(h, m)
    OBVIOUS
  <2>2. \E g \in [Place -> Found] : Below(g, m + 1)
    BY <2>1, OneRankMore
  <2> QED
    BY <2>2
<1> HIDE DEF S
<1>3. n \in S
  BY <1>1, <1>2, SetInduction
<1> QED
  BY <1>3 DEF S

(* The ranks have a bound, so there is a function for all places.          *)
LEMMA RankBound ==
  \E n \in Nat : \A p \in Place : Rank(p) < n
<1> DEFINE b == Cardinality(File)
           c == MaxLen + 2
           n == b * c + c
<1>1. b \in Nat /\ c \in Nat /\ n \in Nat
  <2>1. b \in Nat /\ c \in Nat
    BY FS_CardinalityType, FileAssumption
  <2>2. \A x, y \in Nat : x * y + y \in Nat
    OBVIOUS
  <2> QED
    BY <2>1, <2>2
<1>2. ASSUME NEW p \in Place
      PROVE  Rank(p) < n
  <2> DEFINE a == Cardinality(File \ p.met)
  <2>1. a \in Nat /\ p.i \in 1..(MaxLen + 1) /\ MaxLen \in Nat
    BY PlaceFields, LeftToMeet, FileAssumption
  <2>2. a <= b
    BY PlaceFields, FS_Subset, FileAssumption
  <2> HIDE DEF a, b
  <2>3. a * c \in Nat /\ b * c \in Nat /\ a * c <= b * c
    <3>1. CASE a = b
      <4>1. \A x, y \in Nat : x * y \in Nat
        OBVIOUS
      <4> QED
        BY <1>1, <2>1, <3>1, <4>1
    <3>2. CASE a # b
      <4>1. a < b
        BY <1>1, <2>1, <2>2, <3>2
      <4>2. a * c \in Nat /\ b * c \in Nat /\ a * c + c <= b * c
        BY <1>1, <2>1, <4>1, NextMultiple
      <4> HIDE DEF c
      <4> QED
        BY <1>1, <4>2
    <3> QED
      BY <3>1, <3>2
  <2> DEFINE ac == a * c
             bc == b * c
  <2>4. Rank(p) = ac + (MaxLen + 1 - p.i) /\ n = bc + (MaxLen + 2)
    BY DEF Rank, a
  <2>5. ac \in Nat /\ bc \in Nat /\ ac <= bc
    BY <2>3
  <2> HIDE DEF ac, bc, n
  <2> QED
    BY <2>1, <2>4, <2>5
<1> HIDE DEF n
<1> QED
  BY <1>1, <1>2

LEMMA SearchExists ==
  ASSUME body \in [File -> Bodies]
  PROVE  \E h : h = [p \in Place |-> Unfolded(h, p)]
<1>1. PICK n \in Nat : \A p \in Place : Rank(p) < n
  BY RankBound
<1>2. PICK h \in [Place -> Found] : Below(h, n)
  BY SearchToRank
<1>3. \A p \in Place : h[p] = Unfolded(h, p)
  BY <1>1, <1>2 DEF Below
<1>4. h = [p \in Place |-> Unfolded(h, p)]
  BY <1>3
<1> QED
  BY <1>4

(* So the search has its equation, and finds files and nodes of the tree.  *)
LEMMA VisitIs ==
  ASSUME body \in [File -> Bodies]
  PROVE  Visit = [p \in Place |-> Unfolded(Visit, p)]
<1> DEFINE Is(h) == h = [p \in Place |-> Unfolded(h, p)]
<1>1. \E h : Is(h)
  BY SearchExists
<1>2. Visit = CHOOSE h : Is(h)
  BY DEF Visit, Searched!Visit, Place, At, Own, Unfolded, Later, Here
<1> HIDE DEF Is
<1>3. Is(CHOOSE h : Is(h))
  BY <1>1
<1>4. Is(Visit)
  BY <1>2, <1>3
<1> QED
  BY <1>4 DEF Is

LEMMA VisitUnfolds ==
  ASSUME body \in [File -> Bodies], NEW p \in Place
  PROVE  Visit[p] = Unfolded(Visit, p)
<1>1. Visit = [q \in Place |-> Unfolded(Visit, q)]
  BY VisitIs
<1> HIDE DEF Visit
<1>2. \A h : h = [q \in Place |-> Unfolded(h, q)] => h[p] = Unfolded(h, p)
  OBVIOUS
<1> QED
  BY <1>1, <1>2

LEMMA VisitFinds ==
  ASSUME body \in [File -> Bodies], NEW p \in Place
  PROVE  Visit[p] \in Found /\ p.met \subseteq Visit[p].met
<1> DEFINE Fine(q) == Visit[q] \in Found /\ q.met \subseteq Visit[q].met
           S == {m \in Nat : \A q \in Place : Rank(q) < m => Fine(q)}
<1>1. 0 \in S
  <2>1. \A q \in Place : ~(Rank(q) < 0)
    BY RankType
  <2> QED
    BY <2>1
<1>2. \A m \in Nat : m \in S => m + 1 \in S
  <2> TAKE m \in Nat
  <2> HAVE m \in S
  <2>1. ASSUME NEW q \in Place, Rank(q) < m + 1
        PROVE  Fine(q)
    <3>1. \A r \in Place : Rank(r) < Rank(q) => Rank(r) < m
      BY <2>1, RankType
    <3>2. \A r \in Place : Rank(r) < Rank(q) =>
            Visit[r] = Visit[r] /\ Visit[r] \in Found /\ r.met \subseteq Visit[r].met
      BY <3>1
    <3>3. Unfolded(Visit, q) \in Found /\ q.met \subseteq Unfolded(Visit, q).met
      <4> HIDE DEF Visit
      <4> QED
        BY <3>2, UnfoldedBy
    <3>4. Visit[q] = Unfolded(Visit, q)
      BY VisitUnfolds
    <3> QED
      BY <3>3, <3>4
  <2> HIDE DEF Fine
  <2> QED
    BY <2>1
<1>3. Rank(p) + 1 \in S
  <2> HIDE DEF S
  <2> QED
    BY <1>1, <1>2, SetInduction, RankType
<1> QED
  BY <1>3, RankType

LEMMA VisitSame ==
  ASSUME body' = body, broken' = broken
  PROVE  Visit' = Visit
BY DEF Visit, Searched!Visit, Searched!Place, Searched!At, Searched!Own

(* Trees one behind the other.                                             *)
Join(s, t) == s \o t

LEMMA JoinIsTree ==
  ASSUME NEW s \in Seq(Node), NEW t \in Seq(Node)
  PROVE  Join(s, t) \in Seq(Node)
BY ConcatProperties DEF Join

LEMMA JoinNothing ==
  ASSUME NEW s \in Seq(Node)
  PROVE  Join(<<>>, s) = s
BY ConcatEmptySeq DEF Join

LEMMA JoinAssociative ==
  ASSUME NEW s \in Seq(Node), NEW t \in Seq(Node), NEW u \in Seq(Node)
  PROVE  Join(s, Join(t, u)) = Join(Join(s, t), u)
BY ConcatAssociative, SMTT(30) DEF Join

(* The files met, and the program, when the search that starts at          *)
(* statement i of f comes to the end of f.                                 *)
Met(f, i, met) == Visit[At(f, i, met)].met
Program(f, i, met) == Visit[At(f, i, met)].program

LEMMA FoundAt ==
  ASSUME body \in [File -> Bodies],
         NEW f \in File, NEW i \in 1..(MaxLen + 1), NEW met \in SUBSET File
  PROVE  /\ At(f, i, met) \in Place
         /\ Met(f, i, met) \in SUBSET File /\ Program(f, i, met) \in Seq(Node)
<1>1. At(f, i, met) \in Place
  BY FieldsOfPlace
<1>2. Visit[At(f, i, met)] \in Found
  BY <1>1, VisitFinds
<1> QED
  BY <1>1, <1>2 DEF Found, Met, Program

(* A statement s that leads into no other file, and the files met then.    *)
PassesOver(s, met, after) ==
  \/ s \in met \cup {Plain} /\ after = met
  \/ s \in broken \ met /\ s # Plain /\ after = met \cup {s}

(* A file g not met yet, and what the search in it finds.                  *)
LeadsInto(g, met, after, tree) ==
  /\ g \notin met /\ g \notin broken
  /\ after = Met(g, 1, met \cup {g}) /\ tree = Program(g, 1, met \cup {g})

(* The search from one place finds what that from another finds.           *)
AsFrom(f, i, met, j, after) ==
  Met(f, i, met) = Met(f, j, after) /\ Program(f, i, met) = Program(f, j, after)

(* The search, statement by statement: one that is passed over, ...        *)
LEMMA VisitPasses ==
  ASSUME body \in [File -> Bodies],
         NEW f \in File, NEW i \in 1..Len(body[f]), NEW met \in SUBSET File,
         NEW after, PassesOver(body[f][i], met, after)
  PROVE  AsFrom(f, i, met, i + 1, after)
<1> DEFINE p == At(f, i, met)
           q == At(f, i + 1, after)
<1>1. /\ i \in 1..(MaxLen + 1) /\ i + 1 \in 1..(MaxLen + 1) /\ ~(i > Len(body[f]))
      /\ body[f][i] \in Statement
  BY BodyOf, FileAssumption
<1>2. after \in SUBSET File
  BY <1>1 DEF Statement, PassesOver
<1>3. p \in Place /\ p.file = f /\ p.i = i /\ p.met = met
  BY <1>1, FieldsOfPlace
<1>4. Visit[q].program \in Seq(Node)
  BY <1>1, <1>2, FoundAt DEF Program
<1> HIDE DEF p
<1>5. Here(Visit, p) = [met |-> after, program |-> <<>>]
  BY <1>3 DEF Here, PassesOver
<1>6. Later(Visit, p) = Visit[q]
  BY <1>3, <1>5 DEF Later
<1>7. Visit[p] = Unfolded(Visit, p)
  BY <1>3, VisitUnfolds
<1>8. Visit[p] = [met |-> Visit[q].met, program |-> <<>> \o Visit[q].program]
  BY <1>1, <1>3, <1>5, <1>6, <1>7 DEF Unfolded
<1>9. <<>> \o Visit[q].program = Visit[q].program
  BY <1>4, ConcatEmptySeq
<1> HIDE DEF q
<1>10. Visit[p].met = Visit[q].met /\ Visit[p].program = Visit[q].program
  BY <1>8, <1>9
<1> QED
  BY <1>10 DEF p, q, Met, Program, AsFrom

(* ... one that leads into another file, ...                               *)
LEMMA VisitEnters ==
  ASSUME body \in [File -> Bodies],
         NEW f \in File, NEW i \in 1..Len(body[f]), NEW met \in SUBSET File,
         NEW g \in File, g = body[f][i], NEW after, NEW tree, LeadsInto(g, met, after, tree)
  PROVE  /\ Met(f, i, met) = Met(f, i + 1, after)
         /\ Program(f, i, met) = Join(tree, Program(f, i + 1, after))
<1> DEFINE p == At(f, i, met)
           q == At(g, 1, met \cup {g})
           r == At(f, i + 1, after)
<1>1. i \in 1..(MaxLen + 1) /\ ~(i > Len(body[f])) /\ g # Plain
  BY BodyOf, FileAssumption
<1>2. p \in Place /\ p.file = f /\ p.i = i /\ p.met = met
  BY <1>1, FieldsOfPlace
<1>3. Visit[p] = Unfolded(Visit, p)
  BY <1>2, VisitUnfolds
<1> HIDE DEF p
<1>4. Here(Visit, p) = Visit[q]
  BY <1>1, <1>2 DEF Here, LeadsInto
<1>5. Visit[q].met = after /\ Visit[q].program = tree
  BY DEF Met, Program, LeadsInto
<1>6. Later(Visit, p) = Visit[r]
  BY <1>2, <1>4, <1>5 DEF Later
<1> HIDE DEF q, r
<1>7. Visit[p] = [met |-> Visit[r].met, program |-> Join(Visit[q].program, Visit[r].program)]
  BY <1>1, <1>2, <1>3, <1>4, <1>6 DEF Unfolded, Join
<1>8. /\ Visit[p].met = Visit[r].met
      /\ Visit[p].program = Join(tree, Visit[r].program)
  BY <1>5, <1>7
<1> QED
  BY <1>8 DEF p, r, Met, Program

(* ... and the end of the file.                                            *)
LEMMA VisitEnds ==
  ASSUME body \in [File -> Bodies], NEW f \in File, NEW met \in SUBSET File
  PROVE  /\ Met(f, Len(body[f]) + 1, met) = met
         /\ Program(f, Len(body[f]) + 1, met) = Own(f)
<1> DEFINE p == At(f, Len(body[f]) + 1, met)
<1>1. Len(body[f]) + 1 \in 1..(MaxLen + 1) /\ Len(body[f]) + 1 > Len(body[f])
  BY BodyOf, FileAssumption
<1>2. p \in Place /\ p.file = f /\ p.i = Len(body[f]) + 1 /\ p.met = met
  BY <1>1, FieldsOfPlace
<1>3. Visit[p] = Unfolded(Visit, p)
  BY <1>2, VisitUnfolds
<1> HIDE DEF p
<1>4. Visit[p] = [met |-> met, program |-> Own(f)]
  BY <1>1, <1>2, <1>3 DEF Unfolded
<1>5. Visit[p].met = met /\ Visit[p].program = Own(f)
  BY <1>4
<1> QED
  BY <1>5 DEF p, Met, Program

-----------------------------------------------------------------------------
(* The calls under way carry the search out.                               *)

(* What was looked at is empty if it was an import.                        *)
Cleared(frame, here) ==
  \A j \in 1..(here - 1) :
    frame.root[j].what = IF body[frame.file][j] = Plain THEN Plain ELSE Null

(* Call k started with the files met so far and its own.                   *)
Start(stack, met, k) == IF k = 1 THEN {} ELSE met[k - 1] \cup {stack[k].file}

(* The whole of call k's search is what it has and what is still to come.  *)
Part(stack, met, k) ==
  /\ Met(stack[k].file, 1, Start(stack, met, k)) = Met(stack[k].file, stack[k].i, met[k])
  /\ Program(stack[k].file, 1, Start(stack, met, k))
       = Join(stack[k].new_root, Program(stack[k].file, stack[k].i, met[k]))

(* met[k] holds the files met when call k came to where it is.             *)
Parts(stack, table, met) ==
  /\ met \in [1..Len(stack) -> SUBSET File]
  /\ met[Len(stack)] = table
  /\ \A k \in 1..(Len(stack) - 1) :
       body[stack[k].file][stack[k].i] = stack[k + 1].file /\ stack[k + 1].file \notin met[k]
  /\ \A k \in 1..Len(stack) : Part(stack, met, k)

Follows(stack, table) ==
  /\ \A k \in 1..Len(stack) : Cleared(stack[k], Ahead(stack, k))
  /\ \E met : Parts(stack, table, met)

(* With IInv and SInv, the inductive invariant.                            *)
LInv == calls # <<>> => Follows(calls, Listed)

LEMMA FoundFirst ==
  ASSUME body \in [File -> Bodies], NEW f \in File, NEW met \in SUBSET File
  PROVE  Program(f, 1, met) \in Seq(Node)
<1>1. 1 \in 1..(MaxLen + 1)
  BY FileAssumption
<1> QED
  BY <1>1, FoundAt

LEMMA FollowsStart ==
  ASSUME body \in [File -> Bodies], NEW f \in File,
         NEW stack, Len(stack) = 1,
         stack[1].file = f, stack[1].i = 1, stack[1].new_root = <<>>
  PROVE  Follows(stack, {})
<1> DEFINE met == [k \in 1..1 |-> {}]
<1>1. met \in [1..Len(stack) -> SUBSET File] /\ met[1] = {}
  OBVIOUS
<1> HIDE DEF met
<1>2. Start(stack, met, 1) = {}
  BY DEF Start
<1>3. Program(f, 1, {}) \in Seq(Node)
  BY FoundFirst
<1>4. Part(stack, met, 1)
  BY <1>1, <1>2, <1>3, JoinNothing DEF Part
<1>5. Parts(stack, {}, met)
  BY <1>1, <1>4 DEF Parts
<1>6. Cleared(stack[1], Ahead(stack, 1))
  BY DEF Cleared, Ahead
<1> QED
  BY <1>5, <1>6 DEF Follows

(* The innermost call passes a statement over.                             *)
LEMMA FollowsMove ==
  ASSUME body \in [File -> Bodies],
         NEW stack, NEW n \in Nat \ {0}, n = Len(stack),
         NEW table \in SUBSET File, Follows(stack, table),
         stack[n].file \in File, stack[n].i \in 1..Len(body[stack[n].file]),
         NEW moved, Len(moved) = n, \A k \in 1..(n - 1) : moved[k] = stack[k],
         moved[n].file = stack[n].file, moved[n].new_root = stack[n].new_root,
         moved[n].i = stack[n].i + 1,
         Cleared(moved[n], stack[n].i + 1),
         NEW entered, PassesOver(body[stack[n].file][stack[n].i], table, entered)
  PROVE  Follows(moved, entered)
<1>1. n \in 1..n /\ \A k \in 1..n : k = n \/ (k \in 1..(n - 1) /\ k # n)
  OBVIOUS
<1>2. PICK met : Parts(stack, table, met)
  BY DEF Follows
<1> DEFINE now == [k \in 1..n |-> IF k = n THEN entered ELSE met[k]]
<1>3. /\ now[n] = entered /\ \A k \in 1..(n - 1) : now[k] = met[k]
      /\ met \in [1..n -> SUBSET File] /\ met[n] = table
  BY <1>1, <1>2 DEF Parts
<1>4. entered \in SUBSET File
  BY BodyOf DEF Statement, PassesOver
<1>5. now \in [1..n -> SUBSET File]
  BY <1>1, <1>3, <1>4
<1> HIDE DEF now
<1>6. ASSUME NEW k \in 1..n
      PROVE  Start(moved, now, k) = Start(stack, met, k) /\ moved[k].file = stack[k].file
  <2>1. k # 1 => k - 1 \in 1..(n - 1)
    OBVIOUS
  <2> QED
    BY <1>1, <1>3, <2>1 DEF Start
<1>7. ASSUME NEW k \in 1..n
      PROVE  Part(moved, now, k)
  <2>1. Part(stack, met, k)
    BY <1>2 DEF Parts
  <2>2. CASE k = n
    <3>1. /\ Met(stack[n].file, stack[n].i, table) = Met(stack[n].file, stack[n].i + 1, entered)
          /\ Program(stack[n].file, stack[n].i, table) = Program(stack[n].file, stack[n].i + 1, entered)
      <4>1. PICK f \in File : f = stack[n].file
        OBVIOUS
      <4>2. PICK i \in 1..Len(body[f]) : i = stack[n].i
        BY <4>1
      <4>3. PassesOver(body[f][i], table, entered)
        BY <4>1, <4>2
      <4>4. AsFrom(f, i, table, i + 1, entered)
        BY <4>3, VisitPasses
      <4> QED
        BY <4>1, <4>2, <4>4 DEF AsFrom
    <3> QED
      BY <1>3, <1>6, <2>1, <2>2, <3>1 DEF Part
  <2>3. CASE k # n
    BY <1>1, <1>3, <1>6, <2>1, <2>3 DEF Part
  <2> QED
    BY <2>2, <2>3
<1>8. Parts(moved, entered, now)
  <2>1. ASSUME NEW k \in 1..(n - 1)
        PROVE  /\ body[moved[k].file][moved[k].i] = moved[k + 1].file
               /\ moved[k + 1].file \notin now[k]
    <3>1. moved[k] = stack[k] /\ now[k] = met[k] /\ k + 1 \in 1..n
      BY <1>3
    <3>2. moved[k + 1].file = stack[k + 1].file
      BY <1>6, <3>1
    <3> QED
      BY <1>2, <3>1, <3>2 DEF Parts
  <2> QED
    BY <1>3, <1>5, <1>7, <2>1 DEF Parts
<1>9. ASSUME NEW k \in 1..n
      PROVE  Cleared(moved[k], Ahead(moved, k))
  <2>1. CASE k = n
    BY <2>1 DEF Ahead
  <2>2. CASE k # n
    <3>1. moved[k] = stack[k] /\ Ahead(moved, k) = Ahead(stack, k)
      BY <1>1, <2>2 DEF Ahead
    <3> QED
      BY <3>1 DEF Follows
  <2> QED
    BY <2>1, <2>2
<1> QED
  BY <1>8, <1>9 DEF Follows

(* The innermost call waits for a file that was not met before.            *)
LEMMA FollowsPush ==
  ASSUME body \in [File -> Bodies],
         NEW stack, NEW n \in Nat \ {0}, n = Len(stack),
         NEW table \in SUBSET File, Follows(stack, table),
         NEW h \in File, h \notin table, body[stack[n].file][stack[n].i] = h,
         stack[n].i \in Nat,
         NEW pushed, Len(pushed) = n + 1, \A k \in 1..(n - 1) : pushed[k] = stack[k],
         pushed[n].file = stack[n].file, pushed[n].new_root = stack[n].new_root,
         pushed[n].i = stack[n].i, Cleared(pushed[n], stack[n].i + 1),
         pushed[n + 1].file = h, pushed[n + 1].new_root = <<>>, pushed[n + 1].i = 1
  PROVE  Follows(pushed, table \cup {h})
<1>1. n \in 1..n /\ \A k \in 1..n : k = n \/ (k \in 1..(n - 1) /\ k # n)
  OBVIOUS
<1>2. PICK met : Parts(stack, table, met)
  BY DEF Follows
<1> DEFINE entered == table \cup {h}
           now == [k \in 1..(n + 1) |-> IF k = n + 1 THEN entered ELSE met[k]]
<1>3. /\ now[n + 1] = entered /\ \A k \in 1..n : now[k] = met[k]
      /\ met \in [1..n -> SUBSET File] /\ met[n] = table
  <2>1. n + 1 \in 1..(n + 1) /\ \A k \in 1..n : k \in 1..(n + 1) /\ k # n + 1
    OBVIOUS
  <2> QED
    BY <1>2, <2>1 DEF Parts
<1>4. \A k \in 1..(n + 1) : k = n + 1 \/ (k \in 1..n /\ k # n + 1)
  OBVIOUS
<1>5. now \in [1..(n + 1) -> SUBSET File]
  BY <1>3, <1>4
<1> HIDE DEF now
<1>6. ASSUME NEW k \in 1..n
      PROVE  /\ Start(pushed, now, k) = Start(stack, met, k)
             /\ pushed[k].file = stack[k].file /\ pushed[k].i = stack[k].i
             /\ pushed[k].new_root = stack[k].new_root
  <2>1. k # 1 => k - 1 \in 1..n
    OBVIOUS
  <2>2. pushed[k].file = stack[k].file
    BY <1>1
  <2> QED
    BY <1>1, <1>3, <2>1, <2>2 DEF Start
<1>7. ASSUME NEW k \in 1..n
      PROVE  Part(pushed, now, k)
  <2>1. Part(stack, met, k)
    BY <1>2 DEF Parts
  <2> QED
    BY <1>3, <1>6, <2>1 DEF Part
<1>8. Part(pushed, now, n + 1)
  <2>1. Start(pushed, now, n + 1) = entered
    <3>1. n + 1 # 1 /\ n + 1 - 1 = n
      OBVIOUS
    <3> QED
      BY <1>1, <1>3, <3>1 DEF Start
  <2>2. Program(h, 1, entered) \in Seq(Node)
    BY FoundFirst
  <2> QED
    BY <1>3, <2>1, <2>2, JoinNothing DEF Part
<1>9. Parts(pushed, entered, now)
  <2>1. ASSUME NEW k \in 1..n
        PROVE  /\ body[pushed[k].file][pushed[k].i] = pushed[k + 1].file
               /\ pushed[k + 1].file \notin now[k]
    <3>1. CASE k = n
      BY <1>1, <1>3, <3>1
    <3>2. CASE k # n
      <4>1. k \in 1..(n - 1) /\ k + 1 \in 1..n
        BY <1>1, <3>2
      <4>2. pushed[k + 1].file = stack[k + 1].file /\ now[k] = met[k]
        BY <1>3, <1>6, <4>1
      <4> QED
        BY <1>2, <1>6, <4>1, <4>2 DEF Parts
    <3> QED
      BY <3>1, <3>2
  <2>2. n + 1 - 1 = n
    OBVIOUS
  <2> QED
    BY <1>3, <1>4, <1>5, <1>7, <1>8, <2>1, <2>2 DEF Parts
<1>10. ASSUME NEW k \in 1..(n + 1)
       PROVE  Cleared(pushed[k], Ahead(pushed, k))
  <2>1. CASE k = n + 1
    BY <2>1 DEF Cleared, Ahead
  <2>2. CASE k = n
    <3>1. Ahead(pushed, n) = stack[n].i + 1
      BY DEF Ahead
    <3> QED
      BY <2>2, <3>1
  <2>3. CASE k # n + 1 /\ k # n
    <3>1. k \in 1..(n - 1) /\ k \in 1..n
      BY <2>3
    <3>2. pushed[k] = stack[k] /\ Ahead(pushed, k) = Ahead(stack, k)
      BY <2>3, <3>1 DEF Ahead
    <3> QED
      BY <3>1, <3>2 DEF Follows
  <2> QED
    BY <2>1, <2>2, <2>3
<1> QED
  BY <1>9, <1>10 DEF Follows

(* A call that is through has the file's own statements, imports cleared.  *)
LEMMA RootIsOwn ==
  ASSUME body \in [File -> Bodies], NEW frame, Good(frame), Copy(frame),
         Cleared(frame, frame.i), frame.i = Len(frame.root) + 1
  PROVE  frame.root = Own(frame.file)
<1> DEFINE f == frame.file
           root == frame.root
<1>1. f \in File /\ root \in Seq(Node) /\ Len(root) \in Nat /\ Len(root) = Len(body[f])
  BY LenProperties DEF Good, FrameType, Copy
<1>2. /\ Own(f) \in Seq(Node) /\ Len(Own(f)) = Len(body[f])
      /\ \A j \in 1..Len(body[f]) :
           Own(f)[j] = [file |-> f, at |-> j,
                        what |-> IF body[f][j] = Plain THEN Plain ELSE Null]
  BY <1>1, OwnTree
<1>3. ASSUME NEW j \in 1..Len(root)
      PROVE  root[j] = Own(f)[j]
  <2>1. root[j] \in Node
    BY <1>1, ElementOfSeq
  <2>2. root[j].file = f /\ root[j].at = j
    BY DEF Copy
  <2>3. root[j].what = IF body[f][j] = Plain THEN Plain ELSE Null
    <3>1. j \in 1..(frame.i - 1)
      BY <1>1
    <3> QED
      BY <3>1 DEF Cleared
  <2> QED
    BY <1>1, <1>2, <2>1, <2>2, <2>3 DEF Node
<1> HIDE DEF root, f
<1>4. root = Own(f)
  BY <1>1, <1>2, <1>3, SeqEqual
<1> QED
  BY <1>4 DEF root, f

(* At the end of its file a call has all that the search finds in it.      *)
LEMMA PartDone ==
  ASSUME body \in [File -> Bodies], NEW table \in SUBSET File, NEW frame,
         Good(frame), Copy(frame), Cleared(frame, frame.i), frame.i = Len(frame.root) + 1
  PROVE  Met(frame.file, frame.i, table) = table /\ Program(frame.file, frame.i, table) = frame.root
<1>1. frame.root = Own(frame.file)
  BY RootIsOwn
<1>2. frame.file \in File /\ frame.i = Len(body[frame.file]) + 1
  BY DEF Good, FrameType, Copy
<1>3. /\ Met(frame.file, Len(body[frame.file]) + 1, table) = table
      /\ Program(frame.file, Len(body[frame.file]) + 1, table) = Own(frame.file)
  BY <1>2, VisitEnds
<1> QED
  BY <1>1, <1>2, <1>3

(* What a call at statement i of f has yet to come, once it has tree.      *)
Taken(f, i, met, before, tree, table) ==
  /\ Met(f, i, met) = Met(f, i + 1, table)
  /\ Join(before, Program(f, i, met)) = Join(Join(before, tree), Program(f, i + 1, table))

(* A call that takes in what it waited for goes on with what is left.      *)
LEMMA PartJoined ==
  ASSUME body \in [File -> Bodies], NEW met \in SUBSET File, NEW table \in SUBSET File,
         NEW f \in File, NEW i \in 1..Len(body[f]),
         NEW before \in Seq(Node), NEW tree \in Seq(Node),
         body[f][i] \in File, LeadsInto(body[f][i], met, table, tree)
  PROVE  Taken(f, i, met, before, tree, table)
<1>1. i + 1 \in 1..(MaxLen + 1)
  BY BodyOf, FileAssumption
<1>2. Program(f, i + 1, table) \in Seq(Node)
  BY <1>1, FoundAt
<1>3. /\ Met(f, i, met) = Met(f, i + 1, table)
      /\ Program(f, i, met) = Join(tree, Program(f, i + 1, table))
  BY VisitEnters
<1>4. Join(before, Join(tree, Program(f, i + 1, table)))
        = Join(Join(before, tree), Program(f, i + 1, table))
  BY <1>2, JoinAssociative
<1> QED
  BY <1>3, <1>4 DEF Taken

(* The innermost call returns.                                             *)
LEMMA FollowsPop ==
  ASSUME body \in [File -> Bodies],
         NEW stack, NEW n \in Nat, n > 1, n = Len(stack),
         NEW table \in SUBSET File, Follows(stack, table),
         \A k \in 1..n : Good(stack[k]) /\ Copy(stack[k]),
         stack[n].file \notin broken, stack[n].i = Len(stack[n].root) + 1,
         stack[n - 1].i <= Len(stack[n - 1].root),
         NEW popped, Len(popped) = n - 1, \A k \in 1..(n - 2) : popped[k] = stack[k],
         popped[n - 1].file = stack[n - 1].file, popped[n - 1].root = stack[n - 1].root,
         popped[n - 1].i = stack[n - 1].i + 1,
         popped[n - 1].new_root = Join(stack[n - 1].new_root, Join(stack[n].new_root, stack[n].root))
  PROVE  Follows(popped, table)
<1> DEFINE m == n - 1
<1>1. /\ m \in Nat \ {0} /\ m \in 1..m /\ m \in 1..n /\ n \in 1..n /\ m + 1 = n
      /\ \A k \in 1..m : k \in 1..n /\ k # n /\ (k = m \/ (k \in 1..(m - 1) /\ k # m))
  OBVIOUS
<1>2. PICK met : Parts(stack, table, met)
  BY DEF Follows
<1> DEFINE now == [k \in 1..m |-> IF k = m THEN table ELSE met[k]]
<1>3. met \in [1..n -> SUBSET File] /\ met[n] = table /\ met[m] \in SUBSET File
  BY <1>1, <1>2 DEF Parts
<1>5. /\ n - 2 = m - 1 /\ Len(popped) = m /\ m # n
      /\ popped[m].file = stack[m].file /\ popped[m].root = stack[m].root
      /\ popped[m].i = stack[m].i + 1
      /\ popped[m].new_root = Join(stack[m].new_root, Join(stack[n].new_root, stack[n].root))
      /\ stack[m].i <= Len(stack[m].root)
  OBVIOUS
<1> HIDE DEF m
<1>4. /\ now[m] = table /\ \A k \in 1..(m - 1) : now[k] = met[k]
      /\ now \in [1..m -> SUBSET File]
  <2>1. now[m] = table /\ \A k \in 1..(m - 1) : now[k] = met[k]
    BY <1>1
  <2>2. \A k \in 1..m : met[k] \in SUBSET File
    BY <1>1, <1>3
  <2>3. now \in [1..m -> SUBSET File]
    BY <2>2
  <2> QED
    BY <2>1, <2>3
<1> HIDE DEF now
<1>6. ASSUME NEW k \in 1..m
      PROVE  popped[k].file = stack[k].file /\ Start(popped, now, k) = Start(stack, met, k)
  <2>1. k # 1 => k - 1 \in 1..(m - 1)
    BY <1>1
  <2>2. popped[k].file = stack[k].file
    BY <1>1, <1>5
  <2> QED
    BY <1>4, <2>1, <2>2 DEF Start
<1>7. Part(popped, now, m)
  <2> DEFINE f == stack[m].file
             g == stack[n].file
             i == stack[m].i
             tree == Join(stack[n].new_root, stack[n].root)
  <2>1. /\ f \in File /\ g \in File /\ i \in 1..Len(body[f])
        /\ stack[m].new_root \in Seq(Node) /\ tree \in Seq(Node)
    <3>1. Good(stack[m]) /\ Copy(stack[m]) /\ Good(stack[n])
      BY <1>1
    <3>2. stack[n].new_root \in Seq(Node) /\ stack[n].root \in Seq(Node)
      BY <3>1 DEF Good, FrameType
    <3>3. tree \in Seq(Node)
      BY <3>2, JoinIsTree
    <3> QED
      BY <1>5, <3>1, <3>3, SMTT(30) DEF Good, FrameType, Copy
  <2>2. g = body[f][i] /\ g \notin met[m] /\ g \notin broken
    <3>1. m \in 1..(Len(stack) - 1)
      BY <1>1 DEF m
    <3> QED
      BY <1>1, <1>2, <3>1 DEF Parts
  <2>3. LeadsInto(body[f][i], met[m], table, tree)
    <3>1. Start(stack, met, n) = met[m] \cup {g}
      BY <1>1 DEF Start, m
    <3>2. Cleared(stack[n], stack[n].i) /\ Part(stack, met, n)
      BY <1>1, <1>2 DEF Follows, Ahead, Parts
    <3>3. Good(stack[n]) /\ Copy(stack[n]) /\ stack[n].i = Len(stack[n].root) + 1
      BY <1>1
    <3>4. /\ Met(stack[n].file, stack[n].i, table) = table
          /\ Program(stack[n].file, stack[n].i, table) = stack[n].root
      BY <3>2, <3>3, PartDone
    <3>5. Met(g, 1, met[m] \cup {g}) = table /\ Program(g, 1, met[m] \cup {g}) = tree
      BY <1>3, <3>1, <3>2, <3>4 DEF Part
    <3> QED
      BY <2>2, <3>5 DEF LeadsInto
  <2>4. /\ Met(f, 1, Start(stack, met, m)) = Met(f, i, met[m])
        /\ Program(f, 1, Start(stack, met, m)) = Join(stack[m].new_root, Program(f, i, met[m]))
    BY <1>1, <1>2 DEF Part, Parts
  <2> HIDE DEF f, g, i, tree
  <2>5. Taken(f, i, met[m], stack[m].new_root, tree, table)
    <3>1. PICK ms \in SUBSET File, ff \in File : ms = met[m] /\ ff = f
      BY <1>3, <2>1
    <3>2. PICK us \in Seq(Node), ts \in Seq(Node) : us = stack[m].new_root /\ ts = tree
      BY <2>1
    <3>3. PICK ii \in 1..Len(body[ff]) : ii = i
      BY <2>1, <3>1
    <3>4. body[ff][ii] \in File /\ LeadsInto(body[ff][ii], ms, table, ts)
      BY <2>1, <2>2, <2>3, <3>1, <3>2, <3>3
    <3>5. Taken(ff, ii, ms, us, ts, table)
      BY <3>4, PartJoined
    <3> QED
      BY <3>1, <3>2, <3>3, <3>5
  <2>6. /\ popped[m].file = f /\ popped[m].i = i + 1 /\ now[m] = table
        /\ popped[m].new_root = Join(stack[m].new_root, tree)
        /\ Start(popped, now, m) = Start(stack, met, m)
    BY <1>1, <1>4, <1>5, <1>6 DEF f, i, tree
  <2> QED
    BY <2>4, <2>5, <2>6 DEF Part, Taken
<1>8. ASSUME NEW k \in 1..m
      PROVE  Part(popped, now, k)
  <2>1. CASE k = m
    BY <1>7, <2>1
  <2>2. CASE k # m
    <3>1. popped[k] = stack[k] /\ now[k] = met[k] /\ Part(stack, met, k)
      BY <1>1, <1>2, <1>4, <1>5, <2>2 DEF Parts
    <3> QED
      BY <1>6, <3>1 DEF Part
  <2> QED
    BY <2>1, <2>2
<1>9. Parts(popped, table, now)
  <2>1. ASSUME NEW k \in 1..(m - 1)
        PROVE  /\ body[popped[k].file][popped[k].i] = popped[k + 1].file
               /\ popped[k + 1].file \notin now[k]
    <3>1. popped[k] = stack[k] /\ now[k] = met[k] /\ k + 1 \in 1..m /\ k \in 1..(Len(stack) - 1)
      BY <1>1, <1>4, <1>5
    <3>2. popped[k + 1].file = stack[k + 1].file
      BY <1>6, <3>1
    <3> QED
      BY <1>2, <3>1, <3>2 DEF Parts
  <2> QED
    BY <1>4, <1>5, <1>8, <2>1 DEF Parts
<1>10. ASSUME NEW k \in 1..m
       PROVE  Cleared(popped[k], Ahead(popped, k))
  <2>1. Cleared(stack[k], Ahead(stack, k)) /\ Ahead(stack, k) = stack[k].i + 1
    BY <1>1 DEF Follows, Ahead
  <2>2. CASE k = m
    <3>1. Ahead(popped, k) = stack[m].i + 1
      BY <1>5, <2>2 DEF Ahead
    <3> QED
      BY <1>5, <2>1, <2>2, <3>1 DEF Cleared
  <2>3. CASE k # m
    <3>1. popped[k] = stack[k] /\ Ahead(popped, k) = Ahead(stack, k)
      BY <1>1, <1>5, <2>3 DEF Ahead
    <3> QED
      BY <2>1, <3>1
  <2> QED
    BY <2>2, <2>3
<1> QED
  BY <1>5, <1>9, <1>10 DEF Follows
(* The last call returns.                                                  *)
LEMMA FollowsLast ==
  ASSUME body \in [File -> Bodies], NEW stack, Len(stack) = 1,
         NEW table \in SUBSET File, Follows(stack, table),
         Good(stack[1]), Copy(stack[1]), stack[1].i = Len(stack[1].root) + 1
  PROVE  /\ Met(stack[1].file, 1, {}) = table
         /\ Program(stack[1].file, 1, {}) = Join(stack[1].new_root, stack[1].root)
<1>1. PICK met : Parts(stack, table, met)
  BY DEF Follows
<1>2. Part(stack, met, 1) /\ met[1] = table /\ Start(stack, met, 1) = {}
  BY <1>1 DEF Parts, Start
<1>3. Cleared(stack[1], stack[1].i)
  BY DEF Follows, Ahead
<1>4. /\ Met(stack[1].file, stack[1].i, table) = table
      /\ Program(stack[1].file, stack[1].i, table) = stack[1].root
  BY <1>3, PartDone
<1> QED
  BY <1>2, <1>4 DEF Part

(* What the steps leave cleared.                                           *)
LEMMA NulledCleared ==
  ASSUME NEW frame, Good(frame), frame.i <= Len(frame.root), Cleared(frame, frame.i),
         body[frame.file][frame.i] # Plain
  PROVE  Cleared(Nulled(frame), frame.i + 1)
<1> DEFINE node == [frame.root[frame.i] EXCEPT !.what = Null]
           root == [frame.root EXCEPT ![frame.i] = node]
<1>1. frame.root \in Seq(Node) /\ frame.i \in 1..Len(frame.root)
  BY DEF Good, FrameType
<1>2. frame.root[frame.i] \in Node
  BY <1>1, ElementOfSeq
<1>3. node \in Node /\ node.what = Null
  BY <1>2 DEF Node
<1>4. \A j \in 1..Len(frame.root) : root[j] = IF j = frame.i THEN node ELSE frame.root[j]
  BY <1>1, <1>3, ExceptSeq
<1>5. Nulled(frame) = [file |-> frame.file, root |-> root,
                       i |-> frame.i, new_root |-> frame.new_root]
  <2>1. Nulled(frame) = [frame EXCEPT !.root = root]
    BY Zenon DEF Nulled
  <2> HIDE DEF root
  <2> QED
    BY <2>1 DEF Good, FrameType
<1> HIDE DEF node, root
<1>6. Nulled(frame).file = frame.file /\ Nulled(frame).root = root
  BY <1>5
<1>7. ASSUME NEW j \in 1..(frame.i + 1 - 1)
      PROVE  root[j].what = IF body[frame.file][j] = Plain THEN Plain ELSE Null
  <2>1. j \in 1..Len(frame.root) /\ (j = frame.i \/ (j # frame.i /\ j \in 1..(frame.i - 1)))
    BY <1>1
  <2>2. CASE j = frame.i
    BY <1>3, <1>4, <2>1, <2>2
  <2>3. CASE j # frame.i
    BY <1>4, <2>1, <2>3 DEF Cleared
  <2> QED
    BY <2>2, <2>3
<1> SUFFICES ASSUME NEW cleared, cleared = Nulled(frame), NEW here, here = frame.i + 1
             PROVE  Cleared(cleared, here)
  OBVIOUS
<1>8. cleared.file = frame.file /\ cleared.root = root
  BY <1>6
<1>9. ASSUME NEW j \in 1..(here - 1)
      PROVE  cleared.root[j].what = IF body[cleared.file][j] = Plain THEN Plain ELSE Null
  <2>1. root[j].what = IF body[frame.file][j] = Plain THEN Plain ELSE Null
    <3>1. frame.i \in Nat /\ j \in 1..(frame.i + 1 - 1)
      BY DEF Good
    <3> QED
      BY <1>7, <3>1
  <2>2. cleared.root[j] = root[j]
    BY <1>8
  <2> QED
    BY <1>8, <2>1, <2>2
<1> QED
  BY <1>9 DEF Cleared

(* Within a link the disk stays, so the search does.                       *)
LEMMA FollowsLater ==
  ASSUME body' = body, broken' = broken, Follows(calls', Listed')
  PROVE  Follows(calls, Listed)'
<1>1. ASSUME NEW f, NEW i, NEW met
      PROVE  Met(f, i, met)' = Met(f, i, met) /\ Program(f, i, met)' = Program(f, i, met)
  <2>1. Visit' = Visit
    BY VisitSame
  <2>2. At(f, i, met)' = At(f, i, met)
    BY DEF At, Searched!At
  <2> QED
    BY <2>1, <2>2 DEF Met, Program
<1>2. PICK met : Parts(calls', Listed', met)
  BY DEF Follows
<1>3. ASSUME NEW k \in 1..Len(calls')
      PROVE  Part(calls, met, k)'
  <2>1. Part(calls', met, k)
    BY <1>2 DEF Parts
  <2>2. Start(calls, met, k)' = Start(calls', met, k)
    BY DEF Start
  <2> QED
    BY <1>1, <2>1, <2>2 DEF Part
<1>5. Parts(calls, Listed, met)'
  BY <1>2, <1>3 DEF Parts
<1>4. \A k \in 1..Len(calls') : Cleared(calls[k], Ahead(calls, k))'
  BY DEF Follows, Cleared, Ahead
<1> QED
  BY <1>4, <1>5 DEF Follows

-----------------------------------------------------------------------------
(* The steps.                                                              *)

(* A statement is passed over.                                             *)
LEMMA PassedFollows ==
  ASSUME IInv, SInv, LInv, InLoop, NEW frame \in FrameType,
         calls' = [calls EXCEPT ![Len(calls)] = frame],
         frame.file = Top.file, frame.i = Top.i + 1, frame.new_root = Top.new_root,
         Cleared(frame, Top.i + 1), PassesOver(Current, Listed, Listed')
  PROVE  Follows(calls', Listed')
<1> DEFINE n == Len(calls)
<1>1. Top = calls[n] /\ n \in Nat \ {0} /\ calls \in Seq(FrameType) /\ n \in 1..n
  BY TopGood DEF InLoop, IInv, Stack
<1>2. /\ calls' \in Seq(FrameType) /\ Len(calls') = n
      /\ \A k \in 1..n : calls'[k] = IF k = n THEN frame ELSE calls[k]
  BY <1>1, ExceptSeq
<1>3. (\A k \in 1..(n - 1) : calls'[k] = calls[k]) /\ calls'[n] = frame
  <2>1. \A k \in 1..(n - 1) : k \in 1..n /\ k # n
    BY <1>1
  <2> QED
    BY <1>1, <1>2, <2>1
<1>4. /\ Current = body[Top.file][Top.i] /\ Top.file \in File
      /\ Top.i \in 1..Len(body[Top.file])
  BY CurrentIs DEF SInv, InLoop, Search
<1>5. Follows(calls, Listed) /\ body \in [File -> Bodies] /\ Listed \in SUBSET File
  BY ListedFinite DEF LInv, InLoop, IInv
<1> SUFFICES ASSUME NEW moved, moved = calls', NEW entered, entered = Listed'
             PROVE  Follows(moved, entered)
  OBVIOUS
<1>6. /\ n = Len(calls) /\ calls[n].file \in File /\ calls[n].i \in 1..Len(body[calls[n].file])
      /\ Len(moved) = n /\ \A k \in 1..(n - 1) : moved[k] = calls[k]
      /\ moved[n].file = calls[n].file /\ moved[n].new_root = calls[n].new_root
      /\ moved[n].i = calls[n].i + 1 /\ Cleared(moved[n], calls[n].i + 1)
      /\ PassesOver(body[calls[n].file][calls[n].i], Listed, entered)
  BY <1>1, <1>2, <1>3, <1>4
<1> HIDE DEF n
<1> QED
  BY <1>1, <1>5, <1>6, FollowsMove

LEMMA LoadOtherFollows ==
  ASSUME IInv, SInv, LInv, LoadOther
  PROVE  Follows(calls', Listed')
<1> DEFINE frame == Advanced(Top)
<1>1. /\ InLoop /\ Current \notin File /\ calls' = [calls EXCEPT ![Len(calls)] = frame]
      /\ Listed' = Listed
  BY DEF LoadOther, Top, Listed
<1>2. /\ Good(Top) /\ Copy(Top) /\ Unread(Top, Top.i) /\ Current = Plain
      /\ Current = body[Top.file][Top.i]
  BY <1>1, CurrentIs DEF SInv, InLoop, Search
<1>3. Waiting(Top) /\ Top.i \in Nat /\ Top.root[Top.i].what = Plain
  BY <1>1, <1>2 DEF InLoop, Current, Waiting, Good
<1>4. /\ frame \in FrameType /\ frame.file = Top.file /\ frame.root = Top.root
      /\ frame.i = Top.i + 1 /\ frame.new_root = Top.new_root
  BY <1>2, <1>3, AdvancedGood, AdvancedFields DEF Good
<1>5. Cleared(Top, Top.i)
  BY <1>1, TopGood DEF LInv, InLoop, Follows, Ahead
<1> HIDE DEF frame
<1>6. Cleared(frame, Top.i + 1)
  <2>1. \A j \in 1..(Top.i + 1 - 1) : j = Top.i \/ j \in 1..(Top.i - 1)
    BY <1>3
  <2> QED
    BY <1>2, <1>3, <1>4, <1>5, <2>1 DEF Cleared
<1>7. PassesOver(Current, Listed, Listed')
  BY <1>1, <1>2 DEF PassesOver
<1> QED
  BY <1>1, <1>4, <1>6, <1>7, PassedFollows

(* The innermost call once the import it is at is cleared.                 *)
LEMMA ImportCleared ==
  ASSUME IInv, SInv, LInv, check_import
  PROVE  /\ Cleared(Nulled(Top), Top.i + 1)
         /\ Cleared(Advanced(Nulled(Top)), Top.i + 1)
<1>1. InLoop /\ Current \in File /\ Current # Plain
  BY FileAssumption DEF check_import
<1>2. Good(Top) /\ Top.i <= Len(Top.root) /\ Current = body[Top.file][Top.i]
  BY <1>1, CurrentIs DEF SInv, InLoop, Search
<1>3. Cleared(Top, Top.i)
  BY <1>1, TopGood DEF LInv, InLoop, Follows, Ahead
<1>4. Cleared(Nulled(Top), Top.i + 1)
  BY <1>1, <1>2, <1>3, NulledCleared
<1>5. Nulled(Top) \in FrameType
  BY <1>2, NulledGood DEF Good
<1>6. Advanced(Nulled(Top)).file = Nulled(Top).file /\ Advanced(Nulled(Top)).root = Nulled(Top).root
  BY <1>5, AdvancedFields
<1> QED
  BY <1>4, <1>6 DEF Cleared

LEMMA ImportAgainFollows ==
  ASSUME IInv, SInv, LInv, ImportAgain
  PROVE  Follows(calls', Listed')
<1> DEFINE frame == Advanced(Nulled(Top))
<1>1. /\ check_import /\ InLoop /\ calls' = [calls EXCEPT ![Len(calls)] = frame]
      /\ Listed' = Listed /\ Current \in Listed
  BY ExistIsListed DEF ImportAgain, check_import, Top, Listed, IInv
<1>2. /\ frame \in FrameType /\ frame.file = Top.file
      /\ frame.i = Top.i + 1 /\ frame.new_root = Top.new_root
  BY <1>1, PassedImport
<1>3. Cleared(frame, Top.i + 1)
  BY <1>1, ImportCleared
<1>4. PassesOver(Current, Listed, Listed')
  BY <1>1 DEF PassesOver
<1> HIDE DEF frame
<1> QED
  BY <1>1, <1>2, <1>3, <1>4, PassedFollows

LEMMA ImportBrokenFollows ==
  ASSUME IInv, SInv, LInv, ImportBroken
  PROVE  Follows(calls', Listed')
<1> DEFINE frame == Advanced(Nulled(Top))
<1>1. /\ check_import /\ InLoop /\ calls' = [calls EXCEPT ![Len(calls)] = frame]
      /\ Current \in File \cap broken /\ Current \notin Listed
      /\ filename_table' = Append(filename_table, Current)
  BY ExistIsListed DEF ImportBroken, check_import, Top, IInv
<1>2. Listed' = Listed \cup {Current}
  BY <1>1, ListedAppend DEF IInv
<1>3. /\ frame \in FrameType /\ frame.file = Top.file
      /\ frame.i = Top.i + 1 /\ frame.new_root = Top.new_root
  BY <1>1, PassedImport
<1>4. Cleared(frame, Top.i + 1)
  BY <1>1, ImportCleared
<1>5. PassesOver(Current, Listed, Listed')
  BY <1>1, <1>2, FileAssumption DEF PassesOver
<1> HIDE DEF frame
<1> QED
  BY <1>1, <1>3, <1>4, <1>5, PassedFollows

LEMMA ImportFileFollows ==
  ASSUME IInv, SInv, LInv, ImportFile
  PROVE  Follows(calls', Listed')
<1> DEFINE n == Len(calls)
           h == Current
           paused == [calls EXCEPT ![n] = Nulled(Top)]
           pushed == paused \o <<Frame(h)>>
<1>1. /\ check_import /\ InLoop /\ calls # <<>> /\ calls' = pushed
      /\ h \in File /\ h \notin Listed
      /\ filename_table' = Append(filename_table, h)
  BY ExistIsListed DEF ImportFile, check_import, InLoop, Top, IInv
<1>2. Listed' = Listed \cup {h}
  BY <1>1, ListedAppend DEF IInv
<1>3. /\ Good(Top) /\ Copy(Top) /\ Unread(Top, Top.i)
      /\ h = body[Top.file][Top.i] /\ Top.i <= Len(Top.root) /\ Top.i \in Nat
  BY <1>1, CurrentIs DEF InLoop, Good, SInv, Search
<1>4. calls \in Seq(FrameType) /\ n \in Nat \ {0} /\ n \in 1..n /\ Top = calls[n] /\ n = Len(calls)
  BY <1>1, TopGood DEF IInv, Stack
<1>5. /\ Nulled(Top).file = Top.file /\ Nulled(Top).i = Top.i
      /\ Nulled(Top).new_root = Top.new_root /\ Nulled(Top) \in FrameType
  BY <1>3, NulledCopy, NulledGood DEF Good
<1>6. Cleared(Nulled(Top), Top.i + 1)
  BY <1>1, ImportCleared
<1>7. /\ paused \in Seq(FrameType) /\ Len(paused) = n
      /\ \A k \in 1..n : paused[k] = IF k = n THEN Nulled(Top) ELSE calls[k]
  BY <1>4, <1>5, ExceptSeq
<1>8. /\ Frame(h) \in FrameType
      /\ Frame(h).file = h /\ Frame(h).i = 1 /\ Frame(h).new_root = <<>>
  BY <1>1, FrameCopy, FrameGood DEF IInv, Good
<1>9. Follows(calls, Listed) /\ body \in [File -> Bodies] /\ Listed \in SUBSET File
  BY <1>1, ListedFinite DEF LInv, IInv
<1> HIDE DEF paused, n, h
<1>10. Len(pushed) = n + 1 /\ pushed[n + 1] = Frame(h) /\ \A k \in 1..n : pushed[k] = paused[k]
  <2>1. paused \in Seq(FrameType) /\ Len(paused) = n /\ Frame(h) \in FrameType
    BY <1>7, <1>8
  <2> QED
    BY <2>1, OneMore
<1> HIDE DEF pushed
<1>11. (\A k \in 1..(n - 1) : pushed[k] = calls[k]) /\ pushed[n] = Nulled(Top)
  <2>1. \A k \in 1..(n - 1) : k \in 1..n /\ k # n
    BY <1>4
  <2> QED
    BY <1>4, <1>7, <1>10, <2>1
<1>12. Follows(pushed, Listed \cup {h})
  <2>1. /\ n \in Nat \ {0} /\ n = Len(calls) /\ h \in File /\ h \notin Listed
        /\ calls[n].i \in Nat /\ body[calls[n].file][calls[n].i] = h
    BY <1>1, <1>3, <1>4
  <2>2. /\ Len(pushed) = n + 1 /\ \A k \in 1..(n - 1) : pushed[k] = calls[k]
        /\ pushed[n].file = calls[n].file /\ pushed[n].new_root = calls[n].new_root
        /\ pushed[n].i = calls[n].i /\ Cleared(pushed[n], calls[n].i + 1)
    BY <1>4, <1>5, <1>6, <1>10, <1>11
  <2>3. pushed[n + 1].file = h /\ pushed[n + 1].new_root = <<>> /\ pushed[n + 1].i = 1
    BY <1>8, <1>10
  <2> QED
    BY <1>9, <2>1, <2>2, <2>3, FollowsPush, SMTT(30)
<1> QED
  BY <1>1, <1>2, <1>12

(* A call returns to the one that waits for it, ...                        *)
LEMMA ReturnFollows ==
  ASSUME IInv, SInv, LInv, LoadReturn, calls' # <<>>
  PROVE  Follows(calls', Listed')
<1> DEFINE n == Len(calls)
<1>1. calls # <<>> /\ Top.i > Len(Top.root) /\ filename_table' = filename_table
  BY DEF LoadReturn
<1>2. n \in Nat /\ n > 1 /\ n = Len(calls)
  <2>1. n # 1
    BY DEF LoadReturn
  <2>2. \A m \in Nat \ {0} : m # 1 => m \in Nat /\ m > 1
    OBVIOUS
  <2> QED
    BY <1>1, <2>1, <2>2, TopGood, Zenon
<1>3. Chain(calls, Listed) /\ Stack(calls, Listed) /\ Top = calls[n]
  BY <1>1, TopGood DEF SInv, Search, IInv
<1>4. /\ Follows(calls, Listed) /\ body \in [File -> Bodies] /\ Listed \in SUBSET File
      /\ Listed' = Listed
  BY <1>1, ListedFinite DEF LInv, IInv, Listed
<1>5. \A k \in 1..n : Good(calls[k]) /\ Copy(calls[k])
  BY <1>3 DEF Stack, Chain
<1>6. calls[n].file \notin broken
  BY <1>2, <1>3 DEF Chain
<1>7. calls[n].i = Len(calls[n].root) + 1
  <2>1. Top.i \in 1..(Len(Top.root) + 1) /\ Len(Top.root) \in Nat
    BY <1>1, TopGood, LenProperties DEF Good, FrameType
  <2> QED
    BY <1>1, <1>3, <2>1
<1>8. calls[n - 1].i <= Len(calls[n - 1].root)
  BY <1>2, <1>3 DEF Stack, Waiting
<1> HIDE DEF n
<1>9. /\ Len(calls') = n - 1
      /\ \A k \in 1..(n - 2) : calls'[k] = calls[k]
      /\ calls'[n - 1].file = calls[n - 1].file /\ calls'[n - 1].root = calls[n - 1].root
      /\ calls'[n - 1].i = calls[n - 1].i + 1
      /\ calls'[n - 1].new_root
           = Join(calls[n - 1].new_root, Join(calls[n].new_root, calls[n].root))
  BY <1>2, Popped DEF Join
<1> SUFFICES ASSUME NEW popped, popped = calls'
             PROVE  Follows(popped, Listed)
  BY <1>4
<1> QED
  BY <1>2, <1>4, <1>5, <1>6, <1>7, <1>8, <1>9, FollowsPop

(* ... and the outermost call with what the whole search finds.            *)
LEMMA ReturnFinishes ==
  ASSUME IInv, SInv, LInv, LoadReturn, calls' = <<>>
  PROVE  Met(main, 1, {}) = Listed /\ Program(main, 1, {}) = import_ast'
<1>1. calls # <<>> /\ Top.i > Len(Top.root) /\ filename_table' = filename_table
  BY DEF LoadReturn
<1>2. Len(calls) = 1
  <2>1. CASE Len(calls) # 1
    <3>1. Len(calls) \in Nat /\ Len(calls) > 1
      <4>1. \A m \in Nat \ {0} : m # 1 => m \in Nat /\ m > 1
        OBVIOUS
      <4> QED
        BY <1>1, <2>1, <4>1, TopGood, Zenon
    <3> QED
      BY <3>1, Popped
  <2> QED
    BY <2>1
<1>3. Chain(calls, Listed) /\ Top = calls[1] /\ Good(Top)
  BY <1>1, <1>2, TopGood DEF SInv, Search
<1>4. /\ Follows(calls, Listed) /\ body \in [File -> Bodies] /\ Listed \in SUBSET File
  BY <1>1, ListedFinite DEF LInv, IInv
<1>5. Copy(Top) /\ Top.file = main
  BY <1>2, <1>3 DEF Chain
<1>6. Top.i = Len(Top.root) + 1
  <2>1. Top.i \in 1..(Len(Top.root) + 1) /\ Len(Top.root) \in Nat
    BY <1>3, LenProperties DEF Good, FrameType
  <2> QED
    BY <1>1, <2>1
<1>7. import_ast' = Join(Top.new_root, Top.root)
  BY <1>2 DEF LoadReturn, Loaded, Join
<1>8. /\ Met(calls[1].file, 1, {}) = Listed
      /\ Program(calls[1].file, 1, {}) = Join(calls[1].new_root, calls[1].root)
  BY <1>2, <1>3, <1>4, <1>5, <1>6, FollowsLast
<1> QED
  BY <1>3, <1>5, <1>7, <1>8

LEMMA LoadLInv ==
  ASSUME IInv, SInv, LInv, Load
  PROVE  LInv'
<1>1. body' = body /\ broken' = broken
  BY DEF Load, LoadOther, ImportAgain, ImportBroken, ImportFile, LoadReturn, disk
<1>2. ASSUME calls' # <<>>
      PROVE  Follows(calls', Listed')
  BY <1>2, LoadOtherFollows, ImportAgainFollows, ImportBrokenFollows, ImportFileFollows,
     ReturnFollows DEF Load
<1>3. ASSUME calls' # <<>>
      PROVE  Follows(calls, Listed)'
  BY <1>1, <1>2, <1>3, FollowsLater
<1> QED
  BY <1>3 DEF LInv

LEMMA NextLInv == IInv /\ SInv /\ LInv /\ [Next]_vars => LInv'
<1> SUFFICES ASSUME IInv, SInv, LInv, [Next]_vars PROVE LInv'
  OBVIOUS
<1>1. ASSUME NEW f \in File, Link(f)
      PROVE  LInv'
  <2>1. /\ calls' = <<Frame(f)>> /\ filename_table' = <<>> /\ body' = body /\ broken' = broken
    BY <1>1 DEF Link, disk
  <2>2. Frame(f).file = f /\ Frame(f).i = 1 /\ Frame(f).new_root = <<>>
    BY FrameCopy DEF IInv
  <2>3. Listed' = {} /\ Len(calls') = 1 /\ calls'[1] = Frame(f)
    BY <2>1 DEF Listed
  <2>4. Follows(calls', {})
    <3> SUFFICES ASSUME NEW stack, stack = calls'
                 PROVE  Follows(stack, {})
      OBVIOUS
    <3> QED
      BY <2>2, <2>3, FollowsStart DEF IInv
  <2>5. Follows(calls, Listed)'
    BY <2>1, <2>3, <2>4, FollowsLater
  <2> QED
    BY <2>5 DEF LInv
<1>2. CASE Load
  BY <1>2, LoadLInv
<1>3. CASE UNCHANGED vars
  <2>1. /\ body' = body /\ broken' = broken /\ calls' = calls /\ Listed' = Listed
    BY <1>3 DEF vars, Listed
  <2> QED
    BY <2>1, FollowsLater DEF LInv
<1> QED
  BY <1>1, <1>2, <1>3 DEF Next

-----------------------------------------------------------------------------
(* The refinement.                                                         *)

LEMMA InitImplements ==
  ASSUME Init
  PROVE  Searched!LinkedInit
BY DEF Init, Searched!LinkedInit, Bodies, Statement

LEMMA LinkImplements ==
  ASSUME NEW f \in File, Link(f)
  PROVE  Searched!Begin(f)
<1>1. calls' # <<>>
  <2>1. Len(calls') # 0
    BY DEF Link
  <2> QED
    BY <2>1, NotEmpty
<1> QED
  BY <1>1 DEF Link, disk, Searched!Begin

(* Only a return leaves no call.                                           *)
LEMMA OthersCall ==
  ASSUME IInv, SInv, LoadOther \/ ImportAgain \/ ImportBroken \/ ImportFile
  PROVE  calls' # <<>>
<1> DEFINE n == Len(calls)
<1>1. /\ InLoop /\ calls # <<>>
  BY DEF LoadOther, ImportAgain, ImportBroken, ImportFile, check_import, InLoop
<1>2. calls \in Seq(FrameType) /\ n \in Nat \ {0} /\ n \in 1..n /\ Good(Top)
  BY <1>1, TopGood DEF IInv, Stack
<1>3. ASSUME NEW frame \in FrameType, calls' = [calls EXCEPT ![n] = frame]
      PROVE  calls' # <<>>
  <2>1. Len(calls') = n
    BY <1>2, <1>3, ExceptSeq
  <2> QED
    BY <1>2, <2>1, NotEmpty
<1>4. CASE LoadOther
  <2>1. Waiting(Top)
    BY <1>4 DEF LoadOther, InLoop, Current, Waiting
  <2>2. Advanced(Top) \in FrameType
    BY <1>2, <2>1, AdvancedGood DEF Good
  <2> QED
    BY <1>3, <1>4, <2>2 DEF LoadOther, Top
<1>5. CASE ImportAgain \/ ImportBroken
  <2>1. Advanced(Nulled(Top)) \in FrameType
    BY <1>1, Passed DEF Good
  <2> QED
    BY <1>3, <1>5, <2>1 DEF ImportAgain, ImportBroken, Top
<1>6. CASE ImportFile
  <2> DEFINE paused == [calls EXCEPT ![n] = Nulled(Top)]
  <2>1. calls' = paused \o <<Frame(Current)>> /\ Current \in File
    BY <1>6 DEF ImportFile, check_import, Top
  <2>2. Frame(Current) \in FrameType
    BY <2>1, FrameGood DEF IInv, Good
  <2>3. Nulled(Top) \in FrameType
    BY <1>1, <1>2, NulledGood DEF InLoop, Good
  <2>4. paused \in Seq(FrameType) /\ Len(paused) = n
    BY <1>2, <2>3, ExceptSeq
  <2> HIDE DEF paused
  <2>5. Len(calls') = n + 1
    BY <2>1, <2>2, <2>4, OneMore
  <2>6. Len(calls') # 0
    BY <1>2, <2>5
  <2> QED
    BY <2>6, NotEmpty
<1> QED
  BY <1>4, <1>5, <1>6

LEMMA LoadImplements ==
  ASSUME IInv, SInv, LInv, Load
  PROVE  Searched!Finish \/ UNCHANGED Searched!linked
<1>1. calls # <<>> /\ body' = body /\ broken' = broken /\ main' = main
  BY DEF Load, LoadOther, ImportAgain, ImportBroken, ImportFile, LoadReturn, disk, check_import, InLoop
<1>2. CASE calls' = <<>>
  <2>1. ~ LoadOther /\ ~ ImportAgain /\ ~ ImportBroken /\ ~ ImportFile
    BY <1>2, OthersCall
  <2>2. LoadReturn
    BY <2>1 DEF Load
  <2>3. Met(main, 1, {}) = Listed /\ Program(main, 1, {}) = import_ast'
    BY <1>2, <2>2, ReturnFinishes
  <2>4. error' = Cardinality(Listed \cap broken)
    BY <2>2 DEF LoadReturn, IInv
  <2>5. Searched!Finish
    BY <1>1, <1>2, <2>3, <2>4
       DEF Searched!Finish, Met, Program, At, Visit, Cardinality, Searched!Cardinality
  <2> QED
    BY <2>5
<1>3. CASE calls' # <<>>
  <2>1. import_ast' = import_ast
    BY <1>3 DEF Load, LoadOther, ImportAgain, ImportBroken, ImportFile, LoadReturn
  <2> QED
    BY <1>1, <1>3, <2>1 DEF Searched!linked
<1> QED
  BY <1>2, <1>3

(* The linker implements the depth first search: whatever the files hold,  *)
(* every link ends with the program and the number of errors of the        *)
(* search, though load and file_import know only a table of names and      *)
(* what each call has put together.                                        *)
THEOREM LinkerSearches == Spec => ImplementsLinked
<1>1. Init => IInv /\ SInv /\ LInv /\ Searched!LinkedInit
  BY InitIInv, InitSInv, InitImplements DEF LInv, Init
<1>2. (IInv /\ SInv /\ LInv) /\ [Next]_vars => (IInv /\ SInv /\ LInv)'
  BY NextIInv, NextSInv, NextLInv
<1>3. (IInv /\ SInv /\ LInv) /\ [Next]_vars
        => [(\E f \in File : Searched!Begin(f)) \/ Searched!Finish]_(Searched!linked)
  <2> SUFFICES ASSUME IInv, SInv, LInv, [Next]_vars
               PROVE  [(\E f \in File : Searched!Begin(f)) \/ Searched!Finish]_(Searched!linked)
    OBVIOUS
  <2>1. CASE UNCHANGED vars
    BY <2>1 DEF vars, Searched!linked
  <2> QED
    BY <2>1, LinkImplements, LoadImplements DEF Next
<1> QED
  BY <1>1, <1>2, <1>3, PTL DEF Spec, ImplementsLinked, Searched!Linking
=============================================================================

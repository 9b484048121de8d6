----------------------------- MODULE NasalVMProofs -----------------------------
(* Proofs about NasalVM: what holds whatever code the machine runs.         *)
EXTENDS NasalMachine, NasalStoreProofs

-----------------------------------------------------------------------------
(* The builtin functions.                                                   *)

(* The caller gets a reference to what is returned.                         *)
Gives(result, refs, account) ==
  Sound(result.vm, More(refs, <<result.ret>>), account) /\ result.ret \in Int

LEMMA ErrorGives ==
  ASSUME NEW s, NEW refs, NEW account, Sound(s, refs, account)
  PROVE  Gives(Error(s), refs, account)
<1> DEFINE owned == More(refs, <<None>>)
<1>1. refs \in [Int -> Int] /\ None \in Int /\ None \notin DOMAIN s.unit /\ DOMAIN s.unit \subseteq Int
  BY Addresses
<1>2. owned \in [Int -> Int] /\ \A a \in Int : owned[a] = refs[a] + (IF None = a THEN 1 ELSE 0)
  BY <1>1, MoreFewerOne
<1> HIDE DEF owned
<1>3. \A a \in Int : a # None => owned[a] = refs[a]
  <2> TAKE a \in Int
  <2> HAVE a # None
  <2>1. owned[a] = refs[a] + 0 /\ refs[a] \in Int
    BY <1>1, <1>2
  <2> QED
    BY <2>1
<1>4. (\A a \in Int : a # None /\ owned[a] > 0 => owned[a] <= refs[a]) /\ \A a \in DOMAIN s.unit : owned[a] <= refs[a]
  BY <1>1, <1>3
<1>5. Sound(s, owned, account)
  BY <1>2, <1>4, Weaker
<1> QED
  BY <1>1, <1>5 DEF Gives, Error, Returns, owned

LEMMA NewGives ==
  ASSUME NEW s, NEW refs, NEW account, Sound(s, refs, account), IsAccount(account),
         NEW type, type \notin {"vector", "hash", "closure", "function"}, NEW val
  PROVE  Gives(ReturnsNew(s, type, val), refs, account)
<1> DEFINE t == gc_alloc_with(s, type, val)
<1>1. Sound(t, More(refs, <<NextUnit(s)>>), account)
  BY NewSound
<1>2. NextUnit(s) \in Int
  BY Addresses
<1> QED
  BY <1>1, <1>2 DEF Gives, ReturnsNew, Returns

LEMMA NilGives ==
  ASSUME NEW s, NEW refs, NEW account, Sound(s, refs, account), IsAccount(account)
  PROVE  Gives(ReturnsNil(s), refs, account)
BY NewGives DEF ReturnsNil

LEMMA IsThere ==
  ASSUME NEW s, NEW a, NEW type, type # "nil", Is(s, a, type)
  PROVE  a \in DOMAIN s.unit /\ s.unit[a].type = type
BY DEF Is, Type, Live

LEMMA ValuesInIs ==
  ASSUME NEW s, NEW refs, NEW account, Sound(s, refs, account),
         NEW v \in DOMAIN s.unit, s.unit[v].type = "vector"
  PROVE  /\ IsSeq(ValuesIn(s, v)) /\ DOMAIN ValuesIn(s, v) = DOMAIN s.unit[v].val
         /\ \A i \in DOMAIN ValuesIn(s, v) : ValuesIn(s, v)[i] \in Held(s)
<1> DEFINE q == s.unit[v].val
           w == ValuesIn(s, v)
           n == Len(q)
<1>1. q \in Seq(Nat) /\ \A i \in DOMAIN q : q[i] \in DOMAIN s.mem
  BY VectorFacts
<1>2. w = [i \in DOMAIN q |-> s.mem[q[i]]]
  BY DEF ValuesIn, Val
<1> HIDE DEF w, q
<1>3. n \in Nat /\ DOMAIN q = 1..n
  BY <1>1
<1>4. \A i \in DOMAIN q : s.mem[q[i]] \in Held(s)
  BY <1>1, HeldByCell
<1> HIDE DEF n
<1>5. w = [i \in 1..n |-> w[i]] /\ \A i \in 1..n : w[i] \in Held(s)
  BY <1>2, <1>3, <1>4
<1>6. w \in Seq(Held(s))
  BY <1>3, <1>5, SeqMade
<1>7. IsSeq(w)
  BY <1>6, SeqIntro
<1>8. DOMAIN w = DOMAIN q /\ \A i \in DOMAIN w : w[i] \in Held(s)
  BY <1>3, <1>5
<1> QED
  BY <1>7, <1>8 DEF w, q

LEMMA AppendGives ==
  ASSUME NEW s, NEW refs, NEW account, Sound(s, refs, account), IsAccount(account), NEW v, NEW e
  PROVE  Gives(builtin_append(s, v, e), refs, account)
<1>1. CASE Is(s, v, "vector") /\ Is(s, e, "vector")
  <2>1. v \in DOMAIN s.unit /\ s.unit[v].type = "vector" /\ e \in DOMAIN s.unit /\ s.unit[e].type = "vector"
    BY <1>1, IsThere
  <2> DEFINE values == ValuesIn(s, e)
             t == VectorAddAll(s, v, values)
  <2>2. IsSeq(values) /\ \A i \in DOMAIN values : values[i] \in Held(s)
    BY <2>1, ValuesInIs
  <2> HIDE DEF values
  <2>3. Sound(t, refs, account)
    BY <2>1, <2>2, VectorAddAllSound
  <2> HIDE DEF t
  <2>4. Gives(ReturnsNil(t), refs, account)
    BY <2>3, NilGives
  <2> QED
    BY <1>1, <2>4 DEF builtin_append, t, values
<1>2. CASE ~(Is(s, v, "vector") /\ Is(s, e, "vector"))
  <2>1. builtin_append(s, v, e) = Error(s)
    BY <1>2 DEF builtin_append
  <2> QED
    BY <2>1, ErrorGives
<1> QED
  BY <1>1, <1>2

LEMMA NotEmpty ==
  ASSUME NEW q \in Seq(Nat), NEW none, none = <<>>, q # none
  PROVE  Len(q) > 0
OBVIOUS

LEMMA PopGives ==
  ASSUME NEW s, NEW refs, NEW account, Sound(s, refs, account), refs \in [Int -> Nat], NEW v
  PROVE  Gives(builtin_pop(s, v), refs, account)
<1> DEFINE q == s.unit[v].val
           result == DelElem(s, v)
           a == result.ret
           t == result.vm
<1>1. CASE Is(s, v, "vector") /\ q # <<>>
  <2>1. v \in DOMAIN s.unit /\ s.unit[v].type = "vector"
    BY <1>1, IsThere
  <2>2. q \in Seq(Nat)
    BY <2>1, VectorFacts
  <2>3. Len(q) > 0
    <3> DEFINE none == <<>>
    <3>1. q # none /\ none = <<>>
      BY <1>1
    <3> HIDE DEF q, result, none
    <3> QED
      BY <2>2, <3>1, NotEmpty
  <2>a. result = DelElem(s, v) /\ a = result.ret /\ q = s.unit[v].val /\ t = result.vm
    OBVIOUS
  <2> HIDE DEF result, a, q, t
  <2>4. a = s.mem[q[Len(q)]] /\ t = Cut(add_reference(s, a), v, Len(q) - 1)
    BY ONLY <2>a, DelElemIs
  <2>5. Sound(t, More(refs, <<a>>), account) /\ a \in Held(s)
    BY ZenonT(40), <2>1, <2>3, <2>4, <2>a, PopSound
  <2>6. a \in Int
    BY <2>5, Addresses
  <2>7. builtin_pop(s, v) = result
    BY <1>1 DEF builtin_pop, Val, result, q
  <2> QED
    BY <2>5, <2>6, <2>7, <2>a DEF Gives
<1>2. CASE ~(Is(s, v, "vector") /\ q # <<>>)
  <2>1. builtin_pop(s, v) = Error(s)
    BY <1>2 DEF builtin_pop, Val
  <2> QED
    BY <2>1, ErrorGives
<1> QED
  BY <1>1, <1>2

LEMMA SetSizeGives ==
  ASSUME NEW s, NEW refs, NEW account, Sound(s, refs, account), IsAccount(account),
         refs \in [Int -> Nat], NEW v, NEW a
  PROVE  Gives(builtin_setsize(s, v, a), refs, account)
<1> DEFINE n == NumberOf(s, a)
           l == Len(s.unit[v].val)
<1>1. CASE Is(s, v, "vector") /\ n \in Nat
  <2>1. v \in DOMAIN s.unit /\ s.unit[v].type = "vector"
    BY <1>1, IsThere
  <2>2. l \in Nat
    BY <2>1, VectorFacts
  <2>3. n \in Nat
    BY <1>1
  <2>4. builtin_setsize(s, v, a) = ReturnsNil(IF n < l THEN Cut(s, v, n) ELSE Grow(s, v, n))
    BY <1>1 DEF builtin_setsize, SetSize, Val
  <2> HIDE DEF n
  <2>5. CASE n < l
    <3>1. n \in 0..l
      <4> HIDE DEF l
      <4> QED
        BY <2>2, <2>3, <2>5
    <3>2. Sound(Cut(s, v, n), refs, account)
      BY <2>1, <3>1, CutSound
    <3> QED
      BY <2>4, <2>5, <3>2, NilGives
  <2>6. CASE ~(n < l)
    <3>1. n >= l
      <4> HIDE DEF l
      <4> QED
        BY <2>2, <2>3, <2>6
    <3>2. Sound(Grow(s, v, n), refs, account)
      BY <2>1, <2>3, <3>1, GrowSound
    <3> QED
      BY <2>4, <2>6, <3>2, NilGives
  <2> QED
    BY <2>5, <2>6
<1>2. CASE ~(Is(s, v, "vector") /\ n \in Nat)
  <2>1. builtin_setsize(s, v, a) = Error(s)
    BY <1>2 DEF builtin_setsize, SetSize
  <2> QED
    BY <2>1, ErrorGives
<1> QED
  BY <1>1, <1>2

LEMMA DeleteGives ==
  ASSUME NEW s, NEW refs, NEW account, Sound(s, refs, account), IsAccount(account),
         refs \in [Int -> Nat], NEW h, NEW k
  PROVE  Gives(builtin_delete(s, h, k), refs, account)
<1>1. CASE Is(s, h, "hash") /\ Is(s, k, "string")
  <2>1. h \in DOMAIN s.unit /\ s.unit[h].type = "hash"
    BY <1>1, IsThere
  <2> DEFINE t == Erased(s, h, Val(s, k))
  <2>2. Sound(t, refs, account)
    BY <2>1, ErasedSound
  <2>3. builtin_delete(s, h, k) = ReturnsNil(t)
    BY <1>1 DEF builtin_delete
  <2> HIDE DEF t
  <2> QED
    BY <2>2, <2>3, NilGives
<1>2. CASE ~(Is(s, h, "hash") /\ Is(s, k, "string"))
  <2>1. builtin_delete(s, h, k) = Error(s)
    BY <1>2 DEF builtin_delete
  <2> QED
    BY <2>1, ErrorGives
<1> QED
  BY <1>1, <1>2

LEMMA KeysGives ==
  ASSUME NEW s, NEW refs, NEW account, Sound(s, refs, account), IsAccount(account), NEW h
  PROVE  Gives(builtin_getkeys(s, h), refs, account)
<1>1. CASE Is(s, h, "hash")
  <2>1. h \in DOMAIN s.unit /\ s.unit[h].type = "hash"
    BY <1>1, IsThere
  <2> DEFINE q == SetToSeq(DOMAIN s.unit[h].val)
             result == NewStrings(s, q)
  <2>2. IsFiniteSet(DOMAIN s.unit[h].val)
    BY <2>1, KeysFinite
  <2>3. IsSeq(q)
    BY <2>2, KeysInOrder
  <2> HIDE DEF q
  <2>4. Sound(result.vm, More(refs, <<NextUnit(s)>>), account) /\ result.ret = NextUnit(s)
    BY <2>3, NewStringsSound
  <2>5. builtin_getkeys(s, h) = result
    BY <1>1 DEF builtin_getkeys, q, Val
  <2>6. NextUnit(s) \in Int
    BY Addresses
  <2> HIDE DEF result
  <2> QED
    BY <2>4, <2>5, <2>6 DEF Gives
<1>2. CASE ~Is(s, h, "hash")
  <2>1. builtin_getkeys(s, h) = Error(s)
    BY <1>2 DEF builtin_getkeys
  <2> QED
    BY <2>1, ErrorGives
<1> QED
  BY <1>1, <1>2

(* The other ones leave the store as it is and return something new.        *)
LEMMA ScalarGives ==
  ASSUME NEW s, NEW refs, NEW account, Sound(s, refs, account), IsAccount(account),
         NEW result,
         \/ result = Error(s)
         \/ \E type \in {"nil", "number", "string"} : \E val : result = ReturnsNew(s, type, val)
  PROVE  Gives(result, refs, account)
<1>1. CASE result = Error(s)
  BY <1>1, ErrorGives
<1>2. CASE \E type \in {"nil", "number", "string"} : \E val : result = ReturnsNew(s, type, val)
  <2>1. PICK type \in {"nil", "number", "string"} : \E val : result = ReturnsNew(s, type, val)
    BY <1>2
  <2>2. PICK val : result = ReturnsNew(s, type, val)
    BY <2>1
  <2>3. type \notin {"vector", "hash", "closure", "function"}
    OBVIOUS
  <2> QED
    BY <2>2, <2>3, NewGives
<1> QED
  BY <1>1, <1>2

Plain(s, result) ==
  \/ result = Error(s)
  \/ \E type \in {"nil", "number", "string"} : \E val : result = ReturnsNew(s, type, val)

LEMMA PlainBuiltins ==
  ASSUME NEW s, NEW a, NEW b, NEW n, NEW op
  PROVE  /\ Plain(s, builtin_print(s, a)) /\ Plain(s, builtin_size(s, a))
         /\ Plain(s, builtin_contains(s, a, b)) /\ Plain(s, builtin_type(s, a))
         /\ Plain(s, builtin_num(s, a)) /\ Plain(s, builtin_int(s, a))
         /\ Plain(s, builtin_bits(s, op, a, b)) /\ Plain(s, builtin_not(s, a))
         /\ Plain(s, builtin_id(s, a)) /\ Plain(s, builtin_system(s, a))
         /\ Plain(s, builtin_sleep(s, a)) /\ Plain(s, builtin_foutput(s, a, b))
         /\ Plain(s, builtin_substr(s, a, b, n)) /\ Plain(s, builtin_die(s, a))
<1>1. Plain(s, Error(s)) /\ \A type \in {"nil", "number", "string"} : \A val : Plain(s, ReturnsNew(s, type, val))
  BY DEF Plain
<1>2. Plain(s, ReturnsNil(s))
  BY <1>1 DEF ReturnsNil
<1>3. \A val : Plain(s, ReturnsNew(s, "number", val)) /\ Plain(s, ReturnsNew(s, "string", val))
  BY <1>1
<1>4. Plain(s, builtin_print(s, a)) /\ Plain(s, builtin_system(s, a)) /\ Plain(s, builtin_sleep(s, a))
      /\ Plain(s, builtin_foutput(s, a, b)) /\ Plain(s, builtin_die(s, a))
  BY <1>1, <1>2 DEF builtin_print, builtin_system, builtin_sleep, builtin_foutput, builtin_die
<1>5. Plain(s, builtin_size(s, a))
  BY <1>1, <1>2, <1>3 DEF builtin_size
<1>6. Plain(s, builtin_contains(s, a, b))
  BY <1>1, <1>2, <1>3 DEF builtin_contains
<1>7. Plain(s, builtin_type(s, a)) /\ Plain(s, builtin_num(s, a)) /\ Plain(s, builtin_int(s, a))
  BY <1>1, <1>2, <1>3 DEF builtin_type, builtin_num, builtin_int
<1>8. Plain(s, builtin_bits(s, op, a, b)) /\ Plain(s, builtin_not(s, a)) /\ Plain(s, builtin_id(s, a))
  BY <1>1, <1>2, <1>3 DEF builtin_bits, builtin_not, builtin_id
<1>9. Plain(s, builtin_substr(s, a, b, n))
  BY <1>1, <1>3 DEF builtin_substr
<1> QED
  BY <1>4, <1>5, <1>6, <1>7, <1>8, <1>9

LEMMA PlainCalls ==
  ASSUME NEW s, NEW scope,
         NEW name \in BuiltinName \ {"nasal_call_builtin_split", "nasal_call_builtin_push_back",
           "nasal_call_builtin_pop_back", "nasal_call_builtin_set_size",
           "nasal_call_builtin_delete", "nasal_call_builtin_get_keys"}
  PROVE  Plain(s, CallBuiltin(s, scope, name))
<1> DEFINE result == CallBuiltin(s, scope, name)
<1>1. CASE name \in {"nasal_call_builtin_std_cout", "nasal_call_builtin_size",
                     "nasal_call_builtin_contains", "nasal_call_builtin_type"}
  BY <1>1, PlainBuiltins DEF CallBuiltin
<1>2. CASE name \in {"nasal_call_builtin_trans_num", "nasal_call_builtin_substr",
                     "nasal_call_builtin_die", "nasal_call_builtin_trans_int"}
  BY <1>2, PlainBuiltins DEF CallBuiltin
<1>3. CASE name \in {"nasal_call_builtin_xor", "nasal_call_builtin_and", "nasal_call_builtin_or",
                     "nasal_call_builtin_nand", "nasal_call_builtin_not"}
  BY <1>3, PlainBuiltins DEF CallBuiltin
<1>4. CASE name \in {"nasal_call_builtin_get_id", "nasal_call_builtin_system",
                     "nasal_call_builtin_sleep", "nasal_call_builtin_foutput"}
  BY <1>4, PlainBuiltins DEF CallBuiltin
<1> QED
  BY <1>1, <1>2, <1>3, <1>4 DEF BuiltinName

(* The builtins that are proved about: split is not, as the parts of a      *)
(* string are beyond the provers.                                           *)
LEMMA CallBuiltinGives ==
  ASSUME NEW s, NEW refs, NEW account, Sound(s, refs, account), IsAccount(account),
         refs \in [Int -> Nat], NEW scope, NEW name \in BuiltinName \ {"nasal_call_builtin_split"}
  PROVE  Gives(CallBuiltin(s, scope, name), refs, account)
<1>1. CASE name = "nasal_call_builtin_push_back"
  <2>1. CallBuiltin(s, scope, name) = builtin_append(s, Find(s, scope, "vector"), Find(s, scope, "elements"))
    BY <1>1 DEF CallBuiltin
  <2> QED
    BY <2>1, AppendGives
<1>2. CASE name = "nasal_call_builtin_pop_back"
  <2>1. CallBuiltin(s, scope, name) = builtin_pop(s, Find(s, scope, "vector"))
    BY <1>2 DEF CallBuiltin
  <2> QED
    BY <2>1, PopGives
<1>3. CASE name = "nasal_call_builtin_set_size"
  <2>1. CallBuiltin(s, scope, name) = builtin_setsize(s, Find(s, scope, "vector"), Find(s, scope, "size"))
    BY <1>3 DEF CallBuiltin
  <2> QED
    BY <2>1, SetSizeGives
<1>4. CASE name = "nasal_call_builtin_delete"
  <2>1. CallBuiltin(s, scope, name) = builtin_delete(s, Find(s, scope, "hash"), Find(s, scope, "key"))
    BY <1>4 DEF CallBuiltin
  <2> QED
    BY <2>1, DeleteGives
<1>5. CASE name = "nasal_call_builtin_get_keys"
  <2>1. CallBuiltin(s, scope, name) = builtin_getkeys(s, Find(s, scope, "hash"))
    BY <1>5 DEF CallBuiltin
  <2> QED
    BY <2>1, KeysGives
<1>6. CASE name \notin {"nasal_call_builtin_split", "nasal_call_builtin_push_back",
           "nasal_call_builtin_pop_back", "nasal_call_builtin_set_size",
           "nasal_call_builtin_delete", "nasal_call_builtin_get_keys"}
  <2> DEFINE result == CallBuiltin(s, scope, name)
  <2>1. Plain(s, result)
    BY <1>6, PlainCalls
  <2> HIDE DEF result
  <2>2. Gives(result, refs, account)
    BY <2>1, ScalarGives DEF Plain
  <2> QED
    BY <2>2 DEF result
<1> QED
  BY <1>1, <1>2, <1>3, <1>4, <1>5, <1>6

-----------------------------------------------------------------------------
(* What the machine's stacks hold.                                          *)

LEMMA OneNat ==
  ASSUME NEW x, NEW a
  PROVE  One(x, a) \in Nat /\ (x = a => One(x, a) = 1) /\ (x # a => One(x, a) = 0)
BY DEF One

LEMMA CountOne ==
  ASSUME NEW x, NEW y, NEW a
  PROVE  Count(<<x>>, a) = One(x, a)
BY CountTwo DEF One

PairCounted(x, y, a) ==
  Count(<<x, y>>, a) = One(x, a) + One(y, a) /\ One(x, a) \in Nat /\ One(y, a) \in Nat

LEMMA CountPair ==
  ASSUME NEW x, NEW y, NEW a
  PROVE  PairCounted(x, y, a)
<1>1. Count(<<x>>, a) = One(x, a) /\ Count(<<x, y>>, a) = One(x, a) + One(y, a)
  BY CountTwo DEF One
<1>2. One(x, a) \in Nat /\ One(y, a) \in Nat
  BY OneNat
<1> QED
  BY <1>1, <1>2 DEF PairCounted

LEMMA SameSeq ==
  ASSUME NEW n, NEW p, IsSeq(p), Len(p) = n, NEW q, IsSeq(q), Len(q) = n, \A i \in 1..n : p[i] = q[i]
  PROVE  p = q
<1>1. p = [i \in 1..n |-> p[i]] /\ q = [i \in 1..n |-> q[i]]
  BY SeqFacts
<1> QED
  BY <1>1

LEMMA AddrsSeq ==
  ASSUME NEW values, IsSeq(values)
  PROVE  IsSeq(Addrs(values)) /\ Len(Addrs(values)) = Len(values)
         /\ \A i \in 1..Len(values) : Addrs(values)[i] = Address(values[i])
<1> DEFINE n == Len(values)
           w == Addrs(values)
           S == {Address(values[i]) : i \in 1..n}
<1>1. n \in Nat /\ DOMAIN values = 1..n
  BY SeqFacts
<1>2. w = [i \in 1..n |-> Address(values[i])]
  BY <1>1 DEF Addrs
<1> HIDE DEF n, w
<1>3. w = [i \in 1..n |-> w[i]] /\ \A i \in 1..n : w[i] \in S
  BY <1>2
<1> HIDE DEF S
<1>4. w \in Seq(S) /\ Len(w) = n
  BY <1>1, <1>3, SeqMade
<1>5. IsSeq(w)
  BY <1>4, SeqIntro
<1> QED
  BY <1>2, <1>4, <1>5 DEF n, w

LEMMA PushEntry ==
  ASSUME NEW values, Entries(values), NEW e, Address(e) \in Int
  PROVE  /\ Entries(Append(values, e))
         /\ \A a : Count(Addrs(Append(values, e)), a) = Count(Addrs(values), a) + One(Address(e), a)
<1> DEFINE after == Append(values, e)
           n == Len(values)
           w == Addrs(values)
           x == Address(e)
<1>1. IsSeq(values) /\ n \in Nat /\ DOMAIN values = 1..n
  BY SeqFacts DEF Entries
<1>2. IsSeq(after) /\ Len(after) = n + 1 /\ (\A i \in 1..n : after[i] = values[i]) /\ after[n + 1] = e
  BY <1>1, SeqAppend DEF after
<1>3. DOMAIN after = 1..(n + 1)
  BY <1>2, SeqFacts
<1>4. \A i \in 1..n : Address(values[i]) \in Int
  BY <1>1 DEF Entries
<1>a. n = Len(values)
  OBVIOUS
<1> HIDE DEF n, after
<1>5. Entries(after)
  <2> SUFFICES ASSUME NEW i \in 1..(n + 1) PROVE Address(after[i]) \in Int
    BY <1>2, <1>3 DEF Entries
  <2>1. CASE i = n + 1
    BY <1>2, <2>1
  <2>2. CASE i # n + 1
    <3>1. i \in 1..n
      BY <1>1, <2>2
    <3> QED
      BY <1>2, <1>4, <3>1
  <2> QED
    BY <2>1, <2>2
<1>6. Addrs(after) = Append(w, x)
  <2>1. IsSeq(w) /\ Len(w) = n /\ \A i \in 1..n : w[i] = Address(values[i])
    BY <1>1, <1>a, AddrsSeq
  <2>2. IsSeq(Addrs(after)) /\ Len(Addrs(after)) = n + 1 /\ \A i \in 1..(n + 1) : Addrs(after)[i] = Address(after[i])
    BY <1>2, AddrsSeq
  <2> DEFINE p == Addrs(after)
             q == Append(w, x)
  <2> HIDE DEF w, p
  <2>3. IsSeq(q) /\ Len(q) = n + 1 /\ (\A i \in 1..n : q[i] = w[i]) /\ q[n + 1] = x
    BY <2>1, SeqAppend
  <2> HIDE DEF q, x
  <2>4. \A i \in 1..(n + 1) : p[i] = q[i]
    <3> TAKE i \in 1..(n + 1)
    <3>1. p[i] = Address(after[i])
      BY <2>2 DEF p
    <3>2. CASE i = n + 1
      BY <1>2, <2>3, <3>1, <3>2 DEF x
    <3>3. CASE i # n + 1
      <4>1. i \in 1..n
        BY <1>1, <3>3
      <4> QED
        BY <1>2, <2>1, <2>3, <3>1, <4>1
    <3> QED
      BY <3>2, <3>3
  <2>5. IsSeq(p) /\ Len(p) = n + 1
    BY <2>2 DEF p
  <2>6. p = q
    <3> DEFINE l == n + 1
    <3>1. IsSeq(p) /\ Len(p) = l /\ IsSeq(q) /\ Len(q) = l /\ \A i \in 1..l : p[i] = q[i]
      BY <2>3, <2>4, <2>5
    <3> HIDE DEF l
    <3> QED
      BY <3>1, SameSeq
  <2> QED
    BY <2>6 DEF p, q
<1>7. IsSeq(w)
  BY <1>1, AddrsSeq
<1>8. \A a : Count(Append(w, x), a) = Count(w, a) + One(x, a)
  <2> HIDE DEF w, x
  <2> QED
    BY <1>7, CountAppend DEF One
<1> QED
  BY <1>5, <1>6, <1>8 DEF after

LEMMA PopEntry ==
  ASSUME NEW values, Entries(values), Len(values) > 0,
         NEW below, below = SubSeq(values, 1, Len(values) - 1)
  PROVE  /\ Entries(below) /\ Len(below) = Len(values) - 1
         /\ \A i \in 1..Len(below) : below[i] = values[i]
         /\ \A a : Count(Addrs(values), a) = Count(Addrs(below), a) + One(Address(values[Len(values)]), a)
<1> DEFINE n == Len(values)
           w == Addrs(values)
           m == n - 1
<1>1. IsSeq(values) /\ n \in Nat /\ DOMAIN values = 1..n
  BY SeqFacts DEF Entries
<1>2. m \in 0..n /\ below = SubSeq(values, 1, m) /\ n = Len(values) /\ n > 0 /\ m = n - 1 /\ n \in 1..n
  BY <1>1
<1> HIDE DEF n, m
<1>3. IsSeq(below) /\ Len(below) = m /\ \A i \in 1..m : below[i] = values[i]
  BY <1>1, <1>2, SeqPrefix
<1>4. DOMAIN below = 1..m
  BY <1>3, SeqFacts
<1>5. Entries(below)
  <2>1. \A i \in 1..m : i \in 1..n
    BY <1>1, <1>2
  <2> QED
    BY <1>1, <1>3, <1>4, <2>1 DEF Entries
<1>6. IsSeq(w) /\ Len(w) = n /\ \A i \in 1..n : w[i] = Address(values[i])
  BY <1>1, <1>2, AddrsSeq
<1>7. Addrs(below) = SubSeq(w, 1, m)
  <2> DEFINE p == Addrs(below)
             q == SubSeq(w, 1, m)
  <2>1. IsSeq(p) /\ Len(p) = m /\ \A i \in 1..m : p[i] = Address(below[i])
    BY <1>3, AddrsSeq
  <2> HIDE DEF p, w
  <2>2. IsSeq(q) /\ Len(q) = m /\ \A i \in 1..m : q[i] = w[i]
    BY <1>2, <1>6, SeqPrefix
  <2> HIDE DEF q
  <2>3. \A i \in 1..m : i \in 1..n
    BY <1>1, <1>2
  <2>4. \A i \in 1..m : p[i] = q[i]
    BY <1>3, <1>6, <2>1, <2>2, <2>3
  <2>5. p = q
    BY <2>1, <2>2, <2>4, SameSeq
  <2> QED
    BY <2>5 DEF p, q
<1>8. \A a : Count(w, a) = Count(SubSeq(w, 1, m), a) + One(w[n], a)
  <2> HIDE DEF w
  <2> QED
    BY <1>2, <1>6, CountFront DEF One
<1>9. w[n] = Address(values[n])
  BY <1>2, <1>6
<1> QED
  BY <1>2, <1>3, <1>5, <1>7, <1>8, <1>9

LEMMA PopTwo ==
  ASSUME NEW values, Entries(values), Len(values) >= 2,
         NEW below, below = SubSeq(values, 1, Len(values) - 2)
  PROVE  /\ Entries(below)
         /\ \A a : Count(Addrs(values), a) =
              Count(Addrs(below), a) + One(Address(values[Len(values)]), a)
                                     + One(Address(values[Len(values) - 1]), a)
<1> DEFINE n == Len(values)
           mid == SubSeq(values, 1, n - 1)
<1>1. IsSeq(values) /\ n \in Nat /\ DOMAIN values = 1..n
  BY SeqFacts DEF Entries
<1>2. n > 0
  BY <1>1
<1>3. /\ Entries(mid) /\ Len(mid) = n - 1 /\ (\A i \in 1..Len(mid) : mid[i] = values[i])
  BY <1>2, PopEntry
<1>4. \A a : Count(Addrs(values), a) = Count(Addrs(mid), a) + One(Address(values[n]), a)
  BY <1>2, PopEntry
<1> DEFINE low == SubSeq(mid, 1, Len(mid) - 1)
<1> HIDE DEF mid
<1>5. Len(mid) > 0 /\ Len(mid) - 1 = n - 2 /\ Len(mid) \in 1..Len(mid)
  <2> DEFINE l == Len(mid)
  <2>1. l = n - 1 /\ n >= 2 /\ n \in Nat
    BY <1>1, <1>3
  <2> HIDE DEF l, n
  <2>2. l > 0 /\ l - 1 = n - 2 /\ l \in 1..l
    BY <2>1
  <2> QED
    BY <2>2 DEF l
<1>6. Entries(low) /\ Len(low) = n - 2 /\ (\A i \in 1..Len(low) : low[i] = mid[i])
  BY <1>3, <1>5, PopEntry
<1>7. \A a : Count(Addrs(mid), a) = Count(Addrs(low), a) + One(Address(mid[Len(mid)]), a)
  BY <1>3, <1>5, PopEntry
<1>8. mid[Len(mid)] = values[n - 1]
  BY <1>3, <1>5
<1>9. low = below
  <2> DEFINE m == n - 2
  <2>1. m \in 0..n
    BY <1>1
  <2>2. below = SubSeq(values, 1, m)
    OBVIOUS
  <2>3. Len(low) = m /\ IsSeq(low)
    BY <1>6 DEF Entries
  <2> HIDE DEF m, n
  <2>4. IsSeq(below) /\ Len(below) = m /\ \A i \in 1..m : below[i] = values[i]
    BY <1>1, <2>1, <2>2, SeqPrefix DEF n
  <2> HIDE DEF low
  <2>5. \A i \in 1..m : low[i] = values[i]
    <3>1. \A i \in 1..m : low[i] = mid[i]
      BY <1>6, <2>3
    <3>2. \A i \in 1..m : i \in 1..Len(mid)
      <4>1. Len(mid) - 1 = m /\ Len(mid) \in Int
        BY <1>1, <1>3, <1>5 DEF m, n
      <4> QED
        BY <4>1, <2>1
    <3> QED
      BY <1>3, <3>1, <3>2
  <2>6. \A i \in 1..m : low[i] = below[i]
    BY <2>4, <2>5
  <2>7. IsSeq(low) /\ Len(low) = m /\ IsSeq(below) /\ Len(below) = m
    BY <2>3, <2>4
  <2> QED
    BY ONLY <2>6, <2>7, SameSeq
<1>10. \A a : /\ Count(Addrs(values), a) = Count(Addrs(mid), a) + One(Address(values[n]), a)
              /\ Count(Addrs(mid), a) = Count(Addrs(below), a) + One(Address(values[n - 1]), a)
              /\ Count(Addrs(below), a) \in Nat /\ One(Address(values[n]), a) \in Nat
              /\ One(Address(values[n - 1]), a) \in Nat
  <2> TAKE a
  <2>1. Count(Addrs(mid), a) = Count(Addrs(below), a) + One(Address(values[n - 1]), a)
    BY <1>7, <1>8, <1>9
  <2>2. IsSeq(below)
    BY <1>6, <1>9 DEF Entries
  <2>3. Count(Addrs(below), a) \in Nat
    BY <2>2, AddrsSeq, CountNat
  <2> QED
    BY <1>4, <2>1, <2>3, OneNat
<1>11. \A a : Count(Addrs(values), a) =
                Count(Addrs(below), a) + One(Address(values[n]), a) + One(Address(values[n - 1]), a)
  <2> TAKE a
  <2> DEFINE cv == Count(Addrs(values), a)
             cm == Count(Addrs(mid), a)
             cb == Count(Addrs(below), a)
             o1 == One(Address(values[n]), a)
             o2 == One(Address(values[n - 1]), a)
  <2>1. cv = cm + o1 /\ cm = cb + o2 /\ cb \in Nat /\ o1 \in Nat /\ o2 \in Nat
    BY <1>10
  <2> HIDE DEF cv, cm, cb, o1, o2
  <2>2. cv = cb + o1 + o2
    BY <2>1
  <2> QED
    BY <2>2 DEF cv, cb, o1, o2
<1> QED
  BY <1>6, <1>9, <1>11

-----------------------------------------------------------------------------
(* The references of the machine, and what it knows of the store.           *)

LEMMA HandsNat ==
  ASSUME NEW values, NEW locals, NEW slices, NEW calls, NEW global,
         StacksFit(values, locals, slices, calls, global)
  PROVE  /\ Hands(values, locals, slices, global) \in [Int -> Nat]
         /\ \A a \in Int :
              /\ Hands(values, locals, slices, global)[a] =
                   Count(Addrs(values), a) + Count(locals, a) + Count(slices, a) + One(global, a)
              /\ Count(Addrs(values), a) \in Nat /\ Count(locals, a) \in Nat
              /\ Count(slices, a) \in Nat /\ One(global, a) \in Nat
<1>1. IsSeq(values) /\ IsSeq(locals) /\ IsSeq(slices)
  BY SeqIntro DEF StacksFit, Entries
<1>2. IsSeq(Addrs(values))
  BY <1>1, AddrsSeq
<1>3. \A a \in Int : /\ Count(Addrs(values), a) \in Nat /\ Count(locals, a) \in Nat
                     /\ Count(slices, a) \in Nat /\ One(global, a) \in Nat
  <2> TAKE a \in Int
  <2>1. Count(Addrs(values), a) \in Nat
    BY <1>2, CountNat
  <2>2. Count(locals, a) \in Nat /\ Count(slices, a) \in Nat
    BY <1>1, CountNat
  <2> QED
    BY <2>1, <2>2, OneNat
<1>4. \A a \in Int : Count(Addrs(values), a) + Count(locals, a) + Count(slices, a) + One(global, a) \in Nat
  BY <1>3
<1> QED
  BY <1>3, <1>4 DEF Hands

LEMMA AccountIs ==
  ASSUME NEW locals, NEW kind
  PROVE  /\ IsAccount(Account(locals, kind)) /\ Account(locals, kind).open = {}
         /\ Account(locals, kind).kind = kind
         /\ \A a \in Int : Account(locals, kind).scopes[a] = Count(locals, a)
BY DEF Account, IsAccount

LEMMA AccountSame ==
  ASSUME NEW locals, NEW kind, NEW other
  PROVE  /\ Account(locals, kind).scopes = Account(locals, other).scopes
         /\ Account(locals, kind).open = Account(locals, other).open
         /\ Account(locals, kind).kind = kind
BY DEF Account

(* What is known of the types of units is what they are.                    *)
LEMMA Rekind ==
  ASSUME NEW s, NEW refs, NEW account, Sound(s, refs, account),
         NEW after, after.scopes = account.scopes, after.open = account.open, after.kind = Kinds(s)
  PROVE  Sound(s, refs, after)
<1>1. DOMAIN after.kind = DOMAIN s.unit /\ \A b \in DOMAIN s.unit : after.kind[b] = s.unit[b].type
  BY DEF Kinds
<1>2. Typed(s, account) /\ DOMAIN s.unit \subseteq 1..s.units
  BY DEF Sound, Shape
<1>3. Typed(s, after)
  <2>1. after.scopes \in [Int -> Nat]
    BY <1>2 DEF Typed
  <2>2. \A b \in DOMAIN s.unit : s.unit[b].type = "closure" => Len(s.unit[b].val) >= 1 + after.scopes[b]
    BY <1>2 DEF Typed
  <2>3. \A a \in Int : a > s.units => after.scopes[a] = 0
    BY <1>2 DEF Typed
  <2>4. \A b \in DOMAIN s.unit : s.unit[b].type = "function" =>
       \/ s.unit[b].val.closure \in DOMAIN s.unit /\ s.unit[s.unit[b].val.closure].type = "closure"
       \/ s.unit[b].val.closure = None /\ b \in after.open
    BY <1>2 DEF Typed
  <2> QED
    BY <1>1, <1>2, <2>1, <2>2, <2>3, <2>4 DEF Typed
<1> QED
  BY <1>3 DEF Sound

(* Any change of the stacks and of the store.                               *)
Fits(t, locals, slices, global) ==
  /\ \A i \in DOMAIN slices : slices[i] # None /\ (Live(t, slices[i]) => t.unit[slices[i]].type = "vector")
  /\ \A i \in DOMAIN locals : Live(t, locals[i]) => t.unit[locals[i]].type = "closure"
  /\ Live(t, global) => t.unit[global].type = "closure"

LEMMA CountSome ==
  ASSUME NEW q, IsSeq(q), NEW i \in DOMAIN q
  PROVE  Count(q, q[i]) \in Nat /\ Count(q, q[i]) > 0
<1> DEFINE P == {j \in DOMAIN q : q[j] = q[i]}
<1>1. IsFiniteSet(P) /\ Count(q, q[i]) \in Nat /\ Count(q, q[i]) = Cardinality(P)
  BY CountNat DEF Count
<1>2. i \in P
  OBVIOUS
<1>3. Cardinality(P) # 0
  BY <1>1, <1>2, FS_EmptySet
<1> QED
  BY <1>1, <1>3

LEMMA StackStep ==
  ASSUME NEW values, NEW locals, NEW slices, NEW calls, NEW global,
         StacksFit(values, locals, slices, calls, global),
         NEW t, NEW owned, NEW kind, Sound(t, owned, Account(locals, kind)),
         \A a \in Int : a # None => Hands(values, locals, slices, global)[a] <= owned[a],
         Fits(t, locals, slices, global)
  PROVE  Stacked(t, values, locals, slices, calls, global)
<1> DEFINE H == Hands(values, locals, slices, global)
           acc == Account(locals, kind)
<1>1. /\ H \in [Int -> Nat] /\ (\A a \in Int : H[a] \in Nat)
      /\ \A a \in Int : /\ H[a] = Count(Addrs(values), a) + Count(locals, a) + Count(slices, a) + One(global, a)
                        /\ Count(Addrs(values), a) \in Nat /\ Count(locals, a) \in Nat
                        /\ Count(slices, a) \in Nat /\ One(global, a) \in Nat
  BY HandsNat
<1>2. owned \in [Int -> Int] /\ None \notin DOMAIN t.unit /\ DOMAIN t.unit \subseteq Int
  BY Addresses
<1>3. \A a \in Int : a # None => H[a] <= owned[a]
  OBVIOUS
<1>4. \A a \in Int : H[a] \in Nat /\ H[a] \in Int /\ owned[a] \in Int
  <2>1. \A a \in Int : owned[a] \in Int
    BY <1>2
  <2> QED
    BY <1>1, <2>1
<1>5. \A a \in Int : H[a] > 0 /\ a # None => a \in DOMAIN t.unit
  <2> TAKE a \in Int
  <2> HAVE H[a] > 0 /\ a # None
  <2>1. owned[a] > 0
    <3> HIDE DEF H
    <3> QED
      BY <1>3, <1>4
  <2> QED
    BY <2>1, Owner
<1>6. Sound(t, H, acc)
  <2> HIDE DEF H, acc
  <2>1. H \in [Int -> Int]
    BY <1>1
  <2>2. \A a \in DOMAIN t.unit : H[a] <= owned[a]
    BY <1>2, <1>3
  <2>3. Sound(t, owned, acc)
    BY DEF acc
  <2> QED
    BY <1>3, <2>1, <2>2, <2>3, Weaker
<1>7. Sound(t, H, Account(locals, Kinds(t)))
  <2> DEFINE new == Account(locals, Kinds(t))
  <2>1. new.scopes = acc.scopes /\ new.open = acc.open /\ new.kind = Kinds(t)
    BY AccountSame
  <2> HIDE DEF new, acc, H
  <2>2. Sound(t, H, new)
    BY <1>6, <2>1, Rekind
  <2> QED
    BY <2>2 DEF new
<1>8. locals \in Seq(Int) /\ slices \in Seq(Int) /\ global \in Int /\ IsSeq(locals) /\ IsSeq(slices)
  BY SeqIntro DEF StacksFit
<1> HIDE DEF H, acc
<1>9. \A a \in Int : a # None /\ (Count(locals, a) > 0 \/ Count(slices, a) > 0 \/ One(global, a) > 0) => Live(t, a)
  <2> TAKE a \in Int
  <2> HAVE a # None /\ (Count(locals, a) > 0 \/ Count(slices, a) > 0 \/ One(global, a) > 0)
  <2>1. H[a] > 0
    BY <1>1
  <2> QED
    BY <1>5, <2>1 DEF Live
<1>10. Referred(t, locals, slices, global)
  <2>1. \A i \in DOMAIN slices : LiveAs(t, slices[i], "vector")
    <3> TAKE i \in DOMAIN slices
    <3>1. slices[i] \in Int /\ Count(slices, slices[i]) > 0
      BY <1>8, CountSome
    <3>2. slices[i] # None /\ (Live(t, slices[i]) => t.unit[slices[i]].type = "vector")
      BY DEF Fits
    <3> QED
      BY <1>9, <3>1, <3>2 DEF LiveAs, Live
  <2>2. \A i \in DOMAIN locals : locals[i] # None => LiveAs(t, locals[i], "closure")
    <3> TAKE i \in DOMAIN locals
    <3>1. locals[i] \in Int /\ Count(locals, locals[i]) > 0
      BY <1>8, CountSome
    <3>2. Live(t, locals[i]) => t.unit[locals[i]].type = "closure"
      BY DEF Fits
    <3> QED
      BY <1>9, <3>1, <3>2 DEF LiveAs, Live
  <2>3. global # None => LiveAs(t, global, "closure")
    <3>1. One(global, global) > 0
      BY OneNat
    <3>2. Live(t, global) => t.unit[global].type = "closure"
      BY DEF Fits
    <3> QED
      BY <1>8, <1>9, <3>1, <3>2 DEF LiveAs, Live
  <2> QED
    BY <2>1, <2>2, <2>3 DEF Referred
<1> QED
  BY <1>7, <1>10 DEF Stacked, H

(* What the stacks refer to keeps its type as long as it is there.          *)
LEMMA FitsKept ==
  ASSUME NEW s, NEW values, NEW locals, NEW slices, NEW calls, NEW global,
         Stacked(s, values, locals, slices, calls, global),
         NEW t, NEW owned, NEW after, Sound(t, owned, after), after.kind = Kinds(s)
  PROVE  Fits(t, locals, slices, global)
<1>1. \A b \in DOMAIN t.unit : b \in DOMAIN s.unit => t.unit[b].type = s.unit[b].type
  <2> TAKE b \in DOMAIN t.unit
  <2>1. b \in DOMAIN after.kind => t.unit[b].type = after.kind[b]
    BY TypeIs
  <2> QED
    BY <2>1 DEF Kinds
<1>2. \A a, type : LiveAs(s, a, type) /\ Live(t, a) => t.unit[a].type = type
  BY <1>1 DEF LiveAs, Live
<1>3. None \notin DOMAIN s.unit /\ None \notin DOMAIN t.unit
  BY Addresses DEF Stacked
<1>4. \A i \in DOMAIN slices : LiveAs(s, slices[i], "vector")
  BY DEF Stacked, Referred
<1>5. \A i \in DOMAIN locals : locals[i] # None => LiveAs(s, locals[i], "closure")
  BY DEF Stacked, Referred
<1>6. global # None => LiveAs(s, global, "closure")
  BY DEF Stacked, Referred
<1>7. \A i \in DOMAIN slices : slices[i] # None /\ (Live(t, slices[i]) => t.unit[slices[i]].type = "vector")
  BY <1>2, <1>3, <1>4 DEF LiveAs
<1>8. \A i \in DOMAIN locals : Live(t, locals[i]) => t.unit[locals[i]].type = "closure"
  BY <1>2, <1>3, <1>5 DEF Live
<1>9. Live(t, global) => t.unit[global].type = "closure"
  BY <1>2, <1>3, <1>6 DEF Live
<1> QED
  BY <1>7, <1>8, <1>9 DEF Fits

LEMMA ValuesStep ==
  ASSUME NEW s, NEW values, NEW locals, NEW slices, NEW calls, NEW global,
         Stacked(s, values, locals, slices, calls, global),
         NEW t, NEW owned, Sound(t, owned, Account(locals, Kinds(s))),
         NEW after, Entries(after),
         \A a \in Int : a # None => Hands(after, locals, slices, global)[a] <= owned[a]
  PROVE  Stacked(t, after, locals, slices, calls, global)
<1>1. StacksFit(after, locals, slices, calls, global)
  BY DEF Stacked, StacksFit
<1>2. Fits(t, locals, slices, global)
  <2> DEFINE new == Account(locals, Kinds(s))
  <2>1. new.kind = Kinds(s) /\ Sound(t, owned, new)
    BY AccountSame
  <2> HIDE DEF new
  <2> QED
    BY <2>1, FitsKept
<1> QED
  BY <1>1, <1>2, StackStep

-----------------------------------------------------------------------------
(* Taking values from the stack, and pushing one.                           *)

LEMMA HandsSplit ==
  ASSUME NEW values, NEW locals, NEW slices, NEW calls, NEW global,
         StacksFit(values, locals, slices, calls, global),
         NEW after, Entries(after), NEW d,
         \A a \in Int : d[a] \in Nat /\ Count(Addrs(values), a) = Count(Addrs(after), a) + d[a]
  PROVE  \A a \in Int :
           /\ Hands(values, locals, slices, global)[a] = Hands(after, locals, slices, global)[a] + d[a]
           /\ Hands(after, locals, slices, global)[a] \in Nat
           /\ Hands(values, locals, slices, global)[a] \in Nat
<1>1. StacksFit(after, locals, slices, calls, global)
  BY DEF StacksFit
<1> TAKE a \in Int
<1> DEFINE cv == Count(Addrs(values), a)
           ca == Count(Addrs(after), a)
           l == Count(locals, a)
           z == Count(slices, a)
           g == One(global, a)
           hv == Hands(values, locals, slices, global)[a]
           ha == Hands(after, locals, slices, global)[a]
<1>2. hv = cv + l + z + g /\ cv \in Nat /\ l \in Nat /\ z \in Nat /\ g \in Nat
  BY HandsNat
<1>3. ha = ca + l + z + g /\ ca \in Nat
  BY <1>1, HandsNat
<1>4. cv = ca + d[a] /\ d[a] \in Nat
  OBVIOUS
<1> HIDE DEF cv, ca, l, z, g, hv, ha
<1>5. hv = ha + d[a] /\ ha \in Nat /\ hv \in Nat
  BY <1>2, <1>3, <1>4
<1> QED
  BY <1>5 DEF hv, ha

LEMMA PushHands ==
  ASSUME NEW values, NEW locals, NEW slices, NEW calls, NEW global,
         StacksFit(values, locals, slices, calls, global),
         NEW e, Address(e) \in Int
  PROVE  /\ StacksFit(Append(values, e), locals, slices, calls, global)
         /\ \A a \in Int :
              /\ Hands(Append(values, e), locals, slices, global)[a] =
                   Hands(values, locals, slices, global)[a] + One(Address(e), a)
              /\ Hands(Append(values, e), locals, slices, global)[a] \in Nat
              /\ Hands(values, locals, slices, global)[a] \in Nat
<1> DEFINE after == Append(values, e)
           x == Address(e)
           d == [a \in Int |-> One(x, a)]
<1>1. Entries(values)
  BY DEF StacksFit
<1>2. Entries(after) /\ \A a : Count(Addrs(after), a) = Count(Addrs(values), a) + One(x, a)
  BY <1>1, PushEntry
<1>3. \A a \in Int : d[a] = One(x, a) /\ d[a] \in Nat
  BY OneNat
<1> HIDE DEF d, after, x
<1>4. StacksFit(after, locals, slices, calls, global)
  BY <1>2 DEF StacksFit
<1>5. \A a \in Int : d[a] \in Nat /\ Count(Addrs(after), a) = Count(Addrs(values), a) + d[a]
  BY <1>2, <1>3
<1>6. \A a \in Int :
        /\ Hands(after, locals, slices, global)[a] = Hands(values, locals, slices, global)[a] + d[a]
        /\ Hands(after, locals, slices, global)[a] \in Nat
        /\ Hands(values, locals, slices, global)[a] \in Nat
  BY <1>1, <1>4, <1>5, HandsSplit
<1> QED
  BY <1>3, <1>4, <1>6 DEF after, x

(* The references to what is on top, and what is below it.                  *)
LEMMA TakeOne ==
  ASSUME NEW values, NEW locals, NEW slices, NEW calls, NEW global,
         StacksFit(values, locals, slices, calls, global), Len(values) >= 1,
         NEW x, x = Address(values[Len(values)]),
         NEW below, below = SubSeq(values, 1, Len(values) - 1)
  PROVE  /\ StacksFit(below, locals, slices, calls, global) /\ x \in Int
         /\ \A a \in Int :
              /\ Hands(values, locals, slices, global)[a] = Hands(below, locals, slices, global)[a] + One(x, a)
              /\ Hands(below, locals, slices, global)[a] \in Nat
              /\ Hands(values, locals, slices, global)[a] \in Nat
<1>0. Entries(values) /\ IsSeq(values) /\ Len(values) \in Nat /\ DOMAIN values = 1..Len(values)
  BY SeqFacts DEF StacksFit, Entries
<1>1. Len(values) > 0 /\ Len(values) \in 1..Len(values)
  BY <1>0
<1>2. Entries(below) /\ \A a : Count(Addrs(values), a) = Count(Addrs(below), a) + One(x, a)
  BY <1>0, <1>1, PopEntry
<1>3. x \in Int
  BY <1>0, <1>1 DEF Entries
<1> DEFINE d == [a \in Int |-> One(x, a)]
<1>4. \A a \in Int : d[a] = One(x, a) /\ d[a] \in Nat
  BY OneNat
<1> HIDE DEF d
<1>5. \A a \in Int : d[a] \in Nat /\ Count(Addrs(values), a) = Count(Addrs(below), a) + d[a]
  BY <1>2, <1>4
<1>6. \A a \in Int :
        /\ Hands(values, locals, slices, global)[a] = Hands(below, locals, slices, global)[a] + d[a]
        /\ Hands(below, locals, slices, global)[a] \in Nat
        /\ Hands(values, locals, slices, global)[a] \in Nat
  BY <1>2, <1>5, HandsSplit
<1>7. StacksFit(below, locals, slices, calls, global)
  BY <1>2 DEF StacksFit
<1> QED
  BY <1>3, <1>4, <1>6, <1>7

TwoTaken(values, below, locals, slices, global, x, y) ==
  \A a \in Int :
    /\ Hands(values, locals, slices, global)[a] =
         Hands(below, locals, slices, global)[a] + (One(x, a) + One(y, a))
    /\ Hands(below, locals, slices, global)[a] \in Nat
    /\ Hands(values, locals, slices, global)[a] \in Nat

LEMMA TakeTwo ==
  ASSUME NEW values, NEW locals, NEW slices, NEW calls, NEW global,
         StacksFit(values, locals, slices, calls, global), Len(values) >= 2
  PROVE  /\ StacksFit(SubSeq(values, 1, Len(values) - 2), locals, slices, calls, global)
         /\ TwoTaken(values, SubSeq(values, 1, Len(values) - 2), locals, slices, global,
                     Address(values[Len(values)]), Address(values[Len(values) - 1]))
<1> DEFINE x == Address(values[Len(values)])
           y == Address(values[Len(values) - 1])
           below == SubSeq(values, 1, Len(values) - 2)
<1>0. Entries(values) /\ IsSeq(values) /\ Len(values) \in Nat /\ DOMAIN values = 1..Len(values)
  BY SeqFacts DEF StacksFit, Entries
<1>1. Len(values) \in 1..Len(values) /\ Len(values) - 1 \in 1..Len(values)
  BY <1>0
<1>2. Entries(below)
      /\ \A a : Count(Addrs(values), a) = Count(Addrs(below), a) + One(x, a) + One(y, a)
  BY <1>0, PopTwo
<1> HIDE DEF x, y, below
<1> DEFINE d == [a \in Int |-> One(x, a) + One(y, a)]
<1>4. \A a \in Int : d[a] = One(x, a) + One(y, a) /\ d[a] \in Nat /\ One(x, a) \in Nat /\ One(y, a) \in Nat
  BY OneNat
<1> HIDE DEF d
<1>5. StacksFit(below, locals, slices, calls, global)
  BY <1>2 DEF StacksFit
<1>6. \A a \in Int : d[a] \in Nat /\ Count(Addrs(values), a) = Count(Addrs(below), a) + d[a]
  <2> TAKE a \in Int
  <2> DEFINE cv == Count(Addrs(values), a)
             cb == Count(Addrs(below), a)
  <2>1. cv = cb + One(x, a) + One(y, a)
    BY <1>2
  <2>2. cb \in Nat
    BY <1>5, HandsNat
  <2> HIDE DEF cv, cb
  <2>3. cv = cb + d[a]
    <3> DEFINE p == One(x, a)
               q == One(y, a)
    <3>1. d[a] = p + q /\ p \in Nat /\ q \in Nat /\ cv = cb + p + q
      BY <1>4, <2>1
    <3> HIDE DEF p, q
    <3> QED
      BY <2>2, <3>1
  <2> QED
    BY <1>4, <2>3 DEF cv, cb
<1>7. \A a \in Int :
        /\ Hands(values, locals, slices, global)[a] = Hands(below, locals, slices, global)[a] + d[a]
        /\ Hands(below, locals, slices, global)[a] \in Nat
        /\ Hands(values, locals, slices, global)[a] \in Nat
  BY <1>2, <1>6, HandsSplit
<1> QED
  BY <1>4, <1>5, <1>7 DEF TwoTaken, x, y, below

-----------------------------------------------------------------------------
(* Any handler that takes up to two entries and pushes one, or none.        *)

Tops(values, n) == [i \in 1..n |-> Address(values[Len(values) - i + 1])]
Lower(values, n) == SubSeq(values, 1, Len(values) - n)

LEMMA TopsAre ==
  ASSUME NEW values, IsSeq(values), NEW n \in Nat, n <= Len(values)
  PROVE  /\ IsSeq(Tops(values, n)) /\ Len(Tops(values, n)) = n
         /\ \A i \in 1..n : Tops(values, n)[i] = Address(values[Len(values) - i + 1])
<1> DEFINE q == Tops(values, n)
           l == Len(values)
           S == {Address(values[l - i + 1]) : i \in 1..n}
<1>1. q = [i \in 1..n |-> Address(values[l - i + 1])]
  BY DEF Tops
<1>2. \A i \in 1..n : q[i] = Address(values[l - i + 1]) /\ q[i] \in S
  BY <1>1
<1>3. q = [i \in 1..n |-> q[i]]
  BY <1>1
<1> HIDE DEF q, S
<1>4. q \in Seq(S) /\ Len(q) = n
  BY <1>2, <1>3, SeqMade
<1>5. IsSeq(q)
  BY <1>4, SeqIntro
<1> QED
  BY <1>2, <1>4, <1>5 DEF q

LEMMA TopsTuple ==
  ASSUME NEW values, IsSeq(values), NEW x, NEW y
  PROVE  /\ Tops(values, 0) = <<>>
         /\ Len(values) >= 1 /\ x = Address(values[Len(values)]) => Tops(values, 1) = <<x>>
         /\ Len(values) >= 2 /\ x = Address(values[Len(values)]) /\ y = Address(values[Len(values) - 1])
              => Tops(values, 2) = <<x, y>>
<1> DEFINE l == Len(values)
<1>0. l \in Nat
  BY SeqFacts
<1>1. Tops(values, 0) = <<>>
  <2> DEFINE p == Tops(values, 0)
             q == <<>>
  <2>1. IsSeq(p) /\ Len(p) = 0
    BY <1>0, TopsAre
  <2>2. IsSeq(q) /\ Len(q) = 0
    BY TupleSeq
  <2> HIDE DEF p, q
  <2>3. \A i \in 1..0 : p[i] = q[i]
    OBVIOUS
  <2>4. p = q
    BY ONLY <2>1, <2>2, <2>3, SameSeq
  <2> QED
    BY <2>4 DEF p, q
<1>2. ASSUME l >= 1, x = Address(values[l]) PROVE Tops(values, 1) = <<x>>
  <2> DEFINE p == Tops(values, 1)
             q == <<x>>
  <2>1. IsSeq(p) /\ Len(p) = 1 /\ \A i \in 1..1 : p[i] = Address(values[l - i + 1])
    BY <1>0, <1>2, TopsAre
  <2>2. IsSeq(q) /\ Len(q) = 1 /\ q[1] = x
    BY TupleSeq
  <2> HIDE DEF p, q
  <2>3. p[1] = Address(values[l])
    <3>1. l - 1 + 1 = l
      BY <1>0
    <3> QED
      BY <2>1, <3>1
  <2>4. \A i \in 1..1 : p[i] = q[i]
    BY <1>2, <2>2, <2>3
  <2>5. p = q
    <3> DEFINE k == 1
    <3>1. IsSeq(p) /\ Len(p) = k /\ IsSeq(q) /\ Len(q) = k /\ \A i \in 1..k : p[i] = q[i]
      BY <2>1, <2>2, <2>4
    <3> HIDE DEF k
    <3> QED
      BY ONLY <3>1, SameSeq
  <2> QED
    BY <2>5 DEF p, q
<1>3. ASSUME l >= 2, x = Address(values[l]), y = Address(values[l - 1]) PROVE Tops(values, 2) = <<x, y>>
  <2> DEFINE p == Tops(values, 2)
             q == <<x, y>>
  <2>1. IsSeq(p) /\ Len(p) = 2 /\ \A i \in 1..2 : p[i] = Address(values[l - i + 1])
    BY <1>0, <1>3, TopsAre
  <2>2. IsSeq(q) /\ Len(q) = 2 /\ q[1] = x /\ q[2] = y
    BY TupleSeq
  <2> HIDE DEF p, q
  <2>3. p[1] = Address(values[l]) /\ p[2] = Address(values[l - 1])
    <3>1. l - 1 + 1 = l /\ l - 2 + 1 = l - 1
      BY <1>0
    <3> QED
      BY <2>1, <3>1
  <2>4. \A i \in 1..2 : p[i] = q[i]
    BY <1>3, <2>2, <2>3
  <2>5. p = q
    <3> DEFINE k == 2
    <3>1. IsSeq(p) /\ Len(p) = k /\ IsSeq(q) /\ Len(q) = k /\ \A i \in 1..k : p[i] = q[i]
      BY <2>1, <2>2, <2>4
    <3> HIDE DEF k
    <3> QED
      BY ONLY <3>1, SameSeq
  <2> QED
    BY <2>5 DEF p, q
<1> QED
  BY <1>1, <1>2, <1>3

LEMMA LowerNone ==
  ASSUME NEW values, IsSeq(values)
  PROVE  Lower(values, 0) = values
<1> DEFINE n == Len(values)
           p == Lower(values, 0)
<1>1. n \in Nat /\ n = Len(values)
  BY SeqFacts
<1>2. p = SubSeq(values, 1, n) /\ n \in 0..n
  BY <1>1 DEF Lower
<1> HIDE DEF n, p
<1>3. IsSeq(p) /\ Len(p) = n /\ \A i \in 1..n : p[i] = values[i]
  BY <1>1, <1>2, SeqPrefix
<1>4. p = values
  <2>1. IsSeq(values) /\ Len(values) = n
    BY <1>1
  <2> QED
    BY ONLY <1>3, <2>1, SameSeq
<1> QED
  BY <1>4 DEF p

TopsTaken(values, n, locals, slices, global) ==
  \A a \in Int :
    /\ Hands(values, locals, slices, global)[a] =
         Hands(Lower(values, n), locals, slices, global)[a] + Count(Tops(values, n), a)
    /\ Hands(Lower(values, n), locals, slices, global)[a] \in Nat
    /\ Hands(values, locals, slices, global)[a] \in Nat
    /\ Count(Tops(values, n), a) \in Nat

LEMMA TakeTops ==
  ASSUME NEW values, NEW locals, NEW slices, NEW calls, NEW global,
         StacksFit(values, locals, slices, calls, global),
         NEW n \in 0..2, n <= Len(values)
  PROVE  /\ StacksFit(Lower(values, n), locals, slices, calls, global)
         /\ IsSeq(Tops(values, n))
         /\ TopsTaken(values, n, locals, slices, global)
<1>0. IsSeq(values) /\ Len(values) \in Nat
  BY SeqFacts DEF StacksFit, Entries
<1>1. IsSeq(Tops(values, n)) /\ \A a \in Int : Count(Tops(values, n), a) \in Nat
  <2>1. IsSeq(Tops(values, n))
    BY <1>0, TopsAre
  <2> QED
    BY <2>1, CountNat
<1>2. CASE n = 0
  <2>1. Lower(values, n) = values
    BY <1>0, <1>2, LowerNone
  <2>2. Tops(values, n) = <<>>
    BY <1>0, <1>2, TopsTuple
  <2>3. \A a \in Int : Count(Tops(values, n), a) = 0
    BY <2>2, CountEmpty
  <2>4. \A a \in Int : Hands(values, locals, slices, global)[a] \in Nat
    BY HandsNat
  <2> QED
    BY <1>1, <2>1, <2>3, <2>4 DEF TopsTaken
<1>3. CASE n = 1
  <2> DEFINE x == Address(values[Len(values)])
             below == SubSeq(values, 1, Len(values) - 1)
  <2>1. Tops(values, n) = <<x>>
    BY <1>0, <1>3, TopsTuple
  <2>2. \A a \in Int : Count(Tops(values, n), a) = One(x, a)
    BY <2>1, CountOne
  <2>3. Lower(values, n) = below
    BY <1>3 DEF Lower
  <2> HIDE DEF x, below
  <2>4. /\ StacksFit(below, locals, slices, calls, global) /\ x \in Int
        /\ \A a \in Int :
              /\ Hands(values, locals, slices, global)[a] = Hands(below, locals, slices, global)[a] + One(x, a)
              /\ Hands(below, locals, slices, global)[a] \in Nat
              /\ Hands(values, locals, slices, global)[a] \in Nat
    BY <1>3, TakeOne DEF x, below
  <2> QED
    BY <1>1, <2>2, <2>3, <2>4 DEF TopsTaken
<1>4. CASE n = 2
  <2> DEFINE x == Address(values[Len(values)])
             y == Address(values[Len(values) - 1])
             below == SubSeq(values, 1, Len(values) - 2)
  <2>1. Tops(values, n) = <<x, y>>
    BY <1>0, <1>4, TopsTuple
  <2>3. Lower(values, n) = below
    BY <1>4 DEF Lower
  <2>5. x = Address(values[Len(values)]) /\ y = Address(values[Len(values) - 1])
        /\ below = SubSeq(values, 1, Len(values) - 2)
    OBVIOUS
  <2> HIDE DEF x, y, below
  <2>2. \A a \in Int : Count(Tops(values, n), a) = One(x, a) + One(y, a)
    <3>1. \A a \in Int : Count(<<x, y>>, a) = One(x, a) + One(y, a)
      <4>1. \A a \in Int : PairCounted(x, y, a)
        BY CountPair
      <4> QED
        BY ONLY <4>1 DEF PairCounted
    <3> QED
      BY ONLY <2>1, <3>1
  <2>4. /\ StacksFit(below, locals, slices, calls, global)
        /\ TwoTaken(values, below, locals, slices, global, x, y)
    <3>1. StacksFit(values, locals, slices, calls, global) /\ Len(values) >= 2
      BY <1>4
    <3> QED
      BY ONLY <3>1, TakeTwo DEF x, y, below
  <2> QED
    BY <1>1, <2>2, <2>3, <2>4 DEF TopsTaken, TwoTaken
<1> QED
  BY <1>2, <1>3, <1>4

LEMMA Dropped ==
  ASSUME NEW s, NEW values, NEW locals, NEW slices, NEW calls, NEW global,
         Stacked(s, values, locals, slices, calls, global),
         NEW refs, refs = Hands(values, locals, slices, global),
         NEW n \in 0..2, n <= Len(values),
         NEW t, NEW owned, Sound(t, owned, Account(locals, Kinds(s))),
         \A a \in Int : a # None => refs[a] - Count(Tops(values, n), a) <= owned[a]
  PROVE  Stacked(t, Lower(values, n), locals, slices, calls, global)
<1> DEFINE after == Lower(values, n)
           tops == Tops(values, n)
           H == Hands(after, locals, slices, global)
<1>1. /\ StacksFit(after, locals, slices, calls, global)
      /\ \A a \in Int : refs[a] = H[a] + Count(tops, a) /\ H[a] \in Nat /\ refs[a] \in Nat /\ Count(tops, a) \in Nat
  <2>1. StacksFit(values, locals, slices, calls, global) /\ n \in 0..2 /\ n <= Len(values)
    BY DEF Stacked
  <2>2. refs = Hands(values, locals, slices, global)
    OBVIOUS
  <2>3. StacksFit(after, locals, slices, calls, global)
    BY ONLY <2>1, TakeTops DEF after
  <2>4. \A a \in Int : refs[a] = H[a] + Count(tops, a) /\ H[a] \in Nat /\ refs[a] \in Nat /\ Count(tops, a) \in Nat
    <3>1. \A a \in Int :
            /\ Hands(values, locals, slices, global)[a] = H[a] + Count(tops, a)
            /\ H[a] \in Nat /\ Hands(values, locals, slices, global)[a] \in Nat /\ Count(tops, a) \in Nat
      <4>1. TopsTaken(values, n, locals, slices, global)
        BY ONLY <2>1, TakeTops
      <4> QED
        BY ONLY <4>1 DEF after, H, tops, TopsTaken
    <3> QED
      BY ONLY <2>2, <3>1
  <2> QED
    BY <2>3, <2>4
<1>2. \A a \in Int : a # None => refs[a] - Count(tops, a) <= owned[a]
  OBVIOUS
<1> HIDE DEF after, tops, H
<1>3. \A a \in Int : a # None => H[a] <= owned[a]
  <2> TAKE a \in Int
  <2> HAVE a # None
  <2> DEFINE c == Count(tops, a)
  <2>1. refs[a] = H[a] + c /\ H[a] \in Nat /\ c \in Nat /\ refs[a] - c <= owned[a]
    BY <1>1, <1>2
  <2> HIDE DEF c
  <2>2. refs[a] - c = H[a]
    BY <2>1
  <2> QED
    BY <2>1, <2>2
<1>4. Entries(after)
  BY <1>1 DEF StacksFit
<1>5. Stacked(t, after, locals, slices, calls, global)
  BY <1>3, <1>4, ValuesStep DEF H
<1> QED
  BY <1>5 DEF after

LEMMA Replaced ==
  ASSUME NEW s, NEW values, NEW locals, NEW slices, NEW calls, NEW global,
         Stacked(s, values, locals, slices, calls, global),
         NEW refs, refs = Hands(values, locals, slices, global),
         NEW n \in 0..2, n <= Len(values), NEW e, Address(e) \in Int,
         NEW t, NEW owned, Sound(t, owned, Account(locals, Kinds(s))),
         \A a \in Int : a # None => refs[a] + One(Address(e), a) - Count(Tops(values, n), a) <= owned[a]
  PROVE  Stacked(t, Append(Lower(values, n), e), locals, slices, calls, global)
<1> DEFINE low == Lower(values, n)
           after == Append(low, e)
           tops == Tops(values, n)
           L == Hands(low, locals, slices, global)
           H == Hands(after, locals, slices, global)
           x == Address(e)
<1>1. /\ StacksFit(low, locals, slices, calls, global)
      /\ \A a \in Int : refs[a] = L[a] + Count(tops, a) /\ L[a] \in Nat /\ refs[a] \in Nat /\ Count(tops, a) \in Nat
  <2>1. StacksFit(values, locals, slices, calls, global) /\ n \in 0..2 /\ n <= Len(values)
    BY DEF Stacked
  <2>2. refs = Hands(values, locals, slices, global)
    OBVIOUS
  <2>3. StacksFit(low, locals, slices, calls, global)
    BY ONLY <2>1, TakeTops DEF low
  <2>4. \A a \in Int : refs[a] = L[a] + Count(tops, a) /\ L[a] \in Nat /\ refs[a] \in Nat /\ Count(tops, a) \in Nat
    <3>1. \A a \in Int :
            /\ Hands(values, locals, slices, global)[a] = L[a] + Count(tops, a)
            /\ L[a] \in Nat /\ Hands(values, locals, slices, global)[a] \in Nat /\ Count(tops, a) \in Nat
      <4>1. TopsTaken(values, n, locals, slices, global)
        BY ONLY <2>1, TakeTops
      <4> QED
        BY ONLY <4>1 DEF low, L, tops, TopsTaken
    <3> QED
      BY ONLY <2>2, <3>1
  <2> QED
    BY <2>3, <2>4
<1>2. \A a \in Int : a # None => refs[a] + One(x, a) - Count(tops, a) <= owned[a]
  OBVIOUS
<1> HIDE DEF low, tops
<1>3. /\ StacksFit(after, locals, slices, calls, global)
      /\ \A a \in Int : H[a] = L[a] + One(x, a) /\ H[a] \in Nat
  <2>1. StacksFit(low, locals, slices, calls, global) /\ x \in Int
    BY <1>1
  <2> QED
    BY ONLY <2>1, PushHands DEF after, H, L, x
<1> HIDE DEF after, H, L, x
<1>4. \A a \in Int : a # None => H[a] <= owned[a]
  <2> TAKE a \in Int
  <2> HAVE a # None
  <2> DEFINE c == Count(tops, a)
             o == One(x, a)
  <2>1. /\ refs[a] = L[a] + c /\ L[a] \in Nat /\ c \in Nat
        /\ refs[a] + o - c <= owned[a] /\ o \in Nat /\ H[a] = L[a] + o
    BY <1>1, <1>2, <1>3, OneNat
  <2> HIDE DEF c, o
  <2>2. refs[a] + o - c = H[a]
    BY <2>1
  <2> QED
    BY <2>1, <2>2
<1>5. Entries(after)
  BY <1>3 DEF StacksFit
<1>6. Stacked(t, after, locals, slices, calls, global)
  BY <1>4, <1>5, ValuesStep DEF H
<1> QED
  BY <1>6 DEF after, low

-----------------------------------------------------------------------------

LEMMA Operand ==
  ASSUME NEW s, NEW values, NEW locals, NEW slices, NEW calls, NEW global,
         Stacked(s, values, locals, slices, calls, global),
         NEW refs, refs = Hands(values, locals, slices, global),
         NEW i, i >= 1, i <= Len(values), i \in Int,
         NEW x, x = Address(values[i])
  PROVE  x \in Int /\ refs[x] \in Nat /\ refs[x] > 0 /\ x \in Held(s)
<1> DEFINE w == Addrs(values)
<1>1. StacksFit(values, locals, slices, calls, global) /\ Entries(values) /\ IsSeq(values)
  BY DEF Stacked, StacksFit, Entries
<1>2. Len(values) \in Nat /\ DOMAIN values = 1..Len(values)
  BY <1>1, SeqFacts
<1>3. i \in 1..Len(values)
  BY <1>2
<1>4. x \in Int
  BY <1>1, <1>2, <1>3 DEF Entries
<1>5. IsSeq(w) /\ Len(w) = Len(values) /\ w[i] = x
  BY <1>1, <1>3, AddrsSeq
<1> HIDE DEF w
<1>6. i \in DOMAIN w
  BY <1>3, <1>5, SeqFacts
<1>7. Count(w, x) \in Nat /\ Count(w, x) > 0
  BY <1>5, <1>6, CountSome
<1> DEFINE cw == Count(w, x)
           cl == Count(locals, x)
           cs == Count(slices, x)
           o == One(global, x)
<1>8. refs[x] = cw + cl + cs + o /\ cl \in Nat /\ cs \in Nat /\ o \in Nat
  BY <1>1, <1>4, HandsNat DEF w
<1>9. cw \in Nat /\ cw > 0
  BY <1>7
<1> HIDE DEF cw, cl, cs, o
<1>10. refs[x] \in Nat /\ refs[x] > 0
  BY <1>8, <1>9
<1>11. Valid(s, refs)
  BY DEF Stacked, Sound
<1>12. x \in Held(s)
  BY <1>4, <1>10, <1>11 DEF Valid, Held
<1> QED
  BY <1>4, <1>10, <1>12

(* What a handler starts from.                                              *)
LEMMA Start ==
  ASSUME NEW s, NEW values, NEW locals, NEW slices, NEW calls, NEW global,
         Stacked(s, values, locals, slices, calls, global),
         NEW refs, refs = Hands(values, locals, slices, global),
         NEW account, account = Account(locals, Kinds(s))
  PROVE  /\ Sound(s, refs, account) /\ IsAccount(account) /\ account.open = {}
         /\ account.kind = Kinds(s)
         /\ refs \in [Int -> Nat] /\ \A a \in Int : refs[a] \in Nat /\ refs[a] \in Int
<1>1. StacksFit(values, locals, slices, calls, global)
  BY DEF Stacked
<1>2. refs \in [Int -> Nat]
  BY <1>1, HandsNat
<1>3. Sound(s, refs, account)
  BY DEF Stacked
<1>4. IsAccount(account) /\ account.open = {} /\ account.kind = Kinds(s)
  BY AccountIs
<1>5. \A a \in Int : refs[a] \in Nat /\ refs[a] \in Int
  BY <1>2
<1> QED
  BY <1>2, <1>3, <1>4, <1>5

Begun(s, refs, account) ==
  /\ Sound(s, refs, account) /\ IsAccount(account) /\ account.open = {}
  /\ account.kind = Kinds(s)
  /\ refs \in [Int -> Nat] /\ refs \in [Int -> Int]
  /\ \A a \in Int : refs[a] \in Nat
LEMMA Begin ==
  ASSUME NEW s, NEW values, NEW locals, NEW slices, NEW calls, NEW global,
         Stacked(s, values, locals, slices, calls, global)
  PROVE  Begun(s, Hands(values, locals, slices, global), Account(locals, Kinds(s)))
<1> DEFINE refs == Hands(values, locals, slices, global)
           account == Account(locals, Kinds(s))
<1>1. Sound(s, refs, account) /\ IsAccount(account) /\ account.open = {}
  BY Start
<1>2. account.kind = Kinds(s)
  BY Start
<1>3. refs \in [Int -> Nat] /\ \A a \in Int : refs[a] \in Nat
  BY Start
<1> HIDE DEF refs, account
<1>4. refs \in [Int -> Int]
  BY <1>3
<1>5. Begun(s, refs, account)
  BY ONLY <1>1, <1>2, <1>3, <1>4 DEF Begun
<1> QED
  BY <1>5 DEF refs, account

LEMMA AtMost ==
  ASSUME NEW s, NEW values, NEW locals, NEW slices, NEW calls, NEW global,
         Stacked(s, values, locals, slices, calls, global),
         NEW refs, refs = Hands(values, locals, slices, global),
         NEW n \in 0..2, n <= Len(values)
  PROVE  /\ IsSeq(Tops(values, n))
         /\ \A a \in Int : Count(Tops(values, n), a) \in Nat /\ Count(Tops(values, n), a) <= refs[a]
<1> DEFINE tops == Tops(values, n)
           L == Hands(Lower(values, n), locals, slices, global)
<1>1. StacksFit(values, locals, slices, calls, global) /\ n \in 0..2 /\ n <= Len(values)
  BY DEF Stacked
<1>2. IsSeq(tops) /\ TopsTaken(values, n, locals, slices, global)
  BY ONLY <1>1, TakeTops
<1>3. \A a \in Int : /\ Hands(values, locals, slices, global)[a] = L[a] + Count(tops, a)
                     /\ L[a] \in Nat /\ Count(tops, a) \in Nat
  BY ONLY <1>2 DEF TopsTaken, L, tops
<1>4. refs = Hands(values, locals, slices, global)
  OBVIOUS
<1> HIDE DEF L, tops
<1>5. \A a \in Int : Count(tops, a) \in Nat /\ Count(tops, a) <= refs[a]
  <2> TAKE a \in Int
  <2> DEFINE c == Count(tops, a)
  <2>1. refs[a] = L[a] + c /\ L[a] \in Nat /\ c \in Nat
    BY <1>3, <1>4
  <2> HIDE DEF c
  <2>2. c <= refs[a]
    BY <2>1
  <2> QED
    BY <2>1, <2>2 DEF c
<1> QED
  BY <1>2, <1>5 DEF tops

(* The entry pushed for a value.                                            *)
LEMMA ValueAddress ==
  ASSUME NEW a
  PROVE  Address(Value(a)) = a /\ Address(Memory(a)) = None
BY DEF Address, Value, Memory

LEMMA MoreOne ==
  ASSUME NEW refs, refs \in [Int -> Int], NEW x
  PROVE  \A a \in Int : More(refs, <<x>>)[a] = refs[a] + One(x, a) /\ More(refs, <<x>>)[a] \in Int
<1>1. \A a \in Int : More(refs, <<x>>)[a] = refs[a] + (IF x = a THEN 1 ELSE 0)
  BY MoreFewerOne
<1>2. More(refs, <<x>>) \in [Int -> Int]
  BY MoreFewerOne
<1> HIDE DEF More
<1> QED
  BY <1>1, <1>2 DEF One
LEMMA FewerOne ==
  ASSUME NEW refs, refs \in [Int -> Int], NEW x
  PROVE  \A a \in Int : Fewer(refs, <<x>>)[a] = refs[a] - One(x, a) /\ Fewer(refs, <<x>>)[a] \in Int
<1>1. \A a \in Int : Fewer(refs, <<x>>)[a] = refs[a] - (IF x = a THEN 1 ELSE 0)
  BY MoreFewerOne
<1>2. Fewer(refs, <<x>>) \in [Int -> Int]
  BY MoreFewerOne
<1> QED
  BY <1>1, <1>2 DEF One

(* The values on top are given back, and one is pushed that the store has   *)
(* a reference for.                                                         *)
LEMMA ExchangeStays ==
  ASSUME NEW s, NEW values, NEW locals, NEW slices, NEW calls, NEW global,
         Stacked(s, values, locals, slices, calls, global),
         NEW n \in 0..2, n <= Len(values), NEW r \in Int,
         NEW m, Sound(m, More(Hands(values, locals, slices, global), <<r>>), Account(locals, Kinds(s))),
         NEW t, t = DelAll(m, Tops(values, n))
  PROVE  Stacked(t, Append(Lower(values, n), Value(r)), locals, slices, calls, global)
<1> DEFINE refs == Hands(values, locals, slices, global)
           account == Account(locals, Kinds(s))
           tops == Tops(values, n)
           more == More(refs, <<r>>)
           owned == Fewer(more, tops)
<1>1. refs \in [Int -> Int] /\ \A a \in Int : refs[a] \in Nat
  BY Start
<1>2. IsSeq(tops) /\ \A a \in Int : Count(tops, a) \in Nat /\ Count(tops, a) <= refs[a]
  BY AtMost
<1>3. \A a \in Int : more[a] = refs[a] + One(r, a) /\ more[a] \in Int
  BY <1>1, MoreOne
<1>4. Sound(m, more, account) /\ DOMAIN m.unit \subseteq Int
  BY Addresses
<1>a. refs = Hands(values, locals, slices, global) /\ account = Account(locals, Kinds(s))
  OBVIOUS
<1> HIDE DEF refs, account, tops, more
<1>5. \A b \in DOMAIN m.unit : Count(tops, b) <= more[b]
  <2> TAKE b \in DOMAIN m.unit
  <2> DEFINE c == Count(tops, b)
             o == One(r, b)
  <2>1. b \in Int
    BY <1>4
  <2>2. c \in Nat /\ c <= refs[b] /\ refs[b] \in Nat /\ more[b] = refs[b] + o /\ o \in Nat
    BY <1>1, <1>2, <1>3, <2>1, OneNat
  <2> HIDE DEF c, o
  <2>3. c <= more[b]
    BY <2>2
  <2> QED
    BY <2>3 DEF c
<1>6. Sound(t, owned, account)
  <2>1. t = DelAll(m, tops)
    BY DEF tops
  <2> QED
    BY ONLY <1>2, <1>4, <1>5, <2>1, DelAllSound
<1>7. \A a \in Int : a # None => refs[a] + One(Address(Value(r)), a) - Count(Tops(values, n), a) <= owned[a]
  <2> TAKE a \in Int
  <2> DEFINE c == Count(tops, a)
             o == One(r, a)
             w == owned[a]
  <2>1. c \in Nat /\ refs[a] \in Nat /\ more[a] = refs[a] + o /\ o \in Nat
    BY <1>1, <1>2, <1>3, OneNat
  <2>2. w = more[a] - c
    BY DEF Fewer
  <2> HIDE DEF c, o, w, owned
  <2>3. refs[a] + o - c <= w
    BY <2>1, <2>2
  <2>4. Address(Value(r)) = r
    BY ValueAddress
  <2> QED
    BY <2>3, <2>4 DEF c, o, w, tops
<1>8. Address(Value(r)) \in Int
  BY ValueAddress
<1> HIDE DEF owned
<1> QED
  BY <1>a, <1>6, <1>7, <1>8, Replaced

(* A new value in place of those on top.                                    *)
LEMMA ResultStays ==
  ASSUME NEW s, NEW values, NEW locals, NEW slices, NEW calls, NEW global,
         Stacked(s, values, locals, slices, calls, global),
         NEW n \in 0..2, n <= Len(values), NEW type, NEW val,
         \/ type \notin {"vector", "hash", "closure", "function"}
         \/ type \in {"vector", "hash"} /\ val = <<>>,
         NEW t, t = DelAll(gc_alloc_with(s, type, val), Tops(values, n))
  PROVE  Stacked(t, Append(Lower(values, n), Value(NextUnit(s))), locals, slices, calls, global)
<1> DEFINE refs == Hands(values, locals, slices, global)
           account == Account(locals, Kinds(s))
           m == gc_alloc_with(s, type, val)
           r == NextUnit(s)
<1>1. Sound(s, refs, account) /\ IsAccount(account)
  BY Start
<1> HIDE DEF refs, account
<1>2. r \in Int
  BY <1>1, Addresses
<1>3. type # "function" /\ m = gc_alloc_with(s, type, val)
  OBVIOUS
<1> HIDE DEF m, r
<1>4. Sound(m, More(refs, <<NextUnit(s)>>), account)
  BY <1>1, <1>3, NewSound
<1> QED
  BY <1>2, <1>4, ExchangeStays DEF m, r, refs, account

(* One more reference, that goes with a value pushed.                       *)
LEMMA PushStays ==
  ASSUME NEW s, NEW values, NEW locals, NEW slices, NEW calls, NEW global,
         Stacked(s, values, locals, slices, calls, global),
         NEW r \in Int, NEW e, Address(e) = r,
         NEW t, Sound(t, More(Hands(values, locals, slices, global), <<r>>), Account(locals, Kinds(s)))
  PROVE  Stacked(t, Append(values, e), locals, slices, calls, global)
<1> DEFINE refs == Hands(values, locals, slices, global)
           owned == More(refs, <<r>>)
<1>1. refs \in [Int -> Int] /\ \A a \in Int : refs[a] \in Nat
  BY Start
<1>2. Address(e) = r /\ Address(e) \in Int
  OBVIOUS
<1>3. IsSeq(values)
  BY DEF Stacked, StacksFit, Entries
<1>4. 0 <= Len(values) /\ 0 \in 0..2
  BY <1>3, SeqFacts
<1>5. Lower(values, 0) = values
  BY <1>3, LowerNone
<1>6. Tops(values, 0) = <<>>
  BY <1>3, TopsTuple
<1> HIDE DEF refs
<1>7. \A a \in Int : owned[a] = refs[a] + One(r, a)
  BY <1>1, MoreOne
<1> HIDE DEF owned
<1>8. \A a \in Int : a # None => refs[a] + One(Address(e), a) - Count(Tops(values, 0), a) <= owned[a]
  <2> TAKE a \in Int
  <2> DEFINE o == One(r, a)
  <2>1. Count(Tops(values, 0), a) = 0
    BY <1>6, CountEmpty
  <2>2. owned[a] = refs[a] + o /\ refs[a] \in Nat /\ o \in Nat
    BY <1>1, <1>7, OneNat
  <2> HIDE DEF o
  <2>3. refs[a] + o - 0 <= owned[a]
    BY <2>2
  <2> QED
    BY <1>2, <2>1, <2>3 DEF o
<1>9. Stacked(t, Append(Lower(values, 0), e), locals, slices, calls, global)
  BY <1>2, <1>4, <1>8, Replaced DEF refs, owned
<1> QED
  BY <1>5, <1>9

(* The store is another, with the same references.                          *)
LEMMA StoreStays ==
  ASSUME NEW s, NEW values, NEW locals, NEW slices, NEW calls, NEW global,
         Stacked(s, values, locals, slices, calls, global),
         NEW t, Sound(t, Hands(values, locals, slices, global), Account(locals, Kinds(s)))
  PROVE  Stacked(t, values, locals, slices, calls, global)
<1> DEFINE refs == Hands(values, locals, slices, global)
<1>1. \A a \in Int : refs[a] \in Nat
  BY Start
<1>2. Entries(values)
  BY DEF Stacked, StacksFit
<1>3. \A a \in Int : a # None => Hands(values, locals, slices, global)[a] <= refs[a]
  <2> TAKE a \in Int
  <2>1. refs[a] \in Nat
    BY <1>1
  <2> HIDE DEF refs
  <2>2. refs[a] <= refs[a]
    BY <2>1
  <2> QED
    BY <2>2 DEF refs
<1> HIDE DEF refs
<1> QED
  BY <1>2, <1>3, ValuesStep DEF refs

(* The value on top goes, and its reference.                                *)
LEMMA DropStays ==
  ASSUME NEW s, NEW values, NEW locals, NEW slices, NEW calls, NEW global,
         Stacked(s, values, locals, slices, calls, global), Len(values) >= 1,
         NEW x, x = Address(values[Len(values)]),
         NEW t, Sound(t, Fewer(Hands(values, locals, slices, global), <<x>>), Account(locals, Kinds(s)))
  PROVE  Stacked(t, Lower(values, 1), locals, slices, calls, global)
<1> DEFINE refs == Hands(values, locals, slices, global)
           owned == Fewer(refs, <<x>>)
<1>1. refs \in [Int -> Int] /\ \A a \in Int : refs[a] \in Nat
  BY Start
<1>3. IsSeq(values)
  BY DEF Stacked, StacksFit, Entries
<1>4. 1 <= Len(values) /\ 1 \in 0..2
  BY <1>3, SeqFacts
<1>6. Tops(values, 1) = <<x>>
  BY <1>3, TopsTuple
<1> HIDE DEF refs
<1>7. \A a \in Int : owned[a] = refs[a] - One(x, a)
  BY <1>1, FewerOne
<1> HIDE DEF owned
<1>8. \A a \in Int : a # None => refs[a] - Count(Tops(values, 1), a) <= owned[a]
  <2> TAKE a \in Int
  <2> DEFINE o == One(x, a)
  <2>1. Count(Tops(values, 1), a) = o
    BY <1>6, CountOne
  <2>2. owned[a] = refs[a] - o /\ refs[a] \in Nat /\ o \in Nat
    BY <1>1, <1>7, OneNat
  <2> HIDE DEF o
  <2>3. refs[a] - o <= owned[a]
    BY <2>2
  <2> QED
    BY <2>1, <2>3
<1> QED
  BY <1>4, <1>8, Dropped DEF refs, owned

(* A reference for a value pushed, and those on top given back.             *)
LEMMA ExchangedStays ==
  ASSUME NEW s, NEW values, NEW locals, NEW slices, NEW calls, NEW global,
         Stacked(s, values, locals, slices, calls, global),
         NEW n \in 0..2, n <= Len(values), NEW r \in Int, NEW e, Address(e) = r,
         NEW more, more = More(Hands(values, locals, slices, global), <<r>>),
         NEW t, Sound(t, Fewer(more, Tops(values, n)), Account(locals, Kinds(s)))
  PROVE  Stacked(t, Append(Lower(values, n), e), locals, slices, calls, global)
<1> DEFINE refs == Hands(values, locals, slices, global)
           tops == Tops(values, n)
           owned == Fewer(more, tops)
<1>1. refs \in [Int -> Int] /\ \A a \in Int : refs[a] \in Nat
  BY Start
<1>2. \A a \in Int : Count(tops, a) \in Nat
  BY AtMost
<1>3. \A a \in Int : more[a] = refs[a] + One(r, a)
  BY <1>1, MoreOne
<1>a. refs = Hands(values, locals, slices, global)
  OBVIOUS
<1> HIDE DEF refs, tops
<1>7. \A a \in Int : a # None => refs[a] + One(Address(e), a) - Count(Tops(values, n), a) <= owned[a]
  <2> TAKE a \in Int
  <2> DEFINE c == Count(tops, a)
             o == One(r, a)
             w == owned[a]
  <2>1. c \in Nat /\ refs[a] \in Nat /\ more[a] = refs[a] + o /\ o \in Nat
    BY <1>1, <1>2, <1>3, OneNat
  <2>2. w = more[a] - c
    BY DEF Fewer
  <2> HIDE DEF c, o, w, owned
  <2>3. refs[a] + o - c <= w
    BY <2>1, <2>2
  <2>4. Address(e) = r
    OBVIOUS
  <2> QED
    BY <2>3, <2>4 DEF c, o, w, tops
<1>8. Address(e) \in Int
  OBVIOUS
<1>9. Sound(t, owned, Account(locals, Kinds(s)))
  BY DEF tops
<1> HIDE DEF owned
<1> QED
  BY <1>a, <1>7, <1>8, <1>9, Replaced

(* What is assigned gets a reference for its cell and one for the stack.    *)
Assigned2(s, type, val, c, x) ==
  LET added == add_reference(gc_alloc_with(s, type, val), NextUnit(s))
  IN del_reference(mem_change(added, c, NextUnit(s)), x)
LEMMA NewTwice ==
  ASSUME NEW s, NEW refs, NEW account, Sound(s, refs, account), refs \in [Int -> Nat],
         IsAccount(account), NEW type \in {"number", "string"}, NEW val, NEW c,
         NEW r, r = NextUnit(s), NEW more, more = More(refs, <<r>>),
         NEW t, t = mem_change(add_reference(gc_alloc_with(s, type, val), r), c, r)
  PROVE  Sound(t, Fewer(More(more, <<r>>), <<r>>), account)
<1> DEFINE m == gc_alloc_with(s, type, val)
           u == add_reference(m, r)
           twice == More(more, <<r>>)
<1>1. r \in Int /\ r # None
  BY Addresses
<1>2. Sound(m, more, account) /\ r \in DOMAIN m.unit
  <2>1. /\ Sound(m, More(refs, <<NextUnit(s)>>), account)
        /\ Allocated(s, m, type)
    BY NewSound
  <2> HIDE DEF m
  <2> QED
    BY <2>1 DEF Allocated
<1>3. more \in [Int -> Nat] /\ more \in [Int -> Int] /\ twice \in [Int -> Nat]
  <2>1. more \in [Int -> Nat]
    BY MoreNat
  <2> QED
    BY <2>1, MoreNat
<1> HIDE DEF m
<1>4. r \in Held(m)
  BY <1>2 DEF Held
<1>5. Sound(u, twice, account)
  BY <1>2, <1>4, ReferenceSound
<1>6. DOMAIN u.unit = DOMAIN m.unit
  <2>1. Shape(m)
    BY <1>2 DEF Sound
  <2> QED
    BY <2>1, ReferenceIs
<1>7. r \in Held(u)
  BY <1>4, <1>6 DEF Held
<1>8. twice[r] > 0
  <2>1. twice[r] = more[r] + One(r, r) /\ more[r] \in Nat
    BY <1>1, <1>3, MoreOne
  <2>2. One(r, r) = 1
    BY OneNat
  <2> HIDE DEF twice
  <2> QED
    BY <2>1, <2>2
<1>9. t = mem_change(u, c, r)
  BY DEF m
<1> HIDE DEF u, twice
<1>10. Sound(t, Fewer(twice, <<r>>), account)
  BY ONLY <1>3, <1>5, <1>7, <1>8, <1>9, MemChangeSound
<1> QED
  BY <1>10 DEF twice

LEMMA AssignedSound ==
  ASSUME NEW s, NEW refs, NEW account, Sound(s, refs, account), refs \in [Int -> Nat],
         IsAccount(account), NEW type \in {"number", "string"}, NEW val, NEW c,
         NEW x \in Int, refs[x] > 0,
         NEW t, t = Assigned2(s, type, val, c, x)
  PROVE  Sound(t, Fewer(More(refs, <<NextUnit(s)>>), <<x>>), account)
<1> DEFINE r == NextUnit(s)
           more == More(refs, <<r>>)
           u == mem_change(add_reference(gc_alloc_with(s, type, val), r), c, r)
<1>1. Sound(u, Fewer(More(more, <<r>>), <<r>>), account)
  BY NewTwice
<1>2. t = del_reference(u, x)
  BY DEF Assigned2
<1>3. more \in [Int -> Nat] /\ more \in [Int -> Int]
  <2>1. more \in [Int -> Nat]
    BY MoreNat
  <2> QED
    BY <2>1
<1>4. Fewer(More(more, <<r>>), <<r>>) = more
  BY <1>3, MoreThenFewer
<1>5. refs \in [Int -> Int]
  OBVIOUS
<1>6. more[x] = refs[x] + One(r, x) /\ One(r, x) \in Nat /\ refs[x] \in Nat
  BY <1>5, MoreOne, OneNat
<1> DEFINE o == One(r, x)
<1> HIDE DEF u, r, more
<1>7. Sound(u, more, account) /\ DOMAIN u.unit \subseteq Int
  BY <1>1, <1>4, Addresses
<1>8. more[x] > 0
  <2>1. more[x] = refs[x] + o /\ o \in Nat /\ refs[x] \in Nat /\ refs[x] > 0
    BY <1>6
  <2> HIDE DEF o
  <2> QED
    BY <2>1
<1>9. \A b \in DOMAIN u.unit : b # x => more[b] >= 0
  BY <1>3, <1>7
<1>10. Sound(del_reference(u, x), Fewer(more, <<x>>), account)
  BY <1>7, <1>8, <1>9, DelSound
<1> QED
  BY <1>2, <1>10 DEF r, more

Changed(owned, refs, r, x) == \A a \in Int : owned[a] = refs[a] + One(r, a) - One(x, a)
LEMMA ChangedOne ==
  ASSUME NEW refs, refs \in [Int -> Int], NEW r, NEW x
  PROVE  Changed(Fewer(More(refs, <<r>>), <<x>>), refs, r, x)
<1> DEFINE more == More(refs, <<r>>)
<1>1. more \in [Int -> Int] /\ \A a \in Int : more[a] = refs[a] + One(r, a)
  <2>1. \A a \in Int : more[a] = refs[a] + One(r, a)
    BY MoreOne
  <2>2. more \in [Int -> Int]
    BY MoreFewerOne
  <2> QED
    BY <2>1, <2>2
<1> HIDE DEF more
<1>2. \A a \in Int : Fewer(more, <<x>>)[a] = more[a] - One(x, a)
  BY <1>1, FewerOne
<1> DEFINE owned == Fewer(more, <<x>>)
<1>3. \A a \in Int : owned[a] = more[a] - One(x, a)
  BY ONLY <1>2 DEF owned
<1> HIDE DEF owned
<1>4. Changed(owned, refs, r, x)
  <2> SUFFICES ASSUME NEW a \in Int
               PROVE  owned[a] = refs[a] + One(r, a) - One(x, a)
    BY DEF Changed
  <2> DEFINE p == One(r, a)
             q == One(x, a)
             i == refs[a]
             j == more[a]
             k == owned[a]
  <2>1. k = j - q
    BY ONLY <1>3 DEF k, j, q
  <2>a. j = i + p
    BY ONLY <1>1 DEF j, i, p
  <2>b. p \in Nat /\ q \in Nat /\ i \in Int
    BY OneNat
  <2> HIDE DEF p, q, i, j, k
  <2>2. k = i + p - q
    BY ONLY <2>1, <2>a, <2>b
  <2> QED
    BY <2>2 DEF p, q, i, k
<1> QED
  BY <1>4 DEF owned, more

(* A value is pushed in place of a value and of a memory address.           *)
LEMMA StoredStays ==
  ASSUME NEW s, NEW values, NEW locals, NEW slices, NEW calls, NEW global,
         Stacked(s, values, locals, slices, calls, global), Len(values) >= 2,
         NEW x, NEW y, x = Address(values[Len(values)]), y = Address(values[Len(values) - 1]),
         NEW gone, (x = None /\ y = gone) \/ (x = gone /\ y = None),
         NEW e, Address(e) \in Int,
         NEW t, Sound(t, Fewer(More(Hands(values, locals, slices, global), <<Address(e)>>), <<gone>>),
                      Account(locals, Kinds(s)))
  PROVE  Stacked(t, Append(Lower(values, 2), e), locals, slices, calls, global)
<1> DEFINE refs == Hands(values, locals, slices, global)
           r == Address(e)
           owned == Fewer(More(refs, <<r>>), <<gone>>)
<1>1. refs \in [Int -> Int] /\ \A a \in Int : refs[a] \in Nat
  <2>1. Stacked(s, values, locals, slices, calls, global)
    OBVIOUS
  <2>2. Begun(s, refs, Account(locals, Kinds(s)))
    BY ONLY <2>1, Begin DEF refs
  <2> QED
    BY ONLY <2>2 DEF Begun
<1>2. IsSeq(values)
  BY DEF Stacked, StacksFit, Entries
<1>3. 2 <= Len(values) /\ 2 \in 0..2
  BY <1>2, SeqFacts
<1>4. Tops(values, 2) = <<x, y>>
  BY <1>2, TopsTuple
<1>5. \A a \in Int : owned[a] = refs[a] + One(r, a) - One(gone, a)
  <2>1. refs \in [Int -> Int]
    BY <1>1
  <2> HIDE DEF refs, r
  <2>2. Changed(owned, refs, r, gone)
    BY <2>1, ChangedOne
  <2> HIDE DEF owned
  <2> QED
    BY ONLY <2>2 DEF Changed
<1>6. Sound(t, owned, Account(locals, Kinds(s)))
  OBVIOUS
<1> HIDE DEF refs, owned, r
<1>7. \A a \in Int : a # None => refs[a] + One(Address(e), a) - Count(Tops(values, 2), a) <= owned[a]
  <2> TAKE a \in Int
  <2> HAVE a # None
  <2> DEFINE c == Count(Tops(values, 2), a)
             o == One(r, a)
             g == One(gone, a)
             p == One(x, a)
             q == One(y, a)
  <2>1. PairCounted(x, y, a)
    BY ONLY CountPair
  <2>2. Count(<<x, y>>, a) = One(x, a) + One(y, a) /\ One(x, a) \in Nat /\ One(y, a) \in Nat
    BY ONLY <2>1 DEF PairCounted
  <2>3. c = p + q /\ p \in Nat /\ q \in Nat
    BY ONLY <2>2, <1>4 DEF c, p, q
  <2>4. p + q >= g /\ g \in Nat
    <3>1. p = g \/ q = g
      BY DEF p, q, g
    <3>2. g \in Nat
      BY OneNat
    <3> HIDE DEF p, q, g
    <3> QED
      BY <3>1, <3>2, <2>3
  <2>5. owned[a] = refs[a] + o - g /\ refs[a] \in Nat /\ o \in Nat
    BY <1>1, <1>5, OneNat
  <2> HIDE DEF c, o, g, p, q
  <2>6. refs[a] + o - c <= owned[a]
    BY <2>3, <2>4, <2>5
  <2> QED
    BY <2>6 DEF c, o, r
<1> QED
  BY <1>3, <1>6, <1>7, Replaced DEF refs

LEMMA AssignedStays ==
  ASSUME NEW s, NEW values, NEW locals, NEW slices, NEW calls, NEW global,
         Stacked(s, values, locals, slices, calls, global), Len(values) >= 2,
         NEW x, Address(values[Len(values)]) = None, x = Address(values[Len(values) - 1]),
         NEW type \in {"number", "string"}, NEW val, NEW c,
         NEW t, t = Assigned2(s, type, val, c, x)
  PROVE  Stacked(t, Append(Lower(values, 2), Value(NextUnit(s))), locals, slices, calls, global)
<1> DEFINE refs == Hands(values, locals, slices, global)
           account == Account(locals, Kinds(s))
           e == Value(NextUnit(s))
<1>1. /\ Sound(s, refs, account) /\ IsAccount(account) /\ refs \in [Int -> Nat]
  BY Start
<1>2. IsSeq(values)
  BY DEF Stacked, StacksFit, Entries
<1>3. Len(values) \in Nat
  BY <1>2, SeqFacts
<1>4. x \in Int /\ refs[x] > 0
  <2>1. Len(values) - 1 >= 1 /\ Len(values) - 1 <= Len(values) /\ Len(values) - 1 \in Int
    BY <1>3
  <2> QED
    BY <2>1, Operand
<1>5. Address(e) = NextUnit(s) /\ Address(e) \in Int
  <2>1. Address(e) = NextUnit(s)
    BY ValueAddress
  <2>2. Sound(s, refs, account)
    BY <1>1
  <2> HIDE DEF e
  <2>3. NextUnit(s) \in Nat
    BY ONLY <2>2, Addresses
  <2> QED
    BY <2>1, <2>3
<1> HIDE DEF refs, account, e
<1>6. Sound(t, Fewer(More(refs, <<NextUnit(s)>>), <<x>>), account)
  BY <1>1, <1>4, AssignedSound
<1> DEFINE z == Address(values[Len(values)])
           y == Address(values[Len(values) - 1])
<1>7. z = None /\ y = x
  OBVIOUS
<1>a. /\ Stacked(s, values, locals, slices, calls, global) /\ Len(values) >= 2
      /\ Sound(t, Fewer(More(Hands(values, locals, slices, global), <<Address(e)>>), <<x>>),
               Account(locals, Kinds(s)))
  BY <1>5, <1>6 DEF refs, account
<1>b. z = Address(values[Len(values)]) /\ y = Address(values[Len(values) - 1])
  OBVIOUS
<1> HIDE DEF z, y
<1>8. Stacked(t, Append(Lower(values, 2), e), locals, slices, calls, global)
  BY ONLY <1>5, <1>7, <1>a, <1>b, StoredStays
<1> QED
  BY <1>8 DEF e

(* None is no value: references to it are none.                             *)
LEMMA NoneMore ==
  ASSUME NEW s, NEW refs, NEW account, Sound(s, refs, account)
  PROVE  Sound(s, More(refs, <<None>>), account)
<1>1. None \notin DOMAIN s.unit
  BY Addresses
<1>2. add_reference(s, None) = s
  BY <1>1 DEF add_reference, Live
<1>3. None \in Held(s)
  BY DEF Held
<1>4. Sound(add_reference(s, None), More(refs, <<None>>), account)
  BY <1>3, ReferenceSound
<1> QED
  BY <1>2, <1>4

(* What is on top goes.                                                     *)
LEMMA DropsStay ==
  ASSUME NEW s, NEW values, NEW locals, NEW slices, NEW calls, NEW global,
         Stacked(s, values, locals, slices, calls, global),
         NEW n \in 0..2, n <= Len(values),
         NEW t, Sound(t, Fewer(Hands(values, locals, slices, global), Tops(values, n)),
                      Account(locals, Kinds(s)))
  PROVE  Stacked(t, Lower(values, n), locals, slices, calls, global)
<1> DEFINE refs == Hands(values, locals, slices, global)
           tops == Tops(values, n)
           owned == Fewer(refs, tops)
<1>1. \A a \in Int : refs[a] \in Nat
  BY Start
<1>2. \A a \in Int : Count(tops, a) \in Nat
  BY AtMost
<1>3. \A a \in Int : owned[a] = refs[a] - Count(tops, a)
  BY DEF Fewer
<1>4. Sound(t, owned, Account(locals, Kinds(s)))
  OBVIOUS
<1> HIDE DEF refs, owned, tops
<1>5. \A a \in Int : a # None => refs[a] - Count(Tops(values, n), a) <= owned[a]
  <2> TAKE a \in Int
  <2> DEFINE c == Count(tops, a)
  <2>1. owned[a] = refs[a] - c /\ c \in Nat /\ refs[a] \in Nat
    BY <1>1, <1>2, <1>3
  <2> HIDE DEF c
  <2>2. refs[a] - c <= owned[a]
    BY <2>1
  <2> QED
    BY <2>2 DEF c, tops
<1> QED
  BY <1>4, <1>5, Dropped DEF refs

(* A value goes and with it a memory address.                               *)
LEMMA CellDropStays ==
  ASSUME NEW s, NEW values, NEW locals, NEW slices, NEW calls, NEW global,
         Stacked(s, values, locals, slices, calls, global), Len(values) >= 2,
         NEW x, x = Address(values[Len(values)]), Address(values[Len(values) - 1]) = None,
         NEW t, Sound(t, Fewer(Hands(values, locals, slices, global), <<x>>),
                      Account(locals, Kinds(s)))
  PROVE  Stacked(t, Lower(values, 2), locals, slices, calls, global)
<1> DEFINE refs == Hands(values, locals, slices, global)
           owned == Fewer(refs, <<x>>)
<1>1. refs \in [Int -> Int] /\ \A a \in Int : refs[a] \in Nat
  <2>1. Begun(s, refs, Account(locals, Kinds(s)))
    BY Begin
  <2> QED
    BY ONLY <2>1 DEF Begun
<1>2. IsSeq(values)
  BY DEF Stacked, StacksFit, Entries
<1>3. 2 <= Len(values) /\ 2 \in 0..2
  BY <1>2, SeqFacts
<1>4. Tops(values, 2) = <<x, None>>
  BY <1>2, TopsTuple
<1>5. Sound(t, owned, Account(locals, Kinds(s)))
  OBVIOUS
<1> HIDE DEF refs
<1>6. \A a \in Int : owned[a] = refs[a] - One(x, a)
  BY <1>1, FewerOne
<1> HIDE DEF owned
<1>7. \A a \in Int : a # None => refs[a] - Count(Tops(values, 2), a) <= owned[a]
  <2> TAKE a \in Int
  <2> HAVE a # None
  <2> DEFINE c == Count(Tops(values, 2), a)
             p == One(x, a)
             q == One(None, a)
  <2>1. PairCounted(x, None, a)
    BY ONLY CountPair
  <2>2. Count(<<x, None>>, a) = One(x, a) + One(None, a) /\ One(x, a) \in Nat /\ One(None, a) \in Nat
    BY ONLY <2>1 DEF PairCounted
  <2>3. c = p + q /\ p \in Nat /\ q \in Nat
    BY ONLY <2>2, <1>4 DEF c, p, q
  <2>5. owned[a] = refs[a] - p /\ refs[a] \in Nat
    BY <1>1, <1>6
  <2> HIDE DEF c, p, q
  <2>6. refs[a] - c <= owned[a]
    BY <2>3, <2>5
  <2> QED
    BY <2>6 DEF c
<1> QED
  BY <1>3, <1>5, <1>7, Dropped DEF refs

-----------------------------------------------------------------------------

Refs == Hands(value_stack, local_scope_stack, slice_stack, global_scope_addr)
Acct == Account(local_scope_stack, Kinds(vm))

LEMMA NowBegun ==
  ASSUME Now
  PROVE  Begun(vm, Refs, Acct)
BY Begin DEF Now, Refs, Acct

LEMMA NowFits ==
  ASSUME Now
  PROVE  /\ Sound(vm, Refs, Acct) /\ IsAccount(Acct) /\ Acct.open = {} /\ Acct.kind = Kinds(vm)
         /\ Refs \in [Int -> Nat] /\ Refs \in [Int -> Int]
         /\ IsSeq(value_stack) /\ Len(value_stack) \in Nat
<1>1. Begun(vm, Refs, Acct)
  BY NowBegun
<1>2. IsSeq(value_stack)
  BY DEF Now, Stacked, StacksFit, Entries
<1>3. Len(value_stack) \in Nat
  BY <1>2, SeqFacts
<1> QED
  BY <1>1, <1>2, <1>3 DEF Begun

(* The other stacks stay as they are.                                       *)
OthersStay == UNCHANGED <<local_scope_stack, slice_stack, call_stack, global_scope_addr>>
LEMMA MovedTo ==
  ASSUME OthersStay,
         Stacked(vm', value_stack', local_scope_stack, slice_stack, call_stack, global_scope_addr)
  PROVE  Now'
BY DEF Now, OthersStay

LEMMA DieStays ==
  ASSUME Now, Die
  PROVE  Now'
<1>1. /\ OthersStay /\ value_stack' = value_stack /\ vm' = vm
  BY DEF Die, OthersStay, Other, stacks
<1> QED
  BY <1>1 DEF Now, OthersStay

-----------------------------------------------------------------------------
(* What a handler finds on the stack.                                       *)

LEMMA ValueOn ==
  ASSUME Now, NEW i \in 1..Len(value_stack), value_stack[i].k = "value",
         NEW x, x = value_stack[i].a
  PROVE  x = Address(value_stack[i]) /\ x \in Int /\ Refs[x] \in Nat /\ Refs[x] > 0 /\ x \in Held(vm)
<1>1. x = Address(value_stack[i])
  BY DEF Address
<1>2. Stacked(vm, value_stack, local_scope_stack, slice_stack, call_stack, global_scope_addr)
  BY DEF Now
<1>3. i >= 1 /\ i <= Len(value_stack) /\ i \in Int
  BY NowFits
<1>4. Refs = Hands(value_stack, local_scope_stack, slice_stack, global_scope_addr)
  BY DEF Refs
<1> QED
  BY <1>1, <1>2, <1>3, <1>4, Operand

(* An entry that is as the handler takes for granted.                       *)
Fine(x, entry, need) ==
  /\ x = Address(entry) /\ x = entry.a /\ x \in Int /\ Refs[x] > 0 /\ x \in Held(vm)
  /\ need \notin {"value", "arguments"} => Type(vm, x) = need
  /\ need = "arguments" => Type(vm, x) \in {"vector", "hash"}

LEMMA IsFine ==
  ASSUME Now, NEW i \in 1..Len(value_stack), NEW need, need # "memory",
         IsA(value_stack[i], need)
  PROVE  Fine(value_stack[i].a, value_stack[i], need)
<1> DEFINE e == value_stack[i]
<1>1. e.k = "value"
  BY DEF IsA
<1>2. /\ need \notin {"value", "arguments"} => Type(vm, e.a) = need
      /\ need = "arguments" => Type(vm, e.a) \in {"vector", "hash"}
  BY DEF IsA
<1>3. e.a = Address(e) /\ e.a \in Int /\ Refs[e.a] > 0 /\ e.a \in Held(vm)
  BY <1>1, ValueOn
<1> QED
  BY <1>2, <1>3 DEF Fine

LEMMA MemoryIs ==
  ASSUME NEW e, IsA(e, "memory")
  PROVE  Address(e) = None /\ e.a \in DOMAIN vm.mem
BY DEF IsA, Address

OneOn(need) ==
  /\ Len(value_stack) >= 1 /\ Len(value_stack) \in 1..Len(value_stack)
  /\ IsA(value_stack[Len(value_stack)], need)
  /\ Top = value_stack[Len(value_stack)].a
  /\ Below(1) = Lower(value_stack, 1)
TwoOn(need, below) ==
  /\ OneOn(need)
  /\ Len(value_stack) >= 2 /\ Len(value_stack) - 1 \in 1..Len(value_stack)
  /\ IsA(value_stack[Len(value_stack) - 1], below)
  /\ Second = value_stack[Len(value_stack) - 1].a
  /\ Below(2) = Lower(value_stack, 2)

LEMMA OneNeeded ==
  ASSUME Now, NEW op, Op(op), NEW need, Needs(op) = <<need>>
  PROVE  OneOn(need)
<1>1. Len(value_stack) \in Nat
  BY NowFits
<1>2. 1 <= Len(value_stack) /\ IsA(value_stack[Len(value_stack) - 1 + 1], need)
  <2>1. Ready /\ Needs(Current) = <<need>>
    BY DEF Op
  <2>2. Len(<<need>>) <= Len(value_stack)
     /\ \A i \in DOMAIN <<need>> : IsA(value_stack[Len(value_stack) - i + 1], <<need>>[i])
    BY <2>1 DEF Ready
  <2> QED
    BY <2>2
<1>3. Len(value_stack) - 1 + 1 = Len(value_stack) /\ Len(value_stack) - 0 = Len(value_stack)
  BY <1>1
<1>4. Len(value_stack) \in 1..Len(value_stack)
  BY <1>1, <1>2
<1>5. Top = value_stack[Len(value_stack)].a
  BY <1>3 DEF Top, FromTop
<1>6. Below(1) = Lower(value_stack, 1)
  BY DEF Below, Lower
<1> QED
  BY <1>2, <1>3, <1>4, <1>5, <1>6 DEF OneOn

LEMMA TwoNeeded ==
  ASSUME Now, NEW op, Op(op), NEW need, NEW below, Needs(op) = <<need, below>>
  PROVE  TwoOn(need, below)
<1>1. Len(value_stack) \in Nat
  BY NowFits
<1>2. 2 <= Len(value_stack) /\ IsA(value_stack[Len(value_stack) - 1 + 1], need)
      /\ IsA(value_stack[Len(value_stack) - 2 + 1], below)
  <2>1. Ready /\ Needs(Current) = <<need, below>>
    BY DEF Op
  <2>2. Len(<<need, below>>) <= Len(value_stack)
     /\ \A i \in DOMAIN <<need, below>> : IsA(value_stack[Len(value_stack) - i + 1], <<need, below>>[i])
    BY <2>1 DEF Ready
  <2> QED
    BY <2>2
<1>3. /\ Len(value_stack) - 1 + 1 = Len(value_stack) /\ Len(value_stack) - 0 = Len(value_stack)
      /\ Len(value_stack) - 2 + 1 = Len(value_stack) - 1
  BY <1>1
<1>4. Len(value_stack) \in 1..Len(value_stack) /\ Len(value_stack) - 1 \in 1..Len(value_stack)
      /\ Len(value_stack) >= 1
  BY <1>1, <1>2
<1>5. Top = value_stack[Len(value_stack)].a /\ Second = value_stack[Len(value_stack) - 1].a
  BY <1>3 DEF Top, Second, FromTop
<1>6. Below(1) = Lower(value_stack, 1) /\ Below(2) = Lower(value_stack, 2)
  BY DEF Below, Lower
<1> QED
  BY <1>2, <1>3, <1>4, <1>5, <1>6 DEF OneOn, TwoOn

LEMMA NeedsAre ==
  /\ \A op \in {"load", "unot", "usub", "pop", "counter", "callvi", "callh", "slicebegin"} :
       Needs(op) = <<"value">>
  /\ \A op \in {"add", "sub", "mul", "div", "lnk", "eq", "neq", "less", "leq", "grt", "geq",
                "callv", "return"} : Needs(op) = <<"value", "value">>
  /\ \A op \in {"addeq", "subeq", "muleq", "diveq", "lnkeq", "meq"} :
       Needs(op) = <<"memory", "value">>
  /\ \A op \in {"para", "dynpara", "entry"} : Needs(op) = <<"function">>
  /\ Needs("defpara") = <<"value", "function">>
  /\ Needs("vecapp") = <<"value", "vector">>
  /\ Needs("hashapp") = <<"value", "hash">>
  /\ \A op \in {"forindex", "foreach"} : Needs(op) = <<"vector">>
  /\ Needs("callf") = <<"arguments", "value">>
  /\ Needs("slice") = <<"value", "vector">>
  /\ Needs("slice2") = <<"value", "value", "vector">>
  /\ Needs("mcallv") = <<"value", "memory">>
  /\ Needs("mcallh") = <<"memory">>
BY DEF Needs

LEMMA ScopeIs ==
  ASSUME Now
  PROVE  /\ Scope \in Int /\ (Scope # None => LiveAs(vm, Scope, "closure"))
         /\ Scope \in DOMAIN vm.unit \cup {None}
         /\ global_scope_addr \in Int
         /\ (global_scope_addr # None => LiveAs(vm, global_scope_addr, "closure"))
         /\ Len(local_scope_stack) \in DOMAIN local_scope_stack
         /\ Scope = local_scope_stack[Len(local_scope_stack)]
<1>1. /\ local_scope_stack \in Seq(Int) /\ IsSeq(call_stack) /\ global_scope_addr \in Int
      /\ Len(local_scope_stack) = Len(call_stack) + 1
  BY DEF Now, Stacked, StacksFit
<1>2. Len(call_stack) \in Nat
  BY <1>1, SeqFacts
<1>3. /\ \A i \in DOMAIN local_scope_stack :
           local_scope_stack[i] # None => LiveAs(vm, local_scope_stack[i], "closure")
      /\ global_scope_addr # None => LiveAs(vm, global_scope_addr, "closure")
  BY DEF Now, Stacked, Referred
<1>4. Len(local_scope_stack) \in DOMAIN local_scope_stack
  BY <1>1, <1>2
<1>5. Scope = local_scope_stack[Len(local_scope_stack)]
  BY DEF Scope, Last
<1>6. Scope \in Int
  BY <1>1, <1>4, <1>5
<1>7. Scope # None => LiveAs(vm, Scope, "closure")
  BY <1>3, <1>4, <1>5
<1>8. Scope \in DOMAIN vm.unit \cup {None}
  BY <1>7 DEF LiveAs
<1> QED
  BY <1>1, <1>3, <1>4, <1>5, <1>6, <1>7, <1>8

LEMMA ValuesTops ==
  ASSUME Now, NEW n \in 0..2, n <= Len(value_stack),
         \A i \in 1..n : value_stack[Len(value_stack) - i + 1].k = "value"
  PROVE  [i \in 1..n |-> FromTop(i - 1)] = Tops(value_stack, n)
<1>1. Len(value_stack) \in Nat
  BY NowFits
<1>2. \A i \in 1..n : FromTop(i - 1) = Address(value_stack[Len(value_stack) - i + 1])
  <2> TAKE i \in 1..n
  <2>1. Len(value_stack) - (i - 1) = Len(value_stack) - i + 1
    BY <1>1
  <2>2. FromTop(i - 1) = value_stack[Len(value_stack) - (i - 1)].a
    BY DEF FromTop
  <2>3. FromTop(i - 1) = value_stack[Len(value_stack) - i + 1].a
    BY <2>1, <2>2
  <2> QED
    BY <2>3 DEF Address
<1> QED
  BY <1>2 DEF Tops

PlainNew(type, val) ==
  \/ type \notin {"vector", "hash", "closure", "function"}
  \/ type \in {"vector", "hash"} /\ val = <<>>
LEMMA ResultKeeps ==
  ASSUME Now, NEW n \in 0..2, n <= Len(value_stack),
         \A i \in 1..n : value_stack[Len(value_stack) - i + 1].k = "value",
         NEW type, NEW val, PlainNew(type, val), Result(n, type, val)
  PROVE  Now'
<1> DEFINE r == Value(NextUnit(vm))
<1>1. [i \in 1..n |-> FromTop(i - 1)] = Tops(value_stack, n)
  BY ValuesTops
<1>2. vm' = DelAll(gc_alloc_with(vm, type, val), Tops(value_stack, n))
  BY <1>1 DEF Result
<1>3. value_stack' = Append(Lower(value_stack, n), r)
  BY DEF Result, Replace, Below, Lower
<1>4. OthersStay
  BY DEF Result, Replace, Continue, OtherStacks, Other, OthersStay
<1>5. Stacked(vm, value_stack, local_scope_stack, slice_stack, call_stack, global_scope_addr)
  BY DEF Now
<1>6. \/ type \notin {"vector", "hash", "closure", "function"}
      \/ type \in {"vector", "hash"} /\ val = <<>>
  BY DEF PlainNew
<1>7. Stacked(vm', Append(Lower(value_stack, n), r), local_scope_stack, slice_stack, call_stack, global_scope_addr)
  BY <1>2, <1>5, <1>6, ResultStays
<1> HIDE DEF r
<1> QED
  BY <1>3, <1>4, <1>7, MovedTo

LEMMA OneResult ==
  ASSUME Now, NEW op, Op(op), NEW need, Needs(op) = <<need>>, need # "memory",
         NEW type \in {"number", "string"}, NEW val, Result(1, type, val)
  PROVE  Now'
<1>1. OneOn(need)
  BY OneNeeded
<1>2. value_stack[Len(value_stack)].k = "value" /\ 1 <= Len(value_stack)
  BY <1>1 DEF OneOn, IsA
<1>3. Len(value_stack) \in Nat
  BY NowFits
<1>4. \A i \in 1..1 : value_stack[Len(value_stack) - i + 1].k = "value"
  BY <1>2, <1>3
<1>5. PlainNew(type, val)
  BY DEF PlainNew
<1> QED
  BY <1>2, <1>4, <1>5, ResultKeeps

LEMMA TwoResult ==
  ASSUME Now, NEW op, Op(op), Needs(op) = <<"value", "value">>,
         NEW type \in {"number", "string"}, NEW val, Result(2, type, val)
  PROVE  Now'
<1>1. TwoOn("value", "value")
  BY TwoNeeded
<1>2. value_stack[Len(value_stack)].k = "value" /\ value_stack[Len(value_stack) - 1].k = "value"
      /\ 2 <= Len(value_stack)
  BY <1>1 DEF TwoOn, OneOn, IsA
<1>3. Len(value_stack) \in Nat
  BY NowFits
<1>4. \A i \in 1..2 : value_stack[Len(value_stack) - i + 1].k = "value"
  BY <1>2, <1>3
<1>5. PlainNew(type, val)
  BY DEF PlainNew
<1> QED
  BY <1>2, <1>4, <1>5, ResultKeeps

LEMMA NewResult ==
  ASSUME Now, NEW type, NEW val, PlainNew(type, val), Result(0, type, val)
  PROVE  Now'
<1>1. 0 <= Len(value_stack) /\ \A i \in 1..0 : value_stack[Len(value_stack) - i + 1].k = "value"
  BY NowFits
<1> QED
  BY <1>1, ResultKeeps

-----------------------------------------------------------------------------
(* Operators.                                                               *)

LEMMA PushKeeps == Now /\ opr_push => Now'
<1> SUFFICES ASSUME Now, opr_push
             PROVE  Now'
  OBVIOUS
<1>1. \/ \E val : Result(0, "number", val)
      \/ Result(0, "nil", 0)
      \/ \E val : Result(0, "string", val)
      \/ Result(0, "vector", <<>>)
      \/ Result(0, "hash", <<>>)
  BY DEF opr_push
<1>2. /\ \A val : PlainNew("number", val) /\ PlainNew("nil", val) /\ PlainNew("string", val)
      /\ PlainNew("vector", <<>>) /\ PlainNew("hash", <<>>)
  BY DEF PlainNew
<1> QED
  BY <1>1, <1>2, NewResult

LEMMA UnotKeeps == Now /\ opr_unot => Now'
<1> SUFFICES ASSUME Now, opr_unot
             PROVE  Now'
  OBVIOUS
<1>1. Op("unot") /\ Needs("unot") = <<"value">>
  BY NeedsAre DEF opr_unot
<1>2. Die \/ \E val : Result(1, "number", val)
  BY DEF opr_unot
<1> QED
  BY <1>1, <1>2, DieStays, OneResult

LEMMA UsubKeeps == Now /\ opr_usub => Now'
<1> SUFFICES ASSUME Now, opr_usub
             PROVE  Now'
  OBVIOUS
<1>1. Op("usub") /\ Needs("usub") = <<"value">>
  BY NeedsAre DEF opr_usub
<1>2. \E val : Result(1, "number", val)
  BY DEF opr_usub
<1> QED
  BY <1>1, <1>2, OneResult

LEMMA BinaryKeeps ==
  Now /\ (opr_arithmetic \/ opr_lnk \/ opr_eq \/ opr_neq \/ opr_compare) => Now'
<1> SUFFICES ASSUME Now, opr_arithmetic \/ opr_lnk \/ opr_eq \/ opr_neq \/ opr_compare
             PROVE  Now'
  OBVIOUS
<1> DEFINE ops == {"add", "sub", "mul", "div", "lnk", "eq", "neq", "less", "leq", "grt", "geq"}
<1>1. \A op \in ops : Needs(op) = <<"value", "value">>
  BY NeedsAre
<1>2. \E op \in ops : Op(op) /\ (Die \/ \E val : \E type \in {"number", "string"} : Result(2, type, val))
  <2>1. CASE opr_arithmetic
    BY <2>1 DEF opr_arithmetic
  <2>2. CASE opr_lnk
    BY <2>2 DEF opr_lnk
  <2>3. CASE opr_eq
    BY <2>3 DEF opr_eq
  <2>4. CASE opr_neq
    BY <2>4 DEF opr_neq
  <2>5. CASE opr_compare
    BY <2>5 DEF opr_compare
  <2> QED
    BY <2>1, <2>2, <2>3, <2>4, <2>5
<1> HIDE DEF ops
<1> QED
  BY <1>1, <1>2, DieStays, TwoResult

(* The operands, one by one.                                                *)
LEMMA TopFine ==
  ASSUME Now, NEW need, need # "memory", OneOn(need)
  PROVE  /\ Top \in Int /\ Refs[Top] > 0 /\ Top \in Held(vm)
         /\ Top = Address(value_stack[Len(value_stack)])
         /\ need \notin {"value", "arguments"} => Type(vm, Top) = need
         /\ need = "arguments" => Type(vm, Top) \in {"vector", "hash"}
<1>1. /\ Len(value_stack) \in 1..Len(value_stack) /\ IsA(value_stack[Len(value_stack)], need)
      /\ Top = value_stack[Len(value_stack)].a
  BY DEF OneOn
<1>2. Fine(Top, value_stack[Len(value_stack)], need)
  BY <1>1, IsFine
<1> QED
  BY <1>2 DEF Fine

LEMMA SecondFine ==
  ASSUME Now, NEW need, NEW below, below # "memory", TwoOn(need, below)
  PROVE  /\ Second \in Int /\ Refs[Second] > 0 /\ Second \in Held(vm)
         /\ Second = Address(value_stack[Len(value_stack) - 1])
         /\ below \notin {"value", "arguments"} => Type(vm, Second) = below
<1>1. /\ Len(value_stack) - 1 \in 1..Len(value_stack) /\ IsA(value_stack[Len(value_stack) - 1], below)
      /\ Second = value_stack[Len(value_stack) - 1].a
  BY DEF TwoOn
<1>2. Fine(Second, value_stack[Len(value_stack) - 1], below)
  BY <1>1, IsFine
<1> QED
  BY <1>2 DEF Fine

(* What is of a type other than nil is in use.                              *)
LEMMA TypeLive ==
  ASSUME NEW s, NEW a, NEW type, type # "nil", Type(s, a) = type
  PROVE  LiveAs(s, a, type) /\ a \in DOMAIN s.unit /\ s.unit[a].type = type
BY DEF Type, Live, LiveAs

LEMMA AssignedKeeps ==
  ASSUME Now, TwoOn("memory", "value"), NEW type \in {"number", "string"}, NEW val,
         Assigned(type, val)
  PROVE  Now'
<1> DEFINE r == Value(NextUnit(vm))
<1>1. Address(value_stack[Len(value_stack)]) = None
  <2>1. IsA(value_stack[Len(value_stack)], "memory")
    BY DEF TwoOn, OneOn
  <2> QED
    BY <2>1, MemoryIs
<1>2. Second = Address(value_stack[Len(value_stack) - 1])
  BY SecondFine
<1>3. Len(value_stack) >= 2 /\ Below(2) = Lower(value_stack, 2)
  BY DEF TwoOn
<1>4. vm' = Assigned2(vm, type, val, Top, Second)
  BY DEF Assigned, Assigned2
<1>5. value_stack' = Append(Lower(value_stack, 2), r)
  BY <1>3 DEF Assigned, Replace
<1>6. OthersStay
  BY DEF Assigned, Replace, Continue, OtherStacks, Other, OthersStay
<1>7. Stacked(vm, value_stack, local_scope_stack, slice_stack, call_stack, global_scope_addr)
  BY DEF Now
<1>8. Stacked(vm', Append(Lower(value_stack, 2), r), local_scope_stack, slice_stack, call_stack, global_scope_addr)
  BY <1>1, <1>2, <1>3, <1>4, <1>7, AssignedStays
<1> HIDE DEF r
<1> QED
  BY <1>5, <1>6, <1>8, MovedTo

LEMMA AssignKeeps == Now /\ (opr_arithmeticeq \/ opr_lnkeq) => Now'
<1> SUFFICES ASSUME Now, opr_arithmeticeq \/ opr_lnkeq
             PROVE  Now'
  OBVIOUS
<1> DEFINE ops == {"addeq", "subeq", "muleq", "diveq", "lnkeq"}
<1>1. \A op \in ops : Needs(op) = <<"memory", "value">>
  BY NeedsAre
<1>2. \E op \in ops : Op(op) /\ (Die \/ \E val : \E type \in {"number", "string"} : Assigned(type, val))
  BY DEF opr_arithmeticeq, opr_lnkeq, AssignOf
<1> HIDE DEF ops
<1>3. TwoOn("memory", "value")
  BY <1>1, <1>2, TwoNeeded
<1> QED
  BY <1>2, <1>3, DieStays, AssignedKeeps

(* The value on top goes, and its reference.                                *)
LEMMA DropKeeps ==
  ASSUME Now, NEW need, need # "memory", OneOn(need), OthersStay, value_stack' = Below(1),
         Sound(vm', Fewer(Refs, <<Top>>), Acct)
  PROVE  Now'
<1>1. Top = Address(value_stack[Len(value_stack)])
  BY TopFine
<1>2. Len(value_stack) >= 1 /\ Below(1) = Lower(value_stack, 1)
  BY DEF OneOn
<1>3. Stacked(vm, value_stack, local_scope_stack, slice_stack, call_stack, global_scope_addr)
  BY DEF Now
<1>4. Stacked(vm', Lower(value_stack, 1), local_scope_stack, slice_stack, call_stack, global_scope_addr)
  BY <1>1, <1>2, <1>3, DropStays DEF Refs, Acct
<1> QED
  BY <1>2, <1>4, MovedTo

LEMMA StoreKeeps ==
  ASSUME Now, OthersStay, value_stack' = value_stack, Sound(vm', Refs, Acct)
  PROVE  Now'
<1>1. Stacked(vm, value_stack, local_scope_stack, slice_stack, call_stack, global_scope_addr)
  BY DEF Now
<1>2. Stacked(vm', value_stack, local_scope_stack, slice_stack, call_stack, global_scope_addr)
  BY <1>1, StoreStays DEF Refs, Acct
<1> QED
  BY <1>2, MovedTo

LEMMA PushedKeeps ==
  ASSUME Now, OthersStay, NEW r \in Int, NEW e, Address(e) = r, value_stack' = Append(value_stack, e),
         Sound(vm', More(Refs, <<r>>), Acct)
  PROVE  Now'
<1>1. Stacked(vm, value_stack, local_scope_stack, slice_stack, call_stack, global_scope_addr)
  BY DEF Now
<1>2. Stacked(vm', Append(value_stack, e), local_scope_stack, slice_stack, call_stack, global_scope_addr)
  BY <1>1, PushStays DEF Refs, Acct
<1> QED
  BY <1>2, MovedTo

LEMMA DropOthers == ASSUME NEW n, Drop(n) \/ UNCHANGED stacks, Continue PROVE OthersStay
BY DEF Drop, Continue, OtherStacks, Other, OthersStay, stacks

LEMMA LoadKeeps == Now /\ global_scope_addr # None /\ opr_load => Now'
<1> SUFFICES ASSUME Now, global_scope_addr # None, opr_load
             PROVE  Now'
  OBVIOUS
<1>1. OneOn("value")
  BY NeedsAre, OneNeeded DEF opr_load
<1>2. /\ vm' = add_new_value(vm, CurrentScope, X, Top) /\ value_stack' = Below(1)
      /\ OthersStay
  BY DropOthers DEF opr_load, Drop
<1>3. CurrentScope \in DOMAIN vm.unit /\ vm.unit[CurrentScope].type = "closure"
  BY ScopeIs DEF CurrentScope, LiveAs
<1>4. Top \in Held(vm) /\ Backed(vm, Refs, Top)
  BY <1>1, TopFine DEF Backed
<1>5. Sound(vm, Refs, Acct) /\ Refs \in [Int -> Nat]
  BY NowFits
<1>6. Sound(vm', Fewer(Refs, <<Top>>), Acct)
  BY ONLY <1>2, <1>3, <1>4, <1>5, AddNewValueSound
<1> QED
  BY <1>1, <1>2, <1>6, DropKeeps

LEMMA VecappKeeps == Now /\ opr_vecapp => Now'
<1> SUFFICES ASSUME Now, opr_vecapp
             PROVE  Now'
  OBVIOUS
<1>1. TwoOn("value", "vector") /\ OneOn("value")
  BY NeedsAre, TwoNeeded DEF opr_vecapp, TwoOn
<1>2. vm' = VectorAdd(vm, Second, Top) /\ value_stack' = Below(1) /\ OthersStay
  BY DropOthers DEF opr_vecapp, Drop
<1>3. Second \in DOMAIN vm.unit /\ vm.unit[Second].type = "vector"
  BY <1>1, SecondFine, TypeLive
<1>4. Top \in Held(vm) /\ Sound(vm, Refs, Acct)
  BY <1>1, TopFine, NowFits
<1>5. Sound(vm', Fewer(Refs, <<Top>>), Acct)
  BY ONLY <1>2, <1>3, <1>4, VectorAddSound
<1> QED
  BY <1>1, <1>2, <1>5, DropKeeps

LEMMA HashappKeeps == Now /\ opr_hashapp => Now'
<1> SUFFICES ASSUME Now, opr_hashapp
             PROVE  Now'
  OBVIOUS
<1>1. TwoOn("value", "hash") /\ OneOn("value")
  BY NeedsAre, TwoNeeded DEF opr_hashapp, TwoOn
<1>2. vm' = HashAdd(vm, Second, X, Top) /\ value_stack' = Below(1) /\ OthersStay
  BY DropOthers DEF opr_hashapp, Drop
<1>3. Second \in DOMAIN vm.unit /\ vm.unit[Second].type = "hash"
  BY <1>1, SecondFine, TypeLive
<1>4. Top \in Held(vm) /\ Sound(vm, Refs, Acct)
  BY <1>1, TopFine, NowFits
<1>5. Sound(vm', Fewer(Refs, <<Top>>), Acct)
  BY ONLY <1>2, <1>3, <1>4, HashAddSound
<1> QED
  BY <1>1, <1>2, <1>5, DropKeeps

LEMMA NewfuncKeeps == Now /\ opr_newfunc => Now'
<1> SUFFICES ASSUME Now, opr_newfunc
             PROVE  Now'
  OBVIOUS
<1>1. vm' = NewFunc(vm, Scope)
  BY DEF opr_newfunc, NewFunc
<1>2. value_stack' = Append(value_stack, Value(NextUnit(vm))) /\ OthersStay
  BY DEF opr_newfunc, Push, Continue, OtherStacks, Other, OthersStay
<1>3. Sound(vm, Refs, Acct) /\ IsAccount(Acct) /\ Acct.open = {} /\ Refs \in [Int -> Nat]
  BY NowFits
<1>4. Scope # None => Scope \in DOMAIN vm.unit /\ vm.unit[Scope].type = "closure"
  BY ScopeIs DEF LiveAs
<1>5. Sound(vm', More(Refs, <<NextUnit(vm)>>), Acct)
  BY <1>1, <1>3, <1>4, NewFuncSound
<1>6. NextUnit(vm) \in Int
  BY <1>3, Addresses
<1>7. Address(Value(NextUnit(vm))) = NextUnit(vm)
  BY ValueAddress
<1> QED
  BY <1>2, <1>5, <1>6, <1>7, PushedKeeps

LEMMA FunctionOn ==
  ASSUME Now, OneOn("function")
  PROVE  Top \in DOMAIN vm.unit /\ vm.unit[Top].type = "function"
BY TopFine, TypeLive

LEMMA ParaKeeps == Now /\ opr_para => Now'
<1> SUFFICES ASSUME Now, opr_para
             PROVE  Now'
  OBVIOUS
<1>1. Top \in DOMAIN vm.unit /\ vm.unit[Top].type = "function"
  BY NeedsAre, OneNeeded, FunctionOn DEF opr_para
<1>2. vm' = [vm EXCEPT !.unit[Top].val.para = Append(@, X), !.unit[Top].val.default = Append(@, None)]
  BY DEF opr_para, AddPara
<1>3. value_stack' = value_stack /\ OthersStay
  BY DEF opr_para, Continue, stacks, Other, OthersStay
<1>4. Sound(vm, Refs, Acct) /\ Refs \in [Int -> Int] /\ None \in Held(vm)
  BY NowFits DEF Held
<1>5. Sound(vm', Fewer(Refs, <<None>>), Acct)
  BY ONLY <1>1, <1>2, <1>4, ParaSound
<1>6. More(Fewer(Refs, <<None>>), <<None>>) = Refs
  BY ONLY <1>4, FewerThenMore
<1>7. Sound(vm', More(Fewer(Refs, <<None>>), <<None>>), Acct)
  BY ONLY <1>5, NoneMore
<1>8. Sound(vm', Refs, Acct)
  BY ONLY <1>6, <1>7
<1> QED
  BY <1>3, <1>8, StoreKeeps

LEMMA DefparaKeeps == Now /\ opr_defpara => Now'
<1> SUFFICES ASSUME Now, opr_defpara
             PROVE  Now'
  OBVIOUS
<1>1. TwoOn("value", "function") /\ OneOn("value")
  BY NeedsAre, TwoNeeded DEF opr_defpara, TwoOn
<1>2. vm' = [vm EXCEPT !.unit[Second].val.para = Append(@, X), !.unit[Second].val.default = Append(@, Top)]
  BY DEF opr_defpara, AddPara
<1>3. value_stack' = Below(1) /\ OthersStay
  BY DropOthers DEF opr_defpara, Drop
<1>4. Second \in DOMAIN vm.unit /\ vm.unit[Second].type = "function"
  BY <1>1, SecondFine, TypeLive
<1>5. Top \in Held(vm) /\ Sound(vm, Refs, Acct)
  BY <1>1, TopFine, NowFits
<1>6. Sound(vm', Fewer(Refs, <<Top>>), Acct)
  BY ONLY <1>2, <1>4, <1>5, ParaSound
<1> QED
  BY <1>1, <1>3, <1>6, DropKeeps

LEMMA FieldKeeps == Now /\ (opr_dynpara \/ opr_entry) => Now'
<1> SUFFICES ASSUME Now, opr_dynpara \/ opr_entry
             PROVE  Now'
  OBVIOUS
<1>1. Top \in DOMAIN vm.unit /\ vm.unit[Top].type = "function"
  BY NeedsAre, OneNeeded, FunctionOn DEF opr_dynpara, opr_entry
<1>2. \/ vm' = [vm EXCEPT !.unit[Top].val.entry = X]
      \/ vm' = [vm EXCEPT !.unit[Top].val.dynamic = X]
  BY DEF opr_dynpara, opr_entry
<1>3. value_stack' = value_stack /\ OthersStay
  BY DEF opr_dynpara, opr_entry, Continue, stacks, Other, OthersStay
<1>4. Sound(vm, Refs, Acct)
  BY NowFits
<1>5. Sound(vm', Refs, Acct)
  BY ONLY <1>1, <1>2, <1>4, EntrySound
<1> QED
  BY <1>3, <1>5, StoreKeeps

LEMMA MeqKeeps == Now /\ opr_meq => Now'
<1> SUFFICES ASSUME Now, opr_meq
             PROVE  Now'
  OBVIOUS
<1> DEFINE u == add_reference(vm, Second)
           more == More(Refs, <<Second>>)
           x == Address(value_stack[Len(value_stack)])
<1>1. TwoOn("memory", "value")
  BY NeedsAre, TwoNeeded DEF opr_meq
<1>2. vm' = mem_change(u, Top, Second) /\ value_stack' = Below(1) /\ OthersStay
  BY DropOthers DEF opr_meq, Drop
<1>3. Second \in Int /\ Refs[Second] > 0 /\ Second \in Held(vm)
  BY <1>1, SecondFine
<1>4. Sound(vm, Refs, Acct) /\ Refs \in [Int -> Nat] /\ Refs \in [Int -> Int]
  BY NowFits
<1>5. Sound(u, more, Acct)
  BY ONLY <1>3, <1>4, ReferenceSound
<1>6. more \in [Int -> Nat]
  BY ONLY <1>4, MoreNat
<1>7. more[Second] > 0
  <2> DEFINE o == One(Second, Second)
  <2>1. more[Second] = Refs[Second] + o
    BY ONLY <1>3, <1>4, MoreOne
  <2>2. o \in Nat /\ Refs[Second] \in Nat
    BY <1>3, <1>4, OneNat
  <2> HIDE DEF o, more
  <2> QED
    BY ONLY <2>1, <2>2, <1>3
<1>8. Second \in Held(u)
  <2>1. Shape(vm)
    BY <1>4 DEF Sound
  <2>2. DOMAIN u.unit = DOMAIN vm.unit
    BY ONLY <2>1, ReferenceIs
  <2> QED
    BY <1>3, <2>2 DEF Held
<1> HIDE DEF u
<1>9. Sound(vm', Fewer(more, <<Second>>), Acct)
  <2> HIDE DEF more
  <2> QED
    BY ONLY <1>2, <1>5, <1>6, <1>7, <1>8, MemChangeSound
<1>10. Sound(vm', Refs, Acct)
  <2>1. Fewer(more, <<Second>>) = Refs
    BY ONLY <1>4, MoreThenFewer
  <2> QED
    BY <2>1, <1>9
<1>11. x = None
  <2>1. IsA(value_stack[Len(value_stack)], "memory")
    BY <1>1 DEF TwoOn, OneOn
  <2> QED
    BY <2>1, MemoryIs
<1>12. x \in Int
  BY <1>11 DEF None
<1> HIDE DEF x
<1>13. Sound(vm', Fewer(Refs, <<x>>), Acct)
  BY ONLY <1>10, <1>12, FewerWeaker
<1>14. Stacked(vm, value_stack, local_scope_stack, slice_stack, call_stack, global_scope_addr)
  BY DEF Now
<1>15. Len(value_stack) >= 1 /\ Below(1) = Lower(value_stack, 1)
  BY <1>1 DEF TwoOn, OneOn
<1>16. x = Address(value_stack[Len(value_stack)])
  BY DEF x
<1>17. Stacked(vm', Lower(value_stack, 1), local_scope_stack, slice_stack, call_stack, global_scope_addr)
  BY ONLY <1>13, <1>14, <1>15, <1>16, DropStays DEF Refs, Acct
<1> QED
  BY <1>2, <1>15, <1>17, MovedTo

-----------------------------------------------------------------------------
(* Jumps and loops.                                                         *)

LEMMA ReleaseTop ==
  ASSUME Now, NEW need, need # "memory", OneOn(need)
  PROVE  Sound(del_reference(vm, Top), Fewer(Refs, <<Top>>), Acct)
<1>1. Top \in Int /\ Refs[Top] > 0
  BY TopFine
<1>2. Sound(vm, Refs, Acct) /\ Refs \in [Int -> Nat]
  BY NowFits
<1>3. DOMAIN vm.unit \subseteq Int
  BY <1>2, Addresses
<1>4. \A b \in DOMAIN vm.unit : b # Top => Refs[b] >= 0
  BY <1>2, <1>3
<1> QED
  BY <1>1, <1>2, <1>4, DelSound

LEMMA PopKeeps == Now /\ opr_pop => Now'
<1> SUFFICES ASSUME Now, opr_pop
             PROVE  Now'
  OBVIOUS
<1>1. OneOn("value")
  BY NeedsAre, OneNeeded DEF opr_pop
<1>2. vm' = del_reference(vm, Top) /\ value_stack' = Below(1) /\ OthersStay
  BY DropOthers DEF opr_pop, Drop
<1>3. Sound(vm', Fewer(Refs, <<Top>>), Acct)
  BY <1>1, <1>2, ReleaseTop
<1> QED
  BY <1>1, <1>2, <1>3, DropKeeps

LEMMA JumpKeeps == Now /\ (opr_nop \/ opr_jmp \/ opr_jmptrue \/ opr_jmpfalse) => Now'
<1> SUFFICES ASSUME Now, opr_nop \/ opr_jmp \/ opr_jmptrue \/ opr_jmpfalse
             PROVE  Now'
  OBVIOUS
<1>1. UNCHANGED vm /\ UNCHANGED value_stack /\ OthersStay
  BY DEF opr_nop, opr_jmp, opr_jmptrue, opr_jmpfalse, StayOrJump, GoTo, Continue, stacks, Other, OthersStay
<1> QED
  BY <1>1 DEF Now, OthersStay

LEMMA CounterKeeps == Now /\ opr_counter => Now'
<1> SUFFICES ASSUME Now, opr_counter
             PROVE  Now'
  OBVIOUS
<1>1. Die \/ (UNCHANGED vm /\ UNCHANGED value_stack /\ OthersStay)
  BY DEF opr_counter, Continue, Other, OthersStay
<1>2. CASE Die
  BY <1>2, DieStays
<1>3. CASE UNCHANGED vm /\ UNCHANGED value_stack /\ OthersStay
  BY <1>3 DEF Now, OthersStay
<1> QED
  BY <1>1, <1>2, <1>3

LEMMA LoopEndKeeps ==
  ASSUME Now, OneOn("vector"), LoopEnd
  PROVE  Now'
<1>1. vm' = del_reference(vm, Top) /\ value_stack' = Below(1) /\ OthersStay
  BY DEF LoopEnd, GoTo, Other, OthersStay
<1>2. Sound(vm', Fewer(Refs, <<Top>>), Acct)
  BY <1>1, ReleaseTop
<1> QED
  BY <1>1, <1>2, DropKeeps

(* What is in a cell is there.                                              *)
LEMMA MemGetHeld ==
  ASSUME NEW s, NEW refs, NEW account, Sound(s, refs, account), NEW c
  PROVE  mem_get(s, c) \in Held(s) /\ mem_get(s, c) \in Int
<1>1. Valid(s, refs)
  BY DEF Sound
<1>2. mem_get(s, c) \in Held(s)
  BY <1>1 DEF mem_get, Valid, Held
<1>3. Held(s) \subseteq Int
  BY Addresses
<1> QED
  BY <1>2, <1>3

(* A value that is held somewhere gets a reference and is pushed.           *)
LEMMA HeldKeeps ==
  ASSUME Now, OthersStay, NEW a \in Held(vm), vm' = add_reference(vm, a),
         value_stack' = Append(value_stack, Value(a))
  PROVE  Now'
<1>1. Sound(vm, Refs, Acct)
  BY NowFits
<1>2. a \in Int
  BY <1>1, Addresses
<1>3. Sound(vm', More(Refs, <<a>>), Acct)
  BY <1>1, ReferenceSound
<1>4. Address(Value(a)) = a
  BY ValueAddress
<1> QED
  BY <1>2, <1>3, <1>4, PushedKeeps

LEMMA LoopKeeps == Now /\ (opr_forindex \/ opr_foreach) => Now'
<1> SUFFICES ASSUME Now, opr_forindex \/ opr_foreach
             PROVE  Now'
  OBVIOUS
<1>1. OneOn("vector")
  BY NeedsAre, OneNeeded DEF opr_forindex, opr_foreach
<1>2. \/ LoopEnd
      \/ LoopBody(NextUnit(vm)) /\ vm' = gc_alloc_with(vm, "number", Counter)
      \/ \E c : LoopBody(mem_get(vm, c)) /\ vm' = add_reference(vm, mem_get(vm, c))
  BY DEF opr_forindex, opr_foreach, VectorValue
<1>3. Sound(vm, Refs, Acct) /\ IsAccount(Acct)
  BY NowFits
<1>4. \A a : LoopBody(a) => value_stack' = Append(value_stack, Value(a)) /\ OthersStay
  BY DEF LoopBody, Continue, Other, OthersStay
<1>5. CASE LoopEnd
  BY <1>1, <1>5, LoopEndKeeps
<1>6. CASE LoopBody(NextUnit(vm)) /\ vm' = gc_alloc_with(vm, "number", Counter)
  <2> DEFINE r == NextUnit(vm)
  <2>1. Sound(vm', More(Refs, <<r>>), Acct)
    BY <1>3, <1>6, NewSound
  <2>2. r \in Int
    BY <1>3, Addresses
  <2>3. Address(Value(r)) = r /\ value_stack' = Append(value_stack, Value(r)) /\ OthersStay
    BY <1>4, <1>6, ValueAddress
  <2> HIDE DEF r
  <2> QED
    BY <2>1, <2>2, <2>3, PushedKeeps
<1>7. CASE \E c : LoopBody(mem_get(vm, c)) /\ vm' = add_reference(vm, mem_get(vm, c))
  <2>1. PICK c : LoopBody(mem_get(vm, c)) /\ vm' = add_reference(vm, mem_get(vm, c))
    BY <1>7
  <2>2. mem_get(vm, c) \in Held(vm)
    BY <1>3, MemGetHeld
  <2>3. value_stack' = Append(value_stack, Value(mem_get(vm, c))) /\ OthersStay
    BY <1>4, <2>1
  <2> QED
    BY <2>1, <2>2, <2>3, HeldKeeps
<1> QED
  BY <1>2, <1>5, <1>6, <1>7

-----------------------------------------------------------------------------
(* Names, elements and members.                                             *)

LEMMA CallKeeps == Now /\ opr_call => Now'
<1> SUFFICES ASSUME Now, opr_call
             PROVE  Now'
  OBVIOUS
<1>1. \/ Die
      \/ \E c : /\ vm' = add_reference(vm, mem_get(vm, c))
                /\ Push(Value(mem_get(vm, c))) /\ Continue
  BY DEF opr_call, Lookup, ClosureValue
<1>2. CASE Die
  BY <1>2, DieStays
<1>3. ASSUME NEW c, vm' = add_reference(vm, mem_get(vm, c)), Push(Value(mem_get(vm, c))), Continue
      PROVE  Now'
  <2>1. Sound(vm, Refs, Acct)
    BY NowFits
  <2>2. mem_get(vm, c) \in Held(vm)
    BY <2>1, MemGetHeld
  <2>3. value_stack' = Append(value_stack, Value(mem_get(vm, c))) /\ OthersStay
    BY <1>3 DEF Push, Continue, OtherStacks, Other, OthersStay
  <2> QED
    BY <1>3, <2>2, <2>3, HeldKeeps
<1> QED
  BY <1>1, <1>2, <1>3

LEMMA CallviKeeps == Now /\ opr_callvi => Now'
<1> SUFFICES ASSUME Now, opr_callvi
             PROVE  Now'
  OBVIOUS
<1>1. \/ Die
      \/ \E c : /\ vm' = add_reference(vm, mem_get(vm, c))
                /\ Push(Value(mem_get(vm, c))) /\ Continue
  BY DEF opr_callvi, VectorValue
<1>2. CASE Die
  BY <1>2, DieStays
<1>3. ASSUME NEW c, vm' = add_reference(vm, mem_get(vm, c)), Push(Value(mem_get(vm, c))), Continue
      PROVE  Now'
  <2>1. Sound(vm, Refs, Acct)
    BY NowFits
  <2>2. mem_get(vm, c) \in Held(vm)
    BY <2>1, MemGetHeld
  <2>3. value_stack' = Append(value_stack, Value(mem_get(vm, c))) /\ OthersStay
    BY <1>3 DEF Push, Continue, OtherStacks, Other, OthersStay
  <2> QED
    BY <1>3, <2>2, <2>3, HeldKeeps
<1> QED
  BY <1>1, <1>2, <1>3

(* Both operands, and their references.                                     *)
LEMMA BothTops ==
  ASSUME Now, TwoOn("value", "value")
  PROVE  Tops(value_stack, 2) = <<Top, Second>>
<1>1. Top = Address(value_stack[Len(value_stack)])
  BY TopFine DEF TwoOn
<1>2. Second = Address(value_stack[Len(value_stack) - 1])
  BY SecondFine
<1>3. IsSeq(value_stack) /\ Len(value_stack) >= 2
  BY NowFits DEF TwoOn
<1> QED
  BY <1>1, <1>2, <1>3, TopsTuple

(* An element is pushed in place of a container and an index.               *)
LEMMA ElementKeeps ==
  ASSUME Now, TwoOn("value", "value"), OthersStay,
         NEW m, Sound(m, Refs, Acct), NEW a \in Held(m),
         vm' = DelAll(add_reference(m, a), <<Top, Second>>),
         value_stack' = Append(Below(2), Value(a))
  PROVE  Now'
<1> DEFINE u == add_reference(m, a)
<1>1. Sound(u, More(Refs, <<a>>), Acct)
  BY ReferenceSound
<1>2. a \in Int
  BY Addresses
<1>3. vm' = DelAll(u, Tops(value_stack, 2))
  BY BothTops
<1>4. Below(2) = Lower(value_stack, 2) /\ 2 <= Len(value_stack)
  BY DEF TwoOn
<1>5. Stacked(vm, value_stack, local_scope_stack, slice_stack, call_stack, global_scope_addr)
  BY DEF Now
<1> HIDE DEF u
<1>6. Stacked(vm', Append(Lower(value_stack, 2), Value(a)), local_scope_stack, slice_stack, call_stack, global_scope_addr)
  BY <1>1, <1>2, <1>3, <1>4, <1>5, ExchangeStays DEF Refs, Acct
<1> QED
  BY <1>4, <1>6, MovedTo

LEMMA CallVectorKeeps ==
  ASSUME Now, TwoOn("value", "value"), CallVector
  PROVE  Now'
<1>1. \/ Die
      \/ \E c : /\ vm' = DelAll(add_reference(vm, mem_get(vm, c)), <<Top, Second>>)
                /\ Replace(2, Value(mem_get(vm, c))) /\ Continue
  BY DEF CallVector, Indexed, VectorValue
<1>2. CASE Die
  BY <1>2, DieStays
<1>3. ASSUME NEW c, vm' = DelAll(add_reference(vm, mem_get(vm, c)), <<Top, Second>>),
             Replace(2, Value(mem_get(vm, c))), Continue
      PROVE  Now'
  <2>1. Sound(vm, Refs, Acct)
    BY NowFits
  <2>2. mem_get(vm, c) \in Held(vm)
    BY <2>1, MemGetHeld
  <2>3. value_stack' = Append(Below(2), Value(mem_get(vm, c))) /\ OthersStay
    BY <1>3 DEF Replace, Continue, OtherStacks, Other, OthersStay
  <2> QED
    BY <1>3, <2>1, <2>2, <2>3, ElementKeeps
<1> QED
  BY <1>1, <1>2, <1>3

LEMMA CallStringKeeps ==
  ASSUME Now, Op("callv"), CallString
  PROVE  Now'
<1>1. Die \/ \E val : Result(2, "number", val)
  BY DEF CallString
<1>2. Needs("callv") = <<"value", "value">>
  BY NeedsAre
<1> QED
  BY <1>1, <1>2, DieStays, TwoResult

(* The closure of a function in the store.                                  *)
LEMMA ClosureOf ==
  ASSUME NEW s, NEW refs, NEW account, Sound(s, refs, account), account.open = {},
         NEW f \in DOMAIN s.unit, s.unit[f].type = "function"
  PROVE  /\ s.unit[f].val.closure \in DOMAIN s.unit
         /\ s.unit[s.unit[f].val.closure].type = "closure"
<1>1. FunctionFacts(s, refs, account, f)
  BY OfFunction
<1> QED
  BY <1>1 DEF FunctionFacts

LEMMA CallHashKeeps ==
  ASSUME Now, TwoOn("value", "value"), CallHash
  PROVE  Now'
<1> DEFINE key == Val(vm, Top)
           e == FoundCell(vm, Second, key, {c \in DOMAIN vm.mem : vm.mem[c] # None})
           a == mem_get(vm, e)
           f == vm.unit[a].val.closure
           me == IF Type(vm, a) = "function" THEN BindName(vm, f, "me", Top) ELSE vm
<1>1. \/ Die
      \/ /\ a # None
         /\ vm' = DelAll(add_reference(me, a), <<Top, Second>>)
         /\ Replace(2, Value(a)) /\ Continue
  BY DEF CallHash, HashValue, BindName, Val
<1>2. CASE Die
  BY <1>2, DieStays
<1>3. CASE /\ a # None
           /\ vm' = DelAll(add_reference(me, a), <<Top, Second>>)
           /\ Replace(2, Value(a)) /\ Continue
  <2>1. Sound(vm, Refs, Acct) /\ Refs \in [Int -> Nat] /\ Acct.open = {}
    BY NowFits
  <2>2. a \in Held(vm)
    BY <2>1, MemGetHeld
  <2>3. e \in DOMAIN vm.mem /\ a = vm.mem[e]
    BY <1>3 DEF mem_get
  <2>4. e # None
    BY <2>1, <2>3, Addresses DEF None
  <2>5. Second \in DOMAIN vm.unit /\ vm.unit[Second].type = "hash" /\ Second # None /\ Second \in Int
    <3>1. Type(vm, Second) = "hash"
      BY DEF CallHash
    <3>2. Second \in DOMAIN vm.unit /\ vm.unit[Second].type = "hash"
      BY <3>1, TypeLive
    <3> QED
      BY <2>1, <3>2, Addresses
  <2>6. /\ Top \in Held(vm) /\ Backed(vm, Refs, Top) /\ Refs[Second] > 0
    BY TopFine, SecondFine DEF TwoOn, Backed
  <2>7. Sound(me, Refs, Acct) /\ a \in Held(me)
    <3>1. CASE Type(vm, a) # "function"
      BY <2>1, <2>2, <3>1
    <3>2. CASE Type(vm, a) = "function"
      <4>1. a \in DOMAIN vm.unit /\ vm.unit[a].type = "function"
        BY <3>2, TypeLive
      <4>2. f \in DOMAIN vm.unit /\ vm.unit[f].type = "closure"
        BY <2>1, <4>1, ClosureOf
      <4>3. me = BindName(vm, f, "me", Top)
        BY <3>2
      <4> HIDE DEF f, me, a
      <4>4. Sound(me, Refs, Acct) /\ SameBut(vm, me, f)
        BY <2>1, <2>6, <4>2, <4>3, BindSound
      <4>5. Second \in DOMAIN me.unit
        BY <2>5, <2>6, <4>4, Owner
      <4> DEFINE wanted == {c \in DOMAIN vm.mem : vm.mem[c] # None}
      <4>6. e = FoundCell(vm, Second, key, wanted)
        OBVIOUS
      <4> HIDE DEF e, key, wanted
      <4>7. vm.mem[e] \in Held(me)
        BY ONLY <2>1, <2>4, <2>5, <4>2, <4>4, <4>5, <4>6, FoundStays
      <4> QED
        BY <2>3, <4>4, <4>7
    <3> QED
      BY <3>1, <3>2
  <2>8. value_stack' = Append(Below(2), Value(a)) /\ OthersStay
    BY <1>3 DEF Replace, Continue, OtherStacks, Other, OthersStay
  <2> HIDE DEF a, me
  <2> QED
    BY <1>3, <2>7, <2>8, ElementKeeps
<1> HIDE DEF a, me
<1> QED
  BY <1>1, <1>2, <1>3

LEMMA CallNothingKeeps ==
  ASSUME Now, TwoOn("value", "value"), CallNothing
  PROVE  Now'
<1> DEFINE tops == Tops(value_stack, 2)
<1>1. vm' = DelAll(vm, tops)
  BY BothTops DEF CallNothing
<1>2. value_stack' = Lower(value_stack, 2) /\ OthersStay /\ 2 <= Len(value_stack)
  BY DropOthers DEF CallNothing, Drop, TwoOn
<1>3. Stacked(vm, value_stack, local_scope_stack, slice_stack, call_stack, global_scope_addr)
  BY DEF Now
<1>4. Sound(vm, Refs, Acct) /\ DOMAIN vm.unit \subseteq Int
  BY NowFits, Addresses
<1>5. IsSeq(tops) /\ \A b \in Int : Count(tops, b) <= Refs[b]
  BY <1>2, <1>3, AtMost DEF Refs
<1> HIDE DEF tops
<1>6. \A b \in DOMAIN vm.unit : Count(tops, b) <= Refs[b]
  BY <1>4, <1>5
<1>7. Sound(vm', Fewer(Refs, tops), Acct)
  BY <1>1, <1>4, <1>5, <1>6, DelAllSound
<1>8. Stacked(vm', Lower(value_stack, 2), local_scope_stack, slice_stack, call_stack, global_scope_addr)
  BY <1>2, <1>3, <1>7, DropsStay DEF Refs, Acct, tops
<1> QED
  BY <1>2, <1>8, MovedTo

LEMMA CallvKeeps == Now /\ opr_callv => Now'
<1> SUFFICES ASSUME Now, opr_callv
             PROVE  Now'
  OBVIOUS
<1>1. TwoOn("value", "value") /\ Op("callv")
  BY NeedsAre, TwoNeeded DEF opr_callv
<1> QED
  BY <1>1, CallVectorKeeps, CallStringKeeps, CallHashKeeps, CallNothingKeeps DEF opr_callv

LEMMA CallhKeeps == Now /\ opr_callh => Now'
<1> SUFFICES ASSUME Now, opr_callh
             PROVE  Now'
  OBVIOUS
<1> DEFINE a == IF Type(vm, Top) = "hash" THEN HashValue(vm, Top, X) ELSE None
           held == add_reference(vm, a)
           f == vm.unit[a].val.closure
           more == More(Refs, <<a>>)
<1>0. OneOn("value")
  BY NeedsAre, OneNeeded DEF opr_callh
<1>1. \/ Die
      \/ /\ a # None
         /\ vm' = IF Type(vm, a) = "function" THEN add_new_value(held, f, "me", Top)
                  ELSE del_reference(held, Top)
         /\ Replace(1, Value(a)) /\ Continue
  BY DEF opr_callh, Val
<1>2. CASE Die
  BY <1>2, DieStays
<1>3. CASE /\ a # None
           /\ vm' = IF Type(vm, a) = "function" THEN add_new_value(held, f, "me", Top)
                    ELSE del_reference(held, Top)
           /\ Replace(1, Value(a)) /\ Continue
  <2>1. Sound(vm, Refs, Acct) /\ Refs \in [Int -> Nat] /\ Refs \in [Int -> Int] /\ Acct.open = {}
    BY NowFits
  <2>2. a \in Held(vm)
    <3>1. \A c : mem_get(vm, c) \in Held(vm)
      BY <2>1, MemGetHeld
    <3> QED
      BY <1>3, <3>1 DEF HashValue
  <2>3. a \in Int
    BY <2>1, <2>2, Addresses
  <2>4. value_stack' = Append(Lower(value_stack, 1), Value(a)) /\ OthersStay
    BY <1>0, <1>3 DEF Replace, Continue, OtherStacks, Other, OthersStay, OneOn
  <2>5. Top \in Int /\ Refs[Top] > 0 /\ Top \in Held(vm) /\ Top = Address(value_stack[Len(value_stack)])
    BY <1>0, TopFine
  <2>a. Type(vm, a) = "function" => a \in DOMAIN vm.unit /\ vm.unit[a].type = "function"
    BY TypeLive
  <2>b. Type(vm, a) = "function" => f \in DOMAIN vm.unit /\ vm.unit[f].type = "closure"
    BY <2>1, <2>a, ClosureOf
  <2>c. vm' = IF Type(vm, a) = "function" THEN add_new_value(held, f, "me", Top)
              ELSE del_reference(held, Top)
    BY <1>3
  <2> HIDE DEF a, f
  <2>6. Sound(held, more, Acct)
    BY ONLY <2>1, <2>2, ReferenceSound DEF held, more
  <2>7. more \in [Int -> Nat]
    BY ONLY <2>1, MoreNat DEF more
  <2>8. /\ DOMAIN held.unit = DOMAIN vm.unit
        /\ \A b \in DOMAIN vm.unit : held.unit[b].type = vm.unit[b].type
    <3>1. Shape(vm)
      BY <2>1 DEF Sound
    <3> QED
      BY ONLY <3>1, ReferenceIs DEF held
  <2>9. more[Top] > 0
    <3> DEFINE o == One(a, Top)
    <3>1. more[Top] = Refs[Top] + o
      BY ONLY <2>1, <2>5, MoreOne DEF more, o
    <3>2. o \in Nat /\ Refs[Top] \in Nat
      BY <2>1, <2>5, OneNat
    <3> HIDE DEF o, more
    <3> QED
      BY ONLY <3>1, <3>2, <2>5
  <2> HIDE DEF held
  <2>10. Sound(vm', Fewer(more, <<Top>>), Acct)
    <3> HIDE DEF more
    <3>1. CASE Type(vm, a) = "function"
      <4>1. vm' = add_new_value(held, f, "me", Top)
        BY <2>c, <3>1
      <4>2. f \in DOMAIN held.unit /\ held.unit[f].type = "closure"
        BY <2>8, <2>b, <3>1
      <4>3. Top \in Held(held) /\ Backed(held, more, Top)
        BY <2>5, <2>8, <2>9 DEF Held, Backed
      <4> QED
        BY ONLY <2>6, <2>7, <4>1, <4>2, <4>3, AddNewValueSound
    <3>2. CASE Type(vm, a) # "function"
      <4>1. vm' = del_reference(held, Top)
        BY <2>c, <3>2
      <4>2. DOMAIN held.unit \subseteq Int
        BY ONLY <2>6, Addresses
      <4>3. \A b \in DOMAIN held.unit : b # Top => more[b] >= 0
        BY ONLY <2>7, <4>2
      <4> QED
        BY ONLY <2>6, <2>9, <4>1, <4>3, DelSound
    <3> QED
      BY <3>1, <3>2
  <2>11. Tops(value_stack, 1) = <<Top>> /\ 1 <= Len(value_stack)
    BY <1>0, <2>5, NowFits, TopsTuple DEF OneOn
  <2>12. Stacked(vm, value_stack, local_scope_stack, slice_stack, call_stack, global_scope_addr)
    BY DEF Now
  <2>13. Sound(vm', Fewer(more, Tops(value_stack, 1)), Acct)
    BY <2>10, <2>11
  <2>14. Address(Value(a)) = a
    BY ValueAddress
  <2> DEFINE e == Value(a)
  <2>15. Address(e) = a
    BY <2>14
  <2>16. more = More(Refs, <<a>>)
    OBVIOUS
  <2>17. value_stack' = Append(Lower(value_stack, 1), e)
    BY <2>4
  <2> HIDE DEF e, more
  <2>18. Stacked(vm', Append(Lower(value_stack, 1), e), local_scope_stack, slice_stack, call_stack, global_scope_addr)
    BY ONLY <2>3, <2>11, <2>12, <2>13, <2>15, <2>16, ExchangedStays DEF Refs, Acct
  <2> QED
    BY <2>4, <2>17, <2>18, MovedTo
<1> HIDE DEF a, f, held, more
<1> QED
  BY <1>1, <1>2, <1>3

LEMMA McallKeeps == Now /\ opr_mcall => Now'
<1> SUFFICES ASSUME Now, opr_mcall
             PROVE  Now'
  OBVIOUS
<1>1. Die \/ \E c : Push(Memory(c)) /\ Continue /\ UNCHANGED vm
  BY DEF opr_mcall
<1>2. CASE Die
  BY <1>2, DieStays
<1>3. ASSUME NEW c, Push(Memory(c)), Continue, UNCHANGED vm
      PROVE  Now'
  <2> DEFINE e == Memory(c)
  <2>1. value_stack' = Append(value_stack, e) /\ OthersStay
    BY <1>3 DEF Push, Continue, OtherStacks, Other, OthersStay
  <2>2. Address(e) = None /\ None \in Int
    BY ValueAddress DEF None
  <2>3. Sound(vm, Refs, Acct)
    BY NowFits
  <2>4. Sound(vm', More(Refs, <<None>>), Acct)
    <3>1. vm' = vm
      BY <1>3
    <3>2. Sound(vm, More(Refs, <<None>>), Acct)
      BY ONLY <2>3, NoneMore
    <3> QED
      BY <3>1, <3>2
  <2> HIDE DEF e
  <2> QED
    BY <2>1, <2>2, <2>4, PushedKeeps
<1> QED
  BY <1>1, <1>2, <1>3

LEMMA McallhKeeps == Now /\ opr_mcallh => Now'
<1> SUFFICES ASSUME Now, opr_mcallh
             PROVE  Now'
  OBVIOUS
<1>0. OneOn("memory")
  BY NeedsAre, OneNeeded DEF opr_mcallh
<1>1. Die \/ \E c : Replace(1, Memory(c)) /\ Continue /\ UNCHANGED vm
  BY DEF opr_mcallh
<1>2. CASE Die
  BY <1>2, DieStays
<1>3. ASSUME NEW c, Replace(1, Memory(c)), Continue, UNCHANGED vm
      PROVE  Now'
  <2> DEFINE e == Memory(c)
             more == More(Refs, <<None>>)
  <2>1. value_stack' = Append(Lower(value_stack, 1), e) /\ OthersStay /\ vm' = vm
    BY <1>0, <1>3 DEF Replace, Continue, OtherStacks, Other, OthersStay, OneOn
  <2>2. Address(e) = None /\ None \in Int
    BY ValueAddress DEF None
  <2>3. Sound(vm, Refs, Acct) /\ Refs \in [Int -> Int]
    BY NowFits
  <2>4. Tops(value_stack, 1) = <<None>> /\ 1 <= Len(value_stack)
    <3>1. IsA(value_stack[Len(value_stack)], "memory") /\ Len(value_stack) >= 1
      BY <1>0 DEF OneOn
    <3>2. Address(value_stack[Len(value_stack)]) = None
      BY <3>1, MemoryIs
    <3> QED
      BY <3>1, <3>2, NowFits, TopsTuple
  <2>5. Fewer(more, <<None>>) = Refs
    BY ONLY <2>3, MoreThenFewer
  <2>6. Sound(vm', Fewer(more, Tops(value_stack, 1)), Acct)
    BY <2>1, <2>3, <2>4, <2>5
  <2>7. Stacked(vm, value_stack, local_scope_stack, slice_stack, call_stack, global_scope_addr)
    BY DEF Now
  <2>8. more = More(Refs, <<None>>)
    OBVIOUS
  <2> HIDE DEF e, more
  <2>9. Stacked(vm', Append(Lower(value_stack, 1), e), local_scope_stack, slice_stack, call_stack, global_scope_addr)
    BY ONLY <2>2, <2>4, <2>6, <2>7, <2>8, ExchangedStays DEF Refs, Acct
  <2> QED
    BY <2>1, <2>9, MovedTo
<1> QED
  BY <1>1, <1>2, <1>3

LEMMA McallvKeeps == Now /\ opr_mcallv => Now'
<1> SUFFICES ASSUME Now, opr_mcallv
             PROVE  Now'
  OBVIOUS
<1>0. TwoOn("value", "memory") /\ OneOn("value")
  BY NeedsAre, TwoNeeded DEF opr_mcallv, TwoOn
<1>1. \/ Die
      \/ /\ vm' = del_reference(vm, Top) /\ UNCHANGED OtherStacks /\ Continue
         /\ \/ value_stack' = Below(2)
            \/ \E c : value_stack' = Append(Below(2), Memory(c))
  BY DEF opr_mcallv
<1>2. CASE Die
  BY <1>2, DieStays
<1>3. CASE /\ vm' = del_reference(vm, Top) /\ UNCHANGED OtherStacks /\ Continue
           /\ \/ value_stack' = Below(2)
              \/ \E c : value_stack' = Append(Below(2), Memory(c))
  <2>1. vm' = del_reference(vm, Top) /\ OthersStay
    BY <1>3 DEF OtherStacks, Continue, Other, OthersStay
  <2>2. /\ Len(value_stack) >= 2 /\ Below(2) = Lower(value_stack, 2)
        /\ Top = Address(value_stack[Len(value_stack)])
    BY <1>0, TopFine DEF TwoOn
  <2>3. Address(value_stack[Len(value_stack) - 1]) = None
    BY <1>0, MemoryIs DEF TwoOn
  <2>4. Stacked(vm, value_stack, local_scope_stack, slice_stack, call_stack, global_scope_addr)
    BY DEF Now
  <2>5. CASE value_stack' = Below(2)
    <3>1. Sound(vm', Fewer(Refs, <<Top>>), Acct)
      BY <1>0, <2>1, ReleaseTop
    <3>2. Stacked(vm', Lower(value_stack, 2), local_scope_stack, slice_stack, call_stack, global_scope_addr)
      BY ONLY <2>2, <2>3, <2>4, <3>1, CellDropStays DEF Refs, Acct
    <3> QED
      BY <2>1, <2>2, <2>5, <3>2, MovedTo
  <2>6. ASSUME NEW c, value_stack' = Append(Below(2), Memory(c))
        PROVE  Now'
    <3> DEFINE e == Memory(c)
               more == More(Refs, <<None>>)
    <3>1. Sound(vm, Refs, Acct) /\ Refs \in [Int -> Nat] /\ Refs \in [Int -> Int]
      BY NowFits
    <3>2. Sound(vm, more, Acct)
      BY ONLY <3>1, NoneMore
    <3>3. more \in [Int -> Nat]
      BY ONLY <3>1, MoreNat
    <3>4. Top \in Int /\ Refs[Top] > 0
      BY <1>0, TopFine
    <3>5. more[Top] > 0
      <4> DEFINE o == One(None, Top)
      <4>1. more[Top] = Refs[Top] + o
        BY ONLY <3>1, <3>4, MoreOne
      <4>2. o \in Nat /\ Refs[Top] \in Nat
        BY <3>1, <3>4, OneNat
      <4> HIDE DEF o, more
      <4> QED
        BY ONLY <4>1, <4>2, <3>4
    <3>6. Address(e) = None /\ None \in Int
      BY ValueAddress DEF None
    <3>7. value_stack' = Append(Lower(value_stack, 2), e)
      BY <2>2, <2>6
    <3> HIDE DEF more, e
    <3>8. \A b \in DOMAIN vm.unit : b # Top => more[b] >= 0
      <4>1. DOMAIN vm.unit \subseteq Int
        BY ONLY <3>1, Addresses
      <4> QED
        BY ONLY <3>3, <4>1
    <3>9. Sound(vm', Fewer(more, <<Top>>), Acct)
      BY <2>1, <3>2, <3>5, <3>8, DelSound
    <3>10. Sound(vm', Fewer(More(Refs, <<Address(e)>>), <<Top>>), Acct)
      BY <3>6, <3>9 DEF more
    <3>11. Address(e) \in Int
      BY <3>6
    <3> DEFINE x == Address(value_stack[Len(value_stack)])
               y == Address(value_stack[Len(value_stack) - 1])
    <3>12. x = Address(value_stack[Len(value_stack)]) /\ y = Address(value_stack[Len(value_stack) - 1])
      OBVIOUS
    <3>13. x = Top /\ y = None
      BY <2>2, <2>3
    <3>14. Len(value_stack) >= 2
      BY <2>2
    <3> HIDE DEF x, y
    <3>15. Stacked(vm', Append(Lower(value_stack, 2), e), local_scope_stack, slice_stack, call_stack, global_scope_addr)
      BY ONLY <2>4, <3>10, <3>11, <3>12, <3>13, <3>14, StoredStays DEF Refs, Acct
    <3> QED
      BY <2>1, <3>7, <3>15, MovedTo
  <2> QED
    BY <1>3, <2>5, <2>6
<1> QED
  BY <1>1, <1>2, <1>3

-----------------------------------------------------------------------------
(* Other slices, other scopes.                                              *)

HandsAre(values, locals, slices, global, a) ==
  /\ Hands(values, locals, slices, global)[a] =
       Count(Addrs(values), a) + Count(locals, a) + Count(slices, a) + One(global, a)
  /\ Count(Addrs(values), a) \in Nat /\ Count(locals, a) \in Nat
  /\ Count(slices, a) \in Nat /\ One(global, a) \in Nat

LEMMA HandsAt ==
  ASSUME NEW values, NEW locals, NEW slices, NEW calls, NEW global,
         StacksFit(values, locals, slices, calls, global)
  PROVE  \A a \in Int : HandsAre(values, locals, slices, global, a)
<1> DEFINE h == Hands(values, locals, slices, global)
<1>1. \A a \in Int : /\ h[a] = Count(Addrs(values), a) + Count(locals, a) + Count(slices, a) + One(global, a)
                     /\ Count(Addrs(values), a) \in Nat /\ Count(locals, a) \in Nat
                     /\ Count(slices, a) \in Nat /\ One(global, a) \in Nat
  BY HandsNat
<1> HIDE DEF h
<1>2. \A a \in Int : HandsAre(values, locals, slices, global, a)
  BY ONLY <1>1 DEF HandsAre, h
<1> QED
  BY <1>2

(* The references with one sequence of them instead of another.             *)
Turned(hands, refs, old, new) ==
  \A a \in Int : /\ hands[a] = refs[a] - Count(old, a) + Count(new, a)
                 /\ hands[a] \in Nat /\ refs[a] \in Nat
                 /\ Count(old, a) \in Nat /\ Count(new, a) \in Nat

LEMMA SlicesHands ==
  ASSUME NEW values, NEW locals, NEW slices, NEW calls, NEW global,
         StacksFit(values, locals, slices, calls, global),
         NEW after \in Seq(Int)
  PROVE  /\ StacksFit(values, locals, after, calls, global)
         /\ Turned(Hands(values, locals, after, global), Hands(values, locals, slices, global), slices, after)
<1>0. StacksFit(values, locals, slices, calls, global)
  OBVIOUS
<1>1. StacksFit(values, locals, after, calls, global)
  BY DEF StacksFit
<1>2. ASSUME NEW a \in Int
      PROVE  /\ Hands(values, locals, after, global)[a] =
                   Hands(values, locals, slices, global)[a] - Count(slices, a) + Count(after, a)
             /\ Hands(values, locals, after, global)[a] \in Nat
             /\ Hands(values, locals, slices, global)[a] \in Nat
             /\ Count(slices, a) \in Nat /\ Count(after, a) \in Nat
  <2> DEFINE v == Count(Addrs(values), a)
             l == Count(locals, a)
             w == Count(slices, a)
             z == Count(after, a)
             g == One(global, a)
             h == Hands(values, locals, slices, global)[a]
             k == Hands(values, locals, after, global)[a]
  <2>8. HandsAre(values, locals, slices, global, a)
    BY HandsAt
  <2>9. HandsAre(values, locals, after, global, a)
    BY <1>1, HandsAt
  <2>1. h = v + l + w + g /\ v \in Nat /\ l \in Nat /\ w \in Nat /\ g \in Nat
    BY ONLY <2>8 DEF HandsAre, h, v, l, w, g
  <2>2. k = v + l + z + g /\ z \in Nat
    BY ONLY <2>9 DEF HandsAre, k, v, l, z, g
  <2> HIDE DEF v, l, w, z, g, h, k
  <2>3. k = h - w + z /\ k \in Nat /\ h \in Nat /\ w \in Nat /\ z \in Nat
    BY ONLY <2>1, <2>2
  <2> QED
    BY ONLY <2>3 DEF w, z, h, k
<1> QED
  BY <1>1, <1>2 DEF Turned

LEMMA LocalsHands ==
  ASSUME NEW values, NEW locals, NEW slices, NEW calls, NEW global,
         StacksFit(values, locals, slices, calls, global),
         NEW after \in Seq(Int), NEW under, IsSeq(under), Len(after) = Len(under) + 1, after[1] = None
  PROVE  /\ StacksFit(values, after, slices, under, global)
         /\ Turned(Hands(values, after, slices, global), Hands(values, locals, slices, global), locals, after)
<1>0. StacksFit(values, locals, slices, calls, global)
  OBVIOUS
<1>1. StacksFit(values, after, slices, under, global)
  BY DEF StacksFit
<1>2. ASSUME NEW a \in Int
      PROVE  /\ Hands(values, after, slices, global)[a] =
                   Hands(values, locals, slices, global)[a] - Count(locals, a) + Count(after, a)
             /\ Hands(values, after, slices, global)[a] \in Nat
             /\ Hands(values, locals, slices, global)[a] \in Nat
             /\ Count(locals, a) \in Nat /\ Count(after, a) \in Nat
  <2> DEFINE v == Count(Addrs(values), a)
             l == Count(locals, a)
             w == Count(slices, a)
             z == Count(after, a)
             g == One(global, a)
             h == Hands(values, locals, slices, global)[a]
             k == Hands(values, after, slices, global)[a]
  <2>8. HandsAre(values, locals, slices, global, a)
    BY HandsAt
  <2>9. HandsAre(values, after, slices, global, a)
    BY <1>1, HandsAt
  <2>1. h = v + l + w + g /\ v \in Nat /\ l \in Nat /\ w \in Nat /\ g \in Nat
    BY ONLY <2>8 DEF HandsAre, h, v, l, w, g
  <2>2. k = v + z + w + g /\ z \in Nat
    BY ONLY <2>9 DEF HandsAre, k, v, z, w, g
  <2> HIDE DEF v, l, w, z, g, h, k
  <2>3. k = h - l + z /\ k \in Nat /\ h \in Nat /\ l \in Nat /\ z \in Nat
    BY ONLY <2>1, <2>2
  <2> QED
    BY ONLY <2>3 DEF l, z, h, k
<1> QED
  BY <1>1, <1>2 DEF Turned

(* One more at the end, or one less.                                        *)
LEMMA PushOne ==
  ASSUME NEW q \in Seq(Int), NEW r \in Int
  PROVE  /\ Append(q, r) \in Seq(Int) /\ Len(Append(q, r)) = Len(q) + 1 /\ Len(q) \in Nat
         /\ DOMAIN Append(q, r) = 1..(Len(q) + 1) /\ DOMAIN q = 1..Len(q)
         /\ \A i \in DOMAIN q : Append(q, r)[i] = q[i]
         /\ Append(q, r)[Len(q) + 1] = r
         /\ \A a : Count(Append(q, r), a) = Count(q, a) + One(r, a)
<1>1. IsSeq(q)
  BY SeqIntro
<1>2. \A a : Count(Append(q, r), a) = Count(q, a) + One(r, a)
  BY <1>1, CountAppend DEF One
<1> DEFINE m == Append(q, r)
<1>3. m \in Seq(Int) /\ Len(m) = Len(q) + 1 /\ Len(q) \in Nat
  OBVIOUS
<1>4. DOMAIN q = 1..Len(q) /\ DOMAIN m = 1..(Len(q) + 1)
  <2>1. DOMAIN m = 1..Len(m)
    OBVIOUS
  <2> QED
    BY <2>1, <1>3
<1>5. \A i \in DOMAIN q : m[i] = q[i]
  OBVIOUS
<1>6. m[Len(q) + 1] = r
  OBVIOUS
<1> HIDE DEF m
<1> QED
  BY <1>2, <1>3, <1>4, <1>5, <1>6 DEF m

LEMMA PopOne ==
  ASSUME NEW q \in Seq(Int), Len(q) > 0
  PROVE  /\ Front(q) \in Seq(Int) /\ Len(Front(q)) = Len(q) - 1 /\ Len(q) \in Nat
         /\ DOMAIN Front(q) = 1..(Len(q) - 1) /\ DOMAIN q = 1..Len(q)
         /\ \A i \in DOMAIN Front(q) : Front(q)[i] = q[i]
         /\ Last(q) = q[Len(q)] /\ Last(q) \in Int
         /\ \A a : Count(q, a) = Count(Front(q), a) + One(Last(q), a)
<1>1. IsSeq(q)
  BY SeqIntro
<1>2. Front(q) = SubSeq(q, 1, Len(q) - 1) /\ Last(q) = q[Len(q)]
  BY DEF Front, Last
<1>3. \A a : Count(q, a) = Count(SubSeq(q, 1, Len(q) - 1), a) + One(q[Len(q)], a)
  BY <1>1, CountFront DEF One
<1>4. SubSeq(q, 1, Len(q) - 1) \in Seq(Int) /\ Len(SubSeq(q, 1, Len(q) - 1)) = Len(q) - 1
      /\ \A i \in 1..(Len(q) - 1) : SubSeq(q, 1, Len(q) - 1)[i] = q[i]
  <2> DEFINE n == Len(q) - 1
  <2>1. n \in 0..Len(q)
    OBVIOUS
  <2> HIDE DEF n
  <2>2. /\ IsSeq(SubSeq(q, 1, n)) /\ Len(SubSeq(q, 1, n)) = n
        /\ \A i \in 1..n : SubSeq(q, 1, n)[i] = q[i]
    BY <1>1, <2>1, SeqPrefix
  <2>3. SubSeq(q, 1, n) \in Seq(Int)
    BY <2>1
  <2> QED
    BY <2>2, <2>3 DEF n
<1> DEFINE f == SubSeq(q, 1, Len(q) - 1)
<1> HIDE DEF f
<1>9. Len(q) \in Nat /\ DOMAIN q = 1..Len(q)
  OBVIOUS
<1>5. f \in Seq(Int) /\ Len(f) = Len(q) - 1 /\ \A i \in 1..(Len(q) - 1) : f[i] = q[i]
  BY <1>4 DEF f
<1>6. DOMAIN f = 1..(Len(q) - 1) /\ q[Len(q)] \in Int
  <2>1. DOMAIN f = 1..Len(f)
    BY ONLY <1>5
  <2>2. Len(q) \in DOMAIN q
    BY <1>9
  <2> QED
    BY <1>5, <2>1, <2>2
<1>7. Front(q) = f
  BY <1>2 DEF f
<1>8. \A a : Count(q, a) = Count(f, a) + One(q[Len(q)], a)
  BY <1>3 DEF f
<1> QED
  BY ONLY <1>2, <1>5, <1>6, <1>7, <1>8, <1>9


-----------------------------------------------------------------------------
(* Slices.                                                                  *)

LEMMA SlicesTo ==
  ASSUME UNCHANGED <<local_scope_stack, call_stack, global_scope_addr>>,
         Stacked(vm', value_stack', local_scope_stack, slice_stack', call_stack, global_scope_addr)
  PROVE  Now'
BY DEF Now

(* A reference that goes with a slice begun.                                *)
LEMMA SlicePushStays ==
  ASSUME NEW s, NEW values, NEW locals, NEW slices, NEW calls, NEW global,
         Stacked(s, values, locals, slices, calls, global),
         NEW r \in Int, NEW t, Sound(t, More(Hands(values, locals, slices, global), <<r>>), Account(locals, Kinds(s))),
         LiveAs(t, r, "vector"), r # None
  PROVE  Stacked(t, values, locals, Append(slices, r), calls, global)
<1> DEFINE refs == Hands(values, locals, slices, global)
           owned == More(refs, <<r>>)
           after == Append(slices, r)
           hands == Hands(values, locals, after, global)
           account == Account(locals, Kinds(s))
<1>1. StacksFit(values, locals, slices, calls, global) /\ slices \in Seq(Int)
  BY DEF Stacked, StacksFit
<1>2. after \in Seq(Int) /\ DOMAIN after = 1..(Len(slices) + 1) /\ DOMAIN slices = 1..Len(slices)
      /\ Len(slices) \in Nat /\ (\A i \in DOMAIN slices : after[i] = slices[i])
      /\ after[Len(slices) + 1] = r
  BY <1>1, PushOne
<1>3. \A a : Count(after, a) = Count(slices, a) + One(r, a)
  BY <1>1, PushOne
<1> HIDE DEF after
<1>4. StacksFit(values, locals, after, calls, global) /\ Turned(hands, refs, slices, after)
  BY <1>1, <1>2, SlicesHands
<1>5. refs \in [Int -> Int] /\ account.kind = Kinds(s)
  BY Start
<1> HIDE DEF refs, hands, account
<1>6. \A a \in Int : owned[a] = refs[a] + One(r, a)
  BY <1>5, MoreOne
<1> HIDE DEF owned
<1>7. \A a \in Int : a # None => hands[a] <= owned[a]
  <2> TAKE a \in Int
  <2> DEFINE o == One(r, a)
             w == Count(slices, a)
             x == refs[a]
  <2>1. o \in Nat /\ w \in Nat /\ x \in Nat /\ hands[a] = x - w + Count(after, a)
        /\ owned[a] = x + o /\ Count(after, a) = w + o
    BY <1>3, <1>4, <1>6, OneNat DEF Turned
  <2> HIDE DEF o, w, x
  <2>2. hands[a] <= owned[a]
    BY ONLY <2>1
  <2> QED
    BY <2>2
<1>8. Sound(t, owned, account)
  BY DEF owned, refs, account
<1>9. Fits(t, locals, slices, global)
  BY <1>5, <1>8, FitsKept
<1>10. Fits(t, locals, after, global)
  <2>1. \A i \in DOMAIN after : after[i] # None /\ (Live(t, after[i]) => t.unit[after[i]].type = "vector")
    <3> TAKE i \in DOMAIN after
    <3>1. CASE i \in DOMAIN slices
      BY <3>1, <1>2, <1>9 DEF Fits
    <3>2. CASE i = Len(slices) + 1
      BY <3>2, <1>2 DEF LiveAs
    <3> QED
      BY <1>2, <3>1, <3>2
  <2> QED
    BY <1>9, <2>1 DEF Fits
<1>11. Sound(t, owned, Account(locals, Kinds(s)))
  BY <1>8 DEF account
<1>12. Stacked(t, values, locals, after, calls, global)
  BY <1>4, <1>7, <1>10, <1>11, StackStep DEF hands
<1> QED
  BY <1>12 DEF after

LEMMA SlicebeginKeeps == Now /\ opr_slicebegin => Now'
<1> SUFFICES ASSUME Now, opr_slicebegin
             PROVE  Now'
  OBVIOUS
<1> DEFINE r == NextUnit(vm)
           after == Append(slice_stack, r)
<1>1. \/ Die
      \/ /\ vm' = gc_alloc(vm, "vector") /\ slice_stack' = after /\ value_stack' = value_stack
         /\ UNCHANGED <<local_scope_stack, call_stack, global_scope_addr>>
  BY DEF opr_slicebegin, Continue, Other
<1>2. CASE Die
  BY <1>2, DieStays
<1>3. CASE /\ vm' = gc_alloc(vm, "vector") /\ slice_stack' = after /\ value_stack' = value_stack
           /\ UNCHANGED <<local_scope_stack, call_stack, global_scope_addr>>
  <2>1. Sound(vm, Refs, Acct) /\ IsAccount(Acct)
    BY NowFits
  <2>2. vm' = gc_alloc_with(vm, "vector", <<>>)
    BY <1>3, NewOf DEF gc_alloc
  <2>3. Sound(vm', More(Refs, <<NextUnit(vm)>>), Acct) /\ Allocated(vm, vm', "vector")
    BY <2>1, <2>2, NewSound
  <2>4. NextUnit(vm) \in Int /\ NextUnit(vm) # None
    BY <2>1, Addresses
  <2>5. LiveAs(vm', NextUnit(vm), "vector")
    BY <2>3 DEF Allocated, LiveAs
  <2>6. Stacked(vm', value_stack, local_scope_stack, Append(slice_stack, NextUnit(vm)), call_stack, global_scope_addr)
    BY <2>3, <2>4, <2>5, SlicePushStays DEF Now, Refs, Acct
  <2> QED
    BY <1>3, <2>6, SlicesTo
<1> HIDE DEF after
<1> QED
  BY <1>1, <1>2, <1>3

(* A slice that ends is pushed.                                             *)
LEMMA SlicePopStays ==
  ASSUME NEW s, NEW values, NEW locals, NEW slices, NEW calls, NEW global,
         Stacked(s, values, locals, slices, calls, global), Len(slices) > 0
  PROVE  Stacked(s, Append(values, Value(Last(slices))), locals, Front(slices), calls, global)
<1> DEFINE refs == Hands(values, locals, slices, global)
           r == Last(slices)
           e == Value(r)
           more == Append(values, e)
           less == Front(slices)
           pushed == Hands(more, locals, slices, global)
           hands == Hands(more, locals, less, global)
<1>1. StacksFit(values, locals, slices, calls, global) /\ slices \in Seq(Int)
  BY DEF Stacked, StacksFit
<1>2. less \in Seq(Int) /\ DOMAIN less = 1..(Len(slices) - 1) /\ DOMAIN slices = 1..Len(slices)
      /\ Len(slices) \in Nat /\ (\A i \in DOMAIN less : less[i] = slices[i])
      /\ r \in Int
  BY <1>1, PopOne
<1>3. \A a : Count(slices, a) = Count(less, a) + One(r, a)
  BY <1>1, PopOne
<1>4. Address(e) = r
  BY ValueAddress
<1> HIDE DEF less, e, r
<1>5. StacksFit(more, locals, slices, calls, global)
      /\ \A a \in Int : pushed[a] = refs[a] + One(Address(e), a) /\ refs[a] \in Nat
  BY <1>1, <1>2, <1>4, PushHands
<1> HIDE DEF more
<1>6. StacksFit(more, locals, less, calls, global) /\ Turned(hands, pushed, slices, less)
  BY <1>2, <1>5, SlicesHands
<1>7. Sound(s, refs, Account(locals, Kinds(s))) /\ Account(locals, Kinds(s)).kind = Kinds(s)
  BY Start
<1>8. Fits(s, locals, slices, global)
  BY <1>7, FitsKept
<1> HIDE DEF refs, hands, pushed
<1>9. \A a \in Int : a # None => hands[a] <= refs[a]
  <2> TAKE a \in Int
  <2> DEFINE o == One(r, a)
             w == Count(less, a)
             x == refs[a]
             p == pushed[a]
             q == Count(slices, a)
  <2>1. o \in Nat /\ w \in Nat /\ x \in Nat /\ hands[a] = p - q + w /\ p = x + o /\ q = w + o
    BY <1>3, <1>4, <1>5, <1>6, OneNat DEF Turned
  <2> HIDE DEF o, w, x, p, q
  <2>2. hands[a] <= x
    BY ONLY <2>1
  <2> QED
    BY <2>2 DEF x
<1>10. Fits(s, locals, less, global)
  <2>1. \A i \in DOMAIN less : i \in DOMAIN slices
    BY <1>2
  <2> QED
    BY <1>2, <1>8, <2>1 DEF Fits
<1>11. Stacked(s, more, locals, less, calls, global)
  BY <1>6, <1>7, <1>9, <1>10, StackStep DEF hands
<1> QED
  BY <1>11 DEF more, less, e, r

LEMMA SliceendKeeps == Now /\ opr_sliceend => Now'
<1> SUFFICES ASSUME Now, opr_sliceend
             PROVE  Now'
  OBVIOUS
<1>1. slice_stack # <<>>
  BY DEF opr_sliceend, Op, Ready
<1>2. Len(slice_stack) > 0
  <2>1. slice_stack \in Seq(Int)
    BY DEF Now, Stacked, StacksFit
  <2> QED
    BY <1>1, <2>1
<1>3. Stacked(vm, Append(value_stack, Value(Last(slice_stack))), local_scope_stack, Front(slice_stack), call_stack, global_scope_addr)
  BY <1>2, SlicePopStays DEF Now
<1>4. /\ value_stack' = Append(value_stack, Value(Last(slice_stack))) /\ slice_stack' = Front(slice_stack)
      /\ UNCHANGED <<vm, local_scope_stack, call_stack, global_scope_addr>>
  BY DEF opr_sliceend, Continue, Other
<1> QED
  BY <1>3, <1>4, SlicesTo

(* The slice that elements go to.                                           *)
LEMMA SliceIs ==
  ASSUME Now, slice_stack # <<>>
  PROVE  Last(slice_stack) \in DOMAIN vm.unit /\ vm.unit[Last(slice_stack)].type = "vector"
<1>1. slice_stack \in Seq(Int) /\ \A i \in DOMAIN slice_stack : LiveAs(vm, slice_stack[i], "vector")
  BY DEF Now, Stacked, StacksFit, Referred
<1>2. Last(slice_stack) = slice_stack[Len(slice_stack)]
  BY DEF Last
<1>3. Len(slice_stack) \in DOMAIN slice_stack
  BY <1>1
<1> QED
  BY <1>1, <1>2, <1>3 DEF LiveAs

(* The references of the user stay when those on top go.                    *)
LEMMA ReleaseAfter ==
  ASSUME Now, NEW need, need # "memory", OneOn(need), NEW m, Sound(m, Refs, Acct)
  PROVE  Sound(del_reference(m, Top), Fewer(Refs, <<Top>>), Acct)
<1>1. Top \in Int /\ Refs[Top] > 0
  BY TopFine
<1>2. Refs \in [Int -> Nat]
  BY NowFits
<1>3. DOMAIN m.unit \subseteq Int
  BY Addresses
<1>4. \A b \in DOMAIN m.unit : b # Top => Refs[b] >= 0
  BY <1>2, <1>3
<1> QED
  BY <1>1, <1>2, <1>4, DelSound

LEMMA ReleaseBoth ==
  ASSUME Now, TwoOn("value", "value"), NEW m, Sound(m, Refs, Acct),
         NEW q, IsSeq(q), \A a : Count(q, a) = Count(<<Top, Second>>, a)
  PROVE  Sound(DelAll(m, q), Fewer(Refs, <<Top, Second>>), Acct)
<1>8. 2 \in 0..2 /\ 2 <= Len(value_stack)
  BY NowFits DEF TwoOn
<1>1. \A a \in Int : Count(Tops(value_stack, 2), a) <= Refs[a]
  BY <1>8, AtMost DEF Now, Refs
<1>2. Tops(value_stack, 2) = <<Top, Second>>
  BY BothTops
<1>3. DOMAIN m.unit \subseteq Int
  BY Addresses
<1> DEFINE p == <<Top, Second>>
<1>4. (\A a \in Int : Count(p, a) <= Refs[a]) /\ \A a : Count(q, a) = Count(p, a)
  BY <1>1, <1>2
<1> HIDE DEF p
<1>5. \A b \in DOMAIN m.unit : Count(q, b) <= Refs[b]
  BY <1>3, <1>4
<1>6. Sound(DelAll(m, q), Fewer(Refs, q), Acct)
  BY <1>5, DelAllSound
<1>7. Fewer(Refs, q) = Fewer(Refs, p)
  BY <1>4 DEF Fewer
<1> QED
  BY <1>6, <1>7 DEF p

LEMMA BothDropKeeps ==
  ASSUME Now, TwoOn("value", "value"), OthersStay, value_stack' = Below(2),
         Sound(vm', Fewer(Refs, <<Top, Second>>), Acct)
  PROVE  Now'
<1>1. Tops(value_stack, 2) = <<Top, Second>>
  BY BothTops
<1>2. Sound(vm', Fewer(Refs, Tops(value_stack, 2)), Acct)
  BY <1>1
<1>3. 2 \in 0..2 /\ 2 <= Len(value_stack)
  BY NowFits DEF TwoOn
<1>4. Stacked(vm', Lower(value_stack, 2), local_scope_stack, slice_stack, call_stack, global_scope_addr)
  BY <1>2, <1>3, DropsStay DEF Now, Refs, Acct
<1>5. value_stack' = Lower(value_stack, 2)
  BY DEF TwoOn
<1> QED
  BY <1>4, <1>5, MovedTo

LEMMA SliceKeeps == Now /\ opr_slice => Now'
<1> SUFFICES ASSUME Now, opr_slice
             PROVE  Now'
  OBVIOUS
<1>1. TwoOn("value", "vector") /\ slice_stack # <<>>
  <2>1. Op("slice") /\ Needs("slice") = <<"value", "vector">>
    BY NeedsAre DEF opr_slice
  <2>2. TwoOn("value", "vector")
    BY <2>1, TwoNeeded
  <2>3. slice_stack # <<>>
    BY <2>1 DEF Op, Ready
  <2> QED
    BY <2>2, <2>3
<1>2. OneOn("value")
  BY <1>1 DEF TwoOn
<1>3. \/ Die
      \/ \E c : /\ vm' = del_reference(VectorAddAll(vm, Last(slice_stack), <<mem_get(vm, c)>>), Top)
                /\ Drop(1) /\ Continue
  BY DEF opr_slice, Indexed, VectorValue
<1>4. CASE Die
  BY <1>4, DieStays
<1>5. ASSUME NEW c, vm' = del_reference(VectorAddAll(vm, Last(slice_stack), <<mem_get(vm, c)>>), Top),
             Drop(1), Continue
      PROVE  Now'
  <2> DEFINE a == mem_get(vm, c)
             q == <<a>>
             m == VectorAddAll(vm, Last(slice_stack), q)
  <2>1. Sound(vm, Refs, Acct)
    BY NowFits
  <2>2. a \in Held(vm)
    BY <2>1, MemGetHeld
  <2>3. IsSeq(q) /\ \A i \in DOMAIN q : q[i] \in Held(vm)
    <3> HIDE DEF a
    <3>1. IsSeq(q)
      BY TupleSeq
    <3>2. DOMAIN q = {1} /\ q[1] = a
      OBVIOUS
    <3> QED
      BY <2>2, <3>1, <3>2
  <2>4. vm' = del_reference(m, Top)
    BY <1>5
  <2> HIDE DEF q
  <2>5. Sound(m, Refs, Acct)
    BY <1>1, <2>1, <2>3, SliceIs, VectorAddAllSound
  <2> HIDE DEF m
  <2>6. Sound(vm', Fewer(Refs, <<Top>>), Acct)
    BY <1>2, <2>4, <2>5, ReleaseAfter
  <2>7. value_stack' = Below(1) /\ OthersStay
    BY <1>5, DropOthers DEF Drop
  <2> QED
    BY <1>2, <2>6, <2>7, DropKeeps
<1> QED
  BY <1>3, <1>4, <1>5

LEMMA ThreeNeeded ==
  ASSUME Now, Op("slice2")
  PROVE  TwoOn("value", "value") /\ LiveAs(vm, FromTop(2), "vector") /\ slice_stack # <<>>
<1>1. Len(value_stack) \in Nat
  BY NowFits
<1>2. Ready /\ Needs(Current) = <<"value", "value", "vector">> /\ slice_stack # <<>>
  BY NeedsAre DEF Op, Ready
<1>3. 3 <= Len(value_stack) /\ IsA(value_stack[Len(value_stack) - 1 + 1], "value")
      /\ IsA(value_stack[Len(value_stack) - 2 + 1], "value")
      /\ IsA(value_stack[Len(value_stack) - 3 + 1], "vector")
  <2>2. Len(<<"value", "value", "vector">>) <= Len(value_stack)
     /\ \A i \in DOMAIN <<"value", "value", "vector">> :
          IsA(value_stack[Len(value_stack) - i + 1], <<"value", "value", "vector">>[i])
    BY <1>2 DEF Ready
  <2> QED
    BY <2>2
<1>4. /\ Len(value_stack) - 1 + 1 = Len(value_stack) /\ Len(value_stack) - 0 = Len(value_stack)
      /\ Len(value_stack) - 2 + 1 = Len(value_stack) - 1
      /\ Len(value_stack) - 3 + 1 = Len(value_stack) - 2
  BY <1>1
<1>5. Len(value_stack) \in 1..Len(value_stack) /\ Len(value_stack) - 1 \in 1..Len(value_stack)
      /\ Len(value_stack) - 2 \in 1..Len(value_stack)
      /\ Len(value_stack) >= 1 /\ Len(value_stack) >= 2
  BY <1>1, <1>3
<1>6. Top = value_stack[Len(value_stack)].a /\ Second = value_stack[Len(value_stack) - 1].a
      /\ FromTop(2) = value_stack[Len(value_stack) - 2].a
  BY <1>4 DEF Top, Second, FromTop
<1>7. Below(1) = Lower(value_stack, 1) /\ Below(2) = Lower(value_stack, 2)
  BY DEF Below, Lower
<1>8. TwoOn("value", "value")
  BY <1>3, <1>4, <1>5, <1>6, <1>7 DEF OneOn, TwoOn
<1>9. LiveAs(vm, FromTop(2), "vector")
  <2>1. IsA(value_stack[Len(value_stack) - 2], "vector")
    BY <1>3, <1>4
  <2>2. Fine(value_stack[Len(value_stack) - 2].a, value_stack[Len(value_stack) - 2], "vector")
    BY <1>5, <2>1, IsFine
  <2>3. Type(vm, FromTop(2)) = "vector"
    BY <1>6, <2>2 DEF Fine
  <2> QED
    BY <2>3, TypeLive
<1> QED
  BY <1>2, <1>8, <1>9

LEMMA EitherOrder ==
  ASSUME NEW x, NEW y
  PROVE  \A a : Count(<<y, x>>, a) = Count(<<x, y>>, a)
<1> TAKE a
<1> DEFINE o == One(x, a)
           p == One(y, a)
<1>1. Count(<<y, x>>, a) = p + o /\ o \in Nat /\ p \in Nat
  BY CountPair DEF PairCounted
<1>2. Count(<<x, y>>, a) = o + p
  BY CountPair DEF PairCounted
<1> HIDE DEF o, p
<1> QED
  BY <1>1, <1>2

LEMMA BetweenHeld ==
  ASSUME Now, NEW v, LiveAs(vm, v, "vector"), NEW b, InOrder(b, v)
  PROVE  IsSeq(Between(v, b)) /\ \A k \in DOMAIN Between(v, b) : Between(v, b)[k] \in Held(vm)
<1>1. Sound(vm, Refs, Acct)
  BY NowFits
<1>2. vm.unit[v].val \in Seq(Nat)
  BY <1>1, VectorFacts DEF LiveAs
<1>3. b[1] \in Int /\ b[2] \in Int /\ b[1] < b[2]
  <2> DEFINE n == Len(Val(vm, v))
  <2>1. n \in Nat
    BY <1>2 DEF Val
  <2>2. b[1] < b[2] /\ InRange(b[1], n) /\ InRange(b[2], n)
    BY DEF InOrder
  <2> HIDE DEF n
  <2> QED
    BY <2>1, <2>2 DEF InRange
<1> DEFINE q == Between(v, b)
           n == b[2] - b[1]
<1>4. q = [k \in 1..n |-> VectorValue(vm, v, b[1] + k - 1)]
  BY DEF Between
<1>5. \A c : mem_get(vm, c) \in Held(vm)
  BY <1>1, MemGetHeld
<1>6. \A k \in 1..n : q[k] \in Held(vm)
  BY <1>4, <1>5 DEF VectorValue
<1>7. n \in Nat
  BY <1>3
<1>8. q = [k \in 1..n |-> q[k]]
  BY <1>4
<1> HIDE DEF q, n
<1>9. q \in Seq(Held(vm)) /\ Len(q) = n
  BY <1>6, <1>7, <1>8, SeqMade
<1>10. IsSeq(q) /\ DOMAIN q = 1..n
  BY <1>8, <1>9, SeqIntro
<1> QED
  BY <1>6, <1>10 DEF q

LEMMA Slice2Keeps == Now /\ opr_slice2 => Now'
<1> SUFFICES ASSUME Now, opr_slice2
             PROVE  Now'
  OBVIOUS
<1>1. TwoOn("value", "value") /\ LiveAs(vm, FromTop(2), "vector") /\ slice_stack # <<>>
  BY ThreeNeeded DEF opr_slice2
<1>2. \/ Die
      \/ \E b : /\ InOrder(b, FromTop(2))
                /\ vm' = DelAll(VectorAddAll(vm, Last(slice_stack), Between(FromTop(2), b)), <<Second, Top>>)
                /\ Drop(2) /\ Continue
  BY DEF opr_slice2
<1>3. CASE Die
  BY <1>3, DieStays
<1>4. ASSUME NEW b, InOrder(b, FromTop(2)),
             vm' = DelAll(VectorAddAll(vm, Last(slice_stack), Between(FromTop(2), b)), <<Second, Top>>),
             Drop(2), Continue
      PROVE  Now'
  <2> DEFINE q == Between(FromTop(2), b)
             m == VectorAddAll(vm, Last(slice_stack), q)
  <2>1. Sound(vm, Refs, Acct)
    BY NowFits
  <2>2. IsSeq(q) /\ \A i \in DOMAIN q : q[i] \in Held(vm)
    BY <1>1, <1>4, BetweenHeld
  <2> HIDE DEF q
  <2>3. Sound(m, Refs, Acct)
    BY <1>1, <2>1, <2>2, SliceIs, VectorAddAllSound
  <2>4. vm' = DelAll(m, <<Second, Top>>)
    BY <1>4 DEF q
  <2> HIDE DEF m
  <2> DEFINE p == <<Second, Top>>
  <2>5. IsSeq(p) /\ \A a : Count(p, a) = Count(<<Top, Second>>, a)
    BY EitherOrder, TupleSeq
  <2>8. vm' = DelAll(m, p)
    BY <2>4
  <2> HIDE DEF p
  <2>6. Sound(vm', Fewer(Refs, <<Top, Second>>), Acct)
    BY <1>1, <2>3, <2>5, <2>8, ReleaseBoth
  <2>7. value_stack' = Below(2) /\ OthersStay
    BY <1>4, DropOthers DEF Drop
  <2> QED
    BY <1>1, <2>6, <2>7, BothDropKeeps
<1> QED
  BY <1>2, <1>3, <1>4

-----------------------------------------------------------------------------
(* Builtin functions.                                                       *)

LEMMA SplitGives ==
  ASSUME NEW s, NEW refs, NEW account, Sound(s, refs, account), IsAccount(account),
         NEW d, NEW a, Is(s, d, "string") /\ Is(s, a, "string") => IsSeq(Pieces(Val(s, a), Val(s, d)))
  PROVE  Gives(builtin_split(s, d, a), refs, account)
<1> DEFINE strings == Pieces(Val(s, a), Val(s, d))
           result == NewStrings(s, strings)
<1> HIDE DEF strings
<1>1. CASE Is(s, d, "string") /\ Is(s, a, "string")
  <2>1. IsSeq(strings)
    BY <1>1 DEF strings
  <2>2. Sound(result.vm, More(refs, <<NextUnit(s)>>), account) /\ result.ret = NextUnit(s)
    BY <2>1, NewStringsSound
  <2>3. NextUnit(s) \in Int
    BY Addresses
  <2>4. builtin_split(s, d, a) = result
    BY <1>1 DEF builtin_split, strings
  <2> HIDE DEF result
  <2> QED
    BY <2>2, <2>3, <2>4 DEF Gives
<1>2. CASE ~(Is(s, d, "string") /\ Is(s, a, "string"))
  BY <1>2, ErrorGives DEF builtin_split
<1> QED
  BY <1>1, <1>2

LEMMA BuiltincallKeeps ==
  ASSUME Now, opr_builtincall, BuiltinFits
  PROVE  Now'
<1> DEFINE result == CallBuiltin(vm, Scope, X)
<1>1. Begun(vm, Refs, Acct)
  BY NowBegun
<1>2. Sound(vm, Refs, Acct) /\ IsAccount(Acct) /\ Refs \in [Int -> Nat]
  BY <1>1 DEF Begun
<1>3. Gives(result, Refs, Acct)
  <2>1. CASE X # "nasal_call_builtin_split"
    <3>1. X \in BuiltinName \ {"nasal_call_builtin_split"}
      BY <2>1 DEF BuiltinFits
    <3> QED
      BY <1>2, <3>1, CallBuiltinGives
  <2>2. CASE X = "nasal_call_builtin_split"
    <3> DEFINE d == Find(vm, Scope, "delimeter")
               a == Find(vm, Scope, "string")
    <3>1. Is(vm, d, "string") /\ Is(vm, a, "string") => IsSeq(Pieces(Val(vm, a), Val(vm, d)))
      BY <2>2 DEF BuiltinFits, PartsInOrder, IsSeq
    <3>2. result = builtin_split(vm, d, a)
      BY <2>2 DEF CallBuiltin
    <3> HIDE DEF d, a
    <3>3. Gives(builtin_split(vm, d, a), Refs, Acct)
      BY ONLY <1>2, <3>1, SplitGives
    <3> QED
      BY <3>2, <3>3
  <2> QED
    BY <2>1, <2>2
<1>4. vm' = result.vm /\ value_stack' = Append(value_stack, Value(result.ret)) /\ OthersStay
  BY DEF opr_builtincall, Push, OtherStacks, Other, OthersStay
<1> HIDE DEF result
<1>5. Sound(vm', More(Refs, <<result.ret>>), Acct) /\ result.ret \in Int
  BY <1>3, <1>4 DEF Gives
<1>6. Address(Value(result.ret)) = result.ret
  BY ValueAddress
<1> QED
  BY <1>4, <1>5, <1>6, PushedKeeps

-----------------------------------------------------------------------------
(* Returns.                                                                 *)

LEMMA UnderTop ==
  ASSUME NEW values, Entries(values), Len(values) >= 2,
         NEW after, after = Append(SubSeq(values, 1, Len(values) - 2), values[Len(values)])
  PROVE  /\ Entries(after)
         /\ \A a : Count(Addrs(values), a) = Count(Addrs(after), a) + One(Address(values[Len(values) - 1]), a)
<1> DEFINE below == SubSeq(values, 1, Len(values) - 2)
           e == values[Len(values)]
           y == Address(values[Len(values) - 1])
<1>1. Entries(below) /\ \A a : Count(Addrs(values), a) = Count(Addrs(below), a) + One(Address(e), a) + One(y, a)
  BY PopTwo
<1>2. Address(e) \in Int
  <2>1. IsSeq(values) /\ \A i \in DOMAIN values : Address(values[i]) \in Int
    BY DEF Entries
  <2>2. Len(values) \in DOMAIN values
    BY <2>1, SeqFacts
  <2> QED
    BY <2>1, <2>2
<1> HIDE DEF below, e, y
<1>3. after = Append(below, e)
  BY DEF below, e
<1>4. Entries(after) /\ \A a : Count(Addrs(after), a) = Count(Addrs(below), a) + One(Address(e), a)
  <2>1. Entries(below)
    BY <1>1
  <2>2. /\ Entries(Append(below, e))
        /\ \A a : Count(Addrs(Append(below, e)), a) = Count(Addrs(below), a) + One(Address(e), a)
    BY ONLY <2>1, <1>2, PushEntry
  <2> QED
    BY ONLY <2>2, <1>3
<1>5. \A a : Count(Addrs(values), a) = Count(Addrs(after), a) + One(y, a)
  <2> TAKE a
  <2> DEFINE b == Count(Addrs(below), a)
             o == One(Address(e), a)
             p == One(y, a)
  <2>1. IsSeq(Addrs(below))
    BY <1>1, AddrsSeq DEF Entries
  <2>2. b \in Nat /\ o \in Nat /\ p \in Nat
    BY <2>1, CountNat, OneNat
  <2>3. Count(Addrs(values), a) = b + o + p /\ Count(Addrs(after), a) = b + o
    BY <1>1, <1>4
  <2> HIDE DEF b, o, p
  <2>4. Count(Addrs(values), a) = Count(Addrs(after), a) + p
    BY ONLY <2>2, <2>3
  <2> QED
    BY <2>4 DEF p
<1> QED
  BY <1>4, <1>5 DEF y

(* The account of what is known after the innermost scope is closed.        *)
LEMMA AccountPop ==
  ASSUME NEW locals \in Seq(Int), Len(locals) > 0, NEW kind
  PROVE  Account(Front(locals), kind) = Scoped(Account(locals, kind), Last(locals), -1)
<1> DEFINE f == [a \in Int |-> Count(Front(locals), a)]
           c == Last(locals)
           acc == Account(locals, kind)
           g == [a \in Int |-> IF a = c THEN acc.scopes[a] + -1 ELSE acc.scopes[a]]
<1>1. \A a : Count(locals, a) = Count(Front(locals), a) + One(c, a)
  BY PopOne
<1>2. \A a : Count(Front(locals), a) \in Nat
  <2>1. IsSeq(Front(locals))
    BY PopOne, SeqIntro
  <2> QED
    BY <2>1, CountNat
<1>3. \A a \in Int : acc.scopes[a] = Count(locals, a)
  BY AccountIs
<1>4. \A a \in Int : f[a] = g[a]
  <2> TAKE a \in Int
  <2>1. acc.scopes[a] = Count(Front(locals), a) + One(c, a) /\ Count(Front(locals), a) \in Nat
    BY <1>1, <1>2, <1>3
  <2> DEFINE x == Count(Front(locals), a)
             y == acc.scopes[a]
  <2>2. f[a] = x /\ g[a] = (IF a = c THEN y + -1 ELSE y)
    OBVIOUS
  <2> HIDE DEF x, y, f, g
  <2>3. y = x + One(c, a) /\ x \in Nat
    BY <2>1 DEF x, y
  <2>4. f[a] = g[a]
    BY ONLY <2>2, <2>3 DEF One
  <2> QED
    BY <2>4
<1>5. f = [a \in Int |-> f[a]] /\ g = [a \in Int |-> g[a]]
  OBVIOUS
<1>6. IsAccount(acc)
  BY AccountIs
<1>7. Scoped(acc, c, -1) = [scopes |-> g, kind |-> acc.kind, open |-> acc.open]
  <2>1. /\ IsAccount(Scoped(acc, c, -1)) /\ Scoped(acc, c, -1).scopes = g
        /\ Scoped(acc, c, -1).kind = acc.kind /\ Scoped(acc, c, -1).open = acc.open
    <3> HIDE DEF acc, c
    <3> QED
      BY <1>6, ScopedIs
  <2> HIDE DEF g, acc, c
  <2> QED
    BY <2>1 DEF IsAccount
<1>8. Account(Front(locals), kind) = [scopes |-> f, kind |-> kind, open |-> {}]
  BY DEF Account
<1>9. acc.kind = kind /\ acc.open = {}
  BY AccountIs
<1> HIDE DEF f, g, acc, c
<1>10. f = g
  BY <1>4, <1>5
<1> QED
  BY <1>7, <1>8, <1>9, <1>10 DEF acc, c

Spent(values, after, locals, slices, global, y) ==
  \A a \in Int :
    /\ Hands(values, locals, slices, global)[a] = Hands(after, locals, slices, global)[a] + One(y, a)
    /\ Hands(after, locals, slices, global)[a] \in Nat

LEMMA SpendOne ==
  ASSUME NEW values, NEW locals, NEW slices, NEW calls, NEW global,
         StacksFit(values, locals, slices, calls, global),
         NEW after, Entries(after), NEW y,
         \A a : Count(Addrs(values), a) = Count(Addrs(after), a) + One(y, a)
  PROVE  /\ StacksFit(after, locals, slices, calls, global)
         /\ Spent(values, after, locals, slices, global, y)
<1>1. StacksFit(after, locals, slices, calls, global)
  BY DEF StacksFit
<1>2. ASSUME NEW a \in Int
      PROVE  /\ Hands(values, locals, slices, global)[a] = Hands(after, locals, slices, global)[a] + One(y, a)
             /\ Hands(after, locals, slices, global)[a] \in Nat
  <2> DEFINE v == Count(Addrs(values), a)
             u == Count(Addrs(after), a)
             l == Count(locals, a)
             w == Count(slices, a)
             g == One(global, a)
             o == One(y, a)
             h == Hands(values, locals, slices, global)[a]
             k == Hands(after, locals, slices, global)[a]
  <2>1. HandsAre(values, locals, slices, global, a)
    BY HandsAt
  <2>2. HandsAre(after, locals, slices, global, a)
    BY <1>1, HandsAt
  <2>3. h = v + l + w + g /\ v \in Nat /\ l \in Nat /\ w \in Nat /\ g \in Nat
    BY ONLY <2>1 DEF HandsAre, h, v, l, w, g
  <2>4. k = u + l + w + g /\ u \in Nat
    BY ONLY <2>2 DEF HandsAre, k, u, l, w, g
  <2>5. v = u + o /\ o \in Nat
    BY OneNat
  <2> HIDE DEF v, u, l, w, g, o, h, k
  <2>6. h = k + o /\ k \in Nat
    BY ONLY <2>3, <2>4, <2>5
  <2> QED
    BY ONLY <2>6 DEF h, k, o
<1> QED
  BY <1>1, <1>2 DEF Spent

LEMMA ReturnStays ==
  ASSUME NEW s, NEW values, NEW locals, NEW slices, NEW calls, NEW global,
         Stacked(s, values, locals, slices, calls, global), Len(values) >= 2, Len(calls) > 0,
         NEW c, c = Last(locals), NEW y, y = Address(values[Len(values) - 1]),
         NEW t, Sound(t, Fewer(Hands(values, locals, slices, global), <<c, y>>),
                      Scoped(Account(locals, Kinds(s)), c, -1))
  PROVE  Stacked(t, Append(Lower(values, 2), values[Len(values)]), Front(locals), slices, Front(calls), global)
<1> DEFINE after == Append(Lower(values, 2), values[Len(values)])
           front == Front(locals)
           under == Front(calls)
           refs == Hands(values, locals, slices, global)
           between == Hands(after, locals, slices, global)
           hands == Hands(after, front, slices, global)
           q == <<c, y>>
           owned == Fewer(refs, q)
<1>1. /\ StacksFit(values, locals, slices, calls, global) /\ Entries(values)
      /\ locals \in Seq(Int) /\ IsSeq(calls) /\ Len(locals) = Len(calls) + 1 /\ locals[1] = None
  BY DEF Stacked, StacksFit
<1>2. Len(calls) \in Nat /\ Len(locals) > 1 /\ Len(locals) \in Nat
  <2>1. Len(calls) \in Nat
    BY <1>1, SeqFacts
  <2> QED
    BY <1>1, <2>1
<1>3. Entries(after) /\ \A a : Count(Addrs(values), a) = Count(Addrs(after), a) + One(y, a)
  <2>1. after = Append(SubSeq(values, 1, Len(values) - 2), values[Len(values)])
    BY DEF Lower
  <2> HIDE DEF after
  <2> QED
    BY <1>1, <2>1, UnderTop
<1>18. Len(locals) > 0
  BY <1>2
<1>4. /\ front \in Seq(Int) /\ Len(front) = Len(locals) - 1 /\ DOMAIN front = 1..(Len(locals) - 1)
      /\ DOMAIN locals = 1..Len(locals) /\ (\A i \in DOMAIN front : front[i] = locals[i])
  BY <1>1, <1>18, PopOne
<1>19. \A a : Count(locals, a) = Count(front, a) + One(c, a)
  BY <1>1, <1>18, PopOne
<1>5. IsSeq(under) /\ Len(under) = Len(calls) - 1
  <2>1. Len(calls) - 1 \in 0..Len(calls)
    BY <1>2
  <2> QED
    BY <1>1, <2>1, SeqPrefix DEF Front
<1> HIDE DEF after, front, under
<1>6. Len(front) = Len(under) + 1 /\ front[1] = None
  <2>1. 1 \in DOMAIN front
    BY <1>2, <1>4
  <2>2. front[1] = None
    BY <1>1, <1>4, <2>1
  <2> QED
    BY <1>1, <1>2, <1>4, <1>5, <2>2
<1>7. StacksFit(after, locals, slices, calls, global) /\ Spent(values, after, locals, slices, global, y)
  BY <1>1, <1>3, SpendOne
<1>8. \A a \in Int : refs[a] = between[a] + One(y, a) /\ between[a] \in Nat
  BY <1>7 DEF Spent
<1>9. StacksFit(after, front, slices, under, global) /\ Turned(hands, between, locals, front)
  BY <1>4, <1>5, <1>6, <1>7, LocalsHands
<1>10. refs \in [Int -> Int] /\ Account(locals, Kinds(s)).kind = Kinds(s) /\ IsAccount(Account(locals, Kinds(s)))
  BY Start
<1>11. Account(front, Kinds(s)) = Scoped(Account(locals, Kinds(s)), c, -1)
  <2>1. Account(Front(locals), Kinds(s)) = Scoped(Account(locals, Kinds(s)), Last(locals), -1)
    BY <1>1, <1>2, AccountPop
  <2> QED
    BY <2>1 DEF front
<1> HIDE DEF refs, between, hands, q
<1>12. \A a \in Int : owned[a] = refs[a] - (One(c, a) + One(y, a))
  <2> TAKE a \in Int
  <2>1. owned[a] = refs[a] - Count(q, a)
    BY DEF Fewer
  <2>2. Count(q, a) = One(c, a) + One(y, a)
    BY CountPair DEF q, PairCounted
  <2> QED
    BY <2>1, <2>2
<1>13. Sound(t, owned, Account(front, Kinds(s)))
  BY <1>11 DEF owned, refs, q
<1> HIDE DEF owned
<1>14. \A a \in Int : a # None => hands[a] <= owned[a]
  <2> TAKE a \in Int
  <2> DEFINE o == One(c, a)
             p == One(y, a)
             b == between[a]
             l == Count(locals, a)
             f == Count(front, a)
             h == hands[a]
             w == owned[a]
  <2>1. /\ o \in Nat /\ p \in Nat /\ b \in Nat /\ l \in Nat /\ f \in Nat
        /\ h = b - l + f /\ w = (b + p) - (o + p) /\ l = f + o
    BY <1>19, <1>8, <1>9, <1>12, OneNat DEF Turned
  <2> HIDE DEF o, p, b, l, f, h, w
  <2>2. h <= w
    BY ONLY <2>1
  <2> QED
    BY <2>2 DEF h, w
<1>15. Fits(t, locals, slices, global)
  <2>1. Account(front, Kinds(s)).kind = Kinds(s)
    BY AccountIs
  <2> QED
    BY <1>13, <2>1, FitsKept
<1>16. Fits(t, front, slices, global)
  <2>1. \A i \in DOMAIN front : i \in DOMAIN locals
    BY <1>2, <1>4
  <2> QED
    BY <1>4, <1>15, <2>1 DEF Fits
<1>17. Stacked(t, after, front, slices, under, global)
  BY <1>9, <1>13, <1>14, <1>16, StackStep DEF hands
<1> QED
  BY <1>17 DEF after, front, under

LEMMA ScopedTop ==
  ASSUME Now, Scope # None
  PROVE  /\ Acct.scopes[Scope] >= 1 /\ Acct.scopes[Scope] \in Nat
         /\ Scope \in DOMAIN vm.unit /\ vm.unit[Scope].type = "closure"
<1>1. Scope \in Int /\ LiveAs(vm, Scope, "closure") /\ Len(local_scope_stack) \in DOMAIN local_scope_stack
      /\ Scope = local_scope_stack[Len(local_scope_stack)]
  BY ScopeIs
<1>2. IsSeq(local_scope_stack)
  BY SeqIntro DEF Now, Stacked, StacksFit
<1>3. Count(local_scope_stack, Scope) \in Nat /\ Count(local_scope_stack, Scope) > 0
  BY <1>1, <1>2, CountSome
<1>4. Acct.scopes[Scope] = Count(local_scope_stack, Scope)
  BY <1>1, AccountIs DEF Acct
<1> QED
  BY <1>1, <1>3, <1>4 DEF LiveAs

(* The references to the scope and to the function below the value.         *)
LEMMA ScopeAndSecond ==
  ASSUME Now, TwoOn("value", "value")
  PROVE  \A a \in Int : Count(<<Scope, Second>>, a) \in Nat /\ Count(<<Scope, Second>>, a) <= Refs[a]
<1> TAKE a \in Int
<1> DEFINE v == Count(Addrs(value_stack), a)
           l == Count(local_scope_stack, a)
           w == Count(slice_stack, a)
           g == One(global_scope_addr, a)
           x == One(Top, a)
           y == One(Second, a)
           o == One(Scope, a)
           b == Count(Addrs(SubSeq(value_stack, 1, Len(value_stack) - 2)), a)
           f == Count(Front(local_scope_stack), a)
           k == Count(<<Scope, Second>>, a)
<1>1. /\ StacksFit(value_stack, local_scope_stack, slice_stack, call_stack, global_scope_addr)
      /\ Entries(value_stack) /\ local_scope_stack \in Seq(Int)
  BY DEF Now, Stacked, StacksFit
<1>2. HandsAre(value_stack, local_scope_stack, slice_stack, global_scope_addr, a)
  BY <1>1, HandsAt
<1>3. Refs[a] = v + l + w + g /\ v \in Nat /\ l \in Nat /\ w \in Nat /\ g \in Nat
  BY ONLY <1>2 DEF HandsAre, Refs
<1>4. v = b + x + y /\ b \in Nat
  <2> DEFINE below == SubSeq(value_stack, 1, Len(value_stack) - 2)
  <2>1. Len(value_stack) >= 2
    BY DEF TwoOn
  <2>2. Top = Address(value_stack[Len(value_stack)]) /\ Second = Address(value_stack[Len(value_stack) - 1])
    BY TopFine, SecondFine DEF TwoOn
  <2>3. Entries(below)
        /\ Count(Addrs(value_stack), a) = Count(Addrs(below), a) + One(Address(value_stack[Len(value_stack)]), a)
                                     + One(Address(value_stack[Len(value_stack) - 1]), a)
    BY <1>1, <2>1, PopTwo
  <2>4. IsSeq(Addrs(below))
    BY <2>3, AddrsSeq DEF Entries
  <2> QED
    BY <2>2, <2>3, <2>4, CountNat
<1>5. l = f + o /\ f \in Nat
  <2>1. Len(local_scope_stack) > 0
    BY <1>1, ScopeIs
  <2>2. Front(local_scope_stack) \in Seq(Int) /\ Count(local_scope_stack, a) = f + One(Last(local_scope_stack), a)
    BY <1>1, <2>1, PopOne
  <2>3. IsSeq(Front(local_scope_stack))
    BY <2>2, SeqIntro
  <2> QED
    BY <2>2, <2>3, CountNat DEF Scope
<1>6. k = o + y
  BY CountPair DEF PairCounted
<1>7. x \in Nat /\ y \in Nat /\ o \in Nat
  BY OneNat
<1> HIDE DEF v, l, w, g, x, y, o, b, f, k
<1>8. k \in Nat /\ k <= Refs[a]
  BY ONLY <1>3, <1>4, <1>5, <1>6, <1>7
<1> QED
  BY <1>8 DEF k

LEMMA ReturnKeeps == Now /\ opr_return => Now'
<1> SUFFICES ASSUME Now, opr_return
             PROVE  Now'
  OBVIOUS
<1>1. TwoOn("value", "value") /\ call_stack # <<>> /\ Type(vm, Scope) = "closure"
  <2>1. Op("return") /\ Needs("return") = <<"value", "value">>
    BY NeedsAre DEF opr_return
  <2>2. TwoOn("value", "value")
    BY <2>1, TwoNeeded
  <2>3. call_stack # <<>> /\ Type(vm, Scope) = "closure"
    BY <2>1 DEF Op, Ready, Scope
  <2> QED
    BY <2>2, <2>3
<1>2. Sound(vm, Refs, Acct) /\ IsAccount(Acct) /\ Refs \in [Int -> Nat]
  BY NowFits
<1>3. Scope \in DOMAIN vm.unit /\ Scope # None
  <2>1. Scope \in DOMAIN vm.unit
    BY <1>1, TypeLive
  <2> QED
    BY <1>2, <2>1, TypeIs
<1>4. Acct.scopes[Scope] >= 1 /\ vm.unit[Scope].type = "closure"
  BY <1>3, ScopedTop
<1> DEFINE m == del_scope(vm, Scope)
           q == <<Scope, Second>>
           account == Scoped(Acct, Scope, -1)
<1>5. Sound(m, Refs, account)
  BY <1>2, <1>3, <1>4, DelScopeSound
<1>6. vm' = DelAll(m, q)
  BY DEF opr_return
<1>7. IsSeq(q) /\ \A a \in Int : Count(q, a) <= Refs[a]
  BY <1>1, ScopeAndSecond, TupleSeq
<1> HIDE DEF m, q, account
<1>8. DOMAIN m.unit \subseteq Int
  BY <1>5, Addresses
<1>9. \A b \in DOMAIN m.unit : Count(q, b) <= Refs[b]
  BY <1>7, <1>8
<1>10. Sound(vm', Fewer(Refs, q), account)
  BY <1>5, <1>6, <1>7, <1>9, DelAllSound
<1>11. Sound(vm', Fewer(Refs, <<Scope, Second>>), Scoped(Acct, Scope, -1))
  BY <1>10 DEF q, account
<1>12. Len(value_stack) >= 2 /\ Second = Address(value_stack[Len(value_stack) - 1])
  BY <1>1, SecondFine DEF TwoOn
<1>13. Len(call_stack) > 0
  <2>1. IsSeq(call_stack)
    BY DEF Now, Stacked, StacksFit
  <2> QED
    BY <1>1, <2>1 DEF IsSeq
<1>14. Stacked(vm', Append(Lower(value_stack, 2), value_stack[Len(value_stack)]), Front(local_scope_stack),
               slice_stack, Front(call_stack), global_scope_addr)
  BY <1>11, <1>12, <1>13, ReturnStays DEF Now, Refs, Acct, Scope
<1>15. /\ value_stack' = Append(Lower(value_stack, 2), value_stack[Len(value_stack)])
       /\ local_scope_stack' = Front(local_scope_stack) /\ call_stack' = Front(call_stack)
       /\ slice_stack' = slice_stack /\ global_scope_addr' = global_scope_addr
  BY DEF opr_return, GoTo, Other, Below, Lower, Last
<1> QED
  BY <1>14, <1>15 DEF Now

-----------------------------------------------------------------------------
(* Calls.                                                                   *)

LEMMA AccountPush ==
  ASSUME NEW locals \in Seq(Int), NEW c \in Int, NEW kind
  PROVE  Account(Append(locals, c), kind) = Scoped(Account(locals, kind), c, 1)
<1> DEFINE f == [a \in Int |-> Count(Append(locals, c), a)]
           acc == Account(locals, kind)
           g == [a \in Int |-> IF a = c THEN acc.scopes[a] + 1 ELSE acc.scopes[a]]
<1>1. \A a : Count(Append(locals, c), a) = Count(locals, a) + One(c, a)
  BY PushOne
<1>2. \A a : Count(locals, a) \in Nat
  <2>1. IsSeq(locals)
    BY SeqIntro
  <2> QED
    BY <2>1, CountNat
<1>3. \A a \in Int : acc.scopes[a] = Count(locals, a)
  BY AccountIs
<1>4. \A a \in Int : f[a] = g[a]
  <2> TAKE a \in Int
  <2>1. acc.scopes[a] = Count(locals, a) /\ Count(Append(locals, c), a) = Count(locals, a) + One(c, a)
        /\ Count(locals, a) \in Nat
    BY <1>1, <1>2, <1>3
  <2> DEFINE x == Count(Append(locals, c), a)
             y == acc.scopes[a]
  <2>2. f[a] = x /\ g[a] = (IF a = c THEN y + 1 ELSE y)
    OBVIOUS
  <2> HIDE DEF x, y, f, g
  <2>3. x = y + One(c, a) /\ y \in Nat
    BY <2>1 DEF x, y
  <2>4. f[a] = g[a]
    BY ONLY <2>2, <2>3 DEF One
  <2> QED
    BY <2>4
<1>5. f = [a \in Int |-> f[a]] /\ g = [a \in Int |-> g[a]]
  OBVIOUS
<1>6. IsAccount(acc)
  BY AccountIs
<1>7. Scoped(acc, c, 1) = [scopes |-> g, kind |-> acc.kind, open |-> acc.open]
  <2>1. /\ IsAccount(Scoped(acc, c, 1)) /\ Scoped(acc, c, 1).scopes = g
        /\ Scoped(acc, c, 1).kind = acc.kind /\ Scoped(acc, c, 1).open = acc.open
    <3> HIDE DEF acc
    <3> QED
      BY <1>6, ScopedIs
  <2> HIDE DEF g, acc
  <2> QED
    BY <2>1 DEF IsAccount
<1>8. Account(Append(locals, c), kind) = [scopes |-> f, kind |-> kind, open |-> {}]
  BY DEF Account
<1>9. acc.kind = kind /\ acc.open = {}
  BY AccountIs
<1> HIDE DEF f, g, acc
<1>10. f = g
  BY <1>4, <1>5
<1> QED
  BY <1>7, <1>8, <1>9, <1>10 DEF acc

LEMMA CallStays ==
  ASSUME NEW s, NEW values, NEW locals, NEW slices, NEW calls, NEW global,
         Stacked(s, values, locals, slices, calls, global), Len(values) >= 1,
         NEW c \in DOMAIN s.unit, s.unit[c].type = "closure", NEW p,
         NEW x, x = Address(values[Len(values)]),
         NEW t, Sound(t, Fewer(More(Hands(values, locals, slices, global), <<c>>), <<x>>),
                      Scoped(Account(locals, Kinds(s)), c, 1))
  PROVE  Stacked(t, Lower(values, 1), Append(locals, c), slices, Append(calls, p), global)
<1> DEFINE below == Lower(values, 1)
           more == Append(locals, c)
           over == Append(calls, p)
           refs == Hands(values, locals, slices, global)
           between == Hands(below, locals, slices, global)
           hands == Hands(below, more, slices, global)
           held == More(refs, <<c>>)
           owned == Fewer(held, <<x>>)
<1>1. /\ StacksFit(values, locals, slices, calls, global) /\ Entries(values)
      /\ locals \in Seq(Int) /\ IsSeq(calls) /\ Len(locals) = Len(calls) + 1 /\ locals[1] = None
  BY DEF Stacked, StacksFit
<1>2. Sound(s, refs, Account(locals, Kinds(s))) /\ refs \in [Int -> Int] /\ Account(locals, Kinds(s)).kind = Kinds(s)
  BY Start
<1>3. c \in Int /\ c # None
  BY <1>2, TypeIs
<1>4. Entries(below) /\ \A a : Count(Addrs(values), a) = Count(Addrs(below), a) + One(x, a)
  <2>1. Len(values) > 0
    <3>1. Len(values) \in Nat
      BY <1>1, SeqFacts DEF Entries
    <3> QED
      BY <3>1
  <2>2. below = SubSeq(values, 1, Len(values) - 1)
    BY DEF Lower
  <2> HIDE DEF below
  <2>3. /\ Entries(below)
        /\ \A a : Count(Addrs(values), a) = Count(Addrs(below), a) + One(Address(values[Len(values)]), a)
    BY <1>1, <2>1, <2>2, PopEntry
  <2> QED
    BY <2>3
<1>5. /\ more \in Seq(Int) /\ Len(more) = Len(locals) + 1 /\ DOMAIN more = 1..(Len(locals) + 1)
      /\ DOMAIN locals = 1..Len(locals) /\ (\A i \in DOMAIN locals : more[i] = locals[i])
      /\ more[Len(locals) + 1] = c
  BY <1>1, <1>3, PushOne
<1>6. \A a : Count(more, a) = Count(locals, a) + One(c, a)
  BY <1>1, <1>3, PushOne
<1>7. IsSeq(over) /\ Len(over) = Len(calls) + 1
  BY <1>1, SeqAppend
<1>8. Len(calls) \in Nat
  BY <1>1, SeqFacts
<1> HIDE DEF below, more, over
<1>9. Len(more) = Len(over) + 1 /\ more[1] = None
  <2>1. 1 \in DOMAIN locals
    BY <1>1, <1>5, <1>8
  <2>2. more[1] = None
    BY <1>1, <1>5, <2>1
  <2> QED
    BY <1>1, <1>5, <1>7, <2>2
<1>10. StacksFit(below, locals, slices, calls, global) /\ Spent(values, below, locals, slices, global, x)
  BY <1>1, <1>4, SpendOne
<1>11. StacksFit(below, more, slices, over, global) /\ Turned(hands, between, locals, more)
  BY <1>5, <1>7, <1>9, <1>10, LocalsHands
<1>12. \A a \in Int : refs[a] = between[a] + One(x, a) /\ between[a] \in Nat
  BY <1>10 DEF Spent
<1>13. Account(more, Kinds(s)) = Scoped(Account(locals, Kinds(s)), c, 1)
  BY <1>1, <1>3, AccountPush DEF more
<1> HIDE DEF refs, between, hands
<1>14. \A a \in Int : held[a] = refs[a] + One(c, a) /\ held[a] \in Int
  BY <1>2, MoreOne
<1>15. held \in [Int -> Int]
  BY <1>2, MoreFewerOne
<1> HIDE DEF held
<1>16. \A a \in Int : owned[a] = held[a] - One(x, a)
  BY <1>15, FewerOne
<1>17. Sound(t, owned, Account(more, Kinds(s)))
  BY <1>13 DEF owned, held, refs
<1> HIDE DEF owned
<1>18. \A a \in Int : a # None => hands[a] <= owned[a]
  <2> TAKE a \in Int
  <2> DEFINE o == One(c, a)
             q == One(x, a)
             b == between[a]
             l == Count(locals, a)
             f == Count(more, a)
             h == hands[a]
             w == owned[a]
             r == refs[a]
             k == held[a]
  <2>1. /\ o \in Nat /\ q \in Nat /\ b \in Nat /\ l \in Nat /\ f \in Nat
        /\ h = b - l + f /\ r = b + q /\ k = r + o /\ w = k - q /\ f = l + o
    BY <1>6, <1>11, <1>12, <1>14, <1>16, OneNat DEF Turned
  <2> HIDE DEF o, q, b, l, f, h, w, r, k
  <2>2. h <= w
    BY ONLY <2>1
  <2> QED
    BY <2>2 DEF h, w
<1>19. Account(more, Kinds(s)).kind = Kinds(s)
  BY AccountIs
<1>20. Fits(t, locals, slices, global)
  BY <1>17, <1>19, FitsKept
<1>21. Live(t, c) => t.unit[c].type = "closure"
  BY <1>17, <1>19, TypeIs DEF Kinds, Live
<1>22. Fits(t, more, slices, global)
  <2>1. \A i \in DOMAIN more : Live(t, more[i]) => t.unit[more[i]].type = "closure"
    <3> TAKE i \in DOMAIN more
    <3>1. CASE i \in DOMAIN locals
      BY <3>1, <1>5, <1>20 DEF Fits
    <3>2. CASE i = Len(locals) + 1
      BY <3>2, <1>5, <1>21
    <3>3. Len(locals) \in Nat
      BY <1>1
    <3> QED
      BY <1>5, <3>1, <3>2, <3>3
  <2> QED
    BY <1>20, <2>1 DEF Fits
<1>23. Stacked(t, below, more, slices, over, global)
  BY <1>11, <1>17, <1>18, <1>22, StackStep DEF hands
<1> QED
  BY <1>23 DEF below, more, over

(* The arguments of a call are values that the arguments' container or the  *)
(* function holds.                                                          *)
LEMMA ArgumentHeld ==
  ASSUME NEW s, NEW refs, NEW account, Sound(s, refs, account),
         NEW x \in DOMAIN s.unit, s.unit[x].type \in {"vector", "hash"}, refs[x] > 0,
         NEW d \in Cells(s.unit[x])
  PROVE  s.mem[d] \in Held(s) /\ Backed(s, refs, s.mem[d])
<1>1. d \in DOMAIN s.mem
  BY DEF Sound, Owned
<1>2. s.mem[d] \in Held(s)
  BY <1>1, HeldByCell
<1>3. HoldsValue(s, x, s.mem[d])
  BY DEF HoldsValue
<1> QED
  BY <1>2, <1>3 DEF Backed

LEMMA DefaultHeld ==
  ASSUME NEW s, NEW refs, NEW account, Sound(s, refs, account),
         NEW f \in DOMAIN s.unit, s.unit[f].type = "function", refs[f] > 0,
         NEW i \in DOMAIN s.unit[f].val.default
  PROVE  s.unit[f].val.default[i] \in Held(s) /\ Backed(s, refs, s.unit[f].val.default[i])
<1> DEFINE val == s.unit[f].val
           dir == <<val.closure>> \o val.default
<1>1. WellFunction(val) /\ Direct(s.unit[f]) = dir /\ val.default[i] \in Held(s)
  BY OfFunction DEF FunctionFacts
<1>2. val.default \in Seq(Int) /\ Len(val.default) \in Nat /\ DOMAIN val.default = 1..Len(val.default)
  BY <1>1 DEF WellFunction
<1> HIDE DEF val
<1>3. Len(dir) = 1 + Len(val.default) /\ IsSeq(dir) /\ \A k \in 1..Len(val.default) : dir[k + 1] = val.default[k]
  BY <1>1, DirectOf
<1>4. i \in 1..Len(val.default)
  BY <1>2 DEF val
<1> HIDE DEF dir
<1>5. DOMAIN dir = 1..Len(dir)
  BY <1>3, SeqFacts
<1>6. i + 1 \in DOMAIN dir /\ dir[i + 1] = val.default[i]
  BY <1>2, <1>3, <1>4, <1>5
<1>7. HoldsValue(s, f, val.default[i])
  BY <1>1, <1>6 DEF HoldsValue
<1>8. Backed(s, refs, val.default[i]) /\ val.default[i] \in Held(s)
  BY <1>1, <1>7 DEF Backed
<1> QED
  BY <1>8 DEF val

LEMMA ArgumentsHeld ==
  ASSUME Now, NEW f \in DOMAIN vm.unit, vm.unit[f].type = "function", Refs[f] > 0,
         NEW args \in DOMAIN vm.unit, vm.unit[args].type \in {"vector", "hash"}, Refs[args] > 0,
         Callable(f, args)
  PROVE  /\ IsSeq(Val(vm, f).para)
         /\ \A i \in DOMAIN Val(vm, f).para :
              Arguments(f, args)[i] \in Held(vm) /\ Backed(vm, Refs, Arguments(f, args)[i])
<1> DEFINE fn == vm.unit[f].val
<1>1. Sound(vm, Refs, Acct)
  BY NowFits
<1>2. Val(vm, f) = fn /\ Val(vm, args) = vm.unit[args].val
  BY DEF Val
<1>3. WellFunction(fn)
  BY <1>1, OfFunction DEF FunctionFacts
<1>4. IsSeq(fn.para) /\ DOMAIN fn.para = 1..Len(fn.para) /\ Len(fn.para) \in Nat
      /\ DOMAIN fn.default = 1..Len(fn.para)
  BY <1>3, SeqFacts DEF WellFunction
<1>5. Type(vm, args) = vm.unit[args].type
  BY DEF Type, Live
<1>6. ASSUME NEW i \in DOMAIN fn.para
      PROVE  Argument(f, args, i) \in Held(vm) /\ Backed(vm, Refs, Argument(f, args, i))
  <2>1. CASE ~Given(f, args, i)
    <3>1. Argument(f, args, i) = fn.default[i]
      BY <1>2, <2>1 DEF Argument
    <3>2. i \in DOMAIN fn.default
      BY <1>4, <1>6
    <3> QED
      BY <1>1, <3>1, <3>2, DefaultHeld
  <2>2. CASE Given(f, args, i) /\ vm.unit[args].type = "vector"
    <3>1. i <= Len(vm.unit[args].val)
      BY <1>2, <1>5, <2>2 DEF Given
    <3>2. /\ vm.unit[args].val \in Seq(Nat) /\ Cells(vm.unit[args]) = CellsOf(vm.unit[args].val)
      BY <1>1, <2>2, VectorFacts
    <3>3. i \in DOMAIN vm.unit[args].val
      <4>1. DOMAIN vm.unit[args].val = 1..Len(vm.unit[args].val) /\ Len(vm.unit[args].val) \in Nat
        BY <3>2
      <4> QED
        BY <1>4, <3>1, <4>1
    <3>4. vm.unit[args].val[i] \in Cells(vm.unit[args])
      BY <3>2, <3>3 DEF CellsOf
    <3>5. Argument(f, args, i) = vm.mem[vm.unit[args].val[i]]
      BY <1>2, <1>5, <2>2 DEF Argument
    <3> QED
      BY <1>1, <3>4, <3>5, ArgumentHeld
  <2>3. CASE Given(f, args, i) /\ vm.unit[args].type = "hash"
    <3> DEFINE key == fn.para[i]
    <3>1. SpecialPara(vm, args, key) # None /\ Argument(f, args, i) = SpecialPara(vm, args, key)
      BY <1>2, <1>5, <2>3 DEF Given, Argument
    <3>2. key \in DOMAIN vm.unit[args].val /\ SpecialPara(vm, args, key) = vm.mem[vm.unit[args].val[key]]
      BY <1>2, <3>1 DEF SpecialPara
    <3>3. Cells(vm.unit[args]) = CellsOf(vm.unit[args].val)
      BY <1>1, <2>3, HashFacts
    <3>4. vm.unit[args].val[key] \in Cells(vm.unit[args])
      BY <3>2, <3>3 DEF CellsOf
    <3> QED
      BY <1>1, <3>1, <3>2, <3>4, ArgumentHeld
  <2> QED
    BY <2>1, <2>2, <2>3
<1>7. \A i \in DOMAIN fn.para : Arguments(f, args)[i] = Argument(f, args, i)
  BY <1>2 DEF Arguments
<1> QED
  BY <1>2, <1>4, <1>6, <1>7

(* What is left over from a sequence.                                       *)
LEMMA SeqSuffix ==
  ASSUME NEW S, NEW q, NEW m \in Int, NEW n \in Int, \A i \in m..n : q[i] \in S
  PROVE  SubSeq(q, m, n) \in Seq(S)
OBVIOUS

(* The values that a call with a vector leaves over are held by the vector, *)
(* as long as that is in use.                                               *)
LEMMA RestHeld ==
  ASSUME NEW s, NEW refs, NEW account, Sound(s, refs, account),
         NEW t, NEW owned, NEW after, Sound(t, owned, after),
         NEW c, SameBut(s, t, c),
         NEW v \in DOMAIN s.unit, v \in DOMAIN t.unit, v # c, s.unit[v].type = "vector",
         NEW m \in Nat, NEW rest, rest = SubSeq(ValuesIn(s, v), m + 1, Len(Val(s, v)))
  PROVE  IsSeq(rest) /\ \A i \in DOMAIN rest : rest[i] \in Held(t)
<1> DEFINE q == s.unit[v].val
           n == Len(q)
           vals == ValuesIn(s, v)
           S == Held(t)
<1>1. q \in Seq(Nat) /\ Cells(s.unit[v]) = CellsOf(q)
  BY VectorFacts
<1>2. n \in Nat /\ DOMAIN q = 1..n
  BY <1>1
<1>3. Val(s, v) = q
  BY DEF Val
<1>4. ASSUME NEW i \in (m + 1)..n PROVE vals[i] \in S
  <2>1. i \in DOMAIN q
    BY <1>2, <1>4
  <2>2. q[i] \in Cells(s.unit[v])
    BY <1>1, <2>1 DEF CellsOf
  <2>3. s.mem[q[i]] \in Held(t)
    BY <2>2, CellStays
  <2>4. vals[i] = s.mem[q[i]]
    BY <1>3, <2>1 DEF ValuesIn
  <2> QED
    BY <2>3, <2>4
<1>5. rest = SubSeq(vals, m + 1, n)
  BY <1>3
<1>6. m + 1 \in Int /\ n \in Int
  BY <1>2
<1> HIDE DEF q, n, vals, S
<1>7. \A i \in (m + 1)..n : vals[i] \in S
  BY <1>4
<1>8. SubSeq(vals, m + 1, n) \in Seq(S)
  BY ONLY <1>6, <1>7, SeqSuffix
<1>9. rest \in Seq(S)
  BY <1>5, <1>8
<1>10. IsSeq(rest)
  BY <1>9, SeqIntro
<1>11. \A i \in DOMAIN rest : rest[i] \in S
  BY <1>9
<1> QED
  BY <1>10, <1>11 DEF S

LEMMA ScopedKeeps ==
  ASSUME NEW account, IsAccount(account), NEW c, NEW n
  PROVE  /\ IsAccount(Scoped(account, c, n))
         /\ Scoped(account, c, n).kind = account.kind /\ Scoped(account, c, n).open = account.open
<1> DEFINE m == [a \in Int |-> IF a = c THEN account.scopes[a] + n ELSE account.scopes[a]]
           o == Scoped(account, c, n)
<1> HIDE DEF m
<1>1. o = [scopes |-> m, kind |-> account.kind, open |-> account.open]
  BY DEF IsAccount, Scoped, m
<1> HIDE DEF o
<1>2. o.scopes = m /\ o.kind = account.kind /\ o.open = account.open
  BY <1>1
<1> QED
  BY <1>1, <1>2 DEF IsAccount, o

(* The store after a call's parameters are bound.                           *)
LEMMA BindAllSound ==
  ASSUME Now, NEW f \in DOMAIN vm.unit, vm.unit[f].type = "function", Refs[f] > 0,
         NEW args \in DOMAIN vm.unit, vm.unit[args].type \in {"vector", "hash"}, Refs[args] > 0,
         Callable(f, args), NEW c, c = vm.unit[f].val.closure
  PROVE  /\ c \in DOMAIN vm.unit /\ vm.unit[c].type = "closure"
         /\ Sound(BindAll(f, args), More(Refs, <<c>>), Scoped(Acct, c, 1))
<1> DEFINE fn == vm.unit[f].val
           values == Arguments(f, args)
           opened == add_reference(add_scope(vm, c), c)
           bound == BindNames(opened, c, fn.para, values)
           rest == SubSeq(ValuesIn(vm, args), Len(fn.para) + 1, Len(Val(vm, args)))
           v == NextUnit(bound)
           named == add_new_value(VectorAddAll(gc_alloc(bound, "vector"), v, rest), c, fn.dynamic, v)
           owned == More(Refs, <<c>>)
           account == Scoped(Acct, c, 1)
           result == BindAll(f, args)
<1>1. /\ Sound(vm, Refs, Acct) /\ IsAccount(Acct) /\ Acct.open = {} /\ Acct.kind = Kinds(vm)
      /\ Refs \in [Int -> Nat]
  BY NowFits
<1>2. c \in DOMAIN vm.unit /\ vm.unit[c].type = "closure"
  BY <1>1, ClosureOf
<1>3. /\ IsSeq(fn.para)
      /\ \A i \in DOMAIN fn.para : values[i] \in Held(vm) /\ Backed(vm, Refs, values[i])
  <2>1. Val(vm, f) = fn
    BY DEF Val
  <2> QED
    BY <2>1, ArgumentsHeld
<1>4. result = IF fn.dynamic = "" THEN bound ELSE named
  BY DEF BindAll, Val
<1>5. Len(fn.para) \in Nat
  BY <1>3 DEF IsSeq
<1>6. Type(vm, args) = vm.unit[args].type /\ Val(vm, f) = fn
  BY DEF Type, Live, Val
<1>7. fn.dynamic # "" => vm.unit[args].type = "vector"
  BY <1>6 DEF Callable
<1> DEFINE names == fn.para
           dyn == fn.dynamic
<1> HIDE DEF values, fn, named, result
<1>8. Sound(bound, owned, account) /\ SameBut(vm, bound, c)
  <2>1. IsSeq(names) /\ \A n \in DOMAIN names : values[n] \in Held(vm) /\ Backed(vm, Refs, values[n])
    BY <1>3
  <2>2. bound = BindNames(add_reference(add_scope(vm, c), c), c, names, values)
    OBVIOUS
  <2> HIDE DEF names, bound
  <2>3. Sound(bound, More(Refs, <<c>>), Scoped(Acct, c, 1)) /\ SameBut(vm, bound, c)
    BY <1>1, <1>2, <2>1, <2>2, OpenCallSound
  <2> QED
    BY <2>3
<1> HIDE DEF bound, owned, account
<1>9. CASE fn.dynamic = ""
  <2>1. Sound(result, owned, account)
    BY <1>4, <1>8, <1>9
  <2> QED
    BY <1>2, <2>1 DEF result, owned, account
<1>10. CASE fn.dynamic # ""
  <2>1. vm.unit[args].type = "vector" /\ args # c
    BY <1>2, <1>7, <1>10
  <2>2. c \in Int /\ args \in Int /\ args # None
    BY <1>1, <1>2, TypeIs, Addresses
  <2>3. owned \in [Int -> Nat]
    BY <1>1, MoreNat DEF owned
  <2>4. \A a \in Int : owned[a] = Refs[a] + One(c, a)
    BY <1>1, MoreOne DEF owned
  <2>5. owned[c] > 0 /\ owned[args] > 0
    <3>1. Refs[c] \in Nat /\ Refs[args] \in Nat /\ One(c, c) = 1 /\ One(c, args) \in Nat
      BY <1>1, <2>2, OneNat
    <3>2. owned[c] = Refs[c] + One(c, c) /\ owned[args] = Refs[args] + One(c, args)
      BY <2>2, <2>4
    <3> DEFINE rc == Refs[c]
               ra == Refs[args]
               oc == One(c, c)
               oa == One(c, args)
    <3>3. ra > 0 /\ rc \in Nat /\ ra \in Nat /\ oc = 1 /\ oa \in Nat
      BY <3>1
    <3> HIDE DEF rc, ra, oc, oa
    <3>4. rc + oc > 0 /\ ra + oa > 0
      BY ONLY <3>3
    <3> QED
      BY <3>2, <3>4 DEF rc, ra, oc, oa
  <2>6. args \in DOMAIN bound.unit /\ c \in DOMAIN bound.unit
    BY <1>8, <2>2, <2>5, <1>1, <1>2, TypeIs, Owner
  <2>7. IsSeq(rest) /\ \A i \in DOMAIN rest : rest[i] \in Held(bound)
    <3>1. rest = SubSeq(ValuesIn(vm, args), Len(fn.para) + 1, Len(Val(vm, args)))
      OBVIOUS
    <3> HIDE DEF rest
    <3> QED
      BY <1>1, <1>5, <1>8, <2>1, <2>6, <3>1, RestHeld
  <2>8. IsAccount(account) /\ account.kind = Kinds(vm)
    <3>1. IsAccount(Acct) /\ Acct.kind = Kinds(vm)
      BY <1>1
    <3>2. IsAccount(Scoped(Acct, c, 1)) /\ Scoped(Acct, c, 1).kind = Acct.kind
      BY ONLY <3>1, ScopedKeeps
    <3> QED
      BY ONLY <3>1, <3>2 DEF account
  <2>9. c \in DOMAIN account.kind /\ account.kind[c] = "closure"
    BY <1>2, <2>8 DEF Kinds
  <2> HIDE DEF rest
  <2>10. v = NextUnit(bound) /\ named = add_new_value(VectorAddAll(gc_alloc(bound, "vector"), v, rest), c, dyn, v)
    BY DEF named
  <2> HIDE DEF v, dyn
  <2>11. Sound(named, owned, account)
    BY <1>8, <2>3, <2>5, <2>6, <2>7, <2>8, <2>9, <2>10, RestNamedSound
  <2>12. Sound(result, owned, account)
    BY <1>4, <1>10, <2>11
  <2> QED
    BY <1>2, <2>12 DEF result, owned, account
<1> QED
  BY <1>9, <1>10

LEMMA CallfKeeps == Now /\ opr_callf => Now'
<1> SUFFICES ASSUME Now, opr_callf
             PROVE  Now'
  OBVIOUS
<1>1. CASE Die
  BY <1>1, DieStays
<1> DEFINE f == Second
           args == Top
           c == Val(vm, Second).closure
<1>2. CASE /\ Callable(Second, Top)
           /\ vm' = del_reference(BindAll(Second, Top), Top)
           /\ value_stack' = Below(1)
           /\ local_scope_stack' = Append(local_scope_stack, Val(vm, Second).closure)
           /\ call_stack' = Append(call_stack, ptr)
           /\ UNCHANGED <<slice_stack, counter_stack>>
           /\ GoTo(Val(vm, Second).entry)
  <2>1. TwoOn("arguments", "value")
    <3>1. Op("callf") /\ Needs("callf") = <<"arguments", "value">>
      BY NeedsAre DEF opr_callf
    <3> QED
      BY <3>1, TwoNeeded
  <2>2. /\ Top \in Int /\ Refs[Top] > 0 /\ Type(vm, Top) \in {"vector", "hash"}
        /\ Top = Address(value_stack[Len(value_stack)]) /\ Len(value_stack) >= 1
    BY <2>1, TopFine DEF TwoOn, OneOn
  <2>3. Second \in Int /\ Refs[Second] > 0
    BY <2>1, SecondFine
  <2>4. args \in DOMAIN vm.unit /\ vm.unit[args].type \in {"vector", "hash"}
    BY <2>2, TypeLive
  <2>5. f \in DOMAIN vm.unit /\ vm.unit[f].type = "function"
    <3>1. Type(vm, f) = "function"
      BY <1>2 DEF Callable
    <3> QED
      BY <3>1, TypeLive
  <2>6. c = vm.unit[f].val.closure
    BY DEF Val
  <2> DEFINE m == BindAll(f, args)
             owned == More(Refs, <<c>>)
             account == Scoped(Acct, c, 1)
  <2>7. c \in DOMAIN vm.unit /\ vm.unit[c].type = "closure" /\ Sound(m, owned, account)
    <3>1. Callable(f, args)
      BY <1>2
    <3> HIDE DEF f, args, c
    <3> QED
      BY <2>2, <2>3, <2>4, <2>5, <2>6, <3>1, BindAllSound DEF f, args
  <2>8. Sound(vm, Refs, Acct) /\ Refs \in [Int -> Nat]
    BY NowFits
  <2>9. owned \in [Int -> Nat]
    BY <2>8, MoreNat
  <2>10. owned[Top] > 0
    <3>1. owned[Top] = Refs[Top] + One(c, Top)
      <4>1. Refs \in [Int -> Int]
        BY NowFits
      <4>2. \A a \in Int : More(Refs, <<c>>)[a] = Refs[a] + One(c, a) /\ More(Refs, <<c>>)[a] \in Int
        BY <4>1, MoreOne
      <4>3. More(Refs, <<c>>)[Top] = Refs[Top] + One(c, Top)
        <5> HIDE DEF c
        <5> QED
          BY ONLY <4>2, <2>2
      <4> QED
        BY <4>3 DEF owned
    <3>2. Refs[Top] \in Nat /\ One(c, Top) \in Nat
      BY <2>2, <2>8, OneNat
    <3> DEFINE r == Refs[Top]
               o == One(c, Top)
    <3>3. r > 0 /\ r \in Nat /\ o \in Nat
      BY <2>2, <3>2
    <3> HIDE DEF r, o
    <3>4. r + o > 0
      BY ONLY <3>3
    <3> QED
      BY <3>1, <3>4 DEF r, o
  <2>11. vm' = del_reference(m, Top)
    BY <1>2
  <2> HIDE DEF m, owned, account
  <2>12. Sound(vm', Fewer(owned, <<Top>>), account)
    <3>1. DOMAIN m.unit \subseteq Int
      BY <2>7, Addresses
    <3>2. \A b \in DOMAIN m.unit : owned[b] >= 0
      BY <2>9, <3>1
    <3> QED
      BY <2>7, <2>10, <2>11, <3>2, DelSound
  <2>13. Sound(vm', Fewer(More(Refs, <<c>>), <<Top>>), Scoped(Acct, c, 1))
    BY <2>12 DEF owned, account
  <2> HIDE DEF c
  <2>14. Stacked(vm', Lower(value_stack, 1), Append(local_scope_stack, c), slice_stack,
                 Append(call_stack, ptr), global_scope_addr)
    BY <2>2, <2>7, <2>13, CallStays DEF Now, Refs, Acct
  <2>15. /\ value_stack' = Lower(value_stack, 1)
         /\ local_scope_stack' = Append(local_scope_stack, c)
         /\ call_stack' = Append(call_stack, ptr)
         /\ slice_stack' = slice_stack /\ global_scope_addr' = global_scope_addr
    BY <1>2, <2>1 DEF GoTo, Other, OneOn, TwoOn, c
  <2> QED
    BY <2>14, <2>15 DEF Now
<1> QED
  BY <1>1, <1>2 DEF opr_callf

-----------------------------------------------------------------------------

Nothing(refs) == refs \in [Int -> Int] /\ \A a \in Int : refs[a] > 0 => a = None

LEMMA EmptyFits ==
  ASSUME NEW e, e = <<>>, NEW l, l = <<None>>, NEW global \in Int
  PROVE  /\ StacksFit(e, l, e, e, global)
         /\ \A a \in Int : /\ Count(Addrs(e), a) = 0 /\ Count(e, a) = 0
                           /\ Count(l, a) = One(None, a) /\ One(None, a) \in Nat
<1>1. /\ e \in Seq(Int) /\ IsSeq(e) /\ Len(e) = 0 /\ DOMAIN e = {}
  BY EmptyIs
<1>2. Entries(e)
  BY <1>1 DEF Entries
<1>3. Addrs(e) = e
  <2>1. IsSeq(Addrs(e)) /\ Len(Addrs(e)) = 0
    BY <1>1, AddrsSeq
  <2>2. DOMAIN Addrs(e) = {}
    BY <1>1 DEF Addrs
  <2> DEFINE n == 0
             d == Addrs(e)
  <2>3. \A i \in 1..n : d[i] = e[i]
    BY <2>2
  <2>4. n = 0 /\ IsSeq(d) /\ Len(d) = n /\ Len(e) = n
    BY <1>1, <2>1
  <2> HIDE DEF n, d
  <2>5. d = e
    BY ONLY <1>1, <2>3, <2>4, SameSeq
  <2> QED
    BY <2>5 DEF d
<1>4. \A a : Count(e, a) = 0
  BY CountEmpty
<1>5. None \in Int
  BY DEF None
<1>6. l \in Seq(Int) /\ Len(l) = 1 /\ l[1] = None
  BY <1>5
<1>7. \A a : Count(l, a) = One(None, a)
  BY CountOne
<1>8. StacksFit(e, l, e, e, global)
  BY <1>1, <1>2, <1>6 DEF StacksFit
<1> QED
  BY <1>3, <1>4, <1>7, <1>8, OneNat

LEMMA EmptyHands ==
  ASSUME NEW e, e = <<>>, NEW l, l = <<None>>, NEW global \in Int
  PROVE  \A a \in Int : /\ Hands(e, l, e, global)[a] = One(None, a) + One(global, a)
                        /\ One(None, a) \in Nat /\ One(global, a) \in Nat
<1> DEFINE h == Hands(e, l, e, global)
<1>1. /\ StacksFit(e, l, e, e, global)
      /\ \A a \in Int : /\ Count(Addrs(e), a) = 0 /\ Count(e, a) = 0
                        /\ Count(l, a) = One(None, a) /\ One(None, a) \in Nat
  BY EmptyFits
<1>2. \A a \in Int : HandsAre(e, l, e, global, a)
  BY <1>1, HandsAt
<1> QED
  <2> TAKE a \in Int
  <2>1. HandsAre(e, l, e, global, a)
    BY <1>2
  <2>2. Count(Addrs(e), a) = 0 /\ Count(e, a) = 0 /\ Count(l, a) = One(None, a) /\ One(None, a) \in Nat
    BY <1>1
  <2>3. One(global, a) \in Nat
    BY OneNat
  <2> QED
    BY <2>1, <2>2, <2>3 DEF HandsAre

LEMMA EmptySound ==
  ASSUME NEW refs, Nothing(refs), NEW account, account.scopes \in [Int -> Nat],
         DOMAIN account.kind = {}, \A a \in Int : a # None => account.scopes[a] = 0
  PROVE  Sound(EmptyStore, refs, account)
<1> DEFINE s == EmptyStore
           e == <<>>
<1>1. DOMAIN e = {} /\ e = [b \in DOMAIN e |-> e[b]]
  BY EmptyIs
<1>2. s = [unit |-> e, mem |-> e, units |-> 0, cells |-> 0]
  BY DEF EmptyStore
<1> HIDE DEF s, e
<1>3. s.unit = e /\ s.mem = e /\ s.units = 0 /\ s.cells = 0
  BY <1>2
<1>4. s = [unit |-> s.unit, mem |-> s.mem, units |-> s.units, cells |-> s.cells]
  BY <1>2, <1>3
<1>5. Shape(s)
  BY <1>1, <1>3, <1>4 DEF Shape
<1>6. Owned(s) /\ Counted(s, refs)
  BY <1>1, <1>3 DEF Owned, Counted
<1>7. Valid(s, refs)
  BY <1>1, <1>3 DEF Valid, Nothing
<1>8. Typed(s, account)
  BY <1>1, <1>3 DEF Typed, None
<1>9. Sound(s, refs, account)
  BY <1>5, <1>6, <1>7, <1>8 DEF Sound, Nothing
<1> QED
  BY <1>9 DEF s

(* The account of the caller when no scope is open.                         *)
Scopeless(account, kind) ==
  /\ account.scopes \in [Int -> Nat] /\ account.kind = kind
  /\ \A a \in Int : a # None => account.scopes[a] = 0

LEMMA NoScopes ==
  ASSUME NEW l, l = <<None>>, NEW kind
  PROVE  Scopeless(Account(l, kind), kind)
<1> DEFINE c == Account(l, kind)
<1>1. c.kind = kind /\ c.scopes = [a \in Int |-> Count(l, a)]
  BY DEF Account
<1>2. \A a : Count(l, a) = One(None, a) /\ One(None, a) \in Nat /\ (a # None => One(None, a) = 0)
  BY CountOne, OneNat
<1> HIDE DEF c
<1>3. \A a \in Int : Count(l, a) \in Nat /\ (a # None => Count(l, a) = 0)
  BY <1>2
<1>4. c.scopes \in [Int -> Nat] /\ \A a \in Int : a # None => c.scopes[a] = 0
  BY <1>1, <1>3
<1> QED
  BY <1>1, <1>4 DEF c, Scopeless

(* Nothing is there, and nothing refers to anything.                        *)
LEMMA EmptyStacked ==
  ASSUME NEW e, e = <<>>, NEW l, l = <<None>>
  PROVE  Stacked(EmptyStore, e, l, e, e, None)
<1> DEFINE h == Hands(e, l, e, None)
           c == Account(l, Kinds(EmptyStore))
<1>1. None \in Int
  BY DEF None
<1>2. StacksFit(e, l, e, e, None)
  BY <1>1, EmptyFits
<1>3. h \in [Int -> Nat]
  BY <1>2, HandsNat
<1>4. \A a \in Int : h[a] = One(None, a) + One(None, a)
  BY <1>1, EmptyHands
<1>5. \A a \in Int : a # None => One(None, a) = 0
  BY OneNat
<1> HIDE DEF h
<1>6. Nothing(h)
  <2>1. \A a \in Int : h[a] > 0 => a = None
    BY <1>4, <1>5
  <2>2. h \in [Int -> Int]
    BY <1>3
  <2> QED
    BY <2>1, <2>2 DEF Nothing
<1>7. DOMAIN Kinds(EmptyStore) = {}
  <2>1. EmptyStore.unit = e /\ DOMAIN e = {}
    BY EmptyIs DEF EmptyStore
  <2> QED
    BY <2>1 DEF Kinds
<1>8. /\ c.scopes \in [Int -> Nat] /\ c.kind = Kinds(EmptyStore)
      /\ \A a \in Int : a # None => c.scopes[a] = 0
  <2>1. Scopeless(c, Kinds(EmptyStore))
    BY NoScopes
  <2> QED
    BY <2>1 DEF Scopeless
<1> HIDE DEF c
<1>9. Sound(EmptyStore, h, c)
  BY <1>6, <1>7, <1>8, EmptySound
<1>10. Referred(EmptyStore, l, e, None)
  <2>1. DOMAIN e = {} /\ DOMAIN l = {1} /\ l[1] = None
    BY EmptyIs
  <2> QED
    BY <2>1 DEF Referred
<1> QED
  BY <1>2, <1>9, <1>10 DEF Stacked, h, c

(* There is the global scope.                                               *)
LEMMA BegunStacked ==
  ASSUME NEW e, e = <<>>, NEW l, l = <<None>>
  PROVE  Stacked(gc_alloc(EmptyStore, "closure"), e, l, e, e, 1)
<1> DEFINE s == EmptyStore
           t == gc_alloc(s, "closure")
           h == Hands(e, l, e, None)
           more == More(h, <<1>>)
           g == Hands(e, l, e, 1)
           kind == Kinds(s)
           c == Account(l, kind)
<1>1. Stacked(s, e, l, e, e, None)
  BY EmptyStacked
<1>2. Sound(s, h, c) /\ IsAccount(c) /\ h \in [Int -> Nat]
  BY <1>1, Start
<1>3. NextUnit(s) = 1
  BY DEF NextUnit, EmptyStore
<1>4. t = gc_alloc_with(s, "closure", <<<<>>>>)
  BY NewOf DEF gc_alloc
<1>5. Sound(t, more, c) /\ Allocated(s, t, "closure")
  <2> DEFINE val == <<<<>>>>
             type == "closure"
  <2>1. type = "closure" /\ val = <<<<>>>> /\ type # "function" /\ t = gc_alloc_with(s, type, val)
    BY <1>4
  <2> HIDE DEF val, type, t, s, h, c
  <2>2. Sound(t, More(h, <<NextUnit(s)>>), c) /\ Allocated(s, t, type)
    BY <1>2, <2>1, NewSound
  <2> QED
    BY <1>3, <2>1, <2>2
<1>6. 1 \in Int /\ None \in Int
  BY DEF None
<1>7. StacksFit(e, l, e, e, 1)
  BY <1>6, EmptyFits
<1>8. \A a \in Int : a # None => g[a] <= more[a]
  <2> DEFINE k == 1
  <2>1. \A a \in Int : /\ g[a] = One(None, a) + One(k, a) /\ One(None, a) \in Nat /\ One(k, a) \in Nat
    <3> DEFINE w == Hands(e, l, e, k)
    <3>1. k \in Int /\ w = g
      OBVIOUS
    <3> HIDE DEF k, g, w
    <3>2. \A a \in Int : /\ w[a] = One(None, a) + One(k, a) /\ One(None, a) \in Nat /\ One(k, a) \in Nat
      BY <3>1, EmptyHands DEF w
    <3> QED
      BY <3>1, <3>2
  <2>2. \A a \in Int : h[a] = One(None, a) + One(None, a)
    BY <1>6, EmptyHands
  <2>3. h \in [Int -> Int]
    BY <1>2
  <2> HIDE DEF g, h
  <2>4. \A a \in Int : more[a] = h[a] + One(k, a)
    BY <2>3, MoreOne
  <2> HIDE DEF more, k
  <2>5. \A a \in Int : a # None => One(None, a) = 0
    BY OneNat
  <2> SUFFICES ASSUME NEW a \in Int, a # None PROVE g[a] <= more[a]
    OBVIOUS
  <2>6. /\ g[a] = One(None, a) + One(k, a) /\ One(None, a) = 0 /\ One(k, a) \in Nat
        /\ h[a] = One(None, a) + One(None, a) /\ more[a] = h[a] + One(k, a)
    BY <2>1, <2>2, <2>4, <2>5
  <2> DEFINE x == One(k, a)
             n == One(None, a)
  <2>7. g[a] = n + x /\ n = 0 /\ x \in Nat /\ h[a] = n + n /\ more[a] = h[a] + x
    BY <2>6
  <2> HIDE DEF x, n
  <2> QED
    BY ONLY <2>7
<1>9. t.unit[1].type = "closure"
  BY <1>3, <1>5 DEF Allocated
<1>10. Fits(t, l, e, 1)
  <2>1. DOMAIN e = {} /\ DOMAIN l = {1} /\ l[1] = None
    BY EmptyIs
  <2>2. ~Live(t, None)
    <3>1. None \notin DOMAIN t.unit
      BY <1>5, Addresses
    <3> QED
      BY <3>1 DEF Live
  <2> HIDE DEF t
  <2> QED
    BY <1>9, <2>1, <2>2 DEF Fits
<1> HIDE DEF s, t, h, more, g, kind
<1>11. Sound(t, more, Account(l, kind))
  BY <1>5
<1>12. Stacked(t, e, l, e, e, 1)
  BY <1>7, <1>8, <1>10, <1>11, StackStep DEF g
<1> QED
  BY <1>12 DEF t, s

-----------------------------------------------------------------------------
(* One step of a run.                                                       *)
Ongoing == Running /\ exec_code' = exec_code /\ global_scope_addr' = global_scope_addr

LEMMA ExecuteRuns == Execute => Ongoing
<1> USE DEF Ongoing, Op, Continue, GoTo, Other, Die
<1>1. opr_nop \/ opr_load \/ opr_newfunc \/ opr_vecapp \/ opr_hashapp => Ongoing
  BY DEF opr_nop, opr_load, opr_newfunc, opr_vecapp, opr_hashapp
<1>2. opr_push => Ongoing
  BY DEF opr_push, Result
<1>3. opr_para \/ opr_defpara \/ opr_dynpara \/ opr_entry => Ongoing
  BY DEF opr_para, opr_defpara, opr_dynpara, opr_entry
<1>4. opr_unot \/ opr_usub => Ongoing
  BY DEF opr_unot, opr_usub, Result
<1>5. opr_arithmetic \/ opr_lnk => Ongoing
  BY DEF opr_arithmetic, opr_lnk, Result
<1>6. opr_arithmeticeq \/ opr_lnkeq \/ opr_meq => Ongoing
  BY DEF opr_arithmeticeq, opr_lnkeq, opr_meq, Assigned
<1>7. opr_eq \/ opr_neq \/ opr_compare => Ongoing
  BY DEF opr_eq, opr_neq, opr_compare, Result
<1>8. opr_pop \/ opr_jmp \/ opr_jmptrue \/ opr_jmpfalse => Ongoing
  BY DEF opr_pop, opr_jmp, opr_jmptrue, opr_jmpfalse, StayOrJump
<1>9. opr_counter \/ opr_forindex \/ opr_foreach => Ongoing
  BY DEF opr_counter, opr_forindex, opr_foreach, LoopEnd, LoopBody
<1>10. opr_call \/ opr_callvi \/ opr_callh => Ongoing
  BY DEF opr_call, opr_callvi, opr_callh
<1>11. opr_callv => Ongoing
  BY DEF opr_callv, CallVector, CallString, CallHash, CallNothing, Result
<1>12. opr_callf \/ opr_builtincall \/ opr_return => Ongoing
  BY DEF opr_callf, opr_builtincall, opr_return
<1>13. opr_slicebegin \/ opr_sliceend \/ opr_slice \/ opr_slice2 => Ongoing
  BY DEF opr_slicebegin, opr_sliceend, opr_slice, opr_slice2
<1>14. opr_mcall \/ opr_mcallv \/ opr_mcallh => Ongoing
  BY DEF opr_mcall, opr_mcallv, opr_mcallh
<1> HIDE DEF Ongoing, Op, Continue, GoTo, Other, Die
<1> QED
  BY <1>1, <1>2, <1>3, <1>4, <1>5, <1>6, <1>7, <1>8, <1>9, <1>10, <1>11, <1>12, <1>13, <1>14
  DEF Execute

LEMMA ExecuteKeeps ==
  ASSUME Now, global_scope_addr # None, Execute, Current = "builtincall" => BuiltinFits
  PROVE  Now'
<1>1. CASE opr_builtincall
  <2>1. Current = "builtincall"
    BY <1>1 DEF opr_builtincall, Op
  <2> QED
    BY <1>1, <2>1, BuiltincallKeeps
<1>2. CASE opr_load \/ opr_push \/ opr_newfunc \/ opr_vecapp \/ opr_hashapp
  BY <1>2, LoadKeeps, PushKeeps, NewfuncKeeps, VecappKeeps, HashappKeeps
<1>3. CASE opr_para \/ opr_defpara \/ opr_dynpara \/ opr_entry
  BY <1>3, ParaKeeps, DefparaKeeps, FieldKeeps
<1>4. CASE opr_unot \/ opr_usub
  BY <1>4, UnotKeeps, UsubKeeps
<1>5. CASE opr_arithmetic \/ opr_lnk \/ opr_eq \/ opr_neq \/ opr_compare
  BY <1>5, BinaryKeeps
<1>6. CASE opr_arithmeticeq \/ opr_lnkeq \/ opr_meq
  BY <1>6, AssignKeeps, MeqKeeps
<1>7. CASE opr_nop \/ opr_pop \/ opr_jmp \/ opr_jmptrue \/ opr_jmpfalse
  BY <1>7, PopKeeps, JumpKeeps
<1>8. CASE opr_counter \/ opr_forindex \/ opr_foreach
  BY <1>8, CounterKeeps, LoopKeeps
<1>9. CASE opr_call \/ opr_callv \/ opr_callvi \/ opr_callh
  BY <1>9, CallKeeps, CallvKeeps, CallviKeeps, CallhKeeps
<1>10. CASE opr_callf \/ opr_return
  BY <1>10, CallfKeeps, ReturnKeeps
<1>11. CASE opr_slicebegin \/ opr_sliceend \/ opr_slice \/ opr_slice2
  BY <1>11, SlicebeginKeeps, SliceendKeeps, SliceKeeps, Slice2Keeps
<1>12. CASE opr_mcall \/ opr_mcallv \/ opr_mcallh
  BY <1>12, McallKeeps, McallvKeeps, McallhKeeps
<1> QED
  BY <1>1, <1>2, <1>3, <1>4, <1>5, <1>6, <1>7, <1>8, <1>9, <1>10, <1>11, <1>12 DEF Execute

LEMMA InitHolds == Init => IInv
<1> SUFFICES ASSUME Init PROVE IInv
  OBVIOUS
<1> DEFINE e == <<>>
           l == <<None>>
<1>1. /\ vm = EmptyStore /\ value_stack = e /\ local_scope_stack = l /\ slice_stack = e
      /\ call_stack = e /\ global_scope_addr = None /\ ptr = 0 /\ exec_code = e
  BY DEF Init
<1>2. Rest0 /\ Idle
  BY <1>1 DEF Rest0, Idle
<1>3. Stacked(EmptyStore, e, l, e, e, None)
  BY EmptyStacked
<1> HIDE DEF e, l
<1>4. Now
  BY <1>1, <1>3 DEF Now
<1> QED
  BY <1>2, <1>4 DEF IInv

LEMMA StepKeeps == IInv /\ Step => IInv'
<1> SUFFICES ASSUME IInv, Step
             PROVE  IInv'
  OBVIOUS
<1>1. CASE Execute /\ (Current = "builtincall" => BuiltinFits)
  <2>1. Ongoing
    BY <1>1, ExecuteRuns
  <2>2. ~Idle
    <3> SUFFICES ASSUME Idle PROVE FALSE
      OBVIOUS
    <3>1. ptr = 0
      BY DEF IInv, Rest0
    <3>2. Len(exec_code) = 0
      BY DEF Idle
    <3> QED
      BY <2>1, <3>1, <3>2 DEF Ongoing, Running
  <2>3. global_scope_addr # None /\ Now
    BY <2>2 DEF IInv
  <2>4. Now'
    BY <1>1, <2>3, ExecuteKeeps
  <2>5. ~Idle' /\ global_scope_addr' # None
    BY <2>1, <2>2, <2>3 DEF Ongoing, Idle
  <2> QED
    BY <2>4, <2>5 DEF IInv
<1>2. CASE Clear
  <2> DEFINE e == <<>>
             l == <<None>>
  <2>1. /\ vm' = EmptyStore /\ value_stack' = e /\ local_scope_stack' = l /\ slice_stack' = e
        /\ call_stack' = e /\ global_scope_addr' = None /\ ptr' = 0 /\ exec_code' = e
    BY <1>2 DEF Clear
  <2>2. Rest0' /\ Idle'
    BY <2>1 DEF Rest0, Idle
  <2>3. Stacked(EmptyStore, e, l, e, e, None)
    BY EmptyStacked
  <2> HIDE DEF e, l
  <2>4. Now'
    BY <2>1, <2>3 DEF Now
  <2> QED
    BY <2>2, <2>4 DEF IInv
<1>3. ASSUME NEW program \in AnyProgram, Run(program)
      PROVE  IInv'
  <2> DEFINE e == <<>>
             l == <<None>>
  <2>1. /\ value_stack = e /\ local_scope_stack = l /\ slice_stack = e /\ call_stack = e
    BY <1>3 DEF Run, IInv, Rest0
  <2>2. /\ vm' = gc_alloc(EmptyStore, "closure") /\ global_scope_addr' = 1 /\ ptr' = 0
        /\ value_stack' = value_stack /\ local_scope_stack' = local_scope_stack
        /\ slice_stack' = slice_stack /\ call_stack' = call_stack
    BY <1>3 DEF Run, stacks
  <2>3. Rest0'
    BY <2>1, <2>2 DEF Rest0
  <2>4. Stacked(gc_alloc(EmptyStore, "closure"), e, l, e, e, 1)
    BY EmptyStacked, BegunStacked
  <2> HIDE DEF e, l
  <2>5. Now'
    BY <2>1, <2>2, <2>4 DEF Now
  <2>6. global_scope_addr' # None
    BY <2>2 DEF None
  <2> QED
    BY <2>3, <2>5, <2>6 DEF IInv
<1> QED
  BY <1>1, <1>2, <1>3 DEF Step

LEMMA StutterKeeps == IInv /\ UNCHANGED exec => IInv'
BY DEF IInv, exec, stacks, Now, Idle, Rest0

(* Whatever code it runs, the machine keeps the inductive invariant.        *)
THEOREM MachineInvariant == Machine => []IInv
<1>1. IInv /\ [Step]_exec => IInv'
  BY StepKeeps, StutterKeeps
<1> QED
  BY InitHolds, <1>1, PTL DEF Machine

-----------------------------------------------------------------------------
(* What the invariant means.                                                *)

LEMMA CountConcat ==
  ASSUME NEW p \in Seq(Int), NEW q \in Seq(Int), NEW a
  PROVE  Count(p \o q, a) = Count(p, a) + Count(q, a) /\ Count(p, a) \in Nat /\ Count(q, a) \in Nat
<1> DEFINE d == p \o q
           n == Len(p)
           S == {i \in DOMAIN q : q[i] = a}
           T == {i \in DOMAIN d : d[i] = a}
           P == {i \in DOMAIN p : p[i] = a}
           g == [i \in S |-> i + n]
           R == {i \in (n + 1)..(n + Len(q)) : d[i] = a}
<1>1. /\ Len(q) \in Nat /\ n \in Nat /\ DOMAIN q = 1..Len(q) /\ DOMAIN p = 1..n /\ DOMAIN d = 1..(n + Len(q))
      /\ \A i \in 1..n : d[i] = p[i]
      /\ \A i \in 1..Len(q) : d[i + n] = q[i]
  OBVIOUS
<1> HIDE DEF d, n
<1>2. IsSeq(q) /\ IsSeq(p)
  BY SeqIntro
<1>3. /\ IsFiniteSet(S) /\ Cardinality(S) = Count(q, a) /\ Count(q, a) \in Nat
      /\ IsFiniteSet(P) /\ Cardinality(P) = Count(p, a) /\ Count(p, a) \in Nat
  BY <1>2, CountNat DEF Count
<1>4. g \in Surjection(S, R) /\ g \in Injection(S, R)
  <2>1. \A i \in S : i + n \in R /\ i \in Int
    BY <1>1
  <2>2. \A j \in R : j - n \in S /\ j = (j - n) + n
    <3> TAKE j \in R
    <3>1. j - n \in 1..Len(q) /\ j = (j - n) + n
      BY <1>1
    <3> QED
      BY <1>1, <3>1
  <2>3. \A i, j \in S : i + n = j + n => i = j
    BY <1>1, <2>1
  <2> HIDE DEF S, R
  <2>4. g \in [S -> R] /\ \A i \in S : g[i] = i + n
    BY <2>1
  <2> HIDE DEF g
  <2>5. g \in Surjection(S, R)
    BY <2>2, <2>4 DEF Surjection
  <2>6. g \in Injection(S, R)
    BY <2>3, <2>4 DEF Injection, IsInjective
  <2> QED
    BY <2>5, <2>6
<1>5. IsFiniteSet(R) /\ Cardinality(R) = Cardinality(S)
  <2> HIDE DEF g, S, R
  <2> QED
    BY <1>3, <1>4, FS_Surjection
<1>6. T = P \cup R /\ P \cap R = {}
  <2>1. DOMAIN d = (1..n) \cup ((n + 1)..(n + Len(q))) /\ (1..n) \cap ((n + 1)..(n + Len(q))) = {}
    BY <1>1
  <2> QED
    BY <1>1, <2>1
<1>7. Cardinality(P \cup R) = Cardinality(P) + Cardinality(R) - Cardinality(P \cap R)
  <2> HIDE DEF P, R
  <2> QED
    BY <1>3, <1>5, FS_Union
<1>8. Cardinality(P \cap R) = 0
  <2> HIDE DEF P, R
  <2> QED
    BY <1>6, FS_EmptySet
<1>9. Cardinality(T) = Count(p, a) + Count(q, a)
  <2> HIDE DEF P, R, S, T
  <2> QED
    BY <1>3, <1>5, <1>6, <1>7, <1>8
<1>10. Count(d, a) = Cardinality(T)
  BY DEF Count
<1> HIDE DEF T
<1>11. Count(d, a) = Count(p, a) + Count(q, a)
  BY <1>9, <1>10
<1> QED
  BY <1>3, <1>11 DEF d

LEMMA ConcatInt ==
  ASSUME NEW p \in Seq(Int), NEW q \in Seq(Int)
  PROVE  p \o q \in Seq(Int)
OBVIOUS

(* What the machine holds is what is counted for it.                        *)
LEMMA RootsCounted ==
  ASSUME Now
  PROVE  /\ IsSeq(Roots) /\ Roots \in Seq(Int)
         /\ \A a \in Int : Count(Roots, a) = Refs[a] /\ Refs[a] \in Nat
<1> DEFINE v == Addrs(value_stack)
           l == local_scope_stack
           s == slice_stack
           g == global_scope_addr
<1>1. StacksFit(value_stack, l, s, call_stack, g)
  BY DEF Now, Stacked
<1>2. v \in Seq(Int)
  <2> DEFINE n == Len(value_stack)
  <2>1. /\ IsSeq(value_stack) /\ IsSeq(v) /\ Len(v) = n
        /\ \A i \in DOMAIN value_stack : Address(value_stack[i]) \in Int
    BY <1>1, AddrsSeq DEF StacksFit, Entries
  <2>2. n \in Nat /\ DOMAIN value_stack = 1..n
    BY <2>1 DEF IsSeq
  <2>3. v = [i \in 1..n |-> v[i]] /\ \A i \in 1..n : v[i] \in Int
    BY <2>1, <2>2 DEF Addrs
  <2> HIDE DEF n, v
  <2> QED
    BY <2>2, <2>3, SeqMade
<1>3. l \in Seq(Int) /\ s \in Seq(Int) /\ g \in Int /\ <<g>> \in Seq(Int)
  BY <1>1 DEF StacksFit
<1>4. Roots = v \o l \o s \o <<g>>
  BY DEF Roots, ValuesOnStack, Addrs, Address
<1>5. \A a \in Int : HandsAre(value_stack, l, s, g, a)
  BY <1>1, HandsAt
<1> DEFINE p == v \o l
           q == p \o s
           o == <<g>>
<1>6. Roots = q \o o
  BY <1>4
<1> HIDE DEF v, l, s, g, o
<1>9. p \in Seq(Int)
  BY <1>2, <1>3, ConcatInt
<1> HIDE DEF p
<1>10. q \in Seq(Int)
  BY <1>3, <1>9, ConcatInt
<1> HIDE DEF q
<1>11. o \in Seq(Int)
  BY <1>3 DEF o
<1>7. IsSeq(Roots) /\ Roots \in Seq(Int)
  BY <1>6, <1>10, <1>11, ConcatInt, SeqIntro
<1>8. ASSUME NEW a \in Int
      PROVE  Count(Roots, a) = Refs[a] /\ Refs[a] \in Nat
  <2> DEFINE x == Count(v, a)
             y == Count(l, a)
             z == Count(s, a)
             w == One(g, a)
             c == Count(p, a)
             d == Count(q, a)
             r == Count(Roots, a)
             h == Refs[a]
  <2>1. c = x + y
    BY <1>2, <1>3, CountConcat DEF p
  <2>2. d = c + z
    BY <1>3, <1>9, CountConcat DEF q
  <2>3. r = d + Count(o, a)
    BY <1>6, <1>10, <1>11, CountConcat
  <2>4. Count(o, a) = w
    BY CountOne DEF o
  <2>5. h = x + y + z + w /\ x \in Nat /\ y \in Nat /\ z \in Nat /\ w \in Nat
    BY <1>5 DEF HandsAre, Refs, v, l, s, g
  <2> HIDE DEF x, y, z, w, c, d, r, h
  <2>6. r = h /\ h \in Nat
    BY <2>1, <2>2, <2>3, <2>4, <2>5
  <2> QED
    BY <2>6 DEF r, h
<1> QED
  BY <1>7, <1>8

LEMMA NowMeans ==
  ASSUME Now
  PROVE  NoDangling /\ FramesMatched /\ CountsSuffice
<1>1. /\ StacksFit(value_stack, local_scope_stack, slice_stack, call_stack, global_scope_addr)
      /\ Sound(vm, Refs, Acct)
  BY DEF Now, Stacked, Refs, Acct
<1>2. /\ IsSeq(Roots) /\ Roots \in Seq(Int)
      /\ \A a \in Int : Count(Roots, a) = Refs[a] /\ Refs[a] \in Nat
  BY RootsCounted
<1>3. DOMAIN vm.unit \subseteq Int
  BY <1>1, Addresses
<1>4. NoDangling
  <2>1. Range(Roots) \subseteq DOMAIN vm.unit \cup {None}
    <3> SUFFICES ASSUME NEW i \in DOMAIN Roots PROVE Roots[i] \in DOMAIN vm.unit \cup {None}
      BY DEF Range
    <3>1. Count(Roots, Roots[i]) > 0
      BY <1>2, CountSome
    <3>2. Roots[i] \in Int
      BY <1>2
    <3>3. Refs[Roots[i]] > 0
      BY <1>2, <3>1, <3>2
    <3> QED
      BY <1>1, <3>2, <3>3 DEF Sound, Valid
  <2>2. AllHeldInside(vm) \subseteq DOMAIN vm.unit \cup {None}
    <3>1. Range(vm.mem) \subseteq DOMAIN vm.unit \cup {None}
      BY <1>1 DEF Sound, Valid, Range
    <3>2. \A b \in DOMAIN vm.unit : Range(Direct(vm.unit[b])) \subseteq DOMAIN vm.unit \cup {None}
      BY <1>1 DEF Sound, Valid, Range
    <3> QED
      BY <3>1, <3>2 DEF AllHeldInside
  <2> QED
    BY <2>1, <2>2 DEF NoDangling
<1>5. FramesMatched
  <2>1. Len(local_scope_stack) = Len(call_stack) + 1 /\ local_scope_stack[1] = None
    BY <1>1 DEF StacksFit
  <2>2. \A a \in Int : Acct.scopes[a] = Count(local_scope_stack, a)
    BY DEF Acct, Account
  <2>3. \A b \in DOMAIN vm.unit : vm.unit[b].type = "closure" =>
          Len(vm.unit[b].val) >= 1 + Count(local_scope_stack, b)
    BY <1>1, <1>3, <2>2 DEF Sound, Typed
  <2>4. ASSUME NEW a \in DOMAIN vm.unit, Type(vm, a) = "closure"
        PROVE  Len(Val(vm, a)) >= 1 + Count(local_scope_stack, a)
    BY <2>3, <2>4 DEF Type, Val, Live
  <2> QED
    BY <2>1, <2>4 DEF FramesMatched
<1>6. CountsSuffice
  <2> SUFFICES ASSUME NEW a \in DOMAIN vm.unit
               PROVE  vm.unit[a].cnt >= Count(Roots, a) + HeldInside(vm, a)
    BY DEF CountsSuffice
  <2>1. vm.unit[a].cnt >= Refs[a] + HeldInside(vm, a)
    BY <1>1 DEF Sound, Counted
  <2>2. Count(Roots, a) = Refs[a]
    BY <1>2, <1>3
  <2> QED
    BY <2>1, <2>2
<1> QED
  BY <1>4, <1>5, <1>6

(* Whatever code it runs, nothing that the machine or a value of its store  *)
(* holds has been given back: no handler of nasal_bytecode_vm.h and no      *)
(* builtin function deletes a reference that is not its own.                *)
THEOREM NothingDangles == Machine => []NoDangling
<1>1. IInv => NoDangling
  BY NowMeans DEF IInv
<1> QED
  BY MachineInvariant, <1>1, PTL

(* Whatever code it runs, callf and return keep call_stack and              *)
(* local_scope_stack in step, and a closure has a scope for every call      *)
(* under way in it besides its own.                                         *)
THEOREM FramesMatch == Machine => []FramesMatched
<1>1. IInv => FramesMatched
  BY NowMeans DEF IInv
<1> QED
  BY MachineInvariant, <1>1, PTL

(* Whatever code it runs, the reference count of a value is never below the *)
(* number of its holders.                                                   *)
THEOREM CountsNeverLow == Machine => []CountsSuffice
<1>1. IInv => CountsSuffice
  BY NowMeans DEF IInv
<1> QED
  BY MachineInvariant, <1>1, PTL
=============================================================================

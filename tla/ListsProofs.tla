----------------------------- MODULE ListsProofs -----------------------------
(***************************************************************************)
(* Lists are values, for every set of variables and elements and every     *)
(* bound on their length.                                                  *)
(*                                                                         *)
(* Two lists may share a backing array, because a literal made of a single *)
(* spread takes the array of a full list as its own. That is harmless as   *)
(* long as neither writes to it: a push to a full list moves it to a new   *)
(* array first, while list.pop and list.set write in place. So the theorem *)
(* is about programs that clone this way or shrink and overwrite, not both *)
(* (CloneSafe); MCData!SpreadThenSet is a program that does both.          *)
(***************************************************************************)
EXTENDS Lists, SequenceTheorems, FiniteSetTheorems, TLAPS

\* What a program may do for the theorem to apply to it.
CloneSafe ==
  /\ IsFiniteSet(ListVars)
  /\ \A p \in ListPlans : "clone" \in p => "pop" \notin p /\ "set" \notin p

\* A slot holds an element, or nothing yet.
Slot == Elems \cup {NullElem}

-----------------------------------------------------------------------------
(* Sequences. *)

\* The first n entries of a sequence.
LEMMA Prefix ==
  ASSUME NEW S, NEW s \in Seq(S), NEW n \in 0 .. Len(s)
  PROVE  /\ SubSeq(s, 1, n) \in Seq(S) /\ Len(SubSeq(s, 1, n)) = n
         /\ \A i \in 1 .. n : SubSeq(s, 1, n)[i] = s[i]
         /\ SubSeq(s, 1, Len(s)) = s
<1>1. Len(s) \in Nat /\ n \in Int /\ 1 \in Int /\ Len(s) \in Int
  BY LenProperties
<1>2. \A i \in 1 .. Len(s) : s[i] \in S
  BY ElementOfSeq
<1>3. /\ SubSeq(s, 1, n) \in Seq(S) /\ Len(SubSeq(s, 1, n)) = n
      /\ \A i \in 1 .. n : SubSeq(s, 1, n)[i] = s[i]
  <2>1. \A i \in 1 .. n : s[i] \in S
    BY <1>1, <1>2
  <2>2. /\ SubSeq(s, 1, n) \in Seq(S)
        /\ Len(SubSeq(s, 1, n)) = IF 1 <= n THEN n - 1 + 1 ELSE 0
        /\ \A i \in 1 .. n - 1 + 1 : SubSeq(s, 1, n)[i] = s[1 + i - 1]
    BY <1>1, <2>1, SubSeqProperties
  <2> QED
    BY <1>1, <2>2
<1>4. SubSeq(s, 1, Len(s)) = s
  <2>1. /\ SubSeq(s, 1, Len(s)) \in Seq(S)
        /\ Len(SubSeq(s, 1, Len(s))) = IF 1 <= Len(s) THEN Len(s) - 1 + 1 ELSE 0
        /\ \A i \in 1 .. Len(s) - 1 + 1 : SubSeq(s, 1, Len(s))[i] = s[1 + i - 1]
    BY <1>1, <1>2, SubSeqProperties
  <2>2. /\ Len(SubSeq(s, 1, Len(s))) = Len(s)
        /\ \A i \in 1 .. Len(s) : SubSeq(s, 1, Len(s))[i] = s[i]
    BY <1>1, <2>1
  <2> QED
    BY <2>1, <2>2, SeqEqual
<1> QED
  BY <1>3, <1>4

\* Two sequences that agree on their first n entries have the same prefix.
LEMMA SamePrefix ==
  ASSUME NEW S, NEW s \in Seq(S), NEW t \in Seq(S), NEW n \in Nat,
         n <= Len(s), n <= Len(t), \A i \in 1 .. n : s[i] = t[i]
  PROVE  SubSeq(s, 1, n) = SubSeq(t, 1, n)
<1>1. Len(s) \in Nat /\ Len(t) \in Nat
  BY LenProperties
<1>2. n \in 0 .. Len(s) /\ n \in 0 .. Len(t)
  BY <1>1
<1>3. /\ SubSeq(s, 1, n) \in Seq(S) /\ Len(SubSeq(s, 1, n)) = n
      /\ \A i \in 1 .. n : SubSeq(s, 1, n)[i] = s[i]
  BY <1>2, Prefix
<1>4. /\ SubSeq(t, 1, n) \in Seq(S) /\ Len(SubSeq(t, 1, n)) = n
      /\ \A i \in 1 .. n : SubSeq(t, 1, n)[i] = t[i]
  BY <1>2, Prefix
<1> QED
  BY <1>3, <1>4, SeqEqual

\* What arrconcat makes of one and of two segments.
LEMMA Flattened ==
  ASSUME NEW S, NEW s \in Seq(S), NEW t \in Seq(S)
  PROVE  FlattenSeq(<<s>>) = s /\ FlattenSeq(<<s, t>>) = s \o t
<1>1. FlattenSeq(<<s>>) = s
  <2> DEFINE seqs == <<s>>
             g == [i \in 1 .. 1 |-> s]
             Is(h) == h = [i \in 1 .. Len(seqs) |-> IF i = 1 THEN seqs[i] ELSE h[i - 1] \o seqs[i]]
             F == CHOOSE h : Is(h)
  <2>1. Len(seqs) = 1
    OBVIOUS
  <2>2. Is(g)
    BY <2>1
  <2>3. Is(F)
    BY <2>2
  <2> HIDE DEF F, g
  <2>4. F[1] = s
    BY <2>1, <2>3
  <2>5. FlattenSeq(seqs) = F[1]
    BY <2>1 DEF FlattenSeq, F
  <2> QED
    BY <2>4, <2>5
<1>2. FlattenSeq(<<s, t>>) = s \o t
  <2> DEFINE seqs == <<s, t>>
             g == [i \in 1 .. 2 |-> IF i = 1 THEN s ELSE s \o t]
             Is(h) == h = [i \in 1 .. Len(seqs) |-> IF i = 1 THEN seqs[i] ELSE h[i - 1] \o seqs[i]]
             F == CHOOSE h : Is(h)
  <2>1. Len(seqs) = 2
    OBVIOUS
  <2>2. Is(g)
    BY <2>1
  <2>3. Is(F)
    BY <2>2
  <2> HIDE DEF F, g
  <2>4. F[2] = s \o t
    BY <2>1, <2>3
  <2>5. FlattenSeq(seqs) = F[2]
    BY <2>1 DEF FlattenSeq, F
  <2> QED
    BY <2>4, <2>5
<1> QED
  BY <1>1, <1>2

\* What list.collect keeps of two options is a sequence of them.
LEMMA TakenType ==
  ASSUME NEW S, NEW f \in [1 .. 2 -> S]
  PROVE  Taken(2, f) \in Seq(S)
<1> DEFINE one == IF f[1] = NullElem THEN <<>> ELSE Append(<<>>, f[1])
           two == IF f[2] = NullElem THEN one ELSE Append(one, f[2])
           g == [i \in 0 .. 2 |-> IF i = 0 THEN <<>> ELSE IF i = 1 THEN one ELSE two]
           Is(h) == h = [i \in 0 .. 2 |->
                           IF i = 0 THEN <<>>
                           ELSE IF f[i] = NullElem THEN h[i - 1] ELSE Append(h[i - 1], f[i])]
           F == CHOOSE h : Is(h)
<1>1. f[1] \in S /\ f[2] \in S
  OBVIOUS
<1>2. one \in Seq(S)
  BY <1>1, EmptySeq, AppendProperties
<1>3. two \in Seq(S)
  BY <1>1, <1>2, AppendProperties
<1> HIDE DEF one, two
<1>4. Is(g)
  BY DEF one, two
<1>5. Is(F)
  BY <1>4
<1> HIDE DEF F, g
<1>6. F[2] = two
  <2> DEFINE Step(i) == IF i = 0 THEN <<>>
                        ELSE IF f[i] = NullElem THEN F[i - 1] ELSE Append(F[i - 1], f[i])
  <2>0. \A i \in 0 .. 2 : F[i] = Step(i)
    <3> HIDE DEF Step
    <3>1. F = [i \in 0 .. 2 |-> Step(i)]
      BY <1>5 DEF Step
    <3> QED
      BY <3>1
  <2>1. F[0] = <<>>
    BY <2>0
  <2>2. F[1] = IF f[1] = NullElem THEN F[0] ELSE Append(F[0], f[1])
    <3>1. F[1] = Step(1) /\ 1 - 1 = 0
      BY <2>0
    <3> QED
      BY <3>1
  <2>3. F[2] = IF f[2] = NullElem THEN F[1] ELSE Append(F[1], f[2])
    <3>1. F[2] = Step(2) /\ 2 - 1 = 1
      BY <2>0
    <3> QED
      BY <3>1
  <2> QED
    BY <2>1, <2>2, <2>3 DEF one, two
<1>7. Taken(2, f) = F[2]
  BY DEF Taken, F
<1> QED
  BY <1>3, <1>6, <1>7

\* An identity that no object has.
LEMMA FreshIdNew ==
  ASSUME NEW used, IsFiniteSet(used)
  PROVE  FreshId(used) \notin used
<1> DEFINE n == Cardinality(used)
<1>1. n \in Nat
  BY FS_CardinalityType
<1>2. IsFiniteSet(1 .. n + 1) /\ Cardinality(1 .. n + 1) = n + 1
  BY <1>1, FS_Interval, SMTT(30)
<1>3. ~(1 .. n + 1 \subseteq used)
  <2> SUFFICES ASSUME 1 .. n + 1 \subseteq used PROVE FALSE
    OBVIOUS
  <2>1. Cardinality(1 .. n + 1) <= n
    BY FS_Subset
  <2> QED
    BY <1>1, <1>2, <2>1
<1>4. \E i \in 1 .. n + 1 : i \notin used
  BY <1>3
<1> QED
  BY <1>4 DEF FreshId

-----------------------------------------------------------------------------
(* The invariant. *)

\* A heap of arrays a, structs l and meanings c under the bindings b: every struct
\* shows a prefix of its array, which is what its list means, and an array two
\* structs share is full for both.
HeapOK(a, l, b, c) ==
  /\ b \in [ListVars -> DOMAIN l]
  /\ \A k \in DOMAIN a : a[k] \in Seq(Slot)
  /\ \A i \in DOMAIN l :
       /\ l[i] \in [elems : DOMAIN a, len : Nat]
       /\ l[i].len <= Len(a[l[i].elems])
       /\ c[i] = SubSeq(a[l[i].elems], 1, l[i].len)
  /\ \A i, j \in DOMAIN l : i # j /\ l[i].elems = l[j].elems =>
       "clone" \in listPlan /\ l[i].len = Len(a[l[i].elems])

ListInv ==
  /\ listPlan \in ListPlans
  /\ IsFiniteSet(DOMAIN lists) /\ IsFiniteSet(DOMAIN arrays)
  /\ DOMAIN contents = DOMAIN lists /\ lists = [i \in DOMAIN lists |-> lists[i]]
  /\ HeapOK(arrays, lists, binds, contents)

\* The empty list every variable starts with.
LEMMA ListInvInit == CloneSafe /\ ListInit => ListInv
<1> SUFFICES ASSUME CloneSafe, ListInit PROVE ListInv
  OBVIOUS
<1>1. DOMAIN lists = {1} /\ DOMAIN arrays = {1} /\ DOMAIN contents = {1}
  BY DEF ListInit
<1>2. IsFiniteSet({1})
  BY FS_Singleton
<1>3. <<>> \in Seq(Slot) /\ Len(<<>>) = 0 /\ SubSeq(<<>>, 1, 0) = <<>>
  BY EmptySeq, Prefix
<1>4. HeapOK(arrays, lists, binds, contents)
  BY <1>1, <1>3 DEF HeapOK, ListInit
<1>5. lists = [i \in DOMAIN lists |-> lists[i]]
  BY DEF ListInit
<1> QED
  BY <1>1, <1>2, <1>4, <1>5 DEF ListInv, ListInit

\* Dropping what no variable reaches keeps a good heap good.
LEMMA Collected ==
  ASSUME CloneSafe, NEW a, NEW l, NEW b, NEW c, listPlan \in ListPlans, listPlan' = listPlan,
         HeapOK(a, l, b, c), ListCollect(a, l, b, c)
  PROVE  ListInv'
<1> DEFINE live == LiveLists(b)
           held == {l[i].elems : i \in live}
<1>1. live \subseteq DOMAIN l /\ held \subseteq DOMAIN a
  BY DEF HeapOK, LiveLists
<1>2. /\ binds' = b /\ lists' = [i \in live |-> l[i]] /\ contents' = [i \in live |-> c[i]]
      /\ arrays' = [k \in held |-> a[k]]
  BY DEF ListCollect
<1>3. IsFiniteSet(live)
  <2>1. b \in Surjection(ListVars, live)
    BY DEF HeapOK, LiveLists, Surjection
  <2> QED
    BY <2>1, FS_Surjection DEF CloneSafe
<1>4. IsFiniteSet(held)
  <2>1. [i \in live |-> l[i].elems] \in Surjection(live, held)
    BY DEF Surjection
  <2> QED
    BY <1>3, <2>1, FS_Surjection
<1>5. HeapOK(arrays, lists, binds, contents)'
  <2>1. binds' \in [ListVars -> DOMAIN lists']
    BY <1>2 DEF HeapOK, LiveLists
  <2>2. \A k \in DOMAIN arrays' : arrays'[k] \in Seq(Slot)
    BY <1>1, <1>2 DEF HeapOK
  <2>3. ASSUME NEW i \in DOMAIN lists'
        PROVE  /\ lists'[i] = l[i] /\ i \in DOMAIN l /\ contents'[i] = c[i]
               /\ l[i].elems \in held /\ arrays'[l[i].elems] = a[l[i].elems]
    BY <1>1, <1>2
  <2>4. \A i \in DOMAIN lists' :
          /\ lists'[i] \in [elems : DOMAIN arrays', len : Nat]
          /\ lists'[i].len <= Len(arrays'[lists'[i].elems])
          /\ contents'[i] = SubSeq(arrays'[lists'[i].elems], 1, lists'[i].len)
    BY <1>2, <2>3 DEF HeapOK
  <2>5. \A i, j \in DOMAIN lists' : i # j /\ lists'[i].elems = lists'[j].elems =>
          "clone" \in listPlan' /\ lists'[i].len = Len(arrays'[lists'[i].elems])
    BY <2>3 DEF HeapOK
  <2> QED
    BY <2>1, <2>2, <2>4, <2>5 DEF HeapOK
<1>6. lists' = [i \in DOMAIN lists' |-> lists'[i]]
  BY <1>2
<1> QED
  BY <1>2, <1>3, <1>4, <1>5, <1>6 DEF ListInv

-----------------------------------------------------------------------------
(* Operations that make a list. *)

\* A new struct over the array arr of a, a heap that has all of arrays: the array is
\* new, or shared with lists that fill it.
LEMMA MadeList ==
  ASSUME CloneSafe, ListInv, listPlan' = listPlan, NEW x \in ListVars, NEW a, NEW arr \in DOMAIN a,
         DOMAIN arrays \subseteq DOMAIN a, \A k \in DOMAIN arrays : a[k] = arrays[k],
         \A k \in DOMAIN a : a[k] \in Seq(Slot),
         \A i \in DOMAIN lists : lists[i].elems = arr =>
           "clone" \in listPlan /\ lists[i].len = Len(a[arr]),
         mk_list(x, a, arr, a[arr])
  PROVE  ListInv'
<1> DEFINE n == FreshId(DOMAIN lists)
           l == Extend(lists, n, [elems |-> arr, len |-> Len(a[arr])])
           b == [binds EXCEPT ![x] = n]
           c == Extend(contents, n, a[arr])
<1>0. HeapOK(arrays, lists, binds, contents) /\ listPlan \in ListPlans
      /\ DOMAIN contents = DOMAIN lists
  BY DEF ListInv
<1>1. n \notin DOMAIN lists
  BY FreshIdNew DEF ListInv
<1> HIDE DEF n
<1>2. /\ DOMAIN l = DOMAIN lists \cup {n} /\ l[n] = [elems |-> arr, len |-> Len(a[arr])]
      /\ c[n] = a[arr]
      /\ \A i \in DOMAIN lists : l[i] = lists[i] /\ c[i] = contents[i]
  BY <1>0, <1>1 DEF Extend
<1>3. HeapOK(a, l, b, c)
  <2>1. b \in [ListVars -> DOMAIN l]
    BY <1>0, <1>2 DEF HeapOK
  <2>2. ASSUME NEW i \in DOMAIN lists
        PROVE  /\ l[i] = lists[i] /\ c[i] = contents[i] /\ lists[i].elems \in DOMAIN arrays
               /\ a[lists[i].elems] = arrays[lists[i].elems]
    BY <1>0, <1>2 DEF HeapOK
  <2>3. ASSUME NEW i \in DOMAIN l
        PROVE  /\ l[i] \in [elems : DOMAIN a, len : Nat]
               /\ l[i].len <= Len(a[l[i].elems])
               /\ c[i] = SubSeq(a[l[i].elems], 1, l[i].len)
    <3>1. CASE i = n
      <4>1. Len(a[arr]) \in Nat /\ SubSeq(a[arr], 1, Len(a[arr])) = a[arr]
        BY LenProperties, Prefix
      <4> QED
        BY <1>2, <3>1, <4>1
    <3>2. CASE i \in DOMAIN lists
      BY <1>0, <2>2, <3>2 DEF HeapOK
    <3> QED
      BY <1>2, <3>1, <3>2
  <2>4. ASSUME NEW i \in DOMAIN l, NEW j \in DOMAIN l, i # j, l[i].elems = l[j].elems
        PROVE  "clone" \in listPlan /\ l[i].len = Len(a[l[i].elems])
    <3>1. CASE i = n
      <4>1. j \in DOMAIN lists /\ lists[j].elems = arr
        BY <1>2, <2>4, <3>1
      <4> QED
        BY <1>2, <3>1, <4>1
    <3>2. CASE j = n
      <4>1. i \in DOMAIN lists /\ l[i] = lists[i] /\ lists[i].elems = arr
        BY <1>2, <2>4, <3>2
      <4> QED
        BY <4>1
    <3>3. CASE i \in DOMAIN lists /\ j \in DOMAIN lists
      BY <1>0, <2>2, <2>4, <3>3 DEF HeapOK
    <3> QED
      BY <1>2, <3>1, <3>2, <3>3
  <2> HIDE DEF l, b, c
  <2> QED
    BY <2>1, <2>3, <2>4 DEF HeapOK
<1>4. ListCollect(a, l, b, c)
  BY DEF mk_list, n
<1> QED
  BY <1>0, <1>3, <1>4, Collected

\* A new struct over a new array.
LEMMA FreshMade ==
  ASSUME CloneSafe, ListInv, listPlan' = listPlan, NEW x \in ListVars, NEW elems \in Seq(Slot),
         mk_list(x, Extend(arrays, FreshId(DOMAIN arrays), elems), FreshId(DOMAIN arrays), elems)
  PROVE  ListInv'
<1> DEFINE arr == FreshId(DOMAIN arrays)
           a == Extend(arrays, arr, elems)
<1>0. HeapOK(arrays, lists, binds, contents)
  BY DEF ListInv
<1>1. arr \notin DOMAIN arrays
  BY FreshIdNew DEF ListInv
<1>2. mk_list(x, a, arr, elems)
  OBVIOUS
<1> HIDE DEF arr
<1>3. /\ DOMAIN a = DOMAIN arrays \cup {arr} /\ a[arr] = elems
      /\ \A k \in DOMAIN arrays : a[k] = arrays[k]
  BY <1>1 DEF Extend
<1> HIDE DEF a
<1>4. \A k \in DOMAIN a : a[k] \in Seq(Slot)
  BY <1>0, <1>3 DEF HeapOK
<1>5. \A i \in DOMAIN lists : lists[i].elems # arr
  BY <1>0, <1>1 DEF HeapOK
<1>6. mk_list(x, a, arr, a[arr])
  BY <1>2, <1>3
<1> QED
  BY <1>3, <1>4, <1>5, <1>6, MadeList

\* A list literal, list.build and list.collect.
LEMMA FreshListStep ==
  ASSUME CloneSafe, ListInv, listPlan' = listPlan, NEW x \in ListVars, NEW elems \in Seq(Slot),
         FreshList(x, elems)
  PROVE  ListInv'
BY FreshMade DEF FreshList

\* What a list holds and means are the same sequence of elements.
LEMMA Meanings ==
  ASSUME ListInv, NEW y \in ListVars
  PROVE  /\ binds[y] \in DOMAIN lists
         /\ lists[binds[y]].elems \in DOMAIN arrays
         /\ arrays[lists[binds[y]].elems] \in Seq(Slot)
         /\ lists[binds[y]].len \in 0 .. Len(arrays[lists[binds[y]].elems])
         /\ contents[binds[y]] = Elements(binds[y]) /\ Elements(binds[y]) \in Seq(Slot)
         /\ Len(Elements(binds[y])) = lists[binds[y]].len
<1> DEFINE l == binds[y]
<1>1. HeapOK(arrays, lists, binds, contents)
  BY DEF ListInv
<1>2. l \in DOMAIN lists
  BY <1>1 DEF HeapOK
<1> HIDE DEF l
<1>3. /\ lists[l].elems \in DOMAIN arrays /\ arrays[lists[l].elems] \in Seq(Slot)
      /\ lists[l].len \in Nat /\ lists[l].len <= Len(arrays[lists[l].elems])
      /\ contents[l] = Elements(l)
  BY <1>1, <1>2 DEF HeapOK, Elements
<1>4. lists[l].len \in 0 .. Len(arrays[lists[l].elems])
  BY <1>3, LenProperties
<1>5. Elements(l) \in Seq(Slot) /\ Len(Elements(l)) = lists[l].len
  BY <1>3, <1>4, Prefix DEF Elements
<1> QED
  BY <1>2, <1>3, <1>4, <1>5 DEF l

\* [...y] and the literals of two items.
LEMMA MakeStep ==
  ASSUME CloneSafe, ListInv, listPlan' = listPlan, NEW x \in ListVars, NEW y \in ListVars,
         NEW z \in ListVars, NEW v, NEW items, make_list(x, items),
         \/ items = <<Spread(y)>> /\ "clone" \in listPlan
         \/ v \in Elems /\ items \in SpreadForms(y, z, v)
  PROVE  ListInv'
<1> DEFINE only == lists[binds[items[1][2]]]
           flat == arrconcat([i \in DOMAIN items |-> Segment(items[i])])
           meant == FlattenSeq([i \in DOMAIN items |-> Meant(items[i])])
<1>1. \A u \in ListVars : /\ Segment(Spread(u)) = Elements(binds[u])
                          /\ Meant(Spread(u)) = Elements(binds[u])
                          /\ Elements(binds[u]) \in Seq(Slot)
  BY Meanings DEF Segment, Meant, Spread, emit_list_elems
<1>2. /\ Segment(Elem(v)) = <<v>> /\ Meant(Elem(v)) = <<v>>
      /\ v \in Elems => <<v>> \in Seq(Slot)
  BY DEF Segment, Meant, Elem, Slot
<1>3. \A s, t \in Seq(Slot) : /\ FlattenSeq(<<s>>) = s /\ FlattenSeq(<<s, t>>) = s \o t
                              /\ s \o t \in Seq(Slot)
  BY Flattened, ConcatProperties
<1>4. CASE items = <<Spread(y)>> /\ "clone" \in listPlan
  <2>1. Len(items) = 1 /\ DOMAIN items = 1 .. 1 /\ items[1] = Spread(y)
    BY <1>4
  <2>2. items[1][1] = "spread" /\ items[1][2] = y
    BY <2>1 DEF Spread
  <2>3. flat = Elements(binds[y]) /\ meant = Elements(binds[y])
    <3>1. [i \in DOMAIN items |-> Segment(items[i])] = <<Elements(binds[y])>>
      BY <1>1, <2>1
    <3>2. [i \in DOMAIN items |-> Meant(items[i])] = <<Elements(binds[y])>>
      BY <1>1, <2>1
    <3> QED
      BY <1>1, <1>3, <3>1, <3>2 DEF arrconcat
  <2>4. CASE only.len = Len(arrays[only.elems])
    <3>1. mk_list(x, arrays, only.elems, meant)
      BY <2>1, <2>2, <2>4 DEF make_list
    <3>2. /\ only.elems \in DOMAIN arrays /\ meant = arrays[only.elems]
      <4>1. /\ only.elems \in DOMAIN arrays /\ arrays[only.elems] \in Seq(Slot)
            /\ only.len \in 0 .. Len(arrays[only.elems])
        BY <2>2, Meanings
      <4>2. SubSeq(arrays[only.elems], 1, Len(arrays[only.elems])) = arrays[only.elems]
        BY <4>1, Prefix
      <4> QED
        BY <2>2, <2>3, <2>4, <4>1, <4>2 DEF Elements
    <3>3. HeapOK(arrays, lists, binds, contents)
      BY DEF ListInv
    <3>4. \A i \in DOMAIN lists : lists[i].elems = only.elems => lists[i].len = Len(arrays[only.elems])
      <4> SUFFICES ASSUME NEW i \in DOMAIN lists, lists[i].elems = only.elems
                   PROVE  lists[i].len = Len(arrays[only.elems])
        OBVIOUS
      <4>1. binds[y] \in DOMAIN lists
        BY Meanings
      <4>2. CASE i = binds[y]
        BY <2>2, <2>4, <4>2
      <4>3. CASE i # binds[y]
        BY <2>2, <3>3, <4>1, <4>3 DEF HeapOK
      <4> QED
        BY <4>2, <4>3
    <3> QED
      <4>1. PICK arr : arr = only.elems
        OBVIOUS
      <4>2. /\ arr \in DOMAIN arrays /\ mk_list(x, arrays, arr, arrays[arr])
            /\ \A i \in DOMAIN lists : lists[i].elems = arr =>
                 "clone" \in listPlan /\ lists[i].len = Len(arrays[arr])
        BY <1>4, <3>1, <3>2, <3>4, <4>1
      <4>3. \A k \in DOMAIN arrays : arrays[k] \in Seq(Slot)
        BY <3>3 DEF HeapOK
      <4> HIDE DEF only
      <4> QED
        BY <4>2, <4>3, MadeList
  <2>5. CASE only.len # Len(arrays[only.elems])
    <3>1. mk_list(x, Extend(arrays, FreshId(DOMAIN arrays), flat), FreshId(DOMAIN arrays), meant)
      BY <2>5 DEF make_list
    <3> QED
      BY <1>1, <2>3, <3>1, FreshMade
  <2> QED
    BY <2>4, <2>5
<1>5. CASE v \in Elems /\ items \in SpreadForms(y, z, v)
  <2>1. PICK p, q : items = <<p, q>> /\ {p, q} \subseteq {Spread(y), Spread(z), Elem(v)}
    BY <1>5 DEF SpreadForms
  <2>2. Len(items) = 2 /\ DOMAIN items = 1 .. 2 /\ items[1] = p /\ items[2] = q
    BY <2>1
  <2>3. /\ Segment(p) \in Seq(Slot) /\ Meant(p) = Segment(p)
        /\ Segment(q) \in Seq(Slot) /\ Meant(q) = Segment(q)
    BY <1>1, <1>2, <1>5, <2>1
  <2>4. flat = Segment(p) \o Segment(q) /\ meant = flat /\ flat \in Seq(Slot)
    <3>1. [i \in DOMAIN items |-> Segment(items[i])] = <<Segment(p), Segment(q)>>
      BY <2>2
    <3>2. [i \in DOMAIN items |-> Meant(items[i])] = <<Segment(p), Segment(q)>>
      BY <2>2, <2>3
    <3>3. /\ FlattenSeq(<<Segment(p), Segment(q)>>) = Segment(p) \o Segment(q)
          /\ Segment(p) \o Segment(q) \in Seq(Slot)
      BY <1>3, <2>3
    <3>4. flat = FlattenSeq(<<Segment(p), Segment(q)>>)
      BY <3>1 DEF arrconcat
    <3>5. meant = FlattenSeq(<<Segment(p), Segment(q)>>)
      BY <3>2
    <3> QED
      BY <3>3, <3>4, <3>5
  <2>5. mk_list(x, Extend(arrays, FreshId(DOMAIN arrays), flat), FreshId(DOMAIN arrays), meant)
    BY <2>2 DEF make_list
  <2> QED
    BY <2>4, <2>5, FreshMade
<1> QED
  BY <1>4, <1>5

\* A rest pattern takes the elements up to the length, not up to the capacity.
LEMMA TailStep ==
  ASSUME CloneSafe, ListInv, NEW x \in ListVars, NEW y \in ListVars, NEW n \in Nat,
         MatchTail(x, y, n)
  PROVE  ListInv'
<1> DEFINE s == arrays[lists[binds[y]].elems]
           len == lists[binds[y]].len
           c == contents[binds[y]]
<1>1. s \in Seq(Slot) /\ len \in 0 .. Len(s) /\ Len(s) \in Nat /\ n <= len
      /\ c \in Seq(Slot) /\ Len(c) = len /\ c = SubSeq(s, 1, len)
  BY Meanings, LenProperties DEF MatchTail, Elements
<1>2. \A i \in 1 .. len : c[i] = s[i] /\ s[i] \in Slot
  BY <1>1, Prefix, ElementOfSeq
<1> HIDE DEF s, len, c
<1>3. /\ SubSeq(s, n + 1, len) \in Seq(Slot) /\ SubSeq(c, n + 1, len) \in Seq(Slot)
      /\ Len(SubSeq(s, n + 1, len)) = Len(SubSeq(c, n + 1, len))
      /\ \A i \in 1 .. Len(SubSeq(s, n + 1, len)) :
           SubSeq(s, n + 1, len)[i] = SubSeq(c, n + 1, len)[i]
  <2>1. n + 1 \in Int /\ len \in Int /\ \A i \in n + 1 .. len : s[i] \in Slot /\ c[i] = s[i]
    BY <1>1, <1>2
  <2>2. /\ SubSeq(s, n + 1, len) \in Seq(Slot)
        /\ Len(SubSeq(s, n + 1, len)) = IF n + 1 <= len THEN len - (n + 1) + 1 ELSE 0
        /\ \A i \in 1 .. len - (n + 1) + 1 : SubSeq(s, n + 1, len)[i] = s[n + 1 + i - 1]
    BY <2>1, SubSeqProperties
  <2>3. /\ SubSeq(c, n + 1, len) \in Seq(Slot)
        /\ Len(SubSeq(c, n + 1, len)) = IF n + 1 <= len THEN len - (n + 1) + 1 ELSE 0
        /\ \A i \in 1 .. len - (n + 1) + 1 : SubSeq(c, n + 1, len)[i] = c[n + 1 + i - 1]
    BY <2>1, SubSeqProperties
  <2>4. ASSUME NEW i \in 1 .. Len(SubSeq(s, n + 1, len))
        PROVE  SubSeq(s, n + 1, len)[i] = SubSeq(c, n + 1, len)[i]
    <3>1. i \in 1 .. len - (n + 1) + 1 /\ n + 1 + i - 1 \in n + 1 .. len
      BY <1>1, <2>2, <2>4
    <3> QED
      BY <2>1, <2>2, <2>3, <3>1
  <2> QED
    BY <2>2, <2>3, <2>4
<1>4. SubSeq(s, n + 1, len) = SubSeq(c, n + 1, len)
  BY <1>3, SeqEqual
<1>5. /\ mk_list(x, Extend(arrays, FreshId(DOMAIN arrays), SubSeq(s, n + 1, len)),
                 FreshId(DOMAIN arrays), SubSeq(c, n + 1, Len(c)))
      /\ listPlan' = listPlan
  BY DEF MatchTail, list_tail, s, len, c
<1> QED
  BY <1>1, <1>3, <1>4, <1>5, FreshMade

-----------------------------------------------------------------------------
(* Operations that change a list in place. *)

\* The list of x gets the array s, which no other list has, and the length n.
LEMMA Changed ==
  ASSUME CloneSafe, ListInv, listPlan' = listPlan, NEW x \in ListVars, NEW arr,
         NEW s \in Seq(Slot), NEW n \in 0 .. Len(s),
         \A i \in DOMAIN lists : i # binds[x] => lists[i].elems # arr,
         ListCollect(Extend(arrays, arr, s),
                     [lists EXCEPT ![binds[x]] = [elems |-> arr, len |-> n]],
                     binds, [contents EXCEPT ![binds[x]] = SubSeq(s, 1, n)])
  PROVE  ListInv'
<1> DEFINE o == binds[x]
           a == Extend(arrays, arr, s)
           l == [lists EXCEPT ![o] = [elems |-> arr, len |-> n]]
           c == [contents EXCEPT ![o] = SubSeq(s, 1, n)]
<1>0. /\ HeapOK(arrays, lists, binds, contents) /\ listPlan \in ListPlans
      /\ DOMAIN contents = DOMAIN lists /\ o \in DOMAIN lists
  BY Meanings DEF ListInv
<1> HIDE DEF o
<1>1. /\ DOMAIN a = DOMAIN arrays \cup {arr} /\ a[arr] = s
      /\ \A k \in DOMAIN arrays : k # arr => a[k] = arrays[k]
  BY DEF Extend
<1>2. /\ DOMAIN l = DOMAIN lists /\ l[o] = [elems |-> arr, len |-> n] /\ c[o] = SubSeq(s, 1, n)
      /\ \A i \in DOMAIN lists \ {o} : l[i] = lists[i] /\ c[i] = contents[i]
  BY <1>0
<1> HIDE DEF a, l, c
<1>3. ASSUME NEW i \in DOMAIN lists, i # o
      PROVE  /\ l[i] = lists[i] /\ c[i] = contents[i] /\ lists[i].elems \in DOMAIN arrays
             /\ lists[i].elems # arr /\ a[lists[i].elems] = arrays[lists[i].elems]
  BY <1>0, <1>1, <1>2, <1>3 DEF HeapOK, o
<1>4. HeapOK(a, l, binds, c)
  <2>1. binds \in [ListVars -> DOMAIN l] /\ \A k \in DOMAIN a : a[k] \in Seq(Slot)
    BY <1>0, <1>1, <1>2 DEF HeapOK
  <2>2. ASSUME NEW i \in DOMAIN l
        PROVE  /\ l[i] \in [elems : DOMAIN a, len : Nat]
               /\ l[i].len <= Len(a[l[i].elems])
               /\ c[i] = SubSeq(a[l[i].elems], 1, l[i].len)
    <3>1. CASE i = o
      <4>1. n \in Nat /\ n <= Len(s)
        BY LenProperties
      <4> QED
        BY <1>1, <1>2, <3>1, <4>1
    <3>2. CASE i # o
      <4>1. i \in DOMAIN lists
        BY <1>2
      <4>2. /\ lists[i] \in [elems : DOMAIN arrays, len : Nat]
            /\ lists[i].len <= Len(arrays[lists[i].elems])
            /\ contents[i] = SubSeq(arrays[lists[i].elems], 1, lists[i].len)
        BY <1>0, <4>1 DEF HeapOK
      <4> QED
        BY <1>1, <1>3, <3>2, <4>1, <4>2
    <3> QED
      BY <3>1, <3>2
  <2>3. ASSUME NEW i \in DOMAIN l, NEW j \in DOMAIN l, i # j, l[i].elems = l[j].elems
        PROVE  "clone" \in listPlan /\ l[i].len = Len(a[l[i].elems])
    <3>1. i # o /\ j # o
      BY <1>2, <1>3, <2>3
    <3>2. i \in DOMAIN lists /\ j \in DOMAIN lists
      BY <1>2
    <3> QED
      BY <1>0, <1>3, <2>3, <3>1, <3>2 DEF HeapOK
  <2> QED
    BY <2>1, <2>2, <2>3 DEF HeapOK
<1>5. ListCollect(a, l, binds, c)
  BY DEF a, l, c, o
<1> QED
  BY <1>0, <1>4, <1>5, Collected

\* list.push writes behind the last element, in a new array if there is no room: an
\* array with room is nobody else's.
LEMMA PushStep ==
  ASSUME CloneSafe, ListInv, NEW x \in ListVars, NEW v \in Elems, list_push(x, v)
  PROVE  ListInv'
<1> DEFINE l == binds[x]
           e == lists[l].elems
           len == lists[l].len
           old == arrays[e]
           arr == IF Full(l) THEN FreshId(DOMAIN arrays) ELSE e
           backing == IF Full(l) THEN Grown(l) ELSE arrays[arr]
           s == [backing EXCEPT ![len + 1] = v]
<1>0. /\ HeapOK(arrays, lists, binds, contents) /\ listPlan' = listPlan
      /\ DOMAIN contents = DOMAIN lists
  BY DEF ListInv, list_push
<1>1. /\ l \in DOMAIN lists /\ e \in DOMAIN arrays /\ old \in Seq(Slot)
      /\ len \in Nat /\ len <= Len(old) /\ Len(old) \in Nat /\ contents[l] = SubSeq(old, 1, len)
      /\ \A i \in 1 .. Len(old) : old[i] \in Slot
  BY Meanings, LenProperties, ElementOfSeq DEF Elements
<1>2. Full(l) <=> len >= Len(old)
  BY DEF Full, Capacity
<1>3. /\ backing \in Seq(Slot) /\ len + 1 <= Len(backing)
      /\ \A i \in 1 .. len : backing[i] = old[i]
  <2>1. CASE Full(l)
    <3> DEFINE cap == IF Len(old) = 0 THEN 4 ELSE 2 * Len(old)
    <3>1. cap \in Nat /\ len + 1 <= cap
      BY <1>1, <1>2, <2>1
    <3> HIDE DEF cap
    <3>2. backing = [i \in 1 .. cap |-> IF i <= len THEN old[i] ELSE NullElem]
      BY <2>1 DEF Grown, cap
    <3>3. \A i \in 1 .. cap : (IF i <= len THEN old[i] ELSE NullElem) \in Slot
      BY <1>1 DEF Slot
    <3>4. backing \in [1 .. cap -> Slot]
      BY <3>2, <3>3
    <3>5. backing \in Seq(Slot) /\ Len(backing) = cap
      BY <3>1, <3>4
    <3> QED
      BY <1>1, <3>1, <3>2, <3>5
  <2>2. CASE ~Full(l)
    BY <1>1, <1>2, <2>2
  <2> QED
    BY <2>1, <2>2
<1> HIDE DEF backing
<1>4. /\ s \in Seq(Slot) /\ Len(s) = Len(backing) /\ Len(backing) \in Nat
      /\ \A i \in 1 .. len : s[i] = old[i]
      /\ s[len + 1] = v
  <2>1. len + 1 \in 1 .. Len(backing) /\ v \in Slot /\ Len(backing) \in Nat
    BY <1>1, <1>3, LenProperties DEF Slot
  <2>2. /\ s \in Seq(Slot) /\ Len(s) = Len(backing)
        /\ \A i \in 1 .. Len(backing) : s[i] = IF i = len + 1 THEN v ELSE backing[i]
    BY <1>3, <2>1, ExceptSeq
  <2> QED
    BY <1>1, <1>3, <2>1, <2>2
<1>5. len + 1 \in 0 .. Len(s)
  BY <1>1, <1>3, <1>4
<1> HIDE DEF s
<1>6. SubSeq(s, 1, len + 1) = Append(contents[l], v)
  <2>1. /\ SubSeq(s, 1, len + 1) \in Seq(Slot) /\ Len(SubSeq(s, 1, len + 1)) = len + 1
        /\ \A i \in 1 .. len + 1 : SubSeq(s, 1, len + 1)[i] = s[i]
    BY <1>4, <1>5, Prefix
  <2>2. /\ contents[l] \in Seq(Slot) /\ Len(contents[l]) = len
        /\ \A i \in 1 .. len : contents[l][i] = old[i]
    <3>1. len \in 0 .. Len(old)
      BY <1>1
    <3> QED
      BY <1>1, <3>1, Prefix
  <2>3. /\ Append(contents[l], v) \in Seq(Slot) /\ Len(Append(contents[l], v)) = len + 1
        /\ \A i \in 1 .. len : Append(contents[l], v)[i] = contents[l][i]
        /\ Append(contents[l], v)[len + 1] = v
    <3>1. v \in Slot
      BY DEF Slot
    <3> QED
      BY <2>2, <3>1, AppendProperties
  <2>4. \A i \in 1 .. len + 1 : SubSeq(s, 1, len + 1)[i] = Append(contents[l], v)[i]
    <3>1. \A i \in 1 .. len + 1 : i \in 1 .. len \/ i = len + 1
      BY <1>1
    <3> QED
      BY <1>4, <2>1, <2>2, <2>3, <3>1
  <2> QED
    BY <2>1, <2>3, <2>4, SeqEqual
<1>7. \A i \in DOMAIN lists : i # l => lists[i].elems # arr
  <2>1. CASE Full(l)
    <3>1. arr \notin DOMAIN arrays
      BY <2>1, FreshIdNew DEF ListInv
    <3> QED
      BY <1>0, <3>1 DEF HeapOK
  <2>2. CASE ~Full(l)
    <3>1. arr = e /\ len # Len(old)
      BY <1>1, <1>2, <2>2
    <3> QED
      BY <1>0, <1>1, <3>1 DEF HeapOK
  <2> QED
    BY <2>1, <2>2
<1>8. ListCollect(Extend(arrays, arr, s), [lists EXCEPT ![l] = [elems |-> arr, len |-> len + 1]],
                  binds, [contents EXCEPT ![l] = SubSeq(s, 1, len + 1)])
  <2>1. ListCollect(Extend(arrays, arr, s), [lists EXCEPT ![l] = [elems |-> arr, len |-> @.len + 1]],
                    binds, [contents EXCEPT ![l] = Append(@, v)])
    BY DEF list_push, s, backing
  <2>2. [contents EXCEPT ![l] = Append(@, v)] = [contents EXCEPT ![l] = SubSeq(s, 1, len + 1)]
    BY <1>0, <1>1, <1>6
  <2>3. [lists EXCEPT ![l] = [elems |-> arr, len |-> @.len + 1]]
          = [lists EXCEPT ![l] = [elems |-> arr, len |-> len + 1]]
    BY <1>1
  <2> QED
    BY <2>1, <2>2, <2>3
<1> HIDE DEF arr, len
<1> QED
  BY <1>0, <1>4, <1>5, <1>7, <1>8, Changed

\* In a program that does not clone, list.pop and list.set write to an array of their
\* own.
LEMMA Unshared ==
  ASSUME ListInv, CloneSafe, "pop" \in listPlan \/ "set" \in listPlan, NEW x \in ListVars
  PROVE  \A i \in DOMAIN lists : i # binds[x] => lists[i].elems # lists[binds[x]].elems
<1>1. "clone" \notin listPlan /\ binds[x] \in DOMAIN lists
  BY Meanings DEF ListInv, CloneSafe
<1> QED
  BY <1>1 DEF ListInv, HeapOK

\* list.pop clears the last element's slot and shortens the list.
LEMMA PopStep ==
  ASSUME CloneSafe, ListInv, NEW x \in ListVars, list_pop(x)
  PROVE  ListInv'
<1> DEFINE l == binds[x]
           e == lists[l].elems
           len == lists[l].len
           s == [arrays[e] EXCEPT ![len] = NullElem]
<1>0. "pop" \in listPlan /\ len > 0 /\ listPlan' = listPlan
  BY DEF list_pop
<1>1. /\ l \in DOMAIN lists /\ e \in DOMAIN arrays /\ arrays[e] \in Seq(Slot) /\ Len(arrays[e]) \in Nat
      /\ len \in 0 .. Len(arrays[e]) /\ contents[l] = SubSeq(arrays[e], 1, len)
      /\ DOMAIN contents = DOMAIN lists /\ lists[l] = [elems |-> e, len |-> len]
      /\ Len(contents[l]) = len
  <2>1. lists[l] \in [elems : DOMAIN arrays, len : Nat]
    BY Meanings DEF ListInv, HeapOK
  <2> QED
    BY <2>1, Meanings, LenProperties DEF Elements, ListInv
<1>2. /\ s \in Seq(Slot) /\ Len(s) = Len(arrays[e])
      /\ \A i \in 1 .. Len(arrays[e]) : s[i] = IF i = len THEN NullElem ELSE arrays[e][i]
  <2>1. len \in 1 .. Len(arrays[e]) /\ NullElem \in Slot
    BY <1>0, <1>1 DEF Slot
  <2> QED
    BY <1>1, <2>1, ExceptSeq
<1>3. SubSeq(s, 1, len - 1) = Front(contents[l])
  <2>1. /\ SubSeq(s, 1, len - 1) = SubSeq(arrays[e], 1, len - 1)
    <3>1. len - 1 \in Nat /\ len - 1 <= Len(s) /\ len - 1 <= Len(arrays[e])
          /\ \A i \in 1 .. len - 1 : s[i] = arrays[e][i]
      BY <1>0, <1>1, <1>2
    <3> HIDE DEF s
    <3> QED
      BY <1>1, <1>2, <3>1, SamePrefix
  <2>2. SubSeq(contents[l], 1, len - 1) = SubSeq(arrays[e], 1, len - 1)
    <3>1. /\ contents[l] \in Seq(Slot) /\ \A i \in 1 .. len : contents[l][i] = arrays[e][i]
      BY <1>1, Prefix
    <3>2. len - 1 \in Nat /\ len - 1 <= Len(contents[l]) /\ len - 1 <= Len(arrays[e])
          /\ \A i \in 1 .. len - 1 : contents[l][i] = arrays[e][i]
      BY <1>0, <1>1, <3>1
    <3> QED
      BY <1>1, <3>1, <3>2, SamePrefix
  <2> QED
    BY <1>1, <2>1, <2>2 DEF Front
<1>4. ListCollect(Extend(arrays, e, s), [lists EXCEPT ![l] = [elems |-> e, len |-> len - 1]],
                  binds, [contents EXCEPT ![l] = SubSeq(s, 1, len - 1)])
  <2>1. ListCollect([arrays EXCEPT ![e][len] = NullElem], [lists EXCEPT ![l].len = @ - 1],
                    binds, [contents EXCEPT ![l] = Front(@)])
    BY DEF list_pop
  <2>2. [arrays EXCEPT ![e][len] = NullElem] = Extend(arrays, e, s)
    BY <1>1 DEF Extend
  <2>3. [lists EXCEPT ![l].len = @ - 1] = [lists EXCEPT ![l] = [elems |-> e, len |-> len - 1]]
    <3>1. lists[l] \in [elems : DOMAIN arrays, len : Nat]
      BY <1>1 DEF ListInv, HeapOK
    <3>2. [lists[l] EXCEPT !.len = @ - 1] = [elems |-> e, len |-> len - 1]
      BY <3>1
    <3> QED
      BY <1>1, <3>2
  <2>4. [contents EXCEPT ![l] = Front(@)] = [contents EXCEPT ![l] = SubSeq(s, 1, len - 1)]
    BY <1>1, <1>3
  <2> QED
    BY <2>1, <2>2, <2>3, <2>4
<1>5. len - 1 \in 0 .. Len(s)
  BY <1>0, <1>1, <1>2
<1>6. \A i \in DOMAIN lists : i # l => lists[i].elems # e
  BY <1>0, Unshared
<1> HIDE DEF s
<1> QED
  BY <1>0, <1>2, <1>4, <1>5, <1>6, Changed, SMTT(30)

\* list.set overwrites one element.
LEMMA SetStep ==
  ASSUME CloneSafe, ListInv, NEW x \in ListVars, NEW i \in Nat, NEW v \in Elems, list_set(x, i, v)
  PROVE  ListInv'
<1> DEFINE l == binds[x]
           e == lists[l].elems
           len == lists[l].len
           s == [arrays[e] EXCEPT ![i] = v]
           c == [contents[l] EXCEPT ![i] = v]
<1>0. "set" \in listPlan /\ i \in 1 .. len /\ listPlan' = listPlan
  BY DEF list_set
<1>1. /\ l \in DOMAIN lists /\ e \in DOMAIN arrays /\ arrays[e] \in Seq(Slot) /\ Len(arrays[e]) \in Nat
      /\ len \in 0 .. Len(arrays[e]) /\ contents[l] = SubSeq(arrays[e], 1, len)
      /\ DOMAIN contents = DOMAIN lists /\ lists[l] = [elems |-> e, len |-> len]
      /\ contents[l] \in Seq(Slot) /\ Len(contents[l]) = len
  <2>1. lists[l] \in [elems : DOMAIN arrays, len : Nat]
    BY Meanings DEF ListInv, HeapOK
  <2> QED
    BY <2>1, Meanings, LenProperties DEF Elements, ListInv
<1>2. /\ s \in Seq(Slot) /\ Len(s) = Len(arrays[e])
      /\ \A k \in 1 .. Len(arrays[e]) : s[k] = IF k = i THEN v ELSE arrays[e][k]
  <2>1. i \in 1 .. Len(arrays[e]) /\ v \in Slot
    BY <1>0, <1>1 DEF Slot
  <2> QED
    BY <1>1, <2>1, ExceptSeq
<1>3. SubSeq(s, 1, len) = c
  <2>1. /\ c \in Seq(Slot) /\ Len(c) = len
        /\ \A k \in 1 .. len : c[k] = IF k = i THEN v ELSE contents[l][k]
    <3>1. i \in 1 .. Len(contents[l]) /\ v \in Slot
      BY <1>0, <1>1 DEF Slot
    <3>2. /\ c \in Seq(Slot) /\ Len(c) = Len(contents[l])
          /\ \A k \in 1 .. Len(contents[l]) : c[k] = IF k = i THEN v ELSE contents[l][k]
      <4>1. contents[l] \in Seq(Slot)
        BY <1>1
      <4> QED
        BY <3>1, <4>1, ExceptSeq
    <3>3. Len(contents[l]) = len
      BY <1>1
    <3> HIDE DEF c, len
    <3> QED
      BY <3>2, <3>3
  <2>2. \A k \in 1 .. len : contents[l][k] = arrays[e][k]
    BY <1>1, Prefix
  <2> HIDE DEF s, c
  <2>3. /\ SubSeq(s, 1, len) \in Seq(Slot) /\ Len(SubSeq(s, 1, len)) = len
        /\ \A k \in 1 .. len : SubSeq(s, 1, len)[k] = s[k]
    BY <1>1, <1>2, Prefix
  <2>4. \A k \in 1 .. len : SubSeq(s, 1, len)[k] = c[k]
    <3>1. \A k \in 1 .. len : k \in 1 .. Len(arrays[e])
      BY <1>1
    <3> QED
      BY <1>2, <2>1, <2>2, <2>3, <3>1
  <2> QED
    BY <2>1, <2>3, <2>4, SeqEqual
<1>4. ListCollect(Extend(arrays, e, s), [lists EXCEPT ![l] = [elems |-> e, len |-> len]],
                  binds, [contents EXCEPT ![l] = SubSeq(s, 1, len)])
  <2>1. ListCollect([arrays EXCEPT ![e][i] = v], lists, binds, [contents EXCEPT ![l][i] = v])
    BY DEF list_set
  <2>2. [arrays EXCEPT ![e][i] = v] = Extend(arrays, e, s)
    BY <1>1 DEF Extend
  <2>3. lists = [lists EXCEPT ![l] = [elems |-> e, len |-> len]]
    <3>1. \A j \in DOMAIN lists : [lists EXCEPT ![l] = [elems |-> e, len |-> len]][j] = lists[j]
      BY <1>1
    <3>2. lists = [j \in DOMAIN lists |-> lists[j]]
      BY DEF ListInv
    <3> QED
      BY <3>1, <3>2
  <2>4. [contents EXCEPT ![l][i] = v] = [contents EXCEPT ![l] = SubSeq(s, 1, len)]
    BY <1>1, <1>3
  <2> QED
    BY <2>1, <2>2, <2>3, <2>4
<1>5. \A j \in DOMAIN lists : j # l => lists[j].elems # e
  BY <1>0, Unshared
<1>6. len \in 0 .. Len(s)
  BY <1>1, <1>2
<1> HIDE DEF s, len, e
<1> QED
  BY <1>0, <1>2, <1>4, <1>5, <1>6, Changed

-----------------------------------------------------------------------------
\* let x = y binds x to the struct of y.
LEMMA AliasStep ==
  ASSUME CloneSafe, ListInv, NEW x \in ListVars, NEW y \in ListVars, AliasList(x, y)
  PROVE  ListInv'
<1>1. HeapOK(arrays, lists, [binds EXCEPT ![x] = binds[y]], contents)
  BY DEF ListInv, HeapOK
<1>2. /\ ListCollect(arrays, lists, [binds EXCEPT ![x] = binds[y]], contents)
      /\ listPlan \in ListPlans /\ listPlan' = listPlan
  BY DEF AliasList, ListInv
<1> QED
  BY <1>1, <1>2, Collected

\* Every operation on lists keeps the invariant.
LEMMA ListStep ==
  ASSUME CloneSafe, MaxLen \in Nat, ListInv, [ListNext]_listVars
  PROVE  ListInv'
<1>1. ASSUME NEW x \in ListVars, NEW v \in Elems, list_push(x, v) PROVE ListInv'
  BY <1>1, PushStep
<1>2. ASSUME NEW x \in ListVars, list_pop(x) PROVE ListInv'
  BY <1>2, PopStep
<1>3. ASSUME NEW x \in ListVars, NEW elems \in Seq(Slot), Literal(x, elems) PROVE ListInv'
  BY <1>3, FreshListStep DEF Literal
<1>4. ASSUME NEW x \in ListVars, NEW i \in 1 .. MaxLen, NEW v \in Elems, list_set(x, i, v)
      PROVE  ListInv'
  BY <1>4, SetStep
<1>5. ASSUME NEW x \in ListVars, NEW y \in ListVars, NEW n \in 0 .. MaxLen, MatchTail(x, y, n)
      PROVE  ListInv'
  BY <1>5, TailStep
<1>6. ASSUME NEW x \in ListVars, NEW f \in [1 .. 2 -> Elems], list_build(x, 2, f) PROVE ListInv'
  <2>1. [i \in 1 .. 2 |-> f[i]] \in [1 .. 2 -> Slot]
    BY DEF Slot
  <2>2. [i \in 1 .. 2 |-> f[i]] \in Seq(Slot)
    BY <2>1
  <2> QED
    BY <1>6, <2>2, FreshListStep DEF list_build
<1>7. ASSUME NEW x \in ListVars, NEW f \in [1 .. 2 -> Elems \cup {NullElem}], list_collect(x, 2, f)
      PROVE  ListInv'
  <2>1. Taken(2, f) \in Seq(Slot)
    BY TakenType DEF Slot
  <2> QED
    BY <1>7, <2>1, FreshListStep DEF list_collect
<1>8. ASSUME NEW x \in ListVars, NEW y \in ListVars, AliasList(x, y) PROVE ListInv'
  BY <1>8, AliasStep
<1>9. ASSUME NEW x \in ListVars, NEW y \in ListVars, CloneList(x, y) PROVE ListInv'
  <2>1. "clone" \in listPlan /\ make_list(x, <<Spread(y)>>) /\ listPlan' = listPlan
    BY <1>9 DEF CloneList
  <2> QED
    BY <2>1, MakeStep
<1>10. ASSUME NEW x \in ListVars, NEW y \in ListVars, NEW z \in ListVars, NEW v \in Elems,
              JoinLists(x, y, z, v)
       PROVE  ListInv'
  BY <1>10, MakeStep DEF JoinLists
<1>11. <<>> \in Seq(Slot) /\ \A v, w \in Elems : <<v, w>> \in Seq(Slot)
  BY DEF Slot
<1>12. CASE UNCHANGED listVars
  BY <1>12 DEF listVars, ListInv, HeapOK
<1>13. ASSUME NEW x \in ListVars, Literal(x, <<>>) PROVE ListInv'
  BY <1>3, <1>11, <1>13
<1>14. ASSUME NEW x \in ListVars, NEW v \in Elems, NEW w \in Elems, Literal(x, <<v, w>>)
       PROVE  ListInv'
  BY <1>3, <1>11, <1>14
<1> QED
  BY <1>1, <1>2, <1>4, <1>5, <1>6, <1>7, <1>8, <1>9, <1>10, <1>12, <1>13, <1>14 DEF ListNext

\* Lists are values: whatever is pushed, popped, set, spread, matched or built, and
\* whatever is collected in between, a list holds what was done to it and nothing else.
THEOREM ListsStayValues ==
  ASSUME CloneSafe, MaxLen \in Nat
  PROVE  ListSpec => []ListsAreValues
<1>1. ListInit => ListInv
  BY ListInvInit
<1>2. ListInv /\ [ListNext]_listVars => ListInv'
  BY ListStep
<1>3. ListInv => ListsAreValues
  BY Meanings DEF ListsAreValues
<1> QED
  BY <1>1, <1>2, <1>3, PTL DEF ListSpec
=============================================================================

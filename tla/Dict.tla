-------------------------------- MODULE Dict --------------------------------
(***************************************************************************)
(* The hash trie behind std/dict (wasm/src/helpers/dict.rs): persistent    *)
(* insert and remove that copy the path from the root and share the rest,  *)
(* and the transient insert that changes nodes in place when their edit    *)
(* field is the caller's token.  Nodes and arrays are heap objects with an *)
(* identity, because sharing is what can go wrong.                         *)
(***************************************************************************)
EXTENDS Integers, Sequences, SequencesExt, FiniteSets

CONSTANTS Regs,        \* program variables that hold a dictionary
          Keys, Vals,
          HashOf,      \* __hash of each key
          ChunkBits,   \* 5 in the code
          HashBits,    \* 64 in the code: not a multiple of ChunkBits
          RegOrder,    \* Regs in the order the collector visits them
          Pairs,       \* the lists __dict_from_entries is called with
          DictPlans    \* programs: the operations one uses and on which registers, keys and values

ASSUME DictAssumption ==
    /\ ChunkBits \in Nat \ {0} /\ HashBits \in Nat \ {0}
    /\ HashOf \in [Keys -> 0 .. 2 ^ HashBits - 1]
    /\ ToSet(RegOrder) = Regs
    /\ \A p \in Pairs : p \in Seq(Keys \X Vals)
    /\ \A p \in DictPlans : p.regs \subseteq Regs /\ p.keys \subseteq Keys /\ p.vals \subseteq Vals

VARIABLES
    heap,    \* [nodes, arrs]: the $cnode structs and the $valarray objects
    regs,    \* [Regs -> [root, size]]: the $dict each register refers to
    linear,  \* registers the reuse pass made accumulators of the running loop
    token,   \* the loop's owner token, NoNode outside such a loop
    model,   \* the finite map each register stands for: what std/dict promises
    dictPlan \* [ops, regs, keys, vals] of this program

dictVars == <<heap, regs, linear, token, model, dictPlan>>

NoNode == 0
LoopToken == 1       \* minted by __dict_mint_token
BuilderToken == 2    \* minted inside from_entries, map and filter

EmptyDict == [root |-> NoNode, size |-> 0]
EmptyHeap == [nodes |-> <<>>, arrs |-> <<>>]

----------------------------------------------------------------------------
(* Heap objects *)

Dentry(k, v) == [key |-> k, value |-> v, hash |-> HashOf[k]]

\* an array argument of a new node: one that exists already, or a fresh one
Same(a) == <<"same", a>>
New(s) == <<"new", s>>

Array(h, spec) ==
    IF spec[1] = "same" THEN [h |-> h, ref |-> spec[2]]
    ELSE [h |-> [h EXCEPT !.arrs = Append(@, spec[2])], ref |-> Len(h.arrs) + 1]

build_cnode_t(h, dataMap, nodeMap, entries, children, edit) ==
    LET e == Array(h, entries)
        c == Array(e.h, children)
    IN [h |-> [c.h EXCEPT !.nodes = Append(@, [dataMap |-> dataMap, nodeMap |-> nodeMap,
                  entries |-> e.ref, children |-> c.ref, edit |-> edit])],
        ref |-> Len(h.nodes) + 1]

build_cnode(h, dataMap, nodeMap, entries, children) ==
    build_cnode_t(h, dataMap, nodeMap, entries, children, NoNode)

make_bucket(h, entries) == build_cnode(h, {}, {}, New(entries), New(<<>>))

Entries(h, n) == h.arrs[h.nodes[n].entries]
Children(h, n) == h.arrs[h.nodes[n].children]

\* the array copies: one element replaced, put in, taken out
copy_replace(s, i, x) == ReplaceAt(s, i, x)
splice_insert(s, i, x) == InsertAt(s, i, x)
splice_remove(s, i) == RemoveAt(s, i)

\* bitmaps are sets of chunk numbers
Chunk(hash, shift) == (hash \div 2 ^ shift) % 2 ^ ChunkBits
Index(bits, c) == Cardinality({x \in bits : x < c}) + 1

\* a node with no bit set is read as a flat bucket
IsBucket(h, n) == h.nodes[n].dataMap \cup h.nodes[n].nodeMap = {}

\* the first entry of a bucket with this key, 0 if none
BucketIndex(es, k) == SelectInSeq(es, LAMBDA e : e.key = k)

----------------------------------------------------------------------------
(* The recursive operations on nodes *)

\* an entry that may be absent: <<>> or <<e>>
Absent == <<>>
Some(e) == <<e>>

RECURSIVE CnodeLookup(_, _, _, _)
CnodeLookup(h, n, k, shift) ==
    IF n = NoNode THEN Absent
    ELSE LET node == h.nodes[n]
             es == Entries(h, n)
             c == Chunk(HashOf[k], shift)
         IN CASE IsBucket(h, n) ->
                     LET i == BucketIndex(es, k) IN IF i = 0 THEN Absent ELSE Some(es[i])
              [] ~IsBucket(h, n) /\ c \in node.dataMap ->
                     LET e == es[Index(node.dataMap, c)]
                     IN IF e.hash = HashOf[k] /\ e.key = k THEN Some(e) ELSE Absent
              [] c \in node.nodeMap ->
                     CnodeLookup(h, Children(h, n)[Index(node.nodeMap, c)], k, shift + ChunkBits)
              [] OTHER -> Absent

\* mutant: the two leaves are not put in the order of their chunks
RECURSIVE MutCnodeMerge(_, _, _, _)
MutCnodeMerge(h, a, b, shift) ==
    LET ca == Chunk(a.hash, shift)
        cb == Chunk(b.hash, shift)
    IN IF shift >= HashBits THEN make_bucket(h, <<a, b>>)
       ELSE IF ca = cb
       THEN LET sub == MutCnodeMerge(h, a, b, shift + ChunkBits)
            IN build_cnode(sub.h, {}, {ca}, New(<<>>), New(<<sub.ref>>))
       ELSE build_cnode(h, {ca, cb}, {}, New(<<a, b>>), New(<<>>))

RECURSIVE CnodeMerge(_, _, _, _)
CnodeMerge(h, a, b, shift) ==
    LET ca == Chunk(a.hash, shift)
        cb == Chunk(b.hash, shift)
    IN IF shift >= HashBits THEN make_bucket(h, <<a, b>>)
       ELSE IF ca = cb
       THEN LET sub == CnodeMerge(h, a, b, shift + ChunkBits)
            IN build_cnode(sub.h, {}, {ca}, New(<<>>), New(<<sub.ref>>))
       ELSE build_cnode(h, {ca, cb}, {}, New(IF ca > cb THEN <<b, a>> ELSE <<a, b>>), New(<<>>))

RECURSIVE CnodeInsert(_, _, _, _, _)
CnodeInsert(h, n, k, v, shift) ==
    LET leaf == Dentry(k, v)
        c == Chunk(HashOf[k], shift)
    IN IF n = NoNode THEN build_cnode(h, {c}, {}, New(<<leaf>>), New(<<>>))
    ELSE
    LET node == h.nodes[n]
        es == Entries(h, n)
        cs == Children(h, n)
        di == Index(node.dataMap, c)
        ni == Index(node.nodeMap, c)
        i == BucketIndex(es, k)
    IN IF IsBucket(h, n)
       THEN make_bucket(h, IF i > 0 THEN copy_replace(es, i, leaf) ELSE Append(es, leaf))
       ELSE IF c \in node.dataMap
       THEN IF es[di].key = k
            THEN build_cnode(h, node.dataMap, node.nodeMap,
                             New(copy_replace(es, di, leaf)), Same(node.children))
            ELSE LET sub == CnodeMerge(h, es[di], leaf, shift + ChunkBits)
                 IN build_cnode(sub.h, node.dataMap \ {c}, node.nodeMap \cup {c},
                                New(splice_remove(es, di)), New(splice_insert(cs, ni, sub.ref)))
       ELSE IF c \in node.nodeMap
       THEN LET sub == CnodeInsert(h, cs[ni], k, v, shift + ChunkBits)
            IN build_cnode(sub.h, node.dataMap, node.nodeMap,
                           Same(node.entries), New(copy_replace(cs, ni, sub.ref)))
       ELSE build_cnode(h, node.dataMap \cup {c}, node.nodeMap,
                        New(splice_insert(es, di, leaf)), Same(node.children))

RECURSIVE CnodeRemove(_, _, _, _)
CnodeRemove(h, n, k, shift) ==
    IF n = NoNode THEN [h |-> h, ref |-> NoNode]
    ELSE
    LET node == h.nodes[n]
        es == Entries(h, n)
        cs == Children(h, n)
        c == Chunk(HashOf[k], shift)
        di == Index(node.dataMap, c)
        ni == Index(node.nodeMap, c)
        i == BucketIndex(es, k)
        unchanged == [h |-> h, ref |-> n]
    IN IF IsBucket(h, n)
       THEN IF i = 0 THEN unchanged ELSE make_bucket(h, splice_remove(es, i))
       ELSE IF c \in node.dataMap
       THEN IF es[di].key = k
            THEN build_cnode(h, node.dataMap \ {c}, node.nodeMap,
                             New(splice_remove(es, di)), Same(node.children))
            ELSE unchanged
       ELSE IF c \in node.nodeMap
       THEN LET sub == CnodeRemove(h, cs[ni], k, shift + ChunkBits)
            IN build_cnode(sub.h, node.dataMap, node.nodeMap,
                           Same(node.entries), New(copy_replace(cs, ni, sub.ref)))
       ELSE unchanged

\* every entry below these nodes: a node's own entries first, then its children's
RECURSIVE CnodeCollect(_, _)
CnodeCollect(h, ns) ==
    IF ns = <<>> THEN <<>>
    ELSE Entries(h, Head(ns)) \o CnodeCollect(h, Children(h, Head(ns))) \o CnodeCollect(h, Tail(ns))

RECURSIVE CnodeCount(_, _)
CnodeCount(h, ns) ==
    IF ns = <<>> THEN 0
    ELSE Len(Entries(h, Head(ns))) + CnodeCount(h, Children(h, Head(ns))) + CnodeCount(h, Tail(ns))

\* the root of a $dict as a sequence: empty for null
Root(n) == IF n = NoNode THEN <<>> ELSE <<n>>

----------------------------------------------------------------------------
(* The transient insert *)

\* mutant: the copy shares the arrays of the original
MutOwnedShares(h, n, tok) ==
    LET node == h.nodes[n]
    IN IF node.edit = tok THEN [h |-> h, ref |-> n]
       ELSE build_cnode_t(h, node.dataMap, node.nodeMap,
                          Same(node.entries), Same(node.children), tok)

\* the node itself if the token owns it, else a copy of it and of both arrays
Owned(h, n, tok) ==
    LET node == h.nodes[n]
    IN IF node.edit = tok THEN [h |-> h, ref |-> n]
       ELSE build_cnode_t(h, node.dataMap, node.nodeMap,
                          New(Entries(h, n)), New(Children(h, n)), tok)

\* struct.set of an array field to a fresh array
SetEntries(h, n, s) ==
    LET a == Array(h, New(s)) IN [a.h EXCEPT !.nodes[n].entries = a.ref]
SetChildren(h, n, s) ==
    LET a == Array(h, New(s)) IN [a.h EXCEPT !.nodes[n].children = a.ref]

RECURSIVE CnodeTinsert(_, _, _, _, _, _)
CnodeTinsert(h0, n0, k, v, shift, tok) ==
    LET leaf == Dentry(k, v)
        c == Chunk(HashOf[k], shift)
    IN IF n0 = NoNode THEN build_cnode_t(h0, {c}, {}, New(<<leaf>>), New(<<>>), tok)
    ELSE
    LET own == Owned(h0, n0, tok)
        h == own.h
        n == own.ref
        node == h.nodes[n]
        es == Entries(h, n)
        cs == Children(h, n)
        di == Index(node.dataMap, c)
        ni == Index(node.nodeMap, c)
        i == BucketIndex(es, k)
        Done(g) == [h |-> g, ref |-> n]
    IN IF IsBucket(h, n)
       THEN Done(IF i > 0 THEN [h EXCEPT !.arrs[node.entries][i] = leaf]
                          ELSE SetEntries(h, n, Append(es, leaf)))
       ELSE IF c \in node.dataMap
       THEN IF es[di].key = k
            THEN Done([h EXCEPT !.arrs[node.entries][di] = leaf])
            ELSE LET sub == CnodeMerge(h, es[di], leaf, shift + ChunkBits)
                     g == SetChildren(SetEntries(sub.h, n, splice_remove(es, di)),
                                      n, splice_insert(cs, ni, sub.ref))
                 IN Done([g EXCEPT !.nodes[n].dataMap = @ \ {c}, !.nodes[n].nodeMap = @ \cup {c}])
       ELSE IF c \in node.nodeMap
       THEN LET sub == CnodeTinsert(h, cs[ni], k, v, shift + ChunkBits, tok)
            IN Done([sub.h EXCEPT !.arrs[node.children][ni] = sub.ref])
       ELSE Done([SetEntries(h, n, splice_insert(es, di, leaf)) EXCEPT !.nodes[n].dataMap = @ \cup {c}])

\* tinsert of each pair in turn
RECURSIVE TinsertAll(_, _, _)
TinsertAll(h, root, pairs) ==
    IF pairs = <<>> THEN [h |-> h, ref |-> root]
    ELSE LET p == Head(pairs)
             new == CnodeTinsert(h, root, p[1], p[2], 0, BuilderToken)
         IN TinsertAll(new.h, new.ref, Tail(pairs))

----------------------------------------------------------------------------
(* The garbage collector: drop what no register reaches and number the rest *)
(* in the order it is reached.  A token no one holds any more compares      *)
(* equal to no later token, so it is as good as null.                       *)

RECURSIVE Preorder(_, _, _)
RECURSIVE PreorderAll(_, _, _)
Preorder(h, n, seen) ==
    IF n = NoNode \/ \E i \in DOMAIN seen : seen[i] = n THEN seen
    ELSE PreorderAll(h, Children(h, n), Append(seen, n))
PreorderAll(h, ns, seen) ==
    IF ns = <<>> THEN seen ELSE PreorderAll(h, Tail(ns), Preorder(h, Head(ns), seen))

\* the arrays of the nodes, each once, in the order the nodes refer to them
RECURSIVE ArraysOf(_, _, _)
ArraysOf(h, ns, seen) ==
    IF ns = <<>> THEN seen
    ELSE LET Add(s, a) == IF \E i \in DOMAIN s : s[i] = a THEN s ELSE Append(s, a)
             n == h.nodes[Head(ns)]
         IN ArraysOf(h, Tail(ns), Add(Add(seen, n.entries), n.children))

Place(s, x) == CHOOSE i \in DOMAIN s : s[i] = x

\* the \E over singletons make TLC compute each part once
Collect(h0, rs0, tok) ==
    \E h \in {h0}, rs \in {rs0} :
    \E live \in {PreorderAll(h, [i \in 1 .. Len(RegOrder) |-> rs[RegOrder[i]].root], <<>>)} :
    \E used \in {ArraysOf(h, live, <<>>)} :
    LET IsChildren(a) == \E i \in DOMAIN live : h.nodes[live[i]].children = a
    IN /\ heap' = [nodes |-> [i \in DOMAIN live |->
                      [h.nodes[live[i]] EXCEPT !.entries = Place(used, @), !.children = Place(used, @),
                                               !.edit = IF @ = tok THEN @ ELSE NoNode]],
                   arrs |-> [i \in DOMAIN used |->
                      IF IsChildren(used[i])
                      THEN [j \in DOMAIN h.arrs[used[i]] |-> Place(live, h.arrs[used[i]][j])]
                      ELSE h.arrs[used[i]]]]
       /\ regs' = [r \in Regs |->
                      [rs[r] EXCEPT !.root = IF @ = NoNode THEN NoNode ELSE Place(live, @)]]

----------------------------------------------------------------------------
(* Finite maps: what the operations mean to a program *)

NoKeys == [k \in {} |-> NoNode]
With(m, k, v) == [x \in DOMAIN m \cup {k} |-> IF x = k THEN v ELSE m[x]]
Only(m, ks) == [x \in DOMAIN m \cap ks |-> m[x]]
Mapped(m, f) == [x \in DOMAIN m |-> f[m[x]]]

RECURSIVE FromPairs(_)
FromPairs(p) == IF p = <<>> THEN NoKeys
                ELSE LET l == Last(p) IN With(FromPairs(Front(p)), l[1], l[2])

----------------------------------------------------------------------------
(* The operations of std/dict *)

Find(r, k) == CnodeLookup(heap, regs[r].root, k, 0)

Size(r) == regs[r].size

EntriesOf(r) == CnodeCollect(heap, Root(regs[r].root))

DictEq(a, b) ==
    /\ Size(a) = Size(b)
    /\ \A i \in DOMAIN EntriesOf(a) :
          LET e == EntriesOf(a)[i]
              eb == Find(b, e.key)
          IN eb # Absent /\ e.value = eb[1].value

\* __dict_update calls f with the present value; this f is any function of it
Updates == [Vals \cup {NoNode} -> Vals]

DictInit ==
    /\ heap = EmptyHeap
    /\ regs = [r \in Regs |-> EmptyDict]
    /\ linear = {}
    /\ token = NoNode
    /\ model = [r \in Regs |-> NoKeys]
    /\ dictPlan \in DictPlans

\* a register outside the loop's accumulators, or any when no such loop runs
Free(r) == r \notin linear

\* register s now refers to a new $dict, which should hold the map m
Assign(s, h, root, size, m) ==
    /\ Collect(h, [regs EXCEPT ![s] = [root |-> root, size |-> size]], token)
    /\ model' = [model EXCEPT ![s] = m]
    /\ UNCHANGED <<linear, token, dictPlan>>

Delta(r, k) == IF Find(r, k) = Absent THEN 1 ELSE 0

dict_insert(r, s, k, v) ==
    /\ "insert" \in dictPlan.ops /\ Free(r) /\ Free(s)
    /\ LET new == CnodeInsert(heap, regs[r].root, k, v, 0)
       IN Assign(s, new.h, new.ref, Size(r) + Delta(r, k), With(model[r], k, v))

dict_update(r, s, k, f) ==
    /\ "update" \in dictPlan.ops /\ Free(r) /\ Free(s)
    /\ LET found == Find(r, k)
           new == CnodeInsert(heap, regs[r].root, k,
                              f[IF found = Absent THEN NoNode ELSE found[1].value], 0)
       IN Assign(s, new.h, new.ref, Size(r) + Delta(r, k),
                 With(model[r], k, f[IF k \in DOMAIN model[r] THEN model[r][k] ELSE NoNode]))

dict_remove(r, s, k) ==
    /\ "remove" \in dictPlan.ops /\ Free(r) /\ Free(s)
    /\ LET new == CnodeRemove(heap, regs[r].root, k, 0)
       IN IF Find(r, k) = Absent THEN Assign(s, heap, regs[r].root, Size(r), model[r])
          ELSE Assign(s, new.h, new.ref, Size(r) - 1, Only(model[r], Keys \ {k}))

dict_clear(s) ==
    /\ "clear" \in dictPlan.ops /\ Free(s)
    /\ Assign(s, heap, NoNode, 0, NoKeys)

dict_from_entries(s, pairs) ==
    /\ "build" \in dictPlan.ops /\ Free(s)
    /\ LET new == TinsertAll(heap, NoNode, pairs)
       IN Assign(s, new.h, new.ref, CnodeCount(new.h, Root(new.ref)), FromPairs(pairs))

\* borrows, so an accumulator may be their argument
dict_map(r, s, f) ==
    /\ "build" \in dictPlan.ops /\ Free(s)
    /\ LET es == EntriesOf(r)
           new == TinsertAll(heap, NoNode, [i \in DOMAIN es |-> <<es[i].key, f[es[i].value]>>])
       IN Assign(s, new.h, new.ref, Len(es), Mapped(model[r], f))

dict_filter(r, s, keep) ==
    /\ "build" \in dictPlan.ops /\ Free(s)
    /\ LET es == SelectSeq(EntriesOf(r), LAMBDA e : e.key \in keep)
           new == TinsertAll(heap, NoNode, [i \in DOMAIN es |-> <<es[i].key, es[i].value>>])
       IN Assign(s, new.h, new.ref, Len(es), Only(model[r], keep))

\* a variable is copied: both refer to the same $dict
Copy(r, s) ==
    /\ "copy" \in dictPlan.ops /\ Free(r) /\ Free(s) /\ r # s
    /\ Assign(s, heap, regs[r].root, regs[r].size, model[r])

\* a loop the reuse pass rewrote starts: its parameters are ordinary
\* dictionaries that others may share, its token is fresh
dict_mint_token(acc) ==
    /\ "loop" \in dictPlan.ops /\ token = NoNode /\ acc # {}
    /\ token' = LoopToken /\ linear' = acc
    /\ UNCHANGED <<heap, regs, model, dictPlan>>

\* the argument is dead afterwards: the result replaces it in its register
dict_insert_into(r, k, v) ==
    /\ r \in linear
    /\ LET new == CnodeTinsert(heap, regs[r].root, k, v, 0, token)
       IN Assign(r, new.h, new.ref, Size(r) + Delta(r, k), With(model[r], k, v))

\* an accumulator may also continue with some other dictionary
Reseed(r, s) ==
    /\ "loop" \in dictPlan.ops /\ Free(r) /\ s \in linear
    /\ Assign(s, heap, regs[r].root, regs[r].size, model[r])

\* the loop returns: its token is gone and its results are ordinary values
EndLoop ==
    /\ token # NoNode
    /\ token' = NoNode /\ linear' = {}
    /\ Collect(heap, regs, NoNode)
    /\ UNCHANGED <<model, dictPlan>>

DictNext ==
    \/ \E r, s \in dictPlan.regs, k \in dictPlan.keys :
          \/ \E v \in dictPlan.vals : dict_insert(r, s, k, v)
          \/ \E f \in Updates : dict_update(r, s, k, f)
          \/ dict_remove(r, s, k)
    \/ \E s \in dictPlan.regs : dict_clear(s)
    \/ \E s \in dictPlan.regs, p \in Pairs : dict_from_entries(s, p)
    \/ \E r, s \in dictPlan.regs, f \in [Vals -> dictPlan.vals] : dict_map(r, s, f)
    \/ \E r, s \in dictPlan.regs, keep \in SUBSET dictPlan.keys : dict_filter(r, s, keep)
    \/ \E r, s \in dictPlan.regs : Copy(r, s) \/ Reseed(r, s)
    \/ \E acc \in SUBSET dictPlan.regs : dict_mint_token(acc)
    \/ \E r \in linear, k \in dictPlan.keys, v \in dictPlan.vals : dict_insert_into(r, k, v)
    \/ EndLoop

DictSpec == DictInit /\ [][DictNext]_dictVars

----------------------------------------------------------------------------
(* Properties *)

\* a register's lookups find exactly what its own history put there
LookupsAgree ==
    \A r \in Regs, k \in Keys :
        IF k \in DOMAIN model[r]
        THEN Find(r, k) = Some(Dentry(k, model[r][k]))
        ELSE Find(r, k) = Absent

\* each key present is listed once, under the value a lookup finds, and the
\* cached size counts them
EntriesAgree ==
    \A r \in Regs :
        LET es == EntriesOf(r)
        IN /\ Size(r) = Len(es) /\ Len(es) = Cardinality({k \in Keys : Find(r, k) # Absent})
           /\ \A i \in DOMAIN es : Find(r, es[i].key) = Some(es[i])

\* __dict_eq compares contents only, whatever histories shaped the two tries
EqIsExtensional ==
    \A r, s \in Regs : DictEq(r, s) <=> model[r] = model[s]

\* a node that a token owns is reached by one path from one register only, and
\* shares neither of its arrays, so changing it in place is seen nowhere else
OwnedUnshared ==
    \A n \in DOMAIN heap.nodes : heap.nodes[n].edit # NoNode =>
        LET Uses(m) == {i \in DOMAIN Children(heap, m) : Children(heap, m)[i] = n}
        IN /\ Cardinality({r \in Regs : regs[r].root = n})
              + Cardinality({<<m, i>> \in (DOMAIN heap.nodes) \X (1 .. 2 ^ ChunkBits) : i \in Uses(m)}) = 1
           /\ \A m \in DOMAIN heap.nodes \ {n} :
                 {heap.nodes[m].entries, heap.nodes[m].children}
                     \cap {heap.nodes[n].entries, heap.nodes[n].children} = {}

\* Dictionaries are values: whatever transient and persistent operations were
\* applied to dictionaries that share its nodes, lookups, entries, size and
\* equality of each follow its own history, and a node that an insert_into loop
\* may change in place (the token comparison) is shared with no one.
DictsAreValues == LookupsAgree /\ EntriesAgree /\ EqIsExtensional /\ OwnedUnshared
=============================================================================

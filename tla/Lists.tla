------------------------------- MODULE Lists -------------------------------
(***************************************************************************)
(* Lists at run time (wasm/src/helpers/list.rs and the list cases of       *)
(* wasm/src/emit.rs): a $list is a struct of a backing array and a logical *)
(* length; list.push, list.pop and list.set change it in place, and every  *)
(* other operation promises a fresh list.  Structs and arrays are heap     *)
(* objects with an identity, because sharing is what can go wrong.         *)
(***************************************************************************)
EXTENDS Integers, Sequences, SequencesExt, FiniteSetsExt

CONSTANTS ListVars,      \* program variables that hold a list
          Elems,         \* element values
          MaxLen,        \* bound on the length of a list
          ListPlans      \* sets of operations, one of which a program uses

VARIABLES
    arrays,    \* the $valarray objects, by identity
    lists,     \* the $list structs, by identity: [elems, len]
    binds,     \* [ListVars -> identity of a $list]
    contents,  \* what the list of each identity should hold: std/list's promise
    listPlan   \* the operations of this program

listVars == <<arrays, lists, binds, contents, listPlan>>

NullElem == 0    \* a slot that was never written: no element value

Elements(l) == SubSeq(arrays[lists[l].elems], 1, lists[l].len)

Capacity(l) == Len(arrays[lists[l].elems])

\* identities are recycled: an object no variable reaches is collected
FreshId(used) == CHOOSE i \in 1 .. Cardinality(used) + 1 : i \notin used

LiveLists(b) == {b[x] : x \in ListVars}

\* the heap a step leaves behind, without what no variable reaches
ListCollect(a, l, b, c) ==
    LET live == LiveLists(b)
        held == {l[i].elems : i \in live}
    IN /\ binds' = b
       /\ lists' = [i \in live |-> l[i]]
       /\ contents' = [i \in live |-> c[i]]
       /\ arrays' = [i \in held |-> a[i]]

Extend(f, i, v) == [j \in DOMAIN f \cup {i} |-> IF j = i THEN v ELSE f[j]]

\* x is bound to a new struct over the array arr, which holds elems
mk_list(x, a, arr, elems) ==
    LET i == FreshId(DOMAIN lists)
    IN ListCollect(a, Extend(lists, i, [elems |-> arr, len |-> Len(a[arr])]),
                   [binds EXCEPT ![x] = i], Extend(contents, i, elems))

FreshList(x, elems) ==
    LET arr == FreshId(DOMAIN arrays) IN mk_list(x, Extend(arrays, arr, elems), arr, elems)

----------------------------------------------------------------------------
(* MakeList: plain elements and spreads.  The segments are concatenated   *)
(* into a fresh array, except that a single segment is used as it is.      *)

Spread(y) == <<"spread", y>>
Elem(v) == <<"elem", v>>

\* mutant: the backing array up to its capacity, spare slots included
Mutemit_list_elems(y) == arrays[lists[binds[y]].elems]

emit_list_elems(y) == Elements(binds[y])

Segment(item) == IF item[1] = "spread" THEN emit_list_elems(item[2]) ELSE <<item[2]>>

Meant(item) == IF item[1] = "spread" THEN contents[binds[item[2]]] ELSE <<item[2]>>

arrconcat(segments) == FlattenSeq(segments)

make_list(x, items) ==
    LET flat == arrconcat([i \in DOMAIN items |-> Segment(items[i])])
        meant == FlattenSeq([i \in DOMAIN items |-> Meant(items[i])])
        only == lists[binds[items[1][2]]]
        fresh == FreshId(DOMAIN arrays)
    IN /\ Len(meant) <= MaxLen
       /\ IF /\ Len(items) = 1 /\ items[1][1] = "spread"
             /\ only.len = Len(arrays[only.elems])
          THEN mk_list(x, arrays, only.elems, meant)
          ELSE mk_list(x, Extend(arrays, fresh, flat), fresh, meant)

SpreadForms(y, z, v) ==
    {<<Spread(y), Elem(v)>>, <<Elem(v), Spread(y)>>, <<Spread(y), Spread(z)>>}

----------------------------------------------------------------------------
(* The operations of std/list that the runtime implements *)

\* mutant: the array of the list the variable is bound to is full one push later
MutFull(l) == lists[l].len > Capacity(l)

Full(l) == lists[l].len >= Capacity(l)

Grown(l) ==
    LET a == arrays[lists[l].elems]
        cap == IF Len(a) = 0 THEN 4 ELSE 2 * Len(a)
    IN [i \in 1 .. cap |-> IF i <= lists[l].len THEN a[i] ELSE NullElem]

list_push(x, v) ==
    LET l == binds[x]
        full == Full(l)
        arr == IF full THEN FreshId(DOMAIN arrays) ELSE lists[l].elems
        backing == IF full THEN Grown(l) ELSE arrays[arr]
    IN /\ "push" \in listPlan /\ lists[l].len < MaxLen
       /\ ListCollect(Extend(arrays, arr, [backing EXCEPT ![lists[l].len + 1] = v]),
                      [lists EXCEPT ![l] = [elems |-> arr, len |-> @.len + 1]],
                      binds, [contents EXCEPT ![l] = Append(@, v)])
       /\ UNCHANGED listPlan

list_pop(x) ==
    LET l == binds[x]
    IN /\ "pop" \in listPlan /\ lists[l].len > 0
       /\ ListCollect([arrays EXCEPT ![lists[l].elems][lists[l].len] = NullElem],
                      [lists EXCEPT ![l].len = @ - 1],
                      binds, [contents EXCEPT ![l] = Front(@)])
       /\ UNCHANGED listPlan

list_set(x, i, v) ==
    LET l == binds[x]
    IN /\ "set" \in listPlan /\ i \in 1 .. lists[l].len
       /\ ListCollect([arrays EXCEPT ![lists[l].elems][i] = v], lists,
                      binds, [contents EXCEPT ![l][i] = v])
       /\ UNCHANGED listPlan

\* mutant: the tail is cut at the capacity instead of the length
Mutlist_tail(y, n) == SubSeq(arrays[lists[binds[y]].elems], n + 1, Capacity(binds[y]))

list_tail(y, n) == SubSeq(arrays[lists[binds[y]].elems], n + 1, lists[binds[y]].len)

\* a list pattern [a, .., ...rest] that matched
MatchTail(x, y, n) ==
    /\ "tail" \in listPlan /\ n <= lists[binds[y]].len
    /\ LET arr == FreshId(DOMAIN arrays)
       IN mk_list(x, Extend(arrays, arr, list_tail(y, n)), arr,
                  SubSeq(contents[binds[y]], n + 1, Len(contents[binds[y]])))
    /\ UNCHANGED listPlan

\* list.build n f
list_build(x, n, f) ==
    /\ "build" \in listPlan
    /\ FreshList(x, [i \in 1 .. n |-> f[i]])
    /\ UNCHANGED listPlan

\* the loop of __list_collect: what its buffer holds once n options were taken
Taken(n, f) ==
    LET buf[i \in 0 .. n] ==
          IF i = 0 THEN <<>>
          ELSE IF f[i] = NullElem THEN buf[i - 1] ELSE Append(buf[i - 1], f[i])
    IN buf[n]

\* its over-allocated buffer is trimmed to what was written
list_collect(x, n, f) ==
    /\ "build" \in listPlan
    /\ FreshList(x, Taken(n, f))
    /\ UNCHANGED listPlan

Literal(x, elems) == "push" \in listPlan /\ FreshList(x, elems) /\ UNCHANGED listPlan

\* let x = y: both variables refer to the same struct
AliasList(x, y) ==
    /\ "alias" \in listPlan /\ binds[x] # binds[y]
    /\ ListCollect(arrays, lists, [binds EXCEPT ![x] = binds[y]], contents)
    /\ UNCHANGED listPlan

CloneList(x, y) == "clone" \in listPlan /\ make_list(x, <<Spread(y)>>) /\ UNCHANGED listPlan

JoinLists(x, y, z, v) ==
    /\ "join" \in listPlan
    /\ \E items \in SpreadForms(y, z, v) : make_list(x, items)
    /\ UNCHANGED listPlan

ListInit ==
    /\ listPlan \in ListPlans
    /\ binds = [x \in ListVars |-> 1]
    /\ lists = [i \in {1} |-> [elems |-> 1, len |-> 0]]
    /\ arrays = [i \in {1} |-> <<>>]
    /\ contents = [i \in {1} |-> <<>>]

ListNext ==
    \/ \E x \in ListVars, v \in Elems : list_push(x, v)
    \/ \E x \in ListVars : list_pop(x) \/ Literal(x, <<>>)
    \/ \E x \in ListVars, v, w \in Elems : Literal(x, <<v, w>>)
    \/ \E x \in ListVars, i \in 1 .. MaxLen, v \in Elems : list_set(x, i, v)
    \/ \E x, y \in ListVars, n \in 0 .. MaxLen : MatchTail(x, y, n)
    \/ \E x \in ListVars, f \in [1 .. 2 -> Elems] : list_build(x, 2, f)
    \/ \E x \in ListVars, f \in [1 .. 2 -> Elems \cup {NullElem}] : list_collect(x, 2, f)
    \/ \E x, y \in ListVars : AliasList(x, y) \/ CloneList(x, y)
    \/ \E x, y, z \in ListVars, v \in Elems : JoinLists(x, y, z, v)

ListSpec == ListInit /\ [][ListNext]_listVars

----------------------------------------------------------------------------

\* "A list's storage is shared" only between variables bound to the same list:
\* a list holds what its own pushes, pops and sets made of it, whatever was
\* done to lists it was spread, matched or built from or that were made of it.
ListsAreValues == \A x \in ListVars : Elements(binds[x]) = contents[binds[x]]
=============================================================================

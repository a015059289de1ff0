------------------------------- MODULE Types -------------------------------
(***************************************************************************)
(* Types and substitutions (compiler/src/types) and one step of the        *)
(* solver of type equations (unify_eq_constraints of analyzer.rs).         *)
(*                                                                         *)
(* A type is <<kind, labels, args, tail>>: labels name the fields of a     *)
(* record or the known places of an open tuple, a tail is the number of a  *)
(* row variable or 0, and a type variable holds its number as its tail.    *)
(* A substitution is [types, rows]; a row solution is labels, args, tail.  *)
(***************************************************************************)
EXTENDS Integers, Sequences, FiniteSets, SequencesExt, FiniteSetsExt

Con(k, args)         == <<k, <<>>, args, 0>>
Var(n)               == <<"var", <<>>, <<>>, n>>
FunOf(params, ret)   == Con("fun", Append(params, ret))
Record(ls, ts, r)    == <<"record", ls, ts, r>>
Partial(ls, ts, r)   == <<"partial", ls, ts, r>>
IsVar(ty)            == ty[1] = "var"
Row(ls, ts, r)       == [ls |-> ls, ts |-> ts, tail |-> r]
Empty                == [types |-> <<>>, rows |-> <<>>]

\* A closed open tuple without gaps is a tuple.
partial_tuple(ls, ts, r) ==
  IF r = 0 /\ ls # <<>> /\ ToSet(ls) = 0..(Len(ls) - 1)
  THEN Con("tuple", [i \in DOMAIN ls |-> ts[CHOOSE j \in DOMAIN ls : ls[j] = i - 1]])
  ELSE Partial(ls, ts, r)

RECURSIVE Chase(_, _)
\* The fields a row has once its tail is followed through the solutions.
Chase(rows, row) ==
  IF row.tail \in DOMAIN rows
  THEN LET s == rows[row.tail] IN Chase(rows, Row(row.ls \o s.ls, row.ts \o s.ts, s.tail))
  ELSE row

Rebuild(k, ls, ts, r) == IF k = "partial" THEN partial_tuple(ls, ts, r) ELSE <<k, ls, ts, r>>

RECURSIVE apply_to_type(_, _), deep_resolve(_, _), occurs_in(_, _, _), free_vars(_), free_row_vars(_)

\* A variable is looked up once: the solutions are already resolved.
apply_to_type(s, ty) ==
  IF IsVar(ty) THEN (IF ty[4] \in DOMAIN s.types THEN s.types[ty[4]] ELSE ty)
  ELSE LET c == Chase(s.rows, Row(ty[2], ty[3], ty[4]))
       IN  Rebuild(ty[1], c.ls, [i \in DOMAIN c.ts |-> apply_to_type(s, c.ts[i])], c.tail)

\* While solving, a variable is followed through the chain of bindings.
deep_resolve(s, ty) ==
  IF IsVar(ty) THEN (IF ty[4] \in DOMAIN s.types THEN deep_resolve(s, s.types[ty[4]]) ELSE ty)
  ELSE LET c == Chase(s.rows, Row(ty[2], ty[3], ty[4]))
       IN  Rebuild(ty[1], c.ls, [i \in DOMAIN c.ts |-> deep_resolve(s, c.ts[i])], c.tail)

\* Tails are not looked at.
occurs_in(types, v, ty) ==
  IF IsVar(ty) THEN (IF ty[4] \in DOMAIN types THEN occurs_in(types, v, types[ty[4]]) ELSE ty[4] = v)
  ELSE \E i \in DOMAIN ty[3] : occurs_in(types, v, ty[3][i])

free_vars(ty) == IF IsVar(ty) THEN {ty[4]} ELSE UNION {free_vars(ty[3][i]) : i \in DOMAIN ty[3]}

free_row_vars(ty) ==
  IF IsVar(ty) THEN {}
  ELSE UNION {free_row_vars(ty[3][i]) : i \in DOMAIN ty[3]} \cup (IF ty[4] = 0 THEN {} ELSE {ty[4]})

RECURSIVE resolve_head(_, _)
resolve_head(types, ty) ==
  IF IsVar(ty) /\ ty[4] \in DOMAIN types THEN resolve_head(types, types[ty[4]]) ELSE ty

apply_to_constraint(s, c) ==
  CASE c[1] = "eq"               -> <<"eq", apply_to_type(s, c[2]), apply_to_type(s, c[3])>>
    [] c[1] \in {"gen", "inst", "class"} -> <<c[1], c[2], apply_to_type(s, c[3])>>
apply_to_constraints(s, cs) == [i \in DOMAIN cs |-> apply_to_constraint(s, cs[i])]

\* A row of the first substitution under the second: its fields, and one
\* step of its tail.
ComposeRow(row, s) ==
  LET done(ts) == [i \in DOMAIN ts |-> apply_to_type(s, ts[i])]
  IN  IF row.tail \in DOMAIN s.rows
      THEN LET t == s.rows[row.tail] IN Row(row.ls \o t.ls, done(row.ts) \o done(t.ts), t.tail)
      ELSE Row(row.ls, done(row.ts), row.tail)

\* mutant: the types of the first substitution are kept as they are.
Mutcompose(s1, s2) ==
  [types |-> s2.types @@ s1.types,
   rows  |-> [r \in DOMAIN s1.rows \cup DOMAIN s2.rows |->
                IF r \in DOMAIN s1.rows THEN ComposeRow(s1.rows[r], s2) ELSE s2.rows[r]]]
compose(s1, s2) ==
  [types |-> [v \in DOMAIN s1.types \cup DOMAIN s2.types |->
                IF v \in DOMAIN s2.types THEN s2.types[v] ELSE apply_to_type(s2, s1.types[v])],
   rows  |-> [r \in DOMAIN s1.rows \cup DOMAIN s2.rows |->
                IF r \in DOMAIN s1.rows THEN ComposeRow(s1.rows[r], s2) ELSE s2.rows[r]]]

\* The chained bindings as a substitution (the end of unify_eq_constraints).
Normalized(s) ==
  [types |-> [v \in DOMAIN s.types |-> deep_resolve(s, s.types[v])],
   rows  |-> [r \in DOMAIN s.rows |->
                Row(s.rows[r].ls, [i \in DOMAIN s.rows[r].ts |-> deep_resolve(s, s.rows[r].ts[i])], s.rows[r].tail)]]

-----------------------------------------------------------------------------
(* One equation.  An outcome is the equations it leaves, first one first,  *)
(* the bindings, the next free number and whether it was sound.            *)

Outcome(push, s, n, ok) == [push |-> push, s |-> s, n |-> n, ok |-> ok]
\* The last field of that name counts.
At(row, l)        == row.ts[SelectLastInSeq(row.ls, LAMBDA x : x = l)]
Only(row, other)  == LET keep == SelectSeq(Zip(row.ls, row.ts), LAMBDA p : p[1] \notin ToSet(other.ls))
                     IN  [ls |-> [i \in DOMAIN keep |-> keep[i][1]], ts |-> [i \in DOMAIN keep |-> keep[i][2]]]
\* mutant: a row that takes fields is closed.
MutBind(s, r, row, tail) == [s EXCEPT !.rows = (r :> Row(row.ls, row.ts, 0)) @@ @]
Bind(s, r, row, tail) == [s EXCEPT !.rows = (r :> Row(row.ls, row.ts, tail)) @@ @]

\* Two open or closed rows.  The shared fields are left in the order of a
\* hash map, which is any order.
MergeRows(f1, f2, s, n) ==
  LET only1  == Only(f1, f2)
      only2  == Only(f2, f1)
      shared == {l \in ToSet(f1.ls) : l \in ToSet(f2.ls)}
      orders == {[i \in DOMAIN o |-> <<At(f1, o[i]), At(f2, o[i])>>] : o \in SetToSeqs(shared)}
      out(ok, t, m) == IF ok THEN {Outcome(p, t, m, TRUE) : p \in orders} ELSE {Outcome(<<>>, s, n, FALSE)}
  IN  CASE f1.tail = 0 /\ f2.tail = 0 -> out(only1.ls = <<>> /\ only2.ls = <<>>, s, n)
        [] f1.tail = 0 /\ f2.tail # 0 -> out(only2.ls = <<>>, Bind(s, f2.tail, only1, 0), n)
        [] f1.tail # 0 /\ f2.tail = 0 -> out(only1.ls = <<>>, Bind(s, f1.tail, only2, 0), n)
        [] f1.tail # 0 /\ f1.tail = f2.tail -> out(only1.ls = <<>> /\ only2.ls = <<>>, s, n)
        [] OTHER -> out(TRUE, Bind(Bind(s, f1.tail, only2, n), f2.tail, only1, n), n + 1)

unify_records_worklist(a, b, s, n) == MergeRows(Row(a[2], a[3], a[4]), Row(b[2], b[3], b[4]), s, n)
unify_tuples_worklist(a, b, s, n)  == MergeRows(Row(a[2], a[3], a[4]), Row(b[2], b[3], b[4]), s, n)

Pairwise(a, b, s, n) ==
  {IF Len(a[3]) = Len(b[3]) THEN Outcome(Zip(a[3], b[3]), s, n, TRUE) ELSE Outcome(<<>>, s, n, FALSE)}

\* A tuple against an open one: every known place must exist, and the tail
\* takes the others.
CloseTuple(whole, open, s, n) ==
  LET inside == SelectSeq(open[2], LAMBDA l : l < Len(whole[3]))
      rest   == SetToSeq({i \in 0..(Len(whole[3]) - 1) : i \notin ToSet(open[2])})
      ok     == inside = open[2]
      row    == Row(open[2], open[3], 0)
  IN  {Outcome(Reverse([i \in DOMAIN inside |-> <<whole[3][inside[i] + 1], At(row, inside[i])>>]),
               IF ok /\ open[4] # 0 THEN Bind(s, open[4], [ls |-> rest, ts |-> [i \in DOMAIN rest |-> whole[3][rest[i] + 1]]], 0) ELSE s,
               n, ok)}

UnifyTuples(a, b, s, n) ==
  LET ra == deep_resolve(s, a)
      rb == deep_resolve(s, b)
  IN  CASE ra[1] = "tuple" /\ rb[1] = "tuple"     -> Pairwise(ra, rb, s, n)
        [] ra[1] = "tuple" /\ rb[1] = "partial"   -> CloseTuple(ra, rb, s, n)
        [] ra[1] = "partial" /\ rb[1] = "tuple"   -> CloseTuple(rb, ra, s, n)
        [] ra[1] = "partial" /\ rb[1] = "partial" -> unify_tuples_worklist(ra, rb, s, n)

BindVar(v, ty, s, n) ==
  {IF occurs_in(s.types, v, ty) THEN Outcome(<<>>, s, n, FALSE)
   ELSE Outcome(<<>>, [s EXCEPT !.types = (v :> ty) @@ @], n, TRUE)}

\* The outcomes of one turn of the loop of unify_eq_constraints.
UnifyPair(x, y, s, n) ==
  LET a == resolve_head(s.types, x)
      b == resolve_head(s.types, y)
  IN  CASE IsVar(a) /\ IsVar(b) /\ a = b      -> {Outcome(<<>>, s, n, TRUE)}
        [] IsVar(a) /\ a # b                  -> BindVar(a[4], b, s, n)
        [] ~IsVar(a) /\ IsVar(b)              -> BindVar(b[4], a, s, n)
        [] {a[1], b[1]} \in {{"partial"}, {"partial", "tuple"}} -> UnifyTuples(a, b, s, n)
        [] a[1] = "record" /\ b[1] = "record" -> unify_records_worklist(deep_resolve(s, a), deep_resolve(s, b), s, n)
        [] ~IsVar(a) /\ a[1] = b[1] /\ a[1] \notin {"record", "partial"} -> Pairwise(a, b, s, n)
        [] OTHER                              -> {Outcome(<<>>, s, n, FALSE)}

\* The variables and rows a bound variable or row stands on.
Under(s, v) ==
  IF v \in DOMAIN s.types THEN free_vars(s.types[v]) \cup free_row_vars(s.types[v])
  ELSE IF v \in DOMAIN s.rows
       THEN UNION {free_vars(t) \cup free_row_vars(t) : t \in ToSet(s.rows[v].ts)} \cup {s.rows[v].tail}
       ELSE {}
RECURSIVE Reach(_, _)
Reach(s, S) == LET T == S \cup UNION {Under(s, v) : v \in S} IN IF T = S THEN S ELSE Reach(s, T)

\* A row that stands on itself: no check looks for it (occurs_in ignores
\* tails), and following it (deep_resolve) does not end.
Endless(s) == \E r \in DOMAIN s.rows : r \in Reach(s, Under(s, r))
=============================================================================

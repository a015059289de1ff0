------------------------------- MODULE Reuse -------------------------------
(***************************************************************************)
(* In-place reuse (ir/src/reuse.rs): a loop that carries a dictionary it   *)
(* only inserts into, or a list it only appends to, mutates it instead of  *)
(* copying it.  Every test here is about the text of the function; what    *)
(* goes wrong when one is too weak is a value changing under a reader.     *)
(***************************************************************************)
EXTENDS IR

\* How a dict builtin treats its dictionary, and which argument that is.
dict_arg(tag) ==
  CASE tag = "dict-insert"                                        -> [at |-> 2, use |-> "insert"]
    [] tag \in {"dict-remove", "dict-update"}                     -> [at |-> 2, use |-> "other"]
    [] tag = "dict-lookup"                                        -> [at |-> 2, use |-> "borrow"]
    [] tag \in {"dict-size", "dict-entries", "dict-map", "dict-filter", "dict-clear"} -> [at |-> 1, use |-> "borrow"]
    [] OTHER                                                      -> [at |-> 0, use |-> "none"]

Positions(rv, d) == {i \in DOMAIN rv[3] : rv[3][i] = Var(d)}
RvalueOf(s) == IF s[1] = "let" THEN s[3] ELSE s[2]
HasRvalue(s) == s[1] \in {"let", "discard"}
All(f) == ToSet(Stmts(f.body))

\* How often each variable is read.
read_count(f, v) ==
  LET n(s) == Cardinality({i \in DOMAIN Operands(s) : Operands(s)[i] = Var(v)})
      ss   == Stmts(f.body)
  IN  FoldLeft(LAMBDA x, s : x + n(s), 0, ss)

\* The variable that v's only read copies it to, or -1.
copy_target(f, v) ==
  LET copies == SelectSeq(Stmts(f.body), LAMBDA s : s[1] = "let" /\ s[3] = Use(Var(v)))
  IN  IF read_count(f, v) = 1 /\ copies # <<>> THEN Head(copies)[2] ELSE -1

result_flows_to_d(f, r, d) ==
  LET x == copy_target(f, r) IN x = d \/ (x # -1 /\ copy_target(f, x) = d)

assigned_in_block(b) == {s[2] : s \in {x \in ToSet(Stmts(b)) : x[1] = "let"}}
\* Does the statement itself read d?  Its nested blocks are not looked at.
stmt_reads_var(s, d) == d \in Reads(s)

\* Is every consume of d in the block followed, in the same block, by an
\* assignment to d with no read of d before it?
Mutdead_after(b, i, d) == \E j \in (i + 1)..Len(b) : b[j][1] = "let" /\ b[j][2] = d   \* mutant: reads in between ignored
dead_after(b, i, d) ==
  \E j \in (i + 1)..Len(b) :
    /\ b[j][1] = "let" /\ b[j][2] = d
    /\ \A k \in (i + 1)..(j - 1) : ~(b[k][1] = "let" /\ b[k][2] = d) /\ ~stmt_reads_var(b[k], d)

-----------------------------------------------------------------------------
(* Dictionaries. *)

is_insert_consume(s, d) == IsLet(s, "builtin") /\ s[3][2][1] = "dict-insert" /\ s[3][3][2] = Var(d)

\* May this use of d keep or share it?  A borrow and an insert may not, nor
\* may the copy into the function's result.
Escapes(s, d, result) ==
  CASE HasRvalue(s) ->
         LET rv == RvalueOf(s) IN
         CASE rv[1] = "use" -> Positions(rv, d) # {} /\ ~(s[1] = "let" /\ s[2] = result)
           [] rv[1] = "builtin" /\ dict_arg(rv[2][1]).at # 0 ->
                \/ Positions(rv, d) \ {dict_arg(rv[2][1]).at} # {}
                \/ Positions(rv, d) # {} /\ dict_arg(rv[2][1]).use = "other"
           [] OTHER -> Positions(rv, d) # {}
    [] s[1] \in {"defer", "if", "match"} -> s[2] = Var(d)
    [] OTHER -> FALSE

RECURSIVE dead_after_ok(_, _)
dead_after_ok(b, d) ==
  \A i \in DOMAIN b :
    /\ is_insert_consume(b[i], d) => dead_after(b, i, d)
    /\ \A j \in DOMAIN Blocks(b[i]) : dead_after_ok(Blocks(b[i])[j], d)

eligibility(f, d, result, body) ==
  LET consumes == {s \in ToSet(Stmts(body)) : is_insert_consume(s, d)}
  IN  /\ \A s \in All(f) : ~Escapes(s, d, result)
      /\ \E s \in All(f) : HasRvalue(s) /\ RvalueOf(s)[1] = "builtin" /\ RvalueOf(s)[2][1] = "dict-insert"
                           /\ RvalueOf(s)[3][2] = Var(d)
      /\ dead_after_ok(body, d)
      /\ \A s \in consumes : result_flows_to_d(f, s[2], d)

RECURSIVE rewrite_inserts(_, _, _)
rewrite_inserts(b, eligible, token) ==
  [i \in DOMAIN b |->
     IF \E d \in eligible : is_insert_consume(b[i], d)
     THEN Let(b[i][2], <<"builtin", <<"dict-insert-into", b[i][3][2][2]>>, Append(b[i][3][3], Var(token))>>)
     ELSE WithBlocks(b[i], [j \in DOMAIN Blocks(b[i]) |-> rewrite_inserts(Blocks(b[i])[j], eligible, token)])]

\* Only the shape loopify leaves: a loop, then the return of its result.
reuse_fn(f) ==
  LET shaped   == Len(f.body) = 2 /\ f.body[1][1] = "loop" /\ f.body[2][1] = "return" /\ f.body[2][2][1] = "var"
      body     == f.body[1][2]
      eligible == {d \in ToSet(f.params) : d \in assigned_in_block(body) /\ eligibility(f, d, f.body[2][2][2], body)}
      token    == next_var(f)
  IN  IF ~shaped THEN f ELSE IF eligible = {} THEN f
      ELSE [f EXCEPT !.body = <<Let(token, <<"builtin", <<"dict-mint-token", "Boxed">>, <<>>>>),
                                Loop(rewrite_inserts(body, eligible, token)), f.body[2]>>]

-----------------------------------------------------------------------------
(* Lists. *)

\* An append reads the list once, as its leading spread, and adds elements.
classify_makelist(rv, acc) ==
  IF Positions(rv, acc) = {} THEN "absent"
  ELSE IF rv[2][1] = "spread" /\ Positions(rv, acc) = {1} /\ \A i \in 2..Len(rv[2]) : rv[2][i] = "elem"
  THEN "append" ELSE "escape"

is_append_consume(s, acc) == IsLet(s, "list") /\ classify_makelist(s[3], acc) = "append"

ListEscapes(s, acc, result) ==
  CASE HasRvalue(s) ->
         LET rv == RvalueOf(s) IN
         CASE rv[1] = "use"  -> Positions(rv, acc) # {} /\ ~(s[1] = "let" /\ s[2] = result)
           [] rv[1] = "list" -> classify_makelist(rv, acc) = "escape"
           [] OTHER          -> Positions(rv, acc) # {}
    [] s[1] \in {"defer", "if", "match"} -> s[2] = Var(acc)
    [] OTHER -> FALSE

RECURSIVE list_dead_after_ok(_, _)
list_dead_after_ok(b, acc) ==
  \A i \in DOMAIN b :
    /\ is_append_consume(b[i], acc) => dead_after(b, i, acc)
    /\ \A j \in DOMAIN Blocks(b[i]) : list_dead_after_ok(Blocks(b[i])[j], acc)

RECURSIVE OwnedFrom(_, _)
\* The variables that only ever hold one of the owned ones' values.
OwnedFrom(f, owned) ==
  LET more == {s[2] : s \in {x \in All(f) : IsLet(x, "use") /\ x[3][3][1][1] = "var"
                                            /\ x[3][3][1][2] \in owned /\ read_count(f, x[3][3][1][2]) = 1}}
  IN  IF more \subseteq owned THEN owned ELSE OwnedFrom(f, owned \cup more)

\* Is the accumulator only ever assigned one of its own appends?  A list
\* from elsewhere may be shared, and pushing onto it would be seen.
acc_only_from_appends(f, acc, results) ==
  LET owned == OwnedFrom(f, results)
  IN  \A s \in All(f) : s[1] = "let" /\ s[2] = acc =>
        s[3][1] = "use" /\ s[3][3][1][1] = "var" /\ s[3][3][1][2] \in owned

list_eligible(f, acc, result, body) ==
  LET results == {s[2] : s \in {x \in ToSet(Stmts(body)) : is_append_consume(x, acc)}}
  IN  /\ \A s \in All(f) : ~ListEscapes(s, acc, result)
      /\ \E s \in All(f) : HasRvalue(s) /\ RvalueOf(s)[1] = "list" /\ classify_makelist(RvalueOf(s), acc) = "append"
      /\ list_dead_after_ok(body, acc)
      /\ \A r \in results : result_flows_to_d(f, r, acc)
      /\ acc_only_from_appends(f, acc, results)

\* One append as pushes onto the list, and the list itself as its result.
Pushes(s) ==
  LET acc == s[3][3][1]
  IN  [i \in 1..(Len(s[3][3]) - 1) |-> <<"discard", <<"builtin", <<"list-push", "Boxed">>, <<acc, s[3][3][i + 1]>>>>>>]
      \o <<Let(s[2], Use(acc))>>

RECURSIVE rewrite_list_block(_, _)
rewrite_list_block(b, eligible) ==
  FlattenSeq([i \in DOMAIN b |->
     IF IsLet(b[i], "list") /\ b[i][3][2] # <<>> /\ b[i][3][2][1] = "spread" /\ b[i][3][3][1] \in {Var(e) : e \in eligible}
        /\ \A j \in 2..Len(b[i][3][2]) : b[i][3][2][j] = "elem"
     THEN Pushes(b[i])
     ELSE <<WithBlocks(b[i], [j \in DOMAIN Blocks(b[i]) |-> rewrite_list_block(Blocks(b[i])[j], eligible)])>>])

\* Where the loop of a loopified body is, or 0.
loop_shape(body) ==
  LET loops == {i \in DOMAIN body : body[i][1] = "loop"}
      n     == Len(body)
  IN  IF n >= 2 /\ body[n][1] = "return" /\ body[n][2][1] = "var" /\ loops # {} /\ Min(loops) < n THEN Min(loops) ELSE 0

\* Take a private copy of what the caller passed before pushing onto it.
Clones(eligible) == [i \in DOMAIN eligible |-> Let(eligible[i], <<"list", <<"spread">>, <<Var(eligible[i])>>>>)]

list_reuse_fn(f) ==
  LET at       == loop_shape(f.body)
      body     == f.body[at][2]
      eligible == SelectSeq(f.params, LAMBDA p : p \in assigned_in_block(body)
                                                 /\ list_eligible(f, p, f.body[Len(f.body)][2][2], body))
  IN  IF at = 0 THEN f ELSE IF eligible = <<>> THEN f
      ELSE [f EXCEPT !.body = SubSeq(@, 1, at - 1) \o Clones(Reverse(eligible))
                              \o <<Loop(rewrite_list_block(body, ToSet(eligible)))>> \o SubSeq(@, at + 1, Len(@))]

reuse(P) == [P EXCEPT !.fns = [i \in DOMAIN P.fns |-> list_reuse_fn(reuse_fn(P.fns[i]))]]
=============================================================================

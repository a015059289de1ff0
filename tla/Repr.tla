-------------------------------- MODULE Repr --------------------------------
(***************************************************************************)
(* Machine representations (ir/src/repr.rs) and what decides signatures    *)
(* and reachability before them (wasm/src/lib.rs).  A function that is     *)
(* only called directly keeps unboxed parameters and result; every         *)
(* variable gets a representation; box and unbox go where a value and its  *)
(* reader differ.  The representations of a function are a sequence, that  *)
(* of variable v at v + 1.                                                 *)
(***************************************************************************)
EXTENDS IR

-----------------------------------------------------------------------------
(* What is reachable from the entry. *)

Rvalues(f) == {s[3] : s \in {x \in ToSet(Stmts(f.body)) : x[1] = "let"}}
              \cup {s[2] : s \in {x \in ToSet(Stmts(f.body)) : x[1] = "discard"}}
scan_fns(f)     == {rv[2] : rv \in {x \in Rvalues(f) : x[1] \in {"call", "taildirect", "closure"}}}
scan_globals(f) == {rv[2] : rv \in {x \in Rvalues(f) : x[1] = "global"}}
Thunks(P, gs) == {P.globals[g][2] : g \in {h \in gs : P.globals[h][1] = "thunk"}}

RECURSIVE ReachFrom(_, _)
ReachFrom(P, fs) ==
  LET more == fs \cup UNION {scan_fns(P.fns[f]) \cup Thunks(P, scan_globals(P.fns[f])) : f \in fs}
  IN  IF more = fs THEN fs ELSE ReachFrom(P, more)
Reach(P) == ReachFrom(P, {P.entry})

\* The module holds the reachable functions only.
Emitted(P) == [P EXCEPT !.fns = [i \in DOMAIN P.fns |-> IF i \in Reach(P) THEN P.fns[i] ELSE [P.fns[i] EXCEPT !.body = <<>>]]]

-----------------------------------------------------------------------------
(* Which functions keep their unboxed signature. *)

collect_closure_targets(f) == {rv[2] : rv \in {x \in Rvalues(f) : x[1] = "closure"}}

Mutescaped(P) == {}   \* mutant: a function that is also a value keeps its signature
escaped(P) == UNION {collect_closure_targets(P.fns[f]) : f \in Reach(P)}

monomorphize_signatures(P) ==
  [P EXCEPT !.fns = [i \in DOMAIN P.fns |->
     IF i # P.entry /\ i \notin escaped(P) THEN P.fns[i]
     ELSE [P.fns[i] EXCEPT !.preprs = [j \in DOMAIN @ |-> "Boxed"], !.ret = "Boxed"]]]

-----------------------------------------------------------------------------
(* The representation of a result, and what an operation asks of operands. *)

binop_result_repr(op)  == IF op \in {"add", "sub", "mul"} THEN "I64" ELSE "I32"
binop_operand_repr(op) == IF op \in {"eq", "ne"} THEN "Boxed" ELSE "I64"

const_repr(c) == CASE c[1] = "int" -> "I64" [] c[1] = "bool" -> "I32" [] OTHER -> "Boxed"
atom_repr(a, reprs) == IF a[1] = "const" THEN const_repr(a[2]) ELSE reprs[a[2] + 1]

result_repr(P, rv, reprs) ==
  CASE rv[1] = "bin"     -> binop_result_repr(rv[2])
    [] rv[1] = "not"     -> "I32"
    [] rv[1] = "use"     -> atom_repr(rv[3][1], reprs)
    [] rv[1] = "unbox"   -> rv[2]
    [] rv[1] \in {"call", "taildirect"} -> P.fns[rv[2]].ret
    [] rv[1] = "builtin" -> rv[2][2]
    [] OTHER             -> "Boxed"

\* The representation operand i must have; "Any" when none is required.
RequiredOperand(P, rv, i) ==
  CASE rv[1] = "bin" -> binop_operand_repr(rv[2])
    [] rv[1] = "not" -> "I32"
    [] rv[1] \in {"call", "taildirect"} -> P.fns[rv[2]].preprs[i]
    [] rv[1] \in {"use", "box", "unbox"} -> "Any"
    [] OTHER -> "Boxed"

-----------------------------------------------------------------------------
(* Joins: variables some use of which no assignment's block encloses. *)

RECURSIVE walk_join(_, _)
\* Every assignment and use in a block, with the path of its block.
walk_join(b, path) ==
  UNION {LET s == b[i]
             bs == Blocks(s)
             In(j) == Append(path, <<i, j>>)
         IN  {<<"use", v, path>> : v \in Reads(s)}
             \cup (IF s[1] = "let" THEN {<<"assign", s[2], path>>} ELSE {})
             \cup UNION {walk_join(bs[j], In(j)) : j \in DOMAIN bs}
             \cup (IF s[1] = "match" THEN UNION {{<<"assign", v, In(j)>> : v \in PatternBinds(s[3][j][1])} : j \in DOMAIN bs}
                   ELSE {}) : i \in DOMAIN b}

find_join_vars(f) ==
  LET sites   == walk_join(f.body, <<>>) \cup {<<"assign", v, <<>>>> : v \in ToSet(f.params) \cup ToSet(f.caps)}
      uses    == {x \in sites : x[1] = "use"}
      assigns == {x \in sites : x[1] = "assign"}
  IN  {u[2] : u \in {x \in uses : ~\E a \in assigns : a[2] = x[2] /\ IsPrefix(a[3], x[3])}}

\* One forward pass.  The first assignment of a join sets its representation;
\* another one that disagrees boxes it.
assign_stmt(P, s, acc, joins) ==
  IF s[1] # "let" THEN acc
  ELSE LET v        == s[2]
           produced == result_repr(P, s[3], acc.reprs)
           merged   == v \in acc.merged /\ acc.reprs[v + 1] # produced
       IN  [reprs  |-> [acc.reprs EXCEPT ![v + 1] = IF v \in joins /\ merged THEN "Boxed" ELSE produced],
            merged |-> IF v \in joins THEN acc.merged \cup {v} ELSE acc.merged]

Seeded(f, reprs) ==
  [k \in DOMAIN reprs |-> IF k - 1 \in ToSet(f.params) THEN f.preprs[CHOOSE i \in DOMAIN f.params : f.params[i] = k - 1]
                          ELSE reprs[k]]

\* A parameter keeps its signature's, whatever the body assigns to it.
infer_reprs(P, f) ==
  Seeded(f, FoldLeft(LAMBDA acc, s : assign_stmt(P, s, acc, find_join_vars(f)),
                     [reprs |-> Seeded(f, [k \in 1..next_var(f) |-> "Boxed"]), merged |-> {}], Stmts(f.body)).reprs)

-----------------------------------------------------------------------------
(* Inserting the coercions.  C is [reprs, pre]: the representations so     *)
(* far and the box and unbox statements that go before the current one.    *)

fresh(C, r, rv) == [C |-> [reprs |-> Append(C.reprs, r), pre |-> Append(C.pre, Let(Len(C.reprs), rv))],
                    at |-> Var(Len(C.reprs))]

coerce(a, req, C) ==
  LET actual == atom_repr(a, C.reprs)
      boxed  == IF actual = "Boxed" THEN [C |-> C, at |-> a] ELSE fresh(C, "Boxed", <<"box", 0, <<a>>>>)
  IN  CASE req \in {actual, "Any"}            -> [C |-> C, at |-> a]
        [] req # actual /\ req = "Boxed"      -> boxed
        [] OTHER                              -> fresh(boxed.C, req, <<"unbox", req, <<boxed.at>>>>)

RECURSIVE CoerceOperands(_, _, _, _), CoerceBlock(_, _, _, _), CoerceBlocks(_, _, _, _)
CoerceOperands(P, rv, i, C) ==
  IF i > Len(rv[3]) THEN [C |-> C, rv |-> rv]
  ELSE LET c == coerce(rv[3][i], RequiredOperand(P, rv, i), C)
       IN  CoerceOperands(P, [rv EXCEPT ![3][i] = c.at], i + 1, c.C)

CoerceLet(P, s, C) ==
  LET v       == s[2]
      target  == C.reprs[v + 1]
      moved   == coerce(s[3][3][1], target, C)
      o       == CoerceOperands(P, s[3], 1, C)
      natural == result_repr(P, o.rv, o.C.reprs)
      tmp     == fresh(o.C, natural, o.rv)
      out     == coerce(tmp.at, target, tmp.C)
  IN  IF s[3][1] = "use" THEN [C |-> moved.C, s |-> Let(v, Use(moved.at))]
      ELSE IF natural = target THEN [C |-> o.C, s |-> Let(v, o.rv)]
      ELSE [C |-> out.C, s |-> Let(v, Use(out.at))]

\* What the statement's own atom must be.
StmtRepr(s, ret) ==
  CASE s[1] = "return" -> ret [] s[1] = "if" -> "I32" [] OTHER -> "Boxed"

CoerceStmt(P, s, ret, C) ==
  LET c  == coerce(s[2], StmtRepr(s, ret), C)
      C1 == IF s[1] \in {"if", "match"} THEN c.C ELSE C
      bs == CoerceBlocks(P, Blocks(s), ret, [C1 EXCEPT !.pre = <<>>])
      o  == CoerceOperands(P, s[2], 1, C)
  IN  CASE s[1] = "let"     -> CoerceLet(P, s, C)
        [] s[1] = "discard" -> [C |-> o.C, s |-> <<"discard", o.rv>>]
        [] s[1] \in {"return", "defer"} -> [C |-> c.C, s |-> <<s[1], c.at>>]
        [] s[1] \in {"if", "match"} ->
             [C |-> [reprs |-> bs.reprs, pre |-> c.C.pre], s |-> WithBlocks([s EXCEPT ![2] = c.at], bs.bs)]
        [] s[1] = "loop"    -> [C |-> [reprs |-> bs.reprs, pre |-> C.pre], s |-> Loop(bs.bs[1])]
        [] OTHER            -> [C |-> C, s |-> s]

CoerceBlock(P, b, ret, reprs) ==
  IF b = <<>> THEN [reprs |-> reprs, b |-> <<>>]
  ELSE LET h == CoerceStmt(P, Head(b), ret, [reprs |-> reprs, pre |-> <<>>])
           t == CoerceBlock(P, Tail(b), ret, h.C.reprs)
       IN  [reprs |-> t.reprs, b |-> h.C.pre \o <<h.s>> \o t.b]
CoerceBlocks(P, bs, ret, C) ==
  IF bs = <<>> THEN [reprs |-> C.reprs, bs |-> <<>>]
  ELSE LET h == CoerceBlock(P, Head(bs), ret, C.reprs)
           t == CoerceBlocks(P, Tail(bs), ret, [C EXCEPT !.reprs = h.reprs])
       IN  [reprs |-> t.reprs, bs |-> <<h.b>> \o t.bs]

insert_coercions(P, f) ==
  LET r == CoerceBlock(P, f.body, f.ret, infer_reprs(P, f)) IN [f EXCEPT !.body = r.b, !.reprs = r.reprs]

represent(P) ==
  [P EXCEPT !.fns = [i \in DOMAIN P.fns |-> insert_coercions(P, P.fns[i])], !.typed = TRUE]

-----------------------------------------------------------------------------
(* The checker: every variable holds what its representation says, every   *)
(* operand has the one its reader requires.                                *)

CheckRvalue(P, rv, reprs) ==
  \A i \in DOMAIN rv[3] : RequiredOperand(P, rv, i) \in {"Any", atom_repr(rv[3][i], reprs)}

validate_reprs(P, f) ==
  \A s \in ToSet(Stmts(f.body)) :
    CASE s[1] = "let"     -> f.reprs[s[2] + 1] = result_repr(P, s[3], f.reprs) /\ CheckRvalue(P, s[3], f.reprs)
      [] s[1] = "discard" -> CheckRvalue(P, s[2], f.reprs)
      [] s[1] \in {"return", "defer", "if", "match"} -> atom_repr(s[2], f.reprs) = StmtRepr(s, f.ret)
      [] OTHER            -> TRUE
=============================================================================

------------------------------ MODULE Matching ------------------------------
(***************************************************************************)
(* Which patterns cover every value of a type: check_when_exhaustive of    *)
(* analyzer.rs.  A pattern is <<"_">>, <<"name", x>>, <<"lit", v>>,        *)
(* <<"con", enum, variant, patterns>> with an empty enum for a bare head,  *)
(* <<"tuple", patterns>>, <<"record", labels, patterns, rest>> or          *)
(* <<"list", patterns, rest>>; a rest is "" when there is none, "..." or   *)
(* the name it binds.                                                      *)
(***************************************************************************)
EXTENDS Types

CONSTANT Enums   \* the enums in scope: name -> [params, variants], a variant being <<name, payload types>>

is_bare_prelude_variant(enum, v) == <<enum, v>> \in {<<"option", "some">>, <<"option", "none">>, <<"result", "ok">>, <<"result", "err">>}

VariantNames(enum) == {Enums[enum].variants[i][1] : i \in DOMAIN Enums[enum].variants}
find_variant_in_enum(enum, v) == (CHOOSE w \in ToSet(Enums[enum].variants) : w[1] = v)[2]
find_variant_globally(v) == {enum \in DOMAIN Enums : v \in VariantNames(enum)}

RECURSIVE pattern_is_catch_all(_)
pattern_is_catch_all(p) ==
  CASE p[1] = "_"      -> TRUE
    [] p[1] = "name"   -> \A e \in find_variant_globally(p[2]) :
                            is_bare_prelude_variant(e, p[2]) => find_variant_in_enum(e, p[2]) # <<>>
    [] p[1] = "tuple"  -> \A i \in DOMAIN p[2] : pattern_is_catch_all(p[2][i])
    [] p[1] = "record" -> \A i \in DOMAIN p[3] : pattern_is_catch_all(p[3][i])
    [] p[1] = "list"   -> p[2] = <<>> /\ p[3] # ""
    [] OTHER           -> FALSE

\* The arguments of the patterns headed by a variant.
Arms(enum, v, pats) ==
  {p[4] : p \in {q \in pats : q[1] = "con" /\ q[3] = v}} \cup
  {<<>> : p \in {q \in pats : q[1] = "name" /\ q[2] = v /\ is_bare_prelude_variant(enum, v) /\ find_variant_in_enum(enum, v) = <<>>}}

InstantiatedAt(enum, targs) ==
  [Empty EXCEPT !.types = [v \in ToSet(Enums[enum].params) |->
                             targs[CHOOSE i \in DOMAIN targs : Enums[enum].params[i] = v]]]

RECURSIVE patterns_cover(_, _), variant_args_covered(_, _, _, _)
patterns_cover(ty, pats) ==
  \/ \E p \in pats : pattern_is_catch_all(p)
  \/ ty[1] = "bool" /\ \A b \in BOOLEAN : <<"lit", <<"bool", b>>>> \in pats
  \/ ty[1] \in DOMAIN Enums /\ \A v \in VariantNames(ty[1]) : variant_args_covered(ty[1], ty[3], v, pats)

variant_args_covered(enum, targs, v, pats) ==
  LET payload == find_variant_in_enum(enum, v)
      arms    == Arms(enum, v, pats)
  IN  CASE Len(payload) = 0 -> arms # {}
        [] Len(payload) = 1 -> /\ arms # {}
                               /\ patterns_cover(apply_to_type(InstantiatedAt(enum, targs), payload[1]), {a[1] : a \in arms})
        [] OTHER            -> \E a \in arms : \A i \in DOMAIN a : pattern_is_catch_all(a[i])

\* A list is empty or not.
check_when_list_exhaustive(pats) ==
  LET lists == {p \in pats : p[1] = "list"} IN
  \/ \E p \in pats : p[1] \in {"_", "name"}
  \/ \E p \in lists : p[2] = <<>> /\ p[3] # ""
  \/ /\ \E p \in lists : p[2] = <<>> /\ p[3] = ""
     /\ \E p \in lists : p[2] # <<>> /\ p[3] # "" /\ \A i \in DOMAIN p[2] : pattern_is_catch_all(p[2][i])

check_when_record_exhaustive(pats) ==
  \E p \in pats : \/ p[1] \in {"_", "name"}
                  \/ p[1] = "record" /\ \A i \in DOMAIN p[3] : pattern_is_catch_all(p[3][i])

\* A name binds the whole subject unless it is a bare variant of its enum.
BindsSubject(ty, p) ==
  \/ p[1] = "_"
  \/ /\ p[1] = "name"
     /\ ~(/\ ty[1] \in DOMAIN Enums /\ is_bare_prelude_variant(ty[1], p[2])
          /\ p[2] \in VariantNames(ty[1]) /\ find_variant_in_enum(ty[1], p[2]) = <<>>)

\* What a pattern covers by itself at the top of a when.
Covers(ty, p) ==
  CASE p[1] = "name" -> {p[2]}
    [] p[1] = "con"  -> IF \A i \in DOMAIN p[4] : pattern_is_catch_all(p[4][i]) THEN {p[3]} ELSE {}
    [] p[1] = "lit" /\ p[2][1] = "bool" -> IF p[2][2] THEN {"true"} ELSE {"false"}
    [] OTHER         -> {}

Missing(ty, pats) ==
  LET required == IF ty[1] = "bool" THEN {"true", "false"} ELSE IF ty[1] \in DOMAIN Enums THEN VariantNames(ty[1]) ELSE {}
      left     == required \ UNION {Covers(ty, p) : p \in pats}
  IN  IF ty[1] \in DOMAIN Enums THEN {v \in left : ~variant_args_covered(ty[1], ty[3], v, pats)} ELSE left

\* For other types nothing is required.
check_when_exhaustive(ty, cases) ==
  LET pats == ToSet(cases) IN
  CASE ty[1] = "list"   -> check_when_list_exhaustive(pats)
    [] ty[1] = "record" -> check_when_record_exhaustive(pats)
    [] OTHER            -> (\E p \in pats : BindsSubject(ty, p)) \/ Missing(ty, pats) = {}
=============================================================================

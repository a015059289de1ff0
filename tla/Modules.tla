------------------------------ MODULE Modules ------------------------------
(***************************************************************************)
(* The module graph (compiler.rs): one `check` loads the entry modules and *)
(* everything they import depth first, analyzes each module after its      *)
(* imports, and may reuse the exports a previous check left in the         *)
(* incremental cache.  A source text is reduced to what other modules can  *)
(* see of it: its imports, the type of the value it exports, the type it   *)
(* expects of the value it imports, and which of its imports its ordinary  *)
(* definitions mention.                                                    *)
(***************************************************************************)
EXTENDS Naturals, Sequences, FiniteSets, SequencesExt

CONSTANTS
    Names,        \* the user's modules
    StdExports,   \* the exports of every standard library module
    AutoImports,  \* sequence of the <<full name, local name>> every module gets
    TestOf,       \* a test module's name -> the module it tests
    Marker,       \* the project marker module
    TierOf,       \* a target-specific standard module -> "sys" or "web"
    NoText        \* what is read of a file that is not there

Stdlib == DOMAIN StdExports
Every == Names \cup Stdlib

\* What a module shows its importers: the type of its value, and whether the
\* value is private.  A module without the value shows "absent".
NoExports == [type |-> "not loaded", hidden |-> FALSE]
Unparsed == [type |-> "unparsed"]
NoModule == "no module"

is_test_module(m) == m \in DOMAIN TestOf

-----------------------------------------------------------------------------
(* Texts *)

\* build_ast keeps what it could parse; a file that cannot be read has no AST.
Uses(t) == IF t = NoText THEN <<>> ELSE t.uses

ParseDiags(m, t) ==
    IF t = NoText THEN {<<m, "could not read", m>>}
    ELSE IF t.parses THEN {} ELSE {<<m, "syntax error", m>>}

\* Two imports that bind one local name; the diagnostic names no module.
Duplicates(t) ==
    {<<NoModule, "duplicate import", Uses(t)[j][2]>> :
        j \in {k \in DOMAIN Uses(t) : \E i \in 1..(k - 1) : Uses(t)[i][2] = Uses(t)[k][2]}}

Rejected(m, t) ==
    {u \in {Uses(t)[i][1] : i \in DOMAIN Uses(t)} :
        \/ is_test_module(u) /\ ~is_test_module(m)
        \/ u = Marker /\ m # Marker}

\* A test sees the private surface of the module it tests.
internal_view(e) == [e EXCEPT !.hidden = FALSE]

View(m, full, e) == IF is_test_module(m) /\ TestOf[m] = full THEN internal_view(e) ELSE e

-----------------------------------------------------------------------------
(* The analyzer, as the module graph sees it *)

\* The analysis reads the value of the text's first import.
Imported(t, imports) ==
    IF Uses(t) # <<>> /\ Uses(t)[1][2] \in DOMAIN imports
    THEN imports[Uses(t)[1][2]] ELSE [type |-> "absent", hidden |-> FALSE]

AnalysisDiags(m, t, imports) ==
    LET v == Imported(t, imports) IN
    IF t = NoText \/ t.wants = "unused" THEN {}
    ELSE IF v.type = "absent" THEN {<<m, "not found in import", "value">>}
    ELSE IF v.hidden THEN {<<m, "private to its module", "value">>}
    ELSE IF v.type \notin {t.wants, "unknown"} /\ t.wants # "any"
         THEN {<<m, "type mismatch", v.type>>}
    ELSE {}

ExportsOf(m, t, imports) ==
    IF t = NoText THEN [type |-> "absent", hidden |-> FALSE]
    ELSE [hidden |-> t.hidden,
          type |-> IF t.gives # "imported" THEN t.gives
                   ELSE IF AnalysisDiags(m, t, imports) # {} THEN "unknown"
                   ELSE Imported(t, imports).type]

-----------------------------------------------------------------------------
(* load_module.  K is the compiler: exp (exports_cache), mods (parsed), diags, *)
(* cache (incremental), rean (reanalyzed), visiting and rpc (rpc_endpoints).   *)

NewCompiler(cache) ==
    [exp |-> [m \in Every |-> IF m \in Stdlib THEN StdExports[m] ELSE NoExports],
     mods |-> [m \in Every |-> Unparsed],
     diags |-> {}, cache |-> cache, rean |-> {}, visiting |-> {}, rpc |-> {}]

EmptyCache == [m \in Names |-> [text |-> Unparsed, exports |-> NoExports]]

\* set_module_source, and the parse of a module met for the first time.
set_module_source(K, m, t) ==
    [K EXCEPT !.mods[m] = t, !.diags = @ \cup ParseDiags(m, t)]

Parse(K, m, disk) == IF K.mods[m] # Unparsed THEN K ELSE set_module_source(K, m, disk[m])

\* The imports the analyzer is given; of two that bind one name the later wins,
\* and an automatic import never hides a written one.
ImportsMap(K, m) ==
    LET t == K.mods[m]
        Given(u) == u[1] \notin Rejected(m, t) /\ K.exp[u[1]] # NoExports
        written == SelectSeq(Uses(t), Given)
        auto == SelectSeq(AutoImports, LAMBDA u : K.exp[u[1]] # NoExports)
        all == auto \o written
        LastAt(l) == CHOOSE i \in DOMAIN all : all[i][2] = l /\ \A j \in DOMAIN all : all[j][2] = l => j <= i
    IN  [l \in {all[i][2] : i \in DOMAIN all} |-> View(m, all[LastAt(l)][1], K.exp[all[LastAt(l)][1]])]

deps_reanalyzed(K, m) == \E i \in DOMAIN Uses(K.mods[m]) : Uses(K.mods[m])[i][1] \in K.rean

\* mutant: only the text of the module itself is compared
MutReusable(K, m, entries) == m \notin entries /\ K.cache[m].text = K.mods[m]

Reusable(K, m, entries) ==
    /\ m \notin entries
    /\ ~deps_reanalyzed(K, m)
    /\ K.cache[m].text = K.mods[m]

Reuse(K, m) == [K EXCEPT !.exp[m] = K.cache[m].exports, !.visiting = @ \ {m}]

\* Only an analysis that added no diagnostic is kept for the next check.
Analyze(K, m) ==
    LET t == K.mods[m]
        imports == ImportsMap(K, m)
        new == AnalysisDiags(m, t, imports)
        e == ExportsOf(m, t, imports)
    IN  [K EXCEPT !.diags = @ \cup new, !.rean = @ \cup {m}, !.exp[m] = e,
                  !.cache[m] = IF new = {} THEN [text |-> t, exports |-> e]
                               ELSE EmptyCache[m],
                  !.visiting = @ \ {m},
                  !.rpc = IF t # NoText /\ t.remote THEN @ \cup {m} ELSE @]

RECURSIVE load_module(_, _, _, _), LoadAll(_, _, _, _)

LoadAll(K, ms, disk, entries) ==
    IF ms = <<>> THEN K
    ELSE LoadAll(load_module(K, Head(ms), disk, entries), Tail(ms), disk, entries)

load_module(K, m, disk, entries) ==
    IF K.exp[m] # NoExports THEN K
    ELSE IF m \in K.visiting
    THEN [K EXCEPT !.diags = @ \cup {<<NoModule, "cyclic import", m>>}]
    ELSE LET K1 == Parse([K EXCEPT !.visiting = @ \cup {m}], m, disk)
             t == K1.mods[m]
             bad == Rejected(m, t)
             K2 == [K1 EXCEPT !.diags = @ \cup Duplicates(t) \cup
                                        {<<m, "cannot import", u>> : u \in bad}]
             names == [i \in DOMAIN Uses(t) |-> Uses(t)[i][1]]
             K3 == LoadAll(K2, SelectSeq(names, LAMBDA u : u \notin bad), disk, entries)
             K4 == LoadAll(K3, [i \in DOMAIN AutoImports |-> AutoImports[i][1]], disk, entries)
         IN  IF Reusable(K4, m, entries) THEN Reuse(K4, m) ELSE Analyze(K4, m)

-----------------------------------------------------------------------------
(* Target gating *)

\* The locals ordinary definitions mention.  Bodies of remote definitions are
\* left out on purpose; those of instances are not looked at.
live_prefixes(t) == t.live

\* gate_roots: the modules reached from the roots through live imports.
RECURSIVE Reached(_, _, _)
Reached(K, work, reached) ==
    IF work \subseteq reached THEN reached
    ELSE Reached(K, UNION {LET t == K.mods[m] IN
                           IF t \in {Unparsed, NoText} THEN {}
                           ELSE {Uses(t)[i][1] : i \in {j \in DOMAIN Uses(t) : Uses(t)[j][2] \in live_prefixes(t)}} :
                           m \in work \ reached},
                 reached \cup work)

gate(target, m) == m \in DOMAIN TierOf /\ TierOf[m] # target

gate_roots(K, roots, target) ==
    [K EXCEPT !.diags = @ \cup {<<NoModule, "not available on " \o target, m>> :
                                m \in {x \in Reached(K, roots, {}) : gate(target, x)}}]

\* check: load every entry, and the web transport when a client artifact will
\* call remote definitions; target is "none" when nothing is gated.
check(K, entries, disk, target, fullstack) ==
    LET E == {entries[i] : i \in DOMAIN entries}
        K1 == LoadAll(K, entries, disk, E)
        K2 == IF (fullstack \/ target = "web") /\ K1.rpc # {}
              THEN load_module(K1, "std/web/rpc", disk, E) ELSE K1
    IN  IF target = "none" THEN K2 ELSE gate_roots(K2, E, target)

\* gate_fullstack: the server half as sys, the client half as web.
gate_fullstack(K, server, client) == gate_roots(gate_roots(K, {server}, "sys"), {client}, "web")
=============================================================================

-------------------------------- MODULE Lsp --------------------------------
(***************************************************************************)
(* The language server (lsp/src/lib.rs, analysis.rs).  Every open or       *)
(* changed document bumps its revision and spawns a task that sleeps for   *)
(* the debounce time, then analyzes the document's current text if its     *)
(* revision is still the latest.  The runtime has one thread and neither a *)
(* handler nor an analysis awaits between reading and writing the shared   *)
(* maps, so each is one step; the analyses of all documents share one      *)
(* incremental cache.                                                      *)
(***************************************************************************)
EXTENDS Modules

CONSTANTS
    Docs,          \* the modules that may be open in the editor
    Sessions,      \* which of them the user of one session opens
    Texts(_),      \* the texts a module may have
    Unsaved(_),    \* the texts the editor may give an open module
    MaxRev,        \* bound on the edits between an open and a close
    MaxPending     \* bound on the tasks asleep at one time

VARIABLES
    document_map,  \* the text of every open document
    revisions,     \* the latest revision of every open document, 0 when forgotten
    pending,       \* how many tasks sleep for each document and revision
    published,     \* the diagnostics the client holds for every document
    index,         \* hover_map and inlay_map: the analysis they were built from
    module_cache,  \* MODULE_CACHE
    disk,          \* the files, written by the user's editor and other programs
    session        \* the documents opened in this session, chosen once

lspVars == <<document_map, revisions, pending, published, index, module_cache, disk, session>>

NoIndex == [of |-> "no index"]
Sleeping(d) == {r \in 1..MaxRev : pending[d][r] > 0}

LspInit ==
    /\ document_map = [d \in Docs |-> NoText]
    /\ revisions = [d \in Docs |-> 0]
    /\ pending = [d \in Docs |-> [r \in 1..MaxRev |-> 0]]
    /\ published = [d \in Docs |-> {}]
    /\ index = [d \in Docs |-> NoIndex]
    /\ module_cache = EmptyCache
    /\ disk \in [Names -> UNION {Texts(m) : m \in Names}]
    /\ \A m \in Names : disk[m] \in Texts(m) \ {NoText}
    /\ session \in Sessions

-----------------------------------------------------------------------------

\* schedule_analysis: a new revision and a task asleep for it.
schedule_analysis(d) ==
    /\ revisions[d] < MaxRev
    /\ pending[d][revisions[d] + 1] < MaxPending
    /\ revisions' = [revisions EXCEPT ![d] = @ + 1]
    /\ pending' = [pending EXCEPT ![d][revisions[d] + 1] = @ + 1]

\* did_open and did_change store the whole text and schedule an analysis.
did_change(d) ==
    /\ d \in session
    /\ \E t \in Unsaved(d) : t # document_map[d] /\ document_map' = [document_map EXCEPT ![d] = t]
    /\ schedule_analysis(d)
    /\ UNCHANGED <<published, index, module_cache, disk, session>>

\* did_close forgets the document, its indices and its revision and clears its
\* diagnostics; a task asleep for it stays.
did_close(d) ==
    /\ document_map[d] # NoText
    /\ document_map' = [document_map EXCEPT ![d] = NoText]
    /\ index' = [index EXCEPT ![d] = NoIndex]
    /\ revisions' = [revisions EXCEPT ![d] = 0]
    /\ published' = [published EXCEPT ![d] = {}]
    /\ UNCHANGED <<pending, module_cache, disk, session>>

-----------------------------------------------------------------------------

\* analyze_document: a compiler with the document as its only entry, its text
\* in memory, every import read from disk, and the shared cache lent to it.
analyze_document(d, t, files, cache) ==
    check(set_module_source(NewCompiler(cache), d, t), <<d>>, files, "none", FALSE)

diagnostic_belongs_to(g, d) == g[1] \in {NoModule, d}

\* The linter reads the text alone, and only one that parses.
lint_source(d, t) == IF t.parses /\ t.lint THEN {<<d, "lint", d>>} ELSE {}

Report(d, t, K) == {g \in K.diags : diagnostic_belongs_to(g, d)} \cup lint_source(d, t)

NoEntry(d) == {<<NoModule, "invalid entry path", d>>}

\* The hover and inlay indices hold the types of the analyzed module.
build_index(d, t, K) == [of |-> t, type |-> K.exp[d].type]

\* A document whose file is gone has no entry path: there is no module, so its
\* indices stay, and the only diagnostic names no module.
refresh_analysis(d) ==
    \/ /\ disk[d] = NoText
       /\ published' = [published EXCEPT ![d] = NoEntry(d) \cup lint_source(d, document_map[d])]
       /\ UNCHANGED <<index, module_cache>>
    \/ /\ disk[d] # NoText
       /\ \E K \in {analyze_document(d, document_map[d], disk, module_cache)} :
            /\ module_cache' = K.cache
            /\ index' = [index EXCEPT ![d] = build_index(d, document_map[d], K)]
            /\ published' = [published EXCEPT ![d] = Report(d, document_map[d], K)]

\* is_current
Due(d, r) == r = revisions[d]

\* A task's sleep ends.
TimerFires(d, r) ==
    /\ r \in Sleeping(d)
    /\ pending' = [pending EXCEPT ![d][r] = @ - 1]

\* A task wakes: it is dropped when a newer edit or a close has superseded it.
Wake(d, r) ==
    /\ TimerFires(d, r)
    /\ UNCHANGED <<document_map, revisions, disk, session>>
    /\ IF Due(d, r) /\ document_map[d] # NoText
       THEN refresh_analysis(d)
       ELSE UNCHANGED <<module_cache, index, published>>

\* A file is written, created or removed.
DiskWrite(m) ==
    /\ \E t \in Texts(m) : t # disk[m] /\ disk' = [disk EXCEPT ![m] = t]
    /\ UNCHANGED <<document_map, revisions, pending, published, index, module_cache, session>>

LspNext ==
    \/ \E d \in Docs : did_change(d) \/ did_close(d) \/ \E r \in 1..MaxRev : Wake(d, r)
    \/ \E m \in Names : DiskWrite(m)

\* The runtime's timer wakes every task (only Wake lets a task go).
LspFairness == \A d \in Docs : \A r \in 1..MaxRev : WF_pending(TimerFires(d, r))

\* What a compiler started from nothing reports for text t, given the feedback
\* held so far (the indices stay when there is no entry module).
ColdFeedback(d, t, files, held) ==
    IF files[d] = NoText
    THEN [held EXCEPT !.diags = NoEntry(d) \cup lint_source(d, t)]
    ELSE LET K == analyze_document(d, t, files, EmptyCache)
         IN  [diags |-> Report(d, t, K), index |-> build_index(d, t, K)]

LspSpec == LspInit /\ [][LspNext]_lspVars /\ LspFairness
=============================================================================

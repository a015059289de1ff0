-------------------------------- MODULE Dev --------------------------------
(***************************************************************************)
(* `pluma dev` (cli/src/commands/dev.rs, watch.rs): a loop polls a         *)
(* fingerprint of the sources, rebuilds, restarts the server child, swaps  *)
(* the client bundle it serves and tells the connected pages to reload,    *)
(* while the developer saves, the child starts or dies and pages load,     *)
(* each on its own thread or process.  The n-th save of the project is     *)
(* version n; kinds[n] says what kind of program it is.                    *)
(***************************************************************************)
EXTENDS Modules

CONSTANTS
    Kinds,        \* what a saved version may be
    Project(_),   \* the files of a version of a kind
    Wireable,     \* the kinds whose model the hot-reload build can carry over
    Pages,        \* browser tabs
    MaxSaves      \* bound on the versions saved

VARIABLES
    mode,      \* "web", "fullstack" or "server", from the command line
    kinds,     \* the versions saved so far
    last,      \* the fingerprint the loop compares with
    at,        \* where the loop is
    hmr_on,    \* web mode: the build mode chosen at startup
    built,     \* the version of the build in hand
    artifact,  \* the version in the server's wasm file
    child,     \* the server process: the version it runs and its state
    served,    \* the version of the client bundle served
    page       \* every tab: its document, its bundle, its reload channel

devVars == <<mode, kinds, last, at, hmr_on, built, artifact, child, served, page>>

\* 0 where there is no version.
NoChild == [version |-> 0, state |-> "gone"]
NoPage == [open |-> FALSE, doc |-> "none", wasm |-> 0, live |-> FALSE, told |-> FALSE]
Loading == [NoPage EXCEPT !.open = TRUE]
Version == Len(kinds)

\* scan: the number of files and the latest modification time; every save
\* moves the latter, so the fingerprint tells two versions apart.
scan == Version

-----------------------------------------------------------------------------
(* Builds *)

NoErrors(K) == K.diags = {}
Fresh == NewCompiler(EmptyCache)

\* The kinds whose client, and whose two halves, check without errors.
WebChecks ==
    {k \in Kinds : NoErrors(check(Fresh, <<"client">>, Project(k), "web", FALSE))}

FullstackChecks ==
    {k \in Kinds : NoErrors(gate_fullstack(check(Fresh, <<"main", "client">>, Project(k), "none", TRUE),
                                           "main", "client"))}

\* build_web: the -hmr entry points need a model the wire codec can carry.
build_web(kind, hmr) == kind \in WebChecks /\ (hmr => kind \in Wireable)

\* build_fullstack_artifacts: with hot reload, or else without.
build_fullstack_artifacts(kind) ==
    \E hmr \in BOOLEAN : kind \in FullstackChecks /\ (hmr => kind \in Wireable)

Builds(kind, hmr) ==
    CASE mode = "web" -> build_web(kind, hmr)
      [] mode = "fullstack" -> build_fullstack_artifacts(kind)
      [] mode = "server" -> TRUE

-----------------------------------------------------------------------------
(* The watch loop *)

\* mutant: the pages are told before the bundle is swapped
MutAfter(here) ==
    CASE mode = "web" -> [build |-> "tell", tell |-> "swap", swap |-> "watch"][here]
      [] mode = "fullstack" -> [build |-> "kill", kill |-> "write", write |-> "spawn", spawn |-> "wait",
                                wait |-> "tell", tell |-> "swap", swap |-> "watch"][here]
      [] mode = "server" -> [build |-> "kill", kill |-> "spawn", spawn |-> "watch"][here]

\* What follows each step of a rebuild.
After(here) ==
    CASE mode = "web" -> [build |-> "swap", swap |-> "tell", tell |-> "watch"][here]
      [] mode = "fullstack" -> [build |-> "kill", kill |-> "write", write |-> "spawn", spawn |-> "swap",
                                swap |-> "wait", wait |-> "tell", tell |-> "watch"][here]
      [] mode = "server" -> [build |-> "kill", kill |-> "spawn", spawn |-> "watch"][here]

Step(here) == at = here /\ at' = After(here)

\* The build before anything is served: without one the command exits.
Boot ==
    /\ at = "boot"
    /\ UNCHANGED <<mode, kinds, last, page>>
    /\ \/ \E hmr \in BOOLEAN :
            /\ Builds(kinds[Version], hmr)
            /\ ~hmr => ~Builds(kinds[Version], TRUE)
            /\ hmr_on' = hmr
            /\ built' = Version /\ at' = "baseline"
            /\ artifact' = IF mode = "fullstack" THEN Version ELSE 0
            /\ child' = IF mode = "web" THEN NoChild ELSE [version |-> Version, state |-> "starting"]
            /\ served' = IF mode = "server" THEN 0 ELSE Version
       \/ /\ \A hmr \in BOOLEAN : ~Builds(kinds[Version], hmr)
          /\ at' = "exited"
          /\ UNCHANGED <<hmr_on, built, artifact, child, served>>

\* The first fingerprint is taken after the first build.
Baseline ==
    /\ at = "baseline"
    /\ last' = scan /\ at' = "watch"
    /\ UNCHANGED <<mode, kinds, hmr_on, built, artifact, child, served, page>>

Poll ==
    /\ at = "watch"
    /\ scan # last
    /\ last' = scan /\ at' = "build"
    /\ UNCHANGED <<mode, kinds, hmr_on, built, artifact, child, served, page>>

\* A failed build keeps the previous version.
Build ==
    /\ at = "build"
    /\ IF Builds(kinds[Version], hmr_on)
       THEN built' = Version /\ at' = After("build")
       ELSE built' = built /\ at' = "watch"
    /\ UNCHANGED <<mode, kinds, last, hmr_on, artifact, child, served, page>>

Kill ==
    /\ Step("kill")
    /\ child' = NoChild
    /\ UNCHANGED <<mode, kinds, last, hmr_on, built, artifact, served, page>>

\* A write that fails is reported and the loop goes on with the old file.
WriteArtifact ==
    /\ Step("write")
    /\ artifact' \in {artifact, built}
    /\ UNCHANGED <<mode, kinds, last, hmr_on, built, child, served, page>>

\* spawn_server runs the file written; spawn_run compiles the sources itself.
Spawn ==
    /\ Step("spawn")
    /\ child' = [version |-> IF mode = "server" THEN Version ELSE artifact, state |-> "starting"]
    /\ UNCHANGED <<mode, kinds, last, hmr_on, built, artifact, served, page>>

Swap ==
    /\ Step("swap")
    /\ served' = built
    /\ UNCHANGED <<mode, kinds, last, hmr_on, built, artifact, child, page>>

\* wait_for_server returns when the child accepts connections, or after
\* RESTART_GRACE whatever the child does.
wait_for_server ==
    /\ Step("wait")
    /\ UNCHANGED <<mode, kinds, last, hmr_on, built, artifact, child, served, page>>

\* mutant: the fingerprint is taken again when the rebuild is done
Mutbroadcast_reload ==
    /\ Step("tell")
    /\ page' = [p \in Pages |-> [page[p] EXCEPT !.told = @ \/ page[p].live]]
    /\ last' = scan
    /\ UNCHANGED <<mode, kinds, hmr_on, built, artifact, child, served>>

broadcast_reload ==
    /\ Step("tell")
    /\ page' = [p \in Pages |-> [page[p] EXCEPT !.told = @ \/ page[p].live]]
    /\ UNCHANGED <<mode, kinds, last, hmr_on, built, artifact, child, served>>

Loop == Boot \/ Baseline \/ Poll \/ Build \/ Kill \/ WriteArtifact \/ Spawn \/ Swap
        \/ wait_for_server \/ broadcast_reload

-----------------------------------------------------------------------------
(* The developer, the server process and the browser *)

Save ==
    /\ Version < MaxSaves
    /\ \E k \in Kinds : kinds' = Append(kinds, k)
    /\ UNCHANGED <<mode, last, at, hmr_on, built, artifact, child, served, page>>

\* The child binds its port, or exits.
ChildListens ==
    /\ child.state = "starting"
    /\ child' = [child EXCEPT !.state = "listening"]
    /\ UNCHANGED <<mode, kinds, last, at, hmr_on, built, artifact, served, page>>

ChildExits ==
    /\ child.state \in {"starting", "listening"}
    /\ child' = [child EXCEPT !.state = "gone"]
    /\ UNCHANGED <<mode, kinds, last, at, hmr_on, built, artifact, served, page>>

SetPage(p, q) ==
    /\ page' = [page EXCEPT ![p] = q]
    /\ UNCHANGED <<mode, kinds, last, at, hmr_on, built, artifact, child, served>>

Serving == at \notin {"boot", "exited"} /\ mode # "server"

OpenTab(p) == Serving /\ ~page[p].open /\ SetPage(p, Loading)
CloseTab(p) == page[p].open /\ SetPage(p, NoPage)

\* handle_conn_fs asks the child for the document and falls back to the shell
\* when it does not answer within the grace; handle_conn always serves the shell.
FetchDocument(p) ==
    /\ page[p].open /\ page[p].doc = "none"
    /\ \E doc \in {"shell"} \cup {"rendered" : x \in {c \in {child} : c.state = "listening"}} :
        SetPage(p, [page[p] EXCEPT !.doc = doc])

\* serve_static: the bundle of the moment, and the channel parked in `clients`.
\* A document starts both requests; either may be answered first.
FetchBundle(p) ==
    /\ page[p].doc # "none" /\ page[p].wasm = 0
    /\ SetPage(p, [page[p] EXCEPT !.wasm = served])

Connect(p) ==
    /\ page[p].doc # "none" /\ ~page[p].live
    /\ SetPage(p, [page[p] EXCEPT !.live = TRUE])

Reload(p) == page[p].told /\ SetPage(p, Loading)

Browser(p) == FetchDocument(p) \/ FetchBundle(p) \/ Connect(p) \/ Reload(p)

-----------------------------------------------------------------------------

DevStart ==
    /\ last = 0 /\ hmr_on = FALSE
    /\ built = 0 /\ artifact = 0 /\ served = 0
    /\ child = NoChild
    /\ page = [p \in Pages |-> NoPage]

DevInit == DevStart /\ at = "boot" /\ mode \in {"web", "fullstack", "server"} /\ kinds \in {<<k>> : k \in Kinds}

\* No development server runs.
DevIdle == DevStart /\ at = "exited" /\ mode = "web" /\ kinds = <<>>

DevNext ==
    \/ Loop \/ Save \/ ChildListens \/ ChildExits
    \/ \E p \in Pages : OpenTab(p) \/ CloseTab(p) \/ Browser(p)

\* The loop's thread (only Loop moves at) and a tab that is loading keep running; nothing makes the
\* developer save, the child start or a tab open.
LoopRuns ==
    /\ at # "exited" /\ (at = "watch" => scan # last)
    /\ at' \in {"baseline", "exited", "watch", "build", After("build"), "write", "spawn", "swap", "wait", "tell"} \ {at}

DevFairness == WF_at(LoopRuns) /\ \A p \in Pages : WF_devVars(Browser(p))

DevSpec == DevInit /\ [][DevNext]_devVars /\ DevFairness

-----------------------------------------------------------------------------
(* Properties *)

(* A version saved while the loop watches is built and served, whatever    *)
(* the loop is doing when it is saved, unless it does not build or is      *)
(* saved over.                                                             *)
SaveIsServed ==
    \A v \in 1..MaxSaves :
        (Version = v /\ last \notin {0, v} /\ mode # "server" /\ Builds(kinds[v], hmr_on))
            ~> (served = v \/ Version > v)

(* A page whose reload channel is connected when a rebuild tells the pages *)
(* ends up with that build's bundle or a later one, or is closed.          *)
PageFollows ==
    \A v \in 1..MaxSaves : \A p \in Pages :
        (at = "tell" /\ built = v /\ page[p].live) ~> (page[p].wasm >= v \/ ~page[p].open)
=============================================================================

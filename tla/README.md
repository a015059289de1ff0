# TLA+ models of Pluma

Pluma is a statically typed language that compiles to WebAssembly GC and runs in a
browser or under a V8 host written in Rust. This directory models the language
implementation from the source text to the running program: the front end and the
formatter, the type checker, the middle end, the run-time data structures, remote
calls between builds, the structured-concurrency scheduler, the host's I/O reactor, and
the two long-running tools, the language server and the development server.
`PROJECT.json` maps every definition to the source lines it stands for.

## 1. Inventory

Paths are relative to `src/`.

| Part | State | Operations | Meets others through |
|---|---|---|---|
| Lexer, parser (`compiler/src/tokenizer.rs`, `parser.rs`) | a cursor, diagnostics | one production per syntactic form, recovery | the tree is read by the formatter, the analyzer and lowering |
| Formatter (`formatter/src`) | the comments already placed | `format_source`, layout | reads the tree and, by line, the comments that are not in it |
| Type checker (`compiler/src/analyzer.rs`, `types/`) | constraints, substitution, scopes | generate, solve, instantiate, dispatch `try`/`??`, exhaustiveness | its types drive lowering and the wire schemas |
| Module graph (`compiler/src/compiler.rs`, `reachability.rs`) | loaded modules, incremental export cache | `load_module`, `check`, target gates | shared by all tools; the cache survives between checks |
| Lowering (`ir/src/lower.rs`) | the stack of functions being lowered | one per expression and pattern form | produces the IR |
| Middle end (`ir/src/{simplify,resolve,loopify,reuse,cps,repr}.rs`, `wasm/src/{lib,async_lower}.rs`) | the program | passes in a fixed order | each relies on what the earlier ones left |
| Run-time data (`wasm/src/helpers/{dict,list,eq,tuple,variant,record}.rs`) | heap nodes and arrays, shared | persistent and in-place operations | in-place ones are chosen by the reuse pass |
| Wire codec and RPC (`wasm/src/helpers/wire.rs`, `compiler/src/rpc.rs`, `std/rpc.pa`, `std/sys/rpc.pa`) | requests, responses | derive schema, fingerprint, encode, decode, dispatch | two builds, one on each side |
| Task scheduler (`wasm/src/helpers/task.rs`, layouts in `wasm/src/runtime.rs`) | fiber table, scope table, two free lists, ready queue, timers, pending cancellations, `now`, `current_fiber` | `run_task`, pump arms, `sched_spawn`, `sched_cancel`, `sched_cancel_after`, `on_body_done`, `on_child_done`, `cancel_scope`, `reap_fiber`, `try_finalize_scope`, `run_timers`, `poll_defers` | calls into the host for I/O; user code runs inside pumps and cleanups |
| I/O reactor and pool (`host/src/offload.rs`) | `waits`, `ready`, `completions`, `done`, `inflight`, `discarded`, the OS poller | `register_socket`, `submit`, `collect`, `poll`, `unwatch`, pool threads | called by the scheduler thread; shares the completion queue with workers |
| Socket table, host callbacks, database worker (`host/src/{net,db}.rs`, `host/src/v8host`) | id to descriptor; a pinned thread's queue | open, accept, read, write, close; submit-or-collect | register with the reactor, push into its queue |
| Language server (`lsp/src`) | documents, revisions, analyses held | open, change, close, debounced analysis | tasks sleep across edits and share the export cache |
| Development server (`cli/src/commands/{dev,watch}.rs`) | watcher, child process, bundle, reload clients | rebuild, restart, swap, broadcast | threads, a child process, browsers |
| Browser runtime, signals, task and stream library (`task.rs`, `dom.rs`, `std/*.pa`) | command fibers, dependency graph | re-enter the scheduler; flush | user code |

What is hard in it:

* **Rows are reused.** A fiber id, a scope id, a timer argument and every key of the
  reactor's maps is a table index; ended rows go to later fibers while references to
  them survive. There is no generation counter in the code.
* **Cancellation is re-entrant.** `cancel_scope`, `reap_fiber`, `try_finalize_scope`
  and user cleanups call each other with the tables half updated.
* **Retry by restart.** A parked I/O call is run again on each wake and tells "first
  call" from "collect the result" by whether a result is there.
* **Threads.** Workers push a completion and notify the poller in two steps, while the
  scheduler thread drains, cancels and reuses slots.
* **Timers and I/O are looked at only when no fiber is ready.**
* **Mutation behind immutable values.** Lists and dictionaries are values to the
  programmer; loops update them in place where a textual analysis says nobody looks.
* **A function that awaits is cut into pieces**; what is live across a cut is computed.
* **Two tables of precedence**, the parser's and the formatter's, must agree, and
  comments are put back by line number.
* **Caches and debouncing.** An analysis runs long after the edit that asked for it,
  with exports another document's analysis left in the cache.
* **Two builds.** A client and a server of different versions exchange untagged bytes.

What makes each part correct:

* formatter: the formatted file is the same program, with every comment, and a second
  run changes nothing; parser: an error costs only the definition it is in.
* type checker: solutions are most general unifiers; an accepted program does not go wrong.
* lowering and every pass: the program still means what its source means.
* data: a variable holds what its own history gave it; a remote call hands over the
  argument it was given or reports an error, whatever builds meet.
* scheduler: no task outlives its scope; a cancellation ends everything below it; every
  live fiber has exactly one thing that will resume it; outcomes are final; the
  counters are exact; no live row is handed out; the queue is fair; deadlines fire.
* reactor: a call receives its own result, executed exactly once; no wakeup is lost and
  none reaches a fiber that does not wait for it.
* tools: the feedback shown is what a compile from nothing would give for the latest
  text; every saved version that builds is served, and connected pages follow.

## 2. Modules

| Module | Models | Composed in |
|---|---|---|
| `Lexer`, `Regex`, `Parser` | layout-dependent tokens; every production with its error paths and recovery | `Frontend` |
| `Formatter` | document algebra, layout, parentheses and comments | `Frontend` |
| `Literals` | strings, interpolations, bytes and numbers, character by character, read and written | `Frontend` |
| `Frontend` | `pluma format`, run again and again on a file | run `frontend` |
| `Types`, `Matching`, `Infer` | types, rows and one solver step; exhaustiveness; constraint generation | `Typing` |
| `Typing` | `analyze`: the rounds of solving, instantiating, dispatching | run `types` |
| `Running` | reference: an untyped evaluator that can go wrong | `MCTypes` |
| `IR` | the IR, and what the code emitted for each statement does | all passes |
| `Lower`, `Source` | lowering; reference: an evaluator over the syntax tree | `MCCompile` |
| `Passes`, `Cps`, `Reuse`, `Repr` | simplify, resolve, loopify; state machines; in-place reuse; representations and dead code | `Compile` |
| `Compile` | `emit_with_options`: one pass after another | run `compile` |
| `Dict`, `Lists`, `Values` | hash trie, lists, equality, hashing, records | `Data` |
| `Wire`, `Rpc` | schema, codec, fingerprints; stub, dispatcher, redeployment, damaged bodies | `Data` |
| `Data` | a program's run-time data | run `data` |
| `Modules` | one `check`: loading, cycles, the cache, both gates | `Lsp`, `Dev` |
| `Feedback` | abstract specification: what an editor may rely on | `MCTooling` |
| `Lsp`, `Dev`, `Tooling` | language server, development server, a session with either | runs `tooling`, `stale_exports` |
| `Scheduler` | `run_task` and everything it calls | runs `scopes`, `reuse`, `progress` |
| `Reactor` | reactor, socket table, callbacks, pool and database workers, and the part of the scheduler loop that drives them | runs `offload`, `live` |
| `SchedulerProofs` | theorems: types, outcomes | |
| `WakeProofs`, `ScopeProofs` | theorems: the tree of scopes; the first holds the inductive invariant and its half about wakeups | |
| `SourceProofs` | theorem: no wakeup of the scheduler is lost or doubled | |
| `Structured` | abstract specification: what structured concurrency promises | `StructuredProofs` |
| `StructuredProofs` | theorem: the scheduler implements `Structured` | |
| `ReactorProofs` | theorems: types, registered waits, offloaded calls and wakeups of the reactor | |
| `ListsProofs` | theorem: lists are values | |

The `MC*` modules hold the instances; `Reactor` needs none. The front end, the type checker and the compiler
are recursive over trees; their operators are RECURSIVE and only TLC evaluates them.
Operators that are expensive to evaluate (`LowerSource`, `RunSource`, `RunIR`, `Parse`, `Layout`,
`ConstrainModule`, `Exhaustive`, `EndOf`, `Grounds`) are operator constants of the state machines, given
the translated operators in the configuration.

### Front end and formatter

A text is a sequence of lexemes in which blanks, line breaks and comments are lexemes, because
layout decides what several tokens mean. A behaviour of `Frontend` reads a file, parses it, stops if there was an
error, lays it out, writes it back and starts again. `Literals` works on characters: an int has
8 bits (`Word`), durations count up to `MaxNanos`; the overflow checks are kept.

### Type checker

A behaviour of `Typing` analyzes one module, or solves one list of equations. One step takes one
equation, one scheme or one dispatch. Where the code walks a `HashMap` (the shared fields of two rows) the
step chooses any order. `"stuck"` is the end of a run whose substitution refers to itself,
on which the code's `deep_resolve` does not return.

### Middle end

`Source` and `IR` are evaluators with the same notion of outcome: the value returned and what was
printed, in order. `Compile` checks their agreement after every pass. Lists and
dictionaries of `IR` live in a heap, since two passes turn updates into mutations.

### Data and remote calls

Nodes and arrays are heap objects with identity; the model keeps beside each register the map
or sequence its own history gives. `Wire` has three-bit bytes and five-bit ints so that, as with
64-bit ints in groups of seven, the last byte of the longest varint carries one bit. In `Rpc` the
server may be redeployed between any two steps and a body may be damaged on the way.

### Tools

A source text is reduced to what other modules see of it: imports, the type of what it exports, the
type it expects, what its definitions mention. `Lsp` has one step per handler (the runtime is
single-threaded and no handler awaits between reading and writing the maps) and one for the
end of each sleep; `session` is the set of documents that one session opens. `Dev` interleaves the watch loop with saves, the child and the pages.
`MCTooling!EditorFeedback` states that `Lsp` implements `Feedback`: an update shows what a compiler
started from nothing would show for some text the document had since the last update, and the last edit of
a document that stays open is followed by feedback for that text.

### Scheduler

The variables are the emitted module's globals: `fibers`/`scopes` (with `nfibers`,
`nscopes` the list lengths), `free_fibers`, `free_scopes`, `ready` (the code's
`ready[rhead..]`), `timers` (`at` is kept relative to `now`), `pending`, `root_kind`,
`current`. Three more stand for control: `starting` (the scope whose body function
`start_scope` is calling on the creating fiber), `work` (calls still to be made by the
mutually recursive cancel/reap/finalize functions, the next one first: the wasm call
stack) and `halted`.

A user program is any sequence of the operations in `Ops` that its scope handles
allow. `knows` is the set of handles a fiber can name: a task spawned in scope `s` has
the handles of `s` and of the scopes around it.

One action stands for one call of the emitted code that runs without giving up control
to another modelled function. Reaping is split where `reap_fiber` cascades into the
awaited scope and runs cleanups, because cleanups see the intermediate state.

`gen` counts how often a row was handed out. No guard reads a reference's
`gen`; the properties use it to tell a reference to an ended fiber from one to its
successor. `MaxGen` and `StaleRefs` look at it only to bound the model.

Switches of this model (constants) that widen what programs may do:

| Switch | TRUE / larger means |
|---|---|
| `StaleRefs` | a row is handed out although a queue entry, timer, waiter list or pending cancellation still names it (the code does this) |
| `CaptureInner` | a task uses the handle of a scope nested in its own, captured through shared data |
| `AnyDrainer` | fibers other than the body call `s.next` |
| `NestedFree` | free lists a cleanup *task*'s nested `run_task` may leave behind |
| `Ops` contains `await-manual` | a handle of a manual scope's child is awaited |

With `StaleRefs = FALSE` only those executions are considered in which nothing names a
row that is handed out again; it separates the consequences of row reuse (section 4) from
everything else.

### Reactor

The scheduler thread is `pc`: `"sched"` runs fibers, the other values are places inside
`poll` and `run_timers`. A fiber slot's `status` is `free`, `run`, `io` (parked
on the reactor), `other` (parked elsewhere) or `woken`. A descriptor may be reused after
close. A worker's end is two steps, `PushCompletion` and `WorkerNotify`; the mutex around
the drain is the guard `pc # "drain"`. Each offloaded call of the program has a number, which
is what `done` and the completion queue carry instead of the result value; `execs` and
`got` record what was run and what was handed to whom.

The scheduler hands out a slot whatever the reactor still keeps of it: a call underway or marked
discarded, a result, a start in the buffer (`~Unnamed(f)`). The model does the same, and `early` remembers the slots this ever happened to.
No guard reads `early`. Such a slot's fibers may get each other's results and starts, as section 4 shows, so the
properties of offloaded calls speak of the slots outside `early`: what goes wrong in a slot taken early never reaches another one.

The two models overlap in `reap_fiber`/`io_block_step`: `Scheduler` abstracts the reactor
to "some waiter is woken" (`IoWake`), `Reactor` abstracts the scheduler to slots that
park, wake, end and are reused.

## 3. Runs

| Run | Checks | Shows |
|---|---|---|
| `scopes` | `TypeOK`, `LiveCount`, `TreeIntact`, `OneWakeSource`, `CancelEnds`, `NothingOutlivesScope` | fail-fast and manual scopes, two deep: the tree of fibers, the counters and the wakeups stay consistent, nothing outlives its scope |
| `reuse` | `FreeRowsEnded`, `SettledOnce` | these hold even when stale references reach reused rows and cleanups cancel, spawn and run tasks |
| `progress` | `ReadyServed`, `DeadlineFires` | FIFO fairness; deadlines take effect |
| `offload` | `TypeOK`, `OwnResult`, `ExecOnce`, `NoStrayResult`, `ParkedHasWakeSource`, `WaitsRegistered`, `SocketWaitKept`, `WakeReachesParked` | the submit/collect protocol across threads and cancellation, while slots are reused as early as the code reuses them: the calls of every other slot are unharmed, and socket waits keep their registration and wakeup in all |
| `live` | `OffloadSettles` | a parked offload is started again, unless its own slot was taken early |
| `data` | `DictsAreValues`, `ListsAreValues`, `OutcomeIsAnswer`, `NoDecodeUnderSkew`, `ArgumentArrives` | sharing is never seen; no body is decoded under other types than it was written with, and the handler receives what the caller gave |
| `compile` | `LoweringKeepsMeaning`, `AwaitKeepsMeaning`, `LoopsKeepMeaning`, `InPlaceKeepsMeaning`, `UnboxedKeepsMeaning` | 985 programs mean the same after each pass |
| `frontend` | `MeaningKept`, `FormatIsStable`, `CommentsKept`, `ErrorsContained` | formatting is sound and stable on expressions in every context; errors stay in their definition |
| `types` | `SolutionUnifies`, `SolutionIsMostGeneral`, `AcceptedProgramsRun` | the solver against all ground solutions; the checker against the untyped evaluator |
| `tooling` | `EditorFeedback`, `SaveIsServed`, `PageFollows` | the language server implements `Feedback` in sessions whose documents do not meet through another module; saves are served and pages follow |
| `stale_exports` | violates `EditorFeedback` | with a test and, below the module it tests, a third module open, the test's feedback comes from stale exports |
| `captured` | violates `AcceptedProgramsRun` | a local closure returning a parameter of the function around it is generalized over the parameter's type |

For every checked property `PROJECT.json` names a plausible slip in the code (a counter decremented
for bodies too, a variable left out of the saved state, a token not compared, a row extended
without a fresh tail) under which it fails.

Deadlock is checked in `compile` and the two type checker runs, whose finished states stutter. Elsewhere it
is not: a program ends (`halted`), a file is formatted, and the bounds on
rows, saves and operations stop the others. Stuck fibers are what `OneWakeSource`, `ParkedHasWakeSource` and the
liveness properties are about.

### Bounds

* `scopes`, `reuse`: four fibers and three scopes are the root, a body, a child and one
  more: enough for nesting, a sibling, a waiter and a reused row. `reuse` has one scope besides the root's;
  with five fibers, nested scopes and fewer operations `FreeRowsEnded` was found to hold too (8.5 million states). `MaxGen = 2` lets each
  row be used twice, the first case in which a reference can be stale. One timer and one
  queued cancellation suffice there because a second of either is independent of the
  first; `progress` has two timers and two durations for their order.
* `offload`: two slots, each used twice, one descriptor (so it is always the reused one),
  two sockets, two operations, two pool workers and the database worker: two completions can overtake each other, and a cancelled call's can meet
  the next call of its slot.
* `live`: two slots, each used twice, and three operations, the first sizes at which one slot has two calls underway while the other waits; one pool
  worker and no sockets keep the behaviour graph small.
* `data`: hashes of three bits in chunks of two have an uneven last level; of four keys two collide
  fully, one shares their first chunk and one does not, so every shape of node occurs. Two dictionaries,
  two lists of up to three elements and the operations of a plan: a second owner of shared storage. Eleven
  signatures, any on either side.
* `compile`: loops over a dictionary and a list whose steps read, capture, alias, insert or append in every
  combination; int functions called directly, as values and through closures; functions that await
  with cleanups, branches, nested tasks and failures. `Fuel = 120` ends a run that does not; no source program
  here needs as much, so running out counts as a different meaning.
* `frontend`: every operator and expression form in every context, bare and in parentheses; a comment at every gap of
  bodies, collections and modules; every pattern, type and regex form; definitions with one word missing or replaced; strings,
  blocks, bytes and numbers over small alphabets. Width 6 breaks nearly every group, 40 nearly none.
* `types`: all systems of two equations over five or six terms for plain types, record rows and tuple rows (2,200), and
  2,050 programs that make a value, bind it by `let` or through a definition declared later, and use it. A most general
  solution is compared with every ground assignment over four types and rows of three labels.
* `tooling`: a test module over a module over a third; sessions that open the first two or the last two, so that each of the three is the entry of an
  analysis in one and a cached dependency in another (`stale_exports`: the first and the last). Two revisions, one sleeping task for each document and
  revision; four kinds of saved version (good, good but not hot-reloadable, not parsing, rejected by the gate), three saves, one tab.
  At these sizes an edit below a cached module, a save during a rebuild and a page loading across a swap occur.

### Fairness

`Scheduler!FairSpec` asks for weak fairness of `Next` as a whole: the scheduler is one
thread and its loop goes on. It assumes of the program only that a pump ends. `MaxQueue`
bounds the queue when a fiber yields. `DeadlineFires` is stated under the premise that the queue empties again
and again: `run_task` runs timers only then (task.rs:244), so tasks that yield for ever keep every deadline
from firing.

`Reactor!FairSpec` asks for weak fairness of `poll`'s steps, of restarting a woken fiber and
of a running fiber parking or ending (one thread, and pumps end), and for
fairness of each worker (the OS schedules threads, blocking calls return). It is strong
for a worker's push because the drain holds the mutex again and again. Nothing is assumed of
peers, spawns or cancellations.

`LspFairness`: every sleeping task wakes (the runtime's timer). `DevFairness`: the watch loop goes on, and
a tab that is loading finishes its requests. Nothing makes the developer edit or save, the
child listen or a tab open. Both are written over the variable only that actor moves (`pending`, `at`), so that
whether a step is possible can be told without running the compiler.

## 4. Where the code departs from what it says

Two runs record one each. `captured`: type schemes of local closures (analyzer.rs:7253 against the comment above it). `stale_exports`: reuse of
cached exports (compiler.rs:674 against the comment at 660-667). The others below
were met while modelling. The passing runs leave them out, by a switch or by the family of programs they enumerate;
the families `Unmatched`, `Coalescing`, `Trailing`, `Unfinished`, `SpreadThenSet`, `NestedOptions` of the MC modules hold programs
that show six of them.

Scheduler and reactor, a few constants away from a run:

| Change | Violates | Because |
|---|---|---|
| `StaleRefs = TRUE`, `Ops` spawn/scope/sleep and two timers in `scopes` | `TreeIntact` | a reaped sleeper's timer resumes the fiber now in its row (task.rs:2425) |
| the same with cancel and five fibers | `NothingOutlivesScope` | the resumed fiber was awaiting a scope and ends before it; its own scope ends, and the inner one, still running, spawns into it |
| `Ops` spawn/scope/await/fail/cancel and five fibers in `scopes` | `FailureIsSeen` | a failure observed only by a reaped waiter is swallowed (task.rs:2307) |
| `NestedFree <- OneScopeRun`, `Ops` spawn/cancel/scope/yield/defer-task in `scopes` | `LiveRowKept` | free lists are not restored after a cleanup task, so a live row is taken (task.rs:3007) |
| without the exemption of `early`, in `offload` | `OwnResult`, `ExecOnce`, `NoStrayResult`, `ParkedHasWakeSource`, `WakeReachesParked` | a cancelled call's result is given to the slot's next fiber, or dropped in place of its own; a fiber started for its predecessor submits again |
| `offload` | `TimersOnlyOnTimeout` | a late notification ends a wait early and the virtual clock jumps |
| `AnyDrainer = TRUE`, `Ops` spawn/manual/scope/next, five fibers | `OneWakeSource` | when the last child settles only one of two drainers is resumed (task.rs:2265) |
| `CaptureInner = TRUE` | `NothingOutlivesScope` | `sched_spawn` does not ask whether the scope is finalized (task.rs:1899) |
| `await-manual` with manual scopes | `OneWakeSource` | a manual scope's child is recycled at once although its handle can be awaited (task.rs:2301) |
| `defer-spawn`, six fibers, nested scopes, sleep, cancel | `TreeIntact` | `cancel_scope` reads the number of children once; a cleanup may add one (task.rs:2389) |
| the same in `live` | `OffloadSettles` | a discarded completion clears `inflight` for the slot's next call; `poll` then answers -1 without draining (offload.rs:191) |
| `CloseParked = TRUE` in `offload` | `ParkedHasWakeSource` | closing a socket another fiber waits on loses its wakeup (net.rs:96) |

Data and remote calls:

* `[...xs]` shares the array of `xs`, so `list.set` on one is seen through the other (emit.rs:3830).
* The schema of a generic enum nested in itself is cut by the enum's name: `option (option int)` and
  `option (option string)` have one fingerprint (analyzer.rs:7911).
* Removing keys can leave an inner node that later reads as a collision bucket (dict.rs:1009).

Type checker:

* Row variables have no occurs check: `fun x { let y = x.a  x == {b: x, a: 1} }` makes `deep_resolve` run for ever.
* Definitions are generalized in source order, so with `def main fun () { f () + 1 }  def f fun () { g () }
  def g fun () { "s" }` the use in `main` is accepted.
* The rest of a record pattern takes a field named beside it again: `let {a: q, ...r} = x  r.a` is accepted.
* `[]` and `[a, b, ...]` together count as covering every list; `when` over ints, strings and tuples is accepted without a catch-all.

Middle end:

* A loop-carried dictionary or list that is also reachable through a nested loop's parameter is still updated in place (reuse.rs:527, 982).
* A single-armed `if ... is` that does not match, in a function that awaits, resumes at itself (cps.rs:335).
* A single-armed `if` in tail position returns its body's value; the names of an `if` pattern and of `using` stay
  visible after it (lower.rs:2504, 1401); `x |> f` with a constrained `f` is a lowering error.

Front end and formatter:

* `(a ?? b) or c` is printed without its parentheses; a comment after a collection item, or after the last `try`
  of a block, is printed in the middle of a line.
* Not stable or not readable again: `{a: (a)}`; a broken record pattern with a rest; nested named captures; `(let ...)`
  or `(defer ...)` as a condition or left of `|>`; `f (while ...)`; `(1).0`; a regex `\$`; a `when` whose subject ends in a `when`.
* Recovery: a malformed `use` skips the ones after it; an error inside a trait or implementation stops at
  an inner `def`; an error reported at the next definition's first token loses that definition; `when` without cases
  panics; `"a$(` at the end of the file and an unterminated bytes literal are accepted.
* 16-digit hexadecimal literals that fit in 64 bits are refused.

Tools:

* `stale_exports`: a test uses a module that passes on the type of a third, and the test and the third are open. Saving the third and analyzing it as
  a document refreshes its cache entry; the next analysis of the test finds the third unchanged and not analyzed in this pass, and reuses the module between
  with its old exports. The same happens to a document that imports itself back through another module
  and uses what that one gives (the cycle is reported either way): in `tooling` a text that closes a cycle does not use the value.
* The export cache is keyed by module name only, so two projects open in one editor share entries (compiler.rs:674).
* The gates follow only what ordinary definitions mention (reachability.rs:24): not what instances and trait defaults do, although the comment
  above speaks of all code but remote definitions, and in the server's artifact not what bodies of remote definitions do, although that artifact keeps them. A remote
  definition that uses `std/web` passes both gates. No property here is about what an artifact contains.
* `dev` takes its first fingerprint after the first build; the fingerprint (number of files, latest time) misses a rename;
  a page that loads the old bundle and connects after the broadcast stays old (dev.rs:414).

## 5. Proofs

All constants are arbitrary (`SchedulerAssumption`, `ReactorAssumption`: sizes are natural
numbers, switches Boolean): the theorems hold for every program, table size, number of workers and sockets. What
a theorem needs beyond that is a hypothesis of it.

| Theorem | Says | Under |
|---|---|---|
| `SchedulerProofs!TypeCorrect` | `Spec => []TypeOK` | |
| `SchedulerProofs!OutcomesFinal` | `Spec => SettledOnce` | |
| `ScopeProofs!LiveCountRight` | `Spec => []LiveCount` | `Disciplined` |
| `ScopeProofs!NothingOutlives` | `Spec => []NothingOutlivesScope` | `Disciplined` |
| `ScopeProofs!FreeRowsFree` | `Spec => []FreeRowsEnded` | `Disciplined` |
| `ScopeProofs!TreeStaysIntact` | `Spec => []TreeIntact` | `Disciplined` |
| `ScopeProofs!CancellationCompletes` | `Spec => []CancelEnds` | `Disciplined` |
| `ScopeProofs!LiveRowsStay` | `Spec => LiveRowKept` | `Disciplined` |
| `SourceProofs!WakeupsExact` | `Spec => []OneWakeSource` | `Careful` |
| `StructuredProofs!SchedulerIsStructured` | `Spec => Tree!Spec`, a refinement of `Structured` | `Disciplined` |
| `ReactorProofs!TypeCorrect` | `Spec => []TypeOK` | |
| `ReactorProofs!WaitsAlwaysRegistered` | `Spec => [](CloseParked \/ WaitsRegistered)` | |
| `ReactorProofs!ResultIsOwn` | `Spec => []OwnResult` | |
| `ReactorProofs!RunsOnce` | `Spec => []ExecOnce` | |
| `ReactorProofs!ResultsAwaited` | `Spec => []NoStrayResult` | |
| `ReactorProofs!WakesReachParked` | `Spec => WakeReachesParked` | |
| `ReactorProofs!WakesNotLost` | `Spec => []ParkedHasWakeSource` | `~CloseParked` |
| `ReactorProofs!SocketWaitsSurvive` | `Spec => []SocketWaitKept` | `~CloseParked` |
| `ListsProofs!ListsStayValues` | `ListSpec => []ListsAreValues` | `CloneSafe` |

**Hypotheses.** Each leaves out what section 4 shows to break the tree, the calls or the lists. The runs `scopes`, `offload` and `data`
satisfy them. `reuse` does not: `FreeRowsEnded` holds there with stale references too, which the invariant below
cannot show, since it speaks of the whole tree. The theorems about offloaded calls need none: the slots they speak of are in the
properties themselves (those outside `early`), and the others take whatever early reuse does to them.
`Disciplined` is `~StaleRefs`, `~CaptureInner`, no `defer-spawn`, and `NestedFree` empty but for empty lists:
with a stale reference, or a child that a cleanup adds behind `cancel_scope`'s back, a fiber awaiting
a scope can end before it; a captured handle spawns into an ended scope; a cleanup task's leftover free lists name live
rows. Deadlines, failures, manual scopes, drainers other than the body, awaited handles of manual scopes,
cleanups that cancel, and any depth of nesting are all included. `Careful` is `Disciplined`, `~AnyDrainer` and no
`await-manual`: when two fibers drain one scope only one is resumed by its last child (task.rs:2265), and a manual scope's child whose
handle is awaited is recycled under its awaiter (task.rs:2301); each loses a wakeup. `CloneSafe`: a program that spreads a whole list (`[...xs]`, which shares the array) does not also
set or pop; there are finitely many variables, and `MaxLen` is a natural number.

**Scheduler, types.** `TypeOK` is inductive. It says that a fiber parked on a scope has a scope
reference in `wait_arg` (without it `reap_fiber`'s cascade would call `cancel_scope` on something
else), and that each call in `work` carries a row of the table its function expects. The proof
restates it as `Typed`, by tables, queues and control, has one lemma for each way a row is
updated and one for each action.

**Scheduler, outcomes.** `SettledOnce` is not inductive by itself: a completion overwrites
`res_kind` without looking at it. `RowsInv` adds that no live fiber has an outcome
(`AliveOpen`), the pumped fiber is alive (`PumpedAlive`) and no reap runs while a fiber
is pumped (`CallsAlone`: `sched_cancel` only queues, and the loop drains between pumps). Then every step
changes each row in one of three ways (`RowsStep`): alive, outcome and generation stay, or the row is the next free
one and is handed out, or a live fiber ends; none changes a settled outcome. With the free rows of `ScopeInv` below, a row handed out is never
that of a live fiber, which is `LiveRowKept`.

**Scheduler, the tree.** The five theorems about the tree, and `LiveRowsStay`, follow from one invariant, `ScopeInv == RowsInv /\ TreeInv /\ WakeInv`; none of
the properties is inductive alone, because a cancellation is a stack of calls (`work`) in the middle of which
the tree is in pieces. Before the proof, TLC found `ScopeInv` to hold on the instance of `scopes` (1.5 million states). Its parts:

* `FiberRows`, `Bodies`, `Kids`: a live fiber belongs to an open scope and is its body or one of its children; the rows of
  the body and of children whose handles can be awaited are not recycled before the scope ends. `try_finalize` trusts
  `LIVE`, so `LiveCount` is a conjunct, and `Kids` says that the children it counts are the ones `reap_children` finds.
* `Awaited`, `Awaiting`: the fiber that opened an open scope waits for it, or has ended and the scope's cancellation is due.
* `Nesting`: the scopes around an open scope are open and form a chain. A fiber's handles are exactly those of its scope
  (`knows = Up(scope)`), so no handle names an ended scope: this is why nobody spawns into one.
* `Cancelling`: for each open scope that is ending (marked, or its body has ended), `work` holds its `try_finalize`, and before it a reap of
  each live fiber and, while the body has no outcome, `mark_cancelled`. With `work = <<>>` in the loop this is `CancelEnds`.
* `Calls`, `Order`: what each call on the stack is about; inner scopes come first. Without the order, a scope could be finalized while
  a scope inside it is still to be cancelled.
* `FreeRows`: `FreeRowsEnded`, and that rows beyond the tables' ends are unused.
* `WakeInv`: no live fiber is named twice by what can start or resume it, and one that awaits a scope is named by nothing else.
  Otherwise a second wakeup would resume the awaiter of an open scope, which then ends first. This is where `~StaleRefs` is used: a row handed out is named nowhere.

`WakeProofs` shows that each action keeps `WakeInv`, `ScopeProofs` the same of `TreeInv`. Actions that only move a queue go through
lemmas about what a step leaves alone (`SameFiber`, `SameScope`, `NextKept`); those that end a fiber or a
scope through one lemma for each way (`FiberEnds`, `LastOut`, `ReclaimedRows`).

**Scheduler, wakeups.** `WakeInv` is the "at most one" of `OneWakeSource`. `SourceProofs` adds "at least one": `SourceInv`, kept together with
`ScopeInv`, says that every live fiber but the one being pumped is `Held` (`AllHeld`). The difficulty is a reap in the middle of a cancellation: a reaped
child resumes nobody, so a fiber that awaited it, or drained its scope, has no source left until it is reaped itself. It
is held by something else, namely that the scope in question is ending (`WaitsHandle`, `Drains`); a fiber awaits only
children of scopes around it, so the calls on the stack that end the scope end the fiber too. In the loop the stack is empty, no open scope is ending
(`IdleTree`), and each way of being held is a source. The other conjuncts make this inductive: the root scope has no awaiter, a row handed out
is that of a live fiber or has an outcome (`AwaitHandle` parks only on a child without one, which is therefore alive), and an open scope's drainers are
none or its body, once. `HeldStep` reduces a step to two facts: what hangs on a scope that stays open still does, is queued, or the scope
is ending (`Carried`), and each fiber is held by something new or left as it was (`Steady`).

**Scheduler, refinement.** `Structured` has no tables, queues, generations, free lists or stack of calls. Tasks run inside scopes, known by
references that are never used for another. A task ends on its own only when it waits for no scope it opened and nothing is ending, or because a
scope around it is ending; a scope closes when it is ending and no task or scope is inside it at any depth; while one is ending nothing starts.
`StructuredProofs` maps a live fiber's row to a task inside the scopes whose handles it has, an open scope's row to a scope, a row and its
generation to a reference, and a scope that is marked or whose body has ended to one that is ending. Every action of `Next` is then one
step of `Structured` (`SpawnRefines` to `FinalizeRefines`) or none (`Unseen`). The hard case is `try_finalize`, which looks at
two fields of the scope's own row, whereas `Close` asks about everything below: `LastOut` shows from `Cancelling`, `LiveCount` and `Order`
that nothing is.

**Reactor, types.** Inductive as it stands; `discarded \subseteq inflight` is the conjunct with
content: `unwatch` marks only calls that are underway and a completion clears both.

**Reactor, waits.** `WaitsRegistered` is inductive given the types and `~CloseParked`:
`register_socket` refuses a descriptor registered for another fiber, so two waits never share one,
`poll` and `unwatch` clear both records, and a close finds no wait.

**Reactor, offloaded calls.** `CallInv` says of each slot outside `early` that it is `Own`: `PipelineOf` follows its calls along their way (queued, with
a worker, pushed, stashed in `done`), each in at most one of these places, and `inflight` has the slot exactly while one is before `done`; `FreshOf`, that a call
not run yet has a number no other has and zero executions, which gives `ExecOnce`; `SlotInv`, that what the reactor keeps of the slot fits
what its fiber does: a call on its way is the one a parked fiber will ask for, or marked discarded. It gives `OwnResult` and `NoStrayResult`; and that the slot is
buffered at most once, which gives `WakeReachesParked`. The point of stating it slot by slot is that the other slots may be in any state at all: a slot taken early may have several calls
underway, results of its predecessors, several starts in the buffer. The proof shows that each step touches what is kept of one slot only: `Apart(g)`
says that everything about slot `g` is as it was (`SameSlot`, `SameCall`), `Frame` that `Own(g)` then stays, `Others` and `OneSlot` that a step apart from every slot but one has
to be looked at for that one alone. The exceptions are the drain, which moves completions of many slots at once, and the queues that all slots share: their places shift, which
`Items` and `Once` do not see (`Moved`). `ParkedHasWakeSource` combines `CallInv` with `WaitsRegistered`. `SocketWaitKept` needs less (`Kept`), and
holds in slots taken early too.

**Lists.** `ListInv` says that the first `len` slots of a list's array are its contents (`HeapOK`), and that two lists share an array
only if the program never sets or pops and both fill it, so that a push to either makes a new array.
Garbage collection (`ListCollect`) keeps it because the arrays of bound lists stay.

**Only model-checked.** Liveness (`ReadyServed`, `DeadlineFires`, `OffloadSettles`, and those of the tools), which is outside
what the provers handle. `FailureIsSeen`, `TimersOnlyOnTimeout` and what the hypotheses exclude are not theorems: section 4 shows why.
The dictionary, codec and remote calls, compiler, front end, type checker and tool models are about recursive functions over trees,
for which the provers have no induction.


## 6. Not modelled

* Scheduler: values and continuations, task-locals (`ENV`), shield depth, the
  unwinding of activations (`STACK`) except for the cleanups it runs, the browser entry points.
  A reaped fiber's cleanups do at most one scheduler operation.
* Virtual time: a sleep fires at its order, not after real time. `poll`'s error result
  (the OS refusing to wait) is left out, since it needs a broken poller.
* Reactor: payloads, partial reads and writes, and the distinction between listeners and
  connections. A failed send to the pool needs every worker thread to have panicked. Connections opened by a
  cancelled call stay in the database worker's table (db.rs:157); the table is not in the model.
* Type checker: user traits, instances and dictionaries, annotations, aliases, scope handles, error erasure, floats, regex
  literals and the rewriting for hot reload. Lowering takes dictionaries as given.
* Middle end: record shapes (`mono.rs`, `scan.rs`), the specialization of generic functions, floats. The emitter is present
  as the meaning `IR` gives its output; instructions, type section and imports are not.
* Remote calls: a stream after its first frame, headers and the same-origin gate.
* Tools: path resolution, the read-only editor requests, the RPC proxy, the dashboard, other commands, the linter's rules.
* V8 marshalling, file and process calls: straight-line glue. Grammars, website, examples: no state.
* Browser runtime, signals and the task library: see the plan.

## 7. Plan

1. (done) `Scheduler`, `Reactor`, their runs, type correctness.
2. (done) Data, compiler, front end, type checker, tools; `Feedback` and its refinement.
3. (done) Proofs: offloaded calls, the tree of scopes, wakeups, the refinement of `Structured`, lists.
   Next: `FreeRowsEnded` with stale references.
4. `Signal`: push-pull graph with disposal inside a flush; glitch freedom against a reference evaluation.
5. `Browser`: `browser_run`, `spawn_command`, callbacks re-entering the scheduler; the live counter of the root scope.
6. `TaskLib`: race, any, pool and with-timeout over `Structured`, which `Scheduler`
   implements where rows are not reused too early.
7. Connections of cancelled database calls; traits and dictionaries in the type checker; the linter.

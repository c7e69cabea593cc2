# llama-hugs: TLA+ models, model checking and proofs

llama-hugs (a fork of llama-swap) is a proxy in front of local model servers. A
request names a model; the program starts the process that serves it, stops the
processes that may not run beside it, and forwards the request. A web interface
(`ui-svelte/`) shows what runs and is a client of its own. This directory models
what goroutines, processes, page handlers and messages do to each other, checks the
models with TLC and proves the main invariants of the server and of the pages with TLAPS.
Paths below are relative to `src/`; page paths to `src/ui-svelte/src/`.

## Inventory

The server:

| component | state it keeps | operations | hard behaviour | what makes it correct |
|---|---|---|---|---|
| process lifecycle `internal/process` | `state`, `cmd`, `handler`, WaitReady subscribers, the parked Run, `inflight`, `lastUse` | Run, EnsureReady, WaitReady, Stop, ServeHTTP, TTL goroutine, parent cancellation | start against Stop, crash against Stop, kill escalation, stale TTL goroutine | one upstream process at a time, answers that are true, nobody parked for ever |
| router core `internal/router/base.go` | run loop, swap goroutines, `shutdownCtx`, `procCtx` | ServeHTTP, Unload, Shutdown, doSwap, grants | clients that leave, late SwapDone, shutdown in the middle of a swap | every request is answered; shutdown ends |
| FIFO scheduler `internal/router/scheduler` | `active`, `reserved`, `inFlight`, `queued` | OnRequest, OnCancel, OnSwapDone, OnServeDone, OnUnload, OnShutdown | parallel swaps, bookkeeping through every race, wake-up of the queue | rivals never run together, busy models are spared, slots are accounted for |
| group planner `internal/router/group.go` | none | EvictionFor | asymmetric rules | feeds the scheduler |
| matrix planner `internal/router/matrix.go`, `internal/matrix` | compiled sets, cached decision | Compile, Solve, CanContainAll | pruned search | same optimum as the enumeration |
| in-flight tracker and UI events `internal/server/{inflight,apigroup}.go` | requests, outbox, `needsSnapshot`, publisher flag | Add, Remove, updates, publisher, SSE stream | overflow recovery, idle transition | a client's picture converges |
| event bus `internal/event` | a queue per subscriber, one condition variable | Add, Del, Broadcast, Listen | backpressure, wake-ups | every event once, in order; no wedged publisher |
| log monitor `internal/logmon`, `internal/server/log.go` | ring, broadcast channel, drop count | Write, GetHistory, stream | drops, gap between history and subscription | one log, in its order |
| response cache `internal/cache` | items, order, size | Add, Get | size accounting, an id added again | the captures stored last, within the limit |
| selectors, profiles, listing `internal/server/{selector,profiles,api}.go` | spillover counts, active profile | choose, release, switch, list | decision on a stale running set, names that collide | each reservation released once; a listed name runs what it says |
| reload, exit, watcher `llama-swap.go`, `internal/watcher` | active server and store, `reloading`, last snapshot | reload, signals, poll | failing reloads, a signal during one | nothing of an old server is left; the settled configuration is the file's |
| loading stream `internal/router/loading.go` | `released`, pending update | start, release | ResponseWriter handed over | no write after release |
| peer router `internal/router/peer.go` | `inflight` WaitGroup | ServeHTTP, Shutdown | Add against Wait | no request after shutdown |
| performance monitor `internal/perf` | rings, listeners, context | Start, Stop, UpdateConfig | stale goroutine after restart | one sampler |
| configuration, auth, filters, metrics and store, hugs, hardware, tools | mostly stateless | | parsing, SQL, platform I/O | |

The web interface is single-threaded: a handler runs up to its next `await`, and
what is hard is what happens before the answer comes.

| component | state it keeps | hard behaviour | what makes it correct |
|---|---|---|---|
| stores `stores/api.ts` | event stream, models, profiles, the Playground's list | reconnects; answers overtaken by events | the page settles at the server's state |
| playground requests `lib/playgroundInterface.ts` | task, busy, error, AbortController | abort against answer | what is shown belongs to its request |
| chat `components/playground/Chat*.svelte` | conversation, streams, throttled save, images, editors | edits and new chats under a stream | replies under their own question; nothing unsaved |
| chat stream and markdown `lib/{chatApi,markdown}.ts` | buffer, cached blocks | input cut anywhere | the cut does not matter |
| rerank, speech, transcription, images `components/playground/*.svelte` | documents and scores, voices, file, batch | what was shown changes under a request | results with what they were asked for |
| load test `components/playground/ConcurrencyInterface.svelte` | runs, phases, times | a closing marker that never comes, ticks against ends | times add up |
| activity `routes/Activity.svelte`, `components/{ActivityTable,CaptureDialog}.svelte` | page, order, rows, columns, capture | answers out of order; layouts of another release | the rows chosen last; the layout survives |
| performance `routes/Performance.svelte` | samples, timer, window | load against hide, leave and interval | one poller per visit; values at their labels |
| models `routes/{ModelsDash,ModelDetail}.svelte`, `stores/modelLoad.ts` | rows, loads, tags, variant | a load begun again while the last one ends | one load, which can be cancelled |
| disk `routes/HugsDisk.svelte` | list, marks, armed button | some deletions fail | what is listed exists |
| logs, panels, frame `routes/LogViewer.svelte`, `components/{LogPanel,ResizablePanels}.svelte`, `stores/theme.ts` | lines, filters, divider, theme, title | storage of earlier releases; a drag that ends elsewhere | nothing hidden unsaid; preferences kept |

Calls go from the HTTP server to the router (`ServeHTTP`), from the router's run
loop to the scheduler (`Scheduler`) and back (`Effects`), from swap goroutines to
the processes (`Stop`, `EnsureReady`). Changes go over the event bus to one SSE
stream per browser (`apigroup.go`), from there to the stores and from the stores to
the pages, which ask for the rest with requests of their own. Each run loop of the
server is a single goroutine that owns its state; all races are between what it
decides and what the others have done by the time the decision takes effect.

## Modules

| module | models | checked through |
|---|---|---|
| `ProcessLifecycle` | what the `Process` interface (`process.go`) promises: states, transitions, when an upstream process may exist | refined by `ProcessCommand` |
| `ProcessCommand`, `ProcessCommand_proofs` | `process_command.go`: `run()`, `doStart`, `killProcess`, the callers, the TTL goroutine, `ServeHTTP` | `ProcessCommand_*.cfg`, tlapm |
| `GroupSwapper` | `group.go`: `EvictionFor` | `MCGroupRouter`; tlapm in `FIFOScheduler_proofs` |
| `FIFOScheduler`, `FIFOScheduler_proofs` | `base.go` and `scheduler/fifo.go` for any planner | `MCGroupRouter`, `MCMatrixRouter`, tlapm |
| `MatrixSwapper`, `MatrixSwapper_proofs` | `internal/matrix/program.go`: compilation order, the pruned evaluation of set expressions, `Solve`, `CanContainAll`; `matrix.go`: the planner with its cached decision, over sequences of swaps and exits | `MCMatrixRouter`, tlapm |
| `EventBus` | `event.go`: one group of subscribers | `MCPages`; tlapm in `PagesData_proofs` |
| `SelectorSpillover` | `selector.go`: the requests of one spillover selector | `MCPages`; tlapm in `MCPages_proofs` |
| `ServerReload` | `llama-swap.go` and `watcher.go`: reload and exit | `MCPages`; tlapm in `MCPages_proofs` |
| `ResponseCache` | `cache.go` | `MCPages`; tlapm in `PagesData_proofs` |
| `InflightTracker` | `inflight.go`, the SSE handler and the list of one browser | `MCPages`; tlapm in `PagesData_proofs` |
| `LogStream` | `logging.go`, `log.go`, `stores/modelLogs.ts` and the Logs tab | `MCPages`; tlapm in `MCPages_proofs` |
| `ModelListing` | names from `config/load.go` over `api.go` to `ModelSelector.svelte`, and what the server runs for them | `MCPlayground` |
| `ApiStore` | `stores/api.ts`, and what it needs of `apigroup.go` and `server.go` | `MCPlayground`; tlapm in `MCPlayground_proofs` |
| `PlaygroundInterface` | `lib/playgroundInterface.ts`; extended by the four tabs | `MCPlayground` |
| `RerankInterface`, `SpeechInterface`, `AudioInterface`, `ImageInterface` | the tabs of the same names | `MCPlayground`; tlapm in `MCPlayground_proofs` |
| `ChatInterface`, `ChatComposer`, `ChatMessage` | the chat tab: replies and saves; what is being written; one message on the page | `MCPlayground`; tlapm in `MCPlayground_proofs` for the first |
| `ChatStream`, `StreamingMarkdown` | `lib/chatApi.ts`, `lib/markdown.ts` | `MCPlayground` |
| `ConcurrencyInterface` | the load test, with what `loading.go` sends it | `MCPlayground` |
| `ActivityPage` | rows of the activity log, with its theorem | `MCPages`, tlapm |
| `ActivityColumns`, `CaptureViewer` | columns of the two tables; captures | `MCPages`; tlapm in `PagesData_proofs` |
| `PerformancePage`, `PerformanceCharts` | polling; what is drawn | `MCPages`; tlapm in `MCPages_proofs` for the first |
| `ModelRows`, `ModelDetail` | the models page; the page of one model | `MCPages`; tlapm in `MCPages_proofs` |
| `HugsDisk` | the disk page and its handlers in `hugs_files_api.go` | `MCPages`; tlapm in `PagesData_proofs` |
| `LogPanel`, `ResizablePanels`, `AppFrame` | log panels; the divider; theme, width and title | `MCPages`; tlapm in `MCPages_proofs` for the first, in `PagesData_proofs` for the others |
| `MCGroupRouter`; `MCMatrixRouter`, `MCMatrixRouter_proofs` | the scheduler with either planner | `MC*Router*.cfg`, tlapm |
| `MCPlayground`, `MCPages` | the parts of the Playground; the other pages and services | `MCPlayground*.cfg`, `MCPages.cfg` |
| `MCPlayground_proofs`; `MCPages_proofs`, `PagesData_proofs` | the properties of these runs, part by part and then together | tlapm |

Definitions marked *variation* are what a plausible mistake in the code would
turn the next definition into. They are used by nothing in the models:
substituting one for its original must break a property. Each property of a passing
run is paired with one in `PROJECT.json`; where a property is a conjunction over
several parts, the variations of the other parts break their conjunct.

### ProcessCommand

`run()` is a loop around a `select`; `loop` says where it stands: at the outer
select, in the inner select of a start (`starting`), waiting for an aborted
`doStart` (`abortStop`, `abortParent`), inside `killProcess` (`killStop`,
`killParent`), or returned (`done`). `start` is the `doStart` goroutine and
`cancelled` its context. Upstream processes are numbered by incarnation: `cmd` and
`handler` hold the number of the one they belong to (0 is nil), `alive` is the set
the operating system runs, `sigkilled` those killProcess gave up on. Each caller is
a thread with a program counter; channels are unbuffered, so receiving is one step
of caller and loop together. A call that is abandoned (context, parentCtx) ends in
`gone`; what the loop still sends to it goes into a buffered channel nobody reads.

Each case of the two selects is one action, with everything it does up to the next
point where it can block: a Stop is `RecvStop` (state Stopping, kill begins) and
`StopDone` (process dead; handler cleared, waiters and callers answered).
`ServeHTTP` is four steps, because the TTL goroutine's three reads (state,
`inflight`, `lastUse`) fall between them. `setState` and `handler.Store` are one
step: nothing reads the two atomics together. A `ServeHTTP` call that finds no
handler answers 503 and changes nothing, so it is not a step. Time is the flag
`idle`: more than the TTL has passed since `lastUse`, initially true because
`lastUse` is zero until the first request ends (a preloaded model that was never
used is unloaded at the first tick).

`ImplementsLifecycle` is the refinement: `ProcessLifecycle` with `up` mapped to
"some upstream process is alive".

### FIFOScheduler

The run loop of `baseRouter` handles one event at a time, but handling one takes
several steps here: waiters are answered one by one (`Answer`), processes are
stopped (`loop = "stop"`), the queue is walked one request at a time (`Drain`),
and other goroutines move in between, as they do in the program. `toAnswer` and
`stopSet` are what the current event has still to do, `pending` the rest of the
queue that `drainQueue` has not looked at. `phase` is a request's goroutine in
`ServeHTTP`: waiting for its answer, serving, or leaving (its context is done and
it is sending on `cancelCh`). The unbuffered `Respond` channel is the two
disjuncts of `GrantHandler`: the grant lands when the request still waits, and
its slot is released when it does not. A swap goroutine is named by the request
that started it; `swapPc` and `toStop` are its progress through `doSwap`.

Processes appear as `proc`, with the caller whose Stop they are busy with
(`stopper`) and the swap whose start they run (`starter`). They accept a Stop or a
start only between others and make the transitions of `ProcessLifecycle`; they
may also stop by themselves (`UnloadIdle`: the TTL; `Crash`). `OnUnload` forgets
a swap and leaves its goroutine running, so a process may be started or stopped,
and a SwapDone reported, for a swap the scheduler no longer knows.

Left out: queue positions (they only feed the UI), ignored websockets (they pass by
the scheduler), unknown models (rejected before anything changes), the order in
which the waiters of one swap are answered (any order is allowed), timeouts of
Stop (`StopDone` may take any time). The end of the processes after `procCancel` is
one step here; `ProcessCommand` has the details.

### MatrixSwapper

A set expression such as `a & (b | c)` stands for a family of sets of models. The
program never expands it: `evaluate` gives each node of the expression a *frontier*
of masks, the combinations cut down to the models the query is about (the target
and what runs), without the masks contained in others. The witness tree behind a
mask is the set `models` here, and a bit mask is a set. `Solve` tries the sets in
the order of `topologicalOrder` and keeps the first of the cheapest. `Allows` is
the reference: the full expansion, which the program avoids.

Nodes are numbered; expressions are trees (a sequence of nodes with a root for
each set), references are by set name. The tokenizer and the parser, compile errors
and the set name that is only logged are left out. One thing a reader of the
configuration may not expect: sets are tried in topological order, not in YAML
order, so between equally cheap sets one that others refer to comes before them,
although `internal/config/matrix.go:27` says definition order breaks ties. `Compile`
shows it; no property is about which of two equally cheap sets is taken.

The state is the planner's: `last` is the decision kept from the last
call. The environment starts a target after its evictions, or leaves it waiting
(`EvictionFor` alone), and processes exit.

### The services around them

`EventBus` is one group of `event.go` with its mutex and its condition variable: what
is done under the mutex is one step, and a goroutine in `cond.Wait` moves again only
after a Broadcast. `Del` wakes nobody; `PublisherHasWaker` holds nevertheless, because a
full queue belongs to a listener that has something to take, deleted or not, and
broadcasts when it has handled it. A listener that was idle when it was deleted stays in
Wait until the next event of its type (`event.go:290`), and a handler that
publishes to its own group waits for itself when its queue is full; the module has
no such handler. The registry of groups (copy on write) and `Dispatcher.Close` are
left out.

`SelectorSpillover` lets each request read the processes one by one
(`RunningModels`), then choose and reserve under the selector's mutex. Reading and
choosing are apart, so requests choose on pictures of different age: `FilledInOrder`
says what holds all the same. Pin and warm keep no state.

`ServerReload` numbers servers and opened stores. It begins when main has made the first
server of the configuration it read (`llama-swap.go:101`) and has started the watcher, which
takes its `Baseline` later (`watcher.go:41`): the file may change in between, and then nobody
notices. A reload goes through its error paths (the file does not load, the store does not
open, the server is not built), SIGHUP and the watcher ask for reloads, SIGTERM may come at
any moment, and the exit may be forced after `shutdownTimeout` (`ForceExit`). A shutdown may
fail or time out (`llama-swap.go:263-270`); the server is then `failed`: the program gives it
up, and nothing says what it still runs. `stale` records that a change was dropped, that the
last reload failed, or that the baseline was taken of a file that was not the one loaded;
without it the settled configuration is the file's. A store is a number with a path, a
server a version of the file. Not modelled: a start that fails (the program exits at once),
the directory watcher, TLS and flags.

`ResponseCache` keeps the history of what was added, so that "the captures stored
last" can be said. `InflightTracker` goes from `Add` to the list on the page: outbox,
publisher goroutine, recovery snapshots, the event stream of one connection. Its handler's
`send` drops a message, an update or a snapshot, when the connection's buffer is full
(`Drop`; `apigroup.go:417-424`), and the initial list is read and sent in two steps, between
which an update may go ahead of it.
`LogStream` goes from a process's output to the Logs tab: ring, broadcast channel with
its drops, handler, the client's buffer with its drops, reader; what is written between the
reading of the history and the subscription is in neither.

### The web interface

A handler is one action up to its next `await`; what runs when a promise settles is
another. Requests under way are values in a set or a sequence (`calls`, `streams`,
`fetch`), answered at any later time, in any order, or not at all. Where the order on
the server matters, a request is served in one step and answered in another
(`HugsDisk`, `PerformancePage`). Local storage is a variable (`stored`, `saved`), and
loading the page again, with another release where that matters, is an action. Lists
are known by a version, texts by what the page can tell apart (the code blocks of a
message, the number of bars of a marker), a result by what it was computed from.

Most of what the user, the network or the browser may do that the code does not survive is
in the models, without a switch. A history variable records that it has happened, and the
property says what it excludes by naming that variable; everything else about the state
still holds and is checked:

| history | records | excluded from |
|---|---|---|
| `crossed` (`ChatInterface`) | the requests that overlap since an earlier reply was regenerated while another streamed | `CancelReaches`; in `AnswersWhatIsAbove` these requests may write into each other's replies, and no others |
| `refused` (`ChatInterface`) | the browser refused the last write of the conversation | `SavedOrScheduled` |
| `lost`, `overtaken` (`ApiStore`) | `send` dropped a message of this connection; a profile change was sent ahead of the initial profile | `StoreSettles` (`overtaken`: the profile) |
| `stale` (`ApiStore`) | the last fetch of the list failed | `StoreSettles` (the list) |
| `missed` (`InflightTracker`) | `send` dropped an update or a snapshot, or an update that the initial list has not got was sent ahead of it; until the next snapshot arrives | `EventsSettle` |
| `missed` (`ActivityPage`) | `send` dropped the newest message about the activity | `EventsSettle` |
| `overlapped` (`HugsDisk`) | a load of the page was begun while another was under way | `EventsSettle` |
| `hasty` (`PerformancePage`) | the visits that were left while they awaited a load | `OneAtATime`: their interval may go on |
| `missed` (`LogStream`) | a line was lost to the stream: to the monitor's full channel, between history and subscription, to a client that is behind | `ShownAsRecorded` (`NothingMissing`) |
| `stale` (`ServerReload`) | see above | `NothingLeftBehind` (that the configuration settles) |

`ListSettles` also leaves out a recovery snapshot that waits for the next change
(`needsSnapshot` stored after the publisher has gone idle), `ExitLeavesNothing` an exit that is
forced or that a reload runs beside. `OfferedRuns` leaves out names that have two meanings
(`OneModel`, `OneMeaning`): models that share a picker id, an alias or a picker id that is
another model's id, a pin named like a picker id. Such configurations are among those of the run.

Four parts have a switch. The passing runs have it off, and the property's comment says so:

| constant | what it would allow |
|---|---|
| `DeleteWhileBusy` (`RerankInterface`) | deleting a row while its request runs; on in `rerank_delete` |
| `Overlap` (`ChatComposer`) | picking images again while files are read: the limit is checked before (`ChatInterface.svelte:292`) |
| `LeaveWhileDragging` (`ResizablePanels`) | leaving with the divider in hand: the drag's listeners are on the document and outlive the component |
| `Keyboard` (`ChatMessage`) | reaching the controls under an open image with Tab |

## Runs

`ProcessCommand` - two incarnations (`MaxStarts = 2`) are the least in which a stale
goroutine or a late answer can meet a later process.

* `process_lifecycle` (100,316 states): one thread per method. One of each is
  enough for every pair of methods to race; two Stops race through the TTL
  threads of the other run. Health check on, no TTL.
* `process_ttl` (37,522 states): TTL on, one EnsureReady client, one HTTP client
  that is either tracked or an ignored websocket, no health check (its outcomes
  are in the other run).
* `process_ttl_stale`: finding 1, on the constants of `process_ttl`.

`MCGroupRouter` - models `a`, `b` in a swap group, `c` in an exclusive group, so that
`a` and `b` evict each other, `c` evicts both, and neither evicts `c`: parallel
swaps, collisions and the one-sided rule all occur.

* `router_swaps` (242,133 states): four requests, two for the same model with a
  concurrency limit of one (so some are rejected), `c` with the higher priority.
  No Unload: the exclusion properties are about swaps.
* `router_unload` (73,584 states): three requests for two rivals, limit two (so
  requests join swaps), one Unload of one or both models at any moment.
* `router_shutdown` (30,469 states): two requests for two rivals, one Unload and a
  shutdown at any moment.
* `router_unload_doc`: finding 2.

`MCMatrixRouter` - `router_matrix` (465,471 states) holds two questions that share no
state. The router: four requests for four models of which {a, b}, {a, c} and {c, d}
fit together; this planner is not pairwise, whether `b` has to go for `c` depends on
what else runs. The planner alone, over 96 programs: two sets over `a`, `b`, `c`, one
referring to the other and two operators deep, so that frontiers are joined and pruned
under `and` and `or` and shared through a reference; `d` is in no set. The cost of `a`
is 2, so the cheapest eviction is not the smallest.

Requests are not reused: a client that comes back is another request. Three or
four are enough for the interesting shapes: one serving, one swapping, one
queued behind both, one that cancels.

`MCPlayground` and `MCPages` instantiate one module per part over the same variables.
`part` is chosen in the initial state and never changes, so that the states of a run
are the sum of the parts', not the product; the parts have no state in common but what
their modules name as input. A property of these runs is a conjunction over the parts
it is about.

* `playground` (1,745,845 states), `pages` (3,919,272 states). The bounds are constants of the two
  modules, with their values in the configurations. In the chat, three requests and four
  messages, so that an earlier reply is regenerated while another streams and a third request
  meets the two; three events per answer, cut into pieces of up to four lines; two
  connections of the event stream, one change of the profile or the models, sent by either
  goroutine of the handler in any order; in the load test, one entry of two whose model may
  have to be loaded, with a block that is complete or cut off anywhere, and two ticks of the
  clock; configurations with distinct names, with one picker id for two models and with
  names that have two meanings. An outbox of one and a bounded buffer of the client, so that
  both overflow; two visits of the performance page with two intervals; three loads of the
  disk page, so that two overlap behind the first; a log channel of two and a client's buffer
  of one; two releases of the columns; two loads of models; a bus of two subscribers,
  two publishers and queues of one; three requests for a local target and a peer's; two edits,
  two reloads and a SIGHUP beside a SIGTERM. Each part is small enough to be explored
  whole, and in each the case its property is about occurs: the variation paired with
  the property, or with the part's conjunct, breaks it.
* `NothingMissing`, the conjunct of `ShownAsRecorded` about logs, is what `LogShown` does not say: once nothing is on its way, the tab
  ends with the last line written and has a gap only if its stream has lost a line. A panel's
  filter is the other way to leave lines out, and `LogShown` says that it is shown.
* `rerank_delete` (only the part `Rerank`) and `picker_ids` (only `Listing`, with the
  configurations `Colliding`): findings 4 and 3.

`CHECK_DEADLOCK FALSE` stands where the system may stop: every caller answered, every
bound used up, the program exited.

### What the code does that its comments do not say

1. `process_ttl_stale`: a TTL goroutine blocked in `Stop` outlives its process and
   aborts the next start (`process_command.go:304,320,338`).
2. `router_unload_doc`: after `Unload` the process may be starting again, because
   the orphaned swap goroutine reaches `EnsureReady` after the Stop
   (`fifo.go:231-241,257-262`). The same orphan breaks `RivalsApart`, `SparesBusy` and
   `StartsAreKnown` when `MaxUnloads > 0`; that is why `router_swaps` has no Unload.
3. `picker_ids`: the listing numbers colliding picker ids in map order, the
   configuration in sorted order (`api.go:235-241`, `load.go:110-111`).
4. `rerank_delete`: a row deleted while the request runs shifts the rows under the
   indices noted at submission (`RerankInterface.svelte:186-191`).

Also visible in the models, or found while writing them, without a run of their own.

The server:

* A request can enter between the TTL goroutine's reading of `inflight` and its Stop
  and be cut off (`process_command.go:315-320`; `process_command_test.go:592-593` says
  in-flight requests prevent the stop).
* `procCancel` may meet a process that is starting (`base.go:265,324-327`);
  `ShutdownCompletes` holds nevertheless.
* During Stopping the handler is still set, so `ServeHTTP` forwards to a process
  that is being killed although `process.go:63-65` speaks of a 503. A model never used
  is unloaded at the first TTL tick, because `lastUse` is zero (`process_command.go:318`).
  `setState` emits from the run loop (`:143`): a full subscriber blocks it.
* When the outbox overflows, `needsSnapshot` is stored after the send has failed; a
  publisher that has drained the outbox by then goes idle without the snapshot
  (`inflight.go:180-187`).
* A message for a browser is dropped when its connection's buffer is full
  (`apigroup.go:417-424`); nothing tells the page, which stays behind until the next one.
  The initial profile is read and sent by one goroutine while another sends changes
  (`apigroup.go:454-476`), so that an older profile may come last; the same goes for the
  initial list of requests (`:469-477`).
* Log data written between GetHistory and the subscription is in neither
  (`log.go:117`), a client that is behind misses lines without a word (`log.go:126-131`), and
  the dropped-bytes marker is put before a message that may be older than the drop
  (`logging.go:196-202`).
* A reload asked for while one runs is dropped (`llama-swap.go:204`); with SIGHUP or
  with both watchers the old configuration then stays until the next change. A SIGTERM
  during a reload leaves the new server up (`:363`). A change of the file between its
  reading (`:101`) and the watcher's baseline (`watcher.go:41`) is never seen. A server whose
  shutdown fails is given up, and its store is closed (`:263-270`). The performance monitor has the
  new settings even if the reload fails (`:224-226`).
* A sampler that reads the sensors while `UpdateConfig` restarts the monitor sees the
  new context and lives on (`monitor.go:128`); `UpdateConfig` applies no minimum to
  `Every` (`monitor.go:85`).
* Spillover targets are checked to run together by group and swap only, not by what an
  exclusive group elsewhere evicts (`config/selectors.go:120`). A profile's pin that is
  named like a picker id is listed beside the model's own record (`api.go:320-327`), and an
  alias that is another model's id is accepted (`load.go:131-138`) and listed with both.
* The closing marker of a loading block may never be sent: `finishLoading` waits a second
  (`base.go:555-561`), and a remark that is being written is not interrupted
  (`loading.go:163-189,231-233`). The load test then shows the model's own reasoning as
  loading text (`ConcurrencyInterface.svelte:181-184`). The marker itself is not cut:
  `sendInline` sends pieces of five runes, and the marker is five runes long.
* `Peer.Shutdown` may return while a request that has passed the check is still to be
  counted (`peer.go:177`). The loading goroutine writes to the ResponseWriter the
  handler takes over (`loading.go:200`).

The chat and the other tabs:

* Regenerate stays enabled on earlier replies while another streams
  (`ChatInterface.svelte:427,430-432`). Both requests then write to the last message, the end
  of the first one clears `abortController` and `isStreaming` (`:243`), and Cancel does not
  reach the one that is left.
* What `localStorage.setItem` throws is dropped, and the write is not tried again
  (`ChatInterface.svelte:95`): with a few images the copy may stay behind.
* An edit that is saved while a reply streams is lost without a word
  (`ChatMessage.svelte:65-71`, `ChatInterface.svelte:247-248`).
* The loader's text behind the closing marker can reach the reasoning when it comes in a
  chunk of its own; a block of a reply ends wherever a
  chunk ends with a newline, because the line that follows is taken for a blank one
  (`BlocksEndAtBoundaries`).
* The speech tab names an audio by the voice chosen when the answer comes, not when it
  was asked for (`SpeechInterface.svelte:176`), and keeps the voices of the model before
  until new ones arrive; LoRAs of the model before are sent with an image request.
* The second failed "waiting" phase of a load test colours the bar of the first one.
  Scores stay beside a document that was edited after it was scored.
* `copyText` reports success when `execCommand` has failed. The body stays locked when an
  open image's message is dropped.

The pages:

* The tags editor and the memory tab ask only when they are mounted, so they show the
  variant of before (`TabsOfModel`), and a save after a failed load overwrites the tags;
  a variant chosen before stays chosen when a link leads to another member of its family
  (`ModelDetail.svelte:22-25`, `LinkShowsModel`).
* A visible model that exists only as `-cuda` has no row (`ModelsDash.svelte:39-49`,
  `EveryModelListed`); tags read before a scan may be shown after it (`TagsSettle`).
* The delete button of the disk page stays armed when the marks change
  (`HugsDisk.svelte:107-131`). A refresh begun before a deletion may be answered after it,
  and then lists what is gone.
* An interval that is started when the first load ends after the performance page was left
  (`Performance.svelte:93-101,142-148`) ticks for ever, beside that of the next visit.
* A refresh beside a poll brings samples twice; GPU values are put at the
  wrong GPU when one of them does not answer (`Performance.svelte:297-336`).
* A captured stream with both `reasoning_content` and `reasoning` shows both. Any
  unsubscription ends the stream of a model's log, whatever `modelLogs.ts:8-9` says.
* `touchcancel` leaves the divider held (`ResizablePanels.svelte:43-47`); the two panels
  of one log share their settings only after the next load; the titles
  "llama-swap" and "Llama Swap" are replaced on every load, whoever chose them
  (`TitleKept`).

The names in parentheses are properties that are stated beside their module and are
in no run, because the code does not promise them.

## Fairness

`ProcessCommand`: weak fairness for the run loop, `doStart` (the health check has a
deadline), the kill timer and the exit of a SIGKILLed process, the ticker and the
passing of time, and for callers reading their answers and seeing a cancelled
parentCtx. Strong fairness for the outer select's `parentCtx` case: Go's select
chooses at random among ready cases, so it is not passed over for ever. A TTL
goroutine's Stop is eventually received in the Ready state (`RecvStop`). Not
assumed: that anyone calls, gives up, or that an upstream process exits unasked.

`FIFOScheduler`: weak fairness for the run loop, for each request's cancellation and
serving (a served request ends), for each swap goroutine's steps and for each
process's Stop and start (which `ProcessCommand`'s `StopAnswered` and
`StartAnswered` justify). Nothing is assumed of clients, of Unload and
Shutdown callers, or of processes that stop by themselves.

`MCPlayground` and `MCPages` state no fairness. What their properties say of a page at
rest ("when nothing is under way ...") is a state, not a promise that it is reached: the
network need never answer.

## What is proved

Assumptions: `ConstantsAssumption`, `SchedulerAssumption`, and for the pages
`PartsAssumption`, the conjunction of what each part assumes of its constants (bounds are
natural numbers, what is counted is a finite set); TLC evaluates them in every run that
they are about. Nothing is assumed of how many callers, requests, models or starts there are.
The theorems about the matrix name their hypotheses (a program without circles, costs that
are not negative); `MCMatrixRouter_proofs` proves the first of the programs that run checks.

**`ProcessCommand_proofs`.** `TypeCorrect`, `OneUpstreamHolds`, `StoppedMeansDownHolds`,
`InflightCoversUseHolds` and `LifecycleImplemented` (each step is a step of
`ProcessLifecycle`, or a stutter). None of these is inductive: that only one
upstream process is alive follows from who owns it. The invariant `IInv` says so:
`StartOwned` (doStart runs exactly during the inner select and its aborts),
`StateOfLoop` (what State() reports at each place of the loop), `CmdOwned` (the
latched command is the latest one, and the loop is where it can kill it),
`AliveOwned` (with no command latched and no launch under way, nothing is alive) and
`Counted` (`inflight` is the number of tracked requests between their start and
their end).

`NoStrandedWaiterHolds`, `AnswersAreTrueHolds` and `RunOutlivesProcessHolds` add one fact,
`HandlerLatched`: until the parent context ends, the handler that requests are forwarded to is
that of the latched command. With it, each place of the loop that sends an answer has just
seen what the answer says (`OkMeansReady`, `StopAnsweredDown`).

**`FIFOScheduler_proofs`.** Any planner, unloads at any time: `SwapsDisjointHolds`,
`InFlightMatchesHolds`. Any planner, no unloads (`NoUnload`): `SparesBusyHolds` and
`StartsAreKnownHolds`. No unloads and a planner that decides about each model by
itself (`PairwisePlanner`): `RivalsApartHolds`. The group planner is one (`GroupPlannerIsPairwise`), and
`GroupsApart` says what this gives, in the words of the configuration: of a swap group one model is
up at a time, and two exclusive groups that are not persistent never have a model up
together. No unloads and any family of
allowed sets that is closed under removing models (`Closed`) and that the planner's
answer keeps (`PlannerKeeps`: from an allowed set, carrying out the evictions and
adding the target gives an allowed set): `UpModelsAllowed`, what is up is allowed.
`SetPlannerKeepsSets` applies it to any planner that answers from a family of sets
(`SetPlanner`): the models that are up all belong to one set, or there is only one.
`NoUnload` cannot be dropped: finding 2 below
the runs is what an unload does to these four.

The proofs first say what each kind of step may do: `SwapMoves`, `GoroutineMoves`,
`ProcMoves`, `ServeMoves`, `AnswerMoves` go through the actions once; what follows
argues from them. The inductive invariants:

* `SwapOwned`: one goroutine for each swap, for a swap the scheduler knows, and
  what it has still to stop is part of that swap's evictions;
* `EvictedIdle`: what a swap evicts serves nobody. A model that starts to serve does
  so on the fast path, which checks for collisions, or through its own swap;
  `AnswersSpared` and `WaitersOwn` carry the second case from OnSwapDone to the
  grants it makes;
* `EvictedDown`: what has been stopped stays down, because whatever starts is the
  target of a swap, and disjoint swaps do not evict each other's targets;
* `RivalSwaps`: the rival of a swap's target has no swap, and if it is up the swap
  evicts it. A swap that starts sees its rival as running or as an active target
  (`runningSet` counts both), so it would evict it, and would collide;
* `Outcomes`: whichever of the swaps in progress are carried out first, what is up
  then is allowed. `runningSet` gives the planner the outcome of all of them, the
  planner keeps that allowed, and `Closed` gives the outcomes of fewer. What is up
  now is the outcome of none.

The second half of the module is about requests: any planner, unloads and a shutdown at
any time. `TypeOKHolds`, `ReservationAccountingHolds`, `NoRequestLostHolds`,
`WaitingIsHeld` and `QueueFairOrderHolds`. The model's own `Kept` (the removal of some
elements from the queue, a fold) and `Enqueue` get lemmas first: `KeptThins`, what is kept
is part of the queue in the same order (`Thins`); `EnqueueKeeps`, an insertion leaves the
queue sorted by priority, behind those of its own. The invariant `Loop` then says where each
request is:

* `QueueShape` and `LoopAt`: the queue and what `drainQueue` has still to look at hold
  requests, and the run loop has only the work that its place allows; `Distinct`: nobody
  is twice in the line of both;
* `Apart` and `HeldWaits`: until a shutdown a request is in the line, among the waiters of
  one swap or among those to be answered, never in two of them; whoever is there waits or is
  leaving, and whoever waits is there;
* `Accounts`: `reserved` of a model counts the requests that own a slot of it (`OwedBy`),
  within the limit. Each step takes one slot, gives one back or moves it with its request
  (`Books`);
* `HasWaker`: while somebody waits in the queue there is a swap or a served request whose
  end will drain it.

For `QueueFairOrder`, `ByPriority` says that the line is sorted, and `LineMoves` that a step puts one
request into it or thins it out; neither changes who is before whom.

**`MatrixSwapper_proofs`.** Every program without circles (`WellRanked`: the nodes can be
ranked so that each is above what it is made of; `WellMade` adds that each set is defined,
which the parser and `topologicalOrder` see to), any models, costs and running models.
The reference is `AllowedBy`, the full expansion.

* `EvaluateCovers`: the frontier of each node *covers* what the node allows: each
  combination stands for an allowed set, cut down to the relevant models, and each allowed
  set has a combination that holds at least as many of them. By induction over the rank;
  for an "and", by induction over its operands (`AndCovers`). Dominated combinations may
  go because union and "holds at least as many" go together (`AddAllCovers`,
  `CombineCovers`);
* `CompileIs`: the order lists every set, whatever the order of definition
  (`VisitOrders`: a visit only adds to the order, and adds the set);
* `CanContainAllIs`: so `CanContainAll` is exact;
* `SolveIsBest`: `Solve` gives the cheapest of all allowed sets with the target, since
  evicting fewer is no dearer (`CostMonotone`). This uses that costs are not negative;
* `ContainsExactHolds`, `AnswersBestHolds`, `OneSetRunsHolds` for the planner's
  behaviours. The invariant `PlannerInv` adds that the remembered answer is what `Solve`
  says of the remembered target and running models.

The definitions are recursive functions and folds, whose values no library theorem gives.
The module starts with what is needed of them: `RankInduct`, induction over a rank for
membership in a set; `Recursion`, a function exists that satisfies a recursive equation
whose right-hand side looks only at lower ranks; `TurnsAre`, `FoldLeft` is a loop that takes
the elements in order. From `Recursion` each recursive definition gets a lemma that it
satisfies its equation (`AllowedByIs`, `EvaluateIs`, `CollectIs`, `RefsOfIs`, `VisitIs`).

**`MCMatrixRouter_proofs`.** The composition. `MatrixRouterKeepsSets`: the scheduler with a
planner that answers as `Solve` does, for any compiled program, costs, models and
requests, without unloads: what is up can run together (`CanContainAll`), or is one model.
`SolveIsBest` makes `Solve` a `SetPlanner` over the allowed sets, and
`SetPlannerKeeps` and `OutcomesStep` of the scheduler do the rest. `OneSetUpHolds`,
`ContainsExactHolds` and `AnswersBestHolds` are the properties of the run, for any number
of requests and limits. Their hypotheses are the values that `MCMatrixRouter.cfg` gives:
`MatrixRouter` (the models a to d, no unloads, this planner) and `FourKnown` (a to d are
models). The module instantiates `MatrixSwapper_proofs`, not `MatrixSwapper`, so that the
lemmas are about the planner that the run checks.

**`MCPages_proofs`**, **`MCPlayground_proofs`**, **`PagesData_proofs`**. The runs `pages`
and `playground` put parts side by side, and so do the proofs: a part gets an inductive
invariant that its `Init` establishes and its `Next` keeps, in the names of its own module;
`PartsBegin` and `PartsStep` then say that the variables of a run move only by the steps of
the part that was chosen. The properties are stated of the run and hold for any values of
the constants (numbers of models, requests, messages, connections, bounds).

`MCPages_proofs`:

* `ReservationsBalance` and `FillsInOrder`, of the spillover selector: the counts are the
  reservations of the requests under way, and each step keeps the order in which targets
  fill. The invariant adds that a request with a reservation has a target, and one
  that is to choose has none (`Chosen`); each step then moves one request into or out of
  the holders of one target.
* `ReloadLeavesNothing`: a store outlives the servers that use it; between reloads the active
  server, its store and servers whose shutdown failed are all that may be up; once nothing
  is stale the configuration is the file's; and the exit leaves nothing unless it is forced or
  a reload runs beside it. `Holds` says what is up at each step of a reload,
  `Numbered` that what a reload has opened and built has a number, `Leaves` what
  is up on the way out, `Current` which version of the file each of them is.
* `NothingIsLeftBehind`: the selector and the reload together, as the run states them.
* `OneAtATimeHolds`: one poller for a visit of the performance page, and none for a visit that
  was left, unless it was left while it awaited its load (`hasty`); one awaited call in a tag editor, one
  load per model with a way to cancel it. `EditorInv` separates the calls that are
  awaited from those of editors that are gone: a call belongs to one editor.
* `LogIsShown`: what is in the ring, the channel and the reader's hands of the stream that is
  shown is in order and of one model, whatever older streams still deliver and whatever is
  dropped.

`MCPlayground_proofs`:

* `AnswersWhatIsAboveHolds`, `CancelReachesHolds`, `SavedOrScheduledHolds`, of the chat. The
  central part of `ChatInv` is `TrueTo`: every reply of a conversation, the shown one or the
  saved one, was begun for one request, whose prompt is the conversation up to the
  question above the reply, and was written by that request's `Writers`: itself and, if it is
  in `crossed`, the requests it overlaps with. `ChatStreams` says why: streams write to the
  reply of the newest request, and one that still runs without being the newest is in
  `crossed`; any other is the controller's, so that Cancel reaches it. `ChatSaved`: a save is
  scheduled, the browser refused the last one, or the copy is the conversation.
* `StoreSettlesHolds`. `ProfileInv` and `ListInv` say why a picture that is behind the server
  will be corrected: an event is on the wire, due or in the hands of one of the connection's
  two goroutines, an answer is under way, or one that will be discarded has another request
  behind it. What a goroutine has read last is the server's profile unless a change is due;
  `Faultless` (nothing dropped, nothing overtaken, nothing in hand) makes the last profile on
  the wire the server's, and an empty wire the page's (`ShowsProfile`). `Quiet` is the same
  for the list, without the order. `QueuedInv`: a queued refresh has a request whose end
  will start it.
* `ResultsOfTheirRequestHold`, of the rerank, transcription, image and speech tabs, under
  `~DeleteWhileBusy` (finding 4 is what a deletion does). `RerankInv`: while a request runs, the
  row that each entry names still holds the document that was sent (`Placed`), so a score that
  arrives is put beside it. `EntriesPlaced` and `JsonRanked`: what is sent is what the editor
  shows, in its order, and knows its row. They rest on lemmas about `InOrder`, a set of
  positions in ascending order (`OrderExists`, `InOrderIs`, by induction).

`PagesData_proofs`:

* `EventsAlwaysSettle`, the property of the run. For the requests in flight, `Arrives` says that what is in
  the outbox, the bus and on the wire, applied in that order, ends with what the tracker has
  of each request whose update no timer holds back, unless a snapshot is due (`Due`: asked for, about to be asked for
  after an overflow, or the outbox is being discarded for one) or the connection has missed
  something (`missed`); `Opens` that behind the opening of a connection there is a snapshot,
  unless it was dropped. For the disk page, `DiskInv`: unless loads have overlapped, one load
  is under way at a time, and of what it has read, as of the rows, only files are gone that a
  deletion under way, or one whose answer was lost, was asked to delete. For the activity
  page, `ActivitySettles` below. What the theorem leaves out is what the run's property leaves
  out (the table above).
* `BusDelivers`, of the event bus behind them: each subscriber is called with every event that
  was queued while it was subscribed, once and in the order of publication; no queue exceeds
  the limit; no listener sleeps beside a queue with something in it; a waiting publisher has
  somebody to wake it. The invariant adds that what is handled, taken and queued of a
  subscriber is the stretch of events between `span.from` and `span.to`, which ends at
  the last event published while the subscription lasts (`Spans`), and that a listener
  that is not at work has taken nothing (`Taken`).

* `PreferencesAreKept`. `ColumnsInv`, for each of the two tables: a visit that starts from what
  is stored would get the order and the visibility that are on the page (`Laid`). `KeptIs`,
  by induction over the columns, says what filtering an order gives; from it, `ReconciledIs` says
  that an order of an older release becomes one of this release without a column lost or
  doubled, and stays as it is if it was one, and `MovedIs` that a drop permutes the columns.
  `FrameInv`: the mode that is stored is the one last asked for, and a mounted page has the
  system's theme and the window's width. `SplitInv` needs that nobody leaves the page
  with the handle in hand, as the run assumes (`LeaveWhileDragging`).
* `CapturesShownAsTheyAre`, one of the conjuncts of `ShownAsRecorded`. `ViewerInv`: while a capture is
  in the dialog each of its tabs is one of the capture's own, also when it took the place of
  another that had other tabs.
* `CacheHoldsLatest`, the conjunct of `ShownAsRecorded` about the cache; `TypeOK` and `HoldsLatest` are
  inductive together. `OthersHeld`: taking the id's earlier capture out keeps the rest in the
  order of addition (`Behind`) and lowers the bytes held by just its size; `Appended`: giving up the
  oldest ones and adding the new one leaves no gap, because what was added after a
  capture that stays is behind it in the order. `SumsAlike`, by induction, compares the bytes of
  two sequences that agree on a stretch.

**`ActivityPage`.** `ActivitySettles`: the rows are those of the query chosen last, and of
what the server has once nothing is under way. `Coming` is the reason: while the rows are
behind and the newest message about them was not dropped (`missed`), a refresh is
scheduled, its request is the one whose answer will be taken, or an event is on its way to
ask for one. `Numbered`: a request is known by its number, so an answer that
was overtaken is told from the latest one.

Model-checked only:

* liveness (`StopAnswered`, `StartAnswered`, `IdleUnloads`, `RequestsSettle`, `ShutdownCompletes`):
  the prover has no support for fairness and ENABLED;
* `ReplyShown`: recursion and folds over the pieces of a stream and the lines of a text, where
  what has to be shown is about every input;
* `OfferedRuns` and `LoadTestTrue`: they are computed with `SelectSeq`, `FlattenSeq` and sums by
  folds, of whose values the provers know nothing (`Kept` and `InOrder` were written as a
  recursive function and as a choice so that they can be reasoned about);
* of `ShownAsRecorded` the charts: conversions of single values, which are checked over all
  their bounded inputs; and the logs, where what is in the history, the channel, the
  buffer and the reader's hands has to be accounted for line by line, cut at both ends.

## Not modelled

* The peer router: a table that is built once and a reverse proxy. Its shutdown flag and
  wait group are described above.
* The hand-over of the ResponseWriter in `loading.go` and the restart of the performance
  monitor's samplers: what the client and the page do with what these produce is
  modelled, they themselves are not.
* Loading, merging and expanding the configuration, the tokenizer and parser of the
  matrix language, filters and authentication: sequential text processing without state,
  which unit tests reach.
* SQL, response parsing, file-system scans, benchmarks and hardware detection: I/O.
* In the interface: layout, colours, scrolling, formats, the drawing of charts and the
  rendering of a markdown block to HTML.
* The wake-on-LAN proxy, the vLLM wrapper and the developers' tools: programs of their own
  that share nothing with the server.

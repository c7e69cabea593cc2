----------------------------- MODULE MCPages ------------------------------
(***************************************************************************)
(* The pages of the web interface other than the Playground, with the in-  *)
(* flight tracker and the log monitor that feed them, and four services of *)
(* the server: the event bus, the cache of captures, the spillover         *)
(* selectors, and the reload and exit of the program.  Each part is the    *)
(* instance of its module.  As in MCPlayground, part is chosen at the      *)
(* beginning, and the other parts have no state in that behaviour: the     *)
(* states of the run are the sum of the parts', not the product.  The      *)
(* activity page is there twice: with reconnects and a growing log, and    *)
(* with more to choose.                                                    *)
(***************************************************************************)
EXTENDS Integers, Sequences, FiniteSets

CONSTANTS
  None, NotFound, Invalid,                                    \* model values
  \* what the instances below leave open: the bounds of each part, and what it is given
  InflightIds, OutboxSize, MaxInflightChanges, MaxInflightConnects, MaxUnread,  \* InflightTracker
  SortColumns, MaxButtons,                                    \* ActivityPage, both times
  ShownModels, ShownLimits, PagesShown, MaxShownVersion, MaxReconnects, MaxRefreshes,
  ChoiceModels, ChoiceLimits, PagesChosen, MaxChoiceVersion, MaxChoiceConnects, MaxChoices,
  Releases, InflightReleases, DefaultHidden,                  \* ActivityColumns
  Captures, InflightRows, MaxCaptureCalls, MaxCopies,         \* CaptureViewer
  Intervals, MaxVisits, MaxSamples, MaxPolls, MaxHides,       \* PerformancePage
  RowModels, MaxLoads, MaxUnloads, MaxScans,                  \* ModelRows
  DiskFiles, MaxDiskLoads, MaxDiskActions,                    \* HugsDisk
  DetailModels, RouteNames, TagTexts, MaxDetailCalls, MaxMoves,  \* ModelDetail
  LogModels, BufferSize, ChanSize, SendSize, Limit, MaxWritten, MaxLogStreams,  \* LogStream
  LogLines, Matches, MaxPanelLines,                           \* LogPanel
  Positions, StoredSizes, defaultSize, minSize, Step,         \* ResizablePanels
  Names, Titles, InnerWidths,                                 \* AppFrame
  Consumers, Publishers, MaxQueue, MaxEvents,                 \* EventBus
  CacheIds, CacheSizes, CacheLimit, MaxAdds,                  \* ResponseCache
  SpillRequests, Targets, Local, Spillover, Ignored,          \* SelectorSpillover
  Paths, MaxEdits, MaxSignals, MaxReloads, Terminate          \* ServerReload

VARIABLES
  part,   \* the part that moves in this behaviour
          \* its variables, in the order in which its module declares them
  v1, v2, v3, v4, v5, v6, v7, v8, v9, v10, v11, v12, v13, v14, v15, v16, v17, v18

vars == <<part, v1, v2, v3, v4, v5, v6, v7, v8, v9, v10, v11, v12, v13, v14, v15, v16,
          v17, v18>>

\* the activity of every model has two pages
TwoPagesShown == [m \in ShownModels |-> 2]
TwoPagesChosen == [m \in ChoiceModels |-> 2]

\* the releases of the activity tables, the second of which drops a column and has a new one
TwoReleases == {<<"id", "time", "model">>, <<"id", "path", "time">>}
InflightRelease == {<<"cancel", "elapsed">>}

\* captures: a chat with reasoning and a broken line, JSON, an image without a request, a text
SSELine(c, r, isData) == [data |-> isData, content |-> c, reasoning_content |-> r, reasoning |-> <<>>]
FourCaptures ==
  {[id |-> 1, request |-> "json", response |-> "sse",
    lines |-> <<SSELine(<<>>, <<"r">>, TRUE), SSELine(<<"c">>, <<>>, FALSE), SSELine(<<"c">>, <<>>, TRUE)>>],
   [id |-> 2, request |-> "json", response |-> "json", lines |-> <<>>],
   [id |-> 3, request |-> "none", response |-> "image", lines |-> <<>>],
   [id |-> 4, request |-> "other", response |-> "text", lines |-> <<>>]}

\* models as rows, one of them unlisted and for CUDA
RowModel(base, cuda, unlisted) == [base |-> base, cuda |-> cuda, peer |-> FALSE, unlisted |-> unlisted]
TwoRows == {RowModel("a", FALSE, FALSE), RowModel("b", TRUE, TRUE)}

\* the variants of a family, one with an alias, and a peer's model
Detail(id, aliases, backend, driver, marks, peer, ready) ==
  [id |-> id, aliases |-> aliases, family |-> "f", backend |-> backend, driver |-> driver,
   marks |-> marks, peer |-> peer, ready |-> ready]
Variants ==
  <<Detail("a", {}, "", "", {"vllm"}, FALSE, FALSE),
    Detail("b", {"x"}, "llama.cpp", "cuda", {}, FALSE, TRUE),
    Detail("p", {}, "", "", {}, TRUE, FALSE)>>

\* logs: a warning and a line without one; a filter that is no regular expression
Filters == [warn |-> {"w"}, bad |-> Invalid]

Tracker == INSTANCE InflightTracker WITH
  Requests <- InflightIds, MaxChanges <- MaxInflightChanges,
  MaxConnects <- MaxInflightConnects, live <- v1, used <- v2,
  version <- v3, timers <- v4, outbox <- v5, needsSnapshot <- v6, enqueue <- v7,
  publisher <- v8, leaving <- v9, reclaiming <- v10, connection <- v11, initial <- v12,
  bus <- v13, wire <- v14, opened <- v15, connects <- v16, shown <- v17,
  missed <- v18
Activity == INSTANCE ActivityPage WITH
  Models <- ShownModels, Limits <- ShownLimits, Columns <- SortColumns,
  PagesOf <- PagesShown, MaxVersion <- MaxShownVersion, MaxConnects <- MaxReconnects,
  MaxRequests <- MaxRefreshes, version <- v1, wire <- v2, connects <- v3,
  connection <- v4, mounted <- v5, query <- v6, rows <- v7, stats <- v8,
  totalPages <- v9, requestID <- v10, timer <- v11, fetches <- v12, failed <- v13,
  missed <- v14
Choices == INSTANCE ActivityPage WITH
  Models <- ChoiceModels, Limits <- ChoiceLimits, Columns <- SortColumns,
  PagesOf <- PagesChosen, MaxVersion <- MaxChoiceVersion,
  MaxConnects <- MaxChoiceConnects, MaxRequests <- MaxChoices, version <- v1, wire <- v2,
  connects <- v3, connection <- v4, mounted <- v5, query <- v6, rows <- v7, stats <- v8,
  totalPages <- v9, requestID <- v10, timer <- v11, fetches <- v12, failed <- v13,
  missed <- v14
Table == INSTANCE ActivityColumns WITH
  columns <- v1, columnOrder <- v2, columnVisibility <- v3, dragColId <- v4,
  storedColumnOrder <- v5, storedVisibility <- v6, inflightColumns <- v7,
  inflightColumnOrder <- v8, inflightColumnVisibility <- v9, inflightDragColId <- v10,
  storedInflightColumnOrder <- v11, storedInflightVisibility <- v12, inflightOpen <- v13,
  storedInflightOpen <- v14
Viewer == INSTANCE CaptureViewer WITH
  Inflight <- InflightRows, MaxCalls <- MaxCaptureCalls, calls <- v1, loadingCaptureId <- v2,
  selectedCapture <- v3, dialogOpen <- v4, reqBodyTab <- v5, respBodyTab <- v6,
  copiedReq <- v7, copiedResp <- v8, resets <- v9, canceling <- v10, made <- v11,
  copies <- v12
Performance == INSTANCE PerformancePage WITH
  MaxCalls <- MaxPolls, now <- v1, sysRing <- v2, gpuRing <- v3, visit <- v4,
  mounted <- v5, visible <- v6, sysData <- v7, gpuData <- v8, refreshing <- v9,
  polling <- v10, pollTimer <- v11, running <- v12, calls <- v13, hasty <- v14,
  made <- v15, hides <- v16
Charts == INSTANCE PerformanceCharts WITH
  Cores <- 2, Interfaces <- {"eth"}, Gpus <- {1, 2}, VramGpus <- {2}, Steps <- {0, 1, 3},
  Bytes <- {0, 3}, Scale <- 6, Windows <- {2, 9}, MaxSamples <- 3, sysData <- v1,
  gpuData <- v2, received <- v3, now <- v4, derivedAt <- v5, selectedWindow <- v6
ModelList == INSTANCE ModelRows WITH
  Models <- RowModels, proc <- v1, meta <- v2, state <- v3, showUnlisted <- v4,
  requests <- v5, loadControllers <- v6, pendingLoads <- v7, unloads <- v8,
  unloadingAll <- v9, scan <- v10, scanning <- v11, scanError <- v12, scanSummary <- v13,
  tagCalls <- v14, hugTags <- v15, loads <- v16, stops <- v17, scans <- v18
Disk == INSTANCE HugsDisk WITH
  Files <- DiskFiles, MaxLoads <- MaxDiskLoads, MaxActions <- MaxDiskActions,
  disk <- v1, flags <- v2, report <- v3, flagged <- v4, selected <- v5,
  confirmDelete <- v6, loading <- v7, error <- v8, calls <- v9, made <- v10, lost <- v11,
  overlapped <- v12
ModelPage == INSTANCE ModelDetail WITH
  Models <- DetailModels, Names <- RouteNames, Texts <- TagTexts,
  MaxCalls <- MaxDetailCalls, serverTags <- v1, modelId <- v2, selectedId <- v3,
  editor <- v4, memory <- v5, calls <- v6, made <- v7, moves <- v8
Logs == INSTANCE LogStream WITH
  Models <- LogModels, MaxLines <- MaxWritten, MaxStreams <- MaxLogStreams,
  written <- v1, broadcastCh <- v2, dropped <- v3, streams <- v4, current <- v5,
  acc <- v6, logData <- v7
Panel == INSTANCE LogPanel WITH
  Lines <- LogLines, MaxLines <- MaxPanelLines, logData <- v1, stored <- v2,
  panels <- v3, chosen <- v4
Split == INSTANCE ResizablePanels WITH
  Stored <- StoredSizes, LeaveWhileDragging <- FALSE, saved <- v1, leftSize <- v2,
  isDragging <- v3, mouse <- v4, touch <- v5, finger <- v6, left <- v7
Frame == INSTANCE AppFrame WITH
  stored <- v1, mode <- v2, name <- v3, title <- v4, systemPrefersDark <- v5,
  screenWidth <- v6, prefersDark <- v7, innerWidth <- v8, mounted <- v9, wanted <- v10
Bus == INSTANCE EventBus WITH
  queue <- v1, listener <- v2, stop <- v3, pending <- v4, handled <- v5, publisher <- v6,
  published <- v7, span <- v8
Cache == INSTANCE ResponseCache WITH
  Ids <- CacheIds, Sizes <- CacheSizes, MaxSize <- CacheLimit, items <- v1, order <- v2,
  size <- v3, added <- v4
Selector == INSTANCE SelectorSpillover WITH
  Requests <- SpillRequests, process <- v1, inflight <- v2, rr <- v3, pc <- v4,
  running <- v5, target <- v6
Reload == INSTANCE ServerReload WITH
  file <- v1, prev <- v2, watcher <- v3, signals <- v4, reload <- v5, servers <- v6,
  stores <- v7, activeSrv <- v8, activeStore <- v9, applied <- v10, exiting <- v11,
  stale <- v12

ASSUME PartsAssumption ==
  /\ Tracker!TrackerAssumption
  /\ Activity!ActivityAssumption
  /\ Choices!ActivityAssumption
  /\ Table!ColumnsAssumption
  /\ Viewer!CaptureAssumption
  /\ Performance!PerformanceAssumption
  /\ Charts!ChartsAssumption
  /\ Disk!DiskAssumption
  /\ ModelPage!DetailAssumption
  /\ Logs!LogAssumption
  /\ Panel!PanelAssumption
  /\ Split!PanelsAssumption
  /\ Frame!FrameAssumption
  /\ Bus!BusAssumption
  /\ Cache!CacheAssumption
  /\ Selector!SpilloverAssumption
  /\ Reload!ReloadAssumption

Init ==
  \/ part = "Tracker" /\ Tracker!Init
  \/ part = "Activity" /\ Activity!Init /\ v15 = 0 /\ v16 = 0 /\ v17 = 0
     /\ v18 = 0
  \/ part = "Choices" /\ Choices!Init /\ v15 = 0 /\ v16 = 0 /\ v17 = 0
     /\ v18 = 0
  \/ part = "Table" /\ Table!Init /\ v15 = 0 /\ v16 = 0 /\ v17 = 0 /\ v18 = 0
  \/ part = "Viewer" /\ Viewer!Init /\ v13 = 0 /\ v14 = 0 /\ v15 = 0 /\ v16 = 0
     /\ v17 = 0 /\ v18 = 0
  \/ part = "Performance" /\ Performance!Init /\ v17 = 0
     /\ v18 = 0
  \/ part = "Charts" /\ Charts!Init /\ v7 = 0 /\ v8 = 0 /\ v9 = 0 /\ v10 = 0 /\ v11 = 0
     /\ v12 = 0 /\ v13 = 0 /\ v14 = 0 /\ v15 = 0 /\ v16 = 0 /\ v17 = 0 /\ v18 = 0
  \/ part = "ModelList" /\ ModelList!Init
  \/ part = "Disk" /\ Disk!Init /\ v13 = 0 /\ v14 = 0 /\ v15 = 0 /\ v16 = 0
     /\ v17 = 0 /\ v18 = 0
  \/ part = "ModelPage" /\ ModelPage!Init /\ v9 = 0 /\ v10 = 0 /\ v11 = 0 /\ v12 = 0
     /\ v13 = 0 /\ v14 = 0 /\ v15 = 0 /\ v16 = 0 /\ v17 = 0 /\ v18 = 0
  \/ part = "Logs" /\ Logs!Init /\ v8 = 0 /\ v9 = 0 /\ v10 = 0 /\ v11 = 0 /\ v12 = 0
     /\ v13 = 0 /\ v14 = 0 /\ v15 = 0 /\ v16 = 0 /\ v17 = 0 /\ v18 = 0
  \/ part = "Panel" /\ Panel!Init /\ v5 = 0 /\ v6 = 0 /\ v7 = 0 /\ v8 = 0 /\ v9 = 0
     /\ v10 = 0 /\ v11 = 0 /\ v12 = 0 /\ v13 = 0 /\ v14 = 0 /\ v15 = 0 /\ v16 = 0
     /\ v17 = 0 /\ v18 = 0
  \/ part = "Split" /\ Split!Init /\ v8 = 0 /\ v9 = 0 /\ v10 = 0 /\ v11 = 0 /\ v12 = 0
     /\ v13 = 0 /\ v14 = 0 /\ v15 = 0 /\ v16 = 0 /\ v17 = 0 /\ v18 = 0
  \/ part = "Frame" /\ Frame!Init /\ v11 = 0 /\ v12 = 0 /\ v13 = 0 /\ v14 = 0 /\ v15 = 0
     /\ v16 = 0 /\ v17 = 0 /\ v18 = 0
  \/ part = "Bus" /\ Bus!Init /\ v9 = 0 /\ v10 = 0 /\ v11 = 0 /\ v12 = 0 /\ v13 = 0
     /\ v14 = 0 /\ v15 = 0 /\ v16 = 0 /\ v17 = 0 /\ v18 = 0
  \/ part = "Cache" /\ Cache!Init /\ v5 = 0 /\ v6 = 0 /\ v7 = 0 /\ v8 = 0 /\ v9 = 0
     /\ v10 = 0 /\ v11 = 0 /\ v12 = 0 /\ v13 = 0 /\ v14 = 0 /\ v15 = 0 /\ v16 = 0
     /\ v17 = 0 /\ v18 = 0
  \/ part = "Selector" /\ Selector!Init /\ v7 = 0 /\ v8 = 0 /\ v9 = 0 /\ v10 = 0
     /\ v11 = 0 /\ v12 = 0 /\ v13 = 0 /\ v14 = 0 /\ v15 = 0 /\ v16 = 0 /\ v17 = 0
     /\ v18 = 0
  \/ part = "Reload" /\ Reload!Init /\ v13 = 0 /\ v14 = 0 /\ v15 = 0 /\ v16 = 0
     /\ v17 = 0 /\ v18 = 0

Next ==
  \/ part = "Tracker" /\ Tracker!Next
  \/ part = "Activity" /\ Activity!Next /\ UNCHANGED <<v15, v16, v17, v18>>
  \/ part = "Choices" /\ Choices!Next /\ UNCHANGED <<v15, v16, v17, v18>>
  \/ part = "Table" /\ Table!Next /\ UNCHANGED <<v15, v16, v17, v18>>
  \/ part = "Viewer" /\ Viewer!Next /\ UNCHANGED <<v13, v14, v15, v16, v17, v18>>
  \/ part = "Performance" /\ Performance!Next /\ UNCHANGED <<v17, v18>>
  \/ part = "Charts" /\ Charts!Next /\ UNCHANGED <<v7, v8, v9, v10, v11, v12, v13, v14,
       v15, v16, v17, v18>>
  \/ part = "ModelList" /\ ModelList!Next
  \/ part = "Disk" /\ Disk!Next /\ UNCHANGED <<v13, v14, v15, v16, v17, v18>>
  \/ part = "ModelPage" /\ ModelPage!Next /\ UNCHANGED <<v9, v10, v11, v12, v13, v14,
       v15, v16, v17, v18>>
  \/ part = "Logs" /\ Logs!Next /\ UNCHANGED <<v8, v9, v10, v11, v12, v13, v14, v15,
       v16, v17, v18>>
  \/ part = "Panel" /\ Panel!Next /\ UNCHANGED <<v5, v6, v7, v8, v9, v10, v11, v12, v13,
       v14, v15, v16, v17, v18>>
  \/ part = "Split" /\ Split!Next /\ UNCHANGED <<v8, v9, v10, v11, v12, v13, v14, v15,
       v16, v17, v18>>
  \/ part = "Frame" /\ Frame!Next /\ UNCHANGED <<v11, v12, v13, v14, v15, v16, v17,
       v18>>
  \/ part = "Bus" /\ Bus!Next /\ UNCHANGED <<v9, v10, v11, v12, v13, v14, v15, v16, v17,
       v18>>
  \/ part = "Cache" /\ Cache!Next /\ UNCHANGED <<v5, v6, v7, v8, v9, v10, v11, v12,
       v13, v14, v15, v16, v17, v18>>
  \/ part = "Selector" /\ Selector!Next /\ UNCHANGED <<v7, v8, v9, v10, v11, v12, v13,
       v14, v15, v16, v17, v18>>
  \/ part = "Reload" /\ Reload!Next /\ UNCHANGED <<v13, v14, v15, v16, v17, v18>>

Spec == Init /\ [][Next /\ UNCHANGED part]_vars

\* When nothing is under way, what a page lists is what the server has: the requests in
\* flight, the page and order of the activity the user chose last, the files on disk;
\* although the tracker's queue overflowed, changes were coalesced, answers came late and
\* connections broke.  Not where send has dropped the last message of a stream, where the
\* initial list was overtaken by an update or a snapshot waits for the next change
\* (Tracker!ListSettles), nor where two refreshes of the disk page overlapped
\* (Disk!ListedExists).  The bus behind them calls each subscriber with every event, in
\* order, and leaves no publisher waiting that nobody will wake.
EventsSettle ==
  /\ part = "Tracker" => Tracker!ListSettles
  /\ part = "Activity" => (Activity!TypeOK /\ Activity!RowsSettle)
  /\ part = "Choices" => (Choices!TypeOK /\ Choices!RowsSettle)
  /\ part = "Disk" => Disk!ListedExists
  /\ part = "Bus" => /\ Bus!TypeOK /\ Bus!Bounded /\ Bus!EachOnceInOrder
                      /\ Bus!NothingSleptOn /\ Bus!PublisherHasWaker

\* What is set on a page is found on the next visit: columns and their order across
\* releases, the theme across its migration, the divider where it was released.
PreferencesKept ==
  /\ part = "Table" => Table!LayoutSurvives
  /\ part = "Frame" => Frame!ThemeKept
  /\ part = "Split" => Split!SizeKept

\* A capture is shown in a form it has, the captures kept are those stored last, within
\* their limit, and a chart draws each value at its own label, the bandwidth adding up to
\* the bytes.  Once nothing is on its way, a log view ends with the last line written and
\* leaves out none since the first one it shows, unless its stream has lost one: to the
\* monitor's full channel, between the history and the subscription, or to a client that
\* is behind.
ShownAsRecorded ==
  /\ part = "Viewer" => Viewer!ShownAsWhatItIs
  /\ part = "Cache" => (Cache!TypeOK /\ Cache!HoldsLatest)
  /\ part = "Charts" => Charts!ChartsTrue
  /\ part = "Logs" => Logs!NothingMissing

\* One poller ticks for a visit of the performance page, and none for one that has ended
\* unless it was left while a load was awaited; one call of a tag editor is awaited, and
\* a model has one load under way, which its row can cancel.
OneAtATime ==
  /\ part = "Performance" => Performance!OnePoller
  /\ part = "ModelPage" => ModelPage!OneCall
  /\ part = "ModelList" => ModelList!LoadCancellable

\* A log view shows one model's log, its live lines in order and none twice.  Lines may
\* be missing from it, and nothing need say so; a panel hides lines only while its filter
\* box says so.
LogShown ==
  /\ part = "Logs" => Logs!OneLogInOrder
  /\ part = "Panel" => Panel!NothingHidden

\* What a request or a reload takes is given back once: the reservations of a selector,
\* whose targets fill up in order, and the server and the store that a reload replaces.
\* A store outlives the servers that use it, and the settled configuration is the
\* file's.  Left out are what the code leaves undone (ServerReload): a server whose
\* shutdown fails is given up; a change of the file is missed that comes while a reload
\* runs or before the watcher has its baseline; an exit that is forced, or during which a
\* reload runs, closes nothing more.
NothingLeftBehind ==
  /\ [](part = "Selector" => Selector!TypeOK /\ Selector!CountsHeld)
  /\ [][part = "Selector" => Selector!FilledInOrder]_vars
  /\ [](part = "Reload" => /\ Reload!TypeOK
                           /\ Reload!StoreOutlivesServers /\ Reload!OldServersGone
                           /\ Reload!ConfigSettles /\ Reload!ExitLeavesNothing)
=============================================================================

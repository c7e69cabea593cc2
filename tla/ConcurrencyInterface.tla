------------------------ MODULE ConcurrencyInterface ------------------------
(***************************************************************************)
(* The load test (components/playground/ConcurrencyInterface.svelte): a    *)
(* list of entries, a chat request for each at the same time, and what the *)
(* server streams into each one: the loading block of internal/router/     *)
(* loading.go, told from the model's own reasoning by its markers.  A text *)
(* is a sequence of symbols; a marker is a number of bars.                 *)
(***************************************************************************)
EXTENDS Naturals, Sequences, SequencesExt, FiniteSets, FiniteSetsExt

CONSTANTS
  Entries,    \* ids of the test list's entries
  Unready,    \* bound: those whose model may have to be loaded for the test
  None,
  Marker,     \* LOAD_MARKER
  Replies,    \* what a model may stream: sequences of chunks
  Updates,    \* how many lines a loading block may say between its marks
  MaxClock    \* bound: the time that passes

VARIABLES
  testList,   \* testListStore: the entries queued, in order
  dragIndex,  \* the card being dragged, 0 for none
  runs,       \* by entry: its RunState, None where there is none
  isRunning,
  stopped,    \* the abort controller's signal
  clock

vars == <<testList, dragIndex, runs, isRunning, stopped, clock>>

Phases == {"waiting", "loading", "reasoning", "content"}
Chunk(kind, text) == [kind |-> kind, text |-> text]

\* sendLine, sendInline and sendData of the loading writer: each call of sendData
\* is a chunk of reasoning content (the marker is as long as a piece of sendInline, five
\* runes, so it is one chunk)
LoaderSays(text) == Chunk("reasoning", text)
SendLine(text) == <<LoaderSays(text), LoaderSays(<<"nl">>)>>
LoadingHeader == SendLine(Marker) \o SendLine(<<"text">>)
LoadingBlock(updates) ==
  LoadingHeader
    \o FlattenSeq([i \in 1..updates |-> <<LoaderSays(<<"nl">>), LoaderSays(<<"text">>), LoaderSays(<<"space">>)>>])
    \o <<LoaderSays(<<"nl">>)>> \o SendLine(<<"text">>) \o SendLine(Marker) \o SendLine(<<"space">>)

\* what a request may receive: the reply of a model that was ready, or one behind the
\* loading block
Script(block, reply) == [block |-> block, reply |-> reply]
Blocks(e) == {<<>>} \cup IF e \in Unready THEN {LoadingBlock(u) : u \in Updates} ELSE {}
Scripts(e) == {Script(block, reply) : block \in Blocks(e), reply \in Replies}

EmptyRun == [status |-> "waiting", loadingText |-> <<>>, reasoningContent |-> <<>>, content |-> 0,
             loadingDone |-> FALSE, ms |-> [p \in Phases |-> 0], phase |-> "waiting", elapsed |-> 0,
             start |-> 0, phaseStart |-> 0, script |-> Script(<<>>, <<>>), taken |-> 0]

Init ==
  /\ testList = <<>> /\ dragIndex = 0 /\ runs = [e \in Entries |-> None]
  /\ isRunning = FALSE /\ stopped = FALSE /\ clock = 0

-----------------------------------------------------------------------------
\* ingestReasoning: the loading text, the reasoning, whether the block is over
\* and the phase that begins

Ingested(loading, reasoning, done, phase) ==
  [loadingText |-> loading, reasoningContent |-> reasoning, loadingDone |-> done, phase |-> phase]

Blank(s) == s \in {"nl", "space"}
\* /^[ \t]*\n?/ removed
Stripped(text) ==
  LET blanks == CHOOSE n \in 0..Len(text) :
                  /\ \A i \in 1..n : text[i] = "space"
                  /\ n = Len(text) \/ text[n + 1] # "space"
  IN IF blanks < Len(text) /\ text[blanks + 1] = "nl"
     THEN SubSeq(text, blanks + 2, Len(text)) ELSE SubSeq(text, blanks + 1, Len(text))

\* the first place at or behind from where word begins in text, 0 for none
IndexOf(text, word, from) ==
  LET places == {i \in from..(Len(text) - Len(word) + 1) : SubSeq(text, i, i + Len(word) - 1) = word}
  IN IF places = {} THEN 0 ELSE CHOOSE i \in places : \A j \in places : i <= j

IngestReasoning(prev, chunk) ==
  LET combined == prev.loadingText \o chunk
      closing  == IndexOf(combined, Marker, Len(Marker) + 1)
      newline  == IF closing = 0 THEN 0 ELSE IndexOf(combined, <<"nl">>, closing)
      end      == IF newline = 0 THEN Len(combined) ELSE newline
      rest     == Stripped(SubSeq(combined, end + 1, Len(combined)))
  IN CASE prev.loadingDone ->
            Ingested(prev.loadingText, prev.reasoningContent \o chunk, TRUE, "reasoning")
       [] ~prev.loadingDone /\ ~IsPrefix(Marker, combined) /\ ~IsPrefix(combined, Marker) ->
            Ingested(<<>>, prev.reasoningContent \o combined, TRUE, "reasoning")
       [] ~prev.loadingDone /\ (IsPrefix(Marker, combined) \/ IsPrefix(combined, Marker)) /\ closing = 0 ->
            Ingested(combined, prev.reasoningContent, FALSE, "loading")
       [] OTHER ->
            Ingested(SubSeq(combined, 1, end), prev.reasoningContent \o rest, TRUE,
                     IF rest = <<>> THEN "waiting" ELSE "reasoning")

-----------------------------------------------------------------------------
\* the left column: its buttons and inputs are disabled while the test runs, but Stop
Unlocked == ~isRunning

AddModel(e) ==
  /\ Unlocked /\ e \notin ToSet(testList)
  /\ testList' = Append(testList, e)
  /\ UNCHANGED <<dragIndex, runs, isRunning, stopped, clock>>

RemoveEntry(e) ==
  /\ ~isRunning /\ e \in ToSet(testList)
  /\ testList' = SelectSeq(testList, LAMBDA x : x # e)
  /\ runs' = [runs EXCEPT ![e] = None]
  /\ UNCHANGED <<dragIndex, isRunning, stopped, clock>>

ClearAll ==
  /\ Unlocked /\ testList # <<>>
  /\ testList' = <<>> /\ runs' = [e \in Entries |-> None]
  /\ UNCHANGED <<dragIndex, isRunning, stopped, clock>>

DragStart(i) ==
  /\ ~isRunning /\ i \in DOMAIN testList /\ dragIndex' = i
  /\ UNCHANGED <<testList, runs, isRunning, stopped, clock>>

\* onDrop: the dragged card takes the place of card i
Drop(i) ==
  /\ ~isRunning /\ dragIndex \in DOMAIN testList /\ i \in DOMAIN testList
  /\ testList' = InsertAt(RemoveAt(testList, dragIndex), i, testList[dragIndex])
  /\ dragIndex' = 0
  /\ UNCHANGED <<runs, isRunning, stopped, clock>>

DragEnd ==
  /\ dragIndex # 0 /\ dragIndex' = 0
  /\ UNCHANGED <<testList, runs, isRunning, stopped, clock>>

\* run and the beginning of each runOne; script is what the servers will stream
Run(script) ==
  /\ Unlocked /\ dragIndex = 0 /\ testList # <<>>
  /\ isRunning' = TRUE /\ stopped' = FALSE
  /\ runs' = [e \in Entries |->
                IF e \in ToSet(testList)
                THEN [EmptyRun EXCEPT !.status = "streaming", !.start = clock, !.phaseStart = clock,
                                      !.script = script[e]]
                ELSE None]
  /\ UNCHANGED <<testList, dragIndex, clock>>

Streaming(e) == runs[e] # None /\ runs[e].status = "streaming"

\* (variation: the time counted is not taken off)
AccruedAgain(run) ==
  [run EXCEPT !.ms[run.phase] = @ + (clock - run.phaseStart), !.elapsed = clock - run.start]

\* accrue: the time since the last change goes to the phase
Accrued(run) ==
  [run EXCEPT !.ms[run.phase] = @ + (clock - run.phaseStart), !.elapsed = clock - run.start,
              !.phaseStart = clock]

Tick ==
  /\ clock < MaxClock /\ clock' = clock + 1
  /\ UNCHANGED <<testList, dragIndex, runs, isRunning, stopped>>

\* the ticker of runOne
Ticker(e) ==
  /\ Streaming(e) /\ runs' = [runs EXCEPT ![e] = Accrued(@)]
  /\ UNCHANGED <<testList, dragIndex, isRunning, stopped, clock>>

Sent(run) == run.script.block \o run.script.reply

\* finishLoading and release: the server waits a second for the block to be completed and
\* no longer, and a remark that is being said is said to its end; so behind its header
\* the block may end anywhere
Release(e) ==
  /\ Streaming(e)
  /\ runs[e].taken \in Len(LoadingHeader)..(Len(runs[e].script.block) - 1)
  /\ runs' = [runs EXCEPT ![e].script.block = SubSeq(@, 1, runs[e].taken)]
  /\ UNCHANGED <<testList, dragIndex, isRunning, stopped, clock>>

\* the next chunk
Receive(e) ==
  /\ Streaming(e) /\ ~stopped /\ runs[e].taken < Len(Sent(runs[e]))
  /\ LET prev  == Accrued(runs[e])
         chunk == Sent(prev)[prev.taken + 1]
         read  == IngestReasoning(prev, chunk.text)
     IN runs' = [runs EXCEPT ![e] =
          IF chunk.kind = "content"
          THEN [prev EXCEPT !.content = @ + 1, !.phase = "content", !.taken = @ + 1]
          ELSE [prev EXCEPT !.loadingText = read.loadingText, !.reasoningContent = read.reasoningContent,
                            !.loadingDone = read.loadingDone, !.phase = read.phase, !.taken = @ + 1]]
  /\ UNCHANGED <<testList, dragIndex, isRunning, stopped, clock>>

\* the end of runOne; run ends with the last
Settle(e, status) ==
  /\ Streaming(e)
  /\ runs' = [runs EXCEPT ![e] = [Accrued(@) EXCEPT !.status = status]]
  /\ isRunning' = \E x \in Entries \ {e} : Streaming(x)
  /\ stopped' = (stopped /\ isRunning')
  /\ UNCHANGED <<testList, dragIndex, clock>>

Done(e)   == ~stopped /\ Settle(e, "done")
Failed(e) == Settle(e, "error")   \* the request fails or is aborted

Stop ==
  /\ isRunning /\ ~stopped /\ stopped' = TRUE
  /\ UNCHANGED <<testList, dragIndex, runs, isRunning, clock>>

Next ==
  \/ \E e \in Entries : AddModel(e) \/ RemoveEntry(e)
  \/ \E e \in Entries : Ticker(e) \/ Release(e) \/ Receive(e) \/ Done(e) \/ Failed(e)
  \/ \E i \in 1..Cardinality(Entries) : DragStart(i) \/ Drop(i)
  \/ \E script \in [Entries -> UNION {Scripts(e) : e \in Entries}] :
       (\A e \in Entries : script[e] \in Scripts(e)) /\ Run(script)
  \/ ClearAll \/ DragEnd \/ Stop \/ Tick

Spec == Init /\ [][Next]_vars

-----------------------------------------------------------------------------
\* What is drawn of a run

PhaseOrder == <<"waiting", "loading", "reasoning", "content">>

\* waitingBarClass and its like: the phase a run failed in is red, a finished
\* content is green
BarColor(run, phase) ==
  IF run.status = "error" /\ run.phase = phase THEN "red"
  ELSE IF run.status = "done" /\ phase = "content" THEN "green"
  ELSE phase

\* the row of the timeline: a bar for each phase that took time, behind the ones before it
Bars(run) ==
  LET before(k) == MapThenSumSet(LAMBDA i : run.ms[PhaseOrder[i]], 1..(k - 1))
  IN {[phase |-> PhaseOrder[k], from |-> before(k), to |-> before(k) + run.ms[PhaseOrder[k]],
       color |-> BarColor(run, PhaseOrder[k])] : k \in {i \in 1..4 : run.ms[PhaseOrder[i]] > 0}}

\* the card: the time, the status and which texts there are
Card(e) ==
  IF runs[e] = None THEN [status |-> "waiting", elapsed |-> 0, texts |-> {}]
  ELSE [status |-> runs[e].status, elapsed |-> runs[e].elapsed,
        texts |-> {t \in {"loading", "reasoning", "content"} :
                     CASE t = "loading" -> runs[e].loadingText # <<>>
                       [] t = "reasoning" -> runs[e].reasoningContent # <<>>
                       [] OTHER -> runs[e].content > 0}]

\* The bars of the timeline fill the row: whatever chunks, ticks of the clock and
\* the ticker come between, they cover the time the card shows and nothing twice,
\* and what was received has its text on the card.
TimesAddUp ==
  \A e \in Entries : runs[e] # None =>
    /\ \A t \in 0..(runs[e].elapsed - 1) :
         Cardinality({b \in Bars(runs[e]) : b.from <= t /\ t < b.to}) = 1
    /\ \A b \in Bars(runs[e]) : b.to <= Card(e).elapsed
    /\ runs[e].start + Card(e).elapsed <= clock
    /\ runs[e].taken > 0 => Card(e).texts # {}

\* What a run has received as reasoning, and how many markers of the loader's
Taken(run) ==
  FlattenSeq([i \in 1..run.taken |-> IF Sent(run)[i].kind = "reasoning" THEN Sent(run)[i].text ELSE <<>>])
MarkersTaken(run) == Cardinality({i \in 1..run.taken : Sent(run)[i].text = Marker})

\* The loading block and the model's reasoning are told apart, whenever the two markers of
\* the block were received or none: what is shown as reasoning is, but for blanks, what
\* the model reasoned.  Where the server gave up the block before its closing marker,
\* which the page cannot know, nothing of the model's reasoning is lost: it is shown as
\* loading text, behind the block's.
ReasoningIsTheModels ==
  \A e \in Entries : runs[e] # None =>
    IF MarkersTaken(runs[e]) = 1
    THEN runs[e].loadingText = Taken(runs[e]) /\ runs[e].reasoningContent = <<>>
    ELSE /\ SelectSeq(runs[e].reasoningContent, LAMBDA s : ~Blank(s))
               = SelectSeq(Taken(runs[e]), LAMBDA s : s = "thought")
         /\ "thought" \notin ToSet(runs[e].loadingText)
=============================================================================

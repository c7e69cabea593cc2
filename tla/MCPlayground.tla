--------------------------- MODULE MCPlayground ---------------------------
(***************************************************************************)
(* The Playground: its tabs, what they are made of, and the store and the  *)
(* listing that name the models; each part is the instance of its module.  *)
(* The parts share no state but what the modules name as input, so one run *)
(* checks them side by side: part is chosen at the beginning, and the      *)
(* other parts have no state in that behaviour.  That makes the states of  *)
(* a run the sum of the parts', not the product.                           *)
(***************************************************************************)
EXTENDS Naturals, Sequences, FiniteSets

CONSTANTS
  None, Failure, Invalid,   \* model values
  Parts,                    \* the parts to check
  DeleteWhileBusy,          \* of RerankInterface
  Configurations,           \* of the model names: what may be loaded
  \* what the instances below leave open: the bounds of each part, and what it is given
  ChatTexts, MaxStreams, MaxMessages,          \* ChatInterface
  Profiles, MaxConnects, MaxChanges,   \* ApiStore
  SpeechModels, Offers, DefaultVoices,         \* SpeechInterface
  AudioModels, AudioFiles, BadFile,            \* AudioInterface
  ImageModels, ImageSizes, Loras, Multipliers, MaxBatch  \* ImageInterface

VARIABLES
  part,   \* the part that moves in this behaviour
          \* its variables, in the order in which its module declares them
  v1, v2, v3, v4, v5, v6, v7, v8, v9, v10, v11, v12, v13, v14, v15, v16, v17, v18, v19,
  v20, v21, v22, v23

vars == <<part, v1, v2, v3, v4, v5, v6, v7, v8, v9, v10, v11, v12, v13, v14, v15, v16,
          v17, v18, v19, v20, v21, v22, v23>>

\* rerank: relevance of the documents, and what the tab begins with
Docs == {"d1", "d2"}
DefaultDocs == <<"d1">>
Relevance == [d1 |-> 1, d2 |-> 2]

\* speech: each model has a voice of its own
VoiceOfEach == [m \in SpeechModels |-> IF m = "m1" THEN <<"v1">> ELSE <<"v2">>]
OneVoice == <<"v0">>

\* messages of the chat: one with text only, and a reply with images
Messages == {[role |-> "user", images |-> FALSE], [role |-> "assistant", images |-> TRUE]}

\* conversations with every kind of part, and answers of three events in each dialect,
\* with the last line complete or not
Text(v) == [type |-> "text", value |-> v]
Image(t) == [type |-> t, value |-> "i"]
Msg(r, ps) == [role |-> r, parts |-> ps]
Conversations ==
  {<<Msg("system", <<Text("s")>>), Msg("user", <<Text("a"), Image("image_data")>>),
     Msg("assistant", <<Text("r")>>), Msg("user", <<Image("image_link")>>)>>,
   <<Msg("user", <<Text("a"), Image("image_data")>>), Msg("assistant", <<Text("r")>>),
     Msg("user", <<Text("b")>>)>>}

Line(f, v) == [field |-> f, value |-> v]
NL == Line("newline", "")
Event(e, v) == <<Line("event", e), NL, Line("data", v), NL, NL>>
Comment == <<Line("", ""), NL>>
DataLines == {<<Line("data", v), NL>> : v \in {"content", "reasoning", "done", ""}}
             \cup {<<NL>>, Comment}
MessagesEvents ==
  {Event("message_stop", ""), Event("content_block_delta", "text_delta"),
   Event("content_block_delta", "thinking_delta"), Event("ping", ""), Comment \o <<NL>>}
ResponsesEvents ==
  {Event("response.completed", ""), Event("response.output_text.delta", "delta"),
   Event("response.reasoning_summary_text.delta", "delta"), Event("response.created", ""),
   Comment \o <<NL>>}
Three(events, tails) == {((x \o y) \o z) \o t : x \in events, y \in events, z \in events, t \in tails}
Answers == [e \in {"v1/chat/completions", "v1/messages", "v1/responses"} |->
  CASE e = "v1/messages"  -> Three(MessagesEvents, {<<>>, <<Line("event", "message_stop"), NL>>})
    [] e = "v1/responses" -> Three(ResponsesEvents, {<<>>, <<Line("event", "response.completed"), NL>>})
    [] OTHER              -> Three(DataLines, {<<>>, <<Line("data", "content")>>})]

\* load test: the marker of the loading block, and what a model sends
Marker == <<"bar", "bar">>
Replies == {<<[kind |-> "reasoning", text |-> <<"thought">>], [kind |-> "content", text |-> <<>>]>>}

M(id, picker, aliases, unlisted, caps) ==
  [id |-> id, pickerID |-> picker, aliases |-> aliases, unlisted |-> unlisted, capabilities |-> caps]
Pin(name, target) == [name |-> name, target |-> target]
Selector(id, strategy, targets) ==
  [id |-> id, strategy |-> strategy, targets |-> targets, unlisted |-> FALSE]
\* a configuration with aliases, a picker id, an unlisted model, selectors, peers that share
\* a model, and profiles that pin names to models, selectors and nothing
Distinct ==
  {[models |-> <<M(<<"a">>, <<"lr-a">>, {<<"a2">>}, FALSE, {"rerank"}),
                 M(<<"b">>, <<"b">>, {<<"b2">>}, FALSE, {}), M(<<"c">>, <<"c">>, {}, TRUE, {})>>,
    includeAliases |-> include,
    peers |-> {<<"p", "m">>, <<"q", "m">>, <<"q", "n">>},
    selectors |-> {Selector(<<"s">>, "pin", <<(<<"b2">>), (<<"n">>)>>),
                   Selector(<<"w">>, "warm", <<(<<"lr-a">>), (<<"b">>)>>)},
    profiles |-> [day   |-> {Pin(<<"gpt">>, <<"s">>), Pin(<<"b">>, <<"c">>)},
                  night |-> {Pin(<<"gpt">>, <<"a">>), Pin(<<"a2">>, <<>>)}]] : include \in BOOLEAN}
\* two models that come to the same picker id: both are given it in the configuration,
\* or their ids differ only in case
Colliding ==
  {[models |-> <<M(<<"hugs-X">>, <<"lr-x">>, {}, FALSE, {}), M(<<"hugs-x">>, <<"lr-x">>, {}, FALSE, {})>>,
    includeAliases |-> FALSE, peers |-> {}, selectors |-> {},
    profiles |-> [day |-> {Pin(<<"gpt">>, <<"hugs-x">>)}]]}
\* an alias and a picker id that are the ids of other models, and a pin named like a
\* picker id
Shadowing ==
  {[models |-> <<M(<<"a">>, <<"lr-a">>, {<<"b">>}, FALSE, {}), M(<<"b">>, <<"b">>, {}, FALSE, {}),
                 M(<<"d">>, <<"a">>, {<<"d2">>}, FALSE, {"rerank"})>>,
    includeAliases |-> include, peers |-> {}, selectors |-> {},
    profiles |-> [day |-> {Pin(<<"lr-a">>, <<"b">>), Pin(<<"gpt">>, <<"d2">>)}]] : include \in BOOLEAN}
AllConfigurations == (Distinct \cup Colliding) \cup Shadowing
Tab(caps, any) == [capabilities |-> caps, any |-> any]
Tabs == {Tab({}, FALSE), Tab({"rerank"}, FALSE), Tab({"rerank", "image"}, TRUE)}

Chat == INSTANCE ChatInterface WITH
  Texts <- ChatTexts, messages <- v1, streams <- v2, crossed <- v3, isStreaming <- v4,
  isReasoning <- v5, controller <- v6, saved <- v7, refused <- v8, saveTimer <- v9,
  recent <- v10, editing <- v11
Composer == INSTANCE ChatComposer WITH
  Texts <- {"", "t"}, Files <- {"f", "g"}, Invalid <- {"g"}, MaxImages <- 1,
  MaxPicks <- 2, MaxSends <- 2, Overlap <- FALSE, userInput <- v1, isExpanded <- v2,
  expandedValue <- v3, attachedImages <- v4, reading <- v5, imageError <- v6,
  isStreaming <- v7, sent <- v8, picks <- v9
Message == INSTANCE ChatMessage WITH
  MaxBlocks <- 2, MaxCopies <- 1, Keyboard <- FALSE, shown <- v1, isStreaming <- v2,
  isReasoning <- v3, reasoning <- v4, blocks <- v5, pres <- v6, mutated <- v7,
  copied <- v8, timers <- v9, showRaw <- v10, showReasoning <- v11, isEditing <- v12,
  modal <- v13, overflow <- v14
Stream == INSTANCE ChatStream WITH
  MaxCut <- 4, endpoint <- v1, conversation <- v2, body <- v3, arriving <- v4,
  taken <- v5, buffer <- v6, chunks <- v7, status <- v8
Markdown == INSTANCE StreamingMarkdown WITH
  Symbols <- {"x", "nl", "ticks", "dollars"}, MaxText <- 5, MaxCut <- 3, MaxBlocks <- 2,
  text <- v1, streaming <- v2, cache <- v3, pending <- v4
Rerank == INSTANCE RerankInterface WITH
  Blank <- "blank", MaxRows <- 3, DeleteWhileBusy <- DeleteWhileBusy, task <- v1,
  busy <- v2, error <- v3, abort <- v4, rows <- v5, mode <- v6, jsonText <- v7,
  jsonError <- v8, usage <- v9, sortOrder <- v10
Speech == INSTANCE SpeechInterface WITH
  Models <- SpeechModels, task <- v1, busy <- v2, error <- v3, abort <- v4, model <- v5,
  voice <- v6, voices <- v7, fetching <- v8, cache <- v9, audio <- v10,
  audioVoice <- v11, autoPlay <- v12, playing <- v13, live <- v14
Audio == INSTANCE AudioInterface WITH
  Models <- AudioModels, Files <- AudioFiles, task <- v1, busy <- v2, error <- v3,
  abort <- v4, model <- v5, file <- v6, result <- v7, copied <- v8
Images == INSTANCE ImageInterface WITH
  Models <- ImageModels, Sizes <- ImageSizes, task <- v1, busy <- v2, error <- v3,
  abort <- v4, model <- v5, mode <- v6, size <- v7, panel <- v8, batch <- v9,
  availableLoras <- v10, selectedLoras <- v11, loraState <- v12, images <- v13,
  fullscreen <- v14
Concurrency == INSTANCE ConcurrencyInterface WITH
  Entries <- {"e1", "e2"}, Unready <- {"e1"}, Updates <- {1}, MaxClock <- 2, testList <- v1,
  dragIndex <- v2, runs <- v3, isRunning <- v4, stopped <- v5, clock <- v6
Listing == INSTANCE ModelListing WITH
  config <- v1, activeProfile <- v2, listing <- v3, selected <- v4, requested <- v5
Store == INSTANCE ApiStore WITH
  enabled <- v1, source <- v2, retry <- v3, wire <- v4, intro <- v5, due <- v6,
  told <- v7, lost <- v8, overtaken <- v9, serverProfile <- v10, serverModels <- v11,
  profiles <- v12, activeProfile <- v13, calls <- v14, switching <- v15, mounted <- v16,
  debounce <- v17, listed <- v18, fetch <- v19, queued <- v20, stale <- v21,
  connects <- v22, changes <- v23

ASSUME PartsAssumption ==
  /\ Chat!ChatAssumption
  /\ Composer!ComposerAssumption
  /\ Listing!ListingAssumption
  /\ Store!StoreAssumption

Init ==
  /\ part \in Parts
  /\ \/ part = "Chat" /\ Chat!Init
        /\ v12 = 0 /\ v13 = 0 /\ v14 = 0 /\ v15 = 0 /\ v16 = 0 /\ v17 = 0 /\ v18 = 0
        /\ v19 = 0 /\ v20 = 0 /\ v21 = 0 /\ v22 = 0 /\ v23 = 0
     \/ part = "Composer" /\ Composer!Init
        /\ v10 = 0 /\ v11 = 0 /\ v12 = 0 /\ v13 = 0 /\ v14 = 0 /\ v15 = 0 /\ v16 = 0
        /\ v17 = 0 /\ v18 = 0 /\ v19 = 0 /\ v20 = 0 /\ v21 = 0 /\ v22 = 0 /\ v23 = 0
     \/ part = "Message" /\ Message!Init
        /\ v15 = 0 /\ v16 = 0 /\ v17 = 0 /\ v18 = 0 /\ v19 = 0 /\ v20 = 0 /\ v21 = 0
        /\ v22 = 0 /\ v23 = 0
     \/ part = "Stream" /\ Stream!Init
        /\ v9 = 0 /\ v10 = 0 /\ v11 = 0 /\ v12 = 0 /\ v13 = 0 /\ v14 = 0 /\ v15 = 0
        /\ v16 = 0 /\ v17 = 0 /\ v18 = 0 /\ v19 = 0 /\ v20 = 0 /\ v21 = 0 /\ v22 = 0
        /\ v23 = 0
     \/ part = "Markdown" /\ Markdown!Init
        /\ v5 = 0 /\ v6 = 0 /\ v7 = 0 /\ v8 = 0 /\ v9 = 0 /\ v10 = 0 /\ v11 = 0
        /\ v12 = 0 /\ v13 = 0 /\ v14 = 0 /\ v15 = 0 /\ v16 = 0 /\ v17 = 0 /\ v18 = 0
        /\ v19 = 0 /\ v20 = 0 /\ v21 = 0 /\ v22 = 0 /\ v23 = 0
     \/ part = "Rerank" /\ Rerank!Init
        /\ v11 = 0 /\ v12 = 0 /\ v13 = 0 /\ v14 = 0 /\ v15 = 0 /\ v16 = 0 /\ v17 = 0
        /\ v18 = 0 /\ v19 = 0 /\ v20 = 0 /\ v21 = 0 /\ v22 = 0 /\ v23 = 0
     \/ part = "Speech" /\ Speech!Init
        /\ v15 = 0 /\ v16 = 0 /\ v17 = 0 /\ v18 = 0 /\ v19 = 0 /\ v20 = 0 /\ v21 = 0
        /\ v22 = 0 /\ v23 = 0
     \/ part = "Audio" /\ Audio!Init
        /\ v9 = 0 /\ v10 = 0 /\ v11 = 0 /\ v12 = 0 /\ v13 = 0 /\ v14 = 0 /\ v15 = 0
        /\ v16 = 0 /\ v17 = 0 /\ v18 = 0 /\ v19 = 0 /\ v20 = 0 /\ v21 = 0 /\ v22 = 0
        /\ v23 = 0
     \/ part = "Images" /\ Images!Init
        /\ v15 = 0 /\ v16 = 0 /\ v17 = 0 /\ v18 = 0 /\ v19 = 0 /\ v20 = 0 /\ v21 = 0
        /\ v22 = 0 /\ v23 = 0
     \/ part = "Concurrency" /\ Concurrency!Init
        /\ v7 = 0 /\ v8 = 0 /\ v9 = 0 /\ v10 = 0 /\ v11 = 0 /\ v12 = 0 /\ v13 = 0
        /\ v14 = 0 /\ v15 = 0 /\ v16 = 0 /\ v17 = 0 /\ v18 = 0 /\ v19 = 0 /\ v20 = 0
        /\ v21 = 0 /\ v22 = 0 /\ v23 = 0
     \/ part = "Listing" /\ Listing!Init
        /\ v6 = 0 /\ v7 = 0 /\ v8 = 0 /\ v9 = 0 /\ v10 = 0 /\ v11 = 0 /\ v12 = 0
        /\ v13 = 0 /\ v14 = 0 /\ v15 = 0 /\ v16 = 0 /\ v17 = 0 /\ v18 = 0 /\ v19 = 0
        /\ v20 = 0 /\ v21 = 0 /\ v22 = 0 /\ v23 = 0
     \/ part = "Store" /\ Store!Init

Next ==
  \/ part = "Chat" /\ Chat!Next
     /\ UNCHANGED <<v12, v13, v14, v15, v16, v17, v18, v19, v20, v21, v22, v23>>
  \/ part = "Composer" /\ Composer!Next
     /\ UNCHANGED <<v10, v11, v12, v13, v14, v15, v16, v17, v18, v19, v20, v21, v22, v23>>
  \/ part = "Message" /\ Message!Next
     /\ UNCHANGED <<v15, v16, v17, v18, v19, v20, v21, v22, v23>>
  \/ part = "Stream" /\ Stream!Next
     /\ UNCHANGED <<v9, v10, v11, v12, v13, v14, v15, v16, v17, v18, v19, v20, v21, v22,
                    v23>>
  \/ part = "Markdown" /\ Markdown!Next
     /\ UNCHANGED <<v5, v6, v7, v8, v9, v10, v11, v12, v13, v14, v15, v16, v17, v18, v19,
                    v20, v21, v22, v23>>
  \/ part = "Rerank" /\ Rerank!Next
     /\ UNCHANGED <<v11, v12, v13, v14, v15, v16, v17, v18, v19, v20, v21, v22, v23>>
  \/ part = "Speech" /\ Speech!Next
     /\ UNCHANGED <<v15, v16, v17, v18, v19, v20, v21, v22, v23>>
  \/ part = "Audio" /\ Audio!Next
     /\ UNCHANGED <<v9, v10, v11, v12, v13, v14, v15, v16, v17, v18, v19, v20, v21, v22,
                    v23>>
  \/ part = "Images" /\ Images!Next
     /\ UNCHANGED <<v15, v16, v17, v18, v19, v20, v21, v22, v23>>
  \/ part = "Concurrency" /\ Concurrency!Next
     /\ UNCHANGED <<v7, v8, v9, v10, v11, v12, v13, v14, v15, v16, v17, v18, v19, v20,
                    v21, v22, v23>>
  \/ part = "Listing" /\ Listing!Next
     /\ UNCHANGED <<v6, v7, v8, v9, v10, v11, v12, v13, v14, v15, v16, v17, v18, v19,
                    v20, v21, v22, v23>>
  \/ part = "Store" /\ Store!Next

Spec == Init /\ [][Next /\ UNCHANGED part]_vars

\* A reply was asked for with the conversation shown above it, and holds what its own
\* request answered, whatever was cancelled, edited or begun anew; where earlier replies
\* were regenerated during a stream, those of the requests that overlap since get each
\* other's answers, but no others'.
AnswersWhatIsAbove == part = "Chat" => Chat!AnswersWhatIsAbove

\* While the input is disabled Cancel stops the newest request, which still runs, and it
\* reaches every reply that is being streamed, but for requests that overlap since an
\* earlier reply was regenerated during a stream.
CancelReaches == part = "Chat" => Chat!CancelReaches

\* The copy of the conversation in localStorage is the conversation, or a save is
\* scheduled, or the browser refused the last one, which the code ignores.
SavedOrScheduled == part = "Chat" => Chat!SavedOrScheduled

\* What the network cuts into pieces is parsed, divided into blocks and shown as one
\* reply, with one copy button at each code block, and the page is locked only while an
\* image is open; and no message is sent with more images than the limit, where picks do
\* not overlap.
ReplyShown ==
  /\ part = "Composer" => Composer!CapKept
  /\ part = "Stream" => (Stream!CutsDoNotMatter /\ Stream!CarriesConversation)
  /\ part = "Markdown" => Markdown!ShowsTheText
  /\ part = "Message" => (Message!OneButtonEach /\ Message!LockedWhileOpen)

\* The rerank, transcription, image and speech tabs show what was answered to what is
\* shown beside it: scores with their documents, a transcript with its file, the images
\* of one request, and the cached voices of a model under that model.
ResultsOfTheirRequest ==
  /\ [][part = "Rerank" => Rerank!ScoresItsRow /\ Rerank!RanksTheEditor]_vars
  /\ [](part = "Audio" => Audio!TranscriptOfFile)
  /\ [](part = "Images" => Images!ImagesOfOneRequest)
  /\ [](part = "Speech" => Speech!CacheByModel)

\* RerankInterface.svelte:186 maps a result's index "back to original rows[] index": a
\* score is put beside the document it was computed for.  Not with DeleteWhileBusy.
ScoresTheirRows == [][part = "Rerank" => Rerank!ScoresItsRow]_vars

\* A card of the load test shows times that add up and, behind the loading block, the
\* model's own reasoning; where the server gave up the block before its closing marker,
\* that reasoning is shown as loading text.
LoadTestTrue == part = "Concurrency" => Concurrency!TimesAddUp /\ Concurrency!ReasoningIsTheModels

\* When nothing is on its way, the active profile and the list of models the page has
\* are the server's, whatever was lost with earlier connections; not where send has
\* dropped a message of this one, where the initial profile came after a newer one, or
\* where the last fetch of the list failed.
StoreSettles == part = "Store" => Store!ProfileSettles /\ Store!PlaygroundSettles

\* Every name the server lists is offered in every tab, once if one thing has it, and what
\* was chosen is what runs if one model has the name.  What two have is not covered:
\* models that share a picker id, an alias or picker id that is another model's id, a pin
\* named like a picker id (MCPlayground_picker_ids.cfg shows the first).
OfferedRuns == part = "Listing" => Listing!OfferedOnce /\ Listing!ChosenRuns

\* What the comments promise of picker ids ("assigned in sorted model order so
\* collision suffixes are deterministic and routable"): the id a model is
\* listed under is routed to that model.  Not with Colliding.
PickerIDsRoute == part = "Listing" => Listing!PickerIDsRoute
=============================================================================

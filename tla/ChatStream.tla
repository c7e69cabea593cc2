----------------------------- MODULE ChatStream -----------------------------
(***************************************************************************)
(* One chat request (ui-svelte/src/lib/chatApi.ts): the body built for the *)
(* selected endpoint, and the parser of the event stream that answers it.  *)
(* The network cuts the answer where it likes.  A line is a record of its  *)
(* field and value, NL is the newline; a blank value is what no parser     *)
(* knows (a ping, malformed JSON, an empty delta).                         *)
(***************************************************************************)
EXTENDS Naturals, Sequences, SequencesExt

CONSTANTS
  Conversations,  \* what may be asked: sequences of [role, parts]
  Answers,        \* what the server may send, by endpoint
  MaxCut          \* bound: lines and newlines that arrive together

VARIABLES
  endpoint, conversation,
  body,     \* the request's body, <<>> before
  arriving, \* what the server has yet to send
  taken,    \* what was read of the answer
  buffer,   \* read and not parsed
  chunks,   \* yielded to the caller
  status    \* "new", "open", "done" or "thrown"

vars == <<endpoint, conversation, body, arriving, taken, buffer, chunks, status>>

NL == [field |-> "newline", value |-> ""]
Chunk(kind) == <<[kind |-> kind]>>

-----------------------------------------------------------------------------
\* The request.

System(msgs) == SelectSeq(msgs, LAMBDA m : m.role = "system")
Rest(msgs)   == SelectSeq(msgs, LAMBDA m : m.role # "system")
TextsOf(m)   == SelectSeq(m.parts, LAMBDA p : p.type = "text")

\* splitSystemMessages: the texts of the system messages go first, in one
SystemText(msgs) == FlattenSeq([i \in DOMAIN System(msgs) |-> TextsOf(System(msgs)[i])])

\* /v1/messages takes an image as base64, and none from the assistant
Block(m) ==
  LET kept == SelectSeq(m.parts, LAMBDA p : p.type = "text" \/ m.role # "assistant")
  IN [role |-> m.role, parts |-> kept]
Unsendable(msgs) ==
  \E i \in DOMAIN msgs : \E k \in DOMAIN Block(msgs[i]).parts : Block(msgs[i]).parts[k].type = "image_link"

BuildRequest(e, msgs) ==
  CASE e = "v1/messages" ->
         [system |-> SystemText(msgs), input |-> [i \in DOMAIN Rest(msgs) |-> Block(Rest(msgs)[i])]]
    [] e = "v1/responses" -> [system |-> SystemText(msgs), input |-> Rest(msgs)]
    [] OTHER -> [system |-> <<>>, input |-> msgs]

-----------------------------------------------------------------------------
\* The answer.  What a parser makes of a line or block is a sequence: empty,
\* one chunk, or the chunk that ends the stream.

CompletionsLine(line) ==
  IF Len(line) = 1 /\ line[1].field = "data" /\ line[1].value \in {"content", "reasoning", "done"}
  THEN Chunk(line[1].value) ELSE <<>>

Field(block, f) == SelectSeq(block, LAMBDA l : l.field = f)

\* parseSSEEventBlock: the last event line, the data lines joined
EventOf(block) == IF Field(block, "event") = <<>> THEN "" ELSE Last(Field(block, "event")).value
DataOf(block)  == IF Len(Field(block, "data")) = 1 THEN Field(block, "data")[1].value ELSE ""

MessagesBlock(block) ==
  CASE EventOf(block) = "message_stop" -> Chunk("done")
    [] EventOf(block) = "content_block_delta" /\ DataOf(block) = "text_delta" -> Chunk("content")
    [] EventOf(block) = "content_block_delta" /\ DataOf(block) = "thinking_delta" -> Chunk("reasoning")
    [] OTHER -> <<>>

ResponsesBlock(block) ==
  CASE EventOf(block) = "response.completed" -> Chunk("done")
    [] EventOf(block) = "response.output_text.delta" /\ DataOf(block) = "delta" -> Chunk("content")
    [] EventOf(block) = "response.reasoning_summary_text.delta" /\ DataOf(block) = "delta" -> Chunk("reasoning")
    [] OTHER -> <<>>

\* buffer.split("\n") and .split("\n\n"): the parts, and what follows the last
SplitLines(text) ==
  FoldLeft(LAMBDA acc, s : IF s = NL THEN [parts |-> Append(acc.parts, acc.rest), rest |-> <<>>]
                                     ELSE [acc EXCEPT !.rest = Append(@, s)],
           [parts |-> <<>>, rest |-> <<>>], text)
SplitBlocks(text) ==
  FoldLeft(LAMBDA acc, s : IF s = NL /\ acc.rest # <<>> /\ Last(acc.rest) = NL
                           THEN [parts |-> Append(acc.parts, Front(acc.rest)), rest |-> <<>>]
                           ELSE [acc EXCEPT !.rest = Append(@, s)],
           [parts |-> <<>>, rest |-> <<>>], text)

Split(e, text) == IF e = "v1/chat/completions" THEN SplitLines(text) ELSE SplitBlocks(text)
ParsePart(e, part) ==
  CASE e = "v1/messages" -> MessagesBlock(part)
    [] e = "v1/responses" -> ResponsesBlock(part)
    [] OTHER -> CompletionsLine(part)

Ended(out) == out # <<>> /\ Last(out).kind = "done"

\* the chunks of the parts in order, up to the one that ends the stream
ParseParts(e, parts, out) ==
  FoldLeft(LAMBDA acc, p : IF Ended(acc) THEN acc ELSE acc \o ParsePart(e, p), out, parts)

\* the line left when the stream ends; the block parsers drop theirs
ParseRest(e, rest) ==
  IF e = "v1/chat/completions" /\ ~Ended(CompletionsLine(rest)) THEN CompletionsLine(rest) ELSE <<>>

-----------------------------------------------------------------------------
Init ==
  /\ endpoint \in DOMAIN Answers /\ conversation \in Conversations
  /\ arriving \in Answers[endpoint]
  /\ body = <<>> /\ taken = <<>> /\ buffer = <<>> /\ chunks = <<>> /\ status = "new"

\* streamChatCompletion up to the answer: an image that is not a data URL
\* cannot be sent to /v1/messages
Request ==
  /\ status = "new"
  /\ IF endpoint = "v1/messages" /\ Unsendable(Rest(conversation))
     THEN status' = "thrown" /\ UNCHANGED body
     ELSE body' = BuildRequest(endpoint, conversation) /\ status' \in {"open", "thrown"}
  /\ UNCHANGED <<endpoint, conversation, arriving, taken, buffer, chunks>>

\* (variation: each read is parsed on its own)
ReadAlone(n) ==
  /\ status = "open" /\ n <= Len(arriving)
  /\ arriving' = SubSeq(arriving, n + 1, Len(arriving))
  /\ taken' = taken \o SubSeq(arriving, 1, n)
  /\ LET split == Split(endpoint, SubSeq(arriving, 1, n))
     IN /\ buffer' = split.rest
        /\ chunks' = ParseParts(endpoint, split.parts, chunks)
  /\ status' = IF Ended(chunks') THEN "done" ELSE "open"
  /\ UNCHANGED <<endpoint, conversation, body>>

\* reader.read: the next n lines or newlines
Read(n) ==
  /\ status = "open" /\ n <= Len(arriving)
  /\ arriving' = SubSeq(arriving, n + 1, Len(arriving))
  /\ taken' = taken \o SubSeq(arriving, 1, n)
  /\ LET split == Split(endpoint, buffer \o SubSeq(arriving, 1, n))
     IN /\ buffer' = split.rest
        /\ chunks' = ParseParts(endpoint, split.parts, chunks)
  /\ status' = IF Ended(chunks') THEN "done" ELSE "open"
  /\ UNCHANGED <<endpoint, conversation, body>>

\* the stream ends, here or early
End ==
  /\ status = "open"
  /\ chunks' = (chunks \o ParseRest(endpoint, buffer)) \o Chunk("done")
  /\ status' = "done"
  /\ UNCHANGED <<endpoint, conversation, body, arriving, taken, buffer>>

\* the connection breaks, or the request is cancelled
Break ==
  /\ status = "open" /\ status' = "thrown"
  /\ UNCHANGED <<endpoint, conversation, body, arriving, taken, buffer, chunks>>

Next == Request \/ (\E n \in 1..MaxCut : Read(n)) \/ End \/ Break

Spec == Init /\ [][Next]_vars

-----------------------------------------------------------------------------
\* Where the network cuts the answer does not matter: what was yielded is what
\* one parse of everything received gives, and a stream that is not broken ends
\* with one done.
CutsDoNotMatter ==
  LET split  == Split(endpoint, taken)
      parsed == ParseParts(endpoint, split.parts, <<>>)
  IN chunks = IF status = "done" /\ ~Ended(parsed)
              THEN (parsed \o ParseRest(endpoint, split.rest)) \o Chunk("done") ELSE parsed

\* Each endpoint is sent the same conversation: all of what the user and the
\* system prompt say, in order, and of the assistant the text.
SaidBy(msgs, role) == FlattenSeq([i \in DOMAIN msgs |-> IF msgs[i].role = role THEN msgs[i].parts ELSE <<>>])
CarriesConversation ==
  body # <<>> =>
    /\ body.system \o SaidBy(body.input, "system") = SaidBy(conversation, "system")
    /\ SaidBy(body.input, "user") = SaidBy(conversation, "user")
    /\ [i \in DOMAIN Rest(body.input) |-> TextsOf(Rest(body.input)[i])]
         = [i \in DOMAIN Rest(conversation) |-> TextsOf(Rest(conversation)[i])]
=============================================================================

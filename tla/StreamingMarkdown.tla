------------------------- MODULE StreamingMarkdown -------------------------
(***************************************************************************)
(* The rendering of a reply while it streams (ui-svelte/src/lib/           *)
(* markdown.ts): what is complete is rendered once, block by block, and    *)
(* only the rest is rendered again with every chunk.  A text is a sequence *)
(* of symbols: NL, the fences (``` and ~~~), the math marks ($$, \[ and    *)
(* \]) and others; html is modelled by the text it is made from.           *)
(***************************************************************************)
EXTENDS Naturals, Sequences, SequencesExt

CONSTANTS
  Symbols,         \* what a text is made of
  MaxText, MaxCut, \* bounds: length of a text, of what arrives together, and
  MaxBlocks        \* blocks rendered when a reply is begun again while it streams

VARIABLES text, streaming, cache, pending

vars == <<text, streaming, cache, pending>>

NL == "nl"
Fences == {"ticks", "tildes"}

\* text.split("\n"); lines.join("\n")
Lines(t) ==
  FoldLeft(LAMBDA ls, s : IF s = NL THEN Append(ls, <<>>) ELSE Append(Front(ls), Append(Last(ls), s)),
           << <<>> >>, t)
Join(ls) == IF ls = <<>> THEN <<>> ELSE FoldLeft(LAMBDA t, l : t \o <<NL>> \o l, Head(ls), Tail(ls))

OpensFence(line) == line # <<>> /\ line[1] \in Fences
OpensMath(line)  == line \in {<<"dollars">>, <<"open">>}
ClosesMath(line) == line \in {<<"dollars">>, <<"close">>}
\* three or more of the fence's character and nothing else; closePendingBlock
\* takes three only
ClosesFence(line, fence) == line # <<>> /\ \A i \in DOMAIN line : line[i] = fence
ClosesFenceOnly(line, fence) == line = <<fence>>

\* the state behind a line: in a fence (which one), in math (opened by what), or ""
Step(open, line, Closes(_, _)) ==
  IF open \in Fences THEN IF Closes(line, open) THEN "" ELSE open
  ELSE IF open # "" THEN IF ClosesMath(line) THEN "" ELSE open
  ELSE IF OpensFence(line) \/ OpensMath(line) THEN line[1] ELSE ""

\* splitCompleteBlocks: the lines up to the last blank one outside of fences
\* and math, or the last that closes one, and the others
CompleteLines(ls) ==
  FoldLeft(LAMBDA acc, i :
             LET open == Step(acc.open, ls[i], ClosesFence)
             IN [open |-> open,
                 last |-> IF open = "" /\ (acc.open # "" \/ ls[i] = <<>>) THEN i ELSE acc.last],
           [open |-> "", last |-> 0], [i \in DOMAIN ls |-> i]).last

SplitCompleteBlocks(t) ==
  LET ls == Lines(t)
      n  == CompleteLines(ls)
  IN [complete |-> Join(SubSeq(ls, 1, n)), pending |-> Join(SubSeq(ls, n + 1, Len(ls)))]

\* closePendingBlock: what is open at the end is closed
OpenAtEnd(t, Closes(_, _)) == FoldLeft(LAMBDA open, l : Step(open, l, Closes), "", Lines(t))
ClosePendingBlock(t) ==
  LET open == OpenAtEnd(t, ClosesFenceOnly)
  IN IF open = "" THEN t ELSE t \o <<NL, IF open = "open" THEN "close" ELSE open>>

\* createStreamingCache
NewCache == [blocks |-> <<>>, nextId |-> 0, completeKey |-> <<>>]
Block(c, t) == [id |-> c.nextId, html |-> t]

\* (variation: the key is not moved on with the blocks)
GrownStale(c, complete) ==
  IF complete = c.completeKey THEN c
  ELSE IF c.completeKey # <<>> /\ IsPrefix(c.completeKey, complete)
  THEN [c EXCEPT !.blocks = Append(@, Block(c, SubSeq(complete, Len(c.completeKey) + 1, Len(complete)))),
                 !.nextId = @ + 1]
  ELSE [blocks |-> <<Block(c, complete)>>, nextId |-> c.nextId + 1, completeKey |-> complete]

\* renderStreamingMarkdown's cache when the complete section is not empty: what
\* was added to it is a new block, and any other change makes it one block
Grown(c, complete) ==
  IF complete = c.completeKey THEN c
  ELSE IF c.completeKey # <<>> /\ IsPrefix(c.completeKey, complete)
  THEN [blocks |-> Append(c.blocks, Block(c, SubSeq(complete, Len(c.completeKey) + 1, Len(complete)))),
        nextId |-> c.nextId + 1, completeKey |-> complete]
  ELSE [blocks |-> <<Block(c, complete)>>, nextId |-> c.nextId + 1, completeKey |-> complete]

RenderStreaming(t) ==
  LET split == SplitCompleteBlocks(t)
  IN /\ text' = t
     /\ cache' = IF split.complete # <<>> THEN Grown(cache, split.complete)
                 ELSE IF cache.blocks # <<>> THEN [cache EXCEPT !.blocks = <<>>, !.completeKey = <<>>]
                 ELSE cache
     /\ pending' = ClosePendingBlock(split.pending)

Init == text = <<>> /\ streaming = TRUE /\ cache = NewCache /\ pending = <<>>

\* renderedParts of ChatMessage.svelte: more of the reply
Receive(more) ==
  /\ streaming /\ Len(text \o more) <= MaxText
  /\ RenderStreaming(text \o more) /\ UNCHANGED streaming

\* the reply is begun again, while it streams or afterwards
Regenerate ==
  /\ text # <<>> /\ cache.nextId <= MaxBlocks /\ streaming' = TRUE /\ RenderStreaming(<<>>)

\* the end of the reply: rendered as a whole
Finish ==
  /\ streaming /\ streaming' = FALSE
  /\ cache' = NewCache /\ pending' = text /\ UNCHANGED text

Next ==
  \/ \E n \in 1..MaxCut : \E more \in [1..n -> Symbols] : Receive(more)
  \/ Regenerate \/ Finish

Spec == Init /\ [][Next]_vars

-----------------------------------------------------------------------------
BlocksText == FlattenSeq([i \in DOMAIN cache.blocks |-> cache.blocks[i].html])

\* However the reply is cut into chunks, the blocks and the pending part
\* together are the text: nothing is shown twice, left out, or kept from an
\* earlier state of the text; what is open in the pending part is closed for
\* the renderer; and no two blocks share a key (Svelte refuses that).
ShowsTheText ==
  streaming =>
    /\ \E k \in {Len(pending), Len(pending) - 2} :
         LET shown == SubSeq(pending, 1, k)
         IN /\ text \in {BlocksText \o shown, BlocksText \o <<NL>> \o shown}
            /\ k < Len(pending) => OpenAtEnd(shown, ClosesFence) # "" /\ pending[k + 1] = NL
    /\ OpenAtEnd(pending, ClosesFence) = ""
    /\ \A i, j \in DOMAIN cache.blocks : cache.blocks[i].id = cache.blocks[j].id => i = j

\* A block ends where a block of the text ends: at a blank line (or in front of
\* what follows it), or at the line that closes a fence or math ("blank line
\* marks a complete boundary").
BlocksEndAtBoundaries ==
  \A k \in 1..(Len(cache.blocks) - 1) :
    LET ls == Lines(text)
        n  == Len(Lines(FlattenSeq([i \in 1..k |-> cache.blocks[i].html])))
    IN CompleteLines(SubSeq(ls, 1, n)) >= n - 1
=============================================================================

-------------------------- MODULE RerankInterface --------------------------
(***************************************************************************)
(* The rerank tab (components/playground/RerankInterface.svelte): a table  *)
(* of documents, or the same as JSON text, ranked by one request.  A score *)
(* is modelled by the document the server computed it for.                 *)
(***************************************************************************)
EXTENDS PlaygroundInterface, Naturals, Sequences, SequencesExt

CONSTANTS
  Docs,            \* documents; Blank is the empty one
  Blank,
  DefaultDocs,     \* the documents the tab begins with
  Relevance,       \* how the server ranks each document
  Invalid,         \* any text that is not JSON of the right shape
  MaxRows,         \* bound: rows of the table
  DeleteWhileBusy  \* does the user delete a row while the request runs?

VARIABLES rows, mode, jsonText, jsonError, usage, sortOrder

tabVars == <<rows, mode, jsonText, jsonError, usage, sortOrder>>
vars == <<ifaceVars, tabVars>>

Row(doc) == [doc |-> doc, score |-> None]
DocsOf(rs) == [i \in DOMAIN rs |-> rs[i].doc]
RowsOf(docs) == [i \in DOMAIN docs |-> Row(docs[i])]

\* the numbers in S, in ascending order
InOrder(S) ==
  CHOOSE at \in [1..Cardinality(S) -> S] : \A k, l \in DOMAIN at : k < l => at[k] < at[l]

\* the rows with a document, and where they are
FilledAt(rs) == InOrder({i \in DOMAIN rs : rs[i].doc # Blank})
Filled(rs) == [k \in DOMAIN FilledAt(rs) |-> rs[FilledAt(rs)[k]]]

\* the effect that keeps an empty last row, in the table
AutoAdd(rs) == IF rs # <<>> /\ Last(rs).doc # Blank THEN Append(rs, Row(Blank)) ELSE rs
DefaultRows == Append(RowsOf(DefaultDocs), Row(Blank))

Init ==
  /\ InterfaceInit
  /\ rows = DefaultRows /\ mode = "table" /\ jsonText = <<>> /\ jsonError = None /\ usage = FALSE
  /\ sortOrder = "desc"

\* displayRows: the indices of the rows as they are shown, those without a score last
DisplayRows ==
  LET Before(i, j) == IF sortOrder = "desc" THEN Relevance[rows[i].score] > Relevance[rows[j].score]
                      ELSE Relevance[rows[i].score] < Relevance[rows[j].score]
      Scores == {i \in DOMAIN rows : rows[i].score # None}
      ByScore(S) == SetToSortSeq(S, LAMBDA i, j : Before(i, j) \/ (~Before(j, i) /\ i < j))
  IN IF sortOrder = "none" THEN InOrder(DOMAIN rows)
     ELSE ByScore(Scores) \o InOrder(DOMAIN rows \ Scores)

CycleSortOrder ==
  /\ mode = "table"
  /\ sortOrder' = [none |-> "desc", desc |-> "asc", asc |-> "none"][sortOrder]
  /\ UNCHANGED <<ifaceVars, rows, mode, jsonText, jsonError, usage>>

\* updateDoc: the inputs are disabled while a request runs
UpdateDoc(i, doc) ==
  /\ mode = "table" /\ ~busy
  /\ rows' = AutoAdd([rows EXCEPT ![i].doc = doc]) /\ Len(rows') <= MaxRows
  /\ UNCHANGED <<ifaceVars, mode, jsonText, jsonError, usage, sortOrder>>

\* deleteRow: its button is not disabled while a request runs
DeleteRow(i) ==
  /\ mode = "table" /\ Len(rows) > 1 /\ (busy => DeleteWhileBusy)
  /\ rows' = AutoAdd(RemoveAt(rows, i))
  /\ UNCHANGED <<ifaceVars, mode, jsonText, jsonError, usage, sortOrder>>

SwitchToJson ==
  /\ mode = "table" /\ ~busy
  /\ mode' = "json" /\ jsonText' = DocsOf(Filled(rows)) /\ jsonError' = None
  /\ UNCHANGED <<ifaceVars, rows, usage, sortOrder>>

EditJson(text) ==
  /\ mode = "json" /\ ~busy /\ jsonText' = text
  /\ UNCHANGED <<ifaceVars, rows, mode, jsonError, usage, sortOrder>>

SwitchToTable ==
  /\ mode = "json" /\ ~busy
  /\ IF jsonText = Invalid
     THEN jsonError' = Failure /\ UNCHANGED <<rows, mode>>
     ELSE /\ rows' = IF jsonText = <<>> THEN <<Row(Blank)>> ELSE AutoAdd(RowsOf(jsonText))
          /\ jsonError' = None /\ mode' = "table"
  /\ UNCHANGED <<ifaceVars, jsonText, usage, sortOrder>>

\* the documents to rank, each with the row it came from
Entries(rs) ==
  [k \in DOMAIN FilledAt(rs) |-> [row |-> FilledAt(rs)[k], doc |-> rs[FilledAt(rs)[k]].doc]]

\* submit, up to the request; JSON text is first made the table
SubmittedRows ==
  IF mode = "table" THEN rows
  ELSE Append(Filled(RowsOf(jsonText)), Row(Blank))

Submit ==
  /\ mode = "json" => jsonText # Invalid
  /\ Filled(SubmittedRows) # <<>>
  /\ Run(Entries(SubmittedRows))
  /\ rows' = AutoAdd(RowsOf(DocsOf(SubmittedRows)))
  /\ mode' = "table" /\ usage' = FALSE
  /\ UNCHANGED <<jsonText, jsonError, sortOrder>>

\* (variation: result.index is taken for a row)
ScoredByIndex(rs, entries, answered) ==
  [i \in DOMAIN rs |-> IF i \in answered THEN [rs[i] EXCEPT !.score = entries[i].doc] ELSE rs[i]]

\* the rows with the results for the entries in answered
Scored(rs, entries, answered) ==
  [i \in DOMAIN rs |->
     IF \E k \in answered : entries[k].row = i
     THEN [rs[i] EXCEPT !.score = entries[CHOOSE k \in answered : entries[k].row = i].doc]
     ELSE rs[i]]

\* the response; a row that is no longer there makes the handler throw
Respond(answered) ==
  /\ task # None /\ answered \subseteq DOMAIN task
  /\ usage' = TRUE
  /\ IF \A k \in answered : task[k].row \in DOMAIN rows
     THEN rows' = Scored(rows, task, answered) /\ Resolved
     ELSE Threw /\ UNCHANGED rows
  /\ UNCHANGED <<mode, jsonText, jsonError, sortOrder>>

NoAnswer == (Failed \/ Aborted) /\ UNCHANGED tabVars

CancelRequest == Cancel /\ UNCHANGED tabVars

IsCleared ==
  /\ rows = DefaultRows /\ jsonText = <<>> /\ error = None /\ ~usage

\* clear keeps the editor's mode
Clear ==
  /\ ~busy /\ ~IsCleared
  /\ rows' = DefaultRows /\ error' = None /\ usage' = FALSE
  /\ jsonText' = <<>> /\ jsonError' = None /\ sortOrder' = "desc"
  /\ UNCHANGED <<task, busy, abort, mode>>

Texts == {Invalid} \cup UNION {[1..n -> Docs \cup {Blank}] : n \in 0..2}

Next ==
  \/ \E i \in DOMAIN rows :
       /\ Contains(DisplayRows, i)
       /\ \/ DeleteRow(i)
          \/ \E doc \in Docs \cup {Blank} : UpdateDoc(i, doc)
  \/ CycleSortOrder
  \/ SwitchToJson \/ SwitchToTable \/ \E t \in Texts : EditJson(t)
  \/ Submit \/ \E A \in SUBSET (1..MaxRows) : Respond(A)
  \/ NoAnswer \/ CancelRequest \/ Clear

Spec == Init /\ [][Next]_vars

-----------------------------------------------------------------------------
\* What the response writes into a row is the score of that row's document
\* ("Map result.index (position in submitted docs array) back to original rows[]
\* index").  Not with DeleteWhileBusy: a row deleted while the request runs moves
\* the rows below it, and the scores go by the positions they had.
ScoresItsRow ==
  task # None /\ task' = None =>
    \A i \in DOMAIN rows' : rows'[i].score \notin {None, rows[i].score} => rows'[i].score = rows'[i].doc

\* Nothing is lost between the two editors: switching back and forth keeps the
\* documents, and what a submission ranks is what the editor shows.
RanksTheEditor ==
  task = None /\ task' # None =>
    DocsOf(task') = DocsOf(Filled(IF mode = "json" THEN RowsOf(jsonText) ELSE rows))
=============================================================================

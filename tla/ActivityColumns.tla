--------------------------- MODULE ActivityColumns ---------------------------
(***************************************************************************)
(* The columns of ActivityTable.svelte, of its activity table and of its   *)
(* table of in-flight requests: which are shown and in which order, what   *)
(* the user drags, and what local storage keeps for the next load, which   *)
(* may be of a release with other columns.                                 *)
(*                                                                         *)
(* A release is the sequence of columns that buildColumnMeta returns.  An  *)
(* empty stored order or visibility is one that was never stored.          *)
(***************************************************************************)
EXTENDS Naturals, Sequences, Functions

CONSTANTS
  Releases, InflightReleases,  \* sequences of columns
  DefaultHidden,               \* columns whose defaultVisible is FALSE
  None                         \* nothing is dragged

ColumnsAssumption ==
  \A r \in Releases \cup InflightReleases :
    r \in Seq(Range(r)) /\ IsInjective(r) /\ \A i \in DOMAIN r : r[i] # None

VARIABLES
  columns, columnOrder, columnVisibility, dragColId,
  storedColumnOrder, storedVisibility,
  inflightColumns, inflightColumnOrder, inflightColumnVisibility, inflightDragColId,
  storedInflightColumnOrder, storedInflightVisibility,
  inflightOpen, storedInflightOpen

main     == <<columns, columnOrder, columnVisibility, dragColId, storedColumnOrder, storedVisibility>>
inflight == <<inflightColumns, inflightColumnOrder, inflightColumnVisibility, inflightDragColId,
              storedInflightColumnOrder, storedInflightVisibility>>
open     == <<inflightOpen, storedInflightOpen>>
vars     == <<main, inflight, open>>

Stored(saved, default) == IF saved = <<>> THEN default ELSE saved

DefaultVisibility(release) == [c \in Range(release) |-> c \notin DefaultHidden]

\* filter: the columns of order that are in S
Kept(order, S) ==
  LET kept[n \in 0..Len(order)] ==
        IF n = 0 THEN <<>>
        ELSE IF order[n] \in S THEN Append(kept[n - 1], order[n]) ELSE kept[n - 1]
  IN  kept[Len(order)]

\* the effect on the column set: stale ids go, new ones are appended
Reconciled(order, release) ==
  Kept(order, Range(release)) \o Kept(release, Range(release) \ Range(order))

\* what the stores hold after that effect
Restored(saved, release) ==
  LET order == Reconciled(Stored(saved, release), release)
  IN  IF order = Stored(saved, release) THEN saved ELSE order

Mount(r, i) ==
  /\ columns = r /\ dragColId = None
  /\ columnOrder = Reconciled(Stored(storedColumnOrder, r), r)
  /\ columnVisibility = Stored(storedVisibility, DefaultVisibility(r))
  /\ inflightColumns = i /\ inflightDragColId = None
  /\ inflightColumnOrder = Reconciled(Stored(storedInflightColumnOrder, i), i)
  /\ inflightColumnVisibility = Stored(storedInflightVisibility, DefaultVisibility(i))
  /\ inflightOpen = storedInflightOpen

Init ==
  /\ storedColumnOrder = <<>> /\ storedVisibility = <<>>
  /\ storedInflightColumnOrder = <<>> /\ storedInflightVisibility = <<>>
  /\ storedInflightOpen = TRUE
  /\ \E r \in Releases, i \in InflightReleases : Mount(r, i)

\* the page is loaded again, perhaps of another release
Reload(r, i) ==
  /\ columns' = r /\ inflightColumns' = i
  /\ columnOrder' = Reconciled(Stored(storedColumnOrder, r), r)
  /\ storedColumnOrder' = Restored(storedColumnOrder, r)
  /\ columnVisibility' = Stored(storedVisibility, DefaultVisibility(r))
  /\ inflightColumnOrder' = Reconciled(Stored(storedInflightColumnOrder, i), i)
  /\ storedInflightColumnOrder' = Restored(storedInflightColumnOrder, i)
  /\ inflightColumnVisibility' = Stored(storedInflightVisibility, DefaultVisibility(i))
  /\ dragColId' = None /\ inflightDragColId' = None
  /\ inflightOpen' = storedInflightOpen
  /\ UNCHANGED <<storedVisibility, storedInflightVisibility, storedInflightOpen>>

-----------------------------------------------------------------------------
\* splice: the source is taken out, the target's index moves with it
Moved(order, source, target) ==
  LET from == CHOOSE i \in DOMAIN order : order[i] = source
      to   == CHOOSE i \in DOMAIN order : order[i] = target
      others == SubSeq(order, 1, from - 1) \o SubSeq(order, from + 1, Len(order))
      at     == IF from < to THEN to - 1 ELSE to
  IN  SubSeq(others, 1, at - 1) \o <<source>> \o SubSeq(others, at, Len(others))

-----------------------------------------------------------------------------
(* The activity table.                                                     *)

HandleColDragStart(c) ==
  /\ dragColId = None
  /\ dragColId' = c
  /\ UNCHANGED <<columns, columnOrder, columnVisibility, storedColumnOrder, storedVisibility,
                 inflight, open>>

HandleColDragEnd ==
  /\ dragColId # None
  /\ dragColId' = None
  /\ UNCHANGED <<columns, columnOrder, columnVisibility, storedColumnOrder, storedVisibility,
                 inflight, open>>

\* variation: the new order is not stored
DropOnScreen(target) ==
  /\ dragColId # None
  /\ dragColId' = None
  /\ columnOrder' = IF dragColId = target THEN columnOrder
                                          ELSE Moved(columnOrder, dragColId, target)
  /\ UNCHANGED <<storedColumnOrder, columns, columnVisibility, storedVisibility, inflight, open>>

HandleColDrop(target) ==
  /\ dragColId # None
  /\ dragColId' = None
  /\ IF dragColId = target
       THEN UNCHANGED <<columnOrder, storedColumnOrder>>
       ELSE /\ columnOrder' = Moved(columnOrder, dragColId, target)
            /\ storedColumnOrder' = columnOrder'
  /\ UNCHANGED <<columns, columnVisibility, storedVisibility, inflight, open>>

\* a visibility that knows nothing of a column shows it
Shown(visibility, c) == c \in DOMAIN visibility => visibility[c]

ToggleVisibility(c) ==
  /\ columnVisibility' = [x \in DOMAIN columnVisibility \cup {c} |->
                            IF x = c THEN ~Shown(columnVisibility, c) ELSE columnVisibility[x]]
  /\ storedVisibility' = columnVisibility'
  /\ UNCHANGED <<columns, columnOrder, dragColId, storedColumnOrder, inflight, open>>

-----------------------------------------------------------------------------
(* The in-flight table, with a copy of the same handlers.                  *)

HandleInflightColDragStart(c) ==
  /\ inflightDragColId = None
  /\ inflightDragColId' = c
  /\ UNCHANGED <<inflightColumns, inflightColumnOrder, inflightColumnVisibility,
                 storedInflightColumnOrder, storedInflightVisibility, main, open>>

ClearInflightColumnDrag ==
  /\ inflightDragColId # None
  /\ inflightDragColId' = None
  /\ UNCHANGED <<inflightColumns, inflightColumnOrder, inflightColumnVisibility,
                 storedInflightColumnOrder, storedInflightVisibility, main, open>>

HandleInflightColDrop(target) ==
  /\ inflightDragColId # None
  /\ inflightDragColId' = None
  /\ IF inflightDragColId = target
       THEN UNCHANGED <<inflightColumnOrder, storedInflightColumnOrder>>
       ELSE /\ inflightColumnOrder' = Moved(inflightColumnOrder, inflightDragColId, target)
            /\ storedInflightColumnOrder' = inflightColumnOrder'
  /\ UNCHANGED <<inflightColumns, inflightColumnVisibility, storedInflightVisibility, main, open>>

ToggleInflightColumn(c) ==
  /\ inflightColumnVisibility' =
       [x \in DOMAIN inflightColumnVisibility \cup {c} |->
          IF x = c THEN ~Shown(inflightColumnVisibility, c) ELSE inflightColumnVisibility[x]]
  /\ storedInflightVisibility' = inflightColumnVisibility'
  /\ UNCHANGED <<inflightColumns, inflightColumnOrder, inflightDragColId,
                 storedInflightColumnOrder, main, open>>

SetInflightOpen ==
  /\ inflightOpen' = ~inflightOpen
  /\ storedInflightOpen' = inflightOpen'
  /\ UNCHANGED <<main, inflight>>

-----------------------------------------------------------------------------
Next ==
  \/ \E r \in Releases, i \in InflightReleases : Reload(r, i)
  \/ \E c \in Range(columnOrder) :
       HandleColDragStart(c) \/ HandleColDrop(c) \/ ToggleVisibility(c)
  \/ HandleColDragEnd
  \/ \E c \in Range(inflightColumnOrder) :
       HandleInflightColDragStart(c) \/ HandleInflightColDrop(c) \/ ToggleInflightColumn(c)
  \/ ClearInflightColumnDrag \/ SetInflightOpen

Spec == Init /\ [][Next]_vars

-----------------------------------------------------------------------------
(* What is on the screen: the columns of each table, in their order.       *)

ShownOf(order, visibility) == SelectSeq(order, LAMBDA c : Shown(visibility, c))

Table == ShownOf(columnOrder, columnVisibility)

InflightTable ==
  IF inflightOpen THEN ShownOf(inflightColumnOrder, inflightColumnVisibility) ELSE <<>>

\* the two tables of a page that is opened on what is stored
TableAfterLoad ==
  ShownOf(Reconciled(Stored(storedColumnOrder, columns), columns),
          Stored(storedVisibility, DefaultVisibility(columns)))

InflightTableAfterLoad ==
  IF storedInflightOpen
    THEN ShownOf(Reconciled(Stored(storedInflightColumnOrder, inflightColumns), inflightColumns),
                 Stored(storedInflightVisibility, DefaultVisibility(inflightColumns)))
    ELSE <<>>

Permutes(order, release) == IsInjective(order) /\ Range(order) = Range(release)

\* Whatever was dragged, hidden and reloaded, also across releases that add
\* and drop columns: every column of the release is in each table's order
\* exactly once, and loading the same release again would show the same
\* tables, the same columns in the same order.
LayoutSurvives ==
  /\ Permutes(columnOrder, columns) /\ Permutes(inflightColumnOrder, inflightColumns)
  /\ Table = TableAfterLoad
  /\ InflightTable = InflightTableAfterLoad
=============================================================================

------------------------------ MODULE LogPanel ------------------------------
(***************************************************************************)
(* The panels that show one log (components/LogPanel.svelte).  The log     *)
(* viewer (routes/LogViewer.svelte) mounts two of them for each log, one   *)
(* beside the other log and one alone; all tabs stay mounted.  Each panel  *)
(* has its own copy of three settings it shares with the other one through *)
(* the browser's storage (stores/persistent.ts), and its own filter.       *)
(***************************************************************************)
EXTENDS Naturals, Sequences

CONSTANTS
  Lines,       \* the lines there are
  Matches,     \* for each filter that may be typed, the lines it matches; Invalid
  Invalid,     \* a filter that is no regular expression
  MaxLines     \* bound: lines of the log

PanelAssumption ==
  /\ "" \notin DOMAIN Matches /\ MaxLines \in Nat
  /\ \A f \in DOMAIN Matches : Matches[f] # Invalid => Matches[f] \subseteq Lines

Panels == {"beside", "alone"}
Sizes == {"xxs", "xs", "small", "normal"}

VARIABLES
  logData,
  stored,    \* the settings in the browser's storage
  panels,    \* the settings and the filter of each panel
  chosen     \* the settings as the user left them, whichever panel it was in

vars == <<logData, stored, panels, chosen>>

Defaults == [fontSize |-> "normal", wrapText |-> FALSE, showFilter |-> FALSE]
Opened(settings) == [p \in Panels |-> [settings |-> settings, filterRegex |-> ""]]

Init ==
  /\ logData = <<>> /\ stored = Defaults
  /\ panels = Opened(Defaults) /\ chosen = Defaults

\* a setting of one panel is changed: its store writes it, with nothing else
Set(p, key, value, filter) ==
  /\ panels' = [panels EXCEPT ![p].settings[key] = value, ![p].filterRegex = filter]
  /\ stored' = [stored EXCEPT ![key] = value]
  /\ chosen' = [chosen EXCEPT ![key] = value]
  /\ UNCHANGED logData

NextSize == [xxs |-> "xs", xs |-> "small", small |-> "normal", normal |-> "xxs"]
ToggleFontSize(p) == Set(p, "fontSize", NextSize[panels[p].settings.fontSize], panels[p].filterRegex)
ToggleWrapText(p) == Set(p, "wrapText", ~panels[p].settings.wrapText, panels[p].filterRegex)

\* the box is closed and what was typed stays
CloseFilterOnly(p) == Set(p, "showFilter", ~panels[p].settings.showFilter, panels[p].filterRegex)
\* closing the box drops the filter
ToggleFilter(p) ==
  Set(p, "showFilter", ~panels[p].settings.showFilter,
      IF panels[p].settings.showFilter THEN "" ELSE panels[p].filterRegex)

\* typed, or cleared with the button
TypeFilter(p, text) ==
  /\ panels[p].settings.showFilter /\ panels[p].filterRegex # text
  /\ panels' = [panels EXCEPT ![p].filterRegex = text]
  /\ UNCHANGED <<logData, stored, chosen>>

LogLine(line) ==
  /\ logData' = IF Len(logData) < MaxLines THEN Append(logData, line) ELSE Append(Tail(logData), line)
  /\ UNCHANGED <<stored, panels, chosen>>

Reload ==
  /\ panels' = Opened(stored)
  /\ UNCHANGED <<logData, stored, chosen>>

Next ==
  \/ \E p \in Panels : ToggleFontSize(p) \/ ToggleWrapText(p) \/ ToggleFilter(p)
  \/ \E p \in Panels, text \in DOMAIN Matches \cup {""} : TypeFilter(p, text)
  \/ \E line \in Lines : LogLine(line)
  \/ Reload

Spec == Init /\ [][Next]_vars

-----------------------------------------------------------------------------
\* filteredLogs: a filter that is no regular expression hides nothing
Filtered(p) ==
  LET f == panels[p].filterRegex
  IN IF f = "" \/ (f # "" /\ Matches[f] = Invalid) THEN logData
     ELSE SelectSeq(logData, LAMBDA line : line \in Matches[f])

\* Lines are missing only from a panel whose filter box is open and says why, and
\* what the browser keeps is the last choice made in any of the log's panels, not a
\* mixture with what another panel still shows.
NothingHidden ==
  /\ \A p \in Panels : Filtered(p) # logData => panels[p].settings.showFilter /\ panels[p].filterRegex # ""
  /\ stored = chosen
=============================================================================

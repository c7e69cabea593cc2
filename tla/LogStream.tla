----------------------------- MODULE LogStream -----------------------------
(***************************************************************************)
(* A model's log, from the process to the page: the monitor keeps the last *)
(* lines and hands each to its broadcast loop (internal/logmon), a stream  *)
(* handler sends what is kept and then what is broadcast                   *)
(* (internal/server/log.go), and the Logs tab shows the tail of what it    *)
(* reads (stores/modelLogs.ts, model/ModelLogsTab.svelte).  Lines stand    *)
(* for bytes; a line is a number, its place in the log.                    *)
(***************************************************************************)
EXTENDS Naturals, Sequences, FiniteSets

CONSTANTS
  Models,
  BufferSize, ChanSize, SendSize,  \* lines kept by a monitor, waiting for its loop, for a client
  Limit,                           \* lines the page shows
  MaxLines, MaxStreams             \* bounds: lines written per model, streams opened

LogAssumption ==
  /\ BufferSize \in Nat \ {0} /\ ChanSize \in Nat \ {0} /\ SendSize \in Nat \ {0} /\ Limit \in Nat \ {0}
  /\ MaxLines \in Nat /\ MaxStreams \in Nat

VARIABLES
  written, broadcastCh, dropped,  \* per model: lines written, waiting for the loop, dropped since
  streams,    \* the streams opened: the server's end, what is on the wire, the lines
              \* that were in its history, and whether one was lost to it since
  current,    \* the stream the tab is subscribed to, 0 for none
  acc,        \* what has been read of it
  logData     \* what the tab shows

monitors == <<written, broadcastCh, dropped>>
tab == <<current, acc, logData>>
vars == <<monitors, streams, tab>>

Asked(m) == [model |-> m, phase |-> "asked", bus |-> <<>>, send |-> <<>>, wire |-> <<>>,
             seen |-> 0, missed |-> FALSE]
Line(m, k, live) == [model |-> m, line |-> k, live |-> live]
Marker(m) == [model |-> m, line |-> 0, live |-> TRUE]

\* (variation: the first lines are kept)
HeadOf(seq, n) == IF Len(seq) > n THEN SubSeq(seq, 1, n) ELSE seq

TailOf(seq, n) == IF Len(seq) > n THEN SubSeq(seq, Len(seq) - n + 1, Len(seq)) ELSE seq

Init ==
  /\ written = [m \in Models |-> 0] /\ broadcastCh = [m \in Models |-> <<>>]
  /\ dropped = [m \in Models |-> 0]
  /\ streams = <<>> /\ current = 0 /\ acc = <<>> /\ logData = <<>>

\* Monitor.Write: never waits for the loop
Write(m) ==
  /\ written[m] < MaxLines
  /\ written' = [written EXCEPT ![m] = @ + 1]
  /\ IF Len(broadcastCh[m]) < ChanSize
     THEN broadcastCh' = [broadcastCh EXCEPT ![m] = Append(@, written[m] + 1)] /\ UNCHANGED dropped
     ELSE dropped' = [dropped EXCEPT ![m] = @ + 1] /\ UNCHANGED broadcastCh
  /\ streams' = [s \in DOMAIN streams |->
       IF streams[s].model = m /\ streams[s].phase \in {"history", "live"} /\ Len(broadcastCh[m]) >= ChanSize
       THEN [streams[s] EXCEPT !.missed = TRUE] ELSE streams[s]]
  /\ UNCHANGED tab

\* GetHistory
History(m) == LET first == IF written[m] > BufferSize THEN written[m] - BufferSize ELSE 0
              IN [i \in 1..(written[m] - first) |-> Line(m, first + i, FALSE)]

\* broadcastLoop: the next line, after a marker for what was dropped; a stream that has
\* its history and is not subscribed yet does not get it
Broadcast(m) ==
  /\ broadcastCh[m] # <<>>
  /\ LET news == (IF dropped[m] > 0 THEN <<Marker(m)>> ELSE <<>>) \o <<Line(m, Head(broadcastCh[m]), TRUE)>>
     IN streams' = [s \in DOMAIN streams |->
          IF streams[s].phase = "live" /\ streams[s].model = m
          THEN [streams[s] EXCEPT !.bus = @ \o news]
          ELSE IF streams[s].phase = "history" /\ streams[s].model = m /\ Head(broadcastCh[m]) > streams[s].seen
          THEN [streams[s] EXCEPT !.missed = TRUE] ELSE streams[s]]
  /\ broadcastCh' = [broadcastCh EXCEPT ![m] = Tail(@)]
  /\ dropped' = [dropped EXCEPT ![m] = 0]
  /\ UNCHANGED <<written, tab>>

\* handleLogStream, up to the subscription.  What the loop has not taken yet is sent again
\* after the history, without the lines that were dropped among it
SendHistory(s) ==
  /\ streams[s].phase = "asked"
  /\ streams' = [streams EXCEPT ![s].phase = "history", ![s].wire = History(streams[s].model),
       ![s].seen = written[streams[s].model],
       ![s].missed = LET ch == broadcastCh[streams[s].model]
                     IN ch # <<>> /\ Head(ch) + Len(ch) - 1 < written[streams[s].model]]
  /\ UNCHANGED <<monitors, tab>>

Subscribe(s) ==
  /\ streams[s].phase = "history"
  /\ streams' = [streams EXCEPT ![s].phase = "live"]
  /\ UNCHANGED <<monitors, tab>>

\* the callback: a client that is ten messages behind loses this one
OnLogData(s) ==
  /\ streams[s].phase = "live" /\ streams[s].bus # <<>>
  /\ streams' = [streams EXCEPT ![s].bus = Tail(@),
       ![s].send = IF Len(@) < SendSize THEN Append(@, Head(streams[s].bus)) ELSE @,
       ![s].missed = @ \/ Len(streams[s].send) >= SendSize]
  /\ UNCHANGED <<monitors, tab>>

Forward(s) ==
  /\ streams[s].phase = "live" /\ streams[s].send # <<>>
  /\ streams' = [streams EXCEPT ![s].send = Tail(@), ![s].wire = Append(@, Head(streams[s].send))]
  /\ UNCHANGED <<monitors, tab>>

\* the handler returns on shutdown; the page reads to the end and keeps what it has
Close(s) ==
  /\ streams[s].phase = "live"
  /\ streams' = [streams EXCEPT ![s].phase = "closed", ![s].bus = <<>>, ![s].send = <<>>]
  /\ UNCHANGED <<monitors, tab>>

-----------------------------------------------------------------------------
\* The page

\* a chunk of the stream is read; a stream that was aborted is not read any more
Read(s) ==
  /\ streams[s].wire # <<>> /\ s = current
  /\ acc' = TailOf(Append(acc, Head(streams[s].wire)), Limit) /\ logData' = acc'
  /\ streams' = [streams EXCEPT ![s].wire = Tail(@)]
  /\ UNCHANGED <<monitors, current>>

\* the request is refused or the connection breaks: "Failed to load logs" is all that
\* is shown
Fails(s) ==
  /\ streams[s].phase \in {"asked", "history", "live"} /\ s = current
  /\ streams' = [streams EXCEPT ![s].phase = "closed", ![s].bus = <<>>, ![s].send = <<>>, ![s].wire = <<>>]
  /\ logData' = <<>>
  /\ UNCHANGED <<monitors, current, acc>>

Aborted == IF current = 0 THEN streams
           ELSE [streams EXCEPT ![current].phase = "aborted", ![current].bus = <<>>,
                                ![current].send = <<>>, ![current].wire = <<>>]

\* (variation: the text of the old store stays until the new one has some)
ShowOver(m) ==
  /\ Len(streams) < MaxStreams
  /\ streams' = Append(Aborted, Asked(m))
  /\ current' = Len(streams) + 1
  /\ UNCHANGED <<monitors, acc, logData>>

\* the effect runs again: the old store is left, its stream aborted and emptied, a
\* stream of the new model asked for
Show(m) ==
  /\ Len(streams) < MaxStreams
  /\ streams' = Append(Aborted, Asked(m))
  /\ current' = Len(streams) + 1 /\ acc' = <<>> /\ logData' = <<>>
  /\ UNCHANGED monitors

\* the tab is left
Leave ==
  /\ current # 0
  /\ streams' = Aborted /\ current' = 0 /\ acc' = <<>> /\ logData' = <<>>
  /\ UNCHANGED monitors

Next ==
  \/ \E m \in Models : Write(m) \/ Broadcast(m) \/ Show(m)
  \/ \E s \in DOMAIN streams :
       \/ SendHistory(s) \/ Subscribe(s) \/ OnLogData(s) \/ Forward(s) \/ Close(s) \/ Read(s) \/ Fails(s)
  \/ Leave

Spec == Init /\ [][Next]_vars

-----------------------------------------------------------------------------
LiveLine(l) == l.live /\ l.line > 0

\* The log shown is the log of one model, the one of the tab, its live lines in the
\* order they were written and none of them twice, whatever was dropped on the way
\* and however often the tab changed.  Lines may be missing, and nothing need say so.
OneLogInOrder ==
  /\ \A i \in DOMAIN logData : logData[i].model = streams[current].model
  /\ \A i, j \in DOMAIN logData :
       i < j /\ LiveLine(logData[i]) /\ LiveLine(logData[j]) => logData[i].line < logData[j].line

\* A stream that nothing holds back ends with the last line written, and shows each line
\* since the first one it shows, unless one was lost to it: dropped by the monitor,
\* whose channel was full (the marker for it may be shown early, before older lines;
\* dropped before the history, it is not among the lines sent again after it), broadcast
\* between its history and its subscription, or dropped by its handler, whose client
\* was behind (no marker for either).
CaughtUp(s) ==
  LET m == streams[s].model
  IN /\ streams[s].phase = "live" /\ ~streams[s].missed
     /\ <<>> = streams[s].bus \o streams[s].send \o streams[s].wire \o broadcastCh[m]
NothingMissing ==
  current # 0 /\ CaughtUp(current) /\ written[streams[current].model] > 0 =>
    LET shown == {logData[i].line : i \in DOMAIN logData} \ {0}
    IN /\ logData # <<>> /\ logData[Len(logData)].line = written[streams[current].model]
       /\ \A k, l \in shown : k..l \subseteq shown
=============================================================================

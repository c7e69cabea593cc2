------------------------- MODULE PerformanceCharts -------------------------
(***************************************************************************)
(* What the performance page draws from the samples it holds               *)
(* (routes/Performance.svelte).  A sample of the system reports its cores  *)
(* and, for the network interfaces there were, how many bytes came in      *)
(* since the system started; a sample of the GPUs one reading for each GPU *)
(* that answered.  A reading is the time it was taken at, so that a chart  *)
(* says where its values come from.  Time is in half seconds; what the     *)
(* page derives is derived again when samples arrive or the window is      *)
(* chosen, not as time passes.                                             *)
(***************************************************************************)
EXTENDS Integers, Sequences, SequencesExt, FiniteSets, FiniteSetsExt

CONSTANTS
  Cores, Interfaces,
  Gpus, VramGpus,      \* the GPUs, and those that report the temperature of their memory
  Steps, Bytes,        \* what may pass and arrive between two samples
  Scale,               \* the rates' unit: 1 byte per half second is Scale
  Windows, None,
  MaxSamples           \* bound

ChartsAssumption ==
  /\ Cores \in Nat /\ VramGpus \subseteq Gpus /\ Steps \subseteq Nat /\ Bytes \subseteq Nat
  /\ Windows \subseteq Nat /\ MaxSamples \in Nat
  /\ \A dt \in Steps \ {0} : Scale % dt = 0

VARIABLES
  sysData, gpuData,   \* the samples the page holds
  received,           \* the bytes that have come in, by interface
  now,                \* the time of the last sample
  derivedAt,          \* when the charts were derived
  selectedWindow

vars == <<sysData, gpuData, received, now, derivedAt, selectedWindow>>

Init ==
  /\ sysData = <<>> /\ gpuData = <<>> /\ now = 1 /\ derivedAt = 1
  /\ received = [i \in Interfaces |-> 0]
  /\ selectedWindow \in Windows

\* a sample of the system and one of the GPUs, after dt; the clock may stand still
Sampled(dt, ifaces, gpus, bytes) ==
  /\ Len(sysData) < MaxSamples
  /\ now' = now + dt /\ derivedAt' = now'
  /\ received' = [i \in Interfaces |-> received[i] + bytes]
  /\ sysData' = Append(sysData, [at |-> now', cores |-> [c \in 1..Cores |-> now'],
                                 netIO |-> [i \in ifaces |-> received'[i]]])
  /\ gpuData' = gpuData \o [g \in DOMAIN SetToSeq(gpus) |->
                              [id |-> SetToSeq(gpus)[g], at |-> now', vram |-> SetToSeq(gpus)[g] \in VramGpus]]
  /\ UNCHANGED selectedWindow

SelectWindow(w) ==
  /\ w # selectedWindow /\ selectedWindow' = w /\ derivedAt' = now
  /\ UNCHANGED <<sysData, gpuData, received, now>>

Next ==
  \/ \E dt \in Steps, ifaces \in SUBSET Interfaces, gpus \in SUBSET Gpus, bytes \in Bytes :
       Sampled(dt, ifaces, gpus, bytes)
  \/ \E w \in Windows : SelectWindow(w)

Spec == Init /\ [][Next]_vars

-----------------------------------------------------------------------------
\* What is drawn

CutoffTime == derivedAt - selectedWindow
FilteredSys == SelectSeq(sysData, LAMBDA s : s.at >= CutoffTime)
FilteredGpu == SelectSeq(gpuData, LAMBDA g : g.at >= CutoffTime)

\* hours, minutes and seconds
FormatChartTime(t) == t \div 2

Map(s, Op(_)) == [i \in DOMAIN s |-> Op(s[i])]
SysLabels == Map(FilteredSys, LAMBDA s : FormatChartTime(s.at))

\* as many cores as the first sample shown has
CpuDatasets ==
  IF FilteredSys = <<>> THEN <<>>
  ELSE [c \in DOMAIN FilteredSys[1].cores |-> Map(FilteredSys, LAMBDA s : s.cores[c])]

MemSwapDatasets ==
  IF FilteredSys = <<>> THEN <<>> ELSE [kind \in 1..2 |-> Map(FilteredSys, LAMBDA s : s.at)]
LatestMemSwap == IF FilteredSys = <<>> THEN None ELSE Last(FilteredSys).at
LoadDatasets ==
  IF FilteredSys = <<>> THEN <<>> ELSE [average \in 1..3 |-> Map(FilteredSys, LAMBDA s : s.at)]

\* the rate of the bytes between two samples, of an interface that is in both
RatePerSample(prev, curr, iface) ==
  IF iface \notin DOMAIN prev.netIO \cap DOMAIN curr.netIO THEN 0
  ELSE (curr.netIO[iface] - prev.netIO[iface]) * Scale
Rate(prev, curr, iface) ==
  IF iface \notin DOMAIN prev.netIO \cap DOMAIN curr.netIO \/ curr.at <= prev.at THEN 0
  ELSE ((curr.netIO[iface] - prev.netIO[iface]) * Scale) \div (curr.at - prev.at)

InterfaceNames == UNION {DOMAIN FilteredSys[i].netIO : i \in DOMAIN FilteredSys}
NetBandwidthDatasets ==
  IF Len(FilteredSys) < 2 THEN <<>>
  ELSE [iface \in InterfaceNames |->
          [i \in 1..(Len(FilteredSys) - 1) |-> Rate(FilteredSys[i], FilteredSys[i + 1], iface)]]
NetBandwidthLabels == IF Len(FilteredSys) < 2 THEN <<>> ELSE Tail(SysLabels)

\* one label a second, however many readings that second has
GpuLabelsOfAll == Map(FilteredGpu, LAMBDA g : FormatChartTime(g.at))
GpuLabels ==
  FoldLeft(LAMBDA labels, g : IF Contains(labels, FormatChartTime(g.at)) THEN labels
                              ELSE Append(labels, FormatChartTime(g.at)),
           <<>>, FilteredGpu)

\* the readings of each GPU, one after the other
BuildGpuDatasets(stats) ==
  [id \in {stats[i].id : i \in DOMAIN stats} |->
     Map(SelectSeq(stats, LAMBDA g : g.id = id), LAMBDA g : g.at)]

HasVramTemp == \E i \in DOMAIN FilteredGpu : FilteredGpu[i].vram

\* the charts on the page
Chart(title, labels, datasets) == [title |-> title, labels |-> labels, datasets |-> datasets]
GpuCharts ==
  IF gpuData = <<>> THEN {}
  ELSE {Chart(field, GpuLabels, BuildGpuDatasets(FilteredGpu)) :
          field \in {"gpu_util", "mem_util", "temp", "power_draw"}
                      \cup (IF HasVramTemp THEN {"vram_temp"} ELSE {})}
SystemCharts ==
  {Chart("cpu", SysLabels, CpuDatasets), Chart("memory", SysLabels, MemSwapDatasets),
   Chart("load", SysLabels, LoadDatasets)}
NetCharts ==
  IF NetBandwidthDatasets = <<>> THEN {}
  ELSE {Chart("bandwidth", NetBandwidthLabels, NetBandwidthDatasets)}

-----------------------------------------------------------------------------
\* Every value stands over the second it was measured in.
Aligned(chart) ==
  \A d \in DOMAIN chart.datasets :
    chart.labels = Map(chart.datasets[d], LAMBDA at : FormatChartTime(at))

\* the samples shown are of different seconds and each has every GPU
GpusSteady ==
  /\ \A i, j \in DOMAIN FilteredSys : i < j => FormatChartTime(FilteredSys[i].at) # FormatChartTime(FilteredSys[j].at)
  /\ Len(FilteredGpu) = Cardinality(Gpus) * Len(FilteredSys)

\* The charts of the system are aligned with their labels, those of the GPUs as long
\* as no GPU misses a sample and no two samples share a second (the code gives every
\* GPU the labels of all).  The bandwidth drawn for an interface that never went away
\* adds up, over the time drawn, to the bytes that came in.
ChartsTrue ==
  /\ \A chart \in SystemCharts : Aligned(chart)
  /\ GpusSteady => \A chart \in GpuCharts : Aligned(chart)
  /\ \A chart \in NetCharts : \A iface \in DOMAIN chart.datasets :
       (\A i \in DOMAIN FilteredSys : iface \in DOMAIN FilteredSys[i].netIO)
       /\ (\A i \in 2..Len(FilteredSys) : FilteredSys[i].at > FilteredSys[i - 1].at) =>
         FoldFunctionOnSet(+, 0,
             [i \in DOMAIN chart.labels |->
                chart.datasets[iface][i] * (FilteredSys[i + 1].at - FilteredSys[i].at)],
             DOMAIN chart.labels)
           = Scale * (Last(FilteredSys).netIO[iface] - Head(FilteredSys).netIO[iface])
=============================================================================

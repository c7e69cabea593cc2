-------------------------- MODULE PagesData_proofs --------------------------
(***************************************************************************)
(* What the pages of MCPages show and keep, for any values of their        *)
(* constants.  The list of requests in flight, the activity log, the files *)
(* on disk and the event bus that feeds them settle; the columns, the      *)
(* theme and the divider are found again on the next visit; a capture is   *)
(* shown as what it is, and the cache holds those added last.  Each part   *)
(* is proved on its own: an inductive invariant of the part, which holds   *)
(* at its Init and is kept by its Next; ActivityPage has that of the       *)
(* activity log.                                                           *)
(*                                                                         *)
(* A part's variables are v1, v2, ... in MCPages; here they have the names *)
(* they have in the part's module.                                         *)
(***************************************************************************)
EXTENDS MCPages, SequenceTheorems, WellFoundedInduction, TLAPS

-----------------------------------------------------------------------------
(* The tracker of the requests in flight, and the list of one browser.     *)

live == v1
used == v2
version == v3
timers == v4
outbox == v5
needsSnapshot == v6
enqueue == v7
publisher == v8
connection == v11
initial == v12
bus == v13
wire == v14
opened == v15
shown == v17
missed == v18
USE DEF live, used, version, timers, outbox, needsSnapshot, enqueue, publisher, connection,
        initial, bus, wire, opened, shown, missed

Entries == [id : InflightIds, version : Nat]
Updates ==
  {u \in [operation : {"upsert", "remove", "snapshot"}, entries : SUBSET Entries,
          id : InflightIds \cup {0}] :
     /\ u.operation = "upsert" => \A e \in u.entries : e.id = u.id
     /\ u.operation = "remove" => u.entries = {}}

\* what a list says of a request
At(s, r) == {e \in s : e.id = r}
Cur(r) == IF r \in live THEN {Tracker!Entry(r)} ELSE {}

About(u, r) == u.operation = "snapshot" \/ u.id = r
Silent(p, r) == \A i \in 1..Len(p) : ~About(p[i], r)

\* The last update of p about r says x.
Tells(p, r, x) ==
  \E i \in 1..Len(p) : /\ About(p[i], r) /\ At(p[i].entries, r) = x
                       /\ \A j \in 1..Len(p) : i < j => ~About(p[j], r)

\* So does a list to which the updates of p are applied, if it says so before that (B).
Comes(p, r, x, B) == Tells(p, r, x) \/ (Silent(p, r) /\ B)

\* a snapshot is still to be taken
Due == needsSnapshot \/ enqueue = "overflow" \/ publisher = "discard"

QueueTells ==
  ~Due => \A r \in InflightIds \ timers : Comes(outbox, r, Cur(r), TRUE)

\* What is under way ends with what the tracker has, at each place it may have come to;
\* the browser's list too, unless an update was missed.
Arrives ==
  ~Due /\ publisher # "snapshot" =>
    \A r \in InflightIds \ timers :
      /\ Comes(outbox, r, Cur(r), Comes(bus, r, Cur(r), TRUE))
      /\ connection = "read" /\ ~missed =>
           Comes(outbox, r, Cur(r), Comes(bus, r, Cur(r), At(initial, r) = Cur(r)))
      /\ connection = "up" /\ ~missed =>
           Comes(outbox, r, Cur(r),
                 Comes(bus, r, Cur(r), Comes(wire, r, Cur(r), At(shown, r) = Cur(r))))

\* The browser drops its list when the connection opens, but a snapshot follows, unless it
\* was dropped.
Opens ==
  /\ connection = "up" /\ ~opened /\ ~missed =>
       \E i \in 1..Len(wire) : wire[i].operation = "snapshot"
  /\ opened => connection = "up"
  /\ connection = "down" => bus = <<>> /\ wire = <<>> /\ ~opened

TrackerTypes ==
  /\ live \subseteq used /\ used \subseteq InflightIds /\ timers \subseteq live
  /\ version \in [InflightIds -> Nat]
  /\ outbox \in Seq(Updates) /\ bus \in Seq(Updates) /\ wire \in Seq(Updates)
  /\ initial \subseteq Entries /\ shown \subseteq Entries

TrackerInv == TrackerTypes /\ QueueTells /\ Arrives /\ Opens

-----------------------------------------------------------------------------
(* Sequences of updates.                                                   *)

LEMMA NothingTells == ASSUME NEW r, NEW x PROVE Silent(<<>>, r) /\ ~Tells(<<>>, r, x)
PROOF BY DEF Silent, Tells

LEMMA AppendTells ==
  ASSUME NEW p \in Seq(Updates), NEW u \in Updates, NEW r, NEW x
  PROVE  /\ Append(p, u) \in Seq(Updates)
         /\ Silent(Append(p, u), r) <=> Silent(p, r) /\ ~About(u, r)
         /\ About(u, r) => (Tells(Append(p, u), r, x) <=> At(u.entries, r) = x)
         /\ ~About(u, r) => (Tells(Append(p, u), r, x) <=> Tells(p, r, x))
PROOF
<1> DEFINE q == Append(p, u)
           n == Len(p)
<1>1. /\ q \in Seq(Updates) /\ n \in Nat /\ Len(q) = n + 1 /\ q[n + 1] = u
      /\ \A i \in 1..n : q[i] = p[i]
  BY AppendProperties
<1> HIDE DEF q, n
<1>2. \A i \in 1..(n + 1) : i \in 1..n \/ i = n + 1 BY <1>1
<1>3. 1..n \subseteq 1..(n + 1) /\ n + 1 \in 1..(n + 1) BY <1>1
<1>4. \A i \in 1..n : i < n + 1 /\ ~(n + 1 < i) BY <1>1
<1>5. ~(n + 1 < n + 1) BY <1>1
<1>6. Silent(q, r) <=> Silent(p, r) /\ ~About(u, r)
  BY <1>1, <1>2, <1>3 DEF Silent, n
<1>7. About(u, r) => (Tells(q, r, x) <=> At(u.entries, r) = x)
  <2> SUFFICES ASSUME About(u, r) PROVE Tells(q, r, x) <=> At(u.entries, r) = x OBVIOUS
  <2>1. ASSUME Tells(q, r, x) PROVE At(u.entries, r) = x
    <3>1. PICK i \in 1..Len(q) : /\ About(q[i], r) /\ At(q[i].entries, r) = x
                                 /\ \A j \in 1..Len(q) : i < j => ~About(q[j], r)
      BY <2>1 DEF Tells
    <3>2. i = n + 1 BY <1>1, <1>2, <1>3, <1>4, <3>1
    <3> QED BY <1>1, <3>1, <3>2
  <2>2. ASSUME At(u.entries, r) = x PROVE Tells(q, r, x)
    <3>1. \A j \in 1..Len(q) : ~(n + 1 < j) BY <1>1
    <3> QED BY <1>1, <1>3, <2>2, <3>1 DEF Tells
  <2> QED BY <2>1, <2>2
<1>8. ~About(u, r) => (Tells(q, r, x) <=> Tells(p, r, x))
  <2> SUFFICES ASSUME ~About(u, r) PROVE Tells(q, r, x) <=> Tells(p, r, x) OBVIOUS
  <2>1. ASSUME Tells(q, r, x) PROVE Tells(p, r, x)
    <3>1. PICK i \in 1..Len(q) : /\ About(q[i], r) /\ At(q[i].entries, r) = x
                                 /\ \A j \in 1..Len(q) : i < j => ~About(q[j], r)
      BY <2>1 DEF Tells
    <3>2. i \in 1..n BY <1>1, <1>2, <3>1
    <3> QED BY <1>1, <1>3, <3>1, <3>2 DEF Tells, n
  <2>2. ASSUME Tells(p, r, x) PROVE Tells(q, r, x)
    <3>1. PICK i \in 1..n : /\ About(p[i], r) /\ At(p[i].entries, r) = x
                            /\ \A j \in 1..n : i < j => ~About(p[j], r)
      BY <2>2 DEF Tells, n
    <3>2. \A j \in 1..Len(q) : i < j => ~About(q[j], r) BY <1>1, <1>2, <3>1
    <3> QED BY <1>1, <1>3, <3>1, <3>2 DEF Tells
  <2> QED BY <2>1, <2>2
<1> QED BY <1>1, <1>6, <1>7, <1>8 DEF q

LEMMA HeadTells ==
  ASSUME NEW p \in Seq(Updates), p # <<>>, NEW r, NEW x
  PROVE  /\ Head(p) \in Updates /\ Tail(p) \in Seq(Updates)
         /\ Silent(p, r) <=> ~About(Head(p), r) /\ Silent(Tail(p), r)
         /\ Tells(p, r, x) <=> \/ Tells(Tail(p), r, x)
                               \/ /\ Silent(Tail(p), r) /\ About(Head(p), r)
                                  /\ At(Head(p).entries, r) = x
PROOF
<1> DEFINE q == Tail(p)
           u == Head(p)
           n == Len(q)
<1>1. /\ q \in Seq(Updates) /\ u \in Updates /\ n \in Nat /\ Len(p) = n + 1 /\ p[1] = u
      /\ \A i \in 1..n : p[i + 1] = q[i]
  BY HeadTailProperties
<1> HIDE DEF q, u, n
<1>2. /\ \A i \in 1..(n + 1) : i = 1 \/ (i - 1 \in 1..n /\ (i - 1) + 1 = i)
      /\ \A i \in 1..n : i + 1 \in 1..(n + 1) /\ 1 < i + 1 /\ i + 1 # 1
      /\ 1 \in 1..(n + 1)
  BY <1>1
<1>0. \A i \in 1..Len(p) : i # 1 => i - 1 \in 1..n /\ p[i] = q[i - 1]
  <2> SUFFICES ASSUME NEW i \in 1..Len(p), i # 1 PROVE i - 1 \in 1..n /\ p[i] = q[i - 1]
    OBVIOUS
  <2>1. i - 1 \in 1..n /\ (i - 1) + 1 = i BY <1>1, <1>2
  <2>2. p[(i - 1) + 1] = q[i - 1] BY <1>1, <2>1
  <2> QED BY <2>1, <2>2
<1>3. Silent(p, r) <=> ~About(u, r) /\ Silent(q, r)
  <2>1. ASSUME Silent(p, r) PROVE ~About(u, r) /\ Silent(q, r)
    BY <1>1, <1>2, <2>1 DEF Silent, n
  <2>2. ASSUME ~About(u, r), Silent(q, r), NEW i \in 1..Len(p) PROVE ~About(p[i], r)
    BY <1>0, <1>1, <2>2 DEF Silent, n
  <2> QED BY <2>1, <2>2 DEF Silent
<1>4. ASSUME Tells(p, r, x), ~Tells(q, r, x)
      PROVE  Silent(q, r) /\ About(u, r) /\ At(u.entries, r) = x
  <2>1. PICK i \in 1..Len(p) : /\ About(p[i], r) /\ At(p[i].entries, r) = x
                               /\ \A j \in 1..Len(p) : i < j => ~About(p[j], r)
    BY <1>4 DEF Tells
  <2>2. CASE i = 1
    <3>1. \A j \in 1..n : ~About(q[j], r) BY <1>1, <1>2, <2>1, <2>2
    <3> QED BY <1>1, <2>1, <2>2, <3>1 DEF Silent, n
  <2>3. CASE i # 1
    <3>1. i - 1 \in 1..n /\ q[i - 1] = p[i] BY <1>1, <1>2, <2>1, <2>3
    <3>2. ASSUME NEW j \in 1..n, i - 1 < j PROVE ~About(q[j], r)
      <4>1. i < j + 1 /\ j + 1 \in 1..Len(p) BY <1>1, <3>2
      <4> QED BY <1>1, <2>1, <4>1
    <3>3. Tells(q, r, x) BY <2>1, <3>1, <3>2 DEF Tells, n
    <3> QED BY <1>4, <3>3
  <2> QED BY <2>2, <2>3
<1>5. ASSUME Tells(q, r, x) PROVE Tells(p, r, x)
  <2>1. PICK i \in 1..n : /\ About(q[i], r) /\ At(q[i].entries, r) = x
                          /\ \A j \in 1..n : i < j => ~About(q[j], r)
    BY <1>5 DEF Tells, n
  <2>2. i + 1 \in 1..Len(p) /\ p[i + 1] = q[i] BY <1>1, <1>2, <2>1
  <2>3. ASSUME NEW j \in 1..Len(p), i + 1 < j PROVE ~About(p[j], r)
    <3>1. j - 1 \in 1..n /\ i < j - 1 /\ p[j] = q[j - 1] BY <1>1, <1>2, <2>1, <2>3
    <3> QED BY <2>1, <3>1
  <2> QED BY <2>1, <2>2, <2>3 DEF Tells
<1>6. ASSUME Silent(q, r), About(u, r), At(u.entries, r) = x PROVE Tells(p, r, x)
  <2>1. ASSUME NEW j \in 1..Len(p), 1 < j PROVE ~About(p[j], r)
    BY <1>0, <1>1, <1>6, <2>1 DEF Silent, n
  <2> QED BY <1>1, <1>2, <1>6, <2>1 DEF Tells
<1> QED BY <1>1, <1>3, <1>4, <1>5, <1>6 DEF q, u

\* An update that moves from one queue to the end of the next one changes nothing.
LEMMA MovedOn ==
  ASSUME NEW p \in Seq(Updates), p # <<>>, NEW q \in Seq(Updates), NEW r, NEW x,
         NEW B \in BOOLEAN
  PROVE  Comes(p, r, x, Comes(q, r, x, B))
           <=> Comes(Tail(p), r, x, Comes(Append(q, Head(p)), r, x, B))
PROOF
<1> DEFINE u == Head(p)
           t == Tail(p)
           a == Append(q, u)
<1>1. /\ u \in Updates
      /\ Silent(p, r) <=> ~About(u, r) /\ Silent(t, r)
      /\ Tells(p, r, x) <=> Tells(t, r, x) \/ (Silent(t, r) /\ About(u, r) /\ At(u.entries, r) = x)
  BY HeadTells
<1>2. /\ Silent(a, r) <=> Silent(q, r) /\ ~About(u, r)
      /\ About(u, r) => (Tells(a, r, x) <=> At(u.entries, r) = x)
      /\ ~About(u, r) => (Tells(a, r, x) <=> Tells(q, r, x))
  BY <1>1, AppendTells
<1> HIDE DEF u, t, a
<1>3. Comes(p, r, x, Comes(q, r, x, B)) <=> Comes(t, r, x, Comes(a, r, x, B))
  BY <1>1, <1>2 DEF Comes
<1> QED BY <1>3 DEF u, t, a

LEMMA TakenOff ==
  ASSUME NEW p \in Seq(Updates), p # <<>>, NEW r, NEW x, Comes(p, r, x, TRUE)
  PROVE  Comes(Tail(p), r, x, TRUE)
PROOF BY HeadTells DEF Comes

LEMMA PutAtEnd ==
  ASSUME NEW p \in Seq(Updates), NEW u \in Updates, NEW r, NEW x,
         About(u, r) => At(u.entries, r) = x
  PROVE  /\ Append(p, u) \in Seq(Updates)
         /\ About(u, r) => Tells(Append(p, u), r, x)
         /\ ~About(u, r) => /\ Tells(Append(p, u), r, x) <=> Tells(p, r, x)
                            /\ Silent(Append(p, u), r) <=> Silent(p, r)
PROOF BY AppendTells

-----------------------------------------------------------------------------
(* What the tracker has.                                                   *)

LEMMA CurrentIs ==
  ASSUME TrackerTypes
  PROVE  /\ Tracker!Current \subseteq Entries
         /\ \A r \in InflightIds : At(Tracker!Current, r) = Cur(r)
PROOF
<1>1. \A r \in live : Tracker!Entry(r) \in Entries /\ Tracker!Entry(r).id = r
  BY DEF TrackerTypes, Entries, Tracker!Entry
<1>2. Tracker!Current \subseteq Entries BY <1>1 DEF Tracker!Current
<1>3. ASSUME NEW r \in InflightIds PROVE At(Tracker!Current, r) = Cur(r)
  <2>1. ASSUME NEW e \in At(Tracker!Current, r) PROVE e \in Cur(r)
    <3>1. e.id = r /\ \E o \in live : e = Tracker!Entry(o) BY DEF At, Tracker!Current
    <3> QED BY <1>1, <3>1 DEF Cur
  <2>2. ASSUME NEW e \in Cur(r) PROVE e \in At(Tracker!Current, r)
    <3>1. r \in live /\ e = Tracker!Entry(r) BY DEF Cur
    <3> QED BY <1>1, <3>1 DEF At, Tracker!Current
  <2> QED BY <2>1, <2>2
<1> QED BY <1>2, <1>3

LEMMA UpdatesTyped ==
  ASSUME NEW r \in InflightIds, NEW n \in Nat
  PROVE  /\ Tracker!Upsert([id |-> r, version |-> n]) \in Updates
         /\ Tracker!Upsert([id |-> r, version |-> n]).operation = "upsert"
         /\ Tracker!Upsert([id |-> r, version |-> n]).id = r
         /\ At(Tracker!Upsert([id |-> r, version |-> n]).entries, r) = {[id |-> r, version |-> n]}
         /\ Tracker!Remove(r) \in Updates /\ Tracker!Remove(r).operation = "remove"
         /\ Tracker!Remove(r).id = r /\ At(Tracker!Remove(r).entries, r) = {}
PROOF BY DEF Updates, Entries, Tracker!Upsert, Tracker!Remove, At

LEMMA SnapshotTyped ==
  ASSUME NEW s \in SUBSET Entries
  PROVE  /\ Tracker!Snapshot(s) \in Updates /\ Tracker!Snapshot(s).operation = "snapshot"
         /\ Tracker!Snapshot(s).entries = s
PROOF BY DEF Updates, Tracker!Snapshot

-----------------------------------------------------------------------------
(* The steps.                                                              *)

\* A step of the tracker, which tells of the one request that changes.
LEMMA ToldOf ==
  ASSUME TrackerInv, NEW r \in InflightIds, NEW u \in Updates,
         u.operation # "snapshot", u.id = r, Tracker!Enqueue(u),
         \A o \in InflightIds : o # r => Cur(o)' = Cur(o),
         Cur(r)' = At(u.entries, r),
         \A o \in InflightIds \ timers' : o # r => o \notin timers,
         UNCHANGED <<connection, initial, bus, wire, opened, shown, missed>>
  PROVE  outbox' \in Seq(Updates) /\ QueueTells' /\ Arrives' /\ Opens'
PROOF
<1>1. Opens' BY DEF TrackerInv, Opens
<1>2. outbox \in Seq(Updates) BY DEF TrackerInv, TrackerTypes
<1>3. enqueue = "idle" /\ UNCHANGED <<needsSnapshot, publisher>> BY DEF Tracker!Enqueue
<1>4. CASE outbox' = outbox /\ enqueue' = "overflow"
  <2>1. Due' BY <1>4 DEF Due
  <2> QED BY <1>1, <1>2, <1>4, <2>1 DEF QueueTells, Arrives
<1>5. CASE outbox' = Append(outbox, u) /\ enqueue' = "start"
  <2>1. ~Due' => ~Due BY <1>3 DEF Due
  <2>2. outbox' \in Seq(Updates) BY <1>2, <1>5, AppendTells
  <2>3. Tells(outbox', r, Cur(r)')
    BY <1>2, <1>5, PutAtEnd DEF About
  <2>4. ASSUME NEW o \in InflightIds \ timers', o # r
        PROVE  /\ o \in InflightIds \ timers /\ Cur(o)' = Cur(o)
               /\ Tells(outbox', o, Cur(o)) <=> Tells(outbox, o, Cur(o))
               /\ Silent(outbox', o) <=> Silent(outbox, o)
    <3>1. ~About(u, o) BY <2>4 DEF About
    <3>2. /\ Tells(outbox', o, Cur(o)) <=> Tells(outbox, o, Cur(o))
          /\ Silent(outbox', o) <=> Silent(outbox, o)
      BY <1>2, <1>5, <3>1, PutAtEnd
    <3> QED BY <2>4, <3>2
  <2>5. QueueTells' BY <2>1, <2>3, <2>4 DEF TrackerInv, QueueTells, Comes
  <2>6. Arrives'
    <3> SUFFICES ASSUME ~Due', publisher' # "snapshot", NEW o \in InflightIds \ timers'
                 PROVE  /\ Comes(outbox', o, Cur(o)', Comes(bus, o, Cur(o)', TRUE))
                        /\ connection = "read" /\ ~missed =>
                             Comes(outbox', o, Cur(o)', Comes(bus, o, Cur(o)', At(initial, o) = Cur(o)'))
                        /\ connection = "up" /\ ~missed =>
                             Comes(outbox', o, Cur(o)',
                               Comes(bus, o, Cur(o)', Comes(wire, o, Cur(o)', At(shown, o) = Cur(o)')))
      BY DEF Arrives
    <3>1. CASE o = r BY <2>3, <3>1 DEF Comes
    <3>2. CASE o # r
      <4>1. ~Due /\ publisher # "snapshot" BY <1>3, <2>1
      <4> QED BY <2>4, <3>2, <4>1 DEF TrackerInv, Arrives, Comes
    <3> QED BY <3>1, <3>2
  <2> QED BY <1>1, <2>2, <2>5, <2>6
<1> QED BY <1>4, <1>5 DEF Tracker!Enqueue

LEMMA TrackerBegins == ASSUME Tracker!Init PROVE TrackerInv
PROOF
<1>1. <<>> \in Seq(Updates) OBVIOUS
<1>2. TrackerTypes BY <1>1 DEF Tracker!Init, TrackerTypes
<1>3. Silent(<<>>, 0) /\ \A r : Silent(<<>>, r) BY NothingTells
<1>4. QueueTells BY <1>3 DEF Tracker!Init, QueueTells, Comes
<1>5. Arrives BY <1>3 DEF Tracker!Init, Arrives, Comes
<1>6. Opens BY DEF Tracker!Init, Opens
<1> QED BY <1>2, <1>4, <1>5, <1>6 DEF TrackerInv

LEMMA ChangeIs ==
  ASSUME TrackerTypes, NEW r \in InflightIds, Tracker!Changed(r)
  PROVE  /\ r \in live /\ version[r] + 1 \in Nat /\ version' \in [InflightIds -> Nat]
         /\ version'[r] = version[r] + 1
         /\ \A o \in InflightIds : o # r => version'[o] = version[o]
PROOF
<1>1. r \in live /\ version' = [version EXCEPT ![r] = version[r] + 1]
  BY Zenon DEF Tracker!Changed
<1> QED BY <1>1 DEF TrackerTypes

LEMMA RequestKeeps ==
  ASSUME TrackerInv, NEW r \in InflightIds,
         \/ Tracker!Add(r) \/ Tracker!RemoveRequest(r) \/ Tracker!Update(r)
         \/ Tracker!UpdateLater(r) \/ Tracker!EmitPending(r)
  PROVE  TrackerInv'
PROOF
<1>0. TrackerTypes /\ version[r] \in Nat BY DEF TrackerInv, TrackerTypes
<1>1. CASE Tracker!Add(r)
  <2> DEFINE u == Tracker!Upsert(Tracker!Entry(r))
  <2>1. /\ live' = live \cup {r} /\ used' = used \cup {r} /\ UNCHANGED <<version, timers>>
        /\ UNCHANGED <<connection, initial, bus, wire, opened, shown, missed>>
        /\ Tracker!Enqueue(u)
    BY <1>1 DEF Tracker!Add, Tracker!client
  <2>2. /\ u \in Updates /\ u.operation # "snapshot" /\ u.id = r
        /\ At(u.entries, r) = {Tracker!Entry(r)}
    BY <1>0, UpdatesTyped DEF Tracker!Entry
  <2> HIDE DEF u
  <2>3. \A o \in InflightIds : o # r => Cur(o)' = Cur(o) BY <2>1 DEF Cur, Tracker!Entry
  <2>4. Cur(r)' = At(u.entries, r) BY <2>1, <2>2 DEF Cur, Tracker!Entry
  <2>5. outbox' \in Seq(Updates) /\ QueueTells' /\ Arrives' /\ Opens'
    BY <2>1, <2>2, <2>3, <2>4, ToldOf
  <2>6. TrackerTypes' BY <1>0, <2>1, <2>5 DEF TrackerTypes
  <2> QED BY <2>5, <2>6 DEF TrackerInv
<1>2. CASE Tracker!RemoveRequest(r)
  <2> DEFINE u == Tracker!Remove(r)
  <2>1. /\ live' = live \ {r} /\ timers' = timers \ {r} /\ UNCHANGED <<used, version>>
        /\ UNCHANGED <<connection, initial, bus, wire, opened, shown, missed>>
        /\ Tracker!Enqueue(u)
    BY <1>2 DEF Tracker!RemoveRequest, Tracker!client
  <2>2. u \in Updates /\ u.operation # "snapshot" /\ u.id = r /\ At(u.entries, r) = {}
    BY <1>0, UpdatesTyped
  <2> HIDE DEF u
  <2>3. \A o \in InflightIds : o # r => Cur(o)' = Cur(o) BY <2>1 DEF Cur, Tracker!Entry
  <2>4. Cur(r)' = At(u.entries, r) BY <2>1, <2>2 DEF Cur
  <2>5. outbox' \in Seq(Updates) /\ QueueTells' /\ Arrives' /\ Opens'
    BY <2>1, <2>2, <2>3, <2>4, ToldOf
  <2>6. TrackerTypes' BY <1>0, <2>1, <2>5 DEF TrackerTypes
  <2> QED BY <2>5, <2>6 DEF TrackerInv
<1>3. CASE Tracker!Update(r)
  <2> DEFINE u == Tracker!Upsert([id |-> r, version |-> version[r] + 1])
  <2>1. /\ Tracker!Changed(r) /\ UNCHANGED <<live, used, timers>>
        /\ UNCHANGED <<connection, initial, bus, wire, opened, shown, missed>>
        /\ Tracker!Enqueue(u)
    BY <1>3 DEF Tracker!Update, Tracker!client
  <2>2. /\ r \in live /\ version[r] + 1 \in Nat /\ version' \in [InflightIds -> Nat]
        /\ version'[r] = version[r] + 1
        /\ \A o \in InflightIds : o # r => version'[o] = version[o]
    BY <1>0, <2>1, ChangeIs
  <2>3. /\ u \in Updates /\ u.operation # "snapshot" /\ u.id = r
        /\ At(u.entries, r) = {[id |-> r, version |-> version[r] + 1]}
    BY <2>2, UpdatesTyped
  <2> HIDE DEF u
  <2>4. \A o \in InflightIds : o # r => Cur(o)' = Cur(o) BY <2>1, <2>2 DEF Cur, Tracker!Entry
  <2>5. Cur(r)' = At(u.entries, r) BY <2>1, <2>2, <2>3 DEF Cur, Tracker!Entry
  <2>6. outbox' \in Seq(Updates) /\ QueueTells' /\ Arrives' /\ Opens'
    BY <2>1, <2>3, <2>4, <2>5, ToldOf
  <2>7. TrackerTypes' BY <1>0, <2>1, <2>2, <2>6 DEF TrackerTypes
  <2> QED BY <2>6, <2>7 DEF TrackerInv
<1>4. CASE Tracker!UpdateLater(r)
  <2>1. /\ Tracker!Changed(r) /\ timers' = timers \cup {r} /\ UNCHANGED <<live, used>>
        /\ UNCHANGED <<outbox, needsSnapshot, enqueue, publisher>>
        /\ UNCHANGED <<connection, initial, bus, wire, opened, shown, missed>>
    BY <1>4 DEF Tracker!UpdateLater, Tracker!client, Tracker!queueing
  <2>2. /\ r \in live /\ version' \in [InflightIds -> Nat]
        /\ \A o \in InflightIds : o # r => version'[o] = version[o]
    BY <1>0, <2>1, ChangeIs
  <2>3. \A o \in InflightIds \ timers' : o \in InflightIds \ timers /\ Cur(o)' = Cur(o)
    BY <2>1, <2>2 DEF Cur, Tracker!Entry
  <2>4. TrackerTypes' BY <1>0, <2>1, <2>2 DEF TrackerTypes
  <2>5. Due' = Due BY <2>1 DEF Due
  <2>6. QueueTells'
    <3> SUFFICES ASSUME ~Due, NEW o \in InflightIds \ timers'
                 PROVE  Comes(outbox, o, Cur(o)', TRUE)
      BY <2>1, <2>5 DEF QueueTells
    <3> QED BY <2>3 DEF TrackerInv, QueueTells
  <2>7. Arrives'
    <3> SUFFICES ASSUME ~Due, publisher # "snapshot", NEW o \in InflightIds \ timers'
                 PROVE  /\ Comes(outbox, o, Cur(o)', Comes(bus, o, Cur(o)', TRUE))
                        /\ connection = "read" /\ ~missed =>
                             Comes(outbox, o, Cur(o)', Comes(bus, o, Cur(o)', At(initial, o) = Cur(o)'))
                        /\ connection = "up" /\ ~missed =>
                             Comes(outbox, o, Cur(o)',
                               Comes(bus, o, Cur(o)', Comes(wire, o, Cur(o)', At(shown, o) = Cur(o)')))
      BY <2>1, <2>5 DEF Arrives
    <3> QED BY <2>3 DEF TrackerInv, Arrives
  <2>8. Opens' BY <2>1 DEF TrackerInv, Opens
  <2> QED BY <2>4, <2>6, <2>7, <2>8 DEF TrackerInv
<1>5. CASE Tracker!EmitPending(r)
  <2> DEFINE u == Tracker!Upsert(Tracker!Entry(r))
  <2>1. /\ r \in live /\ timers' = timers \ {r} /\ UNCHANGED <<live, used, version>>
        /\ UNCHANGED <<connection, initial, bus, wire, opened, shown, missed>>
        /\ Tracker!Enqueue(u)
    BY <1>5 DEF Tracker!EmitPending, Tracker!client
  <2>2. /\ u \in Updates /\ u.operation # "snapshot" /\ u.id = r
        /\ At(u.entries, r) = {Tracker!Entry(r)}
    BY <1>0, UpdatesTyped DEF Tracker!Entry
  <2> HIDE DEF u
  <2>3. \A o \in InflightIds : o # r => Cur(o)' = Cur(o) BY <2>1 DEF Cur, Tracker!Entry
  <2>4. Cur(r)' = At(u.entries, r) BY <2>1, <2>2 DEF Cur, Tracker!Entry
  <2>5. outbox' \in Seq(Updates) /\ QueueTells' /\ Arrives' /\ Opens'
    BY <2>1, <2>2, <2>3, <2>4, ToldOf
  <2>6. TrackerTypes' BY <1>0, <2>1, <2>5 DEF TrackerTypes
  <2> QED BY <2>5, <2>6 DEF TrackerInv
<1> QED BY <1>1, <1>2, <1>3, <1>4, <1>5

\* The state of the queue and of its goroutines changes, and nothing that they carry.
LEMMA QueueKeeps ==
  ASSUME TrackerInv, UNCHANGED <<live, used, version, timers, outbox>>,
         UNCHANGED <<connection, initial, bus, wire, opened, shown, missed>>,
         ~Due' => ~Due,
         ~Due' /\ publisher' # "snapshot" => publisher # "snapshot"
  PROVE  TrackerInv'
PROOF
<1>1. \A r \in InflightIds : Cur(r)' = Cur(r) BY DEF Cur, Tracker!Entry
<1>2. TrackerTypes' /\ Opens' BY DEF TrackerInv, TrackerTypes, Opens
<1>3. QueueTells'
  <2> SUFFICES ASSUME ~Due, NEW o \in InflightIds \ timers
               PROVE  Comes(outbox, o, Cur(o)', TRUE)
    BY DEF QueueTells
  <2> QED BY <1>1 DEF TrackerInv, QueueTells
<1>4. Arrives'
  <2> SUFFICES ASSUME ~Due, publisher # "snapshot", NEW o \in InflightIds \ timers
               PROVE  /\ Comes(outbox, o, Cur(o)', Comes(bus, o, Cur(o)', TRUE))
                      /\ connection = "read" /\ ~missed =>
                           Comes(outbox, o, Cur(o)', Comes(bus, o, Cur(o)', At(initial, o) = Cur(o)'))
                      /\ connection = "up" /\ ~missed =>
                           Comes(outbox, o, Cur(o)',
                             Comes(bus, o, Cur(o)', Comes(wire, o, Cur(o)', At(shown, o) = Cur(o)')))
    BY DEF Arrives
  <2> QED BY <1>1 DEF TrackerInv, Arrives
<1> QED BY <1>2, <1>3, <1>4 DEF TrackerInv


\* What a browser makes of an update.
LEMMA AppliedIs ==
  ASSUME NEW s \in SUBSET Entries, NEW u \in Updates, NEW r
  PROVE  /\ Tracker!Applied(s, u) \subseteq Entries
         /\ About(u, r) => At(Tracker!Applied(s, u), r) = At(u.entries, r)
         /\ ~About(u, r) => At(Tracker!Applied(s, u), r) = At(s, r)
PROOF
<1>1. /\ u.operation \in {"upsert", "remove", "snapshot"} /\ u.entries \subseteq Entries
      /\ u.operation = "upsert" => \A e \in u.entries : e.id = u.id
      /\ u.operation = "remove" => u.entries = {}
  BY DEF Updates
<1>2. CASE u.operation = "snapshot"
  <2>1. Tracker!Applied(s, u) = u.entries BY <1>2 DEF Tracker!Applied
  <2> QED BY <1>1, <1>2, <2>1 DEF About
<1>3. CASE u.operation = "upsert"
  <2>1. Tracker!Applied(s, u) = {e \in s : e.id # u.id} \cup u.entries
    BY <1>3 DEF Tracker!Applied
  <2> QED BY <1>1, <1>3, <2>1 DEF About, At
<1>4. CASE u.operation = "remove"
  <2>1. Tracker!Applied(s, u) = {e \in s : e.id # u.id} BY <1>4 DEF Tracker!Applied
  <2> QED BY <1>1, <1>4, <2>1 DEF About, At
<1> QED BY <1>1, <1>2, <1>3, <1>4

\* What Arrives says of one request, for the queues it is given.
Reaches(out, b, i, w, s, r, x) ==
  /\ Comes(out, r, x, Comes(b, r, x, TRUE))
  /\ connection = "read" /\ ~missed => Comes(out, r, x, Comes(b, r, x, At(i, r) = x))
  /\ connection = "up" /\ ~missed => Comes(out, r, x, Comes(b, r, x, Comes(w, r, x, At(s, r) = x)))

LEMMA ArrivesIs ==
  Arrives <=>
    (~Due /\ publisher # "snapshot" =>
       \A r \in InflightIds \ timers : Reaches(outbox, bus, initial, wire, shown, r, Cur(r)))
PROOF BY DEF Arrives, Reaches

LEMMA PublisherKeeps ==
  ASSUME TrackerInv, Tracker!PublishUpdate \/ Tracker!DiscardQueued \/ Tracker!PublishSnapshot
  PROVE  TrackerInv'
PROOF
<1>1. TrackerTypes BY DEF TrackerInv
<1>2. UNCHANGED <<live, used, version, timers, connection, initial, wire, opened, shown, missed>>
  BY DEF Tracker!PublishUpdate, Tracker!DiscardQueued, Tracker!PublishSnapshot,
         Tracker!tracker, Tracker!client
<1>3. \A r \in InflightIds : Cur(r)' = Cur(r) BY <1>2 DEF Cur, Tracker!Entry
<1>4. \A r : Silent(<<>>, r) BY NothingTells
<1>5. CASE Tracker!PublishUpdate
  <2>1. /\ publisher = "select" /\ publisher' = "recover" /\ outbox # <<>>
        /\ outbox' = Tail(outbox) /\ UNCHANGED <<needsSnapshot, enqueue>>
        /\ bus' = IF connection = "down" THEN bus ELSE Append(bus, Head(outbox))
    BY <1>5 DEF Tracker!PublishUpdate, Tracker!Publish
  <2>2. outbox \in Seq(Updates) /\ bus \in Seq(Updates) BY <1>1 DEF TrackerTypes
  <2>3. Head(outbox) \in Updates /\ Tail(outbox) \in Seq(Updates) BY <2>1, <2>2, HeadTells
  <2>4. bus' \in Seq(Updates) BY <2>1, <2>2, <2>3
  <2>5. TrackerTypes' BY <1>1, <1>2, <2>1, <2>3, <2>4 DEF TrackerTypes
  <2>6. Due' = Due BY <2>1 DEF Due
  <2>7. ASSUME ~Due, NEW r \in InflightIds \ timers PROVE Comes(Tail(outbox), r, Cur(r), TRUE)
    <3>1. Comes(outbox, r, Cur(r), TRUE) BY <2>7 DEF TrackerInv, QueueTells
    <3> QED BY <2>1, <2>2, <3>1, TakenOff
  <2>8. QueueTells'
    <3> SUFFICES ASSUME ~Due, NEW r \in InflightIds \ timers
                 PROVE  Comes(Tail(outbox), r, Cur(r)', TRUE)
      BY <1>2, <2>1, <2>6 DEF QueueTells
    <3> QED BY <1>3, <2>7
  <2>9. Arrives'
    <3> SUFFICES ASSUME ~Due, NEW r \in InflightIds \ timers
                 PROVE  Reaches(Tail(outbox), bus', initial, wire, shown, r, Cur(r))
      BY <1>2, <1>3, <2>1, <2>6 DEF Arrives, Reaches
    <3>1. Reaches(outbox, bus, initial, wire, shown, r, Cur(r))
      BY <2>1, ArrivesIs DEF TrackerInv
    <3>2. CASE connection = "down"
      <4>1. bus' = <<>> BY <2>1, <3>2 DEF TrackerInv, Opens
      <4> QED BY <1>4, <2>7, <3>2, <4>1 DEF Reaches, Comes
    <3>3. CASE connection # "down"
      <4>1. bus' = Append(bus, Head(outbox)) BY <2>1, <3>3
      <4>2. \A B \in BOOLEAN : Comes(outbox, r, Cur(r), Comes(bus, r, Cur(r), B))
               => Comes(Tail(outbox), r, Cur(r), Comes(bus', r, Cur(r), B))
        BY <2>1, <2>2, <4>1, MovedOn
      <4>3. Comes(wire, r, Cur(r), At(shown, r) = Cur(r)) \in BOOLEAN BY DEF Comes, Tells, Silent
      <4> QED BY <3>1, <4>2, <4>3 DEF Reaches
    <3> QED BY <3>2, <3>3
  <2>10. Opens' BY <1>2, <2>1 DEF TrackerInv, Opens
  <2> QED BY <2>5, <2>8, <2>9, <2>10 DEF TrackerInv
<1>6. CASE Tracker!DiscardQueued
  <2>1. /\ publisher = "discard" /\ UNCHANGED <<needsSnapshot, enqueue, bus>>
        /\ \/ outbox # <<>> /\ outbox' = Tail(outbox) /\ publisher' = "discard"
           \/ outbox = <<>> /\ outbox' = <<>> /\ publisher' = "snapshot"
    BY <1>6 DEF Tracker!DiscardQueued
  <2>2. outbox \in Seq(Updates) BY <1>1 DEF TrackerTypes
  <2>3. outbox' \in Seq(Updates) BY <2>1, <2>2, HeadTells
  <2>4. TrackerTypes' BY <1>1, <1>2, <2>1, <2>3 DEF TrackerTypes
  <2>5. Opens' BY <1>2, <2>1 DEF TrackerInv, Opens
  <2>6. CASE publisher' = "discard"
    <3>1. Due' BY <2>6 DEF Due
    <3> QED BY <2>4, <2>5, <3>1 DEF TrackerInv, QueueTells, Arrives
  <2>7. CASE publisher' = "snapshot"
    <3>1. outbox' = <<>> BY <2>1, <2>7
    <3>2. QueueTells' BY <1>4, <3>1 DEF QueueTells, Comes
    <3> QED BY <2>4, <2>5, <2>7, <3>2 DEF TrackerInv, Arrives
  <2> QED BY <2>1, <2>6, <2>7
<1>7. CASE Tracker!PublishSnapshot
  <2> DEFINE u == Tracker!Snapshot(Tracker!Current)
  <2>1. /\ publisher = "snapshot" /\ publisher' = "recover"
        /\ UNCHANGED <<outbox, needsSnapshot, enqueue>>
        /\ bus' = IF connection = "down" THEN bus ELSE Append(bus, u)
    BY <1>7 DEF Tracker!PublishSnapshot, Tracker!Publish
  <2>2. outbox \in Seq(Updates) /\ bus \in Seq(Updates) BY <1>1 DEF TrackerTypes
  <2>3. /\ u \in Updates /\ \A r \in InflightIds : About(u, r) /\ At(u.entries, r) = Cur(r)
    BY <1>1, CurrentIs, SnapshotTyped DEF About
  <2> HIDE DEF u
  <2>4. bus' \in Seq(Updates) BY <2>1, <2>2, <2>3
  <2>5. TrackerTypes' BY <1>1, <1>2, <2>1, <2>4 DEF TrackerTypes
  <2>6. Due' = Due BY <2>1 DEF Due
  <2>7. QueueTells'
    <3> SUFFICES ASSUME ~Due, NEW r \in InflightIds \ timers
                 PROVE  Comes(outbox, r, Cur(r)', TRUE)
      BY <1>2, <2>1, <2>6 DEF QueueTells
    <3> QED BY <1>3 DEF TrackerInv, QueueTells
  <2>8. Arrives'
    <3> SUFFICES ASSUME ~Due, NEW r \in InflightIds \ timers
                 PROVE  Reaches(outbox, bus', initial, wire, shown, r, Cur(r))
      BY <1>2, <1>3, <2>1, <2>6 DEF Arrives, Reaches
    <3>1. Comes(outbox, r, Cur(r), TRUE) BY DEF TrackerInv, QueueTells
    <3>2. CASE connection = "down"
      <4>1. bus' = <<>> BY <2>1, <3>2 DEF TrackerInv, Opens
      <4> QED BY <1>4, <3>1, <3>2, <4>1 DEF Reaches, Comes
    <3>3. CASE connection # "down"
      <4>1. Tells(bus', r, Cur(r)) BY <2>1, <2>2, <2>3, <3>3, PutAtEnd
      <4> QED BY <3>1, <4>1 DEF Reaches, Comes
    <3> QED BY <3>2, <3>3
  <2>9. Opens' BY <1>2, <2>1 DEF TrackerInv, Opens
  <2> QED BY <2>5, <2>7, <2>8, <2>9 DEF TrackerInv
<1> QED BY <1>5, <1>6, <1>7

LEMMA ClientKeeps ==
  ASSUME TrackerInv,
         \/ Tracker!Subscribe \/ Tracker!ReadInitial \/ Tracker!SendInitial
         \/ Tracker!SendUpdate \/ Tracker!Disconnect \/ Tracker!OnOpen \/ Tracker!OnInflight
  PROVE  TrackerInv'
PROOF
<1>0. /\ TrackerTypes
      /\ bus \in Seq(Updates) /\ wire \in Seq(Updates)
      /\ initial \in SUBSET Entries /\ shown \in SUBSET Entries
  BY DEF TrackerInv, TrackerTypes
<1>1. UNCHANGED <<live, used, version, timers, outbox, needsSnapshot, enqueue, publisher>>
  BY DEF Tracker!Subscribe, Tracker!ReadInitial, Tracker!SendInitial, Tracker!SendUpdate,
         Tracker!Disconnect, Tracker!OnOpen, Tracker!OnInflight,
         Tracker!tracker, Tracker!queueing
<1>2. Due' = Due BY <1>1 DEF Due
<1>3. \A r \in InflightIds : Cur(r)' = Cur(r) BY <1>1 DEF Cur, Tracker!Entry
<1>4. \A r : Silent(<<>>, r) BY NothingTells
<1>5. QueueTells'
  <2> SUFFICES ASSUME ~Due, NEW r \in InflightIds \ timers PROVE Comes(outbox, r, Cur(r)', TRUE)
    BY <1>1, <1>2 DEF QueueTells
  <2> QED BY <1>3 DEF TrackerInv, QueueTells
<1>6. ASSUME TrackerTypes', Opens',
             \A r \in InflightIds \ timers :
               Comes(outbox, r, Cur(r), TRUE) /\ Reaches(outbox, bus, initial, wire, shown, r, Cur(r))
                 => /\ Comes(outbox, r, Cur(r), Comes(bus', r, Cur(r), TRUE))
                    /\ connection' = "read" /\ ~missed' =>
                         Comes(outbox, r, Cur(r), Comes(bus', r, Cur(r), At(initial', r) = Cur(r)))
                    /\ connection' = "up" /\ ~missed' =>
                         Comes(outbox, r, Cur(r), Comes(bus', r, Cur(r),
                           Comes(wire', r, Cur(r), At(shown', r) = Cur(r))))
      PROVE  TrackerInv'
  <2>1. ASSUME ~Due, publisher # "snapshot", NEW r \in InflightIds \ timers
        PROVE  Comes(outbox, r, Cur(r), TRUE) /\ Reaches(outbox, bus, initial, wire, shown, r, Cur(r))
    BY <2>1, ArrivesIs DEF TrackerInv, QueueTells
  <2>2. Arrives' BY <1>1, <1>2, <1>3, <1>6, <2>1 DEF Arrives
  <2> QED BY <1>5, <1>6, <2>2 DEF TrackerInv
<1>7. CASE Tracker!Subscribe
  <2>1. /\ connection = "down" /\ connection' = "subscribed"
        /\ UNCHANGED <<initial, bus, wire, opened, shown, missed>>
    BY <1>7 DEF Tracker!Subscribe
  <2>2. TrackerTypes' /\ Opens' BY <1>0, <1>1, <2>1 DEF TrackerInv, TrackerTypes, Opens
  <2> QED BY <1>6, <2>1, <2>2 DEF Reaches
<1>8. CASE Tracker!ReadInitial
  <2>1. /\ connection = "subscribed" /\ connection' = "read" /\ initial' = Tracker!Current
        /\ UNCHANGED <<bus, wire, opened, shown>>
    BY <1>8 DEF Tracker!ReadInitial
  <2>2. initial' \subseteq Entries /\ \A r \in InflightIds : At(initial', r) = Cur(r)
    BY <1>0, <2>1, CurrentIs
  <2>3. TrackerTypes' /\ Opens' BY <1>0, <1>1, <2>1, <2>2 DEF TrackerInv, TrackerTypes, Opens
  <2> QED BY <1>6, <2>1, <2>2, <2>3 DEF Reaches
<1>9. CASE Tracker!SendInitial
  <2> DEFINE u == Tracker!Snapshot(initial)
  <2>1. /\ connection = "read" /\ connection' = "up" /\ initial' = {}
        /\ UNCHANGED <<bus, opened, shown>>
        /\ \/ wire' = wire /\ missed'
           \/ wire' = Append(wire, u) /\ missed' = missed
    BY <1>9 DEF Tracker!SendInitial, Tracker!Drop
  <2>2. u \in Updates /\ u.operation = "snapshot" /\ u.entries = initial BY <1>0, SnapshotTyped
  <2> HIDE DEF u
  <2>3. CASE wire' = wire /\ missed'
    <3>1. TrackerTypes' BY <1>0, <1>1, <2>1, <2>3 DEF TrackerTypes
    <3>2. Opens' BY <2>1, <2>3 DEF Opens
    <3> QED BY <1>6, <2>1, <2>3, <3>1, <3>2 DEF Reaches
  <2>4. CASE wire' = Append(wire, u) /\ missed' = missed
    <3>1. wire' \in Seq(Updates) BY <1>0, <2>4, <2>2
    <3>2. TrackerTypes' BY <1>0, <1>1, <2>1, <3>1 DEF TrackerTypes
    <3>3. Len(wire') \in 1..Len(wire') /\ wire'[Len(wire')] = u BY <1>0, <2>4, <2>2
    <3>4. Opens' BY <2>1, <2>2, <3>3 DEF Opens
    <3>5. ASSUME NEW r \in InflightIds, At(initial, r) = Cur(r) PROVE Tells(wire', r, Cur(r))
      <4>1. About(u, r) /\ At(u.entries, r) = Cur(r) BY <2>2, <3>5 DEF About
      <4> QED BY <1>0, <2>4, <2>2, <4>1, PutAtEnd
    <3>6. \A r \in InflightIds :
            Comes(outbox, r, Cur(r), Comes(bus, r, Cur(r), At(initial, r) = Cur(r)))
              => Comes(outbox, r, Cur(r), Comes(bus, r, Cur(r),
                   Comes(wire', r, Cur(r), At(shown, r) = Cur(r))))
      BY <3>5 DEF Comes
    <3> QED BY <1>6, <2>1, <2>4, <3>2, <3>4, <3>6 DEF Reaches
  <2> QED BY <2>1, <2>3, <2>4
<1>10. CASE Tracker!SendUpdate
  <2> DEFINE u == Head(bus)
  <2>1. /\ bus # <<>> /\ bus' = Tail(bus) /\ UNCHANGED <<connection, initial, opened, shown>>
        /\ \/ wire' = wire /\ missed'
           \/ /\ wire' = Append(wire, u)
              /\ missed' <=> (Tracker!Early(u) \/ (missed /\ u.operation # "snapshot"))
    BY Zenon, <1>10 DEF Tracker!SendUpdate, Tracker!Drop, Tracker!client
  <2>2. u \in Updates /\ bus' \in Seq(Updates) BY <1>0, <2>1, HeadTells
  <2>3. wire' \in Seq(Updates) BY <1>0, <2>1, <2>2
  <2>4. TrackerTypes' BY <1>0, <1>1, <2>1, <2>2, <2>3 DEF TrackerTypes
  <2>5. \A r \in InflightIds : Comes(bus, r, Cur(r), TRUE) => Comes(bus', r, Cur(r), TRUE)
    BY <1>0, <2>1, TakenOff
  <2>6. ASSUME NEW r \in InflightIds \ timers, Comes(outbox, r, Cur(r), Comes(bus, r, Cur(r), TRUE))
        PROVE  Comes(outbox, r, Cur(r), Comes(bus', r, Cur(r), TRUE))
    <3>1. Comes(bus, r, Cur(r), TRUE) => Comes(bus', r, Cur(r), TRUE) BY <2>5
    <3> QED BY <2>6, <3>1 DEF Comes
  <2>7. CASE wire' = wire /\ missed'
    <3>1. Opens' BY <2>1, <2>7 DEF TrackerInv, Opens
    <3> QED BY <1>6, <2>1, <2>4, <2>6, <2>7, <3>1 DEF Reaches
  <2>8. CASE /\ wire' = Append(wire, u)
             /\ missed' <=> (Tracker!Early(u) \/ (missed /\ u.operation # "snapshot"))
    <3>1. /\ \A i \in 1..Len(wire) : i \in 1..Len(wire') /\ wire'[i] = wire[i]
          /\ Len(wire') \in 1..Len(wire') /\ wire'[Len(wire')] = u
      BY <1>0, <2>2, <2>8
    <3>2. ~missed' => ~missed \/ u.operation = "snapshot" BY <2>8
    <3>3. Opens' BY <2>1, <3>1, <3>2 DEF TrackerInv, Opens
    <3>4. ASSUME ~missed', connection = "read", NEW r \in InflightIds
          PROVE  About(u, r) => At(u.entries, r) = At(initial, r)
      <4>1. Tracker!Applied(initial, u) = initial BY <2>8, <3>4 DEF Tracker!Early
      <4> QED BY <1>0, <2>2, <4>1, AppliedIs
    <3>5. ASSUME NEW r \in InflightIds
          PROVE  /\ Silent(bus, r) <=> ~About(u, r) /\ Silent(bus', r)
                 /\ Tells(bus, r, Cur(r)) <=>
                      \/ Tells(bus', r, Cur(r))
                      \/ Silent(bus', r) /\ About(u, r) /\ At(u.entries, r) = Cur(r)
      BY <1>0, <2>1, HeadTells
    <3>6. ASSUME ~missed', connection = "read", NEW r \in InflightIds, 
                 Comes(bus, r, Cur(r), TRUE),
                 ~missed => Comes(bus, r, Cur(r), At(initial, r) = Cur(r))
          PROVE  Comes(bus', r, Cur(r), At(initial, r) = Cur(r))
      <4>1. About(u, r) => At(u.entries, r) = At(initial, r) BY <3>4, <3>6
      <4>2. missed => About(u, r) BY <3>2, <3>6 DEF About
      <4> HIDE DEF u
      <4> QED BY <3>5, <3>6, <4>1, <4>2 DEF Comes
    <3>7. ASSUME NEW r \in InflightIds,
                 Comes(bus, r, Cur(r), Comes(wire, r, Cur(r), At(shown, r) = Cur(r)))
          PROVE  Comes(bus', r, Cur(r), Comes(wire', r, Cur(r), At(shown, r) = Cur(r)))
      BY <1>0, <2>1, <2>8, <3>7, MovedOn
    <3>8. ASSUME NEW r \in InflightIds, About(u, r), Comes(bus, r, Cur(r), TRUE)
          PROVE  Comes(bus', r, Cur(r), Comes(wire', r, Cur(r), At(shown, r) = Cur(r)))
      <4>1. At(u.entries, r) = Cur(r) => Tells(wire', r, Cur(r))
        BY <1>0, <2>2, <2>8, <3>8, PutAtEnd
      <4> HIDE DEF u
      <4> QED BY <3>5, <3>8, <4>1 DEF Comes
    <3>9. ASSUME ~missed', NEW r \in InflightIds, Comes(bus, r, Cur(r), TRUE),
                 ~missed => Comes(bus, r, Cur(r), Comes(wire, r, Cur(r), At(shown, r) = Cur(r)))
          PROVE  Comes(bus', r, Cur(r), Comes(wire', r, Cur(r), At(shown, r) = Cur(r)))
      <4>1. CASE ~missed BY <3>7, <3>9, <4>1
      <4>2. CASE missed
        <5>1. About(u, r) BY <3>2, <3>9, <4>2 DEF About
        <5> QED BY <3>8, <3>9, <5>1
      <4> QED BY <4>1, <4>2
    <3>10. ASSUME NEW r \in InflightIds \ timers, Comes(outbox, r, Cur(r), TRUE),
                  Reaches(outbox, bus, initial, wire, shown, r, Cur(r))
           PROVE  /\ Comes(outbox, r, Cur(r), Comes(bus', r, Cur(r), TRUE))
                  /\ connection = "read" /\ ~missed' =>
                       Comes(outbox, r, Cur(r), Comes(bus', r, Cur(r), At(initial, r) = Cur(r)))
                  /\ connection = "up" /\ ~missed' =>
                       Comes(outbox, r, Cur(r), Comes(bus', r, Cur(r),
                         Comes(wire', r, Cur(r), At(shown, r) = Cur(r))))
      <4>1. CASE Tells(outbox, r, Cur(r)) BY <4>1 DEF Comes
      <4>2. CASE ~Tells(outbox, r, Cur(r))
        <5>1. /\ Silent(outbox, r) /\ Comes(bus, r, Cur(r), TRUE)
              /\ connection = "read" /\ ~missed => Comes(bus, r, Cur(r), At(initial, r) = Cur(r))
              /\ connection = "up" /\ ~missed =>
                   Comes(bus, r, Cur(r), Comes(wire, r, Cur(r), At(shown, r) = Cur(r)))
          BY Zenon, <3>10, <4>2 DEF Reaches, Comes
        <5>2. Comes(outbox, r, Cur(r), Comes(bus', r, Cur(r), TRUE))
          BY <2>6, <3>10 DEF Reaches
        <5>3. ASSUME connection = "read", ~missed'
              PROVE  Comes(bus', r, Cur(r), At(initial, r) = Cur(r))
          BY Zenon, <3>6, <5>1, <5>3
        <5>4. ASSUME connection = "up", ~missed'
              PROVE  Comes(bus', r, Cur(r), Comes(wire', r, Cur(r), At(shown, r) = Cur(r)))
          BY Zenon, <3>9, <5>1, <5>4
        <5>5. \A B : B => Comes(outbox, r, Cur(r), B) BY Zenon, <5>1 DEF Comes
        <5> QED BY Zenon, <5>2, <5>3, <5>4, <5>5
      <4> QED BY <4>1, <4>2
    <3> QED BY <1>6, <2>1, <2>4, <3>3, <3>10
  <2> QED BY <2>1, <2>7, <2>8
<1>11. CASE Tracker!Disconnect
  <2>1. /\ connection' = "down" /\ initial' = {} /\ ~opened' /\ bus' = <<>> /\ wire' = <<>>
        /\ UNCHANGED <<shown, missed>>
    BY <1>11 DEF Tracker!Disconnect
  <2>2. TrackerTypes' /\ Opens' BY <1>0, <1>1, <2>1 DEF TrackerTypes, Opens
  <2> QED BY <1>4, <1>6, <2>1, <2>2 DEF Comes
<1>12. CASE Tracker!OnOpen
  <2>1. /\ connection = "up" /\ ~opened /\ opened' /\ shown' = {}
        /\ UNCHANGED <<connection, initial, bus, wire, missed>>
    BY <1>12 DEF Tracker!OnOpen
  <2>2. TrackerTypes' BY <1>0, <1>1, <2>1 DEF TrackerTypes
  <2>3. Opens' BY <2>1 DEF TrackerInv, Opens
  <2>4. ASSUME ~missed, NEW r PROVE ~Silent(wire, r)
    BY <2>1, <2>4 DEF TrackerInv, Opens, Silent, About
  <2> QED BY <1>6, <2>1, <2>2, <2>3, <2>4 DEF Reaches, Comes
<1>13. CASE Tracker!OnInflight
  <2> DEFINE u == Head(wire)
  <2>1. /\ opened /\ wire # <<>> /\ wire' = Tail(wire) /\ shown' = Tracker!Applied(shown, u)
        /\ UNCHANGED <<connection, initial, bus, opened, missed>>
    BY <1>13 DEF Tracker!OnInflight, Tracker!client
  <2>2. u \in Updates /\ wire' \in Seq(Updates) BY <1>0, <2>1, HeadTells
  <2>3. /\ shown' \subseteq Entries
        /\ \A r : /\ About(u, r) => At(shown', r) = At(u.entries, r)
                  /\ ~About(u, r) => At(shown', r) = At(shown, r)
    BY <1>0, <2>1, <2>2, AppliedIs
  <2>4. TrackerTypes' BY <1>0, <1>1, <2>1, <2>2, <2>3 DEF TrackerTypes
  <2>5. Opens' BY <2>1 DEF TrackerInv, Opens
  <2>9. connection = "up" BY <2>1 DEF TrackerInv, Opens
  <2>6. \A r : /\ Silent(wire, r) <=> ~About(u, r) /\ Silent(wire', r)
               /\ Tells(wire, r, Cur(r)) <=>
                    \/ Tells(wire', r, Cur(r))
                    \/ Silent(wire', r) /\ About(u, r) /\ At(u.entries, r) = Cur(r)
    BY <1>0, <2>1, HeadTells
  <2> HIDE DEF u
  <2>7. \A r : Comes(wire, r, Cur(r), At(shown, r) = Cur(r))
                 => Comes(wire', r, Cur(r), At(shown', r) = Cur(r))
    BY <2>3, <2>6 DEF Comes
  <2>8. ASSUME NEW r \in InflightIds \ timers, connection = "up",
               Comes(outbox, r, Cur(r), Comes(bus, r, Cur(r),
                 Comes(wire, r, Cur(r), At(shown, r) = Cur(r))))
        PROVE  Comes(outbox, r, Cur(r), Comes(bus, r, Cur(r),
                 Comes(wire', r, Cur(r), At(shown', r) = Cur(r))))
    <3>1. Comes(wire, r, Cur(r), At(shown, r) = Cur(r))
            => Comes(wire', r, Cur(r), At(shown', r) = Cur(r)) BY <2>7
    <3> QED BY <2>8, <3>1 DEF Comes
  <2> QED BY <1>6, <2>1, <2>4, <2>5, <2>8, <2>9 DEF Reaches
<1> QED BY <1>7, <1>8, <1>9, <1>10, <1>11, <1>12, <1>13

LEMMA TrackerStays ==
  ASSUME TrackerInv, Tracker!Next \/ UNCHANGED Tracker!vars
  PROVE  TrackerInv'
PROOF
<1>1. CASE \E r \in InflightIds : \/ Tracker!Add(r) \/ Tracker!RemoveRequest(r) \/ Tracker!Update(r)
                                  \/ Tracker!UpdateLater(r) \/ Tracker!EmitPending(r)
  BY <1>1, RequestKeeps
<1>2. CASE Tracker!NeedSnapshot
  <2>1. /\ UNCHANGED <<live, used, version, timers, outbox>>
        /\ UNCHANGED <<connection, initial, bus, wire, opened, shown, missed>>
        /\ needsSnapshot' = TRUE
    BY <1>2 DEF Tracker!NeedSnapshot, Tracker!tracker, Tracker!client
  <2> QED BY <2>1, QueueKeeps DEF Due
<1>3. CASE Tracker!StartPublisher
  <2>1. /\ UNCHANGED <<live, used, version, timers, outbox>>
        /\ UNCHANGED <<connection, initial, bus, wire, opened, shown, missed>>
        /\ enqueue = "start" /\ needsSnapshot' = needsSnapshot
        /\ publisher' = IF publisher = "none" THEN "select" ELSE publisher
    BY <1>3 DEF Tracker!StartPublisher, Tracker!tracker, Tracker!client
  <2>2. ~Due' => ~Due BY <2>1 DEF Due
  <2>3. publisher' # "snapshot" => publisher # "snapshot" BY <2>1
  <2> QED BY <2>1, <2>2, <2>3, QueueKeeps
<1>4. CASE Tracker!Recover
  <2>1. /\ UNCHANGED <<live, used, version, timers, outbox>>
        /\ UNCHANGED <<connection, initial, bus, wire, opened, shown, missed>>
        /\ publisher = "recover" /\ enqueue' = enqueue
        /\ publisher' = IF needsSnapshot THEN "discard" ELSE "select"
    BY <1>4 DEF Tracker!Recover, Tracker!tracker, Tracker!client
  <2>2. ~Due' => ~Due BY <2>1 DEF Due
  <2>3. publisher # "snapshot" BY <2>1
  <2> QED BY <2>1, <2>2, <2>3, QueueKeeps
<1>5. CASE Tracker!GoIdle
  <2>1. /\ UNCHANGED <<live, used, version, timers, outbox>>
        /\ UNCHANGED <<connection, initial, bus, wire, opened, shown, missed>>
        /\ publisher = "select" /\ UNCHANGED <<enqueue, needsSnapshot>>
    BY <1>5 DEF Tracker!GoIdle, Tracker!tracker, Tracker!client
  <2>2. ~Due' => ~Due BY <2>1 DEF Due
  <2>3. publisher # "snapshot" BY <2>1
  <2> QED BY <2>1, <2>2, <2>3, QueueKeeps
<1>6. CASE Tracker!LookAgain
  <2>1. /\ UNCHANGED <<live, used, version, timers, outbox>>
        /\ UNCHANGED <<connection, initial, bus, wire, opened, shown, missed>>
        /\ UNCHANGED <<publisher, enqueue, needsSnapshot>>
    BY <1>6 DEF Tracker!LookAgain, Tracker!tracker, Tracker!client
  <2>2. ~Due' => ~Due BY <2>1 DEF Due
  <2> QED BY <2>1, <2>2, QueueKeeps
<1>7. CASE Tracker!Reclaim
  <2>1. /\ UNCHANGED <<live, used, version, timers, outbox>>
        /\ UNCHANGED <<connection, initial, bus, wire, opened, shown, missed>>
        /\ UNCHANGED <<enqueue, needsSnapshot>>
        /\ publisher' = IF publisher = "none" THEN "select" ELSE publisher
    BY <1>7 DEF Tracker!Reclaim, Tracker!tracker, Tracker!client
  <2>2. ~Due' => ~Due BY <2>1 DEF Due
  <2>3. publisher' # "snapshot" => publisher # "snapshot" BY <2>1
  <2> QED BY <2>1, <2>2, <2>3, QueueKeeps
<1>8. CASE UNCHANGED Tracker!vars
  <2>1. /\ UNCHANGED <<live, used, version, timers, outbox>>
        /\ UNCHANGED <<connection, initial, bus, wire, opened, shown, missed>>
        /\ UNCHANGED <<publisher, enqueue, needsSnapshot>>
    BY <1>8 DEF Tracker!vars, Tracker!tracker, Tracker!queueing, Tracker!client
  <2>2. ~Due' => ~Due BY <2>1 DEF Due
  <2> QED BY <2>1, <2>2, QueueKeeps
<1> QED BY <1>1, <1>2, <1>3, <1>4, <1>5, <1>6, <1>7, <1>8, PublisherKeeps, ClientKeeps
        DEF Tracker!Next

LEMMA TrackerMeans == TrackerInv => Tracker!ListSettles
PROOF
<1> SUFFICES ASSUME TrackerInv, publisher = "none", enqueue = "idle", outbox = <<>>, bus = <<>>,
                    wire = <<>>, timers = {}, connection = "up", ~needsSnapshot, ~missed
             PROVE  shown = Tracker!Current
  BY DEF Tracker!ListSettles, Tracker!PublisherGone
<1>1. ~Due BY DEF Due
<1>2. \A r : Silent(<<>>, r) /\ ~Tells(<<>>, r, Cur(r)) BY NothingTells
<1>3. \A r \in InflightIds : At(shown, r) = Cur(r) BY <1>1, <1>2 DEF TrackerInv, Arrives, Comes
<1>4. /\ shown \subseteq Entries /\ Tracker!Current \subseteq Entries
      /\ \A r \in InflightIds : At(Tracker!Current, r) = Cur(r)
  BY CurrentIs DEF TrackerInv, TrackerTypes
<1>5. \A e \in Entries : e.id \in InflightIds BY DEF Entries
<1>6. \A e \in Entries : /\ e \in shown <=> e \in At(shown, e.id)
                         /\ e \in Tracker!Current <=> e \in At(Tracker!Current, e.id)
  BY DEF At
<1> QED BY <1>3, <1>4, <1>5, <1>6

HIDE DEF live, used, version, timers, outbox, needsSnapshot, enqueue, publisher, connection,
         initial, bus, wire, opened, shown, missed

-----------------------------------------------------------------------------
(* The files on disk, and the page that lists them.                        *)

disk == v1
report == v3
loading == v7
error == v8
calls == v9
lost == v11
overlapped == v12
USE DEF disk, report, loading, error, calls, lost, overlapped

IsLoad(c) == \E n, d, f : c = [kind |-> "load", n |-> n, disk |-> d, flags |-> f]
IsFlag(c) == \E n, names, s, f :
  c = [kind |-> "flag", n |-> n, names |-> names, state |-> s, flags |-> f]
IsDelete(c) == \E n, names, s :
  c = [kind |-> "delete", n |-> n, names |-> names, served |-> s]
IsCall(c) == IsLoad(c) \/ IsFlag(c) \/ IsDelete(c)

\* The file f is one of a delete request that is under way or was never answered.
Excused(f) == f \in lost \/ \E c \in calls : IsDelete(c) /\ f \in c.names
AllExcused(files) == \A f \in files \ disk : Excused(f)

\* One load is under way at a time, and no rows are shown beside it.  What it has read of
\* the disk, and what the rows are of, is there but for what was asked to be deleted.
DiskInv ==
  /\ \A c \in calls : IsCall(c)
  /\ ~overlapped =>
       /\ \A c \in calls : IsLoad(c) => loading /\ (c.disk = None \/ AllExcused(c.disk))
       /\ \A b, c \in calls : IsLoad(b) /\ IsLoad(c) => b = c
       /\ Disk!Listed => AllExcused(report)

LEMMA KindsOf ==
  \A c : /\ IsLoad(c) => c.kind = "load"
         /\ IsFlag(c) => c.kind = "flag"
         /\ IsDelete(c) => c.kind = "delete"
PROOF BY DEF IsLoad, IsFlag, IsDelete

LEMMA KindIs ==
  ASSUME NEW c, IsCall(c)
  PROVE  /\ c.kind = "load" => IsLoad(c) /\ ~IsFlag(c) /\ ~IsDelete(c)
         /\ c.kind = "flag" => IsFlag(c) /\ ~IsLoad(c) /\ ~IsDelete(c)
         /\ c.kind = "delete" => IsDelete(c) /\ ~IsLoad(c) /\ ~IsFlag(c)
PROOF BY KindsOf DEF IsCall

LEMMA DiskBegins == ASSUME Disk!Init PROVE DiskInv
PROOF
<1> DEFINE c == [kind |-> "load", n |-> 1, disk |-> None, flags |-> None]
<1>1. calls = {c} /\ loading BY DEF Disk!Init
<1>2. IsLoad(c) /\ c.disk = None BY DEF IsLoad
<1> HIDE DEF c
<1> QED BY <1>1, <1>2 DEF DiskInv, IsCall, Disk!Listed

\* Whoever is excused stays so.
Excuses == \A f : Excused(f) => Excused(f)'

\* Every load that is under way was so before, and nothing else of the rows changes.
LEMMA DiskGoesOn ==
  ASSUME DiskInv, Excuses, \A d \in calls' : IsCall(d),
         \A d \in calls' : IsLoad(d) => d \in calls,
         \A f \in disk \ disk' : Excused(f)',
         UNCHANGED <<report, loading, error, overlapped>>
  PROVE  DiskInv'
PROOF
<1>1. \A files : AllExcused(files) => AllExcused(files)' BY Zenon DEF AllExcused, Excuses
<1>2. Disk!Listed' = Disk!Listed BY DEF Disk!Listed
<1>3. ASSUME ~overlapped, NEW c \in calls', IsLoad(c)
      PROVE  loading' /\ (c.disk = None \/ AllExcused(c.disk)')
  BY <1>1, <1>3 DEF DiskInv
<1>4. ~overlapped => \A b, c \in calls' : IsLoad(b) /\ IsLoad(c) => b = c BY DEF DiskInv
<1>5. ~overlapped => (Disk!Listed' => AllExcused(report)') BY <1>1, <1>2 DEF DiskInv, AllExcused
<1> QED BY <1>3, <1>4, <1>5 DEF DiskInv

\* Something is asked of the server that is no load.
LEMMA AsksMore ==
  ASSUME DiskInv, NEW d, calls' = calls \cup {d}, IsFlag(d) \/ IsDelete(d),
         UNCHANGED <<disk, report, loading, error, lost, overlapped>>
  PROVE  DiskInv'
PROOF
<1>1. IsCall(d) /\ ~IsLoad(d) BY KindsOf DEF IsCall
<1>2. Excuses BY DEF Excuses, Excused
<1>3. \A c \in calls' : IsCall(c) BY <1>1 DEF DiskInv
<1>4. \A c \in calls' : IsLoad(c) => c \in calls BY <1>1
<1> QED BY <1>2, <1>3, <1>4, DiskGoesOn

\* A request to the disk starts a load.
LEMMA LoadStarts ==
  ASSUME DiskInv, NEW under, under \subseteq calls, Disk!Load(under)
  PROVE  DiskInv'
PROOF
<1> DEFINE new == [kind |-> "load", n |-> v10.loads + 1, disk |-> None, flags |-> None]
<1>1. /\ calls' = under \cup {new} /\ loading'
      /\ overlapped' <=> (overlapped \/ \E c \in under : c.kind = "load")
  BY Zenon DEF Disk!Load
<1>2. IsLoad(new) /\ new.disk = None BY DEF IsLoad
<1> HIDE DEF new
<1>3. \A c \in calls' : IsCall(c) BY <1>1, <1>2 DEF DiskInv, IsCall
<1>4. ~overlapped' => \A c \in calls' : IsLoad(c) => c = new BY <1>1, KindsOf
<1>5. ~Disk!Listed' BY <1>1 DEF Disk!Listed
<1> QED BY <1>1, <1>2, <1>3, <1>4, <1>5 DEF DiskInv

LEMMA UserKeeps ==
  ASSUME DiskInv,
         \/ Disk!Refresh \/ Disk!ToggleAll \/ Disk!Arm \/ Disk!DeleteSelected
         \/ \E f \in DiskFiles : Disk!Toggle(f)
         \/ \E state \in BOOLEAN : Disk!SetFlags(state)
  PROVE  DiskInv'
PROOF
<1>1. CASE Disk!Refresh
  <2>1. Disk!Load(calls) BY <1>1 DEF Disk!Refresh
  <2> QED BY <2>1, LoadStarts
<1>2. CASE \/ Disk!ToggleAll \/ Disk!Arm \/ \E f \in DiskFiles : Disk!Toggle(f)
  <2>1. UNCHANGED <<disk, report, loading, error, calls, lost, overlapped>>
    BY <1>2 DEF Disk!ToggleAll, Disk!Arm, Disk!Toggle
  <2>2. Excuses BY <2>1 DEF Excuses, Excused
  <2>3. \A c \in calls' : IsCall(c) BY <2>1 DEF DiskInv
  <2> QED BY <2>1, <2>2, <2>3, DiskGoesOn
<1>3. CASE Disk!DeleteSelected
  <2>1. PICK n, names :
          calls' = calls \cup {[kind |-> "delete", n |-> n, names |-> names, served |-> FALSE]}
    BY <1>3 DEF Disk!DeleteSelected, Disk!Ask
  <2>2. UNCHANGED <<disk, report, loading, error, lost, overlapped>>
    BY <1>3 DEF Disk!DeleteSelected, Disk!pageVars
  <2>3. IsDelete([kind |-> "delete", n |-> n, names |-> names, served |-> FALSE]) BY DEF IsDelete
  <2> QED BY <2>1, <2>2, <2>3, AsksMore
<1>4. CASE \E state \in BOOLEAN : Disk!SetFlags(state)
  <2>0. PICK state \in BOOLEAN : Disk!SetFlags(state) BY <1>4
  <2>1. PICK n, names :
          calls' = calls \cup {[kind |-> "flag", n |-> n, names |-> names, state |-> state,
                                flags |-> None]}
    BY <2>0 DEF Disk!SetFlags, Disk!Ask
  <2>2. UNCHANGED <<disk, report, loading, error, lost, overlapped>>
    BY <2>0 DEF Disk!SetFlags, Disk!pageVars
  <2>3. IsFlag([kind |-> "flag", n |-> n, names |-> names, state |-> state, flags |-> None]) BY DEF IsFlag
  <2> QED BY <2>1, <2>2, <2>3, AsksMore
<1> QED BY <1>1, <1>2, <1>3, <1>4

\* A load ends.
LEMMA LoadGone ==
  ASSUME DiskInv, NEW c \in calls, IsLoad(c), calls' = calls \ {c},
         UNCHANGED <<disk, lost, overlapped>>,
         ~overlapped /\ Disk!Listed' => AllExcused(report')
  PROVE  DiskInv'
PROOF
<1>1. ~IsDelete(c) BY KindsOf
<1>2. \A f : Excused(f) => Excused(f)' BY <1>1 DEF Excused
<1>3. \A d \in calls' : IsCall(d) BY DEF DiskInv
<1>4. ~overlapped => \A d \in calls' : ~IsLoad(d) BY DEF DiskInv
<1>5. AllExcused(report') => AllExcused(report)' BY <1>2 DEF AllExcused
<1> QED BY <1>3, <1>4, <1>5 DEF DiskInv

LEMMA LoadKeeps ==
  ASSUME DiskInv, NEW c \in calls, IsLoad(c),
         Disk!ServeLoad(c) \/ Disk!LoadDone(c) \/ Disk!LoadFails(c)
  PROVE  DiskInv'
PROOF
<1>0. PICK n, d, f : c = [kind |-> "load", n |-> n, disk |-> d, flags |-> f] BY DEF IsLoad
<1>1. CASE Disk!ServeLoad(c)
  <2>1. UNCHANGED <<disk, report, loading, error, lost, overlapped>>
    BY <1>1 DEF Disk!ServeLoad, Disk!pageVars
  <2>2. \E new : /\ calls' = (calls \ {c}) \cup {new} /\ IsLoad(new)
                 /\ new.disk = c.disk \/ new.disk = disk
    <3>1. CASE Disk!Become(c, [c EXCEPT !.disk = disk])
      <4> DEFINE new == [kind |-> "load", n |-> n, disk |-> disk, flags |-> f]
      <4>1. [c EXCEPT !.disk = disk] = new BY <1>0
      <4>2. IsLoad(new) /\ new.disk = disk BY DEF IsLoad
      <4> HIDE DEF new
      <4> QED BY <3>1, <4>1, <4>2 DEF Disk!Become
    <3>2. CASE Disk!Become(c, [c EXCEPT !.flags = v2])
      <4> DEFINE new == [kind |-> "load", n |-> n, disk |-> d, flags |-> v2]
      <4>1. [c EXCEPT !.flags = v2] = new BY <1>0
      <4>2. IsLoad(new) /\ new.disk = c.disk BY <1>0 DEF IsLoad
      <4> HIDE DEF new
      <4> QED BY <3>2, <4>1, <4>2 DEF Disk!Become
    <3> QED BY <1>1, <3>1, <3>2 DEF Disk!ServeLoad
  <2>3. PICK new : /\ calls' = (calls \ {c}) \cup {new} /\ IsLoad(new)
                   /\ new.disk = c.disk \/ new.disk = disk
    BY <2>2
  <2>4. ~IsDelete(c) BY KindsOf
  <2>5. Excuses BY <2>1, <2>3, <2>4 DEF Excuses, Excused
  <2>6. \A files : AllExcused(files) => AllExcused(files)' BY <2>1, <2>5 DEF AllExcused, Excuses
  <2>7. Disk!Listed' = Disk!Listed BY <2>1 DEF Disk!Listed
  <2>8. ASSUME ~overlapped
        PROVE  /\ loading' /\ (new.disk = None \/ AllExcused(new.disk)')
               /\ \A b \in calls' : IsLoad(b) => b = new
               /\ Disk!Listed' => AllExcused(report)'
    <3>1. loading /\ (c.disk = None \/ AllExcused(c.disk)) BY <2>8 DEF DiskInv
    <3>2. AllExcused(disk) BY DEF AllExcused
    <3>3. \A b \in calls : IsLoad(b) => b = c BY <2>8 DEF DiskInv
    <3>4. Disk!Listed' => AllExcused(report)' BY <2>1, <2>6, <2>7, <2>8 DEF DiskInv, AllExcused
    <3> QED BY <2>1, <2>3, <2>6, <3>1, <3>2, <3>3, <3>4
  <2>9. \A b \in calls' : IsCall(b) BY <2>3 DEF DiskInv, IsCall
  <2> QED BY <2>1, <2>8, <2>9 DEF DiskInv
<1>2. CASE Disk!LoadDone(c)
  <2>1. /\ c.disk # None /\ report' = c.disk /\ calls' = calls \ {c}
        /\ UNCHANGED <<disk, lost, overlapped>>
    BY <1>2 DEF Disk!LoadDone
  <2>2. ~overlapped => AllExcused(report') BY <2>1 DEF DiskInv
  <2> QED BY <2>1, <2>2, LoadGone
<1>3. CASE Disk!LoadFails(c)
  <2>1. error' = TRUE /\ calls' = calls \ {c} /\ UNCHANGED <<disk, lost, overlapped>>
    BY <1>3 DEF Disk!LoadFails
  <2>2. ~Disk!Listed' BY <2>1 DEF Disk!Listed
  <2> QED BY <2>1, <2>2, LoadGone
<1> QED BY <1>1, <1>2, <1>3

LEMMA FlagKeeps ==
  ASSUME DiskInv, NEW c \in calls, IsFlag(c),
         Disk!ServeFlags(c) \/ Disk!FlagsAnswered(c) \/ Disk!FlagsFail(c)
  PROVE  DiskInv'
PROOF
<1>0. PICK n, names, s, f :
        c = [kind |-> "flag", n |-> n, names |-> names, state |-> s, flags |-> f]
  BY DEF IsFlag
<1>1. UNCHANGED <<disk, report, loading, error, lost, overlapped>>
  BY DEF Disk!ServeFlags, Disk!FlagsAnswered, Disk!FlagsFail, Disk!pageVars
<1>2. \A d \in calls' : d \in calls \/ IsFlag(d)
  <2>1. CASE Disk!ServeFlags(c)
    <3>1. Disk!Become(c, [c EXCEPT !.flags = v2']) BY <2>1 DEF Disk!ServeFlags
    <3>2. [c EXCEPT !.flags = v2'] = [kind |-> "flag", n |-> n, names |-> names, state |-> s, flags |-> v2']
      BY <1>0
    <3>3. IsFlag([kind |-> "flag", n |-> n, names |-> names, state |-> s, flags |-> v2'])
      BY DEF IsFlag
    <3> QED BY <3>1, <3>2, <3>3 DEF Disk!Become
  <2>2. CASE Disk!FlagsAnswered(c) \/ Disk!FlagsFail(c)
    BY <2>2 DEF Disk!FlagsAnswered, Disk!FlagsFail
  <2> QED BY <2>1, <2>2
<1>3. calls \ {c} \subseteq calls'
  BY DEF Disk!ServeFlags, Disk!FlagsAnswered, Disk!FlagsFail, Disk!Become
<1>4. ~IsDelete(c) BY KindsOf
<1>5. Excuses BY <1>1, <1>3, <1>4 DEF Excuses, Excused
<1>6. \A d \in calls' : IsCall(d) BY <1>2 DEF DiskInv, IsCall
<1>7. \A d \in calls' : IsLoad(d) => d \in calls BY <1>2, KindsOf
<1> QED BY <1>1, <1>5, <1>6, <1>7, DiskGoesOn

LEMMA DeleteKeeps ==
  ASSUME DiskInv, NEW c \in calls, IsDelete(c),
         Disk!ServeDelete(c) \/ Disk!Deleted(c) \/ Disk!DeleteFails(c)
  PROVE  DiskInv'
PROOF
<1>0. PICK n, names, s : c = [kind |-> "delete", n |-> n, names |-> names, served |-> s]
  BY DEF IsDelete
<1>1. CASE Disk!ServeDelete(c)
  <2> DEFINE new == [kind |-> "delete", n |-> n, names |-> names, served |-> TRUE]
  <2>1. UNCHANGED <<report, loading, error, lost, overlapped>>
    BY <1>1 DEF Disk!ServeDelete, Disk!pageVars
  <2>2. PICK gone \in SUBSET (c.names \cap disk) : disk' = disk \ gone BY <1>1 DEF Disk!ServeDelete
  <2>4. Disk!Become(c, [c EXCEPT !.served = TRUE]) BY <1>1 DEF Disk!ServeDelete
  <2>3. calls' = (calls \ {c}) \cup {new} BY <1>0, <2>4 DEF Disk!Become
  <2>5. IsDelete(new) /\ new.names = c.names BY <1>0 DEF IsDelete
  <2> HIDE DEF new
  <2>7. Excuses BY <2>1, <2>5, <2>3 DEF Excuses, Excused
  <2>8. \A f \in disk \ disk' : Excused(f)' BY <2>2, <2>3, <2>5 DEF Excused
  <2>9. /\ \A d \in calls' : IsCall(d)
        /\ \A d \in calls' : IsLoad(d) => d \in calls
    BY <2>3, <2>5, KindsOf DEF DiskInv, IsCall
  <2> QED BY <2>1, <2>7, <2>8, <2>9, DiskGoesOn
<1>2. CASE Disk!Deleted(c)
  <2>1. Disk!Load(calls \ {c}) BY <1>2 DEF Disk!Deleted
  <2>2. calls \ {c} \subseteq calls OBVIOUS
  <2> QED BY <2>1, <2>2, LoadStarts
<1>3. CASE Disk!DeleteFails(c)
  <2>1. /\ calls' = calls \ {c} /\ lost' = lost \cup c.names
        /\ UNCHANGED <<disk, report, loading, error, overlapped>>
    BY <1>3 DEF Disk!DeleteFails
  <2>2. Excuses BY <2>1 DEF Excuses, Excused
  <2>3. \A d \in calls' : IsCall(d) BY <2>1 DEF DiskInv
  <2> QED BY <2>1, <2>2, <2>3, DiskGoesOn
<1> QED BY <1>1, <1>2, <1>3

LEMMA DiskStays ==
  ASSUME DiskInv, Disk!Next \/ UNCHANGED Disk!vars
  PROVE  DiskInv'
PROOF
<1>1. CASE UNCHANGED Disk!vars
  <2>1. UNCHANGED <<disk, report, loading, error, calls, lost, overlapped>>
    BY <1>1 DEF Disk!vars, Disk!pageVars
  <2>2. Excuses BY <2>1 DEF Excuses, Excused
  <2>3. \A c \in calls' : IsCall(c) BY <2>1 DEF DiskInv
  <2> QED BY <2>1, <2>2, <2>3, DiskGoesOn
<1>2. CASE \/ Disk!Refresh \/ Disk!ToggleAll \/ Disk!Arm \/ Disk!DeleteSelected
           \/ \E f \in DiskFiles : Disk!Toggle(f)
           \/ \E state \in BOOLEAN : Disk!SetFlags(state)
  BY <1>2, UserKeeps
<1>3. ASSUME NEW c \in calls,
             \/ c.kind = "load" /\ (Disk!ServeLoad(c) \/ Disk!LoadDone(c) \/ Disk!LoadFails(c))
             \/ c.kind = "flag" /\ (Disk!ServeFlags(c) \/ Disk!FlagsAnswered(c) \/ Disk!FlagsFail(c))
             \/ c.kind = "delete" /\ (Disk!ServeDelete(c) \/ Disk!Deleted(c) \/ Disk!DeleteFails(c))
      PROVE  DiskInv'
  <2>1. IsCall(c) BY DEF DiskInv
  <2>2. /\ c.kind = "load" => IsLoad(c)
        /\ c.kind = "flag" => IsFlag(c)
        /\ c.kind = "delete" => IsDelete(c)
    BY <2>1, KindIs
  <2> QED BY <1>3, <2>2, LoadKeeps, FlagKeeps, DeleteKeeps
<1> QED BY <1>1, <1>2, <1>3 DEF Disk!Next

LEMMA DiskMeans == DiskInv => Disk!ListedExists
PROOF BY DEF DiskInv, Disk!ListedExists, AllExcused, Excused

HIDE DEF disk, report, loading, error, calls, lost, overlapped

-----------------------------------------------------------------------------
(* The event bus, for any number of subscribers, publishers and events and any *)
(* length of the queues.                                                   *)

queue == v1
listener == v2
stop == v3
pending == v4
handled == v5
busPublisher == v6
published == v7
span == v8
USE DEF queue, listener, stop, pending, handled, busPublisher, published, span

\* A listener has taken events only while it works on them, a consumer that has not been
\* added has none, and only that of a deleted one returns.
Taken ==
  \A c \in Consumers :
    /\ listener[c] # "work" => pending[c] = <<>>
    /\ listener[c] = "none" => handled[c] = <<>>
    /\ listener[c] = "gone" => stop[c]

\* What has been published ends a subscriber's span, and bounds that of a deleted one.
Spans ==
  \A c \in Consumers :
    /\ span[c].from <= span[c].to /\ span[c].to <= published
    /\ c \in Bus!Subs => span[c].to = published

BusInv ==
  /\ Bus!TypeOK /\ Bus!NothingSleptOn /\ Bus!PublisherHasWaker /\ Bus!Bounded
  /\ Taken /\ Spans /\ Bus!EachOnceInOrder

LEMMA WokenTypes ==
  ASSUME Bus!TypeOK
  PROVE  /\ Bus!Woken(busPublisher) \in [Publishers -> {"idle", "run"}]
         /\ Bus!Looking(listener) \in [Consumers -> {"none", "look", "work", "gone"}]
         /\ \A c \in Consumers :
              Bus!Looking(listener)[c] = IF listener[c] = "wait" THEN "look" ELSE listener[c]
PROOF BY DEF Bus!TypeOK, Bus!Woken, Bus!Looking, Bus!Places

-----------------------------------------------------------------------------
\* Sequences

LEMMA AppendAtEnd ==
  ASSUME NEW h \in Seq(Nat), NEW p \in Seq(Nat), NEW q \in Seq(Nat), NEW e \in Nat
  PROVE  h \o p \o Append(q, e) = Append(h \o p \o q, e)
PROOF
<1>1. h \o p \in Seq(Nat) BY ConcatProperties
<1>2. <<e>> \in Seq(Nat) OBVIOUS
<1>3. (h \o p) \o q \in Seq(Nat) BY <1>1, ConcatProperties
<1>4. Append(q, e) = q \o <<e>> BY AppendIsConcat
<1>5. Append((h \o p) \o q, e) = ((h \o p) \o q) \o <<e>> BY <1>3, AppendIsConcat
<1>6. ASSUME NEW a \in Seq(Nat), NEW b \in Seq(Nat), NEW c \in Seq(Nat)
      PROVE  (a \o b) \o c = a \o (b \o c)
  BY ConcatAssociative, SMTT(30)
<1>7. ((h \o p) \o q) \o <<e>> = (h \o p) \o (q \o <<e>>)
  BY <1>1, <1>2, <1>6, Zenon
<1> QED BY <1>4, <1>5, <1>7

LEMMA MoveHead ==
  ASSUME NEW h \in Seq(Nat), NEW p \in Seq(Nat), p # <<>>
  PROVE  Append(h, Head(p)) \o Tail(p) = h \o p
PROOF
<1>1. /\ Append(h, Head(p)) \in Seq(Nat) /\ Tail(p) \in Seq(Nat) /\ Head(p) \in Nat
  BY HeadTailProperties
<1>2. Append(h, Head(p)) \o Tail(p) \in Seq(Nat) /\ h \o p \in Seq(Nat)
  BY <1>1, ConcatProperties
<1>3. Len(Append(h, Head(p)) \o Tail(p)) = Len(h \o p)
  BY <1>1, ConcatProperties, HeadTailProperties
<1>4. \A i \in 1..Len(h \o p) : (Append(h, Head(p)) \o Tail(p))[i] = (h \o p)[i]
  BY <1>1, <1>3, ConcatProperties, HeadTailProperties, AppendProperties
<1> QED BY <1>2, <1>3, <1>4, SeqEqual

\* the numbers after m up to n
Numbers(m, n) == [i \in 1..(n - m) |-> m + i]

LEMMA UpTo ==
  ASSUME NEW m \in Nat, NEW n \in Nat, m <= n
  PROVE  Append(Numbers(m, n), n + 1) = Numbers(m, n + 1)
PROOF
<1>1. /\ Numbers(m, n) \in Seq(Nat) /\ Len(Numbers(m, n)) = n - m
      /\ Numbers(m, n + 1) \in Seq(Nat) /\ Len(Numbers(m, n + 1)) = n + 1 - m
  BY IsASeq DEF Numbers
<1>2. /\ Append(Numbers(m, n), n + 1) \in Seq(Nat)
      /\ Len(Append(Numbers(m, n), n + 1)) = n + 1 - m
  <2>1. n + 1 \in Nat OBVIOUS
  <2>2. /\ Append(Numbers(m, n), n + 1) \in Seq(Nat)
        /\ Len(Append(Numbers(m, n), n + 1)) = Len(Numbers(m, n)) + 1
    BY <1>1, <2>1, AppendProperties
  <2> QED BY <1>1, <2>2
<1>3. \A i \in 1..(n + 1 - m) : Append(Numbers(m, n), n + 1)[i] = Numbers(m, n + 1)[i]
  BY <1>1, AppendProperties DEF Numbers
<1> QED BY <1>1, <1>2, <1>3, SeqEqual

LEMMA NoNumbers == ASSUME NEW m \in Nat PROVE Numbers(m, m) = <<>>
PROOF
<1>1. Numbers(m, m) \in Seq(Nat) /\ Len(Numbers(m, m)) = 0 BY IsASeq DEF Numbers
<1> QED BY <1>1, EmptySeq

-----------------------------------------------------------------------------
LEMMA BusBegins == ASSUME Bus!BusAssumption, Bus!Init PROVE BusInv
PROOF
<1>1. Bus!TypeOK BY DEF Bus!Init, Bus!TypeOK, Bus!Places
<1>2. Bus!NothingSleptOn /\ Bus!PublisherHasWaker /\ Taken
  BY DEF Bus!Init, Bus!NothingSleptOn, Bus!PublisherHasWaker, Taken
<1>3. Spans
  <2> SUFFICES ASSUME NEW c \in Consumers
               PROVE  /\ span[c].from <= span[c].to /\ span[c].to <= published
                      /\ span[c].to = published
    BY DEF Spans
  <2>1. span[c] = [from |-> 0, to |-> 0] /\ published = 0 BY DEF Bus!Init
  <2> QED BY <2>1
<1>4. Bus!Bounded
  <2> SUFFICES ASSUME NEW c \in Consumers PROVE Len(queue[c]) <= MaxQueue
    BY DEF Bus!Bounded
  <2>1. queue[c] = <<>> BY DEF Bus!Init
  <2>2. Len(queue[c]) = 0 BY <2>1
  <2> QED BY <2>2 DEF Bus!BusAssumption
<1>5. Bus!EachOnceInOrder
  <2> SUFFICES ASSUME NEW c \in Consumers
               PROVE  handled[c] \o pending[c] \o queue[c] = Numbers(span[c].from, span[c].to)
    BY DEF Bus!EachOnceInOrder, Numbers
  <2>1. handled[c] = <<>> /\ pending[c] = <<>> /\ queue[c] = <<>>
    BY DEF Bus!Init
  <2>2. span[c].from = 0 /\ span[c].to = 0
    BY DEF Bus!Init
  <2>3. Numbers(span[c].from, span[c].to) = <<>>
    BY <2>2, NoNumbers
  <2>4. <<>> \in Seq(Nat) /\ (<<>> \o <<>>) \o <<>> = <<>>
    BY EmptySeq, ConcatEmptySeq
  <2> QED BY <2>1, <2>3, <2>4
<1> QED BY <1>1, <1>2, <1>3, <1>4, <1>5 DEF BusInv

\* Every step keeps the state well typed.
LEMMA TypeKept ==
  ASSUME Bus!TypeOK, [Bus!Next]_(Bus!vars)
  PROVE  Bus!TypeOK'
PROOF
<1>1. CASE UNCHANGED Bus!vars BY <1>1 DEF Bus!TypeOK, Bus!vars
<1>2. ASSUME NEW c \in Consumers, Bus!Add(c)
      PROVE  Bus!TypeOK'
  BY <1>2 DEF Bus!TypeOK, Bus!Add, Bus!Places
<1>3. ASSUME NEW c \in Consumers, Bus!Del(c)
      PROVE  Bus!TypeOK'
  BY <1>3 DEF Bus!TypeOK, Bus!Del
<1>4. ASSUME NEW c \in Consumers, Bus!Take(c)
      PROVE  Bus!TypeOK'
  <2>1. <<>> \in Seq(Nat) BY EmptySeq
  <2> QED BY <1>4, <2>1 DEF Bus!TypeOK, Bus!Take, Bus!Places
<1>5. ASSUME NEW c \in Consumers, Bus!Sleep(c)
      PROVE  Bus!TypeOK'
  BY <1>5 DEF Bus!TypeOK, Bus!Sleep, Bus!Places
<1>6. ASSUME NEW c \in Consumers, Bus!Handle(c)
      PROVE  Bus!TypeOK'
  <2>1. pending[c] \in Seq(Nat) /\ pending[c] # <<>> /\ handled[c] \in Seq(Nat)
    BY <1>6 DEF Bus!TypeOK, Bus!Handle
  <2>2. Tail(pending[c]) \in Seq(Nat) /\ Append(handled[c], Head(pending[c])) \in Seq(Nat)
    BY <2>1, HeadTailProperties, AppendProperties
  <2> QED BY <1>6, <2>2 DEF Bus!TypeOK, Bus!Handle
<1>7. ASSUME NEW c \in Consumers, Bus!Notify(c)
      PROVE  Bus!TypeOK'
  BY <1>7, WokenTypes DEF Bus!TypeOK, Bus!Notify, Bus!Places
<1>8. ASSUME NEW p \in Publishers, Bus!Publish(p) \/ Bus!Wait(p)
      PROVE  Bus!TypeOK'
  BY <1>8 DEF Bus!TypeOK, Bus!Publish, Bus!Wait
<1>9. ASSUME NEW p \in Publishers, Bus!Broadcast(p)
      PROVE  Bus!TypeOK'
  <2>1. \A c \in Consumers : Append(queue[c], published + 1) \in Seq(Nat)
    BY AppendProperties DEF Bus!TypeOK
  <2>2. queue' \in [Consumers -> Seq(Nat)]
    BY <1>9, <2>1 DEF Bus!TypeOK, Bus!Broadcast
  <2>3. span' \in [Consumers -> [from : Nat, to : Nat]] /\ published' \in Nat
    BY <1>9 DEF Bus!TypeOK, Bus!Broadcast
  <2>4. /\ listener' \in [Consumers -> Bus!Places]
        /\ busPublisher' \in [Publishers -> {"idle", "run", "wait"}]
    BY <1>9, WokenTypes DEF Bus!Broadcast, Bus!Places
  <2>5. stop' \in [Consumers -> BOOLEAN] /\ pending' \in [Consumers -> Seq(Nat)]
        /\ handled' \in [Consumers -> Seq(Nat)]
    BY <1>9 DEF Bus!TypeOK, Bus!Broadcast
  <2> QED BY <2>2, <2>3, <2>4, <2>5 DEF Bus!TypeOK
<1> QED BY <1>1, <1>2, <1>3, <1>4, <1>5, <1>6, <1>7, <1>8, <1>9 DEF Bus!Next

-----------------------------------------------------------------------------
\* Nothing is slept on: who appends to a queue wakes the listener, and one goes to sleep
\* only beside an empty queue.
LEMMA AwakeKept ==
  ASSUME Bus!TypeOK, Bus!NothingSleptOn, Taken, [Bus!Next]_(Bus!vars)
  PROVE  Bus!NothingSleptOn'
PROOF
<1> USE DEF Bus!NothingSleptOn
<1>1. CASE UNCHANGED Bus!vars BY <1>1 DEF Bus!vars
<1>2. ASSUME NEW c \in Consumers, Bus!Add(c) \/ Bus!Del(c) \/ Bus!Sleep(c)
      PROVE  Bus!NothingSleptOn'
  BY <1>2 DEF Bus!TypeOK, Bus!Add, Bus!Del, Bus!Sleep
<1>3. ASSUME NEW c \in Consumers, Bus!Take(c) \/ Bus!Handle(c)
      PROVE  Bus!NothingSleptOn'
  BY <1>3 DEF Bus!TypeOK, Bus!Take, Bus!Handle
<1>4. ASSUME NEW c \in Consumers, Bus!Notify(c)
      PROVE  Bus!NothingSleptOn'
  BY <1>4, WokenTypes DEF Bus!TypeOK, Bus!Notify
<1>5. ASSUME NEW p \in Publishers, Bus!Publish(p) \/ Bus!Wait(p)
      PROVE  Bus!NothingSleptOn'
  BY <1>5 DEF Bus!Publish, Bus!Wait
<1>6. ASSUME NEW p \in Publishers, Bus!Broadcast(p)
      PROVE  Bus!NothingSleptOn'
  <2> SUFFICES ASSUME NEW c \in Consumers, listener'[c] \in {"none", "wait", "gone"}
               PROVE  queue'[c] = <<>>
    OBVIOUS
  <2>1. listener[c] \in {"none", "gone"} /\ listener'[c] = listener[c]
    BY <1>6, WokenTypes DEF Bus!Broadcast
  <2>2. c \notin Bus!Subs => queue'[c] = queue[c]
    BY <1>6 DEF Bus!Broadcast
  <2>3. CASE listener[c] = "none"
    BY <2>2, <2>3 DEF Bus!Subs
  <2>4. CASE listener[c] = "gone"
    BY <2>2, <2>4 DEF Bus!Subs, Taken
  <2> QED BY <2>1, <2>3, <2>4
<1> QED BY <1>1, <1>2, <1>3, <1>4, <1>5, <1>6 DEF Bus!Next

\* Whoever waits for room has a consumer that will make some: a queue that is full is not
\* slept on, what wakes a publisher wakes them all, and Del takes away no waker.
LEMMA WakerKept ==
  ASSUME Bus!BusAssumption, Bus!TypeOK, Bus!NothingSleptOn, Bus!PublisherHasWaker, Taken,
         [Bus!Next]_(Bus!vars)
  PROVE  Bus!PublisherHasWaker'
PROOF
<1> USE DEF Bus!PublisherHasWaker
<1>1. CASE UNCHANGED Bus!vars BY <1>1 DEF Bus!vars
<1>2. ASSUME NEW c \in Consumers, Bus!Add(c) \/ Bus!Del(c)
      PROVE  Bus!PublisherHasWaker'
  BY <1>2 DEF Bus!TypeOK, Bus!Add, Bus!Del
<1>3. ASSUME NEW c \in Consumers, Bus!Take(c)
      PROVE  Bus!PublisherHasWaker'
  BY <1>3 DEF Bus!TypeOK, Bus!Take
<1>4. ASSUME NEW c \in Consumers, Bus!Sleep(c)
      PROVE  Bus!PublisherHasWaker'
  BY <1>4 DEF Bus!TypeOK, Bus!Sleep
<1>5. ASSUME NEW c \in Consumers, Bus!Handle(c)
      PROVE  Bus!PublisherHasWaker'
  BY <1>5 DEF Bus!Handle
<1>6. ASSUME NEW c \in Consumers, Bus!Notify(c)
      PROVE  Bus!PublisherHasWaker'
  BY <1>6, WokenTypes DEF Bus!Notify
<1>7. ASSUME NEW p \in Publishers, Bus!Publish(p)
      PROVE  Bus!PublisherHasWaker'
  BY <1>7 DEF Bus!TypeOK, Bus!Publish
<1>8. ASSUME NEW p \in Publishers, Bus!Wait(p)
      PROVE  Bus!PublisherHasWaker'
  <2>1. PICK c \in Bus!Subs : Len(queue[c]) >= MaxQueue
    BY <1>8 DEF Bus!Wait, Bus!Full
  <2>2. c \in Consumers /\ listener[c] # "none" /\ ~stop[c] /\ queue[c] \in Seq(Nat)
    BY <2>1 DEF Bus!Subs, Bus!TypeOK
  <2>3. queue[c] # <<>>
    <3>1. Len(queue[c]) # 0 BY <2>1, <2>2 DEF Bus!BusAssumption
    <3> QED BY <3>1
  <2>4. listener[c] \in {"look", "work"}
    BY <2>2, <2>3 DEF Bus!NothingSleptOn, Bus!TypeOK, Bus!Places
  <2>5. listener' = listener /\ queue' = queue
    BY <1>8 DEF Bus!Wait
  <2> QED BY <2>2, <2>3, <2>4, <2>5
<1>9. ASSUME NEW p \in Publishers, Bus!Broadcast(p)
      PROVE  Bus!PublisherHasWaker'
  <2>1. \A q \in Publishers : busPublisher'[q] # "wait"
    BY <1>9, WokenTypes DEF Bus!Broadcast
  <2> QED BY <2>1
<1> QED BY <1>1, <1>2, <1>3, <1>4, <1>5, <1>6, <1>7, <1>8, <1>9 DEF Bus!Next

-----------------------------------------------------------------------------
\* No queue grows beyond its limit: only Broadcast appends, and only when none is full.
LEMMA BoundKept ==
  ASSUME Bus!BusAssumption, Bus!TypeOK, Bus!Bounded, [Bus!Next]_(Bus!vars)
  PROVE  Bus!Bounded'
PROOF
<1> SUFFICES ASSUME NEW c \in Consumers PROVE Len(queue'[c]) <= MaxQueue
  BY DEF Bus!Bounded
<1> USE DEF Bus!Bounded
<1>1. CASE queue' = queue BY <1>1
<1>2. ASSUME NEW d \in Consumers, Bus!Take(d)
      PROVE  Len(queue'[c]) <= MaxQueue
  <2>1. queue'[c] = IF c = d THEN <<>> ELSE queue[c] BY <1>2 DEF Bus!Take, Bus!TypeOK
  <2>2. Len(<<>>) = 0 OBVIOUS
  <2> QED BY <2>1, <2>2 DEF Bus!BusAssumption
<1>3. ASSUME NEW p \in Publishers, Bus!Broadcast(p)
      PROVE  Len(queue'[c]) <= MaxQueue
  <2>1. CASE c \in Bus!Subs
    <3>1. queue[c] \in Seq(Nat) /\ published + 1 \in Nat /\ Len(queue[c]) \in Nat
      BY DEF Bus!TypeOK
    <3>2. queue'[c] = Append(queue[c], published + 1) BY <1>3, <2>1 DEF Bus!Broadcast
    <3>3. Len(queue'[c]) = Len(queue[c]) + 1 BY <3>1, <3>2, AppendProperties
    <3>4. ~(Len(queue[c]) >= MaxQueue) BY <1>3, <2>1 DEF Bus!Broadcast, Bus!Full
    <3> QED BY <3>1, <3>3, <3>4 DEF Bus!BusAssumption
  <2>2. CASE c \notin Bus!Subs
    BY <1>3, <2>2 DEF Bus!Broadcast
  <2> QED BY <2>1, <2>2
<1>4. ASSUME [Bus!Next]_(Bus!vars), queue' # queue
      PROVE  (\E d \in Consumers : Bus!Take(d)) \/ (\E p \in Publishers : Bus!Broadcast(p))
  BY <1>4 DEF Bus!Next, Bus!vars, Bus!Add, Bus!Del, Bus!Sleep, Bus!Handle, Bus!Notify,
              Bus!Publish, Bus!Wait
<1> QED BY <1>1, <1>2, <1>3, <1>4

-----------------------------------------------------------------------------
LEMMA TakenKept ==
  ASSUME Bus!TypeOK, Taken, [Bus!Next]_(Bus!vars)
  PROVE  Taken'
PROOF
<1> USE DEF Taken
<1>1. CASE UNCHANGED Bus!vars BY <1>1 DEF Bus!vars
<1>2. ASSUME NEW c \in Consumers, Bus!Add(c) \/ Bus!Del(c) \/ Bus!Sleep(c)
      PROVE  Taken'
  BY <1>2 DEF Bus!TypeOK, Bus!Add, Bus!Del, Bus!Sleep
<1>3. ASSUME NEW c \in Consumers, Bus!Take(c)
      PROVE  Taken'
  BY <1>3 DEF Bus!TypeOK, Bus!Take
<1>4. ASSUME NEW c \in Consumers, Bus!Handle(c)
      PROVE  Taken'
  BY <1>4 DEF Bus!TypeOK, Bus!Handle
<1>5. ASSUME NEW c \in Consumers, Bus!Notify(c)
      PROVE  Taken'
  BY <1>5, WokenTypes DEF Bus!TypeOK, Bus!Notify
<1>6. ASSUME NEW p \in Publishers, Bus!Publish(p) \/ Bus!Wait(p)
      PROVE  Taken'
  BY <1>6 DEF Bus!Publish, Bus!Wait
<1>7. ASSUME NEW p \in Publishers, Bus!Broadcast(p)
      PROVE  Taken'
  BY <1>7, WokenTypes DEF Bus!Broadcast
<1> QED BY <1>1, <1>2, <1>3, <1>4, <1>5, <1>6, <1>7 DEF Bus!Next

LEMMA SpansKept ==
  ASSUME Bus!TypeOK, Spans, [Bus!Next]_(Bus!vars)
  PROVE  Spans'
PROOF
<1> SUFFICES ASSUME NEW c \in Consumers
             PROVE  /\ span'[c].from <= span'[c].to /\ span'[c].to <= published'
                    /\ c \in Bus!Subs' => span'[c].to = published'
  BY DEF Spans
<1>0. /\ span[c].from \in Nat /\ span[c].to \in Nat /\ published \in Nat
      /\ span[c].from <= span[c].to /\ span[c].to <= published
      /\ c \in Bus!Subs => span[c].to = published
  BY DEF Bus!TypeOK, Spans
<1>1. CASE span' = span /\ published' = published /\ (c \in Bus!Subs' => c \in Bus!Subs)
  BY <1>0, <1>1
<1>2. ASSUME NEW d \in Consumers, Bus!Add(d)
      PROVE  /\ span'[c].from <= span'[c].to /\ span'[c].to <= published'
             /\ c \in Bus!Subs' => span'[c].to = published'
  <2>1. CASE c = d
    <3>1. span'[c] = [from |-> published, to |-> published] /\ published' = published
      BY <1>2, <2>1 DEF Bus!Add, Bus!TypeOK
    <3> QED BY <1>0, <3>1
  <2>2. CASE c # d
    <3>1. span'[c] = span[c] /\ published' = published /\ (c \in Bus!Subs' => c \in Bus!Subs)
      BY <1>2, <2>2 DEF Bus!Add, Bus!TypeOK, Bus!Subs
    <3> QED BY <1>0, <3>1
  <2> QED BY <2>1, <2>2
<1>3. ASSUME NEW p \in Publishers, Bus!Broadcast(p)
      PROVE  /\ span'[c].from <= span'[c].to /\ span'[c].to <= published'
             /\ c \in Bus!Subs' => span'[c].to = published'
  <2>1. published' = published + 1 BY <1>3 DEF Bus!Broadcast
  <2>2. CASE c \in Bus!Subs
    <3>1. span'[c] = [from |-> span[c].from, to |-> published + 1]
      BY <1>3, <2>2 DEF Bus!Broadcast
    <3> QED BY <1>0, <2>1, <3>1
  <2>3. CASE c \notin Bus!Subs
    <3>1. span'[c] = span[c] BY <1>3, <2>3 DEF Bus!Broadcast
    <3>2. listener'[c] # "none" => listener[c] # "none"
      BY <1>3, WokenTypes DEF Bus!Broadcast
    <3>3. c \notin Bus!Subs' BY <1>3, <2>3, <3>2 DEF Bus!Broadcast, Bus!Subs
    <3> QED BY <1>0, <2>1, <3>1, <3>3
  <2> QED BY <2>2, <2>3
<1>4. CASE UNCHANGED Bus!vars
  BY <1>1, <1>4 DEF Bus!vars, Bus!Subs
<1>5. ASSUME NEW d \in Consumers, Bus!Del(d) \/ Bus!Take(d) \/ Bus!Sleep(d) \/ Bus!Handle(d)
      PROVE  span' = span /\ published' = published /\ (c \in Bus!Subs' => c \in Bus!Subs)
  BY <1>5 DEF Bus!Del, Bus!Take, Bus!Sleep, Bus!Handle, Bus!TypeOK, Bus!Subs
<1>6. ASSUME NEW d \in Consumers, Bus!Notify(d)
      PROVE  span' = span /\ published' = published /\ (c \in Bus!Subs' => c \in Bus!Subs)
  BY <1>6, WokenTypes DEF Bus!Notify, Bus!TypeOK, Bus!Subs
<1>7. ASSUME NEW p \in Publishers, Bus!Publish(p) \/ Bus!Wait(p)
      PROVE  span' = span /\ published' = published /\ (c \in Bus!Subs' => c \in Bus!Subs)
  BY <1>7 DEF Bus!Publish, Bus!Wait, Bus!Subs
<1> QED BY <1>1, <1>2, <1>3, <1>4, <1>5, <1>6, <1>7 DEF Bus!Next

-----------------------------------------------------------------------------
\* What a consumer was and will be called with grows at its end only, by the event that
\* is published; taking and handling move events along.
LEMMA OrderKept ==
  ASSUME Bus!TypeOK, Bus!NothingSleptOn, Taken, Spans, Bus!EachOnceInOrder, [Bus!Next]_(Bus!vars)
  PROVE  Bus!EachOnceInOrder'
PROOF
<1> DEFINE All(c) == handled[c] \o pending[c] \o queue[c]
           Ends(c) == Numbers(span[c].from, span[c].to)
<1> SUFFICES ASSUME NEW c \in Consumers PROVE All(c)' = Ends(c)'
  BY DEF Bus!EachOnceInOrder, Numbers
<1>0. /\ handled[c] \in Seq(Nat) /\ pending[c] \in Seq(Nat) /\ queue[c] \in Seq(Nat)
      /\ span[c].from \in Nat /\ span[c].to \in Nat /\ published \in Nat
      /\ span[c].from <= span[c].to
      /\ All(c) = Ends(c)
  BY DEF Bus!TypeOK, Spans, Bus!EachOnceInOrder, Numbers
<1>1. CASE /\ handled'[c] = handled[c] /\ pending'[c] = pending[c]
           /\ queue'[c] = queue[c] /\ span'[c] = span[c]
  BY <1>0, <1>1
<1>2. ASSUME Bus!Add(c)
      PROVE  All(c)' = Ends(c)'
  <2>1. handled'[c] = <<>> /\ pending'[c] = <<>> /\ queue'[c] = <<>>
    BY <1>2 DEF Bus!Add, Taken, Bus!NothingSleptOn
  <2>2. span'[c].from = published /\ span'[c].to = published
    BY <1>2 DEF Bus!Add, Bus!TypeOK
  <2>3. Numbers(published, published) = <<>> BY <1>0, NoNumbers
  <2>4. (<<>> \o <<>>) \o <<>> = <<>> BY EmptySeq, ConcatEmptySeq
  <2> QED BY <2>1, <2>2, <2>3, <2>4
<1>3. ASSUME Bus!Take(c)
      PROVE  All(c)' = Ends(c)'
  <2>1. /\ handled'[c] = handled[c] /\ pending[c] = <<>> /\ pending'[c] = queue[c]
        /\ queue'[c] = <<>> /\ span'[c] = span[c]
    BY <1>3 DEF Bus!Take, Taken, Bus!TypeOK
  <2>2. handled[c] \o <<>> = handled[c] BY <1>0, ConcatEmptySeq
  <2>3. (handled[c] \o queue[c]) \o <<>> = handled[c] \o queue[c]
    BY <1>0, ConcatProperties, ConcatEmptySeq
  <2> QED BY <1>0, <2>1, <2>2, <2>3
<1>4. ASSUME Bus!Handle(c)
      PROVE  All(c)' = Ends(c)'
  <2>1. /\ pending[c] # <<>> /\ handled'[c] = Append(handled[c], Head(pending[c]))
        /\ pending'[c] = Tail(pending[c]) /\ queue'[c] = queue[c] /\ span'[c] = span[c]
    BY <1>4 DEF Bus!Handle, Bus!TypeOK
  <2>2. Append(handled[c], Head(pending[c])) \o Tail(pending[c]) = handled[c] \o pending[c]
    BY <1>0, <2>1, MoveHead
  <2> QED BY <1>0, <2>1, <2>2
<1>5. ASSUME NEW p \in Publishers, Bus!Broadcast(p)
      PROVE  All(c)' = Ends(c)'
  <2>1. CASE c \in Bus!Subs
    <3>1. /\ handled'[c] = handled[c] /\ pending'[c] = pending[c]
          /\ queue'[c] = Append(queue[c], published + 1)
          /\ span'[c] = [from |-> span[c].from, to |-> published + 1]
      BY <1>5, <2>1 DEF Bus!Broadcast
    <3>2. span[c].to = published BY <2>1 DEF Spans
    <3>3. All(c)' = Append(All(c), published + 1)
      <4>1. published + 1 \in Nat BY <1>0
      <4>2. handled[c] \o pending[c] \o Append(queue[c], published + 1)
              = Append(All(c), published + 1)
        <5>1. handled[c] \in Seq(Nat) /\ pending[c] \in Seq(Nat) /\ queue[c] \in Seq(Nat) BY <1>0
        <5> QED BY <4>1, <5>1, AppendAtEnd
      <4> QED BY <3>1, <4>2
    <3>4. Ends(c)' = Append(Ends(c), published + 1)
      <4>1. Append(Numbers(span[c].from, published), published + 1)
              = Numbers(span[c].from, published + 1)
        BY <1>0, <3>2, UpTo
      <4>2. span'[c].from = span[c].from /\ span'[c].to = published + 1
        BY <3>1
      <4> QED BY <3>2, <4>1, <4>2
    <3> QED BY <1>0, <3>3, <3>4
  <2>2. CASE c \notin Bus!Subs
    BY <1>1, <1>5, <2>2 DEF Bus!Broadcast
  <2> QED BY <2>1, <2>2
<1>6. ASSUME NEW d \in Consumers, d # c, Bus!Add(d) \/ Bus!Take(d) \/ Bus!Handle(d)
      PROVE  All(c)' = Ends(c)'
  BY <1>1, <1>6 DEF Bus!Add, Bus!Take, Bus!Handle, Bus!TypeOK
<1>7. ASSUME NEW d \in Consumers, Bus!Del(d) \/ Bus!Sleep(d) \/ Bus!Notify(d)
      PROVE  All(c)' = Ends(c)'
  BY <1>1, <1>7 DEF Bus!Del, Bus!Sleep, Bus!Notify
<1>8. ASSUME NEW p \in Publishers, Bus!Publish(p) \/ Bus!Wait(p)
      PROVE  All(c)' = Ends(c)'
  BY <1>1, <1>8 DEF Bus!Publish, Bus!Wait
<1>9. CASE UNCHANGED Bus!vars BY <1>1, <1>9 DEF Bus!vars
<1> QED BY <1>2, <1>3, <1>4, <1>5, <1>6, <1>7, <1>8, <1>9 DEF Bus!Next

LEMMA BusStays == ASSUME Bus!BusAssumption, BusInv, [Bus!Next]_(Bus!vars) PROVE BusInv'
PROOF BY TypeKept, AwakeKept, WakerKept, BoundKept, TakenKept, SpansKept, OrderKept DEF BusInv

\* EventBus.Spec: no event is lost, repeated or overtaken between Publish and the handlers
\* (event.go:206-300), no queue exceeds maxQueue, and neither a listener nor a publisher
\* waits on the condition variable with nobody to wake it.
THEOREM BusDelivers ==
  ASSUME Bus!BusAssumption
  PROVE  Bus!Spec => [](/\ Bus!TypeOK /\ Bus!EachOnceInOrder /\ Bus!Bounded
                        /\ Bus!NothingSleptOn /\ Bus!PublisherHasWaker)
PROOF
<1>1. Bus!Init => BusInv BY BusBegins
<1>2. BusInv /\ [Bus!Next]_(Bus!vars) => BusInv' BY BusStays
<1>3. BusInv => /\ Bus!TypeOK /\ Bus!EachOnceInOrder /\ Bus!Bounded
                /\ Bus!NothingSleptOn /\ Bus!PublisherHasWaker
  BY DEF BusInv
<1> QED BY <1>1, <1>2, <1>3, PTL DEF Bus!Spec

HIDE DEF queue, listener, stop, pending, handled, busPublisher, published, span

-----------------------------------------------------------------------------
(* The columns of the two tables of activity.                              *)

\* Induction over the numbers up to n.
LEMMA Induct ==
  ASSUME NEW n \in Nat, NEW T, 0 \in T, \A i \in 0..(n - 1) : i \in T => i + 1 \in T
  PROVE  0..n \subseteq T
PROOF
<1> DEFINE Less == {p \in Nat \X Nat : p[1] < p[2]}
           U == {i \in 0..n : i \notin T}
<1> SUFFICES ASSUME U # {} PROVE FALSE OBVIOUS
<1>1. IsWellFoundedOn(Less, Nat) BY NatLessThanWellFounded, Zenon DEF OpToRel
<1>2. U \subseteq Nat OBVIOUS
<1> HIDE DEF Less
<1>3. PICK x \in U : \A y \in U : ~(<<y, x>> \in Less) BY <1>1, <1>2, WFMin
<1>4. x # 0 /\ x - 1 \in 0..(n - 1) /\ (x - 1) + 1 = x OBVIOUS
<1>5. <<x - 1, x>> \in Less BY <1>4 DEF Less
<1>6. x - 1 \in T BY <1>3, <1>4, <1>5
<1> QED BY <1>4, <1>6

ColumnIds == UNION {Table!Range(r) : r \in Releases \cup InflightReleases}
Orders == Seq(ColumnIds)

\* One step of the filter.
FilterStep(k, order, S, n) ==
  k[n] = IF n = 0 THEN <<>>
         ELSE IF order[n] \in S THEN Append(k[n - 1], order[n]) ELSE k[n - 1]

\* The filter is what its steps say.
LEMMA KeptSteps ==
  ASSUME NEW order \in Orders, NEW S
  PROVE  \E k \in [0..Len(order) -> Orders] :
           /\ Table!Kept(order, S) = k[Len(order)]
           /\ \A n \in 0..Len(order) : FilterStep(k, order, S, n)
PROOF
<1> DEFINE c == Len(order)
           body(k) == [n \in 0..c |->
                         IF n = 0 THEN <<>>
                         ELSE IF order[n] \in S THEN Append(k[n - 1], order[n]) ELSE k[n - 1]]
           Upto(k, m) == \A n \in 0..m : FilterStep(k, order, S, n)
           T == {m \in 0..c : \E k \in [0..c -> Orders] : Upto(k, m)}
           kept == CHOOSE k : k = body(k)
<1>1. c \in Nat /\ <<>> \in Orders /\ \A i \in 1..c : order[i] \in ColumnIds BY DEF Orders
<1>2. 0 \in T
  <2>1. [n \in 0..c |-> <<>>] \in [0..c -> Orders] BY <1>1
  <2>2. Upto([n \in 0..c |-> <<>>], 0) BY <1>1 DEF FilterStep
  <2> QED BY <1>1, <2>1, <2>2
<1>3. ASSUME NEW m \in 0..(c - 1), m \in T PROVE m + 1 \in T
  <2>1. PICK k \in [0..c -> Orders] : Upto(k, m) BY <1>3
  <2> DEFINE next == IF order[m + 1] \in S THEN Append(k[m], order[m + 1]) ELSE k[m]
             l == [k EXCEPT ![m + 1] = next]
  <2>2. next \in Orders
    <3>1. k[m] \in Orders /\ order[m + 1] \in ColumnIds BY <1>1, <2>1
    <3> QED BY <3>1 DEF Orders
  <2> HIDE DEF next
  <2>3. l \in [0..c -> Orders] BY <2>1, <2>2
  <2>4. l[m + 1] = next /\ \A n \in 0..m : l[n] = k[n] BY <1>1, <2>1
  <2> HIDE DEF l
  <2>5. ASSUME NEW n \in 0..(m + 1) PROVE FilterStep(l, order, S, n)
    <3>1. CASE n = m + 1 BY <2>4, <3>1 DEF FilterStep, next
    <3>2. CASE n # m + 1
      <4>1. n \in 0..m /\ (n # 0 => n - 1 \in 0..m) BY <3>2
      <4>2. FilterStep(k, order, S, n) BY <2>1, <4>1
      <4> QED BY <2>4, <4>1, <4>2 DEF FilterStep
    <3> QED BY <3>1, <3>2
  <2>6. m + 1 \in 0..c BY <1>1
  <2> QED BY <2>3, <2>5, <2>6
<1>4. PICK k \in [0..c -> Orders] : Upto(k, c)
  <2> HIDE DEF T
  <2>1. 0..c \subseteq T BY <1>1, <1>2, <1>3, Induct
  <2>2. c \in T BY <1>1, <2>1
  <2> QED BY <2>2 DEF T
<1>5. k = body(k)
  <2>1. \A n \in 0..c : k[n] = body(k)[n] BY <1>4 DEF FilterStep
  <2> QED BY <1>4, <2>1
<1>6. kept = body(kept)
  <2> HIDE DEF body
  <2> QED BY <1>5
<1>7. \A n \in 0..c : FilterStep(kept, order, S, n) BY <1>6 DEF FilterStep
<1> HIDE DEF kept
<1>8. DOMAIN kept = 0..c BY <1>6
<1> DEFINE E == {n \in 0..c : kept[n] = k[n]}
<1>9. 0..c \subseteq E
  <2>1. 0 \in E BY <1>1, <1>4, <1>7 DEF FilterStep
  <2>2. ASSUME NEW n \in 0..(c - 1), n \in E PROVE n + 1 \in E
    <3>1. n + 1 \in 0..c /\ n + 1 # 0 /\ (n + 1) - 1 = n BY <1>1
    <3>2. FilterStep(kept, order, S, n + 1) /\ FilterStep(k, order, S, n + 1) BY <1>4, <1>7, <3>1
    <3> QED BY <2>2, <3>1, <3>2 DEF FilterStep
  <2> HIDE DEF E
  <2> QED BY <1>1, <2>1, <2>2, Induct
<1>10. Table!Kept(order, S) = kept[c] BY Zenon DEF Table!Kept, kept
<1> QED BY <1>1, <1>4, <1>9, <1>10

\* What it keeps is each column once, and all of them when all are in S.
LEMMA KeptIs ==
  ASSUME NEW order \in Orders, Table!IsInjective(order), NEW S
  PROVE  LET w == Table!Kept(order, S) IN
         /\ w \in Orders /\ Table!IsInjective(w) /\ Table!Range(w) = Table!Range(order) \cap S
         /\ Table!Range(order) \subseteq S => w = order
PROOF
<1> USE DEF Table!Range, Table!IsInjective, Orders
<1> DEFINE c == Len(order)
           Fine(w, n) ==
             /\ \A i, j \in 1..Len(w) : w[i] = w[j] => i = j
             /\ \A i \in 1..Len(w) : w[i] \in S /\ \E j \in 1..n : w[i] = order[j]
             /\ \A j \in 1..n : order[j] \in S => \E i \in 1..Len(w) : w[i] = order[j]
             /\ (\A j \in 1..n : order[j] \in S) =>
                  Len(w) = n /\ \A j \in 1..n : w[j] = order[j]
<1>0. c \in Nat /\ DOMAIN order = 1..c /\ \A i, j \in 1..c : order[i] = order[j] => i = j
  OBVIOUS
<1>1. PICK k \in [0..c -> Orders] :
        /\ Table!Kept(order, S) = k[c]
        /\ \A n \in 0..c : FilterStep(k, order, S, n)
  BY KeptSteps
<1> DEFINE T == {n \in 0..c : Fine(k[n], n)}
<1>2. 0 \in T
  <2>1. k[0] = <<>> BY <1>1 DEF FilterStep
  <2> QED BY <2>1
<1>3. ASSUME NEW n \in 0..(c - 1), n \in T PROVE n + 1 \in T
  <2>1. n + 1 \in 1..c /\ (n + 1) - 1 = n /\ n + 1 # 0 BY <1>0
  <2>2. k[n + 1] = IF order[n + 1] \in S THEN Append(k[n], order[n + 1]) ELSE k[n]
    <3>1. FilterStep(k, order, S, n + 1) BY <1>1, <2>1
    <3> QED BY <2>1, <3>1 DEF FilterStep
  <2> DEFINE u == k[n]
             w == k[n + 1]
             e == order[n + 1]
  <2>3. u \in Seq(ColumnIds) /\ Len(u) \in Nat /\ e \in ColumnIds BY <1>1, <2>1
  <2>4. Fine(u, n) BY <1>3
  <2>5. \A i \in 1..Len(u) : u[i] # e
    <3>1. \A j \in 1..n : order[j] # order[n + 1] BY <1>0, <2>1
    <3> QED BY <2>4, <3>1
  <2> HIDE DEF u, w, e
  <2>6. CASE e \notin S
    <3>1. w = u BY <2>2, <2>6 DEF u, w, e
    <3>2. 1..(n + 1) = 1..n \cup {n + 1} BY <2>1
    <3>3. \A j \in 1..(n + 1) : order[j] \in S => j \in 1..n BY <2>6, <3>2 DEF e
    <3>4. ~(\A j \in 1..(n + 1) : order[j] \in S) BY <2>6, <3>2 DEF e
    <3>5. Fine(w, n + 1) BY <2>4, <3>1, <3>2, <3>3, <3>4
    <3> QED BY <2>1, <3>5 DEF w
  <2>7. CASE e \in S
    <3>1. w = Append(u, e) BY <2>2, <2>7 DEF u, w, e
    <3>2. /\ Len(w) = Len(u) + 1 /\ w[Len(u) + 1] = e /\ \A i \in 1..Len(u) : w[i] = u[i]
      BY <2>3, <3>1
    <3>3. 1..(n + 1) = 1..n \cup {n + 1} /\ 1..Len(w) = 1..Len(u) \cup {Len(u) + 1}
      BY <2>1, <2>3, <3>2
    <3> HIDE DEF Table!Range, Table!IsInjective, Orders
    <3>4. \A i, j \in 1..Len(w) : w[i] = w[j] => i = j
      <4>1. ASSUME NEW i \in 1..Len(w), NEW j \in 1..Len(w), w[i] = w[j] PROVE i = j
        <5>1. CASE i \in 1..Len(u) /\ j \in 1..Len(u) BY <2>4, <3>2, <4>1, <5>1
        <5>2. CASE i = Len(u) + 1 \/ j = Len(u) + 1 BY <2>5, <3>2, <3>3, <4>1, <5>2
        <5> QED BY <3>3, <5>1, <5>2
      <4> QED BY <4>1
    <3>5. \A i \in 1..Len(w) : w[i] \in S /\ \E j \in 1..(n + 1) : w[i] = order[j]
      <4>1. n + 1 \in 1..(n + 1) BY <2>1
      <4>2. ASSUME NEW i \in 1..Len(u) PROVE w[i] \in S /\ \E j \in 1..(n + 1) : w[i] = order[j]
        <5>1. w[i] = u[i] BY <3>2
        <5>2. u[i] \in S /\ \E j \in 1..n : u[i] = order[j] BY <2>4
        <5>3. PICK j \in 1..n : u[i] = order[j] BY <5>2
        <5>4. j \in 1..(n + 1) BY <3>3
        <5> QED BY <5>1, <5>2, <5>3, <5>4
      <4> QED BY <2>7, <3>2, <3>3, <4>1, <4>2 DEF e
    <3>6. \A j \in 1..(n + 1) : order[j] \in S => \E i \in 1..Len(w) : w[i] = order[j]
      <4>1. \A j \in 1..n : order[j] \in S => \E i \in 1..Len(u) : w[i] = order[j]
        BY <2>4, <3>2
      <4>2. w[Len(u) + 1] = order[n + 1] BY <3>2 DEF e
      <4> QED BY <3>3, <4>1, <4>2
    <3>7. ASSUME \A j \in 1..(n + 1) : order[j] \in S
          PROVE  Len(w) = n + 1 /\ \A j \in 1..(n + 1) : w[j] = order[j]
      <4>1. Len(u) = n /\ \A j \in 1..n : u[j] = order[j] BY <2>4, <3>3, <3>7
      <4> QED BY <3>2, <3>3, <4>1 DEF e
    <3>8. Fine(w, n + 1) BY <3>4, <3>5, <3>6, <3>7
    <3> QED BY <2>1, <3>8 DEF w
  <2> QED BY <2>6, <2>7
<1>4. c \in T
  <2> HIDE DEF T
  <2>1. 0..c \subseteq T BY <1>0, <1>2, <1>3, Induct
  <2> QED BY <1>0, <2>1
<1> DEFINE w == k[c]
<1>5. w \in Seq(ColumnIds) /\ Fine(w, c) BY <1>0, <1>1, <1>4
<1> HIDE DEF w
<1>6. DOMAIN w = 1..Len(w) /\ Len(w) \in Nat BY <1>5
<1>7. {w[i] : i \in 1..Len(w)} = {order[i] : i \in 1..c} \cap S
  <2>1. \A i \in 1..Len(w) : w[i] \in S /\ \E j \in 1..c : w[i] = order[j] BY <1>5
  <2>2. \A j \in 1..c : order[j] \in S => \E i \in 1..Len(w) : w[i] = order[j] BY <1>5
  <2>3. {w[i] : i \in 1..Len(w)} \subseteq {order[i] : i \in 1..c} BY <2>1
  <2>4. {w[i] : i \in 1..Len(w)} \subseteq S BY <2>1
  <2>5. {order[i] : i \in 1..c} \cap S \subseteq {w[i] : i \in 1..Len(w)} BY <2>2
  <2> QED BY <2>3, <2>4, <2>5
<1>8. ASSUME {order[i] : i \in 1..c} \subseteq S PROVE w = order
  <2>1. \A j \in 1..c : order[j] \in S BY <1>8
  <2>2. Len(w) = c /\ \A j \in 1..c : w[j] = order[j] BY <1>5, <2>1
  <2> QED BY <1>5, <1>0, <2>2
<1>9. Table!Kept(order, S) = w BY <1>1 DEF w
<1>10. Table!Range(w) = {w[i] : i \in 1..Len(w)} /\ Table!Range(order) = {order[i] : i \in 1..c}
  BY <1>0, <1>6
<1>11. Table!IsInjective(w) BY <1>5, <1>6
<1> HIDE DEF Table!Range, Table!IsInjective
<1> QED BY <1>5, <1>7, <1>8, <1>9, <1>10, <1>11

\* The reconciled order has every column of the release once, and is the order it was made
\* from when that has them already.
LEMMA ReconciledIs ==
  ASSUME NEW order \in Orders, NEW release \in Orders,
         Table!IsInjective(order), Table!IsInjective(release)
  PROVE  LET w == Table!Reconciled(order, release) IN
         /\ w \in Orders /\ Table!Permutes(w, release)
         /\ Table!Permutes(order, release) => w = order
PROOF
<1> DEFINE known == Table!Range(release)
           missing == Table!Range(release) \ Table!Range(order)
           u == Table!Kept(order, known)
           v == Table!Kept(release, missing)
<1>1. /\ u \in Orders /\ Table!IsInjective(u) /\ Table!Range(u) = Table!Range(order) \cap known
      /\ Table!Range(order) \subseteq known => u = order
  BY KeptIs
<1>2. /\ v \in Orders /\ Table!IsInjective(v) /\ Table!Range(v) = Table!Range(release) \cap missing
  BY KeptIs
<1>3. Table!Reconciled(order, release) = u \o v BY DEF Table!Reconciled
<1>4. Table!Range(v) = missing BY <1>2
<1> HIDE DEF u, v
<1> DEFINE w == u \o v
           m == Len(u)
           n == Len(v)
<1>5. /\ m \in Nat /\ n \in Nat /\ DOMAIN u = 1..m /\ DOMAIN v = 1..n
      /\ w \in Orders /\ Len(w) = m + n /\ DOMAIN w = 1..(m + n)
      /\ \A i \in 1..m : w[i] = u[i]
      /\ \A i \in (m + 1)..(m + n) : i - m \in 1..n /\ w[i] = v[i - m]
  BY <1>1, <1>2 DEF Orders
<1>6. \A i \in 1..n : w[m + i] = v[i] /\ m + i \in (m + 1)..(m + n)
  <2>1. \A i \in 1..n : m + i \in (m + 1)..(m + n) /\ (m + i) - m = i BY <1>5
  <2> QED BY <1>5, <2>1
<1> HIDE DEF w, m, n
<1>7. 1..(m + n) = 1..m \cup (m + 1)..(m + n) BY <1>5
<1>8. Table!Range(w) = Table!Range(u) \cup Table!Range(v)
  <2>1. /\ Table!Range(w) = {w[i] : i \in 1..(m + n)} /\ Table!Range(u) = {u[i] : i \in 1..m}
        /\ Table!Range(v) = {v[i] : i \in 1..n}
    BY <1>5 DEF Table!Range
  <2>2. \A i \in 1..(m + n) : \/ (i \in 1..m /\ w[i] = u[i])
                             \/ (i - m \in 1..n /\ w[i] = v[i - m])
    BY <1>5, <1>7
  <2>3. {w[i] : i \in 1..(m + n)} \subseteq {u[i] : i \in 1..m} \cup {v[i] : i \in 1..n}
    BY <2>2
  <2>4. \A i \in 1..m : i \in 1..(m + n) BY <1>7
  <2>5. \A i \in 1..n : m + i \in 1..(m + n) BY <1>6, <1>7
  <2>6. {u[i] : i \in 1..m} \subseteq {w[i] : i \in 1..(m + n)} BY <1>5, <2>4
  <2>7. {v[i] : i \in 1..n} \subseteq {w[i] : i \in 1..(m + n)} BY <1>6, <2>5
  <2> QED BY <2>1, <2>3, <2>6, <2>7
<1>9. Table!IsInjective(w)
  <2>1. \A i \in 1..m : \A j \in 1..n : u[i] # v[j]
    BY <1>1, <1>4, <1>5 DEF Table!Range
  <2>2. \A i, j \in 1..m : w[i] = w[j] => i = j BY <1>1, <1>5 DEF Table!IsInjective
  <2>3. ASSUME NEW i \in (m + 1)..(m + n), NEW j \in (m + 1)..(m + n), w[i] = w[j] PROVE i = j
    <3>1. i - m \in 1..n /\ j - m \in 1..n /\ v[i - m] = v[j - m] BY <1>5, <2>3
    <3>2. i - m = j - m BY <1>2, <1>5, <3>1 DEF Table!IsInjective
    <3> QED BY <1>5, <3>2
  <2>4. \A i \in 1..m : \A j \in (m + 1)..(m + n) : w[i] # w[j] BY <1>5, <2>1
  <2> QED BY <1>5, <1>7, <2>2, <2>3, <2>4 DEF Table!IsInjective
<1>10. Table!Range(w) = known BY <1>1, <1>4, <1>8
<1>11. ASSUME Table!Permutes(order, release) PROVE w = order
  <2>1. u = order /\ missing = {} BY <1>1, <1>11 DEF Table!Permutes
  <2>2. n = 0
    <3>1. \A i \in 1..n : v[i] \in missing BY <1>4, <1>5 DEF Table!Range
    <3> QED BY <1>5, <2>1, <3>1
  <2>3. v = <<>> BY <1>2, <2>2 DEF n, Orders
  <2> QED BY <1>1, <2>1, <2>3 DEF w, Orders
<1> QED BY <1>3, <1>5, <1>9, <1>10, <1>11 DEF w, Table!Permutes

LEMMA Joined ==
  ASSUME NEW S, NEW a \in Seq(S), NEW b \in Seq(S)
  PROVE  /\ a \o b \in Seq(S) /\ Len(a \o b) = Len(a) + Len(b)
         /\ \A k \in 1..Len(a) : (a \o b)[k] = a[k]
         /\ \A k \in (Len(a) + 1)..(Len(a) + Len(b)) : (a \o b)[k] = b[k - Len(a)]
PROOF OBVIOUS

\* Taking one out, and putting one in.
RemoveAt(s, i) == SubSeq(s, 1, i - 1) \o SubSeq(s, i + 1, Len(s))
InsertAt(s, i, e) == SubSeq(s, 1, i - 1) \o <<e>> \o SubSeq(s, i, Len(s))

LEMMA WithoutOne ==
  ASSUME NEW S, NEW s \in Seq(S), NEW i \in 1..Len(s)
  PROVE  LET w == RemoveAt(s, i) IN
         /\ w \in Seq(S) /\ Len(w) = Len(s) - 1
         /\ \A k \in 1..(Len(s) - 1) : w[k] = s[IF k < i THEN k ELSE k + 1]
PROOF
<1> DEFINE n == Len(s)
           w == RemoveAt(s, i)
           p == SubSeq(s, 1, i - 1)
           q == SubSeq(s, i + 1, n)
<1>1. n \in Nat /\ DOMAIN s = 1..n OBVIOUS
<1>2. /\ p \in Seq(S) /\ Len(p) = i - 1 /\ \A k \in 1..(i - 1) : p[k] = s[k]
      /\ q \in Seq(S) /\ Len(q) = n - i
      /\ \A k \in 1..(n - i) : q[k] = s[i + k]
  <2>2. /\ i - 1 \in Int /\ i + 1 \in Int /\ n \in Int
        /\ \A k \in 1..(i - 1) : s[k] \in S
        /\ \A k \in (i + 1)..n : s[k] \in S
    BY <1>1
  <2>3. /\ p \in Seq(S)
        /\ Len(p) = IF 1 <= i - 1 THEN i - 1 - 1 + 1 ELSE 0
        /\ \A k \in 1..(i - 1 - 1 + 1) : p[k] = s[1 + k - 1]
    BY <2>2, SubSeqProperties
  <2>4. /\ q \in Seq(S)
        /\ Len(q) = IF i + 1 <= n THEN n - (i + 1) + 1 ELSE 0
        /\ \A k \in 1..(n - (i + 1) + 1) : q[k] = s[i + 1 + k - 1]
    BY <2>2, SubSeqProperties
  <2> HIDE DEF p, q
  <2>5. Len(p) = i - 1 /\ \A k \in 1..(i - 1) : p[k] = s[k] BY <1>1, <2>3
  <2>6. Len(q) = n - i /\ \A k \in 1..(n - i) : q[k] = s[i + k]
    <3>1. Len(q) = n - i
      <4>1. i \in Nat /\ n \in Nat /\ i <= n BY <1>1
      <4>2. Len(q) = IF i + 1 <= n THEN n - (i + 1) + 1 ELSE 0 BY <2>4
      <4> HIDE DEF n
      <4>3. CASE i + 1 <= n BY <4>1, <4>2, <4>3
      <4>4. CASE ~(i + 1 <= n) BY <4>1, <4>2, <4>4
      <4> QED BY <4>3, <4>4
    <3>2. ASSUME NEW k \in 1..(n - i) PROVE q[k] = s[i + k]
      <4>1. k \in 1..(n - (i + 1) + 1) /\ i + 1 + k - 1 = i + k BY <1>1
      <4>2. q[k] = s[i + 1 + k - 1] BY <2>4, <4>1
      <4> QED BY <4>1, <4>2
    <3> QED BY <3>1, <3>2
  <2> QED BY <2>3, <2>4, <2>5, <2>6
<1>3. w = p \o q BY DEF RemoveAt
<1> HIDE DEF p, q, w
<1>4. /\ w \in Seq(S) /\ Len(w) = n - 1
      /\ \A k \in 1..(i - 1) : w[k] = p[k]
      /\ \A k \in i..(n - 1) : w[k] = q[k - (i - 1)]
  <2>1. Len(p) + Len(q) = n - 1 BY <1>1, <1>2
  <2>2. i..(n - 1) = (Len(p) + 1)..(Len(p) + Len(q)) BY <1>1, <1>2
  <2>3. /\ w \in Seq(S) /\ Len(w) = Len(p) + Len(q) /\ \A k \in 1..Len(p) : w[k] = p[k]
        /\ \A k \in (Len(p) + 1)..(Len(p) + Len(q)) : w[k] = q[k - Len(p)]
    BY <1>2, <1>3, Joined
  <2>4. \A k \in i..(n - 1) : w[k] = q[k - Len(p)] BY <2>2, <2>3
  <2> QED BY <1>2, <2>1, <2>3, <2>4
<1>5. ASSUME NEW k \in 1..(n - 1) PROVE w[k] = s[IF k < i THEN k ELSE k + 1]
  <2>1. CASE k < i
    <3>1. k \in 1..(i - 1) BY <1>1, <2>1
    <3> QED BY <1>2, <1>4, <2>1, <3>1
  <2>2. CASE ~(k < i)
    <3>1. /\ k \in i..(n - 1) /\ k - (i - 1) \in 1..(n - i) /\ i + (k - (i - 1)) = k + 1
      BY <1>1, <2>2
    <3>2. q[k - (i - 1)] = s[i + (k - (i - 1))] BY <1>2, <3>1
    <3> QED BY <1>4, <2>2, <3>1, <3>2
  <2> QED BY <2>1, <2>2
<1> QED BY <1>1, <1>4, <1>5 DEF w

LEMMA RemovedIs ==
  ASSUME NEW order \in Orders, Table!IsInjective(order), NEW i \in 1..Len(order)
  PROVE  LET w == RemoveAt(order, i) IN
         /\ w \in Orders /\ Len(w) = Len(order) - 1 /\ Table!IsInjective(w)
         /\ Table!Range(w) = Table!Range(order) \ {order[i]}
PROOF
<1> DEFINE n == Len(order)
           w == RemoveAt(order, i)
           at(k) == IF k < i THEN k ELSE k + 1
<1>1. /\ n \in Nat /\ DOMAIN order = 1..n /\ w \in Orders /\ Len(w) = n - 1
      /\ DOMAIN w = 1..(n - 1) /\ \A k \in 1..(n - 1) : w[k] = order[at(k)]
  <2>1. order \in Seq(ColumnIds) /\ n \in Nat /\ DOMAIN order = 1..n BY DEF Orders
  <2>2. /\ w \in Seq(ColumnIds) /\ Len(w) = Len(order) - 1
        /\ \A k \in 1..(Len(order) - 1) : w[k] = order[IF k < i THEN k ELSE k + 1]
    BY Zenon, <2>1, WithoutOne
  <2> HIDE DEF w
  <2> QED BY <2>1, <2>2 DEF Orders
<1> HIDE DEF w
<1>2. \A k \in 1..(n - 1) : at(k) \in 1..n /\ at(k) # i BY <1>1
<1>3. \A k, l \in 1..(n - 1) : at(k) = at(l) => k = l BY <1>1
<1>4. \A j \in 1..n : j # i => \E k \in 1..(n - 1) : at(k) = j
  <2> SUFFICES ASSUME NEW j \in 1..n, j # i PROVE \E k \in 1..(n - 1) : at(k) = j OBVIOUS
  <2>1. CASE j < i
    <3>1. j \in 1..(n - 1) /\ at(j) = j BY <1>1, <2>1
    <3> QED BY <3>1
  <2>2. CASE ~(j < i)
    <3>1. j - 1 \in 1..(n - 1) /\ at(j - 1) = j BY <1>1, <2>2
    <3> QED BY <3>1
  <2> QED BY <2>1, <2>2
<1> HIDE DEF at
<1>5. Table!IsInjective(w) BY <1>1, <1>2, <1>3 DEF Table!IsInjective
<1>6. Table!Range(w) = Table!Range(order) \ {order[i]}
  <2>1. \A j \in 1..n : order[j] = order[i] => j = i BY <1>1 DEF Table!IsInjective
  <2>2. Table!Range(w) = {order[at(k)] : k \in 1..(n - 1)} BY <1>1 DEF Table!Range
  <2>3. Table!Range(order) = {order[j] : j \in 1..n} BY <1>1 DEF Table!Range
  <2>4. ASSUME NEW c PROVE c \in Table!Range(w) <=> c \in Table!Range(order) \ {order[i]}
    <3>1. ASSUME c \in Table!Range(w) PROVE c \in Table!Range(order) \ {order[i]}
      <4>1. PICK k \in 1..(n - 1) : c = order[at(k)] BY <2>2, <3>1
      <4> QED BY <1>2, <2>1, <2>3, <4>1
    <3>2. ASSUME c \in Table!Range(order) \ {order[i]} PROVE c \in Table!Range(w)
      <4>1. PICK j \in 1..n : c = order[j] BY <2>3, <3>2
      <4>2. PICK k \in 1..(n - 1) : at(k) = j BY <1>4, <3>2, <4>1
      <4> QED BY <2>2, <4>1, <4>2
    <3> QED BY <3>1, <3>2
  <2> QED BY <2>4
<1> QED BY <1>1, <1>5, <1>6 DEF w

LEMMA InsertedIs ==
  ASSUME NEW order \in Orders, Table!IsInjective(order), NEW i \in 1..(Len(order) + 1),
         NEW e \in ColumnIds, e \notin Table!Range(order)
  PROVE  LET w == InsertAt(order, i, e) IN
         /\ w \in Orders /\ Table!IsInjective(w)
         /\ Table!Range(w) = Table!Range(order) \cup {e}
PROOF
<1> DEFINE n == Len(order)
           w == InsertAt(order, i, e)
           at(k) == IF k < i THEN k ELSE k + 1
<1>1. /\ n \in Nat /\ DOMAIN order = 1..n /\ w \in Orders /\ Len(w) = n + 1
      /\ DOMAIN w = 1..(n + 1) /\ w[i] = e /\ \A k \in 1..n : w[at(k)] = order[k]
  <2>1. n \in Nat /\ DOMAIN order = 1..n BY DEF Orders
  <2> DEFINE a == SubSeq(order, 1, i - 1)
             b == SubSeq(order, i, n)
  <2>2. /\ a \in Seq(ColumnIds) /\ Len(a) = i - 1 /\ \A k \in 1..(i - 1) : a[k] = order[k]
        /\ b \in Seq(ColumnIds) /\ Len(b) = n - i + 1
        /\ \A k \in 1..(n - i + 1) : b[k] = order[i + k - 1]
    BY <2>1 DEF Orders
  <2>3. w = (a \o <<e>>) \o b BY DEF InsertAt
  <2> HIDE DEF a, b, w
  <2>4. /\ w \in Seq(ColumnIds) /\ Len(w) = n + 1 /\ w[i] = e
        /\ \A k \in 1..(i - 1) : w[k] = a[k]
        /\ \A k \in (i + 1)..(n + 1) : w[k] = b[k - i]
    <3> DEFINE d == a \o <<e>>
    <3>1. /\ d \in Seq(ColumnIds) /\ Len(d) = i /\ d[i] = e
          /\ \A k \in 1..(i - 1) : d[k] = a[k]
      BY <2>1, <2>2
    <3> HIDE DEF d
    <3>2. /\ w \in Seq(ColumnIds) /\ Len(w) = n + 1
          /\ \A k \in 1..i : w[k] = d[k]
          /\ \A k \in (i + 1)..(n + 1) : w[k] = b[k - i]
      <4>1. w = d \o b BY <2>3 DEF d
      <4>2. Len(d) + Len(b) = n + 1 /\ d \in Orders /\ b \in Orders
        BY <2>1, <2>2, <3>1 DEF Orders
      <4>3. (i + 1)..(n + 1) = (Len(d) + 1)..(Len(d) + Len(b)) BY <2>1, <2>2, <3>1
      <4> QED BY <3>1, <4>1, <4>2, <4>3, Joined DEF Orders
    <3> QED BY <2>1, <3>1, <3>2
  <2>5. ASSUME NEW k \in 1..n PROVE w[at(k)] = order[k]
    <3>1. CASE k < i
      <4>1. k \in 1..(i - 1) /\ at(k) = k BY <2>1, <3>1
      <4> QED BY <2>2, <2>4, <4>1
    <3>2. CASE ~(k < i)
      <4>1. /\ k + 1 \in (i + 1)..(n + 1) /\ (k + 1) - i \in 1..(n - i + 1) /\ at(k) = k + 1
            /\ i + ((k + 1) - i) - 1 = k
        BY <2>1, <3>2
      <4>2. w[k + 1] = b[(k + 1) - i] BY <2>4, <4>1
      <4>3. b[(k + 1) - i] = order[i + ((k + 1) - i) - 1] BY <2>2, <4>1
      <4> QED BY <4>1, <4>2, <4>3
    <3> QED BY <3>1, <3>2
  <2> QED BY <2>1, <2>4, <2>5 DEF Orders
<1> HIDE DEF w
<1>2. \A k \in 1..n : at(k) \in 1..(n + 1) /\ at(k) # i BY <1>1
<1>3. \A j \in 1..(n + 1) : j # i => \E k \in 1..n : at(k) = j
  <2> SUFFICES ASSUME NEW j \in 1..(n + 1), j # i PROVE \E k \in 1..n : at(k) = j OBVIOUS
  <2>1. CASE j < i
    <3>1. j \in 1..n /\ at(j) = j BY <1>1, <2>1
    <3> QED BY <3>1
  <2>2. CASE ~(j < i)
    <3>1. j - 1 \in 1..n /\ at(j - 1) = j BY <1>1, <2>2
    <3> QED BY <3>1
  <2> QED BY <2>1, <2>2
<1> HIDE DEF at
<1>4. \A k \in 1..n : order[k] # e BY <1>1 DEF Table!Range
<1>5. ASSUME NEW j \in 1..(n + 1), NEW l \in 1..(n + 1), w[j] = w[l] PROVE j = l
  <2>1. j # i /\ l # i => j = l
    <3> SUFFICES ASSUME j # i, l # i PROVE j = l OBVIOUS
    <3>1. PICK k \in 1..n : at(k) = j BY <1>3
    <3>2. PICK q \in 1..n : at(q) = l BY <1>3
    <3>3. order[k] = order[q] BY <1>1, <1>5, <3>1, <3>2
    <3> QED BY <1>1, <3>1, <3>2, <3>3 DEF Table!IsInjective
  <2>2. \A x \in 1..(n + 1) : x # i => w[x] # e BY <1>1, <1>3, <1>4
  <2> QED BY <1>1, <1>5, <2>1, <2>2
<1>6. Table!IsInjective(w) BY <1>1, <1>5 DEF Table!IsInjective
<1>7. Table!Range(w) = Table!Range(order) \cup {e}
  <2>1. Table!Range(w) = {w[j] : j \in 1..(n + 1)} BY <1>1 DEF Table!Range
  <2>2. Table!Range(order) = {order[j] : j \in 1..n} BY <1>1 DEF Table!Range
  <2>3. i \in 1..(n + 1) OBVIOUS
  <2>4. ASSUME NEW c PROVE c \in Table!Range(w) <=> c \in Table!Range(order) \cup {e}
    <3>1. ASSUME c \in Table!Range(w) PROVE c \in Table!Range(order) \cup {e}
      <4>1. PICK j \in 1..(n + 1) : c = w[j] BY <2>1, <3>1
      <4>2. CASE j = i BY <1>1, <4>1, <4>2
      <4>3. CASE j # i
        <5>1. PICK k \in 1..n : at(k) = j BY <1>3, <4>3
        <5> QED BY <1>1, <2>2, <4>1, <5>1
      <4> QED BY <4>2, <4>3
    <3>2. ASSUME c \in Table!Range(order) \cup {e} PROVE c \in Table!Range(w)
      <4>1. CASE c = e BY <1>1, <2>1, <2>3, <4>1
      <4>2. CASE c \in Table!Range(order)
        <5>1. PICK k \in 1..n : c = order[k] BY <2>2, <4>2
        <5> QED BY <1>1, <1>2, <2>1, <5>1
      <4> QED BY <3>2, <4>1, <4>2
    <3> QED BY <3>1, <3>2
  <2> QED BY <2>4
<1> QED BY <1>1, <1>6, <1>7 DEF w

\* A drop moves a column and keeps all.
LEMMA MovedIs ==
  ASSUME NEW order \in Orders, Table!IsInjective(order),
         NEW source \in Table!Range(order), NEW target \in Table!Range(order), source # target
  PROVE  LET w == Table!Moved(order, source, target) IN
         w \in Orders /\ Table!IsInjective(w) /\ Table!Range(w) = Table!Range(order)
PROOF
<1> DEFINE from == CHOOSE i \in DOMAIN order : order[i] = source
           to == CHOOSE i \in DOMAIN order : order[i] = target
           out == RemoveAt(order, from)
           at == IF from < to THEN to - 1 ELSE to
<1>1. Len(order) \in Nat /\ DOMAIN order = 1..Len(order) BY DEF Orders
<1>2. from \in 1..Len(order) /\ order[from] = source BY <1>1 DEF Table!Range
<1>3. to \in 1..Len(order) /\ order[to] = target BY <1>1 DEF Table!Range
<1>4. Table!Moved(order, source, target) = InsertAt(out, at, source)
  BY Zenon DEF Table!Moved, InsertAt, RemoveAt
<1> HIDE DEF from, to
<1>5. /\ out \in Orders /\ Len(out) = Len(order) - 1 /\ Table!IsInjective(out)
      /\ Table!Range(out) = Table!Range(order) \ {source}
  BY <1>2, RemovedIs
<1> HIDE DEF out
<1>6. from # to BY <1>2, <1>3
<1>7. at \in 1..(Len(out) + 1) BY <1>1, <1>2, <1>3, <1>5, <1>6
<1>8. source \in ColumnIds BY <1>1, <1>2 DEF Orders
<1> HIDE DEF at
<1>9. source \notin Table!Range(out) BY <1>5
<1>10. LET w == InsertAt(out, at, source) IN
       /\ w \in Orders /\ Table!IsInjective(w)
       /\ Table!Range(w) = Table!Range(out) \cup {source}
  BY <1>5, <1>7, <1>8, <1>9, InsertedIs
<1> QED BY <1>4, <1>5, <1>10

columns == v1
columnOrder == v2
columnVisibility == v3
dragColId == v4
storedColumnOrder == v5
storedVisibility == v6
inflightColumns == v7
inflightColumnOrder == v8
inflightColumnVisibility == v9
inflightDragColId == v10
storedInflightColumnOrder == v11
storedInflightVisibility == v12
inflightOpen == v13
storedInflightOpen == v14
USE DEF columns, columnOrder, columnVisibility, dragColId, storedColumnOrder, storedVisibility,
        inflightColumns, inflightColumnOrder, inflightColumnVisibility, inflightDragColId,
        storedInflightColumnOrder, storedInflightVisibility, inflightOpen, storedInflightOpen

\* A table of a release: what it shows is what a visit would make of what is stored.
Laid(release, order, visibility, drag, savedOrder, savedVisibility) ==
  /\ release \in Orders /\ Table!IsInjective(release)
  /\ order \in Orders /\ Table!Permutes(order, release)
  /\ drag # None => drag \in Table!Range(order)
  /\ savedOrder \in Orders /\ Table!IsInjective(savedOrder)
  /\ Table!Reconciled(Table!Stored(savedOrder, release), release) = order
  /\ Table!Stored(savedVisibility, Table!DefaultVisibility(release)) = visibility

ColumnsInv ==
  /\ Laid(columns, columnOrder, columnVisibility, dragColId, storedColumnOrder, storedVisibility)
  /\ Laid(inflightColumns, inflightColumnOrder, inflightColumnVisibility, inflightDragColId,
          storedInflightColumnOrder, storedInflightVisibility)
  /\ inflightOpen = storedInflightOpen

LEMMA ReleaseIs ==
  ASSUME Table!ColumnsAssumption, NEW r \in Releases \cup InflightReleases
  PROVE  r \in Orders /\ Table!IsInjective(r)
PROOF
<1>1. r \in Seq(Table!Range(r)) /\ Table!IsInjective(r) BY DEF Table!ColumnsAssumption
<1>2. Table!Range(r) \subseteq ColumnIds BY DEF ColumnIds
<1> QED BY <1>1, <1>2 DEF Orders

\* Of an order that is not stored, or is the table's own, nothing changes.
LEMMA OwnOrder ==
  ASSUME NEW order \in Orders, NEW release \in Orders, Table!IsInjective(release),
         Table!Permutes(order, release)
  PROVE  Table!Reconciled(Table!Stored(order, release), release) = order
PROOF
<1>1. Table!Permutes(release, release) BY DEF Table!Permutes
<1>2. Table!Reconciled(order, release) = order BY ReconciledIs DEF Table!Permutes
<1>3. Table!Reconciled(release, release) = release BY <1>1, ReconciledIs
<1>4. CASE order = <<>>
  <2>1. Table!Range(order) = {} BY <1>4 DEF Table!Range
  <2>2. DOMAIN release = {} BY <2>1 DEF Table!Permutes, Table!Range
  <2>3. release = order BY <1>4, <2>2 DEF Orders
  <2> QED BY <1>3, <2>3 DEF Table!Stored
<1>5. CASE order # <<>> BY <1>2, <1>5 DEF Table!Stored
<1> QED BY <1>4, <1>5

\* The page is loaded, of a release.
LEMMA Loads ==
  ASSUME Table!ColumnsAssumption, NEW r \in Releases \cup InflightReleases,
         NEW savedOrder \in Orders, Table!IsInjective(savedOrder), NEW savedVisibility
  PROVE  LET order == Table!Reconciled(Table!Stored(savedOrder, r), r)
             visibility == Table!Stored(savedVisibility, Table!DefaultVisibility(r)) IN
         /\ Laid(r, order, visibility, None, savedOrder, savedVisibility)
         /\ Laid(r, order, visibility, None, Table!Restored(savedOrder, r), savedVisibility)
PROOF
<1> DEFINE order == Table!Reconciled(Table!Stored(savedOrder, r), r)
           visibility == Table!Stored(savedVisibility, Table!DefaultVisibility(r))
<1>1. r \in Orders /\ Table!IsInjective(r) BY ReleaseIs
<1>2. /\ Table!Stored(savedOrder, r) \in Orders /\ Table!IsInjective(Table!Stored(savedOrder, r))
  BY <1>1 DEF Table!Stored
<1>3. order \in Orders /\ Table!Permutes(order, r) BY <1>1, <1>2, ReconciledIs
<1>4. Table!Restored(savedOrder, r) = IF order = Table!Stored(savedOrder, r) THEN savedOrder ELSE order
  BY Zenon DEF Table!Restored
<1>5. Table!Reconciled(Table!Stored(order, r), r) = order
  <2> HIDE DEF order
  <2> QED BY <1>1, <1>3, OwnOrder
<1>6. Laid(r, order, visibility, None, savedOrder, savedVisibility)
  <2>1. order = Table!Reconciled(Table!Stored(savedOrder, r), r) OBVIOUS
  <2> HIDE DEF order
  <2> QED BY <1>1, <1>3, <2>1 DEF Laid
<1>7. Laid(r, order, visibility, None, order, savedVisibility)
  <2> HIDE DEF order
  <2> QED BY <1>1, <1>3, <1>5 DEF Laid, Table!Permutes
<1> HIDE DEF order, visibility
<1>8. Laid(r, order, visibility, None, Table!Restored(savedOrder, r), savedVisibility)
  BY <1>4, <1>6, <1>7
<1> QED BY <1>6, <1>8 DEF order, visibility

\* A column is dropped on another.
LEMMA Drops ==
  ASSUME NEW r, NEW o, NEW v, NEW d, NEW so, NEW sv, Laid(r, o, v, d, so, sv),
         d # None, NEW target \in Table!Range(o), d # target
  PROVE  Laid(r, Table!Moved(o, d, target), v, None, Table!Moved(o, d, target), sv)
PROOF
<1> DEFINE w == Table!Moved(o, d, target)
<1>1. o \in Orders /\ Table!IsInjective(o) /\ d \in Table!Range(o) /\ Table!Permutes(o, r)
      /\ r \in Orders /\ Table!IsInjective(r)
  BY DEF Laid, Table!Permutes
<1>2. w \in Orders /\ Table!IsInjective(w) /\ Table!Range(w) = Table!Range(o) BY <1>1, MovedIs
<1> HIDE DEF w
<1>3. Table!Permutes(w, r) BY <1>1, <1>2 DEF Table!Permutes
<1>4. Table!Reconciled(Table!Stored(w, r), r) = w BY <1>1, <1>2, <1>3, OwnOrder
<1>5. Laid(r, w, v, None, w, sv) BY <1>1, <1>2, <1>3, <1>4 DEF Laid
<1> QED BY <1>5 DEF w

\* A column is shown or hidden.
LEMMA Toggles ==
  ASSUME NEW r, NEW o, NEW v, NEW d, NEW so, NEW sv, Laid(r, o, v, d, so, sv),
         NEW w, w # <<>>
  PROVE  Laid(r, o, w, d, so, w)
PROOF BY DEF Laid, Table!Stored

LEMMA ToggledSome == ASSUME NEW f, NEW c \in DOMAIN f PROVE f # <<>>
PROOF
<1>1. DOMAIN <<>> = {} OBVIOUS
<1> QED BY <1>1

\* What is dragged changes.
LEMMA Drags ==
  ASSUME NEW r, NEW o, NEW v, NEW d, NEW so, NEW sv, Laid(r, o, v, d, so, sv),
         NEW c, c = None \/ c \in Table!Range(o)
  PROVE  Laid(r, o, v, c, so, sv)
PROOF BY DEF Laid

LEMMA ColumnsBegin == ASSUME Table!ColumnsAssumption, Table!Init PROVE ColumnsInv
PROOF
<1>1. <<>> \in Orders /\ Table!IsInjective(<<>>) BY DEF Orders, Table!IsInjective
<1>2. PICK r \in Releases : \E i \in InflightReleases : Table!Mount(r, i) BY DEF Table!Init
<1>3. PICK i \in InflightReleases : Table!Mount(r, i) BY <1>2
<1>4. /\ storedColumnOrder = <<>> /\ storedVisibility = <<>>
      /\ storedInflightColumnOrder = <<>> /\ storedInflightVisibility = <<>>
  BY DEF Table!Init
<1>5. Laid(columns, columnOrder, columnVisibility, dragColId, storedColumnOrder, storedVisibility)
  BY <1>1, <1>3, <1>4, Loads DEF Table!Mount
<1>6. Laid(inflightColumns, inflightColumnOrder, inflightColumnVisibility, inflightDragColId,
           storedInflightColumnOrder, storedInflightVisibility)
  BY <1>1, <1>3, <1>4, Loads DEF Table!Mount
<1> QED BY <1>3, <1>5, <1>6 DEF ColumnsInv, Table!Mount

LEMMA LaidNext ==
  /\ Laid(columns, columnOrder, columnVisibility, dragColId, storedColumnOrder, storedVisibility)'
     <=> Laid(columns', columnOrder', columnVisibility', dragColId', storedColumnOrder',
              storedVisibility')
  /\ Laid(inflightColumns, inflightColumnOrder, inflightColumnVisibility, inflightDragColId,
          storedInflightColumnOrder, storedInflightVisibility)'
     <=> Laid(inflightColumns', inflightColumnOrder', inflightColumnVisibility',
              inflightDragColId', storedInflightColumnOrder', storedInflightVisibility')
PROOF BY DEF Laid

\* The handlers of the activity table leave the in-flight table alone.
LEMMA MainKeeps ==
  ASSUME ColumnsInv, NEW c \in Table!Range(columnOrder),
         \/ Table!HandleColDragStart(c) \/ Table!HandleColDrop(c) \/ Table!ToggleVisibility(c)
  PROVE  ColumnsInv'
PROOF
<1>1. Laid(columns, columnOrder, columnVisibility, dragColId, storedColumnOrder, storedVisibility)
  BY DEF ColumnsInv
<1>2. UNCHANGED <<inflightColumns, inflightColumnOrder, inflightColumnVisibility,
                  inflightDragColId, storedInflightColumnOrder, storedInflightVisibility,
                  inflightOpen, storedInflightOpen, columns>>
  BY DEF Table!HandleColDragStart, Table!HandleColDrop, Table!ToggleVisibility,
         Table!inflight, Table!open
<1>3. Laid(columns', columnOrder', columnVisibility', dragColId', storedColumnOrder', storedVisibility')
  <2>1. CASE Table!HandleColDragStart(c)
    <3>1. /\ dragColId' = c
          /\ UNCHANGED <<columns, columnOrder, columnVisibility, storedColumnOrder, storedVisibility>>
      BY <2>1 DEF Table!HandleColDragStart
    <3> QED BY <1>1, <3>1, Drags
  <2>2. CASE Table!HandleColDrop(c)
    <3>1. /\ dragColId # None /\ dragColId' = None
          /\ UNCHANGED <<columns, columnVisibility, storedVisibility>>
      BY <2>2 DEF Table!HandleColDrop
    <3>2. CASE dragColId = c
      <4>1. UNCHANGED <<columnOrder, storedColumnOrder>> BY <2>2, <3>2 DEF Table!HandleColDrop
      <4> QED BY <1>1, <3>1, <4>1, Drags
    <3>3. CASE dragColId # c
      <4>1. columnOrder' = Table!Moved(columnOrder, dragColId, c) /\ storedColumnOrder' = columnOrder'
        BY <2>2, <3>3 DEF Table!HandleColDrop
      <4> QED BY <1>1, <3>1, <3>3, <4>1, Drops
    <3> QED BY <3>2, <3>3
  <2>3. CASE Table!ToggleVisibility(c)
    <3>1. /\ storedVisibility' = columnVisibility' /\ c \in DOMAIN columnVisibility'
          /\ UNCHANGED <<columns, columnOrder, dragColId, storedColumnOrder>>
      BY <2>3 DEF Table!ToggleVisibility
    <3>2. columnVisibility' # <<>> BY <3>1, ToggledSome
    <3> QED BY <1>1, <3>1, <3>2, Toggles
  <2> QED BY <2>1, <2>2, <2>3
<1> QED BY <1>2, <1>3, LaidNext DEF ColumnsInv

\* Nor those of the in-flight table the activity table.
LEMMA InflightKeeps ==
  ASSUME ColumnsInv, NEW c \in Table!Range(inflightColumnOrder),
         \/ Table!HandleInflightColDragStart(c) \/ Table!HandleInflightColDrop(c)
         \/ Table!ToggleInflightColumn(c)
  PROVE  ColumnsInv'
PROOF
<1>1. Laid(inflightColumns, inflightColumnOrder, inflightColumnVisibility, inflightDragColId,
           storedInflightColumnOrder, storedInflightVisibility)
  BY DEF ColumnsInv
<1>2. UNCHANGED <<columns, columnOrder, columnVisibility, dragColId, storedColumnOrder,
                  storedVisibility, inflightOpen, storedInflightOpen, inflightColumns>>
  BY DEF Table!HandleInflightColDragStart, Table!HandleInflightColDrop,
         Table!ToggleInflightColumn, Table!main, Table!open
<1>3. Laid(inflightColumns', inflightColumnOrder', inflightColumnVisibility', inflightDragColId',
           storedInflightColumnOrder', storedInflightVisibility')
  <2>1. CASE Table!HandleInflightColDragStart(c)
    <3>1. /\ inflightDragColId' = c
          /\ UNCHANGED <<inflightColumns, inflightColumnOrder, inflightColumnVisibility,
                         storedInflightColumnOrder, storedInflightVisibility>>
      BY <2>1 DEF Table!HandleInflightColDragStart
    <3> QED BY <1>1, <3>1, Drags
  <2>2. CASE Table!HandleInflightColDrop(c)
    <3>1. /\ inflightDragColId # None /\ inflightDragColId' = None
          /\ UNCHANGED <<inflightColumns, inflightColumnVisibility, storedInflightVisibility>>
      BY <2>2 DEF Table!HandleInflightColDrop
    <3>2. CASE inflightDragColId = c
      <4>1. UNCHANGED <<inflightColumnOrder, storedInflightColumnOrder>>
        BY <2>2, <3>2 DEF Table!HandleInflightColDrop
      <4> QED BY <1>1, <3>1, <4>1, Drags
    <3>3. CASE inflightDragColId # c
      <4>1. /\ inflightColumnOrder' = Table!Moved(inflightColumnOrder, inflightDragColId, c)
            /\ storedInflightColumnOrder' = inflightColumnOrder'
        BY <2>2, <3>3 DEF Table!HandleInflightColDrop
      <4> QED BY <1>1, <3>1, <3>3, <4>1, Drops
    <3> QED BY <3>2, <3>3
  <2>3. CASE Table!ToggleInflightColumn(c)
    <3>1. /\ storedInflightVisibility' = inflightColumnVisibility'
          /\ c \in DOMAIN inflightColumnVisibility'
          /\ UNCHANGED <<inflightColumns, inflightColumnOrder, inflightDragColId,
                         storedInflightColumnOrder>>
      BY <2>3 DEF Table!ToggleInflightColumn
    <3>2. inflightColumnVisibility' # <<>> BY <3>1, ToggledSome
    <3> QED BY <1>1, <3>1, <3>2, Toggles
  <2> QED BY <2>1, <2>2, <2>3
<1> QED BY <1>2, <1>3, LaidNext DEF ColumnsInv

\* A drag ends, the in-flight table is opened or closed, or nothing happens.
LEMMA DragEnds ==
  ASSUME ColumnsInv,
         \/ Table!HandleColDragEnd \/ Table!ClearInflightColumnDrag \/ Table!SetInflightOpen
         \/ UNCHANGED Table!vars
  PROVE  ColumnsInv'
PROOF
<1>1. /\ UNCHANGED <<columns, columnOrder, columnVisibility, storedColumnOrder, storedVisibility,
                     inflightColumns, inflightColumnOrder, inflightColumnVisibility,
                     storedInflightColumnOrder, storedInflightVisibility>>
      /\ dragColId' \in {dragColId, None} /\ inflightDragColId' \in {inflightDragColId, None}
      /\ inflightOpen' = storedInflightOpen' \/ UNCHANGED <<inflightOpen, storedInflightOpen>>
  BY DEF Table!HandleColDragEnd, Table!ClearInflightColumnDrag, Table!SetInflightOpen, Table!vars,
         Table!main, Table!inflight, Table!open
<1>2. Laid(columns', columnOrder', columnVisibility', dragColId', storedColumnOrder', storedVisibility')
  BY <1>1, Drags DEF ColumnsInv
<1>3. Laid(inflightColumns', inflightColumnOrder', inflightColumnVisibility', inflightDragColId',
           storedInflightColumnOrder', storedInflightVisibility')
  BY <1>1, Drags DEF ColumnsInv
<1>4. inflightOpen' = storedInflightOpen' BY <1>1 DEF ColumnsInv
<1> QED BY <1>2, <1>3, <1>4, LaidNext DEF ColumnsInv

LEMMA ReloadKeeps ==
  ASSUME Table!ColumnsAssumption, ColumnsInv,
         NEW r \in Releases, NEW i \in InflightReleases, Table!Reload(r, i)
  PROVE  ColumnsInv'
PROOF
<1>1. /\ storedColumnOrder \in Orders /\ Table!IsInjective(storedColumnOrder)
      /\ storedInflightColumnOrder \in Orders /\ Table!IsInjective(storedInflightColumnOrder)
  BY DEF ColumnsInv, Laid
<1>2. Laid(columns', columnOrder', columnVisibility', dragColId', storedColumnOrder', storedVisibility')
  BY <1>1, Loads DEF Table!Reload
<1>3. Laid(inflightColumns', inflightColumnOrder', inflightColumnVisibility', inflightDragColId',
           storedInflightColumnOrder', storedInflightVisibility')
  BY <1>1, Loads DEF Table!Reload
<1>4. inflightOpen' = storedInflightOpen' BY DEF Table!Reload
<1> QED BY <1>2, <1>3, <1>4, LaidNext DEF ColumnsInv

LEMMA ColumnsStay ==
  ASSUME Table!ColumnsAssumption, ColumnsInv, [Table!Next]_(Table!vars)
  PROVE  ColumnsInv'
PROOF BY Zenon, MainKeeps, InflightKeeps, DragEnds, ReloadKeeps DEF Table!Next

LEMMA ColumnsMean == ColumnsInv => Table!LayoutSurvives
PROOF
<1> SUFFICES ASSUME ColumnsInv PROVE Table!LayoutSurvives OBVIOUS
<1>1. /\ Table!Permutes(columnOrder, columns)
      /\ columnOrder = Table!Reconciled(Table!Stored(storedColumnOrder, columns), columns)
      /\ columnVisibility = Table!Stored(storedVisibility, Table!DefaultVisibility(columns))
  BY DEF ColumnsInv, Laid
<1>2. /\ Table!Permutes(inflightColumnOrder, inflightColumns)
      /\ inflightColumnOrder =
           Table!Reconciled(Table!Stored(storedInflightColumnOrder, inflightColumns), inflightColumns)
      /\ inflightColumnVisibility =
           Table!Stored(storedInflightVisibility, Table!DefaultVisibility(inflightColumns))
      /\ inflightOpen = storedInflightOpen
  BY DEF ColumnsInv, Laid
<1>3. Table!Table = Table!TableAfterLoad BY <1>1 DEF Table!Table, Table!TableAfterLoad
<1>4. Table!InflightTable = Table!InflightTableAfterLoad
  BY <1>2 DEF Table!InflightTable, Table!InflightTableAfterLoad
<1> QED BY <1>1, <1>2, <1>3, <1>4 DEF Table!LayoutSurvives

HIDE DEF columns, columnOrder, columnVisibility, dragColId, storedColumnOrder, storedVisibility,
         inflightColumns, inflightColumnOrder, inflightColumnVisibility, inflightDragColId,
         storedInflightColumnOrder, storedInflightVisibility, inflightOpen, storedInflightOpen

-----------------------------------------------------------------------------
(* The theme, and the width of the screen.                                 *)

frameStored == v1
mode == v2
systemPrefersDark == v5
screenWidth == v6
prefersDark == v7
innerWidth == v8
mounted == v9
wanted == v10
USE DEF frameStored, mode, systemPrefersDark, screenWidth, prefersDark, innerWidth, mounted, wanted

Preferences == {"theme", "mode", "name", "title"}

\* The mode is stored, and the listeners of a mounted page have told it of the system.
FrameInv ==
  /\ DOMAIN frameStored = Preferences /\ frameStored["mode"] = wanted
  /\ mode = wanted /\ wanted \in Frame!Modes
  /\ prefersDark \in BOOLEAN /\ innerWidth \in Nat
  /\ mounted => systemPrefersDark = prefersDark /\ screenWidth = Frame!WidthOf(innerWidth)

LEMMA ModesAre ==
  /\ \A m \in Frame!Modes : m # Frame!Unset
  /\ \A s : Frame!InitialThemeMode(s) \in Frame!Modes
  /\ \A m \in Frame!Modes : [system |-> "light", light |-> "dark", dark |-> "system"][m] \in Frame!Modes
PROOF BY DEF Frame!Modes, Frame!Unset, Frame!InitialThemeMode

\* The mode that is stored is the mode of the next visit.
LEMMA ModeFound ==
  ASSUME NEW s, DOMAIN s = Preferences, s["mode"] \in Frame!Modes
  PROVE  Frame!OpenedMode(s) = s["mode"]
PROOF BY ModesAre DEF Frame!OpenedMode, Frame!Persistent

\* What a visit leaves in the storage.
LEMMA OpenedIs ==
  ASSUME NEW s, DOMAIN s = Preferences
  PROVE  /\ DOMAIN Frame!OpenedStore(s) = Preferences
         /\ Frame!OpenedStore(s)["mode"] = Frame!OpenedMode(s)
PROOF
<1> DEFINE a == Frame!WithoutFlag(s)
           b == Frame!MigratedTitle(a)
<1>1. DOMAIN a = Preferences BY DEF Frame!WithoutFlag
<1> HIDE DEF a
<1>2. DOMAIN b = Preferences BY <1>1 DEF Frame!MigratedTitle
<1>3. Frame!OpenedStore(s) =
        [b EXCEPT !.mode = Frame!OpenedMode(s), !.name = Frame!Persistent(s, "name", "default"),
                  !.title = Frame!Persistent(Frame!MigratedTitle(s), "title", "llama-hugs")]
  BY Zenon DEF Frame!OpenedStore, a
<1> HIDE DEF b
<1>4. DOMAIN Frame!OpenedStore(s) = Preferences BY Zenon, <1>2, <1>3
<1>5. Frame!OpenedStore(s)["mode"] = Frame!OpenedMode(s)
  BY <1>2, <1>3 DEF Preferences
<1> QED BY <1>4, <1>5

LEMMA FrameBegins == ASSUME Frame!FrameAssumption, Frame!Init PROVE FrameInv
PROOF
<1> DEFINE first(theme, m, t) == [theme |-> theme, mode |-> m, name |-> Frame!Unset, title |-> t]
           chosen(theme, m) == IF m # Frame!Unset THEN m
                               ELSE IF theme \in {"light", "dark"} THEN theme ELSE "system"
<1>1. PICK theme \in {Frame!Unset, "light", "dark", "unreadable"} :
        \E m \in {Frame!Unset, "dark"}, t \in {Frame!Unset, "llama-swap"} :
          /\ frameStored = Frame!OpenedStore(first(theme, m, t))
          /\ mode = Frame!OpenedMode(first(theme, m, t))
          /\ prefersDark \in BOOLEAN /\ innerWidth \in InnerWidths /\ mounted = FALSE
          /\ wanted = chosen(theme, m)
  BY ZenonT(30) DEF Frame!Init
<1>2. PICK m \in {Frame!Unset, "dark"} :
        \E t \in {Frame!Unset, "llama-swap"} :
          /\ frameStored = Frame!OpenedStore(first(theme, m, t))
          /\ mode = Frame!OpenedMode(first(theme, m, t))
          /\ prefersDark \in BOOLEAN /\ innerWidth \in InnerWidths /\ mounted = FALSE
          /\ wanted = chosen(theme, m)
  BY <1>1
<1>3. PICK t \in {Frame!Unset, "llama-swap"} :
          /\ frameStored = Frame!OpenedStore(first(theme, m, t))
          /\ mode = Frame!OpenedMode(first(theme, m, t))
          /\ prefersDark \in BOOLEAN /\ innerWidth \in InnerWidths /\ mounted = FALSE
          /\ wanted = chosen(theme, m)
  BY <1>2
<1> DEFINE s == first(theme, m, t)
<1>4. /\ DOMAIN s = Preferences /\ s["mode"] = m /\ s.theme = theme
  BY DEF Preferences
<1>5. wanted \in Frame!Modes BY <1>3 DEF Frame!Modes
<1>6. Frame!OpenedMode(s) = wanted
  <2>1. wanted = chosen(theme, m) BY <1>3
  <2> HIDE DEF s
  <2> QED BY <1>4, <2>1 DEF Frame!OpenedMode, Frame!Persistent, Frame!InitialThemeMode
<1>7. innerWidth \in Nat
  <2>1. InnerWidths \subseteq Nat BY Zenon DEF Frame!FrameAssumption
  <2> QED BY <1>3, <2>1
<1> HIDE DEF s
<1>8. /\ frameStored = Frame!OpenedStore(s) /\ mode = Frame!OpenedMode(s)
      /\ prefersDark \in BOOLEAN /\ mounted = FALSE
  BY <1>3 DEF s
<1> QED BY <1>4, <1>5, <1>6, <1>7, <1>8, OpenedIs DEF FrameInv

LEMMA FrameStays ==
  ASSUME Frame!FrameAssumption, FrameInv, [Frame!Next]_(Frame!vars)
  PROVE  FrameInv'
PROOF
<1>0. /\ DOMAIN frameStored = Preferences /\ frameStored["mode"] = wanted /\ mode = wanted
      /\ wanted \in Frame!Modes /\ prefersDark \in BOOLEAN /\ innerWidth \in Nat
      /\ mounted => systemPrefersDark = prefersDark /\ screenWidth = Frame!WidthOf(innerWidth)
  BY DEF FrameInv
<1> DEFINE Stay == UNCHANGED <<mode, wanted>> /\ DOMAIN frameStored' = Preferences
                   /\ frameStored'["mode"] = wanted
           Told == mounted' => systemPrefersDark' = prefersDark'
                               /\ screenWidth' = Frame!WidthOf(innerWidth')
           System == UNCHANGED <<systemPrefersDark, screenWidth, prefersDark, innerWidth, mounted>>
<1>1. ASSUME Stay, Told, prefersDark' \in BOOLEAN, innerWidth' \in Nat PROVE FrameInv'
  BY <1>0, <1>1 DEF FrameInv
<1>2. ASSUME Stay, System PROVE FrameInv'
  <2>1. Told BY <1>0, <1>2 DEF Frame!WidthOf
  <2> QED BY <1>0, <1>1, <1>2, <2>1
<1>3. CASE Frame!Mount
  <2>1. /\ mounted' = TRUE /\ screenWidth' = Frame!WidthOf(innerWidth)
        /\ systemPrefersDark' = prefersDark
        /\ UNCHANGED <<frameStored, mode, wanted, prefersDark, innerWidth>>
    BY Zenon, <1>3 DEF Frame!Mount, Frame!osVars
  <2>2. Told BY <2>1 DEF Frame!WidthOf
  <2> QED BY <1>0, <1>1, <2>1, <2>2
<1>4. CASE Frame!SystemThemeChanges
  <2>1. /\ prefersDark' = ~prefersDark
        /\ systemPrefersDark' = IF mounted THEN prefersDark' ELSE systemPrefersDark
        /\ UNCHANGED <<frameStored, mode, wanted, screenWidth, innerWidth, mounted>>
    BY <1>4 DEF Frame!SystemThemeChanges
  <2>2. Told BY <1>0, <2>1 DEF Frame!WidthOf
  <2> QED BY <1>0, <1>1, <2>1, <2>2
<1>5. ASSUME NEW w \in InnerWidths, Frame!Resize(w) PROVE FrameInv'
  <2>1. /\ innerWidth' = w /\ screenWidth' = IF mounted THEN Frame!WidthOf(w) ELSE screenWidth
        /\ UNCHANGED <<frameStored, mode, wanted, systemPrefersDark, prefersDark, mounted>>
    BY <1>5 DEF Frame!Resize
  <2>2. w \in Nat
    <3>1. InnerWidths \subseteq Nat BY Zenon DEF Frame!FrameAssumption
    <3> QED BY <3>1
  <2>3. Told BY <1>0, <2>1 DEF Frame!WidthOf
  <2> QED BY <1>0, <1>1, <2>1, <2>2, <2>3
<1>6. ASSUME NEW m \in Frame!Modes, Frame!SetMode(m) PROVE FrameInv'
  <2>1. /\ mode' = m /\ wanted' = m /\ frameStored' = [frameStored EXCEPT !.mode = m] /\ System
    BY <1>6 DEF Frame!SetMode, Frame!osVars
  <2>2. Told BY <1>0, <2>1 DEF Frame!WidthOf
  <2>3. DOMAIN frameStored' = Preferences /\ frameStored'["mode"] = m
    BY <1>0, <2>1 DEF Preferences
  <2> QED BY <1>0, <2>1, <2>2, <2>3 DEF FrameInv
<1>7. CASE Frame!ToggleTheme
  BY <1>0, <1>6, <1>7, ModesAre DEF Frame!ToggleTheme
<1>8. ASSUME NEW n \in Names, Frame!ChooseName(n) PROVE FrameInv'
  <2>1. frameStored' = [frameStored EXCEPT !.name = n] /\ UNCHANGED <<mode, wanted>> /\ System
    BY <1>8 DEF Frame!ChooseName, Frame!osVars
  <2>2. Stay BY <1>0, <2>1 DEF Preferences
  <2> QED BY <1>2, <2>1, <2>2
<1>9. ASSUME NEW t \in Titles, Frame!ChangeTitle(t) PROVE FrameInv'
  <2>1. \E x : frameStored' = [frameStored EXCEPT !.title = x]
    BY Zenon, <1>9 DEF Frame!ChangeTitle
  <2>2. UNCHANGED <<mode, wanted>> /\ System
    BY Zenon, <1>9 DEF Frame!ChangeTitle, Frame!osVars
  <2>3. Stay BY <1>0, <2>1, <2>2 DEF Preferences
  <2> QED BY <1>2, <2>2, <2>3
<1>10. CASE Frame!Reload
  <2>1. /\ frameStored' = Frame!OpenedStore(frameStored) /\ mode' = Frame!OpenedMode(frameStored)
        /\ mounted' = FALSE /\ UNCHANGED <<prefersDark, innerWidth, wanted>>
    BY Zenon, <1>10 DEF Frame!Reload, Frame!Load, Frame!osVars
  <2>2. Frame!OpenedMode(frameStored) = wanted BY <1>0, ModeFound
  <2>3. Stay BY <1>0, <2>1, <2>2, OpenedIs
  <2> QED BY <1>0, <1>1, <2>1, <2>3
<1>11. CASE UNCHANGED Frame!vars
  <2>1. UNCHANGED <<frameStored, mode, wanted>> /\ System
    BY Zenon, <1>11 DEF Frame!vars, Frame!osVars
  <2>2. Stay BY <1>0, <2>1
  <2> QED BY <1>2, <2>1, <2>2
<1> QED BY Zenon, <1>3, <1>4, <1>5, <1>6, <1>7, <1>8, <1>9, <1>10, <1>11
        DEF Frame!Next, Frame!ChooseMode

LEMMA FrameMeans == FrameInv => Frame!ThemeKept
PROOF
<1> SUFFICES ASSUME FrameInv PROVE Frame!ThemeKept OBVIOUS
<1>1. mode = wanted /\ Frame!OpenedMode(frameStored) = wanted BY ModeFound DEF FrameInv
<1>2. ASSUME mounted
      PROVE  Frame!IsDarkMode = (wanted = "dark" \/ (wanted = "system" /\ prefersDark))
  <2>1. /\ systemPrefersDark = prefersDark
        /\ mode = wanted /\ prefersDark \in BOOLEAN
    BY <1>2 DEF FrameInv
  <2>2. CASE wanted = "system"
    <3>1. Frame!IsDarkMode = prefersDark BY <2>1, <2>2 DEF Frame!IsDarkMode
    <3>2. wanted # "dark" BY <2>2
    <3>3. CASE prefersDark BY Zenon, <2>1, <2>2, <3>1, <3>2, <3>3
    <3>4. CASE ~prefersDark BY Zenon, <2>1, <2>2, <3>1, <3>2, <3>4
    <3> QED BY <3>3, <3>4
  <2>3. CASE wanted # "system"
    BY <2>1, <2>3 DEF Frame!IsDarkMode
  <2> QED BY <2>2, <2>3
<1>3. ASSUME mounted PROVE Frame!IsNarrow = (innerWidth < 1024)
  <2>1. innerWidth \in Nat /\ screenWidth = Frame!WidthOf(innerWidth) BY <1>3 DEF FrameInv
  <2>2. CASE innerWidth < 1024
    <3>1. screenWidth \in {"xs", "sm", "md"} BY <2>1, <2>2 DEF Frame!WidthOf
    <3> QED BY <2>2, <3>1 DEF Frame!IsNarrow
  <2>3. CASE ~(innerWidth < 1024)
    <3>1. screenWidth \in {"lg", "xl", "2xl"} BY <2>1, <2>3 DEF Frame!WidthOf
    <3>2. screenWidth \notin {"xs", "sm", "md"} BY <3>1
    <3> QED BY <2>3, <3>2 DEF Frame!IsNarrow
  <2> QED BY <2>2, <2>3
<1> QED BY Zenon, <1>1, <1>2, <1>3 DEF Frame!ThemeKept

HIDE DEF frameStored, mode, systemPrefersDark, screenWidth, prefersDark, innerWidth, mounted, wanted

-----------------------------------------------------------------------------
(* The divider.                                                            *)

saved == v1
leftSize == v2
isDragging == v3
mouse == v4
touch == v5
left == v7
USE DEF saved, leftSize, isDragging, mouse, touch, left

SplitInv == Split!SizeKept /\ left = None

\* A size is brought within the bounds, and one within them is kept.
LEMMA ClampIs ==
  ASSUME Split!PanelsAssumption, NEW size \in Int
  PROVE  Split!Clamp(size) \in Split!Bounded
PROOF
<1>1. /\ minSize \in Int /\ minSize <= 100 - minSize
  BY DEF Split!PanelsAssumption
<1> DEFINE least == Split!Min({100 - minSize, size})
<1>2. least \in {100 - minSize, size} /\ least <= 100 - minSize
  <2>1. \E x \in {100 - minSize, size} : \A y \in {100 - minSize, size} : x =< y BY <1>1
  <2>2. least = CHOOSE x \in {100 - minSize, size} : \A y \in {100 - minSize, size} : x =< y
    BY DEF Split!Min
  <2> HIDE DEF least
  <2>3. least \in {100 - minSize, size} /\ \A y \in {100 - minSize, size} : least =< y
    BY <2>1, <2>2
  <2> QED BY <2>3
<1>3. Split!Clamp(size) = Split!Max({minSize, least}) BY DEF Split!Clamp
<1> HIDE DEF least
<1>4. least \in Int BY <1>1, <1>2
<1>5. Split!Max({minSize, least}) \in {minSize, least} /\ Split!Max({minSize, least}) >= minSize
  <2> DEFINE most == Split!Max({minSize, least})
  <2>1. \E x \in {minSize, least} : \A y \in {minSize, least} : x >= y BY <1>1, <1>4
  <2>2. most = CHOOSE x \in {minSize, least} : \A y \in {minSize, least} : x >= y
    BY DEF Split!Max
  <2> HIDE DEF most
  <2>3. most \in {minSize, least} /\ \A y \in {minSize, least} : most >= y BY <2>1, <2>2
  <2> QED BY <2>3 DEF most
<1> QED BY <1>1, <1>2, <1>3, <1>4, <1>5 DEF Split!Bounded

LEMMA LoadedIs ==
  ASSUME Split!PanelsAssumption
  PROVE  /\ \A s : Split!LoadedSize(s) \in Split!Bounded
         /\ \A s \in Split!Bounded : Split!LoadedSize(s) = s /\ s \in Int
PROOF
<1>1. defaultSize \in Split!Bounded BY DEF Split!PanelsAssumption, Split!Bounded
<1>2. \A s \in Split!Bounded : s \in Int BY DEF Split!PanelsAssumption, Split!Bounded
<1> QED BY <1>1, <1>2 DEF Split!LoadedSize

LEMMA SplitBegins == ASSUME Split!PanelsAssumption, Split!Init PROVE SplitInv
PROOF BY LoadedIs DEF Split!Init, SplitInv, Split!SizeKept

LEMMA SplitStays ==
  ASSUME Split!PanelsAssumption, SplitInv, [Split!Next]_(Split!vars)
  PROVE  SplitInv'
PROOF
<1> USE DEF SplitInv, Split!SizeKept
<1>0. leftSize \in Split!Bounded /\ left = None /\ (~isDragging => Split!LoadedSize(saved) = leftSize)
  OBVIOUS
<1>1. ASSUME left' = None, leftSize' \in Split!Bounded,
             ~isDragging' => Split!LoadedSize(saved') = leftSize'
      PROVE  SplitInv'
  BY <1>1 DEF Split!LoadedSize, Split!Bounded
<1> HIDE DEF SplitInv, Split!SizeKept
<1>2. CASE Split!HandleMouseDown
  BY <1>0, <1>1, <1>2 DEF Split!HandleMouseDown
<1>3. CASE Split!HandleTouchStart
  BY <1>0, <1>1, <1>3 DEF Split!HandleTouchStart
<1>4. CASE Split!TouchElsewhere \/ Split!TouchCancelled \/ UNCHANGED Split!vars
  <2>1. UNCHANGED <<saved, leftSize, isDragging, left>>
    BY <1>4 DEF Split!TouchElsewhere, Split!TouchCancelled, Split!vars
  <2> QED BY <1>0, <1>1, <2>1
<1>5. ASSUME NEW position \in Positions,
             Split!HandleMouseMove(position) \/ Split!HandleTouchMove(position)
      PROVE  SplitInv'
  <2>1. isDragging /\ leftSize' = Split!Clamp(position) /\ UNCHANGED <<isDragging, left>>
    BY <1>5 DEF Split!HandleMouseMove, Split!HandleTouchMove, Split!UpdateSize
  <2>2. position \in Int BY DEF Split!PanelsAssumption
  <2> QED BY <1>0, <1>1, <2>1, <2>2, ClampIs
<1>6. CASE Split!HandleMouseUp
  <2>1. saved' = leftSize /\ UNCHANGED <<leftSize, left>>
    BY <1>6 DEF Split!HandleMouseUp, Split!SaveSize
  <2> QED BY <1>0, <1>1, <2>1, LoadedIs
<1>7. CASE Split!HandleTouchEnd
  <2>1. UNCHANGED <<leftSize, left>> /\ (saved' = leftSize \/ UNCHANGED <<saved, isDragging>>)
    BY <1>7 DEF Split!HandleTouchEnd, Split!SaveSize
  <2> QED BY <1>0, <1>1, <2>1, LoadedIs
<1>8. ASSUME NEW delta \in {-Step, Step}, Split!HandleKeyDown(delta) PROVE SplitInv'
  <2>1. leftSize' = Split!Clamp(leftSize + delta) /\ saved' = leftSize' /\ UNCHANGED left
    BY <1>8 DEF Split!HandleKeyDown
  <2>2. leftSize \in Int /\ Step \in Int BY <1>0, LoadedIs DEF Split!PanelsAssumption
  <2>3. leftSize + delta \in Int BY <2>2
  <2> HIDE DEF leftSize, saved
  <2> QED BY <1>0, <1>1, <2>1, <2>3, ClampIs, LoadedIs
<1>9. CASE Split!Remount
  <2>1. left' = None /\ leftSize' = Split!LoadedSize(saved) /\ UNCHANGED saved
    BY <1>9 DEF Split!Remount
  <2> QED BY <1>1, <2>1, LoadedIs
<1>10. ~Split!LeftDragEnds BY <1>0 DEF Split!LeftDragEnds
<1> QED BY Zenon, <1>2, <1>3, <1>4, <1>5, <1>6, <1>7, <1>8, <1>9, <1>10 DEF Split!Next

HIDE DEF saved, leftSize, isDragging, mouse, touch, left

-----------------------------------------------------------------------------
(* The captures.                                                           *)

selectedCapture == v3
dialogOpen == v4
reqBodyTab == v5
respBodyTab == v6
USE DEF selectedCapture, dialogOpen, reqBodyTab, respBodyTab

\* While a capture is in the dialog, each tab is one of its own.
ViewerInv ==
  dialogOpen /\ selectedCapture # NotFound =>
    /\ selectedCapture \in Captures
    /\ Viewer!RequestTabs(selectedCapture) # {} => reqBodyTab \in Viewer!RequestTabs(selectedCapture)
    /\ Viewer!ResponseTabs(selectedCapture) # {} =>
         respBodyTab \in Viewer!ResponseTabs(selectedCapture)
    /\ Viewer!ResponseTabs(selectedCapture) = {} => respBodyTab = "raw"

LEMMA TabsAre ==
  ASSUME NEW c
  PROVE  /\ Viewer!RequestTabs(c) # {} => (IF c.request = "json" THEN "pretty" ELSE "raw") \in Viewer!RequestTabs(c)
         /\ c.response = "sse" => Viewer!ResponseTabs(c) = {"chat", "raw"}
         /\ c.response = "json" => Viewer!ResponseTabs(c) = {"pretty", "raw"}
         /\ c.response \notin {"sse", "json"} => Viewer!ResponseTabs(c) = {}
PROOF BY DEF Viewer!RequestTabs, Viewer!ResponseTabs

LEMMA ViewerBegins == ASSUME Viewer!Init PROVE ViewerInv
PROOF BY DEF Viewer!Init, ViewerInv

LEMMA ViewerStays == ASSUME ViewerInv, [Viewer!Next]_(Viewer!vars) PROVE ViewerInv'
PROOF
<1>1. ASSUME UNCHANGED <<selectedCapture, dialogOpen, reqBodyTab, respBodyTab>> PROVE ViewerInv'
  BY <1>1 DEF ViewerInv, Viewer!RequestTabs, Viewer!ResponseTabs
<1>2. ASSUME NEW i \in DOMAIN v1, Viewer!Loaded(i) PROVE ViewerInv'
  <2>1. PICK c \in {d \in Captures : d.id = v1[i]} \cup {NotFound} :
          selectedCapture' = c /\ Viewer!ResetTabs(c)
    BY Zenon, <1>2 DEF Viewer!Loaded
  <2>2. CASE c = NotFound BY <2>1, <2>2 DEF ViewerInv
  <2>3. CASE c # NotFound
    <3>1. /\ reqBodyTab' = IF c.request = "json" THEN "pretty" ELSE "raw"
          /\ respBodyTab' = CASE c.response = "sse" -> "chat" [] c.response = "json" -> "pretty"
                              [] OTHER -> "raw"
      BY Zenon, <2>1, <2>3 DEF Viewer!ResetTabs
    <3>2. /\ Viewer!ResponseTabs(c) # {} => respBodyTab' \in Viewer!ResponseTabs(c)
          /\ Viewer!ResponseTabs(c) = {} => respBodyTab' = "raw"
      <4>1. CASE c.response = "sse" BY <3>1, <4>1, TabsAre
      <4>2. CASE c.response = "json" BY <3>1, <4>2, TabsAre
      <4>3. CASE c.response \notin {"sse", "json"} BY <3>1, <4>3, TabsAre
      <4> QED BY <4>1, <4>2, <4>3
    <3>3. Viewer!RequestTabs(c) # {} => reqBodyTab' \in Viewer!RequestTabs(c) BY <3>1, TabsAre
    <3> QED BY <2>1, <3>2, <3>3 DEF ViewerInv, Viewer!RequestTabs, Viewer!ResponseTabs
  <2> QED BY <2>2, <2>3
<1>3. CASE Viewer!CloseDialog BY <1>3 DEF Viewer!CloseDialog, ViewerInv
<1>4. CASE Viewer!ChooseTab
  BY <1>4 DEF Viewer!ChooseTab, Viewer!Showing, ViewerInv, Viewer!RequestTabs, Viewer!ResponseTabs
<1>5. ASSUME NEW id, Viewer!ViewCapture(id) \/ Viewer!CancelInflight(id) \/ Viewer!CancelSettled(id)
      PROVE  ViewerInv'
  BY <1>1, <1>5 DEF Viewer!ViewCapture, Viewer!CancelInflight, Viewer!CancelSettled, Viewer!dialog
<1>6. ASSUME NEW body, Viewer!Copy(body) PROVE ViewerInv'
  BY <1>1, <1>6 DEF Viewer!Copy, Viewer!dialog
<1>7. CASE Viewer!CopiedTimeout BY <1>1, <1>7 DEF Viewer!CopiedTimeout, Viewer!dialog
<1>8. CASE UNCHANGED Viewer!vars BY <1>1, <1>8 DEF Viewer!vars, Viewer!dialog
<1> QED BY Zenon, <1>2, <1>3, <1>4, <1>5, <1>6, <1>7, <1>8 DEF Viewer!Next

LEMMA ViewerMeans ==
  ASSUME Viewer!CaptureAssumption
  PROVE  ViewerInv => Viewer!ShownAsWhatItIs
PROOF
<1> SUFFICES ASSUME ViewerInv, Viewer!Showing PROVE Viewer!ShownAsWhatItIs
  BY DEF Viewer!ShownAsWhatItIs
<1> DEFINE c == selectedCapture
           form == Viewer!ResponseShown(c, respBodyTab).form
<1>1. /\ Viewer!RequestTabs(c) # {} => reqBodyTab \in Viewer!RequestTabs(c)
      /\ Viewer!ResponseTabs(c) # {} => respBodyTab \in Viewer!ResponseTabs(c)
      /\ Viewer!ResponseTabs(c) = {} => respBodyTab = "raw"
  BY DEF ViewerInv, Viewer!Showing
<1>2. ASSUME form \in {"chat", "pretty"} PROVE form \in Viewer!ResponseTabs(c)
  <2>1. c.response \in {"sse", "json", "text", "image", "other", "none"}
    BY DEF ViewerInv, Viewer!Showing, Viewer!CaptureAssumption
  <2> HIDE DEF c
  <2>2. CASE c.response = "image" BY <1>2, <2>2 DEF Viewer!ResponseShown
  <2>3. CASE c.response = "other" BY <1>2, <2>3 DEF Viewer!ResponseShown
  <2>4. CASE c.response = "none" BY <1>2, <2>4 DEF Viewer!ResponseShown
  <2>5. CASE c.response = "text"
    <3>1. respBodyTab = "raw" BY <1>1, <2>5, TabsAre
    <3> QED BY <1>2, <2>5, <3>1 DEF Viewer!ResponseShown
  <2>6. CASE c.response = "json"
    <3>1. respBodyTab \in {"pretty", "raw"} /\ "pretty" \in Viewer!ResponseTabs(c)
      BY <1>1, <2>6, TabsAre
    <3> QED BY <1>2, <2>6, <3>1 DEF Viewer!ResponseShown
  <2>7. CASE c.response = "sse"
    <3>1. respBodyTab \in {"chat", "raw"} /\ "chat" \in Viewer!ResponseTabs(c)
      BY <1>1, <2>7, TabsAre
    <3> QED BY <1>2, <2>7, <3>1 DEF Viewer!ResponseShown
  <2> QED BY <2>1, <2>2, <2>3, <2>4, <2>5, <2>6, <2>7
<1> QED BY <1>1, <1>2 DEF Viewer!ShownAsWhatItIs

HIDE DEF selectedCapture, dialogOpen, reqBodyTab, respBodyTab

-----------------------------------------------------------------------------
(* The cache of captures.                                                  *)

items == v1
order == v2
size == v3
added == v4
USE DEF items, order, size, added

\* f gives the bytes of the first ids of w.
Sums(f, w, held) ==
  /\ f \in [0..Len(w) -> Nat] /\ f[0] = 0
  /\ \A n \in 1..Len(w) : f[n] = f[n - 1] + held[w[n]]

LEMMA SumsExist ==
  ASSUME NEW S, NEW w \in Seq(S), NEW held, \A n \in 1..Len(w) : held[w[n]] \in Nat
  PROVE  \E f : Sums(f, w, held)
PROOF
<1> DEFINE c == Len(w)
           Upto(f, m) == f[0] = 0 /\ \A n \in 1..m : f[n] = f[n - 1] + held[w[n]]
           T == {m \in 0..c : \E f \in [0..c -> Nat] : Upto(f, m)}
<1>1. c \in Nat /\ \A n \in 1..c : held[w[n]] \in Nat OBVIOUS
<1> HIDE DEF c
<1>2. 0 \in T
  <2> DEFINE z == [n \in 0..c |-> 0]
  <2>1. z \in [0..c -> Nat] /\ z[0] = 0 /\ 0 \in 0..c BY <1>1
  <2> HIDE DEF z
  <2>2. Upto(z, 0) BY <2>1
  <2> QED BY <2>1, <2>2
<1>3. ASSUME NEW m \in 0..(c - 1), m \in T PROVE m + 1 \in T
  <2>1. PICK f \in [0..c -> Nat] : Upto(f, m) BY <1>3
  <2> DEFINE next == f[m] + held[w[m + 1]]
             g == [f EXCEPT ![m + 1] = next]
  <2>2. next \in Nat /\ m + 1 \in 1..c /\ m + 1 \in 0..c
    <3>1. m + 1 \in 1..c /\ m \in 0..c /\ m + 1 \in 0..c BY <1>1
    <3>2. f[m] \in Nat /\ held[w[m + 1]] \in Nat BY <1>1, <2>1, <3>1
    <3> QED BY <3>1, <3>2
  <2> HIDE DEF next
  <2>3. g \in [0..c -> Nat] /\ g[m + 1] = next /\ \A n \in 0..m : g[n] = f[n] BY <1>1, <2>1, <2>2
  <2> HIDE DEF g
  <2>4. ASSUME NEW n \in 1..(m + 1) PROVE g[n] = g[n - 1] + held[w[n]]
    <3>1. CASE n = m + 1
      <4>1. (m + 1) - 1 = m /\ m \in 0..m BY <1>1
      <4> QED BY <2>3, <3>1, <4>1 DEF next
    <3>2. CASE n \in 1..m
      <4>1. n \in 0..m /\ n - 1 \in 0..m BY <3>2
      <4>2. f[n] = f[n - 1] + held[w[n]] BY <2>1, <3>2
      <4> QED BY <2>3, <4>1, <4>2
    <3> QED BY <1>1, <3>1, <3>2
  <2>5. g[0] = 0 BY <1>1, <2>1, <2>3
  <2> HIDE DEF Upto
  <2>6. Upto(g, m + 1) BY <2>4, <2>5 DEF Upto
  <2> QED BY <2>2, <2>3, <2>6
<1>4. c \in T
  <2> HIDE DEF T
  <2>1. 0..c \subseteq T BY <1>1, <1>2, <1>3, Induct
  <2> QED BY <1>1, <2>1
<1> QED BY <1>4 DEF c, Sums

\* Bytes is the last of them.
LEMMA BytesIs ==
  ASSUME NEW w, Len(w) \in Nat, NEW held, NEW f, Sums(f, w, held)
  PROVE  Cache!Bytes(w, held) = f[Len(w)]
PROOF
<1> DEFINE c == Len(w)
           body(g) == [n \in 0..c |-> IF n = 0 THEN 0 ELSE g[n - 1] + held[w[n]]]
           sum == CHOOSE g : g = body(g)
<1>1. f = body(f)
  <2>1. f \in [0..c -> Nat] /\ \A n \in 0..c : f[n] = body(f)[n] BY DEF Sums
  <2> HIDE DEF body
  <2>2. DOMAIN body(f) = 0..c BY DEF body
  <2>3. body(f) = [n \in 0..c |-> body(f)[n]] BY DEF body
  <2> QED BY <2>1, <2>3
<1>2. sum = body(sum)
  <2> HIDE DEF body
  <2> QED BY <1>1
<1> HIDE DEF sum
<1> DEFINE E == {n \in 0..c : sum[n] = f[n]}
<1>3. sum[0] = 0 /\ \A n \in 1..c : sum[n] = sum[n - 1] + held[w[n]]
  <2>1. \A n \in 0..c : body(sum)[n] = IF n = 0 THEN 0 ELSE sum[n - 1] + held[w[n]] OBVIOUS
  <2> HIDE DEF body
  <2> QED BY <1>2, <2>1
<1> HIDE DEF body
<1>4. 0..c \subseteq E
  <2>1. 0 \in E BY <1>3 DEF Sums
  <2>2. ASSUME NEW n \in 0..(c - 1), n \in E PROVE n + 1 \in E
    <3>1. n + 1 \in 1..c /\ (n + 1) - 1 = n /\ n + 1 \in 0..c OBVIOUS
    <3>2. sum[n + 1] = sum[(n + 1) - 1] + held[w[n + 1]] BY <1>3, <3>1
    <3>3. f[n + 1] = f[(n + 1) - 1] + held[w[n + 1]] BY <3>1 DEF Sums
    <3> QED BY <2>2, <3>1, <3>2, <3>3
  <2> HIDE DEF E
  <2> QED BY <2>1, <2>2, Induct
<1>5. Cache!Bytes(w, held) = sum[c] BY Zenon DEF Cache!Bytes, sum, body
<1> QED BY <1>4, <1>5

\* The bytes of a beginning.
LEMMA BytesOfFirst ==
  ASSUME NEW S, NEW w \in Seq(S), NEW held, NEW f, Sums(f, w, held), NEW m \in 0..Len(w)
  PROVE  Cache!Bytes(SubSeq(w, 1, m), held) = f[m]
PROOF
<1> DEFINE u == SubSeq(w, 1, m)
           g == [n \in 0..m |-> f[n]]
<1>1. Len(u) = m /\ Len(u) \in Nat /\ \A n \in 1..m : u[n] = w[n] OBVIOUS
<1> HIDE DEF u
<1>2. Sums(g, u, held)
  <2>1. 0..m \subseteq 0..Len(w) /\ 1..m \subseteq 1..Len(w) /\ 0 \in 0..m
        /\ \A n \in 1..m : n \in 0..m /\ n - 1 \in 0..m
    OBVIOUS
  <2>2. g \in [0..m -> Nat] /\ g[0] = 0 BY <2>1 DEF Sums
  <2>3. \A n \in 1..m : g[n] = f[n] /\ g[n - 1] = f[n - 1] BY <2>1
  <2> HIDE DEF g
  <2> QED BY <1>1, <2>1, <2>2, <2>3 DEF Sums
<1>3. Cache!Bytes(u, held) = g[Len(u)] BY <1>1, <1>2, BytesIs
<1>4. g[m] = f[m] OBVIOUS
<1> QED BY <1>1, <1>3, <1>4 DEF u

\* Where two sequences have the same bytes, their sums grow alike.
Alike(w, held, a, u, paid, b, c) ==
  /\ a \in Nat /\ b \in Nat /\ c \in Nat /\ Len(w) \in Nat /\ Len(u) \in Nat
  /\ a + c <= Len(w) /\ b + c <= Len(u)
  /\ \A k \in 1..c : paid[u[b + k]] = held[w[a + k]] /\ held[w[a + k]] \in Nat
GrowAlike(f, a, g, b, c) == g[b + c] - g[b] = f[a + c] - f[a]

LEMMA SumsAlike ==
  ASSUME NEW w, NEW held, NEW f, Sums(f, w, held), NEW u, NEW paid, NEW g, Sums(g, u, paid),
         NEW a, NEW b, NEW c, Alike(w, held, a, u, paid, b, c)
  PROVE  GrowAlike(f, a, g, b, c)
PROOF
<1> USE DEF Alike
<1> DEFINE T == {k \in 0..c : g[b + k] - g[b] = f[a + k] - f[a]}
<1>1. /\ \A k \in 0..c : a + k \in 0..Len(w) /\ b + k \in 0..Len(u)
      /\ \A k \in 1..c : a + k \in 1..Len(w) /\ b + k \in 1..Len(u)
  OBVIOUS
<1>2. \A k \in 0..c : f[a + k] \in Nat /\ g[b + k] \in Nat BY <1>1 DEF Sums
<1>3. a + 0 = a /\ b + 0 = b /\ 0 \in 0..c OBVIOUS
<1>4. /\ \A n \in 1..Len(w) : f[n] = f[n - 1] + held[w[n]]
      /\ \A n \in 1..Len(u) : g[n] = g[n - 1] + paid[u[n]]
  BY DEF Sums
<1>5. f[a] \in Nat /\ g[b] \in Nat BY <1>2, <1>3
<1>6. 0 \in T BY <1>3, <1>5
<1>7. ASSUME NEW k \in 0..(c - 1), k \in T PROVE k + 1 \in T
  <2>1. k + 1 \in 1..c /\ k \in 0..c /\ k + 1 \in 0..c /\ a + (k + 1) - 1 = a + k /\ b + (k + 1) - 1 = b + k
    OBVIOUS
  <2>2. g[b + (k + 1)] = g[b + k] + paid[u[b + (k + 1)]]
    <3>1. b + (k + 1) \in 1..Len(u) BY Zenon, <1>1, <2>1
    <3>2. g[b + (k + 1)] = g[b + (k + 1) - 1] + paid[u[b + (k + 1)]] BY <1>4, <3>1
    <3> QED BY Zenon, <2>1, <3>2
  <2>3. f[a + (k + 1)] = f[a + k] + held[w[a + (k + 1)]]
    <3>1. a + (k + 1) \in 1..Len(w) BY Zenon, <1>1, <2>1
    <3>2. f[a + (k + 1)] = f[a + (k + 1) - 1] + held[w[a + (k + 1)]] BY <1>4, <3>1
    <3> QED BY Zenon, <2>1, <3>2
  <2>4. paid[u[b + (k + 1)]] = held[w[a + (k + 1)]] /\ held[w[a + (k + 1)]] \in Nat BY <2>1
  <2>5. g[b + k] - g[b] = f[a + k] - f[a] BY <1>7
  <2>6. /\ f[a + k] \in Nat /\ f[a + (k + 1)] \in Nat /\ g[b + k] \in Nat /\ g[b + (k + 1)] \in Nat
    BY <1>2, <2>1
  <2> DEFINE x == held[w[a + (k + 1)]]
             y == g[b + k]
             z == f[a + k]
  <2>7. g[b + (k + 1)] = y + x /\ f[a + (k + 1)] = z + x BY <2>2, <2>3, <2>4
  <2>8. x \in Nat /\ y \in Nat /\ z \in Nat /\ y - g[b] = z - f[a] BY <2>4, <2>5, <2>6
  <2>9. (y + x) - g[b] = (z + x) - f[a]
    <3> DEFINE d == g[b]
               e == f[a]
    <3>1. /\ x \in Nat /\ y \in Nat /\ z \in Nat /\ d \in Nat /\ e \in Nat
          /\ y - d = z - e
      BY <1>5, <2>8
    <3> HIDE DEF x, y, z, d, e
    <3>2. (y + x) - d = (z + x) - e BY ONLY <3>1
    <3> QED BY <3>2 DEF d, e
  <2> QED BY <2>1, <2>7, <2>9
<1>8. c \in T
  <2> HIDE DEF T
  <2>1. 0..c \subseteq T BY <1>6, <1>7, Induct
  <2> QED BY <2>1
<1> QED BY <1>8 DEF GrowAlike

\* u are ids that are held, none of them id, and at says where they were added: what came
\* later is of id or of u.
Behind(u, at, id) ==
  /\ u \in Seq(CacheIds) /\ at \in [1..Len(u) -> 1..Len(added)]
  /\ \A k \in 1..Len(u) : u[k] # id /\ added[at[k]] = <<u[k], items[u[k]]>>
  /\ \A k, l \in 1..Len(u) : k < l => at[k] < at[l]
  /\ \A k \in 1..Len(u) : \A n \in 1..Len(added) :
       n > at[k] => /\ added[n][1] # u[k]
                    /\ added[n][1] = id \/ \E j \in 1..Len(u) : u[j] = added[n][1]

CacheInv == Cache!TypeOK /\ Cache!HoldsLatest

\* What the cache holds, spelled out.
LEMMA HeldIs ==
  ASSUME Cache!CacheAssumption, CacheInv
  PROVE  /\ order \in Seq(CacheIds) /\ Len(order) \in Nat /\ DOMAIN order = 1..Len(order)
         /\ added \in Seq(CacheIds \X CacheSizes) /\ Len(added) \in Nat
         /\ DOMAIN added = 1..Len(added)
         /\ \A k, l \in 1..Len(order) : order[k] = order[l] => k = l
         /\ \A k \in 1..Len(order) : order[k] \in DOMAIN items /\ items[order[k]] \in Nat
         /\ \A x : x \in DOMAIN items <=> \E k \in 1..Len(order) : order[k] = x
         /\ size = Cache!Bytes(order, items)
         /\ \E at \in [1..Len(order) -> 1..Len(added)] : \A k \in 1..Len(order) :
              /\ added[at[k]] = <<order[k], items[order[k]]>>
              /\ \A l \in 1..Len(order) : k < l => at[k] < at[l]
              /\ \A n \in 1..Len(added) : n > at[k] =>
                   added[n][1] # order[k] /\ \E j \in 1..Len(order) : order[j] = added[n][1]
PROOF
<1>1. /\ order \in Seq(CacheIds) /\ Len(order) \in Nat /\ DOMAIN order = 1..Len(order)
      /\ added \in Seq(CacheIds \X CacheSizes) /\ Len(added) \in Nat
      /\ DOMAIN added = 1..Len(added)
  BY DEF CacheInv, Cache!TypeOK
<1>2. Cache!Range(order) = {order[k] : k \in 1..Len(order)}
  BY <1>1 DEF Cache!Range
<1>3. \A k, l \in 1..Len(order) : order[k] = order[l] => k = l
  BY <1>1 DEF CacheInv, Cache!HoldsLatest, Cache!IsInjective
<1>4. \A x : x \in DOMAIN items <=> \E k \in 1..Len(order) : order[k] = x
  <2>1. DOMAIN items = {order[k] : k \in 1..Len(order)}
    BY <1>2 DEF CacheInv, Cache!HoldsLatest
  <2> QED BY <2>1
<1>5. \A k \in 1..Len(order) : order[k] \in DOMAIN items /\ items[order[k]] \in Nat
  <2>1. \A x \in DOMAIN items : items[x] \in Nat
    BY DEF CacheInv, Cache!TypeOK, Cache!CacheAssumption
  <2> QED BY <1>4, <2>1
<1>6. PICK at \in [DOMAIN order -> DOMAIN added] : \A k \in DOMAIN order :
         /\ added[at[k]] = <<order[k], items[order[k]]>>
         /\ \A l \in DOMAIN order : k < l => at[k] < at[l]
         /\ \A n \in DOMAIN added :
              n > at[k] => added[n][1] # order[k] /\ added[n][1] \in Cache!Range(order)
  BY Zenon DEF CacheInv, Cache!HoldsLatest
<1>7. size = Cache!Bytes(order, items) BY DEF CacheInv, Cache!HoldsLatest
<1>8. \A x \in Cache!Range(order) : \E j \in 1..Len(order) : order[j] = x BY <1>2
<1>9. \E h \in [1..Len(order) -> 1..Len(added)] : \A k \in 1..Len(order) :
              /\ added[h[k]] = <<order[k], items[order[k]]>>
              /\ \A l \in 1..Len(order) : k < l => h[k] < h[l]
              /\ \A n \in 1..Len(added) : n > h[k] =>
                   added[n][1] # order[k] /\ \E j \in 1..Len(order) : order[j] = added[n][1]
  <2>1. at \in [1..Len(order) -> 1..Len(added)] BY <1>1, <1>6
  <2>2. ASSUME NEW k \in 1..Len(order)
        PROVE  /\ added[at[k]] = <<order[k], items[order[k]]>>
               /\ \A l \in 1..Len(order) : k < l => at[k] < at[l]
               /\ \A n \in 1..Len(added) : n > at[k] =>
                    added[n][1] # order[k] /\ \E j \in 1..Len(order) : order[j] = added[n][1]
    <3>1. added[at[k]] = <<order[k], items[order[k]]>> BY Zenon, <1>1, <1>6
    <3>2. \A l \in 1..Len(order) : k < l => at[k] < at[l] BY Zenon, <1>1, <1>6
    <3>3. ASSUME NEW n \in 1..Len(added), n > at[k]
          PROVE  added[n][1] # order[k] /\ \E j \in 1..Len(order) : order[j] = added[n][1]
      <4>1. added[n][1] # order[k] /\ added[n][1] \in Cache!Range(order) BY Zenon, <1>1, <1>6, <3>3
      <4> QED BY Zenon, <1>8, <4>1
    <3> QED BY Zenon, <3>1, <3>2, <3>3
  <2> QED BY Zenon, <2>1, <2>2
<1> QED BY Zenon, <1>1, <1>3, <1>4, <1>5, <1>7, <1>9

\* What is held for the id goes.
LEMMA OthersHeld ==
  ASSUME Cache!CacheAssumption, CacheInv, NEW id
  PROVE  /\ \E at : Behind(Cache!Others(id), at, id)
         /\ size - (IF id \in DOMAIN items THEN items[id] ELSE 0) = Cache!Bytes(Cache!Others(id), items)
         /\ \A k \in 1..Len(Cache!Others(id)) : items[Cache!Others(id)[k]] \in Nat
PROOF
<1> DEFINE u == Cache!Others(id)
           c == Len(order)
<1>1. /\ order \in Seq(CacheIds) /\ c \in Nat /\ Len(added) \in Nat
      /\ \A k, l \in 1..c : order[k] = order[l] => k = l
      /\ \A k \in 1..c : items[order[k]] \in Nat
      /\ \A x : x \in DOMAIN items <=> \E k \in 1..c : order[k] = x
      /\ size = Cache!Bytes(order, items)
  BY HeldIs
<1>2. PICK at \in [1..c -> 1..Len(added)] : \A k \in 1..c :
         /\ added[at[k]] = <<order[k], items[order[k]]>>
         /\ \A l \in 1..c : k < l => at[k] < at[l]
         /\ \A n \in 1..Len(added) : n > at[k] =>
              added[n][1] # order[k] /\ \E j \in 1..c : order[j] = added[n][1]
  BY Zenon, HeldIs
<1>3. Cache!Range(order) = {order[k] : k \in 1..c} BY <1>1 DEF Cache!Range
<1>4. CASE id \notin Cache!Range(order)
  <2>1. u = order BY <1>4 DEF Cache!Others
  <2>2. \A k \in 1..c : order[k] # id BY <1>3, <1>4
  <2>3. id \notin DOMAIN items BY <1>1, <2>2
  <2>4. Behind(order, at, id) BY Zenon, <1>1, <1>2, <2>2 DEF Behind
  <2>5. size \in Int
    <3>1. PICK f : Sums(f, order, items) BY <1>1, SumsExist
    <3>2. f[c] \in Nat BY <1>1, <3>1 DEF Sums
    <3> QED BY <1>1, <3>1, <3>2, BytesIs
  <2>6. size - 0 = Cache!Bytes(order, items) BY <1>1, <2>5
  <2> QED BY <1>1, <2>1, <2>3, <2>4, <2>6
<1>5. CASE id \in Cache!Range(order)
  <2>1. \E i \in DOMAIN order : order[i] = id BY <1>1, <1>3, <1>5
  <2> DEFINE i == CHOOSE j \in DOMAIN order : order[j] = id
             from(k) == IF k < i THEN k ELSE k + 1
             to == [k \in 1..(c - 1) |-> at[from(k)]]
  <2>2. i \in 1..c /\ order[i] = id BY <1>1, <2>1
  <2>3. u = RemoveAt(order, i) BY <1>5 DEF Cache!Others, RemoveAt
  <2> HIDE DEF i, u
  <2>4. /\ u \in Seq(CacheIds) /\ Len(u) = c - 1
        /\ \A k \in 1..(c - 1) : u[k] = order[IF k < i THEN k ELSE k + 1]
    <3> DEFINE w == RemoveAt(order, i)
    <3>1. /\ w \in Seq(CacheIds) /\ Len(w) = Len(order) - 1
          /\ \A k \in 1..(Len(order) - 1) : w[k] = order[IF k < i THEN k ELSE k + 1]
      BY Zenon, <1>1, <2>2, WithoutOne
    <3> QED BY <2>3, <3>1
  <2>5. \A k \in 1..(c - 1) : u[k] = order[from(k)] BY <2>4
  <2>6. /\ \A k \in 1..(c - 1) : from(k) \in 1..c /\ from(k) # i
        /\ \A k, l \in 1..(c - 1) : k < l => from(k) < from(l)
    BY <1>1, <2>2
  <2>7. \A j \in 1..c : j # i => \E k \in 1..(c - 1) : from(k) = j
    <3> SUFFICES ASSUME NEW j \in 1..c, j # i PROVE \E k \in 1..(c - 1) : from(k) = j OBVIOUS
    <3>1. CASE j < i
      <4>1. j \in 1..(c - 1) /\ from(j) = j BY <1>1, <2>2, <3>1
      <4> QED BY <4>1
    <3>2. CASE ~(j < i)
      <4>1. j - 1 \in 1..(c - 1) /\ from(j - 1) = j BY <1>1, <2>2, <3>2
      <4> QED BY <4>1
    <3> QED BY <3>1, <3>2
  <2> HIDE DEF from
  <2>8. Behind(u, to, id)
    <3>1. to \in [1..Len(u) -> 1..Len(added)] /\ \A k \in 1..(c - 1) : to[k] = at[from(k)]
      BY <1>2, <2>4, <2>6
    <3> HIDE DEF to
    <3>2. ASSUME NEW k \in 1..(c - 1)
          PROVE  u[k] # id /\ added[to[k]] = <<u[k], items[u[k]]>>
      <4>1. order[from(k)] # id BY <1>1, <2>2, <2>6
      <4>2. added[at[from(k)]] = <<order[from(k)], items[order[from(k)]]>> BY Zenon, <1>2, <2>6
      <4> QED BY Zenon, <2>5, <3>1, <4>1, <4>2
    <3>3. ASSUME NEW k \in 1..(c - 1), NEW l \in 1..(c - 1), k < l
          PROVE  to[k] < to[l]
      <4>1. from(k) \in 1..c /\ from(l) \in 1..c /\ from(k) < from(l) BY <2>6, <3>3
      <4>2. at[from(k)] < at[from(l)] BY Zenon, <1>2, <4>1
      <4> QED BY Zenon, <3>1, <4>2
    <3>4. ASSUME NEW k \in 1..(c - 1), NEW n \in 1..Len(added), n > to[k]
          PROVE  /\ added[n][1] # u[k]
                 /\ added[n][1] = id \/ \E j \in 1..(c - 1) : u[j] = added[n][1]
      <4>1. n > at[from(k)] /\ from(k) \in 1..c BY <2>6, <3>1, <3>4
      <4>2. added[n][1] # order[from(k)] /\ \E j \in 1..c : order[j] = added[n][1]
        BY Zenon, <1>2, <4>1
      <4>3. PICK j \in 1..c : order[j] = added[n][1] BY <4>2
      <4>4. CASE j = i BY <2>2, <2>5, <4>2, <4>3, <4>4
      <4>5. CASE j # i
        <5>1. PICK q \in 1..(c - 1) : from(q) = j BY <2>7, <4>5
        <5>2. u[q] = added[n][1] BY <2>5, <4>3, <5>1
        <5> QED BY <2>5, <4>2, <5>2
      <4> QED BY <4>4, <4>5
    <3>5. 1..Len(u) = 1..(c - 1) BY <2>4
    <3> QED BY Zenon, <2>4, <3>1, <3>2, <3>3, <3>4, <3>5 DEF Behind
  <2>9. \A k \in 1..Len(u) : items[u[k]] \in Nat BY <1>1, <2>4, <2>5, <2>6
  <2>10. size - items[id] = Cache!Bytes(u, items)
    <3>1. PICK f : Sums(f, order, items) BY <1>1, SumsExist
    <3>2. PICK g : Sums(g, u, items) BY <2>4, <2>9, SumsExist
    <3>3. GrowAlike(f, 0, g, 0, i - 1)
      <4>1. 0 \in Nat /\ i - 1 \in Nat /\ 0 + (i - 1) <= c /\ 0 + (i - 1) <= Len(u) /\ Len(u) \in Nat
        BY <1>1, <2>2, <2>4
      <4>2. \A k \in 1..(i - 1) : items[u[0 + k]] = items[order[0 + k]] /\ items[order[0 + k]] \in Nat
        <5> SUFFICES ASSUME NEW k \in 1..(i - 1)
                     PROVE  items[u[0 + k]] = items[order[0 + k]] /\ items[order[0 + k]] \in Nat
          OBVIOUS
        <5>1. 0 + k = k /\ k \in 1..(c - 1) /\ k \in 1..c /\ k < i BY <1>1, <2>2
        <5> QED BY <1>1, <2>4, <5>1
      <4>3. Alike(order, items, 0, u, items, 0, i - 1) BY <1>1, <4>1, <4>2 DEF Alike
      <4> QED BY Zenon, <3>1, <3>2, <4>3, SumsAlike
    <3>4. GrowAlike(f, i, g, i - 1, c - i)
      <4>1. /\ i - 1 \in Nat /\ i \in Nat /\ c - i \in Nat /\ i + (c - i) <= c
            /\ (i - 1) + (c - i) <= Len(u) /\ Len(u) \in Nat
        BY <1>1, <2>2, <2>4
      <4>2. \A k \in 1..(c - i) :
              items[u[(i - 1) + k]] = items[order[i + k]] /\ items[order[i + k]] \in Nat
        <5> SUFFICES ASSUME NEW k \in 1..(c - i)
              PROVE items[u[(i - 1) + k]] = items[order[i + k]] /\ items[order[i + k]] \in Nat
          OBVIOUS
        <5>1. /\ (i - 1) + k \in 1..(c - 1) /\ i + k \in 1..c /\ ~((i - 1) + k < i)
              /\ ((i - 1) + k) + 1 = i + k
          BY <1>1, <2>2
        <5>2. u[(i - 1) + k] = order[i + k] BY <2>4, <5>1
        <5> QED BY <1>1, <5>1, <5>2
      <4>3. Alike(order, items, i, u, items, i - 1, c - i) BY <1>1, <4>1, <4>2 DEF Alike
      <4> QED BY Zenon, <3>1, <3>2, <4>3, SumsAlike
    <3>5. f[i] = f[i - 1] + items[id] BY <2>2, <3>1 DEF Sums
    <3>6. /\ 0 + (i - 1) = i - 1 /\ (i - 1) + (c - i) = c - 1 /\ i + (c - i) = c
          /\ i - 1 \in 0..c /\ i \in 0..c /\ c \in 0..c /\ i - 1 \in 0..(c - 1) /\ c - 1 \in 0..(c - 1)
      <4>1. i \in Nat /\ c \in Nat /\ 1 <= i /\ i <= c BY <1>1, <2>2
      <4> HIDE DEF c
      <4>2. 0 + (i - 1) = i - 1 /\ (i - 1) + (c - i) = c - 1 /\ i + (c - i) = c BY <4>1
      <4>3. i - 1 \in 0..c /\ i \in 0..c /\ c \in 0..c BY <4>1
      <4>4. i - 1 \in 0..(c - 1) /\ c - 1 \in 0..(c - 1) BY <4>1
      <4> QED BY <4>2, <4>3, <4>4
    <3>7. /\ f[i - 1] \in Nat /\ f[i] \in Nat /\ f[c] \in Nat /\ g[i - 1] \in Nat /\ g[c - 1] \in Nat
          /\ f[0] = 0 /\ g[0] = 0 /\ items[id] \in Nat
      BY <1>1, <2>2, <2>4, <3>1, <3>2, <3>6 DEF Sums
    <3>8. g[c - 1] = f[c] - items[id]
      <4> DEFINE a1 == g[i - 1]
                 a2 == g[c - 1]
                 b1 == f[i - 1]
                 b2 == f[i]
                 b3 == f[c]
                 d == items[id]
      <4>1. a1 - 0 = b1 - 0 /\ a2 - a1 = b3 - b2 /\ b2 = b1 + d BY <3>3, <3>4, <3>5, <3>6, <3>7 DEF GrowAlike
      <4>2. a1 \in Nat /\ a2 \in Nat /\ b1 \in Nat /\ b2 \in Nat /\ b3 \in Nat /\ d \in Nat BY <3>7
      <4> HIDE DEF a1, a2, b1, b2, b3, d
      <4>3. a2 = b3 - d BY <4>1, <4>2
      <4> QED BY <4>3 DEF a2, b3, d
    <3>9. size = f[c] /\ Cache!Bytes(u, items) = g[c - 1]
      <4>1. Len(u) \in Nat BY <2>4
      <4> QED BY <1>1, <2>4, <3>1, <3>2, <4>1, BytesIs
    <3> QED BY <3>8, <3>9
  <2>11. id \in DOMAIN items BY <1>1, <2>2
  <2> QED BY <2>8, <2>9, <2>10, <2>11 DEF u
<1> QED BY <1>4, <1>5

\* What is behind the first n of them stays, and the new one is put behind that.
LEMMA Appended ==
  ASSUME Cache!CacheAssumption, CacheInv, NEW id \in CacheIds, NEW bytes \in CacheSizes,
         NEW u, NEW at, Behind(u, at, id), \A k \in 1..Len(u) : items[u[k]] \in Nat,
         NEW n \in 0..Len(u),
         order' = Append(SubSeq(u, n + 1, Len(u)), id),
         items' = [k \in Cache!Range(order') |-> IF k = id THEN bytes ELSE items[k]],
         size' = Cache!Bytes(u, items) - Cache!Bytes(SubSeq(u, 1, n), items) + bytes,
         size' <= CacheLimit,
         added' = Append(added, <<id, bytes>>)
  PROVE  CacheInv'
PROOF
<1> DEFINE c == Len(u) - n
           w == SubSeq(u, n + 1, Len(u))
           a == Len(added)
           to == [k \in 1..(c + 1) |-> IF k <= c THEN at[n + k] ELSE a + 1]
<1>1. /\ u \in Seq(CacheIds) /\ Len(u) \in Nat /\ n \in Nat /\ c \in Nat /\ bytes \in Nat
      /\ added \in Seq(CacheIds \X CacheSizes) /\ a \in Nat
  BY HeldIs DEF Behind, Cache!CacheAssumption
<1>2. w \in Seq(CacheIds) /\ Len(w) = c /\ \A k \in 1..c : w[k] = u[n + k]
  <2>1. /\ n + 1 \in Int /\ Len(u) \in Int /\ \A k \in (n + 1)..Len(u) : u[k] \in CacheIds
    BY <1>1
  <2>2. /\ w \in Seq(CacheIds)
        /\ Len(w) = IF n + 1 <= Len(u) THEN Len(u) - (n + 1) + 1 ELSE 0
        /\ \A k \in 1..(Len(u) - (n + 1) + 1) : w[k] = u[n + 1 + k - 1]
    BY <2>1, SubSeqProperties
  <2> HIDE DEF w
  <2>3. Len(w) = c
    <3>1. n <= Len(u) BY <1>1
    <3>2. CASE n + 1 <= Len(u)
      <4>1. Len(w) = Len(u) - (n + 1) + 1 BY <2>2, <3>2
      <4> QED BY <1>1, <4>1
    <3>3. CASE ~(n + 1 <= Len(u))
      <4>1. Len(w) = 0 BY <2>2, <3>3
      <4> QED BY <1>1, <3>1, <3>3, <4>1
    <3> QED BY <3>2, <3>3
  <2>4. ASSUME NEW k \in 1..c PROVE w[k] = u[n + k]
    <3>1. Len(u) - (n + 1) + 1 = c /\ n + 1 + k - 1 = n + k BY <1>1
    <3>2. w[k] = u[n + 1 + k - 1] BY Zenon, <2>2, <3>1
    <3> QED BY <3>1, <3>2
  <2> QED BY <2>2, <2>3, <2>4
<1>3. \A k \in 1..c : n + k \in 1..Len(u) BY <1>1
<1> HIDE DEF w, c, a
<1>4. /\ order' \in Seq(CacheIds) /\ Len(order') = c + 1 /\ DOMAIN order' = 1..(c + 1)
      /\ order'[c + 1] = id /\ \A k \in 1..c : order'[k] = u[n + k]
  <2>1. order' = Append(w, id) BY DEF w
  <2>2. /\ Append(w, id) \in Seq(CacheIds) /\ Len(Append(w, id)) = c + 1
        /\ Append(w, id)[c + 1] = id /\ \A k \in 1..c : Append(w, id)[k] = w[k]
    <3>1. /\ Append(w, id) \in Seq(CacheIds) /\ Len(Append(w, id)) = Len(w) + 1
          /\ \A k \in 1..Len(w) : Append(w, id)[k] = w[k]
          /\ Append(w, id)[Len(w) + 1] = id
      BY <1>2, AppendProperties
    <3>2. Len(w) = c BY <1>2
    <3> QED BY <3>1, <3>2
  <2> QED BY <1>1, <1>2, <2>1, <2>2
<1>5. /\ added' \in Seq(CacheIds \X CacheSizes) /\ Len(added') = a + 1
      /\ DOMAIN added' = 1..(a + 1)
      /\ added'[a + 1] = <<id, bytes>> /\ \A m \in 1..a : added'[m] = added[m]
  <2>1. <<id, bytes>> \in CacheIds \X CacheSizes OBVIOUS
  <2> QED BY <1>1, <2>1 DEF a
<1>6. \A k \in 1..(c + 1) : k \in 1..c \/ k = c + 1 BY <1>1
<1>7. /\ 1..c \subseteq 1..(c + 1) /\ c + 1 \in 1..(c + 1) /\ 1..a \subseteq 1..(a + 1)
      /\ a + 1 \in 1..(a + 1) /\ \A m \in 1..(a + 1) : m \in 1..a \/ m = a + 1
  BY <1>1
<1>8. \A x : x \in Cache!Range(order') <=> \E k \in 1..(c + 1) : order'[k] = x
  <2>1. Cache!Range(order') = {order'[k] : k \in 1..(c + 1)} BY <1>4 DEF Cache!Range
  <2> QED BY <2>1
<1>9. /\ at \in [1..Len(u) -> 1..a]
      /\ \A k \in 1..Len(u) : u[k] # id /\ added[at[k]] = <<u[k], items[u[k]]>>
      /\ \A k, l \in 1..Len(u) : k < l => at[k] < at[l]
      /\ \A k \in 1..Len(u) : \A m \in 1..a :
           m > at[k] => /\ added[m][1] # u[k]
                        /\ added[m][1] = id \/ \E j \in 1..Len(u) : u[j] = added[m][1]
  BY Zenon DEF Behind, a
<1>10. /\ items'[id] = bytes
       /\ \A k \in 1..c : items'[order'[k]] = items[u[n + k]]
  <2>1. id \in Cache!Range(order') /\ \A k \in 1..c : order'[k] \in Cache!Range(order')
    BY <1>4, <1>7, <1>8
  <2>2. \A k \in 1..c : order'[k] # id BY <1>3, <1>4, <1>9
  <2> QED BY <1>4, <2>1, <2>2
<1>11. /\ to \in [1..(c + 1) -> 1..(a + 1)] /\ to[c + 1] = a + 1
       /\ \A k \in 1..c : to[k] = at[n + k] /\ to[k] \in 1..a
  <2>1. \A k \in 1..c : k <= c /\ at[n + k] \in 1..a BY <1>1, <1>3, <1>9
  <2>2. ~(c + 1 <= c) BY <1>1
  <2>3. ASSUME NEW k \in 1..(c + 1)
        PROVE  (IF k <= c THEN at[n + k] ELSE a + 1) \in 1..(a + 1)
    <3>1. CASE k \in 1..c BY <1>7, <2>1, <3>1
    <3>2. CASE k = c + 1 BY <1>7, <2>2, <3>2
    <3> QED BY <1>6, <3>1, <3>2
  <2>4. \A k \in 1..c : to[k] = at[n + k] BY <1>7, <2>1
  <2> QED BY <1>7, <2>1, <2>2, <2>3, <2>4
<1> HIDE DEF to
<1>12. ASSUME NEW k \in 1..(c + 1) PROVE added'[to[k]] = <<order'[k], items'[order'[k]]>>
  <2>1. CASE k \in 1..c
    <3>1. added'[to[k]] = added[at[n + k]] BY <1>5, <1>11, <2>1
    <3>2. added[at[n + k]] = <<u[n + k], items[u[n + k]]>> BY <1>3, <1>9, <2>1
    <3> QED BY Zenon, <1>4, <1>10, <2>1, <3>1, <3>2
  <2>2. CASE k = c + 1 BY Zenon, <1>4, <1>5, <1>10, <1>11, <2>2
  <2> QED BY <1>6, <2>1, <2>2
<1>13. ASSUME NEW k \in 1..(c + 1), NEW l \in 1..(c + 1), k < l PROVE to[k] < to[l]
  <2>1. k \in 1..c BY <1>1, <1>13
  <2>2. CASE l \in 1..c
    <3>1. n + k \in 1..Len(u) /\ n + l \in 1..Len(u) BY Zenon, <1>3, <2>1, <2>2
    <3>2. n + k < n + l BY <1>1, <1>13
    <3>3. at[n + k] < at[n + l] BY Zenon, <1>9, <3>1, <3>2
    <3> QED BY Zenon, <1>11, <2>1, <2>2, <3>3
  <2>3. CASE l = c + 1
    <3>1. to[k] \in 1..a /\ to[l] = a + 1 BY Zenon, <1>11, <2>1, <2>3
    <3> QED BY <1>1, <3>1
  <2> QED BY <1>6, <2>2, <2>3
<1>14. ASSUME NEW k \in 1..(c + 1), NEW m \in 1..(a + 1), m > to[k]
       PROVE  added'[m][1] # order'[k] /\ added'[m][1] \in Cache!Range(order')
  <2>1. k \in 1..c
    <3>1. CASE k = c + 1
      <4>1. to[k] = a + 1 BY Zenon, <1>11, <3>1
      <4> QED BY <1>1, <1>14, <4>1
    <3> QED BY <1>6, <3>1
  <2>2. n + k \in 1..Len(u) /\ order'[k] = u[n + k] /\ to[k] = at[n + k]
    BY Zenon, <1>3, <1>4, <1>11, <2>1
  <2>3. CASE m = a + 1
    <3>1. added'[m][1] = id BY <1>5, <2>3
    <3>2. id \in Cache!Range(order') BY Zenon, <1>4, <1>7, <1>8
    <3> QED BY Zenon, <1>9, <2>2, <3>1, <3>2
  <2>4. CASE m \in 1..a
    <3>1. added'[m] = added[m] BY Zenon, <1>5, <2>4
    <3>2. m > at[n + k] BY <1>14, <2>2
    <3>3. /\ added[m][1] # u[n + k]
          /\ added[m][1] = id \/ \E j \in 1..Len(u) : u[j] = added[m][1]
      BY Zenon, <1>9, <2>2, <2>4, <3>2
    <3>4. CASE added[m][1] = id BY Zenon, <1>4, <1>7, <1>8, <2>2, <3>1, <3>3, <3>4
    <3>5. ASSUME NEW j \in 1..Len(u), u[j] = added[m][1]
          PROVE  added[m][1] \in Cache!Range(order')
      <4>1. at[j] \in 1..a /\ at[n + k] \in 1..a BY <1>9, <2>2
      <4>2. ~(m > at[j]) BY Zenon, <1>9, <2>4, <3>5
      <4>3. at[n + k] < at[j] BY <1>1, <2>4, <3>2, <4>1, <4>2
      <4>4. ~(j < n + k)
        <5>1. j < n + k => at[j] < at[n + k] BY Zenon, <1>9, <2>2
        <5> QED BY <1>1, <4>1, <4>3, <5>1
      <4>5. j - n \in 1..c /\ n + (j - n) = j BY <1>1, <2>1, <4>4 DEF c
      <4>6. order'[j - n] = u[j] BY <1>4, <4>5
      <4> QED BY Zenon, <1>7, <1>8, <3>5, <4>5, <4>6
    <3> QED BY Zenon, <2>2, <3>1, <3>3, <3>4, <3>5
  <2> QED BY <1>7, <2>3, <2>4
<1>15. ASSUME NEW k \in 1..(c + 1), NEW l \in 1..(c + 1), order'[k] = order'[l] PROVE k = l
  <2>1. ASSUME NEW p \in 1..(c + 1), NEW q \in 1..(c + 1), p < q PROVE order'[p] # order'[q]
    <3>1. to[p] < to[q] /\ to[q] \in 1..(a + 1) /\ to[p] \in 1..(a + 1) BY Zenon, <1>11, <1>13, <2>1
    <3>2. to[q] > to[p] BY <1>1, <3>1
    <3>3. added'[to[q]][1] # order'[p] BY Zenon, <1>14, <3>1, <3>2
    <3>4. added'[to[q]] = <<order'[q], items'[order'[q]]>> BY Zenon, <1>12
    <3>5. added'[to[q]][1] = order'[q]
      <4> DEFINE x == order'[q]
                 y == items'[order'[q]]
                 z == added'[to[q]]
      <4>1. z = <<x, y>> BY <3>4
      <4> HIDE DEF x, y, z
      <4>2. z[1] = x BY <4>1
      <4> QED BY <4>2 DEF x, z
    <3> QED BY Zenon, <3>3, <3>5
  <2>2. k < l \/ l < k \/ k = l BY <1>1
  <2> QED BY Zenon, <1>15, <2>1, <2>2
<1>16. size' = Cache!Bytes(order', items') /\ size' \in Nat
  <2>1. PICK f : Sums(f, u, items) BY Zenon, <1>1, SumsExist
  <2>2. \A k \in 1..Len(order') : items'[order'[k]] \in Nat
    <3> SUFFICES ASSUME NEW k \in 1..(c + 1) PROVE items'[order'[k]] \in Nat BY <1>4
    <3>1. CASE k \in 1..c BY <1>3, <1>10, <3>1
    <3>2. CASE k = c + 1 BY <1>1, <1>4, <1>10, <3>2
    <3> QED BY <1>6, <3>1, <3>2
  <2>3. PICK g : Sums(g, order', items') BY Zenon, <1>4, <2>2, SumsExist
  <2>4. Alike(u, items, n, order', items', 0, c)
    <3>1. \A k \in 1..c : items'[order'[0 + k]] = items[u[n + k]] /\ items[u[n + k]] \in Nat
      <4> SUFFICES ASSUME NEW k \in 1..c
                   PROVE  items'[order'[0 + k]] = items[u[n + k]] /\ items[u[n + k]] \in Nat
        OBVIOUS
      <4>1. 0 + k = k BY <1>1
      <4> QED BY <1>3, <1>10, <4>1
    <3>2. n + c <= Len(u) BY <1>1 DEF c
    <3>3. Len(order') \in Nat /\ 0 + c <= Len(order') BY <1>1, <1>4
    <3> QED BY <1>1, <3>1, <3>2, <3>3 DEF Alike
  <2>5. GrowAlike(f, n, g, 0, c) BY Zenon, <2>1, <2>3, <2>4, SumsAlike
  <2>6. g[c + 1] = g[c] + bytes
    <3>1. c + 1 \in 1..Len(order') /\ (c + 1) - 1 = c BY <1>1, <1>4
    <3>2. g[c + 1] = g[(c + 1) - 1] + items'[order'[c + 1]] BY Zenon, <2>3, <3>1 DEF Sums
    <3> QED BY <1>4, <1>10, <3>1, <3>2
  <2>7. /\ Cache!Bytes(u, items) = f[Len(u)] /\ Cache!Bytes(SubSeq(u, 1, n), items) = f[n]
        /\ Cache!Bytes(order', items') = g[c + 1]
    <3>1. Cache!Bytes(u, items) = f[Len(u)] BY Zenon, <1>1, <2>1, BytesIs
    <3>2. Cache!Bytes(SubSeq(u, 1, n), items) = f[n] BY Zenon, <1>1, <2>1, BytesOfFirst
    <3>3. Len(order') \in Nat BY <1>1, <1>4
    <3>4. Cache!Bytes(order', items') = g[Len(order')] BY Zenon, <2>3, <3>3, BytesIs
    <3> QED BY <1>4, <3>1, <3>2, <3>4
  <2>8. n + c = Len(u) /\ 0 + c = c BY <1>1 DEF c
  <2>9. f[n] \in Nat /\ f[Len(u)] \in Nat /\ g[c] \in Nat /\ g[c + 1] \in Nat /\ g[0] = 0
    <3>1. n \in 0..Len(u) /\ Len(u) \in 0..Len(u) /\ c \in 0..Len(order') /\ c + 1 \in 0..Len(order')
      BY <1>1, <1>4
    <3> QED BY <2>1, <2>3, <3>1 DEF Sums
  <2>10. g[c] = f[Len(u)] - f[n]
    <3>1. g[c] - 0 = f[Len(u)] - f[n] BY <2>5, <2>8, <2>9 DEF GrowAlike
    <3> QED BY <2>9, <3>1
  <2> QED BY <2>6, <2>7, <2>9, <2>10
<1>17. Cache!TypeOK'
  <2>1. DOMAIN items' = Cache!Range(order') OBVIOUS
  <2>2. ASSUME NEW x \in DOMAIN items' PROVE x \in CacheIds /\ items'[x] \in CacheSizes
    <3>1. PICK k \in 1..(c + 1) : order'[k] = x BY <1>8, <2>1
    <3>2. x \in CacheIds
      <4>1. \A j \in 1..Len(order') : order'[j] \in CacheIds BY Zenon, <1>4, ElementOfSeq
      <4> QED BY <1>4, <3>1, <4>1
    <3>3. CASE k \in 1..c
      <4>1. items'[x] = items[u[n + k]] BY <1>10, <3>1, <3>3
      <4>2. added[at[n + k]] \in CacheIds \X CacheSizes
        <5>1. at[n + k] \in 1..a BY <1>3, <1>9, <3>3
        <5> QED BY <1>1, <5>1 DEF a
      <4>3. added[at[n + k]] = <<u[n + k], items[u[n + k]]>> BY Zenon, <1>3, <1>9, <3>3
      <4> QED BY <3>2, <4>1, <4>2, <4>3
    <3>4. CASE k = c + 1 BY <1>4, <1>10, <3>1, <3>2, <3>4
    <3> QED BY <1>6, <3>3, <3>4
  <2> QED BY <1>4, <1>5, <1>16, <2>2 DEF Cache!TypeOK
<1>18. Cache!HoldsLatest'
  <2>1. to \in [DOMAIN order' -> DOMAIN added'] BY Zenon, <1>4, <1>5, <1>11
  <2>2. \A k \in DOMAIN order' :
          /\ added'[to[k]] = <<order'[k], items'[order'[k]]>>
          /\ \A l \in DOMAIN order' : k < l => to[k] < to[l]
          /\ \A m \in DOMAIN added' :
               m > to[k] => added'[m][1] # order'[k] /\ added'[m][1] \in Cache!Range(order')
    BY Zenon, <1>4, <1>5, <1>12, <1>13, <1>14
  <2>3. DOMAIN items' = Cache!Range(order') OBVIOUS
  <2>4. Cache!IsInjective(order') BY <1>4, <1>15 DEF Cache!IsInjective
  <2> QED BY Zenon, <1>16, <2>1, <2>2, <2>3, <2>4 DEF Cache!HoldsLatest
<1> QED BY <1>17, <1>18 DEF CacheInv

\* A set of numbers that is not empty has a least one.
LEMMA LeastIs ==
  ASSUME NEW m \in Nat, NEW T, T \subseteq 0..m, T # {}
  PROVE  Cache!Min(T) \in T
PROOF
<1> DEFINE Above == {k \in 0..m : \A j \in 0..k : j \notin T}
<1>1. ASSUME \A x \in T : \E y \in T : ~(x <= y) PROVE FALSE
  <2>1. 0 \in Above BY <1>1
  <2>2. ASSUME NEW k \in 0..(m - 1), k \in Above PROVE k + 1 \in Above
    <3>1. k + 1 \notin T
      <4> SUFFICES ASSUME k + 1 \in T PROVE FALSE OBVIOUS
      <4>1. PICK y \in T : ~(k + 1 <= y) BY <1>1
      <4>2. y \in 0..k BY <4>1
      <4> QED BY <2>2, <4>1, <4>2
    <3>2. \A j \in 0..(k + 1) : j \in 0..k \/ j = k + 1 OBVIOUS
    <3>3. k + 1 \in 0..m OBVIOUS
    <3> QED BY <2>2, <3>1, <3>2, <3>3
  <2> HIDE DEF Above
  <2>3. 0..m \subseteq Above BY <2>1, <2>2, Induct
  <2>4. \A x \in Above : x \notin T BY DEF Above
  <2> QED BY <2>3, <2>4
<1>2. PICK x \in T : \A y \in T : x <= y BY <1>1
<1> QED BY <1>2 DEF Cache!Min

LEMMA CacheBegins == ASSUME Cache!CacheAssumption, Cache!Init PROVE CacheInv
PROOF
<1>1. order = <<>> /\ added = <<>> /\ size = 0 /\ items = [id \in {} |-> 0] BY DEF Cache!Init
<1>2. DOMAIN order = {} /\ Len(order) = 0 /\ DOMAIN items = {} BY <1>1
<1>3. Cache!Range(order) = {} BY <1>2 DEF Cache!Range
<1>4. Cache!IsInjective(order) BY <1>2 DEF Cache!IsInjective
<1>5. Cache!Bytes(order, items) = 0
  <2> DEFINE f == [n \in 0..0 |-> 0]
  <2>1. f \in [0..0 -> Nat] /\ f[0] = 0 OBVIOUS
  <2> HIDE DEF f
  <2>2. Sums(f, order, items) BY <1>2, <2>1 DEF Sums
  <2>3. Cache!Bytes(order, items) = f[Len(order)] BY <1>2, <2>2, BytesIs
  <2> QED BY <1>2, <2>1, <2>3
<1>6. \E at \in [DOMAIN order -> DOMAIN added] : \A k \in DOMAIN order : FALSE
  <2> DEFINE none == [k \in {} |-> 0]
  <2>1. none \in [{} -> DOMAIN added] OBVIOUS
  <2> QED BY <1>2, <2>1
<1>7. Cache!TypeOK BY <1>1, <1>2 DEF Cache!TypeOK
<1>8. size <= CacheLimit BY <1>1 DEF Cache!CacheAssumption
<1> QED BY <1>1, <1>2, <1>3, <1>4, <1>5, <1>6, <1>7, <1>8 DEF CacheInv, Cache!HoldsLatest

LEMMA CacheStays == ASSUME Cache!CacheAssumption, CacheInv, [Cache!Next]_(Cache!vars) PROVE CacheInv'
PROOF
<1>1. ASSUME NEW id \in CacheIds, NEW bytes \in CacheSizes, Cache!Add(id, bytes) PROVE CacheInv'
  <2> DEFINE u == Cache!Others(id)
             held == size - (IF id \in DOMAIN items THEN items[id] ELSE 0)
             fits == {n \in 0..Len(u) : held - Cache!Bytes(SubSeq(u, 1, n), items) + bytes <= CacheLimit}
  <2>1. /\ held = Cache!Bytes(u, items) /\ \A k \in 1..Len(u) : items[u[k]] \in Nat
    BY OthersHeld
  <2>2. PICK at : Behind(u, at, id) BY OthersHeld
  <2>3. u \in Seq(CacheIds) /\ Len(u) \in Nat BY <2>2 DEF Behind
  <2>4. /\ bytes <= CacheLimit
        /\ order' = Append(SubSeq(u, Cache!Min(fits) + 1, Len(u)), id)
        /\ items' = [k \in Cache!Range(order') |-> IF k = id THEN bytes ELSE items[k]]
        /\ size' = held - Cache!Bytes(SubSeq(u, 1, Cache!Min(fits)), items) + bytes
        /\ added' = Append(added, <<id, bytes>>)
    BY Zenon, <1>1 DEF Cache!Add
  <2> HIDE DEF u, held
  <2>5. Len(u) \in fits
    <3>1. PICK f : Sums(f, u, items) BY Zenon, <2>1, <2>3, SumsExist
    <3>2. Len(u) \in 0..Len(u) BY <2>3
    <3>3. Cache!Bytes(SubSeq(u, 1, Len(u)), items) = f[Len(u)] /\ held = f[Len(u)]
      <4>1. Cache!Bytes(SubSeq(u, 1, Len(u)), items) = f[Len(u)]
        BY Zenon, <2>3, <3>1, <3>2, BytesOfFirst
      <4>2. Cache!Bytes(u, items) = f[Len(u)] BY Zenon, <2>3, <3>1, BytesIs
      <4> QED BY Zenon, <2>1, <4>1, <4>2
    <3>4. f[Len(u)] \in Nat BY <3>1, <3>2 DEF Sums
    <3>5. bytes \in Nat BY DEF Cache!CacheAssumption
    <3>6. f[Len(u)] - f[Len(u)] + bytes = bytes BY <3>4, <3>5
    <3>7. held - Cache!Bytes(SubSeq(u, 1, Len(u)), items) + bytes <= CacheLimit
      BY <2>4, <3>3, <3>6
    <3> QED BY <3>2, <3>7
  <2>6. Cache!Min(fits) \in fits
    <3>1. fits \subseteq 0..Len(u) /\ fits # {} BY <2>5
    <3> HIDE DEF fits
    <3> QED BY <2>3, <3>1, LeastIs
  <2> DEFINE n == Cache!Min(fits)
  <2>7. n \in 0..Len(u) /\ held - Cache!Bytes(SubSeq(u, 1, n), items) + bytes <= CacheLimit
    BY <2>6
  <2> HIDE DEF fits
  <2> HIDE DEF n
  <2>8. /\ order' = Append(SubSeq(u, n + 1, Len(u)), id)
        /\ size' = Cache!Bytes(u, items) - Cache!Bytes(SubSeq(u, 1, n), items) + bytes
        /\ size' <= CacheLimit
    BY Zenon, <2>1, <2>4, <2>7 DEF n
  <2> QED BY Zenon, <2>1, <2>2, <2>4, <2>7, <2>8, Appended
<1>2. CASE UNCHANGED Cache!vars
  <2>1. order' = order /\ added' = added /\ size' = size /\ items' = items
    BY <1>2 DEF Cache!vars
  <2>2. Cache!TypeOK' BY <2>1 DEF CacheInv, Cache!TypeOK
  <2> DEFINE Latest(at, o, i, z) ==
               \A k \in DOMAIN o :
                 /\ z[at[k]] = <<o[k], i[o[k]]>>
                 /\ \A l \in DOMAIN o : k < l => at[k] < at[l]
                 /\ \A n \in DOMAIN z :
                      n > at[k] => z[n][1] # o[k] /\ z[n][1] \in Cache!Range(o)
             Rest(o, i, b) ==
               /\ DOMAIN i = Cache!Range(o) /\ Cache!IsInjective(o)
               /\ b = Cache!Bytes(o, i) /\ b <= CacheLimit
  <2>3. (\E at \in [DOMAIN order -> DOMAIN added] : Latest(at, order, items, added))
         /\ Rest(order, items, size)
    BY Zenon DEF CacheInv, Cache!HoldsLatest
  <2>4. Cache!HoldsLatest' <=>
           /\ \E at \in [DOMAIN order' -> DOMAIN added'] : Latest(at, order', items', added')
           /\ Rest(order', items', size')
    BY Zenon DEF Cache!HoldsLatest
  <2> HIDE DEF Latest, Rest
  <2>5. PICK at \in [DOMAIN order -> DOMAIN added] : Latest(at, order, items, added) BY <2>3
  <2>6. at \in [DOMAIN order' -> DOMAIN added'] /\ Latest(at, order', items', added')
    BY Zenon, <2>1, <2>5
  <2>7. Rest(order', items', size') BY Zenon, <2>1, <2>3
  <2>8. Cache!HoldsLatest' BY Zenon, <2>4, <2>6, <2>7
  <2> QED BY <2>2, <2>8 DEF CacheInv
<1> QED BY Zenon, <1>1, <1>2 DEF Cache!Next

HIDE DEF items, order, size, added

-----------------------------------------------------------------------------
(* The parts together.                                                     *)

LEMMA PartsBegin ==
  ASSUME Init
  PROVE  /\ part = "Tracker" => Tracker!Init
         /\ part = "Activity" => Activity!Init
         /\ part = "Choices" => Choices!Init
         /\ part = "Disk" => Disk!Init
         /\ part = "Bus" => Bus!Init
         /\ part = "Table" => Table!Init
         /\ part = "Frame" => Frame!Init
         /\ part = "Split" => Split!Init
         /\ part = "Viewer" => Viewer!Init
         /\ part = "Cache" => Cache!Init
PROOF BY Zenon DEF Init

LEMMA PartsStep ==
  ASSUME [Next /\ UNCHANGED part]_vars
  PROVE  /\ part' = part
         /\ part = "Tracker" => [Tracker!Next]_(Tracker!vars)
         /\ part = "Activity" => [Activity!Next]_(Activity!vars)
         /\ part = "Choices" => [Choices!Next]_(Choices!vars)
         /\ part = "Disk" => [Disk!Next]_(Disk!vars)
         /\ part = "Bus" => [Bus!Next]_(Bus!vars)
         /\ part = "Table" => [Table!Next]_(Table!vars)
         /\ part = "Frame" => [Frame!Next]_(Frame!vars)
         /\ part = "Split" => [Split!Next]_(Split!vars)
         /\ part = "Viewer" => [Viewer!Next]_(Viewer!vars)
         /\ part = "Cache" => [Cache!Next]_(Cache!vars)
PROOF
<1>1. CASE UNCHANGED vars
  <2>1. part' = part /\ UNCHANGED <<v1, v2, v3, v4, v5, v6, v7, v8, v9, v10, v11, v12, v13,
                                    v14, v15, v16, v17, v18>>
    BY <1>1 DEF vars
  <2>2. UNCHANGED Tracker!vars
    BY <2>1 DEF Tracker!vars, Tracker!tracker, Tracker!queueing, Tracker!client
  <2>3. UNCHANGED Activity!vars BY <2>1 DEF Activity!vars, Activity!server, Activity!shown
  <2>4. UNCHANGED Choices!vars BY <2>1 DEF Choices!vars, Choices!server, Choices!shown
  <2>5. UNCHANGED Disk!vars BY <2>1 DEF Disk!vars, Disk!pageVars
  <2>6. UNCHANGED Bus!vars BY <2>1 DEF Bus!vars
  <2>7. UNCHANGED Table!vars BY <2>1 DEF Table!vars, Table!main, Table!inflight, Table!open
  <2>8. UNCHANGED Frame!vars BY <2>1 DEF Frame!vars, Frame!osVars
  <2>9. UNCHANGED Split!vars BY <2>1 DEF Split!vars
  <2>10. UNCHANGED Viewer!vars BY <2>1 DEF Viewer!vars, Viewer!dialog, Viewer!copy
  <2>11. UNCHANGED Cache!vars BY <2>1 DEF Cache!vars
  <2> QED BY <2>1, <2>2, <2>3, <2>4, <2>5, <2>6, <2>7, <2>8, <2>9, <2>10, <2>11
<1>2. CASE Next /\ UNCHANGED part BY Zenon, <1>2 DEF Next
<1> QED BY <1>1, <1>2

LEMMA ActivityMeans ==
  /\ Activity!IInv => Activity!TypeOK /\ Activity!RowsSettle
  /\ Choices!IInv => Choices!TypeOK /\ Choices!RowsSettle
PROOF BY DEF Activity!IInv, Activity!Coming, Activity!Latest, Activity!UpToDate, Activity!RowsSettle,
             Choices!IInv, Choices!Coming, Choices!Latest, Choices!UpToDate, Choices!RowsSettle

\* MCPages!EventsSettle, whatever overflows the tracker's outbox, is overtaken or is lost
\* with a connection, and whatever the number of requests, pages, files and subscribers:
\* once nothing is under way, a page lists what the server has, and the bus behind them
\* delivers.  Not so after what EventsSettle leaves out: an event that the handler dropped
\* (apigroup.go:417-424), an update sent before the initial snapshot that has not got it, a
\* snapshot still due, and loads of the disk page that overlapped.
THEOREM EventsAlwaysSettle == Spec => []EventsSettle
PROOF
<1> DEFINE Inv == /\ part = "Tracker" => TrackerInv
                  /\ part = "Activity" => Activity!IInv
                  /\ part = "Choices" => Choices!IInv
                  /\ part = "Disk" => DiskInv
                  /\ part = "Bus" => BusInv
<1>1. Init => Inv
  BY PartsBegin, PartsAssumption, TrackerBegins, Activity!InitIInv, Choices!InitIInv,
     DiskBegins, BusBegins
<1>2. Inv /\ [Next /\ UNCHANGED part]_vars => Inv'
  <2> SUFFICES ASSUME Inv, [Next /\ UNCHANGED part]_vars PROVE Inv'
    OBVIOUS
  <2>1. part = "Tracker" => TrackerInv' BY PartsStep, TrackerStays
  <2>2. part = "Activity" => Activity!IInv'
    BY PartsStep, PartsAssumption, Activity!NextIInv
  <2>3. part = "Choices" => Choices!IInv'
    BY PartsStep, PartsAssumption, Choices!NextIInv
  <2>4. part = "Disk" => DiskInv' BY PartsStep, DiskStays
  <2>5. part = "Bus" => BusInv' BY PartsStep, PartsAssumption, BusStays
  <2> QED BY <2>1, <2>2, <2>3, <2>4, <2>5, PartsStep
<1>3. Inv => EventsSettle
  <2>1. BusInv => /\ Bus!TypeOK /\ Bus!Bounded /\ Bus!EachOnceInOrder
                  /\ Bus!NothingSleptOn /\ Bus!PublisherHasWaker
    BY DEF BusInv
  <2> QED BY <2>1, TrackerMeans, ActivityMeans, DiskMeans DEF EventsSettle
<1> QED BY <1>1, <1>2, <1>3, PTL DEF Spec

\* MCPages!PreferencesKept, whatever is dragged, hidden, chosen and loaded again, across
\* any releases: the columns are all there, and the columns, the theme and the divider
\* are on the next visit as they are now.
THEOREM PreferencesAreKept == Spec => []PreferencesKept
PROOF
<1> DEFINE Inv == /\ part = "Table" => ColumnsInv
                  /\ part = "Frame" => FrameInv
                  /\ part = "Split" => SplitInv
<1>1. Init => Inv BY PartsBegin, PartsAssumption, ColumnsBegin, FrameBegins, SplitBegins
<1>2. Inv /\ [Next /\ UNCHANGED part]_vars => Inv'
  <2> SUFFICES ASSUME Inv, [Next /\ UNCHANGED part]_vars PROVE Inv'
    OBVIOUS
  <2>1. part = "Table" => ColumnsInv' BY PartsStep, PartsAssumption, ColumnsStay
  <2>2. part = "Frame" => FrameInv' BY PartsStep, PartsAssumption, FrameStays
  <2>3. part = "Split" => SplitInv' BY PartsStep, PartsAssumption, SplitStays
  <2> QED BY <2>1, <2>2, <2>3, PartsStep
<1>3. Inv => PreferencesKept
  BY ColumnsMean, FrameMeans DEF PreferencesKept, SplitInv
<1> QED BY <1>1, <1>2, <1>3, PTL DEF Spec

\* What ShownAsRecorded says of the captures, whichever were asked for and in whatever
\* order their answers come: a body is shown in a form it has.
THEOREM CapturesShownAsTheyAre == Spec => [](part = "Viewer" => Viewer!ShownAsWhatItIs)
PROOF
<1> DEFINE Inv == part = "Viewer" => ViewerInv
<1>1. Init => Inv BY PartsBegin, ViewerBegins
<1>2. Inv /\ [Next /\ UNCHANGED part]_vars => Inv' BY PartsStep, ViewerStays
<1>3. Inv => (part = "Viewer" => Viewer!ShownAsWhatItIs) BY PartsAssumption, ViewerMeans
<1> QED BY <1>1, <1>2, <1>3, PTL DEF Spec

\* What ShownAsRecorded says of the cache, whatever captures are added, again or for the
\* first time, and whatever their sizes and the limit: it holds those added last, without a
\* gap, and its size is that of what it holds and within the limit.
THEOREM CacheHoldsLatest == Spec => [](part = "Cache" => Cache!TypeOK /\ Cache!HoldsLatest)
PROOF
<1> DEFINE Inv == part = "Cache" => CacheInv
<1>1. Init => Inv BY PartsBegin, PartsAssumption, CacheBegins
<1>2. Inv /\ [Next /\ UNCHANGED part]_vars => Inv' BY PartsStep, PartsAssumption, CacheStays
<1>3. Inv => (part = "Cache" => Cache!TypeOK /\ Cache!HoldsLatest) BY DEF CacheInv
<1> QED BY <1>1, <1>2, <1>3, PTL DEF Spec
=============================================================================

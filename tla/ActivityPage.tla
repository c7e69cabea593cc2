----------------------------- MODULE ActivityPage -----------------------------
(***************************************************************************)
(* The activity log in the browser: routes/Activity.svelte and, for one    *)
(* model, components/model/ModelActivityTab.svelte, over the pages that    *)
(* ActivityTable.svelte offers.  A page is fetched when the user asks for  *)
(* it and when the event stream tells of new activity; answers come in     *)
(* any order.                                                              *)
(*                                                                         *)
(* The server's log is known by its version, the number of its entries.    *)
(* Version 0 stands for what was not read yet.                             *)
(***************************************************************************)
EXTENDS Integers, FiniteSets, TLAPS

CONSTANTS
  Models,       \* whose activity is shown: one value for Activity.svelte
  Limits, Columns,
  PagesOf,      \* how many pages each model's activity has
  MaxButtons,   \* how many page numbers are offered at once: 7 in the code
  MaxVersion, MaxConnects, MaxRequests   \* bounds

ActivityAssumption ==
  /\ Models # {} /\ Limits # {}
  /\ "id" \in Columns
  /\ PagesOf \in [Models -> Nat] /\ MaxButtons \in Nat \ {0}

VARIABLES
  version, wire, connects,     \* the server's log; activity messages under way
  connection,                  \* $connectionState
  mounted, query,              \* the component: modelId, page, limit, sort and order
  rows, stats, totalPages,     \* what it shows
  requestID, timer,            \* timer: refreshTimer is set
  fetches,                     \* calls of refreshActivity whose answer is not in
  failed,                      \* history: the last call failed
  missed                       \* history: an activity message was dropped, and the page
                               \* has not asked since

server == <<version, wire, connects>>
shown  == <<rows, stats, totalPages>>
vars   == <<server, connection, mounted, query, shown, requestID, timer, fetches, failed,
          missed>>

Sorts == [column : Columns, desc : BOOLEAN]
DefaultSort == [column |-> "id", desc |-> TRUE]

Queries == [model : Models, page : Nat, limit : Limits, sort : Sorts]
FirstPage(m, l) == [model |-> m, page |-> 1, limit |-> l, sort |-> DefaultSort]

\* page 0 stands for a table that was not filled yet
NoRows == [query |-> [query EXCEPT !.page = 0], version |-> 0]

Init ==
  /\ version = 1 /\ wire = 0 /\ connects = 0
  /\ connection = "connecting"
  /\ mounted = FALSE
  /\ \E m \in Models, l \in Limits : query = FirstPage(m, l)
  /\ rows = NoRows /\ stats = 0 /\ totalPages = 0
  /\ requestID = 0 /\ timer = FALSE
  /\ fetches = {} /\ failed = FALSE /\ missed = FALSE

-----------------------------------------------------------------------------
(* The steps the handlers below are made of.                               *)

\* refreshActivity up to its await: two calls, for the page and for the totals
RefreshActivity(q) ==
  /\ requestID' = requestID + 1
  /\ timer' = FALSE /\ failed' = FALSE /\ missed' = FALSE
  /\ fetches' = fetches \cup {[id |-> requestID + 1, query |-> q, version |-> 0, stats |-> 0]}

\* the effect on the query: refresh if connected
QueryChanged(q) ==
  /\ query' = q
  /\ IF connection = "connected"
       THEN requestID < MaxRequests /\ RefreshActivity(q)
       ELSE UNCHANGED <<requestID, timer, failed, fetches, missed>>

-----------------------------------------------------------------------------
(* The server and the event stream (stores/api.ts).                        *)

\* the message that tells of it, unless send drops it: the connection's buffer is full
NewActivity ==
  /\ version < MaxVersion
  /\ version' = version + 1
  /\ \/ /\ connection \in {"accepted", "connected"}
        /\ wire' = wire + 1 /\ UNCHANGED missed
     \/ /\ connection \in {"accepted", "connected"}
        /\ missed' = TRUE /\ UNCHANGED wire
     \/ connection \in {"connecting", "disconnected"} /\ UNCHANGED <<wire, missed>>
  /\ UNCHANGED <<connects, connection, mounted, query, shown, requestID, timer, fetches, failed>>

Accept ==
  /\ connection = "connecting"
  /\ connection' = "accepted" /\ wire' = 0
  /\ UNCHANGED <<version, connects, mounted, query, shown, requestID, timer, fetches, failed, missed>>

\* onopen counts $activityRevision up as every message does, so the second
\* effect never finds its seenRevision; the first cleared its timer
OnOpen ==
  /\ connection = "accepted"
  /\ connection' = "connected"
  /\ IF mounted
       THEN /\ requestID < MaxRequests
            /\ requestID' = requestID + 1
            /\ fetches' = fetches \cup {[id |-> requestID + 1, query |-> query, version |-> 0, stats |-> 0]}
            /\ failed' = FALSE /\ missed' = FALSE
            /\ timer' = (query.page = 1)
       ELSE UNCHANGED <<requestID, timer, fetches, failed, missed>>
  /\ UNCHANGED <<server, mounted, query, shown>>

\* an "activity" message: only the first page is refreshed, a second later at most
OnActivity ==
  /\ connection = "connected" /\ wire > 0
  /\ wire' = wire - 1
  /\ timer' = (timer \/ (mounted /\ query.page = 1))
  /\ UNCHANGED <<version, connects, connection, mounted, query, shown, requestID, fetches, failed, missed>>

OnError ==
  /\ connection # "disconnected"
  /\ connection' = "disconnected" /\ wire' = 0
  /\ UNCHANGED <<version, connects, mounted, query, shown, requestID, timer, fetches, failed, missed>>

Connect ==
  /\ connection = "disconnected" /\ connects < MaxConnects
  /\ connection' = "connecting" /\ connects' = connects + 1
  /\ UNCHANGED <<version, wire, mounted, query, shown, requestID, timer, fetches, failed, missed>>

-----------------------------------------------------------------------------
(* The component.                                                          *)

\* opened: the page starts over with the stored page size
Mount(m) ==
  /\ ~mounted
  /\ mounted' = TRUE
  /\ \E l \in Limits : QueryChanged(FirstPage(m, l))
  /\ UNCHANGED <<server, connection, shown>>

\* left: answers still to come find nobody
Unmount ==
  /\ mounted
  /\ mounted' = FALSE /\ timer' = FALSE /\ fetches' = {} /\ failed' = FALSE
  /\ rows' = NoRows /\ stats' = 0 /\ totalPages' = 0
  /\ UNCHANGED <<server, connection, query, requestID, missed>>

PageCount == IF totalPages > 1 THEN totalPages ELSE 1

Clamped(n) == IF n < 1 THEN 1 ELSE IF n > PageCount THEN PageCount ELSE n

\* a window of page numbers around the current one, cut at both ends
VisiblePages ==
  LET half  == MaxButtons \div 2
      first == IF Clamped(query.page) > half THEN Clamped(query.page) - half ELSE 1
      last  == IF first + MaxButtons - 1 < PageCount THEN first + MaxButtons - 1 ELSE PageCount
  IN  (IF last > MaxButtons THEN last - MaxButtons + 1 ELSE 1) .. last

\* what the pager's buttons ask for: first and previous, the numbers, next and last
PagesOffered ==
  IF totalPages = 0 THEN {}
  ELSE (IF query.page > 1 THEN {1, query.page - 1} ELSE {})
         \cup (VisiblePages \ {query.page})
         \cup (IF query.page < PageCount THEN {query.page + 1, PageCount} ELSE {})

SetPage(n) ==
  /\ mounted
  /\ Clamped(n) # query.page
  /\ QueryChanged([query EXCEPT !.page = Clamped(n)])
  /\ UNCHANGED <<server, connection, mounted, shown>>

SetPageSize(l) ==
  /\ mounted /\ l # query.limit
  /\ QueryChanged([query EXCEPT !.limit = l, !.page = 1])
  /\ UNCHANGED <<server, connection, mounted, shown>>

\* a header's button: the column ascending, and descending if it was already
Toggled(c) == [column |-> c, desc |-> query.sort.column = c /\ ~query.sort.desc]

SetSort(c) ==
  /\ mounted
  /\ QueryChanged([query EXCEPT !.sort = Toggled(c), !.page = 1])
  /\ UNCHANGED <<server, connection, mounted, shown>>

\* another variant was chosen in ModelDetail.svelte: the page number stays
ChangeModel(m) ==
  /\ mounted /\ m # query.model
  /\ QueryChanged([query EXCEPT !.model = m])
  /\ UNCHANGED <<server, connection, mounted, shown>>

\* the timeout of scheduleRefresh
Throttled ==
  /\ timer /\ requestID < MaxRequests
  /\ RefreshActivity(query)
  /\ UNCHANGED <<server, connection, mounted, query, shown>>

\* the server reads its log for one of the two calls
ReadActivity(f) ==
  /\ f.version = 0
  /\ fetches' = (fetches \ {f}) \cup {[f EXCEPT !.version = version]}
  /\ UNCHANGED <<server, connection, mounted, query, shown, requestID, timer, failed, missed>>

ReadStats(f) ==
  /\ f.stats = 0
  /\ fetches' = (fetches \ {f}) \cup {[f EXCEPT !.stats = version]}
  /\ UNCHANGED <<server, connection, mounted, query, shown, requestID, timer, failed, missed>>

Show(f) ==
  /\ rows' = [query |-> f.query, version |-> f.version]
  /\ stats' = f.stats
  /\ totalPages' = PagesOf[f.query.model]

\* variation: whichever answer comes last is shown
AnsweredLast(f) ==
  /\ f.version > 0 /\ f.stats > 0
  /\ fetches' = fetches \ {f}
  /\ Show(f)
  /\ UNCHANGED <<server, connection, mounted, query, requestID, timer, failed, missed>>

Answered(f) ==
  /\ f.version > 0 /\ f.stats > 0
  /\ fetches' = fetches \ {f}
  /\ IF f.id = requestID THEN Show(f) ELSE UNCHANGED shown
  /\ UNCHANGED <<server, connection, mounted, query, requestID, timer, failed, missed>>

Fails(f) ==
  /\ fetches' = fetches \ {f}
  /\ failed' = (failed \/ f.id = requestID)
  /\ UNCHANGED <<server, connection, mounted, query, shown, requestID, timer, missed>>

-----------------------------------------------------------------------------
User ==
  \/ \E m \in Models : Mount(m) \/ ChangeModel(m)
  \/ Unmount
  \/ \E n \in PagesOffered : SetPage(n)
  \/ \E l \in Limits : SetPageSize(l)
  \/ \E c \in Columns : SetSort(c)

Next ==
  \/ NewActivity \/ Accept \/ OnOpen \/ OnActivity \/ OnError \/ Connect
  \/ User \/ Throttled
  \/ \E f \in fetches : ReadActivity(f) \/ ReadStats(f) \/ Answered(f) \/ Fails(f)

Spec == Init /\ [][Next]_vars

-----------------------------------------------------------------------------
TypeOK ==
  /\ version \in Nat \ {0} /\ wire \in Nat /\ connects \in Nat
  /\ connection \in {"connecting", "accepted", "connected", "disconnected"}
  /\ mounted \in BOOLEAN /\ query \in Queries
  /\ rows \in [query : Queries, version : Nat]
  /\ stats \in Nat /\ totalPages \in Nat /\ requestID \in Nat
  /\ timer \in BOOLEAN /\ failed \in BOOLEAN /\ missed \in BOOLEAN
  /\ fetches \subseteq [id : Nat, query : Queries, version : Nat, stats : Nat]

\* When nothing is under way - no call, no timeout, no message - and the last
\* call did not fail, the table shows the page, size and order the user chose
\* last, and on the first page the newest log and totals, in whatever order
\* the answers came and however often the stream was interrupted.  Where send
\* has dropped the newest message, the page waits for the next one.
RowsSettle ==
  /\ mounted /\ connection = "connected" /\ wire = 0
  /\ fetches = {} /\ ~timer /\ ~failed
  => /\ rows.query = query
     /\ query.page = 1 /\ ~missed => rows.version = version /\ stats = version

-----------------------------------------------------------------------------
(* Why the rows settle, for any models, sizes, columns and bounds.         *)

\* The first page, and nothing is still to ask for it, no message and no timeout, nor
\* should have been.
UpToDate == query.page = 1 /\ wire = 0 /\ ~timer /\ ~missed

\* The call whose answer will be shown: it is for what the user chose last, and what it
\* has read is the newest log.
Awaited(f) ==
  /\ f.id = requestID /\ f.query = query
  /\ UpToDate => {f.version, f.stats} \subseteq {0, version}

Latest ==
  /\ rows.query = query
  /\ UpToDate => rows.version = version /\ stats = version

\* Calls are numbered in the order in which they were made.
Numbered ==
  /\ \A f \in fetches : f.id \in 1..requestID
  /\ \A f, g \in fetches : f.id = g.id => f = g

Attended == ~mounted => ~timer /\ fetches = {}

Coming ==
  mounted /\ connection = "connected" /\ ~failed =>
    \/ \E f \in fetches : Awaited(f)
    \/ Latest /\ \A f \in fetches : f.id # requestID

IInv == TypeOK /\ Numbered /\ Attended /\ Coming

Fetches == [id : Nat, query : Queries, version : Nat, stats : Nat]
Asked(q) == [id |-> requestID + 1, query |-> q, version |-> 0, stats |-> 0]

LEMMA InitIInv == ASSUME ActivityAssumption, Init PROVE IInv
PROOF
<1>1. PICK m \in Models, l \in Limits : query = FirstPage(m, l) BY DEF Init
<1>2. query \in Queries BY <1>1 DEF FirstPage, DefaultSort, Sorts, Queries, ActivityAssumption
<1>3. rows \in [query : Queries, version : Nat] BY <1>2 DEF Init, NoRows, Queries
<1>4. fetches \subseteq Fetches BY DEF Init
<1>5. /\ mounted \in BOOLEAN /\ timer \in BOOLEAN /\ failed \in BOOLEAN /\ missed \in BOOLEAN
      /\ connection \in {"connecting", "accepted", "connected", "disconnected"}
  BY Zenon DEF Init
<1>6. TypeOK BY <1>2, <1>3, <1>4, <1>5 DEF Init, TypeOK, Fetches
<1>7. Numbered /\ Attended /\ Coming BY DEF Init, Numbered, Attended, Coming
<1> QED BY <1>6, <1>7 DEF IInv

LEMMA AskedNext ==
  ASSUME TypeOK, Numbered, NEW q \in Queries, requestID' = requestID + 1,
         fetches' = fetches \cup {Asked(q)}
  PROVE  /\ requestID' \in Nat /\ fetches' \subseteq Fetches /\ Numbered'
         /\ \E f \in fetches' : /\ f.id = requestID' /\ f.query = q
                                /\ {f.version, f.stats} \subseteq {0, version'}
PROOF
<1>1. requestID \in Nat /\ fetches \subseteq Fetches BY DEF TypeOK, Fetches
<1>2. /\ Asked(q) \in Fetches /\ Asked(q).id = requestID + 1 /\ Asked(q).query = q
      /\ Asked(q).version = 0 /\ Asked(q).stats = 0
  BY <1>1 DEF Asked, Fetches
<1> HIDE DEF Asked
<1>3. requestID' \in Nat /\ fetches' \subseteq Fetches BY <1>1, <1>2
<1>4. \A f \in fetches : f.id \in 1..requestID /\ f.id # requestID + 1 BY <1>1 DEF Numbered
<1>5. Numbered' BY <1>1, <1>2, <1>4 DEF Numbered
<1>6. Asked(q) \in fetches' OBVIOUS
<1> QED BY <1>2, <1>3, <1>5, <1>6

LEMMA QueriesTyped ==
  ASSUME ActivityAssumption, TypeOK
  PROVE  /\ \A m \in Models, l \in Limits : FirstPage(m, l) \in Queries
         /\ \A n \in Int : [query EXCEPT !.page = Clamped(n)] \in Queries
         /\ \A l \in Limits : [query EXCEPT !.limit = l, !.page = 1] \in Queries
         /\ \A c \in Columns : [query EXCEPT !.sort = Toggled(c), !.page = 1] \in Queries
         /\ \A m \in Models : [query EXCEPT !.model = m] \in Queries
PROOF
<1>1. query \in Queries /\ totalPages \in Nat BY DEF TypeOK
<1>2. PageCount \in Nat BY <1>1 DEF PageCount
<1>3. \A n \in Int : Clamped(n) \in Nat BY <1>2 DEF Clamped
<1>4. \A c \in Columns : Toggled(c) \in Sorts BY Zenon DEF Toggled, Sorts
<1>5. \A m \in Models, l \in Limits : FirstPage(m, l) \in Queries
  BY DEF FirstPage, DefaultSort, Sorts, Queries, ActivityAssumption
<1> QED BY <1>1, <1>3, <1>4, <1>5 DEF Queries

\* The query changes, and is asked for when the page is connected.
LEMMA ChangeKeeps ==
  ASSUME IInv, mounted', NEW q \in Queries, QueryChanged(q),
         UNCHANGED <<server, connection, shown>>
  PROVE  IInv'
PROOF
<1> USE DEF server, shown
<1>1. CASE connection = "connected"
  <2>1. requestID' = requestID + 1 /\ fetches' = fetches \cup {Asked(q)} /\ query' = q
        /\ timer' = FALSE /\ failed' = FALSE /\ missed' = FALSE
    BY <1>1 DEF QueryChanged, RefreshActivity, Asked
  <2>2. /\ requestID' \in Nat /\ fetches' \subseteq Fetches /\ Numbered'
        /\ \E f \in fetches' : /\ f.id = requestID' /\ f.query = q
                               /\ {f.version, f.stats} \subseteq {0, version'}
    BY <2>1, AskedNext DEF IInv
  <2>3. TypeOK' BY <2>1, <2>2 DEF IInv, TypeOK, Fetches
  <2>4. Attended' BY DEF Attended
  <2>5. Coming' BY <2>1, <2>2 DEF Coming, Awaited, UpToDate
  <2> QED BY <2>2, <2>3, <2>4, <2>5 DEF IInv
<1>2. CASE connection # "connected"
  <2>1. query' = q /\ UNCHANGED <<requestID, timer, failed, fetches, missed>>
    BY <1>2 DEF QueryChanged
  <2>2. TypeOK' BY <2>1 DEF IInv, TypeOK
  <2>3. Numbered' /\ Attended' /\ Coming'
    BY <1>2, <2>1 DEF IInv, Numbered, Attended, Coming
  <2> QED BY <2>2, <2>3 DEF IInv
<1> QED BY <1>1, <1>2

LEMMA PagesAreNumbers ==
  ASSUME ActivityAssumption, TypeOK PROVE PagesOffered \subseteq Int
PROOF
<1>1. query.page \in Nat /\ PageCount \in Nat
  BY DEF TypeOK, Queries, PageCount
<1>2. VisiblePages \subseteq Int
  <2> DEFINE half  == MaxButtons \div 2
             first == IF Clamped(query.page) > half THEN Clamped(query.page) - half ELSE 1
             last  == IF first + MaxButtons - 1 < PageCount THEN first + MaxButtons - 1
                                                            ELSE PageCount
             from  == IF last > MaxButtons THEN last - MaxButtons + 1 ELSE 1
  <2>1. MaxButtons \in Nat BY DEF ActivityAssumption
  <2>2. half \in Int BY <2>1
  <2>3. Clamped(query.page) \in Int BY <1>1 DEF Clamped
  <2> HIDE DEF half
  <2>4. first \in Int BY <2>2, <2>3
  <2> HIDE DEF first
  <2>5. last \in Int BY <1>1, <2>1, <2>4
  <2> HIDE DEF last
  <2>6. from \in Int BY <2>1, <2>5
  <2> HIDE DEF from
  <2>7. VisiblePages = from .. last BY Zenon DEF VisiblePages, half, first, last, from
  <2> QED BY <2>5, <2>6, <2>7
<1>3. ASSUME NEW n \in PagesOffered
      PROVE  n \in {1, query.page - 1, query.page + 1, PageCount} \/ n \in VisiblePages
  BY DEF PagesOffered
<1>4. ASSUME NEW n \in PagesOffered PROVE n \in Int
  <2>1. CASE n \in VisiblePages BY <1>2, <2>1
  <2>2. CASE n \in {1, query.page - 1, query.page + 1, PageCount} BY <1>1, <2>2
  <2> QED BY <1>3, <2>1, <2>2
<1> QED BY <1>4

LEMMA UserKeeps == ASSUME ActivityAssumption, IInv, User PROVE IInv'
PROOF
<1>0. TypeOK BY DEF IInv
<1>1. ASSUME NEW m \in Models, Mount(m) PROVE IInv'
  <2>1. PICK l \in Limits : QueryChanged(FirstPage(m, l)) BY <1>1 DEF Mount
  <2> QED BY <1>0, <1>1, <2>1, QueriesTyped, ChangeKeeps DEF Mount
<1>2. ASSUME NEW m \in Models, ChangeModel(m) PROVE IInv'
  BY <1>0, <1>2, QueriesTyped, ChangeKeeps DEF ChangeModel
<1>3. CASE Unmount
  <2>1. query \in Queries BY <1>0 DEF TypeOK
  <2>2. rows' \in [query : Queries, version : Nat] BY <1>3, <2>1 DEF Unmount, NoRows, Queries
  <2>3. TypeOK' BY <1>0, <1>3, <2>2 DEF Unmount, TypeOK, server
  <2>4. Numbered' /\ Attended' /\ Coming'
    BY <1>3 DEF Unmount, Numbered, Attended, Coming
  <2> QED BY <2>3, <2>4 DEF IInv
<1>4. ASSUME NEW n \in PagesOffered, SetPage(n) PROVE IInv'
  <2>1. n \in Int BY <1>0, PagesAreNumbers
  <2> QED BY <1>0, <1>4, <2>1, QueriesTyped, ChangeKeeps DEF SetPage
<1>5. ASSUME NEW l \in Limits, SetPageSize(l) PROVE IInv'
  BY <1>0, <1>5, QueriesTyped, ChangeKeeps DEF SetPageSize
<1>6. ASSUME NEW c \in Columns, SetSort(c) PROVE IInv'
  BY <1>0, <1>6, QueriesTyped, ChangeKeeps DEF SetSort
<1> QED BY <1>1, <1>2, <1>3, <1>4, <1>5, <1>6 DEF User

LEMMA StreamKeeps ==
  ASSUME IInv, NewActivity \/ Accept \/ OnOpen \/ OnActivity \/ OnError \/ Connect \/ Throttled
  PROVE  IInv'
PROOF
<1> USE DEF IInv, server, shown
<1>1. CASE NewActivity
  <2>1. TypeOK'
    <3>1. missed' \in BOOLEAN BY Zenon, <1>1 DEF NewActivity, TypeOK
    <3>2. wire' \in Nat /\ version' \in Nat \ {0} BY <1>1 DEF NewActivity, TypeOK
    <3> QED BY <1>1, <3>1, <3>2 DEF NewActivity, TypeOK
  <2>2. Numbered' /\ Attended' BY <1>1 DEF NewActivity, Numbered, Attended
  <2>3. Coming'
    <3>1. connection = "connected" => wire' # 0 \/ missed' BY <1>1 DEF NewActivity, TypeOK
    <3> QED BY <1>1, <3>1 DEF NewActivity, Coming, Awaited, Latest, UpToDate
  <2> QED BY <2>1, <2>2, <2>3
<1>2. CASE Accept \/ OnError \/ Connect
  <2>1. TypeOK' BY <1>2 DEF Accept, OnError, Connect, TypeOK
  <2>2. Numbered' /\ Attended' BY <1>2 DEF Accept, OnError, Connect, Numbered, Attended
  <2>3. Coming' BY <1>2 DEF Accept, OnError, Connect, Coming
  <2> QED BY <2>1, <2>2, <2>3
<1>3. CASE OnActivity
  <2>1. TypeOK' BY <1>3 DEF OnActivity, TypeOK
  <2>2. Numbered' BY <1>3 DEF OnActivity, Numbered
  <2>3. Attended' BY Zenon, <1>3 DEF OnActivity, Attended
  <2>4. ~timer' => ~timer /\ ~(mounted /\ query.page = 1) BY Zenon, <1>3 DEF OnActivity
  <2>5. Coming' BY <1>3, <2>4 DEF OnActivity, Coming, Awaited, Latest, UpToDate
  <2> QED BY <2>1, <2>2, <2>3, <2>5
<1>4. CASE OnOpen /\ mounted
  <2>1. requestID' = requestID + 1 /\ fetches' = fetches \cup {Asked(query)}
        /\ UNCHANGED <<server, mounted, query, shown>> /\ connection' = "connected"
        /\ timer' \in BOOLEAN /\ failed' = FALSE /\ missed' = FALSE
    BY <1>4 DEF OnOpen, Asked
  <2>2. /\ requestID' \in Nat /\ fetches' \subseteq Fetches /\ Numbered'
        /\ \E f \in fetches' : /\ f.id = requestID' /\ f.query = query
                               /\ {f.version, f.stats} \subseteq {0, version'}
    BY <2>1, AskedNext DEF TypeOK
  <2>3. TypeOK' BY <2>1, <2>2 DEF TypeOK, Fetches
  <2>4. Attended' BY <1>4, <2>1 DEF Attended
  <2>5. Coming' BY <2>1, <2>2 DEF Coming, Awaited, UpToDate
  <2> QED BY <2>2, <2>3, <2>4, <2>5
<1>5. CASE OnOpen /\ ~mounted
  <2>1. TypeOK' BY <1>5 DEF OnOpen, TypeOK
  <2>2. Numbered' /\ Attended' /\ Coming' BY <1>5 DEF OnOpen, Numbered, Attended, Coming
  <2> QED BY <2>1, <2>2
<1>6. CASE Throttled
  <2>1. requestID' = requestID + 1 /\ fetches' = fetches \cup {Asked(query)}
        /\ UNCHANGED <<server, connection, mounted, query, shown>> /\ timer
        /\ timer' = FALSE /\ failed' = FALSE /\ missed' = FALSE
    BY <1>6 DEF Throttled, RefreshActivity, Asked
  <2>2. /\ requestID' \in Nat /\ fetches' \subseteq Fetches /\ Numbered'
        /\ \E f \in fetches' : /\ f.id = requestID' /\ f.query = query
                               /\ {f.version, f.stats} \subseteq {0, version'}
    BY <2>1, AskedNext DEF TypeOK
  <2>3. TypeOK' BY <2>1, <2>2 DEF TypeOK, Fetches
  <2>4. Attended' BY <2>1 DEF Attended
  <2>5. Coming' BY <2>1, <2>2 DEF Coming, Awaited, UpToDate
  <2> QED BY <2>2, <2>3, <2>4, <2>5
<1> QED BY <1>1, <1>2, <1>3, <1>4, <1>5, <1>6

\* The server reads its log for a call: it has the newest, or has it already.
LEMMA ReadKeeps ==
  ASSUME IInv, NEW f \in fetches, NEW g \in Fetches,
         g.id = f.id, g.query = f.query,
         g.version \in {f.version, version}, g.stats \in {f.stats, version},
         fetches' = (fetches \ {f}) \cup {g},
         UNCHANGED <<server, connection, mounted, query, shown, requestID, timer, failed, missed>>
  PROVE  IInv'
PROOF
<1> USE DEF IInv, server, shown
<1>1. TypeOK' BY DEF TypeOK, Fetches
<1>2. Numbered' BY DEF Numbered
<1>3. Attended' BY DEF Attended
<1>4. ASSUME NEW h \in fetches, Awaited(h) PROVE \E k \in fetches' : Awaited(k)'
  <2>1. CASE h = f
    <3>1. Awaited(g)' BY <1>4, <2>1 DEF Awaited, UpToDate
    <3> QED BY <3>1
  <2>2. CASE h # f BY <1>4, <2>2 DEF Awaited, UpToDate
  <2> QED BY <2>1, <2>2
<1>5. (\A h \in fetches : h.id # requestID) => \A h \in fetches' : h.id # requestID' OBVIOUS
<1>6. Coming' BY <1>4, <1>5 DEF Coming, Latest, UpToDate
<1> QED BY <1>1, <1>2, <1>3, <1>6

LEMMA AnswerKeeps ==
  ASSUME ActivityAssumption, IInv, NEW f \in fetches,
         ReadActivity(f) \/ ReadStats(f) \/ Answered(f) \/ Fails(f)
  PROVE  IInv'
PROOF
<1>0. /\ TypeOK /\ f \in Fetches /\ version \in Nat /\ f.id \in Nat
      /\ f.version \in Nat /\ f.stats \in Nat /\ f.query \in Queries
  BY DEF IInv, TypeOK, Fetches
<1>1. CASE ReadActivity(f)
  <2> DEFINE g == [f EXCEPT !.version = version]
  <2>1. /\ g \in Fetches /\ g.id = f.id /\ g.query = f.query
        /\ g.version = version /\ g.stats = f.stats
    BY <1>0 DEF Fetches
  <2>2. fetches' = (fetches \ {f}) \cup {g} BY <1>1 DEF ReadActivity
  <2> HIDE DEF g
  <2> QED BY <1>1, <2>1, <2>2, ReadKeeps DEF ReadActivity
<1>2. CASE ReadStats(f)
  <2> DEFINE g == [f EXCEPT !.stats = version]
  <2>1. /\ g \in Fetches /\ g.id = f.id /\ g.query = f.query
        /\ g.version = f.version /\ g.stats = version
    BY <1>0 DEF Fetches
  <2>2. fetches' = (fetches \ {f}) \cup {g} BY <1>2 DEF ReadStats
  <2> HIDE DEF g
  <2> QED BY <1>2, <2>1, <2>2, ReadKeeps DEF ReadStats
<1>3. CASE Answered(f) \/ Fails(f)
  <2>1. /\ fetches' = fetches \ {f}
        /\ UNCHANGED <<server, connection, mounted, query, requestID, timer, missed>>
    BY <1>3 DEF Answered, Fails
  <2>2. Numbered' /\ Attended' BY <2>1 DEF IInv, Numbered, Attended
  <2>3. CASE f.id # requestID
    <3>1. UNCHANGED <<shown, failed>> \/ (UNCHANGED shown /\ failed' = (failed \/ FALSE))
      BY Zenon, <1>3, <2>3 DEF Answered, Fails
    <3>2. UNCHANGED <<rows, stats, totalPages>> /\ failed' = failed
      BY <1>0, <3>1 DEF shown, TypeOK
    <3>3. TypeOK' BY <2>1, <3>2 DEF IInv, TypeOK, server
    <3>4. \A h \in fetches : Awaited(h) => h \in fetches' /\ Awaited(h)'
      BY <2>1, <2>3 DEF Awaited, UpToDate, server
    <3>5. Coming' BY <2>1, <3>2, <3>4 DEF IInv, Coming, Latest, UpToDate, server
    <3> QED BY <2>2, <3>3, <3>5 DEF IInv
  <2>4. CASE f.id = requestID /\ Answered(f)
    <3>1. /\ rows' = [query |-> f.query, version |-> f.version] /\ stats' = f.stats
          /\ totalPages' = PagesOf[f.query.model] /\ failed' = failed
      BY <2>4 DEF Answered, Show
    <3>2. totalPages' \in Nat BY <1>0, <3>1 DEF ActivityAssumption, Queries
    <3>3. TypeOK' BY <1>0, <2>1, <3>1, <3>2 DEF TypeOK, server
    <3>4. f.version # 0 /\ f.stats # 0 BY <2>4 DEF Answered
    <3>5. \A h \in fetches : Awaited(h) => h = f BY <2>4 DEF IInv, Numbered, Awaited
    <3>6. \A h \in fetches' : h.id # requestID'
      BY <2>1, <2>4 DEF IInv, Numbered
    <3>7. Awaited(f) => Latest'
      BY <2>1, <3>1, <3>4 DEF Awaited, Latest, UpToDate, server
    <3>8. Coming' BY <2>1, <2>4, <3>1, <3>5, <3>6, <3>7 DEF IInv, Coming, server
    <3> QED BY <2>2, <3>3, <3>8 DEF IInv
  <2>5. CASE f.id = requestID /\ Fails(f)
    <3>1. failed' /\ UNCHANGED <<rows, stats, totalPages>> BY Zenon, <2>5 DEF Fails, shown
    <3>2. failed' \in BOOLEAN BY Zenon, <2>5 DEF Fails
    <3>3. TypeOK' BY <2>1, <3>1, <3>2 DEF IInv, TypeOK, server
    <3>4. Coming' BY <3>1 DEF Coming
    <3> QED BY <2>2, <3>3, <3>4 DEF IInv
  <2> QED BY <1>3, <2>3, <2>4, <2>5
<1> QED BY <1>1, <1>2, <1>3

LEMMA NextIInv == ASSUME ActivityAssumption, IInv, [Next]_vars PROVE IInv'
PROOF
<1>1. CASE UNCHANGED vars
  BY <1>1 DEF vars, server, shown, IInv, TypeOK, Numbered, Attended, Coming, Awaited,
         Latest, UpToDate
<1> QED BY <1>1, StreamKeeps, UserKeeps, AnswerKeeps DEF Next

\* TypeOK and RowsSettle, for any models, columns and page sizes, whatever the bounds.
THEOREM ActivitySettles == ASSUME ActivityAssumption PROVE Spec => [](TypeOK /\ RowsSettle)
PROOF
<1>1. IInv => TypeOK /\ RowsSettle BY DEF IInv, Coming, Latest, UpToDate, RowsSettle
<1> QED BY <1>1, InitIInv, NextIInv, PTL DEF Spec
=============================================================================

------------------------ MODULE MCPlayground_proofs ------------------------
(***************************************************************************)
(* The properties of the Playground's chat, store and tabs, for any values *)
(* of their constants.  Each part of MCPlayground is proved on its own: an *)
(* inductive invariant of the part, which holds at its Init and is kept by *)
(* its Next.  PartsBegin and PartsStep then carry it over to behaviours of *)
(* MCPlayground.                                                           *)
(*                                                                         *)
(* A part's variables are v1, v2, ... in MCPlayground; here they have the  *)
(* names they have in the part's module.                                   *)
(***************************************************************************)
EXTENDS MCPlayground, FiniteSetTheorems, SequenceTheorems, WellFoundedInduction, TLAPS

-----------------------------------------------------------------------------
(* The chat: the conversation, its streams and the copy of it.             *)

messages == v1
streams == v2
crossed == v3
isStreaming == v4
controller == v6
saved == v7
refused == v8
saveTimer == v9
recent == v10
editing == v11
USE DEF messages, streams, crossed, isStreaming, controller, saved, refused, saveTimer, recent,
        editing

UserTalk == [role : {"user"}, text : ChatTexts, images : BOOLEAN]
ReplyTalk == [role : {"assistant"}, for : Nat, from : SUBSET Nat]
Talk == UserTalk \cup ReplyTalk
Asked == [status : {"open", "aborted", "over"}, prompt : Seq(Talk)]

\* Who may write to the reply of the request s, when the requests in c overlap.
Writers(s, c) == {s} \cup (IF s \in c THEN c ELSE {})

\* The message i of w, if it is a reply, is that of a request made from what is above it.
TrueAt(w, i, requests, c) ==
  w[i].role = "assistant" =>
    /\ w[i].from \subseteq Writers(w[i].for, c) /\ w[i].for \in 1..Len(requests)
    /\ requests[w[i].for].prompt = SubSeq(w, 1, i - 1)
TrueTo(w, requests, c) == \A i \in 1..Len(w) : TrueAt(w, i, requests, c)

\* The conversation ends with the reply to the request s.
EndsWith(s, w) == w # <<>> => w[Len(w)].role = "assistant" /\ w[Len(w)].for = s

ChatTypes ==
  /\ messages \in Seq(Talk) /\ saved \in Seq(Talk) /\ streams \in Seq(Asked)
  /\ controller \in 0..Len(streams) /\ editing \subseteq 1..Len(messages)

ChatTrue == TrueTo(messages, streams, crossed) /\ TrueTo(saved, streams, crossed)

\* The streams write to the reply of the newest request.  One that is not the newest, or
\* does not run alone, is among those that overlap; any other is the controller's.
Live(s) == streams[s].status # "over"
ChatStreams ==
  /\ isStreaming => controller = Len(streams) /\ controller # 0 /\ Live(controller)
  /\ \A s \in 1..Len(streams) : Live(s) =>
       /\ EndsWith(Len(streams), messages)
       /\ s # Len(streams) => s \in crossed /\ Len(streams) \in crossed
       /\ s \notin crossed => isStreaming /\ controller = s

ChatSaved == saveTimer \/ refused \/ saved = messages

ChatInv == ChatTypes /\ ChatTrue /\ ChatStreams /\ ChatSaved

\* What a message becomes when a stream writes to it.
WrittenMessage(m, s) == [m EXCEPT !.from = @ \cup {s}]

LEMMA TalkTypes ==
  /\ \A text \in ChatTexts, images \in BOOLEAN :
       Chat!User(text, images) \in Talk /\ Chat!User(text, images).role # "assistant"
  /\ \A s \in Nat : /\ Chat!Reply(s) \in Talk /\ Chat!Reply(s).role = "assistant"
                    /\ Chat!Reply(s).for = s /\ Chat!Reply(s).from = {}
PROOF
<1>1. ASSUME NEW text \in ChatTexts, NEW images \in BOOLEAN
      PROVE  Chat!User(text, images) \in Talk /\ Chat!User(text, images).role # "assistant"
  BY DEF Talk, UserTalk, Chat!User
<1>2. ASSUME NEW s \in Nat
      PROVE  /\ Chat!Reply(s) \in Talk /\ Chat!Reply(s).role = "assistant"
             /\ Chat!Reply(s).for = s /\ Chat!Reply(s).from = {}
  BY DEF Talk, ReplyTalk, Chat!Reply
<1> QED BY <1>1, <1>2

LEMMA WrittenType ==
  ASSUME NEW m \in Talk, m.role = "assistant", NEW s \in Nat
  PROVE  LET n == WrittenMessage(m, s)
         IN n \in Talk /\ n.role = "assistant" /\ n.for = m.for /\ n.from = m.from \cup {s}
PROOF
<1>1. m \in ReplyTalk BY DEF Talk, UserTalk, ReplyTalk
<1> QED BY <1>1 DEF WrittenMessage, Talk, ReplyTalk

LEMMA SameBefore ==
  ASSUME NEW u \in Seq(Talk), NEW w \in Seq(Talk), NEW k \in 0..Len(w), k <= Len(u),
         \A j \in 1..k : u[j] = w[j]
  PROVE  SubSeq(u, 1, k) = SubSeq(w, 1, k)
PROOF
<1>1. /\ SubSeq(u, 1, k) \in Seq(Talk) /\ Len(SubSeq(u, 1, k)) = k
      /\ SubSeq(w, 1, k) \in Seq(Talk) /\ Len(SubSeq(w, 1, k)) = k
      /\ \A j \in 1..k : SubSeq(u, 1, k)[j] = u[j] /\ SubSeq(w, 1, k)[j] = w[j]
  OBVIOUS
<1> DEFINE a == SubSeq(u, 1, k)
           b == SubSeq(w, 1, k)
<1> HIDE DEF a, b
<1>2. /\ a \in Seq(Talk) /\ b \in Seq(Talk) /\ Len(a) = Len(b)
      /\ \A j \in 1..Len(a) : a[j] = b[j]
  BY <1>1 DEF a, b
<1>3. a = b BY <1>2, SeqEqual
<1> QED BY <1>3 DEF a, b

\* What is true of a conversation is true of another one as far as they agree, and
\* stays so when requests are added, overlap or end.
LEMMA TrueKept ==
  ASSUME NEW u \in Seq(Talk), NEW w \in Seq(Talk), NEW k \in 0..Len(w), k <= Len(u),
         \A j \in 1..k : u[j] = w[j],
         NEW old \in Seq(Asked), NEW new \in Seq(Asked), Len(old) <= Len(new),
         \A s \in 1..Len(old) : new[s].prompt = old[s].prompt,
         NEW c, NEW d, c \subseteq d, TrueTo(w, old, c)
  PROVE  \A i \in 1..k : TrueAt(u, i, new, d)
PROOF
<1> SUFFICES ASSUME NEW i \in 1..k, w[i].role = "assistant"
             PROVE  /\ w[i].from \subseteq Writers(w[i].for, d) /\ w[i].for \in 1..Len(new)
                    /\ new[w[i].for].prompt = SubSeq(u, 1, i - 1)
  BY Zenon DEF TrueAt
<1>1. /\ w[i].from \subseteq Writers(w[i].for, c) /\ w[i].for \in 1..Len(old)
      /\ old[w[i].for].prompt = SubSeq(w, 1, i - 1)
  <2>1. i \in 1..Len(w) OBVIOUS
  <2> QED BY Zenon, <2>1 DEF TrueTo, TrueAt
<1>2. w[i].for \in 1..Len(new)
  <2>1. Len(old) \in Nat /\ Len(new) \in Nat OBVIOUS
  <2> QED BY <1>1, <2>1
<1>3. SubSeq(u, 1, i - 1) = SubSeq(w, 1, i - 1)
  <2>1. /\ i - 1 \in 0..Len(w) /\ i - 1 <= Len(u)
        /\ \A j \in 1..(i - 1) : u[j] = w[j]
    OBVIOUS
  <2> QED BY <2>1, SameBefore
<1>4. Writers(w[i].for, c) \subseteq Writers(w[i].for, d) BY DEF Writers
<1>5. w[i].from \subseteq Writers(w[i].for, d) BY Zenon, <1>1, <1>4
<1> QED BY Zenon, <1>1, <1>2, <1>3, <1>5

COROLLARY TrueStill ==
  ASSUME NEW w \in Seq(Talk), NEW old \in Seq(Asked), NEW new \in Seq(Asked),
         Len(old) <= Len(new), \A s \in 1..Len(old) : new[s].prompt = old[s].prompt,
         NEW c, NEW d, c \subseteq d, TrueTo(w, old, c)
  PROVE  TrueTo(w, new, d)
PROOF
<1>1. Len(w) \in 0..Len(w) /\ Len(w) <= Len(w) OBVIOUS
<1> QED BY Zenon, <1>1, TrueKept DEF TrueTo

LEMMA ChatBegins == ASSUME Chat!Init PROVE ChatInv
PROOF
<1>1. /\ messages = <<>> /\ streams = <<>> /\ isStreaming = FALSE /\ controller = 0
      /\ saved = <<>> /\ editing = {}
  BY Zenon DEF Chat!Init
<1>2. /\ <<>> \in Seq(Talk) /\ <<>> \in Seq(Asked) /\ Len(<<>>) = 0
  OBVIOUS
<1>3. ChatTypes BY <1>1, <1>2 DEF ChatTypes
<1>4. TrueTo(<<>>, <<>>, crossed) BY <1>2 DEF TrueTo
<1>5. ChatStreams BY <1>1, <1>2 DEF ChatStreams
<1> QED BY <1>1, <1>3, <1>4, <1>5 DEF ChatInv, ChatTrue, ChatSaved


\* What a write leaves behind.
SavedAs(new) ==
  /\ saveTimer' \/ refused' \/ saved' = new
  /\ saved' = saved \/ saved' = new

LEMMA PersistKeeps == ASSUME NEW new, Chat!Persist(new) PROVE SavedAs(new)
PROOF
<1>1. CASE recent BY Zenon, <1>1 DEF Chat!Persist, SavedAs
<1>2. CASE ~recent BY Zenon, <1>2 DEF Chat!Persist, Chat!Save, SavedAs
<1> QED BY <1>1, <1>2

AllLive(which) == \A s \in 1..Len(streams) : Live(s) <=> s \in which

LEMMA RunsAre == ASSUME ChatTypes PROVE Chat!Runs = {s \in 1..Len(streams) : Live(s)}
PROOF
<1>1. streams \in Seq(Asked) /\ DOMAIN streams = 1..Len(streams) BY DEF ChatTypes
<1>2. ASSUME NEW s \in 1..Len(streams) PROVE Chat!Running(s) <=> Live(s)
  <2>1. streams[s] \in Asked BY <1>1
  <2>2. streams[s].status \in {"open", "aborted", "over"} BY <2>1 DEF Asked
  <2> QED BY <2>2 DEF Chat!Running, Chat!Status, Live
<1> QED BY Zenon, <1>1, <1>2 DEF Chat!Runs

\* A request is made from what is kept of the conversation.
LEMMA BeginKeeps ==
  ASSUME ChatInv, NEW kept \in Seq(Talk), TrueTo(kept, streams, crossed),
         NEW open, NEW beside, AllLive(beside),
         Chat!Begin(kept, open, beside)
  PROVE  ChatInv'
PROOF
<1> DEFINE s == Len(streams) + 1
           reply == Chat!Reply(s)
           new == Append(kept, reply)
           asked == [status |-> "open", prompt |-> kept]
<1>1. /\ messages' = new /\ streams' = Append(streams, asked)
      /\ isStreaming' = TRUE /\ controller' = s /\ editing' = open \cap DOMAIN kept
      /\ Chat!Persist(new)
      /\ crossed' = IF beside = {} THEN crossed ELSE crossed \cup beside \cup {s}
  BY Zenon DEF Chat!Begin
<1>2. /\ streams \in Seq(Asked) /\ messages \in Seq(Talk) /\ saved \in Seq(Talk)
      /\ Len(streams) \in Nat /\ s \in Nat /\ asked \in Asked
  BY DEF ChatInv, ChatTypes, Asked
<1>3. reply \in Talk /\ reply.role = "assistant" /\ reply.for = s /\ reply.from = {}
  BY <1>2, TalkTypes
<1>4. asked.status = "open" /\ asked.prompt = kept OBVIOUS
<1> HIDE DEF reply, asked
<1>5. /\ streams' \in Seq(Asked) /\ Len(streams') = s /\ streams'[s] = asked
      /\ \A r \in 1..Len(streams) : streams'[r] = streams[r]
      /\ Len(streams) <= Len(streams') /\ s \in 1..Len(streams')
  BY <1>1, <1>2
<1>6. /\ new \in Seq(Talk) /\ Len(new) = Len(kept) + 1 /\ new[Len(new)] = reply
      /\ Len(kept) \in 0..Len(kept) /\ Len(kept) <= Len(new) /\ DOMAIN kept = 1..Len(kept)
      /\ \A j \in 1..Len(kept) : new[j] = kept[j]
      /\ 1..Len(kept) \subseteq 1..Len(new) /\ new # <<>>
  BY <1>3
<1> HIDE DEF s, new
<1>7. \A r \in 1..Len(streams) : streams'[r].prompt = streams[r].prompt BY <1>5
<1>0. crossed \subseteq crossed' BY <1>1
<1>8. TrueTo(new, streams', crossed')
  <2>1. \A i \in 1..Len(kept) : TrueAt(new, i, streams', crossed')
    BY Zenon, <1>0, <1>2, <1>5, <1>6, <1>7, TrueKept
  <2>2. TrueAt(new, Len(new), streams', crossed')
    <3>1. SubSeq(new, 1, Len(kept)) = SubSeq(kept, 1, Len(kept))
      BY <1>6, SameBefore
    <3>2. SubSeq(kept, 1, Len(kept)) = kept BY SubSeqFull
    <3>3. Len(new) - 1 = Len(kept) BY <1>6
    <3> QED BY <1>3, <1>4, <1>5, <1>6, <3>1, <3>2, <3>3 DEF TrueAt
  <2>3. \A i \in 1..Len(new) : i \in 1..Len(kept) \/ i = Len(new) BY <1>6
  <2> QED BY Zenon, <2>1, <2>2, <2>3 DEF TrueTo
<1>9. TrueTo(saved, streams', crossed')
  BY Zenon, <1>0, <1>2, <1>5, <1>7, TrueStill DEF ChatInv, ChatTrue
<1>10. SavedAs(new) BY Zenon, <1>1, PersistKeeps
<1>11. ChatTypes' BY <1>1, <1>2, <1>5, <1>6, <1>10 DEF ChatTypes, SavedAs
<1>12. ChatTrue' BY Zenon, <1>1, <1>8, <1>9, <1>10 DEF ChatTrue, SavedAs
<1>13. ChatStreams'
  <2>1. \A r \in 1..Len(streams') : r \in 1..Len(streams) \/ r = s
    BY <1>2, <1>5 DEF s
  <2>2. ASSUME NEW r \in 1..Len(streams), streams'[r].status # "over"
        PROVE  r \in crossed' /\ s \in crossed'
    <3>1. Live(r) BY <1>5, <2>2 DEF Live
    <3>2. r \in beside BY <3>1 DEF AllLive
    <3> QED BY <1>1, <3>2
  <2>3. EndsWith(s, new) BY <1>3, <1>6 DEF EndsWith
  <2>4. streams'[s].status # "over" /\ s # 0 BY <1>2, <1>4, <1>5 DEF s
  <2>5. Live(controller)' BY <1>1, <2>4 DEF Live
  <2>6. controller' = Len(streams') /\ controller' # 0 BY <1>1, <1>5, <2>4
  <2>7. EndsWith(Len(streams'), messages') BY Zenon, <1>1, <1>5, <2>3
  <2>8. ASSUME NEW r \in 1..Len(streams'), Live(r)'
        PROVE  /\ r # Len(streams') => r \in crossed' /\ Len(streams') \in crossed'
               /\ r \notin crossed' => isStreaming' /\ controller' = r
    <3>1. streams'[r].status # "over" BY <2>8 DEF Live
    <3>2. CASE r = s BY <1>1, <1>5, <3>2
    <3>3. CASE r \in 1..Len(streams) BY <1>5, <2>2, <3>1, <3>3
    <3> QED BY <2>1, <3>2, <3>3
  <2> QED BY Zenon, <2>5, <2>6, <2>7, <2>8 DEF ChatStreams
<1>14. ChatSaved' BY Zenon, <1>1, <1>10 DEF SavedAs, ChatSaved
<1> QED BY Zenon, <1>11, <1>12, <1>13, <1>14 DEF ChatInv

\* The user sends a message, has a reply made again or edits a message.
LEMMA AskSteps ==
  ASSUME ChatInv,
         \/ \E t \in ChatTexts, i \in BOOLEAN : Chat!SendMessage(t, i)
         \/ \E i \in 1..MaxMessages :
              Chat!Regenerate(i) \/ \E t \in ChatTexts : Chat!SaveEdit(i, t)
  PROVE  ChatInv'
PROOF
<1>1. /\ messages \in Seq(Talk) /\ streams \in Seq(Asked) /\ TrueTo(messages, streams, crossed)
      /\ editing \subseteq 1..Len(messages) /\ Len(messages) \in Nat
  BY DEF ChatInv, ChatTypes, ChatTrue
<1>0. AllLive(Chat!Runs) /\ (~isStreaming => AllLive(Chat!Runs \cap crossed))
  <2>1. Chat!Runs = {s \in 1..Len(streams) : Live(s)} BY Zenon, RunsAre DEF ChatInv
  <2>2. \A s \in 1..Len(streams) : ~isStreaming /\ Live(s) => s \in crossed
    BY Zenon DEF ChatInv, ChatStreams
  <2> QED BY <2>1, <2>2 DEF AllLive
<1>2. ASSUME NEW k \in 0..Len(messages), NEW u \in Seq(Talk), k <= Len(u),
             \A j \in 1..k : u[j] = messages[j]
      PROVE  \A i \in 1..k : TrueAt(u, i, streams, crossed)
  BY <1>1, <1>2, TrueKept
<1>3. ASSUME NEW k \in 0..Len(messages)
      PROVE  /\ SubSeq(messages, 1, k) \in Seq(Talk)
             /\ TrueTo(SubSeq(messages, 1, k), streams, crossed)
  <2> DEFINE u == SubSeq(messages, 1, k)
  <2>1. u \in Seq(Talk) /\ Len(u) = k /\ \A j \in 1..k : u[j] = messages[j]
    BY <1>1
  <2> HIDE DEF u
  <2>2. k <= Len(u) BY <2>1
  <2>3. \A i \in 1..k : TrueAt(u, i, streams, crossed) BY Zenon, <1>2, <2>1, <2>2
  <2>4. TrueTo(u, streams, crossed) BY Zenon, <2>1, <2>3 DEF TrueTo
  <2> QED BY <2>1, <2>4 DEF u
<1>4. ASSUME NEW k \in 0..Len(messages), NEW w \in Seq(Talk), w = SubSeq(messages, 1, k),
             NEW t \in ChatTexts, NEW b \in BOOLEAN
      PROVE  /\ Append(w, Chat!User(t, b)) \in Seq(Talk)
             /\ TrueTo(Append(w, Chat!User(t, b)), streams, crossed)
  <2> DEFINE user == Chat!User(t, b)
             u == Append(w, user)
  <2>1. user \in Talk /\ user.role # "assistant" BY Zenon, TalkTypes
  <2> HIDE DEF user
  <2>2. Len(w) = k /\ \A j \in 1..k : w[j] = messages[j] BY <1>1, <1>4
  <2>3. u \in Seq(Talk) /\ Len(u) = k + 1 /\ u[k + 1] = user /\ \A j \in 1..k : u[j] = w[j]
    BY <2>1, <2>2
  <2> HIDE DEF u
  <2>4. k <= Len(u) /\ \A j \in 1..k : u[j] = messages[j] BY <2>2, <2>3
  <2>5. \A i \in 1..k : TrueAt(u, i, streams, crossed) BY Zenon, <1>2, <2>3, <2>4
  <2>6. TrueAt(u, k + 1, streams, crossed) BY <2>1, <2>3 DEF TrueAt
  <2>7. \A i \in 1..Len(u) : i \in 1..k \/ i = k + 1 BY <2>3
  <2>8. TrueTo(u, streams, crossed) BY Zenon, <2>5, <2>6, <2>7 DEF TrueTo
  <2> QED BY <2>3, <2>8 DEF u, user
<1>5. ASSUME NEW t \in ChatTexts, NEW b \in BOOLEAN, Chat!SendMessage(t, b)
      PROVE  ChatInv'
  <2>1. ~isStreaming /\ Chat!Begin(Append(messages, Chat!User(t, b)), editing, Chat!Runs \cap crossed)
    BY Zenon, <1>5 DEF Chat!SendMessage
  <2>2. messages = SubSeq(messages, 1, Len(messages)) BY <1>1, SubSeqFull
  <2>3. Len(messages) \in 0..Len(messages) BY <1>1
  <2> QED BY Zenon, <1>0, <1>1, <1>4, <2>1, <2>2, <2>3, BeginKeeps
<1>6. ASSUME NEW i \in 1..MaxMessages, Chat!Regenerate(i)
      PROVE  ChatInv'
  <2>1. i \in DOMAIN messages /\ Chat!Begin(SubSeq(messages, 1, i - 1), editing, Chat!Runs)
    BY Zenon, <1>6 DEF Chat!Regenerate
  <2>2. i - 1 \in 0..Len(messages) BY <1>1, <2>1
  <2> QED BY Zenon, <1>0, <1>3, <2>1, <2>2, BeginKeeps
<1>7. ASSUME NEW i \in 1..MaxMessages, NEW t \in ChatTexts, Chat!SaveEdit(i, t)
      PROVE  ChatInv'
  <2>1. i \in editing /\ ~isStreaming
        /\ Chat!Begin(Append(SubSeq(messages, 1, i - 1), Chat!User(t, FALSE)), editing \ {i},
                      Chat!Runs \cap crossed)
    BY Zenon, <1>7 DEF Chat!SaveEdit
  <2>2. i - 1 \in 0..Len(messages) BY <1>1, <2>1
  <2>3. FALSE \in BOOLEAN OBVIOUS
  <2> QED BY Zenon, <1>0, <1>3, <1>4, <2>1, <2>2, <2>3, BeginKeeps
<1> QED BY <1>5, <1>6, <1>7


LEMMA AskedType ==
  ASSUME NEW a \in Asked, NEW x \in {"open", "aborted", "over"}
  PROVE  LET b == [a EXCEPT !.status = x]
         IN b \in Asked /\ b.status = x /\ b.prompt = a.prompt
PROOF BY DEF Asked

\* A step that asks for nothing new.
LEMMA ChatKeeps ==
  ASSUME ChatInv, NEW new \in Seq(Talk), messages' = new, TrueTo(new, streams, crossed),
         streams' \in Seq(Asked), Len(streams') = Len(streams), crossed' = crossed,
         \A s \in 1..Len(streams) : streams'[s].prompt = streams[s].prompt,
         controller' \in {0, controller}, editing' \subseteq 1..Len(new),
         SavedAs(new), ChatStreams'
  PROVE  ChatInv'
PROOF
<1>1. /\ streams \in Seq(Asked) /\ saved \in Seq(Talk) /\ TrueTo(saved, streams, crossed)
      /\ controller \in 0..Len(streams) /\ Len(streams) \in Nat
  BY DEF ChatInv, ChatTypes, ChatTrue
<1>2. Len(streams) <= Len(streams') /\ crossed \subseteq crossed BY <1>1
<1>3. TrueTo(new, streams', crossed) /\ TrueTo(saved, streams', crossed)
  BY Zenon, <1>1, <1>2, TrueStill
<1>4. ChatTrue' BY Zenon, <1>3 DEF ChatTrue, SavedAs
<1>5. ChatTypes' BY <1>1 DEF ChatTypes, SavedAs
<1>6. ChatSaved' BY Zenon DEF ChatSaved, SavedAs
<1> QED BY Zenon, <1>4, <1>5, <1>6 DEF ChatInv

\* A stream that runs writes to the newest reply.
LEMMA WrittenKeeps ==
  ASSUME ChatInv, NEW s \in 1..Len(streams), Live(s)
  PROVE  /\ Chat!Written(s) \in Seq(Talk)
         /\ Len(Chat!Written(s)) = Len(messages)
         /\ TrueTo(Chat!Written(s), streams, crossed)
         /\ EndsWith(Len(streams), Chat!Written(s))
PROOF
<1> DEFINE u == Chat!Written(s)
           n == Len(messages)
           l == Len(streams)
           m == WrittenMessage(messages[n], s)
<1>1. /\ messages \in Seq(Talk) /\ streams \in Seq(Asked) /\ TrueTo(messages, streams, crossed)
      /\ n \in Nat /\ s \in Nat /\ l \in Nat
  BY DEF ChatInv, ChatTypes, ChatTrue
<1>2. EndsWith(l, messages) /\ s \in Writers(l, crossed)
  BY Zenon DEF ChatInv, ChatStreams, Writers
<1>3. CASE messages = <<>>
  BY <1>1, <1>2, <1>3 DEF Chat!Written
<1>4. CASE messages # <<>>
  <2>1. /\ n \in 1..n /\ messages[n] \in Talk /\ messages[n].role = "assistant"
        /\ messages[n].for = l
    BY <1>1, <1>2, <1>4 DEF EndsWith
  <2>2. m \in Talk /\ m.role = "assistant" /\ m.for = l /\ m.from = messages[n].from \cup {s}
    BY <1>1, <2>1, WrittenType
  <2>3. u = [messages EXCEPT ![n] = m] BY <1>4 DEF Chat!Written, WrittenMessage
  <2> HIDE DEF u, m, l
  <2>4. /\ u \in Seq(Talk) /\ Len(u) = n /\ u[n] = m
        /\ \A j \in 1..(n - 1) : u[j] = messages[j]
    BY <1>1, <2>1, <2>2, <2>3
  <2>5. /\ n - 1 \in 0..Len(messages) /\ n - 1 <= Len(u)
        /\ Len(streams) <= Len(streams) /\ crossed \subseteq crossed
    BY <1>1, <2>1, <2>4
  <2>6. \A i \in 1..(n - 1) : TrueAt(u, i, streams, crossed)
    BY Zenon, <1>1, <2>4, <2>5, TrueKept
  <2>7. TrueAt(u, n, streams, crossed)
    <3>1. TrueAt(messages, n, streams, crossed) BY Zenon, <1>1, <2>1 DEF TrueTo
    <3>2. SubSeq(u, 1, n - 1) = SubSeq(messages, 1, n - 1)
      BY <1>1, <2>4, <2>5, SameBefore
    <3>3. messages[n].from \subseteq Writers(l, crossed) BY <2>1, <3>1 DEF TrueAt
    <3>4. u[n].from \subseteq Writers(u[n].for, crossed) BY <1>2, <2>2, <2>4, <3>3
    <3> QED BY <2>1, <2>2, <2>4, <3>1, <3>2, <3>4 DEF TrueAt
  <2>8. \A i \in 1..n : i \in 1..(n - 1) \/ i = n BY <1>1
  <2>9. TrueTo(u, streams, crossed) BY Zenon, <2>4, <2>6, <2>7, <2>8 DEF TrueTo
  <2>10. EndsWith(l, u) BY <2>2, <2>4 DEF EndsWith
  <2> QED BY <2>4, <2>9, <2>10 DEF u, l
<1> QED BY <1>3, <1>4

\* An editor is opened or closed, or the conversation is saved.
LEMMA EditSteps ==
  ASSUME ChatInv,
         \/ \E i \in 1..MaxMessages : Chat!StartEdit(i) \/ Chat!DropEdit(i)
         \/ Chat!SaveTimeout
  PROVE  ChatInv'
PROOF
<1>1. editing \subseteq 1..Len(messages) /\ DOMAIN messages = 1..Len(messages)
  BY DEF ChatInv, ChatTypes
<1>2. /\ UNCHANGED <<messages, streams, crossed, isStreaming, controller>>
      /\ editing' \subseteq 1..Len(messages)
      /\ SavedAs(messages)
  <2>1. ChatSaved BY DEF ChatInv
  <2>2. ASSUME UNCHANGED <<saved, refused, saveTimer>> PROVE SavedAs(messages)
    BY Zenon, <2>1, <2>2 DEF SavedAs, ChatSaved
  <2>3. ASSUME NEW i \in 1..MaxMessages, Chat!StartEdit(i)
        PROVE  /\ UNCHANGED <<messages, streams, crossed, isStreaming, controller>>
               /\ UNCHANGED <<saved, refused, saveTimer>>
               /\ editing' = editing \cup {i} /\ i \in DOMAIN messages
    BY <2>3 DEF Chat!StartEdit, Chat!talkVars, Chat!storeVars
  <2>4. ASSUME NEW i \in 1..MaxMessages, Chat!DropEdit(i)
        PROVE  /\ UNCHANGED <<messages, streams, crossed, isStreaming, controller>>
               /\ UNCHANGED <<saved, refused, saveTimer>>
               /\ editing' = editing \ {i}
    BY <2>4 DEF Chat!DropEdit, Chat!talkVars, Chat!storeVars
  <2>5. CASE Chat!SaveTimeout
    <3>1. UNCHANGED <<messages, streams, crossed, isStreaming, controller, editing>>
      BY <2>5 DEF Chat!SaveTimeout, Chat!talkVars
    <3>2. SavedAs(messages)
      <4>1. CASE saveTimer BY Zenon, <2>5, <4>1 DEF Chat!SaveTimeout, Chat!Save, SavedAs
      <4>2. CASE ~saveTimer
        <5>1. UNCHANGED <<saved, refused, saveTimer>> BY Zenon, <2>5, <4>2 DEF Chat!SaveTimeout
        <5> QED BY <2>2, <5>1
      <4> QED BY <4>1, <4>2
    <3> QED BY <1>1, <3>1, <3>2
  <2>6. CASE \E i \in 1..MaxMessages : Chat!StartEdit(i) \/ Chat!DropEdit(i)
    BY <1>1, <2>2, <2>3, <2>4, <2>6
  <2> QED BY <2>5, <2>6
<1>3. /\ messages \in Seq(Talk) /\ TrueTo(messages, streams, crossed) /\ streams \in Seq(Asked)
      /\ ChatStreams
  BY DEF ChatInv, ChatTypes, ChatTrue
<1>4. ChatStreams' BY <1>2, <1>3 DEF ChatStreams, Live
<1> QED BY <1>2, <1>3, <1>4, ChatKeeps

\* A stream brings more of its answer.
LEMMA ChunkKeeps ==
  ASSUME ChatInv, NEW s \in 1..MaxStreams,
         NEW kinds \in SUBSET {"reasoning", "content"}, Chat!Chunk(s, kinds)
  PROVE  ChatInv'
PROOF
<1>1. /\ streams \in Seq(Asked) /\ DOMAIN streams = 1..Len(streams)
      /\ editing \subseteq 1..Len(messages)
  BY DEF ChatInv, ChatTypes
<1> DEFINE new == Chat!Written(s)
<1>2. /\ s \in 1..Len(streams) /\ streams[s].status = "open" /\ messages' = new
      /\ UNCHANGED <<streams, crossed, isStreaming, controller, editing>>
      /\ Chat!Persist(messages')
  BY <1>1 DEF Chat!Chunk, Chat!Status
<1>3. Live(s) BY <1>2 DEF Live
<1>4. new \in Seq(Talk) /\ Len(new) = Len(messages) /\ TrueTo(new, streams, crossed)
      /\ EndsWith(Len(streams), new)
  BY Zenon, <1>2, <1>3, WrittenKeeps
<1> HIDE DEF new
<1>5. EndsWith(Len(streams'), messages') BY Zenon, <1>2, <1>4
<1>6. ChatStreams' BY <1>2, <1>5 DEF ChatStreams, ChatInv, Live
<1>7. SavedAs(new) BY Zenon, <1>2, PersistKeeps
<1> QED BY <1>1, <1>2, <1>4, <1>6, <1>7, ChatKeeps

\* A stream ends: all of it came, it failed, or the abort reached it.
LEMMA OverKeeps ==
  ASSUME ChatInv, NEW s \in 1..MaxStreams,
         Chat!Done(s) \/ Chat!Failed(s) \/ Chat!Aborted(s)
  PROVE  ChatInv'
PROOF
<1>1. /\ streams \in Seq(Asked) /\ DOMAIN streams = 1..Len(streams) /\ Len(streams) \in Nat
      /\ messages \in Seq(Talk) /\ TrueTo(messages, streams, crossed)
      /\ editing \subseteq 1..Len(messages)
  BY DEF ChatInv, ChatTypes, ChatTrue
<1>2. s \in 1..Len(streams) /\ Live(s)
  BY <1>1 DEF Chat!Done, Chat!Failed, Chat!Aborted, Chat!Status, Live
<1>3. PICK new : Chat!Over(s, new) /\ new \in {messages, Chat!Written(s)}
  BY Zenon DEF Chat!Done, Chat!Failed, Chat!Aborted
<1>4. /\ new \in Seq(Talk) /\ Len(new) = Len(messages) /\ TrueTo(new, streams, crossed)
      /\ EndsWith(Len(streams), new)
  <2>1. CASE new = messages
    <3>1. EndsWith(Len(streams), messages) BY Zenon, <1>2 DEF ChatInv, ChatStreams
    <3> QED BY <1>1, <2>1, <3>1
  <2>2. CASE new = Chat!Written(s) BY Zenon, <1>2, <2>2, WrittenKeeps
  <2> QED BY Zenon, <1>3, <2>1, <2>2
<1>5. /\ messages' = new /\ controller' = 0 /\ isStreaming' = FALSE
      /\ UNCHANGED <<crossed, editing>>
      /\ streams' = [streams EXCEPT ![s] = [streams[s] EXCEPT !.status = "over"]]
  <2>1. streams' = [streams EXCEPT ![s].status = "over"] BY Zenon, <1>3 DEF Chat!Over
  <2> QED BY Zenon, <1>3, <2>1 DEF Chat!Over
<1>6. SavedAs(new)
  <2>1. CASE new = messages
    <3>1. UNCHANGED <<saved, refused, saveTimer>>
      BY Zenon, <1>3, <2>1 DEF Chat!Over, Chat!storeVars
    <3> QED BY Zenon, <2>1, <3>1 DEF ChatInv, ChatSaved, SavedAs
  <2>2. CASE new # messages
    <3>1. Chat!Persist(new) BY Zenon, <1>3, <2>2 DEF Chat!Over
    <3> QED BY Zenon, <3>1, PersistKeeps
  <2> QED BY <2>1, <2>2
<1> DEFINE ended == [streams[s] EXCEPT !.status = "over"]
<1>7. ended \in Asked /\ ended.status = "over" /\ ended.prompt = streams[s].prompt
  <2>1. streams[s] \in Asked BY <1>1, <1>2
  <2> QED BY <2>1, AskedType
<1>8. streams' = [streams EXCEPT ![s] = ended] BY <1>5
<1> HIDE DEF ended
<1>9. /\ streams' \in Seq(Asked) /\ Len(streams') = Len(streams) /\ streams'[s] = ended
      /\ \A r \in 1..Len(streams) : r # s => streams'[r] = streams[r]
  BY <1>1, <1>2, <1>7, <1>8
<1>10. \A r \in 1..Len(streams) : streams'[r].prompt = streams[r].prompt
  BY <1>7, <1>9
<1>11. ASSUME NEW r \in 1..Len(streams), Live(r)'
       PROVE  Live(r) /\ r \in crossed
  <2>1. r # s /\ Live(r) BY <1>7, <1>9, <1>11 DEF Live
  <2> QED BY Zenon, <1>2, <2>1 DEF ChatInv, ChatStreams
<1>12. ChatStreams'
  <2>1. EndsWith(Len(streams'), messages') BY Zenon, <1>4, <1>5, <1>9
  <2>2. \A r \in 1..Len(streams) : Live(r)' /\ r # Len(streams)
           => r \in crossed /\ Len(streams) \in crossed
    BY Zenon, <1>11 DEF ChatInv, ChatStreams
  <2> QED BY Zenon, <1>5, <1>9, <1>11, <2>1, <2>2 DEF ChatStreams
<1>13. controller' \in {0, controller} /\ editing' \subseteq 1..Len(new)
  BY <1>1, <1>4, <1>5
<1> QED BY Zenon, <1>4, <1>5, <1>6, <1>9, <1>10, <1>12, <1>13, ChatKeeps

\* The streams, with the controller's aborted.
LEMMA AbortedType ==
  ASSUME ChatInv, isStreaming
  PROVE  /\ Chat!AbortedStreams \in Seq(Asked) /\ Len(Chat!AbortedStreams) = Len(streams)
         /\ \A r \in 1..Len(streams) :
              /\ Chat!AbortedStreams[r].prompt = streams[r].prompt
              /\ Chat!AbortedStreams[r].status # "over" <=> Live(r)
PROOF
<1> DEFINE cut == [streams[controller] EXCEPT !.status = "aborted"]
           u == Chat!AbortedStreams
<1>1. streams \in Seq(Asked) /\ controller \in 1..Len(streams) /\ controller # 0 /\ Live(controller)
  BY DEF ChatInv, ChatTypes, ChatStreams
<1>2. u = [streams EXCEPT ![controller] = cut] BY Zenon, <1>1 DEF Chat!AbortedStreams
<1>3. cut \in Asked /\ cut.prompt = streams[controller].prompt /\ cut.status = "aborted"
  <2>1. streams[controller] \in Asked BY <1>1
  <2> QED BY <2>1, AskedType
<1> HIDE DEF cut, u
<1>4. /\ u \in Seq(Asked) /\ Len(u) = Len(streams) /\ u[controller] = cut
      /\ \A r \in 1..Len(streams) : r # controller => u[r] = streams[r]
  BY <1>1, <1>2, <1>3
<1>5. \A r \in 1..Len(streams) : u[r].prompt = streams[r].prompt BY <1>3, <1>4
<1>6. \A r \in 1..Len(streams) : u[r].status # "over" <=> Live(r)
  BY <1>1, <1>3, <1>4 DEF Live
<1> QED BY Zenon, <1>4, <1>5, <1>6 DEF u

\* The reply is cancelled, a new chat is begun or the page is loaded again.
LEMMA LeaveSteps ==
  ASSUME ChatInv, Chat!CancelStreaming \/ Chat!NewChat \/ Chat!Reload
  PROVE  ChatInv'
PROOF
<1>1. /\ streams \in Seq(Asked) /\ DOMAIN streams = 1..Len(streams) /\ Len(streams) \in Nat
      /\ messages \in Seq(Talk) /\ TrueTo(messages, streams, crossed)
      /\ saved \in Seq(Talk) /\ TrueTo(saved, streams, crossed)
      /\ editing \subseteq 1..Len(messages) /\ controller \in 0..Len(streams)
      /\ ChatStreams
  BY DEF ChatInv, ChatTypes, ChatTrue
<1>2. ASSUME UNCHANGED <<crossed, isStreaming, controller>>, Len(streams') = Len(streams),
             \A r \in 1..Len(streams) : streams'[r].status # "over" <=> Live(r),
             messages' = messages \/ messages' = <<>>
      PROVE  ChatStreams'
  <2>1. \A r \in 1..Len(streams) : Live(r)' <=> Live(r) BY Zenon, <1>2 DEF Live
  <2>2. EndsWith(Len(streams), messages) => EndsWith(Len(streams), messages')
    BY Zenon, <1>2 DEF EndsWith
  <2>3. isStreaming => controller \in 1..Len(streams) BY <1>1 DEF ChatStreams
  <2>4. isStreaming' => controller' = Len(streams') /\ controller' # 0 /\ Live(controller)'
    <3>1. isStreaming => streams'[controller].status # "over"
      BY Zenon, <1>1, <1>2, <2>3 DEF ChatStreams
    <3>2. isStreaming' => Live(controller)' BY Zenon, <1>2, <3>1 DEF Live
    <3> QED BY Zenon, <1>1, <1>2, <3>2 DEF ChatStreams
  <2>5. ASSUME NEW r \in 1..Len(streams'), Live(r)'
        PROVE  /\ EndsWith(Len(streams'), messages')
               /\ r # Len(streams') => r \in crossed' /\ Len(streams') \in crossed'
               /\ r \notin crossed' => isStreaming' /\ controller' = r
    <3>1. r \in 1..Len(streams) /\ Live(r) BY Zenon, <1>2, <2>1, <2>5
    <3> QED BY Zenon, <1>1, <1>2, <2>2, <3>1 DEF ChatStreams
  <2> QED BY Zenon, <2>4, <2>5 DEF ChatStreams
<1>3. CASE Chat!CancelStreaming
  <2>1. /\ isStreaming /\ streams' = Chat!AbortedStreams
        /\ UNCHANGED <<messages, crossed, isStreaming, controller, saved, refused, saveTimer,
                       editing>>
    BY <1>3 DEF Chat!CancelStreaming, Chat!storeVars
  <2>2. /\ streams' \in Seq(Asked) /\ Len(streams') = Len(streams)
        /\ \A r \in 1..Len(streams) : streams'[r].prompt = streams[r].prompt
        /\ \A r \in 1..Len(streams) : streams'[r].status # "over" <=> Live(r)
    BY Zenon, <2>1, AbortedType
  <2>3. ChatStreams' BY <1>2, <2>1, <2>2
  <2>4. SavedAs(messages) BY Zenon, <2>1 DEF ChatInv, ChatSaved, SavedAs
  <2> QED BY <1>1, <2>1, <2>2, <2>3, <2>4, ChatKeeps
<1>4. CASE Chat!NewChat
  <2>1. /\ streams' = IF isStreaming THEN Chat!AbortedStreams ELSE streams
        /\ messages' = <<>> /\ editing' = {} /\ Chat!Persist(<<>>)
        /\ UNCHANGED <<crossed, isStreaming, controller>>
    BY <1>4 DEF Chat!NewChat
  <2>2. /\ streams' \in Seq(Asked) /\ Len(streams') = Len(streams)
        /\ \A r \in 1..Len(streams) : streams'[r].prompt = streams[r].prompt
        /\ \A r \in 1..Len(streams) : streams'[r].status # "over" <=> Live(r)
    <3>1. CASE isStreaming
      <4>1. streams' = Chat!AbortedStreams BY <2>1, <3>1
      <4> QED BY Zenon, <3>1, <4>1, AbortedType
    <3>2. CASE ~isStreaming BY <1>1, <2>1, <3>2 DEF Live
    <3> QED BY <3>1, <3>2
  <2>3. <<>> \in Seq(Talk) /\ Len(<<>>) = 0 OBVIOUS
  <2>4. TrueTo(<<>>, streams, crossed) BY <2>3 DEF TrueTo
  <2>5. ChatStreams' BY <1>2, <2>1, <2>2
  <2>6. SavedAs(<<>>) BY Zenon, <2>1, PersistKeeps
  <2> QED BY <2>1, <2>2, <2>3, <2>4, <2>5, <2>6, ChatKeeps
<1>5. CASE Chat!Reload
  <2>1. /\ messages' = saved /\ saved' = saved /\ controller' = 0 /\ isStreaming' = FALSE
        /\ crossed' = crossed /\ editing' = {}
        /\ streams' = [s \in DOMAIN streams |-> [streams[s] EXCEPT !.status = "over"]]
    BY Zenon, <1>5 DEF Chat!Reload
  <2>2. /\ DOMAIN streams' = 1..Len(streams)
        /\ \A r \in 1..Len(streams) : streams'[r] = [streams[r] EXCEPT !.status = "over"]
    BY Zenon, <1>1, <2>1
  <2>3. ASSUME NEW r \in 1..Len(streams)
        PROVE  /\ streams'[r] \in Asked /\ streams'[r].prompt = streams[r].prompt
               /\ streams'[r].status = "over"
    <3>1. streams[r] \in Asked BY <1>1
    <3> QED BY <2>2, <3>1, AskedType
  <2>4. /\ streams' \in Seq(Asked) /\ Len(streams') = Len(streams)
    <3>1. streams' = [r \in 1..Len(streams) |-> streams'[r]] BY Zenon, <1>1, <2>1, <2>2
    <3>2. streams' \in [1..Len(streams) -> Asked] BY <2>3, <3>1
    <3>3. streams' \in Seq(Asked) BY <1>1, <3>2, SeqDef
    <3> QED BY <1>1, <2>2, <3>3, LenProperties
  <2>5. \A r \in 1..Len(streams') : ~Live(r)' BY <2>3, <2>4 DEF Live
  <2>6. ChatStreams' BY Zenon, <2>1, <2>5 DEF ChatStreams
  <2>7. SavedAs(saved) BY Zenon, <2>1 DEF SavedAs
  <2>8. controller' \in {0, controller} /\ editing' \subseteq 1..Len(saved) BY <2>1
  <2> QED BY Zenon, <1>1, <2>1, <2>3, <2>4, <2>6, <2>7, <2>8, ChatKeeps
<1> QED BY <1>3, <1>4, <1>5

LEMMA ChatStep == ASSUME ChatInv, [Chat!Next]_(Chat!vars) PROVE ChatInv'
PROOF
<1>1. CASE UNCHANGED Chat!vars
  BY <1>1 DEF Chat!vars, Chat!talkVars, Chat!storeVars, ChatInv, ChatTypes, ChatTrue,
              ChatStreams, ChatSaved, Live
<1>2. CASE Chat!Next
  <2>1. \A s \in 1..MaxStreams, kinds \in SUBSET {"reasoning", "content"} :
          Chat!Chunk(s, kinds) => ChatInv'
    BY ChunkKeeps
  <2>2. \A s \in 1..MaxStreams : Chat!Done(s) \/ Chat!Failed(s) \/ Chat!Aborted(s) => ChatInv'
    BY OverKeeps
  <2> QED BY Zenon, <1>2, <2>1, <2>2, AskSteps, EditSteps, LeaveSteps DEF Chat!Next
<1> QED BY <1>1, <1>2

LEMMA ChatMeans ==
  ASSUME ChatInv
  PROVE  Chat!AnswersWhatIsAbove /\ Chat!CancelReaches /\ Chat!SavedOrScheduled
PROOF
<1>1. /\ DOMAIN messages = 1..Len(messages) /\ DOMAIN streams = 1..Len(streams)
      /\ controller \in 0..Len(streams) /\ Len(streams) \in Nat
      /\ TrueTo(messages, streams, crossed) /\ ChatStreams /\ ChatSaved
  BY DEF ChatInv, ChatTypes, ChatTrue
<1>2. Chat!AnswersWhatIsAbove
  BY Zenon, <1>1 DEF Chat!AnswersWhatIsAbove, TrueTo, TrueAt, Writers
<1>3. Chat!CancelReaches
  <2>1. Chat!Runs = {s \in 1..Len(streams) : Live(s)} BY Zenon, RunsAre DEF ChatInv
  <2>2. isStreaming => controller \in 1..Len(streams) BY <1>1 DEF ChatStreams
  <2> QED BY Zenon, <1>1, <2>1, <2>2 DEF Chat!CancelReaches, ChatStreams
<1>4. Chat!SavedOrScheduled BY Zenon, <1>1 DEF Chat!SavedOrScheduled, ChatSaved
<1> QED BY <1>2, <1>3, <1>4

HIDE DEF messages, streams, crossed, isStreaming, controller, saved, refused, saveTimer, recent,
         editing
-----------------------------------------------------------------------------
(* The store: the active profile and the Playground's list.                *)

enabled == v1
source == v2
wire == v4
intro == v5
due == v6
told == v7
lost == v8
overtaken == v9
serverProfile == v10
serverModels == v11
activeProfile == v13
calls == v14
mounted == v16
debounce == v17
listed == v18
fetch == v19
queued == v20
stale == v21
USE DEF enabled, source, wire, intro, due, told, lost, overtaken, serverProfile, serverModels,
        activeProfile, calls, mounted, debounce, listed, fetch, queued, stale

Value == Profiles \cup {None}
Event0 == [type : {"modelStatus", "profileChanged"}, value : Value]
InHand == [stage : {"todo", "read", "sent", "idle", "models"}, value : Value]
Call == [stage : {"fetch", "fetched", "put", "putDone", "answered"}, fresh : BOOLEAN,
         value : Value]
Fetch == [stage : {"none", "sent", "answered"}, fresh : BOOLEAN, value : Nat]

StoreTypes ==
  /\ wire \in Seq(Event0) /\ intro \in InHand /\ due \in Nat /\ told \in InHand
  /\ serverProfile \in Value /\ serverModels \in Nat
  /\ activeProfile \in Value /\ calls \subseteq Call /\ fetch \in Fetch

\* Messages of a type are on the way.
Under(type, w) == \E i \in 1..Len(w) : w[i].type = type

\* The last profile on the way is the server's.
LastIs(p, w) ==
  \A i \in 1..Len(w) :
    w[i].type = "profileChanged" /\ (\A j \in 1..Len(w) : i < j => w[j].type # "profileChanged")
    => w[i].value = p

\* The connection has sent the server's profile, and nothing went wrong with it.
Faultless == due = 0 /\ told.stage # "read" /\ intro.stage = "sent" /\ ~lost /\ ~overtaken

\* The page shows the profile p, and no answer that it would take says otherwise.
ShowsProfile(p) ==
  /\ activeProfile = p
  /\ \A c \in calls : c.stage \in {"fetched", "answered"} /\ c.fresh => c.value = p

\* What the last of the subscriber's reads brought is the server's profile, and so is what
\* the initial state reads, unless it was overtaken; what was sent last is what the page
\* shows in the end.
ProfileInv ==
  Store!Connected =>
    /\ due = 0 /\ told.stage = "read" => told.value = serverProfile
    /\ due = 0 /\ told.stage # "read" /\ intro.stage = "read" /\ ~overtaken
         => intro.value = serverProfile
    /\ source = "open" => intro.stage = "sent"
    /\ source = "accepted" /\ intro.stage = "sent" /\ ~lost => Under("profileChanged", wire)
    /\ Faultless => LastIs(serverProfile, wire)
    /\ Faultless /\ source = "open" /\ ~Under("profileChanged", wire) => ShowsProfile(serverProfile)

\* Nothing that would bring another list: what is listed or asked for is the latest.
Quiet ==
  /\ mounted /\ ~Under("modelStatus", wire) /\ ~debounce /\ ~queued
  /\ ~lost /\ due = 0 /\ told.stage = "idle"
ListInv ==
  source = "open" /\ Quiet =>
    /\ fetch.stage = "none" /\ ~stale => listed = serverModels
    /\ fetch.stage # "none" => fetch.fresh
    /\ fetch.stage = "answered" => fetch.value = serverModels

StoreInv == StoreTypes /\ ProfileInv /\ ListInv

LEMMA Appended ==
  ASSUME NEW w \in Seq(Event0), NEW m \in Event0
  PROVE  /\ Append(w, m) \in Seq(Event0)
         /\ \A type : Under(type, Append(w, m)) <=> Under(type, w) \/ m.type = type
         /\ m.type = "profileChanged" => LastIs(m.value, Append(w, m))
         /\ \A p : m.type # "profileChanged" /\ LastIs(p, w) => LastIs(p, Append(w, m))
PROOF
<1> DEFINE v == Append(w, m)
           n == Len(w) + 1
<1>1. /\ Len(w) \in Nat /\ v \in Seq(Event0) /\ Len(v) = n /\ n \in 1..n /\ v[n] = m
      /\ \A i \in 1..Len(w) : i \in 1..n /\ v[i] = w[i] /\ i < n
      /\ \A i \in 1..n : i = n \/ i \in 1..Len(w)
  OBVIOUS
<1> HIDE DEF v, n
<1>2. ASSUME NEW type PROVE Under(type, v) <=> Under(type, w) \/ m.type = type
  <2>1. ASSUME Under(type, v) PROVE Under(type, w) \/ m.type = type
    BY Zenon, <1>1, <2>1 DEF Under
  <2>2. ASSUME Under(type, w) PROVE Under(type, v)
    BY Zenon, <1>1, <2>2 DEF Under
  <2>3. ASSUME m.type = type PROVE Under(type, v)
    BY Zenon, <1>1, <2>3 DEF Under
  <2> QED BY Zenon, <2>1, <2>2, <2>3
<1>3. ASSUME m.type = "profileChanged" PROVE LastIs(m.value, v)
  <2> SUFFICES ASSUME NEW i \in 1..Len(v), v[i].type = "profileChanged",
                      \A j \in 1..Len(v) : i < j => v[j].type # "profileChanged"
               PROVE  v[i].value = m.value
    BY DEF LastIs
  <2>1. ~(i < n) BY <1>1, <1>3
  <2>2. i = n BY <1>1, <2>1
  <2> QED BY <1>1, <2>2
<1>4. ASSUME NEW p, m.type # "profileChanged", LastIs(p, w) PROVE LastIs(p, v)
  <2> SUFFICES ASSUME NEW i \in 1..Len(v), v[i].type = "profileChanged",
                      \A j \in 1..Len(v) : i < j => v[j].type # "profileChanged"
               PROVE  v[i].value = p
    BY DEF LastIs
  <2>1. i \in 1..Len(w) BY <1>1, <1>4
  <2> QED BY <1>1, <1>4, <2>1 DEF LastIs
<1> QED BY <1>1, <1>2, <1>3, <1>4 DEF v

LEMMA Consumed ==
  ASSUME NEW w \in Seq(Event0), w # <<>>
  PROVE  /\ Tail(w) \in Seq(Event0) /\ Head(w) \in Event0
         /\ \A type : Under(type, w) <=> Head(w).type = type \/ Under(type, Tail(w))
         /\ \A p : LastIs(p, w) =>
              /\ LastIs(p, Tail(w))
              /\ Head(w).type = "profileChanged" /\ ~Under("profileChanged", Tail(w))
                   => Head(w).value = p
PROOF
<1> DEFINE v == Tail(w)
<1>1. /\ Len(w) \in Nat /\ Len(w) > 0 /\ v \in Seq(Event0) /\ Len(v) = Len(w) - 1
      /\ Head(w) = w[1] /\ w[1] \in Event0 /\ 1 \in 1..Len(w)
      /\ \A i \in 1..Len(v) : v[i] = w[i + 1] /\ i + 1 \in 1..Len(w)
  OBVIOUS
<1> HIDE DEF v
<1>2. \A i \in 1..Len(w) : i = 1 \/ \E k \in 1..Len(v) : i = k + 1 /\ w[i] = v[k]
  <2> SUFFICES ASSUME NEW i \in 1..Len(w), i # 1
               PROVE  \E k \in 1..Len(v) : i = k + 1 /\ w[i] = v[k]
    OBVIOUS
  <2>1. i - 1 \in 1..Len(v) /\ i = (i - 1) + 1 BY <1>1
  <2> QED BY <1>1, <2>1
<1>3. \A type : Under(type, w) <=> w[1].type = type \/ Under(type, v)
  <2> SUFFICES ASSUME NEW type PROVE Under(type, w) <=> w[1].type = type \/ Under(type, v)
    OBVIOUS
  <2>1. ASSUME Under(type, w) PROVE w[1].type = type \/ Under(type, v)
    BY Zenon, <1>2, <2>1 DEF Under
  <2>2. ASSUME w[1].type = type PROVE Under(type, w)
    BY Zenon, <1>1, <2>2 DEF Under
  <2>3. ASSUME Under(type, v) PROVE Under(type, w)
    BY Zenon, <1>1, <2>3 DEF Under
  <2> QED BY Zenon, <2>1, <2>2, <2>3
<1>4. ASSUME NEW p, LastIs(p, w)
      PROVE  LastIs(p, v) /\ (w[1].type = "profileChanged" /\ ~Under("profileChanged", v)
                                => w[1].value = p)
  <2>1. ASSUME NEW i \in 1..Len(v), v[i].type = "profileChanged",
               \A j \in 1..Len(v) : i < j => v[j].type # "profileChanged"
        PROVE  v[i].value = p
    <3>1. i + 1 \in 1..Len(w) /\ w[i + 1] = v[i] BY <1>1
    <3>2. ASSUME NEW j \in 1..Len(w), i + 1 < j
          PROVE  w[j].type # "profileChanged"
      <4>1. PICK k \in 1..Len(v) : j = k + 1 BY <1>2, <3>2
      <4> QED BY <1>1, <2>1, <3>2, <4>1
    <3> QED BY <1>4, <2>1, <3>1, <3>2 DEF LastIs
  <2>2. ASSUME w[1].type = "profileChanged", ~Under("profileChanged", v)
        PROVE  w[1].value = p
    <3>1. \A j \in 1..Len(w) : j # 1 => w[j].type # "profileChanged"
      BY Zenon, <1>2, <2>2 DEF Under
    <3> QED BY <1>1, <1>4, <2>2, <3>1 DEF LastIs
  <2> QED BY <2>1, <2>2 DEF LastIs
<1> QED BY <1>1, <1>3, <1>4 DEF v

LEMMA StoreBegins == ASSUME Store!Init PROVE StoreInv /\ (queued => fetch.stage # "none")
PROOF
<1>1. None \in Value /\ Store!NoFetch \in Fetch /\ Store!Idle \in InHand
      /\ Store!Hand("sent", None) \in InHand
  BY DEF Value, Store!NoFetch, Store!Fetching, Fetch, Store!Idle, Store!Hand, InHand
<1>2. StoreTypes BY <1>1 DEF Store!Init, StoreTypes
<1>3. ProfileInv /\ ListInv BY DEF Store!Init, ProfileInv, Store!Connected, ListInv, Quiet
<1> QED BY <1>2, <1>3 DEF StoreInv, Store!Init

\* What send does with a message.
LEMMA Sends ==
  ASSUME StoreTypes, NEW m \in Event0, Store!Send(m)
  PROVE  /\ wire' \in Seq(Event0) /\ (lost => lost')
         /\ ~lost' =>
              /\ \A type : Under(type, wire') <=> Under(type, wire) \/ m.type = type
              /\ m.type = "profileChanged" => LastIs(m.value, wire')
              /\ \A p : m.type # "profileChanged" /\ LastIs(p, wire) => LastIs(p, wire')
PROOF
<1>1. wire \in Seq(Event0) BY DEF StoreTypes
<1>2. CASE wire' = Append(wire, m) /\ lost' = lost BY Zenon, <1>1, <1>2, Appended
<1>3. CASE wire' = wire /\ lost' = TRUE BY Zenon, <1>1, <1>3
<1> QED BY Zenon, <1>2, <1>3 DEF Store!Send

LEMMA Messages0 ==
  /\ Store!ModelStatus \in Event0 /\ Store!ModelStatus.type = "modelStatus"
  /\ \A p \in Value : /\ Store!ProfileChanged(p) \in Event0 /\ Store!ProfileChanged(p).value = p
                      /\ Store!ProfileChanged(p).type = "profileChanged"
PROOF BY DEF Event0, Value, Store!ModelStatus, Store!ProfileChanged

LEMMA Hands ==
  ASSUME NEW s \in {"todo", "read", "sent", "idle", "models"}, NEW p \in Value
  PROVE  Store!Hand(s, p) \in InHand /\ Store!Hand(s, p).stage = s /\ Store!Hand(s, p).value = p
PROOF BY DEF InHand, Store!Hand

\* The connection is told that the models changed.
LEMMA ModelsTold ==
  ASSUME StoreInv, Store!Connected, Store!Send(Store!ModelStatus),
         UNCHANGED <<source, intro, due, overtaken, serverProfile, activeProfile, calls>>,
         told' \in InHand, told' = told \/ (told.stage # "read" /\ told'.stage # "read")
  PROVE  ProfileInv' /\ wire' \in Seq(Event0) /\ (lost' \/ Under("modelStatus", wire'))
PROOF
<1>1. /\ wire' \in Seq(Event0) /\ (lost => lost')
      /\ ~lost' => /\ Under("modelStatus", wire')
                   /\ Under("profileChanged", wire') <=> Under("profileChanged", wire)
                   /\ LastIs(serverProfile, wire) => LastIs(serverProfile, wire')
  <2>1. StoreTypes /\ "modelStatus" # "profileChanged" BY DEF StoreInv
  <2> DEFINE m == Store!ModelStatus
  <2>2. m \in Event0 /\ m.type = "modelStatus" BY Zenon, Messages0
  <2>3. Store!Send(m) OBVIOUS
  <2> HIDE DEF m
  <2> QED BY <2>1, <2>2, <2>3, Sends
<1>2. Faultless' => Faultless /\ ~lost' BY <1>1 DEF Faultless
<1>3. ShowsProfile(serverProfile)' <=> ShowsProfile(serverProfile) BY DEF ShowsProfile
<1>4. /\ due = 0 /\ told.stage = "read" => told.value = serverProfile
      /\ due = 0 /\ told.stage # "read" /\ intro.stage = "read" /\ ~overtaken
           => intro.value = serverProfile
      /\ source = "open" => intro.stage = "sent"
      /\ source = "accepted" /\ intro.stage = "sent" /\ ~lost => Under("profileChanged", wire)
      /\ Faultless => LastIs(serverProfile, wire)
      /\ Faultless /\ source = "open" /\ ~Under("profileChanged", wire) => ShowsProfile(serverProfile)
  BY Zenon DEF StoreInv, ProfileInv
<1>5. /\ due' = 0 /\ told'.stage = "read" => told'.value = serverProfile'
      /\ due' = 0 /\ told'.stage # "read" /\ intro'.stage = "read" /\ ~overtaken'
           => intro'.value = serverProfile'
      /\ source' = "open" => intro'.stage = "sent"
  BY <1>4
<1>6. source' = "accepted" /\ intro'.stage = "sent" /\ ~lost' => Under("profileChanged", wire')
  BY <1>1, <1>4
<1>7. Faultless' => LastIs(serverProfile', wire') BY <1>1, <1>2, <1>4
<1>8. Faultless' /\ source' = "open" /\ ~Under("profileChanged", wire') => ShowsProfile(serverProfile)'
  BY <1>1, <1>2, <1>3, <1>4
<1>9. ProfileInv' BY Zenon, <1>5, <1>6, <1>7, <1>8 DEF ProfileInv
<1> QED BY <1>1, <1>9

\* The connection is accepted, and sends its initial state.
LEMMA IntroSteps ==
  ASSUME StoreInv, Store!Accept \/ Store!IntroReads \/ Store!IntroSends
  PROVE  StoreInv'
PROOF
<1> USE DEF StoreInv
<1>1. /\ source' = "accepted" /\ wire' \in Seq(Event0) /\ intro' \in InHand /\ due' \in Nat
      /\ told' \in InHand /\ ProfileInv'
      /\ UNCHANGED <<serverProfile, serverModels, activeProfile, calls, fetch>>
  <2>1. None \in Value /\ serverProfile \in Value /\ due \in Nat /\ told \in InHand
        /\ intro \in InHand
    BY DEF Value, StoreTypes
  <2>2. CASE Store!Accept
    <3>1. /\ source' = "accepted" /\ wire' = <<>> /\ due' = 0
          /\ intro' = Store!Hand("todo", None) /\ told' = Store!Hand("idle", None)
          /\ UNCHANGED <<serverProfile, serverModels, activeProfile, calls, fetch>>
      BY <2>2 DEF Store!Accept, Store!Idle, Store!server, Store!profile, Store!playground
    <3>2. /\ intro' \in InHand /\ intro'.stage = "todo" /\ told' \in InHand
          /\ told'.stage = "idle" /\ wire' \in Seq(Event0)
      BY <2>1, <3>1, Hands
    <3>3. ProfileInv' BY <3>1, <3>2 DEF ProfileInv, Faultless
    <3> QED BY <3>1, <3>2, <3>3
  <2>3. CASE Store!IntroReads
    <3>1. /\ Store!Connected /\ intro.stage = "todo" /\ intro' = Store!Hand("read", serverProfile)
          /\ Store!Send(Store!ModelStatus)
          /\ UNCHANGED <<source, due, told, overtaken, serverProfile, serverModels, activeProfile,
                         calls, fetch>>
      BY <2>3 DEF Store!IntroReads, Store!server, Store!profile, Store!playground
    <3>2. intro' \in InHand /\ intro'.stage = "read" /\ intro'.value = serverProfile
      BY <2>1, <3>1, Hands
    <3>3. source = "accepted"
      BY <3>1 DEF Store!Connected, ProfileInv
    <3>4. wire' \in Seq(Event0) BY Zenon, <3>1, Messages0, Sends
    <3>5. ProfileInv' BY <3>1, <3>2, <3>3 DEF ProfileInv, Store!Connected, Faultless
    <3> QED BY <2>1, <3>1, <3>2, <3>3, <3>4, <3>5
  <2>4. CASE Store!IntroSends
    <3> DEFINE m == Store!ProfileChanged(intro.value)
    <3>1. /\ Store!Connected /\ intro.stage = "read" /\ intro' = Store!Hand("sent", None)
          /\ Store!Send(m)
          /\ UNCHANGED <<source, due, told, overtaken, serverProfile, serverModels, activeProfile,
                         calls, fetch>>
      BY <2>4 DEF Store!IntroSends, Store!server, Store!profile, Store!playground
    <3>2. intro' \in InHand /\ intro'.stage = "sent" /\ intro.value \in Value
      BY <2>1, <3>1, Hands DEF InHand
    <3>3. source = "accepted"
      BY <3>1 DEF Store!Connected, ProfileInv
    <3>4. m \in Event0 /\ m.type = "profileChanged" /\ m.value = intro.value
      BY Zenon, <3>2, Messages0
    <3> HIDE DEF m
    <3>5. /\ wire' \in Seq(Event0)
          /\ ~lost' => Under("profileChanged", wire') /\ LastIs(intro.value, wire')
      BY <3>1, <3>4, Sends
    <3>6. Faultless' => LastIs(serverProfile', wire')
      <4>1. due = 0 /\ told.stage # "read" /\ ~overtaken => intro.value = serverProfile
        BY <3>1 DEF ProfileInv
      <4> QED BY <3>1, <3>5, <4>1 DEF Faultless
    <3>7. due' = 0 /\ told'.stage = "read" => told'.value = serverProfile'
      BY <3>1 DEF ProfileInv
    <3>8. ProfileInv' BY <3>1, <3>2, <3>3, <3>5, <3>6, <3>7 DEF ProfileInv
    <3> QED BY <2>1, <3>1, <3>2, <3>3, <3>5, <3>8
  <2> QED BY <2>2, <2>3, <2>4
<1>2. ListInv' BY <1>1 DEF ListInv
<1>3. StoreTypes' BY <1>1 DEF StoreTypes
<1> QED BY <1>1, <1>2, <1>3

\* The connection sends what has changed, and the models change.
LEMMA SubscriberSteps ==
  ASSUME StoreInv,
         \/ Store!SubscriberReads \/ Store!SubscriberSends \/ Store!SubscriberSendsModels
         \/ Store!ModelsChange
  PROVE  StoreInv'
PROOF
<1> USE DEF StoreInv
<1>1. /\ None \in Value /\ serverProfile \in Value /\ due \in Nat /\ told \in InHand
      /\ intro \in InHand /\ serverModels \in Nat
  BY DEF Value, StoreTypes
<1>2. ASSUME UNCHANGED <<serverProfile, activeProfile, calls, fetch, intro>>,
             wire' \in Seq(Event0), told' \in InHand, due' \in Nat, serverModels' \in Nat,
             ProfileInv', ~Quiet' \/ source' # "open"
      PROVE  StoreInv'
  <2>1. StoreTypes' BY <1>2 DEF StoreTypes
  <2>2. ListInv' BY Zenon, <1>2 DEF ListInv
  <2> QED BY <1>2, <2>1, <2>2
<1>3. CASE Store!SubscriberReads
  <2>1. /\ due > 0 /\ due' = due - 1 /\ told' = Store!Hand("read", serverProfile)
        /\ UNCHANGED <<wire, lost, overtaken, intro, source, serverProfile, serverModels,
                       activeProfile, calls, fetch>>
    BY <1>3 DEF Store!SubscriberReads, Store!server, Store!profile, Store!playground
  <2>2. told' \in InHand /\ told'.stage = "read" /\ told'.value = serverProfile
    BY <1>1, <2>1, Hands
  <2>3. ProfileInv' BY <2>1, <2>2 DEF ProfileInv, Store!Connected, Faultless
  <2>4. ~Quiet' BY <2>2 DEF Quiet
  <2>5. wire' \in Seq(Event0) BY <2>1 DEF StoreTypes
  <2>6. due' \in Nat BY <1>1, <2>1
  <2> QED BY <1>1, <1>2, <2>1, <2>2, <2>3, <2>4, <2>5, <2>6
<1>4. CASE Store!SubscriberSends
  <2> DEFINE m == Store!ProfileChanged(told.value)
  <2>1. /\ Store!Connected /\ told.stage = "read" /\ told' = Store!Hand("models", None)
        /\ Store!Send(m)
        /\ UNCHANGED <<intro, due, source, serverProfile, serverModels, activeProfile, calls,
                       fetch>>
    BY <1>4 DEF Store!SubscriberSends, Store!server, Store!profile, Store!playground
  <2>2. ~overtaken' => ~overtaken /\ (intro.stage = "read" => intro.value = told.value)
    BY Zenon, <1>4 DEF Store!SubscriberSends
  <2>3. told' \in InHand /\ told'.stage = "models" /\ told.value \in Value
    BY <1>1, <2>1, Hands DEF InHand
  <2>4. m \in Event0 /\ m.type = "profileChanged" /\ m.value = told.value
    BY Zenon, <2>3, Messages0
  <2> HIDE DEF m
  <2>5. /\ wire' \in Seq(Event0)
        /\ ~lost' => Under("profileChanged", wire') /\ LastIs(told.value, wire')
    BY <2>1, <2>4, Sends
  <2>6. due = 0 => told.value = serverProfile BY <2>1 DEF ProfileInv
  <2>7. Faultless' => LastIs(serverProfile', wire') BY <2>1, <2>5, <2>6 DEF Faultless
  <2>8. due' = 0 /\ intro'.stage = "read" /\ ~overtaken' => intro'.value = serverProfile'
    BY <2>1, <2>2, <2>6
  <2>9. source' = "open" => intro'.stage = "sent" BY <2>1 DEF ProfileInv
  <2>10. Faultless' => Under("profileChanged", wire') BY <2>5 DEF Faultless
  <2>11. ProfileInv' BY Zenon, <2>3, <2>5, <2>7, <2>8, <2>9, <2>10 DEF ProfileInv
  <2>12. ~Quiet' BY <2>3 DEF Quiet
  <2> QED BY <1>1, <1>2, <2>1, <2>3, <2>5, <2>11, <2>12
<1>5. CASE Store!SubscriberSendsModels
  <2>1. /\ Store!Connected /\ told.stage = "models" /\ told' = Store!Hand("idle", None)
        /\ Store!Send(Store!ModelStatus)
        /\ UNCHANGED <<intro, due, overtaken, source, serverProfile, serverModels, activeProfile,
                       calls, fetch>>
    BY <1>5 DEF Store!SubscriberSendsModels, Store!Idle, Store!server, Store!profile,
                Store!playground
  <2>2. told' \in InHand /\ told'.stage = "idle" BY <1>1, <2>1, Hands
  <2>3. ProfileInv' /\ wire' \in Seq(Event0) /\ (lost' \/ Under("modelStatus", wire'))
    BY <2>1, <2>2, ModelsTold
  <2>4. ~Quiet' BY Zenon, <2>3 DEF Quiet
  <2> QED BY <1>1, <1>2, <2>1, <2>2, <2>3, <2>4
<1>6. CASE Store!ModelsChange
  <2>1. /\ serverModels' = serverModels + 1
        /\ UNCHANGED <<intro, due, told, overtaken, source, serverProfile, activeProfile, calls,
                       fetch>>
    BY <1>6 DEF Store!ModelsChange, Store!profile, Store!playground
  <2>2. CASE Store!Connected
    <3>1. Store!Send(Store!ModelStatus) BY Zenon, <1>6, <2>2 DEF Store!ModelsChange
    <3>2. ProfileInv' /\ wire' \in Seq(Event0) /\ (lost' \/ Under("modelStatus", wire'))
      BY <1>1, <2>1, <2>2, <3>1, ModelsTold
    <3>3. ~Quiet' BY Zenon, <3>2 DEF Quiet
    <3> QED BY <1>1, <1>2, <2>1, <3>2, <3>3
  <2>3. CASE ~Store!Connected
    <3>1. UNCHANGED wire BY Zenon, <1>6, <2>3 DEF Store!ModelsChange
    <3>2. ProfileInv' /\ source' # "open" BY <2>1, <2>3 DEF ProfileInv, Store!Connected
    <3>3. wire' \in Seq(Event0) BY <3>1 DEF StoreTypes
    <3> QED BY <1>1, <1>2, <2>1, <3>2, <3>3
  <2> QED BY <2>2, <2>3
<1> QED BY <1>3, <1>4, <1>5, <1>6

\* The server switches the profile: who is connected has an event due.
LEMMA Switches ==
  ASSUME StoreInv, NEW p \in Value, Store!SwitchProfile(p),
         UNCHANGED <<activeProfile, fetch>>, calls' \subseteq Call
  PROVE  StoreInv'
PROOF
<1> USE DEF StoreInv
<1>1. /\ serverProfile' = p /\ serverModels' = serverModels + 1
      /\ due' = IF Store!Connected THEN due + 1 ELSE due
      /\ UNCHANGED <<source, wire, intro, told, lost, overtaken>>
  BY DEF Store!SwitchProfile
<1>2. due \in Nat /\ serverModels \in Nat BY DEF StoreTypes
<1>3. StoreTypes' BY <1>1, <1>2 DEF StoreTypes
<1>4. Store!Connected' => Store!Connected /\ due' # 0
  BY <1>1, <1>2 DEF Store!Connected
<1>5. ProfileInv' BY <1>1, <1>4 DEF ProfileInv, Faultless
<1>6. source' = "open" => ~Quiet'
  <2>1. source' = "open" => Store!Connected' BY DEF Store!Connected
  <2> QED BY Zenon, <1>4, <2>1 DEF Quiet
<1>7. ListInv' BY Zenon, <1>6 DEF ListInv
<1> QED BY <1>3, <1>5, <1>7

\* A call or the fetch that was outdated is one all the same.
LEMMA OutdatedType ==
  ASSUME StoreTypes
  PROVE  /\ Store!Outdated \subseteq Call /\ \A c \in Store!Outdated : ~c.fresh
         /\ [fetch EXCEPT !.fresh = FALSE] \in Fetch
PROOF
<1>1. calls \subseteq Call /\ fetch \in Fetch BY DEF StoreTypes
<1>2. ASSUME NEW c \in Call
      PROVE  [c EXCEPT !.fresh = FALSE] \in Call /\ [c EXCEPT !.fresh = FALSE].fresh = FALSE
  BY DEF Call
<1>3. ASSUME NEW d \in Store!Outdated PROVE d \in Call /\ ~d.fresh
  <2>1. PICK c \in calls : d = [c EXCEPT !.fresh = FALSE] BY Zenon DEF Store!Outdated
  <2>2. c \in Call BY <1>1
  <2> QED BY Zenon, <1>2, <2>1, <2>2
<1>4. [fetch EXCEPT !.fresh = FALSE] \in Fetch BY <1>1 DEF Fetch
<1> QED BY <1>3, <1>4

\* The event stream opens, brings a message, breaks or is asked for again.
LEMMA StreamSteps ==
  ASSUME StoreInv,
         Store!OnOpen \/ Store!OnMessage \/ Store!OnError \/ Store!Connect \/ Store!Disable
  PROVE  StoreInv'
PROOF
<1> USE DEF StoreInv
<1>1. CASE Store!OnOpen
  <2> DEFINE call == Store!Calling("fetch", None)
  <2>1. /\ source = "accepted" /\ intro.stage = "sent" /\ source' = "open" /\ debounce' = mounted
        /\ fetch' = [fetch EXCEPT !.fresh = FALSE] /\ activeProfile' = None
        /\ calls' = Store!Outdated \cup {call}
        /\ UNCHANGED <<serverProfile, serverModels, wire, intro, due, told, lost, overtaken,
                       mounted>>
    BY <1>1 DEF Store!OnOpen, Store!ModelsSet, Store!FetchOutdated, Store!server, Store!feed
  <2>2. call \in Call /\ None \in Value BY DEF Call, Value, Store!Calling
  <2> HIDE DEF call
  <2>3. calls' \subseteq Call /\ fetch' \in Fetch BY <2>1, <2>2, OutdatedType
  <2>4. StoreTypes' BY <2>1, <2>2, <2>3 DEF StoreTypes
  <2>5. Faultless' <=> Faultless BY <2>1 DEF Faultless
  <2>6. /\ Faultless => Under("profileChanged", wire) /\ LastIs(serverProfile, wire)
        /\ due = 0 /\ told.stage = "read" => told.value = serverProfile
    BY <2>1 DEF ProfileInv, Store!Connected, Faultless
  <2>7. ProfileInv' BY <2>1, <2>5, <2>6 DEF ProfileInv
  <2>8. ListInv' BY Zenon, <2>1 DEF ListInv, Quiet
  <2> QED BY <2>4, <2>7, <2>8
<1>2. CASE Store!OnMessage
  <2>1. /\ source = "open" /\ source' = "open" /\ wire # <<>> /\ wire' = Tail(wire)
        /\ UNCHANGED <<serverProfile, serverModels, intro, due, told, lost, overtaken, mounted,
                       listed, fetch, queued, stale>>
        /\ \/ /\ Head(wire).type = "modelStatus" /\ debounce' = mounted
              /\ UNCHANGED <<activeProfile, calls>>
           \/ /\ Head(wire).type = "profileChanged"
              /\ calls' = Store!Outdated /\ activeProfile' = Head(wire).value
              /\ UNCHANGED debounce
    BY <1>2 DEF Store!OnMessage, Store!ModelsSet, Store!server, Store!profile, Store!feed
  <2>2. /\ wire' \in Seq(Event0) /\ Head(wire).value \in Value
        /\ \A type : Under(type, wire) <=> Head(wire).type = type \/ Under(type, wire')
        /\ LastIs(serverProfile, wire) =>
             /\ LastIs(serverProfile, wire')
             /\ Head(wire).type = "profileChanged" /\ ~Under("profileChanged", wire')
                  => Head(wire).value = serverProfile
    <3>1. wire \in Seq(Event0) BY DEF StoreTypes
    <3> QED BY <2>1, <3>1, Consumed DEF Event0
  <2>3. Store!Outdated \subseteq Call /\ \A c \in Store!Outdated : ~c.fresh BY OutdatedType
  <2>4. StoreTypes'
    <3>1. activeProfile' \in Value /\ calls' \subseteq Call BY <2>1, <2>2, <2>3 DEF StoreTypes
    <3> QED BY <2>1, <2>2, <3>1 DEF StoreTypes
  <2>5. /\ Faultless' <=> Faultless
        /\ due = 0 /\ told.stage = "read" => told.value = serverProfile
        /\ intro.stage = "sent"
        /\ Faultless => LastIs(serverProfile, wire)
        /\ Faultless /\ ~Under("profileChanged", wire) => ShowsProfile(serverProfile)
    BY <2>1 DEF ProfileInv, Store!Connected, Faultless
  <2>6. Faultless' /\ ~Under("profileChanged", wire') => ShowsProfile(serverProfile)'
    <3>1. CASE Head(wire).type = "modelStatus"
      <4>1. UNCHANGED <<activeProfile, calls>> BY <2>1, <3>1
      <4>2. Under("profileChanged", wire') <=> Under("profileChanged", wire) BY <2>2, <3>1
      <4> QED BY <2>1, <2>5, <4>1, <4>2 DEF ShowsProfile
    <3>2. CASE Head(wire).type = "profileChanged"
      <4>1. calls' = Store!Outdated /\ activeProfile' = Head(wire).value BY <2>1, <3>2
      <4> QED BY <2>1, <2>2, <2>3, <2>5, <3>2, <4>1 DEF ShowsProfile
    <3> QED BY <2>1, <3>1, <3>2
  <2>7. ProfileInv' BY <2>1, <2>2, <2>5, <2>6 DEF ProfileInv
  <2>8. ListInv'
    <3>1. CASE Head(wire).type = "modelStatus"
      <4>1. debounce' = mounted BY <2>1, <3>1
      <4> QED BY Zenon, <2>1, <4>1 DEF ListInv, Quiet
    <3>2. CASE Head(wire).type = "profileChanged"
      <4>1. UNCHANGED debounce BY <2>1, <3>2
      <4>2. Under("modelStatus", wire') <=> Under("modelStatus", wire) BY <2>2, <3>2
      <4>3. Quiet' => Quiet BY Zenon, <2>1, <4>1, <4>2 DEF Quiet
      <4> QED BY <2>1, <4>3 DEF ListInv
    <3> QED BY <2>1, <3>1, <3>2
  <2> QED BY <2>4, <2>7, <2>8
<1>3. ASSUME source' \in {"closed", "connecting"}, wire' = <<>>,
             UNCHANGED <<serverProfile, serverModels, intro, due, told>>,
             activeProfile' \in Value, calls' \subseteq Call, fetch' \in Fetch
      PROVE  StoreInv'
  <2>1. StoreTypes' BY <1>3 DEF StoreTypes
  <2>2. ProfileInv' /\ ListInv' BY <1>3 DEF ProfileInv, Store!Connected, ListInv
  <2> QED BY <2>1, <2>2
<1>4. CASE Store!OnError \/ Store!Connect
  <2>1. /\ source' \in {"closed", "connecting"} /\ wire' = <<>>
        /\ UNCHANGED <<serverProfile, serverModels, intro, due, told, activeProfile, calls,
                       fetch>>
    BY <1>4 DEF Store!OnError, Store!Connect, Store!server, Store!feed, Store!profile,
                Store!playground
  <2> QED BY <1>3, <2>1 DEF StoreTypes
<1>5. CASE Store!Disable
  <2>1. /\ source' = "closed" /\ wire' = <<>> /\ activeProfile' = None
        /\ calls' = Store!Outdated /\ fetch' = [fetch EXCEPT !.fresh = FALSE]
        /\ UNCHANGED <<serverProfile, serverModels, intro, due, told>>
    BY <1>5 DEF Store!Disable, Store!FetchOutdated, Store!server, Store!feed
  <2>2. None \in Value BY DEF Value
  <2> QED BY <1>3, <2>1, <2>2, OutdatedType
<1> QED BY <1>1, <1>2, <1>4, <1>5

\* The calls to /api/profiles, and other clients that switch the profile.
LEMMA ProfileSteps ==
  ASSUME StoreInv,
         \/ \E p \in Profiles \cup {None} : Store!SetActiveProfile(p) \/ Store!SwitchElsewhere(p)
         \/ \E c \in calls : \/ Store!HandlePut(c) \/ Store!ReadProfile(c)
                             \/ Store!TakeProfile(c) \/ Store!ProfileFails(c)
  PROVE  StoreInv'
PROOF
<1>1. /\ calls \subseteq Call /\ serverProfile \in Value /\ activeProfile \in Value
      /\ Store!Connected /\ Faultless /\ source = "open" /\ ~Under("profileChanged", wire)
           => ShowsProfile(serverProfile)
  BY DEF StoreInv, StoreTypes, ProfileInv
<1>2. ASSUME UNCHANGED <<source, wire, intro, due, told, lost, overtaken, serverProfile,
                         serverModels, mounted, debounce, listed, fetch, queued, stale>>,
             activeProfile' \in Value, calls' \subseteq Call,
             Store!Connected /\ Faultless /\ source = "open" /\ ~Under("profileChanged", wire)
               => activeProfile' \in {activeProfile, serverProfile},
             \A c \in calls' : c.stage \in {"fetched", "answered"} /\ c.fresh
                                => c \in calls \/ c.value = serverProfile
      PROVE  StoreInv'
  <2>1. StoreTypes' BY <1>2 DEF StoreInv, StoreTypes
  <2>2. Faultless' <=> Faultless BY <1>2 DEF Faultless
  <2>3. Store!Connected' <=> Store!Connected BY <1>2 DEF Store!Connected
  <2>4. Store!Connected /\ Faultless /\ source = "open" /\ ~Under("profileChanged", wire)
          => ShowsProfile(serverProfile)'
    BY <1>1, <1>2 DEF ShowsProfile
  <2>5. ProfileInv' BY <1>2, <2>2, <2>3, <2>4 DEF StoreInv, ProfileInv
  <2>6. Quiet' <=> Quiet BY Zenon, <1>2 DEF Quiet
  <2>7. ListInv' BY <1>2, <2>6 DEF StoreInv, ListInv
  <2> QED BY <2>1, <2>5, <2>7 DEF StoreInv
<1>3. ASSUME NEW p \in Profiles \cup {None}, Store!SetActiveProfile(p)
      PROVE  StoreInv'
  <2> DEFINE call == Store!Calling("put", p)
  <2>1. /\ calls' = calls \cup {call}
        /\ UNCHANGED <<source, wire, intro, due, told, lost, overtaken, serverProfile,
                       serverModels, activeProfile, mounted, debounce, listed, fetch, queued,
                       stale>>
    BY <1>3 DEF Store!SetActiveProfile, Store!stream, Store!feed, Store!playground
  <2>2. call \in Call /\ call.stage = "put" BY DEF Call, Value, Store!Calling
  <2> HIDE DEF call
  <2>3. calls' \subseteq Call /\ \A c \in calls' : c.stage \in {"fetched", "answered"} => c \in calls
    BY <1>1, <2>1, <2>2
  <2> QED BY <1>1, <1>2, <2>1, <2>3
<1>4. ASSUME NEW p \in Profiles \cup {None}, Store!SwitchElsewhere(p)
      PROVE  StoreInv'
  <2>1. Store!SwitchProfile(p) /\ UNCHANGED <<activeProfile, calls, fetch>>
    BY <1>4 DEF Store!SwitchElsewhere, Store!profile, Store!playground
  <2>2. p \in Value BY DEF Value
  <2> QED BY <1>1, <2>1, <2>2, Switches
<1> SUFFICES ASSUME NEW c \in calls,
                    \/ Store!HandlePut(c) \/ Store!ReadProfile(c)
                    \/ Store!TakeProfile(c) \/ Store!ProfileFails(c)
             PROVE  StoreInv'
  BY <1>3, <1>4
<1>5. c \in Call /\ c.value \in Value BY <1>1 DEF Call
<1>6. CASE Store!HandlePut(c)
  <2> DEFINE done == [c EXCEPT !.stage = "putDone"]
  <2>1. /\ IF c.value # serverProfile
             THEN Store!SwitchProfile(c.value)
             ELSE UNCHANGED <<serverProfile, serverModels, source, wire, intro, due, told, lost,
                              overtaken>>
        /\ calls' = (calls \ {c}) \cup {done}
        /\ UNCHANGED <<activeProfile, mounted, debounce, listed, fetch, queued, stale>>
    BY <1>6 DEF Store!HandlePut, Store!stream, Store!feed, Store!playground
  <2>2. done \in Call /\ done.stage = "putDone" BY <1>5 DEF Call
  <2> HIDE DEF done
  <2>3. calls' \subseteq Call /\ \A d \in calls' : d.stage \in {"fetched", "answered"} => d \in calls
    BY <1>1, <2>1, <2>2
  <2>4. CASE c.value = serverProfile BY <1>1, <1>2, <2>1, <2>3, <2>4
  <2>5. CASE c.value # serverProfile BY <1>5, <2>1, <2>3, <2>5, Switches
  <2> QED BY <2>4, <2>5
<1>7. CASE Store!ReadProfile(c)
  <2> DEFINE read == [c EXCEPT !.stage = IF c.stage = "fetch" THEN "fetched" ELSE "answered",
                               !.value = serverProfile]
  <2>1. /\ calls' = (calls \ {c}) \cup {read}
        /\ UNCHANGED <<source, wire, intro, due, told, lost, overtaken, serverProfile,
                       serverModels, activeProfile, mounted, debounce, listed, fetch, queued,
                       stale>>
    BY <1>7 DEF Store!ReadProfile, Store!server, Store!stream, Store!feed, Store!playground
  <2>2. read \in Call /\ read.value = serverProfile BY <1>1, <1>5 DEF Call
  <2> HIDE DEF read
  <2>3. calls' \subseteq Call /\ \A d \in calls' : d \in calls \/ d.value = serverProfile
    BY <1>1, <2>1, <2>2
  <2> QED BY <1>1, <1>2, <2>1, <2>3
<1>8. CASE Store!TakeProfile(c)
  <2>1. /\ c.stage \in {"fetched", "answered"} /\ calls' = calls \ {c}
        /\ activeProfile' = IF c.fresh THEN c.value ELSE activeProfile
        /\ UNCHANGED <<source, wire, intro, due, told, lost, overtaken, serverProfile,
                       serverModels, mounted, debounce, listed, fetch, queued, stale>>
    BY <1>8 DEF Store!TakeProfile, Store!server, Store!stream, Store!feed, Store!playground
  <2>2. activeProfile' \in Value BY <1>1, <1>5, <2>1
  <2>3. Store!Connected /\ Faultless /\ source = "open" /\ ~Under("profileChanged", wire)
          => activeProfile' \in {activeProfile, serverProfile}
    BY <1>1, <2>1 DEF ShowsProfile
  <2>4. calls' \subseteq Call /\ \A d \in calls' : d \in calls BY <1>1, <2>1
  <2> QED BY <1>2, <2>1, <2>2, <2>3, <2>4
<1>9. CASE Store!ProfileFails(c)
  <2>1. /\ calls' = calls \ {c}
        /\ UNCHANGED <<source, wire, intro, due, told, lost, overtaken, serverProfile,
                       serverModels, activeProfile, mounted, debounce, listed, fetch, queued,
                       stale>>
    BY <1>9 DEF Store!ProfileFails, Store!server, Store!stream, Store!feed, Store!playground
  <2>2. calls' \subseteq Call /\ \A d \in calls' : d \in calls BY <1>1, <2>1
  <2> QED BY <1>1, <1>2, <2>1, <2>2
<1> QED BY <1>6, <1>7, <1>8, <1>9

\* The Playground's list is asked for, answered and taken.
LEMMA ListSteps ==
  ASSUME StoreInv,
         \/ Store!Mount \/ Store!Debounced \/ Store!Refresh
         \/ Store!ListModels \/ Store!TakeModels \/ Store!ListFails
  PROVE  StoreInv'
PROOF
<1>1. fetch \in Fetch /\ serverModels \in Nat BY DEF StoreInv, StoreTypes
<1>2. /\ Store!Fetching("sent") \in Fetch /\ Store!Fetching("sent").stage = "sent"
      /\ Store!Fetching("sent").fresh = TRUE
      /\ Store!NoFetch \in Fetch /\ Store!NoFetch.stage = "none"
  BY DEF Fetch, Store!NoFetch, Store!Fetching
<1>3. ASSUME UNCHANGED <<source, wire, intro, due, told, lost, overtaken, serverProfile,
                         serverModels, activeProfile, calls>>,
             fetch' \in Fetch, ListInv'
      PROVE  StoreInv'
  <2>1. StoreTypes' BY <1>3 DEF StoreInv, StoreTypes
  <2>2. ProfileInv' BY <1>3 DEF StoreInv, ProfileInv, Store!Connected, Faultless, ShowsProfile
  <2> QED BY <1>3, <2>1, <2>2 DEF StoreInv
<1>4. ASSUME fetch' = Store!Fetching("sent") PROVE fetch' \in Fetch /\ ListInv'
  <2>1. fetch' \in Fetch /\ fetch'.stage = "sent" /\ fetch'.fresh BY <1>2, <1>4
  <2> QED BY <2>1 DEF ListInv
<1>5. CASE Store!Mount \/ Store!Debounced \/ Store!Refresh
  <2>1. /\ UNCHANGED <<source, wire, intro, due, told, lost, overtaken, serverProfile,
                       serverModels, activeProfile, calls>>
        /\ Store!FetchPlaygroundModels
    BY <1>5 DEF Store!Mount, Store!Debounced, Store!Refresh, Store!server, Store!stream,
                Store!feed, Store!profile
  <2>2. CASE fetch.stage = "none"
    <3>1. fetch' = Store!Fetching("sent") BY <2>1, <2>2 DEF Store!FetchPlaygroundModels
    <3> QED BY <1>3, <1>4, <2>1, <3>1
  <2>3. CASE fetch.stage # "none"
    <3>1. queued' = TRUE /\ UNCHANGED fetch BY <2>1, <2>3 DEF Store!FetchPlaygroundModels
    <3>2. ListInv' BY Zenon, <3>1 DEF ListInv, Quiet
    <3> QED BY <1>1, <1>3, <2>1, <3>1, <3>2
  <2> QED BY <2>2, <2>3
<1>6. CASE Store!ListModels
  <2>1. /\ fetch.stage = "sent"
        /\ fetch' = [fetch EXCEPT !.stage = "answered", !.value = serverModels]
        /\ UNCHANGED <<source, wire, intro, due, told, lost, overtaken, serverProfile,
                       serverModels, activeProfile, calls, mounted, debounce, listed, queued,
                       stale>>
    BY <1>6 DEF Store!ListModels, Store!server, Store!stream, Store!feed, Store!profile
  <2>2. /\ fetch' \in Fetch /\ fetch'.stage = "answered" /\ fetch'.fresh = fetch.fresh
        /\ fetch'.value = serverModels
    BY <1>1, <2>1 DEF Fetch
  <2>3. Quiet' <=> Quiet BY Zenon, <2>1 DEF Quiet
  <2>4. ListInv' BY <2>1, <2>2, <2>3 DEF ListInv, StoreInv
  <2> QED BY <1>3, <2>1, <2>2, <2>4
<1>7. CASE Store!TakeModels \/ Store!ListFails
  <2>1. /\ Store!Finished
        /\ UNCHANGED <<source, wire, intro, due, told, lost, overtaken, serverProfile,
                       serverModels, activeProfile, calls, mounted, debounce>>
        /\ \/ /\ fetch.stage = "answered"
              /\ listed' = IF fetch.fresh THEN fetch.value ELSE listed
           \/ stale' = TRUE
    BY <1>7 DEF Store!TakeModels, Store!ListFails, Store!server, Store!stream, Store!feed,
                Store!profile
  <2>2. CASE queued
    <3>1. fetch' = Store!Fetching("sent") BY Zenon, <2>1, <2>2 DEF Store!Finished
    <3> QED BY <1>3, <1>4, <2>1, <3>1
  <2>3. CASE ~queued
    <3>1. fetch' = Store!NoFetch /\ UNCHANGED queued BY Zenon, <2>1, <2>3 DEF Store!Finished
    <3>2. Quiet' <=> Quiet BY Zenon, <2>1, <3>1 DEF Quiet
    <3>3. source = "open" /\ Quiet /\ fetch.stage = "answered"
            => fetch.fresh /\ fetch.value = serverModels
      BY DEF StoreInv, ListInv
    <3>4. source = "open" /\ Quiet => listed' = serverModels \/ stale'
      <4>1. CASE fetch.stage = "answered"
                 /\ listed' = IF fetch.fresh THEN fetch.value ELSE listed
        BY <3>3, <4>1
      <4>2. CASE stale' = TRUE BY Zenon, <4>2
      <4> QED BY <2>1, <4>1, <4>2
    <3>5. ListInv' BY <1>2, <2>1, <3>1, <3>2, <3>4 DEF ListInv
    <3> QED BY <1>2, <1>3, <2>1, <3>1, <3>5
  <2> QED BY <2>2, <2>3
<1> QED BY <1>5, <1>6, <1>7

LEMMA StoreStep == ASSUME StoreInv, [Store!Next]_(Store!vars) PROVE StoreInv'
PROOF
<1>1. CASE UNCHANGED Store!vars
  BY <1>1 DEF Store!vars, Store!server, Store!stream, Store!feed, Store!profile,
              Store!playground, StoreInv, StoreTypes, ProfileInv, ListInv, Quiet,
              Store!Connected, Faultless, ShowsProfile
<1>2. CASE Store!Next
  BY Zenon, <1>2, IntroSteps, SubscriberSteps, StreamSteps, ProfileSteps, ListSteps
     DEF Store!Next
<1> QED BY <1>1, <1>2

\* A list is asked for once more only while a fetch is in progress.
QueuedInv == queued => fetch.stage # "none"

LEMMA QueuedStep ==
  ASSUME QueuedInv, [Store!Next]_(Store!vars)
  PROVE  QueuedInv'
PROOF
<1>1. ASSUME UNCHANGED <<fetch, queued>> \/ queued' = FALSE
      PROVE  QueuedInv'
  BY Zenon, <1>1 DEF QueuedInv
<1>2. ASSUME fetch' = Store!Fetching("sent") PROVE QueuedInv'
  BY <1>2 DEF QueuedInv, Store!Fetching
<1>3. CASE Store!Mount \/ Store!Debounced \/ Store!Refresh
  <2>1. Store!FetchPlaygroundModels
    BY <1>3 DEF Store!Mount, Store!Debounced, Store!Refresh
  <2>2. CASE fetch.stage = "none"
    <3>1. fetch' = Store!Fetching("sent") BY Zenon, <2>1, <2>2 DEF Store!FetchPlaygroundModels
    <3> QED BY <1>2, <3>1
  <2>3. CASE fetch.stage # "none"
    <3>1. fetch' = fetch BY <2>1, <2>3 DEF Store!FetchPlaygroundModels
    <3> QED BY <2>3, <3>1 DEF QueuedInv
  <2> QED BY <2>2, <2>3
<1>4. CASE Store!TakeModels \/ Store!ListFails
  <2>1. Store!Finished BY <1>4 DEF Store!TakeModels, Store!ListFails
  <2>2. CASE queued
    <3>1. queued' = FALSE BY Zenon, <2>1, <2>2 DEF Store!Finished
    <3> QED BY <1>1, <3>1
  <2>3. CASE ~queued
    <3>1. queued' = queued BY Zenon, <2>1, <2>3 DEF Store!Finished
    <3> QED BY Zenon, <2>3, <3>1 DEF QueuedInv
  <2> QED BY <2>2, <2>3
<1>5. CASE Store!ListModels
  <2>1. fetch' = [fetch EXCEPT !.stage = "answered", !.value = serverModels]
        /\ fetch.stage = "sent"
    BY <1>5 DEF Store!ListModels
  <2>2. fetch'.stage # "none" BY <2>1
  <2> QED BY <2>2 DEF QueuedInv
<1>6. ASSUME \/ Store!Accept \/ Store!IntroReads \/ Store!IntroSends \/ Store!SubscriberReads
             \/ Store!SubscriberSends \/ Store!SubscriberSendsModels \/ Store!ModelsChange
             \/ \E p \in Profiles \cup {None} : Store!SwitchElsewhere(p)
             \/ Store!OnError \/ Store!Connect
             \/ \E p \in Profiles \cup {None} : Store!SetActiveProfile(p)
             \/ \E c \in calls : \/ Store!HandlePut(c) \/ Store!ReadProfile(c)
                                 \/ Store!TakeProfile(c) \/ Store!ProfileFails(c)
      PROVE  UNCHANGED <<fetch, queued>>
  BY <1>6 DEF Store!Accept, Store!IntroReads, Store!IntroSends, Store!SubscriberReads,
              Store!SubscriberSends, Store!SubscriberSendsModels, Store!ModelsChange,
              Store!SwitchElsewhere, Store!OnError, Store!Connect, Store!SetActiveProfile,
              Store!HandlePut, Store!ReadProfile, Store!TakeProfile, Store!ProfileFails,
              Store!playground
<1>7. CASE Store!OnOpen \/ Store!OnMessage \/ Store!Disable
  BY <1>1, <1>7 DEF Store!OnOpen, Store!OnMessage, Store!Disable
<1>8. CASE UNCHANGED Store!vars
  BY <1>1, <1>8 DEF Store!vars, Store!playground
<1> QED BY Zenon, <1>1, <1>3, <1>4, <1>5, <1>6, <1>7, <1>8 DEF Store!Next

LEMMA StoreMeans ==
  ASSUME StoreInv, QueuedInv
  PROVE  Store!ProfileSettles /\ Store!PlaygroundSettles
PROOF
<1>1. ASSUME Store!Drained
      PROVE  /\ source = "open" /\ Store!Connected /\ due = 0 /\ intro.stage = "sent"
             /\ told.stage = "idle"
             /\ ~Under("profileChanged", wire) /\ ~Under("modelStatus", wire)
  <2>1. source = "open" /\ wire = <<>> /\ due = 0 /\ intro.stage = "sent" /\ told = Store!Idle
    BY <1>1 DEF Store!Drained
  <2>2. Len(wire) = 0 BY <2>1
  <2> QED BY <2>1, <2>2 DEF Under, Store!Connected, Store!Idle, Store!Hand
<1>2. Store!ProfileSettles
  BY <1>1 DEF Store!ProfileSettles, StoreInv, ProfileInv, Faultless, ShowsProfile
<1>3. Store!PlaygroundSettles
  BY <1>1 DEF Store!PlaygroundSettles, StoreInv, ListInv, Quiet, QueuedInv
<1> QED BY <1>2, <1>3

HIDE DEF enabled, source, wire, intro, due, told, lost, overtaken, serverProfile, serverModels,
         activeProfile, calls, mounted, debounce, listed, fetch, queued, stale

-----------------------------------------------------------------------------
(* The transcription, image and speech tabs.                               *)

task == v1
busy == v2
file == v6
result == v7
images == v13
fetching == v8
cache == v9
USE DEF task, busy, file, result, images, fetching, cache

\* The file cannot be changed while it is transcribed.
TranscriptInv ==
  /\ task # None => busy /\ task = file
  /\ Audio!TranscriptOfFile

LEMMA TranscriptBegins == ASSUME Audio!Init PROVE TranscriptInv
PROOF BY DEF Audio!Init, Audio!InterfaceInit, TranscriptInv, Audio!TranscriptOfFile

LEMMA TranscriptStep ==
  ASSUME TranscriptInv, [Audio!Next]_(Audio!vars)
  PROVE  TranscriptInv'
PROOF
<1> USE DEF TranscriptInv, Audio!TranscriptOfFile
<1>1. CASE UNCHANGED <<task, busy, file, result>>
  BY <1>1
<1>2. ASSUME NEW f, Audio!TakeFile(f), ~busy PROVE TranscriptInv'
  BY <1>2 DEF Audio!TakeFile
<1>3. ASSUME NEW f, Audio!Browse(f) \/ Audio!Drop(f) PROVE TranscriptInv'
  <2>1. Audio!TakeFile(f) BY <1>3 DEF Audio!Browse, Audio!Drop
  <2>2. ~busy
    <3>1. CASE Audio!Browse(f) BY Zenon, <3>1 DEF Audio!Browse
    <3>2. CASE Audio!Drop(f)
      <4>1. busy => Audio!Showing = "busy" BY DEF Audio!Showing
      <4>2. Audio!Showing = "drop zone" BY <3>2 DEF Audio!Drop
      <4> QED BY <4>1, <4>2
    <3> QED BY <1>3, <3>1, <3>2
  <2> QED BY <1>2, <2>1, <2>2
<1>4. CASE Audio!Transcribe
  BY <1>4 DEF Audio!Transcribe, Audio!Run
<1>5. CASE Audio!Transcribed
  BY <1>5 DEF Audio!Transcribed, Audio!Resolved, Audio!Settle
<1>6. CASE Audio!NoAnswer
  BY <1>6 DEF Audio!NoAnswer, Audio!Failed, Audio!Aborted, Audio!Settle, Audio!tabVars
<1>7. CASE Audio!ClearAll
  BY <1>7 DEF Audio!ClearAll
<1>8. ASSUME \/ \E m \in AudioModels \cup {None} : Audio!SelectModel(m)
             \/ Audio!CancelTranscription \/ Audio!Copy \/ Audio!CopiedTimeout
             \/ UNCHANGED Audio!vars
      PROVE  UNCHANGED <<task, busy, file, result>>
  BY <1>8 DEF Audio!SelectModel, Audio!CancelTranscription, Audio!Cancel, Audio!Copy,
              Audio!CopiedTimeout, Audio!ifaceVars, Audio!tabVars, Audio!vars
<1> QED BY Zenon, <1>1, <1>3, <1>4, <1>5, <1>6, <1>7, <1>8 DEF Audio!Next

LEMMA ImagesBegin == ASSUME Images!Init PROVE Images!ImagesOfOneRequest
PROOF BY DEF Images!Init, Images!ImagesOfOneRequest

LEMMA ImagesStep ==
  ASSUME Images!ImagesOfOneRequest, [Images!Next]_(Images!vars)
  PROVE  Images!ImagesOfOneRequest'
PROOF
<1> USE DEF Images!ImagesOfOneRequest
<1>1. CASE UNCHANGED images BY <1>1
<1>2. ASSUME NEW n \in 0..MaxBatch, Images!Generated(n)
      PROVE  Images!ImagesOfOneRequest'
  <2>1. images' = IF n = 0 THEN images ELSE [i \in 1..n |-> task] BY <1>2 DEF Images!Generated
  <2> QED BY <2>1
<1>3. CASE Images!ClearImage
  BY <1>3 DEF Images!ClearImage
<1>4. ASSUME \/ \E m \in ImageModels \cup {None} : Images!SelectModel(m)
             \/ \E m \in {"openai", "sdapi"} : Images!SelectMode(m)
             \/ \E s \in ImageSizes : Images!SelectSize(s)
             \/ Images!ToggleSettings \/ \E n \in 1..MaxBatch : Images!SetBatchSize(n)
             \/ Images!LoadLoras \/ \E listed0 \in SUBSET Loras : Images!LorasAnswered(listed0)
      PROVE  UNCHANGED images
  BY <1>4 DEF Images!SelectModel, Images!SelectMode, Images!SelectSize, Images!ToggleSettings,
              Images!SetBatchSize, Images!LoadLoras, Images!LorasAnswered, Images!shownVars
<1>5. ASSUME \/ \E path \in Loras :
                  Images!AddLora(path) \/ Images!RemoveLora(path)
                  \/ \E m \in Multipliers : Images!UpdateLoraMultiplier(path, m)
             \/ Images!Generate \/ \E n \in 0..MaxBatch : Images!OpenFullscreen(n)
             \/ Images!CancelGeneration \/ Images!NoAnswer \/ Images!CloseFullscreen
             \/ UNCHANGED Images!vars
      PROVE  UNCHANGED images
  BY <1>5 DEF Images!AddLora, Images!RemoveLora, Images!UpdateLoraMultiplier, Images!Generate,
              Images!OpenFullscreen, Images!CancelGeneration, Images!NoAnswer,
              Images!CloseFullscreen, Images!shownVars, Images!tabVars, Images!vars
<1> QED BY Zenon, <1>1, <1>2, <1>3, <1>4, <1>5 DEF Images!Next

\* The cache has an entry for every model.
CacheInv == DOMAIN cache = SpeechModels /\ Speech!CacheByModel

LEMMA CacheBegins == ASSUME Speech!Init PROVE CacheInv
PROOF BY DEF Speech!Init, CacheInv, Speech!CacheByModel

LEMMA CacheStep ==
  ASSUME CacheInv, [Speech!Next]_(Speech!vars)
  PROVE  CacheInv'
PROOF
<1> USE DEF CacheInv, Speech!CacheByModel
<1>1. CASE UNCHANGED cache BY <1>1
<1>2. ASSUME NEW list, Speech!VoicesAnswered(list) PROVE CacheInv'
  <2>1. list \in {Offers[fetching], DefaultVoices} /\ cache' = [cache EXCEPT ![fetching] = list]
    BY <1>2 DEF Speech!VoicesAnswered
  <2>2. DOMAIN cache' = SpeechModels BY <2>1
  <2>3. ASSUME NEW m \in SpeechModels
        PROVE  cache'[m] \in {None, DefaultVoices, Offers[m]}
    BY <2>1, <2>3
  <2> QED BY <2>2, <2>3
<1>3. ASSUME NEW x,
             \/ Speech!SelectModel(x) \/ Speech!SelectVoice(x)
             \/ Speech!RefreshVoices \/ Speech!Generate \/ Speech!Generated
      PROVE  UNCHANGED cache
  BY <1>3 DEF Speech!SelectModel, Speech!SelectVoice, Speech!RefreshVoices, Speech!Generate,
              Speech!Generated, Speech!voiceVars, Speech!tabVars
<1>4. ASSUME \/ Speech!ToggleAutoPlay \/ Speech!CancelGeneration \/ Speech!NoAnswer
             \/ Speech!Reload \/ UNCHANGED Speech!vars
      PROVE  UNCHANGED cache
  BY <1>4 DEF Speech!ToggleAutoPlay, Speech!CancelGeneration, Speech!NoAnswer, Speech!Reload,
              Speech!voiceVars, Speech!tabVars, Speech!vars
<1> QED BY Zenon, <1>1, <1>2, <1>3, <1>4 DEF Speech!Next

HIDE DEF task, busy, file, result, images, fetching, cache

-----------------------------------------------------------------------------
(* The numbers of a set, in ascending order.                               *)

\* Induction over the numbers up to n.
LEMMA Induct ==
  ASSUME NEW n \in Nat, NEW T, 0 \in T, \A i \in 0..(n - 1) : i \in T => i + 1 \in T
  PROVE  0..n \subseteq T
PROOF
<1> DEFINE Less == {p \in Nat \X Nat : p[1] < p[2]}
           U == {i \in 0..n : i \notin T}
<1> SUFFICES ASSUME U # {} PROVE FALSE OBVIOUS
<1>1. IsWellFoundedOn(Less, Nat) BY NatLessThanWellFounded, Zenon DEF OpToRel
<1>2. U \subseteq Nat OBVIOUS
<1> HIDE DEF Less
<1>3. PICK x \in U : \A y \in U : ~(<<y, x>> \in Less) BY <1>1, <1>2, WFMin
<1>4. x # 0 /\ x - 1 \in 0..(n - 1) /\ (x - 1) + 1 = x OBVIOUS
<1>5. <<x - 1, x>> \in Less BY <1>4 DEF Less
<1>6. x - 1 \in T BY <1>3, <1>4, <1>5
<1> QED BY <1>4, <1>6

Ascends(at, c) == \A k, l \in 1..c : k < l => at[k] < at[l]

\* The part counts with its own Cardinality, which is that of the library.
LEMMA RerankCounts == \A S : Rerank!Cardinality(S) = Cardinality(S)
PROOF
<1>1. \A S : Rerank!IsFiniteSet(S) <=> IsFiniteSet(S) BY DEF IsFiniteSet, Rerank!IsFiniteSet
<1> QED BY <1>1 DEF Cardinality, Rerank!Cardinality, IsFiniteSet, Rerank!IsFiniteSet

\* Every set of numbers up to n can be put in order.
LEMMA OrderExists ==
  ASSUME NEW n \in Nat
  PROVE  \A S \in SUBSET (1..n) :
           /\ Cardinality(S) \in Nat
           /\ \E at \in [1..Cardinality(S) -> S] : Ascends(at, Cardinality(S))
PROOF
<1> DEFINE Fine(S) == \E at \in [1..Cardinality(S) -> S] : Ascends(at, Cardinality(S))
           T == {m \in 0..n : \A S \in SUBSET (1..m) : Fine(S)}
<1>1. ASSUME NEW m \in 0..n, NEW S \in SUBSET (1..m) PROVE IsFiniteSet(S) /\ Cardinality(S) \in Nat
  <2>1. IsFiniteSet(1..m) BY FS_Interval
  <2>2. IsFiniteSet(S) BY <2>1, FS_Subset
  <2> QED BY <2>2, FS_CardinalityType
<1>2. 0 \in T
  <2>1. Fine({})
    <3>1. Cardinality({}) = 0 BY FS_EmptySet
    <3>2. [k \in 1..0 |-> 0] \in [1..0 -> {}] OBVIOUS
    <3>3. Ascends([k \in 1..0 |-> 0], 0) BY DEF Ascends
    <3> QED BY <3>1, <3>2, <3>3
  <2>2. ASSUME NEW S \in SUBSET (1..0) PROVE Fine(S)
    <3>1. S = {} OBVIOUS
    <3> QED BY Zenon, <2>1, <3>1
  <2>3. 0 \in 0..n OBVIOUS
  <2> HIDE DEF Fine
  <2> QED BY <2>2, <2>3
<1>3. ASSUME NEW m \in 0..(n - 1), m \in T PROVE m + 1 \in T
  <2> SUFFICES ASSUME NEW S \in SUBSET (1..(m + 1)) PROVE Fine(S) OBVIOUS
  <2> DEFINE V == S \ {m + 1}
             c == Cardinality(V)
  <2>1. V \in SUBSET (1..m) OBVIOUS
  <2>2. PICK at \in [1..c -> V] : Ascends(at, c) BY <1>3, <2>1
  <2>3. CASE m + 1 \notin S
    <3>1. V = S BY <2>3
    <3> QED BY <2>2, <3>1
  <2>4. CASE m + 1 \in S
    <3> DEFINE d == [k \in 1..(c + 1) |-> IF k = c + 1 THEN m + 1 ELSE at[k]]
    <3>1. Cardinality(S) = c + 1 /\ c \in Nat
      <4>0. m \in 0..n OBVIOUS
      <4>1. IsFiniteSet(V) /\ c \in Nat
        <5> HIDE DEF V
        <5> QED BY <1>1, <2>1, <4>0
      <4>2. S = V \cup {m + 1} BY <2>4
      <4> HIDE DEF V
      <4>3. m + 1 \notin V BY DEF V
      <4> QED BY <4>1, <4>2, <4>3, FS_AddElement
    <3> HIDE DEF c
    <3>2. d \in [1..(c + 1) -> S] BY <2>2, <2>4, <3>1
    <3>3. ASSUME NEW k \in 1..(c + 1), NEW l \in 1..(c + 1), k < l PROVE d[k] < d[l]
      <4>1. k \in 1..c /\ d[k] = at[k] /\ at[k] \in V BY <2>2, <3>1, <3>3
      <4>2. at[k] \in 1..m BY <2>1, <4>1
      <4>3. CASE l = c + 1 BY <4>1, <4>2, <4>3
      <4>4. CASE l # c + 1
        <5>1. l \in 1..c /\ d[l] = at[l] BY <3>1, <4>4
        <5> QED BY <2>2, <3>3, <4>1, <5>1 DEF Ascends
      <4> QED BY <4>3, <4>4
    <3>4. Ascends(d, c + 1)
      <4> HIDE DEF d
      <4> QED BY <3>3 DEF Ascends
    <3> HIDE DEF d
    <3> QED BY <3>1, <3>2, <3>4
  <2> QED BY <2>3, <2>4
<1>4. n \in T
  <2> HIDE DEF T
  <2> QED BY <1>2, <1>3, Induct
<1> QED BY <1>1, <1>4

\* InOrder puts them in order.
LEMMA InOrderIs ==
  ASSUME NEW n \in Nat, NEW S \in SUBSET (1..n)
  PROVE  /\ Cardinality(S) \in Nat
         /\ Rerank!InOrder(S) \in [1..Cardinality(S) -> S]
         /\ Ascends(Rerank!InOrder(S), Cardinality(S))
PROOF
<1> DEFINE c == Cardinality(S)
           Good(at) == \A k, l \in DOMAIN at : k < l => at[k] < at[l]
<1>1. c \in Nat /\ \E at \in [1..c -> S] : Ascends(at, c) BY OrderExists
<1>2. \E at \in [1..c -> S] : Good(at) BY <1>1 DEF Ascends
<1>3. Rerank!InOrder(S) = CHOOSE at \in [1..c -> S] : Good(at)
  BY RerankCounts DEF Rerank!InOrder
<1> HIDE DEF c, Good
<1>4. Rerank!InOrder(S) \in [1..c -> S] /\ Good(Rerank!InOrder(S)) BY <1>2, <1>3
<1> QED BY <1>1, <1>4 DEF c, Good, Ascends

\* All numbers up to n are in order as they are.
LEMMA InOrderAll ==
  ASSUME NEW n \in Nat
  PROVE  Rerank!InOrder(1..n) = [k \in 1..n |-> k]
PROOF
<1> DEFINE at == Rerank!InOrder(1..n)
           U == {i \in 0..n : i # 0 => at[i] >= i}
           D == {i \in 0..n : i < n => at[n - i] <= n - i}
<1>1. at \in [1..n -> 1..n] /\ Ascends(at, n)
  <2>1. Cardinality(1..n) = n BY FS_Interval
  <2> QED BY <2>1, InOrderIs
<1> HIDE DEF at
<1>2. ASSUME NEW i \in 0..(n - 1), i \in U PROVE i + 1 \in U
  <2>1. CASE i = 0 BY <1>1, <2>1
  <2>2. CASE i # 0
    <3>1. at[i] < at[i + 1] /\ at[i] \in 1..n /\ at[i + 1] \in 1..n BY <1>1, <2>2 DEF Ascends
    <3> QED BY <1>2, <2>2, <3>1
  <2> QED BY <2>1, <2>2
<1>3. ASSUME NEW i \in 0..(n - 1), i \in D PROVE i + 1 \in D
  <2> SUFFICES ASSUME i + 1 < n PROVE at[n - (i + 1)] <= n - (i + 1) OBVIOUS
  <2>1. n - (i + 1) \in 1..n /\ n - i \in 1..n /\ n - (i + 1) < n - i OBVIOUS
  <2>2. at[n - (i + 1)] < at[n - i] BY <1>1, <2>1 DEF Ascends
  <2>3. at[n - i] <= n - i BY <1>3
  <2>4. at[n - (i + 1)] \in 1..n /\ at[n - i] \in 1..n BY <1>1, <2>1
  <2> QED BY <2>2, <2>3, <2>4
<1>4. 0 \in U /\ 0 \in D BY <1>1
<1> HIDE DEF U, D
<1>5. 0..n \subseteq U /\ 0..n \subseteq D BY <1>2, <1>3, <1>4, Induct
<1>6. ASSUME NEW k \in 1..n PROVE at[k] = k
  <2>1. k \in U /\ n - k \in D BY <1>5
  <2>2. at[k] >= k BY <2>1 DEF U
  <2>3. at[n - (n - k)] <= n - (n - k) BY <2>1 DEF D
  <2>4. n - (n - k) = k /\ at[k] \in 1..n BY <1>1
  <2> QED BY <2>2, <2>3, <2>4
<1> QED BY <1>1, <1>6 DEF at

-----------------------------------------------------------------------------
(* The rerank tab.                                                         *)

rows == v5
editor == v6
jsonText == v7
USE DEF task, busy, rows, editor, jsonText

Doc == Docs \cup {"blank"}
Rows == [doc : Doc, score : Doc \cup {None}]

\* While a request runs, the rows it came from are where they were.
Placed(entries, rs) ==
  /\ entries \in Seq([row : Nat, doc : Doc])
  /\ \A k \in 1..Len(entries) :
       entries[k].row \in 1..Len(rs) /\ rs[entries[k].row].doc = entries[k].doc

RerankInv ==
  /\ rows \in Seq(Rows) /\ editor \in {"table", "json"}
  /\ jsonText = Invalid \/ jsonText \in Seq(Doc)
  /\ task # None => busy /\ Placed(task, rows)

LEMMA RowFields == \A r \in Rows : r.doc \in Doc
PROOF BY DEF Rows

LEMMA RowsMade ==
  /\ \A doc \in Doc : Rerank!Row(doc) \in Rows /\ Rerank!Row(doc).doc = doc
  /\ \A docs \in Seq(Doc) :
       /\ Rerank!RowsOf(docs) \in Seq(Rows) /\ Len(Rerank!RowsOf(docs)) = Len(docs)
       /\ \A i \in 1..Len(docs) : Rerank!RowsOf(docs)[i].doc = docs[i]
  /\ \A rs \in Seq(Rows) :
       /\ Rerank!DocsOf(rs) \in Seq(Doc) /\ Len(Rerank!DocsOf(rs)) = Len(rs)
       /\ \A i \in 1..Len(rs) : Rerank!DocsOf(rs)[i] = rs[i].doc
PROOF
<1>1. \A doc \in Doc : Rerank!Row(doc) \in Rows /\ Rerank!Row(doc).doc = doc
  BY DEF Rerank!Row, Rows
<1>2. ASSUME NEW docs \in Seq(Doc)
      PROVE  /\ Rerank!RowsOf(docs) \in Seq(Rows) /\ Len(Rerank!RowsOf(docs)) = Len(docs)
             /\ \A i \in 1..Len(docs) : Rerank!RowsOf(docs)[i].doc = docs[i]
  <2>1. DOMAIN docs = 1..Len(docs) /\ Len(docs) \in Nat OBVIOUS
  <2>2. Rerank!RowsOf(docs) = [i \in 1..Len(docs) |-> Rerank!Row(docs[i])]
    BY <2>1 DEF Rerank!RowsOf
  <2>3. \A i \in 1..Len(docs) : docs[i] \in Doc OBVIOUS
  <2> QED BY <1>1, <2>1, <2>2, <2>3
<1>3. ASSUME NEW rs \in Seq(Rows)
      PROVE  /\ Rerank!DocsOf(rs) \in Seq(Doc) /\ Len(Rerank!DocsOf(rs)) = Len(rs)
             /\ \A i \in 1..Len(rs) : Rerank!DocsOf(rs)[i] = rs[i].doc
  <2>1. DOMAIN rs = 1..Len(rs) /\ Len(rs) \in Nat OBVIOUS
  <2>2. Rerank!DocsOf(rs) = [i \in 1..Len(rs) |-> rs[i].doc] BY <2>1 DEF Rerank!DocsOf
  <2>3. \A i \in 1..Len(rs) : rs[i].doc \in Doc
    <3>1. \A i \in 1..Len(rs) : rs[i] \in Rows OBVIOUS
    <3> QED BY <3>1, RowFields
  <2> QED BY <2>1, <2>2, <2>3
<1> QED BY <1>1, <1>2, <1>3

\* The last row is kept empty; the others stay.
LEMMA AutoAdded ==
  ASSUME NEW rs \in Seq(Rows)
  PROVE  /\ Rerank!AutoAdd(rs) \in Seq(Rows) /\ Len(Rerank!AutoAdd(rs)) >= Len(rs)
         /\ \A i \in 1..Len(rs) : Rerank!AutoAdd(rs)[i] = rs[i]
PROOF
<1>1. "blank" \in Doc BY DEF Doc
<1>2. Rerank!Row("blank") \in Rows BY <1>1, RowsMade
<1> QED BY <1>2 DEF Rerank!AutoAdd

\* What is sent to be ranked: each row that has a document, and nothing else, in order.
LEMMA EntriesAre ==
  ASSUME NEW rs \in Seq(Rows)
  PROVE  \E c \in Nat : \E at \in [1..c -> {i \in 1..Len(rs) : rs[i].doc # "blank"}] :
           /\ Rerank!Filled(rs) = [k \in 1..c |-> rs[at[k]]]
           /\ Rerank!Entries(rs) = [k \in 1..c |-> [row |-> at[k], doc |-> rs[at[k]].doc]]
PROOF
<1> DEFINE S == {i \in 1..Len(rs) : rs[i].doc # "blank"}
           at == Rerank!InOrder(S)
           c == Cardinality(S)
<1>1. DOMAIN rs = 1..Len(rs) /\ Len(rs) \in Nat OBVIOUS
<1>2. Rerank!FilledAt(rs) = at BY Zenon, <1>1 DEF Rerank!FilledAt
<1>3. c \in Nat /\ at \in [1..c -> S]
  <2>1. S \in SUBSET (1..Len(rs)) OBVIOUS
  <2> HIDE DEF S
  <2> QED BY <1>1, <2>1, InOrderIs
<1>4. DOMAIN at = 1..c BY <1>3
<1>5. Rerank!Filled(rs) = [k \in 1..c |-> rs[at[k]]] BY Zenon, <1>2, <1>4 DEF Rerank!Filled
<1>6. Rerank!Entries(rs) = [k \in 1..c |-> [row |-> at[k], doc |-> rs[at[k]].doc]]
  BY Zenon, <1>2, <1>4 DEF Rerank!Entries
<1> HIDE DEF at, c
<1> QED BY <1>3, <1>5, <1>6

LEMMA EntriesPlaced ==
  ASSUME NEW rs \in Seq(Rows)
  PROVE  /\ Placed(Rerank!Entries(rs), rs)
         /\ Rerank!Filled(rs) \in Seq(Rows)
         /\ \A k \in 1..Len(Rerank!Filled(rs)) : Rerank!Filled(rs)[k].doc # "blank"
         /\ Rerank!DocsOf(Rerank!Entries(rs)) = Rerank!DocsOf(Rerank!Filled(rs))
PROOF
<1> DEFINE S == {i \in 1..Len(rs) : rs[i].doc # "blank"}
<1>0. PICK c \in Nat : \E at \in [1..c -> S] :
        /\ Rerank!Filled(rs) = [k \in 1..c |-> rs[at[k]]]
        /\ Rerank!Entries(rs) = [k \in 1..c |-> [row |-> at[k], doc |-> rs[at[k]].doc]]
  BY EntriesAre
<1>1. PICK at \in [1..c -> S] :
        /\ Rerank!Filled(rs) = [k \in 1..c |-> rs[at[k]]]
        /\ Rerank!Entries(rs) = [k \in 1..c |-> [row |-> at[k], doc |-> rs[at[k]].doc]]
  BY <1>0
<1>2. ASSUME NEW k \in 1..c
      PROVE  /\ at[k] \in 1..Len(rs) /\ at[k] \in Nat /\ rs[at[k]] \in Rows
             /\ rs[at[k]].doc # "blank" /\ rs[at[k]].doc \in Doc
  <2>1. at[k] \in S BY <1>1
  <2>2. at[k] \in 1..Len(rs) /\ rs[at[k]].doc # "blank" BY <2>1
  <2>3. rs[at[k]] \in Rows BY <2>2
  <2> QED BY <2>2, <2>3, RowFields
<1>3. Rerank!Filled(rs) \in Seq(Rows) /\ Len(Rerank!Filled(rs)) = c BY <1>1, <1>2
<1>4. Placed(Rerank!Entries(rs), rs)
  <2>1. /\ Rerank!Entries(rs) \in Seq([row : Nat, doc : Doc]) /\ Len(Rerank!Entries(rs)) = c
    <3>1. \A k \in 1..c : [row |-> at[k], doc |-> rs[at[k]].doc] \in [row : Nat, doc : Doc]
      BY <1>2
    <3> DEFINE E == [row : Nat, doc : Doc]
               entry(k) == [row |-> at[k], doc |-> rs[at[k]].doc]
    <3>2. \A k \in 1..c : entry(k) \in E BY <3>1
    <3>3. Rerank!Entries(rs) = [k \in 1..c |-> entry(k)] BY <1>1
    <3> HIDE DEF E, entry
    <3>4. Rerank!Entries(rs) \in Seq(E) /\ Len(Rerank!Entries(rs)) = c BY <3>2, <3>3
    <3> QED BY <3>4 DEF E
  <2>2. \A k \in 1..c : Rerank!Entries(rs)[k].row = at[k] /\ Rerank!Entries(rs)[k].doc = rs[at[k]].doc
    BY <1>1
  <2> QED BY <1>2, <2>1, <2>2 DEF Placed
<1>5. Rerank!DocsOf(Rerank!Entries(rs)) = Rerank!DocsOf(Rerank!Filled(rs))
  <2>1. Rerank!DocsOf(Rerank!Entries(rs)) = [k \in 1..c |-> rs[at[k]].doc]
    BY <1>1 DEF Rerank!DocsOf
  <2>2. Rerank!DocsOf(Rerank!Filled(rs)) = [k \in 1..c |-> rs[at[k]].doc]
    BY <1>1 DEF Rerank!DocsOf
  <2> QED BY <2>1, <2>2
<1> QED BY <1>1, <1>2, <1>3, <1>4, <1>5

\* What JSON text is made into is ranked as it is.
LEMMA JsonRanked ==
  ASSUME NEW fs \in Seq(Rows), \A k \in 1..Len(fs) : fs[k].doc # "blank"
  PROVE  Rerank!DocsOf(Rerank!Entries(Append(fs, Rerank!Row("blank")))) = Rerank!DocsOf(fs)
PROOF
<1> DEFINE n == Len(fs)
           rs == Append(fs, Rerank!Row("blank"))
<1>1. "blank" \in Doc BY DEF Doc
<1>2. Rerank!Row("blank") \in Rows /\ Rerank!Row("blank").doc = "blank" BY <1>1, RowsMade
<1>3. /\ n \in Nat /\ rs \in Seq(Rows) /\ DOMAIN rs = 1..(n + 1) /\ rs[n + 1].doc = "blank"
      /\ DOMAIN fs = 1..n /\ \A k \in 1..n : rs[k] = fs[k]
  BY <1>2
<1> HIDE DEF rs, n
<1>4. {i \in DOMAIN rs : rs[i].doc # "blank"} = 1..n BY <1>3 DEF n
<1>5. Rerank!FilledAt(rs) = [k \in 1..n |-> k] BY <1>3, <1>4, InOrderAll DEF Rerank!FilledAt
<1>6. Rerank!Entries(rs) = [k \in 1..n |-> [row |-> k, doc |-> fs[k].doc]]
  <2>1. \A k \in 1..n : Rerank!FilledAt(rs)[k] = k BY <1>5
  <2>2. DOMAIN Rerank!FilledAt(rs) = 1..n BY <1>5
  <2> QED BY <1>3, <2>1, <2>2 DEF Rerank!Entries
<1>7. Rerank!DocsOf(Rerank!Entries(rs)) = [k \in 1..n |-> fs[k].doc] BY <1>6 DEF Rerank!DocsOf
<1> QED BY <1>3, <1>7 DEF Rerank!DocsOf, rs

LEMMA RerankBegins == ASSUME Rerank!Init PROVE RerankInv
PROOF
<1>1. DefaultDocs \in Seq(Doc) /\ "blank" \in Doc BY DEF DefaultDocs, Doc, Docs
<1>2. Rerank!DefaultRows \in Seq(Rows) BY <1>1, RowsMade DEF Rerank!DefaultRows
<1>3. rows = Rerank!DefaultRows /\ editor = "table" /\ jsonText = <<>> /\ task = None
  BY DEF Rerank!Init, Rerank!InterfaceInit
<1> QED BY <1>2, <1>3 DEF RerankInv

\* The properties of a step.
Ranks == Rerank!ScoresItsRow /\ Rerank!RanksTheEditor

\* The editors change what they show while no request runs.
LEMMA RowEdited ==
  ASSUME RerankInv, NEW i \in DOMAIN rows, ~DeleteWhileBusy,
         Rerank!DeleteRow(i) \/ \E doc \in Doc : Rerank!UpdateDoc(i, doc)
  PROVE  ~busy /\ UNCHANGED <<task, busy, editor, jsonText>> /\ rows' \in Seq(Rows)
PROOF
<1>1. rows \in Seq(Rows) /\ i \in 1..Len(rows) /\ Len(rows) \in Nat BY DEF RerankInv
<1>2. CASE Rerank!DeleteRow(i)
  <2>1. Rerank!RemoveAt(rows, i) \in Seq(Rows) BY <1>1 DEF Rerank!RemoveAt
  <2>2. /\ ~busy /\ rows' = Rerank!AutoAdd(Rerank!RemoveAt(rows, i))
        /\ UNCHANGED <<task, busy, editor, jsonText>>
    BY <1>2 DEF Rerank!DeleteRow, Rerank!ifaceVars
  <2> QED BY <2>1, <2>2, AutoAdded
<1>3. ASSUME NEW doc \in Doc, Rerank!UpdateDoc(i, doc)
      PROVE  ~busy /\ UNCHANGED <<task, busy, editor, jsonText>> /\ rows' \in Seq(Rows)
  <2>1. [rows EXCEPT ![i].doc = doc] \in Seq(Rows)
    <3>1. rows[i] \in Rows BY <1>1
    <3>2. [rows[i] EXCEPT !.doc = doc] \in Rows BY <3>1, <1>3 DEF Rows
    <3> QED BY <1>1, <3>2
  <2>2. /\ ~busy /\ rows' = Rerank!AutoAdd([rows EXCEPT ![i].doc = doc])
        /\ UNCHANGED <<task, busy, editor, jsonText>>
    BY <1>3 DEF Rerank!UpdateDoc, Rerank!ifaceVars
  <2> QED BY <2>1, <2>2, AutoAdded
<1> QED BY <1>2, <1>3

LEMMA EditorSwitched ==
  ASSUME RerankInv,
         Rerank!SwitchToJson \/ Rerank!SwitchToTable \/ \E t \in Rerank!Texts : Rerank!EditJson(t)
  PROVE  /\ ~busy /\ UNCHANGED <<task, busy>> /\ rows' \in Seq(Rows)
         /\ editor' \in {"table", "json"}
         /\ jsonText' = Invalid \/ jsonText' \in Seq(Doc)
PROOF
<1> USE DEF RerankInv
<1>1. CASE Rerank!SwitchToJson
  <2>1. /\ ~busy /\ UNCHANGED <<task, busy, rows>>
        /\ jsonText' = Rerank!DocsOf(Rerank!Filled(rows)) /\ editor' = "json"
    BY <1>1 DEF Rerank!SwitchToJson, Rerank!ifaceVars
  <2> QED BY <2>1, EntriesPlaced, RowsMade
<1>2. CASE Rerank!SwitchToTable
  <2>1. ~busy /\ UNCHANGED <<task, busy, jsonText>> /\ editor' \in {"table", "json"}
    BY <1>2 DEF Rerank!SwitchToTable, Rerank!ifaceVars
  <2>2. CASE jsonText = Invalid BY <1>2, <2>1, <2>2 DEF Rerank!SwitchToTable
  <2>3. CASE jsonText # Invalid
    <3>1. /\ jsonText \in Seq(Doc)
          /\ rows' = IF jsonText = <<>> THEN <<Rerank!Row("blank")>>
                     ELSE Rerank!AutoAdd(Rerank!RowsOf(jsonText))
      BY <1>2, <2>3 DEF Rerank!SwitchToTable
    <3>2. "blank" \in Doc BY DEF Doc
    <3>3. Rerank!Row("blank") \in Rows /\ Rerank!RowsOf(jsonText) \in Seq(Rows)
      BY <3>1, <3>2, RowsMade
    <3> QED BY <2>1, <3>1, <3>3, AutoAdded
  <2> QED BY <2>2, <2>3
<1>3. ASSUME NEW t \in Rerank!Texts, Rerank!EditJson(t)
      PROVE  /\ ~busy /\ UNCHANGED <<task, busy, rows, editor>>
             /\ jsonText' = Invalid \/ jsonText' \in Seq(Doc)
  <2>1. ~busy /\ UNCHANGED <<task, busy, rows, editor>> /\ jsonText' = t
    BY <1>3 DEF Rerank!EditJson, Rerank!ifaceVars
  <2>2. t = Invalid \/ t \in Seq(Doc)
    <3>1. t = Invalid \/ \E n \in 0..2 : t \in [1..n -> Doc] BY DEF Rerank!Texts, Doc
    <3>2. \A n \in 0..2 : \A f \in [1..n -> Doc] : f \in Seq(Doc) OBVIOUS
    <3> QED BY <3>1, <3>2
  <2> QED BY <2>1, <2>2
<1> QED BY <1>1, <1>2, <1>3

\* What is submitted is what the editor shows, each document with its place in the table.
LEMMA Submits ==
  ASSUME RerankInv, Rerank!Submit
  PROVE  /\ busy' /\ UNCHANGED jsonText /\ rows' \in Seq(Rows) /\ Placed(task', rows')
         /\ editor' = "table"
         /\ task' # None => Rerank!RanksTheEditor
PROOF
<1> DEFINE rs == Rerank!SubmittedRows
<1>1. /\ editor = "json" => jsonText # Invalid
      /\ busy' /\ task' = Rerank!Entries(rs) /\ UNCHANGED jsonText /\ editor' = "table"
      /\ rows' = Rerank!AutoAdd(Rerank!RowsOf(Rerank!DocsOf(rs)))
  BY DEF Rerank!Submit, Rerank!Run
<1>2. /\ rows \in Seq(Rows) /\ editor \in {"table", "json"}
      /\ editor = "json" => jsonText \in Seq(Doc)
  BY <1>1 DEF RerankInv
<1>3. /\ rs \in Seq(Rows)
      /\ Rerank!DocsOf(task')
           = Rerank!DocsOf(Rerank!Filled(IF editor = "json" THEN Rerank!RowsOf(jsonText) ELSE rows))
  <2>1. CASE editor = "table"
    <3>1. rs = rows BY <2>1 DEF Rerank!SubmittedRows
    <3> QED BY <1>1, <1>2, <2>1, <3>1, EntriesPlaced
  <2>2. CASE editor # "table"
    <3> DEFINE fs == Rerank!Filled(Rerank!RowsOf(jsonText))
    <3>1. editor = "json" BY <1>2, <2>2
    <3>2. Rerank!RowsOf(jsonText) \in Seq(Rows) BY <1>2, <3>1, RowsMade
    <3>3. fs \in Seq(Rows) /\ \A k \in 1..Len(fs) : fs[k].doc # "blank"
      BY <3>2, EntriesPlaced
    <3>4. rs = Append(fs, Rerank!Row("blank")) BY <2>2 DEF Rerank!SubmittedRows
    <3> HIDE DEF fs, rs
    <3>5. rs \in Seq(Rows)
      <4>1. "blank" \in Doc BY DEF Doc
      <4> QED BY <3>3, <3>4, <4>1, RowsMade
    <3>6. Rerank!DocsOf(Rerank!Entries(rs)) = Rerank!DocsOf(fs) BY <3>3, <3>4, JsonRanked
    <3> QED BY <1>1, <3>1, <3>5, <3>6 DEF fs
  <2> QED BY <2>1, <2>2
<1> HIDE DEF rs
<1>4. Placed(task', rs) BY <1>1, <1>3, EntriesPlaced
<1>5. /\ rows' \in Seq(Rows) /\ Len(rows') >= Len(rs)
      /\ \A i \in 1..Len(rs) : rows'[i].doc = rs[i].doc
  <2> DEFINE docs == Rerank!DocsOf(rs)
             made == Rerank!RowsOf(docs)
  <2>1. docs \in Seq(Doc) /\ Len(docs) = Len(rs) /\ \A i \in 1..Len(rs) : docs[i] = rs[i].doc
    BY <1>3, RowsMade
  <2> HIDE DEF docs
  <2>2. made \in Seq(Rows) /\ Len(made) = Len(docs) /\ \A i \in 1..Len(docs) : made[i].doc = docs[i]
    BY <2>1, RowsMade
  <2>3. rows' = Rerank!AutoAdd(made) BY <1>1 DEF docs
  <2> HIDE DEF made
  <2> QED BY <2>1, <2>2, <2>3, AutoAdded
<1>6. Placed(task', rows')
  <2>1. Len(rs) \in Nat /\ Len(rows') \in Nat BY <1>3, <1>5
  <2> QED BY <1>4, <1>5, <2>1 DEF Placed
<1>7. Rerank!RanksTheEditor BY <1>3 DEF Rerank!RanksTheEditor
<1> QED BY <1>1, <1>5, <1>6, <1>7

\* Each score is put where its document is.
LEMMA Scores ==
  ASSUME RerankInv, NEW answered, Rerank!Respond(answered)
  PROVE  /\ task # None /\ task' = None /\ rows' \in Seq(Rows) /\ UNCHANGED <<editor, jsonText>>
         /\ Rerank!ScoresItsRow
PROOF
<1>1. /\ task # None /\ answered \subseteq DOMAIN task /\ UNCHANGED <<editor, jsonText>>
      /\ \/ rows' = Rerank!Scored(rows, task, answered) /\ Rerank!Resolved
         \/ Rerank!Threw /\ UNCHANGED rows
  BY DEF Rerank!Respond
<1>2. task' = None BY <1>1 DEF Rerank!Resolved, Rerank!Threw, Rerank!Settle
<1>3. rows \in Seq(Rows) /\ Placed(task, rows) BY <1>1 DEF RerankInv
<1>4. CASE UNCHANGED rows BY <1>1, <1>2, <1>3, <1>4 DEF Rerank!ScoresItsRow
<1>5. CASE rows' = Rerank!Scored(rows, task, answered)
  <2> DEFINE n == Len(rows)
             For(i) == CHOOSE k \in answered : task[k].row = i
             Hit(i) == \E k \in answered : task[k].row = i
             new(i) == IF Hit(i) THEN [rows[i] EXCEPT !.score = task[For(i)].doc] ELSE rows[i]
  <2>1. n \in Nat /\ DOMAIN rows = 1..n BY <1>3
  <2>2. rows' = [i \in 1..n |-> new(i)] BY Zenon, <1>5, <2>1 DEF Rerank!Scored
  <2>3. ASSUME NEW i \in 1..n
        PROVE  /\ new(i) \in Rows /\ new(i).doc = rows[i].doc
               /\ new(i).score # rows[i].score => new(i).score = rows[i].doc
    <3>1. rows[i] \in Rows BY <1>3
    <3>2. CASE ~Hit(i) BY <3>1, <3>2
    <3>3. CASE Hit(i)
      <4>1. For(i) \in answered /\ task[For(i)].row = i BY <3>3
      <4> HIDE DEF For, Hit
      <4>2. new(i) = [rows[i] EXCEPT !.score = task[For(i)].doc] BY <3>3
      <4>3. For(i) \in 1..Len(task)
        <5>1. DOMAIN task = 1..Len(task) BY <1>3 DEF Placed
        <5> QED BY <1>1, <4>1, <5>1
      <4>4. task[For(i)].doc = rows[i].doc BY <1>3, <4>1, <4>3 DEF Placed
      <4>5. rows[i].doc \in Doc BY <3>1, RowFields
      <4> QED BY <3>1, <4>2, <4>4, <4>5 DEF Rows
    <3> QED BY <3>2, <3>3
  <2> HIDE DEF new, n
  <2>4. rows' \in Seq(Rows) /\ DOMAIN rows' = 1..n BY <2>1, <2>2, <2>3
  <2>5. \A i \in 1..n : rows'[i] = new(i) BY <2>2
  <2>6. Rerank!ScoresItsRow BY <2>3, <2>4, <2>5 DEF Rerank!ScoresItsRow
  <2> QED BY <1>1, <1>2, <2>4, <2>6
<1> QED BY <1>1, <1>4, <1>5

LEMMA RerankStep ==
  ASSUME ~DeleteWhileBusy, RerankInv, [Rerank!Next]_(Rerank!vars)
  PROVE  RerankInv' /\ Ranks
PROOF
<1> USE DEF Ranks
<1>1. ASSUME UNCHANGED task PROVE Ranks
  BY <1>1 DEF Rerank!ScoresItsRow, Rerank!RanksTheEditor
<1>2. ASSUME UNCHANGED <<task, busy, rows, editor, jsonText>> PROVE RerankInv' /\ Ranks
  BY <1>1, <1>2 DEF RerankInv
<1>3. ASSUME ~busy, UNCHANGED <<task, busy>>, rows' \in Seq(Rows),
             editor' \in {"table", "json"}, jsonText' = Invalid \/ jsonText' \in Seq(Doc)
      PROVE  RerankInv' /\ Ranks
  BY <1>1, <1>3 DEF RerankInv
<1>4. ASSUME NEW i \in DOMAIN rows,
             Rerank!DeleteRow(i) \/ \E doc \in Docs \cup {"blank"} : Rerank!UpdateDoc(i, doc)
      PROVE  RerankInv' /\ Ranks
  <2>1. ~busy /\ UNCHANGED <<task, busy, editor, jsonText>> /\ rows' \in Seq(Rows)
    BY <1>4, RowEdited DEF Doc
  <2>2. editor' \in {"table", "json"} /\ (jsonText' = Invalid \/ jsonText' \in Seq(Doc))
    BY <2>1 DEF RerankInv
  <2> QED BY <1>3, <2>1, <2>2
<1>5. CASE Rerank!SwitchToJson \/ Rerank!SwitchToTable \/ \E t \in Rerank!Texts : Rerank!EditJson(t)
  BY <1>3, <1>5, EditorSwitched
<1>6. CASE Rerank!Submit
  <2>1. task = None BY <1>6 DEF Rerank!Submit, Rerank!Run, RerankInv
  <2> QED BY <1>6, <2>1, Submits
      DEF RerankInv, Rerank!ScoresItsRow, Rerank!RanksTheEditor
<1>7. ASSUME NEW A, Rerank!Respond(A) PROVE RerankInv' /\ Ranks
  BY <1>7, Scores DEF RerankInv, Rerank!RanksTheEditor
<1>8. CASE Rerank!NoAnswer
  <2>1. task' = None /\ UNCHANGED <<rows, editor, jsonText>>
    BY <1>8 DEF Rerank!NoAnswer, Rerank!Failed, Rerank!Aborted, Rerank!Settle, Rerank!tabVars
  <2> QED BY <2>1 DEF RerankInv, Rerank!ScoresItsRow, Rerank!RanksTheEditor
<1>9. CASE Rerank!Clear
  <2>1. /\ ~busy /\ UNCHANGED <<task, busy, editor>>
        /\ rows' = Rerank!DefaultRows /\ jsonText' = <<>>
    BY <1>9 DEF Rerank!Clear
  <2>2. DefaultDocs \in Seq(Doc) /\ "blank" \in Doc BY DEF DefaultDocs, Doc, Docs
  <2>3. Rerank!DefaultRows \in Seq(Rows) BY <2>2, RowsMade DEF Rerank!DefaultRows
  <2>4. editor' \in {"table", "json"} BY <2>1 DEF RerankInv
  <2> QED BY <1>3, <2>1, <2>3, <2>4
<1>10. CASE Rerank!CycleSortOrder \/ Rerank!CancelRequest \/ UNCHANGED Rerank!vars
  BY <1>2, <1>10 DEF Rerank!CycleSortOrder, Rerank!CancelRequest, Rerank!Cancel,
                     Rerank!ifaceVars, Rerank!tabVars, Rerank!vars
<1> QED BY Zenon, <1>4, <1>5, <1>6, <1>7, <1>8, <1>9, <1>10 DEF Rerank!Next

HIDE DEF task, busy, rows, editor, jsonText

-----------------------------------------------------------------------------
(* The parts together.                                                     *)

LEMMA PartsBegin ==
  ASSUME Init
  PROVE  /\ part = "Chat" => Chat!Init
         /\ part = "Store" => Store!Init
         /\ part = "Audio" => Audio!Init
         /\ part = "Images" => Images!Init
         /\ part = "Speech" => Speech!Init
         /\ part = "Rerank" => Rerank!Init
PROOF BY Zenon DEF Init

LEMMA PartsStep ==
  ASSUME [Next /\ UNCHANGED part]_vars
  PROVE  /\ part' = part
         /\ part = "Chat" => [Chat!Next]_(Chat!vars)
         /\ part = "Store" => [Store!Next]_(Store!vars)
         /\ part = "Audio" => [Audio!Next]_(Audio!vars)
         /\ part = "Images" => [Images!Next]_(Images!vars)
         /\ part = "Speech" => [Speech!Next]_(Speech!vars)
         /\ part = "Rerank" => [Rerank!Next]_(Rerank!vars)
PROOF
<1>1. CASE UNCHANGED vars
  <2>1. part' = part /\ UNCHANGED <<v1, v2, v3, v4, v5, v6, v7, v8, v9, v10, v11, v12, v13,
                                    v14, v15, v16, v17, v18, v19, v20, v21, v22, v23>>
    BY <1>1 DEF vars
  <2>2. UNCHANGED Chat!vars BY <2>1 DEF Chat!vars, Chat!talkVars, Chat!storeVars
  <2>3. UNCHANGED Store!vars
    BY <2>1 DEF Store!vars, Store!server, Store!stream, Store!feed, Store!profile, Store!playground
  <2>4. UNCHANGED Audio!vars BY <2>1 DEF Audio!vars, Audio!ifaceVars, Audio!tabVars
  <2>5. UNCHANGED Images!vars
    BY <2>1 DEF Images!vars, Images!ifaceVars, Images!tabVars, Images!settingVars,
                Images!loraVars, Images!shownVars
  <2>6. UNCHANGED Speech!vars
    BY <2>1 DEF Speech!vars, Speech!ifaceVars, Speech!tabVars, Speech!voiceVars,
                Speech!audioVars
  <2>7. UNCHANGED Rerank!vars BY <2>1 DEF Rerank!vars, Rerank!ifaceVars, Rerank!tabVars
  <2> QED BY <2>1, <2>2, <2>3, <2>4, <2>5, <2>6, <2>7
<1>2. CASE Next /\ UNCHANGED part BY Zenon, <1>2 DEF Next
<1> QED BY <1>1, <1>2

\* The invariant of the chat, whatever is written, and however many requests are made.
LEMMA ChatAlways == Spec => [](part = "Chat" => ChatInv)
PROOF
<1>1. Init => (part = "Chat" => ChatInv) BY PartsBegin, ChatBegins
<1>2. (part = "Chat" => ChatInv) /\ [Next /\ UNCHANGED part]_vars => (part = "Chat" => ChatInv)'
  BY PartsStep, ChatStep
<1> QED BY <1>1, <1>2, PTL DEF Spec

\* MCPlayground!AnswersWhatIsAbove, through every cancel, edit, new chat, reload and
\* regenerate: a reply's request was made from the conversation above it, and it holds what
\* that request answered.  A reply of a request that overlaps with others, since an earlier
\* reply was regenerated while another streamed, may hold their answers too, and no others'.
THEOREM AnswersWhatIsAboveHolds == Spec => []AnswersWhatIsAbove
PROOF
<1>1. (part = "Chat" => ChatInv) => AnswersWhatIsAbove
  BY ChatMeans DEF AnswersWhatIsAbove
<1> QED BY <1>1, ChatAlways, PTL

\* MCPlayground!CancelReaches: a stream that is over does not hold the input, and Cancel
\* stops the newest request.  It reaches every reply that is being streamed, but for those
\* of requests that overlap since an earlier reply was regenerated while another streamed.
THEOREM CancelReachesHolds == Spec => []CancelReaches
PROOF
<1>1. (part = "Chat" => ChatInv) => CancelReaches
  BY ChatMeans DEF CancelReaches
<1> QED BY <1>1, ChatAlways, PTL

\* MCPlayground!SavedOrScheduled, however writes to localStorage fail: it has the
\* conversation, or a save of it is scheduled, or the last write was refused.
THEOREM SavedOrScheduledHolds == Spec => []SavedOrScheduled
PROOF
<1>1. (part = "Chat" => ChatInv) => SavedOrScheduled
  BY ChatMeans DEF SavedOrScheduled
<1> QED BY <1>1, ChatAlways, PTL

\* MCPlayground!StoreSettles, whatever the number of profiles, connections and changes,
\* and in whatever order the connection's two goroutines send: when nothing is on its way,
\* the active profile and the list the page has are the server's.  Where send has dropped
\* a message of the connection neither is promised, where a newer profile has overtaken the
\* initial one the profile is not, and where the last fetch failed the list is not.
THEOREM StoreSettlesHolds == Spec => []StoreSettles
PROOF
<1> DEFINE Inv == part = "Store" => StoreInv /\ QueuedInv
<1>1. Init => Inv BY PartsBegin, StoreBegins DEF QueuedInv
<1>2. Inv /\ [Next /\ UNCHANGED part]_vars => Inv'
  BY PartsStep, StoreStep, QueuedStep
<1>3. Inv => StoreSettles BY StoreMeans DEF StoreSettles
<1> QED BY <1>1, <1>2, <1>3, PTL DEF Spec

\* What ResultsOfTheirRequest says of three tabs, whatever the files, models and sizes: a
\* transcript is its file's, the images shown are of one request, and the cache keeps a
\* model's voices under that model.
LEMMA TabsShowTheirRequest ==
  Spec => /\ [](part = "Audio" => Audio!TranscriptOfFile)
          /\ [](part = "Images" => Images!ImagesOfOneRequest)
          /\ [](part = "Speech" => Speech!CacheByModel)
PROOF
<1> DEFINE Inv == /\ part = "Audio" => TranscriptInv
                  /\ part = "Images" => Images!ImagesOfOneRequest
                  /\ part = "Speech" => CacheInv
<1>1. Init => Inv BY PartsBegin, TranscriptBegins, ImagesBegin, CacheBegins
<1>2. Inv /\ [Next /\ UNCHANGED part]_vars => Inv'
  BY PartsStep, TranscriptStep, ImagesStep, CacheStep
<1>3. Inv => /\ part = "Audio" => Audio!TranscriptOfFile
             /\ part = "Images" => Images!ImagesOfOneRequest
             /\ part = "Speech" => Speech!CacheByModel
  BY DEF TranscriptInv, CacheInv
<1> QED BY <1>1, <1>2, <1>3, PTL DEF Spec

\* MCPlayground!ResultsOfTheirRequest, whatever the documents, files, models and sizes,
\* when no row is deleted while a request runs: what is ranked is what the editor shows,
\* each score is put beside the document it was computed for, and the other tabs show the
\* results of their request.
THEOREM ResultsOfTheirRequestHold ==
  ASSUME ~DeleteWhileBusy
  PROVE  Spec => ResultsOfTheirRequest
PROOF
<1> DEFINE Inv == part = "Rerank" => RerankInv
           Shows == part = "Rerank" => Rerank!ScoresItsRow /\ Rerank!RanksTheEditor
<1>1. Init => Inv BY PartsBegin, RerankBegins
<1>2. Inv /\ [Next /\ UNCHANGED part]_vars => Inv' /\ [Shows]_vars
  BY PartsStep, RerankStep DEF Ranks
<1>3. Spec => [][Shows]_vars
  <2> HIDE DEF Inv, Shows
  <2> QED BY <1>1, <1>2, PTL DEF Spec
<1> QED BY <1>3, TabsShowTheirRequest DEF ResultsOfTheirRequest
=============================================================================

----------------------------- MODULE TabProofs -----------------------------
(***************************************************************************)
(* What one tab shows, in any order in which answers, events and clicks    *)
(* reach it.                                                               *)
(***************************************************************************)
EXTENDS ChatWindow, Bubbles, ChatList, UserConsole, BotConsole, TLAPS

(***************************************************************************)
(* The chat list                                                           *)
(*                                                                         *)
(* GoneLeaves speaks of a tab that waits for nothing.  Of any other, a row *)
(* whose conversation is gone is one that a word under way will take, or   *)
(* one of which the tab could not be told.                                 *)
(***************************************************************************)
Words == outbox \cup {chan[i] : i \in DOMAIN chan}
Doomed(c) == \E e \in Words : e.chat = c /\ RowGone(e.kind)

ListInv ==
  /\ state \in [Chats -> {"none", "pending", "accepted", "gone"}]
  /\ \E S : chan \in Seq(S)
  /\ fetch.st \in {"asked", "read", "done"}
  /\ \A t \in Groups : state[t] = "accepted"
  /\ DOMAIN items \subseteq Chats /\ DOMAIN fetch.rows \subseteq Chats
  /\ fetch.st = "asked" => DOMAIN items = {}
  /\ \A c \in DOMAIN items \ lapsed : state[c] = "accepted" \/ Doomed(c)
  /\ fetch.st = "read" => \A c \in DOMAIN fetch.rows \ lapsed : state[c] = "accepted"

LEMMA AppendRange ==
  ASSUME NEW S, NEW s \in Seq(S), NEW e
  PROVE  /\ Append(s, e) \in Seq(S \cup {e})
         /\ {Append(s, e)[i] : i \in DOMAIN Append(s, e)} = {s[i] : i \in DOMAIN s} \cup {e}
<1> DEFINE t == Append(s, e)
<1>1. s \in Seq(S \cup {e})
  OBVIOUS
<1>2. t \in Seq(S \cup {e}) /\ DOMAIN t = 1..(Len(s) + 1) /\ t[Len(s) + 1] = e
      /\ \A i \in 1..Len(s) : t[i] = s[i]
  BY <1>1
<1>3. DOMAIN s = 1..Len(s) /\ Len(s) \in Nat
  OBVIOUS
<1>4. {t[i] : i \in DOMAIN t} \subseteq {s[i] : i \in DOMAIN s} \cup {e}
  BY <1>2, <1>3
<1>5. {s[i] : i \in DOMAIN s} \cup {e} \subseteq {t[i] : i \in DOMAIN t}
  BY <1>2, <1>3
<1>6. QED
  BY <1>2, <1>4, <1>5

LEMMA TailRange ==
  ASSUME NEW S, NEW s \in Seq(S), s # <<>>
  PROVE  /\ Tail(s) \in Seq(S)
         /\ {s[i] : i \in DOMAIN s} = {Head(s)} \cup {Tail(s)[i] : i \in DOMAIN Tail(s)}
<1> DEFINE t == Tail(s)
<1>1. DOMAIN s = 1..Len(s) /\ Len(s) \in Nat \ {0} /\ Head(s) = s[1]
  OBVIOUS
<1>2. t \in Seq(S) /\ DOMAIN t = 1..(Len(s) - 1) /\ \A i \in 1..(Len(s) - 1) : t[i] = s[i + 1]
  OBVIOUS
<1>3. {s[i] : i \in DOMAIN s} \subseteq {Head(s)} \cup {t[i] : i \in DOMAIN t}
  <2> SUFFICES ASSUME NEW i \in DOMAIN s, i # 1
               PROVE  s[i] \in {t[j] : j \in DOMAIN t}
    BY <1>1
  <2>1. i - 1 \in DOMAIN t /\ t[i - 1] = s[i]
    BY <1>1, <1>2
  <2>2. QED
    BY <2>1
<1>4. {t[i] : i \in DOMAIN t} \subseteq {s[i] : i \in DOMAIN s}
  BY <1>1, <1>2
<1>5. Head(s) \in {s[i] : i \in DOMAIN s}
  BY <1>1
<1>6. QED
  BY <1>2, <1>3, <1>4, <1>5

\* Conversation c changes, and the tab is told if it leaves the list.
LEMMA StoredStep ==
  ASSUME ListInv, NEW c \in Chats, NEW st \in {"none", "pending", "accepted", "gone"},
         state' = [state EXCEPT ![c] = st], UNCHANGED <<chan, items, fetch>>,
         outbox \subseteq outbox', Changed({c}),
         state[c] = "accepted" => st = "accepted" \/ Doomed(c)',
         c \in Groups => st = "accepted"
  PROVE  ListInv'
<1>1. \A x \in Chats : state'[x] = IF x = c THEN st ELSE state[x]
  BY DEF ListInv
<1>2. Words \subseteq Words' /\ \A x : Doomed(x) => Doomed(x)'
  BY DEF Words, Doomed
<1>3. lapsed \subseteq lapsed' /\ (fetch.st = "read" => c \in lapsed')
  BY DEF Changed, Behind
<1>4. ASSUME NEW x \in DOMAIN items' \ lapsed' PROVE state'[x] = "accepted" \/ Doomed(x)'
  BY <1>1, <1>2, <1>3 DEF ListInv
<1>5. ASSUME fetch'.st = "read", NEW x \in DOMAIN fetch'.rows \ lapsed' PROVE state'[x] = "accepted"
  BY <1>1, <1>3, <1>5 DEF ListInv
<1>6. state' \in [Chats -> {"none", "pending", "accepted", "gone"}]
  BY DEF ListInv
<1>7. \A t \in Groups : state'[t] = "accepted"
  BY <1>1 DEF ListInv, Chats
<1>8. QED
  BY <1>4, <1>5, <1>6, <1>7 DEF ListInv

LEMMA OpenedStep ==
  ASSUME ListInv, NEW c \in Talks, NEW who, Opened(c, who), UNCHANGED <<chan, items, fetch>>
  PROVE  ListInv'
<1> DEFINE st == IF c \in Bots THEN "accepted" ELSE "pending"
<1>1. c \in Chats /\ state[c] # "accepted" /\ c \notin Groups
  BY ChatListAssumption DEF Opened, Chats
<1>2. QED
  BY <1>1, StoredStep, st \in {"none", "pending", "accepted", "gone"} DEF Opened

LEMMA AcceptedStep ==
  ASSUME ListInv, NEW c \in Talks, Accepted(c), UNCHANGED <<chan, items, fetch>>
  PROVE  ListInv'
<1>1. c \in Chats /\ state[c] # "accepted" /\ c \notin Groups
  BY ChatListAssumption DEF Accepted, Chats
<1>2. outbox \subseteq outbox' /\ Changed({c})
  BY DEF Accepted, Publish, Told
<1>3. QED
  BY <1>1, <1>2, StoredStep DEF Accepted

LEMMA GoneStep ==
  ASSUME ListInv, NEW c \in Talks, Gone(c), UNCHANGED <<chan, items, fetch>>
  PROVE  ListInv'
<1> DEFINE e == Told(IF state[c] = "pending" THEN "declined" ELSE "deleted", c)
<1>1. c \in Chats /\ c \notin Groups
  BY ChatListAssumption DEF Chats
<1>2. outbox' = outbox \cup {e} /\ e.chat = c /\ RowGone(e.kind) /\ Changed({c})
  BY DEF Gone, Publish, Told, RowGone
<1>3. Doomed(c)'
  BY <1>2 DEF Doomed, Words, RowGone
<1>4. QED
  BY <1>1, <1>2, <1>3, StoredStep DEF Gone

LEMMA MessageStep ==
  ASSUME ListInv, NEW c \in Chats, NEW mine, Message(c, mine), UNCHANGED <<chan, items, fetch>>
  PROVE  ListInv'
<1>1. outbox \subseteq outbox' /\ Changed({c})
  BY DEF Message, Publish, Told
<1>2. state' = [state EXCEPT ![c] = state[c]] /\ state[c] \in {"none", "pending", "accepted", "gone"}
  BY DEF Message, ListInv
<1>3. QED
  BY <1>1, <1>2, StoredStep DEF Message

\* A page load starts from an empty list.
LEMMA ReloadedStep ==
  ASSUME state' \in [Chats -> {"none", "pending", "accepted", "gone"}],
         \A t \in Groups : state'[t] = "accepted", Reloaded
  PROVE  ListInv'
<1>1. chan' \in Seq({}) /\ DOMAIN items' = {} /\ DOMAIN fetch'.rows = {} /\ fetch'.st = "asked"
  BY DEF Reloaded
<1>2. QED
  BY <1>1 DEF ListInv

\* A word that finds no socket is told to none: its chat lapses, or the list is yet to be read.
LEMMA RelayStep ==
  ASSUME ListInv, NEW e, Relay(e)
  PROVE  ListInv'
<1>1. UNCHANGED <<state, items, fetch>> /\ lapsed \subseteq lapsed'
  BY DEF Relay, stored, Changed
<1>2. PICK S : chan \in Seq(S)
  BY DEF ListInv
<1>3. CASE sock
  <2>1. chan' = Append(chan, e) /\ outbox' = outbox \ {e}
    BY <1>3 DEF Relay
  <2>2. chan' \in Seq(S \cup {e}) /\ Words \subseteq Words'
    BY <1>2, <2>1, AppendRange DEF Words
  <2>3. \A c : Doomed(c) => Doomed(c)'
    BY <2>2 DEF Doomed
  <2>4. QED
    BY <1>1, <2>2, <2>3 DEF ListInv
<1>4. CASE ~sock
  <2>1. chan' = chan /\ outbox' = outbox \ {e} /\ (fetch.st # "asked" => lapsed' = lapsed \cup {e.chat})
    BY <1>4 DEF Relay, Changed, Behind, ListInv
  <2>2. \A c : c # e.chat /\ Doomed(c) => Doomed(c)'
    BY <2>1 DEF Doomed, Words
  <2>3. QED
    BY <1>1, <2>1, <2>2 DEF ListInv
<1>5. QED
  BY <1>3, <1>4

LEMMA HandleToldStep ==
  ASSUME ListInv, HandleTold
  PROVE  ListInv'
<1> DEFINE e == Head(chan)
<1>1. UNCHANGED <<state, outbox, fetch>> /\ lapsed \subseteq lapsed' /\ chan # <<>> /\ chan' = Tail(chan)
  BY DEF HandleTold, stored
<1>2. PICK S : chan \in Seq(S)
  BY DEF ListInv
<1>3. chan' \in Seq(S) /\ Words = Words' \cup {e}
  BY <1>1, <1>2, TailRange DEF Words
<1>4. \A c : Doomed(c) => Doomed(c)' \/ (c = e.chat /\ RowGone(e.kind))
  BY <1>3 DEF Doomed
<1>5. /\ DOMAIN items' \subseteq DOMAIN items
      /\ RowGone(e.kind) => e.chat \notin DOMAIN items'
  <2>1. CASE e.kind = "message"
    BY <2>1 DEF HandleTold, Bumped, RowGone
  <2>2. CASE e.kind # "message"
    BY <2>2 DEF HandleTold, Restrict
  <2>3. QED
    BY <2>1, <2>2
<1>6. \A c \in DOMAIN items' \ lapsed' : state'[c] = "accepted" \/ Doomed(c)'
  BY <1>1, <1>4, <1>5 DEF ListInv
<1>7. DOMAIN items' \subseteq Chats /\ (fetch'.st = "asked" => DOMAIN items' = {})
  BY <1>1, <1>5 DEF ListInv
<1>8. QED
  BY <1>1, <1>3, <1>6, <1>7 DEF ListInv

\* What was on its way when the socket went has lapsed.
LEMMA LoseSocketStep ==
  ASSUME ListInv, LoseSocket
  PROVE  ListInv'
<1>1. UNCHANGED <<state, outbox, items, fetch>> /\ chan' = <<>> /\ chan' \in Seq({})
  BY DEF LoseSocket, stored
<1>2. lapsed' = lapsed \cup {chan[i].chat : i \in DOMAIN chan}
  BY DEF LoseSocket
<1>3. \A c : Doomed(c) => Doomed(c)' \/ c \in lapsed'
  BY <1>1, <1>2 DEF Doomed, Words
<1>4. QED
  BY <1>1, <1>2, <1>3 DEF ListInv

\* The rows are those that are there, and nothing happens unnoticed until they are shown.
LEMMA FetchStep ==
  ASSUME ListInv, Fetch \/ Show \/ Connect
  PROVE  ListInv'
<1>1. UNCHANGED <<state, outbox, chan, lapsed>> /\ \A c : Doomed(c) => Doomed(c)'
  BY DEF Fetch, Show, Connect, stored, Doomed, Words
<1>2. CASE Fetch
  <2>1. DOMAIN ListedTalks = {c \in Talks : state[c] = "accepted"} /\ DOMAIN ListedTopics = Groups
    BY DEF ListedTalks, ListedTopics
  <2>2. DOMAIN Listed = Groups \cup DOMAIN ListedTalks
    BY <2>1 DEF Listed
  <2>3. QED
    BY <1>1, <1>2, <2>1, <2>2 DEF Fetch, ListInv, Chats
<1>3. CASE Show
  BY <1>1, <1>3 DEF Show, ListInv
<1>4. CASE Connect
  BY <1>1, <1>4 DEF Connect, ListInv
<1>5. QED
  BY <1>2, <1>3, <1>4

LEMMA ListInitial == ListInit => ListInv
<1> SUFFICES ASSUME ListInit PROVE ListInv
  OBVIOUS
<1>1. chan \in Seq({}) /\ DOMAIN items = {} /\ DOMAIN fetch.rows = {} /\ fetch.st = "asked"
  BY DEF ListInit
<1>2. state \in [Chats -> {"none", "pending", "accepted", "gone"}] /\ \A t \in Groups : state[t] = "accepted"
  BY DEF ListInit, Chats
<1>3. QED
  BY <1>1, <1>2 DEF ListInv

LEMMA ListStep == ListInv /\ [ListNext]_listVars => ListInv'
<1> SUFFICES ASSUME ListInv, [ListNext]_listVars PROVE ListInv'
  OBVIOUS
<1>1. CASE Elsewhere
  <2> SUFFICES ASSUME UNCHANGED <<chan, items, fetch>> PROVE ListInv'
    BY <1>1 DEF Elsewhere, Tab
  <2>1. ASSUME NEW c \in People, Opened(c, "peer") \/ Accepted(c) PROVE ListInv'
    BY <2>1, OpenedStep, AcceptedStep DEF Talks
  <2>2. ASSUME NEW c \in Talks, Gone(c) PROVE ListInv'
    BY <2>2, GoneStep
  <2>3. ASSUME NEW c \in Chats, NEW mine \in BOOLEAN, Message(c, mine) PROVE ListInv'
    BY <2>3, MessageStep
  <2>4. ASSUME NEW t \in Groups, Read(t) PROVE ListInv'
    BY <2>4 DEF Read, ListInv, Doomed, Words
  <2>5. QED
    BY <1>1, <2>1, <2>2, <2>3, <2>4 DEF Elsewhere
<1>2. ASSUME NEW c \in Talks, Compose(c) \/ AnswerInBell(c) PROVE ListInv'
  BY <1>2, OpenedStep, AcceptedStep, GoneStep DEF Compose, AnswerInBell, Refreshed
<1>3. ASSUME NEW c \in Talks, AnswerInPane(c) PROVE ListInv'
  <2>1. PICK st \in {"accepted", "gone"} : state' = [state EXCEPT ![c] = st]
    BY <1>3 DEF AnswerInPane
  <2>2. state' \in [Chats -> {"none", "pending", "accepted", "gone"}]
    BY <2>1 DEF ListInv
  <2>3. \A t \in Groups : state'[t] = "accepted"
    BY <2>1, ChatListAssumption DEF ListInv, Chats
  <2>4. QED
    BY <1>3, <2>2, <2>3, ReloadedStep DEF AnswerInPane
<1>4. CASE ReloadList
  BY <1>4, ReloadedStep DEF ReloadList, stored, ListInv
<1>5. CASE Fetch \/ Show \/ Connect
  BY <1>5, FetchStep
<1>6. CASE LoseSocket
  BY <1>6, LoseSocketStep
<1>7. ASSUME NEW e \in outbox, Relay(e) PROVE ListInv'
  BY <1>7, RelayStep
<1>8. CASE HandleTold
  BY <1>8, HandleToldStep
<1>9. CASE UNCHANGED listVars
  BY <1>9 DEF listVars, stored, ListInv, Doomed, Words
<1>10. QED
  BY <1>1, <1>2, <1>3, <1>4, <1>5, <1>6, <1>7, <1>8, <1>9 DEF ListNext

\* ChatListContext.tsx:221-226: a conversation that is declined or deleted leaves
\* the list, however the messages about it, the snapshot, page loads and losses
\* of the socket overlap, for any number of conversations, messages and loads.
THEOREM ListedAreThere == ListSpec => []GoneLeaves
<1>1. ListInv => GoneLeaves
  BY DEF ListInv, GoneLeaves, Settled, Doomed, Words
<1>2. QED
  BY <1>1, ListInitial, ListStep, PTL DEF ListSpec

(***************************************************************************)
(* The pane and its composer                                               *)
(*                                                                         *)
(* The pane is what a render of the route, the payload, its status and the *)
(* gate shows, whichever step has rendered last.  A topic's answer counts  *)
(* only while its route is open, so what the pane shows of a topic is of   *)
(* that route.                                                             *)
(***************************************************************************)
Payloads == [conv : Convs \cup {NoConv}, ver : Nat]
Statuses == {"loading", "ready", "notFound", "forbidden", "error"}
Asks == [conv : Convs, live : BOOLEAN]

PaneTypes ==
  /\ url \in Convs \cup {Home} /\ chats \subseteq Convs
  /\ data \in Payloads /\ status \in Statuses /\ cache \subseteq Dms
  /\ asked \subseteq Asks
  /\ entry \in [Topics -> Nat] /\ version \in [Topics -> Nat]

\* An answer that counts is of the route: no topic but the one of the url is still awaited.
AskedOf == \A a \in asked : IF a.conv \in Topics THEN a.live => url = a.conv ELSE a.live

\* What is neither awaited nor refused is there.
Loaded ==
  url \in Convs /\ [conv |-> url, live |-> TRUE] \notin asked =>
    status \in Failed \/ (status = "ready" /\ data.conv = url)

\* The gate is open for a password that was entered since the payload's was set.
Passed ==
  /\ \A t \in Topics : entry[t] <= version[t]
  /\ data.conv \in Topics => data.ver <= version[data.conv]
  /\ gate \in Protected /\ gate = data.conv => entry[gate] = 0 \/ entry[gate] >= data.ver

PaneInv ==
  /\ PaneTypes
  /\ view = Mounted(url, data, status, gate)
  /\ url \in Dms => data.conv \notin Topics
  /\ AskedOf /\ Loaded /\ Passed

LEMMA MountedTopic ==
  ASSUME NEW u \in Topics, NEW d, NEW st, NEW g
  PROVE  /\ Mounted(u, d, st, g) \in {u, NoConv}
         /\ Mounted(u, d, st, g) = u <=> d.conv = u /\ st # "notFound" /\ g = u
  BY ChatWindowAssumption DEF Mounted, TopicMounted, Convs

LEMMA MountedDm ==
  ASSUME NEW u \in Dms, NEW d, NEW st, NEW g
  PROVE  Mounted(u, d, st, g) = IF st \in {"notFound", "error"} THEN NoConv ELSE d.conv
  BY ChatWindowAssumption DEF Mounted, DmMounted

LEMMA MountedHome ==
  ASSUME NEW d, NEW st, NEW g
  PROVE  Mounted(Home, d, st, g) = NoConv
  BY ChatWindowAssumption DEF Mounted, Convs

LEMMA PaneShows == PaneInv => RouteShown
<1> SUFFICES ASSUME PaneInv PROVE RouteShown
  OBVIOUS
<1>1. url \in Topics => view \in {url, NoConv}
  BY MountedTopic DEF PaneInv
<1>2. ASSUME url \in Convs, [conv |-> url, live |-> TRUE] \notin asked, status \notin Failed
      PROVE  view = url \/ Waiting
  <2>1. status = "ready" /\ data.conv = url
    BY <1>2 DEF PaneInv, Loaded
  <2>2. CASE url \in Topics
    BY <2>1, <2>2, MountedTopic DEF PaneInv, Waiting
  <2>3. CASE url \in Dms
    BY <2>1, <2>3, MountedDm DEF PaneInv
  <2>4. QED
    BY <1>2, <2>2, <2>3 DEF Convs
<1>3. ASSUME view \in Protected PROVE gate = view /\ (entry[view] = 0 \/ entry[view] >= data.ver)
  <2>1. view \in Topics /\ view # NoConv /\ view \notin Dms
    BY <1>3, ChatWindowAssumption DEF Convs
  <2>2. url \in Topics
    BY <2>1, MountedDm, MountedHome DEF PaneInv, PaneTypes, Convs
  <2>3. view = url /\ data.conv = url /\ gate = url
    BY <2>1, <2>2, MountedTopic DEF PaneInv
  <2>4. QED
    BY <1>3, <2>3 DEF PaneInv, Passed
<1>4. QED
  BY <1>1, <1>2, <1>3 DEF RouteShown, GateCurrent

LEMMA DeadAsks ==
  ASSUME PaneInv
  PROVE  /\ Dead \subseteq Asks
         /\ \A a \in Dead : IF a.conv \in Topics THEN ~a.live ELSE a.live
<1> SUFFICES ASSUME NEW b \in asked
             PROVE  LET a == [b EXCEPT !.live = @ /\ b.conv \in Dms]
                    IN a \in Asks /\ IF a.conv \in Topics THEN ~a.live ELSE a.live
  BY DEF Dead
<1> DEFINE a == [b EXCEPT !.live = @ /\ b.conv \in Dms]
<1>1. b \in Asks
  BY DEF PaneInv, PaneTypes
<1>2. a \in Asks /\ a.conv = b.conv /\ a.live = (b.live /\ b.conv \in Dms)
  BY <1>1 DEF Asks
<1>3. b.conv \in Topics => b.conv \notin Dms
  BY ChatWindowAssumption
<1>4. b.conv \notin Topics => b.live /\ b.conv \in Dms
  BY <1>1 DEF PaneInv, AskedOf, Asks, Convs
<1>5. QED
  BY <1>2, <1>3, <1>4

\* A payload that shows no topic, or a topic's with its gate, has passed it.
LEMMA UnlockedPassed ==
  ASSUME NEW d \in Payloads, \A t \in Topics : entry[t] \in Nat,
         Unlocked(d) \in Protected, Unlocked(d) = d.conv
  PROVE  entry[d.conv] = d.ver
  BY ChatWindowAssumption DEF Unlocked, IsValid, Convs

LEMMA GoStep ==
  ASSUME PaneInv, NEW c \in Convs \cup {Home}, Go(c), UNCHANGED <<chats, entry, version>>
  PROVE  PaneInv'
<1>1. url' = c /\ view' = Mounted(url', data', status', gate') /\ cache' = cache
  BY DEF Go, Shown
<1>2. asked' \subseteq Asks /\ AskedOf'
  <2>1. CASE c = Home
    BY <1>1, <2>1, DeadAsks DEF Go, AskedOf
  <2>2. CASE c \in Convs
    <3> DEFINE a == [conv |-> c, live |-> TRUE]
    <3>1. asked' = Dead \cup {a}
      BY <2>2, ChatWindowAssumption DEF Go
    <3>2. a \in Asks /\ a.conv = c /\ a.live
      BY <2>2 DEF Asks
    <3>3. QED
      BY <1>1, <3>1, <3>2, DeadAsks DEF AskedOf
  <2>3. QED
    BY <2>1, <2>2
<1>3. data' \in Payloads /\ data'.conv \notin Topics
  <2>1. NoData \in Payloads /\ NoData.conv \notin Topics
    BY ChatWindowAssumption DEF NoData, Payloads, Convs
  <2>2. ASSUME c \in Dms PROVE Cached(c) \in Payloads /\ Cached(c).conv \notin Topics
    BY <2>1, <2>2, ChatWindowAssumption DEF Cached, PaneInv, PaneTypes, Payloads, Convs
  <2>3. QED
    BY <2>1, <2>2 DEF Go
<1>4. status' \in Statuses
  BY DEF Go, Statuses
<1>5. PaneTypes'
  BY <1>1, <1>2, <1>3, <1>4 DEF PaneInv, PaneTypes
<1>6. Loaded'
  BY <1>1, ChatWindowAssumption DEF Go, Loaded
<1>7. Passed'
  BY <1>3, ChatWindowAssumption DEF PaneInv, Passed
<1>8. QED
  BY <1>1, <1>2, <1>3, <1>5, <1>6, <1>7 DEF PaneInv

LEMMA SocketStep ==
  ASSUME PaneInv, SocketChanged
  PROVE  PaneInv'
<1>1. /\ UNCHANGED <<chats, url, data, cache, entry, version, gate>> /\ status' = "loading"
      /\ view' = Mounted(url', data', status', gate')
  BY DEF SocketChanged, Shown
<1> DEFINE a == [conv |-> url, live |-> TRUE]
<1>2. asked' = Dead \cup {a} /\ a \in Asks /\ a.conv = url /\ a.live /\ url \in Topics
  BY DEF SocketChanged, Asks, Convs
<1>3. asked' \subseteq Asks /\ AskedOf'
  BY <1>1, <1>2, DeadAsks DEF AskedOf
<1>4. PaneTypes'
  BY <1>1, <1>3 DEF PaneInv, PaneTypes, Statuses
<1>5. Loaded'
  BY <1>1, <1>2 DEF Loaded
<1>6. Passed'
  BY <1>1 DEF PaneInv, Passed
<1>7. QED
  BY <1>1, <1>3, <1>4, <1>5, <1>6 DEF PaneInv

\* A late answer changes neither payload nor status, and one that counts is of the route.
LEMMA AnswerStep ==
  ASSUME PaneInv, NEW a \in asked, Answer(a)
  PROVE  PaneInv'
<1> DEFINE c == a.conv
           mine == IF c \in Topics THEN a.live ELSE url = c
           found == [conv |-> c, ver |-> IF c \in Topics THEN version[c] ELSE 0]
<1>1. /\ UNCHANGED <<chats, url, entry, version>> /\ asked' = asked \ {a}
      /\ gate' = (IF data' = data THEN gate ELSE Unlocked(data'))
      /\ view' = Mounted(url', data', status', gate')
  BY DEF Answer, Shown
<1>2. PICK st \in {"ready", "forbidden", "error", "notFound"} :
        /\ cache' = Fetched(c, st)
        /\ status' = IF mine THEN st ELSE status
        /\ data' = IF ~mine THEN data ELSE IF st = "ready" THEN found ELSE Refused(c, st)
  BY DEF Answer
<1>3. a \in Asks /\ c \in Convs
  BY DEF PaneInv, PaneTypes, Asks
<1>4. mine => url = c
  BY DEF PaneInv, AskedOf
<1>5. found \in Payloads /\ found.conv = c /\ (c \in Topics => found.ver = version[c])
  BY <1>3 DEF Payloads, PaneInv, PaneTypes
<1>6. data' \in {data, found, NoData} /\ (data' = found /\ data' # data => mine)
  BY <1>2 DEF Refused
<1>7. NoData \in Payloads /\ NoData.conv \notin Topics
  BY ChatWindowAssumption DEF NoData, Payloads, Convs
<1>8. PaneTypes'
  <2>1. data' \in Payloads
    BY <1>5, <1>6, <1>7 DEF PaneInv, PaneTypes
  <2>2. status' \in Statuses
    BY <1>2 DEF PaneInv, PaneTypes, Statuses
  <2>3. cache' \subseteq Dms
    BY <1>2 DEF PaneInv, PaneTypes, Fetched
  <2>4. QED
    BY <1>1, <2>1, <2>2, <2>3 DEF PaneInv, PaneTypes
<1>9. AskedOf'
  BY <1>1 DEF PaneInv, AskedOf
<1>10. Loaded'
  <2>1. CASE mine
    BY <1>2, <1>4, <1>5, <2>1, <1>1 DEF Loaded, Failed
  <2>2. CASE ~mine
    <3>1. a = [conv |-> url, live |-> TRUE] => mine
      OBVIOUS
    <3>2. QED
      BY <1>1, <1>2, <2>2, <3>1 DEF PaneInv, Loaded
  <2>3. QED
    BY <2>1, <2>2
<1>11. url' \in Dms => data'.conv \notin Topics
  BY <1>1, <1>4, <1>5, <1>6, <1>7, ChatWindowAssumption DEF PaneInv
<1>12. Passed'
  <2>1. \A t \in Topics : entry[t] \in Nat /\ version[t] \in Nat
    BY DEF PaneInv, PaneTypes
  <2>2. data'.conv \in Topics => data'.ver <= version'[data'.conv]
    BY <1>1, <1>5, <1>6, <1>7, <2>1 DEF PaneInv, Passed
  <2>3. CASE data' = data
    BY <1>1, <2>2, <2>3 DEF PaneInv, Passed
  <2>4. CASE data' # data
    <3>1. gate' = Unlocked(data') /\ data' \in Payloads
      BY <1>1, <1>8, <2>4 DEF PaneTypes
    <3>2. gate' \in Protected /\ gate' = data'.conv => entry[gate'] = data'.ver
      BY <2>1, <3>1, UnlockedPassed
    <3>3. gate' \in Protected /\ gate' = data'.conv => entry'[gate'] >= data'.ver
      BY <1>1, <2>1, <3>2, ChatWindowAssumption
    <3>4. QED
      BY <1>1, <2>2, <3>3 DEF PaneInv, Passed
  <2>5. QED
    BY <2>3, <2>4
<1>13. QED
  BY <1>1, <1>8, <1>9, <1>10, <1>11, <1>12 DEF PaneInv

\* The password that was entered is of the version of now, which the payload's does not pass.
LEMMA SubmitStep ==
  ASSUME PaneInv, Submit
  PROVE  PaneInv'
<1>1. /\ UNCHANGED <<chats, url, asked, data, status, cache, version>> /\ gate' = url /\ view' = url
      /\ entry' = [entry EXCEPT ![url] = version[url]]
      /\ url \in Topics /\ data.conv = url /\ status # "notFound"
  BY DEF Submit, Shown, Waiting, pane
<1>2. view' = Mounted(url', data', status', gate')
  BY <1>1, MountedTopic
<1>3. PaneTypes'
  BY <1>1 DEF PaneInv, PaneTypes
<1>4. Passed'
  BY <1>1 DEF PaneInv, PaneTypes, Passed
<1>5. QED
  BY <1>1, <1>2, <1>3, <1>4 DEF PaneInv, AskedOf, Loaded

LEMMA PasswordStep ==
  ASSUME PaneInv, NEW t \in Topics, ChangePassword(t) \/ Expire(t)
  PROVE  PaneInv'
<1>1. UNCHANGED <<chats, url, asked, data, status, cache, gate, view>>
  BY DEF ChangePassword, Expire, pane, lock, composer
<1>2. /\ \A u \in Topics : version'[u] \in Nat /\ version[u] \in Nat /\ version'[u] >= version[u]
      /\ \A u \in Topics : entry'[u] \in Nat /\ entry'[u] \in {entry[u], 0}
      /\ version' \in [Topics -> Nat] /\ entry' \in [Topics -> Nat]
  BY DEF ChangePassword, Expire, PaneInv, PaneTypes, lock
<1>3. PaneTypes'
  BY <1>1, <1>2 DEF PaneInv, PaneTypes
<1>4. Passed'
  <2>1. data.ver \in Nat /\ \A u \in Topics : entry[u] \in Nat
    BY DEF PaneInv, PaneTypes, Payloads
  <2>2. Protected \subseteq Topics
    BY ChatWindowAssumption
  <2>3. QED
    BY <1>1, <1>2, <2>1, <2>2 DEF PaneInv, Passed
<1>5. QED
  BY <1>1, <1>3, <1>4 DEF PaneInv, AskedOf, Loaded

LEMMA ReloadStep ==
  ASSUME PaneInv, Reload
  PROVE  PaneInv'
<1>1. /\ UNCHANGED <<chats, entry, version>> /\ url' = Home /\ asked' = {} /\ data' = NoData
      /\ status' = "loading" /\ cache' = {} /\ gate' = NoConv /\ view' = NoConv
  BY DEF Reload
<1>2. NoData \in Payloads /\ NoData.conv = NoConv
  BY DEF NoData, Payloads
<1>3. view' = Mounted(url', data', status', gate')
  BY <1>1, MountedHome
<1>4. PaneTypes'
  BY <1>1, <1>2 DEF PaneInv, PaneTypes, Statuses
<1>5. NoConv \notin Convs /\ Home \notin Convs /\ Protected \subseteq Topics
  BY ChatWindowAssumption
<1>6. QED
  BY <1>1, <1>2, <1>3, <1>4, <1>5 DEF PaneInv, AskedOf, Loaded, Passed, Convs

\* The composer leaves the pane alone.
LEMMA ComposerStep ==
  ASSUME PaneInv, UNCHANGED <<chats, url, pane, lock, version, view>>
  PROVE  PaneInv'
  BY DEF PaneInv, PaneTypes, AskedOf, Loaded, Passed, pane, lock

LEMMA PaneInitial == WindowInit => PaneInv
<1> SUFFICES ASSUME WindowInit PROVE PaneInv
  OBVIOUS
<1>1. NoData \in Payloads /\ NoData.conv = NoConv
  BY DEF NoData, Payloads
<1>2. view = Mounted(url, data, status, gate)
  BY MountedHome DEF WindowInit
<1>3. NoConv \notin Convs /\ Home \notin Convs /\ Protected \subseteq Topics /\ ChatLists \subseteq SUBSET Convs
  BY ChatWindowAssumption
<1>4. PaneTypes
  BY <1>1, <1>3 DEF WindowInit, PaneTypes, Statuses
<1>5. QED
  BY <1>1, <1>2, <1>3, <1>4 DEF WindowInit, PaneInv, AskedOf, Loaded, Passed, Convs

LEMMA PaneStep == PaneInv /\ [WindowNext]_windowVars => PaneInv'
<1> SUFFICES ASSUME PaneInv, [WindowNext]_windowVars PROVE PaneInv'
  OBVIOUS
<1>0. chats \subseteq Convs
  BY DEF PaneInv, PaneTypes
<1>1. ASSUME NEW c \in chats \cup {Home}, Navigate(c) \/ ColdBoot(c) PROVE PaneInv'
  BY <1>0, <1>1, GoStep DEF Navigate, ColdBoot
<1>2. CASE SocketChanged
  BY <1>2, SocketStep
<1>3. ASSUME NEW a \in asked, Answer(a) PROVE PaneInv'
  BY <1>3, AnswerStep
<1>4. CASE Submit
  BY <1>4, SubmitStep
<1>5. ASSUME NEW t \in Topics, ChangePassword(t) \/ Expire(t) PROVE PaneInv'
  BY <1>5, PasswordStep
<1>6. CASE Type \/ Pick \/ Send \/ Dropped \/ UNCHANGED windowVars
  BY <1>6, ComposerStep DEF Type, Pick, Send, Dropped, windowVars, composer
<1>7. ASSUME NEW s \in sends, Emit(s) \/ SendStops(s) \/ Acknowledged(s) PROVE PaneInv'
  BY <1>7, ComposerStep DEF Emit, SendStops, Acknowledged
<1>8. CASE Reload
  BY <1>8, ReloadStep
<1>9. ASSUME NEW c \in Dms \cap chats, Removed(c) PROVE PaneInv'
  <2>1. CASE view = c
    BY <1>9, <2>1, GoStep DEF Removed
  <2>2. CASE view # c
    BY <1>9, <2>2, ComposerStep DEF Removed, lock, composer
  <2>3. QED
    BY <2>1, <2>2
<1>10. QED
  BY <1>1, <1>2, <1>3, <1>4, <1>5, <1>6, <1>7, <1>8, <1>9 DEF WindowNext

\* use-topic-bootstrap.ts:64, use-api-resource.ts:63: whatever answers are late, and
\* however often the user moves, the socket reconnects or a password changes, a
\* topic's route shows its topic alone, behind its gate.
THEOREM RouteIsShown == WindowSpec => []RouteShown
<1>1. QED
  BY PaneInitial, PaneStep, PaneShows, PTL DEF WindowSpec

-----------------------------------------------------------------------------
\* Of a topic nothing is saved, and in its pane nothing is shown, but what was
\* begun there; a pane that is gone holds nothing.
Outgoing == [to : Convs, text : Convs \cup {NoConv}, extras : SUBSET Convs,
             here : BOOLEAN, pc : {"links", "ack", "unheard"}]

ComposerInv ==
  /\ view \in Convs \cup {NoConv} /\ draft \in Convs \cup {NoConv} /\ extras \subseteq Convs
  /\ saved \in [Convs -> Convs \cup {NoConv}] /\ sends \subseteq Outgoing
  /\ \A t \in Topics : saved[t] \in {t, NoConv}
  /\ view \in Topics => draft \in {view, NoConv} /\ extras \subseteq {view}
  /\ view = NoConv => draft = NoConv /\ extras = {}
  /\ KeptApart

LEMMA ViewType == PaneInv => view \in Convs \cup {NoConv}
<1> SUFFICES ASSUME PaneInv PROVE view \in Convs \cup {NoConv}
  OBVIOUS
<1>1. data.conv \in Convs \cup {NoConv}
  BY DEF PaneInv, PaneTypes, Payloads
<1>2. QED
  BY <1>1, MountedTopic, MountedDm, MountedHome DEF PaneInv, PaneTypes, Convs

\* Sends that lose their pane or their socket keep what they carry.
LEMMA SameCargo ==
  ASSUME sends \subseteq Outgoing, KeptApart, NEW T \in SUBSET Outgoing,
         \A r \in T : \E s \in sends : r.to = s.to /\ r.text = s.text /\ r.extras = s.extras
  PROVE  \A r \in T : r.to \in Topics => {r.text} \cup r.extras \subseteq {r.to, NoConv}
  BY DEF KeptApart

LEMMA ShownStep ==
  ASSUME ComposerInv, NEW w \in Convs \cup {NoConv}, Shown(w)
  PROVE  ComposerInv'
<1>1. NoConv \notin Convs /\ Topics \cap Dms = {} /\ Topics \subseteq Convs
  BY ChatWindowAssumption DEF Convs
<1> DEFINE stored_ == IF w = NoConv THEN NoConv ELSE saved[DraftKey(w)]
           text == IF w = view THEN draft
                   ELSE IF stored_ # NoConv THEN stored_
                   ELSE IF SamePane(w) THEN draft ELSE NoConv
<1>2. /\ view' = w /\ draft' = text
      /\ extras' = IF SamePane(w) THEN extras ELSE {}
      /\ saved' = IF w = NoConv THEN saved ELSE [saved EXCEPT ![w] = text]
      /\ sends' = IF w = view THEN sends ELSE Detached(w)
  BY DEF Shown, DraftKey
<1>3. text \in Convs \cup {NoConv}
  BY DEF ComposerInv, DraftKey
<1>4. w \in Topics => text \in {w, NoConv} /\ extras' \subseteq {w}
  BY <1>1, <1>2 DEF ComposerInv, DraftKey, SamePane
<1>5. w = NoConv => text = NoConv /\ extras' = {}
  BY <1>1, <1>2 DEF ComposerInv, SamePane, Convs
<1>6. saved' \in [Convs -> Convs \cup {NoConv}] /\ \A t \in Topics : saved'[t] \in {t, NoConv}
  BY <1>1, <1>2, <1>3, <1>4 DEF ComposerInv
<1>7. sends' \subseteq Outgoing /\ KeptApart'
  <2>1. ASSUME NEW s \in sends, NEW r,
               r = [s EXCEPT !.here = @ /\ SamePane(w),
                             !.pc = IF s.to \in Topics /\ @ = "ack" THEN "unheard" ELSE @]
        PROVE  r \in Outgoing /\ r.to = s.to /\ r.text = s.text /\ r.extras = s.extras
    <3>1. s \in Outgoing
      BY DEF ComposerInv
    <3>2. QED
      BY <2>1, <3>1 DEF Outgoing
  <2>2. Detached(w) \subseteq Outgoing
        /\ \A r \in Detached(w) : \E s \in sends : r.to = s.to /\ r.text = s.text /\ r.extras = s.extras
    <3> SUFFICES ASSUME NEW r \in Detached(w)
                 PROVE  /\ r \in Outgoing
                        /\ \E s \in sends : r.to = s.to /\ r.text = s.text /\ r.extras = s.extras
      OBVIOUS
    <3>1. PICK s \in sends :
            r = [s EXCEPT !.here = @ /\ SamePane(w),
                          !.pc = IF s.to \in Topics /\ @ = "ack" THEN "unheard" ELSE @]
      BY Zenon DEF Detached
    <3>2. QED
      BY <2>1, <3>1
  <2>3. QED
    BY <1>2, <2>2, SameCargo DEF ComposerInv, KeptApart
<1>8. QED
  BY <1>2, <1>3, <1>4, <1>5, <1>6, <1>7 DEF ComposerInv

LEMMA EmptiedStep ==
  ASSUME ComposerInv, NEW s \in sends, Emptied(s), UNCHANGED view
  PROVE  ComposerInv'
<1>1. /\ sends' = sends \ {s} /\ draft' \in {draft, NoConv} /\ extras' \in {extras, {}}
      /\ saved' \in [Convs -> Convs \cup {NoConv}] /\ \A c \in Convs : saved'[c] \in {saved[c], NoConv}
  BY DEF Emptied, ComposerInv
<1>2. QED
  BY <1>1 DEF ComposerInv, KeptApart, Convs

LEMMA TypeStep ==
  ASSUME ComposerInv, Type \/ Pick
  PROVE  ComposerInv'
<1>1. NoConv \notin Convs /\ Topics \subseteq Convs
  BY ChatWindowAssumption DEF Convs
<1>2. CASE Type
  BY <1>1, <1>2 DEF Type, DraftKey, ComposerInv, KeptApart
<1>3. CASE Pick
  BY <1>1, <1>3 DEF Pick, ComposerInv, KeptApart
<1>4. QED
  BY <1>2, <1>3

LEMMA SendStep ==
  ASSUME ComposerInv, Send
  PROVE  ComposerInv'
<1> DEFINE r == [to |-> view, text |-> draft, extras |-> extras, here |-> TRUE, pc |-> "links"]
<1>1. UNCHANGED <<view, draft, extras, saved>> /\ sends' = sends \cup {r} /\ view # NoConv
  BY DEF Send
<1>2. r \in Outgoing
  BY <1>1 DEF ComposerInv, Outgoing
<1>3. r.to \in Topics => {r.text} \cup r.extras \subseteq {r.to, NoConv}
  BY DEF ComposerInv
<1>4. KeptApart'
  BY <1>1, <1>3 DEF ComposerInv, KeptApart
<1>5. QED
  BY <1>1, <1>2, <1>4 DEF ComposerInv

\* An acknowledgement is awaited, or will not come, of the same send.
LEMMA ReplacedStep ==
  ASSUME ComposerInv, UNCHANGED <<view, draft, extras, saved>>,
         NEW R, sends' = R,
         \A r \in R : \E s \in sends, p \in {"links", "ack", "unheard"} : r = [s EXCEPT !.pc = p]
  PROVE  ComposerInv'
<1>1. ASSUME NEW s \in sends, NEW p \in {"links", "ack", "unheard"}, NEW r, r = [s EXCEPT !.pc = p]
      PROVE  r \in Outgoing /\ r.to = s.to /\ r.text = s.text /\ r.extras = s.extras
  <2>1. s \in Outgoing
    BY DEF ComposerInv
  <2>2. QED
    BY <1>1, <2>1 DEF Outgoing
<1>2. R \subseteq Outgoing /\ \A r \in R : \E s \in sends : r.to = s.to /\ r.text = s.text /\ r.extras = s.extras
  BY <1>1
<1>3. QED
  BY <1>2, SameCargo DEF ComposerInv, KeptApart

LEMMA ComposerNext ==
  ASSUME PaneInv, PaneInv', ComposerInv, [WindowNext]_windowVars
  PROVE  ComposerInv'
<1>0. view' \in Convs \cup {NoConv}
  <2>1. (PaneInv => view \in Convs \cup {NoConv})'
    BY ViewType, PTL
  <2>2. QED
    BY <2>1
<1>1. ASSUME NEW w, Shown(w) PROVE ComposerInv'
  <2>1. w = view'
    BY <1>1 DEF Shown
  <2>2. QED
    BY <1>0, <1>1, <2>1, ShownStep
<1>2. ASSUME NEW c \in chats \cup {Home}, Navigate(c) \/ ColdBoot(c) PROVE ComposerInv'
  BY <1>1, <1>2 DEF Navigate, ColdBoot, Go
<1>3. CASE SocketChanged \/ Submit \/ \E a \in asked : Answer(a)
  BY <1>1, <1>3 DEF SocketChanged, Submit, Answer
<1>4. ASSUME NEW t \in Topics, ChangePassword(t) \/ Expire(t) PROVE ComposerInv'
  BY <1>4 DEF ChangePassword, Expire, composer, ComposerInv, KeptApart
<1>5. CASE Type \/ Pick
  BY <1>5, TypeStep
<1>6. CASE Send
  BY <1>6, SendStep
<1>7. ASSUME NEW s \in sends, Emit(s) \/ SendStops(s) \/ Acknowledged(s) PROVE ComposerInv'
  <2>1. \A r \in sends : r = [r EXCEPT !.pc = r.pc] /\ r.pc \in {"links", "ack", "unheard"}
    BY DEF ComposerInv, Outgoing
  <2>2. CASE Emptied(s) /\ UNCHANGED view
    BY <2>2, EmptiedStep
  <2>3. CASE UNCHANGED <<view, draft, extras, saved>> /\ sends' = sends \ {s}
    BY <2>1, <2>3, ReplacedStep
  <2>4. CASE UNCHANGED <<view, draft, extras, saved>> /\ sends' = (sends \ {s}) \cup {[s EXCEPT !.pc = "ack"]}
    BY <2>1, <2>4, ReplacedStep
  <2>5. QED
    BY <1>7, <2>2, <2>3, <2>4 DEF Emit, SendStops, Acknowledged
<1>8. CASE Dropped
  <2>1. \A r \in sends : r.pc \in {"links", "ack", "unheard"}
    BY DEF ComposerInv, Outgoing
  <2>2. \A r \in sends' : \E s \in sends, p \in {"links", "ack", "unheard"} : r = [s EXCEPT !.pc = p]
    BY <1>8, <2>1 DEF Dropped
  <2>3. QED
    BY <1>8, <2>2, ReplacedStep DEF Dropped
<1>9. CASE Reload
  BY <1>0, <1>9, ChatWindowAssumption DEF Reload, ComposerInv, KeptApart, Convs
<1>10. ASSUME NEW c \in Dms \cap chats, Removed(c) PROVE ComposerInv'
  <2>1. CASE view = c
    BY <1>1, <1>10, <2>1 DEF Removed, Go
  <2>2. CASE view # c
    BY <1>10, <2>2 DEF Removed, composer, ComposerInv, KeptApart
  <2>3. QED
    BY <2>1, <2>2
<1>11. CASE UNCHANGED windowVars
  BY <1>11 DEF windowVars, composer, ComposerInv, KeptApart
<1>12. QED
  BY <1>2, <1>3, <1>4, <1>5, <1>6, <1>7, <1>8, <1>9, <1>10, <1>11 DEF WindowNext

\* TopicRightPane.tsx:118, ChatPane.tsx:528: whatever is under way when the user
\* leaves, and in whatever order he comes back, a topic receives nothing that was
\* begun elsewhere.
THEOREM SendsAreKeptApart == WindowSpec => []KeptApart
<1>1. WindowInit => ComposerInv
  BY ChatWindowAssumption DEF WindowInit, ComposerInv, KeptApart, Convs
<1>2. PaneInv /\ PaneInv' /\ ComposerInv /\ [WindowNext]_windowVars => ComposerInv'
  BY ComposerNext
<1>3. ComposerInv => KeptApart
  BY DEF ComposerInv
<1>4. QED
  BY <1>1, <1>2, <1>3, PaneInitial, PaneStep, PTL DEF WindowSpec

(***************************************************************************)
(* The users page                                                          *)
(***************************************************************************)
Recorded(S) == \A c \in S : {"op", "u", "st", "ans"} \subseteq DOMAIN c
LinkInv == LinkHere /\ Recorded(calls) /\ "of" \in DOMAIN panel

LEMMA CallFields ==
  ASSUME NEW i, NEW op, NEW u, NEW arg
  PROVE  /\ {"op", "u", "st", "ans"} \subseteq DOMAIN Call(i, op, u, arg)
         /\ Call(i, op, u, arg).op = op /\ Call(i, op, u, arg).u = u
  BY DEF Call

LEMMA AskedCalls ==
  ASSUME NEW i, NEW qs
  PROVE  Recorded({Call(i, q[1], q[2], q[3]) : q \in qs})
<1> SUFFICES ASSUME NEW q \in qs PROVE {"op", "u", "st", "ans"} \subseteq DOMAIN Call(i, q[1], q[2], q[3])
  BY DEF Recorded
<1>1. QED
  BY CallFields

\* A call is asked or heard that the panel does not wait for.
LEMMA OtherCall ==
  ASSUME LinkInv, NEW c, c \in calls => c.op # "link" \/ c.u # panel.of,
         calls \ {c} \subseteq calls', Recorded(calls' \ calls),
         UNCHANGED linkVars, "of" \in DOMAIN panel', panel'.of = panel.of
  PROVE  LinkInv'
  BY DEF LinkInv, LinkHere, Recorded, linkVars

\* The panel turns to another user, or to none, with nothing of a link.
LEMMA Turned ==
  ASSUME LinkInv, NEW u, Cleared(u), "of" \in DOMAIN panel', panel'.of = u,
         calls \subseteq calls', Recorded(calls' \ calls)
  PROVE  LinkInv'
<1>1. CASE u = panel.of
  BY <1>1 DEF Cleared, LinkInv, LinkHere, Recorded, linkVars
<1>2. CASE u # panel.of
  BY <1>2 DEF Cleared, LinkInv, LinkHere, Recorded
<1>3. QED
  BY <1>1, <1>2

\* The server answers: the call is the same, but for its answer.
LEMMA ServeStep ==
  ASSUME LinkInv, NEW c \in calls, Serve(c)
  PROVE  LinkInv'
<1> DEFINE Of(r) == {"op", "u", "st", "ans"} \subseteq DOMAIN r /\ r.op = c.op /\ r.u = c.u
<1>1. {"op", "u", "st", "ans"} \subseteq DOMAIN c
  BY DEF LinkInv, Recorded
<1>2. ASSUME NEW ans PROVE Of([c EXCEPT !.st = "ok", !.ans = ans])
  BY <1>1
<1>3. Of([c EXCEPT !.st = "failed"])
  BY <1>1
<1>4. PICK r : Of(r) /\ calls' = (calls \ {c}) \cup {r}
  <2> SUFFICES ASSUME (\E ans : Reply(c, ans)) \/ Refuse(c)
               PROVE  \E r : Of(r) /\ calls' = (calls \ {c}) \cup {r}
    BY Zenon DEF Serve, ServeSearch, ServeDetails, ServeActivity, ServeOverrides, ServePatch, ServeOverride,
         ServeSanction, ServeDelete, ServeLink, ServeCreate, ServeError
  <2>1. QED
    BY <1>2, <1>3 DEF Reply, Refuse
<1>5. UNCHANGED linkVars /\ UNCHANGED panel
  BY DEF Serve
<1>6. Recorded(calls')
  BY <1>4 DEF LinkInv, Recorded
<1>7. linkBusy' => \E d \in calls' : d.op = "link" /\ d.u = panel'.of
  BY <1>4, <1>5 DEF LinkInv, LinkHere, linkVars
<1>8. QED
  BY <1>5, <1>6, <1>7 DEF LinkInv, LinkHere, linkVars

\* What a click asks for comes on top of what is under way.
LEMMA AskStep ==
  ASSUME LinkInv, NEW qs, Ask(qs)
  PROVE  calls \subseteq calls' /\ Recorded(calls' \ calls)
<1>1. Recorded({Call(clicks + 1, q[1], q[2], q[3]) : q \in qs})
  BY AskedCalls
<1>2. QED
  BY <1>1 DEF Ask, Recorded

\* An answer is heard that is not to a request for a link, or to one that the
\* panel has turned away from.
LEMMA HeardStep ==
  ASSUME LinkInv, NEW c \in calls, c.op # "link" \/ c.u # panel.of,
         \/ Away(c)
         \/ \E qs : AskAfter(c, qs),
         UNCHANGED linkVars, "of" \in DOMAIN panel', panel'.of = panel.of
  PROVE  LinkInv'
<1>1. calls \ {c} \subseteq calls'
  BY DEF Away, AskAfter
<1>2. Recorded(calls' \ calls)
  <2>1. CASE Away(c)
    BY <2>1 DEF Away, Recorded
  <2>2. ASSUME NEW qs, AskAfter(c, qs) PROVE Recorded(calls' \ calls)
    <3>1. Recorded({Call(c.id, q[1], q[2], q[3]) : q \in qs})
      BY AskedCalls
    <3>2. QED
      BY <2>2, <3>1 DEF AskAfter, Recorded
  <2>3. QED
    BY <2>1, <2>2
<1>3. QED
  BY <1>1, <1>2, OtherCall

\* The panel is about the same user, and no link is asked for or heard of.
LEMMA SameUser ==
  ASSUME LinkInv, calls \subseteq calls', Recorded(calls' \ calls), UNCHANGED linkVars,
         "of" \in DOMAIN panel', panel'.of = panel.of
  PROVE  LinkInv'
  BY DEF LinkInv, LinkHere, Recorded, linkVars

LEMMA ClickedStep ==
  ASSUME LinkInv, Clicked
  PROVE  LinkInv'
<1>1. ASSUME NEW qs, Ask(qs), UNCHANGED linkVars, "of" \in DOMAIN panel', panel'.of = panel.of
      PROVE  LinkInv'
  BY <1>1, AskStep, SameUser
<1>2. ASSUME UNCHANGED calls, UNCHANGED linkVars, "of" \in DOMAIN panel', panel'.of = panel.of
      PROVE  LinkInv'
  BY <1>2, SameUser DEF Recorded
<1>3. "of" \in DOMAIN panel
  BY DEF LinkInv
<1>4. ASSUME NEW q, Search(q) PROVE LinkInv'
  BY <1>1, <1>3, <1>4 DEF Search
<1>5. ASSUME NEW u, OpenDetails(u) PROVE LinkInv'
  <2>1. "of" \in DOMAIN panel' /\ panel'.of = u
    BY <1>5 DEF OpenDetails, Opening, Closed
  <2>2. Ask(Reads(u)) /\ Cleared(u)
    BY <1>5 DEF OpenDetails
  <2>3. QED
    BY <2>1, <2>2, AskStep, Turned
<1>6. ASSUME NEW u, DeleteAccount(u) PROVE LinkInv'
  BY <1>1, <1>3, <1>6 DEF DeleteAccount
<1>7. ASSUME NEW u, OtherAdmin(u) \/ Target(u) PROVE LinkInv'
  BY <1>2, <1>3, <1>7 DEF OtherAdmin, Target
<1>8. ASSUME NEW u, NEW r, SetRole(u, r) PROVE LinkInv'
  BY <1>1, <1>3, <1>8 DEF SetRole
<1>9. ASSUME NEW kind, ApplyBan(kind) PROVE LinkInv'
  BY <1>1, <1>3, <1>9 DEF ApplyBan
<1>10. ASSUME NEW r, NEW term, ChooseRole(r, term) PROVE LinkInv'
  BY <1>2, <1>3, <1>10 DEF ChooseRole
<1>11. ASSUME NEW op, NEW p, EditOverride(op, p) PROVE LinkInv'
  BY <1>1, <1>3, <1>11 DEF EditOverride
<1>12. ASSUME NEW r, CreateAccount(r) PROVE LinkInv'
  BY <1>1, <1>3, <1>12 DEF CreateAccount
<1>13. CASE CloseDetails
  <2>1. "of" \in DOMAIN panel' /\ panel'.of = Nobody /\ Cleared(Nobody) /\ UNCHANGED calls
    BY <1>3, <1>13 DEF CloseDetails
  <2>2. QED
    BY <2>1, Turned DEF Recorded
<1>14. CASE SaveGrade
  BY <1>1, <1>3, <1>14 DEF SaveGrade
<1>15. CASE Generate
  <2> DEFINE q == <<"link", panel.of, Nobody>>
  <2> DEFINE wish == Call(clicks + 1, q[1], q[2], q[3])
  <2>1. Ask({q}) /\ UNCHANGED <<panel, link>> /\ linkError' = Nobody
    BY <1>15 DEF Generate
  <2>2. wish \in calls' /\ wish.op = "link" /\ wish.u = panel'.of
    <3>1. wish.op = "link" /\ wish.u = panel.of
      BY DEF Call
    <3>2. QED
      BY <2>1, <3>1 DEF Ask
  <2>3. LinkHere'
    BY <2>1, <2>2 DEF LinkInv, LinkHere
  <2>4. calls \subseteq calls' /\ Recorded(calls' \ calls)
    BY <2>1, AskStep
  <2>5. QED
    BY <2>1, <2>3, <2>4 DEF LinkInv, Recorded
<1>16. QED
  BY <1>4, <1>5, <1>6, <1>7, <1>8, <1>9, <1>10, <1>11, <1>12, <1>13, <1>14, <1>15 DEF Clicked

\* The stub's panel opens, and waits for the link that is wish for it.
LEMMA CreatedStep ==
  ASSUME LinkInv, NEW c \in calls, AccountCreated(c)
  PROVE  LinkInv'
<1> DEFINE u == c.ans
<1> DEFINE qs == Reads(u) \cup {<<"link", u, Nobody>>}
<1> DEFINE q == <<"link", u, Nobody>>
<1> DEFINE wish == Call(c.id, q[1], q[2], q[3])
<1>1. "of" \in DOMAIN panel' /\ panel'.of = u
  BY DEF AccountCreated, Opening, Closed
<1>2. calls' = (calls \ {c}) \cup {Call(c.id, p[1], p[2], p[3]) : p \in qs}
  BY DEF AccountCreated, AskAfter
<1>3. wish \in calls' /\ wish.op = "link" /\ wish.u = u
  <2>1. wish.op = "link" /\ wish.u = u
    BY DEF Call
  <2>2. q \in qs
    OBVIOUS
  <2> HIDE DEF q, qs
  <2>3. wish \in calls'
    BY <1>2, <2>2
  <2>4. QED
    BY <2>1, <2>3
<1>4. Recorded(calls')
  <2>1. Recorded({Call(c.id, p[1], p[2], p[3]) : p \in qs})
    BY AskedCalls
  <2>2. QED
    BY <1>2, <2>1 DEF LinkInv, Recorded
<1>5. LinkHere'
  <2>1. CASE u = panel.of
    <3>1. linkError' = Nobody /\ link' = link
      BY <2>1 DEF AccountCreated
    <3>2. QED
      BY <1>1, <1>3, <2>1, <3>1 DEF LinkInv, LinkHere
  <2>2. CASE u # panel.of
    <3>1. link' = NoLink /\ linkBusy' = FALSE /\ linkError' = Nobody
      BY <2>2 DEF AccountCreated, Cleared
    <3>2. QED
      BY <3>1 DEF LinkHere
  <2>3. QED
    BY <2>1, <2>2
<1>6. QED
  BY <1>1, <1>4, <1>5 DEF LinkInv

LEMMA AnsweredStep ==
  ASSUME LinkInv, NEW c \in calls, Answered(c)
  PROVE  LinkInv'
<1>1. "of" \in DOMAIN panel
  BY DEF LinkInv
<1>2. ASSUME Away(c), c.op # "link", UNCHANGED linkVars, "of" \in DOMAIN panel', panel'.of = panel.of
      PROVE  LinkInv'
  BY <1>2, HeardStep
<1>3. CASE ShowSearch(c) \/ RoleSet(c) \/ AccountDeleted(c) \/ BanApplied(c) \/ GradeSaved(c) \/ CreateFailed(c)
  BY <1>1, <1>2, <1>3 DEF ShowSearch, RoleSet, AccountDeleted, BanApplied, GradeSaved, CreateFailed, Done, Over,
     Rejected, pageVars
<1>4. CASE ShowOverrides(c) \/ ShowActivity(c) \/ ReadFailed(c) \/ OverrideEdited(c)
  BY <1>1, <1>2, <1>4 DEF ShowOverrides, ShowActivity, ReadFailed, OverrideEdited, Done, Over, Rejected
<1>5. CASE ShowDetails(c)
  <2>1. c.op # "link" /\ (\E qs : AskAfter(c, qs)) /\ UNCHANGED linkVars
    BY <1>5 DEF ShowDetails, Done
  <2>2. "of" \in DOMAIN panel' /\ panel'.of = panel.of
    BY <1>1, <1>5 DEF ShowDetails
  <2>3. QED
    BY <2>1, <2>2, HeardStep
<1>6. CASE LinkAnswer(c)
  <2>1. Away(c) /\ UNCHANGED panel
    BY <1>6 DEF LinkAnswer
  <2>2. CASE panel.of # c.u
    <3>1. UNCHANGED linkVars
      BY <1>6, <2>2 DEF LinkAnswer
    <3>2. QED
      BY <1>1, <2>1, <2>2, <3>1, HeardStep
  <2>3. CASE panel.of = c.u
    <3>1. linkBusy' = FALSE /\ (linkError' = c.u \/ UNCHANGED linkError)
      BY <1>6, <2>3 DEF LinkAnswer
    <3>2. link' = [user |-> c.u, n |-> c.ans] \/ UNCHANGED link
      BY <1>6, <2>3 DEF LinkAnswer
    <3>3. LinkHere'
      BY <2>1, <2>3, <3>1, <3>2 DEF LinkInv, LinkHere
    <3>4. QED
      BY <2>1, <3>3 DEF LinkInv, Recorded, Away
  <2>4. QED
    BY <2>2, <2>3
<1>7. CASE AccountCreated(c)
  BY <1>7, CreatedStep
<1>8. QED
  BY <1>3, <1>4, <1>5, <1>6, <1>7 DEF Answered

\* AdminUsersForm.tsx:357: whichever panels are opened and closed while links
\* are being minted, a panel shows the link, the error and the spinner of its own
\* user.
THEOREM LinkOfThePanel == UserSpec => []LinkHere
<1>1. UserInit => LinkInv
  BY DEF UserInit, LinkInv, LinkHere, Recorded, Closed
<1>2. LinkInv /\ [UserNext]_userVars => LinkInv'
  <2> SUFFICES ASSUME LinkInv, [UserNext]_userVars PROVE LinkInv'
    OBVIOUS
  <2>1. CASE UNCHANGED userVars
    BY <2>1 DEF userVars, linkVars, LinkInv, LinkHere, Recorded
  <2>2. QED
    BY <2>1, ClickedStep, ServeStep, AnsweredStep DEF UserNext
<1>3. LinkInv => LinkHere
  BY DEF LinkInv
<1>4. QED
  BY <1>1, <1>2, <1>3, PTL DEF UserSpec

(***************************************************************************)
(* The bots page                                                           *)
(*                                                                         *)
(* A draft differs from its row only where it was typed, and an open panel *)
(* has a row: whatever replaces the row renews the drafts.                 *)
(***************************************************************************)
Shape(d) == {"bot", "draft", "typed", "denied", "saving", "keying"} \subseteq DOMAIN d
Follows(d, rs) ==
  d.bot # NoBot =>
    /\ d.bot \in DOMAIN rs /\ DOMAIN d.draft = Drafted
    /\ \A k \in Drafted \ d.typed : d.draft[k] = rs[d.bot].f[k]
BotInv == Shape(detail) /\ Follows(detail, rows)

LEMMA NewPanel ==
  ASSUME NEW b, NEW rs, b \in DOMAIN rs
  PROVE  Shape(DetailOf(b, rs[b])) /\ Follows(DetailOf(b, rs[b]), rs)
  BY DEF DetailOf, Shape, Follows

LEMMA NoPanel ==
  ASSUME NEW rs
  PROVE  Shape(NoDetail) /\ Follows(NoDetail, rs)
  BY DEF NoDetail, Shape, Follows

\* Whatever is drawn, and whichever bot is chosen, the drafts follow the row.
LEMMA PanelFollows ==
  ASSUME BotInv, NEW rs, NEW b
  PROVE  Shape(PanelOf(rs, b)) /\ Follows(PanelOf(rs, b), rs)
<1>1. CASE b \notin DOMAIN rs
  BY <1>1, NoPanel DEF PanelOf
<1>2. CASE b \in DOMAIN rs /\ ~Same(b)
  BY <1>2, NewPanel DEF PanelOf
<1>3. CASE b \in DOMAIN rs /\ Same(b) /\ Differs(rs[b], rows[b])
  <2> DEFINE d == [detail EXCEPT !.draft = DetailOf(b, rs[b]).draft, !.typed = {}]
  <2>1. PanelOf(rs, b) = d
    BY <1>3 DEF PanelOf
  <2>2. DetailOf(b, rs[b]).draft = [k \in Drafted |-> rs[b].f[k]]
    BY DEF DetailOf
  <2>3. Shape(d) /\ d.bot = b /\ d.typed = {} /\ d.draft = [k \in Drafted |-> rs[b].f[k]]
    BY <1>3, <2>2 DEF BotInv, Shape, Same
  <2>4. QED
    BY <1>3, <2>1, <2>3 DEF Follows
<1>4. CASE b \in DOMAIN rs /\ Same(b) /\ ~Differs(rs[b], rows[b])
  <2>1. PanelOf(rs, b) = detail
    BY <1>4 DEF PanelOf
  <2>2. QED
    BY <1>4, <2>1 DEF BotInv, Follows, Same, Differs
<1>5. QED
  BY <1>1, <1>2, <1>3, <1>4

LEMMA DrawStep ==
  ASSUME BotInv, NEW rs, NEW b, NEW qs, Draw(rs, b, qs)
  PROVE  BotInv'
<1>1. rows' = rs /\ detail' = PanelOf(rs, b)
  BY DEF Draw
<1>2. QED
  BY <1>1, PanelFollows DEF BotInv

\* Of a panel, only what is not of its drafts changes.
LEMMA Flagged ==
  ASSUME NEW d, NEW rs, Shape(d), Follows(d, rs), NEW e,
         e = d \/ (\E x : e = [d EXCEPT !.saving = x] \/ e = [d EXCEPT !.keying = x] \/ e = [d EXCEPT !.denied = x])
  PROVE  Shape(e) /\ Follows(e, rs)
<1>1. DOMAIN e = DOMAIN d /\ e.bot = d.bot /\ e.draft = d.draft /\ e.typed = d.typed
  BY DEF Shape
<1>2. QED
  BY <1>1 DEF Shape, Follows

LEMMA TypeInStep ==
  ASSUME BotInv, NEW k \in Drafted, NEW v, TypeIn(k, v)
  PROVE  BotInv'
<1>1. Open /\ UNCHANGED rows /\ detail' = [detail EXCEPT !.draft[k] = v, !.typed = @ \cup {k}]
  BY DEF TypeIn, panelOnly, botList
<1>2. /\ DOMAIN detail' = DOMAIN detail /\ detail'.bot = detail.bot
      /\ detail'.draft = [detail.draft EXCEPT ![k] = v] /\ detail'.typed = detail.typed \cup {k}
  BY <1>1 DEF BotInv, Shape
<1>3. QED
  BY <1>1, <1>2 DEF BotInv, Shape, Follows, Open

LEMMA BotStep ==
  ASSUME BotInv, BotNext
  PROVE  BotInv'
<1>1. ASSUME UNCHANGED <<rows, detail>> PROVE BotInv'
  BY <1>1 DEF BotInv
<1>2. ASSUME UNCHANGED rows,
             detail' = detail \/ (\E x : \/ detail' = [detail EXCEPT !.saving = x] \/ detail' = [detail EXCEPT !.keying = x]
                                         \/ detail' = [detail EXCEPT !.denied = x])
      PROVE  BotInv'
  BY <1>2, Flagged DEF BotInv
<1>3. ASSUME NEW q, Filter(q) PROVE BotInv'
  BY <1>1, <1>3 DEF Filter
<1>4. ASSUME NEW b, Select(b) \/ Other(b) PROVE BotInv'
  BY <1>1, <1>4, DrawStep DEF Select, Other, botList
<1>5. ASSUME NEW bs, TickBoxes(bs) PROVE BotInv'
  BY <1>1, <1>5 DEF TickBoxes
<1>6. ASSUME NEW op, NEW arg, Press(op, arg) PROVE BotInv'
  BY <1>1, <1>6 DEF Press, panelOnly, botList
<1>7. ASSUME NEW p, Assign(p) \/ Override(p) PROVE BotInv'
  BY <1>6, <1>7 DEF Assign, Override
<1>8. ASSUME NEW k, NEW v, SetDirect(k, v) PROVE BotInv'
  BY <1>1, <1>8 DEF SetDirect, panelOnly, botList
<1>9. ASSUME NEW k, SetKeying(k) PROVE BotInv'
  BY <1>2, <1>9 DEF SetKeying, panelOnly, botList
<1>10. ASSUME NEW v, Make(v) PROVE BotInv'
  BY <1>1, <1>10 DEF Make
<1>11. CASE SelectMatching \/ BulkDelete \/ SaveRank \/ Rotate \/ Delete \/ Dismiss
  BY <1>1, <1>6, <1>11 DEF SelectMatching, BulkDelete, SaveRank, Rotate, Delete, Dismiss, panelOnly, botList
<1>12. CASE SaveBasics
  BY <1>2, <1>12 DEF SaveBasics, panelOnly, botList
<1>13. ASSUME NEW a, ServeBots(a) PROVE BotInv'
  BY <1>1, <1>13 DEF ServeBots, botList
<1>14. ASSUME NEW a, Received(a) PROVE BotInv'
  <2>1. CASE ShowLoad(a)
    BY <2>1, DrawStep DEF ShowLoad
  <2>2. CASE Matching(a) \/ Rotated(a) \/ Assigned(a) \/ LoadFailed(a)
    BY <1>1, <2>2 DEF Matching, Rotated, Assigned, LoadFailed, panelOnly, botList
  <2>3. CASE BulkDeleted(a) \/ Made(a) \/ BotDeleted(a)
    <3>1. CASE \E rs, b, qs : Draw(rs, b, qs)
      BY <3>1, DrawStep
    <3>2. CASE UNCHANGED <<rows, detail>>
      BY <1>1, <3>2
    <3>3. QED
      BY <2>3, <3>1, <3>2 DEF BulkDeleted, Made, BotDeleted
  <2>4. CASE Patched(a)
    <3>1. PICK rs : rows' = rs
      OBVIOUS
    <3> DEFINE d == PanelOf(rs, chosen)
    <3>2. detail' = d \/ detail' = [d EXCEPT !.saving = FALSE]
      BY <2>4, <3>1 DEF Patched
    <3>3. Shape(d) /\ Follows(d, rs)
      BY PanelFollows
    <3> HIDE DEF d
    <3>4. QED
      BY <3>1, <3>2, <3>3, Flagged DEF BotInv
  <2>5. CASE Keyed(a)
    BY <1>2, <2>5 DEF Keyed, panelOnly, botList
  <2>6. CASE ShowDenials(a)
    <3>1. UNCHANGED rows /\ (detail' = detail \/ \E x : detail' = [detail EXCEPT !.denied = x])
      BY <2>6 DEF ShowDenials, panelOnly, botList
    <3>2. QED
      BY <1>2, <3>1
  <2>7. QED
    BY <1>14, <2>1, <2>2, <2>3, <2>4, <2>5, <2>6 DEF Received
<1>15. QED
  BY <1>3, <1>4, <1>5, <1>7, <1>8, <1>9, <1>10, <1>11, <1>12, <1>13, <1>14, TypeInStep DEF BotNext, Used

\* BotDetailPanel.tsx: whatever answers and other administrators do to the row
\* under an open panel, "Save" finds no field to write that was not typed there.
THEOREM SaveRevertsNobody == BotSpec => []OnlyEdited
<1>1. BotInit => BotInv
  BY NoPanel DEF BotInit, BotInv
<1>2. BotInv /\ [BotNext]_botVars => BotInv'
  <2>1. ASSUME BotInv, UNCHANGED botVars PROVE BotInv'
    BY <2>1 DEF BotInv, botVars, botList
  <2>2. QED
    BY <2>1, BotStep
<1>3. BotInv => OnlyEdited
  BY DEF BotInv, Follows, OnlyEdited, Open, Unsaved, Bot, Drafted
<1>4. QED
  BY <1>1, <1>2, <1>3, PTL DEF BotSpec

(***************************************************************************)
(* The encrypted messages of a channel                                     *)
(*                                                                         *)
(* A bubble shows version 1 of a message of one's own beside the text of   *)
(* another only if the list forgets what the tab has learned.  That it     *)
(* does not is a fact about the order of the feed: what brings version 1   *)
(* comes before what outdates it, and an acknowledgement comes after the   *)
(* entry that takes version 1 from the list.                               *)
(***************************************************************************)
\* An entry of the feed after which the list may hold version 1, one that brings
\* or acknowledges a later version, and one after which the list does not hold 1.
Brings(e, m) ==
  \/ e.kind = "snapshot" /\ m \in DOMAIN e.all /\ e.all[m] = 1
  \/ e.kind = "new" /\ e.msg = m
Outdates(e, m) ==
  \/ e.kind = "snapshot" /\ m \in DOMAIN e.all /\ e.all[m] # 1
  \/ e.kind \in {"edit", "ack"} /\ e.msg = m /\ e.version # 1
Clears(e, m) ==
  \/ e.kind = "snapshot" /\ (m \in DOMAIN e.all => e.all[m] # 1)
  \/ e.kind \in {"edit", "delete"} /\ e.msg = m

Holds(f, m) == m \in DOMAIN f /\ f[m] = 1
Departs(f, m) == m \in DOMAIN f /\ f[m] # 1

\* Once k entries of the feed F are handled, the list l does not hold 1.
Purged(F, l, m, k) ==
  /\ Holds(l, m) => \E j \in 1..k : Clears(F[j], m)
  /\ \A i \in 1..k : Brings(F[i], m) => \E j \in 1..k : i < j /\ Clears(F[j], m)

InOrder(F, l, m) ==
  /\ \A i, j \in DOMAIN F : i < j /\ Outdates(F[i], m) => ~Brings(F[j], m)
  /\ \A i \in DOMAIN F : F[i].kind = "ack" /\ Outdates(F[i], m) => Purged(F, l, m, i - 1)

Without(F, m) == \A i \in DOMAIN F : ~Brings(F[i], m)

Outdated(m) == row[m] \notin {0, 1} \/ m \in gone

\* The tab has heard of another version than the first.
Learned(m) ==
  \/ Departs(list, m) \/ Departs(plain, m) \/ Departs(seen.list, m) \/ Departs(drain.newly, m)
  \/ drain.at # <<>> /\ drain.at[1] = m /\ drain.at[2] # 1

Pending(m) == write.pc \in {"sent", "lost"} /\ write.msg = m

OwnShape ==
  /\ row \in [Msgs -> Nat]
  /\ \E S : feed \in Seq(S)
  /\ {"left", "at", "newly", "on", "first"} \subseteq DOMAIN drain
  /\ {"list", "plain"} \subseteq DOMAIN seen
  /\ {"msg", "version", "pc"} \subseteq DOMAIN write
  /\ write.pc \in {"sent", "lost"} => write.msg \in Mine /\ write.version \in Nat \ {0}

\* What is shown is in the database, and what is there was remembered here.
OwnRows(m) ==
  /\ m \in DOMAIN list => row[m] # 0 /\ list[m] \in Nat \ {0}
  /\ m \in DOMAIN seen.list => row[m] # 0 /\ seen.list[m] \in Nat \ {0}
  /\ m \in gone => row[m] # 0
  /\ row[m] # 0 => <<m, 1>> \in own
  /\ Pending(m) => <<m, 1>> \in own /\ (write.version = 1 => row[m] = 0)

\* Of an entry, when the message is in the database, or is not, and when its
\* first version is past, or is not
OwnEntry(e, m, there, past) ==
  /\ e.kind = "snapshot" /\ m \in DOMAIN e.all => there /\ e.all[m] \in Nat \ {0}
  /\ e.kind \in {"new", "edit"} /\ e.msg = m => there
  /\ e.kind = "new" /\ e.msg = m => e.version = 1
  /\ e.kind = "edit" /\ e.msg = m => e.version \in Nat \ {0, 1}
  /\ Outdates(e, m) => past

Entries(F, m, there, past) == \A i \in DOMAIN F : OwnEntry(F[i], m, there, past)

OwnFeed(m) ==
  /\ Entries(feed, m, row[m] # 0, Outdated(m))
  /\ InOrder(feed, list, m)
  /\ up /\ Outdated(m) => Purged(feed, list, m, Len(feed))

OwnTexts(m) ==
  /\ Learned(m) => Outdated(m) /\ ~Holds(list, m) /\ Without(feed, m)
  /\ Holds(seen.list, m) => ~Departs(seen.plain, m)

OwnInv == OwnShape /\ \A m \in Mine : OwnRows(m) /\ OwnFeed(m) /\ OwnTexts(m)

\* Sequences, as the feed grows and is handled.
LEMMA Grown ==
  ASSUME NEW S, NEW F \in Seq(S), NEW e
  PROVE  /\ Append(F, e) \in Seq(S \cup {e}) /\ DOMAIN F = 1..Len(F) /\ Len(F) \in Nat
         /\ DOMAIN Append(F, e) = 1..(Len(F) + 1) /\ Len(Append(F, e)) = Len(F) + 1
         /\ Append(F, e)[Len(F) + 1] = e
         /\ \A i \in 1..Len(F) : Append(F, e)[i] = F[i]
<1>1. F \in Seq(S \cup {e})
  OBVIOUS
<1>2. QED
  BY <1>1

LEMMA Shrunk ==
  ASSUME NEW S, NEW F \in Seq(S), F # <<>>
  PROVE  /\ Tail(F) \in Seq(S) /\ Len(F) \in Nat \ {0} /\ Head(F) = F[1] /\ DOMAIN F = 1..Len(F)
         /\ DOMAIN Tail(F) = 1..(Len(F) - 1) /\ Len(Tail(F)) = Len(F) - 1
         /\ \A i \in 1..(Len(F) - 1) : Tail(F)[i] = F[i + 1]
  OBVIOUS

LEMMA Joined ==
  ASSUME NEW S, NEW F \in Seq(S), NEW e, NEW a
  PROVE  /\ F \o <<e>> = Append(F, e)
         /\ F \o (<<>> \o <<>>) = F
         /\ F \o (<<e>> \o <<>>) = Append(F, e)
         /\ F \o (<<>> \o <<a>>) = Append(F, a)
         /\ F \o (<<e>> \o <<a>>) = Append(Append(F, e), a)
<1>1. F \in Seq(S \cup {e, a})
  OBVIOUS
<1>2. QED
  BY <1>1

\* Only entries before the k-th matter.
LEMMA SamePurge ==
  ASSUME NEW F, NEW G, NEW l, NEW m, NEW k \in Nat, Purged(F, l, m, k), \A i \in 1..k : G[i] = F[i]
  PROVE  Purged(G, l, m, k)
  BY DEF Purged

\* The server adds an entry.
LEMMA EntryAdded ==
  ASSUME NEW S, NEW F \in Seq(S), NEW l, NEW m, NEW e,
         InOrder(F, l, m),
         Brings(e, m) => \A i \in DOMAIN F : ~Outdates(F[i], m),
         e.kind = "ack" /\ Outdates(e, m) => Purged(F, l, m, Len(F))
  PROVE  /\ Append(F, e) \in Seq(S \cup {e}) /\ InOrder(Append(F, e), l, m)
         /\ Clears(e, m) /\ ~Brings(e, m) => Purged(Append(F, e), l, m, Len(Append(F, e)))
         /\ Purged(F, l, m, Len(F)) /\ ~Brings(e, m) => Purged(Append(F, e), l, m, Len(Append(F, e)))
<1> DEFINE G == Append(F, e)
<1> DEFINE n == Len(F)
<1>1. /\ G \in Seq(S \cup {e}) /\ DOMAIN F = 1..n /\ n \in Nat /\ DOMAIN G = 1..(n + 1) /\ Len(G) = n + 1
      /\ G[n + 1] = e /\ \A i \in 1..n : G[i] = F[i]
  BY Grown
<1> HIDE DEF G, n
<1>2. ASSUME NEW i \in DOMAIN G, NEW j \in DOMAIN G, i < j, Outdates(G[i], m) PROVE ~Brings(G[j], m)
  <2>1. i \in 1..n /\ G[i] = F[i]
    BY <1>1, <1>2
  <2>2. CASE j = n + 1
    BY <1>1, <1>2, <2>1, <2>2
  <2>3. CASE j \in 1..n
    BY <1>1, <1>2, <2>1, <2>3 DEF InOrder
  <2>4. QED
    BY <1>1, <2>2, <2>3
<1>3. ASSUME NEW i \in DOMAIN G, G[i].kind = "ack", Outdates(G[i], m) PROVE Purged(G, l, m, i - 1)
  <2>1. Purged(F, l, m, i - 1)
    BY <1>1, <1>3 DEF InOrder, n
  <2>2. i - 1 \in Nat /\ \A j \in 1..(i - 1) : G[j] = F[j]
    BY <1>1
  <2>3. QED
    BY <2>1, <2>2, SamePurge
<1>4. ASSUME Clears(e, m), ~Brings(e, m) PROVE Purged(G, l, m, n + 1)
  <2>1. n + 1 \in 1..(n + 1) /\ Clears(G[n + 1], m) /\ ~Brings(G[n + 1], m)
    BY <1>1, <1>4
  <2>2. \A i \in 1..(n + 1) : Brings(G[i], m) => i < n + 1
    BY <1>1, <2>1
  <2>3. QED
    BY <2>1, <2>2 DEF Purged
<1>5. ASSUME Purged(F, l, m, n), ~Brings(e, m) PROVE Purged(G, l, m, n + 1)
  <2>1. Purged(G, l, m, n)
    BY <1>1, <1>5, SamePurge
  <2>2. 1..n \subseteq 1..(n + 1) /\ \A i \in 1..(n + 1) : i \in 1..n \/ i = n + 1
    BY <1>1
  <2>3. QED
    BY <1>1, <1>5, <2>1, <2>2 DEF Purged
<1>6. QED
  BY <1>1, <1>2, <1>3, <1>4, <1>5 DEF InOrder, G, n

\* The tab handles the first entry, and its list becomes l2.
LEMMA EntryHandled ==
  ASSUME NEW S, NEW F \in Seq(S), F # <<>>, NEW l, NEW l2, NEW m,
         InOrder(F, l, m),
         Holds(l2, m) => Brings(Head(F), m) \/ (Holds(l, m) /\ ~Clears(Head(F), m))
  PROVE  /\ InOrder(Tail(F), l2, m)
         /\ Purged(F, l, m, Len(F)) => Purged(Tail(F), l2, m, Len(Tail(F)))
<1> DEFINE G == Tail(F)
<1> DEFINE n == Len(F)
<1>1. /\ n \in Nat \ {0} /\ Head(F) = F[1] /\ DOMAIN F = 1..n /\ DOMAIN G = 1..(n - 1) /\ Len(G) = n - 1
      /\ \A i \in 1..(n - 1) : G[i] = F[i + 1]
  BY Shrunk
<1> HIDE DEF G, n
<1>2. ASSUME NEW k \in 1..n, Purged(F, l, m, k) PROVE Purged(G, l2, m, k - 1)
  <2>1. ASSUME NEW j \in 1..k, j # 1, Clears(F[j], m)
        PROVE  j - 1 \in 1..(k - 1) /\ Clears(G[j - 1], m)
    BY <1>1, <2>1
  <2>2. ASSUME Holds(l2, m) PROVE \E j \in 1..(k - 1) : Clears(G[j], m)
    <3>1. CASE Brings(F[1], m)
      <4>1. PICK j \in 1..k : 1 < j /\ Clears(F[j], m)
        BY <1>1, <1>2, <3>1 DEF Purged
      <4>2. QED
        BY <2>1, <4>1
    <3>2. CASE Holds(l, m) /\ ~Clears(F[1], m)
      <4>1. PICK j \in 1..k : Clears(F[j], m) /\ j # 1
        BY <1>2, <3>2 DEF Purged
      <4>2. QED
        BY <2>1, <4>1
    <3>3. QED
      BY <1>1, <2>2, <3>1, <3>2
  <2>3. ASSUME NEW i \in 1..(k - 1), Brings(G[i], m) PROVE \E j \in 1..(k - 1) : i < j /\ Clears(G[j], m)
    <3>1. i + 1 \in 1..k /\ Brings(F[i + 1], m)
      BY <1>1, <2>3
    <3>2. PICK j \in 1..k : i + 1 < j /\ Clears(F[j], m)
      BY <1>2, <3>1 DEF Purged
    <3>3. j # 1 /\ i < j - 1
      BY <3>2
    <3>4. QED
      BY <2>1, <3>2, <3>3
  <2>4. QED
    BY <2>2, <2>3 DEF Purged
<1>3. ASSUME NEW i \in DOMAIN G, NEW j \in DOMAIN G, i < j, Outdates(G[i], m) PROVE ~Brings(G[j], m)
  <2>1. i + 1 \in DOMAIN F /\ j + 1 \in DOMAIN F /\ i + 1 < j + 1 /\ G[i] = F[i + 1] /\ G[j] = F[j + 1]
    BY <1>1, <1>3
  <2>2. QED
    BY <1>3, <2>1 DEF InOrder
<1>4. ASSUME NEW i \in DOMAIN G, G[i].kind = "ack", Outdates(G[i], m) PROVE Purged(G, l2, m, i - 1)
  <2>1. i + 1 \in DOMAIN F /\ G[i] = F[i + 1] /\ i \in 1..n /\ (i + 1) - 1 = i
    BY <1>1
  <2>2. Purged(F, l, m, i)
    BY <1>4, <2>1 DEF InOrder
  <2>3. QED
    BY <1>2, <2>1, <2>2
<1>5. n \in 1..n
  BY <1>1
<1>6. QED
  BY <1>1, <1>2, <1>3, <1>4, <1>5 DEF InOrder, G, n

LEMMA EntriesGrow ==
  ASSUME NEW S, NEW F \in Seq(S), NEW m, NEW there, NEW past, NEW e,
         Entries(F, m, there, past), OwnEntry(e, m, there, past)
  PROVE  /\ Entries(Append(F, e), m, there, past)
         /\ Without(F, m) /\ ~Brings(e, m) => Without(Append(F, e), m)
<1> DEFINE G == Append(F, e)
<1>1. \A i \in DOMAIN G : (i \in DOMAIN F /\ G[i] = F[i]) \/ G[i] = e
  BY Grown
<1>2. QED
  BY Zenon, <1>1 DEF Entries, Without

LEMMA EntriesShrink ==
  ASSUME NEW S, NEW F \in Seq(S), F # <<>>, NEW m, NEW there, NEW past, Entries(F, m, there, past)
  PROVE  /\ Entries(Tail(F), m, there, past) /\ OwnEntry(Head(F), m, there, past)
         /\ Without(F, m) => Without(Tail(F), m) /\ ~Brings(Head(F), m)
         /\ \A l : InOrder(F, l, m) /\ Outdates(Head(F), m) => Without(Tail(F), m)
<1> DEFINE G == Tail(F)
<1>1. \A i \in DOMAIN G : i + 1 \in DOMAIN F /\ 1 < i + 1 /\ G[i] = F[i + 1]
  BY Shrunk
<1>2. 1 \in DOMAIN F /\ Head(F) = F[1]
  BY Shrunk
<1>3. Entries(G, m, there, past) /\ OwnEntry(Head(F), m, there, past)
  BY <1>1, <1>2, Zenon DEF Entries
<1>4. Without(F, m) => Without(G, m) /\ ~Brings(Head(F), m)
  BY <1>1, <1>2, Zenon DEF Without
<1>5. ASSUME NEW l, InOrder(F, l, m), Outdates(Head(F), m) PROVE Without(G, m)
  BY <1>1, <1>2, <1>5, Zenon DEF Without, InOrder
<1>6. QED
  BY <1>3, <1>4, <1>5

\* Nothing that was sent or is listed changes, and nothing of another version is
\* learned but from the list.
LEMMA QuietStep ==
  ASSUME OwnInv, NEW m \in Mine, UNCHANGED <<row, gone, feed, up, list>>,
         Learned(m)' => Learned(m), Holds(seen'.list, m) => ~Departs(seen'.plain, m)
  PROVE  OwnFeed(m)' /\ OwnTexts(m)'
<1>1. OwnFeed(m) /\ OwnTexts(m)
  BY DEF OwnInv
<1>2. Outdated(m)' = Outdated(m)
  BY DEF Outdated
<1>3. OwnFeed(m)'
  BY <1>1, <1>2 DEF OwnFeed
<1>4. OwnTexts(m)'
  BY <1>1, <1>2 DEF OwnTexts
<1>5. QED
  BY <1>3, <1>4

\* The server's word is G, for a tab that is there to hear it.
LEMMA FedStep ==
  ASSUME OwnInv, NEW m \in Mine, UNCHANGED <<screen, drain, up>>, NEW G, feed' = IF up THEN G ELSE feed,
         row[m] # 0 => row'[m] # 0, Outdated(m) => Outdated(m)',
         Entries(G, m, row'[m] # 0, Outdated(m)'), InOrder(G, list, m),
         Learned(m) => Without(G, m),
         up /\ Outdated(m)' => Purged(G, list, m, Len(G))
  PROVE  OwnFeed(m)' /\ OwnTexts(m)'
<1>1. OwnFeed(m) /\ OwnTexts(m)
  BY DEF OwnInv
<1>2. UNCHANGED <<list, plain, seen, drain, up>>
  BY DEF screen
<1>3. Learned(m)' = Learned(m)
  BY <1>2 DEF Learned
<1>4. Entries(feed, m, row'[m] # 0, Outdated(m)')
  BY <1>1, Zenon DEF OwnFeed, Entries, OwnEntry
<1>5. CASE up
  <2>1. OwnFeed(m)'
    BY <1>2, <1>5 DEF OwnFeed
  <2>2. OwnTexts(m)'
    BY <1>1, <1>2, <1>3, <1>5 DEF OwnTexts
  <2>3. QED
    BY <2>1, <2>2
<1>6. CASE ~up
  <2>1. OwnFeed(m)'
    BY <1>1, <1>2, <1>4, <1>6 DEF OwnFeed
  <2>2. OwnTexts(m)'
    BY <1>1, <1>2, <1>3, <1>6 DEF OwnTexts
  <2>3. QED
    BY <2>1, <2>2
<1>7. QED
  BY <1>5, <1>6

\* The word is one entry.
LEMMA AddStep ==
  ASSUME OwnInv, NEW m \in Mine, UNCHANGED <<screen, drain, up>>, NEW e, feed' = IF up THEN Append(feed, e) ELSE feed,
         row[m] # 0 => row'[m] # 0, Outdated(m) => Outdated(m)',
         OwnEntry(e, m, row'[m] # 0, Outdated(m)'),
         Brings(e, m) => row[m] = 0 /\ ~Outdated(m)',
         up /\ e.kind = "ack" /\ Outdates(e, m) => Outdated(m),
         Outdated(m)' => Outdated(m) \/ Clears(e, m)
  PROVE  OwnFeed(m)' /\ OwnTexts(m)'
<1>1. OwnFeed(m) /\ OwnTexts(m) /\ OwnRows(m)
  BY DEF OwnInv
<1>2. PICK S : feed \in Seq(S)
  BY DEF OwnInv, OwnShape
<1>3. Brings(e, m) => ~Outdated(m) /\ ~Learned(m) /\ \A i \in DOMAIN feed : ~Outdates(feed[i], m)
  BY <1>1 DEF OwnTexts, OwnFeed, Entries, OwnEntry
<1>4. CASE ~up
  <2>1. Entries(feed, m, row'[m] # 0, Outdated(m)')
    BY <1>1, Zenon DEF OwnFeed, Entries, OwnEntry
  <2>2. feed' = IF up THEN feed ELSE feed
    BY <1>4
  <2>3. QED
    BY <1>1, <1>4, <2>1, <2>2, FedStep DEF OwnFeed, OwnTexts
<1>5. CASE up
  <2> DEFINE G == Append(feed, e)
  <2>1. Entries(feed, m, row'[m] # 0, Outdated(m)')
    BY <1>1, Zenon DEF OwnFeed, Entries, OwnEntry
  <2>2. Entries(G, m, row'[m] # 0, Outdated(m)') /\ (Without(feed, m) /\ ~Brings(e, m) => Without(G, m))
    BY <1>2, <2>1, EntriesGrow
  <2>3. InOrder(feed, list, m) /\ (Outdated(m) => Purged(feed, list, m, Len(feed)))
    BY <1>1, <1>5 DEF OwnFeed
  <2>4. /\ InOrder(G, list, m)
        /\ Clears(e, m) /\ ~Brings(e, m) => Purged(G, list, m, Len(G))
        /\ Purged(feed, list, m, Len(feed)) /\ ~Brings(e, m) => Purged(G, list, m, Len(G))
    BY <1>2, <1>3, <1>5, <2>3, EntryAdded
  <2>5. Outdated(m)' => Purged(G, list, m, Len(G))
    BY <2>3, <2>4
  <2>6. Learned(m) => Without(G, m)
    BY <1>1, <1>3, <2>2 DEF OwnTexts
  <2>7. feed' = IF up THEN G ELSE feed
    OBVIOUS
  <2> HIDE DEF G
  <2>8. QED
    BY <2>2, <2>4, <2>5, <2>6, <2>7, FedStep
<1>6. QED
  BY <1>4, <1>5

LEMMA EmptyFeed ==
  ASSUME NEW m, NEW there, NEW past, NEW l
  PROVE  Entries(<<>>, m, there, past) /\ InOrder(<<>>, l, m) /\ Without(<<>>, m)
<1>1. DOMAIN <<>> = {}
  OBVIOUS
<1>2. QED
  BY <1>1, Zenon DEF Entries, InOrder, Without

\* Another one's message, of which nothing here depends.
LEMMA WrittenStep ==
  ASSUME OwnInv, NEW w, Written(w)
  PROVE  OwnInv'
<1> DEFINE e == Event(IF row[w] = 0 THEN "new" ELSE "edit", w)
<1>1. PICK S : feed \in Seq(S)
  BY DEF OwnInv, OwnShape
<1>2. feed' = IF up THEN Append(feed, e) ELSE feed
  BY <1>1, Joined DEF Written, Hears
<1>3. e.kind \in {"new", "edit"} /\ e.msg = w /\ w \in Msgs \ Mine
  BY DEF Written, Event
<1> HIDE DEF e
<1>4. row' = [row EXCEPT ![w] = @ + 1] /\ UNCHANGED <<gone, up, screen, drain, write>>
  BY DEF Written
<1>5. row' \in [Msgs -> Nat] /\ \A m \in Mine : row'[m] = row[m]
  BY <1>3, <1>4, BubblesAssumption DEF OwnInv, OwnShape
<1>6. OwnShape'
  <2>1. feed' \in Seq(S \cup {e})
    BY <1>1, <1>2, Grown
  <2>2. QED
    BY <1>4, <1>5, <2>1 DEF OwnInv, OwnShape, screen
<1>7. ASSUME NEW m \in Mine PROVE OwnRows(m)' /\ OwnFeed(m)' /\ OwnTexts(m)'
  <2>1. OwnRows(m)'
    BY <1>4, <1>5 DEF OwnInv, OwnRows, Pending, screen
  <2>2. Outdated(m)' = Outdated(m) /\ w # m
    BY <1>3, <1>4, <1>5 DEF Outdated
  <2>3. ~Brings(e, m) /\ ~Outdates(e, m)
    BY <1>3, <2>2 DEF Brings, Outdates
  <2>4. OwnEntry(e, m, row'[m] # 0, Outdated(m)')
    BY <1>3, <2>2, <2>3, Zenon DEF OwnEntry
  <2>5. QED
    BY <1>2, <1>4, <1>5, <2>1, <2>2, <2>3, <2>4, AddStep
<1>8. QED
  BY <1>6, <1>7 DEF OwnInv

LEMMA DeletedStep ==
  ASSUME OwnInv, NEW w, Deleted(w)
  PROVE  OwnInv'
<1> DEFINE e == Event("delete", w)
<1>1. PICK S : feed \in Seq(S)
  BY DEF OwnInv, OwnShape
<1>2. feed' = IF up THEN Append(feed, e) ELSE feed
  BY <1>1, Joined DEF Deleted, Hears
<1>3. e.kind = "delete" /\ e.msg = w /\ row[w] > 0
  BY DEF Deleted, Event, Live
<1> HIDE DEF e
<1>4. gone' = gone \cup {w} /\ UNCHANGED <<row, up, screen, drain, write>>
  BY DEF Deleted
<1>5. OwnShape'
  <2>1. feed' \in Seq(S \cup {e})
    BY <1>1, <1>2, Grown
  <2>2. QED
    BY <1>4, <2>1 DEF OwnInv, OwnShape, screen
<1>6. ASSUME NEW m \in Mine PROVE OwnRows(m)' /\ OwnFeed(m)' /\ OwnTexts(m)'
  <2>1. OwnRows(m)'
    BY <1>3, <1>4 DEF OwnInv, OwnRows, Pending, screen
  <2>2. (Outdated(m) => Outdated(m)') /\ (Outdated(m)' => Outdated(m) \/ m = w)
    BY <1>4 DEF Outdated
  <2>3. ~Brings(e, m) /\ ~Outdates(e, m) /\ (m = w => Clears(e, m))
    BY <1>3 DEF Brings, Outdates, Clears
  <2>4. OwnEntry(e, m, row'[m] # 0, Outdated(m)')
    BY <1>3, <2>3, Zenon DEF OwnEntry
  <2>5. QED
    BY <1>2, <1>3, <1>4, <2>1, <2>2, <2>3, <2>4, AddStep
<1>7. QED
  BY <1>5, <1>6 DEF OwnInv

\* The user's own is stored: its event, unless the message is gone, and the
\* acknowledgement, unless the connection that asked is lost.
LEMMA OwnStored ==
  ASSUME OwnInv, Stored
  PROVE  OwnInv'
<1> DEFINE w == write.msg
<1> DEFINE v == write.version
<1> DEFINE ev == Event(IF v = 1 THEN "new" ELSE "edit", w)
<1> DEFINE ack == [kind |-> "ack", msg |-> w, version |-> v, all |-> <<>>]
<1> DEFINE word == (IF w \in gone THEN <<>> ELSE <<ev>>) \o (IF write.pc = "sent" THEN <<ack>> ELSE <<>>)
<1>1. PICK S : feed \in Seq(S)
  BY DEF OwnInv, OwnShape
<1>2. w \in Mine /\ v \in Nat \ {0} /\ w \in Msgs /\ Pending(w)
  BY BubblesAssumption DEF Stored, OwnInv, OwnShape, Pending
<1>3. UNCHANGED <<gone, up, screen, drain>> /\ write'.pc \in {"done", "none"} /\ {"msg", "version", "pc"} \subseteq DOMAIN write'
  BY DEF Stored, NoWrite, OwnInv, OwnShape
<1>4. row' \in [Msgs -> Nat] /\ (w \in gone => row' = row) /\ (w \notin gone => row'[w] = v /\ \A m \in Msgs \ {w} : row'[m] = row[m])
  BY <1>2 DEF Stored, OwnInv, OwnShape
<1>5. feed' = IF up THEN feed \o word ELSE feed
  BY DEF Stored, Hears
<1>6. /\ ev.kind \in {"new", "edit"} /\ ev.msg = w /\ (v = 1 <=> ev.kind = "new")
      /\ w \notin gone => ev.version = v
      /\ ack.kind = "ack" /\ ack.msg = w /\ ack.version = v
  BY <1>4 DEF Event
<1>7. PICK G : feed' = (IF up THEN G ELSE feed) /\ G = feed \o word
  BY <1>5
<1>9. /\ w \in gone => G = feed \/ G = Append(feed, ack)
      /\ w \notin gone => G = Append(feed, ev) \/ G = Append(Append(feed, ev), ack)
  BY <1>1, <1>7, Joined
<1> HIDE DEF ev, ack, word
<1>10. OwnShape'
  <2>1. Append(feed, ev) \in Seq(S \cup {ev}) /\ Append(feed, ack) \in Seq(S \cup {ack})
    BY <1>1, Grown
  <2>2. Append(Append(feed, ev), ack) \in Seq((S \cup {ev}) \cup {ack})
    BY <2>1, Grown
  <2>3. \E R : feed' \in Seq(R)
    BY <1>1, <1>7, <1>9, <2>1, <2>2
  <2>4. QED
    BY <1>3, <1>4, <2>3 DEF OwnInv, OwnShape, screen
<1>11. ASSUME NEW m \in Mine PROVE OwnRows(m)' /\ OwnFeed(m)' /\ OwnTexts(m)'
  <2>1. OwnRows(m) /\ OwnRows(w) /\ OwnFeed(m) /\ OwnTexts(m) /\ m \in Msgs
    BY <1>2, BubblesAssumption DEF OwnInv
  <2>2. row[m] # 0 => row'[m] # 0
    BY <1>2, <1>4, <2>1
  <2>3. OwnRows(m)'
    BY <1>2, <1>3, <1>4, <2>1, <2>2 DEF OwnRows, Pending, screen
  <2>4. w \notin gone /\ v = 1 => row[w] = 0
    BY <1>2, <2>1 DEF OwnRows
  <2>5. Outdated(m) => Outdated(m)'
    <3>1. CASE m = w /\ w \notin gone
      <4>1. Outdated(m) => v # 1
        BY <2>4, <3>1 DEF Outdated
      <4>2. QED
        BY <1>2, <1>4, <3>1, <4>1 DEF Outdated
    <3>2. CASE m # w \/ w \in gone
      BY <1>3, <1>4, <2>1, <3>2 DEF Outdated
    <3>3. QED
      BY <3>1, <3>2
  <2>6. Outdated(m)' => Outdated(m) \/ (m = w /\ w \notin gone /\ v # 1)
    BY <1>3, <1>4, <2>1 DEF Outdated
  <2>7. m = w /\ w \notin gone => row'[m] # 0 /\ (v # 1 => Outdated(m)') /\ (v = 1 => ~Outdated(m)')
    BY <1>2, <1>3, <1>4 DEF Outdated
  <2>8. /\ Brings(ev, m) => m = w /\ v = 1
        /\ Outdates(ev, m) /\ w \notin gone => m = w /\ v # 1
        /\ m = w /\ v # 1 => Clears(ev, m)
        /\ ~Brings(ack, m) /\ (Outdates(ack, m) => m = w /\ v # 1)
    BY <1>6 DEF Brings, Outdates, Clears
  <2>9. w \notin gone => OwnEntry(ev, m, row'[m] # 0, Outdated(m)')
    <3> SUFFICES ASSUME w \notin gone PROVE OwnEntry(ev, m, row'[m] # 0, Outdated(m)')
      OBVIOUS
    <3>1. ev.kind # "snapshot" /\ (Outdates(ev, m) => Outdated(m)') /\ (ev.msg = m => row'[m] # 0)
      BY <1>6, <2>7, <2>8
    <3>2. ev.kind = "new" /\ ev.msg = m => ev.version = 1
      BY <1>6
    <3>3. ev.kind = "edit" /\ ev.msg = m => ev.version \in Nat \ {0, 1}
      BY <1>2, <1>6
    <3>4. QED
      BY <3>1, <3>2, <3>3, Zenon DEF OwnEntry
  <2>10. (m = w /\ v # 1 => Outdated(m)') /\ OwnEntry(ack, m, row'[m] # 0, Outdated(m)')
    <3>1. m = w /\ v # 1 => Outdated(m)'
      BY <1>3, <2>7 DEF Outdated
    <3>2. ack.kind \notin {"snapshot", "new", "edit"} /\ (Outdates(ack, m) => Outdated(m)')
      BY <1>6, <2>8, <3>1
    <3>3. QED
      BY <3>1, <3>2, Zenon DEF OwnEntry
  <2>11. CASE w \in gone /\ G = feed
    <3>1. Entries(feed, m, row'[m] # 0, Outdated(m)')
      BY <2>1, <2>2, <2>5, Zenon DEF OwnFeed, Entries, OwnEntry
    <3>2. Outdated(m)' => Outdated(m)
      BY <2>6, <2>11
    <3>3. QED
      BY <1>3, <1>7, <2>1, <2>2, <2>3, <2>5, <2>11, <3>1, <3>2, FedStep DEF OwnFeed, OwnTexts
  <2>12. CASE w \in gone /\ G = Append(feed, ack)
    <3>1. (Outdated(m)' => Outdated(m)) /\ (m = w => Outdated(m))
      BY <2>6, <2>12 DEF Outdated
    <3>2. QED
      BY <1>3, <1>7, <2>2, <2>3, <2>5, <2>8, <2>10, <2>12, <3>1, AddStep
  <2>13. CASE w \notin gone /\ G = Append(feed, ev)
    <3>1. Brings(ev, m) => row[m] = 0 /\ ~Outdated(m)'
      BY <2>4, <2>7, <2>8, <2>13
    <3>2. ev.kind # "ack" /\ (Outdated(m)' => Outdated(m) \/ Clears(ev, m))
      BY <1>6, <2>6, <2>8
    <3>3. QED
      BY <1>3, <1>7, <2>2, <2>3, <2>5, <2>9, <2>13, <3>1, <3>2, AddStep
  <2>14. CASE w \notin gone /\ G = Append(Append(feed, ev), ack)
    <3> DEFINE H == Append(feed, ev)
    <3>1. Entries(feed, m, row'[m] # 0, Outdated(m)')
      BY <2>1, <2>2, <2>5, Zenon DEF OwnFeed, Entries, OwnEntry
    <3>2. /\ H \in Seq(S \cup {ev}) /\ Entries(H, m, row'[m] # 0, Outdated(m)')
          /\ Without(feed, m) /\ ~Brings(ev, m) => Without(H, m)
      BY <1>1, <2>9, <2>14, <3>1, EntriesGrow, Grown
    <3>3. Brings(ev, m) => ~Learned(m) /\ \A i \in DOMAIN feed : ~Outdates(feed[i], m)
      <4>1. Brings(ev, m) => ~Outdated(m)
        BY <2>5, <2>7, <2>8, <2>14
      <4>2. QED
        BY <2>1, <4>1 DEF OwnFeed, OwnTexts, Entries, OwnEntry
    <3>4. /\ InOrder(H, list, m)
          /\ Clears(ev, m) /\ ~Brings(ev, m) => Purged(H, list, m, Len(H))
          /\ Purged(feed, list, m, Len(feed)) /\ ~Brings(ev, m) => Purged(H, list, m, Len(H))
      BY <1>1, <1>6, <2>1, <3>3, EntryAdded DEF OwnFeed
    <3>5. up /\ Outdated(m)' => Purged(H, list, m, Len(H))
      <4>1. CASE m = w
        BY <2>7, <2>8, <2>14, <3>4, <4>1
      <4>2. CASE m # w
        BY <2>1, <2>6, <2>8, <3>4, <4>2 DEF OwnFeed
      <4>3. QED
        BY <4>1, <4>2
    <3>6. Outdates(ack, m) => Purged(H, list, m, Len(H))
      BY <2>8, <3>4
    <3> HIDE DEF H
    <3>7. G = Append(H, ack)
      BY <2>14 DEF H
    <3>8. /\ InOrder(G, list, m) /\ Entries(G, m, row'[m] # 0, Outdated(m)')
          /\ up /\ Outdated(m)' => Purged(G, list, m, Len(G))
          /\ Without(H, m) => Without(G, m)
      BY <2>8, <2>10, <3>2, <3>4, <3>5, <3>6, <3>7, EntryAdded, EntriesGrow
    <3>9. Learned(m) => Without(G, m)
      BY <2>1, <3>2, <3>3, <3>8 DEF OwnTexts
    <3>10. QED
      BY <1>3, <1>7, <2>2, <2>3, <2>5, <3>8, <3>9, FedStep
  <2>15. QED
    BY <1>9, <2>11, <2>12, <2>13, <2>14
<1>12. QED
  BY <1>10, <1>11 DEF OwnInv

\* The first entry of the feed is handled: what it makes of the list and of the
\* texts of m is what the entry brings, outdates and clears.
LEMMA HandledStep ==
  ASSUME OwnInv, NEW m \in Mine, feed # <<>>, feed' = Tail(feed), UNCHANGED <<row, gone, up, seen, drain>>,
         Holds(list', m) => Brings(Head(feed), m) \/ (Holds(list, m) /\ ~Clears(Head(feed), m)),
         Departs(list', m) => Departs(list, m) \/ Outdates(Head(feed), m),
         Departs(plain', m) => Departs(plain, m) \/ Outdates(Head(feed), m),
         Outdates(Head(feed), m) => ~Holds(list', m)
  PROVE  OwnFeed(m)' /\ OwnTexts(m)'
<1>1. OwnFeed(m) /\ OwnTexts(m)
  BY DEF OwnInv
<1>2. PICK S : feed \in Seq(S)
  BY DEF OwnInv, OwnShape
<1>3. Outdated(m)' = Outdated(m)
  BY DEF Outdated
<1>4. /\ InOrder(feed', list', m)
      /\ Purged(feed, list, m, Len(feed)) => Purged(feed', list', m, Len(feed'))
  BY <1>1, <1>2, EntryHandled DEF OwnFeed
<1>5. /\ Entries(feed', m, row[m] # 0, Outdated(m)) /\ OwnEntry(Head(feed), m, row[m] # 0, Outdated(m))
      /\ Without(feed, m) => Without(feed', m) /\ ~Brings(Head(feed), m)
      /\ Outdates(Head(feed), m) => Without(feed', m)
  BY <1>1, <1>2, EntriesShrink DEF OwnFeed
<1>6. OwnFeed(m)'
  BY <1>1, <1>3, <1>4, <1>5 DEF OwnFeed
<1>7. Learned(m)' => Learned(m) \/ Outdates(Head(feed), m)
  BY DEF Learned
<1>8. Outdates(Head(feed), m) => Outdated(m)
  BY <1>5 DEF OwnEntry
<1>9. Learned(m) => Outdated(m) /\ ~Holds(list', m) /\ Without(feed', m)
  BY <1>1, <1>5 DEF OwnTexts
<1>10. OwnTexts(m)'
  BY <1>1, <1>3, <1>5, <1>7, <1>8, <1>9 DEF OwnTexts
<1>11. QED
  BY <1>6, <1>10

LEMMA UponDeparts ==
  ASSUME NEW f, NEW g, NEW m
  PROVE  /\ DOMAIN Upon(f, g) = DOMAIN f \cup DOMAIN g
         /\ m \in DOMAIN f => Upon(f, g)[m] = f[m]
         /\ m \in DOMAIN g \ DOMAIN f => Upon(f, g)[m] = g[m]
         /\ Departs(Upon(f, g), m) => Departs(f, m) \/ Departs(g, m)
         /\ Holds(Upon(f, g), m) => Holds(f, m) \/ Holds(g, m)
  BY DEF Upon, Departs, Holds

LEMMA OneIs ==
  ASSUME NEW x, NEW v
  PROVE  /\ \A m : m \in DOMAIN One(x, v) <=> m = x
         /\ One(x, v)[x] = v
         /\ \A m : Departs(One(x, v), m) => m = x /\ v # 1
  BY DEF One, Departs

\* What is known of the arrived is shown at their versions.
LEMMA ArrivedTexts ==
  ASSUME NEW vs, Arrived(vs), NEW m
  PROVE  Departs(plain', m) => Departs(plain, m) \/ Departs(vs, m)
<1>1. PICK known \in SUBSET DOMAIN vs : plain' = Upon([x \in known |-> vs[x]], plain)
  BY DEF Arrived
<1>2. Departs([x \in known |-> vs[x]], m) => Departs(vs, m)
  BY <1>1 DEF Departs
<1>3. QED
  BY <1>1, <1>2, UponDeparts

LEMMA HandleStep ==
  ASSUME OwnInv, Handle
  PROVE  OwnInv'
<1> DEFINE e == Head(feed)
<1>1. PICK S : feed \in Seq(S)
  BY DEF OwnInv, OwnShape
<1>2. /\ feed # <<>> /\ feed' = Tail(feed) /\ UNCHANGED <<row, gone, up, seen, drain>>
      /\ OnConnect(e) \/ OnNew(e) \/ OnEdit(e) \/ OnDelete(e) \/ OnAck(e)
  BY DEF Handle, server
<1> HIDE DEF e
<1>3. own \subseteq own' /\ (UNCHANGED write \/ write' = NoWrite)
  BY <1>2 DEF OnConnect, OnNew, OnEdit, OnDelete, OnAck
<1>4. OwnShape'
  <2>1. feed' \in Seq(S)
    BY <1>1, <1>2, Shrunk
  <2>2. {"msg", "version", "pc"} \subseteq DOMAIN write' /\ (write'.pc \in {"sent", "lost"} => write' = write)
    BY <1>3 DEF OwnInv, OwnShape, NoWrite
  <2>3. QED
    BY <1>2, <2>1, <2>2 DEF OwnInv, OwnShape
<1>5. ASSUME NEW m \in Mine PROVE OwnRows(m)' /\ OwnFeed(m)' /\ OwnTexts(m)'
  <2>1. OwnRows(m) /\ OwnFeed(m) /\ OwnTexts(m)
    BY DEF OwnInv
  <2>2. OwnEntry(e, m, row[m] # 0, Outdated(m))
    BY <1>1, <1>2, <2>1, EntriesShrink DEF OwnFeed, e
  <2>3. ASSUME m \in DOMAIN list' => row[m] # 0 /\ list'[m] \in Nat \ {0},
               Holds(list', m) => Brings(e, m) \/ (Holds(list, m) /\ ~Clears(e, m)),
               Departs(list', m) => Departs(list, m) \/ Outdates(e, m),
               Departs(plain', m) => Departs(plain, m) \/ Outdates(e, m),
               Outdates(e, m) => ~Holds(list', m)
        PROVE  OwnRows(m)' /\ OwnFeed(m)' /\ OwnTexts(m)'
    <3>1. OwnFeed(m)' /\ OwnTexts(m)'
      BY <1>2, <2>3, HandledStep DEF e
    <3>2. Pending(m)' => Pending(m) /\ write' = write
      BY <1>3 DEF Pending, NoWrite
    <3>3. OwnRows(m)'
      BY <1>2, <1>3, <2>1, <2>3, <3>2 DEF OwnRows
    <3>4. QED
      BY <3>1, <3>3
  <2>4. CASE OnConnect(e)
    <3>1. e.kind = "snapshot" /\ list' = e.all /\ Arrived(e.all)
      BY <2>4 DEF OnConnect
    <3>2. /\ Holds(e.all, m) <=> Brings(e, m)
          /\ Departs(e.all, m) <=> Outdates(e, m)
          /\ m \in DOMAIN e.all => row[m] # 0 /\ e.all[m] \in Nat \ {0}
      BY <2>2, <3>1 DEF Brings, Outdates, Holds, Departs, OwnEntry
    <3>3. Departs(plain', m) => Departs(plain, m) \/ Outdates(e, m)
      BY <3>1, <3>2, ArrivedTexts
    <3>4. Outdates(e, m) => ~Holds(e.all, m)
      BY <3>2 DEF Holds, Departs
    <3>5. QED
      BY <2>3, <3>1, <3>2, <3>3, <3>4
  <2>5. CASE OnNew(e)
    <3> DEFINE vs == One(e.msg, e.version)
    <3>1. e.kind = "new" /\ list' = Upon(list, vs) /\ Arrived(vs)
      BY <2>5 DEF OnNew
    <3>0. (m \in DOMAIN vs <=> m = e.msg) /\ vs[e.msg] = e.version
      BY OneIs
    <3> HIDE DEF vs
    <3>2. /\ m \in DOMAIN vs => vs[m] = 1 /\ row[m] # 0 /\ Brings(e, m)
          /\ ~Clears(e, m) /\ ~Outdates(e, m)
      BY <2>2, <3>0, <3>1 DEF OwnEntry, Brings, Clears, Outdates
    <3>3. ~Departs(vs, m) /\ (Holds(vs, m) => Brings(e, m))
      BY <3>2 DEF Departs, Holds
    <3>4. /\ Departs(plain', m) => Departs(plain, m)
          /\ Departs(list', m) => Departs(list, m)
          /\ Holds(list', m) => Holds(list, m) \/ Brings(e, m)
      BY <3>1, <3>3, ArrivedTexts, UponDeparts
    <3>5. m \in DOMAIN list' => row[m] # 0 /\ list'[m] \in Nat \ {0}
      <4>1. (m \in DOMAIN list' <=> m \in DOMAIN list \/ m \in DOMAIN vs)
            /\ (m \in DOMAIN list => list'[m] = list[m])
            /\ (m \in DOMAIN vs /\ m \notin DOMAIN list => list'[m] = vs[m])
        BY <3>1 DEF Upon
      <4>2. QED
        BY <2>1, <3>2, <4>1 DEF OwnRows
    <3>6. QED
      BY <2>3, <3>2, <3>4, <3>5
  <2>6. CASE OnEdit(e)
    <3>1. /\ e.kind = "edit"
          /\ list' = IF e.msg \in DOMAIN list THEN [list EXCEPT ![e.msg] = e.version] ELSE list
          /\ \/ plain' = Upon(One(e.msg, e.version), plain)
             \/ plain' = Restrict(plain, DOMAIN plain \ {e.msg})
      BY <2>6 DEF OnEdit
    <3>2. DOMAIN list' = DOMAIN list /\ \A x \in DOMAIN list : list'[x] = IF x = e.msg THEN e.version ELSE list[x]
      BY <3>1
    <3>3. m = e.msg => e.version \in Nat \ {0, 1} /\ Outdates(e, m) /\ Clears(e, m)
      BY <2>2, <3>1 DEF OwnEntry, Outdates, Clears
    <3>4. m # e.msg => ~Outdates(e, m) /\ ~Clears(e, m)
      BY <3>1 DEF Outdates, Clears
    <3>5. m \in DOMAIN list' => row[m] # 0 /\ list'[m] \in Nat \ {0}
      BY <2>1, <3>2, <3>3 DEF OwnRows
    <3>6. Holds(list', m) => Holds(list, m) /\ ~Clears(e, m) /\ ~Outdates(e, m)
      BY <3>2, <3>3, <3>4 DEF Holds
    <3>7. Departs(list', m) => Departs(list, m) \/ Outdates(e, m)
      BY <3>2, <3>3 DEF Departs
    <3>8. Departs(plain', m) => Departs(plain, m) \/ Outdates(e, m)
      <4>1. CASE plain' = Upon(One(e.msg, e.version), plain)
        <5>1. Departs(One(e.msg, e.version), m) => Outdates(e, m)
          BY <3>3, OneIs
        <5>2. QED
          BY <4>1, <5>1, UponDeparts
      <4>2. CASE plain' = Restrict(plain, DOMAIN plain \ {e.msg})
        BY <4>2 DEF Restrict, Departs
      <4>3. QED
        BY <3>1, <4>1, <4>2
    <3>9. QED
      BY <2>3, <3>5, <3>6, <3>7, <3>8
  <2>7. CASE OnDelete(e)
    <3>1. e.kind = "delete" /\ list' = Restrict(list, DOMAIN list \ {e.msg}) /\ UNCHANGED plain
      BY <2>7 DEF OnDelete
    <3>2. ~Outdates(e, m) /\ (Clears(e, m) => m = e.msg)
      BY <3>1 DEF Outdates, Clears
    <3>3. DOMAIN list' = DOMAIN list \ {e.msg} /\ \A x \in DOMAIN list' : list'[x] = list[x]
      BY <3>1 DEF Restrict
    <3>4. m \in DOMAIN list' => row[m] # 0 /\ list'[m] \in Nat \ {0}
      BY <2>1, <3>3 DEF OwnRows
    <3>5. (Holds(list', m) => Holds(list, m) /\ m # e.msg) /\ (Departs(list', m) => Departs(list, m))
      BY <3>3 DEF Holds, Departs
    <3>6. QED
      BY <2>3, <3>1, <3>2, <3>4, <3>5
  <2>8. CASE OnAck(e)
    <3>1. e.kind = "ack" /\ UNCHANGED list /\ (UNCHANGED plain \/ (e.version # 1 /\ plain' = Upon(One(e.msg, e.version), plain)))
      BY <2>8 DEF OnAck
    <3>2. ~Clears(e, m) /\ (Outdates(e, m) <=> e.msg = m /\ e.version # 1)
      BY <3>1 DEF Clears, Outdates
    <3>3. Departs(plain', m) => Departs(plain, m) \/ Outdates(e, m)
      <4>1. CASE plain' = Upon(One(e.msg, e.version), plain)
        <5>1. Departs(One(e.msg, e.version), m) => Outdates(e, m)
          BY <3>2, OneIs
        <5>2. QED
          BY <4>1, <5>1, UponDeparts
      <4>2. QED
        BY <3>1, <4>1
    <3>4. Outdates(e, m) => ~Holds(list, m)
      <4>1. 1 \in DOMAIN feed /\ e = feed[1]
        BY <1>1, <1>2, Shrunk DEF e
      <4>2. Outdates(e, m) => Purged(feed, list, m, 0)
        BY <2>1, <3>1, <4>1 DEF OwnFeed, InOrder
      <4>3. QED
        BY <4>2 DEF Purged
    <3>5. m \in DOMAIN list' => row[m] # 0 /\ list'[m] \in Nat \ {0}
      BY <2>1, <3>1 DEF OwnRows
    <3>6. QED
      BY <2>3, <3>1, <3>2, <3>3, <3>4, <3>5
  <2>9. QED
    BY <1>2, <2>4, <2>5, <2>6, <2>7, <2>8
<1>6. QED
  BY <1>4, <1>5 DEF OwnInv

LEMMA RenderedStep ==
  ASSUME OwnInv, Render \/ Ready
  PROVE  OwnInv'
<1>1. /\ seen' = [list |-> list, plain |-> plain] /\ UNCHANGED <<row, gone, feed, up, list, plain, own, write>>
      /\ UNCHANGED drain \/ \E ids : drain' = [left |-> ids, at |-> <<>>, newly |-> <<>>, on |-> TRUE, first |-> TRUE]
  BY DEF Render, Ready, Begun, server
<1>2. OwnShape'
  BY <1>1 DEF OwnInv, OwnShape
<1>3. ASSUME NEW m \in Mine PROVE OwnRows(m)' /\ OwnFeed(m)' /\ OwnTexts(m)'
  <2>1. OwnRows(m)'
    BY <1>1 DEF OwnInv, OwnRows, Pending
  <2>2. Learned(m)' => Learned(m)
    BY <1>1 DEF Learned, Departs
  <2>3. Holds(list, m) => ~Departs(plain, m)
    BY DEF OwnInv, OwnTexts, Learned
  <2>4. QED
    BY <1>1, <2>1, <2>2, <2>3, QuietStep
<1>4. QED
  BY <1>2, <1>3 DEF OwnInv

LEMMA WriteStep ==
  ASSUME OwnInv, NEW w, SendOwn(w) \/ EditOwn(w)
  PROVE  OwnInv'
<1>1. /\ UNCHANGED <<row, gone, feed, up, list, plain, seen, drain>> /\ w \in Mine
      /\ \/ write' = [msg |-> w, version |-> 1, pc |-> "sent"] /\ own' = own \cup {<<w, 1>>} /\ row[w] = 0
         \/ write' = [msg |-> w, version |-> seen.list[w] + 1, pc |-> "sent"] /\ own' = own /\ w \in DOMAIN seen.list
  BY DEF SendOwn, EditOwn, Remembered, server, screen
<1>2. OwnRows(w)
  BY <1>1 DEF OwnInv
<1>3. OwnShape'
  <2>1. {"msg", "version", "pc"} \subseteq DOMAIN write' /\ write'.msg \in Mine /\ write'.version \in Nat \ {0}
    BY <1>1, <1>2 DEF OwnRows
  <2>2. QED
    BY <1>1, <2>1 DEF OwnInv, OwnShape
<1>4. ASSUME NEW m \in Mine PROVE OwnRows(m)' /\ OwnFeed(m)' /\ OwnTexts(m)'
  <2>1. OwnRows(m) /\ OwnTexts(m)
    BY DEF OwnInv
  <2>2. Pending(m)' => m = w
    BY <1>1 DEF Pending
  <2>3. Pending(m)' => <<m, 1>> \in own' /\ (write'.version = 1 => row[m] = 0)
    BY <1>1, <1>2, <2>2 DEF OwnRows
  <2>4. OwnRows(m)'
    BY <1>1, <2>1, <2>3 DEF OwnRows
  <2>5. Learned(m)' = Learned(m)
    BY <1>1 DEF Learned
  <2>6. QED
    BY <1>1, <2>1, <2>4, <2>5, QuietStep DEF OwnTexts
<1>5. QED
  BY <1>3, <1>4 DEF OwnInv

\* A drain takes what is on screen, and gives it back.
LEMMA DrainStep ==
  ASSUME OwnInv, Tick \/ (\E x \in Msgs : DrainNext(x)) \/ Decrypted \/ DrainEnd
  PROVE  OwnInv'
<1>1. UNCHANGED <<row, gone, feed, up, list, seen, own, write>>
  BY DEF Tick, DrainNext, Decrypted, DrainEnd, server, screen
<1> DEFINE Took(x) == drain' = [drain EXCEPT !.left = @ \ {x}, !.at = <<x, seen.list[x]>>]
<1>2. {"left", "at", "newly", "on", "first"} \subseteq DOMAIN drain
  BY DEF OwnInv, OwnShape
<1>3. \/ UNCHANGED plain /\ \E ids : drain' = [left |-> ids, at |-> <<>>, newly |-> <<>>, on |-> TRUE, first |-> FALSE]
      \/ UNCHANGED plain /\ \E x \in DOMAIN seen.list : Took(x)
      \/ UNCHANGED plain /\ \E x : drain' = [drain EXCEPT !.left = @ \ {x}]
      \/ UNCHANGED plain /\ drain.at # <<>>
         /\ drain' = [drain EXCEPT !.at = <<>>, !.newly = Upon(One(drain.at[1], drain.at[2]), @)]
      \/ UNCHANGED plain /\ drain' = [drain EXCEPT !.at = <<>>]
      \/ plain' = Upon(drain.newly, plain) /\ drain' = Idle
  <2>1. CASE Tick
    BY <2>1 DEF Tick, Begun, screen
  <2>2. ASSUME NEW x \in Msgs, DrainNext(x)
        PROVE  UNCHANGED plain /\ ((x \in DOMAIN seen.list /\ Took(x)) \/ drain' = [drain EXCEPT !.left = @ \ {x}])
    BY <2>2 DEF DrainNext
  <2>3. CASE Decrypted
    BY <2>3 DEF Decrypted
  <2>4. CASE DrainEnd
    BY <2>4 DEF DrainEnd
  <2>5. QED
    BY <2>1, <2>2, <2>3, <2>4
<1>4. {"left", "at", "newly", "on", "first"} \subseteq DOMAIN drain'
  BY <1>2, <1>3 DEF Idle
<1> DEFINE w == One(drain.at[1], drain.at[2])
<1> DEFINE Gave == drain' = [drain EXCEPT !.at = <<>>, !.newly = Upon(w, @)]
<1>5. /\ \/ drain'.at = <<>>
         \/ drain'.at = drain.at
         \/ \E x \in DOMAIN seen.list : drain'.at = <<x, seen.list[x]>>
      /\ drain'.newly \in {<<>>, drain.newly} \/ (drain.at # <<>> /\ drain'.newly = Upon(w, drain.newly))
  <2>1. ASSUME NEW x, Took(x) PROVE drain'.at = <<x, seen.list[x]>> /\ drain'.newly = drain.newly
    BY <1>2, <2>1
  <2>2. ASSUME NEW x, drain' = [drain EXCEPT !.left = @ \ {x}] PROVE drain'.at = drain.at /\ drain'.newly = drain.newly
    BY <1>2, <2>2
  <2>3. drain' = [drain EXCEPT !.at = <<>>] => drain'.at = <<>> /\ drain'.newly = drain.newly
    BY <1>2
  <2>4. Gave => drain'.at = <<>> /\ drain'.newly = Upon(w, drain.newly)
    BY <1>2
  <2>5. drain' = Idle => drain'.at = <<>> /\ drain'.newly = <<>>
    BY DEF Idle
  <2>6. ASSUME NEW ids, drain' = [left |-> ids, at |-> <<>>, newly |-> <<>>, on |-> TRUE, first |-> FALSE]
        PROVE  drain'.at = <<>> /\ drain'.newly = <<>>
    BY <2>6
  <2>7. CASE \E x \in DOMAIN seen.list : Took(x)
    BY <2>1, <2>7
  <2>8. CASE \E x : drain' = [drain EXCEPT !.left = @ \ {x}]
    BY <2>2, <2>8
  <2>9. CASE drain.at # <<>> /\ Gave
    BY <2>4, <2>9
  <2>10. CASE \/ drain' = [drain EXCEPT !.at = <<>>] \/ drain' = Idle
              \/ \E ids : drain' = [left |-> ids, at |-> <<>>, newly |-> <<>>, on |-> TRUE, first |-> FALSE]
    BY <2>3, <2>5, <2>6, <2>10
  <2>11. QED
    BY <1>3, <2>7, <2>8, <2>9, <2>10
<1>6. plain' = plain \/ plain' = Upon(drain.newly, plain)
  BY <1>3
<1>7. OwnShape'
  BY <1>1, <1>4 DEF OwnInv, OwnShape
<1>8. ASSUME NEW m \in Mine PROVE OwnRows(m)' /\ OwnFeed(m)' /\ OwnTexts(m)'
  <2>1. OwnRows(m)' /\ OwnTexts(m)
    BY <1>1 DEF OwnInv, OwnRows, Pending
  <2>2. ~Departs(<<>>, m)
    BY DEF Departs
  <2>3. Departs(plain', m) => Departs(plain, m) \/ Departs(drain.newly, m)
    <3>1. Departs(Upon(drain.newly, plain), m) => Departs(plain, m) \/ Departs(drain.newly, m)
      BY UponDeparts
    <3>2. QED
      BY <1>6, <3>1
  <2>4. Departs(drain'.newly, m) => Departs(drain.newly, m) \/ (drain.at # <<>> /\ drain.at[1] = m /\ drain.at[2] # 1)
    <3>1. Departs(w, m) => drain.at[1] = m /\ drain.at[2] # 1
      BY OneIs
    <3>2. Departs(Upon(w, drain.newly), m) => Departs(w, m) \/ Departs(drain.newly, m)
      BY UponDeparts
    <3> HIDE DEF w
    <3>3. QED
      BY <1>5, <2>2, <3>1, <3>2
  <2>5. drain'.at # <<>> /\ drain'.at[1] = m /\ drain'.at[2] # 1
           => Departs(seen.list, m) \/ (drain.at # <<>> /\ drain.at[1] = m /\ drain.at[2] # 1)
    BY <1>5 DEF Departs
  <2>6. Learned(m)' => Learned(m)
    BY <1>1, <2>3, <2>4, <2>5 DEF Learned
  <2>7. QED
    BY <1>1, <2>1, <2>6, QuietStep DEF OwnTexts
<1>9. QED
  BY <1>7, <1>8 DEF OwnInv

LEMMA SocketDrops ==
  ASSUME OwnInv, Drop
  PROVE  OwnInv'
<1>1. up' = FALSE /\ feed' = <<>> /\ UNCHANGED <<row, gone, list, plain, seen, own, drain>>
      /\ write' \in {[write EXCEPT !.pc = "lost"], NoWrite} /\ (write' # NoWrite => write.pc = "sent")
  BY DEF Drop, server, screen
<1>2. {"msg", "version", "pc"} \subseteq DOMAIN write'
      /\ (write'.pc \in {"sent", "lost"} => write.pc = "sent" /\ write'.msg = write.msg /\ write'.version = write.version)
  BY <1>1 DEF OwnInv, OwnShape, NoWrite
<1>3. OwnShape'
  <2>1. feed' \in Seq({})
    BY <1>1
  <2>2. QED
    BY <1>1, <1>2, <2>1 DEF OwnInv, OwnShape
<1>4. ASSUME NEW m \in Mine PROVE OwnRows(m)' /\ OwnFeed(m)' /\ OwnTexts(m)'
  <2>1. OwnRows(m)'
    BY <1>1, <1>2 DEF OwnInv, OwnRows, Pending
  <2>2. OwnFeed(m)'
    BY <1>1, EmptyFeed DEF OwnFeed
  <2>3. Learned(m)' = Learned(m) /\ Outdated(m)' = Outdated(m)
    BY <1>1 DEF Learned, Outdated
  <2>4. OwnTexts(m)'
    BY <1>1, <2>3, EmptyFeed DEF OwnInv, OwnTexts
  <2>5. QED
    BY <2>1, <2>2, <2>4
<1>5. QED
  BY <1>3, <1>4 DEF OwnInv

\* The channel is joined again, and the snapshot says where everything stands.
LEMMA ReconnectStep ==
  ASSUME OwnInv, Reconnect
  PROVE  OwnInv'
<1> DEFINE e == [kind |-> "snapshot", msg |-> "none", version |-> 0, all |-> Snapshot]
<1>1. up' = TRUE /\ feed' = <<e>> /\ UNCHANGED <<row, gone, list, plain, seen, own, drain, write>>
  BY DEF Reconnect, server, screen
<1>2. e.kind = "snapshot" /\ e.all = Snapshot
  OBVIOUS
<1> HIDE DEF e
<1>3. feed' \in Seq({e}) /\ DOMAIN feed' = {1} /\ Len(feed') = 1 /\ feed'[1] = e
  BY <1>1
<1>4. OwnShape'
  BY <1>1, <1>3 DEF OwnInv, OwnShape
<1>5. ASSUME NEW m \in Mine PROVE OwnRows(m)' /\ OwnFeed(m)' /\ OwnTexts(m)'
  <2>1. OwnRows(m)' /\ OwnRows(m) /\ OwnTexts(m) /\ m \in Msgs /\ row[m] \in Nat
    BY <1>1, BubblesAssumption DEF OwnInv, OwnShape, OwnRows, Pending
  <2>2. Learned(m)' = Learned(m) /\ Outdated(m)' = Outdated(m)
    BY <1>1 DEF Learned, Outdated
  <2>3. m \in DOMAIN e.all => e.all[m] = row[m] /\ row[m] # 0 /\ m \notin gone
    BY <1>2 DEF Snapshot, Live
  <2>4. (Outdates(e, m) => Outdated(m)) /\ (Outdated(m) => ~Brings(e, m) /\ Clears(e, m))
    BY <1>2, <2>3 DEF Outdates, Brings, Clears, Outdated
  <2>5. OwnEntry(e, m, row'[m] # 0, Outdated(m)')
    <3>1. e.kind \notin {"new", "edit"} /\ (m \in DOMAIN e.all => row'[m] # 0 /\ e.all[m] \in Nat \ {0})
          /\ (Outdates(e, m) => Outdated(m)')
      BY <1>1, <1>2, <2>1, <2>2, <2>3, <2>4
    <3>2. QED
      BY <3>1, Zenon DEF OwnEntry
  <2>6. Entries(feed', m, row'[m] # 0, Outdated(m)')
    BY <1>3, <2>5, Zenon DEF Entries
  <2>7. InOrder(feed', list', m)
    BY <1>2, <1>3 DEF InOrder
  <2>8. Outdated(m) => Purged(feed', list', m, 1)
    BY <1>3, <2>4 DEF Purged
  <2>9. OwnFeed(m)'
    BY <1>3, <2>2, <2>6, <2>7, <2>8 DEF OwnFeed
  <2>10. OwnTexts(m)'
    BY <1>1, <1>3, <2>1, <2>2, <2>4 DEF OwnTexts, Without
  <2>11. QED
    BY <2>1, <2>9, <2>10
<1>6. QED
  BY <1>4, <1>5 DEF OwnInv

LEMMA OwnInitial == BubblesInit => OwnInv
<1> SUFFICES ASSUME BubblesInit PROVE OwnInv
  OBVIOUS
<1>1. feed = <<>> /\ feed \in Seq({}) /\ row = [m \in Msgs |-> 0] /\ gone = {}
  BY DEF BubblesInit
<1>2. list = <<>> /\ plain = <<>> /\ seen = [list |-> <<>>, plain |-> <<>>] /\ drain = Idle /\ write = NoWrite
  BY DEF BubblesInit
<1>3. OwnShape
  BY <1>1, <1>2 DEF OwnShape, Idle, NoWrite
<1>4. ASSUME NEW m \in Mine PROVE OwnRows(m) /\ OwnFeed(m) /\ OwnTexts(m)
  <2>1. row[m] = 0 /\ ~Outdated(m)
    BY <1>1, BubblesAssumption DEF Outdated
  <2>2. ~Learned(m) /\ ~Pending(m)
    BY <1>2 DEF Learned, Pending, Departs, Idle, NoWrite
  <2>3. OwnRows(m)
    BY <1>1, <1>2, <2>1, <2>2 DEF OwnRows
  <2>4. QED
    BY <1>1, <1>2, <2>1, <2>2, <2>3, EmptyFeed DEF OwnFeed, OwnTexts, Holds
<1>5. QED
  BY <1>3, <1>4 DEF OwnInv

LEMMA OwnStep == OwnInv /\ [BubblesNext]_bubbleVars => OwnInv'
<1> SUFFICES ASSUME OwnInv, [BubblesNext]_bubbleVars PROVE OwnInv'
  OBVIOUS
<1>1. ASSUME UNCHANGED <<row, gone, feed, up, list, plain, seen, own, drain, write>> PROVE OwnInv'
  <2>1. OwnShape'
    BY <1>1 DEF OwnInv, OwnShape
  <2>2. ASSUME NEW m \in Mine PROVE OwnRows(m)' /\ OwnFeed(m)' /\ OwnTexts(m)'
    <3>1. OwnRows(m)' /\ OwnTexts(m)
      BY <1>1 DEF OwnInv, OwnRows, Pending
    <3>2. Learned(m)' = Learned(m)
      BY <1>1 DEF Learned
    <3>3. QED
      BY <1>1, <3>1, <3>2, QuietStep DEF OwnTexts
  <2>3. QED
    BY <2>1, <2>2 DEF OwnInv
<1>2. ASSUME NEW c, KeyArrives(c) PROVE OwnInv'
  BY <1>1, <1>2 DEF KeyArrives, server, screen
<1>3. CASE UNCHANGED bubbleVars
  BY <1>1, <1>3 DEF bubbleVars, server, screen
<1>4. QED
  BY <1>2, <1>3, WrittenStep, DeletedStep, OwnStored, HandleStep, RenderedStep, WriteStep, DrainStep, SocketDrops,
     ReconnectStep DEF BubblesNext

\* ChatPane.tsx:1673-1680: for any number of messages and edits, however often
\* the connection is lost, and whatever of events, acknowledgements, renders and
\* drains comes first, a message the user sent from this tab is readable wherever
\* it is shown.
THEOREM OwnSendIsShown == BubblesSpec => []OwnSendShown
<1>1. OwnInv => OwnSendShown
  <2> SUFFICES ASSUME OwnInv, NEW m \in Mine, m \in DOMAIN seen.list, seen.list[m] = 1 PROVE Displayed(m) = 1
    BY DEF OwnSendShown
  <2>1. Holds(seen.list, m) /\ OwnRows(m) /\ OwnTexts(m)
    BY DEF OwnInv, Holds
  <2>2. <<m, 1>> \in own /\ (m \in DOMAIN seen.plain => seen.plain[m] = 1)
    BY <2>1 DEF OwnRows, OwnTexts, Departs
  <2>3. QED
    BY <2>2 DEF Displayed
<1>2. QED
  BY <1>1, OwnInitial, OwnStep, PTL DEF BubblesSpec
=============================================================================

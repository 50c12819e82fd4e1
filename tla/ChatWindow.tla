----------------------------- MODULE ChatWindow -----------------------------
(***************************************************************************)
(* What one browser tab shows beside its chat list, and what is typed      *)
(* there: the route of components/AppShell.tsx, the payload behind it      *)
(* (useTopicBootstrap, useApiResource), the password gate of a topic, the  *)
(* composer of components/ChatPane.tsx and the sends of lib/chat-source.   *)
(*                                                                         *)
(* A text is named by the conversation in which it was typed, a file or a  *)
(* quoted message by the one in which it was picked.  A topic's pane is    *)
(* keyed by the topic; all direct conversations share one, whose state     *)
(* outlives the switch.  An effect runs with the step that causes it.      *)
(***************************************************************************)
EXTENDS Naturals, FiniteSets

CONSTANTS
  Topics, Dms,
  Protected,    \* topics with a password, for one who is not an admin
  ChatLists,    \* what the user's chat list may hold
  Home,         \* every route without a conversation
  NoConv,
  MaxPassword,   \* bounds passwordVersion
  MaxAsked,     \* bounds the requests under way at once
  MaxSends      \* bounds the sends under way at once

Convs == Topics \cup Dms

ASSUME ChatWindowAssumption ==
  /\ Topics \cap Dms = {} /\ Home \notin Convs /\ NoConv \notin Convs
  /\ ChatLists \subseteq SUBSET Convs /\ Protected \subseteq Topics /\ {MaxPassword, MaxAsked, MaxSends} \subseteq Nat \ {0}

VARIABLES
  chats,    \* the chat list
  url,      \* the conversation of the pathname
  asked,    \* answers under way: to the effect of this render, or to an older one
  data,     \* payload of the pane: its conversation and password version
  status,   \* ResourceStatus
  cache,    \* conversations in the cache of useApiResource
  gate,     \* the topic for which useTopicPassword is unlocked
  entry,    \* lc_tpw_<topic>: the version that was entered, 0 for none
  version,  \* passwordVersion of each topic
  view,     \* the conversation whose ChatPane is mounted
  draft,    \* the text in the composer
  extras,   \* pendingAttachments and replyingTo
  saved,    \* legends-draft-<conversation>
  sends,    \* calls of send() under way
  removed   \* direct conversations that were declined or deleted

pane == <<asked, data, status, cache>>
lock == <<gate, entry>>
composer == <<view, draft, extras, saved, sends>>
windowVars == <<chats, url, pane, lock, version, composer, removed>>

NoData == [conv |-> NoConv, ver |-> 0]

WindowTypeOK ==
  /\ chats \subseteq Convs
  /\ url \in Convs \cup {Home}
  /\ asked \subseteq [conv : Convs, live : BOOLEAN]
  /\ data \in [conv : Convs \cup {NoConv}, ver : Nat]
  /\ status \in {"loading", "ready", "notFound", "forbidden", "error"}
  /\ cache \subseteq Dms
  /\ gate \in Topics \cup {NoConv}
  /\ entry \in [Topics -> Nat] /\ version \in [Topics -> Nat]
  /\ view \in Convs \cup {NoConv} /\ draft \in Convs \cup {NoConv}
  /\ extras \subseteq Convs
  /\ saved \in [Convs -> Convs \cup {NoConv}]
  /\ sends \subseteq [to : Convs, text : Convs \cup {NoConv}, extras : SUBSET Convs,
                      here : BOOLEAN, pc : {"links", "ack", "unheard"}]
  /\ removed \subseteq Dms

WindowInit ==
  /\ chats \in ChatLists
  /\ url = Home /\ asked = {} /\ data = NoData /\ status = "loading" /\ cache = {}
  /\ gate = NoConv /\ entry = [t \in Topics |-> 0] /\ version = [t \in Topics |-> 1]
  /\ view = NoConv /\ draft = NoConv /\ extras = {}
  /\ saved = [c \in Convs |-> NoConv]
  /\ sends = {}
  /\ removed = {}

(***************************************************************************)
(* What a render shows                                                     *)
(***************************************************************************)

IsValid(t, ver) == entry[t] = ver

\* The effect of useTopicPassword, when topic or version are new to it.
Unlocked(d) ==
  IF d.conv \notin Topics THEN NoConv
  ELSE IF d.conv \notin Protected \/ IsValid(d.conv, d.ver) THEN d.conv ELSE NoConv

\* The conversation whose ChatPane is in the tree: TopicRightPane shows nothing
\* but its own slug, and that behind its gate.
TopicMounted(t, d, st, g) == IF d.conv = t /\ st # "notFound" /\ g = t THEN t ELSE NoConv

\* DmRightPane shows what it has until an error or an answer comes.
DmMounted(d, st) == IF st \in {"notFound", "error"} THEN NoConv ELSE d.conv

Mounted(u, d, st, g) ==
  CASE u \in Topics -> TopicMounted(u, d, st, g) [] u \in Dms -> DmMounted(d, st) [] OTHER -> NoConv

\* Mutant of DraftKey: one key for all topics.
DraftKeyOfKind(c) == IF c \in Topics THEN CHOOSE t \in Topics : TRUE ELSE c

DraftKey(c) == c

\* A topic's pane is keyed by the topic, direct conversations have one pane.
SamePane(w) == w = view \/ {w, view} \subseteq Dms

\* The socket of a source goes with its view: no acknowledgement comes any more.
Detached(w) ==
  {[s EXCEPT !.here = @ /\ SamePane(w),
             !.pc = IF s.to \in Topics /\ @ = "ack" THEN "unheard" ELSE @] : s \in sends}

\* The composer after a render that mounts the pane of w: the effects of draftKey
\* load what was saved, if there is any, and save what is shown.
Shown(w) ==
  LET stored == IF w = NoConv THEN NoConv ELSE saved[DraftKey(w)]
      text == IF w = view THEN draft
              ELSE IF stored # NoConv THEN stored
              ELSE IF SamePane(w) THEN draft ELSE NoConv
  IN
  /\ view' = w
  /\ draft' = text
  /\ extras' = IF SamePane(w) THEN extras ELSE {}
  /\ saved' = IF w = NoConv THEN saved ELSE [saved EXCEPT ![DraftKey(w)] = text]
  /\ sends' = IF w = view THEN sends ELSE Detached(w)

(***************************************************************************)
(* Routes and their payload                                                *)
(***************************************************************************)

Dead == {[a EXCEPT !.live = @ /\ a.conv \in Dms] : a \in asked}

\* useApiResource shows what it has cached, or what it had until it knows better.
Cached(c) ==
  IF c \in cache THEN [conv |-> c, ver |-> 0] ELSE IF url \in Dms THEN data ELSE NoData

\* useTopicBootstrap drops the payload of another slug.
Go(c) ==
  /\ url' = c
  /\ asked' = IF c = Home THEN Dead ELSE Dead \cup {[conv |-> c, live |-> TRUE]}
  /\ data' = IF c \in Dms THEN Cached(c) ELSE NoData
  /\ status' = IF c \in cache THEN "ready" ELSE "loading"
  /\ gate' = Unlocked(data')
  /\ Shown(Mounted(url', data', status', gate'))
  /\ UNCHANGED cache

Navigate(c) ==
  /\ c # url /\ Cardinality(asked) < MaxAsked
  /\ Go(c)
  /\ UNCHANGED <<chats, entry, version, removed>>

\* The session socket connected again: the topic is asked for once more, and
\* stays on screen.
SocketChanged ==
  /\ url \in Topics /\ Cardinality(asked) < MaxAsked
  /\ asked' = Dead \cup {[conv |-> url, live |-> TRUE]}
  /\ status' = "loading"
  /\ gate' = gate
  /\ Shown(Mounted(url, data, "loading", gate))
  /\ UNCHANGED <<chats, url, data, cache, entry, version, removed>>

\* Mutant of Answer: nobody asks whether the route is still the one.
AnswerAnyway(a) ==
  LET c == a.conv IN
  /\ a \in asked /\ asked' = asked \ {a}
  /\ cache' = IF c \in Dms THEN cache \cup {c} ELSE cache
  /\ status' = "ready"
  /\ data' = [conv |-> c, ver |-> IF c \in Topics THEN version[c] ELSE 0]
  /\ gate' = IF data' = data THEN gate ELSE Unlocked(data')
  /\ Shown(Mounted(url, data', status', gate'))
  /\ UNCHANGED <<chats, url, entry, version, removed>>

\* GET /api/dm/<id> is remembered, and shared by those who ask meanwhile.
Fetched(c, st) == IF c \in Dms /\ st = "ready" THEN cache \cup {c} ELSE cache

\* A refused direct conversation leaves nothing; a failed request, what was there.
Refused(c, st) == IF c \in Dms /\ st # "error" THEN NoData ELSE data

\* TOPIC_JOIN, with the REST route when the socket does not answer; or
\* GET /api/dm/<id>.
Answer(a) ==
  LET c == a.conv
      mine == IF c \in Topics THEN a.live ELSE url = c
      found == [conv |-> c, ver |-> IF c \in Topics THEN version[c] ELSE 0]
  IN
  /\ a \in asked /\ asked' = asked \ {a}
  /\ \E st \in IF c \in removed THEN {"notFound"} ELSE {"ready", "forbidden", "error"} :
       /\ cache' = Fetched(c, st)
       /\ status' = IF mine THEN st ELSE status
       /\ data' = IF ~mine THEN data ELSE IF st = "ready" THEN found ELSE Refused(c, st)
  /\ gate' = IF data' = data THEN gate ELSE Unlocked(data')
  /\ Shown(Mounted(url, data', status', gate'))
  /\ UNCHANGED <<chats, url, entry, version, removed>>

(***************************************************************************)
(* The password of a topic                                                 *)
(***************************************************************************)

Waiting == url \in Topics /\ data.conv = url /\ status # "notFound" /\ gate # url

\* POST verify-password answers with the version of now.
Submit ==
  /\ Waiting
  /\ entry' = [entry EXCEPT ![url] = version[url]]
  /\ gate' = url
  /\ Shown(url)
  /\ UNCHANGED <<chats, url, pane, version, removed>>

\* An admin sets another password and wants it at once.
ChangePassword(t) ==
  /\ t \in Protected /\ version[t] < MaxPassword
  /\ version' = [version EXCEPT ![t] = @ + 1]
  /\ UNCHANGED <<chats, url, pane, lock, composer, removed>>

\* passwordReentryDays are over.
Expire(t) ==
  /\ entry[t] # 0
  /\ entry' = [entry EXCEPT ![t] = 0]
  /\ UNCHANGED <<chats, url, pane, gate, version, composer, removed>>

(***************************************************************************)
(* The composer                                                            *)
(***************************************************************************)

Type ==
  /\ view # NoConv /\ draft = NoConv
  /\ draft' = view
  /\ saved' = [saved EXCEPT ![DraftKey(view)] = view]
  /\ UNCHANGED <<chats, url, pane, lock, version, view, extras, sends, removed>>

\* A file is uploaded, a gif chosen, a message quoted; or taken back.
Pick ==
  /\ view # NoConv
  /\ extras' = IF view \in extras THEN extras \ {view} ELSE extras \cup {view}
  /\ UNCHANGED <<chats, url, pane, lock, version, view, draft, saved, sends, removed>>

\* sendingRef lets one call in.
Send ==
  /\ view # NoConv /\ (draft # NoConv \/ extras # {})
  /\ \A s \in sends : ~s.here
  /\ Cardinality(sends) < MaxSends
  /\ sends' = sends \cup {[to |-> view, text |-> draft, extras |-> extras, here |-> TRUE, pc |-> "links"]}
  /\ UNCHANGED <<chats, url, pane, lock, version, view, draft, extras, saved, removed>>

\* The end of a send that got to its end: the composer of that pane is emptied,
\* whatever it holds by now.
Emptied(s) ==
  LET clear == IF s.here /\ view # NoConv THEN {DraftKey(view), DraftKey(s.to)} ELSE {DraftKey(s.to)} IN
  /\ sends' = sends \ {s}
  /\ draft' = IF s.here THEN NoConv ELSE draft
  /\ extras' = IF s.here THEN {} ELSE extras
  /\ saved' = [c \in Convs |-> IF c \in clear THEN NoConv ELSE saved[c]]

\* A source without a socket returns at once, and the text is gone.
Emit(s) ==
  LET unheard == s.to \in Topics /\ view # s.to IN
  /\ s \in sends /\ s.pc = "links"
  /\ IF unheard
     THEN Emptied(s)
     ELSE /\ sends' = (sends \ {s}) \cup {[s EXCEPT !.pc = "ack"]}
          /\ UNCHANGED <<draft, extras, saved>>
  /\ UNCHANGED <<chats, url, pane, lock, version, view, removed>>

\* The recipients are not to be trusted, or cannot be encrypted to, or the
\* request fails: the text stays.
SendStops(s) ==
  /\ s \in sends /\ (s.pc = "links" \/ s.to \in Dms)
  /\ sends' = sends \ {s}
  /\ UNCHANGED <<chats, url, pane, lock, version, view, draft, extras, saved, removed>>

\* The answer, be it a refusal.
Acknowledged(s) ==
  /\ s \in sends /\ s.pc = "ack"
  /\ Emptied(s)
  /\ UNCHANGED <<chats, url, pane, lock, version, view, removed>>

\* The chat socket drops with an acknowledgement under way.
Dropped ==
  /\ view \in Topics
  /\ sends' = {[s EXCEPT !.pc = IF @ = "ack" THEN "unheard" ELSE @] : s \in sends}
  /\ sends' # sends
  /\ UNCHANGED <<chats, url, pane, lock, version, view, draft, extras, saved, removed>>

(***************************************************************************)
(* Elsewhere                                                               *)
(***************************************************************************)

\* A conversation is declined or deleted by either side: its pane goes home.
Removed(c) ==
  /\ c \in Dms \ removed
  /\ removed' = removed \cup {c}
  /\ IF view = c THEN Go(Home) ELSE UNCHANGED <<url, pane, gate, composer>>
  /\ UNCHANGED <<chats, entry, version>>

\* The page is loaded again, or the app opened the next day.
Reload ==
  /\ url' = Home /\ asked' = {} /\ data' = NoData /\ status' = "loading" /\ cache' = {}
  /\ gate' = NoConv
  /\ view' = NoConv /\ draft' = NoConv /\ extras' = {} /\ sends' = {}
  /\ UNCHANGED <<chats, saved, entry, version, removed>>

\* Cold boot: the last topic that was open, or else the chat with the newest message.
ColdBoot(c) ==
  /\ url = Home /\ Cardinality(asked) < MaxAsked
  /\ Go(c)
  /\ UNCHANGED <<chats, entry, version, removed>>

(***************************************************************************)
(* The specification                                                       *)
(***************************************************************************)

WindowNext ==
  \/ \E c \in chats \cup {Home} : Navigate(c)
  \/ SocketChanged \/ \E a \in asked : Answer(a)
  \/ Submit \/ \E t \in Topics : ChangePassword(t) \/ Expire(t)
  \/ Type \/ Pick \/ Send
  \/ \E s \in sends : Emit(s) \/ SendStops(s) \/ Acknowledged(s)
  \/ Dropped \/ Reload
  \/ \E c \in Dms \cap chats : Removed(c)
  \/ \E c \in chats : ColdBoot(c)

WindowSpec == WindowInit /\ [][WindowNext]_windowVars

(***************************************************************************)
(* Properties                                                              *)
(***************************************************************************)

Failed == {"notFound", "forbidden", "error"}

\* TopicRightPane.tsx:87-95: a protected topic is on screen only for one who
\* has entered the password of the version that its bootstrap named, or a later.
GateCurrent == view \in Protected => gate = view /\ (entry[view] = 0 \/ entry[view] >= data.ver)

\* use-topic-bootstrap.ts:64 and use-api-resource.ts:63: answers come late and
\* out of order.  A topic's route never shows another topic, nor one whose gate
\* is not open, and a route for which nothing is under way shows its
\* conversation, its gate or its failure.
RouteShown ==
  /\ url \in Topics => view \in {url, NoConv}
  /\ url \in Convs /\ [conv |-> url, live |-> TRUE] \notin asked =>
       view = url \/ Waiting \/ status \in Failed
  /\ GateCurrent

\* TopicRightPane.tsx:118, ChatPane.tsx:528: what reaches a topic was
\* quoted or picked there, whatever the user had begun in other chats, whatever
\* was under way when he left, and across page loads.
KeptApart == \A s \in sends : s.to \in Topics => {s.text} \cup s.extras \subseteq {s.to, NoConv}
=============================================================================

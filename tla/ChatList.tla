------------------------------ MODULE ChatList ------------------------------
(***************************************************************************)
(* The chat list of one user in one tab: contexts/ChatListContext.tsx over *)
(* GET /api/chat-list, the requests and chats the user begins, accepts or  *)
(* refuses, and what the other side does meanwhile, relayed by apps/ws.    *)
(*                                                                         *)
(* The provider reads the list once, when the page is loaded; afterwards   *)
(* it is kept by events alone: chatlist:refresh runs router.refresh, which *)
(* renders the server tree again and leaves what client hooks hold.        *)
(***************************************************************************)
EXTENDS Naturals, Sequences, FiniteSets, Functions

CONSTANTS
  People, Bots,  \* direct conversations, with a user or with a bot
  Groups,        \* topics the user may view
  MaxNews,       \* bounds the messages
  MaxLoads,      \* bounds page loads
  MaxLost       \* bounds the losses of the socket

Talks == People \cup Bots
Chats == Talks \cup Groups

ASSUME ChatListAssumption ==
  /\ Groups \cap Talks = {} /\ People \cap Bots = {}
  /\ {MaxNews, MaxLoads, MaxLost} \subseteq Nat

VARIABLES
  state,   \* of a conversation; a topic is always "accepted"
  asker,   \* who sent the request: "me" or "peer"
  at,      \* time of the last message, 0 for none
  new,     \* messages of a topic past last_read_message_id
  clock,
  outbox,  \* published on redis, not yet relayed
  chan,    \* what the socket has yet to hand over
  sock,    \* the socket of the provider is connected
  items,   \* chat -> [at, unread]
  fetch,   \* GET /api/chat-list: "asked", the rows read, or "done"
  lapsed,  \* history: chats changed behind a snapshot, or without a socket
  loads, lost

stored == <<state, asker, at, new, clock>>
listVars == <<stored, outbox, chan, sock, items, fetch, lapsed, loads, lost>>

Row == [at : Nat, unread : Nat]

ListTypeOK ==
  /\ state \in [Chats -> {"none", "pending", "accepted", "gone"}]
  /\ asker \in [Chats -> {"me", "peer"}]
  /\ at \in [Chats -> Nat] /\ new \in [Groups -> Nat]
  /\ clock \in 0..MaxNews /\ loads \in 1..MaxLoads /\ lost \in 0..MaxLost
  /\ sock \in BOOLEAN /\ lapsed \subseteq Chats
  /\ DOMAIN items \subseteq Chats /\ \A c \in DOMAIN items : items[c] \in Row

ListInit ==
  /\ state = [c \in Chats |-> IF c \in Groups THEN "accepted" ELSE "none"]
  /\ asker = [c \in Chats |-> "peer"]
  /\ at = [c \in Chats |-> 0] /\ new = [t \in Groups |-> 0]
  /\ clock = 0 /\ outbox = {} /\ chan = <<>> /\ sock = FALSE
  /\ items = <<>> /\ fetch = [st |-> "asked", rows |-> <<>>]
  /\ lapsed = {} /\ loads = 1 /\ lost = 0

\* What is told of c from now on does not find the list that it belongs to.
Behind == fetch.st = "read" \/ (~sock /\ fetch.st = "done")
Changed(cs) == lapsed' = IF Behind THEN lapsed \cup cs ELSE lapsed

Told(kind, c) == [kind |-> kind, chat |-> c, at |-> at'[c], mine |-> FALSE]
Publish(e) == outbox' = outbox \cup {e} /\ Changed({e.chat})

(***************************************************************************)
(* The routes                                                              *)
(***************************************************************************)

\* openConversation with a first message: pending, or accepted with a bot.
Opened(c, who) ==
  /\ state[c] = "none" /\ clock < MaxNews
  /\ state' = [state EXCEPT ![c] = IF c \in Bots THEN "accepted" ELSE "pending"]
  /\ asker' = [asker EXCEPT ![c] = who]
  /\ clock' = clock + 1
  /\ at' = [at EXCEPT ![c] = IF c \in Bots THEN 0 ELSE clock']
  /\ Changed({c})
  /\ UNCHANGED <<new, outbox>>

\* POST accept, by the recipient.
Accepted(c) ==
  /\ state[c] = "pending"
  /\ state' = [state EXCEPT ![c] = "accepted"]
  /\ UNCHANGED <<asker, at, new, clock>>
  /\ Publish(Told("accepted", c))

\* POST decline by the recipient, or DELETE: the row goes.
Gone(c) ==
  /\ state[c] \in {"pending", "accepted"}
  /\ state' = [state EXCEPT ![c] = "gone"]
  /\ UNCHANGED <<asker, at, new, clock>>
  /\ Publish(Told(IF state[c] = "pending" THEN "declined" ELSE "deleted", c))

\* A message is stored, and published.
Message(c, mine) ==
  /\ state[c] = "accepted" /\ clock < MaxNews
  /\ clock' = clock + 1
  /\ at' = [at EXCEPT ![c] = clock']
  /\ new' = IF c \in Groups THEN [new EXCEPT ![c] = @ + 1] ELSE new
  /\ UNCHANGED <<state, asker>>
  /\ Publish([Told("message", c) EXCEPT !.mine = mine])

\* TOPIC_READ: the list of this tab is not told.
Read(t) ==
  /\ new[t] > 0 /\ new' = [new EXCEPT ![t] = 0]
  /\ UNCHANGED <<state, asker, at, clock, outbox, lapsed>>

Tab == <<chan, sock, items, fetch, loads, lost>>

\* The other side, or another session of the user.
Elsewhere ==
  /\ \/ \E c \in People : Opened(c, "peer") \/ Accepted(c)
     \/ \E c \in Talks : Gone(c)
     \/ \E c \in Chats, mine \in BOOLEAN : Message(c, mine)
     \/ \E t \in Groups : Read(t)
  /\ UNCHANGED Tab

(***************************************************************************)
(* The user in this tab                                                    *)
(***************************************************************************)

\* router.refresh
Refreshed == UNCHANGED <<items, fetch>>

\* onSend of DmComposeNewView, startChat of NewChatModal.
Compose(c) ==
  /\ Opened(c, "me") /\ Refreshed
  /\ UNCHANGED <<chan, sock, loads, lost>>

\* handleAccept and handleDecline of the bell.
AnswerInBell(c) ==
  /\ asker[c] = "peer" /\ state[c] = "pending"
  /\ Accepted(c) \/ Gone(c)
  /\ Refreshed
  /\ UNCHANGED <<chan, sock, loads, lost>>

Reloaded ==
  /\ loads < MaxLoads /\ loads' = loads + 1
  /\ items' = <<>> /\ fetch' = [st |-> "asked", rows |-> <<>>]
  /\ chan' = <<>> /\ sock' = FALSE

\* The buttons of a pending conversation load the page again.
AnswerInPane(c) ==
  /\ asker[c] = "peer" /\ state[c] = "pending"
  /\ state' = [state EXCEPT ![c] = "accepted"] \/ state' = [state EXCEPT ![c] = "gone"]
  /\ UNCHANGED <<asker, at, new, clock>>
  /\ outbox' = outbox \cup {Told(IF state'[c] = "gone" THEN "declined" ELSE "accepted", c)}
  /\ Reloaded /\ lapsed' = {}
  /\ UNCHANGED lost

ReloadList == Reloaded /\ lapsed' = {} /\ UNCHANGED <<stored, outbox, lost>>

(***************************************************************************)
(* The snapshot and the socket                                             *)
(***************************************************************************)

\* listTopicsWithUnread, and the accepted ones of listConversations.
ListedTopics == [t \in Groups |-> [at |-> at[t], unread |-> new[t]]]
ListedTalks == [c \in {x \in Talks : state[x] = "accepted"} |-> [at |-> at[c], unread |-> 0]]

\* listChatItems
Listed ==
  [c \in Groups \cup DOMAIN ListedTalks |-> IF c \in Groups THEN ListedTopics[c] ELSE ListedTalks[c]]

Fetch ==
  /\ fetch.st = "asked"
  /\ fetch' = [st |-> "read", rows |-> Listed]
  /\ UNCHANGED <<stored, outbox, chan, sock, items, lapsed, loads, lost>>

\* setItems(chatList.chatItems), whatever events have made of the list.
Show ==
  /\ fetch.st = "read"
  /\ items' = fetch.rows /\ fetch' = [st |-> "done", rows |-> <<>>]
  \* What happened since it was read, with no socket to tell, is missing.
  /\ UNCHANGED <<stored, outbox, chan, sock, lapsed, loads, lost>>

\* /api/me has answered, or socket.io is back.
Connect ==
  /\ ~sock /\ sock' = TRUE
  /\ UNCHANGED <<stored, outbox, chan, items, fetch, lapsed, loads, lost>>

LoseSocket ==
  /\ sock /\ lost < MaxLost
  /\ sock' = FALSE /\ chan' = <<>> /\ lost' = lost + 1
  /\ lapsed' = lapsed \cup {chan[i].chat : i \in DOMAIN chan}
  /\ UNCHANGED <<stored, outbox, items, fetch, loads>>

\* apps/ws hands it to the sockets of the user that are there.
Relay(e) ==
  /\ e \in outbox /\ outbox' = outbox \ {e}
  /\ chan' = IF sock THEN Append(chan, e) ELSE chan
  /\ Changed({e.chat})
  /\ UNCHANGED <<stored, sock, items, fetch, loads, lost>>

\* Mutant of RowGone: a deletion is left to the refresh.
RowGoneDeclined(kind) == kind = "declined"

RowGone(kind) == kind \in {"declined", "deleted"}

\* A row bumped by a message; for a row that is not there, the refresh.
Bumped(e) ==
  IF e.chat \in DOMAIN items
  THEN [items EXCEPT ![e.chat] =
          [at |-> e.at, unread |-> IF e.mine THEN @.unread ELSE @.unread + 1]]
  ELSE items

HandleTold ==
  LET e == Head(chan) IN
  /\ chan # <<>> /\ chan' = Tail(chan)
  /\ items' = IF e.kind = "message" THEN Bumped(e)
              ELSE IF RowGone(e.kind) THEN Restrict(items, DOMAIN items \ {e.chat})
              ELSE items
  /\ lapsed' = IF fetch.st = "read" THEN lapsed \cup {e.chat} ELSE lapsed
  /\ UNCHANGED <<stored, outbox, sock, fetch, loads, lost>>

(***************************************************************************)
(* The specification                                                       *)
(***************************************************************************)

ListNext ==
  \/ Elsewhere
  \/ \E c \in Talks : Compose(c) \/ AnswerInBell(c) \/ AnswerInPane(c)
  \/ ReloadList \/ Fetch \/ Show \/ Connect \/ LoseSocket
  \/ \E e \in outbox : Relay(e)
  \/ HandleTold

ListSpec == ListInit /\ [][ListNext]_listVars

(***************************************************************************)
(* Properties                                                              *)
(***************************************************************************)

Settled == fetch.st = "done" /\ sock /\ outbox = {} /\ chan = <<>>

\* ChatListContext.tsx:221-226: a conversation that was declined or deleted, by
\* whomever and from wherever, leaves the list of a tab that was loaded and
\* connected all the while.
GoneLeaves ==
  Settled => \A c \in DOMAIN items \ lapsed : state[c] = "accepted"

\* DmComposeNewView.tsx:124, ChatListContext.tsx:113-116: the sidebar is told to
\* fetch again, so that the row of a new or newly accepted conversation appears,
\* in a tab that was loaded and connected all the while.
RowAppears ==
  Settled => \A c \in Talks \ lapsed : state[c] = "accepted" => c \in DOMAIN items
=============================================================================

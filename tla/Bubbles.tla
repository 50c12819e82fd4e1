------------------------------ MODULE Bubbles ------------------------------
(***************************************************************************)
(* The encrypted messages one tab shows of one channel: the subscription,  *)
(* the queue of envelopes to decrypt and the drains of components/         *)
(* ChatPane.tsx, over lib/chat-source/topic.ts and the edits of            *)
(* apps/ws/src/messages.ts.                                                *)
(*                                                                         *)
(* A ciphertext is <<message, version>>.  React state is what the updates  *)
(* have queued (list, plain); the refs, and what is on screen, are what    *)
(* the last render saw (seen).  One write of the user, and one drain, is   *)
(* under way at a time.                                                    *)
(***************************************************************************)
EXTENDS Naturals, Sequences, FiniteSets, Functions

CONSTANTS
  Msgs,
  Mine,       \* those this tab writes
  MaxVersion, \* bounds the edits of a message
  MaxDrops    \* bounds the losses of the connection

ASSUME BubblesAssumption ==
  /\ Mine \subseteq Msgs /\ MaxVersion \in Nat \ {0} /\ MaxDrops \in Nat

Ciphertexts == Msgs \X (1..MaxVersion)
Idle == [left |-> {}, at |-> <<>>, newly |-> <<>>, on |-> FALSE, first |-> FALSE]
NoWrite == [msg |-> "none", version |-> 0, pc |-> "none"]

VARIABLES
  row,      \* version of each message in the database, 0 before it is sent
  gone,     \* deleted_at is set
  keys,     \* ciphertexts whose room key this device has
  feed,     \* what the socket has yet to hand over
  up,       \* the socket is connected and has joined the channel
  drops,
  list,     \* messages: id -> version
  plain,    \* decryptedTexts: id -> version whose text it holds
  seen,     \* messagesRef and decryptedRef: list and plain of the last render
  queue,    \* pendingDecryptRef
  own,      \* ownPlaintextByCiphertextRef
  ready,    \* e2eeReady
  drain,    \* the loop over the queue: ids to do, ciphertext awaited, texts so far
  write     \* the user's send or edit

\* f, and g where f says nothing
Upon(f, g) == [m \in DOMAIN f \cup DOMAIN g |-> IF m \in DOMAIN f THEN f[m] ELSE g[m]]
One(m, v) == [x \in {m} |-> v]

server == <<row, gone>>
screen == <<list, plain, seen, queue, own>>
bubbleVars == <<server, keys, feed, up, drops, screen, ready, drain, write>>

Partial(S, T) == UNION {[D -> T] : D \in SUBSET S}

BubblesTypeOK ==
  /\ row \in [Msgs -> 0..MaxVersion] /\ gone \subseteq Msgs /\ keys \subseteq Ciphertexts
  /\ up \in BOOLEAN /\ ready \in BOOLEAN /\ drops \in 0..MaxDrops
  /\ {list, plain, seen.list, seen.plain} \subseteq Partial(Msgs, 1..MaxVersion)
  /\ queue \subseteq Msgs /\ own \subseteq Ciphertexts
  /\ drain.left \subseteq Msgs /\ drain.at \in Ciphertexts \cup {<<>>}
  /\ write.pc \in {"none", "sent", "lost", "done"}

BubblesInit ==
  /\ row = [m \in Msgs |-> 0] /\ gone = {}
  /\ keys = {c \in Ciphertexts : c[1] \in Mine}
  /\ feed = <<>> /\ up = TRUE /\ drops = 0
  /\ list = <<>> /\ plain = <<>> /\ seen = [list |-> <<>>, plain |-> <<>>]
  /\ queue = {} /\ own = {} /\ ready = FALSE /\ drain = Idle /\ write = NoWrite

(***************************************************************************)
(* The server                                                              *)
(***************************************************************************)

Live == {m \in Msgs : row[m] > 0} \ gone
Snapshot == [m \in Live |-> row[m]]
Event(kind, m) == [kind |-> kind, msg |-> m, version |-> row'[m], all |-> <<>>]
Hears(es) == feed' = IF up THEN feed \o es ELSE feed

\* Somebody else sends, or edits.
Written(m) ==
  /\ m \in Msgs \ Mine /\ m \notin gone /\ row[m] < MaxVersion
  /\ row' = [row EXCEPT ![m] = @ + 1]
  /\ Hears(<<Event(IF row[m] = 0 THEN "new" ELSE "edit", m)>>)
  /\ UNCHANGED <<gone, keys, up, drops, screen, ready, drain, write>>

\* Anyone who may, or autodelete.
Deleted(m) ==
  /\ m \in Live
  /\ gone' = gone \cup {m} /\ UNCHANGED row
  /\ Hears(<<Event("delete", m)>>)
  /\ UNCHANGED <<keys, up, drops, screen, ready, drain, write>>

\* The user's own: the event goes out before the acknowledgement.
Stored ==
  /\ write.pc \in {"sent", "lost"}
  /\ IF write.msg \in gone THEN UNCHANGED row
     ELSE row' = [row EXCEPT ![write.msg] = write.version]
  /\ LET event == IF write.msg \in gone THEN <<>>
                  ELSE <<Event(IF write.version = 1 THEN "new" ELSE "edit", write.msg)>>
         ack == IF write.pc = "sent"
                THEN <<[kind |-> "ack", msg |-> write.msg, version |-> write.version, all |-> <<>>]>>
                ELSE <<>>
     IN Hears(event \o ack)
  /\ write' = IF write.pc = "sent" THEN [write EXCEPT !.pc = "done"] ELSE NoWrite
  /\ UNCHANGED <<gone, keys, up, drops, screen, ready, drain>>

\* pollSync brings the room key of an envelope.
KeyArrives(c) ==
  /\ c \notin keys /\ c[2] <= row[c[1]]
  /\ keys' = keys \cup {c}
  /\ UNCHANGED <<server, feed, up, drops, screen, ready, drain, write>>

Drop ==
  /\ up /\ drops < MaxDrops
  /\ up' = FALSE /\ feed' = <<>> /\ drops' = drops + 1
  \* The request may have reached the server; its acknowledgement is lost.
  /\ write' = IF write.pc = "sent" THEN [write EXCEPT !.pc = "lost"] ELSE NoWrite
  /\ UNCHANGED <<server, keys, screen, ready, drain>>

\* TOPIC_JOIN again: the acknowledgement has the messages of now.
Reconnect ==
  /\ ~up /\ up' = TRUE
  /\ feed' = <<[kind |-> "snapshot", msg |-> "none", version |-> 0, all |-> Snapshot]>>
  /\ UNCHANGED <<server, keys, drops, screen, ready, drain, write>>

(***************************************************************************)
(* The subscription                                                        *)
(***************************************************************************)

\* onConnect and onNew: what was sent from here is known, the rest is queued,
\* unless a text is there.
Arrived(vs) ==
  LET fresh == DOMAIN vs \ DOMAIN seen.plain
      known == {m \in fresh : <<m, vs[m]>> \in own}
  IN
  /\ plain' = Upon([m \in known |-> vs[m]], plain)
  /\ queue' = queue \cup (fresh \ known)

OnConnect(e) ==
  /\ e.kind = "snapshot"
  /\ list' = e.all /\ Arrived(e.all)
  /\ UNCHANGED <<own, write>>

OnNew(e) ==
  /\ e.kind = "new"
  /\ list' = Upon(list, One(e.msg, e.version)) /\ Arrived(One(e.msg, e.version))
  /\ UNCHANGED <<own, write>>

OnEdit(e) ==
  LET m == e.msg IN
  /\ e.kind = "edit"
  /\ list' = IF m \in DOMAIN list THEN [list EXCEPT ![m] = e.version] ELSE list
  /\ IF <<m, e.version>> \in own
     THEN plain' = Upon(One(m, e.version), plain) /\ UNCHANGED queue
     ELSE plain' = Restrict(plain, DOMAIN plain \ {m}) /\ queue' = queue \cup {m}
  /\ UNCHANGED <<own, write>>

OnDelete(e) ==
  /\ e.kind = "delete"
  /\ list' = Restrict(list, DOMAIN list \ {e.msg})
  /\ queue' = queue \ {e.msg}
  /\ UNCHANGED <<plain, own, write>>

\* send() has nothing left to do; submitEdit() remembers its plaintext now.
OnAck(e) ==
  /\ e.kind = "ack"
  /\ IF e.version = 1 THEN UNCHANGED <<own, plain>>
     ELSE own' = own \cup {<<e.msg, e.version>>} /\ plain' = Upon(One(e.msg, e.version), plain)
  /\ write' = NoWrite
  /\ UNCHANGED <<list, queue>>

Handle ==
  /\ feed # <<>> /\ feed' = Tail(feed)
  /\ LET e == Head(feed) IN OnConnect(e) \/ OnNew(e) \/ OnEdit(e) \/ OnDelete(e) \/ OnAck(e)
  /\ UNCHANGED <<server, keys, up, drops, seen, ready, drain>>

Render ==
  /\ seen # [list |-> list, plain |-> plain]
  /\ seen' = [list |-> list, plain |-> plain]
  /\ UNCHANGED <<server, keys, feed, up, drops, list, plain, queue, own, ready, drain, write>>

(***************************************************************************)
(* What the user writes                                                    *)
(***************************************************************************)

\* Mutant of Remembered: nothing is, until the acknowledgement.
RememberedLater(m) == own

Remembered(m) == own \cup {<<m, 1>>}

\* sendInner(): the plaintext is remembered, then the envelope is emitted.
SendOwn(m) ==
  /\ ready /\ up /\ write = NoWrite
  /\ m \in Mine /\ row[m] = 0
  /\ write' = [msg |-> m, version |-> 1, pc |-> "sent"]
  /\ own' = Remembered(m)
  /\ UNCHANGED <<server, keys, feed, up, drops, list, plain, seen, queue, ready, drain>>

\* submitEdit() of a bubble on screen.
EditOwn(m) ==
  /\ ready /\ up /\ write = NoWrite
  /\ m \in Mine \cap DOMAIN seen.list /\ seen.list[m] < MaxVersion
  /\ write' = [msg |-> m, version |-> seen.list[m] + 1, pc |-> "sent"]
  /\ UNCHANGED <<server, keys, feed, up, drops, screen, ready, drain>>

(***************************************************************************)
(* The drains                                                              *)
(***************************************************************************)

Begun(ids, first) == drain' = [left |-> ids, at |-> <<>>, newly |-> <<>>, on |-> TRUE, first |-> first]

\* cc.init is through: the render that follows queues what has no text, and
\* drains the queue.
Ready ==
  /\ ~ready /\ ready' = TRUE
  /\ seen' = [list |-> list, plain |-> plain]
  /\ queue' = queue \cup (DOMAIN list \ DOMAIN plain)
  /\ Begun(queue', TRUE)
  /\ UNCHANGED <<server, keys, feed, up, drops, list, plain, own, write>>

\* The interval, after pollSync.
Tick ==
  /\ ready /\ ~drain.on /\ queue # {}
  /\ Begun(queue, FALSE)
  /\ UNCHANGED <<server, keys, feed, up, drops, screen, ready, write>>

\* The next id of the loop, down to the await of cc.decrypt; the first drain does
\* not ask whether there is a text by now.
DrainNext(m) ==
  /\ drain.on /\ drain.at = <<>> /\ m \in drain.left
  /\ IF m \in DOMAIN seen.list /\ (drain.first \/ m \notin DOMAIN seen.plain)
     THEN drain' = [drain EXCEPT !.left = @ \ {m}, !.at = <<m, seen.list[m]>>] /\ UNCHANGED queue
     ELSE drain' = [drain EXCEPT !.left = @ \ {m}] /\ queue' = queue \ {m}
  /\ UNCHANGED <<server, keys, feed, up, drops, list, plain, seen, own, ready, write>>

\* It returns a text, or throws for want of a key.
Decrypted ==
  LET m == drain.at[1] IN
  /\ drain.at # <<>>
  /\ IF drain.at \in keys
     THEN /\ drain' = [drain EXCEPT !.at = <<>>, !.newly = Upon(One(m, drain.at[2]), @)]
          /\ queue' = queue \ {m}
     ELSE drain' = [drain EXCEPT !.at = <<>>] /\ UNCHANGED queue
  /\ UNCHANGED <<server, keys, feed, up, drops, list, plain, seen, own, ready, write>>

DrainEnd ==
  /\ drain.on /\ drain.at = <<>> /\ drain.left = {}
  /\ plain' = Upon(drain.newly, plain)
  /\ drain' = Idle
  /\ UNCHANGED <<server, keys, feed, up, drops, list, seen, queue, own, ready, write>>

(***************************************************************************)
(* The specification                                                       *)
(***************************************************************************)

BubblesNext ==
  \/ \E m \in Msgs : Written(m) \/ Deleted(m) \/ SendOwn(m) \/ EditOwn(m) \/ DrainNext(m)
  \/ Stored \/ \E c \in Ciphertexts : KeyArrives(c)
  \/ Drop \/ Reconnect \/ Handle \/ Render
  \/ Ready \/ Tick \/ Decrypted \/ DrainEnd

BubblesSpec == BubblesInit /\ [][BubblesNext]_bubbleVars

(***************************************************************************)
(* Properties                                                              *)
(***************************************************************************)

\* getDisplayText: the version whose text a bubble shows, 0 for "(encrypted...)".
Displayed(m) ==
  IF m \in DOMAIN seen.plain THEN seen.plain[m]
  ELSE IF <<m, seen.list[m]>> \in own THEN seen.list[m] ELSE 0

\* ChatPane.tsx:1673-1680: what the user sent from this tab is readable in every
\* render that shows it, however soon the server relays it back, before and after
\* a lost connection, and whether or not its drain has run.
OwnSendShown ==
  \A m \in Mine \cap DOMAIN seen.list : seen.list[m] = 1 => Displayed(m) = 1

\* ChatPane.tsx:822-824: the text of an older version is dropped when the edit
\* arrives, so that once nothing is queued or under way no bubble shows it.
StaleDropped ==
  (feed = <<>> /\ ~drain.on /\ queue = {} /\ seen = [list |-> list, plain |-> plain])
    => \A m \in DOMAIN list : Displayed(m) \in {0, list[m]}
=============================================================================

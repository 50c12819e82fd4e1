------------------------------ MODULE TopicChat ------------------------------
(***************************************************************************)
(* The conversation of one topic: the socket handlers of apps/ws/src/      *)
(* index.ts over messages.ts, the purges of autodelete.ts, and the tabs    *)
(* that show the topic (ChatPane.tsx over lib/chat-source/topic.ts).       *)
(*                                                                         *)
(* A call is one request a tab sends, or one tick of the age sweep; its    *)
(* handler interleaves with the others at the statements it awaits.  Which *)
(* calls a behaviour makes is a workload, which bounds the model.  A call  *)
(* that is refused (rate limit, mute, schema) changes nothing.             *)
(***************************************************************************)
EXTENDS Naturals, Sequences, FiniteSets, FiniteSetsExt, Functions, TLC

CONSTANTS
  Tabs, Users, Options, Calls,
  Owner,      \* the account of a tab
  May,        \* permission -> the users who hold it
  Keep,       \* auto_delete_max_messages; 0: the topic is not in count mode
  Stored,     \* the messages at the start: id -> [by, text, gone]
  Polled,     \* the polls at the start: id -> [closed, multi, votes]
  Workloads   \* sequences of at most Cardinality(Calls) requests

Ids == 1..6
VARIABLES
  rows,     \* table messages: id -> [by, text, gone], gone: deleted_at is set
  lastId,   \* the sequence behind messages.id
  polls,    \* tables polls and poll_votes, by message id
  reacts,   \* table message_reactions: <<message, user>>, one emoji
  members,  \* table topic_members
  lastRead, \* topic_members.last_read_message_id
  signals,  \* key-rotation signals published for a user's join
  viewers,  \* users whose role passes the topic's view and read gates
  proofs,   \* users with a current password proof
  room,     \* tabs whose socket is in topic:<id>
  conn,     \* a tab: "off", "joining" or "live" (the join was acknowledged)
  view,     \* what a tab shows: [msgs : id -> [text, poll], reacts]
  chan,     \* events under way to a tab
  calls,
  \* history
  lapsed,   \* <<tab, message>>: changes overlapped each other, or a snapshot
  jammed,   \* a purge failed on a poll created meanwhile
  sent      \* the last message stored by MESSAGE_SEND

stored == <<rows, lastId, polls, reacts>>
access == <<members, signals, viewers, proofs>>
tabs == <<room, conn, view>>
vars == <<rows, lastId, polls, reacts, members, lastRead, signals, viewers, proofs,
          room, conn, view, chan, calls, lapsed, jammed, sent>>

NoPoll == [closed |-> FALSE, votes |-> <<>>]
Live == {m \in DOMAIN rows : ~rows[m].gone}
\* getPollData: the options with their counts
Tally(m) ==
  IF m \notin DOMAIN polls THEN NoPoll
  ELSE [closed |-> polls[m].closed,
        votes |-> [o \in Options |-> Cardinality({v \in polls[m].votes : v[2] = o})]]
\* listRecentMessages and listReactionsForTopic, for topics of fewer than 50 messages
Snapshot ==
  [msgs |-> [m \in Live |-> [text |-> rows[m].text, poll |-> Tally(m)]],
   reacts |-> {r \in reacts : r[1] \in Live}]

\* insertMessage
Inserted(u) == rows @@ (lastId + 1 :> [by |-> u, text |-> 0, gone |-> FALSE])
CanAccess(u) == u \in viewers /\ u \in proofs
MayChange(u, m, own, any) == u \in May[any] \/ (rows[m].by = u /\ u \in May[own])

First(w, t) == w[CHOOSE i \in DOMAIN w : w[i].tab = t /\ \A j \in 1..(i-1) : w[j].tab # t]
\* Open from the start: a tab that takes part and does not begin with a join.
Open(w, t) == (\E i \in DOMAIN w : w[i].tab = t) /\ First(w, t).op # "join"

Init ==
  \E w \in Workloads :
    /\ rows = Stored /\ polls = Polled /\ reacts = {}
    /\ lastId = Cardinality(DOMAIN Stored)
    /\ calls = [i \in Calls |->
         IF i <= Len(w) THEN w[i] @@ [pc |-> "todo", seen |-> {}, lost |-> FALSE]
         ELSE [tab |-> "none", op |-> "none", pc |-> "done", seen |-> {}, lost |-> FALSE]]
    /\ room = {t \in Tabs : Open(w, t)}
    /\ conn = [t \in Tabs |-> IF Open(w, t) THEN "live" ELSE "off"]
    /\ members = {Owner[t] : t \in room}
    /\ signals = [u \in Users |-> 0] /\ lastRead = [u \in Users |-> 0]
    /\ viewers = Users /\ proofs = Users
    /\ view = [t \in Tabs |-> IF t \in room THEN Snapshot ELSE [msgs |-> <<>>, reacts |-> {}]]
    /\ chan = [t \in Tabs |-> <<>>]
    /\ lapsed = {} /\ jammed = FALSE /\ sent = 0

(***************************************************************************)
(* Handlers                                                                *)
(***************************************************************************)
At(i, op, pc) == calls[i].op = op /\ calls[i].pc = pc
User(i) == Owner[calls[i].tab]
Goto(i, pc, seen) == calls' = [calls EXCEPT ![i].pc = pc, ![i].seen = seen]
Done(i) == calls' = [calls EXCEPT ![i].pc = "done"]
\* A tab asks about a message it shows, through a socket it has.
Asked(i, op) == At(i, op, "todo") /\ conn[calls[i].tab] # "off"
Names(i) == calls[i].id \in DOMAIN view[calls[i].tab].msgs

\* A handler that has changed message m and has yet to say so.
Owes(i, m) ==
  /\ calls[i].pc \in {"emit", "tally", "removed"}
  /\ m = calls[i].id \/ (calls[i].pc = "removed" /\ m \in calls[i].seen)
Joining(t) == {j \in Calls : calls[j].tab = t /\ At(j, "join", "ack") /\ ~calls[j].lost}
\* io.to(topic).emit
EmitAll(i, es) ==
  /\ chan' = [t \in Tabs |-> IF t \in room THEN chan[t] \o es ELSE chan[t]]
  /\ lapsed' = lapsed
       \cup {<<t, es[k].id>> : t \in {x \in room : Joining(x) # {}}, k \in DOMAIN es}
       \cup UNION {Tabs \X {es[k].id} : k \in {x \in DOMAIN es :
                                           \E j \in Calls \ {i} : Owes(j, es[x].id)}}
Emit(i, e) == EmitAll(i, <<e>>)

\* io.on("connect") of the source, TOPIC_JOIN: the gates of buildTopicBootstrap
JoinGate(i) ==
  /\ At(i, "join", "todo") /\ conn[calls[i].tab] = "off"
  /\ conn' = [conn EXCEPT ![calls[i].tab] = "joining"]
  /\ IF CanAccess(User(i)) THEN Goto(i, "member", {}) ELSE Done(i)
  /\ UNCHANGED <<stored, access, room, view, lastRead, chan, lapsed, jammed, sent>>

\* ensureTopicMembership: only the insertion that found no row signals
JoinMember(i) ==
  /\ At(i, "join", "member")
  /\ members' = members \cup {User(i)}
  /\ signals' = [signals EXCEPT ![User(i)] = @ + IF User(i) \in members THEN 0 ELSE 1]
  /\ Goto(i, "enter", {})
  /\ UNCHANGED <<stored, viewers, proofs, tabs, lastRead, chan, lapsed, jammed, sent>>

JoinEnter(i) ==
  /\ At(i, "join", "enter")
  /\ room' = IF calls[i].lost THEN room ELSE room \cup {calls[i].tab}
  /\ Goto(i, "read", {})
  /\ UNCHANGED <<stored, access, conn, view, lastRead, chan, lapsed, jammed, sent>>

JoinRead(i) ==
  /\ At(i, "join", "read")
  /\ Goto(i, "ack", Snapshot)
  /\ UNCHANGED <<stored, access, tabs, lastRead, chan, lapsed, jammed, sent>>

JoinAck(i) ==
  /\ At(i, "join", "ack") /\ Done(i)
  /\ LET ack == [kind |-> "ack", id |-> 0, snap |-> calls[i].seen] IN
       chan' = IF calls[i].lost THEN chan ELSE [chan EXCEPT ![calls[i].tab] = Append(@, ack)]
  /\ UNCHANGED <<stored, access, tabs, lastRead, lapsed, jammed, sent>>

\* A closed tab leaves the topic; a lost connection ends its socket.  A handler
\* that still serves the socket goes on for nobody.
Hangup(i) ==
  /\ Asked(i, "leave")
  /\ LET t == calls[i].tab IN
       /\ room' = room \ {t}
       /\ conn' = [conn EXCEPT ![t] = "off"]
       /\ chan' = [chan EXCEPT ![t] = <<>>]
       /\ calls' = [j \in Calls |->
            [calls[j] EXCEPT !.pc = IF j = i THEN "done" ELSE @,
                             !.lost = @ \/ (calls[j].tab = t /\ calls[j].pc # "todo")]]
  /\ UNCHANGED <<stored, access, view, lastRead, lapsed, jammed, sent>>

\* MESSAGE_SEND up to insertMessage
SendInsert(i) ==
  /\ Asked(i, "send") /\ CanAccess(User(i)) /\ User(i) \in May["post"]
  /\ lastId' = lastId + 1 /\ sent' = lastId'
  /\ rows' = Inserted(User(i))
  /\ calls' = [calls EXCEPT ![i].pc = "emit", ![i].id = lastId']
  /\ UNCHANGED <<polls, reacts, access, tabs, lastRead, chan, lapsed, jammed>>

\* MESSAGE_NEW and the acknowledgement; then the purge starts, unawaited
SendEmit(i) ==
  /\ At(i, "send", "emit")
  /\ Emit(i, [kind |-> "new", id |-> calls[i].id, text |-> 0, poll |-> NoPoll])
  /\ IF Keep > 0 THEN Goto(i, "keep", {}) ELSE Done(i)
  /\ UNCHANGED <<stored, access, tabs, lastRead, jammed, sent>>

\* createPollMessage: the message, then its poll and options
PollMessage(i) ==
  /\ Asked(i, "poll") /\ User(i) \in May["poll"] /\ CanAccess(User(i))
  /\ lastId' = lastId + 1
  /\ rows' = Inserted(User(i))
  /\ calls' = [calls EXCEPT ![i].pc = "poll", ![i].id = lastId']
  /\ UNCHANGED <<polls, reacts, access, tabs, lastRead, chan, lapsed, jammed, sent>>

PollInsert(i) ==
  /\ At(i, "poll", "poll")
  /\ \E multi \in BOOLEAN :
       IF calls[i].id \in DOMAIN rows
       THEN /\ polls' = polls @@ (calls[i].id :> [closed |-> FALSE, multi |-> multi, votes |-> {}])
            /\ Goto(i, "emit", {})
       ELSE Done(i) /\ UNCHANGED polls  \* purged: the foreign key refuses the poll
  /\ UNCHANGED <<rows, lastId, reacts, access, tabs, lastRead, chan, lapsed, jammed, sent>>

PollEmit(i) ==
  /\ At(i, "poll", "emit") /\ Done(i)
  /\ Emit(i, [kind |-> "new", id |-> calls[i].id, text |-> 0,
              poll |-> [closed |-> FALSE, votes |-> [o \in Options |-> 0]]])
  /\ UNCHANGED <<stored, access, tabs, lastRead, jammed, sent>>

\* MESSAGE_EDIT_REQ: the owner and the row are read, then the row is written by id
EditRead(i) ==
  /\ Asked(i, "edit") /\ Names(i)
  /\ IF CanAccess(User(i)) /\ calls[i].id \in Live /\ MayChange(User(i), calls[i].id, "editOwn", "editAny")
     THEN Goto(i, "write", {}) ELSE Done(i)
  /\ UNCHANGED <<stored, access, tabs, lastRead, chan, lapsed, jammed, sent>>

EditWrite(i) ==
  /\ At(i, "edit", "write")
  /\ rows' = [m \in DOMAIN rows |-> IF m = calls[i].id THEN [rows[m] EXCEPT !.text = i] ELSE rows[m]]
  /\ \/ Goto(i, "emit", {})
     \/ calls[i].id \notin DOMAIN rows /\ Done(i)  \* purged before its old text was archived
  /\ UNCHANGED <<lastId, polls, reacts, access, tabs, lastRead, chan, lapsed, jammed, sent>>

EditEmit(i) ==
  /\ At(i, "edit", "emit") /\ Done(i)
  /\ Emit(i, [kind |-> "edit", id |-> calls[i].id, text |-> i])
  /\ UNCHANGED <<stored, access, tabs, lastRead, jammed, sent>>

\* MESSAGE_DELETE_REQ, softDeleteMessage
DeleteRow(i) ==
  /\ Asked(i, "delete") /\ Names(i)
  /\ IF CanAccess(User(i)) /\ calls[i].id \in Live /\ MayChange(User(i), calls[i].id, "deleteOwn", "deleteAny")
     THEN rows' = [rows EXCEPT ![calls[i].id].gone = TRUE] /\ Goto(i, "emit", {})
     ELSE Done(i) /\ UNCHANGED rows
  /\ UNCHANGED <<lastId, polls, reacts, access, tabs, lastRead, chan, lapsed, jammed, sent>>

DeleteEmit(i) ==
  /\ At(i, "delete", "emit") /\ Done(i)
  /\ Emit(i, [kind |-> "delete", id |-> calls[i].id])
  /\ UNCHANGED <<stored, access, tabs, lastRead, jammed, sent>>

\* REACTION_TOGGLE, toggleReaction: a read, then an INSERT or a DELETE
ReactRead(i) ==
  /\ Asked(i, "react") /\ Names(i)
  /\ IF calls[i].id \in DOMAIN rows /\ CanAccess(User(i))
     THEN Goto(i, "toggle", {r \in reacts : r = <<calls[i].id, User(i)>>}) ELSE Done(i)
  /\ UNCHANGED <<stored, access, tabs, lastRead, chan, lapsed, jammed, sent>>

ReactWrite(i) ==
  /\ At(i, "react", "toggle")
  /\ LET r == <<calls[i].id, User(i)>> IN
       \/ /\ calls[i].seen # {}
          /\ reacts' = reacts \ {r} /\ Goto(i, "emit", {"remove"})
       \/ /\ calls[i].seen = {} /\ r \notin reacts /\ r[1] \in DOMAIN rows
          /\ reacts' = reacts \cup {r} /\ Goto(i, "emit", {"add"})
       \/ /\ calls[i].seen = {} /\ (r \in reacts \/ r[1] \notin DOMAIN rows)
          /\ Done(i) /\ UNCHANGED reacts  \* a key violation
  /\ UNCHANGED <<rows, lastId, polls, access, tabs, lastRead, chan, lapsed, jammed, sent>>

ReactEmit(i) ==
  /\ At(i, "react", "emit") /\ Done(i)
  /\ Emit(i, [kind |-> "react", id |-> calls[i].id, user |-> User(i), add |-> calls[i].seen = {"add"}])
  /\ UNCHANGED <<stored, access, tabs, lastRead, jammed, sent>>

\* POLL_VOTE, castPollVote: the poll is read, my votes deleted, the new ones inserted
VoteRead(i) ==
  /\ Asked(i, "vote") /\ Names(i)
  /\ IF /\ calls[i].id \in DOMAIN polls /\ CanAccess(User(i))
        /\ ~polls[calls[i].id].closed
        /\ polls[calls[i].id].multi \/ Cardinality(calls[i].opt) <= 1
     THEN Goto(i, "clear", {}) ELSE Done(i)
  /\ UNCHANGED <<stored, access, tabs, lastRead, chan, lapsed, jammed, sent>>

Votes(i) == polls[calls[i].id].votes
SetVotes(i, vs) ==
  polls' = [m \in DOMAIN polls |->
    IF m = calls[i].id THEN [polls[m] EXCEPT !.votes = vs] ELSE polls[m]]

VoteClear(i) ==
  /\ At(i, "vote", "clear")
  /\ SetVotes(i, {v \in Votes(i) : v[1] # User(i)})
  /\ Goto(i, "insert", {})
  /\ UNCHANGED <<rows, lastId, reacts, access, tabs, lastRead, chan, lapsed, jammed, sent>>

VoteInsert(i) ==
  /\ At(i, "vote", "insert")
  /\ LET mine == {User(i)} \X calls[i].opt
     IN IF calls[i].id \in DOMAIN polls /\ Votes(i) \cap mine = {}
        THEN SetVotes(i, Votes(i) \cup mine) /\ Goto(i, "tally", {})
        ELSE Done(i) /\ UNCHANGED polls  \* a key violation: the request fails
  /\ UNCHANGED <<rows, lastId, reacts, access, tabs, lastRead, chan, lapsed, jammed, sent>>

\* POLL_CLOSE, closePollById
CloseWrite(i) ==
  /\ Asked(i, "close") /\ Names(i)
  /\ IF User(i) \in May["poll"] /\ calls[i].id \in DOMAIN polls /\ CanAccess(User(i))
     THEN polls' = [polls EXCEPT ![calls[i].id].closed = TRUE] /\ Goto(i, "tally", {})
     ELSE Done(i) /\ UNCHANGED polls
  /\ UNCHANGED <<rows, lastId, reacts, access, tabs, lastRead, chan, lapsed, jammed, sent>>

\* getPollData after a vote or a close: the counts that will be broadcast
TallyRead(i) ==
  /\ calls[i].pc = "tally"
  /\ IF calls[i].id \in DOMAIN polls THEN Goto(i, "emit", Tally(calls[i].id)) ELSE Done(i)
  /\ UNCHANGED <<stored, access, tabs, lastRead, chan, lapsed, jammed, sent>>

TallyEmit(i) ==
  /\ calls[i].op \in {"vote", "close"} /\ calls[i].pc = "emit" /\ Done(i)
  /\ Emit(i, [kind |-> "tally", id |-> calls[i].id,
              poll |-> [calls[i].seen EXCEPT !.closed = @ \/ calls[i].op = "close"]])
  /\ UNCHANGED <<stored, access, tabs, lastRead, jammed, sent>>

\* TOPIC_READ, setLastReadMessage: whatever the tab says, also an older message
MarkRead(i) ==
  /\ Asked(i, "read") /\ Done(i)
  /\ lastRead' = IF CanAccess(User(i)) /\ User(i) \in members
                 THEN [lastRead EXCEPT ![User(i)] = calls[i].id] ELSE lastRead
  /\ UNCHANGED <<stored, access, tabs, chan, lapsed, jammed, sent>>

\* An administrator gives the topic a new password, or takes a role away.
Withdraw(i) ==
  /\ At(i, "withdraw", "todo") /\ Done(i)
  /\ \/ viewers' = viewers \ {User(i)} /\ UNCHANGED proofs
     \/ proofs' = {} /\ UNCHANGED viewers
  /\ UNCHANGED <<stored, members, signals, tabs, lastRead, chan, lapsed, jammed, sent>>

\* POST /api/topics/[id]/verify-password
VerifyPassword(i) ==
  /\ At(i, "prove", "todo") /\ Done(i)
  /\ proofs' = IF User(i) \in viewers THEN proofs \cup {User(i)} ELSE proofs
  /\ UNCHANGED <<stored, members, signals, viewers, tabs, lastRead, chan, lapsed, jammed, sent>>

(***************************************************************************)
(* Purges                                                                  *)
(***************************************************************************)
Newest(S, n) == {m \in S : Cardinality({x \in S : x > m}) < n}

\* purgeCountModeForTopic: the ids to keep, then the others
PurgeKeep(i) ==
  /\ At(i, "send", "keep")
  /\ IF Cardinality(Live) < Keep THEN Done(i) ELSE Goto(i, "find", Newest(Live, Keep))
  /\ UNCHANGED <<stored, access, tabs, lastRead, chan, lapsed, jammed, sent>>

PurgeFind(i) ==
  /\ At(i, "send", "find")
  /\ LET old == DOMAIN rows \ calls[i].seen IN
       IF old = {} THEN Done(i) ELSE Goto(i, "polls", old)
  /\ UNCHANGED <<stored, access, tabs, lastRead, chan, lapsed, jammed, sent>>

\* purgeAgeMode, a tick of the elected worker: the messages up to some age
SweepFind(i) ==
  /\ At(i, "sweep", "todo")
  /\ \E age \in Ids :
       LET old == {m \in DOMAIN rows : m <= age} IN
         IF old = {} THEN Done(i) ELSE Goto(i, "polls", old)
  /\ UNCHANGED <<stored, access, tabs, lastRead, chan, lapsed, jammed, sent>>

PurgePolls(i) ==
  /\ calls[i].pc = "polls"
  /\ polls' = [m \in DOMAIN polls \ calls[i].seen |-> polls[m]]
  /\ Goto(i, "rows", calls[i].seen)
  /\ UNCHANGED <<rows, lastId, reacts, access, tabs, lastRead, chan, lapsed, jammed, sent>>

\* polls.message_id has no ON DELETE: one poll created meanwhile fails the whole statement
PurgeRows(i) ==
  /\ calls[i].pc = "rows"
  /\ IF calls[i].seen \cap DOMAIN polls # {}
     THEN jammed' = TRUE /\ Done(i) /\ UNCHANGED <<rows, reacts>>
     ELSE /\ rows' = [m \in DOMAIN rows \ calls[i].seen |-> rows[m]]
          /\ reacts' = {r \in reacts : r[1] \notin calls[i].seen}
          /\ Goto(i, "removed", calls[i].seen \cap DOMAIN rows)
          /\ UNCHANGED jammed
  /\ UNCHANGED <<lastId, polls, access, tabs, lastRead, chan, lapsed, sent>>

\* (a mistaken purge that tells nobody)
PurgeQuietly(i) ==
  /\ calls[i].pc = "removed" /\ Done(i)
  /\ UNCHANGED <<stored, access, tabs, lastRead, chan, lapsed, jammed, sent>>

PurgeEmit(i) ==
  /\ calls[i].pc = "removed" /\ Done(i)
  /\ EmitAll(i, [k \in 1..Cardinality(calls[i].seen) |->
       [kind |-> "delete", id |-> CHOOSE m \in calls[i].seen :
                                    Cardinality({x \in calls[i].seen : x < m}) = k - 1]])
  /\ UNCHANGED <<stored, access, tabs, lastRead, jammed, sent>>

(***************************************************************************)
(* The tab: the handlers ChatPane subscribes                               *)
(***************************************************************************)
OnConnect(v, e) == e.snap  \* replaces everything

OnNew(v, e) ==
  IF e.id \in DOMAIN v.msgs THEN v
  ELSE [v EXCEPT !.msgs = @ @@ (e.id :> [text |-> e.text, poll |-> e.poll])]

OnEdit(v, e) ==
  IF e.id \in DOMAIN v.msgs THEN [v EXCEPT !.msgs[e.id].text = e.text] ELSE v

OnDelete(v, e) ==
  [msgs |-> [m \in DOMAIN v.msgs \ {e.id} |-> v.msgs[m]],
   reacts |-> {r \in v.reacts : r[1] # e.id}]

OnReaction(v, e) ==
  [v EXCEPT !.reacts = IF e.add THEN @ \cup {<<e.id, e.user>>} ELSE @ \ {<<e.id, e.user>>}]

\* POLL_UPDATED carries no version: the last one to arrive stays
OnPoll(v, e) ==
  IF e.id \in DOMAIN v.msgs /\ v.msgs[e.id].poll # NoPoll
  THEN [v EXCEPT !.msgs[e.id].poll = e.poll] ELSE v

Shows(v, e) ==
  CASE e.kind = "ack" -> OnConnect(v, e)
    [] e.kind = "new" -> OnNew(v, e)
    [] e.kind = "edit" -> OnEdit(v, e)
    [] e.kind = "delete" -> OnDelete(v, e)
    [] e.kind = "react" -> OnReaction(v, e)
    [] e.kind = "tally" -> OnPoll(v, e)

Deliver(t) ==
  /\ chan[t] # <<>>
  /\ chan' = [chan EXCEPT ![t] = Tail(@)]
  /\ view' = [view EXCEPT ![t] = Shows(@, Head(chan[t]))]
  /\ conn' = IF Head(chan[t]).kind = "ack" THEN [conn EXCEPT ![t] = "live"] ELSE conn
  /\ UNCHANGED <<stored, access, room, lastRead, calls, lapsed, jammed, sent>>

Next ==
  \/ \E i \in Calls :
       \/ JoinGate(i) \/ JoinMember(i) \/ JoinEnter(i) \/ JoinRead(i) \/ JoinAck(i) \/ Hangup(i)
       \/ SendInsert(i) \/ SendEmit(i) \/ PollMessage(i) \/ PollInsert(i) \/ PollEmit(i)
       \/ EditRead(i) \/ EditWrite(i) \/ EditEmit(i) \/ DeleteRow(i) \/ DeleteEmit(i)
       \/ ReactRead(i) \/ ReactWrite(i) \/ ReactEmit(i)
       \/ VoteRead(i) \/ VoteClear(i) \/ VoteInsert(i)
       \/ CloseWrite(i) \/ TallyRead(i) \/ TallyEmit(i)
       \/ MarkRead(i) \/ Withdraw(i) \/ VerifyPassword(i)
       \/ PurgeKeep(i) \/ PurgeFind(i) \/ SweepFind(i) \/ PurgePolls(i) \/ PurgeRows(i) \/ PurgeEmit(i)
  \/ \E t \in Tabs : Deliver(t)
Spec == Init /\ [][Next]_vars

(***************************************************************************)
(* Properties                                                              *)
(***************************************************************************)
AtRest == \A i \in Calls : calls[i].pc \in {"todo", "done"}

\* Once every handler is done and every event has arrived, a tab that was
\* acknowledged shows exactly what is stored: the messages that are not
\* deleted, their text, their reactions and their polls.  The exceptions are
\* the messages whose changes overlapped each other or the tab's own join.
ViewAgrees ==
  \A t \in Tabs :
    (AtRest /\ ~jammed /\ conn[t] = "live" /\ chan[t] = <<>>) =>
      LET same == {m \in Ids : <<t, m>> \notin lapsed} IN
        /\ Restrict(view[t].msgs, same \cap DOMAIN view[t].msgs) = Restrict(Snapshot.msgs, same \cap Live)
        /\ {r \in view[t].reacts : r[1] \in same \cap DOMAIN view[t].msgs}
             = {r \in Snapshot.reacts : r[1] \in same}

=============================================================================

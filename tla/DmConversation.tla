--------------------------- MODULE DmConversation ---------------------------
(***************************************************************************)
(* apps/web/lib/dm.ts and the routes under apps/web/app/api/dm: the direct *)
(* messages of one pair of users, from the request to its end.             *)
(*                                                                         *)
(* A call is one request being served; none of the handlers opens a        *)
(* transaction, so each statement is a step and other calls run in         *)
(* between.  Time is the number of messages inserted so far: created_at of *)
(* the n-th message is n, and a cleared_at taken after it is n as well.    *)
(***************************************************************************)
EXTENDS Integers, FiniteSets

CONSTANTS
  Users,     \* the two users of the pair
  Convs,     \* ids the pair's conversations can get, one after the other
  Calls,
  CalmMsgs,  \* messages inserted into one conversation, in a calm behaviour
  RaceMsgs,  \* the same in any other
  Modes,     \* {TRUE}: calm behaviours, {FALSE}: the others, BOOLEAN: all
  NoUser, NoConv

ASSUME DmAssumption ==
  /\ Cardinality(Users) = 2
  /\ CalmMsgs \in Nat /\ RaceMsgs \in Nat
  /\ Modes \subseteq BOOLEAN
  /\ NoUser \notin Users
  /\ NoConv \notin Convs

VARIABLES
  state,    \* dm_conversations.state; "none" before, "gone" after the row
  init,     \* initiator of a conversation
  members,  \* conversations whose two dm_participants rows exist
  msgs,     \* number of dm_messages
  lastAt,   \* last_message_at
  cleared,  \* cleared_at of each participant, -1 when null
  blocks,   \* blockers of the pair's dm_blocks rows
  unread,   \* conversations with an unread dm_request notification
  told,     \* conversations with a dm_request_declined notification
  call,
  calm      \* requests neither overlap nor fail; decided once and for all

vars == <<state, init, members, msgs, lastAt, cleared, blocks, unread, told, call, calm>>
row == <<state, init>>
thread == <<msgs, lastAt>>
notes == <<unread, told>>

PC == {"idle", "find", "create", "members", "first", "firstTouch", "notify",
       "check", "send", "touch", "accept", "acceptRead",
       "declineRead", "declineNote", "decline", "block", "blockState"}
Call == [pc : PC, who : Users \cup {NoUser}, conv : Convs \cup {NoConv}, at : Nat]
Idle == [pc |-> "idle", who |-> NoUser, conv |-> NoConv, at |-> 0]

TypeOK ==
  /\ state \in [Convs -> {"none", "pending", "accepted", "blocked", "gone"}]
  /\ init \in [Convs -> Users \cup {NoUser}]
  /\ members \subseteq Convs /\ unread \subseteq Convs /\ told \subseteq Convs
  /\ msgs \in [Convs -> Nat]
  /\ lastAt \in [Convs -> Nat]
  /\ cleared \in [Convs -> [Users -> Nat \cup {-1}]]
  /\ blocks \subseteq Users
  /\ call \in [Calls -> Call]
  /\ calm \in BOOLEAN

Live(c) == state[c] \in {"pending", "accepted", "blocked"}

Init ==
  /\ state = [c \in Convs |-> "none"]
  /\ init = [c \in Convs |-> NoUser]
  /\ members = {}
  /\ msgs = [c \in Convs |-> 0]
  /\ lastAt = [c \in Convs |-> 0]
  /\ cleared = [c \in Convs |-> [u \in Users |-> -1]]
  /\ blocks = {}
  /\ unread = {} /\ told = {}
  /\ call = [p \in Calls |-> Idle]
  /\ calm \in Modes

Quiet == \A p \in Calls : call[p] = Idle

Begin(p, pc, u, c) ==
  /\ call[p] = Idle
  /\ calm => Quiet
  /\ call' = [call EXCEPT ![p] = [pc |-> pc, who |-> u, conv |-> c, at |-> 0]]
At(p, pc) == call[p].pc = pc
Goto(p, pc) == call' = [call EXCEPT ![p].pc = pc]
Done(p) == call' = [call EXCEPT ![p] = Idle]

\* The caller is a participant of a conversation that exists.
Member(c) == c \in members /\ Live(c)

(***************************************************************************)
(* openConversation                                                        *)
(***************************************************************************)

\* isBlockedBetween comes first.
OpenStart(p, u) ==
  /\ blocks = {}
  /\ Begin(p, "find", u, NoConv)
  /\ UNCHANGED <<row, members, thread, cleared, blocks, notes, calm>>

\* An existing conversation is returned as it is.
OpenFind(p) ==
  /\ At(p, "find")
  /\ IF \E c \in Convs : Live(c) THEN Done(p) ELSE Goto(p, "create")
  /\ UNCHANGED <<row, members, thread, cleared, blocks, notes, calm>>

\* Mutant of OpenCreate: there is no unique index on dm_key.
OpenCreateAnyway(p) == \E c \in Convs :
  /\ At(p, "create")
  /\ state[c] = "none"
  /\ state' = [state EXCEPT ![c] = "pending"]
  /\ init' = [init EXCEPT ![c] = call[p].who]
  /\ call' = [call EXCEPT ![p].pc = "members", ![p].conv = c]
  /\ UNCHANGED <<members, thread, cleared, blocks, notes, calm>>

\* INSERT .. ON CONFLICT (dm_key) DO NOTHING; the loser returns the row found.
OpenCreate(p) ==
  /\ At(p, "create")
  /\ \/ /\ \E c \in Convs : Live(c)
        /\ Done(p)
        /\ UNCHANGED row
     \/ /\ ~\E c \in Convs : Live(c)
        /\ \E c \in Convs :
             /\ state[c] = "none"
             /\ state' = [state EXCEPT ![c] = "pending"]
             /\ init' = [init EXCEPT ![c] = call[p].who]
             /\ call' = [call EXCEPT ![p].pc = "members", ![p].conv = c]
  /\ UNCHANGED <<members, thread, cleared, blocks, notes, calm>>

OpenMembers(p) ==
  /\ At(p, "members")
  /\ members' = members \cup {call[p].conv}
  /\ Goto(p, "first")
  /\ UNCHANGED <<row, thread, cleared, blocks, notes, calm>>

\* insertDmMessage, first statement: the foreign key needs the conversation.
InsertMessage(p, pc, next) ==
  LET c == call[p].conv IN
  /\ At(p, pc)
  /\ msgs[c] < IF calm THEN CalmMsgs ELSE RaceMsgs
  /\ IF Live(c)
     THEN /\ msgs' = [msgs EXCEPT ![c] = @ + 1]
          /\ call' = [call EXCEPT ![p].pc = next, ![p].at = msgs[c] + 1]
     ELSE Done(p) /\ UNCHANGED msgs
  /\ UNCHANGED <<row, members, lastAt, cleared, blocks, notes, calm>>

\* insertDmMessage, second statement: last_message_at of the row just written.
TouchConversation(p, pc) ==
  LET c == call[p].conv IN
  /\ At(p, pc)
  /\ lastAt' = IF Live(c) THEN [lastAt EXCEPT ![c] = call[p].at] ELSE lastAt
  /\ UNCHANGED <<row, members, msgs, cleared, blocks, notes, calm>>

OpenFirst(p) == InsertMessage(p, "first", "firstTouch")
OpenTouch(p) == TouchConversation(p, "firstTouch") /\ Goto(p, "notify")

\* emitDmRequestNotification, unless an unread one is there.
OpenNotify(p) ==
  /\ At(p, "notify")
  /\ unread' = unread \cup {call[p].conv}
  /\ Done(p)
  /\ UNCHANGED <<row, members, thread, cleared, blocks, told, calm>>

(***************************************************************************)
(* POST /api/dm/[id]/messages                                              *)
(***************************************************************************)

\* assertParticipant, then the state of the conversation.
SendStart(p, u, c) ==
  /\ Member(c)
  /\ state[c] # "blocked"
  /\ Begin(p, "check", u, c)
  /\ UNCHANGED <<row, members, thread, cleared, blocks, notes, calm>>

\* Mutant of SendCheck: the state of the conversation is trusted alone.
SendUnchecked(p) ==
  /\ At(p, "check")
  /\ Goto(p, "send")
  /\ UNCHANGED <<row, members, thread, cleared, blocks, notes, calm>>

\* "double-check live block state between the two users".
SendCheck(p) ==
  /\ At(p, "check")
  /\ IF blocks = {} THEN Goto(p, "send") ELSE Done(p)
  /\ UNCHANGED <<row, members, thread, cleared, blocks, notes, calm>>

SendInsert(p) == InsertMessage(p, "send", "touch")

\* Mutant of SendTouch: only the first message sets last_message_at.
SendTouchOnce(p) ==
  LET c == call[p].conv IN
  /\ At(p, "touch")
  /\ lastAt' = IF lastAt[c] = 0 THEN [lastAt EXCEPT ![c] = call[p].at] ELSE lastAt
  /\ Done(p)
  /\ UNCHANGED <<row, members, msgs, cleared, blocks, notes, calm>>

SendTouch(p) == TouchConversation(p, "touch") /\ Done(p)

(***************************************************************************)
(* accept, decline, block, DELETE                                          *)
(***************************************************************************)

\* Only the recipient of a request that is pending goes on.
AcceptStart(p, u, c) ==
  /\ Member(c)
  /\ state[c] = "pending"
  /\ init[c] # u
  /\ Begin(p, "accept", u, c)
  /\ UNCHANGED <<row, members, thread, cleared, blocks, notes, calm>>

\* The update is by id only.
AcceptSet(p) ==
  LET c == call[p].conv IN
  /\ At(p, "accept")
  /\ state' = IF Live(c) THEN [state EXCEPT ![c] = "accepted"] ELSE state
  /\ Goto(p, "acceptRead")
  /\ UNCHANGED <<init, members, thread, cleared, blocks, notes, calm>>

AcceptRead(p) ==
  /\ At(p, "acceptRead")
  /\ unread' = unread \ {call[p].conv}
  /\ Done(p)
  /\ UNCHANGED <<row, members, thread, cleared, blocks, told, calm>>

DeclineStart(p, u, c) ==
  /\ Member(c)
  /\ init[c] # u
  /\ Begin(p, "declineRead", u, c)
  /\ UNCHANGED <<row, members, thread, cleared, blocks, notes, calm>>

DeclineRead(p) ==
  /\ At(p, "declineRead")
  /\ unread' = unread \ {call[p].conv}
  /\ Goto(p, "declineNote")
  /\ UNCHANGED <<row, members, thread, cleared, blocks, told, calm>>

DeclineNote(p) ==
  /\ At(p, "declineNote")
  /\ told' = told \cup {call[p].conv}
  /\ Goto(p, "decline")
  /\ UNCHANGED <<row, members, thread, cleared, blocks, unread, calm>>

\* DELETE of the row; participants and messages go by cascade.
Cascade(c) ==
  /\ state' = IF Live(c) THEN [state EXCEPT ![c] = "gone"] ELSE state
  /\ members' = members \ {c}
  /\ msgs' = [msgs EXCEPT ![c] = 0]
  /\ lastAt' = [lastAt EXCEPT ![c] = 0]
  /\ cleared' = [cleared EXCEPT ![c] = [u \in Users |-> -1]]
  /\ UNCHANGED <<init, blocks, notes, calm>>

DeclineDelete(p) == At(p, "decline") /\ Cascade(call[p].conv) /\ Done(p)

BlockStart(p, u, c) ==
  /\ Member(c)
  /\ Begin(p, "block", u, c)
  /\ UNCHANGED <<row, members, thread, cleared, blocks, notes, calm>>

BlockInsert(p) ==
  /\ At(p, "block")
  /\ blocks' = blocks \cup {call[p].who}
  /\ Goto(p, "blockState")
  /\ UNCHANGED <<row, members, thread, cleared, notes, calm>>

BlockState(p) ==
  LET c == call[p].conv IN
  /\ At(p, "blockState")
  /\ state' = IF Live(c) THEN [state EXCEPT ![c] = "blocked"] ELSE state
  /\ Done(p)
  /\ UNCHANGED <<init, members, thread, cleared, blocks, notes, calm>>

\* DELETE with both=false, and with both=true.
ClearForMe(u, c) ==
  /\ Member(c)
  /\ calm => Quiet
  /\ cleared' = [cleared EXCEPT ![c][u] = msgs[c]]
  /\ UNCHANGED <<row, members, thread, blocks, notes, call, calm>>

DeleteForBoth(c) == Member(c) /\ (calm => Quiet) /\ Cascade(c) /\ UNCHANGED call

(***************************************************************************)
(* Specification                                                           *)
(***************************************************************************)

Fail(p) ==
  /\ ~calm
  /\ call[p] # Idle
  /\ Done(p)
  /\ UNCHANGED <<row, members, thread, cleared, blocks, notes, calm>>

Start(p) == \E u \in Users :
  \/ OpenStart(p, u)
  \/ \E c \in Convs : SendStart(p, u, c) \/ AcceptStart(p, u, c)
                      \/ DeclineStart(p, u, c) \/ BlockStart(p, u, c)

Proceed(p) ==
  \/ OpenFind(p) \/ OpenCreate(p) \/ OpenMembers(p) \/ OpenFirst(p) \/ OpenTouch(p) \/ OpenNotify(p)
  \/ SendCheck(p) \/ SendInsert(p) \/ SendTouch(p)
  \/ AcceptSet(p) \/ AcceptRead(p)
  \/ DeclineRead(p) \/ DeclineNote(p) \/ DeclineDelete(p)
  \/ BlockInsert(p) \/ BlockState(p)

Next ==
  \/ \E p \in Calls : Start(p) \/ Proceed(p) \/ Fail(p)
  \/ \E c \in Convs : DeleteForBoth(c) \/ \E u \in Users : ClearForMe(u, c)

Spec == Init /\ [][Next]_vars

(***************************************************************************)
(* Properties                                                              *)
(***************************************************************************)

\* A call that may still write a message without looking at dm_blocks again.
Writing == \E p \in Calls : call[p].pc \in {"find", "create", "members", "first", "send"}

\* messages/route.ts:75: once a block row exists and the calls that had looked
\* before it are over, no message and no conversation of the pair is created
\* any more, whatever an accept did to the state of the conversation.
BlockStops ==
  [][blocks # {} /\ ~Writing =>
       ~Writing' /\ blocks' # {} /\ \A c \in Convs : msgs'[c] <= msgs[c] /\ (Live(c)' => Live(c))]_vars

\* dm_conversations_dm_key: a pair has one conversation, however its requests
\* cross.
OneConversation == \A c, d \in Convs : Live(c) /\ Live(d) => c = d

\* dm/[id]/route.ts:101-103: a conversation one side cleared "re-shows if the
\* peer messages again".
ClearedReshows ==
  Quiet => \A c \in Convs, u \in Users :
    Live(c) /\ msgs[c] > cleared[c][u] => lastAt[c] > cleared[c][u]

\* The same, when sends do not cross.
CalmReshows == calm => ClearedReshows
=============================================================================

------------------------------- MODULE P2PRoom -------------------------------
(***************************************************************************)
(* apps/ws/src/p2p-signaling.ts and the hook that drives it                *)
(* (apps/web/hooks/useP2PRoom.ts): admission of users to one P2P topic.    *)
(*                                                                         *)
(* A task is one run of an async socket handler; the handlers of one or    *)
(* several sockets interleave at their Redis calls.  All keys carry the    *)
(* topic id, so topics do not interact.                                    *)
(***************************************************************************)
EXTENDS Naturals, Sequences, FiniteSets, SequencesExt

CONSTANTS
  Sockets, Users, Tasks,
  UserOf,     \* the account of a socket: two tabs are two sockets
  MaxPeers,   \* p2p_max_participants
  Demotable,  \* users whose role may lose sight of the topic
  Overlap     \* FALSE: a handler runs to its end before anything else happens

ASSUME P2PRoomAssumption ==
  /\ UserOf \in [Sockets -> Users]
  /\ MaxPeers \in Nat \ {0}
  /\ Demotable \subseteq Users
  /\ Overlap \in BOOLEAN

VARIABLES
  active,    \* keys of the hash p2p:active
  queue,     \* list p2p:queue
  ttl,       \* users with a p2p:queue-ttl key
  joined,    \* sockets whose socketTopics entry holds the topic
  conn,      \* connected sockets
  client,    \* tabs in which the P2P view is mounted
  invited,   \* sockets with a P2P_ADMITTED under way to them
  viewers,   \* users whose role may view the topic
  mode,      \* the last of P2P_FALLBACK / P2P_RESUME sent to the topic
  fallback,  \* is_e2ee and p2p_fallback_e2ee of the topic; never changes
  gated,     \* history: users who ever passed the view gate
  wasted,    \* history: a free seat was offered to a user who already sat
  task

vars == <<active, queue, ttl, joined, conn, client, invited, viewers, mode, fallback, gated, wasted, task>>
room == <<active, queue, ttl>>
tabs == <<joined, conn, client, invited>>
topic == <<viewers, fallback>>
hist == <<gated, wasted>>

NoTask == [kind |-> "none"]
PC == {"gate", "snapshot", "add", "overflow", "check", "push", "setTtl",
       "hdel", "lrem", "delTtl", "lpop", "exists", "admit", "resume", "hexists", "hset"}
Handler == [kind : {"run"}, pc : PC, sock : Sockets, gone : BOOLEAN, next : Users]

TypeOK ==
  /\ active \subseteq Users /\ ttl \subseteq Users
  /\ viewers \subseteq Users /\ gated \subseteq Users
  /\ queue \in Seq(Users)
  /\ joined \subseteq conn /\ invited \subseteq conn
  /\ conn \subseteq Sockets /\ client \subseteq Sockets
  /\ mode \in {"p2p", "fallback"} /\ fallback \in BOOLEAN /\ wasted \in BOOLEAN
  /\ task \in [Tasks -> Handler \cup {NoTask}]

Init ==
  /\ active = {} /\ queue = <<>> /\ ttl = {}
  /\ joined = {} /\ conn = Sockets /\ client = {} /\ invited = {}
  /\ viewers = Users
  /\ mode = "p2p" /\ fallback \in BOOLEAN
  /\ gated = {} /\ wasted = FALSE
  /\ task = [t \in Tasks |-> NoTask]

At(t, pc) == task[t] # NoTask /\ task[t].pc = pc
User(t) == UserOf[task[t].sock]
Others(t) == active \ {User(t)}

\* NoTask takes the place of a handler that has returned.
Started(tt, t, pc, s) ==
  [tt EXCEPT ![t] = [kind |-> "run", pc |-> pc, sock |-> s, gone |-> FALSE, next |-> UserOf[s]]]
Quiet == \A t \in Tasks : task[t] = NoTask
Free == Overlap \/ Quiet
Start(t, pc, s) == Free /\ task[t] = NoTask /\ task' = Started(task, t, pc, s)
Goto(t, pc) == task' = [task EXCEPT ![t].pc = pc]
Done(t) == task' = [task EXCEPT ![t] = NoTask]

(***************************************************************************)
(* The tab: useP2PRoom                                                     *)
(***************************************************************************)

Mount(t, s) ==
  /\ s \in conn \ client
  /\ client' = client \cup {s}
  /\ Start(t, "gate", s)
  /\ UNCHANGED <<room, joined, conn, invited, topic, mode, hist>>

\* P2P_ADMITTED reaches the tab: the hook joins again, an unmounted one not.
OnAdmitted(t, s) ==
  /\ Free
  /\ s \in invited
  /\ invited' = invited \ {s}
  /\ IF s \in client THEN Start(t, "gate", s) ELSE UNCHANGED task
  /\ UNCHANGED <<room, joined, conn, client, topic, mode, hist>>

Heartbeat(t, s) ==
  /\ s \in conn \cap client
  /\ Start(t, "hexists", s)
  /\ UNCHANGED <<room, tabs, topic, mode, hist>>

\* Unmounting sends P2P_LEAVE, which forgets the topic before anything else.
Unmount(t, s) ==
  /\ s \in conn \cap client
  /\ client' = client \ {s}
  /\ joined' = joined \ {s}
  /\ Start(t, "hdel", s)
  /\ UNCHANGED <<room, conn, invited, topic, mode, hist>>

\* The connection drops, with or without its tab.  socketTopics forgets the
\* socket; the handlers that still run for it find no entry of theirs.
Disconnect(t, s) ==
  LET orphans == [u \in Tasks |->
        IF task[u] # NoTask /\ task[u].sock = s THEN [task[u] EXCEPT !.gone = TRUE] ELSE task[u]]
  IN
  /\ Free
  /\ s \in conn
  /\ conn' = conn \ {s}
  /\ joined' = joined \ {s}
  /\ invited' = invited \ {s}
  /\ client' \in {client, client \ {s}}
  /\ IF s \in joined
     THEN task[t] = NoTask /\ task' = Started(orphans, t, "hdel", s)
     ELSE task' = orphans
  /\ UNCHANGED <<room, topic, mode, hist>>

\* A new connection of the tab; a mounted view does not join again.
Reconnect(s) ==
  /\ s \notin conn
  /\ conn' = conn \cup {s}
  /\ UNCHANGED <<room, joined, client, invited, topic, mode, hist, task>>

(***************************************************************************)
(* P2P_JOIN                                                                *)
(***************************************************************************)

\* Mutant of Gate: the view gate is not asked.
GateOpen(t) ==
  /\ At(t, "gate")
  /\ joined' = IF task[t].gone THEN joined ELSE joined \cup {task[t].sock}
  /\ gated' = IF User(t) \in viewers THEN gated \cup {User(t)} ELSE gated
  /\ Goto(t, "snapshot")
  /\ UNCHANGED <<room, conn, client, invited, topic, mode, wasted>>

\* topicViewable with the role of the moment, then socketTopics' add, which a
\* closed socket's missing entry swallows.
Gate(t) ==
  /\ At(t, "gate")
  /\ IF User(t) \in viewers
     THEN /\ joined' = IF task[t].gone THEN joined ELSE joined \cup {task[t].sock}
          /\ gated' = gated \cup {User(t)}
          /\ Goto(t, "snapshot")
     ELSE Done(t) /\ UNCHANGED <<joined, gated>>
  /\ UNCHANGED <<room, conn, client, invited, topic, mode, wasted>>

\* Where a joiner goes who finds n other peers in the room.
Admission(n) ==
  IF n < MaxPeers THEN "add" ELSE IF fallback THEN "overflow" ELSE "check"

\* getActivePeers, read once; what follows trusts it.
Snapshot(t) ==
  /\ At(t, "snapshot")
  /\ Goto(t, Admission(Cardinality(Others(t))))
  /\ UNCHANGED <<room, tabs, topic, mode, hist>>

AddActive(t) ==
  /\ At(t, "add")
  /\ active' = active \cup {User(t)}
  /\ Done(t)
  /\ UNCHANGED <<queue, ttl, tabs, topic, mode, hist>>

\* A full E2EE room takes the joiner in and falls back to the server.
AddOverflow(t) ==
  /\ At(t, "overflow")
  /\ active' = active \cup {User(t)}
  /\ mode' = "fallback"
  /\ Done(t)
  /\ UNCHANGED <<queue, ttl, tabs, topic, hist>>

\* enqueue: look, append, start the entry's 300 seconds.
EnqueueCheck(t) ==
  /\ At(t, "check")
  /\ IF Contains(queue, User(t)) THEN Done(t) ELSE Goto(t, "push")
  /\ UNCHANGED <<room, tabs, topic, mode, hist>>

EnqueuePush(t) ==
  /\ At(t, "push")
  /\ queue' = Append(queue, User(t))
  /\ Goto(t, "setTtl")
  /\ UNCHANGED <<active, ttl, tabs, topic, mode, hist>>

EnqueueTtl(t) ==
  /\ At(t, "setTtl")
  /\ ttl' = ttl \cup {User(t)}
  /\ Done(t)
  /\ UNCHANGED <<active, queue, tabs, topic, mode, hist>>

\* 300 s after it was set; nothing renews it.
ExpireTtl(u) ==
  /\ u \in ttl
  /\ ttl' = ttl \ {u}
  /\ UNCHANGED <<active, queue, tabs, topic, mode, hist, task>>

(***************************************************************************)
(* handleLeave                                                             *)
(***************************************************************************)

RemoveActive(t) ==
  /\ At(t, "hdel")
  /\ active' = active \ {User(t)}
  /\ Goto(t, "lrem")
  /\ UNCHANGED <<queue, ttl, tabs, topic, mode, hist>>

\* LREM with count 0: q without every entry of u.
Without(q, u) ==
  LET kept[i \in 0 .. Len(q)] ==
        IF i = 0 THEN <<>> ELSE IF q[i] = u THEN kept[i - 1] ELSE Append(kept[i - 1], q[i])
  IN kept[Len(q)]

RemoveFromQueue(t) ==
  /\ At(t, "lrem")
  /\ queue' = Without(queue, User(t))
  /\ Goto(t, "delTtl")
  /\ UNCHANGED <<active, ttl, tabs, topic, mode, hist>>

RemoveTtl(t) ==
  /\ At(t, "delTtl")
  /\ ttl' = ttl \ {User(t)}
  /\ Goto(t, "lpop")
  /\ UNCHANGED <<active, queue, tabs, topic, mode, hist>>

\* dequeueNext: pop entries until one is still alive.
DequeuePop(t) ==
  /\ At(t, "lpop")
  /\ IF queue = <<>>
     THEN Goto(t, "resume") /\ UNCHANGED queue
     ELSE /\ queue' = Tail(queue)
          /\ task' = [task EXCEPT ![t].pc = "exists", ![t].next = Head(queue)]
  /\ UNCHANGED <<active, ttl, tabs, topic, mode, hist>>

\* Mutant of DequeueExists: an expired entry ends the search.
DequeueExistsOnce(t) ==
  /\ At(t, "exists")
  /\ Goto(t, IF task[t].next \in ttl THEN "admit" ELSE "resume")
  /\ UNCHANGED <<room, tabs, topic, mode, hist>>

DequeueExists(t) ==
  /\ At(t, "exists")
  /\ Goto(t, IF task[t].next \in ttl THEN "admit" ELSE "lpop")
  /\ UNCHANGED <<room, tabs, topic, mode, hist>>

\* Every tab of the user is told: P2P_ADMITTED goes to the user's room.
Admit(t) ==
  /\ At(t, "admit")
  /\ ttl' = ttl \ {task[t].next}
  /\ invited' = invited \cup {s \in conn : UserOf[s] = task[t].next}
  /\ wasted' = (wasted \/ (task[t].next \in active /\ Cardinality(active) < MaxPeers))
  /\ Goto(t, "resume")
  /\ UNCHANGED <<active, queue, joined, conn, client, topic, mode, gated>>

Resume(t) ==
  /\ At(t, "resume")
  /\ mode' = IF fallback /\ Cardinality(active) <= MaxPeers THEN "p2p" ELSE mode
  /\ Done(t)
  /\ UNCHANGED <<room, tabs, topic, hist>>

(***************************************************************************)
(* P2P_HEARTBEAT                                                           *)
(***************************************************************************)

HeartbeatCheck(t) ==
  /\ At(t, "hexists")
  /\ IF User(t) \in active THEN Goto(t, "hset") ELSE Done(t)
  /\ UNCHANGED <<room, tabs, topic, mode, hist>>

HeartbeatSet(t) ==
  /\ At(t, "hset")
  /\ active' = active \cup {User(t)}
  /\ Done(t)
  /\ UNCHANGED <<queue, ttl, tabs, topic, mode, hist>>

(***************************************************************************)
(* Specification                                                           *)
(***************************************************************************)

\* A demotion takes the topic away from a user; the re-auth sweep updates the
\* role that the handlers read.
Demote(u) ==
  /\ Free
  /\ u \in viewers \cap Demotable
  /\ viewers' = viewers \ {u}
  /\ UNCHANGED <<room, tabs, mode, fallback, hist, task>>

\* relayAllowed: an offer, answer or candidate from u reaches v.
RelayAllowed(u, v) == u \in active /\ v \in active

Step(t) ==
  \/ Gate(t) \/ Snapshot(t) \/ AddActive(t) \/ AddOverflow(t)
  \/ EnqueueCheck(t) \/ EnqueuePush(t) \/ EnqueueTtl(t)
  \/ RemoveActive(t) \/ RemoveFromQueue(t) \/ RemoveTtl(t)
  \/ DequeuePop(t) \/ DequeueExists(t) \/ Admit(t) \/ Resume(t)
  \/ HeartbeatCheck(t) \/ HeartbeatSet(t)

Tab(t) == \E s \in Sockets :
  Mount(t, s) \/ OnAdmitted(t, s) \/ Heartbeat(t, s) \/ Unmount(t, s) \/ Disconnect(t, s)

Elsewhere == (\E s \in Sockets : Reconnect(s)) \/ (\E u \in Users : ExpireTtl(u))

Next ==
  \/ \E t \in Tasks : Tab(t) \/ Step(t)
  \/ Elsewhere
  \/ \E u \in Users : Demote(u)

Spec == Init /\ [][Next]_vars

(***************************************************************************)
(* Properties                                                              *)
(***************************************************************************)

\* p2p-signaling.ts:177-179, "Active membership implies each passed the
\* P2P_JOIN view gate": whatever interleaves, signaling is relayed only
\* between two users who both did.
RelayBetweenGated ==
  \A u, v \in Users : RelayAllowed(u, v) => u \in gated /\ v \in gated

\* No seat stays free while somebody queues alive for it: a leave, by whoever,
\* passes its place on.  What explains an idle seat is an invitation under way,
\* one that reached a user who had lost sight of the topic, or (in rooms of two
\* seats and more) one that went to a user who had entered through another tab
\* with an entry still in the queue: handleLeave invites once per leave.
NoIdleSeat ==
  Quiet /\ invited = {} /\ viewers = Users /\ ~ wasted /\ (\E u \in ttl : Contains(queue, u)) =>
    Cardinality(active) >= MaxPeers

=============================================================================

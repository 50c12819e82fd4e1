------------------------------ MODULE P2PMesh ------------------------------
(***************************************************************************)
(* apps/web/hooks/useP2PRoom.ts and components/P2PView.tsx: the WebRTC     *)
(* connections between the members of one P2P topic, negotiated through    *)
(* the relay of apps/ws/src/p2p-signaling.ts.                              *)
(*                                                                         *)
(* A connection is an RTCPeerConnection with an id.  The browser behind it *)
(* is external: a pair of connections opens its channel when each has the  *)
(* other's description and candidate.  P2P_PEER_LEFT, FALLBACK and RESUME  *)
(* go to the room topic:<id>, which the socket of a P2P view never enters, *)
(* so that no view handles them.                                           *)
(***************************************************************************)
EXTENDS Naturals, FiniteSets

CONSTANTS
  Peers,     \* accounts, one tab each
  Casts,     \* p2p_max_participants, mounts of each view, whose socket may drop
  Overflows  \* the topic falls back to E2EE when it is full

VARIABLES
  cast,     \* the one of Casts that is played
  members,  \* keys of p2p:active
  tab,      \* the view of each account and its P2P_JOIN under way
  rtc,      \* connections that are not closed, in a map or not
  made,     \* how many each view has created
  conn,     \* peerConns of each view: the id of the connection, 0 for none
  chan,     \* dataChannels of each view: the id of its connection
  pending,  \* pendingCandidates of each view
  wire,     \* signals under way
  mode,     \* P2PMode of each view
  told      \* history: <<u, v>> when u was told that v had joined

meshVars == <<cast, members, tab, rtc, made, conn, chan, pending, wire, mode, told>>
room == <<cast, members, tab, told>>
maps == <<conn, chan, pending>>

Joining == {"snapshot", "add", "overflow"}

MeshTypeOK ==
  /\ cast \in Casts
  /\ members \subseteq Peers
  /\ tab \in [Peers -> [pc : Joining \cup {"out", "in", "queued", "dropped"},
                        others : SUBSET Peers, mounts : Nat]]
  /\ made \in [Peers -> Nat]
  /\ rtc \subseteq [at : Peers, to : Peers, id : Nat, remote : Nat, ice : SUBSET Nat, open : BOOLEAN]
  /\ conn \in [Peers -> [Peers -> Nat]] /\ chan \in [Peers -> [Peers -> Nat]]
  /\ pending \in [Peers -> [Peers -> SUBSET Nat]]
  /\ wire \subseteq [kind : {"joined", "offer", "answer", "ice"}, from : Peers, to : Peers, id : Nat]
  /\ mode \in [Peers -> {"connecting", "p2p", "queued"}]
  /\ told \subseteq Peers \X Peers

MeshInit ==
  /\ cast \in Casts
  /\ members = {} /\ rtc = {} /\ wire = {} /\ told = {}
  /\ tab = [u \in Peers |-> [pc |-> "out", others |-> {}, mounts |-> 0]]
  /\ made = [u \in Peers |-> 0]
  /\ conn = [u \in Peers |-> [v \in Peers |-> 0]]
  /\ chan = [u \in Peers |-> [v \in Peers |-> 0]]
  /\ pending = [u \in Peers |-> [v \in Peers |-> {}]]
  /\ mode = [u \in Peers |-> "connecting"]

Signal(kind, u, v, id) == [kind |-> kind, from |-> u, to |-> v, id |-> id]

(***************************************************************************)
(* P2P_JOIN                                                                *)
(***************************************************************************)

\* A new view has empty maps.
Mount(u) ==
  /\ tab[u].pc = "out" /\ tab[u].mounts < cast.mounts[u]
  /\ tab' = [tab EXCEPT ![u] = [pc |-> "snapshot", others |-> {}, mounts |-> @.mounts + 1]]
  /\ mode' = [mode EXCEPT ![u] = "connecting"]
  /\ pending' = [pending EXCEPT ![u] = [v \in Peers |-> {}]]
  /\ UNCHANGED <<cast, members, rtc, made, conn, chan, wire, told>>

\* The members, read before the joiner is one.
JoinSnapshot(u) ==
  LET others == members \ {u}
      pc == IF Cardinality(others) < cast.seats THEN "add" ELSE IF Overflows THEN "overflow" ELSE "queued"
  IN
  /\ tab[u].pc = "snapshot"
  /\ tab' = [tab EXCEPT ![u].others = others, ![u].pc = pc]
  /\ mode' = IF pc = "queued" THEN [mode EXCEPT ![u] = pc] ELSE mode
  /\ UNCHANGED <<cast, members, rtc, made, maps, wire, told>>

\* Those of the snapshot are told of the joiner; one who joined meanwhile is
\* not, and a joiner beyond the limit is announced to nobody.
JoinAdd(u) ==
  LET hear == IF tab[u].pc = "add" THEN tab[u].others ELSE {} IN
  /\ tab[u].pc \in {"add", "overflow"}
  /\ members' = members \cup {u}
  /\ wire' = wire \cup {Signal("joined", u, v, 0) : v \in hear}
  /\ told' = told \cup (hear \X {u})
  /\ tab' = [tab EXCEPT ![u].pc = "in", ![u].others = {}]
  /\ UNCHANGED <<cast, rtc, made, maps, mode>>

(***************************************************************************)
(* The hook: offers, answers, candidates                                   *)
(***************************************************************************)

\* A signal reaches the view that it is for.
Heard(m, kind) ==
  /\ m \in wire /\ m.kind = kind
  /\ tab[m.to].pc \notin {"out", "dropped"}

\* createConn puts the new connection in the map; the one it replaces lives on.
Created(u, v, remote, ice) ==
  /\ made' = [made EXCEPT ![u] = @ + 1]
  /\ conn' = [conn EXCEPT ![u][v] = made[u] + 1]
  /\ rtc' = rtc \cup {[at |-> u, to |-> v, id |-> made[u] + 1, remote |-> remote, ice |-> ice, open |-> FALSE]}

\* A description is sent, and candidates as they are found.
Describe(m, kind) ==
  LET id == made[m.to] + 1 IN
  wire' = (wire \ {m}) \cup {Signal(kind, m.to, m.from, id), Signal("ice", m.to, m.from, id)}

Current(u, v) == {c \in rtc : c.at = u /\ c.to = v /\ c.id = conn[u][v]}

OnPeerJoined(m) ==
  /\ Heard(m, "joined")
  /\ Created(m.to, m.from, 0, {})
  /\ chan' = [chan EXCEPT ![m.to][m.from] = made[m.to] + 1]
  /\ Describe(m, "offer")
  /\ UNCHANGED <<room, pending, mode>>

\* The candidates that came before the offer are applied after it.
OnOffer(m) ==
  /\ Heard(m, "offer")
  /\ Created(m.to, m.from, m.id, pending[m.to][m.from])
  /\ pending' = [pending EXCEPT ![m.to][m.from] = {}]
  /\ Describe(m, "answer")
  /\ UNCHANGED <<room, chan, mode>>

\* A connection that has its answer refuses another.
OnAnswer(m) ==
  LET u == m.to
      v == m.from
      Answered(c) == [c EXCEPT !.remote = IF @ = 0 THEN m.id ELSE @, !.ice = @ \cup pending[u][v]]
  IN
  /\ Heard(m, "answer")
  /\ wire' = wire \ {m}
  /\ rtc' = (rtc \ Current(u, v)) \cup {Answered(c) : c \in Current(u, v)}
  /\ pending' = IF Current(u, v) = {} THEN pending ELSE [pending EXCEPT ![u][v] = {}]
  /\ UNCHANGED <<room, made, conn, chan, mode>>

\* Mutant of OnIce: a candidate without a description to go with is dropped.
OnIceEager(m) ==
  LET ready == {c \in Current(m.to, m.from) : c.remote # 0} IN
  /\ Heard(m, "ice")
  /\ wire' = wire \ {m}
  /\ rtc' = (rtc \ ready) \cup {[c EXCEPT !.ice = @ \cup {m.id}] : c \in ready}
  /\ UNCHANGED <<room, made, maps, mode>>

OnIce(m) ==
  LET ready == {c \in Current(m.to, m.from) : c.remote # 0} IN
  /\ Heard(m, "ice")
  /\ wire' = wire \ {m}
  /\ rtc' = (rtc \ ready) \cup {[c EXCEPT !.ice = @ \cup {m.id}] : c \in ready}
  /\ pending' = IF ready = {} THEN [pending EXCEPT ![m.to][m.from] = @ \cup {m.id}] ELSE pending
  /\ UNCHANGED <<room, made, conn, chan, mode>>

\* relayAllowed refuses a signal unless both are members; one to a view that is
\* gone or offline is lost.
NotRelayed(m) ==
  /\ m \in wire
  /\ \/ m.kind # "joined" /\ ~({m.from, m.to} \subseteq members)
     \/ tab[m.to].pc \in {"out", "dropped"}
  /\ wire' = wire \ {m}
  /\ UNCHANGED <<room, rtc, made, maps, mode>>

(***************************************************************************)
(* WebRTC                                                                  *)
(***************************************************************************)

Linked(c, d) ==
  /\ c.at = d.to /\ c.to = d.at
  /\ c.remote = d.id /\ d.remote = c.id
  /\ d.id \in c.ice /\ c.id \in d.ice

\* The channel opens on both ends: onopen, ondatachannel.
Open(c, d) ==
  /\ c \in rtc /\ d \in rtc /\ Linked(c, d) /\ ~c.open
  /\ rtc' = (rtc \ {c, d}) \cup {[c EXCEPT !.open = TRUE], [d EXCEPT !.open = TRUE]}
  /\ chan' = [chan EXCEPT ![c.at][c.to] = c.id, ![d.at][d.to] = d.id]
  /\ mode' = [mode EXCEPT ![c.at] = "p2p", ![d.at] = "p2p"]
  /\ UNCHANGED <<room, made, conn, pending, wire>>

\* A connection whose partner is closed, or talks to another, ends up failed:
\* closePeer closes what the map holds for that peer by then.
Fail(c) ==
  LET u == c.at
      v == c.to
  IN
  /\ c \in rtc /\ c.remote # 0
  /\ \A d \in rtc : d.at = v /\ d.to = u /\ d.id = c.remote => d.remote \notin {0, c.id}
  /\ rtc' = rtc \ ({c} \cup Current(u, v))
  /\ conn' = [conn EXCEPT ![u][v] = 0]
  /\ chan' = [chan EXCEPT ![u][v] = 0]
  /\ UNCHANGED <<room, made, pending, wire, mode>>

(***************************************************************************)
(* Leaving                                                                 *)
(***************************************************************************)

\* handleLeave; the first who waits (P2PRoom has the queue) joins again.
Left(u, pc) ==
  LET gone == [tab EXCEPT ![u].pc = pc]
      queued == {q \in Peers \ {u} : tab[q].pc = "queued"}
  IN
  /\ members' = members \ {u}
  /\ IF queued = {} THEN tab' = gone /\ UNCHANGED mode
     ELSE \E q \in queued :
            /\ tab' = [gone EXCEPT ![q].pc = "snapshot"]
            /\ mode' = [mode EXCEPT ![q] = "connecting"]

\* The view closes what its map holds, sends P2P_LEAVE and disconnects.
Unmount(u) ==
  /\ tab[u].pc \in {"in", "queued", "dropped"} /\ tab[u].mounts < cast.mounts[u]
  /\ Left(u, "out")
  /\ rtc' = {c \in rtc : c.at # u \/ c.id # conn[u][c.to]}
  /\ conn' = [conn EXCEPT ![u] = [v \in Peers |-> 0]]
  /\ chan' = [chan EXCEPT ![u] = [v \in Peers |-> 0]]
  /\ UNCHANGED <<cast, made, pending, wire, told>>

\* The socket drops and connects again: the view does not join again, and its
\* connections to its peers live on.
Drop(u) ==
  /\ u \in cast.drops /\ tab[u].pc \in {"in", "queued"}
  /\ Left(u, "dropped")
  /\ UNCHANGED <<cast, rtc, made, maps, wire, told>>

(***************************************************************************)
(* The specification                                                       *)
(***************************************************************************)

MeshNext ==
  \/ \E u \in Peers : Mount(u) \/ JoinSnapshot(u) \/ JoinAdd(u) \/ Unmount(u) \/ Drop(u)
  \/ \E m \in wire : OnPeerJoined(m) \/ OnOffer(m) \/ OnAnswer(m) \/ OnIce(m) \/ NotRelayed(m)
  \/ \E c \in rtc : Fail(c) \/ \E d \in rtc : Open(c, d)

(***************************************************************************)
(* Properties                                                              *)
(***************************************************************************)

Settled == wire = {} /\ \A u \in Peers : tab[u].pc \notin Joining
Steady(u) == tab[u].pc = "in" /\ tab[u].mounts = 1

\* useP2PRoom.ts:167, "New peer joined: we (existing peer) create offer to
\* them": when the signals have settled, two members who have not left since
\* one was told of the other hold a connection to each other with all it takes
\* to open, in whatever order offer, answer and candidates came and whoever
\* left or came back beside them.
MeshForms ==
  Settled => \A p \in told : Steady(p[1]) /\ Steady(p[2]) =>
    \E c \in Current(p[1], p[2]), d \in Current(p[2], p[1]) : Linked(c, d)
=============================================================================

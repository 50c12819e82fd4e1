---------------------------- MODULE P2PRoomProofs ----------------------------
(***************************************************************************)
(* Signaling in a P2P topic is relayed only between users who have passed  *)
(* the view gate, for every set of sockets, users and handlers, every      *)
(* limit, and however the handlers interleave (Overlap is not constrained).*)
(*                                                                         *)
(* RelayBetweenGated is not inductive: a handler that has passed the gate, *)
(* or a heartbeat that has found its user in the room, adds the user to    *)
(* the room some steps later.  Cleared says that such a handler only runs  *)
(* for users who did pass, whatever has become of the room meanwhile.      *)
(***************************************************************************)
EXTENDS P2PRoom, WellFoundedInduction, FiniteSetTheorems, TLAPS

HandlerNext(S) == [kind : {"run"}, pc : PC, sock : Sockets, gone : BOOLEAN, next : S]

\* The type of the handlers, but for the user that a leave has dequeued.
TasksOK == \E S : task \in [Tasks -> HandlerNext(S) \cup {NoTask}]

\* Where a handler may still write its user into the room.
Admitting == {"snapshot", "add", "overflow", "hset"}

Cleared == \A t \in Tasks : task[t] # NoTask /\ task[t].pc \in Admitting => User(t) \in gated

GateInv ==
  /\ TasksOK
  /\ Cleared
  /\ active \subseteq gated

-----------------------------------------------------------------------------

\* A handler record is never the record of a handler that has returned.
LEMMA HandlerFields ==
  ASSUME NEW S, NEW h \in HandlerNext(S)
  PROVE  /\ h # NoTask
         /\ h.pc \in PC /\ h.sock \in Sockets /\ h.gone \in BOOLEAN /\ h.next \in S
  BY DEF HandlerNext, NoTask

\* A step of one handler t: the others stay, and t stays cleared.
LEMMA OneHandler ==
  ASSUME GateInv, NEW S, NEW t \in Tasks, NEW h \in HandlerNext(S) \cup {NoTask},
         task \in [Tasks -> HandlerNext(S) \cup {NoTask}],
         task' = [task EXCEPT ![t] = h],
         gated \subseteq gated', active' \subseteq gated',
         h # NoTask /\ h.pc \in Admitting => UserOf[h.sock] \in gated'
  PROVE  GateInv'
<1>1. TasksOK'
  BY DEF TasksOK
<1>2. task'[t] = h /\ \A s \in Tasks : s # t => task'[s] = task[s]
  OBVIOUS
<1>3. Cleared'
  BY <1>2 DEF GateInv, Cleared, User
<1>4. QED
  BY <1>1, <1>3 DEF GateInv

\* A handler goes on to its next Redis call.
LEMMA GotoStep ==
  ASSUME GateInv, NEW t \in Tasks, task[t] # NoTask, NEW pc \in PC, Goto(t, pc),
         gated \subseteq gated', active' \subseteq gated',
         pc \in Admitting => User(t) \in gated'
  PROVE  GateInv'
<1>1. PICK S : task \in [Tasks -> HandlerNext(S) \cup {NoTask}]
  BY DEF GateInv, TasksOK
<1>2. task[t] \in HandlerNext(S)
  BY <1>1
<1> DEFINE h == [task[t] EXCEPT !.pc = pc]
<1>3. h \in HandlerNext(S) /\ h.pc = pc /\ h.sock = task[t].sock
  BY <1>2 DEF HandlerNext
<1>4. task' = [task EXCEPT ![t] = h]
  BY DEF Goto
<1>5. h.pc \in Admitting => UserOf[h.sock] \in gated'
  BY <1>3 DEF User
<1>6. QED
  BY <1>1, <1>3, <1>4, <1>5, OneHandler

\* A handler returns.
LEMMA DoneStep ==
  ASSUME GateInv, NEW t \in Tasks, Done(t), gated \subseteq gated', active' \subseteq gated'
  PROVE  GateInv'
<1>1. PICK S : task \in [Tasks -> HandlerNext(S) \cup {NoTask}]
  BY DEF GateInv, TasksOK
<1>2. QED
  BY <1>1, OneHandler DEF Done

\* A handler starts before the gate, or outside the join altogether.
LEMMA StartStep ==
  ASSUME GateInv, NEW t \in Tasks, NEW s \in Sockets, NEW pc \in PC \ Admitting,
         Start(t, pc, s), UNCHANGED <<active, gated>>
  PROVE  GateInv'
<1>1. PICK S : task \in [Tasks -> HandlerNext(S) \cup {NoTask}]
  BY DEF GateInv, TasksOK
<1> DEFINE S2 == S \cup {UserOf[s]}
           h == [kind |-> "run", pc |-> pc, sock |-> s, gone |-> FALSE, next |-> UserOf[s]]
<1>2. task \in [Tasks -> HandlerNext(S2) \cup {NoTask}]
  <2>1. HandlerNext(S) \subseteq HandlerNext(S2)
    BY DEF HandlerNext
  <2>2. QED
    BY <1>1, <2>1
<1>3. h \in HandlerNext(S2) /\ h.pc = pc
  BY DEF HandlerNext
<1>4. task' = [task EXCEPT ![t] = h]
  BY DEF Start, Started
<1> HIDE DEF S2, h
<1>5. QED
  BY <1>2, <1>3, <1>4, OneHandler DEF GateInv

\* The tabs of a user only start handlers; a connection that drops marks those
\* that still run for it.
LEMMA TabStep ==
  ASSUME GateInv, NEW t \in Tasks, Tab(t)
  PROVE  GateInv'
<1>1. PICK s \in Sockets : Mount(t, s) \/ OnAdmitted(t, s) \/ Heartbeat(t, s)
                            \/ Unmount(t, s) \/ Disconnect(t, s)
  BY DEF Tab
<1>2. UNCHANGED <<active, gated>>
  BY <1>1 DEF Mount, OnAdmitted, Heartbeat, Unmount, Disconnect, room, hist
<1>3. CASE Mount(t, s)
  BY <1>2, <1>3, StartStep DEF Mount, PC, Admitting
<1>4. CASE OnAdmitted(t, s)
  <2>1. CASE UNCHANGED task
    BY <1>2, <2>1 DEF GateInv, TasksOK, Cleared, User
  <2>2. CASE Start(t, "gate", s)
    BY <1>2, <2>2, StartStep DEF PC, Admitting
  <2>3. QED
    BY <1>4, <2>1, <2>2 DEF OnAdmitted
<1>5. CASE Heartbeat(t, s)
  BY <1>2, <1>5, StartStep DEF Heartbeat, PC, Admitting
<1>6. CASE Unmount(t, s)
  BY <1>2, <1>6, StartStep DEF Unmount, PC, Admitting
<1>7. CASE Disconnect(t, s)
  <2> DEFINE orphans == [u \in Tasks |->
                IF task[u] # NoTask /\ task[u].sock = s THEN [task[u] EXCEPT !.gone = TRUE] ELSE task[u]]
  <2>1. PICK S : task \in [Tasks -> HandlerNext(S) \cup {NoTask}]
    BY DEF GateInv, TasksOK
  <2>2. /\ orphans \in [Tasks -> HandlerNext(S) \cup {NoTask}]
        /\ \A u \in Tasks : /\ orphans[u] = NoTask <=> task[u] = NoTask
                            /\ task[u] # NoTask =>
                                 orphans[u].pc = task[u].pc /\ orphans[u].sock = task[u].sock
    <3>1. ASSUME NEW u \in Tasks, task[u] # NoTask
          PROVE  LET h == [task[u] EXCEPT !.gone = TRUE] IN
                 h \in HandlerNext(S) /\ h.pc = task[u].pc /\ h.sock = task[u].sock
      <4>1. task[u] \in HandlerNext(S)
        BY <2>1, <3>1
      <4>2. QED
        BY <4>1 DEF HandlerNext
    <3>2. \A u \in Tasks : orphans[u] = IF task[u] # NoTask /\ task[u].sock = s
                                       THEN [task[u] EXCEPT !.gone = TRUE] ELSE task[u]
      OBVIOUS
    <3> HIDE DEF orphans
    <3>3. NoTask \notin HandlerNext(S)
      BY HandlerFields
    <3>4. ASSUME NEW u \in Tasks
          PROVE  /\ orphans[u] \in HandlerNext(S) \cup {NoTask}
                 /\ orphans[u] = NoTask <=> task[u] = NoTask
                 /\ task[u] # NoTask => orphans[u].pc = task[u].pc /\ orphans[u].sock = task[u].sock
      BY <2>1, <3>1, <3>2, <3>3
    <3>5. orphans = [u \in Tasks |-> orphans[u]]
      BY DEF orphans
    <3>6. QED
      BY <3>4, <3>5
  <2>3. CASE s \in joined
    <3> DEFINE S2 == S \cup {UserOf[s]}
               h == [kind |-> "run", pc |-> "hdel", sock |-> s, gone |-> FALSE, next |-> UserOf[s]]
    <3>1. /\ HandlerNext(S) \subseteq HandlerNext(S2) /\ h \in HandlerNext(S2)
          /\ h.pc = "hdel"
      BY DEF HandlerNext, PC
    <3>2. task' = [orphans EXCEPT ![t] = h]
      BY <1>7, <2>3 DEF Disconnect, Started
    <3> HIDE DEF S2, h, orphans
    <3>3. task' \in [Tasks -> HandlerNext(S2) \cup {NoTask}]
      BY <2>2, <3>1, <3>2
    <3>4. task'[t] = h /\ \A u \in Tasks : u # t => task'[u] = orphans[u]
      BY <2>2, <3>2
    <3>5. Cleared'
      BY <1>2, <2>2, <3>1, <3>4 DEF GateInv, Cleared, Admitting, User
    <3>6. QED
      BY <1>2, <3>3, <3>5 DEF GateInv, TasksOK
  <2>4. CASE s \notin joined
    <3>1. task' = orphans
      BY <1>7, <2>4 DEF Disconnect
    <3> HIDE DEF orphans
    <3>2. Cleared'
      BY <1>2, <2>2, <3>1 DEF GateInv, Cleared, User
    <3>3. QED
      BY <1>2, <2>2, <3>1, <3>2 DEF GateInv, TasksOK
  <2>5. QED
    BY <2>3, <2>4
<1>8. QED
  BY <1>1, <1>3, <1>4, <1>5, <1>6, <1>7

\* P2P_JOIN: only Gate lets a handler reach the room, and it asks.
LEMMA JoinStep ==
  ASSUME GateInv, NEW t \in Tasks,
         \/ Gate(t) \/ Snapshot(t) \/ AddActive(t) \/ AddOverflow(t)
         \/ EnqueueCheck(t) \/ EnqueuePush(t) \/ EnqueueTtl(t)
  PROVE  GateInv'
<1>1. CASE Gate(t)
  <2>1. active' = active /\ At(t, "gate")
    BY <1>1 DEF Gate, room
  <2>2. CASE User(t) \in viewers
    <3>1. gated' = gated \cup {User(t)} /\ Goto(t, "snapshot")
      BY <1>1, <2>2 DEF Gate
    <3>2. QED
      BY <2>1, <3>1, GotoStep DEF At, PC, GateInv
  <2>3. CASE User(t) \notin viewers
    BY <1>1, <2>1, <2>3, DoneStep DEF Gate, GateInv
  <2>4. QED
    BY <2>2, <2>3
<1>2. CASE Snapshot(t)
  <2> DEFINE pc == Admission(Cardinality(Others(t)))
  <2>1. pc \in {"add", "overflow", "check"}
    BY DEF Admission
  <2>2. Goto(t, pc) /\ At(t, "snapshot") /\ UNCHANGED <<active, gated>>
    BY <1>2 DEF Snapshot, room, hist
  <2>3. User(t) \in gated
    BY <2>2 DEF GateInv, Cleared, At, Admitting
  <2> HIDE DEF pc
  <2>4. QED
    BY <2>1, <2>2, <2>3, GotoStep DEF At, PC, GateInv
<1>3. CASE AddActive(t) \/ AddOverflow(t)
  <2>1. /\ At(t, "add") \/ At(t, "overflow")
        /\ active' = active \cup {User(t)}
        /\ gated' = gated
        /\ Done(t)
    BY <1>3 DEF AddActive, AddOverflow, hist
  <2>2. User(t) \in gated
    BY <2>1 DEF GateInv, Cleared, At, Admitting
  <2>3. QED
    BY <2>1, <2>2, DoneStep DEF GateInv
<1>4. CASE EnqueueCheck(t)
  <2>1. UNCHANGED <<active, gated>> /\ At(t, "check") /\ (Done(t) \/ Goto(t, "push"))
    BY <1>4 DEF EnqueueCheck, room, hist
  <2>2. QED
    BY <2>1, DoneStep, GotoStep DEF At, PC, Admitting, GateInv
<1>5. CASE EnqueuePush(t)
  <2>1. UNCHANGED <<active, gated>> /\ At(t, "push") /\ Goto(t, "setTtl")
    BY <1>5 DEF EnqueuePush, hist
  <2>2. QED
    BY <2>1, GotoStep DEF At, PC, Admitting, GateInv
<1>6. CASE EnqueueTtl(t)
  BY <1>6, DoneStep DEF EnqueueTtl, hist, GateInv
<1>7. QED
  BY <1>1, <1>2, <1>3, <1>4, <1>5, <1>6

\* handleLeave: it only takes users out of the room.
LEMMA LeaveStep ==
  ASSUME GateInv, NEW t \in Tasks,
         \/ RemoveActive(t) \/ RemoveFromQueue(t) \/ RemoveTtl(t)
         \/ DequeuePop(t) \/ DequeueExists(t) \/ Admit(t) \/ Resume(t)
  PROVE  GateInv'
<1>1. active' \subseteq gated /\ gated' = gated /\ task[t] # NoTask
  BY DEF RemoveActive, RemoveFromQueue, RemoveTtl, DequeuePop, DequeueExists, Admit, Resume,
         room, hist, At, GateInv
<1>2. CASE DequeuePop(t) /\ queue # <<>>
  <2>1. PICK S : task \in [Tasks -> HandlerNext(S) \cup {NoTask}]
    BY DEF GateInv, TasksOK
  <2> DEFINE S2 == S \cup {Head(queue)}
             h == [task[t] EXCEPT !.pc = "exists", !.next = Head(queue)]
  <2>2. HandlerNext(S) \subseteq HandlerNext(S2)
    BY DEF HandlerNext
  <2>3. task[t] \in HandlerNext(S2) /\ task \in [Tasks -> HandlerNext(S2) \cup {NoTask}]
    BY <1>1, <2>1, <2>2
  <2>4. h \in HandlerNext(S2) /\ h.pc = "exists"
    BY <2>3 DEF HandlerNext, PC
  <2>5. task' = [task EXCEPT ![t] = h]
    BY <1>2 DEF DequeuePop
  <2> HIDE DEF S2, h
  <2>6. QED
    BY <1>1, <2>3, <2>4, <2>5, OneHandler DEF Admitting
<1>3. CASE ~ (DequeuePop(t) /\ queue # <<>>)
  <2>1. \/ Done(t)
        \/ \E pc \in {"lrem", "delTtl", "lpop", "resume", "admit"} : Goto(t, pc)
    <3>1. CASE RemoveActive(t) \/ RemoveFromQueue(t) \/ RemoveTtl(t)
      BY <3>1 DEF RemoveActive, RemoveFromQueue, RemoveTtl
    <3>2. CASE DequeuePop(t)
      BY <1>3, <3>2 DEF DequeuePop
    <3>3. CASE DequeueExists(t)
      BY <3>3 DEF DequeueExists
    <3>4. CASE Admit(t) \/ Resume(t)
      BY <3>4 DEF Admit, Resume
    <3>5. QED
      BY <3>1, <3>2, <3>3, <3>4
  <2>2. QED
    BY <1>1, <2>1, DoneStep, GotoStep DEF PC, Admitting
<1>4. QED
  BY <1>2, <1>3

\* P2P_HEARTBEAT: it is stored for a user found in the room, who had passed.
LEMMA HeartbeatStep ==
  ASSUME GateInv, NEW t \in Tasks, HeartbeatCheck(t) \/ HeartbeatSet(t)
  PROVE  GateInv'
<1>1. CASE HeartbeatCheck(t)
  <2>1. UNCHANGED <<active, gated>> /\ At(t, "hexists")
    BY <1>1 DEF HeartbeatCheck, room, hist
  <2>2. CASE User(t) \in active
    BY <1>1, <2>1, <2>2, GotoStep DEF HeartbeatCheck, At, PC, GateInv
  <2>3. CASE User(t) \notin active
    BY <1>1, <2>1, <2>3, DoneStep DEF HeartbeatCheck, GateInv
  <2>4. QED
    BY <2>2, <2>3
<1>2. CASE HeartbeatSet(t)
  <2>1. User(t) \in gated
    BY <1>2 DEF HeartbeatSet, At, GateInv, Cleared, Admitting
  <2>2. QED
    BY <1>2, <2>1, DoneStep DEF HeartbeatSet, hist, GateInv
<1>3. QED
  BY <1>1, <1>2

\* The invariant holds in an empty room.
LEMMA GateInit == Init => GateInv
<1> SUFFICES ASSUME Init
             PROVE  GateInv
  OBVIOUS
<1>1. task \in [Tasks -> HandlerNext({}) \cup {NoTask}]
  BY DEF Init
<1>2. QED
  BY <1>1 DEF Init, GateInv, TasksOK, Cleared

\* Every step keeps it.
LEMMA GateStep == GateInv /\ [Next]_vars => GateInv'
<1> SUFFICES ASSUME GateInv, [Next]_vars
             PROVE  GateInv'
  OBVIOUS
<1>1. ASSUME NEW t \in Tasks, Tab(t) \/ Step(t)
      PROVE  GateInv'
  BY <1>1, TabStep, JoinStep, LeaveStep, HeartbeatStep DEF Step
<1>2. CASE Elsewhere \/ (\E u \in Users : Demote(u)) \/ UNCHANGED vars
  <2>1. UNCHANGED <<active, gated, task>>
    BY <1>2 DEF Elsewhere, Reconnect, ExpireTtl, Demote, room, hist, vars
  <2>2. QED
    BY <2>1 DEF GateInv, TasksOK, Cleared, User
<1>3. QED
  BY <1>1, <1>2 DEF Next

\* Nobody is in the room, or about to enter it, who has not passed the gate.
THEOREM GateInvariant == Spec => []GateInv
  BY GateInit, GateStep, PTL DEF Spec

\* Whatever the handlers of a room interleave, an offer, answer or candidate is
\* relayed only between two users who both passed the view gate.
THEOREM RelayGated == Spec => []RelayBetweenGated
<1>1. GateInv => RelayBetweenGated
  BY DEF GateInv, RelayBetweenGated, RelayAllowed
<1>2. QED
  BY GateInvariant, <1>1, PTL

-----------------------------------------------------------------------------
(***************************************************************************)
(* No seat stays free while somebody queues for it (NoIdleSeat).  The seat *)
(* is never counted in one place for long: a leave has given it up before  *)
(* it has found the next user, that user's tab is told before it asks, and *)
(* it asks before it is in.  SeatInv counts seats that are taken together  *)
(* with those on their way to somebody (Seats), and what a leave still has *)
(* to hand on (Owed).  It needs to know besides that whoever queues has a  *)
(* tab that will answer (Attended), that nobody queues twice, and that the *)
(* one handler which runs is alone (Overlap is FALSE: with it, two joins   *)
(* read the same room).                                                    *)
(***************************************************************************)

\* A set of naturals that is not empty has a least element.
LEMMA LeastExists ==
  ASSUME NEW T \in SUBSET Nat, T # {}
  PROVE  \E x \in T : \A y \in T : ~ (y < x)
<1>1. PICK x \in T : \A y \in T : ~ (<<y, x>> \in OpToRel(<, Nat))
  BY NatLessThanWellFounded, WFMin, ZenonT(30)
<1>2. \A y \in T : ~ (y < x)
  BY <1>1, Zenon DEF OpToRel
<1>3. QED
  BY <1>2

\* Without is what its recursion says: some function satisfies it.
LEMMA WithoutIs ==
  ASSUME NEW S, NEW q \in Seq(S), NEW u
  PROVE  \E kept :
           /\ kept = [i \in 0 .. Len(q) |->
                IF i = 0 THEN <<>> ELSE IF q[i] = u THEN kept[i - 1] ELSE Append(kept[i - 1], q[i])]
           /\ Without(q, u) = kept[Len(q)]
<1> DEFINE Stage(f, i) == IF i = 0 THEN <<>> ELSE IF q[i] = u THEN f[i - 1] ELSE Append(f[i - 1], q[i])
           Starts(f, n) == f = [i \in 0 .. n |-> Stage(f, i)]
           T == {n \in 0 .. Len(q) : ~ \E f : Starts(f, n)}
<1>1. T = {}
  <2> SUFFICES ASSUME T # {}
               PROVE  FALSE
    OBVIOUS
  <2>1. T \in SUBSET Nat
    OBVIOUS
  <2> HIDE DEF T
  <2>2. PICK n \in T : \A m \in T : ~ (m < n)
    BY <2>1, LeastExists
  <2> USE DEF T
  <2>3. n \in 0 .. Len(q) /\ n \in Nat /\ Len(q) \in Nat
    OBVIOUS
  <2>4. CASE n = 0
    <3>1. Starts([i \in 0 .. 0 |-> <<>>], 0)
      OBVIOUS
    <3>2. QED
      BY <2>4, <3>1
  <2>5. CASE n # 0
    <3>1. n - 1 \in 0 .. Len(q) /\ n - 1 < n /\ n - 1 \in Nat
      BY <2>3, <2>5
    <3>2. n - 1 \notin T
      BY <2>2, <3>1
    <3>3. PICK f : Starts(f, n - 1)
      BY <3>1, <3>2
    <3> DEFINE g == [i \in 0 .. n |-> IF i = n THEN Stage(f, n) ELSE f[i]]
    <3>4. \A i \in 0 .. n : g[i] = IF i = n THEN Stage(f, n) ELSE f[i]
      OBVIOUS
    <3>5. ASSUME NEW i \in 0 .. n
          PROVE  g[i] = Stage(g, i)
      <4>1. i # 0 => i - 1 \in 0 .. n /\ i - 1 # n /\ g[i - 1] = f[i - 1]
        BY <2>3, <3>4
      <4>2. Stage(g, i) = Stage(f, i)
        BY <4>1
      <4>3. i # n => f[i] = Stage(f, i)
        <5> SUFFICES ASSUME i # n
                     PROVE  f[i] = Stage(f, i)
          OBVIOUS
        <5>1. i \in 0 .. (n - 1)
          BY <2>3
        <5>2. QED
          BY <3>3, <5>1
      <4>4. QED
        BY <3>4, <4>2, <4>3
    <3>6. Starts(g, n)
      BY <3>5
    <3>7. QED
      BY <3>6
  <2>6. QED
    BY <2>4, <2>5
<1>2. Len(q) \in 0 .. Len(q)
  OBVIOUS
<1>3. \E f : Starts(f, Len(q))
  BY <1>1, <1>2
<1> DEFINE kept == CHOOSE f : Starts(f, Len(q))
<1>4. Starts(kept, Len(q))
  BY <1>3
<1>5. Without(q, u) = kept[Len(q)]
  BY DEF Without
<1> HIDE DEF kept
<1>6. QED
  BY <1>4, <1>5

Once(q) == \A i, j \in 1 .. Len(q) : q[i] = q[j] => i = j
Entries(q) == {q[i] : i \in 1 .. Len(q)}

\* It keeps entries of q only, none of them u's, and none twice that q has once.
LEMMA WithoutKeeps ==
  ASSUME NEW S, NEW q \in Seq(S), NEW u
  PROVE  /\ Without(q, u) \in Seq(S)
         /\ Entries(Without(q, u)) \subseteq Entries(q) \ {u}
         /\ Once(q) => Once(Without(q, u))
<1>1. PICK kept :
           /\ kept = [i \in 0 .. Len(q) |->
                IF i = 0 THEN <<>> ELSE IF q[i] = u THEN kept[i - 1] ELSE Append(kept[i - 1], q[i])]
           /\ Without(q, u) = kept[Len(q)]
  BY WithoutIs
<1> DEFINE Good(n) ==
             /\ kept[n] \in Seq(S)
             /\ \A i \in 1 .. Len(kept[n]) : \E j \in 1 .. n : kept[n][i] = q[j] /\ q[j] # u
             /\ Once(q) => Once(kept[n])
           T == {n \in 0 .. Len(q) : ~ Good(n)}
<1>2. T = {}
  <2> SUFFICES ASSUME T # {}
               PROVE  FALSE
    OBVIOUS
  <2>1. T \in SUBSET Nat
    OBVIOUS
  <2> HIDE DEF T
  <2>2. PICK n \in T : \A m \in T : ~ (m < n)
    BY <2>1, LeastExists
  <2> USE DEF T
  <2>3. n \in 0 .. Len(q) /\ n \in Nat /\ Len(q) \in Nat /\ ~ Good(n)
    OBVIOUS
  <2>4. kept[n] = IF n = 0 THEN <<>> ELSE IF q[n] = u THEN kept[n - 1] ELSE Append(kept[n - 1], q[n])
    BY <1>1, <2>3
  <2>5. CASE n = 0
    <3>1. kept[n] = <<>> /\ Len(kept[n]) = 0
      BY <2>4, <2>5
    <3>2. Good(n)
      BY <3>1 DEF Once
    <3>3. QED
      BY <2>3, <3>2
  <2>6. CASE n # 0
    <3>1. n - 1 \in 0 .. Len(q) /\ n - 1 < n /\ n \in 1 .. Len(q) /\ q[n] \in S
      BY <2>3, <2>6
    <3>2. Good(n - 1)
      BY <2>2, <3>1
    <3> DEFINE old == kept[n - 1]
               new == kept[n]
    <3>3. /\ old \in Seq(S)
          /\ \A i \in 1 .. Len(old) : \E j \in 1 .. (n - 1) : old[i] = q[j] /\ q[j] # u
          /\ Once(q) => Once(old)
      BY <3>2
    <3>4. new = IF q[n] = u THEN old ELSE Append(old, q[n])
      BY <2>4, <2>6
    <3>5. ASSUME NEW j \in 1 .. (n - 1)
          PROVE  j \in 1 .. n /\ j # n /\ j \in 1 .. Len(q)
      BY <3>1, <2>3
    <3>6. ~ (new \in Seq(S) /\ (\A i \in 1 .. Len(new) : \E j \in 1 .. n : new[i] = q[j] /\ q[j] # u)
                            /\ (Once(q) => Once(new)))
      BY <2>3
    <3> HIDE DEF T, Good, old, new
    <3>7. CASE q[n] = u
      BY <3>3, <3>4, <3>5, <3>6, <3>7
    <3>8. CASE q[n] # u
      <4>1. new = Append(old, q[n]) /\ new \in Seq(S) /\ Len(new) = Len(old) + 1 /\ Len(old) \in Nat
        BY <3>1, <3>3, <3>4, <3>8
      <4>2. /\ \A i \in 1 .. Len(old) : new[i] = old[i]
            /\ new[Len(old) + 1] = q[n]
        BY <3>3, <4>1
      <4>3. ASSUME NEW i \in 1 .. Len(new)
            PROVE  \E j \in 1 .. n : new[i] = q[j] /\ q[j] # u
        <5>1. CASE i \in 1 .. Len(old)
          BY <5>1, <4>2, <3>3, <3>5
        <5>2. CASE i = Len(old) + 1
          BY <5>2, <4>2, <3>8, <2>3, <3>1
        <5>3. QED
          BY <5>1, <5>2, <4>1
      <4>4. ASSUME Once(q), NEW i \in 1 .. Len(new), NEW k \in 1 .. Len(new), new[i] = new[k]
            PROVE  i = k
        <5>1. \A m \in 1 .. Len(old) : new[m] # q[n]
          BY <3>3, <3>5, <4>2, <4>4, <3>1 DEF Once
        <5>2. \A m, o \in 1 .. Len(old) : new[m] = new[o] => m = o
          BY <3>3, <4>2, <4>4 DEF Once
        <5>3. i \in 1 .. Len(old) \/ i = Len(old) + 1
          BY <4>1
        <5>4. k \in 1 .. Len(old) \/ k = Len(old) + 1
          BY <4>1
        <5>5. QED
          BY <5>1, <5>2, <5>3, <5>4, <4>2, <4>4
      <4>5. QED
        BY <3>6, <4>1, <4>3, <4>4 DEF Once
    <3>9. QED
      BY <3>7, <3>8
  <2>7. QED
    BY <2>5, <2>6
<1>3. Good(Len(q))
  BY <1>2
<1>4. Without(q, u) \in Seq(S) /\ (Once(q) => Once(Without(q, u)))
  BY <1>1, <1>3
<1>5. \A i \in 1 .. Len(Without(q, u)) : \E j \in 1 .. Len(q) : Without(q, u)[i] = q[j] /\ q[j] # u
  BY <1>1, <1>3
<1>6. QED
  BY <1>4, <1>5 DEF Entries

Waiting == Entries(queue)
AliveWaits == \E u \in ttl : u \in Waiting
Present(u) == \E s \in joined : UserOf[s] = u

In(h, pcs) == h # NoTask /\ h.pc \in pcs
Runner(h) == UserOf[h.sock]
Entering == {"gate", "snapshot", "add"}
Queueing == {"check", "push", "setTtl"}
Searching == {"exists", "admit"}
Passing == {"hdel", "lrem", "delTtl", "lpop"} \cup Searching

\* The handler that runs, if one does.
Sole(h) ==
  \/ h = NoTask /\ task = [u \in Tasks |-> NoTask]
  \/ /\ h \in Handler /\ ~ h.gone
     /\ \E t \in Tasks : task = [u \in Tasks |-> IF u = t THEN h ELSE NoTask]

\* A seat is taken by a user of the room, or by one who is on the way there:
\* an invitation goes to a tab that has joined, or a handler is letting it in.
Answering == {UserOf[s] : s \in invited \cap joined}
Seats(h) ==
  LET coming == Answering \cup (IF In(h, Entering) THEN {Runner(h)} ELSE {})
      waits == Waiting \cup (IF In(h, Searching) THEN {h.next} ELSE {})
  IN (active \cup (coming \ waits)) \ (IF In(h, {"hdel"}) THEN {Runner(h)} ELSE {})

\* A leave owes the queue one invitation until it has sent it.
Owed(h) == IF In(h, Passing) THEN 1 ELSE 0

Shape ==
  /\ active \subseteq Users /\ viewers \subseteq Users
  /\ queue \in Seq(Users) /\ Once(queue)
  /\ joined \subseteq client \cap conn /\ invited \subseteq conn /\ conn \subseteq Sockets
  /\ fallback => queue = <<>>

\* Whoever queues has a tab that will answer, unless its leave is under way.
Attended(h) ==
  /\ \A u \in Waiting : Present(u) \/ (In(h, {"hdel", "lrem"}) /\ u = Runner(h))
  /\ In(h, Entering \cup {"overflow"} \cup Queueing) => h.sock \in client \cap conn
  /\ In(h, {"snapshot", "add", "overflow"} \cup Queueing) => h.sock \in joined
  /\ In(h, {"overflow"}) => fallback
  /\ In(h, {"check", "push"}) => ~ fallback
  /\ In(h, {"push"}) => Runner(h) \notin Waiting
  /\ In(h, Searching) => Present(h.next) /\ h.next \notin Waiting
  /\ In(h, Queueing) => Cardinality(active \ {Runner(h)}) >= MaxPeers

Promised(h) ==
  viewers = Users /\ ~ wasted /\ AliveWaits => Cardinality(Seats(h)) + Owed(h) >= MaxPeers

Held(h) == Shape /\ Sole(h) /\ Attended(h) /\ Promised(h)

SeatInv == \E h \in Handler \cup {NoTask} : Held(h)

\* A handler that runs has the fields of one, and a user.
LEMMA Fields ==
  ASSUME NEW h \in Handler
  PROVE  /\ h # NoTask /\ h.pc \in PC /\ h.sock \in Sockets /\ h.gone \in BOOLEAN /\ h.next \in Users
         /\ Runner(h) \in Users
  BY P2PRoomAssumption DEF Handler, NoTask, Runner

\* The handler that takes a step is the only one.
LEMMA SoleAt ==
  ASSUME NEW h \in Handler \cup {NoTask}, Sole(h), NEW t \in Tasks, task[t] # NoTask
  PROVE  /\ h \in Handler /\ ~ h.gone /\ task[t] = h /\ User(t) = Runner(h)
         /\ task = [u \in Tasks |-> IF u = t THEN h ELSE NoTask]
<1>1. h # NoTask
  BY DEF Sole
<1>2. h \in Handler /\ ~ h.gone
  BY <1>1 DEF Sole
<1>3. PICK w \in Tasks : task = [u \in Tasks |-> IF u = w THEN h ELSE NoTask]
  BY <1>1 DEF Sole
<1>4. t = w /\ task[t] = h
  BY <1>3
<1>5. QED
  BY <1>2, <1>3, <1>4 DEF User, Runner

\* Between handlers there is none.
LEMMA SoleIdle ==
  ASSUME NEW h \in Handler \cup {NoTask}, Sole(h), Quiet
  PROVE  h = NoTask /\ task = [u \in Tasks |-> NoTask]
<1> SUFFICES ASSUME h # NoTask
             PROVE  FALSE
  BY DEF Sole
<1>1. PICK w \in Tasks : task = [u \in Tasks |-> IF u = w THEN h ELSE NoTask]
  BY DEF Sole
<1>2. task[w] = h
  BY <1>1
<1>3. QED
  BY <1>2 DEF Quiet

\* It goes on to its next Redis call, for the same tab and the same next user.
LEMMA SoleGoto ==
  ASSUME NEW h \in Handler, ~ h.gone, NEW t \in Tasks, NEW pc \in PC, Goto(t, pc),
         task = [u \in Tasks |-> IF u = t THEN h ELSE NoTask]
  PROVE  \E g \in Handler : Sole(g)' /\ g.pc = pc /\ g.sock = h.sock /\ g.next = h.next
<1> DEFINE g == [h EXCEPT !.pc = pc]
<1>1. g \in Handler /\ g.pc = pc /\ g.sock = h.sock /\ g.next = h.next /\ g.gone = h.gone
  BY DEF Handler
<1>2. task[t] = h
  OBVIOUS
<1>3. task' = [u \in Tasks |-> IF u = t THEN g ELSE NoTask]
  BY <1>2 DEF Goto
<1> HIDE DEF g
<1>4. QED
  BY <1>1, <1>3 DEF Sole

\* It returns, and no handler runs.
LEMMA SoleDone ==
  ASSUME NEW h, NEW t \in Tasks, Done(t), task = [u \in Tasks |-> IF u = t THEN h ELSE NoTask]
  PROVE  Sole(NoTask)'
<1>1. task' = [u \in Tasks |-> NoTask]
  BY DEF Done
<1>2. QED
  BY <1>1 DEF Sole

\* A handler starts where none ran.
LEMMA SoleStart ==
  ASSUME NEW t \in Tasks, NEW pc \in PC, NEW s \in Sockets, task' = Started(task, t, pc, s),
         task = [u \in Tasks |-> NoTask]
  PROVE  \E g \in Handler : Sole(g)' /\ g.pc = pc /\ g.sock = s
<1> DEFINE g == [kind |-> "run", pc |-> pc, sock |-> s, gone |-> FALSE, next |-> UserOf[s]]
<1>1. g \in Handler /\ g.pc = pc /\ g.sock = s /\ ~ g.gone
  BY P2PRoomAssumption DEF Handler
<1>2. task' = [u \in Tasks |-> IF u = t THEN g ELSE NoTask]
  BY DEF Started
<1> HIDE DEF g
<1>3. QED
  BY <1>1, <1>2 DEF Sole

-----------------------------------------------------------------------------

\* The finite sets of users involved compare like their sizes.
LEMMA FewerSeats ==
  ASSUME NEW A, NEW B, IsFiniteSet(B), A \subseteq B
  PROVE  /\ IsFiniteSet(A)
         /\ Cardinality(A) \in Nat /\ Cardinality(B) \in Nat
         /\ Cardinality(A) <= Cardinality(B)
  BY FS_Subset, FS_CardinalityType

\* Only users take seats.
LEMMA SeatsFinite ==
  ASSUME IsFiniteSet(Users), NEW g \in Handler \cup {NoTask}, Shape'
  PROVE  IsFiniteSet(Seats(g)')
<1>1. Seats(g)' \subseteq Users
  <2>1. active' \subseteq Users /\ joined' \subseteq Sockets
    BY DEF Shape
  <2>2. Answering' \subseteq Users
    BY <2>1, P2PRoomAssumption DEF Answering
  <2>3. g # NoTask => Runner(g) \in Users
    BY Fields
  <2>4. QED
    BY <2>1, <2>2, <2>3 DEF Seats, In
<1>2. QED
  BY <1>1, FS_Subset

\* A step that takes no seat away, and owes no less, keeps the promise.
LEMMA PromiseKept ==
  ASSUME IsFiniteSet(Users), NEW h, NEW g \in Handler \cup {NoTask}, Promised(h), Shape',
         viewers' = Users /\ ~ wasted' => viewers = Users /\ ~ wasted,
         AliveWaits' => AliveWaits,
         Seats(h) \subseteq Seats(g)', Owed(h) <= Owed(g)
  PROVE  Promised(g)'
<1>1. /\ Cardinality(Seats(h)) \in Nat /\ Cardinality(Seats(g)') \in Nat
      /\ Cardinality(Seats(h)) <= Cardinality(Seats(g)')
  BY SeatsFinite, FewerSeats
<1>2. Owed(h) \in Nat /\ Owed(g) \in Nat
  BY DEF Owed
<1>3. QED
  BY <1>1, <1>2, P2PRoomAssumption DEF Promised, Owed, In

\* A seat that is given up is owed.
LEMMA PromiseOwed ==
  ASSUME IsFiniteSet(Users), NEW h, NEW g \in Handler \cup {NoTask}, NEW u, Promised(h), Shape',
         viewers' = Users /\ ~ wasted' => viewers = Users /\ ~ wasted,
         AliveWaits' => AliveWaits,
         Seats(h) \ {u} \subseteq Seats(g)', IsFiniteSet(Seats(h)), Owed(h) = 0, Owed(g) = 1
  PROVE  Promised(g)'
<1>1. /\ Cardinality(Seats(h) \ {u}) \in Nat /\ Cardinality(Seats(g)') \in Nat
      /\ Cardinality(Seats(h) \ {u}) <= Cardinality(Seats(g)')
  BY SeatsFinite, FewerSeats
<1>2. /\ Cardinality(Seats(h)) \in Nat
      /\ Cardinality(Seats(h) \ {u}) >= Cardinality(Seats(h)) - 1
  <2> DEFINE S == Seats(h)
  <2>1. IsFiniteSet(S)
    OBVIOUS
  <2> HIDE DEF S
  <2>2. Cardinality(S) \in Nat
    BY <2>1, FS_CardinalityType
  <2>3. Cardinality(S \ {u}) = IF u \in S THEN Cardinality(S) - 1 ELSE Cardinality(S)
    BY <2>1, FS_RemoveElement
  <2>4. QED
    BY <2>2, <2>3 DEF S
<1>3. QED
  BY <1>1, <1>2, P2PRoomAssumption DEF Promised, Owed, In

\* What holds of a room without a handler goes over to the one that starts.
LEMMA IdlePromise ==
  ASSUME IsFiniteSet(Users), Held(NoTask)
  PROVE  /\ Seats(NoTask) = active \cup (Answering \ Waiting)
         /\ Owed(NoTask) = 0
         /\ IsFiniteSet(Seats(NoTask))
<1>1. /\ Seats(NoTask) = active \cup (Answering \ Waiting)
      /\ Owed(NoTask) = 0
  BY DEF Seats, Owed, In
<1>2. active \subseteq Users /\ Answering \subseteq Users
  BY P2PRoomAssumption DEF Held, Shape, Answering
<1>3. QED
  BY <1>1, <1>2, FS_Subset

\* A tab joins, or its heartbeat fires.
LEMMA MountHeld ==
  ASSUME ~ Overlap, IsFiniteSet(Users), NEW h \in Handler \cup {NoTask}, Held(h),
         NEW t \in Tasks, NEW s \in Sockets, Mount(t, s) \/ Heartbeat(t, s)
  PROVE  SeatInv'
<1>1. h = NoTask /\ task = [u \in Tasks |-> NoTask]
  BY SoleIdle DEF Mount, Heartbeat, Start, Free, Held
<1>2. /\ UNCHANGED <<active, queue, ttl, joined, conn, invited, viewers, fallback, wasted>>
      /\ client \subseteq client' /\ s \in conn
  BY DEF Mount, Heartbeat, room, tabs, topic, hist
<1>3. PICK pc \in {"gate", "hexists"} : task' = Started(task, t, pc, s) /\ (pc = "gate" => s \in client')
  BY DEF Mount, Heartbeat, Start
<1>4. PICK g \in Handler : Sole(g)' /\ g.pc = pc /\ g.sock = s
  BY <1>1, <1>3, SoleStart DEF PC
<1>5. Shape'
  BY <1>1, <1>2 DEF Held, Shape
<1>6. Waiting' = Waiting /\ AliveWaits' = AliveWaits /\ Answering' = Answering
  BY <1>2 DEF Waiting, AliveWaits, Answering
<1>7. Attended(g)'
  <2>1. \A u \in Waiting : Present(u)
    BY <1>1 DEF Held, Attended, In
  <2>2. \A u \in Waiting' : Present(u)'
    BY <2>1, <1>2, <1>6 DEF Present
  <2>3. QED
    BY <2>2, <1>2, <1>3, <1>4 DEF Attended, In, Queueing, Entering, Searching
<1>8. Promised(g)'
  <2>1. Seats(h) \subseteq Seats(g)'
    BY <1>1, <1>2, <1>4, <1>6, IdlePromise DEF Seats, In, Entering, Searching
  <2>2. Owed(h) = 0 /\ Owed(g) = 0
    BY <1>1, <1>4 DEF Owed, In, Passing, Searching
  <2>3. QED
    BY <2>1, <2>2, <1>2, <1>5, <1>6, PromiseKept DEF Held
<1>9. QED
  BY <1>4, <1>5, <1>7, <1>8 DEF SeatInv, Held

\* The invited tab answers, or has been closed: then it had not joined.
LEMMA OnAdmittedHeld ==
  ASSUME ~ Overlap, IsFiniteSet(Users), NEW h \in Handler \cup {NoTask}, Held(h),
         NEW t \in Tasks, NEW s \in Sockets, OnAdmitted(t, s)
  PROVE  SeatInv'
<1>1. h = NoTask /\ task = [u \in Tasks |-> NoTask]
  BY SoleIdle DEF OnAdmitted, Free, Held
<1>2. /\ UNCHANGED <<active, queue, ttl, joined, conn, client, viewers, fallback, wasted>>
      /\ s \in invited /\ invited' = invited \ {s}
  BY DEF OnAdmitted, room, topic, hist
<1>3. Shape'
  BY <1>2 DEF Held, Shape
<1>4. Waiting' = Waiting /\ AliveWaits' = AliveWaits
  BY <1>2 DEF Waiting, AliveWaits
<1>5. \A u \in Waiting' : Present(u)'
  <2>1. \A u \in Waiting : Present(u)
    BY <1>1 DEF Held, Attended, In
  <2>2. QED
    BY <2>1, <1>2, <1>4 DEF Present
<1>6. CASE s \in client
  <2>1. task' = Started(task, t, "gate", s)
    BY <1>6 DEF OnAdmitted, Start
  <2>2. PICK g \in Handler : Sole(g)' /\ g.pc = "gate" /\ g.sock = s
    BY <1>1, <2>1, SoleStart DEF PC
  <2>3. Attended(g)'
    <3>1. g.sock \in client' \cap conn'
      BY <1>2, <1>6, <2>2 DEF Held, Shape
    <3>2. QED
      BY <1>5, <2>2, <3>1 DEF Attended, In, Queueing, Entering, Searching
  <2>4. Seats(h) \subseteq Seats(g)'
    <3>1. Answering \subseteq Answering' \cup {UserOf[s]}
      BY <1>2 DEF Answering
    <3>2. Seats(g)' = active' \cup ((Answering' \cup {UserOf[s]}) \ Waiting')
      BY <2>2, Fields DEF Seats, In, Entering, Searching, Runner
    <3>3. QED
      BY <1>1, <1>2, <1>4, <3>1, <3>2, IdlePromise
  <2>5. Owed(h) = 0 /\ Owed(g) = 0
    BY <1>1, <2>2 DEF Owed, In, Passing, Searching
  <2>6. Promised(g)'
    BY <2>4, <2>5, <1>2, <1>3, <1>4, PromiseKept DEF Held
  <2>7. QED
    BY <2>2, <2>3, <2>6, <1>3 DEF SeatInv, Held
<1>7. CASE s \notin client
  <2>1. task' = task
    BY <1>7 DEF OnAdmitted
  <2>2. Sole(NoTask)'
    BY <2>1, <1>1 DEF Sole
  <2>3. Attended(NoTask)'
    BY <1>5 DEF Attended, In
  <2>4. Answering' = Answering
    BY <1>2, <1>7 DEF Answering, Held, Shape
  <2>5. Seats(NoTask) \subseteq Seats(NoTask)'
    BY <1>2, <1>4, <2>4 DEF Seats, In
  <2>6. Owed(NoTask) <= Owed(NoTask)
    BY DEF Owed
  <2>7. Promised(NoTask)'
    BY <2>5, <2>6, <1>1, <1>2, <1>3, <1>4, PromiseKept DEF Held
  <2>8. QED
    BY <2>2, <2>3, <2>7, <1>3 DEF SeatInv, Held
<1>8. QED
  BY <1>6, <1>7

\* A tab that is closed, or drops: its leave begins, and owes an invitation.
LEMMA LeaveHeld ==
  ASSUME ~ Overlap, IsFiniteSet(Users), Held(NoTask), NEW t \in Tasks, NEW s \in Sockets,
         task' = Started([u \in Tasks |-> NoTask], t, "hdel", s),
         UNCHANGED <<active, queue, ttl, viewers, fallback, wasted>>,
         joined' = joined \ {s}, joined' \subseteq client' \cap conn', conn' \subseteq conn,
         invited \ {s} \subseteq invited', invited' \subseteq invited, invited' \subseteq conn'
  PROVE  SeatInv'
<1>1. PICK g \in Handler : Sole(g)' /\ g.pc = "hdel" /\ g.sock = s
  <2>1. Started([u \in Tasks |-> NoTask], t, "hdel", s) =
          [u \in Tasks |->
             IF u = t THEN [kind |-> "run", pc |-> "hdel", sock |-> s, gone |-> FALSE, next |-> UserOf[s]]
             ELSE NoTask]
    BY DEF Started
  <2> DEFINE g == [kind |-> "run", pc |-> "hdel", sock |-> s, gone |-> FALSE, next |-> UserOf[s]]
  <2>2. g \in Handler /\ g.pc = "hdel" /\ g.sock = s /\ ~ g.gone
    BY P2PRoomAssumption DEF Handler, PC
  <2>3. task' = [u \in Tasks |-> IF u = t THEN g ELSE NoTask]
    BY <2>1
  <2> HIDE DEF g
  <2>4. QED
    BY <2>2, <2>3 DEF Sole
<1>2. Shape'
  BY DEF Held, Shape
<1>3. Waiting' = Waiting /\ AliveWaits' = AliveWaits /\ Runner(g) = UserOf[s]
  BY <1>1 DEF Waiting, AliveWaits, Runner
<1>4. Attended(g)'
  <2>1. \A u \in Waiting : Present(u)
    BY DEF Held, Attended, In
  <2>2. \A u \in Waiting' : Present(u)' \/ u = UserOf[s]
    BY <2>1, <1>3 DEF Present
  <2>3. QED
    BY <1>1, <1>3, <2>2, Fields DEF Attended, In, Entering, Queueing, Searching
<1>5. Promised(g)'
  <2>1. Answering \subseteq Answering' \cup {UserOf[s]}
    BY DEF Answering
  <2>2. Seats(g)' = (active' \cup (Answering' \ Waiting')) \ {UserOf[s]}
    BY <1>1, <1>3, Fields DEF Seats, In, Entering, Searching
  <2>3. Seats(NoTask) \ {UserOf[s]} \subseteq Seats(g)'
    BY <1>3, <2>1, <2>2, IdlePromise
  <2>4. Owed(NoTask) = 0 /\ Owed(g) = 1 /\ IsFiniteSet(Seats(NoTask))
    BY <1>1, IdlePromise, Fields DEF Owed, In, Passing
  <2>5. QED
    BY <2>3, <2>4, <1>2, <1>3, PromiseOwed DEF Held
<1>6. QED
  BY <1>1, <1>2, <1>4, <1>5 DEF SeatInv, Held

\* The view is closed.
LEMMA UnmountHeld ==
  ASSUME ~ Overlap, IsFiniteSet(Users), NEW h \in Handler \cup {NoTask}, Held(h),
         NEW t \in Tasks, NEW s \in Sockets, Unmount(t, s)
  PROVE  SeatInv'
<1>1. h = NoTask /\ task = [u \in Tasks |-> NoTask]
  BY SoleIdle DEF Unmount, Start, Free, Held
<1>2. task' = Started([u \in Tasks |-> NoTask], t, "hdel", s)
  BY <1>1 DEF Unmount, Start
<1>3. /\ UNCHANGED <<active, queue, ttl, viewers, fallback, wasted>>
      /\ joined' = joined \ {s} /\ joined' \subseteq client' \cap conn'
      /\ conn' = conn /\ invited' = invited /\ invited' \subseteq conn'
  BY DEF Unmount, Held, Shape, room, topic, hist
<1>4. QED
  BY <1>1, <1>2, <1>3, LeaveHeld

\* The connection drops; a tab that had not joined takes no seat with it.
LEMMA DisconnectHeld ==
  ASSUME ~ Overlap, IsFiniteSet(Users), NEW h \in Handler \cup {NoTask}, Held(h),
         NEW t \in Tasks, NEW s \in Sockets, Disconnect(t, s)
  PROVE  SeatInv'
<1>1. h = NoTask /\ task = [u \in Tasks |-> NoTask]
  BY SoleIdle DEF Disconnect, Free, Held
<1>2. /\ UNCHANGED <<active, queue, ttl, viewers, fallback, wasted>>
      /\ joined' = joined \ {s} /\ joined' \subseteq client' \cap conn'
      /\ conn' \subseteq conn /\ invited' = invited \ {s} /\ invited' \subseteq conn'
  <2>1. /\ UNCHANGED <<active, queue, ttl, viewers, fallback, wasted>>
        /\ joined' = joined \ {s} /\ conn' = conn \ {s} /\ invited' = invited \ {s}
        /\ client' = client \/ client' = client \ {s}
    BY DEF Disconnect, room, topic, hist
  <2>2. QED
    BY <2>1 DEF Held, Shape
<1> DEFINE orphans == [u \in Tasks |->
             IF task[u] # NoTask /\ task[u].sock = s THEN [task[u] EXCEPT !.gone = TRUE] ELSE task[u]]
<1>3. orphans = [u \in Tasks |-> NoTask]
  BY <1>1
<1>4. CASE s \in joined
  <2>1. task' = Started(orphans, t, "hdel", s)
    BY <1>4 DEF Disconnect
  <2>2. QED
    BY <1>1, <1>2, <1>3, <2>1, LeaveHeld
<1>5. CASE s \notin joined
  <2>1. task' = orphans
    BY <1>5 DEF Disconnect
  <2>2. Sole(NoTask)'
    BY <1>3, <2>1 DEF Sole
  <2>3. joined' = joined /\ Waiting' = Waiting /\ AliveWaits' = AliveWaits /\ Answering' = Answering
    BY <1>2, <1>5 DEF Waiting, AliveWaits, Answering
  <2>4. Shape'
    BY <1>2, <2>3 DEF Held, Shape
  <2>5. Attended(NoTask)'
    BY <1>1, <2>3 DEF Attended, In, Held, Present
  <2>6. Seats(NoTask) \subseteq Seats(NoTask)'
    BY <1>2, <2>3 DEF Seats, In
  <2>7. Owed(NoTask) <= Owed(NoTask)
    BY DEF Owed
  <2>8. Promised(NoTask)'
    BY <2>4, <2>6, <2>7, <1>1, <1>2, <2>3, PromiseKept DEF Held
  <2>9. QED
    BY <2>2, <2>4, <2>5, <2>8 DEF SeatInv, Held
<1>6. QED
  BY <1>4, <1>5

\* Reconnect, ExpireTtl, Demote: the handler that runs goes on where it was.
LEMMA ElsewhereHeld ==
  ASSUME IsFiniteSet(Users), NEW h \in Handler \cup {NoTask}, Held(h),
         \/ Elsewhere \/ (\E u \in Users : Demote(u)) \/ UNCHANGED vars
  PROVE  SeatInv'
<1>1. /\ UNCHANGED <<active, queue, joined, client, invited, fallback, wasted, task>>
      /\ ttl' \subseteq ttl /\ viewers' \subseteq viewers
      /\ conn \subseteq conn' /\ conn' \subseteq Sockets
  <2>1. CASE \E s \in Sockets : Reconnect(s)
    BY <2>1 DEF Reconnect, room, topic, hist, Held, Shape
  <2>2. CASE \E u \in Users : ExpireTtl(u)
    BY <2>2 DEF ExpireTtl, tabs, topic, hist, Held, Shape
  <2>3. CASE \E u \in Users : Demote(u)
    BY <2>3 DEF Demote, room, tabs, hist, Held, Shape
  <2>4. CASE UNCHANGED vars
    BY <2>4 DEF vars, Held, Shape
  <2>5. QED
    BY <2>1, <2>2, <2>3, <2>4 DEF Elsewhere
<1>2. Sole(h)'
  BY <1>1 DEF Held, Sole
<1>3. Shape'
  BY <1>1 DEF Held, Shape
<1>4. Waiting' = Waiting /\ (AliveWaits' => AliveWaits) /\ Answering' = Answering
  BY <1>1 DEF Waiting, AliveWaits, Answering
<1>5. Attended(h)'
  BY <1>1, <1>4 DEF Held, Attended, Present
<1>6. Seats(h)' = Seats(h) /\ Owed(h) <= Owed(h)
  BY <1>1, <1>4 DEF Seats, Owed
<1>7. viewers' = Users /\ ~ wasted' => viewers = Users /\ ~ wasted
  <2>1. viewers \subseteq Users
    BY DEF Held, Shape
  <2>2. QED
    BY <1>1, <2>1
<1>8. Promised(h)'
  BY <1>3, <1>4, <1>6, <1>7, PromiseKept DEF Held
<1>9. QED
  BY <1>2, <1>3, <1>5, <1>8 DEF SeatInv, Held

\* A step at pc is a step of the handler that runs.
LEMMA AtHeld ==
  ASSUME NEW h \in Handler \cup {NoTask}, Held(h), NEW t \in Tasks, NEW pc, At(t, pc)
  PROVE  /\ h \in Handler /\ ~ h.gone /\ h # NoTask /\ h.pc = pc
         /\ User(t) = Runner(h) /\ task[t] = h
         /\ task = [u \in Tasks |-> IF u = t THEN h ELSE NoTask]
<1>1. task[t] # NoTask
  BY DEF At
<1>2. QED
  BY <1>1, SoleAt, Fields DEF At, Held

\* The handler returns: nothing it still had to do is lost with it.
LEMMA ReturnHeld ==
  ASSUME IsFiniteSet(Users), NEW h \in Handler, Held(h), NEW t \in Tasks, Done(t),
         task = [u \in Tasks |-> IF u = t THEN h ELSE NoTask],
         UNCHANGED <<queue, joined, conn, client, invited, fallback, wasted>>,
         active' \subseteq Users, viewers' = viewers, AliveWaits' => AliveWaits \/ h.pc = "setTtl",
         h.pc \notin Passing,
         \/ active \cup ((IF h.pc \in Entering THEN {Runner(h)} ELSE {}) \ Waiting) \subseteq active'
         \/ h.pc \in Queueing /\ active \subseteq active'
         \/ viewers # Users /\ active \subseteq active'
         \/ fallback
  PROVE  SeatInv'
<1>1. Sole(NoTask)'
  BY SoleDone
<1>2. Shape'
  BY DEF Held, Shape
<1>3. Waiting' = Waiting /\ Answering' = Answering
  BY DEF Waiting, Answering
<1>4. h # NoTask
  BY Fields
<1>5. Attended(NoTask)'
  <2>1. \A u \in Waiting : Present(u)
    BY <1>4 DEF Held, Attended, In, Passing
  <2>2. QED
    BY <2>1, <1>3 DEF Attended, In, Present
<1>6. Promised(NoTask)'
  <2> SUFFICES ASSUME viewers' = Users, ~ wasted', AliveWaits'
               PROVE  Cardinality(Seats(NoTask)') >= MaxPeers
    <3>1. Owed(NoTask) = 0
      BY DEF Owed, In
    <3>2. Cardinality(Seats(NoTask)') \in Nat
      BY <1>2, SeatsFinite, FS_CardinalityType
    <3>3. QED
      BY <3>1, <3>2 DEF Promised
  <2>1. ~ fallback
    <3>1. queue # <<>>
      BY <1>3 DEF AliveWaits, Waiting, Entries
    <3>2. QED
      BY <3>1 DEF Held, Shape
  <2>2. Seats(NoTask)' = active' \cup (Answering \ Waiting)
    BY <1>3 DEF Seats, In
  <2>3. IsFiniteSet(Seats(NoTask)')
    BY <1>2, SeatsFinite
  <2>4. CASE h.pc \in Queueing
    <3>1. Cardinality(active \ {Runner(h)}) >= MaxPeers
      BY <1>4, <2>4 DEF Held, Attended, In
    <3>2. active \ {Runner(h)} \subseteq Seats(NoTask)'
      BY <2>1, <2>2, <2>4 DEF Queueing
    <3>3. QED
      BY <3>1, <3>2, <2>3, FewerSeats, P2PRoomAssumption
  <2>5. CASE h.pc \notin Queueing
    <3>1. AliveWaits
      BY <2>5 DEF Queueing
    <3>2. Seats(h) \subseteq Seats(NoTask)'
      BY <2>1, <2>2, <2>5, <1>4 DEF Seats, In, Passing
    <3>3. Owed(h) = 0
      BY DEF Owed, In
    <3>4. Cardinality(Seats(h)) <= Cardinality(Seats(NoTask)') /\ Cardinality(Seats(h)) \in Nat
           /\ Cardinality(Seats(NoTask)') \in Nat
      BY <3>2, <2>3, FewerSeats
    <3>5. QED
      BY <3>1, <3>3, <3>4, P2PRoomAssumption DEF Held, Promised
  <2>6. QED
    BY <2>4, <2>5
<1>7. QED
  BY <1>1, <1>2, <1>5, <1>6 DEF SeatInv, Held

\* P2P_JOIN up to the room: a joiner who is turned away found it full.
LEMMA JoinHeld ==
  ASSUME IsFiniteSet(Users), NEW h \in Handler \cup {NoTask}, Held(h), NEW t \in Tasks,
         Gate(t) \/ Snapshot(t) \/ AddActive(t) \/ AddOverflow(t)
  PROVE  SeatInv'
<1>1. CASE Gate(t)
  <2>1. /\ At(t, "gate")
        /\ UNCHANGED <<active, queue, ttl, conn, client, invited, viewers, fallback, wasted>>
    BY <1>1 DEF Gate, room, topic
  <2>2. /\ h \in Handler /\ ~ h.gone /\ h # NoTask /\ h.pc = "gate" /\ User(t) = Runner(h) /\ task[t] = h
        /\ task = [u \in Tasks |-> IF u = t THEN h ELSE NoTask]
    BY <2>1, AtHeld
  <2>3. CASE User(t) \in viewers
    <3>1. joined' = joined \cup {h.sock} /\ Goto(t, "snapshot")
      BY <1>1, <2>2, <2>3 DEF Gate
    <3>2. PICK g \in Handler : Sole(g)' /\ g.pc = "snapshot" /\ g.sock = h.sock
      BY <2>2, <3>1, SoleGoto DEF PC
    <3>3. h.sock \in client \cap conn
      BY <2>2 DEF Held, Attended, In, Entering
    <3>4. Shape'
      BY <2>1, <3>1, <3>3 DEF Held, Shape
    <3>5. Waiting' = Waiting /\ AliveWaits' = AliveWaits /\ Answering \subseteq Answering'
      BY <2>1, <3>1 DEF Waiting, AliveWaits, Answering
    <3>6. \A u \in Waiting' : Present(u)'
      <4>1. \A u \in Waiting : Present(u)
        BY <2>2 DEF Held, Attended, In
      <4>2. QED
        BY <4>1, <3>1, <3>5 DEF Present
    <3>7. Attended(g)'
      BY <2>1, <3>1, <3>2, <3>3, <3>6 DEF Attended, In, Entering, Queueing, Searching
    <3>8. Seats(h) \subseteq Seats(g)'
      BY <2>1, <2>2, <3>2, <3>5, Fields DEF Seats, In, Entering, Searching, Runner
    <3>9. Owed(h) = 0 /\ Owed(g) = 0
      BY <2>2, <3>2 DEF Owed, In, Passing, Searching
    <3>10. Promised(g)'
      BY <2>1, <3>4, <3>5, <3>8, <3>9, PromiseKept DEF Held
    <3>11. QED
      BY <3>2, <3>4, <3>7, <3>10 DEF SeatInv, Held
  <2>4. CASE User(t) \notin viewers
    <3>1. Done(t) /\ joined' = joined
      BY <1>1, <2>4 DEF Gate
    <3>2. viewers # Users
      BY <2>2, <2>4, Fields
    <3>3. AliveWaits' => AliveWaits
      BY <2>1 DEF AliveWaits, Waiting
    <3>4. h.pc \notin Passing
      BY <2>2 DEF Passing, Searching
    <3>5. active' \subseteq Users
      BY <2>1 DEF Held, Shape
    <3>6. QED
      BY <2>1, <2>2, <3>1, <3>2, <3>3, <3>4, <3>5, ReturnHeld
  <2>5. QED
    BY <2>3, <2>4
<1>2. CASE Snapshot(t)
  <2>1. /\ At(t, "snapshot") /\ Goto(t, Admission(Cardinality(Others(t))))
        /\ UNCHANGED <<active, queue, ttl, joined, conn, client, invited, viewers, fallback, wasted>>
    BY <1>2 DEF Snapshot, room, tabs, topic, hist
  <2>2. /\ h \in Handler /\ ~ h.gone /\ h # NoTask /\ h.pc = "snapshot" /\ User(t) = Runner(h)
        /\ task = [u \in Tasks |-> IF u = t THEN h ELSE NoTask]
    BY <2>1, AtHeld
  <2>3. PICK pc \in {"add", "overflow", "check"} :
           /\ Goto(t, pc)
           /\ pc = "overflow" => fallback
           /\ pc = "check" => ~ fallback /\ Cardinality(active \ {Runner(h)}) >= MaxPeers
    <3> DEFINE n == Cardinality(active \ {Runner(h)})
    <3>1. n \in Nat
      <4>1. active \ {Runner(h)} \subseteq Users
        BY DEF Held, Shape
      <4>2. QED
        BY <4>1, FewerSeats
    <3>2. Goto(t, Admission(n))
      BY <2>1, <2>2 DEF Others
    <3> HIDE DEF n
    <3>3. /\ Admission(n) \in {"add", "overflow", "check"}
          /\ Admission(n) = "overflow" => fallback
          /\ Admission(n) = "check" => ~ fallback /\ n >= MaxPeers
      BY <3>1, P2PRoomAssumption DEF Admission
    <3>4. QED
      BY <3>2, <3>3 DEF n
  <2>4. PICK g \in Handler : Sole(g)' /\ g.pc = pc /\ g.sock = h.sock
    BY <2>2, <2>3, SoleGoto DEF PC
  <2>5. Shape'
    BY <2>1 DEF Held, Shape
  <2>6. Waiting' = Waiting /\ AliveWaits' = AliveWaits /\ Answering' = Answering /\ Runner(g) = Runner(h)
    BY <2>1, <2>4 DEF Waiting, AliveWaits, Answering, Runner
  <2>7. Attended(g)'
    <3>1. (\A u \in Waiting : Present(u)) /\ h.sock \in client \cap conn /\ h.sock \in joined
      BY <2>2 DEF Held, Attended, In, Entering
    <3>2. \A u \in Waiting' : Present(u)'
      BY <3>1, <2>1, <2>6 DEF Present
    <3>3. QED
      BY <2>1, <2>3, <2>4, <2>6, <3>1, <3>2 DEF Attended, In, Entering, Queueing, Searching
  <2>8. Promised(g)'
    <3>1. CASE pc = "add"
      <4>1. Seats(h) \subseteq Seats(g)' /\ Owed(h) = 0 /\ Owed(g) = 0
        BY <3>1, <2>1, <2>2, <2>4, <2>6, Fields DEF Seats, Owed, In, Entering, Searching, Passing
      <4>2. QED
        BY <4>1, <2>1, <2>5, <2>6, PromiseKept DEF Held
    <3>2. CASE pc = "overflow"
      <4>1. ~ AliveWaits'
        <5>1. queue' = <<>>
          BY <3>2, <2>1, <2>3 DEF Held, Shape
        <5>2. QED
          BY <5>1 DEF AliveWaits, Waiting, Entries
      <4>2. QED
        BY <4>1 DEF Promised
    <3>3. CASE pc = "check"
      <4>1. active \ {Runner(h)} \subseteq Seats(g)' /\ Owed(g) = 0
        BY <3>3, <2>1, <2>4 DEF Seats, Owed, In, Entering, Searching, Passing
      <4>2. IsFiniteSet(Seats(g)')
        BY <2>5, SeatsFinite
      <4>3. QED
        BY <4>1, <4>2, <2>3, <3>3, FewerSeats, P2PRoomAssumption DEF Promised
    <3>4. QED
      BY <3>1, <3>2, <3>3
  <2>9. QED
    BY <2>4, <2>5, <2>7, <2>8 DEF SeatInv, Held
<1>3. CASE AddActive(t) \/ AddOverflow(t)
  <2>1. PICK pc \in {"add", "overflow"} : At(t, pc)
    BY <1>3 DEF AddActive, AddOverflow
  <2>2. /\ h \in Handler /\ ~ h.gone /\ h # NoTask /\ h.pc = pc /\ User(t) = Runner(h)
        /\ task = [u \in Tasks |-> IF u = t THEN h ELSE NoTask]
    BY <2>1, AtHeld
  <2>3. /\ active' = active \cup {Runner(h)} /\ Done(t)
        /\ UNCHANGED <<queue, ttl, joined, conn, client, invited, viewers, fallback, wasted>>
    BY <1>3, <2>2 DEF AddActive, AddOverflow, tabs, topic, hist
  <2>4. active' \subseteq Users
    BY <2>2, <2>3, Fields DEF Held, Shape
  <2>5. AliveWaits' => AliveWaits
    BY <2>3 DEF AliveWaits, Waiting
  <2>6. h.pc \notin Passing
    BY <2>2 DEF Passing, Searching
  <2>7. QED
    BY <2>2, <2>3, <2>4, <2>5, <2>6, ReturnHeld
<1>4. QED
  BY <1>1, <1>2, <1>3

\* enqueue: it runs only for a user who found the room full.
LEMMA QueueHeld ==
  ASSUME IsFiniteSet(Users), NEW h \in Handler \cup {NoTask}, Held(h), NEW t \in Tasks,
         EnqueueCheck(t) \/ EnqueuePush(t) \/ EnqueueTtl(t)
  PROVE  SeatInv'
<1>1. PICK pc \in Queueing : At(t, pc)
  BY DEF EnqueueCheck, EnqueuePush, EnqueueTtl, Queueing
<1>2. /\ h \in Handler /\ ~ h.gone /\ h # NoTask /\ h.pc = pc /\ User(t) = Runner(h)
      /\ task = [u \in Tasks |-> IF u = t THEN h ELSE NoTask]
      /\ Runner(h) \in Users
  BY <1>1, AtHeld, Fields
<1>3. UNCHANGED <<active, joined, conn, client, invited, viewers, fallback, wasted>>
  BY DEF EnqueueCheck, EnqueuePush, EnqueueTtl, room, tabs, topic, hist
<1>4. /\ h.sock \in client \cap conn /\ h.sock \in joined
      /\ Cardinality(active \ {Runner(h)}) >= MaxPeers
      /\ \A u \in Waiting : Present(u)
      /\ Present(Runner(h))
  BY <1>1, <1>2 DEF Held, Attended, In, Queueing, Present, Runner
<1>5. CASE EnqueueTtl(t) \/ (EnqueueCheck(t) /\ Contains(queue, User(t)))
  <2>1. Done(t) /\ queue' = queue /\ (AliveWaits' => AliveWaits \/ h.pc = "setTtl")
    BY <1>5, <1>2 DEF EnqueueCheck, EnqueueTtl, At, room, AliveWaits, Waiting
  <2>2. active' \subseteq Users /\ h.pc \notin Passing
    BY <1>1, <1>2, <1>3 DEF Held, Shape, Queueing, Passing, Searching
  <2>3. QED
    BY <1>1, <1>2, <1>3, <1>5, <2>1, <2>2, ReturnHeld
<1>6. CASE ~ (EnqueueTtl(t) \/ (EnqueueCheck(t) /\ Contains(queue, User(t))))
  <2>1. PICK new \in {"push", "setTtl"} :
          /\ Goto(t, new)
          /\ new = "push" => queue' = queue /\ pc = "check" /\ Runner(h) \notin Waiting
          /\ new = "setTtl" => queue' = Append(queue, Runner(h)) /\ pc = "push"
    <3>1. CASE EnqueueCheck(t)
      <4>1. ~ Contains(queue, Runner(h)) /\ Goto(t, "push") /\ queue' = queue /\ pc = "check"
        BY <3>1, <1>1, <1>2, <1>6 DEF EnqueueCheck, At, room
      <4>2. Runner(h) \notin Waiting
        BY <4>1 DEF Contains, Waiting, Entries
      <4>3. QED
        BY <4>1, <4>2
    <3>2. CASE EnqueuePush(t)
      BY <3>2, <1>1, <1>2 DEF EnqueuePush, At
    <3>3. CASE EnqueueTtl(t)
      BY <3>3, <1>6
    <3>4. QED
      BY <3>1, <3>2, <3>3
  <2>2. PICK g \in Handler : Sole(g)' /\ g.pc = new /\ g.sock = h.sock
    BY <1>2, <2>1, SoleGoto DEF PC
  <2>3. /\ Runner(g) = Runner(h)
        /\ ~ fallback
        /\ new = "setTtl" => Runner(h) \notin Waiting
    BY <1>2, <2>1, <2>2 DEF Held, Attended, In, Runner
  <2>4. /\ queue' \in Seq(Users) /\ Once(queue')
        /\ Waiting' \subseteq Waiting \cup {Runner(h)}
        /\ new = "push" => Waiting' = Waiting
    <3>1. CASE new = "push"
      BY <3>1, <2>1 DEF Held, Shape, Waiting
    <3>2. CASE new = "setTtl"
      <4>1. /\ queue \in Seq(Users) /\ Once(queue) /\ Runner(h) \in Users
            /\ \A i \in 1 .. Len(queue) : queue[i] # Runner(h)
        BY <3>2, <1>2, <2>3 DEF Held, Shape, Waiting, Entries
      <4>2. /\ queue' \in Seq(Users) /\ Len(queue') = Len(queue) + 1 /\ Len(queue) \in Nat
            /\ \A i \in 1 .. Len(queue) : queue'[i] = queue[i]
            /\ queue'[Len(queue) + 1] = Runner(h)
        BY <3>2, <4>1, <2>1
      <4>3. \A i \in 1 .. Len(queue') : i \in 1 .. Len(queue) \/ i = Len(queue) + 1
        BY <4>2
      <4>4. Once(queue')
        BY <4>1, <4>2, <4>3 DEF Once
      <4>5. Waiting' \subseteq Waiting \cup {Runner(h)}
        BY <4>2, <4>3 DEF Waiting, Entries
      <4>6. QED
        BY <3>2, <4>2, <4>4, <4>5
    <3>3. QED
      BY <3>1, <3>2
  <2>5. Shape'
    BY <1>3, <2>3, <2>4 DEF Held, Shape
  <2>6. Attended(g)'
    <3>1. \A u \in Waiting' : Present(u)'
      BY <1>3, <1>4, <2>4 DEF Present
    <3>2. new = "push" => Runner(g) \notin Waiting'
      BY <2>1, <2>3, <2>4
    <3>3. QED
      BY <1>3, <1>4, <2>1, <2>2, <2>3, <3>1, <3>2 DEF Attended, In, Entering, Queueing, Searching
  <2>7. Promised(g)'
    <3>1. active \ {Runner(h)} \subseteq Seats(g)' /\ Owed(g) = 0
      BY <1>3, <2>2, <2>3 DEF Seats, Owed, In, Entering, Searching, Passing
    <3>2. IsFiniteSet(Seats(g)')
      BY <2>5, SeatsFinite
    <3>3. QED
      BY <3>1, <3>2, <1>4, FewerSeats, P2PRoomAssumption DEF Promised
  <2>8. QED
    BY <2>2, <2>5, <2>6, <2>7 DEF SeatInv, Held
<1>7. QED
  BY <1>5, <1>6

\* handleLeave until its first LPOP: the user gives up seat and entry.
LEMMA LeavingHeld ==
  ASSUME IsFiniteSet(Users), NEW h \in Handler \cup {NoTask}, Held(h), NEW t \in Tasks,
         RemoveActive(t) \/ RemoveFromQueue(t) \/ RemoveTtl(t)
  PROVE  SeatInv'
<1>1. PICK pc \in {"hdel", "lrem", "delTtl"} : At(t, pc)
  BY DEF RemoveActive, RemoveFromQueue, RemoveTtl
<1>2. /\ h \in Handler /\ ~ h.gone /\ h # NoTask /\ h.pc = pc /\ User(t) = Runner(h)
      /\ task = [u \in Tasks |-> IF u = t THEN h ELSE NoTask]
  BY <1>1, AtHeld
<1>3. PICK new \in {"lrem", "delTtl", "lpop"} :
        /\ Goto(t, new)
        /\ IF new = "lrem" THEN pc = "hdel" /\ active' = active \ {Runner(h)} ELSE active' = active
        /\ IF new = "delTtl" THEN queue' = Without(queue, Runner(h)) ELSE queue' = queue
        /\ pc = "lrem" => new = "delTtl"
        /\ pc = "hdel" => new = "lrem"
        /\ ttl' \subseteq ttl
  BY <1>1, <1>2 DEF RemoveActive, RemoveFromQueue, RemoveTtl, At
<1>4. UNCHANGED <<joined, conn, client, invited, viewers, fallback, wasted>>
  BY DEF RemoveActive, RemoveFromQueue, RemoveTtl, tabs, topic, hist
<1>5. PICK g \in Handler : Sole(g)' /\ g.pc = new /\ g.sock = h.sock
  BY <1>2, <1>3, SoleGoto DEF PC
<1>6. Runner(g) = Runner(h)
  BY <1>5 DEF Runner
<1>7. /\ queue' \in Seq(Users) /\ Once(queue')
      /\ Waiting' \subseteq Waiting
      /\ new = "delTtl" => Runner(h) \notin Waiting'
      /\ fallback => queue' = <<>>
  <2>1. queue \in Seq(Users) /\ Once(queue) /\ (fallback => queue = <<>>)
    BY DEF Held, Shape
  <2>2. CASE new = "delTtl"
    <3>1. /\ queue' \in Seq(Users) /\ Once(queue')
          /\ Entries(queue') \subseteq Entries(queue) \ {Runner(h)}
      BY <2>1, <2>2, <1>3, WithoutKeeps
    <3>2. fallback => queue' = <<>>
      <4> SUFFICES ASSUME queue = <<>>
                   PROVE  queue' = <<>>
        BY <2>1
      <4>1. Entries(queue') = {}
        BY <3>1 DEF Entries
      <4>2. Len(queue') = 0
        <5>1. Len(queue') \in Nat
          BY <3>1
        <5>2. Len(queue') # 0 => 1 \in 1 .. Len(queue')
          BY <5>1
        <5>3. QED
          BY <4>1, <5>2 DEF Entries
      <4>3. QED
        BY <3>1, <4>2
    <3>3. QED
      BY <3>1, <3>2 DEF Waiting
  <2>3. CASE new # "delTtl"
    BY <2>1, <2>3, <1>3 DEF Waiting
  <2>4. QED
    BY <2>2, <2>3
<1>8. Shape'
  BY <1>3, <1>4, <1>7 DEF Held, Shape
<1>9. Attended(g)'
  <2>1. \A u \in Waiting : Present(u) \/ (pc \in {"hdel", "lrem"} /\ u = Runner(h))
    BY <1>2 DEF Held, Attended, In
  <2>2. \A u \in Waiting' : Present(u)' \/ (new = "lrem" /\ u = Runner(g))
    BY <2>1, <1>3, <1>4, <1>6, <1>7 DEF Present
  <2>3. QED
    BY <1>5, <2>2, Fields DEF Attended, In, Entering, Queueing, Searching
<1>10. Promised(g)'
  <2>1. Answering' = Answering /\ (AliveWaits' => AliveWaits)
    BY <1>3, <1>4, <1>7 DEF Answering, AliveWaits
  <2>2. Seats(h) = (active \cup (Answering \ Waiting)) \ (IF pc = "hdel" THEN {Runner(h)} ELSE {})
    BY <1>1, <1>2 DEF Seats, In, Entering, Searching
  <2>3. Seats(g)' = active' \cup (Answering' \ Waiting')
    BY <1>5 DEF Seats, In, Entering, Searching
  <2>4. Seats(h) \subseteq Seats(g)'
    BY <1>3, <1>7, <2>1, <2>2, <2>3
  <2>5. Owed(h) = 1 /\ Owed(g) = 1
    BY <1>1, <1>2, <1>5, Fields DEF Owed, In, Passing
  <2>6. QED
    BY <1>4, <1>8, <2>1, <2>4, <2>5, PromiseKept DEF Held
<1>11. QED
  BY <1>5, <1>8, <1>9, <1>10 DEF SeatInv, Held

\* dequeueNext takes the first entry off the queue: nobody stops waiting by it,
\* but the user it holds in its hands.
LEMMA PopHeld ==
  ASSUME IsFiniteSet(Users), NEW h \in Handler \cup {NoTask}, Held(h), NEW t \in Tasks, DequeuePop(t)
  PROVE  SeatInv'
<1>1. /\ h \in Handler /\ ~ h.gone /\ h # NoTask /\ h.pc = "lpop" /\ task[t] = h
      /\ task = [u \in Tasks |-> IF u = t THEN h ELSE NoTask]
  BY AtHeld DEF DequeuePop
<1>2. UNCHANGED <<active, ttl, joined, conn, client, invited, viewers, fallback, wasted>>
  BY DEF DequeuePop, tabs, topic, hist
<1>3. \A u \in Waiting : Present(u)
  BY <1>1 DEF Held, Attended, In
<1>4. Answering' = Answering
  BY <1>2 DEF Answering
<1>5. CASE queue = <<>>
  <2>1. Goto(t, "resume") /\ queue' = queue
    BY <1>5 DEF DequeuePop
  <2>2. PICK g \in Handler : Sole(g)' /\ g.pc = "resume"
    BY <1>1, <2>1, SoleGoto DEF PC
  <2>3. Shape'
    BY <1>2, <2>1 DEF Held, Shape
  <2>4. Waiting' = {}
    BY <1>5, <2>1 DEF Waiting, Entries
  <2>5. Attended(g)' /\ Promised(g)'
    BY <2>2, <2>4 DEF Attended, Promised, AliveWaits, In, Entering, Queueing, Searching
  <2>6. QED
    BY <2>2, <2>3, <2>5 DEF SeatInv, Held
<1>6. CASE queue # <<>>
  <2>1. queue \in Seq(Users) /\ Once(queue)
    BY DEF Held, Shape
  <2>2. /\ Len(queue) \in Nat \ {0} /\ Head(queue) = queue[1] /\ Head(queue) \in Users
        /\ Tail(queue) \in Seq(Users) /\ Len(Tail(queue)) = Len(queue) - 1
        /\ \A i \in 1 .. Len(Tail(queue)) : Tail(queue)[i] = queue[i + 1]
    BY <1>6, <2>1
  <2>3. queue' = Tail(queue)
    BY <1>6 DEF DequeuePop
  <2>4. /\ Head(queue) \in Waiting /\ Head(queue) \notin Waiting'
        /\ Waiting \subseteq Waiting' \cup {Head(queue)} /\ Waiting' \subseteq Waiting
    <3>1. \A i \in 1 .. Len(Tail(queue)) : i + 1 \in 1 .. Len(queue) /\ i + 1 # 1
      BY <2>2
    <3>2. \A i \in 1 .. Len(queue) : i # 1 => i - 1 \in 1 .. Len(Tail(queue)) /\ (i - 1) + 1 = i
      BY <2>2
    <3>3. 1 \in 1 .. Len(queue)
      BY <2>2
    <3>4. \A i \in 1 .. Len(queue) : i # 1 => queue[i] = Tail(queue)[i - 1]
      BY <2>2, <3>2
    <3>5. Head(queue) \in Waiting /\ Waiting' \subseteq Waiting
      BY <2>2, <2>3, <3>1, <3>3 DEF Waiting, Entries
    <3>6. Waiting \subseteq Waiting' \cup {Head(queue)}
      BY <2>2, <2>3, <3>2, <3>4 DEF Waiting, Entries
    <3>7. Head(queue) \notin Waiting'
      BY <2>1, <2>2, <2>3, <3>1, <3>3 DEF Waiting, Entries, Once
    <3>8. QED
      BY <3>5, <3>6, <3>7
  <2>5. PICK g \in Handler : Sole(g)' /\ g.pc = "exists" /\ g.next = Head(queue)
    <3> DEFINE g == [h EXCEPT !.pc = "exists", !.next = Head(queue)]
    <3>1. g \in Handler /\ g.pc = "exists" /\ g.next = Head(queue) /\ ~ g.gone
      BY <1>1, <2>2 DEF Handler, PC
    <3>2. task' = [u \in Tasks |-> IF u = t THEN g ELSE NoTask]
      BY <1>1, <1>6 DEF DequeuePop
    <3> HIDE DEF g
    <3>3. QED
      BY <3>1, <3>2 DEF Sole
  <2>6. Shape'
    <3>1. Once(queue')
      <4>1. \A i \in 1 .. Len(Tail(queue)) : i + 1 \in 1 .. Len(queue) /\ i \in Nat
        BY <2>2
      <4>2. \A i, j \in 1 .. Len(Tail(queue)) : Tail(queue)[i] = Tail(queue)[j] => i + 1 = j + 1
        BY <2>1, <2>2, <4>1 DEF Once
      <4>3. QED
        BY <2>3, <4>1, <4>2 DEF Once
    <3>2. ~ fallback
      BY <1>6 DEF Held, Shape
    <3>3. QED
      BY <1>2, <2>2, <2>3, <3>1, <3>2 DEF Held, Shape
  <2>7. Attended(g)'
    <3>1. (\A u \in Waiting' : Present(u)') /\ Present(g.next)' /\ g.next \notin Waiting'
      BY <1>2, <1>3, <2>4, <2>5 DEF Present
    <3>2. QED
      BY <2>5, <3>1 DEF Attended, In, Entering, Queueing, Searching
  <2>8. Promised(g)'
    <3>1. AliveWaits' => AliveWaits
      BY <1>2, <2>4 DEF AliveWaits
    <3>2. Seats(h) = active \cup (Answering \ Waiting)
      BY <1>1 DEF Seats, In, Entering, Searching
    <3>3. Seats(g)' = active' \cup (Answering' \ (Waiting' \cup {Head(queue)}))
      BY <2>5, Fields DEF Seats, In, Entering, Searching
    <3>4. Seats(h) \subseteq Seats(g)'
      BY <1>2, <1>4, <2>4, <3>2, <3>3
    <3>5. Owed(h) = 1 /\ Owed(g) = 1
      BY <1>1, <2>5, Fields DEF Owed, In, Passing, Searching
    <3>6. QED
      BY <1>2, <2>6, <3>1, <3>4, <3>5, PromiseKept DEF Held
  <2>9. QED
    BY <2>5, <2>6, <2>7, <2>8 DEF SeatInv, Held
<1>7. QED
  BY <1>5, <1>6

\* An entry that has expired sends the search on, a live one ends it.
LEMMA ExistsHeld ==
  ASSUME IsFiniteSet(Users), NEW h \in Handler \cup {NoTask}, Held(h), NEW t \in Tasks, DequeueExists(t)
  PROVE  SeatInv'
<1>1. /\ h \in Handler /\ ~ h.gone /\ h # NoTask /\ h.pc = "exists"
      /\ task = [u \in Tasks |-> IF u = t THEN h ELSE NoTask]
  BY AtHeld DEF DequeueExists
<1>2. UNCHANGED <<active, queue, ttl, joined, conn, client, invited, viewers, fallback, wasted>>
  BY DEF DequeueExists, room, tabs, topic, hist
<1>3. PICK new \in {"admit", "lpop"} : Goto(t, new)
  BY DEF DequeueExists
<1>4. PICK g \in Handler : Sole(g)' /\ g.pc = new /\ g.next = h.next
  BY <1>1, <1>3, SoleGoto DEF PC
<1>5. Shape'
  BY <1>2 DEF Held, Shape
<1>6. Waiting' = Waiting /\ AliveWaits' = AliveWaits /\ Answering' = Answering
  BY <1>2 DEF Waiting, AliveWaits, Answering
<1>7. Attended(g)'
  <2>1. (\A u \in Waiting : Present(u)) /\ Present(h.next) /\ h.next \notin Waiting
    BY <1>1 DEF Held, Attended, In, Searching
  <2>2. (\A u \in Waiting' : Present(u)') /\ Present(g.next)' /\ g.next \notin Waiting'
    BY <1>2, <1>4, <1>6, <2>1 DEF Present
  <2>3. QED
    BY <1>4, <2>2 DEF Attended, In, Entering, Queueing, Searching
<1>8. Seats(h) \subseteq Seats(g)'
  BY <1>1, <1>2, <1>4, <1>6 DEF Seats, In, Entering, Searching
<1>9. Owed(h) = 1 /\ Owed(g) = 1
  BY <1>1, <1>4, Fields DEF Owed, In, Passing, Searching
<1>10. Promised(g)'
  BY <1>2, <1>5, <1>6, <1>8, <1>9, PromiseKept DEF Held
<1>11. QED
  BY <1>4, <1>5, <1>7, <1>10 DEF SeatInv, Held

\* The invitation pays what the leave owed, unless it was wasted.
LEMMA AdmitHeld ==
  ASSUME IsFiniteSet(Users), NEW h \in Handler \cup {NoTask}, Held(h), NEW t \in Tasks, Admit(t)
  PROVE  SeatInv'
<1>1. /\ h \in Handler /\ ~ h.gone /\ h # NoTask /\ h.pc = "admit" /\ task[t] = h
      /\ task = [u \in Tasks |-> IF u = t THEN h ELSE NoTask]
  BY AtHeld DEF Admit
<1>2. /\ UNCHANGED <<active, queue, joined, conn, client, viewers, fallback>>
      /\ ttl' \subseteq ttl
      /\ invited' = invited \cup {s \in conn : UserOf[s] = h.next}
      /\ wasted' = (wasted \/ (h.next \in active /\ Cardinality(active) < MaxPeers))
      /\ Goto(t, "resume")
  BY <1>1 DEF Admit, topic
<1>3. PICK g \in Handler : Sole(g)' /\ g.pc = "resume"
  BY <1>1, <1>2, SoleGoto DEF PC
<1>4. Shape'
  BY <1>2 DEF Held, Shape
<1>5. Waiting' = Waiting /\ (AliveWaits' => AliveWaits)
  BY <1>2 DEF Waiting, AliveWaits
<1>6. (\A u \in Waiting : Present(u)) /\ Present(h.next) /\ h.next \notin Waiting
  BY <1>1 DEF Held, Attended, In, Searching
<1>7. Attended(g)'
  <2>1. \A u \in Waiting' : Present(u)'
    BY <1>2, <1>5, <1>6 DEF Present
  <2>2. QED
    BY <1>3, <2>1 DEF Attended, In, Entering, Queueing, Searching
<1>8. Promised(g)'
  <2> SUFFICES ASSUME viewers' = Users, ~ wasted', AliveWaits'
               PROVE  Cardinality(Seats(g)') + Owed(g) >= MaxPeers
    BY DEF Promised
  <2>1. Owed(g) = 0 /\ Owed(h) = 1
    BY <1>1, <1>3, Fields DEF Owed, In, Passing, Searching
  <2>2. Answering \cup {h.next} \subseteq Answering'
    <3>1. PICK s \in joined : UserOf[s] = h.next
      BY <1>6 DEF Present
    <3>2. s \in conn
      BY DEF Held, Shape
    <3>3. QED
      BY <1>2, <3>1, <3>2 DEF Answering
  <2>3. Seats(g)' = active' \cup (Answering' \ Waiting')
    BY <1>3 DEF Seats, In, Entering, Searching
  <2>4. Seats(h) = active \cup (Answering \ (Waiting \cup {h.next}))
    BY <1>1 DEF Seats, In, Entering, Searching
  <2>5. Seats(h) \cup {h.next} \subseteq Seats(g)' /\ active \subseteq Seats(g)'
    BY <1>2, <1>5, <1>6, <2>2, <2>3, <2>4
  <2>6. /\ IsFiniteSet(Seats(g)') /\ IsFiniteSet(Seats(h)) /\ IsFiniteSet(active)
        /\ Cardinality(Seats(g)') \in Nat /\ Cardinality(Seats(h)) \in Nat /\ Cardinality(active) \in Nat
    <3>1. IsFiniteSet(Seats(g)')
      BY <1>4, SeatsFinite
    <3>2. QED
      BY <3>1, <2>5, FewerSeats
  <2>7. CASE h.next \in active
    <3>1. Cardinality(active) >= MaxPeers
      <4>1. ~ (Cardinality(active) < MaxPeers)
        BY <2>7, <1>2, Zenon
      <4>2. QED
        BY <4>1, <2>6, P2PRoomAssumption
    <3>2. Cardinality(active) <= Cardinality(Seats(g)')
      BY <2>5, <2>6, FewerSeats
    <3>3. QED
      BY <3>1, <3>2, <2>1, <2>6, P2PRoomAssumption
  <2>8. CASE h.next \notin active
    <3>1. h.next \notin Seats(h)
      BY <2>4, <2>8
    <3>2. Cardinality(Seats(h)) + 1 >= MaxPeers
      BY <1>2, <1>5, <2>1 DEF Held, Promised
    <3> DEFINE S == Seats(h)
               R == Seats(g)'
    <3>3. IsFiniteSet(S) /\ IsFiniteSet(R) /\ h.next \notin S /\ S \cup {h.next} \subseteq R
      BY <2>5, <2>6, <3>1
    <3> HIDE DEF S, R
    <3>4. IsFiniteSet(S \cup {h.next}) /\ Cardinality(S \cup {h.next}) = Cardinality(S) + 1
      BY <3>3, FS_AddElement
    <3>5. Cardinality(S \cup {h.next}) <= Cardinality(R)
      BY <3>3, FewerSeats
    <3>6. Cardinality(S) + 1 <= Cardinality(R)
      BY <3>4, <3>5
    <3>7. QED
      BY <3>2, <3>6, <2>1, <2>6, P2PRoomAssumption DEF S, R
  <2>9. QED
    BY <2>7, <2>8
<1>9. QED
  BY <1>3, <1>4, <1>7, <1>8 DEF SeatInv, Held

\* The leave has nothing left to do, or a heartbeat finds its user in the room.
LEMMA OthersHeld ==
  ASSUME IsFiniteSet(Users), NEW h \in Handler \cup {NoTask}, Held(h), NEW t \in Tasks,
         Resume(t) \/ HeartbeatCheck(t) \/ HeartbeatSet(t)
  PROVE  SeatInv'
<1>1. PICK pc \in {"resume", "hexists", "hset"} : At(t, pc)
  BY DEF Resume, HeartbeatCheck, HeartbeatSet
<1>2. /\ h \in Handler /\ ~ h.gone /\ h # NoTask /\ h.pc = pc /\ User(t) = Runner(h)
      /\ task = [u \in Tasks |-> IF u = t THEN h ELSE NoTask]
  BY <1>1, AtHeld
<1>3. /\ UNCHANGED <<queue, ttl, joined, conn, client, invited, viewers, fallback, wasted>>
      /\ active' = active \/ active' = active \cup {Runner(h)}
      /\ Done(t) \/ (Goto(t, "hset") /\ active' = active)
  BY <1>2 DEF Resume, HeartbeatCheck, HeartbeatSet, room, tabs, topic, hist
<1>4. AliveWaits' = AliveWaits
  BY <1>3 DEF AliveWaits, Waiting
<1>5. CASE Done(t)
  <2>1. active' \subseteq Users
    BY <1>2, <1>3, Fields DEF Held, Shape
  <2>2. h.pc \notin Passing /\ h.pc \notin Entering
    BY <1>1, <1>2 DEF Passing, Searching, Entering
  <2>3. QED
    BY <1>2, <1>3, <1>4, <1>5, <2>1, <2>2, ReturnHeld
<1>6. CASE Goto(t, "hset") /\ active' = active
  <2>1. PICK g \in Handler : Sole(g)' /\ g.pc = "hset"
    BY <1>2, <1>6, SoleGoto DEF PC
  <2>2. Shape'
    BY <1>3, <1>6 DEF Held, Shape
  <2>3. Waiting' = Waiting /\ Answering' = Answering
    BY <1>3 DEF Waiting, Answering
  <2>4. Attended(g)'
    <3>1. \A u \in Waiting : Present(u)
      BY <1>1, <1>2 DEF Held, Attended, In
    <3>2. \A u \in Waiting' : Present(u)'
      BY <3>1, <1>3, <2>3 DEF Present
    <3>3. QED
      BY <2>1, <3>2 DEF Attended, In, Entering, Queueing, Searching
  <2>5. Seats(h) \subseteq Seats(g)'
    BY <1>1, <1>2, <1>6, <2>1, <2>3 DEF Seats, In, Entering, Searching
  <2>6. Owed(h) = 0 /\ Owed(g) = 0
    BY <1>1, <1>2, <2>1 DEF Owed, In, Passing, Searching
  <2>7. Promised(g)'
    BY <1>3, <1>4, <2>2, <2>5, <2>6, PromiseKept DEF Held
  <2>8. QED
    BY <2>1, <2>2, <2>4, <2>7 DEF SeatInv, Held
<1>7. QED
  BY <1>3, <1>5, <1>6

-----------------------------------------------------------------------------

\* The empty room owes nothing.
LEMMA SeatInit == Init => SeatInv
<1> SUFFICES ASSUME Init
             PROVE  SeatInv
  OBVIOUS
<1>1. Waiting = {} /\ queue = <<>> /\ queue \in Seq(Users) /\ Once(queue)
  BY DEF Init, Waiting, Entries, Once
<1>2. Shape
  BY <1>1 DEF Init, Shape
<1>3. Sole(NoTask)
  BY DEF Init, Sole
<1>4. Attended(NoTask) /\ Promised(NoTask)
  BY <1>1 DEF Attended, Promised, AliveWaits, In
<1>5. QED
  BY <1>2, <1>3, <1>4 DEF SeatInv, Held

\* Every step keeps the invariant.
LEMMA SeatNext ==
  ASSUME ~ Overlap, IsFiniteSet(Users)
  PROVE  SeatInv /\ [Next]_vars => SeatInv'
<1> SUFFICES ASSUME SeatInv, [Next]_vars
             PROVE  SeatInv'
  OBVIOUS
<1>1. PICK h \in Handler \cup {NoTask} : Held(h)
  BY DEF SeatInv
<1>2. ASSUME NEW t \in Tasks, Tab(t)
      PROVE  SeatInv'
  <2>1. PICK s \in Sockets : Mount(t, s) \/ OnAdmitted(t, s) \/ Heartbeat(t, s)
                              \/ Unmount(t, s) \/ Disconnect(t, s)
    BY <1>2 DEF Tab
  <2>2. QED
    BY <1>1, <2>1, MountHeld, OnAdmittedHeld, UnmountHeld, DisconnectHeld
<1>3. ASSUME NEW t \in Tasks, Step(t)
      PROVE  SeatInv'
  BY <1>1, <1>3, JoinHeld, QueueHeld, LeavingHeld, PopHeld, ExistsHeld, AdmitHeld, OthersHeld DEF Step
<1>4. CASE Elsewhere \/ (\E u \in Users : Demote(u)) \/ UNCHANGED vars
  BY <1>1, <1>4, ElsewhereHeld
<1>5. QED
  BY <1>2, <1>3, <1>4 DEF Next

\* While handlers run one after another, no seat of a room stays free while a
\* user with a live entry queues for it, however tabs come and go: for every
\* number of seats, and every finite set of users.
THEOREM SeatsPassedOn ==
  ASSUME ~ Overlap, IsFiniteSet(Users)
  PROVE  Spec => []NoIdleSeat
<1>1. SeatInv => NoIdleSeat
  <2> SUFFICES ASSUME SeatInv, Quiet, invited = {}, viewers = Users, ~ wasted,
                      \E u \in ttl : Contains(queue, u)
               PROVE  Cardinality(active) >= MaxPeers
    BY DEF NoIdleSeat
  <2>1. PICK h \in Handler \cup {NoTask} : Held(h)
    BY DEF SeatInv
  <2>2. Held(NoTask)
    BY <2>1, SoleIdle DEF Held
  <2>3. AliveWaits
    BY DEF AliveWaits, Waiting, Entries, Contains
  <2>4. Seats(NoTask) = active
    BY DEF Seats, In, Answering
  <2>5. IsFiniteSet(active)
    BY <2>2, FS_Subset DEF Held, Shape
  <2>6. Cardinality(active) + 0 >= MaxPeers
    BY <2>2, <2>3, <2>4 DEF Held, Promised, Owed, In
  <2>7. QED
    BY <2>5, <2>6, FS_CardinalityType, P2PRoomAssumption
<1>2. QED
  BY SeatInit, SeatNext, <1>1, PTL DEF Spec

=============================================================================

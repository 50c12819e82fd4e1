------------------------------ MODULE DmProofs ------------------------------
(***************************************************************************)
(* The direct messages of a pair for any number of requests in flight, of  *)
(* messages and of conversations one after the other, with requests that   *)
(* overlap and fail in every way (Modes is not constrained).               *)
(*                                                                         *)
(* Every statement of a handler is brought into one form (StepOf): where   *)
(* its call goes and what it may do to blocks, messages and live           *)
(* conversations.  OneConversation is inductive over that form, and        *)
(* BlockStops follows from it step by step: the guards of the handlers     *)
(* carry it, not the state of the conversation.                            *)
(***************************************************************************)
EXTENDS DmConversation, TLAPS

CallAt(S) == [pc : PC, who : Users \cup {NoUser}, conv : Convs \cup {NoConv}, at : S]

States == {"none", "pending", "accepted", "blocked", "gone"}

\* What the arguments need of TypeOK: of the time of a call, nothing.
TablesOK ==
  /\ \E S : call \in [Calls -> CallAt(S)]
  /\ state \in [Convs -> States]
  /\ msgs \in [Convs -> Nat]

DmInv == TablesOK /\ OneConversation

\* The statements after which a message may be written without a block check.
Unchecked == {"find", "create", "members", "first", "send"}

MovesTo(p, pc) ==
  /\ \E S : call' \in [Calls -> CallAt(S)]
  /\ call'[p].pc = pc
  /\ \A q \in Calls : q # p => call'[q] = call[q]

\* No conversation becomes live, or the one that does is the only one.
NoneRevived == (\A c \in Convs : Live(c)' => Live(c)) \/ OneConversation'

StepOf(p) ==
  /\ \E pc \in PC : MovesTo(p, pc) /\ (blocks # {} /\ call[p].pc \notin Unchecked => pc \notin Unchecked)
  /\ blocks \subseteq blocks'
  /\ msgs' \in [Convs -> Nat]
  /\ state' \in [Convs -> States]
  /\ NoneRevived
  /\ call[p].pc \notin Unchecked =>
       \A c \in Convs : msgs'[c] <= msgs[c] /\ (Live(c)' => Live(c))

-----------------------------------------------------------------------------

\* However a step writes the call p, the other calls stay as they are.
LEMMA CallMoves ==
  ASSUME TablesOK, NEW p \in Calls
  PROVE  /\ \A pc \in PC : Goto(p, pc) => MovesTo(p, pc)
         /\ Done(p) => MovesTo(p, "idle")
         /\ \A pc \in PC, u \in Users, c \in Convs \cup {NoConv} : Begin(p, pc, u, c) => MovesTo(p, pc)
<1>1. PICK S : call \in [Calls -> CallAt(S)]
  BY DEF TablesOK
<1>2. call[p] \in CallAt(S)
  BY <1>1
<1>3. ASSUME NEW T, NEW h \in CallAt(T), call' = [call EXCEPT ![p] = h]
      PROVE  MovesTo(p, h.pc)
  <2>1. CallAt(S) \subseteq CallAt(S \cup T) /\ CallAt(T) \subseteq CallAt(S \cup T)
    BY DEF CallAt
  <2>2. call' \in [Calls -> CallAt(S \cup T)]
    BY <1>1, <1>3, <2>1
  <2>3. QED
    BY <1>1, <1>3, <2>2 DEF MovesTo
<1>4. ASSUME NEW pc \in PC, Goto(p, pc)
      PROVE  MovesTo(p, pc)
  <2> DEFINE h == [call[p] EXCEPT !.pc = pc]
  <2>1. h \in CallAt(S) /\ h.pc = pc
    BY <1>2 DEF CallAt
  <2>2. call' = [call EXCEPT ![p] = h]
    BY <1>4 DEF Goto
  <2> HIDE DEF h
  <2>3. QED
    BY <1>3, <2>1, <2>2
<1>5. Done(p) => MovesTo(p, "idle")
  <2>1. Idle \in CallAt({0}) /\ Idle.pc = "idle"
    BY DEF Idle, CallAt, PC
  <2>2. QED
    BY <1>3, <2>1 DEF Done
<1>6. ASSUME NEW pc \in PC, NEW u \in Users, NEW c \in Convs \cup {NoConv}, Begin(p, pc, u, c)
      PROVE  MovesTo(p, pc)
  <2> DEFINE h == [pc |-> pc, who |-> u, conv |-> c, at |-> 0]
  <2>1. h \in CallAt({0}) /\ h.pc = pc /\ call' = [call EXCEPT ![p] = h]
    BY <1>6 DEF Begin, CallAt
  <2> HIDE DEF h
  <2>2. QED
    BY <1>3, <2>1
<1>7. QED
  BY <1>4, <1>5, <1>6

\* Statements that touch neither conversations nor messages nor blocks.
LEMMA OtherStatements ==
  ASSUME TablesOK, NEW p \in Calls, UNCHANGED <<state, msgs, blocks>>,
         NEW pc \in PC, MovesTo(p, pc), blocks # {} /\ call[p].pc \notin Unchecked => pc \notin Unchecked
  PROVE  StepOf(p)
<1>1. \A c \in Convs : (Live(c)' => Live(c)) /\ msgs'[c] <= msgs[c]
  BY DEF Live, TablesOK
<1>2. QED
  BY <1>1 DEF StepOf, NoneRevived, TablesOK

\* Requests begin: only openConversation enters the unchecked part, unblocked.
LEMMA Starts ==
  ASSUME TablesOK, NEW p \in Calls, Start(p)
  PROVE  StepOf(p)
<1>1. UNCHANGED <<state, msgs, blocks>>
  BY DEF Start, OpenStart, SendStart, AcceptStart, DeclineStart, BlockStart, row, thread
<1>2. PICK u \in Users : OpenStart(p, u) \/ \E c \in Convs :
        SendStart(p, u, c) \/ AcceptStart(p, u, c) \/ DeclineStart(p, u, c) \/ BlockStart(p, u, c)
  BY DEF Start
<1>3. CASE OpenStart(p, u)
  <2>1. MovesTo(p, "find") /\ blocks = {}
    BY <1>3, CallMoves DEF OpenStart, PC
  <2>2. QED
    BY <1>1, <2>1, OtherStatements DEF PC
<1>4. CASE \E c \in Convs :
        SendStart(p, u, c) \/ AcceptStart(p, u, c) \/ DeclineStart(p, u, c) \/ BlockStart(p, u, c)
  <2>1. \E pc \in {"check", "accept", "declineRead", "block"}, c \in Convs : Begin(p, pc, u, c)
    BY <1>4 DEF SendStart, AcceptStart, DeclineStart, BlockStart
  <2>2. \E pc \in {"check", "accept", "declineRead", "block"} : MovesTo(p, pc)
    BY <2>1, CallMoves DEF PC
  <2>3. QED
    BY <1>1, <2>2, OtherStatements DEF PC, Unchecked
<1>5. QED
  BY <1>2, <1>3, <1>4

\* The other statements that only move their call on, and failures.
LEMMA Moves ==
  ASSUME TablesOK, NEW p \in Calls,
         \/ OpenFind(p) \/ OpenMembers(p) \/ OpenTouch(p) \/ OpenNotify(p) \/ SendCheck(p)
         \/ SendTouch(p) \/ AcceptRead(p) \/ DeclineRead(p) \/ DeclineNote(p) \/ Fail(p)
  PROVE  StepOf(p)
<1>1. UNCHANGED <<state, msgs, blocks>>
  BY DEF OpenFind, OpenMembers, OpenTouch, OpenNotify, SendCheck, SendTouch, AcceptRead,
         DeclineRead, DeclineNote, Fail, TouchConversation, row, thread
<1>2. \/ Done(p)
      \/ \E pc \in {"notify", "declineNote", "decline"} : Goto(p, pc)
      \/ call[p].pc \in Unchecked /\ \E pc \in {"create", "first"} : Goto(p, pc)
      \/ blocks = {} /\ Goto(p, "send")
  <2>1. CASE OpenFind(p) \/ OpenMembers(p)
    BY <2>1 DEF OpenFind, OpenMembers, At, Unchecked
  <2>2. CASE OpenTouch(p) \/ OpenNotify(p) \/ SendTouch(p) \/ AcceptRead(p) \/ Fail(p)
    BY <2>2 DEF OpenTouch, OpenNotify, SendTouch, AcceptRead, Fail
  <2>3. CASE SendCheck(p)
    BY <2>3 DEF SendCheck
  <2>4. CASE DeclineRead(p) \/ DeclineNote(p)
    BY <2>4 DEF DeclineRead, DeclineNote
  <2>5. QED
    BY <2>1, <2>2, <2>3, <2>4
<1>3. \E pc \in PC : MovesTo(p, pc) /\ (blocks # {} /\ call[p].pc \notin Unchecked => pc \notin Unchecked)
  BY <1>2, CallMoves DEF PC, Unchecked
<1>4. QED
  BY <1>1, <1>3, OtherStatements

\* openConversation's INSERT: the unique dm_key lets it happen only while the
\* pair has no conversation.
LEMMA Creates ==
  ASSUME DmInv, NEW p \in Calls, OpenCreate(p)
  PROVE  StepOf(p)
<1>1. call[p].pc = "create" /\ UNCHANGED <<msgs, blocks>> /\ TablesOK /\ OneConversation
  BY DEF OpenCreate, At, thread, DmInv
<1>2. CASE Done(p) /\ UNCHANGED row
  <2>1. MovesTo(p, "idle") /\ UNCHANGED state
    BY <1>1, <1>2, CallMoves DEF row
  <2>2. QED
    BY <1>1, <2>1, OtherStatements DEF PC, Unchecked
<1>3. CASE ~ (Done(p) /\ UNCHANGED row)
  <2>1. PICK c \in Convs :
          /\ \A d \in Convs : ~ Live(d)
          /\ state' = [state EXCEPT ![c] = "pending"]
          /\ call' = [call EXCEPT ![p].pc = "members", ![p].conv = c]
    BY <1>3 DEF OpenCreate
  <2>2. \A d \in Convs : d # c => ~ Live(d)'
    BY <1>1, <2>1 DEF Live, TablesOK
  <2>3. state' \in [Convs -> States] /\ OneConversation'
    BY <1>1, <2>1, <2>2 DEF TablesOK, States, OneConversation
  <2>4. MovesTo(p, "members")
    <3>1. PICK S : call \in [Calls -> CallAt(S)]
      BY <1>1 DEF TablesOK
    <3> DEFINE h == [call[p] EXCEPT !.pc = "members", !.conv = c]
    <3>2. call[p] \in CallAt(S)
      BY <3>1
    <3>3. h \in CallAt(S) /\ h.pc = "members"
      BY <3>2 DEF CallAt, PC
    <3>4. call' = [call EXCEPT ![p] = h]
      BY <2>1
    <3> HIDE DEF h
    <3>5. QED
      BY <3>1, <3>3, <3>4 DEF MovesTo
  <2>5. QED
    BY <1>1, <2>3, <2>4 DEF StepOf, NoneRevived, PC, Unchecked, TablesOK
<1>4. QED
  BY <1>2, <1>3

\* insertDmMessage's INSERT, of an opening or of a send.
LEMMA Inserts ==
  ASSUME TablesOK, NEW p \in Calls, OpenFirst(p) \/ SendInsert(p)
  PROVE  StepOf(p)
<1> DEFINE c == call[p].conv
<1>1. PICK next \in {"firstTouch", "touch"} :
        /\ call[p].pc \in Unchecked
        /\ UNCHANGED <<state, blocks>>
        /\ \/ /\ msgs' = [msgs EXCEPT ![c] = @ + 1]
              /\ call' = [call EXCEPT ![p].pc = next, ![p].at = msgs[c] + 1]
           \/ Done(p) /\ UNCHANGED msgs
  BY DEF OpenFirst, SendInsert, InsertMessage, At, Unchecked, row
<1>2. CASE Done(p) /\ UNCHANGED msgs
  BY <1>1, <1>2, CallMoves, OtherStatements DEF PC, Unchecked
<1>3. CASE /\ msgs' = [msgs EXCEPT ![c] = @ + 1]
           /\ call' = [call EXCEPT ![p].pc = next, ![p].at = msgs[c] + 1]
  <2>1. msgs' \in [Convs -> Nat]
    <3>1. CASE c \in Convs
      <4>1. msgs[c] + 1 \in Nat
        BY <3>1 DEF TablesOK
      <4>2. QED
        BY <1>3, <3>1, <4>1 DEF TablesOK
    <3>2. CASE c \notin Convs
      <4> HIDE DEF c
      <4>1. QED
        BY <1>3, <3>2 DEF TablesOK
    <3>3. QED
      BY <3>1, <3>2
  <2>2. MovesTo(p, next)
    <3>1. PICK S : call \in [Calls -> CallAt(S)]
      BY DEF TablesOK
    <3> DEFINE n == msgs[c] + 1
               T == S \cup {n}
               h == [call[p] EXCEPT !.pc = next, !.at = n]
    <3>2. CallAt(S) \subseteq CallAt(T) /\ n \in T
      BY DEF CallAt
    <3> HIDE DEF n, T
    <3>3. call \in [Calls -> CallAt(T)] /\ call[p] \in CallAt(T)
      BY <3>1, <3>2
    <3>4. h \in CallAt(T) /\ h.pc = next
      BY <3>2, <3>3 DEF CallAt, PC
    <3>5. call' = [call EXCEPT ![p] = h]
      BY <1>3 DEF n
    <3> HIDE DEF h
    <3>6. QED
      BY <3>3, <3>4, <3>5 DEF MovesTo
  <2>3. \A d \in Convs : Live(d)' => Live(d)
    BY <1>1 DEF Live
  <2>4. QED
    BY <1>1, <2>1, <2>2, <2>3 DEF StepOf, NoneRevived, PC, TablesOK
<1>4. QED
  BY <1>1, <1>2, <1>3

\* The updates of a conversation that is there, its deletion, and the block row.
LEMMA Updates ==
  ASSUME TablesOK, NEW p \in Calls,
         AcceptSet(p) \/ BlockState(p) \/ DeclineDelete(p) \/ BlockInsert(p)
  PROVE  StepOf(p)
<1> DEFINE c == call[p].conv
<1>1. \E pc \in PC \ Unchecked : MovesTo(p, pc)
  <2>1. Done(p) \/ \E pc \in {"acceptRead", "blockState"} : Goto(p, pc)
    BY DEF AcceptSet, BlockState, DeclineDelete, BlockInsert
  <2>2. QED
    BY <2>1, CallMoves DEF PC, Unchecked
<1>2. blocks \subseteq blocks'
  BY DEF AcceptSet, BlockState, DeclineDelete, BlockInsert, Cascade
<1>3. msgs' \in [Convs -> Nat] /\ \A d \in Convs : msgs'[d] <= msgs[d]
  <2>1. UNCHANGED msgs \/ msgs' = [msgs EXCEPT ![c] = 0]
    BY DEF AcceptSet, BlockState, DeclineDelete, BlockInsert, Cascade, thread
  <2>2. QED
    BY <2>1 DEF TablesOK
<1>4. state' \in [Convs -> States] /\ \A d \in Convs : Live(d)' => Live(d)
  <2>1. \/ UNCHANGED state
        \/ Live(c) /\ \E v \in States : state' = [state EXCEPT ![c] = v]
    BY DEF AcceptSet, BlockState, DeclineDelete, BlockInsert, Cascade, row, States
  <2>2. QED
    BY <2>1 DEF TablesOK, Live
<1>5. QED
  BY <1>1, <1>2, <1>3, <1>4 DEF StepOf, NoneRevived

\* Every step is of that form, except the deletions outside the calls.
LEMMA Shapes ==
  ASSUME DmInv, [Next]_vars
  PROVE  \/ \E p \in Calls : StepOf(p)
         \/ /\ UNCHANGED <<call, blocks>>
            /\ msgs' \in [Convs -> Nat] /\ state' \in [Convs -> States]
            /\ \A c \in Convs : msgs'[c] <= msgs[c] /\ (Live(c)' => Live(c))
<1>1. TablesOK
  BY DEF DmInv
<1>2. ASSUME NEW p \in Calls, Start(p) \/ Proceed(p) \/ Fail(p)
      PROVE  StepOf(p)
  BY <1>1, <1>2, Starts, Moves, Creates, Inserts, Updates DEF Proceed
<1>3. ASSUME NEW c \in Convs, DeleteForBoth(c)
      PROVE  /\ UNCHANGED <<call, blocks>>
             /\ msgs' \in [Convs -> Nat] /\ state' \in [Convs -> States]
             /\ \A d \in Convs : msgs'[d] <= msgs[d] /\ (Live(d)' => Live(d))
  <2>1. /\ UNCHANGED <<call, blocks>>
        /\ msgs' = [msgs EXCEPT ![c] = 0]
        /\ state' = [state EXCEPT ![c] = "gone"]
    BY <1>3 DEF DeleteForBoth, Cascade, Member
  <2>2. QED
    BY <1>1, <2>1 DEF TablesOK, States, Live
<1>4. CASE (\E c \in Convs, u \in Users : ClearForMe(u, c)) \/ UNCHANGED vars
  <2>1. UNCHANGED <<call, blocks, msgs, state>>
    BY <1>4 DEF ClearForMe, row, thread, vars
  <2>2. QED
    BY <1>1, <2>1 DEF TablesOK, Live
<1>5. QED
  BY <1>2, <1>3, <1>4 DEF Next

\* Nothing exists before the first request.
LEMMA DmInit == Init => DmInv
<1> SUFFICES ASSUME Init
             PROVE  DmInv
  OBVIOUS
<1>1. call \in [Calls -> CallAt({0})]
  BY DEF Init, Idle, CallAt, PC
<1>2. QED
  BY <1>1 DEF Init, DmInv, TablesOK, States, OneConversation, Live

\* Every step keeps the invariant.
LEMMA DmStep == DmInv /\ [Next]_vars => DmInv'
<1> SUFFICES ASSUME DmInv, [Next]_vars
             PROVE  DmInv'
  OBVIOUS
<1>1. CASE \E p \in Calls : StepOf(p)
  BY <1>1 DEF StepOf, MovesTo, NoneRevived, DmInv, TablesOK, OneConversation
<1>2. CASE /\ UNCHANGED <<call, blocks>>
           /\ msgs' \in [Convs -> Nat] /\ state' \in [Convs -> States]
           /\ \A c \in Convs : msgs'[c] <= msgs[c] /\ (Live(c)' => Live(c))
  BY <1>2 DEF DmInv, TablesOK, OneConversation
<1>3. QED
  BY <1>1, <1>2, Shapes

\* The invariant holds in every reachable state.
THEOREM DmInvariant == Spec => []DmInv
  BY DmInit, DmStep, PTL DEF Spec

\* A pair never has two conversations, however many requests cross and fail.
THEOREM PairHasOneConversation == Spec => []OneConversation
<1>1. DmInv => OneConversation
  BY DEF DmInv
<1>2. QED
  BY DmInvariant, <1>1, PTL

\* Once a block exists and the requests that looked before it are over, no step
\* adds a message or makes a conversation of the pair live.
THEOREM BlockStopsWriting == Spec => BlockStops
<1>1. DmInv /\ [Next]_vars =>
        [blocks # {} /\ ~Writing =>
          ~Writing' /\ blocks' # {} /\ \A c \in Convs : msgs'[c] <= msgs[c] /\ (Live(c)' => Live(c))]_vars
  <2> SUFFICES ASSUME DmInv, [Next]_vars, blocks # {}, ~Writing
               PROVE  ~Writing' /\ blocks' # {}
                      /\ \A c \in Convs : msgs'[c] <= msgs[c] /\ (Live(c)' => Live(c))
    OBVIOUS
  <2>1. \A q \in Calls : call[q].pc \notin Unchecked
    BY DEF Writing, Unchecked
  <2>2. CASE \E p \in Calls : StepOf(p)
    BY <2>1, <2>2 DEF StepOf, MovesTo, Writing, Unchecked
  <2>3. CASE /\ UNCHANGED <<call, blocks>>
             /\ \A c \in Convs : msgs'[c] <= msgs[c] /\ (Live(c)' => Live(c))
    BY <2>3 DEF Writing
  <2>4. QED
    BY <2>2, <2>3, Shapes
<1>2. QED
  BY DmInvariant, <1>1, PTL DEF Spec, BlockStops
=============================================================================

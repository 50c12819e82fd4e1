----------------------------- MODULE E2eeProofs -----------------------------
(***************************************************************************)
(* The to-device channel and the keys of a tab: two components that share  *)
(* nothing, one after the other.                                           *)
(*                                                                         *)
(* A request of the to-device channel is applied exactly once, for every   *)
(* number of devices, requests, attempts and faults, and however the       *)
(* statements of the handlers interleave (Overlap is not constrained); and *)
(* a device that polls the channel misses nothing of it.                   *)
(*                                                                         *)
(* QueuedOnce and AckedIsQueued speak of the queue alone and are not       *)
(* inductive: a row may only be added while the row of the txn is claimed, *)
(* by the one attempt that claimed it, for a device that has none yet.     *)
(* SendInv says so.                                                        *)
(***************************************************************************)
EXTENDS ToDevice, RoomKeys, SequenceTheorems, WellFoundedInduction, TLAPS

\* Attempt a is queueing request t.
Inserting(a, t) == attempt[a].pc = "insert" /\ attempt[a].txn = t

Queued(t, d) == \E r \in queue : r.txn = t /\ r.dev = d

SendTypeOK ==
  /\ now \in Nat
  /\ queue \subseteq Row
  /\ attempt \in [Attempts -> Attempt]

\* Requests are queued, answered and marked as sent only once claimed.
ClaimedFirst ==
  /\ \A r \in queue : r.txn \in claimed
  /\ acked \subseteq claimed
  /\ \A a \in Attempts : attempt[a].pc \in {"insert", "reply"} => attempt[a].txn \in claimed
  /\ \A a \in Attempts : attempt[a].pc # "idle" => attempt[a].txn \in Txns

\* A request is queued by one attempt, for devices that have it not.
OneInserter ==
  \A a \in Attempts : attempt[a].pc = "insert" =>
    /\ \A b \in Attempts : Inserting(b, attempt[a].txn) => b = a
    /\ \A d \in attempt[a].left : ~ Queued(attempt[a].txn, d)

\* Nothing of a claimed request gets lost, except with a lost process.
Whole ==
  /\ \A a \in Attempts : attempt[a].pc = "claim" => attempt[a].left = Devices
  /\ \A t \in claimed \ torn, d \in Devices :
       Queued(t, d) \/ \E a \in Attempts : Inserting(a, t) /\ d \in attempt[a].left

SendInv == SendTypeOK /\ ClaimedFirst /\ OneInserter /\ Whole /\ QueuedOnce

-----------------------------------------------------------------------------

\* The invariant holds before the first request: nothing is claimed or queued.
LEMMA SendInit == Init => SendInv
  BY DEF Init, SendInv, SendTypeOK, ClaimedFirst, OneInserter, Whole, QueuedOnce, Inserting,
         Queued, NoAttempt, Attempt, Row

\* Steps that leave the sending side alone: the polls and the device changes.
LEMMA SendUntouched ==
  ASSUME SendInv, now' \in Nat, UNCHANGED <<claimed, queue, acked, attempt, torn>>
  PROVE  SendInv'
  BY DEF SendInv, SendTypeOK, ClaimedFirst, OneInserter, Whole, QueuedOnce, Inserting, Queued

\* Put: the new attempt is neither claimed nor queueing.
LEMMA PutStep ==
  ASSUME SendInv, NEW a \in Attempts, NEW t \in Txns, Put(a, t)
  PROVE  SendInv'
<1>1. /\ UNCHANGED <<now, claimed, queue, acked, torn>>
      /\ attempt[a].pc = "idle"
      /\ attempt' \in [Attempts -> Attempt]
      /\ attempt'[a].pc = "claim" /\ attempt'[a].txn = t /\ attempt'[a].left = Devices
      /\ \A b \in Attempts : b # a => attempt'[b] = attempt[b]
  BY DEF Put, SendInv, SendTypeOK, tables, NoAttempt, Attempt
<1>2. \A b \in Attempts, u \in Txns : Inserting(b, u)' <=> Inserting(b, u)
  BY <1>1 DEF Inserting
<1>3. \A u, d : Queued(u, d)' <=> Queued(u, d)
  BY <1>1 DEF Queued
<1>4. SendTypeOK' /\ QueuedOnce'
  BY <1>1 DEF SendInv, SendTypeOK, QueuedOnce
<1>5. ClaimedFirst'
  BY <1>1 DEF SendInv, ClaimedFirst
<1>6. OneInserter'
  BY <1>1, <1>3 DEF SendInv, OneInserter, Inserting
<1>7. Whole'
  BY <1>1, <1>3 DEF SendInv, Whole, Inserting
<1>8. QED
  BY <1>4, <1>5, <1>6, <1>7 DEF SendInv

\* ClaimTxn: the first attempt of a request becomes its only inserter.
LEMMA ClaimStep ==
  ASSUME SendInv, NEW a \in Attempts, ClaimTxn(a)
  PROVE  SendInv'
<1> DEFINE t == attempt[a].txn
<1>1. /\ UNCHANGED <<now, queue, acked, torn>>
      /\ claimed' = claimed \cup {t}
      /\ attempt[a].pc = "claim"
      /\ attempt' = [attempt EXCEPT ![a].pc = IF t \in claimed THEN "reply" ELSE "insert"]
  BY DEF ClaimTxn, Serving
<1>2. /\ attempt' \in [Attempts -> Attempt]
      /\ attempt'[a].txn = t /\ attempt'[a].left = attempt[a].left
      /\ attempt'[a].pc = IF t \in claimed THEN "reply" ELSE "insert"
      /\ \A b \in Attempts : b # a => attempt'[b] = attempt[b]
  BY <1>1 DEF SendInv, SendTypeOK, Attempt
<1>3. \A u, d : Queued(u, d)' <=> Queued(u, d)
  BY <1>1 DEF Queued
<1>4. SendTypeOK' /\ QueuedOnce'
  BY <1>1, <1>2 DEF SendInv, SendTypeOK, QueuedOnce
<1>5. ClaimedFirst'
  BY <1>1, <1>2 DEF SendInv, ClaimedFirst
<1>6. OneInserter'
  BY <1>1, <1>2, <1>3 DEF SendInv, OneInserter, ClaimedFirst, Inserting, Queued
<1>7. Whole'
  <2>1. \A b \in Attempts : \A u : Inserting(b, u) => Inserting(b, u)' /\ attempt'[b].left = attempt[b].left
    BY <1>1, <1>2 DEF Inserting
  <2>2. ASSUME NEW d \in Devices, t \notin claimed
        PROVE  Inserting(a, t)' /\ d \in attempt'[a].left
    BY <1>1, <1>2, <2>2 DEF Inserting, SendInv, Whole
  <2>3. \A b \in Attempts : attempt'[b].pc = "claim" => attempt'[b].left = Devices
    BY <1>1, <1>2 DEF SendInv, Whole
  <2>4. ASSUME NEW u \in (claimed \ torn)', NEW d \in Devices
        PROVE  Queued(u, d)' \/ \E b \in Attempts : Inserting(b, u)' /\ d \in attempt'[b].left
    <3>1. CASE u \in claimed
      BY <1>1, <1>3, <2>1, <3>1 DEF SendInv, Whole
    <3>2. CASE u \notin claimed
      BY <1>1, <2>2, <3>2
    <3>3. QED
      BY <3>1, <3>2
  <2>5. QED
    BY <2>3, <2>4 DEF Whole
<1>8. QED
  BY <1>4, <1>5, <1>6, <1>7 DEF SendInv

\* FanOut: the row is of a device that had none, and its place in left is taken.
LEMMA FanOutStep ==
  ASSUME SendInv, NEW a \in Attempts, FanOut(a)
  PROVE  SendInv'
<1> DEFINE t == attempt[a].txn
<1>1. PICK d \in attempt[a].left :
        /\ attempt[a].pc = "insert"
        /\ now' = now + 1
        /\ queue' = queue \cup {[txn |-> t, dev |-> d, at |-> now + 1]}
        /\ attempt' = [attempt EXCEPT ![a].left = @ \ {d},
                         ![a].pc = IF attempt[a].left = {d} THEN "reply" ELSE "insert"]
        /\ UNCHANGED <<claimed, acked, torn>>
  BY DEF FanOut, Serving
<1>2. /\ t \in Txns /\ t \in claimed /\ d \in Devices
      /\ ~ Queued(t, d)
      /\ now' \in Nat
  BY <1>1 DEF SendInv, SendTypeOK, ClaimedFirst, OneInserter, Attempt
<1>3. /\ attempt' \in [Attempts -> Attempt]
      /\ attempt'[a].txn = t
      /\ attempt'[a].left = attempt[a].left \ {d}
      /\ attempt'[a].pc = IF attempt[a].left = {d} THEN "reply" ELSE "insert"
      /\ \A b \in Attempts : b # a => attempt'[b] = attempt[b]
  BY <1>1 DEF SendInv, SendTypeOK, Attempt
<1>4. \A u, e : Queued(u, e)' <=> Queued(u, e) \/ (u = t /\ e = d)
  <2> DEFINE new == [txn |-> t, dev |-> d, at |-> now + 1]
  <2>1. new.txn = t /\ new.dev = d /\ queue' = queue \cup {new}
    BY <1>1
  <2> HIDE DEF new, t
  <2>2. QED
    BY <2>1 DEF Queued
<1>5. SendTypeOK'
  BY <1>1, <1>2, <1>3 DEF SendInv, SendTypeOK, Row
<1>6. QueuedOnce'
  BY <1>1, <1>2 DEF SendInv, QueuedOnce, Queued
<1>7. ClaimedFirst'
  BY <1>1, <1>2, <1>3 DEF SendInv, ClaimedFirst
<1>8. OneInserter'
  <2>1. ASSUME NEW b \in Attempts, attempt'[b].pc = "insert", NEW c \in Attempts,
               Inserting(c, attempt[b].txn)'
        PROVE  c = b
    BY <1>1, <1>3, <2>1 DEF SendInv, OneInserter, Inserting
  <2>2. ASSUME NEW b \in Attempts, attempt'[b].pc = "insert", NEW e \in attempt'[b].left
        PROVE  ~ Queued(attempt[b].txn, e)'
    <3>1. CASE b = a
      BY <1>1, <1>3, <1>4, <2>2, <3>1 DEF SendInv, OneInserter
    <3>2. CASE b # a
      <4>1. attempt[b].txn # t
        BY <1>1, <1>3, <2>2, <3>2 DEF SendInv, OneInserter, Inserting
      <4>2. QED
        BY <1>3, <1>4, <2>2, <3>2, <4>1 DEF SendInv, OneInserter
    <3>3. QED
      BY <3>1, <3>2
  <2>3. QED
    BY <1>1, <1>3, <2>1, <2>2 DEF OneInserter, Inserting
<1>9. Whole'
  <2>1. ASSUME NEW u \in claimed \ torn, NEW e \in Devices, ~ Queued(u, e)'
        PROVE  \E b \in Attempts : Inserting(b, u)' /\ e \in attempt'[b].left
    <3>1. PICK b \in Attempts : Inserting(b, u) /\ e \in attempt[b].left
      BY <1>4, <2>1 DEF SendInv, Whole
    <3>2. CASE b = a
      <4>1. u = t /\ e # d
        BY <1>4, <2>1, <3>1, <3>2 DEF Inserting
      <4>2. Inserting(b, u)' /\ e \in attempt'[b].left
        BY <1>3, <3>1, <3>2, <4>1 DEF Inserting
      <4>3. QED
        BY <4>2
    <3>3. CASE b # a
      BY <1>3, <3>1, <3>3 DEF Inserting
    <3>4. QED
      BY <3>2, <3>3
  <2>2. QED
    BY <1>1, <1>3, <2>1 DEF SendInv, Whole
<1>10. QED
  BY <1>5, <1>6, <1>7, <1>8, <1>9 DEF SendInv

\* Reply, Unheard and Abort: at most an attempt ends, and a torn one is noted.
LEMMA EndStep ==
  ASSUME SendInv, NEW a \in Attempts, Reply(a) \/ Unheard(a) \/ Abort(a)
  PROVE  SendInv'
<1>0. attempt \in [Attempts -> Attempt] /\ attempt[a] \in Attempt /\ NoAttempt \in Attempt
  BY DEF SendInv, SendTypeOK, Attempt, NoAttempt
<1>1. /\ UNCHANGED <<now, claimed, queue>>
      /\ attempt' \in [Attempts -> Attempt]
      /\ \A b \in Attempts : b # a => attempt'[b] = attempt[b]
  <2>1. CASE Reply(a) \/ Abort(a)
    BY <1>0, <2>1 DEF Reply, Abort, tables
  <2>2. CASE Unheard(a)
    BY <1>0, <2>2 DEF Unheard, tables, Attempt
  <2>3. QED
    BY <2>1, <2>2
<1>2. \/ attempt'[a].pc = "idle"
      \/ attempt'[a].pc = attempt[a].pc /\ attempt'[a].txn = attempt[a].txn
           /\ attempt'[a].left = attempt[a].left
  <2>1. CASE Reply(a) \/ Abort(a)
    BY <1>0, <2>1 DEF Reply, Abort, NoAttempt
  <2>2. CASE Unheard(a)
    BY <1>0, <2>2 DEF Unheard, Attempt
  <2>3. QED
    BY <2>1, <2>2
<1>3. /\ torn \subseteq torn'
      /\ \A u \in claimed \ torn' : Inserting(a, u) =>
           Inserting(a, u)' /\ attempt'[a].left = attempt[a].left
  <2>1. CASE Reply(a)
    BY <2>1 DEF Reply, Serving, Inserting
  <2>2. CASE Abort(a)
    BY <2>2 DEF Abort, Serving, Inserting
  <2>3. CASE Unheard(a)
    BY <1>0, <2>3 DEF Unheard, Inserting, Attempt
  <2>4. QED
    BY <2>1, <2>2, <2>3
<1>4. acked' \subseteq claimed
  BY DEF Reply, Unheard, Abort, Serving, SendInv, ClaimedFirst
<1>5. \A u, e : Queued(u, e)' <=> Queued(u, e)
  BY <1>1 DEF Queued
<1>6. SendTypeOK' /\ QueuedOnce'
  BY <1>1 DEF SendInv, SendTypeOK, QueuedOnce
<1>7. ClaimedFirst'
  BY <1>1, <1>2, <1>4 DEF SendInv, ClaimedFirst
<1>8. OneInserter'
  BY <1>1, <1>2, <1>5 DEF SendInv, OneInserter, Inserting
<1>9. Whole'
  <2>1. ASSUME NEW u \in claimed \ torn', NEW e \in Devices
        PROVE  Queued(u, e)' \/ \E b \in Attempts : Inserting(b, u)' /\ e \in attempt'[b].left
    BY <1>1, <1>3, <1>5, <2>1 DEF SendInv, Whole, Inserting
  <2>2. \A b \in Attempts : attempt'[b].pc = "claim" => attempt'[b].left = Devices
    BY <1>1, <1>2 DEF SendInv, Whole
  <2>3. QED
    BY <1>1, <2>1, <2>2 DEF Whole
<1>10. QED
  BY <1>6, <1>7, <1>8, <1>9 DEF SendInv

\* A poll and a device change are steps of SendUntouched.
LEMMA OtherStep ==
  ASSUME SendInv,
         \/ \E o \in Owners : LogChange(o)
         \/ \E p \in Polls : Sync(p) \/ PollLost(p) \/ \E d \in Online : PollStart(p, d)
         \/ UNCHANGED vars
  PROVE  SendInv'
<1>1. now \in Nat
  BY DEF SendInv, SendTypeOK
<1>2. CASE \E o \in Owners : LogChange(o)
  BY <1>1, <1>2, SendUntouched DEF LogChange, sending
<1>3. CASE \E p \in Polls : Sync(p) \/ PollLost(p) \/ \E d \in Online : PollStart(p, d)
  <2>1. PICK p \in Polls : Sync(p) \/ PollLost(p) \/ \E d \in Online : PollStart(p, d)
    BY <1>3
  <2>2. UNCHANGED <<now, claimed, queue, sending>>
    <3>1. CASE SyncRows(p) \/ SyncChanges(p) \/ PollLost(p) \/ \E d \in Online : PollStart(p, d)
      BY <3>1 DEF SyncRows, SyncChanges, PollLost, PollStart, tables
    <3>2. CASE MarkDelivered(p)
      BY <3>2 DEF MarkDelivered
    <3>3. CASE Receive(p)
      BY <3>3 DEF Receive, tables
    <3>4. CASE Persist(p)
      BY <3>4 DEF Persist, tables
    <3>5. QED
      BY <2>1, <3>1, <3>2, <3>3, <3>4 DEF Sync
  <2>3. QED
    BY <1>1, <2>2, SendUntouched DEF sending
<1>4. CASE UNCHANGED vars
  BY <1>1, <1>4, SendUntouched DEF vars
<1>5. QED
  BY <1>2, <1>3, <1>4

\* Every step keeps the invariant.
LEMMA SendStep == SendInv /\ [Next]_vars => SendInv'
<1> SUFFICES ASSUME SendInv, [Next]_vars
             PROVE  SendInv'
  OBVIOUS
<1>1. ASSUME NEW a \in Attempts, Serve(a)
      PROVE  SendInv'
  BY <1>1, ClaimStep, FanOutStep, EndStep DEF Serve
<1>2. ASSUME NEW a \in Attempts, Unheard(a) \/ Abort(a)
      PROVE  SendInv'
  BY <1>2, EndStep
<1>3. ASSUME NEW a \in Attempts, NEW t \in Txns, Put(a, t)
      PROVE  SendInv'
  BY <1>3, PutStep
<1>4. QED
  BY <1>1, <1>2, <1>3, OtherStep DEF Next

\* The invariant of the sending side holds in every reachable state.
THEOREM SendInvariant == Spec => []SendInv
  BY SendInit, SendStep, PTL DEF Spec

\* However a request is retried, a device has it queued at most once.
THEOREM RequestsQueuedOnce == Spec => []QueuedOnce
<1>1. SendInv => QueuedOnce
  BY DEF SendInv
<1>2. QED
  BY SendInvariant, <1>1, PTL

\* A request that is marked as sent is queued for every device, once its PUTs
\* are over, unless the process that was queueing it was lost.
THEOREM SentIsQueued == Spec => []AckedIsQueued
<1>1. SendInv => AckedIsQueued
  BY DEF SendInv, Whole, ClaimedFirst, AckedIsQueued, Inserting, Queued
<1>2. QED
  BY SendInvariant, <1>1, PTL

-----------------------------------------------------------------------------
(***************************************************************************)
(* NothingSkipped is a claim of the receiving side, and of clocks: a       *)
(* device's cursor may only move to a moment that covers it.  A sync asks  *)
(* two tables in turn, and covers what it passes as long as nothing is     *)
(* inserted in between (Overlap = FALSE) and neither page leaves a row out *)
(* (PagesFit).                                                             *)
(***************************************************************************)

Due(p) == {r \in queue : r.dev = poll[p].dev /\ r.at > poll[p].since}
Changed(p) == {c \in changes : c.at > poll[p].since}

\* No page of a sync is cut off by its LIMIT.
PagesFit ==
  \A p \in Polls :
    /\ Polling(p, "rows") => FirstRows(Due(p)) = Due(p)
    /\ Polling(p, "changes") => FirstChanges(Changed(p)) = LastOfEach(Changed(p))

\* Device d has been given everything up to moment m.
Covered(d, m) ==
  /\ \A r \in queue : r.dev = d /\ r.at <= m => r.txn \in seen[d]
  /\ \A c \in changes : c.at <= m => known[d][c.owner] >= c.at

SyncTypeOK ==
  /\ now \in Nat
  /\ queue \subseteq Row /\ changes \subseteq Change
  /\ cursor \in [Devices -> Nat]
  /\ seen \in [Devices -> SUBSET Txns]
  /\ known \in [Devices -> [Owners -> Nat]]
  /\ poll \in [Polls -> Poll]
  /\ \A p \in Polls : poll[p].pc # "idle" => poll[p].dev \in Devices

\* Nothing is stamped with a moment to come.
Past ==
  /\ \A r \in queue : r.at <= now
  /\ \A c \in changes : c.at <= now

CursorsCovered == \A d \in Devices : cursor[d] <= now /\ Covered(d, cursor[d])

\* The answer of a sync gives its device everything after since that it passes.
Answered(po) ==
  /\ NextBatch(po) \in Nat /\ NextBatch(po) <= now
  /\ \A r \in queue : r.dev = po.dev /\ r.at > po.since /\ r.at <= NextBatch(po) => r \in po.rows
  /\ \A c \in changes : c.at > po.since /\ c.at <= NextBatch(po) =>
       \E e \in po.changed : e.owner = c.owner /\ e.at >= c.at

PollCovered(p) ==
  LET po == poll[p] IN
  /\ po.pc # "idle" => po.since <= now /\ Covered(po.dev, po.since)
  /\ po.pc \in {"mark", "changes"} => po.rows = Due(p)
  /\ po.pc = "receive" => Answered(po) /\ po.rows \subseteq queue /\ po.changed \subseteq changes
  /\ po.pc = "persist" => NextBatch(po) \in Nat /\ NextBatch(po) <= now /\ Covered(po.dev, NextBatch(po))

SyncInv == SyncTypeOK /\ Past /\ CursorsCovered /\ \A p \in Polls : PollCovered(p)

-----------------------------------------------------------------------------

\* A set of naturals with a bound has a greatest element.
LEMMA GreatestExists ==
  ASSUME NEW T \in SUBSET Nat, T # {}, NEW b \in Nat, \A x \in T : x <= b
  PROVE  \E x \in T : \A y \in T : y <= x
<1> DEFINE Bounds == {n \in Nat : \A x \in T : x <= n}
<1>1. Bounds \subseteq Nat /\ Bounds # {}
  OBVIOUS
<1>2. PICK u \in Bounds : \A v \in Bounds : ~ (<<v, u>> \in OpToRel(<, Nat))
  BY <1>1, NatLessThanWellFounded, WFMin, ZenonT(30)
<1>3. \A v \in Bounds : ~ (v < u)
  BY <1>1, <1>2, Zenon DEF OpToRel
<1>4. u \in T
  <2> SUFFICES ASSUME u \notin T
               PROVE  FALSE
    OBVIOUS
  <2>1. \A y \in T : y < u
    BY <1>1
  <2>3. PICK v \in T : TRUE
    OBVIOUS
  <2>2. u \in Nat /\ v \in Nat /\ v < u
    BY <2>1, <2>3, <1>1
  <2>4. u - 1 \in Nat /\ u - 1 < u
    BY <2>2
  <2>5. \A y \in T : y <= u - 1
    BY <2>1, <2>2
  <2>6. u - 1 \in Bounds
    BY <2>4, <2>5
  <2>7. QED
    BY <2>4, <2>6, <1>3
<1>5. QED
  BY <1>4

\* Latest is the greatest of some moments that have a bound.
LEMMA LatestIs ==
  ASSUME NEW S \in SUBSET Nat, NEW m \in Nat, NEW b \in Nat, \A x \in S : x <= b
  PROVE  /\ Latest(S, m) \in S \cup {m}
         /\ \A y \in S \cup {m} : y <= Latest(S, m)
<1>1. S \cup {m} \in SUBSET Nat /\ b + m \in Nat /\ \A x \in S \cup {m} : x <= b + m
  OBVIOUS
<1>2. \E x \in S \cup {m} : \A y \in S \cup {m} : y <= x
  BY <1>1, GreatestExists
<1>3. QED
  BY <1>2 DEF Latest

\* What is covered stays so: inserts are stamped later, and devices forget nothing.
LEMMA CoveredStays ==
  ASSUME NEW d \in Devices, NEW m \in Nat, m <= now, Covered(d, m), SyncTypeOK, SyncTypeOK',
         \A r \in queue' : r \in queue \/ r.at > now,
         \A c \in changes' : c \in changes \/ c.at > now,
         seen[d] \subseteq seen'[d],
         \A o \in Owners : known'[d][o] >= known[d][o]
  PROVE  Covered(d, m)'
<1>1. \A r \in queue' : r.at \in Nat
  BY DEF SyncTypeOK, Row
<1>2. \A c \in changes' : c.owner \in Owners /\ c.at \in Nat
  BY DEF SyncTypeOK, Change
<1>3. \A o \in Owners : known[d][o] \in Nat /\ known'[d][o] \in Nat
  BY DEF SyncTypeOK
<1>4. now \in Nat
  BY DEF SyncTypeOK
<1>5. ASSUME NEW r \in queue', r.dev = d, r.at <= m
      PROVE  r.txn \in seen'[d]
  <2>1. r \in queue
    BY <1>1, <1>4, <1>5
  <2>2. QED
    BY <1>5, <2>1 DEF Covered
<1>6. ASSUME NEW c \in changes', c.at <= m
      PROVE  known'[d][c.owner] >= c.at
  <2>1. c \in changes
    BY <1>2, <1>4, <1>6
  <2>2. known[d][c.owner] >= c.at
    BY <1>6, <2>1 DEF Covered
  <2>3. QED
    BY <1>2, <1>3, <2>2
<1>7. QED
  BY <1>5, <1>6 DEF Covered

\* Steps that leave the clock, both tables and all clients alone.
LEMMA SyncUntouched ==
  ASSUME SyncInv, UNCHANGED <<now, queue, changes, cursor, seen, known, poll>>
  PROVE  SyncInv'
  BY DEF SyncInv, SyncTypeOK, Past, CursorsCovered, PollCovered, Answered, Covered, Due

\* FanOut and LogChange: what is inserted is stamped later than anything a
\* cursor or an answer has passed, and no sync is between its two queries.
LEMMA InsertStep ==
  ASSUME SyncInv, ~ Overlap, Insertable,
         now' = now + 1, queue' \subseteq Row, changes' \subseteq Change,
         queue \subseteq queue', changes \subseteq changes',
         \A r \in queue' : r \in queue \/ r.at = now + 1,
         \A c \in changes' : c \in changes \/ c.at = now + 1,
         UNCHANGED <<clients, poll>>
  PROVE  SyncInv'
<1>1. now \in Nat /\ now' \in Nat
  BY DEF SyncInv, SyncTypeOK
<1>2. SyncTypeOK'
  BY <1>1 DEF SyncInv, SyncTypeOK, clients
<1>3. Past'
  BY <1>1 DEF SyncInv, SyncTypeOK, Past, Row, Change
<1>4. /\ \A r \in queue' : r \in queue \/ r.at > now
      /\ \A c \in changes' : c \in changes \/ c.at > now
  BY <1>1
<1>5. ASSUME NEW d \in Devices, NEW m \in Nat, m <= now, Covered(d, m)
      PROVE  Covered(d, m)'
  <2>1. seen[d] \subseteq seen'[d] /\ \A o \in Owners : known'[d][o] >= known[d][o]
    BY DEF SyncInv, SyncTypeOK, clients
  <2>2. QED
    BY <1>2, <1>4, <1>5, <2>1, CoveredStays DEF SyncInv
<1>6. CursorsCovered'
  <2>1. \A d \in Devices : cursor[d] \in Nat
    BY DEF SyncInv, SyncTypeOK
  <2>2. \A d \in Devices : cursor'[d] = cursor[d] /\ cursor[d] <= now /\ Covered(d, cursor[d])'
    BY <1>5, <2>1 DEF SyncInv, CursorsCovered, clients
  <2>3. QED
    BY <1>1, <2>1, <2>2 DEF CursorsCovered, Covered
<1>7. ASSUME NEW p \in Polls
      PROVE  PollCovered(p)'
  <2> DEFINE po == poll[p]
  <2>1. poll' = poll /\ po \in Poll /\ po.since \in Nat /\ (po.pc # "idle" => po.dev \in Devices)
    BY DEF SyncInv, SyncTypeOK, Poll
  <2>2. PollCovered(p)
    BY DEF SyncInv
  <2>3. po.pc \notin {"mark", "changes"}
    BY DEF Insertable
  <2>4. po.pc # "idle" => po.since <= now' /\ Covered(po.dev, po.since)'
    BY <1>1, <1>5, <2>1, <2>2 DEF PollCovered
  <2>5. ASSUME po.pc = "receive"
        PROVE  Answered(po)' /\ po.rows \subseteq queue' /\ po.changed \subseteq changes'
    <3>1. /\ NextBatch(po) \in Nat /\ NextBatch(po) <= now
          /\ \A r \in queue : r.dev = po.dev /\ r.at > po.since /\ r.at <= NextBatch(po) => r \in po.rows
          /\ \A c \in changes : c.at > po.since /\ c.at <= NextBatch(po) =>
               \E e \in po.changed : e.owner = c.owner /\ e.at >= c.at
          /\ po.rows \subseteq queue /\ po.changed \subseteq changes
      BY <2>2, <2>5 DEF PollCovered, Answered
    <3> DEFINE nb == NextBatch(po)
    <3>2. nb \in Nat /\ nb <= now /\ nb' = nb
      BY <2>1, <3>1
    <3> HIDE DEF nb
    <3>3. /\ \A r \in queue' : r.at <= nb => r \in queue
          /\ \A c \in changes' : c.at <= nb => c \in changes
      BY <1>1, <3>2
    <3>4. QED
      BY <1>1, <2>1, <3>1, <3>2, <3>3 DEF Answered, nb
  <2>6. ASSUME po.pc = "persist"
        PROVE  NextBatch(po)' \in Nat /\ NextBatch(po)' <= now' /\ Covered(po.dev, NextBatch(po))'
    BY <1>1, <1>5, <2>1, <2>2, <2>6 DEF PollCovered
  <2>7. QED
    BY <2>1, <2>3, <2>4, <2>5, <2>6 DEF PollCovered
<1>8. QED
  BY <1>2, <1>3, <1>6, <1>7 DEF SyncInv

\* A step of one poll, in which the devices forget nothing, leaves the others as they were.
LEMMA OtherPolls ==
  ASSUME SyncInv, SyncTypeOK', NEW p \in Polls,
         UNCHANGED <<now, queue, changes>>,
         \A q \in Polls : q # p => poll'[q] = poll[q],
         \A d \in Devices : seen[d] \subseteq seen'[d] /\ \A o \in Owners : known'[d][o] >= known[d][o],
         CursorsCovered', PollCovered(p)'
  PROVE  SyncInv'
<1>1. ASSUME NEW d \in Devices, NEW m \in Nat, m <= now, Covered(d, m)
      PROVE  Covered(d, m)'
  BY <1>1, CoveredStays DEF SyncInv
<1>2. Past'
  BY DEF SyncInv, Past
<1>4. ASSUME NEW q \in Polls, q # p
      PROVE  PollCovered(q)'
  <2> DEFINE po == poll[q]
  <2>1. poll'[q] = po /\ po.since \in Nat /\ (po.pc # "idle" => po.dev \in Devices)
    BY <1>4 DEF SyncInv, SyncTypeOK, Poll
  <2>2. PollCovered(q)
    BY DEF SyncInv
  <2>3. po.pc # "idle" => po.since <= now /\ Covered(po.dev, po.since)'
    BY <1>1, <2>1, <2>2 DEF PollCovered
  <2>4. po.pc \in {"mark", "changes"} => po.rows = Due(q)'
    BY <2>1, <2>2 DEF PollCovered, Due
  <2>5. po.pc = "receive" => Answered(po)' /\ po.rows \subseteq queue /\ po.changed \subseteq changes
    BY <2>1, <2>2 DEF PollCovered, Answered
  <2>6. po.pc = "persist" => NextBatch(po) \in Nat /\ NextBatch(po) <= now /\ Covered(po.dev, NextBatch(po))'
    BY <1>1, <2>1, <2>2 DEF PollCovered
  <2>7. QED
    BY <2>1, <2>3, <2>4, <2>5, <2>6 DEF PollCovered, Answered, Covered
<1>5. QED
  BY <1>2, <1>4 DEF SyncInv

\* PollStart, PollLost and SyncRows: the page holds all that is due.
LEMMA RowsStep ==
  ASSUME SyncInv, PagesFit, NEW p \in Polls,
         \/ PollLost(p) \/ SyncRows(p) \/ MarkDelivered(p)
         \/ \E d \in Devices : PollStart(p, d)
  PROVE  SyncInv'
<1> DEFINE po == poll[p]
<1>1. /\ UNCHANGED <<now, queue, changes, cursor, seen, known>>
      /\ \A q \in Polls : q # p => poll'[q] = poll[q]
  BY DEF PollLost, SyncRows, MarkDelivered, PollStart, tables, clients, SyncInv, SyncTypeOK
<1>2. po \in Poll /\ PollCovered(p) /\ (po.pc # "idle" => po.dev \in Devices)
  BY DEF SyncInv, SyncTypeOK
<1>3. \A d \in Devices : cursor[d] \in Nat /\ \A o \in Owners : known[d][o] \in Nat
  BY DEF SyncInv, SyncTypeOK
<1>4. Due(p) \in SUBSET Row
  BY DEF Due, SyncInv, SyncTypeOK
<1>11. CursorsCovered'
  BY <1>1 DEF SyncInv, CursorsCovered, Covered
<1>5. NoPoll \in Poll /\ \A d \in Devices : [NoPoll EXCEPT !.pc = "rows", !.dev = d, !.since = cursor[d]] \in Poll
  BY <1>3 DEF NoPoll, Poll
<1>6. CASE PollLost(p)
  <2>1. poll' = [poll EXCEPT ![p] = NoPoll] /\ poll'[p] = NoPoll
    BY <1>6 DEF PollLost, SyncInv, SyncTypeOK
  <2>2. SyncTypeOK'
    BY <1>1, <1>5, <2>1 DEF SyncInv, SyncTypeOK, NoPoll
  <2>3. PollCovered(p)'
    BY <2>1 DEF PollCovered, NoPoll
  <2>4. QED
    BY <1>1, <1>3, <2>2, <2>3, <1>11, OtherPolls DEF SyncInv, SyncTypeOK
<1>7. CASE SyncRows(p)
  <2>1. /\ po.pc = "rows"
        /\ poll' = [poll EXCEPT ![p].pc = "mark", ![p].rows = Due(p)]
    BY <1>7 DEF SyncRows, Polling, PagesFit, Due
  <2>2. /\ poll'[p] \in Poll
        /\ poll'[p].pc = "mark" /\ poll'[p].rows = Due(p)
        /\ poll'[p].dev = po.dev /\ poll'[p].since = po.since
    BY <1>2, <1>4, <2>1 DEF SyncInv, SyncTypeOK, Poll
  <2>3. SyncTypeOK'
    BY <1>1, <1>2, <2>1, <2>2 DEF SyncInv, SyncTypeOK
  <2>4. PollCovered(p)'
    BY <1>1, <1>2, <2>1, <2>2 DEF PollCovered, Covered, Due
  <2>5. QED
    BY <1>1, <1>3, <2>3, <2>4, <1>11, OtherPolls DEF SyncInv, SyncTypeOK
<1>8. CASE MarkDelivered(p)
  <2>1. po.pc = "mark" /\ poll' = [poll EXCEPT ![p].pc = "changes"]
    BY <1>8 DEF MarkDelivered, Polling
  <2>2. /\ poll'[p] \in Poll
        /\ poll'[p].pc = "changes" /\ poll'[p].rows = po.rows
        /\ poll'[p].dev = po.dev /\ poll'[p].since = po.since
    BY <1>2, <2>1 DEF SyncInv, SyncTypeOK, Poll
  <2>3. SyncTypeOK'
    BY <1>1, <1>2, <2>1, <2>2 DEF SyncInv, SyncTypeOK
  <2>4. PollCovered(p)'
    BY <1>1, <1>2, <2>1, <2>2 DEF PollCovered, Covered, Due
  <2>5. QED
    BY <1>1, <1>3, <2>3, <2>4, <1>11, OtherPolls DEF SyncInv, SyncTypeOK
<1>9. CASE \E d \in Devices : PollStart(p, d)
  <2>1. PICK d \in Devices : poll' = [poll EXCEPT ![p] = [NoPoll EXCEPT !.pc = "rows", !.dev = d, !.since = cursor[d]]]
    BY <1>9 DEF PollStart
  <2>2. poll'[p].pc = "rows" /\ poll'[p].dev = d /\ poll'[p].since = cursor[d] /\ poll'[p] \in Poll
    BY <1>5, <2>1 DEF SyncInv, SyncTypeOK, NoPoll
  <2>3. SyncTypeOK'
    BY <1>1, <1>5, <2>1, <2>2 DEF SyncInv, SyncTypeOK
  <2>4. PollCovered(p)'
    BY <1>1, <2>2 DEF PollCovered, SyncInv, CursorsCovered, Covered
  <2>5. QED
    BY <1>1, <1>3, <2>3, <2>4, <1>11, OtherPolls DEF SyncInv, SyncTypeOK
<1>10. QED
  BY <1>6, <1>7, <1>8, <1>9

\* SyncChanges: what the answer passes is in it, or a later change of the same owner is.
LEMMA ChangesStep ==
  ASSUME SyncInv, PagesFit, NEW p \in Polls, SyncChanges(p)
  PROVE  SyncInv'
<1> DEFINE po == poll[p]
<1>14. PICK new : new = [po EXCEPT !.pc = "receive", !.changed = LastOfEach(Changed(p))]
  OBVIOUS
<1>1. po \in Poll /\ po.pc = "changes" /\ po.dev \in Devices /\ po.rows = Due(p)
  BY DEF SyncInv, SyncTypeOK, PollCovered, SyncChanges, Polling
<1>2. poll' = [poll EXCEPT ![p] = new]
  BY <1>1, <1>14 DEF SyncChanges, Polling, PagesFit, Changed
<1>3. Changed(p) \subseteq changes /\ LastOfEach(Changed(p)) \subseteq Changed(p) /\ changes \subseteq Change
  BY DEF Changed, LastOfEach, SyncInv, SyncTypeOK
<1>4. /\ new \in Poll /\ new.pc = "receive" /\ new.dev = po.dev /\ new.since = po.since
      /\ new.rows = Due(p) /\ new.changed = LastOfEach(Changed(p))
  BY <1>1, <1>3, <1>14 DEF Poll
<1>5. /\ UNCHANGED <<now, queue, changes, cursor, seen, known>>
      /\ poll'[p] = new
      /\ \A q \in Polls : q # p => poll'[q] = poll[q]
  BY <1>2 DEF SyncChanges, tables, clients, SyncInv, SyncTypeOK
<1>6. SyncTypeOK'
  BY <1>1, <1>2, <1>4, <1>5 DEF SyncInv, SyncTypeOK
<1>7. now \in Nat /\ po.since \in Nat /\ po.since <= now
  BY <1>1 DEF SyncInv, SyncTypeOK, PollCovered, Poll
<1>8. Due(p) \subseteq queue /\ queue \subseteq Row
  BY DEF Due, SyncInv, SyncTypeOK
<1>9. NextBatch(new) \in Nat /\ NextBatch(new) <= now
  <2> DEFINE S == Moments(new.rows) \cup Moments(new.changed)
  <2>1. S \in SUBSET Nat /\ \A x \in S : x <= now
    BY <1>3, <1>4, <1>8 DEF Moments, SyncInv, Past, Row, Change
  <2> HIDE DEF S
  <2>2. Latest(S, po.since) \in S \cup {po.since}
    BY <1>7, <2>1, LatestIs
  <2>3. Latest(S, po.since) \in Nat /\ Latest(S, po.since) <= now
    BY <1>7, <2>1, <2>2
  <2>4. QED
    BY <1>4, <2>3 DEF NextBatch, S
<1>10. ASSUME NEW c \in changes, c.at > po.since
       PROVE  \E e \in LastOfEach(Changed(p)) : e.owner = c.owner /\ e.at >= c.at
  <2> DEFINE mine == {e \in Changed(p) : e.owner = c.owner}
             T == Moments(mine)
  <2>1. c \in mine /\ \A e \in mine : e \in Changed(p) /\ e.owner = c.owner /\ e.at \in Nat /\ e.at <= now
    BY <1>3, <1>10 DEF Changed, Change, SyncInv, Past
  <2>2. T \in SUBSET Nat /\ T # {} /\ \A x \in T : x <= now
    BY <2>1 DEF Moments
  <2>3. PICK m \in T : \A y \in T : y <= m
    BY <1>7, <2>2, GreatestExists
  <2>4. PICK e \in mine : e.at = m
    BY <2>3 DEF Moments
  <2>5. \A f \in mine : f.at <= e.at
    BY <2>3, <2>4 DEF Moments
  <2>6. e \in LastOfEach(Changed(p))
    BY <2>1, <2>5 DEF LastOfEach
  <2>7. e.owner = c.owner /\ e.at >= c.at
    BY <2>1, <2>5
  <2>8. QED
    BY <2>6, <2>7
<1>11. Answered(new)'
  <2>1. NextBatch(new)' = NextBatch(new)
    BY <1>5 DEF NextBatch
  <2>2. \A r \in queue : r.dev = new.dev /\ r.at > new.since => r \in new.rows
    BY <1>4 DEF Due
  <2>3. QED
    BY <1>4, <1>5, <1>9, <1>10, <2>1, <2>2 DEF Answered
<1>12. PollCovered(p)'
  <2>1. Covered(new.dev, new.since)'
    BY <1>1, <1>4, <1>5 DEF SyncInv, PollCovered, Covered
  <2>2. QED
    BY <1>3, <1>4, <1>5, <1>7, <1>8, <1>11, <2>1 DEF PollCovered
<1>13. QED
  <2>1. CursorsCovered'
    BY <1>5 DEF SyncInv, CursorsCovered, Covered
  <2>2. QED
    BY <1>5, <1>6, <1>12, <2>1, OtherPolls DEF SyncInv, SyncTypeOK

\* Receive: the device has been given all that the answer passes.
LEMMA ReceiveStep ==
  ASSUME SyncInv, NEW p \in Polls, Receive(p)
  PROVE  SyncInv'
<1>1. PICK po, d : po = poll[p] /\ d = po.dev
  OBVIOUS
<1>2. PICK nb : nb = NextBatch(po)
  OBVIOUS
<1>3. /\ po \in Poll /\ po.pc = "receive" /\ d \in Devices /\ po.since \in Nat
      /\ po.since <= now /\ Covered(d, po.since)
      /\ nb \in Nat /\ nb <= now
      /\ \A r \in queue : r.dev = d /\ r.at > po.since /\ r.at <= nb => r \in po.rows
      /\ \A c \in changes : c.at > po.since /\ c.at <= nb =>
           \E e \in po.changed : e.owner = c.owner /\ e.at >= c.at
      /\ po.rows \subseteq queue /\ po.changed \subseteq changes
  BY <1>1, <1>2 DEF SyncInv, SyncTypeOK, PollCovered, Answered, Receive, Polling, Poll
<1>4. PICK told : told = Told(d, po)
  OBVIOUS
<1>5. /\ UNCHANGED <<now, queue, changes, cursor>>
      /\ seen' = [seen EXCEPT ![d] = @ \cup {r.txn : r \in po.rows}]
      /\ known' = [known EXCEPT ![d] = told]
      /\ poll' = [poll EXCEPT ![p].pc = "persist"]
  BY <1>1, <1>4 DEF Receive, tables
<1>6. now \in Nat /\ queue \subseteq Row /\ changes \subseteq Change /\ Past
  BY DEF SyncInv, SyncTypeOK
<1>7. ASSUME NEW o \in Owners
      PROVE  /\ told[o] \in Nat
             /\ told[o] >= known[d][o]
             /\ \A e \in po.changed : e.owner = o => told[o] >= e.at
  <2> DEFINE S == {c.at : c \in {e \in po.changed : e.owner = o}}
  <2>1. S \in SUBSET Nat /\ \A x \in S : x <= now
    BY <1>3, <1>6 DEF Change, Past
  <2>2. known[d][o] \in Nat
    BY <1>3 DEF SyncInv, SyncTypeOK
  <2>3. told[o] = Latest(S, known[d][o])
    BY <1>4 DEF Told
  <2>4. \A e \in po.changed : e.owner = o => e.at \in S
    OBVIOUS
  <2> HIDE DEF S
  <2> DEFINE k == known[d][o]
  <2> HIDE DEF k
  <2>8. k \in Nat /\ now \in Nat
    BY <1>6, <2>2 DEF k, SyncInv, SyncTypeOK
  <2>9. Latest(S, k) \in S \cup {k} /\ \A y \in S \cup {k} : y <= Latest(S, k)
    BY <2>1, <2>8, LatestIs
  <2>5. told[o] \in S \cup {known[d][o]} /\ \A y \in S \cup {known[d][o]} : y <= told[o]
    BY <2>3, <2>9 DEF k
  <2>6. told[o] \in Nat
    BY <2>1, <2>2, <2>5
  <2>7. QED
    BY <2>1, <2>2, <2>4, <2>5, <2>6
<1>8. told \in [Owners -> Nat]
  BY <1>4, <1>7 DEF Told
<1>9. poll'[p] = [po EXCEPT !.pc = "persist"] /\ \A q \in Polls : q # p => poll'[q] = poll[q]
  BY <1>1, <1>5 DEF SyncInv, SyncTypeOK
<1>10. PICK new : new = [po EXCEPT !.pc = "persist"]
  OBVIOUS
<1>11. /\ new \in Poll /\ new.pc = "persist" /\ new.dev = d /\ new.since = po.since
       /\ new.rows = po.rows /\ new.changed = po.changed
  BY <1>1, <1>3, <1>10 DEF Poll
<1>12. \A r \in po.rows : r.txn \in Txns
  BY <1>3, <1>6 DEF Row
<1>13. SyncTypeOK'
  <2>1. seen' \in [Devices -> SUBSET Txns]
    BY <1>5, <1>12 DEF SyncInv, SyncTypeOK
  <2>2. known' \in [Devices -> [Owners -> Nat]]
    BY <1>5, <1>8 DEF SyncInv, SyncTypeOK
  <2>3. poll' \in [Polls -> Poll] /\ \A q \in Polls : poll'[q].pc # "idle" => poll'[q].dev \in Devices
    BY <1>3, <1>5, <1>9, <1>10, <1>11 DEF SyncInv, SyncTypeOK
  <2>4. QED
    BY <1>5, <2>1, <2>2, <2>3 DEF SyncInv, SyncTypeOK
<1>14. ASSUME NEW x \in Devices
       PROVE  seen[x] \subseteq seen'[x] /\ \A o \in Owners : known'[x][o] >= known[x][o]
  <2>1. \A o \in Owners : known[x][o] \in Nat
    BY DEF SyncInv, SyncTypeOK
  <2>2. QED
    BY <1>5, <1>7, <2>1 DEF SyncInv, SyncTypeOK
<1>15. ASSUME NEW x \in Devices, NEW m \in Nat, m <= now, Covered(x, m)
       PROVE  Covered(x, m)'
  BY <1>5, <1>13, <1>14, <1>15, CoveredStays DEF SyncInv
<1>16. Covered(d, nb)'
  <2>1. ASSUME NEW r \in queue, r.dev = d, r.at <= nb
        PROVE  r.txn \in seen'[d]
    <3>1. CASE r.at <= po.since
      BY <1>3, <1>14, <2>1, <3>1 DEF Covered
    <3>2. CASE r.at > po.since
      BY <1>3, <1>5, <2>1, <3>2 DEF SyncInv, SyncTypeOK
    <3>3. QED
      BY <1>3, <1>6, <3>1, <3>2 DEF Row
  <2>2. ASSUME NEW c \in changes, c.at <= nb
        PROVE  known'[d][c.owner] >= c.at
    <3>1. c.owner \in Owners /\ c.at \in Nat /\ known[d][c.owner] \in Nat
      BY <1>3, <1>6 DEF Change, SyncInv, SyncTypeOK
    <3>2. known'[d] = told /\ told[c.owner] \in Nat
      BY <1>3, <1>5, <1>7, <3>1 DEF SyncInv, SyncTypeOK
    <3>3. CASE c.at <= po.since
      <4>1. known[d][c.owner] >= c.at
        BY <1>3, <3>3 DEF Covered
      <4>2. QED
        BY <1>7, <3>1, <3>2, <4>1
    <3>4. CASE c.at > po.since
      <4>1. PICK e \in po.changed : e.owner = c.owner /\ e.at >= c.at
        BY <1>3, <2>2, <3>4
      <4>2. told[c.owner] >= e.at /\ e.at \in Nat
        BY <1>3, <1>6, <1>7, <3>1, <4>1 DEF Change
      <4>3. QED
        BY <3>1, <3>2, <4>1, <4>2
    <3>5. QED
      BY <1>3, <3>1, <3>3, <3>4
  <2>3. QED
    BY <1>5, <2>1, <2>2 DEF Covered
<1>17. CursorsCovered'
  <2>1. \A x \in Devices : cursor[x] \in Nat /\ cursor[x] <= now /\ Covered(x, cursor[x])
    BY DEF SyncInv, SyncTypeOK, CursorsCovered
  <2>2. \A x \in Devices : cursor'[x] <= now /\ Covered(x, cursor[x])'
    BY <1>5, <1>15, <2>1 DEF Covered
  <2>3. QED
    BY <1>5, <2>2 DEF CursorsCovered
<1>18. PollCovered(p)'
  <2>1. NextBatch(new) = nb
    BY <1>2, <1>11 DEF NextBatch
  <2>2. Covered(d, po.since)'
    BY <1>3, <1>15
  <2>3. poll'[p] = new
    BY <1>9, <1>10
  <2>4. /\ new.since <= now /\ Covered(new.dev, new.since)'
        /\ NextBatch(new) \in Nat /\ NextBatch(new) <= now /\ Covered(new.dev, NextBatch(new))'
    BY <1>3, <1>11, <1>16, <2>1, <2>2
  <2>5. QED
    BY <1>5, <1>11, <2>3, <2>4 DEF PollCovered, Covered
<1>19. QED
  BY <1>5, <1>9, <1>13, <1>14, <1>17, <1>18, OtherPolls

\* Persist: the cursor moves to a moment that covers its device.
LEMMA PersistStep ==
  ASSUME SyncInv, NEW p \in Polls, Persist(p)
  PROVE  SyncInv'
<1>1. PICK po, d, nb : po = poll[p] /\ d = po.dev /\ nb = NextBatch(po)
  OBVIOUS
<1>2. po.pc = "persist" /\ d \in Devices /\ nb \in Nat /\ nb <= now /\ Covered(d, nb)
  BY <1>1 DEF SyncInv, SyncTypeOK, PollCovered, Persist, Polling
<1>3. /\ UNCHANGED <<now, queue, changes, seen, known>>
      /\ cursor' = [cursor EXCEPT ![d] = nb]
      /\ poll' = [poll EXCEPT ![p] = NoPoll]
  BY <1>1 DEF Persist, tables
<1>4. NoPoll \in Poll
  BY DEF NoPoll, Poll
<1>5. poll'[p] = NoPoll /\ \A q \in Polls : q # p => poll'[q] = poll[q]
  BY <1>3 DEF SyncInv, SyncTypeOK
<1>6. SyncTypeOK'
  BY <1>2, <1>3, <1>4, <1>5 DEF SyncInv, SyncTypeOK, NoPoll
<1>7. \A x \in Devices : cursor'[x] = IF x = d THEN nb ELSE cursor[x]
  BY <1>3 DEF SyncInv, SyncTypeOK
<1>8. \A x \in Devices : cursor'[x] <= now /\ Covered(x, cursor'[x])
  BY <1>2, <1>7 DEF SyncInv, CursorsCovered
<1>9. CursorsCovered'
  BY <1>3, <1>8 DEF CursorsCovered, Covered
<1>10. PollCovered(p)'
  BY <1>5 DEF PollCovered, NoPoll
<1>11. \A x \in Devices : seen[x] \subseteq seen'[x] /\ \A o \in Owners : known'[x][o] >= known[x][o]
  BY <1>3 DEF SyncInv, SyncTypeOK
<1>12. QED
  BY <1>3, <1>5, <1>6, <1>9, <1>10, <1>11, OtherPolls

\* The invariant holds before anything is queued.
LEMMA SyncInit == Init => SyncInv
  BY DEF Init, SyncInv, SyncTypeOK, Past, CursorsCovered, PollCovered, Covered, NoPoll, Poll, Row, Change

\* Every step keeps the invariant, as long as pages fit.
LEMMA SyncStep ==
  ASSUME SendInv, SyncInv, ~ Overlap, PagesFit, [Next]_vars
  PROVE  SyncInv'
<1>1. ASSUME NEW a \in Attempts, FanOut(a)
      PROVE  SyncInv'
  <2>1. PICK d \in attempt[a].left :
          /\ Insertable /\ now' = now + 1
          /\ queue' = queue \cup {[txn |-> attempt[a].txn, dev |-> d, at |-> now + 1]}
          /\ UNCHANGED <<changes, clients, poll>>
          /\ Serving(a, "insert")
    BY <1>1 DEF FanOut
  <2>2. attempt[a].txn \in Txns /\ d \in Devices
    BY <2>1 DEF SendInv, SendTypeOK, ClaimedFirst, Attempt, Serving
  <2>3. [txn |-> attempt[a].txn, dev |-> d, at |-> now + 1] \in Row
    BY <2>2 DEF Row, SyncInv, SyncTypeOK
  <2>4. queue \subseteq Row /\ changes \subseteq Change
    BY DEF SyncInv, SyncTypeOK
  <2>5. QED
    BY <2>1, <2>3, <2>4, InsertStep
<1>2. ASSUME NEW o \in Owners, LogChange(o)
      PROVE  SyncInv'
  <2>1. queue \subseteq Row /\ changes \subseteq Change /\ now + 1 \in Nat
    BY DEF SyncInv, SyncTypeOK
  <2>2. [owner |-> o, at |-> now + 1] \in Change
    BY <2>1 DEF Change
  <2>3. QED
    BY <1>2, <2>1, <2>2, InsertStep DEF LogChange
<1>3. ASSUME NEW a \in Attempts, ClaimTxn(a) \/ Reply(a) \/ Unheard(a) \/ Abort(a) \/ \E t \in Txns : Put(a, t)
      PROVE  SyncInv'
  BY <1>3, SyncUntouched DEF ClaimTxn, Reply, Unheard, Abort, Put, tables, clients
<1>4. ASSUME NEW p \in Polls, Sync(p) \/ PollLost(p) \/ \E d \in Online : PollStart(p, d)
      PROVE  SyncInv'
  BY <1>4, ToDeviceAssumption, RowsStep, ChangesStep, ReceiveStep, PersistStep DEF Sync
<1>5. CASE UNCHANGED vars
  BY <1>5, SyncUntouched DEF vars
<1>6. QED
  BY <1>1, <1>2, <1>3, <1>4, <1>5 DEF Next, Serve

\* A device's cursor never passes an event or a device change it was not given,
\* whatever polls overlap, are lost or end out of order and whatever is queued
\* in between, while no page is cut off and no insert falls within a sync.
THEOREM CursorNeverPasses == ~ Overlap /\ Spec /\ []PagesFit => []NothingSkipped
<1> SUFFICES ASSUME ~ Overlap
             PROVE  Spec /\ []PagesFit => []NothingSkipped
  OBVIOUS
<1>1. SendInv /\ SyncInv /\ PagesFit /\ [Next]_vars => SyncInv'
  BY SyncStep
<1>2. SyncInv => NothingSkipped
  BY DEF SyncInv, CursorsCovered, Covered, NothingSkipped
<1>3. QED
  BY SyncInit, SendInvariant, <1>1, <1>2, PTL DEF Spec

(***************************************************************************)
(* The pump: what a call had queued is dispatched when it returns          *)
(***************************************************************************)
CallFields == {"op", "who", "dev", "dk", "pc", "next", "us", "todo", "a", "b", "owed", "gen", "was", "gone", "pub", "fresh"}
PumpFields == {"st", "gen", "todo", "resp", "round"}
InPump == {"pumping", "waiting", "woken", "catch", "failed"}

\* What the machine has queued, and what a list of requests carries.
Queue == dirty \cup (IF upload THEN {Me} ELSE {})
Carried(todo) == UNION {todo[k].us : k \in DOMAIN todo}

Listed(todo) ==
  /\ todo \in Seq({todo[k] : k \in DOMAIN todo})
  /\ \A k \in DOMAIN todo : todo[k].op = "upload" => Me \in todo[k].us

PumpForms ==
  /\ DOMAIN calls = Calls /\ \A j \in Calls : DOMAIN calls[j] = CallFields
  /\ DOMAIN pump = Calls
  /\ \A i \in Calls : DOMAIN pump[i] = PumpFields /\ Listed(pump[i].todo)
  /\ \A i \in Calls : pump[i].st \in {"send", "mark"} => pump[i].todo # <<>>
  /\ requested \in Nat /\ served \in Nat /\ served <= requested
  /\ \A j \in Calls : calls[j].gen \in Nat /\ calls[j].gen <= requested
  /\ \A i \in Calls : pump[i].gen \in Nat /\ pump[i].gen <= requested

\* What a call owes is queued until a round that began after it took it along.
Owing == \A j \in Calls : calls[j].owed \subseteq Queue
TakenAlong ==
  \A i, j \in Calls :
    pump[i].st \in {"read", "send", "mark"} /\ calls[j].gen <= pump[i].gen => calls[j].owed \subseteq Carried(pump[i].todo)
NotServed == \A j \in Calls : calls[j].owed # {} => served < calls[j].gen
Draining == \A j \in Calls : calls[j].owed # {} => calls[j].pc \in InPump \/ capped

PumpInv == PumpForms /\ Owing /\ TakenAlong /\ NotServed /\ Draining

LEMMA DrainingSays == PumpInv => PumpDrains
BY DEF PumpInv, Draining, PumpDrains, InPump, At

\* Calls go on outside the pump: none owes more, and none leaves with a debt.
LEMMA CallsGoOn ==
  ASSUME PumpInv, DOMAIN calls' = Calls,
         \A j \in Calls : /\ DOMAIN calls'[j] = CallFields
                          /\ calls'[j].owed \subseteq calls[j].owed /\ calls'[j].gen = calls[j].gen
                          /\ calls'[j].owed # {} => calls'[j].pc \in InPump \/ capped',
         UNCHANGED <<pump, requested, served>>, dirty \subseteq dirty', upload => upload'
  PROVE  PumpInv'
<1>1. PumpForms'
  BY DEF PumpInv, PumpForms
<1>2. Queue \subseteq Queue'
  <2>1. CASE upload
    BY <2>1 DEF Queue
  <2>2. CASE ~ upload
    BY <2>2 DEF Queue
  <2>3. QED
    BY <2>1, <2>2
<1>3. Owing'
  BY <1>2 DEF PumpInv, Owing
<1>4. TakenAlong' /\ NotServed'
  BY DEF PumpInv, TakenAlong, NotServed
<1>5. Draining'
  BY DEF PumpInv, Draining
<1>6. QED
  BY <1>1, <1>3, <1>4, <1>5 DEF PumpInv

LEMMA CallGoesOn ==
  ASSUME PumpInv, NEW i \in Calls, DOMAIN calls' = Calls, \A j \in Calls : j # i => calls'[j] = calls[j],
         DOMAIN calls'[i] = CallFields,
         calls'[i].owed \subseteq calls[i].owed, calls'[i].gen = calls[i].gen,
         calls'[i].owed # {} => calls'[i].pc \in InPump \/ capped,
         UNCHANGED <<pump, requested, served, capped>>, dirty \subseteq dirty', upload => upload'
  PROVE  PumpInv'
<1>1. \A j \in Calls : /\ DOMAIN calls'[j] = CallFields
                       /\ calls'[j].owed \subseteq calls[j].owed /\ calls'[j].gen = calls[j].gen
                       /\ calls'[j].owed # {} => calls'[j].pc \in InPump \/ capped'
  BY DEF PumpInv, PumpForms, Draining
<1>2. QED
  BY <1>1, CallsGoOn

\* A call of pumpOutgoing owes what is queued, and no round under way took it along.
LEMMA PumpCalled ==
  ASSUME PumpInv, NEW i \in Calls, NEW c, DOMAIN c = CallFields, NEW next, Pumps(i, c, next),
         dirty \subseteq dirty', upload => upload', capped' = capped
  PROVE  PumpInv'
<1>1. /\ DOMAIN calls' = Calls /\ \A j \in Calls : j # i => calls'[j] = calls[j]
      /\ DOMAIN calls'[i] = CallFields
      /\ calls'[i].pc = IF flight = 0 THEN "pumping" ELSE "waiting"
      /\ calls'[i].gen = requested + 1 /\ calls'[i].owed = dirty' \cup IF upload' THEN {Me} ELSE {}
  BY DEF Pumps, PumpInv, PumpForms, CallFields
<1>2. requested \in Nat /\ requested' = requested + 1 /\ served' = served
  BY DEF Pumps, PumpCall, PumpInv, PumpForms
<1>3. \A j \in Calls : pump'[j] = pump[j] \/ (j = i /\ pump'[j] = [NoPump EXCEPT !.st = "loop"])
  BY DEF Pumps, PumpCall, StartPump, PumpInv, PumpForms
<1>4. DOMAIN pump' = Calls
  BY DEF Pumps, PumpCall, StartPump, PumpInv, PumpForms
<1>5. LET p == [NoPump EXCEPT !.st = "loop"] IN
        DOMAIN p = PumpFields /\ p.todo = <<>> /\ p.gen = 0 /\ p.st = "loop"
  BY DEF NoPump, PumpFields
<1>6. calls'[i].owed = Queue'
  BY <1>1 DEF Queue
<1>7. Queue \subseteq Queue'
  <2>1. CASE upload
    BY <2>1 DEF Queue
  <2>2. CASE ~ upload
    BY <2>2 DEF Queue
  <2>3. QED
    BY <2>1, <2>2
<1>8. requested < requested' /\ requested' \in Nat
  BY <1>2
<1>9. PumpForms'
  <2>1. \A j \in Calls : calls'[j].gen \in Nat /\ calls'[j].gen <= requested'
    BY <1>1, <1>2 DEF PumpInv, PumpForms
  <2>2. ASSUME NEW j \in Calls
        PROVE  /\ pump'[j].gen \in Nat /\ pump'[j].gen <= requested'
               /\ DOMAIN pump'[j] = PumpFields /\ Listed(pump'[j].todo)
    <3>1. CASE pump'[j] = pump[j]
      BY <1>2, <3>1 DEF PumpInv, PumpForms
    <3>2. CASE pump'[j] = [NoPump EXCEPT !.st = "loop"]
      <4>1. pump'[j].todo = <<>> /\ pump'[j].gen = 0 /\ DOMAIN pump'[j] = PumpFields
        BY <1>5, <3>2
      <4>2. Listed(<<>>)
        BY DEF Listed
      <4>3. 0 \in Nat /\ 0 <= requested'
        BY <1>2
      <4>4. Listed(pump'[j].todo)
        BY <4>1, <4>2, Zenon
      <4>5. QED
        BY <4>1, <4>3, <4>4
    <3>3. QED
      BY <1>3, <3>1, <3>2
  <2>3. served' <= requested' /\ requested' \in Nat /\ served' \in Nat
    BY <1>2 DEF PumpInv, PumpForms
  <2>4. \A j \in Calls : DOMAIN calls'[j] = CallFields
    BY <1>1 DEF PumpInv, PumpForms
  <2>5. \A j \in Calls : pump'[j].st \in {"send", "mark"} => pump'[j].todo # <<>>
    BY <1>3, <1>5 DEF PumpInv, PumpForms
  <2>6. QED
    BY <1>1, <1>4, <2>1, <2>2, <2>3, <2>4, <2>5 DEF PumpForms
<1>10. Owing'
  BY <1>1, <1>6, <1>7 DEF PumpInv, Owing
<1>11. TakenAlong'
  <2>1. SUFFICES ASSUME NEW k \in Calls, NEW j \in Calls, pump'[k].st \in {"read", "send", "mark"}, calls'[j].gen <= pump'[k].gen
                 PROVE  calls'[j].owed \subseteq Carried(pump'[k].todo)
    BY DEF TakenAlong
  <2>2. pump'[k] = pump[k]
    BY <1>3, <1>5, <2>1
  <2>3. j # i
    BY <1>1, <1>2, <2>1, <2>2 DEF PumpInv, PumpForms
  <2>4. QED
    BY <1>1, <2>1, <2>2, <2>3 DEF PumpInv, TakenAlong
<1>12. NotServed'
  <2>1. served < requested + 1
    BY <1>2 DEF PumpInv, NotServed, PumpForms
  <2>2. QED
    BY <1>1, <1>2, <2>1 DEF PumpInv, NotServed
<1>13. Draining'
  BY <1>1 DEF PumpInv, Draining, InPump
<1>14. QED
  BY <1>9, <1>10, <1>11, <1>12, <1>13 DEF PumpInv

\* A step of a call that is not in the pump.
Quiet(i) ==
  /\ calls[i].pc \notin InPump
  /\ DOMAIN calls' = Calls /\ \A j \in Calls : j # i => calls'[j] = calls[j]
  /\ DOMAIN calls'[i] = CallFields /\ calls'[i].owed = calls[i].owed /\ calls'[i].gen = calls[i].gen
  /\ UNCHANGED <<pump, requested, served, capped>> /\ dirty \subseteq dirty' /\ (upload => upload')

LEMMA QuietKeeps ==
  ASSUME PumpInv, NEW i \in Calls, Quiet(i)
  PROVE  PumpInv'
<1>1. calls'[i].owed # {} => calls'[i].pc \in InPump \/ capped
  BY DEF PumpInv, Draining, Quiet
<1>2. QED
  BY <1>1, CallGoesOn DEF Quiet

LEMMA QuietSteps ==
  ASSUME PumpInv, NEW i \in Calls,
         \/ Publish(i) \/ Ban(i) \/ BanLog(i) \/ Signal(i) \/ SendStart(i) \/ DmStart(i) \/ EditStart(i) \/ OnMembers(i) \/ FetchCrypto(i)
         \/ FetchRoster(i) \/ FetchFail(i) \/ Verdict(i) \/ Invalidate(i) \/ CheckRead(i) \/ CheckPin(i) \/ Claim(i) \/ Claimed(i)
         \/ Share(i) \/ EnsureFail(i) \/ Encrypt(i) \/ KeyPoll(i) \/ ReceiveChanges(i)
  PROVE  Quiet(i)
<1>1. DOMAIN calls = Calls /\ DOMAIN calls[i] = CallFields
  BY DEF PumpInv, PumpForms
<1>2. CASE Publish(i)
  BY <1>1, <1>2 DEF Quiet, InPump, CallFields, Publish, Begin, At, Goto, mutex, machine, past
<1>3. CASE Ban(i)
  BY <1>1, <1>3 DEF Quiet, InPump, CallFields, Ban, Begin, At, Goto, mutex, machine, past
<1>4. CASE BanLog(i)
  BY <1>1, <1>4 DEF Quiet, InPump, CallFields, BanLog, At, Goto, mutex, machine, past
<1>5. CASE Signal(i)
  BY <1>1, <1>5 DEF Quiet, InPump, CallFields, Signal, At, Goto, mutex, machine, past
<1>6. CASE SendStart(i)
  BY <1>1, <1>6 DEF Quiet, InPump, CallFields, SendStart, Begin, At, Start, mutex, machine, past
<1>7. CASE DmStart(i)
  BY <1>1, <1>7 DEF Quiet, InPump, CallFields, DmStart, Begin, At, Start, mutex, machine, past
<1>8. CASE EditStart(i)
  BY <1>1, <1>8 DEF Quiet, InPump, CallFields, EditStart, Begin, At, Start, mutex, machine, past
<1>9. CASE OnMembers(i)
  BY <1>1, <1>9 DEF Quiet, InPump, CallFields, OnMembers, Begin, At, Start, mutex, machine, past
<1>10. CASE FetchCrypto(i)
  BY <1>1, <1>10 DEF Quiet, InPump, CallFields, FetchCrypto, At, mutex, machine, past
<1>11. CASE FetchRoster(i)
  BY <1>1, <1>11 DEF Quiet, InPump, CallFields, FetchRoster, At, mutex, machine, past
<1>12. CASE FetchFail(i)
  BY <1>1, <1>12 DEF Quiet, InPump, CallFields, FetchFail, At, Proceed, mutex, machine, past
<1>13. CASE Verdict(i)
  BY <1>1, <1>13 DEF Quiet, InPump, CallFields, Verdict, At, Proceed, mutex, machine, past
<1>14. CASE Invalidate(i)
  BY <1>1, <1>14 DEF Quiet, InPump, CallFields, Invalidate, At, Goto, mutex, machine, past
<1>15. CASE CheckRead(i)
  BY <1>1, <1>15 DEF Quiet, InPump, CallFields, CheckRead, At, Goto, mutex, machine, past
<1>16. CASE CheckPin(i)
  BY <1>1, <1>16 DEF Quiet, InPump, CallFields, CheckPin, At, mutex, machine, past
<1>17. CASE Claim(i)
  BY <1>1, <1>17 DEF Quiet, InPump, CallFields, Claim, At, Goto, mutex, machine, past
<1>18. CASE Claimed(i)
  BY <1>1, <1>18 DEF Quiet, InPump, CallFields, Claimed, At, Goto, mutex, machine, past
<1>19. CASE Share(i)
  BY <1>1, <1>19 DEF Quiet, InPump, CallFields, Share, At, mutex, machine, past
<1>20. CASE EnsureFail(i)
  BY <1>1, <1>20 DEF Quiet, InPump, CallFields, EnsureFail, At, Goto, mutex, machine, past
<1>21. CASE Encrypt(i)
  BY <1>1, <1>21 DEF Quiet, InPump, CallFields, Encrypt, At, Goto, mutex, machine, past
<1>22. CASE KeyPoll(i)
  BY <1>1, <1>22 DEF Quiet, InPump, CallFields, KeyPoll, Begin, At, mutex, machine, past
<1>23. CASE ReceiveChanges(i)
  BY <1>1, <1>23 DEF Quiet, InPump, CallFields, ReceiveChanges, At, Goto, mutex, machine, past
<1>24. QED
  BY <1>2, <1>3, <1>4, <1>5, <1>6, <1>7, <1>8, <1>9, <1>10, <1>11, <1>12, <1>13, <1>14, <1>15, <1>16, <1>17, <1>18, <1>19, <1>20, <1>21, <1>22, <1>23

LEMMA CallerSteps ==
  ASSUME PumpInv, NEW i \in Calls,
         Join(i) \/ Failed(i) \/ Track(i) \/ TrackPeer(i) \/ PutRoomKey(i) \/ Catch(i) \/ PollPump(i)
  PROVE  PumpInv'
<1>1. DOMAIN calls = Calls /\ \A j \in Calls : DOMAIN calls[j] = CallFields
  BY DEF PumpInv, PumpForms
<1>2. CASE Join(i)
  <2>1. /\ At(i, "todo")
        /\ calls' = [j \in Calls |-> [calls[j] EXCEPT !.pc = IF j = i THEN "signal" ELSE @, !.gone = @ \ {calls[i].who}]]
        /\ UNCHANGED <<pump, requested, served, dirty, upload, capped>>
    BY <1>2 DEF Join, Begin, machine, mutex, past
  <2>2. \A j \in Calls : /\ DOMAIN calls'[j] = CallFields
                         /\ calls'[j].owed = calls[j].owed /\ calls'[j].gen = calls[j].gen
                         /\ j # i => calls'[j].pc = calls[j].pc
    BY <1>1, <2>1 DEF CallFields
  <2>3. calls[i].owed # {} => capped
    BY <2>1 DEF PumpInv, Draining, At, InPump
  <2>4. \A j \in Calls : calls'[j].owed # {} => calls'[j].pc \in InPump \/ capped'
    BY <2>1, <2>2, <2>3 DEF PumpInv, Draining
  <2>5. DOMAIN calls' = Calls
    BY <2>1
  <2>6. QED
    BY <2>1, <2>2, <2>4, <2>5, CallsGoOn
<1>3. CASE Failed(i)
  <2>1. /\ DOMAIN calls' = Calls /\ \A j \in Calls : j # i => calls'[j] = calls[j]
        /\ DOMAIN calls'[i] = CallFields /\ calls'[i].owed = {} /\ calls'[i].gen = calls[i].gen
        /\ UNCHANGED <<pump, requested, served, dirty, upload, capped>>
    BY <1>1, <1>3 DEF Failed, machine, mutex, past, CallFields
  <2>2. QED
    BY <2>1, CallGoesOn
<1>4. CASE Track(i)
  <2> DEFINE c == [calls[i] EXCEPT !.todo = calls[i].us]
  <2>1. DOMAIN c = CallFields
    BY <1>1 DEF CallFields
  <2>2. Pumps(i, c, IF calls[i].op = "dm" THEN "claim" ELSE "check")
    BY <1>4 DEF Track
  <2>3. dirty \subseteq dirty' /\ upload' = upload /\ capped' = capped
    BY <1>4 DEF Track, Tracks, past
  <2> HIDE DEF c
  <2>4. QED
    BY <2>1, <2>2, <2>3, PumpCalled
<1>5. CASE TrackPeer(i)
  <2> DEFINE c == [calls[i] EXCEPT !.us = {calls[i].who, Myself}]
  <2>1. DOMAIN c = CallFields
    BY <1>1 DEF CallFields
  <2>2. Pumps(i, c, "track")
    BY <1>5 DEF TrackPeer
  <2>3. dirty \subseteq dirty' /\ upload' = upload /\ capped' = capped
    BY <1>5 DEF TrackPeer, Tracks, past
  <2> HIDE DEF c
  <2>4. QED
    BY <2>1, <2>2, <2>3, PumpCalled
<1>6. CASE PutRoomKey(i)
  <2>1. Pumps(i, calls[i], IF calls[i].op = "event" THEN "done" ELSE "encrypt")
    BY <1>6 DEF PutRoomKey
  <2>2. dirty' = dirty /\ upload' = upload /\ capped' = capped
    BY <1>6 DEF PutRoomKey, past
  <2>3. QED
    BY <1>1, <2>1, <2>2, PumpCalled
<1>7. CASE Catch(i)
  BY <1>1, <1>7, PumpCalled DEF Catch, machine, past
<1>8. CASE PollPump(i)
  BY <1>1, <1>8, PumpCalled DEF PollPump, machine, past
<1>9. QED
  BY <1>2, <1>3, <1>4, <1>5, <1>6, <1>7, <1>8

\* A pump goes on in its round, or its next one begins.
LEMMA PumpGoesOn ==
  ASSUME PumpInv, NEW i \in Calls, NEW p, DOMAIN pump' = Calls, pump'[i] = p,
         \A j \in Calls : j # i => pump'[j] = pump[j], DOMAIN p = PumpFields,
         p.gen \in Nat, p.gen <= requested, Listed(p.todo), p.st \in {"send", "mark"} => p.todo # <<>>,
         UNCHANGED <<calls, requested, dirty, upload, capped>>,
         served' \in Nat, served' <= requested, \A j \in Calls : calls[j].owed # {} => served' < calls[j].gen,
         p.st \in {"read", "send", "mark"} =>
           \A j \in Calls : calls[j].gen <= p.gen => calls[j].owed \subseteq Carried(p.todo)
  PROVE  PumpInv'
<1>1. PumpForms'
  BY DEF PumpInv, PumpForms
<1>2. Owing' /\ Draining' /\ NotServed'
  BY DEF PumpInv, Owing, Draining, NotServed, Queue
<1>3. TakenAlong'
  BY DEF PumpInv, TakenAlong
<1>4. QED
  BY <1>1, <1>2, <1>3 DEF PumpInv

\* The end of a pump wakes those who waited for it.
LEMMA PumpEnds ==
  ASSUME PumpInv, NEW i \in Calls, NEW ok \in BOOLEAN, EndPump(i, ok),
         UNCHANGED <<requested, dirty, upload>>, capped => capped',
         served' \in Nat, served' <= requested, \A j \in Calls : calls[j].owed # {} => served' < calls[j].gen,
         ok => capped' \/ calls[i].owed = {}
  PROVE  PumpInv'
<1>1. /\ DOMAIN pump' = Calls /\ pump'[i] = NoPump /\ \A j \in Calls : j # i => pump'[j] = pump[j]
  BY DEF PumpInv, PumpForms, EndPump
<1>2. DOMAIN NoPump = PumpFields /\ NoPump.st = "off" /\ NoPump.gen = 0 /\ Listed(NoPump.todo)
  BY DEF NoPump, PumpFields, Listed
<1>3. DOMAIN calls' = Calls
  BY DEF EndPump
<1>4. ASSUME NEW j \in Calls
      PROVE  /\ DOMAIN calls'[j] = CallFields /\ calls'[j].owed = calls[j].owed /\ calls'[j].gen = calls[j].gen
             /\ calls'[j].owed # {} => calls'[j].pc \in InPump \/ capped'
  <2>1. DOMAIN calls[j] = CallFields
    BY DEF PumpInv, PumpForms
  <2>2. \A k \in Calls : Caught(k) \in {"failed", "catch"}
    BY DEF Caught
  <2>3. CASE j = i
    <3>1. calls'[j] = [calls[j] EXCEPT !.pc = IF ok THEN calls[j].next ELSE Caught(j)]
      BY <2>3 DEF EndPump
    <3>2. QED
      BY <2>1, <2>2, <2>3, <3>1 DEF CallFields, InPump
  <2>4. CASE j # i /\ At(j, "waiting") /\ i \in calls[j].was
    <3>1. calls'[j] = [calls[j] EXCEPT !.pc = IF ok THEN "woken" ELSE Caught(j)]
      BY <2>4 DEF EndPump
    <3>2. QED
      BY <2>1, <2>2, <3>1 DEF CallFields, InPump
  <2>5. CASE j # i /\ ~ (At(j, "waiting") /\ i \in calls[j].was)
    <3>1. calls'[j] = calls[j]
      BY <2>5 DEF EndPump
    <3>2. QED
      BY <2>1, <3>1 DEF PumpInv, Draining
  <2>6. QED
    BY <2>3, <2>4, <2>5
<1>5. PumpForms'
  <2>1. 0 \in Nat /\ (requested \in Nat => 0 <= requested)
    OBVIOUS
  <2>2. QED
    BY <1>1, <1>2, <1>3, <1>4, <2>1 DEF PumpInv, PumpForms
<1>6. Owing' /\ Draining' /\ NotServed'
  BY <1>4 DEF PumpInv, Owing, Draining, NotServed, Queue
<1>7. TakenAlong'
  BY <1>1, <1>2, <1>4 DEF PumpInv, TakenAlong
<1>8. QED
  BY <1>5, <1>6, <1>7 DEF PumpInv

LEMMA ListedTail ==
  ASSUME NEW s, Listed(s), s # <<>>
  PROVE  /\ Listed(Tail(s)) /\ Carried(s) \subseteq Head(s).us \cup Carried(Tail(s))
         /\ Tail(s) = <<>> => Carried(s) \subseteq Head(s).us
<1> DEFINE R == {s[k] : k \in DOMAIN s}
           t == Tail(s)
<1>1. s \in Seq(R) /\ Len(s) \in Nat /\ Len(s) # 0 /\ DOMAIN s = 1 .. Len(s)
  BY DEF Listed
<1>2. t \in Seq(R) /\ Len(t) = Len(s) - 1 /\ DOMAIN t = 1 .. (Len(s) - 1) /\ \A k \in DOMAIN t : t[k] = s[k + 1]
  BY <1>1
<1>3. Head(s) = s[1]
  BY <1>1
<1>4. Listed(t)
  <2>1. \A k \in 1 .. Len(t) : t[k] \in {t[n] : n \in DOMAIN t}
    BY <1>2
  <2> DEFINE T == {t[n] : n \in DOMAIN t}
  <2> HIDE DEF t
  <2>2. Len(t) \in Nat /\ t = [k \in 1 .. Len(t) |-> t[k]]
    BY <1>2
  <2>3. t \in [1 .. Len(t) -> T]
    BY <2>1, <2>2
  <2>4. t \in Seq(T)
    BY <2>2, <2>3, SeqDef
  <2>5. \A k \in DOMAIN t : t[k].op = "upload" => Me \in t[k].us
    BY <1>1, <1>2 DEF Listed
  <2>6. QED
    BY <2>4, <2>5 DEF Listed
<1>5. ASSUME NEW x \in Carried(s)
      PROVE  x \in Head(s).us \/ x \in Carried(t)
  <2>1. PICK k \in DOMAIN s : x \in s[k].us
    BY <1>5 DEF Carried
  <2>2. CASE k = 1
    BY <1>3, <2>1, <2>2
  <2>3. CASE k # 1
    <3>1. k - 1 \in DOMAIN t /\ t[k - 1] = s[k]
      BY <1>1, <1>2, <2>1, <2>3
    <3>2. QED
      BY <2>1, <3>1 DEF Carried
  <2>4. QED
    BY <2>2, <2>3
<1>6. t = <<>> => Carried(t) = {}
  BY DEF Carried
<1>7. QED
  BY <1>4, <1>5, <1>6

LEMMA RoundTakesAll == Listed(Outgoing) /\ Queue \subseteq Carried(Outgoing)
<1> DEFINE up == [op |-> "upload", us |-> {Me}]
           query == [op |-> "query", us |-> dirty]
<1>1. CASE upload /\ dirty # {}
  <2>1. Outgoing = <<up>> \o <<query>>
    BY <1>1 DEF Outgoing
  <2> DEFINE s == <<up>> \o <<query>>
             R == {up, query}
  <2>2. s \in Seq(R) /\ Len(s) = 2 /\ s[1] = up /\ s[2] = query
    <3> HIDE DEF up, query
    <3>1. QED
      OBVIOUS
  <2> HIDE DEF s
  <2>3. DOMAIN s = {1, 2} /\ {s[k] : k \in DOMAIN s} = R
    <3> HIDE DEF R
    <3>1. DOMAIN s = 1 .. 2
      BY <2>2
    <3>2. DOMAIN s = {1, 2}
      BY <3>1
    <3>3. {s[k] : k \in DOMAIN s} = {s[1], s[2]}
      BY <3>2
    <3>4. QED
      BY <2>2, <3>2, <3>3 DEF R
  <2>4. Listed(s)
    BY <2>2, <2>3 DEF Listed
  <2>5. Queue = {Me} \cup dirty
    BY <1>1 DEF Queue
  <2>6. up.us \cup query.us \subseteq Carried(s)
    BY <2>2, <2>3 DEF Carried
  <2>7. QED
    BY <2>1, <2>4, <2>5, <2>6 DEF s
<1>2. CASE upload /\ dirty = {}
  <2>1. Outgoing = <<up>>
    BY <1>2 DEF Outgoing
  <2>2. Listed(<<up>>)
    BY DEF Listed
  <2>3. Queue = {Me}
    BY <1>2 DEF Queue
  <2>4. DOMAIN <<up>> = {1} /\ <<up>>[1] = up
    OBVIOUS
  <2>5. up.us \subseteq Carried(<<up>>)
    BY <2>4 DEF Carried
  <2>6. QED
    BY <2>1, <2>2, <2>3, <2>5
<1>3. CASE ~ upload /\ dirty # {}
  <2>1. Outgoing = <<query>>
    BY <1>3 DEF Outgoing
  <2>2. Listed(<<query>>)
    BY DEF Listed
  <2>3. Queue = dirty
    BY <1>3 DEF Queue
  <2>4. DOMAIN <<query>> = {1} /\ <<query>>[1] = query
    OBVIOUS
  <2>5. query.us \subseteq Carried(<<query>>)
    BY <2>4 DEF Carried
  <2>6. QED
    BY <2>1, <2>2, <2>3, <2>5
<1>4. CASE ~ upload /\ dirty = {}
  <2>1. Outgoing = <<>>
    BY <1>4 DEF Outgoing
  <2>2. Listed(<<>>)
    BY DEF Listed
  <2>3. Queue = {}
    BY <1>4 DEF Queue
  <2>4. QED
    BY <2>1, <2>2, <2>3
<1>5. QED
  BY <1>1, <1>2, <1>3, <1>4

LEMMA RoundSteps ==
  ASSUME PumpInv, NEW i \in Calls, PumpLoop(i) \/ PumpRead(i) \/ PumpSend(i) \/ PumpFail(i) \/ Woken(i)
  PROVE  PumpInv'
<1>1. /\ DOMAIN pump = Calls /\ DOMAIN pump[i] = PumpFields /\ pump[i].gen \in Nat /\ pump[i].gen <= requested
      /\ Listed(pump[i].todo) /\ requested \in Nat /\ served \in Nat /\ served <= requested
  BY DEF PumpInv, PumpForms
<1>2. \A j \in Calls : calls[j].owed # {} => served < calls[j].gen
  BY DEF PumpInv, NotServed
<1>3. \A j \in Calls : calls[j].gen \in Nat /\ calls[j].gen <= requested
  BY DEF PumpInv, PumpForms
<1>4. CASE PumpLoop(i)
  <2>1. UNCHANGED <<requested, served, dirty, upload>>
    BY <1>4 DEF PumpLoop, machine
  <2>2. CASE pump[i].round = Rounds
    BY <1>1, <1>2, <1>4, <2>1, <2>2, PumpEnds DEF PumpLoop
  <2>3. CASE pump[i].round # Rounds
    <3>1. /\ DOMAIN pump' = Calls /\ \A j \in Calls : j # i => pump'[j] = pump[j]
          /\ DOMAIN pump'[i] = PumpFields /\ pump'[i].gen = requested /\ pump'[i].todo = Outgoing /\ pump'[i].st = "read"
      BY <1>1, <1>4, <2>3 DEF PumpLoop, PumpFields
    <3>2. calls' = calls /\ capped' = capped
      BY <1>4, <2>3 DEF PumpLoop
    <3>3. \A j \in Calls : calls[j].owed \subseteq Carried(Outgoing)
      BY RoundTakesAll DEF PumpInv, Owing
    <3>4. PICK p : p = pump'[i]
      OBVIOUS
    <3>5. QED
      BY <1>1, <1>2, <2>1, <3>1, <3>2, <3>3, <3>4, RoundTakesAll, PumpGoesOn
  <2>4. QED
    BY <2>2, <2>3
<1>5. CASE PumpRead(i)
  <2>1. UNCHANGED <<requested, dirty, upload, capped>> /\ pump[i].st = "read"
    BY <1>5 DEF PumpRead, machine, past
  <2>2. CASE pump[i].todo # <<>>
    <3> DEFINE p == [pump[i] EXCEPT !.st = "send"]
    <3>1. pump' = [pump EXCEPT ![i] = p] /\ UNCHANGED <<calls, served>>
      BY <1>1, <1>5, <2>2 DEF PumpRead
    <3>2. DOMAIN p = PumpFields /\ p.gen = pump[i].gen /\ p.todo = pump[i].todo /\ p.st = "send"
      BY <1>1 DEF PumpFields
    <3>3. \A j \in Calls : calls[j].gen <= pump[i].gen => calls[j].owed \subseteq Carried(pump[i].todo)
      BY <2>1 DEF PumpInv, TakenAlong
    <3> HIDE DEF p
    <3>4. QED
      BY <1>1, <1>2, <2>1, <2>2, <3>1, <3>2, <3>3, PumpGoesOn
  <2>3. CASE pump[i].todo = <<>>
    <3>1. \A j \in Calls : calls[j].gen <= pump[i].gen => calls[j].owed = {}
      BY <2>1, <2>3 DEF PumpInv, TakenAlong, Carried
    <3>2. served' = pump[i].gen
      BY <1>5, <2>3 DEF PumpRead
    <3>3. \A j \in Calls : calls[j].owed # {} => served' < calls[j].gen
      BY <1>1, <1>3, <3>1, <3>2
    <3>4. CASE requested > pump[i].gen
      <4> DEFINE p == [pump[i] EXCEPT !.st = "loop"]
      <4>1. pump' = [pump EXCEPT ![i] = p] /\ UNCHANGED calls
        BY <1>1, <1>5, <2>3, <3>4 DEF PumpRead
      <4>2. DOMAIN p = PumpFields /\ p.gen = pump[i].gen /\ p.todo = pump[i].todo /\ p.st = "loop"
        BY <1>1 DEF PumpFields
      <4> HIDE DEF p
      <4>3. QED
        BY <1>1, <2>1, <3>2, <3>3, <4>1, <4>2, PumpGoesOn
    <3>5. CASE ~ (requested > pump[i].gen)
      <4>1. EndPump(i, TRUE)
        BY <1>5, <2>3, <3>5 DEF PumpRead
      <4>2. calls[i].owed = {}
        BY <1>1, <1>3, <3>1, <3>5
      <4>3. QED
        BY <1>1, <2>1, <3>2, <3>3, <4>1, <4>2, PumpEnds
    <3>6. QED
      BY <3>4, <3>5
  <2>4. QED
    BY <2>2, <2>3
<1>6. CASE PumpSend(i)
  <2> DEFINE resp == [u \in Head(pump[i].todo).us \cap Users |-> Of({u}) \cap bundles]
             p == [pump[i] EXCEPT !.st = "mark", !.resp = resp]
  <2>1. /\ pump[i].st = "send" /\ pump' = [pump EXCEPT ![i] = p]
        /\ UNCHANGED <<calls, requested, served, dirty, upload, capped>>
    BY <1>1, <1>6 DEF PumpSend, machine, past
  <2>2. DOMAIN p = PumpFields /\ p.gen = pump[i].gen /\ p.todo = pump[i].todo /\ pump[i].todo # <<>>
    BY <1>1, <2>1 DEF PumpFields, PumpInv, PumpForms
  <2>3. \A j \in Calls : calls[j].gen <= pump[i].gen => calls[j].owed \subseteq Carried(pump[i].todo)
    BY <2>1 DEF PumpInv, TakenAlong
  <2> HIDE DEF p
  <2>4. QED
    BY <1>1, <1>2, <2>1, <2>2, <2>3, PumpGoesOn
<1>7. CASE PumpFail(i)
  <2>1. EndPump(i, FALSE) /\ UNCHANGED <<requested, served, dirty, upload, capped>>
    BY <1>7 DEF PumpFail, machine, past
  <2>2. QED
    BY <1>1, <1>2, <2>1, PumpEnds
<1>8. CASE Woken(i)
  <2>1. UNCHANGED <<requested, served, dirty, upload, capped>> /\ At(i, "woken")
    BY <1>8 DEF Woken, machine, mutex, past
  <2>2. DOMAIN calls = Calls /\ DOMAIN calls[i] = CallFields
    BY DEF PumpInv, PumpForms
  <2>3. CASE served >= calls[i].gen
    <3>1. Goto(i, calls[i].next) /\ UNCHANGED pump
      BY <1>8, <2>3 DEF Woken, mutex
    <3>2. calls[i].owed = {}
      BY <1>1, <1>2, <1>3, <2>3
    <3>3. /\ DOMAIN calls' = Calls /\ \A j \in Calls : j # i => calls'[j] = calls[j]
          /\ DOMAIN calls'[i] = CallFields /\ calls'[i].owed = calls[i].owed /\ calls'[i].gen = calls[i].gen
      BY <2>2, <3>1 DEF Goto, CallFields
    <3>4. QED
      BY <2>1, <3>1, <3>2, <3>3, CallGoesOn
  <2>4. CASE ~ (served >= calls[i].gen)
    <3> DEFINE p == [NoPump EXCEPT !.st = "loop"]
    <3>1. Goto(i, "pumping") /\ pump' = [pump EXCEPT ![i] = p]
      BY <1>8, <2>4 DEF Woken, StartPump
    <3>2. /\ DOMAIN calls' = Calls /\ \A j \in Calls : j # i => calls'[j] = calls[j]
          /\ DOMAIN calls'[i] = CallFields /\ calls'[i].owed = calls[i].owed /\ calls'[i].gen = calls[i].gen
          /\ calls'[i].pc = "pumping"
      BY <2>2, <3>1 DEF Goto, CallFields
    <3>3. DOMAIN p = PumpFields /\ p.st = "loop" /\ p.gen = 0 /\ Listed(p.todo)
      BY DEF NoPump, PumpFields, Listed
    <3> HIDE DEF p
    <3>4. DOMAIN pump' = Calls /\ pump'[i] = p /\ \A j \in Calls : j # i => pump'[j] = pump[j]
      BY <1>1, <3>1
    <3>5. 0 <= requested
      BY <1>1
    <3>6. PumpForms'
      <4>1. \A j \in Calls : DOMAIN calls'[j] = CallFields /\ calls'[j].gen \in Nat /\ calls'[j].gen <= requested'
        BY <2>1, <2>2, <3>2 DEF PumpInv, PumpForms
      <4>2. \A j \in Calls : /\ DOMAIN pump'[j] = PumpFields /\ Listed(pump'[j].todo)
                             /\ pump'[j].st \in {"send", "mark"} => pump'[j].todo # <<>>
        <5>1. ASSUME NEW j \in Calls, j # i
              PROVE  /\ DOMAIN pump'[j] = PumpFields /\ Listed(pump'[j].todo)
                     /\ pump'[j].st \in {"send", "mark"} => pump'[j].todo # <<>>
          BY <3>4, <5>1 DEF PumpInv, PumpForms
        <5>2. QED
          BY <3>3, <3>4, <5>1
      <4>3. \A j \in Calls : pump'[j].gen \in Nat /\ pump'[j].gen <= requested'
        BY <2>1, <3>3, <3>4, <3>5 DEF PumpInv, PumpForms
      <4>4. requested' \in Nat /\ served' \in Nat /\ served' <= requested'
        BY <2>1 DEF PumpInv, PumpForms
      <4>5. QED
        BY <3>2, <3>4, <4>1, <4>2, <4>3, <4>4 DEF PumpForms
    <3>7. Owing' /\ NotServed' /\ TakenAlong'
      BY <2>1, <3>2, <3>3, <3>4 DEF PumpInv, Owing, NotServed, TakenAlong, Queue
    <3>8. Draining'
      BY <2>1, <3>2 DEF PumpInv, Draining, InPump
    <3>9. QED
      BY <3>6, <3>7, <3>8 DEF PumpInv
  <2>5. QED
    BY <2>3, <2>4
<1>9. QED
  BY <1>4, <1>5, <1>6, <1>7, <1>8

LEMMA MarkStep ==
  ASSUME PumpInv, NEW i \in Calls, PumpMark(i)
  PROVE  PumpInv'
<1> DEFINE us == Head(pump[i].todo).us
           rest == Tail(pump[i].todo)
<1>1. /\ DOMAIN pump = Calls /\ DOMAIN pump[i] = PumpFields /\ pump[i].gen \in Nat /\ pump[i].gen <= requested
      /\ Listed(pump[i].todo) /\ requested \in Nat /\ served \in Nat /\ served <= requested
      /\ DOMAIN calls = Calls /\ \A j \in Calls : DOMAIN calls[j] = CallFields
  BY DEF PumpInv, PumpForms
<1>2. /\ DOMAIN calls' = Calls
      /\ \A j \in Calls : /\ DOMAIN calls'[j] = CallFields /\ calls'[j].owed = calls[j].owed \ us
                          /\ calls'[j].gen = calls[j].gen /\ calls'[j].pc = calls[j].pc
  BY <1>1 DEF PumpMark, CallFields
<1>3. /\ DOMAIN pump' = Calls /\ \A j \in Calls : j # i => pump'[j] = pump[j]
      /\ DOMAIN pump'[i] = PumpFields /\ pump'[i].gen = pump[i].gen /\ pump'[i].todo = rest
      /\ pump'[i].st = IF rest = <<>> THEN "loop" ELSE "send"
  BY <1>1 DEF PumpMark, PumpFields
<1>4. /\ requested' = requested /\ capped' = capped /\ served' = IF rest = <<>> THEN pump[i].gen ELSE served
      /\ pump[i].st = "mark" /\ dirty \ us \subseteq dirty' /\ upload' = (upload /\ Head(pump[i].todo).op # "upload")
  BY DEF PumpMark, past
<1>5. pump[i].todo # <<>>
  BY <1>4 DEF PumpInv, PumpForms
<1>6. Listed(rest) /\ Carried(pump[i].todo) \subseteq us \cup Carried(rest) /\ (rest = <<>> => Carried(pump[i].todo) \subseteq us)
  BY <1>1, <1>5, ListedTail
<1>7. Head(pump[i].todo).op = "upload" => Me \in us
  BY <1>1, <1>5 DEF Listed
<1> HIDE DEF us, rest
<1>8. Queue \ us \subseteq Queue'
  <2>1. CASE upload /\ Head(pump[i].todo).op = "upload"
    BY <1>4, <1>7, <2>1 DEF Queue
  <2>2. CASE upload /\ Head(pump[i].todo).op # "upload"
    <3>1. upload'
      BY <1>4, <2>2
    <3>2. QED
      BY <1>4, <2>2, <3>1 DEF Queue
  <2>3. CASE ~ upload
    BY <1>4, <2>3 DEF Queue
  <2>4. QED
    BY <2>1, <2>2, <2>3
<1>9. \A j \in Calls : calls[j].gen <= pump[i].gen => calls'[j].owed \subseteq Carried(rest) /\ (rest = <<>> => calls'[j].owed = {})
  BY <1>2, <1>4, <1>6 DEF PumpInv, TakenAlong
<1>10. PumpForms'
  <2>1. served' \in Nat /\ served' <= requested'
    BY <1>1, <1>4
  <2>2. \A j \in Calls : calls'[j].gen \in Nat /\ calls'[j].gen <= requested'
    BY <1>2, <1>4 DEF PumpInv, PumpForms
  <2>3. \A j \in Calls : pump'[j].gen \in Nat /\ pump'[j].gen <= requested'
    BY <1>1, <1>3, <1>4 DEF PumpInv, PumpForms
  <2>4. \A j \in Calls : /\ DOMAIN pump'[j] = PumpFields /\ Listed(pump'[j].todo)
                         /\ pump'[j].st \in {"send", "mark"} => pump'[j].todo # <<>>
    BY <1>3, <1>6 DEF PumpInv, PumpForms
  <2>5. QED
    BY <1>1, <1>2, <1>3, <1>4, <2>1, <2>2, <2>3, <2>4 DEF PumpForms
<1>11. Owing'
  BY <1>2, <1>8 DEF PumpInv, Owing
<1>12. TakenAlong'
  BY <1>2, <1>3, <1>9 DEF PumpInv, TakenAlong
<1>13. NotServed'
  <2>1. SUFFICES ASSUME NEW j \in Calls, calls'[j].owed # {}
                 PROVE  served' < calls'[j].gen
    BY DEF NotServed
  <2>2. CASE rest = <<>>
    <3>1. ~ (calls[j].gen <= pump[i].gen)
      BY <1>9, <2>1, <2>2
    <3>2. calls[j].gen \in Nat
      BY DEF PumpInv, PumpForms
    <3>3. QED
      BY <1>1, <1>2, <1>4, <2>2, <3>1, <3>2
  <2>3. CASE rest # <<>>
    BY <1>2, <1>4, <2>1, <2>3 DEF PumpInv, NotServed
  <2>4. QED
    BY <2>2, <2>3
<1>14. Draining'
  BY <1>2, <1>4 DEF PumpInv, Draining
<1>15. QED
  BY <1>10, <1>11, <1>12, <1>13, <1>14 DEF PumpInv

LEMMA PumpStarts == KeysInit => PumpInv
<1> SUFFICES ASSUME KeysInit PROVE PumpInv
  OBVIOUS
<1>1. /\ DOMAIN calls = Calls
      /\ \A j \in Calls : DOMAIN calls[j] = CallFields /\ calls[j].owed = {} /\ calls[j].gen = 0
      /\ pump = [i \in Calls |-> NoPump] /\ requested = 0 /\ served = 0
  BY DEF KeysInit, CallFields
<1>2. \A i \in Calls : pump[i] = NoPump
  BY <1>1
<1>3. DOMAIN NoPump = PumpFields /\ NoPump.st = "off" /\ NoPump.gen = 0 /\ Listed(NoPump.todo)
  BY DEF NoPump, PumpFields, Listed
<1>4. PumpForms
  BY <1>1, <1>2, <1>3 DEF PumpForms
<1>5. Owing /\ TakenAlong /\ NotServed /\ Draining
  BY <1>1 DEF Owing, TakenAlong, NotServed, Draining
<1>6. QED
  BY <1>4, <1>5 DEF PumpInv

LEMMA PumpSteps ==
  ASSUME PumpInv, [KeysNext]_keysVars
  PROVE  PumpInv'
<1>1. CASE UNCHANGED keysVars
  <2>1. UNCHANGED <<calls, pump, requested, served, dirty, upload, capped>>
    BY <1>1 DEF keysVars, machine, mutex, past
  <2>2. PumpForms' /\ Owing' /\ TakenAlong'
    BY <2>1 DEF PumpInv, PumpForms, Owing, TakenAlong, Queue
  <2>3. NotServed' /\ Draining'
    BY <2>1 DEF PumpInv, NotServed, Draining
  <2>4. QED
    BY <2>2, <2>3 DEF PumpInv
<1>2. CASE KeysNext
  BY <1>2, QuietSteps, QuietKeeps, CallerSteps, RoundSteps, MarkStep DEF KeysNext
<1>3. QED
  BY <1>1, <1>2

\* pumpOutgoing returns to no caller before what the machine had queued when it
\* was called has been dispatched, unless a pump hit its cap: for any number of
\* callers that join a pump under way, wait, are woken or start their own.
THEOREM PumpReturnsDrained == KeysSpec => []PumpDrains
<1>1. ASSUME PumpInv, [KeysNext]_keysVars
      PROVE  PumpInv'
  BY <1>1, PumpSteps
<1>2. QED
  BY <1>1, PumpStarts, DrainingSays, PTL DEF KeysSpec

(***************************************************************************)
(* Who has left cannot read: the key of a session goes on from its index   *)
(***************************************************************************)
OutFields == {"sid", "idx", "users", "holders", "invalid"}
Nexts == {"done", "claim", "check", "track", "encrypt", "retry"}

RoomForms ==
  /\ DOMAIN out = OutFields /\ out.sid \in Nat /\ out.idx \in Nat
  /\ DOMAIN inbox = Machines
  /\ roster \subseteq Users /\ recips \subseteq Users
  /\ \A u \in Users : devicesOf[u] \subseteq Of({u})
  /\ DOMAIN devicesOf = Users
  /\ \A i \in Calls : /\ DOMAIN pump[i].resp \subseteq Users
                      /\ \A u \in DOMAIN pump[i].resp : pump[i].resp[u] \subseteq Of({u})
                      /\ pump[i].st # "off" => calls[i].pc = "pumping"

\* How far a call is, and whom its message is for: after a refresh nobody who
\* was out of the topic is among them, but disclosed admins.
StageOK(c) ==
  /\ c.who \in Users /\ c.us \subseteq Users /\ c.next \in Nexts
  /\ c.pc \in {"todo", "peer", "fetch"} => ~ c.fresh
  /\ c.pc = "todo" => c.a = None
  /\ c.pc = "fetch" /\ c.a # None =>
       c.a.ids \subseteq Users /\ c.a.ids \cap c.gone \subseteq Admins /\ c.a.admins \subseteq Admins /\ Myself \notin c.gone
  /\ c.fresh => c.us \cap c.gone \subseteq Admins

Stages == \A i \in Calls : StageOK(calls[i])

\* Who counts as gone for a call has not come back.
Absent == \A i \in Calls : calls[i].gone \cap roster = {}

\* A call between its share and its encryption.
Shared(c) == c.pc \in {"put", "encrypt"} \/ (c.pc \in {"pumping", "waiting", "woken"} /\ c.next = "encrypt")

OwnShare == \A i \in Calls \ lapped : Shared(calls[i]) => out.users = calls[i].us

\* The session is with the users of its list, in the inboxes and under way.
InSession ==
  /\ \A d \in Machines : \A s \in DOMAIN inbox[d] :
       s \in Nat /\ s <= out.sid /\ inbox[d][s] \in Nat /\ (s = out.sid => UserOf[d] \in out.users)
  /\ \A j \in Calls : calls[j].pc = "put" =>
       /\ calls[j].b.sid \in Nat /\ calls[j].b.sid <= out.sid
       /\ calls[j].b.idx \in Nat
       /\ calls[j].was \subseteq Machines
       /\ calls[j].b.sid = out.sid => calls[j].b.idx <= out.idx /\ \A d \in calls[j].was : UserOf[d] \in out.users

\* Whoever gets the session of a message after it gets it from a later index on.
Hidden(m, d) ==
  /\ m.sid \in DOMAIN inbox[d] => m.idx < inbox[d][m.sid]
  /\ \A j \in Calls : calls[j].pc = "put" /\ calls[j].b.sid = m.sid /\ d \in calls[j].was => m.idx < calls[j].b.idx

Locked ==
  \A m \in msgs :
    /\ m.sid \in Nat /\ m.sid <= out.sid /\ m.idx \in Nat /\ (m.sid = out.sid => m.idx < out.idx)
    /\ m.fresh => \A d \in Of(m.gone \ Admins) : d = Me \/ Hidden(m, d)

LeaveInv == RoomForms /\ Stages /\ Absent /\ OwnShare /\ InSession /\ Locked

LEMMA LockedSays == LeaveInv => LeaverLocked
<1> SUFFICES ASSUME LeaveInv, NEW m \in msgs, m.fresh, NEW d \in Of(m.gone \ Admins), d # Me
             PROVE  ~ Reads(d, m)
  BY DEF LeaverLocked
<1>1. Hidden(m, d) /\ d \in Machines /\ m.idx \in Nat
  BY DEF LeaveInv, Locked, Of
<1>2. m.sid \in DOMAIN inbox[d] => inbox[d][m.sid] \in Nat /\ m.idx < inbox[d][m.sid]
  BY <1>1 DEF LeaveInv, InSession, Hidden
<1>3. QED
  BY <1>1, <1>2 DEF Reads

SameSession == DOMAIN out' = OutFields /\ out'.sid = out.sid /\ out'.idx = out.idx /\ out'.users = out.users

PumpsRun == 
  \A i \in Calls : /\ DOMAIN pump[i].resp \subseteq Users
                   /\ \A u \in DOMAIN pump[i].resp : pump[i].resp[u] \subseteq Of({u})
                   /\ pump[i].st # "off" => calls[i].pc = "pumping"

\* Calls move on, and none of them shares, puts or writes.
LEMMA CallsMove ==
  ASSUME LeaveInv, SameSession, UNCHANGED <<inbox, msgs, lapped>>,
         roster' \subseteq Users, recips' \subseteq Users, Absent',
         DOMAIN devicesOf' = Users, \A u \in Users : devicesOf'[u] \subseteq Of({u}), PumpsRun',
         \A j \in Calls : /\ StageOK(calls'[j])
                          /\ calls'[j].pc = "put" => calls[j].pc = "put" /\ calls'[j].b = calls[j].b /\ calls'[j].was = calls[j].was
                          /\ Shared(calls'[j]) => Shared(calls[j]) /\ calls'[j].us = calls[j].us
  PROVE  LeaveInv'
<1>1. RoomForms'
  BY DEF LeaveInv, RoomForms, SameSession, PumpsRun
<1>2. Stages'
  BY DEF Stages
<1>3. OwnShare'
  BY DEF LeaveInv, OwnShare, SameSession
<1>4. InSession'
  BY DEF LeaveInv, InSession, SameSession
<1>5. Locked'
  <2>1. \A m \in msgs, d \in Machines : Hidden(m, d) => Hidden(m, d)'
    BY DEF Hidden
  <2>2. Of(Users) \subseteq Machines /\ \A us : Of(us) \subseteq Machines
    BY DEF Of
  <2>3. QED
    BY <2>1, <2>2 DEF LeaveInv, Locked, SameSession
<1>6. QED
  BY <1>1, <1>2, <1>3, <1>4, <1>5 DEF LeaveInv

\* One call moves, outside the pump.
LEMMA CallMoves ==
  ASSUME LeaveInv, NEW i \in Calls, SameSession, UNCHANGED <<inbox, msgs, lapped, devicesOf, pump>>,
         roster' \subseteq roster, recips' \subseteq Users, calls'[i].gone \cap roster = {},
         calls[i].pc # "pumping", \A j \in Calls : j # i => calls'[j] = calls[j],
         StageOK(calls'[i]), calls'[i].pc # "put",
         Shared(calls'[i]) => Shared(calls[i]) /\ calls'[i].us = calls[i].us
  PROVE  LeaveInv'
<1>1. \A j \in Calls : /\ StageOK(calls'[j])
                       /\ calls'[j].pc = "put" => calls[j].pc = "put" /\ calls'[j].b = calls[j].b /\ calls'[j].was = calls[j].was
                       /\ Shared(calls'[j]) => Shared(calls[j]) /\ calls'[j].us = calls[j].us
  BY DEF LeaveInv, Stages
<1>2. PumpsRun'
  BY DEF LeaveInv, RoomForms, PumpsRun
<1>3. DOMAIN devicesOf' = Users /\ \A u \in Users : devicesOf'[u] \subseteq Of({u})
  BY DEF LeaveInv, RoomForms
<1>4. roster' \subseteq Users /\ Absent'
  BY DEF LeaveInv, RoomForms, Absent
<1>5. QED
  BY <1>1, <1>2, <1>3, <1>4, CallsMove

\* A step that changes neither whom the call is for nor what it knows of them.
Moved(c) == c.pc \notin {"todo", "peer", "fetch"}

LEMMA StageMoves ==
  ASSUME NEW c, NEW d, StageOK(c), d.who = c.who, d.us = c.us, d.next \in Nexts, d.fresh = c.fresh, d.gone \subseteq c.gone, Moved(d)
  PROVE  StageOK(d)
BY DEF StageOK, Moved

Plain(i) ==
  /\ calls[i].pc # "pumping" /\ \A j \in Calls : j # i => calls'[j] = calls[j]
  /\ calls'[i].who = calls[i].who /\ calls'[i].us = calls[i].us /\ calls'[i].next = calls[i].next
  /\ calls'[i].fresh = calls[i].fresh /\ calls'[i].gone = calls[i].gone
  /\ Moved(calls'[i]) /\ calls'[i].pc # "put" /\ (Shared(calls'[i]) => Shared(calls[i]))
  /\ UNCHANGED <<out, inbox, msgs, lapped, devicesOf, pump, recips>> /\ roster' \subseteq roster

LEMMA PlainKeeps ==
  ASSUME LeaveInv, NEW i \in Calls, Plain(i)
  PROVE  LeaveInv'
<1>1. StageOK(calls[i]) /\ calls[i].next \in Nexts
  BY DEF LeaveInv, Stages, StageOK
<1>2. PICK d : d = calls'[i]
  OBVIOUS
<1>3. StageOK(d)
  <2>1. /\ d.who = calls[i].who /\ d.us = calls[i].us /\ d.next = calls[i].next /\ d.fresh = calls[i].fresh
        /\ d.gone = calls[i].gone /\ Moved(d)
    BY <1>2, Zenon DEF Plain
  <2>2. QED
    BY <1>1, <2>1, StageMoves
<1>4. SameSession /\ roster' \subseteq roster /\ recips' \subseteq Users /\ calls'[i].gone \cap roster = {}
  BY DEF Plain, SameSession, LeaveInv, RoomForms, Absent
<1>5. QED
  BY <1>2, <1>3, <1>4, CallMoves DEF Plain

LEMMA PlainSteps ==
  ASSUME PumpInv, NEW i \in Calls,
         \/ Publish(i) \/ Ban(i) \/ BanLog(i) \/ Signal(i) \/ CheckRead(i) \/ CheckPin(i) \/ Claim(i)
         \/ Claimed(i) \/ EnsureFail(i) \/ KeyPoll(i) \/ ReceiveChanges(i) \/ Failed(i)
  PROVE  Plain(i)
<1>1. DOMAIN calls = Calls /\ DOMAIN calls[i] = CallFields
  BY DEF PumpInv, PumpForms
<1>2. CASE Publish(i)
  BY <1>1, <1>2 DEF Plain, Moved, Shared, CallFields, Publish, Begin, At, Goto, mutex, machine, gate, server, past, Upload
<1>3. CASE Ban(i)
  BY <1>1, <1>3 DEF Plain, Moved, Shared, CallFields, Ban, Begin, At, Goto, mutex, machine, gate, server, past, Upload
<1>4. CASE BanLog(i)
  BY <1>1, <1>4 DEF Plain, Moved, Shared, CallFields, BanLog, At, Goto, mutex, machine, gate, server, past, Upload
<1>5. CASE Signal(i)
  BY <1>1, <1>5 DEF Plain, Moved, Shared, CallFields, Signal, At, Goto, mutex, machine, gate, server, past, Upload
<1>6. CASE CheckRead(i)
  BY <1>1, <1>6 DEF Plain, Moved, Shared, CallFields, CheckRead, At, Goto, AfterCheck, mutex, machine, gate, server, past, Upload
<1>7. CASE CheckPin(i)
  BY <1>1, <1>7 DEF Plain, Moved, Shared, CallFields, CheckPin, At, mutex, machine, gate, server, past, Upload
<1>8. CASE Claim(i)
  BY <1>1, <1>8 DEF Plain, Moved, Shared, CallFields, Claim, At, Goto, AfterClaim, mutex, machine, gate, server, past, Upload
<1>9. CASE Claimed(i)
  BY <1>1, <1>9 DEF Plain, Moved, Shared, CallFields, Claimed, At, Goto, AfterClaim, mutex, machine, gate, server, past, Upload
<1>10. CASE EnsureFail(i)
  BY <1>1, <1>10 DEF Plain, Moved, Shared, CallFields, EnsureFail, At, Goto, Caught, mutex, machine, gate, server, past, Upload
<1>11. CASE KeyPoll(i)
  BY <1>1, <1>11 DEF Plain, Moved, Shared, CallFields, KeyPoll, Begin, At, mutex, machine, gate, server, past, Upload
<1>12. CASE ReceiveChanges(i)
  BY <1>1, <1>12 DEF Plain, Moved, Shared, CallFields, ReceiveChanges, At, Goto, mutex, machine, gate, server, past, Upload
<1>13. CASE Failed(i)
  BY <1>1, <1>13 DEF Plain, Moved, Shared, CallFields, Failed, At, mutex, machine, gate, server, past, Upload
<1>14. QED
  BY <1>2, <1>3, <1>4, <1>5, <1>6, <1>7, <1>8, <1>9, <1>10, <1>11, <1>12, <1>13

LEMMA StartSteps ==
  ASSUME PumpInv, LeaveInv, NEW i \in Calls, SendStart(i) \/ DmStart(i) \/ EditStart(i) \/ OnMembers(i)
  PROVE  LeaveInv'
<1>1. DOMAIN calls = Calls /\ DOMAIN calls[i] = CallFields /\ StageOK(calls[i])
  BY DEF PumpInv, PumpForms, LeaveInv, Stages
<1>2. /\ calls[i].pc = "todo" /\ UNCHANGED <<out, inbox, msgs, lapped, devicesOf, pump, roster, recips>>
      /\ \A j \in Calls : j # i => calls'[j] = calls[j]
      /\ calls'[i].who = calls[i].who /\ calls'[i].us = calls[i].us /\ calls'[i].next = calls[i].next
      /\ calls'[i].fresh = calls[i].fresh /\ calls'[i].a = calls[i].a /\ calls'[i].pc \in {"fetch", "peer"}
      /\ calls'[i].gone = Users \ roster
  <2>1. \E pc \in {"fetch", "peer"} : Start(i, pc)
    BY DEF SendStart, DmStart, EditStart, OnMembers
  <2>2. calls[i].pc = "todo" /\ UNCHANGED <<out, inbox, msgs, lapped, devicesOf, pump, roster, recips>>
    BY DEF SendStart, DmStart, EditStart, OnMembers, Begin, At, mutex, machine, gate, server, past
  <2>3. QED
    BY <1>1, <2>1, <2>2 DEF Start, CallFields
<1>3. StageOK(calls'[i])
  <2>1. PICK d : d = calls'[i]
    OBVIOUS
  <2>2. /\ d.who = calls[i].who /\ d.us = calls[i].us /\ d.next = calls[i].next /\ d.fresh = calls[i].fresh
        /\ d.a = calls[i].a /\ d.pc \in {"fetch", "peer"}
    BY <1>2, <2>1, Zenon
  <2>3. ~ calls[i].fresh /\ calls[i].a = None
    BY <1>1, <1>2 DEF StageOK
  <2>4. StageOK(d)
    BY <1>1, <2>2, <2>3 DEF StageOK
  <2>5. QED
    BY <2>1, <2>4
<1>4. SameSession /\ roster' \subseteq roster /\ recips' \subseteq Users /\ calls'[i].gone \cap roster = {}
  BY <1>2 DEF SameSession, LeaveInv, RoomForms
<1>5. QED
  BY <1>2, <1>3, <1>4, CallMoves DEF Shared

LEMMA FetchSteps ==
  ASSUME PumpInv, LeaveInv, NEW i \in Calls, FetchCrypto(i) \/ FetchRoster(i)
  PROVE  LeaveInv'
<1>1. DOMAIN calls = Calls /\ DOMAIN calls[i] = CallFields /\ StageOK(calls[i])
  BY DEF PumpInv, PumpForms, LeaveInv, Stages
<1>2. /\ calls[i].pc = "fetch" /\ UNCHANGED <<out, inbox, msgs, lapped, devicesOf, pump, roster, recips>>
      /\ \A j \in Calls : j # i => calls'[j] = calls[j]
      /\ calls'[i].who = calls[i].who /\ calls'[i].us = calls[i].us /\ calls'[i].next = calls[i].next
      /\ calls'[i].fresh = calls[i].fresh /\ calls'[i].gone = calls[i].gone /\ calls'[i].pc = "fetch"
  BY <1>1 DEF FetchCrypto, FetchRoster, At, mutex, machine, gate, server, past, CallFields
<1>3. calls'[i].a # None =>
        /\ calls'[i].a.ids \subseteq Users /\ calls'[i].a.ids \cap calls[i].gone \subseteq Admins
        /\ calls'[i].a.admins \subseteq Admins /\ Myself \notin calls[i].gone
  <2>1. CASE FetchRoster(i)
    <3>1. calls'[i].a = calls[i].a
      BY <1>1, <2>1 DEF FetchRoster, CallFields
    <3>2. QED
      BY <1>1, <1>2, <3>1 DEF StageOK
  <2>2. CASE FetchCrypto(i)
    <3>1. calls'[i].a = [ids |-> roster \cup AdminIds, admins |-> AdminIds] /\ Myself \in roster
      BY <1>1, <2>2 DEF FetchCrypto, CallFields
    <3>2. calls[i].gone \cap roster = {}
      BY DEF LeaveInv, Absent
    <3>3. AdminIds \subseteq Admins /\ Admins \subseteq Users /\ roster \subseteq Users
      BY RoomKeysAssumption DEF AdminIds, LeaveInv, RoomForms
    <3>4. QED
      BY <3>1, <3>2, <3>3
  <2>3. QED
    BY <2>1, <2>2
<1>4. StageOK(calls'[i])
  <2>1. PICK d : d = calls'[i]
    OBVIOUS
  <2>2. /\ d.who = calls[i].who /\ d.us = calls[i].us /\ d.next = calls[i].next /\ d.fresh = calls[i].fresh
        /\ d.gone = calls[i].gone /\ d.pc = "fetch"
    BY <1>2, <2>1, Zenon
  <2>3. d.a # None =>
          /\ d.a.ids \subseteq Users /\ d.a.ids \cap d.gone \subseteq Admins
          /\ d.a.admins \subseteq Admins /\ Myself \notin d.gone
    BY <1>2, <1>3, <2>1, <2>2
  <2>4. ~ calls[i].fresh
    BY <1>1, <1>2 DEF StageOK
  <2>5. StageOK(d)
    BY <1>1, <2>2, <2>3, <2>4 DEF StageOK
  <2>6. QED
    BY <2>1, <2>5
<1>5. SameSession /\ roster' \subseteq roster /\ recips' \subseteq Users /\ calls'[i].gone \cap roster = {}
  BY <1>2 DEF SameSession, LeaveInv, RoomForms, Absent
<1>6. QED
  BY <1>2, <1>4, <1>5, CallMoves DEF Shared

\* The recipients are those the server named, less whom the roster does not confirm.
LEMMA VerdictSteps ==
  ASSUME PumpInv, LeaveInv, NEW i \in Calls, Verdict(i) \/ FetchFail(i)
  PROVE  LeaveInv'
<1>1. DOMAIN calls = Calls /\ DOMAIN calls[i] = CallFields /\ StageOK(calls[i])
  BY DEF PumpInv, PumpForms, LeaveInv, Stages
<1>2. PICK us, bad : \E fresh \in BOOLEAN :
        /\ Proceed(i, us, bad, fresh) /\ us \subseteq Users
        /\ fresh => us \cap calls[i].gone \subseteq Admins
  <2>1. CASE FetchFail(i)
    <3>1. Proceed(i, recips, mismatch, FALSE) /\ recips \subseteq Users
      BY <2>1 DEF FetchFail, LeaveInv, RoomForms
    <3>2. QED
      BY <3>1
  <2>2. CASE Verdict(i)
    <3> DEFINE us == Recipients(calls[i].a, calls[i].b)
    <3>1. Proceed(i, us, Rejected(calls[i].a, calls[i].b), TRUE) /\ calls[i].pc = "fetch" /\ calls[i].a # None
      BY <2>2 DEF Verdict, At
    <3>2. us \subseteq calls[i].a.ids \cup {Myself}
      BY DEF Recipients
    <3>3. Myself \in Users
      BY RoomKeysAssumption DEF Myself
    <3>4. us \subseteq Users /\ us \cap calls[i].gone \subseteq Admins
      BY <1>1, <3>1, <3>2, <3>3 DEF StageOK
    <3> HIDE DEF us
    <3>5. QED
      BY <3>1, <3>4
  <2>3. QED
    BY <2>1, <2>2
<1>3. PICK fresh \in BOOLEAN : Proceed(i, us, bad, fresh) /\ us \subseteq Users /\ (fresh => us \cap calls[i].gone \subseteq Admins)
  BY <1>2
<1>4. /\ calls[i].pc = "fetch" /\ UNCHANGED <<out, inbox, msgs, lapped, devicesOf, pump, roster>>
  BY DEF Verdict, FetchFail, At, mutex, machine, server, past
<1>5. /\ \A j \in Calls : j # i => calls'[j] = calls[j]
      /\ calls'[i].who = calls[i].who /\ calls'[i].us = us /\ calls'[i].next = calls[i].next
      /\ calls'[i].gone = calls[i].gone /\ recips' = us
      /\ calls'[i].pc \in {"invalidate", "failed", "track"}
  BY <1>1, <1>3 DEF Proceed, CallFields
<1>6. calls'[i].fresh = fresh
  BY <1>1, <1>3 DEF Proceed, CallFields
<1>7. StageOK(calls'[i])
  <2>1. PICK d : d = calls'[i]
    OBVIOUS
  <2>2. d.who = calls[i].who /\ d.us = us /\ d.next = calls[i].next /\ d.gone = calls[i].gone
    BY <1>5, <2>1
  <2>3. d.pc \in {"invalidate", "failed", "track"} /\ d.fresh = fresh
    BY <1>5, <1>6, <2>1
  <2>4. d.fresh => d.us \cap d.gone \subseteq Admins
    BY <1>3, <2>2, <2>3
  <2>5. StageOK(d)
    BY <1>1, <1>3, <2>2, <2>3, <2>4 DEF StageOK
  <2>6. QED
    BY <2>1, <2>5
<1>8. SameSession /\ roster' \subseteq roster /\ recips' \subseteq Users /\ calls'[i].gone \cap roster = {}
  BY <1>3, <1>4, <1>5 DEF SameSession, LeaveInv, RoomForms, Absent
<1>9. QED
  BY <1>4, <1>5, <1>7, <1>8, CallMoves DEF Shared

\* What a call of pumpOutgoing does to the calls and to the pumps.
LEMMA PumpCallStage ==
  ASSUME PumpInv, LeaveInv, NEW i \in Calls, NEW c, DOMAIN c = CallFields, NEW next \in Nexts, Pumps(i, c, next),
         calls[i].pc # "pumping", c.who \in Users, c.us \subseteq Users, c.gone = calls[i].gone,
         c.fresh => c.us \cap c.gone \subseteq Admins
  PROVE  /\ \A j \in Calls : j # i => calls'[j] = calls[j]
         /\ StageOK(calls'[i]) /\ calls'[i].pc \in {"pumping", "waiting"} /\ calls'[i].next = next
         /\ calls'[i].us = c.us /\ calls'[i].gone = calls[i].gone /\ calls'[i].fresh = c.fresh
         /\ PumpsRun'
<1>1. DOMAIN calls = Calls /\ DOMAIN pump = Calls
  BY DEF PumpInv, PumpForms
<1>2. /\ \A j \in Calls : j # i => calls'[j] = calls[j]
      /\ calls'[i].pc = IF flight = 0 THEN "pumping" ELSE "waiting"
      /\ calls'[i].next = next /\ calls'[i].us = c.us /\ calls'[i].gone = c.gone /\ calls'[i].who = c.who
      /\ calls'[i].fresh = c.fresh
  BY <1>1 DEF Pumps, CallFields
<1>3. StageOK(calls'[i])
  <2>1. PICK d : d = calls'[i]
    OBVIOUS
  <2>2. d.pc \in {"pumping", "waiting"} /\ d.next = next /\ d.us = c.us /\ d.gone = c.gone /\ d.who = c.who
    BY <1>2, <2>1
  <2>3. d.fresh = c.fresh
    BY <1>2, <2>1
  <2>4. StageOK(d)
    BY <2>2, <2>3 DEF StageOK
  <2>5. QED
    BY <2>1, <2>4
<1>4. PumpsRun'
  <2>1. SUFFICES ASSUME NEW j \in Calls
        PROVE  /\ DOMAIN pump'[j].resp \subseteq Users /\ \A u \in DOMAIN pump'[j].resp : pump'[j].resp[u] \subseteq Of({u})
               /\ pump'[j].st # "off" => calls'[j].pc = "pumping"
    BY DEF PumpsRun
  <2>2. CASE pump'[j] = pump[j] /\ j # i
    BY <1>2, <2>2 DEF LeaveInv, RoomForms
  <2>3. CASE pump'[j] = pump[j] /\ j = i
    BY <2>3 DEF LeaveInv, RoomForms
  <2>4. CASE flight = 0 /\ j = i /\ pump'[j] = [NoPump EXCEPT !.st = "loop"]
    <3>1. pump'[j].resp = <<>>
      BY <2>4 DEF NoPump
    <3>2. QED
      BY <1>2, <2>4, <3>1
  <2>5. QED
    BY <1>1, <2>2, <2>3, <2>4 DEF Pumps, PumpCall, StartPump
<1>5. QED
  BY <1>2, <1>3, <1>4

LEMMA PumpCallKeeps ==
  ASSUME PumpInv, LeaveInv, NEW i \in Calls, NEW c, DOMAIN c = CallFields, NEW next \in Nexts \ {"encrypt"}, Pumps(i, c, next),
         calls[i].pc # "pumping", c.who \in Users, c.us \subseteq Users, c.gone = calls[i].gone,
         c.fresh => c.us \cap c.gone \subseteq Admins,
         UNCHANGED <<out, inbox, msgs, lapped, devicesOf, roster, recips>>
  PROVE  LeaveInv'
<1>1. /\ \A j \in Calls : j # i => calls'[j] = calls[j]
      /\ StageOK(calls'[i]) /\ calls'[i].pc \in {"pumping", "waiting"} /\ calls'[i].next = next
      /\ calls'[i].gone = calls[i].gone /\ PumpsRun'
  BY PumpCallStage
<1>2. \A j \in Calls : /\ StageOK(calls'[j])
                       /\ calls'[j].pc = "put" => calls[j].pc = "put" /\ calls'[j].b = calls[j].b /\ calls'[j].was = calls[j].was
                       /\ Shared(calls'[j]) => Shared(calls[j]) /\ calls'[j].us = calls[j].us
  BY <1>1 DEF LeaveInv, Stages, Shared
<1>3. /\ SameSession /\ roster' \subseteq Users /\ recips' \subseteq Users /\ Absent'
      /\ DOMAIN devicesOf' = Users /\ \A u \in Users : devicesOf'[u] \subseteq Of({u})
  BY <1>1 DEF SameSession, LeaveInv, RoomForms, Absent
<1>4. QED
  BY <1>1, <1>2, <1>3, CallsMove

LEMMA CallingSteps ==
  ASSUME PumpInv, LeaveInv, NEW i \in Calls, Track(i) \/ TrackPeer(i) \/ Catch(i) \/ PollPump(i)
  PROVE  LeaveInv'
<1>1. DOMAIN calls = Calls /\ DOMAIN calls[i] = CallFields /\ StageOK(calls[i])
  BY DEF PumpInv, PumpForms, LeaveInv, Stages
<1>2. /\ calls[i].who \in Users /\ calls[i].us \subseteq Users
      /\ calls[i].fresh => calls[i].us \cap calls[i].gone \subseteq Admins
  BY <1>1 DEF StageOK
<1>3. UNCHANGED <<out, inbox, msgs, lapped, devicesOf, roster, recips>> /\ calls[i].pc # "pumping"
  BY DEF Track, TrackPeer, Catch, PollPump, Tracks, At, machine, server, gate, past
<1>4. CASE Track(i)
  <2> DEFINE c == [calls[i] EXCEPT !.todo = calls[i].us]
             next == IF calls[i].op = "dm" THEN "claim" ELSE "check"
  <2>1. /\ DOMAIN c = CallFields /\ c.who = calls[i].who /\ c.us = calls[i].us /\ c.gone = calls[i].gone /\ c.fresh = calls[i].fresh
    BY <1>1 DEF CallFields
  <2>2. next \in Nexts \ {"encrypt"}
    BY DEF Nexts
  <2>3. Pumps(i, c, next)
    BY <1>4 DEF Track
  <2> HIDE DEF c, next
  <2>4. c.fresh => c.us \cap c.gone \subseteq Admins
    BY <1>2, <2>1
  <2>5. QED
    BY <1>2, <1>3, <2>1, <2>2, <2>3, <2>4, PumpCallKeeps
<1>5. CASE TrackPeer(i)
  <2> DEFINE c == [calls[i] EXCEPT !.us = {calls[i].who, Myself}]
  <2>1. DOMAIN c = CallFields /\ c.who = calls[i].who /\ c.us = {calls[i].who, Myself} /\ c.gone = calls[i].gone /\ c.fresh = calls[i].fresh
    BY <1>1 DEF CallFields
  <2>2. ~ calls[i].fresh
    BY <1>1, <1>5 DEF TrackPeer, At, StageOK
  <2>3. Pumps(i, c, "track")
    BY <1>5 DEF TrackPeer
  <2>4. Myself \in Users
    BY RoomKeysAssumption DEF Myself
  <2>5. "track" \in Nexts \ {"encrypt"}
    BY DEF Nexts
  <2> HIDE DEF c
  <2>6. ~ c.fresh /\ c.us \subseteq Users
    BY <1>2, <2>1, <2>2, <2>4
  <2>7. QED
    BY <1>2, <1>3, <2>1, <2>3, <2>5, <2>6, PumpCallKeeps
<1>6. CASE Catch(i)
  <2>1. Pumps(i, calls[i], "retry") /\ "retry" \in Nexts \ {"encrypt"}
    BY <1>6 DEF Catch, Nexts
  <2>2. QED
    BY <1>1, <1>2, <1>3, <2>1, PumpCallKeeps
<1>7. CASE PollPump(i)
  <2>1. Pumps(i, calls[i], "done") /\ "done" \in Nexts \ {"encrypt"}
    BY <1>7 DEF PollPump, Nexts
  <2>2. QED
    BY <1>1, <1>2, <1>3, <2>1, PumpCallKeeps
<1>8. QED
  BY <1>4, <1>5, <1>6, <1>7

LEMMA JoinStep ==
  ASSUME PumpInv, LeaveInv, NEW i \in Calls, Join(i)
  PROVE  LeaveInv'
<1>1. DOMAIN calls = Calls /\ \A j \in Calls : DOMAIN calls[j] = CallFields /\ StageOK(calls[j])
  BY DEF PumpInv, PumpForms, LeaveInv, Stages
<1>2. /\ calls[i].pc = "todo" /\ roster' = roster \cup {calls[i].who}
      /\ UNCHANGED <<out, inbox, msgs, lapped, devicesOf, pump, recips>>
      /\ calls' = [j \in Calls |-> [calls[j] EXCEPT !.pc = IF j = i THEN "signal" ELSE @, !.gone = @ \ {calls[i].who}]]
  BY DEF Join, Begin, At, mutex, machine, gate, past
<1>3. \A j \in Calls :
        /\ calls'[j].who = calls[j].who /\ calls'[j].us = calls[j].us /\ calls'[j].next = calls[j].next
        /\ calls'[j].fresh = calls[j].fresh /\ calls'[j].gone = calls[j].gone \ {calls[i].who}
        /\ calls'[j].pc = (IF j = i THEN "signal" ELSE calls[j].pc)
        /\ calls'[j].a = calls[j].a /\ calls'[j].b = calls[j].b /\ calls'[j].was = calls[j].was
  BY <1>1, <1>2 DEF CallFields
<1>4. ASSUME NEW j \in Calls
      PROVE  StageOK(calls'[j])
  <2>1. PICK d : d = calls'[j]
    OBVIOUS
  <2>2. /\ d.who = calls[j].who /\ d.us = calls[j].us /\ d.next = calls[j].next
        /\ d.gone \subseteq calls[j].gone /\ d.pc = (IF j = i THEN "signal" ELSE calls[j].pc) /\ d.a = calls[j].a
    BY <1>3, <2>1
  <2>3. d.fresh = calls[j].fresh
    BY <1>3, <2>1
  <2>4. StageOK(d)
    BY <1>1, <2>2, <2>3 DEF StageOK
  <2>5. QED
    BY <2>1, <2>4
<1>5. \A j \in Calls : /\ calls'[j].pc = "put" => calls[j].pc = "put" /\ calls'[j].b = calls[j].b /\ calls'[j].was = calls[j].was
                       /\ Shared(calls'[j]) => Shared(calls[j]) /\ calls'[j].us = calls[j].us
  BY <1>3 DEF Shared
<1>6. PumpsRun'
  BY <1>2, <1>3 DEF PumpsRun, LeaveInv, RoomForms
<1>7. /\ SameSession /\ roster' \subseteq Users /\ recips' \subseteq Users
      /\ DOMAIN devicesOf' = Users /\ \A u \in Users : devicesOf'[u] \subseteq Of({u})
  BY <1>1, <1>2 DEF SameSession, LeaveInv, RoomForms, StageOK
<1>8. Absent'
  BY <1>2, <1>3 DEF LeaveInv, Absent
<1>9. QED
  BY <1>2, <1>4, <1>5, <1>6, <1>7, <1>8, CallsMove

LEMMA InvalidateStep ==
  ASSUME PumpInv, LeaveInv, NEW i \in Calls, Invalidate(i)
  PROVE  LeaveInv'
<1>1. DOMAIN calls = Calls /\ DOMAIN calls[i] = CallFields /\ StageOK(calls[i])
  BY DEF PumpInv, PumpForms, LeaveInv, Stages
<1>2. /\ calls[i].pc = "invalidate" /\ UNCHANGED <<inbox, msgs, lapped, devicesOf, pump, roster, recips>>
      /\ \A j \in Calls : j # i => calls'[j] = calls[j]
      /\ calls'[i].who = calls[i].who /\ calls'[i].us = calls[i].us /\ calls'[i].next = calls[i].next
      /\ calls'[i].fresh = calls[i].fresh /\ calls'[i].gone = calls[i].gone /\ calls'[i].pc = "track"
  BY <1>1 DEF Invalidate, At, Goto, mutex, gate, server, past, CallFields
<1>3. SameSession
  BY DEF Invalidate, SameSession, LeaveInv, RoomForms, OutFields
<1>4. StageOK(calls'[i])
  <2>1. PICK d : d = calls'[i]
    OBVIOUS
  <2>2. /\ d.who = calls[i].who /\ d.us = calls[i].us /\ d.next \in Nexts /\ d.fresh = calls[i].fresh
        /\ d.gone = calls[i].gone /\ Moved(d)
    BY <1>1, <1>2, <2>1, Zenon DEF StageOK, Moved
  <2>3. QED
    BY <1>1, <2>1, <2>2, StageMoves
<1>5. calls'[i].gone \cap roster = {} /\ roster' \subseteq roster /\ recips' \subseteq Users
  BY <1>2 DEF LeaveInv, Absent, RoomForms
<1>6. QED
  BY <1>2, <1>3, <1>4, <1>5, CallMoves DEF Shared

LEMMA PumpEndKeeps ==
  ASSUME PumpInv, LeaveInv, NEW i \in Calls, NEW ok \in BOOLEAN, EndPump(i, ok), pump[i].st # "off",
         UNCHANGED <<out, inbox, msgs, lapped, devicesOf, roster, recips>>
  PROVE  LeaveInv'
<1>1. \A j \in Calls : DOMAIN calls[j] = CallFields /\ StageOK(calls[j]) /\ calls[j].next \in Nexts
  BY DEF PumpInv, PumpForms, LeaveInv, Stages, StageOK
<1>2. calls[i].pc = "pumping"
  BY DEF LeaveInv, RoomForms
<1>3. ASSUME NEW j \in Calls
      PROVE  /\ calls'[j].who = calls[j].who /\ calls'[j].us = calls[j].us /\ calls'[j].next = calls[j].next
             /\ calls'[j].fresh = calls[j].fresh /\ calls'[j].gone = calls[j].gone
             /\ calls'[j] = calls[j] \/ (Moved(calls'[j]) /\ calls'[j].pc # "put" /\ (Shared(calls'[j]) => Shared(calls[j])))
             /\ j # i => calls'[j] = calls[j] \/ calls[j].pc = "waiting"
  <2>1. Caught(j) \in {"failed", "catch"}
    BY DEF Caught
  <2>2. CASE j = i
    <3>1. calls'[j] = [calls[j] EXCEPT !.pc = IF ok THEN calls[j].next ELSE Caught(j)]
      BY <2>2 DEF EndPump
    <3>2. QED
      BY <1>1, <1>2, <2>1, <2>2, <3>1 DEF CallFields, Moved, Shared, Nexts
  <2>3. CASE j # i /\ calls[j].pc = "waiting" /\ i \in calls[j].was
    <3>1. calls'[j] = [calls[j] EXCEPT !.pc = IF ok THEN "woken" ELSE Caught(j)]
      BY <2>3 DEF EndPump, At
    <3>2. QED
      BY <1>1, <2>1, <2>3, <3>1 DEF CallFields, Moved, Shared
  <2>4. CASE j # i /\ ~ (calls[j].pc = "waiting" /\ i \in calls[j].was)
    <3>1. calls'[j] = calls[j]
      BY <2>4 DEF EndPump, At
    <3>2. QED
      BY <2>4, <3>1
  <2>5. QED
    BY <2>2, <2>3, <2>4
<1>4. ASSUME NEW j \in Calls
      PROVE  StageOK(calls'[j])
  <2>1. PICK d : d = calls'[j]
    OBVIOUS
  <2>2. CASE calls'[j] = calls[j]
    BY <1>1, <2>2
  <2>3. CASE Moved(calls'[j])
    <3>1. /\ d.who = calls[j].who /\ d.us = calls[j].us /\ d.next \in Nexts /\ d.fresh = calls[j].fresh
          /\ d.gone = calls[j].gone /\ Moved(d)
      BY <1>1, <1>3, <2>1, <2>3, Zenon
    <3>2. QED
      BY <1>1, <2>1, <3>1, StageMoves
  <2>4. QED
    BY <1>3, <2>2, <2>3
<1>5. \A j \in Calls : /\ calls'[j].pc = "put" => calls[j].pc = "put" /\ calls'[j].b = calls[j].b /\ calls'[j].was = calls[j].was
                       /\ Shared(calls'[j]) => Shared(calls[j]) /\ calls'[j].us = calls[j].us
  BY <1>3
<1>6. PumpsRun'
  <2>1. \A j \in Calls : j # i => pump'[j] = pump[j]
    BY DEF EndPump
  <2>2. pump'[i] = NoPump
    BY DEF EndPump, PumpInv, PumpForms
  <2>3. NoPump.st = "off" /\ NoPump.resp = <<>>
    BY DEF NoPump
  <2>4. \A j \in Calls : j # i /\ pump[j].st # "off" => calls'[j].pc = "pumping"
    BY <1>3 DEF LeaveInv, RoomForms
  <2>5. SUFFICES ASSUME NEW j \in Calls
        PROVE  /\ DOMAIN pump'[j].resp \subseteq Users /\ \A u \in DOMAIN pump'[j].resp : pump'[j].resp[u] \subseteq Of({u})
               /\ pump'[j].st # "off" => calls'[j].pc = "pumping"
    BY DEF PumpsRun
  <2>6. CASE j = i
    <3>1. pump'[j].resp = <<>> /\ pump'[j].st = "off"
      BY <2>2, <2>3, <2>6
    <3>2. QED
      BY <3>1
  <2>7. CASE j # i
    BY <2>1, <2>4, <2>7 DEF LeaveInv, RoomForms
  <2>8. QED
    BY <2>6, <2>7
<1>7. /\ SameSession /\ roster' \subseteq Users /\ recips' \subseteq Users /\ Absent'
      /\ DOMAIN devicesOf' = Users /\ \A u \in Users : devicesOf'[u] \subseteq Of({u})
  BY <1>3 DEF SameSession, LeaveInv, RoomForms, Absent
<1>8. QED
  BY <1>4, <1>5, <1>6, <1>7, CallsMove

LEMMA PumpRoundKeeps ==
  ASSUME PumpInv, LeaveInv, NEW i \in Calls, pump[i].st # "off",
         \A j \in Calls : j # i => pump'[j] = pump[j],
         DOMAIN pump'[i].resp \subseteq Users, \A u \in DOMAIN pump'[i].resp : pump'[i].resp[u] \subseteq Of({u}),
         \A j \in Calls : /\ calls'[j].who = calls[j].who /\ calls'[j].us = calls[j].us /\ calls'[j].next = calls[j].next
                          /\ calls'[j].fresh = calls[j].fresh /\ calls'[j].gone = calls[j].gone /\ calls'[j].pc = calls[j].pc
                          /\ calls'[j].a = calls[j].a /\ calls'[j].b = calls[j].b /\ calls'[j].was = calls[j].was,
         DOMAIN devicesOf' = Users, \A u \in Users : devicesOf'[u] \subseteq Of({u}),
         UNCHANGED <<out, inbox, msgs, lapped, roster, recips>>
  PROVE  LeaveInv'
<1>1. ASSUME NEW j \in Calls
      PROVE  StageOK(calls'[j])
  <2>1. PICK d : d = calls'[j]
    OBVIOUS
  <2>2. /\ d.who = calls[j].who /\ d.us = calls[j].us /\ d.next = calls[j].next
        /\ d.gone = calls[j].gone /\ d.pc = calls[j].pc /\ d.a = calls[j].a
    BY <2>1
  <2>3. d.fresh = calls[j].fresh
    BY <2>1
  <2>4. StageOK(calls[j])
    BY DEF LeaveInv, Stages
  <2>5. StageOK(d)
    BY <2>2, <2>3, <2>4 DEF StageOK
  <2>6. QED
    BY <2>1, <2>5
<1>2. \A j \in Calls : /\ calls'[j].pc = "put" => calls[j].pc = "put" /\ calls'[j].b = calls[j].b /\ calls'[j].was = calls[j].was
                       /\ Shared(calls'[j]) => Shared(calls[j]) /\ calls'[j].us = calls[j].us
  BY DEF Shared
<1>3. PumpsRun'
  BY DEF PumpsRun, LeaveInv, RoomForms
<1>4. SameSession /\ roster' \subseteq Users /\ recips' \subseteq Users /\ Absent'
  BY DEF SameSession, LeaveInv, RoomForms, Absent
<1>5. QED
  BY <1>1, <1>2, <1>3, <1>4, CallsMove

LEMMA PumpKeeps ==
  ASSUME PumpInv, LeaveInv, NEW i \in Calls,
         PumpLoop(i) \/ PumpRead(i) \/ PumpSend(i) \/ PumpFail(i) \/ PumpMark(i) \/ Woken(i)
  PROVE  LeaveInv'
<1>1. /\ DOMAIN pump = Calls /\ DOMAIN pump[i] = PumpFields
      /\ DOMAIN pump[i].resp \subseteq Users /\ \A u \in DOMAIN pump[i].resp : pump[i].resp[u] \subseteq Of({u})
      /\ DOMAIN calls = Calls /\ \A j \in Calls : DOMAIN calls[j] = CallFields
      /\ DOMAIN devicesOf = Users /\ \A u \in Users : devicesOf[u] \subseteq Of({u})
  BY DEF PumpInv, PumpForms, LeaveInv, RoomForms
<1>2. UNCHANGED <<out, inbox, msgs, lapped, roster, recips>>
  BY DEF PumpLoop, PumpRead, PumpSend, PumpFail, PumpMark, Woken, server, machine, gate, past
<1>3. ASSUME UNCHANGED <<calls, devicesOf>>, pump[i].st # "off", pump'[i].resp = pump[i].resp, \A j \in Calls : j # i => pump'[j] = pump[j]
      PROVE  LeaveInv'
  <2>1. \A j \in Calls : calls'[j] = calls[j]
    BY <1>3
  <2>2. QED
    BY <1>1, <1>2, <1>3, <2>1, PumpRoundKeeps
<1>4. CASE PumpLoop(i)
  <2>1. UNCHANGED devicesOf /\ pump[i].st = "loop"
    BY <1>4 DEF PumpLoop, machine
  <2>2. CASE pump[i].round = Rounds
    BY <1>2, <1>4, <2>1, <2>2, PumpEndKeeps DEF PumpLoop
  <2>3. CASE pump[i].round # Rounds
    <3>1. calls' = calls /\ pump'[i].resp = pump[i].resp /\ \A j \in Calls : j # i => pump'[j] = pump[j]
      BY <1>1, <1>4, <2>3 DEF PumpLoop, PumpFields
    <3>2. QED
      BY <1>3, <2>1, <3>1
  <2>4. QED
    BY <2>2, <2>3
<1>5. CASE PumpRead(i)
  <2>1. UNCHANGED devicesOf /\ pump[i].st = "read"
    BY <1>5 DEF PumpRead, machine
  <2>2. CASE EndPump(i, TRUE)
    BY <1>2, <2>1, <2>2, PumpEndKeeps
  <2>3. CASE ~ EndPump(i, TRUE)
    <3>1. calls' = calls /\ pump'[i].resp = pump[i].resp /\ \A j \in Calls : j # i => pump'[j] = pump[j]
      BY <1>1, <1>5, <2>3 DEF PumpRead, PumpFields
    <3>2. QED
      BY <1>3, <2>1, <3>1
  <2>4. QED
    BY <2>2, <2>3
<1>6. CASE PumpSend(i)
  <2>1. /\ UNCHANGED <<calls, devicesOf>> /\ pump[i].st = "send"
        /\ \A j \in Calls : j # i => pump'[j] = pump[j]
        /\ pump'[i].resp = [u \in Head(pump[i].todo).us \cap Users |-> Of({u}) \cap bundles]
    BY <1>1, <1>6 DEF PumpSend, machine, PumpFields
  <2>2. DOMAIN pump'[i].resp \subseteq Users /\ \A u \in DOMAIN pump'[i].resp : pump'[i].resp[u] \subseteq Of({u})
    BY <2>1
  <2>3. \A j \in Calls : calls'[j] = calls[j]
    BY <2>1
  <2>4. QED
    BY <1>1, <1>2, <2>1, <2>2, <2>3, PumpRoundKeeps
<1>7. CASE PumpFail(i)
  BY <1>2, <1>7, PumpEndKeeps DEF PumpFail, machine
<1>8. CASE PumpMark(i)
  <2>1. /\ pump[i].st = "mark" /\ devicesOf' = Over(pump[i].resp, devicesOf)
        /\ \A j \in Calls : j # i => pump'[j] = pump[j]
        /\ pump'[i].resp = pump[i].resp
    BY <1>1, <1>8 DEF PumpMark, PumpFields
  <2>2. \A j \in Calls : /\ calls'[j].who = calls[j].who /\ calls'[j].us = calls[j].us /\ calls'[j].next = calls[j].next
                         /\ calls'[j].fresh = calls[j].fresh /\ calls'[j].gone = calls[j].gone /\ calls'[j].pc = calls[j].pc
                         /\ calls'[j].a = calls[j].a /\ calls'[j].b = calls[j].b /\ calls'[j].was = calls[j].was
    BY <1>1, <1>8 DEF PumpMark, CallFields
  <2>3. DOMAIN devicesOf' = Users /\ \A u \in Users : devicesOf'[u] \subseteq Of({u})
    BY <1>1, <2>1 DEF Over
  <2>4. QED
    BY <1>1, <1>2, <2>1, <2>2, <2>3, PumpRoundKeeps
<1>9. CASE Woken(i)
  <2>1. UNCHANGED devicesOf /\ calls[i].pc = "woken"
    BY <1>9 DEF Woken, machine, At
  <2>2. StageOK(calls[i]) /\ calls[i].next \in Nexts
    BY DEF LeaveInv, Stages, StageOK
  <2>3. PICK pc \in Nexts \cup {"pumping"} :
          Goto(i, pc) /\ ((pc = calls[i].next /\ pump' = pump) \/ (pc = "pumping" /\ StartPump(i)))
    BY <1>9, <2>2 DEF Woken, mutex
  <2>4. /\ \A j \in Calls : j # i => calls'[j] = calls[j]
        /\ calls'[i].who = calls[i].who /\ calls'[i].us = calls[i].us /\ calls'[i].next = calls[i].next
        /\ calls'[i].fresh = calls[i].fresh /\ calls'[i].gone = calls[i].gone /\ calls'[i].pc = pc
    BY <1>1, <2>3 DEF Goto, CallFields
  <2>5. Moved(calls'[i]) /\ calls'[i].pc # "put"
    BY <2>4 DEF Moved, Nexts
  <2>6. Shared(calls'[i]) => Shared(calls[i]) /\ calls'[i].us = calls[i].us
    BY <2>1, <2>3, <2>4 DEF Shared, Nexts
  <2>7. StageOK(calls'[i])
    <3>1. PICK d : d = calls'[i]
      OBVIOUS
    <3>2. /\ d.who = calls[i].who /\ d.us = calls[i].us /\ d.next \in Nexts /\ d.fresh = calls[i].fresh
          /\ d.gone = calls[i].gone /\ Moved(d)
      BY <2>2, <2>4, <2>5, <3>1, Zenon
    <3>3. QED
      BY <2>2, <3>1, <3>2, StageMoves
  <2>8. PumpsRun'
    <3>1. \A j \in Calls : j # i => pump'[j] = pump[j]
      BY <1>1, <2>3 DEF StartPump
    <3>2. pump'[i] = pump[i] \/ (pc = "pumping" /\ pump'[i] = [NoPump EXCEPT !.st = "loop"])
      BY <1>1, <2>3 DEF StartPump
    <3>3. pump[i].st = "off"
      BY <2>1 DEF LeaveInv, RoomForms
    <3>4. LET p == [NoPump EXCEPT !.st = "loop"] IN p.resp = <<>>
      BY DEF NoPump
    <3>5. pump'[i].st # "off" => calls'[i].pc = "pumping"
      BY <2>4, <3>2, <3>3
    <3>6. DOMAIN pump'[i].resp \subseteq Users /\ \A u \in DOMAIN pump'[i].resp : pump'[i].resp[u] \subseteq Of({u})
      <4>1. CASE pump'[i] = pump[i]
        BY <1>1, <4>1
      <4>2. CASE pump'[i] = [NoPump EXCEPT !.st = "loop"]
        <5>1. pump'[i].resp = <<>>
          BY <3>4, <4>2
        <5>2. QED
          BY <5>1
      <4>3. QED
        BY <3>2, <4>1, <4>2
    <3>7. QED
      BY <2>4, <3>1, <3>5, <3>6 DEF PumpsRun, LeaveInv, RoomForms
  <2>9. /\ SameSession /\ roster' \subseteq Users /\ recips' \subseteq Users /\ Absent'
        /\ DOMAIN devicesOf' = Users /\ \A u \in Users : devicesOf'[u] \subseteq Of({u})
    BY <1>2, <2>1, <2>4 DEF SameSession, LeaveInv, RoomForms, Absent
  <2>10. \A j \in Calls : /\ StageOK(calls'[j])
                          /\ calls'[j].pc = "put" => calls[j].pc = "put" /\ calls'[j].b = calls[j].b /\ calls'[j].was = calls[j].was
                          /\ Shared(calls'[j]) => Shared(calls[j]) /\ calls'[j].us = calls[j].us
    BY <2>4, <2>5, <2>6, <2>7 DEF LeaveInv, Stages
  <2>11. QED
    BY <1>2, <2>8, <2>9, <2>10, CallsMove
<1>10. QED
  BY <1>4, <1>5, <1>6, <1>7, <1>8, <1>9

\* A share takes up the list of its call, in a new session unless the old one
\* was with nobody else.
LEMMA ShareStep ==
  ASSUME PumpInv, LeaveInv, NEW i \in Calls, Share(i)
  PROVE  LeaveInv'
<1> DEFINE us == calls[i].us
           rotate == out.sid = 0 \/ out.invalid \/ ~(out.users \subseteq us)
           sess == IF rotate THEN [sid |-> out.sid + 1, idx |-> 0, users |-> us, holders |-> {}, invalid |-> FALSE]
                  ELSE [out EXCEPT !.users = us]
           to == (KnownOf(us) \cap DOMAIN olm) \ (sess.holders \cup {Me})
<1>1. /\ DOMAIN calls = Calls /\ DOMAIN calls[i] = CallFields /\ StageOK(calls[i])
      /\ DOMAIN out = OutFields /\ out.sid \in Nat /\ out.idx \in Nat
  BY DEF PumpInv, PumpForms, LeaveInv, Stages, RoomForms
<1>2. /\ calls[i].pc = "share" /\ out' = sess /\ lapped' = (lapped \cup Calls) \ {i}
      /\ UNCHANGED <<inbox, msgs, devicesOf, pump, roster, recips>>
  BY DEF Share, At, mutex, server, gate
<1>3. /\ \A j \in Calls : j # i => calls'[j] = calls[j]
      /\ calls'[i].who = calls[i].who /\ calls'[i].us = us /\ calls'[i].next = calls[i].next
      /\ calls'[i].fresh = calls[i].fresh /\ calls'[i].gone = calls[i].gone /\ calls'[i].pc = "put"
      /\ calls'[i].b = [sid |-> sess.sid, idx |-> sess.idx] /\ calls'[i].was = to
  BY <1>1 DEF Share, CallFields
<1>4. to \subseteq Machines /\ \A d \in to : UserOf[d] \in us
  <2>1. us \subseteq Users
    BY <1>1 DEF StageOK
  <2>2. KnownOf(us) \subseteq Of(us)
    BY <2>1 DEF KnownOf, Of, LeaveInv, RoomForms
  <2>3. QED
    BY <2>2 DEF Of
<1>5. /\ DOMAIN sess = OutFields /\ sess.users = us /\ sess.sid \in Nat /\ sess.idx \in Nat /\ out.sid <= sess.sid
      /\ sess.sid = out.sid => sess.idx = out.idx /\ out.users \subseteq us
  <2>1. CASE rotate
    <3>1. sess = [sid |-> out.sid + 1, idx |-> 0, users |-> us, holders |-> {}, invalid |-> FALSE]
      BY <2>1
    <3>2. sess.sid = out.sid + 1 /\ sess.idx = 0 /\ sess.users = us /\ DOMAIN sess = OutFields
      BY <3>1 DEF OutFields
    <3>3. out.sid + 1 \in Nat /\ out.sid <= out.sid + 1 /\ out.sid + 1 # out.sid
      BY <1>1
    <3> HIDE DEF sess
    <3>4. QED
      BY <3>2, <3>3
  <2>2. CASE ~ rotate
    <3>1. sess = [out EXCEPT !.users = us]
      BY <2>2
    <3>2. sess.sid = out.sid /\ sess.idx = out.idx /\ sess.users = us /\ DOMAIN sess = OutFields
      BY <1>1, <3>1 DEF OutFields
    <3>3. out.users \subseteq us /\ out.sid <= out.sid
      BY <1>1, <2>2
    <3> HIDE DEF sess
    <3>4. QED
      BY <1>1, <3>2, <3>3
  <2>3. QED
    BY <2>1, <2>2
<1> HIDE DEF sess, to, rotate
<1>6. calls'[i].b.sid = sess.sid /\ calls'[i].b.idx = sess.idx
  BY <1>3
<1>7. RoomForms'
  BY <1>2, <1>3, <1>5 DEF LeaveInv, RoomForms
<1>8. Stages' /\ Absent'
  <2>1. PICK d : d = calls'[i]
    OBVIOUS
  <2>2. /\ d.who = calls[i].who /\ d.us = calls[i].us /\ d.next \in Nexts /\ d.fresh = calls[i].fresh
        /\ d.gone = calls[i].gone /\ Moved(d)
    BY <1>1, <1>3, <2>1, Zenon DEF StageOK, Moved
  <2>3. StageOK(calls'[i])
    BY <1>1, <2>1, <2>2, StageMoves
  <2>4. QED
    BY <1>2, <1>3, <2>3 DEF LeaveInv, Stages, Absent
<1>9. OwnShare'
  BY <1>2, <1>3, <1>5 DEF OwnShare
<1>10. InSession'
  <2>1. ASSUME NEW d \in Machines, NEW s \in DOMAIN inbox[d]
        PROVE  s \in Nat /\ s <= sess.sid /\ inbox[d][s] \in Nat /\ (s = sess.sid => UserOf[d] \in sess.users)
    <3>1. s \in Nat /\ s <= out.sid /\ inbox[d][s] \in Nat /\ (s = out.sid => UserOf[d] \in out.users)
      BY DEF LeaveInv, InSession
    <3>2. s <= sess.sid /\ (s = sess.sid => s = out.sid)
      BY <1>1, <1>5, <3>1
    <3>3. QED
      BY <1>5, <3>1, <3>2
  <2>2. ASSUME NEW j \in Calls, calls'[j].pc = "put"
        PROVE  /\ calls'[j].b.sid \in Nat /\ calls'[j].b.sid <= sess.sid /\ calls'[j].b.idx \in Nat /\ calls'[j].was \subseteq Machines
               /\ calls'[j].b.sid = sess.sid => calls'[j].b.idx <= sess.idx /\ \A d \in calls'[j].was : UserOf[d] \in sess.users
    <3>1. CASE j = i
      BY <1>3, <1>4, <1>5, <1>6, <3>1
    <3>2. CASE j # i
      <4>1. calls'[j] = calls[j]
        BY <1>3, <3>2
      <4>2. /\ calls[j].b.sid \in Nat /\ calls[j].b.sid <= out.sid /\ calls[j].b.idx \in Nat /\ calls[j].was \subseteq Machines
            /\ calls[j].b.sid = out.sid => calls[j].b.idx <= out.idx /\ \A d \in calls[j].was : UserOf[d] \in out.users
        BY <2>2, <4>1 DEF LeaveInv, InSession
      <4>3. calls[j].b.sid <= sess.sid /\ (calls[j].b.sid = sess.sid => calls[j].b.sid = out.sid /\ sess.sid = out.sid)
        BY <1>1, <1>5, <4>2
      <4>4. QED
        BY <1>5, <4>1, <4>2, <4>3
    <3>3. QED
      BY <3>1, <3>2
  <2>3. QED
    BY <1>2, <2>1, <2>2 DEF InSession
<1>11. Locked'
  <2>1. SUFFICES ASSUME NEW m \in msgs
        PROVE  /\ m.sid \in Nat /\ m.sid <= sess.sid /\ m.idx \in Nat /\ (m.sid = sess.sid => m.idx < sess.idx)
               /\ m.fresh => \A d \in Of(m.gone \ Admins) : d = Me \/ Hidden(m, d)'
    BY <1>2 DEF Locked
  <2>2. m.sid \in Nat /\ m.sid <= out.sid /\ m.idx \in Nat /\ (m.sid = out.sid => m.idx < out.idx)
    BY DEF LeaveInv, Locked
  <2>3. m.sid <= sess.sid /\ (m.sid = sess.sid => m.sid = out.sid /\ sess.sid = out.sid)
    BY <1>1, <1>5, <2>2
  <2>4. m.sid = sess.sid => m.idx < sess.idx
    BY <1>5, <2>2, <2>3
  <2>5. ASSUME NEW d, Hidden(m, d)
        PROVE  Hidden(m, d)'
    <3>1. \A j \in Calls : calls'[j].pc = "put" /\ calls'[j].b.sid = m.sid /\ d \in calls'[j].was => m.idx < calls'[j].b.idx
      BY <1>3, <1>6, <2>4, <2>5 DEF Hidden
    <3>2. QED
      BY <1>2, <2>5, <3>1 DEF Hidden
  <2>6. QED
    BY <2>2, <2>3, <2>4, <2>5 DEF LeaveInv, Locked
<1>12. QED
  BY <1>7, <1>8, <1>9, <1>10, <1>11 DEF LeaveInv

LEMMA PutKeeps ==
  ASSUME PumpInv, LeaveInv, NEW i \in Calls, PutRoomKey(i)
  PROVE  LeaveInv'
<1> DEFINE s == calls[i].b
           next == IF calls[i].op = "event" THEN "done" ELSE "encrypt"
<1>1. /\ DOMAIN calls[i] = CallFields /\ StageOK(calls[i]) /\ DOMAIN out = OutFields
      /\ calls[i].who \in Users /\ calls[i].us \subseteq Users
      /\ calls[i].fresh => calls[i].us \cap calls[i].gone \subseteq Admins
  BY DEF PumpInv, PumpForms, LeaveInv, Stages, RoomForms, StageOK
<1>2. /\ calls[i].pc = "put" /\ UNCHANGED <<msgs, lapped, devicesOf, roster, recips>>
      /\ inbox' = [d \in Machines |->
           IF d \in calls[i].was /\ olm[d] = d /\ s.sid \notin DOMAIN inbox[d]
           THEN Over([x \in {s.sid} |-> s.idx], inbox[d]) ELSE inbox[d]]
      /\ Pumps(i, calls[i], next)
  BY DEF PutRoomKey, At, gate, past
<1>3. SameSession
  BY <1>1 DEF PutRoomKey, SameSession, OutFields
<1>4. next \in Nexts
  BY DEF Nexts
<1> HIDE DEF next
<1>5. /\ \A j \in Calls : j # i => calls'[j] = calls[j]
      /\ StageOK(calls'[i]) /\ calls'[i].pc \in {"pumping", "waiting"}
      /\ calls'[i].us = calls[i].us /\ calls'[i].gone = calls[i].gone
      /\ PumpsRun'
  BY <1>1, <1>2, <1>4, PumpCallStage
<1>6. s.sid \in Nat /\ s.sid <= out.sid /\ s.idx \in Nat /\ (s.sid = out.sid => \A d \in calls[i].was : UserOf[d] \in out.users)
  BY <1>2 DEF LeaveInv, InSession
<1>7. \A d \in Machines : \A x \in DOMAIN inbox'[d] :
        \/ x \in DOMAIN inbox[d] /\ inbox'[d][x] = inbox[d][x]
        \/ x = s.sid /\ inbox'[d][x] = s.idx /\ d \in calls[i].was
  <2>1. SUFFICES ASSUME NEW d \in Machines, NEW x \in DOMAIN inbox'[d]
                 PROVE  \/ x \in DOMAIN inbox[d] /\ inbox'[d][x] = inbox[d][x]
                        \/ x = s.sid /\ inbox'[d][x] = s.idx /\ d \in calls[i].was
    OBVIOUS
  <2>2. CASE d \in calls[i].was /\ olm[d] = d /\ s.sid \notin DOMAIN inbox[d]
    <3>1. inbox'[d] = Over([y \in {s.sid} |-> s.idx], inbox[d])
      BY <1>2, <2>2
    <3>2. QED
      BY <2>1, <2>2, <3>1 DEF Over
  <2>3. CASE ~ (d \in calls[i].was /\ olm[d] = d /\ s.sid \notin DOMAIN inbox[d])
    BY <1>2, <2>1, <2>3
  <2>4. QED
    BY <2>2, <2>3
<1>8. RoomForms'
  BY <1>2, <1>3, <1>5 DEF LeaveInv, RoomForms, SameSession, PumpsRun
<1>9. Stages' /\ Absent'
  BY <1>2, <1>5 DEF LeaveInv, Stages, Absent
<1>10. OwnShare'
  BY <1>2, <1>3, <1>5 DEF LeaveInv, OwnShare, SameSession, Shared
<1>11. InSession'
  <2>1. ASSUME NEW d \in Machines, NEW x \in DOMAIN inbox'[d]
        PROVE  x \in Nat /\ x <= out.sid /\ inbox'[d][x] \in Nat /\ (x = out.sid => UserOf[d] \in out.users)
    BY <1>6, <1>7 DEF LeaveInv, InSession
  <2>2. \A j \in Calls : calls'[j].pc = "put" => calls'[j] = calls[j]
    BY <1>5
  <2>3. QED
    BY <1>3, <2>1, <2>2 DEF LeaveInv, InSession, SameSession
<1>12. Locked'
  <2>1. ASSUME NEW m \in msgs, NEW d \in Machines, Hidden(m, d)
        PROVE  Hidden(m, d)'
    <3>1. m.sid \in DOMAIN inbox'[d] => m.idx < inbox'[d][m.sid]
      BY <1>2, <1>7, <2>1 DEF Hidden
    <3>2. \A j \in Calls : calls'[j].pc = "put" => calls'[j] = calls[j]
      BY <1>5
    <3>3. QED
      BY <2>1, <3>1, <3>2 DEF Hidden
  <2>2. \A us : Of(us) \subseteq Machines
    BY DEF Of
  <2>3. QED
    BY <1>2, <1>3, <2>1, <2>2 DEF LeaveInv, Locked, SameSession
<1>13. QED
  BY <1>8, <1>9, <1>10, <1>11, <1>12 DEF LeaveInv

LEMMA EncryptStep ==
  ASSUME PumpInv, LeaveInv, NEW i \in Calls, Encrypt(i)
  PROVE  LeaveInv'
<1>1. /\ DOMAIN calls = Calls /\ DOMAIN calls[i] = CallFields /\ StageOK(calls[i])
      /\ DOMAIN out = OutFields /\ out.sid \in Nat /\ out.idx \in Nat
  BY DEF PumpInv, PumpForms, LeaveInv, Stages, RoomForms
<1>2. calls[i].pc \in {"encrypt", "retry"} /\ UNCHANGED <<inbox, lapped, devicesOf, pump, roster, recips>>
  BY DEF Encrypt, At, mutex, gate, past
<1>3. PICK pc \in {"catch", "failed", "done"} : Goto(i, pc) /\ (out.sid = 0 => UNCHANGED <<msgs, out>>)
  BY DEF Encrypt, At
<1>4. /\ \A j \in Calls : j # i => calls'[j] = calls[j]
      /\ calls'[i].who = calls[i].who /\ calls'[i].us = calls[i].us /\ calls'[i].next = calls[i].next
      /\ calls'[i].fresh = calls[i].fresh /\ calls'[i].gone = calls[i].gone /\ calls'[i].pc = pc
  BY <1>1, <1>3 DEF Goto, CallFields
<1>5. Moved(calls'[i]) /\ calls'[i].pc # "put" /\ ~ Shared(calls'[i])
  BY <1>4 DEF Moved, Shared
<1>6. CASE out.sid = 0
  <2>1. Plain(i)
    BY <1>2, <1>3, <1>4, <1>5, <1>6 DEF Plain
  <2>2. QED
    BY <2>1, PlainKeeps
<1>7. CASE out.sid # 0
  <2>1. PICK n : n = [sid |-> out.sid, idx |-> out.idx, to |-> calls[i].us, gone |-> calls[i].gone, pub |-> calls[i].pub,
                      fresh |-> calls[i].fresh /\ At(i, "encrypt") /\ i \notin lapped]
    OBVIOUS
  <2>2. n.sid = out.sid /\ n.idx = out.idx /\ n.gone = calls[i].gone
    BY <2>1
  <2>3. n.fresh => calls[i].fresh /\ calls[i].pc = "encrypt" /\ i \notin lapped
    BY <2>1 DEF At
  <2>13. msgs' = msgs \cup {n} /\ out' = [out EXCEPT !.idx = @ + 1]
    BY <1>7, <2>1 DEF Encrypt
  <2>4. DOMAIN out' = OutFields /\ out'.sid = out.sid /\ out'.idx = out.idx + 1 /\ out'.users = out.users
    BY <1>1, <2>13 DEF OutFields
  <2>5. out.idx + 1 \in Nat /\ out.idx < out.idx + 1 /\ \A k \in Nat : k < out.idx \/ k <= out.idx => k < out.idx + 1 /\ k <= out.idx + 1
    BY <1>1
  <2>6. PumpsRun'
    BY <1>2, <1>4 DEF PumpsRun, LeaveInv, RoomForms
  <2>7. RoomForms'
    BY <1>2, <2>4, <2>5, <2>6 DEF LeaveInv, RoomForms, PumpsRun
  <2>8. Stages' /\ Absent'
    <3>1. PICK d : d = calls'[i]
      OBVIOUS
    <3>2. /\ d.who = calls[i].who /\ d.us = calls[i].us /\ d.next \in Nexts /\ d.fresh = calls[i].fresh
          /\ d.gone = calls[i].gone /\ Moved(d)
      BY <1>1, <1>4, <1>5, <3>1, Zenon DEF StageOK
    <3>3. StageOK(calls'[i])
      BY <1>1, <3>1, <3>2, StageMoves
    <3>4. QED
      BY <1>2, <1>4, <3>3 DEF LeaveInv, Stages, Absent
  <2>9. OwnShare'
    BY <1>2, <1>4, <1>5, <2>4 DEF LeaveInv, OwnShare
  <2>10. InSession'
    <3>1. \A j \in Calls : calls'[j].pc = "put" => calls'[j] = calls[j]
      BY <1>4, <1>5
    <3>2. QED
      BY <1>2, <2>4, <2>5, <3>1 DEF LeaveInv, InSession
  <2>11. Locked'
    <3>1. \A m \in msgs, d \in Machines : Hidden(m, d) => Hidden(m, d)'
      BY <1>2, <1>4, <1>5 DEF Hidden
    <3>2. ASSUME n.fresh, NEW d \in Of(n.gone \ Admins)
          PROVE  Hidden(n, d)'
      <4>1. out.users = calls[i].us /\ calls[i].us \cap calls[i].gone \subseteq Admins
        BY <1>1, <2>3, <3>2 DEF LeaveInv, OwnShare, Shared, StageOK
      <4>2. d \in Machines /\ UserOf[d] \notin out.users
        BY <2>2, <3>2, <4>1 DEF Of
      <4>3. out.sid \notin DOMAIN inbox[d]
        BY <4>2 DEF LeaveInv, InSession
      <4>4. \A j \in Calls : calls[j].pc = "put" /\ calls[j].b.sid = out.sid => d \notin calls[j].was
        BY <4>2 DEF LeaveInv, InSession
      <4>5. \A j \in Calls : calls'[j].pc = "put" => calls'[j] = calls[j]
        BY <1>4, <1>5
      <4>6. \A j \in Calls : ~ (calls'[j].pc = "put" /\ calls'[j].b.sid = n.sid /\ d \in calls'[j].was)
        BY <2>2, <4>4, <4>5
      <4>7. n.sid \notin DOMAIN inbox'[d]
        BY <1>2, <2>2, <4>3
      <4>8. QED
        BY <4>6, <4>7, Zenon DEF Hidden
    <3>3. \A us : Of(us) \subseteq Machines
      BY DEF Of
    <3>4. ASSUME NEW m \in msgs
          PROVE  /\ m.sid \in Nat /\ m.sid <= out'.sid /\ m.idx \in Nat /\ (m.sid = out'.sid => m.idx < out'.idx)
                 /\ m.fresh => \A d \in Of(m.gone \ Admins) : d = Me \/ Hidden(m, d)'
      BY <2>4, <2>5, <3>1, <3>3 DEF LeaveInv, Locked
    <3>5. n.sid \in Nat /\ n.sid <= out'.sid /\ n.idx \in Nat /\ n.idx < out'.idx
      BY <1>1, <2>2, <2>4, <2>5
    <3>6. ASSUME NEW m \in msgs'
          PROVE  /\ m.sid \in Nat /\ m.sid <= out'.sid /\ m.idx \in Nat /\ (m.sid = out'.sid => m.idx < out'.idx)
                 /\ m.fresh => \A d \in Of(m.gone \ Admins) : d = Me \/ Hidden(m, d)'
      <4>1. CASE m \in msgs
        BY <3>4, <4>1
      <4>2. CASE m = n
        BY <3>2, <3>5, <4>2
      <4>3. QED
        BY <2>13, <3>6, <4>1, <4>2
    <3>7. QED
      BY <3>6, Zenon DEF Locked, Of
  <2>12. QED
    BY <2>7, <2>8, <2>9, <2>10, <2>11 DEF LeaveInv
<1>8. QED
  BY <1>6, <1>7

LEMMA CallsStart ==
  ASSUME KeysInit, NEW i \in Calls
  PROVE  /\ calls[i].who \in Users /\ calls[i].dev \in Machines /\ calls[i].us = {} /\ calls[i].next = "done"
         /\ calls[i].pc \in {"todo", "done"} /\ calls[i].a = None /\ calls[i].gone = {} /\ calls[i].pub = {}
         /\ ~ calls[i].fresh
<1>1. PICK load \in Workloads :
        calls = [j \in Calls |->
          LET req == load.reqs[IF j <= Len(load.reqs) THEN j ELSE 1] IN
          [op |-> req.op, who |-> req.who, dev |-> req.dev, dk |-> req.dk,
           pc |-> IF j <= Len(load.reqs) THEN "todo" ELSE "done", next |-> "done", us |-> {},
           todo |-> {}, a |-> None, b |-> None, owed |-> {}, gen |-> 0, was |-> {},
           gone |-> {}, pub |-> {}, fresh |-> FALSE]]
  BY DEF KeysInit
<1> DEFINE k == IF i <= Len(load.reqs) THEN i ELSE 1
           req == load.reqs[k]
<1>2. load.reqs \in Seq(Request) /\ load.reqs # <<>> /\ Calls = 1 .. Cardinality(Calls)
  BY RoomKeysAssumption
<1>3. k \in 1 .. Len(load.reqs)
  <2>1. Len(load.reqs) \in Nat /\ Len(load.reqs) # 0
    BY <1>2
  <2>2. i \in 1 .. Cardinality(Calls)
    BY <1>2
  <2>3. i \in Int /\ i >= 1
    BY <2>2
  <2>4. QED
    BY <2>1, <2>3
<1>4. load.reqs[k] \in Request
  BY <1>2, <1>3
<1>5. req.who \in Users /\ req.dev \in Machines
  BY <1>4 DEF Request
<1>6. calls[i] = [op |-> req.op, who |-> req.who, dev |-> req.dev, dk |-> req.dk,
            pc |-> IF i <= Len(load.reqs) THEN "todo" ELSE "done", next |-> "done", us |-> {},
            todo |-> {}, a |-> None, b |-> None, owed |-> {}, gen |-> 0, was |-> {},
            gone |-> {}, pub |-> {}, fresh |-> FALSE]
  BY <1>1
<1> HIDE DEF k, req
<1>7. QED
  BY <1>5, <1>6

LEMMA RoomStarts == KeysInit => LeaveInv
<1> SUFFICES ASSUME KeysInit PROVE LeaveInv
  OBVIOUS
<1>1. roster \subseteq Roster0
  BY DEF KeysInit
<1>2. /\ out = [sid |-> 0, idx |-> 0, users |-> {}, holders |-> {}, invalid |-> FALSE]
      /\ inbox = [d \in Machines |-> <<>>] /\ msgs = {} /\ devicesOf = [u \in Users |-> {}]
      /\ pump = [i \in Calls |-> NoPump] /\ recips = {} /\ lapped = {}
  BY DEF KeysInit
<1>3. \A i \in Calls :
        /\ calls[i].who \in Users /\ calls[i].us = {} /\ calls[i].next = "done" /\ calls[i].pc \in {"todo", "done"}
        /\ calls[i].a = None /\ calls[i].gone = {} /\ ~ calls[i].fresh
  BY CallsStart
<1>4. RoomForms
  <2>1. DOMAIN out = OutFields /\ out.sid = 0 /\ out.idx = 0
    BY <1>2 DEF OutFields
  <2>2. \A i \in Calls : pump[i].st = "off" /\ pump[i].resp = <<>>
    BY <1>2 DEF NoPump
  <2>3. QED
    BY <1>1, <1>2, <2>1, <2>2, RoomKeysAssumption DEF RoomForms
<1>5. Stages /\ Absent
  BY <1>3 DEF Stages, StageOK, Absent, Nexts
<1>6. OwnShare
  BY <1>3 DEF OwnShare, Shared
<1>7. InSession
  BY <1>2, <1>3 DEF InSession
<1>8. Locked
  BY <1>2 DEF Locked
<1>9. QED
  BY <1>4, <1>5, <1>6, <1>7, <1>8 DEF LeaveInv

LEMMA LeaveSteps ==
  ASSUME PumpInv, LeaveInv, [KeysNext]_keysVars
  PROVE  LeaveInv'
<1>1. CASE UNCHANGED keysVars
  <2>1. UNCHANGED <<calls, out, inbox, msgs, lapped, devicesOf, pump, roster, recips>>
    BY <1>1 DEF keysVars, server, machine, mutex, gate, past
  <2>2. RoomForms' /\ Stages' /\ Absent' /\ OwnShare'
    BY <2>1 DEF LeaveInv, RoomForms, Stages, Absent, OwnShare
  <2>3. InSession' /\ Locked'
    BY <2>1 DEF LeaveInv, InSession, Locked, Hidden
  <2>4. QED
    BY <2>2, <2>3 DEF LeaveInv
<1>2. CASE KeysNext
  BY <1>2, PlainSteps, PlainKeeps, StartSteps, FetchSteps, VerdictSteps, CallingSteps, JoinStep, InvalidateStep,
     PumpKeeps, ShareStep, PutKeeps, EncryptStep DEF KeysNext
<1>3. QED
  BY <1>1, <1>2

\* Whoever had left the topic when a message was begun reads neither it nor, with
\* the key of its session, any message of its index on (ensureRoomMembers,
\* shareRoomKey): the members' answer of the message's own refresh decides.
THEOREM LeaversLockedOut == KeysSpec => []LeaverLocked
<1>1. ASSUME PumpInv, [KeysNext]_keysVars
      PROVE  PumpInv'
  BY <1>1, PumpSteps
<1>2. QED
  BY <1>1, PumpStarts, RoomStarts, LeaveSteps, LockedSays, PTL DEF KeysSpec

(***************************************************************************)
(* Who is in can read: track, query, claim, share                          *)
(***************************************************************************)
\* One pump runs, and who wakes has been served (until a pump hits its cap).
Sole ==
  /\ \A i \in Calls : pump[i].st # "off" => flight = i
  /\ \A j \in Calls : calls[j].pc = "woken" => calls[j].gen <= served
  /\ \A i \in Calls : pump[i].st \in {"read", "send", "mark"} => served <= pump[i].gen

Writing == {"send", "edit", "event"}
Writer(r) ==
  /\ r.pc = "fetch" \/ r.fresh => r.op \in Writing
  /\ r.pc = "synced" => r.op = "poll"
  /\ r.dev \in Machines
Writers == \A j \in Calls : Writer(calls[j])

\* A query under way asks for users who are dirty until its answer is taken, and
\* the answer holds all that is known of them.
Asking ==
  /\ tracked \subseteq Users /\ dirty \subseteq tracked
  /\ bundles \subseteq Machines /\ \A u \in Users : devicesOf[u] \subseteq bundles
  /\ \A i \in Calls : pump[i].st \in {"read", "send", "mark"} =>
       /\ Len(pump[i].todo) <= 2 /\ (Len(pump[i].todo) = 2 => pump[i].todo[1].us = {Me})
       /\ \A k \in DOMAIN pump[i].todo : pump[i].todo[k].us \subseteq dirty \cup {Me}
  /\ \A i \in Calls : pump[i].st = "mark" =>
       /\ DOMAIN pump[i].resp = pump[i].todo[1].us \cap Users
       /\ \A u \in DOMAIN pump[i].resp : devicesOf[u] \subseteq pump[i].resp[u] /\ pump[i].resp[u] \subseteq bundles

\* A device published before a call: known, or to be known with the next answer.
Coming(d) ==
  \/ d \in devicesOf[UserOf[d]]
  \/ /\ UserOf[d] \in dirty
     /\ \A i \in Calls : pump[i].st = "mark" /\ UserOf[d] \in DOMAIN pump[i].resp => d \in pump[i].resp[UserOf[d]]
Published ==
  \A j \in Calls : \A d \in calls[j].pub :
    d \in bundles /\ d # Me /\ (UserOf[d] \in tracked => Coming(d))

\* A call that has tracked its recipients knows those devices or owes the query.
AfterTrack(r) ==
  \/ r.pc \in {"check", "pin", "claim", "claimed", "share", "put", "encrypt"}
  \/ r.pc \in {"pumping", "waiting", "woken"} /\ r.next \in {"check", "claim", "encrypt"}
Met ==
  \A j \in Calls : calls[j].fresh /\ AfterTrack(calls[j]) =>
    \A d \in calls[j].pub \cap Of(calls[j].us) : d \in devicesOf[UserOf[d]] \/ UserOf[d] \in calls[j].owed

MetInv == Sole /\ Writers /\ Asking /\ Published /\ Met

Sessions ==
  /\ \A d \in DOMAIN olm \ crossed : olm[d] = d
  /\ \A j \in Calls : calls[j].pc = "claimed" /\ calls[j].fresh =>
       \A d \in calls[j].pub \cap Of(calls[j].us) : d \in DOMAIN olm \cup DOMAIN calls[j].b
  /\ \A j \in Calls : calls[j].pc = "share" /\ calls[j].fresh => calls[j].pub \cap Of(calls[j].us) \subseteq DOMAIN olm

Giving ==
  /\ \A j \in Calls : calls[j].pc = "put" => calls[j].was \subseteq DOMAIN olm
  /\ \A j \in Calls \ lapped : calls[j].pc = "put" =>
       /\ calls[j].b.sid = out.sid
       /\ calls[j].fresh => calls[j].pub \cap Of(calls[j].us) \subseteq calls[j].was \cup out.holders
Has(d) == out.sid \in DOMAIN inbox[d]
Holding ==
  /\ out.holders \subseteq Machines
  /\ \A d \in out.holders \ crossed : Has(d)
  /\ \A d \in Machines : Has(d) => inbox[d][out.sid] <= out.idx
Given ==
  \A j \in Calls \ lapped : calls[j].fresh /\ Shared(calls[j]) /\ calls[j].pc # "put" =>
    \A d \in (calls[j].pub \cap Of(calls[j].us)) \ crossed : Has(d)

GiveInv == Sessions /\ Giving /\ Holding /\ Given /\ MembersRead

\* Calls move on beside the pump, and no recipients are tracked.
LEMMA MetFollows ==
  ASSUME MetInv, UNCHANGED <<pump, flight, served, devicesOf, tracked>>,
         dirty \subseteq dirty', dirty' \subseteq tracked, bundles \subseteq bundles', bundles' \subseteq Machines,
         \A j \in Calls : /\ calls'[j].pc = "woken" => calls[j].pc = "woken" /\ calls'[j].gen = calls[j].gen
                          /\ Writer(calls'[j])
                          /\ \A d \in calls'[j].pub : \/ d \in calls[j].pub
                                                      \/ d \in bundles /\ d # Me /\ (UserOf[d] \in tracked => d \in devicesOf[UserOf[d]])
                          /\ calls'[j].fresh /\ AfterTrack(calls'[j]) =>
                               /\ calls[j].fresh /\ AfterTrack(calls[j]) /\ calls'[j].pub \subseteq calls[j].pub
                               /\ calls'[j].us = calls[j].us /\ calls'[j].owed = calls[j].owed
  PROVE  MetInv'
<1>1. Sole'
  BY DEF MetInv, Sole
<1>2. Writers'
  BY DEF Writers
<1>3. Asking'
  BY DEF MetInv, Asking
<1>4. Published'
  <2>1. \A d : Coming(d) => Coming(d)'
    BY DEF Coming
  <2>2. SUFFICES ASSUME NEW j \in Calls, NEW d \in calls'[j].pub
                 PROVE  d \in bundles' /\ d # Me /\ (UserOf[d] \in tracked' => Coming(d)')
    BY Zenon DEF Published
  <2>3. CASE d \in calls[j].pub
    BY <2>1, <2>3 DEF MetInv, Published
  <2>4. CASE d \in bundles /\ d # Me /\ (UserOf[d] \in tracked => d \in devicesOf[UserOf[d]])
    BY <2>4 DEF Coming
  <2>5. QED
    BY <2>2, <2>3, <2>4
<1>5. Met'
  BY DEF MetInv, Met
<1>6. QED
  BY <1>1, <1>2, <1>3, <1>4, <1>5 DEF MetInv

\* One call moves.
Mild(i) ==
  /\ \A j \in Calls : j # i => calls'[j] = calls[j]
  /\ calls'[i].op = calls[i].op /\ calls'[i].dev = calls[i].dev
  /\ calls'[i].pc # "woken" /\ (calls'[i].pc = "synced" => calls[i].op = "poll")
  /\ calls'[i].pc = "fetch" \/ calls'[i].fresh => calls[i].op \in Writing
  /\ \/ calls'[i].pub = calls[i].pub
     \/ \A d \in calls'[i].pub : d \in bundles /\ d # Me /\ (UserOf[d] \in tracked => d \in devicesOf[UserOf[d]])
  /\ calls'[i].fresh /\ AfterTrack(calls'[i]) =>
       /\ calls[i].fresh /\ AfterTrack(calls[i]) /\ calls'[i].pub = calls[i].pub
       /\ calls'[i].us = calls[i].us /\ calls'[i].owed = calls[i].owed
  /\ UNCHANGED <<pump, flight, served, devicesOf, tracked>>
  /\ dirty \subseteq dirty' /\ dirty' \subseteq tracked /\ bundles \subseteq bundles' /\ bundles' \subseteq Machines

LEMMA MildKeeps ==
  ASSUME MetInv, NEW i \in Calls, Mild(i)
  PROVE  MetInv'
<1>1. \A j \in Calls :
        /\ calls'[j].pc = "woken" => calls[j].pc = "woken" /\ calls'[j].gen = calls[j].gen
        /\ Writer(calls'[j])
  <2>1. ASSUME NEW j \in Calls
        PROVE  (calls'[j].pc = "woken" => calls[j].pc = "woken" /\ calls'[j].gen = calls[j].gen) /\ Writer(calls'[j])
    <3>1. Writer(calls[j])
      BY DEF MetInv, Writers
    <3>2. CASE j = i
      <4>1. PICK c : c = calls'[i]
        OBVIOUS
      <4>2. c.op = calls[i].op /\ c.dev = calls[i].dev /\ c.pc # "woken" /\ (c.pc = "synced" => calls[i].op = "poll")
        BY <4>1 DEF Mild
      <4>3. c.pc = "fetch" \/ c.fresh => c.op \in Writing
        BY <4>1, <4>2 DEF Mild
      <4>4. Writer(c)
        BY <3>1, <3>2, <4>2, <4>3 DEF Writer
      <4>5. QED
        BY <3>2, <4>1, <4>2, <4>4
    <3>3. CASE j # i
      BY <3>1, <3>3 DEF Mild
    <3>4. QED
      BY <3>2, <3>3
  <2>2. QED
    BY <2>1
<1>2. \A j \in Calls :
        /\ \A d \in calls'[j].pub : \/ d \in calls[j].pub
                                    \/ d \in bundles /\ d # Me /\ (UserOf[d] \in tracked => d \in devicesOf[UserOf[d]])
        /\ calls'[j].fresh /\ AfterTrack(calls'[j]) =>
             /\ calls[j].fresh /\ AfterTrack(calls[j]) /\ calls'[j].pub \subseteq calls[j].pub
             /\ calls'[j].us = calls[j].us /\ calls'[j].owed = calls[j].owed
  BY DEF Mild
<1>3. QED
  BY <1>1, <1>2, MetFollows DEF Mild

LEMMA MildSteps ==
  ASSUME PumpInv, MetInv, NEW i \in Calls,
         \/ Publish(i) \/ Ban(i) \/ BanLog(i) \/ Signal(i) \/ SendStart(i) \/ DmStart(i) \/ EditStart(i) \/ OnMembers(i) \/ FetchCrypto(i)
         \/ FetchRoster(i) \/ FetchFail(i) \/ Verdict(i) \/ Invalidate(i) \/ CheckRead(i) \/ CheckPin(i) \/ Claim(i) \/ Claimed(i)
         \/ Share(i) \/ EnsureFail(i) \/ Encrypt(i) \/ KeyPoll(i) \/ ReceiveChanges(i) \/ Failed(i)
  PROVE  Mild(i)
<1> USE DEF Mild, CallFields, AfterTrack, At, Goto, mutex, machine, keys, past, server
<1>1. DOMAIN calls = Calls /\ DOMAIN calls[i] = CallFields /\ calls[i].dev \in Machines
      /\ dirty \subseteq tracked /\ bundles \subseteq Machines /\ (calls[i].fresh => calls[i].op \in Writing)
      /\ (calls[i].pc = "fetch" => calls[i].op \in Writing)
  <2>1. DOMAIN calls = Calls /\ DOMAIN calls[i] = CallFields /\ dirty \subseteq tracked /\ bundles \subseteq Machines
    BY DEF PumpInv, PumpForms, MetInv, Asking
  <2>2. /\ calls[i].dev \in Machines /\ (calls[i].fresh => calls[i].op \in Writing)
        /\ (calls[i].pc = "fetch" => calls[i].op \in Writing)
    <3>1. PICK c : c = calls[i]
      OBVIOUS
    <3>2. Writer(c)
      BY <3>1 DEF MetInv, Writers
    <3>3. c.dev \in Machines /\ (c.fresh => c.op \in Writing) /\ (c.pc = "fetch" => c.op \in Writing)
      BY <3>2 DEF Writer
    <3>4. QED
      BY <3>1, <3>3
  <2>3. QED
    BY <2>1, <2>2
<1>2. CASE Publish(i)
  <2>1. bundles \subseteq bundles' /\ bundles' \subseteq Machines
    BY <1>1, <1>2 DEF Publish, Upload
  <2>2. QED
    BY <1>1, <1>2, <2>1 DEF Publish, Begin
<1>3. CASE Ban(i)
  BY <1>1, <1>3 DEF Ban, Begin
<1>4. CASE BanLog(i)
  BY <1>1, <1>4 DEF BanLog
<1>5. CASE Signal(i)
  BY <1>1, <1>5 DEF Signal
<1>6. CASE SendStart(i) \/ DmStart(i) \/ EditStart(i) \/ OnMembers(i)
  <2>1. PICK pc \in {"fetch", "peer"} : Start(i, pc) /\ (pc = "fetch" => calls[i].op \in Writing)
    BY <1>6 DEF SendStart, DmStart, EditStart, OnMembers, Begin, Writing
  <2>2. /\ calls'[i].pub = {d \in bundles \ {Me} : UserOf[d] \in tracked \cup dirty => d \in devicesOf[UserOf[d]]}
        /\ calls'[i].op = calls[i].op /\ calls'[i].dev = calls[i].dev /\ calls'[i].pc = pc
        /\ \A j \in Calls : j # i => calls'[j] = calls[j]
    BY <1>1, <2>1 DEF Start
  <2>3. calls'[i].fresh = calls[i].fresh
    BY <1>1, <2>1 DEF Start
  <2>4. UNCHANGED <<pump, flight, served, devicesOf, tracked, dirty, bundles>>
    BY <1>6 DEF SendStart, DmStart, EditStart, OnMembers
  <2>5. \A d \in calls'[i].pub : d \in bundles /\ d # Me /\ (UserOf[d] \in tracked => d \in devicesOf[UserOf[d]])
    BY <2>2
  <2>6. QED
    BY <1>1, <2>1, <2>2, <2>3, <2>4, <2>5
<1>7. CASE FetchCrypto(i)
  BY <1>1, <1>7 DEF FetchCrypto
<1>8. CASE FetchRoster(i)
  BY <1>1, <1>8 DEF FetchRoster
<1>9. CASE FetchFail(i)
  BY <1>1, <1>9 DEF FetchFail, Proceed
<1>10. CASE Verdict(i)
  BY <1>1, <1>10 DEF Verdict, Proceed
<1>11. CASE Invalidate(i)
  BY <1>1, <1>11 DEF Invalidate
<1>12. CASE CheckRead(i)
  BY <1>1, <1>12 DEF CheckRead, AfterCheck
<1>13. CASE CheckPin(i)
  BY <1>1, <1>13 DEF CheckPin
<1>14. CASE Claim(i)
  BY <1>1, <1>14 DEF Claim, AfterClaim
<1>15. CASE Claimed(i)
  BY <1>1, <1>15 DEF Claimed, AfterClaim
<1>16. CASE Share(i)
  BY <1>1, <1>16 DEF Share
<1>17. CASE EnsureFail(i)
  BY <1>1, <1>17 DEF EnsureFail, Caught
<1>18. CASE Encrypt(i)
  BY <1>1, <1>18 DEF Encrypt
<1>19. CASE KeyPoll(i)
  BY <1>1, <1>19 DEF KeyPoll, Begin
<1>20. CASE ReceiveChanges(i)
  <2>1. ~ calls[i].fresh
    <3>1. PICK c : c = calls[i]
      OBVIOUS
    <3>2. Writer(c) /\ c.pc = "synced"
      BY <1>20, <3>1 DEF ReceiveChanges, MetInv, Writers
    <3>3. ~ c.fresh
      BY <3>2 DEF Writer, Writing
    <3>4. QED
      BY <3>1, <3>3
  <2>2. dirty' \subseteq tracked /\ dirty \subseteq dirty'
    BY <1>1, <1>20 DEF ReceiveChanges
  <2>3. QED
    BY <1>1, <1>20, <2>1, <2>2 DEF ReceiveChanges
<1>21. CASE Failed(i)
  BY <1>1, <1>21 DEF Failed
<1>22. QED
  BY <1>2, <1>3, <1>4, <1>5, <1>6, <1>7, <1>8, <1>9, <1>10, <1>11, <1>12, <1>13, <1>14, <1>15, <1>16, <1>17, <1>18, <1>19, <1>20, <1>21

LEMMA AnswerFits ==
  ASSUME PumpInv, MetInv, NEW i \in Calls, pump[i].st = "mark"
  PROVE  /\ DOMAIN pump[i].resp \subseteq dirty /\ dirty \subseteq tracked
         /\ 1 \in DOMAIN pump[i].todo /\ Len(pump[i].todo) \in Nat
<1>1. Listed(pump[i].todo) /\ pump[i].todo # <<>>
  BY DEF PumpInv, PumpForms
<1>2. 1 \in DOMAIN pump[i].todo /\ Len(pump[i].todo) \in Nat
  BY <1>1 DEF Listed
<1>3. pump[i].todo[1].us \subseteq dirty \cup {Me}
  BY <1>2 DEF MetInv, Asking
<1>4. DOMAIN pump[i].resp = pump[i].todo[1].us \cap Users /\ dirty \subseteq tracked
  BY DEF MetInv, Asking
<1>5. Me \notin Users
  BY RoomKeysAssumption
<1>6. QED
  BY <1>2, <1>3, <1>4, <1>5

\* A call of pumpOutgoing, whose recipients are tracked by now.
LEMMA PumpCallMet ==
  ASSUME PumpInv, MetInv, NEW i \in Calls, NEW c, DOMAIN c = CallFields, NEW next, Pumps(i, c, next),
         c.op = calls[i].op, c.dev = calls[i].dev, c.pub = calls[i].pub, c.fresh = calls[i].fresh,
         tracked \subseteq tracked', tracked' \subseteq Users, dirty' = dirty \cup (tracked' \ tracked),
         UNCHANGED <<devicesOf, bundles>>,
         c.fresh /\ next \in {"check", "claim", "encrypt"} =>
           \A d \in c.pub \cap Of(c.us) : d \in devicesOf[UserOf[d]] \/ UserOf[d] \in tracked'
  PROVE  MetInv'
<1>1. DOMAIN calls = Calls /\ DOMAIN pump = Calls
  BY DEF PumpInv, PumpForms
<1>2. /\ \A j \in Calls : j # i => calls'[j] = calls[j]
      /\ calls'[i].pc = IF flight = 0 THEN "pumping" ELSE "waiting"
      /\ calls'[i].next = next /\ calls'[i].us = c.us /\ calls'[i].pub = calls[i].pub
      /\ calls'[i].op = calls[i].op /\ calls'[i].dev = calls[i].dev /\ dirty' \subseteq calls'[i].owed
  BY <1>1 DEF Pumps, CallFields
<1>3. calls'[i].fresh = calls[i].fresh
  BY <1>1 DEF Pumps, CallFields
<1>4. served' = served /\ PumpCall(i)
  BY DEF Pumps, PumpCall
<1>5. 0 \notin Calls
  <2>1. Calls = 1 .. Cardinality(Calls)
    BY RoomKeysAssumption
  <2>2. \A n : 0 \notin 1 .. n
    OBVIOUS
  <2>3. QED
    BY <2>1, <2>2
<1>6. \/ pump' = pump /\ flight' = flight
      \/ /\ flight = 0 /\ flight' = i /\ DOMAIN pump' = Calls
         /\ pump'[i].st = "loop" /\ \A j \in Calls : j # i => pump'[j] = pump[j]
  <2>1. LET p == [NoPump EXCEPT !.st = "loop"] IN p.st = "loop"
    BY DEF NoPump
  <2>2. QED
    BY <1>1, <1>4, <2>1 DEF PumpCall, StartPump
<1>7. \A j \in Calls : pump'[j].st \in {"read", "send", "mark"} => pump'[j] = pump[j]
  BY <1>6
<1>8. Sole'
  <2>1. \A j \in Calls : pump'[j].st # "off" => flight' = j
    BY <1>5, <1>6 DEF MetInv, Sole
  <2>2. \A j \in Calls : calls'[j].pc = "woken" => calls'[j].gen <= served'
    BY <1>2, <1>4 DEF MetInv, Sole
  <2>3. \A j \in Calls : pump'[j].st \in {"read", "send", "mark"} => served' <= pump'[j].gen
    BY <1>4, <1>7 DEF MetInv, Sole
  <2>4. QED
    BY <2>1, <2>2, <2>3 DEF Sole
<1>9. Writers'
  <2>1. SUFFICES ASSUME NEW j \in Calls PROVE Writer(calls'[j])
    BY DEF Writers
  <2>2. Writer(calls[j]) /\ Writer(calls[i])
    BY DEF MetInv, Writers
  <2>3. PICK r : r = calls'[i]
    OBVIOUS
  <2>4. r.pc \in {"pumping", "waiting"} /\ r.op = calls[i].op /\ r.dev = calls[i].dev
    BY <1>2, <2>3
  <2>5. r.fresh = calls[i].fresh
    BY <1>3, <2>3
  <2>6. Writer(r)
    BY <2>2, <2>4, <2>5 DEF Writer
  <2>7. QED
    BY <1>2, <2>2, <2>3, <2>6
<1>10. Asking'
  <2>1. dirty' \subseteq tracked' /\ dirty \subseteq dirty' /\ bundles' \subseteq Machines
    BY DEF MetInv, Asking
  <2>2. QED
    BY <1>7, <2>1 DEF MetInv, Asking
<1>11. Published'
  <2>1. SUFFICES ASSUME NEW j \in Calls, NEW d \in calls[j].pub, UserOf[d] \in tracked'
                 PROVE  Coming(d)'
    BY <1>2, Zenon DEF Published, MetInv
  <2>2. CASE UserOf[d] \in tracked
    <3>1. Coming(d)
      BY <2>2 DEF MetInv, Published
    <3>2. QED
      BY <1>7, <3>1 DEF Coming
  <2>3. CASE UserOf[d] \notin tracked
    <3>1. \A k \in Calls : pump[k].st = "mark" => UserOf[d] \notin DOMAIN pump[k].resp
      BY <2>3, AnswerFits
    <3>2. QED
      BY <1>7, <2>1, <2>3, <3>1 DEF Coming
  <2>4. QED
    BY <2>2, <2>3
<1>12. Met'
  <2>1. SUFFICES ASSUME NEW j \in Calls, calls'[j].fresh, AfterTrack(calls'[j]), NEW d \in calls'[j].pub \cap Of(calls'[j].us)
                 PROVE  d \in devicesOf[UserOf[d]] \/ UserOf[d] \in calls'[j].owed
    BY DEF Met
  <2>2. CASE j # i
    BY <1>2, <2>1, <2>2 DEF MetInv, Met
  <2>3. CASE j = i
    <3>1. next \in {"check", "claim", "encrypt"} /\ c.fresh
      BY <1>2, <1>3, <2>1, <2>3 DEF AfterTrack
    <3>2. d \in devicesOf[UserOf[d]] \/ UserOf[d] \in tracked'
      BY <1>2, <2>1, <2>3, <3>1
    <3>3. UserOf[d] \in tracked' => d \in devicesOf[UserOf[d]] \/ UserOf[d] \in dirty'
      BY <1>11, <2>1 DEF Published, Coming
    <3>4. QED
      BY <1>2, <2>3, <3>2, <3>3
  <2>4. QED
    BY <2>2, <2>3
<1>13. QED
  BY <1>8, <1>9, <1>10, <1>11, <1>12 DEF MetInv

LEMMA CallingMet ==
  ASSUME PumpInv, LeaveInv, MetInv, ~ capped, NEW i \in Calls,
         Track(i) \/ TrackPeer(i) \/ PutRoomKey(i) \/ Catch(i) \/ PollPump(i)
  PROVE  MetInv'
<1>1. DOMAIN calls = Calls /\ DOMAIN calls[i] = CallFields /\ calls[i].us \subseteq Users /\ calls[i].who \in Users
  BY DEF PumpInv, PumpForms, LeaveInv, Stages, StageOK
<1>2. tracked \subseteq Users /\ bundles' = bundles
  BY DEF MetInv, Asking, Track, TrackPeer, PutRoomKey, Catch, PollPump, server, keys
<1>3. CASE Track(i)
  <2> DEFINE c == [calls[i] EXCEPT !.todo = calls[i].us]
             next == IF calls[i].op = "dm" THEN "claim" ELSE "check"
  <2>1. DOMAIN c = CallFields /\ c.op = calls[i].op /\ c.dev = calls[i].dev /\ c.pub = calls[i].pub /\ c.us = calls[i].us
    BY <1>1 DEF CallFields
  <2>2. c.fresh = calls[i].fresh
    BY <1>1 DEF CallFields
  <2>3. Pumps(i, c, next) /\ tracked' = tracked \cup c.us /\ dirty' = dirty \cup (c.us \ tracked) /\ devicesOf' = devicesOf
    BY <1>3, <2>1 DEF Track, Tracks
  <2>4. \A d \in Of(c.us) : UserOf[d] \in c.us
    BY DEF Of
  <2> HIDE DEF c, next
  <2>5. tracked \subseteq tracked' /\ tracked' \subseteq Users /\ dirty' = dirty \cup (tracked' \ tracked)
    BY <1>1, <1>2, <2>1, <2>3
  <2>6. \A d \in c.pub \cap Of(c.us) : d \in devicesOf[UserOf[d]] \/ UserOf[d] \in tracked'
    BY <2>3, <2>4
  <2>7. QED
    BY <1>2, <2>1, <2>2, <2>3, <2>5, <2>6, PumpCallMet
<1>4. CASE TrackPeer(i)
  <2> DEFINE us == {calls[i].who, Myself}
             c == [calls[i] EXCEPT !.us = us]
  <2>1. DOMAIN c = CallFields /\ c.op = calls[i].op /\ c.dev = calls[i].dev /\ c.pub = calls[i].pub
    BY <1>1 DEF CallFields
  <2>2. c.fresh = calls[i].fresh
    BY <1>1 DEF CallFields
  <2>3. Pumps(i, c, "track") /\ tracked' = tracked \cup {calls[i].who} /\ dirty' = dirty \cup ({calls[i].who} \ tracked) /\ devicesOf' = devicesOf
    BY <1>4 DEF TrackPeer, Tracks
  <2> HIDE DEF c
  <2>4. tracked \subseteq tracked' /\ tracked' \subseteq Users /\ dirty' = dirty \cup (tracked' \ tracked)
    BY <1>1, <1>2, <2>3
  <2>5. QED
    BY <1>2, <2>1, <2>2, <2>3, <2>4, PumpCallMet
<1>5. CASE PutRoomKey(i)
  <2>1. Pumps(i, calls[i], IF calls[i].op = "event" THEN "done" ELSE "encrypt") /\ UNCHANGED <<tracked, dirty, devicesOf>>
    BY <1>5 DEF PutRoomKey
  <2>2. AfterTrack(calls[i]) /\ calls[i].owed = {}
    BY <1>5 DEF PutRoomKey, At, AfterTrack, PumpInv, Draining, InPump
  <2>3. calls[i].fresh => \A d \in calls[i].pub \cap Of(calls[i].us) : d \in devicesOf[UserOf[d]]
    BY <2>2 DEF MetInv, Met
  <2>4. QED
    BY <1>1, <1>2, <2>1, <2>3, PumpCallMet
<1>6. CASE Catch(i)
  <2>1. Pumps(i, calls[i], "retry") /\ UNCHANGED <<tracked, dirty, devicesOf>>
    BY <1>6 DEF Catch, machine
  <2>2. QED
    BY <1>1, <1>2, <2>1, PumpCallMet
<1>7. CASE PollPump(i)
  <2>1. Pumps(i, calls[i], "done") /\ UNCHANGED <<tracked, dirty, devicesOf>>
    BY <1>7 DEF PollPump, machine
  <2>2. QED
    BY <1>1, <1>2, <2>1, PumpCallMet
<1>8. QED
  BY <1>3, <1>4, <1>5, <1>6, <1>7

LEMMA JoinMet ==
  ASSUME PumpInv, MetInv, NEW i \in Calls, Join(i)
  PROVE  MetInv'
<1>1. \A j \in Calls : DOMAIN calls[j] = CallFields
  BY DEF PumpInv, PumpForms
<1>2. /\ calls[i].pc = "todo" /\ UNCHANGED <<pump, flight, served, devicesOf, tracked, dirty, bundles>>
      /\ calls' = [j \in Calls |-> [calls[j] EXCEPT !.pc = IF j = i THEN "signal" ELSE @, !.gone = @ \ {calls[i].who}]]
  BY DEF Join, Begin, At, mutex, machine, keys
<1>3. ASSUME NEW j \in Calls
      PROVE  /\ calls'[j].op = calls[j].op /\ calls'[j].dev = calls[j].dev /\ calls'[j].next = calls[j].next
             /\ calls'[j].gen = calls[j].gen /\ calls'[j].owed = calls[j].owed
             /\ calls'[j].us = calls[j].us /\ calls'[j].pub = calls[j].pub
             /\ calls'[j].pc = (IF j = i THEN "signal" ELSE calls[j].pc)
  BY <1>1, <1>2 DEF CallFields
<1>4. \A j \in Calls : calls'[j].fresh = calls[j].fresh
  BY <1>1, <1>2 DEF CallFields
<1>5. ASSUME NEW j \in Calls
      PROVE  Writer(calls'[j])
  <2>1. PICK r : r = calls'[j]
    OBVIOUS
  <2>2. r.op = calls[j].op /\ r.dev = calls[j].dev /\ r.pc = (IF j = i THEN "signal" ELSE calls[j].pc)
    BY <1>3, <2>1
  <2>3. r.fresh = calls[j].fresh
    BY <1>4, <2>1
  <2>4. Writer(calls[j])
    BY DEF MetInv, Writers
  <2>5. Writer(r)
    BY <2>2, <2>3, <2>4 DEF Writer
  <2>6. QED
    BY <2>1, <2>5
<1>6. \A j \in Calls : /\ calls'[j].pc = "woken" => calls[j].pc = "woken" /\ calls'[j].gen = calls[j].gen
                       /\ AfterTrack(calls'[j]) => AfterTrack(calls[j])
  BY <1>3 DEF AfterTrack
<1>7. dirty \subseteq tracked /\ bundles \subseteq Machines
  BY DEF MetInv, Asking
<1>8. QED
  BY <1>2, <1>3, <1>4, <1>5, <1>6, <1>7, MetFollows

LEMMA RoundShort ==
  /\ Len(Outgoing) <= 2 /\ (Len(Outgoing) = 2 => Outgoing[1].us = {Me})
  /\ \A k \in DOMAIN Outgoing : Outgoing[k].us \subseteq dirty \cup {Me}
<1> DEFINE up == [op |-> "upload", us |-> {Me}]
           query == [op |-> "query", us |-> dirty]
           Short(s) == /\ Len(s) <= 2 /\ (Len(s) = 2 => s[1].us = {Me})
                       /\ \A k \in DOMAIN s : s[k].us \subseteq dirty \cup {Me}
<1>1. CASE upload /\ dirty # {}
  <2>1. Outgoing = <<up>> \o <<query>>
    BY <1>1 DEF Outgoing
  <2> DEFINE s == <<up>> \o <<query>>
  <2>2. Len(s) = 2 /\ s[1] = up /\ s[2] = query /\ s \in Seq({up, query})
    <3> HIDE DEF up, query
    <3>1. QED
      OBVIOUS
  <2> HIDE DEF s
  <2>3. DOMAIN s = 1 .. 2
    BY <2>2
  <2>4. DOMAIN s = {1, 2}
    BY <2>3
  <2>5. Short(s)
    BY <2>2, <2>4
  <2>6. QED
    BY <2>1, <2>5 DEF s
<1>2. CASE upload /\ dirty = {}
  <2>1. Outgoing = <<up>>
    BY <1>2 DEF Outgoing
  <2>2. DOMAIN <<up>> = {1} /\ <<up>>[1] = up /\ Len(<<up>>) = 1
    OBVIOUS
  <2>3. QED
    BY <2>1, <2>2
<1>3. CASE ~ upload /\ dirty # {}
  <2>1. Outgoing = <<query>>
    BY <1>3 DEF Outgoing
  <2>2. DOMAIN <<query>> = {1} /\ <<query>>[1] = query /\ Len(<<query>>) = 1
    OBVIOUS
  <2>3. QED
    BY <2>1, <2>2
<1>4. CASE ~ upload /\ dirty = {}
  <2>1. Outgoing = <<>>
    BY <1>4 DEF Outgoing
  <2>2. QED
    BY <2>1
<1>5. QED
  BY <1>1, <1>2, <1>3, <1>4

\* The one pump that runs goes on; nothing else moves but the server's keys.
LEMMA RoundGoesOn ==
  ASSUME PumpInv, MetInv, NEW i \in Calls, pump[i].st # "off", \A j \in Calls : j # i => pump'[j] = pump[j],
         UNCHANGED <<calls, flight, tracked, dirty, devicesOf>>, bundles' = bundles,
         \A j \in Calls : calls[j].pc = "woken" => calls[j].gen <= served',
         pump'[i].st \in {"read", "send", "mark"} =>
           /\ served' <= pump'[i].gen
           /\ Len(pump'[i].todo) <= 2 /\ (Len(pump'[i].todo) = 2 => pump'[i].todo[1].us = {Me})
           /\ \A k \in DOMAIN pump'[i].todo : pump'[i].todo[k].us \subseteq dirty \cup {Me},
         pump'[i].st = "mark" =>
           /\ DOMAIN pump'[i].resp = pump'[i].todo[1].us \cap Users
           /\ \A u \in DOMAIN pump'[i].resp : devicesOf[u] \subseteq pump'[i].resp[u] /\ pump'[i].resp[u] = Of({u}) \cap bundles
  PROVE  MetInv'
<1>1. \A j \in Calls : j # i => pump[j].st = "off"
  BY DEF MetInv, Sole
<1>2. Sole'
  BY <1>1 DEF MetInv, Sole
<1>3. Writers'
  BY DEF MetInv, Writers
<1>4. Asking'
  <2>1. ASSUME NEW j \in Calls, pump'[j].st \in {"read", "send", "mark"}
        PROVE  /\ Len(pump'[j].todo) <= 2 /\ (Len(pump'[j].todo) = 2 => pump'[j].todo[1].us = {Me})
               /\ \A k \in DOMAIN pump'[j].todo : pump'[j].todo[k].us \subseteq dirty' \cup {Me}
    BY <1>1, <2>1
  <2>2. ASSUME NEW j \in Calls, pump'[j].st = "mark"
        PROVE  /\ DOMAIN pump'[j].resp = pump'[j].todo[1].us \cap Users
               /\ \A u \in DOMAIN pump'[j].resp : devicesOf'[u] \subseteq pump'[j].resp[u] /\ pump'[j].resp[u] \subseteq bundles'
    <3>1. j = i
      BY <1>1, <2>2
    <3>2. QED
      BY <2>2, <3>1
  <2>3. /\ tracked' \subseteq Users /\ dirty' \subseteq tracked'
        /\ bundles' \subseteq Machines /\ \A u \in Users : devicesOf'[u] \subseteq bundles'
    BY DEF MetInv, Asking
  <2>4. QED
    BY <2>1, <2>2, <2>3 DEF Asking
<1>5. Published'
  <2>1. SUFFICES ASSUME NEW j \in Calls, NEW d \in calls[j].pub, UserOf[d] \in tracked
                 PROVE  Coming(d)'
    BY Zenon DEF Published, MetInv
  <2>2. Coming(d) /\ d \in bundles /\ bundles \subseteq Machines
    BY <2>1 DEF MetInv, Published, Asking
  <2>3. d \in Of({UserOf[d]}) \cap bundles
    BY <2>2 DEF Of
  <2>4. QED
    BY <1>1, <2>2, <2>3 DEF Coming
<1>6. Met'
  BY DEF MetInv, Met
<1>7. QED
  BY <1>2, <1>3, <1>4, <1>5, <1>6 DEF MetInv

LEMMA PumpEndMet ==
  ASSUME PumpInv, LeaveInv, MetInv, NEW i \in Calls, NEW ok \in BOOLEAN, EndPump(i, ok), pump[i].st # "off",
         UNCHANGED <<tracked, dirty, devicesOf, bundles>>,
         ok => \A j \in Calls : calls[j].gen <= served',
         \A j \in Calls : calls[j].pc = "woken" => calls[j].gen <= served'
  PROVE  MetInv'
<1>1. \A j \in Calls : DOMAIN calls[j] = CallFields
  BY DEF PumpInv, PumpForms
<1>2. calls[i].pc = "pumping" /\ calls[i].next \in Nexts
  BY DEF LeaveInv, RoomForms, Stages, StageOK
<1>3. \A j \in Calls : pump'[j].st = "off"
  <2>1. NoPump.st = "off"
    BY DEF NoPump
  <2>2. \A j \in Calls : j # i => pump[j].st = "off"
    BY DEF MetInv, Sole
  <2>3. QED
    BY <2>1, <2>2 DEF EndPump, PumpInv, PumpForms
<1>4. ASSUME NEW j \in Calls
      PROVE  /\ calls'[j].op = calls[j].op /\ calls'[j].dev = calls[j].dev /\ calls'[j].next = calls[j].next
             /\ calls'[j].gen = calls[j].gen /\ calls'[j].owed = calls[j].owed
             /\ calls'[j].us = calls[j].us /\ calls'[j].pub = calls[j].pub /\ calls'[j].fresh = calls[j].fresh
             /\ calls'[j].pc = "woken" => calls[j].gen <= served'
             /\ calls'[j].pc = calls[j].pc \/ calls'[j].pc \in {"woken", "failed", "catch"} \cup Nexts
             /\ AfterTrack(calls'[j]) => AfterTrack(calls[j])
  <2>1. Caught(j) \in {"failed", "catch"}
    BY DEF Caught
  <2>2. CASE j = i
    <3>1. calls'[j] = [calls[j] EXCEPT !.pc = IF ok THEN calls[j].next ELSE Caught(j)]
      BY <2>2 DEF EndPump
    <3>2. QED
      BY <1>1, <1>2, <2>1, <2>2, <3>1 DEF CallFields, AfterTrack, Nexts
  <2>3. CASE j # i /\ calls[j].pc = "waiting" /\ i \in calls[j].was
    <3>1. calls'[j] = [calls[j] EXCEPT !.pc = IF ok THEN "woken" ELSE Caught(j)]
      BY <2>3 DEF EndPump, At
    <3>2. QED
      BY <1>1, <2>1, <2>3, <3>1 DEF CallFields, AfterTrack
  <2>4. CASE j # i /\ ~ (calls[j].pc = "waiting" /\ i \in calls[j].was)
    <3>1. calls'[j] = calls[j]
      BY <2>4 DEF EndPump, At
    <3>2. QED
      BY <3>1
  <2>5. QED
    BY <2>2, <2>3, <2>4
<1>5. Sole'
  BY <1>3, <1>4 DEF Sole
<1>6. Writers'
  <2>1. SUFFICES ASSUME NEW j \in Calls PROVE Writer(calls'[j])
    BY DEF Writers
  <2>2. PICK r : r = calls'[j]
    OBVIOUS
  <2>3. Writer(calls[j])
    BY DEF MetInv, Writers
  <2>4. r.op = calls[j].op /\ r.dev = calls[j].dev /\ (r.pc = calls[j].pc \/ r.pc \notin {"fetch", "synced"})
    BY <1>4, <2>2 DEF Nexts
  <2>5. r.fresh = calls[j].fresh
    BY <1>4, <2>2
  <2>6. Writer(r)
    BY <2>3, <2>4, <2>5 DEF Writer
  <2>7. QED
    BY <2>2, <2>6
<1>7. Asking'
  BY <1>3 DEF MetInv, Asking
<1>8. Published'
  BY <1>3, <1>4 DEF MetInv, Published, Coming
<1>9. Met'
  BY <1>4 DEF MetInv, Met
<1>10. QED
  BY <1>5, <1>6, <1>7, <1>8, <1>9 DEF MetInv

LEMMA RoundMet ==
  ASSUME PumpInv, LeaveInv, MetInv, NEW i \in Calls, ~ capped',
         PumpLoop(i) \/ PumpRead(i) \/ PumpSend(i) \/ PumpFail(i) \/ Woken(i)
  PROVE  MetInv'
<1>1. /\ DOMAIN pump = Calls /\ DOMAIN pump[i] = PumpFields /\ pump[i].gen \in Nat
      /\ requested \in Nat /\ served \in Nat /\ served <= requested
      /\ \A j \in Calls : calls[j].gen \in Nat /\ calls[j].gen <= requested
  BY DEF PumpInv, PumpForms
<1>2. \A j \in Calls : calls[j].pc = "woken" => calls[j].gen <= served
  BY DEF MetInv, Sole
<1>3. CASE PumpLoop(i)
  <2>1. pump[i].round # Rounds /\ pump[i].st = "loop"
    BY <1>3 DEF PumpLoop
  <2>2. /\ \A j \in Calls : j # i => pump'[j] = pump[j]
        /\ pump'[i].gen = requested /\ pump'[i].todo = Outgoing /\ pump'[i].st = "read"
        /\ UNCHANGED <<calls, flight, tracked, dirty, devicesOf, bundles, served>>
    BY <1>1, <1>3, <2>1 DEF PumpLoop, PumpFields, machine, server, keys
  <2>3. /\ Len(pump'[i].todo) <= 2 /\ (Len(pump'[i].todo) = 2 => pump'[i].todo[1].us = {Me})
        /\ \A k \in DOMAIN pump'[i].todo : pump'[i].todo[k].us \subseteq dirty \cup {Me}
    BY <2>2, RoundShort, Zenon
  <2>4. QED
    BY <1>1, <1>2, <2>1, <2>2, <2>3, RoundGoesOn
<1>4. CASE PumpRead(i)
  <2>1. pump[i].st = "read" /\ UNCHANGED <<tracked, dirty, devicesOf, bundles>> /\ served <= pump[i].gen
    BY <1>4 DEF PumpRead, machine, server, keys, MetInv, Sole
  <2>2. CASE pump[i].todo # <<>>
    <3>1. /\ \A j \in Calls : j # i => pump'[j] = pump[j]
          /\ pump'[i].gen = pump[i].gen /\ pump'[i].todo = pump[i].todo /\ pump'[i].st = "send"
          /\ UNCHANGED <<calls, flight, served>>
      BY <1>1, <1>4, <2>2 DEF PumpRead, PumpFields
    <3>2. /\ Len(pump[i].todo) <= 2 /\ (Len(pump[i].todo) = 2 => pump[i].todo[1].us = {Me})
          /\ \A k \in DOMAIN pump[i].todo : pump[i].todo[k].us \subseteq dirty \cup {Me}
      BY <2>1 DEF MetInv, Asking
    <3>3. pump[i].st # "off" /\ pump'[i].st # "mark" /\ served' <= pump'[i].gen
      BY <2>1, <3>1
    <3>4. /\ Len(pump'[i].todo) <= 2 /\ (Len(pump'[i].todo) = 2 => pump'[i].todo[1].us = {Me})
          /\ \A k \in DOMAIN pump'[i].todo : pump'[i].todo[k].us \subseteq dirty \cup {Me}
      BY <3>1, <3>2, Zenon
    <3>5. QED
      BY <1>2, <2>1, <3>1, <3>3, <3>4, RoundGoesOn
  <2>3. CASE pump[i].todo = <<>>
    <3>1. served' = pump[i].gen
      BY <1>4, <2>3 DEF PumpRead
    <3>2. \A j \in Calls : calls[j].pc = "woken" => calls[j].gen <= served'
      BY <1>1, <1>2, <2>1, <3>1
    <3>3. CASE requested > pump[i].gen
      <4>1. /\ \A j \in Calls : j # i => pump'[j] = pump[j]
            /\ pump'[i].st = "loop" /\ UNCHANGED <<calls, flight>>
        BY <1>1, <1>4, <2>3, <3>3 DEF PumpRead, PumpFields
      <4>2. QED
        BY <2>1, <3>2, <4>1, RoundGoesOn
    <3>4. CASE ~ (requested > pump[i].gen)
      <4>1. EndPump(i, TRUE)
        BY <1>4, <2>3, <3>4 DEF PumpRead
      <4>2. \A j \in Calls : calls[j].gen <= served'
        BY <1>1, <3>1, <3>4
      <4>3. QED
        BY <2>1, <3>2, <4>1, <4>2, PumpEndMet
    <3>5. QED
      BY <3>3, <3>4
  <2>4. QED
    BY <2>2, <2>3
<1>5. CASE PumpSend(i)
  <2> DEFINE r == Head(pump[i].todo)
             resp == [u \in r.us \cap Users |-> Of({u}) \cap bundles]
  <2>1. /\ pump[i].st = "send" /\ \A j \in Calls : j # i => pump'[j] = pump[j]
        /\ pump'[i].gen = pump[i].gen /\ pump'[i].todo = pump[i].todo /\ pump'[i].st = "mark" /\ pump'[i].resp = resp
        /\ UNCHANGED <<calls, flight, served, tracked, dirty, devicesOf>>
    BY <1>1, <1>5 DEF PumpSend, PumpFields, machine
  <2>2. bundles' = bundles
    BY <1>5 DEF PumpSend, Upload, keys
  <2>3. /\ Len(pump[i].todo) <= 2 /\ (Len(pump[i].todo) = 2 => pump[i].todo[1].us = {Me})
        /\ \A k \in DOMAIN pump[i].todo : pump[i].todo[k].us \subseteq dirty \cup {Me}
        /\ served <= pump[i].gen
    BY <2>1 DEF MetInv, Asking, Sole
  <2>4. r = pump[i].todo[1]
    BY <2>1 DEF PumpInv, PumpForms, Listed
  <2>5. \A u \in Users : devicesOf[u] \subseteq Of({u}) \cap bundles
    BY DEF LeaveInv, RoomForms, MetInv, Asking
  <2>6. /\ DOMAIN resp = pump[i].todo[1].us \cap Users
        /\ \A u \in DOMAIN resp : devicesOf[u] \subseteq resp[u] /\ resp[u] = Of({u}) \cap bundles
    BY <2>4, <2>5
  <2> HIDE DEF resp, r
  <2>7. /\ Len(pump'[i].todo) <= 2 /\ (Len(pump'[i].todo) = 2 => pump'[i].todo[1].us = {Me})
        /\ \A k \in DOMAIN pump'[i].todo : pump'[i].todo[k].us \subseteq dirty \cup {Me}
    BY <2>1, <2>3, Zenon
  <2>8. /\ DOMAIN pump'[i].resp = pump'[i].todo[1].us \cap Users
        /\ \A u \in DOMAIN pump'[i].resp : devicesOf[u] \subseteq pump'[i].resp[u] /\ pump'[i].resp[u] = Of({u}) \cap bundles
    BY <2>1, <2>6, Zenon
  <2>9. pump[i].st # "off" /\ served' <= pump'[i].gen
    BY <2>1, <2>3
  <2>10. \A j \in Calls : calls[j].pc = "woken" => calls[j].gen <= served'
    BY <1>2, <2>1
  <2>11. UNCHANGED <<calls, flight, tracked, dirty, devicesOf>> /\ \A j \in Calls : j # i => pump'[j] = pump[j]
    BY <2>1
  <2>12. QED
    BY <2>2, <2>7, <2>8, <2>9, <2>10, <2>11, RoundGoesOn
<1>6. CASE PumpFail(i)
  <2>1. /\ EndPump(i, FALSE) /\ pump[i].st # "off"
        /\ UNCHANGED <<served, tracked, dirty, devicesOf, bundles>>
    BY <1>6 DEF PumpFail, machine, server, keys
  <2>2. QED
    BY <1>2, <2>1, PumpEndMet
<1>7. CASE Woken(i)
  <2>1. calls[i].pc = "woken" /\ UNCHANGED <<tracked, dirty, devicesOf, bundles>>
    BY <1>7 DEF Woken, At, machine, server, keys
  <2>2. served >= calls[i].gen
    BY <1>1, <1>2, <2>1
  <2>3. Goto(i, calls[i].next) /\ UNCHANGED <<pump, flight, served>>
    BY <1>7, <2>2 DEF Woken, mutex
  <2>4. calls[i].next \in Nexts /\ DOMAIN calls = Calls /\ DOMAIN calls[i] = CallFields
    BY DEF LeaveInv, Stages, StageOK, PumpInv, PumpForms
  <2>5. /\ \A j \in Calls : j # i => calls'[j] = calls[j]
        /\ calls'[i].op = calls[i].op /\ calls'[i].dev = calls[i].dev /\ calls'[i].pub = calls[i].pub
        /\ calls'[i].us = calls[i].us /\ calls'[i].owed = calls[i].owed /\ calls'[i].pc = calls[i].next
    BY <2>3, <2>4 DEF Goto, CallFields
  <2>6. calls'[i].fresh = calls[i].fresh
    BY <2>3, <2>4 DEF Goto, CallFields
  <2>7. calls[i].fresh => calls[i].op \in Writing
    <3>1. PICK c : c = calls[i]
      OBVIOUS
    <3>2. Writer(c)
      BY <3>1 DEF MetInv, Writers
    <3>3. c.fresh => c.op \in Writing
      BY <3>2 DEF Writer
    <3>4. QED
      BY <3>1, <3>3
  <2>8. AfterTrack(calls'[i]) => AfterTrack(calls[i])
    BY <2>1, <2>4, <2>5 DEF AfterTrack, Nexts
  <2>9. calls'[i].pc \notin {"woken", "synced", "fetch"}
    BY <2>4, <2>5 DEF Nexts
  <2>10. dirty \subseteq tracked /\ bundles \subseteq Machines
    BY DEF MetInv, Asking
  <2>11. Mild(i)
    BY <2>1, <2>3, <2>5, <2>6, <2>7, <2>8, <2>9, <2>10 DEF Mild
  <2>12. QED
    BY <2>11, MildKeeps
<1>8. QED
  BY <1>3, <1>4, <1>5, <1>6, <1>7

LEMMA MarkMet ==
  ASSUME PumpInv, LeaveInv, MetInv, NEW i \in Calls, PumpMark(i)
  PROVE  MetInv'
<1> DEFINE r == Head(pump[i].todo)
           rest == Tail(pump[i].todo)
           resp == pump[i].resp
<1>1. /\ DOMAIN pump = Calls /\ DOMAIN pump[i] = PumpFields /\ pump[i].gen \in Nat
      /\ Listed(pump[i].todo) /\ \A j \in Calls : DOMAIN calls[j] = CallFields /\ calls[j].gen \in Nat
      /\ served \in Nat
  BY DEF PumpInv, PumpForms
<1>2. /\ pump[i].st = "mark" /\ devicesOf' = Over(resp, devicesOf)
      /\ dirty' = dirty \ (r.us \ again)
      /\ calls' = [j \in Calls |-> [calls[j] EXCEPT !.owed = @ \ r.us]]
      /\ pump' = [pump EXCEPT ![i].st = IF rest = <<>> THEN "loop" ELSE "send", ![i].todo = rest]
      /\ served' = IF rest = <<>> THEN pump[i].gen ELSE served
      /\ UNCHANGED <<flight, tracked, bundles>>
  BY DEF PumpMark, server, keys
<1>3. /\ DOMAIN resp = pump[i].todo[1].us \cap Users
      /\ \A u \in DOMAIN resp : devicesOf[u] \subseteq resp[u] /\ resp[u] \subseteq bundles
      /\ served <= pump[i].gen
  BY <1>2 DEF MetInv, Asking, Sole
<1>4. /\ Len(pump[i].todo) <= 2 /\ (Len(pump[i].todo) = 2 => pump[i].todo[1].us = {Me})
      /\ \A k \in DOMAIN pump[i].todo : pump[i].todo[k].us \subseteq dirty \cup {Me}
      /\ tracked \subseteq Users /\ dirty \subseteq tracked /\ bundles \subseteq Machines
      /\ \A u \in Users : devicesOf[u] \subseteq bundles
  BY <1>2 DEF MetInv, Asking
<1>5. /\ DOMAIN resp \subseteq dirty /\ 1 \in DOMAIN pump[i].todo /\ Len(pump[i].todo) \in Nat
      /\ r = pump[i].todo[1] /\ DOMAIN rest = 1 .. (Len(pump[i].todo) - 1) /\ Len(rest) = Len(pump[i].todo) - 1
      /\ \A k \in DOMAIN rest : k + 1 \in DOMAIN pump[i].todo /\ rest[k] = pump[i].todo[k + 1]
      /\ Len(pump[i].todo) # 0 /\ (Len(pump[i].todo) = 1 => rest = <<>>)
  <2>1. pump[i].todo \in Seq({pump[i].todo[k] : k \in DOMAIN pump[i].todo}) /\ pump[i].todo # <<>>
    BY <1>1, <1>2 DEF Listed, PumpInv, PumpForms
  <2>2. DOMAIN resp \subseteq dirty /\ 1 \in DOMAIN pump[i].todo /\ Len(pump[i].todo) \in Nat
    BY <1>2, AnswerFits
  <2> DEFINE s == pump[i].todo
             R == {s[k] : k \in DOMAIN s}
  <2>3. s \in Seq(R) /\ s # <<>>
    BY <2>1
  <2> HIDE DEF s, R
  <2>4. Head(s) = s[1] /\ DOMAIN Tail(s) = 1 .. (Len(s) - 1) /\ Len(Tail(s)) = Len(s) - 1
        /\ \A k \in DOMAIN Tail(s) : k + 1 \in DOMAIN s /\ Tail(s)[k] = s[k + 1]
    BY <2>3
  <2>5. Len(s) # 0
    BY <2>3
  <2>6. Len(s) = 1 => Tail(s) = <<>>
    <3>1. Tail(s) \in Seq(R) /\ Len(Tail(s)) = Len(s) - 1
      BY <2>3
    <3>2. Len(s) = 1 => Len(Tail(s)) = 0
      BY <3>1
    <3>3. PICK t \in Seq(R) : t = Tail(s)
      BY <3>1
    <3>4. Len(t) = 0 => t = <<>>
      BY <3>3
    <3>5. QED
      BY <3>2, <3>3, <3>4
  <2>7. QED
    BY <2>2, <2>4, <2>5, <2>6 DEF s
<1>6. Me \notin Users /\ UserOf \in [Machines -> Users]
  BY RoomKeysAssumption
<1>7. \A j \in Calls : j # i => pump[j].st = "off" /\ pump'[j] = pump[j]
  <2>1. \A j \in Calls : j # i => pump[j].st = "off"
    BY <1>2 DEF MetInv, Sole
  <2>2. \A j \in Calls : j # i => pump'[j] = pump[j]
    BY <1>1, <1>2
  <2>3. QED
    BY <2>1, <2>2
<1>8. pump'[i].st = (IF rest = <<>> THEN "loop" ELSE "send") /\ pump'[i].todo = rest /\ pump'[i].gen = pump[i].gen
  BY <1>1, <1>2 DEF PumpFields
<1>9. \A j \in Calls : /\ calls'[j].op = calls[j].op /\ calls'[j].dev = calls[j].dev /\ calls'[j].next = calls[j].next
                       /\ calls'[j].gen = calls[j].gen /\ calls'[j].owed = calls[j].owed \ r.us
                       /\ calls'[j].us = calls[j].us /\ calls'[j].pub = calls[j].pub /\ calls'[j].pc = calls[j].pc
  BY <1>1, <1>2 DEF CallFields
<1>10. \A j \in Calls : calls'[j].fresh = calls[j].fresh
  BY <1>1, <1>2 DEF CallFields
<1>11. \A u \in Users : devicesOf'[u] = (IF u \in DOMAIN resp THEN resp[u] ELSE devicesOf[u])
  BY <1>2 DEF Over, LeaveInv, RoomForms
<1>12. \A u \in Users : u \in r.us => u \in DOMAIN resp
  BY <1>3, <1>5
<1>13. ASSUME NEW d \in Machines, Coming(d)
       PROVE  d \in devicesOf'[UserOf[d]] \/ (UserOf[d] \in dirty' /\ UserOf[d] \notin DOMAIN resp)
  <2>1. UserOf[d] \in Users
    BY <1>6
  <2>2. CASE UserOf[d] \in DOMAIN resp
    BY <1>2, <1>3, <1>11, <1>13, <2>1, <2>2 DEF Coming
  <2>3. CASE UserOf[d] \notin DOMAIN resp
    BY <1>2, <1>11, <1>12, <1>13, <2>1, <2>3 DEF Coming
  <2>4. QED
    BY <2>2, <2>3
<1> HIDE DEF r, rest, resp
<1>14. Sole'
  <2>1. \A j \in Calls : pump'[j].st # "off" => flight' = j
    BY <1>2, <1>7, <1>8 DEF MetInv, Sole
  <2>2. served <= served'
    BY <1>1, <1>2, <1>3
  <2>3. \A j \in Calls : calls'[j].pc = "woken" => calls'[j].gen <= served'
    <3>1. \A j \in Calls : calls[j].pc = "woken" => calls[j].gen <= served
      BY DEF MetInv, Sole
    <3>2. served' \in Nat
      BY <1>1, <1>2
    <3>3. QED
      BY <1>1, <1>9, <2>2, <3>1, <3>2
  <2>4. \A j \in Calls : pump'[j].st \in {"read", "send", "mark"} => served' <= pump'[j].gen
    <3>1. SUFFICES ASSUME NEW j \in Calls, pump'[j].st \in {"read", "send", "mark"} PROVE served' <= pump'[j].gen
      OBVIOUS
    <3>2. j = i /\ rest # <<>>
      BY <1>7, <1>8, <3>1
    <3>3. served' = served /\ pump'[j].gen = pump[i].gen
      BY <1>2, <1>8, <3>2
    <3>4. QED
      BY <1>3, <3>3
  <2>5. QED
    BY <2>1, <2>3, <2>4 DEF Sole
<1>15. Writers'
  <2>1. SUFFICES ASSUME NEW j \in Calls PROVE Writer(calls'[j])
    BY DEF Writers
  <2>2. PICK q : q = calls'[j]
    OBVIOUS
  <2>3. Writer(calls[j])
    BY DEF MetInv, Writers
  <2>4. q.op = calls[j].op /\ q.dev = calls[j].dev /\ q.pc = calls[j].pc
    BY <1>9, <2>2
  <2>5. q.fresh = calls[j].fresh
    BY <1>10, <2>2
  <2>6. Writer(q)
    BY <2>3, <2>4, <2>5 DEF Writer
  <2>7. QED
    BY <2>2, <2>6
<1>16. Asking'
  <2>1. \A u \in Users : devicesOf'[u] \subseteq bundles
    BY <1>3, <1>4, <1>11
  <2>2. ASSUME NEW j \in Calls, pump'[j].st \in {"read", "send", "mark"}
        PROVE  /\ Len(pump'[j].todo) <= 2 /\ (Len(pump'[j].todo) = 2 => pump'[j].todo[1].us = {Me})
               /\ \A k \in DOMAIN pump'[j].todo : pump'[j].todo[k].us \subseteq dirty' \cup {Me}
    <3>1. j = i /\ rest # <<>>
      BY <1>7, <1>8, <2>2
    <3>2. Len(pump[i].todo) = 2
      <4>1. PICK n \in Nat : n = Len(pump[i].todo)
        BY <1>5
      <4>2. n # 0 /\ n # 1 /\ n <= 2
        BY <1>4, <1>5, <3>1, <4>1
      <4>3. \A k \in Nat : k # 0 /\ k # 1 /\ k <= 2 => k = 2
        OBVIOUS
      <4>4. QED
        BY <4>1, <4>2, <4>3
    <3>3. r.us = {Me} /\ Me \notin dirty
      BY <1>4, <1>5, <1>6, <3>2
    <3>4. dirty' = dirty
      BY <1>2, <3>3
    <3>5. Len(rest) = 1 /\ \A k \in DOMAIN rest : rest[k].us \subseteq dirty \cup {Me}
      BY <1>4, <1>5, <3>2
    <3>6. PICK t : t = pump'[j].todo
      OBVIOUS
    <3>7. t = rest
      BY <1>8, <3>1, <3>6
    <3>8. Len(t) = 1 /\ \A k \in DOMAIN t : t[k].us \subseteq dirty \cup {Me}
      BY <3>5, <3>7
    <3>9. QED
      BY <3>4, <3>6, <3>8
  <2>3. \A j \in Calls : pump'[j].st # "mark"
    BY <1>7, <1>8
  <2>4. QED
    BY <1>2, <1>4, <2>1, <2>2, <2>3 DEF Asking
<1>17. Published'
  <2>1. SUFFICES ASSUME NEW j \in Calls, NEW d \in calls[j].pub
                 PROVE  d \in bundles /\ d # Me /\ (UserOf[d] \in tracked => Coming(d)')
    BY <1>2, <1>9, Zenon DEF Published
  <2>2. d \in bundles /\ d # Me /\ (UserOf[d] \in tracked => Coming(d)) /\ d \in Machines
    BY <1>4, <2>1 DEF MetInv, Published
  <2>3. \A k \in Calls : pump'[k].st # "mark"
    BY <1>7, <1>8
  <2>4. QED
    BY <1>13, <2>2, <2>3 DEF Coming
<1>18. Met'
  <2>1. SUFFICES ASSUME NEW j \in Calls, calls[j].fresh, AfterTrack(calls[j]), NEW d \in calls[j].pub \cap Of(calls[j].us)
                 PROVE  d \in devicesOf'[UserOf[d]] \/ UserOf[d] \in calls[j].owed \ r.us
    BY <1>9, <1>10 DEF Met, AfterTrack
  <2>2. d \in devicesOf[UserOf[d]] \/ UserOf[d] \in calls[j].owed
    BY <2>1 DEF MetInv, Met
  <2>3. d \in Machines /\ UserOf[d] \in Users /\ (UserOf[d] \in tracked => Coming(d))
    BY <1>4, <1>6, <2>1 DEF MetInv, Published
  <2>4. CASE d \in devicesOf[UserOf[d]]
    BY <1>3, <1>11, <2>3, <2>4
  <2>5. CASE UserOf[d] \in r.us
    <3>1. UserOf[d] \in DOMAIN resp /\ UserOf[d] \in tracked
      BY <1>4, <1>5, <1>12, <2>3, <2>5 DEF resp
    <3>2. QED
      BY <1>13, <2>3, <3>1
  <2>6. QED
    BY <2>2, <2>4, <2>5
<1>19. QED
  BY <1>14, <1>15, <1>16, <1>17, <1>18 DEF MetInv

LEMMA MetSteps ==
  ASSUME PumpInv, LeaveInv, MetInv, ~ capped, ~ capped', [KeysNext]_keysVars
  PROVE  MetInv'
<1>1. CASE UNCHANGED keysVars
  <2>1. UNCHANGED <<calls, pump, flight, served, devicesOf, tracked, dirty, bundles>>
    BY <1>1 DEF keysVars, server, machine, mutex, keys
  <2>2. QED
    BY <2>1 DEF MetInv, Sole, Writers, Asking, Published, Coming, Met
<1>2. CASE KeysNext
  BY <1>2, MildSteps, MildKeeps, JoinMet, CallingMet, RoundMet, MarkMet DEF KeysNext
<1>3. QED
  BY <1>1, <1>2

\* The calls move on, and none of them claims, shares, puts or writes.
LEMMA GiveFollows ==
  ASSUME GiveInv, UNCHANGED <<inbox, msgs, lapped, olm, crossed>>,
         out'.sid = out.sid, out'.idx = out.idx, out'.holders = out.holders,
         \A j \in Calls :
           /\ calls'[j].pc = "claimed" \/ calls'[j].pc = "put" =>
                calls'[j].pc = calls[j].pc /\ calls'[j].b = calls[j].b /\ calls'[j].was = calls[j].was
           /\ calls'[j].pc = "share" /\ calls'[j].fresh => calls[j].pc = "share"
           /\ Shared(calls'[j]) /\ calls'[j].pc # "put" => Shared(calls[j]) /\ calls[j].pc # "put"
           /\ calls'[j].fresh /\ (calls'[j].pc \in {"claimed", "share"} \/ Shared(calls'[j])) =>
                calls[j].fresh /\ calls'[j].pub = calls[j].pub /\ calls'[j].us = calls[j].us
  PROVE  GiveInv'
<1>1. Sessions'
  BY DEF GiveInv, Sessions
<1>2. Giving'
  BY DEF GiveInv, Giving, Shared
<1>3. Holding'
  BY DEF GiveInv, Holding, Has
<1>4. Given'
  BY DEF GiveInv, Given, Has
<1>5. MembersRead'
  BY DEF GiveInv, MembersRead, Reads
<1>6. QED
  BY <1>1, <1>2, <1>3, <1>4, <1>5 DEF GiveInv

\* One call moves so.
Aside(i) ==
  /\ \A j \in Calls : j # i => calls'[j] = calls[j]
  /\ calls'[i].pc \notin {"claimed", "put"}
  /\ calls'[i].pc = "share" => ~ calls'[i].fresh
  /\ Shared(calls'[i]) => /\ Shared(calls[i]) /\ calls[i].pc # "put" /\ calls'[i].fresh = calls[i].fresh
                          /\ calls'[i].pub = calls[i].pub /\ calls'[i].us = calls[i].us
  /\ UNCHANGED <<inbox, msgs, lapped, olm, crossed>>
  /\ out'.sid = out.sid /\ out'.idx = out.idx /\ out'.holders = out.holders

LEMMA AsideKeeps ==
  ASSUME GiveInv, NEW i \in Calls, Aside(i)
  PROVE  GiveInv'
<1>1. \A j \in Calls :
        /\ calls'[j].pc = "claimed" \/ calls'[j].pc = "put" =>
             calls'[j].pc = calls[j].pc /\ calls'[j].b = calls[j].b /\ calls'[j].was = calls[j].was
        /\ calls'[j].pc = "share" /\ calls'[j].fresh => calls[j].pc = "share"
        /\ Shared(calls'[j]) /\ calls'[j].pc # "put" => Shared(calls[j]) /\ calls[j].pc # "put"
  BY DEF Aside
<1>2. \A j \in Calls :
        calls'[j].fresh /\ (calls'[j].pc \in {"claimed", "share"} \/ Shared(calls'[j])) =>
          calls[j].fresh /\ calls'[j].pub = calls[j].pub /\ calls'[j].us = calls[j].us
  BY DEF Aside
<1>3. QED
  BY <1>1, <1>2, GiveFollows DEF Aside

LEMMA Unfresh ==
  ASSUME MetInv, NEW i \in Calls, calls[i].op = "dm" \/ calls[i].op = "poll"
  PROVE  ~ calls[i].fresh
<1>1. PICK c : c = calls[i]
  OBVIOUS
<1>2. Writer(c) /\ (c.op = "dm" \/ c.op = "poll")
  BY <1>1 DEF MetInv, Writers
<1>3. ~ c.fresh
  BY <1>2 DEF Writer, Writing
<1>4. QED
  BY <1>1, <1>3

LEMMA AsideSteps ==
  ASSUME PumpInv, LeaveInv, MetInv, NEW i \in Calls,
         \/ Publish(i) \/ Ban(i) \/ BanLog(i) \/ Signal(i) \/ SendStart(i) \/ DmStart(i) \/ EditStart(i) \/ OnMembers(i) \/ FetchCrypto(i)
         \/ FetchRoster(i) \/ FetchFail(i) \/ Verdict(i) \/ Invalidate(i) \/ CheckRead(i) \/ CheckPin(i)
         \/ EnsureFail(i) \/ KeyPoll(i) \/ ReceiveChanges(i) \/ Failed(i)
         \/ Track(i) \/ TrackPeer(i) \/ Catch(i) \/ PollPump(i)
  PROVE  Aside(i)
<1> USE DEF Aside, CallFields, Shared, At, Goto, mutex, machine, keys, past, server, gate
<1>1. DOMAIN calls = Calls /\ DOMAIN calls[i] = CallFields
  BY DEF PumpInv, PumpForms
<1>2. CASE Publish(i)
  BY <1>1, <1>2 DEF Publish, Begin
<1>3. CASE Ban(i)
  BY <1>1, <1>3 DEF Ban, Begin
<1>4. CASE BanLog(i)
  BY <1>1, <1>4 DEF BanLog
<1>5. CASE Signal(i)
  BY <1>1, <1>5 DEF Signal
<1>6. CASE SendStart(i) \/ DmStart(i) \/ EditStart(i) \/ OnMembers(i)
  <2>1. PICK pc \in {"fetch", "peer"} : Start(i, pc)
    BY <1>6 DEF SendStart, DmStart, EditStart, OnMembers
  <2>2. calls'[i].pc = pc /\ \A j \in Calls : j # i => calls'[j] = calls[j]
    BY <1>1, <2>1 DEF Start
  <2>3. UNCHANGED <<inbox, msgs, lapped, olm, crossed, out>>
    BY <1>6 DEF SendStart, DmStart, EditStart, OnMembers
  <2>4. QED
    BY <2>1, <2>2, <2>3
<1>7. CASE FetchCrypto(i)
  BY <1>1, <1>7 DEF FetchCrypto
<1>8. CASE FetchRoster(i)
  BY <1>1, <1>8 DEF FetchRoster
<1>9. CASE FetchFail(i)
  BY <1>1, <1>9 DEF FetchFail, Proceed
<1>10. CASE Verdict(i)
  BY <1>1, <1>10 DEF Verdict, Proceed
<1>11. CASE Invalidate(i)
  <2>1. out'.sid = out.sid /\ out'.idx = out.idx /\ out'.holders = out.holders
    BY <1>11 DEF Invalidate, LeaveInv, RoomForms, OutFields
  <2>2. QED
    BY <1>1, <1>11, <2>1 DEF Invalidate
<1>12. CASE CheckRead(i)
  <2>1. calls'[i].pc \in {"check", "pin", "claim", "share"} /\ \A j \in Calls : j # i => calls'[j] = calls[j]
    BY <1>1, <1>12 DEF CheckRead, AfterCheck
  <2>2. calls'[i].pc = "share" => calls[i].op = "dm"
    BY <1>1, <1>12 DEF CheckRead, AfterCheck
  <2>3. calls'[i].fresh = calls[i].fresh
    BY <1>1, <1>12 DEF CheckRead, AfterCheck
  <2>4. calls'[i].pc = "share" => ~ calls'[i].fresh
    BY <2>2, <2>3, Unfresh
  <2>5. QED
    BY <1>12, <2>1, <2>4 DEF CheckRead
<1>13. CASE CheckPin(i)
  BY <1>1, <1>13 DEF CheckPin
<1>14. CASE EnsureFail(i)
  BY <1>1, <1>14 DEF EnsureFail, Caught
<1>15. CASE KeyPoll(i)
  BY <1>1, <1>15 DEF KeyPoll, Begin
<1>16. CASE ReceiveChanges(i)
  BY <1>1, <1>16 DEF ReceiveChanges
<1>17. CASE Failed(i)
  BY <1>1, <1>17 DEF Failed
<1>18. CASE Track(i)
  BY <1>1, <1>18 DEF Track, Tracks, Pumps
<1>19. CASE TrackPeer(i)
  BY <1>1, <1>19 DEF TrackPeer, Tracks, Pumps
<1>20. CASE Catch(i)
  BY <1>1, <1>20 DEF Catch, Pumps
<1>21. CASE PollPump(i)
  BY <1>1, <1>21 DEF PollPump, Pumps
<1>22. QED
  BY <1>2, <1>3, <1>4, <1>5, <1>6, <1>7, <1>8, <1>9, <1>10, <1>11, <1>12, <1>13, <1>14, <1>15, <1>16, <1>17, <1>18, <1>19, <1>20, <1>21

LEMMA JoinGives ==
  ASSUME PumpInv, GiveInv, NEW i \in Calls, Join(i)
  PROVE  GiveInv'
<1>1. \A j \in Calls : DOMAIN calls[j] = CallFields
  BY DEF PumpInv, PumpForms
<1>2. /\ UNCHANGED <<inbox, msgs, lapped, olm, crossed, out>>
      /\ calls' = [j \in Calls |-> [calls[j] EXCEPT !.pc = IF j = i THEN "signal" ELSE @, !.gone = @ \ {calls[i].who}]]
  BY DEF Join, machine, past
<1>3. \A j \in Calls : /\ calls'[j].b = calls[j].b /\ calls'[j].was = calls[j].was /\ calls'[j].next = calls[j].next
                       /\ calls'[j].us = calls[j].us /\ calls'[j].pub = calls[j].pub
                       /\ calls'[j].pc = (IF j = i THEN "signal" ELSE calls[j].pc)
  BY <1>1, <1>2 DEF CallFields
<1>4. \A j \in Calls : calls'[j].fresh = calls[j].fresh
  BY <1>1, <1>2 DEF CallFields
<1>5. \A j \in Calls : Shared(calls'[j]) => Shared(calls[j])
  BY <1>3 DEF Shared
<1>6. \A j \in Calls :
        /\ calls'[j].pc = "claimed" \/ calls'[j].pc = "put" =>
             calls'[j].pc = calls[j].pc /\ calls'[j].b = calls[j].b /\ calls'[j].was = calls[j].was
        /\ calls'[j].pc = "share" /\ calls'[j].fresh => calls[j].pc = "share"
        /\ Shared(calls'[j]) /\ calls'[j].pc # "put" => Shared(calls[j]) /\ calls[j].pc # "put"
  <2>1. \A j \in Calls : Shared(calls'[j]) /\ calls'[j].pc # "put" => calls[j].pc # "put"
    BY <1>3 DEF Shared
  <2>2. QED
    BY <1>3, <1>5, <2>1
<1>7. \A j \in Calls :
        calls'[j].fresh /\ (calls'[j].pc \in {"claimed", "share"} \/ Shared(calls'[j])) =>
          calls[j].fresh /\ calls'[j].pub = calls[j].pub /\ calls'[j].us = calls[j].us
  BY <1>3, <1>4
<1>8. QED
  BY <1>2, <1>6, <1>7, GiveFollows

LEMMA PumpsAside ==
  ASSUME PumpInv, LeaveInv, GiveInv, NEW i \in Calls,
         PumpLoop(i) \/ PumpRead(i) \/ PumpSend(i) \/ PumpFail(i) \/ PumpMark(i) \/ Woken(i)
  PROVE  GiveInv'
<1>1. \A j \in Calls : DOMAIN calls[j] = CallFields /\ calls[j].next \in Nexts
  BY DEF PumpInv, PumpForms, LeaveInv, Stages, StageOK
<1>2. UNCHANGED <<inbox, msgs, lapped, olm, crossed, out>> /\ DOMAIN calls = Calls
  BY DEF PumpLoop, PumpRead, PumpSend, PumpFail, PumpMark, Woken, machine, past, server, PumpInv, PumpForms
<1>3. pump[i].st # "off" => calls[i].pc = "pumping"
  BY DEF LeaveInv, RoomForms
<1>4. \/ \E ok \in BOOLEAN : EndPump(i, ok) /\ calls[i].pc = "pumping"
      \/ calls' = calls
      \/ calls' = [j \in Calls |-> [calls[j] EXCEPT !.owed = @ \ Head(pump[i].todo).us]]
      \/ calls[i].pc = "woken" /\ (Goto(i, calls[i].next) \/ Goto(i, "pumping"))
  BY <1>3 DEF PumpLoop, PumpRead, PumpSend, PumpFail, PumpMark, Woken, At
<1>5. ASSUME NEW j \in Calls
      PROVE  /\ calls'[j].us = calls[j].us /\ calls'[j].pub = calls[j].pub /\ calls'[j].next = calls[j].next
             /\ calls'[j].fresh = calls[j].fresh /\ calls'[j].b = calls[j].b /\ calls'[j].was = calls[j].was
             /\ calls'[j].pc = calls[j].pc \/ calls'[j].pc \notin {"claimed", "put", "share"}
             /\ Shared(calls'[j]) /\ calls'[j].pc # "put" => Shared(calls[j]) /\ calls[j].pc # "put"
  <2>1. CASE \E ok \in BOOLEAN : EndPump(i, ok) /\ calls[i].pc = "pumping"
    <3>1. PICK ok \in BOOLEAN : EndPump(i, ok) /\ calls[i].pc = "pumping"
      BY <2>1
    <3>2. Caught(j) \in {"failed", "catch"}
      BY DEF Caught
    <3>3. CASE j = i
      <4>1. calls'[j] = [calls[j] EXCEPT !.pc = IF ok THEN calls[j].next ELSE Caught(j)]
        BY <3>1, <3>3 DEF EndPump
      <4>2. QED
        BY <1>1, <3>1, <3>2, <3>3, <4>1 DEF CallFields, Shared, Nexts
    <3>4. CASE j # i /\ calls[j].pc = "waiting" /\ i \in calls[j].was
      <4>1. calls'[j] = [calls[j] EXCEPT !.pc = IF ok THEN "woken" ELSE Caught(j)]
        BY <3>1, <3>4 DEF EndPump, At
      <4>2. QED
        BY <1>1, <3>2, <3>4, <4>1 DEF CallFields, Shared
    <3>5. CASE j # i /\ ~ (calls[j].pc = "waiting" /\ i \in calls[j].was)
      <4>1. calls'[j] = calls[j]
        BY <3>1, <3>5 DEF EndPump, At
      <4>2. QED
        BY <4>1
    <3>6. QED
      BY <3>3, <3>4, <3>5
  <2>2. CASE calls' = calls
    BY <2>2
  <2>3. CASE calls' = [k \in Calls |-> [calls[k] EXCEPT !.owed = @ \ Head(pump[i].todo).us]]
    <3>1. /\ calls'[j].us = calls[j].us /\ calls'[j].pub = calls[j].pub /\ calls'[j].next = calls[j].next
          /\ calls'[j].b = calls[j].b /\ calls'[j].was = calls[j].was /\ calls'[j].pc = calls[j].pc
      BY <1>1, <2>3 DEF CallFields
    <3>2. calls'[j].fresh = calls[j].fresh
      BY <1>1, <2>3 DEF CallFields
    <3>3. QED
      BY <3>1, <3>2 DEF Shared
  <2>4. CASE calls[i].pc = "woken" /\ (Goto(i, calls[i].next) \/ Goto(i, "pumping"))
    BY <1>1, <1>2, <2>4 DEF Goto, CallFields, Shared, Nexts
  <2>5. QED
    BY <1>4, <2>1, <2>2, <2>3, <2>4
<1>6. QED
  BY <1>2, <1>5, GiveFollows

LEMMA Knows ==
  ASSUME PumpInv, MetInv, ~ capped, NEW i \in Calls, calls[i].fresh, calls[i].pc \in {"claim", "claimed", "share", "put"}
  PROVE  calls[i].pub \cap Of(calls[i].us) \subseteq KnownOf(calls[i].us) \ {Me}
<1>1. SUFFICES ASSUME NEW d \in calls[i].pub \cap Of(calls[i].us)
               PROVE  d # Me /\ d \in devicesOf[UserOf[d]] /\ UserOf[d] \in calls[i].us
  BY DEF KnownOf
<1>2. calls[i].owed = {} /\ AfterTrack(calls[i])
  BY DEF PumpInv, Draining, InPump, AfterTrack
<1>3. d # Me
  BY <1>1 DEF MetInv, Published
<1>4. d \in devicesOf[UserOf[d]]
  BY <1>1, <1>2 DEF MetInv, Met
<1>5. UserOf[d] \in calls[i].us
  BY <1>1 DEF Of
<1>6. QED
  BY <1>3, <1>4, <1>5

LEMMA ClaimGives ==
  ASSUME PumpInv, MetInv, GiveInv, ~ capped, NEW i \in Calls, Claim(i)
  PROVE  GiveInv'
<1>1. DOMAIN calls = Calls /\ DOMAIN calls[i] = CallFields
  BY DEF PumpInv, PumpForms
<1>2. calls[i].pc = "claim" /\ UNCHANGED <<inbox, msgs, lapped, olm, crossed, out>>
  BY DEF Claim, At, machine, past
<1>3. /\ \A j \in Calls : j # i => calls'[j] = calls[j]
      /\ calls'[i].us = calls[i].us /\ calls'[i].pub = calls[i].pub
      /\ \/ calls'[i].pc \in {"check", "share"} /\ Missing(i) = {}
         \/ calls'[i].pc = "claimed" /\ DOMAIN calls'[i].b = Missing(i)
  BY <1>1 DEF Claim, Goto, CallFields, AfterClaim
<1>4. calls'[i].fresh = calls[i].fresh
  BY <1>1 DEF Claim, Goto, CallFields
<1>5. calls[i].fresh => calls[i].pub \cap Of(calls[i].us) \subseteq DOMAIN olm \cup Missing(i)
  <2>1. calls[i].fresh => calls[i].pub \cap Of(calls[i].us) \subseteq KnownOf(calls[i].us) \ {Me}
    BY <1>2, Knows
  <2>2. QED
    BY <2>1 DEF Missing
<1> HIDE DEF Missing
<1>6. Sessions'
  <2>1. \A d \in DOMAIN olm' \ crossed' : olm'[d] = d
    BY <1>2 DEF GiveInv, Sessions
  <2>2. ASSUME NEW j \in Calls, calls'[j].fresh
        PROVE  /\ calls'[j].pc = "claimed" => \A d \in calls'[j].pub \cap Of(calls'[j].us) : d \in DOMAIN olm' \cup DOMAIN calls'[j].b
               /\ calls'[j].pc = "share" => calls'[j].pub \cap Of(calls'[j].us) \subseteq DOMAIN olm'
    <3>1. CASE j = i
      BY <1>2, <1>3, <1>4, <1>5, <2>2, <3>1
    <3>2. CASE j # i
      BY <1>2, <1>3, <2>2, <3>2 DEF GiveInv, Sessions
    <3>3. QED
      BY <3>1, <3>2
  <2>3. QED
    BY <2>1, <2>2 DEF Sessions
<1>7. \A j \in Calls : /\ calls'[j].pc = "put" => calls'[j] = calls[j]
                       /\ Shared(calls'[j]) => calls'[j] = calls[j]
  BY <1>3 DEF Shared
<1>8. Giving'
  BY <1>2, <1>7 DEF GiveInv, Giving
<1>9. Holding' /\ MembersRead'
  BY <1>2 DEF GiveInv, Holding, Has, MembersRead, Reads
<1>10. Given'
  BY <1>2, <1>7 DEF GiveInv, Given, Has
<1>11. QED
  BY <1>6, <1>8, <1>9, <1>10 DEF GiveInv

LEMMA ClaimedGives ==
  ASSUME PumpInv, GiveInv, NEW i \in Calls, Claimed(i)
  PROVE  GiveInv'
<1> DEFINE b == calls[i].b
<1>1. DOMAIN calls = Calls /\ DOMAIN calls[i] = CallFields
  BY DEF PumpInv, PumpForms
<1>2. /\ calls[i].pc = "claimed" /\ UNCHANGED <<inbox, msgs, lapped, out>> /\ olm' = Over(b, olm)
      /\ crossed' = crossed \cup {d \in DOMAIN b : b[d] # d}
  BY DEF Claimed, At, server
<1>3. /\ \A j \in Calls : j # i => calls'[j] = calls[j]
      /\ calls'[i].us = calls[i].us /\ calls'[i].pub = calls[i].pub /\ calls'[i].pc \in {"check", "share"}
  BY <1>1 DEF Claimed, Goto, CallFields, AfterClaim
<1>4. calls'[i].fresh = calls[i].fresh
  BY <1>1 DEF Claimed, Goto, CallFields
<1>5. /\ DOMAIN olm' = DOMAIN b \cup DOMAIN olm
      /\ \A d \in DOMAIN olm' : olm'[d] = IF d \in DOMAIN b THEN b[d] ELSE olm[d]
  BY <1>2 DEF Over
<1>6. Sessions'
  <2>1. \A d \in DOMAIN olm' \ crossed' : olm'[d] = d
    BY <1>2, <1>5 DEF GiveInv, Sessions
  <2>2. ASSUME NEW j \in Calls, calls'[j].fresh
        PROVE  /\ calls'[j].pc = "claimed" => \A d \in calls'[j].pub \cap Of(calls'[j].us) : d \in DOMAIN olm' \cup DOMAIN calls'[j].b
               /\ calls'[j].pc = "share" => calls'[j].pub \cap Of(calls'[j].us) \subseteq DOMAIN olm'
    <3>1. CASE j = i
      BY <1>2, <1>3, <1>4, <1>5, <2>2, <3>1 DEF GiveInv, Sessions
    <3>2. CASE j # i
      BY <1>3, <1>5, <2>2, <3>2 DEF GiveInv, Sessions
    <3>3. QED
      BY <3>1, <3>2
  <2>3. QED
    BY <2>1, <2>2 DEF Sessions
<1>7. \A j \in Calls : /\ calls'[j].pc = "put" => calls'[j] = calls[j]
                       /\ Shared(calls'[j]) => calls'[j] = calls[j]
  BY <1>3 DEF Shared
<1>8. Giving'
  BY <1>2, <1>5, <1>7 DEF GiveInv, Giving
<1>9. Holding' /\ MembersRead'
  BY <1>2 DEF GiveInv, Holding, Has, MembersRead, Reads
<1>10. Given'
  BY <1>2, <1>7 DEF GiveInv, Given, Has
<1>11. QED
  BY <1>6, <1>8, <1>9, <1>10 DEF GiveInv

LEMMA ShareGives ==
  ASSUME PumpInv, LeaveInv, MetInv, GiveInv, ~ capped, NEW i \in Calls, Share(i)
  PROVE  GiveInv'
<1> DEFINE us == calls[i].us
           rotate == out.sid = 0 \/ out.invalid \/ ~(out.users \subseteq us)
           sess == IF rotate THEN [sid |-> out.sid + 1, idx |-> 0, users |-> us, holders |-> {}, invalid |-> FALSE]
                  ELSE [out EXCEPT !.users = us]
           to == (KnownOf(us) \cap DOMAIN olm) \ (sess.holders \cup {Me})
<1>1. /\ DOMAIN calls = Calls /\ DOMAIN calls[i] = CallFields
      /\ DOMAIN out = OutFields /\ out.sid \in Nat /\ out.idx \in Nat
  BY DEF PumpInv, PumpForms, LeaveInv, RoomForms
<1>2. /\ calls[i].pc = "share" /\ out' = sess /\ lapped' = (lapped \cup Calls) \ {i}
      /\ UNCHANGED <<inbox, msgs, olm, crossed>>
  BY DEF Share, At, server
<1>3. /\ \A j \in Calls : j # i => calls'[j] = calls[j]
      /\ calls'[i].us = us /\ calls'[i].pub = calls[i].pub /\ calls'[i].pc = "put"
      /\ calls'[i].b = [sid |-> sess.sid, idx |-> sess.idx] /\ calls'[i].was = to
  BY <1>1 DEF Share, CallFields
<1>4. calls'[i].fresh = calls[i].fresh
  BY <1>1 DEF Share, CallFields
<1>5. \/ sess.sid = out.sid /\ sess.idx = out.idx /\ sess.holders = out.holders
      \/ sess.sid = out.sid + 1 /\ sess.holders = {}
  <2>1. CASE rotate
    <3>1. sess = [sid |-> out.sid + 1, idx |-> 0, users |-> us, holders |-> {}, invalid |-> FALSE]
      BY <2>1
    <3>2. QED
      BY <3>1
  <2>2. CASE ~ rotate
    <3>1. sess = [out EXCEPT !.users = us]
      BY <2>2
    <3>2. QED
      BY <1>1, <3>1 DEF OutFields
  <2>3. QED
    BY <2>1, <2>2
<1>6. calls[i].fresh => calls[i].pub \cap Of(us) \subseteq to \cup sess.holders
  <2>1. calls[i].fresh => calls[i].pub \cap Of(us) \subseteq KnownOf(us) \ {Me}
    BY <1>2, Knows
  <2>2. calls[i].fresh => calls[i].pub \cap Of(us) \subseteq DOMAIN olm
    BY <1>2 DEF GiveInv, Sessions
  <2> HIDE DEF sess
  <2>3. QED
    BY <2>1, <2>2
<1>7. to \subseteq DOMAIN olm
  OBVIOUS
<1> HIDE DEF sess, to, rotate
<1>8. Sessions'
  <2>1. \A j \in Calls : calls'[j].pc \in {"claimed", "share"} => calls'[j] = calls[j]
    BY <1>3
  <2>2. QED
    BY <1>2, <2>1 DEF GiveInv, Sessions
<1>9. Giving'
  <2>1. \A j \in Calls : calls'[j].pc = "put" => calls'[j].was \subseteq DOMAIN olm
    BY <1>3, <1>7 DEF GiveInv, Giving
  <2>2. ASSUME NEW j \in Calls \ lapped', calls'[j].pc = "put"
        PROVE  /\ calls'[j].b.sid = out'.sid
               /\ calls'[j].fresh => calls'[j].pub \cap Of(calls'[j].us) \subseteq calls'[j].was \cup out'.holders
    <3>1. j = i
      BY <1>2, <2>2
    <3>2. calls'[i].b.sid = sess.sid
      BY <1>3
    <3>3. calls'[i].fresh => calls'[i].pub \cap Of(calls'[i].us) \subseteq to \cup sess.holders
      BY <1>3, <1>4, <1>6
    <3>4. QED
      BY <1>2, <1>3, <3>1, <3>2, <3>3
  <2>3. QED
    BY <1>2, <2>1, <2>2 DEF Giving
<1>10. Holding'
  <2>1. CASE sess.sid = out.sid /\ sess.idx = out.idx /\ sess.holders = out.holders
    BY <1>2, <2>1 DEF GiveInv, Holding, Has
  <2>2. CASE sess.sid = out.sid + 1 /\ sess.holders = {}
    <3>1. \A d \in Machines : out.sid + 1 \notin DOMAIN inbox[d]
      <4>1. \A d \in Machines : \A x \in DOMAIN inbox[d] : x \in Nat /\ x <= out.sid
        BY DEF LeaveInv, InSession
      <4>2. ~ (out.sid + 1 <= out.sid)
        BY <1>1
      <4>3. QED
        BY <4>1, <4>2
    <3>2. QED
      BY <1>2, <2>2, <3>1 DEF Holding, Has
  <2>3. QED
    BY <1>5, <2>1, <2>2
<1>11. Given'
  <2>1. \A j \in Calls \ lapped' : calls'[j].pc = "put"
    BY <1>2, <1>3
  <2>2. QED
    BY <2>1 DEF Given
<1>12. MembersRead'
  BY <1>2 DEF GiveInv, MembersRead, Reads
<1>13. QED
  BY <1>8, <1>9, <1>10, <1>11, <1>12 DEF GiveInv

LEMMA PutGives ==
  ASSUME PumpInv, LeaveInv, GiveInv, NEW i \in Calls, PutRoomKey(i)
  PROVE  GiveInv'
<1> DEFINE s == calls[i].b
           next == IF calls[i].op = "event" THEN "done" ELSE "encrypt"
<1>1. /\ DOMAIN calls = Calls /\ DOMAIN calls[i] = CallFields /\ DOMAIN out = OutFields
  BY DEF PumpInv, PumpForms, LeaveInv, RoomForms
<1>2. /\ calls[i].pc = "put" /\ UNCHANGED <<msgs, lapped, olm, crossed>>
      /\ inbox' = [d \in Machines |->
           IF d \in calls[i].was /\ olm[d] = d /\ s.sid \notin DOMAIN inbox[d]
           THEN Over([x \in {s.sid} |-> s.idx], inbox[d]) ELSE inbox[d]]
      /\ out' = IF out.sid = s.sid THEN [out EXCEPT !.holders = @ \cup calls[i].was] ELSE out
      /\ Pumps(i, calls[i], next)
  BY DEF PutRoomKey, At, past
<1>3. out'.sid = out.sid /\ out'.idx = out.idx /\ out'.holders = (IF out.sid = s.sid THEN out.holders \cup calls[i].was ELSE out.holders)
  BY <1>1, <1>2 DEF OutFields
<1> HIDE DEF next
<1>4. /\ \A j \in Calls : j # i => calls'[j] = calls[j]
      /\ calls'[i].us = calls[i].us /\ calls'[i].pub = calls[i].pub /\ calls'[i].pc \in {"pumping", "waiting"}
  BY <1>1, <1>2 DEF Pumps, CallFields
<1>5. calls'[i].fresh = calls[i].fresh
  BY <1>1, <1>2 DEF Pumps, CallFields
<1>6. \A d \in Machines :
        /\ \A x \in DOMAIN inbox[d] : x \in DOMAIN inbox'[d] /\ inbox'[d][x] = inbox[d][x]
        /\ \A x \in DOMAIN inbox'[d] : x \in DOMAIN inbox[d] \/ (x = s.sid /\ inbox'[d][x] = s.idx)
        /\ d \in calls[i].was /\ olm[d] = d => s.sid \in DOMAIN inbox'[d]
  <2>1. SUFFICES ASSUME NEW d \in Machines
                 PROVE  /\ \A x \in DOMAIN inbox[d] : x \in DOMAIN inbox'[d] /\ inbox'[d][x] = inbox[d][x]
                        /\ \A x \in DOMAIN inbox'[d] : x \in DOMAIN inbox[d] \/ (x = s.sid /\ inbox'[d][x] = s.idx)
                        /\ d \in calls[i].was /\ olm[d] = d => s.sid \in DOMAIN inbox'[d]
    OBVIOUS
  <2>2. CASE d \in calls[i].was /\ olm[d] = d /\ s.sid \notin DOMAIN inbox[d]
    <3>1. inbox'[d] = Over([y \in {s.sid} |-> s.idx], inbox[d])
      BY <1>2, <2>2
    <3>2. QED
      BY <2>2, <3>1 DEF Over
  <2>3. CASE ~ (d \in calls[i].was /\ olm[d] = d /\ s.sid \notin DOMAIN inbox[d])
    <3>1. inbox'[d] = inbox[d]
      BY <1>2, <2>3
    <3>2. QED
      BY <2>3, <3>1
  <2>4. QED
    BY <2>2, <2>3
<1>7. calls[i].was \subseteq DOMAIN olm /\ calls[i].was \subseteq Machines /\ (s.sid = out.sid => s.idx <= out.idx)
  BY <1>2 DEF GiveInv, Giving, LeaveInv, InSession
<1>8. \A d \in Machines : Has(d) => Has(d)'
  BY <1>3, <1>6 DEF Has
<1>9. Sessions'
  <2>1. \A j \in Calls : calls'[j].pc \in {"claimed", "share"} => calls'[j] = calls[j]
    BY <1>4
  <2>2. QED
    BY <1>2, <2>1 DEF GiveInv, Sessions
<1>10. Giving'
  <2>1. \A j \in Calls : calls'[j].pc = "put" => calls'[j] = calls[j]
    BY <1>4
  <2>2. out.holders \subseteq out'.holders
    BY <1>3
  <2>3. QED
    BY <1>2, <1>3, <2>1, <2>2 DEF GiveInv, Giving
<1>11. Holding'
  <2>1. out'.holders \subseteq Machines
    BY <1>3, <1>7 DEF GiveInv, Holding
  <2>2. ASSUME NEW d \in out'.holders \ crossed
        PROVE  Has(d)'
    <3>1. CASE d \in out.holders
      BY <1>8, <2>1, <2>2, <3>1 DEF GiveInv, Holding
    <3>2. CASE d \notin out.holders
      <4>1. out.sid = s.sid /\ d \in calls[i].was
        BY <1>3, <2>2, <3>2
      <4>2. olm[d] = d /\ d \in Machines
        BY <1>7, <2>2, <4>1 DEF GiveInv, Sessions
      <4>3. QED
        BY <1>3, <1>6, <4>1, <4>2 DEF Has
    <3>3. QED
      BY <3>1, <3>2
  <2>3. ASSUME NEW d \in Machines, Has(d)'
        PROVE  inbox'[d][out'.sid] <= out'.idx
    <3>1. out.sid \in DOMAIN inbox'[d]
      BY <1>3, <2>3 DEF Has
    <3>2. CASE out.sid \in DOMAIN inbox[d]
      BY <1>3, <1>6, <3>2 DEF GiveInv, Holding, Has
    <3>3. CASE out.sid \notin DOMAIN inbox[d]
      BY <1>3, <1>6, <1>7, <3>1, <3>3
    <3>4. QED
      BY <3>2, <3>3
  <2>4. QED
    BY <1>2, <2>1, <2>2, <2>3 DEF Holding
<1>12. Given'
  <2>1. ASSUME NEW j \in Calls \ lapped', calls'[j].fresh, Shared(calls'[j]), calls'[j].pc # "put",
               NEW d \in (calls'[j].pub \cap Of(calls'[j].us)) \ crossed'
        PROVE  Has(d)'
    <3>1. d \in Machines
      BY <2>1 DEF Of
    <3>2. CASE j # i
      BY <1>2, <1>4, <1>8, <2>1, <3>1, <3>2 DEF GiveInv, Given
    <3>3. CASE j = i
      <4>1. s.sid = out.sid /\ d \in calls[i].was \cup out.holders
        BY <1>2, <1>4, <1>5, <2>1, <3>3 DEF GiveInv, Giving
      <4>2. d \in out'.holders \ crossed'
        BY <1>3, <2>1, <4>1
      <4>3. QED
        BY <1>11, <4>2 DEF Holding
    <3>4. QED
      BY <3>2, <3>3
  <2>2. QED
    BY <2>1 DEF Given
<1>13. MembersRead'
  <2>1. \A m, d : d \in Machines /\ Reads(d, m) => Reads(d, m)'
    BY <1>6 DEF Reads
  <2>2. \A us : Of(us) \subseteq Machines
    BY DEF Of
  <2>3. QED
    BY <1>2, <2>1, <2>2 DEF GiveInv, MembersRead
<1>14. QED
  BY <1>9, <1>10, <1>11, <1>12, <1>13 DEF GiveInv

LEMMA EncryptGives ==
  ASSUME PumpInv, LeaveInv, GiveInv, NEW i \in Calls, Encrypt(i)
  PROVE  GiveInv'
<1>1. /\ DOMAIN calls = Calls /\ DOMAIN calls[i] = CallFields /\ DOMAIN out = OutFields /\ out.idx \in Nat
  BY DEF PumpInv, PumpForms, LeaveInv, RoomForms
<1>2. calls[i].pc \in {"encrypt", "retry"} /\ UNCHANGED <<inbox, lapped, olm, crossed>>
  BY DEF Encrypt, At, past
<1>3. PICK pc \in {"catch", "failed", "done"} : Goto(i, pc) /\ (out.sid = 0 => UNCHANGED <<msgs, out>>)
  BY DEF Encrypt, At
<1>4. \A j \in Calls : (j # i => calls'[j] = calls[j]) /\ (j = i => calls'[j].pc = pc)
  BY <1>1, <1>3 DEF Goto, CallFields
<1>5. CASE out.sid = 0
  <2>1. Aside(i)
    BY <1>2, <1>3, <1>4, <1>5 DEF Aside, Shared
  <2>2. QED
    BY <2>1, AsideKeeps
<1>6. CASE out.sid # 0
  <2>1. PICK n : n = [sid |-> out.sid, idx |-> out.idx, to |-> calls[i].us, gone |-> calls[i].gone, pub |-> calls[i].pub,
                      fresh |-> calls[i].fresh /\ At(i, "encrypt") /\ i \notin lapped]
    OBVIOUS
  <2>2. n.sid = out.sid /\ n.idx = out.idx /\ n.to = calls[i].us /\ n.pub = calls[i].pub
    BY <2>1
  <2>3. n.fresh => calls[i].fresh /\ calls[i].pc = "encrypt" /\ i \notin lapped
    BY <2>1 DEF At
  <2>4. msgs' = msgs \cup {n} /\ out' = [out EXCEPT !.idx = @ + 1]
    BY <1>6, <2>1 DEF Encrypt
  <2>5. out'.sid = out.sid /\ out'.idx = out.idx + 1 /\ out'.holders = out.holders
    BY <1>1, <2>4 DEF OutFields
  <2>6. \A j \in Calls : calls'[j].pc \in {"claimed", "share", "put"} \/ Shared(calls'[j]) => calls'[j] = calls[j]
    BY <1>4 DEF Shared
  <2>7. Sessions' /\ Giving' /\ Given'
    BY <1>2, <2>5, <2>6 DEF GiveInv, Sessions, Giving, Given, Has
  <2>8. Holding'
    <3>1. \A d \in Machines : Has(d) => inbox[d][out.sid] \in Nat
      BY DEF LeaveInv, InSession, Has
    <3>2. \A k \in Nat : k <= out.idx => k <= out.idx + 1
      BY <1>1
    <3>3. QED
      BY <1>2, <2>5, <3>1, <3>2 DEF GiveInv, Holding, Has
  <2>9. MembersRead'
    <3>1. ASSUME NEW m \in msgs', m.fresh, NEW d \in (m.pub \cap Of(m.to)) \ crossed
          PROVE  Reads(d, m)'
      <4>1. CASE m \in msgs
        BY <1>2, <3>1, <4>1 DEF GiveInv, MembersRead, Reads
      <4>2. CASE m = n
        <5>1. Has(d)
          BY <2>2, <2>3, <3>1, <4>2 DEF GiveInv, Given, Shared
        <5>2. d \in Machines
          BY <3>1 DEF Of
        <5>3. inbox[d][out.sid] <= out.idx
          BY <5>1, <5>2 DEF GiveInv, Holding
        <5>4. QED
          BY <1>2, <2>2, <4>2, <5>1, <5>3 DEF Reads, Has
      <4>3. QED
        BY <2>4, <3>1, <4>1, <4>2
    <3>2. QED
      BY <1>2, <3>1 DEF MembersRead
  <2>10. QED
    BY <2>7, <2>8, <2>9 DEF GiveInv
<1>7. QED
  BY <1>5, <1>6

LEMMA MetStarts == KeysInit => MetInv
<1> SUFFICES ASSUME KeysInit PROVE MetInv
  OBVIOUS
<1>1. /\ bundles = Bundles0 /\ devicesOf = [u \in Users |-> {}] /\ tracked = {} /\ dirty = {}
      /\ pump = [i \in Calls |-> NoPump]
  BY DEF KeysInit
<1>2. \A i \in Calls : pump[i].st = "off"
  BY <1>1 DEF NoPump
<1>3. \A i \in Calls : /\ calls[i].pub = {} /\ ~ calls[i].fresh /\ calls[i].pc \in {"todo", "done"} /\ calls[i].dev \in Machines
  BY CallsStart
<1>4. Sole
  BY <1>2, <1>3 DEF Sole
<1>5. Writers
  <2>1. ASSUME NEW i \in Calls
        PROVE  Writer(calls[i])
    <3>1. PICK c : c = calls[i]
      OBVIOUS
    <3>2. ~ c.fresh /\ c.pc \in {"todo", "done"} /\ c.dev \in Machines
      BY <1>3, <3>1
    <3>3. Writer(c)
      BY <3>2 DEF Writer
    <3>4. QED
      BY <3>1, <3>3
  <2>2. QED
    BY <2>1 DEF Writers
<1>6. Asking
  BY <1>1, <1>2, RoomKeysAssumption DEF Asking
<1>7. Published /\ Met
  BY <1>3 DEF Published, Met
<1>8. QED
  BY <1>4, <1>5, <1>6, <1>7 DEF MetInv

LEMMA GiveStarts == KeysInit => GiveInv
<1> SUFFICES ASSUME KeysInit PROVE GiveInv
  OBVIOUS
<1>1. /\ out = [sid |-> 0, idx |-> 0, users |-> {}, holders |-> {}, invalid |-> FALSE]
      /\ inbox = [d \in Machines |-> <<>>] /\ msgs = {} /\ olm = <<>>
  BY DEF KeysInit
<1>2. \A i \in Calls : ~ calls[i].fresh /\ calls[i].pc \in {"todo", "done"}
  BY CallsStart
<1>3. DOMAIN olm = {} /\ out.holders = {} /\ \A d \in Machines : DOMAIN inbox[d] = {}
  BY <1>1
<1>4. Sessions /\ Giving /\ Given
  BY <1>2, <1>3 DEF Sessions, Giving, Given
<1>5. Holding /\ MembersRead
  BY <1>1, <1>3 DEF Holding, Has, MembersRead
<1>6. QED
  BY <1>4, <1>5 DEF GiveInv

LEMMA GiveSteps ==
  ASSUME PumpInv, LeaveInv, MetInv, GiveInv, ~ capped, [KeysNext]_keysVars
  PROVE  GiveInv'
<1>1. CASE UNCHANGED keysVars
  <2>1. UNCHANGED <<calls, out, inbox, msgs, lapped, olm, crossed>>
    BY <1>1 DEF keysVars, server, machine, past
  <2>2. Sessions' /\ Giving' /\ Given'
    BY <2>1 DEF GiveInv, Sessions, Giving, Given, Has
  <2>3. Holding' /\ MembersRead'
    BY <2>1 DEF GiveInv, Holding, Has, MembersRead, Reads
  <2>4. QED
    BY <2>2, <2>3 DEF GiveInv
<1>2. CASE KeysNext
  <2>1. PICK i \in Calls :
          \/ Publish(i) \/ Ban(i) \/ BanLog(i) \/ Signal(i) \/ SendStart(i) \/ DmStart(i) \/ EditStart(i) \/ OnMembers(i)
             \/ FetchCrypto(i) \/ FetchRoster(i) \/ FetchFail(i) \/ Verdict(i) \/ Invalidate(i) \/ CheckRead(i) \/ CheckPin(i)
             \/ EnsureFail(i) \/ KeyPoll(i) \/ ReceiveChanges(i) \/ Failed(i)
             \/ Track(i) \/ TrackPeer(i) \/ Catch(i) \/ PollPump(i)
          \/ Join(i)
          \/ PumpLoop(i) \/ PumpRead(i) \/ PumpSend(i) \/ PumpFail(i) \/ PumpMark(i) \/ Woken(i)
          \/ Claim(i) \/ Claimed(i) \/ Share(i) \/ PutRoomKey(i) \/ Encrypt(i)
    BY <1>2 DEF KeysNext
  <2>2. QED
    BY <2>1, AsideSteps, AsideKeeps, JoinGives, PumpsAside, ClaimGives, ClaimedGives, ShareGives, PutGives, EncryptGives
<1>3. QED
  BY <1>1, <1>2

\* A pump that stopped at its cap is never forgotten.
LEMMA CapStays == ASSUME capped, [KeysNext]_keysVars PROVE capped'
<1>1. CASE UNCHANGED keysVars
  BY <1>1 DEF keysVars, past
<1>2. CASE KeysNext
  <2>1. PICK i \in Calls :
          \/ Publish(i) \/ Ban(i) \/ BanLog(i) \/ Signal(i) \/ SendStart(i) \/ DmStart(i) \/ EditStart(i) \/ OnMembers(i)
             \/ FetchCrypto(i) \/ FetchRoster(i) \/ FetchFail(i) \/ Verdict(i) \/ Invalidate(i) \/ CheckRead(i) \/ CheckPin(i)
             \/ EnsureFail(i) \/ KeyPoll(i) \/ ReceiveChanges(i) \/ Failed(i)
             \/ Track(i) \/ TrackPeer(i) \/ Catch(i) \/ PollPump(i)
          \/ Join(i) \/ PumpRead(i) \/ PumpSend(i) \/ PumpFail(i) \/ PumpMark(i) \/ Woken(i)
             \/ Claim(i) \/ Claimed(i) \/ Share(i) \/ PutRoomKey(i) \/ Encrypt(i)
          \/ PumpLoop(i)
    BY <1>2 DEF KeysNext
  <2>2. CASE PumpLoop(i)
    BY <2>2 DEF PumpLoop
  <2>3. CASE \/ Publish(i) \/ Ban(i) \/ BanLog(i) \/ Signal(i) \/ SendStart(i) \/ DmStart(i) \/ EditStart(i) \/ OnMembers(i)
             \/ FetchCrypto(i) \/ FetchRoster(i) \/ FetchFail(i) \/ Verdict(i) \/ Invalidate(i) \/ CheckRead(i) \/ CheckPin(i)
             \/ EnsureFail(i) \/ KeyPoll(i) \/ ReceiveChanges(i) \/ Failed(i)
             \/ Track(i) \/ TrackPeer(i) \/ Catch(i) \/ PollPump(i)
    BY <2>3, Zenon DEF past, Publish, Ban, BanLog, Signal, SendStart, DmStart, EditStart, OnMembers, FetchCrypto,
       FetchRoster, FetchFail, Verdict, Invalidate, CheckRead, CheckPin, EnsureFail, KeyPoll, ReceiveChanges,
       Failed, Track, TrackPeer, Catch, PollPump
  <2>4. CASE Join(i) \/ PumpRead(i) \/ PumpSend(i) \/ PumpFail(i) \/ PumpMark(i) \/ Woken(i)
             \/ Claim(i) \/ Claimed(i) \/ Share(i) \/ PutRoomKey(i) \/ Encrypt(i)
    BY <2>4, Zenon DEF past, Join, PumpRead, PumpSend, PumpFail, PumpMark, Woken, Claim, Claimed, Share, PutRoomKey, Encrypt
  <2>5. QED
    BY <2>1, <2>2, <2>3, <2>4
<1>3. QED
  BY <1>1, <1>2

\* Both sides of the roster, in every state up to the first pump that stops at its
\* cap: who had left the topic when a message was begun cannot read it, and the
\* devices a recipient had published when the tab first met him can. The pump a
\* call waits for has asked about the users that call tracked (MetInv), so the
\* claim that follows finds every such device, and the share gives the key to all
\* of them (GiveInv).
THEOREM RosterDecides == KeysSpec => [](capped \/ ReadersRight)
<1>1. ASSUME PumpInv, [KeysNext]_keysVars
      PROVE  PumpInv'
  BY <1>1, PumpSteps
<1>2. LeaveInv /\ GiveInv => ReadersRight
  BY LockedSays DEF GiveInv, ReadersRight
<1>3. KeysInit => ~ capped
  BY DEF KeysInit
<1>4. QED
  BY <1>1, <1>2, <1>3, PumpStarts, RoomStarts, LeaveSteps, MetStarts, MetSteps, GiveStarts, GiveSteps, CapStays, PTL DEF KeysSpec

=============================================================================

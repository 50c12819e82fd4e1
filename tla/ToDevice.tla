------------------------------ MODULE ToDevice ------------------------------
(***************************************************************************)
(* The to-device channel of the E2EE layer, which carries room keys from   *)
(* device to device: PUT /api/crypto/sendToDevice with the retrying sender *)
(* behind it, user_to_device_queue, the device change log, and GET         *)
(* /api/crypto/sync with the client's pollSync and its stored cursor.      *)
(*                                                                         *)
(* No handler opens a transaction.  now() is a millisecond clock that      *)
(* every insert moves on, so created_at and changed_at are distinct.       *)
(***************************************************************************)
EXTENDS Naturals, FiniteSets

CONSTANTS
  Devices,    \* devices that receive; every request fans out to all of them
  Online,     \* those with an open tab, which polls
  Owners,     \* users with a device list, numbered in the order of their ids
  Txns,       \* sendToDevice requests of OlmMachines, by txn_id
  Attempts,   \* PUT requests in flight
  Polls,      \* pollSync calls in flight
  PageSize,   \* LIMIT of both queries of a sync
  MaxChanges, \* rows of the device change log
  MaxFaults,  \* connections and processes lost
  Overlap,    \* FALSE: a sync's queries see one state of the database
  NoTxn, NoDevice

ASSUME ToDeviceAssumption ==
  /\ Online \subseteq Devices
  /\ Owners \subseteq Nat
  /\ PageSize \in Nat \ {0}
  /\ MaxChanges \in Nat /\ MaxFaults \in Nat
  /\ Overlap \in BOOLEAN
  /\ NoTxn \notin Txns
  /\ NoDevice \notin Devices

VARIABLES
  now,       \* the clock
  claimed,   \* crypto_sent_txns
  queue,     \* rows of user_to_device_queue
  delivered, \* those with a delivered_at
  changes,   \* rows of user_device_change_log
  acked,     \* requests the sender's OlmMachine has marked as sent
  attempt,   \* the PUTs being served
  cursor,    \* sync_cursor of each device
  seen,      \* requests each device's OlmMachine has received
  known,     \* the last change of each owner's devices it was told of
  poll,      \* the pollSync calls
  faults,    \* connections and processes lost so far
  torn       \* history: requests whose fan-out a lost process cut short

vars == <<now, claimed, queue, delivered, changes, acked, attempt, cursor, seen, known,
          poll, faults, torn>>
tables == <<now, claimed, queue, delivered, changes>>
sending == <<acked, attempt, torn>>
clients == <<cursor, seen, known>>

Row == [txn : Txns, dev : Devices, at : Nat]
Change == [owner : Owners, at : Nat]
Attempt == [pc : {"idle", "claim", "insert", "reply"}, txn : Txns \cup {NoTxn},
            left : SUBSET Devices, heard : BOOLEAN]
Poll == [pc : {"idle", "rows", "mark", "changes", "receive", "persist"},
         dev : Devices \cup {NoDevice}, since : Nat, rows : SUBSET Row, changed : SUBSET Change]

NoAttempt == [pc |-> "idle", txn |-> NoTxn, left |-> {}, heard |-> FALSE]
NoPoll == [pc |-> "idle", dev |-> NoDevice, since |-> 0, rows |-> {}, changed |-> {}]

TypeOK ==
  /\ now \in Nat /\ faults \in 0..MaxFaults
  /\ claimed \subseteq Txns /\ acked \subseteq Txns /\ torn \subseteq Txns
  /\ queue \subseteq Row /\ delivered \subseteq queue
  /\ changes \subseteq Change
  /\ attempt \in [Attempts -> Attempt]
  /\ cursor \in [Devices -> Nat]
  /\ seen \in [Devices -> SUBSET Txns]
  /\ known \in [Devices -> [Owners -> Nat]]
  /\ poll \in [Polls -> Poll]

Init ==
  /\ now = 0 /\ faults = 0
  /\ claimed = {} /\ queue = {} /\ delivered = {} /\ changes = {}
  /\ acked = {} /\ torn = {}
  /\ attempt = [a \in Attempts |-> NoAttempt]
  /\ cursor = [d \in Devices |-> 0]
  /\ seen = [d \in Devices |-> {}]
  /\ known = [d \in Devices |-> [o \in Owners |-> 0]]
  /\ poll = [p \in Polls |-> NoPoll]

\* The largest of some moments, and m if there are none after it.
Latest(S, m) == CHOOSE x \in S \cup {m} : \A y \in S \cup {m} : y <= x
Moments(S) == {r.at : r \in S}

\* With Overlap = FALSE nothing is inserted between a sync's two queries.
Insertable == Overlap \/ \A p \in Polls : poll[p].pc \notin {"mark", "changes"}

(***************************************************************************)
(* sendToDevice                                                            *)
(***************************************************************************)

Serving(a, pc) == attempt[a].pc = pc

\* pumpOutgoing sends a request that is not marked as sent, one at a time.
Put(a, t) ==
  /\ attempt[a] = NoAttempt
  /\ t \notin acked
  /\ \A b \in Attempts : ~(attempt[b].txn = t /\ attempt[b].heard)
  /\ attempt' = [attempt EXCEPT ![a] = [pc |-> "claim", txn |-> t, left |-> Devices, heard |-> TRUE]]
  /\ UNCHANGED <<tables, acked, torn, clients, poll, faults>>

\* Mutant of ClaimTxn: the idempotency row is written but not asked for.
ClaimAlways(a) ==
  /\ Serving(a, "claim")
  /\ claimed' = claimed \cup {attempt[a].txn}
  /\ attempt' = [attempt EXCEPT ![a].pc = "insert"]
  /\ UNCHANGED <<now, queue, delivered, changes, acked, torn, clients, poll, faults>>

\* INSERT INTO crypto_sent_txns .. ON CONFLICT DO NOTHING: a loser answers {}.
ClaimTxn(a) ==
  LET t == attempt[a].txn IN
  /\ Serving(a, "claim")
  /\ claimed' = claimed \cup {t}
  /\ attempt' = [attempt EXCEPT ![a].pc = IF t \in claimed THEN "reply" ELSE "insert"]
  /\ UNCHANGED <<now, queue, delivered, changes, acked, torn, clients, poll, faults>>

\* Mutant of FanOut: the loop over the chunks ends one too early.
FanOutShort(a) == \E d \in attempt[a].left :
  /\ Serving(a, "insert")
  /\ Insertable
  /\ now' = now + 1
  /\ queue' = queue \cup {[txn |-> attempt[a].txn, dev |-> d, at |-> now + 1]}
  /\ attempt' = [attempt EXCEPT ![a].left = @ \ {d},
                                ![a].pc = IF Cardinality(attempt[a].left) <= 2 THEN "reply" ELSE "insert"]
  /\ UNCHANGED <<claimed, delivered, changes, acked, torn, clients, poll, faults>>

\* One chunk of the fan-out is inserted; a chunk is one row here.
FanOut(a) == \E d \in attempt[a].left :
  /\ Serving(a, "insert")
  /\ Insertable
  /\ now' = now + 1
  /\ queue' = queue \cup {[txn |-> attempt[a].txn, dev |-> d, at |-> now + 1]}
  /\ attempt' = [attempt EXCEPT ![a].left = @ \ {d},
                                ![a].pc = IF attempt[a].left = {d} THEN "reply" ELSE "insert"]
  /\ UNCHANGED <<claimed, delivered, changes, acked, torn, clients, poll, faults>>

\* The answer reaches the sender, which marks the request as sent.
Reply(a) ==
  /\ Serving(a, "reply")
  /\ acked' = IF attempt[a].heard THEN acked \cup {attempt[a].txn} ELSE acked
  /\ attempt' = [attempt EXCEPT ![a] = NoAttempt]
  /\ UNCHANGED <<tables, torn, clients, poll, faults>>

\* The sender loses the connection, or is reloaded; the server goes on.
Unheard(a) ==
  /\ faults < MaxFaults /\ faults' = faults + 1
  /\ attempt[a].heard
  /\ attempt' = [attempt EXCEPT ![a].heard = FALSE]
  /\ UNCHANGED <<tables, acked, torn, clients, poll>>

\* A statement fails or the web process dies: the sender will retry.
Abort(a) ==
  /\ faults < MaxFaults /\ faults' = faults + 1
  /\ attempt[a] # NoAttempt
  /\ torn' = IF Serving(a, "insert") THEN torn \cup {attempt[a].txn} ELSE torn
  /\ attempt' = [attempt EXCEPT ![a] = NoAttempt]
  /\ UNCHANGED <<tables, acked, clients, poll>>

\* logDeviceChange, after keys/upload and the routes that change members.
LogChange(o) ==
  /\ Insertable
  /\ Cardinality(changes) < MaxChanges
  /\ now' = now + 1
  /\ changes' = changes \cup {[owner |-> o, at |-> now + 1]}
  /\ UNCHANGED <<claimed, queue, delivered, sending, clients, poll, faults>>

(***************************************************************************)
(* pollSync and GET /api/crypto/sync                                       *)
(***************************************************************************)

Polling(p, pc) == poll[p].pc = pc

\* The timer starts a poll whether or not an earlier one is still running.
PollStart(p, d) ==
  /\ poll[p] = NoPoll
  /\ poll' = [poll EXCEPT ![p] = [NoPoll EXCEPT !.pc = "rows", !.dev = d, !.since = cursor[d]]]
  /\ UNCHANGED <<tables, sending, clients, faults>>

\* ORDER BY created_at LIMIT.
FirstRows(S) == {r \in S : Cardinality({q \in S : q.at < r.at}) < PageSize}

SyncRows(p) ==
  /\ Polling(p, "rows")
  /\ poll' = [poll EXCEPT ![p].pc = "mark", ![p].rows =
                FirstRows({r \in queue : r.dev = poll[p].dev /\ r.at > poll[p].since})]
  /\ UNCHANGED <<tables, sending, clients, faults>>

\* "Best-effort mark-delivered".
MarkDelivered(p) ==
  /\ Polling(p, "mark")
  /\ delivered' = delivered \cup poll[p].rows
  /\ poll' = [poll EXCEPT ![p].pc = "changes"]
  /\ UNCHANGED <<now, claimed, queue, changes, sending, clients, faults>>

\* DISTINCT ON (user_id) .. ORDER BY user_id, changed_at DESC LIMIT.
LastOfEach(S) == {c \in S : \A e \in S : e.owner = c.owner => e.at <= c.at}
FirstChanges(S) ==
  LET L == LastOfEach(S) IN {c \in L : Cardinality({e \in L : e.owner < c.owner}) < PageSize}

SyncChanges(p) ==
  /\ Polling(p, "changes")
  /\ poll' = [poll EXCEPT ![p].pc = "receive", ![p].changed =
                FirstChanges({c \in changes : c.at > poll[p].since})]
  /\ UNCHANGED <<tables, sending, clients, faults>>

\* next_batch: the later of the two watermarks, or since again.
NextBatch(po) == Latest(Moments(po.rows) \cup Moments(po.changed), po.since)

Told(d, po) == [o \in Owners |-> Latest({c.at : c \in {e \in po.changed : e.owner = o}}, known[d][o])]

\* Mutant of Receive: the cursor is stored before the events are processed.
ReceiveLater(p) ==
  /\ Polling(p, "receive")
  /\ cursor' = [cursor EXCEPT ![poll[p].dev] = NextBatch(poll[p])]
  /\ poll' = [poll EXCEPT ![p].pc = "persist"]
  /\ UNCHANGED <<tables, sending, seen, known, faults>>

\* machine.receiveSyncChanges.
Receive(p) ==
  LET d == poll[p].dev IN
  /\ Polling(p, "receive")
  /\ seen' = [seen EXCEPT ![d] = @ \cup {r.txn : r \in poll[p].rows}]
  /\ known' = [known EXCEPT ![d] = Told(d, poll[p])]
  /\ poll' = [poll EXCEPT ![p].pc = "persist"]
  /\ UNCHANGED <<tables, sending, cursor, faults>>

\* metaPut; an older poll that ends later moves the cursor back.
Persist(p) ==
  /\ Polling(p, "persist")
  /\ cursor' = [cursor EXCEPT ![poll[p].dev] = NextBatch(poll[p])]
  /\ poll' = [poll EXCEPT ![p] = NoPoll]
  /\ UNCHANGED <<tables, sending, seen, known, faults>>

\* The answer is lost, or the tab goes away before the cursor is stored.
PollLost(p) ==
  /\ faults < MaxFaults /\ faults' = faults + 1
  /\ poll[p] # NoPoll
  /\ poll' = [poll EXCEPT ![p] = NoPoll]
  /\ UNCHANGED <<tables, sending, clients>>

(***************************************************************************)
(* Specification                                                           *)
(***************************************************************************)

Serve(a) == ClaimTxn(a) \/ FanOut(a) \/ Reply(a)
Sync(p) == SyncRows(p) \/ MarkDelivered(p) \/ SyncChanges(p) \/ Receive(p) \/ Persist(p)

Next ==
  \/ \E a \in Attempts : Serve(a) \/ Unheard(a) \/ Abort(a) \/ \E t \in Txns : Put(a, t)
  \/ \E o \in Owners : LogChange(o)
  \/ \E p \in Polls : Sync(p) \/ PollLost(p) \/ \E d \in Online : PollStart(p, d)

Spec == Init /\ [][Next]_vars

(***************************************************************************)
(* Properties                                                              *)
(***************************************************************************)

\* sendToDevice/route.ts:93-95: however often and however concurrently a
\* request is retried, a device has it queued at most once.
QueuedOnce == \A r, s \in queue : r.txn = s.txn /\ r.dev = s.dev => r = s

\* sendToDevice/route.ts:94, "the original request was already applied": when
\* a request is marked as sent and nothing is left of its PUTs, every device
\* has it queued, unless the process that was queueing it was lost.
AckedIsQueued ==
  \A t \in acked \ torn : (\A a \in Attempts : attempt[a].txn # t) =>
    \A d \in Devices : \E r \in queue : r.txn = t /\ r.dev = d

\* sync/route.ts:2, 146: a device's cursor never passes an event or a device
\* change it has not been given, whatever poll overlaps or is lost.
NothingSkipped ==
  \A d \in Devices :
    /\ \A r \in queue : r.dev = d /\ r.at <= cursor[d] => r.txn \in seen[d]
    /\ \A c \in changes : c.at <= cursor[d] => known[d][c.owner] >= c.at
=============================================================================

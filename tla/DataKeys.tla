------------------------------ MODULE DataKeys ------------------------------
(***************************************************************************)
(* packages/db/src/data-keys.ts: the envelope-encryption data keys that    *)
(* every process of the fleet (web, ws, bot) shares through one table.     *)
(*                                                                         *)
(* A caller is one in-flight call of currentDataKey(purpose); callers of   *)
(* one process share its two Maps.  Each await of the code is a step of    *)
(* its own: the unlocked SELECT, the wait for the advisory lock, the       *)
(* SELECT under the lock, the INSERT, the COMMIT, the cache fill.          *)
(***************************************************************************)
CONSTANTS
  Purposes,   \* "messages", "attachments", "dm_messages"
  KeyIds,     \* ids encryption_keys rows can get
  Procs,      \* node processes, each with its own module-level caches
  Callers,    \* concurrent calls
  ProcOf,     \* the process a call runs in
  NoKey, NoCaller, NoPurpose

ASSUME DataKeysAssumption ==
  /\ ProcOf \in [Callers -> Procs]
  /\ NoKey \notin KeyIds
  /\ NoCaller \notin Callers
  /\ NoPurpose \notin Purposes

VARIABLES
  rows,      \* committed rows of encryption_keys with rotated_at IS NULL
  lock,      \* holder of pg_advisory_xact_lock(ns, purpose)
  current,   \* currentCache of each process
  byId,      \* byIdCache of each process
  call,      \* the calls in flight
  handed,    \* history: the <<purpose, key>> pairs calls have returned
  written    \* key_id of message rows written under a returned key

vars == <<rows, lock, current, byId, call, handed, written>>

Row == [id : KeyIds, purpose : Purposes]
PC == {"idle", "select", "lock", "recheck", "insert", "commit", "fill"}
Call == [pc : PC, purpose : Purposes \cup {NoPurpose}, key : KeyIds \cup {NoKey}]
Idle == [pc |-> "idle", purpose |-> NoPurpose, key |-> NoKey]

TypeOK ==
  /\ rows \subseteq Row
  /\ lock \in [Purposes -> Callers \cup {NoCaller}]
  /\ current \in [Procs -> [Purposes -> KeyIds \cup {NoKey}]]
  /\ byId \in [Procs -> SUBSET KeyIds]
  /\ call \in [Callers -> Call]
  /\ handed \subseteq Purposes \X KeyIds
  /\ written \subseteq KeyIds

RowsOf(pu) == {r \in rows : r.purpose = pu}

\* An INSERT that is not committed yet: its caller holds the row.
Staged(c) == call[c].pc = "commit"

Init ==
  /\ rows = {}
  /\ lock = [pu \in Purposes |-> NoCaller]
  /\ current = [p \in Procs |-> [pu \in Purposes |-> NoKey]]
  /\ byId = [p \in Procs |-> {}]
  /\ call = [c \in Callers |-> Idle]
  /\ handed = {}
  /\ written = {}

(***************************************************************************)
(* currentDataKey                                                          *)
(***************************************************************************)

\* Both caches get the key and the call returns it, in one continuation.
Return(c, pu, k) ==
  /\ current' = [current EXCEPT ![ProcOf[c]][pu] = k]
  /\ byId' = [byId EXCEPT ![ProcOf[c]] = @ \cup {k}]
  /\ handed' = handed \cup {<<pu, k>>}
  /\ written' = written \cup {k}
  /\ call' = [call EXCEPT ![c] = Idle]

\* A warm cache answers without touching the database.
CacheHit(c, pu) ==
  LET k == current[ProcOf[c]][pu] IN
  /\ call[c].pc = "idle"
  /\ k # NoKey
  /\ handed' = handed \cup {<<pu, k>>}
  /\ written' = written \cup {k}
  /\ UNCHANGED <<rows, lock, current, byId, call>>

CacheMiss(c, pu) ==
  /\ call[c].pc = "idle"
  /\ current[ProcOf[c]][pu] = NoKey
  /\ call' = [call EXCEPT ![c] = [pc |-> "select", purpose |-> pu, key |-> NoKey]]
  /\ UNCHANGED <<rows, lock, current, byId, handed, written>>

\* selectCurrent outside any transaction.
SelectFound(c) ==
  /\ call[c].pc = "select"
  /\ \E r \in RowsOf(call[c].purpose) : Return(c, call[c].purpose, r.id)
  /\ UNCHANGED <<rows, lock>>

SelectEmpty(c) ==
  /\ call[c].pc = "select"
  /\ RowsOf(call[c].purpose) = {}
  /\ call' = [call EXCEPT ![c].pc = "lock"]
  /\ UNCHANGED <<rows, lock, current, byId, handed, written>>

TakeLock(c) ==
  /\ call[c].pc = "lock"
  /\ lock[call[c].purpose] = NoCaller
  /\ lock' = [lock EXCEPT ![call[c].purpose] = c]
  /\ call' = [call EXCEPT ![c].pc = "recheck"]
  /\ UNCHANGED <<rows, current, byId, handed, written>>

\* The re-check found a key: the transaction ends and frees the lock.
RecheckFound(c) ==
  /\ call[c].pc = "recheck"
  /\ \E r \in RowsOf(call[c].purpose) :
       call' = [call EXCEPT ![c].pc = "fill", ![c].key = r.id]
  /\ lock' = [lock EXCEPT ![call[c].purpose] = NoCaller]
  /\ UNCHANGED <<rows, current, byId, handed, written>>

RecheckEmpty(c) ==
  /\ call[c].pc = "recheck"
  /\ RowsOf(call[c].purpose) = {}
  /\ call' = [call EXCEPT ![c].pc = "insert"]
  /\ UNCHANGED <<rows, lock, current, byId, handed, written>>

FreshId(k) ==
  /\ \A r \in rows : r.id # k
  /\ \A c \in Callers : Staged(c) => call[c].key # k

\* Mutant of Insert: ON CONFLICT DO NOTHING, and the key just generated is
\* returned although the row was not written.
InsertOrIgnore(c, k) ==
  /\ call[c].pc = "insert"
  /\ FreshId(k)
  /\ call' = [call EXCEPT ![c].pc = IF RowsOf(call[c].purpose) = {} THEN "commit" ELSE "fill",
                        ![c].key = k]
  /\ UNCHANGED <<rows, lock, current, byId, handed, written>>

\* Mutant of Insert: the key is cached inside the transaction, before COMMIT.
InsertThenCache(c, k) ==
  /\ call[c].pc = "insert"
  /\ FreshId(k)
  /\ RowsOf(call[c].purpose) = {}
  /\ \A d \in Callers : ~(Staged(d) /\ call[d].purpose = call[c].purpose)
  /\ call' = [call EXCEPT ![c].pc = "commit", ![c].key = k]
  /\ current' = [current EXCEPT ![ProcOf[c]][call[c].purpose] = k]
  /\ byId' = [byId EXCEPT ![ProcOf[c]] = @ \cup {k}]
  /\ UNCHANGED <<rows, lock, handed, written>>

\* The unique index lets the INSERT through when the purpose has no active
\* row, and waits while another INSERT of the purpose is uncommitted.
Insert(c, k) ==
  /\ call[c].pc = "insert"
  /\ FreshId(k)
  /\ RowsOf(call[c].purpose) = {}
  /\ \A d \in Callers : ~(Staged(d) /\ call[d].purpose = call[c].purpose)
  /\ call' = [call EXCEPT ![c].pc = "commit", ![c].key = k]
  /\ UNCHANGED <<rows, lock, current, byId, handed, written>>

Commit(c) ==
  /\ call[c].pc = "commit"
  /\ rows' = rows \cup {[id |-> call[c].key, purpose |-> call[c].purpose]}
  /\ lock' = [lock EXCEPT ![call[c].purpose] = NoCaller]
  /\ call' = [call EXCEPT ![c].pc = "fill"]
  /\ UNCHANGED <<current, byId, handed, written>>

\* Back in the caller's continuation after the transaction resolved.
Fill(c) ==
  /\ call[c].pc = "fill"
  /\ Return(c, call[c].purpose, call[c].key)
  /\ UNCHANGED <<rows, lock>>

\* Mutant of Reject: a session-level advisory lock outlives the transaction.
RejectKeepingLock(c) ==
  /\ call' = [call EXCEPT ![c] = Idle]
  /\ UNCHANGED <<rows, lock, current, byId, handed, written>>

\* The transaction rolls back, its lock is freed and the call rejects.
Reject(c) ==
  /\ call' = [call EXCEPT ![c] = Idle]
  /\ lock' = [pu \in Purposes |-> IF lock[pu] = c THEN NoCaller ELSE lock[pu]]
  /\ UNCHANGED <<rows, current, byId, handed, written>>

\* Another code path inserted first: the INSERT "fails loudly".
UniqueViolation(c) ==
  /\ call[c].pc = "insert"
  /\ RowsOf(call[c].purpose) # {}
  /\ Reject(c)

\* A statement or the commit fails for want of a connection.
Fail(c) ==
  /\ call[c].pc \in {"select", "lock", "recheck", "insert", "commit"}
  /\ Reject(c)

(***************************************************************************)
(* The rest of the module and its surroundings                             *)
(***************************************************************************)

\* getDataKeyById for a stored row: the key is cached or read by id.
GetById(p, k) ==
  /\ k \in written
  /\ \E r \in rows : r.id = k
  /\ byId' = [byId EXCEPT ![p] = @ \cup {k}]
  /\ UNCHANGED <<rows, lock, current, call, handed, written>>

ResetCache(p) ==
  /\ current' = [current EXCEPT ![p] = [pu \in Purposes |-> NoKey]]
  /\ byId' = [byId EXCEPT ![p] = {}]
  /\ UNCHANGED <<rows, lock, call, handed, written>>

\* A process dies: its caches go, its transactions roll back.
Crash(p) ==
  LET dead == {c \in Callers : ProcOf[c] = p} IN
  /\ current' = [current EXCEPT ![p] = [pu \in Purposes |-> NoKey]]
  /\ byId' = [byId EXCEPT ![p] = {}]
  /\ call' = [c \in Callers |-> IF c \in dead THEN Idle ELSE call[c]]
  /\ lock' = [pu \in Purposes |-> IF lock[pu] \in dead THEN NoCaller ELSE lock[pu]]
  /\ UNCHANGED <<rows, handed, written>>

\* "A concurrent insert from any other code path": the index admits it only
\* while the purpose has neither an active nor an uncommitted row.
ForeignInsert(pu, k) ==
  /\ FreshId(k)
  /\ RowsOf(pu) = {}
  /\ \A c \in Callers : ~(Staged(c) /\ call[c].purpose = pu)
  /\ rows' = rows \cup {[id |-> k, purpose |-> pu]}
  /\ UNCHANGED <<lock, current, byId, call, handed, written>>

Start(c) == \E pu \in Purposes : CacheHit(c, pu) \/ CacheMiss(c, pu)

Proceed(c) ==
  \/ SelectFound(c) \/ SelectEmpty(c)
  \/ TakeLock(c) \/ RecheckFound(c) \/ RecheckEmpty(c)
  \/ \E k \in KeyIds : Insert(c, k)
  \/ UniqueViolation(c)
  \/ Commit(c) \/ Fill(c)

Next ==
  \/ \E c \in Callers : Start(c) \/ Proceed(c) \/ Fail(c)
  \/ \E p \in Procs : ResetCache(p) \/ Crash(p) \/ (\E k \in KeyIds : GetById(p, k))
  \/ \E pu \in Purposes, k \in KeyIds : ForeignInsert(pu, k)

\* The event loop and the database run every call on; a waiter on an advisory
\* lock is queued, so it is not passed over for ever.  Failures are not fair.
Fairness == \A c \in Callers : WF_vars(Proceed(c)) /\ SF_vars(TakeLock(c))

Spec == Init /\ [][Next]_vars
FairSpec == Spec /\ Fairness

(***************************************************************************)
(* Properties                                                              *)
(***************************************************************************)

\* data-keys.ts:3-9, "the fleet silently ends up with two active keys":
\* whatever interleaves, a purpose never has two active rows.
OneActiveKey ==
  \A r, s \in rows : r.purpose = s.purpose => r = s

\* Every two callers of a purpose, in any process, at any time, were given the
\* same key, and no key serves two purposes (schema and :31-35, domain
\* separation: a compromise of one corpus's key does not extend to the other).
FleetAgrees ==
  \A h, g \in handed : (h[1] = g[1]) <=> (h[2] = g[2])

\* data-keys.ts:116-127: a row's key_id is always resolvable, because no key
\* is cached or handed out before its transaction has committed.
NothingUndecryptable ==
  \A k \in written \cup UNION {byId[p] : p \in Procs} : \E r \in rows : r.id = k

\* Every call returns a key or rejects: whatever fails or crashes in between,
\* the transaction-scoped lock never keeps the other callers waiting for ever.
CallsEnd == \A c \in Callers : call[c].pc # "idle" ~> call[c].pc = "idle"

\* The key of a purpose, as KeyRegistry sees it: the committed row.
IdOf(S) == IF S = {} THEN NoKey ELSE (CHOOSE r \in S : TRUE).id
KeyIn(R, pu) == IdOf({r \in R : r.purpose = pu})

CommittedKey == [pu \in Purposes |-> KeyIn(rows, pu)]

Registry == INSTANCE KeyRegistry WITH current <- CommittedKey

\* The fleet of cached, locked, crashing processes implements the registry.
ImplementsRegistry == Registry!Spec
=============================================================================

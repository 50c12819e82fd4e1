---------------------------- MODULE StorageProofs ---------------------------
(***************************************************************************)
(* Proofs about Storage, for every number of processes, calls, purposes    *)
(* and keys, of files and of messages.  IInv is the inductive invariant of *)
(* the data keys: what each process remembers is a committed row, and an   *)
(* uncommitted INSERT excludes every other row of its purpose.  MediaInv   *)
(* is that of the uploads: rows stand in the order of their references,    *)
(* and what each scan of the sweep passed over is still passed over when   *)
(* the files go.                                                           *)
(***************************************************************************)
EXTENDS Storage, TLAPS


Stored(pu, k) == [id |-> k, purpose |-> pu] \in rows
StoredId(k) == \E r \in rows : r.id = k

InFlight ==
  \A c \in Callers :
    /\ call[c].pc # "idle" => call[c].purpose \in Purposes
    /\ call[c].pc = "fill" => Stored(call[c].purpose, call[c].key)
    /\ Staged(c) => /\ call[c].key \in KeyIds
                    /\ ~StoredId(call[c].key)
                    /\ RowsOf(call[c].purpose) = {}

StagedApart ==
  \A c, d \in Callers :
    Staged(c) /\ Staged(d) /\ c # d =>
      call[c].purpose # call[d].purpose /\ call[c].key # call[d].key

Remembered ==
  /\ \A p \in Procs, pu \in Purposes :
       current[p][pu] # NoKey => Stored(pu, current[p][pu])
  /\ \A p \in Procs : \A k \in byId[p] : StoredId(k)
  /\ \A h \in handed : Stored(h[1], h[2])
  /\ \A k \in written : StoredId(k)

IdsUnique == \A r, s \in rows : r.id = s.id => r = s

IInv ==
  /\ TypeOK
  /\ OneActiveKey
  /\ IdsUnique
  /\ InFlight
  /\ StagedApart
  /\ Remembered

-----------------------------------------------------------------------------


LEMMA CallUpdate ==
  ASSUME NEW x \in Call, NEW q \in PC
  PROVE  /\ [x EXCEPT !.pc = q] \in Call
         /\ \A k \in KeyIds : [x EXCEPT !.pc = q, !.key = k] \in Call
  BY DEF Call

LEMMA IdleIsCall == Idle \in Call
  BY DEF Idle, Call, PC

LEMMA FreeLockTyped ==
  ASSUME TypeOK, NEW pu
  PROVE  [lock EXCEPT ![pu] = NoCaller] \in [Purposes -> Callers \cup {NoCaller}]
  BY DEF TypeOK

\* What Init establishes.
LEMMA InitIInv == Init => IInv
  BY IdleIsCall, DataKeysAssumption
  DEF Init, IInv, TypeOK, OneActiveKey, IdsUnique, InFlight, StagedApart,
      Remembered, Idle, Row, Staged

\* A call moves on inside currentDataKey without reading or writing a row.
LEMMA MoveStep ==
  ASSUME IInv, NEW c \in Callers, NEW q \in {"lock", "recheck", "insert"},
         call[c].pc # "idle",
         call' = [call EXCEPT ![c].pc = q],
         lock' \in [Purposes -> Callers \cup {NoCaller}],
         UNCHANGED <<rows, current, byId, handed, written>>
  PROVE  IInv'
<1>1. [call[c] EXCEPT !.pc = q] \in Call
  BY CallUpdate DEF IInv, TypeOK, PC
<1>2. TypeOK'
  BY <1>1 DEF IInv, TypeOK
<1>3. InFlight' /\ StagedApart'
  BY DEF IInv, TypeOK, InFlight, StagedApart, Staged, Stored, StoredId, RowsOf
<1>4. OneActiveKey' /\ IdsUnique' /\ Remembered'
  BY DEF IInv, OneActiveKey, IdsUnique, Remembered, Stored, StoredId
<1>. QED
  BY <1>2, <1>3, <1>4 DEF IInv

\* A call leaves currentDataKey with the id of a committed row.
LEMMA ReturnStep ==
  ASSUME IInv, NEW c \in Callers, NEW pu \in Purposes, NEW k \in KeyIds,
         Stored(pu, k), Return(c, pu, k), UNCHANGED <<rows, lock>>
  PROVE  IInv'
<1>1. TypeOK'
  <2>1. call' \in [Callers -> Call]
    BY IdleIsCall DEF IInv, TypeOK, Return
  <2>2. /\ current' \in [Procs -> [Purposes -> KeyIds \cup {NoKey}]]
        /\ byId' \in [Procs -> SUBSET KeyIds]
    BY DEF IInv, TypeOK, Return
  <2>3. handed' \subseteq Purposes \X KeyIds /\ written' \subseteq KeyIds
    BY DEF IInv, TypeOK, Return
  <2>. QED
    BY <2>1, <2>2, <2>3 DEF TypeOK, IInv
<1>2. InFlight' /\ StagedApart'
  BY DEF IInv, TypeOK, Return, Idle, InFlight, StagedApart, Staged, Stored,
         StoredId, RowsOf
<1>3. Remembered'
  <2>1. \A h \in handed' : Stored(h[1], h[2])
    BY DEF IInv, Remembered, Return
  <2>2. /\ \A p \in Procs, q \in Purposes :
             current'[p][q] # NoKey => Stored(q, current'[p][q])
        /\ \A p \in Procs : \A i \in byId'[p] : StoredId(i)
        /\ \A i \in written' : StoredId(i)
    BY DEF IInv, TypeOK, Remembered, Return, Stored, StoredId
  <2>. QED
    BY <2>1, <2>2 DEF Remembered, Stored, StoredId
<1>4. OneActiveKey' /\ IdsUnique'
  BY DEF IInv, OneActiveKey, IdsUnique
<1>. QED
  BY <1>1, <1>2, <1>3, <1>4 DEF IInv

LEMMA CacheStep ==
  ASSUME IInv, NEW c \in Callers, NEW pu \in Purposes,
         CacheHit(c, pu) \/ CacheMiss(c, pu)
  PROVE  IInv'
<1>1. CASE CacheHit(c, pu)
  <2> DEFINE k == current[ProcOf[c]][pu]
  <2>1. k \in KeyIds /\ Stored(pu, k)
    BY <1>1, DataKeysAssumption DEF CacheHit, IInv, TypeOK, Remembered
  <2> HIDE DEF k
  <2>2. handed' = handed \cup {<<pu, k>>} /\ written' = written \cup {k}
    BY <1>1 DEF CacheHit, k
  <2>3. Remembered'
    <3>1. \A h \in handed' : Stored(h[1], h[2])
      BY <2>1, <2>2 DEF IInv, Remembered
    <3>2. \A i \in written' : StoredId(i)
      BY <2>1, <2>2 DEF IInv, Remembered, Stored, StoredId
    <3>. QED
      BY <1>1, <3>1, <3>2 DEF CacheHit, IInv, Remembered, Stored, StoredId
  <2>4. TypeOK'
    BY <1>1, <2>1, <2>2 DEF CacheHit, IInv, TypeOK
  <2>5. OneActiveKey' /\ IdsUnique' /\ InFlight' /\ StagedApart'
    BY <1>1 DEF CacheHit, IInv, OneActiveKey, IdsUnique, InFlight, StagedApart,
                Staged, Stored, StoredId, RowsOf
  <2>. QED
    BY <2>3, <2>4, <2>5 DEF IInv
<1>2. CASE CacheMiss(c, pu)
  <2>2. call' = [call EXCEPT ![c] = [pc |-> "select", purpose |-> pu, key |-> NoKey]]
    BY <1>2 DEF CacheMiss
  <2>3. TypeOK'
    BY <1>2, <2>2 DEF CacheMiss, IInv, TypeOK, Call, PC
  <2>4. InFlight' /\ StagedApart'
    BY <1>2, <2>2 DEF CacheMiss, IInv, TypeOK, InFlight, StagedApart, Staged,
                      Stored, StoredId, RowsOf
  <2>5. OneActiveKey' /\ IdsUnique' /\ Remembered'
    BY <1>2 DEF CacheMiss, IInv, OneActiveKey, IdsUnique, Remembered, Stored, StoredId
  <2>. QED
    BY <2>3, <2>4, <2>5 DEF IInv
<1>. QED
  BY <1>1, <1>2

LEMMA RecheckFoundStep ==
  ASSUME IInv, NEW c \in Callers, RecheckFound(c)
  PROVE  IInv'
<1>1. PICK r \in RowsOf(call[c].purpose) :
        call' = [call EXCEPT ![c].pc = "fill", ![c].key = r.id]
  BY DEF RecheckFound
<1>2. r \in rows /\ r.purpose = call[c].purpose /\ r \in Row
  BY DEF RowsOf, IInv, TypeOK
<1>3. r.id \in KeyIds /\ r = [id |-> r.id, purpose |-> r.purpose]
  BY <1>2 DEF Row
<1>4. [call[c] EXCEPT !.pc = "fill", !.key = r.id] \in Call
  BY <1>3, CallUpdate DEF IInv, TypeOK, PC
<1>5. TypeOK'
  BY <1>1, <1>4, FreeLockTyped DEF RecheckFound, IInv, TypeOK
<1>6. Stored(call[c].purpose, r.id)
  BY <1>2, <1>3 DEF Stored
<1>7. InFlight' /\ StagedApart'
  <2>1. /\ call'[c].pc = "fill" /\ call'[c].key = r.id
        /\ call'[c].purpose = call[c].purpose
        /\ \A d \in Callers : d # c => call'[d] = call[d]
        /\ rows' = rows
    BY <1>1 DEF RecheckFound, IInv, TypeOK, Call
  <2>2. call[c].purpose \in Purposes
    BY DEF RecheckFound, IInv, InFlight
  <2>. QED
    BY <1>6, <2>1, <2>2 DEF IInv, InFlight, StagedApart, Staged, Stored, StoredId, RowsOf
<1>8. OneActiveKey' /\ IdsUnique' /\ Remembered'
  BY DEF RecheckFound, IInv, OneActiveKey, IdsUnique, Remembered, Stored, StoredId
<1>. QED
  BY <1>5, <1>7, <1>8 DEF IInv

\* The unique index: an INSERT only starts in a purpose with no other row.
LEMMA InsertStep ==
  ASSUME IInv, NEW c \in Callers, NEW k \in KeyIds, Insert(c, k)
  PROVE  IInv'
<1>1. [call[c] EXCEPT !.pc = "commit", !.key = k] \in Call
  BY CallUpdate DEF IInv, TypeOK, PC
<1>2. TypeOK'
  BY <1>1 DEF Insert, IInv, TypeOK
<1>3. InFlight' /\ StagedApart'
  <2>1. /\ call'[c].pc = "commit" /\ call'[c].key = k
        /\ call'[c].purpose = call[c].purpose
        /\ \A d \in Callers : d # c => call'[d] = call[d]
        /\ rows' = rows
    BY DEF Insert, IInv, TypeOK, Call
  <2>2. call[c].purpose \in Purposes /\ ~StoredId(k) /\ RowsOf(call[c].purpose) = {}
    BY DEF Insert, FreshId, IInv, InFlight, StoredId
  <2>3. \A d \in Callers :
          Staged(d) => call[d].key # k /\ call[d].purpose # call[c].purpose
    BY DEF Insert, FreshId
  <2>. QED
    BY <2>1, <2>2, <2>3 DEF IInv, InFlight, StagedApart, Staged, Stored, StoredId, RowsOf
<1>4. OneActiveKey' /\ IdsUnique' /\ Remembered'
  BY DEF Insert, IInv, OneActiveKey, IdsUnique, Remembered, Stored, StoredId
<1>. QED
  BY <1>2, <1>3, <1>4 DEF IInv

LEMMA CommitStep ==
  ASSUME IInv, NEW c \in Callers, Commit(c)
  PROVE  IInv'
<1> DEFINE row == [id |-> call[c].key, purpose |-> call[c].purpose]
<1>1. call[c].key \in KeyIds /\ call[c].purpose \in Purposes /\ ~StoredId(call[c].key)
  BY DEF Commit, Staged, IInv, InFlight
<1>2. rows' = rows \cup {row} /\ row \in Row
  BY <1>1 DEF Commit, Row
<1>3. TypeOK'
  <2>1. [call[c] EXCEPT !.pc = "fill"] \in Call
    BY <1>1, CallUpdate DEF IInv, TypeOK, PC
  <2>. QED
    BY <1>2, <2>1, FreeLockTyped DEF Commit, IInv, TypeOK
<1>4. OneActiveKey' /\ IdsUnique'
  BY <1>1 DEF Commit, IInv, OneActiveKey, IdsUnique, StoredId, InFlight, Staged, RowsOf
<1>5. InFlight' /\ StagedApart'
  BY <1>1 DEF Commit, IInv, TypeOK, InFlight, StagedApart, Staged, Stored, StoredId, RowsOf
<1>6. Remembered'
  BY DEF Commit, IInv, Remembered, Stored, StoredId
<1>. QED
  BY <1>3, <1>4, <1>5, <1>6 DEF IInv

LEMMA RejectStep ==
  ASSUME IInv, NEW c \in Callers, Reject(c)
  PROVE  IInv'
<1>1. TypeOK'
  BY IdleIsCall, DataKeysAssumption DEF Reject, IInv, TypeOK
<1>2. InFlight' /\ StagedApart'
  BY DEF Reject, Idle, IInv, TypeOK, InFlight, StagedApart, Staged, Stored,
         StoredId, RowsOf
<1>3. OneActiveKey' /\ IdsUnique' /\ Remembered'
  BY DEF Reject, IInv, OneActiveKey, IdsUnique, Remembered, Stored, StoredId
<1>. QED
  BY <1>1, <1>2, <1>3 DEF IInv

\* Losing a process or its caches only forgets.
LEMMA ForgetStep ==
  ASSUME IInv, NEW p \in Procs, ResetCache(p) \/ Crash(p)
  PROVE  IInv'
<1>1. TypeOK'
  <2>1. /\ current' \in [Procs -> [Purposes -> KeyIds \cup {NoKey}]]
        /\ byId' \in [Procs -> SUBSET KeyIds]
    BY DEF ResetCache, Crash, IInv, TypeOK
  <2>2. call' \in [Callers -> Call] /\ lock' \in [Purposes -> Callers \cup {NoCaller}]
    BY IdleIsCall DEF ResetCache, Crash, IInv, TypeOK
  <2>. QED
    BY <2>1, <2>2 DEF ResetCache, Crash, IInv, TypeOK
<1>2. InFlight' /\ StagedApart'
  BY DEF ResetCache, Crash, Idle, IInv, TypeOK, InFlight, StagedApart, Staged,
         Stored, StoredId, RowsOf
<1>3. /\ \A q \in Procs, pu \in Purposes :
           current'[q][pu] # NoKey => current'[q][pu] = current[q][pu]
      /\ \A q \in Procs : byId'[q] \subseteq byId[q]
  BY DEF ResetCache, Crash, IInv, TypeOK
<1>4. rows' = rows /\ handed' = handed /\ written' = written
  BY DEF ResetCache, Crash
<1>5. OneActiveKey' /\ IdsUnique' /\ Remembered'
  BY <1>3, <1>4 DEF IInv, OneActiveKey, IdsUnique, Remembered, Stored, StoredId
<1>. QED
  BY <1>1, <1>2, <1>5 DEF IInv

LEMMA GetByIdStep ==
  ASSUME IInv, NEW p \in Procs, NEW k \in KeyIds, GetById(p, k)
  PROVE  IInv'
  BY DEF GetById, IInv, TypeOK, OneActiveKey, IdsUnique, InFlight, StagedApart,
         Remembered, Staged, Stored, StoredId, RowsOf

LEMMA ForeignInsertStep ==
  ASSUME IInv, NEW pu \in Purposes, NEW k \in KeyIds, ForeignInsert(pu, k)
  PROVE  IInv'
<1>1. TypeOK'
  BY DEF ForeignInsert, IInv, TypeOK, Row
<1>2. OneActiveKey' /\ IdsUnique'
  BY DEF ForeignInsert, FreshId, IInv, OneActiveKey, IdsUnique, RowsOf
<1>3. InFlight' /\ StagedApart'
  BY DEF ForeignInsert, FreshId, IInv, InFlight, StagedApart, Staged, Stored,
         StoredId, RowsOf
<1>4. Remembered'
  BY DEF ForeignInsert, IInv, Remembered, Stored, StoredId
<1>. QED
  BY <1>1, <1>2, <1>3, <1>4 DEF IInv

LEMMA StepIInv == IInv /\ [Next]_vars => IInv'
<1> SUFFICES ASSUME IInv, [Next]_vars PROVE IInv'
  OBVIOUS
<1>1. CASE \E c \in Callers : Start(c)
  BY <1>1, CacheStep DEF Start
<1>2. ASSUME NEW c \in Callers, Proceed(c)
      PROVE  IInv'
  <2>1. CASE SelectFound(c)
    <3>1. PICK r \in RowsOf(call[c].purpose) : Return(c, call[c].purpose, r.id)
      BY <2>1 DEF SelectFound
    <3>2. /\ r \in rows /\ r.purpose = call[c].purpose
          /\ r.id \in KeyIds /\ r.purpose \in Purposes
          /\ r = [id |-> r.id, purpose |-> r.purpose]
      BY DEF RowsOf, IInv, TypeOK, Row
    <3>3. Stored(call[c].purpose, r.id)
      BY <3>2 DEF Stored
    <3>. QED
      BY <2>1, <3>1, <3>2, <3>3, ReturnStep DEF SelectFound
  <2>2. CASE SelectEmpty(c)
    BY <2>2, MoveStep DEF SelectEmpty, IInv, TypeOK
  <2>3. CASE TakeLock(c)
    <3>1. lock' \in [Purposes -> Callers \cup {NoCaller}]
      BY <2>3 DEF TakeLock, IInv, TypeOK
    <3>. QED
      BY <2>3, <3>1, MoveStep DEF TakeLock
  <2>4. CASE RecheckEmpty(c)
    BY <2>4, MoveStep DEF RecheckEmpty, IInv, TypeOK
  <2>5. CASE Fill(c)
    <3>1. Stored(call[c].purpose, call[c].key) /\ call[c].purpose \in Purposes
      BY <2>5 DEF Fill, IInv, InFlight
    <3>2. call[c].key \in KeyIds
      BY <3>1 DEF Stored, IInv, TypeOK, Row
    <3>. QED
      BY <2>5, <3>1, <3>2, ReturnStep DEF Fill
  <2>6. CASE UniqueViolation(c)
    BY <2>6, RejectStep DEF UniqueViolation
  <2>. QED
    BY <1>2, <2>1, <2>2, <2>3, <2>4, <2>5, <2>6, RecheckFoundStep, InsertStep,
       CommitStep DEF Proceed
<1>3. CASE \E c \in Callers : Fail(c)
  BY <1>3, RejectStep DEF Fail
<1>4. CASE \E p \in Procs : ResetCache(p) \/ Crash(p) \/ (\E k \in KeyIds : GetById(p, k))
  BY <1>4, ForgetStep, GetByIdStep
<1>5. CASE \E pu \in Purposes, k \in KeyIds : ForeignInsert(pu, k)
  BY <1>5, ForeignInsertStep
<1>6. CASE UNCHANGED vars
  BY <1>6 DEF vars, IInv, TypeOK, OneActiveKey, IdsUnique, InFlight, StagedApart,
              Remembered, Staged, Stored, StoredId, RowsOf
<1>. QED
  BY <1>1, <1>2, <1>3, <1>4, <1>5, <1>6 DEF Next

LEMMA Invariance == Spec => []IInv
  BY InitIInv, StepIInv, PTL DEF Spec

\* Every variable of data-keys.ts keeps its type.
THEOREM TypeCorrect == Spec => []TypeOK
  BY Invariance, PTL DEF IInv

\* data-keys.ts:3-9: no purpose ever has two active keys.
THEOREM SingleActiveKey == Spec => []OneActiveKey
  BY Invariance, PTL DEF IInv

\* data-keys.ts:76-113: all callers of a purpose are given one and the same
\* key, and no key serves two purposes.
THEOREM Agreement == Spec => []FleetAgrees
<1>1. IInv => FleetAgrees
  <2> SUFFICES ASSUME IInv, NEW h \in handed, NEW g \in handed
               PROVE  (h[1] = g[1]) <=> (h[2] = g[2])
    BY DEF FleetAgrees
  <2> DEFINE x == [id |-> h[2], purpose |-> h[1]]
             y == [id |-> g[2], purpose |-> g[1]]
  <2>1. x \in rows /\ y \in rows
    BY DEF IInv, Remembered, Stored
  <2>2. (x.purpose = y.purpose => x = y) /\ (x.id = y.id => x = y)
    BY <2>1 DEF IInv, OneActiveKey, IdsUnique
  <2>. QED
    BY <2>2
<1>. QED
  BY <1>1, Invariance, PTL

\* data-keys.ts:115-127: the key of every stored row and of every cache entry
\* is in the table, so getDataKeyById never throws.
THEOREM Decryptable == Spec => []NothingUndecryptable
<1>1. IInv => NothingUndecryptable
  BY DEF IInv, Remembered, StoredId, NothingUndecryptable
<1>. QED
  BY <1>1, Invariance, PTL

-----------------------------------------------------------------------------

\* With one row per purpose, the key the registry sees is that row's id.
LEMMA KeyInUnique ==
  ASSUME NEW R, \A r, s \in R : r.purpose = s.purpose => r = s, NEW x \in R
  PROVE  KeyIn(R, x.purpose) = x.id
<1> DEFINE mine == {r \in R : r.purpose = x.purpose}
<1>1. x \in mine
  OBVIOUS
<1>2. (CHOOSE r \in mine : TRUE) = x
  BY <1>1
<1>. QED
  BY <1>1, <1>2 DEF KeyIn, IdOf

\* A committed INSERT is the registry settling a purpose.
LEMMA SettleMapping ==
  ASSUME IInv, NEW pu \in Purposes, NEW k \in KeyIds, RowsOf(pu) = {},
         ~StoredId(k), rows' = rows \cup {[id |-> k, purpose |-> pu]},
         handed' = handed
  PROVE  Registry!Settle(pu, k)
<1> DEFINE row == [id |-> k, purpose |-> pu]
<1>1. CommittedKey[pu] = NoKey
  BY DEF CommittedKey, KeyIn, IdOf, RowsOf
<1>2. ASSUME NEW other \in Purposes
      PROVE  CommittedKey[other] # k
  <2>1. CASE RowsOf(other) = {}
    BY <2>1, DataKeysAssumption DEF CommittedKey, KeyIn, IdOf, RowsOf
  <2>2. CASE RowsOf(other) # {}
    <3>1. PICK r \in rows : r.purpose = other
      BY <2>2 DEF RowsOf
    <3>2. CommittedKey[other] = r.id
      BY <3>1, KeyInUnique DEF CommittedKey, IInv, OneActiveKey
    <3>. QED
      BY <3>2 DEF StoredId
  <2>. QED
    BY <2>1, <2>2
<1>3. CommittedKey' = [CommittedKey EXCEPT ![pu] = k]
  <2>1. \A r, s \in rows' : r.purpose = s.purpose => r = s
    BY DEF IInv, OneActiveKey, RowsOf
  <2>2. KeyIn(rows', pu) = k
    <3>1. KeyIn(rows', row.purpose) = row.id
      BY <2>1, KeyInUnique
    <3>. QED
      BY <3>1
  <2>3. \A q \in Purposes : q # pu =>
          {r \in rows' : r.purpose = q} = {r \in rows : r.purpose = q}
    OBVIOUS
  <2>4. \A q \in Purposes : q # pu => KeyIn(rows', q) = KeyIn(rows, q)
    BY <2>3 DEF KeyIn
  <2>. QED
    BY <2>2, <2>4 DEF CommittedKey
<1>. QED
  BY <1>1, <1>2, <1>3 DEF Registry!Settle

\* A call that returns a committed key is the registry handing it out.
LEMMA HandMapping ==
  ASSUME IInv, NEW pu \in Purposes, NEW k \in KeyIds, Stored(pu, k),
         handed' = handed \cup {<<pu, k>>}, rows' = rows
  PROVE  Registry!Hand(pu)
<1> DEFINE row == [id |-> k, purpose |-> pu]
<1>1. KeyIn(rows, row.purpose) = row.id
  BY KeyInUnique DEF IInv, OneActiveKey, Stored
<1>2. CommittedKey[pu] = k
  BY <1>1 DEF CommittedKey
<1>3. CommittedKey' = CommittedKey
  BY DEF CommittedKey
<1>. QED
  BY <1>2, <1>3, DataKeysAssumption DEF Registry!Hand

\* The fleet of processes with their caches, lock and transactions refines
\* KeyRegistry: a COMMIT settles the key, a return hands it out, every other
\* step is a stutter.
THEOREM Refinement == Spec => ImplementsRegistry
<1>1. Init => Registry!Init
  BY DEF Init, Registry!Init, CommittedKey, KeyIn, IdOf
<1>2. IInv /\ [Next]_vars => [Registry!Next]_(Registry!vars)
  <2> SUFFICES ASSUME IInv, [Next]_vars
               PROVE  Registry!Next \/ UNCHANGED Registry!vars
    OBVIOUS
  <2>1. ASSUME rows' = rows, handed' = handed
        PROVE  UNCHANGED Registry!vars
    BY <2>1 DEF Registry!vars, CommittedKey
  <2>2. ASSUME NEW c \in Callers, NEW pu \in Purposes, CacheHit(c, pu)
        PROVE  Registry!Next
    <3> DEFINE k == current[ProcOf[c]][pu]
    <3>1. k \in KeyIds /\ Stored(pu, k)
      BY <2>2, DataKeysAssumption DEF CacheHit, IInv, TypeOK, Remembered
    <3>2. handed' = handed \cup {<<pu, k>>} /\ rows' = rows
      BY <2>2 DEF CacheHit
    <3> HIDE DEF k
    <3>. QED
      BY <3>1, <3>2, HandMapping DEF Registry!Next
  <2>3. ASSUME NEW c \in Callers, SelectFound(c)
        PROVE  Registry!Next
    <3>1. PICK r \in RowsOf(call[c].purpose) : Return(c, call[c].purpose, r.id)
      BY <2>3 DEF SelectFound
    <3>2. /\ r.id \in KeyIds /\ r.purpose \in Purposes /\ r.purpose = call[c].purpose
          /\ r \in rows /\ r = [id |-> r.id, purpose |-> r.purpose]
      BY DEF RowsOf, IInv, TypeOK, Row
    <3>3. Stored(r.purpose, r.id) /\ handed' = handed \cup {<<r.purpose, r.id>>} /\ rows' = rows
      BY <2>3, <3>1, <3>2 DEF Stored, SelectFound, Return
    <3>. QED
      BY <3>2, <3>3, HandMapping DEF Registry!Next
  <2>4. ASSUME NEW c \in Callers, Fill(c)
        PROVE  Registry!Next
    <3>1. Stored(call[c].purpose, call[c].key) /\ call[c].purpose \in Purposes
      BY <2>4 DEF Fill, IInv, InFlight
    <3>2. call[c].key \in KeyIds
      BY <3>1 DEF Stored, IInv, TypeOK, Row
    <3>3. handed' = handed \cup {<<call[c].purpose, call[c].key>>} /\ rows' = rows
      BY <2>4 DEF Fill, Return
    <3>. QED
      BY <3>1, <3>2, <3>3, HandMapping DEF Registry!Next
  <2>5. ASSUME NEW c \in Callers, Commit(c)
        PROVE  Registry!Next
    <3>1. /\ call[c].purpose \in Purposes /\ call[c].key \in KeyIds
          /\ ~StoredId(call[c].key) /\ RowsOf(call[c].purpose) = {}
      BY <2>5 DEF Commit, Staged, IInv, InFlight
    <3>2. /\ rows' = rows \cup {[id |-> call[c].key, purpose |-> call[c].purpose]}
          /\ handed' = handed
      BY <2>5 DEF Commit
    <3>. QED
      BY <3>1, <3>2, SettleMapping DEF Registry!Next
  <2>6. ASSUME NEW pu \in Purposes, NEW k \in KeyIds, ForeignInsert(pu, k)
        PROVE  Registry!Next
    <3>1. /\ ~StoredId(k) /\ RowsOf(pu) = {} /\ handed' = handed
          /\ rows' = rows \cup {[id |-> k, purpose |-> pu]}
      BY <2>6 DEF ForeignInsert, FreshId, StoredId
    <3>. QED
      BY <3>1, SettleMapping DEF Registry!Next
  <2>7. ASSUME NEW c \in Callers,
               \/ \E pu \in Purposes : CacheMiss(c, pu)
               \/ \E k \in KeyIds : Insert(c, k)
               \/ SelectEmpty(c) \/ TakeLock(c) \/ RecheckFound(c) \/ RecheckEmpty(c)
               \/ UniqueViolation(c) \/ Fail(c)
        PROVE  rows' = rows /\ handed' = handed
    BY <2>7 DEF CacheMiss, Insert, SelectEmpty, TakeLock, RecheckFound, RecheckEmpty,
                UniqueViolation, Fail, Reject
  <2>8. ASSUME NEW p \in Procs,
               ResetCache(p) \/ Crash(p) \/ (\E k \in KeyIds : GetById(p, k))
        PROVE  rows' = rows /\ handed' = handed
    BY <2>8 DEF ResetCache, Crash, GetById
  <2>9. CASE UNCHANGED vars
    BY <2>1, <2>9 DEF vars
  <2>. QED
    BY <2>1, <2>2, <2>3, <2>4, <2>5, <2>6, <2>7, <2>8, <2>9
    DEF Next, Start, Proceed
<1>. QED
  BY <1>1, <1>2, Invariance, PTL DEF Spec, ImplementsRegistry, Registry!Spec

(***************************************************************************)
(* Uploads: what is put to use in time is never swept                      *)
(***************************************************************************)

Scans == {"columns", "topics", "edits", "dms"}

MediaForms ==
  /\ DOMAIN up = Files /\ \A f \in Files : DOMAIN up[f] = {"pc", "day"}
  /\ DOMAIN msg = Msgs /\ \A m \in Msgs : DOMAIN msg[m] = {"pc", "file", "old", "gone"}
  /\ \A m \in Msgs : msg[m].pc \in {"none", "posted", "archived"} /\ msg[m].file \in Files \cup {NoFile} /\ msg[m].old \subseteq Files
  /\ \A m \in Msgs : msg[m].pc = "none" => msg[m].old = {}
  /\ column \in Files \cup {NoFile} /\ old \subseteq Files
  /\ DOMAIN sweep = {"pc", "cand", "left"} /\ sweep.pc \in Scans \cup {"none", "unlink"}
  /\ sweep.left \subseteq sweep.cand /\ sweep.cand \subseteq old \cap Files
  /\ sweep.pc = "none" => sweep.left = {}
  /\ log \in Seq(Files \cup Msgs)

\* The rows in their order: each once, a message after the file it shows.
InOrder ==
  /\ \A i, j \in DOMAIN log : log[i] = log[j] => i = j
  /\ \A f \in Files : up[f].pc = "done" <=> \E i \in DOMAIN log : log[i] = f
  /\ \A m \in Msgs : msg[m].pc # "none" <=> \E i \in DOMAIN log : log[i] = m
  /\ \A m \in Msgs : msg[m].file # NoFile => msg[m].pc # "none" /\ \E i \in DOMAIN log : log[i] = msg[m].file
  /\ \A f \in old : \E i \in DOMAIN log : log[i] = f
  /\ \A i, j \in DOMAIN log : \A m \in Msgs : log[j] = m /\ log[i] = msg[m].file => i < j

\* Within its grace window a file that was written stays.
FreshStays == \A f \in Files : up[f].pc \in {"record", "done"} /\ f \notin old => f \in disk

Stands(m) == msg[m].pc # "none" /\ ~ msg[m].gone

\* What the sweep still holds against a file it passed over in a scan.
Passed ==
  \A f \in sweep.left \ late :
    /\ sweep.pc # "columns" => column # f
    /\ sweep.pc \in {"edits", "dms", "unlink"} => \A m \in Msgs \ Dms : Stands(m) => msg[m].file # f
    /\ sweep.pc \in {"dms", "unlink"} => \A m \in Msgs : Stands(m) => f \notin msg[m].old
    /\ sweep.pc = "unlink" => \A m \in Msgs : Stands(m) => msg[m].file # f

\* A reference of any kind.
Refers(f) == column = f \/ \E m \in Msgs : Stands(m) /\ (msg[m].file = f \/ f \in msg[m].old)
Kept == \A f \in Files : f \notin late /\ Refers(f) => f \in disk

MediaInv == MediaForms /\ InOrder /\ FreshStays /\ Passed /\ Kept

LEMMA KeptSays == MediaForms /\ Kept => KeptWhileShown
BY DEF MediaForms, Kept, KeptWhileShown, Media!KeptWhileShown, Media!Referred, Media!Standing, Refers, Stands

LEMMA MediaStarts ==
  ASSUME Media!Init
  PROVE  MediaInv
<1>1. /\ scene \in Scenes /\ log = scene.stored /\ old = {} /\ late = {} /\ column = NoFile
      /\ up = [f \in Files |-> [pc |-> IF f \in Media!ToSet(scene.stored) THEN "done" ELSE "todo", day |-> 1]]
      /\ msg = [m \in Msgs |-> [pc |-> "none", file |-> NoFile, old |-> {}, gone |-> FALSE]]
      /\ sweep = [pc |-> "none", cand |-> {}, left |-> {}] /\ disk = Media!ToSet(scene.stored)
  BY DEF Media!Init, Media!NoMsg, Media!NoSweep
<1>2. /\ log \in Seq(Files) /\ \A i, j \in DOMAIN log : log[i] = log[j] => i = j
  BY <1>1, StorageAssumption
<1>3. disk = {log[i] : i \in DOMAIN log}
  BY <1>1 DEF Media!ToSet
<1>4. /\ DOMAIN up = Files
      /\ \A f \in Files : DOMAIN up[f] = {"pc", "day"} /\ up[f].pc = IF f \in disk THEN "done" ELSE "todo"
  BY <1>1
<1>5. /\ DOMAIN msg = Msgs
      /\ \A m \in Msgs : DOMAIN msg[m] = {"pc", "file", "old", "gone"} /\ msg[m].pc = "none" /\ msg[m].file = NoFile /\ msg[m].old = {}
  BY <1>1
<1>6. DOMAIN sweep = {"pc", "cand", "left"} /\ sweep.pc = "none" /\ sweep.cand = {} /\ sweep.left = {}
  BY <1>1
<1>7. log \in Seq(Files \cup Msgs) /\ \A i \in DOMAIN log : log[i] \in Files
  BY <1>2
<1>8. MediaForms
  BY <1>1, <1>4, <1>5, <1>6, <1>7 DEF MediaForms
<1>9. InOrder
  <2>1. \A m \in Msgs, i \in DOMAIN log : log[i] # m
    BY <1>7, StorageAssumption
  <2>2. \A f \in Files : up[f].pc = "done" <=> \E i \in DOMAIN log : log[i] = f
    BY <1>3, <1>4
  <2>3. QED
    BY <1>1, <1>2, <1>5, <2>1, <2>2 DEF InOrder
<1>10. FreshStays /\ Passed /\ Kept
  BY <1>1, <1>4, <1>5, <1>6, StorageAssumption DEF FreshStays, Passed, Kept, Refers, Stands
<1>11. QED
  BY <1>8, <1>9, <1>10 DEF MediaInv

\* A row is appended.
LEMMA RowAdded ==
  ASSUME MediaForms, InOrder, NEW x \in Files \cup Msgs, \A i \in DOMAIN log : log[i] # x, log' = Append(log, x)
  PROVE  /\ log' \in Seq(Files \cup Msgs)
         /\ \A i, j \in DOMAIN log' : log'[i] = log'[j] => i = j
         /\ \A y : (\E i \in DOMAIN log' : log'[i] = y) <=> y = x \/ \E i \in DOMAIN log : log[i] = y
         /\ DOMAIN log' = DOMAIN log \cup {Len(log) + 1} /\ log'[Len(log) + 1] = x
         /\ \A i \in DOMAIN log : log'[i] = log[i] /\ i < Len(log) + 1
<1>1. log \in Seq(Files \cup Msgs) /\ Len(log) \in Nat /\ DOMAIN log = 1 .. Len(log)
  BY DEF MediaForms
<1>2. /\ log' \in Seq(Files \cup Msgs) /\ Len(log') = Len(log) + 1 /\ DOMAIN log' = 1 .. (Len(log) + 1)
      /\ \A i \in DOMAIN log : log'[i] = log[i]
      /\ log'[Len(log) + 1] = x
  BY <1>1
<1>3. DOMAIN log' = DOMAIN log \cup {Len(log) + 1} /\ \A i \in DOMAIN log : i < Len(log) + 1
  BY <1>1, <1>2
<1>4. \A i, j \in DOMAIN log : log[i] = log[j] => i = j
  BY DEF InOrder
<1>5. QED
  BY <1>2, <1>3, <1>4

\* An upload goes on; a file is at most added, and rows only at the end of one.
LEMMA UploadGoesOn ==
  ASSUME MediaInv, NEW f \in Files, NEW u, up' = [up EXCEPT ![f] = u], DOMAIN u = {"pc", "day"},
         UNCHANGED <<msg, column, late, old, sweep>>, disk \subseteq disk',
         \/ log' = log /\ up[f].pc # "done" /\ u.pc # "done" /\ (u.pc = "record" => f \in disk')
         \/ log' = Append(log, f) /\ up[f].pc = "record" /\ u.pc = "done"
  PROVE  MediaInv'
<1>1. /\ DOMAIN up' = Files /\ up'[f] = u /\ \A g \in Files : g # f => up'[g] = up[g]
  BY DEF MediaInv, MediaForms
<1>2. FreshStays'
  BY <1>1 DEF MediaInv, FreshStays
<1>3. Passed' /\ Kept'
  BY DEF MediaInv, Passed, Kept, Refers, Stands
<1>4. CASE log' = log /\ up[f].pc # "done" /\ u.pc # "done"
  <2>1. MediaForms'
    BY <1>1, <1>4 DEF MediaInv, MediaForms
  <2>2. InOrder'
    BY <1>1, <1>4 DEF MediaInv, InOrder
  <2>3. QED
    BY <1>2, <1>3, <2>1, <2>2 DEF MediaInv
<1>5. CASE log' = Append(log, f) /\ up[f].pc = "record" /\ u.pc = "done"
  <2>1. \A i \in DOMAIN log : log[i] # f
    BY <1>5 DEF MediaInv, InOrder
  <2>2. /\ log' \in Seq(Files \cup Msgs)
        /\ \A i, j \in DOMAIN log' : log'[i] = log'[j] => i = j
        /\ \A y : (\E i \in DOMAIN log' : log'[i] = y) <=> y = f \/ \E i \in DOMAIN log : log[i] = y
        /\ DOMAIN log' = DOMAIN log \cup {Len(log) + 1} /\ log'[Len(log) + 1] = f
        /\ \A i \in DOMAIN log : log'[i] = log[i] /\ i < Len(log) + 1
    BY <1>5, <2>1, RowAdded DEF MediaInv
  <2>3. MediaForms'
    BY <1>1, <2>2 DEF MediaInv, MediaForms
  <2>4. \A g \in Files : up'[g].pc = "done" <=> \E i \in DOMAIN log' : log'[i] = g
    BY <1>1, <1>5, <2>2 DEF MediaInv, InOrder
  <2>5. \A m \in Msgs : msg[m].pc # "none" <=> \E i \in DOMAIN log' : log'[i] = m
    BY <2>2, StorageAssumption DEF MediaInv, InOrder
  <2>6. \A g \in old : \E i \in DOMAIN log' : log'[i] = g
    BY <2>2 DEF MediaInv, InOrder
  <2>7. ASSUME NEW i \in DOMAIN log', NEW j \in DOMAIN log', NEW m \in Msgs, log'[j] = m, log'[i] = msg[m].file
        PROVE  i < j
    <3>1. j \in DOMAIN log /\ log[j] = m
      BY <2>2, <2>7, StorageAssumption
    <3>2. msg[m].file # f
      BY <2>1, <2>7, <3>1, <2>2, StorageAssumption DEF MediaInv, InOrder, MediaForms
    <3>3. i \in DOMAIN log /\ log[i] = msg[m].file
      BY <2>2, <2>7, <3>2
    <3>4. QED
      BY <3>1, <3>3 DEF MediaInv, InOrder
  <2>8. InOrder'
    <3>1. \A m \in Msgs : msg[m].file # NoFile => msg[m].pc # "none" /\ \E i \in DOMAIN log' : log'[i] = msg[m].file
      BY <2>2 DEF MediaInv, InOrder
    <3>2. QED
      BY <2>2, <2>4, <2>5, <2>6, <2>7, <3>1 DEF InOrder
  <2>9. QED
    BY <1>2, <1>3, <2>3, <2>8 DEF MediaInv
<1>6. QED
  BY <1>4, <1>5

LEMMA UploadSteps ==
  ASSUME MediaInv, NEW f \in Files, Media!Request(f)
  PROVE  MediaInv'
<1>1. UNCHANGED <<msg, column, late, old, sweep>>
  BY DEF Media!Request, Media!Arrive, Media!Reserve, Media!Release, Media!CheckQuota, Media!Inspect, Media!WriteFile, Media!Record,
         Media!UploadFails, Media!content
<1>2. CASE Media!Record(f)
  <2> DEFINE u == [up[f] EXCEPT !.pc = "done"]
  <2>1. up' = [up EXCEPT ![f] = u] /\ DOMAIN u = {"pc", "day"} /\ u.pc = "done"
    BY <1>2 DEF Media!Record, Media!Goto, MediaInv, MediaForms
  <2> HIDE DEF u
  <2>2. QED
    BY <1>1, <1>2, <2>1, UploadGoesOn DEF Media!Record, Media!At
<1>3. CASE Media!Arrive(f)
  <2>1. PICK pc \in {"reserve", "failed"} : up' = [up EXCEPT ![f] = [pc |-> pc, day |-> day]]
    BY <1>3 DEF Media!Arrive
  <2> DEFINE u == [pc |-> pc, day |-> day]
  <2>2. DOMAIN u = {"pc", "day"} /\ u.pc = pc
    OBVIOUS
  <2> HIDE DEF u
  <2>3. QED
    BY <1>1, <1>3, <2>1, <2>2, UploadGoesOn DEF Media!Arrive, Media!At, u
<1>4. ASSUME NEW pc, Media!Goto(f, pc), pc # "done", UNCHANGED log, disk \subseteq disk', up[f].pc # "done", pc = "record" => f \in disk'
      PROVE  MediaInv'
  <2> DEFINE u == [up[f] EXCEPT !.pc = pc]
  <2>1. up' = [up EXCEPT ![f] = u] /\ DOMAIN u = {"pc", "day"} /\ u.pc = pc
    BY <1>4 DEF Media!Goto, MediaInv, MediaForms
  <2> HIDE DEF u
  <2>2. QED
    BY <1>1, <1>4, <2>1, UploadGoesOn
<1>5. CASE Media!Reserve(f) \/ Media!Release(f)
  BY <1>4, <1>5 DEF Media!Reserve, Media!Release, Media!At
<1>6. CASE Media!CheckQuota(f)
  BY <1>4, <1>6 DEF Media!CheckQuota, Media!At
<1>7. CASE Media!Inspect(f)
  <2>1. PICK pc \in {"failed", "write"} : Media!Goto(f, pc)
    BY <1>7 DEF Media!Inspect
  <2>2. QED
    BY <1>4, <1>7, <2>1 DEF Media!Inspect, Media!At
<1>8. CASE Media!WriteFile(f)
  BY <1>4, <1>8 DEF Media!WriteFile, Media!At
<1>9. CASE Media!UploadFails(f)
  BY <1>4, <1>9 DEF Media!UploadFails
<1>10. QED
  BY <1>2, <1>3, <1>5, <1>6, <1>7, <1>8, <1>9 DEF Media!Request

\* What refers to a file for the first time makes it late, or finds it fresh.
LEMMA NotHeld ==
  ASSUME MediaInv, NEW f \in Files, Media!RefersTo(f), UNCHANGED <<sweep, disk>>
  PROVE  /\ late \subseteq late' /\ f \notin sweep.left \ late'
         /\ f \notin late' => f \in disk
         /\ \E i \in DOMAIN log : log[i] = f
<1>1. up[f].pc = "done" /\ late' = IF f \in old THEN late \cup {f} ELSE late
  BY DEF Media!RefersTo, Media!At
<1>2. f \in sweep.left => f \in old
  BY DEF MediaInv, MediaForms
<1>3. QED
  BY <1>1, <1>2 DEF MediaInv, FreshStays, InOrder

\* A file the sweep does not hold and that is on disk.
Free(f) == f \notin sweep.left /\ f \in disk

\* References appear only to free files, and from a body to the archive.
LEMMA ReferencesMove ==
  ASSUME MediaInv, late \subseteq late', UNCHANGED <<sweep, disk>>,
         \A g \in Files \ late' :
           /\ column' = g => column = g \/ Free(g)
           /\ \A x \in Msgs : Stands(x)' =>
                /\ msg'[x].file = g => (Stands(x) /\ msg[x].file = g) \/ Free(g)
                /\ g \in msg'[x].old => Stands(x) /\ (g \in msg[x].old \/ (x \notin Dms /\ msg[x].file = g))
  PROVE  Passed' /\ Kept'
<1>1. sweep.left \subseteq Files
  BY DEF MediaInv, MediaForms
<1>2. Kept'
  BY DEF MediaInv, Kept, Refers, Free
<1>3. SUFFICES ASSUME NEW f \in sweep.left \ late'
      PROVE  /\ sweep.pc # "columns" => column' # f
             /\ sweep.pc \in {"edits", "dms", "unlink"} => \A m \in Msgs \ Dms : Stands(m)' => msg'[m].file # f
             /\ sweep.pc \in {"dms", "unlink"} => \A m \in Msgs : Stands(m)' => f \notin msg'[m].old
             /\ sweep.pc = "unlink" => \A m \in Msgs : Stands(m)' => msg'[m].file # f
  BY <1>2 DEF Passed
<1>4. f \in Files \ late' /\ ~ Free(f) /\ f \in sweep.left \ late
  BY <1>1, <1>3 DEF Free
<1>5. QED
  BY <1>4 DEF MediaInv, Passed

LEMMA PostSteps ==
  ASSUME MediaInv, NEW m \in Msgs, NEW f \in Files, Media!Post(m, f)
  PROVE  MediaInv'
<1> DEFINE r == [msg[m] EXCEPT !.pc = "posted", !.file = f]
<1>1. /\ msg[m].pc = "none" /\ Media!RefersTo(f) /\ log' = Append(log, m)
      /\ UNCHANGED <<up, disk, old, column, sweep>>
      /\ msg' = [msg EXCEPT ![m].pc = "posted", ![m].file = f]
  BY DEF Media!Post
<1>2. /\ msg' = [msg EXCEPT ![m] = r]
      /\ DOMAIN r = {"pc", "file", "old", "gone"} /\ r.pc = "posted" /\ r.file = f /\ r.old = msg[m].old /\ (r.gone <=> msg[m].gone)
  BY <1>1 DEF MediaInv, MediaForms
<1> HIDE DEF r
<1>3. DOMAIN msg' = Msgs /\ msg'[m] = r /\ \A x \in Msgs : x # m => msg'[x] = msg[x]
  BY <1>2 DEF MediaInv, MediaForms
<1>4. /\ late \subseteq late' /\ f \notin sweep.left \ late' /\ (f \notin late' => f \in disk)
      /\ \E i \in DOMAIN log : log[i] = f
  BY <1>1, NotHeld
<1>5. \A i \in DOMAIN log : log[i] # m
  BY <1>1 DEF MediaInv, InOrder
<1>6. /\ log' \in Seq(Files \cup Msgs)
      /\ \A i, j \in DOMAIN log' : log'[i] = log'[j] => i = j
      /\ \A y : (\E i \in DOMAIN log' : log'[i] = y) <=> y = m \/ \E i \in DOMAIN log : log[i] = y
      /\ DOMAIN log' = DOMAIN log \cup {Len(log) + 1} /\ log'[Len(log) + 1] = m
      /\ \A i \in DOMAIN log : log'[i] = log[i] /\ i < Len(log) + 1
  BY <1>1, <1>5, RowAdded DEF MediaInv
<1>7. MediaForms'
  BY <1>1, <1>2, <1>3, <1>6 DEF MediaInv, MediaForms
<1>8. InOrder'
  <2>1. \A g \in Files : up'[g].pc = "done" <=> \E i \in DOMAIN log' : log'[i] = g
    BY <1>1, <1>6, StorageAssumption DEF MediaInv, InOrder
  <2>2. \A x \in Msgs : msg'[x].pc # "none" <=> \E i \in DOMAIN log' : log'[i] = x
    BY <1>2, <1>3, <1>6 DEF MediaInv, InOrder
  <2>3. \A x \in Msgs : msg'[x].file # NoFile => msg'[x].pc # "none" /\ \E i \in DOMAIN log' : log'[i] = msg'[x].file
    BY <1>2, <1>3, <1>4, <1>6 DEF MediaInv, InOrder
  <2>4. \A g \in old' : \E i \in DOMAIN log' : log'[i] = g
    BY <1>1, <1>6 DEF MediaInv, InOrder
  <2>5. ASSUME NEW i \in DOMAIN log', NEW j \in DOMAIN log', NEW x \in Msgs, log'[j] = x, log'[i] = msg'[x].file
        PROVE  i < j
    <3>1. msg'[x].file \in Files \cup {NoFile}
      BY <1>7 DEF MediaForms
    <3>2. msg'[x].file # m
      BY <3>1, StorageAssumption
    <3>3. i \in DOMAIN log /\ log[i] = msg'[x].file
      BY <1>6, <2>5, <3>2
    <3>4. CASE x = m
      <4>1. j = Len(log) + 1
        BY <1>5, <1>6, <2>5, <3>4
      <4>2. QED
        BY <1>6, <3>3, <4>1
    <3>5. CASE x # m
      <4>1. j \in DOMAIN log /\ log[j] = x /\ msg'[x] = msg[x]
        BY <1>3, <1>6, <2>5, <3>5
      <4>2. QED
        BY <3>3, <4>1 DEF MediaInv, InOrder
    <3>6. QED
      BY <3>4, <3>5
  <2>6. QED
    BY <2>1, <1>6, <2>2, <2>3, <2>4, <2>5 DEF InOrder
<1>9. FreshStays'
  BY <1>1 DEF MediaInv, FreshStays
<1>10. msg[m].old = {}
  BY <1>1 DEF MediaInv, MediaForms
<1>11. ASSUME NEW g \in Files \ late'
       PROVE  /\ column' = g => column = g \/ Free(g)
              /\ \A x \in Msgs : Stands(x)' =>
                   /\ msg'[x].file = g => (Stands(x) /\ msg[x].file = g) \/ Free(g)
                   /\ g \in msg'[x].old => Stands(x) /\ (g \in msg[x].old \/ (x \notin Dms /\ msg[x].file = g))
  <2>1. f = g => Free(g)
    BY <1>4, <1>11 DEF Free
  <2>2. ASSUME NEW x \in Msgs, Stands(x)'
        PROVE  /\ msg'[x].file = g => (Stands(x) /\ msg[x].file = g) \/ Free(g)
               /\ g \in msg'[x].old => Stands(x) /\ g \in msg[x].old
    BY <1>2, <1>3, <1>10, <2>1, <2>2 DEF Stands
  <2>3. QED
    BY <1>1, <2>2
<1>12. Passed' /\ Kept'
  BY <1>1, <1>4, <1>11, ReferencesMove
<1>13. QED
  BY <1>7, <1>8, <1>9, <1>12 DEF MediaInv

\* An edit or a deletion: a message loses its file, or keeps it in the archive.
LEMMA MessageChanges ==
  ASSUME MediaInv, NEW m \in Msgs, NEW r, msg' = [msg EXCEPT ![m] = r],
         UNCHANGED <<up, disk, log, old, column, late, sweep>>,
         msg[m].pc # "none", DOMAIN r = {"pc", "file", "old", "gone"}, r.pc \in {"posted", "archived"},
         r.file \in {msg[m].file, NoFile}, r.old \subseteq Files,
         ~ r.gone => ~ msg[m].gone,
         r.old \subseteq msg[m].old \cup (IF m \in Dms THEN {} ELSE {msg[m].file})
  PROVE  MediaInv'
<1>1. DOMAIN msg' = Msgs /\ msg'[m] = r /\ \A x \in Msgs : x # m => msg'[x] = msg[x]
  BY DEF MediaInv, MediaForms
<1>2. msg[m].file \in Files \cup {NoFile}
  BY DEF MediaInv, MediaForms
<1>3. MediaForms'
  BY <1>1, <1>2 DEF MediaInv, MediaForms
<1>4. InOrder'
  <2>1. \A x \in Msgs : msg'[x].pc # "none" <=> msg[x].pc # "none"
    BY <1>1
  <2>2. \A x \in Msgs : msg'[x].file = msg[x].file \/ msg'[x].file = NoFile
    BY <1>1
  <2>3. \A i \in DOMAIN log : log[i] # NoFile
    BY StorageAssumption DEF MediaInv, MediaForms
  <2>4. \A i, j \in DOMAIN log : \A x \in Msgs : log[j] = x /\ log[i] = msg'[x].file => i < j
    BY <2>2, <2>3 DEF MediaInv, InOrder
  <2>5. \A x \in Msgs : msg'[x].file # NoFile => msg'[x].pc # "none" /\ \E i \in DOMAIN log : log[i] = msg'[x].file
    BY <2>1, <2>2 DEF MediaInv, InOrder
  <2>6. \A x \in Msgs : msg'[x].pc # "none" <=> \E i \in DOMAIN log : log[i] = x
    BY <2>1 DEF MediaInv, InOrder
  <2>7. /\ \A i, j \in DOMAIN log : log[i] = log[j] => i = j
        /\ \A f \in Files : up[f].pc = "done" <=> \E i \in DOMAIN log : log[i] = f
        /\ \A f \in old : \E i \in DOMAIN log : log[i] = f
    BY DEF MediaInv, InOrder
  <2>8. QED
    BY <2>4, <2>5, <2>6, <2>7 DEF InOrder
<1>5. FreshStays'
  BY DEF MediaInv, FreshStays
<1>6. ASSUME NEW g \in Files \ late', NEW x \in Msgs, Stands(x)'
      PROVE  /\ msg'[x].file = g => Stands(x) /\ msg[x].file = g
             /\ g \in msg'[x].old => Stands(x) /\ (g \in msg[x].old \/ (x \notin Dms /\ msg[x].file = g))
  <2>1. g # NoFile
    BY StorageAssumption
  <2>2. Stands(x)
    BY <1>1, <1>6 DEF Stands
  <2>3. CASE x = m
    BY <1>1, <2>1, <2>2, <2>3
  <2>4. CASE x # m
    BY <1>1, <2>2, <2>4
  <2>5. QED
    BY <2>3, <2>4
<1>7. Passed' /\ Kept'
  BY <1>6, ReferencesMove
<1>8. QED
  BY <1>3, <1>4, <1>5, <1>7 DEF MediaInv

LEMMA MessageSteps ==
  ASSUME MediaInv, NEW m \in Msgs, Media!EditArchive(m) \/ Media!EditWrite(m) \/ Media!Delete(m)
  PROVE  MediaInv'
<1>1. /\ UNCHANGED <<up, disk, log, old, column, late, sweep>> /\ msg[m].pc # "none"
      /\ msg[m].pc \in {"posted", "archived"}
      /\ DOMAIN msg = Msgs /\ DOMAIN msg[m] = {"pc", "file", "old", "gone"}
      /\ msg[m].old \subseteq Files /\ msg[m].file \in Files \cup {NoFile}
  BY DEF Media!EditArchive, Media!EditWrite, Media!Delete, Media!ledger, Media!content, MediaInv, MediaForms
<1>2. CASE Media!EditArchive(m)
  <2> DEFINE r == [msg[m] EXCEPT !.pc = "archived", !.old = msg[m].old \cup {msg[m].file}]
  <2>1. m \notin Dms /\ msg[m].file # NoFile /\ msg' = [msg EXCEPT ![m] = r]
    BY <1>1, <1>2 DEF Media!EditArchive
  <2>2. /\ DOMAIN r = {"pc", "file", "old", "gone"} /\ r.pc = "archived" /\ r.file = msg[m].file
        /\ r.old = msg[m].old \cup {msg[m].file} /\ (r.gone <=> msg[m].gone)
    BY <1>1
  <2> HIDE DEF r
  <2>3. QED
    <3>1. r.old \subseteq Files /\ r.old \subseteq msg[m].old \cup (IF m \in Dms THEN {} ELSE {msg[m].file})
      BY <1>1, <2>1, <2>2
    <3>2. r.pc \in {"posted", "archived"} /\ r.file \in {msg[m].file, NoFile} /\ (~ r.gone => ~ msg[m].gone)
      BY <2>2
    <3>3. QED
      BY <1>1, <2>1, <2>2, <3>1, <3>2, MessageChanges
<1>3. CASE Media!EditWrite(m)
  <2> DEFINE r == [msg[m] EXCEPT !.pc = "posted", !.file = NoFile]
  <2>1. msg' = [msg EXCEPT ![m] = r]
    BY <1>1, <1>3 DEF Media!EditWrite
  <2>2. /\ DOMAIN r = {"pc", "file", "old", "gone"} /\ r.pc = "posted" /\ r.file = NoFile
        /\ r.old = msg[m].old /\ (r.gone <=> msg[m].gone)
    BY <1>1
  <2> HIDE DEF r
  <2>3. QED
    BY <1>1, <2>1, <2>2, MessageChanges
<1>4. CASE Media!Delete(m)
  <2> DEFINE r == [msg[m] EXCEPT !.gone = TRUE]
  <2>1. msg' = [msg EXCEPT ![m] = r]
    BY <1>1, <1>4 DEF Media!Delete
  <2>2. /\ DOMAIN r = {"pc", "file", "old", "gone"} /\ r.pc = msg[m].pc /\ r.file = msg[m].file
        /\ r.old = msg[m].old /\ r.gone
    BY <1>1
  <2> HIDE DEF r
  <2>3. QED
    BY <1>1, <2>1, <2>2, MessageChanges
<1>5. QED
  BY <1>2, <1>3, <1>4

LEMMA ColumnSteps ==
  ASSUME MediaInv, (\E f \in Files : Media!SetColumn(f)) \/ Media!ClearColumn
  PROVE  MediaInv'
<1>1. UNCHANGED <<up, disk, log, old, msg, sweep>> /\ late \subseteq late'
  BY DEF Media!SetColumn, Media!ClearColumn, Media!ledger, Media!RefersTo
<1>2. column' \in Files \cup {NoFile}
  BY DEF Media!SetColumn, Media!ClearColumn
<1>3. MediaForms' /\ InOrder' /\ FreshStays'
  BY <1>1, <1>2 DEF MediaInv, MediaForms, InOrder, FreshStays
<1>4. \A x \in Msgs : Stands(x)' => Stands(x)
  BY <1>1 DEF Stands
<1>5. \A g \in Files \ late' : column' = g => Free(g)
  <2>1. CASE Media!ClearColumn
    BY <2>1, StorageAssumption DEF Media!ClearColumn
  <2>2. ASSUME NEW f \in Files, Media!SetColumn(f)
        PROVE  \A g \in Files \ late' : column' = g => Free(g)
    BY <1>1, <2>2, NotHeld DEF Media!SetColumn, Free
  <2>3. QED
    BY <2>1, <2>2
<1>6. Passed' /\ Kept'
  BY <1>1, <1>4, <1>5, ReferencesMove
<1>7. QED
  BY <1>3, <1>6 DEF MediaInv

LEMMA TimePasses ==
  ASSUME MediaInv, Media!DayTurns \/ \E f \in Files : Media!Age(f)
  PROVE  MediaInv'
<1>1. UNCHANGED <<up, disk, log, column, late, msg, sweep>> /\ old \subseteq old'
  BY DEF Media!DayTurns, Media!Age, Media!ledger, Media!content
<1>2. old' \subseteq Files
  BY DEF MediaInv, MediaForms, Media!DayTurns, Media!Age, Media!Rows
<1>3. MediaForms' /\ FreshStays' /\ Passed' /\ Kept'
  BY <1>1, <1>2 DEF MediaInv, MediaForms, FreshStays, Passed, Kept, Refers, Stands
<1>4. \A f \in old' : \E i \in DOMAIN log : log[i] = f
  <2>1. CASE Media!DayTurns
    BY <2>1 DEF Media!DayTurns, MediaInv, InOrder
  <2>2. ASSUME NEW f \in Files, Media!Age(f)
        PROVE  \A g \in old' : \E i \in DOMAIN log : log[i] = g
    <3>1. \E i \in DOMAIN log : log[i] = f
      <4>1. log \in Seq(Files \cup Msgs)
        BY DEF MediaInv, MediaForms
      <4>2. QED
        BY <2>2, <4>1 DEF Media!Age, Media!Rows, Media!Contains
    <3>2. QED
      BY <2>2, <3>1 DEF Media!Age, MediaInv, InOrder
  <2>3. QED
    BY <2>1, <2>2
<1>5. InOrder'
  BY <1>1, <1>4 DEF MediaInv, InOrder
<1>6. QED
  BY <1>3, <1>5 DEF MediaInv

LEMMA PositionFound ==
  ASSUME MediaInv, NEW i \in DOMAIN log
  PROVE  Media!Position(log[i]) = i
BY DEF MediaInv, InOrder, Media!Position

\* A scan of bodies from the oldest candidate on misses none that shows a candidate.
LEMMA SinceReaches ==
  ASSUME MediaInv, NEW S, S \subseteq Msgs, NEW m \in S, msg[m].file \in sweep.cand
  PROVE  m \in Media!Since(S)
<1> DEFINE f == msg[m].file
<1>1. f \in Files /\ f # NoFile
  BY StorageAssumption DEF MediaInv, MediaForms
<1>2. PICK i \in DOMAIN log : log[i] = f
  BY <1>1 DEF MediaInv, InOrder
<1>3. PICK j \in DOMAIN log : log[j] = m
  BY <1>1 DEF MediaInv, InOrder
<1>4. i \in Nat /\ j \in Nat /\ i < j
  <2>1. i < j
    BY <1>2, <1>3 DEF MediaInv, InOrder
  <2>2. log \in Seq(Files \cup Msgs)
    BY DEF MediaInv, MediaForms
  <2>3. QED
    BY <2>1, <2>2
<1>5. Media!Position(f) = i /\ Media!Position(m) = j
  BY <1>2, <1>3, PositionFound
<1>6. Media!Position(f) <= Media!Position(m)
  BY <1>4, <1>5
<1>7. QED
  BY <1>6 DEF Media!Since

\* The sweep goes on with the files it still holds.
LEMMA SweepGoesOn ==
  ASSUME MediaInv, NEW w, sweep' = w, DOMAIN w = {"pc", "cand", "left"}, w.pc \in Scans \cup {"none", "unlink"},
         w.left \subseteq w.cand, w.cand \subseteq old, w.pc = "none" => w.left = {},
         UNCHANGED <<up, disk, log, old, column, late, msg>>, Passed'
  PROVE  MediaInv'
<1>1. MediaForms'
  BY DEF MediaInv, MediaForms
<1>2. InOrder' /\ FreshStays' /\ Kept'
  BY DEF MediaInv, InOrder, FreshStays, Kept, Refers, Stands
<1>3. QED
  BY <1>1, <1>2 DEF MediaInv

LEMMA SweepEnds ==
  ASSUME MediaInv, sweep' = Media!NoSweep, UNCHANGED <<up, disk, log, old, column, late, msg>>
  PROVE  MediaInv'
<1>1. sweep'.left = {}
  BY DEF Media!NoSweep
<1>2. Passed'
  BY <1>1 DEF Passed
<1>3. QED
  BY <1>2, SweepGoesOn DEF Media!NoSweep, Scans

LEMMA ScanStep ==
  ASSUME MediaInv, Media!Scan
  PROVE  MediaInv'
<1> DEFINE left == sweep.left \ Media!Found[sweep.pc]
           w == [sweep EXCEPT !.pc = Media!After[sweep.pc], !.left = left]
<1>1. /\ UNCHANGED <<up, disk, log, old, column, late, msg>>
      /\ sweep' = IF left = {} THEN Media!NoSweep ELSE w
      /\ sweep.pc \in DOMAIN Media!Found
  BY DEF Media!Scan, Media!ledger, Media!content
<1>2. /\ DOMAIN Media!Found = Scans
      /\ Media!Found["columns"] = {column}
      /\ Media!Found["topics"] = {msg[m].file : m \in Media!Since(Media!Standing \ Dms)}
      /\ Media!Found["edits"] = UNION {msg[m].old : m \in Media!Standing}
      /\ Media!Found["dms"] = {msg[m].file : m \in Media!Since(Media!Standing \cap Dms)}
  BY DEF Media!Found, Scans
<1>3. Media!Standing = {m \in Msgs : Stands(m)}
  BY DEF Media!Standing, Stands
<1>4. CASE left = {}
  BY <1>1, <1>4, SweepEnds
<1>5. CASE left # {}
  <2>1. sweep' = w
    BY <1>1, <1>5
  <2>2. DOMAIN sweep = {"pc", "cand", "left"} /\ sweep.left \subseteq sweep.cand /\ sweep.cand \subseteq old
    BY DEF MediaInv, MediaForms
  <2>3. DOMAIN w = {"pc", "cand", "left"} /\ w.pc = Media!After[sweep.pc] /\ w.left = left /\ w.cand = sweep.cand
    BY <2>2
  <2>4. left \subseteq sweep.left
    OBVIOUS
  <2>5. Passed'
    <3>1. SUFFICES ASSUME NEW f \in left \ late
          PROVE  /\ w.pc # "columns" => column # f
                 /\ w.pc \in {"edits", "dms", "unlink"} => \A m \in Msgs \ Dms : Stands(m) => msg[m].file # f
                 /\ w.pc \in {"dms", "unlink"} => \A m \in Msgs : Stands(m) => f \notin msg[m].old
                 /\ w.pc = "unlink" => \A m \in Msgs : Stands(m) => msg[m].file # f
      BY <1>1, <2>1, <2>3 DEF Passed, Stands
    <3>2. f \in sweep.left \ late /\ f \notin Media!Found[sweep.pc] /\ f \in sweep.cand
      BY <2>2, <3>1
    <3>3. CASE sweep.pc = "columns"
      <4>1. w.pc = "topics" /\ column # f
        BY <1>2, <2>3, <3>2, <3>3 DEF Media!After
      <4>2. QED
        BY <4>1
    <3>4. CASE sweep.pc = "topics"
      <4>1. w.pc = "edits" /\ column # f
        BY <2>3, <3>2, <3>4 DEF Media!After, MediaInv, Passed
      <4>2. \A m \in Media!Since(Media!Standing \ Dms) : msg[m].file # f
        BY <1>2, <3>2, <3>4
      <4>3. \A m \in Msgs \ Dms : Stands(m) => msg[m].file # f
        BY <1>3, <3>2, <4>2, SinceReaches
      <4>4. QED
        BY <4>1, <4>3
    <3>5. CASE sweep.pc = "edits"
      <4>1. w.pc = "dms" /\ column # f /\ \A m \in Msgs \ Dms : Stands(m) => msg[m].file # f
        BY <2>3, <3>2, <3>5 DEF Media!After, MediaInv, Passed
      <4>2. \A m \in Msgs : Stands(m) => f \notin msg[m].old
        BY <1>2, <1>3, <3>2, <3>5
      <4>3. QED
        BY <4>1, <4>2
    <3>6. CASE sweep.pc = "dms"
      <4>1. /\ w.pc = "unlink" /\ column # f /\ \A m \in Msgs \ Dms : Stands(m) => msg[m].file # f
            /\ \A m \in Msgs : Stands(m) => f \notin msg[m].old
        BY <2>3, <3>2, <3>6 DEF Media!After, MediaInv, Passed
      <4>2. \A m \in Media!Since(Media!Standing \cap Dms) : msg[m].file # f
        BY <1>2, <3>2, <3>6
      <4>3. \A m \in Msgs \cap Dms : Stands(m) => msg[m].file # f
        BY <1>3, <3>2, <4>2, SinceReaches
      <4>4. QED
        BY <4>1, <4>3
    <3>7. QED
      BY <1>1, <1>2, <3>3, <3>4, <3>5, <3>6 DEF Scans
  <2>6. w.pc \in Scans \cup {"unlink"}
    BY <1>1, <1>2, <2>3 DEF Media!After, Scans
  <2> HIDE DEF w, left
  <2>7. w.left \subseteq w.cand /\ w.cand \subseteq old /\ w.pc # "none"
    BY <2>2, <2>3, <2>4, <2>6 DEF Scans
  <2>8. QED
    BY <1>1, <2>1, <2>3, <2>5, <2>6, <2>7, SweepGoesOn
<1>6. QED
  BY <1>4, <1>5

LEMMA SweepSteps ==
  ASSUME MediaInv, Media!Sweeping \/ Media!SweepFails
  PROVE  MediaInv'
<1>1. CASE Media!SweepStart
  <2> DEFINE w == [pc |-> "columns", cand |-> Media!Candidates, left |-> Media!Candidates]
  <2>1. /\ sweep' = w /\ DOMAIN w = {"pc", "cand", "left"} /\ w.pc = "columns"
        /\ w.left = Media!Candidates /\ w.cand = Media!Candidates
        /\ UNCHANGED <<up, disk, log, old, column, late, msg>>
    BY <1>1 DEF Media!SweepStart, Media!ledger, Media!content
  <2>2. Media!Candidates \subseteq old
    BY DEF Media!Candidates
  <2>3. Passed'
    BY <2>1 DEF Passed
  <2> HIDE DEF w
  <2>4. QED
    BY <2>1, <2>2, <2>3, SweepGoesOn DEF Scans
<1>2. ASSUME NEW f \in Files, Media!Unlink(f)
      PROVE  MediaInv'
  <2>1. /\ UNCHANGED <<up, log, old, column, late, msg, sweep>>
        /\ sweep.pc = "unlink" /\ f \in sweep.left /\ disk' = disk \ {f}
    BY <1>2 DEF Media!Unlink, Media!content
  <2>2. f \in old
    BY <2>1 DEF MediaInv, MediaForms
  <2>3. MediaForms' /\ InOrder' /\ Passed'
    BY <2>1 DEF MediaInv, MediaForms, InOrder, Passed, Stands
  <2>4. FreshStays'
    BY <2>1, <2>2 DEF MediaInv, FreshStays
  <2>5. f \in late \/ ~ Refers(f)
    BY <2>1 DEF MediaInv, Passed, Refers
  <2>6. Kept'
    BY <2>1, <2>5 DEF MediaInv, Kept, Refers, Stands
  <2>7. QED
    BY <2>3, <2>4, <2>6 DEF MediaInv
<1>3. CASE Media!Tombstone
  BY <1>3, SweepEnds DEF Media!Tombstone, Media!ledger, Media!content
<1>4. CASE Media!SweepFails
  BY <1>4, SweepEnds DEF Media!SweepFails, Media!ledger, Media!content
<1>5. QED
  BY <1>1, <1>2, <1>3, <1>4, ScanStep DEF Media!Sweeping

\* A file put to use within its grace window stays on disk for as long as a
\* column, a message or an earlier version of one shows it (maintenance.ts
\* :110-118), for any number of files, messages, edits and sweeps.
THEOREM ShownIsKept == StorageSpec => []KeptWhileShown
<1>1. StorageInit => MediaInv
  BY MediaStarts DEF StorageInit
<1>2. ASSUME MediaInv, [StorageNext]_storageVars
      PROVE  MediaInv'
  <2>1. CASE UNCHANGED mediaVars
    <3>1. UNCHANGED <<up, disk, log, old, column, late, msg, sweep>>
      BY <2>1 DEF mediaVars
    <3>2. MediaForms' /\ InOrder' /\ FreshStays'
      BY <1>2, <3>1 DEF MediaInv, MediaForms, InOrder, FreshStays
    <3>3. Passed' /\ Kept'
      BY <1>2, <3>1 DEF MediaInv, Passed, Kept, Refers, Stands
    <3>4. QED
      BY <3>2, <3>3 DEF MediaInv
  <2>2. CASE Media!Next
    <3>1. ASSUME NEW f \in Files, Media!Request(f) \/ Media!SetColumn(f) \/ Media!Age(f)
          PROVE  MediaInv'
      BY <1>2, <3>1, UploadSteps, ColumnSteps, TimePasses
    <3>2. ASSUME NEW m \in Msgs,
                 Media!EditArchive(m) \/ Media!EditWrite(m) \/ Media!Delete(m) \/ \E f \in Files : Media!Post(m, f)
          PROVE  MediaInv'
      BY <1>2, <3>2, MessageSteps, PostSteps
    <3>3. QED
      BY <1>2, <2>2, <3>1, <3>2, ColumnSteps, TimePasses, SweepSteps DEF Media!Next
  <2>3. QED
    BY <1>2, <2>1, <2>2 DEF StorageNext, storageVars
<1>3. MediaInv => KeptWhileShown
  BY KeptSays DEF MediaInv
<1>4. QED
  BY <1>1, <1>2, <1>3, PTL DEF StorageSpec
=============================================================================

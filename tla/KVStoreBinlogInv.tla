-------------------------- MODULE KVStoreBinlogInv --------------------------
(***************************************************************************)
(* The inductive invariant of KVStoreBinlog, the lemmas its proofs share,  *)
(* and the steps that only read the store: the pusher, the full sync, and  *)
(* the recycler before it drops anything.                                  *)
(***************************************************************************)
EXTENDS KVStoreBinlog, TLAPS, WellFoundedInduction

-----------------------------------------------------------------------------
(* The inductive invariant.                                                *)

Open(w) == txn[w].pc # "none"

\* A transaction that has its binlog id and is not marked committed yet.
Owner(w) == txn[w].pc \in {"assigned", "written", "failed"}

\* A RocksTxn and its entry in _aliveTxns agree.
TxnInv ==
  /\ nextTxnSeq >= 1
  /\ \A w \in Workers :
       /\ ~Open(w) => txn[w] = NoTxn
       /\ Open(w) => /\ isRunning
                     /\ txn[w].id \in DOMAIN aliveTxns
                     /\ aliveTxns[txn[w].id] = txn[w].binlogId
                     /\ txn[w].id >= 1 /\ txn[w].id < nextTxnSeq
       /\ Open(w) /\ ~Owner(w) => txn[w].binlogId = UNINITED
  /\ \A v, w \in Workers : Open(v) /\ Open(w) /\ txn[v].id = txn[w].id => v = w

\* Who may write: clients on a master, one applier on a slave, a flush alone.
ModeInv ==
  /\ \A w \in Workers :
       /\ Owner(w) => txn[w].keys # {}
       /\ mode = "REPLICATE_ONLY" /\ txn[w].kind = "local" => txn[w].keys = {}
       /\ txn[w].kind = "apply" => mode = "REPLICATE_ONLY" /\ txn[w].keys # {}
       /\ txn[w].kind = "flush" => txn[w].pc # "failed"
  /\ \A v, w \in Workers : v # w =>
       /\ txn[v].kind = "apply" => txn[w].kind # "apply"
       /\ txn[v].kind = "flush" => ~Open(w)

\* A transaction that owns a binlog id and its entry in _aliveBinlogs agree.
OwnerInv ==
  /\ \A w \in Workers : Owner(w) =>
       /\ txn[w].binlogId \in DOMAIN aliveBinlogs
       /\ ~aliveBinlogs[txn[w].binlogId].done
       /\ txn[w].binlogId \in DOMAIN binlogs <=> txn[w].pc = "written"
  /\ \A v, w \in Workers : Owner(v) /\ Owner(w) /\ txn[v].binlogId = txn[w].binlogId => v = w

\* The ids in flight are above the watermark, and the first of them is owned.
AliveInv ==
  /\ highestVisible < nextBinlogSeq
  /\ \A n \in DOMAIN aliveBinlogs :
       /\ highestVisible < n /\ n < nextBinlogSeq
       /\ ~aliveBinlogs[n].done => \E w \in Workers : Owner(w) /\ txn[w].binlogId = n
       /\ aliveBinlogs[n].done => (n \in DOMAIN binlogs <=> aliveBinlogs[n].txn # UNINITED)
       /\ (\A m \in DOMAIN aliveBinlogs : n <= m) => ~aliveBinlogs[n].done
  /\ ~isRunning => DOMAIN aliveBinlogs = {}

\* The binlogs on disk: below the next id, and visible or in flight.
DiskInv ==
  \A n \in DOMAIN binlogs :
    /\ n < nextBinlogSeq
    /\ isRunning => n <= highestVisible \/ n \in DOMAIN aliveBinlogs

\* What makes a restart find the watermark again.
KeptInv ==
  /\ recycle.pc = "read" => recycle.end = 0 \/ recycle.end < highestVisible
  /\ highestVisible = 0 \/ FlushPending \/ \E n \in DOMAIN binlogs : highestVisible <= n

\* The ids a cursor has read are bounded.
CursorInv == \A n \in cursor.got : n <= cursor.end

IInv ==
  /\ TypeOK
  /\ TxnInv
  /\ ModeInv
  /\ OwnerInv
  /\ AliveInv
  /\ DiskInv
  /\ KeptInv
  /\ CursorInv

-----------------------------------------------------------------------------
(* Numbers.                                                                *)

\* A non-empty set of natural numbers has a least element (std::map::begin()
\* of a map that is not empty).
LEMMA LeastNat ==
  ASSUME NEW S, S \subseteq Nat, S # {}
  PROVE  \E n \in S : \A m \in S : n <= m
<1>1. PICK n \in S : \A m \in S : ~(<<m, n>> \in OpToRel(<, Nat))
  BY Zenon, NatLessThanWellFounded, WFMin
<1>2. \A m \in S : ~(m < n)
  BY Zenon, <1>1 DEF OpToRel
<1> QED
  BY <1>2

\* A bounded one has a greatest element (seekToLast on the binlogs).
LEMMA GreatestNat ==
  ASSUME NEW S, S \subseteq Nat, S # {}, NEW N \in Nat, \A n \in S : n <= N
  PROVE  \E n \in S : \A m \in S : m <= n
<1> DEFINE T == {N - n : n \in S}
<1>0. \A n \in S : N - n \in Nat
  OBVIOUS
<1>1. T \subseteq Nat /\ T # {}
  BY Zenon, <1>0
<1>2. PICK k \in T : \A m \in T : k <= m
  BY Zenon, <1>1, LeastNat
<1>3. PICK n \in S : k = N - n
  BY Zenon, <1>2
<1>4. \A m \in S : N - n <= N - m
  BY Zenon, <1>2, <1>3
<1> QED
  BY <1>3, <1>4

\* The next id is an id, above the last one and not TXNID_UNINITED.
LEMMA NextId == \A n \in Nat : n + 1 \in Nat /\ n + 1 >= 1 /\ n < n + 1
OBVIOUS

\* LastOf is the greatest element of a bounded set, or the default.
LEMMA LastOfFacts ==
  ASSUME NEW S, S \subseteq Nat, NEW N \in Nat, \A n \in S : n <= N, NEW d \in Nat
  PROVE  /\ LastOf(S, d) \in Nat
         /\ S # {} => LastOf(S, d) \in S /\ \A m \in S : m <= LastOf(S, d)
         /\ S = {} => LastOf(S, d) = d
<1>1. CASE S = {}
  BY Zenon, <1>1 DEF LastOf
<1>2. CASE S # {}
  <2>1. \E n \in S : \A m \in S : m <= n
    BY Zenon, <1>2, GreatestNat
  <2>2. LastOf(S, d) = CHOOSE n \in S : \A m \in S : m <= n
    BY Zenon, <1>2 DEF LastOf
  <2>3. LastOf(S, d) \in S /\ \A m \in S : m <= LastOf(S, d)
    BY Zenon, <2>1, <2>2
  <2> QED
    BY Zenon, <1>2, <2>3
<1> QED
  BY Zenon, <1>1, <1>2

\* With nobody between taking an id and marking it, nothing is in flight.
LEMMA NothingInFlight ==
  ASSUME IInv, \A w \in Workers : ~Owner(w)
  PROVE  DOMAIN aliveBinlogs = {}
<1>1. SUFFICES ASSUME DOMAIN aliveBinlogs # {} PROVE FALSE
  BY Zenon
<1>2. DOMAIN aliveBinlogs \subseteq Nat
  BY Zenon DEF IInv, TypeOK
<1>3. PICK n \in DOMAIN aliveBinlogs : \A m \in DOMAIN aliveBinlogs : n <= m
  BY Zenon, <1>1, <1>2, LeastNat
<1> QED
  BY Zenon, <1>3 DEF IInv, AliveInv

-----------------------------------------------------------------------------
(* TypeOK in pieces, so that a step need only look at what it changes.     *)

Txns == [pc: {"none", "open", "assigned", "written", "failed"},
         kind: {"local", "apply", "flush"}, id: Nat, binlogId: Nat, keys: SUBSET Keys]
TypeSeqs ==
  /\ isRunning \in BOOLEAN
  /\ mode \in {"READ_WRITE", "REPLICATE_ONLY"}
  /\ nextTxnSeq \in Nat /\ nextBinlogSeq \in Nat /\ highestVisible \in Nat
TypeAliveTxns ==
  DOMAIN aliveTxns \subseteq Nat /\ \A t \in DOMAIN aliveTxns : aliveTxns[t] \in Nat
TypeAliveBinlogs ==
  /\ DOMAIN aliveBinlogs \subseteq Nat
  /\ \A n \in DOMAIN aliveBinlogs : aliveBinlogs[n] \in [done: BOOLEAN, txn: Nat]
TypeBinlogs ==
  DOMAIN binlogs \subseteq Nat /\ \A n \in DOMAIN binlogs : binlogs[n] \in Binlog
TypeData == data \in [Keys -> Nat] /\ minBinlogId \in Nat
TypeTxn == txn \in [Workers -> Txns]
TypeCursor ==
  cursor \in [pc: {"idle", "opened", "reading"}, cur: Nat, end: Nat, got: SUBSET Nat]
TypeRecycle == recycle \in [pc: {"idle", "read", "truncated"}, end: Nat, start: Nat]
TypeBackup ==
  backup \in [pc: {"idle", "pushing", "positioned", "checkpointed", "sent"}, push: Nat,
              pos: Nat, ckpt: SUBSET Nat]
TypePush ==
  /\ slave \in {"full", "incr", "pushed"}
  /\ binlogPos \in Nat /\ slavePos \in Nat /\ sent \subseteq Nat
TypeRest ==
  /\ minValidBinlogID \in Nat /\ lastFlushId \in Nat
  /\ committed \subseteq Nat /\ cleared \in BOOLEAN

\* The pieces make up TypeOK, before a step and after it.
LEMMA TypePieces ==
  /\ TypeOK <=> /\ TypeSeqs /\ TypeAliveTxns /\ TypeAliveBinlogs /\ TypeBinlogs
                /\ TypeData /\ TypeTxn /\ TypeCursor /\ TypeRecycle /\ TypeBackup
                /\ TypePush /\ TypeRest
  /\ TypeOK' <=> /\ TypeSeqs' /\ TypeAliveTxns' /\ TypeAliveBinlogs' /\ TypeBinlogs'
                 /\ TypeData' /\ TypeTxn' /\ TypeCursor' /\ TypeRecycle' /\ TypeBackup'
                 /\ TypePush' /\ TypeRest'
BY Zenon DEF TypeOK, TypeSeqs, TypeAliveTxns, TypeAliveBinlogs, TypeBinlogs, TypeData,
      TypeTxn, Txns, TypeCursor, TypeRecycle, TypeBackup, TypePush, TypeRest

\* The initial state satisfies the invariant.
LEMMA InitIInv == Init => IInv
<1> SUFFICES ASSUME Init PROVE IInv
  BY Zenon
<1> USE DEF Init, UNINITED, MIN_VALID_TXNID
<1>1. TypeOK
  <2>1. TypeSeqs
    BY DEF TypeSeqs
  <2>5. TypeData
    BY Zenon DEF TypeData
  <2>6. TypePush
    BY Zenon DEF TypePush
  <2>7. TypeRest
    BY Zenon DEF TypeRest
  <2>2. TypeAliveTxns /\ TypeAliveBinlogs /\ TypeBinlogs
    BY Zenon DEF TypeAliveTxns, TypeAliveBinlogs, TypeBinlogs, Empty
  <2>3. TypeTxn
    BY Zenon DEF TypeTxn, Txns, NoTxn
  <2>4. TypeCursor /\ TypeRecycle /\ TypeBackup
    BY Zenon DEF TypeCursor, TypeRecycle, TypeBackup, NoCursor, NoRecycle, NoBackup
  <2> QED
    BY Zenon, <2>1, <2>2, <2>3, <2>4, <2>5, <2>6, <2>7, TypePieces
<1>2. TxnInv /\ ModeInv /\ OwnerInv
  BY DEF TxnInv, ModeInv, OwnerInv, Open, Owner, NoTxn
<1>3. AliveInv /\ DiskInv
  BY DEF AliveInv, DiskInv, Empty
<1>4. KeptInv /\ CursorInv
  BY DEF KeptInv, CursorInv, NoRecycle, NoCursor
<1> QED
  BY Zenon, <1>1, <1>2, <1>3, <1>4 DEF IInv

\* A step that leaves the store, its disk and its transactions alone keeps the
\* invariant, if the recycler's end stays below the watermark.
LEMMA ReaderStep ==
  ASSUME IInv, UNCHANGED <<store, disk, txn>>, TypeOK', CursorInv',
         recycle'.pc = "read" => recycle'.end = 0 \/ recycle'.end < highestVisible
  PROVE  IInv'
<1> USE DEF IInv, store, disk
<1>1. TxnInv' BY Zenon DEF TxnInv, Open, Owner
<1>2. ModeInv' BY Zenon DEF ModeInv, Open, Owner
<1>3. OwnerInv' BY Zenon DEF OwnerInv, Owner
<1>4. AliveInv' BY Zenon DEF AliveInv, Owner
<1>5. DiskInv' BY Zenon DEF DiskInv
<1>6. KeptInv' BY Zenon DEF KeptInv, FlushPending
<1> QED
  BY Zenon, <1>1, <1>2, <1>3, <1>4, <1>5, <1>6

\* The types of the readers of the binlog survive a step that leaves them alone.
LEMMA ReplTypes ==
  ASSUME TypeOK, UNCHANGED <<push, recycle, backup>>
  PROVE  TypeCursor' /\ TypeRecycle' /\ TypeBackup' /\ TypePush'
BY Zenon, TypePieces DEF push, TypeCursor, TypeRecycle, TypeBackup, TypePush

\* In a store that nobody holds there is no transaction and nothing in flight.
LEMMA EmptyStore ==
  ASSUME IInv, \A w \in Workers : txn[w].pc = "none"
  PROVE  /\ \A w \in Workers : txn[w] = NoTxn /\ ~Open(w) /\ ~Owner(w)
         /\ DOMAIN aliveBinlogs = {}
         /\ ~FlushPending
<1>1. \A w \in Workers : txn[w] = NoTxn /\ ~Open(w) /\ ~Owner(w)
  BY Zenon DEF IInv, TxnInv, Open, Owner
<1>2. ~FlushPending
  BY <1>1 DEF FlushPending, NoTxn
<1> QED
  BY Zenon, <1>1, <1>2, NothingInFlight

\* The three parts of the invariant that speak of transactions hold when
\* there are none.
LEMMA NoTxnsInv ==
  ASSUME \A w \in Workers : (txn[w] = NoTxn)', nextTxnSeq' >= 1
  PROVE  TxnInv' /\ ModeInv' /\ OwnerInv'
<1>1. \A w \in Workers : (~Open(w) /\ ~Owner(w) /\ txn[w].kind = "local" /\ txn[w].keys = {})'
  BY DEF Open, Owner, NoTxn
<1>2. TxnInv'
  BY Zenon, <1>1 DEF TxnInv
<1>3. ModeInv'
  BY Zenon, <1>1 DEF ModeInv
<1>4. OwnerInv'
  BY Zenon, <1>1 DEF OwnerInv
<1> QED
  BY Zenon, <1>2, <1>3, <1>4

-----------------------------------------------------------------------------
(* The readers of the binlog.                                              *)

\* getMinBinlogId returns an id.
LEMMA MinType ==
  ASSUME TypeOK, NEW d \in Nat
  PROVE  getMinBinlogId(d) \in Nat
<1>1. minBinlogId \in Nat /\ DOMAIN binlogs \subseteq Nat
  BY Zenon DEF TypeOK
<1>2. CASE minBinlogId # 0
  BY Zenon, <1>1, <1>2 DEF getMinBinlogId
<1>3. CASE minBinlogId = 0 /\ DOMAIN binlogs # {}
  <2>1. \E n \in DOMAIN binlogs : \A m \in DOMAIN binlogs : n <= m
    BY Zenon, <1>1, <1>3, LeastNat
  <2>2. (CHOOSE n \in DOMAIN binlogs : \A m \in DOMAIN binlogs : n <= m) \in DOMAIN binlogs
    BY Zenon, <2>1
  <2>3. getMinBinlogId(d)
          = CHOOSE n \in DOMAIN binlogs : \A m \in DOMAIN binlogs : n <= m
    BY Zenon, <1>3 DEF getMinBinlogId
  <2> QED
    BY Zenon, <1>1, <2>2, <2>3
<1>4. CASE minBinlogId = 0 /\ DOMAIN binlogs = {}
  BY Zenon, <1>4 DEF getMinBinlogId
<1> QED
  BY Zenon, <1>2, <1>3, <1>4

\* A step of a reader that changes none of the pieces but those named here
\* leaves the types of the store alone.
LEMMA ReaderType ==
  ASSUME TypeOK, UNCHANGED <<store, disk, txn, hist>>,
         TypeCursor', TypeRecycle', TypeBackup', TypePush',
         (minValidBinlogID \in Nat /\ lastFlushId \in Nat)'
  PROVE  TypeOK'
<1>1. TypeSeqs' /\ TypeAliveTxns' /\ TypeAliveBinlogs'
  BY Zenon, TypePieces DEF store, TypeSeqs, TypeAliveTxns, TypeAliveBinlogs
<1>2. TypeBinlogs' /\ TypeData'
  BY Zenon, TypePieces DEF disk, TypeBinlogs, TypeData
<1>3. TypeTxn' /\ TypeRest'
  BY Zenon, TypePieces DEF hist, TypeTxn, TypeRest
<1> QED
  BY Zenon, <1>1, <1>2, <1>3, TypePieces

\* The pusher keeps the invariant.
LEMMA PusherIInv ==
  ASSUME IInv, Pusher
  PROVE  IInv'
<1> USE DEF store, disk, hist, first
<1>0. /\ TypeOK /\ TypeSeqs /\ TypeCursor /\ TypeRecycle /\ TypeBackup /\ TypePush /\ TypeRest
      /\ CursorInv /\ KeptInv
  BY Zenon, TypePieces DEF IInv
<1>1. CASE registerIncrSync
  <2>1. TypeCursor' /\ TypeRecycle' /\ CursorInv'
    BY Zenon, <1>0, <1>1 DEF registerIncrSync, TypeCursor, TypeRecycle, CursorInv
  <2>2. TypeBackup'
    BY Zenon, <1>0, <1>1 DEF registerIncrSync, TypeBackup, NoBackup
  <2>3. TypePush'
    BY Zenon, <1>0, <1>1 DEF registerIncrSync, TypePush
  <2>4. TypeOK'
    BY Zenon, <1>0, <1>1, <2>1, <2>2, <2>3, ReaderType DEF registerIncrSync, TypeRest
  <2> QED
    BY Zenon, <1>0, <1>1, <2>1, <2>4, ReaderStep DEF registerIncrSync, KeptInv
<1>2. CASE createRepllogCursorV2
  <2>1. TypeCursor' /\ CursorInv'
    BY <1>0, <1>2 DEF createRepllogCursorV2, TypeCursor, TypePush, TypeSeqs, CursorInv
  <2>2. TypeRecycle' /\ TypeBackup' /\ TypePush'
    BY Zenon, <1>0, <1>2 DEF createRepllogCursorV2, TypeRecycle, TypeBackup, TypePush
  <2>3. TypeOK'
    BY Zenon, <1>0, <1>2, <2>1, <2>2, ReaderType DEF createRepllogCursorV2, TypeRest
  <2> QED
    BY Zenon, <1>0, <1>2, <2>1, <2>3, ReaderStep DEF createRepllogCursorV2, KeptInv
<1>3. CASE CursorSeek
  <2>1. PICK c : c = getMinBinlogId(cursor.end + 1)
    BY Zenon
  <2>2. c \in Nat
    BY <1>0, <2>1, MinType DEF TypeCursor
  <2>3. TypeCursor' /\ CursorInv'
    BY Zenon, <1>0, <1>3, <2>1, <2>2 DEF CursorSeek, TypeCursor, CursorInv
  <2>4. TypeRecycle' /\ TypeBackup' /\ TypePush'
    BY Zenon, <1>0, <1>3 DEF CursorSeek, TypeRecycle, TypeBackup, TypePush
  <2>5. TypeOK'
    BY Zenon, <1>0, <1>3, <2>3, <2>4, ReaderType DEF CursorSeek, TypeRest
  <2> QED
    BY Zenon, <1>0, <1>3, <2>3, <2>5, ReaderStep DEF CursorSeek, KeptInv
<1>4. CASE CursorNext
  <2>0. PICK g : g = cursor.got \cup ({cursor.cur} \cap DOMAIN binlogs)
    BY Zenon
  <2>4. g \subseteq Nat /\ \A n \in g : n <= cursor.end
    BY Zenon, <1>0, <1>4, <2>0 DEF CursorNext, TypeCursor, CursorInv
  <2>5. cursor' = [cursor EXCEPT !.cur = @ + 1, !.got = g]
    BY Zenon, <1>4, <2>0 DEF CursorNext
  <2>6. cursor'.got = g /\ cursor'.end = cursor.end
    BY Zenon, <1>0, <2>5 DEF TypeCursor
  <2>7. CursorInv'
    BY Zenon, <2>4, <2>6 DEF CursorInv
  <2>8. TypeCursor'
    <3>1. PICK c : c = cursor.cur + 1
      BY Zenon
    <3>2. c \in Nat /\ g \in SUBSET Nat
      BY <1>0, <2>4, <3>1 DEF TypeCursor
    <3>3. cursor' = [cursor EXCEPT !.cur = c, !.got = g]
      BY Zenon, <2>5, <3>1
    <3> QED
      BY Zenon, <1>0, <3>2, <3>3 DEF TypeCursor
  <2>1. TypeCursor' /\ CursorInv'
    BY Zenon, <2>7, <2>8
  <2>2. TypeRecycle' /\ TypeBackup' /\ TypePush'
    BY Zenon, <1>0, <1>4 DEF CursorNext, TypeRecycle, TypeBackup, TypePush
  <2>3. TypeOK'
    BY Zenon, <1>0, <1>4, <2>1, <2>2, ReaderType DEF CursorNext, TypeRest
  <2> QED
    BY Zenon, <1>0, <1>4, <2>1, <2>3, ReaderStep DEF CursorNext, KeptInv
<1>5. CASE SendBatch \/ SendFails
  <2>1. cursor.got \subseteq Nat /\ cursor.end \in Nat /\ \A n \in cursor.got : n <= cursor.end
    BY Zenon, <1>0 DEF TypeCursor, CursorInv
  <2>2. LastOf(cursor.got, slavePos) \in Nat /\ LastOf(cursor.got, binlogPos) \in Nat
    BY Zenon, <1>0, <2>1, LastOfFacts DEF TypePush
  <2>3. TypeCursor' /\ CursorInv'
    BY <1>5 DEF SendBatch, SendFails, NoCursor, TypeCursor, CursorInv
  <2>4. TypePush'
    BY Zenon, <1>0, <1>5, <2>1, <2>2 DEF SendBatch, SendFails, SlaveApplies, TypePush
  <2>5. TypeRecycle' /\ TypeBackup'
    BY Zenon, <1>0, <1>5 DEF SendBatch, SendFails, TypeRecycle, TypeBackup
  <2>6. TypeOK'
    BY Zenon, <1>0, <1>5, <2>3, <2>4, <2>5, ReaderType DEF SendBatch, SendFails, TypeRest
  <2> QED
    BY Zenon, <1>0, <1>5, <2>3, <2>6, ReaderStep DEF SendBatch, SendFails, KeptInv
<1> QED
  BY Zenon, <1>1, <1>2, <1>3, <1>4, <1>5 DEF Pusher

\* The last id to recycle is below the watermark, as KeepNum is not zero, or
\* it is 0: nothing to recycle.
LEMMA RecycleEndFacts ==
  ASSUME TypeOK
  PROVE  RecycleEnd \in Nat /\ (RecycleEnd = 0 \/ RecycleEnd < highestVisible)
<1>1. highestVisible \in Nat /\ binlogPos \in Nat /\ backup.push \in Nat
  BY Zenon DEF TypeOK
<1> QED
  BY <1>1, KeepsOne DEF RecycleEnd, Least

\* The recycler, up to the step that drops binlogs, keeps the invariant.
LEMMA RecyclerReadsIInv ==
  ASSUME IInv, recycleBinlog \/ TruncateNothing \/ RecycleReturns
  PROVE  IInv'
<1> USE DEF store, disk, hist, first, push
<1>0. /\ TypeOK /\ TypeSeqs /\ TypeCursor /\ TypeRecycle /\ TypeBackup /\ TypePush /\ TypeRest
      /\ CursorInv /\ KeptInv
  BY Zenon, TypePieces DEF IInv
<1>1. UNCHANGED <<store, disk, txn, hist, push, backup, lastFlushId>>
  BY Zenon DEF recycleBinlog, TruncateNothing, RecycleReturns
<1>2. TypeCursor' /\ TypeBackup' /\ TypePush' /\ CursorInv'
  BY Zenon, <1>0, <1>1 DEF TypeCursor, TypeBackup, TypePush, CursorInv
<1>3. /\ TypeRecycle' /\ minValidBinlogID' \in Nat
      /\ recycle'.pc = "read" => recycle'.end = 0 \/ recycle'.end < highestVisible
  <2>1. CASE recycleBinlog
    <3>1. PICK e : e = RecycleEnd
      BY Zenon
    <3>2. e \in Nat /\ (e = 0 \/ e < highestVisible)
      BY Zenon, <1>0, <3>1, RecycleEndFacts
    <3> QED
      BY Zenon, <1>0, <2>1, <3>1, <3>2 DEF recycleBinlog, TypeRecycle, TypeRest
  <2>2. CASE TruncateNothing
    BY Zenon, <1>0, <2>2 DEF TruncateNothing, TypeRecycle, TypeRest
  <2>3. CASE RecycleReturns
    BY Zenon, <1>0, <2>3 DEF RecycleReturns, NoRecycle, TypeRecycle, TypeRest
  <2> QED
    BY Zenon, <2>1, <2>2, <2>3
<1>4. TypeOK'
  BY Zenon, <1>0, <1>1, <1>2, <1>3, ReaderType DEF TypeRest
<1> QED
  BY Zenon, <1>1, <1>2, <1>3, <1>4, ReaderStep

\* The full sync keeps the invariant: it only reads the store.
LEMMA FullSyncIInv ==
  ASSUME IInv, FullSync
  PROVE  IInv'
<1> USE DEF store, disk, hist, first, push
<1>0. /\ TypeOK /\ TypeSeqs /\ TypeCursor /\ TypeRecycle /\ TypeBackup /\ TypePush /\ TypeRest
      /\ CursorInv /\ KeptInv
  BY Zenon, TypePieces DEF IInv
<1>1. UNCHANGED <<store, disk, txn, hist, cursor, recycle, first>>
  BY Zenon DEF FullSync, supplyFullSync, BackupPosition, CreateCheckpoint, FullSyncDone,
         FullSyncFails, FullSyncAnswerLost, recycleFullPushStatus
<1>2. TypeCursor' /\ TypeRecycle' /\ CursorInv'
  BY Zenon, <1>0, <1>1 DEF TypeCursor, TypeRecycle, CursorInv
<1>3. TypeBackup'
  <2>1. CASE supplyFullSync \/ BackupPosition
    BY Zenon, <1>0, <2>1 DEF supplyFullSync, BackupPosition, TypeBackup, TypeSeqs
  <2>2. CASE CreateCheckpoint \/ FullSyncDone
    BY Zenon, <1>0, <2>2 DEF CreateCheckpoint, FullSyncDone, TypeBackup, TypeRest
  <2>3. CASE FullSyncFails \/ FullSyncAnswerLost \/ recycleFullPushStatus
    BY <2>3 DEF FullSyncFails, FullSyncAnswerLost, recycleFullPushStatus, NoBackup, TypeBackup
  <2> QED
    BY Zenon, <2>1, <2>2, <2>3 DEF FullSync
<1>4. TypePush'
  <2>1. backup.pos \in Nat /\ backup.ckpt \subseteq Nat
    BY Zenon, <1>0 DEF TypeBackup
  <2>2. CASE supplyFullSync \/ FullSyncDone \/ FullSyncAnswerLost
    BY Zenon, <1>0, <2>1, <2>2 DEF supplyFullSync, FullSyncDone, FullSyncAnswerLost, TypePush
  <2>3. CASE BackupPosition \/ CreateCheckpoint \/ FullSyncFails \/ recycleFullPushStatus
    BY Zenon, <1>0, <2>3 DEF BackupPosition, CreateCheckpoint, FullSyncFails, recycleFullPushStatus,
                      TypePush
  <2> QED
    BY Zenon, <2>2, <2>3 DEF FullSync
<1>5. TypeOK'
  BY Zenon, <1>0, <1>1, <1>2, <1>3, <1>4, ReaderType DEF TypeRest
<1> QED
  BY Zenon, <1>0, <1>1, <1>2, <1>5, ReaderStep DEF KeptInv
=============================================================================

------------------------ MODULE KVStoreBinlogProofs -------------------------
(***************************************************************************)
(* Proofs about KVStoreBinlog, for every set of workers and keys and every *)
(* bound: types, no reuse of binlog ids, the head of _aliveBinlogs, and    *)
(* the watermark that never goes back.                                     *)
(***************************************************************************)
EXTENDS KVStoreBinlogTxnProofs

-----------------------------------------------------------------------------
(* Recycling, and the life of the store.                                   *)

\* Dropping old binlogs keeps the invariant: the recycler stays below the
\* watermark, so a restart still finds it, and no id in flight is dropped.
LEMMA TruncateIInv ==
  ASSUME IInv, NEW newStart \in 1..MaxBinlog, NEW gone \in SUBSET DOMAIN binlogs,
         truncateBinlogV2(newStart, gone)
  PROVE  IInv'
<1> USE BoundsAreNat DEF store, hist, push, first
<1>0. TypeOK /\ TypeSeqs /\ TypeBinlogs /\ TypeData /\ TypeRecycle
  BY Zenon, TypePieces DEF IInv
<1>1. UNCHANGED <<store, data, txn, push, first, backup, hist>>
  BY Zenon DEF truncateBinlogV2
<1>2. /\ DOMAIN binlogs' = DOMAIN binlogs \ gone
      /\ \A n \in DOMAIN binlogs' : binlogs'[n] = binlogs[n]
  <2>1. binlogs' = Without(binlogs, gone)
    BY Zenon DEF truncateBinlogV2
  <2> QED
    BY Zenon, <2>1 DEF Without
<1>3. \A n \in gone : n <= recycle.end /\ (recycle.end = 0 \/ recycle.end < highestVisible)
  BY <1>0 DEF truncateBinlogV2, IInv, KeptInv, TypeBinlogs, TypeRecycle
<1>4. \A n \in Nat : n # 0 /\ highestVisible <= n => (n \in DOMAIN binlogs' <=> n \in DOMAIN binlogs)
  BY <1>0, <1>2, <1>3 DEF TypeSeqs, TypeRecycle
<1>5. TypeOK'
  <2>1. TypeRecycle'
    <3>1. newStart \in Nat /\ recycle' = [recycle EXCEPT !.pc = "truncated", !.start = newStart]
      BY DEF truncateBinlogV2
    <3> QED
      BY Zenon, <1>0, <3>1 DEF TypeRecycle
  <2>2. TypeBinlogs' /\ TypeData'
    BY <1>0, <1>1, <1>2 DEF truncateBinlogV2, TypeBinlogs, TypeData
  <2>3. TypeSeqs' /\ TypeAliveTxns' /\ TypeAliveBinlogs' /\ TypeTxn' /\ TypeRest'
    BY Zenon, <1>0, <1>1, TypePieces DEF TypeSeqs, TypeAliveTxns, TypeAliveBinlogs, TypeTxn, TypeRest
  <2>4. TypeCursor' /\ TypeBackup' /\ TypePush'
    BY Zenon, <1>0, <1>1, TypePieces DEF TypeCursor, TypeBackup, TypePush
  <2> QED
    BY Zenon, <2>1, <2>2, <2>3, <2>4, TypePieces
<1>6. TxnInv' /\ ModeInv' /\ CursorInv'
  BY Zenon, <1>1 DEF IInv, TxnInv, ModeInv, CursorInv, Open, Owner
<1>7. \A n \in DOMAIN aliveBinlogs : n \in DOMAIN binlogs' <=> n \in DOMAIN binlogs
  BY <1>0, <1>4 DEF IInv, AliveInv, TypeOK
<1>8. OwnerInv'
  BY Zenon, <1>1, <1>7 DEF IInv, OwnerInv, Owner
<1>9. AliveInv'
  BY Zenon, <1>1, <1>7 DEF IInv, AliveInv, Owner
<1>10. DiskInv'
  BY Zenon, <1>1, <1>2 DEF IInv, DiskInv
<1>11. KeptInv'
  <2>1. (recycle.pc # "read")'
    BY Zenon, <1>0 DEF truncateBinlogV2, TypeRecycle
  <2>2. (highestVisible = 0 \/ FlushPending \/ \E n \in DOMAIN binlogs : highestVisible <= n)'
    BY <1>0, <1>1, <1>4 DEF IInv, KeptInv, FlushPending, TypeSeqs, TypeBinlogs
  <2> QED
    BY Zenon, <2>1, <2>2 DEF KeptInv
<1> QED
  BY Zenon, <1>5, <1>6, <1>8, <1>9, <1>10, <1>11 DEF IInv

\* Changing the mode keeps the invariant: nobody is in the store.
LEMMA SetModeIInv ==
  ASSUME IInv, NEW m \in {"READ_WRITE", "REPLICATE_ONLY"}, setMode(m)
  PROVE  IInv'
<1> USE DEF store, disk, hist, push, first, repl
<1>0. TypeOK /\ TypeSeqs
  BY Zenon, TypePieces DEF IInv
<1>1. UNCHANGED <<isRunning, nextBinlogSeq, aliveTxns, aliveBinlogs, highestVisible, disk, txn,
                  repl, hist>>
  BY Zenon DEF setMode
<1>2. mode' = m /\ nextTxnSeq' \in Nat /\ nextTxnSeq' >= 1
  BY <1>0 DEF setMode, IInv, TxnInv, TypeSeqs
<1>3. /\ \A w \in Workers : txn[w] = NoTxn /\ ~Open(w) /\ ~Owner(w)
      /\ DOMAIN aliveBinlogs = {}
      /\ ~FlushPending
  BY Zenon, EmptyStore DEF setMode, NobodyInStore
<1>4. TypeOK'
  <2>1. TypeSeqs'
    BY Zenon, <1>0, <1>1, <1>2 DEF TypeSeqs
  <2>2. TypeAliveTxns' /\ TypeAliveBinlogs' /\ TypeBinlogs' /\ TypeData' /\ TypeTxn' /\ TypeRest'
    BY Zenon, <1>0, <1>1, TypePieces DEF TypeAliveTxns, TypeAliveBinlogs, TypeBinlogs, TypeData,
                                  TypeTxn, TypeRest
  <2>3. TypeCursor' /\ TypeRecycle' /\ TypeBackup' /\ TypePush'
    BY Zenon, <1>0, <1>1, ReplTypes
  <2> QED
    BY Zenon, <2>1, <2>2, <2>3, TypePieces
<1>5. TxnInv' /\ ModeInv' /\ OwnerInv'
  BY Zenon, <1>1, <1>2, <1>3, NoTxnsInv
<1>6. AliveInv'
  BY Zenon, <1>1, <1>3 DEF IInv, AliveInv
<1>7. DiskInv' /\ CursorInv'
  BY Zenon, <1>1 DEF IInv, DiskInv, CursorInv
<1>8. KeptInv'
  BY Zenon, <1>1 DEF IInv, KeptInv, FlushPending
<1> QED
  BY Zenon, <1>4, <1>5, <1>6, <1>7, <1>8 DEF IInv

\* A crash keeps the invariant: what is on disk stays, and unless a flush is
\* pending the last binlog on disk is not below the watermark.
LEMMA CrashIInv ==
  ASSUME IInv, Crash
  PROVE  IInv'
<1> USE DEF store, disk, hist, push, first
<1>0. TypeOK /\ TypeSeqs /\ TypePush
  BY Zenon, TypePieces DEF IInv
<1>1. /\ isRunning' = FALSE /\ aliveTxns' = Empty /\ aliveBinlogs' = Empty
      /\ txn' = [w \in Workers |-> NoTxn]
      /\ cursor' = NoCursor /\ recycle' = NoRecycle /\ backup' = NoBackup
      /\ UNCHANGED <<mode, nextTxnSeq, nextBinlogSeq, highestVisible, disk,
                     binlogPos, slavePos, sent, first, hist>>
  BY Zenon DEF Crash, Die
<1>2. \A w \in Workers : (txn[w] = NoTxn)'
  BY Zenon, <1>1
<1>3. DOMAIN aliveBinlogs' = {} /\ DOMAIN aliveTxns' = {}
  BY Zenon, <1>1 DEF Empty
<1>4. TypeOK'
  <2>1. TypeSeqs' /\ TypeAliveTxns' /\ TypeAliveBinlogs'
    BY Zenon, <1>0, <1>1, <1>3 DEF TypeSeqs, TypeAliveTxns, TypeAliveBinlogs
  <2>2. TypeBinlogs' /\ TypeData' /\ TypeRest'
    BY Zenon, <1>0, <1>1, TypePieces DEF TypeBinlogs, TypeData, TypeRest
  <2>3. TypeTxn'
    BY Zenon, <1>1 DEF TypeTxn, Txns, NoTxn, UNINITED
  <2>4. TypeCursor' /\ TypeRecycle' /\ TypeBackup'
    BY Zenon, <1>1 DEF TypeCursor, TypeRecycle, TypeBackup, NoCursor, NoRecycle, NoBackup
  <2>5. TypePush'
    BY Zenon, <1>0, <1>1 DEF Crash, Die, TypePush
  <2> QED
    BY Zenon, <2>1, <2>2, <2>3, <2>4, <2>5, TypePieces
<1>5. TxnInv' /\ ModeInv' /\ OwnerInv'
  BY Zenon, <1>1, <1>2, NoTxnsInv DEF IInv, TxnInv
<1>6. AliveInv'
  BY Zenon, <1>1, <1>3 DEF IInv, AliveInv
<1>7. DiskInv' /\ CursorInv'
  BY Zenon, <1>1 DEF IInv, DiskInv, CursorInv, NoCursor
<1>8. KeptInv'
  BY Zenon, <1>1 DEF IInv, KeptInv, Crash, NoRecycle
<1> QED
  BY Zenon, <1>4, <1>5, <1>6, <1>7, <1>8 DEF IInv

\* The watermark a restart takes from the disk: the last binlog there, which
\* is not below the watermark before the crash.
LEMMA RestartWatermark ==
  ASSUME IInv, restart
  PROVE  /\ highestVisible' \in Nat /\ nextBinlogSeq' = highestVisible' + 1
         /\ highestVisible' >= highestVisible
         /\ highestVisible' = 0 \/ highestVisible' \in DOMAIN binlogs
         /\ \A n \in DOMAIN binlogs : n <= highestVisible'
<1>0. TypeOK /\ TypeSeqs /\ TypeBinlogs
  BY Zenon, TypePieces DEF IInv
<1>1. \A w \in Workers : txn[w].pc = "none"
  BY Zenon DEF restart, IInv, TxnInv, Open
<1>2. ~FlushPending
  BY Zenon, <1>1, EmptyStore
<1>3. PICK top : top = LastOf(DOMAIN binlogs, 0)
  BY Zenon
<1>4. /\ top \in Nat
      /\ DOMAIN binlogs # {} => top \in DOMAIN binlogs /\ \A m \in DOMAIN binlogs : m <= top
      /\ DOMAIN binlogs = {} => top = 0
  <2>1. DOMAIN binlogs \subseteq Nat /\ nextBinlogSeq \in Nat
        /\ \A n \in DOMAIN binlogs : n <= nextBinlogSeq
    BY <1>0 DEF IInv, DiskInv, TypeSeqs, TypeBinlogs
  <2> QED
    BY Zenon, <1>3, <2>1, LastOfFacts
<1>5. highestVisible' = top /\ nextBinlogSeq' = top + 1
  BY <1>3 DEF restart, Reopen, MIN_VALID_TXNID
<1>6. highestVisible = 0 \/ \E n \in DOMAIN binlogs : highestVisible <= n
  BY Zenon, <1>2 DEF IInv, KeptInv
<1>7. top >= highestVisible
  BY <1>0, <1>4, <1>6 DEF TypeSeqs, TypeBinlogs
<1> QED
  BY Zenon, <1>4, <1>5, <1>7

\* A restart keeps the invariant.
LEMMA RestartIInv ==
  ASSUME IInv, restart
  PROVE  IInv'
<1> USE DEF store, disk, hist, push
<1>0. TypeOK /\ TypeSeqs
  BY Zenon, TypePieces DEF IInv
<1>1. /\ isRunning' = TRUE
      /\ nextTxnSeq' = nextBinlogSeq'
      /\ UNCHANGED <<mode, aliveTxns, aliveBinlogs, disk, txn, push, recycle, backup, hist>>
  BY Zenon DEF restart, Reopen
<1>2. /\ highestVisible' \in Nat /\ nextBinlogSeq' = highestVisible' + 1
      /\ highestVisible' >= highestVisible
      /\ highestVisible' = 0 \/ highestVisible' \in DOMAIN binlogs
      /\ \A n \in DOMAIN binlogs : n <= highestVisible'
  BY Zenon, RestartWatermark
<1>10. nextBinlogSeq' \in Nat /\ nextTxnSeq' \in Nat /\ nextTxnSeq' >= 1
       /\ highestVisible' < nextBinlogSeq'
  <2>1. PICK n \in Nat : n = highestVisible'
    BY Zenon, <1>2
  <2>2. nextBinlogSeq' = n + 1 /\ nextTxnSeq' = n + 1
    BY Zenon, <1>1, <1>2, <2>1
  <2>3. n + 1 \in Nat /\ n + 1 >= 1 /\ n < n + 1
    BY Zenon, NextId
  <2> QED
    BY Zenon, <2>1, <2>2, <2>3
<1>3. (\A w \in Workers : txn[w] = NoTxn) /\ DOMAIN aliveBinlogs = {}
  <2>1. \A w \in Workers : txn[w].pc = "none"
    BY Zenon DEF restart, IInv, TxnInv, Open
  <2> QED
    BY Zenon, <2>1, EmptyStore
<1>4. TypeOK'
  <2>1. TypeSeqs'
    BY Zenon, <1>0, <1>1, <1>2, <1>10 DEF TypeSeqs
  <2>2. TypeAliveTxns' /\ TypeAliveBinlogs' /\ TypeBinlogs' /\ TypeData' /\ TypeTxn'
    BY Zenon, <1>0, <1>1, TypePieces DEF TypeAliveTxns, TypeAliveBinlogs, TypeBinlogs, TypeData, TypeTxn
  <2>3. TypeCursor' /\ TypeRecycle' /\ TypeBackup' /\ TypePush'
    BY Zenon, <1>0, <1>1, ReplTypes
  <2>4. minValidBinlogID' \in Nat /\ lastFlushId' \in Nat
    BY Zenon, <1>0, MinType DEF restart, MIN_VALID_TXNID, UNINITED
  <2>5. TypeRest'
    BY Zenon, <1>0, <1>1, <2>4, TypePieces DEF TypeRest
  <2> QED
    BY Zenon, <2>1, <2>2, <2>3, <2>5, TypePieces
<1>5. TxnInv' /\ ModeInv' /\ OwnerInv'
  <2>1. \A w \in Workers : (txn[w] = NoTxn)'
    BY Zenon, <1>1, <1>3
  <2> QED
    BY Zenon, <1>10, <2>1, NoTxnsInv
<1>6. AliveInv'
  <2>1. DOMAIN aliveBinlogs' = {}
    BY Zenon, <1>1, <1>3
  <2> QED
    BY Zenon, <1>10, <2>1 DEF AliveInv
<1>7. DiskInv'
  BY <1>1, <1>2, TypePieces, <1>0 DEF DiskInv, TypeBinlogs
<1>8. CursorInv'
  BY Zenon, <1>1 DEF IInv, CursorInv
<1>9. KeptInv'
  BY <1>0, <1>1, <1>2, TypePieces DEF IInv, KeptInv, TypeSeqs, TypeRecycle
<1> QED
  BY Zenon, <1>4, <1>5, <1>6, <1>7, <1>8, <1>9 DEF IInv

\* A flush keeps the invariant: it starts an empty store over at its own id.
LEMMA FlushIInv ==
  ASSUME IInv, NEW w \in Workers, NEW seq \in 1..MaxBinlog, flush(w, seq)
  PROVE  IInv'
<1> USE BoundsAreNat DEF hist, first
<1> DEFINE r == [pc |-> "open", kind |-> "flush", id |-> seq, binlogId |-> UNINITED, keys |-> Keys]
<1>0. /\ TypeOK /\ TypeSeqs /\ TypeAliveTxns /\ TypeTxn /\ TypePush
      /\ seq \in Nat /\ seq >= 1 /\ seq - 1 \in Nat /\ seq - 1 < seq
  BY TypePieces DEF IInv
<1>1. /\ isRunning' = TRUE /\ binlogs' = Empty /\ data' = [k \in Keys |-> UNINITED]
      /\ minBinlogId' = 0 /\ nextTxnSeq' = seq + 1 /\ aliveTxns' = With(aliveTxns, seq, UNINITED)
      /\ txn' = [txn EXCEPT ![w] = r] /\ cleared' = TRUE /\ committed' = {}
      /\ sent' = sent \cap {seq}
      /\ UNCHANGED <<mode, aliveBinlogs, slave, cursor, binlogPos, slavePos, first, recycle, backup>>
  BY Zenon DEF flush, Reopen
<1>2. highestVisible' = seq - 1 /\ nextBinlogSeq' = seq
  <2>1. LastOf(DOMAIN Empty, seq - 1) = seq - 1
    BY Zenon DEF LastOf, Empty
  <2>2. highestVisible' = seq - 1 /\ nextBinlogSeq' = (seq - 1) + 1
    BY Zenon, <2>1 DEF flush, Reopen
  <2> QED
    BY <1>0, <2>2
<1>3. /\ \A v \in Workers : txn[v] = NoTxn /\ ~Open(v) /\ ~Owner(v)
      /\ DOMAIN aliveBinlogs = {}
      /\ recycle.pc # "read"
  BY Zenon, EmptyStore DEF flush, NobodyInStore
<1>4. /\ txn'[w] = r
      /\ \A v \in Workers : v # w => txn'[v] = NoTxn
  BY Zenon, <1>0, <1>1, <1>3 DEF TypeTxn
<1>5. DOMAIN binlogs' = {} /\ DOMAIN aliveBinlogs' = {}
  BY Zenon, <1>1, <1>3 DEF Empty
<1>6. \A v \in Workers : ~Owner(v)'
  BY SMTT(40), <1>4 DEF Owner, NoTxn
<1>7. /\ DOMAIN aliveTxns' = DOMAIN aliveTxns \cup {seq}
      /\ aliveTxns'[seq] = UNINITED
      /\ \A t \in DOMAIN aliveTxns : t # seq => aliveTxns'[t] = aliveTxns[t]
  BY Zenon, <1>1 DEF With
<1>8. TypeOK'
  <2>1. TypeSeqs'
    BY <1>0, <1>1, <1>2 DEF TypeSeqs
  <2>2. TypeAliveTxns'
    BY <1>0, <1>7 DEF TypeAliveTxns, UNINITED
  <2>3. TypeAliveBinlogs' /\ TypeBinlogs'
    BY Zenon, <1>5 DEF TypeAliveBinlogs, TypeBinlogs
  <2>4. TypeData'
    BY Zenon, <1>1 DEF TypeData, UNINITED
  <2>5. r \in Txns
    BY Zenon, <1>0 DEF Txns, UNINITED
  <2>6. TypeTxn'
    BY Zenon, <1>0, <1>1, <2>5 DEF TypeTxn
  <2>7. TypeCursor' /\ TypeRecycle' /\ TypeBackup'
    BY Zenon, <1>0, <1>1, TypePieces DEF TypeCursor, TypeRecycle, TypeBackup
  <2>8. TypePush'
    BY Zenon, <1>0, <1>1 DEF TypePush
  <2>9. TypeRest'
    BY Zenon, <1>0, <1>1, TypePieces DEF TypeRest
  <2> QED
    BY Zenon, <2>1, <2>2, <2>3, <2>4, <2>6, <2>7, <2>8, <2>9, TypePieces
<1>9. TxnInv'
  <2>1. nextTxnSeq' >= 1 /\ seq < nextTxnSeq'
    BY <1>0, <1>1
  <2>2. /\ Open(w)' /\ txn'[w].id = seq /\ txn'[w].binlogId = UNINITED
        /\ \A v \in Workers : v # w => ~Open(v)' /\ txn'[v] = NoTxn
    BY <1>4 DEF Open, NoTxn
  <2> QED
    BY Zenon, <1>0, <1>1, <1>6, <1>7, <2>1, <2>2 DEF TxnInv
<1>10. ModeInv'
  BY SMTT(40), <1>4, <1>6 DEF ModeInv, Open, NoTxn
<1>11. OwnerInv'
  BY Zenon, <1>6 DEF OwnerInv
<1>12. AliveInv'
  BY Zenon, <1>0, <1>2, <1>5 DEF AliveInv
<1>13. DiskInv' /\ CursorInv'
  BY Zenon, <1>1, <1>5 DEF IInv, DiskInv, CursorInv
<1>14. KeptInv'
  BY <1>1, <1>3, <1>4 DEF KeptInv, FlushPending
<1> QED
  BY Zenon, <1>8, <1>9, <1>10, <1>11, <1>12, <1>13, <1>14 DEF IInv

-----------------------------------------------------------------------------
(* The theorems.                                                           *)

\* No step that leaves the store's variables alone moves the watermark.
LEMMA StutterIInv ==
  ASSUME IInv, UNCHANGED vars
  PROVE  IInv' /\ highestVisible' = highestVisible
<1> USE DEF vars, store, disk, repl, push, first, hist
<1>0. TypeOK /\ TypeCursor /\ TypeRecycle /\ TypeBackup /\ TypePush /\ TypeRest
  BY Zenon, TypePieces DEF IInv
<1>1. TypeCursor' /\ TypeRecycle' /\ TypeBackup' /\ TypePush'
  BY Zenon, <1>0, ReplTypes
<1>2. TypeOK'
  BY Zenon, <1>0, <1>1, ReaderType DEF TypeRest
<1>3. CursorInv' /\ (recycle'.pc = "read" => recycle'.end = 0 \/ recycle'.end < highestVisible)
  BY Zenon DEF IInv, CursorInv, KeptInv
<1> QED
  BY Zenon, <1>2, <1>3, ReaderStep

\* Every step keeps the invariant, and moves the watermark back only in a
\* flush.
LEMMA NextIInv ==
  ASSUME IInv, [Next]_vars
  PROVE  IInv' /\ (highestVisible' >= highestVisible \/ Flushing')
<1>0. highestVisible \in Nat
  BY Zenon DEF IInv, TypeOK
<1>11. highestVisible' = highestVisible => highestVisible' >= highestVisible
  BY <1>0
<1>1. ASSUME NEW w \in Workers, NEW kind \in {"local", "apply"}, NEW K \in SUBSET Keys,
             createTransaction(w, kind, K)
      PROVE  IInv' /\ highestVisible' = highestVisible
  BY Zenon, <1>1, CreateIInv DEF createTransaction
<1>2. ASSUME NEW w \in Workers, WorkerStep(w)
      PROVE  IInv' /\ highestVisible' >= highestVisible
  <2>1. CASE assignBinlogIdIfNeeded(w)
    <3>1. IInv'
      BY Zenon, <2>1, AssignIInv
    <3>2. highestVisible' = highestVisible
      BY Zenon, <2>1 DEF assignBinlogIdIfNeeded, TakeBinlogId
    <3> QED
      BY Zenon, <1>11, <3>1, <3>2
  <2>2. ASSUME NEW id \in 1..MaxBinlog, setNextBinlogSeq(w, id)
        PROVE  IInv' /\ highestVisible' >= highestVisible
    <3>1. IInv'
      BY Zenon, <2>2, SetNextIInv
    <3>2. highestVisible' = highestVisible
      BY Zenon, <2>2 DEF setNextBinlogSeq, TakeBinlogId
    <3> QED
      BY Zenon, <1>11, <3>1, <3>2
  <2>3. CASE txnCommit(w)
    <3>1. IInv'
      BY Zenon, <2>3, CommitIInv
    <3>2. highestVisible' = highestVisible
      BY Zenon, <2>3 DEF txnCommit, store
    <3> QED
      BY Zenon, <1>11, <3>1, <3>2
  <2>4. CASE txnCommitFails(w)
    <3>1. IInv'
      BY Zenon, <2>4, CommitFailsIInv
    <3>2. highestVisible' = highestVisible
      BY Zenon, <2>4 DEF txnCommitFails, CommitFails, store
    <3> QED
      BY Zenon, <1>11, <3>1, <3>2
  <2>5. CASE markCommitted(w) \/ EndWithoutBinlog(w)
    BY Zenon, <2>5, EndIInv
  <2> QED
    BY Zenon, <1>2, <2>1, <2>2, <2>3, <2>4, <2>5 DEF WorkerStep
<1>3. ASSUME NEW w \in Workers, NEW seq \in 1..MaxBinlog, flush(w, seq)
      PROVE  IInv' /\ Flushing'
  <2>1. txn \in [Workers -> Txns]
    BY Zenon, TypePieces DEF IInv, TypeTxn
  <2>2. txn'[w].kind = "flush"
    BY Zenon, <1>3, <2>1 DEF flush
  <2> QED
    BY Zenon, <1>3, <2>2, FlushIInv DEF Flushing
<1>4. ASSUME NEW m \in {"READ_WRITE", "REPLICATE_ONLY"}, setMode(m)
      PROVE  IInv' /\ highestVisible' = highestVisible
  BY Zenon, <1>4, SetModeIInv DEF setMode
<1>5. CASE Pusher
  <2>1. IInv'
    BY Zenon, <1>5, PusherIInv
  <2>2. highestVisible' = highestVisible
    BY Zenon, <1>5 DEF Pusher, registerIncrSync, createRepllogCursorV2, CursorSeek, CursorNext,
                SendBatch, SendFails, store
  <2> QED
    BY Zenon, <1>11, <2>1, <2>2
<1>6. CASE Recycler
  <2>1. CASE recycleBinlog \/ TruncateNothing \/ RecycleReturns
    <3>1. IInv'
      BY Zenon, <2>1, RecyclerReadsIInv
    <3>2. highestVisible' = highestVisible
      BY Zenon, <2>1 DEF recycleBinlog, TruncateNothing, RecycleReturns, store
    <3> QED
      BY Zenon, <1>11, <3>1, <3>2
  <2>2. ASSUME NEW newStart \in 1..MaxBinlog, NEW gone \in SUBSET DOMAIN binlogs,
               truncateBinlogV2(newStart, gone)
        PROVE  IInv' /\ highestVisible' >= highestVisible
    <3>1. IInv'
      BY Zenon, <2>2, TruncateIInv
    <3>2. highestVisible' = highestVisible
      BY Zenon, <2>2 DEF truncateBinlogV2, store
    <3> QED
      BY Zenon, <1>11, <3>1, <3>2
  <2> QED
    BY Zenon, <1>6, <2>1, <2>2 DEF Recycler
<1>7. CASE FullSync
  <2>1. highestVisible' = highestVisible
    BY Zenon, <1>7 DEF FullSync, supplyFullSync, BackupPosition, CreateCheckpoint, FullSyncDone,
                FullSyncFails, FullSyncAnswerLost, recycleFullPushStatus, store
  <2> QED
    BY <1>0, <1>7, <2>1, FullSyncIInv
<1>8. CASE Crash
  <2>1. IInv'
    BY Zenon, <1>8, CrashIInv
  <2>2. highestVisible' = highestVisible
    BY Zenon, <1>8 DEF Crash, Die
  <2> QED
    BY Zenon, <1>11, <2>1, <2>2
<1>9. CASE restart
  BY Zenon, <1>9, RestartIInv, RestartWatermark
<1>10. CASE UNCHANGED vars
  BY <1>0, <1>10, StutterIInv
<1> QED
  BY <1>0, <1>1, <1>2, <1>3, <1>4, <1>5, <1>6, <1>7, <1>8, <1>9, <1>10 DEF Next

\* The inductive invariant holds in every reachable state.
THEOREM Inductive == Spec => []IInv
<1>1. Init => IInv
  BY Zenon, InitIInv
<1>2. IInv /\ [Next]_vars => IInv'
  BY Zenon, NextIInv
<1> QED
  BY <1>1, <1>2, PTL DEF Spec

\* The store, its disk and the threads in it stay in their types.
THEOREM TypeCorrect == Spec => []TypeOK
<1>1. IInv => TypeOK
  BY Zenon DEF IInv
<1> QED
  BY <1>1, Inductive, PTL

\* _nextBinlogSeq never goes back to an id that is on disk or in flight, so no
\* binlog overwrites another, for any number of threads, crashes, flushes and
\* changes of mode.
THEOREM IdsNotReused == Spec => []NoIdReuse
<1>1. IInv => NoIdReuse
  BY Zenon DEF IInv, AliveInv, DiskInv, NoIdReuse
<1> QED
  BY <1>1, Inductive, PTL

\* The first id of _aliveBinlogs belongs to an open transaction, so whoever
\* ends that transaction pops it: the watermark is never stuck behind a
\* committed id.
THEOREM HeadIsInFlight == Spec => []HeadInFlight
<1>1. ASSUME IInv PROVE HeadInFlight
  <2>1. SUFFICES ASSUME NEW n \in DOMAIN aliveBinlogs, \A m \in DOMAIN aliveBinlogs : n <= m
                 PROVE  /\ ~aliveBinlogs[n].done
                        /\ \E t \in DOMAIN aliveTxns : aliveTxns[t] = n
    BY Zenon DEF HeadInFlight
  <2>2. ~aliveBinlogs[n].done
    BY Zenon, <1>1, <2>1 DEF IInv, AliveInv
  <2>3. PICK w \in Workers : Owner(w) /\ txn[w].binlogId = n
    BY Zenon, <1>1, <2>2 DEF IInv, AliveInv
  <2>4. txn[w].id \in DOMAIN aliveTxns /\ aliveTxns[txn[w].id] = n
    BY Zenon, <1>1, <2>3 DEF IInv, TxnInv, Open, Owner
  <2> QED
    BY Zenon, <2>2, <2>4
<1> QED
  BY <1>1, Inductive, PTL

\* The watermark a reader has seen stays visible: neither markCommittedInLock
\* nor restart takes it back.  A restart finds it again because the recycler
\* leaves a binlog at or above it.
THEOREM WatermarkMonotone == Spec => WatermarkNeverGoesBack
<1>1. IInv /\ [Next]_vars => [highestVisible' >= highestVisible \/ Flushing']_vars
  BY Zenon, NextIInv
<1> QED
  BY <1>1, Inductive, PTL DEF Spec, WatermarkNeverGoesBack
=============================================================================

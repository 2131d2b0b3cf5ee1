--------------------- MODULE KVStoreBinlogReadersProofs ---------------------
(***************************************************************************)
(* What the readers of the binlog may rely on: the slave misses nothing,   *)
(* the recycler keeps what a slave or a full sync needs, the binlog        *)
(* explains the data, and a flush is the first binlog.                     *)
(***************************************************************************)
EXTENDS KVStoreBinlogProofs

-----------------------------------------------------------------------------
(* The inductive invariant, on top of IInv.                                *)

\* The history and the disk agree: what was written is there unless the
\* recycler may have dropped it.
HistInv ==
  /\ DOMAIN binlogs \subseteq committed
  /\ \A n \in committed : /\ n \in DOMAIN binlogs \/ n < minBinlogId
                          /\ n >= 1 /\ n < nextBinlogSeq
  /\ minBinlogId <= highestVisible

\* A flush is alone in an empty store, and takes the id it started with.
FlushOf(w) ==
  /\ minBinlogId = 0 /\ cursor.pc = "idle" /\ recycle.pc # "read"
  /\ backup.pc \in {"idle", "sent"}
  /\ \A k \in Keys : data[k] = UNINITED
  /\ highestVisible + 1 = txn[w].id
  /\ txn[w].pc = "open" => nextBinlogSeq = txn[w].id
  /\ Owner(w) => txn[w].binlogId = txn[w].id
  /\ txn[w].pc # "written" => committed = {}
  /\ txn[w].pc = "written" => committed = {txn[w].id} /\ IsFlush(txn[w].id)

FlushInv == \A w \in Workers : txn[w].kind = "flush" => FlushOf(w)

\* After a flush the first binlog is the flush, and it is visible.
FirstInv ==
  cleared /\ minBinlogId = 0 /\ ~Flushing =>
    \E n \in DOMAIN binlogs :
      /\ binlogs[n].flush
      /\ \A m \in DOMAIN binlogs : n <= m
      /\ isRunning => n <= highestVisible

\* No id at or below p is handed out again, except to a flush that S has: p is
\* visible, or it is the flush that is being repeated, or it will be visible
\* after the restart.
Reached(p, S) ==
  \/ p <= highestVisible
  \/ p \in S /\ \E w \in Workers : txn[w].kind = "flush" /\ txn[w].id = p
  \/ ~isRunning /\ p \in DOMAIN binlogs

\* The positions of the slave, and what the recycler leaves it.
SlaveInv ==
  /\ slave # "full" => /\ Reached(slavePos, sent)
                       /\ \A n \in committed : n <= slavePos => n \in sent
  /\ slave = "pushed" => /\ Reached(binlogPos, sent)
                         /\ \A n \in committed : n <= binlogPos => n \in sent
                         /\ \A n \in committed : n > binlogPos => n >= minBinlogId
                         /\ recycle.pc = "read" => recycle.end <= binlogPos

\* A cursor has read every binlog between the slave's position and its own.
PushInv ==
  /\ cursor.pc # "idle" => slave = "pushed" /\ cursor.end <= highestVisible
  /\ cursor.pc = "opened" => cursor.cur = binlogPos + 1 /\ cursor.got = {}
  /\ cursor.pc = "reading" =>
       /\ cursor.cur > binlogPos
       /\ \A n \in committed :
            binlogPos < n /\ n < cursor.cur /\ n <= cursor.end => n \in cursor.got
       /\ \A n \in cursor.got : binlogPos < n /\ n < cursor.cur

\* The position of a full sync, and what the recycler leaves it.
BackupInv ==
  /\ backup.pc # "idle" => /\ minBinlogId <= backup.push + 1
                           /\ recycle.pc = "read" => recycle.end <= backup.push
  /\ backup.pc \in {"pushing", "positioned", "checkpointed"} => slave = "full"
  /\ backup.pc = "pushing" => backup.push <= highestVisible
  /\ backup.pc = "positioned" => backup.push <= backup.pos /\ backup.pos <= highestVisible
  /\ backup.pc \in {"checkpointed", "sent"} =>
       /\ backup.push <= backup.pos
       /\ Reached(backup.pos, backup.ckpt)
       /\ \A n \in committed : n <= backup.pos => n \in backup.ckpt

\* minValidBinlogID, by which INCRSYNC is refused, is not below the saved
\* minimum, unless the recycler is about to raise it; and nothing is older than
\* the last flush.
ValidInv ==
  /\ ~isRunning => recycle.pc = "idle"
  /\ isRunning =>
       /\ minValidBinlogID >= 1
       /\ recycle.pc # "truncated" => minBinlogId <= minValidBinlogID
       /\ recycle.pc # "idle" => recycle.start >= 1 /\ minBinlogId <= recycle.start
       /\ \A n \in committed : lastFlushId <= n
       /\ lastFlushId <= highestVisible + 1

\* Writers of one key take their ids in the order in which they write.
DataInv ==
  /\ \A v, w \in Workers : v # w => txn[v].keys \cap txn[w].keys = {}
  /\ \A w \in Workers, n \in DOMAIN binlogs :
       txn[w].pc = "assigned" /\ binlogs[n].keys \cap txn[w].keys # {} => n < txn[w].binlogId
  /\ \A k \in Keys, n \in DOMAIN binlogs :
       /\ n >= minBinlogId /\ k \in binlogs[n].keys
       /\ \A m \in DOMAIN binlogs : k \in binlogs[m].keys => m <= n
       => data[k] = IF binlogs[n].flush THEN UNINITED ELSE n

RInv ==
  /\ HistInv /\ FlushInv /\ FirstInv /\ SlaveInv
  /\ PushInv /\ BackupInv /\ ValidInv /\ DataInv

-----------------------------------------------------------------------------
(* Facts that several steps use.                                           *)

\* The numbers of the state are natural numbers.
LEMMA Numbers ==
  ASSUME TypeOK
  PROVE  /\ nextTxnSeq \in Nat /\ nextBinlogSeq \in Nat /\ highestVisible \in Nat
         /\ DOMAIN binlogs \subseteq Nat /\ committed \subseteq Nat /\ sent \subseteq Nat
         /\ minBinlogId \in Nat /\ minValidBinlogID \in Nat /\ lastFlushId \in Nat
         /\ binlogPos \in Nat /\ slavePos \in Nat
         /\ cursor.cur \in Nat /\ cursor.end \in Nat /\ cursor.got \subseteq Nat
         /\ recycle.end \in Nat /\ recycle.start \in Nat
         /\ backup.push \in Nat /\ backup.pos \in Nat /\ backup.ckpt \subseteq Nat
         /\ \A w \in Workers : txn[w].id \in Nat /\ txn[w].binlogId \in Nat
BY Zenon, TypePieces DEF TypeSeqs, TypeBinlogs, TypeRest, TypePush, TypeData, TypeCursor, TypeRecycle,
                  TypeBackup, TypeTxn, Txns

\* What was written is visible, or still in flight.
LEMMA CommittedBound ==
  ASSUME IInv, HistInv, isRunning, NEW n \in committed
  PROVE  n <= highestVisible \/ n \in DOMAIN aliveBinlogs
<1>1. TypeOK
  BY Zenon DEF IInv
<1>2. CASE n \in DOMAIN binlogs
  BY Zenon, <1>2 DEF IInv, DiskInv
<1>3. CASE n < minBinlogId
  BY <1>1, <1>3, Numbers DEF HistInv
<1> QED
  BY Zenon, <1>2, <1>3 DEF HistInv

\* A step that leaves the store, the disk, the transactions and the history
\* alone keeps the parts that speak of nothing else.
LEMMA ReaderRInv ==
  ASSUME HistInv, FirstInv, DataInv, UNCHANGED <<store, disk, txn, hist>>
  PROVE  HistInv' /\ FirstInv' /\ DataInv'
<1> USE DEF store, disk, hist
<1>1. HistInv'
  BY Zenon DEF HistInv
<1>2. FirstInv'
  BY Zenon DEF FirstInv, Flushing
<1>3. DataInv'
  BY DEF DataInv
<1> QED
  BY Zenon, <1>1, <1>2, <1>3

-----------------------------------------------------------------------------
(* The pusher.                                                             *)

\* The slave registers: what it lacks is not below the saved minimum, since
\* minValidBinlogID is not, or nothing is older than the flush it begins with.
LEMMA RegisterRInv ==
  ASSUME IInv, RInv, registerIncrSync
  PROVE  RInv'
<1> USE DEF RInv
<1>0. TypeOK
  BY Zenon DEF IInv
<1>1. /\ isRunning /\ ~Flushing /\ slave = "incr" /\ recycle.pc = "idle"
      /\ minValidBinlogID <= slavePos + 1 \/ minValidBinlogID = lastFlushId
      /\ slave' = "pushed" /\ binlogPos' = slavePos
      /\ backup' = IF backup.pc = "sent" THEN NoBackup ELSE backup
      /\ UNCHANGED <<store, disk, txn, cursor, slavePos, sent, first, recycle, hist>>
  BY Zenon DEF registerIncrSync
<1>2. HistInv' /\ FirstInv' /\ DataInv'
  BY Zenon, <1>1, ReaderRInv
<1>3. FlushInv'
  BY Zenon, <1>1 DEF FlushInv, FlushOf, Flushing
<1>4. ASSUME NEW n \in committed, n > slavePos
      PROVE  n >= minBinlogId
  <2>1. minBinlogId <= minValidBinlogID /\ lastFlushId <= n
    BY Zenon, <1>1 DEF ValidInv
  <2> QED
    BY <1>0, <1>1, <1>4, <2>1, Numbers
<1>5. SlaveInv'
  BY Zenon, <1>1, <1>4 DEF SlaveInv, Reached, store, disk, hist
<1>6. PushInv'
  BY Zenon, <1>1 DEF PushInv
<1>7. BackupInv'
  <2>1. CASE backup.pc = "sent"
    BY Zenon, <1>1, <2>1 DEF BackupInv, NoBackup
  <2>2. CASE backup.pc # "sent"
    <3>1. backup.pc = "idle"
      BY Zenon, <1>0, <1>1, <2>2, TypePieces DEF BackupInv, TypeBackup
    <3> QED
      BY Zenon, <1>1, <2>2, <3>1 DEF BackupInv
  <2> QED
    BY Zenon, <2>1, <2>2
<1>8. ValidInv'
  BY Zenon, <1>1 DEF ValidInv, store, disk, first, hist
<1> QED
  BY Zenon, <1>2, <1>3, <1>5, <1>6, <1>7, <1>8

\* Opening a cursor, moving it to the first id that is left, and reading: the
\* cursor passes over no binlog.
LEMMA CursorRInv ==
  ASSUME IInv, RInv, createRepllogCursorV2 \/ CursorSeek \/ CursorNext
  PROVE  RInv'
<1> USE DEF RInv
<1>0. TypeOK
  BY Zenon DEF IInv
<1>1. UNCHANGED <<store, disk, txn, slave, binlogPos, slavePos, sent, first, recycle, backup, hist>>
  BY Zenon DEF createRepllogCursorV2, CursorSeek, CursorNext
<1>2. HistInv' /\ FirstInv' /\ DataInv'
  BY Zenon, <1>1, ReaderRInv
<1>3. ~Flushing
  BY Zenon DEF createRepllogCursorV2, CursorSeek, CursorNext, FlushInv, FlushOf, Flushing
<1>4. FlushInv'
  BY Zenon, <1>1, <1>3 DEF FlushInv, FlushOf, Flushing
<1>5. SlaveInv' /\ BackupInv'
  BY Zenon, <1>1 DEF SlaveInv, BackupInv, Reached, store, disk, hist
<1>6. ValidInv'
  BY Zenon, <1>1 DEF ValidInv, store, disk, first, hist
<1>7. PushInv'
  <2> USE DEF PushInv
  <2>0. /\ highestVisible' = highestVisible /\ committed' = committed /\ slave' = slave
        /\ binlogPos' = binlogPos
    BY Zenon, <1>1 DEF store, hist
  <2>1. CASE createRepllogCursorV2
    BY <1>0, <2>0, <2>1, Numbers DEF createRepllogCursorV2
  <2>2. CASE CursorSeek
    <3>1. /\ cursor.pc = "opened" /\ cursor.cur = binlogPos + 1 /\ cursor.got = {}
          /\ slave = "pushed"
      BY Zenon, <2>2 DEF CursorSeek
    <3>2. \A n \in committed : n > binlogPos => n \in DOMAIN binlogs /\ n >= minBinlogId
      BY <1>0, <3>1, Numbers DEF SlaveInv, HistInv
    <3>3. PICK c : c = IF cursor.cur <= MIN_VALID_TXNID THEN getMinBinlogId(cursor.end + 1) ELSE cursor.cur
      BY Zenon
    <3>4. /\ cursor'.pc = "reading" /\ cursor'.cur = c
          /\ cursor'.end = cursor.end /\ cursor'.got = {}
      <4>1. cursor' = [cursor EXCEPT !.pc = "reading", !.cur = c]
        BY Zenon, <2>2, <3>3 DEF CursorSeek
      <4> QED
        BY Zenon, <1>0, <3>1, <4>1, TypePieces DEF TypeCursor
    <3>5. c > binlogPos /\ \A n \in committed : binlogPos < n => n >= c \/ n > cursor.end
      <4>1. CASE cursor.cur > MIN_VALID_TXNID
        BY <1>0, <3>1, <3>3, <4>1, Numbers DEF MIN_VALID_TXNID
      <4>2. CASE ~(cursor.cur > MIN_VALID_TXNID)
        <5>1. binlogPos = 0 /\ c = getMinBinlogId(cursor.end + 1)
          BY <1>0, <3>1, <3>3, <4>2, Numbers DEF MIN_VALID_TXNID
        <5>2. CASE minBinlogId # 0
          BY <1>0, <3>2, <5>1, <5>2, Numbers DEF getMinBinlogId
        <5>3. CASE minBinlogId = 0 /\ DOMAIN binlogs # {}
          <6>1. \E n \in DOMAIN binlogs : \A m \in DOMAIN binlogs : n <= m
            BY Zenon, <1>0, <5>3, LeastNat, Numbers
          <6>2. c = CHOOSE n \in DOMAIN binlogs : \A m \in DOMAIN binlogs : n <= m
            BY Zenon, <5>1, <5>3 DEF getMinBinlogId
          <6>3. c \in DOMAIN binlogs /\ \A m \in DOMAIN binlogs : c <= m
            BY Zenon, <6>1, <6>2
          <6> QED
            BY <1>0, <3>2, <5>1, <6>3, Numbers DEF HistInv
        <5>4. CASE minBinlogId = 0 /\ DOMAIN binlogs = {}
          BY SMTT(40), <1>0, <3>2, <5>1, <5>4, Numbers DEF getMinBinlogId
        <5> QED
          BY Zenon, <5>2, <5>3, <5>4
      <4> QED
        BY Zenon, <4>1, <4>2
    <3>6. c \in Nat
      BY <1>0, <3>3, MinType, Numbers
    <3> QED
      BY <1>0, <2>0, <3>1, <3>4, <3>5, <3>6, Numbers
  <2>3. CASE CursorNext
    <3>0. cursor.pc = "reading" /\ cursor.cur <= cursor.end /\ slave = "pushed"
      BY Zenon, <2>3 DEF CursorNext
    <3>1. PICK g : g = cursor.got \cup ({cursor.cur} \cap DOMAIN binlogs)
      BY Zenon
    <3>2. /\ cursor'.pc = "reading" /\ cursor'.cur = cursor.cur + 1
          /\ cursor'.end = cursor.end /\ cursor'.got = g
      <4>1. cursor' = [cursor EXCEPT !.cur = cursor.cur + 1, !.got = g]
        BY Zenon, <2>3, <3>1 DEF CursorNext
      <4> QED
        BY Zenon, <1>0, <3>0, <4>1, TypePieces DEF TypeCursor
    <3>3. \A n \in committed : n > binlogPos => n \in DOMAIN binlogs
      BY <1>0, <3>0, Numbers DEF SlaveInv, HistInv
    <3>4. ASSUME NEW n \in committed, binlogPos < n, n < cursor.cur + 1, n <= cursor.end
          PROVE  n \in g
      <4>1. CASE n = cursor.cur
        BY Zenon, <3>1, <3>3, <3>4, <4>1
      <4>2. CASE n # cursor.cur
        <5>1. n < cursor.cur
          BY <1>0, <3>4, <4>2, Numbers
        <5> QED
          BY Zenon, <3>0, <3>1, <3>4, <5>1
      <4> QED
        BY Zenon, <4>1, <4>2
    <3>5. \A n \in g : binlogPos < n /\ n < cursor.cur + 1
      BY <1>0, <3>0, <3>1, Numbers
    <3> QED
      BY <1>0, <2>0, <3>0, <3>2, <3>4, <3>5, Numbers
  <2> QED
    BY Zenon, <2>1, <2>2, <2>3
<1> QED
  BY Zenon, <1>2, <1>4, <1>5, <1>6, <1>7

\* A batch that was sent, whatever became of the answer: what is at or below the
\* last id of the batch has reached the slave.
LEMMA SendRInv ==
  ASSUME IInv, RInv, SendBatch \/ SendFails
  PROVE  RInv'
<1> USE DEF RInv
<1>0. TypeOK
  BY Zenon DEF IInv
<1>1. /\ cursor.pc = "reading" /\ cursor' = NoCursor
      /\ UNCHANGED <<store, disk, txn, first, recycle, backup, hist>>
  BY Zenon DEF SendBatch, SendFails
<1>2. HistInv' /\ FirstInv' /\ DataInv'
  BY Zenon, <1>1, ReaderRInv
<1>3. slave = "pushed" /\ cursor.end <= highestVisible /\ ~Flushing
  BY Zenon, <1>1 DEF PushInv, FlushInv, FlushOf, Flushing
<1>4. FlushInv'
  BY Zenon, <1>1, <1>3 DEF FlushInv, FlushOf, Flushing
<1>5. PushInv'
  BY Zenon, <1>1 DEF PushInv, NoCursor
<1>6. BackupInv'
  <2>1. backup.pc \notin {"pushing", "positioned", "checkpointed"}
    BY Zenon, <1>3 DEF BackupInv
  <2> QED
    BY Zenon, <1>1, <2>1 DEF BackupInv, Reached, store, disk, hist
<1>7. ValidInv'
  BY Zenon, <1>1 DEF ValidInv, store, disk, first, hist
<1>8. SlaveInv'
  <2>1. PICK L : L = LastOf(cursor.got, binlogPos)
    BY Zenon
  <2>2. PICK M : M = LastOf(cursor.got, slavePos)
    BY Zenon
  <2>3. cursor.got \subseteq Nat /\ cursor.end \in Nat /\ \A n \in cursor.got : n <= cursor.end
    BY Zenon, <1>0, Numbers DEF IInv, CursorInv
  <2>4. /\ L \in Nat /\ M \in Nat
        /\ cursor.got # {} => L \in cursor.got /\ M \in cursor.got
        /\ cursor.got = {} => L = binlogPos /\ M = slavePos
    BY Zenon, <1>0, <2>1, <2>2, <2>3, LastOfFacts, Numbers
  <2>5. /\ \A n \in cursor.got : binlogPos < n /\ n < cursor.cur /\ n <= highestVisible
        /\ \A n \in committed :
             binlogPos < n /\ n < cursor.cur /\ n <= cursor.end => n \in cursor.got
    BY <1>0, <1>1, <1>3, <2>3, Numbers DEF PushInv
  <2>6. ASSUME NEW x \in cursor.got, NEW n \in committed, n <= x
        PROVE  n \in sent \cup cursor.got
    <3>1. CASE n <= binlogPos
      BY Zenon, <1>3, <3>1 DEF SlaveInv
    <3>2. CASE binlogPos < n
      BY <1>0, <2>3, <2>5, <2>6, <3>2, Numbers
    <3> QED
      BY <1>0, <3>1, <3>2, Numbers
  <2>7. highestVisible' = highestVisible /\ txn' = txn /\ committed' = committed /\ recycle' = recycle
        /\ minBinlogId' = minBinlogId /\ isRunning' = isRunning /\ binlogs' = binlogs
    BY Zenon, <1>1 DEF store, disk, hist
  <2>8. /\ SlaveApplies \/ UNCHANGED <<sent, slavePos>>
        /\ slave' = "pushed" => SlaveApplies /\ binlogPos' = L
        /\ slave' \in {"pushed", "incr"}
    BY Zenon, <1>3, <2>1 DEF SendBatch, SendFails
  <2>9. slavePos' \in {slavePos, M} /\ sent \subseteq sent'
        /\ (slavePos' # slavePos \/ slave' = "pushed" => sent' = sent \cup cursor.got)
    BY Zenon, <2>2, <2>8 DEF SlaveApplies
  <2>10. Reached(slavePos, sent)' /\ \A n \in committed : n <= slavePos' => n \in sent'
    <3>1. CASE slavePos' = slavePos
      BY Zenon, <1>3, <2>7, <2>9, <3>1 DEF SlaveInv, Reached
    <3>2. CASE slavePos' = M /\ M # slavePos
      BY Zenon, <2>4, <2>5, <2>6, <2>7, <2>9, <3>2 DEF Reached
    <3> QED
      BY Zenon, <2>9, <3>1, <3>2
  <2>11. ASSUME slave' = "pushed"
         PROVE  /\ Reached(binlogPos, sent)'
                /\ \A n \in committed : n <= binlogPos' => n \in sent'
                /\ \A n \in committed : n > binlogPos' => n >= minBinlogId
                /\ recycle.pc = "read" => recycle.end <= binlogPos'
    <3>1. binlogPos' = L /\ sent' = sent \cup cursor.got
      BY Zenon, <2>8, <2>9, <2>11
    <3>2. CASE cursor.got = {}
      BY Zenon, <1>3, <2>4, <2>7, <3>1, <3>2 DEF SlaveInv, Reached
    <3>3. CASE cursor.got # {}
      <4>1. L \in cursor.got /\ binlogPos < L /\ L <= highestVisible
        BY Zenon, <2>4, <2>5, <3>3
      <4>2. Reached(binlogPos, sent)'
        BY Zenon, <2>7, <3>1, <4>1 DEF Reached
      <4>3. \A n \in committed : n <= L => n \in sent'
        BY Zenon, <2>6, <3>1, <4>1
      <4>4. /\ \A n \in committed : n > L => n >= minBinlogId
            /\ recycle.pc = "read" => recycle.end <= L
        BY <1>0, <1>3, <2>4, <4>1, Numbers DEF SlaveInv
      <4> QED
        BY Zenon, <3>1, <4>2, <4>3, <4>4
    <3> QED
      BY Zenon, <3>2, <3>3
  <2> QED
    BY Zenon, <2>7, <2>10, <2>11 DEF SlaveInv
<1> QED
  BY Zenon, <1>2, <1>4, <1>5, <1>6, <1>7, <1>8

-----------------------------------------------------------------------------
(* The recycler.                                                           *)

\* The last id the recycler may drop is not needed by the pusher or by a full
\* sync.
LEMMA RecycleEndSpares ==
  ASSUME TypeOK
  PROVE  /\ RecycleEnd \in Nat
         /\ slave = "pushed" => RecycleEnd <= binlogPos
         /\ backup.pc # "idle" => RecycleEnd <= backup.push
<1>1. /\ highestVisible \in Nat /\ binlogPos \in Nat /\ backup.push \in Nat
  BY Zenon, Numbers
<1> QED
  BY <1>1, KeepsOne DEF RecycleEnd, Least

\* The recycler looks, finds nothing, or returns.
LEMMA RecyclerReadsRInv ==
  ASSUME IInv, RInv, recycleBinlog \/ TruncateNothing \/ RecycleReturns
  PROVE  RInv'
<1> USE DEF RInv
<1>0. TypeOK
  BY Zenon DEF IInv
<1>1. UNCHANGED <<store, disk, txn, push, lastFlushId, backup, hist>>
  BY Zenon DEF recycleBinlog, TruncateNothing, RecycleReturns, first
<1>2. HistInv' /\ FirstInv' /\ DataInv'
  BY Zenon, <1>1, ReaderRInv
<1>3. TruncateNothing \/ RecycleReturns => recycle'.pc # "read"
  BY <1>0, TypePieces DEF TruncateNothing, RecycleReturns, NoRecycle, TypeRecycle
<1>4. recycle'.pc = "read" => ~Flushing /\ recycle'.end = RecycleEnd
  BY <1>3 DEF recycleBinlog
<1>5. FlushInv'
  BY Zenon, <1>1, <1>4 DEF FlushInv, FlushOf, Flushing, store, disk, push, hist, Owner, IsFlush
<1>6. SlaveInv'
  BY Zenon, <1>0, <1>1, <1>4, RecycleEndSpares DEF SlaveInv, Reached, store, disk, push, hist
<1>7. PushInv'
  BY Zenon, <1>1 DEF PushInv, store, push, hist
<1>8. BackupInv'
  BY Zenon, <1>0, <1>1, <1>4, RecycleEndSpares DEF BackupInv, Reached, store, disk, push, hist
<1>9. ValidInv'
  <2>4. isRunning
    BY Zenon DEF recycleBinlog, TruncateNothing, RecycleReturns, ValidInv
  <2> SUFFICES /\ minValidBinlogID' >= 1
               /\ recycle'.pc # "truncated" => minBinlogId <= minValidBinlogID'
               /\ recycle'.pc # "idle" => recycle'.start >= 1 /\ minBinlogId <= recycle'.start
    BY Zenon, <1>1, <2>4 DEF ValidInv, store, disk, hist
  <2>0. ValidInv /\ minBinlogId \in Nat /\ minValidBinlogID \in Nat /\ recycle.start \in Nat
    BY Zenon, <1>0, Numbers
  <2>1. CASE recycleBinlog
    BY Zenon, <2>0, <2>1, <2>4 DEF recycleBinlog, first, ValidInv
  <2>2. CASE TruncateNothing
    <3>1. recycle'.pc = "truncated" /\ recycle'.start = recycle.start /\ UNCHANGED first
      BY Zenon, <1>0, <2>2, TypePieces DEF TruncateNothing, TypeRecycle
    <3> QED
      BY Zenon, <2>0, <2>2, <2>4, <3>1 DEF TruncateNothing, first, ValidInv
  <2>3. CASE RecycleReturns
    <3>1. recycle'.pc = "idle"
      BY Zenon, <2>3 DEF RecycleReturns, NoRecycle
    <3> QED
      BY <2>0, <2>3, <2>4, <3>1 DEF RecycleReturns, ValidInv, MIN_VALID_TXNID
  <2> QED
    BY Zenon, <2>1, <2>2, <2>3
<1> QED
  BY Zenon, <1>2, <1>5, <1>6, <1>7, <1>8, <1>9

\* The recycler drops binlogs: only such as nobody needs, and it leaves the last
\* one about each key that counts.
LEMMA TruncateRInv ==
  ASSUME IInv, RInv, NEW newStart \in 1..MaxBinlog, NEW gone \in SUBSET DOMAIN binlogs,
         truncateBinlogV2(newStart, gone)
  PROVE  RInv'
<1> USE DEF RInv
<1>0. TypeOK /\ newStart \in Nat /\ newStart >= 1
  BY BoundsAreNat DEF IInv
<1>1. /\ recycle.pc = "read" /\ newStart > recycle.start /\ newStart <= recycle.end + 1
      /\ gone \subseteq {n \in DOMAIN binlogs : n < newStart}
      /\ minBinlogId' = newStart /\ binlogs' = Without(binlogs, gone)
      /\ recycle' = [recycle EXCEPT !.pc = "truncated", !.start = newStart]
      /\ UNCHANGED <<store, data, txn, push, first, backup, hist>>
  BY Zenon DEF truncateBinlogV2
<1>2. recycle'.pc = "truncated" /\ recycle'.start = newStart /\ recycle'.end = recycle.end
  BY Zenon, <1>0, <1>1, TypePieces DEF TypeRecycle
<1>3. /\ DOMAIN binlogs' = DOMAIN binlogs \ gone
      /\ \A n \in DOMAIN binlogs' : binlogs'[n] = binlogs[n]
  BY Zenon, <1>1 DEF Without
<1>4. ~Flushing
  BY Zenon, <1>1 DEF FlushInv, FlushOf, Flushing
<1>5. isRunning
  <2>1. ~isRunning => recycle.pc = "idle"
    BY Zenon DEF ValidInv
  <2> QED
    BY Zenon, <1>1, <2>1
<1>6. recycle.start >= 1 /\ minBinlogId <= recycle.start /\ minBinlogId < newStart
  BY <1>0, <1>1, <1>5, Numbers DEF ValidInv
<1>7. recycle.end < highestVisible /\ newStart <= highestVisible
  BY <1>0, <1>1, <1>6, Numbers DEF IInv, KeptInv
<1>8. HistInv'
  <2>1. minBinlogId' <= highestVisible'
    BY Zenon, <1>1, <1>7 DEF store
  <2>2. DOMAIN binlogs' \subseteq committed'
    BY Zenon, <1>1, <1>3 DEF HistInv, hist
  <2>3. ASSUME NEW n \in committed PROVE n \in DOMAIN binlogs' \/ n < newStart
    <3>1. CASE n \in DOMAIN binlogs
      BY Zenon, <1>1, <1>3, <3>1
    <3>2. CASE n < minBinlogId
      BY <1>0, <1>6, <3>2, Numbers
    <3> QED
      BY Zenon, <3>1, <3>2 DEF HistInv
  <2> QED
    BY Zenon, <1>1, <2>1, <2>2, <2>3 DEF HistInv, store, hist
<1>9. FlushInv' /\ FirstInv'
  BY <1>0, <1>1, <1>4 DEF FlushInv, FlushOf, FirstInv, Flushing
<1>10. SlaveInv'
  <2>1. slave = "pushed" => \A n \in committed : n > binlogPos => n >= newStart
    BY <1>0, <1>1, Numbers DEF SlaveInv
  <2>3. /\ slave' = slave /\ slavePos' = slavePos /\ binlogPos' = binlogPos /\ sent' = sent
        /\ committed' = committed
    BY Zenon, <1>1 DEF push, hist
  <2>4. /\ Reached(slavePos, sent) => Reached(slavePos, sent)'
        /\ Reached(binlogPos, sent) => Reached(binlogPos, sent)'
    BY Zenon, <1>1, <1>5, <2>3 DEF Reached, store
  <2> QED
    BY Zenon, <1>1, <1>2, <2>1, <2>3, <2>4 DEF SlaveInv
<1>11. PushInv'
  BY Zenon, <1>1 DEF PushInv, store, push, hist
<1>12. BackupInv'
  <2>1. Reached(backup.pos, backup.ckpt) => Reached(backup.pos, backup.ckpt)'
    BY Zenon, <1>1, <1>5 DEF Reached, store
  <2>2. backup.pc # "idle" => newStart <= backup.push + 1
    BY <1>0, <1>1, Numbers DEF BackupInv
  <2> QED
    BY Zenon, <1>1, <1>2, <2>1, <2>2 DEF BackupInv, store, push, hist
<1>13. ValidInv'
  BY <1>0, <1>1, <1>2, <1>5 DEF ValidInv, store, first, hist
<1>14. DataInv'
  <2>1. \A w \in Workers, n \in DOMAIN binlogs' :
          txn[w].pc = "assigned" /\ binlogs'[n].keys \cap txn[w].keys # {} => n < txn[w].binlogId
    BY Zenon, <1>3 DEF DataInv
  <2>2. ASSUME NEW k \in Keys, NEW n \in DOMAIN binlogs',
               n >= newStart, k \in binlogs'[n].keys,
               \A m \in DOMAIN binlogs' : k \in binlogs'[m].keys => m <= n
        PROVE  data[k] = IF binlogs'[n].flush THEN UNINITED ELSE n
    <3>1. n \in DOMAIN binlogs /\ binlogs'[n] = binlogs[n] /\ n >= minBinlogId
      BY SMTT(40), <1>0, <1>3, <1>6, <2>2, Numbers
    <3>2. ASSUME NEW m \in DOMAIN binlogs, k \in binlogs[m].keys PROVE m <= n
      <4>1. CASE m \in gone
        BY <1>0, <1>1, <2>2, <3>1, <4>1, Numbers
      <4>2. CASE m \notin gone
        BY Zenon, <1>3, <2>2, <3>2, <4>2
      <4> QED
        BY Zenon, <4>1, <4>2
    <3> QED
      BY Zenon, <2>2, <3>1, <3>2 DEF DataInv
  <2> QED
    BY <1>1, <2>1, <2>2 DEF DataInv
<1> QED
  BY Zenon, <1>8, <1>9, <1>10, <1>11, <1>12, <1>13, <1>14

-----------------------------------------------------------------------------
(* The full sync.                                                          *)

\* The checkpoint is taken after the position, so it holds what the position
\* counts; and the entry in _fullPushStatus is made before either.
LEMMA FullSyncRInv ==
  ASSUME IInv, RInv, FullSync
  PROVE  RInv'
<1> USE DEF RInv
<1>0. TypeOK
  BY Zenon DEF IInv
<1>1. UNCHANGED <<store, disk, txn, cursor, binlogPos, first, recycle, hist>>
  BY Zenon DEF FullSync, supplyFullSync, BackupPosition, CreateCheckpoint, FullSyncDone,
         FullSyncFails, FullSyncAnswerLost, recycleFullPushStatus, push
<1>2. HistInv' /\ FirstInv' /\ DataInv'
  BY Zenon, <1>1, ReaderRInv
<1>3. ValidInv'
  BY Zenon, <1>1 DEF ValidInv, store, disk, first, hist
<1>4. /\ highestVisible' = highestVisible /\ committed' = committed /\ binlogPos' = binlogPos
      /\ minBinlogId' = minBinlogId /\ recycle' = recycle /\ cursor' = cursor /\ txn' = txn
      /\ isRunning' = isRunning /\ binlogs' = binlogs
  BY Zenon, <1>1 DEF store, disk, hist
<1>5. backup \in [pc: {"idle", "pushing", "positioned", "checkpointed", "sent"}, push: Nat,
                  pos: Nat, ckpt: SUBSET Nat]
  BY Zenon, <1>0, TypePieces DEF TypeBackup
<1>6. CASE supplyFullSync
  <2>1. /\ slave # "pushed" /\ slave' = "full" /\ ~Flushing
        /\ backup'.pc = "pushing" /\ backup'.push = highestVisible
    BY Zenon, <1>5, <1>6 DEF supplyFullSync
  <2>2. recycle.pc = "read" => recycle.end <= highestVisible
    BY <1>0, Numbers DEF IInv, KeptInv
  <2>3. minBinlogId <= highestVisible + 1
    BY <1>0, Numbers DEF HistInv
  <2>4. FlushInv' /\ SlaveInv' /\ PushInv'
    BY Zenon, <1>4, <2>1 DEF FlushInv, FlushOf, Flushing, SlaveInv, PushInv
  <2>5. BackupInv'
    BY SMTT(40), <1>0, <1>4, <2>1, <2>2, <2>3, Numbers DEF BackupInv
  <2> QED
    BY Zenon, <1>2, <1>3, <2>4, <2>5
<1>7. CASE BackupPosition \/ CreateCheckpoint \/ FullSyncFails \/ recycleFullPushStatus
  <2>1. UNCHANGED push
    BY Zenon, <1>7 DEF BackupPosition, CreateCheckpoint, FullSyncFails, recycleFullPushStatus
  <2>2. SlaveInv' /\ PushInv'
    BY Zenon, <1>4, <2>1 DEF SlaveInv, PushInv, Reached, push
  <2>3. backup'.pc \notin {"idle", "sent"} => ~Flushing
    BY <1>7 DEF BackupPosition, CreateCheckpoint, FullSyncFails, recycleFullPushStatus, NoBackup,
                FlushInv, FlushOf, Flushing
  <2>4. FlushInv'
    <3>1. backup'.pc \in {"idle", "sent"} => FlushInv'
      BY Zenon, <1>1 DEF FlushInv, FlushOf, store, disk, hist, Owner, IsFlush
    <3>2. ~Flushing => FlushInv'
      BY Zenon, <1>4 DEF FlushInv, FlushOf, Flushing
    <3> QED
      BY Zenon, <2>3, <3>1, <3>2
  <2>5. BackupInv'
    <3>1. CASE BackupPosition
      <4>1. /\ backup.pc = "pushing" /\ backup'.pc = "positioned"
            /\ backup'.pos = highestVisible /\ backup'.push = backup.push
        BY Zenon, <1>5, <3>1 DEF BackupPosition
      <4> QED
        BY SMTT(40), <1>0, <1>4, <2>1, <4>1, Numbers DEF BackupInv, push
    <3>2. CASE CreateCheckpoint
      <4>1. /\ backup.pc = "positioned" /\ backup'.pc = "checkpointed"
            /\ backup'.pos = backup.pos /\ backup'.push = backup.push
            /\ backup'.ckpt = committed
        BY Zenon, <1>5, <3>2 DEF CreateCheckpoint
      <4> QED
        BY Zenon, <1>4, <2>1, <4>1 DEF BackupInv, Reached, push
    <3>3. CASE FullSyncFails \/ recycleFullPushStatus
      BY SMTT(40), <3>3 DEF FullSyncFails, recycleFullPushStatus, NoBackup, BackupInv
    <3> QED
      BY Zenon, <1>7, <3>1, <3>2, <3>3
  <2> QED
    BY Zenon, <1>2, <1>3, <2>2, <2>4, <2>5
<1>8. CASE FullSyncDone \/ FullSyncAnswerLost
  <2>1. /\ backup.pc = "checkpointed" /\ slave' = "incr"
        /\ slavePos' = backup.pos /\ sent' = backup.ckpt
        /\ backup' = NoBackup \/ backup' = [backup EXCEPT !.pc = "sent"]
    BY Zenon, <1>8 DEF FullSyncDone, FullSyncAnswerLost
  <2>2. ~Flushing /\ cursor.pc = "idle"
    BY Zenon, <2>1 DEF FlushInv, FlushOf, Flushing, BackupInv, PushInv
  <2>3. FlushInv' /\ PushInv'
    BY Zenon, <1>4, <2>2 DEF FlushInv, FlushOf, Flushing, PushInv
  <2>4. SlaveInv'
    BY Zenon, <1>4, <2>1 DEF SlaveInv, BackupInv, Reached
  <2>5. BackupInv'
    <3>1. CASE backup' = NoBackup
      BY Zenon, <3>1 DEF NoBackup, BackupInv
    <3>2. CASE backup' = [backup EXCEPT !.pc = "sent"]
      <4>1. /\ backup'.pc = "sent" /\ backup'.pos = backup.pos
            /\ backup'.push = backup.push /\ backup'.ckpt = backup.ckpt
        BY Zenon, <1>5, <3>2
      <4> QED
        BY Zenon, <1>4, <2>1, <4>1 DEF BackupInv, Reached
    <3> QED
      BY Zenon, <2>1, <3>1, <3>2
  <2> QED
    BY Zenon, <1>2, <1>3, <2>3, <2>4, <2>5
<1> QED
  BY Zenon, <1>6, <1>7, <1>8 DEF FullSync

-----------------------------------------------------------------------------
(* The writers.                                                            *)

\* What a writer does to the readers: it may raise the watermark, and add to
\* the history one id above it, which is the flush's own if there is one.
LEMMA WriterRInv ==
  ASSUME IInv, RInv, isRunning, UNCHANGED <<isRunning, minBinlogId, push, recycle, backup>>,
         highestVisible' \in Nat, highestVisible' >= highestVisible,
         NEW id \in Nat, highestVisible < id, committed' \subseteq committed \cup {id},
         \A v \in Workers : txn[v].kind = "flush" =>
           /\ id = txn[v].id
           /\ id <= highestVisible' \/ \E u \in Workers : txn'[u].kind = "flush" /\ txn'[u].id = id
  PROVE  SlaveInv' /\ PushInv' /\ BackupInv'
<1> USE DEF RInv
<1>0. TypeOK
  BY Zenon DEF IInv
<1>1. /\ slave' = slave /\ cursor' = cursor /\ binlogPos' = binlogPos /\ slavePos' = slavePos
      /\ sent' = sent /\ recycle' = recycle /\ backup' = backup /\ minBinlogId' = minBinlogId
  BY Zenon DEF push
<1>2. ASSUME NEW p \in Nat, NEW S, Reached(p, S), \A n \in committed : n <= p => n \in S
      PROVE  /\ \/ p <= highestVisible'
                \/ p \in S /\ \E u \in Workers : txn'[u].kind = "flush" /\ txn'[u].id = p
             /\ \A n \in committed' : n <= p => n \in S
  <2>1. CASE p <= highestVisible
    BY SMTT(40), <1>0, <1>2, <2>1, Numbers
  <2>2. CASE p \in S /\ \E w \in Workers : txn[w].kind = "flush" /\ txn[w].id = p
    BY Zenon, <1>0, <1>2, <2>2, Numbers
  <2> QED
    BY Zenon, <1>2, <2>1, <2>2 DEF Reached
<1>3. slavePos \in Nat /\ binlogPos \in Nat /\ backup.pos \in Nat
  BY Zenon, <1>0, Numbers
<1>4. id >= minBinlogId
  BY SMTT(40), <1>0, Numbers DEF HistInv
<1>5. SlaveInv'
  <2>1. slave # "full" => Reached(slavePos, sent)' /\ \A n \in committed' : n <= slavePos => n \in sent
    BY Zenon, <1>1, <1>2, <1>3 DEF SlaveInv, Reached
  <2>2. slave = "pushed" => Reached(binlogPos, sent)' /\ \A n \in committed' : n <= binlogPos => n \in sent
    BY Zenon, <1>1, <1>2, <1>3 DEF SlaveInv, Reached
  <2> QED
    BY Zenon, <1>1, <1>4, <2>1, <2>2 DEF SlaveInv
<1>6. PushInv'
  <2>1. cursor.pc # "idle" => cursor.end <= highestVisible /\ cursor.end <= highestVisible'
    BY SMTT(40), <1>0, Numbers DEF PushInv
  <2>2. cursor.pc = "reading" =>
          \A n \in committed' :
            binlogPos < n /\ n < cursor.cur /\ n <= cursor.end => n \in cursor.got
    BY <1>0, <2>1, Numbers DEF PushInv
  <2> QED
    BY Zenon, <1>1, <2>1, <2>2 DEF PushInv
<1>7. BackupInv'
  <2>1. backup.pc \in {"checkpointed", "sent"} =>
          Reached(backup.pos, backup.ckpt)' /\ \A n \in committed' : n <= backup.pos => n \in backup.ckpt
    BY SMTT(40), <1>1, <1>2, <1>3 DEF BackupInv, Reached
  <2>2. /\ backup.pc = "pushing" => backup.push <= highestVisible'
        /\ backup.pc = "positioned" => backup.pos <= highestVisible'
    BY SMTT(40), <1>0, Numbers DEF BackupInv
  <2> QED
    BY Zenon, <1>1, <2>1, <2>2 DEF BackupInv
<1> QED
  BY Zenon, <1>5, <1>6, <1>7

\* A transaction begins, with keys that nobody else writes.
LEMMA CreateRInv ==
  ASSUME IInv, RInv, NEW w \in Workers, NEW kind \in {"local", "apply"}, NEW K \in SUBSET Keys,
         createTransaction(w, kind, K)
  PROVE  RInv'
<1> USE DEF RInv
<1>0. TypeOK /\ TypeTxn
  BY Zenon, TypePieces DEF IInv
<1>1. /\ isRunning /\ ~Flushing /\ KeysFree(K)
      /\ txn' = [txn EXCEPT ![w] = [pc |-> "open", kind |-> kind, id |-> nextTxnSeq,
                                    binlogId |-> UNINITED, keys |-> K]]
      /\ UNCHANGED <<isRunning, nextBinlogSeq, highestVisible, disk, repl, hist>>
  BY Zenon DEF createTransaction
<1>2. /\ txn'[w].kind = kind /\ txn'[w].keys = K /\ txn'[w].pc = "open"
      /\ \A v \in Workers : v # w => txn'[v] = txn[v]
  BY Zenon, <1>0, <1>1 DEF TypeTxn, Txns
<1>3. ~Flushing'
  BY Zenon, <1>1, <1>2 DEF Flushing
<1>4. HistInv' /\ FlushInv' /\ FirstInv'
  BY Zenon, <1>1, <1>3 DEF HistInv, FlushInv, FlushOf, FirstInv, Flushing, disk, hist
<1>5. ValidInv'
  BY Zenon, <1>1 DEF ValidInv, disk, hist, repl, first
<1>6. SlaveInv' /\ PushInv' /\ BackupInv'
  <2>1. PICK id \in Nat : id = highestVisible + 1 /\ highestVisible < id
    BY SMTT(40), <1>0, Numbers
  <2>2. highestVisible' \in Nat /\ highestVisible' >= highestVisible
    BY SMTT(40), <1>0, <1>1, Numbers
  <2>3. UNCHANGED <<isRunning, minBinlogId, push, recycle, backup, committed>>
    BY Zenon, <1>1 DEF disk, repl, hist
  <2> QED
    BY Zenon, <1>1, <2>1, <2>2, <2>3, WriterRInv DEF Flushing
<1>7. DataInv'
  <2>1. \A v, u \in Workers : v # u => txn'[v].keys \cap txn'[u].keys = {}
    BY SMTT(40), <1>1, <1>2 DEF DataInv, KeysFree
  <2> QED
    BY SMTT(40), <1>1, <1>2, <2>1 DEF DataInv, disk
<1> QED
  BY Zenon, <1>4, <1>5, <1>6, <1>7

\* Taking an id: it is above every binlog on disk, so what follows in the order
\* of the ids also follows in time; a flush takes the id it began with.
LEMMA TakeRInv ==
  ASSUME IInv, RInv, IInv', NEW w \in Workers, NEW id \in Nat, TakeBinlogId(w, id),
         txn[w].pc = "open", highestVisible < id, txn[w].kind = "flush" => id = nextBinlogSeq
  PROVE  RInv'
<1> USE DEF RInv
<1>0. TypeOK /\ TypeTxn
  BY Zenon, TypePieces DEF IInv
<1>1. /\ nextBinlogSeq' = id + 1
      /\ txn' = [txn EXCEPT ![w].pc = "assigned", ![w].binlogId = id]
      /\ UNCHANGED <<isRunning, highestVisible, disk, repl, hist>>
  BY Zenon DEF TakeBinlogId
<1>2. /\ txn'[w].pc = "assigned" /\ txn'[w].binlogId = id /\ txn'[w].kind = txn[w].kind
      /\ txn'[w].id = txn[w].id /\ txn'[w].keys = txn[w].keys
      /\ \A v \in Workers : v # w => txn'[v] = txn[v]
  BY Zenon, <1>0, <1>1 DEF TypeTxn, Txns
<1>3. isRunning
  BY Zenon DEF IInv, TxnInv, Open
<1>4. \A n \in DOMAIN binlogs : n < id
  <2>1. Owner(w)'
    BY Zenon, <1>2 DEF Owner
  <2>2. id \notin DOMAIN binlogs /\ \A n \in DOMAIN binlogs : n < id + 1
    BY Zenon, <1>1, <1>2, <2>1 DEF IInv, OwnerInv, DiskInv, disk
  <2> QED
    BY SMTT(40), <1>0, <2>2, Numbers
<1>5. HistInv'
  <2>1. \A n \in committed : n < id + 1
    BY <1>0, <1>4, Numbers DEF HistInv
  <2> QED
    BY Zenon, <1>1, <2>1 DEF HistInv, disk, hist
<1>6. Flushing' <=> Flushing
  BY Zenon, <1>2 DEF Flushing
<1>7. FirstInv'
  BY Zenon, <1>1, <1>6 DEF FirstInv, disk, hist
<1>8. FlushInv'
  <2> SUFFICES ASSUME NEW v \in Workers, txn'[v].kind = "flush"
               PROVE  v = w
    <3>1. txn'[w].kind = "flush" => FlushOf(w)'
      BY Zenon, <1>1, <1>2 DEF FlushInv, FlushOf, disk, hist, repl, push, IsFlush
    <3> QED
      BY Zenon, <1>2, <3>1 DEF FlushInv, FlushOf
  <2>1. txn[v].kind = "flush"
    BY Zenon, <1>2
  <2> QED
    BY Zenon, <2>1 DEF IInv, ModeInv, Open
<1>9. ValidInv'
  BY Zenon, <1>1 DEF ValidInv, disk, hist, repl, first
<1>10. SlaveInv' /\ PushInv' /\ BackupInv'
  <2>1. PICK i \in Nat : i = highestVisible + 1 /\ highestVisible < i
    BY SMTT(40), <1>0, Numbers
  <2>2. highestVisible' \in Nat /\ highestVisible' >= highestVisible
    BY <1>0, <1>1, Numbers
  <2>3. UNCHANGED <<isRunning, minBinlogId, push, recycle, backup, committed>>
    BY Zenon, <1>1 DEF disk, repl, hist
  <2>4. \A v \in Workers : txn[v].kind = "flush" =>
          i = txn[v].id /\ txn'[v].kind = "flush" /\ txn'[v].id = i
    BY Zenon, <1>2, <2>1 DEF FlushInv, FlushOf
  <2> QED
    BY Zenon, <1>3, <2>1, <2>2, <2>3, <2>4, WriterRInv
<1>11. DataInv'
  <2>1. \A v \in Workers : txn'[v].keys = txn[v].keys
    BY Zenon, <1>2
  <2>2. \A v \in Workers, n \in DOMAIN binlogs :
          txn'[v].pc = "assigned" /\ binlogs[n].keys \cap txn'[v].keys # {} => n < txn'[v].binlogId
    BY Zenon, <1>2, <1>4 DEF DataInv
  <2>3. binlogs' = binlogs /\ data' = data /\ minBinlogId' = minBinlogId
    BY Zenon, <1>1 DEF disk
  <2>4. \A v, u \in Workers : v # u => txn'[v].keys \cap txn'[u].keys = {}
    BY Zenon, <2>1 DEF DataInv
  <2> QED
    BY SMTT(40), <2>2, <2>3, <2>4 DEF DataInv
<1> QED
  BY Zenon, <1>5, <1>7, <1>8, <1>9, <1>10, <1>11

\* The write fails, and the id will be skipped.
LEMMA CommitFailsRInv ==
  ASSUME IInv, RInv, NEW w \in Workers, txnCommitFails(w)
  PROVE  RInv'
<1> USE DEF RInv
<1>0. TypeOK /\ TypeTxn
  BY Zenon, TypePieces DEF IInv
<1>1. /\ txn[w].pc = "assigned" /\ txn[w].kind # "flush"
      /\ txn' = [txn EXCEPT ![w].pc = "failed"]
      /\ UNCHANGED <<store, disk, repl, hist>>
  BY Zenon DEF txnCommitFails, CommitFails
<1>2. /\ txn'[w].pc = "failed" /\ txn'[w].kind = txn[w].kind
      /\ txn'[w].id = txn[w].id /\ txn'[w].keys = txn[w].keys
      /\ \A v \in Workers : v # w => txn'[v] = txn[v]
  BY Zenon, <1>0, <1>1 DEF TypeTxn, Txns
<1>3. isRunning /\ ~Flushing
  BY Zenon, <1>1 DEF IInv, TxnInv, ModeInv, Open, Flushing
<1>4. ~Flushing'
  BY Zenon, <1>2, <1>3 DEF Flushing
<1>5. HistInv' /\ FlushInv' /\ FirstInv'
  BY Zenon, <1>1, <1>3, <1>4 DEF HistInv, FlushInv, FlushOf, FirstInv, Flushing, store, disk, hist
<1>6. ValidInv'
  BY Zenon, <1>1 DEF ValidInv, store, disk, hist, repl, first
<1>7. SlaveInv' /\ PushInv' /\ BackupInv'
  <2>1. PICK i \in Nat : i = highestVisible + 1 /\ highestVisible < i
    BY <1>0, Numbers
  <2>2. highestVisible' \in Nat /\ highestVisible' >= highestVisible
    BY <1>0, <1>1, Numbers DEF store
  <2>3. UNCHANGED <<isRunning, minBinlogId, push, recycle, backup, committed>>
    BY Zenon, <1>1 DEF store, disk, repl, hist
  <2> QED
    BY Zenon, <1>3, <2>1, <2>2, <2>3, WriterRInv DEF Flushing
<1>8. DataInv'
  <2>1. \A v, u \in Workers : v # u => txn'[v].keys \cap txn'[u].keys = {}
    BY SMTT(40), <1>2 DEF DataInv
  <2>2. \A v \in Workers, n \in DOMAIN binlogs :
          txn'[v].pc = "assigned" /\ binlogs[n].keys \cap txn'[v].keys # {} => n < txn'[v].binlogId
    BY Zenon, <1>2 DEF DataInv
  <2>3. binlogs' = binlogs /\ data' = data /\ minBinlogId' = minBinlogId
    BY Zenon, <1>1 DEF disk
  <2> QED
    BY SMTT(40), <2>1, <2>2, <2>3 DEF DataInv
<1> QED
  BY Zenon, <1>5, <1>6, <1>7, <1>8

\* The write: data and binlog reach the disk together, under an id that is
\* above the watermark and above every other binlog about the same keys.
LEMMA CommitRInv ==
  ASSUME IInv, RInv, NEW w \in Workers, txnCommit(w)
  PROVE  RInv'
<1> USE DEF RInv
<1>0. TypeOK /\ TypeTxn
  BY Zenon, TypePieces DEF IInv
<1>1. PICK id : id = txn[w].binlogId
  BY Zenon
<1>2. PICK b : b = [flush |-> txn[w].kind = "flush", keys |-> txn[w].keys]
  BY Zenon
<1>17. b.keys = txn[w].keys /\ (b.flush <=> txn[w].kind = "flush")
  <2>1. b.flush = (txn[w].kind = "flush") /\ b.keys = txn[w].keys
    BY Zenon, <1>2
  <2> QED
    BY Zenon, <2>1
<1>3. /\ txn[w].pc = "assigned"
      /\ binlogs' = With(binlogs, id, b)
      /\ data' = [k \in Keys |-> IF k \in txn[w].keys /\ txn[w].kind # "flush"
                                 THEN id ELSE data[k]]
      /\ txn' = [txn EXCEPT ![w].pc = "written"]
      /\ committed' = committed \cup {id}
      /\ UNCHANGED <<store, minBinlogId, repl, cleared>>
  BY Zenon, <1>1, <1>2 DEF txnCommit
<1>4. /\ txn'[w].pc = "written" /\ txn'[w].kind = txn[w].kind /\ txn'[w].binlogId = id
      /\ txn'[w].id = txn[w].id /\ txn'[w].keys = txn[w].keys
      /\ \A v \in Workers : v # w => txn'[v] = txn[v]
  BY Zenon, <1>0, <1>1, <1>3 DEF TypeTxn, Txns
<1>5. isRunning /\ Owner(w)
  BY Zenon, <1>3 DEF IInv, TxnInv, Open, Owner
<1>6. id \in Nat /\ highestVisible < id /\ id < nextBinlogSeq /\ id \notin DOMAIN binlogs
  BY Zenon, <1>0, <1>1, <1>3, <1>5, Numbers DEF IInv, OwnerInv, AliveInv
<1>7. /\ DOMAIN binlogs' = DOMAIN binlogs \cup {id} /\ binlogs'[id] = b
      /\ \A n \in DOMAIN binlogs : binlogs'[n] = binlogs[n]
  BY Zenon, <1>3, <1>6 DEF With
<1>8. HistInv'
  <2>1. \A n \in committed' : /\ n \in DOMAIN binlogs' \/ n < minBinlogId
                              /\ n >= 1 /\ n < nextBinlogSeq
    BY <1>0, <1>3, <1>6, <1>7, Numbers DEF HistInv
  <2> QED
    BY Zenon, <1>3, <1>7, <2>1 DEF HistInv, store
<1>9. \A v \in Workers : txn[v].kind = "flush" => v = w
  BY Zenon, <1>3 DEF IInv, ModeInv, Open
<1>10. txn[w].kind = "flush" => /\ FlushOf(w) /\ committed = {} /\ id = txn[w].id
                                /\ \A k \in Keys : data[k] = UNINITED
  BY Zenon, <1>1, <1>3, <1>5 DEF FlushInv, FlushOf
<1>11. FlushInv'
  <2> SUFFICES ASSUME txn[w].kind = "flush" PROVE FlushOf(w)'
    BY Zenon, <1>4, <1>9 DEF FlushInv
  <2>0. UNCHANGED <<minBinlogId, cursor, recycle, backup, highestVisible>>
    BY Zenon, <1>3 DEF store, repl, push
  <2>1. /\ minBinlogId' = 0 /\ cursor'.pc = "idle" /\ recycle'.pc # "read"
        /\ backup'.pc \in {"idle", "sent"} /\ highestVisible' + 1 = txn'[w].id
    BY Zenon, <1>4, <1>10, <2>0 DEF FlushOf
  <2>2. committed' = {txn'[w].id} /\ IsFlush(txn[w].id)'
    BY <1>3, <1>4, <1>7, <1>10, <1>17 DEF IsFlush
  <2>3. \A k \in Keys : data'[k] = UNINITED
    BY Zenon, <1>3, <1>10
  <2> QED
    BY Zenon, <1>4, <1>10, <2>1, <2>2, <2>3 DEF FlushOf
<1>12. Flushing' <=> Flushing
  BY Zenon, <1>4 DEF Flushing
<1>13. FirstInv'
  <2> SUFFICES ASSUME cleared, minBinlogId = 0, ~Flushing
               PROVE  \E n \in DOMAIN binlogs' :
                        /\ binlogs'[n].flush
                        /\ \A m \in DOMAIN binlogs' : n <= m
                        /\ n <= highestVisible'
    BY Zenon, <1>3, <1>12 DEF FirstInv
  <2>1. PICK n \in DOMAIN binlogs : /\ binlogs[n].flush
                                    /\ \A m \in DOMAIN binlogs : n <= m
                                    /\ n <= highestVisible
    BY Zenon, <1>5 DEF FirstInv
  <2>2. n <= id
    BY SMTT(40), <1>0, <1>6, <2>1, Numbers
  <2>3. n \in DOMAIN binlogs' /\ binlogs'[n].flush /\ highestVisible' = highestVisible
    BY Zenon, <1>3, <1>7, <2>1 DEF store
  <2> QED
    BY Zenon, <1>7, <2>1, <2>2, <2>3
<1>14. SlaveInv' /\ PushInv' /\ BackupInv'
  <2>1. UNCHANGED <<isRunning, minBinlogId, push, recycle, backup, highestVisible>>
    BY Zenon, <1>3 DEF store, repl
  <2>2. \A v \in Workers : txn[v].kind = "flush" =>
          id = txn[v].id /\ txn'[v].kind = "flush" /\ txn'[v].id = id
    BY Zenon, <1>4, <1>9, <1>10
  <2>3. highestVisible' \in Nat /\ highestVisible' >= highestVisible
    BY SMTT(40), <1>0, <2>1, Numbers
  <2> QED
    BY <1>3, <1>5, <1>6, <2>1, <2>2, <2>3, WriterRInv
<1>15. ValidInv'
  <2>1. \A n \in committed' : lastFlushId <= n
    BY <1>0, <1>3, <1>5, <1>6, Numbers DEF ValidInv
  <2> QED
    BY Zenon, <1>3, <1>5, <2>1 DEF ValidInv, store, repl, first
<1>16. DataInv'
  <2>1. \A v, u \in Workers : v # u => txn'[v].keys \cap txn'[u].keys = {}
    BY SMTT(40), <1>4 DEF DataInv
  <2>2. ASSUME NEW v \in Workers, NEW n \in DOMAIN binlogs', txn'[v].pc = "assigned",
               binlogs'[n].keys \cap txn'[v].keys # {}
        PROVE  n < txn'[v].binlogId
    <3>1. v # w /\ txn'[v] = txn[v]
      BY Zenon, <1>4, <2>2
    <3>2. n # id
      BY SMTT(40), <1>2, <1>7, <2>2, <3>1 DEF DataInv
    <3> QED
      BY Zenon, <1>7, <2>2, <3>1, <3>2 DEF DataInv
  <2>3. ASSUME NEW k \in Keys, NEW n \in DOMAIN binlogs', n >= minBinlogId, k \in binlogs'[n].keys,
               \A m \in DOMAIN binlogs' : k \in binlogs'[m].keys => m <= n
        PROVE  data'[k] = IF binlogs'[n].flush THEN UNINITED ELSE n
    <3>1. CASE n = id
      <4>1. k \in txn[w].keys /\ (binlogs'[n].flush <=> txn[w].kind = "flush")
        BY Zenon, <1>7, <1>17, <2>3, <3>1
      <4>2. CASE txn[w].kind = "flush"
        BY Zenon, <1>3, <1>10, <4>1, <4>2
      <4>3. CASE txn[w].kind # "flush"
        BY Zenon, <1>3, <3>1, <4>1, <4>3
      <4> QED
        BY Zenon, <4>2, <4>3
    <3>2. CASE n # id
      <4>1. n \in DOMAIN binlogs /\ binlogs'[n] = binlogs[n]
        BY Zenon, <1>7, <3>2
      <4>2. k \notin txn[w].keys
        <5> SUFFICES ASSUME k \in txn[w].keys PROVE FALSE
          BY Zenon
        <5>1. n < id
          BY Zenon, <1>1, <1>3, <2>3, <4>1 DEF DataInv
        <5>2. id <= n
          BY SMTT(40), <1>2, <1>7, <2>3
        <5> QED
          BY SMTT(40), <1>0, <1>6, <4>1, <5>1, <5>2, Numbers
      <4>3. \A m \in DOMAIN binlogs : k \in binlogs[m].keys => m <= n
        BY Zenon, <1>7, <2>3
      <4>4. data[k] = IF binlogs[n].flush THEN UNINITED ELSE n
        BY Zenon, <2>3, <4>1, <4>3 DEF DataInv
      <4> QED
        BY Zenon, <1>3, <4>1, <4>2, <4>4
    <3> QED
      BY Zenon, <3>1, <3>2
  <2> QED
    BY <1>3, <2>1, <2>2, <2>3 DEF DataInv
<1> QED
  BY Zenon, <1>8, <1>11, <1>13, <1>14, <1>15, <1>16

\* Once its flush is marked committed, nothing is in flight and the flush is
\* visible.
LEMMA FlushVisible ==
  ASSUME IInv, RInv, NEW w \in Workers, txn[w].kind = "flush", markCommitted(w)
  PROVE  /\ txn[w].pc = "written" /\ FlushOf(w)
         /\ IsFlush(txn[w].id) /\ committed = {txn[w].id}
         /\ txn[w].id \in Nat /\ txn[w].id <= highestVisible'
<1> USE DEF RInv
<1>0. TypeOK
  BY Zenon DEF IInv
<1>1. txn[w].pc = "written"
  BY Zenon DEF markCommitted, IInv, ModeInv
<1>2. FlushOf(w) /\ IsFlush(txn[w].id) /\ committed = {txn[w].id} /\ txn[w].binlogId = txn[w].id
  BY Zenon, <1>1 DEF FlushInv, FlushOf, Owner
<1>3. PICK id : id = txn[w].id
  BY Zenon
<1>4. Owner(w) /\ id \in Nat /\ id # UNINITED /\ markCommittedInLock(w, id)
  BY SMTT(40), <1>0, <1>1, <1>3, Numbers DEF markCommitted, Owner, Open, IInv, TxnInv, UNINITED
<1>5. /\ DOMAIN aliveBinlogs' \subseteq DOMAIN aliveBinlogs
      /\ \A n \in DOMAIN aliveBinlogs' :
           /\ n # id => aliveBinlogs'[n] = aliveBinlogs[n]
           /\ n = id => aliveBinlogs'[n].done
           /\ (\A m \in DOMAIN aliveBinlogs' : n <= m) => ~aliveBinlogs'[n].done
      /\ \A n \in DOMAIN aliveBinlogs \ DOMAIN aliveBinlogs' :
           n \in DOMAIN binlogs => n <= highestVisible'
  BY Zenon, <1>1, <1>2, <1>3, <1>4, MarkFacts
<1>6. DOMAIN aliveBinlogs' = {}
  <2> SUFFICES ASSUME DOMAIN aliveBinlogs' # {} PROVE FALSE
    BY Zenon
  <2>1. DOMAIN aliveBinlogs' \subseteq Nat
    BY Zenon, <1>0, <1>5 DEF TypeOK
  <2>2. PICK n \in DOMAIN aliveBinlogs' : \A m \in DOMAIN aliveBinlogs' : n <= m
    BY Zenon, <2>1, LeastNat
  <2>3. n # id /\ n \in DOMAIN aliveBinlogs /\ ~aliveBinlogs[n].done
    BY Zenon, <1>5, <2>2
  <2>4. PICK v \in Workers : Owner(v) /\ txn[v].binlogId = n
    BY Zenon, <2>3 DEF IInv, AliveInv
  <2>5. v = w
    BY Zenon, <2>4 DEF IInv, ModeInv, Owner, Open
  <2> QED
    BY Zenon, <1>2, <1>3, <2>3, <2>4, <2>5
<1>7. id \in DOMAIN aliveBinlogs /\ id \in DOMAIN binlogs
  BY Zenon, <1>2, <1>3, <1>4 DEF IInv, OwnerInv, IsFlush
<1> QED
  BY Zenon, <1>1, <1>2, <1>3, <1>4, <1>5, <1>6, <1>7

\* A transaction ends: the watermark may rise, and a flush that ends is the
\* first binlog and the oldest that counts.
LEMMA EndRInv ==
  ASSUME IInv, RInv, NEW w \in Workers, markCommitted(w) \/ EndWithoutBinlog(w)
  PROVE  RInv'
<1> USE DEF RInv
<1>0. TypeOK /\ TypeTxn
  BY Zenon, TypePieces DEF IInv
<1>1. /\ Open(w) /\ isRunning
      /\ txn' = [txn EXCEPT ![w] = NoTxn]
      /\ UNCHANGED <<isRunning, mode, nextTxnSeq, nextBinlogSeq, disk, push, recycle, backup, hist>>
  BY Zenon DEF markCommitted, EndWithoutBinlog, markCommittedInLock, Open
<1>2. /\ txn'[w] = NoTxn
      /\ \A v \in Workers : v # w => txn'[v] = txn[v]
  BY Zenon, <1>0, <1>1 DEF TypeTxn
<1>3. highestVisible \in Nat /\ highestVisible' \in Nat /\ highestVisible' >= highestVisible
  <2>1. IInv' /\ highestVisible' >= highestVisible
    BY Zenon, EndIInv
  <2> QED
    BY Zenon, <1>0, <2>1, Numbers DEF IInv, TypeOK
<1>4. \A v \in Workers : txn[v].kind = "flush" => v = w
  BY Zenon, <1>1 DEF IInv, ModeInv
<1>5. ~Flushing'
  BY SMTT(40), <1>2, <1>4 DEF Flushing, NoTxn
<1>6. HistInv'
  BY SMTT(40), <1>0, <1>1, <1>3, Numbers DEF HistInv, disk, hist
<1>7. FlushInv'
  BY Zenon, <1>5 DEF FlushInv, Flushing
<1>8. DataInv'
  <2>1. txn'[w].keys = {} /\ txn'[w].pc = "none"
    BY SMTT(40), <1>2 DEF NoTxn
  <2>2. \A v, u \in Workers : v # u => txn'[v].keys \cap txn'[u].keys = {}
    BY Zenon, <1>2, <2>1 DEF DataInv
  <2>3. \A v \in Workers, n \in DOMAIN binlogs :
          txn'[v].pc = "assigned" /\ binlogs[n].keys \cap txn'[v].keys # {} => n < txn'[v].binlogId
    BY Zenon, <1>2, <2>1 DEF DataInv
  <2>4. binlogs' = binlogs /\ data' = data /\ minBinlogId' = minBinlogId
    BY Zenon, <1>1 DEF disk
  <2> QED
    BY SMTT(40), <2>2, <2>3, <2>4 DEF DataInv
<1>9. CASE txn[w].kind = "flush"
  <2>1. /\ FlushOf(w) /\ IsFlush(txn[w].id) /\ committed = {txn[w].id}
        /\ txn[w].id \in Nat /\ txn[w].id <= highestVisible'
        /\ minValidBinlogID' = txn[w].id /\ lastFlushId' = txn[w].id
    <3>1. markCommitted(w)
      BY Zenon, <1>9 DEF EndWithoutBinlog
    <3> QED
      BY Zenon, <1>9, <3>1, FlushVisible DEF markCommitted
  <2>2. txn[w].id = highestVisible + 1 /\ minBinlogId = 0
    BY Zenon, <2>1 DEF FlushOf
  <2>3. FirstInv'
    <3>1. DOMAIN binlogs = {txn[w].id} /\ binlogs[txn[w].id].flush
      BY Zenon, <2>1 DEF IsFlush, HistInv
    <3> QED
      BY SMTT(40), <1>1, <2>1, <3>1 DEF FirstInv, disk
  <2>4. SlaveInv' /\ PushInv' /\ BackupInv'
    <3>1. UNCHANGED <<isRunning, minBinlogId, push, recycle, backup, committed>>
      BY Zenon, <1>1 DEF disk, hist
    <3>2. PICK i \in Nat : i = txn[w].id /\ highestVisible < i
      BY SMTT(40), <1>3, <2>1, <2>2
    <3> QED
      BY Zenon, <1>1, <1>3, <1>4, <2>1, <3>1, <3>2, WriterRInv
  <2>5. ValidInv'
    <3>1. UNCHANGED <<isRunning, minBinlogId, recycle, committed>>
      BY Zenon, <1>1 DEF disk, hist
    <3>2. recycle.pc # "idle" => recycle.start >= 1 /\ minBinlogId <= recycle.start
      BY Zenon, <1>1 DEF ValidInv
    <3>5. PICK i \in Nat : i = txn[w].id
      BY Zenon, <2>1
    <3>3. /\ i >= 1 /\ minBinlogId <= i /\ i <= highestVisible' + 1
          /\ \A n \in committed : i <= n
      <4>1. committed = {i} /\ minBinlogId = 0
        BY Zenon, <2>1, <2>2, <3>5
      <4>2. i <= highestVisible'
        BY Zenon, <2>1, <3>5
      <4>3. i >= 1
        BY <1>3, <2>2, <3>5
      <4>4. i <= highestVisible' + 1
        <5>1. \A a, b \in Nat : a <= b => a <= b + 1
          OBVIOUS
        <5> QED
          BY Zenon, <1>3, <4>2, <5>1
      <4> QED
        BY <4>1, <4>3, <4>4
    <3>4. isRunning' /\ minValidBinlogID' = i /\ lastFlushId' = i
      BY Zenon, <1>1, <2>1, <3>5
    <3> QED
      BY Zenon, <3>1, <3>2, <3>3, <3>4 DEF ValidInv
  <2> QED
    BY Zenon, <1>6, <1>7, <1>8, <2>3, <2>4, <2>5
<1>10. CASE txn[w].kind # "flush"
  <2>1. ~Flushing /\ UNCHANGED first
    BY Zenon, <1>4, <1>10 DEF Flushing, markCommitted, EndWithoutBinlog
  <2>2. FirstInv'
    <3> SUFFICES ASSUME cleared, minBinlogId = 0
                 PROVE  \E n \in DOMAIN binlogs : /\ binlogs[n].flush
                                                  /\ \A m \in DOMAIN binlogs : n <= m
                                                  /\ n <= highestVisible'
      BY Zenon, <1>1 DEF FirstInv, disk, hist
    <3>1. PICK n \in DOMAIN binlogs : /\ binlogs[n].flush
                                      /\ \A m \in DOMAIN binlogs : n <= m
                                      /\ n <= highestVisible
      BY Zenon, <1>1, <2>1 DEF FirstInv
    <3>2. n <= highestVisible'
      BY SMTT(40), <1>0, <1>3, <3>1, Numbers
    <3> QED
      BY Zenon, <3>1, <3>2
  <2>3. SlaveInv' /\ PushInv' /\ BackupInv'
    <3>1. UNCHANGED <<isRunning, minBinlogId, push, recycle, backup, committed>>
      BY Zenon, <1>1 DEF disk, hist
    <3>2. PICK i \in Nat : i = highestVisible + 1 /\ highestVisible < i
      BY <1>3
    <3> QED
      BY Zenon, <1>1, <1>3, <2>1, <3>1, <3>2, WriterRInv DEF Flushing
  <2>4. ValidInv'
    <3>1. lastFlushId <= highestVisible' + 1
      BY SMTT(40), <1>0, <1>1, <1>3, Numbers DEF ValidInv
    <3> QED
      BY Zenon, <1>1, <2>1, <3>1 DEF ValidInv, disk, hist, first
  <2> QED
    BY Zenon, <1>6, <1>7, <1>8, <2>2, <2>3, <2>4
<1> QED
  BY Zenon, <1>9, <1>10

-----------------------------------------------------------------------------
(* The store's lifecycle.                                                  *)

\* A change of mode concerns the writers to come only.
LEMMA SetModeRInv ==
  ASSUME IInv, RInv, NEW m \in {"READ_WRITE", "REPLICATE_ONLY"}, setMode(m)
  PROVE  RInv'
<1> USE DEF RInv
<1>0. TypeOK
  BY Zenon DEF IInv
<1>1. /\ isRunning /\ \A w \in Workers : txn[w].pc = "none"
      /\ UNCHANGED <<isRunning, nextBinlogSeq, highestVisible, disk, txn, repl, hist>>
  BY Zenon DEF setMode, NobodyInStore
<1>2. ~Flushing
  BY SMTT(40), <1>1, EmptyStore DEF Flushing, NoTxn
<1>3. HistInv' /\ FirstInv' /\ FlushInv'
  BY Zenon, <1>1, <1>2 DEF HistInv, FirstInv, FlushInv, Flushing, disk, hist
<1>4. ValidInv' /\ DataInv'
  BY Zenon, <1>1 DEF ValidInv, DataInv, disk, hist, repl, first
<1>5. SlaveInv' /\ PushInv' /\ BackupInv'
  <2>1. PICK i \in Nat : i = highestVisible + 1 /\ highestVisible < i
    BY <1>0, Numbers
  <2>2. highestVisible' \in Nat /\ highestVisible' >= highestVisible
    BY <1>0, <1>1, Numbers
  <2>3. UNCHANGED <<isRunning, minBinlogId, push, recycle, backup, committed>>
    BY Zenon, <1>1 DEF disk, repl, hist
  <2> QED
    BY Zenon, <1>1, <1>2, <2>1, <2>2, <2>3, WriterRInv DEF Flushing
<1> QED
  BY Zenon, <1>3, <1>4, <1>5

\* A flush begins.  What the slave and the checkpoint have of the store that is
\* gone no longer matters, and their positions are below the flush, or they
\* have the flush that is being repeated.
LEMMA FlushRInv ==
  ASSUME IInv, RInv, NEW w \in Workers, NEW seq \in 1..MaxBinlog, flush(w, seq)
  PROVE  RInv'
<1> USE DEF RInv
<1>0. TypeOK /\ TypeTxn /\ seq \in Nat /\ seq >= 1
  BY BoundsAreNat, TypePieces DEF IInv
<1>1. /\ isRunning /\ NobodyInStore /\ FlushId(seq)
      /\ binlogs' = Empty /\ data' = [k \in Keys |-> UNINITED] /\ minBinlogId' = 0
      /\ txn' = [txn EXCEPT ![w] = [pc |-> "open", kind |-> "flush", id |-> seq,
                                    binlogId |-> UNINITED, keys |-> Keys]]
      /\ committed' = {} /\ sent' = sent \cap {seq}
      /\ UNCHANGED <<slave, cursor, binlogPos, slavePos, first, recycle, backup>>
  BY Zenon DEF flush
<1>2. highestVisible' = seq - 1 /\ nextBinlogSeq' = seq /\ isRunning'
  <2>1. DOMAIN Empty = {}
    BY Zenon DEF Empty
  <2>2. LastOf(DOMAIN Empty, seq - 1) = seq - 1
    BY Zenon, <2>1 DEF LastOf
  <2>3. Reopen(Empty, seq)
    BY Zenon DEF flush
  <2> QED
    BY <1>0, <2>2, <2>3 DEF Reopen
<1>3. /\ \A v \in Workers : txn[v] = NoTxn
      /\ ~Flushing
      /\ DOMAIN aliveBinlogs = {}
  <2>1. \A v \in Workers : txn[v].pc = "none"
    BY Zenon, <1>1 DEF NobodyInStore
  <2>2. DOMAIN aliveBinlogs = {} /\ \A v \in Workers : txn[v] = NoTxn
    BY Zenon, <2>1, EmptyStore
  <2>3. NoTxn.kind # "flush"
    BY Zenon DEF NoTxn
  <2> QED
    BY Zenon, <2>2, <2>3 DEF Flushing
<1>4. /\ txn'[w].kind = "flush" /\ txn'[w].id = seq /\ txn'[w].pc = "open"
      /\ txn'[w].keys = Keys
      /\ \A v \in Workers : v # w => txn'[v] = NoTxn
  BY Zenon, <1>0, <1>1, <1>3 DEF TypeTxn
<1>5. seq > highestVisible \/ (seq = highestVisible /\ IsFlush(seq) /\ seq \in committed)
  <2>1. CASE mode = "READ_WRITE"
    BY Zenon, <1>0, <1>1, <2>1, Numbers DEF FlushId, IInv, AliveInv
  <2>2. CASE mode # "READ_WRITE"
    BY Zenon, <1>1, <2>2 DEF FlushId, IsFlush, HistInv
  <2> QED
    BY Zenon, <2>1, <2>2
<1>6. cursor.pc = "idle" /\ recycle.pc # "read" /\ backup.pc \in {"idle", "sent"}
  BY Zenon, <1>1 DEF NobodyInStore
<1>7. ASSUME NEW p \in Nat, NEW S, Reached(p, S), \A n \in committed : n <= p => n \in S
      PROVE  p <= highestVisible' \/ (p = seq /\ p \in S)
  <2>1. p <= highestVisible
    BY Zenon, <1>1, <1>3, <1>7 DEF Reached, Flushing
  <2>2. CASE seq > highestVisible
    BY <1>0, <1>2, <2>1, <2>2, Numbers
  <2>3. CASE seq = highestVisible /\ seq \in committed
    <3>1. CASE p = seq
      BY <1>7, <2>3, <3>1
    <3>2. CASE p # seq
      BY SMTT(40), <1>0, <1>2, <2>1, <2>3, <3>2, Numbers
    <3> QED
      BY Zenon, <3>1, <3>2
  <2> QED
    BY Zenon, <1>5, <2>2, <2>3
<1>8. HistInv'
  BY SMTT(40), <1>0, <1>1, <1>2 DEF HistInv, Empty
<1>9. FlushInv' /\ FirstInv'
  <2>1. FlushOf(w)'
    BY SMTT(40), <1>0, <1>1, <1>2, <1>4, <1>6 DEF FlushOf, Owner
  <2>2. \A v \in Workers : txn'[v].kind = "flush" => v = w
    BY SMTT(40), <1>4 DEF NoTxn
  <2> QED
    BY Zenon, <1>4, <2>1, <2>2 DEF FlushInv, FirstInv, Flushing
<1>10. SlaveInv'
  <2>1. slavePos \in Nat /\ binlogPos \in Nat
    BY Zenon, <1>0, Numbers
  <2>2. slave # "full" => slavePos <= highestVisible' \/ (slavePos = seq /\ slavePos \in sent)
    BY Zenon, <1>7, <2>1 DEF SlaveInv
  <2>3. slave = "pushed" => binlogPos <= highestVisible' \/ (binlogPos = seq /\ binlogPos \in sent)
    BY Zenon, <1>7, <2>1 DEF SlaveInv
  <2> QED
    BY Zenon, <1>1, <1>4, <1>6, <2>2, <2>3 DEF SlaveInv, Reached
<1>11. PushInv'
  BY Zenon, <1>1, <1>6 DEF PushInv
<1>12. BackupInv'
  <2>1. backup.pos \in Nat /\ backup.push \in Nat /\ 0 <= backup.push + 1
    BY SMTT(40), <1>0, Numbers
  <2>2. backup.pc = "sent" =>
          backup.pos <= highestVisible' \/ (backup.pos = seq /\ backup.pos \in backup.ckpt)
    BY Zenon, <1>7, <2>1 DEF BackupInv
  <2> QED
    BY Zenon, <1>1, <1>4, <1>6, <2>1, <2>2 DEF BackupInv, Reached
<1>13. ValidInv'
  <2>1. lastFlushId <= seq
    BY SMTT(40), <1>0, <1>1, <1>5, Numbers DEF ValidInv
  <2>2. lastFlushId <= highestVisible' + 1
    BY <1>0, <1>2, <2>1, Numbers
  <2>3. minValidBinlogID >= 1 /\ minValidBinlogID \in Nat /\ recycle.start \in Nat
        /\ (recycle.pc # "idle" => recycle.start >= 1)
    BY Zenon, <1>0, <1>1, Numbers DEF ValidInv
  <2> QED
    BY SMTT(40), <1>1, <1>2, <2>2, <2>3 DEF ValidInv, first
<1>14. DataInv'
  <2>1. \A v, u \in Workers : v # u => txn'[v].keys \cap txn'[u].keys = {}
    BY SMTT(40), <1>4 DEF NoTxn
  <2> QED
    BY Zenon, <1>1, <2>1 DEF DataInv, Empty
<1> QED
  BY Zenon, <1>8, <1>9, <1>10, <1>11, <1>12, <1>13, <1>14

\* A crash: a flush that is on disk will be visible after the restart.
LEMMA CrashRInv ==
  ASSUME IInv, RInv, Crash
  PROVE  RInv'
<1> USE DEF RInv
<1>1. /\ isRunning /\ ~isRunning' /\ ~FlushPending
      /\ txn' = [w \in Workers |-> NoTxn]
      /\ slave' = IF slave = "pushed" THEN "incr" ELSE slave
      /\ cursor' = NoCursor /\ recycle' = NoRecycle /\ backup' = NoBackup
      /\ UNCHANGED <<nextBinlogSeq, highestVisible, disk, binlogPos, slavePos, sent, first, hist>>
  BY Zenon DEF Crash, Die
<1>2. \A v \in Workers : txn'[v].kind = "local" /\ txn'[v].keys = {} /\ txn'[v].pc = "none"
  BY Zenon, <1>1 DEF NoTxn
<1>3. ASSUME NEW v \in Workers, txn[v].kind = "flush"
      PROVE  committed = {txn[v].id} /\ IsFlush(txn[v].id)
  BY Zenon, <1>1, <1>3 DEF FlushPending, FlushInv, FlushOf
<1>4. HistInv' /\ FlushInv'
  BY Zenon, <1>1, <1>2 DEF HistInv, FlushInv, disk, hist
<1>5. FirstInv'
  <2> SUFFICES ASSUME cleared, minBinlogId = 0
               PROVE  \E n \in DOMAIN binlogs : /\ binlogs[n].flush
                                                /\ \A m \in DOMAIN binlogs : n <= m
    BY Zenon, <1>1 DEF FirstInv, disk, hist
  <2>1. CASE Flushing
    <3>1. PICK v \in Workers : txn[v].kind = "flush"
      BY Zenon, <2>1 DEF Flushing
    <3>2. DOMAIN binlogs = {txn[v].id} /\ binlogs[txn[v].id].flush
      BY Zenon, <1>3, <3>1 DEF IsFlush, HistInv
    <3>3. txn[v].id \in Nat
      BY Zenon, Numbers DEF IInv
    <3> QED
      BY SMTT(40), <3>2, <3>3
  <2>2. CASE ~Flushing
    BY Zenon, <2>2 DEF FirstInv
  <2> QED
    BY Zenon, <2>1, <2>2
<1>6. SlaveInv'
  <2>1. slave # "full" => slavePos <= highestVisible \/ slavePos \in DOMAIN binlogs
    BY Zenon, <1>1, <1>3 DEF SlaveInv, Reached, IsFlush
  <2> QED
    BY Zenon, <1>1, <2>1 DEF SlaveInv, Reached, disk, hist
<1>7. PushInv' /\ BackupInv' /\ ValidInv'
  BY Zenon, <1>1 DEF PushInv, BackupInv, ValidInv, NoCursor, NoBackup, NoRecycle
<1>8. DataInv'
  <2>1. \A v, u \in Workers : v # u => txn'[v].keys \cap txn'[u].keys = {}
    BY Zenon, <1>2
  <2> QED
    BY SMTT(40), <1>1, <1>2, <2>1 DEF DataInv, disk
<1> QED
  BY Zenon, <1>4, <1>5, <1>6, <1>7, <1>8

\* The restart: everything on disk becomes visible, and minValidBinlogID begins
\* at the first binlog that counts.
LEMMA RestartRInv ==
  ASSUME IInv, RInv, restart
  PROVE  RInv'
<1> USE DEF RInv
<1>0. TypeOK
  BY Zenon DEF IInv
<1>1. /\ ~isRunning /\ isRunning'
      /\ minValidBinlogID' = getMinBinlogId(MIN_VALID_TXNID)
      /\ lastFlushId' = UNINITED
      /\ UNCHANGED <<disk, txn, push, recycle, backup, hist>>
  BY Zenon DEF restart, Reopen
<1>2. /\ highestVisible' \in Nat /\ nextBinlogSeq' = highestVisible' + 1
      /\ highestVisible' >= highestVisible
      /\ \A n \in DOMAIN binlogs : n <= highestVisible'
  BY Zenon, RestartWatermark
<1>3. ~Flushing /\ \A v \in Workers : txn[v].keys = {} /\ txn[v].pc = "none"
  BY SMTT(40), <1>1 DEF IInv, TxnInv, Open, Flushing, NoTxn
<1>4. UNCHANGED <<binlogs, data, minBinlogId, slave, cursor, binlogPos, slavePos, sent,
                  recycle, backup, committed, cleared, txn>>
  BY Zenon, <1>1 DEF disk, push, hist
<1>5. HistInv'
  <2>1. \A n \in committed : n < nextBinlogSeq'
    BY <1>0, <1>2, Numbers DEF HistInv
  <2>2. minBinlogId <= highestVisible'
    BY <1>0, <1>2, Numbers DEF HistInv
  <2> QED
    BY Zenon, <1>4, <2>1, <2>2 DEF HistInv
<1>6. FlushInv' /\ DataInv'
  BY SMTT(40), <1>3, <1>4 DEF FlushInv, DataInv, Flushing
<1>7. FirstInv'
  BY Zenon, <1>2, <1>3, <1>4 DEF FirstInv, Flushing
<1>8. ASSUME NEW p \in Nat, NEW S, Reached(p, S)
      PROVE  p <= highestVisible'
  <2>1. p <= highestVisible \/ p \in DOMAIN binlogs
    BY Zenon, <1>3, <1>8 DEF Reached, Flushing
  <2> QED
    BY <1>0, <1>2, <2>1, Numbers
<1>9. SlaveInv'
  <2>1. slavePos \in Nat /\ binlogPos \in Nat
    BY Zenon, <1>0, Numbers
  <2>2. /\ slave # "full" => Reached(slavePos, sent)'
        /\ slave = "pushed" => Reached(binlogPos, sent)'
    BY Zenon, <1>4, <1>8, <2>1 DEF SlaveInv, Reached
  <2> QED
    BY Zenon, <1>4, <2>2 DEF SlaveInv
<1>10. PushInv'
  <2>1. cursor.pc # "idle" => cursor.end <= highestVisible'
    BY SMTT(40), <1>0, <1>2, Numbers DEF PushInv
  <2> QED
    BY Zenon, <1>4, <2>1 DEF PushInv
<1>11. BackupInv'
  <2>1. backup.pos \in Nat
    BY Zenon, <1>0, Numbers
  <2>2. backup.pc \in {"checkpointed", "sent"} => Reached(backup.pos, backup.ckpt)'
    BY Zenon, <1>4, <1>8, <2>1 DEF BackupInv, Reached
  <2>3. /\ backup.pc = "pushing" => backup.push <= highestVisible'
        /\ backup.pc = "positioned" => backup.pos <= highestVisible'
    BY SMTT(40), <1>0, <1>2, Numbers DEF BackupInv
  <2> QED
    BY Zenon, <1>4, <2>2, <2>3 DEF BackupInv
<1>12. ValidInv'
  <2>1. recycle.pc = "idle"
    BY Zenon, <1>1 DEF ValidInv
  <2>2. minValidBinlogID' >= 1 /\ minBinlogId <= minValidBinlogID'
    <3>0. minBinlogId \in Nat /\ DOMAIN binlogs \subseteq Nat
      BY Zenon, <1>0, Numbers
    <3>1. CASE minBinlogId # 0
      BY <1>1, <3>0, <3>1 DEF getMinBinlogId
    <3>2. CASE minBinlogId = 0 /\ DOMAIN binlogs # {}
      <4>1. \E n \in DOMAIN binlogs : \A m \in DOMAIN binlogs : n <= m
        BY Zenon, <3>0, <3>2, LeastNat
      <4>2. minValidBinlogID' = CHOOSE n \in DOMAIN binlogs : \A m \in DOMAIN binlogs : n <= m
        BY Zenon, <1>1, <3>2 DEF getMinBinlogId
      <4>3. minValidBinlogID' \in DOMAIN binlogs
        BY Zenon, <4>1, <4>2
      <4> QED
        BY <3>0, <3>2, <4>3 DEF HistInv
    <3>3. CASE minBinlogId = 0 /\ DOMAIN binlogs = {}
      BY <1>1, <3>3 DEF getMinBinlogId, MIN_VALID_TXNID
    <3> QED
      BY Zenon, <3>1, <3>2, <3>3
  <2>3. /\ \A n \in committed : lastFlushId' <= n
        /\ lastFlushId' <= highestVisible' + 1
    <3>1. \A a \in Nat : 0 <= a /\ 0 <= a + 1
      OBVIOUS
    <3>2. lastFlushId' = 0 /\ committed \subseteq Nat
      BY Zenon, <1>0, <1>1, Numbers DEF UNINITED
    <3> QED
      BY Zenon, <1>2, <3>1, <3>2
  <2> QED
    BY Zenon, <1>1, <1>4, <2>1, <2>2, <2>3 DEF ValidInv
<1> QED
  BY Zenon, <1>5, <1>6, <1>7, <1>9, <1>10, <1>11, <1>12

-----------------------------------------------------------------------------
(* The theorems.                                                           *)

\* The initial state satisfies the invariant.
LEMMA InitRInv == Init => RInv
<1> SUFFICES ASSUME Init PROVE RInv
  BY Zenon
<1> USE DEF Init
<1>1. \A w \in Workers : txn[w].kind = "local" /\ txn[w].keys = {} /\ txn[w].pc = "none"
  BY Zenon DEF NoTxn
<1>2. DOMAIN binlogs = {} /\ committed = {} /\ highestVisible = 0 /\ nextBinlogSeq = 1
  BY DEF Empty, MIN_VALID_TXNID
<1>3. HistInv /\ FlushInv /\ FirstInv
  BY SMTT(40), <1>1, <1>2 DEF HistInv, FlushInv, FirstInv
<1>4. SlaveInv /\ PushInv /\ BackupInv
  BY Zenon DEF SlaveInv, PushInv, BackupInv, NoCursor, NoBackup
<1>5. ValidInv
  BY <1>2 DEF ValidInv, NoRecycle, MIN_VALID_TXNID, UNINITED
<1>6. DataInv
  BY Zenon, <1>1, <1>2 DEF DataInv
<1> QED
  BY Zenon, <1>3, <1>4, <1>5, <1>6 DEF RInv

\* Every step keeps the invariant.
LEMMA NextRInv ==
  ASSUME IInv, RInv, IInv', [Next]_vars
  PROVE  RInv'
<1>1. ASSUME NEW w \in Workers, NEW kind \in {"local", "apply"}, NEW K \in SUBSET Keys,
             createTransaction(w, kind, K)
      PROVE  RInv'
  BY Zenon, <1>1, CreateRInv
<1>2. ASSUME NEW w \in Workers, WorkerStep(w)
      PROVE  RInv'
  <2>1. CASE assignBinlogIdIfNeeded(w)
    <3>1. nextBinlogSeq \in Nat /\ highestVisible < nextBinlogSeq
      BY Zenon DEF IInv, TypeOK, AliveInv
    <3> QED
      BY Zenon, <2>1, <3>1, TakeRInv DEF assignBinlogIdIfNeeded
  <2>2. ASSUME NEW id \in 1..MaxBinlog, setNextBinlogSeq(w, id) PROVE RInv'
    <3>1. id \in Nat /\ highestVisible < id
      BY SMTT(40), <2>2, BoundsAreNat DEF setNextBinlogSeq, IInv, TypeOK
    <3>2. txn[w].pc = "open" /\ txn[w].kind # "flush" /\ TakeBinlogId(w, id)
      BY Zenon, <2>2 DEF setNextBinlogSeq
    <3> QED
      BY Zenon, <3>1, <3>2, TakeRInv
  <2>3. CASE txnCommit(w)
    BY Zenon, <2>3, CommitRInv
  <2>4. CASE txnCommitFails(w)
    BY Zenon, <2>4, CommitFailsRInv
  <2>5. CASE markCommitted(w) \/ EndWithoutBinlog(w)
    BY Zenon, <2>5, EndRInv
  <2> QED
    BY Zenon, <1>2, <2>1, <2>2, <2>3, <2>4, <2>5 DEF WorkerStep
<1>3. ASSUME NEW w \in Workers, NEW seq \in 1..MaxBinlog, flush(w, seq) PROVE RInv'
  BY Zenon, <1>3, FlushRInv
<1>4. ASSUME NEW m \in {"READ_WRITE", "REPLICATE_ONLY"}, setMode(m) PROVE RInv'
  BY Zenon, <1>4, SetModeRInv
<1>5. CASE Pusher
  BY Zenon, <1>5, RegisterRInv, CursorRInv, SendRInv DEF Pusher
<1>6. CASE Recycler
  BY Zenon, <1>6, RecyclerReadsRInv, TruncateRInv DEF Recycler
<1>7. CASE FullSync
  BY Zenon, <1>7, FullSyncRInv
<1>8. CASE Crash
  BY Zenon, <1>8, CrashRInv
<1>9. CASE restart
  BY Zenon, <1>9, RestartRInv
<1>10. CASE UNCHANGED vars
  <2> USE <1>10 DEF RInv, vars, repl
  <2>1. HistInv' /\ FirstInv' /\ DataInv'
    BY Zenon, ReaderRInv
  <2>2. UNCHANGED <<store, disk, txn, push, first, recycle, backup, hist>>
    BY Zenon
  <2>3. FlushInv'
    BY Zenon, <2>2 DEF FlushInv, FlushOf, store, disk, push, hist, Owner, IsFlush
  <2>4. SlaveInv' /\ BackupInv'
    BY SMTT(40), <2>2 DEF SlaveInv, BackupInv, Reached, store, disk, push, hist
  <2>5. PushInv' /\ ValidInv'
    BY SMTT(40), <2>2 DEF PushInv, ValidInv, store, disk, push, first, hist
  <2> QED
    BY Zenon, <2>1, <2>3, <2>4, <2>5
<1> QED
  BY Zenon, <1>1, <1>2, <1>3, <1>4, <1>5, <1>6, <1>7, <1>8, <1>9, <1>10 DEF Next

\* IInv and RInv together are inductive.
THEOREM ReadersInductive == Spec => [](IInv /\ RInv)
<1>1. Init => IInv /\ RInv
  BY Zenon, InitIInv, InitRInv
<1>2. (IInv /\ RInv) /\ [Next]_vars => (IInv /\ RInv)'
  BY Zenon, NextIInv, NextRInv
<1> QED
  BY <1>1, <1>2, PTL DEF Spec

\* Whatever the interleaving of commits, pushes, recycling, full syncs, flushes
\* and crashes, every binlog at or below the slave's position (its own, or the
\* pusher's) has reached the slave.
THEOREM SlaveIsComplete == Spec => []SlaveMissesNothing
<1>1. RInv => SlaveMissesNothing
  BY Zenon DEF RInv, SlaveInv, SlaveMissesNothing
<1> QED
  BY <1>1, ReadersInductive, PTL

\* recycleBinlog never drops a binlog that a registered slave has yet to get.
THEOREM RecyclerSparesSlave == Spec => []NeededBinlogsKept
<1>1. IInv /\ RInv => NeededBinlogsKept
  <2> SUFFICES ASSUME IInv, RInv, slave = "pushed", NEW n \in committed, n > binlogPos
               PROVE  n \in DOMAIN binlogs
    BY Zenon DEF NeededBinlogsKept
  <2>1. TypeOK
    BY Zenon DEF IInv
  <2>2. n >= minBinlogId
    BY Zenon DEF RInv, SlaveInv
  <2> QED
    BY SMTT(40), <2>1, <2>2, Numbers DEF RInv, HistInv
<1> QED
  BY <1>1, ReadersInductive, PTL

\* Replaying the binlogs that are left gives the data, in a store whose writers
\* commit in any order.
THEOREM DataIsExplained == Spec => []BinlogExplainsData
<1>1. IInv /\ RInv => BinlogExplainsData
  <2> SUFFICES ASSUME IInv, RInv, NEW k \in Keys
               PROVE  LET about == {n \in DOMAIN binlogs : n >= minBinlogId /\ k \in binlogs[n].keys}
                          last == LastOf(about, 0)
                      IN  about # {} => data[k] = IF binlogs[last].flush THEN UNINITED ELSE last
    BY Zenon DEF BinlogExplainsData
  <2> DEFINE about == {n \in DOMAIN binlogs : n >= minBinlogId /\ k \in binlogs[n].keys}
             last == LastOf(about, 0)
  <2> HIDE DEF last
  <2> SUFFICES ASSUME about # {}
               PROVE  data[k] = IF binlogs[last].flush THEN UNINITED ELSE last
    BY Zenon DEF last
  <2>1. TypeOK /\ nextBinlogSeq \in Nat /\ minBinlogId \in Nat /\ DOMAIN binlogs \subseteq Nat
    BY Zenon, Numbers DEF IInv
  <2>2. about \subseteq Nat /\ \A n \in about : n <= nextBinlogSeq
    BY <2>1 DEF IInv, DiskInv
  <2>3. last \in about /\ \A m \in about : m <= last
    BY Zenon, <2>1, <2>2, LastOfFacts DEF last
  <2>4. last \in DOMAIN binlogs /\ last >= minBinlogId /\ k \in binlogs[last].keys
    BY Zenon, <2>3
  <2>5. ASSUME NEW m \in DOMAIN binlogs, k \in binlogs[m].keys PROVE m <= last
    <3>1. CASE m >= minBinlogId
      BY Zenon, <2>3, <2>5, <3>1
    <3>2. CASE ~(m >= minBinlogId)
      BY <2>1, <2>4, <3>2
    <3> QED
      BY Zenon, <3>1, <3>2
  <2> QED
    BY Zenon, <2>4, <2>5 DEF RInv, DataInv
<1> QED
  BY <1>1, ReadersInductive, PTL

\* A checkpoint has every binlog up to the position that goes with it, and the
\* recycler drops none after it while the entry in _fullPushStatus is there.
THEOREM CheckpointIsUsable == Spec => []CheckpointUsable
<1>1. IInv /\ RInv => CheckpointUsable
  <2> SUFFICES ASSUME IInv, RInv, backup.pc \in {"checkpointed", "sent"}, NEW n \in committed
               PROVE  IF n <= backup.pos THEN n \in backup.ckpt ELSE n \in DOMAIN binlogs
    BY Zenon DEF CheckpointUsable
  <2>1. TypeOK
    BY Zenon DEF IInv
  <2>2. CASE n <= backup.pos
    BY Zenon, <2>2 DEF RInv, BackupInv
  <2>3. CASE ~(n <= backup.pos)
    <3>1. minBinlogId <= backup.push + 1 /\ backup.push <= backup.pos
      BY Zenon DEF RInv, BackupInv
    <3>2. ~(n < minBinlogId)
      BY SMTT(40), <2>1, <2>3, <3>1, Numbers
    <3> QED
      BY Zenon, <2>3, <3>2 DEF RInv, HistInv
  <2> QED
    BY Zenon, <2>2, <2>3
<1> QED
  BY <1>1, ReadersInductive, PTL

\* After a flush that was not cut short the first binlog is the flush, and its
\* id is that of its transaction.
THEOREM FlushComesFirst == Spec => []FirstBinlogIsFlush
<1>1. IInv /\ RInv => FirstBinlogIsFlush
  <2> SUFFICES ASSUME IInv, RInv PROVE FirstBinlogIsFlush
    BY Zenon
  <2>0. TypeOK
    BY Zenon DEF IInv
  <2>1. ASSUME cleared, minBinlogId = 0, NEW n \in DOMAIN binlogs,
               \A m \in DOMAIN binlogs : n <= m
        PROVE  binlogs[n].flush
    <3>1. CASE Flushing
      <4>1. PICK w \in Workers : txn[w].kind = "flush"
        BY Zenon, <3>1 DEF Flushing
      <4>2. n \in committed
        BY Zenon DEF RInv, HistInv
      <4>3. FlushOf(w)
        BY Zenon, <4>1 DEF RInv, FlushInv
      <4> QED
        BY Zenon, <4>2, <4>3 DEF FlushOf, IsFlush
    <3>2. CASE ~Flushing
      <4>1. PICK m \in DOMAIN binlogs : binlogs[m].flush /\ \A l \in DOMAIN binlogs : m <= l
        BY Zenon, <2>1, <3>2 DEF RInv, FirstInv
      <4>2. m = n
        BY <2>0, <2>1, <4>1, Numbers
      <4> QED
        BY Zenon, <4>1, <4>2
    <3> QED
      BY Zenon, <3>1, <3>2
  <2>2. ASSUME NEW w \in Workers, txn[w].kind = "flush", txn[w].binlogId # UNINITED
        PROVE  txn[w].binlogId = txn[w].id
    <3>1. Owner(w)
      BY SMTT(40), <2>2 DEF IInv, TxnInv, Open, NoTxn
    <3> QED
      BY Zenon, <2>2, <3>1 DEF RInv, FlushInv, FlushOf
  <2> QED
    BY Zenon, <2>1, <2>2 DEF FirstBinlogIsFlush
<1> QED
  BY <1>1, ReadersInductive, PTL
=============================================================================

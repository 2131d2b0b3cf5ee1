---------------------------- MODULE KVStoreBinlog ----------------------------
(***************************************************************************)
(* One RocksKVStore (storage/rocks/rocks_kvstore.cpp): how transactions    *)
(* get their ids, how their binlogs reach the disk and become visible, and *)
(* what the readers of the binlog (the incremental pusher, the recycler,   *)
(* the full-sync backup) may rely on, across process crashes, restarts     *)
(* and FLUSHALL.                                                           *)
(*                                                                         *)
(* A commit is three steps, because other threads run between them:        *)
(* assignBinlogIdIfNeeded (under _mutex), txnCommit (the RocksDB write of  *)
(* data and binlog, atomic), markCommitted (under _mutex).  A value is     *)
(* abstracted to the id of the binlog that wrote it.  The server layer's   *)
(* locks appear as guards: two open transactions never write one key, and  *)
(* flush and setMode hold the store in mode X.                             *)
(***************************************************************************)
EXTENDS Naturals, FiniteSets

CONSTANTS
  Workers,    \* threads that can hold an open transaction
  Keys,       \* keys of the store
  KeepNum,    \* maxBinlogKeepNum or slaveBinlogKeepNum, raised to at least 1
  MaxBinlog,  \* bound: the greatest binlog id handed out
  MaxTxn      \* bound: the greatest transaction id handed out

ASSUME KeepsOne == KeepNum \in Nat \ {0}
ASSUME BoundsAreNat == MaxBinlog \in Nat /\ MaxTxn \in Nat

VARIABLES
  isRunning,       \* RocksKVStore::_isRunning
  mode,            \* RocksKVStore::_mode
  nextTxnSeq,      \* RocksKVStore::_nextTxnSeq
  nextBinlogSeq,   \* RocksKVStore::_nextBinlogSeq
  aliveTxns,       \* RocksKVStore::_aliveTxns: txn id -> binlog id
  aliveBinlogs,    \* RocksKVStore::_aliveBinlogs: binlog id -> <done, txn id>
  highestVisible,  \* RocksKVStore::_highestVisible
  binlogs,         \* the binlog column family: id -> what the binlog says
  data,            \* the data column family: key -> id of its last writer
  minBinlogId,     \* the RT_META record saveMinBinlogId writes; 0: none
  txn,             \* the RocksTxn each worker holds
  cursor,          \* the pusher's RepllogCursorV2 in masterSendBinlogV2
  slave,           \* the slave: needs a full sync, may ask for INCRSYNC, is pushed to
  binlogPos,       \* MPovStatus::binlogPos, the last id the slave confirmed
  slavePos,        \* StoreMeta::binlogId at the slave, what its INCRSYNC asks for
  minValidBinlogID,\* RecycleBinlogStatus::minValidBinlogID
  lastFlushId,     \* RecycleBinlogStatus::lastFlushBinlogId
  recycle,         \* ReplManager::recycleBinlog
  backup,          \* ReplManager::supplyFullSyncRoutine
  committed,       \* history: the ids written since the store was last cleared
  sent,            \* history: those of them whose effect the slave has
  cleared          \* history: a flush has cleared the store

store == <<isRunning, mode, nextTxnSeq, nextBinlogSeq, aliveTxns, aliveBinlogs,
           highestVisible>>
disk == <<binlogs, data, minBinlogId>>
push == <<slave, cursor, binlogPos, slavePos, sent>>
first == <<minValidBinlogID, lastFlushId>>
repl == <<push, first, recycle, backup>>
hist == <<committed, cleared>>
vars == <<store, disk, txn, repl, hist>>

UNINITED == 0          \* Transaction::TXNID_UNINITED
MIN_VALID_TXNID == 1

Empty == [n \in {} |-> UNINITED]

\* std::map::insert of a key that is not there.
With(f, n, v) == [m \in DOMAIN f \cup {n} |-> IF m = n THEN v ELSE f[m]]

\* std::map::erase.
Without(f, S) == [m \in DOMAIN f \ S |-> f[m]]

\* The greatest element of a set of ids, or the default.
LastOf(S, default) ==
  IF S = {} THEN default ELSE CHOOSE n \in S : \A m \in S : m <= n

NoTxn == [pc |-> "none", kind |-> "local", id |-> UNINITED,
          binlogId |-> UNINITED, keys |-> {}]
NoCursor == [pc |-> "idle", cur |-> 0, end |-> 0, got |-> {}]
NoRecycle == [pc |-> "idle", end |-> 0, start |-> 0]
NoBackup == [pc |-> "idle", push |-> 0, pos |-> 0, ckpt |-> {}]

-----------------------------------------------------------------------------
(* The locks of the server layer, as this store sees them.                 *)

\* Some thread holds the store in mode X for a flush.
Flushing == \E w \in Workers : txn[w].kind = "flush"

\* Nobody holds the store, so a thread may take it in mode X.
NobodyInStore ==
  /\ \A w \in Workers : txn[w].pc = "none"
  /\ cursor.pc = "idle"
  /\ recycle.pc # "read"
  /\ backup.pc \in {"idle", "sent"}

\* Mutant: commands that do not lock their keys.
KeysAlwaysFree(K) == TRUE

\* The key locks: no open transaction writes a key of K.
KeysFree(K) == \A w \in Workers : txn[w].keys \cap K = {}

-----------------------------------------------------------------------------
(* Transactions.                                                           *)

Init ==
  /\ isRunning = TRUE
  /\ mode = "READ_WRITE"
  /\ nextTxnSeq = MIN_VALID_TXNID
  /\ nextBinlogSeq = MIN_VALID_TXNID
  /\ aliveTxns = Empty
  /\ aliveBinlogs = Empty
  /\ highestVisible = MIN_VALID_TXNID - 1
  /\ binlogs = Empty
  /\ data = [k \in Keys |-> UNINITED]
  /\ minBinlogId = 0
  /\ txn = [w \in Workers |-> NoTxn]
  /\ cursor = NoCursor
  /\ slave = "full"
  /\ binlogPos = 0
  /\ slavePos = 0
  /\ minValidBinlogID = MIN_VALID_TXNID
  /\ lastFlushId = UNINITED
  /\ recycle = NoRecycle
  /\ backup = NoBackup
  /\ committed = {}
  /\ sent = {}
  /\ cleared = FALSE

\* The client's commands and the migration receiver write with kind "local"
\* (their binlog gets an id of this store), the slave's applier with kind
\* "apply".  applyRepllogV2 runs one at a time.
createTransaction(w, kind, K) ==
  /\ isRunning
  /\ txn[w].pc = "none"
  /\ ~Flushing
  /\ nextTxnSeq <= MaxTxn
  /\ KeysFree(K)
  /\ kind = IF mode = "READ_WRITE" \/ K = {} THEN "local" ELSE "apply"
  /\ kind = "apply" => \A v \in Workers : txn[v].kind # "apply"
  /\ nextTxnSeq' = nextTxnSeq + 1
  /\ aliveTxns' = With(aliveTxns, nextTxnSeq, UNINITED)
  /\ txn' = [txn EXCEPT ![w] = [pc |-> "open", kind |-> kind, id |-> nextTxnSeq,
                                binlogId |-> UNINITED, keys |-> K]]
  /\ UNCHANGED <<isRunning, mode, nextBinlogSeq, aliveBinlogs, highestVisible,
                 disk, repl, hist>>

\* The part assignBinlogIdIfNeeded and setNextBinlogSeq share: from here on
\* the id is in flight.
TakeBinlogId(w, id) ==
  /\ id <= MaxBinlog
  /\ nextBinlogSeq' = id + 1
  /\ aliveBinlogs' = With(aliveBinlogs, id, [done |-> FALSE, txn |-> txn[w].id])
  /\ aliveTxns' = [aliveTxns EXCEPT ![txn[w].id] = id]
  /\ txn' = [txn EXCEPT ![w].pc = "assigned", ![w].binlogId = id]
  /\ UNCHANGED <<isRunning, mode, nextTxnSeq, highestVisible,
                 disk, repl, hist>>

assignBinlogIdIfNeeded(w) ==
  /\ txn[w].pc = "open"
  /\ txn[w].kind # "apply"
  /\ txn[w].keys # {}
  /\ TakeBinlogId(w, nextBinlogSeq)

\* applySingleTxnV2 refuses an id at or below the watermark, then setBinlogKV
\* keeps the master's id.
setNextBinlogSeq(w, id) ==
  /\ txn[w].pc = "open"
  /\ txn[w].kind = "apply"
  /\ id > highestVisible
  /\ TakeBinlogId(w, id)

\* The RocksDB write: data and binlog in one batch.
txnCommit(w) ==
  LET id == txn[w].binlogId IN
  /\ txn[w].pc = "assigned"
  /\ binlogs' = With(binlogs, id, [flush |-> txn[w].kind = "flush", keys |-> txn[w].keys])
  /\ data' = [k \in Keys |-> IF k \in txn[w].keys /\ txn[w].kind # "flush"
                             THEN id ELSE data[k]]
  /\ txn' = [txn EXCEPT ![w].pc = "written"]
  /\ UNCHANGED <<store, minBinlogId, repl, cleared>>
  /\ committed' = committed \cup {id}

\* put() or txnCommit() returned an error, or the caller gave up after
\* setBinlogKV: the id is burnt.
CommitFails(w) ==
  /\ txn[w].pc = "assigned"
  /\ txn' = [txn EXCEPT ![w].pc = "failed"]
  /\ UNCHANGED <<store, disk, repl, hist>>

\* A flush that is cut short, by an error or a crash, is in SpecFlushCutShort.
txnCommitFails(w) == txn[w].kind # "flush" /\ CommitFails(w)
flushCommitFails(w) == txn[w].kind = "flush" /\ CommitFails(w)

\* Mutant: only the marked id is popped, not the committed ones behind it.
PoppedAlone(marked, id) == {n \in {id} : \A m \in DOMAIN marked : m >= id}

\* The ids _aliveBinlogs loses when `id` is marked: the committed prefix, if
\* the marked id is the first.
Popped(marked, id) ==
  {n \in DOMAIN marked : \A m \in DOMAIN marked :
     m >= id /\ (m <= n => marked[m].done)}

markCommittedInLock(w, binlogTxnId) ==
  LET id == aliveTxns[txn[w].id]
      marked == [aliveBinlogs EXCEPT ![id] = [done |-> TRUE, txn |-> binlogTxnId]]
      popped == Popped(marked, id)
  IN  /\ isRunning
      /\ aliveTxns' = Without(aliveTxns, {txn[w].id})
      /\ IF id = UNINITED
         THEN UNCHANGED <<aliveBinlogs, highestVisible>>
         ELSE /\ aliveBinlogs' = Without(marked, popped)
              /\ highestVisible' =
                   LastOf({n \in popped : marked[n].txn # UNINITED}, highestVisible)
      /\ txn' = [txn EXCEPT ![w] = NoTxn]
      /\ UNCHANGED <<isRunning, mode, nextTxnSeq, nextBinlogSeq, disk,
                     push, recycle, backup, hist>>

\* The guard of RocksTxn::commit.  A flush that succeeded goes on to
\* ReplManager::onFlush before it gives the store back.
markCommitted(w) ==
  /\ txn[w].pc \in {"written", "failed"}
  /\ IF txn[w].kind = "flush" /\ txn[w].pc = "written"
     THEN minValidBinlogID' = txn[w].id /\ lastFlushId' = txn[w].id
     ELSE UNCHANGED first
  /\ markCommittedInLock(w, IF txn[w].pc = "written" THEN txn[w].id ELSE UNINITED)

\* A commit without binlog, a rollback, or the destructor of a transaction
\* nobody committed.
EndWithoutBinlog(w) ==
  /\ txn[w].pc = "open"
  /\ txn[w].kind # "flush"
  /\ markCommittedInLock(w, UNINITED)
  /\ UNCHANGED first

-----------------------------------------------------------------------------
(* Store lifecycle.                                                        *)

\* RepllogCursorV2::getMinBinlogId: the saved minimum, else the first binlog
\* on disk, else (ERR_EXHAUST) the caller's default.
getMinBinlogId(default) ==
  CASE minBinlogId # 0 -> minBinlogId
    [] minBinlogId = 0 /\ DOMAIN binlogs # {} ->
         CHOOSE n \in DOMAIN binlogs : \A m \in DOMAIN binlogs : n <= m
    [] OTHER -> default

\* Mutant: the last id on disk is handed out again.
ReopenAtLast(logs, seq) ==
  /\ nextBinlogSeq' = LastOf(DOMAIN logs, seq)
  /\ highestVisible' = LastOf(DOMAIN logs, seq - 1)
  /\ isRunning' = TRUE

\* What restart(false, seq) makes of the binlogs it finds on disk: it goes on
\* after the last one, or at seq if there is none.
Reopen(logs, seq) ==
  LET maxCommitId == LastOf(DOMAIN logs, seq - 1)
  IN  /\ nextBinlogSeq' = maxCommitId + 1
      /\ highestVisible' = maxCommitId
      /\ isRunning' = TRUE

\* The process starts again: the store's constructor calls restart, then
\* ReplManager::startup finds the first binlog.
restart ==
  /\ ~isRunning
  /\ Reopen(binlogs, MIN_VALID_TXNID)
  /\ nextTxnSeq' = nextBinlogSeq'
  /\ minValidBinlogID' = getMinBinlogId(MIN_VALID_TXNID)
  /\ lastFlushId' = UNINITED
  /\ UNCHANGED <<mode, aliveTxns, aliveBinlogs, disk, txn, push, recycle, backup, hist>>

\* The binlog is a flush (its chunk id is CHUNKID_FLUSH).
IsFlush(n) == n \in DOMAIN binlogs /\ binlogs[n].flush

\* FLUSHALL takes the next id.  The slave's runFlush takes the master's, and
\* does not compare it with the watermark: the id is above it, or the flush is
\* the last binlog applied, sent again because runFlush does not advance the
\* position the slave asks for.
FlushId(seq) ==
  IF mode = "READ_WRITE" THEN seq = nextBinlogSeq
  ELSE \/ seq > highestVisible
       \/ seq = highestVisible /\ IsFlush(seq)

\* Mutant: restart leaves _nextTxnSeq alone, so the flush is not the first
\* transaction.
flushKeepsTxnSeq(w, seq) ==
  /\ isRunning
  /\ NobodyInStore
  /\ seq <= MaxBinlog
  /\ seq <= MaxTxn
  /\ FlushId(seq)
  /\ Reopen(Empty, seq)
  /\ binlogs' = Empty
  /\ data' = [k \in Keys |-> UNINITED]
  /\ minBinlogId' = 0
  /\ nextTxnSeq' = nextTxnSeq + 1
  /\ aliveTxns' = With(aliveTxns, nextTxnSeq, UNINITED)
  /\ txn' = [txn EXCEPT ![w] = [pc |-> "open", kind |-> "flush", id |-> nextTxnSeq,
                                binlogId |-> UNINITED, keys |-> Keys]]
  /\ cleared' = TRUE
  /\ committed' = {}
  /\ sent' = sent \cap {seq}
  /\ UNCHANGED <<mode, aliveBinlogs, slave, cursor, binlogPos, slavePos, first,
                 recycle, backup>>

\* stop, clear, restart(false, seq), then a transaction that logs the flush
\* under seq.  stop() is not refused: nobody is in the store.
flush(w, seq) ==
  /\ isRunning
  /\ NobodyInStore
  /\ seq <= MaxBinlog
  /\ seq <= MaxTxn
  /\ FlushId(seq)
  /\ Reopen(Empty, seq)
  /\ binlogs' = Empty
  /\ data' = [k \in Keys |-> UNINITED]
  /\ minBinlogId' = 0
  /\ nextTxnSeq' = seq + 1
  /\ aliveTxns' = With(aliveTxns, seq, UNINITED)
  /\ txn' = [txn EXCEPT ![w] = [pc |-> "open", kind |-> "flush", id |-> seq,
                                binlogId |-> UNINITED, keys |-> Keys]]
  /\ cleared' = TRUE
  /\ committed' = {}
  /\ sent' = sent \cap {seq}
  /\ UNCHANGED <<mode, aliveBinlogs, slave, cursor, binlogPos, slavePos, first,
                 recycle, backup>>

\* changeReplSourceInDBLock; its callers hold the store in mode X.
setMode(m) ==
  /\ isRunning
  /\ NobodyInStore
  /\ aliveTxns = Empty
  /\ m # mode
  /\ mode' = m
  /\ nextTxnSeq' = IF m = "READ_WRITE" /\ nextTxnSeq <= highestVisible
                   THEN highestVisible + 1 ELSE nextTxnSeq
  /\ UNCHANGED <<isRunning, nextBinlogSeq, aliveTxns, aliveBinlogs, highestVisible,
                 disk, txn, repl, hist>>

\* The process dies.  RocksDB keeps what was written; the rest is gone.
Die ==
  /\ isRunning
  /\ isRunning' = FALSE
  /\ aliveTxns' = Empty
  /\ aliveBinlogs' = Empty
  /\ txn' = [w \in Workers |-> NoTxn]
  /\ slave' = IF slave = "pushed" THEN "incr" ELSE slave
  /\ cursor' = NoCursor
  /\ recycle' = NoRecycle
  /\ backup' = NoBackup
  /\ UNCHANGED <<mode, nextTxnSeq, nextBinlogSeq, highestVisible, disk,
                 binlogPos, slavePos, sent, first, hist>>

\* A flush has cleared the store and its binlog is not on disk yet.
FlushPending == \E w \in Workers : txn[w].kind = "flush" /\ txn[w].pc # "written"

Crash == ~FlushPending /\ Die
CrashInFlush == FlushPending /\ Die

-----------------------------------------------------------------------------
(* The pusher: registerIncrSync, masterPushRoutine and masterSendBinlogV2, *)
(* under the store's IS lock.                                              *)

\* The slave asks for what follows slavePos.  _logRecycStatus.isRunning keeps
\* the recycler out, and the check that counts is the one in
\* registerIncrSyncStatus, in one critical section with the registration.
registerIncrSync ==
  /\ isRunning
  /\ ~Flushing
  /\ slave = "incr"
  /\ recycle.pc = "idle"
  /\ minValidBinlogID <= slavePos + 1 \/ minValidBinlogID = lastFlushId
  /\ slave' = "pushed"
  /\ binlogPos' = slavePos
  /\ backup' = IF backup.pc = "sent" THEN NoBackup ELSE backup
  /\ UNCHANGED <<store, disk, txn, cursor, slavePos, sent, first, recycle, hist>>

\* Mutant: ignoreReadBarrier, the cursor reads past the watermark.
createCursorPastBarrier ==
  /\ isRunning
  /\ ~Flushing
  /\ slave = "pushed"
  /\ cursor.pc = "idle"
  /\ binlogPos < highestVisible
  /\ cursor' = [pc |-> "opened", cur |-> binlogPos + 1, end |-> nextBinlogSeq - 1, got |-> {}]
  /\ UNCHANGED <<store, disk, txn, slave, binlogPos, slavePos, sent, first, recycle,
                 backup, hist>>

createRepllogCursorV2 ==
  /\ isRunning
  /\ ~Flushing
  /\ slave = "pushed"
  /\ cursor.pc = "idle"
  /\ binlogPos < highestVisible
  /\ cursor' = [pc |-> "opened", cur |-> binlogPos + 1, end |-> highestVisible, got |-> {}]
  /\ UNCHANGED <<store, disk, txn, slave, binlogPos, slavePos, sent, first, recycle,
                 backup, hist>>

\* A cursor that would begin at the first id of all looks for the first one
\* that is left.
CursorSeek ==
  /\ cursor.pc = "opened"
  /\ cursor' = [cursor EXCEPT
       !.pc = "reading",
       !.cur = IF @ <= MIN_VALID_TXNID THEN getMinBinlogId(cursor.end + 1) ELSE @]
  /\ UNCHANGED <<store, disk, txn, slave, binlogPos, slavePos, sent, first, recycle,
                 backup, hist>>

\* RepllogCursorV2::next looks one id up, and passes over an id that is not
\* there.  A flush is sent alone.
CursorNext ==
  /\ cursor.pc = "reading"
  /\ cursor.cur <= cursor.end
  /\ cursor.got # {} => \A n \in cursor.got \cup {cursor.cur} : ~IsFlush(n)
  /\ cursor' = [cursor EXCEPT !.cur = @ + 1,
                              !.got = @ \cup ({cursor.cur} \cap DOMAIN binlogs)]
  /\ UNCHANGED <<store, disk, txn, slave, binlogPos, slavePos, sent, first, recycle,
                 backup, hist>>

\* What the slave does with the batch.  runFlush leaves its position alone.
SlaveApplies ==
  /\ sent' = sent \cup cursor.got
  /\ slavePos' = IF \E n \in cursor.got : IsFlush(n) THEN slavePos
                 ELSE LastOf(cursor.got, slavePos)

\* The batch is full, or the cursor is exhausted; the slave answers +OK.
SendBatch ==
  /\ cursor.pc = "reading"
  /\ cursor.got # {} \/ cursor.cur > cursor.end
  /\ SlaveApplies
  /\ binlogPos' = LastOf(cursor.got, binlogPos)
  /\ cursor' = NoCursor
  /\ UNCHANGED <<store, disk, txn, slave, first, recycle, backup, hist>>

\* No answer or a bad one: the pusher forgets the slave, which has applied the
\* batch or has not.
SendFails ==
  /\ cursor.pc = "reading"
  /\ cursor.got # {}
  /\ SlaveApplies \/ UNCHANGED <<sent, slavePos>>
  /\ slave' = "incr"
  /\ cursor' = NoCursor
  /\ UNCHANGED <<store, disk, txn, binlogPos, first, recycle, backup, hist>>

-----------------------------------------------------------------------------
(* The recycler: ReplManager::recycleBinlog and truncateBinlogV2, under    *)
(* the store's IX lock.                                                    *)

Least(a, b) == IF a <= b THEN a ELSE b

\* Mutant: the pusher's position is forgotten.
RecycleEndNoPush ==
  LET full == IF backup.pc = "idle" THEN highestVisible ELSE Least(highestVisible, backup.push)
  IN  IF highestVisible < KeepNum THEN 0 ELSE Least(highestVisible - KeepNum, full)

\* Mutant: not even one binlog is kept.
RecycleEndKeepNone ==
  LET pushed == IF slave = "pushed" THEN Least(highestVisible, binlogPos) ELSE highestVisible
  IN  IF backup.pc = "idle" THEN pushed ELSE Least(pushed, backup.push)

\* The last id that may go: before the last KeepNum ids, and not needed by
\* the pusher or by a full sync.
RecycleEnd ==
  LET pushed == IF slave = "pushed" THEN Least(highestVisible, binlogPos) ELSE highestVisible
      full == IF backup.pc = "idle" THEN pushed ELSE Least(pushed, backup.push)
  IN  IF highestVisible < KeepNum THEN 0 ELSE Least(highestVisible - KeepNum, full)

\* With nothing to recycle it returns at once, through the same guard.
recycleBinlog ==
  /\ isRunning
  /\ ~Flushing
  /\ recycle.pc = "idle"
  /\ recycle' = [pc |-> IF minValidBinlogID <= RecycleEnd THEN "read" ELSE "truncated",
                 end |-> RecycleEnd, start |-> minValidBinlogID]
  /\ UNCHANGED <<store, disk, txn, push, first, backup, hist>>

\* saveMinBinlogId, then deleteRangeBinlog, which drops whole SST files only:
\* any of the ids below newStart may stay behind.
truncateBinlogV2(newStart, gone) ==
  /\ recycle.pc = "read"
  /\ newStart > recycle.start
  /\ newStart <= recycle.end + 1
  /\ \E n \in DOMAIN binlogs : newStart - 1 <= n /\ n <= recycle.end
  /\ gone \subseteq {n \in DOMAIN binlogs : n < newStart}
  /\ minBinlogId' = newStart
  /\ binlogs' = Without(binlogs, gone)
  /\ recycle' = [recycle EXCEPT !.pc = "truncated", !.start = newStart]
  /\ UNCHANGED <<store, data, txn, push, first, backup, hist>>

\* Nothing old enough to drop.
TruncateNothing ==
  /\ recycle.pc = "read"
  /\ recycle' = [recycle EXCEPT !.pc = "truncated"]
  /\ UNCHANGED <<store, disk, txn, push, first, backup, hist>>

\* The guard of recycleBinlog runs after the store's lock has been released.
RecycleReturns ==
  /\ recycle.pc = "truncated"
  /\ minValidBinlogID' = IF recycle.start # MIN_VALID_TXNID THEN recycle.start
                         ELSE minValidBinlogID
  /\ recycle' = NoRecycle
  /\ UNCHANGED <<store, disk, txn, push, lastFlushId, backup, hist>>

-----------------------------------------------------------------------------
(* Full sync: supplyFullSyncRoutine and RocksKVStore::backup, under the    *)
(* store's IS lock.                                                        *)

\* The entry in _fullPushStatus: the recycler keeps what comes after it.
supplyFullSync ==
  /\ isRunning
  /\ ~Flushing
  /\ slave # "pushed"
  /\ backup.pc = "idle"
  /\ slave' = "full"
  /\ backup' = [backup EXCEPT !.pc = "pushing", !.push = highestVisible]
  /\ UNCHANGED <<store, disk, txn, cursor, binlogPos, slavePos, sent, first, recycle, hist>>

\* Mutant: the position counts ids that are still in flight.
BackupAtNextSeq ==
  /\ backup.pc = "pushing"
  /\ backup' = [backup EXCEPT !.pc = "positioned", !.pos = nextBinlogSeq - 1]
  /\ UNCHANGED <<store, disk, txn, push, first, recycle, hist>>

BackupPosition ==
  /\ backup.pc = "pushing"
  /\ backup' = [backup EXCEPT !.pc = "positioned", !.pos = highestVisible]
  /\ UNCHANGED <<store, disk, txn, push, first, recycle, hist>>

\* The checkpoint holds the effect of every transaction written so far.
CreateCheckpoint ==
  /\ backup.pc = "positioned"
  /\ backup' = [backup EXCEPT !.pc = "checkpointed", !.ckpt = committed]
  /\ UNCHANGED <<store, disk, txn, push, first, recycle, hist>>

\* The slave has the files and restarts at the backup's position.  The entry
\* in _fullPushStatus stays until it registers.
FullSyncDone ==
  /\ backup.pc = "checkpointed"
  /\ backup' = [backup EXCEPT !.pc = "sent"]
  /\ slave' = "incr"
  /\ slavePos' = backup.pos
  /\ sent' = backup.ckpt
  /\ UNCHANGED <<store, disk, txn, cursor, binlogPos, first, recycle, hist>>

\* The slave went away, or backup() failed: the entry is erased.
FullSyncFails ==
  /\ backup.pc \in {"pushing", "positioned", "checkpointed"}
  /\ backup' = NoBackup
  /\ UNCHANGED <<store, disk, txn, push, first, recycle, hist>>

\* The slave's last +OK is lost.  The slave does not look at the outcome and
\* goes on at the backup's position; the master erases the entry.
FullSyncAnswerLost ==
  /\ backup.pc = "checkpointed"
  /\ backup' = NoBackup
  /\ slave' = "incr"
  /\ slavePos' = backup.pos
  /\ sent' = backup.ckpt
  /\ UNCHANGED <<store, disk, txn, cursor, binlogPos, first, recycle, hist>>

\* 600 seconds without an INCRSYNC.
recycleFullPushStatus ==
  /\ backup.pc = "sent"
  /\ backup' = NoBackup
  /\ UNCHANGED <<store, disk, txn, push, first, recycle, hist>>

-----------------------------------------------------------------------------

WorkerStep(w) ==
  \/ assignBinlogIdIfNeeded(w)
  \/ \E id \in 1..MaxBinlog : setNextBinlogSeq(w, id)
  \/ txnCommit(w)
  \/ txnCommitFails(w)
  \/ markCommitted(w)
  \/ EndWithoutBinlog(w)

Pusher ==
  \/ registerIncrSync \/ createRepllogCursorV2 \/ CursorSeek \/ CursorNext
  \/ SendBatch \/ SendFails

Recycler ==
  \/ recycleBinlog
  \/ \E newStart \in 1..MaxBinlog, gone \in SUBSET DOMAIN binlogs :
       truncateBinlogV2(newStart, gone)
  \/ TruncateNothing
  \/ RecycleReturns

FullSync ==
  \/ supplyFullSync \/ BackupPosition \/ CreateCheckpoint
  \/ FullSyncDone \/ FullSyncFails \/ FullSyncAnswerLost \/ recycleFullPushStatus

Next ==
  \/ \E w \in Workers :
       \/ \E kind \in {"local", "apply"}, K \in SUBSET Keys : createTransaction(w, kind, K)
       \/ WorkerStep(w)
       \/ \E seq \in 1..MaxBinlog : flush(w, seq)
  \/ \E m \in {"READ_WRITE", "REPLICATE_ONLY"} : setMode(m)
  \/ Pusher
  \/ Recycler
  \/ FullSync
  \/ Crash
  \/ restart

Spec == Init /\ [][Next]_vars

\* The same, with a flush that may be cut short after it cleared the store.
SpecFlushCutShort ==
  Init /\ [][Next \/ CrashInFlush \/ \E w \in Workers : flushCommitFails(w)]_vars

-----------------------------------------------------------------------------
(* Properties.                                                             *)

Binlog == [flush: BOOLEAN, keys: SUBSET Keys]

\* Type correctness of the store, its disk and the threads in it.
TypeOK ==
  /\ isRunning \in BOOLEAN
  /\ mode \in {"READ_WRITE", "REPLICATE_ONLY"}
  /\ nextTxnSeq \in Nat /\ nextBinlogSeq \in Nat /\ highestVisible \in Nat
  /\ DOMAIN aliveTxns \subseteq Nat
  /\ \A t \in DOMAIN aliveTxns : aliveTxns[t] \in Nat
  /\ DOMAIN aliveBinlogs \subseteq Nat
  /\ \A n \in DOMAIN aliveBinlogs : aliveBinlogs[n] \in [done: BOOLEAN, txn: Nat]
  /\ DOMAIN binlogs \subseteq Nat
  /\ \A n \in DOMAIN binlogs : binlogs[n] \in Binlog
  /\ data \in [Keys -> Nat]
  /\ minBinlogId \in Nat /\ minValidBinlogID \in Nat /\ lastFlushId \in Nat
  /\ slave \in {"full", "incr", "pushed"}
  /\ binlogPos \in Nat /\ slavePos \in Nat
  /\ txn \in [Workers -> [pc: {"none", "open", "assigned", "written", "failed"},
                          kind: {"local", "apply", "flush"}, id: Nat, binlogId: Nat,
                          keys: SUBSET Keys]]
  /\ cursor \in [pc: {"idle", "opened", "reading"}, cur: Nat, end: Nat, got: SUBSET Nat]
  /\ recycle \in [pc: {"idle", "read", "truncated"}, end: Nat, start: Nat]
  /\ backup \in [pc: {"idle", "pushing", "positioned", "checkpointed", "sent"}, push: Nat,
                 pos: Nat, ckpt: SUBSET Nat]
  /\ committed \subseteq Nat /\ sent \subseteq Nat
  /\ cleared \in BOOLEAN

\* No binlog id is handed out twice: every id on disk or in flight is below
\* _nextBinlogSeq, through crashes, flushes and changes of mode.
NoIdReuse ==
  isRunning => \A n \in DOMAIN binlogs \cup DOMAIN aliveBinlogs : n < nextBinlogSeq

\* _aliveBinlogs never holds a committed id first: its first id belongs to an
\* open transaction, so somebody is still going to pop it, and a store with
\* no open transaction (the condition stop() checks) has nothing in flight.
HeadInFlight ==
  \A n \in DOMAIN aliveBinlogs :
    (\A m \in DOMAIN aliveBinlogs : n <= m) =>
      /\ ~aliveBinlogs[n].done
      /\ \E t \in DOMAIN aliveTxns : aliveTxns[t] = n

\* The slave misses nothing: every binlog written at or below its position,
\* its own or the one the pusher has for it, has reached it, whether or not it
\* is still on disk.  So a commit below the watermark, a cursor that reads
\* past it, and a recycler that runs while nobody is registered are harmless.
SlaveMissesNothing ==
  slave # "full" =>
    \A n \in committed :
      n <= slavePos \/ (slave = "pushed" /\ n <= binlogPos) => n \in sent

\* What a registered slave has yet to get is on disk.
NeededBinlogsKept ==
  slave = "pushed" => \A n \in committed : n > binlogPos => n \in DOMAIN binlogs

\* Replaying the binlogs gives the data: a key holds what the last binlog
\* about it says, if there still is one.  What deleteRangeBinlog left behind
\* below the saved minimum does not count: no reader begins there.
BinlogExplainsData ==
  \A k \in Keys :
    LET about == {n \in DOMAIN binlogs : n >= minBinlogId /\ k \in binlogs[n].keys}
        last == LastOf(about, 0)
    IN  about # {} => data[k] = IF binlogs[last].flush THEN UNINITED ELSE last

\* A slave that restores the checkpoint and asks for what follows its
\* position misses nothing: the checkpoint has every binlog up to the
\* position, and the recycler has dropped none after it.
CheckpointUsable ==
  backup.pc \in {"checkpointed", "sent"} =>
    \A n \in committed :
      IF n <= backup.pos THEN n \in backup.ckpt ELSE n \in DOMAIN binlogs

\* "make sure the first binlog is flush db, and write the flush binlog using
\* nextBinlogid": once a flush has cleared the store, the first binlog is the
\* flush (until it is recycled), and it is the first transaction, too.
FirstBinlogIsFlush ==
  /\ cleared /\ minBinlogId = 0 =>
       \A n \in DOMAIN binlogs : (\A m \in DOMAIN binlogs : n <= m) => binlogs[n].flush
  /\ \A w \in Workers : txn[w].kind = "flush" /\ txn[w].binlogId # UNINITED
                          => txn[w].binlogId = txn[w].id

\* No step makes the watermark go back: neither a commit nor a restart after
\* a crash, which takes it from the last binlog on disk.  Only a flush that is
\* applied twice does, until it has logged itself again.
WatermarkNeverGoesBack == [][highestVisible' >= highestVisible \/ Flushing']_vars

-----------------------------------------------------------------------------

\* A thread that has a transaction finishes it.
FairSpec == Spec /\ \A w \in Workers : WF_vars(WorkerStep(w))

\* Every binlog on disk becomes visible, unless the process dies first: no
\* commit leaves its id behind in _aliveBinlogs.
EveryBinlogBecomesVisible ==
  \A n \in 1..MaxBinlog :
    n \in DOMAIN binlogs /\ isRunning ~> highestVisible >= n \/ ~isRunning
=============================================================================

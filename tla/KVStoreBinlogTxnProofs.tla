----------------------- MODULE KVStoreBinlogTxnProofs -----------------------
(***************************************************************************)
(* The life of a transaction keeps the inductive invariant: it is opened,  *)
(* takes a binlog id, is written or fails, and ends with                   *)
(* markCommittedInLock.                                                    *)
(***************************************************************************)
EXTENDS KVStoreBinlogInv

-----------------------------------------------------------------------------
(* Ids and writes.                                                         *)

\* Opening a transaction keeps the invariant.
LEMMA CreateIInv ==
  ASSUME IInv, NEW w \in Workers, NEW kind \in {"local", "apply"}, NEW K \in SUBSET Keys,
         createTransaction(w, kind, K)
  PROVE  IInv'
<1> USE DEF disk, hist, push, first, repl
<1> DEFINE r == [pc |-> "open", kind |-> kind, id |-> nextTxnSeq, binlogId |-> UNINITED, keys |-> K]
<1>0. TypeOK /\ TypeSeqs /\ TypeAliveTxns /\ TypeTxn
  BY Zenon, TypePieces DEF IInv
<1>1. /\ isRunning /\ txn[w].pc = "none"
      /\ nextTxnSeq' = nextTxnSeq + 1 /\ aliveTxns' = With(aliveTxns, nextTxnSeq, UNINITED)
      /\ txn' = [txn EXCEPT ![w] = r]
      /\ UNCHANGED <<isRunning, mode, nextBinlogSeq, aliveBinlogs, highestVisible, disk, repl, hist>>
  BY Zenon DEF createTransaction
<1>2. txn'[w] = r /\ \A v \in Workers : v # w => txn'[v] = txn[v]
  BY Zenon, <1>0, <1>1 DEF TypeTxn
<1>3. /\ DOMAIN aliveTxns' = DOMAIN aliveTxns \cup {nextTxnSeq}
      /\ aliveTxns'[nextTxnSeq] = UNINITED
      /\ \A t \in DOMAIN aliveTxns : t # nextTxnSeq => aliveTxns'[t] = aliveTxns[t]
  BY Zenon, <1>1 DEF With
<1>4. \A v \in Workers : /\ Owner(v)' <=> Owner(v)
                         /\ Open(v)' <=> Open(v) \/ v = w
                         /\ Owner(v) => v # w
  BY <1>1, <1>2 DEF Owner, Open
<1>5. TypeOK'
  <2>1. TypeSeqs'
    BY <1>0, <1>1 DEF TypeSeqs
  <2>2. TypeAliveTxns'
    BY <1>0, <1>3 DEF TypeAliveTxns, TypeSeqs, UNINITED
  <2>3. r \in Txns
    BY Zenon, <1>0 DEF Txns, TypeSeqs, UNINITED
  <2>4. TypeTxn'
    BY Zenon, <1>0, <1>1, <2>3 DEF TypeTxn
  <2>5. TypeAliveBinlogs' /\ TypeBinlogs' /\ TypeData' /\ TypeRest'
    BY Zenon, <1>0, <1>1, TypePieces DEF TypeAliveBinlogs, TypeBinlogs, TypeData, TypeRest
  <2>6. TypeCursor' /\ TypeRecycle' /\ TypeBackup' /\ TypePush'
    BY Zenon, <1>0, <1>1, ReplTypes
  <2> QED
    BY Zenon, <2>1, <2>2, <2>4, <2>5, <2>6, TypePieces
<1>6. TxnInv'
  <2>1. \A v \in Workers : Open(v) => txn[v].id # nextTxnSeq /\ txn[v].id < nextTxnSeq + 1
    BY <1>0 DEF IInv, TxnInv, TypeSeqs, TypeTxn, Txns
  <2>2. nextTxnSeq >= 1 /\ nextTxnSeq < nextTxnSeq + 1 /\ nextTxnSeq + 1 >= 1
    BY <1>0 DEF IInv, TxnInv, TypeSeqs
  <2>3. ~Open(w)
    BY Zenon, <1>1 DEF Open
  <2> QED
    BY <1>1, <1>2, <1>3, <1>4, <2>1, <2>2, <2>3 DEF IInv, TxnInv
<1>7. ModeInv'
  <2>1. \A v \in Workers : txn[v].kind # "flush"
    BY Zenon DEF createTransaction, Flushing
  <2>2. /\ mode = "REPLICATE_ONLY" /\ kind = "local" => K = {}
        /\ kind = "apply" => mode = "REPLICATE_ONLY" /\ K # {}
        /\ kind = "apply" => \A v \in Workers : txn[v].kind # "apply"
    BY Zenon, <1>0 DEF createTransaction, TypeSeqs
  <2> QED
    BY <1>1, <1>2, <1>4, <2>1, <2>2 DEF IInv, ModeInv
<1>8. OwnerInv'
  BY Zenon, <1>1, <1>2, <1>4 DEF IInv, OwnerInv
<1>9. AliveInv'
  BY <1>1, <1>2, <1>4 DEF IInv, AliveInv
<1>10. DiskInv' /\ CursorInv'
  BY Zenon, <1>1 DEF IInv, DiskInv, CursorInv
<1>11. KeptInv'
  <2>1. FlushPending => FlushPending'
    BY Zenon DEF createTransaction, Flushing, FlushPending
  <2> QED
    BY Zenon, <1>1, <2>1 DEF IInv, KeptInv
<1> QED
  BY Zenon, <1>5, <1>6, <1>7, <1>8, <1>9, <1>10, <1>11 DEF IInv

\* Taking an id above every binlog on disk and in flight, and above the
\* watermark, keeps the invariant.
LEMMA TakeIInv ==
  ASSUME IInv, NEW w \in Workers, NEW id \in Nat, TakeBinlogId(w, id),
         txn[w].pc = "open", txn[w].keys # {}, highestVisible < id,
         \A n \in DOMAIN binlogs \cup DOMAIN aliveBinlogs : n < id
  PROVE  IInv'
<1> USE DEF disk, hist, push, first, repl
<1> DEFINE a == [done |-> FALSE, txn |-> txn[w].id]
<1>0. TypeOK /\ TypeSeqs /\ TypeAliveTxns /\ TypeAliveBinlogs /\ TypeBinlogs /\ TypeTxn
  BY Zenon, TypePieces DEF IInv
<1>1. /\ nextBinlogSeq' = id + 1 /\ aliveBinlogs' = With(aliveBinlogs, id, a)
      /\ aliveTxns' = [aliveTxns EXCEPT ![txn[w].id] = id]
      /\ txn' = [txn EXCEPT ![w].pc = "assigned", ![w].binlogId = id]
      /\ UNCHANGED <<isRunning, mode, nextTxnSeq, highestVisible, disk, repl, hist>>
  BY Zenon DEF TakeBinlogId
<1>2. /\ txn'[w].pc = "assigned" /\ txn'[w].binlogId = id /\ txn'[w].kind = txn[w].kind
      /\ txn'[w].id = txn[w].id /\ txn'[w].keys = txn[w].keys
      /\ \A v \in Workers : v # w => txn'[v] = txn[v]
  BY Zenon, <1>0, <1>1 DEF TypeTxn, Txns
<1>3. /\ DOMAIN aliveBinlogs' = DOMAIN aliveBinlogs \cup {id}
      /\ aliveBinlogs'[id] = a
      /\ \A n \in DOMAIN aliveBinlogs : n # id => aliveBinlogs'[n] = aliveBinlogs[n]
  BY Zenon, <1>1 DEF With
<1>4. id \notin DOMAIN binlogs /\ id \notin DOMAIN aliveBinlogs
  BY <1>0
<1>5. Open(w) /\ ~Owner(w) /\ Open(w)' /\ Owner(w)'
  BY Zenon, <1>2 DEF Open, Owner
<1>6. \A v \in Workers : v # w => (Open(v)' <=> Open(v)) /\ (Owner(v)' <=> Owner(v))
  BY Zenon, <1>2 DEF Open, Owner
<1>7. /\ DOMAIN aliveTxns' = DOMAIN aliveTxns /\ txn[w].id \in DOMAIN aliveTxns
      /\ aliveTxns'[txn[w].id] = id
      /\ \A t \in DOMAIN aliveTxns : t # txn[w].id => aliveTxns'[t] = aliveTxns[t]
  BY Zenon, <1>1, <1>5 DEF IInv, TxnInv
<1>8. TypeOK'
  <2>1. TypeSeqs'
    BY <1>0, <1>1 DEF TypeSeqs
  <2>2. TypeAliveTxns'
    BY Zenon, <1>0, <1>7 DEF TypeAliveTxns
  <2>3. a \in [done: BOOLEAN, txn: Nat]
    BY Zenon, <1>0 DEF TypeTxn, Txns
  <2>4. TypeAliveBinlogs'
    BY Zenon, <1>0, <1>3, <2>3 DEF TypeAliveBinlogs
  <2>5. TypeTxn'
    <3>1. PICK t : t = [txn EXCEPT ![w].pc = "assigned"]
      BY Zenon
    <3>2. t \in [Workers -> Txns]
      BY <1>0, <3>1 DEF TypeTxn, Txns
    <3>3. txn' = [t EXCEPT ![w].binlogId = id]
      BY Zenon, <1>1, <3>1
    <3>4. [t EXCEPT ![w].binlogId = id] \in [Workers -> Txns]
      BY Zenon, <3>2 DEF Txns
    <3> QED
      BY Zenon, <3>3, <3>4 DEF TypeTxn
  <2>6. TypeBinlogs' /\ TypeData' /\ TypeRest'
    BY Zenon, <1>0, <1>1, TypePieces DEF TypeBinlogs, TypeData, TypeRest
  <2>7. TypeCursor' /\ TypeRecycle' /\ TypeBackup' /\ TypePush'
    BY Zenon, <1>0, <1>1, ReplTypes
  <2> QED
    BY Zenon, <2>1, <2>2, <2>4, <2>5, <2>6, <2>7, TypePieces
<1>16. \A v \in Workers : /\ txn'[v].id = txn[v].id /\ txn'[v].kind = txn[v].kind
                          /\ txn'[v].keys = txn[v].keys /\ (Open(v)' <=> Open(v))
  BY Zenon, <1>2, <1>5, <1>6
<1>9. TxnInv'
  <2>1. nextTxnSeq' >= 1
    BY Zenon, <1>1 DEF IInv, TxnInv
  <2>2. \A v, u \in Workers : Open(v)' /\ Open(u)' /\ txn'[v].id = txn'[u].id => v = u
    BY <1>16 DEF IInv, TxnInv
  <2>3. ASSUME NEW v \in Workers
        PROVE  /\ ~Open(v)' => txn'[v] = NoTxn
               /\ Open(v)' => /\ isRunning'
                             /\ txn'[v].id \in DOMAIN aliveTxns'
                             /\ aliveTxns'[txn'[v].id] = txn'[v].binlogId
                             /\ txn'[v].id >= 1 /\ txn'[v].id < nextTxnSeq'
               /\ Open(v)' /\ ~Owner(v)' => txn'[v].binlogId = UNINITED
    <3>1. CASE v = w
      BY <1>1, <1>2, <1>5, <1>7, <3>1 DEF IInv, TxnInv
    <3>2. CASE v # w
      <4>1. Open(v) => txn[v].id # txn[w].id
        BY Zenon, <1>5, <3>2 DEF IInv, TxnInv
      <4>2. txn'[v] = txn[v] /\ (Open(v)' <=> Open(v)) /\ (Owner(v)' <=> Owner(v))
        BY Zenon, <1>2, <1>6, <3>2
      <4> QED
        BY <1>1, <1>7, <4>1, <4>2 DEF IInv, TxnInv
    <3> QED
      BY Zenon, <3>1, <3>2
  <2> QED
    BY Zenon, <2>1, <2>2, <2>3 DEF TxnInv
<1>10. ModeInv'
  <2>1. \A v \in Workers : Owner(v)' => txn'[v].keys # {}
    BY Zenon, <1>6, <1>16 DEF IInv, ModeInv
  <2>2. \A v \in Workers : txn'[v].kind = "flush" => txn'[v].pc # "failed"
    BY SMTT(40), <1>2, <1>16 DEF IInv, ModeInv
  <2>3. \A v \in Workers :
          /\ mode' = "REPLICATE_ONLY" /\ txn'[v].kind = "local" => txn'[v].keys = {}
          /\ txn'[v].kind = "apply" => mode' = "REPLICATE_ONLY" /\ txn'[v].keys # {}
    <3>1. mode' = mode
      BY Zenon, <1>1
    <3>2. \A v \in Workers :
            /\ mode = "REPLICATE_ONLY" /\ txn[v].kind = "local" => txn[v].keys = {}
            /\ txn[v].kind = "apply" => mode = "REPLICATE_ONLY" /\ txn[v].keys # {}
      BY Zenon DEF IInv, ModeInv
    <3> QED
      BY Zenon, <1>16, <3>1, <3>2
  <2>4. \A v, u \in Workers : v # u =>
          /\ txn'[v].kind = "apply" => txn'[u].kind # "apply"
          /\ txn'[v].kind = "flush" => ~Open(u)'
    BY SMTT(40), <1>16 DEF IInv, ModeInv
  <2> QED
    BY Zenon, <2>1, <2>2, <2>3, <2>4 DEF ModeInv
<1>11. OwnerInv'
  <2>1. \A v \in Workers : v # w /\ Owner(v) => txn[v].binlogId # id
    BY Zenon, <1>4 DEF IInv, OwnerInv
  <2>5. ~aliveBinlogs'[id].done
    BY <1>3
  <2>2. ASSUME NEW v \in Workers, Owner(v)', v # w
        PROVE  /\ txn'[v].binlogId \in DOMAIN aliveBinlogs'
               /\ ~aliveBinlogs'[txn'[v].binlogId].done
               /\ txn'[v].binlogId \in DOMAIN binlogs' <=> txn'[v].pc = "written"
    <3>1. Owner(v) /\ txn'[v] = txn[v]
      BY Zenon, <1>2, <1>6, <2>2
    <3>2. PICK n : n = txn[v].binlogId
      BY Zenon
    <3>3. /\ n # id /\ n \in DOMAIN aliveBinlogs /\ ~aliveBinlogs[n].done
          /\ n \in DOMAIN binlogs <=> txn[v].pc = "written"
      BY Zenon, <2>1, <2>2, <3>1, <3>2 DEF IInv, OwnerInv
    <3>4. n \in DOMAIN aliveBinlogs' /\ aliveBinlogs'[n] = aliveBinlogs[n] /\ binlogs' = binlogs
      BY Zenon, <1>1, <1>3, <3>3
    <3> QED
      BY Zenon, <3>1, <3>2, <3>3, <3>4
  <2>3. /\ txn'[w].binlogId \in DOMAIN aliveBinlogs'
        /\ ~aliveBinlogs'[txn'[w].binlogId].done
        /\ txn'[w].binlogId \in DOMAIN binlogs' <=> txn'[w].pc = "written"
    BY Zenon, <1>1, <1>2, <1>3, <1>4, <2>5
  <2>4. \A v, u \in Workers :
          Owner(v)' /\ Owner(u)' /\ txn'[v].binlogId = txn'[u].binlogId => v = u
    BY SMTT(40), <1>2, <1>6, <2>1 DEF IInv, OwnerInv
  <2> QED
    BY Zenon, <2>2, <2>3, <2>4 DEF OwnerInv
<1>12. AliveInv'
  <2>1. highestVisible' < nextBinlogSeq' /\ id < nextBinlogSeq'
    BY <1>0, <1>1 DEF TypeSeqs
  <2>2. \A n \in DOMAIN aliveBinlogs : n < nextBinlogSeq'
    BY <1>0, <1>1 DEF TypeAliveBinlogs
  <2>3. \A n \in DOMAIN aliveBinlogs' :
          ~aliveBinlogs'[n].done => \E v \in Workers : Owner(v)' /\ txn'[v].binlogId = n
    BY SMTT(40), <1>2, <1>3, <1>4, <1>5, <1>6 DEF IInv, AliveInv
  <2>4. \A n \in DOMAIN aliveBinlogs' :
          aliveBinlogs'[n].done => (n \in DOMAIN binlogs' <=> aliveBinlogs'[n].txn # UNINITED)
    <3>1. ASSUME NEW n \in DOMAIN aliveBinlogs', aliveBinlogs'[n].done
          PROVE  n \in DOMAIN aliveBinlogs /\ aliveBinlogs'[n] = aliveBinlogs[n]
      BY SMTT(40), <1>3, <3>1
    <3> QED
      BY ZenonT(40), <1>1, <3>1 DEF IInv, AliveInv
  <2>5. \A n \in DOMAIN aliveBinlogs' :
          (\A m \in DOMAIN aliveBinlogs' : n <= m) => ~aliveBinlogs'[n].done
    BY <1>3, <1>4 DEF IInv, AliveInv
  <2>6. isRunning
    BY Zenon, <1>5 DEF IInv, TxnInv
  <2> QED
    BY Zenon, <1>1, <1>3, <2>1, <2>2, <2>3, <2>4, <2>5, <2>6 DEF IInv, AliveInv
<1>13. DiskInv'
  <2>1. \A n \in DOMAIN binlogs : n < nextBinlogSeq'
    BY <1>0, <1>1 DEF TypeBinlogs
  <2> QED
    BY Zenon, <1>1, <1>3, <2>1 DEF IInv, DiskInv
<1>14. CursorInv'
  BY Zenon, <1>1 DEF IInv, CursorInv
<1>15. KeptInv'
  <2>1. FlushPending => FlushPending'
    BY Zenon, <1>2 DEF FlushPending
  <2> QED
    BY Zenon, <1>1, <2>1 DEF IInv, KeptInv
<1> QED
  BY Zenon, <1>8, <1>9, <1>10, <1>11, <1>12, <1>13, <1>14, <1>15 DEF IInv

\* assignBinlogIdIfNeeded hands out _nextBinlogSeq, which is above all others.
LEMMA AssignIInv ==
  ASSUME IInv, NEW w \in Workers, assignBinlogIdIfNeeded(w)
  PROVE  IInv'
<1>1. nextBinlogSeq \in Nat
  BY Zenon DEF IInv, TypeOK
<1>2. /\ highestVisible < nextBinlogSeq
      /\ \A n \in DOMAIN binlogs \cup DOMAIN aliveBinlogs : n < nextBinlogSeq
  BY Zenon DEF IInv, AliveInv, DiskInv
<1> QED
  BY Zenon, <1>1, <1>2, TakeIInv DEF assignBinlogIdIfNeeded

\* The applier takes the master's id.  It is the only writer of its store, so
\* nothing else is in flight, and what is on disk is visible: at or below the
\* watermark, which the id is above.
LEMMA SetNextIInv ==
  ASSUME IInv, NEW w \in Workers, NEW id \in 1..MaxBinlog, setNextBinlogSeq(w, id)
  PROVE  IInv'
<1>1. id \in Nat /\ highestVisible \in Nat /\ DOMAIN binlogs \subseteq Nat
  BY BoundsAreNat DEF IInv, TypeOK
<1>2. Open(w) /\ ~Owner(w) /\ isRunning /\ txn[w].kind = "apply" /\ highestVisible < id
  BY Zenon, <1>1 DEF setNextBinlogSeq, IInv, TxnInv, Open, Owner
<1>3. \A v \in Workers : ~Owner(v)
  <2>1. SUFFICES ASSUME NEW v \in Workers, Owner(v) PROVE FALSE
    BY Zenon
  <2>2. v # w
    BY Zenon, <1>2, <2>1
  <2>3. txn[v].kind \in {"local", "apply", "flush"}
    BY Zenon DEF IInv, TypeOK
  <2> QED
    BY Zenon, <1>2, <2>1, <2>2, <2>3 DEF IInv, ModeInv
<1>4. DOMAIN aliveBinlogs = {}
  BY Zenon, <1>3, NothingInFlight
<1>5. \A n \in DOMAIN binlogs : n < id
  BY <1>1, <1>2, <1>4 DEF IInv, DiskInv
<1>6. txn[w].keys # {}
  BY Zenon, <1>2 DEF IInv, ModeInv
<1> QED
  BY Zenon, <1>1, <1>2, <1>4, <1>5, <1>6, TakeIInv DEF setNextBinlogSeq

\* The write of a transaction, whether it succeeds or fails, leaves what the
\* transactions are; only how far this one is changes.
LEMMA WriteTxnInv ==
  ASSUME IInv, NEW w \in Workers, NEW x \in {"written", "failed"}, txn[w].pc = "assigned",
         txn' = [txn EXCEPT ![w].pc = x], UNCHANGED store,
         txn[w].kind = "flush" => x = "written"
  PROVE  /\ TypeTxn' /\ TxnInv' /\ ModeInv' /\ Owner(w)
         /\ txn'[w].pc = x /\ txn'[w].kind = txn[w].kind
         /\ \A v \in Workers : v # w => txn'[v] = txn[v]
         /\ \A v \in Workers : txn'[v].binlogId = txn[v].binlogId /\ (Owner(v)' <=> Owner(v))
<1> USE DEF store
<1>0. TypeTxn
  BY Zenon, TypePieces DEF IInv
<1>1. /\ txn'[w].pc = x /\ txn'[w].binlogId = txn[w].binlogId /\ txn'[w].kind = txn[w].kind
      /\ txn'[w].id = txn[w].id /\ txn'[w].keys = txn[w].keys
      /\ \A v \in Workers : v # w => txn'[v] = txn[v]
  BY Zenon, <1>0 DEF TypeTxn, Txns
<1>2. TypeTxn'
  BY <1>0 DEF TypeTxn, Txns
<1>3. Open(w) /\ Owner(w) /\ Open(w)' /\ Owner(w)'
  BY Zenon, <1>1 DEF Open, Owner
<1>4. \A v \in Workers : /\ txn'[v].id = txn[v].id /\ txn'[v].kind = txn[v].kind
                         /\ txn'[v].keys = txn[v].keys /\ txn'[v].binlogId = txn[v].binlogId
                         /\ (Open(v)' <=> Open(v)) /\ (Owner(v)' <=> Owner(v))
  BY Zenon, <1>1, <1>3 DEF Open, Owner
<1>5. TxnInv'
  <2>1. \A v \in Workers : ~Open(v)' => txn'[v] = NoTxn
    BY <1>1, <1>3, <1>4 DEF IInv, TxnInv
  <2>2. \A v \in Workers : Open(v)' => /\ isRunning'
                                       /\ txn'[v].id \in DOMAIN aliveTxns'
                                       /\ aliveTxns'[txn'[v].id] = txn'[v].binlogId
                                       /\ txn'[v].id >= 1 /\ txn'[v].id < nextTxnSeq'
    BY <1>4 DEF IInv, TxnInv
  <2>3. \A v \in Workers : Open(v)' /\ ~Owner(v)' => txn'[v].binlogId = UNINITED
    BY Zenon, <1>4 DEF IInv, TxnInv
  <2>4. \A v, u \in Workers : Open(v)' /\ Open(u)' /\ txn'[v].id = txn'[u].id => v = u
    BY <1>4 DEF IInv, TxnInv
  <2>5. nextTxnSeq' >= 1
    BY Zenon DEF IInv, TxnInv
  <2> QED
    BY Zenon, <2>1, <2>2, <2>3, <2>4, <2>5 DEF TxnInv
<1>6. ModeInv'
  <2>1. \A v \in Workers : Owner(v)' => txn'[v].keys # {}
    BY <1>4 DEF IInv, ModeInv
  <2>2. \A v \in Workers : txn'[v].kind = "flush" => txn'[v].pc # "failed"
    BY <1>1, <1>4 DEF IInv, ModeInv
  <2>3. \A v \in Workers :
          /\ mode' = "REPLICATE_ONLY" /\ txn'[v].kind = "local" => txn'[v].keys = {}
          /\ txn'[v].kind = "apply" => mode' = "REPLICATE_ONLY" /\ txn'[v].keys # {}
    <3>1. mode' = mode
      BY Zenon
    <3>2. \A v \in Workers :
            /\ mode = "REPLICATE_ONLY" /\ txn[v].kind = "local" => txn[v].keys = {}
            /\ txn[v].kind = "apply" => mode = "REPLICATE_ONLY" /\ txn[v].keys # {}
      BY Zenon DEF IInv, ModeInv
    <3> QED
      BY Zenon, <1>4, <3>1, <3>2
  <2>4. \A v, u \in Workers : v # u =>
          /\ txn'[v].kind = "apply" => txn'[u].kind # "apply"
          /\ txn'[v].kind = "flush" => ~Open(u)'
    BY <1>4 DEF IInv, ModeInv
  <2> QED
    BY Zenon, <2>1, <2>2, <2>3, <2>4 DEF ModeInv
<1> QED
  BY Zenon, <1>1, <1>2, <1>3, <1>4, <1>5, <1>6

\* A failed write keeps the invariant: the id stays in flight, to be burnt.
LEMMA CommitFailsIInv ==
  ASSUME IInv, NEW w \in Workers, txnCommitFails(w)
  PROVE  IInv'
<1> USE DEF disk, hist, push, first, repl
<1>0. TypeOK
  BY Zenon DEF IInv
<1>1. /\ txn[w].pc = "assigned" /\ txn[w].kind # "flush"
      /\ txn' = [txn EXCEPT ![w].pc = "failed"] /\ UNCHANGED <<store, disk, repl, hist>>
  BY Zenon DEF txnCommitFails, CommitFails
<1>2. /\ TypeTxn' /\ TxnInv' /\ ModeInv' /\ Owner(w)
      /\ txn'[w].pc = "failed" /\ txn'[w].kind = txn[w].kind
      /\ \A v \in Workers : v # w => txn'[v] = txn[v]
      /\ \A v \in Workers : txn'[v].binlogId = txn[v].binlogId /\ (Owner(v)' <=> Owner(v))
  BY Zenon, <1>1, WriteTxnInv
<1>3. TypeOK'
  <2>1. TypeSeqs' /\ TypeAliveTxns' /\ TypeAliveBinlogs' /\ TypeBinlogs' /\ TypeData' /\ TypeRest'
    BY Zenon, <1>0, <1>1, TypePieces DEF store, TypeSeqs, TypeAliveTxns, TypeAliveBinlogs, TypeBinlogs,
                                  TypeData, TypeRest
  <2>2. TypeCursor' /\ TypeRecycle' /\ TypeBackup' /\ TypePush'
    BY Zenon, <1>0, <1>1, ReplTypes
  <2> QED
    BY Zenon, <1>2, <2>1, <2>2, TypePieces
<1>4. OwnerInv'
  <2>1. \A v \in Workers : (txn'[v].pc = "written" <=> txn[v].pc = "written")
    BY Zenon, <1>1, <1>2
  <2> QED
    BY <1>1, <1>2, <2>1 DEF store, IInv, OwnerInv
<1>5. AliveInv'
  BY <1>1, <1>2 DEF store, IInv, AliveInv
<1>6. DiskInv' /\ CursorInv'
  BY Zenon, <1>1 DEF store, IInv, DiskInv, CursorInv
<1>7. KeptInv'
  <2>1. FlushPending => FlushPending'
    BY Zenon, <1>1, <1>2 DEF FlushPending
  <2> QED
    BY Zenon, <1>1, <2>1 DEF store, IInv, KeptInv
<1> QED
  BY Zenon, <1>2, <1>3, <1>4, <1>5, <1>6, <1>7 DEF IInv

\* The write keeps the invariant: the binlog's id is in flight, hence new to
\* the disk and above the watermark.
LEMMA CommitIInv ==
  ASSUME IInv, NEW w \in Workers, txnCommit(w)
  PROVE  IInv'
<1> USE DEF hist, push, first, repl
<1> DEFINE id == txn[w].binlogId
           b == [flush |-> txn[w].kind = "flush", keys |-> txn[w].keys]
<1>0. TypeOK /\ TypeSeqs /\ TypeAliveBinlogs /\ TypeBinlogs /\ TypeData /\ TypeTxn /\ TypeRest
  BY Zenon, TypePieces DEF IInv
<1>1. /\ txn[w].pc = "assigned" /\ txn' = [txn EXCEPT ![w].pc = "written"]
      /\ binlogs' = With(binlogs, id, b) /\ committed' = committed \cup {id}
      /\ UNCHANGED <<store, minBinlogId, repl, cleared>>
  BY Zenon DEF txnCommit
<1>2. /\ TypeTxn' /\ TxnInv' /\ ModeInv' /\ Owner(w)
      /\ txn'[w].pc = "written" /\ txn'[w].kind = txn[w].kind
      /\ \A v \in Workers : v # w => txn'[v] = txn[v]
      /\ \A v \in Workers : txn'[v].binlogId = txn[v].binlogId /\ (Owner(v)' <=> Owner(v))
  BY Zenon, <1>1, WriteTxnInv
<1>3. /\ DOMAIN binlogs' = DOMAIN binlogs \cup {id}
      /\ binlogs'[id] = b
      /\ \A n \in DOMAIN binlogs : n # id => binlogs'[n] = binlogs[n]
  BY Zenon, <1>1 DEF With
<1>4. id \in Nat /\ id \in DOMAIN aliveBinlogs /\ ~aliveBinlogs[id].done
  BY Zenon, <1>0, <1>2 DEF IInv, OwnerInv, TypeTxn, Txns
<1>5. highestVisible < id /\ id < nextBinlogSeq
  BY Zenon, <1>4 DEF IInv, AliveInv
<1>6. TypeOK'
  <2>1. TypeSeqs' /\ TypeAliveTxns' /\ TypeAliveBinlogs'
    BY Zenon, <1>0, <1>1, TypePieces DEF store, TypeSeqs, TypeAliveTxns, TypeAliveBinlogs
  <2>2. b \in Binlog
    <3>1. txn[w].keys \in SUBSET Keys /\ (txn[w].kind = "flush") \in BOOLEAN
      BY Zenon, <1>0 DEF TypeTxn, Txns
    <3> QED
      BY Zenon, <3>1 DEF Binlog
  <2>3. TypeBinlogs'
    BY Zenon, <1>0, <1>3, <1>4, <2>2 DEF TypeBinlogs
  <2>4. TypeData'
    BY Zenon, <1>0, <1>1, <1>4 DEF txnCommit, TypeData
  <2>5. TypeRest'
    BY Zenon, <1>0, <1>1, <1>4 DEF TypeRest
  <2>6. TypeCursor' /\ TypeRecycle' /\ TypeBackup' /\ TypePush'
    BY Zenon, <1>0, <1>1, ReplTypes
  <2> QED
    BY Zenon, <1>2, <2>1, <2>3, <2>4, <2>5, <2>6, TypePieces
<1>7. OwnerInv'
  <2>1. \A v \in Workers : v # w /\ Owner(v) => txn[v].binlogId # id
    BY Zenon, <1>2 DEF IInv, OwnerInv
  <2>2. aliveBinlogs' = aliveBinlogs
    BY Zenon, <1>1 DEF store
  <2>3. ASSUME NEW v \in Workers, Owner(v)'
        PROVE  txn'[v].binlogId \in DOMAIN binlogs' <=> txn'[v].pc = "written"
    <3>1. CASE v = w
      BY Zenon, <1>2, <1>3, <3>1
    <3>2. CASE v # w
      BY Zenon, <1>2, <1>3, <2>1, <2>3, <3>2 DEF IInv, OwnerInv
    <3> QED
      BY Zenon, <3>1, <3>2
  <2> QED
    BY Zenon, <1>2, <2>2, <2>3 DEF IInv, OwnerInv
<1>8. AliveInv'
  <2>1. \A n \in DOMAIN aliveBinlogs : aliveBinlogs[n].done =>
          (n \in DOMAIN binlogs' <=> n \in DOMAIN binlogs)
    BY Zenon, <1>3, <1>4
  <2> QED
    BY <1>1, <1>2, <2>1 DEF store, IInv, AliveInv
<1>9. DiskInv' /\ CursorInv'
  BY Zenon, <1>1, <1>3, <1>4, <1>5 DEF store, IInv, DiskInv, CursorInv
<1>10. KeptInv'
  <2>1. highestVisible <= id
    BY <1>0, <1>4, <1>5 DEF TypeSeqs
  <2> QED
    BY Zenon, <1>1, <1>3, <2>1 DEF store, IInv, KeptInv
<1> QED
  BY Zenon, <1>2, <1>6, <1>7, <1>8, <1>9, <1>10 DEF IInv

-----------------------------------------------------------------------------
(* markCommittedInLock: what it pops, where the watermark goes, and the     *)
(* end of a transaction.                                                   *)

\* What markCommittedInLock pops is a committed prefix of _aliveBinlogs, and
\* it pops all of it: the first id it leaves is not committed.
LEMMA PoppedFacts ==
  ASSUME NEW M, DOMAIN M \subseteq Nat, NEW id \in DOMAIN M, M[id].done,
         \A n \in DOMAIN M : n # id /\ (\A m \in DOMAIN M : n <= m) => ~M[n].done
  PROVE  /\ Popped(M, id) \subseteq DOMAIN M
         /\ \A n \in Popped(M, id) : M[n].done
         /\ \A n \in Popped(M, id), m \in DOMAIN M \ Popped(M, id) : n < m
         /\ \A n \in DOMAIN M \ Popped(M, id) :
              (\A m \in DOMAIN M \ Popped(M, id) : n <= m) => ~M[n].done
<1> DEFINE P == Popped(M, id)
<1>1. \A n : n \in P <=> /\ n \in DOMAIN M
                         /\ \A m \in DOMAIN M : m >= id /\ (m <= n => M[m].done)
  BY Zenon DEF Popped
<1> HIDE DEF P
<1>2. P \subseteq DOMAIN M /\ \A n \in P : M[n].done
  BY <1>1
<1>3. \A n \in P, m \in DOMAIN M : m <= n => m \in P
  BY <1>1
<1>4. \A n \in P, m \in DOMAIN M \ P : n < m
  BY <1>2, <1>3
<1>5. ASSUME NEW n \in DOMAIN M \ P, \A m \in DOMAIN M \ P : n <= m, M[n].done
      PROVE  FALSE
  <2>1. CASE \A m \in DOMAIN M : m >= id
    <3>1. \A m \in DOMAIN M : m <= n => M[m].done
      BY <1>2, <1>5
    <3> QED
      BY Zenon, <1>1, <1>5, <2>1, <3>1
  <2>2. CASE ~(\A m \in DOMAIN M : m >= id)
    <3>1. P = {}
      BY Zenon, <1>1, <2>2
    <3>2. \A m \in DOMAIN M : n <= m
      BY Zenon, <1>5, <3>1
    <3>3. n # id
      BY Zenon, <2>2, <3>2
    <3> QED
      BY Zenon, <1>5, <3>2, <3>3
  <2> QED
    BY Zenon, <2>1, <2>2
<1>6. \A n \in DOMAIN M \ P : (\A m \in DOMAIN M \ P : n <= m) => ~M[n].done
  BY Zenon, <1>5
<1> QED
  BY Zenon, <1>2, <1>4, <1>6 DEF P

\* The end of a transaction takes it, and nothing else, out of _aliveTxns.
LEMMA EndTxnInv ==
  ASSUME IInv, NEW w \in Workers, Open(w), txn' = [txn EXCEPT ![w] = NoTxn],
         aliveTxns' = Without(aliveTxns, {txn[w].id}), UNCHANGED <<isRunning, mode, nextTxnSeq>>
  PROVE  /\ TypeTxn' /\ TypeAliveTxns' /\ TxnInv' /\ ModeInv'
         /\ ~Owner(w)'
         /\ \A v \in Workers : v # w => txn'[v] = txn[v] /\ (Owner(v)' <=> Owner(v))
<1>0. TypeTxn /\ TypeAliveTxns
  BY Zenon, TypePieces DEF IInv
<1>1. txn'[w] = NoTxn /\ \A v \in Workers : v # w => txn'[v] = txn[v]
  BY Zenon, <1>0 DEF TypeTxn
<1>2. ~Owner(w)' /\ ~Open(w)' /\ txn'[w].kind = "local" /\ txn'[w].keys = {}
  BY <1>1 DEF Owner, Open, NoTxn
<1>3. \A v \in Workers : v # w => (Owner(v)' <=> Owner(v)) /\ (Open(v)' <=> Open(v))
  BY Zenon, <1>1 DEF Owner, Open
<1>4. /\ DOMAIN aliveTxns' = DOMAIN aliveTxns \ {txn[w].id}
      /\ \A t \in DOMAIN aliveTxns' : aliveTxns'[t] = aliveTxns[t]
  BY Zenon DEF Without
<1>5. TypeTxn'
  <2>1. NoTxn \in Txns
    BY Zenon DEF NoTxn, Txns, UNINITED
  <2> QED
    BY Zenon, <1>0, <2>1 DEF TypeTxn
<1>6. TypeAliveTxns'
  BY Zenon, <1>0, <1>4 DEF TypeAliveTxns
<1>7. TxnInv'
  <2>1. nextTxnSeq' >= 1
    BY Zenon DEF IInv, TxnInv
  <2>2. ASSUME NEW v \in Workers
        PROVE  /\ ~Open(v)' => txn'[v] = NoTxn
               /\ Open(v)' => /\ isRunning'
                              /\ txn'[v].id \in DOMAIN aliveTxns'
                              /\ aliveTxns'[txn'[v].id] = txn'[v].binlogId
                              /\ txn'[v].id >= 1 /\ txn'[v].id < nextTxnSeq'
               /\ Open(v)' /\ ~Owner(v)' => txn'[v].binlogId = UNINITED
    <3>1. CASE v = w
      BY Zenon, <1>1, <1>2, <3>1
    <3>2. CASE v # w
      <4>1. Open(v) => txn[v].id # txn[w].id
        BY Zenon, <3>2 DEF IInv, TxnInv
      <4> QED
        BY SMTT(40), <1>1, <1>3, <1>4, <3>2, <4>1 DEF IInv, TxnInv
    <3> QED
      BY Zenon, <3>1, <3>2
  <2>3. \A v, u \in Workers : Open(v)' /\ Open(u)' /\ txn'[v].id = txn'[u].id => v = u
    BY Zenon, <1>1, <1>2, <1>3 DEF IInv, TxnInv
  <2> QED
    BY Zenon, <2>1, <2>2, <2>3 DEF TxnInv
<1>8. ModeInv'
  <2>1. ASSUME NEW v \in Workers
        PROVE  /\ Owner(v)' => txn'[v].keys # {}
               /\ mode' = "REPLICATE_ONLY" /\ txn'[v].kind = "local" => txn'[v].keys = {}
               /\ txn'[v].kind = "apply" => mode' = "REPLICATE_ONLY" /\ txn'[v].keys # {}
               /\ txn'[v].kind = "flush" => txn'[v].pc # "failed"
    <3>1. CASE v = w
      BY Zenon, <1>2, <3>1
    <3>2. CASE v # w
      BY Zenon, <1>1, <1>3, <3>2 DEF IInv, ModeInv
    <3> QED
      BY Zenon, <3>1, <3>2
  <2>2. \A v, u \in Workers : v # u =>
          /\ txn'[v].kind = "apply" => txn'[u].kind # "apply"
          /\ txn'[v].kind = "flush" => ~Open(u)'
    BY Zenon, <1>1, <1>2, <1>3 DEF IInv, ModeInv
  <2> QED
    BY Zenon, <2>1, <2>2 DEF ModeInv
<1> QED
  BY Zenon, <1>1, <1>2, <1>3, <1>5, <1>6, <1>7, <1>8

\* markCommittedInLock for a transaction that has a binlog id: what it does to
\* _aliveBinlogs and to the watermark.  The watermark moves over popped ids
\* only, stops at one that is on disk, and stays below every id it leaves.
LEMMA MarkFacts ==
  ASSUME IInv, NEW w \in Workers, Owner(w), NEW b \in Nat, markCommittedInLock(w, b),
         b # UNINITED <=> txn[w].pc = "written"
  PROVE  /\ TypeAliveBinlogs' /\ highestVisible' \in Nat /\ highestVisible' >= highestVisible
         /\ highestVisible' = highestVisible \/ highestVisible' \in DOMAIN binlogs
         /\ highestVisible' < nextBinlogSeq
         /\ DOMAIN aliveBinlogs' \subseteq DOMAIN aliveBinlogs
         /\ \A n \in DOMAIN aliveBinlogs' :
              /\ highestVisible' < n
              /\ n # txn[w].binlogId => aliveBinlogs'[n] = aliveBinlogs[n]
              /\ n = txn[w].binlogId => aliveBinlogs'[n].done
              /\ aliveBinlogs'[n].done => (n \in DOMAIN binlogs <=> aliveBinlogs'[n].txn # UNINITED)
              /\ (\A m \in DOMAIN aliveBinlogs' : n <= m) => ~aliveBinlogs'[n].done
         /\ \A n \in DOMAIN aliveBinlogs \ DOMAIN aliveBinlogs' :
              /\ n = txn[w].binlogId \/ aliveBinlogs[n].done
              /\ n \in DOMAIN binlogs => n <= highestVisible'
<1>0. TypeOK /\ TypeSeqs /\ TypeAliveBinlogs /\ TypeTxn
  BY Zenon, TypePieces DEF IInv
<1>1. PICK id : id = txn[w].binlogId
  BY Zenon
<1>2. PICK M : M = [aliveBinlogs EXCEPT ![id] = [done |-> TRUE, txn |-> b]]
  BY Zenon
<1>3. PICK P : P = Popped(M, id)
  BY Zenon
<1>4. PICK V : V = {n \in P : M[n].txn # UNINITED}
  BY Zenon
<1>5. /\ id \in DOMAIN aliveBinlogs /\ id \in Nat /\ highestVisible < id /\ id # UNINITED
      /\ id \in DOMAIN binlogs <=> b # UNINITED
  BY SMTT(40), <1>0, <1>1 DEF IInv, OwnerInv, AliveInv, TypeSeqs, TypeTxn, Txns, UNINITED
<1>6. aliveTxns[txn[w].id] = id
  BY Zenon, <1>1 DEF IInv, TxnInv, Owner, Open
<1>7. aliveBinlogs' = Without(M, P) /\ highestVisible' = LastOf(V, highestVisible)
  BY Zenon, <1>2, <1>3, <1>4, <1>5, <1>6 DEF markCommittedInLock
<1>8. /\ DOMAIN M = DOMAIN aliveBinlogs
      /\ M[id] = [done |-> TRUE, txn |-> b]
      /\ \A n \in DOMAIN M : n # id => M[n] = aliveBinlogs[n]
      /\ \A n \in DOMAIN M : M[n] \in [done: BOOLEAN, txn: Nat]
  BY Zenon, <1>0, <1>2, <1>5 DEF TypeAliveBinlogs
<1>9. M[id].done /\ M[id].txn = b
  BY SMTT(40), <1>8
<1>10. DOMAIN M \subseteq Nat
  BY Zenon, <1>0, <1>8 DEF TypeAliveBinlogs
<1>11. \A n \in DOMAIN M : n # id /\ (\A m \in DOMAIN M : n <= m) => ~M[n].done
  BY Zenon, <1>8 DEF IInv, AliveInv
<1>12. /\ P \subseteq DOMAIN M
       /\ \A n \in P : M[n].done
       /\ \A n \in P, m \in DOMAIN M \ P : n < m
       /\ \A n \in DOMAIN M \ P : (\A m \in DOMAIN M \ P : n <= m) => ~M[n].done
  BY Zenon, <1>3, <1>5, <1>8, <1>9, <1>10, <1>11, PoppedFacts
<1>13. \A n \in DOMAIN M : M[n].done => (n \in DOMAIN binlogs <=> M[n].txn # UNINITED)
  <2>1. ASSUME NEW n \in DOMAIN M, M[n].done, n # id
        PROVE  n \in DOMAIN binlogs <=> M[n].txn # UNINITED
    BY Zenon, <1>8, <2>1 DEF IInv, AliveInv
  <2> QED
    BY Zenon, <1>5, <1>9, <2>1
<1>14. \A n \in DOMAIN M : highestVisible < n /\ n < nextBinlogSeq
  BY Zenon, <1>8 DEF IInv, AliveInv
<1>15. V \subseteq P /\ V \subseteq Nat /\ \A n \in V : n <= nextBinlogSeq
  BY <1>0, <1>4, <1>10, <1>12, <1>14 DEF TypeSeqs
<1>16. /\ highestVisible' \in Nat
       /\ V # {} => highestVisible' \in V /\ \A m \in V : m <= highestVisible'
       /\ V = {} => highestVisible' = highestVisible
  BY Zenon, <1>0, <1>7, <1>15, LastOfFacts DEF TypeSeqs
<1>17. highestVisible' = highestVisible \/ highestVisible' \in V
  BY Zenon, <1>16
<1>18. /\ highestVisible' >= highestVisible /\ highestVisible' < nextBinlogSeq
       /\ \A n \in DOMAIN M \ P : highestVisible' < n
  BY SMTT(40), <1>0, <1>10, <1>12, <1>14, <1>15, <1>16, <1>17 DEF TypeSeqs, IInv, AliveInv
<1>19. \A n \in V : n \in DOMAIN binlogs
  BY Zenon, <1>4, <1>12, <1>13
<1>20. \A n \in P : n \in DOMAIN binlogs => n <= highestVisible'
  <2>1. ASSUME NEW n \in P, n \in DOMAIN binlogs PROVE n \in V
    BY Zenon, <1>4, <1>12, <1>13, <2>1
  <2> QED
    BY Zenon, <1>16, <2>1
<1>21. DOMAIN aliveBinlogs' = DOMAIN M \ P /\ \A n \in DOMAIN M \ P : aliveBinlogs'[n] = M[n]
  BY Zenon, <1>7 DEF Without
<1>22. TypeAliveBinlogs'
  BY Zenon, <1>8, <1>10, <1>21 DEF TypeAliveBinlogs
<1>23. \A n \in DOMAIN aliveBinlogs' :
         /\ highestVisible' < n
         /\ n # id => aliveBinlogs'[n] = aliveBinlogs[n]
         /\ n = id => aliveBinlogs'[n].done
         /\ aliveBinlogs'[n].done => (n \in DOMAIN binlogs <=> aliveBinlogs'[n].txn # UNINITED)
         /\ (\A m \in DOMAIN aliveBinlogs' : n <= m) => ~aliveBinlogs'[n].done
  BY Zenon, <1>8, <1>9, <1>12, <1>13, <1>18, <1>21
<1>24. \A n \in DOMAIN aliveBinlogs \ DOMAIN aliveBinlogs' :
         /\ n = id \/ aliveBinlogs[n].done
         /\ n \in DOMAIN binlogs => n <= highestVisible'
  BY Zenon, <1>8, <1>12, <1>20, <1>21
<1> QED
  BY Zenon, <1>1, <1>8, <1>16, <1>17, <1>18, <1>19, <1>21, <1>22, <1>23, <1>24

\* markCommittedInLock keeps the invariant.
LEMMA MarkIInv ==
  ASSUME IInv, NEW w \in Workers, Open(w), NEW b \in Nat, markCommittedInLock(w, b),
         b # UNINITED <=> txn[w].pc = "written",
         txn[w].kind = "flush" => txn[w].pc = "written",
         minValidBinlogID' \in Nat, lastFlushId' \in Nat
  PROVE  IInv' /\ highestVisible' >= highestVisible
<1> USE DEF disk, push, hist
<1>0. TypeOK /\ TypeSeqs /\ TypeBinlogs /\ TypeTxn /\ TypeRecycle
  BY Zenon, TypePieces DEF IInv
<1>1. /\ isRunning /\ aliveTxns' = Without(aliveTxns, {txn[w].id})
      /\ txn' = [txn EXCEPT ![w] = NoTxn]
      /\ UNCHANGED <<isRunning, mode, nextTxnSeq, nextBinlogSeq, disk, push, recycle, backup, hist>>
  BY Zenon DEF markCommittedInLock
<1>2. /\ TypeTxn' /\ TypeAliveTxns' /\ TxnInv' /\ ModeInv' /\ ~Owner(w)'
      /\ \A v \in Workers : v # w => txn'[v] = txn[v] /\ (Owner(v)' <=> Owner(v))
  BY Zenon, <1>1, EndTxnInv
<1>3. /\ TypeBinlogs' /\ TypeData' /\ TypeRest'
      /\ TypeCursor' /\ TypeRecycle' /\ TypeBackup' /\ TypePush'
  <2>1. TypeBinlogs' /\ TypeData' /\ TypeRest'
    BY Zenon, <1>0, <1>1, TypePieces DEF TypeBinlogs, TypeData, TypeRest
  <2> QED
    BY Zenon, <1>0, <1>1, <2>1, ReplTypes
<1>4. CursorInv'
  BY Zenon, <1>1 DEF IInv, CursorInv
<1>5. FlushPending => FlushPending'
  BY SMTT(40), <1>2 DEF FlushPending
<1>6. CASE ~Owner(w)
  <2>1. aliveBinlogs' = aliveBinlogs /\ highestVisible' = highestVisible
    BY Zenon, <1>6 DEF markCommittedInLock, IInv, TxnInv
  <2>2. TypeSeqs' /\ TypeAliveBinlogs'
    BY Zenon, <1>0, <1>1, <2>1, TypePieces DEF TypeSeqs, TypeAliveBinlogs
  <2>3. TypeOK'
    BY Zenon, <1>2, <1>3, <2>2, TypePieces
  <2>4. \A v \in Workers : Owner(v)' <=> Owner(v)
    BY Zenon, <1>2, <1>6
  <2>5. OwnerInv'
    BY Zenon, <1>1, <1>2, <2>1 DEF IInv, OwnerInv
  <2>6. AliveInv'
    BY SMTT(40), <1>1, <1>2, <1>6, <2>1, <2>4 DEF IInv, AliveInv
  <2>7. DiskInv'
    BY Zenon, <1>1, <2>1 DEF IInv, DiskInv
  <2>8. KeptInv'
    BY Zenon, <1>1, <1>5, <2>1 DEF IInv, KeptInv
  <2> QED
    BY SMTT(40), <1>0, <1>2, <1>4, <2>1, <2>3, <2>5, <2>6, <2>7, <2>8 DEF IInv, TypeSeqs
<1>7. CASE Owner(w)
  <2>1. PICK id : id = txn[w].binlogId
    BY Zenon
  <2>2. /\ TypeAliveBinlogs' /\ highestVisible' \in Nat /\ highestVisible' >= highestVisible
        /\ highestVisible' = highestVisible \/ highestVisible' \in DOMAIN binlogs
        /\ highestVisible' < nextBinlogSeq
        /\ DOMAIN aliveBinlogs' \subseteq DOMAIN aliveBinlogs
    BY Zenon, <1>7, MarkFacts
  <2>3. \A n \in DOMAIN aliveBinlogs' :
          /\ highestVisible' < n
          /\ n # id => aliveBinlogs'[n] = aliveBinlogs[n]
          /\ n = id => aliveBinlogs'[n].done
          /\ aliveBinlogs'[n].done => (n \in DOMAIN binlogs <=> aliveBinlogs'[n].txn # UNINITED)
          /\ (\A m \in DOMAIN aliveBinlogs' : n <= m) => ~aliveBinlogs'[n].done
    BY Zenon, <1>7, <2>1, MarkFacts
  <2>4. \A n \in DOMAIN aliveBinlogs \ DOMAIN aliveBinlogs' :
          /\ n = id \/ aliveBinlogs[n].done
          /\ n \in DOMAIN binlogs => n <= highestVisible'
    BY Zenon, <1>7, <2>1, MarkFacts
  <2>5. TypeOK'
    <3>1. TypeSeqs'
      BY Zenon, <1>0, <1>1, <2>2 DEF TypeSeqs
    <3> QED
      BY Zenon, <1>2, <1>3, <2>2, <3>1, TypePieces
  <2>6. \A v \in Workers : v # w /\ Owner(v) => txn[v].binlogId # id
    BY Zenon, <1>7, <2>1 DEF IInv, OwnerInv
  <2>7. OwnerInv'
    <3>1. ASSUME NEW v \in Workers, Owner(v)'
          PROVE  /\ v # w /\ Owner(v) /\ txn'[v] = txn[v]
                 /\ txn[v].binlogId \in DOMAIN aliveBinlogs'
                 /\ ~aliveBinlogs'[txn[v].binlogId].done
      <4>1. v # w /\ Owner(v) /\ txn'[v] = txn[v]
        BY Zenon, <1>2, <3>1
      <4>2. /\ txn[v].binlogId \in DOMAIN aliveBinlogs /\ txn[v].binlogId # id
            /\ ~aliveBinlogs[txn[v].binlogId].done
        BY Zenon, <2>6, <4>1 DEF IInv, OwnerInv
      <4> QED
        BY Zenon, <2>3, <2>4, <4>1, <4>2
    <3> QED
      BY Zenon, <1>1, <3>1 DEF IInv, OwnerInv
  <2>8. AliveInv'
    <3>1. \A n \in DOMAIN aliveBinlogs' : n < nextBinlogSeq
      BY Zenon, <2>2 DEF IInv, AliveInv
    <3>2. ASSUME NEW n \in DOMAIN aliveBinlogs', ~aliveBinlogs'[n].done
          PROVE  \E v \in Workers : Owner(v)' /\ txn'[v].binlogId = n
      <4>1. n # id /\ n \in DOMAIN aliveBinlogs /\ ~aliveBinlogs[n].done
        BY Zenon, <2>2, <2>3, <3>2
      <4>2. PICK v \in Workers : Owner(v) /\ txn[v].binlogId = n
        BY Zenon, <4>1 DEF IInv, AliveInv
      <4> QED
        BY Zenon, <1>2, <2>1, <4>1, <4>2
    <3> QED
      BY Zenon, <1>1, <2>2, <2>3, <3>1, <3>2 DEF AliveInv
  <2>9. DiskInv'
    <3>1. ASSUME NEW n \in DOMAIN binlogs
          PROVE  n <= highestVisible' \/ n \in DOMAIN aliveBinlogs'
      <4>1. CASE n <= highestVisible
        BY <1>0, <2>2, <4>1 DEF TypeSeqs, TypeBinlogs
      <4>2. CASE n \in DOMAIN aliveBinlogs
        BY Zenon, <2>4, <4>2
      <4> QED
        BY Zenon, <1>1, <4>1, <4>2 DEF IInv, DiskInv
    <3> QED
      BY Zenon, <1>1, <3>1 DEF IInv, DiskInv
  <2>10. KeptInv'
    <3>1. (recycle.pc = "read" => recycle.end = 0 \/ recycle.end < highestVisible)'
      BY SMTT(40), <1>0, <1>1, <2>2 DEF IInv, KeptInv, TypeSeqs, TypeRecycle
    <3>2. highestVisible' = 0 \/ FlushPending' \/ \E n \in DOMAIN binlogs' : highestVisible' <= n
      <4>1. CASE highestVisible' = highestVisible
        BY Zenon, <1>1, <1>5, <4>1 DEF IInv, KeptInv
      <4>2. CASE highestVisible' \in DOMAIN binlogs
        BY SMTT(40), <1>1, <2>2, <4>2
      <4> QED
        BY Zenon, <2>2, <4>1, <4>2
    <3> QED
      BY Zenon, <3>1, <3>2 DEF KeptInv
  <2> QED
    BY Zenon, <1>2, <1>4, <2>2, <2>5, <2>7, <2>8, <2>9, <2>10 DEF IInv
<1> QED
  BY Zenon, <1>6, <1>7

\* RocksTxn::commit's guard and the end of a transaction without a binlog both
\* go through markCommittedInLock.
LEMMA EndIInv ==
  ASSUME IInv, NEW w \in Workers, markCommitted(w) \/ EndWithoutBinlog(w)
  PROVE  IInv' /\ highestVisible' >= highestVisible
<1>0. /\ TypeOK /\ txn[w].id \in Nat /\ minValidBinlogID \in Nat /\ lastFlushId \in Nat
      /\ UNINITED \in Nat
  BY Zenon DEF IInv, TypeOK, UNINITED
<1>1. CASE markCommitted(w)
  <2>1. PICK b : b = IF txn[w].pc = "written" THEN txn[w].id ELSE UNINITED
    BY Zenon
  <2>2. Open(w) /\ txn[w].id # UNINITED
    BY SMTT(40), <1>0, <1>1 DEF markCommitted, Open, IInv, TxnInv, UNINITED
  <2>3. b \in Nat /\ (b # UNINITED <=> txn[w].pc = "written")
    BY Zenon, <1>0, <2>1, <2>2
  <2>4. txn[w].kind = "flush" => txn[w].pc = "written"
    BY Zenon, <1>1 DEF markCommitted, IInv, ModeInv
  <2>5. minValidBinlogID' \in Nat /\ lastFlushId' \in Nat
    BY Zenon, <1>0, <1>1 DEF markCommitted, first
  <2>6. markCommittedInLock(w, b)
    BY Zenon, <1>1, <2>1 DEF markCommitted
  <2> QED
    BY Zenon, <2>2, <2>3, <2>4, <2>5, <2>6, MarkIInv
<1>2. CASE EndWithoutBinlog(w)
  <2>1. Open(w) /\ txn[w].pc # "written" /\ txn[w].kind # "flush"
    BY Zenon, <1>2 DEF EndWithoutBinlog, Open
  <2>2. minValidBinlogID' \in Nat /\ lastFlushId' \in Nat
    BY Zenon, <1>0, <1>2 DEF EndWithoutBinlog, first
  <2>3. markCommittedInLock(w, UNINITED)
    BY Zenon, <1>2 DEF EndWithoutBinlog
  <2> QED
    BY Zenon, <1>0, <2>1, <2>2, <2>3, MarkIInv
<1> QED
  BY Zenon, <1>1, <1>2
=============================================================================

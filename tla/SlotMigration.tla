---------------------------- MODULE SlotMigration ----------------------------
(***************************************************************************)
(* The migration of a slot between two nodes and the collection of what it *)
(* leaves behind (cluster/migrate_manager.cpp, migrate_sender.cpp,         *)
(* migrate_receiver.cpp, gc_manager.cpp, SendSlotsBinlog of repl_util.cpp).*)
(*                                                                         *)
(* One slot, the keys SlotKeys; OtherKeys live in the same store in other  *)
(* slots, their writers take binlog ids between those of the slot.  A      *)
(* client thread writes a key under its key lock, which holds the chunk in *)
(* IX; the sender and the collector take the chunk in X.  The value of a   *)
(* key is the number of writes it has seen, 0 when it does not exist.      *)
(*                                                                         *)
(* view[n] is what node n believes of the slot: its owner and the epoch of *)
(* the owner's claim.  A node announces a claim of its own in every PING   *)
(* and PONG, so gossip is one action that may happen or not.               *)
(*                                                                         *)
(* The receiver commits what it gets in transactions of its own, so it has *)
(* binlogs of the slot, with ids of its own, when it sends the slot on.    *)
(***************************************************************************)
EXTENDS Integers, FiniteSets, FiniteSetsExt

CONSTANTS
  Nodes,
  First,        \* the node that has the slot at the start
  SlotKeys, OtherKeys,
  InitKeys,     \* the keys of the slot that exist at the start
  Clients,      \* threads of clients
  Distance,     \* migrate-distance: how far behind the last round may start
  Settings      \* what may happen, see below

(* A member of Settings has these fields.                                    *)
(*   ids      bound on the binlog ids of a node                              *)
(*   writes   bound on the number of writes of clients                       *)
(*   busy     bound on the clients that write at a time                      *)
(*   tasks    bound on the number of migrations                              *)
(*   tries    snapshot-retry-count: tries of a receiver                      *)
(*   crashes  bound on the number of crashes                                 *)
(*   lax      the assumptions on timing that are dropped, of these:          *)
(*     "ready"  a receiver does not come back while the sender still works   *)
(*              on the try before                                            *)
(*     "half"   the wait for the outcome of a hand-over is long enough       *)
(*     "clean"  CLUSTER CLEAR does not run between the two halves of         *)
(*              supplyMigrateEnd                                             *)
(*     "saved"  a claim is saved before its node dies, and a restart takes   *)
(*              longer than the receiver needs for a migrateend              *)

ASSUME SlotSettings ==
  /\ First \in Nodes
  /\ Settings \subseteq [ids: Nat, writes: Nat, busy: Nat, tasks: Nat, tries: Nat, crashes: Nat,
                         lax: SUBSET {"ready", "half", "clean", "saved"}]

Keys == SlotKeys \cup OtherKeys

VARIABLES
  setting,   \* the member of Settings this is; it never changes
  client,    \* where a client thread is
  data,      \* data[n][k]: the keys of the slot at node n
  log,       \* binlogs on disk: id -> key and value
  nextSeq,   \* RocksKVStore::_nextBinlogSeq
  marked,    \* ids that markCommitted has seen
  xlock,     \* who holds the chunk lock in X: "none", "send" or "gc"
  view,      \* _allSlots[slot] and the epoch of that claim
  saved,     \* the view in the node's cluster file
  snd,       \* _migrateSendTaskMap: the task that sends the slot
  rcv,       \* _migrateReceiveTaskMap: the task that receives it
  request,   \* migrateend commands on their way
  taking,    \* supplyMigrateEnd between its two halves, per node
  answer,    \* answers to migrateend on their way
  deleting,  \* GCManager::_deletingSlots
  tasks,     \* number of task ids given out
  writes,    \* number of writes of clients
  crashes

moving == <<client, data, log, nextSeq, marked, xlock, view, saved, snd, rcv,
            request, taking, answer, deleting, tasks, writes, crashes>>
vars == <<setting, moving>>

MaxId == setting.ids
MaxTask == setting.tasks
MaxTry == setting.tries
MaxCrash == setting.crashes
Assumed(what) == what \notin setting.lax

disk == <<data, log, nextSeq, marked>>
storeVars == <<client, disk, writes>>
taskVars == <<snd, rcv, request, taking, answer, tasks>>
-----------------------------------------------------------------------------
(* Types.                                                                    *)

\* A client is idle, holds the locks and a binlog id, or has also written it.
Idle == [pc |-> "idle"]
ClientState == {Idle} \cup [pc: {"id", "written"}, node: Nodes, key: Keys, id: 1..MaxId]

\* MigrateSendTask and its ChunkMigrateSender: _state, where sendChunk is
\* ("idle" when it does not run), the receiver, _curBinlogid, the binlog id
\* this round goes up to, the snapshot, its keys still to send, _snapshotKeyNum,
\* _client, and the client that the current MigrateBatch writes to.
NoSend == [st |-> "NONE", ph |-> "idle"]
SendState == {"WAIT", "START", "SUCC", "CLEAR", "HALF", "ERR"}
Phase == {"idle", "pos", "snap", "ack", "binlog", "lock", "last", "over"}
SendTask == [st: SendState, ph: Phase, task: 1..MaxTask, dst: Nodes, cur: 0..MaxId,
             end: 0..MaxId + 1, snap: [SlotKeys -> Nat], todo: SUBSET SlotKeys,
             num: Nat, client: 0..MaxTry, batch: 0..MaxTry]

\* MigrateReceiveTask: _state, the sender, the number of the try, whether its
\* connection to the sender is up, and whether a key has been received.
NoRecv == [st |-> "NONE"]
RecvTask == [st: {"RECEIVE_SNAPSHOT", "RECEIVE_BINLOG", "SUCC", "ERR"}, task: 1..MaxTask,
             src: Nodes, try: 0..MaxTry, up: BOOLEAN, num: Nat]

Views == [owner: Nodes, epoch: Nat]
Entry == [key: Keys, val: Nat]

TypeOK ==
  /\ client \in [Clients -> ClientState]
  /\ data \in [Nodes -> [SlotKeys -> Nat]]
  /\ log = [n \in Nodes |-> log[n]]
  /\ \A n \in Nodes : DOMAIN log[n] \subseteq 1..MaxId /\ log[n] \in [DOMAIN log[n] -> Entry]
  /\ nextSeq \in [Nodes -> 1..MaxId + 1]
  /\ marked \in [Nodes -> SUBSET (1..MaxId)]
  /\ xlock \in [Nodes -> {"none", "send", "gc"}]
  /\ view \in [Nodes -> Views] /\ saved \in [Nodes -> Views]
  /\ snd \in [Nodes -> SendTask \cup {NoSend}]
  /\ rcv \in [Nodes -> RecvTask \cup {NoRecv}]
  /\ request \subseteq [task: 1..MaxTask, src: Nodes, dst: Nodes]
  /\ taking \in [Nodes -> SUBSET [task: 1..MaxTask, src: Nodes, dst: Nodes]]
  /\ answer \subseteq [task: 1..MaxTask, src: Nodes, ok: BOOLEAN]
  /\ deleting \in [Nodes -> BOOLEAN]
  /\ tasks \in 0..MaxTask /\ writes \in 0..setting.writes /\ crashes \in 0..MaxCrash

Init ==
  /\ setting \in Settings
  /\ client = [c \in Clients |-> Idle]
  /\ data = [n \in Nodes |-> [k \in SlotKeys |-> IF n = First /\ k \in InitKeys THEN 1 ELSE 0]]
  /\ log = [n \in Nodes |-> [i \in {} |-> 0]]
  /\ nextSeq = [n \in Nodes |-> 1]
  /\ marked = [n \in Nodes |-> {}]
  /\ xlock = [n \in Nodes |-> "none"]
  /\ view = [n \in Nodes |-> [owner |-> First, epoch |-> 1]]
  /\ saved = view
  /\ snd = [n \in Nodes |-> NoSend]
  /\ rcv = [n \in Nodes |-> NoRecv]
  /\ request = {} /\ answer = {}
  /\ taking = [n \in Nodes |-> {}]
  /\ deleting = [n \in Nodes |-> FALSE]
  /\ tasks = 0 /\ writes = 0 /\ crashes = 0

-----------------------------------------------------------------------------
(* Clients.  A command takes its key lock, then asks whether the slot is     *)
(* still here; the commit takes an id, writes, and marks the id.             *)

Writing(n, ks) == \E c \in Clients : client[c] # Idle /\ client[c].node = n /\ client[c].key \in ks

\* clusterHandleRedirect, called with the key lock held.
Redirected(n) == view[n].owner # n

getDbWithKeyLock(c, n, k) ==
  /\ client[c] = Idle /\ nextSeq[n] <= MaxId /\ writes < setting.writes
  /\ Cardinality({x \in Clients : client[x] # Idle}) < setting.busy
  /\ ~Writing(n, {k})
  /\ k \in SlotKeys => xlock[n] = "none" /\ ~Redirected(n)
  /\ client' = [client EXCEPT ![c] = [pc |-> "id", node |-> n, key |-> k, id |-> nextSeq[n]]]
  /\ nextSeq' = [nextSeq EXCEPT ![n] = @ + 1]
  /\ writes' = writes + 1
  /\ UNCHANGED <<data, log, marked, xlock, view, saved, deleting, crashes, taskVars>>

CommitWrite(c) ==
  LET w == client[c]
      v == IF w.key \in SlotKeys THEN data[w.node][w.key] + 1 ELSE 0
  IN /\ w.pc = "id"
     /\ client' = [client EXCEPT ![c].pc = "written"]
     /\ log' = [log EXCEPT ![w.node] =
                  [i \in DOMAIN @ \cup {w.id} |-> IF i = w.id THEN [key |-> w.key, val |-> v] ELSE @[i]]]
     /\ data' = IF w.key \in SlotKeys THEN [data EXCEPT ![w.node][w.key] = v] ELSE data
     /\ UNCHANGED <<nextSeq, marked, writes, xlock, view, saved, deleting, crashes, taskVars>>

\* markCommitted; the lock goes with the session.
MarkCommitted(c) ==
  /\ client[c].pc = "written"
  /\ marked' = [marked EXCEPT ![client[c].node] = @ \cup {client[c].id}]
  /\ client' = [client EXCEPT ![c] = Idle]
  /\ UNCHANGED <<data, log, nextSeq, writes, xlock, view, saved, deleting, crashes, taskVars>>

\* getHighestBinlogId: the last id with no id in flight before it.
HighestVisible(n) == Max({p \in 0..nextSeq[n] - 1 : 1..p \subseteq marked[n]})

-----------------------------------------------------------------------------
(* Starting a migration.                                                     *)

SlotInTask(n) == snd[n].st # "NONE" \/ rcv[n].st # "NONE"
EmptySlot(n) == \A k \in SlotKeys : data[n][k] = 0

\* startAllSlotsTasks at the receiver d and preparemigrate at the sender n
\* (checkSlotOK, migrating); when the answer is lost (heard is FALSE) only the
\* sender has a task.  The model assumes that the owner's claim has reached the
\* receiver by gossip since the migration before, so that the epoch of the
\* receiver's own claim will be above it.
setslotImporting(d, n, heard) ==
  /\ tasks < MaxTask /\ d # n
  /\ ~deleting[d] /\ EmptySlot(d) /\ view[d].owner = n /\ ~SlotInTask(d)
  /\ view[n].owner = n /\ ~SlotInTask(n)
  /\ view[d].epoch = view[n].epoch
  /\ tasks' = tasks + 1
  /\ snd' = [snd EXCEPT ![n] =
       [st |-> "WAIT", ph |-> "idle", task |-> tasks', dst |-> d, cur |-> 0, end |-> 0,
        snap |-> [k \in SlotKeys |-> 0], todo |-> {}, num |-> 0, client |-> 0, batch |-> 0]]
  /\ rcv' = IF heard
            THEN [rcv EXCEPT ![d] = [st |-> "RECEIVE_SNAPSHOT", task |-> tasks', src |-> n,
                                     try |-> 0, up |-> FALSE, num |-> 0]]
            ELSE rcv
  /\ UNCHANGED <<storeVars, xlock, view, saved, deleting, crashes, request, taking, answer>>

\* The receiver of task t of node n is connected by its try number y.
Listening(n, y) ==
  LET r == rcv[snd[n].dst]
  IN r.st = "RECEIVE_SNAPSHOT" /\ r.task = snd[n].task /\ r.up /\ r.try = y

\* fullReceive connects and sends readymigrate; dstReadyMigrate finds the task
\* and hands the connection to it.
dstReadyMigrate(d) ==
  LET r == rcv[d]
      n == r.src
  IN /\ r.st = "RECEIVE_SNAPSHOT" /\ ~r.up /\ r.try < MaxTry
     /\ snd[n].st # "NONE" /\ snd[n].task = r.task
     /\ Assumed("ready") => snd[n].ph = "idle"
     /\ snd' = [snd EXCEPT ![n].st = "START", ![n].client = r.try + 1]
     /\ rcv' = [rcv EXCEPT ![d].up = TRUE, ![d].try = r.try + 1]
     /\ UNCHANGED <<storeVars, xlock, view, saved, deleting, crashes, request, taking, answer, tasks>>

\* The task is unknown (ERR_READY_MIGRATE), the tries are used up, or
\* setslot stop came: the import ends.
fullReceiveGivesUp(d) ==
  /\ rcv[d].st = "RECEIVE_SNAPSHOT" /\ ~rcv[d].up
  /\ rcv' = [rcv EXCEPT ![d].st = "ERR"]
  /\ UNCHANGED <<storeVars, xlock, view, saved, deleting, crashes, snd, request, taking, answer, tasks>>

\* receiveSnapshot fails (a read times out): try again if no key has arrived.
receiveSnapshotFails(d) ==
  /\ rcv[d].st = "RECEIVE_SNAPSHOT" /\ rcv[d].up
  /\ rcv' = [rcv EXCEPT ![d].up = FALSE, ![d].st = IF rcv[d].num = 0 THEN @ ELSE "ERR"]
  /\ UNCHANGED <<storeVars, xlock, view, saved, deleting, crashes, snd, request, taking, answer, tasks>>

-----------------------------------------------------------------------------
(* ChunkMigrateSender::sendChunk.                                            *)

sendUnchanged == UNCHANGED <<client, writes, view, saved, deleting, crashes, taking, tasks>>

\* senderSchedule starts sendSlots; sendSnapshot reads the watermark first ...
sendSnapshotBegin(n) ==
  /\ snd[n].st = "START" /\ snd[n].ph = "idle"
  /\ snd' = [snd EXCEPT ![n].ph = "pos", ![n].cur = HighestVisible(n)]
  /\ UNCHANGED <<disk, rcv, xlock, request, answer>> /\ sendUnchanged

\* ... and takes its snapshot after that (initTxn); the MigrateBatch keeps the
\* client it starts with.
initTxn(n) ==
  /\ snd[n].st = "START" /\ snd[n].ph = "pos"
  /\ snd' = [snd EXCEPT ![n].ph = "snap", ![n].snap = data[n], ![n].batch = snd[n].client,
                        ![n].todo = {k \in SlotKeys : data[n][k] # 0}]
  /\ UNCHANGED <<disk, rcv, xlock, request, answer>> /\ sendUnchanged

\* Node d commits the entries es one by one, in the order of their indexes,
\* under ids of its own: PutSingleBatch, and applySingleTxnV2 for a chunk that is
\* being migrated.
NewId(d, es, i) == nextSeq[d] + Cardinality({j \in DOMAIN es : j < i})

Commits(d, es) ==
  LET ids == {NewId(d, es, i) : i \in DOMAIN es}
      of(k) == {i \in DOMAIN es : es[i].key = k}
  IN /\ nextSeq[d] + Cardinality(DOMAIN es) <= MaxId + 1
     /\ data' = [data EXCEPT ![d] = [k \in SlotKeys |-> IF of(k) = {} THEN data[d][k] ELSE es[Max(of(k))].val]]
     /\ log' = [log EXCEPT ![d] =
          [x \in DOMAIN log[d] \cup ids |->
             IF x \in ids THEN es[CHOOSE i \in DOMAIN es : NewId(d, es, i) = x] ELSE log[d][x]]]
     /\ nextSeq' = [nextSeq EXCEPT ![d] = @ + Cardinality(DOMAIN es)]
     /\ marked' = [marked EXCEPT ![d] = @ \cup ids]

\* MigrateBatch::send does not wait for an answer.  The batch arrives if its
\* connection is still up (PutSingleBatch); otherwise nobody notices yet.
sendBatch(n, k) ==
  LET s == snd[n]
  IN /\ s.ph = "snap" /\ k \in s.todo
     /\ snd' = [snd EXCEPT ![n].todo = @ \ {k}, ![n].num = @ + 1]
     /\ IF Listening(n, s.batch)
        THEN /\ Commits(s.dst, [i \in {1} |-> [key |-> k, val |-> s.snap[k]]])
             /\ rcv' = [rcv EXCEPT ![s.dst].num = @ + 1]
        ELSE UNCHANGED <<disk, rcv>>
     /\ UNCHANGED <<xlock, request, answer>> /\ sendUnchanged

\* The sender writes "2" and "3", which the receiver answers; it goes on to
\* RECEIVE_BINLOG.
sendSnapshotEnd(n) ==
  LET s == snd[n]
  IN /\ s.ph = "snap" /\ s.todo = {} /\ Listening(n, s.client)
     /\ rcv' = [rcv EXCEPT ![s.dst].st = "RECEIVE_BINLOG", ![s.dst].up = FALSE]
     /\ snd' = [snd EXCEPT ![n].ph = "ack"]
     /\ UNCHANGED <<disk, xlock, request, answer>> /\ sendUnchanged

\* The answer has come; sendBinlog starts its first round.
sendBinlogBegin(n) ==
  /\ snd[n].ph = "ack"
  /\ snd' = [snd EXCEPT ![n].ph = "binlog", ![n].end = HighestVisible(n)]
  /\ UNCHANGED <<disk, rcv, xlock, request, answer>> /\ sendUnchanged

\* The binlogs of the slot in (lo, hi], as SendSlotsBinlog reads them: its
\* cursor ignores the read barrier.
SlotBinlogs(n, lo, hi) == {i \in DOMAIN log[n] : lo < i /\ i <= hi /\ log[n][i].key \in SlotKeys}

\* catchupBinlog sends a batch that ends with binlog hi.  The receiver applies
\* it if the slot is in a task.  When the answer is lost the position stays and
\* the next batch starts from it again.
catchupBinlog(n, hi, answered) ==
  LET s == snd[n]
      I == SlotBinlogs(n, s.cur, hi)
  IN /\ s.ph \in {"binlog", "last"} /\ hi <= s.end /\ hi \in I
     /\ SlotInTask(s.dst)
     /\ Commits(s.dst, [i \in I |-> log[n][i]])
     /\ snd' = IF answered THEN [snd EXCEPT ![n].cur = hi] ELSE snd
     /\ UNCHANGED <<rcv, xlock, request, answer>> /\ sendUnchanged

CaughtUp(n) == SlotBinlogs(n, snd[n].cur, snd[n].end) = {}

\* The end of a round of sendBinlog: near enough, or one more round.
sendBinlogRound(n) ==
  /\ snd[n].ph = "binlog" /\ CaughtUp(n)
  /\ snd' = IF HighestVisible(n) - snd[n].cur <= Distance
            THEN [snd EXCEPT ![n].ph = "lock"]
            ELSE [snd EXCEPT ![n].end = HighestVisible(n)]
  /\ UNCHANGED <<disk, rcv, xlock, request, answer>> /\ sendUnchanged

LastEndPast(n) == nextSeq[n] + 1

\* lockChunks, then the end of the last round: getNextBinlogSeq, not the
\* watermark, which may lag behind for writers of other slots.
LastEnd(n) == nextSeq[n]

lockChunks(n) ==
  /\ snd[n].ph = "lock"
  /\ xlock[n] = "none" /\ ~Writing(n, SlotKeys)
  /\ xlock' = [xlock EXCEPT ![n] = "send"]
  /\ snd' = [snd EXCEPT ![n].ph = "last", ![n].end = LastEnd(n)]
  /\ UNCHANGED <<disk, rcv, request, answer>> /\ sendUnchanged

\* sendLastBinlog and sendVersionMeta are done; migrateend +OK is written, or
\* the connection is gone (lost).
sendOver(n, lost) ==
  LET s == snd[n]
  IN /\ s.ph = "last" /\ CaughtUp(n)
     /\ snd' = [snd EXCEPT ![n].ph = "over"]
     /\ request' = IF lost THEN request ELSE request \cup {[task |-> s.task, src |-> n, dst |-> s.dst]}
     /\ UNCHANGED <<disk, rcv, xlock, answer>> /\ sendUnchanged

\* Any failure before LASTBINLOG_DONE.  The chunks are unlocked.  From
\* sendBinlog on the sender says -ERR (told, if it arrives), but not when
\* lockChunks fails.  sendSlots: a task that has sent no key waits for another
\* readymigrate, unless it was stopped.
sendSlotsFails(n, told, stopped) ==
  LET s == snd[n]
      d == s.dst
  IN /\ s.ph \in {"pos", "snap", "ack", "binlog", "lock", "last"}
     /\ told => s.ph \in {"binlog", "last"}
     /\ snd' = [snd EXCEPT ![n].ph = "idle",
                           ![n].st = IF s.num = 0 /\ ~stopped THEN "WAIT" ELSE "ERR"]
     /\ rcv' = IF told /\ rcv[d].st # "NONE" /\ rcv[d].task = s.task
               THEN [rcv EXCEPT ![d].st = "ERR", ![d].up = FALSE] ELSE rcv
     /\ xlock' = IF s.ph = "last" THEN [xlock EXCEPT ![n] = "none"] ELSE xlock
     /\ UNCHANGED <<disk, request, answer>> /\ sendUnchanged

\* stopTask, or the receiver's node failed: a waiting task ends.
stopTask(n) ==
  /\ snd[n].st = "WAIT" /\ snd[n].ph = "idle"
  /\ snd' = [snd EXCEPT ![n].st = "ERR"]
  /\ UNCHANGED <<disk, rcv, xlock, request, answer>> /\ sendUnchanged

-----------------------------------------------------------------------------
(* The hand-over.                                                            *)

\* supplyMigrateEnd, first half, under the manager's mutex.
supplyMigrateEnd(d) ==
  \E q \in request :
    /\ q.dst = d
    /\ request' = request \ {q}
    /\ IF rcv[d].st # "NONE" /\ rcv[d].task = q.task
       THEN /\ rcv' = [rcv EXCEPT ![d].st = "SUCC", ![d].up = FALSE]
            /\ taking' = [taking EXCEPT ![d] = @ \cup {q}]
            /\ UNCHANGED answer
       ELSE /\ answer' = answer \cup {[task |-> q.task, src |-> q.src, ok |-> FALSE]}
            /\ UNCHANGED <<rcv, taking>>
    /\ UNCHANGED <<storeVars, xlock, view, saved, deleting, crashes, snd, tasks>>

\* Second half, after the mutex is released: setSlots(myself) with a new
\* epoch, above the one of the owner it takes the slot from; then the answer.
setSlotsMyself(d) ==
  \E q \in taking[d] :
    /\ taking' = [taking EXCEPT ![d] = @ \ {q}]
    /\ view' = [view EXCEPT ![d] = [owner |-> d, epoch |-> @.epoch + 1]]
    /\ answer' = answer \cup {[task |-> q.task, src |-> q.src, ok |-> TRUE]}
    /\ UNCHANGED <<storeVars, xlock, saved, deleting, crashes, snd, rcv, request, tasks>>

Answered(n, ok) == [task |-> snd[n].task, src |-> n, ok |-> ok]

\* sendOver got +OK: setSlots(dst) unless gossip was faster, then unlockChunks.
\* The epoch of the receiver's claim is not known yet: every claim is newer.
sendOverAnswered(n) ==
  /\ snd[n].ph = "over" /\ Answered(n, TRUE) \in answer
  /\ view' = IF view[n].owner = snd[n].dst THEN view
              ELSE [view EXCEPT ![n] = [owner |-> snd[n].dst, epoch |-> 0]]
  /\ xlock' = [xlock EXCEPT ![n] = "none"]
  /\ snd' = [snd EXCEPT ![n].ph = "idle", ![n].st = "CLEAR"]
  /\ answer' = answer \ {Answered(n, TRUE)}
  /\ UNCHANGED <<storeVars, saved, deleting, crashes, rcv, request, taking, tasks>>

\* Mutants: no answer, so the chunks are unlocked; no answer is taken for +OK.
sendOverFailsUnlocks(n) ==
  /\ snd[n].ph = "over"
  /\ snd' = [snd EXCEPT ![n].ph = "idle", ![n].st = "HALF"]
  /\ xlock' = [xlock EXCEPT ![n] = "none"]
  /\ answer' = {a \in answer : a.src # n}
  /\ UNCHANGED <<storeVars, view, saved, deleting, crashes, rcv, request, taking, tasks>>


\* sendOver got an error or no answer in time: the task is half done and keeps
\* the chunks locked.
sendOverFails(n) ==
  /\ snd[n].ph = "over"
  /\ snd' = [snd EXCEPT ![n].ph = "idle", ![n].st = "HALF"]
  /\ answer' = {a \in answer : a.src # n}
  /\ UNCHANGED <<storeVars, xlock, view, saved, deleting, crashes, rcv, request, taking, tasks>>

\* The claim of node n on the slot is the newest.
Claims(n) == view[n].owner = n /\ \A m \in Nodes : view[m].owner = m => view[m].epoch <= view[n].epoch

\* The outcome of the task of n is known to n: nobody works on its migrateend
\* any more, and if the receiver took the slot, gossip has said so.
OutcomeKnown(n) ==
  /\ \A q \in request \cup taking[snd[n].dst] : q.task # snd[n].task
  /\ view[n].owner = n => Claims(n)

\* Mutant: the task ends and the chunks stay locked.
HalfEndsLocked(n) ==
  /\ snd[n].st = "HALF"
  /\ Assumed("half") => OutcomeKnown(n)
  /\ snd' = [snd EXCEPT ![n].st = IF view[n].owner = snd[n].dst THEN "CLEAR" ELSE "ERR"]
  /\ answer' = {a \in answer : a.src # n}
  /\ UNCHANGED <<storeVars, xlock, view, saved, deleting, crashes, rcv, request, taking, tasks>>

\* senderSchedule on a task that is HALF, after half of cluster-node-timeout
\* plus a second: the slot is at the receiver, or the migration has failed.
HalfEnds(n) ==
  /\ snd[n].st = "HALF"
  /\ Assumed("half") => OutcomeKnown(n)
  /\ xlock' = [xlock EXCEPT ![n] = "none"]
  /\ snd' = [snd EXCEPT ![n].st = IF view[n].owner = snd[n].dst THEN "CLEAR" ELSE "ERR"]
  /\ answer' = {a \in answer : a.src # n}
  /\ UNCHANGED <<storeVars, view, saved, deleting, crashes, rcv, request, taking, tasks>>

\* deleteSenderChunks: CLEAR.
deleteSenderChunks(n) ==
  /\ snd[n].st = "CLEAR"
  /\ IF view[n].owner = snd[n].dst /\ ~deleting[n]
     THEN /\ deleting' = [deleting EXCEPT ![n] = TRUE]
          /\ snd' = [snd EXCEPT ![n].st = "SUCC"]
     ELSE /\ snd' = [snd EXCEPT ![n].st = "ERR"]
          /\ UNCHANGED deleting
  /\ UNCHANGED <<storeVars, xlock, view, saved, crashes, rcv, request, taking, answer, tasks>>

\* senderSchedule drops a finished task.
eraseSendTask(n) ==
  /\ snd[n].st \in {"SUCC", "ERR"} /\ snd[n].ph = "idle"
  /\ snd' = [snd EXCEPT ![n] = NoSend]
  /\ UNCHANGED <<storeVars, xlock, view, saved, deleting, crashes, rcv, request, taking, answer, tasks>>

\* Mutant: nobody looks at an import that waits for binlogs.
receiveBinlogForever(d) == FALSE /\ rcv[d].st = "RECEIVE_BINLOG" /\ UNCHANGED vars

\* checkMigrateStatus: no heartbeat for too long, or stopped.
receiveBinlogTimeout(d) ==
  /\ rcv[d].st = "RECEIVE_BINLOG"
  /\ rcv' = [rcv EXCEPT ![d].st = "ERR"]
  /\ UNCHANGED <<storeVars, xlock, view, saved, deleting, crashes, snd, request, taking, answer, tasks>>


\* receiverSchedule drops a finished task; what a failed one has received is
\* left to the collector.
eraseReceiveTask(d) ==
  /\ rcv[d].st \in {"SUCC", "ERR"}
  /\ rcv' = [rcv EXCEPT ![d] = NoRecv]
  /\ deleting' = IF rcv[d].st = "ERR" THEN [deleting EXCEPT ![d] = TRUE] ELSE deleting
  /\ UNCHANGED <<storeVars, xlock, view, saved, crashes, snd, request, taking, answer, tasks>>

-----------------------------------------------------------------------------
(* Garbage collection.                                                       *)

\* delGarbage (CLUSTER CLEAR): a slot that is not mine, not in a task and not
\* empty is marked for deletion.
delGarbage(n) ==
  /\ view[n].owner # n /\ ~deleting[n] /\ ~SlotInTask(n) /\ ~EmptySlot(n)
  /\ Assumed("clean") => taking[n] = {}
  /\ deleting' = [deleting EXCEPT ![n] = TRUE]
  /\ UNCHANGED <<storeVars, xlock, view, saved, crashes, taskVars>>

\* gcSchedule runs when no task has existed for a while (so no hand-over is
\* unfinished either): deleteSlots locks the chunks and checks the owner ...
deleteSlotsLock(n) ==
  /\ deleting[n] /\ ~SlotInTask(n) /\ taking[n] = {}
  /\ xlock[n] = "none" /\ ~Writing(n, SlotKeys)
  /\ view[n].owner # n
  /\ xlock' = [xlock EXCEPT ![n] = "gc"]
  /\ UNCHANGED <<storeVars, view, saved, deleting, crashes, taskVars>>

\* ... deleteRange, and the slot is clean.
deleteSlotsEnd(n) ==
  /\ xlock[n] = "gc"
  /\ data' = [data EXCEPT ![n] = [k \in SlotKeys |-> 0]]
  /\ deleting' = [deleting EXCEPT ![n] = FALSE]
  /\ xlock' = [xlock EXCEPT ![n] = "none"]
  /\ UNCHANGED <<client, log, nextSeq, marked, writes, view, saved, crashes, taskVars>>

-----------------------------------------------------------------------------
(* Gossip, the cluster file, crashes.                                        *)

\* clusterUpdateSlotsConfigWith: a claim with a greater epoch wins.
Gossip(m, n) ==
  /\ view[m].owner = m /\ view[n].epoch < view[m].epoch
  /\ view' = [view EXCEPT ![n] = view[m]]
  /\ UNCHANGED <<storeVars, xlock, saved, deleting, crashes, taskVars>>

\* CLUSTER_TODO_FLAG_SAVE: the cron saves the cluster file later.
clusterSaveNodes(n) ==
  /\ crashes < MaxCrash /\ saved[n] # view[n]
  /\ saved' = [saved EXCEPT ![n] = view[n]]
  /\ UNCHANGED <<storeVars, xlock, view, deleting, crashes, taskVars>>

\* The process dies and restarts.  Locks, tasks and the collector's marks were
\* in memory.  The other nodes' claims reach it before it serves.
Crash(n) ==
  LET claims == {view[m] : m \in {m \in Nodes \ {n} : view[m].owner = m /\ view[m].epoch > saved[n].epoch}}
  IN /\ crashes < MaxCrash
     /\ Assumed("saved") =>
          /\ view[n].owner = n => saved[n] = view[n]
          /\ \A q \in request \cup UNION {taking[d] : d \in Nodes} : q.src # n
     /\ crashes' = crashes + 1
     /\ client' = [c \in Clients |-> IF client[c] # Idle /\ client[c].node = n THEN Idle ELSE client[c]]
     /\ nextSeq' = [nextSeq EXCEPT ![n] = Max(DOMAIN log[n] \cup {0}) + 1]
     /\ marked' = [marked EXCEPT ![n] = 1..nextSeq'[n] - 1]
     /\ view' = [view EXCEPT ![n] = IF claims = {} THEN saved[n]
                                     ELSE CHOOSE v \in claims : \A u \in claims : u.epoch <= v.epoch]
     /\ xlock' = [xlock EXCEPT ![n] = "none"]
     /\ snd' = [snd EXCEPT ![n] = NoSend]
     /\ rcv' = [rcv EXCEPT ![n] = NoRecv]
     /\ request' = {q \in request : q.dst # n}
     /\ answer' = {a \in answer : a.src # n}
     /\ taking' = [taking EXCEPT ![n] = {}]
     /\ deleting' = [deleting EXCEPT ![n] = FALSE]
     /\ UNCHANGED <<data, log, saved, tasks, writes>>

-----------------------------------------------------------------------------
ClientStep(c) == CommitWrite(c) \/ MarkCommitted(c)

ClientNext ==
  \E c \in Clients : ClientStep(c) \/ \E n \in Nodes, k \in Keys : getDbWithKeyLock(c, n, k)

\* The steps of the thread that runs sendSlots, and of the schedulers.
SendStep(n) ==
  \/ sendSnapshotBegin(n) \/ initTxn(n) \/ sendSnapshotEnd(n) \/ sendBinlogBegin(n)
  \/ \E k \in SlotKeys : sendBatch(n, k)
  \/ \E hi \in 1..MaxId : catchupBinlog(n, hi, TRUE)
  \/ sendBinlogRound(n) \/ lockChunks(n)
  \/ \E lost \in BOOLEAN : sendOver(n, lost)
  \/ \E told, stopped \in BOOLEAN : sendSlotsFails(n, told, stopped)
  \/ sendOverAnswered(n) \/ sendOverFails(n)
  \/ deleteSenderChunks(n) \/ eraseSendTask(n)

ReceiveStep(d) ==
  \/ receiveSnapshotFails(d) \/ fullReceiveGivesUp(d)
  \/ receiveBinlogTimeout(d) \/ eraseReceiveTask(d)
  \/ supplyMigrateEnd(d) \/ setSlotsMyself(d)

Next ==
  /\ \/ ClientNext
     \/ \E d, n \in Nodes, heard \in BOOLEAN : setslotImporting(d, n, heard)
     \/ \E n \in Nodes : \/ SendStep(n) \/ ReceiveStep(n) \/ stopTask(n)
                         \/ dstReadyMigrate(n) \/ HalfEnds(n)
                         \/ \E hi \in 1..MaxId : catchupBinlog(n, hi, FALSE)
                         \/ delGarbage(n) \/ deleteSlotsLock(n) \/ deleteSlotsEnd(n)
                         \/ clusterSaveNodes(n) \/ Crash(n)
     \/ \E m, n \in Nodes : Gossip(m, n)
  /\ UNCHANGED setting

Spec == Init /\ [][Next]_vars

\* A thread that runs goes on: each request is answered or times out, a client
\* finishes its transaction, the schedulers and the cluster cron run, and
\* gossip arrives.  Nothing is assumed of clients that may start, of commands,
\* of readymigrate or of the collector.
FairSpec ==
  /\ Spec
  /\ \A c \in Clients : WF_moving(ClientStep(c))
  /\ \A n \in Nodes : WF_moving(SendStep(n)) /\ WF_moving(ReceiveStep(n)) /\ WF_moving(HalfEnds(n))
                      /\ WF_moving(deleteSlotsEnd(n))
  /\ \A m, n \in Nodes : WF_moving(Gossip(m, n))

-----------------------------------------------------------------------------
(* Properties.                                                               *)

Serves(n) == view[n].owner = n /\ xlock[n] # "send"

\* Two nodes never serve the slot at the same time: the sender keeps its chunks
\* locked from before the receiver claims the slot until it knows the outcome.
OneServer == \A m, n \in Nodes : Serves(m) /\ Serves(n) => m = n

\* The node with the newest claim has the slot.
Holder == CHOOSE n \in Nodes : Claims(n)

\* The slot, seen by its clients, is the abstract slot: hand-over loses no
\* write, a snapshot or a resent binlog never overwrites what is served, and
\* the collector never deletes it.
Abstract == INSTANCE SlotService WITH
  holder <- Holder, open <- xlock[Holder] # "send", value <- data[Holder]



\* Clients of the slot are not locked out for ever: the sender releases the
\* chunks whatever happens to its messages.
LockIsReleased == \A n \in Nodes : xlock[n] = "send" ~> xlock[n] = "none"

\* An import ends, whatever the sender does.
ImportEnds == \A d \in Nodes : rcv[d].st # "NONE" ~> rcv[d].st = "NONE"
=============================================================================

----------------------------- MODULE Replication -----------------------------
(* Replication seen from the slaves, and the changes of role that give a store *)
(* another master: full and incremental sync, the sessions in which binlogs    *)
(* arrive, promotion, the switch of the others to the promoted node and the    *)
(* manual failover that stops the old master first.  The election itself is in *)
(* ClusterFailover, and how one store numbers, keeps and recycles its binlogs  *)
(* in KVStoreBinlog: here a store is the sequence of the writes it has seen,   *)
(* and a position is a length.                                                 *)
EXTENDS Naturals, Sequences, SequencesExt, FiniteSets

\* What a behaviour starts from, by name: the master of every node ("" if it is
\* one), the state of the slaves' meta, the bounds on writes, connections and
\* faults, the nodes that may die, the slave that is asked for a manual failover
\* ("" if none), and the assumptions that are dropped (see
\* MaySyncIncr, OldSession, forceFailover and HandleMFStart).
CONSTANT Groups

ASSUME GroupsAreGroups ==
  \A g \in DOMAIN Groups : LET s == Groups[g] IN
    /\ \A n \in DOMAIN s.masterOf : s.masterOf[n] # "" => s.masterOf[n] \in DOMAIN s.masterOf
    /\ s.state \in {"CONNECT", "CONNECTED"}
    /\ {s.writes, s.conns, s.faults} \subseteq Nat
    /\ s.mortal \subseteq DOMAIN s.masterOf
    /\ s.asked \in DOMAIN s.masterOf \cup {""}
    /\ s.lax \subseteq {"ahead", "session", "stale", "again"}

VARIABLES
  group,    \* the name of the setting
  up,       \* the nodes whose process runs
  log,      \* per node: the writes in its store, 0 for a binlog that is missing
  role,     \* per node: its master in its own view of the cluster, "" for a master
  origin,   \* per node: the master it was promoted from, and how far its log then was
  meta,     \* per node: _syncMeta, [host, st, pos]
  saved,    \* per node: host and state in the catalog
  mode,     \* per node: mode of the store, RW or RO (REPLICATE_ONLY)
  sess,     \* per node: _syncStatus.sessionId, 0 for none
  sync,     \* per node: where slaveSyncRoutine is, with its snapshot of the meta
  busy,     \* per node: where a change of role is
  push,     \* the entries of _pushStatus of all nodes, with what is on the wire
  mf,       \* per node: the manual failover it takes part in
  blocked,  \* per node: clusterBlockMyself holds the slots
  read,     \* per node: the offset its cron has read for a ping, or NotRead
  net,      \* cluster packets of the manual failover
  conns, writes, faults  \* counters of connections, writes and faults

vars == <<group, up, log, role, origin, meta, saved, mode, sess, sync, busy, push, mf, blocked, read, net,
          conns, writes, faults>>

setting == Groups[group]
Nodes == DOMAIN setting.masterOf
NotRead == setting.writes + 1
Laxly(a) == a \in setting.lax

NoMeta == [host |-> "", st |-> "NONE", pos |-> 0]
NoSync == [pc |-> "idle", snap |-> NoMeta, conn |-> 0, copy |-> <<>>]
NoJob == [what |-> "none", to |-> "", ready |-> FALSE, off |-> 0]
NoMf == [end |-> FALSE, slave |-> "", got |-> FALSE, off |-> 0, start |-> FALSE]
NoOrigin == [from |-> "", at |-> 0]

\* isRunning of the store's _syncStatus; who changes the meta without a step in
\* between has it for that step.
isRunning(n) == sync[n].pc # "idle"

\* The store is stopped while a full sync replaces it.
IsOpen(n) == n \in up /\ sync[n].pc \notin {"stopped", "transfer"}

Synced(m) == m.host # "" /\ m.st \in {"CONNECTED", "ERR"}

Init ==
  /\ group \in DOMAIN Groups
  /\ up = Nodes
  /\ log = [n \in Nodes |-> <<>>]
  /\ role = setting.masterOf
  /\ origin = [n \in Nodes |-> NoOrigin]
  /\ meta = [n \in Nodes |-> IF role[n] = "" THEN NoMeta ELSE [host |-> role[n], st |-> setting.state, pos |-> 0]]
  /\ saved = [n \in Nodes |-> [host |-> meta[n].host, st |-> meta[n].st]]
  /\ mode = [n \in Nodes |-> IF role[n] = "" THEN "RW" ELSE "RO"]
  /\ sess = [n \in Nodes |-> 0] /\ sync = [n \in Nodes |-> NoSync] /\ busy = [n \in Nodes |-> NoJob]
  /\ push = {} /\ net = {}
  /\ mf = [n \in Nodes |-> NoMf] /\ blocked = [n \in Nodes |-> FALSE]
  /\ read = [n \in Nodes |-> NotRead]
  /\ conns = 0 /\ writes = 0 /\ faults = 0

RolesSame == UNCHANGED <<role, origin, busy>>
ManualSame == UNCHANGED <<mf, blocked, read, net>>
MetaSame == UNCHANGED <<meta, saved, mode>>

\* changeReplState with persist.
Persist(n, m) ==
  /\ meta' = [meta EXCEPT ![n] = m]
  /\ saved' = [saved EXCEPT ![n] = [host |-> m.host, st |-> m.st]]

\* A command of a client: the redirect sends it away from a slave, the mode of the
\* store refuses it, and the locks of a manual failover hold it up.
Write(n) ==
  /\ n \in up /\ role[n] = "" /\ mode[n] = "RW" /\ ~blocked[n]
  /\ writes < setting.writes
  /\ writes' = writes + 1
  /\ log' = [log EXCEPT ![n] = Append(@, writes')]
  /\ MetaSame /\ RolesSame /\ ManualSame
  /\ UNCHANGED <<group, up, sess, sync, push, conns, faults>>

-----------------------------------------------------------------------------
(* slaveStartFullsync.                                                        *)

SyncSame == MetaSame /\ RolesSame /\ ManualSame /\ UNCHANGED <<group, up, conns, writes, faults>>

\* The store is stopped and cleared under its lock in X.
FullStart(n) ==
  /\ n \in up /\ ~isRunning(n) /\ meta[n].st = "CONNECT"
  /\ sync' = [sync EXCEPT ![n] = [NoSync EXCEPT !.pc = "stopped", !.snap = meta[n]]]
  /\ log' = [log EXCEPT ![n] = <<>>]
  /\ SyncSame /\ UNCHANGED <<sess, push>>

\* The master takes a checkpoint and sends its files.
FullTransfer(n) ==
  /\ sync[n].pc = "stopped" /\ IsOpen(sync[n].snap.host)
  /\ sync' = [sync EXCEPT ![n].pc = "transfer", ![n].copy = log[sync[n].snap.host]]
  /\ meta' = [meta EXCEPT ![n] = [sync[n].snap EXCEPT !.st = "TRANSFER", !.pos = 0]]
  /\ RolesSame /\ ManualSame /\ UNCHANGED <<group, up, log, saved, mode, sess, push, conns, writes, faults>>

FullRestart(n) ==
  /\ sync[n].pc = "transfer"
  /\ log' = [log EXCEPT ![n] = sync[n].copy]
  /\ sync' = [sync EXCEPT ![n].pc = "restored"]
  /\ SyncSame /\ UNCHANGED <<sess, push>>

FullDone(n) ==
  /\ sync[n].pc = "restored"
  /\ Persist(n, [sync[n].snap EXCEPT !.st = "CONNECTED", !.pos = Len(sync[n].copy)])
  /\ sync' = [sync EXCEPT ![n] = NoSync]
  /\ RolesSame /\ ManualSame /\ UNCHANGED <<group, up, log, mode, sess, push, conns, writes, faults>>

\* Mutant: the guard does not roll the state back.
FullFailsInTransfer(n) ==
  /\ sync[n].pc \in {"stopped", "transfer"}
  /\ sync' = [sync EXCEPT ![n] = NoSync]
  /\ SyncSame /\ UNCHANGED <<log, sess, push>>

\* The guard rolls the state back, in memory, and restarts the empty store.
FullFails(n) ==
  /\ sync[n].pc \in {"stopped", "transfer"}
  /\ meta' = [meta EXCEPT ![n] = [sync[n].snap EXCEPT !.st = "CONNECT", !.pos = 0]]
  /\ sync' = [sync EXCEPT ![n] = NoSync]
  /\ RolesSame /\ ManualSame /\ UNCHANGED <<group, up, log, saved, mode, sess, push, conns, writes, faults>>

-----------------------------------------------------------------------------
(* slaveChkSyncStatus and registerIncrSync.                                   *)

\* No session, or nothing heard for the time of a heartbeat.
ChkStart(n) ==
  /\ n \in up /\ ~isRunning(n) /\ Synced(meta[n]) /\ conns < setting.conns
  /\ sync' = [sync EXCEPT ![n] = [NoSync EXCEPT !.pc = "chk", !.snap = meta[n]]]
  /\ SyncSame /\ UNCHANGED <<log, sess, push>>

\* Entries a master forgets when the slave asks again.
Replaced(m, n) == {p \in push : p.from = m /\ p.to = n /\ p.batch = <<>>}

\* INCRSYNC, +OK and +PONG: the master has a pusher for the slave.
registerIncrSync(n) ==
  LET m == sync[n].snap.host IN
  /\ sync[n].pc = "chk" /\ IsOpen(m) /\ conns < setting.conns
  /\ conns' = conns + 1
  /\ push' = (push \ Replaced(m, n)) \cup
       {[id |-> conns', from |-> m, to |-> n, pos |-> sync[n].snap.pos, batch |-> <<>>, open |-> TRUE]}
  /\ sync' = [sync EXCEPT ![n].pc = "asked", ![n].conn = conns']
  /\ MetaSame /\ RolesSame /\ ManualSame /\ UNCHANGED <<group, up, log, sess, writes, faults>>

\* The connection becomes the session of the store.
ChkDone(n) ==
  /\ sync[n].pc = "asked"
  /\ sess' = [sess EXCEPT ![n] = sync[n].conn]
  /\ meta' = [meta EXCEPT ![n] = IF sync[n].snap.st = "CONNECTED" THEN @ ELSE [sync[n].snap EXCEPT !.st = "CONNECTED"]]
  /\ sync' = [sync EXCEPT ![n] = NoSync]
  /\ RolesSame /\ ManualSame /\ UNCHANGED <<group, up, log, saved, mode, push, conns, writes, faults>>

\* No connection, a refusal, or an answer that is lost after the master registered.
ChkFails(n) ==
  /\ sync[n].pc \in {"chk", "asked"}
  /\ sess' = [sess EXCEPT ![n] = 0]
  /\ meta' = [meta EXCEPT ![n] = [sync[n].snap EXCEPT !.st = "ERR"]]
  /\ sync' = [sync EXCEPT ![n] = NoSync]
  /\ RolesSame /\ ManualSame /\ UNCHANGED <<group, up, log, saved, mode, push, conns, writes, faults>>
-----------------------------------------------------------------------------
(* masterPushRoutine and applyRepllogV2.                                      *)

PushSame == RolesSame /\ ManualSame /\ UNCHANGED <<group, up, saved, mode, sess, sync, conns, writes>>

Replace(p, q) == push' = (push \ {p}) \cup {q}

\* A batch of one binlog or of all there are.  Whoever has a pusher sends, also a
\* node that is no longer a master.
masterSendBinlog(p) ==
  /\ p.open /\ p.batch = <<>> /\ IsOpen(p.from) /\ Len(log[p.from]) > p.pos
  /\ \E last \in {p.pos + 1, Len(log[p.from])} :
       Replace(p, [p EXCEPT !.batch = SubSeq(log[p.from], p.pos + 1, last)])
  /\ PushSame /\ UNCHANGED <<log, meta, faults>>

\* The connection breaks.  A batch that has arrived is still handled.
ConnectionLost(p) ==
  /\ p.open /\ faults < setting.faults
  /\ faults' = faults + 1
  /\ IF p.batch = <<>> THEN push' = push \ {p} ELSE Replace(p, [p EXCEPT !.open = FALSE])
  /\ PushSame /\ UNCHANGED <<log, meta>>

\* What is left of the pusher once the first binlog of its batch is applied.
Shifted(p) == [p EXCEPT !.pos = @ + 1, !.batch = Tail(@)]

\* Mutant: the binlog is stored under the next id.
StoredNext(old, id, w) == [i \in 1..id + 1 |-> IF i > id THEN w ELSE IF i <= Len(old) THEN old[i] ELSE 0]

\* The store after binlog id, with the ids that were left out.
Stored(old, id, w) == [i \in 1..id |-> IF i = id THEN w ELSE IF i <= Len(old) THEN old[i] ELSE 0]


\* applySingleTxnV2 checks the mode and that the id is above the highest.
Accepts(n, p) == sess[n] = p.id /\ mode[n] = "RO" /\ p.pos + 1 > Len(log[n])

applyRepllog(p) ==
  LET n == p.to IN
  /\ p.batch # <<>> /\ n \in up /\ ~isRunning(n) /\ Accepts(n, p)
  /\ log' = [log EXCEPT ![n] = Stored(@, p.pos + 1, Head(p.batch))]
  /\ meta' = [meta EXCEPT ![n].pos = p.pos + 1]
  /\ IF Shifted(p).batch = <<>> /\ ~p.open THEN push' = push \ {p} ELSE Replace(p, Shifted(p))
  /\ PushSame /\ UNCHANGED faults

\* The slave answers with an error and the master drops the pusher.
applyRefused(p) ==
  /\ p.batch # <<>> /\ p.to \in up /\ ~isRunning(p.to) /\ ~Accepts(p.to, p)
  /\ push' = push \ {p}
  /\ PushSame /\ UNCHANGED <<log, meta, faults>>

-----------------------------------------------------------------------------
(* Changes of the master: changeReplSourceInDBLock, with isRunning and the     *)
(* store's lock in X.                                                          *)

\* replicationUnSetMaster.
UnSetMaster(n) ==
  /\ ~isRunning(n)
  /\ mode' = [mode EXCEPT ![n] = "RW"]
  /\ sess' = [sess EXCEPT ![n] = 0]
  /\ Persist(n, NoMeta)

\* It gives up: somebody has isRunning, or it has reset the session and does not
\* get the lock of the store.
UnSetFails(n) ==
  /\ MetaSame
  /\ IF isRunning(n) THEN UNCHANGED sess ELSE sess' = [sess EXCEPT ![n] = 0]

\* Mutant: an incremental sync starts where the last one was.
ChangeSourceHere(n, m, incrSync) ==
  /\ ~isRunning(n)
  /\ mode' = [mode EXCEPT ![n] = "RO"]
  /\ Persist(n, [host |-> m, st |-> IF incrSync THEN "CONNECTED" ELSE "CONNECT", pos |-> meta[n].pos])

\* replicationSetMaster.
ChangeSource(n, m, incrSync) ==
  /\ ~isRunning(n)
  /\ mode' = [mode EXCEPT ![n] = "RO"]
  /\ Persist(n, [host |-> m, st |-> IF incrSync THEN "CONNECTED" ELSE "CONNECT",
                 pos |-> IF incrSync THEN Len(log[n]) ELSE 0])

\* A node is marked as failed long after it sent its last binlog.
Failed(m) == m \notin up /\ \A p \in push : p.from = m => p.batch = <<>>

RoleSame == UNCHANGED <<group, up, log, sync, conns, writes, faults>>

ResetManual(n) == mf' = [mf EXCEPT ![n] = NoMf] /\ blocked' = [blocked EXCEPT ![n] = FALSE]

\* The slave has won an election (ClusterFailover): its master failed and its data
\* is not too old, or its manual failover may start.
Elected(n) ==
  /\ role[n] # "" /\ \A x \in Nodes : origin[x].from # role[n]
  /\ mf[n].start \/ (Failed(role[n]) /\ Synced(meta[n]))

\* clusterFailoverReplaceYourMaster: the store first, then the cluster meta.
FailoverUnSet(n) ==
  /\ n \in up /\ busy[n] = NoJob /\ Elected(n)
  /\ UnSetMaster(n)
  /\ busy' = [busy EXCEPT ![n].what = "promote"]
  /\ RoleSame /\ ManualSame /\ UNCHANGED <<role, origin, push>>

FailoverUnSetFails(n) ==
  /\ n \in up /\ busy[n] = NoJob /\ Elected(n) /\ faults < setting.faults
  /\ UnSetFails(n) /\ faults' = faults + 1
  /\ RolesSame /\ ManualSame /\ UNCHANGED <<group, up, log, sync, push, conns, writes>>

FailoverMeta(n) ==
  /\ busy[n].what = "promote"
  /\ role' = [role EXCEPT ![n] = ""]
  /\ origin' = [origin EXCEPT ![n] = [from |-> role[n], at |-> Len(log[n])], ![role[n]] = NoOrigin]
  /\ busy' = [busy EXCEPT ![n] = NoJob]
  /\ ResetManual(n)
  /\ RoleSame /\ MetaSame /\ UNCHANGED <<sess, push, read, net>>

\* clusterUpdateSlotsConfigWith: n hears that s has the slots of its master, or of
\* itself.  The offset in the packet is old or new.
Hear(n, s) ==
  LET notFail == role[n] # "" /\ ~Failed(role[n]) IN
  /\ n \in up /\ busy[n] = NoJob /\ s # n /\ role[s] = ""
  /\ origin[s].from = IF role[n] = "" THEN n ELSE role[n]
  /\ \/ notFail /\ UnSetMaster(n)
     \/ notFail /\ UnSetFails(n)
     \/ ~notFail /\ MetaSame /\ UNCHANGED sess
  /\ \E off \in {0, origin[s].at, Len(log[s])} :
       busy' = [busy EXCEPT ![n] = [what |-> "heard", to |-> s, ready |-> ~notFail \/ Synced(meta[n]), off |-> off]]
  /\ RoleSame /\ ManualSame /\ UNCHANGED <<role, origin, push>>

\* Its slave has not finished a full sync: it keeps its master.
KeepMaster(n) ==
  /\ busy[n].what = "heard" /\ ~busy[n].ready
  /\ busy' = [busy EXCEPT ![n] = NoJob]
  /\ RoleSame /\ MetaSame /\ ManualSame /\ UNCHANGED <<role, origin, sess, push>>

\* clusterSetMaster: the role, and clients run again.
SetRole(n) ==
  /\ busy[n].what = "heard" /\ busy[n].ready
  /\ role' = [role EXCEPT ![n] = busy[n].to]
  /\ blocked' = [blocked EXCEPT ![n] = FALSE]
  /\ busy' = [busy EXCEPT ![n].what = IF role[n] = "" THEN "follow" ELSE "followGroup"]
  /\ RoleSame /\ MetaSame /\ UNCHANGED <<origin, sess, push, mf, read, net>>

\* The old master of a manual failover, and a slave of the same master whose log
\* is not longer than what the new one announces.  Unless "ahead" is dropped, such
\* a slave has nothing that the new master did not have when it was promoted.
MaySyncIncr(n) ==
  \/ mf[n].end /\ mf[n].slave = busy[n].to
  \/ /\ busy[n].what = "followGroup" /\ busy[n].off >= Len(log[n])
     /\ Laxly("ahead") \/ Len(log[n]) <= origin[busy[n].to].at

\* The pushers of n are closed (clearPushStatus).
Closed(n) == {p \in push : p.from # n}
  \cup {[p EXCEPT !.open = FALSE] : p \in {q \in push : q.from = n /\ q.batch # <<>>}}

\* The session of the store is one of its former master: replicationSetMaster
\* leaves it as it is, so it has to be closed before.  Unless "session" is
\* dropped, a change that meets one fails.
OldSession(n) == \E p \in push : p.id = sess[n] /\ p.from # busy[n].to

SetMaster(n) ==
  /\ busy[n].what \in {"follow", "followGroup"}
  /\ Laxly("session") \/ ~OldSession(n)
  /\ ChangeSource(n, busy[n].to, MaySyncIncr(n))
  /\ push' = IF MaySyncIncr(n) THEN Closed(n) ELSE push
  /\ busy' = [busy EXCEPT ![n] = NoJob]
  /\ ResetManual(n)
  /\ RoleSame /\ UNCHANGED <<role, origin, sess, read, net>>

\* replicationSetMaster returns an error, and cron is to repair the meta.
SetMasterFails(n) ==
  /\ busy[n].what \in {"follow", "followGroup"}
  /\ isRunning(n) \/ OldSession(n) \/ faults < setting.faults
  /\ faults' = IF isRunning(n) \/ OldSession(n) THEN faults ELSE faults + 1
  /\ busy' = [busy EXCEPT ![n] = NoJob]
  /\ MetaSame /\ ManualSame /\ UNCHANGED <<group, up, log, role, origin, sess, sync, push, conns, writes>>

\* The meta does not name the master: it is set again, with a full sync.
cronCheckReplicate(n) ==
  /\ n \in up /\ busy[n].what \in {"none", "heard"} /\ role[n] # "" /\ meta[n].host # role[n]
  /\ ChangeSource(n, role[n], FALSE)
  /\ sess' = IF meta[n].host = "" THEN sess ELSE [sess EXCEPT ![n] = 0]
  /\ RoleSame /\ ManualSame /\ UNCHANGED <<role, origin, busy, push>>
-----------------------------------------------------------------------------
(* Manual failover.                                                           *)

MfSame == MetaSame /\ RolesSame /\ UNCHANGED <<group, up, log, sess, sync, push, conns, writes, faults>>

\* CLUSTER FAILOVER at a slave that is connected with its master.  The timer also
\* runs when the request is refused since the meta of the store is not right.
\* Unless "again" is dropped, both nodes have forgotten the request before.
forceFailover(n) ==
  /\ n \in up /\ n = setting.asked /\ role[n] \in up /\ mf[n] = NoMf
  /\ Laxly("again") \/ (mf[role[n]] = NoMf /\ \A m \in net : n \notin {m.to, m.from})
  /\ mf' = [mf EXCEPT ![n] = [NoMf EXCEPT !.end = TRUE]]
  /\ net' = net \cup {[type |-> "MFSTART", to |-> m, from |-> n, off |-> 0] : m \in {role[n]} \cap {meta[n].host}}
  /\ MfSame /\ UNCHANGED <<blocked, read>>

\* Cron reads the offset for its pings, and the flag that says that clients are
\* paused is read when the packet is built.
ReadOffset(n) ==
  /\ n \in up /\ role[n] = "" /\ setting.asked # "" /\ read[n] = NotRead
  /\ read' = [read EXCEPT ![n] = Len(log[n])]
  /\ MfSame /\ UNCHANGED <<mf, blocked, net>>

clusterSendPing(n) ==
  /\ n \in up /\ read[n] # NotRead
  /\ net' = IF mf[n].end /\ role[n] = ""
            THEN net \cup {[type |-> "PING", to |-> mf[n].slave, from |-> n, off |-> read[n]]} ELSE net
  /\ read' = [read EXCEPT ![n] = NotRead]
  /\ MfSame /\ UNCHANGED <<mf, blocked>>

\* Clients are blocked, which waits for the writes under way, before the failover
\* is noted; or the slots can not be locked in time.  A slave that n does not yet
\* know as a master still counts as its slave.  Unless "stale" is dropped, no
\* ping is half-built then.
HandleMFStart(n, m) ==
  /\ m.type = "MFSTART" /\ n \in up
  /\ Laxly("stale") \/ read[n] = NotRead
  /\ net' = net \ {m}
  /\ IF role[n] = "" /\ n \in {role[m.from], origin[m.from].from}
     THEN \/ /\ mf' = [mf EXCEPT ![n] = [NoMf EXCEPT !.end = TRUE, !.slave = m.from]]
             /\ blocked' = [blocked EXCEPT ![n] = TRUE]
          \/ ResetManual(n)
     ELSE UNCHANGED <<mf, blocked>>
  /\ MfSame /\ UNCHANGED read

HandlePaused(n, m) ==
  /\ m.type = "PING" /\ n \in up
  /\ net' = net \ {m}
  /\ mf' = IF mf[n].end /\ role[n] = m.from /\ mf[n].off = 0
           THEN [mf EXCEPT ![n].got = TRUE, ![n].off = m.off] ELSE mf
  /\ MfSame /\ UNCHANGED <<blocked, read>>


CaughtUp(n) == mf[n].got /\ mf[n].off <= Len(log[n])

clusterHandleManualFailover(n) ==
  /\ n \in up /\ mf[n].end /\ ~mf[n].start /\ role[n] # "" /\ CaughtUp(n)
  /\ mf' = [mf EXCEPT ![n].start = TRUE]
  /\ MfSame /\ UNCHANGED <<blocked, read, net>>

\* Both sides wait for CLUSTER_MF_TIMEOUT, the slave from an earlier moment on,
\* and packets take less time.  So the master gives up after its slave has given
\* up, or knows of the new master.
manualFailoverCheckTimeout(n) ==
  /\ n \in up /\ mf[n].end /\ busy[n] = NoJob
  /\ IF role[n] # "" THEN TRUE ELSE ~mf[mf[n].slave].end /\ origin[mf[n].slave].from # n
  /\ \A m \in net : n \notin {m.to, m.from}
  /\ ResetManual(n)
  /\ MfSame /\ UNCHANGED <<read, net>>

-----------------------------------------------------------------------------
(* Death and restart of a process; what is in memory is lost.                 *)

Crash(n) ==
  /\ n \in up \cap setting.mortal /\ faults < setting.faults
  /\ faults' = faults + 1
  /\ up' = up \ {n}
  /\ sess' = [sess EXCEPT ![n] = 0] /\ sync' = [sync EXCEPT ![n] = NoSync]
  /\ busy' = [busy EXCEPT ![n] = NoJob]
  /\ push' = {p \in Closed(n) : p.to # n}
  /\ ResetManual(n) /\ read' = [read EXCEPT ![n] = NotRead]
  /\ net' = {m \in net : m.to # n}
  /\ MetaSame /\ UNCHANGED <<group, log, role, origin, conns, writes>>

\* ReplManager::startup.  No packet is older than the restart of its sender.
Restart(n) ==
  /\ n \notin up /\ \A m \in net : m.from # n
  /\ up' = up \cup {n}
  /\ mode' = [mode EXCEPT ![n] = IF saved[n].host = "" THEN "RW" ELSE "RO"]
  /\ meta' = [meta EXCEPT ![n] = [host |-> saved[n].host, st |-> saved[n].st,
                                  pos |-> IF saved[n].host = "" THEN 0 ELSE Len(log[n])]]
  /\ RolesSame /\ ManualSame /\ UNCHANGED <<group, log, saved, sess, sync, push, conns, writes, faults>>

-----------------------------------------------------------------------------
SyncStep(n) ==
  FullStart(n) \/ FullTransfer(n) \/ FullRestart(n) \/ FullDone(n)
  \/ ChkStart(n) \/ registerIncrSync(n) \/ ChkDone(n)
RoleStep(n) ==
  FailoverMeta(n) \/ KeepMaster(n) \/ SetRole(n) \/ SetMaster(n) \/ cronCheckReplicate(n)
  \/ \E s \in Nodes : Hear(n, s)
ManualStep(n) ==
  forceFailover(n) \/ ReadOffset(n) \/ clusterSendPing(n) \/ clusterHandleManualFailover(n)
  \/ \E m \in {x \in net : x.to = n} : HandleMFStart(n, m) \/ HandlePaused(n, m)
Failures(n) ==
  FullFails(n) \/ ChkFails(n) \/ FailoverUnSetFails(n) \/ SetMasterFails(n) \/ Crash(n)

Next ==
  \/ \E n \in Nodes : Write(n) \/ SyncStep(n) \/ FailoverUnSet(n) \/ RoleStep(n) \/ ManualStep(n)
                      \/ manualFailoverCheckTimeout(n) \/ Failures(n) \/ Restart(n)
  \/ \E p \in push : masterSendBinlog(p) \/ ConnectionLost(p) \/ applyRepllog(p) \/ applyRefused(p)

Spec == Init /\ [][Next]_vars

-----------------------------------------------------------------------------
(* Properties.                                                                *)

\* Every variable has its type.
TypeOK ==
  /\ up \subseteq Nodes
  /\ log \in [Nodes -> Seq(0..writes)] /\ \A n \in Nodes : Len(log[n]) <= writes
  /\ role \in [Nodes -> Nodes \cup {""}]
  /\ \A n \in Nodes : meta[n].st \in {"NONE", "CONNECT", "TRANSFER", "CONNECTED", "ERR"}
  /\ \A n \in Nodes : sync[n].pc \in {"idle", "stopped", "transfer", "restored", "chk", "asked"}
  /\ mode \in [Nodes -> {"RW", "RO"}] /\ sess \in [Nodes -> 0..conns]
  /\ conns <= setting.conns /\ writes <= setting.writes /\ faults <= setting.faults

\* What a node knows of its master, or would know after a restart.
Source(n) == IF n \in up THEN meta[n] ELSE [host |-> saved[n].host, st |-> saved[n].st, pos |-> 0]


\* The position a slave asks from is what its store has: less would be refused for
\* ever as binlogs it has, more would leave a gap.
PositionIsWhatItHas == \A n \in up : Synced(meta[n]) => meta[n].pos = Len(log[n])

\* The controller never meets a store in TRANSFER ("REPL_TRANSFER should not be
\* visitable").
TransferHidden == \A n \in up : ~isRunning(n) => meta[n].st # "TRANSFER"

==============================================================================

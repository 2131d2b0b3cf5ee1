------------------------------ MODULE KeyLocking ------------------------------
(***************************************************************************)
(* The locks of the store, chunk and key hierarchy (lock/lock.cpp), the    *)
(* order in which commands take them (server/segment_manager.cpp) and the  *)
(* key locks a session remembers (network/session_ctx.cpp), on top of the  *)
(* lock manager MGLock.                                                    *)
(*                                                                         *)
(* A KeyLock is a chain of three MGLock objects: the store and the chunk   *)
(* in the parent mode, then the key; a ChunkLock is a chain of two, a      *)
(* StoreLock is one.  A command is the sequence of chains it takes.  Lock  *)
(* object <<s, c, v>> is level v of chain c of session s.                  *)
(*                                                                         *)
(* Each step of a session is one step of MGLock, or leaves it alone, so    *)
(* what holds of MGLock holds here.                                        *)
(***************************************************************************)
EXTENDS MGLock

CONSTANTS
  Sessions,
  Stores, Chunks, Keys,
  storeOf,    \* SegmentMgr::getStoreid
  chunkOf,    \* keyHashSlot
  rank,       \* store and chunk ids and the order of key names, as numbers
  Work,       \* the commands that a session may run
  MaxChain    \* bound on the number of chains in a command

ASSUME Hierarchy ==
  /\ storeOf \in [Chunks -> Stores] /\ chunkOf \in [Keys -> Chunks]
  /\ Targets = Stores \cup Chunks \cup Keys
  /\ Stores \cap Chunks = {} /\ Stores \cap Keys = {} /\ Chunks \cap Keys = {}

ASSUME SessionLocks == Locks = Sessions \X (1..MaxChain) \X (1..3)

VARIABLES
  pc,          \* "idle", "lock", "wait", "run" or "free"
  plan,        \* the chains of the command
  chain, level,  \* where the session is in its plan
  keylockmap   \* SessionCtx::_keylockmap, NoMode for a key that is not in it

sessVars == <<pc, plan, chain, level, keylockmap>>
allVars == <<vars, sessVars>>
-----------------------------------------------------------------------------
(* Chains and plans.                                                         *)

\* A step of a chain and how long it may wait: seconds ("short") or an hour.
Step(t, m, limit) == [target |-> t, mode |-> m, limit |-> limit]

\* Mutant: readers and writers of a key look the same from above.
getParentModeIS(m) == "IS"

getParentMode(m) == IF m \in {"IS", "S"} THEN "IS" ELSE "IX"

StoreLock(st, m, limit) == <<Step(st, m, limit)>>

ChunkLock(ch, m, limit) == <<Step(storeOf[ch], getParentMode(m), limit), Step(ch, m, limit)>>

\* The parent of the parent's mode is the mode itself.
KeyLock(k, m) ==
  LET pm == getParentMode(m)
  IN <<Step(storeOf[chunkOf[k]], pm, "long"), Step(chunkOf[k], pm, "long"), Step(k, m, "long")>>

\* By store, then by chunk, then by name.
Before(a, b) ==
  LET ra == <<rank[storeOf[chunkOf[a]]], rank[chunkOf[a]], rank[a]>>
      rb == <<rank[storeOf[chunkOf[b]]], rank[chunkOf[b]], rank[b]>>
  IN \E i \in 1..3 : ra[i] < rb[i] /\ \A j \in 1..(i - 1) : ra[j] = rb[j]

Times(k, q) == Cardinality({i \in 1..Len(q) : q[i] = k})

\* Mutant: keys are locked in the order of the arguments.
LockSequenceAsGiven(args) == args

\* std::map by store, and std::sort within it.  A key may come twice.
LockSequence(args) ==
  CHOOSE q \in [1..Len(args) -> Keys] :
    /\ \A i, j \in 1..Len(args) : i < j => ~Before(q[j], q[i])
    /\ \A k \in Keys : Times(k, q) = Times(k, args)

\* getAllKeysLocked; getDbWithKeyLock is the case of one key.
getAllKeysLocked(args, m) == LET q == LockSequence(args) IN [i \in 1..Len(q) |-> KeyLock(q[i], m)]

\* getDb on one store: flush and the like take it in X, masterPsync in S.
getDb(st, m) == <<StoreLock(st, m, IF m = "X" THEN "short" ELSE "long")>>

\* ChunkMigrateSender: getDb in IS, then lockChunks from small to big.
lockChunks(st, chs) == getDb(st, "IS") \o [i \in 1..Len(chs) |-> ChunkLock(chs[i], "X", "short")]

\* GCManager::deleteSlots waits as long as AquireChunkLock does by default.
deleteSlots(st, chs) == getDb(st, "IX") \o [i \in 1..Len(chs) |-> ChunkLock(chs[i], "X", "long")]

\* The pause before a manual failover; the code goes on without a chunk for which
\* it has waited too long, here the session gives up.
clusterLockMySlots(chs) == [i \in 1..Len(chs) |-> ChunkLock(chs[i], "S", "short")]

\* What the code locks is made of these.
Chains ==
  {StoreLock(st, m, t) : st \in Stores, m \in Modes, t \in {"short", "long"}}
  \cup {ChunkLock(ch, m, t) : ch \in Chunks, m \in Modes, t \in {"short", "long"}}
  \cup {KeyLock(k, m) : k \in Keys, m \in Modes}

ASSUME Commands ==
  /\ MaxChain \in Nat
  /\ \A s \in Sessions : \A p \in Work[s] :
       Len(p) \in 1..MaxChain /\ \A i \in 1..Len(p) : p[i] \in Chains

-----------------------------------------------------------------------------
\* The lock object of level v of chain c.
Object(s, c, v) == <<s, c, v>>
Obj(s) == Object(s, chain[s], level[s])
Now(s) == plan[s][chain[s]][level[s]]

SessInit ==
  /\ Init
  /\ pc = [s \in Sessions |-> "idle"]
  /\ plan = [s \in Sessions |-> <<>>]
  /\ chain = [s \in Sessions |-> 1] /\ level = [s \in Sessions |-> 1]
  /\ keylockmap = [s \in Sessions |-> [k \in Keys |-> NoMode]]

Start(s) ==
  /\ pc[s] = "idle"
  /\ \E p \in Work[s] : plan' = [plan EXCEPT ![s] = p]
  /\ pc' = [pc EXCEPT ![s] = "lock"]
  /\ chain' = [chain EXCEPT ![s] = 1] /\ level' = [level EXCEPT ![s] = 1]
  /\ UNCHANGED <<vars, keylockmap>>

\* The key at the end of the current chain, if it is the chain of a key.
IsKeyChain(s) == Len(plan[s][chain[s]]) = 3
KeyOf(s) == plan[s][chain[s]][3].target

\* Mutant: a session asks for a key again though it has locked it.
LockedByMeNever(s) == FALSE

isLockedByMe(s) == level[s] = 1 /\ IsKeyChain(s) /\ keylockmap[s][KeyOf(s)] # NoMode

\* The next chain, or the command has all its locks.
NextChain(s) ==
  /\ chain' = [chain EXCEPT ![s] = @ + 1]
  /\ level' = [level EXCEPT ![s] = 1]
  /\ pc' = [pc EXCEPT ![s] = IF chain[s] = Len(plan[s]) THEN "run" ELSE "lock"]

\* AquireKeyLock returns no lock.
AlreadyLocked(s) ==
  /\ pc[s] = "lock" /\ isLockedByMe(s)
  /\ NextChain(s)
  /\ UNCHANGED <<vars, plan, keylockmap>>

\* MGLock::lock has returned OK: the next level, or the chain is complete and
\* setKeylock notes a key.
Proceed(s) ==
  /\ IF level[s] < Len(plan[s][chain[s]])
     THEN /\ level' = [level EXCEPT ![s] = @ + 1]
          /\ pc' = [pc EXCEPT ![s] = "lock"]
          /\ UNCHANGED chain
     ELSE NextChain(s)
  /\ keylockmap' = IF level[s] = 3 THEN [keylockmap EXCEPT ![s][Now(s).target] = Now(s).mode] ELSE keylockmap
  /\ UNCHANGED plan

Acquire(s) ==
  /\ pc[s] = "lock" /\ ~isLockedByMe(s)
  /\ LockGranted(Obj(s), Now(s).target, Now(s).mode)
  /\ Proceed(s)

Wait(s) ==
  /\ pc[s] = "lock" /\ ~isLockedByMe(s)
  /\ LockQueued(Obj(s), Now(s).target, Now(s).mode)
  /\ pc' = [pc EXCEPT ![s] = "wait"]
  /\ UNCHANGED <<plan, chain, level, keylockmap>>

Woken(s) == pc[s] = "wait" /\ WakeUp(Obj(s)) /\ Proceed(s)

\* Mutant: the key is noted though the wait for it timed out.
GiveUpProceeds(s) ==
  /\ pc[s] = "wait" /\ Timeout(Obj(s))
  /\ IF level[s] = 3 THEN Proceed(s)
     ELSE pc' = [pc EXCEPT ![s] = "free"] /\ UNCHANGED <<plan, chain, level, keylockmap>>

\* LOCKRES_TIMEOUT: the command fails and what it has is released.
GiveUp(s) ==
  /\ pc[s] = "wait" /\ Timeout(Obj(s))
  /\ pc' = [pc EXCEPT ![s] = "free"]
  /\ UNCHANGED <<plan, chain, level, keylockmap>>

CommandEnds(s) ==
  /\ pc[s] = "run"
  /\ pc' = [pc EXCEPT ![s] = "free"]
  /\ UNCHANGED <<vars, plan, chain, level, keylockmap>>

\* The objects of chain c of s that are not destroyed yet.
Held(s, c) == {v \in 1..3 : caller[Object(s, c, v)] # "idle"}

\* ~ILock: the lock, then its parent.  The order of the chains is left open, it
\* is that of the containers that own them.
Release(s) ==
  /\ pc[s] = "free"
  /\ \E c \in 1..MaxChain : \E v \in Held(s, c) :
       /\ \A w \in Held(s, c) : w <= v
       /\ keylockmap' = IF v = 3 /\ caller[Object(s, c, v)] = "locked"
                        THEN [keylockmap EXCEPT ![s][target[Object(s, c, v)]] = NoMode] ELSE keylockmap
       /\ Unlock(Object(s, c, v))
  /\ UNCHANGED <<pc, plan, chain, level>>

AllReleased(s) ==
  /\ pc[s] = "free" /\ \A c \in 1..MaxChain : Held(s, c) = {}
  /\ pc' = [pc EXCEPT ![s] = "idle"]
  /\ plan' = [plan EXCEPT ![s] = <<>>]
  /\ chain' = [chain EXCEPT ![s] = 1] /\ level' = [level EXCEPT ![s] = 1]
  /\ UNCHANGED <<vars, keylockmap>>

SessStep(s) == Acquire(s) \/ Wait(s) \/ AlreadyLocked(s) \/ Woken(s) \/ CommandEnds(s) \/ Release(s) \/ AllReleased(s)

SessNext == \E s \in Sessions : Start(s) \/ SessStep(s) \/ GiveUp(s)

SessSpec == SessInit /\ [][SessNext]_allVars

\* A store or a chunk as a whole: a wait that holds up everybody behind it.
WaitsForWhole(s) == pc[s] = "wait" /\ Now(s).mode \in {"S", "X"} /\ Now(s).target \notin Keys

\* Threads run, and the waits for a whole store or chunk time out.  The waits of
\* key commands are not assumed to end by themselves.
SessFairSpec ==
  SessSpec /\ \A s \in Sessions : WF_allVars(SessStep(s) \/ (WaitsForWhole(s) /\ GiveUp(s)))

-----------------------------------------------------------------------------
(* Properties.                                                               *)

\* Every variable of the sessions has its type, and a session that locks is at
\* a lock of its command.
SessTypeOK ==
  /\ pc \in [Sessions -> {"idle", "lock", "wait", "run", "free"}]
  /\ chain \in [Sessions -> 1..MaxChain + 1] /\ level \in [Sessions -> 1..3]
  /\ keylockmap \in [Sessions -> [Keys -> Modes \cup {NoMode}]]
  /\ \A s \in Sessions : pc[s] \in {"lock", "wait"} =>
       chain[s] <= Len(plan[s]) /\ level[s] <= Len(plan[s][chain[s]])

\* Two sessions that have noted a key (what commands rely on when they read and
\* write it) have it in compatible modes.
KeysExclusive ==
  \A s, u \in Sessions, k \in Keys :
    s # u /\ keylockmap[s][k] # NoMode /\ keylockmap[u][k] # NoMode
      => ~isConflict({keylockmap[s][k]}, keylockmap[u][k])

\* A session that has a store or a chunk in X has every key below it to itself,
\* and one that has it in S meets no writer below it: the intention modes of the
\* chains carry the conflict upwards (flush, the hand-over of a slot, the
\* collector and the pause before a failover rely on it).
Above(k) == {chunkOf[k], storeOf[chunkOf[k]]}
CoversKeysBelow ==
  \A l \in Locks : caller[l] = "locked" /\ mode[l] \in {"S", "X"} =>
    \A u \in Sessions \ {l[1]}, k \in Keys :
      target[l] \in Above(k) /\ keylockmap[u][k] # NoMode
        => mode[l] = "S" /\ keylockmap[u][k] \in {"IS", "S"}

\* The sessions that keep s waiting: they run in a mode that conflicts, or are
\* queued before it.
Blockers(s) ==
  LET c == ctx[Now(s).target]
      p == CHOOSE i \in 1..Len(c.pending) : c.pending[i] = Obj(s)
  IN {l[1] : l \in {l \in c.running : isConflict({mode[l]}, Now(s).mode)} \cup FirstWaiters(c, p - 1)}

Blocked(s) == pc[s] = "wait" /\ res[Obj(s)] = "WAIT"

\* Sessions that wait for one another for good.
Deadlock(D) == D # {} /\ \A s \in D : Blocked(s) /\ Blockers(s) \cap D # {}

\* Sessions that wait for one another include one that waits for a whole store or
\* chunk: the order in which keys are locked leaves no deadlock among commands.
DeadlockHasWhole == \A D \in SUBSET Sessions : Deadlock(D) => \E s \in D : WaitsForWhole(s)

\* Every command ends, with its locks or with a time-out.
EveryCommandEnds == \A s \in Sessions : pc[s] # "idle" ~> pc[s] = "idle"
=============================================================================

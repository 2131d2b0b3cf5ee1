------------------------------- MODULE MGLock -------------------------------
(***************************************************************************)
(* The multi-granularity lock manager (lock/mgl/mgl.cpp, mgl_mgr.cpp).     *)
(*                                                                         *)
(* A target ("store_3", "chunk_17", "key_foo") has a scheduling context    *)
(* LockSchedCtx while some MGLock object runs or waits on it.  Every call  *)
(* of MGLockMgr::lock and unlock runs under the mutex of the target's      *)
(* shard, so each is one step; between two such steps the thread that owns *)
(* the object sleeps in waitLock, which can time out.                      *)
(*                                                                         *)
(* _runningList is a set here (its order is used only by toString),        *)
(* _pendingList is a sequence, the mode bit masks are sets of modes.       *)
(***************************************************************************)
EXTENDS Integers, Sequences, FiniteSets

CONSTANTS
  Locks,     \* MGLock objects; each is used by one thread at a time
  Targets    \* names of things that can be locked

ASSUME FiniteLocks == IsFiniteSet(Locks)

VARIABLES
  mode,      \* MGLock::_mode
  target,    \* MGLock::_target
  res,       \* MGLock::_res
  caller,    \* where the owning thread is in MGLock::lock / unlock
  shardMap,  \* the targets that have an entry in LockShard::map
  ctx        \* the LockSchedCtx of each target

vars == <<mode, target, res, caller, shardMap, ctx>>

Modes == {"IS", "IX", "S", "X"}
NoMode == "NONE"
NoTarget == "NOTARGET"
LockRes == {"OK", "WAIT", "UNINITED"}

\* "waiting": inside waitLock;  "locked": lock() returned LOCKRES_OK;
\* "timedout": lock() returned LOCKRES_TIMEOUT and unlock() is not called yet.
Callers == {"idle", "waiting", "locked", "timedout"}

ASSUME TargetsNamed == NoTarget \notin Targets

conflictTable ==
  [m \in Modes |-> CASE m = "IS" -> {"X"}
                     [] m = "IX" -> {"S", "X"}
                     [] m = "S"  -> {"IX", "X"}
                     [] m = "X"  -> Modes]

isConflict(modes, m) == conflictTable[m] \cap modes # {}

LockSchedCtx ==
  [running: SUBSET Locks, pending: Seq(Locks),
   runningModes: SUBSET Modes, pendingModes: SUBSET Modes,
   runningRefCnt: [Modes -> Nat], pendingRefCnt: [Modes -> Nat]]

NewCtx ==
  [running |-> {}, pending |-> <<>>,
   runningModes |-> {}, pendingModes |-> {},
   runningRefCnt |-> [m \in Modes |-> 0],
   pendingRefCnt |-> [m \in Modes |-> 0]]

-----------------------------------------------------------------------------
(* The reference counters of LockSchedCtx: the bit of a mode is set when   *)
(* its counter becomes 1 and cleared when it becomes 0.                    *)

incrPendingRef(c, m) ==
  [c EXCEPT !.pendingRefCnt[m] = @ + 1,
            !.pendingModes = IF c.pendingRefCnt[m] + 1 = 1 THEN @ \cup {m} ELSE @]

decPendingRef(c, m) ==
  [c EXCEPT !.pendingRefCnt[m] = @ - 1,
            !.pendingModes = IF c.pendingRefCnt[m] - 1 = 0 THEN @ \ {m} ELSE @]

incrRunningRef(c, m) ==
  [c EXCEPT !.runningRefCnt[m] = @ + 1,
            !.runningModes = IF c.runningRefCnt[m] + 1 = 1 THEN @ \cup {m} ELSE @]

decRunningRef(c, m) ==
  [c EXCEPT !.runningRefCnt[m] = @ - 1,
            !.runningModes = IF c.runningRefCnt[m] - 1 = 0 THEN @ \ {m} ELSE @]

-----------------------------------------------------------------------------
(* Moving waiters to the running set.                                      *)

FirstWaiters(c, n) == {c.pending[i] : i \in 1..n}
Waiters(c) == FirstWaiters(c, Len(c.pending))

\* Slip: the loop forgets to count in the waiters it has just granted.
CanRun_StaleModes(c, i) == ~isConflict(c.runningModes, mode[c.pending[i]])

\* The i-th waiter is compatible with everything that runs once the waiters
\* before it have been granted.
CanRun(c, i) ==
  ~isConflict(c.runningModes \cup {mode[l] : l \in FirstWaiters(c, i - 1)},
              mode[c.pending[i]])

\* The loop grants from the front and breaks at the first conflict.
NumGranted(c) ==
  CHOOSE n \in 0..Len(c.pending) :
    \A i \in 1..Len(c.pending) : i <= n <=> \A j \in 1..i : CanRun(c, j)

\* How many of the locks in L ask for mode m.
Asking(L, m) == Cardinality({l \in L : mode[l] = m})

Schedule(c, n) ==
  LET granted == FirstWaiters(c, n)
      pcnt == [m \in Modes |-> c.pendingRefCnt[m] - Asking(granted, m)]
  IN  [running       |-> c.running \cup granted,
       pending       |-> SubSeq(c.pending, n + 1, Len(c.pending)),
       runningModes  |-> c.runningModes \cup {mode[l] : l \in granted},
       pendingModes  |-> {m \in c.pendingModes : pcnt[m] # 0},
       runningRefCnt |-> [m \in Modes |-> c.runningRefCnt[m] + Asking(granted, m)],
       pendingRefCnt |-> pcnt]

schedPendingLocks(c) == Schedule(c, NumGranted(c))

\* std::list::erase of the position MGLock::_resIter remembers.
Erase(s, l) ==
  LET p == CHOOSE i \in 1..Len(s) : s[i] = l
  IN  [i \in 1..(Len(s) - 1) |-> IF i < p THEN s[i] ELSE s[i + 1]]

\* Slip: a release does not look at the pending list.
UnlockRunning_NoSchedule(c, l) ==
  decRunningRef([c EXCEPT !.running = @ \ {l}], mode[l])

\* LockSchedCtx::unlock, the running and the waiting case.
UnlockRunning(c, l) ==
  LET d == decRunningRef([c EXCEPT !.running = @ \ {l}], mode[l])
  IN  IF d.runningModes # {} THEN d ELSE schedPendingLocks(d)

UnlockPending(c, l) ==
  schedPendingLocks(decPendingRef([c EXCEPT !.pending = Erase(@, l)], mode[l]))

-----------------------------------------------------------------------------
Init ==
  /\ mode = [l \in Locks |-> NoMode]
  /\ target = [l \in Locks |-> NoTarget]
  /\ res = [l \in Locks |-> "UNINITED"]
  /\ caller = [l \in Locks |-> "idle"]
  /\ shardMap = {}
  /\ ctx = [t \in Targets |-> NewCtx]

\* MGLockMgr::lock looks the target up and creates its context if there is none.
CtxOf(t) == IF t \in shardMap THEN ctx[t] ELSE NewCtx

\* Slip: a compatible request overtakes the waiters.
MustQueue_Overtake(t, m) == isConflict(CtxOf(t).runningModes, m)

MustQueue(t, m) ==
  isConflict(CtxOf(t).runningModes, m) \/ Len(CtxOf(t).pending) >= 1

StartLock(l, t, m) ==
  /\ caller[l] = "idle"
  /\ mode' = [mode EXCEPT ![l] = m]
  /\ target' = [target EXCEPT ![l] = t]
  /\ shardMap' = shardMap \cup {t}

\* MGLock::lock that is granted at once.
LockGranted(l, t, m) ==
  /\ StartLock(l, t, m)
  /\ ~MustQueue(t, m)
  /\ ctx' = [ctx EXCEPT ![t] =
               incrRunningRef([CtxOf(t) EXCEPT !.running = @ \cup {l}], m)]
  /\ res' = [res EXCEPT ![l] = "OK"]
  /\ caller' = [caller EXCEPT ![l] = "locked"]

\* MGLock::lock that has to wait: the thread enters waitLock.
LockQueued(l, t, m) ==
  /\ StartLock(l, t, m)
  /\ MustQueue(t, m)
  /\ ctx' = [ctx EXCEPT ![t] =
               incrPendingRef([CtxOf(t) EXCEPT !.pending = Append(@, l)], m)]
  /\ res' = [res EXCEPT ![l] = "WAIT"]
  /\ caller' = [caller EXCEPT ![l] = "waiting"]

\* Slip: a grant is announced only when nobody is left waiting.
WakeUp_LastOnly(l) ==
  /\ caller[l] = "waiting"
  /\ res[l] = "OK"
  /\ ctx[target[l]].pending = <<>>
  /\ caller' = [caller EXCEPT ![l] = "locked"]
  /\ UNCHANGED <<mode, target, res, shardMap, ctx>>

\* The predicate of wait_for holds: lock() returns LOCKRES_OK.
WakeUp(l) ==
  /\ caller[l] = "waiting"
  /\ res[l] = "OK"
  /\ caller' = [caller EXCEPT ![l] = "locked"]
  /\ UNCHANGED <<mode, target, res, shardMap, ctx>>

\* Slip: a thread that times out goes away without unlocking.
Timeout_Forgets(l) ==
  /\ caller[l] = "waiting"
  /\ res[l] # "OK"
  /\ caller' = [caller EXCEPT ![l] = "idle"]
  /\ res' = [res EXCEPT ![l] = "UNINITED"]
  /\ UNCHANGED <<mode, target, shardMap, ctx>>

\* wait_for gives up while the predicate is false: lock() returns
\* LOCKRES_TIMEOUT and leaves the object in _pendingList.
Timeout(l) ==
  /\ caller[l] = "waiting"
  /\ res[l] # "OK"
  /\ caller' = [caller EXCEPT ![l] = "timedout"]
  /\ UNCHANGED <<mode, target, res, shardMap, ctx>>

\* Slip: the entry is erased although a lock still runs on the target.
EntriesAfter_NobodyWaits(t, c) ==
  IF c.pending = <<>> THEN shardMap \ {t} ELSE shardMap

\* MGLockMgr::unlock erases the context once both its lists are empty.
EntriesAfter(t, c) ==
  IF c.pending = <<>> /\ c.running = {} THEN shardMap \ {t} ELSE shardMap

\* MGLock::unlock and MGLockMgr::unlock, then the object is destroyed.  A lock
\* that timed out may have been granted in the meantime (res[l] = "OK").
Unlock(l) ==
  /\ caller[l] \in {"locked", "timedout"}
  /\ \E c \in {IF res[l] = "OK" THEN UnlockRunning(ctx[target[l]], l)
                                ELSE UnlockPending(ctx[target[l]], l)} :
       /\ ctx' = [ctx EXCEPT ![target[l]] = c]
       /\ shardMap' = EntriesAfter(target[l], c)
       /\ res' = [x \in Locks |-> IF x = l THEN "UNINITED"
                                  ELSE IF x \in c.running THEN "OK" ELSE res[x]]
  /\ mode' = [mode EXCEPT ![l] = NoMode]
  /\ target' = [target EXCEPT ![l] = NoTarget]
  /\ caller' = [caller EXCEPT ![l] = "idle"]

Next ==
  \E l \in Locks :
    \/ \E t \in Targets, m \in Modes : LockGranted(l, t, m) \/ LockQueued(l, t, m)
    \/ WakeUp(l)
    \/ Timeout(l)
    \/ Unlock(l)

Spec == Init /\ [][Next]_vars

-----------------------------------------------------------------------------
(* Properties                                                              *)

\* Every variable has its type.
TypeOK ==
  /\ mode \in [Locks -> Modes \cup {NoMode}]
  /\ target \in [Locks -> Targets \cup {NoTarget}]
  /\ res \in [Locks -> LockRes]
  /\ caller \in [Locks -> Callers]
  /\ shardMap \in SUBSET Targets
  /\ ctx \in [Targets -> LockSchedCtx]

\* Two locks that run on one target at the same time have compatible modes
\* (what every user of MGLock::lock relies on when it gets LOCKRES_OK): grants
\* at once, grants from the pending list and late grants to a lock whose owner
\* has timed out are all covered.
Compatible ==
  \A t \in Targets : \A a, b \in ctx[t].running :
    a # b => ~isConflict({mode[a]}, mode[b])

\* A thread that was told LOCKRES_OK is in the running list of its target until
\* it unlocks; a thread inside waitLock is in exactly one list and its result
\* says which, so that it never sleeps on a lock it holds nor is forgotten.
ResultMatchesLists ==
  \A l \in Locks :
    /\ caller[l] = "idle" <=> res[l] = "UNINITED"
    /\ caller[l] = "locked" => res[l] = "OK"
    /\ \A t \in Targets :
         /\ l \in ctx[t].running <=> res[l] = "OK" /\ target[l] = t
         /\ l \in Waiters(ctx[t]) <=> res[l] = "WAIT" /\ target[l] = t
         /\ \A i, j \in 1..Len(ctx[t].pending) :
              ctx[t].pending[i] = ctx[t].pending[j] => i = j

\* The counters and bit masks isConflict reads say exactly what is in the lists
\* (the INVARIANT_Ds of incr/decRunningRef, incr/decPendingRef and unlock).
CountersMatchLists ==
  \A t \in Targets : \A m \in Modes :
    LET c == ctx[t]
    IN  /\ c.runningRefCnt[m] = Asking(c.running, m)
        /\ c.pendingRefCnt[m] = Asking(Waiters(c), m)
        /\ m \in c.runningModes <=> c.runningRefCnt[m] > 0
        /\ m \in c.pendingModes <=> c.pendingRefCnt[m] > 0

\* Nobody waits on a target on which nothing runs: whoever could have woken the
\* head of _pendingList has gone, so it would sleep until its timeout.
NoStrandedWaiter ==
  \A t \in Targets : ctx[t].running = {} => ctx[t].pending = <<>>

\* A target has an entry in its shard's map exactly while some lock runs or waits
\* on it: MGLockMgr::unlock finds the entry (INVARIANT(iter != shard.map.end()))
\* and the map does not keep a context for every key ever locked.
MapEntryWhileUsed ==
  \A t \in Targets : t \in shardMap <=> \E l \in Locks : target[l] = t

\* "First come first lock": a step that lets a lock run leaves nobody waiting on
\* that target who was there before it.
FirstComeFirstLock ==
  [][\A t \in Targets : \A l \in ctx'[t].running \ ctx[t].running :
       \A i \in 1..Len(ctx[t].pending) :
         ctx[t].pending[i] \in Waiters(ctx'[t]) => l \in FirstWaiters(ctx[t], i - 1)]_vars
=============================================================================

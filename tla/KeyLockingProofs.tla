-------------------------- MODULE KeyLockingProofs --------------------------
(***************************************************************************)
(* Proofs about sessions, for any number of sessions, stores, chunks and   *)
(* keys and any commands.  Every step of a session is a step of the lock   *)
(* manager or leaves it alone, so what MGLockProofs shows of MGLock holds  *)
(* below the sessions; exclusion of keys and of whole chunks and stores    *)
(* follows from it.                                                        *)
(***************************************************************************)
EXTENDS KeyLocking, MGLockProofs

-----------------------------------------------------------------------------
(* The inductive invariant                                                 *)

\* Lock object l is held as step x of a chain says.
HeldAs(l, x) == caller[l] = "locked" /\ target[l] = x.target /\ mode[l] = x.mode

Typed ==
  /\ mode \in [Locks -> Modes \cup {NoMode}]
  /\ target \in [Locks -> Targets \cup {NoTarget}]
  /\ caller \in [Locks -> Callers]
  /\ pc \in [Sessions -> {"idle", "lock", "wait", "run", "free"}]
  /\ chain \in [Sessions -> 1..MaxChain + 1] /\ level \in [Sessions -> 1..3]
  /\ keylockmap \in [Sessions -> [Keys -> Modes \cup {NoMode}]]
  /\ DOMAIN plan = Sessions

\* A session that locks is at some step of a command; it has the steps before it
\* in the same chain.
AtStep(s) ==
  pc[s] \in {"lock", "wait"} =>
    /\ plan[s] \in Work[s]
    /\ chain[s] \in 1..Len(plan[s])
    /\ level[s] \in 1..Len(plan[s][chain[s]])
    /\ \A v \in 1..(level[s] - 1) : HeldAs(Object(s, chain[s], v), plan[s][chain[s]][v])

Waiting(s) ==
  pc[s] = "wait" =>
    /\ target[Obj(s)] = Now(s).target /\ mode[Obj(s)] = Now(s).mode

\* A chain is taken from above and released from below.
FromAbove(s) ==
  \A c \in 1..MaxChain : \A v, w \in 1..3 :
    w < v /\ caller[Object(s, c, v)] # "idle" => caller[Object(s, c, w)] = "locked"

\* A key that is noted is held by a chain.
ChainHeld(s, c, k, m) ==
  /\ HeldAs(Object(s, c, 1), Step(storeOf[chunkOf[k]], getParentMode(m), "long"))
  /\ HeldAs(Object(s, c, 2), Step(chunkOf[k], getParentMode(m), "long"))
  /\ HeldAs(Object(s, c, 3), Step(k, m, "long"))

Noted(s) ==
  \A k \in Keys : keylockmap[s][k] # NoMode =>
    \E c \in 1..MaxChain : ChainHeld(s, c, k, keylockmap[s][k])

SInv ==
  /\ Typed
  /\ \A s \in Sessions : AtStep(s) /\ Waiting(s) /\ FromAbove(s) /\ Noted(s)

-----------------------------------------------------------------------------
(* Chains                                                                  *)

\* A chain has one to three steps; one of three ends in a key, below its chunk
\* and its store in the parent mode (the constructors of KeyLock and ChunkLock).
LEMMA ChainFacts ==
  ASSUME NEW q \in Chains
  PROVE  /\ Len(q) \in 1..3
         /\ \A v \in 1..Len(q) : q[v].target \in Targets /\ q[v].mode \in Modes
         /\ Len(q) = 3 =>
              /\ q[3].target \in Keys
              /\ q[2].target = chunkOf[q[3].target] /\ q[2].mode = getParentMode(q[3].mode)
              /\ q[1].target = storeOf[chunkOf[q[3].target]] /\ q[1].mode = getParentMode(q[3].mode)
<1>1. \A m \in Modes : getParentMode(m) \in Modes
  BY Zenon DEF getParentMode, Modes
<1>2. CASE \E st \in Stores, m \in Modes, t \in {"short", "long"} : q = StoreLock(st, m, t)
  BY <1>2, Hierarchy DEF StoreLock, Step
<1>3. CASE \E ch \in Chunks, m \in Modes, t \in {"short", "long"} : q = ChunkLock(ch, m, t)
  <2>1. PICK ch \in Chunks, m \in Modes, t \in {"short", "long"} : q = ChunkLock(ch, m, t)
    BY Zenon, <1>3
  <2>2. Len(q) = 2 /\ q[1] = Step(storeOf[ch], getParentMode(m), t) /\ q[2] = Step(ch, m, t)
    BY Zenon, <2>1 DEF ChunkLock
  <2>3. storeOf[ch] \in Targets /\ ch \in Targets
    BY Zenon, Hierarchy
  <2> QED
    BY <1>1, <2>2, <2>3 DEF Step
<1>4. CASE \E k \in Keys, m \in Modes : q = KeyLock(k, m)
  <2>1. PICK k \in Keys, m \in Modes : q = KeyLock(k, m)
    BY Zenon, <1>4
  <2>2. /\ Len(q) = 3 /\ q[3] = Step(k, m, "long")
        /\ q[1] = Step(storeOf[chunkOf[k]], getParentMode(m), "long")
        /\ q[2] = Step(chunkOf[k], getParentMode(m), "long")
    BY Zenon, <2>1 DEF KeyLock
  <2>3. storeOf[chunkOf[k]] \in Targets /\ chunkOf[k] \in Targets /\ k \in Targets
    BY Zenon, Hierarchy
  <2>4. q[3].target = k /\ q[3].mode = m
    BY <2>2 DEF Step
  <2> QED
    BY <1>1, <2>2, <2>3, <2>4 DEF Step
<1> QED
  BY <1>2, <1>3, <1>4 DEF Chains

\* The steps of the commands are targets and modes of the lock manager.
LEMMA NowFacts ==
  ASSUME NEW s \in Sessions, Typed, AtStep(s), pc[s] \in {"lock", "wait"}
  PROVE  /\ chain[s] \in 1..MaxChain /\ Len(plan[s]) \in 1..MaxChain
         /\ plan[s][chain[s]] \in Chains
         /\ Obj(s) \in Locks
         /\ Now(s).target \in Targets /\ Now(s).mode \in Modes
<1>1. plan[s] \in Work[s] /\ chain[s] \in 1..Len(plan[s]) /\ level[s] \in 1..Len(plan[s][chain[s]])
  BY Zenon DEF AtStep
<1>2. Len(plan[s]) \in 1..MaxChain /\ plan[s][chain[s]] \in Chains
  BY Zenon, <1>1, Commands
<1>3. chain[s] \in 1..MaxChain
  BY <1>1, <1>2, Commands
<1>4. Len(plan[s][chain[s]]) \in 1..3
  BY Zenon, <1>2, ChainFacts
<1>5. level[s] \in 1..3
  BY Zenon DEF Typed
<1>6. Obj(s) \in Locks
  BY Zenon, <1>3, <1>5, SessionLocks DEF Obj, Object
<1> QED
  BY Zenon, <1>1, <1>2, <1>3, <1>6, ChainFacts DEF Now

\* What a step of one session leaves alone of another.
Untouched(u) ==
  /\ pc'[u] = pc[u] /\ plan'[u] = plan[u] /\ chain'[u] = chain[u] /\ level'[u] = level[u]
  /\ keylockmap'[u] = keylockmap[u]
  /\ \A c \in 1..MaxChain, v \in 1..3 :
       /\ caller'[Object(u, c, v)] = caller[Object(u, c, v)]
       /\ target'[Object(u, c, v)] = target[Object(u, c, v)]
       /\ mode'[Object(u, c, v)] = mode[Object(u, c, v)]

\* A session whose locks nobody touches keeps its part of the invariant.
LEMMA OtherSession ==
  ASSUME SInv, NEW u \in Sessions, Untouched(u)
  PROVE  (AtStep(u) /\ Waiting(u) /\ FromAbove(u) /\ Noted(u))'
<1>0. Typed /\ AtStep(u) /\ Waiting(u) /\ FromAbove(u) /\ Noted(u)
  BY Zenon DEF SInv
<1>1. AtStep(u)'
  <2> SUFFICES ASSUME pc'[u] \in {"lock", "wait"} PROVE AtStep(u)'
    BY Zenon DEF AtStep
  <2>1. pc[u] \in {"lock", "wait"}
    BY Zenon DEF Untouched
  <2>2. chain[u] \in 1..MaxChain /\ level[u] \in 1..3
    BY Zenon, <1>0, <2>1, NowFacts DEF Typed
  <2>3. \A v \in 1..(level[u] - 1) : v \in 1..3
    BY <2>2
  <2>4. ASSUME NEW v \in 1..(level[u] - 1)
        PROVE  HeldAs(Object(u, chain[u], v), plan[u][chain[u]][v])'
    <3>1. HeldAs(Object(u, chain[u], v), plan[u][chain[u]][v])
      BY Zenon, <1>0, <2>1 DEF AtStep
    <3>2. v \in 1..3
      BY Zenon, <2>3
    <3>3. /\ caller'[Object(u, chain[u], v)] = caller[Object(u, chain[u], v)]
          /\ target'[Object(u, chain[u], v)] = target[Object(u, chain[u], v)]
          /\ mode'[Object(u, chain[u], v)] = mode[Object(u, chain[u], v)]
      BY <2>2, <3>2, Zenon DEF Untouched
    <3>4. chain'[u] = chain[u] /\ plan'[u] = plan[u]
      BY Zenon DEF Untouched
    <3> QED
      BY Zenon, <3>1, <3>3, <3>4 DEF HeldAs
  <2> QED
    BY Zenon, <1>0, <2>1, <2>4 DEF AtStep, Untouched
<1>2. Waiting(u)'
  <2> SUFFICES ASSUME pc'[u] = "wait" PROVE Waiting(u)'
    BY Zenon DEF Waiting
  <2>1. pc[u] = "wait"
    BY Zenon DEF Untouched
  <2>2. chain[u] \in 1..MaxChain /\ level[u] \in 1..3
    BY Zenon, <1>0, <2>1, NowFacts DEF Typed
  <2> QED
    BY Zenon, <1>0, <2>1, <2>2 DEF Waiting, Obj, Now, Untouched
<1>3. FromAbove(u)'
  BY <1>0 DEF FromAbove, Untouched
<1>4. Noted(u)'
  <2> SUFFICES ASSUME NEW k \in Keys, keylockmap'[u][k] # NoMode
               PROVE  \E c \in 1..MaxChain : ChainHeld(u, c, k, keylockmap[u][k])'
    BY Zenon DEF Noted
  <2>1. PICK c \in 1..MaxChain : ChainHeld(u, c, k, keylockmap[u][k])
    BY Zenon, <1>0 DEF Noted, Untouched
  <2>2. ChainHeld(u, c, k, keylockmap[u][k])'
    BY SMTT(40), <2>1 DEF ChainHeld, HeldAs, Untouched
  <2> QED
    BY Zenon, <2>2
<1> QED
  BY Zenon, <1>1, <1>2, <1>3, <1>4

-----------------------------------------------------------------------------
(* Steps of one session                                                    *)

\* Lock objects are told apart by session, chain and level.
LEMMA ObjectFacts ==
  ASSUME NEW s, NEW c, NEW v, NEW u, NEW d, NEW w
  PROVE  Object(s, c, v) = Object(u, d, w) <=> s = u /\ c = d /\ v = w
BY Zenon DEF Object

\* The objects of a session are locks.
LEMMA ObjectType ==
  ASSUME NEW s \in Sessions, NEW c \in 1..MaxChain, NEW v \in 1..3
  PROVE  Object(s, c, v) \in Locks
BY Zenon, SessionLocks DEF Object

\* No lock object but l changes.
OnlyObject(l) ==
  \A x \in Locks : x # l => caller'[x] = caller[x] /\ target'[x] = target[x] /\ mode'[x] = mode[x]

\* No session but s changes.
OnlySession(s) ==
  \A u \in Sessions : u # s =>
    /\ pc'[u] = pc[u] /\ plan'[u] = plan[u] /\ chain'[u] = chain[u] /\ level'[u] = level[u]
    /\ keylockmap'[u] = keylockmap[u]

\* A step of s on one of its objects keeps the invariant of everybody else.
LEMMA OthersKeep ==
  ASSUME SInv, NEW s \in Sessions, OnlySession(s), NEW c, NEW v, OnlyObject(Object(s, c, v)),
         Typed', (AtStep(s) /\ Waiting(s) /\ FromAbove(s) /\ Noted(s))'
  PROVE  SInv'
<1>1. ASSUME NEW u \in Sessions, u # s
      PROVE  (AtStep(u) /\ Waiting(u) /\ FromAbove(u) /\ Noted(u))'
  <2>1. ASSUME NEW d \in 1..MaxChain, NEW w \in 1..3
        PROVE  /\ caller'[Object(u, d, w)] = caller[Object(u, d, w)]
               /\ target'[Object(u, d, w)] = target[Object(u, d, w)]
               /\ mode'[Object(u, d, w)] = mode[Object(u, d, w)]
    <3>1. Object(u, d, w) # Object(s, c, v)
      BY <1>1, ObjectFacts
    <3>2. Object(u, d, w) \in Locks
      BY Zenon, ObjectType
    <3> QED
      BY Zenon, <3>1, <3>2 DEF OnlyObject
  <2>2. Untouched(u)
    BY Zenon, <1>1, <2>1 DEF Untouched, OnlySession
  <2> QED
    BY Zenon, <2>2, OtherSession
<1> QED
  BY Zenon, <1>1 DEF SInv

\* When the object that s works on changes, and s did not hold it, what s holds
\* and has noted stays.
LEMMA OwnKeep ==
  ASSUME SInv, NEW s \in Sessions, pc[s] \in {"lock", "wait"}, OnlyObject(Obj(s)),
         caller[Obj(s)] # "locked"
  PROVE  /\ FromAbove(s)'
         /\ \A k \in Keys : keylockmap[s][k] # NoMode =>
              \E c \in 1..MaxChain : ChainHeld(s, c, k, keylockmap[s][k]) /\
                \A v \in 1..3 : /\ caller'[Object(s, c, v)] = caller[Object(s, c, v)]
                                /\ target'[Object(s, c, v)] = target[Object(s, c, v)]
                                /\ mode'[Object(s, c, v)] = mode[Object(s, c, v)]
<1>0. Typed /\ AtStep(s) /\ Waiting(s) /\ FromAbove(s) /\ Noted(s)
  BY Zenon DEF SInv
<1>1. ASSUME NEW c \in 1..MaxChain, NEW v \in 1..3, caller[Object(s, c, v)] = "locked"
      PROVE  /\ caller'[Object(s, c, v)] = caller[Object(s, c, v)]
             /\ target'[Object(s, c, v)] = target[Object(s, c, v)]
             /\ mode'[Object(s, c, v)] = mode[Object(s, c, v)]
  BY Zenon, <1>1, ObjectType DEF OnlyObject
<1>2. ASSUME NEW c \in 1..MaxChain, NEW v \in 1..3, NEW w \in 1..3, w < v,
             caller'[Object(s, c, v)] # "idle"
      PROVE  caller'[Object(s, c, w)] = "locked"
  <2>1. CASE Object(s, c, v) = Obj(s)
    <3>1. c = chain[s] /\ v = level[s]
      BY <2>1, ObjectFacts DEF Obj
    <3>2. w \in 1..(level[s] - 1)
      BY <1>2, <3>1
    <3>3. caller[Object(s, c, w)] = "locked"
      BY Zenon, <1>0, <3>1, <3>2 DEF AtStep, HeldAs
    <3> QED
      BY Zenon, <1>1, <3>3
  <2>2. CASE Object(s, c, v) # Obj(s)
    <3>1. caller[Object(s, c, v)] # "idle"
      BY Zenon, <1>2, <2>2, ObjectType DEF OnlyObject
    <3>2. caller[Object(s, c, w)] = "locked"
      BY Zenon, <1>0, <1>2, <3>1 DEF FromAbove
    <3> QED
      BY Zenon, <1>1, <3>2
  <2> QED
    BY Zenon, <2>1, <2>2
<1>3. ASSUME NEW k \in Keys, keylockmap[s][k] # NoMode
      PROVE  \E c \in 1..MaxChain : ChainHeld(s, c, k, keylockmap[s][k]) /\
                \A v \in 1..3 : /\ caller'[Object(s, c, v)] = caller[Object(s, c, v)]
                                /\ target'[Object(s, c, v)] = target[Object(s, c, v)]
                                /\ mode'[Object(s, c, v)] = mode[Object(s, c, v)]
  <2>1. PICK c \in 1..MaxChain : ChainHeld(s, c, k, keylockmap[s][k])
    BY Zenon, <1>0, <1>3 DEF Noted
  <2>2. \A v \in 1..3 : caller[Object(s, c, v)] = "locked"
    BY SMTT(40), <2>1 DEF ChainHeld, HeldAs
  <2> QED
    BY Zenon, <1>1, <2>1, <2>2
<1> QED
  BY Zenon, <1>2, <1>3 DEF FromAbove

\* A chain that s holds and nobody touches is still held.
LEMMA ChainKept ==
  ASSUME NEW s \in Sessions, NEW c, NEW k \in Keys, ChainHeld(s, c, k, keylockmap[s][k]),
         keylockmap'[s][k] = keylockmap[s][k],
         \A v \in 1..3 : /\ caller'[Object(s, c, v)] = caller[Object(s, c, v)]
                         /\ target'[Object(s, c, v)] = target[Object(s, c, v)]
                         /\ mode'[Object(s, c, v)] = mode[Object(s, c, v)]
  PROVE  ChainHeld(s, c, k, keylockmap[s][k])'
BY SMTT(40) DEF ChainHeld, HeldAs, Step

\* What ChainHeld says of the next state, spelled out.
LEMMA ChainHeldNext ==
  ASSUME NEW s \in Sessions, NEW c, NEW k \in Keys,
         caller'[Object(s, c, 1)] = "locked", target'[Object(s, c, 1)] = storeOf[chunkOf[k]],
         mode'[Object(s, c, 1)] = getParentMode(keylockmap'[s][k]),
         caller'[Object(s, c, 2)] = "locked", target'[Object(s, c, 2)] = chunkOf[k],
         mode'[Object(s, c, 2)] = getParentMode(keylockmap'[s][k]),
         caller'[Object(s, c, 3)] = "locked", target'[Object(s, c, 3)] = k,
         mode'[Object(s, c, 3)] = keylockmap'[s][k]
  PROVE  ChainHeld(s, c, k, keylockmap[s][k])'
BY Zenon DEF ChainHeld, HeldAs, Step

\* After the last step of a chain s is at the first step of the next one, or runs
\* its command (the loops of getAllKeysLocked and lockChunks).
LEMMA NextChainAt ==
  ASSUME SInv, NEW s \in Sessions, pc[s] \in {"lock", "wait"}, NextChain(s), plan' = plan
  PROVE  /\ (AtStep(s) /\ Waiting(s))'
         /\ pc' \in [Sessions -> {"idle", "lock", "wait", "run", "free"}]
         /\ chain' \in [Sessions -> 1..MaxChain + 1] /\ level' \in [Sessions -> 1..3]
<1>0. Typed /\ AtStep(s)
  BY Zenon DEF SInv
<1>1. /\ plan[s] \in Work[s] /\ chain[s] \in 1..Len(plan[s])
      /\ chain[s] \in 1..MaxChain /\ Len(plan[s]) \in 1..MaxChain
  BY Zenon, <1>0, NowFacts DEF AtStep
<1>2. /\ pc' \in [Sessions -> {"idle", "lock", "wait", "run", "free"}]
      /\ level' \in [Sessions -> 1..3]
  BY <1>0 DEF NextChain, Typed
<1>3. chain[s] + 1 \in 1..MaxChain + 1
  BY <1>1, Commands
<1>4. chain' \in [Sessions -> 1..MaxChain + 1]
  BY Zenon, <1>0, <1>3 DEF NextChain, Typed
<1>5. chain'[s] = chain[s] + 1 /\ level'[s] = 1 /\ pc'[s] = IF chain[s] = Len(plan[s]) THEN "run" ELSE "lock"
  BY Zenon, <1>0 DEF NextChain, Typed
<1>6. ASSUME pc'[s] \in {"lock", "wait"}
      PROVE  /\ chain'[s] \in 1..Len(plan[s])
             /\ 1 \in 1..Len(plan[s][chain'[s]])
  <2>1. chain[s] # Len(plan[s])
    BY Zenon, <1>5, <1>6
  <2>2. chain[s] + 1 \in 1..Len(plan[s])
    BY <1>1, <2>1, Commands
  <2>3. plan[s][chain[s] + 1] \in Chains
    BY Zenon, <1>1, <2>2, Commands
  <2>4. Len(plan[s][chain[s] + 1]) \in 1..3
    BY Zenon, <2>3, ChainFacts
  <2>5. 1 \in 1..Len(plan[s][chain[s] + 1])
    <3>1. \A n \in 1..3 : 1 \in 1..n
      OBVIOUS
    <3> QED
      BY <2>4, <3>1, Zenon
  <2> QED
    BY Zenon, <1>5, <2>2, <2>5
<1>7. \A v \in 1..(level'[s] - 1) : FALSE
  BY <1>5
<1>8. AtStep(s)'
  BY Zenon, <1>1, <1>5, <1>6, <1>7 DEF AtStep
<1>9. Waiting(s)'
  BY Zenon, <1>5 DEF Waiting
<1> QED
  BY Zenon, <1>2, <1>4, <1>8, <1>9

\* MGLock::lock has returned OK, at once or after a wait: s holds one more step,
\* and a key at the end of its chain is noted.
LEMMA ProceedInv ==
  ASSUME SInv, NEW s \in Sessions, pc[s] \in {"lock", "wait"}, Proceed(s),
         caller[Obj(s)] # "locked", OnlyObject(Obj(s)),
         caller'[Obj(s)] = "locked", target'[Obj(s)] = Now(s).target, mode'[Obj(s)] = Now(s).mode,
         mode' \in [Locks -> Modes \cup {NoMode}], target' \in [Locks -> Targets \cup {NoTarget}],
         caller' \in [Locks -> Callers]
  PROVE  SInv'
<1> DEFINE c == chain[s]
           v == level[s]
           q == plan[s][c]
<1>0. Typed /\ AtStep(s) /\ Noted(s)
  BY Zenon DEF SInv
<1>1. /\ q \in Chains /\ c \in 1..MaxChain /\ v \in 1..Len(q) /\ v \in 1..3
      /\ Now(s) = q[v] /\ q[v].target \in Targets /\ q[v].mode \in Modes
      /\ Len(q) \in 1..3 /\ Obj(s) = Object(s, c, v)
  BY Zenon, <1>0, NowFacts, ChainFacts DEF AtStep, Typed, Now, Obj
<1>2. FromAbove(s)'
  BY Zenon, OwnKeep
<1>3. ASSUME NEW w \in 1..v
      PROVE  caller'[Object(s, c, w)] = "locked" /\ target'[Object(s, c, w)] = q[w].target
             /\ mode'[Object(s, c, w)] = q[w].mode
  <2>1. CASE w = v
    BY Zenon, <1>1, <2>1
  <2>2. CASE w # v
    <3>1. w \in 1..(v - 1) /\ w \in 1..3
      BY SMTT(40), <1>1, <2>2
    <3>2. HeldAs(Object(s, c, w), q[w])
      BY Zenon, <1>0, <3>1 DEF AtStep
    <3>3. Object(s, c, w) # Obj(s) /\ Object(s, c, w) \in Locks
      <4>1. Object(s, c, w) # Object(s, c, v)
        BY ONLY Zenon, <2>2 DEF Object
      <4>2. c \in 1..MaxChain /\ Obj(s) = Object(s, c, v)
        BY Zenon, <1>1
      <4>3. Object(s, c, w) \in Locks
        BY Zenon, <3>1, <4>2, ObjectType
      <4> QED
        BY Zenon, <4>1, <4>2, <4>3
    <3> QED
      BY Zenon, <3>2, <3>3 DEF OnlyObject, HeldAs
  <2> QED
    BY Zenon, <2>1, <2>2
<1>4. v = 3 => Len(q) = 3
  <2>1. \A n \in 1..3 : 3 \in 1..n => n = 3
    OBVIOUS
  <2> QED
    BY <1>1, <2>1, Zenon
<1>5. v = 3 => Now(s).target \in Keys
  BY Zenon, <1>1, <1>4, ChainFacts
<1>6. keylockmap' \in [Sessions -> [Keys -> Modes \cup {NoMode}]]
  <2>1. CASE v = 3
    <3>1. keylockmap' = [keylockmap EXCEPT ![s][Now(s).target] = Now(s).mode]
      BY Zenon, <2>1 DEF Proceed
    <3> QED
      BY Zenon, <1>0, <1>1, <1>5, <2>1, <3>1 DEF Typed
  <2>2. CASE v # 3
    BY Zenon, <1>0, <2>2 DEF Proceed, Typed
  <2> QED
    BY Zenon, <2>1, <2>2
<1>7. ASSUME NEW k \in Keys, keylockmap'[s][k] # NoMode
      PROVE  \E d \in 1..MaxChain : ChainHeld(s, d, k, keylockmap[s][k])'
  <2>1. CASE v = 3 /\ k = Now(s).target
    <3>1. keylockmap'[s][k] = q[3].mode
      BY Zenon, <1>0, <1>1, <2>1 DEF Proceed, Typed
    <3>2. /\ q[1].target = storeOf[chunkOf[k]] /\ q[2].target = chunkOf[k] /\ q[3].target = k
          /\ q[1].mode = getParentMode(q[3].mode) /\ q[2].mode = getParentMode(q[3].mode)
      BY Zenon, <1>1, <1>4, <2>1, ChainFacts
    <3>3. PICK d \in 1..MaxChain : d = c
      BY Zenon, <1>1
    <3>4. /\ caller'[Object(s, d, 1)] = "locked" /\ target'[Object(s, d, 1)] = q[1].target /\ mode'[Object(s, d, 1)] = q[1].mode
          /\ caller'[Object(s, d, 2)] = "locked" /\ target'[Object(s, d, 2)] = q[2].target /\ mode'[Object(s, d, 2)] = q[2].mode
          /\ caller'[Object(s, d, 3)] = "locked" /\ target'[Object(s, d, 3)] = q[3].target /\ mode'[Object(s, d, 3)] = q[3].mode
      BY SMTT(40), <1>3, <2>1, <3>3
    <3>5. ChainHeld(s, d, k, keylockmap[s][k])'
      BY Zenon, <3>1, <3>2, <3>4, ChainHeldNext
    <3> QED
      BY Zenon, <3>5
  <2>2. CASE ~(v = 3 /\ k = Now(s).target)
    <3>1. keylockmap'[s][k] = keylockmap[s][k]
      <4>1. CASE v # 3
        BY Zenon, <4>1 DEF Proceed
      <4>2. CASE v = 3
        BY Zenon, <1>0, <1>5, <2>2, <4>2 DEF Proceed, Typed
      <4> QED
        BY Zenon, <4>1, <4>2
    <3>2. PICK d \in 1..MaxChain : ChainHeld(s, d, k, keylockmap[s][k]) /\
            \A w \in 1..3 : /\ caller'[Object(s, d, w)] = caller[Object(s, d, w)]
                            /\ target'[Object(s, d, w)] = target[Object(s, d, w)]
                            /\ mode'[Object(s, d, w)] = mode[Object(s, d, w)]
      BY Zenon, <1>7, <3>1, OwnKeep
    <3>3. ChainHeld(s, d, k, keylockmap[s][k])'
      BY Zenon, <3>1, <3>2, ChainKept
    <3> QED
      BY Zenon, <3>3
  <2> QED
    BY Zenon, <2>1, <2>2
<1>8. Noted(s)'
  BY Zenon, <1>7 DEF Noted
<1>9. OnlySession(s)
  <2>1. \A u \in Sessions : u # s => keylockmap'[u] = keylockmap[u]
    BY Zenon, <1>0 DEF Proceed, Typed
  <2> QED
    BY Zenon, <1>0, <2>1 DEF Proceed, NextChain, Typed, OnlySession
<1>10. CASE v < Len(q)
  <2>1. /\ level' = [level EXCEPT ![s] = @ + 1] /\ chain' = chain /\ plan' = plan
        /\ pc' = [pc EXCEPT ![s] = "lock"]
    BY Zenon, <1>10 DEF Proceed
  <2>2. v + 1 \in 1..Len(q) /\ v + 1 \in 1..3
    <3>1. \A n, x \in 1..3 : x < n => x + 1 \in 1..n /\ x + 1 \in 1..3
      OBVIOUS
    <3> QED
      BY <1>1, <1>10, <3>1, Zenon
  <2>3. level' \in [Sessions -> 1..3] /\ level'[s] = v + 1
    BY Zenon, <1>0, <2>1, <2>2 DEF Typed
  <2>4. Typed'
    BY Zenon, <1>0, <1>6, <2>1, <2>3 DEF Typed
  <2>5. \A w \in 1..(level'[s] - 1) : HeldAs(Object(s, chain[s], w), plan[s][chain[s]][w])'
    <3>1. \A w \in 1..(level'[s] - 1) : w \in 1..v
      BY SMTT(40), <1>1, <2>3
    <3> QED
      BY Zenon, <1>3, <2>1, <3>1 DEF HeldAs
  <2>6. AtStep(s)'
    BY Zenon, <1>0, <2>1, <2>2, <2>3, <2>5 DEF AtStep
  <2>7. Waiting(s)'
    BY Zenon, <1>0, <2>1 DEF Waiting, Typed
  <2> QED
    BY Zenon, <1>1, <1>2, <1>8, <1>9, <2>4, <2>6, <2>7, OthersKeep
<1>11. CASE ~(v < Len(q))
  <2>1. NextChain(s) /\ plan' = plan
    BY Zenon, <1>11 DEF Proceed
  <2>2. Typed' /\ AtStep(s)' /\ Waiting(s)'
    BY Zenon, <1>0, <1>6, <2>1, NextChainAt DEF Typed
  <2> QED
    BY Zenon, <1>1, <1>2, <1>8, <1>9, <2>2, OthersKeep
<1> QED
  BY Zenon, <1>10, <1>11

-----------------------------------------------------------------------------
(* One lemma per action                                                    *)

\* A lock that is granted at once keeps the invariant.
LEMMA AcquireInv ==
  ASSUME SInv, NEW s \in Sessions, Acquire(s)
  PROVE  SInv'
<1>0. Typed /\ AtStep(s) /\ pc[s] = "lock"
  BY Zenon DEF SInv, Acquire
<1>1. Obj(s) \in Locks /\ Now(s).target \in Targets /\ Now(s).mode \in Modes
  BY Zenon, <1>0, NowFacts
<1>2. LockGranted(Obj(s), Now(s).target, Now(s).mode) /\ Proceed(s)
  BY Zenon DEF Acquire
<1>3. PICK l, t, m : l = Obj(s) /\ t = Now(s).target /\ m = Now(s).mode
  BY Zenon
<1>4. /\ caller[l] = "idle" /\ caller' = [caller EXCEPT ![l] = "locked"]
      /\ mode' = [mode EXCEPT ![l] = m] /\ target' = [target EXCEPT ![l] = t]
  BY Zenon, <1>2, <1>3 DEF LockGranted, StartLock
<1>5. /\ mode' \in [Locks -> Modes \cup {NoMode}] /\ target' \in [Locks -> Targets \cup {NoTarget}]
      /\ caller' \in [Locks -> Callers]
  BY Zenon, <1>0, <1>1, <1>3, <1>4 DEF Typed, Callers
<1>6. caller'[l] = "locked" /\ target'[l] = t /\ mode'[l] = m /\ OnlyObject(l)
  BY Zenon, <1>0, <1>1, <1>3, <1>4 DEF Typed, OnlyObject
<1> QED
  BY Zenon, <1>0, <1>2, <1>3, <1>4, <1>5, <1>6, ProceedInv

\* A lock that is granted after a wait keeps the invariant.
LEMMA WokenInv ==
  ASSUME SInv, NEW s \in Sessions, Woken(s)
  PROVE  SInv'
<1>0. Typed /\ AtStep(s) /\ Waiting(s) /\ pc[s] = "wait"
  BY Zenon DEF SInv, Woken
<1>1. Obj(s) \in Locks
  BY Zenon, <1>0, NowFacts
<1>2. WakeUp(Obj(s)) /\ Proceed(s)
  BY Zenon DEF Woken
<1>3. PICK l : l = Obj(s)
  BY Zenon
<1>4. /\ caller[l] = "waiting" /\ caller' = [caller EXCEPT ![l] = "locked"]
      /\ mode' = mode /\ target' = target
  BY Zenon, <1>2, <1>3 DEF WakeUp
<1>5. /\ mode' \in [Locks -> Modes \cup {NoMode}] /\ target' \in [Locks -> Targets \cup {NoTarget}]
      /\ caller' \in [Locks -> Callers]
  BY Zenon, <1>0, <1>1, <1>3, <1>4 DEF Typed, Callers
<1>6. caller'[l] = "locked" /\ target'[l] = Now(s).target /\ mode'[l] = Now(s).mode /\ OnlyObject(l)
  BY Zenon, <1>0, <1>1, <1>3, <1>4 DEF Typed, OnlyObject, Waiting
<1> QED
  BY Zenon, <1>0, <1>2, <1>3, <1>4, <1>5, <1>6, ProceedInv

\* A session that stays at its step, or gives up, keeps what it has noted.
LEMMA StayInv ==
  ASSUME SInv, NEW s \in Sessions, pc[s] \in {"lock", "wait"}, caller[Obj(s)] # "locked",
         OnlyObject(Obj(s)), OnlySession(s), Typed', (AtStep(s) /\ Waiting(s))', keylockmap' = keylockmap
  PROVE  SInv'
<1>1. FromAbove(s)'
  BY Zenon, OwnKeep
<1>2. Noted(s)'
  <2> SUFFICES ASSUME NEW k \in Keys, keylockmap'[s][k] # NoMode
               PROVE  \E d \in 1..MaxChain : ChainHeld(s, d, k, keylockmap[s][k])'
    BY Zenon DEF Noted
  <2>1. PICK d \in 1..MaxChain : ChainHeld(s, d, k, keylockmap[s][k]) /\
          \A w \in 1..3 : /\ caller'[Object(s, d, w)] = caller[Object(s, d, w)]
                          /\ target'[Object(s, d, w)] = target[Object(s, d, w)]
                          /\ mode'[Object(s, d, w)] = mode[Object(s, d, w)]
    BY Zenon, OwnKeep
  <2>2. ChainHeld(s, d, k, keylockmap[s][k])'
    BY Zenon, <2>1, ChainKept
  <2> QED
    BY Zenon, <2>2
<1>3. Obj(s) = Object(s, chain[s], level[s])
  BY Zenon DEF Obj
<1> QED
  BY Zenon, <1>1, <1>2, <1>3, OthersKeep

\* A lock that has to wait keeps the invariant.
LEMMA WaitInv ==
  ASSUME SInv, NEW s \in Sessions, Wait(s)
  PROVE  SInv'
<1>0. Typed /\ AtStep(s) /\ pc[s] = "lock"
  BY Zenon DEF SInv, Wait
<1>1. /\ Obj(s) \in Locks /\ Now(s).target \in Targets /\ Now(s).mode \in Modes
      /\ chain[s] \in 1..MaxChain /\ level[s] \in 1..3
  BY Zenon, <1>0, NowFacts DEF Typed
<1>2. LockQueued(Obj(s), Now(s).target, Now(s).mode) /\ pc' = [pc EXCEPT ![s] = "wait"]
      /\ plan' = plan /\ chain' = chain /\ level' = level /\ keylockmap' = keylockmap
  BY Zenon DEF Wait
<1>3. PICK l, t, m : l = Obj(s) /\ t = Now(s).target /\ m = Now(s).mode
  BY Zenon
<1>4. /\ caller[l] = "idle" /\ caller' = [caller EXCEPT ![l] = "waiting"]
      /\ mode' = [mode EXCEPT ![l] = m] /\ target' = [target EXCEPT ![l] = t]
  BY Zenon, <1>2, <1>3 DEF LockQueued, StartLock
<1>5. Typed'
  BY Zenon, <1>0, <1>1, <1>2, <1>3, <1>4 DEF Typed, Callers
<1>6. target'[l] = t /\ mode'[l] = m /\ OnlyObject(l)
  BY Zenon, <1>0, <1>1, <1>3, <1>4 DEF Typed, OnlyObject
<1>7. OnlySession(s)
  BY Zenon, <1>0, <1>2 DEF Typed, OnlySession
<1>8. Obj(s)' = l /\ Now(s)' = Now(s)
  BY Zenon, <1>2, <1>3 DEF Obj, Now
<1>9. Waiting(s)'
  BY Zenon, <1>3, <1>6, <1>8 DEF Waiting
<1>10. \A v \in 1..(level[s] - 1) : HeldAs(Object(s, chain[s], v), plan[s][chain[s]][v])'
  <2> SUFFICES ASSUME NEW v \in 1..(level[s] - 1)
               PROVE  HeldAs(Object(s, chain[s], v), plan[s][chain[s]][v])'
    BY Zenon
  <2>1. v \in 1..3 /\ v # level[s]
    BY <1>1
  <2>2. Object(s, chain[s], v) # l /\ Object(s, chain[s], v) \in Locks
    BY <1>1, <1>3, <2>1, ObjectFacts, ObjectType DEF Obj
  <2>3. HeldAs(Object(s, chain[s], v), plan[s][chain[s]][v])
    BY Zenon, <1>0 DEF AtStep
  <2> QED
    BY Zenon, <1>2, <1>6, <2>2, <2>3 DEF HeldAs, OnlyObject
<1>11. AtStep(s)'
  BY Zenon, <1>0, <1>2, <1>10 DEF AtStep
<1> QED
  BY Zenon, <1>0, <1>2, <1>3, <1>4, <1>5, <1>6, <1>7, <1>9, <1>11, StayInv

\* A wait that times out keeps the invariant.
LEMMA GiveUpInv ==
  ASSUME SInv, NEW s \in Sessions, GiveUp(s)
  PROVE  SInv'
<1>0. Typed /\ AtStep(s) /\ pc[s] = "wait"
  BY Zenon DEF SInv, GiveUp
<1>1. Obj(s) \in Locks
  BY Zenon, <1>0, NowFacts
<1>2. Timeout(Obj(s)) /\ pc' = [pc EXCEPT ![s] = "free"]
      /\ plan' = plan /\ chain' = chain /\ level' = level /\ keylockmap' = keylockmap
  BY Zenon DEF GiveUp
<1>3. PICK l : l = Obj(s)
  BY Zenon
<1>4. /\ caller[l] = "waiting" /\ caller' = [caller EXCEPT ![l] = "timedout"]
      /\ mode' = mode /\ target' = target
  BY Zenon, <1>2, <1>3 DEF Timeout
<1>5. Typed'
  BY Zenon, <1>0, <1>1, <1>2, <1>3, <1>4 DEF Typed, Callers
<1>6. OnlyObject(l) /\ OnlySession(s) /\ pc'[s] = "free"
  BY Zenon, <1>0, <1>1, <1>2, <1>3, <1>4 DEF Typed, OnlyObject, OnlySession
<1>7. AtStep(s)' /\ Waiting(s)'
  BY Zenon, <1>6 DEF AtStep, Waiting
<1> QED
  BY Zenon, <1>0, <1>2, <1>3, <1>4, <1>5, <1>6, <1>7, StayInv


-----------------------------------------------------------------------------
(* The steps that leave the lock manager alone                             *)

\* Where a session is may change without its locks.
LEMMA QuietInv ==
  ASSUME SInv, NEW s \in Sessions, UNCHANGED vars, keylockmap' = keylockmap, OnlySession(s),
         Typed', (AtStep(s) /\ Waiting(s))'
  PROVE  SInv'
<1>0. Typed /\ FromAbove(s) /\ Noted(s)
  BY Zenon DEF SInv
<1>1. caller' = caller /\ target' = target /\ mode' = mode
  BY Zenon DEF vars
<1>2. FromAbove(s)'
  BY Zenon, <1>0, <1>1 DEF FromAbove
<1>3. Noted(s)'
  <2> SUFFICES ASSUME NEW k \in Keys, keylockmap'[s][k] # NoMode
               PROVE  \E d \in 1..MaxChain : ChainHeld(s, d, k, keylockmap[s][k])'
    BY Zenon DEF Noted
  <2>1. PICK d \in 1..MaxChain : ChainHeld(s, d, k, keylockmap[s][k])
    BY Zenon, <1>0 DEF Noted
  <2>2. ChainHeld(s, d, k, keylockmap[s][k])'
    BY Zenon, <1>1, <2>1, ChainKept
  <2> QED
    BY Zenon, <2>2
<1>4. OnlyObject(Object(s, 1, 1))
  BY Zenon, <1>1 DEF OnlyObject
<1> QED
  BY Zenon, <1>2, <1>3, <1>4, OthersKeep

\* A command that starts is at the first step of its first chain.
LEMMA StartInv ==
  ASSUME SInv, NEW s \in Sessions, Start(s)
  PROVE  SInv'
<1>0. Typed
  BY Zenon DEF SInv
<1>1. PICK p \in Work[s] : plan' = [plan EXCEPT ![s] = p]
  BY Zenon DEF Start
<1>2. Len(p) \in 1..MaxChain /\ \A i \in 1..Len(p) : p[i] \in Chains
  BY Zenon, Commands
<1>3. \A n \in 1..MaxChain : 1 \in 1..n /\ 1 \in 1..MaxChain + 1
  BY Commands
<1>4. 1 \in 1..Len(p) /\ 1 \in 1..MaxChain + 1
  BY <1>2, <1>3, Zenon
<1>5. 1 \in 1..Len(p[1])
  <2>1. Len(p[1]) \in 1..3
    BY Zenon, <1>2, <1>4, ChainFacts
  <2>2. \A n \in 1..3 : 1 \in 1..n
    OBVIOUS
  <2> QED
    BY <2>1, <2>2, Zenon
<1>6. /\ pc' = [pc EXCEPT ![s] = "lock"] /\ chain' = [chain EXCEPT ![s] = 1]
      /\ level' = [level EXCEPT ![s] = 1] /\ keylockmap' = keylockmap /\ UNCHANGED vars
  BY Zenon DEF Start
<1>7. Typed'
  BY SMTT(40), <1>0, <1>1, <1>4, <1>6 DEF Typed, vars
<1>8. pc'[s] = "lock" /\ chain'[s] = 1 /\ level'[s] = 1 /\ plan'[s] = p
  BY Zenon, <1>0, <1>1, <1>6 DEF Typed
<1>9. OnlySession(s)
  BY Zenon, <1>0, <1>1, <1>6 DEF Typed, OnlySession
<1>10. \A v \in 1..(level'[s] - 1) : FALSE
  BY <1>8
<1>11. AtStep(s)' /\ Waiting(s)'
  BY Zenon, <1>4, <1>5, <1>8, <1>10 DEF AtStep, Waiting
<1> QED
  BY Zenon, <1>6, <1>7, <1>9, <1>11, QuietInv

\* A key that the session has locked already is passed over.
LEMMA AlreadyLockedInv ==
  ASSUME SInv, NEW s \in Sessions, AlreadyLocked(s)
  PROVE  SInv'
<1>0. Typed
  BY Zenon DEF SInv
<1>1. pc[s] = "lock" /\ NextChain(s) /\ UNCHANGED vars /\ plan' = plan /\ keylockmap' = keylockmap
  BY Zenon DEF AlreadyLocked
<1>2. Typed' /\ AtStep(s)' /\ Waiting(s)'
  BY Zenon, <1>0, <1>1, NextChainAt DEF Typed, vars
<1>3. OnlySession(s)
  BY Zenon, <1>0, <1>1 DEF NextChain, Typed, OnlySession
<1> QED
  BY Zenon, <1>1, <1>2, <1>3, QuietInv

\* A command that ends, and a session that has released everything, hold no
\* place in a command.
LEMMA EndInv ==
  ASSUME SInv, NEW s \in Sessions, CommandEnds(s) \/ AllReleased(s)
  PROVE  SInv'
<1>0. Typed
  BY Zenon DEF SInv
<1>1. UNCHANGED vars /\ keylockmap' = keylockmap
  BY Zenon DEF CommandEnds, AllReleased
<1>2. 1 \in 1..MaxChain + 1
  BY Commands
<1>3. Typed' /\ OnlySession(s) /\ pc'[s] \in {"free", "idle"}
  <2>1. CASE CommandEnds(s)
    BY Zenon, <1>0, <1>1, <2>1 DEF CommandEnds, Typed, OnlySession, vars
  <2>2. CASE AllReleased(s)
    BY <1>0, <1>1, <1>2, <2>2 DEF AllReleased, Typed, OnlySession, vars
  <2> QED
    BY Zenon, <2>1, <2>2
<1>4. AtStep(s)' /\ Waiting(s)'
  BY Zenon, <1>3 DEF AtStep, Waiting
<1> QED
  BY Zenon, <1>1, <1>3, <1>4, QuietInv

-----------------------------------------------------------------------------
(* Release                                                                 *)

\* ~ILock of the lowest object of a chain: a chain below which a key is noted
\* ends in that key, so the note goes before any part of the chain does.
LEMMA ReleaseInv ==
  ASSUME SInv, NEW s \in Sessions, Release(s)
  PROVE  SInv'
<1>0. Typed /\ FromAbove(s) /\ Noted(s) /\ pc[s] = "free"
  BY Zenon DEF SInv, Release
<1>a. PICK c \in 1..MaxChain : \E v \in Held(s, c) :
        /\ \A w \in Held(s, c) : w <= v
        /\ keylockmap' = IF v = 3 /\ caller[Object(s, c, v)] = "locked"
                         THEN [keylockmap EXCEPT ![s][target[Object(s, c, v)]] = NoMode] ELSE keylockmap
        /\ Unlock(Object(s, c, v))
  BY Zenon DEF Release
<1>1. PICK v \in Held(s, c) :
        /\ \A w \in Held(s, c) : w <= v
        /\ keylockmap' = IF v = 3 /\ caller[Object(s, c, v)] = "locked"
                         THEN [keylockmap EXCEPT ![s][target[Object(s, c, v)]] = NoMode] ELSE keylockmap
        /\ Unlock(Object(s, c, v))
  BY Zenon, <1>a
<1>2. v \in 1..3 /\ pc' = pc /\ plan' = plan /\ chain' = chain /\ level' = level
  BY Zenon DEF Held, Release
<1>3. PICK l : l = Object(s, c, v)
  BY Zenon
<1>4. l \in Locks
  BY Zenon, <1>2, <1>3, ObjectType
<1>5. /\ mode' = [mode EXCEPT ![l] = NoMode] /\ target' = [target EXCEPT ![l] = NoTarget]
      /\ caller' = [caller EXCEPT ![l] = "idle"]
  BY Zenon, <1>1, <1>3 DEF Unlock
<1>6. OnlyObject(l) /\ caller'[l] = "idle"
  BY Zenon, <1>0, <1>4, <1>5 DEF Typed, OnlyObject
<1>7. keylockmap' \in [Sessions -> [Keys -> Modes \cup {NoMode}]]
  BY Zenon, <1>0, <1>1 DEF Typed
<1>8. Typed'
  BY Zenon, <1>0, <1>2, <1>4, <1>5, <1>7 DEF Typed, Callers
<1>9. OnlySession(s)
  <2>1. \A u \in Sessions : u # s => keylockmap'[u] = keylockmap[u]
    BY Zenon, <1>0, <1>1 DEF Typed
  <2> QED
    BY Zenon, <1>2, <2>1 DEF OnlySession
<1>10. AtStep(s)' /\ Waiting(s)'
  BY Zenon, <1>0, <1>2 DEF AtStep, Waiting
<1>11. ASSUME NEW w \in 1..3, v < w PROVE caller[Object(s, c, w)] = "idle"
  BY <1>1, <1>2, <1>11 DEF Held
<1>12. FromAbove(s)'
  <2> SUFFICES ASSUME NEW d \in 1..MaxChain, NEW x \in 1..3, NEW w \in 1..3, w < x,
                      caller'[Object(s, d, x)] # "idle"
               PROVE  caller'[Object(s, d, w)] = "locked"
    BY Zenon DEF FromAbove
  <2>1. Object(s, d, x) # l /\ Object(s, d, x) \in Locks /\ Object(s, d, w) \in Locks
    BY Zenon, <1>6, ObjectType
  <2>2. caller[Object(s, d, x)] # "idle"
    BY Zenon, <1>6, <2>1 DEF OnlyObject
  <2>3. caller[Object(s, d, w)] = "locked"
    BY Zenon, <1>0, <2>2 DEF FromAbove
  <2>4. Object(s, d, w) # l
    <3>1. SUFFICES ASSUME Object(s, d, w) = l PROVE FALSE
      BY Zenon
    <3>2. d = c /\ w = v
      BY <1>3, <3>1, ObjectFacts
    <3> QED
      BY Zenon, <1>11, <2>2, <3>2
  <2> QED
    BY Zenon, <1>6, <2>1, <2>3, <2>4 DEF OnlyObject
<1>13. Noted(s)'
  <2> SUFFICES ASSUME NEW k \in Keys, keylockmap'[s][k] # NoMode
               PROVE  \E d \in 1..MaxChain : ChainHeld(s, d, k, keylockmap[s][k])'
    BY Zenon DEF Noted
  <2>1. keylockmap'[s][k] = keylockmap[s][k] /\ (v = 3 /\ caller[l] = "locked" => k # target[l])
    <3>1. CASE v = 3 /\ caller[l] = "locked"
      <4>1. keylockmap' = [keylockmap EXCEPT ![s][target[l]] = NoMode]
        BY Zenon, <1>1, <1>3, <3>1
      <4> QED
        BY Zenon, <1>0, <4>1 DEF Typed
    <3>2. CASE ~(v = 3 /\ caller[l] = "locked")
      BY Zenon, <1>1, <1>3, <3>2
    <3> QED
      BY Zenon, <3>1, <3>2
  <2>2. PICK d \in 1..MaxChain : ChainHeld(s, d, k, keylockmap[s][k])
    BY Zenon, <1>0, <2>1 DEF Noted
  <2>3. /\ \A w \in 1..3 : caller[Object(s, d, w)] = "locked"
        /\ target[Object(s, d, 3)] = k
    BY SMTT(40), <2>2 DEF ChainHeld, HeldAs, Step
  <2>4. d # c
    <3>1. SUFFICES ASSUME d = c PROVE FALSE
      BY Zenon
    <3>2. v = 3
      BY SMTT(40), <1>2, <1>11, <2>3, <3>1
    <3> QED
      BY <1>3, <2>1, <2>3, <3>1, <3>2
  <2>5. ASSUME NEW w \in 1..3
        PROVE  /\ caller'[Object(s, d, w)] = caller[Object(s, d, w)]
               /\ target'[Object(s, d, w)] = target[Object(s, d, w)]
               /\ mode'[Object(s, d, w)] = mode[Object(s, d, w)]
    <3>1. Object(s, d, w) # l
      BY <1>3, <2>4, ObjectFacts
    <3>2. Object(s, d, w) \in Locks
      BY Zenon, ObjectType
    <3> QED
      BY Zenon, <1>6, <3>1, <3>2 DEF OnlyObject
  <2>6. ChainHeld(s, d, k, keylockmap[s][k])'
    BY Zenon, <2>1, <2>2, <2>5, ChainKept
  <2> QED
    BY Zenon, <2>6
<1> QED
  BY Zenon, <1>3, <1>6, <1>8, <1>9, <1>10, <1>12, <1>13, OthersKeep

-----------------------------------------------------------------------------
(* Theorems                                                                *)

\* Before the first command nothing is locked.
LEMMA SessInitInv == SessInit => SInv
<1> SUFFICES ASSUME SessInit PROVE SInv
  BY Zenon
<1>1. 1 \in 1..MaxChain + 1
  BY Commands
<1>2. Typed
  BY <1>1 DEF SessInit, Init, Typed, Callers
<1>3. ASSUME NEW s \in Sessions PROVE AtStep(s) /\ Waiting(s) /\ Noted(s)
  BY Zenon DEF SessInit, AtStep, Waiting, Noted
<1>4. ASSUME NEW s \in Sessions PROVE FromAbove(s)
  <2>1. \A l \in Locks : caller[l] = "idle"
    BY Zenon DEF SessInit, Init
  <2> QED
    BY Zenon, <2>1, ObjectType DEF FromAbove
<1> QED
  BY Zenon, <1>2, <1>3, <1>4 DEF SInv

\* A step in which nothing changes keeps the invariant.
LEMMA StutterInv ==
  ASSUME SInv, UNCHANGED allVars
  PROVE  SInv'
<1>1. /\ caller' = caller /\ target' = target /\ mode' = mode /\ pc' = pc /\ plan' = plan
      /\ chain' = chain /\ level' = level /\ keylockmap' = keylockmap
  BY Zenon DEF allVars, vars, sessVars
<1>2. Typed'
  BY Zenon, <1>1 DEF SInv, Typed
<1>3. ASSUME NEW u \in Sessions PROVE (AtStep(u) /\ Waiting(u) /\ FromAbove(u) /\ Noted(u))'
  <2>1. Untouched(u)
    BY Zenon, <1>1 DEF Untouched
  <2> QED
    BY Zenon, <2>1, OtherSession
<1> QED
  BY Zenon, <1>2, <1>3 DEF SInv

\* What a session has locked and noted stays consistent with the lock manager
\* through every step of every session.
THEOREM SessInductive == SessSpec => []SInv
<1>1. SInv /\ [SessNext]_allVars => SInv'
  <2> SUFFICES ASSUME SInv, [SessNext]_allVars PROVE SInv'
    BY Zenon
  <2>1. ASSUME NEW s \in Sessions, Start(s) \/ SessStep(s) \/ GiveUp(s) PROVE SInv'
    BY Zenon, <2>1, StartInv, AcquireInv, WaitInv, AlreadyLockedInv, WokenInv, EndInv, ReleaseInv, GiveUpInv
       DEF SessStep
  <2> QED
    BY Zenon, <2>1, StutterInv DEF SessNext
<1> QED
  BY <1>1, SessInitInv, PTL DEF SessSpec

\* Sessions use the lock manager as its specification allows: every step of a
\* session (KeyLock, ChunkLock, StoreLock and their destructors) is one step of
\* MGLock, or leaves it alone.
THEOREM SessionsImplement == SessSpec => Spec
<1>1. SInv /\ [SessNext]_allVars => [Next]_vars
  <2> SUFFICES ASSUME SInv, SessNext PROVE [Next]_vars
    BY Zenon DEF allVars
  <2>1. PICK s \in Sessions : Start(s) \/ SessStep(s) \/ GiveUp(s)
    BY Zenon DEF SessNext
  <2>2. CASE Start(s) \/ AlreadyLocked(s) \/ CommandEnds(s) \/ AllReleased(s)
    BY Zenon, <2>2 DEF Start, AlreadyLocked, CommandEnds, AllReleased
  <2>3. CASE Acquire(s) \/ Wait(s)
    <3>1. Obj(s) \in Locks /\ Now(s).target \in Targets /\ Now(s).mode \in Modes
      BY Zenon, <2>3, NowFacts DEF SInv, Acquire, Wait
    <3> QED
      BY Zenon, <2>3, <3>1 DEF Acquire, Wait, Next
  <2>4. CASE Woken(s) \/ GiveUp(s)
    <3>1. Obj(s) \in Locks
      BY Zenon, <2>4, NowFacts DEF SInv, Woken, GiveUp
    <3> QED
      BY Zenon, <2>4, <3>1 DEF Woken, GiveUp, Next
  <2>5. CASE Release(s)
    <3>1. PICK c \in 1..MaxChain, v \in 1..3 : Unlock(Object(s, c, v))
      BY Zenon, <2>5 DEF Release, Held
    <3> QED
      BY Zenon, <3>1, ObjectType DEF Next
  <2> QED
    BY Zenon, <2>1, <2>2, <2>3, <2>4, <2>5 DEF SessStep
<1>2. SessInit => Init
  BY Zenon DEF SessInit
<1> QED
  BY <1>1, <1>2, SessInductive, PTL DEF SessSpec, Spec

\* A lock object that its session holds runs on its target, next to compatible
\* ones only.
LEMMA HeldCompatible ==
  ASSUME IInv, NEW a \in Locks, NEW b \in Locks, a # b, caller[a] = "locked", caller[b] = "locked",
         target[a] = target[b], target[a] \in Targets
  PROVE  ~isConflict({mode[a]}, mode[b])
<1>1. ResultMatchesLists /\ Compatible
  BY Zenon DEF IInv, GoodCtx, CompatibleIn, Compatible
<1>2. a \in ctx[target[a]].running /\ b \in ctx[target[a]].running
  BY Zenon, <1>1 DEF ResultMatchesLists
<1> QED
  BY Zenon, <1>1, <1>2 DEF Compatible

\* Two sessions never have the same key noted in modes that conflict: a command
\* that has its KeyLock reads and writes alone.
THEOREM KeysAreExclusive == SessSpec => []KeysExclusive
<1>1. SInv /\ IInv => KeysExclusive
  <2> SUFFICES ASSUME SInv, IInv, NEW s \in Sessions, NEW u \in Sessions, NEW k \in Keys, s # u,
                      keylockmap[s][k] # NoMode, keylockmap[u][k] # NoMode
               PROVE  ~isConflict({keylockmap[s][k]}, keylockmap[u][k])
    BY Zenon DEF KeysExclusive
  <2>1. PICK c \in 1..MaxChain : ChainHeld(s, c, k, keylockmap[s][k])
    BY Zenon DEF SInv, Noted
  <2>2. PICK d \in 1..MaxChain : ChainHeld(u, d, k, keylockmap[u][k])
    BY Zenon DEF SInv, Noted
  <2>3. Object(s, c, 3) # Object(u, d, 3) /\ Object(s, c, 3) \in Locks /\ Object(u, d, 3) \in Locks
    BY ObjectFacts, ObjectType
  <2>4. k \in Targets
    BY Zenon, Hierarchy
  <2>5. /\ caller[Object(s, c, 3)] = "locked" /\ target[Object(s, c, 3)] = k
        /\ mode[Object(s, c, 3)] = keylockmap[s][k]
        /\ caller[Object(u, d, 3)] = "locked" /\ target[Object(u, d, 3)] = k
        /\ mode[Object(u, d, 3)] = keylockmap[u][k]
    BY Zenon, <2>1, <2>2 DEF ChainHeld, HeldAs, Step
  <2> QED
    BY Zenon, <2>3, <2>4, <2>5, HeldCompatible
<1> QED
  BY <1>1, SessInductive, SessionsImplement, Inductive, PTL

\* Who holds a chunk or a store in X meets no key below it that another session
\* has noted, and who holds it in S meets readers only: flush, the hand-over of a
\* slot and the collector may act on everything below their one lock.
THEOREM CoversAllKeysBelow == SessSpec => []CoversKeysBelow
<1>1. SInv /\ IInv => CoversKeysBelow
  <2> SUFFICES ASSUME SInv, IInv, NEW l \in Locks, NEW u \in Sessions, NEW k \in Keys,
                      caller[l] = "locked", mode[l] \in {"S", "X"}, l[1] # u,
                      target[l] \in Above(k), keylockmap[u][k] # NoMode
               PROVE  mode[l] = "S" /\ keylockmap[u][k] \in {"IS", "S"}
    BY SMTT(40) DEF CoversKeysBelow
  <2>1. PICK c \in 1..MaxChain : ChainHeld(u, c, k, keylockmap[u][k])
    BY Zenon DEF SInv, Noted
  <2>2. PICK x \in 1..2 : /\ caller[Object(u, c, x)] = "locked" /\ target[Object(u, c, x)] = target[l]
                          /\ mode[Object(u, c, x)] = getParentMode(keylockmap[u][k])
    BY SMTT(40), <2>1 DEF ChainHeld, HeldAs, Step, Above
  <2>3. Object(u, c, x) \in Locks
    BY SMTT(40), ObjectType
  <2>4. Object(u, c, x) # l
    BY DEF Object
  <2>5. target[l] \in Targets
    BY Zenon, Hierarchy DEF Above
  <2>6. ~isConflict({mode[l]}, getParentMode(keylockmap[u][k]))
    BY Zenon, <2>2, <2>3, <2>4, <2>5, HeldCompatible
  <2>7. keylockmap[u][k] \in Modes
    BY SMTT(40) DEF SInv, Typed
  <2> QED
    BY Zenon, <2>6, <2>7 DEF isConflict, conflictTable, getParentMode, Modes
<1> QED
  BY <1>1, SessInductive, SessionsImplement, Inductive, PTL

\* The variables of the sessions have their types and a session that locks is at
\* a step of its command.
THEOREM SessTypeCorrect == SessSpec => []SessTypeOK
<1>1. SInv => SessTypeOK
  <2> SUFFICES ASSUME SInv PROVE SessTypeOK
    BY Zenon
  <2>1. Typed
    BY Zenon DEF SInv
  <2>2. ASSUME NEW s \in Sessions, pc[s] \in {"lock", "wait"}
        PROVE  chain[s] <= Len(plan[s]) /\ level[s] <= Len(plan[s][chain[s]])
    <3>1. chain[s] \in 1..Len(plan[s]) /\ level[s] \in 1..Len(plan[s][chain[s]])
      BY Zenon, <2>2 DEF SInv, AtStep
    <3> QED
      BY <3>1
  <2> QED
    BY Zenon, <2>1, <2>2 DEF SessTypeOK, Typed
<1> QED
  BY <1>1, SessInductive, PTL
=============================================================================

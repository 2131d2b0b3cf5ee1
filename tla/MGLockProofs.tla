---------------------------- MODULE MGLockProofs ----------------------------
(***************************************************************************)
(* Proofs about the lock manager, for any finite set of locks and any set  *)
(* of targets.  A scheduling context that is consistent with the modes of  *)
(* its locks (GoodCtx) stays so through the operations of LockSchedCtx;    *)
(* the invariants of MGLock follow.                                        *)
(***************************************************************************)
EXTENDS MGLock, FiniteSetTheorems, WellFoundedInduction, TLAPS

-----------------------------------------------------------------------------
(* Conflicts                                                               *)

\* Modes conflict with a set of modes when they conflict with a member of it
\* (the bit mask test of isConflict).
LEMMA ConflictMember ==
  ASSUME NEW S, NEW m
  PROVE  isConflict(S, m) <=> \E x \in S : isConflict({x}, m)
BY Zenon DEF isConflict

\* The table of conflicts is symmetric.
LEMMA ConflictSymmetric ==
  ASSUME NEW a \in Modes, NEW b \in Modes
  PROVE  isConflict({a}, b) <=> isConflict({b}, a)
BY Zenon DEF isConflict, conflictTable, Modes

-----------------------------------------------------------------------------
(* The number of waiters the scheduling loop grants                        *)

\* A set of naturals that is not empty has a least member.
LEMMA LeastNat ==
  ASSUME NEW T \in SUBSET Nat, T # {}
  PROVE  \E x \in T : \A y \in T : x <= y
<1>1. PICK x \in T : \A y \in T : ~ (<<y, x>> \in OpToRel(<, Nat))
  BY ZenonT(40), NatLessThanWellFounded, WFMin
<1>2. \A y \in T : ~ (y < x)
  BY ZenonT(40), <1>1 DEF OpToRel
<1> QED
  BY <1>2

\* The loop of schedPendingLocks stops somewhere: NumGranted is the length of the
\* longest prefix of compatible waiters.
LEMMA NumGrantedDef ==
  ASSUME NEW c \in LockSchedCtx
  PROVE  /\ NumGranted(c) \in 0..Len(c.pending)
         /\ \A i \in 1..Len(c.pending) :
              i <= NumGranted(c) <=> \A j \in 1..i : CanRun(c, j)
<1> DEFINE N == Len(c.pending)
           T == {k \in 1..(N + 1) : k = N + 1 \/ ~CanRun(c, k)}
<1>1. N \in Nat
  BY DEF LockSchedCtx
<1>2. T \in SUBSET Nat /\ N + 1 \in T
  BY <1>1
<1>3. PICK k \in T : \A y \in T : k <= y
  BY ZenonT(40), <1>2, LeastNat
<1>4. k - 1 \in 0..N
  BY <1>1, <1>3
<1>5. \A i \in 1..N : i <= k - 1 <=> \A j \in 1..i : CanRun(c, j)
  <2> TAKE i \in 1..N
  <2>1. ASSUME i <= k - 1, NEW j \in 1..i PROVE CanRun(c, j)
    BY <1>1, <1>3, <2>1
  <2>2. ASSUME ~(i <= k - 1) PROVE ~CanRun(c, k) /\ k \in 1..i
    BY <1>1, <1>3, <2>2
  <2> QED
    BY Zenon, <2>1, <2>2
<1> HIDE DEF N, T
<1>6. \E n \in 0..N : \A i \in 1..N : i <= n <=> \A j \in 1..i : CanRun(c, j)
  BY Zenon, <1>4, <1>5
<1> QED
  BY ZenonT(40), <1>6 DEF NumGranted, N

-----------------------------------------------------------------------------
(* Contexts that are consistent with the modes md of the locks             *)

Ask(L, md, m) == Cardinality({l \in L : md[l] = m})

NoRepeats(s) == \A i, j \in 1..Len(s) : s[i] = s[j] => i = j

ListsOK(c, md) ==
  /\ \A l \in c.running \cup Waiters(c) : md[l] \in Modes
  /\ c.running \cap Waiters(c) = {}
  /\ NoRepeats(c.pending)

CountersOK(c, md) ==
  \A m \in Modes :
    /\ c.runningRefCnt[m] = Ask(c.running, md, m)
    /\ c.pendingRefCnt[m] = Ask(Waiters(c), md, m)
    /\ m \in c.runningModes <=> c.runningRefCnt[m] > 0
    /\ m \in c.pendingModes <=> c.pendingRefCnt[m] > 0

CompatibleIn(c, md) ==
  \A a, b \in c.running : a # b => ~isConflict({md[a]}, md[b])

GoodCtx(c, md) ==
  /\ c \in LockSchedCtx
  /\ ListsOK(c, md)
  /\ CountersOK(c, md)
  /\ CompatibleIn(c, md)

\* The waiters of a context are locks.
LEMMA WaitersType ==
  ASSUME NEW c \in LockSchedCtx
  PROVE  /\ Waiters(c) \subseteq Locks
         /\ c.running \subseteq Locks
         /\ Len(c.pending) \in Nat
         /\ \A i \in 1..Len(c.pending) : c.pending[i] \in Locks
<1>1. c.pending \in Seq(Locks) /\ c.running \in SUBSET Locks
  BY Zenon DEF LockSchedCtx
<1> QED
  BY <1>1 DEF Waiters, FirstWaiters

\* A count is positive exactly when some lock asks for the mode.
LEMMA AskType ==
  ASSUME NEW L \in SUBSET Locks, NEW md, NEW m
  PROVE  /\ Ask(L, md, m) \in Nat
         /\ Ask(L, md, m) > 0 <=> \E l \in L : md[l] = m
<1> DEFINE S == {l \in L : md[l] = m}
<1>1. IsFiniteSet(S)
  BY Zenon, FiniteLocks, FS_Subset
<1>2. Cardinality(S) \in Nat /\ (Cardinality(S) = 0 <=> S = {})
  BY Zenon, <1>1, FS_CardinalityType, FS_EmptySet
<1> QED
  BY <1>2 DEF Ask

\* One more lock asks: incrRunningRef and incrPendingRef count it.
LEMMA AskAdd ==
  ASSUME NEW L \in SUBSET Locks, NEW md, NEW m, NEW l \in Locks \ L
  PROVE  Ask(L \cup {l}, md, m) = IF md[l] = m THEN Ask(L, md, m) + 1 ELSE Ask(L, md, m)
<1> DEFINE S == {x \in L : md[x] = m}
<1>1. IsFiniteSet(S)
  BY Zenon, FiniteLocks, FS_Subset
<1>2. CASE md[l] = m
  <2>1. {x \in L \cup {l} : md[x] = m} = S \cup {l} /\ l \notin S
    BY Zenon, <1>2
  <2> QED
    BY Zenon, <1>1, <1>2, <2>1, FS_AddElement DEF Ask
<1>3. CASE md[l] # m
  <2>1. {x \in L \cup {l} : md[x] = m} = S
    BY Zenon, <1>3
  <2> QED
    BY Zenon, <1>3, <2>1 DEF Ask
<1> QED
  BY Zenon, <1>2, <1>3

\* One lock less asks: decRunningRef and decPendingRef.
LEMMA AskRemove ==
  ASSUME NEW L \in SUBSET Locks, NEW md, NEW m, NEW l \in L
  PROVE  Ask(L \ {l}, md, m) = IF md[l] = m THEN Ask(L, md, m) - 1 ELSE Ask(L, md, m)
<1> DEFINE S == {x \in L : md[x] = m}
<1>1. IsFiniteSet(S)
  BY Zenon, FiniteLocks, FS_Subset
<1>2. CASE md[l] = m
  <2>1. {x \in L \ {l} : md[x] = m} = S \ {l} /\ l \in S
    BY Zenon, <1>2
  <2> QED
    BY ZenonT(40), <1>1, <1>2, <2>1, FS_RemoveElement DEF Ask
<1>3. CASE md[l] # m
  <2>1. {x \in L \ {l} : md[x] = m} = S
    BY <1>3
  <2> QED
    BY Zenon, <1>3, <2>1 DEF Ask
<1> QED
  BY Zenon, <1>2, <1>3

\* The counts of disjoint sets add up (the waiters a schedule moves).
LEMMA AskUnion ==
  ASSUME NEW L \in SUBSET Locks, NEW K \in SUBSET Locks, L \cap K = {}, NEW md, NEW m
  PROVE  Ask(L \cup K, md, m) = Ask(L, md, m) + Ask(K, md, m)
<1> DEFINE S == {x \in L : md[x] = m}
           T == {x \in K : md[x] = m}
<1>1. IsFiniteSet(S) /\ IsFiniteSet(T)
  BY Zenon, FiniteLocks, FS_Subset
<1>2. {x \in L \cup K : md[x] = m} = S \cup T /\ S \cap T = {}
  BY Zenon
<1>3. Cardinality(S \cup T) = Cardinality(S) + Cardinality(T) - Cardinality(S \cap T)
  BY Zenon, <1>1, FS_Union
<1>4. Cardinality(S) \in Nat /\ Cardinality(T) \in Nat /\ Cardinality(S \cap T) = 0
  BY ZenonT(40), <1>1, <1>2, FS_CardinalityType, FS_EmptySet
<1>5. Cardinality(S \cup T) = Cardinality(S) + Cardinality(T)
  BY <1>3, <1>4
<1> QED
  BY Zenon, <1>2, <1>5 DEF Ask

\* std::list::erase drops one element and keeps the others in order.
LEMMA EraseFacts ==
  ASSUME NEW s \in Seq(Locks), NoRepeats(s), NEW k \in 1..Len(s)
  PROVE  /\ Erase(s, s[k]) \in Seq(Locks)
         /\ Len(Erase(s, s[k])) = Len(s) - 1
         /\ \A i \in 1..(Len(s) - 1) : Erase(s, s[k])[i] = IF i < k THEN s[i] ELSE s[i + 1]
<1> DEFINE p == CHOOSE i \in 1..Len(s) : s[i] = s[k]
           e == [i \in 1..(Len(s) - 1) |-> IF i < p THEN s[i] ELSE s[i + 1]]
<1>1. p \in 1..Len(s) /\ s[p] = s[k]
  BY Zenon
<1>2. p = k
  BY Zenon, <1>1 DEF NoRepeats
<1>3. Len(s) \in Nat /\ Len(s) - 1 \in Nat
  OBVIOUS
<1> HIDE DEF p
<1>4. \A i \in 1..(Len(s) - 1) : e[i] \in Locks
  BY <1>1, <1>3
<1>5. e \in Seq(Locks) /\ Len(e) = Len(s) - 1
  BY <1>3, <1>4
<1>6. Erase(s, s[k]) = e
  BY Zenon DEF Erase, p
<1> QED
  BY Zenon, <1>2, <1>5, <1>6

\* Erasing a waiter removes it from the set of waiters and nobody else.
LEMMA EraseWaiters ==
  ASSUME NEW s \in Seq(Locks), NoRepeats(s), NEW k \in 1..Len(s)
  PROVE  /\ NoRepeats(Erase(s, s[k]))
         /\ {Erase(s, s[k])[i] : i \in 1..Len(Erase(s, s[k]))}
              = {s[i] : i \in 1..Len(s)} \ {s[k]}
<1> DEFINE e == Erase(s, s[k])
<1>1. /\ Len(e) = Len(s) - 1
      /\ \A i \in 1..(Len(s) - 1) : e[i] = IF i < k THEN s[i] ELSE s[i + 1]
  BY Zenon, EraseFacts
<1>2. Len(s) \in Nat
  OBVIOUS
<1> HIDE DEF e
<1>3. NoRepeats(e)
  BY <1>1, <1>2 DEF NoRepeats
<1>4. ASSUME NEW i \in 1..Len(e) PROVE \E j \in 1..Len(s) : e[i] = s[j] /\ s[j] # s[k]
  <2>1. CASE i < k
    BY <1>1, <1>2, <2>1 DEF NoRepeats
  <2>2. CASE ~(i < k)
    <3>1. i + 1 \in 1..Len(s) /\ i + 1 # k /\ e[i] = s[i + 1]
      BY <1>1, <1>2, <2>2
    <3> QED
      BY Zenon, <3>1 DEF NoRepeats
  <2> QED
    BY Zenon, <2>1, <2>2
<1>5. ASSUME NEW j \in 1..Len(s), s[j] # s[k] PROVE \E i \in 1..Len(e) : e[i] = s[j]
  <2>1. CASE j < k
    BY <1>1, <1>2, <2>1
  <2>2. CASE ~(j < k)
    <3>1. j - 1 \in 1..Len(e) /\ e[j - 1] = s[j]
      BY <1>1, <1>2, <1>5, <2>2
    <3> QED
      BY Zenon, <3>1
  <2> QED
    BY Zenon, <2>1, <2>2
<1>6. \A i \in 1..Len(e) : e[i] \in {s[j] : j \in 1..Len(s)} \ {s[k]}
  BY Zenon, <1>4
<1>7. \A j \in 1..Len(s) : s[j] # s[k] => s[j] \in {e[i] : i \in 1..Len(e)}
  BY Zenon, <1>5
<1>8. {e[i] : i \in 1..Len(e)} = {s[i] : i \in 1..Len(s)} \ {s[k]}
  BY Zenon, <1>6, <1>7
<1> QED
  BY ZenonT(40), <1>3, <1>8 DEF e

-----------------------------------------------------------------------------
(* The operations keep a context consistent                                *)

\* A fresh context is consistent.
LEMMA NewCtxGood ==
  ASSUME NEW md
  PROVE  GoodCtx(NewCtx, md) /\ Waiters(NewCtx) = {}
<1>1. NewCtx \in LockSchedCtx
  BY DEF NewCtx, LockSchedCtx, Modes
<1>a. /\ NewCtx.running = {} /\ NewCtx.pending = <<>> /\ Len(NewCtx.pending) = 0
      /\ NewCtx.runningModes = {} /\ NewCtx.pendingModes = {}
      /\ NewCtx.runningRefCnt = [m \in Modes |-> 0]
      /\ NewCtx.pendingRefCnt = [m \in Modes |-> 0]
  BY Zenon DEF NewCtx
<1>b. 1..0 = {}
  OBVIOUS
<1>2. Waiters(NewCtx) = {}
  BY Zenon, <1>a, <1>b DEF Waiters, FirstWaiters
<1>3. ListsOK(NewCtx, md)
  BY Zenon, <1>2, <1>a, <1>b DEF ListsOK, NoRepeats
<1>4. \A m \in Modes : Ask({}, md, m) = 0
  BY AskType
<1>5. CountersOK(NewCtx, md)
  BY <1>2, <1>4, <1>a DEF CountersOK
<1>6. CompatibleIn(NewCtx, md)
  BY Zenon, <1>a DEF CompatibleIn
<1> QED
  BY Zenon, <1>1, <1>2, <1>3, <1>5, <1>6 DEF GoodCtx

\* A context does not depend on the modes of locks outside its lists.
LEMMA GoodCtxOtherModes ==
  ASSUME NEW c, NEW md, NEW md2, GoodCtx(c, md),
         \A l \in c.running \cup Waiters(c) : md2[l] = md[l]
  PROVE  GoodCtx(c, md2)
<1>1. \A m : {l \in c.running : md2[l] = m} = {l \in c.running : md[l] = m}
  BY Zenon
<1>2. \A m : {l \in Waiters(c) : md2[l] = m} = {l \in Waiters(c) : md[l] = m}
  BY Zenon
<1>3. CountersOK(c, md2)
  BY Zenon, <1>1, <1>2 DEF CountersOK, GoodCtx, Ask
<1>4. ListsOK(c, md2)
  BY Zenon DEF GoodCtx, ListsOK
<1>5. CompatibleIn(c, md2)
  <2> SUFFICES ASSUME NEW a \in c.running, NEW b \in c.running, a # b
               PROVE  ~isConflict({md2[a]}, md2[b])
    BY Zenon DEF CompatibleIn
  <2>1. md2[a] = md[a] /\ md2[b] = md[b]
    BY Zenon
  <2>2. ~isConflict({md[a]}, md[b])
    BY Zenon DEF GoodCtx, CompatibleIn
  <2> QED
    BY Zenon, <2>1, <2>2
<1> QED
  BY Zenon, <1>3, <1>4, <1>5 DEF GoodCtx

\* What incrRunningRef does to the fields of a context.
LEMMA IncrRunningFields ==
  ASSUME NEW c \in LockSchedCtx, NEW m \in Modes
  PROVE  LET d == incrRunningRef(c, m) IN
         /\ d.running = c.running /\ d.pending = c.pending
         /\ d.pendingModes = c.pendingModes /\ d.pendingRefCnt = c.pendingRefCnt
         /\ d.runningModes = IF c.runningRefCnt[m] = 0 THEN c.runningModes \cup {m} ELSE c.runningModes
         /\ d.runningRefCnt = [c.runningRefCnt EXCEPT ![m] = @ + 1]
         /\ d \in LockSchedCtx
<1>1. c.runningRefCnt \in [Modes -> Nat] /\ c.runningRefCnt[m] \in Nat
  BY Zenon DEF LockSchedCtx
<1>2. c.runningRefCnt[m] + 1 = 1 <=> c.runningRefCnt[m] = 0
  BY <1>1
<1> DEFINE cnt == [c.runningRefCnt EXCEPT ![m] = @ + 1]
           ms == IF c.runningRefCnt[m] + 1 = 1 THEN c.runningModes \cup {m} ELSE c.runningModes
           d == [c EXCEPT !.runningRefCnt = cnt, !.runningModes = ms]
<1>3. cnt \in [Modes -> Nat] /\ ms \in SUBSET Modes
  BY <1>1 DEF LockSchedCtx
<1>4. ms = IF c.runningRefCnt[m] = 0 THEN c.runningModes \cup {m} ELSE c.runningModes
  BY Zenon, <1>2
<1>5. incrRunningRef(c, m) = d
  BY Zenon DEF incrRunningRef
<1> HIDE DEF cnt, ms
<1>6. /\ d.running = c.running /\ d.pending = c.pending
      /\ d.pendingModes = c.pendingModes /\ d.pendingRefCnt = c.pendingRefCnt
      /\ d.runningModes = ms /\ d.runningRefCnt = cnt
      /\ d \in LockSchedCtx
  BY ZenonT(40), <1>3 DEF LockSchedCtx
<1> QED
  BY Zenon, <1>4, <1>5, <1>6 DEF cnt

\* What decRunningRef does, under its INVARIANT_D that the counter is not 0.
LEMMA DecRunningFields ==
  ASSUME NEW c \in LockSchedCtx, NEW m \in Modes, c.runningRefCnt[m] > 0
  PROVE  LET d == decRunningRef(c, m) IN
         /\ d.running = c.running /\ d.pending = c.pending
         /\ d.pendingModes = c.pendingModes /\ d.pendingRefCnt = c.pendingRefCnt
         /\ d.runningModes = IF c.runningRefCnt[m] = 1 THEN c.runningModes \ {m} ELSE c.runningModes
         /\ d.runningRefCnt = [c.runningRefCnt EXCEPT ![m] = @ - 1]
         /\ d \in LockSchedCtx
<1>1. c.runningRefCnt \in [Modes -> Nat] /\ c.runningRefCnt[m] \in Nat
  BY Zenon DEF LockSchedCtx
<1>2. c.runningRefCnt[m] - 1 = 0 <=> c.runningRefCnt[m] = 1
  BY <1>1
<1> DEFINE cnt == [c.runningRefCnt EXCEPT ![m] = @ - 1]
           ms == IF c.runningRefCnt[m] - 1 = 0 THEN c.runningModes \ {m} ELSE c.runningModes
           d == [c EXCEPT !.runningRefCnt = cnt, !.runningModes = ms]
<1>3. cnt \in [Modes -> Nat] /\ ms \in SUBSET Modes
  BY <1>1 DEF LockSchedCtx
<1>4. ms = IF c.runningRefCnt[m] = 1 THEN c.runningModes \ {m} ELSE c.runningModes
  BY Zenon, <1>2
<1>5. decRunningRef(c, m) = d
  BY Zenon DEF decRunningRef
<1> HIDE DEF cnt, ms
<1>6. /\ d.running = c.running /\ d.pending = c.pending
      /\ d.pendingModes = c.pendingModes /\ d.pendingRefCnt = c.pendingRefCnt
      /\ d.runningModes = ms /\ d.runningRefCnt = cnt
      /\ d \in LockSchedCtx
  BY ZenonT(40), <1>3 DEF LockSchedCtx
<1> QED
  BY Zenon, <1>4, <1>5, <1>6 DEF cnt

\* What incrPendingRef does to the fields of a context.
LEMMA IncrPendingFields ==
  ASSUME NEW c \in LockSchedCtx, NEW m \in Modes
  PROVE  LET d == incrPendingRef(c, m) IN
         /\ d.running = c.running /\ d.pending = c.pending
         /\ d.runningModes = c.runningModes /\ d.runningRefCnt = c.runningRefCnt
         /\ d.pendingModes = IF c.pendingRefCnt[m] = 0 THEN c.pendingModes \cup {m} ELSE c.pendingModes
         /\ d.pendingRefCnt = [c.pendingRefCnt EXCEPT ![m] = @ + 1]
         /\ d \in LockSchedCtx
<1>1. c.pendingRefCnt \in [Modes -> Nat] /\ c.pendingRefCnt[m] \in Nat
  BY Zenon DEF LockSchedCtx
<1>2. c.pendingRefCnt[m] + 1 = 1 <=> c.pendingRefCnt[m] = 0
  BY <1>1
<1> DEFINE cnt == [c.pendingRefCnt EXCEPT ![m] = @ + 1]
           ms == IF c.pendingRefCnt[m] + 1 = 1 THEN c.pendingModes \cup {m} ELSE c.pendingModes
           d == [c EXCEPT !.pendingRefCnt = cnt, !.pendingModes = ms]
<1>3. cnt \in [Modes -> Nat] /\ ms \in SUBSET Modes
  BY <1>1 DEF LockSchedCtx
<1>4. ms = IF c.pendingRefCnt[m] = 0 THEN c.pendingModes \cup {m} ELSE c.pendingModes
  BY Zenon, <1>2
<1>5. incrPendingRef(c, m) = d
  BY Zenon DEF incrPendingRef
<1> HIDE DEF cnt, ms
<1>6. /\ d.running = c.running /\ d.pending = c.pending
      /\ d.runningModes = c.runningModes /\ d.runningRefCnt = c.runningRefCnt
      /\ d.pendingModes = ms /\ d.pendingRefCnt = cnt
      /\ d \in LockSchedCtx
  BY ZenonT(40), <1>3 DEF LockSchedCtx
<1> QED
  BY Zenon, <1>4, <1>5, <1>6 DEF cnt

\* What decPendingRef does, under its INVARIANT_D that the counter is not 0.
LEMMA DecPendingFields ==
  ASSUME NEW c \in LockSchedCtx, NEW m \in Modes, c.pendingRefCnt[m] > 0
  PROVE  LET d == decPendingRef(c, m) IN
         /\ d.running = c.running /\ d.pending = c.pending
         /\ d.runningModes = c.runningModes /\ d.runningRefCnt = c.runningRefCnt
         /\ d.pendingModes = IF c.pendingRefCnt[m] = 1 THEN c.pendingModes \ {m} ELSE c.pendingModes
         /\ d.pendingRefCnt = [c.pendingRefCnt EXCEPT ![m] = @ - 1]
         /\ d \in LockSchedCtx
<1>1. c.pendingRefCnt \in [Modes -> Nat] /\ c.pendingRefCnt[m] \in Nat
  BY Zenon DEF LockSchedCtx
<1>2. c.pendingRefCnt[m] - 1 = 0 <=> c.pendingRefCnt[m] = 1
  BY <1>1
<1> DEFINE cnt == [c.pendingRefCnt EXCEPT ![m] = @ - 1]
           ms == IF c.pendingRefCnt[m] - 1 = 0 THEN c.pendingModes \ {m} ELSE c.pendingModes
           d == [c EXCEPT !.pendingRefCnt = cnt, !.pendingModes = ms]
<1>3. cnt \in [Modes -> Nat] /\ ms \in SUBSET Modes
  BY <1>1 DEF LockSchedCtx
<1>4. ms = IF c.pendingRefCnt[m] = 1 THEN c.pendingModes \ {m} ELSE c.pendingModes
  BY Zenon, <1>2
<1>5. decPendingRef(c, m) = d
  BY Zenon DEF decPendingRef
<1> HIDE DEF cnt, ms
<1>6. /\ d.running = c.running /\ d.pending = c.pending
      /\ d.runningModes = c.runningModes /\ d.runningRefCnt = c.runningRefCnt
      /\ d.pendingModes = ms /\ d.pendingRefCnt = cnt
      /\ d \in LockSchedCtx
  BY ZenonT(40), <1>3 DEF LockSchedCtx
<1> QED
  BY Zenon, <1>4, <1>5, <1>6 DEF cnt

\* The context with lock l in its running list, and with l behind its waiters.
With(c, l) == [c EXCEPT !.running = @ \cup {l}]

Behind(c, l) == [c EXCEPT !.pending = Append(@, l)]

\* LockSchedCtx::lock, the branch that grants at once.
LEMMA GrantGood ==
  ASSUME NEW c, NEW md, GoodCtx(c, md),
         NEW l \in Locks, l \notin c.running \cup Waiters(c),
         NEW m \in Modes, md[l] = m, ~isConflict(c.runningModes, m),
         NEW d, d = incrRunningRef(With(c, l), m)
  PROVE  /\ GoodCtx(d, md)
         /\ d.running = c.running \cup {l} /\ d.pending = c.pending
         /\ Waiters(d) = Waiters(c)
<1> DEFINE e == [c EXCEPT !.running = @ \cup {l}]
<1>1. c \in LockSchedCtx
  BY Zenon DEF GoodCtx
<1>2. /\ e \in LockSchedCtx
      /\ e.running = c.running \cup {l} /\ e.pending = c.pending
      /\ e.runningModes = c.runningModes /\ e.pendingModes = c.pendingModes
      /\ e.runningRefCnt = c.runningRefCnt /\ e.pendingRefCnt = c.pendingRefCnt
  BY ZenonT(40), <1>1 DEF LockSchedCtx
<1>a. d = incrRunningRef(e, m)
  BY Zenon DEF With
<1> HIDE DEF e
<1>3. /\ d.running = c.running \cup {l} /\ d.pending = c.pending
      /\ d.runningModes = IF c.runningRefCnt[m] = 0 THEN c.runningModes \cup {m} ELSE c.runningModes
      /\ d.pendingModes = c.pendingModes
      /\ d.runningRefCnt = [c.runningRefCnt EXCEPT ![m] = @ + 1]
      /\ d.pendingRefCnt = c.pendingRefCnt
      /\ d \in LockSchedCtx
  BY <1>2, <1>a, IncrRunningFields
<1>4. Waiters(d) = Waiters(c)
  BY <1>3 DEF Waiters, FirstWaiters
<1>5. ListsOK(d, md)
  BY Zenon, <1>3, <1>4 DEF GoodCtx, ListsOK
<1>6. \A x \in Modes : Ask(d.running, md, x)
        = IF x = m THEN Ask(c.running, md, x) + 1 ELSE Ask(c.running, md, x)
  <2>1. c.running \in SUBSET Locks /\ l \in Locks \ c.running
    BY Zenon, <1>1, WaitersType
  <2> QED
    BY <1>3, <2>1, AskAdd
<1>7. /\ c.runningRefCnt \in [Modes -> Nat]
      /\ \A x \in Modes : d.runningRefCnt[x] = IF x = m THEN c.runningRefCnt[x] + 1 ELSE c.runningRefCnt[x]
  BY <1>1, <1>3 DEF LockSchedCtx
<1>8. \A x \in Modes : x \in d.runningModes <=> d.runningRefCnt[x] > 0
  BY <1>3, <1>7 DEF GoodCtx, CountersOK
<1>9. CountersOK(d, md)
  <2>1. \A x \in Modes : /\ d.pendingRefCnt[x] = Ask(Waiters(d), md, x)
                         /\ x \in d.pendingModes <=> d.pendingRefCnt[x] > 0
    BY Zenon, <1>3, <1>4 DEF GoodCtx, CountersOK
  <2>2. \A x \in Modes : c.runningRefCnt[x] = Ask(c.running, md, x)
    BY Zenon DEF GoodCtx, CountersOK
  <2>3. \A x \in Modes : d.runningRefCnt[x] = Ask(d.running, md, x)
    BY <1>6, <1>7, <2>2
  <2> QED
    BY Zenon, <1>8, <2>1, <2>3 DEF CountersOK
<1>10. \A a \in c.running : ~isConflict({md[a]}, m)
  <2> TAKE a \in c.running
  <2>1. md[a] \in Modes
    BY Zenon DEF GoodCtx, ListsOK
  <2>2. Ask(c.running, md, md[a]) > 0
    BY ZenonT(40), <1>1, WaitersType, AskType
  <2>3. md[a] \in c.runningModes
    BY Zenon, <2>1, <2>2 DEF GoodCtx, CountersOK
  <2> QED
    BY ZenonT(40), <2>3, ConflictMember
<1>11. CompatibleIn(d, md)
  BY ZenonT(40), <1>3, <1>10, ConflictSymmetric DEF GoodCtx, CompatibleIn, ListsOK
<1> QED
  BY Zenon, <1>3, <1>4, <1>5, <1>9, <1>11 DEF GoodCtx

\* Replacing the pending list of a context changes nothing else.
LEMMA SetPending ==
  ASSUME NEW c \in LockSchedCtx, NEW q \in Seq(Locks)
  PROVE  LET e == [c EXCEPT !.pending = q] IN
         /\ e \in LockSchedCtx
         /\ e.running = c.running /\ e.pending = q
         /\ e.runningModes = c.runningModes /\ e.pendingModes = c.pendingModes
         /\ e.runningRefCnt = c.runningRefCnt /\ e.pendingRefCnt = c.pendingRefCnt
BY ZenonT(40) DEF LockSchedCtx

\* What std::list::insert at the end does.
LEMMA AppendFacts ==
  ASSUME NEW s \in Seq(Locks), NEW l \in Locks
  PROVE  LET a == Append(s, l) IN
         /\ a \in Seq(Locks) /\ a # <<>>
         /\ Len(a) = Len(s) + 1 /\ a[Len(s) + 1] = l
         /\ \A i \in 1..Len(s) : a[i] = s[i]
<1> DEFINE a == Append(s, l)
<1>1. Len(a) = Len(s) + 1 /\ a[Len(s) + 1] = l /\ Len(s) \in Nat
  OBVIOUS
<1>2. \A i \in 1..Len(s) : a[i] = s[i]
  OBVIOUS
<1>3. a # <<>>
  BY <1>1
<1>4. a \in Seq(Locks)
  OBVIOUS
<1> QED
  BY Zenon, <1>1, <1>2, <1>3, <1>4

\* LockSchedCtx::lock, the branch that queues.
LEMMA QueueGood ==
  ASSUME NEW c, NEW md, GoodCtx(c, md),
         NEW l \in Locks, l \notin c.running \cup Waiters(c),
         NEW m \in Modes, md[l] = m,
         NEW d, d = incrPendingRef(Behind(c, l), m)
  PROVE  /\ GoodCtx(d, md)
         /\ d.running = c.running /\ d.pending # <<>>
         /\ Waiters(d) = Waiters(c) \cup {l}
<1> DEFINE e == [c EXCEPT !.pending = Append(@, l)]
           s == c.pending
           a == Append(s, l)
<1>1. c \in LockSchedCtx /\ s \in Seq(Locks) /\ Len(s) \in Nat
  BY DEF GoodCtx, LockSchedCtx
<1>2. /\ e \in LockSchedCtx
      /\ e.running = c.running /\ e.pending = a
      /\ e.runningModes = c.runningModes /\ e.pendingModes = c.pendingModes
      /\ e.runningRefCnt = c.runningRefCnt /\ e.pendingRefCnt = c.pendingRefCnt
  <2>1. a \in Seq(Locks)
    BY Zenon, <1>1, AppendFacts
  <2> HIDE DEF a
  <2> QED
    BY ZenonT(40), <1>1, <2>1, SetPending DEF a
<1>a. d = incrPendingRef(e, m)
  BY Zenon DEF Behind
<1> HIDE DEF e, a
<1>3. /\ d.running = c.running /\ d.pending = a
      /\ d.pendingModes = IF c.pendingRefCnt[m] = 0 THEN c.pendingModes \cup {m} ELSE c.pendingModes
      /\ d.runningModes = c.runningModes
      /\ d.pendingRefCnt = [c.pendingRefCnt EXCEPT ![m] = @ + 1]
      /\ d.runningRefCnt = c.runningRefCnt
      /\ d \in LockSchedCtx
  <2> DEFINE f == incrPendingRef(e, m)
  <2>1. /\ f.running = e.running /\ f.pending = e.pending
        /\ f.runningModes = e.runningModes /\ f.runningRefCnt = e.runningRefCnt
        /\ f.pendingModes = IF e.pendingRefCnt[m] = 0 THEN e.pendingModes \cup {m} ELSE e.pendingModes
        /\ f.pendingRefCnt = [e.pendingRefCnt EXCEPT ![m] = @ + 1]
        /\ f \in LockSchedCtx
    BY <1>2, IncrPendingFields
  <2>2. d = f
    BY Zenon, <1>a
  <2> HIDE DEF f
  <2> QED
    BY Zenon, <1>2, <2>1, <2>2
<1>4. /\ a # <<>> /\ Len(a) = Len(s) + 1 /\ a[Len(s) + 1] = l
      /\ \A i \in 1..Len(s) : a[i] = s[i]
  BY Zenon, <1>1, AppendFacts DEF a
<1>5. \A i \in 1..(Len(s) + 1) : i \in 1..Len(s) \/ i = Len(s) + 1
  BY <1>1
<1>6. Waiters(c) = {s[i] : i \in 1..Len(s)}
  BY Zenon DEF Waiters, FirstWaiters
<1>7. Waiters(d) = {a[i] : i \in 1..(Len(s) + 1)}
  BY <1>3, <1>4 DEF Waiters, FirstWaiters
<1>8. \A i \in 1..Len(s) : s[i] # l
  BY Zenon, <1>6
<1>9. NoRepeats(s)
  BY Zenon DEF GoodCtx, ListsOK
<1> HIDE DEF s
<1>10. Waiters(d) = Waiters(c) \cup {l}
  <2>1. \A i \in 1..(Len(s) + 1) : a[i] \in Waiters(c) \cup {l}
    BY Zenon, <1>4, <1>5, <1>6
  <2>2. \A i \in 1..Len(s) : i \in 1..(Len(s) + 1)
    BY <1>1
  <2>3. Len(s) + 1 \in 1..(Len(s) + 1)
    BY <1>1
  <2>4. Waiters(c) \cup {l} \subseteq Waiters(d)
    BY Zenon, <1>4, <1>6, <1>7, <2>2, <2>3
  <2>5. Waiters(d) \subseteq Waiters(c) \cup {l}
    BY Zenon, <1>7, <2>1
  <2> QED
    BY Zenon, <2>4, <2>5
<1>11. NoRepeats(a)
  BY Zenon, <1>1, <1>4, <1>5, <1>8, <1>9 DEF NoRepeats
<1>12. ListsOK(d, md)
  BY Zenon, <1>3, <1>10, <1>11 DEF GoodCtx, ListsOK
<1>13. \A x \in Modes : Ask(Waiters(d), md, x)
        = IF x = m THEN Ask(Waiters(c), md, x) + 1 ELSE Ask(Waiters(c), md, x)
  <2>1. Waiters(c) \in SUBSET Locks /\ l \in Locks \ Waiters(c)
    BY Zenon, <1>1, WaitersType
  <2> QED
    BY <1>10, <2>1, AskAdd
<1>14. /\ c.pendingRefCnt \in [Modes -> Nat]
       /\ \A x \in Modes : d.pendingRefCnt[x] = IF x = m THEN c.pendingRefCnt[x] + 1 ELSE c.pendingRefCnt[x]
  BY <1>1, <1>3 DEF LockSchedCtx
<1>15. \A x \in Modes : x \in d.pendingModes <=> d.pendingRefCnt[x] > 0
  BY SMTT(40), <1>3, <1>14 DEF GoodCtx, CountersOK
<1>16. CountersOK(d, md)
  <2>1. \A x \in Modes : d.pendingRefCnt[x] = Ask(Waiters(d), md, x)
    BY <1>13, <1>14 DEF GoodCtx, CountersOK
  <2> QED
    BY <1>3, <1>15, <2>1 DEF GoodCtx, CountersOK
<1>17. CompatibleIn(d, md)
  BY Zenon, <1>3 DEF GoodCtx, CompatibleIn
<1> QED
  BY Zenon, <1>3, <1>4, <1>10, <1>12, <1>16, <1>17 DEF GoodCtx

\* The context without the running lock l, its counters not yet adjusted.
Without(c, l) == [c EXCEPT !.running = @ \ {l}]

\* The first half of LockSchedCtx::unlock of a running lock.
LEMMA ReleaseGood ==
  ASSUME NEW c, NEW md, GoodCtx(c, md), NEW l \in c.running, NEW m, md[l] = m,
         NEW d, d = decRunningRef(Without(c, l), m)
  PROVE  /\ GoodCtx(d, md)
         /\ d.running = c.running \ {l} /\ d.pending = c.pending
         /\ Waiters(d) = Waiters(c)
         /\ (d.runningModes = {}) => (d.running = {})
         /\ (d.running = {}) => (d.runningModes = {})
<1> DEFINE e == Without(c, l)
<1>1. c \in LockSchedCtx /\ c.running \in SUBSET Locks
  BY Zenon DEF GoodCtx, LockSchedCtx
<1>b. m \in Modes /\ c.runningRefCnt[m] > 0
  <2>1. m \in Modes
    BY Zenon DEF GoodCtx, ListsOK
  <2>2. Ask(c.running, md, m) > 0
    BY Zenon, <1>1, AskType
  <2> QED
    BY Zenon, <2>1, <2>2 DEF GoodCtx, CountersOK
<1>2. /\ e \in LockSchedCtx
      /\ e.running = c.running \ {l} /\ e.pending = c.pending
      /\ e.runningModes = c.runningModes /\ e.pendingModes = c.pendingModes
      /\ e.runningRefCnt = c.runningRefCnt /\ e.pendingRefCnt = c.pendingRefCnt
  BY ZenonT(40), <1>1 DEF LockSchedCtx, Without
<1>a. d = decRunningRef(e, m)
  BY Zenon
<1> HIDE DEF e
<1>3. /\ d.running = c.running \ {l} /\ d.pending = c.pending
      /\ d.runningModes = IF c.runningRefCnt[m] = 1 THEN c.runningModes \ {m} ELSE c.runningModes
      /\ d.pendingModes = c.pendingModes
      /\ d.runningRefCnt = [c.runningRefCnt EXCEPT ![m] = @ - 1]
      /\ d.pendingRefCnt = c.pendingRefCnt
      /\ d \in LockSchedCtx
  BY <1>2, <1>a, <1>b, DecRunningFields
<1>4. Waiters(d) = Waiters(c)
  BY <1>3 DEF Waiters, FirstWaiters
<1>5. ListsOK(d, md)
  BY Zenon, <1>3, <1>4 DEF GoodCtx, ListsOK
<1>6. \A x \in Modes : Ask(d.running, md, x)
        = IF x = m THEN Ask(c.running, md, x) - 1 ELSE Ask(c.running, md, x)
  <2> TAKE x \in Modes
  <2>1. Ask(c.running \ {l}, md, x)
          = IF md[l] = x THEN Ask(c.running, md, x) - 1 ELSE Ask(c.running, md, x)
    BY Zenon, <1>1, AskRemove
  <2> QED
    BY Zenon, <1>3, <2>1
<1>7. /\ c.runningRefCnt \in [Modes -> Nat]
      /\ \A x \in Modes : d.runningRefCnt[x] = IF x = m THEN c.runningRefCnt[x] - 1 ELSE c.runningRefCnt[x]
  BY <1>1, <1>3 DEF LockSchedCtx
<1>8. \A x \in Modes : x \in d.runningModes <=> d.runningRefCnt[x] > 0
  BY SMTT(40), <1>3, <1>7, <1>b DEF GoodCtx, CountersOK
<1>9. CountersOK(d, md)
  <2>1. \A x \in Modes : d.runningRefCnt[x] = Ask(d.running, md, x)
    BY Zenon, <1>6, <1>7 DEF GoodCtx, CountersOK
  <2> QED
    BY SMTT(40), <1>3, <1>4, <1>8, <2>1 DEF GoodCtx, CountersOK
<1>10. CompatibleIn(d, md)
  BY ZenonT(40), <1>3 DEF GoodCtx, CompatibleIn
<1>11. d.runningModes = {} <=> d.running = {}
  <2>1. \A x \in Modes : x \in d.runningModes <=> \E y \in d.running : md[y] = x
    <3> TAKE x \in Modes
    <3>1. d.running \in SUBSET Locks
      BY Zenon, <1>1, <1>3
    <3>2. Ask(d.running, md, x) > 0 <=> \E y \in d.running : md[y] = x
      BY <3>1, AskType
    <3> QED
      BY <1>9, <3>2 DEF CountersOK
  <2>2. d.runningModes \subseteq Modes /\ \A y \in d.running : md[y] \in Modes
    BY Zenon, <1>3, <1>5 DEF LockSchedCtx, ListsOK
  <2> QED
    BY Zenon, <2>1, <2>2
<1> QED
  BY Zenon, <1>3, <1>4, <1>5, <1>9, <1>10, <1>11 DEF GoodCtx

\* The first half of LockSchedCtx::unlock of a waiting lock.
LEMMA WithdrawGood ==
  ASSUME NEW c, NEW md, GoodCtx(c, md), NEW l \in Waiters(c), NEW m, md[l] = m,
         NEW d, d = decPendingRef([c EXCEPT !.pending = Erase(@, l)], m)
  PROVE  /\ GoodCtx(d, md)
         /\ d.running = c.running
         /\ Waiters(d) = Waiters(c) \ {l}
<1> DEFINE s == c.pending
           q == Erase(s, l)
           e == [c EXCEPT !.pending = q]
<1>1. c \in LockSchedCtx /\ s \in Seq(Locks) /\ Waiters(c) \in SUBSET Locks
  BY Zenon, WaitersType DEF GoodCtx, LockSchedCtx
<1>2. Waiters(c) = {s[i] : i \in 1..Len(s)}
  BY Zenon DEF Waiters, FirstWaiters
<1>3. PICK k \in 1..Len(s) : s[k] = l
  BY Zenon, <1>2
<1>4. NoRepeats(s)
  BY Zenon DEF GoodCtx, ListsOK
<1>5. /\ q \in Seq(Locks) /\ NoRepeats(q)
      /\ {q[i] : i \in 1..Len(q)} = {s[i] : i \in 1..Len(s)} \ {l}
  <2> HIDE DEF s
  <2>1. /\ Erase(s, s[k]) \in Seq(Locks) /\ NoRepeats(Erase(s, s[k]))
        /\ {Erase(s, s[k])[i] : i \in 1..Len(Erase(s, s[k]))}
             = {s[i] : i \in 1..Len(s)} \ {s[k]}
    <3>1. Erase(s, s[k]) \in Seq(Locks)
      BY Zenon, <1>1, <1>4, EraseFacts
    <3> QED
      BY ZenonT(40), <1>1, <1>4, <3>1, EraseWaiters
  <2> QED
    BY ZenonT(40), <1>3, <2>1
<1>6. m \in Modes /\ c.pendingRefCnt[m] > 0
  <2>1. m \in Modes
    BY Zenon DEF GoodCtx, ListsOK
  <2>2. Ask(Waiters(c), md, m) > 0
    BY Zenon, <1>1, AskType
  <2> QED
    BY Zenon, <2>1, <2>2 DEF GoodCtx, CountersOK
<1> HIDE DEF q
<1>7. /\ e \in LockSchedCtx
      /\ e.running = c.running /\ e.pending = q
      /\ e.runningModes = c.runningModes /\ e.pendingModes = c.pendingModes
      /\ e.runningRefCnt = c.runningRefCnt /\ e.pendingRefCnt = c.pendingRefCnt
  BY Zenon, <1>1, <1>5, SetPending
<1>8. d = decPendingRef(e, m)
  BY Zenon DEF q
<1> HIDE DEF e
<1>9. /\ d.running = c.running /\ d.pending = q
      /\ d.pendingModes = IF c.pendingRefCnt[m] = 1 THEN c.pendingModes \ {m} ELSE c.pendingModes
      /\ d.runningModes = c.runningModes
      /\ d.pendingRefCnt = [c.pendingRefCnt EXCEPT ![m] = @ - 1]
      /\ d.runningRefCnt = c.runningRefCnt
      /\ d \in LockSchedCtx
  <2> DEFINE f == decPendingRef(e, m)
  <2>1. /\ f.running = e.running /\ f.pending = e.pending
        /\ f.runningModes = e.runningModes /\ f.runningRefCnt = e.runningRefCnt
        /\ f.pendingModes = IF e.pendingRefCnt[m] = 1 THEN e.pendingModes \ {m} ELSE e.pendingModes
        /\ f.pendingRefCnt = [e.pendingRefCnt EXCEPT ![m] = @ - 1]
        /\ f \in LockSchedCtx
    BY ZenonT(40), <1>6, <1>7, DecPendingFields
  <2>2. d = f
    BY Zenon, <1>8
  <2> HIDE DEF f
  <2> QED
    BY Zenon, <1>7, <2>1, <2>2
<1>10. Waiters(d) = Waiters(c) \ {l}
  <2>1. Waiters(d) = {q[i] : i \in 1..Len(q)}
    BY <1>9 DEF Waiters, FirstWaiters
  <2> QED
    BY Zenon, <1>2, <1>5, <2>1
<1>11. ListsOK(d, md)
  BY ZenonT(40), <1>5, <1>9, <1>10 DEF GoodCtx, ListsOK
<1>12. \A x \in Modes : Ask(Waiters(d), md, x)
        = IF x = m THEN Ask(Waiters(c), md, x) - 1 ELSE Ask(Waiters(c), md, x)
  BY <1>1, <1>10, AskRemove
<1>13. /\ c.pendingRefCnt \in [Modes -> Nat]
       /\ \A x \in Modes : d.pendingRefCnt[x] = IF x = m THEN c.pendingRefCnt[x] - 1 ELSE c.pendingRefCnt[x]
  BY <1>1, <1>9 DEF LockSchedCtx
<1>14. \A x \in Modes : x \in d.pendingModes <=> d.pendingRefCnt[x] > 0
  BY <1>6, <1>9, <1>13 DEF GoodCtx, CountersOK
<1>15. CountersOK(d, md)
  <2>1. \A x \in Modes : d.pendingRefCnt[x] = Ask(Waiters(d), md, x)
    BY Zenon, <1>12, <1>13 DEF GoodCtx, CountersOK
  <2> QED
    BY <1>9, <1>14, <2>1 DEF GoodCtx, CountersOK
<1>16. CompatibleIn(d, md)
  BY ZenonT(40), <1>9 DEF GoodCtx, CompatibleIn
<1> QED
  BY Zenon, <1>9, <1>10, <1>11, <1>15, <1>16 DEF GoodCtx

\* What is left of the pending list when its first n elements are granted.
LEMMA SubSeqFacts ==
  ASSUME NEW s \in Seq(Locks), NoRepeats(s), NEW n \in 0..Len(s)
  PROVE  LET q == SubSeq(s, n + 1, Len(s)) IN
         /\ q \in Seq(Locks) /\ NoRepeats(q) /\ Len(q) = Len(s) - n
         /\ \A i \in 1..Len(q) : q[i] = s[i + n]
         /\ {q[i] : i \in 1..Len(q)} = {s[i] : i \in 1..Len(s)} \ {s[i] : i \in 1..n}
<1> DEFINE q == SubSeq(s, n + 1, Len(s))
<1>1. Len(s) \in Nat /\ Len(s) - n \in Nat
  OBVIOUS
<1>2. Len(q) = Len(s) - n /\ \A i \in 1..Len(q) : q[i] = s[i + n]
  BY <1>1
<1>3. q \in Seq(Locks)
  BY <1>1
<1> HIDE DEF q
<1>4. NoRepeats(q)
  BY SMTT(40), <1>1, <1>2 DEF NoRepeats
<1>5. \A i \in 1..Len(q) : q[i] \in {s[j] : j \in 1..Len(s)} \ {s[j] : j \in 1..n}
  <2> TAKE i \in 1..Len(q)
  <2>1. i + n \in 1..Len(s) /\ q[i] = s[i + n] /\ \A j \in 1..n : j \in 1..Len(s) /\ j # i + n
    BY <1>1, <1>2
  <2> QED
    BY Zenon, <2>1 DEF NoRepeats
<1>6. \A j \in 1..Len(s) : j \notin 1..n => s[j] \in {q[i] : i \in 1..Len(q)}
  <2> TAKE j \in 1..Len(s)
  <2> HAVE j \notin 1..n
  <2>1. j - n \in 1..Len(q) /\ q[j - n] = s[j]
    BY <1>1, <1>2
  <2> QED
    BY Zenon, <2>1
<1>7. {q[i] : i \in 1..Len(q)} = {s[i] : i \in 1..Len(s)} \ {s[i] : i \in 1..n}
  BY Zenon, <1>5, <1>6
<1> QED
  BY ZenonT(40), <1>2, <1>3, <1>4, <1>7 DEF q

\* Locks that are granted together are compatible with what runs and with each
\* other (the test of schedPendingLocks at every turn of its loop).
LEMMA GrantedCompatible ==
  ASSUME NEW c, GoodCtx(c, mode), NEW n \in 0..Len(c.pending),
         \A j \in 1..n : CanRun(c, j),
         NEW d, d.running = c.running \cup FirstWaiters(c, n)
  PROVE  CompatibleIn(d, mode)
<1>1. /\ c \in LockSchedCtx /\ Len(c.pending) \in Nat
      /\ c.running \in SUBSET Locks
      /\ \A l \in c.running : mode[l] \in Modes
      /\ \A i \in 1..Len(c.pending) : mode[c.pending[i]] \in Modes
  BY Zenon, WaitersType DEF GoodCtx, ListsOK, Waiters, FirstWaiters
<1>2. \A l \in c.running : mode[l] \in c.runningModes
  <2> TAKE l \in c.running
  <2>1. Ask(c.running, mode, mode[l]) > 0
    BY ZenonT(40), <1>1, AskType
  <2> QED
    BY ZenonT(40), <1>1, <2>1 DEF GoodCtx, CountersOK
<1>3. \A l \in c.running : \A j \in 1..n :
        /\ ~isConflict({mode[l]}, mode[c.pending[j]])
        /\ ~isConflict({mode[c.pending[j]]}, mode[l])
  <2> SUFFICES ASSUME NEW l \in c.running, NEW j \in 1..n
               PROVE  /\ ~isConflict({mode[l]}, mode[c.pending[j]])
                      /\ ~isConflict({mode[c.pending[j]]}, mode[l])
    BY ZenonT(40)
  <2>1. ~isConflict({mode[l]}, mode[c.pending[j]])
    BY ZenonT(40), <1>2, ConflictMember DEF CanRun
  <2>2. mode[l] \in Modes /\ mode[c.pending[j]] \in Modes
    BY <1>1
  <2> QED
    BY Zenon, <2>1, <2>2, ConflictSymmetric
<1>4. \A i, j \in 1..n : i < j =>
        /\ ~isConflict({mode[c.pending[i]]}, mode[c.pending[j]])
        /\ ~isConflict({mode[c.pending[j]]}, mode[c.pending[i]])
  <2> SUFFICES ASSUME NEW i \in 1..n, NEW j \in 1..n, i < j
               PROVE  /\ ~isConflict({mode[c.pending[i]]}, mode[c.pending[j]])
                      /\ ~isConflict({mode[c.pending[j]]}, mode[c.pending[i]])
    BY ZenonT(40)
  <2>1. i \in 1..(j - 1)
    BY <1>1
  <2>2. mode[c.pending[i]] \in {mode[l] : l \in FirstWaiters(c, j - 1)}
    BY Zenon, <2>1 DEF FirstWaiters
  <2>3. ~isConflict({mode[c.pending[i]]}, mode[c.pending[j]])
    BY ZenonT(40), <2>2, ConflictMember DEF CanRun
  <2>4. mode[c.pending[i]] \in Modes /\ mode[c.pending[j]] \in Modes
    BY <1>1
  <2> QED
    BY Zenon, <2>3, <2>4, ConflictSymmetric
<1>5. \A l \in FirstWaiters(c, n) : \E i \in 1..n : l = c.pending[i]
  BY Zenon DEF FirstWaiters
<1> SUFFICES ASSUME NEW a \in d.running, NEW b \in d.running, a # b
             PROVE  ~isConflict({mode[a]}, mode[b])
  BY ZenonT(40) DEF CompatibleIn
<1>6. CASE a \in c.running /\ b \in c.running
  BY ZenonT(40), <1>6 DEF GoodCtx, CompatibleIn
<1>7. CASE a \in c.running /\ b \in FirstWaiters(c, n)
  BY ZenonT(40), <1>3, <1>5, <1>7
<1>8. CASE a \in FirstWaiters(c, n) /\ b \in c.running
  BY ZenonT(40), <1>3, <1>5, <1>8
<1>9. CASE a \in FirstWaiters(c, n) /\ b \in FirstWaiters(c, n)
  <2>1. PICK i \in 1..n : a = c.pending[i]
    BY Zenon, <1>5, <1>9
  <2>2. PICK j \in 1..n : b = c.pending[j]
    BY Zenon, <1>5, <1>9
  <2>3. i < j \/ j < i
    BY <1>1, <2>1, <2>2
  <2> QED
    BY ZenonT(40), <1>4, <2>1, <2>2, <2>3
<1> QED
  BY Zenon, <1>6, <1>7, <1>8, <1>9

\* Scheduling moves waiters to the running set and keeps the context consistent.
LEMMA ScheduleGood ==
  ASSUME NEW c, GoodCtx(c, mode), NEW d, d = schedPendingLocks(c)
  PROVE  /\ GoodCtx(d, mode)
         /\ d.running = c.running \cup FirstWaiters(c, NumGranted(c))
         /\ Waiters(d) = Waiters(c) \ FirstWaiters(c, NumGranted(c))
         /\ FirstWaiters(c, NumGranted(c)) \subseteq Waiters(c)
<1> DEFINE n == NumGranted(c)
           s == c.pending
           G == FirstWaiters(c, n)
           q == SubSeq(s, n + 1, Len(s))
<1>1. /\ c \in LockSchedCtx /\ s \in Seq(Locks) /\ Len(s) \in Nat
      /\ c.running \in SUBSET Locks /\ Waiters(c) \in SUBSET Locks
      /\ c.runningRefCnt \in [Modes -> Nat] /\ c.pendingRefCnt \in [Modes -> Nat]
      /\ c.runningModes \in SUBSET Modes /\ c.pendingModes \in SUBSET Modes
      /\ NoRepeats(s) /\ c.running \cap Waiters(c) = {}
  BY ZenonT(40), WaitersType DEF GoodCtx, LockSchedCtx, ListsOK
<1>2. /\ n \in 0..Len(s) /\ n \in Nat
      /\ \A j \in 1..n : CanRun(c, j)
  <2>1. /\ n \in 0..Len(s)
        /\ \A i \in 1..Len(s) : i <= n <=> \A j \in 1..i : CanRun(c, j)
    BY Zenon, <1>1, NumGrantedDef
  <2> HIDE DEF n
  <2>2. \A j \in 1..n : j \in 1..Len(s) /\ j \in 1..j
    BY <1>1, <2>1
  <2>3. \A j \in 1..n : j <= n
    BY <1>1, <2>1
  <2> QED
    BY <1>1, <2>1, <2>2, <2>3
<1>3. d = Schedule(c, n)
  BY Zenon DEF schedPendingLocks
<1> HIDE DEF n
<1>4. /\ d.running = c.running \cup G /\ d.pending = q
      /\ d.runningModes = c.runningModes \cup {mode[l] : l \in G}
      /\ d.pendingModes = {m \in c.pendingModes : d.pendingRefCnt[m] # 0}
      /\ d.runningRefCnt = [m \in Modes |-> c.runningRefCnt[m] + Ask(G, mode, m)]
      /\ d.pendingRefCnt = [m \in Modes |-> c.pendingRefCnt[m] - Ask(G, mode, m)]
      /\ d = [running |-> d.running, pending |-> d.pending,
              runningModes |-> d.runningModes, pendingModes |-> d.pendingModes,
              runningRefCnt |-> d.runningRefCnt, pendingRefCnt |-> d.pendingRefCnt]
  <2> DEFINE rcnt == [m \in Modes |-> c.runningRefCnt[m] + Asking(G, m)]
             pcnt == [m \in Modes |-> c.pendingRefCnt[m] - Asking(G, m)]
             rms == c.runningModes \cup {mode[l] : l \in G}
             pms == {m \in c.pendingModes : pcnt[m] # 0}
             run == c.running \cup G
  <2>1. d = [running |-> run, pending |-> q, runningModes |-> rms, pendingModes |-> pms,
             runningRefCnt |-> rcnt, pendingRefCnt |-> pcnt]
    BY Zenon, <1>3 DEF Schedule
  <2>2. /\ rcnt = [m \in Modes |-> c.runningRefCnt[m] + Ask(G, mode, m)]
        /\ pcnt = [m \in Modes |-> c.pendingRefCnt[m] - Ask(G, mode, m)]
    BY Zenon DEF Asking, Ask
  <2>3. pms = {m \in c.pendingModes : pcnt[m] # 0}
    BY Zenon
  <2> HIDE DEF rcnt, pcnt, pms, run, q, rms
  <2>4. /\ d.running = run /\ d.pending = q
        /\ d.runningModes = rms /\ d.pendingModes = pms
        /\ d.runningRefCnt = rcnt /\ d.pendingRefCnt = pcnt
    BY <2>1
  <2> QED
    BY <2>1, <2>2, <2>3, <2>4 DEF run, rms
<1>5. /\ q \in Seq(Locks) /\ NoRepeats(q)
      /\ {q[i] : i \in 1..Len(q)} = {s[i] : i \in 1..Len(s)} \ {s[i] : i \in 1..n}
  BY ZenonT(40), <1>1, <1>2, SubSeqFacts
<1> HIDE DEF q
<1>6. Waiters(c) = {s[i] : i \in 1..Len(s)} /\ G = {s[i] : i \in 1..n}
  BY Zenon DEF Waiters, FirstWaiters
<1>7. Waiters(d) = {q[i] : i \in 1..Len(q)}
  BY <1>4 DEF Waiters, FirstWaiters
<1>8. Waiters(d) = Waiters(c) \ G
  BY ZenonT(40), <1>5, <1>6, <1>7
<1>9. G \subseteq Waiters(c)
  <2>1. \A i \in 1..n : i \in 1..Len(s)
    BY <1>1, <1>2
  <2> QED
    BY Zenon, <1>6, <2>1
<1> HIDE DEF G
<1>10. G \in SUBSET Locks /\ G \cap c.running = {} /\ Waiters(d) \in SUBSET Locks
  BY Zenon, <1>1, <1>8, <1>9
<1>11. ListsOK(d, mode)
  BY Zenon, <1>4, <1>5, <1>8, <1>9, <1>1 DEF GoodCtx, ListsOK
<1>12. \A m \in Modes :
         /\ Ask(d.running, mode, m) = Ask(c.running, mode, m) + Ask(G, mode, m)
         /\ Ask(Waiters(c), mode, m) = Ask(Waiters(d), mode, m) + Ask(G, mode, m)
         /\ Ask(G, mode, m) \in Nat /\ Ask(Waiters(d), mode, m) \in Nat
  <2> TAKE m \in Modes
  <2>1. Ask(d.running, mode, m) = Ask(c.running, mode, m) + Ask(G, mode, m)
    BY <1>1, <1>4, <1>10, AskUnion
  <2>2. Waiters(c) = Waiters(d) \cup G /\ Waiters(d) \cap G = {}
    BY Zenon, <1>8, <1>9
  <2>3. Ask(Waiters(c), mode, m) = Ask(Waiters(d), mode, m) + Ask(G, mode, m)
    BY <1>10, <2>2, AskUnion
  <2> QED
    BY ZenonT(40), <1>10, <2>1, <2>3, AskType
<1>13. \A m \in Modes :
         /\ d.runningRefCnt[m] = Ask(d.running, mode, m)
         /\ d.pendingRefCnt[m] = Ask(Waiters(d), mode, m)
         /\ d.runningRefCnt[m] \in Nat /\ d.pendingRefCnt[m] \in Nat
  <2> TAKE m \in Modes
  <2>1. /\ c.runningRefCnt[m] = Ask(c.running, mode, m) /\ c.runningRefCnt[m] \in Nat
        /\ c.pendingRefCnt[m] = Ask(Waiters(c), mode, m) /\ c.pendingRefCnt[m] \in Nat
    BY Zenon, <1>1 DEF GoodCtx, CountersOK
  <2>2. /\ d.runningRefCnt[m] = c.runningRefCnt[m] + Ask(G, mode, m)
        /\ d.pendingRefCnt[m] = c.pendingRefCnt[m] - Ask(G, mode, m)
    BY Zenon, <1>4
  <2> QED
    BY SMTT(40), <1>12, <2>1, <2>2
<1>14. d.runningRefCnt \in [Modes -> Nat] /\ d.pendingRefCnt \in [Modes -> Nat]
  BY Zenon, <1>4, <1>13
<1>15. \A m \in Modes : m \in d.runningModes <=> d.runningRefCnt[m] > 0
  <2> TAKE m \in Modes
  <2>1. Ask(G, mode, m) > 0 <=> \E l \in G : mode[l] = m
    BY SMTT(40), <1>10, AskType
  <2>2. m \in c.runningModes <=> c.runningRefCnt[m] > 0
    BY Zenon DEF GoodCtx, CountersOK
  <2>3. d.runningRefCnt[m] = c.runningRefCnt[m] + Ask(G, mode, m)
    BY Zenon, <1>4
  <2> QED
    BY SMTT(40), <1>1, <1>4, <1>12, <2>1, <2>2, <2>3
<1>16. \A m \in Modes : m \in d.pendingModes <=> d.pendingRefCnt[m] > 0
  <2> TAKE m \in Modes
  <2>1. m \in c.pendingModes <=> c.pendingRefCnt[m] > 0
    BY Zenon DEF GoodCtx, CountersOK
  <2>2. d.pendingRefCnt[m] = c.pendingRefCnt[m] - Ask(G, mode, m)
    BY Zenon, <1>4
  <2> QED
    BY <1>1, <1>4, <1>12, <1>13, <2>1, <2>2
<1>17. CountersOK(d, mode)
  BY Zenon, <1>13, <1>15, <1>16 DEF CountersOK
<1>18. CompatibleIn(d, mode)
  BY SMTT(40), <1>2, <1>4, GrantedCompatible DEF G
<1>19. d \in LockSchedCtx
  <2>1. d.runningModes \in SUBSET Modes
    BY SMTT(40), <1>1, <1>4, <1>9 DEF GoodCtx, ListsOK
  <2>2. d.pendingModes \in SUBSET Modes /\ d.running \in SUBSET Locks /\ d.pending \in Seq(Locks)
    BY Zenon, <1>1, <1>4, <1>5, <1>10
  <2> QED
    BY ZenonT(40), <1>4, <1>14, <2>1, <2>2 DEF LockSchedCtx
<1> QED
  BY Zenon, <1>4, <1>8, <1>9, <1>11, <1>17, <1>18, <1>19 DEF GoodCtx, G, n

\* If nothing runs, the head of the pending list is always granted.
LEMMA ScheduleProgress ==
  ASSUME NEW c, GoodCtx(c, mode), c.running = {}, c.runningModes = {}, c.pending # <<>>,
         NEW d, d = schedPendingLocks(c)
  PROVE  d.running # {}
<1>1. c \in LockSchedCtx /\ c.pending \in Seq(Locks)
  BY Zenon DEF GoodCtx, LockSchedCtx
<1>2. 1 \in 1..Len(c.pending)
  BY <1>1
<1>3. FirstWaiters(c, 1 - 1) = {}
  BY DEF FirstWaiters
<1>4. CanRun(c, 1)
  BY Zenon, <1>3 DEF CanRun, isConflict
<1>5. \A j \in 1..1 : CanRun(c, j)
  BY <1>4
<1>6. NumGranted(c) \in 0..Len(c.pending) /\ 1 <= NumGranted(c)
  BY Zenon, <1>1, <1>2, <1>5, NumGrantedDef
<1>7. 1 \in 1..NumGranted(c)
  BY <1>1, <1>6
<1>8. c.pending[1] \in FirstWaiters(c, NumGranted(c))
  BY Zenon, <1>7 DEF FirstWaiters
<1> QED
  BY Zenon, <1>8, ScheduleGood

\* LockSchedCtx::unlock: the context stays consistent, exactly the lock that
\* unlocks leaves it, nobody stops running, and nobody is left stranded.
LEMMA UnlockGood ==
  ASSUME NEW c, GoodCtx(c, mode), NEW l, NEW d,
         c.running = {} => c.pending = <<>>,
         \/ l \in c.running /\ d = UnlockRunning(c, l)
         \/ l \in Waiters(c) /\ d = UnlockPending(c, l)
  PROVE  /\ GoodCtx(d, mode)
         /\ d.running \cup Waiters(d) = (c.running \cup Waiters(c)) \ {l}
         /\ c.running \ {l} \subseteq d.running
         /\ Waiters(d) \subseteq Waiters(c)
         /\ d.running = {} => d.pending = <<>>
<1>a. c.running \cap Waiters(c) = {}
  BY Zenon DEF GoodCtx, ListsOK
<1>1. CASE l \in c.running /\ d = UnlockRunning(c, l)
  <2>0. PICK e : e = decRunningRef(Without(c, l), mode[l])
    BY Zenon
  <2>1. /\ GoodCtx(e, mode)
        /\ e.running = c.running \ {l} /\ e.pending = c.pending
        /\ Waiters(e) = Waiters(c)
        /\ (e.runningModes = {}) => (e.running = {})
        /\ (e.running = {}) => (e.runningModes = {})
    BY SMTT(40), <1>1, <2>0, ReleaseGood
  <2>2. d = IF e.runningModes # {} THEN e ELSE schedPendingLocks(e)
    BY Zenon, <1>1, <2>0 DEF UnlockRunning, Without
  <2>3. CASE e.runningModes # {}
    BY Zenon, <1>a, <1>1, <2>1, <2>2, <2>3
  <2>4. CASE e.runningModes = {}
    <3>1. d = schedPendingLocks(e)
      BY Zenon, <2>2, <2>4
    <3> DEFINE G == FirstWaiters(e, NumGranted(e))
    <3>2. /\ GoodCtx(d, mode)
          /\ d.running = e.running \cup G
          /\ Waiters(d) = Waiters(e) \ G
          /\ G \subseteq Waiters(e)
      BY Zenon, <2>1, <3>1, ScheduleGood
    <3>3. ASSUME d.running = {} PROVE d.pending = <<>>
      <4>1. e.pending = <<>>
        BY Zenon, <2>1, <2>4, <3>1, <3>3, ScheduleProgress
      <4>2. Waiters(e) = {}
        BY SMTT(40), <4>1 DEF Waiters, FirstWaiters
      <4>3. Waiters(d) = {} /\ d.pending \in Seq(Locks)
        BY Zenon, <3>2, <4>2 DEF GoodCtx, LockSchedCtx
      <4>4. Len(d.pending) \in Nat /\ \A i \in 1..Len(d.pending) : FALSE
        <5>1. \A i \in 1..Len(d.pending) : d.pending[i] \in Waiters(d)
          BY Zenon DEF Waiters, FirstWaiters
        <5> QED
          BY <4>3, <5>1
      <4>5. Len(d.pending) = 0
        <5>1. Len(d.pending) # 0 => 1 \in 1..Len(d.pending)
          BY <4>4
        <5> QED
          BY Zenon, <4>4, <5>1
      <4> QED
        BY <4>3, <4>5
    <3> HIDE DEF G
    <3> QED
      BY SMTT(40), <1>a, <1>1, <2>1, <3>2, <3>3
  <2> QED
    BY Zenon, <2>3, <2>4
<1>2. CASE l \in Waiters(c) /\ d = UnlockPending(c, l)
  <2> DEFINE e == decPendingRef([c EXCEPT !.pending = Erase(@, l)], mode[l])
  <2>1. /\ GoodCtx(e, mode)
        /\ e.running = c.running
        /\ Waiters(e) = Waiters(c) \ {l}
    BY <1>2, WithdrawGood
  <2>2. d = schedPendingLocks(e)
    BY Zenon, <1>2 DEF UnlockPending
  <2> HIDE DEF e
  <2> DEFINE G == FirstWaiters(e, NumGranted(e))
  <2>3. /\ GoodCtx(d, mode)
        /\ d.running = e.running \cup G
        /\ Waiters(d) = Waiters(e) \ G
        /\ G \subseteq Waiters(e)
    BY Zenon, <2>1, <2>2, ScheduleGood
  <2> HIDE DEF G
  <2>4. c.running # {}
    <3>1. SUFFICES ASSUME c.running = {} PROVE FALSE
      BY Zenon
    <3>2. c.pending = <<>>
      BY Zenon, <3>1
    <3>3. Waiters(c) = {}
      BY <3>2 DEF Waiters, FirstWaiters
    <3> QED
      BY Zenon, <1>2, <3>3
  <2> QED
    BY <1>a, <1>2, <2>1, <2>3, <2>4
<1> QED
  BY Zenon, <1>1, <1>2

-----------------------------------------------------------------------------
(* The inductive invariant                                                 *)

IInv ==
  /\ TypeOK
  /\ \A l \in Locks : caller[l] = "idle" <=> target[l] = NoTarget
  /\ \A t \in Targets : GoodCtx(ctx[t], mode)
  /\ ResultMatchesLists
  /\ NoStrandedWaiter
  /\ MapEntryWhileUsed

\* The context MGLockMgr::lock uses is consistent and has the waiters and the
\* runners of ctx[t], whether the entry is there or has to be created.
LEMMA CtxOfGood ==
  ASSUME IInv, NEW t \in Targets
  PROVE  /\ GoodCtx(CtxOf(t), mode)
         /\ CtxOf(t).running = ctx[t].running
         /\ Waiters(CtxOf(t)) = Waiters(ctx[t])
<1>1. CASE t \in shardMap
  BY Zenon, <1>1 DEF IInv, CtxOf
<1>2. CASE t \notin shardMap
  <2>1. \A l \in Locks : target[l] # t
    BY Zenon, <1>2 DEF IInv, MapEntryWhileUsed
  <2>2. \A l \in Locks : l \notin ctx[t].running /\ l \notin Waiters(ctx[t])
    BY Zenon, <2>1 DEF IInv, ResultMatchesLists
  <2>3. ctx[t] \in LockSchedCtx
    BY Zenon DEF IInv, TypeOK
  <2>4. ctx[t].running = {} /\ Waiters(ctx[t]) = {}
    BY Zenon, <2>2, <2>3, WaitersType
  <2>5. NewCtx.running = {}
    BY Zenon DEF NewCtx
  <2> QED
    BY Zenon, <1>2, <2>4, <2>5, NewCtxGood DEF CtxOf
<1> QED
  BY Zenon, <1>1, <1>2

\* A lock object whose thread is not inside lock()/unlock() is in no list.
LEMMA IdleNowhere ==
  ASSUME IInv, NEW l \in Locks, caller[l] = "idle", NEW t \in Targets
  PROVE  l \notin ctx[t].running \cup Waiters(ctx[t])
<1>1. res[l] = "UNINITED"
  BY Zenon DEF IInv, ResultMatchesLists
<1> QED
  BY Zenon, <1>1 DEF IInv, ResultMatchesLists

\* Contexts the step does not touch stay consistent when the mode of a lock
\* outside their lists changes.
LEMMA OthersGood ==
  ASSUME IInv, NEW l \in Locks, NEW t \in Targets, NEW m,
         mode' = [mode EXCEPT ![l] = m],
         l \notin ctx[t].running \cup Waiters(ctx[t])
  PROVE  GoodCtx(ctx[t], mode')
<1>1. GoodCtx(ctx[t], mode) /\ ctx[t] \in LockSchedCtx
  BY Zenon DEF IInv, TypeOK
<1>2. ctx[t].running \cup Waiters(ctx[t]) \subseteq Locks
  BY Zenon, <1>1, WaitersType
<1>3. \A x \in ctx[t].running \cup Waiters(ctx[t]) : mode'[x] = mode[x]
  BY Zenon, <1>2 DEF IInv, TypeOK
<1> QED
  BY ZenonT(40), <1>1, <1>3, GoodCtxOtherModes

\* Initially the invariant holds.
LEMMA InitIInv == Init => IInv
<1> SUFFICES ASSUME Init PROVE IInv
  BY Zenon
<1>1. \A t \in Targets : ctx[t] = NewCtx
  BY Zenon DEF Init
<1>2. GoodCtx(NewCtx, mode) /\ Waiters(NewCtx) = {} /\ NewCtx \in LockSchedCtx
  BY Zenon, NewCtxGood DEF GoodCtx
<1>3. NewCtx.running = {} /\ NewCtx.pending = <<>>
  BY Zenon DEF NewCtx
<1>4. TypeOK
  BY Zenon, <1>2 DEF Init, TypeOK, LockRes, Callers
<1>5. ResultMatchesLists
  BY SMTT(40), <1>1, <1>2, <1>3 DEF Init, ResultMatchesLists
<1>6. NoStrandedWaiter /\ MapEntryWhileUsed
  BY Zenon, <1>1, <1>3, TargetsNamed DEF Init, NoStrandedWaiter, MapEntryWhileUsed
<1> QED
  BY Zenon, <1>1, <1>2, <1>4, <1>5, <1>6 DEF Init, IInv

\* WakeUp and Timeout only move the calling thread.
LEMMA ReturnIInv ==
  ASSUME IInv, NEW l \in Locks, WakeUp(l) \/ Timeout(l)
  PROVE  IInv'
<1>1. UNCHANGED <<mode, target, res, shardMap, ctx>>
  BY Zenon DEF WakeUp, Timeout
<1>2. /\ caller[l] = "waiting"
      /\ \/ res[l] = "OK" /\ caller' = [caller EXCEPT ![l] = "locked"]
         \/ res[l] # "OK" /\ caller' = [caller EXCEPT ![l] = "timedout"]
  BY Zenon DEF WakeUp, Timeout
<1>3. TypeOK'
  BY Zenon, <1>1, <1>2 DEF IInv, TypeOK, Callers
<1>4. \A x \in Locks : /\ caller'[x] = "idle" <=> caller[x] = "idle"
                       /\ caller'[x] = "locked" => caller[x] = "locked" \/ res[x] = "OK"
  BY Zenon, <1>2 DEF IInv, TypeOK
<1>5. (\A x \in Locks : caller[x] = "idle" <=> target[x] = NoTarget)'
  BY Zenon, <1>1, <1>4 DEF IInv
<1>6. ResultMatchesLists'
  BY SMTT(40), <1>1, <1>4 DEF IInv, ResultMatchesLists, Waiters, FirstWaiters
<1>7. NoStrandedWaiter' /\ MapEntryWhileUsed'
  BY Zenon, <1>1 DEF IInv, NoStrandedWaiter, MapEntryWhileUsed
<1>8. \A t \in Targets : GoodCtx(ctx'[t], mode')
  BY Zenon, <1>1 DEF IInv
<1> QED
  BY Zenon, <1>3, <1>5, <1>6, <1>7, <1>8 DEF IInv

\* What both branches of MGLock::lock share: the lists of the other targets and
\* the results of the other locks do not change.
LEMMA LockIInv ==
  ASSUME IInv, NEW l \in Locks, NEW t \in Targets, NEW m \in Modes,
         StartLock(l, t, m), NEW d, NEW r, NEW k,
         ctx' = [ctx EXCEPT ![t] = d],
         res' = [res EXCEPT ![l] = r],
         caller' = [caller EXCEPT ![l] = k],
         GoodCtx(d, mode'),
         \/ /\ r = "OK" /\ k = "locked"
            /\ d.running = ctx[t].running \cup {l} /\ Waiters(d) = Waiters(ctx[t])
         \/ /\ r = "WAIT" /\ k = "waiting"
            /\ d.running = ctx[t].running /\ Waiters(d) = Waiters(ctx[t]) \cup {l},
         d.running # {}
  PROVE  IInv'
<1>1. /\ caller[l] = "idle" /\ target[l] = NoTarget
      /\ mode' = [mode EXCEPT ![l] = m]
      /\ target' = [target EXCEPT ![l] = t]
      /\ shardMap' = shardMap \cup {t}
  BY Zenon DEF StartLock, IInv
<1>2. d \in LockSchedCtx
  BY Zenon DEF GoodCtx
<1>3. TypeOK'
  BY Zenon, <1>1, <1>2 DEF IInv, TypeOK, LockRes, Callers
<1>4. (\A x \in Locks : caller[x] = "idle" <=> target[x] = NoTarget)'
  BY Zenon, <1>1, TargetsNamed DEF IInv, TypeOK
<1>5. \A u \in Targets : ctx'[u] = IF u = t THEN d ELSE ctx[u]
  BY Zenon DEF IInv, TypeOK
<1>6. \A u \in Targets : GoodCtx(ctx'[u], mode')
  BY ZenonT(40), <1>1, <1>5, IdleNowhere, OthersGood
<1>7. /\ res'[l] = r /\ caller'[l] = k /\ target'[l] = t
      /\ \A x \in Locks \ {l} : res'[x] = res[x] /\ caller'[x] = caller[x] /\ target'[x] = target[x]
  BY Zenon, <1>1 DEF IInv, TypeOK
<1>8. ResultMatchesLists'
  <2> SUFFICES ASSUME NEW x \in Locks
               PROVE  /\ caller'[x] = "idle" <=> res'[x] = "UNINITED"
                      /\ caller'[x] = "locked" => res'[x] = "OK"
                      /\ \A u \in Targets :
                           /\ x \in ctx'[u].running <=> res'[x] = "OK" /\ target'[x] = u
                           /\ x \in Waiters(ctx'[u]) <=> res'[x] = "WAIT" /\ target'[x] = u
                           /\ \A i, j \in 1..Len(ctx'[u].pending) :
                                ctx'[u].pending[i] = ctx'[u].pending[j] => i = j
    BY Zenon DEF ResultMatchesLists
  <2>1. (caller'[x] = "idle" <=> res'[x] = "UNINITED") /\ (caller'[x] = "locked" => res'[x] = "OK")
    BY SMTT(40), <1>7 DEF IInv, ResultMatchesLists
  <2>2. ASSUME NEW u \in Targets
        PROVE  /\ x \in ctx'[u].running <=> res'[x] = "OK" /\ target'[x] = u
               /\ x \in Waiters(ctx'[u]) <=> res'[x] = "WAIT" /\ target'[x] = u
    <3>1. /\ x \in ctx[u].running <=> res[x] = "OK" /\ target[x] = u
          /\ x \in Waiters(ctx[u]) <=> res[x] = "WAIT" /\ target[x] = u
      BY Zenon DEF IInv, ResultMatchesLists
    <3>2. x = l => x \notin ctx[u].running /\ x \notin Waiters(ctx[u])
      BY Zenon, <1>1, IdleNowhere
    <3> QED
      BY SMTT(40), <1>5, <1>7, <3>1, <3>2
  <2>3. ASSUME NEW u \in Targets PROVE NoRepeats(ctx'[u].pending)
    BY Zenon, <1>6 DEF GoodCtx, ListsOK
  <2> QED
    BY Zenon, <2>1, <2>2, <2>3 DEF NoRepeats
<1>9. NoStrandedWaiter'
  BY Zenon, <1>5 DEF IInv, NoStrandedWaiter
<1>10. MapEntryWhileUsed'
  <2>1. \A u \in Targets : u \in shardMap <=> \E x \in Locks : target[x] = u
    BY Zenon DEF IInv, MapEntryWhileUsed
  <2>2. \A u \in Targets : u \in shardMap' <=> \E x \in Locks : target'[x] = u
    BY SMTT(40), <1>1, <1>7, <2>1, TargetsNamed
  <2> QED
    BY Zenon, <2>2 DEF MapEntryWhileUsed
<1> QED
  BY Zenon, <1>3, <1>4, <1>6, <1>8, <1>9, <1>10 DEF IInv

\* A grant at once keeps the invariant.
LEMMA LockGrantedIInv ==
  ASSUME IInv, NEW l \in Locks, NEW t \in Targets, NEW m \in Modes, LockGranted(l, t, m)
  PROVE  IInv'
<1>0. PICK c : c = CtxOf(t)
  BY Zenon
<1>1. PICK d : d = incrRunningRef(With(c, l), m)
  BY Zenon
<1>2. /\ caller[l] = "idle" /\ mode' = [mode EXCEPT ![l] = m]
      /\ ~isConflict(c.runningModes, m)
      /\ StartLock(l, t, m)
  BY Zenon, <1>0 DEF LockGranted, StartLock, MustQueue
<1>3. /\ GoodCtx(c, mode) /\ c.running = ctx[t].running /\ Waiters(c) = Waiters(ctx[t])
  BY Zenon, <1>0, CtxOfGood
<1>4. l \notin c.running \cup Waiters(c)
  BY Zenon, <1>2, <1>3, IdleNowhere
<1>5. c \in LockSchedCtx
  BY Zenon, <1>3 DEF GoodCtx
<1>6. \A x \in c.running \cup Waiters(c) : x \in Locks /\ mode'[x] = mode[x]
  BY Zenon, <1>2, <1>4, <1>5, WaitersType DEF IInv, TypeOK
<1>7. mode'[l] = m
  BY Zenon, <1>2 DEF IInv, TypeOK
<1>8. ctx' = [ctx EXCEPT ![t] = d]
  BY Zenon, <1>0, <1>1 DEF LockGranted, With
<1>9. res' = [res EXCEPT ![l] = "OK"] /\ caller' = [caller EXCEPT ![l] = "locked"]
  BY Zenon DEF LockGranted
<1>10. GoodCtx(c, mode')
  BY Zenon, <1>3, <1>6, GoodCtxOtherModes
<1>11. ~isConflict(c.runningModes, m)
  BY Zenon, <1>2
<1>12. /\ GoodCtx(d, mode')
       /\ d.running = c.running \cup {l} /\ d.pending = c.pending
       /\ Waiters(d) = Waiters(c)
  BY SMTT(40), <1>1, <1>4, <1>7, <1>10, <1>11, GrantGood
<1> QED
  BY ZenonT(40), <1>2, <1>3, <1>8, <1>9, <1>12, LockIInv

\* Queueing keeps the invariant: somebody runs on the target already.
LEMMA LockQueuedIInv ==
  ASSUME IInv, NEW l \in Locks, NEW t \in Targets, NEW m \in Modes, LockQueued(l, t, m)
  PROVE  IInv'
<1>0. PICK c : c = CtxOf(t)
  BY Zenon
<1>1. PICK d : d = incrPendingRef(Behind(c, l), m)
  BY Zenon
<1>2. /\ caller[l] = "idle" /\ mode' = [mode EXCEPT ![l] = m]
      /\ isConflict(c.runningModes, m) \/ Len(c.pending) >= 1
      /\ StartLock(l, t, m)
  BY Zenon, <1>0 DEF LockQueued, StartLock, MustQueue
<1>3. /\ GoodCtx(c, mode) /\ c.running = ctx[t].running /\ Waiters(c) = Waiters(ctx[t])
  BY Zenon, <1>0, CtxOfGood
<1>4. l \notin c.running \cup Waiters(c)
  BY Zenon, <1>2, <1>3, IdleNowhere
<1>5. c \in LockSchedCtx
  BY Zenon, <1>3 DEF GoodCtx
<1>6. \A x \in c.running \cup Waiters(c) : x \in Locks /\ mode'[x] = mode[x]
  BY Zenon, <1>2, <1>4, <1>5, WaitersType DEF IInv, TypeOK
<1>7. mode'[l] = m
  BY Zenon, <1>2 DEF IInv, TypeOK
<1>8. ctx' = [ctx EXCEPT ![t] = d]
  BY Zenon, <1>0, <1>1 DEF LockQueued, Behind
<1>9. res' = [res EXCEPT ![l] = "WAIT"] /\ caller' = [caller EXCEPT ![l] = "waiting"]
  BY Zenon DEF LockQueued
<1>10. c = ctx[t] \/ c = NewCtx
  BY Zenon, <1>0 DEF CtxOf
<1>11. GoodCtx(c, mode')
  BY Zenon, <1>3, <1>6, GoodCtxOtherModes
<1>12. /\ GoodCtx(d, mode')
       /\ d.running = c.running /\ d.pending # <<>>
       /\ Waiters(d) = Waiters(c) \cup {l}
  BY SMTT(40), <1>1, <1>4, <1>7, <1>11, QueueGood
<1>13. c.running # {}
  <2>1. CASE isConflict(c.runningModes, m)
    <3>1. PICK x \in c.runningModes : TRUE
      BY Zenon, <2>1 DEF isConflict
    <3>2. x \in Modes /\ c.running \in SUBSET Locks
      BY Zenon, <1>5, <3>1 DEF LockSchedCtx
    <3>3. Ask(c.running, mode, x) > 0
      BY Zenon, <1>3, <3>1, <3>2 DEF GoodCtx, CountersOK
    <3> QED
      BY Zenon, <3>2, <3>3, AskType
  <2>2. CASE Len(c.pending) >= 1
    <3>1. c.pending # <<>>
      BY <2>2
    <3>2. NewCtx.pending = <<>>
      BY Zenon DEF NewCtx
    <3>3. c = ctx[t]
      BY Zenon, <1>10, <3>1, <3>2
    <3> QED
      BY Zenon, <3>1, <3>3 DEF IInv, NoStrandedWaiter
  <2> QED
    BY Zenon, <1>2, <2>1, <2>2
<1> QED
  BY ZenonT(40), <1>2, <1>3, <1>8, <1>9, <1>12, <1>13, LockIInv

\* Releasing or withdrawing a lock keeps the invariant: whoever leaves a list
\* either is the lock being destroyed or moves from waiting to running.
LEMMA UnlockIInv ==
  ASSUME IInv, NEW l \in Locks, Unlock(l)
  PROVE  IInv'
<1>1. PICK t \in Targets : target[l] = t
  BY Zenon DEF IInv, TypeOK, Unlock
<1>2. caller[l] \in {"locked", "timedout"}
  BY Zenon DEF Unlock
<1>3. PICK c : c = ctx[t]
  BY Zenon
<1>4. PICK d : d = IF res[l] = "OK" THEN UnlockRunning(ctx[target[l]], l)
                                    ELSE UnlockPending(ctx[target[l]], l)
  BY Zenon
<1>5. /\ ctx' = [ctx EXCEPT ![t] = d]
      /\ shardMap' = EntriesAfter(t, d)
      /\ res' = [x \in Locks |-> IF x = l THEN "UNINITED"
                                 ELSE IF x \in d.running THEN "OK" ELSE res[x]]
      /\ mode' = [mode EXCEPT ![l] = NoMode]
      /\ target' = [target EXCEPT ![l] = NoTarget]
      /\ caller' = [caller EXCEPT ![l] = "idle"]
  BY ZenonT(40), <1>1, <1>4 DEF Unlock
<1>6. \A x \in Locks : \A u \in Targets :
        /\ x \in ctx[u].running <=> res[x] = "OK" /\ target[x] = u
        /\ x \in Waiters(ctx[u]) <=> res[x] = "WAIT" /\ target[x] = u
  BY Zenon DEF IInv, ResultMatchesLists
<1>7. res[l] = "OK" \/ res[l] = "WAIT"
  <2>1. res[l] \in {"UNINITED", "OK", "WAIT"} \/ res[l] \in LockRes
    BY ZenonT(40) DEF IInv, TypeOK
  <2> QED
    BY Zenon, <1>2, <2>1 DEF IInv, TypeOK, ResultMatchesLists, LockRes
<1>8. GoodCtx(c, mode) /\ (c.running = {} => c.pending = <<>>)
  BY Zenon, <1>3 DEF IInv, NoStrandedWaiter
<1>9. \/ l \in c.running /\ d = UnlockRunning(c, l)
      \/ l \in Waiters(c) /\ d = UnlockPending(c, l)
  BY Zenon, <1>1, <1>3, <1>4, <1>6, <1>7
<1>10. /\ GoodCtx(d, mode)
       /\ d.running \cup Waiters(d) = (c.running \cup Waiters(c)) \ {l}
       /\ c.running \ {l} \subseteq d.running
       /\ Waiters(d) \subseteq Waiters(c)
       /\ d.running = {} => d.pending = <<>>
  BY ZenonT(40), <1>8, <1>9, UnlockGood
<1>11. d \in LockSchedCtx /\ d.running \cap Waiters(d) = {}
  BY Zenon, <1>10 DEF GoodCtx, ListsOK
<1>12. \A u \in Targets : ctx'[u] = IF u = t THEN d ELSE ctx[u]
  BY Zenon, <1>5 DEF IInv, TypeOK
<1>13. /\ res'[l] = "UNINITED" /\ caller'[l] = "idle" /\ target'[l] = NoTarget
       /\ \A x \in Locks \ {l} :
            /\ caller'[x] = caller[x] /\ target'[x] = target[x]
            /\ res'[x] = IF x \in d.running THEN "OK" ELSE res[x]
  BY Zenon, <1>5 DEF IInv, TypeOK
<1>14. TypeOK'
  <2>1. ctx' \in [Targets -> LockSchedCtx]
    BY Zenon, <1>5, <1>11 DEF IInv, TypeOK
  <2>2. res' \in [Locks -> LockRes]
    BY Zenon, <1>5 DEF IInv, TypeOK, LockRes
  <2>3. shardMap' \in SUBSET Targets
    BY Zenon, <1>5 DEF IInv, TypeOK, EntriesAfter
  <2> QED
    BY Zenon, <1>5, <2>1, <2>2, <2>3 DEF IInv, TypeOK, Callers
<1>15. \A x \in Locks : caller'[x] = "idle" <=> target'[x] = NoTarget
  BY Zenon, <1>13 DEF IInv
<1>16. \A u \in Targets : l \notin ctx'[u].running \cup Waiters(ctx'[u])
  BY SMTT(40), <1>1, <1>6, <1>10, <1>12
<1>17. \A u \in Targets : GoodCtx(ctx'[u], mode')
  <2> TAKE u \in Targets
  <2>1. PICK e : e = ctx'[u]
    BY Zenon
  <2>2. GoodCtx(e, mode)
    BY Zenon, <2>1, <1>10, <1>12 DEF IInv
  <2>3. e.running \cup Waiters(e) \subseteq Locks \ {l}
    BY Zenon, <1>16, <2>1, <2>2, WaitersType DEF GoodCtx
  <2>4. \A x \in e.running \cup Waiters(e) : mode'[x] = mode[x]
    BY Zenon, <1>5, <2>3 DEF IInv, TypeOK
  <2>5. GoodCtx(e, mode')
    BY Zenon, <2>2, <2>4, GoodCtxOtherModes
  <2> QED
    BY Zenon, <2>1, <2>5
<1>18. \A x \in Locks : \A u \in Targets :
         /\ x \in ctx'[u].running <=> res'[x] = "OK" /\ target'[x] = u
         /\ x \in Waiters(ctx'[u]) <=> res'[x] = "WAIT" /\ target'[x] = u
  <2> TAKE x \in Locks
  <2> TAKE u \in Targets
  <2>1. CASE x = l
    BY Zenon, <1>13, <1>16, <2>1, TargetsNamed
  <2>2. CASE x # l /\ u # t
    <3>1. ctx'[u] = ctx[u] /\ target'[x] = target[x]
      BY Zenon, <1>12, <1>13, <2>2
    <3>2. target[x] = u => x \notin d.running
      BY Zenon, <1>1, <1>3, <1>6, <1>10, <2>2
    <3> QED
      BY SMTT(40), <1>6, <1>13, <2>2, <3>1, <3>2
  <2>3. CASE x # l /\ u = t
    <3>1. ctx'[u] = d /\ target'[x] = target[x]
      BY Zenon, <1>12, <1>13, <2>3
    <3>2. x \in d.running \/ x \in Waiters(d) <=> x \in c.running \/ x \in Waiters(c)
      BY Zenon, <1>10, <2>3
    <3>3. /\ x \in c.running <=> res[x] = "OK" /\ target[x] = u
          /\ x \in Waiters(c) <=> res[x] = "WAIT" /\ target[x] = u
      BY Zenon, <1>3, <1>6, <2>3
    <3>4. res'[x] = IF x \in d.running THEN "OK" ELSE res[x]
      BY Zenon, <1>13, <2>3
    <3>5. /\ x \in c.running => x \in d.running
          /\ ~(x \in d.running /\ x \in Waiters(d))
          /\ x \in Waiters(d) => x \in Waiters(c)
      BY Zenon, <1>10, <1>11, <2>3
    <3> QED
      BY Zenon, <3>1, <3>2, <3>3, <3>4, <3>5
  <2> QED
    BY Zenon, <2>1, <2>2, <2>3
<1>19. ResultMatchesLists'
  <2>1. \A x \in Locks : /\ caller'[x] = "idle" <=> res'[x] = "UNINITED"
                         /\ caller'[x] = "locked" => res'[x] = "OK"
    <3> TAKE x \in Locks
    <3>1. /\ caller[x] = "idle" <=> res[x] = "UNINITED"
          /\ caller[x] = "locked" => res[x] = "OK"
      BY Zenon DEF IInv, ResultMatchesLists
    <3>2. x # l /\ x \in d.running => res[x] = "OK" \/ res[x] = "WAIT"
      BY Zenon, <1>3, <1>6, <1>10
    <3> QED
      BY Zenon, <1>13, <3>1, <3>2
  <2>2. \A u \in Targets : NoRepeats(ctx'[u].pending)
    BY Zenon, <1>17 DEF GoodCtx, ListsOK
  <2> QED
    BY Zenon, <1>18, <2>1, <2>2 DEF ResultMatchesLists, NoRepeats
<1>20. NoStrandedWaiter'
  BY Zenon, <1>10, <1>12 DEF IInv, NoStrandedWaiter
<1>21. MapEntryWhileUsed'
  <2>1. \A u \in Targets : u \in shardMap <=> \E x \in Locks : target[x] = u
    BY Zenon DEF IInv, MapEntryWhileUsed
  <2>2. \A u \in Targets \ {t} : u \in shardMap' <=> u \in shardMap
    BY Zenon, <1>5 DEF EntriesAfter
  <2>3. \A u \in Targets \ {t} : (\E x \in Locks : target'[x] = u) <=> (\E x \in Locks : target[x] = u)
    BY Zenon, <1>1, <1>13, TargetsNamed
  <2>4. t \in shardMap' <=> ~(d.pending = <<>> /\ d.running = {})
    BY Zenon, <1>1, <1>5, <2>1 DEF EntriesAfter
  <2>5. (d.pending = <<>>) => (Waiters(d) = {})
    BY DEF Waiters, FirstWaiters
  <2>6. (Waiters(d) = {}) => (d.pending = <<>>)
    <3>1. d.pending \in Seq(Locks)
      BY Zenon, <1>11 DEF LockSchedCtx
    <3>2. ASSUME d.pending # <<>> PROVE Waiters(d) # {}
      <4>1. 1 \in 1..Len(d.pending)
        BY <3>1, <3>2
      <4>2. d.pending[1] \in Waiters(d)
        BY Zenon, <4>1 DEF Waiters, FirstWaiters
      <4> QED
        BY Zenon, <4>2
    <3> QED
      BY Zenon, <3>2
  <2>7. ASSUME NEW x \in Locks, target'[x] = t
        PROVE  x \in d.running \cup Waiters(d)
    <3>1. x # l /\ target[x] = t
      BY Zenon, <1>13, <2>7, TargetsNamed
    <3>2. target[x] # NoTarget
      BY Zenon, <3>1, TargetsNamed
    <3>3. res[x] \in LockRes /\ res[x] # "UNINITED"
      BY Zenon, <3>2 DEF IInv, TypeOK, ResultMatchesLists
    <3>4. x \in c.running \cup Waiters(c)
      BY Zenon, <1>3, <1>6, <3>1, <3>3 DEF LockRes
    <3> QED
      BY Zenon, <1>10, <3>1, <3>4
  <2>8. ASSUME NEW x \in d.running \cup Waiters(d)
        PROVE  x \in Locks /\ target'[x] = t
    BY Zenon, <1>11, <1>12, <1>18, WaitersType
  <2>9. t \in shardMap' <=> \E x \in Locks : target'[x] = t
    BY Zenon, <2>4, <2>5, <2>6, <2>7, <2>8
  <2> QED
    BY Zenon, <2>1, <2>2, <2>3, <2>9 DEF MapEntryWhileUsed
<1> QED
  BY Zenon, <1>14, <1>15, <1>17, <1>19, <1>20, <1>21 DEF IInv

\* The invariant is inductive, and holds in every reachable state.
THEOREM Inductive == Spec => []IInv
<1>1. Init => IInv
  BY Zenon, InitIInv
<1>2. ASSUME IInv, [Next]_vars PROVE IInv'
  <2>1. ASSUME NEW l \in Locks, NEW t \in Targets, NEW m \in Modes,
               LockGranted(l, t, m) \/ LockQueued(l, t, m)
        PROVE  IInv'
    BY Zenon, <1>2, <2>1, LockGrantedIInv, LockQueuedIInv
  <2>2. ASSUME NEW l \in Locks, WakeUp(l) \/ Timeout(l) PROVE IInv'
    BY Zenon, <1>2, <2>2, ReturnIInv
  <2>3. ASSUME NEW l \in Locks, Unlock(l) PROVE IInv'
    BY Zenon, <1>2, <2>3, UnlockIInv
  <2>4. CASE UNCHANGED vars
    <3>1. UNCHANGED <<mode, target, res, caller, shardMap, ctx>>
      BY Zenon, <2>4 DEF vars
    <3>2. TypeOK' /\ ResultMatchesLists' /\ NoStrandedWaiter' /\ MapEntryWhileUsed'
      <4>1. TypeOK'
        BY Zenon, <1>2, <3>1 DEF IInv, TypeOK
      <4>2. ResultMatchesLists'
        <5>1. ASSUME NEW l \in Locks
              PROVE  /\ caller'[l] = "idle" <=> res'[l] = "UNINITED"
                     /\ caller'[l] = "locked" => res'[l] = "OK"
          BY Zenon, <1>2, <3>1 DEF IInv, ResultMatchesLists
        <5>2. ASSUME NEW l \in Locks, NEW t \in Targets
              PROVE  /\ l \in ctx'[t].running <=> res'[l] = "OK" /\ target'[l] = t
                     /\ l \in Waiters(ctx'[t]) <=> res'[l] = "WAIT" /\ target'[l] = t
                     /\ NoRepeats(ctx'[t].pending)
          BY SMTT(40), <1>2, <3>1 DEF IInv, ResultMatchesLists, NoRepeats
        <5> QED
          BY Zenon, <5>1, <5>2 DEF ResultMatchesLists, NoRepeats
      <4>3. NoStrandedWaiter' /\ MapEntryWhileUsed'
        BY ZenonT(40), <1>2, <3>1 DEF IInv, NoStrandedWaiter, MapEntryWhileUsed
      <4> QED
        BY Zenon, <4>1, <4>2, <4>3
    <3>3. \A t \in Targets : GoodCtx(ctx'[t], mode')
      BY Zenon, <1>2, <3>1 DEF IInv
    <3> QED
      BY Zenon, <1>2, <3>1, <3>2, <3>3 DEF IInv
  <2> QED
    BY Zenon, <1>2, <2>1, <2>2, <2>3, <2>4 DEF Next
<1> QED
  BY <1>1, <1>2, PTL DEF Spec

\* The types of the lock manager's state hold for any number of locks and targets.
THEOREM TypeCorrect == Spec => []TypeOK
<1>1. IInv => TypeOK
  BY Zenon DEF IInv
<1> QED
  BY <1>1, Inductive, PTL

\* Mutual exclusion: whatever locks, targets and modes are asked for, two locks
\* granted by LockSchedCtx::lock or schedPendingLocks on one target never conflict.
THEOREM MutualExclusion == Spec => []Compatible
<1>1. IInv => Compatible
  BY ZenonT(40) DEF IInv, GoodCtx, CompatibleIn, Compatible
<1> QED
  BY <1>1, Inductive, PTL

\* No caller of MGLock::lock is granted, forgotten or left waiting by mistake:
\* the result it reads agrees with the list it is in.
THEOREM ResultsCorrect == Spec => []ResultMatchesLists
<1>1. IInv => ResultMatchesLists
  BY Zenon DEF IInv
<1> QED
  BY <1>1, Inductive, PTL

\* The counters and masks from which isConflict decides agree with the lists.
THEOREM CountersCorrect == Spec => []CountersMatchLists
<1>1. IInv => CountersMatchLists
  <2> SUFFICES ASSUME IInv, NEW t \in Targets, NEW m \in Modes
               PROVE  /\ ctx[t].runningRefCnt[m] = Asking(ctx[t].running, m)
                      /\ ctx[t].pendingRefCnt[m] = Asking(Waiters(ctx[t]), m)
                      /\ m \in ctx[t].runningModes <=> ctx[t].runningRefCnt[m] > 0
                      /\ m \in ctx[t].pendingModes <=> ctx[t].pendingRefCnt[m] > 0
    BY Zenon DEF CountersMatchLists
  <2>1. CountersOK(ctx[t], mode)
    BY Zenon DEF IInv, GoodCtx
  <2>2. \A L : Asking(L, m) = Ask(L, mode, m)
    BY Zenon DEF Asking, Ask
  <2> QED
    BY Zenon, <2>1, <2>2 DEF CountersOK
<1> QED
  BY <1>1, Inductive, PTL

\* UnlockRunning and UnlockPending never leave a target with waiters and no holder.
THEOREM NobodyStranded == Spec => []NoStrandedWaiter
<1>1. IInv => NoStrandedWaiter
  BY Zenon DEF IInv
<1> QED
  BY <1>1, Inductive, PTL

\* MGLockMgr::unlock always finds the entry of its target, and erases it last.
THEOREM EntriesCorrect == Spec => []MapEntryWhileUsed
<1>1. IInv => MapEntryWhileUsed
  BY Zenon DEF IInv
<1> QED
  BY <1>1, Inductive, PTL
=============================================================================

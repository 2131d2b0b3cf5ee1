------------------------ MODULE SlotMigrationProofs ------------------------
(***************************************************************************)
(* Type correctness of SlotMigration, for any number of nodes, keys,       *)
(* clients, binlogs, migrations, retries and crashes.                      *)
(***************************************************************************)
EXTENDS SlotMigration, FiniteSetTheorems, TLAPS

-----------------------------------------------------------------------------
(* The inductive invariant.                                                  *)

\* Ids are given out in order.
NumInv ==
  /\ \A n \in Nodes : DOMAIN log[n] \cup marked[n] \subseteq 1..nextSeq[n] - 1
  /\ \A c \in Clients : client[c] # Idle => client[c].id < nextSeq[client[c].node]

\* Epochs are bounded, so that among the claims a node hears when it starts
\* there is a newest.
EpochInv == \E b \in Nat : \A n \in Nodes : view[n].epoch <= b /\ saved[n].epoch <= b

TypeInv == TypeOK /\ setting \in Settings /\ NumInv /\ EpochInv

-----------------------------------------------------------------------------
(* Numbers and sets of numbers.                                              *)

\* A non-empty set of natural numbers has a least element.
LEMMA LeastNat ==
  ASSUME NEW S, S \subseteq Nat, S # {}
  PROVE  \E n \in S : \A m \in S : n <= m
<1>1. PICK n \in S : \A m \in S : ~(<<m, n>> \in OpToRel(<, Nat))
  BY Zenon, NatLessThanWellFounded, WFMin
<1>2. \A m \in S : ~(m < n)
  BY Zenon, <1>1 DEF OpToRel
<1> QED
  BY <1>2

\* Max is the greatest element of a bounded set (the last binlog, the last write
\* of a key in a batch).
LEMMA MaxFacts ==
  ASSUME NEW S, S \subseteq Nat, S # {}, NEW N \in Nat, \A n \in S : n <= N
  PROVE  Max(S) \in S /\ \A m \in S : m <= Max(S)
<1> DEFINE T == {N - n : n \in S}
<1>0. \A n \in S : N - n \in Nat
  OBVIOUS
<1>1. T \subseteq Nat /\ T # {}
  BY Zenon, <1>0
<1>2. PICK k \in T : \A m \in T : k <= m
  BY Zenon, <1>1, LeastNat
<1>3. PICK n \in S : k = N - n
  BY Zenon, <1>2
<1>4. \A m \in S : N - n <= N - m
  BY Zenon, <1>2, <1>3
<1>5. \A m \in S : n >= m
  BY <1>3, <1>4
<1>6. Max(S) \in S /\ \A m \in S : Max(S) >= m
  BY Zenon, <1>5 DEF Max
<1> QED
  BY Zenon, <1>6

\* What getHighestBinlogId returns: everything up to it is committed.
LEMMA Visible ==
  ASSUME NEW n \in Nodes, nextSeq[n] \in Nat, nextSeq[n] >= 1
  PROVE  /\ HighestVisible(n) \in Nat /\ HighestVisible(n) < nextSeq[n]
         /\ 1..HighestVisible(n) \subseteq marked[n]
<1> DEFINE S == {p \in 0..nextSeq[n] - 1 : 1..p \subseteq marked[n]}
<1>1. S \subseteq Nat /\ 0 \in S /\ nextSeq[n] - 1 \in Nat /\ \A p \in S : p <= nextSeq[n] - 1
  OBVIOUS
<1>2. Max(S) \in S
  BY Zenon, <1>1, MaxFacts
<1>3. HighestVisible(n) = Max(S)
  BY Zenon DEF HighestVisible
<1> QED
  BY <1>2, <1>3
-----------------------------------------------------------------------------
(* What the receiver commits.                                                *)

\* The ids of a batch are new and in the order of its entries.
LEMMA NewIds ==
  ASSUME NEW d \in Nodes, nextSeq[d] \in Nat, NEW N \in Nat, NEW es, DOMAIN es \subseteq 1..N
  PROVE  /\ Cardinality(DOMAIN es) \in Nat
         /\ \A i \in DOMAIN es : /\ NewId(d, es, i) \in Nat /\ NewId(d, es, i) >= nextSeq[d]
                                 /\ NewId(d, es, i) < nextSeq[d] + Cardinality(DOMAIN es)
         /\ \A i, j \in DOMAIN es : i < j => NewId(d, es, i) < NewId(d, es, j)
<1> DEFINE D == DOMAIN es
           A(i) == {j \in D : j < i}
<1>1. IsFiniteSet(D)
  <2>1. D \in SUBSET Nat /\ \A i \in D : i <= N
    OBVIOUS
  <2> QED
    BY Zenon, <2>1, FS_BoundedSetOfNaturals
<1>2. ASSUME NEW T \in SUBSET D
      PROVE  IsFiniteSet(T) /\ Cardinality(T) \in Nat /\ Cardinality(T) <= Cardinality(D)
  BY Zenon, <1>1, FS_Subset, FS_CardinalityType
<1>3. ASSUME NEW i \in D
      PROVE  Cardinality(A(i) \cup {i}) = Cardinality(A(i)) + 1
  <2>1. i \notin A(i) /\ A(i) \in SUBSET D
    OBVIOUS
  <2> QED
    BY Zenon, <1>2, <2>1, FS_AddElement
<1>4. Cardinality(D) \in Nat
  BY Zenon, <1>1, FS_CardinalityType
<1>5. ASSUME NEW i \in D
      PROVE  /\ Cardinality(A(i)) \in Nat /\ Cardinality(A(i)) < Cardinality(D)
             /\ NewId(d, es, i) = nextSeq[d] + Cardinality(A(i))
  <2>1. A(i) \in SUBSET D /\ A(i) \cup {i} \in SUBSET D
    BY Zenon
  <2>2. Cardinality(A(i)) \in Nat /\ Cardinality(A(i)) + 1 <= Cardinality(D)
    BY Zenon, <1>2, <1>3, <2>1
  <2> QED
    BY <1>4, <2>2 DEF NewId
<1>6. ASSUME NEW i \in D, NEW j \in D, i < j
      PROVE  Cardinality(A(i)) < Cardinality(A(j))
  <2>1. A(i) \cup {i} \in SUBSET A(j) /\ A(j) \in SUBSET D /\ A(i) \cup {i} \in SUBSET D
    BY <1>6
  <2>2. IsFiniteSet(A(j))
    BY Zenon, <1>2, <2>1
  <2>3. Cardinality(A(i) \cup {i}) <= Cardinality(A(j))
    BY Zenon, <2>1, <2>2, FS_Subset
  <2>4. Cardinality(A(i)) \in Nat /\ Cardinality(A(j)) \in Nat
    BY Zenon, <1>5
  <2> QED
    BY <1>3, <2>3, <2>4
<1> HIDE DEF D, A
<1>7. \A i \in D : NewId(d, es, i) \in Nat /\ NewId(d, es, i) >= nextSeq[d] /\ NewId(d, es, i) < nextSeq[d] + Cardinality(D)
  BY <1>4, <1>5
<1>8. \A i, j \in D : i < j => NewId(d, es, i) < NewId(d, es, j)
  BY <1>5, <1>6
<1> QED
  BY Zenon, <1>4, <1>7, <1>8 DEF D

\* The outcome of Commits, without the numbering: the log of d grows at its end
\* by the entries of es, the data become the last ones.
Appended(d, es) ==
  /\ nextSeq' = [nextSeq EXCEPT ![d] = nextSeq'[d]] /\ nextSeq'[d] \in nextSeq[d]..MaxId + 1
  /\ data' = [data EXCEPT ![d] = data'[d]] /\ data'[d] \in [SlotKeys -> Nat]
  /\ log' = [log EXCEPT ![d] = log'[d]] /\ log'[d] \in [DOMAIN log'[d] -> Entry]
  /\ DOMAIN log[d] \subseteq DOMAIN log'[d]
  /\ marked' = [marked EXCEPT ![d] = marked'[d]]
  /\ marked[d] \subseteq marked'[d] /\ marked'[d] \subseteq marked[d] \cup (nextSeq[d]..nextSeq'[d] - 1)
  /\ \A x \in DOMAIN log'[d] :
       \/ x \in DOMAIN log[d] /\ log'[d][x] = log[d][x]
       \/ x \in nextSeq[d]..nextSeq'[d] - 1 /\ \E i \in DOMAIN es : log'[d][x] = es[i]
  /\ \A k \in SlotKeys :
       IF \A i \in DOMAIN es : es[i].key # k THEN data'[d][k] = data[d][k]
       ELSE /\ \E m \in DOMAIN es : /\ es[m].key = k /\ data'[d][k] = es[m].val
                                    /\ \A i \in DOMAIN es : es[i].key = k => i <= m
            /\ \A x \in DOMAIN log'[d] : log'[d][x].key = k =>
                 log'[d][x].val = data'[d][k] \/ \E y \in DOMAIN log'[d] : y > x /\ log'[d][y].key = k

\* Commits is Appended.
LEMMA CommitsAppends ==
  ASSUME TypeInv, NEW d \in Nodes, NEW N \in Nat, NEW es, DOMAIN es \subseteq 1..N,
         es \in [DOMAIN es -> Entry], Commits(d, es)
  PROVE  Appended(d, es)
<1> DEFINE D == DOMAIN es
           id(i) == NewId(d, es, i)
           ids == {id(i) : i \in D}
           of(k) == {i \in D : es[i].key = k}
           L == [x \in DOMAIN log[d] \cup ids |->
                   IF x \in ids THEN es[CHOOSE i \in D : id(i) = x] ELSE log[d][x]]
           A == [k \in SlotKeys |-> IF of(k) = {} THEN data[d][k] ELSE es[Max(of(k))].val]
           c == Cardinality(D)
<1>1. /\ nextSeq \in [Nodes -> 1..MaxId + 1] /\ MaxId \in Nat
      /\ data \in [Nodes -> [SlotKeys -> Nat]]
      /\ log = [n \in Nodes |-> log[n]] /\ log[d] \in [DOMAIN log[d] -> Entry]
      /\ DOMAIN log[d] \cup marked[d] \subseteq 1..nextSeq[d] - 1
      /\ marked \in [Nodes -> SUBSET (1..MaxId)]
  BY Zenon, SlotSettings DEF TypeInv, TypeOK, NumInv, MaxId
<1>2. /\ nextSeq[d] + c <= MaxId + 1
      /\ data' = [data EXCEPT ![d] = A]
      /\ log' = [log EXCEPT ![d] = L]
      /\ nextSeq' = [nextSeq EXCEPT ![d] = @ + c]
      /\ marked' = [marked EXCEPT ![d] = @ \cup ids]
  BY Zenon DEF Commits
<1>3. /\ c \in Nat
      /\ \A i \in D : id(i) \in nextSeq[d]..nextSeq[d] + c - 1
      /\ \A i, j \in D : i < j => id(i) < id(j)
  <2>1. nextSeq[d] \in Nat
    BY <1>1
  <2>2. /\ c \in Nat
        /\ \A i \in D : id(i) \in Nat /\ id(i) >= nextSeq[d] /\ id(i) < nextSeq[d] + c
        /\ \A i, j \in D : i < j => id(i) < id(j)
    BY Zenon, <2>1, NewIds
  <2> HIDE DEF D, id, c
  <2> QED
    BY <2>1, <2>2
<1>4. ASSUME NEW x \in ids
      PROVE  \E i \in D : id(i) = x /\ L[x] = es[i]
  BY Zenon DEF L
<1>5. ASSUME NEW i \in D
      PROVE  id(i) \in DOMAIN L /\ L[id(i)] = es[i]
  <2>1. PICK j \in D : id(j) = id(i) /\ L[id(i)] = es[j]
    BY Zenon, <1>4
  <2>2. i \in Nat /\ j \in Nat
    OBVIOUS
  <2>3. i = j
    <3> HIDE DEF id
    <3> QED
      BY <1>3, <2>1, <2>2
  <2> QED
    BY Zenon, <2>1, <2>3
<1>6. L \in [DOMAIN L -> Entry] /\ DOMAIN L = DOMAIN log[d] \cup ids
  BY Zenon, <1>1, <1>4
<1>7. ASSUME NEW k \in SlotKeys, of(k) # {}
      PROVE  /\ Max(of(k)) \in of(k) /\ \A i \in of(k) : i <= Max(of(k))
  <2>1. of(k) \subseteq Nat /\ \A i \in of(k) : i <= N
    OBVIOUS
  <2> QED
    BY Zenon, <1>7, <2>1, MaxFacts
<1>8. A \in [SlotKeys -> Nat]
  <2> SUFFICES ASSUME NEW k \in SlotKeys PROVE A[k] \in Nat
    BY Zenon
  <2>1. CASE of(k) = {}
    BY Zenon, <1>1, <2>1
  <2>2. CASE of(k) # {}
    <3>1. Max(of(k)) \in D
      BY Zenon, <1>7, <2>2
    <3> HIDE DEF of
    <3>2. es[Max(of(k))] \in Entry
      BY Zenon, <3>1
    <3> QED
      BY Zenon, <2>2, <3>2 DEF Entry
  <2> QED
    BY Zenon, <2>1, <2>2
<1>9. /\ nextSeq'[d] = nextSeq[d] + c /\ data'[d] = A /\ log'[d] = L /\ marked'[d] = marked[d] \cup ids
  BY Zenon, <1>1, <1>2
<1>10. ids \subseteq nextSeq[d]..nextSeq'[d] - 1
  <2>1. ids \subseteq nextSeq[d]..nextSeq[d] + c - 1
    BY Zenon, <1>3
  <2>2. nextSeq'[d] = nextSeq[d] + c /\ nextSeq[d] \in Nat /\ c \in Nat
    BY <1>1, <1>3, <1>9
  <2> HIDE DEF ids, c
  <2> QED
    BY ONLY <2>1, <2>2
<1>11. \A x \in DOMAIN L : \/ x \in DOMAIN log[d] /\ L[x] = log[d][x]
                           \/ x \in nextSeq[d]..nextSeq'[d] - 1 /\ \E i \in D : L[x] = es[i]
  <2> SUFFICES ASSUME NEW x \in DOMAIN L
               PROVE \/ x \in DOMAIN log[d] /\ L[x] = log[d][x]
                     \/ x \in nextSeq[d]..nextSeq'[d] - 1 /\ \E i \in D : L[x] = es[i]
    BY Zenon
  <2>1. CASE x \in ids
    <3>1. x \in nextSeq[d]..nextSeq'[d] - 1
      BY Zenon, <1>10, <2>1
    <3>2. \E i \in D : L[x] = es[i]
      BY Zenon, <1>4, <2>1
    <3> QED
      BY Zenon, <3>1, <3>2
  <2>2. CASE x \notin ids
    BY Zenon, <1>6, <2>2
  <2> QED
    BY Zenon, <2>1, <2>2
<1>12. ASSUME NEW k \in SlotKeys
       PROVE  IF \A i \in D : es[i].key # k THEN A[k] = data[d][k]
              ELSE /\ \E m \in D : /\ es[m].key = k /\ A[k] = es[m].val
                                   /\ \A i \in D : es[i].key = k => i <= m
                   /\ \A x \in DOMAIN L : L[x].key = k =>
                        L[x].val = A[k] \/ \E y \in DOMAIN L : y > x /\ L[y].key = k
  <2>1. CASE of(k) = {}
    BY Zenon, <2>1
  <2>2. CASE of(k) # {}
    <3> DEFINE m == Max(of(k))
    <3>1. m \in D /\ es[m].key = k /\ \A i \in D : es[i].key = k => i <= m
      BY Zenon, <1>7, <2>2
    <3>2. A[k] = es[m].val
      BY Zenon, <2>2
    <3>3. ASSUME NEW x \in DOMAIN L, L[x].key = k
          PROVE  L[x].val = A[k] \/ id(m) > x
      <4>1. CASE x \in ids
        <5>1. PICK i \in D : id(i) = x /\ L[x] = es[i]
          BY Zenon, <1>4, <4>1
        <5>2. i \in Nat /\ m \in Nat /\ i <= m
          BY <3>1, <3>3, <5>1
        <5> HIDE DEF m, A, L, id
        <5>3. i < m => id(i) < id(m)
          BY Zenon, <1>3, <3>1
        <5>4. id(m) \in Int /\ id(i) \in Int
          BY <1>1, <1>3, <3>1
        <5> QED
          BY <3>2, <5>1, <5>2, <5>3, <5>4
      <4>2. CASE x \notin ids
        <5>1. x \in 1..nextSeq[d] - 1
          BY Zenon, <1>1, <1>6, <4>2
        <5>2. id(m) \in nextSeq[d]..nextSeq[d] + c - 1
          BY Zenon, <1>3, <3>1
        <5> HIDE DEF id, m, c
        <5> QED
          BY <1>1, <1>3, <5>1, <5>2
      <4> QED
        BY Zenon, <4>1, <4>2
    <3>4. id(m) \in DOMAIN L /\ L[id(m)].key = k
      BY Zenon, <1>5, <3>1
    <3> HIDE DEF m, L, A, id
    <3> QED
      BY Zenon, <3>1, <3>2, <3>3, <3>4
  <2> QED
    BY Zenon, <2>1, <2>2
<1> HIDE DEF L, A, ids, c
<1>18. marked'[d] = marked[d] \cup ids
  BY Zenon, <1>9
<1>13. /\ nextSeq' = [nextSeq EXCEPT ![d] = nextSeq'[d]] /\ nextSeq'[d] \in nextSeq[d]..MaxId + 1
       /\ data' = [data EXCEPT ![d] = data'[d]] /\ log' = [log EXCEPT ![d] = log'[d]]
       /\ marked' = [marked EXCEPT ![d] = marked'[d]]
  BY <1>1, <1>2, <1>3, <1>9
<1>14. marked[d] \subseteq marked'[d] /\ marked'[d] \subseteq marked[d] \cup (nextSeq[d]..nextSeq'[d] - 1)
  BY ONLY Zenon, <1>10, <1>18
<1>15. /\ data'[d] \in [SlotKeys -> Nat] /\ log'[d] \in [DOMAIN log'[d] -> Entry]
       /\ DOMAIN log[d] \subseteq DOMAIN log'[d]
  BY Zenon, <1>6, <1>8, <1>9
<1>16. \A x \in DOMAIN log'[d] :
         \/ x \in DOMAIN log[d] /\ log'[d][x] = log[d][x]
         \/ x \in nextSeq[d]..nextSeq'[d] - 1 /\ \E i \in DOMAIN es : log'[d][x] = es[i]
  BY Zenon, <1>9, <1>11
<1>17. ASSUME NEW k \in SlotKeys
       PROVE  IF \A i \in DOMAIN es : es[i].key # k THEN data'[d][k] = data[d][k]
              ELSE /\ \E m \in DOMAIN es : /\ es[m].key = k /\ data'[d][k] = es[m].val
                                            /\ \A i \in DOMAIN es : es[i].key = k => i <= m
                   /\ \A x \in DOMAIN log'[d] : log'[d][x].key = k =>
                        log'[d][x].val = data'[d][k] \/ \E y \in DOMAIN log'[d] : y > x /\ log'[d][y].key = k
  <2>1. data'[d] = A /\ log'[d] = L
    BY Zenon, <1>9
  <2> HIDE DEF D
  <2>2. QED
    BY <1>12, <2>1 DEF D
<1> QED
  BY Zenon, <1>13, <1>14, <1>15, <1>16, <1>17 DEF Appended
-----------------------------------------------------------------------------
(* TypeInv in pieces, so that a step need only look at what it changes.      *)

TStore ==
  /\ client \in [Clients -> ClientState]
  /\ data \in [Nodes -> [SlotKeys -> Nat]]
  /\ log = [n \in Nodes |-> log[n]]
  /\ \A n \in Nodes : DOMAIN log[n] \subseteq 1..MaxId /\ log[n] \in [DOMAIN log[n] -> Entry]
  /\ nextSeq \in [Nodes -> 1..MaxId + 1]
  /\ marked \in [Nodes -> SUBSET (1..MaxId)]
  /\ NumInv
TSnd == snd \in [Nodes -> SendTask \cup {NoSend}]
TRcv == rcv \in [Nodes -> RecvTask \cup {NoRecv}]
Ends == [task: 1..MaxTask, src: Nodes, dst: Nodes]
Answers == [task: 1..MaxTask, src: Nodes, ok: BOOLEAN]
TMsg == request \subseteq Ends /\ taking \in [Nodes -> SUBSET Ends] /\ answer \subseteq Answers
TView == view \in [Nodes -> Views] /\ saved \in [Nodes -> Views] /\ EpochInv
TLock == xlock \in [Nodes -> {"none", "send", "gc"}] /\ deleting \in [Nodes -> BOOLEAN]
TCount ==
  /\ setting \in Settings
  /\ tasks \in 0..MaxTask /\ writes \in 0..setting.writes /\ crashes \in 0..MaxCrash

\* The pieces are all of TypeInv.
LEMMA Pieces ==
  /\ TypeInv <=> TStore /\ TSnd /\ TRcv /\ TMsg /\ TView /\ TLock /\ TCount
  /\ TypeInv' <=> TStore' /\ TSnd' /\ TRcv' /\ TMsg' /\ TView' /\ TLock' /\ TCount'
<1>1. TypeInv <=> TStore /\ TSnd /\ TRcv /\ TMsg /\ TView /\ TLock /\ TCount
  BY Zenon DEF TypeInv, TypeOK, TStore, TSnd, TRcv, TMsg, TView, TLock, TCount, Ends, Answers
<1>2. TypeInv' <=> TStore' /\ TSnd' /\ TRcv' /\ TMsg' /\ TView' /\ TLock' /\ TCount'
  BY Zenon DEF TypeInv, TypeOK, TStore, TSnd, TRcv, TMsg, TView, TLock, TCount, Ends, Answers
<1> QED
  BY Zenon, <1>1, <1>2

\* The setting never changes, and neither do the types.
LEMMA SameTypes ==
  ASSUME UNCHANGED setting
  PROVE  /\ ClientState' = ClientState /\ SendTask' = SendTask /\ RecvTask' = RecvTask
         /\ Ends' = Ends /\ Answers' = Answers
         /\ MaxId' = MaxId /\ MaxTask' = MaxTask /\ MaxTry' = MaxTry /\ MaxCrash' = MaxCrash
<1>1. MaxId' = MaxId /\ MaxTask' = MaxTask /\ MaxTry' = MaxTry /\ MaxCrash' = MaxCrash
  BY Zenon DEF MaxId, MaxTask, MaxTry, MaxCrash
<1> QED
  BY Zenon, <1>1 DEF ClientState, SendTask, RecvTask, Ends, Answers

\* The bounds are numbers.
LEMMA Bounds ==
  ASSUME TCount
  PROVE  MaxId \in Nat /\ MaxTask \in Nat /\ MaxTry \in Nat /\ MaxCrash \in Nat /\ setting.writes \in Nat
BY Zenon, SlotSettings DEF TCount, MaxId, MaxTask, MaxTry, MaxCrash

\* The pieces of which no variable changes: the store,
LEMMA SameStore ==
  ASSUME TStore, UNCHANGED <<setting, client, data, log, nextSeq, marked>>
  PROVE  TStore'
BY Zenon, SameTypes DEF TStore, NumInv

\* the tasks that send,
LEMMA SameSnd == ASSUME TSnd, UNCHANGED <<setting, snd>> PROVE TSnd'
BY Zenon, SameTypes DEF TSnd

\* the tasks that receive,
LEMMA SameRcv == ASSUME TRcv, UNCHANGED <<setting, rcv>> PROVE TRcv'
BY Zenon, SameTypes DEF TRcv

\* the messages of a hand-over,
LEMMA SameMsg == ASSUME TMsg, UNCHANGED <<setting, request, taking, answer>> PROVE TMsg'
BY Zenon, SameTypes DEF TMsg

\* the views and the cluster files,
LEMMA SameView == ASSUME TView, UNCHANGED <<view, saved>> PROVE TView'
BY Zenon DEF TView, EpochInv

\* the chunk locks and the marks of the collector,
LEMMA SameLock == ASSUME TLock, UNCHANGED <<xlock, deleting>> PROVE TLock'
BY Zenon DEF TLock

\* and the counters.
LEMMA SameCount == ASSUME TCount, UNCHANGED <<setting, tasks, writes, crashes>> PROVE TCount'
BY Zenon, SameTypes DEF TCount

\* One task that sends changes (an assignment to a MigrateSendTask).
LEMMA PutSnd ==
  ASSUME TSnd, UNCHANGED setting, NEW n \in Nodes, NEW r \in SendTask \cup {NoSend},
         snd' = [snd EXCEPT ![n] = r]
  PROVE  TSnd' /\ snd'[n] = r /\ \A m \in Nodes \ {n} : snd'[m] = snd[m]
<1> DEFINE T == SendTask \cup {NoSend}
<1>1. T' = T
  BY Zenon, SameTypes DEF NoSend
<1>2. snd \in [Nodes -> T] /\ r \in T
  BY Zenon DEF TSnd
<1> HIDE DEF T
<1>3. snd' \in [Nodes -> T] /\ snd'[n] = r /\ \A m \in Nodes \ {n} : snd'[m] = snd[m]
  BY Zenon, <1>2
<1>4. TSnd'
  BY Zenon, <1>1, <1>3 DEF TSnd, T
<1> QED
  BY Zenon, <1>3, <1>4

\* One task that receives changes.
LEMMA PutRcv ==
  ASSUME TRcv, UNCHANGED setting, NEW n \in Nodes, NEW r \in RecvTask \cup {NoRecv},
         rcv' = [rcv EXCEPT ![n] = r]
  PROVE  TRcv' /\ rcv'[n] = r /\ \A m \in Nodes \ {n} : rcv'[m] = rcv[m]
<1> DEFINE T == RecvTask \cup {NoRecv}
<1>1. T' = T
  BY Zenon, SameTypes DEF NoRecv
<1>2. rcv \in [Nodes -> T] /\ r \in T
  BY Zenon DEF TRcv
<1> HIDE DEF T
<1>3. rcv' \in [Nodes -> T] /\ rcv'[n] = r /\ \A m \in Nodes \ {n} : rcv'[m] = rcv[m]
  BY Zenon, <1>2
<1>4. TRcv'
  BY Zenon, <1>1, <1>3 DEF TRcv, T
<1> QED
  BY Zenon, <1>3, <1>4

\* What a task that sends looks like.
LEMMA SndFields ==
  ASSUME TSnd, NEW n \in Nodes
  PROVE  /\ snd[n].st = "NONE" <=> snd[n] = NoSend
         /\ snd[n].st = "NONE" => snd[n].ph = "idle"
         /\ snd[n].st # "NONE" => snd[n] \in SendTask
         /\ snd[n].st \in SendState \cup {"NONE"} /\ snd[n].ph \in Phase
BY DEF TSnd, SendTask, NoSend, SendState, Phase

\* What a task that receives looks like.
LEMMA RcvFields ==
  ASSUME TRcv, NEW n \in Nodes
  PROVE  /\ rcv[n].st = "NONE" <=> rcv[n] = NoRecv
         /\ rcv[n].st # "NONE" => rcv[n] \in RecvTask
BY DEF TRcv, RecvTask, NoRecv
-----------------------------------------------------------------------------
(* Each step keeps the types.  A step of a task that sends also says what it *)
(* does to the task.                                                         *)

\* The task of n is in state st and phase ph after the step.
Sender(n, st, ph) ==
  /\ \A m \in Nodes \ {n} : snd'[m] = snd[m]
  /\ snd'[n] \in SendTask /\ snd'[n].st = st /\ snd'[n].ph = ph
  /\ snd'[n].task = snd[n].task /\ snd'[n].dst = snd[n].dst

\* A step that changes only tasks that send and chunk locks.
LEMMA SendOnly ==
  ASSUME TypeInv, TSnd',
         UNCHANGED <<setting, client, writes, disk, rcv, request, taking, answer, view, saved, xlock, deleting,
                     tasks, crashes>>
  PROVE  TypeInv'
<1>1. TStore /\ TSnd /\ TRcv /\ TMsg /\ TView /\ TLock /\ TCount
  BY Zenon, Pieces
<1>2. TStore'
  BY Zenon, <1>1, SameStore DEF disk
<1>3. TRcv' /\ TMsg'
  BY Zenon, <1>1, SameRcv, SameMsg
<1>4. TView' /\ TLock' /\ TCount'
  BY Zenon, <1>1, SameView, SameLock, SameCount
<1> QED
  BY Zenon, <1>2, <1>3, <1>4, Pieces

\* A step of the task of n.
LEMMA PutSender ==
  ASSUME TSnd, UNCHANGED setting, NEW n \in Nodes, NEW r \in SendTask, NEW st, NEW ph,
         snd' = [snd EXCEPT ![n] = r],
         r.st = st, r.ph = ph, r.task = snd[n].task, r.dst = snd[n].dst
  PROVE  TSnd' /\ snd'[n] = r /\ Sender(n, st, ph)
<1>1. TSnd' /\ snd'[n] = r /\ \A m \in Nodes \ {n} : snd'[m] = snd[m]
  BY Zenon, PutSnd
<1> QED
  BY Zenon, <1>1 DEF Sender

\* sendSnapshotBegin reads the watermark.
LEMMA sendSnapshotBeginType ==
  ASSUME TypeInv, UNCHANGED setting, NEW n \in Nodes, sendSnapshotBegin(n)
  PROVE  TypeInv' /\ Sender(n, "START", "pos") /\ snd'[n].cur = HighestVisible(n)
<1> DEFINE r == [snd[n] EXCEPT !.ph = "pos", !.cur = HighestVisible(n)]
<1>1. TStore /\ TSnd /\ TCount
  BY Zenon, Pieces
<1>2. snd[n] \in SendTask
  BY Zenon, <1>1, SndFields DEF sendSnapshotBegin
<1>3. HighestVisible(n) \in 0..MaxId
  <2>1. nextSeq[n] \in 1..MaxId + 1 /\ MaxId \in Nat
    BY Zenon, <1>1, Bounds DEF TStore
  <2> QED
    BY <2>1, Visible
<1>4. /\ r \in SendTask /\ r.st = "START" /\ r.ph = "pos" /\ r.cur = HighestVisible(n)
      /\ r.task = snd[n].task /\ r.dst = snd[n].dst
  BY Zenon, <1>2, <1>3 DEF SendTask, Phase, sendSnapshotBegin
<1>5. snd' = [snd EXCEPT ![n] = r]
  BY Zenon, <1>1 DEF sendSnapshotBegin, TSnd
<1> HIDE DEF r
<1>6. TSnd' /\ snd'[n] = r /\ Sender(n, "START", "pos")
  BY Zenon, <1>1, <1>4, <1>5, PutSender
<1>7. TypeInv'
  BY Zenon, <1>6, SendOnly DEF sendSnapshotBegin, sendUnchanged
<1> QED
  BY Zenon, <1>4, <1>6, <1>7

\* initTxn takes the snapshot.
LEMMA initTxnType ==
  ASSUME TypeInv, UNCHANGED setting, NEW n \in Nodes, initTxn(n)
  PROVE  /\ TypeInv' /\ Sender(n, "START", "snap")
         /\ snd'[n].snap = data[n] /\ snd'[n].todo = {k \in SlotKeys : data[n][k] # 0} /\ snd'[n].batch = snd[n].client /\ snd'[n].client = snd[n].client /\ snd'[n].cur = snd[n].cur
<1> DEFINE r == [snd[n] EXCEPT !.ph = "snap", !.snap = data[n], !.batch = snd[n].client,
                            !.todo = {k \in SlotKeys : data[n][k] # 0}]
<1>1. TStore /\ TSnd /\ TRcv /\ TMsg /\ TView /\ TLock /\ TCount
  BY Zenon, Pieces
<1>2. snd[n] \in SendTask
  BY Zenon, <1>1, SndFields DEF initTxn
<1>3. data[n] \in [SlotKeys -> Nat]
  BY Zenon, <1>1 DEF TStore
<1>4. /\ r \in SendTask /\ r.st = "START" /\ r.ph = "snap"
      /\ r.task = snd[n].task /\ r.dst = snd[n].dst
      /\ r.snap = data[n] /\ r.todo = {k \in SlotKeys : data[n][k] # 0} /\ r.batch = snd[n].client /\ r.client = snd[n].client /\ r.cur = snd[n].cur
  BY Zenon, <1>2, <1>3 DEF SendTask, SendState, Phase, initTxn
<1>5. snd' = [snd EXCEPT ![n] = r]
  BY Zenon, <1>1 DEF initTxn, TSnd
<1> HIDE DEF r
<1>6. TSnd' /\ snd'[n] = r /\ Sender(n, "START", "snap")
  BY Zenon, <1>1, <1>4, <1>5, PutSender
<1>7. TypeInv'
  BY Zenon, <1>6, SendOnly DEF initTxn, sendUnchanged
<1> QED
  BY Zenon, <1>4, <1>6, <1>7

\* sendBinlog starts its first round.
LEMMA sendBinlogBeginType ==
  ASSUME TypeInv, UNCHANGED setting, NEW n \in Nodes, sendBinlogBegin(n)
  PROVE  /\ TypeInv' /\ Sender(n, snd[n].st, "binlog")
         /\ snd'[n].cur = snd[n].cur /\ snd'[n].end = HighestVisible(n)
<1> DEFINE r == [snd[n] EXCEPT !.ph = "binlog", !.end = HighestVisible(n)]
<1>1. TStore /\ TSnd /\ TRcv /\ TMsg /\ TView /\ TLock /\ TCount
  BY Zenon, Pieces
<1>2. snd[n] \in SendTask
  BY Zenon, <1>1, SndFields DEF sendBinlogBegin
<1>3. HighestVisible(n) \in 0..MaxId + 1
  <2>1. nextSeq[n] \in 1..MaxId + 1 /\ MaxId \in Nat
    BY Zenon, <1>1, Bounds DEF TStore
  <2> QED
    BY <2>1, Visible
<1>4. /\ r \in SendTask /\ r.st = snd[n].st /\ r.ph = "binlog"
      /\ r.task = snd[n].task /\ r.dst = snd[n].dst
      /\ r.cur = snd[n].cur /\ r.end = HighestVisible(n)
  BY Zenon, <1>2, <1>3 DEF SendTask, SendState, Phase, sendBinlogBegin
<1>5. snd' = [snd EXCEPT ![n] = r]
  BY Zenon, <1>1 DEF sendBinlogBegin, TSnd
<1> HIDE DEF r
<1>6. TSnd' /\ snd'[n] = r /\ Sender(n, snd[n].st, "binlog")
  BY Zenon, <1>1, <1>4, <1>5, PutSender
<1>7. TypeInv'
  BY Zenon, <1>6, SendOnly DEF sendBinlogBegin, sendUnchanged
<1> QED
  BY Zenon, <1>4, <1>6, <1>7

\* stopTask ends a waiting task.
LEMMA stopTaskType ==
  ASSUME TypeInv, UNCHANGED setting, NEW n \in Nodes, stopTask(n)
  PROVE  /\ TypeInv' /\ Sender(n, "ERR", "idle")
<1> DEFINE r == [snd[n] EXCEPT !.st = "ERR"]
<1>1. TStore /\ TSnd /\ TRcv /\ TMsg /\ TView /\ TLock /\ TCount
  BY Zenon, Pieces
<1>2. snd[n] \in SendTask
  BY Zenon, <1>1, SndFields DEF stopTask
<1>4. /\ r \in SendTask /\ r.st = "ERR" /\ r.ph = "idle"
      /\ r.task = snd[n].task /\ r.dst = snd[n].dst
  BY Zenon, <1>2 DEF SendTask, SendState, Phase, stopTask
<1>5. snd' = [snd EXCEPT ![n] = r]
  BY Zenon, <1>1 DEF stopTask, TSnd
<1> HIDE DEF r
<1>6. TSnd' /\ snd'[n] = r /\ Sender(n, "ERR", "idle")
  BY Zenon, <1>1, <1>4, <1>5, PutSender
<1>7. TypeInv'
  BY Zenon, <1>6, SendOnly DEF stopTask, sendUnchanged
<1> QED
  BY Zenon, <1>4, <1>6, <1>7

\* lockChunks locks the chunks and reads the end of the last round.
LEMMA lockChunksType ==
  ASSUME TypeInv, UNCHANGED setting, NEW n \in Nodes, lockChunks(n)
  PROVE  /\ TypeInv' /\ Sender(n, snd[n].st, "last")
         /\ snd'[n].cur = snd[n].cur /\ snd'[n].end = nextSeq[n]
<1> DEFINE r == [snd[n] EXCEPT !.ph = "last", !.end = LastEnd(n)]
<1>1. TStore /\ TSnd /\ TRcv /\ TMsg /\ TView /\ TLock /\ TCount
  BY Zenon, Pieces
<1>2. snd[n] \in SendTask
  BY Zenon, <1>1, SndFields DEF lockChunks
<1>3. LastEnd(n) \in 0..MaxId + 1
  <2>1. nextSeq[n] \in 1..MaxId + 1 /\ MaxId \in Nat
    BY Zenon, <1>1, Bounds DEF TStore
  <2> QED
    BY <2>1 DEF LastEnd
<1>4. /\ r \in SendTask /\ r.st = snd[n].st /\ r.ph = "last"
      /\ r.task = snd[n].task /\ r.dst = snd[n].dst
      /\ r.cur = snd[n].cur /\ r.end = nextSeq[n]
  BY Zenon, <1>2, <1>3 DEF SendTask, SendState, Phase, lockChunks, LastEnd
<1>5. snd' = [snd EXCEPT ![n] = r]
  BY Zenon, <1>1 DEF lockChunks, TSnd
<1> HIDE DEF r
<1>6. TSnd' /\ snd'[n] = r /\ Sender(n, snd[n].st, "last")
  BY Zenon, <1>1, <1>4, <1>5, PutSender
<1>7. TypeInv'
  <2>1. TStore'
    BY Zenon, <1>1, SameStore DEF lockChunks, sendUnchanged, disk
  <2>2. TRcv'
    BY Zenon, <1>1, SameRcv DEF lockChunks, sendUnchanged, disk
  <2>3. TMsg'
    BY Zenon, <1>1, SameMsg DEF lockChunks, sendUnchanged, disk
  <2>4. TView'
    BY Zenon, <1>1, SameView DEF lockChunks, sendUnchanged, disk
  <2>5. TLock'
    BY Zenon, <1>1 DEF TLock, lockChunks, sendUnchanged
  <2>6. TCount'
    BY Zenon, <1>1, SameCount DEF lockChunks, sendUnchanged, disk
  <2> QED
    BY Zenon, <1>6, <2>1, <2>2, <2>3, <2>4, <2>5, <2>6, Pieces
<1> QED
  BY Zenon, <1>4, <1>6, <1>7

\* sendOver writes migrateend.
LEMMA sendOverType ==
  ASSUME TypeInv, UNCHANGED setting, NEW n \in Nodes, NEW lost \in BOOLEAN, sendOver(n, lost)
  PROVE  /\ TypeInv' /\ Sender(n, snd[n].st, "over")
         /\ snd'[n].cur = snd[n].cur
<1> DEFINE r == [snd[n] EXCEPT !.ph = "over"]
<1>1. TStore /\ TSnd /\ TRcv /\ TMsg /\ TView /\ TLock /\ TCount
  BY Zenon, Pieces
<1>2. snd[n] \in SendTask
  BY Zenon, <1>1, SndFields DEF sendOver
<1>4. /\ r \in SendTask /\ r.st = snd[n].st /\ r.ph = "over"
      /\ r.task = snd[n].task /\ r.dst = snd[n].dst
      /\ r.cur = snd[n].cur
  BY Zenon, <1>2 DEF SendTask, SendState, Phase, sendOver
<1>5. snd' = [snd EXCEPT ![n] = r]
  BY Zenon, <1>1 DEF sendOver, TSnd
<1> HIDE DEF r
<1>6. TSnd' /\ snd'[n] = r /\ Sender(n, snd[n].st, "over")
  BY Zenon, <1>1, <1>4, <1>5, PutSender
<1>7. TypeInv'
  <2>1. TStore'
    BY Zenon, <1>1, SameStore DEF sendOver, sendUnchanged, disk
  <2>2. TRcv'
    BY Zenon, <1>1, SameRcv DEF sendOver, sendUnchanged, disk
  <2>3. TMsg'
    BY Zenon, <1>1, <1>2, SameTypes DEF TMsg, Ends, SendTask, sendOver, sendUnchanged
  <2>4. TView'
    BY Zenon, <1>1, SameView DEF sendOver, sendUnchanged, disk
  <2>5. TLock'
    BY Zenon, <1>1, SameLock DEF sendOver, sendUnchanged, disk
  <2>6. TCount'
    BY Zenon, <1>1, SameCount DEF sendOver, sendUnchanged, disk
  <2> QED
    BY Zenon, <1>6, <2>1, <2>2, <2>3, <2>4, <2>5, <2>6, Pieces
<1> QED
  BY Zenon, <1>4, <1>6, <1>7

\* sendOver got no answer.
LEMMA sendOverFailsType ==
  ASSUME TypeInv, UNCHANGED setting, NEW n \in Nodes, sendOverFails(n)
  PROVE  /\ TypeInv' /\ Sender(n, "HALF", "idle")
         /\ snd'[n].cur = snd[n].cur
<1> DEFINE r == [snd[n] EXCEPT !.ph = "idle", !.st = "HALF"]
<1>1. TStore /\ TSnd /\ TRcv /\ TMsg /\ TView /\ TLock /\ TCount
  BY Zenon, Pieces
<1>2. snd[n] \in SendTask
  BY Zenon, <1>1, SndFields DEF sendOverFails
<1>4. /\ r \in SendTask /\ r.st = "HALF" /\ r.ph = "idle"
      /\ r.task = snd[n].task /\ r.dst = snd[n].dst
      /\ r.cur = snd[n].cur
  BY Zenon, <1>2 DEF SendTask, SendState, Phase, sendOverFails
<1>5. snd' = [snd EXCEPT ![n] = r]
  BY Zenon, <1>1 DEF sendOverFails, TSnd
<1> HIDE DEF r
<1>6. TSnd' /\ snd'[n] = r /\ Sender(n, "HALF", "idle")
  BY Zenon, <1>1, <1>4, <1>5, PutSender
<1>7. TypeInv'
  <2>1. TStore'
    BY Zenon, <1>1, SameStore DEF sendOverFails, storeVars, disk
  <2>2. TRcv'
    BY Zenon, <1>1, SameRcv DEF sendOverFails, storeVars, disk
  <2>3. TMsg'
    BY Zenon, <1>1, SameTypes DEF TMsg, sendOverFails
  <2>4. TView'
    BY Zenon, <1>1, SameView DEF sendOverFails, storeVars, disk
  <2>5. TLock'
    BY Zenon, <1>1, SameLock DEF sendOverFails, storeVars, disk
  <2>6. TCount'
    BY Zenon, <1>1, SameCount DEF sendOverFails, storeVars, disk
  <2> QED
    BY Zenon, <1>6, <2>1, <2>2, <2>3, <2>4, <2>5, <2>6, Pieces
<1> QED
  BY Zenon, <1>4, <1>6, <1>7

\* The scheduler ends a task that is half done.
LEMMA HalfEndsType ==
  ASSUME TypeInv, UNCHANGED setting, NEW n \in Nodes, HalfEnds(n)
  PROVE  /\ TypeInv' /\ Sender(n, IF view[n].owner = snd[n].dst THEN "CLEAR" ELSE "ERR", snd[n].ph)
<1> DEFINE x == IF view[n].owner = snd[n].dst THEN "CLEAR" ELSE "ERR"
           r == [snd[n] EXCEPT !.st = x]
<1>1. TStore /\ TSnd /\ TRcv /\ TMsg /\ TView /\ TLock /\ TCount
  BY Zenon, Pieces
<1>2. snd[n] \in SendTask
  BY Zenon, <1>1, SndFields DEF HalfEnds
<1>3. x \in SendState
  BY Zenon DEF SendState
<1>5. snd' = [snd EXCEPT ![n] = r]
  BY Zenon, <1>1 DEF HalfEnds, TSnd
<1> HIDE DEF x
<1>4. /\ r \in SendTask /\ r.st = x /\ r.ph = snd[n].ph
      /\ r.task = snd[n].task /\ r.dst = snd[n].dst
  BY Zenon, <1>2, <1>3 DEF SendTask
<1> HIDE DEF r
<1>6. TSnd' /\ snd'[n] = r /\ Sender(n, x, snd[n].ph)
  BY Zenon, <1>1, <1>4, <1>5, PutSender
<1>7. TypeInv'
  <2>1. TStore'
    BY Zenon, <1>1, SameStore DEF HalfEnds, storeVars, disk
  <2>2. TRcv'
    BY Zenon, <1>1, SameRcv DEF HalfEnds, storeVars, disk
  <2>3. TMsg'
    BY Zenon, <1>1, SameTypes DEF TMsg, HalfEnds
  <2>4. TView'
    BY Zenon, <1>1, SameView DEF HalfEnds, storeVars, disk
  <2>5. TLock'
    BY Zenon, <1>1 DEF TLock, HalfEnds
  <2>6. TCount'
    BY Zenon, <1>1, SameCount DEF HalfEnds, storeVars, disk
  <2> QED
    BY Zenon, <1>6, <2>1, <2>2, <2>3, <2>4, <2>5, <2>6, Pieces
<1> QED
  BY Zenon, <1>6, <1>7 DEF x
\* The end of a round of sendBinlog.
LEMMA sendBinlogRoundType ==
  ASSUME TypeInv, UNCHANGED setting, NEW n \in Nodes, sendBinlogRound(n)
  PROVE  /\ TypeInv' /\ Sender(n, snd[n].st, snd'[n].ph) /\ snd'[n].cur = snd[n].cur
         /\ snd'[n].ph = "lock" \/ (snd'[n].ph = "binlog" /\ snd'[n].end = HighestVisible(n))
<1> DEFINE r == IF HighestVisible(n) - snd[n].cur <= Distance
                THEN [snd[n] EXCEPT !.ph = "lock"] ELSE [snd[n] EXCEPT !.end = HighestVisible(n)]
<1>1. TStore /\ TSnd /\ TRcv /\ TMsg /\ TView /\ TLock /\ TCount
  BY Zenon, Pieces
<1>2. snd[n] \in SendTask
  BY Zenon, <1>1, SndFields DEF sendBinlogRound
<1>3. HighestVisible(n) \in 0..MaxId + 1
  <2>1. nextSeq[n] \in 1..MaxId + 1 /\ MaxId \in Nat
    BY Zenon, <1>1, Bounds DEF TStore
  <2> QED
    BY <2>1, Visible
<1>4. /\ r \in SendTask /\ r.st = snd[n].st /\ r.task = snd[n].task /\ r.dst = snd[n].dst
      /\ r.cur = snd[n].cur
      /\ r.ph = "lock" \/ (r.ph = "binlog" /\ r.end = HighestVisible(n))
  <2> DEFINE a == [snd[n] EXCEPT !.ph = "lock"]
             e == [snd[n] EXCEPT !.end = HighestVisible(n)]
  <2>1. /\ a \in SendTask /\ a.st = snd[n].st /\ a.task = snd[n].task /\ a.dst = snd[n].dst
        /\ a.cur = snd[n].cur /\ a.ph = "lock"
    BY Zenon, <1>2 DEF SendTask, Phase
  <2>2. /\ e \in SendTask /\ e.st = snd[n].st /\ e.task = snd[n].task /\ e.dst = snd[n].dst
        /\ e.cur = snd[n].cur /\ e.ph = "binlog" /\ e.end = HighestVisible(n)
    BY Zenon, <1>2, <1>3 DEF SendTask, sendBinlogRound
  <2>3. r = a \/ r = e
    BY Zenon
  <2> HIDE DEF r, a, e
  <2> QED
    BY Zenon, <2>1, <2>2, <2>3
<1>5. snd' = [snd EXCEPT ![n] = r]
  <2>1. CASE HighestVisible(n) - snd[n].cur <= Distance
    BY Zenon, <1>1, <2>1 DEF TSnd, sendBinlogRound
  <2>2. CASE ~(HighestVisible(n) - snd[n].cur <= Distance)
    BY Zenon, <1>1, <2>2 DEF TSnd, sendBinlogRound
  <2> QED
    BY Zenon, <2>1, <2>2
<1> HIDE DEF r
<1>6. TSnd' /\ snd'[n] = r /\ Sender(n, snd[n].st, r.ph)
  BY Zenon, <1>1, <1>4, <1>5, PutSender
<1>7. TypeInv'
  BY Zenon, <1>6, SendOnly DEF sendBinlogRound, sendUnchanged
<1> QED
  BY Zenon, <1>4, <1>6, <1>7

\* Any failure of sendSlots, as far as the sender is concerned.
LEMMA sendSlotsFailsSender ==
  ASSUME TypeInv, UNCHANGED setting, NEW n \in Nodes, NEW told \in BOOLEAN, NEW stopped \in BOOLEAN,
         sendSlotsFails(n, told, stopped)
  PROVE  TSnd' /\ Sender(n, snd'[n].st, "idle") /\ snd'[n].st \in {"WAIT", "ERR"}
<1> DEFINE x == IF snd[n].num = 0 /\ ~stopped THEN "WAIT" ELSE "ERR"
           r == [snd[n] EXCEPT !.ph = "idle", !.st = x]
<1>1. TSnd
  BY Zenon, Pieces
<1>2. snd[n] \in SendTask
  BY Zenon, <1>1, SndFields DEF sendSlotsFails
<1>3. x \in {"WAIT", "ERR"}
  BY Zenon
<1>4. snd' = [snd EXCEPT ![n] = r]
  BY Zenon, <1>1 DEF sendSlotsFails, TSnd
<1> HIDE DEF x
<1>5. r \in SendTask /\ r.st = x /\ r.ph = "idle" /\ r.task = snd[n].task /\ r.dst = snd[n].dst
  BY Zenon, <1>2, <1>3 DEF SendTask, SendState, Phase
<1> HIDE DEF r
<1>6. TSnd' /\ snd'[n] = r /\ Sender(n, x, "idle")
  BY Zenon, <1>1, <1>4, <1>5, PutSender
<1> QED
  BY Zenon, <1>3, <1>5, <1>6

\* The import of d changes, but not its task and sender.
Receiver(d, st, up, num) ==
  /\ \A e \in Nodes \ {d} : rcv'[e] = rcv[e]
  /\ rcv'[d] \in RecvTask /\ rcv'[d].st = st /\ rcv'[d].up = up /\ rcv'[d].num = num
  /\ rcv'[d].task = rcv[d].task /\ rcv'[d].src = rcv[d].src

\* A step of the import of d.
LEMMA PutReceiver ==
  ASSUME TRcv, UNCHANGED setting, NEW d \in Nodes, NEW r \in RecvTask, NEW st, NEW up, NEW num,
         rcv' = [rcv EXCEPT ![d] = r],
         r.st = st, r.up = up, r.num = num, r.task = rcv[d].task, r.src = rcv[d].src
  PROVE  TRcv' /\ rcv'[d] = r /\ Receiver(d, st, up, num)
<1>1. TRcv' /\ rcv'[d] = r /\ \A e \in Nodes \ {d} : rcv'[e] = rcv[e]
  BY Zenon, PutRcv
<1> QED
  BY Zenon, <1>1 DEF Receiver

\* The sender tells the receiver of a failure, or does not.
LEMMA sendSlotsFailsType ==
  ASSUME TypeInv, UNCHANGED setting, NEW n \in Nodes, NEW told \in BOOLEAN, NEW stopped \in BOOLEAN,
         sendSlotsFails(n, told, stopped)
  PROVE  /\ TypeInv'
         /\ \/ UNCHANGED rcv
            \/ /\ rcv[snd[n].dst].st # "NONE" /\ rcv[snd[n].dst].task = snd[n].task
               /\ snd[n].ph \in {"binlog", "last"}
               /\ Receiver(snd[n].dst, "ERR", FALSE, rcv[snd[n].dst].num)
<1> DEFINE d == snd[n].dst
           r == [rcv[d] EXCEPT !.st = "ERR", !.up = FALSE]
<1>1. TStore /\ TSnd /\ TRcv /\ TMsg /\ TView /\ TLock /\ TCount
  BY Zenon, Pieces
<1>2. snd[n] \in SendTask
  BY Zenon, <1>1, SndFields DEF sendSlotsFails
<1>3. d \in Nodes
  BY Zenon, <1>2 DEF SendTask
<1>4. \/ rcv' = rcv
      \/ /\ told /\ rcv[d].st # "NONE" /\ rcv[d].task = snd[n].task
         /\ rcv' = [rcv EXCEPT ![d].st = "ERR", ![d].up = FALSE]
  BY Zenon DEF sendSlotsFails
<1> HIDE DEF d
<1>5. TRcv' /\ (\/ UNCHANGED rcv
                \/ /\ rcv[d].st # "NONE" /\ rcv[d].task = snd[n].task /\ told
                   /\ Receiver(d, "ERR", FALSE, rcv[d].num))
  <2>1. CASE rcv' = rcv
    BY Zenon, <1>1, <2>1, SameRcv
  <2>2. CASE /\ told /\ rcv[d].st # "NONE" /\ rcv[d].task = snd[n].task
             /\ rcv' = [rcv EXCEPT ![d].st = "ERR", ![d].up = FALSE]
    <3>1. rcv[d] \in RecvTask
      BY Zenon, <1>1, <1>3, <2>2, RcvFields
    <3>2. /\ r \in RecvTask /\ r.st = "ERR" /\ r.up = FALSE /\ r.num = rcv[d].num
          /\ r.task = rcv[d].task /\ r.src = rcv[d].src
      BY Zenon, <3>1 DEF RecvTask
    <3>3. rcv' = [rcv EXCEPT ![d] = r]
      BY Zenon, <1>1, <1>3, <2>2 DEF TRcv
    <3> HIDE DEF r
    <3>4. TRcv' /\ Receiver(d, "ERR", FALSE, rcv[d].num)
      BY <1>1, <1>3, <3>2, <3>3, PutReceiver
    <3> QED
      BY Zenon, <2>2, <3>4
  <2> QED
    BY Zenon, <1>4, <2>1, <2>2
<1>6. TSnd'
  BY Zenon, sendSlotsFailsSender
<1>7. TStore'
  BY Zenon, <1>1, SameStore DEF sendSlotsFails, sendUnchanged, disk
<1>8. TMsg' /\ TView'
  BY Zenon, <1>1, SameMsg, SameView DEF sendSlotsFails, sendUnchanged
<1>9. TLock'
  BY Zenon, <1>1 DEF TLock, sendSlotsFails, sendUnchanged
<1>10. TCount'
  BY Zenon, <1>1, SameCount DEF sendSlotsFails, sendUnchanged
<1>11. TypeInv'
  BY Zenon, <1>5, <1>6, <1>7, <1>8, <1>9, <1>10, Pieces
<1>12. told => snd[n].ph \in {"binlog", "last"}
  BY Zenon DEF sendSlotsFails
<1> QED
  BY Zenon, <1>5, <1>11, <1>12 DEF d
\* sendOver got its answer.
LEMMA sendOverAnsweredType ==
  ASSUME TypeInv, UNCHANGED setting, NEW n \in Nodes, sendOverAnswered(n)
  PROVE  TypeInv' /\ Sender(n, "CLEAR", "idle")
<1> DEFINE r == [snd[n] EXCEPT !.ph = "idle", !.st = "CLEAR"]
<1>1. TStore /\ TSnd /\ TRcv /\ TMsg /\ TView /\ TLock /\ TCount
  BY Zenon, Pieces
<1>2. snd[n] \in SendTask
  BY Zenon, <1>1, SndFields DEF sendOverAnswered
<1>3. /\ r \in SendTask /\ r.st = "CLEAR" /\ r.ph = "idle" /\ r.task = snd[n].task /\ r.dst = snd[n].dst
  BY Zenon, <1>2 DEF SendTask, SendState, Phase
<1>4. snd' = [snd EXCEPT ![n] = r]
  BY Zenon, <1>1 DEF sendOverAnswered, TSnd
<1> HIDE DEF r
<1>5. TSnd' /\ Sender(n, "CLEAR", "idle")
  BY Zenon, <1>1, <1>3, <1>4, PutSender
<1>6. TStore'
  BY Zenon, <1>1, SameStore DEF sendOverAnswered, storeVars, disk
<1>7. TRcv' /\ TCount'
  BY Zenon, <1>1, SameRcv, SameCount DEF sendOverAnswered, storeVars
<1>8. TMsg'
  BY Zenon, <1>1, SameTypes DEF TMsg, sendOverAnswered
<1>9. TLock'
  BY Zenon, <1>1 DEF TLock, sendOverAnswered
<1>10. TView'
  <2>1. view' = view \/ view' = [view EXCEPT ![n] = [owner |-> snd[n].dst, epoch |-> 0]]
    BY Zenon DEF sendOverAnswered
  <2>2. snd[n].dst \in Nodes
    BY Zenon, <1>2 DEF SendTask
  <2>3. [owner |-> snd[n].dst, epoch |-> 0] \in Views
    BY Zenon, <2>2 DEF Views
  <2>4. view' \in [Nodes -> Views] /\ saved' \in [Nodes -> Views]
    BY Zenon, <1>1, <2>1, <2>3 DEF TView, sendOverAnswered
  <2>5. PICK b \in Nat : \A m \in Nodes : view[m].epoch <= b /\ saved[m].epoch <= b
    BY Zenon, <1>1 DEF TView, EpochInv
  <2>6. \A m \in Nodes : view'[m].epoch <= b /\ saved'[m].epoch <= b
    BY <1>1, <2>1, <2>5 DEF TView, sendOverAnswered
  <2> QED
    BY Zenon, <2>4, <2>5, <2>6 DEF TView, EpochInv
<1> QED
  BY Zenon, <1>5, <1>6, <1>7, <1>8, <1>9, <1>10, Pieces

\* deleteSenderChunks hands a slot that is gone to the collector.
LEMMA deleteSenderChunksType ==
  ASSUME TypeInv, UNCHANGED setting, NEW n \in Nodes, deleteSenderChunks(n)
  PROVE  /\ TypeInv' /\ Sender(n, snd'[n].st, snd[n].ph) /\ snd'[n].st \in {"SUCC", "ERR"}
         /\ \/ UNCHANGED deleting
            \/ view[n].owner = snd[n].dst /\ deleting' = [deleting EXCEPT ![n] = TRUE]
<1> DEFINE x == IF view[n].owner = snd[n].dst /\ ~deleting[n] THEN "SUCC" ELSE "ERR"
           r == [snd[n] EXCEPT !.st = x]
<1>1. TStore /\ TSnd /\ TRcv /\ TMsg /\ TView /\ TLock /\ TCount
  BY Zenon, Pieces
<1>2. snd[n] \in SendTask
  BY Zenon, <1>1, SndFields DEF deleteSenderChunks
<1>3. x \in {"SUCC", "ERR"}
  BY Zenon
<1>4. snd' = [snd EXCEPT ![n] = r]
  BY Zenon, <1>1 DEF deleteSenderChunks, TSnd
<1> HIDE DEF x
<1>5. /\ r \in SendTask /\ r.st = x /\ r.ph = snd[n].ph /\ r.task = snd[n].task /\ r.dst = snd[n].dst
  BY Zenon, <1>2, <1>3 DEF SendTask, SendState
<1> HIDE DEF r
<1>6. TSnd' /\ snd'[n] = r /\ Sender(n, x, snd[n].ph)
  BY Zenon, <1>1, <1>4, <1>5, PutSender
<1>7. TStore'
  BY Zenon, <1>1, SameStore DEF deleteSenderChunks, storeVars, disk
<1>8. TRcv' /\ TMsg' /\ TView'
  BY Zenon, <1>1, SameRcv, SameMsg, SameView DEF deleteSenderChunks
<1>9. TCount'
  BY Zenon, <1>1, SameCount DEF deleteSenderChunks, storeVars
<1>10. \/ UNCHANGED deleting
       \/ view[n].owner = snd[n].dst /\ deleting' = [deleting EXCEPT ![n] = TRUE]
  BY Zenon DEF deleteSenderChunks
<1>11. TLock'
  BY Zenon, <1>1, <1>10 DEF TLock, deleteSenderChunks
<1> QED
  BY Zenon, <1>3, <1>5, <1>6, <1>7, <1>8, <1>9, <1>10, <1>11, Pieces

\* senderSchedule drops a task.
LEMMA eraseSendTaskType ==
  ASSUME TypeInv, UNCHANGED setting, NEW n \in Nodes, eraseSendTask(n)
  PROVE  TypeInv' /\ snd'[n] = NoSend /\ \A m \in Nodes \ {n} : snd'[m] = snd[m]
<1>1. TSnd
  BY Zenon, Pieces
<1>2. TSnd' /\ snd'[n] = NoSend /\ \A m \in Nodes \ {n} : snd'[m] = snd[m]
  BY Zenon, <1>1, PutSnd DEF eraseSendTask
<1> QED
  BY Zenon, <1>2, SendOnly DEF eraseSendTask, storeVars

\* The snapshot has arrived.
LEMMA sendSnapshotEndType ==
  ASSUME TypeInv, UNCHANGED setting, NEW n \in Nodes, sendSnapshotEnd(n)
  PROVE  /\ TypeInv' /\ Sender(n, snd[n].st, "ack") /\ snd'[n].cur = snd[n].cur
         /\ Receiver(snd[n].dst, "RECEIVE_BINLOG", FALSE, rcv[snd[n].dst].num)
<1> DEFINE r == [snd[n] EXCEPT !.ph = "ack"]
           d == snd[n].dst
           q == [rcv[d] EXCEPT !.st = "RECEIVE_BINLOG", !.up = FALSE]
<1>1. TStore /\ TSnd /\ TRcv /\ TMsg /\ TView /\ TLock /\ TCount
  BY Zenon, Pieces
<1>2. snd[n] \in SendTask
  BY Zenon, <1>1, SndFields DEF sendSnapshotEnd
<1>3. /\ r \in SendTask /\ r.st = snd[n].st /\ r.ph = "ack" /\ r.task = snd[n].task /\ r.dst = snd[n].dst
      /\ r.cur = snd[n].cur
  BY Zenon, <1>2 DEF SendTask, Phase
<1>4. snd' = [snd EXCEPT ![n] = r]
  BY Zenon, <1>1 DEF sendSnapshotEnd, TSnd
<1>5. d \in Nodes /\ rcv[d] \in RecvTask
  <2>1. d \in Nodes /\ rcv[d].st # "NONE"
    BY Zenon, <1>2 DEF SendTask, sendSnapshotEnd, Listening
  <2> QED
    BY Zenon, <1>1, <2>1, RcvFields
<1>6. rcv' = [rcv EXCEPT ![d] = q]
  BY Zenon, <1>1, <1>5 DEF sendSnapshotEnd, TRcv
<1> HIDE DEF r, d
<1>7. TSnd' /\ snd'[n] = r /\ Sender(n, snd[n].st, "ack")
  BY Zenon, <1>1, <1>3, <1>4, PutSender
<1>8. /\ q \in RecvTask /\ q.st = "RECEIVE_BINLOG" /\ q.up = FALSE /\ q.num = rcv[d].num
      /\ q.task = rcv[d].task /\ q.src = rcv[d].src
  BY Zenon, <1>5 DEF RecvTask
<1> HIDE DEF q
<1>9. TRcv' /\ Receiver(d, "RECEIVE_BINLOG", FALSE, rcv[d].num)
  BY <1>1, <1>5, <1>6, <1>8, PutReceiver
<1>10. TStore'
  BY Zenon, <1>1, SameStore DEF sendSnapshotEnd, sendUnchanged, disk
<1>11. TMsg' /\ TView'
  BY Zenon, <1>1, SameMsg, SameView DEF sendSnapshotEnd, sendUnchanged
<1>12. TLock' /\ TCount'
  BY Zenon, <1>1, SameLock, SameCount DEF sendSnapshotEnd, sendUnchanged
<1> QED
  BY Zenon, <1>3, <1>7, <1>9, <1>10, <1>11, <1>12, Pieces DEF d
\* A store that commits a batch of the migration.
LEMMA AppendedType ==
  ASSUME TypeInv, UNCHANGED <<setting, client>>, NEW d \in Nodes, NEW es, Appended(d, es)
  PROVE  TStore'
<1>1. TStore /\ TCount
  BY Zenon, Pieces
<1>2. MaxId' = MaxId /\ ClientState' = ClientState /\ MaxId \in Nat
  BY Zenon, <1>1, SameTypes, Bounds
<1>3. /\ nextSeq \in [Nodes -> 1..MaxId + 1] /\ nextSeq[d] \in 1..MaxId + 1
      /\ nextSeq'[d] \in nextSeq[d]..MaxId + 1 /\ nextSeq' = [nextSeq EXCEPT ![d] = nextSeq'[d]]
  BY Zenon, <1>1 DEF TStore, Appended
<1>4. nextSeq' \in [Nodes -> 1..MaxId + 1] /\ \A n \in Nodes : nextSeq[n] <= nextSeq'[n]
  BY <1>2, <1>3
<1>5. data' \in [Nodes -> [SlotKeys -> Nat]]
  BY Zenon, <1>1 DEF TStore, Appended
<1>6. \A x \in nextSeq[d]..nextSeq'[d] - 1 : x \in 1..MaxId /\ x \in 1..nextSeq'[d] - 1
  BY <1>2, <1>3
<1>7. \A x \in 1..nextSeq[d] - 1 : x \in 1..MaxId /\ x \in 1..nextSeq'[d] - 1
  BY <1>2, <1>3
<1>8. DOMAIN log[d] \subseteq 1..nextSeq[d] - 1 /\ marked[d] \subseteq 1..nextSeq[d] - 1
  BY Zenon, <1>1 DEF TStore, NumInv
<1>9. DOMAIN log'[d] \subseteq 1..MaxId /\ DOMAIN log'[d] \subseteq 1..nextSeq'[d] - 1
  BY Zenon, <1>6, <1>7, <1>8 DEF Appended
<1>10. marked'[d] \subseteq 1..MaxId /\ marked'[d] \subseteq 1..nextSeq'[d] - 1
  BY Zenon, <1>6, <1>7, <1>8 DEF Appended
<1>11. /\ log' = [n \in Nodes |-> log'[n]]
       /\ \A n \in Nodes \ {d} : log'[n] = log[n]
  BY Zenon, <1>1 DEF TStore, Appended
<1>12. \A n \in Nodes : DOMAIN log'[n] \subseteq 1..MaxId /\ log'[n] \in [DOMAIN log'[n] -> Entry]
  <2> SUFFICES ASSUME NEW n \in Nodes
               PROVE  DOMAIN log'[n] \subseteq 1..MaxId /\ log'[n] \in [DOMAIN log'[n] -> Entry]
    BY Zenon
  <2>1. CASE n = d
    BY Zenon, <1>9, <2>1 DEF Appended
  <2>2. CASE n # d
    BY Zenon, <1>1, <1>11, <2>2 DEF TStore
  <2> QED
    BY Zenon, <2>1, <2>2
<1>13. marked' \in [Nodes -> SUBSET (1..MaxId)] /\ \A n \in Nodes \ {d} : marked'[n] = marked[n]
  BY Zenon, <1>1, <1>10 DEF TStore, Appended
<1>14. \A n \in Nodes \ {d} : nextSeq'[n] = nextSeq[n]
  BY Zenon, <1>3
<1>15. \A n \in Nodes : DOMAIN log'[n] \cup marked'[n] \subseteq 1..nextSeq'[n] - 1
  <2> SUFFICES ASSUME NEW n \in Nodes
               PROVE  DOMAIN log'[n] \cup marked'[n] \subseteq 1..nextSeq'[n] - 1
    BY Zenon
  <2>1. CASE n = d
    BY Zenon, <1>9, <1>10, <2>1
  <2>2. CASE n # d
    <3>1. log'[n] = log[n] /\ marked'[n] = marked[n] /\ nextSeq'[n] = nextSeq[n]
      BY Zenon, <1>11, <1>13, <1>14, <2>2
    <3> QED
      BY Zenon, <1>1, <3>1 DEF TStore, NumInv
  <2> QED
    BY Zenon, <2>1, <2>2
<1>16. \A c \in Clients : client'[c] # Idle => client'[c].id < nextSeq'[client'[c].node]
  <2> SUFFICES ASSUME NEW c \in Clients, client[c] # Idle
               PROVE  client[c].id < nextSeq'[client[c].node]
    BY Zenon DEF Idle
  <2>1. client[c].id \in Nat /\ client[c].node \in Nodes
    BY <1>1, <1>2 DEF TStore, ClientState
  <2>2. client[c].id < nextSeq[client[c].node]
    BY Zenon, <1>1 DEF TStore, NumInv
  <2>3. nextSeq[client[c].node] \in Nat /\ nextSeq'[client[c].node] \in Nat
    BY <1>2, <1>3, <1>4, <2>1
  <2>4. nextSeq[client[c].node] <= nextSeq'[client[c].node]
    BY Zenon, <1>4, <2>1
  <2> QED
    BY <2>1, <2>2, <2>3, <2>4
<1>17. client' \in [Clients -> ClientState]
  BY Zenon, <1>1 DEF TStore
<1>18. NumInv'
  BY Zenon, <1>15, <1>16 DEF NumInv, Idle
<1> QED
  BY Zenon, <1>2, <1>4, <1>5, <1>11, <1>12, <1>13, <1>17, <1>18 DEF TStore

\* catchupBinlog commits at the receiver.
LEMMA catchupBinlogType ==
  ASSUME TypeInv, UNCHANGED setting, NEW n \in Nodes, NEW hi \in 1..MaxId, NEW answered \in BOOLEAN,
         catchupBinlog(n, hi, answered)
  PROVE  /\ TypeInv' /\ Sender(n, snd[n].st, snd[n].ph) /\ snd'[n].end = snd[n].end
         /\ snd'[n].cur = IF answered THEN hi ELSE snd[n].cur
         /\ Appended(snd[n].dst, [i \in SlotBinlogs(n, snd[n].cur, hi) |-> log[n][i]])
<1> DEFINE r == [snd[n] EXCEPT !.cur = hi]
           I == SlotBinlogs(n, snd[n].cur, hi)
           es == [i \in I |-> log[n][i]]
           d == snd[n].dst
<1>1. TStore /\ TSnd /\ TRcv /\ TMsg /\ TView /\ TLock /\ TCount
  BY Zenon, Pieces
<1>2. snd[n] \in SendTask
  BY Zenon, <1>1, SndFields DEF catchupBinlog
<1>3. d \in Nodes /\ MaxId \in Nat
  BY Zenon, <1>1, <1>2, Bounds DEF SendTask
<1>4. /\ TSnd' /\ Sender(n, snd[n].st, snd[n].ph) /\ snd'[n].end = snd[n].end
      /\ snd'[n].cur = IF answered THEN hi ELSE snd[n].cur
  <2>1. CASE answered
    <3>1. /\ r \in SendTask /\ r.st = snd[n].st /\ r.ph = snd[n].ph /\ r.task = snd[n].task
          /\ r.dst = snd[n].dst /\ r.cur = hi /\ r.end = snd[n].end
      BY <1>2, <1>3 DEF SendTask
    <3>2. snd' = [snd EXCEPT ![n] = r]
      BY Zenon, <1>1, <2>1 DEF catchupBinlog, TSnd
    <3> HIDE DEF r
    <3>3. TSnd' /\ snd'[n] = r /\ Sender(n, snd[n].st, snd[n].ph)
      BY Zenon, <1>1, <3>1, <3>2, PutSender
    <3> QED
      BY Zenon, <2>1, <3>1, <3>3
  <2>2. CASE ~answered
    <3>1. snd' = snd
      BY Zenon, <2>2 DEF catchupBinlog
    <3> QED
      BY Zenon, <1>1, <1>2, <2>2, <3>1, SameSnd DEF Sender
  <2> QED
    BY Zenon, <2>1, <2>2
<1>5. Appended(d, es)
  <2>1. DOMAIN es = I /\ I \subseteq 1..MaxId /\ I \subseteq DOMAIN log[n]
    BY Zenon, <1>1 DEF TStore, SlotBinlogs
  <2>2. es \in [DOMAIN es -> Entry]
    BY Zenon, <1>1, <2>1 DEF TStore
  <2>3. Commits(d, es)
    BY Zenon DEF catchupBinlog
  <2> HIDE DEF es, d, I
  <2> QED
    BY Zenon, <1>3, <2>1, <2>2, <2>3, CommitsAppends
<1>6. TStore'
  <2>1. client' = client
    BY Zenon DEF catchupBinlog, sendUnchanged
  <2> HIDE DEF es, d
  <2> QED
    BY Zenon, <1>3, <1>5, <2>1, AppendedType
<1>7. TRcv' /\ TMsg'
  BY Zenon, <1>1, SameRcv, SameMsg DEF catchupBinlog, sendUnchanged
<1>8. TView' /\ TLock' /\ TCount'
  BY Zenon, <1>1, SameView, SameLock, SameCount DEF catchupBinlog, sendUnchanged
<1> QED
  BY Zenon, <1>4, <1>5, <1>6, <1>7, <1>8, Pieces
\* A batch of the snapshot arrives or is lost.
LEMMA sendBatchType ==
  ASSUME TypeInv, UNCHANGED setting, NEW n \in Nodes, NEW k \in SlotKeys, sendBatch(n, k)
  PROVE  /\ TypeInv' /\ Sender(n, snd[n].st, "snap") /\ snd'[n].cur = snd[n].cur
         /\ snd'[n].todo = snd[n].todo \ {k} /\ snd'[n].snap = snd[n].snap
         /\ snd'[n].client = snd[n].client /\ snd'[n].batch = snd[n].batch
         /\ IF Listening(n, snd[n].batch)
            THEN /\ Appended(snd[n].dst, [i \in {1} |-> [key |-> k, val |-> snd[n].snap[k]]])
                 /\ Receiver(snd[n].dst, "RECEIVE_SNAPSHOT", TRUE, rcv[snd[n].dst].num + 1)
                 /\ rcv[snd[n].dst].num \in Nat /\ rcv'[snd[n].dst].try = rcv[snd[n].dst].try
            ELSE UNCHANGED <<disk, rcv>>
<1> DEFINE T == snd[n].todo \ {k}
           c == snd[n].num + 1
           r == [snd[n] EXCEPT !.todo = T, !.num = c]
           es == [i \in {1} |-> [key |-> k, val |-> snd[n].snap[k]]]
           d == snd[n].dst
           q == [rcv[d] EXCEPT !.num = rcv[d].num + 1]
           Outcome == IF Listening(n, snd[n].batch)
                      THEN /\ Appended(d, es)
                           /\ Receiver(d, "RECEIVE_SNAPSHOT", TRUE, rcv[d].num + 1)
                           /\ rcv[d].num \in Nat /\ rcv'[d].try = rcv[d].try
                      ELSE UNCHANGED <<disk, rcv>>
<1>1. TStore /\ TSnd /\ TRcv /\ TMsg /\ TView /\ TLock /\ TCount
  BY Zenon, Pieces
<1>2. snd[n] \in SendTask
  BY Zenon, <1>1, SndFields DEF sendBatch
<1>3. /\ d \in Nodes /\ MaxId \in Nat /\ snd[n].num \in Nat
      /\ snd[n].snap \in [SlotKeys -> Nat] /\ snd[n].todo \subseteq SlotKeys
  BY Zenon, <1>1, <1>2, Bounds DEF SendTask
<1>4. /\ r \in SendTask /\ r.st = snd[n].st /\ r.ph = "snap" /\ r.task = snd[n].task
      /\ r.dst = snd[n].dst /\ r.cur = snd[n].cur /\ r.todo = T
      /\ r.snap = snd[n].snap /\ r.client = snd[n].client /\ r.batch = snd[n].batch
  <2>1. T \in SUBSET SlotKeys /\ c \in Nat
    BY <1>3
  <2>2. snd[n].ph = "snap"
    BY Zenon DEF sendBatch
  <2> HIDE DEF T, c
  <2> QED
    BY Zenon, <1>2, <2>1, <2>2 DEF SendTask
<1>5. snd' = [snd EXCEPT ![n] = r]
  <2>1. snd' = [snd EXCEPT ![n].todo = @ \ {k}, ![n].num = @ + 1]
    BY Zenon DEF sendBatch
  <2> QED
    BY Zenon, <1>1, <1>2, <2>1 DEF TSnd
<1>6. TSnd' /\ snd'[n] = r /\ Sender(n, snd[n].st, "snap")
  <2> HIDE DEF r
  <2> QED
    BY Zenon, <1>1, <1>4, <1>5, PutSender
<1> HIDE DEF r
<1>7. client' = client
  BY Zenon DEF sendBatch, sendUnchanged
<1>8. TStore' /\ TRcv' /\ Outcome
  <2>1. CASE Listening(n, snd[n].batch)
    <3>1. Commits(d, es) /\ rcv' = [rcv EXCEPT ![d].num = @ + 1]
      BY Zenon, <2>1 DEF sendBatch
    <3>2. rcv[d].st = "RECEIVE_SNAPSHOT" /\ rcv[d].up = TRUE /\ rcv[d] \in RecvTask
      <4>1. rcv[d].st = "RECEIVE_SNAPSHOT" /\ rcv[d].up
        BY Zenon, <2>1 DEF Listening
      <4>2. rcv[d] \in RecvTask
        BY Zenon, <1>1, <1>3, <4>1, RcvFields
      <4> QED
        BY Zenon, <4>1, <4>2 DEF RecvTask
    <3>3. Appended(d, es)
      <4>1. DOMAIN es = {1} /\ DOMAIN es \subseteq 1..1
        OBVIOUS
      <4>2. es \in [DOMAIN es -> Entry]
        BY Zenon, <1>3 DEF Entry, Keys
      <4> HIDE DEF es, d
      <4> QED
        BY Zenon, <1>3, <3>1, <4>1, <4>2, CommitsAppends
    <3>4. rcv[d].num \in Nat
      BY Zenon, <3>2 DEF RecvTask
    <3>5. rcv' = [rcv EXCEPT ![d] = q]
      BY Zenon, <1>1, <1>3, <3>1 DEF TRcv
    <3> HIDE DEF d, es
    <3>6. /\ q \in RecvTask /\ q.st = "RECEIVE_SNAPSHOT" /\ q.up = TRUE /\ q.num = rcv[d].num + 1
          /\ q.task = rcv[d].task /\ q.src = rcv[d].src /\ q.try = rcv[d].try
      BY <3>2, <3>4 DEF RecvTask
    <3> HIDE DEF q
    <3>7. TRcv' /\ rcv'[d] = q /\ Receiver(d, "RECEIVE_SNAPSHOT", TRUE, rcv[d].num + 1)
      BY Zenon, <1>1, <1>3, <3>5, <3>6, PutReceiver
    <3>8. TStore'
      BY Zenon, <1>3, <1>7, <3>3, AppendedType
    <3> QED
      BY Zenon, <2>1, <3>3, <3>4, <3>6, <3>7, <3>8
  <2>2. CASE ~Listening(n, snd[n].batch)
    <3>1. UNCHANGED <<disk, rcv>>
      BY Zenon, <2>2 DEF sendBatch
    <3>2. TStore' /\ TRcv'
      BY Zenon, <1>1, <1>7, <3>1, SameStore, SameRcv DEF disk
    <3> QED
      BY Zenon, <2>2, <3>1, <3>2
  <2> QED
    BY Zenon, <2>1, <2>2
<1>9. TMsg' /\ TView'
  BY Zenon, <1>1, SameMsg, SameView DEF sendBatch, sendUnchanged
<1>10. TLock' /\ TCount'
  BY Zenon, <1>1, SameLock, SameCount DEF sendBatch, sendUnchanged
<1> QED
  BY Zenon, <1>4, <1>6, <1>8, <1>9, <1>10, Pieces
\* A step that changes only the store and the count of writes.
LEMMA StoreOnly ==
  ASSUME TypeInv, TStore', writes' \in 0..setting.writes,
         UNCHANGED <<setting, xlock, view, saved, deleting, crashes, taskVars>>
  PROVE  TypeInv'
<1>1. TStore /\ TSnd /\ TRcv /\ TMsg /\ TView /\ TLock /\ TCount
  BY Zenon, Pieces
<1>2. TSnd' /\ TRcv' /\ TMsg'
  BY Zenon, <1>1, SameSnd, SameRcv, SameMsg DEF taskVars
<1>3. TView' /\ TLock'
  BY Zenon, <1>1, SameView, SameLock
<1>4. TCount'
  BY Zenon, <1>1, SameTypes DEF TCount, taskVars
<1> QED
  BY Zenon, <1>2, <1>3, <1>4, Pieces

\* A command takes its lock and its binlog id.
LEMMA getDbWithKeyLockType ==
  ASSUME TypeInv, UNCHANGED setting, NEW c \in Clients, NEW n \in Nodes, NEW k \in Keys,
         getDbWithKeyLock(c, n, k)
  PROVE  /\ TypeInv'
         /\ client'[c] = [pc |-> "id", node |-> n, key |-> k, id |-> nextSeq[n]] /\ client'[c] # Idle
         /\ \A e \in Clients \ {c} : client'[e] = client[e]
         /\ nextSeq'[n] = nextSeq[n] + 1 /\ \A m \in Nodes \ {n} : nextSeq'[m] = nextSeq[m]
<1> DEFINE w == [pc |-> "id", node |-> n, key |-> k, id |-> nextSeq[n]]
<1>1. TStore /\ TCount
  BY Zenon, Pieces
<1>2. MaxId' = MaxId /\ ClientState' = ClientState /\ MaxId \in Nat /\ setting.writes \in Nat
  BY Zenon, <1>1, SameTypes, Bounds
<1>3. nextSeq \in [Nodes -> 1..MaxId + 1] /\ nextSeq[n] <= MaxId /\ nextSeq[n] \in 1..MaxId
  BY <1>1, <1>2 DEF TStore, getDbWithKeyLock
<1>4. w \in ClientState /\ w # Idle /\ w.id = nextSeq[n] /\ w.node = n
  BY Zenon, <1>3 DEF ClientState, Idle
<1>5. client' = [client EXCEPT ![c] = w] /\ nextSeq' = [nextSeq EXCEPT ![n] = @ + 1]
  BY Zenon DEF getDbWithKeyLock
<1> HIDE DEF w
<1>6. client' \in [Clients -> ClientState] /\ client'[c] = w /\ \A e \in Clients \ {c} : client'[e] = client[e]
  BY Zenon, <1>1, <1>4, <1>5 DEF TStore
<1>7. /\ nextSeq' \in [Nodes -> 1..MaxId + 1] /\ nextSeq'[n] = nextSeq[n] + 1
      /\ \A m \in Nodes \ {n} : nextSeq'[m] = nextSeq[m]
  BY <1>2, <1>3, <1>5
<1>8. \A m \in Nodes : nextSeq[m] \in Nat /\ nextSeq'[m] \in Nat /\ nextSeq[m] <= nextSeq'[m]
  BY <1>2, <1>3, <1>7
<1>9. \A m \in Nodes : DOMAIN log'[m] \cup marked'[m] \subseteq 1..nextSeq'[m] - 1
  <2> SUFFICES ASSUME NEW m \in Nodes
               PROVE  DOMAIN log[m] \cup marked[m] \subseteq 1..nextSeq'[m] - 1
    BY Zenon DEF getDbWithKeyLock
  <2>1. DOMAIN log[m] \cup marked[m] \subseteq 1..nextSeq[m] - 1
    BY Zenon, <1>1 DEF TStore, NumInv
  <2>2. 1..nextSeq[m] - 1 \subseteq 1..nextSeq'[m] - 1
    BY <1>8
  <2> QED
    BY Zenon, <2>1, <2>2
<1>10. ASSUME NEW e \in Clients, client'[e] # Idle
       PROVE  client'[e].id < nextSeq'[client'[e].node]
  <2>1. CASE e = c
    BY <1>3, <1>4, <1>6, <1>7, <2>1
  <2>2. CASE e # c
    <3>1. client[e] # Idle /\ client'[e] = client[e]
      BY Zenon, <1>6, <1>10, <2>2
    <3>2. client[e].id < nextSeq[client[e].node] /\ client[e].id \in Nat /\ client[e].node \in Nodes
      BY <1>1, <1>2, <3>1 DEF TStore, NumInv, ClientState
    <3>3. nextSeq[client[e].node] <= nextSeq'[client[e].node] /\ nextSeq[client[e].node] \in Nat
          /\ nextSeq'[client[e].node] \in Nat
      BY Zenon, <1>8, <3>2
    <3> QED
      BY <3>1, <3>2, <3>3
  <2> QED
    BY Zenon, <2>1, <2>2
<1>11. NumInv'
  BY Zenon, <1>9, <1>10 DEF NumInv, Idle
<1>12. UNCHANGED <<data, log, marked>>
  BY Zenon DEF getDbWithKeyLock
<1>13. TStore'
  BY Zenon, <1>1, <1>2, <1>6, <1>7, <1>11, <1>12 DEF TStore
<1>14. writes' \in 0..setting.writes
  BY <1>1, <1>2 DEF TCount, getDbWithKeyLock
<1>15. TypeInv'
  BY Zenon, <1>13, <1>14, StoreOnly DEF getDbWithKeyLock
<1> QED
  BY Zenon, <1>4, <1>6, <1>7, <1>15 DEF w

\* The commit writes the data and the binlog.
LEMMA CommitWriteType ==
  ASSUME TypeInv, UNCHANGED setting, NEW c \in Clients, CommitWrite(c)
  PROVE  /\ TypeInv' /\ client[c] # Idle
         /\ client[c].node \in Nodes /\ client[c].key \in Keys /\ client[c].id \in 1..MaxId
         /\ client'[c] # Idle /\ client'[c].pc = "written" /\ client'[c].node = client[c].node
         /\ client'[c].key = client[c].key /\ client'[c].id = client[c].id
         /\ \A e \in Clients \ {c} : client'[e] = client[e]
         /\ \A m \in Nodes \ {client[c].node} : log'[m] = log[m] /\ data'[m] = data[m]
         /\ DOMAIN log'[client[c].node] = DOMAIN log[client[c].node] \cup {client[c].id}
         /\ log'[client[c].node][client[c].id].key = client[c].key
         /\ \A i \in DOMAIN log[client[c].node] \ {client[c].id} : log'[client[c].node][i] = log[client[c].node][i]
         /\ client[c].key \notin SlotKeys => data' = data
         /\ client[c].key \in SlotKeys =>
              /\ data'[client[c].node][client[c].key] = data[client[c].node][client[c].key] + 1
              /\ log'[client[c].node][client[c].id].val = data[client[c].node][client[c].key] + 1
              /\ \A k \in SlotKeys \ {client[c].key} : data'[client[c].node][k] = data[client[c].node][k]
<1> DEFINE w == client[c]
           n == client[c].node
           x == [client[c] EXCEPT !.pc = "written"]
           v == IF w.key \in SlotKeys THEN data[w.node][w.key] + 1 ELSE 0
           L == [i \in DOMAIN log[n] \cup {w.id} |-> IF i = w.id THEN [key |-> w.key, val |-> v] ELSE log[n][i]]
<1>1. TStore /\ TCount
  BY Zenon, Pieces
<1>2. MaxId' = MaxId /\ ClientState' = ClientState /\ MaxId \in Nat
  BY Zenon, <1>1, SameTypes, Bounds
<1>3. w \in ClientState /\ w.pc = "id"
  BY Zenon, <1>1 DEF TStore, CommitWrite
<1>4. n \in Nodes /\ w.key \in Keys /\ w.id \in 1..MaxId /\ w # Idle
  BY <1>3 DEF ClientState, Idle
<1>5. x \in ClientState /\ x.pc = "written" /\ x.node = n /\ x.key = w.key /\ x.id = w.id /\ x # Idle
  BY <1>3 DEF ClientState, Idle
<1>6. v \in Nat
  BY <1>1, <1>4 DEF TStore
<1>7. /\ client' = [client EXCEPT ![c] = x] /\ log' = [log EXCEPT ![n] = L]
      /\ data' = IF w.key \in SlotKeys THEN [data EXCEPT ![n][w.key] = v] ELSE data
  <2>1. log' = [log EXCEPT ![n] = L]
    BY Zenon, <1>1, <1>4 DEF CommitWrite, TStore
  <2>2. client' = [client EXCEPT ![c] = x]
    BY Zenon, <1>1 DEF CommitWrite, TStore
  <2> QED
    BY Zenon, <2>1, <2>2 DEF CommitWrite
<1>8. client' \in [Clients -> ClientState] /\ client'[c] = x /\ \A e \in Clients \ {c} : client'[e] = client[e]
  <2> HIDE DEF x
  <2> QED
    BY Zenon, <1>1, <1>5, <1>7 DEF TStore
<1>9. /\ DOMAIN L = DOMAIN log[n] \cup {w.id} /\ L[w.id] = [key |-> w.key, val |-> v]
      /\ \A i \in DOMAIN log[n] \ {w.id} : L[i] = log[n][i]
  BY Zenon
<1>10. L \in [DOMAIN L -> Entry] /\ DOMAIN L \subseteq 1..MaxId
  <2>1. [key |-> w.key, val |-> v] \in Entry
    BY Zenon, <1>4, <1>6 DEF Entry
  <2>2. log[n] \in [DOMAIN log[n] -> Entry] /\ DOMAIN log[n] \subseteq 1..MaxId
    BY Zenon, <1>1, <1>4 DEF TStore
  <2> HIDE DEF v
  <2> QED
    BY Zenon, <1>4, <2>1, <2>2
<1>11. log'[n] = L /\ (\A m \in Nodes \ {n} : log'[m] = log[m]) /\ log' = [m \in Nodes |-> log'[m]]
  <2> HIDE DEF L
  <2> QED
    BY Zenon, <1>1, <1>4, <1>7 DEF TStore
<1> HIDE DEF L
<1>12. \A m \in Nodes : DOMAIN log'[m] \subseteq 1..MaxId /\ log'[m] \in [DOMAIN log'[m] -> Entry]
  <2> SUFFICES ASSUME NEW m \in Nodes
               PROVE  DOMAIN log'[m] \subseteq 1..MaxId /\ log'[m] \in [DOMAIN log'[m] -> Entry]
    BY Zenon
  <2>1. CASE m = n
    BY Zenon, <1>10, <1>11, <2>1
  <2>2. CASE m # n
    BY Zenon, <1>1, <1>11, <2>2 DEF TStore
  <2> QED
    BY Zenon, <2>1, <2>2
<1>13. /\ data' \in [Nodes -> [SlotKeys -> Nat]]
       /\ \A m \in Nodes \ {n} : data'[m] = data[m]
       /\ w.key \notin SlotKeys => data' = data
       /\ w.key \in SlotKeys => /\ data'[n][w.key] = v
                                /\ \A k \in SlotKeys \ {w.key} : data'[n][k] = data[n][k]
  <2> HIDE DEF v
  <2> QED
    BY Zenon, <1>1, <1>4, <1>6, <1>7 DEF TStore
<1>14. UNCHANGED <<nextSeq, marked>>
  BY Zenon DEF CommitWrite
<1>15. \A m \in Nodes : DOMAIN log'[m] \cup marked'[m] \subseteq 1..nextSeq'[m] - 1
  <2> SUFFICES ASSUME NEW m \in Nodes
               PROVE  DOMAIN log'[m] \cup marked[m] \subseteq 1..nextSeq[m] - 1
    BY Zenon, <1>14
  <2>1. DOMAIN log[m] \cup marked[m] \subseteq 1..nextSeq[m] - 1
    BY Zenon, <1>1 DEF TStore, NumInv
  <2>2. CASE m = n
    <3>1. w.id < nextSeq[n] /\ nextSeq[n] \in Nat
      BY <1>1, <1>2, <1>4 DEF TStore, NumInv
    <3>2. w.id \in 1..nextSeq[n] - 1
      BY <1>2, <1>4, <3>1
    <3> QED
      BY Zenon, <1>9, <1>11, <2>1, <2>2, <3>2
  <2>3. CASE m # n
    BY Zenon, <1>11, <2>1, <2>3
  <2> QED
    BY Zenon, <2>2, <2>3
<1>16. ASSUME NEW e \in Clients, client'[e] # Idle
       PROVE  client'[e].id < nextSeq[client'[e].node]
  <2>1. CASE e = c
    <3>1. client[c].id < nextSeq[client[c].node]
      BY Zenon, <1>1, <1>4 DEF TStore, NumInv
    <3> HIDE DEF x
    <3> QED
      BY Zenon, <1>5, <1>8, <2>1, <3>1
  <2>2. CASE e # c
    BY Zenon, <1>1, <1>8, <1>16, <2>2 DEF TStore, NumInv
  <2> QED
    BY Zenon, <2>1, <2>2
<1>17. NumInv'
  BY Zenon, <1>14, <1>15, <1>16 DEF NumInv, Idle
<1>18. TStore'
  BY Zenon, <1>1, <1>2, <1>8, <1>11, <1>12, <1>13, <1>14, <1>17 DEF TStore
<1>19. writes' \in 0..setting.writes
  BY Zenon, <1>1 DEF TCount, CommitWrite
<1>20. TypeInv'
  BY Zenon, <1>18, <1>19, StoreOnly DEF CommitWrite
<1>21. /\ log'[n][w.id].key = w.key /\ log'[n][w.id].val = v
  BY <1>9, <1>11
<1>22. \A i \in DOMAIN log[n] \ {w.id} : log'[n][i] = log[n][i]
  BY Zenon, <1>9, <1>11
<1>23. DOMAIN log'[n] = DOMAIN log[n] \cup {w.id}
  BY Zenon, <1>9, <1>11
<1>24. client'[c] # Idle /\ client'[c].pc = "written" /\ client'[c].node = n /\ client'[c].key = w.key
       /\ client'[c].id = w.id
  <2> HIDE DEF x
  <2> QED
    BY Zenon, <1>5, <1>8
<1>25. w.key \in SlotKeys => v = data[n][w.key] + 1
  BY Zenon
<1> HIDE DEF v
<1> QED
  BY Zenon, <1>4, <1>8, <1>11, <1>13, <1>20, <1>21, <1>22, <1>23, <1>24, <1>25

\* markCommitted.
LEMMA MarkCommittedType ==
  ASSUME TypeInv, UNCHANGED setting, NEW c \in Clients, MarkCommitted(c)
  PROVE  /\ TypeInv' /\ client'[c] = Idle /\ \A e \in Clients \ {c} : client'[e] = client[e]
         /\ client[c] # Idle /\ client[c].node \in Nodes /\ client[c].id \in Nat
         /\ marked'[client[c].node] = marked[client[c].node] \cup {client[c].id}
         /\ \A m \in Nodes \ {client[c].node} : marked'[m] = marked[m]
<1> DEFINE w == client[c]
           n == client[c].node
<1>1. TStore /\ TCount
  BY Zenon, Pieces
<1>2. MaxId' = MaxId /\ ClientState' = ClientState /\ MaxId \in Nat
  BY Zenon, <1>1, SameTypes, Bounds
<1>3. n \in Nodes /\ w.id \in 1..MaxId /\ w # Idle
  BY <1>1 DEF TStore, MarkCommitted, ClientState, Idle
<1>4. client' = [client EXCEPT ![c] = Idle] /\ marked' = [marked EXCEPT ![n] = marked[n] \cup {w.id}]
  BY Zenon DEF MarkCommitted
<1>5. Idle \in ClientState
  BY Zenon DEF ClientState
<1>6. client' \in [Clients -> ClientState] /\ client'[c] = Idle /\ \A e \in Clients \ {c} : client'[e] = client[e]
  BY Zenon, <1>1, <1>4, <1>5 DEF TStore
<1>7. /\ marked' \in [Nodes -> SUBSET (1..MaxId)] /\ marked'[n] = marked[n] \cup {w.id}
      /\ \A m \in Nodes \ {n} : marked'[m] = marked[m]
  BY Zenon, <1>1, <1>3, <1>4 DEF TStore
<1>8. UNCHANGED <<data, log, nextSeq>>
  BY Zenon DEF MarkCommitted
<1>9. \A m \in Nodes : DOMAIN log'[m] \cup marked'[m] \subseteq 1..nextSeq'[m] - 1
  <2> SUFFICES ASSUME NEW m \in Nodes
               PROVE  DOMAIN log[m] \cup marked'[m] \subseteq 1..nextSeq[m] - 1
    BY Zenon, <1>8
  <2>1. DOMAIN log[m] \cup marked[m] \subseteq 1..nextSeq[m] - 1
    BY Zenon, <1>1 DEF TStore, NumInv
  <2>2. CASE m = n
    <3>1. w.id < nextSeq[n] /\ nextSeq[n] \in Nat
      BY <1>1, <1>2, <1>3 DEF TStore, NumInv
    <3>2. w.id \in 1..nextSeq[n] - 1
      BY <1>2, <1>3, <3>1
    <3> QED
      BY Zenon, <1>7, <2>1, <2>2, <3>2
  <2>3. CASE m # n
    BY Zenon, <1>7, <2>1, <2>3
  <2> QED
    BY Zenon, <2>2, <2>3
<1>10. \A e \in Clients : client'[e] # Idle => client'[e].id < nextSeq'[client'[e].node]
  BY Zenon, <1>1, <1>6, <1>8 DEF TStore, NumInv
<1>11. NumInv'
  BY Zenon, <1>9, <1>10 DEF NumInv, Idle
<1>12. TStore'
  BY Zenon, <1>1, <1>2, <1>6, <1>7, <1>8, <1>11 DEF TStore
<1>13. writes' \in 0..setting.writes
  BY Zenon, <1>1 DEF TCount, MarkCommitted
<1>14. TypeInv'
  BY Zenon, <1>12, <1>13, StoreOnly DEF MarkCommitted
<1> QED
  BY <1>2, <1>3, <1>6, <1>7, <1>14
\* A step that changes only tasks, messages of the hand-over, chunk locks, marks
\* and the count of tasks.
LEMMA TasksOnly ==
  ASSUME TypeInv, TSnd', TRcv', TMsg', TLock', tasks' \in 0..MaxTask,
         UNCHANGED <<setting, storeVars, view, saved, crashes>>
  PROVE  TypeInv'
<1>1. TStore /\ TSnd /\ TRcv /\ TMsg /\ TView /\ TLock /\ TCount
  BY Zenon, Pieces
<1>2. TStore' /\ TView'
  BY Zenon, <1>1, SameStore, SameView DEF storeVars, disk
<1>3. TCount'
  BY Zenon, <1>1, SameTypes DEF TCount, storeVars
<1> QED
  BY Zenon, <1>2, <1>3, Pieces

\* An import starts.
LEMMA setslotImportingType ==
  ASSUME TypeInv, UNCHANGED setting, NEW d \in Nodes, NEW n \in Nodes, NEW heard \in BOOLEAN,
         setslotImporting(d, n, heard)
  PROVE  /\ TypeInv' /\ tasks' = tasks + 1
         /\ snd'[n].st = "WAIT" /\ snd'[n].ph = "idle" /\ snd'[n].task = tasks + 1 /\ snd'[n].dst = d
         /\ \A m \in Nodes \ {n} : snd'[m] = snd[m]
         /\ \A e \in Nodes \ {d} : rcv'[e] = rcv[e]
         /\ \/ rcv'[d] = rcv[d]
            \/ /\ rcv'[d].st = "RECEIVE_SNAPSHOT" /\ rcv'[d].task = tasks + 1 /\ rcv'[d].src = n
               /\ rcv'[d].up = FALSE /\ rcv'[d].num = 0
<1> DEFINE t == tasks + 1
           r == [st |-> "WAIT", ph |-> "idle", task |-> t, dst |-> d, cur |-> 0, end |-> 0,
                 snap |-> [k \in SlotKeys |-> 0], todo |-> {}, num |-> 0, client |-> 0, batch |-> 0]
           q == [st |-> "RECEIVE_SNAPSHOT", task |-> t, src |-> n, try |-> 0, up |-> FALSE, num |-> 0]
<1>1. TStore /\ TSnd /\ TRcv /\ TMsg /\ TView /\ TLock /\ TCount
  BY Zenon, Pieces
<1>2. MaxId \in Nat /\ MaxTask \in Nat /\ MaxTry \in Nat
  BY Zenon, <1>1, Bounds
<1>3. t \in 1..MaxTask /\ t \in 0..MaxTask
  BY <1>1, <1>2 DEF TCount, setslotImporting
<1>4. tasks' = t /\ snd' = [snd EXCEPT ![n] = r] /\ (rcv' = rcv \/ rcv' = [rcv EXCEPT ![d] = q])
  BY Zenon DEF setslotImporting
<1> HIDE DEF t
<1>5. r \in SendTask /\ r.st = "WAIT" /\ r.ph = "idle" /\ r.task = t /\ r.dst = d
  BY <1>2, <1>3 DEF SendTask, SendState, Phase
<1>6. q \in RecvTask /\ q.st = "RECEIVE_SNAPSHOT" /\ q.task = t /\ q.src = n /\ q.up = FALSE /\ q.num = 0
  BY <1>2, <1>3 DEF RecvTask
<1> HIDE DEF r, q
<1>7. TSnd' /\ snd'[n] = r /\ \A m \in Nodes \ {n} : snd'[m] = snd[m]
  BY Zenon, <1>1, <1>4, <1>5, PutSnd
<1>8. TRcv' /\ (rcv'[d] = rcv[d] \/ rcv'[d] = q) /\ \A e \in Nodes \ {d} : rcv'[e] = rcv[e]
  <2>1. CASE rcv' = rcv
    BY Zenon, <1>1, <2>1, SameRcv
  <2>2. CASE rcv' = [rcv EXCEPT ![d] = q]
    BY Zenon, <1>1, <1>6, <2>2, PutRcv
  <2> QED
    BY Zenon, <1>4, <2>1, <2>2
<1>9. TMsg' /\ TLock'
  BY Zenon, <1>1, SameMsg, SameLock DEF setslotImporting
<1>10. TypeInv'
  <2>1. UNCHANGED <<setting, storeVars, view, saved, crashes>>
    BY Zenon DEF setslotImporting
  <2> QED
    BY Zenon, <1>3, <1>4, <1>7, <1>8, <1>9, <2>1, TasksOnly
<1> QED
  BY Zenon, <1>4, <1>5, <1>6, <1>7, <1>8, <1>10 DEF t

\* readymigrate hands the connection to the task.
LEMMA dstReadyMigrateType ==
  ASSUME TypeInv, UNCHANGED setting, NEW d \in Nodes, dstReadyMigrate(d)
  PROVE  /\ TypeInv' /\ rcv[d].src \in Nodes /\ snd[rcv[d].src].st # "NONE" /\ snd[rcv[d].src].task = rcv[d].task
         /\ Sender(rcv[d].src, "START", snd[rcv[d].src].ph)
         /\ Receiver(d, "RECEIVE_SNAPSHOT", TRUE, rcv[d].num)
<1> DEFINE n == rcv[d].src
           y == rcv[d].try + 1
           r == [snd[n] EXCEPT !.st = "START", !.client = y]
           q == [rcv[d] EXCEPT !.up = TRUE, !.try = y]
<1>1. TStore /\ TSnd /\ TRcv /\ TMsg /\ TView /\ TLock /\ TCount
  BY Zenon, Pieces
<1>2. rcv[d] \in RecvTask
  BY Zenon, <1>1, RcvFields DEF dstReadyMigrate
<1>3. n \in Nodes /\ snd[n].st # "NONE" /\ snd[n].task = rcv[d].task
  BY Zenon, <1>2 DEF RecvTask, dstReadyMigrate
<1>4. snd[n] \in SendTask
  BY Zenon, <1>1, <1>3, SndFields
<1>5. y \in 0..MaxTry
  BY <1>1, <1>2, Bounds DEF RecvTask, dstReadyMigrate
<1>6. snd' = [snd EXCEPT ![n] = r] /\ rcv' = [rcv EXCEPT ![d] = q] /\ rcv[d].st = "RECEIVE_SNAPSHOT"
  <2>1. snd' = [snd EXCEPT ![n] = r]
    BY Zenon, <1>1, <1>3 DEF dstReadyMigrate, TSnd
  <2>2. rcv' = [rcv EXCEPT ![d] = q]
    BY Zenon, <1>1 DEF dstReadyMigrate, TRcv
  <2> QED
    BY Zenon, <2>1, <2>2 DEF dstReadyMigrate
<1> HIDE DEF n, y
<1>7. r \in SendTask /\ r.st = "START" /\ r.ph = snd[n].ph /\ r.task = snd[n].task /\ r.dst = snd[n].dst
  BY Zenon, <1>4, <1>5 DEF SendTask, SendState
<1>8. /\ q \in RecvTask /\ q.st = "RECEIVE_SNAPSHOT" /\ q.up = TRUE /\ q.num = rcv[d].num
      /\ q.task = rcv[d].task /\ q.src = rcv[d].src
  BY Zenon, <1>2, <1>5, <1>6 DEF RecvTask
<1> HIDE DEF r, q
<1>9. TSnd' /\ Sender(n, "START", snd[n].ph)
  BY Zenon, <1>1, <1>3, <1>6, <1>7, PutSender
<1>10. TRcv' /\ Receiver(d, "RECEIVE_SNAPSHOT", TRUE, rcv[d].num)
  BY Zenon, <1>1, <1>6, <1>8, PutReceiver
<1>11. TMsg' /\ TLock'
  BY Zenon, <1>1, SameMsg, SameLock DEF dstReadyMigrate
<1>12. TypeInv'
  <2>1. UNCHANGED <<setting, storeVars, view, saved, crashes>> /\ tasks' = tasks /\ tasks \in 0..MaxTask
    BY Zenon, <1>1 DEF dstReadyMigrate, TCount
  <2> QED
    BY Zenon, <1>9, <1>10, <1>11, <2>1, TasksOnly
<1> QED
  BY Zenon, <1>3, <1>9, <1>10, <1>12 DEF n
\* The import ends.
LEMMA fullReceiveGivesUpType ==
  ASSUME TypeInv, UNCHANGED setting, NEW d \in Nodes, fullReceiveGivesUp(d)
  PROVE  TypeInv' /\ Receiver(d, "ERR", rcv[d].up, rcv[d].num)
<1> DEFINE x == "ERR"
           r == [rcv[d] EXCEPT !.st = x]
<1>1. TStore /\ TSnd /\ TRcv /\ TMsg /\ TView /\ TLock /\ TCount
  BY Zenon, Pieces
<1>2. rcv[d] \in RecvTask
  BY Zenon, <1>1, RcvFields DEF fullReceiveGivesUp
<1>3. x \in {"RECEIVE_SNAPSHOT", "RECEIVE_BINLOG", "SUCC", "ERR"}
  BY Zenon DEF fullReceiveGivesUp
<1>4. rcv' = [rcv EXCEPT ![d] = r]
  BY Zenon, <1>1 DEF fullReceiveGivesUp, TRcv
<1> HIDE DEF x
<1>5. /\ r \in RecvTask /\ r.st = x /\ r.up = rcv[d].up /\ r.num = rcv[d].num
      /\ r.task = rcv[d].task /\ r.src = rcv[d].src
  BY Zenon, <1>2, <1>3 DEF RecvTask
<1> HIDE DEF r
<1>6. TRcv' /\ Receiver(d, x, rcv[d].up, rcv[d].num)
  BY Zenon, <1>1, <1>4, <1>5, PutReceiver
<1>7. TSnd' /\ TMsg' /\ TLock'
  BY Zenon, <1>1, SameSnd, SameMsg, SameLock DEF fullReceiveGivesUp
<1>8. UNCHANGED <<setting, storeVars, view, saved, crashes>> /\ tasks' = tasks /\ tasks \in 0..MaxTask
  BY Zenon, <1>1 DEF fullReceiveGivesUp, TCount
<1>9. TypeInv'
  BY Zenon, <1>6, <1>7, <1>8, TasksOnly
<1> QED
  BY Zenon, <1>6, <1>9 DEF x

\* receiveSnapshot fails; the import is tried again or ends.
LEMMA receiveSnapshotFailsType ==
  ASSUME TypeInv, UNCHANGED setting, NEW d \in Nodes, receiveSnapshotFails(d)
  PROVE  TypeInv' /\ Receiver(d, IF rcv[d].num = 0 THEN rcv[d].st ELSE "ERR", FALSE, rcv[d].num)
<1> DEFINE x == IF rcv[d].num = 0 THEN rcv[d].st ELSE "ERR"
           r == [rcv[d] EXCEPT !.up = FALSE, !.st = x]
<1>1. TStore /\ TSnd /\ TRcv /\ TMsg /\ TView /\ TLock /\ TCount
  BY Zenon, Pieces
<1>2. rcv[d] \in RecvTask
  BY Zenon, <1>1, RcvFields DEF receiveSnapshotFails
<1>3. x \in {"RECEIVE_SNAPSHOT", "RECEIVE_BINLOG", "SUCC", "ERR"}
  BY Zenon DEF receiveSnapshotFails
<1>4. rcv' = [rcv EXCEPT ![d] = r]
  BY Zenon, <1>1 DEF receiveSnapshotFails, TRcv
<1> HIDE DEF x
<1>5. /\ r \in RecvTask /\ r.st = x /\ r.up = FALSE /\ r.num = rcv[d].num
      /\ r.task = rcv[d].task /\ r.src = rcv[d].src
  BY Zenon, <1>2, <1>3 DEF RecvTask
<1> HIDE DEF r
<1>6. TRcv' /\ Receiver(d, x, FALSE, rcv[d].num)
  BY Zenon, <1>1, <1>4, <1>5, PutReceiver
<1>7. TSnd' /\ TMsg' /\ TLock'
  BY Zenon, <1>1, SameSnd, SameMsg, SameLock DEF receiveSnapshotFails
<1>8. UNCHANGED <<setting, storeVars, view, saved, crashes>> /\ tasks' = tasks /\ tasks \in 0..MaxTask
  BY Zenon, <1>1 DEF receiveSnapshotFails, TCount
<1>9. TypeInv'
  BY Zenon, <1>6, <1>7, <1>8, TasksOnly
<1> QED
  BY Zenon, <1>6, <1>9 DEF x

\* checkMigrateStatus ends an import.
LEMMA receiveBinlogTimeoutType ==
  ASSUME TypeInv, UNCHANGED setting, NEW d \in Nodes, receiveBinlogTimeout(d)
  PROVE  TypeInv' /\ Receiver(d, "ERR", rcv[d].up, rcv[d].num)
<1> DEFINE x == "ERR"
           r == [rcv[d] EXCEPT !.st = x]
<1>1. TStore /\ TSnd /\ TRcv /\ TMsg /\ TView /\ TLock /\ TCount
  BY Zenon, Pieces
<1>2. rcv[d] \in RecvTask
  BY Zenon, <1>1, RcvFields DEF receiveBinlogTimeout
<1>3. x \in {"RECEIVE_SNAPSHOT", "RECEIVE_BINLOG", "SUCC", "ERR"}
  BY Zenon DEF receiveBinlogTimeout
<1>4. rcv' = [rcv EXCEPT ![d] = r]
  BY Zenon, <1>1 DEF receiveBinlogTimeout, TRcv
<1> HIDE DEF x
<1>5. /\ r \in RecvTask /\ r.st = x /\ r.up = rcv[d].up /\ r.num = rcv[d].num
      /\ r.task = rcv[d].task /\ r.src = rcv[d].src
  BY Zenon, <1>2, <1>3 DEF RecvTask
<1> HIDE DEF r
<1>6. TRcv' /\ Receiver(d, x, rcv[d].up, rcv[d].num)
  BY Zenon, <1>1, <1>4, <1>5, PutReceiver
<1>7. TSnd' /\ TMsg' /\ TLock'
  BY Zenon, <1>1, SameSnd, SameMsg, SameLock DEF receiveBinlogTimeout
<1>8. UNCHANGED <<setting, storeVars, view, saved, crashes>> /\ tasks' = tasks /\ tasks \in 0..MaxTask
  BY Zenon, <1>1 DEF receiveBinlogTimeout, TCount
<1>9. TypeInv'
  BY Zenon, <1>6, <1>7, <1>8, TasksOnly
<1> QED
  BY Zenon, <1>6, <1>9 DEF x

\* The first half of supplyMigrateEnd.
LEMMA supplyMigrateEndType ==
  ASSUME TypeInv, UNCHANGED setting, NEW d \in Nodes, supplyMigrateEnd(d)
  PROVE  /\ TypeInv'
         /\ \E q \in request :
              /\ q.dst = d /\ request' = request \ {q}
              /\ \/ /\ rcv[d].st # "NONE" /\ rcv[d].task = q.task
                    /\ Receiver(d, "SUCC", FALSE, rcv[d].num)
                    /\ taking' = [taking EXCEPT ![d] = @ \cup {q}] /\ UNCHANGED answer
                 \/ /\ answer' = answer \cup {[task |-> q.task, src |-> q.src, ok |-> FALSE]}
                    /\ UNCHANGED <<rcv, taking>>
<1> DEFINE r == [rcv[d] EXCEPT !.st = "SUCC", !.up = FALSE]
<1>1. TStore /\ TSnd /\ TRcv /\ TMsg /\ TView /\ TLock /\ TCount
  BY Zenon, Pieces
<1>2. PICK q \in request :
        /\ q.dst = d /\ request' = request \ {q}
        /\ \/ /\ rcv[d].st # "NONE" /\ rcv[d].task = q.task
              /\ rcv' = [rcv EXCEPT ![d].st = "SUCC", ![d].up = FALSE]
              /\ taking' = [taking EXCEPT ![d] = @ \cup {q}] /\ UNCHANGED answer
           \/ /\ answer' = answer \cup {[task |-> q.task, src |-> q.src, ok |-> FALSE]}
              /\ UNCHANGED <<rcv, taking>>
        /\ UNCHANGED <<storeVars, xlock, view, saved, deleting, crashes, snd, tasks>>
  BY Zenon DEF supplyMigrateEnd
<1>3. q \in Ends /\ q.task \in 1..MaxTask /\ q.src \in Nodes /\ Ends' = Ends /\ Answers' = Answers
  BY Zenon, <1>1, SameTypes DEF TMsg, Ends
<1>4. request \subseteq Ends /\ taking \in [Nodes -> SUBSET Ends] /\ answer \subseteq Answers
  BY Zenon, <1>1 DEF TMsg
<1>5. [task |-> q.task, src |-> q.src, ok |-> FALSE] \in Answers
  BY Zenon, <1>3 DEF Answers
<1>6. TMsg'
  <2>1. request' \subseteq Ends
    BY Zenon, <1>2, <1>4
  <2>2. taking' \in [Nodes -> SUBSET Ends]
    BY <1>2, <1>3, <1>4
  <2>3. answer' \subseteq Answers
    BY Zenon, <1>2, <1>4, <1>5
  <2> QED
    BY Zenon, <1>3, <2>1, <2>2, <2>3 DEF TMsg
<1>7. TRcv' /\ (rcv' = [rcv EXCEPT ![d].st = "SUCC", ![d].up = FALSE] /\ rcv[d].st # "NONE"
                => Receiver(d, "SUCC", FALSE, rcv[d].num))
  <2>1. CASE rcv' = [rcv EXCEPT ![d].st = "SUCC", ![d].up = FALSE] /\ rcv[d].st # "NONE"
    <3>1. rcv[d] \in RecvTask
      BY Zenon, <1>1, <2>1, RcvFields
    <3>2. /\ r \in RecvTask /\ r.st = "SUCC" /\ r.up = FALSE /\ r.num = rcv[d].num
          /\ r.task = rcv[d].task /\ r.src = rcv[d].src
      BY Zenon, <3>1 DEF RecvTask
    <3>3. rcv' = [rcv EXCEPT ![d] = r]
      BY Zenon, <1>1, <2>1 DEF TRcv
    <3> HIDE DEF r
    <3> QED
      BY Zenon, <1>1, <3>2, <3>3, PutReceiver
  <2>2. CASE ~(rcv' = [rcv EXCEPT ![d].st = "SUCC", ![d].up = FALSE] /\ rcv[d].st # "NONE")
    BY Zenon, <1>1, <1>2, <2>2, SameRcv
  <2> QED
    BY Zenon, <2>1, <2>2
<1>8. TSnd' /\ TLock'
  BY Zenon, <1>1, <1>2, SameSnd, SameLock
<1>9. tasks' \in 0..MaxTask /\ UNCHANGED <<setting, storeVars, view, saved, crashes>>
  BY Zenon, <1>1, <1>2 DEF TCount
<1>10. TypeInv'
  BY Zenon, <1>6, <1>7, <1>8, <1>9, TasksOnly
<1> QED
  BY Zenon, <1>2, <1>7, <1>10
\* The second half of supplyMigrateEnd: the new claim is above the old one.
LEMMA setSlotsMyselfType ==
  ASSUME TypeInv, UNCHANGED setting, NEW d \in Nodes, setSlotsMyself(d)
  PROVE  TypeInv'
<1>1. TStore /\ TSnd /\ TRcv /\ TMsg /\ TView /\ TLock /\ TCount
  BY Zenon, Pieces
<1>2. PICK q \in taking[d] :
        /\ taking' = [taking EXCEPT ![d] = @ \ {q}]
        /\ view' = [view EXCEPT ![d] = [owner |-> d, epoch |-> @.epoch + 1]]
        /\ answer' = answer \cup {[task |-> q.task, src |-> q.src, ok |-> TRUE]}
        /\ UNCHANGED <<storeVars, xlock, saved, deleting, crashes, snd, rcv, request, tasks>>
  BY Zenon DEF setSlotsMyself
<1>3. request \subseteq Ends /\ taking \in [Nodes -> SUBSET Ends] /\ answer \subseteq Answers
  BY Zenon, <1>1 DEF TMsg
<1>4. q \in Ends /\ q.task \in 1..MaxTask /\ q.src \in Nodes /\ Ends' = Ends /\ Answers' = Answers
  <2>1. q \in Ends
    BY Zenon, <1>3
  <2>2. Ends' = Ends /\ Answers' = Answers
    BY Zenon, SameTypes
  <2> QED
    BY Zenon, <2>1, <2>2 DEF Ends
<1>5. [task |-> q.task, src |-> q.src, ok |-> TRUE] \in Answers
  BY Zenon, <1>4 DEF Answers
<1>6. TMsg'
  <2>1. taking' \in [Nodes -> SUBSET Ends]
    BY Zenon, <1>2, <1>3
  <2>2. answer' \subseteq Answers /\ request' \subseteq Ends
    BY Zenon, <1>2, <1>3, <1>5
  <2> QED
    BY Zenon, <1>4, <2>1, <2>2 DEF TMsg
<1>7. TView'
  <2> DEFINE v == [owner |-> d, epoch |-> view[d].epoch + 1]
  <2>1. view \in [Nodes -> Views] /\ saved \in [Nodes -> Views] /\ saved' = saved
    BY Zenon, <1>1, <1>2 DEF TView
  <2>2. v \in Views /\ v.epoch = view[d].epoch + 1 /\ view[d].epoch \in Nat
    BY <2>1 DEF Views
  <2>3. view' = [view EXCEPT ![d] = v]
    BY Zenon, <1>2, <2>1
  <2>4. PICK b \in Nat : \A m \in Nodes : view[m].epoch <= b /\ saved[m].epoch <= b
    BY Zenon, <1>1 DEF TView, EpochInv
  <2> HIDE DEF v
  <2>5. view' \in [Nodes -> Views] /\ saved' \in [Nodes -> Views]
    BY Zenon, <2>1, <2>2, <2>3
  <2>6. ASSUME NEW m \in Nodes PROVE view'[m].epoch <= b + 1 /\ saved'[m].epoch <= b + 1
    <3>1. view[m].epoch \in Nat /\ saved[m].epoch \in Nat
      BY Zenon, <2>1 DEF Views
    <3>2. view'[m] = IF m = d THEN v ELSE view[m]
      BY Zenon, <2>1, <2>3
    <3>3. view[m].epoch <= b /\ saved[m].epoch <= b /\ view[d].epoch <= b
      BY Zenon, <2>4
    <3> QED
      BY <2>1, <2>2, <3>1, <3>2, <3>3
  <2>7. EpochInv'
    <3>1. b + 1 \in Nat
      OBVIOUS
    <3> QED
      BY Zenon, <2>6, <3>1 DEF EpochInv
  <2> QED
    BY Zenon, <2>5, <2>7 DEF TView
<1>8. TStore' /\ TSnd' /\ TRcv'
  BY Zenon, <1>1, <1>2, SameStore, SameSnd, SameRcv DEF storeVars, disk
<1>9. TLock' /\ TCount'
  BY Zenon, <1>1, <1>2, SameLock, SameCount DEF storeVars
<1> QED
  BY Zenon, <1>6, <1>7, <1>8, <1>9, Pieces

\* receiverSchedule drops an import.
LEMMA eraseReceiveTaskType ==
  ASSUME TypeInv, UNCHANGED setting, NEW d \in Nodes, eraseReceiveTask(d)
  PROVE  TypeInv' /\ rcv'[d] = NoRecv /\ \A e \in Nodes \ {d} : rcv'[e] = rcv[e]
<1>1. TStore /\ TSnd /\ TRcv /\ TMsg /\ TView /\ TLock /\ TCount
  BY Zenon, Pieces
<1>2. TRcv' /\ rcv'[d] = NoRecv /\ \A e \in Nodes \ {d} : rcv'[e] = rcv[e]
  BY Zenon, <1>1, PutRcv DEF eraseReceiveTask
<1>3. TLock'
  BY Zenon, <1>1 DEF TLock, eraseReceiveTask
<1>4. TSnd' /\ TMsg'
  BY Zenon, <1>1, SameSnd, SameMsg DEF eraseReceiveTask
<1>5. tasks' \in 0..MaxTask /\ UNCHANGED <<setting, storeVars, view, saved, crashes>>
  BY Zenon, <1>1 DEF TCount, eraseReceiveTask
<1> QED
  BY Zenon, <1>2, <1>3, <1>4, <1>5, TasksOnly

\* A step of the collector that changes only marks and locks.
LEMMA CollectorType ==
  ASSUME TypeInv, UNCHANGED setting, NEW n \in Nodes, delGarbage(n) \/ deleteSlotsLock(n)
  PROVE  TypeInv'
<1>1. TStore /\ TSnd /\ TRcv /\ TMsg /\ TView /\ TLock /\ TCount
  BY Zenon, Pieces
<1>2. TLock'
  BY Zenon, <1>1 DEF TLock, delGarbage, deleteSlotsLock
<1>3. TSnd' /\ TRcv' /\ TMsg'
  BY Zenon, <1>1, SameSnd, SameRcv, SameMsg DEF delGarbage, deleteSlotsLock, taskVars
<1>4. tasks' \in 0..MaxTask /\ UNCHANGED <<setting, storeVars, view, saved, crashes>>
  BY Zenon, <1>1 DEF TCount, delGarbage, deleteSlotsLock, taskVars
<1> QED
  BY Zenon, <1>2, <1>3, <1>4, TasksOnly

\* The collector has deleted the slot.
LEMMA deleteSlotsEndType ==
  ASSUME TypeInv, UNCHANGED setting, NEW n \in Nodes, deleteSlotsEnd(n)
  PROVE  TypeInv' /\ data'[n] = [k \in SlotKeys |-> 0] /\ \A m \in Nodes \ {n} : data'[m] = data[m]
<1>1. TStore /\ TSnd /\ TRcv /\ TMsg /\ TView /\ TLock /\ TCount
  BY Zenon, Pieces
<1>2. TLock'
  BY Zenon, <1>1 DEF TLock, deleteSlotsEnd
<1>3. TSnd' /\ TRcv' /\ TMsg'
  BY Zenon, <1>1, SameSnd, SameRcv, SameMsg DEF deleteSlotsEnd, taskVars
<1>4. TView' /\ TCount'
  BY Zenon, <1>1, SameView, SameCount DEF deleteSlotsEnd, taskVars
<1> DEFINE z == [k \in SlotKeys |-> 0]
<1>5. z \in [SlotKeys -> Nat] /\ data \in [Nodes -> [SlotKeys -> Nat]] /\ data' = [data EXCEPT ![n] = z]
  BY Zenon, <1>1 DEF TStore, deleteSlotsEnd
<1> HIDE DEF z
<1>6. data' \in [Nodes -> [SlotKeys -> Nat]] /\ data'[n] = z /\ \A m \in Nodes \ {n} : data'[m] = data[m]
  BY Zenon, <1>5
<1>7. TStore'
  BY Zenon, <1>1, <1>6, SameTypes DEF TStore, NumInv, deleteSlotsEnd
<1> QED
  BY Zenon, <1>2, <1>3, <1>4, <1>6, <1>7, Pieces DEF z

\* Gossip and the cluster file copy a view.
LEMMA CopyType ==
  ASSUME TypeInv, UNCHANGED setting, NEW m \in Nodes, NEW n \in Nodes, Gossip(m, n) \/ clusterSaveNodes(n)
  PROVE  TypeInv'
<1>1. TStore /\ TSnd /\ TRcv /\ TMsg /\ TView /\ TLock /\ TCount
  BY Zenon, Pieces
<1>2. TSnd' /\ TRcv' /\ TMsg'
  BY Zenon, <1>1, SameSnd, SameRcv, SameMsg DEF Gossip, clusterSaveNodes, taskVars
<1>3. TStore' /\ TLock'
  BY Zenon, <1>1, SameStore, SameLock DEF Gossip, clusterSaveNodes, storeVars, disk
<1>4. TCount'
  BY Zenon, <1>1, SameCount DEF Gossip, clusterSaveNodes, storeVars, taskVars
<1>5. /\ view \in [Nodes -> Views] /\ saved \in [Nodes -> Views]
      /\ view' = view \/ view' = [view EXCEPT ![n] = view[m]]
      /\ saved' = saved \/ saved' = [saved EXCEPT ![n] = view[n]]
  BY Zenon, <1>1 DEF TView, Gossip, clusterSaveNodes
<1>6. PICK b \in Nat : \A k \in Nodes : view[k].epoch <= b /\ saved[k].epoch <= b
  BY Zenon, <1>1 DEF TView, EpochInv
<1>7. view' \in [Nodes -> Views] /\ saved' \in [Nodes -> Views]
  BY Zenon, <1>5
<1>8. \A k \in Nodes : view'[k].epoch <= b /\ saved'[k].epoch <= b
  BY Zenon, <1>5, <1>6
<1> QED
  BY Zenon, <1>2, <1>3, <1>4, <1>7, <1>8, Pieces DEF TView, EpochInv
\* What a node believes after a restart: its cluster file, or the newest claim
\* among those it hears of.
LEMMA CrashView ==
  ASSUME TypeInv, UNCHANGED setting, NEW n \in Nodes, Crash(n)
  PROVE  /\ TView' /\ \A m \in Nodes \ {n} : view'[m] = view[m]
         /\ \/ /\ view'[n] = saved[n]
               /\ \A m \in Nodes \ {n} : view[m].owner = m => view[m].epoch <= saved[n].epoch
            \/ \E m \in Nodes \ {n} :
                 /\ view[m].owner = m /\ view'[n] = view[m] /\ view[m].epoch > saved[n].epoch
                 /\ \A k \in Nodes \ {n} : view[k].owner = k => view[k].epoch <= view[m].epoch
<1> DEFINE M == {m \in Nodes \ {n} : view[m].owner = m /\ view[m].epoch > saved[n].epoch}
           claims == {view[m] : m \in M}
           v == CHOOSE x \in claims : \A u \in claims : u.epoch <= x.epoch
           w == IF claims = {} THEN saved[n] ELSE v
<1>1. view \in [Nodes -> Views] /\ saved \in [Nodes -> Views]
  BY Zenon, Pieces DEF TView
<1>2. PICK b \in Nat : \A k \in Nodes : view[k].epoch <= b /\ saved[k].epoch <= b
  BY Zenon, Pieces DEF TView, EpochInv
<1>3. view' = [view EXCEPT ![n] = w] /\ saved' = saved
  BY Zenon DEF Crash
<1>4. \A m \in Nodes : view[m].epoch \in Nat /\ saved[m].epoch \in Nat
  BY Zenon, <1>1 DEF Views
<1>5. ASSUME claims # {}
      PROVE  v \in claims /\ \A u \in claims : u.epoch <= v.epoch
  <2> DEFINE S == {view[m].epoch : m \in M}
  <2>1. S \subseteq Nat /\ S # {} /\ \A e \in S : e <= b
    BY Zenon, <1>2, <1>4, <1>5
  <2>2. Max(S) \in S /\ \A e \in S : e <= Max(S)
    BY Zenon, <1>2, <2>1, MaxFacts
  <2>3. PICK m \in M : view[m].epoch = Max(S)
    BY Zenon, <2>2
  <2>4. view[m] \in claims /\ \A u \in claims : u.epoch <= view[m].epoch
    BY Zenon, <2>2, <2>3
  <2> QED
    BY Zenon, <2>4
<1>6. (w = saved[n] /\ claims = {}) \/ (w = v /\ claims # {})
  <2> HIDE DEF v, claims
  <2> QED
    BY Zenon DEF w
<1> HIDE DEF v, w
<1>7. \/ w = saved[n] /\ \A m \in Nodes \ {n} : view[m].owner = m => view[m].epoch <= saved[n].epoch
      \/ \E m \in Nodes \ {n} :
           /\ view[m].owner = m /\ w = view[m] /\ view[m].epoch > saved[n].epoch
           /\ \A k \in Nodes \ {n} : view[k].owner = k => view[k].epoch <= view[m].epoch
  <2>1. CASE claims = {}
    <3>1. \A m \in Nodes \ {n} : m \notin M
      BY Zenon, <2>1
    <3>2. \A m \in Nodes \ {n} : view[m].owner = m => view[m].epoch <= saved[n].epoch
      BY <1>4, <3>1
    <3> QED
      BY Zenon, <1>6, <2>1, <3>2
  <2>2. CASE claims # {}
    <3>1. PICK m \in M : w = view[m] /\ \A u \in claims : u.epoch <= view[m].epoch
      BY Zenon, <1>5, <1>6, <2>2
    <3>2. ASSUME NEW k \in Nodes \ {n}, view[k].owner = k
          PROVE  view[k].epoch <= view[m].epoch
      <4>1. CASE k \in M
        BY Zenon, <3>1, <4>1
      <4>2. CASE k \notin M
        <5>1. view[k].epoch <= saved[n].epoch
          BY <1>4, <3>2, <4>2
        <5> QED
          BY <1>4, <3>1, <5>1
      <4> QED
        BY Zenon, <4>1, <4>2
    <3> QED
      BY Zenon, <3>1, <3>2
  <2> QED
    BY Zenon, <2>1, <2>2
<1>8. view'[n] = w /\ \A m \in Nodes \ {n} : view'[m] = view[m]
  BY Zenon, <1>1, <1>3
<1>9. w \in Views /\ w.epoch <= b
  BY Zenon, <1>1, <1>2, <1>7
<1>10. TView'
  <2>1. view' \in [Nodes -> Views] /\ saved' \in [Nodes -> Views]
    BY Zenon, <1>1, <1>3, <1>9
  <2>2. \A k \in Nodes : view'[k].epoch <= b /\ saved'[k].epoch <= b
    BY Zenon, <1>2, <1>3, <1>8, <1>9
  <2> QED
    BY Zenon, <2>1, <2>2 DEF TView, EpochInv
<1> QED
  BY Zenon, <1>7, <1>8, <1>10

\* A crash keeps the types; the ids that are on disk stay taken.
LEMMA CrashType ==
  ASSUME TypeInv, UNCHANGED setting, NEW n \in Nodes, Crash(n)
  PROVE  /\ TypeInv'
         /\ snd'[n] = NoSend /\ rcv'[n] = NoRecv
         /\ \A m \in Nodes \ {n} : snd'[m] = snd[m] /\ rcv'[m] = rcv[m]
         /\ \A m \in Nodes \ {n} : nextSeq'[m] = nextSeq[m] /\ marked'[m] = marked[m]
<1> DEFINE p == Max(DOMAIN log[n] \cup {0}) + 1
<1>1. TStore /\ TSnd /\ TRcv /\ TMsg /\ TView /\ TLock /\ TCount
  BY Zenon, Pieces
<1>2. MaxId \in Nat /\ DOMAIN log[n] \subseteq 1..MaxId /\ MaxCrash \in Nat
  BY Zenon, <1>1, Bounds DEF TStore
<1>3. p \in 1..MaxId + 1 /\ DOMAIN log[n] \subseteq 1..p - 1
  <2> DEFINE S == DOMAIN log[n] \cup {0}
  <2>1. S \subseteq Nat /\ S # {} /\ \A x \in S : x <= MaxId
    BY <1>2
  <2>2. Max(S) \in S /\ \A x \in S : x <= Max(S)
    BY Zenon, <1>2, <2>1, MaxFacts
  <2>3. Max(S) \in Nat /\ Max(S) <= MaxId /\ \A x \in DOMAIN log[n] : x \in 1..Max(S)
    BY <1>2, <2>1, <2>2
  <2>4. p = Max(S) + 1
    BY Zenon
  <2> HIDE DEF S, p
  <2> QED
    BY <1>2, <2>3, <2>4
<1>4. nextSeq' = [nextSeq EXCEPT ![n] = p] /\ marked' = [marked EXCEPT ![n] = 1..nextSeq'[n] - 1]
  BY Zenon DEF Crash
<1> HIDE DEF p
<1>5. /\ nextSeq' \in [Nodes -> 1..MaxId + 1] /\ marked' \in [Nodes -> SUBSET (1..MaxId)]
      /\ nextSeq'[n] = p /\ marked'[n] = 1..p - 1
      /\ \A m \in Nodes \ {n} : nextSeq'[m] = nextSeq[m] /\ marked'[m] = marked[m]
  <2>1. nextSeq \in [Nodes -> 1..MaxId + 1] /\ marked \in [Nodes -> SUBSET (1..MaxId)]
    BY Zenon, <1>1 DEF TStore
  <2>2. nextSeq' \in [Nodes -> 1..MaxId + 1] /\ nextSeq'[n] = p /\ \A m \in Nodes \ {n} : nextSeq'[m] = nextSeq[m]
    BY Zenon, <1>3, <1>4, <2>1
  <2>3. 1..p - 1 \in SUBSET (1..MaxId)
    BY <1>2, <1>3
  <2>4. marked' = [marked EXCEPT ![n] = 1..p - 1]
    BY Zenon, <1>4, <2>2
  <2>5. marked' \in [Nodes -> SUBSET (1..MaxId)] /\ marked'[n] = 1..p - 1 /\ \A m \in Nodes \ {n} : marked'[m] = marked[m]
    BY Zenon, <2>1, <2>3, <2>4
  <2> QED
    BY Zenon, <2>2, <2>5
<1>6. client' \in [Clients -> ClientState] /\ \A c \in Clients : client'[c] = Idle \/ (client'[c] = client[c] /\ client[c].node # n)
  <2>1. client \in [Clients -> ClientState]
    BY Zenon, <1>1 DEF TStore
  <2>2. client' = [c \in Clients |-> IF client[c] # Idle /\ client[c].node = n THEN Idle ELSE client[c]]
    BY Zenon DEF Crash
  <2>3. Idle \in ClientState
    BY Zenon DEF ClientState
  <2>4. ASSUME NEW c \in Clients
        PROVE  client'[c] \in ClientState /\ (client'[c] = Idle \/ (client'[c] = client[c] /\ client[c].node # n))
    <3> HIDE DEF ClientState, Idle
    <3> QED
      BY <2>1, <2>2, <2>3, Zenon
  <2>5. client' = [c \in Clients |-> client'[c]]
    BY <2>2, Zenon
  <2> QED
    BY Zenon, <2>4, <2>5
<1>7. NumInv'
  <2>1. NumInv /\ log' = log
    BY Zenon, <1>1 DEF TStore, Crash
  <2>2. ASSUME NEW m \in Nodes
        PROVE  DOMAIN log'[m] \cup marked'[m] \subseteq 1..nextSeq'[m] - 1
    <3>1. CASE m = n
      BY Zenon, <1>3, <1>5, <2>1, <3>1
    <3>2. CASE m # n
      BY Zenon, <1>5, <2>1, <3>2 DEF NumInv
    <3> QED
      BY Zenon, <3>1, <3>2
  <2>3. ASSUME NEW c \in Clients, client'[c] # Idle
        PROVE  client'[c].id < nextSeq'[client'[c].node]
    <3>1. client'[c] = client[c] /\ client[c].node # n /\ client[c] \in ClientState
      BY Zenon, <1>1, <1>6, <2>3 DEF TStore
    <3>2. client[c].node \in Nodes
      BY Zenon, <2>3, <3>1 DEF ClientState
    <3> QED
      BY Zenon, <1>5, <2>1, <2>3, <3>1, <3>2 DEF NumInv
  <2> QED
    BY Zenon, <2>2, <2>3 DEF NumInv
<1>8. TStore'
  <2>1. ClientState' = ClientState /\ MaxId' = MaxId
    BY Zenon, SameTypes
  <2>2. data' = data /\ log' = log
    BY Zenon DEF Crash
  <2> QED
    BY Zenon, <1>1, <1>5, <1>6, <1>7, <2>1, <2>2 DEF TStore
<1>9. /\ TSnd' /\ TRcv' /\ snd'[n] = NoSend /\ rcv'[n] = NoRecv
      /\ \A m \in Nodes \ {n} : snd'[m] = snd[m] /\ rcv'[m] = rcv[m]
  BY Zenon, <1>1, PutSnd, PutRcv DEF Crash
<1>10. TMsg'
  BY Zenon, <1>1, SameTypes DEF TMsg, Crash
<1>11. TLock'
  BY Zenon, <1>1 DEF TLock, Crash
<1>12. TCount'
  <2>1. crashes' \in 0..MaxCrash
    BY <1>1, <1>2 DEF TCount, Crash
  <2>2. tasks' = tasks /\ writes' = writes /\ MaxTask' = MaxTask /\ MaxCrash' = MaxCrash
    BY Zenon, SameTypes DEF Crash
  <2> QED
    BY Zenon, <1>1, <2>1, <2>2 DEF TCount
<1> QED
  BY Zenon, <1>5, <1>8, <1>9, <1>10, <1>11, <1>12, CrashView, Pieces
\* A new node is in a state of these types.
LEMMA InitType == Init => TypeInv
<1> SUFFICES ASSUME Init PROVE TypeInv
  BY Zenon
<1>1. TCount
  <2>1. setting \in Settings
    BY Zenon DEF Init
  <2>2. MaxTask \in Nat /\ setting.writes \in Nat /\ MaxCrash \in Nat
    BY Zenon, <2>1, SlotSettings DEF MaxTask, MaxCrash
  <2> QED
    BY <2>1, <2>2 DEF Init, TCount
<1>2. TStore
  <2>1. client \in [Clients -> ClientState]
    BY Zenon DEF Init, ClientState
  <2>2. data \in [Nodes -> [SlotKeys -> Nat]]
    BY Zenon DEF Init
  <2> DEFINE empty == [i \in {} |-> 0]
  <2>3. log = [n \in Nodes |-> empty] /\ DOMAIN empty = {} /\ empty \in [{} -> Entry]
    BY Zenon DEF Init
  <2> HIDE DEF empty
  <2>4. log = [n \in Nodes |-> log[n]] /\ \A n \in Nodes : DOMAIN log[n] = {} /\ log[n] \in [DOMAIN log[n] -> Entry]
    BY Zenon, <2>3
  <2>5. nextSeq \in [Nodes -> 1..MaxId + 1] /\ marked \in [Nodes -> SUBSET (1..MaxId)]
    BY <1>1, Bounds DEF Init
  <2>6. NumInv
    BY Zenon, <2>4 DEF NumInv, Init
  <2> QED
    BY Zenon, <2>1, <2>2, <2>4, <2>5, <2>6 DEF TStore
<1>3. TSnd /\ TRcv /\ TMsg
  BY Zenon DEF Init, TSnd, TRcv, TMsg
<1>4. TView /\ TLock
  <2>1. [owner |-> First, epoch |-> 1] \in Views
    BY Zenon, SlotSettings DEF Views
  <2>2. view \in [Nodes -> Views] /\ saved = view
    BY Zenon, <2>1 DEF Init
  <2>3. \A n \in Nodes : view[n].epoch <= 1 /\ saved[n].epoch <= 1
    BY DEF Init
  <2>4. EpochInv
    BY Zenon, <2>3, 1 \in Nat DEF EpochInv
  <2> QED
    BY Zenon, <2>2, <2>4 DEF TView, TLock, Init
<1> QED
  BY Zenon, <1>1, <1>2, <1>3, <1>4, Pieces

\* A step of the thread that sends keeps the types.
LEMMA SendStepType ==
  ASSUME TypeInv, UNCHANGED setting, NEW n \in Nodes, SendStep(n)
  PROVE  TypeInv'
<1>1. CASE sendSnapshotBegin(n) \/ initTxn(n) \/ sendSnapshotEnd(n) \/ sendBinlogBegin(n)
  BY Zenon, <1>1, sendSnapshotBeginType, initTxnType, sendSnapshotEndType, sendBinlogBeginType
<1>2. ASSUME NEW k \in SlotKeys, sendBatch(n, k) PROVE TypeInv'
  BY Zenon, <1>2, sendBatchType
<1>3. ASSUME NEW hi \in 1..MaxId, catchupBinlog(n, hi, TRUE) PROVE TypeInv'
  BY Zenon, <1>3, catchupBinlogType
<1>4. CASE sendBinlogRound(n) \/ lockChunks(n)
  BY Zenon, <1>4, sendBinlogRoundType, lockChunksType
<1>5. ASSUME NEW lost \in BOOLEAN, sendOver(n, lost) PROVE TypeInv'
  BY Zenon, <1>5, sendOverType
<1>6. ASSUME NEW told \in BOOLEAN, NEW stopped \in BOOLEAN, sendSlotsFails(n, told, stopped) PROVE TypeInv'
  BY Zenon, <1>6, sendSlotsFailsType
<1>7. CASE sendOverAnswered(n) \/ sendOverFails(n) \/ deleteSenderChunks(n) \/ eraseSendTask(n)
  BY Zenon, <1>7, sendOverAnsweredType, sendOverFailsType, deleteSenderChunksType, eraseSendTaskType
<1> QED
  BY Zenon, <1>1, <1>2, <1>3, <1>4, <1>5, <1>6, <1>7 DEF SendStep

\* Every step keeps the types.
LEMMA NextType == TypeInv /\ [Next]_vars => TypeInv'
<1> SUFFICES ASSUME TypeInv, [Next]_vars PROVE TypeInv'
  BY Zenon
<1>1. CASE UNCHANGED vars
  <2>1. TStore /\ TSnd /\ TRcv /\ TMsg /\ TView /\ TLock /\ TCount
    BY Zenon, Pieces
  <2>2. TStore' /\ TSnd' /\ TRcv' /\ TMsg' /\ TView' /\ TLock' /\ TCount'
    BY Zenon, <1>1, <2>1, SameStore, SameSnd, SameRcv, SameMsg, SameView, SameLock, SameCount DEF vars, moving
  <2> QED
    BY Zenon, <2>2, Pieces
<1>2. CASE Next
  <2>0. UNCHANGED setting
    BY Zenon, <1>2 DEF Next
  <2>1. CASE ClientNext
    <3>1. ASSUME NEW c \in Clients, ClientStep(c) PROVE TypeInv'
      BY Zenon, <2>0, <3>1, CommitWriteType, MarkCommittedType DEF ClientStep
    <3>2. ASSUME NEW c \in Clients, NEW n \in Nodes, NEW k \in Keys, getDbWithKeyLock(c, n, k) PROVE TypeInv'
      BY Zenon, <2>0, <3>2, getDbWithKeyLockType
    <3> QED
      BY Zenon, <2>1, <3>1, <3>2 DEF ClientNext
  <2>2. ASSUME NEW d \in Nodes, NEW n \in Nodes, NEW heard \in BOOLEAN, setslotImporting(d, n, heard) PROVE TypeInv'
    BY Zenon, <2>0, <2>2, setslotImportingType
  <2>3. ASSUME NEW n \in Nodes, SendStep(n) PROVE TypeInv'
    BY Zenon, <2>0, <2>3, SendStepType
  <2>4. ASSUME NEW n \in Nodes, ReceiveStep(n) PROVE TypeInv'
    BY Zenon, <2>0, <2>4, receiveSnapshotFailsType, fullReceiveGivesUpType, receiveBinlogTimeoutType,
       eraseReceiveTaskType, supplyMigrateEndType, setSlotsMyselfType DEF ReceiveStep
  <2>5. ASSUME NEW n \in Nodes, stopTask(n) \/ dstReadyMigrate(n) \/ HalfEnds(n) PROVE TypeInv'
    BY Zenon, <2>0, <2>5, stopTaskType, dstReadyMigrateType, HalfEndsType
  <2>6. ASSUME NEW n \in Nodes, NEW hi \in 1..MaxId, catchupBinlog(n, hi, FALSE) PROVE TypeInv'
    BY Zenon, <2>0, <2>6, catchupBinlogType
  <2>7. ASSUME NEW n \in Nodes, delGarbage(n) \/ deleteSlotsLock(n) \/ deleteSlotsEnd(n) PROVE TypeInv'
    BY Zenon, <2>0, <2>7, CollectorType, deleteSlotsEndType
  <2>8. ASSUME NEW n \in Nodes, clusterSaveNodes(n) \/ Crash(n) PROVE TypeInv'
    BY Zenon, <2>0, <2>8, CopyType, CrashType
  <2>9. ASSUME NEW m \in Nodes, NEW n \in Nodes, Gossip(m, n) PROVE TypeInv'
    BY Zenon, <2>0, <2>9, CopyType
  <2> QED
    BY Zenon, <1>2, <2>1, <2>2, <2>3, <2>4, <2>5, <2>6, <2>7, <2>8, <2>9 DEF Next
<1> QED
  BY Zenon, <1>1, <1>2

\* Every variable keeps its type: no step of clients, sender, receiver or
\* collector reads a task or a binlog that is not there.
THEOREM TypeCorrect == Spec => []TypeOK
<1>1. TypeInv => TypeOK
  BY Zenon DEF TypeInv
<1> QED
  BY <1>1, InitType, NextType, PTL DEF Spec
=============================================================================

------------------------ MODULE ClusterFailoverProofs ------------------------
(***************************************************************************)
(* Proofs about ClusterFailover, for every cluster: types, epochs that     *)
(* bound one another and never go back, one vote per epoch, and slaves     *)
(* that serve no slot.                                                     *)
(***************************************************************************)
EXTENDS ClusterFailover, TLAPS, FiniteSetTheorems, WellFoundedInduction

-----------------------------------------------------------------------------
(* The inductive invariant.                                                *)

View == [cfg: [Nodes -> Nat], allSlots: [Slots -> Nodes \cup {None}],
         slaveOf: [Nodes -> Nodes \cup {None}], pfail: SUBSET Nodes, fail: SUBSET Nodes,
         reports: [Nodes -> SUBSET Nodes], size: Nat, fresh: BOOLEAN]

\* The view s of node n when its current epoch is e: no configEpoch is above e,
\* n is not its own master, and a slave has no slot.
Good(s, n, e) ==
  /\ s \in View
  /\ \A x \in Nodes : s.cfg[x] <= e
  /\ s.slaveOf[n] # n
  /\ s.slaveOf[n] # None => \A j \in Slots : s.allSlots[j] # n
  /\ s.pfail \cap s.fail = {}

HeaderType == [cur: Nat, cfg: Nat, slots: SUBSET Slots, slaveOf: Nodes \cup {None}]

\* A message carries configEpochs at or below the current epoch it carries, and
\* nobody sends to itself.
GoodMsg(m) ==
  /\ m.from \in Nodes /\ m.to \in Nodes /\ m.from # m.to
  /\ m.hdr \in HeaderType /\ m.hdr.cfg <= m.hdr.cur
  /\ m.type \in {"PING", "PONG"} => m.pfail \subseteq Nodes /\ m.fail \subseteq Nodes
  /\ m.type = "FAIL" => m.about \in Nodes
  /\ m.type = "UPDATE" => /\ m.about \in Nodes /\ m.slots \subseteq Slots
                          /\ m.cfg \in Nat /\ m.cfg <= m.hdr.cur

\* The record saved about x by n.
GoodMeta(r, n, x) ==
  /\ r.cfg \in Nat /\ r.slots \subseteq Slots /\ r.slaveOf \in Nodes \cup {None}
  /\ ~(r.pfail /\ r.fail)
  /\ x = n => r.slaveOf # n /\ (r.slaveOf # None => r.slots = {})

SettingInv == cluster \in DOMAIN Clusters

ViewInv ==
  /\ view \in [Nodes -> View] /\ currentEpoch \in [Nodes -> Nat]
  /\ \A n \in Nodes : Good(view[n], n, currentEpoch[n])

AuthType == [phase: {"none", "scheduled", "started", "sent"}, epoch: Nat, count: Nat]

AuthInv ==
  /\ auth \in [Nodes -> AuthType]
  /\ \A n \in Nodes : auth[n].epoch <= currentEpoch[n]
  /\ mfStart \subseteq Nodes

MsgInv == \A m \in msgs : GoodMsg(m)

VoteInv ==
  /\ lastVoteEpoch \in [Nodes -> Nat]
  /\ \A n \in Nodes : lastVoteEpoch[n] <= currentEpoch[n]
  /\ crashes = 0 =>
       /\ \A v \in votes : v[1] \in Nodes /\ v[2] \in Nat /\ v[2] <= lastVoteEpoch[v[1]]
       /\ OneVotePerEpoch

\* Nodes are down that are down for good, or have crashed.
UpInv ==
  /\ up \subseteq Nodes /\ crashes \in Nat /\ crashes <= setting.crashes
  /\ crashes = 0 => up = Nodes \ setting.down

SavedInv ==
  setting.crashes # 0 =>
    /\ DOMAIN saved = Nodes
    /\ \A n \in Nodes : DOMAIN saved[n] = Nodes /\ \A x \in Nodes : GoodMeta(saved[n][x], n, x)

IInv ==
  SettingInv /\ ViewInv /\ AuthInv /\ MsgInv /\ VoteInv /\ UpInv /\ SavedInv

-----------------------------------------------------------------------------
(* Sets of epochs and of slots.                                            *)

\* A set of slots that is not empty has a first one (the loop of
\* clusterSendUpdate over the slots of the sender).
LEMMA LeastNat ==
  ASSUME NEW S, S \subseteq Nat, S # {}
  PROVE  \E n \in S : \A m \in S : n <= m
<1>1. PICK n \in S : \A m \in S : ~(<<m, n>> \in OpToRel(<, Nat))
  BY Zenon, NatLessThanWellFounded, WFMin
<1>2. \A m \in S : ~(m < n)
  BY Zenon, <1>1 DEF OpToRel
<1> QED
  BY <1>2

\* The greatest configEpoch is at or above all of them (clusterGetMaxEpoch).
LEMMA MaxOfBounds ==
  ASSUME NEW N, IsFiniteSet(N), NEW f \in [N -> Nat]
  PROVE  MaxOf(f) \in Nat /\ \A x \in N : f[x] <= MaxOf(f)
<1> DEFINE Bounded(T) == \E b \in {0} \cup {f[x] : x \in T} : \A x \in T : f[x] <= b
           B == {k \in Nat : \E T \in SUBSET N : Cardinality(T) = k /\ ~Bounded(T)}
<1>1. \A T \in SUBSET N : IsFiniteSet(T) /\ Cardinality(T) \in Nat
  BY Zenon, FS_Subset, FS_CardinalityType
<1>2. SUFFICES Bounded(N)
  <2> DEFINE S == {0} \cup {f[x] : x \in DOMAIN f}
  <2>1. \E b \in S : \A y \in S : b >= y
    BY <1>2
  <2>2. /\ MaxOf(f) \in S
        /\ \A y \in S : MaxOf(f) >= y
    BY Zenon, <2>1 DEF MaxOf, Max
  <2> QED
    BY <2>2
<1>3. B = {}
  <2> SUFFICES ASSUME B # {} PROVE FALSE
    BY Zenon
  <2>1. PICK k \in B : \A m \in B : k <= m
    <3> HIDE DEF Bounded
    <3> QED
      BY Zenon, LeastNat
  <2>2. PICK T \in SUBSET N : Cardinality(T) = k /\ ~Bounded(T)
    BY Zenon, <2>1
  <2>3. PICK t \in T : TRUE
    BY Zenon, <2>2
  <2>4. Cardinality(T \ {t}) = k - 1
    BY Zenon, <1>1, <2>2, FS_RemoveElement
  <2>5. Bounded(T \ {t})
    <3> HIDE DEF Bounded
    <3>1. T \ {t} \in SUBSET N /\ k - 1 \in Nat /\ k \in Nat
      BY Zenon, <1>1, <2>1, <2>4
    <3>2. k - 1 \notin B
      BY <2>1, <3>1
    <3> QED
      BY Zenon, <2>4, <3>1, <3>2
  <2>6. PICK b \in {0} \cup {f[x] : x \in T \ {t}} : \A x \in T \ {t} : f[x] <= b
    BY Zenon, <2>5
  <2>7. b \in Nat /\ f[t] \in Nat
    BY <2>2
  <2>8. CASE b <= f[t]
    BY <2>2, <2>6, <2>7, <2>8
  <2>9. CASE f[t] <= b
    BY Zenon, <2>2, <2>6, <2>7, <2>9
  <2> QED
    BY <2>7, <2>8, <2>9
<1> HIDE DEF Bounded
<1> QED
  BY Zenon, <1>1, <1>3

-----------------------------------------------------------------------------
(* The cluster does not change.                                            *)

\* What ClustersAreClusters says of the cluster that runs.
LEMMA Basics ==
  ASSUME SettingInv
  PROVE  /\ Nodes \subseteq Nat \ {None} /\ IsFiniteSet(Nodes) /\ Slots \subseteq Nat
         /\ setting.slaveOf \in [Nodes -> Nodes \cup {None}] /\ setting.owner \in [Slots -> Nodes]
         /\ \A n \in Nodes : setting.slaveOf[n] # n
         /\ \A n \in Nodes, j \in Slots : setting.slaveOf[n] # None => setting.owner[j] # n
         /\ setting.epochs \in [Nodes -> Nat] /\ setting.fail \subseteq Nodes
         /\ \A n, x \in Nodes : <<n, x>> \in setting.gossip => x # n
         /\ setting.crashes \in Nat
  BY Zenon, ClustersAreClusters DEF SettingInv, setting, Nodes, Slots

\* A step of the cluster is about the same nodes and slots as the next one.
LEMMA SameSetting ==
  ASSUME cluster' = cluster
  PROVE  Nodes' = Nodes /\ Slots' = Slots /\ setting' = setting /\ View' = View
         /\ HeaderType' = HeaderType
  BY Zenon DEF Nodes, Slots, setting, View, HeaderType

-----------------------------------------------------------------------------
(* What the functions that change a view keep.                             *)

\* Only the cached size changes (clusterUpdateState).
LEMMA UpdateStateGood ==
  ASSUME SettingInv, NEW n \in Nodes, NEW e \in Nat, NEW s, Good(s, n, e)
  PROVE  LET t == clusterUpdateState(s, n)
         IN  Good(t, n, e) /\ t.cfg = s.cfg /\ t.slaveOf = s.slaveOf /\ t.allSlots = s.allSlots
<1> DEFINE c == Cardinality({x \in Nodes : IsVoter(s, x)})
<1>1. c \in Nat
  BY Zenon, Basics, FS_Subset, FS_CardinalityType
<1> HIDE DEF c
<1>2. clusterUpdateState(s, n) \in {s, [s EXCEPT !.size = c]}
  BY Zenon DEF clusterUpdateState, c
<1> QED
  BY Zenon, <1>1, <1>2 DEF Good, View

\* A greater current epoch will do as well.
LEMMA LaterEpochGood ==
  ASSUME NEW n \in Nodes, NEW e \in Nat, NEW s, Good(s, n, e), NEW e2 \in Nat, e <= e2
  PROVE  Good(s, n, e2)
<1>1. \A x \in Nodes : s.cfg[x] \in Nat /\ s.cfg[x] <= e
  BY Zenon DEF Good, View
<1>2. \A x \in Nodes : s.cfg[x] <= e2
  BY <1>1
<1> QED
  BY Zenon, <1>2 DEF Good

\* Another node takes slots, and perhaps becomes the master of this one, which
\* then has none (clusterUpdateSlotsConfigWith).
LEMMA SlotsConfigGood ==
  ASSUME SettingInv, NEW n \in Nodes, NEW e \in Nat, NEW s, Good(s, n, e),
         NEW sender \in Nodes, NEW epoch, NEW slots, NEW syncDone
  PROVE  LET t == clusterUpdateSlotsConfigWith(s, n, sender, epoch, slots, syncDone)
         IN  Good(t, n, e) /\ t.cfg = s.cfg
<1> DEFINE curmaster == IF IsMaster(s, n) THEN n ELSE s.slaveOf[n]
           taken == {j \in slots : /\ s.allSlots[j] # sender
                                   /\ \/ s.allSlots[j] = None
                                      \/ s.cfg[s.allSlots[j]] < epoch}
           moved == [s EXCEPT !.allSlots = [j \in Slots |-> IF j \in taken THEN sender
                                                           ELSE s.allSlots[j]]]
           upd == clusterUpdateState(moved, n)
           t == clusterUpdateSlotsConfigWith(s, n, sender, epoch, slots, syncDone)
<1> SUFFICES ASSUME sender # n PROVE Good(t, n, e) /\ t.cfg = s.cfg
  BY Zenon DEF clusterUpdateSlotsConfigWith
<1>1. t = upd \/ (t = clusterSetMaster(upd, n, sender) /\ SlotsOf(moved, curmaster) = {})
  BY Zenon DEF clusterUpdateSlotsConfigWith
<1> HIDE DEF t, upd, taken
<1>2. s \in View /\ moved \in View
  BY Zenon DEF Good, View
<1>3. /\ moved.cfg = s.cfg /\ moved.slaveOf = s.slaveOf /\ moved.pfail = s.pfail /\ moved.fail = s.fail
      /\ \A j \in Slots : moved.allSlots[j] \in {sender, s.allSlots[j]}
  BY Zenon, <1>2 DEF View
<1> HIDE DEF moved
<1>4. Good(moved, n, e)
  BY Zenon, <1>2, <1>3 DEF Good
<1>5. Good(upd, n, e) /\ upd.cfg = s.cfg /\ upd.slaveOf = s.slaveOf /\ upd.allSlots = moved.allSlots
  BY Zenon, <1>3, <1>4, UpdateStateGood DEF upd
<1>6. CASE t = upd
  BY Zenon, <1>5, <1>6
<1>7. CASE t = clusterSetMaster(upd, n, sender) /\ SlotsOf(moved, curmaster) = {}
  <2>1. \A j \in Slots : upd.allSlots[j] # n
    <3>1. CASE IsMaster(s, n)
      BY Zenon, <1>5, <1>7, <3>1 DEF SlotsOf
    <3>2. CASE ~IsMaster(s, n)
      BY Zenon, <1>3, <1>5, <3>2 DEF Good, IsMaster
    <3> QED
      BY Zenon, <3>1, <3>2
  <2>2. upd \in View
    BY Zenon, <1>5 DEF Good
  <2>3. /\ t \in View /\ t.cfg = upd.cfg /\ t.allSlots = upd.allSlots /\ t.pfail = upd.pfail
        /\ t.fail = upd.fail /\ t.slaveOf[n] = sender
    BY Zenon, <1>7, <2>2 DEF View, clusterSetMaster
  <2> QED
    BY Zenon, <1>5, <2>1, <2>3 DEF Good
<1> QED
  BY Zenon, <1>1, <1>6, <1>7

\* The epochs of the sender are noted, those of the others stay (the first part
\* of clusterProcessPacket).
LEMMA NoteSenderGood ==
  ASSUME NEW n \in Nodes, NEW s, NEW m, GoodMsg(m), Good(s, n, currentEpoch[n]),
         currentEpoch[n] \in Nat
  PROVE  LET t == NoteSender(s, m)
             e == NotedEpoch(n, m)
         IN  /\ e \in Nat /\ e >= currentEpoch[n] /\ e >= m.hdr.cur
             /\ Good(t, n, e)
             /\ \A x \in Nodes : t.cfg[x] >= s.cfg[x]
             /\ t.slaveOf = s.slaveOf /\ t.fail = s.fail
<1> DEFINE t == NoteSender(s, m)
           e == NotedEpoch(n, m)
           c == MaxNat(s.cfg[m.from], m.hdr.cfg)
<1>1. /\ m.hdr.cur \in Nat /\ m.hdr.cfg \in Nat /\ m.hdr.cfg <= m.hdr.cur /\ m.from \in Nodes
      /\ s \in View /\ \A x \in Nodes : s.cfg[x] \in Nat /\ s.cfg[x] <= currentEpoch[n]
  BY Zenon DEF Good, GoodMsg, HeaderType, View
<1>2. e \in Nat /\ e >= currentEpoch[n] /\ e >= m.hdr.cur
  BY <1>1 DEF NotedEpoch, MaxNat
<1>3. c \in Nat /\ c <= e /\ c >= s.cfg[m.from]
  BY <1>1, <1>2 DEF MaxNat
<1>4. t = [s EXCEPT !.cfg[m.from] = c]
  BY Zenon DEF NoteSender
<1> HIDE DEF t, e, c
<1>5. /\ t \in View /\ t.slaveOf = s.slaveOf /\ t.allSlots = s.allSlots /\ t.pfail = s.pfail
      /\ t.fail = s.fail /\ t.cfg = [s.cfg EXCEPT ![m.from] = c]
  BY Zenon, <1>1, <1>3, <1>4 DEF View
<1>6. \A x \in Nodes : t.cfg[x] >= s.cfg[x] /\ t.cfg[x] <= e
  <2> TAKE x \in Nodes
  <2>1. s.cfg \in [Nodes -> Nat]
    BY Zenon, <1>1 DEF View
  <2>2. CASE x = m.from
    BY Zenon, <1>3, <1>5, <2>1, <2>2
  <2>3. CASE x # m.from
    BY <1>1, <1>2, <1>5, <2>1, <2>3
  <2> QED
    BY Zenon, <2>2, <2>3
<1>7. Good(t, n, e)
  BY Zenon, <1>5, <1>6 DEF Good
<1> QED
  BY Zenon, <1>2, <1>5, <1>6, <1>7 DEF t, e

\* A flag goes (the part of clusterProcessPacket about PONGs).
LEMMA ClearFailureGood ==
  ASSUME SettingInv, NEW n \in Nodes, NEW e \in Nat, NEW s, Good(s, n, e), NEW m, NEW old
  PROVE  LET t == ClearFailure(s, n, m, old)
         IN  Good(t, n, e) /\ t.cfg = s.cfg
<1> DEFINE t == ClearFailure(s, n, m, old)
           p == [s EXCEPT !.pfail = @ \ {m.from}]
           f == [s EXCEPT !.fail = @ \ {m.from}]
<1>1. t \in {s, p, clusterUpdateState(f, n)}
  BY Zenon DEF ClearFailure
<1>2. s \in View
  BY Zenon DEF Good
<1>3. Good(p, n, e) /\ p.cfg = s.cfg
  BY Zenon, <1>2 DEF Good, View
<1>4. Good(f, n, e) /\ f.cfg = s.cfg
  BY Zenon, <1>2 DEF Good, View
<1> HIDE DEF t, p, f
<1>5. Good(clusterUpdateState(f, n), n, e) /\ clusterUpdateState(f, n).cfg = s.cfg
  BY Zenon, <1>4, UpdateStateGood
<1> QED
  BY Zenon, <1>1, <1>3, <1>5 DEF t

\* The role of another node changes (the part of clusterProcessPacket about the
\* role of the sender).
LEMMA UpdateRoleGood ==
  ASSUME SettingInv, NEW n \in Nodes, NEW e \in Nat, NEW s, Good(s, n, e),
         NEW m, GoodMsg(m), m.to = n
  PROVE  LET t == UpdateRole(s, n, m)
         IN  Good(t, n, e) /\ t.cfg = s.cfg
<1> DEFINE t == UpdateRole(s, n, m)
           x == m.from
           gone == IF IsMaster(s, x) THEN clusterDelNodeSlots(s, x) ELSE s
           turned == [gone EXCEPT !.slaveOf[x] = m.hdr.slaveOf]
<1>1. x \in Nodes /\ x # n /\ m.hdr.slaveOf \in Nodes \cup {None} /\ s \in View
  BY Zenon DEF GoodMsg, HeaderType, Good
<1>2. t \in {s, clusterSetNodeAsMaster(s, x), clusterUpdateState(turned, n)}
  BY Zenon DEF UpdateRole
<1> HIDE DEF t, x
<1>3. Good(clusterSetNodeAsMaster(s, x), n, e) /\ clusterSetNodeAsMaster(s, x).cfg = s.cfg
  <2> DEFINE u == clusterSetNodeAsMaster(s, x)
  <2>1. /\ u \in View /\ u.cfg = s.cfg /\ u.allSlots = s.allSlots /\ u.pfail = s.pfail
        /\ u.fail = s.fail /\ u.slaveOf[n] = s.slaveOf[n]
    BY Zenon, <1>1 DEF clusterSetNodeAsMaster, View
  <2> QED
    BY Zenon, <2>1 DEF Good
<1>4. /\ gone \in View /\ gone.cfg = s.cfg /\ gone.pfail = s.pfail /\ gone.fail = s.fail
      /\ gone.slaveOf = s.slaveOf /\ \A j \in Slots : gone.allSlots[j] \in {None, s.allSlots[j]}
  BY Zenon, <1>1 DEF clusterDelNodeSlots, View
<1> HIDE DEF gone
<1>5. /\ turned \in View /\ turned.cfg = s.cfg /\ turned.pfail = s.pfail /\ turned.fail = s.fail
      /\ turned.slaveOf[n] = s.slaveOf[n] /\ turned.allSlots = gone.allSlots
  BY Zenon, <1>1, <1>4 DEF View
<1> HIDE DEF turned
<1>6. Good(turned, n, e)
  BY <1>4, <1>5, Basics DEF Good
<1>7. Good(clusterUpdateState(turned, n), n, e) /\ clusterUpdateState(turned, n).cfg = s.cfg
  BY Zenon, <1>5, <1>6, UpdateStateGood
<1> QED
  BY Zenon, <1>2, <1>3, <1>7 DEF t

\* Reports are noted and nodes go from PFAIL to FAIL
\* (clusterProcessGossipSection, markAsFailingIfNeeded).
LEMMA MarkFailingGood ==
  ASSUME SettingInv, NEW n \in Nodes, NEW e \in Nat, NEW s, Good(s, n, e),
         NEW m, GoodMsg(m), m.type \in {"PING", "PONG"}, NEW picked \in SUBSET Nodes
  PROVE  LET t == markAsFailingIfNeeded(s, n, m, picked)
         IN  Good(t, n, e) /\ t.cfg = s.cfg /\ Failing(s, n, m, picked) \subseteq Nodes
<1> DEFINE t == markAsFailingIfNeeded(s, n, m, picked)
           r == Reported(s, n, m, picked)
           f == Failing(s, n, m, picked)
           u == [r EXCEPT !.pfail = @ \ f, !.fail = @ \cup f]
<1>1. s \in View /\ m.from \in Nodes /\ m.pfail \subseteq Nodes /\ m.fail \subseteq Nodes
  BY Zenon DEF Good, GoodMsg
<1>2. f \subseteq Nodes
  BY Zenon, <1>1 DEF Failing
<1>3. r \in View /\ r.cfg = s.cfg /\ r.allSlots = s.allSlots /\ r.slaveOf = s.slaveOf
      /\ r.pfail = s.pfail /\ r.fail = s.fail
  BY Zenon, <1>1 DEF Reported, View
<1>4. t \in {r, clusterUpdateState(u, n)}
  BY Zenon DEF markAsFailingIfNeeded
<1> HIDE DEF t, r, f
<1>5. /\ u \in View /\ u.cfg = r.cfg /\ u.allSlots = r.allSlots /\ u.slaveOf = r.slaveOf
      /\ u.pfail = r.pfail \ f /\ u.fail = r.fail \cup f
  BY Zenon, <1>2, <1>3 DEF View
<1> HIDE DEF u
<1>6. Good(r, n, e)
  BY Zenon, <1>3 DEF Good
<1>7. Good(u, n, e)
  BY Zenon, <1>3, <1>5 DEF Good
<1>8. Good(clusterUpdateState(u, n), n, e) /\ clusterUpdateState(u, n).cfg = s.cfg
  BY Zenon, <1>3, <1>5, <1>7, UpdateStateGood
<1> QED
  BY Zenon, <1>2, <1>3, <1>4, <1>6, <1>8 DEF t, f

\* The slave is a master now (clusterFailoverReplaceYourMasterMeta).
LEMMA ReplaceMetaGood ==
  ASSUME SettingInv, NEW n \in Nodes, NEW e \in Nat, NEW s, Good(s, n, e)
  PROVE  LET t == clusterFailoverReplaceYourMasterMeta(s, n)
         IN  Good(t, n, e) /\ t.cfg = s.cfg
<1> DEFINE t == clusterFailoverReplaceYourMasterMeta(s, n)
<1>1. s \in View
  BY Zenon DEF Good
<1>2. /\ t \in View /\ t.cfg = s.cfg /\ t.pfail = s.pfail /\ t.fail = s.fail
      /\ t.slaveOf[n] = None
  BY Zenon, <1>1 DEF clusterFailoverReplaceYourMasterMeta, View
<1>3. n # None
  BY Zenon, Basics
<1> HIDE DEF t
<1> QED
  BY Zenon, <1>2, <1>3 DEF Good, t

\* A node takes a greater configEpoch, which is not above its current epoch
\* (clusterHandleConfigEpochCollision, clusterBumpConfigEpochWithoutConsensus, the
\* end of clusterHandleSlaveFailover).
LEMMA OwnEpochGood ==
  ASSUME NEW n \in Nodes, NEW e \in Nat, NEW s, Good(s, n, e), NEW c \in Nat,
         NEW e2 \in Nat, e <= e2, c <= e2, s.cfg[n] <= c
  PROVE  LET t == [s EXCEPT !.cfg[n] = c]
         IN  /\ Good(t, n, e2) /\ t.slaveOf = s.slaveOf /\ t.allSlots = s.allSlots
             /\ \A x \in Nodes : s.cfg[x] <= t.cfg[x]
<1> DEFINE t == [s EXCEPT !.cfg[n] = c]
<1>1. s \in View /\ \A x \in Nodes : s.cfg[x] \in Nat /\ s.cfg[x] <= e
  BY Zenon DEF Good, View
<1>2. /\ t \in View /\ t.allSlots = s.allSlots /\ t.slaveOf = s.slaveOf /\ t.pfail = s.pfail
      /\ t.fail = s.fail /\ t.cfg = [s.cfg EXCEPT ![n] = c] /\ s.cfg \in [Nodes -> Nat]
  BY Zenon, <1>1 DEF View
<1> HIDE DEF t
<1>3. \A x \in Nodes : s.cfg[x] <= t.cfg[x] /\ t.cfg[x] <= e2
  <2> TAKE x \in Nodes
  <2>1. CASE x = n
    BY Zenon, <1>2, <2>1
  <2>2. CASE x # n
    BY <1>1, <1>2, <2>2
  <2> QED
    BY Zenon, <2>1, <2>2
<1> QED
  BY Zenon, <1>2, <1>3 DEF Good, t

-----------------------------------------------------------------------------
(* Messages.                                                               *)

\* A header is built from one view (clusterBuildMessageHdr).
LEMMA HeaderGood ==
  ASSUME NEW n \in Nodes, NEW e \in Nat, NEW s, Good(s, n, e)
  PROVE  Header(s, n, e) \in HeaderType /\ Header(s, n, e).cfg <= Header(s, n, e).cur
<1> DEFINE x == IF IsMaster(s, n) THEN n ELSE s.slaveOf[n]
<1>1. s.slaveOf[n] \in Nodes \cup {None} /\ \A y \in Nodes : s.cfg[y] \in Nat /\ s.cfg[y] <= e
  BY Zenon DEF Good, View
<1>2. x \in Nodes
  BY Zenon, <1>1 DEF IsMaster
<1>3. Header(s, n, e) = [cur |-> e, cfg |-> s.cfg[x], slots |-> SlotsOf(s, x), slaveOf |-> s.slaveOf[n]]
  BY Zenon DEF Header
<1>4. SlotsOf(s, x) \in SUBSET Slots
  BY Zenon DEF SlotsOf
<1> HIDE DEF x
<1> QED
  BY <1>1, <1>2, <1>3, <1>4 DEF HeaderType

\* So the messages of a node with a good view are good.
LEMMA MessagesGood ==
  ASSUME NEW n \in Nodes, NEW e \in Nat, NEW s, Good(s, n, e), NEW to \in Nodes, to # n
  PROVE  /\ \A type \in {"PING", "PONG"} : \A reply : GoodMsg(PingMsg(type, s, n, to, e, reply))
         /\ \A x \in Nodes : GoodMsg(UpdateMsg(s, n, to, x, e)) /\ GoodMsg(FailMsg(s, n, to, x, e))
         /\ \A force : GoodMsg(AuthRequest(s, n, to, e, force))
         /\ GoodMsg(AuthAck(s, n, to, e))
<1> DEFINE h == Header(s, n, e)
<1>1. h \in HeaderType /\ h.cfg <= h.cur /\ h.cur = e
  BY Zenon, HeaderGood DEF Header
<1>2. s.pfail \subseteq Nodes /\ s.fail \subseteq Nodes /\ \A y \in Nodes : s.cfg[y] \in Nat /\ s.cfg[y] <= e
  BY Zenon DEF Good, View
<1> HIDE DEF h
<1>3. \A type \in {"PING", "PONG"} : \A reply : GoodMsg(PingMsg(type, s, n, to, e, reply))
  BY <1>1, <1>2 DEF GoodMsg, PingMsg, h
<1>4. \A x \in Nodes : GoodMsg(UpdateMsg(s, n, to, x, e))
  BY Zenon, <1>1, <1>2 DEF GoodMsg, UpdateMsg, h, SlotsOf
<1>5. \A x \in Nodes : GoodMsg(FailMsg(s, n, to, x, e))
  BY Zenon, <1>1 DEF GoodMsg, FailMsg, h
<1>6. \A force : GoodMsg(AuthRequest(s, n, to, e, force))
  BY Zenon, <1>1 DEF GoodMsg, AuthRequest, h
<1>7. GoodMsg(AuthAck(s, n, to, e))
  BY Zenon, <1>1 DEF GoodMsg, AuthAck, h
<1> QED
  BY Zenon, <1>3, <1>4, <1>5, <1>6, <1>7

\* Nothing arrives that was not sent.
LEMMA SentGood ==
  ASSUME cluster' = cluster, NEW net, \A m \in net : GoodMsg(m), NEW out, \A m \in out : GoodMsg(m),
         msgs' = Sent(net, out) \/ msgs' \subseteq net
  PROVE  MsgInv'
<1>1. \A m \in msgs' : GoodMsg(m)
  BY Zenon DEF Sent
<1> QED
  BY Zenon, <1>1, SameSetting DEF MsgInv, GoodMsg

-----------------------------------------------------------------------------
(* What the steps have in common.                                          *)

\* Epochs do not go back in this step.
EpochsGrow ==
  \A n \in Nodes :
    /\ currentEpoch'[n] >= currentEpoch[n]
    /\ lastVoteEpoch'[n] >= lastVoteEpoch[n]
    /\ \A x \in Nodes : view'[n].cfg[x] >= view[n].cfg[x]

\* One node has a new view and perhaps a greater current epoch.
LEMMA ViewStep ==
  ASSUME IInv, cluster' = cluster, NEW n \in Nodes, NEW s, NEW e \in Nat, Good(s, n, e),
         e >= currentEpoch[n], \A x \in Nodes : s.cfg[x] >= view[n].cfg[x],
         view' = [view EXCEPT ![n] = s], currentEpoch' = [currentEpoch EXCEPT ![n] = e]
  PROVE  /\ ViewInv'
         /\ \A x \in Nodes : /\ currentEpoch'[x] >= currentEpoch[x]
                             /\ \A y \in Nodes : view'[x].cfg[y] >= view[x].cfg[y]
<1>1. /\ view \in [Nodes -> View] /\ currentEpoch \in [Nodes -> Nat]
      /\ \A x \in Nodes : Good(view[x], x, currentEpoch[x])
  BY Zenon DEF IInv, ViewInv
<1>2. s \in View
  BY Zenon DEF Good
<1>3. view' \in [Nodes -> View] /\ currentEpoch' \in [Nodes -> Nat]
  BY Zenon, <1>1, <1>2
<1>4. \A x \in Nodes : Good(view'[x], x, currentEpoch'[x])
  <2> TAKE x \in Nodes
  <2>1. CASE x = n
    BY Zenon, <1>1, <2>1
  <2>2. CASE x # n
    BY Zenon, <1>1, <2>2
  <2> QED
    BY Zenon, <2>1, <2>2
<1>5. ViewInv'
  BY Zenon, <1>3, <1>4, SameSetting DEF ViewInv, Good
<1>6. ASSUME NEW x \in Nodes
      PROVE  /\ currentEpoch'[x] >= currentEpoch[x]
             /\ \A y \in Nodes : view'[x].cfg[y] >= view[x].cfg[y]
  <2>1. CASE x = n
    BY Zenon, <1>1, <2>1
  <2>2. CASE x # n
    <3>1. view'[x] = view[x] /\ currentEpoch'[x] = currentEpoch[x]
      BY Zenon, <1>1, <2>2
    <3>2. currentEpoch[x] \in Nat /\ \A y \in Nodes : view[x].cfg[y] \in Nat
      BY Zenon, <1>1 DEF View
    <3> QED
      BY <3>1, <3>2
  <2> QED
    BY Zenon, <2>1, <2>2
<1> QED
  BY Zenon, <1>5, <1>6

\* No view and no current epoch changes.
LEMMA ViewsKept ==
  ASSUME IInv, cluster' = cluster, view' = view, currentEpoch' = currentEpoch
  PROVE  /\ ViewInv'
         /\ \A x \in Nodes : /\ currentEpoch'[x] >= currentEpoch[x]
                             /\ \A y \in Nodes : view'[x].cfg[y] >= view[x].cfg[y]
<1>1. ViewInv'
  BY Zenon, SameSetting DEF IInv, ViewInv, Good
<1>2. \A x \in Nodes : currentEpoch[x] \in Nat /\ \A y \in Nodes : view[x].cfg[y] \in Nat
  BY Zenon DEF IInv, ViewInv, View
<1> QED
  BY <1>1, <1>2

\* The elections go on, and a manual failover may end.
LEMMA AuthKept ==
  ASSUME IInv, cluster' = cluster, ViewInv', auth' = auth, mfStart' \subseteq Nodes,
         \A x \in Nodes : currentEpoch'[x] >= currentEpoch[x]
  PROVE  AuthInv'
<1>1. /\ auth \in [Nodes -> AuthType]
      /\ \A x \in Nodes : auth[x].epoch <= currentEpoch[x]
  BY Zenon DEF IInv, AuthInv
<1>2. currentEpoch \in [Nodes -> Nat] /\ currentEpoch' \in [Nodes -> Nat]
  BY Zenon, SameSetting DEF IInv, ViewInv
<1>3. \A x \in Nodes : auth[x].epoch \in Nat
  BY Zenon, <1>1 DEF AuthType
<1>4. \A a, b, c \in Nat : a <= b /\ c >= b => a <= c
  OBVIOUS
<1>5. \A x \in Nodes : auth[x].epoch <= currentEpoch'[x]
  <2> TAKE x \in Nodes
  <2>1. auth[x].epoch \in Nat /\ currentEpoch[x] \in Nat /\ currentEpoch'[x] \in Nat
    BY Zenon, <1>2, <1>3
  <2>2. auth[x].epoch <= currentEpoch[x] /\ currentEpoch'[x] >= currentEpoch[x]
    BY Zenon, <1>1
  <2> QED
    BY Zenon, <1>4, <2>1, <2>2
<1> QED
  BY Zenon, <1>1, <1>5, SameSetting DEF AuthInv

\* Nobody votes.
LEMMA VotesKept ==
  ASSUME IInv, cluster' = cluster, ViewInv', UNCHANGED <<lastVoteEpoch, votes>>,
         crashes' = crashes \/ crashes' # 0,
         \A x \in Nodes : currentEpoch'[x] >= currentEpoch[x]
  PROVE  VoteInv' /\ \A x \in Nodes : lastVoteEpoch'[x] >= lastVoteEpoch[x]
<1>1. /\ lastVoteEpoch \in [Nodes -> Nat]
      /\ \A x \in Nodes : lastVoteEpoch[x] <= currentEpoch[x]
  BY Zenon DEF IInv, VoteInv
<1>2. currentEpoch \in [Nodes -> Nat] /\ currentEpoch' \in [Nodes -> Nat]
  BY Zenon, SameSetting DEF IInv, ViewInv
<1>3. \A x \in Nodes : lastVoteEpoch[x] <= currentEpoch'[x]
  BY <1>1, <1>2
<1>4. OneVotePerEpoch' <=> OneVotePerEpoch
  BY Zenon DEF OneVotePerEpoch
<1>5. VoteInv'
  BY Zenon, <1>1, <1>3, <1>4, SameSetting DEF IInv, VoteInv
<1> QED
  BY <1>1, <1>5

\* Nobody saves, crashes or restarts.
LEMMA Running ==
  ASSUME IInv, cluster' = cluster, UNCHANGED <<up, saved, crashes>>
  PROVE  SettingInv' /\ UpInv' /\ SavedInv'
<1>1. SettingInv'
  BY Zenon DEF IInv, SettingInv
<1>2. UpInv'
  BY Zenon, SameSetting DEF IInv, UpInv
<1>3. SavedInv'
  BY Zenon, SameSetting DEF IInv, SavedInv, GoodMeta
<1> QED
  BY Zenon, <1>1, <1>2, <1>3

\* What a node starts a step with.
LEMMA Pieces ==
  ASSUME IInv, NEW n \in Nodes
  PROVE  /\ SettingInv /\ view[n] \in View /\ Good(view[n], n, currentEpoch[n])
         /\ currentEpoch[n] \in Nat /\ \A x \in Nodes : view[n].cfg[x] \in Nat
         /\ view \in [Nodes -> View] /\ currentEpoch \in [Nodes -> Nat]
         /\ (\A m \in msgs : GoodMsg(m)) /\ mfStart \subseteq Nodes
  BY DEF IInv, ViewInv, MsgInv, AuthInv, View

-----------------------------------------------------------------------------
(* Packets.                                                                *)

\* PING and PONG: the view goes through epochs, flags, roles, slots, the
\* collision of configEpochs and reports, and each of them keeps it good.
LEMMA PingStep ==
  ASSUME IInv, NEW n \in Nodes, NEW m \in msgs, ReceivePing(n, m)
  PROVE  IInv' /\ EpochsGrow
<1> USE Pieces
<1>1. PICK old \in {FALSE, m.from \in view[n].fail},
           syncDone \in {FALSE, ~IsMaster(view[n], n)},
           picked \in GossipPicks(view[n], m) :
       LET s1 == NoteSender(view[n], m)
           e1 == NotedEpoch(n, m)
           s2 == UpdateRole(ClearFailure(s1, n, m, old), n, m)
           dirty == DirtySlots(s2, m)
           s3 == UpdateSlots(s2, n, m, syncDone)
           collides == Collides(s3, n, m)
           e4 == IF collides THEN e1 + 1 ELSE e1
           s4 == IF collides THEN [s3 EXCEPT !.cfg[n] = e4] ELSE s3
           s5 == markAsFailingIfNeeded(s4, n, m, picked)
           pong == IF m.type = "PING"
                   THEN {PingMsg("PONG", s1, n, m.from, e1, TRUE)} ELSE {}
           fails == UNION {clusterSendFail(s5, n, x, e4) : x \in Failing(s4, n, m, picked)}
       IN  /\ view' = [view EXCEPT ![n] = s5]
           /\ currentEpoch' = [currentEpoch EXCEPT ![n] = e4]
           /\ mfStart' = IF s3.slaveOf[n] # s2.slaveOf[n] THEN mfStart \ {n}
                                                          ELSE mfStart
           /\ msgs' = Sent(msgs \ {m},
                           pong \cup clusterSendUpdate(s3, n, m, dirty, e1)
                                \cup fails)
  BY Zenon DEF ReceivePing
<1> DEFINE s1 == NoteSender(view[n], m)
           e1 == NotedEpoch(n, m)
           c1 == ClearFailure(s1, n, m, old)
           s2 == UpdateRole(c1, n, m)
           dirty == DirtySlots(s2, m)
           s3 == UpdateSlots(s2, n, m, syncDone)
           collides == Collides(s3, n, m)
           e4 == IF collides THEN e1 + 1 ELSE e1
           s4 == IF collides THEN [s3 EXCEPT !.cfg[n] = e4] ELSE s3
           s5 == markAsFailingIfNeeded(s4, n, m, picked)
           pong == IF m.type = "PING"
                   THEN {PingMsg("PONG", s1, n, m.from, e1, TRUE)} ELSE {}
           update == clusterSendUpdate(s3, n, m, dirty, e1)
           fails == UNION {clusterSendFail(s5, n, x, e4) : x \in Failing(s4, n, m, picked)}
<1>2. /\ view' = [view EXCEPT ![n] = s5]
      /\ currentEpoch' = [currentEpoch EXCEPT ![n] = e4]
      /\ mfStart' \subseteq mfStart
      /\ msgs' = Sent(msgs \ {m}, pong \cup update \cup fails)
  BY Zenon, <1>1
<1>3. /\ cluster' = cluster /\ UNCHANGED <<up, saved, crashes>>
      /\ UNCHANGED <<lastVoteEpoch, votes>> /\ auth' = auth
      /\ m.to = n /\ m.type \in {"PING", "PONG"} /\ GoodMsg(m)
  BY DEF ReceivePing, Unmodified
<1>4. /\ m.from \in Nodes /\ m.from # n /\ m.hdr.slots \subseteq Slots /\ m.hdr.cfg \in Nat
      /\ picked \in SUBSET Nodes
  BY Zenon, <1>3 DEF GoodMsg, HeaderType, GossipPicks
<1> HIDE DEF s1, e1, c1, s2, s3, collides, e4, s4, s5, dirty, pong, update, fails
<1>5. /\ e1 \in Nat /\ e1 >= currentEpoch[n] /\ Good(s1, n, e1)
      /\ \A x \in Nodes : s1.cfg[x] >= view[n].cfg[x]
  BY Zenon, <1>3, NoteSenderGood DEF s1, e1
<1>6. Good(c1, n, e1) /\ c1.cfg = s1.cfg
  BY <1>5, ClearFailureGood DEF c1
<1>7. Good(s2, n, e1) /\ s2.cfg = s1.cfg
  BY SMTT(40), <1>3, <1>5, <1>6, UpdateRoleGood DEF s2
<1>8. Good(s3, n, e1) /\ s3.cfg = s1.cfg
  BY SMTT(40), <1>4, <1>5, <1>7, SlotsConfigGood DEF s3, UpdateSlots
<1>9. /\ e4 \in Nat /\ e4 >= e1 /\ Good(s4, n, e4)
      /\ \A x \in Nodes : s4.cfg[x] >= s3.cfg[x]
  <2>1. \A x \in Nodes : s3.cfg[x] \in Nat /\ s3.cfg[x] <= e1
    BY Zenon, <1>8 DEF Good, View
  <2>2. CASE collides
    <3>1. e4 = e1 + 1 /\ s4 = [s3 EXCEPT !.cfg[n] = e4]
      BY Zenon, <2>2 DEF e4, s4
    <3>2. e4 \in Nat /\ e1 <= e4 /\ s3.cfg[n] <= e4 /\ e4 <= e4
      BY <1>5, <2>1, <3>1
    <3>3. Good(s4, n, e4) /\ \A x \in Nodes : s3.cfg[x] <= s4.cfg[x]
      BY Zenon, <1>5, <1>8, <3>1, <3>2, OwnEpochGood
    <3>4. \A x \in Nodes : s4.cfg[x] \in Nat
      BY Zenon, <3>3 DEF Good, View
    <3> QED
      BY Zenon, <1>5, <2>1, <3>2, <3>3, <3>4
  <2>3. CASE ~collides
    BY <1>5, <1>8, <2>1, <2>3 DEF e4, s4
  <2> QED
    BY Zenon, <2>2, <2>3
<1>10. Good(s5, n, e4) /\ s5.cfg = s4.cfg /\ Failing(s4, n, m, picked) \subseteq Nodes
  BY SMTT(40), <1>3, <1>4, <1>9, MarkFailingGood DEF s5
<1>11. \A x \in pong : GoodMsg(x)
  BY ZenonT(40), <1>4, <1>5, MessagesGood DEF pong
<1>12. \A x \in update : GoodMsg(x)
  <2> SUFFICES ASSUME Outdated(s3, m) # {}
               PROVE  GoodMsg(UpdateMsg(s3, n, m.from, s3.allSlots[Min(Outdated(s3, m))], e1))
    BY Zenon DEF update, clusterSendUpdate
  <2>1. Outdated(s3, m) \subseteq Slots /\ Slots \subseteq Nat
    BY Zenon, <1>4, Basics DEF Outdated
  <2>2. Min(Outdated(s3, m)) \in Outdated(s3, m)
    <3>1. \E j \in Outdated(s3, m) : \A i \in Outdated(s3, m) : j <= i
      BY Zenon, <2>1, LeastNat
    <3> QED
      BY Zenon, <3>1 DEF Min
  <2>3. s3.allSlots[Min(Outdated(s3, m))] \in Nodes
    <3>1. \A j \in Slots : s3.allSlots[j] \in Nodes \cup {None}
      BY Zenon, <1>8 DEF Good, View
    <3> QED
      BY Zenon, <2>1, <2>2, <3>1 DEF Outdated
  <2> QED
    BY Zenon, <1>4, <1>5, <1>8, <2>3, MessagesGood
<1>13. \A f \in fails : GoodMsg(f)
  BY SMTT(40), <1>9, <1>10, MessagesGood DEF fails, clusterSendFail, Others
<1>14. MsgInv'
  BY SMTT(40), <1>2, <1>3, <1>11, <1>12, <1>13, SentGood
<1>15. e4 >= currentEpoch[n] /\ \A x \in Nodes : s5.cfg[x] >= view[n].cfg[x]
  <2>1. \A x \in Nodes : s1.cfg[x] \in Nat /\ s4.cfg[x] \in Nat
    BY Zenon, <1>5, <1>9 DEF Good, View
  <2> QED
    BY SMTT(40), <1>5, <1>8, <1>9, <1>10, <2>1
<1>16. /\ ViewInv'
       /\ \A x \in Nodes : /\ currentEpoch'[x] >= currentEpoch[x]
                           /\ \A y \in Nodes : view'[x].cfg[y] >= view[x].cfg[y]
  BY Zenon, <1>2, <1>3, <1>9, <1>10, <1>15, ViewStep
<1>17. AuthInv'
  BY Zenon, <1>2, <1>3, <1>16, AuthKept
<1>18. VoteInv' /\ \A x \in Nodes : lastVoteEpoch'[x] >= lastVoteEpoch[x]
  BY Zenon, <1>3, <1>16, VotesKept
<1> QED
  BY Zenon, <1>3, <1>14, <1>16, <1>17, <1>18, Running DEF IInv, EpochsGrow

\* FAIL: another node is flagged.
LEMMA FailStep ==
  ASSUME IInv, NEW n \in Nodes, NEW m \in msgs, ReceiveFail(n, m)
  PROVE  IInv' /\ EpochsGrow
<1> USE Pieces
<1> DEFINE s1 == NoteSender(view[n], m)
           e1 == NotedEpoch(n, m)
           failed == [s1 EXCEPT !.fail = @ \cup {m.about}, !.pfail = @ \ {m.about}]
           s2 == IF m.about = n \/ m.about \in s1.fail THEN s1 ELSE clusterUpdateState(failed, n)
<1>1. /\ view' = [view EXCEPT ![n] = s2] /\ currentEpoch' = [currentEpoch EXCEPT ![n] = e1]
      /\ cluster' = cluster /\ UNCHANGED <<up, saved, crashes>>
      /\ UNCHANGED <<lastVoteEpoch, votes>> /\ UNCHANGED <<auth, mfStart>>
      /\ msgs' \subseteq msgs /\ m.type = "FAIL" /\ GoodMsg(m)
  BY Zenon DEF ReceiveFail, Unmodified
<1> HIDE DEF s1, e1
<1>2. /\ e1 \in Nat /\ e1 >= currentEpoch[n] /\ Good(s1, n, e1)
      /\ \A x \in Nodes : s1.cfg[x] >= view[n].cfg[x]
  BY Zenon, <1>1, NoteSenderGood DEF s1, e1
<1>3. s1 \in View /\ m.about \in Nodes
  BY Zenon, <1>1, <1>2 DEF Good, GoodMsg
<1>4. /\ failed \in View /\ failed.cfg = s1.cfg /\ failed.slaveOf = s1.slaveOf
      /\ failed.allSlots = s1.allSlots
      /\ failed.fail = s1.fail \cup {m.about} /\ failed.pfail = s1.pfail \ {m.about}
  BY Zenon, <1>3 DEF View
<1> HIDE DEF failed
<1>5. Good(failed, n, e1)
  BY Zenon, <1>2, <1>4 DEF Good
<1>6. Good(s2, n, e1) /\ s2.cfg = s1.cfg
  BY SMTT(40), <1>2, <1>4, <1>5, UpdateStateGood
<1> HIDE DEF s2
<1>7. /\ ViewInv'
      /\ \A x \in Nodes : /\ currentEpoch'[x] >= currentEpoch[x]
                          /\ \A y \in Nodes : view'[x].cfg[y] >= view[x].cfg[y]
  BY Zenon, <1>1, <1>2, <1>6, ViewStep
<1>8. AuthInv'
  BY Zenon, <1>1, <1>7, AuthKept
<1>9. VoteInv' /\ \A x \in Nodes : lastVoteEpoch'[x] >= lastVoteEpoch[x]
  BY Zenon, <1>1, <1>7, VotesKept
<1>10. MsgInv'
  BY Zenon, <1>1, SentGood
<1> QED
  BY Zenon, <1>1, <1>7, <1>8, <1>9, <1>10, Running DEF IInv, EpochsGrow

\* UPDATE: a node is told of a configEpoch that is greater than the one it has,
\* and of the slots that go with it.
LEMMA UpdateStep ==
  ASSUME IInv, NEW n \in Nodes, NEW m \in msgs, ReceiveUpdate(n, m)
  PROVE  IInv' /\ EpochsGrow
<1> USE Pieces
<1> DEFINE s1 == NoteSender(view[n], m)
           e1 == NotedEpoch(n, m)
           s2 == [clusterSetNodeAsMaster(s1, m.about) EXCEPT !.cfg[m.about] = m.cfg]
           s3(syncDone) == clusterUpdateSlotsConfigWith(s2, n, m.about, m.cfg, m.slots, syncDone)
           new == s1.cfg[m.about] < m.cfg
<1>1. PICK syncDone : /\ view' = [view EXCEPT ![n] = IF new THEN s3(syncDone) ELSE s1]
                      /\ mfStart' \subseteq mfStart
  BY Zenon DEF ReceiveUpdate
<1>2. /\ currentEpoch' = [currentEpoch EXCEPT ![n] = e1]
      /\ cluster' = cluster /\ UNCHANGED <<up, saved, crashes>>
      /\ UNCHANGED <<lastVoteEpoch, votes>> /\ auth' = auth
      /\ msgs' \subseteq msgs /\ m.type = "UPDATE" /\ GoodMsg(m)
  BY Zenon DEF ReceiveUpdate, Unmodified
<1> DEFINE s == IF new THEN s3(syncDone) ELSE s1
<1> HIDE DEF s1, e1
<1>3. /\ e1 \in Nat /\ e1 >= currentEpoch[n] /\ Good(s1, n, e1) /\ e1 >= m.hdr.cur
      /\ \A x \in Nodes : s1.cfg[x] >= view[n].cfg[x]
  BY Zenon, <1>2, NoteSenderGood DEF s1, e1
<1>4. /\ s1 \in View /\ m.about \in Nodes /\ m.cfg \in Nat /\ m.cfg <= m.hdr.cur /\ m.hdr.cur \in Nat
      /\ \A x \in Nodes : s1.cfg[x] \in Nat /\ s1.cfg[x] <= e1
  BY Zenon, <1>2, <1>3 DEF Good, GoodMsg, HeaderType, View
<1>5. /\ s2 \in View /\ s2.allSlots = s1.allSlots /\ s2.pfail = s1.pfail /\ s2.fail = s1.fail
      /\ s2.slaveOf = [s1.slaveOf EXCEPT ![m.about] = None]
      /\ s2.cfg = [s1.cfg EXCEPT ![m.about] = m.cfg]
      /\ s1.slaveOf \in [Nodes -> Nodes \cup {None}] /\ s1.cfg \in [Nodes -> Nat]
  BY Zenon, <1>4 DEF clusterSetNodeAsMaster, View
<1> HIDE DEF s2
<1>6. Good(s2, n, e1)
  <2>1. m.cfg <= e1
    BY SMTT(40), <1>3, <1>4
  <2>2. \A x \in Nodes : s2.cfg[x] <= e1
    BY Zenon, <1>4, <1>5, <2>1
  <2>3. s2.slaveOf[n] \in {None, s1.slaveOf[n]} /\ n # None
    BY Zenon, <1>5, Basics
  <2> QED
    BY Zenon, <1>3, <1>5, <2>2, <2>3 DEF Good
<1>7. Good(s3(syncDone), n, e1) /\ s3(syncDone).cfg = s2.cfg
  BY SMTT(40), <1>3, <1>4, <1>6, SlotsConfigGood
<1> HIDE DEF s3
<1>8. Good(s, n, e1) /\ \A x \in Nodes : s.cfg[x] >= view[n].cfg[x]
  <2>1. CASE new
    <3>1. \A x \in Nodes : s2.cfg[x] \in Nat /\ s2.cfg[x] >= s1.cfg[x]
      BY <1>4, <1>5, <2>1
    <3>2. \A x \in Nodes : s2.cfg[x] >= view[n].cfg[x]
      BY <1>3, <1>4, <3>1
    <3> QED
      BY Zenon, <1>7, <2>1, <3>2
  <2>2. CASE ~new
    BY Zenon, <1>3, <2>2
  <2> QED
    BY Zenon, <2>1, <2>2
<1>9. view' = [view EXCEPT ![n] = s]
  BY Zenon, <1>1
<1> HIDE DEF s, new
<1>10. /\ ViewInv'
       /\ \A x \in Nodes : /\ currentEpoch'[x] >= currentEpoch[x]
                           /\ \A y \in Nodes : view'[x].cfg[y] >= view[x].cfg[y]
  BY Zenon, <1>2, <1>3, <1>8, <1>9, ViewStep
<1>11. AuthInv'
  BY Zenon, <1>1, <1>2, <1>10, AuthKept
<1>12. VoteInv' /\ \A x \in Nodes : lastVoteEpoch'[x] >= lastVoteEpoch[x]
  BY Zenon, <1>2, <1>10, VotesKept
<1>13. MsgInv'
  BY Zenon, <1>2, SentGood
<1> QED
  BY Zenon, <1>2, <1>10, <1>11, <1>12, <1>13, Running DEF IInv, EpochsGrow

\* AUTH_REQUEST: a vote is given in an epoch in which this node has not voted.
\* That epoch is the current one, so it is above the epoch of every earlier vote.
LEMMA AuthRequestStep ==
  ASSUME IInv, NEW n \in Nodes, NEW m \in msgs, ReceiveAuthRequest(n, m)
  PROVE  IInv' /\ EpochsGrow
<1> USE Pieces
<1> DEFINE s1 == NoteSender(view[n], m)
           e1 == NotedEpoch(n, m)
<1>1. /\ view' = [view EXCEPT ![n] = s1] /\ currentEpoch' = [currentEpoch EXCEPT ![n] = e1]
      /\ cluster' = cluster /\ UNCHANGED <<up, saved, crashes>> /\ UNCHANGED <<auth, mfStart>>
      /\ m.to = n /\ GoodMsg(m)
      /\ \/ /\ MayVote(s1, n, m, e1)
            /\ lastVoteEpoch' = [lastVoteEpoch EXCEPT ![n] = e1]
            /\ votes' = votes \cup {<<n, e1, m.from>>}
            /\ msgs' = Sent(msgs \ {m}, {AuthAck(s1, n, m.from, e1)})
         \/ /\ msgs' = msgs \ {m}
            /\ UNCHANGED <<lastVoteEpoch, votes>>
  BY Zenon DEF ReceiveAuthRequest, Unmodified
<1> HIDE DEF s1, e1
<1>2. /\ e1 \in Nat /\ e1 >= currentEpoch[n] /\ Good(s1, n, e1)
      /\ \A x \in Nodes : s1.cfg[x] >= view[n].cfg[x]
  BY Zenon, <1>1, NoteSenderGood DEF s1, e1
<1>3. /\ ViewInv'
      /\ \A x \in Nodes : /\ currentEpoch'[x] >= currentEpoch[x]
                          /\ \A y \in Nodes : view'[x].cfg[y] >= view[x].cfg[y]
  BY Zenon, <1>1, <1>2, ViewStep
<1>4. AuthInv'
  BY Zenon, <1>1, <1>3, AuthKept
<1>5. MsgInv'
  <2>1. m.from \in Nodes /\ m.from # n
    BY Zenon, <1>1 DEF GoodMsg
  <2>2. GoodMsg(AuthAck(s1, n, m.from, e1))
    BY Zenon, <1>2, <2>1, MessagesGood
  <2>3. CASE msgs' = msgs \ {m}
    BY Zenon, <1>1, <2>3, SentGood
  <2>4. CASE msgs' = Sent(msgs \ {m}, {AuthAck(s1, n, m.from, e1)})
    <3>1. \A a \in {AuthAck(s1, n, m.from, e1)} : GoodMsg(a)
      BY Zenon, <2>2
    <3>2. \A a \in msgs \ {m} : GoodMsg(a)
      BY Zenon
    <3> QED
      BY SMTT(40), <1>1, <2>4, <3>1, <3>2, SentGood
  <2> QED
    BY Zenon, <1>1, <2>3, <2>4
<1>6. VoteInv' /\ \A x \in Nodes : lastVoteEpoch'[x] >= lastVoteEpoch[x]
  <2>1. CASE UNCHANGED <<lastVoteEpoch, votes>>
    BY Zenon, <1>1, <1>3, <2>1, VotesKept
  <2>2. CASE /\ MayVote(s1, n, m, e1)
             /\ lastVoteEpoch' = [lastVoteEpoch EXCEPT ![n] = e1]
             /\ votes' = votes \cup {<<n, e1, m.from>>}
    <3>1. /\ lastVoteEpoch \in [Nodes -> Nat]
          /\ \A x \in Nodes : lastVoteEpoch[x] <= currentEpoch[x]
          /\ currentEpoch \in [Nodes -> Nat] /\ currentEpoch' \in [Nodes -> Nat]
      BY Zenon, <1>3, SameSetting, <1>1 DEF IInv, VoteInv, ViewInv
    <3>2. lastVoteEpoch[n] < e1
      <4>1. lastVoteEpoch[n] # e1
        BY Zenon, <2>2 DEF MayVote
      <4>2. lastVoteEpoch[n] \in Nat /\ currentEpoch[n] \in Nat /\ lastVoteEpoch[n] <= currentEpoch[n]
        BY Zenon, <3>1
      <4>3. \A a, b, c \in Nat : a <= b /\ c >= b /\ a # c => a < c
        OBVIOUS
      <4> QED
        BY Zenon, <1>2, <4>1, <4>2, <4>3
    <3>3. /\ lastVoteEpoch' \in [Nodes -> Nat]
          /\ \A x \in Nodes : lastVoteEpoch'[x] >= lastVoteEpoch[x]
      BY SMTT(40), <1>2, <2>2, <3>1, <3>2
    <3>4. \A x \in Nodes : lastVoteEpoch'[x] <= currentEpoch'[x]
      <4> TAKE x \in Nodes
      <4>1. CASE x = n
        BY SMTT(40), <1>1, <1>2, <2>2, <3>1, <4>1
      <4>2. CASE x # n
        BY Zenon, <1>1, <2>2, <3>1, <4>2
      <4> QED
        BY Zenon, <4>1, <4>2
    <3>5. ASSUME crashes' = 0
          PROVE  /\ \A v \in votes' : v[1] \in Nodes /\ v[2] \in Nat /\ v[2] <= lastVoteEpoch'[v[1]]
                 /\ OneVotePerEpoch'
      <4>1. /\ \A v \in votes : v[1] \in Nodes /\ v[2] \in Nat /\ v[2] <= lastVoteEpoch[v[1]]
            /\ OneVotePerEpoch
        BY Zenon, <1>1, <3>5 DEF IInv, VoteInv
      <4>2. \A v \in votes : v[2] <= lastVoteEpoch'[v[1]]
        BY SMTT(40), <3>1, <3>3, <4>1
      <4>3. \A v \in votes : ~(v[1] = n /\ v[2] = e1)
        BY <1>2, <3>1, <3>2, <4>1
      <4> DEFINE w == <<n, e1, m.from>>
      <4>4. w[1] = n /\ w[2] = e1 /\ lastVoteEpoch'[n] = e1
        BY Zenon, <2>2, <3>1
      <4>5. votes' = votes \cup {w}
        BY Zenon, <2>2
      <4> HIDE DEF w
      <4>6. OneVotePerEpoch'
        BY <4>1, <4>3, <4>4, <4>5 DEF OneVotePerEpoch
      <4> QED
        BY SMTT(40), <1>2, <4>1, <4>2, <4>4, <4>5, <4>6
    <3> QED
      BY Zenon, <1>1, <3>3, <3>4, <3>5, SameSetting DEF VoteInv
  <2> QED
    BY Zenon, <1>1, <2>1, <2>2
<1> QED
  BY Zenon, <1>1, <1>3, <1>4, <1>5, <1>6, Running DEF IInv, EpochsGrow

\* AUTH_ACK: a vote is counted.
LEMMA AuthAckStep ==
  ASSUME IInv, NEW n \in Nodes, NEW m \in msgs, ReceiveAuthAck(n, m)
  PROVE  IInv' /\ EpochsGrow
<1> USE Pieces
<1> DEFINE s1 == NoteSender(view[n], m)
           e1 == NotedEpoch(n, m)
<1>1. /\ view' = [view EXCEPT ![n] = s1] /\ currentEpoch' = [currentEpoch EXCEPT ![n] = e1]
      /\ cluster' = cluster /\ UNCHANGED <<up, saved, crashes>>
      /\ UNCHANGED <<lastVoteEpoch, votes>> /\ mfStart' = mfStart
      /\ msgs' \subseteq msgs /\ GoodMsg(m)
      /\ auth' = [auth EXCEPT ![n].count = IF IsVoter(s1, m.from) /\ m.hdr.cur >= auth[n].epoch
                                           THEN @ + 1 ELSE @]
  BY Zenon DEF ReceiveAuthAck, Unmodified
<1> HIDE DEF s1, e1
<1>2. /\ e1 \in Nat /\ e1 >= currentEpoch[n] /\ Good(s1, n, e1)
      /\ \A x \in Nodes : s1.cfg[x] >= view[n].cfg[x]
  BY Zenon, <1>1, NoteSenderGood DEF s1, e1
<1>3. /\ ViewInv'
      /\ \A x \in Nodes : /\ currentEpoch'[x] >= currentEpoch[x]
                          /\ \A y \in Nodes : view'[x].cfg[y] >= view[x].cfg[y]
  BY Zenon, <1>1, <1>2, ViewStep
<1>4. AuthInv'
  <2>1. /\ auth \in [Nodes -> AuthType]
        /\ \A x \in Nodes : auth[x].epoch <= currentEpoch[x]
        /\ mfStart \subseteq Nodes
    BY Zenon DEF IInv, AuthInv
  <2>2. currentEpoch \in [Nodes -> Nat] /\ currentEpoch' \in [Nodes -> Nat]
    BY Zenon, <1>1, <1>3, SameSetting DEF IInv, ViewInv
  <2>3. /\ auth' \in [Nodes -> AuthType]
        /\ \A x \in Nodes : auth'[x].epoch = auth[x].epoch
    BY <1>1, <2>1 DEF AuthType
  <2>4. \A x \in Nodes : auth'[x].epoch <= currentEpoch'[x]
    <3>1. \A x \in Nodes : auth[x].epoch \in Nat
      BY Zenon, <2>1 DEF AuthType
    <3> QED
      BY SMTT(40), <1>3, <2>1, <2>2, <2>3, <3>1
  <2> QED
    BY Zenon, <1>1, <2>1, <2>3, <2>4, SameSetting DEF AuthInv
<1>5. VoteInv' /\ \A x \in Nodes : lastVoteEpoch'[x] >= lastVoteEpoch[x]
  BY Zenon, <1>1, <1>3, VotesKept
<1>6. MsgInv'
  BY Zenon, <1>1, SentGood
<1> QED
  BY Zenon, <1>1, <1>3, <1>4, <1>5, <1>6, Running DEF IInv, EpochsGrow

-----------------------------------------------------------------------------
(* The cron thread.                                                        *)

\* The election of one node changes.
LEMMA AuthStep ==
  ASSUME IInv, cluster' = cluster, ViewInv', NEW n \in Nodes, NEW a \in AuthType,
         auth' = [auth EXCEPT ![n] = a], a.epoch <= currentEpoch'[n], mfStart' \subseteq Nodes,
         \A x \in Nodes : currentEpoch'[x] >= currentEpoch[x]
  PROVE  AuthInv'
<1>1. /\ auth \in [Nodes -> AuthType]
      /\ \A x \in Nodes : auth[x].epoch <= currentEpoch[x]
  BY Zenon DEF IInv, AuthInv
<1>2. currentEpoch \in [Nodes -> Nat] /\ currentEpoch' \in [Nodes -> Nat]
  BY Zenon, SameSetting DEF IInv, ViewInv
<1>3. auth' \in [Nodes -> AuthType]
  BY Zenon, <1>1
<1>4. \A x \in Nodes : auth'[x].epoch <= currentEpoch'[x]
  <2> TAKE x \in Nodes
  <2>1. CASE x = n
    BY Zenon, <1>1, <2>1
  <2>2. CASE x # n
    <3>1. auth'[x] = auth[x] /\ auth[x].epoch \in Nat
      BY Zenon, <1>1, <2>2 DEF AuthType
    <3> QED
      BY <1>1, <1>2, <3>1
  <2> QED
    BY Zenon, <2>1, <2>2
<1> QED
  BY Zenon, <1>3, <1>4, SameSetting DEF AuthInv

\* No election, and its epoch.
LEMMA AuthPieces ==
  ASSUME IInv, NEW n \in Nodes
  PROVE  /\ auth \in [Nodes -> AuthType] /\ auth[n] \in AuthType /\ auth[n].epoch \in Nat
         /\ auth[n].epoch <= currentEpoch[n] /\ NoElection \in AuthType /\ NoElection.epoch = 0
  BY Zenon DEF IInv, AuthInv, AuthType, NoElection

\* A node sends, and its view and the epochs stay.
LEMMA SendingStep ==
  ASSUME IInv, NEW n \in Nodes,
         (\E x \in Nodes : SendPing(n, x)) \/ ScheduleElection(n)
  PROVE  IInv' /\ EpochsGrow
<1> USE Pieces
<1> DEFINE pings == {PingMsg("PING", view[n], n, x, currentEpoch[n], FALSE) : x \in Others(n)}
           pongs == clusterBroadcastPong(view[n], n, LocalSlaves(view[n], n), currentEpoch[n])
<1>1. \A x \in pings \cup pongs : GoodMsg(x)
  <2>1. ASSUME NEW x \in Others(n)
        PROVE  /\ GoodMsg(PingMsg("PING", view[n], n, x, currentEpoch[n], FALSE))
               /\ GoodMsg(PingMsg("PONG", view[n], n, x, currentEpoch[n], FALSE))
    <3>1. x \in Nodes /\ x # n
      BY Zenon DEF Others
    <3> QED
      BY Zenon, <3>1, MessagesGood
  <2>2. LocalSlaves(view[n], n) \subseteq Others(n)
    BY Zenon DEF LocalSlaves
  <2> QED
    BY Zenon, <2>1, <2>2 DEF clusterBroadcastPong
<1>2. /\ cluster' = cluster /\ view' = view /\ currentEpoch' = currentEpoch
      /\ UNCHANGED <<up, saved, crashes>> /\ UNCHANGED <<lastVoteEpoch, votes>>
      /\ mfStart' = mfStart
  BY Zenon DEF SendPing, ScheduleElection, Unmodified
<1>3. /\ ViewInv'
      /\ \A x \in Nodes : /\ currentEpoch'[x] >= currentEpoch[x]
                          /\ \A y \in Nodes : view'[x].cfg[y] >= view[x].cfg[y]
  BY Zenon, <1>2, ViewsKept
<1>4. VoteInv' /\ \A x \in Nodes : lastVoteEpoch'[x] >= lastVoteEpoch[x]
  BY Zenon, <1>2, <1>3, VotesKept
<1>5. MsgInv' /\ AuthInv'
  <2>1. CASE \E x \in Nodes : SendPing(n, x)
    <3>1. PICK x \in Nodes : SendPing(n, x)
      BY Zenon, <2>1
    <3>2. /\ msgs' = Sent(msgs, {PingMsg("PING", view[n], n, x, currentEpoch[n], FALSE)})
          /\ auth' = auth
      BY Zenon, <3>1 DEF SendPing
    <3>3. x \in Others(n)
      BY Zenon, <3>1, Basics DEF SendPing, Others
    <3>4. \A a \in {PingMsg("PING", view[n], n, x, currentEpoch[n], FALSE)} : GoodMsg(a)
      BY Zenon, <1>1, <3>3
    <3> HIDE DEF pings, pongs
    <3> QED
      BY ZenonT(40), <1>2, <1>3, <3>2, <3>4, SentGood, AuthKept
  <2>2. CASE ScheduleElection(n)
    <3> DEFINE a == [auth[n] EXCEPT !.phase = "scheduled", !.count = 0]
    <3>1. msgs' = Sent(msgs, pongs) /\ auth' = [auth EXCEPT ![n] = a]
      BY Zenon, <2>2, AuthPieces DEF ScheduleElection, AuthType
    <3>2. a \in AuthType /\ a.epoch = auth[n].epoch
      BY Zenon, AuthPieces DEF AuthType
    <3> HIDE DEF pings, pongs, a
    <3>3. MsgInv'
      BY Zenon, <1>1, <1>2, <3>1, SentGood
    <3>4. AuthInv'
      BY Zenon, <1>2, <1>3, <3>1, <3>2, AuthPieces, AuthStep
    <3> QED
      BY Zenon, <3>3, <3>4
  <2> QED
    BY Zenon, <2>1, <2>2
<1> QED
  BY Zenon, <1>2, <1>3, <1>4, <1>5, Running DEF IInv, EpochsGrow

\* An election is given up, or a manual failover.
LEMMA ExpiryStep ==
  ASSUME IInv, NEW n \in Nodes, ElectionExpires(n) \/ manualFailoverCheckTimeout(n)
  PROVE  IInv' /\ EpochsGrow
<1> USE Pieces
<1>1. /\ cluster' = cluster /\ view' = view /\ currentEpoch' = currentEpoch /\ msgs' = msgs
      /\ UNCHANGED <<up, saved, crashes>> /\ UNCHANGED <<lastVoteEpoch, votes>>
      /\ mfStart' \subseteq mfStart
      /\ auth' = auth \/ auth' = [auth EXCEPT ![n] = NoElection]
  BY Zenon DEF ElectionExpires, manualFailoverCheckTimeout, Unmodified
<1>2. /\ ViewInv'
      /\ \A x \in Nodes : /\ currentEpoch'[x] >= currentEpoch[x]
                          /\ \A y \in Nodes : view'[x].cfg[y] >= view[x].cfg[y]
  BY Zenon, <1>1, ViewsKept
<1>3. VoteInv' /\ \A x \in Nodes : lastVoteEpoch'[x] >= lastVoteEpoch[x]
  BY Zenon, <1>1, <1>2, VotesKept
<1>4. AuthInv'
  <2>1. CASE auth' = auth
    BY Zenon, <1>1, <1>2, <2>1, AuthKept
  <2>2. CASE auth' = [auth EXCEPT ![n] = NoElection]
    <3>1. NoElection.epoch <= currentEpoch'[n]
      BY SMTT(40), <1>1, AuthPieces
    <3> QED
      BY Zenon, <1>1, <1>2, <2>2, <3>1, AuthPieces, AuthStep
  <2> QED
    BY Zenon, <1>1, <2>1, <2>2
<1>5. MsgInv'
  BY Zenon, <1>1, SentGood
<1> QED
  BY Zenon, <1>1, <1>2, <1>3, <1>4, <1>5, Running DEF IInv, EpochsGrow

\* One view changes, but no epoch in it (a node flagged PFAIL, a report that is
\* too old, clusterUpdateState in the cron).
LEMMA FlagStep ==
  ASSUME IInv, NEW n \in Nodes,
         \/ \E x \in Nodes : SetNodePfail(n, x)
         \/ \E x \in Nodes : \E r \in view[n].reports[x] : ReportExpires(n, x, r)
         \/ CronUpdateState(n)
  PROVE  IInv' /\ EpochsGrow
<1> USE Pieces
<1>1. /\ cluster' = cluster /\ currentEpoch' = currentEpoch /\ msgs' = msgs
      /\ UNCHANGED <<up, saved, crashes>> /\ UNCHANGED <<lastVoteEpoch, votes>>
      /\ mfStart' = mfStart /\ auth' = auth
  BY Zenon DEF SetNodePfail, ReportExpires, CronUpdateState, Unmodified
<1>2. \E s : /\ Good(s, n, currentEpoch[n]) /\ s.cfg = view[n].cfg
             /\ view' = [view EXCEPT ![n] = s]
  <2>1. CASE \E x \in Nodes : SetNodePfail(n, x)
    <3>1. PICK x \in Nodes : SetNodePfail(n, x)
      BY Zenon, <2>1
    <3> DEFINE s == [view[n] EXCEPT !.pfail = @ \cup {x}]
    <3>2. view' = [view EXCEPT ![n] = clusterUpdateState(s, n)] /\ x \notin view[n].fail
      BY Zenon, <3>1 DEF SetNodePfail
    <3>3. /\ s \in View /\ s.cfg = view[n].cfg /\ s.slaveOf = view[n].slaveOf
          /\ s.allSlots = view[n].allSlots /\ s.fail = view[n].fail
          /\ s.pfail = view[n].pfail \cup {x}
      BY ZenonT(40) DEF View
    <3> HIDE DEF s
    <3>4. Good(s, n, currentEpoch[n])
      BY SMTT(40), <3>2, <3>3 DEF Good
    <3> DEFINE u == clusterUpdateState(s, n)
    <3>5. Good(u, n, currentEpoch[n]) /\ u.cfg = view[n].cfg /\ view' = [view EXCEPT ![n] = u]
      BY SMTT(40), <3>2, <3>3, <3>4, UpdateStateGood
    <3> HIDE DEF u
    <3> QED
      BY Zenon, <3>5
  <2>2. CASE \E x \in Nodes : \E r \in view[n].reports[x] : ReportExpires(n, x, r)
    <3>1. PICK x \in Nodes : \E r \in view[n].reports[x] : ReportExpires(n, x, r)
      BY Zenon, <2>2
    <3>0. PICK r \in view[n].reports[x] : ReportExpires(n, x, r)
      BY Zenon, <3>1
    <3> DEFINE s == [view[n] EXCEPT !.reports[x] = @ \ {r}]
    <3>2. view' = [view EXCEPT ![n] = s]
      BY Zenon, <3>0 DEF ReportExpires
    <3> DEFINE reports == [view[n].reports EXCEPT ![x] = @ \ {r}]
    <3>5. s = [view[n] EXCEPT !.reports = reports]
      BY Zenon
    <3>6. reports \in [Nodes -> SUBSET Nodes]
      BY SMTT(40) DEF View
    <3> HIDE DEF s, reports
    <3>3. /\ s \in View /\ s.cfg = view[n].cfg /\ s.slaveOf = view[n].slaveOf
          /\ s.allSlots = view[n].allSlots /\ s.fail = view[n].fail /\ s.pfail = view[n].pfail
      BY ZenonT(40), <3>5, <3>6 DEF View
    <3>4. Good(s, n, currentEpoch[n])
      BY Zenon, <3>3 DEF Good
    <3> QED
      BY Zenon, <3>2, <3>3, <3>4
  <2>3. CASE CronUpdateState(n)
    <3>1. PICK fresh \in {FALSE, view[n].fresh} :
            view' = [view EXCEPT ![n] = clusterUpdateState([view[n] EXCEPT !.fresh = fresh], n)]
      BY Zenon, <2>3 DEF CronUpdateState
    <3> DEFINE s == [view[n] EXCEPT !.fresh = fresh]
    <3>2. fresh \in BOOLEAN
      BY Zenon DEF View
    <3>3. /\ s \in View /\ s.cfg = view[n].cfg /\ s.slaveOf = view[n].slaveOf
          /\ s.allSlots = view[n].allSlots /\ s.fail = view[n].fail /\ s.pfail = view[n].pfail
      BY ZenonT(40), <3>2 DEF View
    <3>4. view' = [view EXCEPT ![n] = clusterUpdateState(s, n)]
      BY Zenon, <3>1
    <3> HIDE DEF s
    <3>5. Good(s, n, currentEpoch[n])
      BY Zenon, <3>3 DEF Good
    <3> DEFINE u == clusterUpdateState(s, n)
    <3>6. Good(u, n, currentEpoch[n]) /\ u.cfg = view[n].cfg /\ view' = [view EXCEPT ![n] = u]
      BY Zenon, <3>3, <3>4, <3>5, UpdateStateGood
    <3> HIDE DEF u
    <3> QED
      BY Zenon, <3>6
  <2> QED
    BY Zenon, <2>1, <2>2, <2>3
<1>3. PICK s : /\ Good(s, n, currentEpoch[n]) /\ s.cfg = view[n].cfg
               /\ view' = [view EXCEPT ![n] = s]
  BY Zenon, <1>2
<1>4. /\ currentEpoch' = [currentEpoch EXCEPT ![n] = currentEpoch[n]]
      /\ currentEpoch[n] >= currentEpoch[n] /\ \A x \in Nodes : s.cfg[x] >= view[n].cfg[x]
  BY <1>1, <1>3
<1>5. /\ ViewInv'
      /\ \A x \in Nodes : /\ currentEpoch'[x] >= currentEpoch[x]
                          /\ \A y \in Nodes : view'[x].cfg[y] >= view[x].cfg[y]
  BY Zenon, <1>1, <1>3, <1>4, ViewStep
<1>6. AuthInv'
  BY Zenon, <1>1, <1>5, AuthKept
<1>7. VoteInv' /\ \A x \in Nodes : lastVoteEpoch'[x] >= lastVoteEpoch[x]
  BY Zenon, <1>1, <1>5, VotesKept
<1>8. MsgInv'
  BY Zenon, <1>1, SentGood
<1> QED
  BY Zenon, <1>1, <1>5, <1>6, <1>7, <1>8, Running DEF IInv, EpochsGrow

\* A slave asks for votes, in a new epoch or, when it has one already, in the
\* current one.
LEMMA ElectionStep ==
  ASSUME IInv, NEW n \in Nodes, StartElection(n) \/ IncrEpoch(n) \/ RequestVotes(n)
  PROVE  IInv' /\ EpochsGrow
<1> USE Pieces
<1> DEFINE e == currentEpoch'[n]
           out == clusterRequestFailoverAuth(view[n], n, e)
<1>1. /\ cluster' = cluster /\ UNCHANGED <<up, saved, crashes>>
      /\ UNCHANGED <<lastVoteEpoch, votes>> /\ mfStart' = mfStart
  BY Zenon DEF StartElection, IncrEpoch, RequestVotes, Unmodified
<1>2. /\ e \in Nat /\ e >= currentEpoch[n] /\ currentEpoch' = [currentEpoch EXCEPT ![n] = e]
      /\ view' = view \/ view' = [view EXCEPT ![n] = clusterUpdateState(view[n], n)]
      /\ msgs' = msgs \/ msgs' = Sent(msgs, out)
  BY DEF StartElection, IncrEpoch, RequestVotes
<1>3. \E a \in AuthType : auth' = [auth EXCEPT ![n] = a] /\ a.epoch \in {e, auth[n].epoch}
  <2> DEFINE a1 == [auth[n] EXCEPT !.phase = "sent", !.epoch = e]
             a2 == [auth[n] EXCEPT !.phase = "started", !.epoch = e]
             a3 == [auth[n] EXCEPT !.phase = "sent"]
  <2>1. /\ a1 \in AuthType /\ a2 \in AuthType /\ a3 \in AuthType
        /\ a1.epoch = e /\ a2.epoch = e /\ a3.epoch = auth[n].epoch
    BY ZenonT(40), <1>2, AuthPieces DEF AuthType
  <2>2. CASE StartElection(n)
    <3>1. auth' = [auth EXCEPT ![n] = a1]
      BY Zenon, <2>2, AuthPieces DEF StartElection, AuthType
    <3> QED
      BY Zenon, <2>1, <3>1
  <2>3. CASE IncrEpoch(n)
    <3>1. auth' = [auth EXCEPT ![n] = a2]
      BY Zenon, <2>3, AuthPieces DEF IncrEpoch, AuthType
    <3> QED
      BY Zenon, <2>1, <3>1
  <2>4. CASE RequestVotes(n)
    <3>1. auth' = [auth EXCEPT ![n] = a3]
      BY Zenon, <2>4, AuthPieces DEF RequestVotes, AuthType
    <3> QED
      BY Zenon, <2>1, <3>1
  <2> QED
    BY Zenon, <2>2, <2>3, <2>4
<1> HIDE DEF e, out
<1>4. PICK a \in AuthType : auth' = [auth EXCEPT ![n] = a] /\ a.epoch \in {e, auth[n].epoch}
  BY Zenon, <1>3
<1>5. Good(view[n], n, e)
  BY Zenon, <1>2, LaterEpochGood
<1>6. \E s : /\ Good(s, n, e) /\ view' = [view EXCEPT ![n] = s]
             /\ \A x \in Nodes : s.cfg[x] >= view[n].cfg[x]
  <2>1. CASE view' = view
    BY SMTT(40), <1>5, <2>1
  <2>2. CASE view' = [view EXCEPT ![n] = clusterUpdateState(view[n], n)]
    <3> DEFINE u == clusterUpdateState(view[n], n)
    <3>1. Good(u, n, e) /\ u.cfg = view[n].cfg
      BY SMTT(40), <1>2, <1>5, UpdateStateGood
    <3> HIDE DEF u
    <3>2. \A x \in Nodes : u.cfg[x] >= view[n].cfg[x]
      BY SMTT(40), <3>1
    <3> QED
      BY Zenon, <2>2, <3>1, <3>2 DEF u
  <2> QED
    BY Zenon, <1>2, <2>1, <2>2
<1>7. /\ ViewInv'
      /\ \A x \in Nodes : /\ currentEpoch'[x] >= currentEpoch[x]
                          /\ \A y \in Nodes : view'[x].cfg[y] >= view[x].cfg[y]
  BY Zenon, <1>1, <1>2, <1>6, ViewStep
<1>8. AuthInv'
  <2>1. a.epoch <= currentEpoch'[n]
    BY SMTT(40), <1>2, <1>4, AuthPieces DEF e
  <2> QED
    BY Zenon, <1>1, <1>4, <1>7, <2>1, AuthStep
<1>9. VoteInv' /\ \A x \in Nodes : lastVoteEpoch'[x] >= lastVoteEpoch[x]
  BY Zenon, <1>1, <1>7, VotesKept
<1>10. MsgInv'
  <2>1. \A x \in Others(n) : \A force : GoodMsg(AuthRequest(view[n], n, x, e, force))
    BY Zenon, <1>2, <1>5, MessagesGood DEF Others
  <2>2. \A x \in out : GoodMsg(x)
    BY Zenon, <2>1 DEF out, clusterRequestFailoverAuth
  <2> QED
    BY Zenon, <1>1, <1>2, <2>2, SentGood
<1> QED
  BY Zenon, <1>1, <1>7, <1>8, <1>9, <1>10, Running DEF IInv, EpochsGrow

\* A slave with a good view takes the place of its master
\* (clusterFailoverReplaceYourMaster) and keeps or raises its current epoch.
LEMMA ReplaceStep ==
  ASSUME IInv, NEW n \in Nodes, NEW s, NEW e \in Nat, Good(s, n, e), e >= currentEpoch[n],
         \A x \in Nodes : s.cfg[x] >= view[n].cfg[x], cluster' = cluster,
         currentEpoch' = [currentEpoch EXCEPT ![n] = e], ReplaceYourMaster(n, s, e),
         UNCHANGED <<up, saved, crashes>>, UNCHANGED <<lastVoteEpoch, votes>>
  PROVE  IInv' /\ EpochsGrow
<1> USE Pieces
<1> DEFINE t == clusterFailoverReplaceYourMasterMeta(s, n)
           u == clusterUpdateState(t, n)
           out == clusterBroadcastPong(t, n, Others(n), e)
<1>1. /\ view' = [view EXCEPT ![n] = u] /\ msgs' = Sent(msgs, out)
      /\ mfStart' \subseteq mfStart /\ auth' = [auth EXCEPT ![n] = NoElection]
  BY Zenon DEF ReplaceYourMaster
<1>2. Good(t, n, e) /\ t.cfg = s.cfg
  BY Zenon, ReplaceMetaGood
<1> HIDE DEF t
<1>3. Good(u, n, e) /\ u.cfg = s.cfg
  BY Zenon, <1>2, UpdateStateGood
<1> HIDE DEF u
<1>4. /\ ViewInv'
      /\ \A x \in Nodes : /\ currentEpoch'[x] >= currentEpoch[x]
                          /\ \A y \in Nodes : view'[x].cfg[y] >= view[x].cfg[y]
  BY Zenon, <1>1, <1>3, ViewStep
<1>5. AuthInv'
  <2>1. NoElection.epoch <= currentEpoch'[n]
    BY SMTT(40), AuthPieces
  <2> QED
    BY Zenon, <1>1, <1>4, <2>1, AuthPieces, AuthStep
<1>6. VoteInv' /\ \A x \in Nodes : lastVoteEpoch'[x] >= lastVoteEpoch[x]
  BY Zenon, <1>4, VotesKept
<1>7. MsgInv'
  <2>1. \A x \in Others(n) : GoodMsg(PingMsg("PONG", t, n, x, e, FALSE))
    BY Zenon, <1>2, MessagesGood DEF Others
  <2>2. \A x \in out : GoodMsg(x)
    BY Zenon, <2>1 DEF clusterBroadcastPong
  <2> QED
    BY Zenon, <1>1, <2>2, SentGood
<1> QED
  BY Zenon, <1>4, <1>5, <1>6, <1>7, Running DEF IInv, EpochsGrow

\* The winner takes the epoch of the election, which is not above its current
\* epoch.
LEMMA WinStep ==
  ASSUME IInv, NEW n \in Nodes, WinElection(n)
  PROVE  IInv' /\ EpochsGrow
<1> USE Pieces
<1> DEFINE c == MaxNat(view[n].cfg[n], auth[n].epoch)
           s == [view[n] EXCEPT !.cfg[n] = c]
           e == currentEpoch[n]
<1>1. /\ \/ ReplaceYourMaster(n, s, e)
         \/ view' = [view EXCEPT ![n] = s] /\ UNCHANGED <<msgs, mfStart, auth>>
      /\ cluster' = cluster /\ currentEpoch' = currentEpoch
      /\ UNCHANGED <<up, saved, crashes>> /\ UNCHANGED <<lastVoteEpoch, votes>>
  BY Zenon DEF WinElection, Unmodified
<1>2. c \in Nat /\ c <= e /\ view[n].cfg[n] <= c
  <2>1. view[n].cfg[n] <= e /\ view[n].cfg[n] \in Nat
    BY Zenon DEF Good
  <2> QED
    BY SMTT(40), <2>1, AuthPieces DEF MaxNat
<1> HIDE DEF c
<1>3. Good(s, n, e) /\ \A x \in Nodes : view[n].cfg[x] <= s.cfg[x]
  <2>1. e \in Nat /\ e <= e /\ Good(view[n], n, e)
    OBVIOUS
  <2> HIDE DEF e
  <2> QED
    BY Zenon, <1>2, <2>1, OwnEpochGood
<1>4. /\ \A x \in Nodes : s.cfg[x] >= view[n].cfg[x]
      /\ currentEpoch' = [currentEpoch EXCEPT ![n] = e] /\ e >= currentEpoch[n]
  <2>1. \A x \in Nodes : s.cfg[x] \in Nat
    BY Zenon, <1>3 DEF Good, View
  <2> QED
    BY <1>1, <1>3, <2>1
<1>5. CASE ReplaceYourMaster(n, s, e)
  <2> HIDE DEF s
  <2> QED
    BY Zenon, <1>1, <1>3, <1>4, <1>5, ReplaceStep
<1>6. CASE view' = [view EXCEPT ![n] = s] /\ UNCHANGED <<msgs, mfStart, auth>>
  <2> HIDE DEF s
  <2>1. /\ ViewInv'
        /\ \A x \in Nodes : /\ currentEpoch'[x] >= currentEpoch[x]
                            /\ \A y \in Nodes : view'[x].cfg[y] >= view[x].cfg[y]
    BY Zenon, <1>1, <1>3, <1>4, <1>6, ViewStep
  <2>2. AuthInv'
    BY Zenon, <1>1, <1>6, <2>1, AuthKept
  <2>3. VoteInv' /\ \A x \in Nodes : lastVoteEpoch'[x] >= lastVoteEpoch[x]
    BY Zenon, <1>1, <2>1, VotesKept
  <2>4. MsgInv'
    BY Zenon, <1>1, <1>6, SentGood
  <2> QED
    BY Zenon, <1>1, <2>1, <2>2, <2>3, <2>4, Running DEF IInv, EpochsGrow
<1> QED
  BY Zenon, <1>1, <1>5, <1>6

-----------------------------------------------------------------------------
(* Commands.                                                               *)

\* The new configEpoch is the new current epoch
\* (clusterBumpConfigEpochWithoutConsensus).
LEMMA BumpGood ==
  ASSUME IInv, NEW n \in Nodes
  PROVE  /\ BumpedEpoch(n) \in Nat /\ BumpedEpoch(n) >= currentEpoch[n]
         /\ Good(BumpedView(n), n, BumpedEpoch(n))
         /\ \A x \in Nodes : BumpedView(n).cfg[x] >= view[n].cfg[x]
         /\ BumpedView(n).slaveOf = view[n].slaveOf
<1> USE Pieces
<1> DEFINE e == BumpedEpoch(n)
           s == BumpedView(n)
<1>1. e \in Nat /\ e >= currentEpoch[n] /\ currentEpoch[n] <= e
  BY DEF BumpedEpoch
<1>2. s = view[n] \/ s = [view[n] EXCEPT !.cfg[n] = e]
  BY Zenon DEF BumpedView
<1> HIDE DEF e
<1>3. CASE s = view[n]
  BY <1>1, <1>3, LaterEpochGood DEF e
<1>4. CASE s = [view[n] EXCEPT !.cfg[n] = e]
  <2> DEFINE t == [view[n] EXCEPT !.cfg[n] = e]
  <2>1. view[n].cfg[n] <= currentEpoch[n] /\ view[n].cfg[n] \in Nat
    BY Zenon DEF Good
  <2>2. view[n].cfg[n] <= e
    BY <1>1, <2>1
  <2>3. Good(t, n, e) /\ t.slaveOf = view[n].slaveOf /\ \A x \in Nodes : view[n].cfg[x] <= t.cfg[x]
    <3> DEFINE v == view[n]
               e0 == currentEpoch[n]
    <3>1. /\ e <= e /\ Good(v, n, e0) /\ e0 \in Nat /\ e \in Nat /\ e0 <= e /\ v.cfg[n] <= e
          /\ t = [v EXCEPT !.cfg[n] = e]
      BY <1>1, <2>2
    <3> HIDE DEF s, v, e0, t
    <3>2. Good(t, n, e) /\ t.slaveOf = v.slaveOf /\ \A x \in Nodes : v.cfg[x] <= t.cfg[x]
      BY ONLY n \in Nodes, <3>1, OwnEpochGood
    <3> QED
      BY Zenon, <3>2 DEF v
  <2> HIDE DEF t
  <2>4. \A x \in Nodes : t.cfg[x] >= view[n].cfg[x]
    <3>1. \A x \in Nodes : t.cfg[x] \in Nat
      BY Zenon, <2>3 DEF Good, View
    <3> QED
      BY Zenon, <2>3, <3>1
  <2>5. s = t
    BY Zenon, <1>4 DEF t
  <2> QED
    BY Zenon, <1>1, <2>3, <2>4, <2>5 DEF e
<1> QED
  BY Zenon, <1>2, <1>3, <1>4

\* CLUSTER BUMPEPOCH, CLUSTER FAILOVER FORCE and TAKEOVER, and the end of an
\* import.
LEMMA AdminStep ==
  ASSUME IInv, NEW n \in Nodes, Admin(n)
  PROVE  IInv' /\ EpochsGrow
<1> USE Pieces
<1> DEFINE e == BumpedEpoch(n)
           s == BumpedView(n)
<1>1. /\ cluster' = cluster /\ UNCHANGED <<up, saved, crashes>>
      /\ UNCHANGED <<lastVoteEpoch, votes>>
  BY Zenon DEF Admin, BumpEpoch, forceFailover, Takeover, setSlots, Command
<1>2. /\ e \in Nat /\ e >= currentEpoch[n] /\ Good(s, n, e)
      /\ \A x \in Nodes : s.cfg[x] >= view[n].cfg[x]
      /\ s.slaveOf = view[n].slaveOf
  BY Zenon, BumpGood
<1> HIDE DEF e, s
<1>3. CASE BumpEpoch(n)
  <2>1. /\ view' = [view EXCEPT ![n] = s] /\ currentEpoch' = [currentEpoch EXCEPT ![n] = e]
        /\ auth' = auth /\ mfStart' = mfStart /\ msgs' = msgs
    BY Zenon, <1>3 DEF BumpEpoch, e, s
  <2>2. /\ ViewInv'
        /\ \A x \in Nodes : /\ currentEpoch'[x] >= currentEpoch[x]
                            /\ \A y \in Nodes : view'[x].cfg[y] >= view[x].cfg[y]
    BY Zenon, <1>1, <1>2, <2>1, ViewStep
  <2>3. AuthInv'
    BY Zenon, <1>1, <2>1, <2>2, AuthKept
  <2>4. VoteInv' /\ \A x \in Nodes : lastVoteEpoch'[x] >= lastVoteEpoch[x]
    BY Zenon, <1>1, <2>2, VotesKept
  <2>5. MsgInv'
    BY Zenon, <1>1, <2>1, SentGood
  <2> QED
    BY Zenon, <1>1, <2>2, <2>3, <2>4, <2>5, Running DEF IInv, EpochsGrow
<1>4. CASE forceFailover(n)
  <2>1. /\ view' = view /\ currentEpoch' = currentEpoch
        /\ auth' = auth /\ mfStart' \subseteq Nodes /\ msgs' = msgs
    BY Zenon, <1>4 DEF forceFailover
  <2>2. /\ ViewInv'
        /\ \A x \in Nodes : /\ currentEpoch'[x] >= currentEpoch[x]
                            /\ \A y \in Nodes : view'[x].cfg[y] >= view[x].cfg[y]
    BY Zenon, <1>1, <2>1, ViewsKept
  <2>3. AuthInv'
    BY Zenon, <1>1, <2>1, <2>2, AuthKept
  <2>4. VoteInv' /\ \A x \in Nodes : lastVoteEpoch'[x] >= lastVoteEpoch[x]
    BY Zenon, <1>1, <2>2, VotesKept
  <2>5. MsgInv'
    BY Zenon, <1>1, <2>1, SentGood
  <2> QED
    BY Zenon, <1>1, <2>2, <2>3, <2>4, <2>5, Running DEF IInv, EpochsGrow
<1>5. CASE Takeover(n)
  <2>1. currentEpoch' = [currentEpoch EXCEPT ![n] = e] /\ ReplaceYourMaster(n, s, e)
    BY Zenon, <1>5 DEF Takeover, e, s
  <2> QED
    BY Zenon, <1>1, <1>2, <2>1, ReplaceStep
<1>6. CASE \E j \in Slots : setSlots(n, j)
  <2>1. PICK j \in Slots : setSlots(n, j)
    BY Zenon, <1>6
  <2> DEFINE t == [s EXCEPT !.allSlots[j] = n]
             out == clusterBroadcastPong(t, n, Others(n), e)
  <2>2. /\ view' = [view EXCEPT ![n] = t] /\ currentEpoch' = [currentEpoch EXCEPT ![n] = e]
        /\ msgs' = Sent(msgs, out) /\ auth' = auth /\ mfStart' = mfStart
        /\ view[n].slaveOf[n] = None
    BY Zenon, <2>1 DEF setSlots, e, s, IsMaster
  <2>3. s \in View
    BY Zenon, <1>2 DEF Good
  <2>4. /\ t \in View /\ t.cfg = s.cfg /\ t.slaveOf = s.slaveOf /\ t.pfail = s.pfail
        /\ t.fail = s.fail
    BY Zenon, <2>3 DEF View
  <2> HIDE DEF t
  <2>5. Good(t, n, e)
    BY Zenon, <1>2, <2>2, <2>4 DEF Good
  <2>6. \A x \in Nodes : t.cfg[x] >= view[n].cfg[x]
    BY Zenon, <1>2, <2>4
  <2>7. /\ ViewInv'
        /\ \A x \in Nodes : /\ currentEpoch'[x] >= currentEpoch[x]
                            /\ \A y \in Nodes : view'[x].cfg[y] >= view[x].cfg[y]
    BY Zenon, <1>1, <1>2, <2>2, <2>5, <2>6, ViewStep
  <2>8. AuthInv'
    BY Zenon, <1>1, <2>2, <2>7, AuthKept
  <2>9. VoteInv' /\ \A x \in Nodes : lastVoteEpoch'[x] >= lastVoteEpoch[x]
    BY Zenon, <1>1, <2>7, VotesKept
  <2>10. MsgInv'
    <3>1. \A x \in Others(n) : GoodMsg(PingMsg("PONG", t, n, x, e, FALSE))
      BY Zenon, <1>2, <2>5, MessagesGood DEF Others
    <3>2. \A x \in out : GoodMsg(x)
      BY Zenon, <3>1 DEF clusterBroadcastPong
    <3> QED
      BY Zenon, <1>1, <2>2, <3>2, SentGood
  <2> QED
    BY Zenon, <1>1, <2>7, <2>8, <2>9, <2>10, Running DEF IInv, EpochsGrow
<1> QED
  BY Zenon, <1>3, <1>4, <1>5, <1>6 DEF Admin

-----------------------------------------------------------------------------
(* Saving and restarting.                                                  *)

\* What a good view is saved as.
LEMMA MetaGood ==
  ASSUME NEW n \in Nodes, NEW e, NEW s, Good(s, n, e), NEW x \in Nodes
  PROVE  GoodMeta(Meta(s, x), n, x)
<1>1. /\ s.cfg[x] \in Nat /\ s.slaveOf[x] \in Nodes \cup {None}
      /\ ~(x \in s.pfail /\ x \in s.fail)
      /\ s.slaveOf[n] # n
      /\ s.slaveOf[n] # None => \A j \in Slots : s.allSlots[j] # n
  BY Zenon DEF Good, View
<1> DEFINE r == Meta(s, x)
<1>2. r.cfg = s.cfg[x] /\ r.slots = SlotsOf(s, x) /\ r.slaveOf = s.slaveOf[x]
  BY Zenon DEF Meta
<1>3. (r.pfail <=> x \in s.pfail) /\ (r.fail <=> x \in s.fail)
  BY Zenon DEF Meta
<1>4. SlotsOf(s, x) \subseteq Slots /\ (x = n /\ s.slaveOf[n] # None => SlotsOf(s, x) = {})
  BY Zenon, <1>1 DEF SlotsOf
<1> HIDE DEF r
<1>5. ~(r.pfail /\ r.fail)
  BY Zenon, <1>1, <1>3
<1> QED
  BY Zenon, <1>1, <1>2, <1>4, <1>5 DEF GoodMeta, r

\* What is written about a node is good when the view is, however many of the
\* records are written (clusterSaveMeta).
LEMMA SavedStep ==
  ASSUME IInv, cluster' = cluster, NEW n \in Nodes, NEW written \in SUBSET Nodes,
         crashes < setting.crashes, saved' = SavedWith(n, written)
  PROVE  SavedInv'
<1> USE Pieces
<1> DEFINE f == [x \in Nodes |-> IF x \in written THEN Meta(view[n], x) ELSE saved[n][x]]
<1>1. setting.crashes # 0
  <2>1. crashes \in Nat /\ setting.crashes \in Nat
    BY Zenon, Basics DEF IInv, UpInv
  <2> QED
    BY <2>1
<1>2. /\ DOMAIN saved = Nodes
      /\ \A y \in Nodes : DOMAIN saved[y] = Nodes /\ \A x \in Nodes : GoodMeta(saved[y][x], y, x)
  BY Zenon, <1>1 DEF IInv, SavedInv
<1>3. saved' = [saved EXCEPT ![n] = f]
  BY Zenon DEF SavedWith
<1>4. \A x \in Nodes : GoodMeta(Meta(view[n], x), n, x)
  BY Zenon, MetaGood
<1>5. \A x \in Nodes : GoodMeta(f[x], n, x)
  BY Zenon, <1>2, <1>4
<1> HIDE DEF f
<1>6. DOMAIN f = Nodes
  BY Zenon DEF f
<1>7. /\ DOMAIN saved' = Nodes
      /\ \A y \in Nodes : DOMAIN saved'[y] = Nodes /\ \A x \in Nodes : GoodMeta(saved'[y][x], y, x)
  BY Zenon, <1>2, <1>3, <1>5, <1>6
<1> QED
  BY SMTT(40), <1>7, SameSetting DEF SavedInv, GoodMeta

\* A save, or a crash in the middle of one.
LEMMA CrashStep ==
  ASSUME IInv, NEW n \in Nodes, clusterSaveNodes(n) \/ Crash(n)
  PROVE  IInv' /\ EpochsGrow
<1> USE Pieces
<1>1. /\ cluster' = cluster /\ view' = view /\ currentEpoch' = currentEpoch
      /\ UNCHANGED <<lastVoteEpoch, votes>> /\ auth' = auth /\ mfStart' = mfStart
      /\ crashes < setting.crashes
  BY Zenon DEF clusterSaveNodes, Crash
<1>2. msgs' \subseteq msgs
  BY Zenon DEF clusterSaveNodes, Crash
<1>3. \E written \in SUBSET Nodes : saved' = SavedWith(n, written)
  BY Zenon DEF clusterSaveNodes, Crash
<1>4. SettingInv' /\ SavedInv'
  BY Zenon, <1>1, <1>3, SavedStep DEF IInv, SettingInv
<1>5. UpInv' /\ (crashes' = crashes \/ crashes' # 0)
  <2>1. /\ up \subseteq Nodes /\ crashes \in Nat /\ crashes <= setting.crashes
        /\ (crashes = 0 => up = Nodes \ setting.down) /\ setting.crashes \in Nat
    BY Zenon, Basics DEF IInv, UpInv
  <2>2. CASE clusterSaveNodes(n)
    BY Zenon, <1>1, <2>1, <2>2, SameSetting DEF clusterSaveNodes, UpInv
  <2>3. CASE Crash(n)
    <3>1. up' = up \ {n} /\ crashes' = crashes + 1
      BY Zenon, <2>3 DEF Crash
    <3>2. crashes' \in Nat /\ crashes' # 0 /\ crashes' <= setting.crashes
      BY SMTT(40), <1>1, <2>1, <3>1
    <3> QED
      BY Zenon, <1>1, <2>1, <3>1, <3>2, SameSetting DEF UpInv
  <2> QED
    BY Zenon, <2>2, <2>3
<1>6. /\ ViewInv'
      /\ \A x \in Nodes : /\ currentEpoch'[x] >= currentEpoch[x]
                          /\ \A y \in Nodes : view'[x].cfg[y] >= view[x].cfg[y]
  BY Zenon, <1>1, ViewsKept
<1>7. AuthInv'
  BY Zenon, <1>1, <1>6, AuthKept
<1>8. VoteInv' /\ \A x \in Nodes : lastVoteEpoch'[x] >= lastVoteEpoch[x]
  BY Zenon, <1>1, <1>5, <1>6, VotesKept
<1>9. MsgInv'
  BY Zenon, <1>1, <1>2, SentGood
<1> QED
  BY Zenon, <1>4, <1>5, <1>6, <1>7, <1>8, <1>9 DEF IInv, EpochsGrow

\* A node restarts from its records (initMetaData): its current epoch is the
\* greatest configEpoch in them, and if its own record says that it is a slave it
\* loads no slots for itself.
LEMMA RestartStep ==
  ASSUME IInv, NEW n \in Nodes, Restart(n)
  PROVE  IInv' /\ crashes # 0
<1> USE Pieces
<1>1. /\ up \subseteq Nodes /\ crashes \in Nat /\ crashes <= setting.crashes
      /\ (crashes = 0 => up = Nodes \ setting.down) /\ setting.crashes \in Nat
  BY Zenon, Basics DEF IInv, UpInv
<1>2. crashes # 0 /\ setting.crashes # 0
  <2>1. crashes # 0
    BY Zenon, <1>1 DEF Restart
  <2> QED
    BY <1>1, <2>1
<1> DEFINE metas == saved[n]
           s(owner) == [cfg |-> [x \in Nodes |-> metas[x].cfg],
                 allSlots |-> owner,
                 slaveOf |-> [x \in Nodes |-> metas[x].slaveOf],
                 pfail |-> {x \in Nodes : metas[x].pfail},
                 fail |-> {x \in Nodes : metas[x].fail},
                 reports |-> [x \in Nodes |-> {}], size |-> 1, fresh |-> TRUE]
<1>3. PICK owner \in LoadedSlots(metas) :
         /\ view' = [view EXCEPT ![n] = s(owner)]
         /\ currentEpoch' = [currentEpoch EXCEPT ![n] = MaxOf(s(owner).cfg)]
  BY Zenon DEF Restart
<1>4. /\ cluster' = cluster /\ msgs' = msgs /\ saved' = saved /\ crashes' = crashes
      /\ up' = up \cup {n} /\ lastVoteEpoch' = [lastVoteEpoch EXCEPT ![n] = 0]
      /\ auth' = [auth EXCEPT ![n] = NoElection] /\ mfStart' = mfStart \ {n} /\ votes' = votes
  BY Zenon DEF Restart
<1>5. \A x \in Nodes : GoodMeta(metas[x], n, x)
  BY Zenon, <1>2 DEF IInv, SavedInv
<1>6. /\ owner \in [Slots -> Nodes \cup {None}]
      /\ \A j \in Slots : owner[j] = n => j \in metas[n].slots
  BY Zenon DEF LoadedSlots
<1> HIDE DEF metas
<1> DEFINE t == s(owner)
           e == MaxOf(t.cfg)
<1>7. /\ t.cfg = [x \in Nodes |-> metas[x].cfg] /\ t.allSlots = owner
      /\ t.slaveOf = [x \in Nodes |-> metas[x].slaveOf]
  BY Zenon
<1>8. t.cfg \in [Nodes -> Nat] /\ t.slaveOf \in [Nodes -> Nodes \cup {None}]
  BY Zenon, <1>5 DEF GoodMeta
<1>9. t \in View
  <2>1. /\ [x \in Nodes |-> metas[x].cfg] \in [Nodes -> Nat]
        /\ [x \in Nodes |-> metas[x].slaveOf] \in [Nodes -> Nodes \cup {None}]
    BY Zenon, <1>5 DEF GoodMeta
  <2>2. /\ {x \in Nodes : metas[x].pfail} \in SUBSET Nodes
        /\ {x \in Nodes : metas[x].fail} \in SUBSET Nodes
        /\ [x \in Nodes |-> {}] \in [Nodes -> SUBSET Nodes]
    BY Zenon
  <2> QED
    BY Zenon, <1>6, <2>1, <2>2 DEF View
<1>10. t.pfail \cap t.fail = {}
  BY Zenon, <1>5 DEF GoodMeta
<1> HIDE DEF s
<1>11. e \in Nat /\ \A x \in Nodes : t.cfg[x] <= e
  BY Zenon, <1>8, Basics, MaxOfBounds
<1>12. Good(t, n, e)
  <2>1. /\ metas[n].slaveOf # n
        /\ metas[n].slaveOf # None => metas[n].slots = {}
    BY Zenon, <1>5 DEF GoodMeta
  <2>2. t.slaveOf[n] = metas[n].slaveOf
    BY Zenon, <1>7
  <2>3. t.slaveOf[n] # None => \A j \in Slots : t.allSlots[j] # n
    BY Zenon, <1>6, <1>7, <2>1, <2>2
  <2> HIDE DEF e
  <2> QED
    BY Zenon, <1>9, <1>10, <1>11, <2>1, <2>2, <2>3 DEF Good
<1>13. view' = [view EXCEPT ![n] = t] /\ currentEpoch' = [currentEpoch EXCEPT ![n] = e]
  BY Zenon, <1>3
<1> HIDE DEF t, e
<1>14. ViewInv'
  <2>1. \A x \in Nodes : Good(view[x], x, currentEpoch[x])
    BY Zenon DEF IInv, ViewInv
  <2>2. view' \in [Nodes -> View] /\ currentEpoch' \in [Nodes -> Nat]
    BY Zenon, <1>9, <1>11, <1>13
  <2>3. \A x \in Nodes : Good(view'[x], x, currentEpoch'[x])
    <3> TAKE x \in Nodes
    <3>1. CASE x = n
      BY Zenon, <1>12, <1>13, <3>1
    <3>2. CASE x # n
      BY Zenon, <1>13, <2>1, <3>2
    <3> QED
      BY Zenon, <3>1, <3>2
  <2> QED
    BY Zenon, <1>4, <2>2, <2>3, SameSetting DEF ViewInv, Good
<1>15. AuthInv'
  <2>1. auth' \in [Nodes -> AuthType] /\ auth \in [Nodes -> AuthType]
    BY Zenon, <1>4, AuthPieces
  <2>2. \A x \in Nodes : auth'[x].epoch <= currentEpoch'[x]
    <3> TAKE x \in Nodes
    <3>1. CASE x = n
      BY SMTT(40), <1>4, <1>11, <1>13, <2>1, <3>1, AuthPieces
    <3>2. CASE x # n
      BY Zenon, <1>4, <1>13, <2>1, <3>2, AuthPieces
    <3> QED
      BY Zenon, <3>1, <3>2
  <2> QED
    BY Zenon, <1>4, <2>1, <2>2, SameSetting DEF AuthInv
<1>16. VoteInv'
  <2>1. lastVoteEpoch \in [Nodes -> Nat] /\ \A x \in Nodes : lastVoteEpoch[x] <= currentEpoch[x]
    BY Zenon DEF IInv, VoteInv
  <2>2. lastVoteEpoch' \in [Nodes -> Nat]
    BY Zenon, <1>4, <2>1
  <2>3. \A x \in Nodes : lastVoteEpoch'[x] <= currentEpoch'[x]
    <3> TAKE x \in Nodes
    <3>1. CASE x = n
      BY SMTT(40), <1>4, <1>11, <1>13, <2>1, <3>1
    <3>2. CASE x # n
      BY Zenon, <1>4, <1>13, <2>1, <3>2
    <3> QED
      BY Zenon, <3>1, <3>2
  <2> QED
    BY Zenon, <1>2, <1>4, <2>2, <2>3, SameSetting DEF VoteInv
<1>17. SettingInv' /\ SavedInv' /\ UpInv' /\ MsgInv'
  <2>1. SettingInv' /\ SavedInv'
    BY Zenon, <1>4, SameSetting DEF IInv, SettingInv, SavedInv, GoodMeta
  <2>2. UpInv'
    BY Zenon, <1>1, <1>2, <1>4, SameSetting DEF UpInv
  <2>3. MsgInv'
    BY Zenon, <1>4, SentGood
  <2> QED
    BY Zenon, <2>1, <2>2, <2>3
<1> QED
  BY Zenon, <1>2, <1>14, <1>15, <1>16, <1>17 DEF IInv

-----------------------------------------------------------------------------
(* The invariant.                                                          *)

\* The view a node starts with.
LEMMA InitViewGood ==
  ASSUME SettingInv, NEW n \in Nodes
  PROVE  MaxOf(setting.epochs) \in Nat /\ Good(InitView(n), n, MaxOf(setting.epochs))
<1> USE Basics
<1> DEFINE e == MaxOf(setting.epochs)
           seen == [x \in Nodes |->
                      IF x = n \/ setting.slaveOf[x] = None THEN setting.epochs[x]
                      ELSE MaxNat(setting.epochs[x], setting.epochs[setting.slaveOf[x]])]
           s == [cfg |-> seen, allSlots |-> setting.owner,
                 slaveOf |-> setting.slaveOf, pfail |-> {}, fail |-> setting.fail,
                 reports |-> [m \in Nodes |-> {}], size |-> 1, fresh |-> FALSE]
           c == Cardinality({x \in Nodes : IsVoter(s, x)})
<1>1. e \in Nat /\ \A x \in Nodes : setting.epochs[x] \in Nat /\ setting.epochs[x] <= e
  BY Zenon, MaxOfBounds
<1> HIDE DEF e
<1>2. seen \in [Nodes -> Nat] /\ \A x \in Nodes : seen[x] <= e
  BY Zenon, <1>1 DEF MaxNat
<1> HIDE DEF seen
<1>3. s \in View
  <2>1. setting.owner \in [Slots -> Nodes \cup {None}] /\ [m \in Nodes |-> {}] \in [Nodes -> SUBSET Nodes]
    BY Zenon
  <2> QED
    BY Zenon, <1>2, <2>1 DEF View
<1>4. c \in Nat
  BY Zenon, FS_Subset, FS_CardinalityType
<1> HIDE DEF c
<1>5. InitView(n) = [s EXCEPT !.size = c]
  BY Zenon DEF InitView, c, seen
<1>8. /\ s.cfg = seen /\ s.allSlots = setting.owner /\ s.slaveOf = setting.slaveOf
      /\ s.pfail = {} /\ s.fail = setting.fail
  BY Zenon
<1> DEFINE t == InitView(n)
<1> HIDE DEF s
<1>6. /\ t \in View /\ t.cfg = seen /\ t.allSlots = setting.owner /\ t.slaveOf = setting.slaveOf
      /\ t.pfail = {} /\ t.fail = setting.fail
  BY SMTT(40), <1>3, <1>4, <1>5, <1>8 DEF View
<1> HIDE DEF t
<1>7. Good(t, n, e)
  <2>1. t.slaveOf[n] # n /\ (t.slaveOf[n] # None => \A j \in Slots : t.allSlots[j] # n)
    BY Zenon, <1>6
  <2>2. t.pfail \cap t.fail = {}
    BY Zenon, <1>6
  <2> QED
    BY Zenon, <1>2, <1>6, <2>1, <2>2 DEF Good
<1> QED
  BY Zenon, <1>1, <1>7 DEF e, t

\* It holds at the start.
LEMMA InitIInv ==
  ASSUME Init
  PROVE  IInv
<1>1. SettingInv
  BY Zenon DEF Init, SettingInv
<1> USE <1>1
<1> DEFINE e == MaxOf(setting.epochs)
<1>2. /\ currentEpoch = [n \in Nodes |-> e] /\ view = [n \in Nodes |-> InitView(n)]
      /\ lastVoteEpoch = [n \in Nodes |-> 0] /\ auth = [n \in Nodes |-> NoElection]
      /\ mfStart = {} /\ msgs = {} /\ up = Nodes \ setting.down /\ crashes = 0 /\ votes = {}
      /\ saved = [n \in IF setting.crashes = 0 THEN {} ELSE Nodes |->
                    [x \in Nodes |-> Meta(InitView(n), x)]]
  BY Zenon DEF Init
<1>3. \A n \in Nodes : e \in Nat /\ Good(InitView(n), n, e) /\ InitView(n) \in View
  BY Zenon, InitViewGood DEF Good
<1> HIDE DEF e
<1>4. ViewInv
  BY Zenon, <1>2, <1>3 DEF ViewInv
<1>5. AuthInv
  <2>1. NoElection \in AuthType /\ NoElection.epoch = 0
    BY Zenon DEF NoElection, AuthType
  <2> QED
    BY SMTT(40), <1>2, <1>3, <2>1 DEF AuthInv
<1>6. MsgInv
  BY Zenon, <1>2 DEF MsgInv
<1>7. VoteInv
  BY SMTT(40), <1>2, <1>3 DEF VoteInv, OneVotePerEpoch
<1>8. UpInv
  BY SMTT(40), <1>2, Basics DEF UpInv
<1>9. SavedInv
  <2> SUFFICES ASSUME setting.crashes # 0
               PROVE  /\ DOMAIN saved = Nodes
                      /\ \A n \in Nodes : /\ DOMAIN saved[n] = Nodes
                                          /\ \A x \in Nodes : GoodMeta(saved[n][x], n, x)
    BY Zenon DEF SavedInv
  <2>1. \A n, x \in Nodes : GoodMeta(Meta(InitView(n), x), n, x)
    BY Zenon, <1>3, MetaGood
  <2>2. saved = [n \in Nodes |-> [x \in Nodes |-> Meta(InitView(n), x)]]
    BY Zenon, <1>2
  <2> QED
    BY Zenon, <2>1, <2>2
<1> QED
  BY Zenon, <1>4, <1>5, <1>6, <1>7, <1>8, <1>9 DEF IInv

\* Every step keeps it, and until a node has crashed no step takes an epoch back.
LEMMA NextIInv ==
  ASSUME IInv, [Next]_vars
  PROVE  IInv' /\ (crashes = 0 => EpochsGrow)
<1>1. CASE UNCHANGED vars
  <2>1. /\ cluster' = cluster /\ view' = view /\ currentEpoch' = currentEpoch /\ msgs' = msgs
        /\ UNCHANGED <<up, saved, crashes>> /\ UNCHANGED <<lastVoteEpoch, votes>>
        /\ auth' = auth /\ mfStart' = mfStart
    BY Zenon, <1>1 DEF vars
  <2>2. (\A m \in msgs : GoodMsg(m)) /\ mfStart \subseteq Nodes
    BY Zenon DEF IInv, MsgInv, AuthInv
  <2>3. /\ ViewInv'
        /\ \A x \in Nodes : /\ currentEpoch'[x] >= currentEpoch[x]
                            /\ \A y \in Nodes : view'[x].cfg[y] >= view[x].cfg[y]
    BY Zenon, <2>1, ViewsKept
  <2>4. AuthInv'
    BY Zenon, <2>1, <2>2, <2>3, AuthKept
  <2>5. VoteInv' /\ \A x \in Nodes : lastVoteEpoch'[x] >= lastVoteEpoch[x]
    BY Zenon, <2>1, <2>3, VotesKept
  <2>6. MsgInv'
    BY Zenon, <2>1, <2>2, SentGood
  <2> QED
    BY Zenon, <2>1, <2>3, <2>4, <2>5, <2>6, Running DEF IInv, EpochsGrow
<1>2. CASE Next
  <2>1. PICK n \in Nodes : \/ \E m \in msgs : m.to = n /\ Packet(n, m)
                           \/ Cron(n)
                           \/ Admin(n)
                           \/ Faults(n)
    BY Zenon, <1>2 DEF Next
  <2>2. CASE \E m \in msgs : m.to = n /\ Packet(n, m)
    BY Zenon, <2>2, PingStep, FailStep, UpdateStep, AuthRequestStep, AuthAckStep DEF Packet
  <2>3. CASE Cron(n)
    BY Zenon, <2>3, SendingStep, FlagStep, ElectionStep, ExpiryStep, WinStep DEF Cron
  <2>4. CASE Admin(n)
    BY Zenon, <2>4, AdminStep
  <2>5. CASE Faults(n)
    BY Zenon, <2>5, CrashStep, RestartStep DEF Faults
  <2> QED
    BY Zenon, <2>1, <2>2, <2>3, <2>4, <2>5
<1> QED
  BY Zenon, <1>1, <1>2

\* The inductive invariant holds in every behaviour.
THEOREM Inductive == Spec => []IInv
<1>1. Init => IInv
  BY Zenon, InitIInv
<1>2. IInv /\ [Next]_vars => IInv'
  BY Zenon, NextIInv
<1> QED
  BY <1>1, <1>2, PTL DEF Spec

\* Every variable keeps its type and no node becomes its own master, whatever the
\* packets, commands, crashes and restarts.
THEOREM TypeCorrect == Spec => []TypeOK
<1>1. IInv => TypeOK
  <2> SUFFICES ASSUME IInv PROVE TypeOK
    BY Zenon
  <2>1. ASSUME NEW n \in Nodes
        PROVE  /\ view[n].cfg \in [Nodes -> Nat]
               /\ view[n].allSlots \in [Slots -> Nodes \cup {None}]
               /\ view[n].slaveOf \in [Nodes -> Nodes \cup {None}]
               /\ view[n].slaveOf[n] # n
               /\ view[n].pfail \cap view[n].fail = {}
    BY Zenon DEF IInv, ViewInv, Good, View
  <2>2. ASSUME NEW n \in Nodes
        PROVE  auth[n].phase \in {"none", "scheduled", "started", "sent"}
    BY Zenon, AuthPieces DEF AuthType
  <2> QED
    BY Zenon, <2>1, <2>2 DEF TypeOK, IInv, ViewInv, AuthInv, VoteInv, UpInv
<1> QED
  BY <1>1, Inductive, PTL

\* clusterSendFailoverAuthIfNeeded gives one vote per epoch as long as no node has
\* crashed: in a cluster of any size, with any number of candidates and retries.
THEOREM OneVoteEach == Spec => []OneVoteUntilCrash
<1>1. IInv => OneVoteUntilCrash
  BY Zenon DEF IInv, VoteInv, OneVoteUntilCrash
<1> QED
  BY <1>1, Inductive, PTL

\* No node knows a configEpoch above its current epoch: "Something that should
\* never happen" in initMetaData does not happen.
THEOREM EpochsAreBounded == Spec => []CurrentEpochIsMax
<1>1. IInv => CurrentEpochIsMax
  BY Zenon DEF IInv, ViewInv, UpInv, Good, CurrentEpochIsMax
<1> QED
  BY <1>1, Inductive, PTL

\* The assertion of clusterSetMasterNoLock holds: a slave serves no slot, also
\* after a restart from a save that was cut short.
THEOREM SlavesServeNothing == Spec => []SlaveOwnsNothing
<1>1. IInv => SlaveOwnsNothing
  BY Zenon DEF IInv, ViewInv, UpInv, Good, SlaveOwnsNothing, IsMaster, SlotsOf
<1> QED
  BY <1>1, Inductive, PTL

\* Until a node crashes, no step of any handler takes an epoch back.
THEOREM EpochsMonotone == Spec => EpochsNeverGoBack
<1> DEFINE Kept ==
             crashes = 0 =>
               \A n \in Nodes :
                 /\ currentEpoch'[n] >= currentEpoch[n]
                 /\ lastVoteEpoch'[n] >= lastVoteEpoch[n]
                 /\ view'[n].cfg = view[n].cfg \/ \A x \in Nodes : view'[n].cfg[x] >= view[n].cfg[x]
<1>1. IInv /\ [Next]_vars => [Kept]_vars
  BY Zenon, NextIInv DEF EpochsGrow
<1> QED
  BY <1>1, Inductive, PTL DEF Spec, EpochsNeverGoBack
=============================================================================

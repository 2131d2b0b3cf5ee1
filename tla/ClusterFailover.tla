--------------------------- MODULE ClusterFailover ---------------------------
(***************************************************************************)
(* The cluster bus of novadb (cluster/cluster_manager.cpp): the view every *)
(* node keeps of the cluster, the messages that change it, failure         *)
(* detection, the election of a slave, take-over and slot changes without  *)
(* an election, and the restart of a node from what it saved.              *)
(*                                                                         *)
(* A node is a number; numbers are compared where the code compares node   *)
(* names.  Every node knows every other node (MEET and handshake are over) *)
(* and addresses do not change.  Time is abstract: what happens after a    *)
(* delay may happen at any moment.  One network thread handles all the     *)
(* packets of a node, so one packet is one step; the cron thread and the   *)
(* commands take their steps between packets.                              *)
(***************************************************************************)
EXTENDS Integers, FiniteSets, FiniteSetsExt, Functions

CONSTANT Clusters  \* [name -> a cluster and its surroundings to start from]

(* Every Clusters[name] has these fields.                                  *)
(*   slaveOf   [node -> node or None]: the nodes and their roles           *)
(*   owner     [slot -> node]: the slots and their owners                  *)
(*   epochs    [node -> Nat]: the configEpochs                             *)
(*   arbiters  masters without slots that may vote                         *)
(*   down      nodes that are down for good                                *)
(*   fail      nodes flagged FAIL by every node                            *)
(*   slow      nodes whose answers may come after the node timeout         *)
(*   links     pairs <<n, m>> such that n has a session to m               *)
(*   gossip    the links over which the cron sends PINGs                   *)
(*   late      votes may come after the next election is scheduled         *)
(*   split     packets may come in the middle of the start of an election  *)
(*   maxEpoch  [node -> Nat], bound: it starts no election beyond it     *)
(*   commands  the commands that may be given                              *)
(*   manuals, crashes  bounds: how many commands, how many crashes         *)

None == 0

ASSUME ClustersAreClusters ==
  \A name \in DOMAIN Clusters :
    LET c == Clusters[name]
        N == DOMAIN c.slaveOf
        S == DOMAIN c.owner
    IN  /\ N \subseteq Nat \ {None} /\ IsFiniteSet(N) /\ S \subseteq Nat
        /\ c.slaveOf \in [N -> N \cup {None}] /\ c.owner \in [S -> N]
        /\ \A n \in N : c.slaveOf[n] # n /\ <<n, n>> \notin c.links \cup c.gossip
        /\ \A n \in N, j \in S : c.slaveOf[n] # None => c.owner[j] # n
        /\ c.epochs \in [N -> Nat] /\ c.maxEpoch \in [N -> Nat]
        /\ c.arbiters \cup c.down \cup c.fail \cup c.slow \subseteq N
        /\ c.links \cup c.gossip \subseteq N \X N
        /\ c.manuals \in Nat /\ c.crashes \in Nat

VARIABLES
  cluster,       \* the name of the cluster this is; it never changes
  currentEpoch,  \* [Nodes -> Nat]: _currentEpoch
  lastVoteEpoch, \* [Nodes -> Nat]: _lastVoteEpoch
  view,          \* [Nodes -> View]: what a node thinks of the cluster
  auth,          \* [Nodes -> ...]: the election a slave runs
  mfStart,       \* nodes with _mfEnd set and _mfCanStart
  voted,         \* [Nodes -> SUBSET Nodes]: masters with a vote time
  msgs,          \* messages on their way
  up,            \* nodes that run
  saved,         \* [Nodes -> [Nodes -> Meta]]: the catalog of every node
  manuals, crashes, \* how many commands and crashes so far
  votes, wins,   \* history: votes granted, elections won
  blamed         \* history: <<n, x>> when n has ever flagged x PFAIL

vars == <<cluster, currentEpoch, lastVoteEpoch, view, auth, mfStart, voted, msgs, up,
          saved, manuals, crashes, votes, wins, blamed>>

setting == Clusters[cluster]
Nodes == DOMAIN setting.slaveOf
Slots == DOMAIN setting.owner
Arbiters == setting.arbiters
Links == setting.links

-----------------------------------------------------------------------------
(* A view: config epochs, owner of every slot, master of every node (None  *)
(* for a master), PFAIL and FAIL flags, failure reports, the cached _size. *)
(* fresh: a master that restarted less than CLUSTER_WRITABLE_DELAY ago.    *)

IsMaster(s, n) == s.slaveOf[n] = None

SlotsOf(s, n) == {j \in Slots : s.allSlots[j] = n}

\* A node that counts for the size of the cluster and that may vote.
IsVoter(s, n) == IsMaster(s, n) /\ (SlotsOf(s, n) # {} \/ n \in Arbiters)

\* clusterUpdateState: the size is cached; a fresh master returns before it.
clusterUpdateState(s, me) ==
  IF s.fresh /\ IsMaster(s, me) THEN s
  ELSE [s EXCEPT !.size = Cardinality({n \in Nodes : IsVoter(s, n)})]

\* Mutant: one vote less is enough.
NeededQuorumHalf(s) == s.size \div 2

NeededQuorum(s) == s.size \div 2 + 1

clusterDelNodeSlots(s, n) ==
  [s EXCEPT !.allSlots =
     [j \in Slots |-> IF s.allSlots[j] = n THEN None ELSE s.allSlots[j]]]

clusterSetNodeAsMaster(s, n) == [s EXCEPT !.slaveOf[n] = None]

\* clusterSetMaster; the code asserts that the node serves no slot.
clusterSetMaster(s, me, master) == [s EXCEPT !.slaveOf[me] = master]

\* Mutant: the slave takes the slots and stays a slave.
ReplaceMetaKeepsRole(s, me) ==
  [s EXCEPT !.allSlots = [j \in Slots |->
               IF s.allSlots[j] = s.slaveOf[me] THEN me ELSE s.allSlots[j]]]

\* The slots of the old master go to the slave that replaces it.
clusterFailoverReplaceYourMasterMeta(s, me) ==
  [s EXCEPT !.slaveOf[me] = None,
            !.allSlots = [j \in Slots |->
               IF s.allSlots[j] = s.slaveOf[me] THEN me ELSE s.allSlots[j]]]

\* clusterUpdateSlotsConfigWith: sender claims the slots with epoch.  syncDone
\* says whether a slave has finished its full synchronisation.
clusterUpdateSlotsConfigWith(s, me, sender, epoch, slots, syncDone) ==
  LET curmaster == IF IsMaster(s, me) THEN me ELSE s.slaveOf[me]
      taken == {j \in slots : /\ s.allSlots[j] # sender
                              /\ \/ s.allSlots[j] = None
                                 \/ s.cfg[s.allSlots[j]] < epoch}
      moved == [s EXCEPT !.allSlots =
                  [j \in Slots |-> IF j \in taken THEN sender
                                                  ELSE s.allSlots[j]]]
      upd == clusterUpdateState(moved, me)
      needReconfigure == /\ \E j \in taken : s.allSlots[j] = curmaster
                         /\ SlotsOf(moved, curmaster) = {}
      mayFollow == IsMaster(s, me) \/ curmaster \in s.fail \/ syncDone
  IN  IF sender = me THEN s
      ELSE IF needReconfigure /\ mayFollow THEN clusterSetMaster(upd, me, sender)
      ELSE upd

-----------------------------------------------------------------------------
(* Messages.  A header carries the epochs and the slots of the sender, or  *)
(* of its master when the sender is a slave.                               *)

Header(s, n, epoch) ==
  LET master == IF IsMaster(s, n) THEN n ELSE s.slaveOf[n]
  IN  [cur |-> epoch, cfg |-> s.cfg[master], slots |-> SlotsOf(s, master),
       slaveOf |-> s.slaveOf[n]]

\* PING and PONG carry gossip about the nodes the sender cannot reach.
\* reply: an answer to a PING, which comes over the receiver's own link.
PingMsg(type, s, n, to, epoch, reply) ==
  [type |-> type, from |-> n, to |-> to, hdr |-> Header(s, n, epoch),
   pfail |-> s.pfail, fail |-> s.fail, reply |-> reply]

UpdateMsg(s, n, to, about, epoch) ==
  [type |-> "UPDATE", from |-> n, to |-> to, hdr |-> Header(s, n, epoch),
   about |-> about, cfg |-> s.cfg[about], slots |-> SlotsOf(s, about)]

FailMsg(s, n, to, about, epoch) ==
  [type |-> "FAIL", from |-> n, to |-> to, hdr |-> Header(s, n, epoch),
   about |-> about]

AuthRequest(s, n, to, epoch, force) ==
  [type |-> "AUTH_REQUEST", from |-> n, to |-> to, hdr |-> Header(s, n, epoch),
   force |-> force]

AuthAck(s, n, to, epoch) ==
  [type |-> "AUTH_ACK", from |-> n, to |-> to, hdr |-> Header(s, n, epoch)]

Others(n) == Nodes \ {n}

clusterSendFail(s, n, about, epoch) == {FailMsg(s, n, to, about, epoch) : to \in Others(n)}

clusterBroadcastPong(s, n, targets, epoch) ==
  {PingMsg("PONG", s, n, m, epoch, FALSE) : m \in targets}

\* The other slaves of the sender's master (CLUSTER_BROADCAST_LOCAL_SLAVES).
LocalSlaves(s, n) ==
  {m \in Others(n) : ~IsMaster(s, m) /\ s.slaveOf[m] \in {n, s.slaveOf[n]}}

\* A message that is sent replaces an older one of its kind on the same link,
\* which is then lost with the link.  Nothing goes where there is no session or
\* nobody listens.
Supersedes(a, b) ==
  /\ a.type = b.type /\ a.from = b.from /\ a.to = b.to
  /\ a.type = "FAIL" => a.about = b.about
  /\ a.type = "PONG" => a.reply = b.reply

Sent(net, out) ==
  LET arriving == {a \in out : a.to \in up /\ <<a.from, a.to>> \in Links}
  IN  {b \in net : \A a \in arriving : ~Supersedes(a, b)} \cup arriving

-----------------------------------------------------------------------------
MaxNat(a, b) == IF a >= b THEN a ELSE b

NoElection == [phase |-> "none", epoch |-> 0, count |-> 0]

\* The nodes have exchanged packets: those of a slave carry the configEpoch of
\* its master, so the others have that epoch for it.
InitView(n) ==
  LET seen == [x \in Nodes |->
                 IF x = n \/ setting.slaveOf[x] = None THEN setting.epochs[x]
                 ELSE MaxNat(setting.epochs[x], setting.epochs[setting.slaveOf[x]])]
      s == [cfg |-> seen, allSlots |-> setting.owner,
            slaveOf |-> setting.slaveOf, pfail |-> {}, fail |-> setting.fail,
            reports |-> [m \in Nodes |-> {}], size |-> 1, fresh |-> FALSE]
  IN  [s EXCEPT !.size = Cardinality({x \in Nodes : IsVoter(s, x)})]

\* What clusterSaveNodes writes about a node, one record per node.
Meta(s, x) == [cfg |-> s.cfg[x], slots |-> SlotsOf(s, x),
               slaveOf |-> s.slaveOf[x], pfail |-> x \in s.pfail,
               fail |-> x \in s.fail]

MaxOf(f) == Max({0} \cup {f[x] : x \in DOMAIN f})

Init ==
  /\ cluster \in DOMAIN Clusters
  /\ currentEpoch = [n \in Nodes |-> MaxOf(setting.epochs)]
  /\ lastVoteEpoch = [n \in Nodes |-> 0]
  /\ view = [n \in Nodes |-> InitView(n)]
  /\ auth = [n \in Nodes |-> NoElection]
  /\ mfStart = {}
  /\ voted = [n \in Nodes |-> {}]
  /\ msgs = {}
  /\ up = Nodes \ setting.down
  \* looked at only where a node may crash
  /\ saved = [n \in IF setting.crashes = 0 THEN {} ELSE Nodes |-> [x \in Nodes |-> Meta(InitView(n), x)]]
  /\ manuals = 0
  /\ crashes = 0
  /\ votes = {}
  /\ wins = {}
  /\ blamed = {}

-----------------------------------------------------------------------------
(* What a packet does to the view of its receiver.                         *)

\* Mutants: a configEpoch is taken over whatever it is; the current epoch of the
\* sender is not looked at.
NoteSenderAlways(s, m) == [s EXCEPT !.cfg[m.from] = m.hdr.cfg]

NotedEpochOwn(n, m) == currentEpoch[n]

\* The first part of clusterProcessPacket: the epochs in the header.
NoteSender(s, m) == [s EXCEPT !.cfg[m.from] = MaxNat(@, m.hdr.cfg)]

NotedEpoch(n, m) == MaxNat(currentEpoch[n], m.hdr.cur)

\* A PONG over my own link clears PFAIL.  FAIL goes for a slave or a master
\* without slots at once, for another master when the flag is old.
ClearFailure(s, me, m, old) ==
  LET x == m.from
  IN  IF m.type # "PONG" \/ ~m.reply THEN s
      ELSE IF x \in s.pfail THEN [s EXCEPT !.pfail = @ \ {x}]
      ELSE IF x \in s.fail /\ (~IsMaster(s, x) \/ SlotsOf(s, x) = {}
                               \/ x \in Arbiters \/ old)
           THEN clusterUpdateState([s EXCEPT !.fail = @ \ {x}], me)
      ELSE s

\* The role the sender announces; a master that turned slave loses its slots.
UpdateRole(s, me, m) ==
  LET x == m.from
      gone == IF IsMaster(s, x) THEN clusterDelNodeSlots(s, x) ELSE s
  IN  IF m.hdr.slaveOf = None THEN clusterSetNodeAsMaster(s, x)
      ELSE IF s.slaveOf[x] # m.hdr.slaveOf
           THEN clusterUpdateState(
                  [gone EXCEPT !.slaveOf[x] = m.hdr.slaveOf], me)
      ELSE s

\* The sender, or its master when it is a slave, in the receiver's view.
SenderMaster(s, m) ==
  IF IsMaster(s, m.from) THEN m.from ELSE s.slaveOf[m.from]

DirtySlots(s, m) == SlotsOf(s, SenderMaster(s, m)) # m.hdr.slots

UpdateSlots(s, me, m, syncDone) ==
  IF IsMaster(s, m.from) /\ DirtySlots(s, m)
  THEN clusterUpdateSlotsConfigWith(s, me, m.from, m.hdr.cfg, m.hdr.slots,
                                    syncDone)
  ELSE s

\* The slots a sender claims though a node with a greater configEpoch has them.
Outdated(s, m) ==
  {j \in m.hdr.slots : /\ s.allSlots[j] \notin {m.from, None}
                       /\ s.cfg[s.allSlots[j]] > m.hdr.cfg}

\* dirty was computed before the slots were updated; one UPDATE is sent, about
\* the owner of the first such slot.
clusterSendUpdate(s, me, m, dirty, epoch) ==
  IF dirty /\ Outdated(s, m) # {}
  THEN {UpdateMsg(s, me, m.from, s.allSlots[Min(Outdated(s, m))], epoch)}
  ELSE {}

\* Mutant: nobody gives way.
NeverCollides(s, me, m) == FALSE

\* clusterHandleConfigEpochCollision, with the condition of its caller.
Collides(s, me, m) ==
  /\ IsMaster(s, me) /\ IsMaster(s, m.from)
  /\ m.hdr.cfg = s.cfg[me]
  /\ s.cfg[m.from] = s.cfg[me]
  /\ m.from > me

-----------------------------------------------------------------------------
(* Failure reports.                                                        *)


MayMarkFailing(s, me, x) ==
  /\ x \in s.pfail
  /\ x \notin s.fail
  /\ Cardinality(s.reports[x]) + (IF IsMaster(s, me) THEN 1 ELSE 0)
       >= NeededQuorum(s)

\* clusterProcessGossipSection: a sender that is a master reports the nodes it
\* flags and takes back what it said of the ones it does not flag.  PFAIL nodes
\* are always in the gossip section; picked are the others that are.
Reported(s, me, m, picked) ==
  LET bad == (m.pfail \cup (m.fail \cap picked)) \ {me}
      good == picked \ (m.pfail \cup m.fail)
  IN  IF ~IsMaster(s, m.from) THEN s
      ELSE [s EXCEPT !.reports =
              [x \in Nodes |-> IF x \in bad THEN @[x] \cup {m.from}
                               ELSE IF x \in good THEN @[x] \ {m.from}
                               ELSE @[x]]]

\* The nodes markAsFailingIfNeeded marks: only those just reported.
Failing(s, me, m, picked) ==
  IF ~IsMaster(s, m.from) THEN {}
  ELSE {x \in (m.pfail \cup (m.fail \cap picked)) \ {me} :
          MayMarkFailing(Reported(s, me, m, picked), me, x)}

markAsFailingIfNeeded(s, me, m, picked) ==
  LET r == Reported(s, me, m, picked)
      f == Failing(s, me, m, picked)
  IN  IF f = {} THEN r
      ELSE clusterUpdateState([r EXCEPT !.pfail = @ \ f, !.fail = @ \cup f], me)

\* The picks that make a difference.
GossipPicks(s, m) ==
  SUBSET {x \in Nodes \ {m.from} : x \in m.fail \/ m.from \in s.reports[x]}

-----------------------------------------------------------------------------
(* The handlers of packets.                                                *)

Unmodified == UNCHANGED <<cluster, up, saved, manuals, crashes, blamed>>

\* PING and PONG.  The answer is built before roles and slots are updated.
ReceivePing(n, m) ==
  /\ m.to = n /\ m.type \in {"PING", "PONG"} /\ n \in up
  /\ \E old \in {FALSE, m.from \in view[n].fail},
        syncDone \in {FALSE, ~IsMaster(view[n], n)},
        picked \in GossipPicks(view[n], m) :
       LET s1 == NoteSender(view[n], m)
           e1 == NotedEpoch(n, m)
           s2 == UpdateRole(ClearFailure(s1, n, m, old), n, m)
           dirty == DirtySlots(s2, m)
           s3 == UpdateSlots(s2, n, m, syncDone)
           collides == Collides(s3, n, m)
           e4 == IF collides THEN e1 + 1 ELSE e1
           s4 == IF collides THEN [s3 EXCEPT !.cfg[n] = e4] ELSE s3
           s5 == markAsFailingIfNeeded(s4, n, m, picked)
           pong == IF m.type = "PING"
                   THEN {PingMsg("PONG", s1, n, m.from, e1, TRUE)} ELSE {}
           fails == UNION {clusterSendFail(s5, n, x, e4) : x \in Failing(s4, n, m, picked)}
       IN  /\ view' = [view EXCEPT ![n] = s5]
           /\ currentEpoch' = [currentEpoch EXCEPT ![n] = e4]
           /\ mfStart' = IF s3.slaveOf[n] # s2.slaveOf[n] THEN mfStart \ {n}
                                                          ELSE mfStart
           /\ msgs' = Sent(msgs \ {m},
                           pong \cup clusterSendUpdate(s3, n, m, dirty, e1)
                                \cup fails)
  /\ UNCHANGED <<lastVoteEpoch, auth, voted, votes, wins>>
  /\ Unmodified

ReceiveFail(n, m) ==
  /\ m.to = n /\ m.type = "FAIL" /\ n \in up
  /\ LET s1 == NoteSender(view[n], m)
         failed == [s1 EXCEPT !.fail = @ \cup {m.about},
                              !.pfail = @ \ {m.about}]
     IN  view' = [view EXCEPT ![n] =
           IF m.about = n \/ m.about \in s1.fail THEN s1
           ELSE clusterUpdateState(failed, n)]
  /\ currentEpoch' = [currentEpoch EXCEPT ![n] = NotedEpoch(n, m)]
  /\ msgs' = msgs \ {m}
  /\ UNCHANGED <<lastVoteEpoch, auth, mfStart, voted, votes, wins>>
  /\ Unmodified

ReceiveUpdate(n, m) ==
  /\ m.to = n /\ m.type = "UPDATE" /\ n \in up
  /\ \E syncDone \in {FALSE, ~IsMaster(view[n], n)} :
       LET s1 == NoteSender(view[n], m)
           s2 == [clusterSetNodeAsMaster(s1, m.about)
                    EXCEPT !.cfg[m.about] = m.cfg]
           s3 == clusterUpdateSlotsConfigWith(s2, n, m.about, m.cfg, m.slots,
                                              syncDone)
           new == s1.cfg[m.about] < m.cfg
       IN  /\ view' = [view EXCEPT ![n] = IF new THEN s3 ELSE s1]
           /\ mfStart' = IF new /\ s3.slaveOf[n] # s2.slaveOf[n]
                         THEN mfStart \ {n} ELSE mfStart
  /\ currentEpoch' = [currentEpoch EXCEPT ![n] = NotedEpoch(n, m)]
  /\ msgs' = msgs \ {m}
  /\ UNCHANGED <<lastVoteEpoch, auth, voted, votes, wins>>
  /\ Unmodified

\* Mutant: the epoch of the last vote is not looked at.
MayVoteAgain(s, n, m, epoch) ==
  LET master == s.slaveOf[m.from]
  IN  /\ IsVoter(s, n)
      /\ m.hdr.cur >= epoch
      /\ m.hdr.slaveOf # None
      /\ master # None
      /\ master \in s.fail \/ m.force

\* The checks of clusterSendFailoverAuthIfNeeded that do not depend on time.
\* The master's configEpoch in the request is not looked at.
MayVote(s, n, m, epoch) ==
  LET master == s.slaveOf[m.from]
  IN  /\ IsVoter(s, n)
      /\ m.hdr.cur >= epoch
      /\ lastVoteEpoch[n] # epoch
      /\ m.hdr.slaveOf # None
      /\ master # None
      /\ master \in s.fail \/ m.force
      /\ \A j \in m.hdr.slots : \/ s.allSlots[j] = None
                                \/ s.cfg[s.allSlots[j]] <= m.hdr.cur

\* A master about which a vote was given less than twice the node timeout ago
\* gets no other one: whether it is that long ago is left open.
ReceiveAuthRequest(n, m) ==
  /\ m.to = n /\ m.type = "AUTH_REQUEST" /\ n \in up
  /\ LET s1 == NoteSender(view[n], m)
         e1 == NotedEpoch(n, m)
         master == s1.slaveOf[m.from]
     IN  /\ view' = [view EXCEPT ![n] = s1]
         /\ currentEpoch' = [currentEpoch EXCEPT ![n] = e1]
         /\ \/ /\ MayVote(s1, n, m, e1)
               /\ lastVoteEpoch' = [lastVoteEpoch EXCEPT ![n] = e1]
               /\ voted' = [voted EXCEPT ![n] = @ \cup {master}]
               /\ votes' = votes \cup {<<n, e1, m.from>>}
               /\ msgs' = Sent(msgs \ {m}, {AuthAck(s1, n, m.from, e1)})
            \/ /\ ~MayVote(s1, n, m, e1) \/ master \in voted[n]
               /\ msgs' = msgs \ {m}
               /\ UNCHANGED <<lastVoteEpoch, voted, votes>>
  /\ UNCHANGED <<auth, mfStart, wins>>
  /\ Unmodified

ReceiveAuthAck(n, m) ==
  /\ m.to = n /\ m.type = "AUTH_ACK" /\ n \in up
  /\ LET s1 == NoteSender(view[n], m)
     IN  /\ view' = [view EXCEPT ![n] = s1]
         /\ auth' = [auth EXCEPT ![n].count =
              IF IsVoter(s1, m.from) /\ m.hdr.cur >= auth[n].epoch
              THEN @ + 1 ELSE @]
  /\ currentEpoch' = [currentEpoch EXCEPT ![n] = NotedEpoch(n, m)]
  /\ msgs' = msgs \ {m}
  /\ UNCHANGED <<lastVoteEpoch, mfStart, voted, votes, wins>>
  /\ Unmodified

-----------------------------------------------------------------------------
(* The cron thread (controlRoutine).                                       *)

\* A node is not pinged while its PONG is awaited.
Awaited(n, to) ==
  \E m \in msgs : \/ m.type = "PING" /\ m.from = n /\ m.to = to
                  \/ m.type = "PONG" /\ m.from = to /\ m.to = n /\ m.reply

SendPing(n, to) ==
  /\ n \in up /\ <<n, to>> \in setting.gossip /\ ~Awaited(n, to)
  /\ msgs' = Sent(msgs, {PingMsg("PING", view[n], n, to, currentEpoch[n], FALSE)})
  /\ UNCHANGED <<currentEpoch, lastVoteEpoch, view, auth, mfStart, voted, votes,
                 wins>>
  /\ Unmodified

\* Mutant: a node that is flagged FAIL is flagged PFAIL again.
SetNodePfailTwice(n, x) ==
  /\ n \in up /\ x # n
  /\ x \notin up \/ x \in setting.slow
  /\ x \notin view[n].pfail
  /\ view' = [view EXCEPT ![n].pfail = @ \cup {x}]
  /\ blamed' = blamed \cup {<<n, x>>}
  /\ UNCHANGED <<cluster, currentEpoch, lastVoteEpoch, auth, mfStart, voted, msgs,
                 up, saved, manuals, crashes, votes, wins>>

\* No PONG for longer than the node timeout.
SetNodePfail(n, x) ==
  /\ n \in up /\ x # n
  /\ x \notin up \/ x \in setting.slow
  /\ x \notin view[n].pfail \cup view[n].fail
  /\ view' = [view EXCEPT ![n] =
                clusterUpdateState([view[n] EXCEPT !.pfail = @ \cup {x}], n)]
  /\ blamed' = blamed \cup {<<n, x>>}
  /\ UNCHANGED <<cluster, currentEpoch, lastVoteEpoch, auth, mfStart, voted, msgs,
                 up, saved, manuals, crashes, votes, wins>>

\* clusterNodeCleanupFailureReports: a report is too old.
ReportExpires(n, x, r) ==
  /\ n \in up
  /\ view' = [view EXCEPT ![n].reports[x] = @ \ {r}]
  /\ UNCHANGED <<currentEpoch, lastVoteEpoch, auth, mfStart, voted, msgs, votes,
                 wins>>
  /\ Unmodified

\* While the state of the cluster is FAIL the cron updates it in every round.
\* CLUSTER_WRITABLE_DELAY after a restart may be over.
CronUpdateState(n) ==
  /\ n \in up
  /\ \E fresh \in {FALSE, view[n].fresh} :
       view' = [view EXCEPT ![n] =
                  clusterUpdateState([@ EXCEPT !.fresh = fresh], n)]
  /\ view' # view
  /\ UNCHANGED <<currentEpoch, lastVoteEpoch, auth, mfStart, voted, msgs, votes,
                 wins>>
  /\ Unmodified

\* The preconditions of clusterHandleSlaveFailover.
MayFailover(n) ==
  LET s == view[n]
      master == s.slaveOf[n]
  IN  /\ n \in up /\ ~IsMaster(s, n)
      /\ master \in s.fail \/ n \in mfStart
      /\ SlotsOf(s, master) # {}

\* The retry time is over, or there was no election.  _failoverAuthEpoch keeps
\* its value.
ScheduleElection(n) ==
  /\ MayFailover(n) /\ auth[n].phase # "started"
  /\ auth' = [auth EXCEPT ![n].phase = "scheduled", ![n].count = 0]
  /\ msgs' = Sent(msgs, clusterBroadcastPong(view[n], n, LocalSlaves(view[n], n),
                                             currentEpoch[n]))
  /\ UNCHANGED <<currentEpoch, lastVoteEpoch, view, mfStart, voted, votes, wins>>
  /\ Unmodified

clusterRequestFailoverAuth(s, n, epoch) ==
  {AuthRequest(s, n, to, epoch, n \in mfStart) : to \in Others(n)}

\* Mutant: the election does not start a new epoch.
StartElectionOldEpoch(n) ==
  /\ MayFailover(n) /\ auth[n].phase = "scheduled"
  /\ LET e == currentEpoch[n]
     IN  /\ auth' = [auth EXCEPT ![n].phase = "sent", ![n].epoch = e]
         /\ msgs' = Sent(msgs, clusterRequestFailoverAuth(view[n], n, e))
  /\ view' = [view EXCEPT ![n] = clusterUpdateState(@, n)]
  /\ UNCHANGED <<currentEpoch, lastVoteEpoch, mfStart, voted, votes, wins>>
  /\ Unmodified

\* The delay is over: ask everybody for a vote in a new epoch.
StartElection(n) ==
  /\ MayFailover(n) /\ auth[n].phase = "scheduled"
  /\ currentEpoch[n] < setting.maxEpoch[n]
  /\ LET e == currentEpoch[n] + 1
     IN  /\ currentEpoch' = [currentEpoch EXCEPT ![n] = e]
         /\ auth' = [auth EXCEPT ![n].phase = "sent", ![n].epoch = e]
         /\ msgs' = Sent(msgs, clusterRequestFailoverAuth(view[n], n, e))
  /\ view' = [view EXCEPT ![n] = clusterUpdateState(@, n)]
  /\ UNCHANGED <<lastVoteEpoch, mfStart, voted, votes, wins>>
  /\ Unmodified

\* The same in two parts: packets may come between setFailAuthEpoch and the
\* reading of the epoch that goes into the request.
IncrEpoch(n) ==
  /\ MayFailover(n) /\ auth[n].phase = "scheduled"
  /\ currentEpoch[n] < setting.maxEpoch[n]
  /\ currentEpoch' = [currentEpoch EXCEPT ![n] = @ + 1]
  /\ auth' = [auth EXCEPT ![n].phase = "started",
                          ![n].epoch = currentEpoch[n] + 1]
  /\ UNCHANGED <<lastVoteEpoch, view, mfStart, voted, msgs, votes, wins>>
  /\ Unmodified

RequestVotes(n) ==
  /\ n \in up /\ auth[n].phase = "started"
  /\ auth' = [auth EXCEPT ![n].phase = "sent"]
  /\ msgs' = Sent(msgs, clusterRequestFailoverAuth(view[n], n, currentEpoch[n]))
  /\ view' = [view EXCEPT ![n] = clusterUpdateState(@, n)]
  /\ UNCHANGED <<currentEpoch, lastVoteEpoch, mfStart, voted, votes, wins>>
  /\ Unmodified

ElectionExpires(n) ==
  /\ MayFailover(n) /\ auth[n].phase \in {"scheduled", "sent"}
  /\ auth' = [auth EXCEPT ![n] = NoElection]
  /\ UNCHANGED <<currentEpoch, lastVoteEpoch, view, mfStart, voted, msgs, votes,
                 wins>>
  /\ Unmodified

\* Mutant: the new master tells nobody.
ReplaceYourMasterQuietly(n, s, epoch) ==
  LET s2 == clusterFailoverReplaceYourMasterMeta(s, n)
  IN  /\ view' = [view EXCEPT ![n] = clusterUpdateState(s2, n)]
      /\ mfStart' = mfStart \ {n}
      /\ auth' = [auth EXCEPT ![n] = NoElection]
      /\ UNCHANGED msgs

\* clusterFailoverReplaceYourMaster, when replicationUnSetMaster succeeds: the
\* new master tells everybody.  s is the view with its new configEpoch.
ReplaceYourMaster(n, s, epoch) ==
  LET s2 == clusterFailoverReplaceYourMasterMeta(s, n)
  IN  /\ view' = [view EXCEPT ![n] = clusterUpdateState(s2, n)]
      /\ msgs' = Sent(msgs, clusterBroadcastPong(s2, n, Others(n), epoch))
      /\ mfStart' = mfStart \ {n}
      /\ auth' = [auth EXCEPT ![n] = NoElection]

\* The quorum is reached.  When replicationUnSetMaster fails only the
\* configEpoch has changed, and the next round of the cron tries again.
WinElection(n) ==
  /\ MayFailover(n) /\ auth[n].phase = "sent"
  /\ auth[n].count >= NeededQuorum(view[n])
  /\ LET s == [view[n] EXCEPT !.cfg[n] = MaxNat(@, auth[n].epoch)]
     IN  \/ /\ ReplaceYourMaster(n, s, currentEpoch[n])
            /\ wins' = wins \cup {<<n, auth[n].epoch>>}
         \/ /\ view' = [view EXCEPT ![n] = s]
            /\ UNCHANGED <<msgs, mfStart, auth, wins>>
  /\ UNCHANGED <<currentEpoch, lastVoteEpoch, voted, votes>>
  /\ Unmodified

manualFailoverCheckTimeout(n) ==
  /\ n \in up \cap mfStart
  /\ mfStart' = mfStart \ {n}
  /\ UNCHANGED <<currentEpoch, lastVoteEpoch, view, auth, voted, msgs, votes,
                 wins>>
  /\ Unmodified

-----------------------------------------------------------------------------
(* Commands: CLUSTER FAILOVER FORCE and TAKEOVER, BUMPEPOCH, and the end   *)
(* of an import of slots.                                                  *)

Command(n, name) ==
  /\ n \in up /\ name \in setting.commands /\ manuals < setting.manuals
  /\ manuals' = manuals + 1
  /\ UNCHANGED <<cluster, lastVoteEpoch, voted, up, saved, crashes, votes,
                 wins, blamed>>

\* clusterBumpConfigEpochWithoutConsensus
NeedsBump(n) == LET c == view[n].cfg[n]
                IN  c = 0 \/ c # MaxNat(MaxOf(view[n].cfg), currentEpoch[n])

BumpedEpoch(n) == IF NeedsBump(n) THEN currentEpoch[n] + 1 ELSE currentEpoch[n]

BumpedView(n) ==
  IF NeedsBump(n) THEN [view[n] EXCEPT !.cfg[n] = BumpedEpoch(n)] ELSE view[n]

BumpEpoch(n) ==
  /\ Command(n, "bumpepoch") /\ NeedsBump(n)
  /\ currentEpoch' = [currentEpoch EXCEPT ![n] = BumpedEpoch(n)]
  /\ view' = [view EXCEPT ![n] = BumpedView(n)]
  /\ UNCHANGED <<auth, mfStart, msgs>>

forceFailover(n) ==
  /\ Command(n, "force") /\ ~IsMaster(view[n], n)
  /\ mfStart' = mfStart \cup {n}
  /\ UNCHANGED <<currentEpoch, view, auth, msgs>>

\* (if replicationUnSetMaster fails, this is BumpEpoch)
Takeover(n) ==
  /\ Command(n, "takeover") /\ ~IsMaster(view[n], n)
  /\ currentEpoch' = [currentEpoch EXCEPT ![n] = BumpedEpoch(n)]
  /\ ReplaceYourMaster(n, BumpedView(n), BumpedEpoch(n))

\* setSlots on the importing node, which then bumps its epoch and tells all.
setSlots(n, j) ==
  /\ Command(n, "import") /\ IsMaster(view[n], n) /\ n \notin Arbiters
  /\ view[n].allSlots[j] \notin {n, None}
  /\ LET s == [BumpedView(n) EXCEPT !.allSlots[j] = n]
     IN  /\ view' = [view EXCEPT ![n] = s]
         /\ msgs' = Sent(msgs, clusterBroadcastPong(s, n, Others(n),
                                                    BumpedEpoch(n)))
  /\ currentEpoch' = [currentEpoch EXCEPT ![n] = BumpedEpoch(n)]
  /\ UNCHANGED <<auth, mfStart>>

-----------------------------------------------------------------------------
(* Saving and restarting.                                                  *)

\* clusterSaveMeta writes one record after the other; written are the nodes it
\* got to.
SavedWith(n, written) ==
  [saved EXCEPT ![n] = [x \in Nodes |-> IF x \in written THEN Meta(view[n], x)
                                                         ELSE @[x]]]

clusterSaveNodes(n) ==
  /\ n \in up /\ crashes < setting.crashes
  /\ saved' = SavedWith(n, Nodes)
  /\ UNCHANGED <<cluster, currentEpoch, lastVoteEpoch, view, auth, mfStart, voted,
                 msgs, up, manuals, crashes, votes, wins, blamed>>

\* A crash, perhaps in the middle of a save.
Crash(n) ==
  /\ n \in up /\ crashes < setting.crashes
  /\ crashes' = crashes + 1
  /\ \E written \in SUBSET Nodes : saved' = SavedWith(n, written)
  /\ up' = up \ {n}
  /\ msgs' = {m \in msgs : m.to # n}
  /\ UNCHANGED <<cluster, currentEpoch, lastVoteEpoch, view, auth, mfStart, voted,
                 manuals, votes, wins, blamed>>

\* The slots of the records, in the order of the names: clusterSetSlot stops at
\* the first slot that an earlier node has already.
LoadedSlots(metas) ==
  {owner \in [Slots -> Nodes \cup {None}] :
     \A j \in Slots, x \in Nodes :
       owner[j] = x <=> /\ j \in metas[x].slots
                        /\ \A i \in metas[x].slots :
                             i <= j => owner[i] = None \/ owner[i] >= x}

\* initMetaData: nodes were saved, so it returns before it reads the saved
\* _currentEpoch and _lastVoteEpoch.
Restart(n) ==
  /\ n \notin up /\ n \notin setting.down
  /\ up' = up \cup {n}
  /\ \E owner \in LoadedSlots(saved[n]) :
     LET metas == saved[n]
         s == [cfg |-> [x \in Nodes |-> metas[x].cfg],
               allSlots |-> owner,
               slaveOf |-> [x \in Nodes |-> metas[x].slaveOf],
               pfail |-> {x \in Nodes : metas[x].pfail},
               fail |-> {x \in Nodes : metas[x].fail},
               reports |-> [x \in Nodes |-> {}], size |-> 1, fresh |-> TRUE]
     IN  /\ view' = [view EXCEPT ![n] = s]
         /\ currentEpoch' = [currentEpoch EXCEPT ![n] = MaxOf(s.cfg)]
  /\ lastVoteEpoch' = [lastVoteEpoch EXCEPT ![n] = 0]
  /\ auth' = [auth EXCEPT ![n] = NoElection]
  /\ mfStart' = mfStart \ {n}
  /\ voted' = [voted EXCEPT ![n] = {}]
  /\ UNCHANGED <<cluster, msgs, saved, manuals, crashes, votes, wins, blamed>>

-----------------------------------------------------------------------------
\* The retry time of an election is over before a vote of it arrives: the vote
\* is late.
LateAck(n) == auth[n].phase = "scheduled"

Packet(n, m) ==
  \/ ReceivePing(n, m)
  \/ ReceiveFail(n, m)
  \/ ReceiveUpdate(n, m)
  \/ ReceiveAuthRequest(n, m)
  \/ (LateAck(n) => setting.late) /\ ReceiveAuthAck(n, m)

Cron(n) ==
  \/ \E x \in Nodes : SendPing(n, x)
  \/ \E x \in Nodes : SetNodePfail(n, x)
  \/ \E x \in Nodes : \E r \in view[n].reports[x] : ReportExpires(n, x, r)
  \/ CronUpdateState(n)
  \/ ScheduleElection(n)
  \/ ~setting.split /\ StartElection(n)
  \/ setting.split /\ (IncrEpoch(n) \/ RequestVotes(n))
  \/ ElectionExpires(n)
  \/ WinElection(n)
  \/ manualFailoverCheckTimeout(n)

Admin(n) ==
  \/ BumpEpoch(n)
  \/ forceFailover(n)
  \/ Takeover(n)
  \/ \E j \in Slots : setSlots(n, j)

Faults(n) == clusterSaveNodes(n) \/ Crash(n) \/ Restart(n)

Next ==
  \E n \in Nodes :
    \/ \E m \in msgs : m.to = n /\ Packet(n, m)
    \/ Cron(n)
    \/ Admin(n)
    \/ Faults(n)

Spec == Init /\ [][Next]_vars

\* An election is given up only when no request and no vote is on its way:
\* packets take less than twice the node timeout.
Timely ==
  \A n \in Nodes :
    /\ auth[n].phase # "none" /\ wins' = wins
    /\ auth'[n] # auth[n] /\ auth'[n].phase \in {"none", "scheduled"}
    => /\ auth[n].phase = "sent"
       /\ auth[n].count < NeededQuorum(view[n])
       /\ \A m \in msgs : m.type \in {"AUTH_REQUEST", "AUTH_ACK"}
                           => n \notin {m.from, m.to}

AllSlaves == UNION {{n \in DOMAIN Clusters[c].slaveOf : Clusters[c].slaveOf[n] # None} : c \in DOMAIN Clusters}
AllGossip == UNION {Clusters[c].gossip : c \in DOMAIN Clusters}
Receivers == UNION {{l[2] : l \in Clusters[c].links} : c \in DOMAIN Clusters}

\* Nodes keep pinging, the cron of a slave keeps running, and what arrives is
\* handled: PINGs and PONGs, which keep coming, hold nothing else up.
FairSpec ==
  /\ Init /\ [][Next /\ Timely]_vars
  /\ \A n \in AllSlaves :
       WF_vars(n \in Nodes /\ (ScheduleElection(n) \/ StartElection(n) \/ WinElection(n)))
  /\ \A g \in AllGossip : WF_vars(SendPing(g[1], g[2]))
  /\ \A n \in Receivers, types \in {{"PING", "PONG"}, {"UPDATE", "AUTH_REQUEST", "AUTH_ACK"}} :
       WF_vars(\E m \in msgs : m.to = n /\ m.type \in types /\ Packet(n, m))

-----------------------------------------------------------------------------
(* Properties.                                                             *)

\* Every variable keeps its type; no node is its own master.
TypeOK ==
  /\ currentEpoch \in [Nodes -> Nat]
  /\ lastVoteEpoch \in [Nodes -> Nat]
  /\ \A n \in Nodes :
       /\ view[n].cfg \in [Nodes -> Nat]
       /\ view[n].allSlots \in [Slots -> Nodes \cup {None}]
       /\ view[n].slaveOf \in [Nodes -> Nodes \cup {None}]
       /\ view[n].slaveOf[n] # n
       /\ view[n].pfail \cap view[n].fail = {}
       /\ auth[n].phase \in {"none", "scheduled", "started", "sent"}
  /\ up \subseteq Nodes /\ mfStart \subseteq Nodes

\* clusterSendFailoverAuthIfNeeded, "I already voted for this epoch? Return
\* ASAP": no node votes for two candidates in one epoch.
OneVotePerEpoch ==
  \A v, w \in votes : v[1] = w[1] /\ v[2] = w[2] => v[3] = w[3]

\* The same as long as no node has crashed: a restarted node has forgotten its
\* votes.
OneVoteUntilCrash == crashes = 0 => OneVotePerEpoch

\* The voters at the start.
Voters == {n \in Nodes : setting.slaveOf[n] = None /\ (n \in Range(setting.owner) \/ n \in Arbiters)}

Winners == {w[1] : w \in wins}

\* Elections go as they were meant to.
Undisturbed == ~setting.late /\ ~setting.split /\ crashes = 0

\* clusterHandleSlaveFailover, "Update my configEpoch to the epoch of the
\* election": most of the voters have voted for the winner in that epoch, if
\* votes are not late, no packet comes in the middle of the start of an election
\* and no node has crashed.
WinnerHasMajority ==
  Undisturbed =>
    \A w \in wins :
      2 * Cardinality({v \in Nodes : <<v, w[2], w[1]>> \in votes})
        > Cardinality(Voters)


\* Two nodes that both think they own a slot claim it with different
\* configEpochs, so that the others know whom to follow, while only elections
\* give out configEpochs.
ClaimsAreOrdered ==
  Undisturbed /\ setting.commands \subseteq {"force"} =>
    \A j \in Slots : \A n, x \in {o \in up : view[o].allSlots[j] = o} :
      n # x => view[n].cfg[n] # view[x].cfg[x]

\* initMetaData, "Something that should never happen: currentEpoch smaller than
\* the max epoch found in the nodes configuration", restarts included.
CurrentEpochIsMax ==
  \A n \in up, x \in Nodes : view[n].cfg[x] <= currentEpoch[n]

\* The assertion of clusterSetMasterNoLock: a node that is or becomes a slave
\* serves no slot in its own view, restarts from a save that was cut short
\* included.
SlaveOwnsNothing ==
  \A n \in up : ~IsMaster(view[n], n) => SlotsOf(view[n], n) = {}

\* Until a node restarts, epochs only grow: the current epoch, the epoch of the
\* last vote and, in every view, every configEpoch.
EpochsNeverGoBack ==
  [][crashes = 0 =>
     \A n \in Nodes :
       /\ currentEpoch'[n] >= currentEpoch[n]
       /\ lastVoteEpoch'[n] >= lastVoteEpoch[n]
       /\ view'[n].cfg = view[n].cfg \/ \A x \in Nodes : view'[n].cfg[x] >= view[n].cfg[x]]_vars

\* Nodes that can talk have the same owner for every slot, who is a master.
Agreed ==
  \A l \in Links : \A j \in Slots :
    LET n == l[1]
        x == l[2]
        owner == view[n].allSlots[j]
    IN  owner = view[x].allSlots[j] /\ owner # None /\ IsMaster(view[x], owner)

\* Take-overs and imports give configEpochs without asking anybody, so two nodes
\* may claim a slot with one epoch.  Whatever the order of the packets, gossip,
\* UPDATE messages and clusterHandleConfigEpochCollision lead to agreement.
ViewsConverge == <>[]Agreed

\* A master is down and flagged FAIL; its slave asks for votes, gets them and
\* serves the slots, and the voters learn it.
FailoverHappens ==
  <>[](\A n \in Voters \ setting.fail, j \in Slots :
         view[n].allSlots[j] \notin setting.fail \cup {None})

=============================================================================

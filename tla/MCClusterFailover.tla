-------------------------- MODULE MCClusterFailover --------------------------
(* Clusters for TLC.                                                        *)
EXTENDS ClusterFailover

\* Three masters with a slot each, of which 1 is down and known to be; 4 and 5
\* are its slaves, which can talk with the voters; 4 may try twice.
Election ==
  [slaveOf |-> [n \in 1 .. 5 |-> IF n >= 4 THEN 1 ELSE None],
   owner |-> [j \in 1 .. 3 |-> j],
   epochs |-> [n \in 1 .. 5 |-> IF n >= 4 THEN 0 ELSE n],
   arbiters |-> {}, down |-> {1}, fail |-> {1}, slow |-> {},
   links |-> ({2, 3} \X {4, 5}) \cup ({4, 5} \X {2, 3}), gossip |-> {},
   late |-> FALSE, split |-> FALSE, maxEpoch |-> [n \in 1 .. 5 |-> IF n = 4 THEN 5 ELSE 4],
   commands |-> {}, manuals |-> 0, crashes |-> 0]

\* Two masters with a slot each, an arbiter, and a slave of the first master.
\* The master is down: it has to be suspected, flagged and replaced.
Detect ==
  [slaveOf |-> [n \in 1 .. 4 |-> IF n = 4 THEN 1 ELSE None],
   owner |-> [j \in 1 .. 2 |-> j],
   epochs |-> [n \in 1 .. 4 |-> IF n = 4 THEN 0 ELSE n],
   arbiters |-> {3}, down |-> {1}, fail |-> {}, slow |-> {},
   links |-> {p \in (2 .. 4) \X (2 .. 4) : p[1] # p[2]},
   gossip |-> {<<2, 3>>},
   late |-> FALSE, split |-> FALSE, maxEpoch |-> [n \in 1 .. 4 |-> 4],
   commands |-> {}, manuals |-> 0, crashes |-> 0]

\* The same nodes, all up; the slave is told to replace its master.
Force ==
  [Detect EXCEPT
     !.down = {}, !.epochs = [n \in 1 .. 4 |-> 4 - n],
     !.links = {p \in (1 .. 4) \X (1 .. 4) : p[1] # p[2] /\ 4 \in {p[1], p[2]}},
     !.gossip = {<<4, 1>>}, !.commands = {"force"}, !.manuals = 2]

\* The same nodes; the master is down and everybody knows.
Failover ==
  [Detect EXCEPT
     !.fail = {1},
     !.links = {p \in (2 .. 4) \X (2 .. 4) : p[1] # p[2] /\ 4 \in {p[1], p[2]}},
     !.gossip = {<<2, 4>>}]

\* The same; votes are late and packets come at any moment.
Untimely == [Failover EXCEPT !.late = TRUE, !.split = TRUE, !.gossip = {}]

\* Master 1 with two slots, its slave 2, and master 3 with one slot; commands.
Trio ==
  [slaveOf |-> [n \in 1 .. 3 |-> IF n = 2 THEN 1 ELSE None],
   owner |-> [j \in 1 .. 3 |-> IF j = 3 THEN 3 ELSE 1],
   epochs |-> [n \in 1 .. 3 |-> IF n = 2 THEN 0 ELSE n],
   arbiters |-> {}, down |-> {}, fail |-> {}, slow |-> {},
   links |-> {<<1, 3>>, <<3, 1>>, <<2, 1>>}, gossip |-> {<<1, 3>>},
   late |-> FALSE, split |-> FALSE, maxEpoch |-> [n \in 1 .. 3 |-> 3],
   commands |-> {"bumpepoch", "force", "takeover", "import"},
   manuals |-> 2, crashes |-> 0]

\* The same with a crash; master 1 hears its slave and talks to master 3.
TrioDies == [Trio EXCEPT !.links = {<<1, 3>>, <<2, 1>>}, !.manuals = 1, !.crashes = 1]

\* Master 1 with one slot, cut off from its slaves 2 and 4, which take over or
\* import the slot without an election.
Rivals ==
  [slaveOf |-> [n \in {1, 2, 4} |-> IF n = 1 THEN None ELSE 1],
   owner |-> [j \in {1} |-> 1],
   epochs |-> [n \in {1, 2, 4} |-> IF n = 1 THEN 1 ELSE 0],
   arbiters |-> {}, down |-> {}, fail |-> {}, slow |-> {},
   links |-> {<<2, 4>>, <<4, 2>>}, gossip |-> {<<2, 4>>},
   late |-> FALSE, split |-> FALSE, maxEpoch |-> [n \in {1, 2, 4} |-> 1],
   commands |-> {"takeover", "import"},
   manuals |-> 2, crashes |-> 0]

MCClusters ==
  [Election |-> Election, Detect |-> Detect, Force |-> Force, Untimely |-> Untimely,
   Trio |-> Trio, TrioDies |-> TrioDies]
MCClustersLive == [Failover |-> Failover, Rivals |-> Rivals]

\* A voter restarts during the election.
MCClustersRestart == [Election |-> [Election EXCEPT !.crashes = 1]]

=============================================================================

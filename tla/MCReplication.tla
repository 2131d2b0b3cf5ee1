---------------------------- MODULE MCReplication ----------------------------
(* Small replication groups.                                                  *)
EXTENDS Replication

\* A slave that begins with a full sync; both processes die and come back.
Pair == [masterOf |-> [m |-> "", s |-> "m"], state |-> "CONNECT", writes |-> 2, conns |-> 2, faults |-> 2,
         mortal |-> {"m", "s"}, asked |-> "", lax |-> {}]

\* The master dies and one of two slaves takes over.
Failover == [masterOf |-> [m |-> "", s |-> "m", t |-> "m"], state |-> "CONNECTED", writes |-> 1, conns |-> 2,
             faults |-> 1, mortal |-> {"m"}, asked |-> "", lax |-> {}]

\* A failover on request, with a fault, with a death of the master, and with a
\* second slave.
Manual == [Pair EXCEPT !.state = "CONNECTED", !.faults = 1, !.mortal = {}, !.asked = "s"]
ManualDies == [Manual EXCEPT !.mortal = {"m"}]
ManualTwo == [Manual EXCEPT !.masterOf = Failover.masterOf, !.state = "CONNECT", !.writes = 1, !.conns = 1, !.faults = 0]

MCGroups == [Pair |-> Pair, Failover |-> Failover, Manual |-> Manual, ManualDies |-> ManualDies, ManualTwo |-> ManualTwo]
==============================================================================

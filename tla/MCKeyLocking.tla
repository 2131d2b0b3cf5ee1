---------------------------- MODULE MCKeyLocking ----------------------------
(* Small instances of the lock hierarchy: one store, two keys of one chunk,  *)
(* k1 and k2, and a key of another, k3.  By name k3 is the first.            *)
EXTENDS KeyLocking, TLC

CONSTANTS st, c1, c2, k1, k2, k3, s1, s2, s3

MCTargets == Stores \cup Chunks \cup Keys
MCLocks == Sessions \X (1..MaxChain) \X (1..3)
MCStoreOf == [c \in Chunks |-> st]
MCChunkOf == [k \in Keys |-> IF k = k3 THEN c2 ELSE c1]
MCRank == st :> 0 @@ c1 :> 1 @@ c2 :> 2 @@ k1 :> 2 @@ k2 :> 1 @@ k3 :> 0

\* Commands that name two keys in opposite orders, against a reader that names a
\* key twice, and those that lock whole chunks.
MCWork ==
  s1 :> {getAllKeysLocked(<<k3, k1>>, "X")}
  @@ s2 :> {getAllKeysLocked(<<k1, k3>>, "X")}
  @@ s3 :> {getAllKeysLocked(<<k1, k1>>, "S"), lockChunks(st, <<c1>>), clusterLockMySlots(<<c1>>),
            deleteSlots(st, <<c2>>)}

\* A command on two keys, one that names one of them twice, and a flush.
MCWorkLive ==
  s1 :> {getAllKeysLocked(<<k2, k1>>, "X")}
  @@ s2 :> {getAllKeysLocked(<<k1, k1>>, "X")}
  @@ s3 :> {getDb(st, "X")}

=============================================================================

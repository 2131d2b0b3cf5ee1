CONSTANT Clusters <- MCClustersRestart
SPECIFICATION Spec
INVARIANT OneVotePerEpoch
CHECK_DEADLOCK FALSE

CONSTANT Clusters <- MCClusters
SPECIFICATION Spec
INVARIANTS
  TypeOK
  OneVoteUntilCrash
  WinnerHasMajority
  
  ClaimsAreOrdered
  CurrentEpochIsMax
  SlaveOwnsNothing
PROPERTY EpochsNeverGoBack
CHECK_DEADLOCK FALSE

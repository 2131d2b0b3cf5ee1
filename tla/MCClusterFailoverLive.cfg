CONSTANT Clusters <- MCClustersLive
SPECIFICATION FairSpec
PROPERTIES
  ViewsConverge
  FailoverHappens
CHECK_DEADLOCK FALSE

CONSTANTS
  st = st  c1 = c1  c2 = c2  k1 = k1  k2 = k2  k3 = k3  s1 = s1  s2 = s2  s3 = s3
  Sessions = {s1, s2, s3}
  Stores = {st}
  Chunks = {c1}
  Keys = {k1, k2}
  Locks <- MCLocks
  Targets <- MCTargets
  storeOf <- MCStoreOf
  chunkOf <- MCChunkOf
  rank <- MCRank
  Work <- MCWorkLive
  MaxChain = 2
SPECIFICATION SessFairSpec
INVARIANTS
  Compatible
  ResultMatchesLists
  NoStrandedWaiter
  MapEntryWhileUsed
PROPERTIES
  FirstComeFirstLock
  EveryCommandEnds

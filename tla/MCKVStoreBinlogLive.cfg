SPECIFICATION FairSpec
CONSTANTS
  Workers = {w1, w2}
  Keys = {k1, k2}
  KeepNum = 1
  MaxBinlog = 2
  MaxTxn = 2
PROPERTY
  EveryBinlogBecomesVisible

SPECIFICATION SpecFlushCutShort
CONSTANTS
  Workers = {w1, w2}
  Keys = {k1, k2}
  KeepNum = 1
  MaxBinlog = 3
  MaxTxn = 3
INVARIANT
  FirstBinlogIsFlush

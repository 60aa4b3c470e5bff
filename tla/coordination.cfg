CONSTANTS
  Writers = {w1, w2, w3}
  Workers = {k1, k2}
  NoOne = NoOne
  MaxActive = 4
  LongSnapshots = FALSE
  LongWrites = FALSE
SPECIFICATION FairSpec
INVARIANTS TypeOK CounterCoversWriters CaptureExcludesWrites
PROPERTIES BarrierLifted 

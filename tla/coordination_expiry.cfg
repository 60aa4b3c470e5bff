CONSTANTS
  Writers = {w1}
  Workers = {k1, k2}
  NoOne = NoOne
  MaxActive = 2
  LongSnapshots = TRUE
  LongWrites = TRUE
SPECIFICATION Spec
PROPERTIES ForeignBarrierKept

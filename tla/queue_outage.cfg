SPECIFICATION Spec
CONSTANTS
  d1 = d1
  d2 = d2
  w1 = w1
  w2 = w2
  BatchThread = batch
  MainThread = main
  Jobs = {1,2}
  Devices = {d1, d2}
  Workers = {w1,w2}
  DevOf <- MCDevOf
  kMaxRetries = 1
  MaxEvents <- OutageFaults
CHECK_DEADLOCK FALSE
SYMMETRY Symmetry
INVARIANTS OutageIsReported

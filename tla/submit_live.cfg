SPECIFICATION FairSubmitSpec
CONSTANTS
  w1 = w1
  d1 = d1
  k1 = k1
  BatchThread = batch
  MainThread = main
  Jobs = {1,2}
  Devices = {d1}
  Workers = {w1}
  DevOf <- OneOwner
  kMaxRetries = 1
  MaxEvents <- LiveFaults
  Keys = {k1}
  NoKey = nokey
  KeyOf <- OneKey
  HttpThreads = 2
  Scorable = {1}
CHECK_DEADLOCK FALSE
PROPERTIES
  PollSettles

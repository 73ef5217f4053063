SPECIFICATION FairSpec
CONSTANTS
  d1 = d1
  d2 = d2
  w1 = w1
  w2 = w2
  BatchThread = batch
  MainThread = main
  Jobs = {1,2}
  Devices = {d1, d2}
  Workers = {w1,w2}
  DevOf <- OneOwner
  kMaxRetries = 1
  MaxEvents <- RedisRestart
CHECK_DEADLOCK FALSE
PROPERTIES QueueConsumedAgain

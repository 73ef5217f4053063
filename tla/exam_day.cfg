SPECIFICATION Spec
CONSTANTS
  d1 = d1
  d2 = d2
  t1 = t1
  t2 = t2
  c1 = c1
  c2 = c2
  c3 = c3
  Devices = {d1, d2}
  Threads = {t1, t2}
  Clients = {c1, c2, c3}
  Privileged = {c1, c2}
  MaxQueue = 1
  PresenceLimit = 2
  FallbackLimit = 1
  BatchSize = 2
  MaxBatches = 2
  MaxBeats = 3
  MaxTokens = 2
  Scale = 2
  Unit = 2
  Texts <- MCTexts
  Papers <- MCPapers
  Sheets <- MCSheets
  Workloads <- MCWorkloads
  MaxEvents <- MCMaxEvents
SYMMETRY Perms
CHECK_DEADLOCK FALSE
INVARIANTS
  ExamDayTypeOK
  HeartbeatLedger
  LimiterReleases
  RoomSound
  ScoresAgree

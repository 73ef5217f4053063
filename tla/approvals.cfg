SPECIFICATION Spec
CONSTANTS
  d1 = d1
  d2 = d2
  s1 = s1
  s2 = s2
  t1 = t1
  t2 = t2
  Devices = {d1, d2}
  Servers = {s1, s2}
  Threads = {t1, t2}
  Home <- OneEach
  Nobody = nobody
  Cap = 1
  MaxRequests = 2
  MaxMoves = 2
  MaxEvents <- AnyOne
SYMMETRY Alike
CHECK_DEADLOCK FALSE
INVARIANTS
  ApprovalsTypeOK
  CapKept
  RejectionStands
  ToldIsStored
  OneCleanup

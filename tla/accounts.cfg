SPECIFICATION Spec
CONSTANTS
  u1 = u1
  u2 = u2
  v1 = v1
  t1 = t1
  t2 = t2
  k1 = k1
  p1 = p1
  Users = {u1, u2}
  Servers = {v1}
  Threads = {t1, t2}
  VoucherCodes = {k1}
  Packages = {p1}
  kMaxOtpAttempts = 2
  kLoginFailureLimit = 2
  MaxCodes = 3
  MaxSerial = 4
  MaxUsages = {1, 2}
  Home <- HomeOf
  Workloads <- MCWorkloads
  MaxEvents <- MCMaxEvents
SYMMETRY Perms
INVARIANTS
  VouchersTypeOK
  GuessesBounded
  SuspensionStands
  VoucherLedger

SPECIFICATION StoreSpec
CONSTANTS
  t1 = t1
  t2 = t2
  p1 = p1
  p2 = p2
  k1 = k1
  Threads = {t1, t2}
  NoThread = nothread
  NoExam = noexam
  Keys = {k1}
  NoKey = nokey
  Pdfs = {p1, p2}
  Interval = 1
  Starts <- OwnDatabase
  MaxExam = 2
  MaxToken = 3
  MaxClock = 1
  MaxRequests = 2
  MaxEvents <- NoFailure
SYMMETRY Alike
CHECK_DEADLOCK FALSE
INVARIANTS PdfExists

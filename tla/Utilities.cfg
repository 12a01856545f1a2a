SPECIFICATION Spec
CONSTANTS
  i1 = i1
  i2 = i2
  i3 = i3
  p1 = p1
  p2 = p2
  p3 = p3
  Ids = {i1, i2, i3}
  Stray = Stray
  Callers = {p1, p2, p3}
  Retries = 2
  Absent = Absent
  Nil = Nil
  Count = 3
  MaxHeight = 3
  MaxTime = 3
  MaxTicks = 5
  Word = 8
  MaxRecords = 6
  ChCap = 2
  UpdatesCap = 2
  MaxMetrics = 6
  QueueCap = 2
  BatchCap = 2
SYMMETRY CallerSymmetry
INVARIANTS FaithfulReplyAnswers SameForAll ReadExact ReadsMoveForward AcceptedIsKept
CHECK_DEADLOCK FALSE

\* Three messages, and two channels lost.
CONSTANTS
  m1 = m1
  m2 = m2
  bad = bad
  Messages = {m1, m2, bad}
  Malformed = {bad}
  MaxLosses = 2
SPECIFICATION FairSpec
CHECK_DEADLOCK FALSE
INVARIANTS
  LeavesForAReason
  InOnePlace
  WorkerAndBrokerAgree
  RepeatsNeedLosses
  FirstInOrder
PROPERTIES
  QueueDrains

\* Three messages, of any kind, and one death of the process.
CONSTANTS
  ana = ana
  None = None
  NoValue = NoValue
  Garbage = Garbage
  MaxLog = 3
  MaxCrashes = 1
  Calls <- MCCalls
  Messages <- MCMessages
SPECIFICATION FairSpec
CHECK_DEADLOCK FALSE
INVARIANTS
  SettledBeforeCommitted
  SettledInOrder
  RepeatsNeedCrashes
PROPERTIES
  EveryMessageSettles

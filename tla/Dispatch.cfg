\* Two messages; two deaths of the process or channels lost otherwise.
CONSTANTS
  ana = ana
  None = None
  NoValue = NoValue
  Garbage = Garbage
  MaxLog = 2
  MaxCrashes = 2
  MaxLosses = 2
  Calls <- MCCalls
  Messages <- MCMessages
SPECIFICATION FairDispatch
CHECK_DEADLOCK FALSE
INVARIANTS
  ProcessedIsBacked
  RepeatsAreBounded
  EventsInOrder
PROPERTIES
  EventReachesCustomer

\* Two events, two requests, two signals.
CONSTANTS
  e1 = e1
  e2 = e2
  r1 = r1
  r2 = r2
  Events = {e1, e2}
  Requests = {r1, r2}
  MaxSignals = 2
SPECIFICATION FairSpec
CHECK_DEADLOCK FALSE
INVARIANTS
  EventsFinish
  LeftOpenForAReason
  WorkMeetsResources
PROPERTIES
  BootAndShutdownEnd

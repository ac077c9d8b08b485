\* Two requests of any kind.
CONSTANTS
  r1 = r1
  r2 = r2
  None = None
  Requests = {r1, r2}
SPECIFICATION FairSpec
CHECK_DEADLOCK FALSE
INVARIANTS
  AnsweredOnce
  RefusedMeansUnchanged
  SuccessMeansDone
PROPERTIES
  EveryRequestAnswered

\* Four notifications, saved before or during the reading.
CONSTANTS
  n1 = n1
  n2 = n2
  n3 = n3
  n4 = n4
  None = None
  Notifications = {n1, n2, n3, n4}
  PageParams <- FewPages
  LimitParams <- FewLimits
SPECIFICATION Spec
CHECK_DEADLOCK FALSE
SYMMETRY Symmetry
INVARIANTS
  ShortPageIsLast
  TotalIsLastUnlessRaced

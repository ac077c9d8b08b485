\* Three edits, and an index that may come late.
CONSTANTS
  c1 = c1
  c2 = c2
  c3 = c3
  u1 = u1
  u2 = u2
  d1 = d1
  d2 = d2
  d3 = d3
  None = None
  Calls = {c1, c2, c3}
  Customers = {u1, u2}
  Bodies <- FewBodies
  Ids = {d1, d2, d3}
SPECIFICATION Spec
CHECK_DEADLOCK FALSE
SYMMETRY Symmetry
INVARIANTS
  OneDocument
  AnswerShowsEdit
PROPERTIES
  ImplementsStore

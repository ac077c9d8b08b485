\* Two POSTs against a seed run, edits and deletions, under fairness.
CONSTANTS
  p1 = p1
  p2 = p2
  s1 = s1
  t1 = t1
  t2 = t2
  welcome = welcome
  receipt = receipt
  None = None
  Posts = {p1, p2}
  Seeders = {s1}
  ObjectIds = {t1, t2}
  Names = {welcome, receipt}
  Texts = {"default"}
  Defaults <- MCDefaults
SPECIFICATION FairSpec
CHECK_DEADLOCK FALSE
INVARIANTS
  NamesAreUnique
  SeedCovers
PROPERTIES
  SeedExits

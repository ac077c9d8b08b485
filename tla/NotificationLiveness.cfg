\* The same host with fewer inputs, under fairness and without symmetry.
CONSTANTS
  c1 = c1
  c2 = c2
  n1 = n1
  n2 = n2
  ana = ana
  welcome = welcome
  None = None
  Calls = {c1, c2}
  ObjectIds = {n1, n2}
  Customers = {ana}
  TemplateNames = {welcome}
  Texts <- MCTexts
  Vars = {"name"}
  Values = {"Ann"}
  Needs <- MCNeeds
  TemplateDocs <- MCOneTemplateDoc
  PreferenceDocs <- MCOnePreferenceDoc
  Requests <- MCFewRequests
  HostConnects = TRUE
SPECIFICATION FairSpec
PROPERTIES
  EveryCallSettles
  SavedIsDispatched

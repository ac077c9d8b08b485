\* src/server.ts as it is: it never connects the publisher.
CONSTANTS
  c1 = c1
  c2 = c2
  n1 = n1
  n2 = n2
  ana = ana
  welcome = welcome
  None = None
  Calls = {c1}
  ObjectIds = {n1}
  Customers = {ana}
  TemplateNames = {welcome}
  Texts <- MCTexts
  Vars = {"name"}
  Values = {"Ann"}
  Needs <- MCNeeds
  TemplateDocs <- MCTemplateDocs
  PreferenceDocs <- MCPreferenceDocs
  Requests <- MCFewRequests
  HostConnects = FALSE
SPECIFICATION FairSpec
PROPERTIES
  SavedIsAccountedFor

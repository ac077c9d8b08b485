\* Two calls of a host that connects the publisher, as IRabbitMQPublisher asks.
CONSTANTS
  c1 = c1
  c2 = c2
  n1 = n1
  n2 = n2
  ana = ana
  welcome = welcome
  None = None
  Calls = {c1, c2}
  ObjectIds = {n1, n2}
  Customers = {ana}
  TemplateNames = {welcome}
  Texts <- MCTexts
  Vars = {"name"}
  Values = {"Ann"}
  Needs <- MCNeeds
  TemplateDocs <- MCTemplateDocs
  PreferenceDocs <- MCPreferenceDocs
  Requests <- MCRequests
  HostConnects = TRUE
SPECIFICATION Spec
SYMMETRY Symmetry
INVARIANTS
  TypeOK
  SavedBeforeQueued
  AtMostOnce
  AnswerIsTruthful
  OptOutRespected
  OneActiveTemplate
PROPERTIES
  ReadIsFinal
  ImplementsContract

SPECIFICATION Spec
CONSTANTS
  r1 = r1
  r2 = r2
  r3 = r3
  a = a
  b = b
  p1 = p1
  none = none
  NoValue = none
  NoRequest = NoRequest
  NoEntity = 0
  Requests = {r1, r2}
  Entities = {1}
  Families = {"person"}
  Refs = {}
  Paths = {p1}
  Values = {a, b}
  Sources = {"manual", "api"}
  Schemas <- OneSchema
  BatchLimit = 1
  MaxVersions = 3
  MaxRevisions = 1
  MaxConflicts = 1
PROPERTY ResolutionIsFinal

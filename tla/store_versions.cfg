SPECIFICATION Spec
CONSTANTS
  r1 = r1
  r2 = r2
  r3 = r3
  a = a
  b = b
  p1 = p1
  none = none
  NoValue = none
  NoRequest = NoRequest
  NoEntity = 0
  Requests = {r1, r2}
  Entities = {1}
  Families = {"person"}
  Refs = {}
  Paths = {"name", "phone"}
  Values = {a, b}
  Sources = {"manual", "hris", "api"}
  Schemas <- TwoSchemas
  BatchLimit = 1
  MaxVersions = 2
  MaxRevisions = 2
  MaxConflicts = 1
SYMMETRY RequestSymmetry
INVARIANT TypeOK
INVARIANT LoadedIsCurrent
INVARIANT VersionsAnnounced
INVARIANT AuthorityNeverWeakens
INVARIANT UpgradeValidated

SPECIFICATION Spec
CONSTANTS
  a1 = a1
  a2 = a2
  a3 = a3
  Admins = {a1, a2}
  Families = {"f1"}
  Keys = {"hr/person", "hr/staff"}
  Schemas = {"s1", "s2", "bad"}
  Publishable = {"s1", "s2"}
  NoAdmin = NoAdmin
  NoKey = NoKey
  NoFamily = NoFamily
  MaxRevisions = 2
  MaxSaves = 2
PROPERTY OnlyUnpublishedDeleted
CHECK_DEADLOCK FALSE

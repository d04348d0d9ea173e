SPECIFICATION Spec
CONSTANTS
    fa = fa
    fb = fb
    none = none
    Families = {fa}
    NoFamily = none
    Created = {}
    Requests = {1, 2}
    MaxVersion <- ManyVersions
    MaxRevisions <- NoRevision
PROPERTY NoBlindOverwrite
PROPERTY Settles

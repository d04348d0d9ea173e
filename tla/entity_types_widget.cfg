SPECIFICATION Spec
CONSTANTS
    fa = fa
    fb = fb
    none = none
    Families = {fa, fb}
    NoFamily = none
    Created = {fa, fb}
    Requests = {1, 2}
    MaxVersion <- TwoVersions
    MaxRevisions <- TwoRevisions
INVARIANT TypeOK
INVARIANT ShownUnlessStrayed
INVARIANT RowsUnlessStrayed

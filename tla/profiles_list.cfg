SPECIFICATION Spec
CONSTANTS
    p1 = p1
    p2 = p2
    none = none
    q1 = q1
    q2 = q2
    noQuery = noQuery
    r1 = r1
    r2 = r2
    noRequest = noRequest
    Profiles = {p1, p2}
    NoProfile = none
    Queries = {q1, q2}
    NoQuery = noQuery
    PageSize = 2
    Requests = {r1, r2}
    NoRequest = noRequest
INVARIANT TypeOK
INVARIANT OneQueryUnlessOutdated
INVARIANT SelectedIsListed
INVARIANT LoaderIsAwaited
SYMMETRY ListSymmetry

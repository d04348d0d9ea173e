SPECIFICATION Spec
CONSTANTS
    e = e
    d = d
    broken = broken
    noText = noText
    t1 = t1
    t2 = t2
    noType = noType
    Calls = {1, 2}
    Signals = {1, 2}
    NoSignal = 0
    Replies = {"200", "409"}
    Documents = {e, d}
    Empty = e
    Broken = broken
    NoText = noText
    Types = {t1, t2}
    NoType = noType
    Preferred = t1
    Published = {t1}
INVARIANT TypeOK
INVARIANT NoListenerLeft
INVARIANT AnswerIsTheServers
INVARIANT SchemaIsOfChosenType
INVARIANT LoaderIsAwaited
PROPERTY SwitchKeepsDocument
INVARIANT AbortReleases
CHECK_DEADLOCK FALSE

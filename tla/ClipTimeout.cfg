SPECIFICATION FairSpec
CONSTANTS
    v1 = v1
    v2 = v2
    Values = {v1, v2}
    Oversized = {}
    Garbage = Garbage
    None = None
    LocalCopies <- TextCopies
    RemoteFormats <- TextLists
    InitialPrefs = "Text"
    Wiring = "any"
    SlowServer = TRUE
    OWN_WRITES_KEPT = 1
    MaxCopies = 2
    MaxToggles = 1
PROPERTY FetchEnds
CHECK_DEADLOCK FALSE

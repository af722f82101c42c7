SPECIFICATION Spec
CONSTANTS
    v1 = v1
    v2 = v2
    Values = {v1, v2}
    Oversized = {}
    Garbage = Garbage
    None = None
    LocalCopies <- MixedCopies
    RemoteFormats <- MixedLists
    InitialPrefs = "TextAndImages"
    Wiring = "app"
    SlowServer = FALSE
    OWN_WRITES_KEPT = 1
    MaxCopies = 2
    MaxToggles = 1
INVARIANT OffersAreCurrent
PROPERTY WrittenIsAnnounced
CHECK_DEADLOCK FALSE

SPECIFICATION Spec
CONSTANTS
    Profiles = {p1}
    NoProfile = NoProfile
    Autoconnect = NoProfile
    Commands = {"Connect", "Reconnect", "Toggle", "Close", "Quit"}
    EventKinds = {"Connected"}
    ActorsEnd = FALSE
    Callers = "any"
    MaxWindows = 2
    MaxActors = 2
    MaxEvents = 1
    MaxToggles = 1
INVARIANT EndedExactlyOnce
INVARIANT ResourcesMatchSessions
CHECK_DEADLOCK FALSE

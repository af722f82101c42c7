SPECIFICATION Spec
CONSTANTS
    Profiles = {p1}
    NoProfile = NoProfile
    Autoconnect = p1
    Commands = {"Connect", "Close"}
    EventKinds = {"Connected"}
    ActorsEnd = FALSE
    Callers = "app"
    MaxWindows = 3
    MaxActors = 3
    MaxEvents = 0
    MaxToggles = 0
INVARIANT OneSessionPerProfile
CHECK_DEADLOCK FALSE

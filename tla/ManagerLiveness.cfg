SPECIFICATION FairSpec
CONSTANTS
    Profiles = {p1}
    NoProfile = NoProfile
    Autoconnect = NoProfile
    Commands = {"Connect", "Answer", "Close", "Delete", "Quit", "DockQuit"}
    EventKinds = {"Connecting", "Connected", "Failed", "Prompt"}
    ActorsEnd = TRUE
    Callers = "app"
    MaxWindows = 1
    MaxActors = 1
    MaxEvents = 2
    MaxToggles = 0
INVARIANT ShownIsCurrent
PROPERTY CloseCompletes
PROPERTY QuitCompletes
CHECK_DEADLOCK FALSE

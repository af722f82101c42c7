SPECIFICATION MCSpec
CONSTANTS
    w1 = w1
    w2 = w2
    Windows = {w1}
    DEFAULT_DEBOUNCE = 1
    MaxTime = 1
    MaxQueue = 1
    MaxGeneration = 1
    PumpWindows = {w1, w2}
    PumpPrefs <- MCPumpPrefs
    MaxCopies = 2
    MaxActors = 2
    Nothing = Nothing
    Torn = Torn
    Newer = Newer
    Closed = Closed
    p1 = p1
    p2 = p2
    Ids = {p1, p2}
    Modes = {"RemoteLogin", "Headless"}
    Names = {"short"}
    Passwords = {"pw"}
    Updates <- MCUpdates
    Certs = {c1}
    WindowFrames = {f1}
    MaxCommands = 3
    MaxPins = 1
    MaxFaults = 0
    ShellWindows = {1, 2}
    ShellScreens = {"Live", "Reconnecting", "Error"}
    Unset = Unset
    MaxReports = 0
    MaxClicks = 0
    MaxPending = 1
INVARIANT CertificateIsRemembered
CHECK_DEADLOCK FALSE

SPECIFICATION Spec
CONSTANTS
    MAX_REDIRECTS = 1
    max_attempts = 1
    Mode = "Headless"
    Certs = {c1}
    NoCert = NoCert
    ProfilePin = c1
    Kinds = {"Show", "Hide", "ReconnectNow", "Cancel", "NetworkUp"}
    Errors = {"Reset", "HostUnreach"}
    MaxSends = 4
INVARIANT RetriesAreBounded
INVARIANT VisibilityFollowsApp
CHECK_DEADLOCK FALSE

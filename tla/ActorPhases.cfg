SPECIFICATION FairSpec
CONSTANTS
    MAX_REDIRECTS = 1
    max_attempts = 1
    Mode = "RemoteLogin"
    Certs = {c1, c2}
    NoCert = NoCert
    ProfilePin = NoCert
    Kinds = {"Close", "Accept", "Reject", "ReconnectNow", "NetworkUp", "NetworkDown"}
    Errors = {"Reset", "RdstlsAuthFailed"}
    MaxSends = 3
INVARIANT TypeOK
INVARIANT CredentialsOnlyToTrusted
INVARIANT StateIsTruthful
INVARIANT WaitsOnlyForNetwork
PROPERTY CloseEndsActor
PROPERTY BackoffEnds
CHECK_DEADLOCK FALSE

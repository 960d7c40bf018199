\* Two daemons, started, crashing, signalled and stopped at any step; two clients.
SPECIFICATION FairSpec
CONSTANTS
    Daemon = {"d1", "d2"}
    Client = {"a", "b"}
    None = None
    Settings <- MCSettings
    Profile <- MCProfile
    Faults = {"sql", "crash"}
    MaxStarts = 2
INVARIANTS RightServer
PROPERTIES ClientSettles

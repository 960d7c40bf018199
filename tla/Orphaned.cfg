\* A second start that is signalled while it dials removes the socket file of the
\* daemon that listens.
SPECIFICATION Spec
CONSTANTS
    Daemon = {"d1", "d2"}
    Client = {"a"}
    None = None
    Settings <- MCSettings
    Profile <- MCProfile
    Faults = {}
    MaxStarts = 1
INVARIANTS Reachable

CONSTANTS
    Session = {"s1"}
    File = {1, 2}
    Existing = {1}
    External = External
    MaxVersions = 2
    MaxExternal = 0
    MaxFaults = 0
    MaxCrashes = 1
SPECIFICATION Spec
INVARIANTS AllOrNothing
CHECK_DEADLOCK FALSE

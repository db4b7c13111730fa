CONSTANTS
    Session = {"s1", "s2"}
    File = {1, 2}
    Existing = {1}
    External = External
    MaxVersions = 2
    MaxExternal = 1
    MaxFaults = 1
    MaxCrashes = 2
SPECIFICATION Spec
INVARIANTS TypeOK WriteAhead FailedCommitRestores NoLockCycle
PROPERTIES NoLostUpdate CommitDurable
CHECK_DEADLOCK FALSE

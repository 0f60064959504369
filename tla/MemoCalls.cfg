SPECIFICATION FairSpec
CONSTANTS
    Sources = {1, 2}
    Contents = {"a", "b", "long"}
    SizeOf <- MCSize
    Sets <- AfterOthers
    Gone = Gone
    None = None
    MaxTime = 3
    FreshTimes = TRUE
    DiskFills = TRUE
INVARIANTS
    ResultIsCanonical
PROPERTIES
    Memoised

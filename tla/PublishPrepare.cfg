CONSTANTS
    Langs = {"python", "ruby", "r", "go", "zig"}
    VendorMode <- MCVendorMode
    Ships = {"python", "ruby"}
    FfiDependent = {"go"}
    Members = {"core", "util"}
    Deps <- MCDeps
    WorkspaceLock = TRUE
    Selections <- MCSelections
    CallFlags <- MCCallFlags
    Attempts = 3
    MaxFaults = 1
    MaxRestores = 1
    NoLock = NoLock
    None = None
SPECIFICATION FairSpec
INVARIANTS
    ReadyIsShippable
PROPERTIES
    GivesUpLate
    Ends
CHECK_DEADLOCK FALSE

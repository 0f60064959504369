CONSTANTS
    Kinds = {"build", "test", "setup", "clean", "update", "test_apps"}
    List <- MCList
    Cmds <- MCCmds
    E2eCmds <- MCE2eCmds
    Rust = "rust"
    Ffi = "ffi"
    FfiDependent = {"go"}
    Workers = 2
    None = None
SPECIFICATION FairSpec
INVARIANTS
    OkIsComplete
    FailureIsTheFirst
    BuildsOnFfi
    ServedThroughout
PROPERTIES
    OrphanDies
    Ends
CHECK_DEADLOCK FALSE

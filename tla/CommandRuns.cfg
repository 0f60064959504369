SPECIFICATION CallSpec
CONSTANTS
    Modes = {"inherit", "inherit_timed", "streamed", "streamed_timed", "captured", "captured_timed", "snippet"}
    Scripts <- AnyScript
    Room = 1
INVARIANTS
    OkIsComplete
    VerdictIsTheCommands
PROPERTIES
    NeverStarved
    Returns
CHECK_DEADLOCK FALSE

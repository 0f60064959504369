SPECIFICATION Spec
CONSTANTS
    Crates = {1, 2}
    Files = {1, 2, 3, 5, 6}
    From <- MCFrom
    Of <- MCOf
    Soft = {2}
    Headered = {5, 6}
    Replaced = {}
    Emits <- MCEmits
    Keeps <- MCKeeps
    TwoSets = {2}
    MaxVersion = 1
    MaxEdits = 1
    MaxFaults = 1
    BumpAll = FALSE
    None = None
INVARIANTS
    TypeOK
    SyncedAgree
    AppsFollow
    SecondGenerateSettles
PROPERTIES
    SilentInAgreement

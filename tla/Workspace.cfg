SPECIFICATION Spec
CONSTANTS
    Langs <- Both
    Sources <- MCSources
    Configs = {1, 2}
    Apis = {1, 2, 3, 4}
    Hashes <- MCHashes
    Paths <- MCPaths
    Dirs <- MCDirs
    Api <- MCApiOf
    SourcesHash <- MCHashOf
    Outputs <- MCOutputs
    Aux <- MCAux
    Scaffold <- MCScaffold
    Dir <- MCDir
    Above <- MCAbove
    PackageDirs <- MCPackageDirs
    TsRoots = {}
    CleanupProtected = {}
    SweepSkipped = {}
    Marked <- MCMarked
    Phrased <- MCMarked
    Restyled = {}
    Scanned <- MCPaths
    InitDisk <- MCInitDisk
    NoFile = NoFile
    NoStamp = NoStamp
    None = None
    Crates = {1, 2}
    LangsOf <- MCLangsOf
    SourcesOf <- MCSourcesOf
    ScaffoldOf <- MCScaffoldOf
    Gone = Gone
    MaxEdits = 3
    MaxFaults = 1
INVARIANTS
    WholeRunVerifies
    WholeCleanRunComplete
    PassedIsCurrent
PROPERTIES
    OthersSpared

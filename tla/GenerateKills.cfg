SPECIFICATION Spec
CONSTANTS
    Langs <- BothLangs
    Sources = {1, 2}
    Configs = {1}
    Apis = {1, 2}
    Hashes = {11, 12}
    Paths <- MCPaths
    Dirs <- MCDirs
    Api <- MCApiOf
    SourcesHash <- MCHashOf
    Outputs <- MCOutputs
    Aux <- MCAux
    Scaffold <- MCScaffold
    Dir <- MCDir
    Above <- MCAbove
    PackageDirs <- MCPackageDirs
    TsRoots = {}
    CleanupProtected = {"node_modules"}
    SweepSkipped = {"node_modules"}
    Marked <- MCMarked
    Phrased <- MCPhrased
    Restyled = {"b_mod"}
    Scanned <- MCScanned
    InitDisk <- MCInitDisk
    NoFile = NoFile
    NoStamp = NoStamp
    None = None
    Orders = {1}
    MaxEdits = 1
    Restores = TRUE
    Diffs = TRUE
    LiveEdits = FALSE
    MaxFaults = 2
INVARIANTS
    CleanRunRepairs
    RegeneratedCurrent

    

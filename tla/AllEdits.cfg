SPECIFICATION Spec
CONSTANTS
    Langs <- BothLangs
    Sources = {1, 2}
    Configs = {1}
    Apis = {1, 2}
    Hashes = {11, 12}
    Paths <- MCPaths
    Dirs <- MCDirs
    Api <- MCApiOf
    SourcesHash <- MCHashOf
    Outputs <- MCOutputs
    Aux <- MCAux
    Scaffold = {}
    Dir <- MCDir
    Above <- MCAbove
    PackageDirs <- MCPackageDirs
    TsRoots = {}
    CleanupProtected = {"test_apps", "app_node"}
    SweepSkipped = {}
    Marked <- MCMarked
    Phrased <- MCPhrased
    Restyled = {"node_mod", "py_test"}
    Scanned <- MCPaths
    InitDisk <- MCInitDisk
    NoFile = NoFile
    NoStamp = NoStamp
    None = None
    Fixtures = {1, 2}
    StageFiles <- MCStageFiles
    HostPages = {"cli_page"}
    Seeds = {"poly"}
    PostBuilt = {"py_mod"}
    DocsDir = "docs"
    SuiteDir <- MCSuiteDir
    SuiteLangDir <- MCSuiteLangDir
    Orders = {1}
    Commands <- AllCommands
    Filters = FALSE
    Hosts = {TRUE, FALSE}
    Cleans = {FALSE}
    Restores = FALSE
    HandEdits = FALSE
    MaxEdits = 2
    MaxFaults = 0
INVARIANTS
    TypeOK
    SuiteRecordsCurrent
    VerifyCleanAfterAll
PROPERTIES
    SuitesSurvive
    PagesSurvive

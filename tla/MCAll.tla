-------------------------------- MODULE MCAll --------------------------------
(***************************************************************************)
(* Small instances of AlefAll: two languages with a binding and a test     *)
(* suite each, one suite with a file only the first surface has, a stub, a *)
(* root file and a manifest from the scaffold, a README, a registry test   *)
(* app, a page and a page that not every host can produce.                 *)
(***************************************************************************)
EXTENDS AlefAll

MCApiOf  == [s \in Sources |-> [c \in Configs |-> s]]
MCHashOf == [s \in Sources |-> s + 10]

MCPaths == {"py_mod", "node_mod", "stub", "poly", "manifest", "readme", "py_test",
            "py_old", "node_test", "app", "page", "cli_page"}

BothLangs == {"py", "node"}

MCOutputs == [l \in Langs |-> [x \in Apis |-> IF l = "py" THEN {"py_mod"} ELSE {"node_mod"}]]

MCAux == [k \in AuxKinds |-> [l \in Langs |-> [x \in Apis |->
    IF k = "stubs" /\ l = "py" THEN {"stub"} ELSE {}]]]

MCStageFiles == [st \in Stages |-> [l \in Langs |-> [x \in Apis |->
    CASE st = "scaffold"                -> IF l = "py" THEN {"poly"} ELSE {"poly", "manifest"}
      [] st = "readme"                  -> {"readme"}
      [] st = "docs"                    -> {"page", "cli_page"}
      [] st = "e2e" /\ l = "node"       -> {"node_test"}
      [] st = "e2e" /\ l = "py"         -> IF x = 1 THEN {"py_test", "py_old"} ELSE {"py_test"}
      [] st = "test-apps" /\ l = "node" -> {"app"}
      [] OTHER                          -> {}]]]

MCDirs == {"root", "pkg_py", "pkg_node", "docs", "e2e", "e2e_py", "e2e_node",
           "test_apps", "app_node"}
MCDir == [p \in MCPaths |->
    CASE p \in {"py_mod", "stub"}        -> "pkg_py"
      [] p \in {"node_mod", "manifest"}  -> "pkg_node"
      [] p \in {"py_test", "py_old"}     -> "e2e_py"
      [] p = "node_test"                 -> "e2e_node"
      [] p = "app"                       -> "app_node"
      [] p \in {"page", "cli_page"}      -> "docs"
      [] OTHER                           -> "root"]
MCAbove == [d \in MCDirs |->
    CASE d = "root"                     -> {"root"}
      [] d \in {"e2e_py", "e2e_node"}   -> {d, "e2e", "root"}
      [] d = "app_node"                 -> {d, "test_apps", "root"}
      [] OTHER                          -> {d, "root"}]
MCPackageDirs  == [l \in Langs |-> IF l = "py" THEN {"pkg_py"} ELSE {"pkg_node"}]
MCSuiteDir     == [st \in Suites |-> IF st = "e2e" THEN "e2e" ELSE "test_apps"]
MCSuiteLangDir == [st \in Suites |-> [l \in Langs |->
    CASE st = "test-apps" -> "app_node" [] l = "py" -> "e2e_py" [] OTHER -> "e2e_node"]]

MCMarked   == MCPaths \ {"poly"}
MCPhrased  == MCMarked \ {"manifest"}
MCInitDisk == [p \in MCPaths |->
    IF p = "cli_page" THEN [body |-> Body(1, 1), form |-> "raw", stamp |-> Stamp(11, 1)]
    ELSE NoFile]

AllCommands == {"all"} \cup Stages
=============================================================================

----------------------------- MODULE MCGenerate -----------------------------
(***************************************************************************)
(* Small instances of AlefGenerate: two languages, a source edit that      *)
(* renames a binding file, a stub, a public-API file, a scaffolded root    *)
(* file, a reference page written by another command, a file of the        *)
(* developer's and an installed dependency that carries alef's own marks.  *)
(***************************************************************************)
EXTENDS AlefGenerate

\* The second configuration hides what the second sources added.
MCApiOf == [s \in {1, 2} |-> [c \in Configs |-> IF c = 2 THEN 1 ELSE s]]
MCHashOf == [s \in {1, 2} |-> s + 10]

\* Two source versions that differ only in a file of [[source_crates]].
MCHashBlind == [s \in {1, 2} |-> 11]

MCPaths == {"a_mod", "a_old", "b_mod", "stub", "facade", "service",
            "poly", "manifest", "page", "mine", "dep"}

BothLangs == {"a", "b"}

MCOutputs == [l \in Langs |-> [x \in Apis |->
    IF l = "a" THEN (IF x = 1 THEN {"a_mod", "a_old"} ELSE {"a_mod"}) ELSE {"b_mod"}]]

MCAux == [k \in AuxKinds |-> [l \in Langs |-> [x \in Apis |->
    CASE k = "stubs" /\ l = "a" -> {"stub"}
      [] k = "public_api" /\ l = "a" /\ x = 2 -> {"facade"}
      [] k = "services" /\ l = "b" /\ x = 2 -> {"service"}
      [] OTHER -> {}]]]

MCDirs == {"root", "pkg_a", "pkg_b", "docs", "node_modules"}
MCDir == [p \in MCPaths |->
    CASE p \in {"a_mod", "a_old", "stub", "facade", "mine"} -> "pkg_a"
      [] p \in {"b_mod", "service", "manifest"} -> "pkg_b"
      [] p = "page" -> "docs"
      [] p = "dep" -> "node_modules"
      [] OTHER -> "root"]
MCAbove == [d \in MCDirs |->
    CASE d = "root" -> {"root"}
      [] d = "node_modules" -> {"node_modules", "pkg_a", "root"}
      [] OTHER -> {d, "root"}]
MCPackageDirs == [l \in Langs |-> IF l = "a" THEN {"pkg_a"} ELSE {"pkg_b"}]

MCScaffold == {"poly", "manifest"}
MCMarked == MCPaths \ {"mine", "poly"}
MCPhrased == MCMarked \ {"manifest"}
MCScanned == MCPaths \ {"dep"}

Old(st) == [body |-> Body(1, 1), form |-> "raw", stamp |-> st]
MCInitDisk == [p \in MCPaths |->
    CASE p \in {"mine", "poly"} -> Old(NoStamp)
      [] p \in {"manifest", "page", "dep"} -> Old(Stamp(11, 1))
      [] OTHER -> NoFile]

-----------------------------------------------------------------------------
=============================================================================

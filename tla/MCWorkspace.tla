---------------------------- MODULE MCWorkspace ----------------------------
(***************************************************************************)
(* Small instances of AlefWorkspace: two crates of one language each, in   *)
(* packages/py/<crate>; new sources of the first rename one of its files.  *)
(* A manifest of each, scaffolded with a header; poly.toml in the root,    *)
(* without one, of both; a file of the developer's.                        *)
(***************************************************************************)
EXTENDS AlefWorkspace

MCPaths == {"a_mod", "a_old", "a_manifest", "b_mod", "b_manifest", "poly", "mine"}
MCDirs  == {".", "py", "py/a", "py/b"}
MCDir   == [p \in MCPaths |-> CASE p \in {"a_mod", "a_old", "a_manifest"} -> "py/a"
                                [] p \in {"b_mod", "b_manifest"} -> "py/b"
                                [] p = "mine" -> "py"
                                [] OTHER -> "."]
MCAbove == [d \in MCDirs |-> CASE d = "." -> {"."} [] d = "py" -> {"py", "."} [] OTHER -> {d, "py", "."}]

Both == {"a", "b"}
MCLangsOf   == <<{"a"}, {"b"}>>
MCSourcesOf == <<{1, 2}, {3, 4}>>
MCSources   == 1..4
MCApiOf  == [s \in MCSources |-> [c \in Configs |-> s]]
MCHashOf == [s \in MCSources |-> s + 10]
MCHashes == 11..14
MCOutputs == [l \in Langs |-> [x \in Apis |->
    CASE l = "a" /\ x = 1 -> {"a_mod", "a_old"}
      [] l = "a" -> {"a_mod"}
      [] OTHER -> {"b_mod"}]]
MCAux == [k \in AuxKinds |-> [l \in Langs |-> [x \in Apis |-> {}]]]
MCPackageDirs == [l \in Langs |-> IF l = "a" THEN {"py/a"} ELSE {"py/b"}]

MCScaffoldOf == <<{"a_manifest", "poly"}, {"b_manifest", "poly"}>>
MCScaffold  == {"a_manifest", "b_manifest", "poly"}
MCMarked    == MCPaths \ {"mine", "poly"}

Old(st) == [body |-> Body(1, 1), form |-> "raw", stamp |-> st]
MCInitDisk == [p \in MCPaths |->
    CASE p \in {"mine", "poly"} -> Old(NoStamp)
      [] p \in {"a_manifest", "b_manifest"} -> Old(Stamp(11, 1))
      [] OTHER -> NoFile]
=============================================================================

------------------------------ MODULE MCPrepare ------------------------------
(***************************************************************************)
(* Small instances of AlefPrepare: a language of each kind, one configured *)
(* for the registry that ships no Cargo.toml, and two workspace members,   *)
(* of which the second is a dependency of one language only.               *)
(***************************************************************************)
EXTENDS AlefPrepare

MCVendorMode == [l \in Langs |->
    CASE l \in {"python", "zig"} -> "registry" [] l = "ruby" -> "core_only"
      [] l = "r" -> "full" [] OTHER -> "none"]

MCDeps == [l \in Langs |->
    CASE l = "python" -> {"core", "util"} [] l = "ruby" -> {"core"} [] OTHER -> {}]

MCSelections == {<<"python", "go">>, <<"r", "zig">>, <<"ruby", "python">>}

\* --require-registry gives both flags at once; lenient regeneration is
\* reached by the unit tests only.
MCCallFlags == {<<TRUE, TRUE>>, <<FALSE, FALSE>>, <<TRUE, FALSE>>}
=============================================================================

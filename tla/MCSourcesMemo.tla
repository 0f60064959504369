--------------------------- MODULE MCSourcesMemo ---------------------------
(***************************************************************************)
(* Small instances of SourcesMemo: two sets of files, as extraction        *)
(* (source_hash_paths) and the stamp (sources) pass them; two contents of  *)
(* the same size and one that is longer.                                   *)
(***************************************************************************)
EXTENDS SourcesMemo

MCSize == [c \in Contents |-> IF c = "long" THEN 2 ELSE 1]

\* The [[source_crates]] file sorts before the crate's own, or after it.
AfterOthers == {{2}, {1, 2}}
BeforeOthers == {{1}, {1, 2}}
=============================================================================

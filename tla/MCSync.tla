------------------------------- MODULE MCSync -------------------------------
(***************************************************************************)
(* Small instances of AlefSync: two crates.  Cargo.toml and the second     *)
(* crate's own, which the first crate's sync visits as a workspace member; *)
(* a manifest of the first; a generated and a scaffolded file with a       *)
(* header, both everyone's.                                                *)
(***************************************************************************)
EXTENDS AlefSync

MCFrom  == <<1, 2>>                       \* version_from of its own
MCFrom1 == <<1, 1>>                       \* one Cargo.toml for both
MCOf    == <<{2, 3, 5, 6}, {2, 5, 6}>>
MCEmits == <<{5}, {5}>>
MCKeeps == <<{5, 6}, {5, 6}>>
=============================================================================

------------------------------ MODULE MCFanOut ------------------------------
(***************************************************************************)
(* Small instances of AlefFanOut: the Rust crate, the FFI crate, a binding *)
(* that links it and one that does not; two of them share an update        *)
(* command, one has end-to-end tests, one has a single command.            *)
(***************************************************************************)
EXTENDS AlefFanOut

MCList == <<"rust", "go", "ffi", "python">>

MCCmds == [l \in {"rust", "go", "ffi", "python"} |->
    CASE l = "rust" -> <<"fetch", "cargo">> [] l = "go" -> <<"go">>
      [] l = "ffi" -> <<>> [] l = "python" -> <<"fetch", "uv">>]

MCE2eCmds == [l \in {"rust", "go", "ffi", "python"} |->
    IF l = "python" THEN <<"pytest">> ELSE <<>>]
=============================================================================

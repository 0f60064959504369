------------------------------ MODULE AlefTree ------------------------------
(***************************************************************************)
(* The data one generating crate works on: its inputs (Rust sources and    *)
(* alef.toml), what the code generators emit for them, and the files of    *)
(* the working tree with the two marks alef puts in them (the header       *)
(* phrase and the `alef:hash:` line).  Every operator is a pure function   *)
(* of its arguments; the modules that extend this one hold the state.      *)
(*                                                                         *)
(* Sources, configurations, paths and hashes are opaque: a hash function   *)
(* is modelled as injective, so a hash is the tuple it is computed from.   *)
(***************************************************************************)
EXTENDS Naturals, FiniteSets

CONSTANTS
    Langs,             \* configured target languages
    Sources,           \* versions of the whole set of Rust source files
    Configs,           \* versions of alef.toml
    Apis,              \* extracted API surfaces
    Paths,             \* files of the working tree
    Dirs,              \* directories of the working tree
    Api,               \* Api[s][c]: the surface `extract` computes from s under c
    SourcesHash,       \* SourcesHash[s]: fingerprint of `sources` alone
    Hashes,            \* the values of SourcesHash
    Outputs,           \* Outputs[l][a]: binding files of language l
    Aux,               \* Aux[c][l][a]: service, public-API and stub files
    Scaffold,          \* paths the scaffold pass enumerates
    Dir,               \* Dir[p]: parent directory of p
    Above,             \* Above[d]: d and its ancestors
    PackageDirs,       \* PackageDirs[l]: package_dir and output_for of l
    TsRoots,           \* the conventional wasm/typescript package roots
    CleanupProtected,  \* directories inside a dependency cache (cleanup)
    SweepSkipped,      \* directories inside one the sweep never enters
    Marked,            \* emitted files finalize_hashes recognises by their header
    Phrased,           \* those among them whose header cleanup recognises
    Restyled,          \* files the formatter rewrites
    InitDisk,          \* the working tree before the first run
    Scanned,           \* files whose extension and directory verify inspects
    NoFile, NoStamp, None

AuxKinds == {"services", "public_api", "stubs"}

\* What a generator emits is a function of the surface and the parsed
\* configuration; on disk it is as emitted or as the formatter left it.
Bodies == [api : Apis, cfg : Configs]
Stamps == [src : Hashes, cfg : Configs]
Files  == [body : Bodies, form : {"raw", "fmt"}, stamp : Stamps \cup {NoStamp}]

TreeAssumption ==
    /\ Api \in [Sources -> [Configs -> Apis]]
    /\ SourcesHash \in [Sources -> Hashes]
    /\ Outputs \in [Langs -> [Apis -> SUBSET Paths]]
    /\ Aux \in [AuxKinds -> [Langs -> [Apis -> SUBSET Paths]]]
    /\ Scaffold \subseteq Paths
    /\ Dir \in [Paths -> Dirs]
    /\ Above \in [Dirs -> SUBSET Dirs]
    /\ PackageDirs \in [Langs -> SUBSET Dirs]
    /\ TsRoots \subseteq Dirs
    /\ CleanupProtected \subseteq Dirs
    /\ SweepSkipped \subseteq Dirs
    /\ Marked \subseteq Paths
    /\ Phrased \subseteq Marked
    /\ Restyled \subseteq Paths
    /\ Scanned \subseteq Paths
    /\ InitDisk \in [Paths -> Files \cup {NoFile}]
    /\ Langs \cap AuxKinds = {}
    /\ NoFile \notin Files
    /\ NoStamp \notin Stamps

ASSUME TreeAssumed == TreeAssumption

-----------------------------------------------------------------------------
(* Contents, hashes and file sets.                                         *)

Body(a, c)   == [api |-> a, cfg |-> c]
Stamp(h, c)  == [src |-> h, cfg |-> c]          \* hash::compute_inputs_hash
Fresh(b)     == [body |-> b, form |-> "raw", stamp |-> NoStamp]

AuxFiles(k, L, a) == UNION {Aux[k][l][a] : l \in L}

\* The (path, content hash) pairs kept in .alef/hashes/<crate>.<key>.
Pairs(P, b) == P \X {b}

-----------------------------------------------------------------------------
(* Reading and writing one file.                                           *)

Exists(f) == f # NoFile

\* strip_hash_line(disk) == strip_hash_line(generated): the stamp is ignored,
\* a formatter's rewriting is not.
SameBody(f, b) == Exists(f) /\ f.body = b /\ f.form = "raw"

WrittenOnce(f, b) == IF Exists(f) THEN f ELSE Fresh(b)   \* a slip

\* write_files on one file: untouched when the body agrees, otherwise
\* replaced by content that carries no hash line.
Written(f, b) == IF SameBody(f, b) THEN f ELSE Fresh(b)

StampedOnce(f, p, st) ==                   \* slips (see README, mutants)
    IF Exists(f) /\ p \in Marked /\ f.stamp = NoStamp THEN [f EXCEPT !.stamp = st] ELSE f

StampedSourcesOnly(f, p, st) ==
    IF Exists(f) /\ p \in Marked THEN [f EXCEPT !.stamp = [st EXCEPT !.cfg = None]] ELSE f

\* finalize_hashes on one file: only headered files are stamped.
Stamped(f, p, st) ==
    IF Exists(f) /\ p \in Marked THEN [f EXCEPT !.stamp = st] ELSE f

Formatted(f, p) ==
    IF Exists(f) /\ p \in Restyled THEN [f EXCEPT !.form = "fmt"] ELSE f

HasHash(f)      == Exists(f) /\ f.stamp # NoStamp
AlefOwned(f, p) == HasHash(f) \/ (Exists(f) /\ p \in Phrased)

-----------------------------------------------------------------------------
(* The two deleting passes.                                                *)

\* cleanup_orphaned_files: every directory that holds a kept path and is not
\* inside a dependency cache, with everything beneath it.
TouchedDirs(K) == {Dir[p] : p \in K} \ CleanupProtected

CleanupVisits(K) ==
    {p \in Paths : /\ Dir[p] \notin CleanupProtected
                   /\ Above[Dir[p]] \cap TouchedDirs(K) # {}}

CleanupOrphans(t, K) == {p \in CleanupVisits(K) : AlefOwned(t[p], p) /\ p \notin K}

\* generate_sweep_roots and sweep_orphans.
SweepRoots(L, filtered) ==
    (UNION {PackageDirs[l] : l \in L}) \cup (IF filtered THEN {} ELSE TsRoots)

SweepOrphans(t, K, roots) ==
    {p \in Paths : /\ Above[Dir[p]] \cap roots # {}
                   /\ Dir[p] \notin SweepSkipped
                   /\ HasHash(t[p]) /\ p \notin K}

Without(t, D) == [p \in Paths |-> IF p \in D THEN NoFile ELSE t[p]]

-----------------------------------------------------------------------------
(* alef verify: a scanned file is stale when its embedded hash is not the  *)
(* one the current inputs give.                                            *)

StaleFiles(t, h, c) == {p \in Scanned : HasHash(t[p]) /\ t[p].stamp # Stamp(h, c)}
=============================================================================

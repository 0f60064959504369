--------------------------- MODULE AlefWorkspace ---------------------------
(***************************************************************************)
(* Several crates in one working tree: `alef generate` for all of them or  *)
(* for those that --crate names, and `alef verify` over the tree.  Each    *)
(* crate is generated with a keep set, two deleting passes and a stamp of  *)
(* its own, one crate after the other; verify takes the whole tree and the *)
(* hashes of the crates it was given.  Between runs the developer edits    *)
(* sources and alef.toml and deletes files, or a crate's sources are gone  *)
(* (moved, or not checked out).                                            *)
(*                                                                         *)
(* The steps of one crate are those of AlefGenerate, taken together where  *)
(* no other crate's step can come between them (a kill falls between       *)
(* these; AlefGenerate has those within them); there is one way to         *)
(* serialise a configuration, and no auxiliary files.                      *)
(***************************************************************************)
EXTENDS AlefTree

CONSTANTS
    Crates,       \* their places in alef.toml
    LangsOf,      \* LangsOf[c]: the (crate, language) pairs of c, members of Langs
    SourcesOf,    \* SourcesOf[c]: versions of the sources of c
    ScaffoldOf,   \* ScaffoldOf[c]: paths its scaffold pass enumerates; poly.toml
                  \* in the root is one of every crate's
    Gone,         \* sources that cannot be read
    MaxEdits,     \* bound on edits
    MaxFaults     \* bound on kills

ASSUME WorkspaceAssumption ==
    /\ Crates \subseteq Nat /\ IsFiniteSet(Crates)
    /\ LangsOf \in [Crates -> SUBSET Langs]
    /\ SourcesOf \in [Crates -> SUBSET Sources]
    /\ ScaffoldOf \in [Crates -> SUBSET Scaffold]
    /\ Gone \notin Sources
    /\ MaxEdits \in Nat /\ MaxFaults \in Nat

VARIABLES
    src, cfg, tree,      \* sources of each crate, alef.toml, the working tree
    cached,              \* the key in the .alef hash of each language
    run, left, pc, keep, \* the command, the crates it has left, its place
    done, rooted,        \* history: crates generated by the latest command and
                         \* not overtaken by an edit; those whose scaffold
                         \* pass did not fail
    edits, faults

inputs == <<src, cfg>>
vars   == <<inputs, tree, cached, run, left, pc, keep, done, rooted, edits, faults>>

Keys == [api : Apis, cfg : Configs]

TypeOK ==
    /\ \A c \in Crates : src[c] \in SourcesOf[c] \cup {Gone}
    /\ cfg \in Configs
    /\ tree \in [Paths -> Files \cup {NoFile}]
    /\ cached \in [Langs -> Keys \cup {None}]
    /\ run \in [crates : SUBSET Crates, clean : BOOLEAN]
    /\ left \subseteq run.crates
    /\ pc \in {"idle", "write", "delete", "stamp"}
    /\ keep \subseteq Paths /\ done \subseteq Crates /\ rooted \subseteq run.crates
    /\ edits \in 0..MaxEdits /\ faults \in 0..MaxFaults

-----------------------------------------------------------------------------
Current(c)   == c \in left /\ \A d \in left : c <= d
Surface(c)   == Api[src[c]][cfg]
OutputsOf(c) == UNION {Outputs[l][Surface(c)] : l \in LangsOf[c]}
StampOf(c)   == Stamp(SourcesHash[src[c]], cfg)
KeyOf(c)     == [api |-> Surface(c), cfg |-> cfg]

UncachedUnforced(c) ==                                \* a slip (see README, mutants)
    {l \in LangsOf[c] :
        cached[l] # KeyOf(c) \/ \E p \in Outputs[l][Surface(c)] : ~Exists(tree[p])}

\* A file of the language is missing, or it was generated from something else.
Uncached(c) ==
    {l \in LangsOf[c] :
        run.clean \/ cached[l] # KeyOf(c) \/ \E p \in Outputs[l][Surface(c)] : ~Exists(tree[p])}

Init ==
    /\ src \in [Crates -> Sources] /\ \A c \in Crates : src[c] \in SourcesOf[c]
    /\ cfg \in Configs
    /\ tree = InitDisk
    /\ cached = [l \in Langs |-> None]
    /\ run = [crates |-> {}, clean |-> FALSE]
    /\ left = {} /\ pc = "idle" /\ keep = {} /\ done = {} /\ rooted = {}
    /\ edits = 0 /\ faults = 0

-----------------------------------------------------------------------------
(* The developer, between commands.                                        *)

MayEdit == pc = "idle" /\ edits < MaxEdits /\ edits' = edits + 1

EditSources(c) ==
    /\ MayEdit
    /\ \E s \in (SourcesOf[c] \cup {Gone}) \ {src[c]} : src' = [src EXCEPT ![c] = s]
    /\ done' = done \ {c}
    /\ UNCHANGED <<cfg, tree, cached, run, left, pc, keep, rooted, faults>>

EditConfig ==
    /\ MayEdit
    /\ \E k \in Configs \ {cfg} : cfg' = k
    /\ done' = {}
    /\ UNCHANGED <<src, tree, cached, run, left, pc, keep, rooted, faults>>

DeleteFile ==
    /\ MayEdit
    /\ \E p \in Paths : Exists(tree[p]) /\ tree' = Without(tree, {p})
    /\ done' = {}
    /\ UNCHANGED <<inputs, cached, run, left, pc, keep, rooted, faults>>

-----------------------------------------------------------------------------
(* alef generate.                                                          *)

\* select_crates: the crates of --crate, or all.
Start ==
    /\ pc = "idle"
    /\ \E S \in (SUBSET Crates) \ {{}}, cl \in BOOLEAN :
          /\ run' = [crates |-> S, clean |-> cl]
          /\ left' = S
    /\ pc' = "write" /\ done' = {} /\ rooted' = {}
    /\ UNCHANGED <<inputs, tree, cached, keep, edits, faults>>

Stop == left' = {} /\ pc' = "idle" /\ keep' = {}

\* extract, generate and write_files.  The keep set starts anew; the scaffold
\* pass adds to it, or fails with a warning.
Write(c) ==
    /\ pc = "write" /\ Current(c) /\ src[c] # Gone
    /\ LET L == Uncached(c)
           W == UNION {Outputs[l][Surface(c)] : l \in L}
       IN  /\ tree' = [p \in Paths |-> IF p \in W THEN Written(tree[p], Body(Surface(c), cfg)) ELSE tree[p]]
           /\ cached' = [l \in Langs |-> IF l \in L THEN KeyOf(c) ELSE cached[l]]
           /\ \/ keep' = W \cup ScaffoldOf[c] /\ rooted' = rooted \cup {c}
              \/ keep' = W /\ UNCHANGED rooted
    /\ pc' = "delete"
    /\ UNCHANGED <<inputs, run, left, done, edits, faults>>

\* extract fails, and with it the command; crates before c are generated.
Unreadable(c) ==
    /\ pc = "write" /\ Current(c) /\ src[c] = Gone
    /\ Stop
    /\ UNCHANGED <<inputs, tree, cached, run, done, rooted, edits, faults>>

SweepEverywhere(c) ==                                 \* a slip
    /\ pc = "delete" /\ Current(c)
    /\ tree' = Without(tree, SweepOrphans(tree, keep, SweepRoots(Langs, FALSE)))
    /\ pc' = "stamp"
    /\ UNCHANGED <<inputs, cached, run, left, keep, done, rooted, edits, faults>>

\* cleanup_orphaned_files, then sweep_orphans on the roots of this crate.
Delete(c) ==
    /\ pc = "delete" /\ Current(c)
    /\ LET t == Without(tree, CleanupOrphans(tree, keep))
       IN  tree' = Without(t, SweepOrphans(t, keep, SweepRoots(LangsOf[c], FALSE)))
    /\ pc' = "stamp"
    /\ UNCHANGED <<inputs, cached, run, left, keep, done, rooted, edits, faults>>

StampAsFirst(c) ==                                    \* a slip
    /\ pc = "stamp" /\ Current(c)
    /\ LET first == CHOOSE d \in run.crates : \A e \in run.crates : d <= e
       IN  tree' = [p \in Paths |-> IF p \in keep THEN Stamped(tree[p], p, StampOf(first)) ELSE tree[p]]
    /\ done' = done \cup {c}
    /\ left' = left \ {c} /\ keep' = {}
    /\ pc' = IF left = {c} THEN "idle" ELSE "write"
    /\ UNCHANGED <<inputs, cached, run, rooted, edits, faults>>

\* finalize_hashes; the next crate, or the end.
StampKept(c) ==
    /\ pc = "stamp" /\ Current(c)
    /\ tree' = [p \in Paths |-> IF p \in keep THEN Stamped(tree[p], p, StampOf(c)) ELSE tree[p]]
    /\ done' = done \cup {c}
    /\ left' = left \ {c} /\ keep' = {}
    /\ pc' = IF left = {c} THEN "idle" ELSE "write"
    /\ UNCHANGED <<inputs, cached, run, rooted, edits, faults>>

Kill ==
    /\ pc # "idle" /\ faults < MaxFaults
    /\ faults' = faults + 1
    /\ Stop
    /\ UNCHANGED <<inputs, tree, cached, run, done, rooted, edits>>

-----------------------------------------------------------------------------
(* alef verify, of the crates S.                                           *)

CandidatesFirst(S) == {StampOf(c) : c \in {d \in S : src[d] # Gone /\ \A e \in S : d <= e}} \* a slip

Candidates(S)      == {StampOf(c) : c \in {d \in S : src[d] # Gone}}
Embedded           == {tree[p].stamp : p \in {q \in Scanned : HasHash(tree[q])}}
NothingStale(S)    == Candidates(S) = {} \/ Embedded \subseteq Candidates(S)
HashConsistent(S)  == Cardinality(Embedded) <= Cardinality(S)
VerifyPasses(S)    == NothingStale(S) /\ HashConsistent(S)

Crate(c) == Write(c) \/ Unreadable(c) \/ Delete(c) \/ StampKept(c)

Next ==
    \/ \E c \in Crates : EditSources(c) \/ Crate(c)
    \/ EditConfig \/ DeleteFile \/ Start \/ Kill

Spec == Init /\ [][Next]_vars
-----------------------------------------------------------------------------
(***************************************************************************)
(* Properties.                                                             *)
(***************************************************************************)

Territory(c) == ScaffoldOf[c] \cup UNION {Outputs[l][a] : l \in LangsOf[c], a \in Apis}

\* The deleting passes of c leave alone what c never emits.
Spared(c) ==
    pc = "delete" /\ Current(c) =>
        \A p \in Paths : Exists(tree[p]) /\ ~Exists(tree'[p]) => p \in Territory(c)

\* A crate that keeps no file in the root deletes no other crate's file and
\* nothing that no crate emits (core_commands.rs:226-243).
OthersSpared == [][\A c \in Crates : c \notin rooted => Spared(c)]_vars

\* No crate does; every scaffold pass has poly.toml, so this does not hold
\* (cleanup.rs:47-50, core_commands.rs:215-226).
OthersAlwaysSpared == [][\A c \in Crates : Spared(c)]_vars

WholeRun == pc = "idle" /\ done = Crates

\* When every crate has been generated by one command and nothing was edited
\* since, verify passes, whatever partial runs, kills and edits came before
\* (core_commands.rs:63-254, 670-679).
WholeRunVerifies == WholeRun => VerifyPasses(Crates)

\* And if that was with --clean, what a crate emits is on disk, unless a
\* later crate kept a file in the root.
WholeCleanRunComplete ==
    WholeRun /\ run.clean =>
        \A c \in Crates : (\A d \in rooted : d <= c) =>
            \A p \in OutputsOf(c) : Exists(tree[p]) /\ tree[p].body = Body(Surface(c), cfg)

\* A binding that verify lets pass, of all crates with readable sources, was
\* emitted from what its own crate's sources and alef.toml are now.
PassedIsCurrent ==
    pc = "idle" /\ (\A c \in Crates : src[c] # Gone) /\ VerifyPasses(Crates) =>
        \A c \in Crates : \A l \in LangsOf[c], a \in Apis : \A p \in Outputs[l][a] \cap Scanned :
            HasHash(tree[p]) => tree[p].body = Body(Surface(c), cfg)

\* Verify passes the crates of --crate whenever it passes all.
FilteredVerifies == WholeRun => \A S \in (SUBSET Crates) \ {{}} : VerifyPasses(S)
=============================================================================

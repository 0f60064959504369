------------------------------ MODULE AlefSync ------------------------------
(***************************************************************************)
(* Version sync in a workspace of several crates: `alef sync-versions`     *)
(* with --set, --bump and --regen, and the sync that ends `alef generate`. *)
(* The version that a crate's version_from file holds is carried to the    *)
(* manifests, to the registry pins in alef.toml, to the test apps and to   *)
(* the READMEs; files with an alef:hash line are stamped again.  Crates    *)
(* are dealt with one after the other, and many manifests are everyone's.  *)
(* One command at a time; between commands the developer edits and         *)
(* restores files, and a command may fail or be killed at every step.      *)
(*                                                                         *)
(* A crate is a number, its place in alef.toml, and a file is a number,    *)
(* its place in the body of sync_versions.  What `alef generate` does      *)
(* besides is the matter of AlefGenerate.                                  *)
(***************************************************************************)
EXTENDS Naturals

CONSTANTS
    Crates,
    Files,        \* files with a version field: manifests, version_from files
    From,         \* From[c]: version_from
    Of,           \* Of[c]: the files sync_versions visits for c
    Soft,         \* those whose failing write is not an error
    Headered,     \* those with an alef:hash line
    Replaced,     \* those that [sync] text_replacements name
    Emits,        \* Emits[c]: those that `alef generate` writes
    Keeps,        \* Keeps[c]: those that it stamps (scaffolded ones too)
    TwoSets,      \* crates with [[source_crates]]: sources # source_hash_paths
    MaxVersion,   \* bound on versions
    MaxEdits,     \* bound on edits and restored files
    MaxFaults,    \* bound on kills and failing writes
    BumpAll,      \* BOOLEAN: --bump is given for several crates
    None

Versions == 0..MaxVersion

ASSUME SyncAssumption ==
    /\ Crates \subseteq Nat /\ Files \subseteq Nat
    /\ From \in [Crates -> Files] /\ Of \in [Crates -> SUBSET Files]
    /\ Emits \in [Crates -> SUBSET Files] /\ Keeps \in [Crates -> SUBSET Files]
    /\ \A c \in Crates : Emits[c] \subseteq Keeps[c] /\ Keeps[c] \subseteq Of[c] \cap Headered
    /\ TwoSets \subseteq Crates
    /\ MaxVersion \in Nat /\ MaxEdits \in Nat /\ MaxFaults \in Nat
    /\ BumpAll \in BOOLEAN
    /\ None \notin {"ok", "failed", "killed"}

VARIABLES
    holds,              \* the version in each file
    pin,                \* the version the registry pins of alef.toml name
    apps, readme,       \* the version each crate's test apps, READMEs tell
    stamp, bindings,    \* the inputs named by the alef:hash of each file
                        \* with a version, and of each crate's bindings
    cmd, todo, pc,      \* the command, the crates it has left, its place
    v, left, updated,   \* sync_versions: version, files to visit, changed
    outcome,            \* how the last command ended
    edits, faults,      \* budgets
    synced, lost, gens, calm  \* history: see Begin

tree    == <<holds, pin, apps, readme, stamp, bindings>>
command == <<cmd, todo>>
locals  == <<v, left, updated>>
history == <<synced, lost, gens, calm>>
vars    == <<tree, command, pc, locals, outcome, edits, faults, history>>

Sets     == {"sources", "all"}
Stamps   == [crate : Crates, set : Sets, pin : Versions]
Commands == [kind : {"generate", "sync", "set", "bump"}, to : Versions, regen : BOOLEAN]
Steps    == {"idle", "begin", "stamp", "read", "write", "finalize", "pins",
             "apps", "scaffold", "readme"}

TypeOK ==
    /\ holds \in [Files -> Versions] /\ pin \in Versions
    /\ apps \in [Crates -> Versions] /\ readme \in [Crates -> Versions]
    /\ stamp \in [Headered -> Stamps] /\ bindings \in [Crates -> Stamps]
    /\ cmd \in Commands /\ todo \subseteq Crates /\ pc \in Steps
    /\ v \in Versions /\ left \subseteq Files /\ updated \subseteq Files
    /\ outcome \in {None, "ok", "failed", "killed"}
    /\ edits \in 0..MaxEdits /\ faults \in 0..MaxFaults
    /\ synced \subseteq Crates /\ lost \in BOOLEAN /\ gens \in 0..2 /\ calm \in BOOLEAN

-----------------------------------------------------------------------------
Least(x, S)  == x \in S /\ \A y \in S : x <= y
Current(c)   == Least(c, todo)
Version(c)   == holds[From[c]]                              \* read_version

\* compute_inputs_hash: of the source files it is given, and of alef.toml.
Inputs(c, set) == [crate |-> c, set |-> IF c \in TwoSets THEN set ELSE "sources", pin |-> pin]

\* finalize_hashes: only files with a header are stamped.
Stamped(S, st) == [f \in Headered |-> IF f \in S THEN st ELSE stamp[f]]

Given == {k \in Commands : (k.kind # "set" => k.to = 0) /\ (k.kind = "generate" => ~k.regen)}

Init ==
    /\ \E n \in Versions :
          /\ holds = [f \in Files |-> n] /\ pin = n
          /\ apps = [c \in Crates |-> n] /\ readme = [c \in Crates |-> n]
    /\ stamp \in [Headered -> {Inputs(c, "sources") : c \in Crates}]
    /\ bindings = [c \in Crates |-> Inputs(c, "sources")]
    /\ cmd = [kind |-> "sync", to |-> 0, regen |-> FALSE] /\ todo = {} /\ pc = "idle"
    /\ v = 0 /\ left = {} /\ updated = {}
    /\ outcome = None /\ edits = 0 /\ faults = 0
    /\ synced = {} /\ lost = FALSE /\ gens = 0 /\ calm = FALSE

-----------------------------------------------------------------------------
(* The developer, between commands.                                        *)

\* A version is edited by hand, a manifest is restored or merged.
Edit(f) ==
    /\ pc = "idle" /\ edits < MaxEdits
    /\ \E n \in Versions \ {holds[f]} : holds' = [holds EXCEPT ![f] = n]
    /\ edits' = edits + 1
    /\ synced' = {} /\ gens' = 0
    /\ UNCHANGED <<pin, apps, readme, stamp, bindings, command, pc, locals, outcome, faults, lost, calm>>

EditPin ==
    /\ pc = "idle" /\ edits < MaxEdits
    /\ \E n \in Versions \ {pin} : pin' = n
    /\ edits' = edits + 1
    /\ synced' = {} /\ gens' = 0
    /\ UNCHANGED <<holds, apps, readme, stamp, bindings, command, pc, locals, outcome, faults, lost, calm>>

-----------------------------------------------------------------------------
(* A command, and its crates.                                              *)

InSync == \A c \in Crates : pin = Version(c) /\ \A f \in Of[c] : holds[f] = Version(c)

\* The crates synced to their end by the latest command; whether it made
\* light of a failure; how many whole generations came one after the other;
\* whether it is a sync that found everything in agreement.
Begin(k, S) ==
    /\ pc = "idle" /\ S # {}
    /\ k.kind = "bump" => BumpAll \/ \E c \in Crates : S = {c}
    /\ cmd' = k /\ todo' = S /\ pc' = "begin" /\ outcome' = None
    /\ synced' = {} /\ lost' = FALSE
    /\ gens' = IF k.kind = "generate" /\ S = Crates THEN gens ELSE 0
    /\ calm' = (InSync /\ k.kind = "sync" /\ ~k.regen)
    /\ UNCHANGED <<tree, locals, edits, faults>>

Forget    == v' = 0 /\ left' = {} /\ updated' = {}
End(how) == pc' = "idle" /\ todo' = {} /\ outcome' = how /\ Forget /\ UNCHANGED cmd

\* The next crate, or the end of the command.
CrateDone(c) ==
    IF todo = {c} THEN End("ok")
    ELSE todo' = todo \ {c} /\ pc' = "begin" /\ Forget /\ UNCHANGED <<cmd, outcome>>

\* generate: bindings and emitted files, with the version of the surface.
Emit(c) ==
    /\ pc = "begin" /\ Current(c) /\ cmd.kind = "generate"
    /\ holds' = [f \in Files |-> IF f \in Emits[c] THEN Version(c) ELSE holds[f]]
    /\ pc' = "stamp"
    /\ UNCHANGED <<pin, apps, readme, stamp, bindings, command, locals, outcome, edits, faults, history>>

StampAll(c) ==                             \* a slip (see README, mutants)
    /\ pc = "stamp" /\ Current(c)
    /\ stamp' = Stamped(Keeps[c], Inputs(c, "all"))
    /\ bindings' = [bindings EXCEPT ![c] = Inputs(c, "all")]
    /\ pc' = "read"
    /\ UNCHANGED <<holds, pin, apps, readme, command, locals, outcome, edits, faults, history>>

StampBindings(c) ==
    /\ pc = "stamp" /\ Current(c)
    /\ stamp' = Stamped(Keeps[c], Inputs(c, "sources"))
    /\ bindings' = [bindings EXCEPT ![c] = Inputs(c, "sources")]
    /\ pc' = "read"
    /\ UNCHANGED <<holds, pin, apps, readme, command, locals, outcome, edits, faults, history>>

Begins(c) == pc = "begin" /\ Current(c)

StartPlain(c) ==
    /\ Begins(c) /\ cmd.kind = "sync"
    /\ pc' = "read"
    /\ UNCHANGED <<tree, command, locals, outcome, edits, faults, history>>

\* set_version: writing the version that is there already is an error.
SetVersion(c) ==
    /\ Begins(c) /\ cmd.kind = "set"
    /\ IF Version(c) = cmd.to THEN End("failed") /\ UNCHANGED holds
       ELSE /\ holds' = [holds EXCEPT ![From[c]] = cmd.to]
            /\ pc' = "read" /\ UNCHANGED <<command, locals, outcome>>
    /\ UNCHANGED <<pin, apps, readme, stamp, bindings, edits, faults, history>>

BumpUnchecked(c) ==                                       \* a slip
    /\ Begins(c) /\ cmd.kind = "bump"
    /\ holds' = [holds EXCEPT ![From[c]] = @ + 1]
    /\ pc' = "read"
    /\ UNCHANGED <<pin, apps, readme, stamp, bindings, command, locals, outcome, edits, faults, history>>

\* The last version stands for one that cannot be bumped (a pre-release).
Bump(c) ==
    /\ Begins(c) /\ cmd.kind = "bump"
    /\ IF Version(c) = MaxVersion THEN End("failed") /\ UNCHANGED holds
       ELSE /\ holds' = [holds EXCEPT ![From[c]] = @ + 1]
            /\ pc' = "read" /\ UNCHANGED <<command, locals, outcome>>
    /\ UNCHANGED <<pin, apps, readme, stamp, bindings, edits, faults, history>>

-----------------------------------------------------------------------------
(* sync_versions for crate c.                                              *)

ReadVersion(c) ==
    /\ pc = "read" /\ Current(c)
    /\ v' = Version(c) /\ left' = Of[c] /\ updated' = {}
    /\ pc' = "write"
    /\ UNCHANGED <<tree, command, outcome, edits, faults, history>>

Visit(f) ==
    /\ pc = "write" /\ Least(f, left)
    /\ left' = left \ {f}
    /\ holds' = [holds EXCEPT ![f] = v]
    /\ updated' = IF holds[f] = v THEN updated ELSE updated \cup {f}
    /\ UNCHANGED <<pin, apps, readme, stamp, bindings, command, pc, v, outcome, edits, faults, history>>

\* The write fails.  It is passed over, or it ends the sync: the command of
\* that name fails, `alef generate` warns and takes the next crate.
VisitFails(c, f) ==
    /\ pc = "write" /\ Current(c) /\ Least(f, left) /\ holds[f] # v
    /\ faults < MaxFaults /\ faults' = faults + 1
    /\ lost' = TRUE
    /\ IF f \in Soft THEN left' = left \ {f} /\ UNCHANGED <<command, pc, v, updated, outcome>>
       ELSE IF cmd.kind = "generate" THEN CrateDone(c)
       ELSE End("failed")
    /\ gens' = 0
    /\ UNCHANGED <<tree, edits, synced, calm>>

AllVisited ==
    /\ pc = "write" /\ left = {}
    /\ pc' = "finalize"
    /\ UNCHANGED <<tree, command, locals, outcome, edits, faults, history>>

FinalizeAll(c) ==                                         \* a slip
    /\ pc = "finalize" /\ Current(c)
    /\ stamp' = Stamped(Of[c] \cap Headered, Inputs(c, "all"))
    /\ pc' = "pins"
    /\ UNCHANGED <<holds, pin, apps, readme, bindings, command, locals, outcome, edits, faults, history>>

Finalize(c) ==
    /\ pc = "finalize" /\ Current(c)
    /\ stamp' = Stamped((updated \cup (Replaced \cap Of[c])) \cap Headered, Inputs(c, "all"))
    /\ pc' = "pins"
    /\ UNCHANGED <<holds, pin, apps, readme, bindings, command, locals, outcome, edits, faults, history>>

PinsIfUpdated ==                                          \* a slip
    /\ pc = "pins"
    /\ pin' = IF updated = {} THEN pin ELSE v
    /\ pc' = IF cmd.regen THEN "apps" ELSE "readme"
    /\ UNCHANGED <<holds, apps, readme, stamp, bindings, command, locals, outcome, edits, faults, history>>

\* sync_registry_package_versions: the pins of every crate.
SyncPins ==
    /\ pc = "pins"
    /\ \/ pin' = v /\ UNCHANGED <<faults, lost, gens>>
       \/ /\ pin # v /\ UNCHANGED pin
          /\ faults < MaxFaults /\ faults' = faults + 1 /\ lost' = TRUE /\ gens' = 0
    /\ pc' = IF cmd.regen THEN "apps" ELSE "readme"
    /\ UNCHANGED <<holds, apps, readme, stamp, bindings, command, locals, outcome, edits, synced, calm>>

AppsIfUpdated(c) ==                                       \* a slip
    /\ pc = "apps" /\ Current(c)
    /\ apps' = IF updated = {} THEN apps ELSE [apps EXCEPT ![c] = pin]
    /\ pc' = "scaffold"
    /\ UNCHANGED <<holds, pin, readme, stamp, bindings, command, locals, outcome, edits, faults, history>>

\* From the configuration as it is read again.
RegenApps(c) ==
    /\ pc = "apps" /\ Current(c)
    /\ apps' = [apps EXCEPT ![c] = pin]
    /\ pc' = "scaffold"
    /\ UNCHANGED <<holds, pin, readme, stamp, bindings, command, locals, outcome, edits, faults, history>>

RegenScaffold(c) ==
    /\ pc = "scaffold" /\ Current(c)
    /\ holds' = [f \in Files |-> IF f \in Keeps[c] \ Emits[c] THEN Version(c) ELSE holds[f]]
    /\ stamp' = Stamped(Keeps[c] \ Emits[c], Inputs(c, "all"))
    /\ pc' = "readme"
    /\ UNCHANGED <<pin, apps, readme, bindings, command, locals, outcome, edits, faults, history>>

\* The sync of c has come to its end.
Synced(c) ==
    /\ synced' = synced \cup {c}
    /\ gens' = IF cmd.kind = "generate" /\ synced \cup {c} = Crates /\ ~lost /\ gens < 2
               THEN gens + 1 ELSE gens
    /\ CrateDone(c)

\* READMEs are made again only if some file was not in sync.
Readmes(c) ==
    /\ pc = "readme" /\ Current(c)
    /\ readme' = IF updated = {} THEN readme ELSE [readme EXCEPT ![c] = Version(c)]
    /\ Synced(c)
    /\ UNCHANGED <<holds, pin, apps, stamp, bindings, edits, faults, lost, calm>>

\* Stamping and every regeneration may fail; that is a warning (here of one
\* that fails before it writes).
Warned(c) ==
    /\ pc \in {"finalize", "apps", "scaffold", "readme"} /\ Current(c)
    /\ faults < MaxFaults /\ faults' = faults + 1
    /\ lost' = TRUE /\ gens' = 0
    /\ IF pc = "readme" THEN updated # {} /\ synced' = synced \cup {c} /\ CrateDone(c)
       ELSE /\ pc' = CASE pc = "finalize" -> "pins" [] pc = "apps" -> "scaffold" [] OTHER -> "readme"
            /\ UNCHANGED <<synced, command, locals, outcome>>
    /\ UNCHANGED <<tree, edits, calm>>

Kill ==
    /\ pc # "idle" /\ faults < MaxFaults
    /\ faults' = faults + 1
    /\ End("killed") /\ gens' = 0
    /\ UNCHANGED <<tree, edits, synced, lost, calm>>

-----------------------------------------------------------------------------
Developer == EditPin \/ \E f \in Files : Edit(f)

Crate(c) ==
    \/ Emit(c) \/ StampBindings(c) \/ StartPlain(c) \/ SetVersion(c) \/ Bump(c)
    \/ ReadVersion(c) \/ (\E f \in Files : VisitFails(c, f)) \/ Finalize(c)
    \/ RegenApps(c) \/ RegenScaffold(c) \/ Readmes(c) \/ Warned(c)

Next ==
    \/ \E k \in Given, S \in SUBSET Crates : Begin(k, S)
    \/ \E c \in Crates : Crate(c)
    \/ \E f \in Files : Visit(f)
    \/ AllVisited \/ SyncPins
    \/ Developer \/ Kill

Spec == Init /\ [][Next]_vars
-----------------------------------------------------------------------------
(***************************************************************************)
(* Properties.                                                             *)
(***************************************************************************)

\* The latest command took every crate to its end, nothing failed on the way
\* and nothing was edited since; and the version_from files say the same.
Settled    == pc = "idle" /\ outcome = "ok" /\ synced = Crates /\ ~lost
OneVersion == \A c, d \in Crates : Version(c) = Version(d)

\* "Updates version fields in all package manifests and alef.toml registry
\* package pins" (args.rs:97): after a whole command every file and every pin
\* has the version of its crate, whatever edits, kills and failures it found,
\* in whatever state they left the files (version.rs:46-670).
SyncedAgree == Settled /\ OneVersion => InSync

\* After sync-versions --regen the test apps tell that version too, whether or
\* not this call had anything to update (version.rs:685-697).
AppsFollow == Settled /\ OneVersion /\ cmd.regen => \A c \in Crates : apps[c] = Version(c)

\* A sync in a tree where everything agrees is silent, as a gate that runs it
\* and looks for differences expects: no file, no pin and no stamp changes,
\* at no step of it (version.rs:60-740).
SilentInAgreement == [][calm /\ pc # "idle" => UNCHANGED tree]_vars

\* What `alef verify` accepts for the files that `alef generate` stamps: the
\* inputs of some crate as verify computes them (core_commands.rs:670-675).
VerifyIsClean ==
    \A c \in Crates : \A st \in {bindings[c]} \cup {stamp[f] : f \in Keeps[c]} :
        \E d \in Crates : st = Inputs(d, "sources")

\* A second whole generation leaves nothing stale: the first may rewrite the
\* pins, which every stamp covers, after it has stamped (core_commands.rs:253-255).
SecondGenerateSettles == pc = "idle" /\ gens = 2 /\ OneVersion => VerifyIsClean

\* A bump of every crate leaves every manifest with its crate's version.
BumpAgrees == Settled /\ cmd.kind = "bump" => InSync
=============================================================================

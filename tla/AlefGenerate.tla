---------------------------- MODULE AlefGenerate ----------------------------
(***************************************************************************)
(* `alef generate` for one crate: the handler of Commands::Generate and    *)
(* every pipeline function it calls, one action per step that reads or     *)
(* writes the shared state.  Shared state is the developer's inputs, the   *)
(* working tree and the .alef cache; it outlives a run.  The rest are the  *)
(* locals of a run and vanish when the run ends, fails or is killed.       *)
(*                                                                         *)
(* Around the runs the developer edits sources and alef.toml and restores  *)
(* or deletes generated files (git checkout, rm).                          *)
(***************************************************************************)
EXTENDS AlefTree

CONSTANTS
    Orders,      \* serialisation orders of the config's hash maps (one per process)
    MaxEdits,    \* bound on the developer's edits
    Restores,    \* BOOLEAN: the developer restores or deletes generated files
    Diffs,       \* BOOLEAN: the developer also runs `alef diff`
    LiveEdits,   \* BOOLEAN: the developer edits inputs while a run is in progress
    MaxFaults    \* bound on the kills and failed steps of all runs

ASSUME GenerateAssumption ==
    /\ MaxEdits \in Nat
    /\ Restores \in BOOLEAN
    /\ Diffs \in BOOLEAN
    /\ LiveEdits \in BOOLEAN
    /\ MaxFaults \in Nat

VARIABLES
    src, cfg, edits,                   \* the developer's inputs
    faults,                            \* kills and failed steps so far
    disk,                              \* the working tree
    irJson, irHash,                    \* .alef/<crate>/ir.json, ir.hash
    langHash, manifest, genHash,       \* .alef hashes and manifests
    pc, run, key, api, srcHash,        \* locals of the run from here on
    results, pending, hashed, keep, writing, cur, changed

inputs == <<src, cfg, edits>>
irCache == <<irJson, irHash>>
langCache == <<langHash, manifest>>
cache == <<irCache, langCache, genHash>>
loop == <<pending, writing, cur, changed>>
locals == <<run, key, api, srcHash, results, hashed, keep, loop>>
vars == <<inputs, faults, disk, cache, pc, locals>>

Cats == Langs \cup AuxKinds

Keys     == [src : Sources, cfg : Configs, raw : Configs, order : Orders]
LangKeys == [api : Apis, cfg : Configs, raw : Configs, order : Orders]
Runs     == [command : {"generate", "diff"}, langs : SUBSET Langs, filtered : BOOLEAN,
             clean : BOOLEAN, cfg : Configs, order : Orders]

Steps == {"idle", "extract", "parse", "ir_json", "ir_hash", "select", "emit",
          "sources", "bindings", "writing", "services", "public_api", "stubs",
          "scaffold", "cleanup", "sweep", "format", "finalize", "done"}

TypeOK ==
    /\ src \in Sources /\ cfg \in Configs /\ edits \in 0..MaxEdits
    /\ faults \in 0..MaxFaults
    /\ disk \in [Paths -> Files \cup {NoFile}]
    /\ irJson \in Apis \cup {None} /\ irHash \in Keys \cup {None}
    /\ langHash \in [Langs -> LangKeys \cup {None}]
    /\ manifest \in [Langs -> (SUBSET Paths) \cup {None}]
    /\ genHash \in [Cats -> SUBSET (Paths \X Bodies)]
    /\ pc \in Steps
    /\ run \in Runs \cup {None}
    /\ key \in Keys \cup {None}
    /\ api \in Apis \cup {None}
    /\ srcHash \in Hashes \cup {None}
    /\ results \subseteq Langs /\ pending \subseteq Langs /\ hashed \subseteq Langs
    /\ keep \subseteq Paths /\ writing \subseteq Paths
    /\ cur \in Cats \cup {None}
    /\ changed \subseteq Langs

ASSUME NoneAssumption == None \notin LangKeys /\ \A P \in SUBSET Paths : P # None

-----------------------------------------------------------------------------
(* The run's own view of what it emits.                                    *)

CatFiles(k) == IF k \in Langs THEN Outputs[k][api] ELSE AuxFiles(k, run.langs, api)
Content == Body(api, run.cfg)
LangKey == [api |-> api, cfg |-> run.cfg, raw |-> cfg, order |-> run.order]

LangCachedUnchecked(l) == langHash[l] = LangKey       \* slips (see README, mutants)
MatchesDiskUnchecked(k) == TRUE

\* is_lang_cached: the hash agrees and every file of the manifest exists; a
\* missing manifest counts as complete.
LangCached(l) ==
    /\ langHash[l] = LangKey
    /\ manifest[l] # None => \A p \in manifest[l] : Exists(disk[p])

\* The recorded generation hashes cover everything the run would write.
GenHashMatch(k) == CatFiles(k) # {} /\ Pairs(CatFiles(k), Content) \subseteq genHash[k]

\* generated_files_match_disk
MatchesDisk(k) == \A p \in CatFiles(k) : SameBody(disk[p], Content)

LangsWith(k) == {l \in run.langs : Aux[k][l][api] # {}}

After(k) == CASE k \in Langs      -> "bindings"
              [] k = "services"   -> "public_api"
              [] k = "public_api" -> "stubs"
              [] k = "stubs"      -> "scaffold"

ClearLocals ==
    /\ run' = None /\ key' = None /\ api' = None /\ srcHash' = None
    /\ results' = {} /\ pending' = {} /\ hashed' = {} /\ keep' = {}
    /\ writing' = {} /\ cur' = None /\ changed' = {}

Init ==
    /\ src \in Sources /\ cfg \in Configs /\ edits = 0 /\ faults = 0
    /\ disk = InitDisk
    /\ irJson = None /\ irHash = None
    /\ langHash = [l \in Langs |-> None] /\ manifest = [l \in Langs |-> None]
    /\ genHash = [k \in Cats |-> {}]
    /\ pc = "idle" /\ run = None /\ key = None /\ api = None /\ srcHash = None
    /\ results = {} /\ pending = {} /\ hashed = {} /\ keep = {}
    /\ writing = {} /\ cur = None /\ changed = {}

\* A step that fails, if the bound allows one more failure.
Fault   == faults < MaxFaults /\ faults' = faults + 1
NoFault == UNCHANGED faults

-----------------------------------------------------------------------------
(* The developer.                                                          *)

MayEdit == edits < MaxEdits /\ (pc = "idle" \/ LiveEdits)

EditSource ==
    /\ MayEdit
    /\ \E s \in Sources \ {src} : src' = s
    /\ edits' = edits + 1
    /\ UNCHANGED <<cfg, faults, disk, cache, pc, locals>>

EditConfig ==
    /\ MayEdit
    /\ \E c \in Configs \ {cfg} : cfg' = c
    /\ edits' = edits + 1
    /\ UNCHANGED <<src, faults, disk, cache, pc, locals>>

\* A generated file goes back to a committed state (what some finished run
\* left for it) or is deleted, between two runs.
Committed(p, s, c) ==
    [body |-> Body(Api[s][c], c), form |-> IF p \in Restyled THEN "fmt" ELSE "raw",
     stamp |-> IF p \in Marked THEN Stamp(SourcesHash[s], c) ELSE NoStamp]

GeneratedFrom(a) == (UNION {Outputs[l][a] : l \in Langs})
                    \cup (UNION {AuxFiles(k, Langs, a) : k \in AuxKinds})

RestoreFile ==
    /\ Restores /\ edits < MaxEdits /\ pc = "idle"
    /\ \E s \in Sources, c \in Configs : \E p \in GeneratedFrom(Api[s][c]) :
          \E f \in {Committed(p, s, c), NoFile} : disk' = [disk EXCEPT ![p] = f]
    /\ edits' = edits + 1
    /\ UNCHANGED <<src, cfg, faults, cache, pc, locals>>

-----------------------------------------------------------------------------
(* Start and extraction.                                                   *)

\* load_config, then the options; every process serialises the hash maps of
\* the resolved config in an order of its own.
Start ==
    /\ pc = "idle"
    /\ \E L \in (SUBSET Langs) \ {{}}, f \in BOOLEAN, cl \in BOOLEAN, o \in Orders :
          /\ f \/ L = Langs
          /\ run' = [command |-> "generate", langs |-> L, filtered |-> f, clean |-> cl,
                     cfg |-> cfg, order |-> o]
    /\ pc' = "extract"
    /\ UNCHANGED <<inputs, faults, disk, cache, key, api, srcHash, results, hashed, keep, loop>>

\* `alef diff` takes every language, extracts through the cache and calls the
\* same generate as `alef generate --clean`.
StartDiff ==
    /\ Diffs /\ pc = "idle"
    /\ \E o \in Orders :
          run' = [command |-> "diff", langs |-> Langs, filtered |-> FALSE, clean |-> FALSE,
                  cfg |-> cfg, order |-> o]
    /\ pc' = "extract"
    /\ UNCHANGED <<inputs, faults, disk, cache, key, api, srcHash, results, hashed, keep, loop>>

IrKeyNoSource ==                                      \* a slip
    [src |-> CHOOSE s \in Sources : TRUE, cfg |-> run.cfg, raw |-> cfg, order |-> run.order]

IrKey == [src |-> src, cfg |-> run.cfg, raw |-> cfg, order |-> run.order]

\* pipeline::extract up to the cache decision: the key is computed from the
\* sources and alef.toml as they are now.
ExtractCached ==
    /\ pc = "extract"
    /\ ~run.clean /\ irJson # None /\ irHash = IrKey
    /\ key' = IrKey
    /\ api' = irJson
    /\ pc' = "select"
    /\ UNCHANGED <<inputs, faults, disk, cache, run, srcHash, results, hashed, keep, loop>>

ExtractMiss ==
    /\ pc = "extract"
    /\ run.clean \/ irJson = None \/ irHash # IrKey
    /\ key' = IrKey
    /\ pc' = "parse"
    /\ UNCHANGED <<inputs, faults, disk, cache, run, api, srcHash, results, hashed, keep, loop>>

\* extract_raw and the passes after it read the sources a second time.
Parse ==
    /\ pc = "parse"
    /\ api' = Api[src][run.cfg]
    /\ pc' = "ir_json"
    /\ UNCHANGED <<inputs, faults, disk, cache, run, key, srcHash, results, hashed, keep, loop>>

WriteIrJson ==
    /\ pc = "ir_json"
    /\ irJson' = api
    /\ pc' = "ir_hash"
    /\ UNCHANGED <<inputs, faults, disk, irHash, langCache, genHash, locals>>

WriteIrHash ==
    /\ pc = "ir_hash"
    /\ irHash' = key
    /\ pc' = "select"
    /\ UNCHANGED <<inputs, faults, disk, irJson, langCache, genHash, locals>>

-----------------------------------------------------------------------------
(* pipeline::generate: cached languages drop out; the others are emitted   *)
(* in parallel, each recording its hash, then its manifest.                *)

Forced == run.clean \/ run.command = "diff"

SelectLangs ==
    /\ pc = "select"
    /\ results' = {l \in run.langs : Forced \/ ~LangCached(l)}
    /\ pending' = results'
    /\ pc' = "emit"
    /\ UNCHANGED <<inputs, faults, disk, cache, run, key, api, srcHash, hashed, keep,
                   writing, cur, changed>>

EmitLangHash(l) ==
    /\ pc = "emit" /\ l \in pending
    /\ langHash' = [langHash EXCEPT ![l] = LangKey]
    /\ pending' = pending \ {l}
    /\ hashed' = hashed \cup {l}
    /\ UNCHANGED <<inputs, faults, disk, irCache, manifest, genHash, pc, run, key, api,
                   srcHash, results, keep, writing, cur, changed>>

EmitLangManifest(l) ==
    /\ pc = "emit" /\ l \in hashed
    /\ manifest' = [manifest EXCEPT ![l] = Outputs[l][api]]
    /\ hashed' = hashed \ {l}
    /\ UNCHANGED <<inputs, faults, disk, irCache, langHash, genHash, pc, run, key, api,
                   srcHash, results, keep, loop>>

EmitDone ==
    /\ pc = "emit" /\ pending = {} /\ hashed = {}
    /\ run.command = "generate"
    /\ pc' = "sources"
    /\ UNCHANGED <<inputs, faults, disk, cache, locals>>

\* diff_files only reads the working tree.
DiffDone ==
    /\ pc = "emit" /\ pending = {} /\ hashed = {}
    /\ run.command = "diff"
    /\ pc' = "idle"
    /\ ClearLocals
    /\ UNCHANGED <<inputs, faults, disk, cache>>

\* cache::sources_hash, after extraction and generation.
ReadSourcesHash ==
    /\ pc = "sources"
    /\ srcHash' = SourcesHash[src]
    /\ pending' = results
    /\ pc' = "bindings"
    /\ UNCHANGED <<inputs, faults, disk, cache, run, key, api, results, hashed, keep,
                   writing, cur, changed>>

-----------------------------------------------------------------------------
(* Writing bindings, service API, public API and stubs.                    *)

SkipLang(l) ==
    /\ pc = "bindings" /\ l \in pending
    /\ GenHashMatch(l) /\ ~run.clean /\ MatchesDisk(l)
    /\ keep' = keep \cup CatFiles(l)
    /\ pending' = pending \ {l}
    /\ UNCHANGED <<inputs, faults, disk, cache, pc, run, key, api, srcHash, results, hashed,
                   writing, cur, changed>>

StartLang(l) ==
    /\ pc = "bindings" /\ l \in pending
    /\ ~(GenHashMatch(l) /\ ~run.clean /\ MatchesDisk(l))
    /\ keep' = keep \cup CatFiles(l)
    /\ pending' = pending \ {l}
    /\ writing' = CatFiles(l) /\ cur' = l
    /\ pc' = "writing"
    /\ UNCHANGED <<inputs, faults, disk, cache, run, key, api, srcHash, results, hashed, changed>>

BindingsDone ==
    /\ pc = "bindings" /\ pending = {}
    /\ pc' = "services"
    /\ UNCHANGED <<inputs, faults, disk, cache, locals>>

SkipAuxUnkept(k) ==                                   \* a slip
    /\ pc = k /\ k \in AuxKinds
    /\ \/ CatFiles(k) = {}
       \/ k # "services" /\ GenHashMatch(k) /\ ~run.clean
    /\ pc' = After(k)
    /\ UNCHANGED <<inputs, faults, disk, cache, run, key, api, srcHash, results,
                   hashed, keep, loop>>

SkipAuxEvenClean(k) ==                                \* a slip
    /\ pc = k /\ k \in AuxKinds
    /\ CatFiles(k) = {} \/ (k # "services" /\ GenHashMatch(k))
    /\ keep' = keep \cup CatFiles(k)
    /\ pc' = After(k)
    /\ UNCHANGED <<inputs, faults, disk, cache, run, key, api, srcHash, results,
                   hashed, loop>>

\* The service API is always written; public API and stubs only when the
\* recorded hashes do not cover them: the files on disk are not consulted.
SkipAux(k) ==
    /\ pc = k /\ k \in AuxKinds
    /\ \/ CatFiles(k) = {}
       \/ k # "services" /\ GenHashMatch(k) /\ ~run.clean
    /\ keep' = keep \cup CatFiles(k)
    /\ pc' = After(k)
    /\ UNCHANGED <<inputs, faults, disk, cache, run, key, api, srcHash, results, hashed, loop>>

StartAux(k) ==
    /\ pc = k /\ k \in AuxKinds
    /\ CatFiles(k) # {}
    /\ k = "services" \/ ~GenHashMatch(k) \/ run.clean
    /\ keep' = keep \cup CatFiles(k)
    /\ writing' = CatFiles(k) /\ cur' = k
    /\ pc' = "writing"
    /\ UNCHANGED <<inputs, faults, disk, cache, run, key, api, srcHash, results, hashed,
                   pending, changed>>

\* write_files writes its files in parallel, in any order.
WriteFile(p) ==
    /\ pc = "writing" /\ p \in writing
    /\ disk' = [disk EXCEPT ![p] = Written(@, Content)]
    /\ writing' = writing \ {p}
    /\ UNCHANGED <<inputs, faults, cache, pc, run, key, api, srcHash, results, hashed, keep,
                   pending, cur, changed>>

\* write_generation_hashes: its failure is ignored.
FilesWritten ==
    /\ pc = "writing" /\ writing = {}
    /\ changed' = changed \cup (IF cur \in Langs THEN {cur} ELSE LangsWith(cur))
    /\ \/ /\ NoFault
          /\ genHash' = IF cur = "services" THEN genHash
                        ELSE [genHash EXCEPT ![cur] = Pairs(CatFiles(cur), Content)]
       \/ Fault /\ cur # "services" /\ UNCHANGED genHash
    /\ cur' = None
    /\ pc' = After(cur)
    /\ UNCHANGED <<inputs, disk, irCache, langCache, run, key, api, srcHash, results,
                   hashed, keep, pending, writing>>

-----------------------------------------------------------------------------
(* Orphan removal, formatting and stamping.                                *)

\* The scaffold files are enumerated, not written; an error only drops them
\* from the keep set.
EnumerateScaffold ==
    /\ pc = "scaffold"
    /\ \/ NoFault /\ keep' = keep \cup Scaffold
       \/ Fault /\ UNCHANGED keep
    /\ pc' = "cleanup"
    /\ UNCHANGED <<inputs, disk, cache, run, key, api, srcHash, results, hashed, loop>>

\* An I/O error ends the walk early and the caller ignores it.
Cleanup ==
    /\ pc = "cleanup"
    /\ \/ NoFault /\ disk' = Without(disk, CleanupOrphans(disk, keep))
       \/ /\ Fault
          /\ \E D \in SUBSET CleanupOrphans(disk, keep) : disk' = Without(disk, D)
    /\ pc' = "sweep"
    /\ UNCHANGED <<inputs, cache, locals>>

Roots == SweepRoots(run.langs, run.filtered)

Sweep ==
    /\ pc = "sweep"
    /\ \/ NoFault /\ disk' = Without(disk, SweepOrphans(disk, keep, Roots))
       \/ /\ Fault
          /\ \E D \in SUBSET SweepOrphans(disk, keep, Roots) : disk' = Without(disk, D)
    /\ pc' = "format"
    /\ UNCHANGED <<inputs, cache, locals>>

\* format_generated: the package directories of the changed languages; a
\* missing or failing formatter is only a warning.
FormattedPaths ==
    {p \in Paths : \E l \in changed :
        /\ l \in results \cup LangsWith("stubs")
        /\ Above[Dir[p]] \cap PackageDirs[l] # {}}

Format ==
    /\ pc = "format"
    /\ \/ /\ NoFault
          /\ disk' = [p \in Paths |->
                IF p \in FormattedPaths THEN Formatted(disk[p], p) ELSE disk[p]]
       \/ Fault /\ UNCHANGED disk
    /\ pc' = "finalize"
    /\ UNCHANGED <<inputs, cache, locals>>

\* alef.toml is read again for the stamp; a failed write aborts the run with
\* some of the files stamped.
Finalize ==
    /\ pc = "finalize"
    /\ disk' = [p \in Paths |->
                   IF p \in keep THEN Stamped(disk[p], p, Stamp(srcHash, cfg)) ELSE disk[p]]
    /\ pc' = "done"
    /\ UNCHANGED <<inputs, faults, cache, locals>>

FinalizePartly ==
    /\ Fault /\ pc = "finalize"
    /\ \E S \in SUBSET keep :
          disk' = [p \in Paths |->
                      IF p \in S THEN Stamped(disk[p], p, Stamp(srcHash, cfg)) ELSE disk[p]]
    /\ pc' = "idle"
    /\ ClearLocals
    /\ UNCHANGED <<inputs, cache>>

Finish ==
    /\ pc = "done"
    /\ pc' = "idle"
    /\ ClearLocals
    /\ UNCHANGED <<inputs, faults, disk, cache>>

\* The process is killed, or a step returns an error that `?` propagates.
Abort ==
    /\ Fault /\ pc # "idle"
    /\ pc' = "idle"
    /\ ClearLocals
    /\ UNCHANGED <<inputs, disk, cache>>

-----------------------------------------------------------------------------
Extract  == ExtractCached \/ ExtractMiss \/ Parse \/ WriteIrJson \/ WriteIrHash
Emit     == \/ SelectLangs
            \/ \E l \in Langs : EmitLangHash(l) \/ EmitLangManifest(l)
            \/ EmitDone \/ DiffDone
Write    == \/ ReadSourcesHash
            \/ \E l \in Langs : SkipLang(l) \/ StartLang(l)
            \/ BindingsDone
            \/ \E k \in AuxKinds : SkipAux(k) \/ StartAux(k)
            \/ \E p \in Paths : WriteFile(p)
            \/ FilesWritten
Conclude == EnumerateScaffold \/ Cleanup \/ Sweep \/ Format \/ Finalize \/ Finish

RunStep  == Extract \/ Emit \/ Write \/ Conclude
Fail     == FinalizePartly \/ Abort
Developer == EditSource \/ EditConfig \/ RestoreFile

Next == Start \/ StartDiff \/ RunStep \/ Fail \/ Developer

Spec == Init /\ [][Next]_vars
-----------------------------------------------------------------------------
(***************************************************************************)
(* Properties.                                                             *)
(***************************************************************************)

RunOutputs == UNION {Outputs[l][api] : l \in results}
AuxOutputs == UNION {AuxFiles(k, run.langs, api) : k \in AuxKinds}

Deleted(p) == Exists(disk[p]) /\ ~Exists(disk'[p])
Deleting   == pc \in {"cleanup", "sweep"}
Swept      == pc \in {"format", "finalize", "done"}

\* The keep set is collected over many steps and the deletions come last: no
\* deletion ever reaches a file this run generated or vouched for, nor one
\* alef does not recognise as its own (cleanup.rs:84-113, orphans.rs:51-57).
DeletesOnlyOrphans ==
    [][\A p \in Paths : Deleting /\ Deleted(p) =>
          AlefOwned(disk[p], p) /\ p \notin RunOutputs \cup AuxOutputs]_vars

\* From the end of the writing phase to the end of the run, every file of a
\* language the run generated is on disk with the content just emitted,
\* whether it was written or skipped as up to date (core_commands.rs:81-112),
\* and a finished run has stamped it with the run's own sources hash.
RegeneratedCurrent ==
    pc \in {"services", "public_api", "stubs", "scaffold", "cleanup"} \cup
          {"sweep", "format", "finalize", "done"} =>
        \A p \in RunOutputs :
            /\ Exists(disk[p]) /\ disk[p].body = Content
            /\ pc = "done" /\ p \in Marked =>
                  disk[p].stamp # NoStamp /\ disk[p].stamp.src = srcHash

\* A run works on the surface of the sources it was started on, even when it
\* takes the IR from the cache ("Check if cached IR is still valid for the
\* given crate", cache.rs:130).
IrIsCurrent == run # None /\ api # None => api = Api[src][cfg]

\* The embedded hash answers "was this file generated from the current alef
\* inputs?" (core/hash.rs:24-25): a binding that carries the hash of some
\* inputs holds what those inputs emit, through skips, restored files, runs
\* over several source versions and formatting.
StampSound ==
    \A l \in Langs, a \in Apis : \A p \in Outputs[l][a] :
        HasHash(disk[p]) =>
            \E s \in Sources : /\ SourcesHash[s] = disk[p].stamp.src
                              /\ disk[p].body = Body(Api[s][disk[p].stamp.cfg], disk[p].stamp.cfg)

\* alef verify misses no stale binding: between runs, a stamped binding that
\* differs from what the current inputs emit is reported
\* (core_commands.rs:670-676, helpers.rs:356-407).
VerifyFindsStale ==
    pc = "idle" =>
        \A l \in Langs, a \in Apis : \A p \in Outputs[l][a] \cap Scanned :
            HasHash(disk[p]) /\ disk[p].body # Body(Api[src][cfg], cfg) =>
                p \in StaleFiles(disk, SourcesHash[src], cfg)

\* A language counts as cached only when every file it would generate is on
\* disk ("Returns false ... if any previously-generated output files are
\* missing from disk", cache.rs:193-195).
CachedLangComplete ==
    pc = "select" => \A l \in run.langs : LangCached(l) =>
        \A p \in Outputs[l][api] : Exists(disk[p])

\* A language that counts as cached holds on disk what the run would emit:
\* the cache elides work, never an update.  `alef diff` is to "Show what
\* generation would change without writing files" (README.md:213).
CachedLangCurrent ==
    pc = "select" /\ run.command = "generate" =>
        \A l \in run.langs : LangCached(l) =>
            \A p \in Outputs[l][api] : Exists(disk[p]) => disk[p].body = Content

\* Whatever earlier runs left behind when they were killed or failed, a
\* --clean run that ends leaves every binding, public-API and stub file of its
\* languages holding what the current inputs emit, and stamped for them.
CleanRunRepairs ==
    pc = "done" /\ run.clean =>
        \A p \in RunOutputs \cup AuxOutputs :
            /\ Exists(disk[p]) /\ disk[p].body = Body(Api[src][cfg], cfg)
            /\ p \in Marked => disk[p].stamp = Stamp(SourcesHash[src], cfg)

\* Right after a run, verify has nothing to report: no scanned file keeps the
\* stamp of other inputs, so neither the staleness walk nor the count of
\* distinct hashes of detect_hash_inconsistency complains (helpers.rs:321-347).
VerifyCleanAfterRun ==
    pc = "done" => StaleFiles(disk, SourcesHash[src], cfg) = {}

\* "The keep set then contains every language's files, so nothing valid is
\* deleted" on an unfiltered run (orphans.rs:19-21).
UnfilteredKeepsValid ==
    [][\A p \in Paths : Deleting /\ ~run.filtered /\ Deleted(p) =>
          \A l \in Langs : p \notin Outputs[l][api]]_vars

\* StampSound for every file that carries a hash, the scaffolded ones too.
StampTellsInputs ==
    \A p \in Paths : HasHash(disk[p]) =>
        \E s \in Sources : /\ SourcesHash[s] = disk[p].stamp.src
                          /\ disk[p].body = Body(Api[s][disk[p].stamp.cfg], disk[p].stamp.cfg)

\* Stubs and public API get the treatment generated_files_match_disk was
\* written for ("Treating the cache as the sole authority for an 'up to date'
\* skip silently retains that stale output", helpers.rs:7-9).
AuxCurrent ==
    pc = "done" => \A p \in AuxOutputs : Exists(disk[p]) /\ disk[p].body = Content
=============================================================================

------------------------------ MODULE AlefAll ------------------------------
(***************************************************************************)
(* `alef all` for one crate, and the commands that run one of its stages   *)
(* alone: `alef scaffold`, `alef readme`, `alef docs`, `alef e2e generate` *)
(* and `alef test-apps generate`, each with or without `--lang`.  The      *)
(* stages share the working tree and the records of .alef/<crate>/hashes,  *)
(* where a stage leaves the hash of its inputs and the list of its files.  *)
(*                                                                         *)
(* A run is the list of passes it still has to make, in the order of the   *)
(* handler; a pass is one action.  The bindings are generated here in two  *)
(* passes: AlefGenerate has their steps one by one, the IR cache, and the  *)
(* edits made while a run is in progress, which this module leaves out, so *)
(* that the surface of a run is Api[src][cfg] throughout.                  *)
(***************************************************************************)
EXTENDS AlefTree, Sequences

CONSTANTS
    Fixtures,        \* versions of the e2e fixture directory
    StageFiles,      \* StageFiles[st][l][a]: files of stage st for language l
    HostPages,       \* pages whose sources are not present on every host
    Seeds,           \* scaffold files without a generated header
    PostBuilt,       \* files post-build steps and the Swift version pass rewrite
    DocsDir,         \* the reference documentation directory
    SuiteDir,        \* SuiteDir[st]: output directory of a suite stage
    SuiteLangDir,    \* SuiteLangDir[st][l]: its directory for language l
    Orders,          \* as in AlefGenerate
    Commands,        \* the commands considered
    Filters,         \* BOOLEAN: stage commands are also given --lang
    Hosts,           \* values of "this host has the sources of HostPages"
    Cleans,          \* values of --clean
    Restores,        \* BOOLEAN: the developer checks out older suite files
    HandEdits,       \* BOOLEAN: the developer edits generated files
    MaxEdits, MaxFaults

Suites == {"e2e", "test-apps"}
Stages == Suites \cup {"scaffold", "readme", "docs"}

SuiteBodies == [api : Apis, cfg : Configs, fix : Fixtures]
TreeFiles   == [body : Bodies \cup SuiteBodies, form : {"raw", "fmt"},
                stamp : Stamps \cup {NoStamp}]

ASSUME AllAssumption ==
    /\ StageFiles \in [Stages -> [Langs -> [Apis -> SUBSET Paths]]]
    /\ HostPages \subseteq Paths /\ Seeds \subseteq Paths /\ PostBuilt \subseteq Paths
    /\ DocsDir \in Dirs
    /\ SuiteDir \in [Suites -> Dirs]
    /\ SuiteLangDir \in [Suites -> [Langs -> Dirs]]
    /\ Commands \subseteq Stages \cup {"all"}
    /\ Hosts \subseteq BOOLEAN /\ Cleans \subseteq BOOLEAN
    /\ Filters \in BOOLEAN /\ Restores \in BOOLEAN /\ HandEdits \in BOOLEAN
    /\ MaxEdits \in Nat /\ MaxFaults \in Nat
    /\ NoFile \notin TreeFiles

VARIABLES
    src, cfg, fix, edits,           \* the developer's inputs
    faults,                         \* kills and failed steps so far
    disk,                           \* the working tree
    langHash, manifest, genHash,    \* .alef records of bindings, stubs, public API
    stageHash, stageList,           \* <stage>.hash and <stage>.manifest
    run, todo,                      \* the command and the passes it has left
    results, changed, keep          \* its locals

inputs  == <<src, cfg, fix, edits>>
records == <<langHash, manifest, genHash, stageHash, stageList>>
locals  == <<results, changed, keep>>
vars    == <<inputs, faults, disk, records, run, todo, locals>>

Recorders == Langs \cup {"stubs", "public_api"}
LangKeys  == [api : Apis, cfg : Configs, order : Orders]
StageKeys == [api : Apis, cfg : Configs, fix : Fixtures \cup {None}]
Runs      == [command : Commands, langs : SUBSET Langs, clean : BOOLEAN, host : BOOLEAN,
              order : Orders]
RunPasses == {"emit", "bindings", "services", "scaffold", "post_build", "stubs", "public_api",
              "readme", "docs", "pages", "cleanup", "sweep", "format", "finalize", "done"}
StageOps  == {"check", "write", "restyle", "stamp", "sweep_suite", "hash", "list"}

TypeOK ==
    /\ src \in Sources /\ cfg \in Configs /\ fix \in Fixtures
    /\ edits \in 0..MaxEdits /\ faults \in 0..MaxFaults
    /\ disk \in [Paths -> TreeFiles \cup {NoFile}]
    /\ langHash \in [Langs -> LangKeys \cup {None}]
    /\ manifest \in [Langs -> (SUBSET Paths) \cup {None}]
    /\ genHash \in [Recorders -> SUBSET (Paths \X Bodies)]
    /\ stageHash \in [Stages -> StageKeys \cup {None}]
    /\ stageList \in [Stages -> (SUBSET Paths) \cup {None}]
    /\ run \in Runs \cup {None}
    /\ \A i \in DOMAIN todo : todo[i] \in (RunPasses \X {"run"}) \cup (StageOps \X Stages)
    /\ results \subseteq Langs /\ changed \subseteq Langs /\ keep \subseteq Paths

ASSUME NoneAssumption ==
    None \notin Runs /\ None \notin StageKeys /\ \A P \in SUBSET Paths : P # None

-----------------------------------------------------------------------------
(* What a run emits.                                                       *)

Surface    == Api[src][cfg]
RunBody    == Body(Surface, cfg)
InputStamp == Stamp(SourcesHash[src], cfg)

LangFiles(L)      == UNION {Outputs[l][Surface] : l \in L}
AuxOf(k)          == AuxFiles(k, Langs, Surface)
LangsWith(k)      == {l \in Langs : Aux[k][l][Surface] # {}}
StageOutput(st, L) == UNION {StageFiles[st][l][Surface] : l \in L}

\* The page set depends on the host.
Emitted(st, L) == StageOutput(st, L) \ (IF run.host THEN {} ELSE HostPages)

StageBody(st) == IF st \in Suites THEN [api |-> Surface, cfg |-> cfg, fix |-> fix] ELSE RunBody

\* write_scaffold_files_with_overwrite on one file.
StageWritten(f, p, b, overwrite) ==
    IF ~overwrite /\ p \in Seeds /\ Exists(f) THEN f ELSE Written(f, b)

-----------------------------------------------------------------------------
(* The records of earlier runs.                                            *)

LangKey == [api |-> Surface, cfg |-> cfg, order |-> run.order]

LangCached(l) ==
    /\ langHash[l] = LangKey
    /\ manifest[l] # None => \A p \in manifest[l] : Exists(disk[p])

StageKeyNoFixtures(st) ==                 \* slips (see README, mutants)
    [api |-> Surface, cfg |-> cfg, fix |-> None]

\* compute_stage_hash: the languages asked for are no part of it.
StageKey(st) ==
    [api |-> Surface, cfg |-> cfg, fix |-> IF st \in Suites THEN fix ELSE None]

StageCachedEvenClean(st) ==                           \* a slip
    /\ stageHash[st] = StageKey(st)
    /\ stageList[st] # None => \A p \in stageList[st] : Exists(disk[p])

\* is_stage_cached; the handlers of `all` look at it unless --clean is given.
StageCached(st) ==
    /\ ~run.clean
    /\ stageHash[st] = StageKey(st)
    /\ stageList[st] # None => \A p \in stageList[st] : Exists(disk[p])

ReadNoPaths(st) == {}                                 \* a slip

\* read_stage_paths: a missing list is an empty one.
ReadStagePaths(st) == IF stageList[st] = None THEN {} ELSE stageList[st]

\* The recorded generation hashes cover what the run would write.
FilesOf(k)  == IF k \in Langs THEN Outputs[k][Surface] ELSE AuxOf(k)
UpToDate(k) ==
    ~run.clean /\ FilesOf(k) # {} /\ Pairs(FilesOf(k), RunBody) \subseteq genHash[k]

-----------------------------------------------------------------------------
(* The passes of a run, in the order of its handler.                       *)

AllPasses == <<"emit", "bindings", "services", "scaffold", "post_build", "stubs",
               "public_api", "readme", "e2e", "test-apps", "docs", "pages", "cleanup",
               "sweep", "format", "finalize", "done">>

AllProgram ==
    [i \in DOMAIN AllPasses |->
        IF AllPasses[i] \in Suites THEN <<"check", AllPasses[i]>> ELSE <<AllPasses[i], "run">>]

\* `alef docs` keeps no record when a [docs] section adds pages of its own.
Recorded(st) == st # "docs" \/ HostPages = {}

StageOpsOf(st) ==
    IF run.command = "all" THEN <<"write", "restyle", "sweep_suite", "hash", "list">>
    ELSE IF st \in Suites THEN <<"write", "restyle", "stamp", "sweep_suite", "hash", "list">>
    ELSE IF Recorded(st) THEN <<"write", "stamp", "hash", "list">>
    ELSE <<"write", "stamp">>

StageProgram(st) == [i \in DOMAIN StageOpsOf(st) |-> <<StageOpsOf(st)[i], st>>]

At(op, st) == todo # <<>> /\ Head(todo) = <<op, st>>
Op         == Head(todo)[1]
Stage      == Head(todo)[2]
Proceed    == todo' = Tail(todo)

-----------------------------------------------------------------------------
(* The working tree after a pass.                                          *)

Under(D) == {p \in Paths : Above[Dir[p]] \cap D # {}}

Put(P, b)    == [p \in Paths |-> IF p \in P THEN Written(disk[p], b) ELSE disk[p]]
Restyle(P)   == [p \in Paths |-> IF p \in P THEN Formatted(disk[p], p) ELSE disk[p]]
StampAll(P)  == [p \in Paths |-> IF p \in P THEN Stamped(disk[p], p, InputStamp) ELSE disk[p]]
Seed(P, overwrite) ==
    [p \in Paths |-> IF p \in P THEN StageWritten(disk[p], p, RunBody, overwrite) ELSE disk[p]]

\* Patched files are no longer as emitted.
Patched == [p \in Paths |->
    IF p \in PostBuilt /\ Exists(disk[p]) THEN [disk[p] EXCEPT !.form = "fmt"] ELSE disk[p]]

SuiteDirs(st) == {SuiteLangDir[st][l] : l \in {x \in run.langs : Emitted(st, {x}) # {}}}

\* A filtered command sweeps the directories of its languages only.
SuiteRoots(st) == IF run.langs = Langs THEN {SuiteDir[st]} ELSE SuiteDirs(st)

\* With --clean the whole tree is formatted, otherwise the package directories
\* of the languages that changed.
FormattedPaths ==
    IF changed = {} THEN {}
    ELSE IF run.clean THEN Paths
    ELSE Under(UNION {PackageDirs[l] : l \in changed \cap (results \cup LangsWith("stubs"))})

\* The tree after the pass that is next; the passes that are not named here
\* do not touch it.
Effect ==
    CASE Op = "bindings"   -> Put(LangFiles(results), RunBody)
      [] Op = "services"   -> Put(AuxOf("services"), RunBody)
      [] Op = "scaffold"   -> Seed(Emitted("scaffold", Langs), run.clean)
      [] Op = "post_build" -> Patched
      [] Op \in {"stubs", "public_api"} ->
            IF UpToDate(Op) THEN disk ELSE Put(AuxOf(Op), RunBody)
      [] Op \in {"readme", "docs"} -> Put(Emitted(Op, Langs), RunBody)
      [] Op = "cleanup"    -> Without(disk, CleanupOrphans(disk, keep))
      [] Op = "sweep"      -> Without(disk, SweepOrphans(disk, keep, SweepRoots(Langs, FALSE)))
      [] Op = "format"     -> Restyle(FormattedPaths)
      [] Op = "finalize"   -> StampAll(keep)
      [] Op = "write"      -> IF Stage = "scaffold" THEN Seed(Emitted(Stage, run.langs), FALSE)
                              ELSE Put(Emitted(Stage, run.langs), StageBody(Stage))
      [] Op = "restyle"    -> Restyle(Under(SuiteDirs(Stage)))
      [] Op = "stamp"      -> StampAll(Emitted(Stage, run.langs))
      [] Op = "sweep_suite" ->
            Without(disk, SweepOrphans(disk, Emitted(Stage, run.langs), SuiteRoots(Stage)))
      [] OTHER             -> disk

-----------------------------------------------------------------------------
(* Failures and the developer.                                             *)

Fault   == faults < MaxFaults /\ faults' = faults + 1

Reset == run' = None /\ todo' = <<>> /\ results' = {} /\ changed' = {} /\ keep' = {}

\* Some of the pass's files, then the process is killed or an error propagates.
Stop ==
    /\ Fault /\ run # None
    /\ \E S \in SUBSET {p \in Paths : Effect[p] # disk[p]} :
          disk' = [p \in Paths |-> IF p \in S THEN Effect[p] ELSE disk[p]]
    /\ Reset
    /\ UNCHANGED <<inputs, records>>

\* A missing formatter is a warning, and a failed removal is passed over.
Ignored == {"restyle", "format", "cleanup", "sweep", "sweep_suite"}

GoOn ==
    /\ Fault /\ run # None /\ Op \in Ignored
    /\ \E S \in SUBSET {p \in Paths : Effect[p] # disk[p]} :
          disk' = [p \in Paths |-> IF p \in S THEN Effect[p] ELSE disk[p]]
    /\ Proceed
    /\ UNCHANGED <<inputs, records, run, locals>>

MayEdit == edits < MaxEdits /\ run = None /\ edits' = edits + 1

EditInputs ==
    /\ MayEdit
    /\ \/ src' \in Sources \ {src} /\ UNCHANGED <<cfg, fix>>
       \/ cfg' \in Configs \ {cfg} /\ UNCHANGED <<src, fix>>
       \/ fix' \in Fixtures \ {fix} /\ UNCHANGED <<src, cfg>>
    /\ UNCHANGED <<faults, disk, records, run, todo, locals>>

\* rm of a generated file.
DeleteFile ==
    /\ MayEdit
    /\ \E p \in Paths : HasHash(disk[p]) /\ disk' = [disk EXCEPT ![p] = NoFile]
    /\ UNCHANGED <<src, cfg, fix, faults, records, run, todo, locals>>

\* A suite file goes back to what some run left for it.
RestoreFile ==
    /\ Restores /\ MayEdit
    /\ \E s \in Sources, x \in Fixtures, st \in Suites, l \in Langs :
          \E p \in StageFiles[st][l][Api[s][cfg]] :
             disk' = [disk EXCEPT ![p] =
                [body |-> [api |-> Api[s][cfg], cfg |-> cfg, fix |-> x],
                 form |-> IF p \in Restyled THEN "fmt" ELSE "raw",
                 stamp |-> IF p \in Marked THEN Stamp(SourcesHash[s], cfg) ELSE NoStamp]]
    /\ UNCHANGED <<src, cfg, fix, faults, records, run, todo, locals>>

HandEdit ==
    /\ HandEdits /\ MayEdit
    /\ \E p \in Paths, b \in Bodies :
          /\ HasHash(disk[p]) /\ disk[p].body # b
          /\ disk' = [disk EXCEPT ![p].body = b]
    /\ UNCHANGED <<src, cfg, fix, faults, records, run, todo, locals>>

NoLangRecords  == [l \in Langs |-> None]
NoStageRecords == [st \in Stages |-> None]
NoGenHashes    == [k \in Recorders |-> {}]

\* `alef cache clear`, or a fresh clone: .alef is not committed.
ClearCache ==
    /\ MayEdit
    /\ langHash' = NoLangRecords /\ manifest' = NoLangRecords /\ genHash' = NoGenHashes
    /\ stageHash' = NoStageRecords /\ stageList' = NoStageRecords
    /\ UNCHANGED <<src, cfg, fix, faults, disk, run, todo, locals>>

Init ==
    /\ src \in Sources /\ cfg \in Configs /\ fix \in Fixtures
    /\ edits = 0 /\ faults = 0
    /\ disk = InitDisk
    /\ langHash = NoLangRecords /\ manifest = NoLangRecords /\ genHash = NoGenHashes
    /\ stageHash = NoStageRecords /\ stageList = NoStageRecords
    /\ run = None /\ todo = <<>> /\ results = {} /\ changed = {} /\ keep = {}

-----------------------------------------------------------------------------
(* Starting a command.                                                     *)

StartAll ==
    /\ run = None /\ "all" \in Commands
    /\ \E cl \in Cleans, h \in Hosts, o \in Orders :
          run' = [command |-> "all", langs |-> Langs, clean |-> cl, host |-> h, order |-> o]
    /\ todo' = AllProgram
    /\ UNCHANGED <<inputs, faults, disk, records, locals>>

StartStage(st) ==
    /\ run = None /\ st \in Commands
    /\ \E L \in (SUBSET Langs) \ {{}}, h \in Hosts, o \in Orders :
          /\ Filters \/ L = Langs
          /\ run' = [command |-> st, langs |-> L, clean |-> FALSE, host |-> h, order |-> o]
    /\ todo' = <<<<"check", st>>, <<"done", "run">>>>
    /\ UNCHANGED <<inputs, faults, disk, records, locals>>

-----------------------------------------------------------------------------
(* The passes of `alef all`.                                               *)

\* pipeline::generate: cached languages drop out, the others are recorded.
Emit ==
    /\ At("emit", "run")
    /\ results' = {l \in Langs : run.clean \/ ~LangCached(l)}
    /\ langHash' = [l \in Langs |-> IF l \in results' THEN LangKey ELSE langHash[l]]
    /\ manifest' = [l \in Langs |-> IF l \in results' THEN Outputs[l][Surface] ELSE manifest[l]]
    /\ Proceed
    /\ UNCHANGED <<inputs, faults, disk, genHash, stageHash, stageList, run, changed, keep>>

\* A language whose files are recorded and on disk as emitted is skipped; to
\* write it would leave the tree as it is.
WriteBindings ==
    /\ At("bindings", "run")
    /\ disk' = Effect
    /\ keep' = keep \cup LangFiles(results)
    /\ changed' = {l \in results : \/ ~UpToDate(l)
                                   \/ \E p \in FilesOf(l) : ~SameBody(disk[p], RunBody)}
    /\ genHash' = [k \in DOMAIN genHash |->
                      IF k \in changed' THEN Pairs(FilesOf(k), RunBody) ELSE genHash[k]]
    /\ Proceed
    /\ UNCHANGED <<inputs, faults, langHash, manifest, stageHash, stageList, run, results>>

WriteServices ==
    /\ At("services", "run")
    /\ disk' = Effect
    /\ keep' = keep \cup AuxOf("services")
    /\ changed' = changed \cup LangsWith("services")
    /\ Proceed
    /\ UNCHANGED <<inputs, faults, records, run, results>>

\* Only the stubs mark their languages as changed.
WriteAux(k) ==
    /\ At(k, "run")
    /\ disk' = Effect
    /\ keep' = keep \cup AuxOf(k)
    /\ genHash' = IF UpToDate(k) \/ (k = "public_api" /\ AuxOf(k) = {}) THEN genHash
                  ELSE [genHash EXCEPT ![k] = Pairs(AuxOf(k), RunBody)]
    /\ changed' = IF k = "stubs" /\ ~UpToDate(k) THEN changed \cup LangsWith(k) ELSE changed
    /\ Proceed
    /\ UNCHANGED <<inputs, faults, langHash, manifest, stageHash, stageList, run, results>>

\* Scaffold, READMEs and documentation pages.
WritePages(k) ==
    /\ At(k, "run")
    /\ disk' = Effect
    /\ keep' = keep \cup Emitted(k, Langs)
    /\ Proceed
    /\ UNCHANGED <<inputs, faults, records, run, results, changed>>

KeepNoPages ==                                        \* a slip
    /\ At("pages", "run")
    /\ Proceed
    /\ UNCHANGED <<inputs, faults, disk, records, run, locals>>

\* Every page that already carries a hash is kept, whoever produced it.
KeepPages ==
    /\ At("pages", "run")
    /\ keep' = keep \cup {p \in Under({DocsDir}) : HasHash(disk[p]) /\ Dir[p] \notin SweepSkipped}
    /\ Proceed
    /\ UNCHANGED <<inputs, faults, disk, records, run, results, changed>>

\* Post-build steps, orphan removal, formatting and stamping.
TreePass(k) ==
    /\ At(k, "run")
    /\ disk' = Effect
    /\ Proceed
    /\ UNCHANGED <<inputs, faults, records, run, locals>>

-----------------------------------------------------------------------------
(* A stage with a record of its own: within `alef all`, or alone.          *)

StageHit(st) ==
    /\ At("check", st)
    /\ Recorded(st) /\ StageCached(st)
    /\ keep' = IF run.command = "all" THEN keep \cup ReadStagePaths(st) ELSE keep
    /\ Proceed
    /\ UNCHANGED <<inputs, faults, disk, records, run, results, changed>>

StageMiss(st) ==
    /\ At("check", st)
    /\ ~(Recorded(st) /\ StageCached(st))
    /\ todo' = StageProgram(st) \o Tail(todo)
    /\ UNCHANGED <<inputs, faults, disk, records, run, locals>>

\* Writing, formatting, sweeping and (in a command of its own) stamping.
StageTreePass(op, st) ==
    /\ At(op, st)
    /\ disk' = Effect
    /\ Proceed
    /\ UNCHANGED <<inputs, faults, records, run, locals>>

WriteStageHash(st) ==
    /\ At("hash", st)
    /\ stageHash' = [stageHash EXCEPT ![st] = StageKey(st)]
    /\ Proceed
    /\ UNCHANGED <<inputs, faults, disk, langHash, manifest, genHash, stageList, run, locals>>

WriteStageList(st) ==
    /\ At("list", st)
    /\ stageList' = [stageList EXCEPT ![st] = Emitted(st, run.langs)]
    /\ keep' = IF run.command = "all" THEN keep \cup Emitted(st, run.langs) ELSE keep
    /\ Proceed
    /\ UNCHANGED <<inputs, faults, disk, langHash, manifest, genHash, stageHash, run,
                   results, changed>>

Finish ==
    /\ At("done", "run")
    /\ Reset
    /\ UNCHANGED <<inputs, faults, disk, records>>

-----------------------------------------------------------------------------
RunPass ==
    \/ Emit \/ WriteBindings \/ WriteServices
    \/ \E k \in {"stubs", "public_api"} : WriteAux(k)
    \/ \E k \in {"scaffold", "readme", "docs"} : WritePages(k)
    \/ KeepPages
    \/ \E k \in {"post_build", "cleanup", "sweep", "format", "finalize"} : TreePass(k)

StagePass ==
    \E st \in Stages :
        \/ StageHit(st) \/ StageMiss(st)
        \/ \E op \in {"write", "restyle", "stamp", "sweep_suite"} : StageTreePass(op, st)
        \/ WriteStageHash(st) \/ WriteStageList(st)

Developer == EditInputs \/ DeleteFile \/ RestoreFile \/ HandEdit \/ ClearCache

Next == \/ StartAll \/ (\E st \in Stages : StartStage(st))
        \/ RunPass \/ StagePass \/ Finish
        \/ Stop \/ GoOn
        \/ Developer

Spec == Init /\ [][Next]_vars
-----------------------------------------------------------------------------
(***************************************************************************)
(* Properties.                                                             *)
(***************************************************************************)

InAll     == run # None /\ run.command = "all"
AllIsDone == InAll /\ At("done", "run")

\* A test suite that `alef all` skips as up to date outlives its orphan
\* removal: the recorded list repopulates the keep set "so the orphan-cleanup
\* pass does not delete files that the previous run wrote but the current run
\* skipped" (cache.rs:258-260).
SuitesSurvive ==
    [][InAll /\ Op \in {"cleanup", "sweep"} =>
          \A st \in Suites : \A p \in StageOutput(st, Langs) :
              Exists(disk[p]) => Exists(disk'[p])]_vars

\* "a host that regenerates fewer pages must not let orphan cleanup delete the
\* committed pages it simply did not produce this run" (all_commands.rs:348-349).
PagesSurvive ==
    [][InAll => \A p \in Under({DocsDir}) : HasHash(disk[p]) => Exists(disk'[p])]_vars

UpToDateOf(st) == At("check", st) /\ Recorded(st) /\ StageCached(st)
Current(st)    == \A p \in Emitted(st, run.langs) :
                      Exists(disk[p]) /\ (p \in Seeds \/ disk[p].body = StageBody(st))

\* A test suite that counts as up to date is on disk as this run would emit
\* it, for every language asked for (cache.rs:236-252).
SuiteRecordsCurrent ==
    run # None => \A st \in Suites : UpToDateOf(st) => Current(st)

\* Whatever earlier commands left behind, filtered, killed or edited, a
\* `alef all --clean` that ends has every file of every stage hold what the
\* current inputs emit, under their stamp.
CleanAllRepairs ==
    AllIsDone /\ run.clean =>
        LET Good(P, b) == \A p \in P : /\ Exists(disk[p]) /\ disk[p].body = b
                                       /\ p \in Marked => disk[p].stamp = InputStamp
        IN  /\ Good(LangFiles(Langs) \cup UNION {AuxOf(k) : k \in AuxKinds}, RunBody)
            /\ \A st \in Stages : Good(Emitted(st, Langs), StageBody(st))

\* Right after `alef all`, `alef verify` has nothing to report.
VerifyCleanAfterAll == AllIsDone => StaleFiles(disk, SourcesHash[src], cfg) = {}

=============================================================================

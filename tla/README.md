# alef: the specification

alef is a command-line tool that reads a crate's Rust sources and writes, for each configured target language,
bindings, type stubs, manifests, READMEs, reference pages and test suites.  Its hard part is not the code generators,
which are pure functions from an extracted API surface to text.  It is what the commands do around them: five kinds of
caches that decide what is skipped, two passes that delete what no longer belongs, a stamp in every file that `alef
verify` later judges it by, versions that are carried to dozens of manifests, registries and remotes that lag or are
out of reach, and external tools run in parallel, through pipes, under deadlines.  All of it works on shared state, the
working tree and the directory `.alef`, that outlives every run, that the developer changes between runs and that a
killed run leaves half done.  This directory specifies that part.

Paths below are relative to the repository's root.

## 1. The system

| Component | State | Operations | What makes it correct |
|---|---|---|---|
| generate command (`src/bin_cli/core_commands.rs`, `src/cli/pipeline/generate/`) | working tree; locals of a run: results, keep set, changed languages | `alef generate [--lang] [--clean]`, `alef diff` | what a run generates is on disk and current when it ends, whatever was skipped; what it deletes is an orphan |
| IR cache (`src/cli/pipeline/extract.rs`, `src/cli/cache.rs`) | `ir.json`, `ir.hash` per crate | `extract`: hit, or parse and store | a hit is the surface of the current inputs |
| sources memo (`cache.rs:26-107`) | `.alef/sources_hash.cache`: one line per file with time and size, one aggregate hash | `sources_hash` | equals the canonical hash |
| language and stage records (`cache.rs`) | `<key>.hash`, `<key>.manifest`, `<crate>.<key>.output_hashes` | checked before, written after (or before) generation | a record that matches stands for files that are there and current |
| orphan removal (`cleanup.rs`, `orphans.rs`) | none | cleanup from every directory with a kept file; sweep of package roots | deletes only alef's own files, and only those that no one would emit |
| stamp and verify (`src/core/hash.rs`, `write.rs`, `bin_cli/helpers.rs`) | the `alef:hash:` line of each file | `finalize_hashes`, `verify` | a stamp tells the inputs of the content; verify reports what is stale and nothing else |
| all command and stage commands (`all_commands.rs`, `core_commands.rs`, `aux_commands.rs`) | all of the above | `alef all`, `scaffold`, `readme`, `docs`, `e2e generate`, `test-apps generate` | stages that are skipped survive; `--clean` repairs everything |
| command runner (`src/cli/pipeline/helpers.rs`, `commands/build.rs`, `snippets/validators/`) | child process, two pipes, reader threads, a deadline | seven ways to run a shell command | complete output, the command's own verdict, no starved process, the call returns |
| workspaces of several crates (`core_commands.rs`, `dispatch.rs`, `bin_cli/helpers.rs`) | one tree, one keep set, cache and stamp per crate | `generate` and `verify` for all crates or those of `--crate` | a whole run satisfies verify; a crate's deletions spare the others; what passes is its own crate's current output |
| build, test, setup, clean, update (`src/cli/pipeline/commands/`) | tasks of rayon's pool, done commands | check, hooks, FFI crate, fan-out over languages, collect | "ok" means all was done or skipped for a reason; verdicts do not depend on the schedule; FFI before what links it |
| test-apps run, mock server (`commands/test_apps.rs`) | child process, its stdout and stdin, a drop guard | start, two announcements, fan-out, drop | the server outlives the apps and not alef; nobody waits for ever |
| version sync (`src/cli/pipeline/version*.rs`) | version fields, registry pins, test apps, READMEs, stamps | `sync-versions [--set, --bump, --regen]`, the end of `generate` | a command that succeeds leaves one version everywhere; a repetition is silent |
| publish prepare (`src/publish/`) | shipped manifests, locks, vendored crates, staged libraries | hooks, vendoring, rewriting, lock regeneration with retries, staging | what is reported as prepared can be built without the workspace |
| go-tag (`src/cli/commands/go_tag.rs`) | tags of clones and of the remote | look in the clone, look at the remote, tag, push | no published tag moves; each is at a commit of its release; the report is true |
| formatting (`src/cli/pipeline/format.rs`) | none | `poly`, `cargo fmt`, `cargo sort` | one step of `AlefGenerate`; see section 9 |
| extraction, IR, configuration, backends, adapters, scaffold, README, docs and e2e generators | none | pure functions | out of scope: constants of the model |

Components interact by calls within one process, single-threaded but for rayon loops over files or languages, and
through the file system between processes: `alef all` skips a suite because an earlier `alef e2e generate` left a
record, verify judges a file by a stamp that another command wrote, version sync rewrites alef.toml under the stamps of
the generation it ends, prepare finds what an earlier prepare left.  There are no messages and no locks; `.alef` is
written without rename or fsync, so a kill lands between any two writes.

Hard behaviours, and where `PROJECT.json` lists them as hazards: state read at three moments of one run (key, parse,
stamp); two files that form one record written one after the other; a keep set gathered over a dozen passes and used by
a deletion that trusts it; records shared by filtered and unfiltered commands; files changed behind alef's back (`git
checkout`, `rm`, an editor); kills and failing steps anywhere; pipes that fill, deadlines, and children that outlive
their parent; tasks of a pool that fail, hang and share work; crates that are dealt with one after the other and share
manifests and directories; a registry that lags, a remote that cannot be reached.

## 2. The modules

| Module | Models | Extends |
|---|---|---|
| `AlefTree` | the data: inputs, emitted files, the marks in a file, writing, stamping, formatting, deleting, judging one tree; pure operators, no state | |
| `AlefGenerate` | `alef generate` and `alef diff` step by step, for one crate, with IR cache, language cache, kills and edits during the run | `AlefTree` |
| `AlefAll` | `alef all` and five stage commands pass by pass, with stage records, `--lang`, `--clean`, kills, failing passes | `AlefTree` |
| `SourcesMemo` | `sources_hash` stat by stat and read by read, with a memo shared by two sets of files | |
| `SourcesHash` | what `sources_hash` promises: the canonical function, without a memo; implemented by `SourcesMemo` | |
| `AlefCommand` | one external command: caller, reader threads, shell, background job, pipes, deadline | |
| `AlefFanOut` | `build`, `test`, `setup`, `clean`, `update`, `test-apps run`: phases, tasks on a pool of workers, the mock server; a command of `AlefCommand` is one step here | |
| `AlefWorkspace` | `generate` and `verify` over several crates in one tree; the steps of one crate, those of `AlefGenerate`, are taken together | `AlefTree` |
| `AlefSync` | version sync over several crates that share manifests, with the generation it ends | |
| `AlefPrepare` | `publish prepare` language by language, with the lock's retry loop against a registry | |
| `AlefGoTag` | `go-tag` git command by git command, several clones and one remote | |
| `MCGenerate`, `MCAll`, `MCSourcesMemo`, `MCCommand`, `MCFanOut`, `MCWorkspace`, `MCSync`, `MCPrepare`, `MCGoTag` | instances for TLC | the module they are about |
| `AlefGenerateProofs`, `AlefAllProofs`, `SourcesMemoProofs`, `AlefFanOutProofs`, `AlefWorkspaceProofs`, `AlefSyncProofs`, `AlefPrepareProofs` | theorems | the module they are about |
| `AlefCommandProofs` | theorems | `AlefCommand` and `AlefGoTag` |

### How they correspond to the code

**Data.**  A version of all Rust sources is a value of `Sources`, a version of alef.toml a value of `Configs`;
`Api[s][c]` is what `pipeline::extract` computes.  What a generator emits is a function of surface and configuration: a
file's content is the pair of them (`Body`), plus the fixture version for a suite, plus whether a formatter has
rewritten it (`form`) and the stamp it carries.  Hash functions are injective: a hash is the tuple it is computed from.
A path has a directory, a directory its ancestors; `Marked` are files whose header makes `finalize_hashes` stamp them,
`Phrased` those whose header cleanup recognises, `Scanned` those with an extension and place that verify looks at.

**`AlefGenerate`.**  Disk variables are `disk`, `irJson`, `irHash`, `langHash`, `manifest`, `genHash`; the others are
the locals of the handler, cleared when a run ends in any way.  `pc` walks the statements of the handler: `Start`
(arguments, `load_config`), `ExtractCached`/`ExtractMiss`/`Parse`/`WriteIrJson`/`WriteIrHash` (extract.rs:32-98,
cache.rs:131-160), `SelectLangs` and `EmitLangHash`/`EmitLangManifest` (generation.rs, whose cached languages drop out
of the results), `ReadSourcesHash` (core_commands.rs:77), `SkipLang`/`StartLang`/`WriteFile`/`FilesWritten` (81-112),
`SkipAux`/`StartAux` for services, public API and stubs, `EnumerateScaffold` (215-224), `Cleanup`, `Sweep`, `Format`,
`Finalize` (226-256).  `FinalizePartly` is the parallel stamping loop that stops at an error, `Abort` a kill or an
error anywhere.  `Orders` is the iteration order of the configuration's hash maps, which enters a cache key when the
configuration is serialised: it differs from process to process.

**`AlefAll`.**  A run is the sequence `todo` of the passes its handler still has to make; `Effect` is the tree after
the next one.  `Emit`, `WriteBindings`, `WriteServices`, `WriteAux`, `WritePages`, `KeepPages`, `TreePass` are the
passes of all_commands.rs:59-390 in that order; `StageHit`, `StageMiss`, `StageTreePass`, `WriteStageHash`,
`WriteStageList` are the suites within it and the stage commands.  `Stop` ends a run after a part of the next pass,
`GoOn` continues after a part of a pass whose errors the handler ignores.  `run.host` says whether this host has the
sources that optional reference pages are made from; `Recorded` is `use_stage_cache` (core_commands.rs:446).

**`SourcesMemo`.**  `Call`, `StatFile`, `Hit`, `Miss`, `ReadFile`, `ReadAll`, `WriteMemo`, `Missing` are the statements
of cache.rs:28-107 and hash.rs:156-168; `EditFile` and `DeleteFile` come between any two of them.  `held` is a history
variable: the contents each file has had since the call began.

**`AlefCommand`.**  `mode` selects one of seven callers.  Each process writes its blocks in order and blocks when a
pipe is full; `reader[s]` says who has the reading end.  `Spawn`, `StillRunning`, `PollAgain`, `TimeOut`, `ShellEnded`,
`ThenStderr`, `Joined` are the caller; `Read`, `ReadEnds`, `PumpFails` its reader threads.

**`SourcesMemo` and `SourcesHash`.**  `Canonical` is the instance: the abstract call is in progress from `Call` to the
return, its history of contents is `held`, and the memo, the stats and the torn writes have no counterpart.  A step of
the code is a step of the canonical function or none.

**`AlefFanOut`.**  `at` and `todo` walk the phases of the function, in the order of its body (`Phases`): `Check`,
`BuildRust`, `BuildFfi`, `Before`, `PostBuild`, `PostE2e`, `Host`, `Plan` (dedupe_plans), `Collect`, `End`.  A task is
taken by one of `Workers` threads (`Take`), checks its precondition and runs its hook and its commands, each of which
succeeds, fails or, in setup, hangs until it times out.  `Spawn`, `ReadLine`, `ReadEof`, `NotStarted` are
start_mock_server; `guard` is what the parent holds of the server, and its drop closes the server's stdin, after which
`StdinEof` ends it.  `Kill` ends alef and drops nothing but its pipes.

**`AlefWorkspace`.**  `Write`, `Delete`, `StampKept` are the passes of one crate up to the files, the two deleting
passes, and the stamps; `Unreadable` is a crate whose sources cannot be read, which ends the command.  `Candidates`,
`NothingStale`, `HashConsistent` are verify.  `rooted` remembers whose scaffold pass put `poly.toml` in the keep set.

**`AlefSync`.**  A file with a version field is a number, its place in the body of `sync_versions`, which visits them
in that order (`Visit`, `VisitFails`); then `Finalize` (stamps), `SyncPins`, `RegenApps`, `RegenScaffold`, `Readmes`.
`SetVersion` and `Bump` are what comes before; `StartPlain` a sync without either; `Emit` and `StampBindings` what
matters of the generation before it.  `cmd.kind` is the command, `todo` the crates it has left.

**`AlefPrepare`.**  Phases of `pc` are the statements of publish/mod.rs:44-125 for one language and of vendor.rs:
`VendorRemove` to `VendorDeps`, `RewriteManifest`, `SeedLock`, one `Update` per member, `Validate...`, then `Retry`,
`GiveUp`, `Lenient` or `DiscardLock`.  A lock is what matters of Cargo.lock: members locked by path, members locked
from the registry, and whether cargo has accepted it as a whole.  `Propagate` is the index catching up.

**`AlefGoTag`.**  `CheckLocal`, `CheckRemote`, `MakeTag`, `Push` are the four commands of create_and_push_tag; what git
does in each (a name that exists, a lease that is not held) is modelled from git's behaviour and marked external.
`Longer[t]` are the names that contain the name t when the listing is searched for it.

### Abstractions shared by all

One alef binary (its identity is in every key and never changes); no second alef process in the same tree at the same
time (`AlefGoTag` has several clones).  `AlefGenerate` and `AlefAll` have one crate, and take the version pin written
at the start of a run and the `sync_versions` that ends it to change nothing, which is so once the versions agree:
`AlefSync` models that end when they do not, and `SecondGenerateSettles` says that one more generation brings the tree
into the state the other two start from.  `AlefWorkspace` has several crates.  A write of one file is atomic, except
for the memo, whose torn writes are modelled.  Existing hooks, logging, counts and exit codes are left out.  Specific
to one module: `AlefAll` has no edits during a run (`AlefGenerate` does) and takes the surface for current
(`IrAlwaysCurrent` below), leaves out `alef stubs`, `test-apps --clean`, `docs --output` and `--skip-frb`, and takes a
`--lang` that names every language for no filter; `SourcesMemo` has one call at a time, source lists without
duplicates, and cuts a torn memo at the end of a line (a cut inside a line loses or spoils that one entry, which the
parser drops or which then matches nothing); `AlefCommand` leaves out errors of `try_wait`, and alef's exit, which ends
reader threads left behind by a timeout; `AlefFanOut` has one call for one crate and no effects of tools but success;
`AlefWorkspace` has one way to serialise a configuration and no auxiliary files; `AlefSync` leaves out dates, pnpm,
cargo, composer and the Swift checksum; `AlefPrepare` leaves out dry runs; `AlefGoTag` has one crate per run, and takes
a tag for the commit it is at, so that a push of a tag that the remote has is refused unless this clone has fetched
that very tag.

## 3. Runs that pass

| Run | Question | Bounds, and why they are enough |
|---|---|---|
| `generate_edits` | Are caches, stamps and deletions right over full, filtered and `--clean` runs, edits, restored and deleted files, and cache keys that vary with hash order? | two languages (one to skip, one to generate), two sources and two configurations of which one hides the other's difference, two orders, two edits: away and back, the way a stale record comes to match again |
| `generate_kills` | Does a run keep its promises about its own files under a kill or failure anywhere, with `alef diff` between runs, and does `--clean` repair what killed runs left? | two faults, one edit: a fault during the repair of a fault |
| `all_edits` | Do the stages of `alef all` and the stage commands agree about files and records? | two languages, two stages with records, two source and fixture versions, two edits, hosts with and without the optional page's sources |
| `all_clean` | Does `alef all --clean` repair the tree after filtered commands, kills, ignored failures, checkouts and hand edits? | one edit and one fault, with `alef all` and `alef e2e generate` in any order and number |
| `workspace` | Do several crates in one tree leave each other's files alone, and does verify judge each by its own inputs? | two crates of one language, with a source version that renames a file; three edits, missing sources included, and one kill or failing scaffold pass: enough for one crate to be edited, generated alone and overtaken by the other |
| `memo_calls` | Does `sources_hash` implement the canonical function, with edits between any two steps, kills and a full disk? | two files, two sets of which one contains the other, three contents of two sizes, three ticks of the clock |
| `command_runs` | Are output and verdict right, and do calls return, for all seven callers? | pipes of one block, commands that write up to three blocks on two streams, with and without a background job, that end, hang or stay |
| `fan_out` | Are the verdicts of the six commands complete and the same for every schedule, does each call return, and does the mock server live as long as it must? | two workers and four languages: the Rust crate, the FFI crate, one that links it and one that does not; two share a command; every precondition, hook and command may fail, and in setup hang |
| `sync_edits` | Does a sync that reports success leave one version everywhere, and is the next one silent? | two crates, five files: one that both own, one member of the workspace only, one whose write may fail softly, one emitted and one scaffolded file with a header; two versions, one edit, one fault |
| `publish_prepare` | Can everything that prepare reports as prepared be built elsewhere, whatever earlier runs left, and does every run end? | one language of each vendor mode and one configured for the registry that ships no manifest, two members of which one is a dependency of one language only, three attempts (the code has six; one is first, one last, one between), one fault, one checkout, three selections of languages |
| `go_tag` | Do published tags stay, at commits of their release, and is the report true? | two clones, a release candidate whose tag begins with the release's, two commits, one moved release or deleted tag, one fault |

Bounds by name: `MaxEdits`, `MaxFaults`, `MaxTime`, `Room`, `MaxVersion`, `MaxRestores`, `MaxMoves`, `Attempts`,
`Workers`.  A run of a command can follow any other without bound; only edits and faults are counted, since each
multiplies the states and the properties need at most an edit, its reversal and a fault to fail (every violation in
sections 4 and 5 is found within them).

What the properties say:

* `IrIsCurrent`: a run works on the surface of the inputs it was started on, cached or not.
* `StampSound`: a binding stamped with some inputs holds what those inputs emit; `VerifyCleanAfterRun`,
  `VerifyCleanAfterAll`, `WholeRunVerifies`: no scanned file keeps an old stamp when a run ends.
* `CachedLangComplete`: a language that counts as cached has all its files; `SuiteRecordsCurrent`: a suite that counts
  as up to date is as this run would emit it.
* `RegeneratedCurrent`: files of the languages a run generated are on disk with the emitted content through all later
  passes, and stamped at the end.
* `DeletesOnlyOrphans`, `SuitesSurvive`, `PagesSurvive`, `OthersSpared`: action properties of the deleting passes.
* `CleanRunRepairs`, `CleanAllRepairs`, `WholeCleanRunComplete`: what `--clean` restores, whatever came before.
* `PassedIsCurrent`: what verify lets pass in a tree of several crates was emitted from its own crate's inputs.
* `ResultIsCanonical`: the memo's answers; `Memoised`: the whole refinement, that every call is answered included.
* `OkIsComplete` (of `AlefCommand`: all output was received; of `AlefFanOut`: all commands of all languages ran),
  `VerdictIsTheCommands`, `NeverStarved`, `Returns`.
* `FailureIsTheFirst`: which error is reported does not depend on the schedule; `BuildsOnFfi`; `ServedThroughout` and
  `OrphanDies`: the server outlives the apps and not alef, even a killed one; `Ends`: no call hangs.
* `SyncedAgree`, `AppsFollow`: one version everywhere after a success, whatever state it started from;
  `SilentInAgreement`: no write at any step of a sync where nothing is out of date; `SecondGenerateSettles`.
* `ReadyIsShippable`, `GivesUpLate`, `Ends` of `AlefPrepare`: see the module.
* `TagsStay`, `TagsOfRelease`, `ReportedOrSkipped`: see the module.

Each module has a type invariant `TypeOK`, proved for each of them (section 7; `CallTypeOK` in `AlefCommand`);
`all_edits` and `sync_edits` also check it.

Deadlock is checked in every run but those of `AlefCommand`, `AlefFanOut` and `AlefPrepare`, whose calls return, or
whose developer has used up checkouts, and then stop, and the ones whose configuration says otherwise.

### Fairness

`AlefGenerate`, `AlefAll`, `AlefWorkspace`, `AlefSync` and `AlefGoTag` are checked for safety only: a run is a
sequential program that waits for nobody but git and the tools it calls, so its progress is not in question.

* `AlefCommand`: weak fairness of the calling thread, of each reader thread and of each process that can take a step
  (the operating system schedules them), of the clock (`Deadline`), and of the shell's fork.  A process that is not in
  `script.ends` has no step left after its writes and so is never forced to end: `Exit` is guarded by it.  Nothing
  assumes that a blocked writer is ever read.
* `AlefFanOut`: weak fairness of the function itself (`Main`), of each task's own steps (`Ready`), of the server's
  threads, which may crash instead at any time, of each hook and command other than setup's, which may hang for ever,
  and of the timeout.
* `AlefPrepare`: weak fairness of the steps of a run, taken together: cargo and hooks end.  The registry need never
  catch up.
* `SourcesMemo`: weak fairness of the steps of a call (`Progressing`), which reads files and waits for nobody.

## 4. The run that shows a disagreement

`cached_deleted` checks one property that states a sentence of the repository, quoted in `PROJECT.json` under
`findings`: an unfiltered run deletes the valid files of a language it skipped as cached, because the keep set of the
deleting passes is built from the results, which the skipped language is not part of.

## 5. Conditions: where the properties stop to hold

The conditions of the passing runs and of the theorems are not there for convenience.  Each of the configurations below
drops one, or asks for more than the code does; TLC finds the property violated (`tlc -config <file>.cfg <MC module>`,
seconds for most of them).

| Configuration | Property | What happens |
|---|---|---|
| `DiffThenGenerate` | `CachedLangCurrent` | `alef diff` records the hashes of what it did not write, and the next run skips the change it reported |
| `EditDuringRun` | `StampSound` | an edit between parsing and stamping puts the new inputs' stamp on the old output |
| `KilledIrWrite` | `IrIsCurrent` | a kill between `ir.json` and `ir.hash` pairs a surface with another key |
| `KilledEmit` | `CachedLangComplete` | a kill between hash, manifest and files leaves a language that counts as cached with files missing |
| `ScaffoldStamp` | `StampTellsInputs` | scaffold files are stamped with inputs they were not generated from |
| `BlindStamp` | `VerifyFindsStale` | sources outside `sources` change the output and not the stamp |
| `StubSkip` | `AuxCurrent` | restored stubs stay stale: the record is believed, the disk not looked at |
| `AllFilteredSuite` | `SuitesSurvive` | a filtered `e2e generate` records its short list under the common key: `alef all` then skips the suite and deletes the rest of it |
| `AllKilledSuite` | `SuitesSurvive` | a stage hash without its list counts as complete and as empty: the whole suite is deleted |
| `WorkspaceRoot` | `OthersAlwaysSpared` | every crate's scaffold pass keeps poly.toml in the root, so cleaning up after one crate walks the whole tree and deletes the files of the others (the condition `c \notin rooted` of `OthersSpared`) |
| `WorkspaceFiltered` | `FilteredVerifies` | `alef --crate a verify` calls the files of every other crate stale, and their hashes inconsistent |
| `MemoSameStat` | `ResultIsCanonical` | a content changes and its time and size do not |
| `MemoDiskFull` | `ResultIsCanonical` | a memo cut short passes for the memo of a smaller set |
| `CommandLoud` | `TimedOutWasSlow` | a hook that writes more than a pipe holds is killed as timed out, because nobody reads the pipe |
| `PublishMasked` | `GenuineSurfaces` | a genuine error of one member is retried when another member's failure, seen later, looks like lag |
| `BumpTwice` | `BumpAgrees` | `--bump` is part of the sync of each crate: with one version_from for two crates the version moves twice, and the first crate's manifests keep the version between |
| `GoTagRetry` | `ReportedArePushed` | a tag whose push failed stays in the clone; the next run finds it there, skips it and reports it as created and pushed |
| `GoTagPrefix` | `ReportedArePushed` | the listing of the remote is searched for a text, and the tag of a release candidate contains the name of the release's: that one is skipped and reported as pushed |

## 6. Mutants

For each property of a passing run a module holds a slip: an operator, marked as such in a comment, that differs from
the definition after it as a plausible bug would, and that is used nowhere.  Put in its place it makes TLC report the
property violated in that run: a lost disk check (`LangCachedUnchecked`, `MatchesDiskUnchecked`), a file that is
written or stamped only once (`WrittenOnce`, `StampedOnce`), a skip that forgets its keep set (`SkipAuxUnkept`,
`ReadNoPaths`, `KeepNoPages`) or ignores `--clean` (`SkipAuxEvenClean`, `StageCachedEvenClean`, `UncachedUnforced`), a
key without the fixtures (`StageKeyNoFixtures`), the first crate's stamp for all (`StampAsFirst`, `CandidatesFirst`), a
memo compared in part or stats taken twice (`MatchesPart`, `MissRestats`), one reader joined of two, a polling loop
that restarts its clock, a retry that is not counted or falls out of its loop (`RetryUncounted`, `GiveUpFallsOut`),
commands deduplicated against languages that do not run (`UniqueOfAll`), a server handle dropped early or stdin
inherited by the apps (`StartedThenDropped`, `StdinOpenToApps`), pins and apps synced only with a manifest
(`PinsIfUpdated`, `AppsIfUpdated`), a forced push, a tag at HEAD.  `PROJECT.json` lists them.

## 7. Theorems

The proofs hold for all values of the constants that satisfy the `ASSUME`s of the modules.

**`AlefGenerateProofs`** assumes `TreeAssumed` and `GenerateAssumption` (kinds of the constants only).

* `TypeCorrect`: `TypeOK`, strengthened to `TypeInv` by what is set when: the locals of a run that is under way.
* `RegeneratedStayCurrent` and `DeletionsAreOrphans`, for any edits, kills and failures.  `RegeneratedCurrent` is not
  inductive: that a file is still there after cleanup depends on its being in the keep set, that it is in the keep set
  on the passes before.  `RunInv` adds `KeepInv` (which files are in the keep set at each step) and `DiskInv` (for each
  language the run is done with, the files on disk, and for the one in hand, the files not in `writing`).

The rest of the module proves more under stated conditions, each of which section 5 or the text here shows to be
needed.

* `IrAlwaysCurrent`, under `Undisturbed`: no edits while a run is in progress and no faults (`EditDuringRun`,
  `KilledIrWrite`).  `IrInv` ties `ir.json` to the key in `ir.hash`.
* `StampAlwaysSound`, under `Undisturbed`, `Separate` (a binding is not also a stub, public-API or scaffold file, see
  `ScaffoldStamp`) and `TruthfulStart` (the initial tree's stamps are sound).  The invariant is `StampSound` with
  `KeptBindings`: a binding that will be stamped has been written or compared this run.
* `CachedAreComplete`, under `MaxFaults = 0` (`KilledEmit`).  That a language which counts as cached has the files of
  the *current* surface is not inductive, since its hash is written before its manifest and both before its files:
  `ManifestInv` says of a recorded hash that its manifest is that of the surface in the key, the language in hand
  apart.
* `RunVerifies`, under `Undisturbed`, `Rooted` and `HashesMarked`.  `SweptInv`: after cleanup every scanned file with a
  hash is kept, and what is kept is stamped in the end.  `Rooted` says that a scaffold file lies in a directory above
  all scanned files (poly.toml in the root is one): cleanup walks the directories of kept files only, so without it a
  stale file of a language that is no longer configured would stay.  `HashesMarked` is about the first tree.
* `CleanRepairs`, under `~LiveEdits` alone: whatever kills, failures, edits and restored files came before.  `CleanInv`
  (the surface in hand is that of the current inputs), `AuxInv` (the files of the other kinds are there as emitted once
  the run is past them, on top of `DiskInv`) and `StampedInv`.

**`SourcesMemoProofs`** assumes `MemoAssumption`.

* `MemoTypeCorrect`; `MemoTellsAlways` under `FreshTimes` (an edit changes the modification time): what the memo says
  of a file that still has the recorded time is what the file holds, by an invariant that times never exceed the clock
  and that what was read after its stat is at least as new; `ResultAlwaysCanonical` under `FreshTimes` and
  `NoTornPrefix`: a torn memo is not the complete memo of another of the sets.  `MemoSameStat` and `MemoDiskFull` show
  that neither condition can go.
* `MemoIsTransparent`: under the same conditions `SourcesMemo` implements `SourcesHash`, initial states to initial
  states and each step to a step or a stutter (`Canonical!Safe`, the safety part of `Memoised`).

**`AlefAllProofs`** assumes `TreeAssumed`, `AllAssumption` and `NoneAssumption` (kinds of the constants, and that
`None` is no record).  The module is about some twenty passes that share one keep set and one tree, so each theorem
first needs to know where the run is: `TodoInv` says that the passes left are a suffix of the handler's (`After`), and
with it a pass has a number, `Here`, that the other invariants refer to.

* `AllTypeCorrect`, without conditions.
* `PagesAlwaysSurvive` under `SuitesApart` and `PagesCollected`, for any kills, failures, filters, edits and hosts.
  `PagesKept`: at the two deleting passes every page with a hash is in the keep set, but for those in a directory both
  passes pass over.  `SuitesApart` says that a suite's files lie in the suite's directory (`e2e/`, `test_apps/`) and
  that nothing else emits there; scaffold does not.  `PagesCollected` is about a page in a directory such as `vendor`
  or `dist`: the collection of the pages (all_commands.rs:346) and the sweep skip it, and the cleanup has a list of its
  own, which is not the same; a page in a directory that is on the first list only would be deleted.
* `SkippedSuitesSurvive` under `Undivided` (`MaxFaults = 0` and no `--lang`, see `AllKilledSuite` and
  `AllFilteredSuite`) and `SuitesApart`.  `ListInv`: the list of a suite's record names the files of the surface in the
  record, unless the suite is being recorded; `KeptInv`: once `alef all` is past a suite, its list is in the keep set,
  and nothing else in the suite's directory is.
* `CachedSuitesAreCurrent` under the same and without restored or hand-edited files.  `BodyInv`: the files of the
  recorded surface that exist hold what was recorded, whatever is deleted, reformatted or stamped by other commands.
* `AllLeavesVerifyClean` under the same (hand edits allowed), `Rooted`, `Tended` and `Headed`.  `Rooted`: a scaffold
  file (poly.toml) lies above all that verify scans, since cleanup walks only directories above kept files.  `Tended`:
  what verify scans where cleanup may not go is in the directory of a suite, where the suite's own sweep goes.
  `Headed`: in the first tree only files with a header carry a hash.  `TidyInv` says that a suite with a record has no
  orphans, so that a skipped suite adds nothing stale; `SweptInv` follows the hashes through cleanup, sweep and
  `finalize`.
* `CleanAllAlwaysRepairs` under `SuitesApart` alone.  `CleanInv`: of every stage the run is past (`Plain`), the files
  are in the keep set and on disk as emitted, through the passes that format, delete and stamp the files of other
  stages.

`SuitesApart`, `PagesCollected`, `Rooted`, `Tended` and `Headed` hold in `MCAll`, and `Undivided` in `AllEdits`; the
invariants were model-checked there before they were proved.

**`AlefCommandProofs`** assumes `CommandAssumption` and `GoTagAssumption`.  Of `AlefCommand`:

* `CommandTypeCorrect`, `OkIsAlwaysComplete`, `VerdictStaysTheCommands`, by conservation of blocks (what was sent is in
  the pipe or was received), why a reader is gone (`ReaderInv`) and how the shell ended (`ShellInv`, `ResultInv`).

Of `AlefGoTag`, whose assumption says that a tag belongs to one version:

* `TypeCorrect`, `TagsNeverMove`; `TagsAreOfTheirRelease`, whose invariant `Traced` follows the commits through the
  clones; `ReportsAreAccounted`, whose invariant `Reports` says of a run under way that the tags before the one in hand
  are accounted for, and that what its clone has, it had before, or the remote has, or it is about to push.

**`AlefFanOutProofs`** assumes `FanOutAssumption` (a list without repetitions, at least one worker).

* `FanOutTypeCorrect`, `FfiBeforeDependents`, `AppsAreServed`, `FirstFailureIsReported` for any languages, commands and
  workers.  The invariant `IndInv` says which tasks may be in which state in which phase (`TaskInv`), what a failed
  task means for the result, that from the phase `ffi` on the crate is built or a task of its own or nobody needs it
  (`FfiInv`), and what the parent holds of the server in each phase.  That there is a *first* failed language, for a
  list of any length, is the least element of a set of indices.
* `OkSaysComplete`: `OkIsComplete` at the end of a call needs, of every phase before, which commands of which languages
  it has done, and of every task, that what is not on its list any more has been done.

**`AlefWorkspaceProofs`** assumes `WorkspaceAssumption`.

* `TypeCorrect`; `PassedAreCurrent` under `Apart` (crates share no sources and no paths, and a hash tells the version
  of the sources) and `TruthfulStart`; `OthersAreSpared` under `Fenced` (what lies beneath the directories of a crate
  is its own, poly.toml apart) and `Headed` (in the first tree only files with a header carry a hash).  That output
  paths do not overlap is what resolution of alef.toml checks.
* `WholeRunsVerify` under `Tended` (every scanned file that alef marks lies in a directory the sweep walks for some
  crate) and `Headed`.  `TidyInv`: beneath the sweep roots of a crate that is done, every hash is that of a crate that
  is done; it holds while a command runs and until something is edited (`Lasting`), which is why no history before the
  latest command matters.  That the hashes are at most as many as the crates is a cardinality argument.
* `CleanRunsComplete` under `PathsApart`, `Fenced` and `Headed`.  `WholeInv`: a crate that is done stays whole unless a
  later one is in `rooted`, because crates come in order and a deleting pass stays in its crate's territory.

**`AlefSyncProofs`** assumes `SyncAssumption`.

* `SyncTypeCorrect`.
* `SyncAgrees` and `RegenFollows`, under `~BumpAll` (`BumpTwice`) and `VersionFromOrder`.  `CurrentInv` says of the
  crate at work which files tell its version already; `AgreeInv` says of the crates before it that the files, the pin
  and the apps they told (`FilesTold`, `PinTold`, `AppsTold`) have the version of a crate that is done, although the
  sync of a later crate writes the same files, another crate's version_from among them (`Members`).
  `VersionFromOrder`: a version_from is the root's manifest, which no sync writes, or a member's, which every sync
  does, and crates with a member's come last.  The code does not ask for that order, and without it the property fails:
  when the first crate reads a member's manifest and the second the root's, the second sync rewrites the member's, and
  with it the version that the first crate has already told.
* `CalmSyncIsSilent`, under `ReplacedUnstamped`: a file with an `alef:hash` line which a text replacement names is
  stamped again by every sync.  `CalmInv` follows the agreement through all steps of the command.
* `SecondSettles`, under the three conditions.  The first generation may write the pins after it has stamped; `GensInv`
  says that from the end of the first on all agrees (`Whole`), so that the second finds nothing to do to versions and
  pins, and that what it has stamped is clean (`Cleans`, `AllClean`).

**`AlefPrepareProofs`** assumes `PrepareAssumption`.

* `PreparedStaysShippable`: `ReadyIsShippable` is not inductive, since a language is prepared over a dozen steps and a
  later language's run must leave the earlier ones alone; `WorkInv` says what each step has established for the
  language at work, whatever manifest, lock and crate it found.  `LagIsOutwaited` and `PrepareTypeCorrect` follow from
  the same invariant, `PrepareInvariance`.

## 8. Only model-checked

All liveness (`NeverStarved`, `Returns`, `OrphanDies`, both `Ends`, the liveness part of `Memoised`): the prover has no
rule for fairness or `ENABLED` here.  The properties of sections 4 and 5 are false under the conditions stated there.

## 9. Not modelled, and the plan

Not modelled because they have no state of alef's own: extraction passes, configuration, backends, adapters, shared
code generation, template engines, scaffold, README, docs and e2e generators (about 95% of the source text).  They are
functions from text to text; the models take them as constants.  One-shot queries of registries
(`release_commands.rs`), argument parsing, the version pin, extensions, snippets but for the process runner of their
validators.

Parts of modelled components that are left out, with the reason:

* The formatter's loop of at most three passes (format.rs:164-180): poly, rustfmt and cargo-sort rewrite each other's
  output, and whether three passes are enough is a fact about them; alef warns and goes on either way.
* `test-apps --clean` (aux_commands.rs:289-309) holds lock files in memory while their directory is removed and made
  again; a kill in between loses them, and no code handles it.
* README templates (core_commands.rs:404) are not part of the key of the README record; `AlefAll` has no templates.
* `package` reads the manifest of a registry-mode language and nothing of its lock (publish/mod.rs:387), and takes a
  library from `target/release` when the triple's directory has none (publish/package/mod.rs:124): what cargo built,
  and for which host, is not recorded anywhere.
* A setup command that fails is reported as timed out (setup.rs:50): a wording.
* The date in CITATION.cff (version.rs:426), which makes the first sync of each day write.
* `alef all` over several crates: `AlefWorkspace` has `generate` only.

To be done, in this order:

1. An abstract specification of a run (the tree jumps from one set of current files to the next, files that belong to
   nobody disappear), implemented by `AlefGenerate` and `AlefAll` under the conditions of the theorems; with it
   `AlefWorkspace` can be composed from the steps of `AlefGenerate` instead of restating them.
2. README templates as an input of their own next to the fixtures, and `alef all` over several crates.

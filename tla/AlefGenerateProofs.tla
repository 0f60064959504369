------------------------- MODULE AlefGenerateProofs -------------------------
(***************************************************************************)
(* Proofs about AlefGenerate, for every value of its constants: type       *)
(* correctness, what the deleting passes may remove, and what a run leaves *)
(* on disk for the languages it generated; what the caches, the stamps and *)
(* `alef verify` tell; what --clean repairs.  Edits, restored files, live  *)
(* edits and faults are bounded only where a theorem says so.              *)
(***************************************************************************)
EXTENDS AlefGenerate, TLAPS

-----------------------------------------------------------------------------
(* What a local of the run is known to be, step by step: the part of type  *)
(* correctness that TypeOK leaves to the position of pc.                   *)

Writes    == {"bindings", "writing"} \cup AuxKinds
Concludes == {"scaffold", "cleanup", "sweep", "format", "finalize", "done"}

PhaseOK ==
    /\ pc # "idle" => run \in Runs
    /\ pc \in {"parse", "ir_json", "ir_hash"} => key \in Keys
    /\ pc \notin {"idle", "extract", "parse"} => api \in Apis
    /\ pc \in Writes \cup Concludes => srcHash \in Hashes
    /\ pc = "writing" => cur \in Cats

TypeInv == TypeOK /\ PhaseOK

\* Files of any kind lie in the working tree.
LEMMA CatFilesInPaths ==
    ASSUME api \in Apis, run \in Runs, NEW k \in Cats
    PROVE  CatFiles(k) \subseteq Paths
BY TreeAssumed DEF TreeAssumption, CatFiles, AuxFiles, Cats, Runs

\* What a restored file may be lies in the working tree.
LEMMA GeneratedInPaths == ASSUME NEW a \in Apis PROVE GeneratedFrom(a) \subseteq Paths
<1>1. ASSUME NEW l \in Langs PROVE Outputs[l][a] \subseteq Paths
  <2>1. Outputs[l] \in [Apis -> SUBSET Paths]
    BY TreeAssumed DEF TreeAssumption
  <2> QED
    BY <2>1
<1>2. ASSUME NEW k \in AuxKinds PROVE AuxFiles(k, Langs, a) \subseteq Paths
  <2>1. \A l \in Langs : Aux[k][l] \in [Apis -> SUBSET Paths]
    BY TreeAssumed DEF TreeAssumption
  <2>2. \A l \in Langs : Aux[k][l][a] \subseteq Paths
    BY <2>1
  <2> QED
    BY <2>2 DEF AuxFiles
<1> QED
  BY <1>1, <1>2 DEF GeneratedFrom

\* write_files leaves the content it was given.
LEMMA WrittenFile ==
    ASSUME NEW f \in Files \cup {NoFile}, NEW b \in Bodies
    PROVE  Written(f, b) \in Files /\ Exists(Written(f, b)) /\ Written(f, b).body = b
BY TreeAssumed DEF TreeAssumption, Files, Written, SameBody, Exists, Fresh

\* Changing a mark or the layout of a file keeps it, and its body.
LEMMA MarkedFile ==
    ASSUME NEW f \in Files, NEW st \in Stamps
    PROVE  /\ f # NoFile
           /\ [f EXCEPT !.stamp = st] \in Files \ {NoFile}
           /\ [f EXCEPT !.stamp = st].body = f.body
           /\ [f EXCEPT !.stamp = st].stamp = st
<1>1. NoFile \notin Files
  BY TreeAssumed DEF TreeAssumption
<1>2. [f EXCEPT !.stamp = st] \in Files
  BY DEF Files
<1> QED
  BY <1>1, <1>2 DEF Files

\* The formatter keeps a file and its body.
LEMMA RestyledFile ==
    ASSUME NEW f \in Files
    PROVE  /\ [f EXCEPT !.form = "fmt"] \in Files \ {NoFile}
           /\ [f EXCEPT !.form = "fmt"].body = f.body
<1>1. NoFile \notin Files
  BY TreeAssumed DEF TreeAssumption
<1>2. [f EXCEPT !.form = "fmt"] \in Files
  BY DEF Files
<1> QED
  BY <1>1, <1>2 DEF Files

\* finalize_hashes and the formatter make no file out of nothing, remove
\* none and keep every body.
LEMMA StampedFile ==
    ASSUME NEW f \in Files \cup {NoFile}, NEW p, NEW st \in Stamps
    PROVE  /\ Stamped(f, p, st) \in Files \cup {NoFile}
           /\ Exists(f) => /\ Exists(Stamped(f, p, st)) /\ Stamped(f, p, st).body = f.body
                           /\ p \in Marked => Stamped(f, p, st).stamp = st
           /\ ~Exists(f) => ~Exists(Stamped(f, p, st))
<1>1. CASE f \in Files
  BY <1>1, MarkedFile DEF Stamped, Exists
<1>2. CASE f = NoFile
  BY <1>2 DEF Stamped, Exists
<1> QED
  BY <1>1, <1>2

\* The same for one file that may not exist.
LEMMA FormattedFile ==
    ASSUME NEW f \in Files \cup {NoFile}, NEW p
    PROVE  /\ Formatted(f, p) \in Files \cup {NoFile}
           /\ Exists(f) => Exists(Formatted(f, p)) /\ Formatted(f, p).body = f.body
           /\ ~Exists(f) => ~Exists(Formatted(f, p))
<1>1. CASE f \in Files
  BY <1>1, RestyledFile, TreeAssumed DEF TreeAssumption, Formatted, Exists
<1>2. CASE f = NoFile
  BY <1>2 DEF Formatted, Exists
<1> QED
  BY <1>1, <1>2

\* Deleting leaves a working tree, and every other file as it is.
LEMMA DeletionType ==
    ASSUME NEW t \in [Paths -> Files \cup {NoFile}], NEW D
    PROVE  /\ Without(t, D) \in [Paths -> Files \cup {NoFile}]
           /\ \A p \in Paths : p \notin D => Without(t, D)[p] = t[p]
BY DEF Without

-----------------------------------------------------------------------------
(* Type correctness.  The steps are grouped as Next groups them.           *)

USE DEF Steps, Writes, Concludes, AuxKinds

\* The caches start empty.
LEMMA InitTypes == Init => TypeInv
BY TreeAssumed, GenerateAssumption DEF TreeAssumption, Init, TypeInv, TypeOK, PhaseOK

\* A run that ends forgets its locals.
LEMMA ClearLocalsTypes ==
    ASSUME TypeInv, ClearLocals, pc' = "idle", UNCHANGED <<inputs, cache>>,
           faults' \in 0..MaxFaults, disk' \in [Paths -> Files \cup {NoFile}]
    PROVE  TypeInv'
BY DEF TypeInv, TypeOK, PhaseOK, ClearLocals, inputs, cache, irCache, langCache

\* Edits and restored files.
LEMMA DeveloperTypes == ASSUME TypeInv, Developer PROVE TypeInv'
<1> USE DEF TypeInv, TypeOK, PhaseOK, MayEdit, cache, irCache, langCache, locals, loop
<1>1. CASE EditSource
  BY <1>1, GenerateAssumption DEF EditSource
<1>2. CASE EditConfig
  BY <1>2, GenerateAssumption DEF EditConfig
<1>3. CASE RestoreFile
  <2>1. PICK s \in Sources, c \in Configs, p \in Paths :
            \E f \in {Committed(p, s, c), NoFile} : disk' = [disk EXCEPT ![p] = f]
    <3>1. PICK s \in Sources, c \in Configs : \E p \in GeneratedFrom(Api[s][c]) :
              \E f \in {Committed(p, s, c), NoFile} : disk' = [disk EXCEPT ![p] = f]
      BY <1>3 DEF RestoreFile
    <3>2. GeneratedFrom(Api[s][c]) \subseteq Paths
      BY GeneratedInPaths, TreeAssumed DEF TreeAssumption
    <3> QED
      BY <3>1, <3>2
  <2>2. Committed(p, s, c) \in Files
    BY TreeAssumed DEF TreeAssumption, Committed, Files, Bodies, Stamps, Body, Stamp
  <2>3. disk' \in [Paths -> Files \cup {NoFile}]
    BY <2>1, <2>2
  <2>4. edits' \in 0..MaxEdits
    BY <1>3, GenerateAssumption DEF RestoreFile
  <2> QED
    BY <1>3, <2>3, <2>4 DEF RestoreFile
<1> QED
  BY <1>1, <1>2, <1>3 DEF Developer

\* A run starts with its options and the configuration it read.
LEMMA StartTypes == ASSUME TypeInv, Start \/ StartDiff PROVE TypeInv'
<1> USE DEF TypeInv, TypeOK, PhaseOK, inputs, cache, irCache, langCache, loop
<1>1. CASE Start
  BY <1>1 DEF Start, Runs
<1>2. CASE StartDiff
  <2>1. run' \in Runs
    BY <1>2 DEF StartDiff, Runs
  <2> QED
    BY <1>2, <2>1 DEF StartDiff
<1> QED
  BY <1>1, <1>2

\* The key, the surface and the two writes of the IR cache.
LEMMA ExtractTypes == ASSUME TypeInv, Extract PROVE TypeInv'
<1> USE DEF TypeInv, TypeOK, PhaseOK, inputs, cache, irCache, langCache, locals, loop
<1>0. pc = "extract" => IrKey \in Keys
  BY DEF IrKey, Keys, Runs
<1>1. CASE ExtractCached
  BY <1>0, <1>1 DEF ExtractCached
<1>2. CASE ExtractMiss
  BY <1>0, <1>2 DEF ExtractMiss
<1>3. CASE Parse
  <2>1. Api[src][run.cfg] \in Apis
    BY <1>3, TreeAssumed DEF TreeAssumption, Parse, Runs
  <2> QED
    BY <1>3, <2>1 DEF Parse
<1>4. CASE WriteIrJson
  BY <1>4 DEF WriteIrJson
<1>5. CASE WriteIrHash
  BY <1>5 DEF WriteIrHash
<1> QED
  BY <1>1, <1>2, <1>3, <1>4, <1>5 DEF Extract

\* The language hashes and manifests.
LEMMA EmitTypes == ASSUME TypeInv, Emit PROVE TypeInv'
<1> USE DEF TypeInv, TypeOK, PhaseOK, inputs, cache, irCache, langCache, locals, loop
<1>1. CASE SelectLangs
  BY <1>1 DEF SelectLangs, Runs
<1>2. ASSUME NEW l \in Langs, EmitLangHash(l) PROVE TypeInv'
  <2>1. LangKey \in LangKeys
    BY <1>2 DEF EmitLangHash, LangKey, LangKeys, Runs
  <2> QED
    BY <1>2, <2>1 DEF EmitLangHash
<1>3. ASSUME NEW l \in Langs, EmitLangManifest(l) PROVE TypeInv'
  <2>1. api \in Apis
    BY <1>3 DEF EmitLangManifest
  <2>2. Outputs[l] \in [Apis -> SUBSET Paths]
    BY TreeAssumed DEF TreeAssumption
  <2>3. Outputs[l][api] \in SUBSET Paths
    BY <2>1, <2>2
  <2> QED
    BY <1>3, <2>3 DEF EmitLangManifest
<1>4. CASE EmitDone
  BY <1>4 DEF EmitDone
<1>5. CASE DiffDone
  <2>1. ClearLocals /\ pc' = "idle" /\ UNCHANGED <<inputs, faults, disk, cache>>
    BY <1>5 DEF DiffDone
  <2> QED
    BY <2>1, ClearLocalsTypes
<1> QED
  BY <1>1, <1>2, <1>3, <1>4, <1>5 DEF Emit

\* The content a run writes from the moment it has a surface.
LEMMA ContentType == ASSUME api \in Apis, run \in Runs PROVE Content \in Bodies
BY DEF Content, Body, Bodies, Runs

\* The writing phase.
LEMMA WriteTypes == ASSUME TypeInv, Write PROVE TypeInv'
<1> USE DEF TypeInv, TypeOK, PhaseOK, inputs, cache, irCache, langCache, locals, loop
<1>0. pc \in Writes => \A k \in Cats : CatFiles(k) \subseteq Paths
  BY CatFilesInPaths
<1>1. CASE ReadSourcesHash
  BY <1>1, TreeAssumed DEF TreeAssumption, ReadSourcesHash
<1>2. ASSUME NEW l \in Langs, SkipLang(l) PROVE TypeInv'
  BY <1>0, <1>2 DEF SkipLang, Cats
<1>3. ASSUME NEW l \in Langs, StartLang(l) PROVE TypeInv'
  BY <1>0, <1>3 DEF StartLang, Cats
<1>4. CASE BindingsDone
  BY <1>4 DEF BindingsDone
<1>5. ASSUME NEW k \in AuxKinds, SkipAux(k) PROVE TypeInv'
  <2>1. pc' \in {"public_api", "stubs", "scaffold"}
    BY <1>5, TreeAssumed DEF TreeAssumption, SkipAux, After
  <2> QED
    BY <1>0, <1>5, <2>1 DEF SkipAux, Cats
<1>6. ASSUME NEW k \in AuxKinds, StartAux(k) PROVE TypeInv'
  BY <1>0, <1>6 DEF StartAux, Cats
<1>7. ASSUME NEW p \in Paths, WriteFile(p) PROVE TypeInv'
  <2>1. Written(disk[p], Content) \in Files
    BY <1>7, ContentType, WrittenFile DEF WriteFile
  <2>2. disk' \in [Paths -> Files \cup {NoFile}]
    BY <1>7, <2>1 DEF WriteFile
  <2> QED
    BY <1>7, <2>2 DEF WriteFile
<1>8. CASE FilesWritten
  <2>1. pc' \in {"bindings", "public_api", "stubs", "scaffold"}
    BY <1>8, TreeAssumed DEF TreeAssumption, FilesWritten, After, Cats
  <2>2. Pairs(CatFiles(cur), Content) \subseteq Paths \X Bodies
    BY <1>0, <1>8, ContentType DEF FilesWritten, Pairs
  <2>3. genHash' \in [Cats -> SUBSET (Paths \X Bodies)]
    BY <1>8, <2>2 DEF FilesWritten
  <2>4. changed' \subseteq Langs
    BY <1>8 DEF FilesWritten, LangsWith, Runs
  <2>5. faults' \in 0..MaxFaults
    BY <1>8, GenerateAssumption DEF FilesWritten, Fault, NoFault
  <2> QED
    BY <1>8, <2>1, <2>3, <2>4, <2>5 DEF FilesWritten
<1> QED
  BY <1>1, <1>2, <1>3, <1>4, <1>5, <1>6, <1>7, <1>8 DEF Write

\* Keep set, deletions, formatting and stamps.
LEMMA ConcludeTypes == ASSUME TypeInv, Conclude PROVE TypeInv'
<1> USE DEF TypeInv, TypeOK, PhaseOK, inputs, cache, irCache, langCache, locals, loop
<1>0. /\ Fault => faults' \in 0..MaxFaults
      /\ NoFault => faults' \in 0..MaxFaults
  BY GenerateAssumption DEF Fault, NoFault
<1>1. CASE EnumerateScaffold
  BY <1>0, <1>1, TreeAssumed DEF TreeAssumption, EnumerateScaffold
<1>2. CASE Cleanup
  <2>1. disk' \in [Paths -> Files \cup {NoFile}]
    BY <1>2, DeletionType DEF Cleanup
  <2> QED
    BY <1>0, <1>2, <2>1 DEF Cleanup
<1>3. CASE Sweep
  <2>1. disk' \in [Paths -> Files \cup {NoFile}]
    BY <1>3, DeletionType DEF Sweep
  <2> QED
    BY <1>0, <1>3, <2>1 DEF Sweep
<1>4. CASE Format
  <2>1. \A p \in Paths : Formatted(disk[p], p) \in Files \cup {NoFile}
    BY FormattedFile
  <2>2. disk' \in [Paths -> Files \cup {NoFile}]
    BY <1>4, <2>1 DEF Format
  <2> QED
    BY <1>0, <1>4, <2>2 DEF Format
<1>5. CASE Finalize
  <2>1. Stamp(srcHash, cfg) \in Stamps
    BY <1>5 DEF Finalize, Stamp, Stamps
  <2>2. \A p \in Paths : Stamped(disk[p], p, Stamp(srcHash, cfg)) \in Files \cup {NoFile}
    BY <2>1, StampedFile
  <2>3. disk' \in [Paths -> Files \cup {NoFile}]
    BY <1>5, <2>2 DEF Finalize
  <2> QED
    BY <1>5, <2>3 DEF Finalize
<1>6. CASE Finish
  <2>1. ClearLocals /\ pc' = "idle" /\ UNCHANGED <<inputs, faults, disk, cache>>
    BY <1>6 DEF Finish
  <2> QED
    BY <2>1, ClearLocalsTypes
<1> QED
  BY <1>1, <1>2, <1>3, <1>4, <1>5, <1>6 DEF Conclude

\* A kill or failed step.
LEMMA FailTypes == ASSUME TypeInv, Fail PROVE TypeInv'
<1>0. Fault => faults' \in 0..MaxFaults
  BY GenerateAssumption DEF Fault, TypeInv, TypeOK
<1>1. CASE FinalizePartly
  <2>1. Stamp(srcHash, cfg) \in Stamps
    BY <1>1 DEF FinalizePartly, TypeInv, TypeOK, PhaseOK, Stamp, Stamps
  <2>2. \A p \in Paths : Stamped(disk[p], p, Stamp(srcHash, cfg)) \in Files \cup {NoFile}
    BY <2>1, StampedFile DEF TypeInv, TypeOK
  <2>3. disk' \in [Paths -> Files \cup {NoFile}]
    BY <1>1, <2>2 DEF FinalizePartly, TypeInv, TypeOK
  <2> QED
    BY <1>0, <1>1, <2>3, ClearLocalsTypes DEF FinalizePartly
<1>2. CASE Abort
  BY <1>0, <1>2, ClearLocalsTypes DEF Abort, TypeInv, TypeOK
<1> QED
  BY <1>1, <1>2 DEF Fail

\* Every step keeps every variable its kind.
LEMMA NextTypes == ASSUME TypeInv, [Next]_vars PROVE TypeInv'
<1>1. CASE UNCHANGED vars
  BY <1>1 DEF vars, TypeInv, TypeOK, PhaseOK, inputs, cache, irCache, langCache, locals, loop
<1> QED
  BY <1>1, StartTypes, ExtractTypes, EmitTypes, WriteTypes, ConcludeTypes, FailTypes,
     DeveloperTypes DEF Next, RunStep

\* Type correctness: the caches, the working tree and the locals of a run
\* only ever hold values of their kinds, whatever fails and is edited.
THEOREM TypeCorrect == Spec => []TypeOK
<1>1. TypeInv => TypeOK
  BY DEF TypeInv
<1> QED
  BY InitTypes, NextTypes, <1>1, PTL DEF Spec

\* Type correctness with the part that depends on how far the run is; the
\* other invariants are proved on top of it.
THEOREM TypeInvariance == Spec => []TypeInv
BY InitTypes, NextTypes, PTL DEF Spec

-----------------------------------------------------------------------------
(* What the keep set holds and what is on disk, as the writing phase goes  *)
(* on.  Place is where the run stands among the kinds of file: write_files *)
(* already belongs to the step that follows it, because the paths are kept *)
(* before the first byte is written.                                       *)

Place   == IF pc = "writing" THEN After(cur) ELSE pc
Settled == results \ pending

\* Every kind the run has gone past is in the keep set, and no language is
\* left over when the bindings are done.
KeepInv ==
    /\ Place \in {"bindings"} \cup AuxKinds \cup Concludes =>
          \A l \in Settled : Outputs[l][api] \subseteq keep
    /\ Place \in AuxKinds \cup Concludes => pending = {}
    /\ Place \in {"public_api", "stubs"} \cup Concludes =>
          AuxFiles("services", run.langs, api) \subseteq keep
    /\ Place \in {"stubs"} \cup Concludes =>
          AuxFiles("public_api", run.langs, api) \subseteq keep
    /\ Place \in Concludes => AuxFiles("stubs", run.langs, api) \subseteq keep

\* A settled language's files are current, those still being written
\* excepted; a file that a later kind writes again is among the latter.
DiskInv ==
    /\ writing # {} => pc = "writing"
    /\ pc = "writing" => writing \subseteq CatFiles(cur)
    /\ Place \in {"bindings"} \cup AuxKinds \cup Concludes =>
          \A l \in Settled : \A p \in Outputs[l][api] \ writing :
              Exists(disk[p]) /\ disk[p].body = Content
    /\ pc = "done" =>
          \A l \in Settled : \A p \in Outputs[l][api] \cap Marked :
              disk[p].stamp # NoStamp /\ disk[p].stamp.src = srcHash

\* The order of the passes (core_commands.rs:81-213).
LEMMA AfterKinds ==
    /\ \A l \in Langs : After(l) = "bindings"
    /\ After("services") = "public_api"
    /\ After("public_api") = "stubs"
    /\ After("stubs") = "scaffold"
BY TreeAssumed DEF TreeAssumption, After

\* A binding language is not the name of another kind of file.
LEMMA KindFiles ==
    /\ \A l \in Langs : CatFiles(l) = Outputs[l][api]
    /\ \A k \in AuxKinds : CatFiles(k) = AuxFiles(k, run.langs, api)
BY TreeAssumed DEF TreeAssumption, CatFiles

\* Before the bindings both invariants are about nothing.
LEMMA EarlyKeep ==
    ASSUME pc' \in {"idle", "extract", "parse", "ir_json", "ir_hash", "select",
                    "emit", "sources"}
    PROVE  KeepInv'
BY DEF KeepInv, Place

\* A step that stays in its place, or leaves the keep set it found.
LEMMA SteadyKeep ==
    ASSUME KeepInv, Place' = Place, UNCHANGED <<run, api, results, pending, keep>>
    PROVE  KeepInv'
BY DEF KeepInv, Settled

\* Each pass adds its paths to the keep set before it writes or skips.
LEMMA WriteKeep == ASSUME TypeInv, KeepInv, Write PROVE KeepInv'
<1> USE DEF loop, locals
<1>1. CASE ReadSourcesHash
  BY <1>1 DEF ReadSourcesHash, KeepInv, Place, Settled
<1>2. ASSUME NEW l \in Langs, SkipLang(l) PROVE KeepInv'
  <2>1. Place = "bindings" /\ Place' = "bindings"
    BY <1>2 DEF SkipLang, Place
  <2>2. Settled' \subseteq Settled \cup {l}
    BY <1>2 DEF SkipLang, Settled
  <2> QED
    BY <1>2, <2>1, <2>2, KindFiles DEF SkipLang, KeepInv
<1>3. ASSUME NEW l \in Langs, StartLang(l) PROVE KeepInv'
  <2>1. Place = "bindings" /\ Place' = "bindings"
    BY <1>3, AfterKinds DEF StartLang, Place
  <2>2. Settled' \subseteq Settled \cup {l}
    BY <1>3 DEF StartLang, Settled
  <2> QED
    BY <1>3, <2>1, <2>2, KindFiles DEF StartLang, KeepInv
<1>4. CASE BindingsDone
  BY <1>4 DEF BindingsDone, KeepInv, Place, Settled
<1>5. ASSUME NEW k \in AuxKinds, SkipAux(k) \/ StartAux(k) PROVE KeepInv'
  <2>1. Place = k /\ Place' = After(k)
    BY <1>5, AfterKinds DEF SkipAux, StartAux, Place
  <2>2. /\ keep' = keep \cup AuxFiles(k, run.langs, api)
        /\ UNCHANGED <<run, api, results, pending>>
    BY <1>5, KindFiles DEF SkipAux, StartAux
  <2>3. Settled' = Settled
    BY <2>2 DEF Settled
  <2>4. CASE k = "services"
    BY <2>1, <2>2, <2>3, <2>4, AfterKinds DEF KeepInv
  <2>5. CASE k = "public_api"
    BY <2>1, <2>2, <2>3, <2>5, AfterKinds DEF KeepInv
  <2>6. CASE k = "stubs"
    BY <2>1, <2>2, <2>3, <2>6, AfterKinds DEF KeepInv
  <2> QED
    BY <2>4, <2>5, <2>6
<1>6. ASSUME NEW p \in Paths, WriteFile(p) PROVE KeepInv'
  BY <1>6, SteadyKeep DEF WriteFile, Place
<1>7. CASE FilesWritten
  <2>1. pc' # "writing" /\ Place' = Place
    BY <1>7, AfterKinds DEF FilesWritten, Place, TypeInv, PhaseOK, Cats
  <2> QED
    BY <1>7, <2>1, SteadyKeep DEF FilesWritten
<1> QED
  BY <1>1, <1>2, <1>3, <1>4, <1>5, <1>6, <1>7 DEF Write

\* From the scaffold on the keep set only grows.
LEMMA ConcludeKeep == ASSUME KeepInv, Conclude PROVE KeepInv'
<1>1. CASE EnumerateScaffold
  BY <1>1 DEF EnumerateScaffold, KeepInv, Place, Settled, loop
<1>2. CASE Cleanup
  BY <1>2 DEF Cleanup, KeepInv, Place, Settled, locals, loop
<1>3. CASE Sweep
  BY <1>3 DEF Sweep, KeepInv, Place, Settled, locals, loop
<1>4. CASE Format
  BY <1>4 DEF Format, KeepInv, Place, Settled, locals, loop
<1>5. CASE Finalize
  BY <1>5 DEF Finalize, KeepInv, Place, Settled, locals, loop
<1>6. CASE Finish
  BY <1>6, EarlyKeep DEF Finish
<1> QED
  BY <1>1, <1>2, <1>3, <1>4, <1>5, <1>6 DEF Conclude

\* No step loses a path from the keep set of its run.
LEMMA NextKeep == ASSUME TypeInv, KeepInv, [Next]_vars PROVE KeepInv'
<1>1. CASE Start \/ StartDiff
  BY <1>1, EarlyKeep DEF Start, StartDiff
<1>2. CASE Extract
  BY <1>2, EarlyKeep DEF Extract, ExtractCached, ExtractMiss, Parse, WriteIrJson, WriteIrHash
<1>3. CASE Emit
  BY <1>3, EarlyKeep DEF Emit, SelectLangs, EmitLangHash, EmitLangManifest, EmitDone, DiffDone
<1>4. CASE Fail
  BY <1>4, EarlyKeep DEF Fail, FinalizePartly, Abort
<1>5. CASE Developer
  BY <1>5, SteadyKeep DEF Developer, EditSource, EditConfig, RestoreFile, Place, locals, loop
<1>6. CASE UNCHANGED vars
  BY <1>6, SteadyKeep DEF vars, Place, locals, loop
<1> QED
  BY <1>1, <1>2, <1>3, <1>4, <1>5, <1>6, WriteKeep, ConcludeKeep DEF Next, RunStep

\* Before the bindings the invariant is about nothing.
LEMMA EarlyDisk ==
    ASSUME pc' \in {"idle", "extract", "parse", "ir_json", "ir_hash", "select",
                    "emit", "sources"},
           writing' = {}
    PROVE  DiskInv'
BY DEF DiskInv, Place

\* Outside the writing phase no file is left to write.
LEMMA NothingLeft == ASSUME DiskInv, pc # "writing" PROVE writing = {}
BY DEF DiskInv

\* A step that keeps every file's body and the locals the invariant reads.
LEMMA SteadyDisk ==
    ASSUME DiskInv, pc # "writing", pc' # "done", Place' \in {"bindings"} \cup AuxKinds \cup Concludes,
           Place \in {"bindings"} \cup AuxKinds \cup Concludes, pc' # "writing",
           UNCHANGED <<run, api, results, pending, writing>>,
           \A l \in Settled : \A p \in Outputs[l][api] :
               Exists(disk[p]) => Exists(disk'[p]) /\ disk'[p].body = disk[p].body
    PROVE  DiskInv'
BY DEF DiskInv, Settled, Content, Place

\* Writing makes files current and skipping finds them so.
LEMMA WriteDisk == ASSUME TypeInv, DiskInv, Write PROVE DiskInv'
<1> USE DEF loop, locals
<1>1. CASE ReadSourcesHash
  BY <1>1 DEF ReadSourcesHash, DiskInv, Place, Settled
<1>2. ASSUME NEW l \in Langs, SkipLang(l) PROVE DiskInv'
  <2>1. Settled' \subseteq Settled \cup {l}
    BY <1>2 DEF SkipLang, Settled
  <2>2. \A p \in Outputs[l][api] : Exists(disk[p]) /\ disk[p].body = Content
    BY <1>2, KindFiles DEF SkipLang, MatchesDisk, SameBody
  <2>3. Place = "bindings" /\ Place' = "bindings"
    BY <1>2 DEF SkipLang, Place
  <2> QED
    BY <1>2, <2>1, <2>2, <2>3 DEF SkipLang, DiskInv, Content
<1>3. ASSUME NEW l \in Langs, StartLang(l) PROVE DiskInv'
  <2>1. Settled' \subseteq Settled \cup {l}
    BY <1>3 DEF StartLang, Settled
  <2>2. writing' = Outputs[l][api] /\ CatFiles(cur)' = Outputs[l][api]
    BY <1>3, KindFiles DEF StartLang, CatFiles
  <2>3. Place = "bindings" /\ Place' = "bindings"
    BY <1>3, AfterKinds DEF StartLang, Place
  <2>4. writing = {}
    BY <1>3, NothingLeft DEF StartLang
  <2> QED
    BY <1>3, <2>1, <2>2, <2>3, <2>4 DEF StartLang, DiskInv, Content
<1>4. CASE BindingsDone
  BY <1>4, SteadyDisk DEF BindingsDone, Place
<1>5. ASSUME NEW k \in AuxKinds, SkipAux(k) PROVE DiskInv'
  <2>1. Place = k /\ pc' = After(k) /\ Place' = After(k)
    BY <1>5, AfterKinds DEF SkipAux, Place
  <2>2. After(k) \in {"public_api", "stubs", "scaffold"}
    BY AfterKinds
  <2> QED
    BY <1>5, <2>1, <2>2, SteadyDisk DEF SkipAux
<1>6. ASSUME NEW k \in AuxKinds, StartAux(k) PROVE DiskInv'
  <2>1. writing' = CatFiles(k) /\ CatFiles(cur)' = CatFiles(k)
    BY <1>6 DEF StartAux, CatFiles
  <2>2. writing = {}
    BY <1>6, NothingLeft DEF StartAux
  <2>3. Place = k
    BY <1>6 DEF StartAux, Place
  <2> QED
    BY <1>6, <2>1, <2>2, <2>3 DEF StartAux, DiskInv, Settled, Content
<1>7. ASSUME NEW p \in Paths, WriteFile(p) PROVE DiskInv'
  <2>1. Content \in Bodies
    BY <1>7, ContentType DEF WriteFile, TypeInv, PhaseOK
  <2>2. Exists(disk'[p]) /\ disk'[p].body = Content
    BY <1>7, <2>1, WrittenFile DEF WriteFile, TypeInv, TypeOK
  <2>3. \A q \in Paths \ {p} : disk'[q] = disk[q]
    BY <1>7 DEF WriteFile, TypeInv, TypeOK
  <2>4. \A l \in Settled : Outputs[l][api] \subseteq Paths
    BY <1>7, TreeAssumed DEF TreeAssumption, WriteFile, TypeInv, TypeOK, PhaseOK, Settled
  <2>5. Place' = Place /\ Settled' = Settled /\ CatFiles(cur)' = CatFiles(cur) /\ Content' = Content
    BY <1>7 DEF WriteFile, Place, Settled, CatFiles, Content
  <2>6. writing' = writing \ {p} /\ pc = "writing" /\ pc' = "writing" /\ api' = api
    BY <1>7 DEF WriteFile
  <2> QED
    BY <2>2, <2>3, <2>4, <2>5, <2>6 DEF DiskInv
<1>8. CASE FilesWritten
  <2>1. pc' \notin {"writing", "done"} /\ Place' = Place
    BY <1>8, AfterKinds DEF FilesWritten, Place, TypeInv, PhaseOK, Cats
  <2>2. Settled' = Settled /\ Content' = Content
    BY <1>8 DEF FilesWritten, Settled, Content
  <2> QED
    BY <1>8, <2>1, <2>2 DEF FilesWritten, DiskInv
<1> QED
  BY <1>1, <1>2, <1>3, <1>4, <1>5, <1>6, <1>7, <1>8 DEF Write

\* A deletion outside the keep set spares what is kept.
LEMMA DeletionSpares ==
    ASSUME NEW K, NEW D, D \cap K = {}, NEW p \in Paths, p \in K
    PROVE  Without(disk, D)[p] = disk[p]
BY DEF Without

\* Both deleting passes take what is not kept, and alef's own.
LEMMA DeletedSets ==
    /\ CleanupOrphans(disk, keep) \cap keep = {}
    /\ \A p \in CleanupOrphans(disk, keep) : AlefOwned(disk[p], p)
    /\ SweepOrphans(disk, keep, Roots) \cap keep = {}
    /\ \A p \in SweepOrphans(disk, keep, Roots) : AlefOwned(disk[p], p)
BY DEF CleanupOrphans, SweepOrphans, AlefOwned

\* What a deleting pass does, complete or cut short.
LEMMA Deletions ==
    ASSUME Cleanup \/ Sweep
    PROVE  \E D : /\ disk' = Without(disk, D)
                  /\ D \cap keep = {}
                  /\ \A p \in D : AlefOwned(disk[p], p)
<1>1. CASE Cleanup
  BY <1>1, DeletedSets DEF Cleanup
<1>2. CASE Sweep
  BY <1>2, DeletedSets DEF Sweep
<1> QED
  BY <1>1, <1>2

\* Deleting, formatting and stamping leave current files current.
LEMMA ConcludeDisk == ASSUME TypeInv, KeepInv, DiskInv, Conclude PROVE DiskInv'
<1> USE DEF loop, locals
<1>0. pc \in Concludes => \A l \in Settled : Outputs[l][api] \subseteq keep \cap Paths
  BY DEF KeepInv, Place, TypeInv, TypeOK
<1>1. CASE EnumerateScaffold
  BY <1>1, SteadyDisk DEF EnumerateScaffold, Place
<1>2. CASE Cleanup \/ Sweep
  <2>1. PICK D : disk' = Without(disk, D) /\ D \cap keep = {}
    BY <1>2, Deletions
  <2>2. \A l \in Settled : \A p \in Outputs[l][api] : disk'[p] = disk[p]
    BY <1>0, <1>2, <2>1, DeletionSpares DEF Cleanup, Sweep
  <2> QED
    BY <1>2, <2>2, SteadyDisk DEF Cleanup, Sweep, Place
<1>3. CASE Format
  <2>1. \A p \in Paths : Exists(disk[p]) => Exists(disk'[p]) /\ disk'[p].body = disk[p].body
    BY <1>3, FormattedFile DEF Format, TypeInv, TypeOK
  <2> QED
    BY <1>0, <1>3, <2>1, SteadyDisk DEF Format, Place
<1>4. CASE Finalize
  <2>1. Stamp(srcHash, cfg) \in Stamps /\ Stamp(srcHash, cfg).src = srcHash
    BY <1>4 DEF Finalize, TypeInv, TypeOK, PhaseOK, Stamp, Stamps
  <2>2. Stamp(srcHash, cfg) # NoStamp
    BY <2>1, TreeAssumed DEF TreeAssumption
  <2>3. \A l \in Settled : \A p \in Outputs[l][api] :
            /\ Exists(disk'[p]) /\ disk'[p].body = Content
            /\ p \in Marked => disk'[p].stamp = Stamp(srcHash, cfg)
    <3> TAKE l \in Settled
    <3> TAKE p \in Outputs[l][api]
    <3>2. p \in keep /\ p \in Paths
      BY <1>0, <1>4 DEF Finalize
    <3>3. Exists(disk[p]) /\ disk[p].body = Content
      BY <1>4, NothingLeft DEF Finalize, DiskInv, Place
    <3>4. disk'[p] = Stamped(disk[p], p, Stamp(srcHash, cfg))
      BY <1>4, <3>2 DEF Finalize
    <3> QED
      BY <2>1, <3>2, <3>3, <3>4, StampedFile DEF TypeInv, TypeOK
  <2>4. Settled' = Settled /\ Content' = Content /\ api' = api /\ srcHash' = srcHash
    BY <1>4 DEF Finalize, Settled, Content
  <2> QED
    BY <1>4, <2>1, <2>2, <2>3, <2>4, NothingLeft DEF Finalize, DiskInv
<1>5. CASE Finish
  BY <1>5, EarlyDisk DEF Finish, ClearLocals
<1> QED
  BY <1>1, <1>2, <1>3, <1>4, <1>5 DEF Conclude

\* Every step keeps what the run has settled.
LEMMA NextDisk == ASSUME TypeInv, KeepInv, DiskInv, [Next]_vars PROVE DiskInv'
<1> USE DEF loop, locals
<1>1. CASE Start \/ StartDiff
  BY <1>1, EarlyDisk, NothingLeft DEF Start, StartDiff
<1>2. CASE Extract
  BY <1>2, EarlyDisk, NothingLeft
     DEF Extract, ExtractCached, ExtractMiss, Parse, WriteIrJson, WriteIrHash
<1>3. CASE Emit
  BY <1>3, EarlyDisk, NothingLeft
     DEF Emit, SelectLangs, EmitLangHash, EmitLangManifest, EmitDone, DiffDone, ClearLocals
<1>4. CASE Fail
  BY <1>4, EarlyDisk DEF Fail, FinalizePartly, Abort, ClearLocals
<1>5. CASE EditSource \/ EditConfig
  BY <1>5 DEF EditSource, EditConfig, DiskInv, Place, Settled, Content, CatFiles
<1>6. CASE RestoreFile
  BY <1>6, EarlyDisk, NothingLeft DEF RestoreFile
<1>7. CASE UNCHANGED vars
  BY <1>7 DEF vars, DiskInv, Place, Settled, Content, CatFiles
<1> QED
  BY <1>1, <1>2, <1>3, <1>4, <1>5, <1>6, <1>7, WriteDisk, ConcludeDisk
     DEF Next, RunStep, Developer

-----------------------------------------------------------------------------
(* The theorems.                                                           *)

RunInv == TypeInv /\ KeepInv /\ DiskInv

\* No run has started.
LEMMA InitRun == Init => RunInv
BY InitTypes DEF Init, RunInv, KeepInv, DiskInv, Place

\* The keep set and the working tree follow the run in every reachable state
\* (core_commands.rs:81-253).
THEOREM RunInvariance == Spec => []RunInv
<1>1. RunInv /\ [Next]_vars => RunInv'
  BY NextTypes, NextKeep, NextDisk DEF RunInv
<1> QED
  BY InitRun, <1>1, PTL DEF Spec

\* From the end of the writing phase to the end of the run, every file of a
\* regenerated language holds what the run emitted, and a finished run has
\* stamped it with its own sources hash (core_commands.rs:81-112, 226-253).
THEOREM RegeneratedStayCurrent == Spec => []RegeneratedCurrent
<1>1. RunInv => RegeneratedCurrent
  <2> SUFFICES ASSUME RunInv, pc \in AuxKinds \cup Concludes,
                      NEW p \in RunOutputs
               PROVE  /\ Exists(disk[p]) /\ disk[p].body = Content
                      /\ pc = "done" /\ p \in Marked =>
                            disk[p].stamp # NoStamp /\ disk[p].stamp.src = srcHash
    BY DEF RegeneratedCurrent
  <2>1. Settled = results /\ writing = {} /\ Place = pc
    BY NothingLeft DEF RunInv, KeepInv, Settled, Place
  <2>2. PICK l \in Settled : p \in Outputs[l][api]
    BY <2>1 DEF RunOutputs
  <2> QED
    BY <2>1, <2>2 DEF RunInv, DiskInv
<1> QED
  BY <1>1, RunInvariance, PTL

\* No deletion reaches a file the run generated or vouched for, nor one that
\* alef does not recognise as its own (cleanup.rs:52-174, orphans.rs:65-198).
THEOREM DeletionsAreOrphans == Spec => DeletesOnlyOrphans
<1>1. RunInv /\ [Next]_vars =>
          [\A p \in Paths : Deleting /\ Deleted(p) =>
              AlefOwned(disk[p], p) /\ p \notin RunOutputs \cup AuxOutputs]_vars
  <2> SUFFICES ASSUME RunInv, [Next]_vars, NEW p \in Paths, Deleting, Deleted(p)
               PROVE  AlefOwned(disk[p], p) /\ p \notin RunOutputs \cup AuxOutputs
    OBVIOUS
  <2>1. Cleanup \/ Sweep
    BY DEF Deleting, Deleted, Next, RunStep, Extract, Emit, Write, Conclude, Fail, Developer,
           Start, StartDiff, DiffDone, ExtractCached, ExtractMiss, Parse, WriteIrJson, WriteIrHash, SelectLangs,
           EmitLangHash, EmitLangManifest, EmitDone, ReadSourcesHash, SkipLang, StartLang,
           BindingsDone, SkipAux, StartAux, WriteFile, FilesWritten, EnumerateScaffold, Format,
           Finalize, FinalizePartly, Finish, Abort, EditSource, EditConfig, RestoreFile, vars
  <2>2. RunOutputs \cup AuxOutputs \subseteq keep
    <3>1. Place \in Concludes /\ Settled = results
      BY DEF Deleting, RunInv, KeepInv, Place, Settled
    <3> QED
      BY <3>1 DEF RunInv, KeepInv, RunOutputs, AuxOutputs
  <2>3. PICK D : /\ disk' = Without(disk, D)
                 /\ D \cap keep = {}
                 /\ \A q \in D : AlefOwned(disk[q], q)
    BY <2>1, Deletions
  <2>4. p \in D
    BY <2>3 DEF Deleted, Without
  <2> QED
    BY <2>2, <2>3, <2>4
<1> QED
  BY <1>1, RunInvariance, PTL DEF Spec, DeletesOnlyOrphans

-----------------------------------------------------------------------------
(* What holds as long as nobody edits the inputs during a run and no step  *)
(* fails: the surface a run works on is the current one, and the hash      *)
(* embedded in a binding tells the inputs it was generated from.  The runs *)
(* KilledIrWrite and EditDuringRun show that neither condition can be      *)
(* dropped.                                                                *)

Undisturbed == ~LiveEdits /\ MaxFaults = 0

\* No binding is also a stub, a public-API file or a scaffolded file.
Separate ==
    \A l \in Langs, a \in Apis : \A p \in Outputs[l][a] :
        /\ p \notin Scaffold
        /\ \A k \in AuxKinds, m \in Langs, b \in Apis : p \notin Aux[k][m][b]

Sound(f) ==
    HasHash(f) =>
        \E s \in Sources : /\ SourcesHash[s] = f.stamp.src
                          /\ f.body = Body(Api[s][f.stamp.cfg], f.stamp.cfg)

\* The working tree alef first meets carries no false hash.
TruthfulStart == \A l \in Langs, a \in Apis : \A p \in Outputs[l][a] : Sound(InitDisk[p])

-----------------------------------------------------------------------------
(* The surface of a run.                                                   *)

\* ir.json is the surface of the inputs ir.hash names, except between their
\* two writes; everything a run has read or computed is that of the inputs.
IrInv ==
    /\ pc # "idle" => run.cfg = cfg
    /\ pc \in {"idle", "extract", "parse"} => api = None
    /\ pc \in {"parse", "ir_json", "ir_hash"} => key.src = src /\ key.cfg = cfg
    /\ pc \notin {"idle", "extract", "parse"} => api = Api[src][cfg]
    /\ pc = "ir_hash" => irJson = api
    /\ pc # "ir_hash" /\ irJson # None => irJson = Api[irHash.src][irHash.cfg]
    /\ pc \in Writes \cup Concludes => srcHash = SourcesHash[src]

\* With no fault allowed no step fails.
LEMMA NoFaults == ASSUME MaxFaults = 0, TypeInv PROVE ~Fault
BY DEF TypeInv, TypeOK, Fault

\* Nothing is cached at first.
LEMMA InitIr == Init => IrInv
BY DEF Init, IrInv

\* A step of the middle of a run, which the surface goes through unchanged.
LEMMA SteadyIr ==
    ASSUME IrInv, UNCHANGED <<inputs, irCache, run, api, srcHash>>,
           pc \notin {"idle", "extract", "parse", "ir_json", "ir_hash"},
           pc' \notin {"idle", "extract", "parse", "ir_json", "ir_hash"},
           pc' \in Writes \cup Concludes => pc \in Writes \cup Concludes
    PROVE  IrInv'
BY DEF IrInv, inputs, irCache

\* A run that ends forgets its surface.
LEMMA EndIr ==
    ASSUME IrInv, ClearLocals, pc' = "idle", pc # "ir_hash", UNCHANGED <<inputs, irCache>>
    PROVE  IrInv'
BY DEF IrInv, ClearLocals, inputs, irCache

\* Every step of an undisturbed run keeps the surface and the cache in order.
LEMMA NextIr == ASSUME Undisturbed, TypeInv, TypeInv', IrInv, [Next]_vars PROVE IrInv'
<1> USE DEF cache, langCache, locals, loop
<1>1. CASE Start \/ StartDiff
  BY <1>1 DEF Start, StartDiff, IrInv, inputs, irCache
<1>2. CASE ExtractCached
  BY <1>2 DEF ExtractCached, IrInv, IrKey, inputs, irCache
<1>3. CASE ExtractMiss
  BY <1>3 DEF ExtractMiss, IrInv, IrKey, inputs, irCache
<1>4. CASE Parse
  BY <1>4 DEF Parse, IrInv, inputs, irCache
<1>5. CASE WriteIrJson
  BY <1>5 DEF WriteIrJson, IrInv, inputs
<1>6. CASE WriteIrHash
  BY <1>6 DEF WriteIrHash, IrInv, inputs
<1>7. CASE Emit
  <2>1. CASE DiffDone
    BY <2>1, EndIr DEF DiffDone
  <2>2. CASE SelectLangs
    BY <2>2, SteadyIr DEF SelectLangs
  <2>3. CASE \E l \in Langs : EmitLangHash(l) \/ EmitLangManifest(l)
    BY <2>3, SteadyIr DEF EmitLangHash, EmitLangManifest
  <2>4. CASE EmitDone
    BY <2>4, SteadyIr DEF EmitDone
  <2> QED BY <1>7, <2>1, <2>2, <2>3, <2>4 DEF Emit
<1>8. CASE ReadSourcesHash
  BY <1>8 DEF ReadSourcesHash, IrInv, inputs, irCache
<1>9. CASE Write /\ ~ReadSourcesHash
  <2>1. CASE \E l \in Langs : SkipLang(l) \/ StartLang(l)
    BY <2>1, SteadyIr DEF SkipLang, StartLang
  <2>2. CASE BindingsDone
    BY <2>2, SteadyIr DEF BindingsDone
  <2>3. ASSUME NEW k \in AuxKinds, SkipAux(k) \/ StartAux(k) PROVE IrInv'
    BY <2>3, AfterKinds, SteadyIr DEF SkipAux, StartAux
  <2>4. CASE \E p \in Paths : WriteFile(p)
    BY <2>4, SteadyIr DEF WriteFile
  <2>5. CASE FilesWritten
    <3>1. pc' \in {"bindings", "public_api", "stubs", "scaffold"}
      BY <2>5, AfterKinds DEF FilesWritten, TypeInv, PhaseOK, Cats
    <3> QED BY <2>5, <3>1, SteadyIr DEF FilesWritten
  <2> QED BY <1>9, <2>1, <2>2, <2>3, <2>4, <2>5 DEF Write
<1>10. CASE Conclude
  <2>1. CASE Finish
    BY <2>1, EndIr DEF Finish
  <2>2. CASE EnumerateScaffold
    BY <2>2, SteadyIr DEF EnumerateScaffold
  <2>3. CASE Cleanup \/ Sweep
    BY <2>3, SteadyIr DEF Cleanup, Sweep
  <2>4. CASE Format \/ Finalize
    BY <2>4, SteadyIr DEF Format, Finalize
  <2> QED BY <1>10, <2>1, <2>2, <2>3, <2>4 DEF Conclude
<1>11. CASE Fail
  BY <1>11, NoFaults DEF Undisturbed, Fail, FinalizePartly, Abort
<1>12. CASE Developer
  <2>1. pc = "idle" /\ pc' = pc /\ UNCHANGED <<irCache, api>>
    BY <1>12 DEF Developer, EditSource, EditConfig, RestoreFile, MayEdit, Undisturbed
  <2> QED BY <2>1 DEF IrInv, irCache
<1>13. CASE UNCHANGED vars
  BY <1>13 DEF vars, IrInv, inputs, irCache
<1> QED
  BY <1>1, <1>2, <1>3, <1>4, <1>5, <1>6, <1>7, <1>8, <1>9, <1>10, <1>11, <1>12, <1>13
     DEF Next, RunStep, Extract

\* A run works on the surface of the sources and configuration it was started
\* on, also when it takes it from the cache (cache.rs:130-187).
THEOREM IrAlwaysCurrent == Undisturbed => (Spec => []IrIsCurrent)
<1> SUFFICES ASSUME Undisturbed PROVE Spec => []IrIsCurrent
  OBVIOUS
<1>1. Init => TypeInv /\ IrInv
  BY InitTypes, InitIr
<1>2. TypeInv /\ IrInv /\ [Next]_vars => (TypeInv /\ IrInv)'
  BY NextTypes, NextIr
<1>3. IrInv => IrIsCurrent
  BY DEF IrInv, IrIsCurrent
<1> QED BY <1>1, <1>2, <1>3, PTL DEF Spec

-----------------------------------------------------------------------------
(* The embedded hash.                                                      *)

\* The bindings in the keep set are those of settled languages.
KeptBindings ==
    \A l \in Langs, a \in Apis : \A p \in Outputs[l][a] \cap keep :
        /\ pc \in Writes \cup Concludes
        /\ \E m \in Settled : p \in Outputs[m][api]

\* Outside the writing phase nothing is kept, so nothing is claimed.
LEMMA EmptyKeep == ASSUME keep' = {} PROVE KeptBindings'
BY DEF KeptBindings

\* A step that adds files of other kinds to the keep set.
LEMMA OtherKept ==
    ASSUME KeptBindings, NEW S, keep' = keep \cup S, UNCHANGED <<api, results, pending>>,
           pc \in Writes \cup Concludes => pc' \in Writes \cup Concludes,
           \A l \in Langs, a \in Apis : \A p \in Outputs[l][a] : p \notin S
    PROVE  KeptBindings'
BY DEF KeptBindings, Settled

\* Before the bindings the keep set is empty.
KeepStart ==
    /\ pc \notin Writes \cup Concludes => keep = {}
    /\ pending \subseteq results

\* Files of the auxiliary kinds are not bindings.
LEMMA AuxSeparate ==
    ASSUME Separate, run \in Runs, api \in Apis, NEW k \in AuxKinds
    PROVE  \A l \in Langs, a \in Apis : \A p \in Outputs[l][a] :
               p \notin AuxFiles(k, run.langs, api)
BY DEF Separate, AuxFiles, Runs

\* The keep set grows by settled languages and by files of other kinds.
LEMMA NextKept ==
    ASSUME Separate, RunInv, KeptBindings, KeepStart, [Next]_vars
    PROVE  KeptBindings' /\ KeepStart'
<1> USE DEF loop, locals
<1>a. TypeInv /\ run \in Runs \cup {None}
  BY DEF RunInv, TypeInv, TypeOK
<1>1. CASE Start \/ StartDiff
  BY <1>1, EmptyKeep DEF Start, StartDiff, KeepStart
<1>2. CASE Extract
  BY <1>2, EmptyKeep
     DEF Extract, ExtractCached, ExtractMiss, Parse, WriteIrJson, WriteIrHash, KeepStart
<1>3. CASE Emit
  BY <1>3, EmptyKeep DEF Emit, SelectLangs, EmitLangHash, EmitLangManifest, EmitDone, DiffDone,
     ClearLocals, KeepStart
<1>4. CASE ReadSourcesHash
  BY <1>4, EmptyKeep DEF ReadSourcesHash, KeepStart
<1>5. ASSUME NEW l \in Langs, SkipLang(l) \/ StartLang(l) PROVE KeptBindings' /\ KeepStart'
  <2>1. /\ keep' = keep \cup Outputs[l][api] /\ api' = api
        /\ pc \in Writes /\ pc' \in Writes /\ l \in pending
        /\ results' = results /\ pending' = pending \ {l}
    BY <1>5, KindFiles DEF SkipLang, StartLang
  <2>2. l \in Settled' /\ Settled \subseteq Settled'
    BY <2>1 DEF Settled, KeepStart
  <2>3. results \subseteq Langs
    BY <1>a DEF TypeInv, TypeOK
  <2> QED BY <2>1, <2>2, <2>3 DEF KeptBindings, KeepStart
<1>6. ASSUME NEW k \in AuxKinds, SkipAux(k) \/ StartAux(k) PROVE KeptBindings' /\ KeepStart'
  <2>1. /\ keep' = keep \cup AuxFiles(k, run.langs, api)
        /\ UNCHANGED <<api, results, pending>>
        /\ pc \in Writes /\ pc' \in Writes \cup Concludes
    BY <1>6, KindFiles, AfterKinds DEF SkipAux, StartAux
  <2>2. run \in Runs /\ api \in Apis
    BY <1>a, <2>1 DEF TypeInv, PhaseOK
  <2> QED BY <2>1, <2>2, AuxSeparate, OtherKept DEF KeepStart
<1>7. CASE EnumerateScaffold
  <2>1. PICK S \in {{}, Scaffold} : keep' = keep \cup S
    BY <1>7 DEF EnumerateScaffold
  <2> QED BY <1>7, <2>1, OtherKept DEF EnumerateScaffold, Separate, KeepStart
<1>8. CASE BindingsDone \/ FilesWritten \/ \E p \in Paths : WriteFile(p)
  <2>1. CASE FilesWritten
    <3>1. cur \in Cats
      BY <1>a, <2>1 DEF FilesWritten, TypeInv, PhaseOK
    <3>2. pc \in Writes /\ pc' \in Writes \cup Concludes
      BY <2>1, <3>1, AfterKinds DEF FilesWritten, Cats
    <3> QED BY <2>1, <3>2 DEF FilesWritten, KeptBindings, KeepStart, Settled
  <2>2. CASE BindingsDone
    BY <2>2 DEF BindingsDone, KeptBindings, KeepStart, Settled
  <2>3. CASE \E p \in Paths : WriteFile(p)
    BY <2>3 DEF WriteFile, KeptBindings, KeepStart, Settled
  <2> QED BY <1>8, <2>1, <2>2, <2>3
<1>9. CASE Cleanup \/ Sweep \/ Format \/ Finalize
  <2>1. /\ UNCHANGED <<api, results, pending, keep>>
        /\ pc \in Concludes /\ pc' \in Concludes
    BY <1>9 DEF Cleanup, Sweep, Format, Finalize
  <2> QED BY <2>1 DEF KeptBindings, KeepStart, Settled
<1>10. CASE Finish \/ Fail
  BY <1>10, EmptyKeep DEF Finish, Fail, FinalizePartly, Abort, ClearLocals, KeepStart
<1>11. CASE Developer
  BY <1>11 DEF Developer, EditSource, EditConfig, RestoreFile, KeptBindings, KeepStart, Settled
<1>12. CASE UNCHANGED vars
  BY <1>12 DEF vars, KeptBindings, KeepStart, Settled
<1> QED
  BY <1>1, <1>2, <1>3, <1>4, <1>5, <1>6, <1>7, <1>8, <1>9, <1>10, <1>11, <1>12
     DEF Next, RunStep, Write, Conclude

\* A file that goes, or whose stamp and body stay, stays sound.
LEMMA SoundSteady ==
    ASSUME StampSound,
           \A l \in Langs, a \in Apis : \A p \in Outputs[l][a] :
               HasHash(disk'[p]) =>
                   /\ HasHash(disk[p]) /\ disk'[p].stamp = disk[p].stamp
                   /\ disk'[p].body = disk[p].body
    PROVE  StampSound'
BY DEF StampSound

\* Restored files carry the hash of the inputs they were committed for.
LEMMA RestoreSound == ASSUME TypeInv, StampSound, RestoreFile PROVE StampSound'
<1>0. PICK s \in Sources, c \in Configs :
           \E q \in GeneratedFrom(Api[s][c]) : \E f \in {Committed(q, s, c), NoFile} :
               disk' = [disk EXCEPT ![q] = f]
  BY DEF RestoreFile
<1>1. PICK q \in GeneratedFrom(Api[s][c]) : \E f \in {Committed(q, s, c), NoFile} :
           disk' = [disk EXCEPT ![q] = f]
  BY <1>0
<1>b. PICK f \in {Committed(q, s, c), NoFile} : disk' = [disk EXCEPT ![q] = f]
  BY <1>1
<1>2. HasHash(f) => f.stamp = Stamp(SourcesHash[s], c) /\ f.body = Body(Api[s][c], c)
  BY DEF Committed, HasHash, Exists
<1>3. HasHash(f) => SourcesHash[s] = f.stamp.src /\ f.body = Body(Api[s][f.stamp.cfg], f.stamp.cfg)
  BY <1>2 DEF Stamp
<1>4. SUFFICES ASSUME NEW l \in Langs, NEW a \in Apis, NEW p \in Outputs[l][a],
                      HasHash(disk'[p])
               PROVE  \E t \in Sources :
                         /\ SourcesHash[t] = disk'[p].stamp.src
                         /\ disk'[p].body = Body(Api[t][disk'[p].stamp.cfg], disk'[p].stamp.cfg)
  BY DEF StampSound, HasHash, Exists
<1>5. p \in Paths /\ disk \in [Paths -> Files \cup {NoFile}]
  BY TreeAssumed DEF TreeAssumption, TypeInv, TypeOK
<1>6. CASE p = q
  BY <1>b, <1>3, <1>4, <1>5, <1>6
<1>7. CASE p # q
  BY <1>b, <1>4, <1>5, <1>7 DEF StampSound
<1> QED BY <1>6, <1>7

\* write_files leaves the file it found or one without a hash.
LEMMA WriteSound == ASSUME TypeInv, StampSound, NEW q \in Paths, WriteFile(q) PROVE StampSound'
<1>1. disk' = [disk EXCEPT ![q] = Written(disk[q], Content)]
  BY DEF WriteFile
<1>2. ~HasHash(Fresh(Content))
  BY DEF Fresh, HasHash
<1>3. ASSUME NEW p \in Paths, HasHash(disk'[p]) PROVE disk'[p] = disk[p]
  BY <1>1, <1>2, <1>3 DEF Written, TypeInv, TypeOK
<1>4. \A l \in Langs, a \in Apis : Outputs[l][a] \subseteq Paths
  BY TreeAssumed DEF TreeAssumption
<1> QED BY <1>3, <1>4, SoundSteady

\* The deleting passes only delete.
LEMMA DeleteSound == ASSUME TypeInv, StampSound, Cleanup \/ Sweep PROVE StampSound'
<1>1. PICK D : disk' = Without(disk, D)
  BY Deletions
<1>2. ASSUME NEW p \in Paths, HasHash(disk'[p]) PROVE disk'[p] = disk[p]
  BY <1>1, <1>2 DEF Without, HasHash, Exists
<1>3. \A l \in Langs, a \in Apis : Outputs[l][a] \subseteq Paths
  BY TreeAssumed DEF TreeAssumption
<1> QED BY <1>2, <1>3, SoundSteady

\* The formatter changes neither hash nor content.
LEMMA FormatSound == ASSUME TypeInv, StampSound, Format PROVE StampSound'
<1>1. ASSUME NEW p \in Paths, HasHash(disk'[p])
      PROVE  /\ HasHash(disk[p]) /\ disk'[p].stamp = disk[p].stamp
             /\ disk'[p].body = disk[p].body
  <2>1. disk'[p] = disk[p] \/ disk'[p] = Formatted(disk[p], p)
    BY DEF Format, TypeInv, TypeOK
  <2>2. CASE disk[p] \in Files /\ disk'[p] = [disk[p] EXCEPT !.form = "fmt"]
    <3>1. disk'[p].stamp = disk[p].stamp /\ disk'[p].body = disk[p].body
      BY <2>2 DEF Files
    <3>2. disk[p] # NoFile
      BY <2>2, TreeAssumed DEF TreeAssumption
    <3> QED BY <1>1, <3>1, <3>2 DEF HasHash, Exists
  <2>3. disk[p] \in Files \cup {NoFile}
    BY DEF TypeInv, TypeOK
  <2> QED BY <1>1, <2>1, <2>2, <2>3 DEF Formatted, Exists
<1>2. \A l \in Langs, a \in Apis : Outputs[l][a] \subseteq Paths
  BY TreeAssumed DEF TreeAssumption
<1> QED BY <1>1, <1>2, SoundSteady

\* finalize_hashes stamps kept bindings, and those hold what the run emitted
\* for the inputs it stamps them with.
LEMMA FinalizeSound ==
    ASSUME RunInv, IrInv, KeptBindings, StampSound, Finalize
    PROVE  StampSound'
<1>1. /\ srcHash = SourcesHash[src] /\ api = Api[src][cfg] /\ run.cfg = cfg
      /\ src \in Sources
  BY DEF Finalize, IrInv, RunInv, TypeInv, TypeOK
<1>2. Stamp(srcHash, cfg) \in Stamps
  BY DEF Finalize, RunInv, TypeInv, TypeOK, PhaseOK, Stamp, Stamps
<1>3. SUFFICES ASSUME NEW l \in Langs, NEW a \in Apis, NEW p \in Outputs[l][a],
                      HasHash(disk'[p])
               PROVE  \E s \in Sources :
                         /\ SourcesHash[s] = disk'[p].stamp.src
                         /\ disk'[p].body = Body(Api[s][disk'[p].stamp.cfg], disk'[p].stamp.cfg)
  BY DEF StampSound, HasHash, Exists
<1>4. p \in Paths /\ disk[p] \in Files \cup {NoFile}
  BY TreeAssumed DEF TreeAssumption, RunInv, TypeInv, TypeOK
<1>5. CASE p \in keep /\ p \in Marked /\ Exists(disk[p])
  <2>1. disk'[p] = Stamped(disk[p], p, Stamp(srcHash, cfg))
    BY <1>4, <1>5 DEF Finalize
  <2>2. disk'[p].stamp = Stamp(srcHash, cfg) /\ disk'[p].body = disk[p].body
    BY <1>2, <1>4, <1>5, <2>1, StampedFile
  <2>3. PICK m \in Settled : p \in Outputs[m][api]
    BY <1>5 DEF KeptBindings
  <2>4. writing = {} /\ Place = "finalize"
    BY NothingLeft DEF RunInv, Finalize, Place
  <2>5. disk[p].body = Content
    BY <2>3, <2>4 DEF RunInv, DiskInv
  <2>6. Content = Body(Api[src][cfg], cfg)
    BY <1>1 DEF Content
  <2> QED BY <1>1, <2>2, <2>5, <2>6 DEF Stamp
<1>6. CASE ~(p \in keep /\ p \in Marked /\ Exists(disk[p]))
  <2>1. disk'[p] = disk[p]
    BY <1>4, <1>6 DEF Finalize, Stamped
  <2> QED BY <1>3, <2>1 DEF StampSound
<1> QED BY <1>5, <1>6

\* The steps that touch the working tree, one by one.
LEMMA NextSound ==
    ASSUME Undisturbed, RunInv, IrInv, KeptBindings, StampSound, [Next]_vars
    PROVE  StampSound'
<1> TypeInv
  BY DEF RunInv
<1>1. CASE RestoreFile
  BY <1>1, RestoreSound
<1>2. CASE \E q \in Paths : WriteFile(q)
  BY <1>2, WriteSound
<1>3. CASE Cleanup \/ Sweep
  BY <1>3, DeleteSound
<1>4. CASE Format
  BY <1>4, FormatSound
<1>5. CASE Finalize
  BY <1>5, FinalizeSound
<1>6. CASE Fail
  BY <1>6, NoFaults DEF Undisturbed, Fail, FinalizePartly, Abort
<1>7. CASE UNCHANGED disk
  BY <1>7 DEF StampSound
<1>8. \/ RestoreFile \/ (\E q \in Paths : WriteFile(q)) \/ Cleanup \/ Sweep \/ Format
      \/ Finalize \/ Fail \/ UNCHANGED disk
  BY DEF Next, RunStep, Extract, Emit, Write, Conclude, Developer, Start, StartDiff, DiffDone,
         ExtractCached, ExtractMiss, Parse, WriteIrJson, WriteIrHash, SelectLangs,
         EmitLangHash, EmitLangManifest, EmitDone, ReadSourcesHash, SkipLang, StartLang,
         BindingsDone, SkipAux, StartAux, FilesWritten, EnumerateScaffold, Finish,
         EditSource, EditConfig, vars
<1> QED BY <1>1, <1>2, <1>3, <1>4, <1>5, <1>6, <1>7, <1>8

\* The embedded hash answers "was this file generated from the current alef
\* inputs?" (core/hash.rs:24-25): through caches, skips, restored files, runs
\* of subsets and formatting, a binding that carries the hash of some inputs
\* holds what those inputs emit.
THEOREM StampAlwaysSound ==
    Undisturbed /\ Separate /\ TruthfulStart => (Spec => []StampSound)
<1> SUFFICES ASSUME Undisturbed, Separate, TruthfulStart PROVE Spec => []StampSound
  OBVIOUS
<1> DEFINE Inv == RunInv /\ IrInv /\ KeptBindings /\ KeepStart /\ StampSound
<1>1. Init => Inv
  <2> SUFFICES ASSUME Init PROVE Inv
    OBVIOUS
  <2>1. RunInv /\ IrInv
    BY InitRun, InitIr
  <2>2. KeptBindings /\ KeepStart
    BY DEF Init, KeptBindings, KeepStart
  <2>3. StampSound
    BY DEF Init, StampSound, TruthfulStart, Sound
  <2> QED BY <2>1, <2>2, <2>3
<1>2. Inv /\ [Next]_vars => Inv'
  <2> SUFFICES ASSUME Inv, [Next]_vars PROVE Inv'
    OBVIOUS
  <2>1. TypeInv' /\ KeepInv' /\ DiskInv'
    BY NextTypes, NextKeep, NextDisk DEF RunInv
  <2>2. IrInv'
    BY <2>1, NextIr DEF RunInv
  <2> QED BY <2>1, <2>2, NextKept, NextSound DEF RunInv
<1>3. Inv => StampSound
  OBVIOUS
<1> HIDE DEF Inv
<1> QED BY <1>1, <1>2, <1>3, PTL DEF Spec

-----------------------------------------------------------------------------
(* A language that counts as cached.                                       *)

\* A language that is recorded is recorded whole: its manifest names the files
\* of the surface its hash names, between the two writes excepted.
ManifestInv ==
    /\ hashed # {} => pc = "emit"
    /\ \A l \in hashed : langHash[l].api = api
    /\ \A l \in Langs \ hashed : langHash[l] \in LangKeys => manifest[l] = Outputs[l][langHash[l].api]

\* A step that records nothing.
LEMMA SteadyManifest ==
    ASSUME ManifestInv, UNCHANGED langCache, UNCHANGED hashed, hashed = {} PROVE ManifestInv'
BY DEF ManifestInv, langCache

LEMMA NextManifest == ASSUME MaxFaults = 0, TypeInv, ManifestInv, [Next]_vars PROVE ManifestInv'
<1> USE DEF cache, locals, loop
<1>1. CASE Start \/ StartDiff
  BY <1>1, SteadyManifest DEF Start, StartDiff, ManifestInv
<1>2. CASE Extract
  BY <1>2, SteadyManifest DEF Extract, ExtractCached, ExtractMiss, Parse, WriteIrJson, WriteIrHash, ManifestInv
<1>3. CASE SelectLangs
  BY <1>3, SteadyManifest DEF SelectLangs, ManifestInv
<1>4. ASSUME NEW l \in Langs, EmitLangHash(l) PROVE ManifestInv'
  <2>1. /\ pc' = "emit" /\ hashed' = hashed \cup {l} /\ api' = api /\ manifest' = manifest
        /\ langHash' = [langHash EXCEPT ![l] = LangKey] /\ langHash \in [Langs -> LangKeys \cup {None}]
    BY <1>4 DEF EmitLangHash, TypeInv, TypeOK
  <2>2. langHash'[l].api = api /\ \A m \in Langs \ {l} : langHash'[m] = langHash[m]
    BY <2>1 DEF LangKey
  <2>3. hashed \subseteq Langs
    BY DEF TypeInv, TypeOK
  <2> QED BY <2>1, <2>2, <2>3 DEF ManifestInv
<1>5. ASSUME NEW l \in Langs, EmitLangManifest(l) PROVE ManifestInv'
  <2>1. /\ pc' = "emit" /\ hashed' = hashed \ {l} /\ l \in hashed /\ api' = api /\ langHash' = langHash
        /\ manifest' = [manifest EXCEPT ![l] = Outputs[l][api]]
        /\ manifest \in [Langs -> (SUBSET Paths) \cup {None}]
    BY <1>5 DEF EmitLangManifest, TypeInv, TypeOK
  <2>2. manifest'[l] = Outputs[l][langHash[l].api] /\ \A m \in Langs \ {l} : manifest'[m] = manifest[m]
    BY <2>1 DEF ManifestInv
  <2> QED BY <2>1, <2>2 DEF ManifestInv
<1>6. CASE EmitDone \/ DiffDone
  BY <1>6, SteadyManifest DEF EmitDone, DiffDone, ClearLocals
<1>7. CASE Write
  BY <1>7, SteadyManifest DEF Write, ReadSourcesHash, SkipLang, StartLang, BindingsDone, SkipAux, StartAux, WriteFile,
     FilesWritten, ManifestInv
<1>8. CASE Conclude
  BY <1>8, SteadyManifest DEF Conclude, EnumerateScaffold, Cleanup, Sweep, Format, Finalize, Finish, ClearLocals, ManifestInv
<1>9. CASE Fail
  BY <1>9, NoFaults DEF Fail, FinalizePartly, Abort
<1>10. CASE Developer
  BY <1>10 DEF Developer, EditSource, EditConfig, RestoreFile, ManifestInv, langCache
<1>11. CASE UNCHANGED vars
  BY <1>11 DEF vars, ManifestInv, langCache
<1> QED BY <1>1, <1>2, <1>3, <1>4, <1>5, <1>6, <1>7, <1>8, <1>9, <1>10, <1>11 DEF Next, RunStep, Emit

\* Where no run is killed between the two writes, a language counts as cached
\* only if every file it would generate is on disk (cache.rs:193-212), whatever
\* the edits, the restored and the deleted files, and whatever `alef diff`
\* records.  KilledEmit shows the kill.
THEOREM CachedAreComplete == MaxFaults = 0 => (Spec => []CachedLangComplete)
<1> SUFFICES ASSUME MaxFaults = 0 PROVE Spec => []CachedLangComplete
  OBVIOUS
<1>1. Init => TypeInv /\ ManifestInv
  BY InitTypes, NoneAssumption DEF Init, ManifestInv
<1>2. TypeInv /\ ManifestInv /\ [Next]_vars => (TypeInv /\ ManifestInv)'
  BY NextTypes, NextManifest
<1>3. TypeInv /\ ManifestInv => CachedLangComplete
  <2> SUFFICES ASSUME TypeInv, ManifestInv, pc = "select", NEW l \in run.langs, LangCached(l),
                      NEW p \in Outputs[l][api]
               PROVE  Exists(disk[p])
    BY DEF CachedLangComplete
  <2>1. l \in Langs /\ api \in Apis /\ run \in Runs /\ cfg \in Configs
    BY DEF TypeInv, TypeOK, PhaseOK, Runs
  <2>2. langHash[l] = LangKey /\ langHash[l] # None
    BY <2>1, NoneAssumption DEF LangCached, LangKey, LangKeys, Runs, TypeInv, TypeOK
  <2>3. langHash[l] \in LangKeys /\ langHash[l].api = api
    BY <2>1, <2>2 DEF LangKey, TypeInv, TypeOK
  <2>4. manifest[l] = Outputs[l][api]
    BY <2>1, <2>3 DEF ManifestInv
  <2>5. Outputs[l][api] \in SUBSET Paths
    BY <2>1, TreeAssumed DEF TreeAssumption
  <2> QED BY <2>4, <2>5, NoneAssumption DEF LangCached
<1> QED BY <1>1, <1>2, <1>3, PTL DEF Spec

-----------------------------------------------------------------------------
(* What verify finds after a run.                                          *)

\* The scaffold pass names a file above all that verify scans (the root's
\* poly.toml), so cleanup visits all of it.
Rooted ==
    \E r \in Scaffold :
        /\ Dir[r] \notin CleanupProtected
        /\ \A p \in Scanned : Dir[p] \notin CleanupProtected /\ Dir[r] \in Above[Dir[p]]

\* In the working tree alef first meets, what carries a hash has a header.
HashesMarked == \A p \in Paths : HasHash(InitDisk[p]) => p \in Marked

\* Only files with a header carry a hash; after cleanup those that do are kept,
\* and what is kept is stamped in the end.
SweptInv ==
    /\ \A p \in Paths : HasHash(disk[p]) => p \in Marked
    /\ pc \in Concludes \ {"scaffold"} => Scaffold \subseteq keep
    /\ pc \in {"sweep", "format", "finalize", "done"} => \A p \in Scanned : HasHash(disk[p]) => p \in keep
    /\ pc = "done" => \A p \in keep \cap Marked : Exists(disk[p]) => disk[p].stamp = Stamp(srcHash, cfg)

\* A step that brings no hash, before the end of cleanup.
LEMMA SteadySwept ==
    ASSUME SweptInv, \A p \in Paths : HasHash(disk'[p]) => HasHash(disk[p]), pc' \notin Concludes \ {"scaffold"}
    PROVE  SweptInv'
BY DEF SweptInv

\* After a deletion only what carried a hash does.
LEMMA DeletionHashes ==
    ASSUME NEW D, disk' = Without(disk, D)
    PROVE  \A p \in Paths : HasHash(disk'[p]) => HasHash(disk[p]) /\ p \notin D
BY DEF Without, HasHash, Exists

LEMMA NextSwept ==
    ASSUME Undisturbed, Rooted, TypeInv, SweptInv, [Next]_vars PROVE SweptInv'
<1> USE DEF cache, locals, loop
<1>0. ~Fault /\ disk \in [Paths -> Files \cup {NoFile}] /\ Scanned \subseteq Paths
  BY NoFaults, TreeAssumed DEF Undisturbed, TypeInv, TypeOK, TreeAssumption
<1>1. CASE Start \/ StartDiff
  BY <1>1, SteadySwept DEF Start, StartDiff
<1>2. CASE Extract
  BY <1>2, SteadySwept DEF Extract, ExtractCached, ExtractMiss, Parse, WriteIrJson, WriteIrHash
<1>3. CASE Emit
  BY <1>3, SteadySwept DEF Emit, SelectLangs, EmitLangHash, EmitLangManifest, EmitDone, DiffDone
<1>4. CASE Write
  <2>1. ASSUME NEW p \in Paths, WriteFile(p) PROVE SweptInv'
    <3>1. \A q \in Paths : disk'[q] = disk[q] \/ disk'[q] = Fresh(Content)
      BY <1>0, <2>1 DEF WriteFile, Written
    <3>2. ~HasHash(Fresh(Content))
      BY DEF Fresh, HasHash
    <3> QED BY <2>1, <3>1, <3>2, SteadySwept DEF WriteFile
  <2>2. CASE FilesWritten
    <3>1. pc' \in {"bindings", "public_api", "stubs", "scaffold"}
      BY <2>2, AfterKinds DEF FilesWritten, TypeInv, PhaseOK, Cats
    <3> QED BY <2>2, <3>1, SteadySwept DEF FilesWritten
  <2>3. ASSUME NEW k \in AuxKinds, SkipAux(k) \/ StartAux(k) PROVE SweptInv'
    <3>1. pc' \in {"writing", "public_api", "stubs", "scaffold"} /\ disk' = disk
      BY <2>3, AfterKinds DEF SkipAux, StartAux
    <3> QED BY <3>1, SteadySwept
  <2>4. CASE ReadSourcesHash \/ BindingsDone \/ \E l \in Langs : SkipLang(l) \/ StartLang(l)
    BY <2>4, SteadySwept DEF ReadSourcesHash, BindingsDone, SkipLang, StartLang
  <2> QED BY <1>4, <2>1, <2>2, <2>3, <2>4 DEF Write
<1>5. CASE EnumerateScaffold
  BY <1>0, <1>5 DEF EnumerateScaffold, SweptInv
<1>6. CASE Cleanup
  <2>1. disk' = Without(disk, CleanupOrphans(disk, keep)) /\ pc = "cleanup" /\ pc' = "sweep" /\ keep' = keep
    BY <1>0, <1>6 DEF Cleanup
  <2>2. \A p \in Paths : HasHash(disk'[p]) => HasHash(disk[p]) /\ p \notin CleanupOrphans(disk, keep)
    BY <2>1, DeletionHashes
  <2>3. PICK r \in Scaffold : /\ Dir[r] \notin CleanupProtected
                              /\ \A p \in Scanned : Dir[p] \notin CleanupProtected /\ Dir[r] \in Above[Dir[p]]
    BY DEF Rooted
  <2>4. r \in keep
    BY <2>1 DEF SweptInv
  <2>5. ASSUME NEW p \in Scanned, HasHash(disk[p]), p \notin keep PROVE p \in CleanupOrphans(disk, keep)
    <3>1. Dir[r] \in Above[Dir[p]] \cap TouchedDirs(keep)
      BY <2>3, <2>4 DEF TouchedDirs
    <3>2. p \in CleanupVisits(keep)
      BY <1>0, <2>3, <3>1 DEF CleanupVisits
    <3> QED BY <2>5, <3>2 DEF CleanupOrphans, AlefOwned
  <2> QED BY <1>0, <2>1, <2>2, <2>5 DEF SweptInv
<1>7. CASE Sweep
  <2>1. pc = "sweep" /\ pc' = "format" /\ keep' = keep
    BY <1>7 DEF Sweep
  <2>2. \A p \in Paths : HasHash(disk'[p]) => HasHash(disk[p])
    BY <1>0, <1>7, DeletionHashes DEF Sweep
  <2> QED BY <1>0, <2>1, <2>2 DEF SweptInv
<1>8. CASE Format
  <2>1. pc = "format" /\ pc' = "finalize" /\ keep' = keep
    BY <1>8 DEF Format
  <2>2. ASSUME NEW p \in Paths, HasHash(disk'[p]) PROVE HasHash(disk[p])
    <3>1. disk'[p] = disk[p] \/ (disk'[p] = [disk[p] EXCEPT !.form = "fmt"] /\ Exists(disk[p]) /\ disk[p] \in Files)
      BY <1>0, <1>8 DEF Format, Formatted, Exists
    <3>2. [disk[p] EXCEPT !.form = "fmt"].stamp = disk[p].stamp \/ disk[p] \notin Files
      BY DEF Files
    <3> QED BY <2>2, <3>1, <3>2 DEF HasHash
  <2> QED BY <1>0, <2>1, <2>2 DEF SweptInv
<1>9. CASE Finalize
  <2>1. /\ pc = "finalize" /\ pc' = "done" /\ UNCHANGED <<keep, srcHash, cfg>>
        /\ disk' = [p \in Paths |-> IF p \in keep THEN Stamped(disk[p], p, Stamp(srcHash, cfg)) ELSE disk[p]]
    BY <1>9 DEF Finalize, inputs
  <2>2. Stamp(srcHash, cfg) \in Stamps
    BY <2>1 DEF TypeInv, TypeOK, PhaseOK, Stamp, Stamps
  <2>3. ASSUME NEW p \in Paths, ~(p \in keep /\ p \in Marked /\ Exists(disk[p])) PROVE disk'[p] = disk[p]
    BY <2>1, <2>3 DEF Stamped
  <2>4. ASSUME NEW p \in Paths, p \in keep, p \in Marked, Exists(disk[p]) PROVE disk'[p].stamp = Stamp(srcHash, cfg)
    <3>1. disk'[p] = Stamped(disk[p], p, Stamp(srcHash, cfg)) /\ disk[p] \in Files \cup {NoFile}
      BY <1>0, <2>1, <2>4
    <3> QED BY <2>2, <2>4, <3>1, StampedFile
  <2>5. keep \subseteq Paths
    BY DEF TypeInv, TypeOK
  <2>6. \A p \in Paths : HasHash(disk'[p]) => p \in Marked
    BY <2>3 DEF SweptInv
  <2>7. \A p \in Scanned : HasHash(disk'[p]) => p \in keep
    BY <1>0, <2>1, <2>3 DEF SweptInv
  <2>8. \A p \in keep \cap Marked : Exists(disk'[p]) => disk'[p].stamp = Stamp(srcHash, cfg)
    BY <2>3, <2>4, <2>5
  <2> QED BY <2>1, <2>6, <2>7, <2>8 DEF SweptInv
<1>10. CASE Finish
  BY <1>10, SteadySwept DEF Finish
<1>11. CASE Fail
  BY <1>0, <1>11 DEF Fail, FinalizePartly, Abort
<1>12. CASE EditSource \/ EditConfig
  <2>1. pc = "idle"
    BY <1>12 DEF EditSource, EditConfig, MayEdit, Undisturbed
  <2> QED BY <1>12, <2>1, SteadySwept DEF EditSource, EditConfig
<1>13. CASE RestoreFile
  <2>1. pc' = "idle"
    BY <1>13 DEF RestoreFile
  <2>2. PICK q \in Paths, s \in Sources, c \in Configs :
             \E f \in {Committed(q, s, c), NoFile} : disk' = [disk EXCEPT ![q] = f]
    <3>1. \A s \in Sources, c \in Configs : Api[s][c] \in Apis
      BY TreeAssumed DEF TreeAssumption
    <3> QED BY <1>13, <3>1, GeneratedInPaths DEF RestoreFile
  <2>3. HasHash(Committed(q, s, c)) => q \in Marked
    BY DEF HasHash, Committed
  <2>4. \A p \in Paths : HasHash(disk'[p]) => p \in Marked
    BY <1>0, <2>2, <2>3 DEF SweptInv, HasHash, Exists
  <2> QED BY <2>1, <2>4 DEF SweptInv
<1>14. CASE UNCHANGED vars
  BY <1>14 DEF vars, inputs, SweptInv
<1> QED BY <1>1, <1>2, <1>3, <1>4, <1>5, <1>6, <1>7, <1>8, <1>9, <1>10, <1>11, <1>12, <1>13, <1>14
        DEF Next, RunStep, Conclude, Developer

\* Right after a run no scanned file keeps the hash of other inputs: what the
\* run did not keep is gone, what it kept is stamped, through caches, skips,
\* restored files and runs of some languages (core_commands.rs:226-253).
THEOREM RunVerifies ==
    Undisturbed /\ Rooted /\ HashesMarked => (Spec => []VerifyCleanAfterRun)
<1> SUFFICES ASSUME Undisturbed, Rooted, HashesMarked PROVE Spec => []VerifyCleanAfterRun
  OBVIOUS
<1>1. Init => TypeInv /\ IrInv /\ SweptInv
  BY InitTypes, InitIr DEF Init, SweptInv, HashesMarked
<1>2. TypeInv /\ IrInv /\ SweptInv /\ [Next]_vars => (TypeInv /\ IrInv /\ SweptInv)'
  BY NextTypes, NextIr, NextSwept
<1>3. IrInv /\ SweptInv => VerifyCleanAfterRun
  <2> SUFFICES ASSUME IrInv, SweptInv, pc = "done", NEW p \in Scanned, HasHash(disk[p])
               PROVE  disk[p].stamp = Stamp(SourcesHash[src], cfg)
    BY DEF VerifyCleanAfterRun, StaleFiles
  <2>1. p \in Paths /\ Exists(disk[p])
    BY TreeAssumed DEF TreeAssumption, HasHash
  <2>2. p \in keep \cap Marked
    BY <2>1 DEF SweptInv
  <2>3. srcHash = SourcesHash[src]
    BY DEF IrInv
  <2> QED BY <2>1, <2>2, <2>3 DEF SweptInv
<1> QED BY <1>1, <1>2, <1>3, PTL DEF Spec

-----------------------------------------------------------------------------
(* What a --clean run repairs.                                             *)

\* A run that reads no cache works on the inputs it was started on.
CleanInv ==
    /\ pc # "idle" => run.cfg = cfg
    /\ pc \in Writes \cup Concludes => srcHash = SourcesHash[src]
    /\ pc \notin {"idle", "extract", "parse"} /\ run.clean => api = Api[src][cfg]

\* It writes the files of every kind it goes past.
AuxHold(k) ==
    \A p \in AuxFiles(k, run.langs, api) \ writing : Exists(disk[p]) /\ disk[p].body = Content

AuxInv == pc # "idle" /\ run.clean =>
    /\ Place \in {"public_api", "stubs"} \cup Concludes => AuxHold("services")
    /\ Place \in {"stubs"} \cup Concludes => AuxHold("public_api")
    /\ Place \in Concludes => AuxHold("stubs")

\* It stamps them all in the end.
StampedInv ==
    pc = "done" /\ run.clean => \A p \in (RunOutputs \cup AuxOutputs) \cap Marked : disk[p].stamp = Stamp(srcHash, cfg)

LEMMA NextClean == ASSUME ~LiveEdits, TypeInv, CleanInv, [Next]_vars PROVE CleanInv'
<1> USE DEF cache, locals, loop, inputs
<1>1. CASE Start \/ StartDiff
  BY <1>1 DEF Start, StartDiff, CleanInv
<1>2. CASE Extract
  BY <1>2 DEF Extract, ExtractCached, ExtractMiss, Parse, WriteIrJson, WriteIrHash, CleanInv
<1>3. CASE Emit
  BY <1>3 DEF Emit, SelectLangs, EmitLangHash, EmitLangManifest, EmitDone, DiffDone, CleanInv
<1>4. CASE Write
  <2>1. CASE FilesWritten
    <3>1. pc' \in {"bindings", "public_api", "stubs", "scaffold"}
      BY <2>1, AfterKinds DEF FilesWritten, TypeInv, PhaseOK, Cats
    <3> QED BY <2>1, <3>1 DEF FilesWritten, CleanInv
  <2>2. ASSUME NEW k \in AuxKinds, SkipAux(k) \/ StartAux(k) PROVE CleanInv'
    <3>1. pc \in Writes /\ pc' \in {"writing", "public_api", "stubs", "scaffold"}
      BY <2>2, AfterKinds DEF SkipAux, StartAux
    <3> QED BY <2>2, <3>1 DEF SkipAux, StartAux, CleanInv
  <2>3. CASE ReadSourcesHash \/ BindingsDone \/ (\E l \in Langs : SkipLang(l) \/ StartLang(l)) \/ \E p \in Paths : WriteFile(p)
    BY <2>3 DEF ReadSourcesHash, BindingsDone, SkipLang, StartLang, WriteFile, CleanInv
  <2> QED BY <1>4, <2>1, <2>2, <2>3 DEF Write
<1>5. CASE Conclude
  BY <1>5 DEF Conclude, EnumerateScaffold, Cleanup, Sweep, Format, Finalize, Finish, CleanInv
<1>6. CASE Fail
  BY <1>6 DEF Fail, FinalizePartly, Abort, CleanInv
<1>7. CASE Developer
  BY <1>7 DEF Developer, EditSource, EditConfig, RestoreFile, MayEdit, CleanInv
<1>8. CASE UNCHANGED vars
  BY <1>8 DEF vars, CleanInv
<1> QED BY <1>1, <1>2, <1>3, <1>4, <1>5, <1>6, <1>7, <1>8 DEF Next, RunStep

\* Before the files of the first other kind the invariant is about nothing.
LEMMA EarlyAux ==
    ASSUME pc' \in {"idle", "extract", "parse", "ir_json", "ir_hash", "select", "emit", "sources", "bindings", "services"}
    PROVE  AuxInv'
BY DEF AuxInv, Place

\* A step that stays in its place and keeps every body.
LEMMA SteadyAux ==
    ASSUME AuxInv, pc # "idle", UNCHANGED <<run, api, writing>>,
           Place' = Place \/ (Place \in Concludes /\ Place' \in Concludes),
           \A k \in AuxKinds : \A p \in AuxFiles(k, run.langs, api) \cap keep :
               Exists(disk[p]) => Exists(disk'[p]) /\ disk'[p].body = disk[p].body,
           KeepInv
    PROVE  AuxInv'
<1> SUFFICES ASSUME run.clean
             PROVE  /\ Place' \in {"public_api", "stubs"} \cup Concludes => AuxHold("services")'
                    /\ Place' \in {"stubs"} \cup Concludes => AuxHold("public_api")'
                    /\ Place' \in Concludes => AuxHold("stubs")'
  BY DEF AuxInv
<1>1. ASSUME NEW k \in AuxKinds, AuxHold(k), AuxFiles(k, run.langs, api) \subseteq keep PROVE AuxHold(k)'
  BY <1>1 DEF AuxHold, AuxFiles, Content
<1>2. Place' \in Concludes <=> Place \in Concludes
  OBVIOUS
<1>3. /\ Place \in {"public_api", "stubs"} \cup Concludes => AuxHold("services") /\ AuxFiles("services", run.langs, api) \subseteq keep
      /\ Place \in {"stubs"} \cup Concludes => AuxHold("public_api") /\ AuxFiles("public_api", run.langs, api) \subseteq keep
      /\ Place \in Concludes => AuxHold("stubs") /\ AuxFiles("stubs", run.langs, api) \subseteq keep
  BY DEF AuxInv, KeepInv
<1> QED BY <1>1, <1>2, <1>3

LEMMA NextAux == ASSUME TypeInv, KeepInv, DiskInv, AuxInv, [Next]_vars PROVE AuxInv'
<1> USE DEF cache, locals, loop
<1>0. disk \in [Paths -> Files \cup {NoFile}]
  BY DEF TypeInv, TypeOK
<1>1. CASE Start \/ StartDiff
  BY <1>1, EarlyAux DEF Start, StartDiff
<1>2. CASE Extract
  BY <1>2, EarlyAux DEF Extract, ExtractCached, ExtractMiss, Parse, WriteIrJson, WriteIrHash
<1>3. CASE Emit
  BY <1>3, EarlyAux DEF Emit, SelectLangs, EmitLangHash, EmitLangManifest, EmitDone, DiffDone
<1>4. CASE ReadSourcesHash \/ BindingsDone \/ \E l \in Langs : SkipLang(l)
  BY <1>4, EarlyAux DEF ReadSourcesHash, BindingsDone, SkipLang
<1>5. ASSUME NEW l \in Langs, StartLang(l) PROVE AuxInv'
  <2>1. Place' = "bindings"
    BY <1>5, AfterKinds DEF StartLang, Place
  <2> QED BY <2>1 DEF AuxInv
<1>6. ASSUME NEW k \in AuxKinds, SkipAux(k) \/ StartAux(k) PROVE AuxInv'
  <2> SUFFICES ASSUME run.clean PROVE AuxInv'
    BY <1>6 DEF SkipAux, StartAux, AuxInv
  <2>1. Place = k /\ Place' = After(k) /\ pc # "idle" /\ writing = {} /\ UNCHANGED <<run, api, disk>>
    BY <1>6, AfterKinds, NothingLeft DEF SkipAux, StartAux, Place
  <2>2. AuxFiles(k, run.langs, api) = {} \/ writing' = AuxFiles(k, run.langs, api)
    BY <1>6, KindFiles DEF SkipAux, StartAux
  <2>3. AuxHold(k)'
    BY <2>1, <2>2 DEF AuxHold
  <2>4. \A j \in AuxKinds : AuxHold(j) => AuxHold(j)'
    BY <2>1 DEF AuxHold, Content
  <2>5. CASE k = "services"
    BY <2>1, <2>3, <2>5, AfterKinds DEF AuxInv
  <2>6. CASE k = "public_api"
    BY <2>1, <2>3, <2>4, <2>6, AfterKinds DEF AuxInv
  <2>7. CASE k = "stubs"
    BY <2>1, <2>3, <2>4, <2>7, AfterKinds DEF AuxInv
  <2> QED BY <2>5, <2>6, <2>7
<1>7. ASSUME NEW q \in Paths, WriteFile(q) PROVE AuxInv'
  <2>1. Content \in Bodies
    BY <1>7, ContentType DEF WriteFile, TypeInv, PhaseOK
  <2>2. /\ Exists(disk'[q]) /\ disk'[q].body = Content /\ writing' = writing \ {q} /\ pc = "writing"
        /\ \A p \in Paths \ {q} : disk'[p] = disk[p]
    BY <1>0, <1>7, <2>1, WrittenFile DEF WriteFile
  <2>3. UNCHANGED <<run, api>> /\ Place' = Place /\ api \in Apis /\ run \in Runs
    BY <1>7 DEF WriteFile, Place, TypeInv, PhaseOK
  <2>4. \A k \in AuxKinds : AuxFiles(k, run.langs, api) \subseteq Paths
    BY <2>3, CatFilesInPaths, KindFiles DEF Cats
  <2>5. ASSUME NEW k \in AuxKinds, AuxHold(k) PROVE AuxHold(k)'
    BY <2>2, <2>3, <2>4, <2>5 DEF AuxHold, AuxFiles, Content
  <2> QED BY <2>2, <2>3, <2>5 DEF AuxInv
<1>8. CASE FilesWritten
  <2>1. Place' = Place /\ pc # "idle" /\ UNCHANGED <<run, api, writing, disk>>
    BY <1>8, AfterKinds DEF FilesWritten, Place, TypeInv, PhaseOK, Cats
  <2> QED BY <2>1, SteadyAux
<1>9. CASE EnumerateScaffold
  BY <1>9, SteadyAux DEF EnumerateScaffold, Place
<1>10. CASE Cleanup \/ Sweep
  <2>1. PICK D : disk' = Without(disk, D) /\ D \cap keep = {}
    BY <1>10, Deletions
  <2>2. keep \subseteq Paths
    BY DEF TypeInv, TypeOK
  <2>3. \A p \in keep : disk'[p] = disk[p]
    BY <2>1, <2>2, DeletionSpares
  <2> QED BY <1>10, <2>3, SteadyAux DEF Cleanup, Sweep, Place
<1>11. CASE Format
  <2>1. \A p \in Paths : Exists(disk[p]) => Exists(disk'[p]) /\ disk'[p].body = disk[p].body
    BY <1>0, <1>11, FormattedFile DEF Format
  <2>2. keep \subseteq Paths
    BY DEF TypeInv, TypeOK
  <2> QED BY <1>11, <2>1, <2>2, SteadyAux DEF Format, Place
<1>12. CASE Finalize
  <2>1. Stamp(srcHash, cfg) \in Stamps /\ keep \subseteq Paths
    BY <1>12 DEF Finalize, TypeInv, TypeOK, PhaseOK, Stamp, Stamps
  <2>2. \A p \in keep : Exists(disk[p]) => Exists(disk'[p]) /\ disk'[p].body = disk[p].body
    BY <1>0, <1>12, <2>1, StampedFile DEF Finalize
  <2> QED BY <1>12, <2>2, SteadyAux DEF Finalize, Place
<1>13. CASE Finish \/ Fail
  BY <1>13, EarlyAux DEF Finish, Fail, FinalizePartly, Abort
<1>14. CASE EditSource \/ EditConfig
  BY <1>14 DEF EditSource, EditConfig, AuxInv, AuxHold, Content, Place
<1>15. CASE RestoreFile
  BY <1>15, EarlyAux DEF RestoreFile
<1>16. CASE UNCHANGED vars
  BY <1>16 DEF vars, AuxInv, AuxHold, Content, Place
<1> QED BY <1>1, <1>2, <1>3, <1>4, <1>5, <1>6, <1>7, <1>8, <1>9, <1>10, <1>11, <1>12, <1>13, <1>14, <1>15, <1>16
        DEF Next, RunStep, Write, Conclude, Developer

\* What a run keeps of what it generated or vouched for.
LEMMA OutputsKept == ASSUME KeepInv, Place \in Concludes PROVE RunOutputs \cup AuxOutputs \subseteq keep
<1>1. Settled = results
  BY DEF KeepInv, Settled
<1> QED BY <1>1 DEF KeepInv, RunOutputs, AuxOutputs

LEMMA NextStamped ==
    ASSUME ~LiveEdits, TypeInv, KeepInv, DiskInv, AuxInv, StampedInv, [Next]_vars
    PROVE  StampedInv'
<1> SUFFICES ASSUME pc' = "done", run'.clean PROVE StampedInv'
  BY DEF StampedInv
<1> USE DEF cache, locals, loop, inputs
<1>1. CASE Finalize
  <2>1. Stamp(srcHash, cfg) \in Stamps /\ keep \subseteq Paths /\ disk \in [Paths -> Files \cup {NoFile}] /\ pc = "finalize"
    BY <1>1 DEF Finalize, TypeInv, TypeOK, PhaseOK, Stamp, Stamps
  <2>2. UNCHANGED <<api, run, results, srcHash, cfg>>
    BY <1>1 DEF Finalize
  <2>3. Place = "finalize" /\ writing = {} /\ Settled = results
    BY <2>1, NothingLeft DEF Place, KeepInv, Settled
  <2>4. RunOutputs \cup AuxOutputs \subseteq keep
    BY <2>3, OutputsKept
  <2>5. \A p \in RunOutputs \cup AuxOutputs : Exists(disk[p])
    <3>1. \A p \in RunOutputs : Exists(disk[p])
      BY <2>3 DEF DiskInv, RunOutputs
    <3>2. run.clean /\ pc # "idle"
      BY <1>1, <2>2 DEF Finalize
    <3>3. \A p \in AuxOutputs : Exists(disk[p])
      BY <2>3, <3>2 DEF AuxInv, AuxHold, AuxOutputs
    <3> QED BY <3>1, <3>3
  <2>6. \A p \in (RunOutputs \cup AuxOutputs) \cap Marked : disk'[p].stamp = Stamp(srcHash, cfg)
    BY <1>1, <2>1, <2>4, <2>5, StampedFile DEF Finalize
  <2>7. UNCHANGED <<RunOutputs, AuxOutputs>>
    BY <2>2 DEF RunOutputs, AuxOutputs, AuxFiles
  <2> QED BY <2>2, <2>6, <2>7 DEF StampedInv
<1>2. CASE UNCHANGED vars
  BY <1>2 DEF vars, StampedInv, RunOutputs, AuxOutputs, AuxFiles
<1>3. CASE ~Finalize /\ Next
  <2>1. ~FilesWritten /\ \A k \in AuxKinds : ~SkipAux(k) /\ ~StartAux(k)
    BY AfterKinds DEF FilesWritten, SkipAux, StartAux, TypeInv, PhaseOK, Cats
  <2>2. ~Developer
    <3>1. CASE pc = "idle"
      BY <3>1 DEF Developer, EditSource, EditConfig, RestoreFile
    <3> QED BY <3>1 DEF Developer, EditSource, EditConfig, RestoreFile, MayEdit
  <2> QED BY <1>3, <2>1, <2>2 DEF Next, Start, StartDiff, RunStep, Extract, ExtractCached, ExtractMiss, Parse, WriteIrJson,
       WriteIrHash, Emit, SelectLangs, EmitLangHash, EmitLangManifest, EmitDone, DiffDone, Write, ReadSourcesHash,
       SkipLang, StartLang, BindingsDone, WriteFile, Conclude, EnumerateScaffold, Cleanup, Sweep, Format, Finish,
       Fail, FinalizePartly, Abort
<1> QED BY <1>1, <1>2, <1>3

\* Whatever killed and failed runs, edits, restored files and caches left, a
\* --clean run that ends leaves every binding, public-API and stub file of its
\* languages as the current inputs emit it and stamped for them
\* (core_commands.rs:75-253), unless the inputs are edited while it runs.
THEOREM CleanRepairs == ~LiveEdits => (Spec => []CleanRunRepairs)
<1> SUFFICES ASSUME ~LiveEdits PROVE Spec => []CleanRunRepairs
  OBVIOUS
<1> DEFINE Inv == RunInv /\ CleanInv /\ AuxInv /\ StampedInv
<1>1. Init => Inv
  BY InitRun DEF Init, CleanInv, AuxInv, StampedInv
<1>2. Inv /\ [Next]_vars => Inv'
  <2> SUFFICES ASSUME Inv, [Next]_vars PROVE Inv'
    OBVIOUS
  <2> QED BY NextTypes, NextKeep, NextDisk, NextClean, NextAux, NextStamped DEF RunInv
<1>3. Inv => CleanRunRepairs
  <2> SUFFICES ASSUME Inv, pc = "done", run.clean, NEW p \in RunOutputs \cup AuxOutputs
               PROVE  /\ Exists(disk[p]) /\ disk[p].body = Body(Api[src][cfg], cfg)
                      /\ p \in Marked => disk[p].stamp = Stamp(SourcesHash[src], cfg)
    BY DEF CleanRunRepairs
  <2>1. Place = "done" /\ writing = {} /\ Settled = results
    BY NothingLeft DEF RunInv, Place, KeepInv, Settled
  <2>2. Content = Body(Api[src][cfg], cfg) /\ srcHash = SourcesHash[src]
    BY DEF CleanInv, Content
  <2>3. Exists(disk[p]) /\ disk[p].body = Content
    <3>1. CASE p \in RunOutputs
      BY <2>1, <3>1 DEF RunInv, DiskInv, RunOutputs
    <3>2. CASE p \in AuxOutputs
      BY <2>1, <3>2 DEF AuxInv, AuxHold, AuxOutputs
    <3> QED BY <3>1, <3>2
  <2> QED BY <2>2, <2>3 DEF StampedInv
<1> HIDE DEF Inv
<1> QED BY <1>1, <1>2, <1>3, PTL DEF Spec
=============================================================================

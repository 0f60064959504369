--------------------------- MODULE AlefAllProofs ---------------------------
(***************************************************************************)
(* Proofs about AlefAll, for every value of its constants: types, what the *)
(* deleting passes of `alef all` spare, when a suite counts as up to date, *)
(* what --clean repairs and what `alef verify` finds afterwards.  Edits,   *)
(* faults and filters are bounded only where a theorem says so.            *)
(***************************************************************************)
EXTENDS AlefAll, SequenceTheorems, TLAPS

-----------------------------------------------------------------------------
(* Where a run is.                                                         *)

Steps == (RunPasses \X {"run"}) \cup (StageOps \X Stages)

AllSteps == (RunPasses \X {"run"}) \cup
            ({"check", "write", "restyle", "sweep_suite", "hash", "list"} \X Suites)

OwnOps(st) == IF st \in Suites THEN StageOps ELSE {"check", "write", "stamp", "hash", "list"}

LegalSteps(c) ==
    IF c = "all" THEN AllSteps ELSE {<<"done", "run">>} \cup (OwnOps(c) \X {c})

\* What comes after a stage, and after one of its operations.
AfterStage(c, st) ==
    IF c # "all" THEN <<"done", "run">>
    ELSE IF st = "e2e" THEN <<"check", "test-apps">> ELSE <<"docs", "run">>

AfterOp(c, op, st) ==
    CASE op = "write" /\ (c = "all" \/ st \in Suites)     -> <<"restyle", st>>
      [] op = "write" /\ c # "all" /\ st \notin Suites    -> <<"stamp", st>>
      [] op = "restyle" /\ c # "all"                      -> <<"stamp", st>>
      [] op = "restyle" /\ c = "all"                      -> <<"sweep_suite", st>>
      [] op = "stamp" /\ st \in Suites                    -> <<"sweep_suite", st>>
      [] op = "stamp" /\ st \notin Suites /\ Recorded(st) -> <<"hash", st>>
      [] op = "sweep_suite"                               -> <<"hash", st>>
      [] op = "hash"                                      -> <<"list", st>>
      [] OTHER                                            -> AfterStage(c, st)

AfterPass(k) ==
    CASE k = "emit"       -> <<"bindings", "run">>
      [] k = "bindings"   -> <<"services", "run">>
      [] k = "services"   -> <<"scaffold", "run">>
      [] k = "scaffold"   -> <<"post_build", "run">>
      [] k = "post_build" -> <<"stubs", "run">>
      [] k = "stubs"      -> <<"public_api", "run">>
      [] k = "public_api" -> <<"readme", "run">>
      [] k = "readme"     -> <<"check", "e2e">>
      [] k = "docs"       -> <<"pages", "run">>
      [] k = "pages"      -> <<"cleanup", "run">>
      [] k = "cleanup"    -> <<"sweep", "run">>
      [] k = "sweep"      -> <<"format", "run">>
      [] k = "format"     -> <<"finalize", "run">>
      [] OTHER            -> <<"done", "run">>

After(c, x) == IF x[2] = "run" THEN AfterPass(x[1]) ELSE AfterOp(c, x[1], x[2])

\* The passes a run has left follow each other as in its handler.
Chain ==
    /\ todo \in Seq(Steps)
    /\ todo # <<>> =>
          /\ todo[Len(todo)] = <<"done", "run">>
          /\ \A i \in 1..Len(todo) : todo[i] \in LegalSteps(run.command)
          /\ \A i \in 1..(Len(todo) - 1) : todo[i + 1] = After(run.command, todo[i])

TodoInv ==
    /\ Chain
    /\ run = None <=> todo = <<>>
    /\ run = None => keep = {}
    /\ InAll => run.langs = Langs
    /\ run # None /\ ~InAll =>
          /\ run.command \in Stages /\ ~run.clean /\ keep = {}
          /\ Filters \/ run.langs = Langs

TypeInv == TypeOK /\ TodoInv

\* The place of a pass in `alef all`.
Num(x) ==
    IF x[2] = "e2e" THEN 9
    ELSE IF x[2] = "test-apps" THEN 10
    ELSE CASE x[1] = "emit"       -> 1
           [] x[1] = "bindings"   -> 2
           [] x[1] = "services"   -> 3
           [] x[1] = "scaffold"   -> 4
           [] x[1] = "post_build" -> 5
           [] x[1] = "stubs"      -> 6
           [] x[1] = "public_api" -> 7
           [] x[1] = "readme"     -> 8
           [] x[1] = "docs"       -> 11
           [] x[1] = "pages"      -> 12
           [] x[1] = "cleanup"    -> 13
           [] x[1] = "sweep"      -> 14
           [] x[1] = "format"     -> 15
           [] x[1] = "finalize"   -> 16
           [] OTHER               -> 17

Here == Num(Head(todo))

SuiteNum(st) == IF st = "e2e" THEN 9 ELSE 10

-----------------------------------------------------------------------------
(* What the next pass does to the tree.                                    *)

\* The files it removes.
Removed ==
    CASE Op = "cleanup"     -> CleanupOrphans(disk, keep)
      [] Op = "sweep"       -> SweepOrphans(disk, keep, SweepRoots(Langs, FALSE))
      [] Op = "sweep_suite" ->
            SweepOrphans(disk, Emitted(Stage, run.langs), SuiteRoots(Stage))
      [] OTHER              -> {}

\* The files it writes, and what it writes there.
Puts ==
    CASE Op = "bindings" -> LangFiles(results)
      [] Op = "services" -> AuxOf("services")
      [] Op = "scaffold" -> Emitted("scaffold", Langs)
      [] Op \in {"stubs", "public_api"} /\ ~UpToDate(Op) -> AuxOf(Op)
      [] Op \in {"readme", "docs"} -> Emitted(Op, Langs)
      [] Op = "write"    -> Emitted(Stage, run.langs)
      [] OTHER           -> {}

PutBody == IF Op = "write" THEN StageBody(Stage) ELSE RunBody

\* A file of the scaffold that stays as the developer has it.
Spared(p) ==
    /\ p \in Seeds /\ Exists(disk[p])
    /\ \/ Op = "scaffold" /\ ~run.clean
       \/ Op = "write" /\ Stage = "scaffold"

\* The files it stamps.
StampsOf ==
    CASE Op = "finalize" -> keep
      [] Op = "stamp"    -> Emitted(Stage, run.langs)
      [] OTHER           -> {}

-----------------------------------------------------------------------------
(* Conditions and invariants.                                              *)

\* What is emitted for the surface a, but for the suites; and for a suite.
OthersOf(a) ==
    (UNION {Outputs[l][a] : l \in Langs})
    \cup (UNION {AuxFiles(k, Langs, a) : k \in AuxKinds})
    \cup (UNION {StageFiles[st][l][a] : st \in Stages \ Suites, l \in Langs})

SuiteFiles(st, a) == UNION {StageFiles[st][l][a] : l \in Langs}

\* Each suite has a directory to itself; every host can make all of it.
SuitesApart ==
    /\ \A st \in Suites, a \in Apis :
          /\ SuiteFiles(st, a) \subseteq Under({SuiteDir[st]}) \ HostPages
          /\ OthersOf(a) \cap Under({SuiteDir[st]}) = {}
    /\ Under({SuiteDir["e2e"]}) \cap Under({SuiteDir["test-apps"]}) = {}
    /\ \A st \in Suites : Under({DocsDir}) \cap Under({SuiteDir[st]}) = {}

\* No page lies where only one of the two deleting passes may not go.
PagesCollected ==
    \A p \in Under({DocsDir}) : Dir[p] \in SweepSkipped => Dir[p] \in CleanupProtected

\* Suites are generated for all languages, and never stopped halfway.
Undivided == MaxFaults = 0 /\ ~Filters

\* When the pages are in the keep set.
PagesKept ==
    InAll /\ Op \in {"cleanup", "sweep"} =>
        \A p \in Under({DocsDir}) : HasHash(disk[p]) =>
            p \in keep \/ Dir[p] \in SweepSkipped

InOps(st, ops) == todo # <<>> /\ Stage = st /\ Op \in ops

\* What the record of a suite says, when the suite is not being generated.
ListInv ==
    \A st \in Suites :
        /\ stageHash[st] # None /\ ~InOps(st, {"list"}) =>
              stageList[st] = SuiteFiles(st, stageHash[st].api)
        /\ InOps(st, {"list"}) => stageHash[st] = StageKey(st)

\* What the keep set holds of a suite.
KeptInv ==
    InAll => \A st \in Suites :
        /\ Here > SuiteNum(st) => stageHash[st] = StageKey(st) /\ stageList[st] \subseteq keep
        /\ keep \cap Under({SuiteDir[st]}) \subseteq
              (IF Here > SuiteNum(st) THEN ReadStagePaths(st) ELSE {})

\* What is on disk of a suite that has a record, and of one being generated.
BodyInv ==
    \A st \in Suites :
        /\ stageHash[st] # None /\ ~InOps(st, {"restyle", "stamp", "sweep_suite", "hash"}) =>
              \A p \in SuiteFiles(st, stageHash[st].api) :
                  Exists(disk[p]) => disk[p].body = stageHash[st]
        /\ InOps(st, {"restyle", "stamp", "sweep_suite", "hash"}) =>
              \A p \in SuiteFiles(st, Surface) :
                  Exists(disk[p]) => disk[p].body = StageBody(st)

\* A file above all that verify scans is part of every scaffold (poly.toml).
Rooted ==
    \E r \in Paths \ HostPages :
        /\ \A a \in Apis : \E l \in Langs : r \in StageFiles["scaffold"][l][a]
        /\ Dir[r] \notin CleanupProtected
        /\ \A p \in Scanned : Dir[p] \notin CleanupProtected => Dir[r] \in Above[Dir[p]]

\* What verify scans where cleanup may not go is for the sweep of a suite.
Tended ==
    \A p \in Scanned : Dir[p] \in CleanupProtected =>
        /\ Dir[p] \notin SweepSkipped
        /\ \E st \in Suites : p \in Under({SuiteDir[st]})

\* In the first tree only files with a header carry a hash.
Headed == \A p \in Paths \ Marked : ~HasHash(InitDisk[p])

MarkedInv == \A p \in Paths : HasHash(disk[p]) => p \in Marked

Hashed(st) == {p \in Under({SuiteDir[st]}) : HasHash(disk[p]) /\ Dir[p] \notin SweepSkipped}

\* A suite with a record has no orphans.
TidyInv ==
    \A st \in Suites :
        /\ /\ stageHash[st] # None
           /\ ~InOps(st, {"write", "restyle", "stamp", "sweep_suite", "hash", "list"})
           => Hashed(st) \subseteq ReadStagePaths(st)
        /\ InOps(st, {"hash", "list"}) => Hashed(st) \subseteq SuiteFiles(st, Surface)

\* The end of `alef all`: what carries a hash is kept, what is kept stamped.
SweptInv ==
    InAll =>
        /\ Here > 4 => Emitted("scaffold", Langs) \subseteq keep
        /\ Here > 13 => \A p \in Scanned : HasHash(disk[p]) => p \in keep
        /\ Here > 16 => \A p \in keep : HasHash(disk[p]) => disk[p].stamp = InputStamp

\* What `alef all` has emitted by now, but for the suites.
Plain(n) ==
    (IF n > 2 THEN LangFiles(Langs) ELSE {})
    \cup (IF n > 3 THEN AuxOf("services") ELSE {})
    \cup (IF n > 4 THEN Emitted("scaffold", Langs) ELSE {})
    \cup (IF n > 6 THEN AuxOf("stubs") ELSE {})
    \cup (IF n > 7 THEN AuxOf("public_api") ELSE {})
    \cup (IF n > 8 THEN Emitted("readme", Langs) ELSE {})
    \cup (IF n > 11 THEN Emitted("docs", Langs) ELSE {})

Holds(P, b) == \A p \in P : Exists(disk[p]) /\ disk[p].body = b

\* A run with --clean up to now.
CleanInv ==
    InAll /\ run.clean =>
        /\ Here > 1 => results = Langs
        /\ Plain(Here) \subseteq keep /\ Holds(Plain(Here), RunBody)
        /\ \A st \in Suites :
              /\ Here > SuiteNum(st) => SuiteFiles(st, Surface) \subseteq keep
              /\ Here > SuiteNum(st) \/ InOps(st, {"restyle", "sweep_suite", "hash", "list"}) =>
                    Holds(SuiteFiles(st, Surface), StageBody(st))
        /\ Here > 16 => \A p \in keep \cap Marked :
                            Exists(disk[p]) => disk[p].stamp = InputStamp

-----------------------------------------------------------------------------
(* The files a run deals with.                                             *)

\* What the inputs give.
LEMMA InputTypes ==
    ASSUME TypeOK
    PROVE  /\ Surface \in Apis /\ RunBody \in Bodies /\ InputStamp \in Stamps
           /\ \A st \in Stages : StageBody(st) \in Bodies \cup SuiteBodies
BY TreeAssumed, AllAssumption
   DEF TreeAssumption, AllAssumption, TypeOK, Surface, RunBody, Body, Bodies, InputStamp,
       Stamp, Stamps, StageBody, SuiteBodies

\* The emitted files lie in the working tree.
LEMMA EmittedTypes ==
    ASSUME TypeOK
    PROVE  /\ \A L \in SUBSET Langs : LangFiles(L) \subseteq Paths
           /\ \A k \in AuxKinds : AuxOf(k) \subseteq Paths
           /\ \A st \in Stages, L \in SUBSET Langs : Emitted(st, L) \subseteq Paths
           /\ \A st \in Stages, a \in Apis : SuiteFiles(st, a) \subseteq Paths
<1>1. Surface \in Apis
  BY InputTypes
<1>2. \A l \in Langs : Outputs[l] \in [Apis -> SUBSET Paths]
  BY TreeAssumed DEF TreeAssumption
<1>3. \A l \in Langs : Outputs[l][Surface] \subseteq Paths
  BY <1>1, <1>2
<1>4. \A k \in AuxKinds, l \in Langs : Aux[k][l] \in [Apis -> SUBSET Paths]
  BY TreeAssumed DEF TreeAssumption
<1>5. \A k \in AuxKinds, l \in Langs : Aux[k][l][Surface] \subseteq Paths
  BY <1>1, <1>4
<1>6. \A st \in Stages, l \in Langs : StageFiles[st][l] \in [Apis -> SUBSET Paths]
  BY AllAssumption DEF AllAssumption
<1>7. \A st \in Stages, l \in Langs, a \in Apis : StageFiles[st][l][a] \subseteq Paths
  BY <1>6
<1> QED
  BY <1>1, <1>3, <1>5, <1>7
     DEF LangFiles, AuxOf, AuxFiles, Emitted, StageOutput, SuiteFiles

\* A file as the code generators leave it.
LEMMA FreshFile ==
    ASSUME NEW b \in Bodies \cup SuiteBodies
    PROVE  Fresh(b) \in TreeFiles /\ Fresh(b).body = b /\ Fresh(b).stamp = NoStamp
BY DEF Fresh, TreeFiles

\* write_files leaves the content it was given, and no hash that was not there.
LEMMA WrittenFile ==
    ASSUME NEW f \in TreeFiles \cup {NoFile}, NEW b \in Bodies \cup SuiteBodies
    PROVE  /\ Written(f, b) \in TreeFiles /\ Written(f, b).body = b
           /\ Written(f, b).stamp # NoStamp => Written(f, b) = f
BY FreshFile DEF Written, SameBody, Exists

\* A changed mark or layout leaves a file, and its body.
LEMMA MarkedFile ==
    ASSUME NEW f \in TreeFiles, NEW st \in Stamps
    PROVE  /\ [f EXCEPT !.stamp = st] \in TreeFiles
           /\ [f EXCEPT !.stamp = st].body = f.body
           /\ [f EXCEPT !.stamp = st].stamp = st
           /\ [f EXCEPT !.form = "fmt"] \in TreeFiles
           /\ [f EXCEPT !.form = "fmt"].body = f.body
           /\ [f EXCEPT !.form = "fmt"].stamp = f.stamp
BY DEF TreeFiles

LEMMA StampedFile ==
    ASSUME NEW f \in TreeFiles \cup {NoFile}, NEW p, NEW st \in Stamps
    PROVE  /\ Stamped(f, p, st) \in TreeFiles \cup {NoFile}
           /\ f = NoFile <=> Stamped(f, p, st) = NoFile
           /\ f # NoFile => /\ Stamped(f, p, st).body = f.body
                            /\ p \in Marked => Stamped(f, p, st).stamp = st
                            /\ p \notin Marked => Stamped(f, p, st) = f
<1>1. NoFile \notin TreeFiles
  BY AllAssumption DEF AllAssumption
<1>2. CASE f \in TreeFiles
  BY <1>1, <1>2, MarkedFile DEF Stamped, Exists
<1>3. CASE f = NoFile
  BY <1>3 DEF Stamped, Exists
<1> QED
  BY <1>2, <1>3

LEMMA FormattedFile ==
    ASSUME NEW f \in TreeFiles \cup {NoFile}, NEW p
    PROVE  /\ Formatted(f, p) \in TreeFiles \cup {NoFile}
           /\ f = NoFile <=> Formatted(f, p) = NoFile
           /\ f # NoFile => Formatted(f, p).body = f.body /\ Formatted(f, p).stamp = f.stamp
<1>1. f \in TreeFiles => /\ [f EXCEPT !.form = "fmt"] \in TreeFiles
                         /\ [f EXCEPT !.form = "fmt"].body = f.body
                         /\ [f EXCEPT !.form = "fmt"].stamp = f.stamp
  BY DEF TreeFiles
<1> QED
  BY <1>1, AllAssumption DEF AllAssumption, Formatted, Exists

-----------------------------------------------------------------------------
(* The next pass.                                                          *)

\* It is a pass of the run or an operation of a stage.
LEMMA HeadIsStep ==
    ASSUME TypeInv, run # None
    PROVE  /\ todo # <<>> /\ todo \in Seq(Steps) /\ Len(todo) \in Nat \ {0}
           /\ Head(todo) = todo[1] /\ Head(todo) \in LegalSteps(run.command) /\ Head(todo) \in Steps
           /\ Head(todo) = <<Op, Stage>>
           /\ \/ Op \in RunPasses /\ Stage = "run"
              \/ Op \in StageOps /\ Stage \in Stages
           /\ run \in Runs
<1>1. todo # <<>> /\ todo \in Seq(Steps)
  BY DEF TypeInv, TodoInv, Chain
<1>2. Len(todo) \in Nat \ {0} /\ Head(todo) = todo[1]
  BY <1>1
<1>3. 1 \in 1..Len(todo)
  BY <1>2
<1>4. Head(todo) \in LegalSteps(run.command) /\ Head(todo) \in Steps
  BY <1>1, <1>2, <1>3 DEF TypeInv, TodoInv, Chain
<1>5. /\ Head(todo) = <<Head(todo)[1], Head(todo)[2]>>
      /\ \/ Head(todo)[1] \in RunPasses /\ Head(todo)[2] = "run"
         \/ Head(todo)[1] \in StageOps /\ Head(todo)[2] \in Stages
  BY <1>4 DEF Steps
<1> QED
  BY <1>1, <1>2, <1>4, <1>5 DEF Op, Stage, TypeInv, TypeOK

\* What the pass does to one file.
Shape(p) ==
    /\ Effect[p] \in TreeFiles \cup {NoFile}
    /\ p \in Removed => Effect[p] = NoFile
    /\ p \notin Removed /\ disk[p] # NoFile => Effect[p] # NoFile
    /\ p \notin Puts /\ Effect[p] # NoFile => disk[p] # NoFile /\ Effect[p].body = disk[p].body
    /\ p \in Puts => /\ Effect[p] # NoFile
                     /\ Effect[p].body = PutBody \/ (Spared(p) /\ Effect[p] = disk[p])
    /\ HasHash(Effect[p]) => \/ p \in StampsOf \cap Marked
                             \/ HasHash(disk[p]) /\ Effect[p].stamp = disk[p].stamp
    /\ p \in StampsOf \cap Marked /\ Effect[p] # NoFile => Effect[p].stamp = InputStamp

\* Writing.
LEMMA PutShape ==
    ASSUME TypeInv, run # None, NEW p \in Paths, NEW P, NEW b \in Bodies \cup SuiteBodies,
           Effect = Put(P, b), Puts = P, PutBody = b, Removed = {}, StampsOf = {}
    PROVE  Shape(p)
<1>1. disk[p] \in TreeFiles \cup {NoFile}
  BY DEF TypeInv, TypeOK
<1>2. Effect[p] = IF p \in P THEN Written(disk[p], b) ELSE disk[p]
  BY DEF Put
<1>3. NoFile \notin TreeFiles
  BY AllAssumption DEF AllAssumption
<1>4. CASE p \in P
  <2>1. /\ Effect[p] \in TreeFiles /\ Effect[p].body = b
        /\ Effect[p].stamp # NoStamp => Effect[p] = disk[p]
    BY <1>1, <1>2, <1>4, WrittenFile
  <2> QED
    <3>1. p \in Puts /\ p \notin Removed /\ p \notin StampsOf \cap Marked
      BY <1>4
    <3>2. Effect[p] # NoFile /\ Effect[p].body = PutBody
      BY <1>3, <2>1
    <3>3. HasHash(Effect[p]) => HasHash(disk[p]) /\ Effect[p].stamp = disk[p].stamp
      BY <2>1 DEF HasHash
    <3> QED
      BY <2>1, <3>1, <3>2, <3>3 DEF Shape
<1>5. CASE p \notin P
  BY <1>1, <1>2, <1>5 DEF Shape, HasHash
<1> QED
  BY <1>4, <1>5

\* Writing what the developer may have changed.
LEMMA SeedShape ==
    ASSUME TypeInv, run # None, NEW p \in Paths, NEW P, NEW ow \in BOOLEAN,
           Effect = Seed(P, ow), Puts = P, PutBody = RunBody, Removed = {}, StampsOf = {},
           \A q \in Paths : Spared(q) <=> q \in Seeds /\ Exists(disk[q]) /\ ~ow
    PROVE  Shape(p)
<1>1. disk[p] \in TreeFiles \cup {NoFile}
  BY DEF TypeInv, TypeOK
<1>2. RunBody \in Bodies
  BY InputTypes DEF TypeInv
<1>3. Effect[p] = IF p \in P /\ ~Spared(p) THEN Written(disk[p], RunBody) ELSE disk[p]
  BY DEF Seed, StageWritten
<1>4. NoFile \notin TreeFiles
  BY AllAssumption DEF AllAssumption
<1>5. Spared(p) => disk[p] # NoFile
  BY DEF Spared, Exists
<1>6. CASE p \in P /\ ~Spared(p)
  <2>1. /\ Effect[p] \in TreeFiles /\ Effect[p].body = RunBody
        /\ Effect[p].stamp # NoStamp => Effect[p] = disk[p]
    BY <1>1, <1>2, <1>3, <1>6, WrittenFile
  <2> QED
    <3>1. p \in Puts /\ p \notin Removed /\ p \notin StampsOf \cap Marked
      BY <1>6
    <3>2. Effect[p] # NoFile /\ Effect[p].body = PutBody
      BY <1>4, <2>1
    <3>3. HasHash(Effect[p]) => HasHash(disk[p]) /\ Effect[p].stamp = disk[p].stamp
      BY <2>1 DEF HasHash
    <3> QED
      BY <2>1, <3>1, <3>2, <3>3 DEF Shape
<1>7. CASE ~(p \in P /\ ~Spared(p))
  BY <1>1, <1>3, <1>5, <1>7 DEF Shape, HasHash
<1> QED
  BY <1>6, <1>7

\* Rewriting by a formatter.
LEMMA RestyleShape ==
    ASSUME TypeInv, run # None, NEW p \in Paths, NEW P,
           Effect = Restyle(P), Puts = {}, Removed = {}, StampsOf = {}
    PROVE  Shape(p)
<1>1. disk[p] \in TreeFiles \cup {NoFile}
  BY DEF TypeInv, TypeOK
<1>2. Effect[p] = IF p \in P THEN Formatted(disk[p], p) ELSE disk[p]
  BY DEF Restyle
<1> QED
  BY <1>1, <1>2, FormattedFile DEF Shape, HasHash, Exists

\* Stamping.
LEMMA StampShape ==
    ASSUME TypeInv, run # None, NEW p \in Paths, NEW P,
           Effect = StampAll(P), Puts = {}, Removed = {}, StampsOf = P
    PROVE  Shape(p)
<1>1. disk[p] \in TreeFiles \cup {NoFile} /\ InputStamp \in Stamps
  BY InputTypes DEF TypeInv, TypeOK
<1>2. Effect[p] = IF p \in P THEN Stamped(disk[p], p, InputStamp) ELSE disk[p]
  BY DEF StampAll
<1>3. CASE p \in P
  BY <1>1, <1>2, <1>3, StampedFile DEF Shape, HasHash, Exists
<1>4. CASE p \notin P
  BY <1>1, <1>2, <1>4 DEF Shape, HasHash, Exists
<1> QED
  BY <1>3, <1>4

\* Removing.
LEMMA RemoveShape ==
    ASSUME TypeInv, run # None, NEW p \in Paths,
           Effect = Without(disk, Removed), Puts = {}, StampsOf = {}
    PROVE  Shape(p)
<1>1. disk[p] \in TreeFiles \cup {NoFile}
  BY DEF TypeInv, TypeOK
<1>2. Effect[p] = IF p \in Removed THEN NoFile ELSE disk[p]
  BY DEF Without
<1> QED
  BY <1>1, <1>2 DEF Shape, HasHash, Exists

\* Post-build steps.
LEMMA PatchShape ==
    ASSUME TypeInv, run # None, NEW p \in Paths,
           Effect = Patched, Puts = {}, Removed = {}, StampsOf = {}
    PROVE  Shape(p)
<1>1. disk[p] \in TreeFiles \cup {NoFile} /\ NoFile \notin TreeFiles
  BY AllAssumption DEF AllAssumption, TypeInv, TypeOK
<1>2. Effect[p] = IF p \in PostBuilt /\ Exists(disk[p]) THEN [disk[p] EXCEPT !.form = "fmt"]
                  ELSE disk[p]
  BY DEF Patched
<1>3. CASE p \in PostBuilt /\ Exists(disk[p])
  <2>1. /\ Effect[p] \in TreeFiles /\ Effect[p].body = disk[p].body
        /\ Effect[p].stamp = disk[p].stamp
    BY <1>1, <1>2, <1>3 DEF Exists, TreeFiles
  <2> QED
    BY <1>1, <1>3, <2>1 DEF Shape, HasHash, Exists
<1>4. CASE ~(p \in PostBuilt /\ Exists(disk[p]))
  BY <1>1, <1>2, <1>4 DEF Shape, HasHash, Exists
<1> QED
  BY <1>3, <1>4

\* Whichever pass it is.
LEMMA EffectShape ==
    ASSUME TypeInv, run # None, NEW p \in Paths
    PROVE  Shape(p)
<1>1. /\ \/ Op \in RunPasses /\ Stage = "run"
         \/ Op \in StageOps /\ Stage \in Stages
      /\ run \in Runs
  BY HeadIsStep
<1>2. RunBody \in Bodies /\ \A st \in Stages : StageBody(st) \in Bodies \cup SuiteBodies
  BY InputTypes DEF TypeInv
<1> USE DEF Effect, Puts, PutBody, Removed, StampsOf
<1>3. CASE Op = "bindings"
  BY <1>2, <1>3, PutShape
<1>4. CASE Op = "services"
  BY <1>2, <1>4, PutShape
<1>5. CASE Op = "scaffold"
  <2>1. Effect = Seed(Emitted("scaffold", Langs), run.clean) /\ run.clean \in BOOLEAN
    BY <1>1, <1>5 DEF Runs
  <2>2. \A q \in Paths : Spared(q) <=> q \in Seeds /\ Exists(disk[q]) /\ ~run.clean
    BY <1>5 DEF Spared
  <2> QED
    BY <1>5, <2>1, <2>2, SeedShape
<1>6. CASE Op = "post_build"
  BY <1>6, PatchShape
<1>7. CASE Op \in {"stubs", "public_api"} /\ ~UpToDate(Op)
  BY <1>2, <1>7, PutShape
<1>8. CASE Op \in {"stubs", "public_api"} /\ UpToDate(Op)
  <2>1. Effect = disk /\ Puts = {} /\ Removed = {} /\ StampsOf = {}
    BY <1>8
  <2> QED
    BY <2>1 DEF Shape, HasHash, TypeInv, TypeOK
<1>9. CASE Op \in {"readme", "docs"}
  BY <1>2, <1>9, PutShape
<1>10. CASE Op \in {"cleanup", "sweep", "sweep_suite"}
  BY <1>10, RemoveShape
<1>11. CASE Op = "format"
  BY <1>11, RestyleShape
<1>12. CASE Op = "finalize"
  BY <1>12, StampShape
<1>13. CASE Op = "write" /\ Stage = "scaffold"
  <2>1. Effect = Seed(Emitted(Stage, run.langs), FALSE) /\ PutBody = RunBody
    BY <1>13 DEF StageBody, Suites
  <2>2. \A q \in Paths : Spared(q) <=> q \in Seeds /\ Exists(disk[q]) /\ ~FALSE
    BY <1>13 DEF Spared
  <2> QED
    BY <1>13, <2>1, <2>2, SeedShape
<1>14. CASE Op = "write" /\ Stage # "scaffold"
  <2>1. Stage \in Stages
    BY <1>1, <1>14 DEF RunPasses
  <2> QED
    BY <1>2, <1>14, <2>1, PutShape
<1>15. CASE Op = "restyle"
  BY <1>15, RestyleShape
<1>16. CASE Op = "stamp"
  BY <1>16, StampShape
<1>17. CASE Op \in {"emit", "pages", "done", "check", "hash", "list"}
  <2>1. Effect = disk /\ Puts = {} /\ Removed = {} /\ StampsOf = {}
    BY <1>17
  <2> QED
    BY <2>1 DEF Shape, HasHash, TypeInv, TypeOK
<1> HIDE DEF Effect, Puts, PutBody, Removed, StampsOf
<1> QED
  BY <1>1, <1>3, <1>4, <1>5, <1>6, <1>7, <1>8, <1>9, <1>10, <1>11, <1>12, <1>13, <1>14,
     <1>15, <1>16, <1>17 DEF RunPasses, StageOps

\* And so to the tree.
LEMMA EffectIsTree ==
    ASSUME TypeInv, run # None
    PROVE  Effect \in [Paths -> TreeFiles \cup {NoFile}]
<1>1. \A p \in Paths : Effect[p] \in TreeFiles \cup {NoFile}
  BY EffectShape DEF Shape
<1>2. Effect = [p \in Paths |-> Effect[p]]
  <2>1. disk = [p \in Paths |-> disk[p]]
    BY DEF TypeInv, TypeOK
  <2>2. \A P, b : Put(P, b) = [p \in Paths |-> Put(P, b)[p]]
    BY DEF Put
  <2>3. \A P, b : Seed(P, b) = [p \in Paths |-> Seed(P, b)[p]]
    BY DEF Seed
  <2>4. \A P : Restyle(P) = [p \in Paths |-> Restyle(P)[p]]
    BY DEF Restyle
  <2>5. \A P : StampAll(P) = [p \in Paths |-> StampAll(P)[p]]
    BY DEF StampAll
  <2>6. \A P : Without(disk, P) = [p \in Paths |-> Without(disk, P)[p]]
    BY DEF Without
  <2>7. Patched = [p \in Paths |-> Patched[p]]
    BY DEF Patched
  <2>8. \/ Effect = disk \/ Effect = Patched
        \/ \E P, b : Effect = Put(P, b)
        \/ \E P, b : Effect = Seed(P, b)
        \/ \E P : Effect = Restyle(P)
        \/ \E P : Effect = StampAll(P)
        \/ \E P : Effect = Without(disk, P)
    BY DEF Effect
  <2>9. CASE \E P, b : Effect = Put(P, b)
    <3>1. PICK P, b : Effect = Put(P, b)
      BY <2>9
    <3> QED
      BY <2>2, <3>1, Zenon
  <2>10. CASE \E P, b : Effect = Seed(P, b)
    <3>1. PICK P, b : Effect = Seed(P, b)
      BY <2>10
    <3> QED
      BY <2>3, <3>1, Zenon
  <2>11. CASE \E P : Effect = Restyle(P) \/ Effect = StampAll(P) \/ Effect = Without(disk, P)
    <3>1. PICK P : Effect = Restyle(P) \/ Effect = StampAll(P) \/ Effect = Without(disk, P)
      BY <2>11
    <3> QED
      BY <2>4, <2>5, <2>6, <3>1, Zenon
  <2>12. CASE Effect = disk \/ Effect = Patched
    BY <2>1, <2>7, <2>12, Zenon
  <2> QED
    BY <2>8, <2>9, <2>10, <2>11, <2>12
<1> QED
  BY <1>1, <1>2

\* Some passes leave the tree alone.
LEMMA QuietEffect ==
    Op \in {"emit", "pages", "done", "check", "hash", "list"} => Effect = disk
BY DEF Effect

\* Every pass of the handler does the whole of it.
LEMMA PassDisk ==
    ASSUME RunPass \/ StagePass \/ Finish
    PROVE  /\ disk' = Effect /\ UNCHANGED inputs /\ UNCHANGED faults
           /\ todo # <<>> /\ (~Finish => UNCHANGED run)
<1> USE DEF At, Op, Stage, inputs, records, locals
<1>1. CASE Emit
  BY <1>1, QuietEffect DEF Emit
<1>2. CASE WriteBindings
  BY <1>2 DEF WriteBindings
<1>3. CASE WriteServices
  BY <1>3 DEF WriteServices
<1>4. ASSUME NEW k \in {"stubs", "public_api"}, WriteAux(k)
      PROVE  disk' = Effect /\ UNCHANGED <<inputs, faults, run>> /\ todo # <<>>
  BY <1>4 DEF WriteAux
<1>5. ASSUME NEW k \in {"scaffold", "readme", "docs"}, WritePages(k)
      PROVE  disk' = Effect /\ UNCHANGED <<inputs, faults, run>> /\ todo # <<>>
  BY <1>5 DEF WritePages
<1>6. CASE KeepPages
  BY <1>6, QuietEffect DEF KeepPages
<1>7. ASSUME NEW k \in {"post_build", "cleanup", "sweep", "format", "finalize"}, TreePass(k)
      PROVE  disk' = Effect /\ UNCHANGED <<inputs, faults, run>> /\ todo # <<>>
  BY <1>7 DEF TreePass
<1>8. ASSUME NEW st \in Stages, StageHit(st) \/ StageMiss(st)
      PROVE  disk' = Effect /\ UNCHANGED <<inputs, faults, run>> /\ todo # <<>>
  BY <1>8, QuietEffect DEF StageHit, StageMiss
<1>9. ASSUME NEW st \in Stages, NEW op \in {"write", "restyle", "stamp", "sweep_suite"},
             StageTreePass(op, st)
      PROVE  disk' = Effect /\ UNCHANGED <<inputs, faults, run>> /\ todo # <<>>
  BY <1>9 DEF StageTreePass
<1>10. ASSUME NEW st \in Stages, WriteStageHash(st) \/ WriteStageList(st)
       PROVE  disk' = Effect /\ UNCHANGED <<inputs, faults, run>> /\ todo # <<>>
  BY <1>10, QuietEffect DEF WriteStageHash, WriteStageList
<1>11. CASE Finish
  BY <1>11, QuietEffect DEF Finish
<1> QED
  BY <1>1, <1>2, <1>3, <1>4, <1>5, <1>6, <1>7, <1>8, <1>9, <1>10, <1>11 DEF RunPass, StagePass

-----------------------------------------------------------------------------
(* The list of passes.                                                     *)

\* A pass is done, and it was not the last.
LEMMA Onward ==
    ASSUME TypeInv, run # None, Op # "done", Proceed, run' = run
    PROVE  Chain' /\ todo' # <<>> /\ Head(todo') = After(run.command, Head(todo))
<1>1. /\ todo # <<>> /\ todo \in Seq(Steps) /\ Len(todo) \in Nat \ {0}
      /\ Head(todo) = todo[1]
  BY HeadIsStep
<1>2. /\ todo[Len(todo)] = <<"done", "run">>
      /\ \A i \in 1..Len(todo) : todo[i] \in LegalSteps(run.command)
      /\ \A i \in 1..(Len(todo) - 1) : todo[i + 1] = After(run.command, todo[i])
  BY <1>1 DEF TypeInv, TodoInv, Chain
<1>3. Len(todo) >= 2
  <2>1. Len(todo) # 1
    BY <1>1, <1>2 DEF Op
  <2>2. PICK n \in Nat : n = Len(todo) /\ n # 0
    BY <1>1
  <2>3. n >= 2
    BY <2>1, <2>2
  <2> QED
    BY <2>2, <2>3
<1>4. /\ todo' \in Seq(Steps) /\ Len(todo') = Len(todo) - 1
      /\ \A i \in 1..Len(todo') : todo'[i] = todo[i + 1]
  BY <1>1 DEF Proceed
<1>5. todo' # <<>> /\ Head(todo') = todo[2]
  BY <1>1, <1>3, <1>4
<1>6. todo[2] = After(run.command, todo[1])
  <2>1. 1 \in 1..(Len(todo) - 1)
    BY <1>1, <1>3
  <2> QED
    BY <1>2, <2>1
<1>7. todo'[Len(todo')] = <<"done", "run">>
  BY <1>1, <1>2, <1>3, <1>4
<1>8. ASSUME NEW i \in 1..Len(todo') PROVE todo'[i] \in LegalSteps(run'.command)
  <2>1. i + 1 \in 1..Len(todo)
    BY <1>1, <1>4
  <2> QED
    BY <1>2, <1>4, <2>1
<1>9. ASSUME NEW i \in 1..(Len(todo') - 1)
      PROVE  todo'[i + 1] = After(run'.command, todo'[i])
  <2>1. i + 1 \in 1..(Len(todo) - 1) /\ i \in 1..Len(todo') /\ i + 1 \in 1..Len(todo')
    BY <1>1, <1>4
  <2> QED
    BY <1>2, <1>4, <2>1
<1> QED
  BY <1>1, <1>4, <1>5, <1>6, <1>7, <1>8, <1>9 DEF Chain, Steps

\* The operations of a stage follow each other too.
LEMMA ProgramChain ==
    ASSUME TypeInv, run # None, NEW st \in Stages, Op = "check", Stage = st
    PROVE  LET P == StageProgram(st) IN
           /\ P \in Seq(Steps) /\ Len(P) \in Nat \ {0} /\ P[1] = <<"write", st>>
           /\ \A i \in 1..Len(P) : P[i] \in LegalSteps(run.command)
           /\ \A i \in 1..(Len(P) - 1) : P[i + 1] = After(run.command, P[i])
           /\ After(run.command, P[Len(P)]) = After(run.command, <<"check", st>>)
<1>1. /\ <<"check", st>> \in LegalSteps(run.command) /\ run \in Runs
      /\ run.command \in Stages \cup {"all"}
  BY HeadIsStep, AllAssumption DEF AllAssumption, Runs
<1>2. st \in Suites \/ run.command # "all"
  BY <1>1 DEF LegalSteps, AllSteps, RunPasses
<1>3. run.command # "all" => run.command = st
  BY <1>1 DEF LegalSteps
<1>4. st \notin {"run"}
  BY DEF Stages, Suites
<1> DEFINE P == StageProgram(st)
           Good == /\ P \in Seq(Steps) /\ Len(P) \in Nat \ {0} /\ P[1] = <<"write", st>>
                   /\ \A i \in 1..Len(P) : P[i] \in LegalSteps(run.command)
                   /\ \A i \in 1..(Len(P) - 1) : P[i + 1] = After(run.command, P[i])
                   /\ After(run.command, P[Len(P)]) = After(run.command, <<"check", st>>)
<1>5. ASSUME run.command = "all" PROVE Good
  <2>1. StageOpsOf(st) = <<"write", "restyle", "sweep_suite", "hash", "list">>
    BY <1>5 DEF StageOpsOf
  <2>2. /\ DOMAIN StageOpsOf(st) = 1..5
        /\ StageOpsOf(st)[1] = "write"
        /\ StageOpsOf(st)[2] = "restyle"
        /\ StageOpsOf(st)[3] = "sweep_suite"
        /\ StageOpsOf(st)[4] = "hash"
        /\ StageOpsOf(st)[5] = "list"
    BY <2>1
  <2>3. /\ P \in Seq(Steps) /\ Len(P) = 5
        /\ P[1] = <<"write", st>>
        /\ P[2] = <<"restyle", st>>
        /\ P[3] = <<"sweep_suite", st>>
        /\ P[4] = <<"hash", st>>
        /\ P[5] = <<"list", st>>
    BY <2>2 DEF StageProgram, Steps, StageOps
  <2>4. \A i \in 1..5 : P[i] \in LegalSteps(run.command)
    BY <1>1, <1>2, <1>3, <1>5, <2>3 DEF LegalSteps, OwnOps, AllSteps, StageOps
  <2>5. P[2] = After(run.command, P[1]) /\ P[3] = After(run.command, P[2]) /\ P[4] = After(run.command, P[3]) /\ P[5] = After(run.command, P[4])
    BY <1>4, <1>5, <2>3 DEF After, AfterOp
  <2>6. After(run.command, P[5]) = After(run.command, <<"check", st>>)
    BY <1>4, <1>5, <2>3 DEF After, AfterOp
  <2> HIDE DEF P
  <2>7. ASSUME NEW i \in 1..4 PROVE P[i + 1] = After(run.command, P[i])
    <3>1. i = 1 \/ i = 2 \/ i = 3 \/ i = 4
      OBVIOUS
    <3> QED
      BY <2>5, <3>1
  <2>8. Len(P) \in Nat \ {0} /\ Len(P) - 1 = 4
    BY <2>3
  <2> QED
    BY <2>3, <2>4, <2>6, <2>7, <2>8
<1>6. ASSUME run.command # "all" /\ st \in Suites PROVE Good
  <2>1. StageOpsOf(st) = <<"write", "restyle", "stamp", "sweep_suite", "hash", "list">>
    BY <1>6 DEF StageOpsOf
  <2>2. /\ DOMAIN StageOpsOf(st) = 1..6
        /\ StageOpsOf(st)[1] = "write"
        /\ StageOpsOf(st)[2] = "restyle"
        /\ StageOpsOf(st)[3] = "stamp"
        /\ StageOpsOf(st)[4] = "sweep_suite"
        /\ StageOpsOf(st)[5] = "hash"
        /\ StageOpsOf(st)[6] = "list"
    BY <2>1
  <2>3. /\ P \in Seq(Steps) /\ Len(P) = 6
        /\ P[1] = <<"write", st>>
        /\ P[2] = <<"restyle", st>>
        /\ P[3] = <<"stamp", st>>
        /\ P[4] = <<"sweep_suite", st>>
        /\ P[5] = <<"hash", st>>
        /\ P[6] = <<"list", st>>
    BY <2>2 DEF StageProgram, Steps, StageOps
  <2>4. \A i \in 1..6 : P[i] \in LegalSteps(run.command)
    BY <1>1, <1>2, <1>3, <1>6, <2>3 DEF LegalSteps, OwnOps, AllSteps, StageOps
  <2>5. P[2] = After(run.command, P[1]) /\ P[3] = After(run.command, P[2]) /\ P[4] = After(run.command, P[3]) /\ P[5] = After(run.command, P[4]) /\ P[6] = After(run.command, P[5])
    BY <1>4, <1>6, <2>3 DEF After, AfterOp
  <2>6. After(run.command, P[6]) = After(run.command, <<"check", st>>)
    BY <1>4, <1>6, <2>3 DEF After, AfterOp
  <2> HIDE DEF P
  <2>7. ASSUME NEW i \in 1..5 PROVE P[i + 1] = After(run.command, P[i])
    <3>1. i = 1 \/ i = 2 \/ i = 3 \/ i = 4 \/ i = 5
      OBVIOUS
    <3> QED
      BY <2>5, <3>1
  <2>8. Len(P) \in Nat \ {0} /\ Len(P) - 1 = 5
    BY <2>3
  <2> QED
    BY <2>3, <2>4, <2>6, <2>7, <2>8
<1>7. ASSUME run.command # "all" /\ st \notin Suites /\ Recorded(st) PROVE Good
  <2>1. StageOpsOf(st) = <<"write", "stamp", "hash", "list">>
    BY <1>7 DEF StageOpsOf
  <2>2. /\ DOMAIN StageOpsOf(st) = 1..4
        /\ StageOpsOf(st)[1] = "write"
        /\ StageOpsOf(st)[2] = "stamp"
        /\ StageOpsOf(st)[3] = "hash"
        /\ StageOpsOf(st)[4] = "list"
    BY <2>1
  <2>3. /\ P \in Seq(Steps) /\ Len(P) = 4
        /\ P[1] = <<"write", st>>
        /\ P[2] = <<"stamp", st>>
        /\ P[3] = <<"hash", st>>
        /\ P[4] = <<"list", st>>
    BY <2>2 DEF StageProgram, Steps, StageOps
  <2>4. \A i \in 1..4 : P[i] \in LegalSteps(run.command)
    BY <1>1, <1>2, <1>3, <1>7, <2>3 DEF LegalSteps, OwnOps, AllSteps, StageOps
  <2>5. P[2] = After(run.command, P[1]) /\ P[3] = After(run.command, P[2]) /\ P[4] = After(run.command, P[3])
    BY <1>4, <1>7, <2>3 DEF After, AfterOp
  <2>6. After(run.command, P[4]) = After(run.command, <<"check", st>>)
    BY <1>4, <1>7, <2>3 DEF After, AfterOp
  <2> HIDE DEF P
  <2>7. ASSUME NEW i \in 1..3 PROVE P[i + 1] = After(run.command, P[i])
    <3>1. i = 1 \/ i = 2 \/ i = 3
      OBVIOUS
    <3> QED
      BY <2>5, <3>1
  <2>8. Len(P) \in Nat \ {0} /\ Len(P) - 1 = 3
    BY <2>3
  <2> QED
    BY <2>3, <2>4, <2>6, <2>7, <2>8
<1>8. ASSUME run.command # "all" /\ st \notin Suites /\ ~Recorded(st) PROVE Good
  <2>1. StageOpsOf(st) = <<"write", "stamp">>
    BY <1>8 DEF StageOpsOf
  <2>2. /\ DOMAIN StageOpsOf(st) = 1..2
        /\ StageOpsOf(st)[1] = "write"
        /\ StageOpsOf(st)[2] = "stamp"
    BY <2>1
  <2>3. /\ P \in Seq(Steps) /\ Len(P) = 2
        /\ P[1] = <<"write", st>>
        /\ P[2] = <<"stamp", st>>
    BY <2>2 DEF StageProgram, Steps, StageOps
  <2>4. \A i \in 1..2 : P[i] \in LegalSteps(run.command)
    BY <1>1, <1>2, <1>3, <1>8, <2>3 DEF LegalSteps, OwnOps, AllSteps, StageOps
  <2>5. P[2] = After(run.command, P[1])
    BY <1>4, <1>8, <2>3 DEF After, AfterOp
  <2>6. After(run.command, P[2]) = After(run.command, <<"check", st>>)
    BY <1>4, <1>8, <2>3 DEF After, AfterOp
  <2> HIDE DEF P
  <2>7. ASSUME NEW i \in 1..1 PROVE P[i + 1] = After(run.command, P[i])
    <3>1. i = 1
      OBVIOUS
    <3> QED
      BY <2>5, <3>1
  <2>8. Len(P) \in Nat \ {0} /\ Len(P) - 1 = 1
    BY <2>3
  <2> QED
    BY <2>3, <2>4, <2>6, <2>7, <2>8
<1> QED
  BY <1>5, <1>6, <1>7, <1>8

\* A stage is not up to date.
LEMMA Splice ==
    ASSUME TypeInv, run # None, NEW st \in Stages, StageMiss(st)
    PROVE  Chain' /\ todo' # <<>> /\ Head(todo') = <<"write", st>>
<1> DEFINE P == StageProgram(st)
<1>1. /\ todo # <<>> /\ todo \in Seq(Steps) /\ Len(todo) \in Nat \ {0}
      /\ Head(todo) = todo[1] /\ todo[1] = <<"check", st>> /\ Op = "check" /\ Stage = st
      /\ todo' = P \o Tail(todo) /\ run' = run
  BY HeadIsStep DEF StageMiss, At, Op, Stage
<1>2. /\ P \in Seq(Steps) /\ Len(P) \in Nat \ {0} /\ P[1] = <<"write", st>>
      /\ \A i \in 1..Len(P) : P[i] \in LegalSteps(run.command)
      /\ \A i \in 1..(Len(P) - 1) : P[i + 1] = After(run.command, P[i])
      /\ After(run.command, P[Len(P)]) = After(run.command, todo[1])
  BY <1>1, ProgramChain
<1> HIDE DEF P
<1>3. /\ todo[Len(todo)] = <<"done", "run">>
      /\ \A i \in 1..Len(todo) : todo[i] \in LegalSteps(run.command)
      /\ \A i \in 1..(Len(todo) - 1) : todo[i + 1] = After(run.command, todo[i])
  BY <1>1 DEF TypeInv, TodoInv, Chain
<1>4. Len(todo) >= 2
  <2>1. Len(todo) # 1
    BY <1>1, <1>3
  <2>2. PICK n \in Nat : n = Len(todo) /\ n # 0
    BY <1>1
  <2>3. n >= 2
    BY <2>1, <2>2
  <2> QED
    BY <2>2, <2>3
<1>5. /\ Tail(todo) \in Seq(Steps) /\ Len(Tail(todo)) = Len(todo) - 1
      /\ \A i \in 1..(Len(todo) - 1) : Tail(todo)[i] = todo[i + 1]
  BY <1>1
<1>6. /\ todo' \in Seq(Steps) /\ Len(todo') = Len(P) + Len(todo) - 1
      /\ \A i \in 1..Len(todo') : todo'[i] = IF i <= Len(P) THEN P[i] ELSE todo[i - Len(P) + 1]
  <2>1. todo' \in Seq(Steps) /\ Len(todo') = Len(P) + Len(Tail(todo))
    BY <1>1, <1>2, <1>5
  <2>2. ASSUME NEW i \in 1..Len(todo')
        PROVE  todo'[i] = IF i <= Len(P) THEN P[i] ELSE todo[i - Len(P) + 1]
    <3>1. todo'[i] = IF i <= Len(P) THEN P[i] ELSE Tail(todo)[i - Len(P)]
      BY <1>1, <1>2, <1>5, <2>1
    <3>2. i > Len(P) => i - Len(P) \in 1..(Len(todo) - 1)
      BY <1>1, <1>2, <1>5, <2>1
    <3> QED
      BY <1>2, <1>5, <2>1, <3>1, <3>2
  <2> QED
    BY <1>1, <1>2, <1>5, <2>1, <2>2
<1>7. todo' # <<>> /\ Head(todo') = <<"write", st>>
  <2>1. 1 \in 1..Len(todo') /\ 1 <= Len(P)
    BY <1>1, <1>2, <1>6
  <2>2. todo'[1] = P[1]
    BY <1>6, <2>1
  <2> QED
    BY <1>2, <1>6, <2>1, <2>2
<1>8. todo'[Len(todo')] = <<"done", "run">>
  <2>1. Len(todo') \in 1..Len(todo') /\ ~(Len(todo') <= Len(P))
    BY <1>1, <1>2, <1>4, <1>6
  <2>2. Len(todo') - Len(P) + 1 = Len(todo)
    BY <1>1, <1>2, <1>6
  <2> QED
    BY <1>3, <1>6, <2>1, <2>2
<1>9. ASSUME NEW i \in 1..Len(todo') PROVE todo'[i] \in LegalSteps(run'.command)
  <2>1. CASE i <= Len(P)
    BY <1>1, <1>2, <1>6, <2>1
  <2>2. CASE ~(i <= Len(P))
    <3>1. i - Len(P) + 1 \in 1..Len(todo)
      BY <1>1, <1>2, <1>6, <2>2
    <3> QED
      BY <1>1, <1>3, <1>6, <2>2, <3>1
  <2> QED
    BY <2>1, <2>2
<1>10. ASSUME NEW i \in 1..(Len(todo') - 1) PROVE todo'[i + 1] = After(run.command, todo'[i])
  <2>1. i \in 1..Len(todo') /\ i + 1 \in 1..Len(todo')
    BY <1>1, <1>2, <1>6
  <2>2. CASE i + 1 <= Len(P)
    <3>1. i <= Len(P) /\ i \in 1..(Len(P) - 1)
      BY <1>2, <2>1, <2>2
    <3> QED
      BY <1>2, <1>6, <2>1, <2>2, <3>1
  <2>3. CASE i = Len(P)
    <3>1. ~(i + 1 <= Len(P)) /\ i + 1 - Len(P) + 1 = 2 /\ 1 \in 1..(Len(todo) - 1)
      BY <1>1, <1>2, <1>4, <2>3
    <3>2. todo'[i + 1] = todo[2] /\ todo'[i] = P[Len(P)] /\ todo[2] = After(run.command, todo[1])
      BY <1>2, <1>3, <1>6, <2>1, <2>3, <3>1
    <3> QED
      BY <1>2, <3>2
  <2>4. CASE i > Len(P)
    <3>1. /\ i - Len(P) + 1 \in 1..(Len(todo) - 1) /\ ~(i <= Len(P)) /\ ~(i + 1 <= Len(P))
          /\ i + 1 - Len(P) + 1 = (i - Len(P) + 1) + 1
      BY <1>1, <1>2, <1>6, <2>1, <2>4
    <3> QED
      BY <1>3, <1>6, <2>1, <3>1
  <2> QED
    BY <1>2, <2>1, <2>2, <2>3, <2>4
<1> QED
  BY <1>1, <1>6, <1>7, <1>8, <1>9, <1>10 DEF Chain, Steps

-----------------------------------------------------------------------------
(* Types.                                                                  *)

\* The next pass has changed some of the files it may.
Partly == /\ disk' \in [Paths -> TreeFiles \cup {NoFile}]
          /\ \A p \in Paths : disk'[p] = disk[p] \/ disk'[p] = Effect[p]

LEMMA PartOfPass ==
    ASSUME TypeInv, run # None, NEW S,
           disk' = [p \in Paths |-> IF p \in S THEN Effect[p] ELSE disk[p]]
    PROVE  Partly
BY EffectIsTree DEF Partly, TypeInv, TypeOK

LEMMA WholePass ==
    ASSUME TypeInv, run # None, disk' = Effect
    PROVE  Partly
BY EffectIsTree DEF Partly

\* A pass done or passed over: on to the next.
Moves ==
    /\ run' = run /\ todo' # <<>> /\ Chain'
    /\ \/ Head(todo') = After(run.command, Head(todo))
       \/ Op = "check" /\ Head(todo') = <<"write", Stage>>

Pass == RunPass \/ StagePass \/ GoOn

LEMMA PassMoves ==
    ASSUME TypeInv, Pass
    PROVE  /\ run # None /\ Moves /\ Partly /\ Op # "done"
           /\ UNCHANGED inputs /\ faults' \in 0..MaxFaults
<1> USE DEF Moves
<1>1. CASE GoOn
  <2>1. run # None /\ Op # "done" /\ run' = run /\ Proceed /\ UNCHANGED inputs
    BY <1>1 DEF GoOn, Ignored
  <2>2. Partly
    BY <1>1, <2>1, PartOfPass DEF GoOn
  <2>3. faults' \in 0..MaxFaults
    BY <1>1, AllAssumption DEF GoOn, Fault, AllAssumption, TypeInv, TypeOK
  <2> QED
    BY <2>1, <2>2, <2>3, Onward
<1>2. ASSUME NEW st \in Stages, StageMiss(st)
      PROVE  run # None /\ Moves /\ Op # "done"
  <2>1. todo # <<>> /\ Head(todo) = <<"check", st>>
    BY <1>2 DEF StageMiss, At
  <2>2. run # None /\ Op = "check" /\ Stage = st /\ run' = run
    BY <1>2, <2>1 DEF TypeInv, TodoInv, Op, Stage, StageMiss
  <2> QED
    BY <1>2, <2>1, <2>2, Splice
<1>3. ASSUME RunPass \/ StagePass, ~(\E st \in Stages : StageMiss(st))
      PROVE  run # None /\ Moves /\ Op # "done"
  <2>1. todo # <<>> /\ run' = run /\ Op # "done" /\ Proceed
    <3> USE DEF At, Op
    <3>1. CASE Emit \/ WriteBindings \/ WriteServices \/ KeepPages
      BY <3>1 DEF Emit, WriteBindings, WriteServices, KeepPages
    <3>2. ASSUME NEW k \in {"stubs", "public_api"}, WriteAux(k)
          PROVE  todo # <<>> /\ run' = run /\ Op # "done" /\ Proceed
      BY <3>2 DEF WriteAux
    <3>3. ASSUME NEW k \in {"scaffold", "readme", "docs"}, WritePages(k)
          PROVE  todo # <<>> /\ run' = run /\ Op # "done" /\ Proceed
      BY <3>3 DEF WritePages
    <3>4. ASSUME NEW k \in {"post_build", "cleanup", "sweep", "format", "finalize"}, TreePass(k)
          PROVE  todo # <<>> /\ run' = run /\ Op # "done" /\ Proceed
      BY <3>4 DEF TreePass, locals
    <3>5. ASSUME NEW st \in Stages, StageHit(st) \/ WriteStageHash(st) \/ WriteStageList(st)
          PROVE  todo # <<>> /\ run' = run /\ Op # "done" /\ Proceed
      BY <3>5 DEF StageHit, WriteStageHash, WriteStageList, locals
    <3>6. ASSUME NEW st \in Stages, NEW op \in {"write", "restyle", "stamp", "sweep_suite"},
                 StageTreePass(op, st)
          PROVE  todo # <<>> /\ run' = run /\ Op # "done" /\ Proceed
      BY <3>6 DEF StageTreePass, locals
    <3> QED
      BY <1>3, <3>1, <3>2, <3>3, <3>4, <3>5, <3>6 DEF RunPass, StagePass
  <2>2. run # None
    BY <2>1 DEF TypeInv, TodoInv
  <2> QED
    BY <2>1, <2>2, Onward
<1>4. ASSUME RunPass \/ StagePass
      PROVE  run # None /\ Partly /\ UNCHANGED inputs /\ faults' \in 0..MaxFaults
  <2>1. run # None
    BY <1>2, <1>3, <1>4
  <2> QED
    BY <1>4, <2>1, PassDisk, WholePass DEF TypeInv, TypeOK
<1> QED
  BY <1>1, <1>2, <1>3, <1>4 DEF Pass

\* In a command of its own a stage has no business with the passes of `alef all`.
LEMMA RunPassInAll == ASSUME TypeInv, RunPass PROVE InAll
<1>1. todo # <<>> /\ Head(todo)[2] = "run" /\ Head(todo) # <<"done", "run">>
  BY DEF RunPass, Emit, WriteBindings, WriteServices, WriteAux, WritePages, KeepPages, TreePass, At
<1>2. run # None /\ Head(todo) \in LegalSteps(run.command)
  BY <1>1, HeadIsStep DEF TypeInv, TodoInv
<1>3. run \in Runs /\ run.command \in Stages \cup {"all"}
  BY <1>2, AllAssumption DEF AllAssumption, TypeInv, TypeOK, Runs
<1>4. run.command # "run"
  BY <1>3 DEF Stages, Suites
<1> QED
  BY <1>1, <1>2, <1>4 DEF LegalSteps, InAll

\* What the records of a pass are filled with.
LEMMA KeyTypes ==
    ASSUME TypeInv, run # None
    PROVE  /\ LangKey \in LangKeys
           /\ \A l \in Langs : Outputs[l][Surface] \subseteq Paths
           /\ \A st \in Stages : StageKey(st) \in StageKeys
           /\ \A k \in Recorders : Pairs(FilesOf(k), RunBody) \in SUBSET (Paths \X Bodies)
<1>1. run \in Runs /\ Surface \in Apis /\ RunBody \in Bodies
  BY HeadIsStep, InputTypes DEF TypeInv
<1>2. LangKey \in LangKeys /\ \A st \in Stages : StageKey(st) \in StageKeys
  BY <1>1 DEF LangKey, LangKeys, StageKey, StageKeys, Runs, TypeInv, TypeOK
<1>3. \A l \in Langs : Outputs[l][Surface] \subseteq Paths
  <2>1. \A l \in Langs : Outputs[l] \in [Apis -> SUBSET Paths]
    BY TreeAssumed DEF TreeAssumption
  <2> QED
    BY <1>1, <2>1
<1>4. \A k \in Recorders : FilesOf(k) \subseteq Paths
  <2>1. \A k \in AuxKinds : AuxOf(k) \subseteq Paths
    BY EmittedTypes DEF TypeInv
  <2> QED
    BY <1>3, <2>1 DEF FilesOf, Recorders, AuxKinds
<1> QED
  BY <1>1, <1>2, <1>3, <1>4 DEF Pairs

\* The rest of TypeOK.
RestOK ==
    /\ langHash \in [Langs -> LangKeys \cup {None}]
    /\ manifest \in [Langs -> (SUBSET Paths) \cup {None}]
    /\ genHash \in [Recorders -> SUBSET (Paths \X Bodies)]
    /\ stageHash \in [Stages -> StageKeys \cup {None}]
    /\ stageList \in [Stages -> (SUBSET Paths) \cup {None}]
    /\ results \subseteq Langs /\ changed \subseteq Langs /\ keep \subseteq Paths

\* The passes of `alef all`.
LEMMA RunPassTypes == ASSUME TypeInv, RunPass PROVE RestOK'
<1>1. run # None /\ InAll
  BY RunPassInAll DEF InAll
<1>2. RestOK
  BY DEF TypeInv, TypeOK, RestOK
<1>3. /\ LangKey \in LangKeys
      /\ \A l \in Langs : Outputs[l][Surface] \in SUBSET Paths
      /\ \A k \in Recorders : Pairs(FilesOf(k), RunBody) \in SUBSET (Paths \X Bodies)
  BY <1>1, KeyTypes
<1>4. /\ LangFiles(results) \subseteq Paths
      /\ \A k \in AuxKinds : AuxOf(k) \subseteq Paths
      /\ \A st \in Stages : Emitted(st, Langs) \subseteq Paths
  BY <1>2, EmittedTypes DEF TypeInv, RestOK
<1>5. CASE Emit
  BY <1>2, <1>3, <1>5 DEF Emit, RestOK
<1>6. CASE WriteBindings
  <2>1. changed' \subseteq Langs /\ keep' \subseteq Paths
    BY <1>2, <1>4, <1>6 DEF WriteBindings, RestOK
  <2>2. genHash' \in [Recorders -> SUBSET (Paths \X Bodies)]
    BY <1>2, <1>3, <1>6, <2>1 DEF WriteBindings, RestOK
  <2> QED
    BY <1>2, <1>6, <2>1, <2>2 DEF WriteBindings, RestOK
<1>7. CASE WriteServices
  BY <1>2, <1>4, <1>7 DEF WriteServices, RestOK, AuxKinds, LangsWith, records
<1>8. ASSUME NEW k \in {"stubs", "public_api"}, WriteAux(k) PROVE RestOK'
  <2>1. k \in Recorders /\ k \in AuxKinds /\ LangsWith(k) \subseteq Langs
    BY DEF Recorders, AuxKinds, LangsWith
  <2>2. k \notin Langs
    BY <2>1, TreeAssumed DEF TreeAssumption
  <2>3. Pairs(AuxOf(k), RunBody) \in SUBSET (Paths \X Bodies)
    BY <1>3, <2>1, <2>2 DEF FilesOf
  <2>4. genHash' \in [Recorders -> SUBSET (Paths \X Bodies)]
    BY <1>2, <1>8, <2>1, <2>3 DEF WriteAux, RestOK
  <2> QED
    BY <1>2, <1>4, <1>8, <2>1, <2>4 DEF WriteAux, RestOK
<1>9. ASSUME NEW k \in {"scaffold", "readme", "docs"}, WritePages(k) PROVE RestOK'
  BY <1>2, <1>4, <1>9 DEF WritePages, RestOK, records, Stages
<1>10. CASE KeepPages
  BY <1>2, <1>10 DEF KeepPages, RestOK, records, Under
<1>11. ASSUME NEW k \in {"post_build", "cleanup", "sweep", "format", "finalize"}, TreePass(k)
       PROVE  RestOK'
  BY <1>2, <1>11 DEF TreePass, RestOK, records, locals
<1> QED
  BY <1>5, <1>6, <1>7, <1>8, <1>9, <1>10, <1>11 DEF RunPass

\* The operations of a stage.
LEMMA StagePassTypes == ASSUME TypeInv, StagePass PROVE RestOK' /\ (~InAll => keep' = keep)
<1>1. run # None
  BY PassMoves DEF Pass
<1>2. RestOK
  BY DEF TypeInv, TypeOK, RestOK
<1>3. run \in Runs /\ \A st \in Stages : StageKey(st) \in StageKeys
  BY <1>1, HeadIsStep, KeyTypes
<1>4. \A st \in Stages : Emitted(st, run.langs) \subseteq Paths
  BY <1>3, EmittedTypes DEF TypeInv, Runs
<1>5. \A st \in Stages : ReadStagePaths(st) \subseteq Paths
  BY <1>2 DEF ReadStagePaths, RestOK
<1>6. ASSUME NEW st \in Stages, StageHit(st) PROVE RestOK' /\ (~InAll => keep' = keep)
  BY <1>1, <1>2, <1>5, <1>6 DEF StageHit, RestOK, records, InAll
<1>7. ASSUME NEW st \in Stages, StageMiss(st) PROVE RestOK' /\ (~InAll => keep' = keep)
  BY <1>2, <1>7 DEF StageMiss, RestOK, records, locals
<1>8. ASSUME NEW st \in Stages, NEW op \in {"write", "restyle", "stamp", "sweep_suite"},
             StageTreePass(op, st)
      PROVE  RestOK' /\ (~InAll => keep' = keep)
  BY <1>2, <1>8 DEF StageTreePass, RestOK, records, locals
<1>9. ASSUME NEW st \in Stages, WriteStageHash(st) PROVE RestOK' /\ (~InAll => keep' = keep)
  BY <1>2, <1>3, <1>9 DEF WriteStageHash, RestOK, locals
<1>10. ASSUME NEW st \in Stages, WriteStageList(st) PROVE RestOK' /\ (~InAll => keep' = keep)
  <2>1. Emitted(st, run.langs) \in (SUBSET Paths) \cup {None}
    BY <1>4
  <2> QED
    BY <1>1, <1>2, <1>4, <1>10, <2>1 DEF WriteStageList, RestOK, InAll
<1> QED
  BY <1>6, <1>7, <1>8, <1>9, <1>10 DEF StagePass

\* A pass as a whole.
LEMMA PassTypes == ASSUME TypeInv, Pass PROVE TypeInv'
<1>1. /\ run # None /\ Moves /\ Partly /\ UNCHANGED inputs /\ faults' \in 0..MaxFaults
  BY PassMoves
<1>2. RestOK' /\ (~InAll => keep' = keep)
  <2>1. CASE RunPass
    BY <2>1, RunPassTypes, RunPassInAll
  <2>2. CASE StagePass
    BY <2>2, StagePassTypes
  <2>3. CASE GoOn
    BY <2>3 DEF GoOn, RestOK, TypeInv, TypeOK, records, locals
  <2> QED
    BY <2>1, <2>2, <2>3 DEF Pass
<1>3. \A i \in DOMAIN todo' : todo'[i] \in Steps
  BY <1>1 DEF Moves, Chain
<1>4. TypeOK'
  BY <1>1, <1>2, <1>3 DEF TypeOK, TypeInv, RestOK, Moves, Partly, Steps, inputs
<1>5. TodoInv'
  BY <1>1, <1>2 DEF TodoInv, TypeInv, Moves, InAll
<1> QED
  BY <1>4, <1>5 DEF TypeInv

\* The end of a run.
LEMMA ResetTypes ==
    ASSUME TypeInv, Reset, UNCHANGED <<inputs, records>>, faults' \in 0..MaxFaults,
           disk' \in [Paths -> TreeFiles \cup {NoFile}]
    PROVE  TypeInv'
<1>1. TypeOK'
  BY DEF Reset, TypeInv, TypeOK, inputs, records
<1>2. TodoInv'
  BY DEF Reset, TypeInv, TodoInv, Chain, InAll
<1> QED
  BY <1>1, <1>2 DEF TypeInv

\* The start of one.
LEMMA StartTypes ==
    ASSUME TypeInv, StartAll \/ (\E st \in Stages : StartStage(st))
    PROVE  TypeInv'
<1>1. run = None /\ todo = <<>> /\ keep = {}
  BY DEF StartAll, StartStage, TypeInv, TodoInv
<1>2. CASE StartAll
  <2>1. PICK cl \in Cleans, h \in Hosts, o \in Orders :
           run' = [command |-> "all", langs |-> Langs, clean |-> cl, host |-> h, order |-> o]
    BY <1>2 DEF StartAll
  <2>2. run' \in Runs /\ run'.command = "all" /\ run'.langs = Langs
    BY <1>2, <2>1, AllAssumption DEF AllAssumption, StartAll, Runs
  <2>3. /\ todo' = [i \in 1..17 |-> IF AllPasses[i] \in Suites THEN <<"check", AllPasses[i]>>
                                    ELSE <<AllPasses[i], "run">>]
        /\ DOMAIN AllPasses = 1..17
    BY <1>2 DEF StartAll, AllProgram, AllPasses
  <2>4. /\ todo'[1] = <<"emit", "run">> /\ todo'[2] = <<"bindings", "run">>
        /\ todo'[3] = <<"services", "run">> /\ todo'[4] = <<"scaffold", "run">>
        /\ todo'[5] = <<"post_build", "run">> /\ todo'[6] = <<"stubs", "run">>
        /\ todo'[7] = <<"public_api", "run">> /\ todo'[8] = <<"readme", "run">>
        /\ todo'[9] = <<"check", "e2e">> /\ todo'[10] = <<"check", "test-apps">>
        /\ todo'[11] = <<"docs", "run">> /\ todo'[12] = <<"pages", "run">>
        /\ todo'[13] = <<"cleanup", "run">> /\ todo'[14] = <<"sweep", "run">>
        /\ todo'[15] = <<"format", "run">> /\ todo'[16] = <<"finalize", "run">>
        /\ todo'[17] = <<"done", "run">>
    BY <2>3 DEF AllPasses, Suites
  <2>5. ASSUME NEW i \in 1..17 PROVE todo'[i] \in AllSteps /\ todo'[i] \in Steps
    <3>1. \/ i = 1 \/ i = 2 \/ i = 3 \/ i = 4 \/ i = 5 \/ i = 6
          \/ i = 7 \/ i = 8 \/ i = 9 \/ i = 10 \/ i = 11 \/ i = 12
          \/ i = 13 \/ i = 14 \/ i = 15 \/ i = 16 \/ i = 17
      OBVIOUS
    <3>2. \A k \in RunPasses : <<k, "run">> \in AllSteps /\ <<k, "run">> \in Steps
      BY DEF AllSteps, Steps
    <3>3. \A st \in Suites : <<"check", st>> \in AllSteps /\ <<"check", st>> \in Steps
      BY DEF AllSteps, Steps, StageOps, Stages
    <3>4. CASE i \in {9, 10}
      BY <2>4, <3>3, <3>4 DEF Suites
    <3>5. CASE i \notin {9, 10}
      BY <2>4, <3>1, <3>2, <3>5 DEF RunPasses
    <3> QED
      BY <3>4, <3>5
  <2>6. ASSUME NEW i \in 1..16 PROVE todo'[i + 1] = After("all", todo'[i])
    <3>1. \/ i = 1 \/ i = 2 \/ i = 3 \/ i = 4 \/ i = 5 \/ i = 6
          \/ i = 7 \/ i = 8 \/ i = 9 \/ i = 10 \/ i = 11 \/ i = 12
          \/ i = 13 \/ i = 14 \/ i = 15 \/ i = 16
      OBVIOUS
    <3>2. /\ After("all", <<"emit", "run">>) = <<"bindings", "run">>
          /\ After("all", <<"bindings", "run">>) = <<"services", "run">>
          /\ After("all", <<"services", "run">>) = <<"scaffold", "run">>
          /\ After("all", <<"scaffold", "run">>) = <<"post_build", "run">>
          /\ After("all", <<"post_build", "run">>) = <<"stubs", "run">>
          /\ After("all", <<"stubs", "run">>) = <<"public_api", "run">>
          /\ After("all", <<"public_api", "run">>) = <<"readme", "run">>
          /\ After("all", <<"readme", "run">>) = <<"check", "e2e">>
      BY DEF After, AfterPass
    <3>3. /\ After("all", <<"check", "e2e">>) = <<"check", "test-apps">>
          /\ After("all", <<"check", "test-apps">>) = <<"docs", "run">>
      BY DEF After, AfterOp, AfterStage
    <3>4. /\ After("all", <<"docs", "run">>) = <<"pages", "run">>
          /\ After("all", <<"pages", "run">>) = <<"cleanup", "run">>
          /\ After("all", <<"cleanup", "run">>) = <<"sweep", "run">>
          /\ After("all", <<"sweep", "run">>) = <<"format", "run">>
          /\ After("all", <<"format", "run">>) = <<"finalize", "run">>
          /\ After("all", <<"finalize", "run">>) = <<"done", "run">>
      BY DEF After, AfterPass
    <3>5. /\ todo'[2] = After("all", todo'[1])
          /\ todo'[3] = After("all", todo'[2])
          /\ todo'[4] = After("all", todo'[3])
          /\ todo'[5] = After("all", todo'[4])
          /\ todo'[6] = After("all", todo'[5])
          /\ todo'[7] = After("all", todo'[6])
          /\ todo'[8] = After("all", todo'[7])
          /\ todo'[9] = After("all", todo'[8])
      BY <2>4, <3>2, Zenon
    <3>6. /\ todo'[10] = After("all", todo'[9])
          /\ todo'[11] = After("all", todo'[10])
      BY <2>4, <3>3, Zenon
    <3>7. /\ todo'[12] = After("all", todo'[11])
          /\ todo'[13] = After("all", todo'[12])
          /\ todo'[14] = After("all", todo'[13])
          /\ todo'[15] = After("all", todo'[14])
          /\ todo'[16] = After("all", todo'[15])
          /\ todo'[17] = After("all", todo'[16])
      BY <2>4, <3>4, Zenon
    <3> QED
      BY <3>1, <3>5, <3>6, <3>7
  <2>7. todo' \in Seq(Steps) /\ Len(todo') = 17 /\ todo' # <<>>
    BY <2>3, <2>5
  <2>8. Chain'
    BY <2>2, <2>4, <2>5, <2>6, <2>7 DEF Chain, LegalSteps, Steps
  <2>9. TodoInv'
    BY <1>1, <1>2, <2>2, <2>7, <2>8, NoneAssumption DEF TodoInv, StartAll, InAll, locals
  <2>10. TypeOK'
    BY <1>2, <2>2, <2>5, <2>7 DEF StartAll, TypeInv, TypeOK, inputs, records, locals, Steps
  <2> QED
    BY <2>9, <2>10 DEF TypeInv
<1>3. ASSUME NEW st \in Stages, StartStage(st) PROVE TypeInv'
  <2>1. PICK L \in SUBSET Langs, h \in Hosts, o \in Orders :
           /\ Filters \/ L = Langs
           /\ run' = [command |-> st, langs |-> L, clean |-> FALSE, host |-> h, order |-> o]
    BY <1>3 DEF StartStage
  <2>2. /\ run' \in Runs /\ run'.command = st /\ ~run'.clean
        /\ Filters \/ run'.langs = Langs
    BY <1>3, <2>1, AllAssumption DEF AllAssumption, StartStage, Runs
  <2>3. todo' = <<<<"check", st>>, <<"done", "run">>>> /\ st # "all" /\ st # "run"
    BY <1>3 DEF StartStage, Stages, Suites
  <2>4. /\ todo' \in Seq(Steps) /\ Len(todo') = 2 /\ todo' # <<>>
        /\ todo'[1] = <<"check", st>> /\ todo'[2] = <<"done", "run">>
    BY <2>3 DEF Steps, StageOps, RunPasses
  <2>5. After(st, todo'[1]) = todo'[2]
    BY <2>3, <2>4 DEF After, AfterOp, AfterStage
  <2>6. ASSUME NEW i \in 1..2 PROVE todo'[i] \in LegalSteps(st)
    BY <2>3, <2>4 DEF LegalSteps, OwnOps, StageOps
  <2>7. Chain'
    BY <2>2, <2>4, <2>5, <2>6 DEF Chain, Steps
  <2>8. TodoInv'
    BY <1>1, <1>3, <2>2, <2>3, <2>4, <2>7, NoneAssumption DEF TodoInv, StartStage, InAll, locals
  <2>9. TypeOK'
    BY <1>3, <2>2, <2>4 DEF StartStage, TypeInv, TypeOK, inputs, records, locals, Steps
  <2> QED
    BY <2>8, <2>9 DEF TypeInv
<1> QED
  BY <1>2, <1>3

\* Between two runs.
LEMMA DeveloperTypes == ASSUME TypeInv, Developer PROVE TypeInv'
<1>1. run = None /\ UNCHANGED <<run, todo, locals>> /\ edits' \in 0..MaxEdits
  BY AllAssumption DEF AllAssumption, Developer, EditInputs, DeleteFile, RestoreFile, HandEdit,
       ClearCache, MayEdit, TypeInv, TypeOK
<1>2. TodoInv'
  BY <1>1 DEF TypeInv, TodoInv, Chain, InAll, locals
<1>3. TypeOK'
  <2> USE <1>1 DEF TypeInv, TypeOK, records, locals
  <2>1. CASE EditInputs
    BY <2>1 DEF EditInputs
  <2>2. CASE DeleteFile
    BY <2>2 DEF DeleteFile
  <2>3. CASE RestoreFile
    <3>1. PICK s \in Sources, x \in Fixtures, st \in Suites, l \in Langs :
          \E p \in StageFiles[st][l][Api[s][cfg]] :
             disk' = [disk EXCEPT ![p] =
                [body |-> [api |-> Api[s][cfg], cfg |-> cfg, fix |-> x],
                 form |-> IF p \in Restyled THEN "fmt" ELSE "raw",
                 stamp |-> IF p \in Marked THEN Stamp(SourcesHash[s], cfg) ELSE NoStamp]]
      BY <2>3 DEF RestoreFile
    <3>2. Api[s][cfg] \in Apis /\ SourcesHash[s] \in Hashes
      BY TreeAssumed DEF TreeAssumption
    <3>3. \A p : [body |-> [api |-> Api[s][cfg], cfg |-> cfg, fix |-> x],
                  form |-> IF p \in Restyled THEN "fmt" ELSE "raw",
                  stamp |-> IF p \in Marked THEN Stamp(SourcesHash[s], cfg) ELSE NoStamp]
                 \in TreeFiles
      BY <3>2 DEF TreeFiles, SuiteBodies, Stamp, Stamps
    <3>4. disk' \in [Paths -> TreeFiles \cup {NoFile}]
      BY <3>1, <3>3
    <3> QED
      BY <2>3, <3>4 DEF RestoreFile
  <2>4. CASE HandEdit
    <3>1. PICK p \in Paths, b \in Bodies :
             HasHash(disk[p]) /\ disk' = [disk EXCEPT ![p].body = b]
      BY <2>4 DEF HandEdit
    <3>2. disk[p] \in TreeFiles
      BY <3>1 DEF HasHash, Exists
    <3>3. [disk[p] EXCEPT !.body = b] \in TreeFiles
      BY <3>2 DEF TreeFiles
    <3>4. disk' \in [Paths -> TreeFiles \cup {NoFile}]
      BY <3>1, <3>3
    <3> QED
      BY <2>4, <3>4 DEF HandEdit
  <2>5. CASE ClearCache
    BY <2>5 DEF ClearCache, NoLangRecords, NoStageRecords, NoGenHashes
  <2> QED
    BY <2>1, <2>2, <2>3, <2>4, <2>5 DEF Developer
<1> QED
  BY <1>2, <1>3 DEF TypeInv

LEMMA NextTypes == ASSUME TypeInv, [Next]_vars PROVE TypeInv'
<1>1. CASE UNCHANGED vars
  BY <1>1 DEF vars, inputs, records, locals, TypeInv, TypeOK, TodoInv, Chain, InAll
<1>2. CASE Stop
  <2>1. disk' \in [Paths -> TreeFiles \cup {NoFile}]
    BY <1>2, PartOfPass DEF Stop, Partly
  <2>2. faults' \in 0..MaxFaults
    BY <1>2, AllAssumption DEF Stop, Fault, AllAssumption, TypeInv, TypeOK
  <2> QED
    BY <1>2, <2>1, <2>2, ResetTypes DEF Stop
<1>3. CASE Finish
  BY <1>3, ResetTypes DEF Finish, TypeInv, TypeOK
<1> QED
  BY <1>1, <1>2, <1>3, PassTypes, StartTypes, DeveloperTypes DEF Next, Pass

LEMMA InitTypes == Init => TypeInv
<1> SUFFICES ASSUME Init PROVE TypeInv
  OBVIOUS
<1>1. disk \in [Paths -> TreeFiles \cup {NoFile}]
  <2>1. Files \subseteq TreeFiles
    BY DEF Files, TreeFiles
  <2> QED
    BY <2>1, TreeAssumed DEF TreeAssumption, Init
<1>2. TypeOK
  BY <1>1, AllAssumption DEF AllAssumption, Init, TypeOK, NoLangRecords, NoStageRecords,
       NoGenHashes
<1>3. TodoInv
  BY DEF Init, TodoInv, Chain, InAll
<1> QED
  BY <1>2, <1>3 DEF TypeInv

\* Every variable stays in its range, in every run, and the passes a run has
\* left are those its handler has (all_commands.rs:59-390).
THEOREM AllTypeCorrect == Spec => []TypeOK
<1>1. Init => TypeInv
  BY InitTypes
<1>2. TypeInv /\ [Next]_vars => TypeInv'
  BY NextTypes
<1>3. TypeInv => TypeOK
  BY DEF TypeInv
<1> QED
  BY <1>1, <1>2, <1>3, PTL DEF Spec

-----------------------------------------------------------------------------
(* What the deleting passes spare.                                         *)

\* What follows a pass of `alef all`.
LEMMA NextPass ==
    ASSUME TypeInv, Pass, InAll
    PROVE  /\ InAll' /\ todo # <<>> /\ run.langs = Langs /\ Head(todo') = <<Op, Stage>>'
           /\ \/ /\ Op \in RunPasses \ {"done"} /\ Stage = "run"
                 /\ Head(todo') = AfterPass(Op)
              \/ /\ Op \in {"check", "write", "restyle", "sweep_suite", "hash", "list"}
                 /\ Stage \in Suites
                 /\ \/ Head(todo') = AfterOp("all", Op, Stage)
                    \/ Op = "check" /\ Head(todo') = <<"write", Stage>>
<1>1. /\ run # None /\ Moves /\ Op # "done" /\ run.command = "all" /\ run' = run
  BY PassMoves DEF InAll, Moves
<1>2. /\ Head(todo) = <<Op, Stage>> /\ Head(todo) \in AllSteps
  BY <1>1, HeadIsStep DEF LegalSteps
<1>3. \/ Op \in RunPasses \ {"done"} /\ Stage = "run"
      \/ /\ Op \in {"check", "write", "restyle", "sweep_suite", "hash", "list"}
         /\ Stage \in Suites
  BY <1>1, <1>2 DEF AllSteps
<1>4. Stage \in Suites => Stage # "run"
  BY DEF Suites
<1>5. TypeInv' /\ (run # None)'
  BY <1>1, PassTypes
<1>6. Head(todo') = <<Op, Stage>>'
  <2>1. todo' \in Seq(Steps) /\ todo' # <<>>
    BY <1>1 DEF Moves, Chain
  <2>2. Head(todo') \in Steps
    BY <2>1
  <2> QED
    BY <2>2 DEF Steps, Op, Stage
<1>7. After("all", Head(todo)) = IF Stage = "run" THEN AfterPass(Op) ELSE AfterOp("all", Op, Stage)
  BY <1>2 DEF After
<1>8. \/ Head(todo') = After("all", Head(todo))
      \/ Op = "check" /\ Head(todo') = <<"write", Stage>>
  BY <1>1 DEF Moves
<1>9. InAll' /\ todo # <<>> /\ run.langs = Langs
  BY <1>1 DEF InAll, TypeInv, TodoInv
<1>10. "check" \notin RunPasses
  BY DEF RunPasses
<1> QED
  BY <1>3, <1>4, <1>6, <1>7, <1>8, <1>9, <1>10

\* What each deleting pass removes.
LEMMA RemovedWhere ==
    ASSUME TypeInv, run # None, run.langs = Langs, NEW p \in Removed
    PROVE  /\ p \in Paths
           /\ \/ Op = "cleanup" /\ p \notin keep /\ Dir[p] \notin CleanupProtected
              \/ Op = "sweep" /\ p \notin keep /\ Dir[p] \notin SweepSkipped
              \/ /\ Op = "sweep_suite" /\ Stage \in Suites
                 /\ p \in Under({SuiteDir[Stage]}) /\ p \notin Emitted(Stage, Langs)
<1>1. Op \in {"cleanup", "sweep", "sweep_suite"}
  BY DEF Removed
<1>2. CASE Op = "cleanup"
  BY <1>2 DEF Removed, CleanupOrphans, CleanupVisits
<1>3. CASE Op = "sweep"
  BY <1>3 DEF Removed, SweepOrphans
<1>4. CASE Op = "sweep_suite"
  <2>1. Stage \in Suites
    <3>1. <<Op, Stage>> \in LegalSteps(run.command)
      BY HeadIsStep
    <3>2. CASE run.command = "all"
      BY <1>4, <3>1, <3>2 DEF LegalSteps, AllSteps, RunPasses
    <3>3. CASE run.command # "all"
      BY <1>4, <3>1, <3>3 DEF LegalSteps, OwnOps
    <3> QED
      BY <3>2, <3>3
  <2>2. p \in SweepOrphans(disk, Emitted(Stage, Langs), {SuiteDir[Stage]})
    BY <1>4 DEF Removed, SuiteRoots
  <2> QED
    BY <1>4, <2>1, <2>2 DEF SweepOrphans, Under
<1> QED
  BY <1>1, <1>2, <1>3, <1>4

\* A step of a run is a pass, the end of the run, or neither.
LEMMA RunStep ==
    ASSUME TypeInv, [Next]_vars, run # None
    PROVE  \/ Pass
           \/ run' = None /\ Partly
           \/ run' = None /\ disk' = disk
           \/ UNCHANGED vars
<1>1. CASE Stop
  BY <1>1, PartOfPass DEF Stop, Reset
<1>2. CASE Finish
  BY <1>2 DEF Finish, Reset
<1> QED
  BY <1>1, <1>2 DEF Next, Pass, StartAll, StartStage, Developer, EditInputs, DeleteFile,
     RestoreFile, HandEdit, ClearCache, MayEdit

\* And outside runs, a start or an edit.
LEMMA IdleStep ==
    ASSUME TypeInv, [Next]_vars, run = None
    PROVE  \/ StartAll \/ \E st \in Stages : StartStage(st)
           \/ Developer
           \/ UNCHANGED vars
<1>1. todo = <<>>
  BY DEF TypeInv, TodoInv
<1>2. ~Pass /\ ~Stop /\ ~Finish
  BY <1>1, PassMoves DEF Stop, Finish, At
<1> QED
  BY <1>2 DEF Next, Pass

\* The pages are collected right before the first deleting pass.
LEMMA PagesKeptStep == ASSUME TypeInv, PagesKept, [Next]_vars PROVE PagesKept'
<1> SUFFICES ASSUME InAll', Op' \in {"cleanup", "sweep"}, NEW p \in Under({DocsDir}),
                    HasHash(disk'[p]), Dir[p] \notin SweepSkipped
             PROVE  p \in keep'
  BY DEF PagesKept, Under
<1>1. CASE UNCHANGED vars
  BY <1>1 DEF PagesKept, vars, inputs, records, locals, InAll, Op
<1>2. CASE Pass
  <2>1. InAll
    BY <1>2, PassMoves DEF InAll, Moves
  <2>2. Op \in {"pages", "cleanup"} /\ Stage = "run"
    BY <1>2, <2>1, NextPass DEF AfterPass, AfterOp, AfterStage, RunPasses
  <2>3. CASE KeepPages
    BY <2>3 DEF KeepPages
  <2>4. CASE Op = "cleanup"
    <3>1. keep' = keep
      <4>1. CASE RunPass
        BY <2>4, <4>1 DEF RunPass, Emit, WriteBindings, WriteServices, WriteAux, WritePages,
           KeepPages, TreePass, At, Op, locals
      <4>2. CASE StagePass
        BY <2>4, <4>2 DEF StagePass, StageHit, StageMiss, StageTreePass, WriteStageHash,
           WriteStageList, At, Op
      <4>3. CASE GoOn
        BY <4>3 DEF GoOn, locals
      <4> QED
        BY <1>2, <4>1, <4>2, <4>3 DEF Pass
    <3>2. HasHash(disk[p])
      <4>1. p \in Paths /\ run # None
        BY <2>1 DEF Under, InAll
      <4>2. disk'[p] = disk[p] \/ disk'[p] = Effect[p]
        BY <1>2, <4>1, PassMoves DEF Partly
      <4>3. StampsOf = {}
        BY <2>4 DEF StampsOf
      <4> QED
        BY <4>1, <4>2, <4>3, EffectShape DEF Shape
    <3> QED
      BY <2>1, <2>4, <3>1, <3>2 DEF PagesKept
  <2>5. Op = "pages" => KeepPages
    BY <1>2 DEF Pass, RunPass, StagePass, GoOn, Ignored, Emit, WriteBindings, WriteServices, WriteAux,
       WritePages, TreePass, At, Op, StageHit, StageMiss, StageTreePass, WriteStageHash,
       WriteStageList
  <2> QED
    BY <2>2, <2>3, <2>4, <2>5
<1>3. CASE run # None /\ ~Pass /\ ~UNCHANGED vars
  BY <1>3, RunStep DEF InAll
<1>4. CASE run = None /\ ~UNCHANGED vars
  <2>1. CASE StartAll
    <3>1. todo' = AllProgram
      BY <2>1 DEF StartAll
    <3>2. Head(todo') = <<"emit", "run">>
      BY <3>1 DEF AllProgram, AllPasses, Suites
    <3> QED
      BY <3>2 DEF Op
  <2>2. ASSUME NEW st \in Stages, StartStage(st) PROVE FALSE
    <3>1. run'.command = st
      BY <2>2 DEF StartStage
    <3> QED
      BY <3>1 DEF InAll, Stages, Suites
  <2>3. CASE Developer
    BY <1>4, <2>3 DEF InAll, Developer, EditInputs, DeleteFile, RestoreFile, HandEdit, ClearCache
  <2> QED
    BY <1>4, <2>1, <2>2, <2>3, IdleStep
<1> QED
  BY <1>1, <1>2, <1>3, <1>4

\* No pass of `alef all` removes a page that carries a hash, whatever this host
\* can generate, however the run ends and whatever fails (all_commands.rs:340-360).
THEOREM PagesAlwaysSurvive == SuitesApart /\ PagesCollected /\ Spec => PagesSurvive
<1> SUFFICES ASSUME SuitesApart, PagesCollected PROVE Spec => PagesSurvive
  OBVIOUS
<1>1. Init => TypeInv /\ PagesKept
  BY InitTypes DEF Init, PagesKept, InAll
<1>2. TypeInv /\ PagesKept /\ [Next]_vars => (TypeInv /\ PagesKept)'
  BY NextTypes, PagesKeptStep
<1>3. TypeInv /\ PagesKept /\ [Next]_vars =>
        [InAll => \A p \in Under({DocsDir}) : HasHash(disk[p]) => Exists(disk'[p])]_vars
  <2> SUFFICES ASSUME TypeInv, PagesKept, Next, InAll, NEW p \in Under({DocsDir}),
                      HasHash(disk[p])
               PROVE  Exists(disk'[p])
    BY DEF Exists, vars
  <2>1. p \in Paths /\ run # None /\ run.langs = Langs /\ Exists(disk[p])
    BY DEF Under, InAll, TypeInv, TodoInv, HasHash
  <2>2. disk'[p] = disk[p] \/ disk'[p] = Effect[p]
    BY <2>1, RunStep, PassMoves DEF Partly, vars
  <2>3. p \notin Removed
    <3> SUFFICES ASSUME p \in Removed PROVE FALSE
      OBVIOUS
    <3>1. Op \in {"cleanup", "sweep"} => p \in keep \/ Dir[p] \in SweepSkipped
      BY DEF PagesKept
    <3>2. \A st \in Suites : p \notin Under({SuiteDir[st]})
      BY DEF SuitesApart
    <3> QED
      BY <2>1, <3>1, <3>2, RemovedWhere DEF PagesCollected
  <2> QED
    BY <2>1, <2>2, <2>3, EffectShape DEF Shape, Exists
<1> QED
  BY <1>1, <1>2, <1>3, PTL DEF Spec, PagesSurvive

-----------------------------------------------------------------------------
(* The records of the suites.                                              *)

\* Nothing fails, and every run is for all languages.
LEMMA Whole ==
    ASSUME TypeInv, Undivided, run # None
    PROVE  ~Stop /\ ~GoOn /\ run.langs = Langs
BY DEF Undivided, Stop, GoOn, Fault, TypeInv, TypeOK, TodoInv

\* Each step is the one its head names; the rest of the records stays.
LEMMA StageActs ==
    ASSUME TypeInv, Pass
    PROVE  /\ Op = "check" => Stage \in Stages /\ (StageHit(Stage) \/ StageMiss(Stage))
           /\ Op = "hash" => Stage \in Stages /\ WriteStageHash(Stage)
           /\ Op = "list" => Stage \in Stages /\ WriteStageList(Stage)
           /\ Op # "hash" => stageHash' = stageHash
           /\ Op # "list" => stageList' = stageList
           /\ Op \in {"write", "restyle", "stamp", "sweep_suite", "hash"} => keep' = keep
           /\ Op \in {"post_build", "cleanup", "sweep", "format", "finalize"} => keep' = keep
<1> USE DEF At, Op, Stage, records, locals
<1>1. CASE GoOn
  BY <1>1 DEF GoOn, Ignored
<1>2. CASE RunPass
  BY <1>2 DEF RunPass, Emit, WriteBindings, WriteServices, WriteAux, WritePages, KeepPages, TreePass
<1>3. ASSUME NEW st \in Stages, StageHit(st) \/ StageMiss(st)
      PROVE  /\ Op = "check" /\ Stage = st
             /\ stageHash' = stageHash /\ stageList' = stageList
  BY <1>3 DEF StageHit, StageMiss
<1>4. ASSUME NEW st \in Stages, NEW op \in {"write", "restyle", "stamp", "sweep_suite"},
             StageTreePass(op, st)
      PROVE  /\ Op = op /\ Stage = st
             /\ stageHash' = stageHash /\ stageList' = stageList /\ keep' = keep
  BY <1>4 DEF StageTreePass
<1>5. ASSUME NEW st \in Stages, WriteStageHash(st)
      PROVE  Op = "hash" /\ Stage = st /\ stageList' = stageList /\ keep' = keep
  BY <1>5 DEF WriteStageHash
<1>6. ASSUME NEW st \in Stages, WriteStageList(st)
      PROVE  Op = "list" /\ Stage = st /\ stageHash' = stageHash
  BY <1>6 DEF WriteStageList
<1> HIDE DEF At, Op, Stage, records, locals
<1>7. CASE StagePass
  BY <1>3, <1>4, <1>5, <1>6, <1>7 DEF StagePass
<1> QED
  BY <1>1, <1>2, <1>7 DEF Pass

\* The operations of a suite come one after the other.
LEMMA SuiteSteps ==
    ASSUME TypeInv, Pass, NEW st \in Suites
    PROVE  /\ InOps(st, {"list"})' <=> InOps(st, {"hash"})
           /\ InOps(st, {"hash"})' <=> InOps(st, {"sweep_suite"})
           /\ InOps(st, {"restyle"})' <=> InOps(st, {"write"})
           /\ InOps(st, {"stamp", "sweep_suite"})' <=> InOps(st, {"restyle", "stamp"})
           /\ InOps(st, {"write"})' => InOps(st, {"check"})
<1>1. /\ run # None /\ Moves /\ todo # <<>> /\ todo' # <<>>
      /\ Head(todo) = <<Op, Stage>> /\ Head(todo) \in LegalSteps(run.command)
      /\ \/ Op \in RunPasses /\ Stage = "run"
         \/ Op \in StageOps /\ Stage \in Stages
      /\ Op # "done"
  BY PassMoves, HeadIsStep DEF Moves
<1>2. Head(todo') = <<Op', Stage'>>
  <2>1. todo' \in Seq(Steps) /\ todo' # <<>>
    BY <1>1 DEF Moves, Chain
  <2>2. Head(todo') \in Steps
    BY <2>1
  <2> QED
    BY <2>2 DEF Steps, Op, Stage
<1>3. Stage = "run" => Op' = "check" \/ Stage' = "run"
  <2>1. "run" \notin Stages /\ "check" \notin RunPasses
    BY DEF Stages, Suites, RunPasses
  <2>2. Stage = "run" => Head(todo') = AfterPass(Op)
    BY <1>1, <2>1 DEF Moves, After
  <2> QED
    BY <1>2, <2>2 DEF AfterPass
<1>4. CASE Stage # "run"
  <2>1. \/ Head(todo') = AfterOp(run.command, Op, Stage)
        \/ Op = "check" /\ Head(todo') = <<"write", Stage>>
    BY <1>1, <1>4 DEF Moves, After
  <2>2. Op \in StageOps /\ Stage \in Stages
    BY <1>1, <1>4
  <2>3. CASE Op = "check"
    BY <1>1, <1>2, <2>1, <2>3 DEF InOps, AfterOp, AfterStage
  <2>4. CASE Op = "write"
    BY <1>1, <1>2, <2>1, <2>4 DEF InOps, AfterOp, AfterStage
  <2>5. CASE Op = "restyle"
    BY <1>1, <1>2, <2>1, <2>5 DEF InOps, AfterOp, AfterStage
  <2>6. CASE Op = "stamp"
    BY <1>1, <1>2, <2>1, <2>6 DEF InOps, AfterOp, AfterStage
  <2>7. CASE Op \in {"sweep_suite", "hash", "list"}
    BY <1>1, <1>2, <2>1, <2>7 DEF InOps, AfterOp, AfterStage
  <2> QED
    BY <2>2, <2>3, <2>4, <2>5, <2>6, <2>7 DEF StageOps
<1>5. CASE Stage = "run"
  <2>1. st # "run"
    BY DEF Suites
  <2> QED
    BY <1>3, <1>5, <2>1 DEF InOps
<1> QED
  BY <1>4, <1>5

\* A suite for all languages.
LEMMA WholeSuite ==
    ASSUME TypeInv, SuitesApart, NEW st \in Suites
    PROVE  /\ Emitted(st, Langs) = SuiteFiles(st, Surface)
           /\ StageOutput(st, Langs) = SuiteFiles(st, Surface)
           /\ \A a \in Apis : SuiteFiles(st, a) \subseteq Under({SuiteDir[st]})
           /\ StageKey(st).api = Surface /\ StageKey(st) # None /\ StageKey(st) = StageBody(st)
<1>1. Surface \in Apis
  BY InputTypes DEF TypeInv
<1>2. StageKey(st) \in StageKeys
  BY <1>1 DEF StageKey, StageKeys, TypeInv, TypeOK
<1>3. SuiteFiles(st, Surface) \cap HostPages = {}
  BY <1>1 DEF SuitesApart
<1>4. StageOutput(st, Langs) = SuiteFiles(st, Surface)
  BY DEF StageOutput, SuiteFiles
<1> QED
  BY <1>2, <1>3, <1>4, NoneAssumption DEF SuitesApart, Emitted, StageKey, StageBody

\* Records of suites in the first state, and when nothing runs.
LEMMA ListStep ==
    ASSUME TypeInv, Undivided, SuitesApart, ListInv, [Next]_vars
    PROVE  ListInv'
<1> SUFFICES ASSUME NEW st \in Suites
             PROVE  /\ (stageHash[st] # None /\ ~InOps(st, {"list"}) =>
                          stageList[st] = SuiteFiles(st, stageHash[st].api))'
                    /\ (InOps(st, {"list"}) => stageHash[st] = StageKey(st))'
  BY DEF ListInv
<1>1. st \in Stages
  BY DEF Stages
<1>2. CASE UNCHANGED vars
  BY <1>2 DEF ListInv, vars, inputs, records, locals, InOps, Op, Stage, StageKey, Surface
<1>3. CASE Pass
  <2>1. run # None /\ run.langs = Langs /\ StageKey(st)' = StageKey(st)
    BY <1>3, PassMoves, Whole DEF StageKey, Surface, inputs
  <2>2. CASE InOps(st, {"hash"})
    <3>1. stageHash' = [stageHash EXCEPT ![st] = StageKey(st)]
      BY <1>3, <2>2, StageActs DEF InOps, WriteStageHash
    <3> QED
      BY <1>1, <1>3, <2>1, <2>2, <3>1, SuiteSteps DEF TypeInv, TypeOK
  <2>3. CASE InOps(st, {"list"})
    <3>1. stageList' = [stageList EXCEPT ![st] = Emitted(st, run.langs)] /\ stageHash' = stageHash
      BY <1>3, <2>3, StageActs DEF InOps, WriteStageList
    <3>2. stageHash[st] = StageKey(st) /\ ~InOps(st, {"hash"})
      BY <2>3 DEF ListInv, InOps
    <3> QED
      BY <1>1, <1>3, <2>1, <3>1, <3>2, SuiteSteps, WholeSuite DEF TypeInv, TypeOK
  <2>4. CASE ~InOps(st, {"hash"}) /\ ~InOps(st, {"list"})
    <3>1. stageHash'[st] = stageHash[st] /\ stageList'[st] = stageList[st]
      <4>1. Op = "hash" => stageHash' = [stageHash EXCEPT ![Stage] = StageKey(Stage)]
                           /\ stageList' = stageList
        BY <1>3, StageActs DEF WriteStageHash
      <4>2. Op = "list" => stageList' = [stageList EXCEPT ![Stage] = Emitted(Stage, run.langs)]
                           /\ stageHash' = stageHash
        BY <1>3, StageActs DEF WriteStageList
      <4>3. Op \in {"hash", "list"} => Stage # st
        BY <2>1, <2>4 DEF InOps, TypeInv, TodoInv
      <4> QED
        BY <1>1, <1>3, <4>1, <4>2, <4>3, StageActs DEF TypeInv, TypeOK
    <3> QED
      BY <1>3, <2>4, <3>1, SuiteSteps DEF ListInv
  <2> QED
    BY <2>2, <2>3, <2>4 DEF InOps
<1>4. CASE run # None /\ ~Pass
  <2>1. CASE Finish
    BY <2>1 DEF Finish, Reset, At, ListInv, InOps, records, Op
  <2> QED
    BY <1>2, <1>4, <2>1, Whole, RunStep DEF Next, Pass, StartAll, StartStage, Developer, EditInputs,
       DeleteFile, RestoreFile, HandEdit, ClearCache, MayEdit
<1>5. CASE run = None
  <2>1. ~InOps(st, {"list"})
    BY <1>5 DEF InOps, TypeInv, TodoInv
  <2>2. CASE Developer
    <3>1. ~InOps(st, {"list"})'
      BY <2>1, <2>2 DEF InOps, Op, Stage, Developer, EditInputs, DeleteFile, RestoreFile, HandEdit,
         ClearCache
    <3>2. CASE ClearCache
      BY <1>1, <3>1, <3>2 DEF ClearCache, NoStageRecords
    <3>3. (stageHash' = stageHash /\ stageList' = stageList) \/ ClearCache
      BY <2>2 DEF Developer, EditInputs, DeleteFile, RestoreFile, HandEdit, records
    <3> QED
      BY <2>1, <3>1, <3>2, <3>3 DEF ListInv
  <2>3. CASE StartAll
    <3>1. Head(todo') = <<"emit", "run">>
      BY <2>3 DEF StartAll, AllProgram, AllPasses, Suites
    <3> QED
      BY <2>1, <2>3, <3>1 DEF StartAll, InOps, Op, ListInv, records
  <2>4. ASSUME NEW x \in Stages, StartStage(x)
        PROVE  stageHash' = stageHash /\ stageList' = stageList /\ Head(todo') = <<"check", x>>
    BY <2>4 DEF StartStage, records
  <2>5. CASE \E x \in Stages : StartStage(x)
    BY <2>1, <2>4, <2>5 DEF InOps, Op, ListInv
  <2> QED
    BY <1>2, <1>5, <2>2, <2>3, <2>5, IdleStep
<1> QED
  BY <1>3, <1>4, <1>5

-----------------------------------------------------------------------------
(* The course of `alef all`.                                               *)

\* It starts, or it takes a pass.
LEMMA AllStep ==
    ASSUME TypeInv, [Next]_vars, InAll'
    PROVE  \/ UNCHANGED vars
           \/ InAll /\ Pass
           \/ StartAll /\ Here' = 1 /\ keep' = {} /\ Stage' = "run"
<1>1. CASE run # None
  <2>1. Pass \/ UNCHANGED vars
    BY <1>1, RunStep DEF InAll
  <2> QED
    BY <2>1, PassMoves DEF InAll, Moves
<1>2. CASE run = None
  <2>1. ASSUME NEW st \in Stages, StartStage(st) PROVE FALSE
    <3>1. run'.command = st
      BY <2>1 DEF StartStage
    <3> QED
      BY <3>1 DEF InAll, Stages, Suites
  <2>2. ASSUME Developer PROVE FALSE
    BY <1>2, <2>2 DEF InAll, Developer, EditInputs, DeleteFile, RestoreFile, HandEdit, ClearCache
  <2>3. CASE StartAll
    <3>1. Head(todo') = <<"emit", "run">>
      BY <2>3 DEF StartAll, AllProgram, AllPasses, Suites
    <3>2. keep' = {}
      BY <1>2, <2>3 DEF StartAll, locals, TypeInv, TodoInv
    <3>3. Here' = 1 /\ Stage' = "run"
      BY <3>1 DEF Here, Num, Stage
    <3> QED
      BY <2>3, <3>2, <3>3
  <2> QED
    BY <1>2, <2>1, <2>2, <2>3, IdleStep
<1> QED
  BY <1>1, <1>2

\* The place of each pass.
LEMMA Places ==
    /\ \A k : Num(<<k, "e2e">>) = 9 /\ Num(<<k, "test-apps">>) = 10
    /\ Num(<<"emit", "run">>) = 1       /\ Num(<<"bindings", "run">>) = 2
    /\ Num(<<"services", "run">>) = 3   /\ Num(<<"scaffold", "run">>) = 4
    /\ Num(<<"post_build", "run">>) = 5 /\ Num(<<"stubs", "run">>) = 6
    /\ Num(<<"public_api", "run">>) = 7 /\ Num(<<"readme", "run">>) = 8
    /\ Num(<<"docs", "run">>) = 11      /\ Num(<<"pages", "run">>) = 12
    /\ Num(<<"cleanup", "run">>) = 13   /\ Num(<<"sweep", "run">>) = 14
    /\ Num(<<"format", "run">>) = 15    /\ Num(<<"finalize", "run">>) = 16
    /\ Num(<<"done", "run">>) = 17
<1>1. \A k : Num(<<k, "e2e">>) = 9 /\ Num(<<k, "test-apps">>) = 10
  BY DEF Num
<1>2. /\ Num(<<"emit", "run">>) = 1 /\ Num(<<"bindings", "run">>) = 2
      /\ Num(<<"services", "run">>) = 3 /\ Num(<<"scaffold", "run">>) = 4
  BY DEF Num
<1>3. /\ Num(<<"post_build", "run">>) = 5 /\ Num(<<"stubs", "run">>) = 6
      /\ Num(<<"public_api", "run">>) = 7 /\ Num(<<"readme", "run">>) = 8
  BY DEF Num
<1>4. /\ Num(<<"docs", "run">>) = 11 /\ Num(<<"pages", "run">>) = 12
      /\ Num(<<"cleanup", "run">>) = 13 /\ Num(<<"sweep", "run">>) = 14
  BY DEF Num
<1>5. /\ Num(<<"format", "run">>) = 15 /\ Num(<<"finalize", "run">>) = 16
      /\ Num(<<"done", "run">>) = 17
  BY DEF Num
<1> QED
  BY <1>1, <1>2, <1>3, <1>4, <1>5

\* And the next one.
LEMMA NextPlace ==
    ASSUME NEW k \in RunPasses \ {"done"}
    PROVE  /\ Num(<<k, "run">>) \in (1..16) \ {9, 10}
           /\ Num(AfterPass(k)) = Num(<<k, "run">>) + 1
<1>1. CASE k \in {"emit", "bindings", "services", "scaffold", "post_build", "stubs"}
  <2>1. /\ AfterPass("emit") = <<"bindings", "run">>
        /\ AfterPass("bindings") = <<"services", "run">>
        /\ AfterPass("services") = <<"scaffold", "run">>
        /\ AfterPass("scaffold") = <<"post_build", "run">>
        /\ AfterPass("post_build") = <<"stubs", "run">>
        /\ AfterPass("stubs") = <<"public_api", "run">>
    BY DEF AfterPass
  <2> QED
    BY <1>1, <2>1, Places
<1>2. CASE k \in {"public_api", "readme", "docs", "pages"}
  <2>1. /\ AfterPass("public_api") = <<"readme", "run">>
        /\ AfterPass("readme") = <<"check", "e2e">>
        /\ AfterPass("docs") = <<"pages", "run">>
        /\ AfterPass("pages") = <<"cleanup", "run">>
    BY DEF AfterPass
  <2> QED
    BY <1>2, <2>1, Places
<1>3. CASE k \in {"cleanup", "sweep", "format", "finalize"}
  <2>1. /\ AfterPass("cleanup") = <<"sweep", "run">>
        /\ AfterPass("sweep") = <<"format", "run">>
        /\ AfterPass("format") = <<"finalize", "run">>
        /\ AfterPass("finalize") = <<"done", "run">>
    BY DEF AfterPass
  <2> QED
    BY <1>3, <2>1, Places
<1> QED
  BY <1>1, <1>2, <1>3 DEF RunPasses

LEMMA HereNow ==
    ASSUME TypeInv, InAll
    PROVE  /\ Here \in 1..17
           /\ \/ Stage = "run" /\ Op \in RunPasses /\ Here \notin {9, 10}
              \/ Stage \in Suites /\ Here = SuiteNum(Stage)
           /\ Op = "emit" => Here = 1
           /\ Op = "bindings" => Here = 2
           /\ Op = "services" => Here = 3
           /\ Op = "scaffold" => Here = 4
           /\ Op = "post_build" => Here = 5
           /\ Op = "stubs" => Here = 6
           /\ Op = "public_api" => Here = 7
           /\ Op = "readme" => Here = 8
           /\ Op = "docs" => Here = 11
           /\ Op = "pages" => Here = 12
           /\ Op = "cleanup" => Here = 13
           /\ Op = "sweep" => Here = 14
           /\ Op = "format" => Here = 15
           /\ Op = "finalize" => Here = 16
           /\ Op = "done" => Here = 17
<1>1. /\ Head(todo) = <<Op, Stage>> /\ Head(todo) \in AllSteps
  BY HeadIsStep DEF InAll, LegalSteps
<1>2. Here = Num(<<Op, Stage>>)
  BY <1>1 DEF Here
<1>3. CASE Stage \in Suites
  <2>1. Op \notin RunPasses
    BY <1>1, <1>3 DEF AllSteps, Suites, RunPasses
  <2>2. Here = SuiteNum(Stage) /\ Here \in {9, 10}
    BY <1>2, <1>3, Places DEF Suites, SuiteNum
  <2> QED
    BY <1>3, <2>1, <2>2 DEF RunPasses
<1>4. CASE Stage \notin Suites
  <2>1. Stage = "run" /\ Op \in RunPasses
    BY <1>1, <1>4 DEF AllSteps
  <2>2. Here = Num(<<Op, "run">>)
    BY <1>2, <2>1
  <2>3. Num(<<Op, "run">>) \in (1..17) \ {9, 10}
    <3>1. CASE Op = "done"
      BY <3>1, Places
    <3>2. CASE Op # "done"
      BY <2>1, <3>2, NextPlace
    <3> QED
      BY <3>1, <3>2
  <2> QED
    BY <2>1, <2>2, <2>3, Places
<1> QED
  BY <1>3, <1>4

\* A pass leads to the next one; a suite is over when it is up to date or listed.
LEMMA HereStep ==
    ASSUME TypeInv, Pass, InAll
    PROVE  /\ InAll' /\ run' = run /\ run.langs = Langs /\ Here \in 1..16 /\ Here' \in 1..17
           /\ Stage = "run" => Here' = Here + 1 /\ Here \notin {9, 10}
           /\ Stage # "run" =>
                 /\ Stage \in Suites /\ Here = SuiteNum(Stage)
                 /\ Here' = IF Op = "list" \/ (Op = "check" /\ StageHit(Stage)) THEN Here + 1
                            ELSE Here
<1>1. run # None /\ Moves /\ Op # "done" /\ run' = run
  BY PassMoves DEF Moves
<1>2. /\ InAll' /\ todo # <<>> /\ run.langs = Langs /\ Head(todo') = <<Op, Stage>>'
      /\ Head(todo) = <<Op, Stage>> /\ run.command = "all"
  BY <1>1, NextPass, HeadIsStep DEF InAll
<1>3. Here \in 1..17
  BY <1>2, HereNow
<1>4. CASE Stage = "run"
  <2>1. Op \in RunPasses \ {"done"} /\ Head(todo') = AfterPass(Op)
    BY <1>4, NextPass DEF Suites
  <2>2. Here = Num(<<Op, "run">>) /\ Here' = Num(AfterPass(Op))
    BY <1>2, <1>4, <2>1 DEF Here
  <2>3. Here \in (1..16) \ {9, 10} /\ Here' = Here + 1
    BY <2>1, <2>2, NextPlace
  <2>4. Here \in 1..16 /\ Here' \in 1..17 /\ Here \notin {9, 10}
    BY <2>3
  <2> QED
    BY <1>1, <1>2, <1>4, <2>3, <2>4
<1>5. CASE Stage # "run"
  <2>1. /\ Stage \in Suites /\ Op \in {"check", "write", "restyle", "sweep_suite", "hash", "list"}
        /\ \/ Head(todo') = AfterOp("all", Op, Stage)
           \/ Op = "check" /\ Head(todo') = <<"write", Stage>>
    BY <1>5, NextPass
  <2>2. Here = SuiteNum(Stage) /\ Here' = Num(Head(todo'))
    BY <1>2, <1>5, HereNow DEF Here
  <2>3. /\ Num(<<"write", Stage>>) = SuiteNum(Stage) /\ Num(<<"restyle", Stage>>) = SuiteNum(Stage)
        /\ Num(<<"sweep_suite", Stage>>) = SuiteNum(Stage) /\ Num(<<"hash", Stage>>) = SuiteNum(Stage)
        /\ Num(<<"list", Stage>>) = SuiteNum(Stage)
        /\ Num(AfterStage("all", Stage)) = SuiteNum(Stage) + 1 /\ SuiteNum(Stage) \in {9, 10}
    BY <2>1, Places DEF SuiteNum, Suites, AfterStage
  <2>4. CASE Op \in {"write", "restyle", "sweep_suite", "hash", "list"}
    <3>1. Head(todo') = AfterOp("all", Op, Stage)
      BY <2>1, <2>4
    <3>2. AfterOp("all", Op, Stage) =
             CASE Op = "write"       -> <<"restyle", Stage>>
               [] Op = "restyle"     -> <<"sweep_suite", Stage>>
               [] Op = "sweep_suite" -> <<"hash", Stage>>
               [] Op = "hash"        -> <<"list", Stage>>
               [] OTHER              -> AfterStage("all", Stage)
      BY <2>4 DEF AfterOp
    <3>3. Here' = IF Op = "list" THEN SuiteNum(Stage) + 1 ELSE SuiteNum(Stage)
      BY <2>2, <2>3, <2>4, <3>1, <3>2
    <3>4. Here' \in 1..17 /\ Here \in 1..16 /\ (Here' = IF Op = "list" THEN Here + 1 ELSE Here)
      BY <2>2, <2>3, <3>3
    <3> QED
      BY <1>1, <1>2, <1>5, <2>1, <2>2, <2>4, <3>4
  <2>5. CASE Op = "check" /\ StageHit(Stage)
    <3>1. Proceed
      BY <2>5 DEF StageHit
    <3>2. Head(todo') = AfterOp("all", Op, Stage)
      BY <1>1, <1>2, <1>5, <3>1, Onward DEF After
    <3>3. Here' = SuiteNum(Stage) + 1
      BY <2>2, <2>3, <2>5, <3>2 DEF AfterOp
    <3>4. Here' \in 1..17 /\ Here \in 1..16 /\ Here' = Here + 1
      BY <2>2, <2>3, <3>3
    <3> QED
      BY <1>1, <1>2, <1>5, <2>1, <2>2, <2>5, <3>4
  <2>6. CASE Op = "check" /\ ~StageHit(Stage)
    <3>1. StageMiss(Stage)
      BY <2>6, StageActs
    <3>2. Head(todo') = <<"write", Stage>>
      BY <1>1, <2>1, <3>1, Splice DEF Stages
    <3>3. Here' = SuiteNum(Stage)
      BY <2>2, <2>3, <3>2
    <3>4. Here' \in 1..17 /\ Here \in 1..16 /\ Here' = Here
      BY <2>2, <2>3, <3>3
    <3> QED
      BY <1>1, <1>2, <1>5, <2>1, <2>2, <2>6, <3>4
  <2> QED
    BY <2>1, <2>4, <2>5, <2>6
<1> QED
  BY <1>4, <1>5

\* What the next pass adds to the keep set.
LEMMA KeepStep ==
    ASSUME TypeInv, Pass, InAll
    PROVE  /\ keep \subseteq keep'
           /\ Stage = "run" => keep' \subseteq keep \cup OthersOf(Surface) \cup Under({DocsDir})
           /\ Stage # "run" /\ Op \notin {"check", "list"} => keep' = keep
           /\ Stage # "run" /\ Op = "check" =>
                 keep' = IF StageHit(Stage) THEN keep \cup ReadStagePaths(Stage) ELSE keep
           /\ Stage # "run" /\ Op = "list" => keep' = keep \cup Emitted(Stage, Langs)
<1>1. run # None /\ run.command = "all" /\ run.langs = Langs
  BY DEF InAll, TypeInv, TodoInv
<1>2. "run" \notin Stages
  BY DEF Stages, Suites
<1>3. /\ LangFiles(results) \subseteq OthersOf(Surface)
      /\ \A k \in AuxKinds : AuxOf(k) \subseteq OthersOf(Surface)
      /\ \A k \in {"scaffold", "readme", "docs"} : Emitted(k, Langs) \subseteq OthersOf(Surface)
  <2>1. results \subseteq Langs
    BY DEF TypeInv, TypeOK
  <2>2. \A k \in {"scaffold", "readme", "docs"} : k \in Stages \ Suites
    BY DEF Stages, Suites
  <2> QED
    BY <2>1, <2>2 DEF LangFiles, AuxOf, Emitted, StageOutput, OthersOf
<1>4. CASE GoOn
  <2>1. keep' = keep
    BY <1>4 DEF GoOn, locals
  <2>2. Op \notin {"check", "list"}
    BY <1>4 DEF GoOn, Ignored
  <2> QED
    BY <2>1, <2>2
<1>5. CASE RunPass
  <2> USE DEF At, Stage, Op
  <2>1. CASE Emit
    BY <2>1 DEF Emit
  <2>2. CASE WriteBindings
    BY <1>3, <2>2 DEF WriteBindings
  <2>3. CASE WriteServices
    BY <1>3, <2>3 DEF WriteServices, AuxKinds
  <2>4. ASSUME NEW k \in {"stubs", "public_api"}, WriteAux(k)
        PROVE  Stage = "run" /\ keep' = keep \cup AuxOf(k)
    BY <2>4 DEF WriteAux
  <2>5. ASSUME NEW k \in {"scaffold", "readme", "docs"}, WritePages(k)
        PROVE  Stage = "run" /\ keep' = keep \cup Emitted(k, Langs)
    BY <2>5 DEF WritePages
  <2>6. CASE KeepPages
    BY <2>6 DEF KeepPages
  <2>7. ASSUME NEW k \in {"post_build", "cleanup", "sweep", "format", "finalize"}, TreePass(k)
        PROVE  Stage = "run" /\ keep' = keep
    BY <2>7 DEF TreePass, locals
  <2> HIDE DEF At, Stage, Op
  <2> QED
    BY <1>3, <1>5, <2>1, <2>2, <2>3, <2>4, <2>5, <2>6, <2>7 DEF RunPass, AuxKinds
<1>6. CASE StagePass
  <2> USE DEF At, Stage, Op
  <2>1. ASSUME NEW st \in Stages, StageHit(st)
        PROVE  Op = "check" /\ Stage = st /\ keep' = keep \cup ReadStagePaths(st)
    BY <1>1, <2>1 DEF StageHit
  <2>2. ASSUME NEW st \in Stages, StageMiss(st)
        PROVE  Op = "check" /\ Stage = st /\ keep' = keep /\ ~StageHit(st)
    BY <2>2 DEF StageMiss, StageHit, locals
  <2>3. ASSUME NEW st \in Stages, NEW op \in {"write", "restyle", "stamp", "sweep_suite"},
               StageTreePass(op, st)
        PROVE  Op = op /\ Stage = st /\ keep' = keep
    BY <2>3 DEF StageTreePass, locals
  <2>4. ASSUME NEW st \in Stages, WriteStageHash(st)
        PROVE  Op = "hash" /\ Stage = st /\ keep' = keep
    BY <2>4 DEF WriteStageHash, locals
  <2>5. ASSUME NEW st \in Stages, WriteStageList(st)
        PROVE  Op = "list" /\ Stage = st /\ keep' = keep \cup Emitted(st, Langs)
    BY <1>1, <2>5 DEF WriteStageList
  <2> HIDE DEF At, Stage, Op
  <2>6. PICK st \in Stages :
           \/ StageHit(st) \/ StageMiss(st)
           \/ \E op \in {"write", "restyle", "stamp", "sweep_suite"} : StageTreePass(op, st)
           \/ WriteStageHash(st) \/ WriteStageList(st)
    BY <1>6 DEF StagePass
  <2>7. Stage = st /\ Stage # "run"
    BY <1>2, <2>1, <2>2, <2>3, <2>4, <2>5, <2>6
  <2>8. CASE StageHit(st)
    BY <2>1, <2>7, <2>8
  <2>9. CASE StageMiss(st)
    BY <2>2, <2>7, <2>9
  <2>10. CASE \E op \in {"write", "restyle", "stamp", "sweep_suite"} : StageTreePass(op, st)
    BY <2>3, <2>7, <2>10
  <2>11. CASE WriteStageHash(st)
    BY <2>4, <2>7, <2>11
  <2>12. CASE WriteStageList(st)
    BY <2>5, <2>7, <2>12
  <2> QED
    BY <2>6, <2>8, <2>9, <2>10, <2>11, <2>12
<1> QED
  BY <1>4, <1>5, <1>6 DEF Pass

\* What the next pass writes.
LEMMA PutsWhere ==
    ASSUME TypeInv, run # None
    PROVE  /\ Op # "write" => Puts \subseteq OthersOf(Surface) /\ PutBody = RunBody
           /\ Op = "write" => Puts = Emitted(Stage, run.langs) /\ PutBody = StageBody(Stage)
           /\ Op = "write" /\ Stage \notin Suites => Puts \subseteq OthersOf(Surface)
<1>1. results \subseteq Langs /\ run \in Runs /\ run.langs \subseteq Langs
  BY HeadIsStep DEF TypeInv, TypeOK, Runs
<1>2. /\ LangFiles(results) \subseteq OthersOf(Surface)
      /\ \A k \in AuxKinds : AuxOf(k) \subseteq OthersOf(Surface)
      /\ \A k \in Stages \ Suites, L \in SUBSET Langs : Emitted(k, L) \subseteq OthersOf(Surface)
  BY <1>1 DEF LangFiles, AuxOf, Emitted, StageOutput, OthersOf
<1>3. \A k \in {"scaffold", "readme", "docs"} : k \in Stages \ Suites
  BY DEF Stages, Suites
<1>4. Op = "write" => Stage \in Stages
  BY HeadIsStep DEF RunPasses
<1>5. Op # "write" => Puts \subseteq OthersOf(Surface)
  BY <1>1, <1>2, <1>3 DEF Puts, AuxKinds
<1>6. Op = "write" => Puts = Emitted(Stage, run.langs)
  BY DEF Puts
<1> QED
  BY <1>1, <1>2, <1>4, <1>5, <1>6 DEF PutBody

-----------------------------------------------------------------------------
(* Suites that are skipped.                                                *)

\* A suite that has a record has a list, which names what its key emits.
LEMMA ListedSuite ==
    ASSUME TypeInv, SuitesApart, ListInv, NEW st \in Suites,
           stageHash[st] # None, ~InOps(st, {"list"})
    PROVE  /\ ReadStagePaths(st) = SuiteFiles(st, stageHash[st].api)
           /\ stageList[st] # None /\ stageList[st] = ReadStagePaths(st)
           /\ stageHash[st].api \in Apis
           /\ ReadStagePaths(st) \subseteq Under({SuiteDir[st]})
<1>1. st \in Stages
  BY DEF Stages
<1>2. stageHash[st] \in StageKeys
  BY <1>1 DEF TypeInv, TypeOK
<1>3. stageHash[st].api \in Apis
  BY <1>2 DEF StageKeys
<1>4. SuiteFiles(st, stageHash[st].api) \subseteq Paths
  BY <1>1, <1>3, EmittedTypes DEF TypeInv
<1>5. stageList[st] = SuiteFiles(st, stageHash[st].api)
  BY DEF ListInv
<1>6. stageList[st] # None
  BY <1>4, <1>5, NoneAssumption
<1> QED
  BY <1>3, <1>5, <1>6 DEF ReadStagePaths, SuitesApart

\* What a pass leaves of the records, and adds to the keep set, of a suite that
\* it is not an operation of.
LEMMA OtherSuite ==
    ASSUME TypeInv, SuitesApart, ListInv, Undivided, Pass, InAll, NEW st \in Suites, Stage # st
    PROVE  /\ keep' \cap Under({SuiteDir[st]}) = keep \cap Under({SuiteDir[st]})
           /\ stageHash'[st] = stageHash[st] /\ stageList'[st] = stageList[st]
           /\ Here' > SuiteNum(st) <=> Here > SuiteNum(st)
<1>1. st \in Stages /\ Stage \in Stages \cup {"run"} /\ "run" \notin Stages
  BY HereStep DEF Stages, Suites
<1>2. stageHash'[st] = stageHash[st]
  <2>1. Op = "hash" => stageHash' = [stageHash EXCEPT ![Stage] = StageKey(Stage)]
    BY StageActs DEF WriteStageHash
  <2> QED
    BY <1>1, <2>1, StageActs DEF TypeInv, TypeOK
<1>3. stageList'[st] = stageList[st]
  <2>1. Op = "list" => stageList' = [stageList EXCEPT ![Stage] = Emitted(Stage, run.langs)]
    BY StageActs DEF WriteStageList
  <2> QED
    BY <1>1, <2>1, StageActs DEF TypeInv, TypeOK
<1>4. Here' > SuiteNum(st) <=> Here > SuiteNum(st)
  <2>1. CASE Stage = "run"
    <3>1. Here' = Here + 1 /\ Here \in 1..16 /\ Here # 9 /\ Here # 10
      BY <2>1, HereStep
    <3>2. SuiteNum(st) \in {9, 10}
      BY DEF SuiteNum
    <3> QED
      BY <3>1, <3>2
  <2>2. CASE Stage # "run"
    <3>1. Stage \in Suites /\ Here = SuiteNum(Stage) /\ (Here' = Here \/ Here' = Here + 1)
      BY <2>2, HereStep
    <3>2. \/ st = "e2e" /\ SuiteNum(st) = 9 /\ Here = 10
          \/ st = "test-apps" /\ SuiteNum(st) = 10 /\ Here = 9
      BY <3>1 DEF Suites, SuiteNum
    <3> QED
      BY <3>1, <3>2
  <2> QED
    BY <2>1, <2>2
<1>5. keep' \cap Under({SuiteDir[st]}) = keep \cap Under({SuiteDir[st]})
  <2>1. Surface \in Apis
    BY InputTypes DEF TypeInv
  <2>2. CASE Stage = "run"
    <3>1. keep \subseteq keep' /\ keep' \subseteq keep \cup OthersOf(Surface) \cup Under({DocsDir})
      BY <2>2, KeepStep
    <3>2. /\ OthersOf(Surface) \cap Under({SuiteDir[st]}) = {}
          /\ Under({DocsDir}) \cap Under({SuiteDir[st]}) = {}
      BY <2>1 DEF SuitesApart
    <3> QED
      BY <3>1, <3>2
  <2>3. CASE Stage # "run"
    <3>1. Stage \in Suites
      BY <2>3, HereStep
    <3>2. Under({SuiteDir[Stage]}) \cap Under({SuiteDir[st]}) = {}
      <4>1. Under({SuiteDir["e2e"]}) \cap Under({SuiteDir["test-apps"]}) = {}
        BY DEF SuitesApart
      <4>2. \/ Stage = "e2e" /\ st = "test-apps"
            \/ Stage = "test-apps" /\ st = "e2e"
        BY <3>1 DEF Suites
      <4> QED
        BY <4>1, <4>2
    <3>3. Emitted(Stage, Langs) \subseteq Under({SuiteDir[Stage]})
      BY <2>1, <3>1, WholeSuite
    <3>4. Op = "check" /\ StageHit(Stage) => ReadStagePaths(Stage) \subseteq Under({SuiteDir[Stage]})
      <4> SUFFICES ASSUME Op = "check", StageHit(Stage)
                   PROVE  ReadStagePaths(Stage) \subseteq Under({SuiteDir[Stage]})
        OBVIOUS
      <4>1. stageHash[Stage] # None
        BY <3>1, WholeSuite DEF StageHit, StageCached
      <4> QED
        BY <3>1, <4>1, ListedSuite DEF InOps
    <3> QED
      BY <2>3, <3>2, <3>3, <3>4, KeepStep
  <2> QED
    BY <2>2, <2>3
<1> QED
  BY <1>2, <1>3, <1>4, <1>5

\* And of one whose operation it is.
LEMMA KeptStep ==
    ASSUME TypeInv, SuitesApart, ListInv, KeptInv, Undivided, [Next]_vars
    PROVE  KeptInv'
<1> SUFFICES ASSUME InAll', NEW st \in Suites
             PROVE  /\ (Here > SuiteNum(st) =>
                          stageHash[st] = StageKey(st) /\ stageList[st] \subseteq keep)'
                    /\ (keep \cap Under({SuiteDir[st]}) \subseteq
                          (IF Here > SuiteNum(st) THEN ReadStagePaths(st) ELSE {}))'
  BY DEF KeptInv
<1>1. CASE UNCHANGED vars
  BY <1>1 DEF KeptInv, vars, inputs, records, locals, InAll, Here, StageKey, Surface, ReadStagePaths
<1>2. CASE StartAll /\ Here' = 1 /\ keep' = {}
  BY <1>2 DEF SuiteNum
<1>3. CASE InAll /\ Pass
  <2>1. /\ StageKey(st)' = StageKey(st) /\ run.langs = Langs /\ st \in Stages
        /\ SuiteNum(st) \in {9, 10}
    BY <1>3, PassMoves DEF StageKey, Surface, inputs, InAll, TypeInv, TodoInv, SuiteNum, Stages
  <2>2. /\ Here > SuiteNum(st) => stageHash[st] = StageKey(st) /\ stageList[st] \subseteq keep
        /\ keep \cap Under({SuiteDir[st]}) \subseteq
              (IF Here > SuiteNum(st) THEN ReadStagePaths(st) ELSE {})
    BY <1>3 DEF KeptInv
  <2>3. CASE Stage # st
    <3>1. /\ keep' \cap Under({SuiteDir[st]}) = keep \cap Under({SuiteDir[st]})
          /\ stageHash'[st] = stageHash[st] /\ stageList'[st] = stageList[st]
          /\ Here' > SuiteNum(st) <=> Here > SuiteNum(st)
          /\ keep \subseteq keep'
      BY <1>3, <2>3, OtherSuite, KeepStep
    <3> QED
      BY <2>1, <2>2, <3>1 DEF ReadStagePaths
  <2>4. CASE Stage = st
    <3>1. Stage # "run" /\ Here = SuiteNum(st) /\ keep \cap Under({SuiteDir[st]}) = {}
      BY <1>3, <2>2, <2>4, HereStep DEF Suites
    <3>2. CASE Op = "list"
      <4>1. /\ keep' = keep \cup SuiteFiles(st, Surface)
            /\ stageHash' = stageHash
            /\ stageList' = [stageList EXCEPT ![st] = SuiteFiles(st, Surface)]
        BY <1>3, <2>1, <2>4, <3>1, <3>2, KeepStep, StageActs, WholeSuite DEF WriteStageList
      <4>2. stageHash[st] = StageKey(st)
        BY <1>3, <2>4, <3>2, PassMoves, HeadIsStep DEF ListInv, InOps
      <4>3. stageList'[st] = SuiteFiles(st, Surface) /\ SuiteFiles(st, Surface) \subseteq Paths
        BY <2>1, <4>1, EmittedTypes, InputTypes DEF TypeInv, TypeOK
      <4>4. stageList'[st] # None
        BY <4>3, NoneAssumption
      <4>5. Here' > SuiteNum(st)
        BY <1>3, <2>1, <2>4, <3>1, <3>2, HereStep
      <4> QED
        BY <2>1, <3>1, <4>1, <4>2, <4>3, <4>4, <4>5 DEF ReadStagePaths
    <3>3. CASE Op = "check" /\ StageHit(st)
      <4>1. stageHash[st] = StageKey(st) /\ stageHash[st] # None /\ ~InOps(st, {"list"})
        BY <3>3, WholeSuite DEF StageHit, StageCached, InOps
      <4>2. stageList[st] = ReadStagePaths(st)
        BY <4>1, ListedSuite
      <4>3. /\ keep' = keep \cup ReadStagePaths(st)
            /\ stageHash' = stageHash /\ stageList' = stageList
        BY <1>3, <2>4, <3>1, <3>3, KeepStep, StageActs
      <4>4. Here' > SuiteNum(st)
        BY <1>3, <2>1, <2>4, <3>1, <3>3, HereStep
      <4> QED
        BY <2>1, <3>1, <4>1, <4>2, <4>3, <4>4 DEF ReadStagePaths
    <3>4. CASE ~(Op = "list") /\ ~(Op = "check" /\ StageHit(st))
      <4>1. ~(Here' > SuiteNum(st)) /\ keep' = keep
        BY <1>3, <2>1, <2>4, <3>1, <3>4, HereStep, KeepStep
      <4> QED
        BY <3>1, <4>1
    <3> QED
      BY <3>2, <3>3, <3>4
  <2> QED
    BY <2>3, <2>4
<1> QED
  BY <1>1, <1>2, <1>3, AllStep

\* A suite that `alef all` skips as up to date outlives its orphan removal: the
\* recorded list stands in for the files that were not written this time
\* (cache.rs:258-260), so long as the record was left by a complete run.
THEOREM SkippedSuitesSurvive == Undivided /\ SuitesApart /\ Spec => SuitesSurvive
<1> SUFFICES ASSUME Undivided, SuitesApart PROVE Spec => SuitesSurvive
  OBVIOUS
<1> DEFINE J == TypeInv /\ ListInv /\ KeptInv
<1>1. Init => J
  BY InitTypes DEF Init, ListInv, KeptInv, InAll, InOps, NoStageRecords, Stages
<1>2. J /\ [Next]_vars => J'
  BY NextTypes, ListStep, KeptStep
<1>3. J /\ [Next]_vars =>
        [InAll /\ Op \in {"cleanup", "sweep"} =>
            \A st \in Suites : \A p \in StageOutput(st, Langs) :
                Exists(disk[p]) => Exists(disk'[p])]_vars
  <2> SUFFICES ASSUME J, Next, InAll, Op \in {"cleanup", "sweep"}, NEW st \in Suites,
                      NEW p \in StageOutput(st, Langs), Exists(disk[p])
               PROVE  Exists(disk'[p])
    BY DEF vars
  <2>1. run # None /\ run.langs = Langs /\ p \in SuiteFiles(st, Surface)
    BY WholeSuite DEF InAll, TypeInv, TodoInv
  <2>2. p \in Paths
    BY <2>1, EmittedTypes, InputTypes DEF TypeInv, Stages
  <2>3. disk'[p] = disk[p] \/ disk'[p] = Effect[p]
    BY <2>1, <2>2, RunStep, PassMoves DEF Partly, vars
  <2>4. Here > SuiteNum(st)
    BY HereNow DEF SuiteNum
  <2>5. stageHash[st] = StageKey(st) /\ stageList[st] \subseteq keep
    BY <2>4 DEF KeptInv
  <2>6. stageHash[st] # None /\ stageHash[st].api = Surface /\ ~InOps(st, {"list"})
    BY <2>5, WholeSuite DEF InOps
  <2>7. p \in keep
    BY <2>1, <2>5, <2>6, ListedSuite
  <2>8. p \notin Removed
    BY <2>1, <2>7, RemovedWhere
  <2> QED
    BY <2>1, <2>2, <2>3, <2>8, EffectShape DEF Shape, Exists
<1> QED
  BY <1>1, <1>2, <1>3, PTL DEF Spec, SuitesSurvive

-----------------------------------------------------------------------------
(* What is on disk of a suite.                                             *)

\* Between operations nothing changes but by the developer.
LEMMA RestStep ==
    ASSUME TypeInv, Undivided, [Next]_vars, ~Pass, NEW st \in Suites,
           NEW ops, "check" \notin ops
    PROVE  /\ InOps(st, ops)' => InOps(st, ops) /\ UNCHANGED vars
           /\ InOps(st, ops) => UNCHANGED vars
           /\ \/ disk' = disk /\ stageHash' = stageHash /\ stageList' = stageList
              \/ Developer
<1>1. "run" \notin Suites
  BY DEF Suites
<1>2. CASE UNCHANGED vars
  BY <1>2 DEF vars, inputs, records, locals, InOps, Op, Stage
<1>3. CASE Finish
  BY <1>1, <1>3 DEF Finish, Reset, At, InOps, records, Stage
<1>4. CASE run = None
  <2>1. todo = <<>>
    BY <1>4 DEF TypeInv, TodoInv
  <2>2. CASE Developer
    BY <2>1, <2>2 DEF InOps, Developer, EditInputs, DeleteFile, RestoreFile, HandEdit, ClearCache
  <2>3. CASE StartAll
    <3>1. Head(todo') = <<"emit", "run">>
      BY <2>3 DEF StartAll, AllProgram, AllPasses, Suites
    <3> QED
      BY <1>1, <2>1, <2>3, <3>1 DEF StartAll, InOps, Stage, records
  <2>4. ASSUME NEW x \in Stages, StartStage(x)
        PROVE  /\ disk' = disk /\ stageHash' = stageHash /\ stageList' = stageList
               /\ Head(todo') = <<"check", x>>
    BY <2>4 DEF StartStage, records
  <2>5. CASE \E x \in Stages : StartStage(x)
    BY <2>1, <2>4, <2>5 DEF InOps, Op
  <2> QED
    BY <1>2, <1>4, <2>2, <2>3, <2>5, IdleStep
<1> QED
  BY <1>2, <1>3, <1>4, Whole DEF Next, Pass, StartAll, StartStage, Developer, EditInputs,
     DeleteFile, RestoreFile, HandEdit, ClearCache, MayEdit

\* What a developer does to the tree and the records, if nothing is restored.
LEMMA Edited ==
    ASSUME TypeInv, Developer, ~Restores
    PROVE  /\ \/ stageHash' = stageHash /\ stageList' = stageList
              \/ stageHash' = NoStageRecords /\ disk' = disk
           /\ \A p \in Paths : Exists(disk'[p]) =>
                 /\ Exists(disk[p]) /\ disk'[p].stamp = disk[p].stamp
                 /\ ~HandEdits => disk'[p].body = disk[p].body
<1> USE DEF TypeInv, TypeOK, records
<1>1. CASE EditInputs
  BY <1>1 DEF EditInputs
<1>2. CASE DeleteFile
  BY <1>2 DEF DeleteFile, Exists
<1>3. CASE HandEdit
  <2>1. PICK p \in Paths, b \in Bodies :
           HasHash(disk[p]) /\ disk' = [disk EXCEPT ![p].body = b]
    BY <1>3 DEF HandEdit
  <2>2. disk[p] \in TreeFiles
    BY <2>1 DEF HasHash, Exists
  <2>3. [disk[p] EXCEPT !.body = b].stamp = disk[p].stamp
    BY <2>2 DEF TreeFiles
  <2>4. \A q \in Paths : Exists(disk'[q]) => Exists(disk[q]) /\ disk'[q].stamp = disk[q].stamp
    BY <2>1, <2>3 DEF HasHash
  <2> QED
    BY <1>3, <2>4 DEF HandEdit
<1>4. CASE ClearCache
  BY <1>4 DEF ClearCache
<1> QED
  BY <1>1, <1>2, <1>3, <1>4 DEF Developer, RestoreFile

\* What a pass leaves in the record of a suite.
LEMMA RecordStep ==
    ASSUME TypeInv, SuitesApart, Undivided, Pass, NEW st \in Suites
    PROVE  /\ stageHash'[st] = IF InOps(st, {"hash"}) THEN StageBody(st) ELSE stageHash[st]
           /\ stageList'[st] = IF InOps(st, {"list"}) THEN SuiteFiles(st, Surface)
                               ELSE stageList[st]
<1>1. run # None /\ run.langs = Langs /\ st \in Stages /\ todo # <<>>
  BY PassMoves, HeadIsStep, Whole DEF Stages
<1>2. CASE Op = "hash"
  <2>1. stageHash' = [stageHash EXCEPT ![Stage] = StageKey(Stage)] /\ stageList' = stageList
    BY <1>2, StageActs DEF WriteStageHash
  <2> QED
    BY <1>1, <1>2, <2>1, WholeSuite DEF InOps, TypeInv, TypeOK
<1>3. CASE Op = "list"
  <2>1. stageList' = [stageList EXCEPT ![Stage] = Emitted(Stage, run.langs)]
        /\ stageHash' = stageHash
    BY <1>3, StageActs DEF WriteStageList
  <2> QED
    BY <1>1, <1>3, <2>1, WholeSuite DEF InOps, TypeInv, TypeOK
<1>4. CASE Op \notin {"hash", "list"}
  BY <1>4, StageActs DEF InOps
<1> QED
  BY <1>2, <1>3, <1>4

\* Only its own generation writes into the directory of a suite.
LEMMA PutsApart ==
    ASSUME TypeInv, SuitesApart, run # None, run.langs = Langs, NEW st \in Suites,
           ~InOps(st, {"write"}), NEW p \in Under({SuiteDir[st]})
    PROVE  p \notin Puts
<1>1. Surface \in Apis /\ todo # <<>>
  BY InputTypes, HeadIsStep DEF TypeInv
<1>2. CASE Op # "write" \/ Stage \notin Suites
  BY <1>1, <1>2, PutsWhere DEF SuitesApart
<1>3. CASE Op = "write" /\ Stage \in Suites
  <2>1. \/ Stage = "e2e" /\ st = "test-apps"
        \/ Stage = "test-apps" /\ st = "e2e"
    BY <1>1, <1>3 DEF Suites, InOps
  <2>2. Under({SuiteDir["e2e"]}) \cap Under({SuiteDir["test-apps"]}) = {}
    BY DEF SuitesApart
  <2>3. Puts \subseteq Under({SuiteDir[Stage]})
    BY <1>1, <1>3, PutsWhere, WholeSuite
  <2> QED
    BY <2>1, <2>2, <2>3
<1> QED
  BY <1>2, <1>3

\* A suite's files hold what its key stands for.
LEMMA BodyStep ==
    ASSUME TypeInv, SuitesApart, Undivided, ~Restores, ~HandEdits, BodyInv, [Next]_vars
    PROVE  BodyInv'
<1> DEFINE Ops == {"restyle", "stamp", "sweep_suite", "hash"}
           Held(st) == \A p \in SuiteFiles(st, stageHash[st].api) :
                          Exists(disk[p]) => disk[p].body = stageHash[st]
           Fills(st) == \A p \in SuiteFiles(st, Surface) :
                          Exists(disk[p]) => disk[p].body = StageBody(st)
<1> SUFFICES ASSUME NEW st \in Suites
             PROVE  /\ (stageHash[st] # None /\ ~InOps(st, Ops) => Held(st))'
                    /\ (InOps(st, Ops) => Fills(st))'
  BY DEF BodyInv
<1>1. /\ st \in Stages
      /\ \A a \in Apis : SuiteFiles(st, a) \subseteq Paths \cap Under({SuiteDir[st]})
  BY EmittedTypes DEF Stages, TypeInv, SuitesApart
<1>2. /\ stageHash[st] # None /\ ~InOps(st, Ops) => Held(st)
      /\ InOps(st, Ops) => Fills(st)
      /\ Surface \in Apis
      /\ stageHash[st] # None => stageHash[st].api \in Apis
  BY <1>1, InputTypes DEF BodyInv, TypeInv, TypeOK, StageKeys
<1>3. CASE UNCHANGED vars
  BY <1>2, <1>3 DEF vars, inputs, records, locals, InOps, Op, Stage, StageBody, Surface, RunBody,
     Body
<1>4. CASE Pass
  <2>1. run # None /\ run.langs = Langs /\ Partly /\ TypeInv
    BY <1>4, PassMoves, Whole
  <2>2. Surface' = Surface /\ StageBody(st)' = StageBody(st)
    BY <1>4, PassMoves DEF Surface, StageBody, RunBody, Body, inputs
  <2>3. stageHash'[st] = IF InOps(st, {"hash"}) THEN StageBody(st) ELSE stageHash[st]
    BY <1>4, RecordStep
  <2>4. CASE InOps(st, {"write"})
    <3>1. disk' = Effect /\ Op = "write" /\ Stage = st
      BY <1>4, <2>1, <2>4, PassDisk, Whole DEF Pass, InOps
    <3>2. ASSUME NEW p \in SuiteFiles(st, Surface) PROVE disk'[p].body = StageBody(st)
      <4>1. p \in Paths /\ p \in Puts /\ PutBody = StageBody(st)
        BY <1>1, <1>2, <2>1, <3>1, PutsWhere, WholeSuite
      <4>2. ~Spared(p)
        BY <3>1 DEF Spared, Suites
      <4> QED
        BY <2>1, <3>1, <4>1, <4>2, EffectShape DEF Shape
    <3>3. InOps(st, Ops)'
      BY <1>4, <2>4, SuiteSteps DEF InOps
    <3> QED
      BY <2>2, <3>2, <3>3
  <2>5. CASE ~InOps(st, {"write"})
    <3>1. ASSUME NEW p \in Paths \cap Under({SuiteDir[st]}), Exists(disk'[p])
          PROVE  Exists(disk[p]) /\ disk'[p].body = disk[p].body
      <4>1. p \notin Puts
        BY <2>1, <2>5, PutsApart
      <4>2. disk'[p] = disk[p] \/ disk'[p] = Effect[p]
        BY <2>1 DEF Partly
      <4> QED
        BY <2>1, <3>1, <4>1, <4>2, EffectShape DEF Shape, Exists
    <3>2. /\ InOps(st, Ops)' => InOps(st, Ops)
          /\ InOps(st, Ops) => InOps(st, Ops)' \/ InOps(st, {"hash"})
      BY <1>4, <2>5, SuiteSteps DEF InOps
    <3>3. InOps(st, Ops) => Fills(st)'
      BY <1>1, <1>2, <2>2, <3>1
    <3>4. CASE InOps(st, {"hash"})
      <4>1. stageHash'[st] = StageBody(st) /\ StageBody(st).api = Surface
        BY <2>3, <3>4, WholeSuite
      <4>2. InOps(st, Ops)
        BY <3>4 DEF InOps
      <4> QED
        BY <2>2, <3>3, <4>1, <4>2
    <3>5. CASE ~InOps(st, {"hash"})
      BY <1>1, <1>2, <2>3, <3>1, <3>2, <3>3, <3>5
    <3> QED
      BY <3>4, <3>5
  <2> QED
    BY <2>4, <2>5
<1>5. CASE ~Pass /\ ~UNCHANGED vars
  <2>1. /\ ~InOps(st, Ops)' /\ ~InOps(st, Ops)
        /\ \/ disk' = disk /\ stageHash' = stageHash
           \/ Developer
    BY <1>5, RestStep
  <2>2. CASE disk' = disk /\ stageHash' = stageHash
    BY <1>2, <2>1, <2>2
  <2>3. CASE Developer
    <3>1. \A p \in Paths : Exists(disk'[p]) => Exists(disk[p]) /\ disk'[p].body = disk[p].body
      BY <2>3, Edited
    <3>2. stageHash' = stageHash \/ stageHash'[st] = None
      BY <1>1, <2>3, Edited DEF NoStageRecords
    <3> QED
      BY <1>1, <1>2, <2>1, <3>1, <3>2
  <2> QED
    BY <2>1, <2>2, <2>3
<1> QED
  BY <1>3, <1>4, <1>5

\* A suite that counts as up to date is on disk as this run would emit it, for
\* every language (cache.rs:236-252), when no run is stopped halfway and nobody
\* rewrites generated files.
THEOREM CachedSuitesAreCurrent ==
    Undivided /\ SuitesApart /\ ~Restores /\ ~HandEdits /\ Spec => []SuiteRecordsCurrent
<1> SUFFICES ASSUME Undivided, SuitesApart, ~Restores, ~HandEdits
             PROVE  Spec => []SuiteRecordsCurrent
  OBVIOUS
<1> DEFINE J == TypeInv /\ ListInv /\ BodyInv
<1>1. Init => J
  BY InitTypes DEF Init, ListInv, BodyInv, InOps, NoStageRecords, Stages
<1>2. J /\ [Next]_vars => J'
  BY NextTypes, ListStep, BodyStep
<1>3. J => SuiteRecordsCurrent
  <2> SUFFICES ASSUME J, run # None, NEW st \in Suites, UpToDateOf(st),
                      NEW p \in Emitted(st, run.langs)
               PROVE  Exists(disk[p]) /\ disk[p].body = StageBody(st)
    BY DEF SuiteRecordsCurrent, Current
  <2>1. run.langs = Langs
    BY Whole DEF TypeInv, TodoInv, Undivided, InAll
  <2>2. /\ stageHash[st] = StageKey(st) /\ todo # <<>> /\ Op = "check"
        /\ stageList[st] # None => \A q \in stageList[st] : Exists(disk[q])
    BY DEF UpToDateOf, StageCached, At, Op
  <2>3. stageHash[st] # None /\ stageHash[st].api = Surface /\ stageHash[st] = StageBody(st)
    BY <2>2, WholeSuite
  <2>4. p \in SuiteFiles(st, Surface)
    BY <2>1, WholeSuite
  <2>5. ~InOps(st, {"list"}) /\ ~InOps(st, {"restyle", "stamp", "sweep_suite", "hash"})
    BY <2>2 DEF InOps
  <2>6. Exists(disk[p])
    BY <2>2, <2>3, <2>4, <2>5, ListedSuite
  <2> QED
    BY <2>3, <2>4, <2>5, <2>6 DEF BodyInv
<1> QED
  BY <1>1, <1>2, <1>3, PTL DEF Spec

-----------------------------------------------------------------------------
(* What `alef verify` finds.                                               *)

\* Only files with a header carry a hash.
LEMMA MarkedStep == ASSUME TypeInv, ~Restores, MarkedInv, [Next]_vars PROVE MarkedInv'
<1> SUFFICES ASSUME NEW p \in Paths, HasHash(disk'[p]) PROVE p \in Marked
  BY DEF MarkedInv
<1>1. CASE run # None
  <2>1. disk'[p] = disk[p] \/ disk'[p] = Effect[p]
    BY <1>1, RunStep, PassMoves DEF Partly, vars
  <2> QED
    BY <1>1, <2>1, EffectShape DEF Shape, MarkedInv
<1>2. CASE run = None
  <2>1. CASE Developer
    BY <2>1, Edited DEF MarkedInv, HasHash
  <2>2. CASE disk' = disk
    BY <2>2 DEF MarkedInv
  <2> QED
    BY <1>2, <2>1, <2>2, IdleStep DEF StartAll, StartStage, vars
<1> QED
  BY <1>1, <1>2

\* Where a pass leaves a hash that was not there.
LEMMA HashedStep ==
    ASSUME TypeInv, SuitesApart, Undivided, KeptInv, Pass, NEW st \in Suites,
           NEW p \in Under({SuiteDir[st]}), HasHash(disk'[p])
    PROVE  \/ HasHash(disk[p])
           \/ InOps(st, {"stamp"})
           \/ ~InOps(st, StageOps) /\ p \in ReadStagePaths(st)
<1>1. run # None /\ run.langs = Langs /\ p \in Paths /\ todo # <<>> /\ Surface \in Apis
  BY PassMoves, HeadIsStep, Whole, InputTypes DEF Under, TypeInv
<1>2. disk'[p] = disk[p] \/ disk'[p] = Effect[p]
  BY <1>1, PassMoves DEF Partly
<1>3. p \in StampsOf \/ HasHash(disk[p])
  BY <1>1, <1>2, EffectShape DEF Shape
<1>4. CASE Op = "finalize"
  <2>1. InAll
    <3>1. Head(todo) = <<"finalize", Stage>> /\ Head(todo) \in LegalSteps(run.command)
      BY <1>1, <1>4, HeadIsStep
    <3> QED
      BY <1>1, <3>1 DEF LegalSteps, OwnOps, StageOps, InAll
  <2>2. Here = 16
    BY <1>4, <2>1, HereNow
  <2>3. keep \cap Under({SuiteDir[st]}) \subseteq ReadStagePaths(st)
    BY <2>1, <2>2 DEF KeptInv, SuiteNum
  <2> QED
    BY <1>3, <1>4, <2>3 DEF StampsOf, InOps, StageOps
<1>5. CASE Op = "stamp"
  <2>1. Stage \in Stages /\ StampsOf = Emitted(Stage, Langs)
    BY <1>1, <1>5, HeadIsStep DEF StampsOf, RunPasses
  <2>2. CASE Stage \notin Suites
    <3>1. Emitted(Stage, Langs) \subseteq OthersOf(Surface)
      BY <2>1, <2>2 DEF Emitted, StageOutput, OthersOf
    <3> QED
      BY <1>1, <1>3, <2>1, <3>1 DEF SuitesApart
  <2>3. CASE Stage \in Suites /\ Stage # st
    <3>1. \/ Stage = "e2e" /\ st = "test-apps"
          \/ Stage = "test-apps" /\ st = "e2e"
      BY <2>3 DEF Suites
    <3>2. Under({SuiteDir["e2e"]}) \cap Under({SuiteDir["test-apps"]}) = {}
      BY DEF SuitesApart
    <3>3. Emitted(Stage, Langs) \subseteq Under({SuiteDir[Stage]})
      BY <1>1, <2>3, WholeSuite
    <3> QED
      BY <1>3, <2>1, <3>1, <3>2, <3>3
  <2> QED
    BY <1>1, <1>5, <2>2, <2>3 DEF InOps
<1>6. CASE Op \notin {"finalize", "stamp"}
  BY <1>3, <1>6 DEF StampsOf
<1> QED
  BY <1>4, <1>5, <1>6

\* A suite with a record has no orphans.
LEMMA TidyStep ==
    ASSUME TypeInv, SuitesApart, Undivided, ~Restores, KeptInv, TidyInv, [Next]_vars
    PROVE  TidyInv'
<1> DEFINE Ops == {"write", "restyle", "stamp", "sweep_suite", "hash", "list"}
           Last == {"hash", "list"}
<1> SUFFICES ASSUME NEW st \in Suites
             PROVE  /\ (stageHash[st] # None /\ ~InOps(st, Ops) =>
                           Hashed(st) \subseteq ReadStagePaths(st))'
                    /\ (InOps(st, Last) => Hashed(st) \subseteq SuiteFiles(st, Surface))'
  BY DEF TidyInv
<1>1. st \in Stages
  BY DEF Stages
<1>2. /\ stageHash[st] # None /\ ~InOps(st, Ops) => Hashed(st) \subseteq ReadStagePaths(st)
      /\ InOps(st, Last) => Hashed(st) \subseteq SuiteFiles(st, Surface)
  BY DEF TidyInv
<1>3. CASE UNCHANGED vars
  BY <1>2, <1>3 DEF vars, inputs, records, locals, InOps, Op, Stage, Surface, Hashed,
     ReadStagePaths
<1>4. CASE Pass
  <2>1. run # None /\ run.langs = Langs /\ Partly /\ Surface' = Surface /\ todo # <<>>
    BY <1>4, PassMoves, HeadIsStep, Whole DEF Surface, inputs
  <2>2. /\ stageHash'[st] = IF InOps(st, {"hash"}) THEN StageBody(st) ELSE stageHash[st]
        /\ stageList'[st] = IF InOps(st, {"list"}) THEN SuiteFiles(st, Surface)
                            ELSE stageList[st]
    BY <1>4, RecordStep
  <2>3. CASE InOps(st, {"sweep_suite"})
    <3>1. disk' = Effect /\ Op = "sweep_suite" /\ Stage = st
      BY <1>4, <2>1, <2>3, PassDisk, Whole DEF Pass, InOps
    <3>2. Hashed(st)' \subseteq SuiteFiles(st, Surface)
      <4> SUFFICES ASSUME NEW p \in Under({SuiteDir[st]}), HasHash(disk'[p]),
                          Dir[p] \notin SweepSkipped
                   PROVE  p \in SuiteFiles(st, Surface)
        BY DEF Hashed
      <4>1. HasHash(disk[p]) /\ p \in Paths /\ p \notin Removed
        <5>1. p \in Paths
          BY DEF Under
        <5>2. StampsOf = {}
          BY <3>1 DEF StampsOf
        <5> QED
          BY <2>1, <3>1, <5>1, <5>2, EffectShape DEF Shape, HasHash, Exists
      <4>2. Removed = SweepOrphans(disk, SuiteFiles(st, Surface), {SuiteDir[st]})
        BY <2>1, <3>1, WholeSuite DEF Removed, SuiteRoots
      <4> QED
        BY <4>1, <4>2 DEF SweepOrphans, Under
    <3>3. InOps(st, {"hash"})'
      BY <1>4, <2>3, SuiteSteps
    <3> QED
      BY <2>1, <3>2, <3>3 DEF InOps
  <2>4. CASE ~InOps(st, {"sweep_suite"})
    <3>1. InOps(st, Last) => Hashed(st)' \subseteq Hashed(st)
      BY <1>4, HashedStep DEF InOps, Hashed, StageOps
    <3>2. InOps(st, Last)' <=> InOps(st, {"hash"})
      BY <1>4, <2>4, SuiteSteps DEF InOps
    <3>3. CASE InOps(st, {"hash"})
      <4>1. InOps(st, Last) /\ ~InOps(st, {"list"}) /\ InOps(st, Ops)'
        BY <3>2, <3>3 DEF InOps
      <4> QED
        BY <1>2, <2>1, <3>1, <3>2, <3>3, <4>1
    <3>4. CASE InOps(st, {"list"})
      <4>1. InOps(st, Last) /\ ~InOps(st, {"hash"})
        BY <3>4 DEF InOps
      <4>2. ReadStagePaths(st)' = SuiteFiles(st, Surface)
        <5>1. SuiteFiles(st, Surface) # None
          BY <1>1, EmittedTypes, InputTypes, NoneAssumption DEF TypeInv
        <5> QED
          BY <2>2, <3>4, <5>1 DEF ReadStagePaths
      <4> QED
        BY <1>2, <2>1, <3>1, <3>2, <4>1, <4>2
    <3>5. CASE ~InOps(st, Last)
      <4>1. /\ stageHash'[st] = stageHash[st] /\ ReadStagePaths(st)' = ReadStagePaths(st)
            /\ ~InOps(st, Last)'
        BY <2>2, <3>2, <3>5 DEF InOps, ReadStagePaths
      <4>2. InOps(st, Ops) => InOps(st, Ops)'
        BY <1>4, <2>4, <3>5, SuiteSteps DEF InOps
      <4>3. ~InOps(st, Ops) => Hashed(st)' \subseteq Hashed(st) \cup ReadStagePaths(st)
        BY <1>4, HashedStep DEF InOps, Hashed
      <4> QED
        BY <1>2, <4>1, <4>2, <4>3
    <3> QED
      BY <3>3, <3>4, <3>5 DEF InOps
  <2> QED
    BY <2>3, <2>4
<1>5. CASE ~Pass /\ ~UNCHANGED vars
  <2>1. /\ ~InOps(st, Ops)' /\ ~InOps(st, Ops)
        /\ \/ disk' = disk /\ stageHash' = stageHash /\ stageList' = stageList
           \/ Developer
    BY <1>5, RestStep
  <2>2. ~InOps(st, Last)'
    BY <2>1 DEF InOps
  <2>3. CASE disk' = disk /\ stageHash' = stageHash /\ stageList' = stageList
    BY <1>2, <2>1, <2>2, <2>3 DEF Hashed, ReadStagePaths
  <2>4. CASE Developer
    <3>1. Hashed(st)' \subseteq Hashed(st)
      BY <2>4, Edited DEF Hashed, HasHash, Under
    <3>2. (stageHash' = stageHash /\ stageList' = stageList) \/ stageHash'[st] = None
      BY <1>1, <2>4, Edited DEF NoStageRecords
    <3> QED
      BY <1>2, <2>1, <2>2, <3>1, <3>2 DEF ReadStagePaths
  <2> QED
    BY <2>1, <2>3, <2>4
<1> QED
  BY <1>3, <1>4, <1>5

\* Which action each pass is.
LEMMA RunActs ==
    ASSUME TypeInv, Pass, Stage = "run"
    PROVE  /\ Op = "emit" => Emit
           /\ Op = "bindings" => WriteBindings
           /\ Op = "services" => WriteServices
           /\ Op \in {"stubs", "public_api"} => WriteAux(Op)
           /\ Op \in {"scaffold", "readme", "docs"} => WritePages(Op)
           /\ Op \in {"post_build", "finalize"} => disk' = Effect
<1> USE DEF At, Op, Stage
<1>1. CASE GoOn
  BY <1>1 DEF GoOn, Ignored
<1>2. CASE StagePass
  <2>1. "run" \notin Stages
    BY DEF Stages, Suites
  <2>2. \E st \in Stages : Stage = st
    <3>1. ASSUME NEW st \in Stages, StageHit(st) \/ StageMiss(st) PROVE Stage = st
      BY <3>1 DEF StageHit, StageMiss
    <3>2. ASSUME NEW st \in Stages, NEW op \in {"write", "restyle", "stamp", "sweep_suite"},
                 StageTreePass(op, st)
          PROVE  Stage = st
      BY <3>2 DEF StageTreePass
    <3>3. ASSUME NEW st \in Stages, WriteStageHash(st) \/ WriteStageList(st) PROVE Stage = st
      BY <3>3 DEF WriteStageHash, WriteStageList
    <3> HIDE DEF At, Op, Stage
    <3> QED
      BY <1>2, <3>1, <3>2, <3>3 DEF StagePass
  <2> QED
    BY <2>1, <2>2
<1>3. CASE RunPass
  <2>1. CASE Emit
    BY <2>1, QuietEffect DEF Emit
  <2>2. CASE WriteBindings
    BY <2>2 DEF WriteBindings
  <2>3. CASE WriteServices
    BY <2>3 DEF WriteServices
  <2>4. ASSUME NEW k \in {"stubs", "public_api"}, WriteAux(k) PROVE Op = k
    BY <2>4 DEF WriteAux
  <2>5. ASSUME NEW k \in {"scaffold", "readme", "docs"}, WritePages(k) PROVE Op = k
    BY <2>5 DEF WritePages
  <2>6. CASE KeepPages
    BY <2>6 DEF KeepPages
  <2>7. ASSUME NEW k \in {"post_build", "cleanup", "sweep", "format", "finalize"}, TreePass(k)
        PROVE  Op = k /\ disk' = Effect
    BY <2>7 DEF TreePass
  <2>8. CASE \E k \in {"stubs", "public_api"} : WriteAux(k)
    <3> HIDE DEF At, Op, Stage
    <3> QED
      BY <2>4, <2>8
  <2>9. CASE \E k \in {"scaffold", "readme", "docs"} : WritePages(k)
    <3> HIDE DEF At, Op, Stage
    <3> QED
      BY <2>5, <2>9
  <2>10. CASE \E k \in {"post_build", "cleanup", "sweep", "format", "finalize"} : TreePass(k)
    <3> HIDE DEF At, Op, Stage
    <3> QED
      BY <2>7, <2>10
  <2> QED
    BY <1>3, <2>1, <2>2, <2>3, <2>6, <2>8, <2>9, <2>10 DEF RunPass
<1> QED
  BY <1>1, <1>2, <1>3 DEF Pass

\* Which pass each place is.
LEMMA PassAt ==
    ASSUME TypeInv, Pass, InAll
    PROVE  /\ Here \notin {9, 10} => Stage = "run" /\ Here' = Here + 1
           /\ Here \in {9, 10} => Stage \in Suites /\ (Here' = Here \/ Here' = Here + 1)
           /\ Here \in 1..16 /\ Here' \in 1..17
           /\ Here = 1 => Op = "emit"
           /\ Here = 2 => Op = "bindings"
           /\ Here = 3 => Op = "services"
           /\ Here = 4 => Op = "scaffold"
           /\ Here = 6 => Op = "stubs"
           /\ Here = 7 => Op = "public_api"
           /\ Here = 8 => Op = "readme"
           /\ Here = 11 => Op = "docs"
           /\ Here = 13 => Op = "cleanup"
           /\ Here = 16 => Op = "finalize"
<1>1. \A st \in Suites : SuiteNum(st) \in {9, 10}
  BY DEF SuiteNum
<1>2. Here \notin {9, 10} => Stage = "run" /\ Op \in RunPasses
  BY <1>1, HereNow
<1> QED
  BY <1>1, <1>2, HereNow, HereStep DEF RunPasses

\* From the scaffold to the stamps of one run.
LEMMA SweptStep ==
    ASSUME TypeInv, SuitesApart, Undivided, Rooted, Tended, KeptInv, MarkedInv, TidyInv,
           SweptInv, [Next]_vars
    PROVE  SweptInv'
<1> DEFINE Seeded  == Here > 4 => Emitted("scaffold", Langs) \subseteq keep
           Swept   == Here > 13 => \A p \in Scanned : HasHash(disk[p]) => p \in keep
           Settled == Here > 16 => \A p \in keep : HasHash(disk[p]) => disk[p].stamp = InputStamp
<1> SUFFICES ASSUME InAll' PROVE Seeded' /\ Swept' /\ Settled'
  BY DEF SweptInv
<1>1. CASE UNCHANGED vars
  BY <1>1 DEF SweptInv, vars, inputs, records, locals, InAll, Here, Emitted, StageOutput, Surface,
     InputStamp
<1>2. CASE Here' = 1
  BY <1>2
<1>3. CASE InAll /\ Pass
  <2>1. /\ run # None /\ Partly /\ UNCHANGED inputs /\ keep \subseteq keep' /\ run.langs = Langs
        /\ run' = run /\ Scanned \subseteq Paths /\ keep \subseteq Paths
    BY <1>3, PassMoves, KeepStep, TreeAssumed DEF TreeAssumption, Moves, InAll, TypeInv, TypeOK,
       TodoInv
  <2>2. Emitted("scaffold", Langs)' = Emitted("scaffold", Langs) /\ InputStamp' = InputStamp
    BY <2>1 DEF Emitted, StageOutput, Surface, InputStamp, inputs
  <2>3. Seeded /\ Swept /\ Settled
    BY <1>3 DEF SweptInv
  <2>4. ASSUME NEW p \in Paths, HasHash(disk'[p]), Op # "finalize", Op # "stamp"
        PROVE  HasHash(disk[p])
    <3>1. disk'[p] = disk[p] \/ disk'[p] = Effect[p]
      BY <2>1 DEF Partly
    <3>2. StampsOf = {}
      BY <2>4 DEF StampsOf
    <3> QED
      BY <2>1, <2>4, <3>1, <3>2, EffectShape DEF Shape
  <2>5. Seeded'
    <3>1. CASE Here = 4
      BY <1>3, <2>2, <3>1, PassAt, RunActs DEF WritePages
    <3> QED
      BY <1>3, <2>1, <2>2, <2>3, <3>1, PassAt
  <2>6. Swept'
    <3> SUFFICES ASSUME Here' > 13, NEW p \in Scanned, HasHash(disk'[p]) PROVE p \in keep'
      OBVIOUS
    <3>1. p \in Paths
      BY <2>1
    <3>2. CASE Here = 13
      <4>1. Op = "cleanup" /\ Stage = "run" /\ disk' = Effect
        BY <1>3, <2>1, <3>2, PassAt, PassDisk, Whole DEF Pass
      <4>2. HasHash(disk[p]) /\ p \notin Removed
        BY <2>1, <2>4, <3>1, <4>1, EffectShape DEF Shape, HasHash, Exists
      <4>3. CASE Dir[p] \notin CleanupProtected
        <5>1. PICK r \in Paths \ HostPages :
                 /\ \A a \in Apis : \E l \in Langs : r \in StageFiles["scaffold"][l][a]
                 /\ Dir[r] \notin CleanupProtected
                 /\ \A q \in Scanned : Dir[q] \notin CleanupProtected => Dir[r] \in Above[Dir[q]]
          BY DEF Rooted
        <5>2. r \in keep
          <6>1. Surface \in Apis
            BY InputTypes DEF TypeInv
          <6>2. r \in Emitted("scaffold", Langs)
            BY <5>1, <6>1 DEF Emitted, StageOutput
          <6> QED
            BY <2>3, <3>2, <6>2
        <5>3. p \in CleanupVisits(keep)
          BY <3>1, <4>3, <5>1, <5>2 DEF CleanupVisits, TouchedDirs
        <5> QED
          BY <2>1, <4>1, <4>2, <5>3 DEF Removed, CleanupOrphans, AlefOwned
      <4>4. CASE Dir[p] \in CleanupProtected
        <5>1. PICK st \in Suites : p \in Under({SuiteDir[st]}) /\ Dir[p] \notin SweepSkipped
          BY <4>4 DEF Tended
        <5>2. p \in Hashed(st) /\ ~InOps(st, {"write", "restyle", "stamp", "sweep_suite", "hash", "list"})
          BY <4>1, <4>2, <5>1 DEF Hashed, InOps
        <5>3. stageHash[st] # None /\ stageList[st] \subseteq keep
          <6>1. Here > SuiteNum(st)
            BY <3>2 DEF SuiteNum
          <6> QED
            BY <1>3, <6>1, WholeSuite DEF KeptInv
        <5>4. p \in ReadStagePaths(st)
          BY <5>2, <5>3 DEF TidyInv
        <5> QED
          BY <2>1, <5>3, <5>4 DEF ReadStagePaths
      <4> QED
        BY <4>3, <4>4
    <3>3. CASE Here > 13
      <4>1. HasHash(disk[p]) => p \in keep
        BY <2>3, <3>3
      <4>2. Op # "stamp"
        BY <1>3, NextPass DEF RunPasses
      <4>3. Op = "finalize" => HasHash(disk[p]) \/ p \in keep
        <5>1. disk'[p] = disk[p] \/ disk'[p] = Effect[p]
          BY <2>1, <3>1 DEF Partly
        <5> QED
          BY <2>1, <3>1, <5>1, EffectShape DEF Shape, StampsOf
      <4> QED
        BY <2>1, <2>4, <3>1, <4>1, <4>2, <4>3
    <3> QED
      BY <1>3, <3>2, <3>3, PassAt
  <2>7. Settled'
    <3> SUFFICES ASSUME Here' > 16, NEW p \in keep', HasHash(disk'[p])
                 PROVE  disk'[p].stamp = InputStamp'
      OBVIOUS
    <3>1. Here = 16 /\ Op = "finalize" /\ Stage = "run"
      BY <1>3, PassAt
    <3>2. disk' = Effect /\ keep' = keep
      BY <1>3, <3>1, RunActs, StageActs
    <3>3. p \in Paths /\ p \in StampsOf /\ p \in Marked
      <4>1. p \in Paths /\ p \in StampsOf
        BY <2>1, <3>1, <3>2 DEF StampsOf
      <4>2. HasHash(disk[p]) \/ p \in Marked
        BY <2>1, <3>2, <4>1, EffectShape DEF Shape
      <4> QED
        BY <4>1, <4>2 DEF MarkedInv
    <3> QED
      BY <2>1, <2>2, <3>2, <3>3, EffectShape DEF Shape, HasHash, Exists
  <2> QED
    BY <2>5, <2>6, <2>7
<1> QED
  BY <1>1, <1>2, <1>3, AllStep

\* Right after `alef all`, `alef verify` has nothing to report: what carries a
\* hash and was not produced again is gone, and the rest is stamped with the
\* current inputs (all_commands.rs:362-400), whatever was deleted or edited
\* before, so long as no run was stopped halfway or restricted to a language.
THEOREM AllLeavesVerifyClean ==
    Undivided /\ SuitesApart /\ Rooted /\ Tended /\ Headed /\ ~Restores /\ Spec
       => []VerifyCleanAfterAll
<1> SUFFICES ASSUME Undivided, SuitesApart, Rooted, Tended, Headed, ~Restores
             PROVE  Spec => []VerifyCleanAfterAll
  OBVIOUS
<1> DEFINE J == TypeInv /\ ListInv /\ KeptInv /\ MarkedInv /\ TidyInv /\ SweptInv
<1>1. Init => J
  BY InitTypes DEF Init, ListInv, KeptInv, MarkedInv, TidyInv, SweptInv, InAll, InOps,
     NoStageRecords, Stages, Headed
<1>2. J /\ [Next]_vars => J'
  BY NextTypes, ListStep, KeptStep, MarkedStep, TidyStep, SweptStep
<1>3. J => VerifyCleanAfterAll
  <2> SUFFICES ASSUME J, AllIsDone, NEW p \in StaleFiles(disk, SourcesHash[src], cfg) PROVE FALSE
    BY DEF VerifyCleanAfterAll
  <2>1. InAll /\ Op = "done"
    BY DEF AllIsDone, At, Op
  <2>2. Here = 17
    BY <2>1, HereNow
  <2>3. p \in Scanned /\ HasHash(disk[p]) /\ disk[p].stamp # InputStamp
    BY DEF StaleFiles, InputStamp
  <2> QED
    BY <2>1, <2>2, <2>3 DEF SweptInv
<1> QED
  BY <1>1, <1>2, <1>3, PTL DEF Spec

-----------------------------------------------------------------------------
(* What --clean repairs.                                                   *)

\* Which languages are generated is decided once.
LEMMA ResultsStep == ASSUME TypeInv, Pass, Op # "emit" PROVE results' = results
<1> USE DEF At, Op, locals
<1>1. CASE GoOn
  BY <1>1 DEF GoOn
<1>2. CASE RunPass
  BY <1>2 DEF RunPass, Emit, WriteBindings, WriteServices, WriteAux, WritePages, KeepPages, TreePass
<1>3. CASE StagePass
  BY <1>3 DEF StagePass, StageHit, StageMiss, StageTreePass, WriteStageHash, WriteStageList
<1> QED
  BY <1>1, <1>2, <1>3 DEF Pass

\* The files of the tree that are emitted, pass by pass.
LEMMA PlainTypes ==
    ASSUME TypeInv, NEW n
    PROVE  Plain(n) \subseteq OthersOf(Surface) /\ Plain(n) \subseteq Paths
<1>1. /\ "services" \in AuxKinds /\ "stubs" \in AuxKinds /\ "public_api" \in AuxKinds
      /\ \A k \in {"scaffold", "readme", "docs"} : k \in Stages \ Suites
  BY DEF AuxKinds, Stages, Suites
<1>2. /\ LangFiles(Langs) \subseteq OthersOf(Surface)
      /\ \A k \in AuxKinds : AuxOf(k) \subseteq OthersOf(Surface)
      /\ \A k \in Stages \ Suites : Emitted(k, Langs) \subseteq OthersOf(Surface)
  BY DEF LangFiles, AuxOf, Emitted, StageOutput, OthersOf
<1>3. /\ LangFiles(Langs) \subseteq Paths
      /\ \A k \in AuxKinds : AuxOf(k) \subseteq Paths
      /\ \A k \in Stages : Emitted(k, Langs) \subseteq Paths
  BY EmittedTypes DEF TypeInv
<1> QED
  BY <1>1, <1>2, <1>3 DEF Plain

LEMMA PlainStep ==
    ASSUME TypeInv, CleanInv, Pass, InAll, run.clean
    PROVE  /\ Plain(Here)' = Plain(Here')
           /\ \A p \in Plain(Here') :
                 /\ p \in keep'
                 /\ p \in Plain(Here) \/ (p \in Puts /\ disk' = Effect /\ Op # "write")
<1>1. /\ UNCHANGED inputs /\ run' = run /\ keep \subseteq keep' /\ Plain(Here) \subseteq keep
      /\ Here > 1 => results = Langs
  BY PassMoves, KeepStep DEF Moves, CleanInv
<1>2. Plain(Here)' = Plain(Here')
  BY <1>1 DEF Plain, LangFiles, AuxOf, Emitted, StageOutput, Surface, inputs
<1>3. Here \in 1..16 /\ (Here' = Here + 1 \/ (Here' = Here /\ Here \in {9, 10}))
  BY PassAt
<1>4. ASSUME NEW X, Plain(Here') = Plain(Here) \cup X, keep' = keep \cup X, Puts = X,
             disk' = Effect, Op # "write"
      PROVE  \A p \in Plain(Here') :
                 /\ p \in keep'
                 /\ p \in Plain(Here) \/ (p \in Puts /\ disk' = Effect /\ Op # "write")
  BY <1>1, <1>4
<1>5. CASE Here \in {2, 3, 4}
  <2>1. Here' = Here + 1 /\ Stage = "run"
    BY <1>3, <1>5, PassAt
  <2>2. CASE Here = 2
    <3>1. Op = "bindings" /\ WriteBindings
      BY <2>1, <2>2, PassAt, RunActs
    <3>2. Here' = 3 /\ Plain(3) = Plain(2) \cup LangFiles(Langs)
      BY <2>1, <2>2 DEF Plain
    <3>3. keep' = keep \cup LangFiles(Langs) /\ disk' = Effect
      BY <1>1, <2>2, <3>1 DEF WriteBindings
    <3>4. Puts = LangFiles(Langs)
      BY <1>1, <2>2, <3>1 DEF Puts
    <3> QED
      BY <1>2, <1>4, <2>2, <3>1, <3>2, <3>3, <3>4
  <2>3. CASE Here = 3
    <3>1. Op = "services" /\ WriteServices
      BY <2>1, <2>3, PassAt, RunActs
    <3>2. Here' = 4 /\ Plain(4) = Plain(3) \cup AuxOf("services")
      BY <2>1, <2>3 DEF Plain
    <3>3. keep' = keep \cup AuxOf("services") /\ disk' = Effect
      BY <2>3, <3>1 DEF WriteServices
    <3>4. Puts = AuxOf("services")
      BY <2>3, <3>1 DEF Puts
    <3> QED
      BY <1>2, <1>4, <2>3, <3>1, <3>2, <3>3, <3>4
  <2>4. CASE Here = 4
    <3>1. Op = "scaffold" /\ WritePages("scaffold")
      BY <2>1, <2>4, PassAt, RunActs
    <3>2. Here' = 5 /\ Plain(5) = Plain(4) \cup Emitted("scaffold", Langs)
      BY <2>1, <2>4 DEF Plain
    <3>3. keep' = keep \cup Emitted("scaffold", Langs) /\ disk' = Effect
      BY <2>4, <3>1 DEF WritePages
    <3>4. Puts = Emitted("scaffold", Langs)
      BY <2>4, <3>1 DEF Puts
    <3> QED
      BY <1>2, <1>4, <2>4, <3>1, <3>2, <3>3, <3>4
  <2> QED
    BY <1>5, <2>2, <2>3, <2>4
<1>6. CASE Here \in {6, 7, 8, 11}
  <2>1. Here' = Here + 1 /\ Stage = "run"
    BY <1>3, <1>6, PassAt
  <2>2. CASE Here = 6
    <3>1. Op = "stubs" /\ WriteAux("stubs") /\ ~UpToDate(Op)
      BY <2>1, <2>2, PassAt, RunActs DEF UpToDate
    <3>2. Here' = 7 /\ Plain(7) = Plain(6) \cup AuxOf("stubs")
      BY <2>1, <2>2 DEF Plain
    <3>3. keep' = keep \cup AuxOf("stubs") /\ disk' = Effect
      BY <2>2, <3>1 DEF WriteAux
    <3>4. Puts = AuxOf("stubs")
      BY <2>2, <3>1 DEF Puts
    <3> QED
      BY <1>2, <1>4, <2>2, <3>1, <3>2, <3>3, <3>4
  <2>3. CASE Here = 7
    <3>1. Op = "public_api" /\ WriteAux("public_api") /\ ~UpToDate(Op)
      BY <2>1, <2>3, PassAt, RunActs DEF UpToDate
    <3>2. Here' = 8 /\ Plain(8) = Plain(7) \cup AuxOf("public_api")
      BY <2>1, <2>3 DEF Plain
    <3>3. keep' = keep \cup AuxOf("public_api") /\ disk' = Effect
      BY <2>3, <3>1 DEF WriteAux
    <3>4. Puts = AuxOf("public_api")
      BY <2>3, <3>1 DEF Puts
    <3> QED
      BY <1>2, <1>4, <2>3, <3>1, <3>2, <3>3, <3>4
  <2>4. CASE Here = 8
    <3>1. Op = "readme" /\ WritePages("readme")
      BY <2>1, <2>4, PassAt, RunActs
    <3>2. Here' = 9 /\ Plain(9) = Plain(8) \cup Emitted("readme", Langs)
      BY <2>1, <2>4 DEF Plain
    <3>3. keep' = keep \cup Emitted("readme", Langs) /\ disk' = Effect
      BY <2>4, <3>1 DEF WritePages
    <3>4. Puts = Emitted("readme", Langs)
      BY <2>4, <3>1 DEF Puts
    <3> QED
      BY <1>2, <1>4, <2>4, <3>1, <3>2, <3>3, <3>4
  <2>5. CASE Here = 11
    <3>1. Op = "docs" /\ WritePages("docs")
      BY <2>1, <2>5, PassAt, RunActs
    <3>2. Here' = 12 /\ Plain(12) = Plain(11) \cup Emitted("docs", Langs)
      BY <2>1, <2>5 DEF Plain
    <3>3. keep' = keep \cup Emitted("docs", Langs) /\ disk' = Effect
      BY <2>5, <3>1 DEF WritePages
    <3>4. Puts = Emitted("docs", Langs)
      BY <2>5, <3>1 DEF Puts
    <3> QED
      BY <1>2, <1>4, <2>5, <3>1, <3>2, <3>3, <3>4
  <2> QED
    BY <1>6, <2>2, <2>3, <2>4, <2>5
<1>7. CASE Here \notin {2, 3, 4, 6, 7, 8, 11}
  <2>1. \A n \in {1, 5, 9, 10, 12, 13, 14, 15, 16} : Plain(n + 1) = Plain(n)
    BY DEF Plain
  <2>2. CASE Here' = Here
    BY <1>1, <1>2, <2>2
  <2>3. CASE Here' = Here + 1
    <3>1. Here \in {1, 5, 9, 10, 12, 13, 14, 15, 16}
      BY <1>3, <1>7
    <3>2. Plain(Here') = Plain(Here)
      BY <2>1, <2>3, <3>1
    <3> QED
      BY <1>1, <1>2, <3>2
  <2> QED
    BY <1>3, <2>2, <2>3
<1> QED
  BY <1>2, <1>5, <1>6, <1>7

\* What is there, and neither removed nor written, stays.
LEMMA StaysThere ==
    ASSUME TypeInv, Pass, NEW p \in Paths, Exists(disk[p]), p \notin Removed
    PROVE  /\ Exists(disk'[p])
           /\ \/ disk'[p].body = disk[p].body
              \/ p \in Puts /\ disk'[p].body = PutBody
<1>1. run # None /\ (disk'[p] = disk[p] \/ disk'[p] = Effect[p])
  BY PassMoves DEF Partly
<1> QED
  BY <1>1, EffectShape DEF Shape, Exists

LEMMA CleanStep ==
    ASSUME TypeInv, SuitesApart, CleanInv, [Next]_vars
    PROVE  CleanInv'
<1> DEFINE Late  == {"restyle", "sweep_suite", "hash", "list"}
           Kept(st) == Here > SuiteNum(st) => SuiteFiles(st, Surface) \subseteq keep
           Made(st) == Here > SuiteNum(st) \/ InOps(st, Late) =>
                          Holds(SuiteFiles(st, Surface), StageBody(st))
           Settled == Here > 16 => \A p \in keep \cap Marked :
                            Exists(disk[p]) => disk[p].stamp = InputStamp
           All == Here > 1 => results = Langs
           Base == Plain(Here) \subseteq keep /\ Holds(Plain(Here), RunBody)
<1> SUFFICES ASSUME InAll', run'.clean
             PROVE  All' /\ Base' /\ (\A st \in Suites : Kept(st)' /\ Made(st)') /\ Settled'
  BY DEF CleanInv
<1>1. CASE UNCHANGED vars
  <2>1. InAll /\ run.clean
    BY <1>1 DEF vars, InAll
  <2>2. All /\ Base /\ (\A st \in Suites : Kept(st) /\ Made(st)) /\ Settled
    BY <2>1 DEF CleanInv
  <2>3. UNCHANGED <<Here, Surface, RunBody, InputStamp>>
    BY <1>1 DEF vars, inputs, Here, Surface, RunBody, Body, InputStamp
  <2>4. Plain(Here)' = Plain(Here)
    BY <1>1 DEF Plain, LangFiles, AuxOf, Emitted, StageOutput, Surface, vars, inputs, Here
  <2>5. \A st \in Suites : StageBody(st)' = StageBody(st) /\ (InOps(st, Late)' <=> InOps(st, Late))
    BY <1>1 DEF StageBody, RunBody, Body, Surface, InOps, Op, Stage, vars, inputs
  <2> QED
    BY <1>1, <2>2, <2>3, <2>4, <2>5 DEF Holds, vars, locals
<1>2. CASE StartAll /\ Here' = 1 /\ keep' = {} /\ Stage' = "run"
  <2>1. Plain(Here)' = {}
    BY <1>2 DEF Plain
  <2>2. \A st \in Suites : ~InOps(st, Late)' /\ ~(Here' > SuiteNum(st))
    BY <1>2 DEF InOps, Suites, SuiteNum
  <2> QED
    BY <1>2, <2>1, <2>2 DEF Holds
<1>3. CASE InAll /\ Pass
  <2>1. /\ run.clean /\ run' = run /\ UNCHANGED inputs /\ run # None /\ run.langs = Langs
        /\ keep \subseteq keep' /\ Surface \in Apis /\ todo # <<>>
        /\ results \subseteq Langs /\ keep \subseteq Paths
    BY <1>3, PassMoves, KeepStep, InputTypes, NextPass DEF Moves, TypeInv, TypeOK
  <2>2. All /\ Base /\ (\A st \in Suites : Kept(st) /\ Made(st)) /\ Settled
    BY <1>3, <2>1 DEF CleanInv
  <2>3. /\ Surface' = Surface /\ RunBody' = RunBody /\ InputStamp' = InputStamp
        /\ \A st \in Suites : StageBody(st)' = StageBody(st)
    BY <2>1 DEF Surface, RunBody, Body, InputStamp, StageBody, inputs
  <2>4. All'
    <3>1. CASE Here = 1
      <4>1. Emit
        BY <1>3, <3>1, PassAt, RunActs
      <4> QED
        BY <2>1, <4>1 DEF Emit
    <3> QED
      BY <1>3, <2>2, <3>1, PassAt, ResultsStep, HereNow
  <2>5. Base'
    <3>1. /\ Plain(Here)' = Plain(Here') /\ Plain(Here') \subseteq keep'
          /\ \A p \in Plain(Here') :
                p \in Plain(Here) \/ (p \in Puts /\ disk' = Effect /\ Op # "write")
      BY <1>3, <2>1, PlainStep
    <3>2. ASSUME NEW p \in Plain(Here') PROVE Exists(disk'[p]) /\ disk'[p].body = RunBody
      <4>1. p \in Paths /\ p \in OthersOf(Surface)
        BY PlainTypes
      <4>2. CASE p \in Plain(Here)
        <5>1. Exists(disk[p]) /\ disk[p].body = RunBody /\ p \in keep
          BY <2>2, <4>2 DEF Holds
        <5>2. p \notin Removed
          BY <2>1, <4>1, <5>1, RemovedWhere DEF SuitesApart
        <5>3. p \in Puts => PutBody = RunBody
          <6>1. CASE Op = "write"
            <7>1. Stage \in Suites
              BY <1>3, <6>1, NextPass DEF RunPasses
            <7>2. Puts \subseteq Under({SuiteDir[Stage]})
              BY <2>1, <6>1, <7>1, PutsWhere, WholeSuite
            <7> QED
              BY <2>1, <4>1, <7>1, <7>2 DEF SuitesApart
          <6> QED
            BY <2>1, <6>1, PutsWhere
        <5> QED
          BY <1>3, <4>1, <5>1, <5>2, <5>3, StaysThere
      <4>3. CASE p \in Puts /\ disk' = Effect /\ Op # "write"
        <5>1. ~Spared(p)
          BY <2>1, <4>3 DEF Spared
        <5>2. PutBody = RunBody
          BY <2>1, <4>3, PutsWhere
        <5> QED
          BY <2>1, <4>1, <4>3, <5>1, <5>2, EffectShape DEF Shape, Exists
      <4> QED
        BY <3>1, <4>2, <4>3
    <3> QED
      BY <2>3, <3>1, <3>2 DEF Holds
  <2>6. ASSUME NEW st \in Suites PROVE Kept(st)' /\ Made(st)'
    <3>1. Kept(st) /\ Made(st) /\ st \in Stages
      BY <2>2 DEF Stages
    <3>2. SuiteFiles(st, Surface) \subseteq Paths \cap Under({SuiteDir[st]})
      BY <2>1, <3>1, EmittedTypes DEF TypeInv, SuitesApart
    <3>3. Here' > SuiteNum(st) => Here > SuiteNum(st) \/ InOps(st, {"list"})
      <4> SUFFICES ASSUME Here' > SuiteNum(st), ~(Here > SuiteNum(st)) PROVE InOps(st, {"list"})
        OBVIOUS
      <4>1. SuiteNum(st) \in {9, 10} /\ Here = SuiteNum(st) /\ Here' = Here + 1
        BY <1>3, PassAt DEF SuiteNum
      <4>2. Stage \in Suites /\ SuiteNum(Stage) = SuiteNum(st)
        BY <1>3, <4>1, HereStep, PassAt
      <4>3. Stage = st
        BY <4>2 DEF Suites, SuiteNum
      <4>4. ~StageHit(Stage)
        BY <2>1 DEF StageHit, StageCached
      <4>5. Op = "list"
        BY <1>3, <4>1, <4>2, <4>4, HereStep DEF Suites
      <4> QED
        BY <2>1, <4>3, <4>5 DEF InOps
    <3>4. Kept(st)'
      <4>1. InOps(st, {"list"}) => SuiteFiles(st, Surface) \subseteq keep'
        BY <1>3, <2>1, KeepStep, WholeSuite DEF InOps, Suites
      <4> QED
        BY <2>1, <2>3, <3>1, <3>3, <4>1
    <3>5. Here > SuiteNum(st) \/ InOps(st, Late)
             => Holds(SuiteFiles(st, Surface), StageBody(st))'
      <4> SUFFICES ASSUME Here > SuiteNum(st) \/ InOps(st, Late), NEW p \in SuiteFiles(st, Surface)
                   PROVE  Exists(disk'[p]) /\ disk'[p].body = StageBody(st)
        BY <2>3 DEF Holds
      <4>1. Exists(disk[p]) /\ disk[p].body = StageBody(st)
        BY <3>1 DEF Holds
      <4>2. ~InOps(st, {"write"})
        <5> SUFFICES ASSUME InOps(st, {"write"}) PROVE FALSE
          OBVIOUS
        <5>1. Here = SuiteNum(st) /\ SuiteNum(st) \in {9, 10}
          BY <1>3, HereNow DEF InOps, Suites, SuiteNum
        <5> QED
          BY <5>1 DEF InOps
      <4>3. p \notin Puts
        BY <2>1, <3>2, <4>2, PutsApart
      <4>4. p \notin Removed
        <5> SUFFICES ASSUME p \in Removed PROVE FALSE
          OBVIOUS
        <5>1. CASE Op \in {"cleanup", "sweep"}
          <6>1. Here > SuiteNum(st)
            BY <1>3, <5>1, HereNow DEF SuiteNum
          <6> QED
            BY <2>1, <3>1, <5>1, <6>1, RemovedWhere
        <5>2. CASE Op = "sweep_suite"
          <6>1. /\ Stage \in Suites /\ p \in Under({SuiteDir[Stage]})
                /\ p \notin Emitted(Stage, Langs)
            BY <2>1, <5>2, RemovedWhere
          <6>2. \/ Stage = st
                \/ Stage = "e2e" /\ st = "test-apps"
                \/ Stage = "test-apps" /\ st = "e2e"
            BY <6>1 DEF Suites
          <6>3. Under({SuiteDir["e2e"]}) \cap Under({SuiteDir["test-apps"]}) = {}
            BY DEF SuitesApart
          <6> QED
            BY <3>2, <6>1, <6>2, <6>3, WholeSuite
        <5> QED
          BY <2>1, <5>1, <5>2, RemovedWhere
      <4> QED
        BY <1>3, <3>2, <4>1, <4>3, <4>4, StaysThere
    <3>6. InOps(st, {"write"}) => Holds(SuiteFiles(st, Surface), StageBody(st))'
      <4> SUFFICES ASSUME InOps(st, {"write"}), NEW p \in SuiteFiles(st, Surface)
                   PROVE  Exists(disk'[p]) /\ disk'[p].body = StageBody(st)
        BY <2>3 DEF Holds
      <4>1. disk' = Effect /\ Op = "write" /\ Stage = st
        BY <1>3, PassDisk DEF Pass, InOps, GoOn, Ignored
      <4>2. p \in Paths /\ p \in Puts /\ PutBody = StageBody(st)
        BY <2>1, <3>2, <4>1, PutsWhere, WholeSuite
      <4>3. ~Spared(p)
        BY <4>1 DEF Spared, Suites
      <4> QED
        BY <2>1, <4>1, <4>2, <4>3, EffectShape DEF Shape, Exists
    <3>7. InOps(st, Late)' => InOps(st, Late) \/ InOps(st, {"write"})
      <4>1. ~InOps(st, {"stamp"})
        BY <1>3, NextPass DEF InOps, RunPasses
      <4> QED
        BY <1>3, <4>1, SuiteSteps DEF InOps
    <3> QED
      BY <2>3, <3>1, <3>3, <3>4, <3>5, <3>6, <3>7 DEF InOps
  <2>7. Settled'
    <3> SUFFICES ASSUME Here' > 16, NEW p \in keep' \cap Marked, Exists(disk'[p])
                 PROVE  disk'[p].stamp = InputStamp
      BY <2>3
    <3>1. Op = "finalize" /\ Stage = "run"
      BY <1>3, PassAt
    <3>2. disk' = Effect /\ keep' = keep
      BY <1>3, <3>1, RunActs, StageActs
    <3> QED
      BY <2>1, <3>1, <3>2, EffectShape DEF Shape, StampsOf, Exists
  <2> QED
    BY <2>4, <2>5, <2>6, <2>7
<1> QED
  BY <1>1, <1>2, <1>3, AllStep

\* Whatever earlier commands left behind, filtered, killed or edited, an
\* `alef all --clean` that ends has every file of every stage hold what the
\* current inputs emit, under their stamp (all_commands.rs:59-400); also when
\* formatters and removals fail on the way.
THEOREM CleanAllAlwaysRepairs == SuitesApart /\ Spec => []CleanAllRepairs
<1> SUFFICES ASSUME SuitesApart PROVE Spec => []CleanAllRepairs
  OBVIOUS
<1> DEFINE J == TypeInv /\ CleanInv
<1>1. Init => J
  BY InitTypes DEF Init, CleanInv, InAll
<1>2. J /\ [Next]_vars => J'
  BY NextTypes, CleanStep
<1>3. J => CleanAllRepairs
  <2> DEFINE Good(P, b) == \A p \in P : /\ Exists(disk[p]) /\ disk[p].body = b
                                        /\ p \in Marked => disk[p].stamp = InputStamp
  <2> SUFFICES ASSUME J, AllIsDone, run.clean
               PROVE  /\ Good(LangFiles(Langs) \cup UNION {AuxOf(k) : k \in AuxKinds}, RunBody)
                      /\ \A st \in Stages : Good(Emitted(st, Langs), StageBody(st))
    BY DEF CleanAllRepairs
  <2>1. InAll /\ Op = "done"
    BY DEF AllIsDone, At, Op
  <2>2. Here = 17
    BY <2>1, HereNow
  <2>3. /\ Plain(17) \subseteq keep /\ Holds(Plain(17), RunBody)
        /\ \A st \in Suites : Holds(SuiteFiles(st, Surface), StageBody(st))
                              /\ SuiteFiles(st, Surface) \subseteq keep
        /\ \A p \in keep \cap Marked : Exists(disk[p]) => disk[p].stamp = InputStamp
    <3>1. \A st \in Suites : Here > SuiteNum(st)
      BY <2>2 DEF SuiteNum
    <3>2. /\ Plain(Here) \subseteq keep /\ Holds(Plain(Here), RunBody)
          /\ \A st \in Suites : Holds(SuiteFiles(st, Surface), StageBody(st))
                                /\ SuiteFiles(st, Surface) \subseteq keep
      BY <2>1, <3>1 DEF CleanInv
    <3>3. \A p \in keep \cap Marked : Exists(disk[p]) => disk[p].stamp = InputStamp
      BY <2>1, <2>2 DEF CleanInv
    <3> QED
      BY <2>2, <3>2, <3>3
  <2>4. Plain(17) = LangFiles(Langs) \cup AuxOf("services") \cup AuxOf("stubs")
                    \cup AuxOf("public_api") \cup Emitted("scaffold", Langs)
                    \cup Emitted("readme", Langs) \cup Emitted("docs", Langs)
    BY DEF Plain
  <2>5. \A P, b : P \subseteq keep /\ Holds(P, b) => Good(P, b)
    BY <2>3 DEF Holds
  <2>6. Good(LangFiles(Langs) \cup UNION {AuxOf(k) : k \in AuxKinds}, RunBody)
    BY <2>3, <2>4, <2>5 DEF Holds, AuxKinds
  <2>7. ASSUME NEW st \in Stages PROVE Good(Emitted(st, Langs), StageBody(st))
    <3>1. CASE st \in Suites
      BY <2>3, <2>5, <3>1, WholeSuite
    <3>2. CASE st \notin Suites
      BY <2>3, <2>4, <2>5, <3>2 DEF Holds, Stages, StageBody
    <3> QED
      BY <3>1, <3>2
  <2> QED
    BY <2>6, <2>7
<1> QED
  BY <1>1, <1>2, <1>3, PTL DEF Spec

=============================================================================

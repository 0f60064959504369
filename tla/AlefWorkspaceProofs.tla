------------------------ MODULE AlefWorkspaceProofs ------------------------
(***************************************************************************)
(* AlefWorkspace for every number of crates, languages, files and edits:   *)
(* its types, that a binding which verify lets pass is current for its own *)
(* crate, that a crate without a root file in its keep set deletes nothing *)
(* of the others, and what a run over all crates leaves.  All but the      *)
(* first need crates that keep apart, each in the sense it says.           *)
(***************************************************************************)
EXTENDS AlefWorkspace, FiniteSetTheorems, TLAPS

Bindings(c) == UNION {Outputs[l][a] : l \in LangsOf[c], a \in Apis}

\* No other crate emits or scaffolds what a crate emits.
PathsApart ==
    /\ \A c, d \in Crates : c # d => Bindings(c) \cap Bindings(d) = {}
    /\ \A c, d \in Crates : Bindings(c) \cap ScaffoldOf[d] = {}

\* Crates share no sources either, and a hash tells which version of the
\* sources it was computed from.
Apart ==
    /\ \A s, t \in Sources : SourcesHash[s] = SourcesHash[t] => s = t
    /\ \A c, d \in Crates : c # d => SourcesOf[c] \cap SourcesOf[d] = {}
    /\ PathsApart

\* The directories that the deleting passes of c start from, without poly.toml's.
Ground(c) == {Dir[p] : p \in Bindings(c)} \cup SweepRoots(LangsOf[c], FALSE)

\* Beneath them, what carries alef's header is of that crate.
Fenced ==
    \A c \in Crates : \A p \in Marked :
        Above[Dir[p]] \cap Ground(c) # {} => p \in Territory(c)

Sound(c, f) ==
    HasHash(f) =>
        \E s \in SourcesOf[c] : /\ f.stamp.src = SourcesHash[s]
                                /\ f.body = Body(Api[s][f.stamp.cfg], f.stamp.cfg)

\* The tree alef first meets carries no false hash.
TruthfulStart == \A c \in Crates : \A p \in Bindings(c) : Sound(c, InitDisk[p])

\* And none without a header.
Headed == \A p \in Paths \ Marked : ~HasHash(InitDisk[p])

\* What the orphan sweep of c walks.
Covers(c) ==
    {p \in Paths : Above[Dir[p]] \cap SweepRoots(LangsOf[c], FALSE) # {} /\ Dir[p] \notin SweepSkipped}

\* Whatever alef marks and verify reads is walked for some crate.
Tended == \A p \in Scanned \cap Marked : \E c \in Crates : p \in Covers(c)

-----------------------------------------------------------------------------
(* Types.                                                                  *)

\* Sources that were readable when the crate's turn came still are.
Readable == \A c \in Crates : pc \in {"delete", "stamp"} /\ Current(c) => src[c] # Gone

TypeInv == TypeOK /\ Readable

USE DEF AuxKinds

LEMMA CurrentIsOne ==
    ASSUME NEW c \in Crates, NEW d \in Crates, Current(c), Current(d) PROVE c = d
BY WorkspaceAssumption DEF Current

LEMMA SurfaceIsApi ==
    ASSUME TypeOK, NEW c \in Crates, src[c] # Gone
    PROVE  /\ src[c] \in SourcesOf[c] /\ src[c] \in Sources
           /\ Surface(c) \in Apis /\ KeyOf(c) \in Keys /\ StampOf(c) \in Stamps
BY TreeAssumed, WorkspaceAssumption
   DEF TypeOK, TreeAssumption, Surface, KeyOf, Keys, StampOf, Stamp, Stamps

LEMMA OutputsArePaths ==
    ASSUME NEW c \in Crates, NEW L \in SUBSET LangsOf[c], NEW a \in Apis
    PROVE  /\ (UNION {Outputs[l][a] : l \in L}) \subseteq Paths
           /\ (UNION {Outputs[l][a] : l \in L}) \subseteq Bindings(c)
BY TreeAssumed, WorkspaceAssumption DEF TreeAssumption, Bindings

LEMMA WrittenIsFile ==
    ASSUME NEW f \in Files \cup {NoFile}, NEW a \in Apis, NEW k \in Configs
    PROVE  /\ Written(f, Body(a, k)) \in Files \cup {NoFile}
           /\ Exists(Written(f, Body(a, k)))
           /\ Written(f, Body(a, k)).body = Body(a, k)
           /\ HasHash(Written(f, Body(a, k))) => Written(f, Body(a, k)) = f
BY TreeAssumed DEF TreeAssumption, Written, SameBody, Exists, HasHash, Body, Fresh, Files, Bodies

LEMMA StampedIsFile ==
    ASSUME NEW f \in Files \cup {NoFile}, NEW p \in Paths, NEW st \in Stamps
    PROVE  Stamped(f, p, st) \in Files \cup {NoFile}
BY TreeAssumed DEF TreeAssumption, Stamped, Exists, Files

LEMMA InitTyped == Init => TypeInv
BY TreeAssumed, WorkspaceAssumption DEF Init, TypeInv, TypeOK, Readable, TreeAssumption

LEMMA WriteTyped ==
    ASSUME TypeInv, NEW c \in Crates, Write(c) PROVE TypeInv'
<1> DEFINE L == Uncached(c)
           W == UNION {Outputs[l][Surface(c)] : l \in L}
<1>1. /\ Surface(c) \in Apis /\ KeyOf(c) \in Keys /\ cfg \in Configs
  BY SurfaceIsApi DEF TypeInv, TypeOK, Write
<1>2. L \subseteq LangsOf[c]
  BY DEF Uncached
<1>3. W \subseteq Paths
  BY <1>1, <1>2, OutputsArePaths
<1>4. tree' \in [Paths -> Files \cup {NoFile}]
  BY <1>1, WrittenIsFile DEF Write, TypeInv, TypeOK
<1>5. cached' \in [Langs -> Keys \cup {None}]
  BY <1>1 DEF Write, TypeInv, TypeOK
<1>6. keep' \subseteq Paths /\ rooted' \subseteq run.crates
  BY <1>3, TreeAssumed, WorkspaceAssumption DEF Write, TypeInv, TypeOK, TreeAssumption, Current
<1>7. TypeOK'
  BY <1>4, <1>5, <1>6 DEF Write, TypeInv, TypeOK, inputs
<1>8. Readable'
  BY CurrentIsOne DEF Write, Readable, Current, inputs
<1> QED BY <1>7, <1>8 DEF TypeInv

LEMMA DeleteTyped ==
    ASSUME TypeInv, NEW c \in Crates, Delete(c) PROVE TypeInv'
<1>1. tree' \in [Paths -> Files \cup {NoFile}]
  BY DEF Delete, Without, TypeInv, TypeOK
<1> QED BY <1>1 DEF Delete, TypeInv, TypeOK, Readable, Current, inputs

LEMMA StampTyped ==
    ASSUME TypeInv, NEW c \in Crates, StampKept(c) PROVE TypeInv'
<1>1. StampOf(c) \in Stamps
  BY SurfaceIsApi DEF StampKept, TypeInv, Readable
<1>2. tree' \in [Paths -> Files \cup {NoFile}]
  BY <1>1, StampedIsFile DEF StampKept, TypeInv, TypeOK
<1> QED BY <1>2 DEF StampKept, TypeInv, TypeOK, Readable, inputs

LEMMA StepTyped == TypeInv /\ [Next]_vars => TypeInv'
<1> SUFFICES ASSUME TypeInv, [Next]_vars PROVE TypeInv'
  OBVIOUS
<1>0. MaxEdits \in Nat /\ MaxFaults \in Nat
  BY WorkspaceAssumption
<1>1. ASSUME NEW c \in Crates, EditSources(c) PROVE TypeInv'
  BY <1>0, <1>1 DEF EditSources, MayEdit, TypeInv, TypeOK, Readable
<1>2. CASE EditConfig
  BY <1>0, <1>2 DEF EditConfig, MayEdit, TypeInv, TypeOK, Readable
<1>3. CASE DeleteFile
  BY <1>0, <1>3 DEF DeleteFile, MayEdit, Without, inputs, TypeInv, TypeOK, Readable
<1>4. CASE Start
  BY <1>4 DEF Start, TypeInv, TypeOK, Readable, inputs
<1>5. ASSUME NEW c \in Crates, Unreadable(c) PROVE TypeInv'
  BY <1>5 DEF Unreadable, Stop, TypeInv, TypeOK, Readable, inputs
<1>6. CASE Kill
  BY <1>0, <1>6 DEF Kill, Stop, TypeInv, TypeOK, Readable, inputs
<1>7. CASE UNCHANGED vars
  BY <1>7 DEF vars, inputs, TypeInv, TypeOK, Readable, Current
<1> QED
  BY <1>1, <1>2, <1>3, <1>4, <1>5, <1>6, <1>7, WriteTyped, DeleteTyped, StampTyped
  DEF Next, Crate

\* Every variable keeps its type (AlefWorkspace!TypeOK).
THEOREM TypeCorrect == Spec => []TypeOK
<1>1. Spec => []TypeInv
  BY InitTyped, StepTyped, PTL DEF Spec
<1> QED BY <1>1, PTL DEF TypeInv

-----------------------------------------------------------------------------
(* What a stamp tells.                                                     *)

SoundTree == \A c \in Crates : \A p \in Bindings(c) : Sound(c, tree[p])

\* What a crate keeps is scaffolded by it, or a binding it has just written.
KeptAreFresh ==
    \A c \in Crates : pc \in {"delete", "stamp"} /\ Current(c) =>
        \A p \in keep :
            \/ p \in ScaffoldOf[c]
            \/ p \in Bindings(c) /\ (Exists(tree[p]) => tree[p].body = Body(Surface(c), cfg))

SoundInv == SoundTree /\ KeptAreFresh

LEMMA BindingsArePaths == \A c \in Crates : Bindings(c) \subseteq Paths
BY TreeAssumed, WorkspaceAssumption DEF TreeAssumption, Bindings

LEMMA GoneIsSound == ASSUME NEW c \in Crates PROVE Sound(c, NoFile)
BY DEF Sound, HasHash, Exists

LEMMA InitSound == TruthfulStart /\ Init => SoundInv
BY DEF TruthfulStart, Init, SoundInv, SoundTree, KeptAreFresh

LEMMA WriteSound ==
    ASSUME Apart, TypeInv, SoundInv, NEW c \in Crates, Write(c) PROVE SoundInv'
<1> DEFINE L == Uncached(c)
           W == UNION {Outputs[l][Surface(c)] : l \in L}
<1>1. /\ Surface(c) \in Apis /\ cfg \in Configs /\ Surface(c)' = Surface(c)
  BY SurfaceIsApi DEF TypeInv, TypeOK, Write, inputs, Surface
<1>2. L \subseteq LangsOf[c] /\ W \subseteq Bindings(c) /\ W \subseteq Paths
  <2>1. L \subseteq LangsOf[c]
    BY DEF Uncached
  <2> QED BY <2>1, <1>1, OutputsArePaths
<1>3. \A p \in Paths : tree[p] \in Files \cup {NoFile}
  BY DEF TypeInv, TypeOK
<1>4. \A p \in Paths :
         tree'[p] = IF p \in W THEN Written(tree[p], Body(Surface(c), cfg)) ELSE tree[p]
  BY DEF Write
<1>5. \A p \in Paths : HasHash(tree'[p]) => tree'[p] = tree[p]
  BY <1>1, <1>3, <1>4, WrittenIsFile
<1>6. SoundTree'
  BY <1>5, BindingsArePaths DEF SoundInv, SoundTree, Sound
<1>7. \A p \in W : tree'[p].body = Body(Surface(c), cfg)
  BY <1>1, <1>2, <1>3, <1>4, WrittenIsFile
<1>8. keep' \subseteq W \cup ScaffoldOf[c]
  BY DEF Write
<1>9. KeptAreFresh'
  <2> SUFFICES ASSUME NEW d \in Crates, Current(d)', NEW p \in keep'
               PROVE  \/ p \in ScaffoldOf[d]
                      \/ /\ p \in Bindings(d)
                         /\ Exists(tree'[p]) => tree'[p].body = Body(Surface(d), cfg)'
    BY DEF KeptAreFresh, Body
  <2>1. d = c
    BY CurrentIsOne DEF Write, Current
  <2>2. cfg' = cfg
    BY DEF Write, inputs
  <2> QED BY <2>1, <2>2, <1>1, <1>2, <1>7, <1>8
<1> QED BY <1>6, <1>9 DEF SoundInv

LEMMA DeleteSound ==
    ASSUME TypeInv, SoundInv, NEW c \in Crates, Delete(c) PROVE SoundInv'
<1>1. \A p \in Paths : tree'[p] = tree[p] \/ tree'[p] = NoFile
  BY DEF Delete, Without
<1>2. SoundTree'
  BY <1>1, GoneIsSound, BindingsArePaths DEF SoundInv, SoundTree
<1>3. keep' = keep /\ keep \subseteq Paths /\ UNCHANGED <<inputs, left>>
  BY DEF Delete, TypeInv, TypeOK
<1>4. KeptAreFresh'
  <2> SUFFICES ASSUME NEW d \in Crates, Current(d)', NEW p \in keep'
               PROVE  \/ p \in ScaffoldOf[d]
                      \/ /\ p \in Bindings(d)
                         /\ Exists(tree'[p]) => tree'[p].body = Body(Surface(d), cfg)'
    BY DEF KeptAreFresh, Body
  <2>1. Current(d) /\ pc = "delete" /\ Surface(d)' = Surface(d) /\ cfg' = cfg
    BY <1>3 DEF Current, Surface, inputs, Delete
  <2>2. \/ p \in ScaffoldOf[d]
        \/ p \in Bindings(d) /\ (Exists(tree[p]) => tree[p].body = Body(Surface(d), cfg))
    BY <1>3, <2>1 DEF SoundInv, KeptAreFresh
  <2> QED BY <1>1, <1>3, <2>1, <2>2 DEF Exists
<1> QED BY <1>2, <1>4 DEF SoundInv

LEMMA StampTells ==
    ASSUME NEW c \in Crates, src[c] \in SourcesOf[c], NEW f, NEW p \in Paths,
           f \in Files \cup {NoFile}, Exists(f) => f.body = Body(Surface(c), cfg), Sound(c, f)
    PROVE  Sound(c, Stamped(f, p, StampOf(c)))
<1>1. CASE Exists(f) /\ p \in Marked
  <2>1. f \in Files
    BY <1>1 DEF Exists
  <2> DEFINE g == Stamped(f, p, StampOf(c))
  <2>2. g.stamp = StampOf(c) /\ g.body = f.body
    BY <1>1, <2>1 DEF Stamped, Files
  <2>3. g.stamp.src = SourcesHash[src[c]] /\ g.stamp.cfg = cfg
    BY <2>2 DEF StampOf, Stamp
  <2>4. g.body = Body(Api[src[c]][cfg], cfg)
    BY <1>1, <2>2 DEF Surface
  <2> QED BY <2>3, <2>4 DEF Sound
<1>2. CASE ~(Exists(f) /\ p \in Marked)
  BY <1>2 DEF Stamped
<1> QED BY <1>1, <1>2

LEMMA StampSound ==
    ASSUME Apart, TypeInv, SoundInv, NEW c \in Crates, StampKept(c) PROVE SoundInv'
<1>1. src[c] \in SourcesOf[c]
  BY SurfaceIsApi DEF TypeInv, Readable, StampKept
<1>2. \A p \in Paths : tree'[p] = IF p \in keep THEN Stamped(tree[p], p, StampOf(c)) ELSE tree[p]
  BY DEF StampKept
<1>3. SoundTree'
  <2> SUFFICES ASSUME NEW d \in Crates, NEW p \in Bindings(d) PROVE Sound(d, tree'[p])
    BY DEF SoundTree
  <2>1. p \in Paths /\ tree[p] \in Files \cup {NoFile} /\ Sound(d, tree[p])
    BY BindingsArePaths DEF SoundInv, SoundTree, TypeInv, TypeOK
  <2>2. CASE p \in keep
    <3>1. p \in Bindings(c) /\ (Exists(tree[p]) => tree[p].body = Body(Surface(c), cfg))
      BY <2>2 DEF SoundInv, KeptAreFresh, StampKept, Apart, PathsApart
    <3>2. d = c
      BY <3>1 DEF Apart, PathsApart
    <3>3. Sound(c, Stamped(tree[p], p, StampOf(c)))
      BY <1>1, <2>1, <3>1, <3>2, StampTells
    <3> QED BY <1>2, <2>1, <2>2, <3>2, <3>3
  <2>3. CASE p \notin keep
    BY <1>2, <2>1, <2>3
  <2> QED BY <2>2, <2>3
<1>4. KeptAreFresh'
  BY DEF StampKept, KeptAreFresh
<1> QED BY <1>3, <1>4 DEF SoundInv

LEMMA StepSound == Apart /\ TypeInv /\ SoundInv /\ [Next]_vars => SoundInv'
<1> SUFFICES ASSUME Apart, TypeInv, SoundInv, [Next]_vars PROVE SoundInv'
  OBVIOUS
<1>1. ASSUME NEW c \in Crates, EditSources(c) PROVE SoundInv'
  BY <1>1 DEF EditSources, MayEdit, SoundInv, SoundTree, KeptAreFresh
<1>2. CASE EditConfig
  BY <1>2 DEF EditConfig, MayEdit, SoundInv, SoundTree, KeptAreFresh
<1>3. CASE DeleteFile
  <2>1. \A p \in Paths : tree'[p] = tree[p] \/ tree'[p] = NoFile
    BY <1>3 DEF DeleteFile, Without
  <2>2. SoundTree'
    BY <2>1, GoneIsSound, BindingsArePaths DEF SoundInv, SoundTree
  <2> QED BY <1>3, <2>2 DEF DeleteFile, MayEdit, SoundInv, KeptAreFresh
<1>4. CASE Start
  BY <1>4 DEF Start, SoundInv, SoundTree, KeptAreFresh
<1>5. ASSUME NEW c \in Crates, Unreadable(c) PROVE SoundInv'
  BY <1>5 DEF Unreadable, Stop, SoundInv, SoundTree, KeptAreFresh
<1>6. CASE Kill
  BY <1>6 DEF Kill, Stop, SoundInv, SoundTree, KeptAreFresh
<1>7. CASE UNCHANGED vars
  <2>1. UNCHANGED <<src, cfg, tree, pc, left, keep>>
    BY <1>7 DEF vars, inputs
  <2> QED BY <2>1 DEF SoundInv, SoundTree, KeptAreFresh, Current, Surface
<1> QED
  BY <1>1, <1>2, <1>3, <1>4, <1>5, <1>6, <1>7, WriteSound, DeleteSound, StampSound
  DEF Next, Crate

LEMMA SoundGivesCurrent == Apart /\ TypeInv /\ SoundInv => PassedIsCurrent
<1> SUFFICES ASSUME Apart, TypeInv, SoundInv, VerifyPasses(Crates),
                    \A c \in Crates : src[c] # Gone,
                    NEW c \in Crates, NEW l \in LangsOf[c], NEW a \in Apis,
                    NEW p \in Outputs[l][a] \cap Scanned, HasHash(tree[p])
             PROVE  tree[p].body = Body(Surface(c), cfg)
  BY DEF PassedIsCurrent
<1>1. p \in Bindings(c)
  BY DEF Bindings
<1>2. PICK s \in SourcesOf[c] :
         /\ tree[p].stamp.src = SourcesHash[s]
         /\ tree[p].body = Body(Api[s][tree[p].stamp.cfg], tree[p].stamp.cfg)
  BY <1>1 DEF SoundInv, SoundTree, Sound
<1>3. StampOf(c) \in Candidates(Crates) /\ tree[p].stamp \in Embedded
  BY DEF Candidates, Embedded
<1>4. PICK d \in Crates : tree[p].stamp = StampOf(d)
  BY <1>3 DEF VerifyPasses, NothingStale, Candidates
<1>5. SourcesHash[s] = SourcesHash[src[d]] /\ tree[p].stamp.cfg = cfg
  BY <1>2, <1>4 DEF StampOf, Stamp
<1>6. s \in Sources /\ src[d] \in SourcesOf[d] /\ src[d] \in Sources
  BY SurfaceIsApi, WorkspaceAssumption DEF TypeInv
<1>7. s = src[d]
  BY <1>5, <1>6 DEF Apart
<1>8. c = d
  BY <1>6, <1>7 DEF Apart
<1> QED BY <1>2, <1>5, <1>7, <1>8 DEF Surface

\* A binding that verify lets pass was emitted from what its own crate's
\* sources and alef.toml are now (AlefWorkspace!PassedIsCurrent), when crates
\* keep apart and the first tree carries no false hash.
THEOREM PassedAreCurrent ==
    ASSUME Apart, TruthfulStart PROVE Spec => []PassedIsCurrent
<1>1. Init => TypeInv /\ SoundInv
  BY InitTyped, InitSound
<1>2. TypeInv /\ SoundInv /\ [Next]_vars => (TypeInv /\ SoundInv)'
  BY StepTyped, StepSound
<1>3. TypeInv /\ SoundInv => PassedIsCurrent
  BY SoundGivesCurrent
<1> QED BY <1>1, <1>2, <1>3, PTL DEF Spec

-----------------------------------------------------------------------------
(* What is deleted.                                                        *)

\* Only files with alef's header carry a hash; a crate whose scaffold pass
\* failed keeps its bindings only.
OwnedInv ==
    /\ \A p \in Paths \ Marked : ~HasHash(tree[p])
    /\ \A c \in Crates : pc = "delete" /\ Current(c) /\ c \notin rooted => keep \subseteq Bindings(c)

LEMMA InitOwned == Headed /\ Init => OwnedInv
BY DEF Headed, Init, OwnedInv

LEMMA WriteOwned ==
    ASSUME TypeInv, OwnedInv, NEW c \in Crates, Write(c) PROVE OwnedInv'
<1> DEFINE L == Uncached(c)
           W == UNION {Outputs[l][Surface(c)] : l \in L}
<1>1. Surface(c) \in Apis /\ cfg \in Configs
  BY SurfaceIsApi DEF TypeInv, TypeOK, Write
<1>2. W \subseteq Bindings(c)
  <2>1. L \subseteq LangsOf[c]
    BY DEF Uncached
  <2> QED BY <2>1, <1>1, OutputsArePaths
<1>3. \A p \in Paths : tree[p] \in Files \cup {NoFile}
  BY DEF TypeInv, TypeOK
<1>4. \A p \in Paths :
         tree'[p] = IF p \in W THEN Written(tree[p], Body(Surface(c), cfg)) ELSE tree[p]
  BY DEF Write
<1>5. \A p \in Paths : HasHash(tree'[p]) => tree'[p] = tree[p]
  BY <1>1, <1>3, <1>4, WrittenIsFile
<1>6. \A p \in Paths \ Marked : ~HasHash(tree'[p])
  BY <1>5 DEF OwnedInv
<1>7. \A d \in Crates : Current(d)' => d = c
  BY CurrentIsOne DEF Write, Current
<1>8. c \notin rooted' => keep' \subseteq Bindings(c)
  BY <1>2 DEF Write
<1> QED BY <1>6, <1>7, <1>8 DEF OwnedInv

LEMMA StepOwned == TypeInv /\ OwnedInv /\ [Next]_vars => OwnedInv'
<1> SUFFICES ASSUME TypeInv, OwnedInv, [Next]_vars PROVE OwnedInv'
  OBVIOUS
<1>1. ASSUME NEW c \in Crates, EditSources(c) PROVE OwnedInv'
  BY <1>1 DEF EditSources, MayEdit, OwnedInv
<1>2. CASE EditConfig
  BY <1>2 DEF EditConfig, MayEdit, OwnedInv
<1>3. CASE DeleteFile
  BY <1>3 DEF DeleteFile, MayEdit, Without, OwnedInv, HasHash, Exists
<1>4. CASE Start
  BY <1>4 DEF Start, OwnedInv
<1>5. ASSUME NEW c \in Crates, Unreadable(c) PROVE OwnedInv'
  BY <1>5 DEF Unreadable, Stop, OwnedInv
<1>6. ASSUME NEW c \in Crates, Delete(c) PROVE OwnedInv'
  <2>1. \A p \in Paths : tree'[p] = tree[p] \/ tree'[p] = NoFile
    BY <1>6 DEF Delete, Without
  <2> QED BY <1>6, <2>1 DEF Delete, OwnedInv, HasHash, Exists
<1>7. ASSUME NEW c \in Crates, StampKept(c) PROVE OwnedInv'
  <2>1. \A p \in Paths \ Marked : tree'[p] = tree[p]
    BY <1>7 DEF StampKept, Stamped
  <2> QED BY <1>7, <2>1 DEF StampKept, OwnedInv
<1>8. CASE Kill
  BY <1>8 DEF Kill, Stop, OwnedInv
<1>9. CASE UNCHANGED vars
  BY <1>9 DEF vars, OwnedInv, Current
<1> QED
  BY <1>1, <1>2, <1>3, <1>4, <1>5, <1>6, <1>7, <1>8, <1>9, WriteOwned DEF Next, Crate

LEMMA CleanupStays ==
    ASSUME Fenced, TypeInv, OwnedInv, NEW c \in Crates, keep \subseteq Bindings(c),
           NEW p \in CleanupOrphans(tree, keep)
    PROVE  p \in Territory(c)
<1>1. p \in Marked
  BY TreeAssumed DEF TreeAssumption, CleanupOrphans, CleanupVisits, AlefOwned, OwnedInv
<1>2. Above[Dir[p]] \cap Ground(c) # {}
  BY DEF CleanupOrphans, CleanupVisits, TouchedDirs, Ground
<1> QED BY <1>1, <1>2 DEF Fenced

LEMMA SweepStays ==
    ASSUME Fenced, OwnedInv, NEW c \in Crates, NEW D,
           NEW p \in SweepOrphans(Without(tree, D), keep, SweepRoots(LangsOf[c], FALSE))
    PROVE  p \in Territory(c)
<1>1. HasHash(tree[p]) /\ p \in Paths
  BY DEF SweepOrphans, Without, HasHash, Exists
<1>2. p \in Marked
  BY <1>1 DEF OwnedInv
<1>3. Above[Dir[p]] \cap Ground(c) # {}
  BY DEF SweepOrphans, Ground
<1> QED BY <1>2, <1>3 DEF Fenced

LEMMA DeleteSpares ==
    ASSUME Fenced, TypeInv, OwnedInv, Next, NEW c \in Crates, c \notin rooted PROVE Spared(c)
<1> SUFFICES ASSUME pc = "delete", Current(c), NEW p \in Paths,
                    Exists(tree[p]), ~Exists(tree'[p])
             PROVE  p \in Territory(c)
  BY DEF Spared
<1>1. Delete(c) \/ Kill
  <2>1. \A d \in Crates : Delete(d) => d = c
    BY CurrentIsOne DEF Delete
  <2> QED
    BY <2>1 DEF Next, Crate, EditSources, EditConfig, DeleteFile, MayEdit, Start, Write,
                Unreadable, StampKept
<1>2. CASE Delete(c)
  <2> DEFINE D == CleanupOrphans(tree, keep)
             E == SweepOrphans(Without(tree, D), keep, SweepRoots(LangsOf[c], FALSE))
  <2>1. p \in D \/ p \in E
    BY <1>2 DEF Delete, Without
  <2>2. keep \subseteq Bindings(c)
    BY DEF OwnedInv
  <2> QED BY <2>1, <2>2, CleanupStays, SweepStays
<1>3. CASE Kill
  BY <1>3 DEF Kill
<1> QED BY <1>1, <1>2, <1>3

\* The deleting passes of a crate that keeps no file in the root leave alone
\* what it never emits (AlefWorkspace!OthersSpared), when what lies beneath
\* its directories is its own.
THEOREM OthersAreSpared ==
    ASSUME Fenced, Headed PROVE Spec => OthersSpared
<1>1. Init => TypeInv /\ OwnedInv
  BY InitTyped, InitOwned
<1>2. TypeInv /\ OwnedInv /\ [Next]_vars => (TypeInv /\ OwnedInv)'
  BY StepTyped, StepOwned
<1>3. TypeInv /\ OwnedInv /\ [Next]_vars => [\A c \in Crates : c \notin rooted => Spared(c)]_vars
  BY DeleteSpares
<1> QED BY <1>1, <1>2, <1>3, PTL DEF Spec, OthersSpared

-----------------------------------------------------------------------------
(* What verify finds after a run over all crates.                          *)

\* A run is under way, or the latest was over all crates and nothing was
\* edited since.
Lasting == pc # "idle" \/ done = Crates

\* What is hashed beneath the sweep roots of a crate that is done has the
\* hash of a crate that is done.
Tidy(c) == \A p \in Covers(c) : HasHash(tree[p]) => \E d \in done : tree[p].stamp = StampOf(d)

TidyInv ==
    /\ done \subseteq Crates /\ \A c \in done : src[c] # Gone
    /\ Lasting => \A c \in done : Tidy(c)
    /\ \A c \in Crates : pc = "stamp" /\ Current(c) => \A p \in Covers(c) : HasHash(tree[p]) => p \in keep

LEMMA WriteTidy ==
    ASSUME TypeInv, TidyInv, NEW c \in Crates, Write(c) PROVE TidyInv'
<1> DEFINE W == UNION {Outputs[l][Surface(c)] : l \in Uncached(c)}
<1>1. Surface(c) \in Apis /\ cfg \in Configs /\ UNCHANGED <<src, cfg, done>> /\ pc' = "delete" /\ pc = "write"
  BY SurfaceIsApi DEF TypeInv, TypeOK, Write, inputs
<1>2. \A p \in Paths : tree'[p] = IF p \in W THEN Written(tree[p], Body(Surface(c), cfg)) ELSE tree[p]
  BY DEF Write
<1>3. \A p \in Paths : tree[p] \in Files \cup {NoFile}
  BY DEF TypeInv, TypeOK
<1>4. \A p \in Paths : HasHash(tree'[p]) => tree'[p] = tree[p]
  BY <1>1, <1>2, <1>3, WrittenIsFile
<1>5. \A d \in Crates : Covers(d) \subseteq Paths /\ StampOf(d)' = StampOf(d)
  BY <1>1 DEF Covers, StampOf
<1> QED BY <1>1, <1>4, <1>5 DEF TidyInv, Lasting, Tidy

LEMMA DeleteTidy ==
    ASSUME TypeInv, TidyInv, NEW c \in Crates, Delete(c) PROVE TidyInv'
<1> DEFINE t == Without(tree, CleanupOrphans(tree, keep))
           D == SweepOrphans(t, keep, SweepRoots(LangsOf[c], FALSE))
<1>1. tree' = Without(t, D) /\ UNCHANGED <<src, cfg, done, keep, left>> /\ pc = "delete" /\ pc' = "stamp" /\ Current(c)
  BY DEF Delete, inputs
<1>2. \A p \in Paths : HasHash(tree'[p]) => tree'[p] = tree[p] /\ tree'[p] = t[p] /\ p \notin D
  BY <1>1 DEF Without, HasHash, Exists
<1>3. \A p \in Covers(c) : HasHash(tree'[p]) => p \in keep
  BY <1>2 DEF Covers, SweepOrphans
<1>4. \A d \in Crates : Current(d)' => d = c
  BY <1>1, CurrentIsOne DEF Current
<1>5. \A d \in Crates : Covers(d) \subseteq Paths /\ StampOf(d)' = StampOf(d)
  BY <1>1 DEF Covers, StampOf
<1> QED BY <1>1, <1>2, <1>3, <1>4, <1>5 DEF TidyInv, Lasting, Tidy

LEMMA StampTidy ==
    ASSUME TypeInv, OwnedInv, TidyInv, NEW c \in Crates, StampKept(c) PROVE TidyInv'
<1>1. /\ UNCHANGED <<src, cfg>> /\ done' = done \cup {c} /\ pc = "stamp" /\ pc' # "stamp" /\ Current(c)
      /\ tree' = [p \in Paths |-> IF p \in keep THEN Stamped(tree[p], p, StampOf(c)) ELSE tree[p]]
  BY DEF StampKept, inputs
<1>2. src[c] # Gone /\ StampOf(c) \in Stamps
  BY <1>1, SurfaceIsApi DEF TypeInv, Readable
<1>3. \A d \in Crates : Covers(d) \subseteq Paths /\ StampOf(d)' = StampOf(d)
  BY <1>1 DEF Covers, StampOf
<1>4. ASSUME NEW p \in Paths, HasHash(tree'[p]), p \in keep PROVE tree'[p].stamp = StampOf(c)
  <2>1. tree[p] \in Files \cup {NoFile} /\ tree'[p] = Stamped(tree[p], p, StampOf(c))
    BY <1>1, <1>4 DEF TypeInv, TypeOK
  <2>2. Exists(tree[p]) /\ p \in Marked
    BY <1>4, <2>1 DEF Stamped, HasHash, OwnedInv
  <2> QED BY <1>2, <2>1, <2>2 DEF Stamped, Files, Exists
<1>5. \A p \in Paths : p \notin keep => tree'[p] = tree[p]
  BY <1>1
<1>6. \A d \in done' : Tidy(d)'
  <2> SUFFICES ASSUME NEW d \in done', NEW p \in Covers(d), HasHash(tree'[p])
               PROVE  \E e \in done' : tree'[p].stamp = StampOf(e)'
    BY DEF Tidy, Covers
  <2>1. CASE p \in keep
    BY <1>1, <1>3, <1>4, <2>1 DEF Covers
  <2>2. CASE p \notin keep
    <3>1. tree'[p] = tree[p] /\ p \in Paths
      BY <1>5, <2>2 DEF Covers
    <3>2. d \in done
      BY <1>1, <2>2, <3>1 DEF TidyInv
    <3>3. PICK e \in done : tree[p].stamp = StampOf(e)
      BY <1>1, <3>1, <3>2 DEF TidyInv, Lasting, Tidy
    <3> QED BY <1>1, <1>3, <3>1, <3>3 DEF TidyInv
  <2> QED BY <2>1, <2>2
<1> QED BY <1>1, <1>2, <1>6 DEF TidyInv

LEMMA StepTidy == TypeInv /\ OwnedInv /\ TidyInv /\ [Next]_vars => TidyInv'
<1> SUFFICES ASSUME TypeInv, OwnedInv, TidyInv, [Next]_vars PROVE TidyInv'
  OBVIOUS
<1>1. ASSUME NEW c \in Crates, EditSources(c) PROVE TidyInv'
  <2>1. done' = done \ {c} /\ pc = "idle" /\ pc' = "idle" /\ \A d \in done' : src'[d] = src[d]
    BY <1>1 DEF EditSources, MayEdit, TidyInv, TypeInv, TypeOK
  <2> QED BY <2>1 DEF TidyInv, Lasting
<1>2. CASE EditConfig
  BY <1>2 DEF EditConfig, MayEdit, TidyInv, Lasting
<1>3. CASE DeleteFile
  BY <1>3 DEF DeleteFile, MayEdit, TidyInv, Lasting
<1>4. CASE Start
  BY <1>4 DEF Start, TidyInv
<1>5. ASSUME NEW c \in Crates, Unreadable(c) PROVE TidyInv'
  BY <1>5 DEF Unreadable, Stop, inputs, TidyInv, Lasting, Tidy, StampOf
<1>6. CASE Kill
  BY <1>6 DEF Kill, Stop, inputs, TidyInv, Lasting, Tidy, StampOf
<1>7. CASE UNCHANGED vars
  BY <1>7 DEF vars, inputs, TidyInv, Lasting, Tidy, StampOf, Current
<1> QED
  BY <1>1, <1>2, <1>3, <1>4, <1>5, <1>6, <1>7, WriteTidy, DeleteTidy, StampTidy
  DEF Next, Crate

LEMMA FewHashes ==
    ASSUME NEW S \in SUBSET Crates, Embedded \subseteq Candidates(S) PROVE HashConsistent(S)
<1> DEFINE T == {StampOf(c) : c \in S}
           f == [c \in S |-> StampOf(c)]
<1>1. IsFiniteSet(S)
  BY WorkspaceAssumption, FS_Subset
<1>2. f \in Surjection(S, T)
  BY DEF Surjection
<1>3. IsFiniteSet(T) /\ Cardinality(T) <= Cardinality(S) /\ Cardinality(T) \in Nat /\ Cardinality(S) \in Nat
  BY <1>1, <1>2, FS_Surjection, FS_CardinalityType
<1>4. Embedded \in SUBSET T
  BY DEF Candidates
<1>5. Cardinality(Embedded) <= Cardinality(T) /\ Cardinality(Embedded) \in Nat
  BY <1>3, <1>4, FS_Subset, FS_CardinalityType
<1> QED BY <1>3, <1>5 DEF HashConsistent

LEMMA TidyVerifies == Tended /\ OwnedInv /\ TidyInv => WholeRunVerifies
<1> SUFFICES ASSUME Tended, OwnedInv, TidyInv, pc = "idle", done = Crates PROVE VerifyPasses(Crates)
  BY DEF WholeRunVerifies, WholeRun
<1>1. Embedded \subseteq Candidates(Crates)
  <2> SUFFICES ASSUME NEW p \in Scanned, HasHash(tree[p]) PROVE tree[p].stamp \in Candidates(Crates)
    BY DEF Embedded
  <2>1. p \in Marked
    BY TreeAssumed DEF TreeAssumption, OwnedInv
  <2>2. PICK d \in Crates : tree[p].stamp = StampOf(d)
    BY <2>1 DEF Tended, TidyInv, Lasting, Tidy
  <2> QED BY <2>2 DEF Candidates, TidyInv
<1>2. HashConsistent(Crates)
  BY <1>1, FewHashes
<1> QED BY <1>1, <1>2 DEF VerifyPasses, NothingStale

\* Right after a run over all crates verify passes, whatever partial runs,
\* kills and edits came before (AlefWorkspace!WholeRunVerifies), when the
\* sweeps walk what alef marks and only that carries a hash at first.
THEOREM WholeRunsVerify ==
    ASSUME Tended, Headed PROVE Spec => []WholeRunVerifies
<1>1. Init => TypeInv /\ OwnedInv /\ TidyInv
  BY InitTyped, InitOwned DEF Init, TidyInv
<1>2. TypeInv /\ OwnedInv /\ TidyInv /\ [Next]_vars => (TypeInv /\ OwnedInv /\ TidyInv)'
  BY StepTyped, StepOwned, StepTidy
<1>3. TypeInv /\ OwnedInv /\ TidyInv => WholeRunVerifies
  BY TidyVerifies
<1> QED BY <1>1, <1>2, <1>3, PTL DEF Spec

-----------------------------------------------------------------------------
(* What is on disk after a run over all crates with --clean.               *)

Whole(c) == \A p \in OutputsOf(c) : Exists(tree[p]) /\ tree[p].body = Body(Surface(c), cfg)

\* A crate done, unless a later one kept a file in the root, and the crate
\* whose turn it is are whole; the latter keeps what it emitted.
WholeInv ==
    /\ done \subseteq Crates /\ \A c \in done : src[c] # Gone
    /\ run.clean /\ Lasting =>
         /\ \A c \in done : (\A d \in rooted : d <= c) => Whole(c)
         /\ \A c \in Crates : pc \in {"delete", "stamp"} /\ Current(c) => Whole(c) /\ OutputsOf(c) \subseteq keep
         /\ \A c \in done, d \in left : c < d

LEMMA OutputsOfBindings ==
    ASSUME TypeOK, NEW c \in Crates, src[c] # Gone
    PROVE  OutputsOf(c) \subseteq Bindings(c) /\ Bindings(c) \subseteq Paths
BY SurfaceIsApi, BindingsArePaths DEF OutputsOf, Bindings

\* A step that keeps the inputs and what a crate emits keeps it whole.
LEMMA StaysWhole ==
    ASSUME NEW c \in Crates, UNCHANGED <<src, cfg>>,
           \A p \in OutputsOf(c) : Exists(tree[p]) => Exists(tree'[p]) /\ tree'[p].body = tree[p].body
    PROVE  Whole(c) => Whole(c)'
BY DEF Whole, OutputsOf, Surface, Body

LEMMA WriteWhole ==
    ASSUME PathsApart, TypeInv, WholeInv, NEW c \in Crates, Write(c) PROVE WholeInv'
<1> DEFINE W == UNION {Outputs[l][Surface(c)] : l \in Uncached(c)}
<1>1. /\ UNCHANGED <<src, cfg, run, left, done>> /\ pc = "write" /\ pc' = "delete" /\ Current(c) /\ src[c] # Gone
      /\ tree' = [p \in Paths |-> IF p \in W THEN Written(tree[p], Body(Surface(c), cfg)) ELSE tree[p]]
      /\ W \subseteq keep' /\ rooted \subseteq rooted'
  BY DEF Write, inputs
<1>2. Surface(c) \in Apis /\ cfg \in Configs /\ OutputsOf(c) \subseteq Bindings(c) /\ W \subseteq OutputsOf(c)
  BY <1>1, SurfaceIsApi, OutputsOfBindings DEF TypeInv, TypeOK, Uncached, OutputsOf
<1>3. \A p \in Paths : tree[p] \in Files \cup {NoFile}
  BY DEF TypeInv, TypeOK
<1>4. \A d \in Crates : OutputsOf(d)' = OutputsOf(d) /\ Surface(d)' = Surface(d) /\ (Current(d)' => d = c)
  BY <1>1, CurrentIsOne DEF OutputsOf, Surface, Current
<1>5. ASSUME run.clean PROVE Whole(c)' /\ OutputsOf(c)' \subseteq keep'
  <2>1. OutputsOf(c) = W
    BY <1>5 DEF Uncached, OutputsOf
  <2>2. \A p \in W : tree'[p] = Written(tree[p], Body(Surface(c), cfg)) /\ tree[p] \in Files \cup {NoFile}
    BY <1>1, <1>2, <1>3, OutputsOfBindings DEF TypeInv
  <2>3. \A p \in W : Exists(tree'[p]) /\ tree'[p].body = Body(Surface(c), cfg)
    BY <1>2, <2>2, WrittenIsFile
  <2> QED BY <1>1, <1>4, <2>1, <2>3 DEF Whole, Body
<1>6. ASSUME NEW d \in done, run.clean, \A e \in rooted' : e <= d PROVE Whole(d)'
  <2>1. d \in Crates /\ src[d] # Gone /\ d < c /\ Whole(d)
    BY <1>1, <1>6 DEF WholeInv, Lasting, Current
  <2>2. OutputsOf(d) \subseteq Bindings(d) /\ Bindings(d) \subseteq Paths /\ d # c
    BY <2>1, OutputsOfBindings, WorkspaceAssumption DEF TypeInv
  <2>3. \A p \in OutputsOf(d) : tree'[p] = tree[p]
    BY <1>1, <1>2, <2>1, <2>2 DEF PathsApart
  <2> QED BY <1>1, <2>1, <2>3, StaysWhole
<1>7. run.clean => \A d \in done, e \in left : d < e
  BY <1>1 DEF WholeInv, Lasting
<1> QED BY <1>1, <1>4, <1>5, <1>6, <1>7 DEF WholeInv

LEMMA DeleteWhole ==
    ASSUME PathsApart, Fenced, TypeInv, OwnedInv, WholeInv, NEW c \in Crates, Delete(c) PROVE WholeInv'
<1>1. UNCHANGED <<src, cfg, run, left, done, keep, rooted>> /\ pc = "delete" /\ pc' = "stamp" /\ Current(c)
  BY DEF Delete, inputs
<1>2. \A p \in Paths : tree'[p] = tree[p] \/ (p \notin keep /\ ~Exists(tree'[p]))
  BY DEF Delete, Without, CleanupOrphans, SweepOrphans, Exists
<1>3. c \notin rooted => \A p \in Paths : Exists(tree[p]) /\ ~Exists(tree'[p]) => p \in Territory(c)
  <2>1. Next
    BY DEF Next, Crate
  <2> QED BY <1>1, <2>1, DeleteSpares DEF Spared
<1>4. \A d \in Crates : OutputsOf(d)' = OutputsOf(d) /\ (Current(d)' => d = c)
  BY <1>1, CurrentIsOne DEF OutputsOf, Surface, Current
<1>5. ASSUME run.clean PROVE Whole(c)' /\ OutputsOf(c)' \subseteq keep'
  <2>1. Whole(c) /\ OutputsOf(c) \subseteq keep /\ keep \subseteq Paths
    BY <1>1, <1>5 DEF WholeInv, Lasting, TypeInv, TypeOK
  <2>2. \A p \in OutputsOf(c) : tree'[p] = tree[p]
    BY <1>2, <2>1
  <2> QED BY <1>1, <1>4, <2>1, <2>2, StaysWhole
<1>6. ASSUME NEW d \in done, run.clean, \A e \in rooted : e <= d PROVE Whole(d)'
  <2>1. d \in Crates /\ src[d] # Gone /\ d < c /\ Whole(d)
    BY <1>1, <1>6 DEF WholeInv, Lasting, Current
  <2>2. OutputsOf(d) \subseteq Bindings(d) /\ Bindings(d) \subseteq Paths /\ d # c /\ c \notin rooted
    BY <1>6, <2>1, OutputsOfBindings, WorkspaceAssumption DEF TypeInv
  <2>3. Bindings(d) \cap Territory(c) = {}
    BY <2>1, <2>2 DEF PathsApart, Territory, Bindings
  <2>4. \A p \in OutputsOf(d) : Exists(tree[p]) => tree'[p] = tree[p]
    BY <1>2, <1>3, <2>2, <2>3
  <2> QED BY <1>1, <2>1, <2>4, StaysWhole
<1>7. run.clean => \A d \in done, e \in left : d < e
  BY <1>1 DEF WholeInv, Lasting
<1> QED BY <1>1, <1>4, <1>5, <1>6, <1>7 DEF WholeInv

LEMMA StampWhole ==
    ASSUME TypeInv, WholeInv, NEW c \in Crates, StampKept(c) PROVE WholeInv'
<1>1. /\ UNCHANGED <<src, cfg, run, rooted>> /\ done' = done \cup {c} /\ left' = left \ {c}
      /\ pc = "stamp" /\ pc' \in {"idle", "write"} /\ Current(c)
  BY DEF StampKept, inputs
<1>2. src[c] # Gone
  BY <1>1 DEF TypeInv, Readable
<1>3. StampOf(c) \in Stamps
  BY <1>2, SurfaceIsApi DEF TypeInv
<1>4. \A p \in Paths : Exists(tree[p]) => Exists(tree'[p]) /\ tree'[p].body = tree[p].body
  <2>1. \A p \in Paths : tree'[p] = tree[p] \/ tree'[p] = Stamped(tree[p], p, StampOf(c))
    BY DEF StampKept
  <2>2. \A p \in Paths : tree[p] \in Files \cup {NoFile}
    BY DEF TypeInv, TypeOK
  <2>3. ASSUME NEW f \in Files, NEW p \in Paths PROVE Exists(Stamped(f, p, StampOf(c))) /\ Stamped(f, p, StampOf(c)).body = f.body
    <3>1. Stamped(f, p, StampOf(c)) \in Files
      BY <1>3 DEF Stamped, Files
    <3>2. Stamped(f, p, StampOf(c)).body = f.body
      BY DEF Stamped, Files
    <3> QED BY <3>1, <3>2, TreeAssumed DEF TreeAssumption, Exists
  <2> QED BY <2>1, <2>2, <2>3 DEF Exists
<1>5. ASSUME NEW d \in done', run.clean, \A e \in rooted : e <= d PROVE Whole(d)'
  <2>1. d \in Crates /\ src[d] # Gone /\ Whole(d)
    BY <1>1, <1>2, <1>5 DEF WholeInv, Lasting
  <2>2. OutputsOf(d) \subseteq Paths
    BY <2>1, OutputsOfBindings DEF TypeInv
  <2> QED BY <1>1, <1>4, <2>1, <2>2, StaysWhole
<1>6. ASSUME NEW d \in done', NEW e \in left', run.clean PROVE d < e
  <2>1. e \in Crates /\ e # c /\ c <= e
    BY <1>1 DEF TypeInv, TypeOK, Current
  <2>2. CASE d = c
    BY <2>1, <2>2, WorkspaceAssumption
  <2>3. CASE d \in done
    BY <1>1, <1>6, <2>3 DEF WholeInv, Lasting
  <2> QED BY <1>1, <2>2, <2>3
<1> QED BY <1>1, <1>2, <1>5, <1>6 DEF WholeInv

LEMMA StepWhole ==
    PathsApart /\ Fenced /\ TypeInv /\ OwnedInv /\ WholeInv /\ [Next]_vars => WholeInv'
<1> SUFFICES ASSUME PathsApart, Fenced, TypeInv, OwnedInv, WholeInv, [Next]_vars PROVE WholeInv'
  OBVIOUS
<1>1. ASSUME NEW c \in Crates, EditSources(c) PROVE WholeInv'
  <2>1. done' = done \ {c} /\ pc' = "idle" /\ \A d \in done' : src'[d] = src[d]
    BY <1>1 DEF EditSources, MayEdit, WholeInv, TypeInv, TypeOK
  <2> QED BY <2>1 DEF WholeInv, Lasting
<1>2. CASE EditConfig
  BY <1>2 DEF EditConfig, MayEdit, WholeInv, Lasting
<1>3. CASE DeleteFile
  BY <1>3 DEF DeleteFile, MayEdit, WholeInv, Lasting
<1>4. CASE Start
  BY <1>4 DEF Start, WholeInv
<1>5. ASSUME NEW c \in Crates, Unreadable(c) PROVE WholeInv'
  <2>1. UNCHANGED <<src, cfg, tree, run, done, rooted>> /\ pc # "idle" /\ pc' = "idle" /\ left' = {}
    BY <1>5 DEF Unreadable, Stop, inputs
  <2> QED BY <2>1 DEF WholeInv, Lasting, Whole, OutputsOf, Surface
<1>6. CASE Kill
  <2>1. UNCHANGED <<src, cfg, tree, run, done, rooted>> /\ pc # "idle" /\ pc' = "idle" /\ left' = {}
    BY <1>6 DEF Kill, Stop, inputs
  <2> QED BY <2>1 DEF WholeInv, Lasting, Whole, OutputsOf, Surface
<1>7. CASE UNCHANGED vars
  BY <1>7 DEF vars, inputs, WholeInv, Lasting, Whole, OutputsOf, Surface, Current
<1> QED
  BY <1>1, <1>2, <1>3, <1>4, <1>5, <1>6, <1>7, WriteWhole, DeleteWhole, StampWhole
  DEF Next, Crate

\* And what a crate emits is on disk after a --clean run over all crates,
\* unless a later one kept a file in the root
\* (AlefWorkspace!WholeCleanRunComplete).
THEOREM CleanRunsComplete ==
    ASSUME PathsApart, Fenced, Headed PROVE Spec => []WholeCleanRunComplete
<1>1. Init => TypeInv /\ OwnedInv /\ WholeInv
  BY InitTyped, InitOwned DEF Init, WholeInv
<1>2. TypeInv /\ OwnedInv /\ WholeInv /\ [Next]_vars => (TypeInv /\ OwnedInv /\ WholeInv)'
  BY StepTyped, StepOwned, StepWhole
<1>3. WholeInv => WholeCleanRunComplete
  BY DEF WholeInv, WholeCleanRunComplete, WholeRun, Whole, Lasting
<1> QED BY <1>1, <1>2, <1>3, PTL DEF Spec
=============================================================================

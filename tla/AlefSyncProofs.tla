--------------------------- MODULE AlefSyncProofs ---------------------------
(***************************************************************************)
(* Version sync, for any crates, files and versions: what a command leaves *)
(* when it has taken every crate to its end, and that a sync where all     *)
(* agrees is silent.                                                       *)
(***************************************************************************)
EXTENDS AlefSync, WellFoundedInduction, TLAPS

(***************************************************************************)
(* Hypotheses on a workspace, which the theorems that need them name.      *)
(***************************************************************************)

Shared(c) == \E d \in Crates : From[c] \in Of[d]

\* A version_from file is a member's manifest, which the sync of every crate
\* visits, or the root's, which none does (version_workspace.rs:7-67); and the
\* crates that read a member's come last in alef.toml, which the code does not
\* ask for: in the other order a later crate changes the version an earlier
\* one has told (see the README).
VersionFromOrder ==
    /\ \A c, d \in Crates : Shared(c) => From[c] \in Of[d]
    /\ \A c, d \in Crates : Shared(c) /\ ~Shared(d) => d < c

\* No [sync] text replacement is in a file with an alef:hash line: such a file
\* is stamped again by every sync, whether or not it changed.
ReplacedUnstamped == \A c \in Crates : Replaced \cap Of[c] \cap Headered = {}

-----------------------------------------------------------------------------
(* Types.                                                                  *)

LEMMA InputsTyped ==
    ASSUME pin \in Versions, NEW c \in Crates, NEW set \in Sets PROVE Inputs(c, set) \in Stamps
BY DEF Inputs, Stamps, Sets

LEMMA StampedTyped ==
    ASSUME stamp \in [Headered -> Stamps], NEW S, NEW st \in Stamps
    PROVE  Stamped(S, st) \in [Headered -> Stamps]
BY DEF Stamped

LEMMA VersionTyped == ASSUME TypeOK, NEW c \in Crates PROVE Version(c) \in Versions /\ From[c] \in Files
BY SyncAssumption DEF SyncAssumption, TypeOK, Version

\* How a command may end, or go on with the next crate.
LEMMA EndTyped ==
    ASSUME TypeOK, NEW how \in {None, "ok", "failed", "killed"}, End(how)
    PROVE  /\ cmd' \in Commands /\ todo' \subseteq Crates /\ pc' \in Steps
           /\ v' \in Versions /\ left' \subseteq Files /\ updated' \subseteq Files
           /\ outcome' \in {None, "ok", "failed", "killed"}
BY SyncAssumption DEF SyncAssumption, TypeOK, End, Forget, Steps, Versions

LEMMA CrateDoneTyped ==
    ASSUME TypeOK, NEW c \in Crates, CrateDone(c)
    PROVE  /\ cmd' \in Commands /\ todo' \subseteq Crates /\ pc' \in Steps
           /\ v' \in Versions /\ left' \subseteq Files /\ updated' \subseteq Files
           /\ outcome' \in {None, "ok", "failed", "killed"}
<1>1. CASE todo = {c}
  BY <1>1, EndTyped DEF CrateDone
<1>2. CASE todo # {c}
  <2>1. todo' = todo \ {c} /\ pc' = "begin" /\ v' = 0 /\ left' = {} /\ updated' = {} /\ UNCHANGED <<cmd, outcome>>
    BY <1>2 DEF CrateDone, Forget
  <2>2. 0 \in Versions
    BY SyncAssumption DEF SyncAssumption, Versions
  <2> QED BY <2>1, <2>2 DEF TypeOK, Steps
<1> QED BY <1>1, <1>2

LEMMA TypeOKInit == Init => TypeOK
<1> SUFFICES ASSUME Init PROVE TypeOK
  OBVIOUS
<1>1. PICK n \in Versions :
        /\ holds = [f \in Files |-> n] /\ pin = n
        /\ apps = [c \in Crates |-> n] /\ readme = [c \in Crates |-> n]
  BY DEF Init
<1>2. \A c \in Crates : Inputs(c, "sources") \in Stamps
  BY <1>1, InputsTyped DEF Sets
<1>3. stamp \in [Headered -> Stamps] /\ bindings \in [Crates -> Stamps]
  BY <1>2 DEF Init
<1>4. 0 \in Versions /\ 0 \in 0..MaxEdits /\ 0 \in 0..MaxFaults
  BY SyncAssumption DEF SyncAssumption, Versions
<1>5. holds \in [Files -> Versions] /\ pin \in Versions /\ apps \in [Crates -> Versions] /\ readme \in [Crates -> Versions]
  BY <1>1
<1>6. cmd \in Commands
  BY <1>4 DEF Init, Commands
<1>7. /\ todo = {} /\ pc = "idle" /\ v = 0 /\ left = {} /\ updated = {} /\ outcome = None
      /\ edits = 0 /\ faults = 0 /\ synced = {} /\ gens = 0
  BY DEF Init
<1>8. lost \in BOOLEAN /\ calm \in BOOLEAN
  BY Zenon DEF Init
<1> QED BY <1>3, <1>4, <1>5, <1>6, <1>7, <1>8 DEF TypeOK, Steps

LEMMA TypeOKStep == ASSUME TypeOK, [Next]_vars PROVE TypeOK'
<1> USE SyncAssumption DEF SyncAssumption
<1>0. Sets = {"sources", "all"} /\ \A c \in Crates : Of[c] \subseteq Files /\ From[c] \in Files
  BY DEF Sets
<1>1. ASSUME NEW f \in Files, Edit(f) PROVE TypeOK'
  BY <1>1 DEF Edit, TypeOK, command, locals
<1>2. CASE EditPin
  BY <1>2 DEF EditPin, TypeOK, command, locals
<1>3. ASSUME NEW k \in Given, NEW S \in SUBSET Crates, Begin(k, S) PROVE TypeOK'
  <2>1. UNCHANGED <<holds, pin, apps, readme, stamp, bindings, v, left, updated, edits, faults>>
    BY <1>3 DEF Begin, tree, locals
  <2>2. calm' \in BOOLEAN
    BY <1>3, Zenon DEF Begin
  <2>3. cmd' \in Commands /\ todo' \subseteq Crates /\ pc' = "begin" /\ outcome' = None
        /\ synced' = {} /\ lost' = FALSE /\ gens' \in 0..2
    BY <1>3 DEF Begin, Given, TypeOK
  <2> QED BY <2>1, <2>2, <2>3 DEF TypeOK, Steps
<1>4. ASSUME NEW c \in Crates, Emit(c) PROVE TypeOK'
  <2>1. Version(c) \in Versions
    BY VersionTyped
  <2> QED BY <1>4, <2>1 DEF Emit, TypeOK, Steps, command, locals, history
<1>5. ASSUME NEW c \in Crates, StampBindings(c) PROVE TypeOK'
  <2>1. Inputs(c, "sources") \in Stamps
    BY InputsTyped DEF Sets, TypeOK
  <2>2. stamp' \in [Headered -> Stamps]
    BY <1>5, <2>1, StampedTyped DEF StampBindings, TypeOK
  <2>3. bindings' \in [Crates -> Stamps]
    BY <1>5, <2>1 DEF StampBindings, TypeOK
  <2> QED BY <1>5, <2>2, <2>3 DEF StampBindings, TypeOK, Steps, command, locals, history
<1>6. ASSUME NEW c \in Crates, StartPlain(c) PROVE TypeOK'
  BY <1>6 DEF StartPlain, TypeOK, Steps, tree, command, locals, history
<1>7. ASSUME NEW c \in Crates, SetVersion(c) PROVE TypeOK'
  <2>1. holds' \in [Files -> Versions]
    BY <1>7 DEF SetVersion, TypeOK, Commands
  <2>2. CASE Version(c) = cmd.to
    <3>1. End("failed")
      BY <1>7, <2>2 DEF SetVersion
    <3> QED BY <1>7, <2>1, <3>1, EndTyped DEF SetVersion, TypeOK, history
  <2>3. CASE Version(c) # cmd.to
    BY <1>7, <2>1, <2>3 DEF SetVersion, TypeOK, Steps, command, locals, history
  <2> QED BY <2>2, <2>3
<1>8. ASSUME NEW c \in Crates, Bump(c) PROVE TypeOK'
  <2>1. CASE Version(c) = MaxVersion
    <3>1. End("failed") /\ UNCHANGED holds
      BY <1>8, <2>1 DEF Bump
    <3> QED BY <1>8, <3>1, EndTyped DEF Bump, TypeOK, history
  <2>2. CASE Version(c) # MaxVersion
    <3>1. Version(c) \in Versions /\ Version(c) + 1 \in Versions
      BY <2>2, VersionTyped DEF Versions
    <3>2. holds' = [holds EXCEPT ![From[c]] = Version(c) + 1]
      BY <1>8, <2>2 DEF Bump, Version
    <3> QED BY <1>8, <2>2, <3>1, <3>2 DEF Bump, TypeOK, Steps, command, locals, history
  <2> QED BY <2>1, <2>2
<1>9. ASSUME NEW c \in Crates, ReadVersion(c) PROVE TypeOK'
  <2>1. Version(c) \in Versions
    BY VersionTyped
  <2> QED BY <1>0, <1>9, <2>1 DEF ReadVersion, TypeOK, Steps, tree, command, history
<1>10. ASSUME NEW f \in Files, Visit(f) PROVE TypeOK'
  BY <1>10 DEF Visit, TypeOK, command, history
<1>11. ASSUME NEW c \in Crates, NEW f \in Files, VisitFails(c, f) PROVE TypeOK'
  <2>1. faults' \in 0..MaxFaults /\ lost' \in BOOLEAN /\ gens' \in 0..2
        /\ UNCHANGED <<holds, pin, apps, readme, stamp, bindings, edits, synced, calm>>
    BY <1>11 DEF VisitFails, TypeOK, tree
  <2>2. CASE left' = left \ {f} /\ UNCHANGED <<command, pc, v, updated, outcome>>
    BY <2>1, <2>2 DEF TypeOK, command
  <2>3. CASE CrateDone(c)
    BY <2>1, <2>3, CrateDoneTyped DEF TypeOK
  <2>4. CASE End("failed")
    BY <2>1, <2>4, EndTyped DEF TypeOK
  <2> QED BY <1>11, <2>2, <2>3, <2>4 DEF VisitFails
<1>12. CASE AllVisited
  BY <1>12 DEF AllVisited, TypeOK, Steps, tree, command, locals, history
<1>13. ASSUME NEW c \in Crates, Finalize(c) PROVE TypeOK'
  <2>1. Inputs(c, "all") \in Stamps
    BY InputsTyped DEF Sets, TypeOK
  <2>2. stamp' \in [Headered -> Stamps]
    BY <1>13, <2>1, StampedTyped DEF Finalize, TypeOK
  <2> QED BY <1>13, <2>2 DEF Finalize, TypeOK, Steps, command, locals, history
<1>14. CASE SyncPins
  <2>1. pin' \in Versions /\ faults' \in 0..MaxFaults /\ lost' \in BOOLEAN /\ gens' \in 0..2 /\ pc' \in Steps
    <3>1. \/ pin' = v /\ faults' = faults /\ lost' = lost /\ gens' = gens
          \/ pin' = pin /\ faults < MaxFaults /\ faults' = faults + 1 /\ lost' = TRUE /\ gens' = 0
      BY <1>14 DEF SyncPins
    <3>2. pc' \in Steps
      BY <1>14 DEF SyncPins, Steps
    <3>3. pin \in Versions /\ v \in Versions /\ faults \in 0..MaxFaults /\ lost \in BOOLEAN /\ gens \in 0..2
      BY DEF TypeOK
    <3>4. lost' \in BOOLEAN
      BY <3>1, <3>3, Zenon
    <3>5. faults' \in 0..MaxFaults
      <4>1. CASE faults' = faults
        BY <3>3, <4>1
      <4>2. CASE faults < MaxFaults /\ faults' = faults + 1
        BY <3>3, <4>2
      <4> QED BY <3>1, <4>1, <4>2, Zenon
    <3>6. gens' \in 0..2
      BY <3>1, <3>3
    <3> QED BY <3>1, <3>2, <3>3, <3>4, <3>5, <3>6, Zenon
  <2>2. UNCHANGED <<holds, apps, readme, stamp, bindings, cmd, todo, v, left, updated, outcome, edits, synced, calm>>
    BY <1>14 DEF SyncPins, command, locals
  <2> QED BY <2>1, <2>2 DEF TypeOK
<1>15. ASSUME NEW c \in Crates, RegenApps(c) PROVE TypeOK'
  BY <1>15 DEF RegenApps, TypeOK, Steps, command, locals, history
<1>16. ASSUME NEW c \in Crates, RegenScaffold(c) PROVE TypeOK'
  <2>1. Inputs(c, "all") \in Stamps /\ Version(c) \in Versions
    BY InputsTyped, VersionTyped DEF Sets, TypeOK
  <2>2. stamp' \in [Headered -> Stamps]
    BY <1>16, <2>1, StampedTyped DEF RegenScaffold, TypeOK
  <2> QED BY <1>16, <2>1, <2>2 DEF RegenScaffold, TypeOK, Steps, command, locals, history
<1>17. ASSUME NEW c \in Crates, Readmes(c) PROVE TypeOK'
  <2>1. Version(c) \in Versions
    BY VersionTyped
  <2>2. CrateDone(c) /\ synced' \subseteq Crates /\ gens' \in 0..2
    BY <1>17 DEF Readmes, Synced, TypeOK
  <2>3. readme' \in [Crates -> Versions]
    BY <1>17, <2>1 DEF Readmes, TypeOK
  <2> QED BY <1>17, <2>2, <2>3, CrateDoneTyped DEF Readmes, TypeOK
<1>18. ASSUME NEW c \in Crates, Warned(c) PROVE TypeOK'
  <2>1. faults' \in 0..MaxFaults /\ lost' \in BOOLEAN /\ gens' \in 0..2
        /\ UNCHANGED <<holds, pin, apps, readme, stamp, bindings, edits, calm>>
    BY <1>18 DEF Warned, TypeOK, tree
  <2>2. CASE pc = "readme"
    <3>1. CrateDone(c) /\ synced' \subseteq Crates
      BY <1>18, <2>2 DEF Warned, TypeOK
    <3> QED BY <2>1, <3>1, CrateDoneTyped DEF TypeOK
  <2>3. CASE pc # "readme"
    <3>1. pc' \in Steps /\ UNCHANGED <<synced, cmd, todo, v, left, updated, outcome>>
      BY <1>18, <2>3 DEF Warned, Steps, command, locals
    <3> QED BY <2>1, <3>1 DEF TypeOK
  <2> QED BY <2>2, <2>3
<1>19. CASE Kill
  <2>1. End("killed") /\ faults' \in 0..MaxFaults /\ gens' = 0
        /\ UNCHANGED <<holds, pin, apps, readme, stamp, bindings, edits, synced, lost, calm>>
    BY <1>19 DEF Kill, TypeOK, tree
  <2> QED BY <2>1, EndTyped DEF TypeOK
<1>20. CASE UNCHANGED vars
  BY <1>20 DEF vars, tree, command, locals, history, TypeOK
<1> QED BY <1>1, <1>2, <1>3, <1>4, <1>5, <1>6, <1>7, <1>8, <1>9, <1>10, <1>11, <1>12, <1>13, <1>14,
           <1>15, <1>16, <1>17, <1>18, <1>19, <1>20 DEF Next, Crate, Developer

\* Every command keeps the types of the files, the stamps and its locals.
THEOREM SyncTypeCorrect == Spec => []TypeOK
BY TypeOKInit, TypeOKStep, PTL DEF Spec

-----------------------------------------------------------------------------
(* The crate at work, and the shapes of the steps.                         *)

LEMMA OneCurrent ==
    ASSUME TypeOK, NEW c \in Crates, NEW d \in Crates, Current(c), Current(d) PROVE c = d
BY SyncAssumption DEF SyncAssumption, TypeOK, Current, Least

LEMMA SomeCurrent == ASSUME TypeOK, todo # {} PROVE \E c \in Crates : Current(c)
<1>0. todo \in SUBSET Nat
  BY SyncAssumption DEF SyncAssumption, TypeOK
<1>1. PICK c \in todo : \A d \in todo : ~(<<d, c>> \in OpToRel(<, Nat))
  BY <1>0, NatLessThanWellFounded, WFMin
<1>2. ASSUME NEW d \in todo, d < c PROVE FALSE
  <2>1. <<d, c>> \in OpToRel(<, Nat)
    BY <1>0, <1>2 DEF OpToRel
  <2> QED BY <1>1, <2>1
<1>3. Least(c, todo)
  BY <1>0, <1>2 DEF Least
<1> QED BY <1>3 DEF Current, TypeOK

Written == {"finalize", "pins", "apps", "scaffold", "readme"}

\* Where a command is: the crates it has left come after those it has synced,
\* and --bump is given for one crate unless BumpAll.
CommandInv ==
    /\ pc = "idle" <=> todo = {}
    /\ pc # "idle" => outcome = None
    /\ pc = "stamp" => cmd.kind = "generate"
    /\ pc \in {"apps", "scaffold"} => cmd.regen
    /\ \A s \in synced, t \in todo : s < t
    /\ ~BumpAll /\ cmd.kind = "bump" /\ pc # "idle" => synced = {} /\ \A c, d \in todo : c = d

\* The latest command has lost nothing so far.
Good == ~lost /\ outcome \in {None, "ok"}

\* The steps of a command that go well.
Goes(c) ==
    \/ Emit(c) \/ StampBindings(c) \/ StartPlain(c)
    \/ SetVersion(c) /\ pc' = "read"
    \/ Bump(c) /\ pc' = "read"
    \/ ReadVersion(c) \/ (\E f \in Files : Visit(f)) \/ AllVisited \/ Finalize(c)
    \/ SyncPins /\ pin' = v
    \/ RegenApps(c) \/ RegenScaffold(c)

\* All but the last of a crate leave the command at it.
LEMMA GoesOn ==
    ASSUME TypeOK, CommandInv, NEW c \in Crates, Current(c), Goes(c), ~lost'
    PROVE  /\ pc # "idle" /\ pc' \notin {"idle", "begin"} /\ ~lost
           /\ UNCHANGED <<cmd, todo, synced, outcome, gens, calm>>
<1>1. pc # "idle" /\ pc' \notin {"idle", "begin"}
  BY DEF Goes, Emit, StampBindings, StartPlain, SetVersion, Begins, Bump, ReadVersion, Visit, AllVisited,
         Finalize, SyncPins, RegenApps, RegenScaffold
<1>2. UNCHANGED <<synced, gens, calm>>
  BY DEF Goes, Emit, StampBindings, StartPlain, SetVersion, Bump, ReadVersion, Visit, AllVisited,
         Finalize, SyncPins, RegenApps, RegenScaffold, history
<1>3. UNCHANGED <<cmd, todo, outcome>>
  BY DEF Goes, Emit, StampBindings, StartPlain, SetVersion, Bump, End, ReadVersion, Visit, AllVisited,
         Finalize, SyncPins, RegenApps, RegenScaffold, command
<1>4. ~lost
  <2>1. lost' = lost \/ SyncPins
    BY DEF Goes, Emit, StampBindings, StartPlain, SetVersion, Bump, ReadVersion, Visit, AllVisited,
           Finalize, RegenApps, RegenScaffold, history
  <2>2. SyncPins => lost' = lost \/ lost' = TRUE
    BY DEF SyncPins
  <2> QED BY <2>1, <2>2
<1> QED BY <1>1, <1>2, <1>3, <1>4

\* An edit, or the begin of a command.
Between ==
    /\ pc = "idle" /\ synced' = {}
    /\ pc' = "begin" \/ (pc' = "idle" /\ todo' = todo /\ outcome' = outcome /\ calm' = calm /\ gens' = 0)

LEMMA Shapes ==
    ASSUME TypeOK, CommandInv, [Next]_vars, Good'
    PROVE  \/ UNCHANGED vars
           \/ Between
           \/ \E c \in Crates : Current(c) /\ Good /\ (Goes(c) \/ Readmes(c))
<1>0. ~lost' /\ outcome' \in {None, "ok"} /\ None \notin {"ok", "failed", "killed"}
  BY SyncAssumption DEF SyncAssumption, Good
<1>1. ASSUME NEW f \in Files, Edit(f) PROVE Between
  BY <1>1 DEF Edit, command, Between
<1>2. CASE EditPin
  BY <1>2 DEF EditPin, command, Between
<1>3. ASSUME NEW k \in Given, NEW S \in SUBSET Crates, Begin(k, S) PROVE Between
  BY <1>3 DEF Begin, Between
<1>4. CASE Kill
  BY <1>0, <1>4 DEF Kill, End
<1>5. ASSUME NEW c \in Crates, Warned(c) PROVE FALSE
  BY <1>0, <1>5 DEF Warned
<1>6. ASSUME NEW c \in Crates, NEW f \in Files, VisitFails(c, f) PROVE FALSE
  BY <1>0, <1>6 DEF VisitFails
<1>7. ASSUME NEW c \in Crates, Crate(c), ~Readmes(c) PROVE Current(c) /\ Goes(c)
  <2>1. CASE SetVersion(c)
    <3>1. ~End("failed")
      BY <1>0 DEF End
    <3> QED BY <2>1, <3>1 DEF SetVersion, Begins, Goes
  <2>2. CASE Bump(c)
    <3>1. ~End("failed")
      BY <1>0 DEF End
    <3> QED BY <2>2, <3>1 DEF Bump, Begins, Goes
  <2>3. CASE Emit(c) \/ StampBindings(c) \/ StartPlain(c) \/ ReadVersion(c)
    BY <2>3 DEF Emit, StampBindings, StartPlain, Begins, ReadVersion, Goes
  <2>4. CASE Finalize(c) \/ RegenApps(c) \/ RegenScaffold(c)
    BY <2>4 DEF Finalize, RegenApps, RegenScaffold, Goes
  <2> QED BY <1>5, <1>6, <1>7, <2>1, <2>2, <2>3, <2>4 DEF Crate
<1>8. ASSUME (\E f \in Files : Visit(f)) \/ AllVisited \/ SyncPins PROVE \E c \in Crates : Current(c) /\ Goes(c)
  <2>1. pc # "idle"
    BY <1>8 DEF Visit, AllVisited, SyncPins
  <2>2. PICK c \in Crates : Current(c)
    BY <2>1, SomeCurrent DEF CommandInv
  <2>3. SyncPins => pin' = v
    BY <1>0 DEF SyncPins
  <2> QED BY <1>8, <2>2, <2>3 DEF Goes
<1>9. ASSUME NEW c \in Crates, Current(c), Goes(c) PROVE Good
  <2>1. pc # "idle" /\ ~lost
    BY <1>0, <1>9, GoesOn
  <2> QED BY <2>1 DEF CommandInv, Good
<1>10. ASSUME NEW c \in Crates, Readmes(c) PROVE Current(c) /\ Good
  BY <1>0, <1>10 DEF Readmes, CommandInv, Good
<1>11. ASSUME NEW c \in Crates, Crate(c) PROVE Current(c) /\ Good /\ (Goes(c) \/ Readmes(c))
  BY <1>7, <1>9, <1>10, <1>11
<1>12. ASSUME (\E f \in Files : Visit(f)) \/ AllVisited \/ SyncPins
       PROVE  \E c \in Crates : Current(c) /\ Good /\ (Goes(c) \/ Readmes(c))
  BY <1>8, <1>9, <1>12
<1>13. CASE \E c \in Crates : Crate(c)
  BY <1>11, <1>13
<1> QED BY <1>1, <1>2, <1>3, <1>4, <1>12, <1>13 DEF Next, Developer

-----------------------------------------------------------------------------
(* Where a command is.                                                     *)

LEMMA CommandInit == Init => CommandInv
BY DEF Init, CommandInv

LEMMA EndLeaves ==
    ASSUME CommandInv, NEW how, End(how), synced' = synced PROVE CommandInv'
BY DEF CommandInv, End

LEMMA CrateDoneLeaves ==
    ASSUME TypeOK, CommandInv, pc \notin {"idle", "begin"}, NEW c \in Crates, Current(c), CrateDone(c),
           synced' \in {synced, synced \cup {c}}
    PROVE  CommandInv'
<1>0. todo \in SUBSET Nat /\ c \in todo /\ \A t \in todo : c <= t
  BY SyncAssumption DEF SyncAssumption, TypeOK, Current, Least
<1>1. CASE todo = {c}
  BY <1>1 DEF CrateDone, End, CommandInv
<1>2. CASE todo # {c}
  <2>1. todo' = todo \ {c} /\ todo' # {} /\ pc' = "begin" /\ outcome' = None /\ cmd' = cmd
    BY <1>0, <1>2 DEF CrateDone, CommandInv
  <2>2. \A s \in synced', t \in todo' : s < t
    BY <1>0, <2>1 DEF CommandInv
  <2>3. ~BumpAll => cmd.kind # "bump"
    BY <1>0, <1>2 DEF CommandInv
  <2> QED BY <2>1, <2>2, <2>3 DEF CommandInv
<1> QED BY <1>1, <1>2

LEMMA CommandStep == ASSUME TypeOK, CommandInv, [Next]_vars PROVE CommandInv'
<1>0. \A c, d \in Crates : Current(c) /\ Current(d) => c = d
  BY OneCurrent
<1>1. ASSUME NEW f \in Files, Edit(f) PROVE CommandInv'
  BY <1>1 DEF Edit, command, CommandInv
<1>2. CASE EditPin
  BY <1>2 DEF EditPin, command, CommandInv
<1>3. ASSUME NEW k \in Given, NEW S \in SUBSET Crates, Begin(k, S) PROVE CommandInv'
  BY <1>3 DEF Begin, CommandInv
<1>4. ASSUME UNCHANGED <<cmd, todo, synced, outcome>>, pc # "idle", pc' \notin {"idle", "stamp"},
             pc' \in {"apps", "scaffold"} => cmd.regen
      PROVE  CommandInv'
  BY <1>4 DEF CommandInv
<1>5. ASSUME NEW c \in Crates, Goes(c), ~Emit(c) PROVE CommandInv'
  <2>1. pc # "idle" /\ pc' \notin {"idle", "stamp"}
    BY <1>5 DEF Goes, StampBindings, StartPlain, SetVersion, Begins, Bump, ReadVersion, Visit, AllVisited,
                Finalize, SyncPins, RegenApps, RegenScaffold
  <2>2. UNCHANGED <<cmd, todo, synced, outcome>>
    BY <1>5 DEF Goes, StampBindings, StartPlain, SetVersion, Bump, End, ReadVersion, Visit, AllVisited,
                Finalize, SyncPins, RegenApps, RegenScaffold, command, history
  <2>3. pc' \in {"apps", "scaffold"} => cmd.regen
    BY <1>5 DEF Goes, StampBindings, StartPlain, SetVersion, Begins, Bump, ReadVersion, Visit, AllVisited,
                Finalize, SyncPins, RegenApps, RegenScaffold, CommandInv
  <2> QED BY <1>4, <2>1, <2>2, <2>3
<1>6. ASSUME NEW c \in Crates, Emit(c) PROVE CommandInv'
  BY <1>6 DEF Emit, command, history, CommandInv
<1>7. ASSUME NEW c \in Crates, SetVersion(c) \/ Bump(c) PROVE CommandInv'
  <2>1. CASE End("failed") /\ synced' = synced
    BY <2>1, EndLeaves
  <2>2. CASE pc' = "read"
    BY <1>5, <1>7, <2>2 DEF Goes, Emit, SetVersion, Bump, Begins
  <2> QED BY <1>7, <2>1, <2>2 DEF SetVersion, Bump, history
<1>8. CASE SyncPins
  <2>1. UNCHANGED <<cmd, todo, synced, outcome>> /\ pc' = (IF cmd.regen THEN "apps" ELSE "readme") /\ pc = "pins"
    BY <1>8 DEF SyncPins, command
  <2> QED BY <1>4, <2>1
<1>9. ASSUME NEW c \in Crates, NEW f \in Files, VisitFails(c, f) PROVE CommandInv'
  <2>1. pc = "write" /\ Current(c) /\ synced' = synced
    BY <1>9 DEF VisitFails
  <2>2. CASE CrateDone(c)
    BY <2>1, <2>2, CrateDoneLeaves
  <2>3. CASE End("failed")
    BY <2>1, <2>3, EndLeaves
  <2>4. CASE UNCHANGED <<command, pc, v, updated, outcome>>
    BY <1>4, <2>1, <2>4 DEF command
  <2> QED BY <1>9, <2>2, <2>3, <2>4 DEF VisitFails
<1>10. ASSUME NEW c \in Crates, Readmes(c) \/ (Warned(c) /\ pc = "readme") PROVE CommandInv'
  <2>1. pc = "readme" /\ Current(c) /\ synced' = synced \cup {c} /\ CrateDone(c)
    BY <1>10 DEF Readmes, Synced, Warned
  <2> QED BY <2>1, CrateDoneLeaves
<1>11. ASSUME NEW c \in Crates, Warned(c), pc # "readme" PROVE CommandInv'
  <2>1. UNCHANGED <<cmd, todo, synced, outcome>> /\ pc \in {"finalize", "apps", "scaffold"}
        /\ pc' = CASE pc = "finalize" -> "pins" [] pc = "apps" -> "scaffold" [] OTHER -> "readme"
    BY <1>11 DEF Warned, command
  <2>2. pc' \in {"pins", "scaffold", "readme"} /\ (pc' = "scaffold" => pc = "apps")
    BY <2>1
  <2> QED BY <1>4, <2>1, <2>2 DEF CommandInv
<1>12. CASE Kill
  BY <1>12, EndLeaves DEF Kill
<1>13. CASE UNCHANGED vars
  BY <1>13 DEF vars, command, history, CommandInv
<1>14. ASSUME NEW c \in Crates, Crate(c) PROVE CommandInv'
  BY <1>5, <1>6, <1>7, <1>9, <1>10, <1>11, <1>14 DEF Crate, Goes
<1>15. CASE (\E f \in Files : Visit(f)) \/ AllVisited
  <2>1. pc # "idle"
    BY <1>15 DEF Visit, AllVisited
  <2>2. PICK c \in Crates : Current(c)
    BY <2>1, SomeCurrent DEF CommandInv
  <2>3. ~Emit(c)
    BY <1>15 DEF Visit, AllVisited, Emit
  <2> QED BY <1>5, <1>15, <2>3 DEF Goes
<1> QED BY <1>1, <1>2, <1>3, <1>8, <1>12, <1>13, <1>14, <1>15 DEF Next, Developer

-----------------------------------------------------------------------------
(* What a command has told so far.                                         *)

\* The crates whose version this command has told, or is telling.
Known(t) == t \in synced \/ (Current(t) /\ pc \notin {"idle", "begin"})
Told(x)  == \E t \in Crates : Known(t) /\ x = Version(t)

\* The crate at work, as far as its sync has come.
CurrentOk(c) ==
    /\ pc \in {"write"} \cup Written => v = Version(c) /\ left \subseteq Of[c] /\ \A f \in Of[c] \ left : holds[f] = v
    /\ pc \in Written => left = {}
    /\ pc \in {"apps", "scaffold", "readme"} => pin = v
    /\ pc \in {"scaffold", "readme"} /\ cmd.regen => apps[c] = v
    /\ pc # "begin" /\ cmd.kind = "set" => Version(c) = cmd.to

CurrentInv == \A c \in Crates : Good /\ Current(c) => CurrentOk(c)

\* All that members of the workspace hold is the version of one crate: of the
\* last that is no member, where one was synced.
OneShared(s) ==
    /\ \A c \in Crates : Shared(c) => Version(c) = Version(s)
    /\ Shared(s) => \A t \in synced : Shared(t)

FilesTold == \A s \in synced : \A f \in Of[s] : Told(holds[f])
PinTold   == synced # {} => Told(pin)
AppsTold  == cmd.regen => \A s \in synced : Told(apps[s])
SetTold   == cmd.kind = "set" => \A s \in synced : Version(s) = cmd.to
Members   == synced # {} /\ (pc \in {"idle", "begin"} \/ \E c \in Crates : Current(c) /\ Shared(c))
                => \E s \in synced : OneShared(s)

AgreeInv == Good => FilesTold /\ PinTold /\ AppsTold /\ SetTold /\ Members

\* All that this section's invariants rest on.
Placed == TypeOK /\ CommandInv /\ CurrentInv /\ AgreeInv

\* A step writes files of the crate at work, and its own version_from, and what
\* it writes is the version of that crate.
LEMMA FilesWritten ==
    ASSUME TypeOK, CurrentInv, Good, NEW c \in Crates, Current(c), Goes(c)
    PROVE  \A f \in Files :
              \/ holds'[f] = holds[f]
              \/ holds'[f] = Version(c)' /\ f \in Of[c]
              \/ holds'[f] = Version(c)' /\ f = From[c] /\ pc = "begin" /\ cmd.kind # "generate"
<1>0. From[c] \in Files /\ Of[c] \subseteq Files /\ Keeps[c] \subseteq Of[c] /\ Emits[c] \subseteq Of[c]
  BY SyncAssumption DEF SyncAssumption
<1>1. holds \in [Files -> Versions]
  BY DEF TypeOK
<1>2. CASE UNCHANGED holds
  BY <1>2
<1>3. CASE Emit(c)
  BY <1>0, <1>1, <1>3 DEF Emit, Version
<1>4. CASE SetVersion(c) /\ pc' = "read"
  <2>1. holds' = [holds EXCEPT ![From[c]] = cmd.to] \/ UNCHANGED holds
    BY <1>4 DEF SetVersion
  <2> QED BY <1>0, <1>1, <1>2, <1>4, <2>1 DEF SetVersion, Begins, Version
<1>5. CASE Bump(c) /\ pc' = "read"
  <2>1. holds' = [holds EXCEPT ![From[c]] = @ + 1] \/ UNCHANGED holds
    BY <1>5 DEF Bump
  <2> QED BY <1>0, <1>1, <1>2, <1>5, <2>1 DEF Bump, Begins, Version
<1>6. ASSUME NEW f \in Files, Visit(f)
      PROVE  \A g \in Files : holds'[g] = holds[g] \/ (holds'[g] = Version(c)' /\ g \in Of[c])
  <2>1. pc = "write" /\ f \in left /\ holds' = [holds EXCEPT ![f] = v]
    BY <1>6 DEF Visit, Least
  <2>2. v = holds[From[c]] /\ left \subseteq Of[c]
    BY <2>1 DEF CurrentInv, CurrentOk, Version
  <2>3. holds'[From[c]] = v
    BY <1>0, <1>1, <2>1, <2>2
  <2> QED BY <1>1, <2>1, <2>2, <2>3 DEF Version
<1>7. CASE RegenScaffold(c)
  BY <1>0, <1>1, <1>7 DEF RegenScaffold, Version
<1>8. CASE StampBindings(c) \/ StartPlain(c) \/ ReadVersion(c) \/ AllVisited \/ Finalize(c) \/ SyncPins \/ RegenApps(c)
  BY <1>2, <1>8 DEF StampBindings, StartPlain, ReadVersion, AllVisited, Finalize, SyncPins, RegenApps, tree
<1> QED BY <1>3, <1>4, <1>5, <1>6, <1>7, <1>8 DEF Goes

LEMMA CurrentKept ==
    ASSUME TypeOK, CurrentInv, Good, NEW c \in Crates, Current(c), Goes(c), pc # "begin"
    PROVE  Version(c)' = Version(c)
<1>0. From[c] \in Files /\ holds \in [Files -> Versions]
  BY SyncAssumption DEF SyncAssumption, TypeOK
<1>1. CASE UNCHANGED holds
  BY <1>1 DEF Version
<1>2. ~(Emit(c) \/ SetVersion(c) \/ Bump(c) \/ StartPlain(c))
  BY DEF Emit, SetVersion, Bump, StartPlain, Begins
<1>3. ASSUME NEW f \in Files, Visit(f) PROVE Version(c)' = Version(c)
  <2>1. v = Version(c) /\ holds' = [holds EXCEPT ![f] = v]
    BY <1>3 DEF Visit, CurrentInv, CurrentOk
  <2> QED BY <1>0, <2>1 DEF Version
<1>4. CASE RegenScaffold(c)
  BY <1>0, <1>4 DEF RegenScaffold, Version
<1>5. CASE StampBindings(c) \/ ReadVersion(c) \/ AllVisited \/ Finalize(c) \/ SyncPins \/ RegenApps(c)
  BY <1>1, <1>5 DEF StampBindings, ReadVersion, AllVisited, Finalize, SyncPins, RegenApps, tree
<1> QED BY <1>2, <1>3, <1>4, <1>5 DEF Goes

\* The version of a crate that is told stays: a member's is written with the
\* same version, and none writes another's.
LEMMA VersionsKept ==
    ASSUME ~BumpAll, VersionFromOrder, Placed, Good, NEW c \in Crates, Current(c), Goes(c), NEW t \in Crates, Known(t)
    PROVE  Version(t)' = Version(t)
<1>0. From[c] \in Files /\ From[t] \in Files /\ holds \in [Files -> Versions]
  BY SyncAssumption DEF SyncAssumption, Placed, TypeOK
<1>1. CASE pc # "begin" /\ t = c
  BY <1>1, CurrentKept DEF Placed
<1>2. CASE t \in synced
  <2>1. t < c /\ t \in Nat /\ c \in Nat
    BY <1>2, SyncAssumption DEF SyncAssumption, Placed, CommandInv, Current, Least
  <2>2. CASE holds'[From[t]] = holds[From[t]]
    BY <2>2 DEF Version
  <2>3. CASE pc # "begin" /\ From[t] \in Of[c] /\ holds'[From[t]] = Version(c)'
    <3>1. Version(c) = Version(t)
      BY <1>2, <2>1, <2>3 DEF Placed, AgreeInv, Shared, VersionFromOrder, Members, OneShared
    <3> QED BY <2>3, <3>1, CurrentKept DEF Placed, Version
  <2>4. CASE pc = "begin"
    <3>1. CASE Emit(c)
      <4>1. holds' = [f \in Files |-> IF f \in Emits[c] THEN Version(c) ELSE holds[f]] /\ Emits[c] \subseteq Of[c]
        BY <3>1, SyncAssumption DEF SyncAssumption, Emit
      <4>2. From[t] \in Of[c] => Version(c) = Version(t)
        BY <1>2, <2>1 DEF Placed, AgreeInv, Shared, VersionFromOrder, Members, OneShared, Version
      <4> QED BY <1>0, <4>1, <4>2 DEF Version
    <3>2. CASE SetVersion(c)
      <4>1. Version(t) = cmd.to
        BY <1>2, <3>2 DEF SetVersion, Placed, AgreeInv, SetTold
      <4> QED BY <1>0, <3>2, <4>1 DEF SetVersion, Version
    <3>3. CASE Bump(c)
      BY <1>2, <2>4, <3>3 DEF Bump, Placed, CommandInv
    <3>4. CASE StartPlain(c)
      BY <3>4 DEF StartPlain, tree, Version
    <3> QED BY <2>4, <3>1, <3>2, <3>3, <3>4 DEF Goes, StampBindings, ReadVersion, Visit, AllVisited, Finalize,
                                                SyncPins, RegenApps, RegenScaffold
  <2> QED BY <1>0, <2>2, <2>3, <2>4, FilesWritten DEF Placed
<1>3. t = c \/ t \in synced
  BY OneCurrent DEF Known, Placed
<1>4. t \in synced \/ pc # "begin"
  BY DEF Known
<1> QED BY <1>1, <1>2, <1>3, <1>4

\* At work on a crate it has told; what was told stays told.
LEMMA ToldKept ==
    ASSUME ~BumpAll, VersionFromOrder, Placed, Good, NEW c \in Crates, Current(c), Goes(c), ~lost'
    PROVE  Known(c)' /\ \A x : Told(x) => Told(x)'
<1>1. pc' \notin {"idle", "begin"} /\ UNCHANGED <<todo, synced>>
  BY GoesOn DEF Placed
<1>2. Known(c)' /\ \A t \in Crates : Known(t) => Known(t)'
  BY <1>1, OneCurrent DEF Known, Current, Placed
<1>3. ASSUME NEW x, Told(x) PROVE Told(x)'
  <2>1. PICK t \in Crates : Known(t) /\ x = Version(t)
    BY <1>3 DEF Told
  <2>2. Known(t)' /\ Version(t)' = Version(t)
    BY <1>2, <2>1, VersionsKept
  <2> QED BY <2>1, <2>2 DEF Told
<1> QED BY <1>2, <1>3

LEMMA PlacedInit == Init => CurrentInv /\ AgreeInv
<1> SUFFICES ASSUME Init PROVE CurrentInv /\ AgreeInv
  OBVIOUS
<1>1. CurrentInv
  BY DEF Init, CurrentInv, Current, Least
<1>2. synced = {} /\ cmd.kind = "sync" /\ ~cmd.regen
  BY DEF Init
<1> QED BY <1>1, <1>2 DEF AgreeInv, FilesTold, PinTold, AppsTold, SetTold, Members

LEMMA CurrentStep ==
    ASSUME Placed, CommandInv', [Next]_vars PROVE CurrentInv'
<1> SUFFICES ASSUME Good', NEW c \in Crates, Current(c)' PROVE CurrentOk(c)'
  BY DEF CurrentInv
<1>0. From[c] \in Files /\ holds \in [Files -> Versions] /\ Of[c] \subseteq Files /\ apps \in [Crates -> Versions]
  BY SyncAssumption DEF SyncAssumption, Placed, TypeOK
<1>1. CASE UNCHANGED vars
  <2>1. Good /\ Current(c)
    BY <1>1 DEF vars, command, history, Good, Current
  <2>2. CurrentOk(c)
    BY <2>1 DEF Placed, CurrentInv
  <2> QED BY <1>1, <2>2 DEF vars, tree, command, locals, CurrentOk, Version
<1>2. CASE pc' \in {"idle", "begin"}
  <2>1. pc' = "begin"
    BY <1>2 DEF CommandInv, Current, Least
  <2> QED BY <2>1 DEF CurrentOk, Written
<1>3. ASSUME NEW d \in Crates, Current(d), Good, Goes(d) PROVE CurrentOk(c)'
  <2>1. ~lost' /\ UNCHANGED <<cmd, todo>>
    BY <1>3, GoesOn DEF Placed, Good
  <2>2. c = d /\ CurrentOk(c)
    BY <1>3, <2>1, OneCurrent DEF Placed, Current, CurrentInv
  <2>3. CASE Emit(c) \/ StartPlain(c)
    <3>1. pc' \in {"stamp", "read"} /\ cmd'.kind # "set"
      BY <2>1, <2>3 DEF Emit, StartPlain
    <3> QED BY <3>1 DEF CurrentOk, Written
  <2>4. CASE StampBindings(c)
    <3>1. pc' = "read" /\ cmd'.kind # "set"
      BY <2>1, <2>4 DEF StampBindings, Placed, CommandInv
    <3> QED BY <3>1 DEF CurrentOk, Written
  <2>5. CASE SetVersion(c) /\ pc' = "read"
    <3>1. Version(c)' = cmd.to
      BY <1>0, <2>5 DEF SetVersion, End, Version
    <3> QED BY <2>1, <2>5, <3>1 DEF CurrentOk, Written
  <2>6. CASE Bump(c) /\ pc' = "read"
    <3>1. cmd'.kind # "set"
      BY <2>1, <2>6 DEF Bump
    <3> QED BY <2>6, <3>1 DEF CurrentOk, Written
  <2>7. CASE ReadVersion(c)
    BY <2>1, <2>2, <2>7 DEF ReadVersion, tree, CurrentOk, Written, Version
  <2>8. ASSUME NEW f \in Files, Visit(f) PROVE CurrentOk(c)'
    <3>1. pc = "write" /\ pc' = "write" /\ left' = left \ {f} /\ holds' = [holds EXCEPT ![f] = v] /\ v' = v
      BY <2>8 DEF Visit
    <3>2. Version(c)' = v /\ left \subseteq Of[c] /\ \A g \in Of[c] \ left : holds[g] = v
      BY <1>3, <2>2, <3>1, CurrentKept DEF CurrentOk, Placed
    <3>3. \A g \in Of[c] \ left' : holds'[g] = v
      BY <1>0, <3>1, <3>2
    <3> QED BY <2>1, <2>2, <3>1, <3>2, <3>3 DEF CurrentOk, Written
  <2>9. CASE AllVisited
    BY <2>1, <2>2, <2>9 DEF AllVisited, tree, locals, CurrentOk, Written, Version
  <2>10. CASE Finalize(c)
    BY <2>1, <2>2, <2>10 DEF Finalize, locals, CurrentOk, Written, Version
  <2>11. CASE SyncPins /\ pin' = v
    BY <2>1, <2>2, <2>11 DEF SyncPins, locals, CurrentOk, Written, Version
  <2>12. CASE RegenApps(c)
    BY <1>0, <2>1, <2>2, <2>12 DEF RegenApps, locals, CurrentOk, Written, Version
  <2>13. CASE RegenScaffold(c)
    <3>1. pc = "scaffold" /\ pc' = "readme" /\ UNCHANGED <<pin, apps, v, left>>
      BY <2>13 DEF RegenScaffold, locals
    <3>2. Version(c) = v /\ left = {} /\ pin = v /\ \A g \in Of[c] : holds[g] = v
      BY <2>2, <3>1 DEF CurrentOk, Written
    <3>3. holds' = [g \in Files |-> IF g \in Keeps[c] \ Emits[c] THEN v ELSE holds[g]]
      BY <2>13, <3>2 DEF RegenScaffold
    <3>4. Version(c)' = v /\ \A g \in Of[c] : holds'[g] = v
      BY <1>0, <3>2, <3>3 DEF Version
    <3> QED BY <2>1, <2>2, <3>1, <3>2, <3>4 DEF CurrentOk, Written
  <2> QED BY <1>3, <2>2, <2>3, <2>4, <2>5, <2>6, <2>7, <2>8, <2>9, <2>10, <2>11, <2>12, <2>13 DEF Goes
<1>4. ASSUME NEW d \in Crates, Readmes(d) PROVE pc' \in {"idle", "begin"}
  BY <1>4 DEF Readmes, Synced, CrateDone, End
<1>5. Between => pc' \in {"idle", "begin"}
  BY DEF Between
<1> QED BY <1>1, <1>2, <1>3, <1>4, <1>5, Shapes DEF Placed

\* The last step of a crate's sync.
LEMMA AgreeReadmes ==
    ASSUME VersionFromOrder, Placed, Good, NEW c \in Crates, Current(c), Readmes(c) PROVE AgreeInv'
<1>1. /\ pc = "readme" /\ synced' = synced \cup {c} /\ pc' \in {"idle", "begin"}
      /\ UNCHANGED <<holds, pin, apps, cmd>>
  BY DEF Readmes, Synced, CrateDone, End
<1>2. v = Version(c) /\ pin = v /\ (cmd.regen => apps[c] = v) /\ (cmd.kind = "set" => Version(c) = cmd.to)
      /\ \A f \in Of[c] : holds[f] = v
  BY <1>1 DEF Placed, CurrentInv, CurrentOk, Written
<1>3. \A t \in Crates : Version(t)' = Version(t)
  BY <1>1 DEF Version
<1>4. \A t \in Crates : Known(t) => Known(t)'
  BY <1>1, OneCurrent DEF Known, Placed
<1>5. \A x : Told(x) => Told(x)'
  BY <1>3, <1>4 DEF Told
<1>6. \A x : x = v => Told(x)'
  BY <1>1, <1>2, <1>3 DEF Told, Known
<1>7. FilesTold'
  BY <1>1, <1>2, <1>5, <1>6 DEF FilesTold, Placed, AgreeInv
<1>8. PinTold' /\ AppsTold'
  BY <1>1, <1>2, <1>5, <1>6 DEF PinTold, AppsTold, Placed, AgreeInv
<1>9. SetTold'
  BY <1>1, <1>2, <1>3 DEF SetTold, Placed, AgreeInv, TypeOK
<1>10. Members'
  <2>1. CASE Shared(c) /\ synced # {}
    <3>1. PICK s \in synced : OneShared(s)
      BY <2>1 DEF Placed, AgreeInv, Members
    <3>2. s \in synced' /\ s \in Crates
      BY <1>1 DEF Placed, TypeOK
    <3>3. OneShared(s)'
      BY <1>1, <1>3, <2>1, <3>1, <3>2 DEF OneShared
    <3> QED BY <3>2, <3>3 DEF Members
  <2>2. CASE ~Shared(c) \/ synced = {}
    <3>1. ASSUME NEW d \in Crates, Shared(d) PROVE Version(d)' = Version(c)'
      BY <1>2, <1>3, <3>1 DEF VersionFromOrder, Version
    <3>2. OneShared(c)'
      BY <1>1, <2>2, <3>1 DEF OneShared
    <3> QED BY <1>1, <3>2 DEF Members
  <2> QED BY <2>1, <2>2
<1> QED BY <1>7, <1>8, <1>9, <1>10 DEF AgreeInv

LEMMA AgreeStep ==
    ASSUME ~BumpAll, VersionFromOrder, Placed, [Next]_vars PROVE AgreeInv'
<1> SUFFICES ASSUME Good' PROVE AgreeInv'
  BY DEF AgreeInv
<1>1. CASE UNCHANGED vars
  <2>1. UNCHANGED <<holds, pin, apps, cmd, todo, pc, outcome, lost, synced>>
    BY <1>1 DEF vars, tree, command, history
  <2>2. (Good <=> Good') /\ (\A t \in Crates : (Known(t) <=> Known(t)') /\ Version(t) = Version(t)')
    BY <2>1 DEF Good, Known, Current, Version
  <2>3. \A x : Told(x) <=> Told(x)'
    BY <2>2 DEF Told
  <2>4. FilesTold' /\ PinTold' /\ AppsTold' /\ SetTold'
    BY <2>1, <2>2, <2>3 DEF Placed, TypeOK, AgreeInv, FilesTold, PinTold, AppsTold, SetTold
  <2>5. Members'
    BY <2>1, <2>2 DEF Placed, AgreeInv, Members, OneShared, Current, TypeOK
  <2> QED BY <2>4, <2>5 DEF AgreeInv
<1>2. CASE Between
  <2>1. synced' = {}
    BY <1>2 DEF Between
  <2>2. FilesTold' /\ PinTold' /\ AppsTold' /\ SetTold' /\ Members'
    BY <2>1 DEF FilesTold, PinTold, AppsTold, SetTold, Members
  <2> QED BY <2>2 DEF AgreeInv
<1>3. ASSUME NEW c \in Crates, Current(c), Good, Goes(c) PROVE AgreeInv'
  <2>0. Of \in [Crates -> SUBSET Files] /\ From \in [Crates -> Files] /\ synced \subseteq Crates
    BY SyncAssumption DEF SyncAssumption, Placed, TypeOK
  <2>1. ~lost' /\ pc # "idle" /\ pc' \notin {"idle", "begin"} /\ UNCHANGED <<cmd, todo, synced>>
    BY <1>3, GoesOn DEF Placed, Good
  <2>2. Known(c)' /\ (\A x : Told(x) => Told(x)')
    BY <1>3, <2>1, ToldKept
  <2>3. Told(Version(c))'
    BY <2>2 DEF Told
  <2>4. FilesTold'
    <3>1. ASSUME NEW s \in synced, NEW f \in Of[s] PROVE Told(holds[f])'
      <4>1. f \in Files
        BY <2>0
      <4>2. Told(holds[f])
        BY <1>3 DEF Placed, AgreeInv, FilesTold
      <4>3. holds'[f] = holds[f] \/ holds'[f] = Version(c)'
        BY <1>3, <4>1, FilesWritten DEF Placed
      <4> QED BY <2>2, <2>3, <4>2, <4>3 DEF Told
    <3> QED BY <2>1, <3>1 DEF FilesTold
  <2>5. SyncPins \/ RegenApps(c) => v = Version(c) /\ Version(c)' = v
    BY <1>3, CurrentKept DEF SyncPins, RegenApps, Placed, CurrentInv, CurrentOk, Written
  <2>6. PinTold'
    <3>1. pin' = pin \/ pin' = Version(c)'
      BY <1>3, <2>5 DEF Goes, Emit, StampBindings, StartPlain, SetVersion, Bump, ReadVersion, Visit, AllVisited,
                        Finalize, RegenApps, RegenScaffold, tree
    <3> QED BY <1>3, <2>1, <2>2, <2>3, <3>1 DEF PinTold, Placed, AgreeInv
  <2>7. AppsTold'
    <3>1. apps' = apps \/ RegenApps(c)
      BY <1>3 DEF Goes, Emit, StampBindings, StartPlain, SetVersion, Bump, ReadVersion, Visit, AllVisited,
                  Finalize, SyncPins, RegenScaffold, tree
    <3>2. CASE apps' = apps
      BY <1>3, <2>1, <2>2, <3>2 DEF AppsTold, Placed, AgreeInv
    <3>3. CASE RegenApps(c)
      <4>1. apps' = [apps EXCEPT ![c] = pin] /\ apps \in [Crates -> Versions] /\ c \notin synced
        BY <1>3, <3>3, SyncAssumption DEF RegenApps, Placed, TypeOK, CommandInv, Current, Least, SyncAssumption
      <4> QED BY <1>3, <2>0, <2>1, <2>2, <4>1 DEF AppsTold, Placed, AgreeInv
    <3> QED BY <3>1, <3>2, <3>3
  <2>8. \A s \in synced : Version(s)' = Version(s)
    BY <1>3, <2>0, VersionsKept DEF Known
  <2>9. SetTold'
    BY <1>3, <2>1, <2>8 DEF SetTold, Placed, AgreeInv
  <2>10. Members'
    <3> SUFFICES ASSUME synced # {}, Shared(c) PROVE \E s \in synced : OneShared(s)'
      BY <1>3, <2>1, OneCurrent DEF Members, Current, Placed
    <3>1. PICK s \in synced : OneShared(s)
      BY <1>3 DEF Placed, AgreeInv, Members
    <3>2. Version(c) = Version(s) /\ Version(s)' = Version(s) /\ s \in Crates
      BY <2>0, <2>8, <3>1 DEF OneShared
    <3>3. Version(c)' = Version(s)
      <4>1. CASE pc # "begin"
        BY <1>3, <3>2, <4>1, CurrentKept DEF Placed
      <4>2. CASE Version(c)' = Version(c)
        BY <3>2, <4>2
      <4>3. CASE pc = "begin" /\ Version(c)' # Version(c)
        <5>1. cmd.kind = "set" \/ cmd.kind = "bump" \/ cmd.kind = "generate"
          BY <1>3, <4>3 DEF Goes, Emit, SetVersion, Bump, StampBindings, StartPlain, ReadVersion, Visit, AllVisited,
             Finalize, SyncPins, RegenApps, RegenScaffold, tree, Version
        <5>2. CASE cmd.kind = "set"
          <6>1. Version(c) = cmd.to
            BY <3>2, <5>2, <1>3 DEF Placed, AgreeInv, SetTold
          <6>2. SetVersion(c) /\ pc' = "read"
            BY <1>3, <4>3, <5>2 DEF Goes, Emit, Bump, StampBindings, StartPlain, ReadVersion, Visit, AllVisited,
               Finalize, SyncPins, RegenApps, RegenScaffold, Begins
          <6> QED BY <6>1, <6>2 DEF SetVersion, End
        <5>3. cmd.kind # "bump"
          BY <4>3 DEF Placed, CommandInv
        <5>4. CASE cmd.kind = "generate"
          <6>1. Emit(c)
            BY <1>3, <4>3, <5>4 DEF Goes, SetVersion, Bump, StampBindings, StartPlain, ReadVersion, Visit, AllVisited,
               Finalize, SyncPins, RegenApps, RegenScaffold, Begins
          <6> QED BY <2>0, <4>3, <6>1 DEF Emit, Version
        <5> QED BY <5>1, <5>2, <5>3, <5>4
      <4> QED BY <4>1, <4>2, <4>3
    <3>4. ASSUME NEW d \in Crates, Shared(d) PROVE Version(d)' = Version(s)'
      <4>1. Version(d) = Version(s)
        BY <3>1, <3>4 DEF OneShared
      <4>2. Version(d)' = Version(d) \/ Version(d)' = Version(c)'
        BY <1>3, <2>0, FilesWritten DEF Placed, Version
      <4> QED BY <3>2, <3>3, <4>1, <4>2
    <3> QED BY <2>1, <3>1, <3>4 DEF OneShared
  <2> QED BY <2>4, <2>6, <2>7, <2>9, <2>10 DEF AgreeInv
<1>4. ASSUME NEW c \in Crates, Current(c), Good, Readmes(c) PROVE AgreeInv'
  BY <1>4, AgreeReadmes
<1> QED BY <1>1, <1>2, <1>3, <1>4, Shapes DEF Placed

-----------------------------------------------------------------------------
(* What a whole command leaves.                                            *)

LEMMA PlacedAlways == ASSUME ~BumpAll, VersionFromOrder PROVE Spec => []Placed
<1>1. Init => Placed
  BY TypeOKInit, CommandInit, PlacedInit DEF Placed
<1>2. ASSUME Placed, [Next]_vars PROVE Placed'
  <2>1. TypeOK' /\ CommandInv'
    BY <1>2, TypeOKStep, CommandStep DEF Placed
  <2>2. CurrentInv' /\ AgreeInv'
    BY <1>2, <2>1, CurrentStep, AgreeStep
  <2> QED BY <2>1, <2>2 DEF Placed
<1> QED BY <1>1, <1>2, PTL DEF Spec

LEMMA PlacedAgrees == ASSUME Placed PROVE SyncedAgree /\ AppsFollow
<1> SUFFICES ASSUME Settled, OneVersion
             PROVE  InSync /\ (cmd.regen => \A c \in Crates : apps[c] = Version(c))
  BY DEF SyncedAgree, AppsFollow
<1>1. synced = Crates /\ FilesTold /\ PinTold /\ AppsTold
  BY DEF Settled, Good, Placed, AgreeInv
<1>2. ASSUME NEW x, Told(x), NEW c \in Crates PROVE x = Version(c)
  BY <1>2 DEF Told, OneVersion
<1>3. \A c \in Crates : Told(pin) /\ \A f \in Of[c] : Told(holds[f])
  BY <1>1 DEF FilesTold, PinTold
<1>4. InSync
  BY <1>2, <1>3 DEF InSync
<1>5. cmd.regen => \A c \in Crates : apps[c] = Version(c)
  BY <1>1, <1>2 DEF AppsTold
<1> QED BY <1>4, <1>5

\* Every file and every pin has the version of its crate when a command has
\* taken all crates to their ends, whatever the state it began in: edited and
\* restored files, and what killed and failed commands left (version.rs:46-670).
THEOREM SyncAgrees == ASSUME ~BumpAll, VersionFromOrder PROVE Spec => []SyncedAgree
BY PlacedAlways, PlacedAgrees, PTL

\* And with --regen the test apps tell it too (version.rs:685-697).
THEOREM RegenFollows == ASSUME ~BumpAll, VersionFromOrder PROVE Spec => []AppsFollow
BY PlacedAlways, PlacedAgrees, PTL

-----------------------------------------------------------------------------
(* A sync where all agrees.                                                *)

CalmInv == calm /\ pc # "idle" =>
    /\ InSync /\ cmd.kind = "sync" /\ ~cmd.regen
    /\ pc \in {"begin", "read", "write", "finalize", "pins", "readme"}
    /\ pc \notin {"begin", "read"} =>
          /\ updated = {}
          /\ \A c \in Crates : Current(c) => v = Version(c) /\ left \subseteq Of[c]

\* No step of such a sync writes: there is a crate at work, whose version is
\* what every file it visits holds.
LEMMA CalmIsSilent ==
    ASSUME ReplacedUnstamped, TypeOK, pc # "idle" => todo # {}, CalmInv, calm, pc # "idle", Next
    PROVE  UNCHANGED tree
<1>0. /\ holds \in [Files -> Versions] /\ apps \in [Crates -> Versions] /\ readme \in [Crates -> Versions]
      /\ stamp \in [Headered -> Stamps] /\ bindings \in [Crates -> Stamps]
  BY DEF TypeOK
<1>1. cmd.kind = "sync" /\ pc \in {"begin", "read", "write", "finalize", "pins", "readme"}
  BY DEF CalmInv
<1>2. PICK d \in Crates : Current(d)
  BY SomeCurrent
<1>3. ASSUME NEW f \in Files, Visit(f) PROVE UNCHANGED tree
  <2>1. f \in Of[d] /\ v = Version(d) /\ holds' = [holds EXCEPT ![f] = v]
    BY <1>2, <1>3 DEF Visit, Least, CalmInv
  <2>2. holds[f] = v
    BY <2>1 DEF CalmInv, InSync
  <2> QED BY <1>0, <1>3, <2>1, <2>2 DEF Visit, tree
<1>4. CASE SyncPins
  <2>1. pin = v
    BY <1>2, <1>4 DEF SyncPins, CalmInv, InSync
  <2> QED BY <1>4, <2>1 DEF SyncPins, tree
<1>5. ASSUME NEW c \in Crates, Finalize(c) PROVE UNCHANGED tree
  <2>1. (updated \cup (Replaced \cap Of[c])) \cap Headered = {}
    BY <1>5 DEF Finalize, CalmInv, ReplacedUnstamped
  <2>2. stamp' = [f \in Headered |-> stamp[f]]
    BY <1>5, <2>1 DEF Finalize, Stamped
  <2> QED BY <1>0, <1>5, <2>2 DEF Finalize, tree
<1>6. ASSUME NEW c \in Crates, Readmes(c) PROVE UNCHANGED tree
  <2>1. updated = {}
    BY <1>6 DEF Readmes, CalmInv
  <2> QED BY <1>6, <2>1 DEF Readmes, tree
<1>7. ASSUME NEW c \in Crates, StartPlain(c) \/ ReadVersion(c) \/ Warned(c) PROVE UNCHANGED tree
  BY <1>7 DEF StartPlain, ReadVersion, Warned
<1>8. ASSUME NEW c \in Crates, NEW f \in Files, VisitFails(c, f) PROVE UNCHANGED tree
  BY <1>8 DEF VisitFails
<1>9. CASE AllVisited \/ Kill
  BY <1>9 DEF AllVisited, Kill
<1>10. ASSUME NEW c \in Crates, Emit(c) \/ StampBindings(c) \/ SetVersion(c) \/ Bump(c) \/ RegenApps(c) \/ RegenScaffold(c)
       PROVE  FALSE
  BY <1>1, <1>10 DEF Emit, StampBindings, SetVersion, Bump, RegenApps, RegenScaffold, Begins
<1>11. ~Developer /\ \A k \in Given, S \in SUBSET Crates : ~Begin(k, S)
  BY DEF Developer, Edit, EditPin, Begin
<1> QED BY <1>3, <1>4, <1>5, <1>6, <1>7, <1>8, <1>9, <1>10, <1>11 DEF Next, Crate

LEMMA CalmStep ==
    ASSUME ReplacedUnstamped, TypeOK, pc # "idle" => todo # {}, CalmInv, [Next]_vars PROVE CalmInv'
<1> SUFFICES ASSUME calm', pc' # "idle"
             PROVE  /\ InSync' /\ cmd'.kind = "sync" /\ ~cmd'.regen
                    /\ pc' \in {"begin", "read", "write", "finalize", "pins", "readme"}
                    /\ pc' \notin {"begin", "read"} =>
                          /\ updated' = {}
                          /\ \A c \in Crates : Current(c)' => v' = Version(c)' /\ left' \subseteq Of[c]
  BY DEF CalmInv
<1>1. CASE UNCHANGED vars
  <2>1. UNCHANGED <<holds, pin, cmd, todo, pc, v, left, updated, calm>>
    BY <1>1 DEF vars, tree, command, locals, history
  <2> QED BY <2>1 DEF CalmInv, InSync, Version, Current
<1>2. ASSUME NEW k \in Given, NEW S \in SUBSET Crates, Begin(k, S)
      PROVE  InSync' /\ cmd'.kind = "sync" /\ ~cmd'.regen /\ pc' = "begin"
  <2>1. InSync /\ k.kind = "sync" /\ ~k.regen /\ cmd' = k /\ pc' = "begin" /\ UNCHANGED <<holds, pin>>
    BY <1>2 DEF Begin, tree
  <2> QED BY <2>1 DEF InSync, Version
<1>3. CASE pc = "idle" /\ Next
  <2>1. ~Kill /\ ~AllVisited /\ ~SyncPins /\ \A f \in Files : ~Visit(f)
    BY <1>3 DEF Kill, AllVisited, SyncPins, Visit
  <2>2. \A c \in Crates : ~Crate(c)
    BY <1>3 DEF Crate, Emit, StampBindings, StartPlain, SetVersion, Bump, Begins, ReadVersion, VisitFails, Finalize,
                RegenApps, RegenScaffold, Readmes, Warned
  <2>3. ~Developer
    BY <1>3 DEF Developer, Edit, EditPin
  <2> QED BY <1>2, <1>3, <2>1, <2>2, <2>3 DEF Next
<1>4. CASE pc # "idle" /\ Next
  <2>0. calm
    BY <1>4 DEF Next, Crate, Developer, Begin, Edit, EditPin, Kill, AllVisited, SyncPins, Visit, Emit, StampBindings,
       StartPlain, SetVersion, Bump, ReadVersion, VisitFails, Finalize, RegenApps, RegenScaffold, Readmes, Warned, history
  <2>1. UNCHANGED tree
    BY <1>4, <2>0, CalmIsSilent
  <2>2. InSync /\ cmd.kind = "sync" /\ ~cmd.regen
    BY <1>4, <2>0 DEF CalmInv
  <2>3. InSync' /\ \A c \in Crates : Version(c)' = Version(c)
    BY <2>1, <2>2 DEF tree, InSync, Version
  <2>4. UNCHANGED cmd
    BY <1>4 DEF Next, Crate, Developer, Begin, Edit, EditPin, Kill, AllVisited, SyncPins, Visit, Emit, StampBindings,
       StartPlain, SetVersion, Bump, ReadVersion, VisitFails, Finalize, RegenApps, RegenScaffold, Readmes, Synced,
       CrateDone, Warned, End, command
  <2>5. CASE pc' = "begin"
    BY <2>2, <2>3, <2>4, <2>5
  <2>6. ASSUME NEW c \in Crates, StartPlain(c) PROVE pc' = "read"
    BY <2>6 DEF StartPlain
  <2>7. ASSUME NEW c \in Crates, ReadVersion(c)
        PROVE  pc' = "write" /\ updated' = {} /\ \A d \in Crates : Current(d)' => v' = Version(d)' /\ left' \subseteq Of[d]
    BY <2>3, <2>7, OneCurrent DEF ReadVersion, command, Current
  <2>8. ASSUME UNCHANGED <<todo, v, updated>>, left' \subseteq left, pc \notin {"begin", "read"}
        PROVE  updated' = {} /\ \A d \in Crates : Current(d)' => v' = Version(d)' /\ left' \subseteq Of[d]
    BY <1>4, <2>0, <2>3, <2>8 DEF CalmInv, Current
  <2>9. ASSUME NEW f \in Files, Visit(f)
        PROVE  pc' = "write" /\ UNCHANGED <<todo, v, updated>> /\ left' \subseteq left /\ pc = "write"
    <3>1. PICK d \in Crates : Current(d)
      BY <1>4, SomeCurrent
    <3>2. holds[f] = v
      BY <1>4, <2>0, <2>9, <3>1 DEF Visit, Least, CalmInv, InSync
    <3> QED BY <2>9, <3>2 DEF Visit, command
  <2>10. ASSUME AllVisited \/ SyncPins \/ \E c \in Crates : Finalize(c)
         PROVE  pc' \in {"finalize", "pins", "readme"} /\ UNCHANGED <<todo, v, updated, left>> /\ pc \notin {"begin", "read"}
    BY <2>2, <2>10 DEF AllVisited, SyncPins, Finalize, command, locals
  <2>11. ASSUME NEW c \in Crates, NEW f \in Files, VisitFails(c, f) PROVE pc' = "begin"
    <3>1. holds[f] = v
      BY <1>4, <2>0, <2>11 DEF VisitFails, Least, CalmInv, InSync
    <3> QED BY <2>11, <3>1 DEF VisitFails
  <2>12. ASSUME NEW c \in Crates, Readmes(c) PROVE pc' = "begin"
    BY <2>12 DEF Readmes, Synced, CrateDone, End
  <2>13. ASSUME NEW c \in Crates, Warned(c)
         PROVE  pc' = "pins" /\ UNCHANGED <<todo, v, updated, left>> /\ pc \notin {"begin", "read"}
    BY <1>4, <2>0, <2>13 DEF Warned, CalmInv, command, locals
  <2>14. ~Kill /\ ~Developer /\ \A k \in Given, S \in SUBSET Crates : ~Begin(k, S)
    BY <1>4 DEF Kill, End, Developer, Edit, EditPin, Begin
  <2>15. ASSUME NEW c \in Crates, Emit(c) \/ StampBindings(c) \/ SetVersion(c) \/ Bump(c) \/ RegenApps(c) \/ RegenScaffold(c)
         PROVE  FALSE
    BY <1>4, <2>0, <2>2, <2>15 DEF Emit, StampBindings, SetVersion, Bump, RegenApps, RegenScaffold, Begins, CalmInv
  <2>16. ASSUME NEW f \in Files, Visit(f)
         PROVE  pc' = "write" /\ updated' = {} /\ \A d \in Crates : Current(d)' => v' = Version(d)' /\ left' \subseteq Of[d]
    BY <2>8, <2>9, <2>16
  <2>17. ASSUME AllVisited \/ SyncPins \/ \E c \in Crates : Finalize(c) \/ Warned(c)
         PROVE  /\ pc' \in {"finalize", "pins", "readme"} /\ updated' = {}
                /\ \A d \in Crates : Current(d)' => v' = Version(d)' /\ left' \subseteq Of[d]
    BY <2>8, <2>10, <2>13, <2>17
  <2>18. ASSUME NEW c \in Crates, Crate(c)
         PROVE  \/ pc' \in {"begin", "read"}
                \/ /\ pc' \in {"write", "finalize", "pins", "readme"} /\ updated' = {}
                   /\ \A d \in Crates : Current(d)' => v' = Version(d)' /\ left' \subseteq Of[d]
    BY <2>6, <2>7, <2>11, <2>12, <2>15, <2>17, <2>18 DEF Crate
  <2> QED BY <1>4, <2>2, <2>3, <2>4, <2>14, <2>16, <2>17, <2>18 DEF Next
<1> QED BY <1>1, <1>3, <1>4

\* A sync that finds everything in agreement changes no file, no pin and no
\* stamp at any of its steps, failing and killed ones included
\* (version.rs:60-740): a gate that runs it and looks for differences is quiet.
THEOREM CalmSyncIsSilent == ASSUME ReplacedUnstamped PROVE Spec => SilentInAgreement
<1>1. Init => TypeOK /\ CommandInv /\ CalmInv
  BY TypeOKInit, CommandInit DEF Init, CalmInv
<1>2. ASSUME TypeOK /\ CommandInv /\ CalmInv, [Next]_vars PROVE (TypeOK /\ CommandInv /\ CalmInv)'
  BY <1>2, TypeOKStep, CommandStep, CalmStep DEF CommandInv
<1>3. ASSUME TypeOK /\ CommandInv /\ CalmInv, [Next]_vars PROVE [calm /\ pc # "idle" => UNCHANGED tree]_vars
  BY <1>3, CalmIsSilent DEF CommandInv
<1> QED BY <1>1, <1>2, <1>3, PTL DEF Spec, SilentInAgreement

-----------------------------------------------------------------------------
(* Two generations.                                                        *)

\* Crates with a root's version, which no sync writes, agree.
Settles == \A c, d \in Crates : ~Shared(c) /\ ~Shared(d) => Version(c) = Version(d)

IsClean(c) ==
    \A st \in {bindings[c]} \cup {stamp[f] : f \in Keeps[c]} : \E d \in Crates : st = Inputs(d, "sources")

\* After one whole generation all agrees, so the next writes no file and no
\* pin, and what it stamps stays clean.
Whole == OneVersion /\ InSync /\ (pc \in {"write"} \cup Written => updated = {})

Cleaned(c) == c \in synced \/ (Current(c) /\ pc \notin {"begin", "stamp"})

Generates == pc # "idle" => cmd.kind = "generate" /\ ~cmd.regen /\ synced \cup todo = Crates
Cleans    == pc # "idle" => \A c \in Crates : Cleaned(c) => IsClean(c)
AllClean  == pc = "idle" /\ gens = 2 => \A c \in Crates : IsClean(c)

GensInv == gens >= 1 => Good /\ Generates /\ (Settles => Whole /\ Cleans /\ AllClean)

\* One version, where members' versions were told last.
LEMMA SettledAgrees ==
    ASSUME Placed', Good', synced' = Crates, pc' = "idle", Settles' PROVE OneVersion' /\ InSync'
<1>1. OneVersion'
  <2> SUFFICES ASSUME NEW c \in Crates, NEW d \in Crates PROVE Version(c)' = Version(d)'
    BY DEF OneVersion
  <2>1. PICK s \in Crates : OneShared(s)'
    BY DEF Placed, AgreeInv, Members
  <2>2. \A x, y \in Crates : Shared(x) /\ ~Shared(y) => Version(x)' = Version(y)'
    BY <2>1 DEF OneShared, Settles
  <2> QED BY <2>1, <2>2 DEF OneShared, Settles
<1>2. FilesTold' /\ PinTold'
  BY DEF Placed, AgreeInv
<1>3. ASSUME NEW x, Told(x)', NEW c \in Crates PROVE x = Version(c)'
  BY <1>1, <1>3 DEF Told, OneVersion
<1> QED BY <1>1, <1>2, <1>3 DEF InSync, FilesTold, PinTold

\* The generation of a crate where all agrees: nothing but stamps changes.
LEMMA GenerateKeeps ==
    ASSUME Placed, Good, cmd.kind = "generate", ~cmd.regen, NEW c \in Crates, Current(c), Goes(c), ~lost', Settles'
    PROVE  Settles /\ (Whole => UNCHANGED <<holds, pin>> /\ Whole')
<1>0. /\ holds \in [Files -> Versions] /\ From \in [Crates -> Files] /\ Of[c] \subseteq Files /\ Emits[c] \subseteq Of[c]
      /\ pc # "idle" /\ todo' = todo
  BY SyncAssumption, GoesOn DEF SyncAssumption, Placed, TypeOK
<1>1. \A d \in Crates : ~Shared(d) => Version(d)' = Version(d)
  BY <1>0, FilesWritten DEF Placed, Shared, Version
<1>2. Settles
  BY <1>1 DEF Settles
<1>3. pc \notin {"apps", "scaffold"}
  BY DEF Placed, CommandInv
<1>4. ASSUME Whole PROVE UNCHANGED <<holds, pin>>
  <2>1. \A f \in Of[c] : holds[f] = Version(c)
    BY <1>4 DEF Whole, InSync
  <2>2. CASE Emit(c)
    <3>1. holds' = [f \in Files |-> IF f \in Emits[c] THEN Version(c) ELSE holds[f]] /\ pin' = pin
      BY <2>2 DEF Emit
    <3> QED BY <1>0, <2>1, <3>1
  <2>3. ASSUME NEW f \in Files, Visit(f) PROVE UNCHANGED <<holds, pin>>
    <3>1. f \in Of[c] /\ v = Version(c) /\ holds' = [holds EXCEPT ![f] = v] /\ pin' = pin
      BY <2>3 DEF Visit, Least, Placed, CurrentInv, CurrentOk
    <3> QED BY <1>0, <2>1, <3>1
  <2>4. CASE SyncPins /\ pin' = v
    <3>1. v = Version(c) /\ pin = Version(c) /\ holds' = holds
      BY <1>4, <2>4 DEF SyncPins, Placed, CurrentInv, CurrentOk, Written, Whole, InSync
    <3> QED BY <2>4, <3>1
  <2>5. CASE StampBindings(c) \/ ReadVersion(c) \/ AllVisited \/ Finalize(c)
    BY <2>5 DEF StampBindings, ReadVersion, AllVisited, Finalize, tree
  <2> QED BY <1>3, <2>2, <2>3, <2>4, <2>5 DEF Goes, StartPlain, SetVersion, Bump, RegenApps, RegenScaffold
<1>5. ASSUME Whole PROVE Whole'
  <2>1. UNCHANGED <<holds, pin>>
    BY <1>4, <1>5
  <2>2. OneVersion' /\ InSync'
    BY <1>5, <2>1 DEF Whole, OneVersion, InSync, Version
  <2>3. CASE Emit(c) \/ StampBindings(c)
    BY <2>2, <2>3 DEF Emit, StampBindings, Whole, Written
  <2>4. CASE ReadVersion(c)
    BY <2>2, <2>4 DEF ReadVersion, Whole, Written
  <2>5. ASSUME NEW f \in Files, Visit(f) PROVE Whole'
    <3>1. f \in Of[c] /\ v = Version(c) /\ updated = {}
      BY <1>5, <2>5 DEF Visit, Least, Placed, CurrentInv, CurrentOk, Whole
    <3>2. holds[f] = v
      BY <1>5, <3>1 DEF Whole, InSync
    <3> QED BY <2>2, <2>5, <3>1, <3>2 DEF Visit, Whole
  <2>6. CASE AllVisited \/ Finalize(c) \/ SyncPins
    <3>1. updated = {} /\ updated' = updated
      BY <1>5, <2>6 DEF AllVisited, Finalize, SyncPins, locals, Whole, Written
    <3> QED BY <2>2, <3>1 DEF Whole
  <2> QED BY <1>3, <2>3, <2>4, <2>5, <2>6 DEF Goes, StartPlain, SetVersion, Bump, RegenApps, RegenScaffold
<1> QED BY <1>2, <1>4, <1>5

\* Stamps change to clean ones only.
LEMMA GenerateStamps ==
    ASSUME ReplacedUnstamped, Placed, Good, cmd.kind = "generate", ~cmd.regen, Whole, UNCHANGED pin,
           NEW c \in Crates, Current(c), Goes(c)
    PROVE  /\ StampBindings(c) => IsClean(c)'
           /\ \A d \in Crates : IsClean(d) => IsClean(d)'
<1>0. /\ stamp \in [Headered -> Stamps] /\ bindings \in [Crates -> Stamps]
      /\ \A d \in Crates : Keeps[d] \subseteq Headered
      /\ \A d \in Crates : Inputs(d, "sources")' = Inputs(d, "sources")
  BY SyncAssumption DEF SyncAssumption, Placed, TypeOK, Inputs
<1>1. CASE StampBindings(c)
  <2>1. /\ stamp' = [f \in Headered |-> IF f \in Keeps[c] THEN Inputs(c, "sources") ELSE stamp[f]]
        /\ bindings' = [bindings EXCEPT ![c] = Inputs(c, "sources")]
    BY <1>1 DEF StampBindings, Stamped
  <2>2. IsClean(c)'
    BY <1>0, <2>1 DEF IsClean
  <2>3. ASSUME NEW d \in Crates, IsClean(d) PROVE IsClean(d)'
    <3>1. bindings'[d] \in {bindings[d], Inputs(c, "sources")}
      BY <1>0, <2>1
    <3>2. \A f \in Keeps[d] : stamp'[f] \in {stamp[f], Inputs(c, "sources")}
      BY <1>0, <2>1
    <3> QED BY <1>0, <2>3, <3>1, <3>2 DEF IsClean
  <2> QED BY <2>2, <2>3
<1>2. CASE Finalize(c)
  <2>1. (updated \cup (Replaced \cap Of[c])) \cap Headered = {}
    BY <1>2 DEF Finalize, Whole, Written, ReplacedUnstamped
  <2>2. stamp' = [f \in Headered |-> stamp[f]] /\ bindings' = bindings
    BY <1>2, <2>1 DEF Finalize, Stamped
  <2> QED BY <1>0, <1>2, <2>2 DEF Finalize, StampBindings, IsClean
<1>3. CASE ~StampBindings(c) /\ UNCHANGED <<stamp, bindings>>
  BY <1>0, <1>3 DEF IsClean
<1>4. ~RegenScaffold(c)
  BY DEF RegenScaffold, Placed, CommandInv
<1> QED BY <1>1, <1>2, <1>3, <1>4 DEF Goes, Emit, StartPlain, SetVersion, Bump, ReadVersion, Visit, AllVisited,
           SyncPins, RegenApps, tree

\* The last crate of a whole generation ends the command.
LEMMA LastCrate ==
    ASSUME TypeOK, CommandInv, NEW c \in Crates, Current(c), Readmes(c)
    PROVE  /\ todo = {c} => pc' = "idle" /\ outcome' = "ok"
           /\ todo # {c} => pc' = "begin" /\ todo' = todo \ {c} /\ outcome' = outcome
           /\ synced \cup {c} = Crates => todo = {c}
           /\ synced' = synced \cup {c} /\ UNCHANGED <<cmd, lost>>
<1>1. todo \in SUBSET Nat /\ c \in todo /\ todo \subseteq Crates
  BY SyncAssumption DEF SyncAssumption, TypeOK, Current, Least
<1>2. ASSUME NEW s \in synced, s \in todo PROVE FALSE
  <2>1. s < s /\ s \in Nat
    BY <1>1, <1>2 DEF CommandInv
  <2> QED BY <2>1
<1> QED BY <1>1, <1>2 DEF Readmes, Synced, CrateDone, End

LEMMA GensReadmes ==
    ASSUME Placed, Placed', GensInv, Good, NEW c \in Crates, Current(c), Readmes(c) PROVE GensInv'
<1> SUFFICES ASSUME gens' >= 1 PROVE Good' /\ Generates' /\ (Settles' => Whole' /\ Cleans' /\ AllClean')
  BY DEF GensInv
<1>1. /\ todo = {c} => pc' = "idle" /\ outcome' = "ok"
      /\ todo # {c} => pc' = "begin" /\ todo' = todo \ {c} /\ outcome' = outcome
      /\ synced \cup {c} = Crates => todo = {c}
      /\ synced' = synced \cup {c} /\ cmd' = cmd /\ lost' = lost
  BY LastCrate DEF Placed
<1>2. /\ UNCHANGED <<holds, pin, apps, stamp, bindings>> /\ pc = "readme" /\ c \in todo /\ synced \subseteq Crates
      /\ gens' = IF cmd.kind = "generate" /\ synced \cup {c} = Crates /\ ~lost /\ gens < 2 THEN gens + 1 ELSE gens
      /\ gens \in 0..2
  BY DEF Readmes, Synced, Current, Least, Placed, TypeOK
<1>3. pc' \in {"idle", "begin"}
  BY <1>1
<1>4. Good'
  BY <1>1 DEF Good
<1>5. gens >= 1 \/ (synced \cup {c} = Crates /\ gens' = 1)
  BY <1>2
<1>6. Generates'
  BY <1>1, <1>2, <1>5 DEF Generates, GensInv
<1>7. ASSUME Settles' PROVE OneVersion' /\ InSync' /\ Settles
  <2>1. Settles
    BY <1>2, <1>7 DEF Settles, Version
  <2>2. CASE gens >= 1
    <3>1. OneVersion /\ InSync
      BY <2>1, <2>2 DEF GensInv, Whole
    <3> QED BY <1>2, <2>1, <3>1 DEF OneVersion, InSync, Version
  <2>3. CASE synced \cup {c} = Crates
    <3>1. pc' = "idle" /\ synced' = Crates
      BY <1>1, <2>3
    <3>2. OneVersion' /\ InSync'
      BY <1>4, <1>7, <3>1, SettledAgrees
    <3> QED BY <2>1, <3>2
  <2> QED BY <1>5, <2>2, <2>3
<1>8. ASSUME Settles' PROVE Whole' /\ Cleans' /\ AllClean'
  <2>1. Whole'
    BY <1>3, <1>7, <1>8 DEF Whole, Written
  <2>2. ASSUME gens >= 1, NEW d \in Crates, d \in synced' PROVE IsClean(d)'
    <3>1. Cleaned(d)
      BY <1>1, <1>2, <2>2 DEF Cleaned
    <3>2. IsClean(d)
      BY <1>2, <1>7, <1>8, <2>2, <3>1 DEF GensInv, Cleans
    <3> QED BY <1>2, <3>2 DEF IsClean, Inputs
  <2>3. Cleans'
    <3> SUFFICES ASSUME pc' # "idle", NEW d \in Crates, Cleaned(d)' PROVE IsClean(d)'
      BY DEF Cleans
    <3>1. d \in synced'
      BY <1>3 DEF Cleaned
    <3>2. gens >= 1
      BY <1>1, <1>5
    <3> QED BY <2>2, <3>1, <3>2
  <2>4. AllClean'
    <3> SUFFICES ASSUME pc' = "idle", gens' = 2, NEW d \in Crates PROVE IsClean(d)'
      BY DEF AllClean
    <3>1. gens >= 1
      BY <1>2
    <3>2. synced \cup {c} = Crates
      BY <1>1, <1>2, <3>1 DEF GensInv, Generates
    <3> QED BY <1>1, <2>2, <3>1, <3>2
  <2> QED BY <2>1, <2>3, <2>4
<1> QED BY <1>4, <1>6, <1>8

LEMMA GensGoes ==
    ASSUME ReplacedUnstamped, Placed, GensInv, Good, NEW c \in Crates, Current(c), Goes(c), ~lost' PROVE GensInv'
<1> SUFFICES ASSUME gens' >= 1 PROVE Good' /\ Generates' /\ (Settles' => Whole' /\ Cleans' /\ AllClean')
  BY DEF GensInv
<1>1. pc # "idle" /\ pc' \notin {"idle", "begin"} /\ UNCHANGED <<cmd, todo, synced, outcome, gens>>
  BY GoesOn DEF Placed
<1>2. Good' /\ cmd.kind = "generate" /\ ~cmd.regen
  BY <1>1 DEF Good, GensInv, Generates
<1>3. Generates'
  BY <1>1 DEF GensInv, Generates, Placed, TypeOK
<1>4. ASSUME Settles' PROVE Whole' /\ Cleans' /\ AllClean'
  <2>1. Settles /\ (Whole => UNCHANGED <<holds, pin>> /\ Whole')
    BY <1>2, <1>4, GenerateKeeps
  <2>2. Whole /\ Cleans
    BY <1>1, <2>1 DEF GensInv
  <2>3. UNCHANGED pin /\ Whole'
    BY <2>1, <2>2
  <2>4. (StampBindings(c) => IsClean(c)') /\ \A d \in Crates : IsClean(d) => IsClean(d)'
    BY <1>2, <2>2, <2>3, GenerateStamps
  <2>5. ASSUME NEW d \in Crates, Cleaned(d)' PROVE IsClean(d)'
    <3>1. CASE Cleaned(d)
      BY <1>1, <2>2, <2>4, <3>1 DEF Cleans
    <3>2. CASE ~Cleaned(d)
      <4>1. d = c /\ pc \in {"begin", "stamp"} /\ pc' \notin {"begin", "stamp"}
        BY <1>1, <2>5, <3>2, OneCurrent DEF Cleaned, Current, Placed
      <4>2. StampBindings(c)
        BY <1>2, <4>1 DEF Goes, Emit, StartPlain, SetVersion, Bump, ReadVersion, Visit, AllVisited, Finalize, SyncPins,
                          RegenApps, RegenScaffold, Begins
      <4> QED BY <2>4, <4>1, <4>2
    <3> QED BY <3>1, <3>2
  <2> QED BY <1>1, <2>3, <2>5 DEF Cleans, AllClean
<1> QED BY <1>2, <1>3, <1>4

LEMMA GensBetween ==
    ASSUME Placed, GensInv, Next, Between, Good' PROVE GensInv'
<1> SUFFICES ASSUME gens' >= 1 PROVE Good' /\ Generates' /\ (Settles' => Whole' /\ Cleans' /\ AllClean')
  BY DEF GensInv
<1>0. gens' # 0 /\ pc = "idle"
  BY DEF Between
<1>1. PICK k \in Given, S \in SUBSET Crates : Begin(k, S)
  BY <1>0 DEF Next, Developer, Edit, EditPin, Kill, AllVisited, SyncPins, Visit, Crate, Emit, StampBindings, StartPlain,
     SetVersion, Bump, Begins, ReadVersion, VisitFails, Finalize, RegenApps, RegenScaffold, Readmes, Warned
<1>2. /\ cmd' = k /\ todo' = S /\ pc' = "begin" /\ synced' = {} /\ k.kind = "generate" /\ S = Crates /\ gens' = gens
      /\ UNCHANGED <<holds, pin, stamp, bindings>>
  BY <1>0, <1>1 DEF Begin, tree
<1>3. Generates'
  BY <1>2 DEF Generates, Given
<1>4. ASSUME Settles' PROVE Whole' /\ Cleans' /\ AllClean'
  <2>1. Settles
    BY <1>2, <1>4 DEF Settles, Version
  <2>2. OneVersion /\ InSync
    BY <1>2, <2>1 DEF GensInv, Whole
  <2>3. Whole'
    BY <1>2, <2>2 DEF Whole, OneVersion, InSync, Version, Written
  <2> QED BY <1>2, <2>3 DEF Cleans, Cleaned, AllClean
<1> QED BY <1>3, <1>4

LEMMA GensStep ==
    ASSUME ReplacedUnstamped, Placed, Placed', GensInv, [Next]_vars PROVE GensInv'
<1>1. CASE UNCHANGED vars
  <2>1. UNCHANGED <<holds, pin, stamp, bindings, cmd, todo, pc, updated, outcome, synced, lost, gens>>
    BY <1>1 DEF vars, tree, command, locals, history
  <2>2. (\A c \in Crates : Version(c)' = Version(c) /\ (Cleaned(c) <=> Cleaned(c)') /\ (IsClean(c) => IsClean(c)'))
    BY <2>1 DEF Version, Cleaned, Current, IsClean, Inputs
  <2>3. (Settles' => Settles) /\ (Whole => Whole') /\ (Cleans => Cleans') /\ (AllClean => AllClean')
    BY <2>1, <2>2 DEF Settles, Whole, OneVersion, InSync, Cleans, AllClean
  <2>4. (Good => Good') /\ (Generates => Generates')
    BY <2>1 DEF Good, Generates
  <2> QED BY <2>1, <2>3, <2>4 DEF GensInv
<1>2. ASSUME NEW c \in Crates, Current(c), Good, Goes(c), Good' PROVE GensInv'
  BY <1>2, GensGoes DEF Good
<1>3. ASSUME NEW c \in Crates, Current(c), Good, Readmes(c) PROVE GensInv'
  BY <1>3, GensReadmes
<1>4. CASE ~Good'
  <2>1. gens' = 0 \/ ~(gens' >= 1)
    <3>1. CASE Good
      <4>1. ASSUME NEW c \in Crates, SetVersion(c) \/ Bump(c), gens >= 1 PROVE FALSE
        BY <4>1 DEF GensInv, Generates, SetVersion, Bump, Begins
      <4>2. ASSUME NEW c \in Crates, Readmes(c) PROVE Good'
        <5>1. Current(c)
          BY <4>2 DEF Readmes
        <5> QED BY <3>1, <4>2, <5>1, LastCrate DEF Good, Placed
      <4>3. ASSUME NEW c \in Crates, Emit(c) \/ StampBindings(c) \/ StartPlain(c) \/ ReadVersion(c) \/ Finalize(c)
                                     \/ RegenApps(c) \/ RegenScaffold(c)
            PROVE  Good'
        BY <3>1, <4>3 DEF Emit, StampBindings, StartPlain, ReadVersion, Finalize, RegenApps, RegenScaffold, history, Good
      <4>4. (\E f \in Files : Visit(f)) \/ AllVisited => Good'
        BY <3>1 DEF Visit, AllVisited, history, Good
      <4>5. SyncPins => Good' \/ gens' = 0
        BY <3>1 DEF SyncPins, Good
      <4>6. Kill \/ Developer \/ (\E c \in Crates : Warned(c) \/ \E f \in Files : VisitFails(c, f)) => gens' = 0
        BY DEF Kill, Developer, Edit, EditPin, Warned, VisitFails
      <4>7. \A k \in Given, S \in SUBSET Crates : Begin(k, S) => Good'
        BY DEF Begin, Good
      <4>8. ASSUME NEW c \in Crates, SetVersion(c) \/ Bump(c) PROVE ~(gens' >= 1)
        BY <4>1, <4>8 DEF SetVersion, Bump, history
      <4>9. UNCHANGED vars => Good'
        BY <3>1 DEF vars, history, Good
      <4> QED BY <1>4, <4>2, <4>3, <4>4, <4>5, <4>6, <4>7, <4>8, <4>9 DEF Next, Crate
    <3>2. CASE ~Good
      <4>1. gens = 0
        BY <3>2 DEF GensInv, Placed, TypeOK
      <4>2. ASSUME NEW c \in Crates, Readmes(c), gens' # gens PROVE Good'
        <5>1. Current(c) /\ ~lost /\ synced \cup {c} = Crates
          BY <4>2 DEF Readmes, Synced
        <5> QED BY <4>2, <5>1, LastCrate DEF Good, Placed
      <4>3. ASSUME NEW c \in Crates, Crate(c), ~Readmes(c) PROVE gens' = gens \/ gens' = 0
        BY <4>3 DEF Crate, Emit, StampBindings, StartPlain, SetVersion, Bump, ReadVersion, VisitFails, Finalize,
                    RegenApps, RegenScaffold, Warned, history
      <4>4. (\E f \in Files : Visit(f)) \/ AllVisited \/ SyncPins \/ Kill \/ Developer => gens' = gens \/ gens' = 0
        BY DEF Visit, AllVisited, SyncPins, Kill, Developer, Edit, EditPin, history
      <4>5. \A k \in Given, S \in SUBSET Crates : Begin(k, S) => gens' = gens \/ gens' = 0
        BY DEF Begin
      <4>6. UNCHANGED vars => gens' = gens
        BY DEF vars, history
      <4> QED BY <1>4, <4>1, <4>2, <4>3, <4>4, <4>5, <4>6 DEF Next
    <3> QED BY <3>1, <3>2
  <2> QED BY <2>1 DEF GensInv
<1>5. CASE Good' /\ Between /\ Next
  BY <1>5, GensBetween
<1> QED BY <1>1, <1>2, <1>3, <1>4, <1>5, Shapes DEF Placed

\* A second whole generation of a workspace leaves nothing that `alef verify`
\* calls stale, though the first may rewrite the pins after it has stamped
\* (core_commands.rs:246-255).
THEOREM SecondSettles ==
    ASSUME ~BumpAll, VersionFromOrder, ReplacedUnstamped PROVE Spec => []SecondGenerateSettles
<1>1. Init => GensInv
  BY DEF Init, GensInv
<1>2. Placed /\ Placed' /\ GensInv /\ [Next]_vars => GensInv'
  BY GensStep
<1>3. Placed /\ GensInv => SecondGenerateSettles
  BY DEF GensInv, AllClean, Settles, OneVersion, SecondGenerateSettles, VerifyIsClean, IsClean
<1> QED BY <1>1, <1>2, <1>3, PlacedAlways, PTL DEF Spec
=============================================================================

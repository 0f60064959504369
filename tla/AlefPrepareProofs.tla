-------------------------- MODULE AlefPrepareProofs --------------------------
(***************************************************************************)
(* What `alef publish prepare` reports as prepared is shippable, for any   *)
(* languages, workspace members, dependencies, numbers of attempts, faults *)
(* and checkouts, and in any order of runs.                                *)
(***************************************************************************)
EXTENDS AlefPrepare, SequenceTheorems, TLAPS

Locking    == {"seed", "update", "validate", "judge"}
Vendoring  == {"vendor", "copy", "rewrite_core", "full"}
Working    == {"hooks", "manifest", "discard", "stage", "after"} \cup Locking \cup Vendoring

\* The locals of a run that is under way, and of one that is not.
LocalsInv ==
    /\ pc = "idle" => ready = {}
    /\ pc # "idle" => run \in Runs
    /\ pc \in Working => cur \in Langs /\ cur \notin ready

\* What the steps before have established for the language at work.
WorkInv ==
    /\ pc \in Vendoring => VendorMode[cur] \in {"core_only", "full"}
    /\ pc = "full" => VendorMode[cur] = "full"
    /\ pc \in {"manifest", "discard"} \cup Locking =>
          /\ VendorMode[cur] \in {"registry", "core_only"}
          /\ VendorMode[cur] = "core_only" => vendored[cur] = "whole"
    /\ pc \in {"discard"} \cup Locking => cur \in Ships /\ manifest[cur] = "registry"
    /\ pc \in Locking => Regenerate
    /\ pc = "discard" => ~(Regenerate /\ Strict)
    /\ pc \in {"stage", "after"} => Shippable(cur)

IndInv == TypeOK /\ LocalsInv /\ WorkInv /\ ReadyIsShippable

-----------------------------------------------------------------------------
LEMMA Bounds ==
    /\ Attempts \in Nat /\ Attempts >= 1 /\ MaxFaults \in Nat /\ MaxRestores \in Nat
    /\ 0 \in 0..Attempts /\ 1 \in 0..Attempts
BY PrepareAssumption DEF PrepareAssumption

LEMMA LockKinds == NoLock \notin Locks /\ Empty \in Locks /\ Seed \in Locks
BY PrepareAssumption DEF PrepareAssumption, Empty, Seed, Locks

LEMMA NoneLeft == <<>> \in Seq(Langs)
BY EmptySeq

LEMMA InitHolds == Init => IndInv
<1> SUFFICES ASSUME Init PROVE IndInv
  OBVIOUS
<1>1. TypeOK
  <2>1. lock \in [Langs -> Locks \cup {NoLock}]
    BY LockKinds DEF Init
  <2>2. manifest \in [Langs -> {"path", "registry"}]
    BY DEF Init
  <2>3. vendored \in [Langs -> {"none", "partial", "copied", "whole"}]
    BY DEF Init
  <2>4. faults \in 0..MaxFaults /\ restores \in 0..MaxRestores /\ attempt \in 0..Attempts
    BY Bounds DEF Init
  <2>5. todo \in Seq(Langs)
    BY NoneLeft DEF Init
  <2> QED BY <2>1, <2>2, <2>3, <2>4, <2>5 DEF Init, TypeOK
<1> QED BY <1>1 DEF Init, IndInv, LocalsInv, WorkInv, ReadyIsShippable, Working, Locking, Vendoring

\* A run that ends, in whatever way, leaves no claim behind.
LEMMA FailStep ==
    ASSUME IndInv, Fail, faults' \in 0..MaxFaults
    PROVE  IndInv'
<1>1. TypeOK'
  BY Bounds, NoneLeft DEF Fail, ClearLocals, ClearRetry, IndInv, TypeOK, tree
<1> QED BY <1>1 DEF Fail, ClearLocals, IndInv, LocalsInv, WorkInv, ReadyIsShippable, Working, Locking,
       Vendoring

\* A step that leaves run, ready and the tree alone, but for the language at
\* work, keeps what was established for the languages before.
LEMMA ReadyStep ==
    ASSUME IndInv, run' = run, ready' = ready, pc \in Working,
           \A l \in Langs \ {cur} : /\ manifest'[l] = manifest[l]
                                    /\ lock'[l] = lock[l]
                                    /\ vendored'[l] = vendored[l]
    PROVE  ReadyIsShippable'
<1> SUFFICES ASSUME NEW l \in ready PROVE Shippable(l)'
  BY DEF ReadyIsShippable
<1>1. l \in Langs \ {cur}
  BY DEF IndInv, TypeOK, LocalsInv
<1>2. Shippable(l)
  BY DEF IndInv, ReadyIsShippable
<1> QED BY <1>1, <1>2 DEF Shippable, Rewritten, Resolved, Regenerate, Strict

LEMMA Faulty == IndInv /\ Fault => faults' \in 0..MaxFaults
BY Bounds DEF IndInv, TypeOK, Fault

-----------------------------------------------------------------------------
\* The developer, the registry, and the ends of the loop over the languages.
LEMMA OuterStep ==
    ASSUME IndInv, Propagate \/ Checkout \/ Start \/ NextLang \/ Skip \/ After \/ Done \/ Finish
    PROVE  IndInv'
<1> USE DEF world, tree, locals, retry
<1>1. CASE Propagate
  BY <1>1 DEF Propagate, IndInv, TypeOK, LocalsInv, WorkInv, ReadyIsShippable, Shippable, Rewritten,
     Resolved, Regenerate, Strict
<1>2. CASE Checkout
  <2>1. TypeOK'
    <3>1. \A k \in {NoLock, Seed} : k \in Locks \cup {NoLock}
      BY LockKinds
    <3>2. restores' \in 0..MaxRestores
      BY <1>2, Bounds DEF Checkout, IndInv, TypeOK
    <3> QED BY <1>2, <3>1, <3>2 DEF Checkout, IndInv, TypeOK
  <2> QED BY <1>2, <2>1 DEF Checkout, IndInv, LocalsInv, WorkInv, ReadyIsShippable, Working, Locking,
         Vendoring
<1>3. CASE Start
  <2>1. TypeOK'
    BY <1>3, PrepareAssumption DEF PrepareAssumption, Start, IndInv, TypeOK, Runs
  <2>2. run' \in Runs
    BY <1>3 DEF Start, Runs
  <2> QED BY <1>3, <2>1, <2>2 DEF Start, IndInv, LocalsInv, WorkInv, ReadyIsShippable, Working, Locking,
         Vendoring
<1>4. CASE NextLang
  <2>1. cur' \in Langs /\ todo' \in Seq(Langs)
    BY <1>4 DEF NextLang, IndInv, TypeOK
  <2>2. TypeOK'
    BY <1>4, <2>1 DEF NextLang, IndInv, TypeOK
  <2>3. ReadyIsShippable'
    BY <1>4 DEF NextLang, IndInv, ReadyIsShippable, Shippable, Rewritten, Resolved, Regenerate, Strict
  <2> QED BY <1>4, <2>1, <2>2, <2>3 DEF NextLang, IndInv, LocalsInv, WorkInv, Working, Locking, Vendoring
<1>5. CASE Skip \/ Done
  <2>1. TypeOK'
    BY <1>5 DEF Skip, Done, Goto, IndInv, TypeOK
  <2>2. ReadyIsShippable'
    BY <1>5 DEF Skip, Done, Goto, IndInv, ReadyIsShippable, Shippable, Rewritten, Resolved, Regenerate,
       Strict
  <2> QED BY <1>5, <2>1, <2>2 DEF Skip, Done, Goto, IndInv, LocalsInv, WorkInv, Working, Locking, Vendoring
<1>6. CASE After
  <2>1. TypeOK' /\ cur \in Langs /\ Shippable(cur)
    BY <1>6 DEF After, IndInv, TypeOK, LocalsInv, WorkInv, Working
  <2>2. ReadyIsShippable'
    BY <1>6, <2>1 DEF After, IndInv, ReadyIsShippable, Shippable, Rewritten, Resolved, Regenerate, Strict
  <2> QED BY <1>6, <2>1, <2>2 DEF After, IndInv, LocalsInv, WorkInv, Working, Locking, Vendoring
<1>7. CASE Finish
  <2>1. TypeOK'
    BY <1>7, Bounds, NoneLeft DEF Finish, ClearLocals, ClearRetry, IndInv, TypeOK
  <2> QED BY <1>7, <2>1 DEF Finish, ClearLocals, IndInv, LocalsInv, WorkInv, ReadyIsShippable, Working,
         Locking, Vendoring
<1> QED BY <1>1, <1>2, <1>3, <1>4, <1>5, <1>6, <1>7

\* Hooks, vendoring, the manifest and staging.
LEMMA WorkStep ==
    ASSUME IndInv, Hooks \/ Vendor \/ NoManifest \/ RewriteManifest \/ Stage
    PROVE  IndInv'
<1> USE DEF world, tree, locals, retry, Goto
<1>1. CASE Hooks
  <2>1. VendorMode[cur] \in {"registry", "core_only", "full", "none"} /\ cur \in Langs
    BY <1>1, PrepareAssumption DEF PrepareAssumption, Hooks, IndInv, LocalsInv, Working
  <2>2. \/ VendorMode[cur] = "registry" /\ pc' = "manifest"
        \/ VendorMode[cur] \in {"core_only", "full"} /\ pc' = "vendor"
        \/ VendorMode[cur] = "none" /\ pc' = "stage"
    BY <1>1, <2>1 DEF Hooks
  <2>3. TypeOK'
    BY <1>1, <2>2 DEF Hooks, IndInv, TypeOK
  <2>4. ReadyIsShippable'
    BY <1>1, ReadyStep DEF Hooks, Working
  <2>5. LocalsInv' /\ WorkInv'
    BY <1>1, <2>1, <2>2 DEF Hooks, IndInv, LocalsInv, WorkInv, Working, Locking, Vendoring, Shippable,
       Rewritten
  <2> QED BY <2>3, <2>4, <2>5 DEF IndInv
<1>2. CASE Vendor
  <2>1. cur \in Langs /\ VendorMode[cur] \in {"core_only", "full"}
    BY <1>2 DEF Vendor, VendorRemove, VendorCopy, VendorInline, VendorDeps, IndInv, LocalsInv, WorkInv,
       Working, Vendoring
  <2>2. TypeOK'
    BY <1>2, <2>1 DEF Vendor, VendorRemove, VendorCopy, VendorInline, VendorDeps, IndInv, TypeOK
  <2>3. ReadyIsShippable'
    BY <1>2, ReadyStep DEF Vendor, VendorRemove, VendorCopy, VendorInline, VendorDeps, IndInv, TypeOK,
       Working, Vendoring
  <2>4. LocalsInv' /\ WorkInv'
    BY <1>2, <2>1 DEF Vendor, VendorRemove, VendorCopy, VendorInline, VendorDeps, IndInv, TypeOK,
       LocalsInv, WorkInv, Working, Locking, Vendoring, Shippable, Rewritten
  <2> QED BY <2>2, <2>3, <2>4 DEF IndInv
<1>3. CASE NoManifest
  <2>1. TypeOK'
    BY <1>3 DEF NoManifest, IndInv, TypeOK
  <2>2. ReadyIsShippable'
    BY <1>3, ReadyStep DEF NoManifest, Working
  <2>3. LocalsInv' /\ WorkInv'
    BY <1>3 DEF NoManifest, IndInv, LocalsInv, WorkInv, Working, Locking, Vendoring, Shippable, Rewritten
  <2> QED BY <2>1, <2>2, <2>3 DEF IndInv
<1>4. CASE RewriteManifest
  <2>1. TypeOK'
    BY <1>4 DEF RewriteManifest, IndInv, TypeOK
  <2>2. ReadyIsShippable'
    BY <1>4, ReadyStep DEF RewriteManifest, IndInv, TypeOK, Working
  <2>3. LocalsInv' /\ WorkInv'
    BY <1>4 DEF RewriteManifest, IndInv, TypeOK, LocalsInv, WorkInv, Working, Locking, Vendoring,
       Regenerate, Strict
  <2> QED BY <2>1, <2>2, <2>3 DEF IndInv
<1>5. CASE Stage
  <2>1. TypeOK'
    BY <1>5 DEF Stage, IndInv, TypeOK, LocalsInv, Working
  <2>2. ReadyIsShippable'
    BY <1>5, ReadyStep DEF Stage, Working
  <2>3. LocalsInv' /\ WorkInv'
    BY <1>5 DEF Stage, IndInv, LocalsInv, WorkInv, Working, Locking, Vendoring, Shippable, Rewritten,
       Resolved, Regenerate, Strict
  <2> QED BY <2>1, <2>2, <2>3 DEF IndInv
<1> QED BY <1>1, <1>2, <1>3, <1>4, <1>5

-----------------------------------------------------------------------------
\* A step inside the lock's loop: it stays there with the lock of the language
\* at work.
LEMMA LoopStep ==
    ASSUME IndInv, pc \in Locking, pc' \in Locking, TypeOK',
           run' = run, ready' = ready, cur' = cur, manifest' = manifest, vendored' = vendored,
           \A l \in Langs \ {cur} : lock'[l] = lock[l]
    PROVE  IndInv'
<1>1. ReadyIsShippable'
  BY ReadyStep DEF Working
<1>2. LocalsInv' /\ WorkInv'
  BY DEF IndInv, LocalsInv, WorkInv, Working, Locking, Vendoring, Regenerate, Strict
<1> QED BY <1>1, <1>2 DEF IndInv

LEMMA UpdateStep ==
    ASSUME IndInv, NEW mm \in Members,
           UpdateOk(mm) \/ UpdateNoMatch(mm) \/ UpdateFails(mm) \/ UpdateCannotRun(mm)
    PROVE  IndInv'
<1> USE DEF world, tree, locals, retry, Goto, Updating
<1>1. CASE UpdateOk(mm)
  <2>1. cur \in Langs /\ LockOf(cur) \in Locks
    BY <1>1, PrepareAssumption DEF PrepareAssumption, UpdateOk, IndInv, TypeOK, LocalsInv, Working, Locking,
       LockOf, Empty, Locks
  <2>2. [LockOf(cur) EXCEPT !.reg = @ \cup {mm}] \in Locks
    BY <2>1 DEF Locks
  <2>3. TypeOK'
    BY <1>1, <2>1, <2>2 DEF UpdateOk, IndInv, TypeOK
  <2> QED BY <1>1, <2>3, LoopStep DEF UpdateOk, Locking, IndInv, TypeOK
<1>2. CASE UpdateNoMatch(mm)
  <2>1. TypeOK'
    BY <1>2 DEF UpdateNoMatch, IndInv, TypeOK
  <2> QED BY <1>2, <2>1, LoopStep DEF UpdateNoMatch, Locking
<1>3. CASE UpdateFails(mm)
  <2>1. TypeOK'
    BY <1>3, Faulty DEF UpdateFails, NoFault, Lag, Genuine, IndInv, TypeOK
  <2> QED BY <1>3, <2>1, LoopStep DEF UpdateFails, Locking
<1>4. CASE UpdateCannotRun(mm)
  <2>1. CASE Fail
    BY <1>4, <2>1, Faulty, FailStep DEF UpdateCannotRun
  <2>2. CASE ~Fail
    <3>1. TypeOK'
      BY <1>4, <2>2, Faulty DEF UpdateCannotRun, Genuine, IndInv, TypeOK
    <3> QED BY <1>4, <2>2, <3>1, LoopStep DEF UpdateCannotRun, Locking
  <2> QED BY <2>1, <2>2
<1> QED BY <1>1, <1>2, <1>3, <1>4

LEMMA ResolveStep ==
    ASSUME IndInv, Resolve
    PROVE  IndInv'
<1> USE DEF world, tree, locals, retry, Goto
<1>1. CASE SeedLock
  <2>1. TypeOK'
    BY <1>1, LockKinds, Faulty, Bounds DEF SeedLock, BeginAttempt, NoFault, IndInv, TypeOK
  <2> QED BY <1>1, <2>1, LoopStep DEF SeedLock, Locking, IndInv, TypeOK
<1>2. CASE Update
  BY <1>2, UpdateStep DEF Update
<1>3. CASE Updated
  <2>1. TypeOK'
    BY <1>3 DEF Updated, IndInv, TypeOK
  <2> QED BY <1>3, <2>1, LoopStep DEF Updated, Locking
<1>4. CASE ValidateOk
  <2>1. cur \in Langs /\ Deps[cur] \subseteq Members
    BY <1>4, PrepareAssumption DEF PrepareAssumption, ValidateOk, IndInv, LocalsInv, Working, Locking
  <2>2. lock'[cur] = [path |-> {}, reg |-> Deps[cur], whole |-> TRUE] /\ lock'[cur] \in Locks
    BY <1>4, <2>1 DEF ValidateOk, IndInv, TypeOK, Locks
  <2>3. TypeOK'
    BY <1>4, <2>1, <2>2, Bounds DEF ValidateOk, ClearRetry, IndInv, TypeOK
  <2>4. ReadyIsShippable'
    BY <1>4, ReadyStep DEF ValidateOk, IndInv, TypeOK, Working, Locking
  <2>5. Resolved(cur)'
    <3>1. cur' = cur /\ lock'[cur] # NoLock
      BY <1>4, <2>2, LockKinds DEF ValidateOk
    <3> QED BY <2>2, <3>1 DEF Resolved
  <2>6. Shippable(cur)'
    BY <1>4, <2>5 DEF ValidateOk, IndInv, WorkInv, Shippable, Rewritten, Locking, Regenerate, Strict
  <2> QED BY <1>4, <2>3, <2>4, <2>6 DEF ValidateOk, IndInv, LocalsInv, WorkInv, Working, Locking, Vendoring
<1>5. CASE ValidateFails
  <2>1. TypeOK'
    BY <1>5, Faulty DEF ValidateFails, NoFault, Lag, Genuine, IndInv, TypeOK
  <2> QED BY <1>5, <2>1, LoopStep DEF ValidateFails, Locking
<1>6. CASE ValidateCannotRun
  <2>1. CASE Fail
    BY <1>6, <2>1, Faulty, FailStep DEF ValidateCannotRun
  <2>2. CASE ~Fail
    <3>1. TypeOK'
      BY <1>6, <2>2, Faulty DEF ValidateCannotRun, Genuine, IndInv, TypeOK
    <3> QED BY <1>6, <2>2, <3>1, LoopStep DEF ValidateCannotRun, Locking
  <2> QED BY <2>1, <2>2
<1>7. CASE Retry
  <2>1. TypeOK'
    <3>1. attempt + 1 \in 0..Attempts
      BY <1>7, Bounds DEF Retry, MayRetry, IndInv, TypeOK
    <3> QED BY <1>7, <3>1 DEF Retry, BeginAttempt, IndInv, TypeOK
  <2> QED BY <1>7, <2>1, LoopStep DEF Retry, Locking
<1>8. CASE GiveUp
  BY <1>8, FailStep DEF GiveUp, NoFault, IndInv, TypeOK
<1>9. CASE Lenient
  <2>1. TypeOK'
    BY <1>9 DEF Lenient, IndInv, TypeOK
  <2>2. ReadyIsShippable'
    BY <1>9, ReadyStep DEF Lenient, Working, Locking
  <2> QED BY <1>9, <2>1, <2>2 DEF Lenient, IndInv, LocalsInv, WorkInv, Working, Locking, Vendoring,
         Regenerate, Strict
<1>10. CASE DiscardLock
  <2>1. TypeOK' /\ cur \in Langs
    BY <1>10, Bounds DEF DiscardLock, ClearRetry, IndInv, TypeOK, LocalsInv, Working
  <2>2. ReadyIsShippable'
    BY <1>10, ReadyStep DEF DiscardLock, IndInv, TypeOK, Working
  <2>3. Shippable(cur)'
    BY <1>10, <2>1 DEF DiscardLock, IndInv, TypeOK, WorkInv, Shippable, Rewritten, Resolved, Regenerate,
       Strict
  <2> QED BY <1>10, <2>1, <2>2, <2>3 DEF DiscardLock, IndInv, LocalsInv, WorkInv, Working, Locking, Vendoring
<1> QED BY <1>1, <1>2, <1>3, <1>4, <1>5, <1>6, <1>7, <1>8, <1>9, <1>10 DEF Resolve

LEMMA NextHolds == IndInv /\ [Next]_vars => IndInv'
<1> SUFFICES ASSUME IndInv, [Next]_vars PROVE IndInv'
  OBVIOUS
<1>1. CASE HookFails \/ Abort
  BY <1>1, Faulty, FailStep DEF HookFails, Abort
<1>2. CASE UNCHANGED vars
  BY <1>2 DEF vars, tree, locals, retry, IndInv, TypeOK, LocalsInv, WorkInv, ReadyIsShippable, Shippable,
     Rewritten, Resolved, Regenerate, Strict
<1> QED BY <1>1, <1>2, OuterStep, WorkStep, ResolveStep DEF Next, RunStep

-----------------------------------------------------------------------------
\* What a run has established for the language at work and for those before it
\* (publish/mod.rs:44-125).
THEOREM PrepareInvariance == Spec => []IndInv
BY InitHolds, NextHolds, PTL DEF Spec

\* Tree, locals and the retry loop keep their kinds; no attempt is made beyond
\* the last (vendor.rs:526).
THEOREM PrepareTypeCorrect == Spec => []TypeOK
<1>1. IndInv => TypeOK
  BY DEF IndInv
<1> QED BY PrepareInvariance, <1>1, PTL

\* Every language a run has prepared is shippable (publish/mod.rs:44-125).
THEOREM PreparedStaysShippable == Spec => []ReadyIsShippable
<1>1. IndInv => ReadyIsShippable
  BY DEF IndInv
<1> QED BY PrepareInvariance, <1>1, PTL

\* No strict run blames the registry before its last attempt (vendor.rs:612-628).
THEOREM LagIsOutwaited == Spec => GivesUpLate
<1>1. IndInv /\ [Next]_vars =>
        [pc = "judge" /\ pc' = "idle" /\ faults' = faults /\ failure = "lag"
            => attempt = Attempts]_vars
  <2> SUFFICES ASSUME IndInv, Next, pc = "judge", pc' = "idle", faults' = faults, failure = "lag"
               PROVE  attempt = Attempts
    OBVIOUS
  <2>1. ~Fault
    BY DEF Fault, IndInv, TypeOK
  <2>2. GiveUp
    BY <2>1 DEF Next, RunStep, Propagate, Checkout, Start, NextLang, Skip, HookFails, Hooks, Vendor,
       VendorRemove, VendorCopy, VendorInline, VendorDeps, NoManifest, RewriteManifest, Resolve, SeedLock,
       Update, UpdateOk, UpdateNoMatch, UpdateFails, UpdateCannotRun, Updating, Updated, ValidateOk,
       ValidateFails, ValidateCannotRun, Retry, Lenient, DiscardLock, Stage, After, Done, Finish, Abort,
       Goto, locals, tree
  <2> QED BY <2>2, PrepareAssumption DEF PrepareAssumption, GiveUp, MayRetry, IndInv, TypeOK
<1> QED BY PrepareInvariance, <1>1, PTL DEF Spec, GivesUpLate
=============================================================================

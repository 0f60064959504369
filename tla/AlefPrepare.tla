----------------------------- MODULE AlefPrepare -----------------------------
(***************************************************************************)
(* `alef publish prepare`: language by language, run the hooks, vendor the *)
(* core crate, turn the shipped manifest's path dependencies on workspace  *)
(* members into registry dependencies, resolve its Cargo.lock against a    *)
(* registry that may lag behind `cargo publish`, stage the FFI library.    *)
(*                                                                         *)
(* The working tree and the registry outlive a run; a run may fail or be   *)
(* killed at any step and be started again.  Between runs the developer    *)
(* may check the manifest and its lock out again.  Dry runs, which change  *)
(* nothing, are left out.                                                  *)
(***************************************************************************)
EXTENDS Naturals, FiniteSets, Sequences

CONSTANTS
    Langs,        \* languages of the crate
    VendorMode,   \* VendorMode[l]: "registry", "core_only", "full" or "none"
    Ships,        \* languages that ship a binding Cargo.toml
    FfiDependent, \* languages that need the FFI library
    Members,      \* crates of the workspace
    Deps,         \* Deps[l]: members the binding crate of l depends on
    WorkspaceLock,\* BOOLEAN: the workspace has a Cargo.lock
    Selections,   \* the language lists of the runs
    CallFlags,    \* <<regenerate, strict>> of the calls
    Attempts,     \* REGISTRY_PROPAGATION_ATTEMPTS
    MaxFaults,    \* bound on the kills and failed steps of all runs
    MaxRestores,  \* bound on the developer's checkouts
    NoLock, None

Locks == [path : SUBSET Members,   \* members locked as path packages
          reg : SUBSET Members,    \* members locked as registry packages
          whole : BOOLEAN]         \* cargo metadata accepted and completed it
Runs  == [flags : CallFlags, target : BOOLEAN]

ASSUME PrepareAssumption ==
    /\ VendorMode \in [Langs -> {"registry", "core_only", "full", "none"}]
    /\ Ships \subseteq Langs /\ FfiDependent \subseteq Langs
    /\ Deps \in [Langs -> SUBSET Members]
    /\ Selections \subseteq Seq(Langs)
    /\ WorkspaceLock \in BOOLEAN
    /\ CallFlags \subseteq BOOLEAN \X BOOLEAN
    /\ Attempts \in Nat \ {0} /\ MaxFaults \in Nat /\ MaxRestores \in Nat
    /\ NoLock \notin Locks /\ None \notin Langs \cup Runs

VARIABLES
    published,               \* members whose version the registry index knows
    manifest, lock,          \* the shipped manifest's dependencies, its Cargo.lock
    vendored, staged,        \* the vendored core crate, the FFI libraries staged
    faults, restores,
    pc, run, todo, cur,      \* locals of a run: languages left, language at work
    ready,                   \* languages this run has prepared
    attempt, left, failure,  \* the loop of scrub_or_regenerate_lock
    broken                   \* history: a command of this attempt failed for good

tree   == <<manifest, lock, vendored, staged>>
world  == <<published, faults, restores>>
retry  == <<attempt, left, failure, broken>>
locals == <<run, todo, cur, ready, retry>>
vars   == <<published, tree, faults, restores, pc, locals>>


Regenerate == run.flags[1]
Strict     == run.flags[2]

TypeOK ==
    /\ published \subseteq Members
    /\ manifest \in [Langs -> {"path", "registry"}]
    /\ lock \in [Langs -> Locks \cup {NoLock}]
    /\ vendored \in [Langs -> {"none", "partial", "copied", "whole"}]
    /\ staged \subseteq Langs
    /\ faults \in 0..MaxFaults /\ restores \in 0..MaxRestores
    /\ pc \in {"idle", "next", "hooks", "vendor", "copy", "rewrite_core", "full", "manifest",
               "seed", "update", "validate", "judge", "discard", "stage", "after", "done"}
    /\ run \in Runs \cup {None}
    /\ todo \in Seq(Langs) /\ cur \in Langs \cup {None} /\ ready \subseteq Langs
    /\ attempt \in 0..Attempts /\ left \subseteq Members
    /\ failure \in {"none", "lag", "genuine"} /\ broken \in BOOLEAN

-----------------------------------------------------------------------------
Empty    == [path |-> {}, reg |-> {}, whole |-> FALSE]
Seed     == [path |-> Members, reg |-> {}, whole |-> FALSE]    \* the workspace's lock
LockOf(l) == IF lock[l] = NoLock THEN Empty ELSE lock[l]

BeginAttempt(n) == attempt' = n /\ left' = Members /\ failure' = "none" /\ broken' = FALSE
ClearRetry      == attempt' = 0 /\ left' = {} /\ failure' = "none" /\ broken' = FALSE

ClearLocals ==
    /\ run' = None /\ todo' = <<>> /\ cur' = None /\ ready' = {}
    /\ ClearRetry

Fault   == faults < MaxFaults /\ faults' = faults + 1
NoFault == UNCHANGED faults

\* An error that `?` propagates ends the run where it is.
Fail == pc' = "idle" /\ ClearLocals /\ UNCHANGED <<published, tree, restores>>

Goto(step) == pc' = step /\ UNCHANGED <<run, todo, cur, ready>>

Init ==
    /\ published \in SUBSET Members
    /\ manifest = [l \in Langs |-> "path"]
    /\ \E K \in SUBSET Ships : lock = [l \in Langs |-> IF l \in K THEN Seed ELSE NoLock]
    /\ vendored = [l \in Langs |-> "none"] /\ staged = {}
    /\ faults = 0 /\ restores = 0
    /\ pc = "idle" /\ run = None /\ todo = <<>> /\ cur = None /\ ready = {}
    /\ attempt = 0 /\ left = {} /\ failure = "none" /\ broken = FALSE

-----------------------------------------------------------------------------
(* The surroundings: cargo publish elsewhere, and the developer.           *)

Propagate ==
    /\ \E m \in Members \ published : published' = published \cup {m}
    /\ UNCHANGED <<tree, faults, restores, pc, locals>>

Checkout ==
    /\ pc = "idle" /\ restores < MaxRestores
    /\ \E l \in Ships, k \in {NoLock, Seed} :
          /\ manifest' = [manifest EXCEPT ![l] = "path"]
          /\ lock' = [lock EXCEPT ![l] = k]
    /\ restores' = restores + 1
    /\ UNCHANGED <<published, vendored, staged, faults, pc, locals>>

-----------------------------------------------------------------------------
(* prepare: the loop over the languages.                                   *)

Start ==
    /\ pc = "idle"
    /\ \E L \in Selections, fl \in CallFlags, t \in BOOLEAN :
          run' = [flags |-> fl, target |-> t] /\ todo' = L
    /\ pc' = "next"
    /\ UNCHANGED <<world, tree, cur, ready, retry>>

NextLang ==
    /\ pc = "next" /\ todo # <<>>
    /\ cur' = Head(todo) /\ todo' = Tail(todo)
    /\ ready' = ready \ {Head(todo)}                     \* a list may repeat a language
    /\ pc' = "hooks"
    /\ UNCHANGED <<world, tree, run, retry>>

\* run_publish_hooks: a precondition that fails skips the language, a before
\* hook that fails ends the run.
Skip ==
    /\ pc = "hooks"
    /\ Goto("next")
    /\ UNCHANGED <<world, tree, retry>>

HookFails == Fault /\ pc \in {"hooks", "after"} /\ Fail

Hooks ==
    /\ pc = "hooks"
    /\ Goto(CASE VendorMode[cur] = "registry" -> "manifest"
              [] VendorMode[cur] \in {"core_only", "full"} -> "vendor"
              [] VendorMode[cur] = "none" -> "stage")
    /\ UNCHANGED <<world, tree, retry>>

-----------------------------------------------------------------------------
(* vendor_core_only and vendor_full.                                       *)

\* remove_dir_all of the copy an earlier run left.
VendorRemove ==
    /\ pc = "vendor"
    /\ vendored' = [vendored EXCEPT ![cur] = "partial"]
    /\ Goto("copy")
    /\ UNCHANGED <<world, manifest, lock, staged, retry>>

VendorCopy ==
    /\ pc = "copy"
    /\ vendored' = [vendored EXCEPT ![cur] = "copied"]
    /\ Goto("rewrite_core")
    /\ UNCHANGED <<world, manifest, lock, staged, retry>>

\* The workspace's values are inlined in the copied manifest.
VendorInline ==
    /\ pc = "rewrite_core"
    /\ vendored' = [vendored EXCEPT ![cur] = IF VendorMode[cur] = "full" THEN @ ELSE "whole"]
    /\ Goto(IF VendorMode[cur] = "full" THEN "full" ELSE "manifest")
    /\ UNCHANGED <<world, manifest, lock, staged, retry>>

\* vendor_full goes on with cargo vendor and .cargo/config.toml.
VendorDeps ==
    /\ pc = "full"
    /\ vendored' = [vendored EXCEPT ![cur] = "whole"]
    /\ Goto("stage")
    /\ UNCHANGED <<world, manifest, lock, staged, retry>>

-----------------------------------------------------------------------------
(* rewrite_binding_path_deps.                                              *)

NoManifest ==
    /\ pc = "manifest" /\ cur \notin Ships
    /\ Goto("stage")
    /\ UNCHANGED <<world, tree, retry>>

RewriteManifest ==
    /\ pc = "manifest" /\ cur \in Ships
    /\ manifest' = [manifest EXCEPT ![cur] = "registry"]
    /\ Goto(IF Regenerate THEN "seed" ELSE "discard")
    /\ UNCHANGED <<world, lock, vendored, staged, retry>>

-----------------------------------------------------------------------------
(* scrub_or_regenerate_lock.                                               *)

\* The workspace's lock is copied and the members' path packages stripped from
\* it; that the stripping fails is only a warning.
SeedLock ==
    /\ pc = "seed"
    /\ \/ ~WorkspaceLock /\ NoFault /\ UNCHANGED lock
       \/ WorkspaceLock /\ NoFault /\ lock' = [lock EXCEPT ![cur] = Empty]
       \/ WorkspaceLock /\ Fault /\ lock' = [lock EXCEPT ![cur] = Seed]
    /\ BeginAttempt(1)
    /\ Goto("update")
    /\ UNCHANGED <<published, manifest, vendored, staged, restores>>

Missing == Deps[cur] \ published

\* What looks_like_registry_propagation_lag tells apart; the last failure of an
\* attempt is the one that is kept.
Lag     == failure' = "lag" /\ UNCHANGED broken
Genuine == failure' = "genuine" /\ broken' = TRUE

Updating(m) == pc = "update" /\ m \in left /\ left' = left \ {m}

\* cargo update -p m: one registry package for m, next to no path package.
UpdateOk(m) ==
    /\ Updating(m)
    /\ m \in (Deps[cur] \cap published) \ LockOf(cur).path
    /\ lock' = [lock EXCEPT ![cur] = [LockOf(cur) EXCEPT !.reg = @ \cup {m}]]
    /\ Goto("update")
    /\ UNCHANGED <<world, manifest, vendored, staged, attempt, failure, broken>>

\* "did not match any packages": the binding does not depend on m, or its lock
\* does not name m yet.
UpdateNoMatch(m) ==
    /\ Updating(m)
    /\ m \notin LockOf(cur).reg \cup LockOf(cur).path
    /\ Goto("update")
    /\ UNCHANGED <<world, tree, attempt, failure, broken>>

\* The failure of one member does not end the loop, and the next one takes its
\* place.
UpdateFails(m) ==
    /\ Updating(m)
    /\ \/ Missing # {} /\ NoFault /\ Lag
       \/ m \in LockOf(cur).path /\ NoFault /\ Genuine
       \/ Fault /\ Genuine
    /\ Goto("update")
    /\ UNCHANGED <<published, tree, restores, attempt>>

\* cargo cannot be run at all.
UpdateCannotRun(m) ==
    /\ Fault /\ pc = "update" /\ m \in left
    /\ \/ Strict /\ Fail
       \/ /\ ~Strict
          /\ left' = {} /\ Genuine
          /\ Goto("update")
          /\ UNCHANGED <<published, tree, restores, attempt>>

Updated ==
    /\ pc = "update" /\ left = {}
    /\ Goto(IF failure = "none" THEN "validate" ELSE "judge")
    /\ UNCHANGED <<world, tree, retry>>

\* cargo metadata resolves the whole manifest and completes the lock.
ValidateOk ==
    /\ pc = "validate" /\ Missing = {}
    /\ lock' = [lock EXCEPT ![cur] = [path |-> {}, reg |-> Deps[cur], whole |-> TRUE]]
    /\ Goto("stage") /\ ClearRetry
    /\ UNCHANGED <<world, manifest, vendored, staged>>

ValidateFails ==
    /\ pc = "validate"
    /\ \/ Missing # {} /\ NoFault /\ Lag
       \/ Fault /\ Genuine
    /\ Goto("judge")
    /\ UNCHANGED <<published, tree, restores, attempt, left>>

ValidateCannotRun ==
    /\ Fault /\ pc = "validate"
    /\ \/ Strict /\ Fail
       \/ /\ ~Strict
          /\ Genuine
          /\ Goto("judge")
          /\ UNCHANGED <<published, tree, restores, attempt, left>>

MayRetryShort ==                                      \* a slip (see README, mutants)
    Strict /\ failure = "lag" /\ attempt + 1 < Attempts

MayRetry == Strict /\ failure = "lag" /\ attempt < Attempts

RetryUncounted ==                                     \* a slip
    /\ pc = "judge" /\ MayRetry
    /\ BeginAttempt(attempt)
    /\ Goto("update")
    /\ UNCHANGED <<world, tree>>

\* Sleep, then update and validate all over again on the lock as it is.
Retry ==
    /\ pc = "judge" /\ MayRetry
    /\ BeginAttempt(attempt + 1)
    /\ Goto("update")
    /\ UNCHANGED <<world, tree>>

GiveUpFallsOut ==                                     \* a slip
    /\ pc = "judge" /\ ~MayRetry /\ Strict
    /\ Goto("discard")
    /\ UNCHANGED <<world, tree, retry>>

GiveUp ==
    /\ pc = "judge" /\ ~MayRetry /\ Strict
    /\ NoFault /\ Fail

Lenient ==
    /\ pc = "judge" /\ ~MayRetry /\ ~Strict
    /\ Goto("discard")
    /\ UNCHANGED <<world, tree, retry>>

DiscardLock ==
    /\ pc = "discard"
    /\ lock' = [lock EXCEPT ![cur] = NoLock]
    /\ Goto("stage") /\ ClearRetry
    /\ UNCHANGED <<world, manifest, vendored, staged>>

-----------------------------------------------------------------------------
(* Staging, after hooks, the end.                                          *)

Stage ==
    /\ pc = "stage"
    /\ staged' = IF cur \in FfiDependent /\ run.target THEN staged \cup {cur} ELSE staged
    /\ Goto("after")
    /\ UNCHANGED <<world, manifest, lock, vendored, retry>>

After ==
    /\ pc = "after"
    /\ ready' = ready \cup {cur}
    /\ pc' = "next"
    /\ UNCHANGED <<world, tree, run, todo, cur, retry>>

Done ==
    /\ pc = "next" /\ todo = <<>>
    /\ Goto("done")
    /\ UNCHANGED <<world, tree, retry>>

Finish ==
    /\ pc = "done"
    /\ pc' = "idle" /\ ClearLocals
    /\ UNCHANGED <<world, tree>>

\* A file operation or cargo vendor fails, the library to stage was not built,
\* or the process is killed.
Abort == Fault /\ pc # "idle" /\ Fail

-----------------------------------------------------------------------------
Vendor == VendorRemove \/ VendorCopy \/ VendorInline \/ VendorDeps
Update == \E m \in Members :
             UpdateOk(m) \/ UpdateNoMatch(m) \/ UpdateFails(m) \/ UpdateCannotRun(m)
Resolve == \/ SeedLock \/ Update \/ Updated
           \/ ValidateOk \/ ValidateFails \/ ValidateCannotRun
           \/ Retry \/ GiveUp \/ Lenient \/ DiscardLock

RunStep == \/ NextLang \/ Skip \/ HookFails \/ Hooks \/ Vendor \/ NoManifest
           \/ RewriteManifest \/ Resolve \/ Stage \/ After \/ Done \/ Finish

Next == Propagate \/ Checkout \/ Start \/ RunStep \/ Abort

Spec == Init /\ [][Next]_vars

\* The scheduler runs the process, hooks and cargo end: a run takes its steps.
FairSpec == Spec /\ WF_vars(RunStep)
-----------------------------------------------------------------------------
(***************************************************************************)
(* Properties.                                                             *)
(***************************************************************************)

Rewritten(l) == l \in Ships /\ VendorMode[l] \in {"registry", "core_only"}
Resolved(l)  == lock[l] # NoLock /\ lock[l].whole /\ lock[l].reg = Deps[l] /\ lock[l].path = {}

Shippable(l) ==
    /\ VendorMode[l] \in {"core_only", "full"} => vendored[l] = "whole"
    /\ Rewritten(l) =>
          /\ manifest[l] = "registry"
          /\ Resolved(l) \/ lock[l] = NoLock
          /\ Resolved(l) \/ ~(Regenerate /\ Strict)
          /\ ~Resolved(l) \/ Regenerate

\* Every language a run has prepared can be built by a consumer who has no
\* workspace, whatever earlier runs left when they failed or were killed: the
\* manifest depends on registry versions, the vendored crate is whole, and the
\* Cargo.lock is resolved for all of the manifest's dependencies in strict mode
\* ("the failure is a HARD error", vendor.rs:474) and never half resolved.
ReadyIsShippable == \A l \in ready : Shippable(l)

\* The index may lag behind cargo publish for some minutes: a strict run gives
\* the registry all the attempts before it reports a version as missing
\* (vendor.rs:19-31).
GivesUpLate ==
    [][pc = "judge" /\ pc' = "idle" /\ faults' = faults /\ failure = "lag"
          => attempt = Attempts]_vars

\* A run ends, however long the registry lags (vendor.rs:27-31: "without
\* holding the publish workflow open for unbounded retries").
Ends == (run # None) ~> (run = None)

\* "a genuine resolver / manifest error still surfaces immediately rather than
\* waiting through six 30 s sleeps" (vendor.rs:35-36).
GenuineSurfaces ==
    [][pc = "judge" /\ attempt' = attempt + 1 => ~broken]_vars
=============================================================================

----------------------------- MODULE AlefFanOut -----------------------------
(***************************************************************************)
(* The commands that do something for every language: `alef build`,        *)
(* `test`, `setup`, `clean`, `update` and `test-apps run`.  One call for   *)
(* one crate: steps taken language by language, a fan-out over rayon's     *)
(* workers in which a task runs the commands of its language, the verdict; *)
(* for the test apps also the mock server whose life spans the fan-out.    *)
(* What a single shell command does is the matter of AlefCommand: here it  *)
(* succeeds, fails or, where there is a timeout, may never end.            *)
(***************************************************************************)
EXTENDS Naturals, FiniteSets, Sequences

CONSTANTS
    Kinds,        \* the commands of alef that are considered
    List,         \* the languages of the call, in order
    Cmds,         \* Cmds[l]: the shell commands configured for l
    E2eCmds,      \* E2eCmds[l]: its end-to-end tests
    Rust, Ffi,    \* Language::Rust, Language::Ffi
    FfiDependent, \* languages whose build depends on the FFI crate
    Workers,      \* threads of rayon's pool
    None

Langs == {List[i] : i \in DOMAIN List}

\* The phases of each command, in the order of its function's body.
Phases == [build     |-> <<"check", "rust", "ffi", "before_ind", "fan_ind", "post_ind",
                           "before_dep", "fan_dep", "post_dep", "end">>,
           test      |-> <<"check", "before", "post_e2e", "host", "fan", "collect">>,
           update    |-> <<"plan", "fan", "collect">>,
           setup     |-> <<"fan", "collect">>,
           clean     |-> <<"fan", "collect">>,
           test_apps |-> <<"server", "fan", "collect">>]

Others == {"ok", "ffi_crate", "host", "server", "killed"}

ASSUME FanOutAssumption ==
    /\ Kinds \subseteq DOMAIN Phases
    /\ List \in Seq(Langs) /\ \A i, j \in DOMAIN List : List[i] = List[j] => i = j
    /\ \A l \in Langs : Cmds[l] \in Seq(STRING) /\ E2eCmds[l] \in Seq(STRING)
    /\ FfiDependent \subseteq Langs \ {Rust, Ffi} /\ Rust # Ffi
    /\ Workers \in Nat \ {0}
    /\ None \notin Others \cup Langs /\ Others \cap Langs = {}

VARIABLES
    kind, e2e,      \* the call: never change
    at, todo,       \* the phase, and the languages it has not dealt with
    chosen,         \* languages whose precondition held
    task, left,     \* tasks of the fan-out, indices of the commands left to run
    done, posted,   \* commands that succeeded, languages post-processed
    ffi,            \* the FFI crate was built by this call
    result,         \* "ok", what the error is about, or that alef was killed
    srv, said,      \* the mock server, the lines in its stdout
    url, guard      \* the parent knows its URL, and what it holds of the process

call    == <<kind, e2e>>
control == <<at, todo>>
tasks   == <<chosen, task, left>>
effects == <<done, posted, ffi>>
server  == <<srv, said, url, guard>>
vars    == <<call, control, tasks, effects, result, server>>

InFlight == {"pre", "before", "run"}
Failed   == {"failed", "timed_out"}
Ended    == {"ok", "skipped"} \cup Failed
Gone     == {"none", "exited", "reaped"}

\* setup, clean and test-apps check the precondition in the language's task,
\* and run its hooks there.
InTask == {"setup", "clean", "test_apps"}

CmdsOf(l) == Cmds[l] \o IF kind = "test" /\ e2e THEN E2eCmds[l] ELSE <<>>

TypeOK ==
    /\ kind \in Kinds /\ e2e \in BOOLEAN
    /\ at \in DOMAIN Phases[kind]
    /\ todo \subseteq Langs /\ chosen \subseteq Langs
    /\ task \in [Langs -> {"none", "queued"} \cup InFlight \cup Ended]
    /\ left \in [Langs -> SUBSET Nat] /\ \A l \in Langs : left[l] \subseteq DOMAIN CmdsOf(l)
    /\ done \subseteq STRING
    /\ posted \subseteq Langs /\ ffi \in BOOLEAN
    /\ result \in {None} \cup Others \cup Langs
    /\ srv \in {"starting", "announced", "serving"} \cup Gone
    /\ url \in BOOLEAN /\ guard \in {"none", "child", "handle"}

-----------------------------------------------------------------------------
Earlier(l, m) == \E i, j \in DOMAIN List : i < j /\ List[i] = l /\ List[j] = m
First(S)      == CHOOSE l \in S : \A m \in S \ {l} : Earlier(l, m)

Running  == result = None
Returned == result \notin {None, "killed"}
Phase    == Phases[kind][at]
At(p)    == Running /\ Phase = p

\* The languages a phase deals with.
Group(p) ==
    CASE p \in {"check", "plan"}                      -> Langs
      [] p = "rust"                                   -> chosen \cap {Rust}
      [] p \in {"before_ind", "fan_ind", "post_ind"}  -> chosen \ (FfiDependent \cup {Rust})
      [] p \in {"before_dep", "fan_dep", "post_dep"}  -> chosen \cap FfiDependent
      [] p = "before"                                 -> chosen
      [] p = "post_e2e" -> {l \in chosen : e2e /\ E2eCmds[l] # <<>>}
      [] p = "fan"      -> IF kind \in InTask THEN Langs ELSE chosen
      [] OTHER          -> {}

Fans == {"fan", "fan_ind", "fan_dep"}

GoOn ==
    LET p == Phases[kind][at + 1] IN
    /\ at' = at + 1 /\ todo' = Group(p)
    /\ task' = [l \in Langs |-> IF p \in Fans /\ l \in Group(p) THEN "queued" ELSE task[l]]

\* The function returns, and drops the handle of the server: its stdin is
\* closed, it is killed and waited for.  A bare Child only loses its pipes.
Return(r) ==
    /\ result' = r
    /\ guard' = "none" /\ srv' = IF guard = "handle" THEN "reaped" ELSE srv
    /\ UNCHANGED <<control, tasks, said, url>>

Init ==
    /\ kind \in Kinds /\ e2e \in (IF kind = "test" THEN BOOLEAN ELSE {FALSE})
    /\ at = 1 /\ chosen = {} /\ todo = Group(Phases[kind][1])
    /\ task = [l \in Langs |-> IF kind \in {"setup", "clean"} THEN "queued" ELSE "none"]
    /\ left = [l \in Langs |-> {}]
    /\ done = {} /\ posted = {} /\ ffi = FALSE /\ result = None
    /\ srv = "none" /\ said = <<>> /\ url = FALSE /\ guard = "none"

-----------------------------------------------------------------------------
(* The phases that take one language after the other.                      *)

Taking(p, l) == At(p) /\ todo # {} /\ l = First(todo)
Next1(l)     == todo' = todo \ {l} /\ UNCHANGED <<at, task, left, result, server>>

Choose(l) == chosen' = chosen \cup {l}
Drop      == UNCHANGED chosen

\* check_precondition of build and test.
Check(l) ==
    /\ Taking("check", l)
    /\ Choose(l) \/ Drop
    /\ Next1(l) /\ UNCHANGED <<call, effects>>

\* The first phase of update: the hooks run between the preconditions.
Plan(l) ==
    /\ Taking("plan", l)
    /\ \/ (Choose(l) \/ Drop) /\ Next1(l)
       \/ Return(l)
    /\ UNCHANGED <<call, effects>>

Before(l) ==
    /\ \E p \in {"before", "before_ind", "before_dep"} : Taking(p, l)
    /\ \/ Next1(l) /\ UNCHANGED chosen
       \/ Return(l)
    /\ UNCHANGED <<call, effects>>

BuildRust(l) ==
    /\ Taking("rust", l)
    /\ \E n \in 0..Len(Cmds[l]) :
          /\ done' = done \cup {Cmds[l][i] : i \in 1..n}
          /\ \/ n = Len(Cmds[l]) /\ Next1(l) /\ UNCHANGED chosen
             \/ n \in {0} \cup 0..(Len(Cmds[l]) - 1) /\ Return(l)
    /\ UNCHANGED <<call, posted, ffi>>

\* The verdict on a build, then its post-build steps.
PostBuild(l) ==
    /\ \E p \in {"post_ind", "post_dep"} : Taking(p, l)
    /\ \/ task[l] \notin Failed /\ posted' = posted \cup {l} /\ Next1(l) /\ UNCHANGED chosen
       \/ UNCHANGED posted /\ Return(l)
    /\ UNCHANGED <<call, done, ffi>>

\* test --e2e patches what the bindings' build left before it uses it.
PostE2e(l) ==
    /\ Taking("post_e2e", l)
    /\ \/ posted' = posted \cup {l} /\ Next1(l) /\ UNCHANGED chosen
       \/ UNCHANGED posted /\ Return(l)
    /\ UNCHANGED <<call, done, ffi>>

Sequential == {"check", "plan", "before", "before_ind", "before_dep", "rust",
               "post_ind", "post_dep", "post_e2e"}

PhaseEndsEarly ==                        \* a slip (see README, mutants)
    /\ Running
    /\ \/ Phase \in Sequential /\ todo = {}
       \/ Phase \in Fans /\ \A l \in todo : task[l] \in Ended
       \/ Phase \in Fans /\ \E l \in todo : task[l] \in Failed
    /\ GoOn
    /\ UNCHANGED <<call, chosen, left, effects, result, server>>

PhaseEnds ==
    /\ Running
    /\ \/ Phase \in Sequential /\ todo = {}
       \/ Phase \in Fans /\ \A l \in todo : task[l] \in Ended
    /\ GoOn
    /\ UNCHANGED <<call, chosen, left, effects, result, server>>

-----------------------------------------------------------------------------
(* The phases of the whole call.                                           *)

NeedsFfiIfAsked == chosen \cap FfiDependent # {} /\ Ffi \notin Langs  \* a slip

NeedsFfi == chosen \cap FfiDependent # {} /\ Ffi \notin chosen

BuildFfi ==
    /\ At("ffi")
    /\ \/ GoOn /\ ffi' = NeedsFfi /\ UNCHANGED <<chosen, left, result, server>>
       \/ NeedsFfi /\ Return("ffi_crate") /\ UNCHANGED ffi
    /\ UNCHANGED <<call, done, posted>>

\* get_host_target, for the staging of the FFI library; that staging fails is
\* only a warning.
Host ==
    /\ At("host")
    /\ \/ GoOn /\ UNCHANGED <<chosen, left, result, server>>
       \/ e2e /\ Return("host")
    /\ UNCHANGED <<call, effects>>

FirstFailure == First({l \in Langs : task[l] \in Failed})

Collect ==
    /\ At("collect")
    /\ Return(IF \E l \in Langs : task[l] \in Failed THEN FirstFailure ELSE "ok")
    /\ UNCHANGED <<call, effects>>

End ==
    /\ At("end") /\ Return("ok")
    /\ UNCHANGED <<call, effects>>

-----------------------------------------------------------------------------
(* A task of the fan-out.                                                  *)

UniqueOfAll(l) ==                                      \* a slip
    {i \in DOMAIN Cmds[l] :
        \A m \in Langs : Earlier(m, l) => \A j \in DOMAIN Cmds[m] : Cmds[m][j] # Cmds[l][i]}

\* dedupe_plans: a command that an earlier language of the list has, or this
\* one before, is left out.
Unique(l) ==
    {i \in DOMAIN Cmds[l] :
        /\ \A j \in 1..(i - 1) : Cmds[l][j] # Cmds[l][i]
        /\ \A m \in chosen : Earlier(m, l) => \A j \in DOMAIN Cmds[m] : Cmds[m][j] # Cmds[l][i]}

ToRun(l) == IF kind = "update" THEN Unique(l) ELSE DOMAIN CmdsOf(l)

Become(l, s) == task' = [task EXCEPT ![l] = s]
Still        == UNCHANGED <<call, control, chosen, posted, result, server>>
Working(l)   == Running /\ Phase \in Fans /\ l \in todo

Take(l) ==
    /\ Working(l) /\ task[l] = "queued"
    /\ Cardinality({m \in Langs : task[m] \in InFlight}) < Workers
    /\ Become(l, IF kind \in InTask THEN "pre" ELSE "run")
    /\ left' = [left EXCEPT ![l] = ToRun(l)]
    /\ UNCHANGED <<done, ffi>> /\ Still

Precondition(l) ==
    /\ Working(l) /\ task[l] = "pre"
    /\ Become(l, "before") \/ Become(l, "skipped")
    /\ UNCHANGED <<left, done, ffi>> /\ Still

Hook(l) ==
    /\ Working(l) /\ task[l] = "before"
    /\ Become(l, "run") \/ Become(l, "failed")
    /\ UNCHANGED <<left, done, ffi>> /\ Still

NextCmd(l) == CHOOSE i \in left[l] : \A j \in left[l] : i <= j

Command(l) ==
    /\ Working(l) /\ task[l] = "run" /\ left[l] # {}
    /\ \/ /\ left' = [left EXCEPT ![l] = @ \ {NextCmd(l)}]
          /\ done' = done \cup {CmdsOf(l)[NextCmd(l)]}
          /\ UNCHANGED task
       \/ Become(l, "failed") /\ UNCHANGED <<left, done>>
    /\ UNCHANGED ffi /\ Still

LimitedCommands(l) == task[l] = "run" /\ left[l] # {}            \* a slip

Limited(l) == task[l] = "before" \/ (task[l] = "run" /\ left[l] # {})

\* setup gives each hook and each command its timeout.
TimesOut(l) ==
    /\ kind = "setup" /\ Working(l) /\ Limited(l)
    /\ Become(l, "timed_out")
    /\ UNCHANGED <<left, done, ffi>> /\ Still

\* A test app without a run command was not tested.
TaskEnds(l) ==
    /\ Working(l) /\ task[l] = "run" /\ left[l] = {}
    /\ Become(l, IF kind = "test_apps" /\ CmdsOf(l) = <<>> THEN "skipped" ELSE "ok")
    /\ ffi' = (ffi \/ (kind = "build" /\ l = Ffi))
    /\ UNCHANGED <<left, done>> /\ Still

-----------------------------------------------------------------------------
(* start_mock_server, and the server.                                      *)

Parent == UNCHANGED <<call, chosen, left, effects>>

\* There is nothing to serve; or the server is built and spawned.
NoServer ==
    /\ At("server") /\ guard = "none"
    /\ GoOn
    /\ Parent /\ UNCHANGED <<result, server>>

NotStarted ==
    /\ At("server") /\ guard = "none"
    /\ Return("server")
    /\ UNCHANGED <<call, effects>>

Spawn ==
    /\ At("server") /\ guard = "none"
    /\ guard' = "child" /\ srv' = "starting"
    /\ Parent /\ UNCHANGED <<control, task, result, said, url>>

StartedThenDropped == GoOn /\ guard' = "none" /\ srv' = "reaped"     \* a slip

Started == GoOn /\ guard' = "handle" /\ UNCHANGED srv

\* The line that starts with MOCK_SERVERS= is the last one that is waited for.
ReadLine ==
    /\ At("server") /\ guard = "child" /\ said # <<>>
    /\ said' = Tail(said)
    /\ IF Head(said) = "url" THEN url' = TRUE /\ UNCHANGED <<control, task, guard, srv>>
                             ELSE Started /\ UNCHANGED url
    /\ Parent /\ UNCHANGED result

ReadEof ==
    /\ At("server") /\ guard = "child" /\ said = <<>> /\ srv \in Gone
    /\ \/ url /\ Started /\ Parent /\ UNCHANGED <<result, said, url>>
       \/ ~url /\ Return("server") /\ UNCHANGED <<call, effects>>

AsIfAlone == UNCHANGED <<call, control, tasks, effects, result, url, guard>>

Announce ==
    /\ srv = "starting"
    /\ srv' = "announced" /\ said' = Append(said, "url")
    /\ AsIfAlone

Serve ==
    /\ srv = "announced"
    /\ srv' = "serving" /\ said' = Append(said, "servers")
    /\ AsIfAlone

Crash ==
    /\ srv \notin Gone
    /\ srv' = "exited"
    /\ AsIfAlone /\ UNCHANGED said

StdinOpenToApps == guard # "none" \/ \E l \in Langs : task[l] = "run"  \* a slip

StdinOpen == guard # "none"

\* Having said everything the server reads its stdin until the end.
StdinEof ==
    /\ srv = "serving" /\ ~StdinOpen
    /\ srv' = "exited"
    /\ AsIfAlone /\ UNCHANGED said

\* alef is killed: its pipes are closed.
Kill ==
    /\ Running
    /\ result' = "killed" /\ guard' = "none"
    /\ UNCHANGED <<call, control, tasks, effects, srv, said, url>>

-----------------------------------------------------------------------------
Main ==
    \/ \E l \in Langs : Check(l) \/ Plan(l) \/ Before(l) \/ BuildRust(l) \/ PostBuild(l) \/ PostE2e(l)
    \/ PhaseEnds \/ BuildFfi \/ Host \/ Collect \/ End
    \/ NoServer \/ NotStarted \/ Spawn \/ ReadLine \/ ReadEof

Ready(l)  == Take(l) \/ Precondition(l) \/ TaskEnds(l)
Worker(l) == Ready(l) \/ Hook(l) \/ Command(l) \/ TimesOut(l)
Server    == Announce \/ Serve \/ StdinEof

Next == Main \/ (\E l \in Langs : Worker(l)) \/ Server \/ Crash \/ Kill

Spec == Init /\ [][Next]_vars

\* Threads are scheduled, the server's threads too.  Preconditions end, and so
\* do hooks and commands, except that setup's may hang until their timeout.
HookOrCommand(l) == kind # "setup" /\ (Hook(l) \/ Command(l))

Fairness ==
    /\ WF_vars(Main) /\ WF_vars(Server)
    /\ \A l \in Langs :
          /\ WF_vars(Ready(l)) /\ WF_vars(HookOrCommand(l)) /\ WF_vars(TimesOut(l))

FairSpec == Spec /\ Fairness
-----------------------------------------------------------------------------
(***************************************************************************)
(* Properties.                                                             *)
(***************************************************************************)

Skipped(l) == task[l] = "skipped" \/ (kind \notin InTask /\ l \notin chosen)

\* "ok" is said only when every language was skipped by its precondition (or
\* has nothing to run), or had all its commands succeed, its own or those
\* another language ran for it, and its bindings are post-processed.
OkIsComplete ==
    result = "ok" => \A l \in Langs : Skipped(l) \/
        /\ {CmdsOf(l)[i] : i \in DOMAIN CmdsOf(l)} \subseteq done
        /\ kind = "build" /\ l # Rust => l \in posted

\* What is reported does not depend on which task came first: after a fan-out
\* every language has had its try, and the error is the one of the first
\* language of the list that failed (clean.rs:31-41 and its likes).
FailureIsTheFirst ==
    Returned /\ Phase \in {"collect", "post_ind", "post_dep"} =>
        /\ \A l \in Langs : task[l] \notin InFlight \cup {"queued"}
        /\ result \in Langs =>
              \A l \in Langs : Earlier(l, result) => task[l] \notin Failed

\* A binding that links the FFI crate is built only after this call has built
\* that crate, whichever languages were asked for and passed their
\* preconditions (build.rs:58-79).
BuildsOnFfi ==
    \A l \in FfiDependent : kind = "build" /\ task[l] # "none" => ffi

\* The commands of the test apps run while the server they were given the
\* address of is held, and after it has said what they are told; when the
\* function returns it is gone, on success or failure (test_apps.rs:201-202).
ServedThroughout ==
    /\ srv # "none" /\ Running /\ (\E l \in Langs : task[l] # "none") => guard = "handle" /\ url
    /\ Returned => srv \in Gone

\* No listener survives alef, even when it is killed and nothing is dropped:
\* the server sees the end of its stdin.
OrphanDies == (result = "killed") ~> (srv \in Gone)

\* Every call returns: alef and the server never wait for each other, no slot
\* of the pool is lost, and setup gives up on what hangs.
Ends == Running ~> ~Running

=============================================================================

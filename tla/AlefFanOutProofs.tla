-------------------------- MODULE AlefFanOutProofs --------------------------
(***************************************************************************)
(* The safety of the fan-out, for any list of languages, any commands and  *)
(* any number of workers.                                                  *)
(***************************************************************************)
EXTENDS AlefFanOut, SequenceTheorems, WellFoundedInduction, TLAPS

Busy == InFlight \cup {"queued"}

\* Which phase follows which.
Follows ==
    \/ kind = "build" /\ Phase = "check" /\ Phase' = "rust"
    \/ kind = "build" /\ Phase = "rust" /\ Phase' = "ffi"
    \/ kind = "build" /\ Phase = "ffi" /\ Phase' = "before_ind"
    \/ kind = "build" /\ Phase = "before_ind" /\ Phase' = "fan_ind"
    \/ kind = "build" /\ Phase = "fan_ind" /\ Phase' = "post_ind"
    \/ kind = "build" /\ Phase = "post_ind" /\ Phase' = "before_dep"
    \/ kind = "build" /\ Phase = "before_dep" /\ Phase' = "fan_dep"
    \/ kind = "build" /\ Phase = "fan_dep" /\ Phase' = "post_dep"
    \/ kind = "build" /\ Phase = "post_dep" /\ Phase' = "end"
    \/ kind = "test" /\ Phase = "check" /\ Phase' = "before"
    \/ kind = "test" /\ Phase = "before" /\ Phase' = "post_e2e"
    \/ kind = "test" /\ Phase = "post_e2e" /\ Phase' = "host"
    \/ kind = "test" /\ Phase = "host" /\ Phase' = "fan"
    \/ kind = "update" /\ Phase = "plan" /\ Phase' = "fan"
    \/ kind = "test_apps" /\ Phase = "server" /\ Phase' = "fan"
    \/ kind \in {"test", "update", "setup", "clean", "test_apps"} /\ Phase = "fan" /\ Phase' = "collect"

BuildPhases == {"check", "rust", "ffi", "before_ind", "fan_ind", "post_ind",
                "before_dep", "fan_dep", "post_dep", "end"}

\* Which command has which phase.
Fits ==
    \/ kind = "build" /\ Phase \in BuildPhases
    \/ kind = "test" /\ Phase \in {"check", "before", "post_e2e", "host", "fan", "collect"}
    \/ kind = "update" /\ Phase \in {"plan", "fan", "collect"}
    \/ kind \in {"setup", "clean"} /\ Phase \in {"fan", "collect"}
    \/ kind = "test_apps" /\ Phase \in {"server", "fan", "collect"}

LEMMA PhasesFit == ASSUME TypeOK PROVE Fits
<1>1. kind \in DOMAIN Phases /\ at \in DOMAIN Phases[kind]
  BY FanOutAssumption DEF FanOutAssumption, TypeOK
<1>2. CASE kind = "build"
  BY <1>1, <1>2 DEF Phases, Phase, Fits, BuildPhases
<1>3. CASE kind = "test"
  BY <1>1, <1>3 DEF Phases, Phase, Fits
<1>4. CASE kind \in {"update", "setup", "clean", "test_apps"}
  BY <1>1, <1>4 DEF Phases, Phase, Fits
<1> QED BY <1>1, <1>2, <1>3, <1>4 DEF Phases

LEMMA PhasesFollow ==
    ASSUME TypeOK, at' = at + 1, kind' = kind, Phase \notin {"collect", "end"}
    PROVE  at + 1 \in DOMAIN Phases[kind] /\ Phase' = Phases[kind][at + 1] /\ Follows
<1>1. kind \in DOMAIN Phases /\ at \in DOMAIN Phases[kind]
  BY FanOutAssumption DEF FanOutAssumption, TypeOK
<1>2. CASE kind = "build"
  BY <1>1, <1>2 DEF Phases, Phase, Follows
<1>3. CASE kind = "test"
  BY <1>1, <1>3 DEF Phases, Phase, Follows
<1>4. CASE kind \in {"update", "setup", "clean", "test_apps"}
  BY <1>1, <1>4 DEF Phases, Phase, Follows
<1> QED BY <1>1, <1>2, <1>3, <1>4 DEF Phases

-----------------------------------------------------------------------------
(* Firsts and minima.                                                      *)

\* A set of numbers has a least one.
LEMMA Minimum ==
    ASSUME NEW T \in SUBSET Nat, T # {}
    PROVE  \E i \in T : \A j \in T : i <= j
<1>1. PICK x \in T : \A y \in T : ~(<<y, x>> \in OpToRel(<, Nat))
  BY NatLessThanWellFounded, WFMin
<1>2. ASSUME NEW y \in T, y < x PROVE FALSE
  <2>1. <<y, x>> \in OpToRel(<, Nat)
    BY <1>2 DEF OpToRel
  <2> QED BY <1>1, <2>1
<1> QED BY <1>2

\* First(S) is in S, and nothing of S is earlier.
LEMMA FirstOfList ==
    ASSUME NEW S \in SUBSET Langs, S # {}
    PROVE  First(S) \in S /\ \A l \in S : ~Earlier(l, First(S))
<1>1. DOMAIN List \subseteq Nat /\ \A i, j \in DOMAIN List : List[i] = List[j] => i = j
  BY FanOutAssumption DEF FanOutAssumption
<1>2. PICK i \in {k \in DOMAIN List : List[k] \in S} :
          \A j \in {k \in DOMAIN List : List[k] \in S} : i <= j
  <2>1. {k \in DOMAIN List : List[k] \in S} # {}
    BY DEF Langs
  <2> QED BY <1>1, <2>1, Minimum
<1>3. \A m \in S \ {List[i]} : Earlier(List[i], m)
  <2> TAKE m \in S \ {List[i]}
  <2>1. PICK j \in DOMAIN List : List[j] = m
    BY DEF Langs
  <2>2. i <= j /\ i # j
    BY <1>2, <2>1
  <2> QED BY <1>1, <1>2, <2>1, <2>2 DEF Earlier
<1>4. First(S) \in S /\ \A m \in S \ {First(S)} : Earlier(First(S), m)
  BY <1>2, <1>3 DEF First
<1>5. ASSUME NEW l \in S, Earlier(l, First(S)) PROVE FALSE
  <2>1. PICK a, b \in DOMAIN List : a < b /\ List[a] = l /\ List[b] = First(S)
    BY <1>5 DEF Earlier
  <2>2. l # First(S)
    BY <1>1, <2>1
  <2>3. PICK c, d \in DOMAIN List : c < d /\ List[c] = First(S) /\ List[d] = l
    BY <1>4, <2>2 DEF Earlier
  <2> QED BY <1>1, <2>1, <2>3
<1> QED BY <1>4, <1>5

LEMMA CmdsAreSequences ==
    ASSUME TypeOK, NEW l \in Langs
    PROVE  CmdsOf(l) \in Seq(STRING) /\ DOMAIN CmdsOf(l) \subseteq Nat
           /\ (kind # "test" => CmdsOf(l) = Cmds[l])
<1>1. Cmds[l] \in Seq(STRING) /\ E2eCmds[l] \in Seq(STRING) /\ <<>> \in Seq(STRING)
  BY FanOutAssumption, EmptySeq DEF FanOutAssumption
<1> DEFINE more == IF kind = "test" /\ e2e THEN E2eCmds[l] ELSE <<>>
<1>2. more \in Seq(STRING)
  BY <1>1
<1>3. CmdsOf(l) = Cmds[l] \o more
  BY DEF CmdsOf
<1>4. CmdsOf(l) \in Seq(STRING)
  BY <1>1, <1>2, <1>3, ConcatProperties
<1>5. kind # "test" => CmdsOf(l) = Cmds[l]
  BY <1>1, <1>3, ConcatEmptySeq
<1> QED BY <1>4, <1>5

LEMMA CmdsKept ==
    ASSUME UNCHANGED <<kind, e2e>>, NEW l PROVE CmdsOf(l)' = CmdsOf(l)
BY Zenon DEF CmdsOf

LEMMA NextCmdIsLeft ==
    ASSUME TypeOK, NEW l \in Langs, left[l] # {}
    PROVE  NextCmd(l) \in left[l] /\ NextCmd(l) \in DOMAIN CmdsOf(l) /\ CmdsOf(l)[NextCmd(l)] \in STRING
<1>1. left[l] \in SUBSET Nat /\ left[l] \subseteq DOMAIN CmdsOf(l)
  BY DEF TypeOK
<1>2. NextCmd(l) \in left[l]
  BY <1>1, Minimum DEF NextCmd
<1>3. CmdsOf(l) \in Seq(STRING)
  BY CmdsAreSequences
<1> QED BY <1>1, <1>2, <1>3

-----------------------------------------------------------------------------
(* The shapes of the steps.                                                *)

Single(l) == Check(l) \/ Plan(l) \/ Before(l) \/ BuildRust(l) \/ PostBuild(l) \/ PostE2e(l)
Advance   == PhaseEnds \/ (BuildFfi /\ GoOn) \/ (Host /\ GoOn) \/ NoServer
                \/ (ReadLine /\ Started) \/ (ReadEof /\ Started)
Returns   == \E r \in Others \cup Langs : r # "killed" /\ Running /\ Return(r) /\ UNCHANGED call
Verdict   == /\ Returns /\ UNCHANGED effects
             /\ Collect \/ Phase \in {"ffi", "host", "end", "server"}
             /\ result' = "ok" => Phase \in {"collect", "end"}
             /\ Phase = "server" => guard = "none" \/ srv \in Gone
Aside     == /\ UNCHANGED <<call, control, tasks, effects, result>>
             /\ UNCHANGED vars \/ Server \/ Crash \/ Spawn \/ (ReadLine /\ ~Started)

LEMMA GroupIsOfLangs ==
    ASSUME TypeOK, NEW p PROVE Group(p) \subseteq Langs
BY FanOutAssumption DEF FanOutAssumption, TypeOK, Group

LEMMA GroupKept ==
    ASSUME UNCHANGED <<kind, e2e, chosen>>, NEW p PROVE Group(p)' = Group(p)
BY DEF Group

\* One language of a sequential phase is dealt with, or the call returns.
LEMMA SingleStep ==
    ASSUME TypeOK, NEW l \in Langs, Single(l)
    PROVE  /\ Running /\ Phase \in Sequential /\ l \in todo /\ l = First(todo)
           /\ UNCHANGED <<kind, e2e, at, task, left, ffi>> /\ Phase' = Phase
           /\ \/ todo' = todo \ {l} /\ UNCHANGED <<result, srv, said, url, guard>>
              \/ Returns /\ result' = l
           /\ chosen' = chosen \/ (Phase \in {"check", "plan"} /\ chosen' = chosen \cup {l})
           /\ done \subseteq done' /\ posted \subseteq posted'
<1>1. /\ Running /\ Phase \in Sequential /\ l \in todo /\ l = First(todo)
      /\ UNCHANGED <<kind, e2e, at, task, left, ffi>>
  <2>1. todo # {} => First(todo) \in todo
    BY FirstOfList DEF TypeOK
  <2> QED BY <2>1 DEF Single, Check, Plan, Before, BuildRust, PostBuild, PostE2e, Taking, At, Next1,
                      Return, Sequential, call, control, tasks, effects, server
<1>2. \/ todo' = todo \ {l} /\ UNCHANGED <<result, srv, said, url, guard>>
      \/ Returns /\ result' = l
  <2>1. l \in Others \cup Langs /\ l # "killed"
    BY FanOutAssumption DEF FanOutAssumption, Others
  <2>2. Return(l) /\ UNCHANGED call => Returns /\ result' = l
    BY <1>1, <2>1 DEF Returns, Return
  <2> QED BY <2>2 DEF Single, Check, Plan, Before, BuildRust, PostBuild, PostE2e, Next1, server, call
<1>3. chosen' = chosen \/ (Phase \in {"check", "plan"} /\ chosen' = chosen \cup {l})
  BY DEF Single, Check, Plan, Before, BuildRust, PostBuild, PostE2e, Taking, At, Choose, Drop, Return, tasks
<1>4. done \subseteq done' /\ posted \subseteq posted'
  BY DEF Single, Check, Plan, Before, BuildRust, PostBuild, PostE2e, effects
<1> QED BY <1>1, <1>2, <1>3, <1>4 DEF Phase

\* A task moves on, and nothing else does but what it has effects on.
LEMMA WorkerStep ==
    ASSUME TypeOK, NEW l \in Langs, Worker(l)
    PROVE  /\ Running /\ Phase \in Fans /\ l \in todo /\ task[l] \in Busy
           /\ UNCHANGED <<kind, e2e, at, todo, chosen, posted, result, srv, said, url, guard>>
           /\ Phase' = Phase
           /\ task' \in [Langs -> InFlight \cup Ended \cup {"none", "queued"}]
           /\ task'[l] \in InFlight \cup Ended
           /\ \A m \in Langs \ {l} : task'[m] = task[m] /\ left'[m] = left[m]
           /\ done \subseteq done' /\ (ffi => ffi')
<1>1. /\ Running /\ Phase \in Fans /\ l \in todo /\ task[l] \in Busy
      /\ UNCHANGED <<kind, e2e, at, todo, chosen, posted, result, srv, said, url, guard>>
  BY DEF Worker, Ready, Take, Precondition, Hook, Command, TimesOut, TaskEnds, Working, Limited,
         Still, Busy, InFlight, call, control, server
<1>2. \E s \in InFlight \cup Ended : Become(l, s)
  BY DEF Worker, Ready, Take, Precondition, Hook, Command, TimesOut, TaskEnds, Become, InFlight,
         Ended, Failed, TypeOK
<1>3. \A m \in Langs \ {l} : left'[m] = left[m]
  BY DEF Worker, Ready, Take, Precondition, Hook, Command, TimesOut, TaskEnds, TypeOK
<1>4. done \subseteq done'
  BY DEF Worker, Ready, Take, Precondition, Hook, Command, TimesOut, TaskEnds
<1>5. ffi' = ffi \/ TaskEnds(l)
  BY DEF Worker, Ready, Take, Precondition, Hook, Command, TimesOut
<1>6. ffi => ffi'
  <2>1. TaskEnds(l) => (ffi => ffi')
    BY Zenon DEF TaskEnds
  <2> QED BY <1>5, <2>1
<1> QED BY <1>1, <1>2, <1>3, <1>4, <1>6 DEF Become, TypeOK, Phase

\* From one phase to the next.
LEMMA AdvanceStep ==
    ASSUME TypeOK, Advance
    PROVE  /\ Running /\ at' \in DOMAIN Phases[kind] /\ Follows
           /\ UNCHANGED <<kind, e2e, chosen, left, done, posted, result>>
           /\ todo' = Group(Phase') /\ todo' \subseteq Langs
           /\ task' = [l \in Langs |-> IF Phase' \in Fans /\ l \in todo' THEN "queued" ELSE task[l]]
           /\ Phase \in Sequential => todo = {}
           /\ Phase \in Fans => \A l \in todo : task[l] \in Ended
           /\ Phase # "ffi" => ffi' = ffi
           /\ Phase = "ffi" => ffi' \in BOOLEAN /\ (NeedsFfi => ffi')
           /\ Phase # "server" => UNCHANGED <<srv, said, url, guard>>
<1>1. /\ Running /\ GoOn /\ Phase \notin {"collect", "end"}
      /\ UNCHANGED <<kind, e2e, chosen, left, done, posted, result>>
      /\ Phase \in Sequential => todo = {}
      /\ Phase \in Fans => \A l \in todo : task[l] \in Ended
      /\ Phase # "ffi" => ffi' = ffi
      /\ Phase = "ffi" => ffi' \in BOOLEAN /\ (NeedsFfi => ffi')
      /\ Phase # "server" => UNCHANGED <<srv, said, url, guard>>
  <2>1. CASE PhaseEnds
    BY <2>1 DEF PhaseEnds, Sequential, Fans, call, effects, server
  <2>2. CASE BuildFfi /\ GoOn
    <3>1. Running /\ Phase = "ffi" /\ at' = at + 1
      BY <2>2 DEF BuildFfi, At, GoOn
    <3>2. ~UNCHANGED at
      BY <3>1 DEF TypeOK, Phases
    <3> QED BY <2>2, <3>1, <3>2, FanOutAssumption
            DEF FanOutAssumption, TypeOK, BuildFfi, Return, NeedsFfi, Sequential, Fans, call, server, control
  <2>3. CASE Host /\ GoOn
    <3>1. Running /\ Phase = "host" /\ at' = at + 1
      BY <2>3 DEF Host, At, GoOn
    <3>2. ~UNCHANGED at
      BY <3>1 DEF TypeOK, Phases
    <3> QED BY <2>3, <3>1, <3>2 DEF Host, Return, Sequential, Fans, call, server, control, effects
  <2>4. CASE NoServer
    BY <2>4 DEF NoServer, At, Parent, Sequential, Fans, call, effects, server
  <2>5. CASE ReadLine /\ Started
    BY <2>5 DEF ReadLine, Started, At, Parent, Sequential, Fans, call, effects
  <2>6. CASE ReadEof /\ Started
    <3>1. Running /\ Phase = "server" /\ at' = at + 1
      BY <2>6 DEF ReadEof, At, Started, GoOn
    <3>2. ~UNCHANGED at
      BY <3>1 DEF TypeOK, Phases
    <3> QED BY <2>6, <3>1, <3>2 DEF ReadEof, Started, Return, Parent, Sequential, Fans, call, effects, control
  <2> QED BY <2>1, <2>2, <2>3, <2>4, <2>5, <2>6 DEF Advance
<1>2. at + 1 \in DOMAIN Phases[kind] /\ Phase' = Phases[kind][at + 1] /\ Follows
  BY <1>1, PhasesFollow DEF GoOn
<1>3. todo' \subseteq Langs
  BY <1>1, GroupIsOfLangs DEF GoOn
<1> QED BY <1>1, <1>2, <1>3 DEF GoOn

\* Every step has one of the shapes.
LEMMA Steps ==
    ASSUME TypeOK, [Next]_vars
    PROVE  \/ \E l \in Langs : Single(l)
           \/ \E l \in Langs : Worker(l)
           \/ Advance \/ Verdict \/ Kill
           \/ Aside
<1>1. CASE PhaseEnds \/ NoServer
  BY <1>1 DEF Advance
<1>2. CASE BuildFfi
  <2>1. CASE GoOn
    BY <1>2, <2>1 DEF Advance
  <2>2. CASE Return("ffi_crate")
    <3>1. result' # result
      BY <1>2, <2>2, FanOutAssumption DEF FanOutAssumption, Others, BuildFfi, At, Running, Return
    <3> QED BY <1>2, <2>2, <3>1 DEF Verdict, Returns, Return, Others, BuildFfi, At, effects
  <2> QED BY <1>2, <2>1, <2>2 DEF BuildFfi
<1>3. CASE Host
  <2>1. CASE GoOn
    BY <1>3, <2>1 DEF Advance
  <2>2. CASE Return("host")
    BY <1>3, <2>2 DEF Verdict, Returns, Return, Others, Host, At
  <2> QED BY <1>3, <2>1, <2>2 DEF Host
<1>4. CASE Collect
  <2> DEFINE F == {l \in Langs : task[l] \in Failed}
  <2>1. F # {} => FirstFailure \in Langs
    BY FirstOfList DEF FirstFailure
  <2>2. Langs \cap Others = {} /\ "killed" \in Others /\ "ok" \in Others
    BY FanOutAssumption DEF FanOutAssumption, Others
  <2> QED BY <1>4, <2>1, <2>2 DEF Collect, Verdict, Returns, At
<1>5. CASE End \/ NotStarted
  BY <1>5 DEF End, NotStarted, Verdict, Returns, Return, Others, At
<1>6. CASE Spawn
  BY <1>6 DEF Spawn, Aside, Parent, tasks
<1>7. CASE ReadLine
  BY <1>7 DEF ReadLine, Advance, Aside, Parent, tasks, Started
<1>8. CASE ReadEof
  BY <1>8 DEF ReadEof, Advance, Verdict, Returns, Return, Others, At
<1>9. CASE Server \/ Crash
  BY <1>9 DEF Server, Announce, Serve, StdinEof, Crash, AsIfAlone, Aside
<1>10. CASE UNCHANGED vars
  BY <1>10 DEF vars, Aside
<1> QED BY <1>1, <1>2, <1>3, <1>4, <1>5, <1>6, <1>7, <1>8, <1>9, <1>10
        DEF Next, Main, Single

-----------------------------------------------------------------------------
(* The inductive invariant.                                                *)

\* Tasks work only during a fan-out, on the languages of its group.
TaskInv ==
    /\ \A l \in Langs : task[l] \in Busy => Phase \in Fans /\ l \in todo
    /\ Phase \in Fans => todo = Group(Phase)
    /\ kind = "build" => \A l \in Langs : task[l] \in {"none", "queued", "run", "ok", "failed"}

\* A build that goes on has dealt with no language whose task failed.
Judging   == {"fan_ind", "post_ind", "fan_dep", "post_dep"}
FailedInv == kind = "build" /\ Running =>
                \A l \in Langs : task[l] \in Failed => Phase \in Judging /\ l \in todo

BeforeDep == {"check", "rust", "ffi", "before_ind", "fan_ind", "post_ind", "before_dep"}
AfterInd  == {"before_dep", "fan_dep", "post_dep", "end"}
AfterFfi  == {"before_ind", "fan_ind", "post_ind"} \cup AfterInd

\* How the FFI crate comes to be built before what depends on it.
FfiInv ==
    kind = "build" =>
        /\ Phase \in {"check", "rust", "ffi"} => \A l \in Langs : task[l] = "none"
        /\ Ffi \in Langs /\ task[Ffi] = "ok" => ffi
        /\ Phase \in AfterFfi => chosen \cap FfiDependent = {} \/ ffi \/ Ffi \in chosen
        /\ Phase = "post_ind" /\ Ffi \in chosen => task[Ffi] \in Ended
        /\ Phase \in AfterInd => chosen \cap FfiDependent = {} \/ ffi
        /\ Phase \in BeforeDep => \A l \in FfiDependent : task[l] = "none"
        /\ \A l \in FfiDependent : task[l] # "none" => l \in chosen

\* The dialogue with the server, and who holds it.
ServerInv ==
    /\ srv # "none" => kind = "test_apps"
    /\ kind = "test_apps" /\ Phase = "server" => \A l \in Langs : task[l] = "none"
    /\ Running /\ guard = "none" => srv = "none"
    /\ guard # "none" => srv # "none"
    /\ guard = "child" => Running /\ Phase = "server"
    /\ Running /\ srv # "none" /\ Phase # "server" => guard = "handle" /\ url
    /\ Running /\ Phase = "server" => guard # "handle"
    /\ said \in {<<>>, <<"url">>, <<"url", "servers">>, <<"servers">>}
    /\ srv = "none" => said = <<>>
    /\ srv = "starting" => said = <<>>
    /\ srv = "announced" => said \in {<<>>, <<"url">>}
    /\ said = <<"servers">> => url
    /\ srv = "announced" /\ said = <<>> => url

IndInv == TypeOK /\ TaskInv /\ FailedInv /\ FfiInv /\ ServerInv /\ ServedThroughout
             /\ FailureIsTheFirst

LEMMA OneMore ==
    ASSUME NEW S, NEW A, A \subseteq S, NEW x \in S PROVE A \cup {x} \subseteq S
OBVIOUS

LEMMA TypeOKStep == ASSUME TypeOK, [Next]_vars PROVE TypeOK'
<1>1. CASE \E l \in Langs : Single(l)
  <2> PICK l \in Langs : Single(l)
    BY <1>1
  <2>1. Cmds[l] \in Seq(STRING)
    BY FanOutAssumption DEF FanOutAssumption
  <2>5. done' = done \/ \E n \in 0..Len(Cmds[l]) : done' = done \cup {Cmds[l][i] : i \in 1..n}
    BY DEF Single, Check, Plan, Before, BuildRust, PostBuild, PostE2e, effects
  <2>6. \A i \in 1..Len(Cmds[l]) : Cmds[l][i] \in STRING
    BY <2>1
  <2>7. done' \subseteq STRING
    <3>1. done \subseteq STRING /\ Len(Cmds[l]) \in Nat
      BY <2>1 DEF TypeOK
    <3>2. CASE done' = done
      BY <3>1, <3>2
    <3>3. ASSUME NEW n \in 0..Len(Cmds[l]), done' = done \cup {Cmds[l][i] : i \in 1..n}
          PROVE  done' \subseteq STRING
      <4>1. {Cmds[l][i] : i \in 1..n} \subseteq STRING
        BY <2>6, <3>1
      <4> QED BY <3>1, <3>3, <4>1
    <3> QED BY <2>5, <3>2, <3>3
  <2>8. posted' \subseteq Langs
    BY DEF Single, Check, Plan, Before, BuildRust, PostBuild, PostE2e, TypeOK, effects
  <2>2. done' \subseteq STRING /\ posted' \subseteq Langs
    BY <2>7, <2>8
  <2>3. todo' \subseteq Langs /\ chosen' \subseteq Langs /\ result' \in {None} \cup Others \cup Langs
        /\ srv' \in {"starting", "announced", "serving"} \cup Gone
        /\ url' \in BOOLEAN /\ guard' \in {"none", "child", "handle"}
    BY SingleStep DEF TypeOK, Returns, Return, control, Gone
  <2>4. \A m \in Langs : CmdsOf(m)' = CmdsOf(m)
    BY SingleStep, CmdsKept
  <2> QED BY <2>2, <2>3, <2>4, SingleStep DEF TypeOK
<1>2. CASE \E l \in Langs : Worker(l)
  <2> PICK l \in Langs : Worker(l)
    BY <1>2
  <2>1. \A m \in Langs : CmdsOf(m)' = CmdsOf(m)
    BY WorkerStep, CmdsKept
  <2>2. ToRun(l) \subseteq DOMAIN CmdsOf(l) /\ DOMAIN CmdsOf(l) \subseteq Nat
    BY CmdsAreSequences DEF ToRun, Unique
  <2>3. left' \in [Langs -> SUBSET Nat] /\ left'[l] \subseteq DOMAIN CmdsOf(l)
    BY <2>2 DEF TypeOK, Worker, Ready, Take, Precondition, Hook, Command, TimesOut, TaskEnds
  <2>4. done' \subseteq STRING
    <3>1. done' = done \/ (left[l] # {} /\ done' = done \cup {CmdsOf(l)[NextCmd(l)]})
      BY DEF Worker, Ready, Take, Precondition, Hook, Command, TimesOut, TaskEnds
    <3>2. left[l] # {} => CmdsOf(l)[NextCmd(l)] \in STRING
      BY NextCmdIsLeft
    <3>3. done \subseteq STRING
      BY DEF TypeOK
    <3>4. CASE done' = done
      BY <3>3, <3>4
    <3>5. CASE left[l] # {} /\ done' = done \cup {CmdsOf(l)[NextCmd(l)]}
      <4>1. CmdsOf(l)[NextCmd(l)] \in STRING
        BY <3>2, <3>5
      <4> QED BY <3>3, <3>5, <4>1, OneMore
    <3> QED BY <3>1, <3>4, <3>5
  <2>5. ffi' \in BOOLEAN
    <3>1. ffi' = ffi \/ TaskEnds(l)
      BY DEF Worker, Ready, Take, Precondition, Hook, Command, TimesOut
    <3>2. TaskEnds(l) => ffi' \in BOOLEAN
      BY Zenon DEF TaskEnds
    <3> QED BY <3>1, <3>2 DEF TypeOK
  <2>6. \A m \in Langs : left'[m] \subseteq DOMAIN CmdsOf(m)
    BY <2>3, WorkerStep DEF TypeOK
  <2> QED BY <2>1, <2>3, <2>4, <2>5, <2>6, WorkerStep DEF TypeOK
<1>3. CASE Advance
  <2>1. \A m \in Langs : CmdsOf(m)' = CmdsOf(m)
    BY <1>3, AdvanceStep, CmdsKept
  <2>2. task' \in [Langs -> {"none", "queued"} \cup InFlight \cup Ended]
    BY <1>3, AdvanceStep DEF TypeOK
  <2>3. ffi' \in BOOLEAN
    BY <1>3, AdvanceStep DEF TypeOK
  <2>4. srv' \in {"starting", "announced", "serving"} \cup Gone
        /\ url' \in BOOLEAN /\ guard' \in {"none", "child", "handle"}
    <3>1. CASE Phase # "server"
      BY <1>3, <3>1, AdvanceStep DEF TypeOK
    <3>2. CASE Phase = "server"
      <4>1. NoServer \/ (ReadLine /\ Started) \/ (ReadEof /\ Started)
        BY <1>3, <3>2 DEF Advance, PhaseEnds, BuildFfi, Host, At, Sequential, Fans
      <4>2. NoServer \/ (srv' = srv /\ guard' = "handle" /\ url' \in {url, TRUE})
        <5>1. CASE ReadLine /\ Started
          BY <5>1 DEF ReadLine, Started
        <5>2. CASE ReadEof /\ Started
          <6>1. Running /\ at' = at + 1
            BY <5>2 DEF ReadEof, At, Started, GoOn
          <6>2. ~UNCHANGED at
            BY <6>1 DEF TypeOK, Phases
          <6> QED BY <5>2, <6>1, <6>2 DEF ReadEof, Started, Return, control
        <5> QED BY <4>1, <5>1, <5>2
      <4> QED BY <4>2 DEF NoServer, server, TypeOK
    <3> QED BY <3>1, <3>2
  <2> QED BY <1>3, <2>1, <2>2, <2>3, <2>4, AdvanceStep DEF TypeOK
<1>4. CASE Verdict \/ Kill
  <2>1. \A m \in Langs : CmdsOf(m)' = CmdsOf(m)
    BY <1>4, CmdsKept DEF Verdict, Returns, Kill, call
  <2>2. UNCHANGED <<kind, e2e, at, todo, chosen, task, left, said, url>>
    BY <1>4 DEF Verdict, Returns, Kill, Return, call, control, tasks
  <2>3. done' \subseteq STRING /\ posted' \subseteq Langs /\ ffi' \in BOOLEAN
    BY <1>4 DEF Verdict, Kill, effects, TypeOK
  <2>4. result' \in {None} \cup Others \cup Langs /\ guard' = "none"
        /\ srv' \in {"starting", "announced", "serving"} \cup Gone
    BY <1>4 DEF Verdict, Returns, Kill, Return, TypeOK, Others, Gone
  <2> QED BY <2>1, <2>2, <2>3, <2>4 DEF TypeOK
<1>5. CASE Aside
  <2>1. srv' \in {"starting", "announced", "serving"} \cup Gone
        /\ url' \in BOOLEAN /\ guard' \in {"none", "child", "handle"}
    <3>1. CASE UNCHANGED vars
      BY <3>1 DEF vars, server, TypeOK
    <3>2. CASE Server \/ Crash
      BY <3>2 DEF Server, Announce, Serve, StdinEof, Crash, AsIfAlone, Gone, TypeOK
    <3>3. CASE Spawn \/ (ReadLine /\ ~Started)
      BY <3>3 DEF Spawn, ReadLine, TypeOK
    <3> QED BY <1>5, <3>1, <3>2, <3>3 DEF Aside
  <2> QED BY <1>5, <2>1 DEF Aside, call, control, tasks, effects, TypeOK, CmdsOf
<1> QED BY <1>1, <1>2, <1>3, <1>4, <1>5, Steps

LEMMA InitHolds == Init => IndInv
<1> SUFFICES ASSUME Init PROVE IndInv
  OBVIOUS
<1>1. kind \in DOMAIN Phases /\ at = 1 /\ 1 \in DOMAIN Phases[kind] /\ result = None
  BY FanOutAssumption DEF FanOutAssumption, Init, Phases
<1>2. TypeOK
  <2>1. Group(Phases[kind][1]) \subseteq Langs
    BY FanOutAssumption DEF FanOutAssumption, Init, Group
  <2>2. e2e \in BOOLEAN
    BY DEF Init
  <2>3. task \in [Langs -> {"none", "queued"} \cup InFlight \cup Ended]
    BY DEF Init
  <2>4. left \in [Langs -> SUBSET Nat] /\ \A l \in Langs : left[l] \subseteq DOMAIN CmdsOf(l)
    BY DEF Init
  <2> QED BY <1>1, <2>1, <2>2, <2>3, <2>4 DEF Init, TypeOK, Gone
<1>3. Phase = Phases[kind][1] /\ todo = Group(Phase)
  BY <1>1 DEF Init, Phase
<1>4. kind \in {"setup", "clean"} => Phase = "fan" /\ todo = Langs
  BY <1>3 DEF Phases, Group, InTask
<1>5. kind = "build" => Phase = "check"
  BY <1>3 DEF Phases
<1>6. TaskInv
  <2>1. \A l \in Langs : task[l] \in {"none", "queued"} /\ (task[l] = "queued" => kind \in {"setup", "clean"})
    BY DEF Init
  <2> QED BY <1>3, <1>4, <2>1 DEF TaskInv, Busy, InFlight, Fans
<1>7. FailedInv /\ FfiInv
  <2>1. \A l \in Langs : task[l] \in {"none", "queued"} /\ (kind = "build" => task[l] = "none")
    BY DEF Init
  <2>2. FfiDependent \subseteq Langs
    BY FanOutAssumption DEF FanOutAssumption
  <2> QED BY <1>5, <2>1, <2>2 DEF FailedInv, FfiInv, Failed, AfterFfi, AfterInd, BeforeDep
<1>8. ServerInv
  <2>1. kind = "test_apps" => \A l \in Langs : task[l] = "none"
    BY DEF Init
  <2> QED BY <2>1 DEF Init, ServerInv
<1>9. ServedThroughout /\ FailureIsTheFirst
  BY <1>1 DEF Init, ServedThroughout, FailureIsTheFirst, Returned, Gone
<1> QED BY <1>2, <1>6, <1>7, <1>8, <1>9 DEF IndInv

\* What does not change where only the verdict or the server does.
LEMMA QuietStep ==
    ASSUME Verdict \/ Kill \/ Aside
    PROVE  /\ UNCHANGED <<kind, e2e, at, todo, chosen, task, left, done, posted, ffi>> /\ Phase' = Phase
           /\ \A p : Group(p)' = Group(p)
<1>1. UNCHANGED <<kind, e2e, at, todo, chosen, task, left, done, posted, ffi>>
  BY DEF Verdict, Returns, Return, Kill, Aside, call, control, tasks, effects
<1> QED BY <1>1, GroupKept DEF Phase

LEMMA TaskInvStep == ASSUME TypeOK, TaskInv, [Next]_vars PROVE TaskInv'
<1>1. CASE \E l \in Langs : Single(l)
  <2> PICK l \in Langs : Single(l)
    BY <1>1
  <2>1. Phase \notin Fans
    BY SingleStep DEF Sequential, Fans
  <2> QED BY <2>1, SingleStep DEF TaskInv
<1>2. CASE \E l \in Langs : Worker(l)
  <2> PICK l \in Langs : Worker(l)
    BY <1>2
  <2>1. Group(Phase)' = Group(Phase)
    BY WorkerStep, GroupKept DEF Phase
  <2>2. kind = "build" => task'[l] \in {"none", "queued", "run", "ok", "failed"}
    BY DEF TypeOK, TaskInv, Worker, Ready, Take, Precondition, Hook, Command, TimesOut, TaskEnds, Become,
           InTask, Fans
  <2> QED BY <2>1, <2>2, WorkerStep DEF TaskInv
<1>3. CASE Advance
  <2>1. \A l \in Langs : task[l] \notin Busy
    BY <1>3, AdvanceStep DEF TaskInv, Busy, InFlight, Ended, Failed
  <2>2. kind' = kind /\ todo' = Group(Phase') /\ todo' \subseteq Langs
        /\ task' = [l \in Langs |-> IF Phase' \in Fans /\ l \in todo' THEN "queued" ELSE task[l]]
    BY <1>3, AdvanceStep
  <2>3. Phase' \in Fans => todo' = (Group(Phase))'
    BY <1>3, <2>2, AdvanceStep DEF Group
  <2> QED BY <2>1, <2>2, <2>3 DEF TaskInv, Busy, InFlight
<1>4. CASE Verdict \/ Kill \/ Aside
  <2>1. Group(Phase)' = Group(Phase)
    BY <1>4, QuietStep DEF Group
  <2> QED BY <1>4, <2>1, QuietStep DEF TaskInv
<1> QED BY <1>1, <1>2, <1>3, <1>4, Steps

LEMMA FailedInvStep == ASSUME TypeOK, TaskInv, FailedInv, [Next]_vars PROVE FailedInv'
<1>1. CASE \E l \in Langs : Single(l)
  <2> PICK l \in Langs : Single(l)
    BY <1>1
  <2>1. CASE Returns
    BY <2>1, FanOutAssumption DEF FanOutAssumption, Returns, Return, FailedInv, Running
  <2>2. CASE todo' = todo \ {l} /\ result' = result
    <3>1. kind = "build" => task[l] \notin Failed
      <4>1. CASE Phase \in Judging
        <5>1. PostBuild(l)
          BY <4>1 DEF Single, Check, Plan, Before, BuildRust, PostE2e, Taking, At, Judging
        <5> QED BY <2>2, <5>1, SingleStep DEF PostBuild, Return, control
      <4>2. CASE Phase \notin Judging
        BY <4>2, SingleStep DEF FailedInv
      <4> QED BY <4>1, <4>2
    <3> QED BY <2>2, <3>1, SingleStep DEF FailedInv, Running
  <2> QED BY <2>1, <2>2, SingleStep
<1>2. CASE \E l \in Langs : Worker(l)
  <2> PICK l \in Langs : Worker(l)
    BY <1>2
  <2>1. kind = "build" => Phase \in Judging
    BY WorkerStep, PhasesFit DEF Fits, Fans, BuildPhases, Judging
  <2> QED BY <2>1, WorkerStep DEF FailedInv, Running
<1>3. CASE Advance
  <2>1. /\ Running /\ kind' = kind /\ todo' = Group(Phase') /\ chosen' = chosen
        /\ \A l \in Langs : task'[l] = "queued" \/ task'[l] = task[l]
        /\ Phase \in Sequential => todo = {}
    BY <1>3, AdvanceStep
  <2>2. kind = "build" => \A l \in Langs : task[l] \in Failed => Phase \in {"fan_ind", "fan_dep"} /\ l \in Group(Phase)
    BY <2>1 DEF FailedInv, Sequential, Judging, TaskInv, Fans
  <2>3. kind = "build" /\ Phase = "fan_ind" => Phase' = "post_ind" /\ Group(Phase') = Group(Phase)
    BY <1>3, AdvanceStep DEF Follows, Group
  <2>4. kind = "build" /\ Phase = "fan_dep" => Phase' = "post_dep" /\ Group(Phase') = Group(Phase)
    BY <1>3, AdvanceStep DEF Follows, Group
  <2> QED BY <2>1, <2>2, <2>3, <2>4 DEF FailedInv, Judging, Failed
<1>4. CASE Verdict \/ Kill \/ Aside
  <2>1. Running' => Running
    BY <1>4, FanOutAssumption DEF FanOutAssumption, Others, Verdict, Returns, Return, Kill, Aside, Running
  <2> QED BY <1>4, <2>1, QuietStep DEF FailedInv
<1> QED BY <1>1, <1>2, <1>3, <1>4, Steps

LEMMA FfiInvStep ==
    ASSUME TypeOK, TaskInv, FailedInv, FfiInv, [Next]_vars PROVE FfiInv'
<1> SUFFICES ASSUME kind = "build", kind' = "build" PROVE FfiInv'
  <2>1. kind' = kind
    BY DEF Next, Main, Worker, Ready, Server, Single, vars, call, Check, Plan, Before, BuildRust, PostBuild,
           PostE2e, PhaseEnds, BuildFfi, Host, Collect, End, NoServer, NotStarted, Spawn, ReadLine, ReadEof,
           Take, Precondition, Hook, Command, TimesOut, TaskEnds, Still, Parent, AsIfAlone, Announce, Serve,
           StdinEof, Crash, Kill
  <2> QED BY <2>1 DEF FfiInv
<1>0. FfiDependent \subseteq Langs \ {Rust, Ffi} /\ Rust # Ffi
  BY FanOutAssumption DEF FanOutAssumption
<1>1. CASE \E l \in Langs : Single(l)
  <2> PICK l \in Langs : Single(l)
    BY <1>1
  <2>1. Phase \in AfterFfi => chosen' = chosen
    BY SingleStep DEF AfterFfi, AfterInd
  <2>2. AfterInd \subseteq AfterFfi /\ "post_ind" \in AfterFfi /\ chosen \subseteq chosen'
    BY SingleStep DEF AfterFfi, AfterInd
  <2> QED BY <2>1, <2>2, SingleStep DEF FfiInv
<1>2. CASE \E l \in Langs : Worker(l)
  <2> PICK l \in Langs : Worker(l)
    BY <1>2
  <2>1. Phase \in {"fan_ind", "fan_dep"} /\ l \in Group(Phase)
    BY WorkerStep, PhasesFit DEF TaskInv, Fits, Fans, BuildPhases
  <2>2. l \in chosen /\ (Phase = "fan_ind" => l \notin FfiDependent)
    BY <2>1 DEF Group
  <2>3. task'[l] = "ok" /\ l = Ffi => ffi'
    <3>1. task'[l] = "ok" => TaskEnds(l)
      BY WorkerStep DEF Worker, Ready, Take, Precondition, Hook, Command, TimesOut, Become, Busy, InFlight, InTask, TypeOK
    <3>2. TaskEnds(l) /\ l = Ffi => ffi'
      BY DEF TaskEnds
    <3> QED BY <3>1, <3>2
  <2>4. Ffi \in Langs /\ task'[Ffi] = "ok" => ffi'
    BY <2>3, WorkerStep DEF FfiInv
  <2>5. Phase \in BeforeDep => \A m \in FfiDependent : task'[m] = "none"
    BY <1>0, <2>1, <2>2, WorkerStep DEF FfiInv, BeforeDep
  <2>6. \A m \in FfiDependent : task'[m] # "none" => m \in chosen
    BY <1>0, <2>2, WorkerStep DEF FfiInv
  <2>7. Phase' = Phase /\ Phase # "post_ind" /\ chosen' = chosen /\ (ffi => ffi')
    BY <2>1, WorkerStep
  <2>8. Phase' \notin {"check", "rust", "ffi"}
    BY <2>1, <2>7
  <2> QED BY <2>4, <2>5, <2>6, <2>7, <2>8 DEF FfiInv
<1>3. CASE Advance
  <2>1. /\ chosen' = chosen /\ todo' = Group(Phase') /\ Follows /\ Running
        /\ \A l \in Langs : task'[l] = IF Phase' \in Fans /\ l \in todo' THEN "queued" ELSE task[l]
        /\ Phase # "ffi" => ffi' = ffi
        /\ Phase = "ffi" => (NeedsFfi => ffi')
        /\ Phase \in Fans => \A l \in todo : task[l] \in Ended
        /\ Phase \in Sequential => todo = {}
    BY <1>3, AdvanceStep
  <2>2. Phase' \in AfterFfi => chosen \cap FfiDependent = {} \/ ffi' \/ Ffi \in chosen
    BY <2>1 DEF Follows, AfterFfi, AfterInd, FfiInv, NeedsFfi
  <2>3. Ffi \in Langs /\ task'[Ffi] = "ok" => ffi'
    BY <2>1 DEF FfiInv
  <2>4. Phase' = "post_ind" /\ Ffi \in chosen => task'[Ffi] \in Ended
    <3>1. SUFFICES ASSUME Phase' = "post_ind", Ffi \in chosen PROVE task'[Ffi] \in Ended
      OBVIOUS
    <3>2. Phase = "fan_ind" /\ Ffi \in Langs
      BY <2>1, <3>1 DEF Follows, TypeOK
    <3>3. Ffi \in todo
      BY <1>0, <3>1, <3>2 DEF TaskInv, Group, Fans
    <3> QED BY <2>1, <3>1, <3>2, <3>3 DEF Fans
  <2>5. Phase' \in AfterInd => chosen \cap FfiDependent = {} \/ ffi'
    <3>1. CASE Phase = "post_ind"
      <4>1. Ffi \in chosen => task[Ffi] = "ok"
        <5>1. Ffi \in chosen => Ffi \in Langs /\ task[Ffi] \in Ended /\ task[Ffi] \notin Failed
          BY <2>1, <3>1 DEF FfiInv, FailedInv, Sequential, TypeOK
        <5> QED BY <5>1 DEF TaskInv, Ended, Failed
      <4> QED BY <2>1, <3>1, <4>1 DEF FfiInv, AfterFfi, TypeOK
    <3>2. CASE Phase # "post_ind"
      BY <2>1, <3>2 DEF Follows, AfterInd, FfiInv
    <3> QED BY <3>1, <3>2
  <2>6. Phase' \in BeforeDep => \A l \in FfiDependent : task'[l] = "none"
    <3>1. Phase' \in BeforeDep => Phase \in BeforeDep /\ Phase' # "fan_dep" /\ Phase' # "fan"
      BY <2>1 DEF Follows, BeforeDep
    <3>2. Phase' = "fan_ind" => todo' \cap FfiDependent = {}
      BY <2>1 DEF Group
    <3> QED BY <1>0, <2>1, <3>1, <3>2 DEF FfiInv, Fans
  <2>8. Phase' \in {"check", "rust", "ffi"} => \A l \in Langs : task'[l] = "none"
    BY <2>1 DEF Follows, FfiInv, Fans
  <2>7. \A l \in FfiDependent : task'[l] # "none" => l \in chosen
    <3>1. Phase' \in Fans => todo' \subseteq chosen
      BY <2>1 DEF Follows, Group, Fans
    <3> QED BY <1>0, <2>1, <3>1 DEF FfiInv
  <2> QED BY <2>1, <2>2, <2>3, <2>4, <2>5, <2>6, <2>7, <2>8 DEF FfiInv
<1>4. CASE Verdict \/ Kill \/ Aside
  BY <1>4, QuietStep DEF FfiInv
<1> QED BY <1>1, <1>2, <1>3, <1>4, Steps

LEMMA PairOfSingle ==
    ASSUME NEW S, NEW a \in S, NEW b \in S PROVE Append(<<a>>, b) = <<a, b>>
<1> DEFINE both == Append(<<a>>, b)
<1>1. <<a>> \in Seq(S) /\ <<a, b>> \in Seq(S)
  OBVIOUS
<1>2. Len(<<a>>) = 1 /\ <<a>>[1] = a /\ Len(<<a, b>>) = 2 /\ <<a, b>>[1] = a /\ <<a, b>>[2] = b
  OBVIOUS
<1>3. both \in Seq(S) /\ Len(both) = 2 /\ both[1] = a /\ both[2] = b
  BY <1>1, <1>2, AppendProperties
<1> HIDE DEF both
<1>4. both = <<a, b>>
  BY <1>1, <1>2, <1>3
<1> QED BY <1>4 DEF both

\* What is left to be read, line by line.
LEMMA Lines ==
    /\ <<"url">> # <<>> /\ <<"servers">> # <<>> /\ <<"url", "servers">> # <<>>
    /\ <<"url">> # <<"servers">> /\ <<"url", "servers">> # <<"servers">> /\ <<"url", "servers">> # <<"url">>
    /\ Head(<<"url">>) = "url" /\ Head(<<"servers">>) = "servers" /\ Head(<<"url", "servers">>) = "url"
    /\ Tail(<<"url">>) = <<>> /\ Tail(<<"servers">>) = <<>> /\ Tail(<<"url", "servers">>) = <<"servers">>
    /\ Append(<<>>, "url") = <<"url">> /\ Append(<<>>, "servers") = <<"servers">>
    /\ Append(<<"url">>, "servers") = <<"url", "servers">>
<1>1. "url" \in {"url", "servers"} /\ "servers" \in {"url", "servers"}
  OBVIOUS
<1>2. Append(<<"url">>, "servers") = <<"url", "servers">>
  BY <1>1, PairOfSingle
<1> QED BY <1>2

LEMMA ServerInvStep ==
    ASSUME TypeOK, TaskInv, ServerInv, [Next]_vars PROVE ServerInv'
<1>0. None \notin Others /\ "killed" \in Others
  BY FanOutAssumption DEF FanOutAssumption, Others
<1>1. ASSUME Returns, UNCHANGED <<task, said, url>>, Phase' = Phase PROVE ServerInv'
  <2>1. ~Running' /\ guard' = "none" /\ kind' = kind
    BY <1>0, <1>1, FanOutAssumption DEF FanOutAssumption, Returns, Return, Running, call
  <2>2. srv' = srv \/ (srv' = "reaped" /\ srv # "none")
    BY <1>1 DEF Returns, Return, ServerInv, Running
  <2> QED BY <1>1, <2>1, <2>2 DEF ServerInv
<1>2. ASSUME UNCHANGED <<kind, result, srv, said, url, guard>>, Phase' = Phase, Phase # "server"
      PROVE  ServerInv'
  BY <1>2 DEF ServerInv, Running
<1>3. CASE \E l \in Langs : Single(l)
  <2> PICK l \in Langs : Single(l)
    BY <1>3
  <2>1. Phase # "server"
    BY SingleStep DEF Sequential
  <2>2. Returns => UNCHANGED <<said, url>>
    BY DEF Returns, Return
  <2> QED BY <1>1, <1>2, <2>1, <2>2, SingleStep
<1>4. CASE \E l \in Langs : Worker(l)
  <2> PICK l \in Langs : Worker(l)
    BY <1>4
  <2>1. Phase # "server"
    BY WorkerStep DEF Fans
  <2> QED BY <1>2, <2>1, WorkerStep
<1>5. CASE Advance
  <2>1. Running /\ Running' /\ kind' = kind /\ Phase' # "server"
    BY <1>5, AdvanceStep DEF Follows, Running
  <2>2. CASE Phase # "server"
    <3>1. UNCHANGED <<srv, said, url, guard>>
      BY <1>5, <2>2, AdvanceStep
    <3> QED BY <2>1, <2>2, <3>1 DEF ServerInv
  <2>3. CASE Phase = "server"
    <3>0. ~(PhaseEnds \/ BuildFfi \/ Host)
      BY <2>3 DEF PhaseEnds, BuildFfi, Host, At, Sequential, Fans
    <3>1. CASE NoServer
      BY <2>1, <2>3, <3>1 DEF NoServer, server, ServerInv
    <3>2. CASE ReadLine /\ Started
      <4>1. said \in {<<"url">>, <<"url", "servers">>, <<"servers">>} /\ Head(said) # "url" /\ said' = Tail(said)
            /\ url' = url /\ srv' = srv /\ guard' = "handle"
        <5>1. ~UNCHANGED guard
          BY <3>2 DEF ReadLine, Started
        <5> QED BY <3>2, <5>1 DEF ReadLine, ServerInv, Started
      <4>2. said = <<"servers">> /\ said' = <<>>
        BY <4>1, Lines
      <4> QED BY <2>1, <4>1, <4>2 DEF ServerInv
    <3>3. CASE ReadEof /\ Started
      <4>1. ~Return("server")
        BY <3>3 DEF Started, Return
      <4> QED BY <2>1, <3>3, <4>1 DEF ReadEof, Started, ServerInv
    <3> QED BY <1>5, <3>0, <3>1, <3>2, <3>3 DEF Advance
  <2> QED BY <2>2, <2>3
<1>6. CASE Verdict
  <2>1. UNCHANGED <<said, url>>
    BY <1>6 DEF Verdict, Returns, Return
  <2> QED BY <1>1, <1>6, <2>1, QuietStep DEF Verdict
<1>7. CASE Kill
  BY <1>0, <1>7, QuietStep DEF Kill, ServerInv, Running
<1>8. CASE Aside
  <2>1. UNCHANGED <<kind, result, task>> /\ Phase' = Phase
    BY <1>8, QuietStep DEF Aside
  <2>2. CASE UNCHANGED vars
    BY <2>1, <2>2 DEF vars, server, ServerInv, Running
  <2>3. CASE Announce
    BY <2>1, <2>3 DEF Announce, AsIfAlone, ServerInv, Running
  <2>4. CASE Serve
    BY <2>1, <2>4, Lines DEF Serve, AsIfAlone, ServerInv, Running
  <2>5. CASE StdinEof \/ Crash
    BY <2>1, <2>5 DEF StdinEof, Crash, AsIfAlone, ServerInv, Running, Gone
  <2>6. CASE Spawn
    <3>1. kind = "test_apps"
      BY <2>6, PhasesFit DEF Spawn, At, Fits, BuildPhases
    <3> QED BY <2>1, <2>6, <3>1 DEF Spawn, At, ServerInv, Running
  <2>7. CASE ReadLine /\ ~Started
    <3>1. said' = Tail(said) /\ Head(said) = "url" /\ url' = TRUE /\ UNCHANGED <<guard, srv>>
          /\ said # <<>>
      BY <2>7 DEF ReadLine
    <3>2. \/ said = <<"url">> /\ said' = <<>>
          \/ said = <<"url", "servers">> /\ said' = <<"servers">>
      BY <3>1, Lines DEF ServerInv
    <3> QED BY <2>1, <3>1, <3>2 DEF ServerInv, Running
  <2> QED BY <1>8, <2>2, <2>3, <2>4, <2>5, <2>6, <2>7 DEF Aside, Server
<1> QED BY <1>3, <1>4, <1>5, <1>6, <1>7, <1>8, Steps

LEMMA ServedStep ==
    ASSUME TypeOK, TaskInv, ServerInv, ServedThroughout, ServerInv', TypeOK', [Next]_vars
    PROVE  ServedThroughout'
<1>1. (srv # "none" /\ Running /\ (\E l \in Langs : task[l] # "none") => guard = "handle" /\ url)'
  <2>1. kind' = "test_apps" /\ Phase' = "server" => \A l \in Langs : task'[l] = "none"
    BY DEF ServerInv
  <2> QED BY <2>1 DEF ServerInv
<1>2. ASSUME Returned' PROVE srv' \in Gone
  <2>1. ASSUME Returns PROVE srv' \in Gone \/ (Phase = "server" /\ guard = "child")
    BY <2>1 DEF Returns, Return, ServerInv, Running, Gone, TypeOK
  <2>2. CASE \E l \in Langs : Single(l)
    <3> PICK l \in Langs : Single(l)
      BY <2>2
    <3> QED BY <1>2, <2>1, SingleStep DEF Sequential, Returned, Running
  <2>3. CASE (\E l \in Langs : Worker(l)) \/ Advance \/ Kill
    <3>1. Running' \/ result' = "killed"
      BY <2>3, WorkerStep, AdvanceStep DEF Running, Kill
    <3> QED BY <1>2, <3>1 DEF Running, Returned
  <2>4. CASE Verdict
    <3>1. CASE Phase # "server"
      BY <2>1, <2>4, <3>1 DEF Verdict
    <3>2. CASE Phase = "server"
      <4>1. guard = "none" \/ srv \in Gone
        BY <2>4, <3>2 DEF Verdict
      <4> QED BY <2>1, <2>4, <4>1 DEF Verdict, Returns, Return, Gone
    <3> QED BY <3>1, <3>2
  <2>5. CASE Aside
    <3>1. Returned /\ srv \in Gone /\ ~Running
      BY <1>2, <2>5 DEF Aside, Returned, Running, ServedThroughout
    <3> QED BY <2>5, <3>1 DEF Aside, vars, server, Server, Announce, Serve, StdinEof, Crash, Spawn, ReadLine,
                              At, Gone
  <2> QED BY <2>2, <2>3, <2>4, <2>5, Steps
<1> QED BY <1>1, <1>2 DEF ServedThroughout

LEMMA FirstStep ==
    ASSUME TypeOK, TaskInv, FailedInv, FailureIsTheFirst, [Next]_vars
    PROVE  FailureIsTheFirst'
<1>1. CASE \E l \in Langs : Single(l)
  <2> PICK l \in Langs : Single(l)
    BY <1>1
  <2>1. CASE result' = result
    BY <2>1, SingleStep DEF FailureIsTheFirst, Returned, Running
  <2>2. CASE result' = l /\ Phase \in {"post_ind", "post_dep"}
    <3>1. kind = "build" /\ Running /\ Phase \notin Fans
      BY <2>2, SingleStep, PhasesFit DEF Fits, Fans
    <3>2. \A m \in Langs : task[m] \in Failed => m \in todo
      BY <3>1 DEF FailedInv
    <3>3. \A m \in todo : ~Earlier(m, l)
      BY SingleStep, FirstOfList DEF TypeOK
    <3>4. \A m \in Langs : task[m] \notin Busy
      BY <3>1 DEF TaskInv
    <3> QED BY <2>2, <3>2, <3>3, <3>4, SingleStep DEF FailureIsTheFirst, Busy, Earlier
  <2>3. CASE Phase \notin {"post_ind", "post_dep"}
    BY <2>3, SingleStep DEF FailureIsTheFirst, Sequential
  <2> QED BY <2>1, <2>2, <2>3, SingleStep
<1>2. CASE (\E l \in Langs : Worker(l)) \/ Advance \/ Kill
  <2>1. result' = None \/ result' = "killed"
    BY <1>2, WorkerStep, AdvanceStep DEF Running, Kill
  <2> QED BY <2>1 DEF FailureIsTheFirst, Returned
<1>3. CASE Verdict
  <2>1. CASE Collect
    <3> DEFINE F == {l \in Langs : task[l] \in Failed}
    <3>1. Phase = "collect" /\ result' = IF \E l \in Langs : task[l] \in Failed THEN FirstFailure ELSE "ok"
      BY <2>1 DEF Collect, At, Return
    <3>2. F # {} => \A l \in F : ~Earlier(l, FirstFailure)
      BY FirstOfList DEF FirstFailure
    <3>3. F = {} => result' \notin Langs
      BY <3>1, FanOutAssumption DEF FanOutAssumption, Others
    <3>4. \A m \in Langs : task[m] \notin Busy
      BY <3>1 DEF TaskInv, Fans
    <3> QED BY <1>3, <3>1, <3>2, <3>3, <3>4, QuietStep DEF FailureIsTheFirst, Busy, Earlier
  <2>2. CASE Phase \in {"ffi", "host", "end", "server"}
    BY <1>3, <2>2, QuietStep DEF FailureIsTheFirst
  <2> QED BY <1>3, <2>1, <2>2 DEF Verdict
<1>4. CASE Aside
  BY <1>4, QuietStep DEF Aside, FailureIsTheFirst, Returned, Earlier
<1> QED BY <1>1, <1>2, <1>3, <1>4, Steps

LEMMA StepKeeps == IndInv /\ [Next]_vars => IndInv'
BY TypeOKStep, TaskInvStep, FailedInvStep, FfiInvStep, ServerInvStep, ServedStep, FirstStep DEF IndInv

\* The conjunction is an invariant of every call.
THEOREM FanOutInvariance == Spec => []IndInv
BY InitHolds, StepKeeps, PTL DEF Spec

\* The variables of a call, its tasks and its server keep their types.
THEOREM FanOutTypeCorrect == Spec => []TypeOK
<1>1. IndInv => TypeOK
  BY DEF IndInv
<1> QED BY <1>1, FanOutInvariance, PTL

\* No language that links the FFI crate is built before this call has built
\* that crate, for any list, hooks and preconditions (build.rs:58-79).
THEOREM FfiBeforeDependents == Spec => []BuildsOnFfi
<1>1. IndInv => BuildsOnFfi
  <2> SUFFICES ASSUME IndInv, kind = "build", NEW l \in FfiDependent, task[l] # "none" PROVE ffi
    BY DEF BuildsOnFfi
  <2>1. l \in chosen /\ Phase \in BuildPhases /\ Phase \notin BeforeDep
    BY PhasesFit DEF IndInv, FfiInv, Fits
  <2>2. Phase \in AfterInd
    BY <2>1 DEF BuildPhases, BeforeDep, AfterInd
  <2>3. chosen \cap FfiDependent = {} \/ ffi
    BY <2>2 DEF IndInv, FfiInv
  <2> QED BY <2>1, <2>3
<1> QED BY <1>1, FanOutInvariance, PTL

\* The test apps run only while the server they were told of is held, and it is
\* gone when `alef test-apps run` returns (test_apps.rs:114-202).
THEOREM AppsAreServed == Spec => []ServedThroughout
<1>1. IndInv => ServedThroughout
  BY DEF IndInv
<1> QED BY <1>1, FanOutInvariance, PTL

\* The error of a fan-out is the one of the first language of the list that
\* failed, however the tasks were scheduled, and every language had its try.
THEOREM FirstFailureIsReported == Spec => []FailureIsTheFirst
<1>1. IndInv => FailureIsTheFirst
  BY DEF IndInv
<1> QED BY <1>1, FanOutInvariance, PTL
-----------------------------------------------------------------------------
(* What "ok" says.                                                         *)

Complete(l) == \A i \in DOMAIN CmdsOf(l) : CmdsOf(l)[i] \in done

\* What a task has run and has to run; every task has ended when the call
\* collects them; "ok" is not said over a failure.
WorkInv ==
    /\ kind = "update" /\ Phase = "plan" => \A l \in Langs : task[l] = "none"
    /\ \A l \in Langs : task[l] \in InFlight => \A i \in ToRun(l) : i \in left[l] \/ CmdsOf(l)[i] \in done
    /\ \A l \in Langs : task[l] = "ok" => \A i \in ToRun(l) : CmdsOf(l)[i] \in done
    /\ kind \notin InTask => \A l \in Langs : task[l] \notin {"pre", "before", "skipped"}
    /\ Phase = "collect" => \A l \in Group("fan") : task[l] \in Ended
    /\ result = "ok" => Phase \in {"collect", "end"} /\ \A l \in Langs : task[l] \notin Failed

Independent == chosen \ (FfiDependent \cup {Rust})
Dependent   == chosen \cap FfiDependent

\* What a build has dealt with when it goes on from phase to phase.
BuildInv ==
    kind = "build" =>
        /\ Phase # "check" /\ Rust \in chosen => (Phase = "rust" /\ Rust \in todo) \/ Complete(Rust)
        /\ Phase \in {"post_ind"} \cup AfterInd =>
              \A l \in Independent : task[l] \in Ended /\ ((Phase = "post_ind" /\ l \in todo) \/ l \in posted)
        /\ Phase \in {"post_dep", "end"} =>
              \A l \in Dependent : task[l] \in Ended /\ ((Phase = "post_dep" /\ l \in todo) \/ l \in posted)

\* A command that is left out of an update's plan is in the plan of a language
\* that is updated (update.rs:6-21).
LEMMA DedupeLosesNothing ==
    ASSUME TypeOK, kind = "update", NEW l \in chosen, NEW i \in DOMAIN Cmds[l]
    PROVE  \E m \in chosen : \E j \in Unique(m) : Cmds[m][j] = Cmds[l][i]
<1>0. /\ chosen \subseteq Langs /\ DOMAIN List \subseteq Nat
      /\ \A m \in Langs : Cmds[m] \in Seq(STRING)
      /\ \A a, b \in DOMAIN List : List[a] = List[b] => a = b
  BY FanOutAssumption DEF FanOutAssumption, TypeOK
<1> DEFINE Has(m) == \E j \in DOMAIN Cmds[m] : Cmds[m][j] = Cmds[l][i]
           T      == {p \in DOMAIN List : List[p] \in chosen /\ Has(List[p])}
<1>1. PICK p \in T : \A q \in T : p <= q
  <2>1. PICK q \in DOMAIN List : List[q] = l
    BY <1>0 DEF Langs
  <2>2. q \in T
    BY <2>1
  <2> QED BY <1>0, <2>2, Minimum
<1> DEFINE m == List[p]
           Q == {j \in DOMAIN Cmds[m] : Cmds[m][j] = Cmds[l][i]}
<1>2. m \in chosen /\ m \in Langs /\ p \in DOMAIN List /\ Has(m)
  BY <1>0, <1>1
<1>3. DOMAIN Cmds[m] \subseteq Nat /\ DOMAIN Cmds[m] = 1..Len(Cmds[m]) /\ Len(Cmds[m]) \in Nat
  BY <1>0, <1>2
<1>4. PICK j \in Q : \A k \in Q : j <= k
  <2>1. Q \in SUBSET Nat /\ Q # {}
    BY <1>2, <1>3
  <2> QED BY <2>1, Minimum
<1>5. \A k \in 1..(j - 1) : Cmds[m][k] # Cmds[m][j]
  BY <1>3, <1>4
<1>6. ASSUME NEW n \in chosen, Earlier(n, m), NEW k \in DOMAIN Cmds[n], Cmds[n][k] = Cmds[m][j]
      PROVE  FALSE
  <2>1. PICK a, b \in DOMAIN List : a < b /\ List[a] = n /\ List[b] = m
    BY <1>6 DEF Earlier
  <2>2. b = p
    BY <1>0, <1>2, <2>1
  <2>3. a \in T
    BY <1>4, <1>6, <2>1
  <2> QED BY <1>0, <1>1, <2>1, <2>2, <2>3
<1>7. j \in Unique(m)
  BY <1>4, <1>5, <1>6 DEF Unique
<1> QED BY <1>2, <1>4, <1>7

\* The invariants say that "ok" is complete.
LEMMA OkFollows == ASSUME TypeOK, TaskInv, WorkInv, BuildInv PROVE OkIsComplete
<1> SUFFICES ASSUME result = "ok", NEW l \in Langs, ~Skipped(l)
             PROVE  Complete(l) /\ (kind = "build" /\ l # Rust => l \in posted)
  BY DEF OkIsComplete, Complete
<1>1. task[l] # "skipped" /\ (kind \in InTask \/ l \in chosen)
  BY DEF Skipped
<1>2. Phase \in {"collect", "end"} /\ \A m \in Langs : task[m] \notin Failed
  BY DEF WorkInv
<1>3. ASSUME NEW m \in Langs, task[m] \in Ended, task[m] # "skipped" PROVE task[m] = "ok"
  BY <1>2, <1>3 DEF Ended
<1>4. CASE kind = "build"
  <2>1. Phase = "end" /\ l \in chosen
    BY <1>1, <1>2, <1>4, PhasesFit DEF Fits, BuildPhases, InTask
  <2>2. CASE l = Rust
    BY <1>4, <2>1, <2>2 DEF BuildInv
  <2>3. CASE l # Rust
    <3>1. task[l] \in Ended /\ l \in posted
      BY <1>4, <2>1, <2>3 DEF BuildInv, Independent, Dependent, AfterInd
    <3>2. task[l] = "ok"
      BY <1>1, <1>3, <3>1
    <3> QED BY <1>4, <3>1, <3>2 DEF WorkInv, ToRun, Complete
  <2> QED BY <2>2, <2>3
<1>5. CASE kind # "build"
  <2>1. Phase = "collect"
    BY <1>2, <1>5, PhasesFit DEF Fits
  <2>2. \A m \in Group("fan") : task[m] \in Ended
    BY <2>1 DEF WorkInv
  <2>3. l \in Group("fan")
    BY <1>1 DEF Group
  <2>4. task[l] = "ok"
    BY <1>1, <1>3, <2>2, <2>3
  <2>5. CASE kind # "update"
    BY <1>5, <2>4, <2>5 DEF WorkInv, ToRun, Complete
  <2>6. CASE kind = "update"
    <3>1. Group("fan") = chosen /\ chosen \subseteq Langs /\ l \in chosen
      BY <1>1, <2>6 DEF Group, InTask, TypeOK
    <3>2. \A m \in chosen : task[m] = "ok"
      BY <1>3, <2>2, <2>6, <3>1 DEF WorkInv, InTask
    <3>3. \A m \in chosen : \A j \in Unique(m) : Cmds[m][j] \in done
      BY <2>6, <3>1, <3>2, CmdsAreSequences DEF WorkInv, ToRun
    <3>4. \A i \in DOMAIN Cmds[l] : Cmds[l][i] \in done
      BY <2>6, <3>1, <3>3, DedupeLosesNothing
    <3> QED BY <1>5, <2>6, <3>4, CmdsAreSequences DEF Complete
  <2> QED BY <1>5, <2>5, <2>6
<1> QED BY <1>4, <1>5

LEMMA ToRunKept ==
    ASSUME UNCHANGED <<kind, e2e>>, kind = "update" => UNCHANGED chosen, NEW l
    PROVE  ToRun(l)' = ToRun(l) /\ CmdsOf(l)' = CmdsOf(l)
<1>1. CmdsOf(l)' = CmdsOf(l)
  BY CmdsKept
<1>2. kind = "update" => Unique(l)' = Unique(l)
  BY DEF Unique
<1> QED BY <1>1, <1>2 DEF ToRun

LEMMA WorkInvInit == Init => WorkInv /\ BuildInv
<1> SUFFICES ASSUME Init PROVE WorkInv /\ BuildInv
  OBVIOUS
<1>1. kind \in DOMAIN Phases /\ Phase = Phases[kind][1]
  BY FanOutAssumption DEF FanOutAssumption, Init, Phase
<1>2. Phase # "collect" /\ (kind = "build" => Phase = "check")
  BY <1>1 DEF Phases
<1>3. \A l \in Langs : task[l] \in {"none", "queued"} /\ (task[l] = "queued" => kind \in {"setup", "clean"})
  BY DEF Init
<1>4. result # "ok"
  BY FanOutAssumption DEF FanOutAssumption, Init, Others
<1> QED BY <1>2, <1>3, <1>4 DEF Init, WorkInv, BuildInv, AfterInd, InFlight, InTask

LEMMA WorkInvStep ==
    ASSUME TypeOK, TaskInv, FailedInv, WorkInv, [Next]_vars PROVE WorkInv'
<1>0. None # "ok" /\ "ok" \notin Langs
  BY FanOutAssumption DEF FanOutAssumption, Others
<1>1. CASE \E l \in Langs : Single(l)
  <2> PICK l \in Langs : Single(l)
    BY <1>1
  <2>1. /\ UNCHANGED <<kind, e2e, task, left>> /\ Phase' = Phase /\ Phase \in Sequential
        /\ done \subseteq done'
    BY SingleStep
  <2>2. Phase \notin Fans /\ Phase \notin {"collect", "end"}
    BY <2>1 DEF Sequential, Fans
  <2>3. \A m \in Langs : task[m] \notin InFlight
    BY <2>2 DEF TaskInv, Busy
  <2>4. ASSUME NEW m \in Langs, task[m] = "ok" PROVE ToRun(m)' = ToRun(m) /\ CmdsOf(m)' = CmdsOf(m)
    <3>1. kind = "update" => Phase \notin {"check", "plan"}
      BY <2>4, PhasesFit DEF WorkInv, Fits
    <3>2. kind = "update" => chosen' = chosen
      BY <3>1, SingleStep
    <3> QED BY <2>1, <3>2, ToRunKept
  <2>5. result' # "ok"
    BY <1>0, <2>2, SingleStep DEF WorkInv
  <2> QED BY <2>1, <2>2, <2>3, <2>4, <2>5 DEF WorkInv
<1>2. CASE \E l \in Langs : Worker(l)
  <2> PICK l \in Langs : Worker(l)
    BY <1>2
  <2>1. /\ Running /\ Phase \in Fans /\ UNCHANGED <<kind, e2e, chosen, result>> /\ Phase' = Phase
        /\ \A m \in Langs \ {l} : task'[m] = task[m] /\ left'[m] = left[m]
        /\ done \subseteq done'
    BY WorkerStep
  <2>2. Phase \notin {"plan", "collect"} /\ result' # "ok"
    BY <1>0, <2>1 DEF Fans, Running
  <2>3. \A m \in Langs : ToRun(m)' = ToRun(m) /\ CmdsOf(m)' = CmdsOf(m)
    BY <2>1, ToRunKept
  <2>4. left \in [Langs -> SUBSET Nat] /\ task \in [Langs -> {"none", "queued"} \cup InFlight \cup Ended]
    BY DEF TypeOK
  <2>5. task'[l] \in InFlight => \A i \in ToRun(l) : i \in left'[l] \/ CmdsOf(l)[i] \in done'
    <3>1. CASE Take(l)
      BY <2>4, <3>1 DEF Take
    <3>2. CASE Command(l)
      BY <2>4, <3>2 DEF Command, Become, WorkInv, InFlight
    <3>3. CASE Precondition(l) \/ Hook(l)
      BY <2>1, <2>4, <3>3 DEF Precondition, Hook, WorkInv, InFlight
    <3>4. CASE TimesOut(l) \/ TaskEnds(l)
      BY <2>4, <3>4 DEF TimesOut, TaskEnds, Become, InFlight
    <3> QED BY <3>1, <3>2, <3>3, <3>4 DEF Worker, Ready
  <2>6. task'[l] = "ok" => \A i \in ToRun(l) : CmdsOf(l)[i] \in done'
    <3>1. CASE TaskEnds(l)
      BY <2>1, <3>1 DEF TaskEnds, WorkInv, InFlight
    <3>2. CASE Worker(l) /\ ~TaskEnds(l)
      <4>1. task'[l] # "ok"
        BY <2>4, <3>2, WorkerStep
           DEF Worker, Ready, Take, Precondition, Hook, Command, TimesOut, Become, Busy, InFlight
      <4> QED BY <4>1
    <3> QED BY <3>1, <3>2
  <2>7. kind \notin InTask => task'[l] \notin {"pre", "before", "skipped"}
    <3> SUFFICES ASSUME kind \notin InTask PROVE task'[l] \notin {"pre", "before", "skipped"}
      OBVIOUS
    <3>1. task[l] \notin {"pre", "before", "skipped"} /\ kind # "test_apps"
      BY DEF WorkInv, InTask
    <3> QED BY <2>4, <3>1 DEF Worker, Ready, Take, Precondition, Hook, Command, TimesOut, TaskEnds, Become
  <2> QED BY <2>1, <2>2, <2>3, <2>5, <2>6, <2>7 DEF WorkInv
<1>3. CASE Advance
  <2>1. /\ Running /\ Follows /\ UNCHANGED <<kind, e2e, chosen, left, done, result>>
        /\ todo' = Group(Phase')
        /\ task' = [l \in Langs |-> IF Phase' \in Fans /\ l \in todo' THEN "queued" ELSE task[l]]
        /\ Phase \in Fans => \A l \in todo : task[l] \in Ended
    BY <1>3, AdvanceStep
  <2>2. Phase' # "plan" /\ result' # "ok"
    BY <1>0, <2>1 DEF Follows, Running
  <2>3. \A m \in Langs : ToRun(m)' = ToRun(m) /\ CmdsOf(m)' = CmdsOf(m)
    BY <2>1, ToRunKept
  <2>4. Phase' = "collect" => \A l \in (Group("fan"))' : task'[l] \in Ended
    <3> SUFFICES ASSUME Phase' = "collect" PROVE \A l \in (Group("fan"))' : task'[l] \in Ended
      OBVIOUS
    <3>1. Phase = "fan"
      BY <2>1 DEF Follows
    <3>2. todo = Group("fan") /\ Group("fan")' = Group("fan") /\ Group("fan") \subseteq Langs
      BY <2>1, <3>1, GroupKept, GroupIsOfLangs DEF TaskInv, Fans
    <3> QED BY <2>1, <3>1, <3>2 DEF Fans
  <2> QED BY <2>1, <2>2, <2>3, <2>4 DEF WorkInv, InFlight
<1>4. CASE Verdict \/ Kill \/ Aside
  <2>1. /\ UNCHANGED <<kind, e2e, at, todo, chosen, task, left, done, posted, ffi>> /\ Phase' = Phase
        /\ Group("fan")' = Group("fan")
    BY <1>4, QuietStep
  <2>2. \A m \in Langs : ToRun(m)' = ToRun(m) /\ CmdsOf(m)' = CmdsOf(m)
    BY <2>1, ToRunKept
  <2>3. result' = "ok" => Phase \in {"collect", "end"} /\ \A l \in Langs : task[l] \notin Failed
    <3>1. CASE Kill \/ Aside
      BY <3>1 DEF Kill, Aside, WorkInv
    <3>2. CASE Verdict
      <4> SUFFICES ASSUME result' = "ok"
                   PROVE  Phase \in {"collect", "end"} /\ \A l \in Langs : task[l] \notin Failed
        OBVIOUS
      <4>1. CASE Collect
        <5> DEFINE F == {l \in Langs : task[l] \in Failed}
        <5>1. F # {} => FirstFailure \in Langs
          BY FirstOfList DEF FirstFailure
        <5>2. Phase = "collect" /\ result' = IF \E l \in Langs : task[l] \in Failed THEN FirstFailure ELSE "ok"
          BY <4>1 DEF Collect, At, Return
        <5> QED BY <1>0, <5>1, <5>2
      <4>2. CASE ~Collect
        <5>1. Phase \in {"collect", "end"} /\ Running
          BY <3>2 DEF Verdict, Returns
        <5>2. Phase = "end"
          BY <3>2, <4>2, <5>1 DEF Verdict
        <5>3. kind = "build" /\ Phase \notin Judging
          BY <5>2, PhasesFit DEF Fits, Judging
        <5> QED BY <5>1, <5>2, <5>3 DEF FailedInv
      <4> QED BY <4>1, <4>2
    <3> QED BY <1>4, <3>1, <3>2
  <2> QED BY <2>1, <2>2, <2>3 DEF WorkInv
<1> QED BY <1>1, <1>2, <1>3, <1>4, Steps

LEMMA CompleteKept ==
    ASSUME UNCHANGED <<kind, e2e>>, done \subseteq done', NEW l, Complete(l) PROVE Complete(l)'
<1>1. CmdsOf(l)' = CmdsOf(l)
  BY CmdsKept
<1> QED BY <1>1 DEF Complete

LEMMA BuildInvStep ==
    ASSUME TypeOK, TaskInv, FailedInv, BuildInv, [Next]_vars PROVE BuildInv'
<1>0. /\ FfiDependent \subseteq Langs \ {Rust, Ffi} /\ chosen \subseteq Langs
      /\ Independent \subseteq Langs /\ Dependent \subseteq Langs
  BY FanOutAssumption DEF FanOutAssumption, TypeOK, Independent, Dependent
<1>1. CASE \E l \in Langs : Single(l)
  <2> PICK l \in Langs : Single(l)
    BY <1>1
  <2>1. /\ UNCHANGED <<kind, e2e, task>> /\ Phase' = Phase /\ Phase \in Sequential
        /\ done \subseteq done' /\ posted \subseteq posted'
        /\ todo' = todo \ {l} \/ todo' = todo
    BY SingleStep DEF Returns, Return, control
  <2> SUFFICES ASSUME kind = "build" PROVE BuildInv'
    BY <2>1 DEF BuildInv
  <2>2. CASE Phase = "check"
    BY <2>1, <2>2 DEF BuildInv, AfterInd
  <2>3. CASE Phase # "check"
    <3>1. chosen' = chosen /\ Independent' = Independent /\ Dependent' = Dependent
      <4>1. chosen' = chosen
        BY <2>3, SingleStep, PhasesFit DEF Fits, BuildPhases
      <4> QED BY <4>1 DEF Independent, Dependent
    <3>2. Rust \in chosen => (Phase = "rust" /\ Rust \in todo') \/ Complete(Rust)'
      <4> SUFFICES ASSUME Rust \in chosen, ~Complete(Rust)' PROVE Phase = "rust" /\ Rust \in todo'
        OBVIOUS
      <4>1. ~Complete(Rust)
        BY <2>1, CompleteKept
      <4>2. Phase = "rust" /\ Rust \in todo
        BY <2>3, <4>1 DEF BuildInv
      <4>3. l = Rust => todo' = todo
        <5> SUFFICES ASSUME l = Rust, todo' # todo PROVE FALSE
          OBVIOUS
        <5>1. BuildRust(l) /\ Next1(l)
          BY <4>2 DEF Single, Check, Plan, Before, BuildRust, PostBuild, PostE2e, Taking, At, Return, control
        <5>2. PICK n \in 0..Len(Cmds[l]) :
                 /\ done' = done \cup {Cmds[l][i] : i \in 1..n}
                 /\ \/ n = Len(Cmds[l]) /\ Next1(l) /\ UNCHANGED chosen
                    \/ n \in {0} \cup 0..(Len(Cmds[l]) - 1) /\ Return(l)
          BY <5>1 DEF BuildRust
        <5>3. n = Len(Cmds[l])
          BY <5>2 DEF Return, control
        <5>4. CmdsOf(l)' = Cmds[l] /\ Cmds[l] \in Seq(STRING)
          BY <1>0, <2>1, CmdsAreSequences, CmdsKept
        <5>5. \A i \in DOMAIN Cmds[l] : Cmds[l][i] \in done'
          BY <5>2, <5>3, <5>4
        <5> QED BY <5>4, <5>5 DEF Complete
      <4> QED BY <2>1, <4>2, <4>3
    <3>3. ASSUME NEW m \in Langs, m \in todo, m \notin todo', Phase \in {"post_ind", "post_dep"}
          PROVE  m \in posted'
      <4>1. m = l /\ todo' # todo
        BY <2>1, <3>3
      <4> QED BY <3>3, <4>1 DEF Single, Check, Plan, Before, BuildRust, PostBuild, PostE2e, Taking, At,
                                Return, control
    <3> QED BY <1>0, <2>1, <2>3, <3>1, <3>2, <3>3 DEF BuildInv
  <2> QED BY <2>2, <2>3
<1>2. CASE \E l \in Langs : Worker(l)
  <2> PICK l \in Langs : Worker(l)
    BY <1>2
  <2>1. /\ Phase \in Fans /\ UNCHANGED <<kind, e2e, todo, chosen, posted>> /\ Phase' = Phase
        /\ l \in todo /\ \A m \in Langs \ {l} : task'[m] = task[m]
        /\ done \subseteq done'
    BY WorkerStep
  <2> SUFFICES ASSUME kind = "build" PROVE BuildInv'
    BY <2>1 DEF BuildInv
  <2>2. Phase \in {"fan_ind", "fan_dep"} /\ l \in Group(Phase)
    BY <2>1, PhasesFit DEF Fits, BuildPhases, Fans, TaskInv
  <2>3. Rust \in chosen => Complete(Rust)'
    BY <2>1, <2>2, CompleteKept DEF BuildInv
  <2>4. Phase = "fan_dep" => \A m \in Independent : m # l
    BY <2>2 DEF Independent, Group
  <2> QED BY <1>0, <2>1, <2>2, <2>3, <2>4 DEF BuildInv, Independent, Dependent, AfterInd
<1>3. CASE Advance
  <2>1. /\ Running /\ Follows /\ UNCHANGED <<kind, e2e, chosen, done, posted>>
        /\ todo' = Group(Phase')
        /\ task' = [l \in Langs |-> IF Phase' \in Fans /\ l \in todo' THEN "queued" ELSE task[l]]
        /\ Phase \in Sequential => todo = {}
        /\ Phase \in Fans => \A l \in todo : task[l] \in Ended
    BY <1>3, AdvanceStep
  <2> SUFFICES ASSUME kind = "build" PROVE BuildInv'
    BY <2>1 DEF BuildInv
  <2>2. Independent' = Independent /\ Dependent' = Dependent
    BY <2>1 DEF Independent, Dependent
  <2>3. Rust \in chosen => (Phase' = "rust" /\ Rust \in todo') \/ Complete(Rust)'
    <3>1. Phase = "check" => Phase' = "rust" /\ (Rust \in chosen => Rust \in todo')
      BY <2>1 DEF Follows, Group
    <3>2. Phase # "check" /\ Rust \in chosen => Complete(Rust)
      BY <2>1 DEF BuildInv, Sequential
    <3> QED BY <2>1, <3>1, <3>2, CompleteKept
  <2>4. Phase' = "post_ind" => todo' = Independent /\ \A l \in Independent : task'[l] \in Ended
    <3> SUFFICES ASSUME Phase' = "post_ind"
                 PROVE  todo' = Independent /\ \A l \in Independent : task'[l] \in Ended
      OBVIOUS
    <3>1. Phase = "fan_ind" /\ todo' = Independent
      BY <2>1 DEF Follows, Group, Independent
    <3>2. todo = Independent
      BY <3>1 DEF TaskInv, Fans, Group, Independent
    <3> QED BY <1>0, <2>1, <3>1, <3>2 DEF Fans
  <2>5. Phase' = "post_dep" => todo' = Dependent /\ \A l \in Dependent : task'[l] \in Ended
    <3> SUFFICES ASSUME Phase' = "post_dep"
                 PROVE  todo' = Dependent /\ \A l \in Dependent : task'[l] \in Ended
      OBVIOUS
    <3>1. Phase = "fan_dep" /\ todo' = Dependent
      BY <2>1 DEF Follows, Group, Dependent
    <3>2. todo = Dependent
      BY <3>1 DEF TaskInv, Fans, Group, Dependent
    <3> QED BY <1>0, <2>1, <3>1, <3>2 DEF Fans
  <2>6. Phase' \in AfterInd => \A l \in Independent : task'[l] \in Ended /\ l \in posted
    <3> SUFFICES ASSUME Phase' \in AfterInd, NEW l \in Independent
                 PROVE  task'[l] \in Ended /\ l \in posted
      OBVIOUS
    <3>1. Phase \in {"post_ind", "before_dep", "fan_dep", "post_dep"} /\ (Phase = "post_ind" => todo = {})
      BY <2>1 DEF Follows, AfterInd, Sequential
    <3>2. task[l] \in Ended /\ l \in posted
      BY <3>1 DEF BuildInv, AfterInd
    <3>3. Phase' \in Fans => l \notin todo'
      BY <2>1 DEF Follows, AfterInd, Fans, Group, Independent
    <3> QED BY <1>0, <2>1, <3>2, <3>3
  <2>7. Phase' = "end" => \A l \in Dependent : task'[l] \in Ended /\ l \in posted
    <3> SUFFICES ASSUME Phase' = "end", NEW l \in Dependent PROVE task'[l] \in Ended /\ l \in posted
      OBVIOUS
    <3>1. Phase = "post_dep" /\ todo = {}
      BY <2>1 DEF Follows, Sequential
    <3> QED BY <1>0, <2>1, <3>1 DEF BuildInv, Fans
  <2> QED BY <2>1, <2>2, <2>3, <2>4, <2>5, <2>6, <2>7 DEF BuildInv, Follows, AfterInd
<1>4. CASE Verdict \/ Kill \/ Aside
  <2>1. /\ UNCHANGED <<kind, e2e, at, todo, chosen, task, left, done, posted, ffi>> /\ Phase' = Phase
    BY <1>4, QuietStep
  <2>2. Complete(Rust)' <=> Complete(Rust)
    BY <2>1, CmdsKept DEF Complete
  <2> QED BY <2>1, <2>2 DEF BuildInv, Independent, Dependent
<1> QED BY <1>1, <1>2, <1>3, <1>4, Steps

\* "ok" is said only when every language was skipped or has had all its commands
\* succeed, its own or, in an update, those that another language has run for
\* it, and a build's bindings are post-processed: for any lists of languages and
\* commands and however the tasks were scheduled (build.rs, test.rs, update.rs,
\* setup.rs, clean.rs and test_apps.rs in src/cli/pipeline/commands).
THEOREM OkSaysComplete == Spec => []OkIsComplete
<1> DEFINE Inv == IndInv /\ WorkInv /\ BuildInv
<1>1. Init => Inv
  BY InitHolds, WorkInvInit
<1>2. Inv /\ [Next]_vars => Inv'
  BY StepKeeps, WorkInvStep, BuildInvStep DEF IndInv
<1>3. Inv => OkIsComplete
  BY OkFollows DEF IndInv
<1> QED BY <1>1, <1>2, <1>3, PTL DEF Spec
=============================================================================

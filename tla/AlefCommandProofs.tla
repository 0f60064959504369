------------------------- MODULE AlefCommandProofs -------------------------
(***************************************************************************)
(* Proofs about the commands alef runs.  AlefCommand: one of them, for     *)
(* every set of modes and scripts and every size of a pipe.  AlefGoTag:    *)
(* the git commands of `alef go-tag`, for any number of clones, versions,  *)
(* tags, faults and moved releases: types, that a module tag is never      *)
(* moved, that it is at a commit of its release, and what the report of a  *)
(* run is worth.                                                           *)
(***************************************************************************)
EXTENDS AlefCommand, AlefGoTag, TLAPS

-----------------------------------------------------------------------------
(***************************************************************************)
(* One external command.                                                   *)
(***************************************************************************)

\* The number of blocks written is the number received plus those in the
\* pipe, until a reader drops its end or the snippet runner a stream.
Intact(s) == mode \in Piped /\ reader[s] # "closed"
             /\ ~(mode = "snippet" /\ s \in script.garbled /\ reader[s] = "ended")

Conserved == \A s \in Streams : Intact(s) => sent[s] = got[s] + pipe[s]

\* Ends of pipes: who reads them, and why one is closed.
ReaderInv ==
    \A s \in Streams :
        /\ mode \in Piped <=> reader[s] # "inherited"
        /\ reader[s] = "closed" =>
              result = "timed_out" \/ (s \in script.garbled /\ mode \in Streamed)
        /\ reader[s] = "ended" => pipe[s] = 0 /\ ~Held
        /\ phase = "spawn" => reader[s] \in {"inherited", "unread"}
        /\ phase \in {"wait", "check"} /\ mode \in {"captured_timed", "snippet"} =>
              reader[s] = "unread"

\* Processes: how the shell came to its state.
ShellInv ==
    /\ phase = "spawn" => \A p \in Procs : proc[p] = "none"
    /\ proc["shell"] = "none" => proc["job"] = "none"
    /\ phase \in {"wait", "check", "drain"} => proc["shell"] # "none"
    /\ proc["shell"] = "killed" => result = "timed_out"
    /\ proc["shell"] = "broken" => script.garbled # {} \/ result = "timed_out"

\* What a call has seen when it returns.
ResultInv ==
    /\ phase = "returned" <=> result # "none"
    /\ result = "ok" /\ mode \in Piped =>
          \A s \in Streams : reader[s] \in {"ended", "closed"}
    /\ result \in {"ok", "failed"} /\ proc["shell"] # "none" =>
          /\ Ended("shell")
          /\ result = "ok" <=> proc["shell"] = "exited" /\ script.ok

IndInv == CallTypeOK /\ Conserved /\ ReaderInv /\ ShellInv /\ ResultInv

-----------------------------------------------------------------------------
\* What a script's record holds.
LEMMA ScriptFields ==
    ASSUME script \in Scripts
    PROVE  /\ script.garbled \subseteq Streams /\ script.ok \in BOOLEAN
           /\ \A p \in Procs : script.writes[p] \in Seq(Streams)
BY CommandAssumption DEF CommandAssumption, ScriptType

\* The stream of the next write is one of the two.
LEMMA TargetIsAStream ==
    ASSUME CallTypeOK, NEW p \in Procs, HasWrite(p)
    PROVE  Target(p) \in Streams
<1>1. script.writes[p] \in Seq(Streams) /\ done[p] \in Nat
  BY ScriptFields DEF CallTypeOK
<1>2. done[p] + 1 \in 1..Len(script.writes[p])
  BY <1>1 DEF HasWrite
<1> QED BY <1>1, <1>2 DEF Target

\* Before the spawn nothing is written, read or running.
LEMMA InitHolds == CallInit => IndInv
<1> SUFFICES ASSUME CallInit PROVE IndInv
  OBVIOUS
<1> USE CommandAssumption DEF CommandAssumption, CallInit, Emptied, Streams, Procs
<1>1. CallTypeOK
  <2>1. 0 \in 0..Room
    OBVIOUS
  <2>2. pipe \in [Streams -> 0..Room] /\ sent \in [Streams -> Nat] /\ got \in [Streams -> Nat]
    BY <2>1
  <2>3. reader \in [Streams -> Readers] /\ proc \in [Procs -> States] /\ done \in [Procs -> Nat]
    BY DEF Readers, States
  <2> QED BY <2>2, <2>3 DEF CallTypeOK, Results
<1>2. Conserved /\ ReaderInv /\ ShellInv /\ ResultInv
  BY DEF Conserved, Intact, ReaderInv, ShellInv, ResultInv, Held, Running
<1> QED BY <1>1, <1>2 DEF IndInv

-----------------------------------------------------------------------------
(* One lemma per group of actions.                                         *)

\* The processes of the command.
LEMMA ProcessStep == IndInv /\ (Fork \/ \E p \in Procs : Process(p)) => IndInv'
<1> SUFFICES ASSUME IndInv, Fork \/ \E p \in Procs : Process(p) PROVE IndInv'
  OBVIOUS
<1> USE DEF call, procs, pipes
<1>1. CASE Fork
  <2>1. CallTypeOK'
    BY <1>1 DEF Fork, IndInv, CallTypeOK, Procs, States
  <2>2. Running("shell") /\ Held
    BY <1>1 DEF Fork, Held, Procs
  <2>3. Conserved' /\ ReaderInv' /\ ShellInv' /\ ResultInv'
    BY <1>1, <2>2 DEF Fork, IndInv, CallTypeOK, Conserved, Intact, ReaderInv, ShellInv,
         ResultInv, Running, Held, Ended, Procs
  <2> QED BY <2>1, <2>3 DEF IndInv
<1>2. ASSUME NEW p \in Procs, Write(p) PROVE IndInv'
  <2>1. Target(p) \in Streams
    BY <1>2, TargetIsAStream DEF Write, IndInv
  <2>2. CallTypeOK'
    BY <1>2, <2>1, CommandAssumption DEF CommandAssumption, Write, IndInv, CallTypeOK, Procs
  <2>3. Held /\ phase # "spawn"
    BY <1>2 DEF Write, Held, IndInv, ShellInv, Running
  <2>4. Conserved'
    BY <1>2, <2>1 DEF Write, IndInv, CallTypeOK, Conserved, Intact
  <2>5. ReaderInv'
    BY <1>2, <2>1, <2>3 DEF Write, IndInv, CallTypeOK, ReaderInv, Held, Running
  <2>6. ShellInv' /\ ResultInv'
    BY <1>2 DEF Write, IndInv, ShellInv, ResultInv, Running, Ended
  <2> QED BY <2>2, <2>4, <2>5, <2>6 DEF IndInv
<1>3. ASSUME NEW p \in Procs, WriteBroken(p) PROVE IndInv'
  <2>1. Target(p) \in Streams
    BY <1>3, TargetIsAStream DEF WriteBroken, IndInv
  <2>2. CallTypeOK'
    BY <1>3, <2>1 DEF WriteBroken, IndInv, CallTypeOK, Procs, States
  <2>3. Held /\ phase # "spawn" /\ reader[Target(p)] = "closed"
    BY <1>3 DEF WriteBroken, Held, IndInv, ShellInv, Running
  <2>4. Conserved'
    BY <1>3, <2>1, <2>3 DEF WriteBroken, IndInv, CallTypeOK, Conserved, Intact
  <2>5. ReaderInv'
    BY <1>3, <2>3 DEF WriteBroken, IndInv, CallTypeOK, ReaderInv, Held, Running
  <2>6. ShellInv'
    BY <1>3, <2>1, <2>3 DEF WriteBroken, IndInv, CallTypeOK, ReaderInv, ShellInv, Procs, Running
  <2>7. ResultInv'
    BY <1>3 DEF WriteBroken, IndInv, CallTypeOK, ResultInv, ShellInv, Running, Ended, Procs
  <2> QED BY <2>2, <2>4, <2>5, <2>6, <2>7 DEF IndInv
<1>4. ASSUME NEW p \in Procs, Exit(p) PROVE IndInv'
  <2>1. CallTypeOK'
    BY <1>4 DEF Exit, IndInv, CallTypeOK, Procs, States
  <2>2. Held /\ phase # "spawn"
    BY <1>4 DEF Exit, Held, IndInv, ShellInv, Running
  <2>3. Conserved' /\ ReaderInv'
    BY <1>4, <2>2 DEF Exit, IndInv, CallTypeOK, Conserved, Intact, ReaderInv
  <2>4. ShellInv' /\ ResultInv'
    BY <1>4, <2>2 DEF Exit, IndInv, CallTypeOK, ShellInv, ResultInv, Running, Ended, Procs
  <2> QED BY <2>1, <2>3, <2>4 DEF IndInv
<1> QED BY <1>1, <1>2, <1>3, <1>4 DEF Process

\* The readers of the pipes.
LEMMA ReaderStep == IndInv /\ (\E s \in Streams : Reader(s)) => IndInv'
<1> SUFFICES ASSUME IndInv, NEW s \in Streams, Reader(s) PROVE IndInv'
  OBVIOUS
<1> USE DEF call, procs, pipes
<1>1. CASE Read(s)
  <2>1. CallTypeOK'
    BY <1>1, CommandAssumption DEF CommandAssumption, Read, IndInv, CallTypeOK
  <2>2. Conserved' /\ ReaderInv'
    BY <1>1, CommandAssumption DEF CommandAssumption, Read, IndInv, CallTypeOK, Conserved, Intact,
         ReaderInv, Held, Running
  <2>3. ShellInv' /\ ResultInv'
    BY <1>1 DEF Read, IndInv, ShellInv, ResultInv, Ended
  <2> QED BY <2>1, <2>2, <2>3 DEF IndInv
<1>2. CASE PumpFails(s)
  <2>1. CallTypeOK'
    BY <1>2, CommandAssumption DEF CommandAssumption, PumpFails, IndInv, CallTypeOK, Readers
  <2>2. mode \notin Captured /\ mode # "snippet"
    BY <1>2 DEF PumpFails, Streamed, Captured
  <2>3. Conserved' /\ ReaderInv'
    BY <1>2, <2>2 DEF PumpFails, IndInv, CallTypeOK, Conserved, Intact, ReaderInv, Held, Running
  <2>4. ShellInv' /\ ResultInv'
    BY <1>2 DEF PumpFails, IndInv, CallTypeOK, ShellInv, ResultInv, Ended
  <2> QED BY <2>1, <2>3, <2>4 DEF IndInv
<1>3. CASE ReadEnds(s)
  <2>1. CallTypeOK'
    BY <1>3 DEF ReadEnds, IndInv, CallTypeOK, Readers
  <2>2. Conserved' /\ ReaderInv'
    BY <1>3 DEF ReadEnds, IndInv, CallTypeOK, Conserved, Intact, ReaderInv, Held, Running
  <2>3. ShellInv' /\ ResultInv'
    BY <1>3 DEF ReadEnds, IndInv, CallTypeOK, ShellInv, ResultInv, Ended
  <2> QED BY <2>1, <2>2, <2>3 DEF IndInv
<1> QED BY <1>1, <1>2, <1>3 DEF Reader

\* The calling thread.
LEMMA CallerStep == IndInv /\ (Caller \/ Deadline) => IndInv'
<1> SUFFICES ASSUME IndInv, Caller \/ Deadline PROVE IndInv'
  OBVIOUS
<1> USE DEF call, procs, pipes
<1>1. CASE SpawnFails \/ ToolSkipped
  BY <1>1 DEF SpawnFails, ToolSkipped, Return, IndInv, CallTypeOK, Conserved, Intact, ReaderInv,
       ShellInv, ResultInv, Held, Running, Ended, Results, Procs, Piped
<1>2. CASE Spawn
  <2>1. CallTypeOK'
    BY <1>2 DEF Spawn, IndInv, CallTypeOK, Procs, States, Readers
  <2>2. mode \in ReadsAtOnce => mode \in Piped
    BY DEF ReadsAtOnce, Streamed, Piped, AllModes
  <2>3. \A s \in Streams : reader'[s] \in {"inherited", "unread", "reading"}
                            /\ (reader'[s] = "inherited" <=> reader[s] = "inherited")
    BY <1>2, <2>2 DEF Spawn, IndInv, CallTypeOK, ReaderInv
  <2>4. Conserved'
    BY <1>2, <2>3 DEF Spawn, IndInv, CallTypeOK, Conserved, Intact, ReaderInv
  <2>5. ReaderInv'
    <3>1. mode \in {"captured_timed", "snippet"} => mode \notin ReadsAtOnce /\ mode \in Piped
      BY DEF ReadsAtOnce, Streamed, Piped, AllModes
    <3>2. mode \in {"captured_timed", "snippet"} => \A s \in Streams : reader'[s] = "unread"
      BY <1>2, <3>1 DEF Spawn, IndInv, ReaderInv
    <3> QED BY <1>2, <2>3, <3>2 DEF Spawn, IndInv, CallTypeOK, ReaderInv
  <2>6. ShellInv' /\ ResultInv'
    BY <1>2 DEF Spawn, IndInv, CallTypeOK, ShellInv, ResultInv, Procs
  <2> QED BY <2>1, <2>4, <2>5, <2>6 DEF IndInv
<1>3. CASE ShellEnded
  <2>1. CallTypeOK'
    BY <1>3 DEF ShellEnded, IndInv, CallTypeOK, Readers, Streams
  <2>2. \A s \in Streams : reader'[s] \in {reader[s], "reading"}
                            /\ (reader'[s] = "inherited" <=> reader[s] = "inherited")
    BY <1>3 DEF ShellEnded, IndInv, CallTypeOK, ReaderInv, Streams, Piped, AllModes
  <2>3. \A s \in Streams : reader'[s] # reader[s] => reader[s] = "unread"
    BY <1>3 DEF ShellEnded, IndInv, CallTypeOK, ReaderInv, Streams
  <2>4. Conserved'
    BY <1>3, <2>2, <2>3 DEF ShellEnded, IndInv, CallTypeOK, Conserved, Intact
  <2>5. ReaderInv'
    BY <1>3, <2>2 DEF ShellEnded, IndInv, CallTypeOK, ReaderInv, Held, Running
  <2>6. ShellInv' /\ ResultInv'
    BY <1>3 DEF ShellEnded, IndInv, CallTypeOK, ShellInv, ResultInv, Ended
  <2> QED BY <2>1, <2>4, <2>5, <2>6 DEF IndInv
<1>4. CASE StillRunning \/ PollAgain \/ Deadline
  BY <1>4 DEF StillRunning, PollAgain, Deadline, IndInv, CallTypeOK, Conserved, Intact, ReaderInv,
       ShellInv, ResultInv, Held, Running, Ended
<1>5. CASE TimeOut
  <2>1. CallTypeOK'
    BY <1>5, CommandAssumption DEF CommandAssumption, TimeOut, Return, IndInv, CallTypeOK, Procs,
         States, Readers, Results, Closed, Emptied
  <2>2. Conserved'
    BY <1>5 DEF TimeOut, Return, IndInv, CallTypeOK, Conserved, Intact, ReaderInv, Closed
  <2>3. ReaderInv'
    BY <1>5 DEF TimeOut, Return, IndInv, CallTypeOK, ReaderInv, Held, Running, Closed, Emptied, Procs
  <2>4. ShellInv' /\ ResultInv'
    BY <1>5 DEF TimeOut, Return, IndInv, CallTypeOK, ShellInv, ResultInv, Running, Procs
  <2> QED BY <2>1, <2>2, <2>3, <2>4 DEF IndInv
<1>6. CASE ThenStderr
  <2>1. CallTypeOK'
    BY <1>6 DEF ThenStderr, IndInv, CallTypeOK, Readers
  <2>2. Conserved' /\ ReaderInv'
    BY <1>6 DEF ThenStderr, IndInv, CallTypeOK, Conserved, Intact, ReaderInv, Held, Running
  <2>3. ShellInv' /\ ResultInv'
    BY <1>6 DEF ThenStderr, IndInv, CallTypeOK, ShellInv, ResultInv, Ended, Streams
  <2> QED BY <2>1, <2>2, <2>3 DEF IndInv
<1>7. CASE Joined
  <2>1. CallTypeOK'
    BY <1>7 DEF Joined, Return, Verdict, IndInv, CallTypeOK, Results
  <2>2. Conserved' /\ ReaderInv' /\ ShellInv'
    BY <1>7 DEF Joined, Return, Verdict, IndInv, CallTypeOK, Conserved, Intact, ReaderInv, ShellInv,
         ResultInv, Held, Running
  <2>3. ResultInv'
    BY <1>7, ScriptFields DEF Joined, Return, Verdict, IndInv, CallTypeOK, ReaderInv, ResultInv, Ended
  <2> QED BY <2>1, <2>2, <2>3 DEF IndInv
<1> QED BY <1>1, <1>2, <1>3, <1>4, <1>5, <1>6, <1>7 DEF Caller

\* A stutter changes nothing the invariant reads.
LEMMA StutterStep == IndInv /\ UNCHANGED callVars => IndInv'
BY DEF IndInv, callVars, call, procs, pipes, CallTypeOK, Conserved, Intact, ReaderInv, ShellInv, ResultInv,
       Held, Running, Ended

-----------------------------------------------------------------------------
\* No block is lost before a reader goes, no reader goes but for a reason, and
\* the shell ends only in the ways the result tells (helpers.rs:110-290).
THEOREM CommandInvariance == CallSpec => []IndInv
<1>1. IndInv /\ [CallNext]_callVars => IndInv'
  BY ProcessStep, ReaderStep, CallerStep, StutterStep DEF CallNext
<1> QED BY InitHolds, <1>1, PTL DEF CallSpec

\* Every variable of a call keeps its kind.
THEOREM CommandTypeCorrect == CallSpec => []CallTypeOK
<1>1. IndInv => CallTypeOK
  BY DEF IndInv
<1> QED BY CommandInvariance, <1>1, PTL

\* A call that succeeds has received all output of the command and of the job
\* it left behind (helpers.rs:271-280).
THEOREM OkIsAlwaysComplete == CallSpec => []OkIsComplete
<1>1. IndInv => OkIsComplete
  <2> SUFFICES ASSUME IndInv, result = "ok", mode \in Piped, mode \in Captured \/ ~Garbled
               PROVE  /\ \A s \in Streams : got[s] = sent[s] /\ pipe[s] = 0
                      /\ ~Held
    BY DEF OkIsComplete
  <2>1. \A s \in Streams : reader[s] = "ended"
    BY DEF IndInv, ReaderInv, ResultInv, Garbled, Streamed, Captured
  <2>2. \A s \in Streams : pipe[s] = 0 /\ ~Held
    BY <2>1 DEF IndInv, ReaderInv
  <2>3. ~Held
    BY <2>2 DEF Streams
  <2>4. \A s \in Streams : Intact(s)
    BY <2>1 DEF Intact, Garbled, Captured
  <2> QED BY <2>2, <2>3, <2>4 DEF IndInv, Conserved, CallTypeOK
<1> QED BY CommandInvariance, <1>1, PTL

\* alef does not turn a command's verdict into another (helpers.rs:110-130).
THEOREM VerdictStaysTheCommands == CallSpec => []VerdictIsTheCommands
<1>1. IndInv => VerdictIsTheCommands
  BY DEF IndInv, VerdictIsTheCommands, ShellInv, ResultInv, Garbled, Ended
<1> QED BY CommandInvariance, <1>1, PTL

-----------------------------------------------------------------------------
(***************************************************************************)
(* The module tags of a release.                                           *)
(***************************************************************************)

Busy(c) == pc[c] # "idle"

-----------------------------------------------------------------------------
(* Types.                                                                  *)

LEMMA TagIsGoTag ==
    ASSUME TypeOK, NEW c \in Clones, Busy(c)
    PROVE  /\ version[c] \in Versions /\ at[c] \in DOMAIN TagsOf[version[c]]
           /\ Tag(c) \in GoTags
           /\ at[c] \in 1..Len(TagsOf[version[c]]) /\ Len(TagsOf[version[c]]) \in Nat
BY GoTagAssumption DEF TypeOK, Busy, Tag

LEMMA InitTyped == Init => TypeOK
BY GoTagAssumption DEF Init, TypeOK, Points

LEMMA CreatedTyped ==
    ASSUME TypeOK, NEW c \in Clones, Busy(c), Created(c)
    PROVE  /\ pc' \in [Clones -> {"idle", "local", "remote", "tag", "push"}]
           /\ version' \in [Clones -> Versions \cup {None}] /\ at' \in [Clones -> Nat]
           /\ \A d \in Clones : pc'[d] # "idle" => /\ version'[d] \in Versions
                                                  /\ at'[d] \in DOMAIN TagsOf[version'[d]]
           /\ had' \in [Clones -> SUBSET GoTags] /\ ok' \in [Clones -> BOOLEAN]
<1>1. /\ at[c] \in 1..Len(TagsOf[version[c]]) /\ Len(TagsOf[version[c]]) \in Nat
      /\ TagsOf[version[c]] \in Seq(GoTags)
  BY TagIsGoTag, GoTagAssumption
<1>2. ~Last(c) => at[c] + 1 \in DOMAIN TagsOf[version[c]]
  BY <1>1 DEF Last
<1>3. pc' \in [Clones -> {"idle", "local", "remote", "tag", "push"}] /\ ok' \in [Clones -> BOOLEAN]
  BY DEF Created, TypeOK, Last
<1>4. at' \in [Clones -> Nat]
  BY <1>1 DEF Created, TypeOK
<1>5. ASSUME NEW d \in Clones, pc'[d] # "idle"
      PROVE  version'[d] \in Versions /\ at'[d] \in DOMAIN TagsOf[version'[d]]
  <2>1. CASE d = c
    BY <2>1, <1>2, <1>5, TagIsGoTag DEF Created, TypeOK
  <2>2. CASE d # c
    BY <2>2, <1>5 DEF Created, TypeOK
  <2> QED BY <2>1, <2>2
<1> QED BY <1>3, <1>4, <1>5 DEF Created, TypeOK

LEMMA ToTyped ==
    ASSUME TypeOK, NEW c \in Clones, Busy(c), NEW p \in {"remote", "tag", "push"}, To(c, p)
    PROVE  /\ pc' \in [Clones -> {"idle", "local", "remote", "tag", "push"}]
           /\ version' \in [Clones -> Versions \cup {None}] /\ at' \in [Clones -> Nat]
           /\ \A d \in Clones : pc'[d] # "idle" => /\ version'[d] \in Versions
                                                  /\ at'[d] \in DOMAIN TagsOf[version'[d]]
           /\ had' \in [Clones -> SUBSET GoTags] /\ ok' \in [Clones -> BOOLEAN]
BY DEF To, TypeOK, Busy

LEMMA FailsTyped ==
    ASSUME TypeOK, NEW c \in Clones, Fails(c)
    PROVE  /\ pc' \in [Clones -> {"idle", "local", "remote", "tag", "push"}]
           /\ version' \in [Clones -> Versions \cup {None}] /\ at' \in [Clones -> Nat]
           /\ \A d \in Clones : pc'[d] # "idle" => /\ version'[d] \in Versions
                                                  /\ at'[d] \in DOMAIN TagsOf[version'[d]]
           /\ had' \in [Clones -> SUBSET GoTags] /\ ok' \in [Clones -> BOOLEAN]
BY DEF Fails, TypeOK

LEMMA SetLocal ==
    ASSUME TypeOK, NEW c \in Clones, NEW t \in GoTags, NEW p \in Points,
           local' = [local EXCEPT ![c][t] = p]
    PROVE  /\ local' \in [Clones -> [GoTags -> Points]]
           /\ \A d \in Clones, u \in GoTags :
                 local'[d][u] = IF d = c /\ u = t THEN p ELSE local[d][u]
<1>1. local \in [Clones -> [GoTags -> Points]] /\ local[c] \in [GoTags -> Points]
  BY DEF TypeOK
<1>2. local' = [local EXCEPT ![c] = [local[c] EXCEPT ![t] = p]]
  OBVIOUS
<1> QED BY <1>1, <1>2

LEMMA StepTyped == TypeOK /\ [Next]_vars => TypeOK'
<1> SUFFICES ASSUME TypeOK, [Next]_vars PROVE TypeOK'
  OBVIOUS
<1>1. ASSUME NEW v \in Versions, NEW k \in Commits, SetRelease(v, k) PROVE TypeOK'
  BY <1>1, GoTagAssumption DEF SetRelease, TypeOK, Points
<1>2. ASSUME NEW c \in Clones, Fetch(c) PROVE TypeOK'
  BY <1>2 DEF Fetch, Merge, hub, TypeOK, Points
<1>3. ASSUME NEW c \in Clones, NEW t \in GoTags, DeleteLocal(c, t) PROVE TypeOK'
  BY <1>3, GoTagAssumption DEF DeleteLocal, hub, TypeOK, Points
<1>4. ASSUME NEW c \in Clones, NEW v \in Versions, Start(c, v) PROVE TypeOK'
  <2>1. TagsOf[v] \in Seq(GoTags) /\ TagsOf[v] # <<>>
    BY <1>4, GoTagAssumption DEF Start
  <2>2. 1 \in DOMAIN TagsOf[v]
    BY <2>1
  <2> QED BY <1>4, <2>2 DEF Start, Present, hub, TypeOK
<1>5. ASSUME NEW c \in Clones, CheckLocal(c) PROVE TypeOK'
  BY <1>5, CreatedTyped, ToTyped DEF CheckLocal, Busy, hub, TypeOK
<1>6. ASSUME NEW c \in Clones, CheckRemote(c) PROVE TypeOK'
  BY <1>6, CreatedTyped, ToTyped, GoTagAssumption DEF CheckRemote, Fault, Busy, hub, TypeOK
<1>7. ASSUME NEW c \in Clones, MakeTag(c) PROVE TypeOK'
  <2>1. Busy(c) /\ Tag(c) \in GoTags /\ source[c][version[c]] \in Points
    BY <1>7, TagIsGoTag DEF MakeTag, Busy, TypeOK
  <2>2. local' \in [Clones -> [GoTags -> Points]]
    <3>1. local' = local \/ local' = [local EXCEPT ![c][Tag(c)] = source[c][version[c]]]
      BY <1>7 DEF MakeTag
    <3>2. CASE local' = local
      BY <3>2 DEF TypeOK
    <3>3. CASE local' = [local EXCEPT ![c][Tag(c)] = source[c][version[c]]]
      BY <3>3, <2>1, SetLocal
    <3> QED BY <3>1, <3>2, <3>3
  <2> QED BY <1>7, <2>1, <2>2, ToTyped, FailsTyped DEF MakeTag, hub, TypeOK
<1>8. ASSUME NEW c \in Clones, Push(c) \/ PushFails(c) PROVE TypeOK'
  <2>1. Busy(c) /\ Tag(c) \in GoTags
    BY <1>8, TagIsGoTag DEF Push, PushFails, Busy
  <2>2. remote' \in [GoTags -> Points]
    BY <1>8, <2>1 DEF Push, PushFails, TypeOK
  <2>3. CASE Push(c)
    BY <2>3, <2>1, <2>2, CreatedTyped, FailsTyped DEF Push, TypeOK
  <2>4. CASE PushFails(c)
    BY <2>4, <2>1, <2>2, FailsTyped, GoTagAssumption DEF PushFails, Fault, TypeOK
  <2> QED BY <1>8, <2>3, <2>4
<1>9. ASSUME NEW c \in Clones, Kill(c) PROVE TypeOK'
  BY <1>9, FailsTyped, GoTagAssumption DEF Kill, Fault, hub, TypeOK
<1>10. CASE UNCHANGED vars
  BY <1>10 DEF vars, hub, TypeOK
<1> QED
  BY <1>1, <1>2, <1>3, <1>4, <1>5, <1>6, <1>7, <1>8, <1>9, <1>10 DEF Next, Run

\* Every variable keeps its type (AlefGoTag!TypeOK).
THEOREM TypeCorrect == Spec => []TypeOK
BY InitTyped, StepTyped, PTL DEF Spec

-----------------------------------------------------------------------------
(* Tags stay where they are.                                               *)

LEMMA StepStays ==
    TypeOK /\ [Next]_vars => \A t \in GoTags : remote[t] # None => remote'[t] = remote[t]
<1> SUFFICES ASSUME TypeOK, [Next]_vars, NEW t \in GoTags, remote[t] # None
             PROVE  remote'[t] = remote[t]
  OBVIOUS
<1>1. ASSUME NEW c \in Clones, Push(c) \/ PushFails(c) PROVE remote'[t] = remote[t]
  BY <1>1 DEF Push, PushFails, TypeOK
<1>2. ASSUME UNCHANGED remote PROVE remote'[t] = remote[t]
  BY <1>2
<1> QED
  BY <1>1, <1>2 DEF Next, Run, vars, hub, SetRelease, Fetch, DeleteLocal, Start, CheckLocal,
                    CheckRemote, MakeTag, Kill

\* A module tag on the remote is never moved, whoever else pushes
\* (AlefGoTag!TagsStay).
THEOREM TagsNeverMove == Spec => TagsStay
<1>1. TypeOK /\ [Next]_vars => [\A t \in GoTags : remote[t] # None => remote'[t] = remote[t]]_vars
  BY StepStays
<1> QED BY <1>1, InitTyped, StepTyped, PTL DEF Spec, TagsStay

-----------------------------------------------------------------------------
(* Where the tags are.  A clone takes the commit of a tag it makes from    *)
(* the release tags it has, and those from the remote, some time ago: so   *)
(* the clones and their tags are part of the invariant.                    *)

Traced ==
    /\ \A v \in Versions : release[v] \in been[v] \cup {None}
    /\ \A c \in Clones, v \in Versions : source[c][v] \in been[v] \cup {None}
    /\ \A v \in Versions : \A i \in DOMAIN TagsOf[v] :
          /\ remote[TagsOf[v][i]] \in been[v] \cup {None}
          /\ \A c \in Clones : local[c][TagsOf[v][i]] \in been[v] \cup {None}

LEMMA InitTraced == Init => Traced
BY GoTagAssumption DEF Init, Traced

LEMMA TagsAreGoTags ==
    ASSUME NEW v \in Versions, NEW i \in DOMAIN TagsOf[v]
    PROVE  TagsOf[v][i] \in GoTags
BY GoTagAssumption

LEMMA StepTraced == TypeOK /\ Traced /\ [Next]_vars => Traced'
<1> SUFFICES ASSUME TypeOK, Traced, [Next]_vars PROVE Traced'
  OBVIOUS
<1>1. ASSUME NEW v \in Versions, NEW k \in Commits, SetRelease(v, k) PROVE Traced'
  BY <1>1 DEF SetRelease, Traced, TypeOK
<1>2. ASSUME NEW c \in Clones, Fetch(c) PROVE Traced'
  BY <1>2, TagsAreGoTags DEF Fetch, Merge, hub, Traced, TypeOK
<1>3. ASSUME NEW c \in Clones, NEW t \in GoTags, DeleteLocal(c, t) PROVE Traced'
  BY <1>3, TagsAreGoTags DEF DeleteLocal, hub, Traced, TypeOK
<1>4. ASSUME NEW c \in Clones, MakeTag(c) PROVE Traced'
  <2>1. version[c] \in Versions /\ at[c] \in DOMAIN TagsOf[version[c]] /\ Tag(c) \in GoTags
    BY <1>4, TagIsGoTag DEF MakeTag, Busy
  <2>2. UNCHANGED <<release, remote, source, been>>
    BY <1>4 DEF MakeTag, hub
  <2>3. ASSUME NEW v \in Versions, NEW i \in DOMAIN TagsOf[v], NEW d \in Clones
        PROVE  local'[d][TagsOf[v][i]] \in been[v] \cup {None}
    <3>1. TagsOf[v][i] = Tag(c) => v = version[c]
      BY <2>1, GoTagAssumption DEF Tag
    <3>2. TagsOf[v][i] \in GoTags /\ local[d][TagsOf[v][i]] \in been[v] \cup {None}
      BY TagsAreGoTags DEF Traced
    <3>3. source[c][version[c]] \in been[version[c]] \cup {None}
      BY <2>1 DEF Traced
    <3>4. CASE local' = local
      BY <3>2, <3>4
    <3>5. CASE local' = [local EXCEPT ![c][Tag(c)] = source[c][version[c]]]
      <4>1. source[c][version[c]] \in Points
        BY <2>1 DEF TypeOK
      <4>2. local'[d][TagsOf[v][i]] = IF d = c /\ TagsOf[v][i] = Tag(c)
                                      THEN source[c][version[c]] ELSE local[d][TagsOf[v][i]]
        BY <3>2, <3>5, <2>1, <4>1, SetLocal
      <4> QED BY <4>2, <3>1, <3>2, <3>3
    <3> QED BY <3>4, <3>5, <1>4 DEF MakeTag
  <2> QED BY <2>2, <2>3 DEF Traced
<1>5. ASSUME NEW c \in Clones, Push(c) \/ PushFails(c) PROVE Traced'
  <2>1. version[c] \in Versions /\ at[c] \in DOMAIN TagsOf[version[c]] /\ Tag(c) \in GoTags
    BY <1>5, TagIsGoTag DEF Push, PushFails, Busy
  <2>2. UNCHANGED <<release, local, source, been>>
    BY <1>5 DEF Push, PushFails
  <2>3. ASSUME NEW v \in Versions, NEW i \in DOMAIN TagsOf[v]
        PROVE  remote'[TagsOf[v][i]] \in been[v] \cup {None}
    <3>1. TagsOf[v][i] = Tag(c) => v = version[c]
      BY <2>1, GoTagAssumption DEF Tag
    <3>2. TagsOf[v][i] \in GoTags /\ remote[TagsOf[v][i]] \in been[v] \cup {None}
      BY TagsAreGoTags DEF Traced
    <3>3. local[c][Tag(c)] \in been[version[c]] \cup {None}
      BY <2>1 DEF Traced, Tag
    <3>4. remote' = remote \/ remote' = [remote EXCEPT ![Tag(c)] = local[c][Tag(c)]]
      BY <1>5 DEF Push, PushFails
    <3> QED BY <3>1, <3>2, <3>3, <3>4, <2>1 DEF TypeOK
  <2> QED BY <2>2, <2>3 DEF Traced
<1>6. ASSUME UNCHANGED <<hub, source, local, been>> PROVE Traced'
  BY <1>6 DEF hub, Traced
<1> QED
  BY <1>1, <1>2, <1>3, <1>4, <1>5, <1>6
     DEF Next, Run, vars, Start, CheckLocal, CheckRemote, Kill

\* A module tag of a version is at a commit its release tag was at
\* (AlefGoTag!TagsOfRelease).
THEOREM TagsAreOfTheirRelease == Spec => []TagsOfRelease
<1>1. Traced => TagsOfRelease
  BY DEF Traced, TagsOfRelease
<1> QED BY <1>1, InitTyped, InitTraced, StepTyped, StepTraced, PTL DEF Spec

-----------------------------------------------------------------------------
(* What a report is worth.  Of the tags a busy clone has, it had each      *)
(* before, or has it from the remote, or is about to push it; so a tag     *)
(* that the run finds in its clone is one of the first two.                *)

Accounted(c, t) == t \in had[c] \/ Listed(t)

Reporting(c) ==
    /\ Busy(c) => /\ ~ok[c]
                  /\ \A i \in DOMAIN TagsOf[version[c]] : i < at[c] => Accounted(c, TagsOf[version[c]][i])
                  /\ \A t \in GoTags : local[c][t] # None =>
                        \/ t \in had[c] \/ remote[t] # None
                        \/ pc[c] = "push" /\ t = Tag(c)
    /\ ok[c] => version[c] \in Versions /\ \A t \in Reported(c) : Accounted(c, t)

Reports == \A c \in Clones : Reporting(c)

LEMMA InitReporting == Init => Reports
BY DEF Init, Reports, Reporting, Busy

LEMMA ListedStays ==
    ASSUME TypeOK, [Next]_vars, NEW t \in GoTags, Listed(t)
    PROVE  Listed(t)'
<1>1. PICK u \in Longer[t] \cup {t} : remote[u] # None
  BY DEF Listed
<1>2. u \in GoTags
  BY <1>1, GoTagAssumption
<1>3. remote'[u] # None
  BY <1>1, <1>2, StepStays
<1> QED BY <1>1, <1>3 DEF Listed

\* A clone whose run does not move: only the remote and its own tags may.
LEMMA StillReporting ==
    ASSUME TypeOK, [Next]_vars, NEW c \in Clones, Reporting(c),
           pc'[c] = pc[c], version'[c] = version[c], at'[c] = at[c],
           had'[c] = had[c], ok'[c] = ok[c],
           \A t \in GoTags : local'[c][t] # None => local[c][t] # None \/ remote[t] # None
    PROVE  Reporting(c)'
<1>1. \A t \in GoTags : /\ Accounted(c, t) => Accounted(c, t)'
                        /\ remote[t] # None => remote'[t] # None
  BY ListedStays, StepStays DEF Accounted
<1>2. ASSUME Busy(c)' PROVE /\ Busy(c) /\ ~ok'[c] /\ Tag(c)' = Tag(c)
                            /\ version[c] \in Versions
  BY <1>2 DEF Busy, Reporting, Tag, TypeOK
<1>3. ASSUME Busy(c)', NEW i \in DOMAIN TagsOf[version[c]], i < at[c]
      PROVE  Accounted(c, TagsOf[version[c]][i])'
  BY <1>1, <1>2, <1>3, TagsAreGoTags DEF Reporting
<1>4. ASSUME Busy(c)', NEW t \in GoTags, local'[c][t] # None
      PROVE  \/ t \in had'[c] \/ remote'[t] # None
             \/ pc'[c] = "push" /\ t = Tag(c)'
  BY <1>1, <1>2, <1>4 DEF Reporting
<1>5. ASSUME ok'[c] PROVE version'[c] \in Versions /\ \A t \in Reported(c)' : Accounted(c, t)'
  <2>1. version[c] \in Versions /\ Reported(c)' = Reported(c)
    BY <1>5 DEF Reporting, Reported
  <2>2. Reported(c) \subseteq GoTags
    BY <2>1, TagsAreGoTags DEF Reported
  <2> QED BY <2>1, <2>2, <1>1, <1>5 DEF Reporting
<1> QED BY <1>2, <1>3, <1>4, <1>5 DEF Reporting

LEMMA StepReporting ==
    TypeOK /\ Reports /\ [Next]_vars => Reports'
<1> SUFFICES ASSUME TypeOK, [Next]_vars, \A c \in Clones : Reporting(c), NEW c \in Clones
             PROVE  Reporting(c)'
  BY DEF Reports
<1> DEFINE Rests == /\ pc'[c] = pc[c] /\ version'[c] = version[c] /\ at'[c] = at[c]
                    /\ had'[c] = had[c] /\ ok'[c] = ok[c]
           Kept  == \A t \in GoTags : local'[c][t] # None => local[c][t] # None \/ remote[t] # None
<1>1. ASSUME Rests, Kept PROVE Reporting(c)'
  BY <1>1, StillReporting
<1>2. ASSUME NEW v \in Versions, NEW k \in Commits, SetRelease(v, k) PROVE Reporting(c)'
  BY <1>1, <1>2 DEF SetRelease
<1>3. ASSUME NEW d \in Clones, Fetch(d) PROVE Reporting(c)'
  <2>1. Rests
    BY <1>3 DEF Fetch
  <2>2. Kept
    BY <1>3 DEF Fetch, Merge, TypeOK
  <2> QED BY <1>1, <2>1, <2>2
<1>4. ASSUME NEW d \in Clones, NEW u \in GoTags, DeleteLocal(d, u) PROVE Reporting(c)'
  <2>1. Rests
    BY <1>4 DEF DeleteLocal
  <2>2. Kept
    BY <1>4, SetLocal, GoTagAssumption DEF DeleteLocal, Points
  <2> QED BY <1>1, <2>1, <2>2
<1>5. ASSUME NEW d \in Clones, NEW v \in Versions, Start(d, v) PROVE Reporting(c)'
  <2>1. CASE d = c
    <3>1. /\ ~ok'[c] /\ at'[c] = 1 /\ version'[c] = v /\ local' = local
          /\ had'[c] = {t \in GoTags : local[c][t] # None}
      BY <1>5, <2>1 DEF Start, TypeOK, Present
    <3>2. \A i \in DOMAIN TagsOf[v] : ~ (i < 1)
      BY GoTagAssumption
    <3> QED BY <3>1, <3>2 DEF Reporting, Busy
  <2>2. CASE d # c
    BY <1>1, <1>5, <2>2 DEF Start, TypeOK
  <2> QED BY <2>1, <2>2
<1>6. ASSUME NEW d \in Clones, Run(d) \/ PushFails(d) \/ Kill(d), d # c PROVE Reporting(c)'
  BY <1>1, <1>6 DEF Run, CheckLocal, CheckRemote, MakeTag, Push, PushFails, Kill, Created, To, Fails,
                    TypeOK
<1>7. ASSUME Busy(c), Fails(c) PROVE Reporting(c)'
  <2>1. ~ok'[c] /\ pc'[c] = "idle"
    BY <1>7 DEF Fails, TypeOK, Reporting
  <2> QED BY <2>1 DEF Reporting, Busy
<1>8. \A t \in GoTags : /\ Accounted(c, t) /\ had'[c] = had[c] => Accounted(c, t)'
                        /\ remote[t] # None => remote'[t] # None
  BY ListedStays, StepStays DEF Accounted
<1>9. ASSUME Busy(c), pc[c] # "push", NEW p \in {"remote", "tag", "push"}, To(c, p),
             \A t \in GoTags : local'[c][t] # None => local[c][t] # None \/ (p = "push" /\ t = Tag(c))
      PROVE  Reporting(c)'
  <2>1. /\ pc'[c] = p /\ version'[c] = version[c] /\ at'[c] = at[c] /\ had'[c] = had[c]
        /\ ok'[c] = ok[c] /\ Tag(c)' = Tag(c) /\ version[c] \in Versions
    BY <1>9, TagIsGoTag DEF To, TypeOK, Tag
  <2>2. ASSUME NEW i \in DOMAIN TagsOf[version[c]], i < at[c] PROVE Accounted(c, TagsOf[version[c]][i])'
    BY <1>8, <1>9, <2>1, <2>2, TagsAreGoTags DEF Reporting
  <2>3. ASSUME NEW t \in GoTags, local'[c][t] # None
        PROVE  t \in had'[c] \/ remote'[t] # None \/ (pc'[c] = "push" /\ t = Tag(c)')
    BY <1>8, <1>9, <2>1, <2>3 DEF Reporting
  <2> QED BY <1>9, <2>1, <2>2, <2>3 DEF Reporting
<1>10. ASSUME Busy(c), Created(c), local' = local,
              NEW u \in GoTags, u = Tag(c), Accounted(c, u)', pc[c] = "push" => remote'[u] # None
       PROVE  Reporting(c)'
  <2>1. /\ version[c] \in Versions /\ at[c] \in 1..Len(TagsOf[version[c]])
        /\ Len(TagsOf[version[c]]) \in Nat /\ TagsOf[version[c]] \in Seq(GoTags)
    BY <1>10, TagIsGoTag, GoTagAssumption
  <2>2. /\ version'[c] = version[c] /\ had'[c] = had[c]
        /\ IF Last(c) THEN pc'[c] = "idle" /\ ok'[c] = TRUE
                      ELSE pc'[c] = "local" /\ ok'[c] = FALSE /\ at'[c] = at[c] + 1
    BY <1>10, <2>1 DEF Created, TypeOK, Last
  <2>3. ASSUME NEW i \in DOMAIN TagsOf[version[c]], i < at[c] + 1
        PROVE  Accounted(c, TagsOf[version[c]][i])'
    <3>1. CASE i = at[c]
      <4>1. TagsOf[version'[c]][i] = u
        BY <3>1, <2>2, <1>10 DEF Tag
      <4> QED BY <4>1, <1>10 DEF Accounted, Listed
    <3>2. CASE i < at[c]
      BY <3>2, <1>8, <1>10, <2>1, <2>2, TagsAreGoTags DEF Reporting
    <3> QED BY <2>1, <2>3, <3>1, <3>2
  <2>4. ASSUME NEW t \in GoTags, local'[c][t] # None PROVE t \in had'[c] \/ remote'[t] # None
    BY <1>8, <1>10, <2>2, <2>4 DEF Reporting
  <2>5. CASE Last(c)
    <3>1. \A i \in DOMAIN TagsOf[version[c]] : Accounted(c, TagsOf[version[c]][i])'
      BY <2>1, <2>3, <2>5 DEF Last
    <3>2. \A t \in Reported(c)' : Accounted(c, t)'
      BY <3>1, <2>2, <2>5 DEF Reported
    <3> QED BY <3>2, <2>1, <2>2, <2>5 DEF Reporting, Busy
  <2>6. CASE ~Last(c)
    BY <2>1, <2>2, <2>3, <2>4, <2>6 DEF Reporting, Busy
  <2> QED BY <2>5, <2>6
<1>11. PICK u : u = Tag(c)
  OBVIOUS
<1>12. CASE CheckLocal(c)
  <2>1. /\ Busy(c) /\ pc[c] # "push" /\ local' = local /\ u \in GoTags
        /\ IF local[c][u] # None THEN Created(c) ELSE To(c, "remote")
    BY <1>12, <1>11, TagIsGoTag DEF CheckLocal, Busy
  <2>2. ASSUME local[c][u] # None, Created(c) PROVE Accounted(c, u)'
    <3>1. Accounted(c, u)
      BY <2>1, <2>2 DEF Reporting, Accounted, Listed
    <3> QED BY <3>1, <2>1, <2>2, <1>8 DEF Created
  <2> QED BY <2>1, <2>2, <1>9, <1>10, <1>11
<1>13. CASE CheckRemote(c)
  <2>1. /\ Busy(c) /\ pc[c] # "push" /\ local' = local /\ u \in GoTags
        /\ (Listed(u) /\ Created(c)) \/ To(c, "tag")
    BY <1>13, <1>11, TagIsGoTag DEF CheckRemote, Busy
  <2>2. ASSUME Listed(u) PROVE Accounted(c, u)'
    BY <2>1, <2>2, ListedStays DEF Accounted
  <2> QED BY <2>1, <2>2, <1>9, <1>10, <1>11
<1>14. CASE MakeTag(c)
  <2>1. Busy(c) /\ pc[c] # "push" /\ Tag(c) \in GoTags /\ version[c] \in Versions
    BY <1>14, TagIsGoTag DEF MakeTag, Busy
  <2>2. CASE Fails(c)
    BY <2>1, <2>2, <1>7
  <2>3. CASE local' = [local EXCEPT ![c][Tag(c)] = source[c][version[c]]] /\ To(c, "push")
    <3>1. source[c][version[c]] \in Points
      BY <2>1 DEF TypeOK
    <3>2. \A t \in GoTags : local'[c][t] # None => local[c][t] # None \/ t = Tag(c)
      BY <2>1, <2>3, <3>1, SetLocal
    <3> QED BY <2>1, <2>3, <3>2, <1>9
  <2> QED BY <1>14, <2>2, <2>3 DEF MakeTag
<1>15. CASE Push(c)
  <2>1. Busy(c) /\ local' = local /\ u \in GoTags
    BY <1>15, <1>11, TagIsGoTag DEF Push, Busy
  <2>2. CASE Fails(c)
    BY <2>1, <2>2, <1>7
  <2>3. CASE Created(c) /\ remote'[u] # None
    <3>1. Accounted(c, u)'
      BY <2>3 DEF Accounted, Listed
    <3> QED BY <3>1, <2>1, <2>3, <1>10, <1>11
  <2> QED BY <1>15, <1>11, <2>1, <2>2, <2>3 DEF Push, TypeOK
<1>16. CASE PushFails(c) \/ Kill(c)
  BY <1>16, <1>7 DEF PushFails, Kill, Busy
<1>17. CASE UNCHANGED vars
  BY <1>1, <1>17 DEF vars
<1> QED
  BY <1>2, <1>3, <1>4, <1>5, <1>6, <1>12, <1>13, <1>14, <1>15, <1>16, <1>17 DEF Next, Run

\* What a run that ends well calls created and pushed is on the remote, or
\* the clone had it, or the remote has a longer one
\* (AlefGoTag!ReportedOrSkipped).
THEOREM ReportsAreAccounted == Spec => []ReportedOrSkipped
<1>1. Reports => ReportedOrSkipped
  BY DEF Reports, Reporting, ReportedOrSkipped, Reported, Accounted
<1> QED BY <1>1, InitTyped, InitReporting, StepTyped, StepReporting, PTL DEF Spec
=============================================================================

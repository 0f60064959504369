---------------------------- MODULE AlefCommand ----------------------------
(***************************************************************************)
(* One external command run by alef: the calling thread, the reader        *)
(* threads it may start, the shell (with what it runs in the foreground),  *)
(* a job the shell leaves in the background, and the two pipes between     *)
(* them.  The call is made in one of the ways the code has:                *)
(*   inherit           run_command_streamed_with_env without a label       *)
(*   inherit_timed     run_run_command of a post-build step                *)
(*   streamed          run_command_streamed_with_env with a label          *)
(*   streamed_timed    run_command_streamed_full with a timeout            *)
(*   captured          run_command_captured                                *)
(*   captured_timed    run_command_captured_with_timeout                   *)
(*   snippet           snippets::validators::run_command                   *)
(***************************************************************************)
EXTENDS Naturals, Sequences

CONSTANTS
    Modes,      \* the ways of calling that are considered
    Scripts,    \* what a command may do
    Room        \* blocks a pipe holds (the kernel's, 64 KiB on Linux)

Streams == {"out", "err"}
Procs   == {"shell", "job"}

AllModes == {"inherit", "inherit_timed", "streamed", "streamed_timed",
             "captured", "captured_timed", "snippet"}

Piped    == AllModes \ {"inherit", "inherit_timed"}
Timed    == {"inherit_timed", "streamed_timed", "captured_timed", "snippet"}
Streamed == {"streamed", "streamed_timed"}
Captured == {"captured", "captured_timed"}

\* The modes whose pipes are read while the command runs.
ReadsAtOnce == Streamed \cup {"captured"}

\* writes[p]: the streams p writes one block to, in order; ends: the processes
\* that end on their own; forks: the shell leaves a job behind; ok: its exit
\* status; garbled: the streams that carry bytes that are not UTF-8.
ScriptType == [writes : [Procs -> Seq(Streams)], ends : SUBSET Procs, forks : BOOLEAN,
               ok : BOOLEAN, garbled : SUBSET Streams]

ASSUME CommandAssumption ==
    /\ Modes \subseteq AllModes
    /\ \A s \in Scripts : s \in ScriptType
    /\ Room \in Nat \ {0}

VARIABLES
    mode, script,   \* the call: never change
    phase,          \* where the calling thread is
    result,         \* what the call returned
    late,           \* the deadline has passed
    proc,           \* state of each process
    done,           \* writes each process has behind it
    pipe,           \* blocks in each pipe
    reader,         \* the reading end of each pipe
    sent, got       \* blocks written to, and received from, each stream

call  == <<mode, script>>
procs == <<proc, done>>
pipes == <<pipe, reader, sent, got>>
callVars == <<call, phase, result, late, procs, pipes>>

States  == {"none", "running", "exited", "broken", "killed"}
Readers == {"inherited", "unread", "reading", "ended", "closed"}
Results == {"ok", "failed", "timed_out"}

CallTypeOK ==
    /\ mode \in Modes /\ script \in Scripts
    /\ phase \in {"spawn", "wait", "check", "drain", "returned"}
    /\ result \in Results \cup {"none"}
    /\ late \in BOOLEAN
    /\ proc \in [Procs -> States]
    /\ done \in [Procs -> Nat]
    /\ pipe \in [Streams -> 0..Room]
    /\ reader \in [Streams -> Readers]
    /\ sent \in [Streams -> Nat] /\ got \in [Streams -> Nat]

-----------------------------------------------------------------------------
Running(p) == proc[p] = "running"
Ended(p)   == proc[p] \in {"exited", "broken", "killed"}

\* Every process of the command holds the writing ends of both pipes.
Held == \E p \in Procs : Running(p)

HasWrite(p) == done[p] < Len(script.writes[p])
Target(p)   == script.writes[p][done[p] + 1]

\* p waits for room in a pipe.
Blocked(p) ==
    /\ Running(p) /\ HasWrite(p)
    /\ reader[Target(p)] \in {"unread", "reading", "ended"} /\ pipe[Target(p)] = Room

Closed == [s \in Streams |-> IF reader[s] = "inherited" THEN "inherited" ELSE "closed"]
Emptied == [s \in Streams |-> 0]

Return(r) == phase' = "returned" /\ result' = r

CallInit ==
    /\ mode \in Modes /\ script \in Scripts
    /\ phase = "spawn" /\ result = "none" /\ late = FALSE
    /\ proc = [p \in Procs |-> "none"] /\ done = [p \in Procs |-> 0]
    /\ pipe = Emptied /\ sent = Emptied /\ got = Emptied
    /\ reader = [s \in Streams |-> IF mode \in Piped THEN "unread" ELSE "inherited"]

-----------------------------------------------------------------------------
(* The processes.                                                          *)

Fork ==
    /\ Running("shell") /\ script.forks /\ proc["job"] = "none"
    /\ proc' = [proc EXCEPT !["job"] = "running"]
    /\ UNCHANGED <<call, phase, result, late, done, pipes>>

Write(p) ==
    /\ Running(p) /\ HasWrite(p)
    /\ LET s == Target(p) IN
        /\ reader[s] # "closed"
        /\ IF reader[s] = "inherited"
             THEN UNCHANGED <<pipe, sent>>
             ELSE /\ pipe[s] < Room
                  /\ pipe' = [pipe EXCEPT ![s] = @ + 1]
                  /\ sent' = [sent EXCEPT ![s] = @ + 1]
    /\ done' = [done EXCEPT ![p] = @ + 1]
    /\ UNCHANGED <<call, phase, result, late, proc, reader, got>>

\* A write to a pipe nobody can read any more: SIGPIPE ends the process, or it
\* ignores the signal and the block is lost.
WriteBroken(p) ==
    /\ Running(p) /\ HasWrite(p) /\ reader[Target(p)] = "closed"
    /\ \/ proc' = [proc EXCEPT ![p] = "broken"] /\ UNCHANGED <<done, sent>>
       \/ /\ done' = [done EXCEPT ![p] = @ + 1]
          /\ sent' = [sent EXCEPT ![Target(p)] = @ + 1]
          /\ UNCHANGED proc
    /\ UNCHANGED <<call, phase, result, late, pipe, reader, got>>

Exit(p) ==
    /\ Running(p) /\ ~HasWrite(p) /\ p \in script.ends
    /\ p = "shell" /\ script.forks => proc["job"] # "none"
    /\ proc' = [proc EXCEPT ![p] = "exited"]
    /\ UNCHANGED <<call, phase, result, late, done, pipes>>

Deadline ==
    /\ mode \in Timed /\ phase \in {"wait", "check", "drain"} /\ ~late
    /\ late' = TRUE
    /\ UNCHANGED <<call, phase, result, procs, pipes>>

-----------------------------------------------------------------------------
(* The readers: pump_lines threads, or the calling thread itself.          *)

ReadRunningOnly(s) ==                                 \* a slip (see README, mutants)
    /\ reader[s] = "reading" /\ pipe[s] > 0 /\ Running("shell")
    /\ pipe' = [pipe EXCEPT ![s] = @ - 1]
    /\ got' = [got EXCEPT ![s] = @ + 1]
    /\ UNCHANGED <<call, phase, result, late, procs, reader, sent>>

Read(s) ==
    /\ reader[s] = "reading" /\ pipe[s] > 0
    /\ pipe' = [pipe EXCEPT ![s] = @ - 1]
    /\ got' = [got EXCEPT ![s] = @ + 1]
    /\ UNCHANGED <<call, phase, result, late, procs, reader, sent>>

\* read_line refuses what is not UTF-8: pump_lines returns and drops its end.
PumpFails(s) ==
    /\ mode \in Streamed /\ s \in script.garbled
    /\ reader[s] = "reading" /\ pipe[s] > 0
    /\ reader' = [reader EXCEPT ![s] = "closed"]
    /\ pipe' = [pipe EXCEPT ![s] = 0]
    /\ UNCHANGED <<call, phase, result, late, procs, sent, got>>

\* End of file: no writer is left.  read_to_string discards a whole stream
\* that is not UTF-8; the two captured modes convert lossily.
ReadEnds(s) ==
    /\ reader[s] = "reading" /\ pipe[s] = 0 /\ ~Held
    /\ reader' = [reader EXCEPT ![s] = "ended"]
    /\ got' = IF mode = "snippet" /\ s \in script.garbled THEN [got EXCEPT ![s] = 0] ELSE got
    /\ UNCHANGED <<call, phase, result, late, procs, pipe, sent>>

-----------------------------------------------------------------------------
(* The calling thread.                                                     *)

SpawnFails ==
    /\ phase = "spawn"
    /\ Return("failed")
    /\ UNCHANGED <<call, late, procs, pipes>>

\* A post-build tool that is listed in ALEF_SKIP_COMMANDS or not installed is
\* skipped.
ToolSkipped ==
    /\ phase = "spawn" /\ mode = "inherit_timed"
    /\ Return("ok")
    /\ UNCHANGED <<call, late, procs, pipes>>

Spawn ==
    /\ phase = "spawn"
    /\ proc' = [proc EXCEPT !["shell"] = "running"]
    /\ reader' = IF mode \in ReadsAtOnce THEN [s \in Streams |-> "reading"] ELSE reader
    /\ phase' = IF mode = "captured" THEN "drain" ELSE "wait"
    /\ UNCHANGED <<call, result, late, done, pipe, sent, got>>

\* wait, or a try_wait that finds the shell gone; wait_with_output then reads
\* both pipes, the snippet runner stdout first.
ShellEnded ==
    /\ phase = "wait" /\ Ended("shell")
    /\ reader' = CASE mode = "captured_timed" -> [s \in Streams |-> "reading"]
                   [] mode = "snippet"        -> [reader EXCEPT !["out"] = "reading"]
                   [] OTHER                   -> reader
    /\ phase' = "drain"
    /\ UNCHANGED <<call, result, late, procs, pipe, sent, got>>

\* try_wait finds the shell running.
StillRunning ==
    /\ phase = "wait" /\ mode \in Timed /\ Running("shell")
    /\ phase' = "check"
    /\ UNCHANGED <<call, result, late, procs, pipes>>

PollFromNow ==                                        \* a slip
    /\ phase = "check" /\ late' = FALSE
    /\ phase' = "wait"
    /\ UNCHANGED <<call, result, procs, pipes>>

\* The deadline has not passed: sleep and poll again.
PollAgain ==
    /\ phase = "check" /\ ~late
    /\ phase' = "wait"
    /\ UNCHANGED <<call, result, late, procs, pipes>>

\* kill and wait: the shell only.  Dropping the child closes the ends alef did
\* not hand to a pump thread; those threads are left to themselves.
TimeOut ==
    /\ phase = "check" /\ late
    /\ proc' = IF Running("shell") THEN [proc EXCEPT !["shell"] = "killed"] ELSE proc
    /\ IF mode \in Streamed THEN UNCHANGED <<reader, pipe>>
                            ELSE reader' = Closed /\ pipe' = Emptied
    /\ Return("timed_out")
    /\ UNCHANGED <<call, late, done, sent, got>>

\* The snippet runner turns to stderr.
ThenStderr ==
    /\ phase = "drain" /\ mode = "snippet"
    /\ reader["out"] = "ended" /\ reader["err"] = "unread"
    /\ reader' = [reader EXCEPT !["err"] = "reading"]
    /\ UNCHANGED <<call, phase, result, late, procs, pipe, sent, got>>

ExitVerdict == IF proc["shell"] = "exited" THEN "ok" ELSE "failed"     \* a slip

Verdict == IF proc["shell"] = "exited" /\ script.ok THEN "ok" ELSE "failed"

JoinedOne ==                                          \* a slip
    /\ phase = "drain" /\ Ended("shell")
    /\ reader["out"] \in {"inherited", "ended", "closed"}
    /\ Return(Verdict)
    /\ UNCHANGED <<call, late, procs, pipes>>

\* Both readers are joined, or both pipes read to the end.
Joined ==
    /\ phase = "drain" /\ Ended("shell")
    /\ \A s \in Streams : reader[s] \in {"inherited", "ended", "closed"}
    /\ Return(Verdict)
    /\ UNCHANGED <<call, late, procs, pipes>>

-----------------------------------------------------------------------------
Process(p) == Write(p) \/ WriteBroken(p) \/ Exit(p)
Reader(s)  == Read(s) \/ PumpFails(s) \/ ReadEnds(s)
Caller     == SpawnFails \/ ToolSkipped \/ Spawn \/ ShellEnded \/ StillRunning
              \/ PollAgain \/ TimeOut \/ ThenStderr \/ Joined

CallNext == \/ Fork \/ Deadline
        \/ \E p \in Procs : Process(p)
        \/ \E s \in Streams : Reader(s)
        \/ Caller

\* Threads and processes that can move do so, and time passes; a process that
\* does not end on its own is given no reason to.
Fairness ==
    /\ WF_callVars(Fork) /\ WF_callVars(Deadline) /\ WF_callVars(Caller)
    /\ \A p \in Procs : WF_callVars(Process(p))
    /\ \A s \in Streams : WF_callVars(Reader(s))

CallSpec == CallInit /\ [][CallNext]_callVars /\ Fairness
-----------------------------------------------------------------------------
(***************************************************************************)
(* Properties.                                                             *)
(***************************************************************************)

Garbled == script.garbled # {}

\* A call that succeeds has received everything the command and the job it
\* left behind wrote, however their writes interleaved with the polling and
\* whatever was still in the pipes when the shell ended (helpers.rs:271-280).
OkIsComplete ==
    result = "ok" /\ mode \in Piped /\ (mode \in Captured \/ ~Garbled) =>
        /\ \A s \in Streams : got[s] = sent[s] /\ pipe[s] = 0
        /\ ~Held

\* alef reports the command's own verdict: when it is not timed out, a command
\* that would succeed is not made to fail by the way its output is read, nor
\* one that fails taken for a success.
VerdictIsTheCommands ==
    result \in {"ok", "failed"} /\ proc["shell"] # "none" /\ ~Garbled =>
        /\ proc["shell"] = "exited"
        /\ result = "ok" <=> script.ok

\* A process of a command whose output is read while it runs does not wait
\* for room in a pipe for ever, not even after the call timed out and left its
\* reader threads behind.
NeverStarved ==
    \A p \in Procs : (mode \in ReadsAtOnce /\ ~Garbled /\ Blocked(p)) ~> ~Blocked(p)

\* Every call returns, if the job ends and the shell ends or a deadline is set.
\* The snippet runner reads stdout to the end before stderr, so there the job
\* must also leave stdout unused or fit its stderr into the pipe.
Finite ==
    /\ script.forks => "job" \in script.ends
    /\ "shell" \in script.ends \/ mode \in Timed
    /\ mode = "snippet" =>
          Len(SelectSeq(script.writes["shell"] \o script.writes["job"],
                        LAMBDA s : s = "err")) <= Room

Returns == (phase = "spawn" /\ Finite) ~> (phase = "returned")

\* "If timeout_secs is Some(n), kills the child process after n seconds and
\* returns a "timed out" error" (helpers.rs:252-253): a command is timed out
\* because it is slow, not because alef does not read its output.
TimedOutWasSlow ==
    [][phase = "check" /\ phase' = "returned" => ~Blocked("shell")]_callVars

=============================================================================

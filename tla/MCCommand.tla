----------------------------- MODULE MCCommand -----------------------------
(***************************************************************************)
(* Small instances of AlefCommand: pipes of one block, commands that write *)
(* more than a pipe holds on one stream and something on the other, with   *)
(* and without a background job that writes after the shell has ended.     *)
(***************************************************************************)
EXTENDS AlefCommand

Shells == {<<>>, <<"out", "out", "err">>, <<"err", "err">>}
Jobs   == {<<>>, <<"out", "out">>, <<"err">>, <<"err", "err", "out">>}

Of(S, J, E, G) ==
    {[writes |-> [p \in Procs |-> IF p = "shell" THEN w ELSE j], ends |-> e,
      forks |-> f, ok |-> k, garbled |-> g] :
        w \in S, j \in J, e \in E, f \in BOOLEAN, k \in BOOLEAN, g \in G}

\* Processes that end, hang or stay as a daemon, on clean and garbled streams.
AnyScript == Of(Shells, Jobs, {{}, {"job"}, {"shell"}, Procs}, {{}, {"err"}})

\* One process that writes more than the pipe holds and ends.
LoudScripts == Of({<<"out", "out">>}, {<<>>}, {Procs}, {{}})

=============================================================================

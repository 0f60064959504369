----------------------------- MODULE AlefGoTag -----------------------------
(***************************************************************************)
(* `alef go-tag`: the Go module tags of a release, made in a clone and     *)
(* pushed to the remote, one git command after the other.  Several clones  *)
(* (a developer's, a release job and its repetition) may be at it at the   *)
(* same time; the remote may be out of reach for any command, a run may be *)
(* killed, and between its commands a release tag may be moved and tags    *)
(* fetched or deleted.                                                     *)
(***************************************************************************)
EXTENDS Naturals, Sequences, FiniteSets

CONSTANTS
    Clones, Versions, Commits,
    GoTags,      \* the names of module tags
    TagsOf,      \* TagsOf[v]: those of version v, in the order they are made
    Longer,      \* Longer[t]: other names that begin with the name t
    None,
    MaxMoves,    \* bound on release tags moved and tags deleted by hand
    MaxFaults    \* bound on kills and commands that do not reach the remote

ASSUME GoTagAssumption ==
    /\ TagsOf \in [Versions -> Seq(GoTags)]
    /\ Longer \in [GoTags -> SUBSET GoTags]
    /\ \A v, w \in Versions : \A i \in DOMAIN TagsOf[v], j \in DOMAIN TagsOf[w] :
          TagsOf[v][i] = TagsOf[w][j] => v = w
    /\ None \notin Commits
    /\ MaxMoves \in Nat /\ MaxFaults \in Nat

VARIABLES
    release,           \* the tags v{version} of the remote
    remote,            \* its module tags
    source, local,     \* the same two of each clone
    pc, version, at,   \* the run of each clone: its place, version and tag
    been, had, ok,     \* history: commits a release has been; module tags a clone
                       \* had when its run began; its run has ended well
    moves, faults

hub    == <<release, remote>>
vars   == <<hub, source, local, pc, version, at, been, had, ok, moves, faults>>

Points == Commits \cup {None}

TypeOK ==
    /\ release \in [Versions -> Points] /\ source \in [Clones -> [Versions -> Points]]
    /\ remote \in [GoTags -> Points]    /\ local \in [Clones -> [GoTags -> Points]]
    /\ pc \in [Clones -> {"idle", "local", "remote", "tag", "push"}]
    /\ version \in [Clones -> Versions \cup {None}] /\ at \in [Clones -> Nat]
    /\ \A c \in Clones : pc[c] # "idle" => /\ version[c] \in Versions
                                          /\ at[c] \in DOMAIN TagsOf[version[c]]
    /\ been \in [Versions -> SUBSET Commits] /\ had \in [Clones -> SUBSET GoTags]
    /\ ok \in [Clones -> BOOLEAN]
    /\ moves \in 0..MaxMoves /\ faults \in 0..MaxFaults

-----------------------------------------------------------------------------
Present(f) == {t \in GoTags : f[t] # None}
Tag(c)     == TagsOf[version[c]][at[c]]
Last(c)    == at[c] = Len(TagsOf[version[c]])

Init ==
    /\ release = [v \in Versions |-> None] /\ source = [c \in Clones |-> release]
    /\ remote = [t \in GoTags |-> None]    /\ local = [c \in Clones |-> remote]
    /\ pc = [c \in Clones |-> "idle"] /\ version = [c \in Clones |-> None] /\ at = [c \in Clones |-> 0]
    /\ been = [v \in Versions |-> {}] /\ had = [c \in Clones |-> {}] /\ ok = [c \in Clones |-> FALSE]
    /\ moves = 0 /\ faults = 0

-----------------------------------------------------------------------------
(* Developers.                                                             *)

\* A release is tagged, or its tag is moved to another commit.
SetRelease(v, k) ==
    /\ release[v] # k
    /\ moves' = IF release[v] = None THEN moves ELSE moves + 1
    /\ moves' <= MaxMoves
    /\ release' = [release EXCEPT ![v] = k]
    /\ been' = [been EXCEPT ![v] = @ \cup {k}]
    /\ UNCHANGED <<remote, source, local, pc, version, at, had, ok, faults>>

\* git fetch --tags: takes what is new and leaves the tags it has.
Merge(mine, theirs) == [x \in DOMAIN mine |-> IF mine[x] = None THEN theirs[x] ELSE mine[x]]

Fetch(c) ==
    /\ source' = [source EXCEPT ![c] = Merge(@, release)]
    /\ local' = [local EXCEPT ![c] = Merge(@, remote)]
    /\ <<source', local'>> # <<source, local>>
    /\ UNCHANGED <<hub, pc, version, at, been, had, ok, moves, faults>>

\* git tag -d
DeleteLocal(c, t) ==
    /\ moves < MaxMoves /\ moves' = moves + 1
    /\ local[c][t] # None
    /\ local' = [local EXCEPT ![c][t] = None]
    /\ UNCHANGED <<hub, source, pc, version, at, been, had, ok, faults>>

-----------------------------------------------------------------------------
(* One run.                                                                *)

Fault == faults < MaxFaults /\ faults' = faults + 1

Start(c, v) ==
    /\ pc[c] = "idle" /\ TagsOf[v] # <<>>
    /\ pc' = [pc EXCEPT ![c] = "local"]
    /\ version' = [version EXCEPT ![c] = v] /\ at' = [at EXCEPT ![c] = 1]
    /\ had' = [had EXCEPT ![c] = Present(local[c])] /\ ok' = [ok EXCEPT ![c] = FALSE]
    /\ UNCHANGED <<hub, source, local, been, moves, faults>>

\* created.push(tag): the next tag, or the end.
Created(c) ==
    /\ pc' = [pc EXCEPT ![c] = IF Last(c) THEN "idle" ELSE "local"]
    /\ at' = [at EXCEPT ![c] = IF Last(c) THEN @ ELSE @ + 1]
    /\ ok' = [ok EXCEPT ![c] = Last(c)]
    /\ UNCHANGED <<version, had>>

Fails(c) ==
    /\ pc' = [pc EXCEPT ![c] = "idle"]
    /\ version' = [version EXCEPT ![c] = None] /\ at' = [at EXCEPT ![c] = 0]
    /\ had' = [had EXCEPT ![c] = {}]
    /\ UNCHANGED ok

To(c, place) == pc' = [pc EXCEPT ![c] = place] /\ UNCHANGED <<version, at, had, ok>>

\* git rev-parse
CheckLocal(c) ==
    /\ pc[c] = "local"
    /\ IF local[c][Tag(c)] # None THEN Created(c) ELSE To(c, "remote")
    /\ UNCHANGED <<hub, source, local, been, moves, faults>>

\* A line of git ls-remote contains "refs/tags/<t>".
Listed(t) == \E u \in Longer[t] \cup {t} : remote[u] # None

\* git ls-remote; its exit status is not looked at.
CheckRemote(c) ==
    /\ pc[c] = "remote"
    /\ \/ /\ IF Listed(Tag(c)) THEN Created(c) ELSE To(c, "tag")
          /\ UNCHANGED faults
       \/ Fault /\ To(c, "tag")
    /\ UNCHANGED <<hub, source, local, been, moves>>

TagHead(c) ==                                     \* a slip (see README, mutants)
    /\ pc[c] = "tag"
    /\ \E k \in Commits : local' = [local EXCEPT ![c][Tag(c)] = k]
    /\ To(c, "push")
    /\ UNCHANGED <<hub, source, been, moves, faults>>

\* git tag -a: refused for a name that exists or a release this clone lacks.
MakeTag(c) ==
    /\ pc[c] = "tag"
    /\ IF local[c][Tag(c)] = None /\ source[c][version[c]] # None
       THEN local' = [local EXCEPT ![c][Tag(c)] = source[c][version[c]]] /\ To(c, "push")
       ELSE Fails(c) /\ UNCHANGED local
    /\ UNCHANGED <<hub, source, been, moves, faults>>

PushForced(c) ==                                     \* a slip
    /\ pc[c] = "push" /\ local[c][Tag(c)] # None
    /\ remote' = [remote EXCEPT ![Tag(c)] = local[c][Tag(c)]] /\ Created(c)
    /\ UNCHANGED <<release, source, local, been, moves, faults>>

\* git push --force-with-lease: no lease is held on a tag that is there, and
\* it is refused unless it is the very tag this clone has fetched meanwhile.
Push(c) ==
    /\ pc[c] = "push"
    /\ \/ /\ remote[Tag(c)] = None /\ local[c][Tag(c)] # None
          /\ remote' = [remote EXCEPT ![Tag(c)] = local[c][Tag(c)]] /\ Created(c)
       \/ /\ local[c][Tag(c)] = None \/ remote[Tag(c)] # None
          /\ Fails(c) /\ UNCHANGED remote
       \/ /\ local[c][Tag(c)] # None /\ remote[Tag(c)] = local[c][Tag(c)]
          /\ Created(c) /\ UNCHANGED remote
    /\ UNCHANGED <<release, source, local, been, moves, faults>>

PushUnheard(c) ==                                     \* a slip
    /\ pc[c] = "push" /\ Fault
    /\ Created(c)
    /\ UNCHANGED <<hub, source, local, been, moves>>

\* The remote is out of reach, or takes the tag and its answer is lost.
PushFails(c) ==
    /\ pc[c] = "push" /\ Fault
    /\ \/ UNCHANGED remote
       \/ /\ remote[Tag(c)] = None /\ local[c][Tag(c)] # None
          /\ remote' = [remote EXCEPT ![Tag(c)] = local[c][Tag(c)]]
    /\ Fails(c)
    /\ UNCHANGED <<release, source, local, been, moves>>

Kill(c) ==
    /\ pc[c] # "idle" /\ Fault
    /\ Fails(c)
    /\ UNCHANGED <<hub, source, local, been, moves>>

Run(c) == CheckLocal(c) \/ CheckRemote(c) \/ MakeTag(c) \/ Push(c)

Next ==
    \/ \E v \in Versions, k \in Commits : SetRelease(v, k)
    \/ \E c \in Clones : \/ Fetch(c) \/ Run(c) \/ PushFails(c) \/ Kill(c)
                         \/ \E t \in GoTags : DeleteLocal(c, t)
                         \/ \E v \in Versions : Start(c, v)

Spec == Init /\ [][Next]_vars
-----------------------------------------------------------------------------
(***************************************************************************)
(* Properties.                                                             *)
(***************************************************************************)

\* A tag that users of the module may have fetched is never moved, whoever
\* else pushes (go_tag.rs:129-137).
TagsStay == [][\A t \in GoTags : remote[t] # None => remote'[t] = remote[t]]_vars

\* A module tag of a version is at a commit its release tag was at
\* (go_tag.rs:112-127).
TagsOfRelease ==
    \A v \in Versions : \A i \in DOMAIN TagsOf[v] :
        remote[TagsOf[v][i]] # None => remote[TagsOf[v][i]] \in been[v]

Reported(c) == IF ok[c] THEN {TagsOf[version[c]][i] : i \in DOMAIN TagsOf[version[c]]} ELSE {}

\* What a run that ends well calls created and pushed is on the remote,
\* unless its clone had the tag before, or the remote has a longer one
\* (go_tag.rs:89-110).
ReportedOrSkipped ==
    \A c \in Clones : \A t \in Reported(c) : t \in had[c] \/ Listed(t)

\* It is on the remote in every case (go_tag.rs:7-8, 78-82).
ReportedArePushed == \A c \in Clones : Reported(c) \subseteq Present(remote)
=============================================================================

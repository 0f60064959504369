---------------------------- MODULE SourcesMemo ----------------------------
(***************************************************************************)
(* cache::sources_hash: the hash of a set of source files, and the memo    *)
(* `.alef/sources_hash.cache` that spares reading files whose modification *)
(* time and size have not changed.  All commands and crates share the one  *)
(* memo and pass it different sets of files.  One call at a time; around   *)
(* and during it the developer edits, deletes and restores files.          *)
(*                                                                         *)
(* A file is a number, its place in the sorted list of paths.  The hash is *)
(* injective, so it is the function from the files to what was read.       *)
(***************************************************************************)
EXTENDS Naturals, FiniteSets

CONSTANTS
    Sources,      \* source files
    Contents, SizeOf,
    Sets,         \* the sets of files callers pass
    Gone, None,
    MaxTime,      \* bound on the clock
    FreshTimes,   \* BOOLEAN: an edit always changes the modification time
    DiskFills     \* BOOLEAN: the write of the memo may run out of space

ASSUME MemoAssumption ==
    /\ Sources \subseteq Nat
    /\ SizeOf \in [Contents -> Nat]
    /\ Sets \subseteq (SUBSET Sources) \ {{}}
    /\ \A S \in Sets : IsFiniteSet(S)
    /\ Gone \notin Contents \cup [content : Contents, mtime : Nat]
    /\ MaxTime \in Nat
    /\ FreshTimes \in BOOLEAN /\ DiskFills \in BOOLEAN

Stats == Nat \X Nat                       \* modification time and size

IsTable(f) == DOMAIN f \subseteq Sources /\ f \in [DOMAIN f -> Stats]
IsHash(h)  == DOMAIN h \in Sets /\ h \in [DOMAIN h -> Contents]
IsMemo(m)  == (m.agg = None \/ IsHash(m.agg)) /\ IsTable(m.entries)

Empty  == [p \in {} |-> None]
NoMemo == [agg |-> None, entries |-> Empty]

VARIABLES
    now, file,      \* the clock; content and modification time of each file
    memo,           \* the memo on disk
    pc, set, seen,  \* the call: its argument and the memo it read
    stats, read,    \* what it has found about the files so far
    result,
    held            \* history: the contents each file had during the call

world == <<now, file>>
vars  == <<world, memo, pc, set, seen, stats, read, result, held>>

TypeOK ==
    /\ now \in 0..MaxTime
    /\ file \in [Sources -> [content : Contents, mtime : 0..MaxTime] \cup {Gone}]
    /\ IsMemo(memo) /\ IsMemo(seen)
    /\ pc \in {"idle", "stat", "read", "write"}
    /\ set \in Sets \cup {{}}
    /\ IsTable(stats)
    /\ DOMAIN read \subseteq Sources /\ read \in [DOMAIN read -> Contents]
    /\ result = None \/ IsHash(result)
    /\ held \in [Sources -> SUBSET Contents]

-----------------------------------------------------------------------------
Restricted(f, S) == [p \in (DOMAIN f) \cap S |-> f[p]]
Extended(f, p, v) == [q \in (DOMAIN f) \cup {p} |-> IF q = p THEN v ELSE f[q]]

StatOf(f) == <<f.mtime, SizeOf[f.content]>>

\* The files are visited in the order of their paths.
IsNext(p, f) == p \in set \ DOMAIN f /\ \A q \in set \ DOMAIN f : p <= q

Init ==
    /\ now = 0
    /\ file \in [Sources -> [content : Contents, mtime : {0}]]
    /\ memo = NoMemo /\ seen = NoMemo
    /\ pc = "idle" /\ set = {} /\ stats = Empty /\ read = Empty /\ result = None
    /\ held = [p \in Sources |-> {}]

-----------------------------------------------------------------------------
(* The developer.                                                          *)

\* The modification time an edit leaves: a new one, or (restored from an
\* archive, written within one tick of the clock) any it had or has.
NewTimes(p) ==
    IF FreshTimes THEN {now + 1}
    ELSE {now, now + 1} \cup (IF file[p] = Gone THEN {} ELSE {file[p].mtime})

EditFile(p) ==
    /\ now < MaxTime
    /\ \E c \in Contents, t \in NewTimes(p) :
          /\ file' = [file EXCEPT ![p] = [content |-> c, mtime |-> t]]
          /\ held' = IF pc = "idle" THEN held ELSE [held EXCEPT ![p] = @ \cup {c}]
    /\ now' = now + 1
    /\ UNCHANGED <<memo, pc, set, seen, stats, read, result>>

DeleteFile(p) ==
    /\ now < MaxTime /\ file[p] # Gone
    /\ file' = [file EXCEPT ![p] = Gone]
    /\ now' = now + 1
    /\ UNCHANGED <<memo, pc, set, seen, stats, read, result, held>>

-----------------------------------------------------------------------------
(* One call of sources_hash.                                               *)

Call(S) ==
    /\ pc = "idle"
    /\ set' = S /\ seen' = memo
    /\ stats' = Empty /\ read' = Empty /\ result' = None
    /\ held' = [p \in Sources |-> IF file[p] = Gone THEN {} ELSE {file[p].content}]
    /\ pc' = "stat"
    /\ UNCHANGED <<world, memo>>

StatFile(p) ==
    /\ pc = "stat" /\ IsNext(p, stats) /\ file[p] # Gone
    /\ stats' = Extended(stats, p, StatOf(file[p]))
    /\ UNCHANGED <<world, memo, pc, set, seen, read, result, held>>

SameStats == \A p \in set : p \in DOMAIN seen.entries /\ seen.entries[p] = stats[p]

MatchesPart == seen.agg # None /\ seen.entries # Empty /\ SameStats       \* a slip

\* Every file is in the memo as it is now, and the memo holds no other.
Matches ==
    /\ seen.agg # None /\ seen.entries # Empty
    /\ SameStats
    /\ Cardinality(set) = Cardinality(DOMAIN seen.entries)

Hit ==
    /\ pc = "stat" /\ DOMAIN stats = set /\ Matches
    /\ result' = seen.agg
    /\ pc' = "idle"
    /\ UNCHANGED <<world, memo, set, seen, stats, read, held>>

MissRestats ==                                        \* a slip
    /\ pc = "stat" /\ DOMAIN stats = set /\ ~Matches
    /\ stats' = Empty
    /\ UNCHANGED <<world, memo, pc, set, seen, read, result, held>>

Miss ==
    /\ pc = "stat" /\ DOMAIN stats = set /\ ~Matches
    /\ pc' = "read"
    /\ UNCHANGED <<world, memo, set, seen, stats, read, result, held>>

ReadFile(p) ==
    /\ pc = "read" /\ IsNext(p, read) /\ file[p] # Gone
    /\ read' = Extended(read, p, file[p].content)
    /\ UNCHANGED <<world, memo, pc, set, seen, stats, result, held>>

ReadAll ==
    /\ pc = "read" /\ DOMAIN read = set
    /\ pc' = "write"
    /\ UNCHANGED <<world, memo, set, seen, stats, read, result, held>>

\* fs::write: its failure is ignored, and leaves the file truncated, or cut
\* after some line when the disk is full.
Written(k) == [agg |-> read, entries |-> Restricted(stats, {p \in Sources : p <= k})]

WriteMemo ==
    /\ pc = "write"
    /\ \/ memo' = [agg |-> read, entries |-> stats]
       \/ memo' = NoMemo
       \/ DiskFills /\ \E k \in Sources : memo' = Written(k)
    /\ result' = read
    /\ pc' = "idle"
    /\ UNCHANGED <<world, set, seen, stats, read, held>>

\* A file is missing: the call returns an error.
Missing(p) ==
    /\ \/ pc = "stat" /\ IsNext(p, stats)
       \/ pc = "read" /\ IsNext(p, read)
    /\ file[p] = Gone
    /\ pc' = "idle"
    /\ UNCHANGED <<world, memo, set, seen, stats, read, result, held>>

\* The process is killed, at worst between the truncation of the memo and
\* its writing.
Kill ==
    /\ pc # "idle"
    /\ memo' \in IF pc = "write" THEN {memo, NoMemo, [agg |-> read, entries |-> stats]} ELSE {memo}
    /\ pc' = "idle"
    /\ UNCHANGED <<world, set, seen, stats, read, result, held>>

Progressing ==
    \/ \E p \in Sources : StatFile(p) \/ ReadFile(p) \/ Missing(p)
    \/ Hit \/ Miss \/ ReadAll \/ WriteMemo

Next ==
    \/ \E S \in Sets : Call(S)
    \/ \E p \in Sources : EditFile(p) \/ DeleteFile(p)
    \/ Progressing \/ Kill

Spec == Init /\ [][Next]_vars

\* The call's own steps wait for nobody.
FairSpec == Spec /\ WF_vars(Progressing)
-----------------------------------------------------------------------------
(***************************************************************************)
(* Properties.                                                             *)
(***************************************************************************)

\* "The output is always equivalent to the canonical function" (cache.rs:26):
\* the hash a call returns covers exactly the files it was asked for, each
\* with a content it had during the call, whether the memo was used or not and
\* whichever calls, kills and edits wrote it.
ResultIsCanonical ==
    result # None =>
        DOMAIN result = set /\ \A p \in set : result[p] \in held[p]

\* What the memo says of a file that still has the recorded time is what the
\* file holds, even if it was edited between the stat and the reading
\* (cache.rs:36-62).
MemoTellsContents ==
    memo.agg # None =>
        \A p \in DOMAIN memo.entries :
            p \in DOMAIN memo.agg
            /\ (file[p] # Gone /\ file[p].mtime = memo.entries[p][1] =>
                  memo.agg[p] = file[p].content)

\* The memo cannot be told from outside: seen by its callers, sources_hash is
\* the canonical function of SourcesHash, in what each call returns, in that it
\* returns once, and in that it does (cache.rs:20-64).
Canonical == INSTANCE SourcesHash WITH
    content <- [p \in Sources |-> IF file[p] = Gone THEN Gone ELSE file[p].content],
    asked   <- IF pc = "idle" THEN {} ELSE set,
    had     <- held,
    answer  <- result

Memoised == Canonical!Spec
=============================================================================

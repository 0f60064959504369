-------------------------- MODULE SourcesMemoProofs --------------------------
(***************************************************************************)
(* Proofs about SourcesMemo, for any files, contents, sizes and sets.      *)
(*                                                                         *)
(* The argument: with fresh modification times a recorded time never comes *)
(* back to a file (Times), so an entry whose time still agrees tells what  *)
(* the file holds (Tells); a file that agreed when it was stat'ed then had *)
(* the recorded content (SeenHeld); and the count of entries makes the     *)
(* memo's set the caller's (Shape), unless a memo cut short looks like the *)
(* memo of another set (NoTornPrefix).  With that, each step of a call is  *)
(* a step of SourcesHash, or none that its callers see.                    *)
(***************************************************************************)
EXTENDS SourcesMemo, FiniteSetTheorems, TLAPS

\* No set that callers pass is a beginning of another, in the order of paths.
NoTornPrefix ==
    DiskFills => \A S, T \in Sets, k \in Sources : S = {p \in T : p <= k} => S = T

\* How far the call is.
Progress ==
    /\ pc # "idle" => set \in Sets /\ result = None
    /\ DOMAIN stats \subseteq set /\ DOMAIN read \subseteq set
    /\ pc = "stat" => DOMAIN read = {}
    /\ pc \in {"read", "write"} => DOMAIN stats = set
    /\ pc = "write" => DOMAIN read = set

TypeInv == TypeOK /\ Progress

NotAfter(f, t) == \A p \in DOMAIN f : f[p][1] <= t
Times ==
    /\ \A p \in Sources : file[p] # Gone => file[p].mtime <= now
    /\ NotAfter(stats, now) /\ NotAfter(memo.entries, now) /\ NotAfter(seen.entries, now)

\* Where the file p still has the recorded time t, its content is c.
Still(p, t, c) == file[p] # Gone /\ file[p].mtime = t => c = file[p].content

Tells(m) ==
    m.agg # None => \A p \in DOMAIN m.entries :
        p \in DOMAIN m.agg /\ Still(p, m.entries[p][1], m.agg[p])

ReadTells == \A p \in (DOMAIN stats) \cap DOMAIN read : Still(p, stats[p][1], read[p])

Held ==
    pc # "idle" =>
        /\ \A p \in Sources : file[p] # Gone => file[p].content \in held[p]
        /\ \A p \in DOMAIN read : read[p] \in held[p]

SeenHeld ==
    pc # "idle" /\ seen.agg # None =>
        \A p \in (DOMAIN stats) \cap DOMAIN seen.entries :
            seen.entries[p] = stats[p] => seen.agg[p] \in held[p]

Shape(m) ==
    m.agg # None =>
        \/ DOMAIN m.entries = DOMAIN m.agg
        \/ DiskFills /\ \E k \in Sources : DOMAIN m.entries = {p \in DOMAIN m.agg : p <= k}

TellInv == Times /\ Tells(memo) /\ Tells(seen) /\ ReadTells
CallInv == Held /\ SeenHeld /\ Shape(memo) /\ Shape(seen) /\ ResultIsCanonical

-----------------------------------------------------------------------------
(* Types.                                                                  *)

\* The empty table is one.
LEMMA EmptyTable == IsTable(Empty) /\ DOMAIN Empty = {}
  BY DEF IsTable, Empty

\* A missing or truncated memo file reads as one that tells nothing.
LEMMA NoMemoIsMemo == IsMemo(NoMemo) /\ NoMemo.agg = None /\ NoMemo.entries = Empty
  BY EmptyTable DEF IsMemo, NoMemo

\* What a stat finds.
LEMMA StatOfType ==
  ASSUME NEW f \in [content : Contents, mtime : 0..MaxTime]
  PROVE  StatOf(f) \in Stats /\ StatOf(f)[1] = f.mtime
  BY MemoAssumption DEF MemoAssumption, StatOf, Stats

\* One more entry in a table.
LEMMA ExtendedType ==
  ASSUME NEW f, NEW p, NEW v, NEW R, f \in [DOMAIN f -> R], v \in R
  PROVE  /\ DOMAIN Extended(f, p, v) = (DOMAIN f) \cup {p}
         /\ Extended(f, p, v) \in [(DOMAIN f) \cup {p} -> R]
         /\ Extended(f, p, v)[p] = v
         /\ \A q \in DOMAIN f : q # p => Extended(f, p, v)[q] = f[q]
  BY DEF Extended

\* What WriteMemo and Kill may leave on disk.
LEMMA WrittenMemo ==
  ASSUME TypeInv, pc = "write", NEW m,
         \/ m = [agg |-> read, entries |-> stats]
         \/ DiskFills /\ \E k \in Sources : m = Written(k)
  PROVE  /\ IsMemo(m) /\ m.agg = read /\ IsHash(read)
         /\ DOMAIN m.entries \subseteq set
         /\ \A p \in DOMAIN m.entries : m.entries[p] = stats[p]
         /\ Shape(m)
<1>1. IsTable(stats) /\ DOMAIN stats = set /\ DOMAIN read = set /\ IsHash(read)
  BY DEF TypeInv, TypeOK, Progress, IsHash
<1>2. CASE m = [agg |-> read, entries |-> stats]
  BY <1>1, <1>2 DEF IsMemo, Shape
<1>3. CASE DiskFills /\ \E k \in Sources : m = Written(k)
  <2>1. PICK k \in Sources : m = Written(k)
    BY <1>3
  <2> DEFINE P == {p \in Sources : p <= k}
  <2>2. m.agg = read /\ m.entries = Restricted(stats, P)
    BY <2>1 DEF Written
  <2> HIDE DEF P
  <2>3. /\ DOMAIN m.entries = (DOMAIN stats) \cap P
        /\ IsTable(m.entries)
        /\ \A q \in (DOMAIN stats) \cap P : m.entries[q] = stats[q]
    BY <1>1, <2>2 DEF Restricted, IsTable
  <2>4. DOMAIN m.entries = {p \in DOMAIN m.agg : p <= k}
    BY <1>1, <2>2, <2>3 DEF IsTable, P
  <2> QED BY <1>1, <1>3, <2>2, <2>3, <2>4 DEF IsMemo, Shape
<1> QED BY <1>2, <1>3

-----------------------------------------------------------------------------
(* Type correctness.                                                       *)

\* The initial state is well typed.
LEMMA InitTypes == Init => TypeInv
  BY MemoAssumption, EmptyTable, NoMemoIsMemo
  DEF MemoAssumption, Init, TypeInv, TypeOK, Progress

\* Every step keeps every variable its kind, and a call its progress.
LEMMA StepTypes == TypeInv /\ [Next]_vars => TypeInv'
<1> SUFFICES ASSUME TypeInv, [Next]_vars PROVE TypeInv'
  OBVIOUS
<1> USE DEF TypeInv
<1>1. ASSUME NEW S \in Sets, Call(S) PROVE TypeInv'
  <2>1. \A p \in Sources : file[p] # Gone => file[p].content \in Contents
    BY DEF TypeOK
  <2>2. held' \in [Sources -> SUBSET Contents]
    BY <1>1, <2>1 DEF Call
  <2> QED BY <1>1, <2>2, EmptyTable DEF Call, TypeOK, Progress, world
<1>2. ASSUME NEW p \in Sources, EditFile(p) PROVE TypeInv'
  <2>1. PICK c \in Contents, t \in NewTimes(p) :
           /\ file' = [file EXCEPT ![p] = [content |-> c, mtime |-> t]]
           /\ held' = IF pc = "idle" THEN held ELSE [held EXCEPT ![p] = @ \cup {c}]
    BY <1>2 DEF EditFile
  <2>2. now \in 0..MaxTime /\ now < MaxTime /\ now' = now + 1 /\ MaxTime \in Nat
    BY <1>2, MemoAssumption DEF EditFile, TypeOK, MemoAssumption
  <2>3. now' \in 0..MaxTime
    BY <2>2
  <2>4. t \in 0..MaxTime
    BY <2>2 DEF NewTimes, TypeOK
  <2>5. file' \in [Sources -> [content : Contents, mtime : 0..MaxTime] \cup {Gone}]
    BY <2>1, <2>4 DEF TypeOK
  <2>6. held' \in [Sources -> SUBSET Contents]
    BY <2>1 DEF TypeOK
  <2> QED BY <1>2, <2>3, <2>5, <2>6 DEF EditFile, TypeOK, Progress
<1>3. ASSUME NEW p \in Sources, DeleteFile(p) PROVE TypeInv'
  <2>1. now' \in 0..MaxTime
    BY <1>3, MemoAssumption DEF DeleteFile, TypeOK, MemoAssumption
  <2>2. file' \in [Sources -> [content : Contents, mtime : 0..MaxTime] \cup {Gone}]
    BY <1>3 DEF DeleteFile, TypeOK
  <2> QED BY <1>3, <2>1, <2>2 DEF DeleteFile, TypeOK, Progress
<1>4. ASSUME NEW p \in Sources, StatFile(p) PROVE TypeInv'
  <2>1. file[p] \in [content : Contents, mtime : 0..MaxTime] /\ p \in set
    BY <1>4 DEF StatFile, TypeOK, IsNext
  <2>2. StatOf(file[p]) \in Stats
    BY <2>1, StatOfType
  <2>3. stats \in [DOMAIN stats -> Stats]
    BY DEF TypeOK, IsTable
  <2>4. /\ DOMAIN stats' = (DOMAIN stats) \cup {p}
        /\ stats' \in [(DOMAIN stats) \cup {p} -> Stats]
    BY <1>4, <2>2, <2>3, ExtendedType DEF StatFile
  <2>5. IsTable(stats')
    BY <2>4 DEF TypeOK, IsTable
  <2> QED BY <1>4, <2>1, <2>4, <2>5 DEF StatFile, TypeOK, Progress, world
<1>5. ASSUME NEW p \in Sources, ReadFile(p) PROVE TypeInv'
  <2>1. file[p].content \in Contents /\ p \in set
    BY <1>5 DEF ReadFile, TypeOK, IsNext
  <2>2. /\ DOMAIN read' = (DOMAIN read) \cup {p}
        /\ read' \in [(DOMAIN read) \cup {p} -> Contents]
    BY <1>5, <2>1, ExtendedType DEF ReadFile, TypeOK
  <2> QED BY <1>5, <2>1, <2>2 DEF ReadFile, TypeOK, Progress, world
<1>6. ASSUME NEW p \in Sources, Missing(p) PROVE TypeInv'
  BY <1>6 DEF Missing, TypeOK, Progress, world
<1>7. CASE Hit
  BY <1>7 DEF Hit, Matches, IsMemo, TypeOK, Progress, world
<1>8. CASE Miss
  BY <1>8 DEF Miss, TypeOK, Progress, world
<1>9. CASE ReadAll
  BY <1>9 DEF ReadAll, TypeOK, Progress, world
<1>10. CASE WriteMemo
  <2>1. IsMemo(memo') /\ IsHash(read)
    BY <1>10, WrittenMemo, NoMemoIsMemo DEF WriteMemo
  <2> QED BY <1>10, <2>1 DEF WriteMemo, TypeOK, Progress, world
<1>11. CASE Kill
  <2>1. IsMemo(memo')
    BY <1>11, WrittenMemo, NoMemoIsMemo DEF Kill, TypeOK
  <2> QED BY <1>11, <2>1 DEF Kill, TypeOK, Progress, world
<1>12. CASE UNCHANGED vars
  BY <1>12 DEF vars, world, TypeOK, Progress
<1> QED
  BY <1>1, <1>2, <1>3, <1>4, <1>5, <1>6, <1>7, <1>8, <1>9, <1>10, <1>11, <1>12 DEF Next, Progressing

\* Every variable of the memo and of a call keeps its kind, whatever the edits,
\* kills and short writes (cache.rs:28-106).
THEOREM MemoTypeCorrect == Spec => []TypeOK
<1>1. Spec => []TypeInv
  BY InitTypes, StepTypes, PTL DEF Spec
<1> QED BY <1>1, PTL DEF TypeInv

-----------------------------------------------------------------------------
(* What the memo tells.                                                    *)

\* Times recorded in the past stay there.
LEMMA NotAfterLater ==
  ASSUME NEW f, IsTable(f), NEW t \in Nat, NEW u \in Nat, t <= u, NotAfter(f, t)
  PROVE  NotAfter(f, u)
<1>1. \A p \in DOMAIN f : f[p][1] \in Nat
  BY DEF IsTable, Stats
<1> QED BY <1>1 DEF NotAfter

\* The memo and what the call read of it are tables, or nothing.
LEMMA MemoTables ==
  ASSUME TypeInv
  PROVE  /\ IsTable(memo.entries) /\ IsTable(seen.entries) /\ IsTable(stats)
         /\ memo.agg # None => IsHash(memo.agg)
         /\ seen.agg # None => IsHash(seen.agg)
  BY DEF TypeInv, TypeOK, IsMemo

\* Nothing is recorded at first.
LEMMA InitTells == Init => TellInv
  BY EmptyTable, NoMemoIsMemo
  DEF Init, TellInv, Times, NotAfter, Tells, ReadTells

\* An edit gives a file a time that no record has; every other step leaves
\* the files alone and copies what a stat or a reading found.
LEMMA StepTells ==
  ASSUME FreshTimes, TypeInv, TypeInv', TellInv, [Next]_vars
  PROVE  TellInv'
<1> USE DEF TellInv
<1>a. now \in Nat /\ now' \in Nat
  BY MemoAssumption DEF TypeInv, TypeOK, MemoAssumption
<1>b. \A p \in Sources : file[p] # Gone => file[p] \in [content : Contents, mtime : 0..MaxTime]
  BY DEF TypeInv, TypeOK
<1>1. ASSUME NEW S \in Sets, Call(S) PROVE TellInv'
  BY <1>1, EmptyTable DEF Call, world, Times, NotAfter, Tells, ReadTells, Still
<1>2. ASSUME NEW p \in Sources, EditFile(p) \/ DeleteFile(p) PROVE TellInv'
  <2>1. /\ now' = now + 1 /\ UNCHANGED <<memo, seen, stats, read>>
        /\ \A q \in Sources \ {p} : file'[q] = file[q]
        /\ file'[p] # Gone => file'[p].mtime = now + 1
    <3>1. CASE EditFile(p)
      BY <3>1 DEF EditFile, NewTimes, TypeInv, TypeOK
    <3>2. CASE DeleteFile(p)
      BY <3>2 DEF DeleteFile, TypeInv, TypeOK
    <3> QED BY <1>2, <3>1, <3>2
  <2>2. Times'
    <3>1. \A q \in Sources : file'[q] # Gone => file'[q].mtime <= now'
      BY <1>a, <1>b, <2>1 DEF Times
    <3>2. NotAfter(stats, now') /\ NotAfter(memo.entries, now') /\ NotAfter(seen.entries, now')
      BY <1>a, <2>1, MemoTables, NotAfterLater DEF Times
    <3> QED BY <2>1, <3>1, <3>2 DEF Times
  <2>3. \A f : IsTable(f) /\ NotAfter(f, now) =>
            \A q \in DOMAIN f : \A c : Still(q, f[q][1], c) => Still(q, f[q][1], c)'
    <3> SUFFICES ASSUME NEW f, IsTable(f), NotAfter(f, now), NEW q \in DOMAIN f, NEW c,
                        Still(q, f[q][1], c)
                 PROVE  Still(q, f[q][1], c)'
      OBVIOUS
    <3>1. q \in Sources /\ f[q][1] <= now /\ f[q][1] \in Nat
      BY DEF IsTable, Stats, NotAfter
    <3>2. f[q][1] # now + 1
      BY <3>1, <1>a
    <3> QED BY <2>1, <3>1, <3>2 DEF Still
  <2>4. Tells(memo)' /\ Tells(seen)'
    BY <2>1, <2>3, MemoTables DEF Tells, Times
  <2>5. ReadTells'
    BY <2>1, <2>3, MemoTables DEF ReadTells, Times
  <2> QED BY <2>2, <2>4, <2>5
<1>3. ASSUME NEW p \in Sources, StatFile(p) PROVE TellInv'
  <2>1. file[p] \in [content : Contents, mtime : 0..MaxTime] /\ p \notin DOMAIN stats
    BY <1>3, <1>b DEF StatFile, IsNext
  <2>2. StatOf(file[p]) \in Stats /\ StatOf(file[p])[1] = file[p].mtime
    BY <2>1, StatOfType
  <2>3. /\ DOMAIN stats' = (DOMAIN stats) \cup {p}
        /\ stats'[p] = StatOf(file[p])
        /\ \A q \in DOMAIN stats : stats'[q] = stats[q]
    BY <1>3, <2>1 DEF StatFile, Extended
  <2>4. UNCHANGED <<now, file, memo, seen, read>>
    BY <1>3 DEF StatFile, world
  <2>5. Times'
    BY <1>3, <2>2, <2>3, <2>4 DEF Times, NotAfter, StatFile
  <2>6. p \notin DOMAIN read
    BY <1>3 DEF StatFile, TypeInv, Progress
  <2>7. ReadTells'
    BY <2>3, <2>4, <2>6 DEF ReadTells, Still
  <2> QED BY <2>4, <2>5, <2>7 DEF Tells, Still
<1>4. ASSUME NEW p \in Sources, ReadFile(p) PROVE TellInv'
  <2>1. file[p].content \in Contents
    BY <1>4, <1>b DEF ReadFile
  <2>2. /\ DOMAIN read' = (DOMAIN read) \cup {p}
        /\ read'[p] = file[p].content
        /\ \A q \in DOMAIN read : q # p => read'[q] = read[q]
    BY <1>4 DEF ReadFile, Extended
  <2>3. UNCHANGED <<now, file, memo, seen, stats>>
    BY <1>4 DEF ReadFile, world
  <2>4. ReadTells'
    BY <2>2, <2>3 DEF ReadTells, Still
  <2> QED BY <2>3, <2>4 DEF Times, Tells, Still
<1>5. ASSUME NEW p \in Sources, Missing(p) PROVE TellInv'
  BY <1>5 DEF Missing, world, Times, Tells, ReadTells, Still
<1>6. CASE Hit \/ Miss \/ ReadAll
  BY <1>6 DEF Hit, Miss, ReadAll, world, Times, Tells, ReadTells, Still
<1>7. CASE WriteMemo \/ Kill
  <2>1. /\ UNCHANGED <<now, file, seen, stats, read>>
        /\ \/ memo' = memo \/ memo' = NoMemo
           \/ /\ pc = "write"
              /\ \/ memo' = [agg |-> read, entries |-> stats]
                 \/ DiskFills /\ \E k \in Sources : memo' = Written(k)
    BY <1>7 DEF WriteMemo, Kill, world
  <2>2. CASE memo' = memo
    BY <2>1, <2>2 DEF Times, Tells, ReadTells, Still
  <2>3. CASE memo' = NoMemo
    BY <2>1, <2>3, NoMemoIsMemo, EmptyTable DEF Times, NotAfter, Tells, ReadTells, Still
  <2>4. CASE memo' # memo /\ memo' # NoMemo
    <3>1. /\ memo'.agg = read /\ DOMAIN memo'.entries \subseteq set
          /\ \A p \in DOMAIN memo'.entries : memo'.entries[p] = stats[p]
      BY <2>1, <2>4, WrittenMemo
    <3>2. DOMAIN stats = set /\ DOMAIN read = set
      BY <2>1, <2>4 DEF TypeInv, Progress
    <3> QED BY <2>1, <3>1, <3>2 DEF Times, NotAfter, Tells, ReadTells, Still
  <2> QED BY <2>2, <2>3, <2>4
<1>8. CASE UNCHANGED vars
  BY <1>8 DEF vars, world, Times, Tells, ReadTells, Still
<1> QED
  BY <1>1, <1>2, <1>3, <1>4, <1>5, <1>6, <1>7, <1>8 DEF Next, Progressing

\* Where an edit always changes the modification time, the memo never tells of
\* a file that still has the recorded time anything but its content, even if
\* it was edited between the stat and the reading (cache.rs:36-62).
THEOREM MemoTellsAlways == FreshTimes => (Spec => []MemoTellsContents)
<1> SUFFICES ASSUME FreshTimes PROVE Spec => []MemoTellsContents
  OBVIOUS
<1>1. Init => TypeInv /\ TellInv
  BY InitTypes, InitTells
<1>2. TypeInv /\ TellInv /\ [Next]_vars => (TypeInv /\ TellInv)'
  BY StepTypes, StepTells
<1>3. TellInv => MemoTellsContents
  BY DEF TellInv, Tells, Still, MemoTellsContents
<1> QED BY <1>1, <1>2, <1>3, PTL DEF Spec

-----------------------------------------------------------------------------
(* What a call returns.                                                    *)

\* The count of entries: a memo that agrees on every file of the set and holds
\* as many as the set is about the set.
LEMMA MatchIsTheSet ==
  ASSUME NoTornPrefix, TypeInv, Shape(seen), pc # "idle", Matches
  PROVE  DOMAIN seen.entries = set /\ DOMAIN seen.agg = set
<1>1. /\ seen.agg # None /\ set \in Sets /\ DOMAIN seen.agg \in Sets
      /\ IsFiniteSet(DOMAIN seen.agg)
  BY MemoTables, MemoAssumption DEF MemoAssumption, Matches, TypeInv, Progress, IsHash
<1>2. set \subseteq DOMAIN seen.entries
  BY DEF Matches, SameStats
<1>3. DOMAIN seen.entries \subseteq DOMAIN seen.agg
  BY <1>1 DEF Shape
<1>4. IsFiniteSet(DOMAIN seen.entries)
  BY <1>1, <1>3, FS_Subset
<1>5. DOMAIN seen.entries = set
  BY <1>2, <1>4, FS_Subset DEF Matches
<1>6. DOMAIN seen.entries = DOMAIN seen.agg
  BY <1>1, <1>5 DEF Shape, NoTornPrefix
<1> QED BY <1>5, <1>6

\* Nothing is claimed before the first call.
LEMMA InitCall == Init => CallInv
  BY NoMemoIsMemo DEF Init, CallInv, Held, SeenHeld, Shape, ResultIsCanonical

\* An edit only adds to what a file held during the call.
LEMMA StepCall ==
  ASSUME NoTornPrefix, TypeInv, TypeInv', TellInv, CallInv, [Next]_vars
  PROVE  CallInv'
<1> USE DEF CallInv
<1>a. DOMAIN stats \subseteq set /\ DOMAIN read \subseteq set /\ set \subseteq Sources
  BY MemoAssumption DEF MemoAssumption, TypeInv, TypeOK, Progress
<1>1. ASSUME NEW S \in Sets, Call(S) PROVE CallInv'
  <2>1. held' = [p \in Sources |-> IF file[p] = Gone THEN {} ELSE {file[p].content}]
    BY <1>1 DEF Call
  <2>2. /\ file' = file /\ memo' = memo /\ seen' = memo /\ result' = None
        /\ DOMAIN stats' = {} /\ DOMAIN read' = {}
    BY <1>1, EmptyTable DEF Call, world
  <2> QED BY <2>1, <2>2 DEF Held, SeenHeld, Shape, ResultIsCanonical
<1>2. ASSUME NEW p \in Sources, EditFile(p) \/ DeleteFile(p) PROVE CallInv'
  <2>1. /\ UNCHANGED <<pc, set, memo, seen, stats, read, result>>
        /\ pc = "idle" => held' = held
        /\ \A q \in Sources : held[q] \subseteq held'[q]
        /\ \A q \in Sources \ {p} : file'[q] = file[q]
        /\ pc # "idle" /\ file'[p] # Gone => file'[p].content \in held'[p]
    <3>1. CASE EditFile(p)
      <4>1. PICK c \in Contents, t \in NewTimes(p) :
               /\ file' = [file EXCEPT ![p] = [content |-> c, mtime |-> t]]
               /\ held' = IF pc = "idle" THEN held ELSE [held EXCEPT ![p] = @ \cup {c}]
        BY <3>1 DEF EditFile
      <4> QED BY <3>1, <4>1 DEF EditFile, TypeInv, TypeOK
    <3>2. CASE DeleteFile(p)
      BY <3>2 DEF DeleteFile, TypeInv, TypeOK
    <3> QED BY <1>2, <3>1, <3>2
  <2>2. Held'
    BY <1>a, <2>1 DEF Held
  <2>3. SeenHeld'
    BY <1>a, <2>1 DEF SeenHeld
  <2> QED BY <1>a, <2>1, <2>2, <2>3 DEF Shape, ResultIsCanonical
<1>3. ASSUME NEW p \in Sources, StatFile(p) PROVE CallInv'
  <2>1. file[p] \in [content : Contents, mtime : 0..MaxTime] /\ p \notin DOMAIN stats
    BY <1>3 DEF StatFile, IsNext, TypeInv, TypeOK
  <2>2. /\ DOMAIN stats' = (DOMAIN stats) \cup {p}
        /\ stats'[p] = StatOf(file[p])
        /\ \A q \in DOMAIN stats : stats'[q] = stats[q]
    BY <1>3, <2>1 DEF StatFile, Extended
  <2>3. /\ UNCHANGED <<file, memo, pc, set, seen, read, result, held>>
        /\ pc # "idle" /\ file[p] # Gone
    BY <1>3 DEF StatFile, world
  <2>4. ASSUME seen.agg # None, p \in DOMAIN seen.entries, seen.entries[p] = stats'[p]
        PROVE  seen.agg[p] \in held[p]
    <3>1. seen.entries[p][1] = file[p].mtime
      BY <2>1, <2>2, <2>4, StatOfType
    <3>2. seen.agg[p] = file[p].content
      BY <2>3, <2>4, <3>1 DEF TellInv, Tells, Still
    <3> QED BY <2>3, <3>2 DEF Held
  <2>5. SeenHeld'
    BY <2>2, <2>3, <2>4 DEF SeenHeld
  <2> QED BY <2>3, <2>5 DEF Held, Shape, ResultIsCanonical
<1>4. ASSUME NEW p \in Sources, ReadFile(p) PROVE CallInv'
  <2>1. /\ DOMAIN read' = (DOMAIN read) \cup {p}
        /\ read'[p] = file[p].content
        /\ \A q \in DOMAIN read : q # p => read'[q] = read[q]
    BY <1>4 DEF ReadFile, Extended
  <2>2. /\ UNCHANGED <<file, memo, pc, set, seen, stats, result, held>>
        /\ pc # "idle" /\ file[p] # Gone
    BY <1>4 DEF ReadFile, world
  <2>3. Held'
    BY <2>1, <2>2 DEF Held
  <2> QED BY <2>2, <2>3 DEF SeenHeld, Shape, ResultIsCanonical
<1>5. ASSUME NEW p \in Sources, Missing(p) PROVE CallInv'
  BY <1>5 DEF Missing, world, Held, SeenHeld, Shape, ResultIsCanonical
<1>6. CASE Hit
  <2>1. DOMAIN seen.entries = set /\ DOMAIN seen.agg = set /\ DOMAIN stats = set
    BY <1>6, MatchIsTheSet DEF Hit
  <2>2. \A p \in set : seen.agg[p] \in held[p]
    BY <1>6, <2>1 DEF Hit, Matches, SameStats, SeenHeld
  <2>3. /\ result' = seen.agg /\ pc' = "idle"
        /\ UNCHANGED <<file, memo, set, seen, stats, read, held>>
    BY <1>6 DEF Hit, world
  <2>4. ResultIsCanonical'
    BY <2>1, <2>2, <2>3 DEF ResultIsCanonical
  <2> QED BY <2>3, <2>4 DEF Held, SeenHeld, Shape
<1>7. CASE Miss \/ ReadAll
  <2>1. UNCHANGED <<file, memo, set, seen, stats, read, result, held>> /\ pc # "idle"
    BY <1>7 DEF Miss, ReadAll, world
  <2> QED BY <2>1 DEF Held, SeenHeld, Shape, ResultIsCanonical
<1>8. CASE WriteMemo
  <2>1. /\ result' = read /\ pc = "write" /\ pc' = "idle"
        /\ UNCHANGED <<file, set, seen, stats, read, held>>
        /\ \/ memo' = NoMemo
           \/ memo' = [agg |-> read, entries |-> stats]
           \/ DiskFills /\ \E k \in Sources : memo' = Written(k)
    BY <1>8 DEF WriteMemo, world
  <2>2. ResultIsCanonical'
    BY <2>1 DEF ResultIsCanonical, Held, TypeInv, Progress
  <2>3. Shape(memo')
    BY <2>1, WrittenMemo, NoMemoIsMemo DEF Shape
  <2> QED BY <2>1, <2>2, <2>3 DEF Held, SeenHeld, Shape
<1>9. CASE Kill
  <2>1. /\ pc' = "idle" /\ UNCHANGED <<file, set, seen, stats, read, result, held>>
        /\ \/ memo' = memo \/ memo' = NoMemo
           \/ pc = "write" /\ memo' = [agg |-> read, entries |-> stats]
    BY <1>9 DEF Kill, world
  <2>2. Shape(memo')
    BY <2>1, WrittenMemo, NoMemoIsMemo DEF Shape
  <2> QED BY <2>1, <2>2 DEF Held, SeenHeld, Shape, ResultIsCanonical
<1>10. CASE UNCHANGED vars
  BY <1>10 DEF vars, world, Held, SeenHeld, Shape, ResultIsCanonical
<1> QED
  BY <1>1, <1>2, <1>3, <1>4, <1>5, <1>6, <1>7, <1>8, <1>9, <1>10 DEF Next, Progressing

Inv == TypeInv /\ TellInv /\ CallInv

\* The invariants hold together.
LEMMA AlwaysInv == FreshTimes /\ NoTornPrefix => (Spec => []Inv)
<1> SUFFICES ASSUME FreshTimes, NoTornPrefix PROVE Spec => []Inv
  OBVIOUS
<1>1. Init => Inv
  BY InitTypes, InitTells, InitCall DEF Inv
<1>2. Inv /\ [Next]_vars => Inv'
  BY StepTypes, StepTells, StepCall DEF Inv
<1> QED BY <1>1, <1>2, PTL DEF Spec

\* "The output is always equivalent to the canonical function" (cache.rs:26)
\* holds where edits change modification times and where no set of files, or
\* no full disk, lets a memo cut short pass for another set's.
THEOREM ResultAlwaysCanonical ==
  FreshTimes /\ NoTornPrefix => (Spec => []ResultIsCanonical)
<1> SUFFICES ASSUME FreshTimes, NoTornPrefix PROVE Spec => []ResultIsCanonical
  OBVIOUS
<1>1. Spec => []Inv
  BY AlwaysInv
<1>2. Inv => ResultIsCanonical
  BY DEF Inv, CallInv
<1> QED BY <1>1, <1>2, PTL

-----------------------------------------------------------------------------
(* The refinement.                                                         *)

ContentOf(f) == [p \in Sources |-> IF f[p] = Gone THEN Gone ELSE f[p].content]
Asked == IF pc = "idle" THEN {} ELSE set

\* What the callers of sources_hash see at first.
LEMMA InitMaps == Init => Canonical!Init
<1> SUFFICES ASSUME Init PROVE Canonical!Init
  OBVIOUS
<1>1. \A p \in Sources : file[p] # Gone /\ file[p].content \in Contents
  BY MemoAssumption DEF Init, MemoAssumption
<1> QED BY <1>1 DEF Init, Canonical!Init

\* Edits are edits, a call asks, its last step answers or fails, and the steps
\* between, whatever they do to the memo, are not seen.
LEMMA StepMaps ==
  ASSUME NoTornPrefix, Inv, Inv', [Next]_vars
  PROVE  [Canonical!Next]_(Canonical!vars)
<1> USE DEF Inv
<1>a. /\ file \in [Sources -> [content : Contents, mtime : 0..MaxTime] \cup {Gone}]
      /\ held \in [Sources -> SUBSET Contents]
      /\ \A p \in Sources : file[p] # Gone => file[p].content \in Contents /\ file[p].content # Gone
      /\ pc # "idle" => set \in Sets /\ set # {} /\ set \subseteq Sources
  BY MemoAssumption DEF MemoAssumption, TypeInv, TypeOK, Progress
<1>1. ASSUME NEW S \in Sets, Call(S) PROVE Canonical!Ask(S)
  <2>1. pc = "idle" /\ pc' = "stat" /\ set' = S /\ result' = None /\ file' = file
    BY <1>1 DEF Call, world
  <2>2. held' = [p \in Sources |-> {ContentOf(file)[p]} \ {Gone}]
    BY <1>1, <1>a DEF Call, ContentOf
  <2> QED BY <2>1, <2>2 DEF Canonical!Ask, ContentOf
<1>2. ASSUME NEW p \in Sources, EditFile(p) PROVE Canonical!Edit(p)
  <2>1. PICK c \in Contents, t \in NewTimes(p) :
           /\ file' = [file EXCEPT ![p] = [content |-> c, mtime |-> t]]
           /\ held' = IF pc = "idle" THEN held ELSE [held EXCEPT ![p] = @ \cup {c}]
    BY <1>2 DEF EditFile
  <2>2. UNCHANGED <<pc, set, result>>
    BY <1>2 DEF EditFile
  <2>3. file'[p] # Gone /\ file'[p].content = c
    <3>1. t \in Nat
      BY <2>1, MemoAssumption DEF NewTimes, TypeInv, TypeOK, MemoAssumption
    <3>2. [content |-> c, mtime |-> t] \in [content : Contents, mtime : Nat]
      BY <3>1
    <3>3. file'[p] = [content |-> c, mtime |-> t]
      BY <1>a, <2>1
    <3> QED BY <3>2, <3>3, MemoAssumption DEF MemoAssumption
  <2>4. ContentOf(file') = [ContentOf(file) EXCEPT ![p] = c]
    BY <1>a, <2>1, <2>3 DEF ContentOf
  <2>5. Asked = {} <=> pc = "idle"
    BY <1>a DEF Asked
  <2> QED BY <2>1, <2>2, <2>4, <2>5 DEF Canonical!Edit, ContentOf, Asked
<1>3. ASSUME NEW p \in Sources, DeleteFile(p) PROVE Canonical!Delete(p)
  <2>1. ContentOf(file') = [ContentOf(file) EXCEPT ![p] = Gone]
    BY <1>3, <1>a DEF DeleteFile, ContentOf
  <2>2. UNCHANGED <<pc, set, result, held>>
    BY <1>3 DEF DeleteFile
  <2> QED BY <2>1, <2>2 DEF Canonical!Delete, ContentOf
<1>4. ASSUME NEW p \in Sources, StatFile(p) \/ ReadFile(p) PROVE UNCHANGED Canonical!vars
  BY <1>4 DEF StatFile, ReadFile, world, Canonical!vars
<1>5. CASE Miss \/ ReadAll
  BY <1>5 DEF Miss, ReadAll, world, Canonical!vars
<1>6. CASE Hit \/ WriteMemo
  <2>1. /\ pc # "idle" /\ pc' = "idle" /\ UNCHANGED <<file, set, held>>
        /\ IsHash(result') /\ DOMAIN result' = set
    <3>1. CASE Hit
      <4>1. DOMAIN seen.agg = set /\ IsHash(seen.agg)
        BY <3>1, MatchIsTheSet, MemoTables DEF Hit, Matches, CallInv
      <4> QED BY <3>1, <4>1 DEF Hit, world
    <3>2. CASE WriteMemo
      <4>1. DOMAIN read = set /\ IsHash(read)
        BY <3>2 DEF WriteMemo, TypeInv, TypeOK, Progress, IsHash
      <4> QED BY <3>2, <4>1 DEF WriteMemo, world
    <3> QED BY <1>6, <3>1, <3>2
  <2>2. result' \in [set -> Contents]
    BY <2>1 DEF IsHash
  <2>3. \A p \in set : result'[p] \in held[p]
    <3>1. CASE Hit
      <4>1. DOMAIN seen.entries = set
        BY <3>1, MatchIsTheSet DEF Hit, CallInv
      <4> QED BY <3>1, <4>1 DEF Hit, Matches, SameStats, CallInv, SeenHeld
    <3>2. CASE WriteMemo
      BY <3>2 DEF WriteMemo, CallInv, Held, TypeInv, Progress
    <3> QED BY <1>6, <3>1, <3>2
  <2>4. Canonical!Answer
    BY <1>a, <2>1, <2>2, <2>3 DEF Canonical!Answer
  <2> QED BY <2>4 DEF Canonical!Next
<1>7. ASSUME NEW p \in Sources, Missing(p) PROVE Canonical!Fail
  BY <1>7, <1>a DEF Missing, world, Canonical!Fail
<1>8. CASE Kill
  <2>1. Canonical!Fail
    BY <1>8, <1>a DEF Kill, world, Canonical!Fail
  <2> QED BY <2>1 DEF Canonical!Next
<1>9. CASE UNCHANGED vars
  BY <1>9 DEF vars, world, Canonical!vars
<1> QED
  BY <1>1, <1>2, <1>3, <1>4, <1>5, <1>6, <1>7, <1>8, <1>9 DEF Next, Progressing, Canonical!Next

\* The memo cannot be told from outside (safety part of Memoised): under the
\* two conditions every behaviour of sources_hash, with its memo, torn writes
\* and kills, is one of the canonical function (cache.rs:20-64).
THEOREM MemoIsTransparent == FreshTimes /\ NoTornPrefix => (Spec => Canonical!Safe)
<1> SUFFICES ASSUME FreshTimes, NoTornPrefix PROVE Spec => Canonical!Safe
  OBVIOUS
<1>1. Spec => []Inv
  BY AlwaysInv
<1>2. Inv /\ Inv' /\ [Next]_vars => [Canonical!Next]_(Canonical!vars)
  BY StepMaps
<1> QED BY <1>1, <1>2, InitMaps, PTL DEF Spec, Canonical!Safe
=============================================================================

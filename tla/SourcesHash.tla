---------------------------- MODULE SourcesHash ----------------------------
(***************************************************************************)
(* What cache::sources_hash promises its callers: "The output is always    *)
(* equivalent to the canonical function" (cache.rs:26), which reads the    *)
(* files it is given and knows no memo.  A call returns, for each file, a  *)
(* content that the file had between the call and the return; or it fails  *)
(* (a file is missing, the process is killed); and one or the other comes. *)
(***************************************************************************)
CONSTANTS Sources, Contents, Sets, Gone, None

VARIABLES
    content,    \* of each file, or Gone
    asked,      \* the files of the call in progress, or none
    had,        \* the contents each file has had since the call
    answer      \* what the last call returned

vars == <<content, asked, had, answer>>

Init ==
    /\ content \in [Sources -> Contents]
    /\ asked = {} /\ had = [p \in Sources |-> {}] /\ answer = None

Edit(p) ==
    /\ \E c \in Contents :
          /\ content' = [content EXCEPT ![p] = c]
          /\ had' = IF asked = {} THEN had ELSE [had EXCEPT ![p] = @ \cup {c}]
    /\ UNCHANGED <<asked, answer>>

Delete(p) ==
    /\ content' = [content EXCEPT ![p] = Gone]
    /\ UNCHANGED <<asked, had, answer>>

Ask(S) ==
    /\ asked = {}
    /\ asked' = S /\ answer' = None
    /\ had' = [p \in Sources |-> {content[p]} \ {Gone}]
    /\ UNCHANGED content

Answer ==
    /\ asked # {}
    /\ answer' \in [asked -> Contents] /\ \A p \in asked : answer'[p] \in had[p]
    /\ asked' = {}
    /\ UNCHANGED <<content, had>>

Fail ==
    /\ asked # {}
    /\ asked' = {}
    /\ UNCHANGED <<content, had, answer>>

Next ==
    \/ \E p \in Sources : Edit(p) \/ Delete(p)
    \/ \E S \in Sets : Ask(S)
    \/ Answer \/ Fail

Safe == Init /\ [][Next]_vars
Spec == Safe /\ WF_vars(Answer \/ Fail)
=============================================================================

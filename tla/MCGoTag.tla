------------------------------ MODULE MCGoTag ------------------------------
(***************************************************************************)
(* Small instances of AlefGoTag: a release candidate and the release, each *)
(* with a module tag and a legacy tag.                                     *)
(***************************************************************************)
EXTENDS AlefGoTag, TLC

MCGoTags == {"v5/v5.0.0-rc.1", "v5.0.0-rc.1", "v5/v5.0.0", "v5.0.0"}
MCTagsOf == [v \in Versions |-> IF v = "rc" THEN <<"v5/v5.0.0-rc.1", "v5.0.0-rc.1">>
                                            ELSE <<"v5/v5.0.0", "v5.0.0">>]
MCLonger == [t \in MCGoTags |-> CASE t = "v5/v5.0.0" -> {"v5/v5.0.0-rc.1"}
                                  [] t = "v5.0.0"    -> {"v5.0.0-rc.1"}
                                  [] OTHER           -> {}]
Alike == Permutations(Clones) \cup Permutations(Commits)

MCNoLonger == [t \in MCGoTags |-> {}]
=============================================================================

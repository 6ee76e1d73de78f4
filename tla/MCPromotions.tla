---------------------------- MODULE MCPromotions ----------------------------
(* Two commits on the default branch that state one version and differ in  *)
(* what a reviewer sees of them; the second is also at the tip of a branch *)
(* that its policy does not let promote.  Time is in units of ten seconds: *)
(* a request takes at most two, the skew is three.                         *)
EXTENDS Promotions, TLC

MCCommits == {"merge", "later"}
MCContent == ("merge" :> "reviewed") @@ ("later" :> "changed")
MCEnvironment == [commit \in MCCommits |-> "release"]
MCManualRefs == [commit \in MCCommits |-> {"main"}]
MCHeads == {<<"main", "merge">>, <<"side", "later">>}
MCBuilds == {1, 2}
MCSkews == {-1, 4}
MCDelays == 0 .. 2
=============================================================================

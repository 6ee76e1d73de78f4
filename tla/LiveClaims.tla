----------------------------- MODULE LiveClaims -----------------------------
(***************************************************************************)
(* What the documents say of a release run and the code does not do: it   *)
(* has a counterexample, in the run of the same name.                      *)
(***************************************************************************)
EXTENDS LiveRefinement

(* docs/design.md:79: the failure of an optional notification is           *)
(* diagnostic only.  A run that found the release complete exits 1 when an *)
(* optional hook that had reported its delivery cannot report it again,    *)
(* since nothing is left of the budget of the first plan (Run::observed).  *)
OptionalOnlyDiagnoses ==
  stop.state = "Released" /\ stop.kind # "Unobserved" => exit = 0
=============================================================================

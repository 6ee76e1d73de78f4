--------------------------- MODULE LiveRefinement ---------------------------
(***************************************************************************)
(* LiveRelease implements OrderedRelease: what the world holds of the      *)
(* Candidate, read off the registry, GitHub and the hooks directly, is     *)
(* published in order and never taken back, whatever fails in between.     *)
(***************************************************************************)
EXTENDS LiveRelease

(* Whether a wanted object needs its effect to finish.                     *)
Needed(item) == ItemWanted(item) /\ (item.kind = "notify" => Required(item.name))

Indices == DOMAIN Items
NeededStages == {i \in Indices : Needed(Items[i])}
NeedsOf == [i \in Indices |-> {j \in NeededStages : j < i}]

(* Whether the world holds the object, as the Candidate describes it.      *)
Holds(item) ==
  LET mine == {id \in DOMAIN releases : releases[id].mine}
  IN CASE item.kind = "tag"      -> tag = "mine"
       [] item.kind = "package"  -> package = "mine"
       [] item.kind = "docs"     -> docs = "mine"
       [] item.kind = "draft"    -> mine # {}
       [] item.kind = "asset"    -> \E id \in mine : releases[id].assets[item.name] = "mine"
       [] item.kind = "finalize" -> \E id \in mine : ~releases[id].draft
       [] item.kind = "notify"   -> item.name \in delivered

Published == {i \in Indices : Holds(Items[i])}

Claimed == CASE exit = Unset -> "running" [] exit = 0 -> "success" [] OTHER -> "failure"

Promise == INSTANCE OrderedRelease WITH
  Stages <- Indices, Essential <- NeededStages, Needs <- NeedsOf,
  published <- Published, verdict <- Claimed

(* The world only ever changes in the order of publication and success is  *)
(* claimed only of a complete release, through lost answers, killed jobs,  *)
(* late requests and stale reads (Run::next, LiveReleaseTarget).           *)
KeepsPromise == Promise!Spec

(* Fair runs: the shell's loop goes on while it can, a stopped run is      *)
(* started again, and the registry shows what it holds in the end.  What   *)
(* is in flight may stay in flight for ever, and so may other publishers.  *)
Proceed == Observe \/ ObserveInVain \/ Apply \/ ApplyInVain

FairSpec ==
  /\ Spec
  /\ WF_vars(Proceed)
  /\ WF_vars(Rerun)
  /\ \A what \in {"package", "docs"} : WF_vars(WorldMoves /\ Surfaces(what))

(* Rerunning the release command with the same Candidate publishes all of  *)
(* it in the end, whatever failed before - unless a draft whose creation   *)
(* seemed lost turns up beside the one that replaced it, a conflict that   *)
(* only a person can resolve (docs/recovery.md, LiveReleaseTarget).        *)
EventuallyReleased == <>(exit = 0 \/ Len(releases) > 1)
=============================================================================

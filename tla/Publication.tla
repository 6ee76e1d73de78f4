---------------------------- MODULE Publication ----------------------------
(***************************************************************************)
(* What a release still has to publish, decided from what the world        *)
(* already holds: the pure decisions of release-glz-core's publication.rs  *)
(* and lifecycle.rs.                                                       *)
(*                                                                         *)
(* A release is a sequence of objects in publication order.  Each object   *)
(* says whether the Candidate wants it, how an observation shows it, and   *)
(* whether its effect has to finish before the release counts as released. *)
(* Indices start at 1 here and at 0 in the source.                         *)
(***************************************************************************)
EXTENDS Naturals, FiniteSets

Presence == {"Absent", "Pending", "Matches", "Differs"}

Object == [wanted : BOOLEAN, presence : Presence, blocking : BOOLEAN]

(* A list of n objects.  The shell builds one for every observation.       *)
Lists(n) == [1..n -> Object]

(* An existing object is never replaced: one that differs, or that exists  *)
(* although the Candidate does not want it, is a conflict.                 *)
Decision(o) ==
  CASE o.presence = "Differs" \/ (~o.wanted /\ o.presence # "Absent") -> "Conflict"
    [] o.wanted /\ o.presence \in {"Absent", "Pending"}               -> "Create"
    [] OTHER                                                          -> "Keep"

Decided(objs, decision) == {i \in DOMAIN objs : Decision(objs[i]) = decision}

Conflicts(objs) == Decided(objs, "Conflict")

(* The effects that a plan of objs lists.                                  *)
Owed(objs) == Decided(objs, "Create")

Blocks(objs, i) == objs[i].blocking

BlockingOwed(objs) == {i \in Owed(objs) : Blocks(objs, i)}

Present(objs) == {i \in DOMAIN objs : objs[i].presence # "Absent"}

(* The least member of a set of indices: the first hit of a search in      *)
(* publication order.                                                      *)
IsFirst(i, S) == i \in S /\ \A j \in S : i <= j

(***************************************************************************)
(* The states of a release.                                                *)
(***************************************************************************)
ReleaseState == {"UpToDate", "Planned", "CandidateReady", "AwaitingApproval",
                 "PartiallyReleased", "Released", "Conflict", "Blocked"}

(* The normal states, at their position in the lifecycle.                  *)
LIFECYCLE == <<"UpToDate", "Planned", "CandidateReady", "AwaitingApproval",
               "PartiallyReleased", "Released">>

Position(s) == {k \in DOMAIN LIFECYCLE : LIFECYCLE[k] = s}

IsTerminal(s) == s \in {"Released", "Conflict", "Blocked"}

(* A state may repeat itself, a terminal state never changes again, normal *)
(* states only move forward, and any other state may stop in conflict or   *)
(* blocked.                                                                *)
CanAdvanceTo(s, t) ==
  \/ s = t
  \/ /\ ~IsTerminal(s)
     /\ \A from \in Position(s), to \in Position(t) : to > from

(* The state of a plan of objs, which holds no conflict.                   *)
PlanState(objs, approved) ==
  IF ~approved THEN "AwaitingApproval"
  ELSE IF BlockingOwed(objs) = {} THEN "Released"
  ELSE IF Present(objs) # {} THEN "PartiallyReleased"
  ELSE "CandidateReady"
=============================================================================

----------------------------- MODULE ReleaseRun -----------------------------
(***************************************************************************)
(* The decisions of one release run (release-glz-core's run.rs), as the    *)
(* loop of CandidateReleaseRunner::execute (release.rs) drives them: the   *)
(* shell observes, the run decides, the shell applies one effect, and the  *)
(* run records how the call ended.                                         *)
(*                                                                         *)
(* The actions take the observation or the end of the call as a parameter. *)
(* RunSpec closes them with every observation an environment can make, and *)
(* LiveRelease with the ones the registry, GitHub and the hooks make.      *)
(***************************************************************************)
EXTENDS Publication, Integers

CONSTANT N            \* the number of objects of the first observation

ASSUME NAssumption == N \in Nat

VARIABLES
  approved,   \* whether the approval evidence approves the Candidate
  attempted,  \* the objects whose effect the run already attempted
  budget,     \* attempts left, Unset until the first plan with an effect
  applying,   \* the object of the call under way, or NoObject
  failed,     \* the object whose call failed, until the next observation
  landed,     \* the failed object that the newest observation no longer lists
  planned,    \* the state of the plan that chose the last effect
  started,    \* whether the run knows that the release started
  phase,      \* what the shell does next
  stop        \* how the run stopped

runVars == <<approved, attempted, budget, applying, failed, landed, planned,
             started, phase, stop>>

NoObject == 0
Unset == -1
Recorded == 1..N

StopKind == {"None", "Finish", "Conflict", "Failed", "Diverged", "Reshaped",
             "Unobserved"}
Running == [kind |-> "None", state |-> "Blocked"]

RunTypeOK ==
  /\ approved \in BOOLEAN
  /\ attempted \in SUBSET Recorded
  /\ budget \in Nat \cup {Unset}
  /\ applying \in Recorded \cup {NoObject}
  /\ failed \in Recorded \cup {NoObject}
  /\ landed \in Recorded \cup {NoObject}
  /\ planned \in ReleaseState
  /\ started \in BOOLEAN
  /\ phase \in {"observing", "applying", "stopped"}
  /\ stop \in [kind : StopKind, state : ReleaseState]

(* Run::new, before the first observation.                                 *)
RunInit(approves) ==
  /\ approved = approves
  /\ attempted = {}
  /\ budget = Unset
  /\ applying = NoObject
  /\ failed = NoObject
  /\ landed = NoObject
  /\ planned = "Blocked"
  /\ started = FALSE
  /\ phase = "observing"
  /\ stop = Running

(* Run::new, for a run that starts over with nothing but the world.        *)
Restart(approves) ==
  /\ approved' = approves
  /\ attempted' = {}
  /\ budget' = Unset
  /\ applying' = NoObject
  /\ failed' = NoObject
  /\ landed' = NoObject
  /\ planned' = "Blocked"
  /\ started' = FALSE
  /\ phase' = "observing"
  /\ stop' = Running

StopIn(kind, state) ==
  /\ phase' = "stopped"
  /\ stop' = [kind |-> kind, state |-> state]

(***************************************************************************)
(* Run::observed.                                                          *)
(***************************************************************************)

(* The state to report instead of state, given whether the run knows that  *)
(* the release started.                                                    *)
Unfloored(state, knows) == state

Vouched(state, knows) ==
  IF knows /\ state \notin {"Released", "Conflict"}
    THEN "PartiallyReleased" ELSE state

Proceeds(objs) == approved /\ Conflicts(objs) = {}

KnowsStarted(objs) ==
  started \/ PlanState(objs, approved) \in {"PartiallyReleased", "Released"}

SeenState(objs) == Vouched(PlanState(objs, approved), KnowsStarted(objs))

SameCount(objs) == DOMAIN objs = Recorded

(* A blocking effect failed and the world still lacks its object.          *)
TrustsFailure(objs) == FALSE

OwesFailure(objs) == failed \in BlockingOwed(objs)

(* The run passes over an optional effect that it already attempted.       *)
PassesOver(objs, i) == ~Blocks(objs, i) /\ i \in attempted

Chosen(objs) == {i \in Owed(objs) : ~PassesOver(objs, i)}

(* The first plan that lists an effect fixes how many attempts there are.  *)
Budget(objs) == IF budget = Unset THEN Cardinality(Owed(objs)) ELSE budget

(* The failed effect counts as applied once the world no longer lists it.  *)
LandsIn(objs) == IF failed \in Owed(objs) THEN NoObject ELSE failed

Observing == phase = "observing"

ObservesConflict(objs) ==
  /\ Observing
  /\ Conflicts(objs) # {}
  /\ landed' = NoObject
  /\ failed' = NoObject
  /\ StopIn("Conflict", "Conflict")
  /\ UNCHANGED <<approved, attempted, budget, applying, planned, started>>

AwaitsApproval(objs) ==
  /\ Observing
  /\ Conflicts(objs) = {}
  /\ ~approved
  /\ landed' = NoObject
  /\ failed' = NoObject
  /\ StopIn("Finish", "AwaitingApproval")
  /\ UNCHANGED <<approved, attempted, budget, applying, planned, started>>

ObservesReshapedAgain(objs) ==
  /\ Observing
  /\ Proceeds(objs)
  /\ ~SameCount(objs)
  /\ started' = KnowsStarted(objs)
  /\ landed' = NoObject
  /\ failed' = NoObject
  /\ UNCHANGED <<approved, attempted, budget, applying, planned, phase, stop>>

ObservesReshaped(objs) ==
  /\ Observing
  /\ Proceeds(objs)
  /\ ~SameCount(objs)
  /\ started' = KnowsStarted(objs)
  /\ landed' = NoObject
  /\ failed' = NoObject
  /\ StopIn("Reshaped", SeenState(objs))
  /\ UNCHANGED <<approved, attempted, budget, applying, planned>>

StopsAfterFailure(objs) ==
  /\ Observing
  /\ Proceeds(objs)
  /\ SameCount(objs)
  /\ OwesFailure(objs)
  /\ started' = KnowsStarted(objs)
  /\ landed' = NoObject
  /\ failed' = NoObject
  /\ StopIn("Failed", SeenState(objs))
  /\ UNCHANGED <<approved, attempted, budget, applying, planned>>

(* The part of the handler that every later outcome shares.                *)
Resolves(objs) ==
  /\ Observing
  /\ Proceeds(objs)
  /\ SameCount(objs)
  /\ ~OwesFailure(objs)
  /\ landed' = LandsIn(objs)
  /\ started' = (KnowsStarted(objs) \/ LandsIn(objs) # NoObject)
  /\ failed' = NoObject

Finishes(objs) ==
  /\ Resolves(objs)
  /\ Chosen(objs) = {}
  /\ StopIn("Finish", SeenState(objs))
  /\ UNCHANGED <<approved, attempted, budget, applying, planned>>

Diverges(objs) ==
  /\ Resolves(objs)
  /\ Chosen(objs) # {}
  /\ Budget(objs) = 0
  /\ budget' = Budget(objs)
  /\ StopIn("Diverged", SeenState(objs))
  /\ UNCHANGED <<approved, attempted, applying, planned>>

Chooses(objs, i) ==
  /\ Resolves(objs)
  /\ IsFirst(i, Chosen(objs))
  /\ Budget(objs) > 0
  /\ budget' = Budget(objs) - 1
  /\ attempted' = attempted \cup {i}
  /\ applying' = i
  /\ planned' = SeenState(objs)
  /\ phase' = "applying"
  /\ UNCHANGED <<approved, stop>>

Observed(objs) ==
  \/ ObservesConflict(objs)
  \/ AwaitsApproval(objs)
  \/ ObservesReshaped(objs)
  \/ StopsAfterFailure(objs)
  \/ Finishes(objs)
  \/ Diverges(objs)
  \/ \E i \in DOMAIN objs : Chooses(objs, i)

(***************************************************************************)
(* Run::applied, Run::unobserved and the shell's stop for an observation   *)
(* that failed, or that itself contradicts the Candidate.                  *)
(***************************************************************************)
Applied(succeeded) ==
  /\ phase = "applying"
  /\ phase' = "observing"
  /\ applying' = NoObject
  /\ started' = (started \/ succeeded)
  /\ failed' = IF succeeded THEN failed ELSE applying
  /\ UNCHANGED <<approved, attempted, budget, landed, planned, stop>>

UnobservedLowered == IF started THEN "PartiallyReleased" ELSE planned

Unobserved == Vouched(planned, started)

ObservationFails(contradicts) ==
  /\ Observing
  /\ StopIn("Unobserved", IF contradicts THEN "Conflict" ELSE Unobserved)
  /\ UNCHANGED <<approved, attempted, budget, applying, failed, landed,
                 planned, started>>
=============================================================================

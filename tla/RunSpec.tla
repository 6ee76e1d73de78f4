------------------------------ MODULE RunSpec ------------------------------
(***************************************************************************)
(* One release run against every environment: each observation may show    *)
(* the objects of the release in any presence, whatever the one before it  *)
(* showed, each call may succeed or fail, and any observation may fail.    *)
(* What a run promises here it promises whatever the registry, GitHub and  *)
(* the hooks do.                                                           *)
(***************************************************************************)
EXTENDS ReleaseRun

CONSTANTS
  Shapes,   \* the releases considered: which objects are wanted and blocking
  Counts    \* other numbers of objects that an observation may hold

Shape == [wanted : BOOLEAN, blocking : BOOLEAN]

ASSUME RunSpecAssumption ==
  /\ Shapes \subseteq [Recorded -> Shape]
  /\ Counts \subseteq Nat \ {N}

VARIABLES
  shape,      \* the release that this run publishes
  world,      \* the newest observation
  done,       \* the objects whose call succeeded
  refused,    \* the objects whose last call failed and that no later
              \* observation stopped listing
  times,      \* how often the run applied the effect of each object
  calls,      \* how many effects the run applied
  listed,     \* the number of effects that the first applied plan lists
  evidence,   \* something showed that the release started
  wavered     \* an observation took an object back, or missed one whose call
              \* succeeded

historyVars == <<shape, world, done, refused, times, calls, listed, evidence,
                wavered>>
vars == <<runVars, historyVars>>

Blank == [i \in Recorded |-> [wanted |-> FALSE, presence |-> "Absent",
                              blocking |-> TRUE]]

TypeOK ==
  /\ RunTypeOK
  /\ shape \in [Recorded -> Shape]
  /\ \E n \in Counts \cup {N} : world \in Lists(n)
  /\ done \in SUBSET Recorded
  /\ refused \in SUBSET Recorded
  /\ times \in [Recorded -> Nat]
  /\ calls \in Nat
  /\ listed \in Nat
  /\ evidence \in BOOLEAN
  /\ wavered \in BOOLEAN

Init ==
  /\ \E a \in BOOLEAN : RunInit(a)
  /\ shape \in Shapes
  /\ world = Blank
  /\ done = {}
  /\ refused = {}
  /\ times = [i \in Recorded |-> 0]
  /\ calls = 0
  /\ listed = 0
  /\ evidence = FALSE
  /\ wavered = FALSE

(***************************************************************************)
(* The environment.                                                        *)
(***************************************************************************)
Shown(p) == [i \in Recorded |-> [wanted   |-> shape[i].wanted,
                                 presence |-> p[i],
                                 blocking |-> shape[i].blocking]]

Observations ==
  {Shown(p) : p \in [Recorded -> Presence]} \cup UNION {Lists(n) : n \in Counts}

Grows(p, q) == \/ p = q
               \/ p = "Absent"
               \/ p = "Pending" /\ q \in {"Matches", "Differs"}

(* Nothing that the newest observation showed is taken back.               *)
TakesNothingBack(objs) ==
  /\ DOMAIN world = Recorded /\ DOMAIN objs = Recorded
  /\ \A i \in Recorded : Grows(world[i].presence, objs[i].presence)

Observe(objs) ==
  /\ Observed(objs)
  /\ world' = objs
  /\ refused' = refused \cap Owed(objs)
  /\ evidence' = (evidence \/ (Proceeds(objs) /\ Present(objs) # {})
                           \/ landed' # NoObject)
  /\ wavered' = (wavered \/ ~TakesNothingBack(objs)
                         \/ \E i \in done : objs[i].presence # "Matches")
  /\ IF phase' = "applying"
       THEN /\ times' = [times EXCEPT ![applying'] = @ + 1]
            /\ calls' = calls + 1
            /\ listed' = IF calls = 0 THEN Cardinality(Owed(objs)) ELSE listed
       ELSE UNCHANGED <<times, calls, listed>>
  /\ UNCHANGED <<shape, done>>

Apply(succeeded) ==
  /\ Applied(succeeded)
  /\ done' = IF succeeded THEN done \cup {applying} ELSE done
  /\ refused' = IF succeeded THEN refused \ {applying}
                             ELSE refused \cup {applying}
  /\ evidence' = (evidence \/ succeeded)
  /\ UNCHANGED <<shape, world, times, calls, listed, wavered>>

FailToObserve(contradicts) ==
  /\ ObservationFails(contradicts)
  /\ UNCHANGED historyVars

Next ==
  \/ \E objs \in Observations : Observe(objs)
  \/ \E succeeded \in BOOLEAN : Apply(succeeded)
  \/ \E contradicts \in BOOLEAN : FailToObserve(contradicts)

(* The shell is one sequential loop: while it runs, it takes a step.       *)
Spec == Init /\ [][Next]_vars
FairSpec == Spec /\ WF_vars(Next)

(***************************************************************************)
(* What a run promises in every world.                                     *)
(***************************************************************************)

(* A run never makes more calls than the first plan that listed an effect  *)
(* has effects, so a world that never holds an object cannot keep it going *)
(* (Run::budget, spend).                                                   *)
WithinFirstPlan == calls <= listed /\ listed <= N

(* The effect of an optional object is attempted at most once in a run,    *)
(* whatever later observations show (Run::passes_over).                    *)
OptionalOnce == \A i \in Recorded : shape[i].blocking \/ times[i] <= 1

(* An effect whose call failed is applied again only after an observation  *)
(* that did not list it: a call that may have committed is never repeated  *)
(* blindly (Run::observed, stop_after_failure).                            *)
NeverRepeatedBlindly == phase = "applying" => applying \notin refused

(* An effect is applied only when every earlier object that the release    *)
(* needs was seen to match (Run::next): the package never precedes the tag *)
(* and a notification never precedes the release.                          *)
PublicationOrder ==
  phase = "applying" =>
    \A j \in Recorded :
      j < applying /\ shape[j].wanted /\ shape[j].blocking =>
        world[j].presence = "Matches"

(* Once anything showed that the release started - an object that an       *)
(* observation without conflict held, a call that succeeded, or a failed   *)
(* call whose effect landed - a run that stops short of a conflict reports *)
(* partially released or released, even when later observations lag        *)
(* (Run::vouched, Run::unobserved).                                        *)
NeverReportsLess ==
  evidence /\ stop.kind # "None" /\ stop.state # "Conflict"
    => stop.state \in {"PartiallyReleased", "Released"}

(* A run reports released only when it may publish and the newest          *)
(* observation showed every object that the release needs, none different  *)
(* and none still pending (publication.rs, reconcile).                     *)
ReleasedIsComplete ==
  stop.kind # "None" /\ stop.state = "Released"
    => /\ approved
       /\ \A i \in DOMAIN world :
            /\ world[i].presence # "Differs"
            /\ world[i].wanted /\ world[i].blocking => world[i].presence = "Matches"

(* A run finishes only with nothing left that blocks, so the state of the  *)
(* report, which execute takes from the plan and not from the run, is the  *)
(* state the run finished in (release.rs, Step::Finish).                   *)
ReportAgrees ==
  stop.kind = "Finish" =>
    /\ stop.state = PlanState(world, approved)
    /\ stop.state \in {"AwaitingApproval", "Released"}

(* A run without approval makes no call.                                   *)
UnapprovedApplyNothing == ~approved => calls = 0

(* The calls of a run: few enough, none repeated on a guess, in order of   *)
(* publication and only with approval (Run::observed, Run::next).          *)
CallsAreSound ==
  /\ WithinFirstPlan
  /\ OptionalOnce
  /\ NeverRepeatedBlindly
  /\ PublicationOrder
  /\ UnapprovedApplyNothing

(* What a run reports: no less than it has evidence of, no more than it    *)
(* saw, and what the plan says as well (Run::vouched, Step::Finish).       *)
ReportsAreTrue ==
  /\ NeverReportsLess
  /\ ReleasedIsComplete
  /\ ReportAgrees

(* A run stops in every world: the budget bounds its calls.                *)
Terminates == <>(phase = "stopped")

(* While the world takes nothing back, the states that a run plans from    *)
(* and stops in follow the lifecycle, conflicts apart, whatever the world  *)
(* did before (Run::vouched, ReleaseState::can_advance_to).                *)
LifecycleOrder ==
  [][planned # "Blocked" /\ TakesNothingBack(world') =>
         /\ CanAdvanceTo(planned, planned')
         /\ stop' # stop /\ stop'.state # "Conflict" => CanAdvanceTo(planned, stop'.state)]_vars

(* In a world that shows each object as soon as its call succeeded, and    *)
(* for good, no effect is applied twice and no run diverges: what a run    *)
(* stops on is a failure, a conflict or completion (Run::observed).        *)
PromptRunsConverge ==
  ~wavered => /\ \A i \in Recorded : times[i] <= 1
              /\ stop.kind # "Diverged"
=============================================================================

----------------------------- MODULE RunProofs -----------------------------
(***************************************************************************)
(* What RunSpec's model-checking runs show on two or three objects, proved *)
(* for a release of any number of objects, any mix of wanted, unwanted,    *)
(* blocking and optional ones, and any environment.                        *)
(*                                                                         *)
(* The promises are not inductive as they stand.  Inv joins to them what   *)
(* relates the run's own record (attempted, budget, failed, started) to    *)
(* what really happened (times, calls, refused, evidence).                 *)
(***************************************************************************)
EXTENDS RunSpec, FiniteSetTheorems, TLAPS

(* The budget left and the calls made add up to the first plan.            *)
BudgetInv ==
  /\ budget = Unset => calls = 0 /\ listed = 0
  /\ budget # Unset => calls + budget = listed
  /\ budget # Unset /\ phase # "stopped" => calls # 0
  /\ listed <= N

(* attempted records every call, and an optional effect has at most one.   *)
OnceInv ==
  \A i \in Recorded :
    /\ i \notin attempted => times[i] = 0
    /\ shape[i].blocking \/ times[i] <= 1

(* A blocking effect that was refused is the one the run still remembers,  *)
(* and the others are optional effects that it passes over.                *)
RefusedInv ==
  /\ refused \subseteq attempted
  /\ phase = "applying" =>
       /\ applying \in attempted
       /\ applying \notin refused
       /\ shape[applying].wanted
  /\ phase # "stopped" =>
       /\ failed # NoObject => shape[failed].wanted /\ phase = "observing"
       /\ \A i \in refused : shape[i].blocking => i = failed

(* The run knows what the history shows.                                   *)
FloorInv ==
  /\ evidence /\ phase # "stopped" => started
  /\ ~approved => calls = 0 /\ ~evidence /\ phase # "applying"
  /\ phase = "stopped" <=> stop.kind # "None"

Complete(objs) == Conflicts(objs) = {} /\ BlockingOwed(objs) = {}

(* The state of the newest plan describes the newest observation.          *)
CompleteInv ==
  phase # "stopped" /\ planned = "Released" => approved /\ Complete(world)

Inv ==
  /\ TypeOK
  /\ BudgetInv
  /\ OnceInv
  /\ RefusedInv
  /\ PublicationOrder
  /\ FloorInv
  /\ NeverReportsLess
  /\ CompleteInv
  /\ ReleasedIsComplete
  /\ ReportAgrees

LEMMA ConstantsType == N \in Nat /\ Recorded = 1..N /\ NoObject \notin Recorded
                       /\ Unset \notin Nat
BY NAssumption DEF Recorded, NoObject, Unset

(* Every observation is a list of objects, as long as an environment may   *)
(* make it; one of N objects shows the objects of the release.             *)
LEMMA ObservationType ==
  ASSUME TypeOK, NEW objs \in Observations
  PROVE  /\ \E n \in Counts \cup {N} : objs \in Lists(n)
         /\ SameCount(objs) =>
              /\ objs \in [Recorded -> Object]
              /\ \A i \in Recorded : /\ objs[i].wanted = shape[i].wanted
                                     /\ objs[i].blocking = shape[i].blocking
<1>1. CASE objs \in {Shown(p) : p \in [Recorded -> Presence]}
  <2>1. PICK p \in [Recorded -> Presence] : objs = Shown(p)
    BY <1>1
  <2>2. objs \in [Recorded -> Object]
    BY <2>1 DEF Shown, Object, TypeOK, Shape
  <2>. QED  BY <2>1, <2>2, ConstantsType DEF Shown, Lists, Recorded
<1>2. CASE objs \in UNION {Lists(n) : n \in Counts}
  <2>1. PICK n \in Counts : objs \in Lists(n)
    BY <1>2
  <2>2. n \in Nat /\ n # N
    BY RunSpecAssumption
  <2>3. DOMAIN objs = 1..n
    BY <2>1 DEF Lists
  <2>4. 1..n # 1..N
    BY <2>2, NAssumption
  <2>. QED  BY <2>1, <2>3, <2>4 DEF SameCount, Recorded
<1>. QED  BY <1>1, <1>2 DEF Observations

(* The effects of an observation are at most its objects.                  *)
LEMMA OwedBound ==
  ASSUME NEW objs, DOMAIN objs = Recorded
  PROVE  /\ IsFiniteSet(Owed(objs))
         /\ Cardinality(Owed(objs)) \in Nat
         /\ Cardinality(Owed(objs)) <= N
<1>1. IsFiniteSet(1..N) /\ Cardinality(1..N) = N
  BY FS_Interval, NAssumption
<1>2. Owed(objs) \subseteq 1..N
  BY DEF Owed, Decided, Recorded
<1>. QED  BY <1>1, <1>2, FS_Subset, FS_CardinalityType

(* An object is a conflict, owed, or as the Candidate describes it.        *)
LEMMA Decisions ==
  ASSUME NEW o \in Object
  PROVE  /\ Decision(o) \in {"Conflict", "Create", "Keep"}
         /\ Decision(o) = "Create" => o.wanted /\ o.presence \in {"Absent", "Pending"}
         /\ Decision(o) = "Keep" /\ o.wanted => o.presence = "Matches"
BY DEF Decision, Object, Presence

(* An observation without conflict that owes nothing blocking shows every  *)
(* object that the release needs.                                          *)
LEMMA CompleteShows ==
  ASSUME NEW n, NEW objs \in Lists(n), Complete(objs)
  PROVE  \A i \in DOMAIN objs :
           /\ objs[i].presence # "Differs"
           /\ objs[i].wanted /\ objs[i].blocking => objs[i].presence = "Matches"
<1>. SUFFICES ASSUME NEW i \in DOMAIN objs
              PROVE  /\ objs[i].presence # "Differs"
                     /\ objs[i].wanted /\ objs[i].blocking
                          => objs[i].presence = "Matches"
  OBVIOUS
<1>1. objs[i] \in Object
  BY DEF Lists
<1>2. Decision(objs[i]) # "Conflict"
  BY DEF Complete, Conflicts, Decided
<1>3. Decision(objs[i]) = "Create" => ~objs[i].blocking
  BY DEF Complete, BlockingOwed, Blocks, Owed, Decided
<1>4. objs[i].presence # "Differs"
  BY <1>1, <1>2 DEF Decision, Object, Presence
<1>. QED  BY <1>1, <1>2, <1>3, <1>4, Decisions

(* The state a run sees in an observation that it proceeds on.             *)
LEMMA SeenStates ==
  ASSUME TypeOK, NEW objs, Proceeds(objs)
  PROVE  /\ SeenState(objs) \in {"CandidateReady", "PartiallyReleased", "Released"}
         /\ SeenState(objs) = "Released" <=> BlockingOwed(objs) = {}
         /\ KnowsStarted(objs) => SeenState(objs) # "CandidateReady"
         /\ Present(objs) # {} => KnowsStarted(objs)
         /\ KnowsStarted(objs) \in BOOLEAN
         /\ started => KnowsStarted(objs)
         /\ SeenState(objs) = "Released" => SeenState(objs) = PlanState(objs, approved)
<1>1. started \in BOOLEAN /\ approved
  BY DEF TypeOK, RunTypeOK, Proceeds
<1>2. PlanState(objs, approved) \in {"CandidateReady", "PartiallyReleased", "Released"}
  BY <1>1 DEF PlanState
<1>3. PlanState(objs, approved) = "Released" <=> BlockingOwed(objs) = {}
  BY <1>1 DEF PlanState
<1>4. Present(objs) # {} => PlanState(objs, approved) # "CandidateReady"
  BY <1>1 DEF PlanState
<1>. QED  BY <1>1, <1>2, <1>3, <1>4 DEF SeenState, Vouched, KnowsStarted

(* In an observation that a run proceeds on, a wanted object that is not   *)
(* owed matches the Candidate, and so is present.                          *)
LEMMA WantedMatches ==
  ASSUME TypeOK, NEW objs \in Observations, Proceeds(objs), SameCount(objs),
         NEW i \in Recorded, shape[i].wanted, i \notin Owed(objs)
  PROVE  objs[i].presence = "Matches" /\ Present(objs) # {}
<1>1. objs \in [Recorded -> Object] /\ objs[i].wanted
  BY ObservationType
<1>2. Decision(objs[i]) # "Conflict" /\ Decision(objs[i]) # "Create"
  BY <1>1 DEF Proceeds, Conflicts, Owed, Decided, SameCount
<1>3. objs[i] \in Object
  BY <1>1
<1>4. objs[i].presence = "Matches"
  BY <1>1, <1>2, <1>3, Decisions
<1>. QED  BY <1>1, <1>4 DEF Present, SameCount

(* What a run still chooses contains everything it owes that blocks.       *)
LEMMA ChosenBlocking ==
  ASSUME NEW objs
  PROVE  BlockingOwed(objs) \subseteq Chosen(objs) /\ Chosen(objs) \subseteq Owed(objs)
BY DEF BlockingOwed, Chosen, PassesOver

(***************************************************************************)
(* Inv holds initially and every step preserves it.                        *)
(***************************************************************************)
LEMMA InitInv == Init => Inv
<1>. SUFFICES ASSUME Init PROVE Inv
  OBVIOUS
<1>1. Blank \in Lists(N)
  BY DEF Blank, Lists, Recorded, Object, Presence
<1>2. TypeOK
  <2>1. RunTypeOK
    <3>1. stop \in [kind : StopKind, state : ReleaseState]
      BY DEF Init, RunInit, Running, StopKind, ReleaseState
    <3>2. attempted \in SUBSET Recorded /\ approved \in BOOLEAN
      BY DEF Init, RunInit
    <3>3. planned \in ReleaseState /\ phase = "observing"
      BY DEF Init, RunInit, ReleaseState
    <3>. QED  BY <3>1, <3>2, <3>3 DEF Init, RunInit, RunTypeOK
  <2>2. shape \in [Recorded -> Shape]
    BY RunSpecAssumption DEF Init
  <2>3. /\ \E n \in Counts \cup {N} : world \in Lists(n)
        /\ times \in [Recorded -> Nat]
        /\ done \in SUBSET Recorded /\ refused \in SUBSET Recorded
        /\ calls \in Nat /\ listed \in Nat
        /\ evidence \in BOOLEAN /\ wavered \in BOOLEAN
    BY <1>1 DEF Init
  <2>. QED  BY <2>1, <2>2, <2>3 DEF TypeOK
<1>3. BudgetInv /\ OnceInv /\ RefusedInv /\ PublicationOrder
  BY NAssumption, ConstantsType
     DEF Init, RunInit, BudgetInv, OnceInv, RefusedInv, PublicationOrder
<1>4. FloorInv /\ NeverReportsLess /\ CompleteInv /\ ReleasedIsComplete /\ ReportAgrees
  BY DEF Init, RunInit, Running, FloorInv, NeverReportsLess, CompleteInv,
         ReleasedIsComplete, ReportAgrees
<1>. QED  BY <1>2, <1>3, <1>4 DEF Inv

(* The outcomes of an observation that stop the run.                       *)
LEMMA StopType ==
  ASSUME TypeOK, NEW objs \in Observations, Observe(objs), phase' = "stopped",
         stop' \in [kind : StopKind, state : ReleaseState],
         budget' \in Nat \cup {Unset}, landed' \in Recorded \cup {NoObject},
         failed' = NoObject, started' \in BOOLEAN,
         UNCHANGED <<approved, attempted, applying, planned>>
  PROVE  TypeOK'
<1>1. \E n \in Counts \cup {N} : objs \in Lists(n)
  BY ObservationType
<1>2. RunTypeOK'
  BY DEF TypeOK, RunTypeOK, Recorded, ReleaseState, StopKind
<1>3. UNCHANGED <<shape, done, times, calls, listed>> /\ world' = objs
      /\ refused' \in SUBSET Recorded /\ evidence' \in BOOLEAN /\ wavered' \in BOOLEAN
  BY DEF Observe, TypeOK
<1>. QED  BY <1>1, <1>2, <1>3 DEF TypeOK

(* What every stop keeps, once its type is known.                          *)
LEMMA StopKeeps ==
  ASSUME Inv, NEW objs \in Observations, Observe(objs), phase' = "stopped",
         UNCHANGED <<approved, attempted>>,
         budget' = budget \/ (budget' = 0 /\ Budget(objs) = 0)
  PROVE  BudgetInv' /\ OnceInv' /\ RefusedInv' /\ PublicationOrder' /\ CompleteInv'
<1>1. UNCHANGED <<shape, done, times, calls, listed>>
  BY DEF Observe
<1>2. budget \in Nat \cup {Unset} /\ calls \in Nat /\ listed \in Nat /\ 0 # Unset
  BY DEF Inv, TypeOK, RunTypeOK, Unset
<1>3. BudgetInv'
  BY <1>1, <1>2 DEF Inv, BudgetInv, Budget
<1>4. OnceInv'
  BY <1>1 DEF Inv, OnceInv
<1>5. RefusedInv'
  BY DEF Inv, RefusedInv, Observe
<1>. QED  BY <1>3, <1>4, <1>5 DEF PublicationOrder, CompleteInv

(* A stop outside of what the run proceeds on reports its own state.       *)
LEMMA StopsWithoutPlan ==
  ASSUME Inv, NEW objs \in Observations, Observe(objs),
         ObservesConflict(objs) \/ AwaitsApproval(objs)
  PROVE  Inv'
<1>1. /\ phase' = "stopped" /\ landed' = NoObject /\ failed' = NoObject
      /\ UNCHANGED <<approved, attempted, budget, applying, planned, started>>
      /\ \/ Conflicts(objs) # {} /\ stop' = [kind |-> "Conflict", state |-> "Conflict"]
         \/ ~approved /\ Conflicts(objs) = {}
            /\ stop' = [kind |-> "Finish", state |-> "AwaitingApproval"]
  BY DEF ObservesConflict, AwaitsApproval, StopIn
<1>2. TypeOK
  BY DEF Inv
<1>3. TypeOK'
  BY <1>1, <1>2, StopType DEF TypeOK, RunTypeOK, StopKind, ReleaseState
<1>4. evidence' = evidence
  <2>1. ~Proceeds(objs)
    BY <1>1 DEF Proceeds
  <2>2. evidence' = (evidence \/ (Proceeds(objs) /\ Present(objs) # {})
                              \/ landed' # NoObject)
    BY DEF Observe
  <2>3. evidence \in BOOLEAN
    BY <1>2 DEF TypeOK
  <2>. QED  BY <1>1, <2>1, <2>2, <2>3
<1>5. /\ UNCHANGED calls
      /\ world' = objs
  BY <1>1 DEF Observe
<1>6. FloorInv'
  BY <1>1, <1>4, <1>5 DEF Inv, FloorInv
<1>7. NeverReportsLess'
  BY <1>1, <1>4, <1>6 DEF Inv, FloorInv, NeverReportsLess
<1>8. ReleasedIsComplete' /\ ReportAgrees'
  BY <1>1, <1>5 DEF ReleasedIsComplete, ReportAgrees, PlanState
<1>. QED  BY <1>1, <1>3, <1>6, <1>7, <1>8, StopKeeps DEF Inv

(* Whatever shows that the release started, the run knows it: a failed     *)
(* effect that landed left an object that the observation shows.           *)
LEMMA KnowsEvidence ==
  ASSUME Inv, NEW objs \in Observations, Observe(objs), Proceeds(objs),
         landed' = NoObject \/ Resolves(objs)
  PROVE  /\ evidence' \in BOOLEAN
         /\ evidence' => KnowsStarted(objs)
<1>1. TypeOK /\ Observing
  BY DEF Inv, Observe, Observed, ObservesConflict, AwaitsApproval, ObservesReshaped,
         StopsAfterFailure, Finishes, Diverges, Chooses, Resolves
<1>2. evidence => KnowsStarted(objs)
  BY <1>1, SeenStates DEF Inv, FloorInv, Observing
<1>3. Present(objs) # {} => KnowsStarted(objs)
  BY <1>1, SeenStates
<1>4. CASE landed' = NoObject
  BY <1>1, <1>2, <1>3, <1>4 DEF Observe, TypeOK
<1>5. CASE Resolves(objs) /\ landed' # NoObject
  <2>1. failed # NoObject /\ failed \notin Owed(objs) /\ SameCount(objs)
    BY <1>5 DEF Resolves, LandsIn
  <2>2. failed \in Recorded /\ shape[failed].wanted
    BY <1>1, <2>1 DEF Inv, RefusedInv, TypeOK, RunTypeOK, Observing
  <2>3. Present(objs) # {}
    BY <1>1, <2>1, <2>2, WantedMatches
  <2>. QED  BY <1>1, <1>3, <2>3 DEF Observe, TypeOK
<1>. QED  BY <1>4, <1>5

(* A stop on an observation that the run proceeds on reports what it saw.  *)
LEMMA StopsWithPlan ==
  ASSUME Inv, NEW objs \in Observations, Observe(objs),
         \/ ObservesReshaped(objs)
         \/ StopsAfterFailure(objs)
         \/ Finishes(objs)
         \/ Diverges(objs)
  PROVE  Inv'
<1>1. PICK kind \in {"Reshaped", "Failed", "Finish", "Diverged"} :
        /\ Proceeds(objs) /\ phase' = "stopped" /\ failed' = NoObject
        /\ UNCHANGED <<approved, attempted, applying, planned>>
        /\ landed' = NoObject \/ Resolves(objs)
        /\ started' = KnowsStarted(objs) \/ Resolves(objs)
        /\ stop' = [kind |-> kind, state |-> SeenState(objs)]
        /\ budget' = budget \/ (budget' = 0 /\ Budget(objs) = 0)
        /\ kind = "Finish" => Chosen(objs) = {}
  BY DEF ObservesReshaped, StopsAfterFailure, Finishes, Diverges, Resolves, StopIn
<1>2. TypeOK /\ approved /\ Conflicts(objs) = {}
  BY <1>1 DEF Inv, Proceeds
<1>3. SeenState(objs) \in {"CandidateReady", "PartiallyReleased", "Released"}
      /\ KnowsStarted(objs) \in BOOLEAN
  BY <1>1, <1>2, SeenStates
<1>4. TypeOK'
  <2>1. stop' \in [kind : StopKind, state : ReleaseState]
    BY <1>1, <1>3 DEF StopKind, ReleaseState
  <2>2. landed' \in Recorded \cup {NoObject} /\ started' \in BOOLEAN
    BY <1>1, <1>2, <1>3 DEF Resolves, LandsIn, TypeOK, RunTypeOK
  <2>3. budget' \in Nat \cup {Unset}
    BY <1>1, <1>2 DEF TypeOK, RunTypeOK
  <2>. QED  BY <1>1, <1>2, <2>1, <2>2, <2>3, StopType
<1>5. approved' /\ world' = objs
  BY <1>1, <1>2 DEF Observe
<1>6. FloorInv'
  BY <1>1, <1>5 DEF FloorInv
<1>7. NeverReportsLess'
  <2>1. evidence' => SeenState(objs) # "CandidateReady"
    BY <1>1, <1>2, KnowsEvidence, SeenStates
  <2>. QED  BY <1>1, <1>3, <2>1 DEF NeverReportsLess
<1>8. ReleasedIsComplete'
  <2>1. PICK n \in Counts \cup {N} : objs \in Lists(n)
    BY <1>2, ObservationType
  <2>2. SeenState(objs) = "Released" => Complete(objs)
    BY <1>1, <1>2, SeenStates DEF Complete
  <2>. QED  BY <1>1, <1>2, <1>5, <2>1, <2>2, CompleteShows DEF ReleasedIsComplete
<1>9. ReportAgrees'
  <2>1. Chosen(objs) = {} => SeenState(objs) = "Released"
    BY <1>1, <1>2, SeenStates, ChosenBlocking
  <2>2. SeenState(objs) = "Released" => SeenState(objs) = PlanState(objs, approved)
    BY <1>1, <1>2, SeenStates
  <2>. QED  BY <1>1, <1>5, <2>1, <2>2 DEF ReportAgrees
<1>. QED  BY <1>1, <1>4, <1>6, <1>7, <1>8, <1>9, StopKeeps DEF Inv

(* The run applies the first effect that it does not pass over.            *)
LEMMA ChoosesKeeps ==
  ASSUME Inv, NEW objs \in Observations, Observe(objs),
         NEW i \in DOMAIN objs, Chooses(objs, i)
  PROVE  Inv'
<1>1. /\ Proceeds(objs) /\ SameCount(objs) /\ Resolves(objs) /\ ~OwesFailure(objs)
      /\ IsFirst(i, Chosen(objs)) /\ Budget(objs) > 0
      /\ budget' = Budget(objs) - 1 /\ attempted' = attempted \cup {i}
      /\ applying' = i /\ planned' = SeenState(objs) /\ phase' = "applying"
      /\ phase = "observing" /\ failed' = NoObject /\ landed' = LandsIn(objs)
      /\ started' = (KnowsStarted(objs) \/ LandsIn(objs) # NoObject)
      /\ UNCHANGED <<approved, stop>>
  BY DEF Chooses, Resolves, Observing
<1>2. TypeOK /\ approved /\ Conflicts(objs) = {} /\ i \in Recorded
  BY <1>1 DEF Inv, Proceeds, SameCount
<1>3. /\ UNCHANGED <<shape, done>> /\ world' = objs
      /\ refused' = refused \cap Owed(objs)
      /\ times' = [times EXCEPT ![i] = @ + 1] /\ calls' = calls + 1
      /\ listed' = IF calls = 0 THEN Cardinality(Owed(objs)) ELSE listed
  BY <1>1 DEF Observe
<1>4. /\ objs \in [Recorded -> Object]
      /\ \A j \in Recorded : /\ objs[j].wanted = shape[j].wanted
                             /\ objs[j].blocking = shape[j].blocking
      /\ \E n \in Counts \cup {N} : objs \in Lists(n)
  BY <1>1, <1>2, ObservationType
<1>5. i \in Owed(objs) /\ ~PassesOver(objs, i) /\ shape[i].wanted
  <2>1. i \in Owed(objs) /\ ~PassesOver(objs, i)
    BY <1>1 DEF IsFirst, Chosen
  <2>2. objs[i] \in Object /\ Decision(objs[i]) = "Create"
    BY <1>2, <1>4, <2>1 DEF Owed, Decided
  <2>. QED  BY <1>2, <1>4, <2>1, <2>2, Decisions
<1>6. Cardinality(Owed(objs)) \in Nat /\ Cardinality(Owed(objs)) <= N
  BY <1>1, OwedBound DEF SameCount
<1>7. SeenState(objs) \in {"CandidateReady", "PartiallyReleased", "Released"}
      /\ KnowsStarted(objs) \in BOOLEAN
  BY <1>1, <1>2, SeenStates
<1>8. evidence' \in BOOLEAN /\ (evidence' => started')
  BY <1>1, KnowsEvidence
<1>9. BudgetInv'
  <2>1. calls \in Nat /\ listed \in Nat /\ budget \in Nat \cup {Unset} /\ N \in Nat
    BY <1>2, NAssumption DEF TypeOK, RunTypeOK
  <2>2. CASE budget = Unset
    BY <1>1, <1>3, <1>6, <2>1, <2>2 DEF Inv, BudgetInv, Budget, Unset
  <2>3. CASE budget # Unset
    <3>1. budget \in Nat /\ calls + budget = listed /\ listed <= N
      BY <2>1, <2>3 DEF Inv, BudgetInv
    <3>2. Budget(objs) = budget
      BY <2>3 DEF Budget
    <3>3. calls # 0
      BY <1>1, <2>3 DEF Inv, BudgetInv
    <3>. QED  BY <1>1, <1>3, <2>1, <3>1, <3>2, <3>3 DEF BudgetInv, Unset
  <2>. QED  BY <2>2, <2>3
<1>10. TypeOK'
  <2>1. RunTypeOK'
    <3>1. attempted' \in SUBSET Recorded /\ applying' \in Recorded /\ failed' = NoObject
      BY <1>1, <1>2 DEF TypeOK, RunTypeOK
    <3>2. budget' \in Nat
      BY <1>1, <1>2, <1>6 DEF Budget, TypeOK, RunTypeOK
    <3>3. landed' \in Recorded \cup {NoObject} /\ started' \in BOOLEAN
      BY <1>1, <1>2, <1>7 DEF LandsIn, TypeOK, RunTypeOK
    <3>4. planned' \in ReleaseState
      BY <1>1, <1>7 DEF ReleaseState
    <3>. QED  BY <1>1, <1>2, <3>1, <3>2, <3>3, <3>4 DEF TypeOK, RunTypeOK
  <2>2. refused' \in SUBSET Recorded /\ times' \in [Recorded -> Nat] /\ calls' \in Nat
    BY <1>2, <1>3 DEF TypeOK
  <2>3. listed' \in Nat
    BY <1>2, <1>3, <1>6 DEF TypeOK
  <2>4. wavered' \in BOOLEAN
    BY <1>2 DEF Observe, TypeOK
  <2>. QED  BY <1>2, <1>3, <1>4, <1>8, <2>1, <2>2, <2>3, <2>4 DEF TypeOK
<1>11. OnceInv'
  <2>. SUFFICES ASSUME NEW j \in Recorded
                PROVE  /\ j \notin attempted' => times'[j] = 0
                       /\ shape[j].blocking \/ times'[j] <= 1
    BY <1>3 DEF OnceInv
  <2>1. CASE j = i
    <3>1. shape[i].blocking \/ i \notin attempted
      BY <1>2, <1>4, <1>5 DEF PassesOver, Blocks
    <3>2. i \notin attempted => times[i] = 0
      BY <1>2 DEF Inv, OnceInv
    <3>. QED  BY <1>1, <1>2, <1>3, <2>1, <3>1, <3>2 DEF TypeOK
  <2>2. CASE j # i
    BY <1>1, <1>2, <1>3, <2>2 DEF Inv, OnceInv, TypeOK
  <2>. QED  BY <2>1, <2>2
<1>12. RefusedInv'
  <2>1. \A j \in refused' : ~shape[j].blocking
    <3>. SUFFICES ASSUME NEW j \in refused, j \in Owed(objs), shape[j].blocking
                  PROVE  FALSE
      BY <1>3
    <3>1. j = failed /\ j \in Recorded
      BY <1>1, <1>2 DEF Inv, RefusedInv, TypeOK
    <3>2. j \in BlockingOwed(objs)
      BY <1>4, <3>1 DEF BlockingOwed, Blocks
    <3>. QED  BY <1>1, <3>1, <3>2 DEF OwesFailure
  <2>2. i \notin refused'
    <3>1. i \in refused => i \in attempted
      BY DEF Inv, RefusedInv
    <3>. QED  BY <1>2, <1>3, <1>4, <1>5, <2>1, <3>1 DEF PassesOver, Blocks
  <2>3. refused' \subseteq attempted'
    BY <1>1, <1>3 DEF Inv, RefusedInv
  <2>. QED  BY <1>1, <1>3, <1>5, <2>1, <2>2, <2>3 DEF RefusedInv
<1>13. PublicationOrder'
  <2>. SUFFICES ASSUME NEW j \in Recorded, j < i, shape[j].wanted, shape[j].blocking
                PROVE  objs[j].presence = "Matches"
    BY <1>1, <1>3 DEF PublicationOrder
  <2>1. j \notin Chosen(objs)
    BY <1>1, <1>2, NAssumption DEF IsFirst, Recorded
  <2>2. j \notin Owed(objs)
    BY <1>4, <2>1 DEF Chosen, PassesOver, Blocks
  <2>. QED  BY <1>1, <1>2, <2>2, WantedMatches
<1>14. FloorInv' /\ NeverReportsLess' /\ ReleasedIsComplete' /\ ReportAgrees'
  <2>1. stop.kind = "None" /\ stop' = stop
    BY <1>1 DEF Inv, FloorInv
  <2>. QED  BY <1>1, <1>2, <1>8, <2>1
            DEF FloorInv, NeverReportsLess, ReleasedIsComplete, ReportAgrees
<1>15. CompleteInv'
  BY <1>1, <1>2, <1>3, SeenStates DEF CompleteInv, Complete
<1>. QED  BY <1>9, <1>10, <1>11, <1>12, <1>13, <1>14, <1>15 DEF Inv

LEMMA ObserveInv ==
  ASSUME Inv, NEW objs \in Observations, Observe(objs)
  PROVE  Inv'
<1>1. CASE ObservesConflict(objs) \/ AwaitsApproval(objs)
  BY <1>1, StopsWithoutPlan
<1>2. CASE \/ ObservesReshaped(objs)
           \/ StopsAfterFailure(objs)
           \/ Finishes(objs)
           \/ Diverges(objs)
  BY <1>2, StopsWithPlan
<1>3. CASE \E i \in DOMAIN objs : Chooses(objs, i)
  BY <1>3, ChoosesKeeps
<1>. QED  BY <1>1, <1>2, <1>3 DEF Observe, Observed

LEMMA ApplyInv ==
  ASSUME Inv, NEW succeeded \in BOOLEAN, Apply(succeeded)
  PROVE  Inv'
<1>1. /\ phase = "applying" /\ phase' = "observing" /\ applying' = NoObject
      /\ started' = (started \/ succeeded)
      /\ failed' = IF succeeded THEN failed ELSE applying
      /\ UNCHANGED <<approved, attempted, budget, landed, planned, stop>>
      /\ done' = IF succeeded THEN done \cup {applying} ELSE done
      /\ refused' = IF succeeded THEN refused \ {applying} ELSE refused \cup {applying}
      /\ evidence' = (evidence \/ succeeded)
      /\ UNCHANGED <<shape, world, times, calls, listed, wavered>>
  BY DEF Apply, Applied
<1>2. TypeOK
  BY DEF Inv
<1>3. applying \in attempted /\ applying \in Recorded /\ shape[applying].wanted
      /\ failed = NoObject /\ approved
  BY <1>1, <1>2 DEF Inv, RefusedInv, FloorInv, TypeOK, RunTypeOK
<1>4. TypeOK'
  <2>1. RunTypeOK'
    BY <1>1, <1>2, <1>3 DEF TypeOK, RunTypeOK
  <2>. QED  BY <1>1, <1>2, <1>3, <2>1 DEF TypeOK
<1>5. BudgetInv' /\ OnceInv'
  BY <1>1 DEF Inv, BudgetInv, OnceInv
<1>6. RefusedInv'
  <2>1. refused' \subseteq attempted'
    BY <1>1, <1>3 DEF Inv, RefusedInv
  <2>2. \A j \in refused' : shape'[j].blocking => j = failed'
    <3>1. \A j \in refused : ~shape[j].blocking
      BY <1>1, <1>2, <1>3, ConstantsType DEF Inv, RefusedInv, TypeOK
    <3>. QED  BY <1>1, <3>1
  <2>3. failed' # NoObject => shape'[failed'].wanted
    BY <1>1, <1>3
  <2>. QED  BY <1>1, <2>1, <2>2, <2>3 DEF RefusedInv
<1>7. FloorInv'
  BY <1>1, <1>2, <1>3 DEF Inv, FloorInv
<1>8. PublicationOrder' /\ CompleteInv'
  BY <1>1 DEF Inv, PublicationOrder, CompleteInv, Complete
<1>9. NeverReportsLess' /\ ReleasedIsComplete' /\ ReportAgrees'
  BY <1>1 DEF Inv, FloorInv, NeverReportsLess, ReleasedIsComplete, ReportAgrees
<1>. QED  BY <1>4, <1>5, <1>6, <1>7, <1>8, <1>9 DEF Inv

LEMMA FailToObserveInv ==
  ASSUME Inv, NEW contradicts \in BOOLEAN, FailToObserve(contradicts)
  PROVE  Inv'
<1>1. /\ phase = "observing" /\ phase' = "stopped"
      /\ stop' = [kind |-> "Unobserved",
                  state |-> IF contradicts THEN "Conflict" ELSE Unobserved]
      /\ UNCHANGED <<approved, attempted, budget, applying, failed, landed,
                     planned, started>>
      /\ UNCHANGED historyVars
  BY DEF FailToObserve, ObservationFails, StopIn, Observing
<1>2. TypeOK
  BY DEF Inv
<1>3. Unobserved \in ReleaseState
  BY <1>2 DEF Unobserved, Vouched, TypeOK, RunTypeOK, ReleaseState
<1>4. TypeOK'
  <2>1. stop' \in [kind : StopKind, state : ReleaseState]
    BY <1>1, <1>3 DEF StopKind, ReleaseState
  <2>2. RunTypeOK'
    BY <1>1, <1>2, <2>1 DEF TypeOK, RunTypeOK
  <2>. QED  BY <1>1, <1>2, <2>2 DEF TypeOK, historyVars
<1>5. BudgetInv' /\ OnceInv' /\ RefusedInv' /\ PublicationOrder'
  BY <1>1 DEF Inv, BudgetInv, OnceInv, RefusedInv, PublicationOrder, historyVars
<1>6. FloorInv' /\ CompleteInv' /\ ReportAgrees'
  BY <1>1 DEF Inv, FloorInv, CompleteInv, ReportAgrees, historyVars
<1>7. NeverReportsLess'
  <2>1. evidence => started
    BY <1>1 DEF Inv, FloorInv
  <2>2. started => Unobserved \in {"PartiallyReleased", "Released", "Conflict"}
    BY DEF Unobserved, Vouched
  <2>. QED  BY <1>1, <2>1, <2>2 DEF NeverReportsLess, historyVars
<1>8. ReleasedIsComplete'
  <2>1. Unobserved = "Released" => planned = "Released"
    BY DEF Unobserved, Vouched
  <2>2. PICK n \in Counts \cup {N} : world \in Lists(n)
    BY <1>2 DEF TypeOK
  <2>3. planned = "Released" => approved /\ Complete(world)
    BY <1>1 DEF Inv, CompleteInv
  <2>. QED  BY <1>1, <2>1, <2>2, <2>3, CompleteShows DEF ReleasedIsComplete, historyVars
<1>. QED  BY <1>4, <1>5, <1>6, <1>7, <1>8 DEF Inv

LEMMA StutterInv == Inv /\ UNCHANGED vars => Inv'
<1>. SUFFICES ASSUME Inv, UNCHANGED vars PROVE Inv'
  OBVIOUS
<1>1. UNCHANGED <<approved, attempted, budget, applying, failed, landed, planned,
                  started, phase, stop, shape, world, done, refused, times, calls,
                  listed, evidence, wavered>>
  BY DEF vars, runVars, historyVars
<1>2. TypeOK' /\ BudgetInv' /\ OnceInv' /\ RefusedInv'
  BY <1>1 DEF Inv, TypeOK, RunTypeOK, BudgetInv, OnceInv, RefusedInv
<1>3. PublicationOrder' /\ FloorInv' /\ NeverReportsLess' /\ CompleteInv'
  BY <1>1 DEF Inv, PublicationOrder, FloorInv, NeverReportsLess, CompleteInv, Complete
<1>4. ReleasedIsComplete' /\ ReportAgrees'
  BY <1>1 DEF Inv, ReleasedIsComplete, ReportAgrees
<1>. QED  BY <1>2, <1>3, <1>4 DEF Inv

(* The invariant that carries every promise below.                         *)
THEOREM Invariance == Spec => []Inv
<1>1. Inv /\ [Next]_vars => Inv'
  BY ObserveInv, ApplyInv, FailToObserveInv, StutterInv DEF Next
<1>. QED  BY InitInv, <1>1, PTL DEF Spec

(***************************************************************************)
(* The promises.                                                           *)
(***************************************************************************)

(* Every variable of a run keeps its type.                                 *)
THEOREM TypeCorrect == Spec => []TypeOK
<1>1. Inv => TypeOK
  BY DEF Inv
<1>. QED  BY Invariance, <1>1, PTL

(* A run of a release of N objects makes at most as many calls as its      *)
(* first plan listed effects, and so at most N, whatever the world shows.  *)
THEOREM CallsAreBounded == Spec => []WithinFirstPlan
<1>1. Inv => WithinFirstPlan
  <2>. SUFFICES ASSUME Inv PROVE WithinFirstPlan
    OBVIOUS
  <2>1. calls \in Nat /\ listed \in Nat /\ budget \in Nat \cup {Unset}
    BY DEF Inv, TypeOK, RunTypeOK
  <2>. QED  BY <2>1 DEF Inv, BudgetInv, WithinFirstPlan
<1>. QED  BY Invariance, <1>1, PTL

(* The effect of an optional object is attempted at most once.             *)
THEOREM OptionalAttemptedOnce == Spec => []OptionalOnce
<1>1. Inv => OptionalOnce
  BY DEF Inv, OnceInv, OptionalOnce
<1>. QED  BY Invariance, <1>1, PTL

(* No failed call is repeated while observations still list its effect.    *)
THEOREM NoBlindRepeat == Spec => []NeverRepeatedBlindly
<1>1. Inv => NeverRepeatedBlindly
  BY DEF Inv, RefusedInv, NeverRepeatedBlindly
<1>. QED  BY Invariance, <1>1, PTL

(* Effects follow publication order.                                       *)
THEOREM EffectsInOrder == Spec => []PublicationOrder
<1>1. Inv => PublicationOrder
  BY DEF Inv
<1>. QED  BY Invariance, <1>1, PTL

(* A run that has evidence of a started release never reports less.        *)
THEOREM ReportsFloor == Spec => []NeverReportsLess
<1>1. Inv => NeverReportsLess
  BY DEF Inv
<1>. QED  BY Invariance, <1>1, PTL

(* Released is reported only of a complete, approved release.              *)
THEOREM ReleasedOnlyComplete == Spec => []ReleasedIsComplete
<1>1. Inv => ReleasedIsComplete
  BY DEF Inv
<1>. QED  BY Invariance, <1>1, PTL

(* The state in the report of a finished run is the state it finished in.  *)
THEOREM ReportsAgree == Spec => []ReportAgrees
<1>1. Inv => ReportAgrees
  BY DEF Inv
<1>. QED  BY Invariance, <1>1, PTL

(* A run without approval applies nothing.                                 *)
THEOREM ApprovalRequired == Spec => []UnapprovedApplyNothing
<1>1. Inv => UnapprovedApplyNothing
  BY DEF Inv, FloorInv, UnapprovedApplyNothing
<1>. QED  BY Invariance, <1>1, PTL
(* A run's calls are sound, in every world.                                *)
THEOREM SoundCalls == Spec => []CallsAreSound
<1>1. WithinFirstPlan /\ OptionalOnce /\ NeverRepeatedBlindly /\ PublicationOrder
        /\ UnapprovedApplyNothing => CallsAreSound
  BY DEF CallsAreSound
<1>. QED
  BY <1>1, CallsAreBounded, OptionalAttemptedOnce, NoBlindRepeat, EffectsInOrder,
     ApprovalRequired, PTL

(* A run's reports are true, in every world.                               *)
THEOREM TrueReports == Spec => []ReportsAreTrue
<1>1. NeverReportsLess /\ ReleasedIsComplete /\ ReportAgrees => ReportsAreTrue
  BY DEF ReportsAreTrue
<1>. QED  BY <1>1, ReportsFloor, ReleasedOnlyComplete, ReportsAgree, PTL
(***************************************************************************)
(* The lifecycle.                                                          *)
(***************************************************************************)

(* What an observation of as many objects as the release has shows.        *)
ShowsRelease(objs) ==
  /\ objs \in [Recorded -> Object]
  /\ \A i \in Recorded : /\ objs[i].wanted = shape[i].wanted
                         /\ objs[i].blocking = shape[i].blocking

(* A run plans only what it may publish, and knows that the release        *)
(* started once it planned from a started one.  A run that chose an effect *)
(* has seen its own objects.                                               *)
PlanInv ==
  /\ planned \in {"Blocked", "CandidateReady", "PartiallyReleased", "Released"}
  /\ planned # "Blocked" => approved
  /\ planned = "PartiallyReleased" => started
  /\ calls # 0 => planned # "Blocked"
  /\ planned # "Blocked" /\ phase # "stopped" => ShowsRelease(world)

(***************************************************************************)
(* Prompt worlds.                                                          *)
(***************************************************************************)

(* A blocking effect that was attempted is under way, has just failed, or  *)
(* was seen or reported to be there.                                       *)
Settled(i) ==
  \/ i \in done
  \/ phase = "observing" /\ i = failed
  \/ phase = "applying" /\ i = applying
  \/ world[i].presence = "Matches"

(* While nothing wavered, every call of the run was for another object, and *)
(* the first plan lists whatever the run called for or still owes.          *)
PromptInv ==
  ~wavered =>
    /\ \A i \in Recorded : times[i] <= 1
    /\ stop.kind # "Diverged"
    /\ phase # "stopped" =>
         /\ Cardinality(attempted) = calls
         /\ calls # 0 =>
              Cardinality(attempted \cup Owed(world)) <= listed
         /\ \A i \in attempted : shape[i].blocking => Settled(i)

LEMMA Advances ==
  /\ CanAdvanceTo("CandidateReady", "PartiallyReleased")
  /\ CanAdvanceTo("CandidateReady", "Released")
  /\ CanAdvanceTo("PartiallyReleased", "Released")
  /\ \A s : CanAdvanceTo(s, s)
<1>1. DOMAIN LIFECYCLE = 1..6
  BY DEF LIFECYCLE
<1>2. /\ \A k \in Position("CandidateReady") : k = 3
      /\ \A k \in Position("PartiallyReleased") : k = 5
      /\ \A k \in Position("Released") : k = 6
  BY <1>1 DEF Position, LIFECYCLE
<1>. QED  BY <1>2 DEF CanAdvanceTo, IsTerminal

(* What an observation that takes nothing back still owes was owed before, *)
(* and what matched before it still matches.                               *)
LEMMA NothingTakenBack ==
  ASSUME TypeOK, NEW objs \in Observations, SameCount(objs), TakesNothingBack(objs),
         ShowsRelease(world)
  PROVE  /\ Owed(objs) \subseteq Owed(world)
         /\ \A i \in Recorded :
              world[i].presence = "Matches" => objs[i].presence = "Matches"
<1>1. \A i \in Recorded : objs[i] \in Object /\ world[i] \in Object
                          /\ objs[i].wanted = world[i].wanted
  BY ObservationType DEF ShowsRelease
<1>2. \A i \in Recorded : Grows(world[i].presence, objs[i].presence)
  BY DEF TakesNothingBack
<1>3. \A i \in Recorded :
        world[i].presence = "Matches" => objs[i].presence = "Matches"
  BY <1>2 DEF Grows
<1>4. ASSUME NEW i \in Owed(objs)
      PROVE  i \in Owed(world)
  <2>1. i \in Recorded /\ Decision(objs[i]) = "Create"
    BY <1>4 DEF Owed, Decided, SameCount
  <2>2. objs[i].wanted /\ objs[i].presence \in {"Absent", "Pending"}
    BY <1>1, <2>1, Decisions
  <2>3. world[i].presence \in {"Absent", "Pending"}
    BY <1>1, <1>2, <2>1, <2>2 DEF Grows, Object, Presence
  <2>4. Decision(world[i]) = "Create"
    BY <1>1, <2>1, <2>2, <2>3 DEF Decision
  <2>. QED  BY <2>1, <2>4 DEF Owed, Decided, ShowsRelease
<1>. QED  BY <1>3, <1>4

(* The newest observation, when it neither wavers nor was wavered before.  *)
LEMMA Prompt ==
  ASSUME TypeOK, NEW objs, Observe(objs), ~wavered'
  PROVE  /\ ~wavered /\ TakesNothingBack(objs)
         /\ \A i \in done : objs[i].presence = "Matches"
BY DEF Observe, TypeOK

(* In a prompt world a run chooses no object that it already called for.   *)
LEMMA FreshChoice ==
  ASSUME Inv, PlanInv, PromptInv, NEW objs \in Observations, Observe(objs), Resolves(objs),
         ~wavered', NEW i \in Chosen(objs)
  PROVE  i \notin attempted
<1>1. SUFFICES ASSUME i \in attempted
               PROVE  FALSE
  OBVIOUS
<1>2. /\ TypeOK /\ phase = "observing" /\ SameCount(objs) /\ ~OwesFailure(objs)
      /\ i \in Owed(objs) /\ objs[i].blocking /\ i \in Recorded
  <2>1. TypeOK /\ phase = "observing" /\ SameCount(objs) /\ ~OwesFailure(objs)
    BY DEF Inv, Resolves, Observing
  <2>2. i \in Owed(objs) /\ objs[i].blocking
    BY <1>1 DEF Chosen, PassesOver, Blocks
  <2>3. i \in Recorded
    BY <2>1, <2>2 DEF SameCount, Owed, Decided
  <2>. QED  BY <2>1, <2>2, <2>3
<1>3. objs[i] \in Object /\ shape[i].blocking /\ Decision(objs[i]) = "Create"
  BY <1>2, ObservationType DEF Owed, Decided
<1>4. objs[i].presence # "Matches"
  BY <1>3, Decisions
<1>5. ~wavered /\ TakesNothingBack(objs) /\ i \notin done
  BY <1>2, <1>4, Prompt
<1>6. world[i].presence # "Matches"
  BY <1>2, <1>4, <1>5 DEF TakesNothingBack, Grows
<1>7. i # failed
  BY <1>2 DEF OwesFailure, BlockingOwed, Blocks
<1>8. Settled(i)
  BY <1>1, <1>2, <1>3, <1>5 DEF PromptInv
<1>. QED  BY <1>2, <1>5, <1>6, <1>7, <1>8 DEF Settled

(* The first plan lists one call more than the run made, as long as the    *)
(* run still chooses an effect.                                            *)
LEMMA RoomLeft ==
  ASSUME Inv, PlanInv, PromptInv, NEW objs \in Observations, Observe(objs), Resolves(objs),
         ~wavered', NEW i \in Chosen(objs), calls # 0
  PROVE  /\ calls < listed
         /\ Cardinality(attempted \cup {i}) = calls + 1
         /\ Cardinality((attempted \cup {i}) \cup Owed(objs)) <= listed
<1>1. /\ TypeOK /\ phase # "stopped" /\ ~wavered /\ TakesNothingBack(objs)
      /\ SameCount(objs) /\ i \in Owed(objs) /\ i \notin attempted
  BY Prompt, FreshChoice DEF Inv, Resolves, Observing, Chosen
<1>2. /\ Cardinality(attempted) = calls /\ ShowsRelease(world)
      /\ Cardinality(attempted \cup Owed(world)) <= listed
  BY <1>1 DEF PromptInv, PlanInv
<1>3. Owed(objs) \subseteq Owed(world)
  BY <1>1, <1>2, NothingTakenBack
<1>4. IsFiniteSet(1..N) /\ attempted \subseteq 1..N /\ Owed(world) \subseteq 1..N
  <2>1. IsFiniteSet(1..N) /\ attempted \subseteq 1..N
    BY <1>1, FS_Interval, NAssumption DEF TypeOK, RunTypeOK, Recorded
  <2>2. DOMAIN world = 1..N
    BY <1>2 DEF ShowsRelease, Recorded
  <2>3. Owed(world) \subseteq 1..N
    BY <2>2 DEF Owed, Decided
  <2>. QED  BY <2>1, <2>3
<1>5. IsFiniteSet(attempted) /\ IsFiniteSet(attempted \cup Owed(world))
  BY <1>4, FS_Subset
<1>6. (attempted \cup {i}) \cup Owed(objs) \subseteq attempted \cup Owed(world)
  BY <1>1, <1>3
<1>7. attempted \cup {i} \subseteq attempted \cup Owed(world)
  BY <1>1, <1>3
<1>8. Cardinality(attempted \cup {i}) = calls + 1
  BY <1>1, <1>2, <1>5, FS_AddElement
<1>9. /\ Cardinality(attempted \cup {i}) <= Cardinality(attempted \cup Owed(world))
      /\ Cardinality((attempted \cup {i}) \cup Owed(objs))
           <= Cardinality(attempted \cup Owed(world))
  BY <1>5, <1>6, <1>7, FS_Subset
<1>10. calls \in Nat /\ listed \in Nat
  BY <1>1 DEF TypeOK
<1>11. /\ Cardinality(attempted \cup Owed(world)) \in Nat
       /\ Cardinality((attempted \cup {i}) \cup Owed(objs)) \in Nat
  BY <1>5, <1>6, FS_Subset, FS_CardinalityType
<1>. QED  BY <1>2, <1>8, <1>9, <1>10, <1>11

(* The states that a run plans from and stops in follow the lifecycle.     *)
LEMMA SeenAdvances ==
  ASSUME Inv, PlanInv, NEW objs \in Observations, Proceeds(objs), SameCount(objs),
         phase = "observing", planned # "Blocked", TakesNothingBack(objs)
  PROVE  CanAdvanceTo(planned, SeenState(objs))
<1>1. TypeOK /\ approved
  BY DEF Inv, PlanInv
<1>2. SeenState(objs) \in {"CandidateReady", "PartiallyReleased", "Released"}
      /\ (KnowsStarted(objs) => SeenState(objs) # "CandidateReady")
      /\ (started => KnowsStarted(objs))
  BY <1>1, SeenStates
<1>3. CASE planned = "CandidateReady"
  BY <1>2, <1>3, Advances
<1>4. CASE planned = "PartiallyReleased"
  BY <1>2, <1>4, Advances DEF PlanInv
<1>5. CASE planned = "Released"
  <2>1. Complete(world) /\ ShowsRelease(world)
    BY <1>5 DEF Inv, CompleteInv, PlanInv
  <2>2. Owed(objs) \subseteq Owed(world)
    BY <1>1, <2>1, NothingTakenBack
  <2>3. ASSUME NEW i \in BlockingOwed(objs)
        PROVE  FALSE
    <3>1. i \in Owed(world) /\ i \in Recorded /\ objs[i].blocking
      BY <2>2, <2>3 DEF BlockingOwed, Blocks, Owed, Decided, SameCount
    <3>2. world[i].blocking
      BY <1>1, <2>1, <3>1, ObservationType DEF ShowsRelease
    <3>. QED  BY <2>1, <3>1, <3>2 DEF Complete, BlockingOwed, Blocks
  <2>4. SeenState(objs) = "Released"
    BY <1>1, <2>3, SeenStates
  <2>. QED  BY <1>5, <2>4, Advances
<1>. QED  BY <1>3, <1>4, <1>5 DEF PlanInv

LEMMA InitPromises == Init => PlanInv /\ PromptInv
<1>. SUFFICES ASSUME Init
              PROVE  PlanInv /\ PromptInv
  OBVIOUS
<1>1. /\ planned = "Blocked" /\ attempted = {} /\ calls = 0
      /\ stop.kind = "None" /\ times = [i \in Recorded |-> 0]
  BY DEF Init, RunInit, Running
<1>2. PlanInv
  BY <1>1 DEF PlanInv
<1>3. PromptInv
  BY <1>1, FS_EmptySet DEF PromptInv
<1>. QED  BY <1>2, <1>3

(* A choice plans what it sees, and adds a call for a new object.          *)
LEMMA ChoosesPromises ==
  ASSUME Inv, PlanInv, PromptInv, NEW objs \in Observations, Observe(objs),
         NEW i \in DOMAIN objs, Chooses(objs, i)
  PROVE  PlanInv' /\ PromptInv'
<1>1. /\ Proceeds(objs) /\ SameCount(objs) /\ Resolves(objs) /\ ~OwesFailure(objs)
      /\ i \in Chosen(objs) /\ Budget(objs) > 0
      /\ attempted' = attempted \cup {i}
      /\ applying' = i /\ planned' = SeenState(objs) /\ phase' = "applying"
      /\ phase = "observing"
      /\ started' = (KnowsStarted(objs) \/ LandsIn(objs) # NoObject)
      /\ UNCHANGED <<approved, stop>>
  BY DEF Chooses, Resolves, Observing, IsFirst
<1>2. TypeOK /\ approved /\ i \in Recorded /\ i \in Owed(objs)
  BY <1>1 DEF Inv, Proceeds, SameCount, Chosen
<1>3. /\ UNCHANGED <<shape, done>> /\ world' = objs
      /\ times' = [times EXCEPT ![i] = @ + 1] /\ calls' = calls + 1
      /\ listed' = IF calls = 0 THEN Cardinality(Owed(objs)) ELSE listed
  BY <1>1 DEF Observe
<1>4. ShowsRelease(objs)
  BY <1>1, <1>2, ObservationType DEF ShowsRelease
<1>5. PlanInv'
  <2>1. /\ planned' \in {"CandidateReady", "PartiallyReleased", "Released"}
        /\ planned' = "PartiallyReleased" => KnowsStarted(objs)
    BY <1>1, <1>2, SeenStates DEF SeenState, Vouched, KnowsStarted
  <2>2. ShowsRelease(world)'
    BY <1>3, <1>4 DEF ShowsRelease
  <2>. QED  BY <1>1, <1>2, <2>1, <2>2 DEF PlanInv
<1>6. ASSUME ~wavered'
      PROVE  /\ \A j \in Recorded : times'[j] <= 1
             /\ stop'.kind # "Diverged"
             /\ Cardinality(attempted') = calls'
             /\ Cardinality(attempted' \cup Owed(world')) <= listed'
             /\ \A j \in attempted' : shape'[j].blocking => Settled(j)'
  <2>1. ~wavered /\ TakesNothingBack(objs) /\ i \notin attempted
    BY <1>1, <1>2, <1>6, Prompt, FreshChoice
  <2>2. times[i] = 0 /\ times \in [Recorded -> Nat] /\ \A j \in Recorded : times[j] <= 1
    BY <1>2, <2>1 DEF Inv, OnceInv, TypeOK, PromptInv
  <2>3. \A j \in Recorded : times'[j] <= 1
    BY <1>2, <1>3, <2>2
  <2>4. /\ Cardinality(attempted') = calls'
        /\ Cardinality(attempted' \cup Owed(world')) <= listed'
    <3>1. CASE calls # 0
      BY <1>1, <1>3, <1>6, <3>1, RoomLeft
    <3>2. CASE calls = 0
      <4>1. IsFiniteSet(1..N) /\ attempted \subseteq 1..N
        BY <1>2, FS_Interval, NAssumption DEF TypeOK, RunTypeOK, Recorded
      <4>2. IsFiniteSet(attempted)
        BY <4>1, FS_Subset
      <4>3. attempted = {}
        BY <1>1, <2>1, <3>2, <4>2, FS_EmptySet DEF PromptInv
      <4>4. attempted' = {i} /\ {i} \cup Owed(objs) = Owed(objs)
        BY <1>1, <1>2, <4>3
      <4>5. Cardinality({i}) = 1
        BY FS_Singleton
      <4>6. Cardinality(Owed(objs)) \in Nat
        BY <1>1, OwedBound DEF SameCount
      <4>7. Cardinality(attempted') = calls'
        BY <1>3, <3>2, <4>4, <4>5
      <4>8. attempted' \cup Owed(world') = Owed(objs) /\ listed' = Cardinality(Owed(objs))
        BY <1>3, <3>2, <4>4
      <4>9. Cardinality(attempted' \cup Owed(world')) = listed'
        BY <4>8, Zenon
      <4>. QED  BY <4>6, <4>7, <4>8, <4>9
    <3>. QED  BY <3>1, <3>2
  <2>5. ASSUME NEW j \in attempted', shape[j].blocking
        PROVE  Settled(j)'
    <3>1. CASE j = i
      BY <1>1, <3>1 DEF Settled
    <3>2. CASE j # i
      <4>1. j \in attempted /\ j \in Recorded /\ Settled(j)
        BY <1>1, <1>2, <2>1, <2>5, <3>2 DEF PromptInv, TypeOK, RunTypeOK
      <4>2. CASE j \in done
        BY <1>3, <4>2 DEF Settled
      <4>3. CASE j = failed
        <5>1. shape[j].wanted /\ objs[j].blocking
          BY <1>1, <1>2, <2>5, <4>1, <4>3, <1>4, ConstantsType DEF Inv, RefusedInv, ShowsRelease
        <5>2. j \notin Owed(objs)
          BY <1>1, <4>3, <5>1 DEF OwesFailure, BlockingOwed, Blocks
        <5>3. objs[j].presence = "Matches"
          BY <1>1, <1>2, <4>1, <5>1, <5>2, WantedMatches
        <5>. QED  BY <1>3, <5>3 DEF Settled
      <4>4. CASE world[j].presence = "Matches"
        <5>1. objs[j].presence = "Matches"
          BY <2>1, <4>1, <4>4 DEF TakesNothingBack, Grows
        <5>. QED  BY <1>3, <5>1 DEF Settled
      <4>. QED  BY <1>1, <4>1, <4>2, <4>3, <4>4 DEF Settled
    <3>. QED  BY <3>1, <3>2
  <2>6. stop'.kind # "Diverged"
    BY <1>1, <2>1 DEF PromptInv
  <2>. QED  BY <1>3, <2>3, <2>4, <2>5, <2>6
<1>. QED  BY <1>1, <1>5, <1>6 DEF PromptInv

(* In a prompt world no run diverges: the first plan still has room.       *)
LEMMA NeverDiverges ==
  ASSUME Inv, PlanInv, PromptInv, NEW objs \in Observations, Observe(objs),
         Diverges(objs), ~wavered'
  PROVE  FALSE
<1>1. TypeOK /\ Resolves(objs) /\ SameCount(objs) /\ phase = "observing"
  BY DEF Inv, Diverges, Resolves, Observing
<1>2. PICK i \in Chosen(objs) : TRUE
  BY DEF Diverges
<1>3. IsFiniteSet(Owed(objs)) /\ Owed(objs) # {}
  BY <1>1, <1>2, OwedBound DEF SameCount, Chosen
<1>4. Cardinality(Owed(objs)) # 0
  BY <1>3, FS_EmptySet
<1>5. budget # Unset /\ budget = 0
  BY <1>4 DEF Diverges, Budget
<1>6. calls + 0 = listed /\ calls # 0
  BY <1>1, <1>5 DEF Inv, BudgetInv
<1>7. calls \in Nat /\ calls < listed
  BY <1>1, <1>2, <1>6, RoomLeft DEF TypeOK
<1>. QED  BY <1>6, <1>7

(* A stop plans nothing more.                                              *)
LEMMA StopsPromises ==
  ASSUME Inv, PlanInv, PromptInv, NEW objs \in Observations, Observe(objs),
         \/ ObservesConflict(objs)
         \/ AwaitsApproval(objs)
         \/ ObservesReshaped(objs)
         \/ StopsAfterFailure(objs)
         \/ Finishes(objs)
         \/ Diverges(objs)
  PROVE  PlanInv' /\ PromptInv'
<1>1. /\ phase' = "stopped" /\ UNCHANGED <<approved, planned>>
      /\ started' = started \/ started' = KnowsStarted(objs) \/ Resolves(objs)
      /\ stop'.kind = "Diverged" => Diverges(objs)
  BY DEF ObservesConflict, AwaitsApproval, ObservesReshaped, StopsAfterFailure, Finishes,
         Diverges, Resolves, StopIn
<1>2. UNCHANGED <<shape, times, calls>> /\ TypeOK
  BY <1>1 DEF Observe, Inv
<1>3. started => started'
  <2>1. Resolves(objs) => started' = (KnowsStarted(objs) \/ LandsIn(objs) # NoObject)
    BY DEF Resolves
  <2>. QED  BY <1>1, <2>1 DEF KnowsStarted
<1>4. PlanInv'
  BY <1>1, <1>2, <1>3 DEF PlanInv
<1>5. ~wavered' => ~wavered /\ stop'.kind # "Diverged"
  BY <1>1, <1>2, Prompt, NeverDiverges
<1>6. PromptInv'
  BY <1>1, <1>2, <1>5 DEF PromptInv
<1>. QED  BY <1>4, <1>6

LEMMA ApplyPromises ==
  ASSUME Inv, PlanInv, PromptInv, NEW succeeded \in BOOLEAN, Apply(succeeded)
  PROVE  PlanInv' /\ PromptInv'
<1>1. /\ phase = "applying" /\ phase' = "observing"
      /\ started' = (started \/ succeeded)
      /\ failed' = IF succeeded THEN failed ELSE applying
      /\ UNCHANGED <<approved, attempted, budget, planned, stop>>
      /\ done' = IF succeeded THEN done \cup {applying} ELSE done
      /\ UNCHANGED <<shape, world, times, calls, listed, wavered>>
  BY DEF Apply, Applied
<1>2. PlanInv'
  BY <1>1 DEF PlanInv, ShowsRelease
<1>3. ASSUME ~wavered, NEW i \in attempted, shape[i].blocking
      PROVE  Settled(i)'
  <2>1. Settled(i)
    BY <1>1, <1>3 DEF PromptInv
  <2>. QED  BY <1>1, <2>1 DEF Settled
<1>4. PromptInv'
  BY <1>1, <1>3 DEF PromptInv
<1>. QED  BY <1>2, <1>4

LEMMA StepPromises == Inv /\ PlanInv /\ PromptInv /\ [Next]_vars => PlanInv' /\ PromptInv'
<1>. SUFFICES ASSUME Inv, PlanInv, PromptInv, [Next]_vars
              PROVE  PlanInv' /\ PromptInv'
  OBVIOUS
<1>1. ASSUME NEW objs \in Observations, Observe(objs)
      PROVE  PlanInv' /\ PromptInv'
  <2>1. CASE \E i \in DOMAIN objs : Chooses(objs, i)
    BY <1>1, <2>1, ChoosesPromises
  <2>2. CASE ~ \E i \in DOMAIN objs : Chooses(objs, i)
    BY <1>1, <2>2, StopsPromises DEF Observe, Observed
  <2>. QED  BY <2>1, <2>2
<1>2. ASSUME NEW contradicts \in BOOLEAN, FailToObserve(contradicts)
      PROVE  PlanInv' /\ PromptInv'
  <2>1. /\ phase' = "stopped" /\ stop'.kind = "Unobserved"
        /\ UNCHANGED <<approved, planned, started>> /\ UNCHANGED historyVars
    BY <1>2 DEF FailToObserve, ObservationFails, StopIn
  <2>2. PlanInv'
    BY <2>1 DEF PlanInv, historyVars
  <2>3. PromptInv'
    BY <2>1 DEF PromptInv, historyVars
  <2>. QED  BY <2>2, <2>3
<1>3. CASE UNCHANGED vars
  <2>1. PlanInv'
    BY <1>3 DEF vars, runVars, historyVars, PlanInv, ShowsRelease
  <2>2. PromptInv'
    BY <1>3 DEF vars, runVars, historyVars, PromptInv, Settled
  <2>. QED  BY <2>1, <2>2
<1>. QED  BY <1>1, <1>2, <1>3, ApplyPromises DEF Next

THEOREM Promises == Spec => [](Inv /\ PlanInv /\ PromptInv)
<1>1. Inv /\ [Next]_vars => Inv'
  BY ObserveInv, ApplyInv, FailToObserveInv, StutterInv DEF Next
<1>. QED  BY InitInv, InitPromises, <1>1, StepPromises, PTL DEF Spec

(* In a world that shows what a call did and takes nothing back, no effect *)
(* is applied twice and no run diverges, however many objects a release    *)
(* has and however it mixes them (Run::observed).                          *)
THEOREM PromptConvergence == Spec => []PromptRunsConverge
<1>1. PromptInv => PromptRunsConverge
  BY DEF PromptInv, PromptRunsConverge
<1>. QED  BY Promises, <1>1, PTL

(* Every state that a run plans from or stops in follows the one before it *)
(* in the lifecycle, in every world (Run::vouched,                         *)
(* ReleaseState::can_advance_to).                                          *)
THEOREM LifecycleInOrder == Spec => LifecycleOrder
<1> DEFINE Ordered ==
      planned # "Blocked" /\ TakesNothingBack(world') =>
         /\ CanAdvanceTo(planned, planned')
         /\ stop' # stop /\ stop'.state # "Conflict" => CanAdvanceTo(planned, stop'.state)
<1>1. ASSUME Inv, PlanInv, [Next]_vars
      PROVE  [Ordered]_vars
  <2>. SUFFICES ASSUME planned # "Blocked", TakesNothingBack(world'), Next
                PROVE  /\ CanAdvanceTo(planned, planned')
                       /\ stop' # stop /\ stop'.state # "Conflict"
                            => CanAdvanceTo(planned, stop'.state)
    BY <1>1
  <2>1. ASSUME NEW objs \in Observations, Observe(objs)
        PROVE  /\ CanAdvanceTo(planned, planned')
               /\ stop' # stop /\ stop'.state # "Conflict" => CanAdvanceTo(planned, stop'.state)
    <3>1. TakesNothingBack(objs) /\ SameCount(objs) /\ phase = "observing" /\ approved
      <4>1. TakesNothingBack(objs) /\ SameCount(objs)
        BY <2>1 DEF Observe, TakesNothingBack, SameCount
      <4>2. phase = "observing"
        BY <2>1 DEF Observe, Observed, ObservesConflict, AwaitsApproval, ObservesReshaped,
           StopsAfterFailure, Finishes, Diverges, Chooses, Resolves, Observing
      <4>3. approved
        BY <1>1 DEF PlanInv
      <4>. QED  BY <4>1, <4>2, <4>3
    <3>2. \/ planned' = planned /\ stop'.state = "Conflict"
          \/ Proceeds(objs) /\ planned' = planned /\ stop'.state = SeenState(objs)
          \/ Proceeds(objs) /\ planned' = SeenState(objs) /\ stop' = stop
      <4>1. CASE ObservesConflict(objs) \/ AwaitsApproval(objs)
        BY <3>1, <4>1 DEF ObservesConflict, AwaitsApproval, StopIn
      <4>2. CASE \/ ObservesReshaped(objs)
                 \/ StopsAfterFailure(objs)
                 \/ Finishes(objs)
                 \/ Diverges(objs)
        BY <4>2 DEF ObservesReshaped, StopsAfterFailure, Finishes, Diverges, Resolves, StopIn
      <4>3. CASE \E i \in DOMAIN objs : Chooses(objs, i)
        BY <4>3 DEF Chooses, Resolves
      <4>. QED  BY <2>1, <4>1, <4>2, <4>3 DEF Observe, Observed
    <3>. QED  BY <1>1, <3>1, <3>2, SeenAdvances, Advances
  <2>2. ASSUME NEW succeeded \in BOOLEAN, Apply(succeeded)
        PROVE  planned' = planned /\ stop' = stop
    BY <2>2 DEF Apply, Applied
  <2>3. ASSUME NEW contradicts \in BOOLEAN, FailToObserve(contradicts)
        PROVE  /\ planned' = planned
               /\ stop'.state # "Conflict" => CanAdvanceTo(planned, stop'.state)
    <3>1. planned' = planned /\ (stop'.state # "Conflict" => stop'.state = Unobserved)
      BY <2>3 DEF FailToObserve, ObservationFails, StopIn
    <3>2. CanAdvanceTo(planned, Unobserved)
      BY <1>1, Advances DEF PlanInv, Unobserved, Vouched
    <3>. QED  BY <3>1, <3>2
  <2>. QED  BY <2>1, <2>2, <2>3, Advances DEF Next
<1>2. Spec => [](Inv /\ PlanInv)
  BY Promises, PTL
<1>3. Inv /\ PlanInv /\ [Next]_vars => [Ordered]_vars
  BY <1>1
<1>4. Spec => [][Ordered]_vars
  <2> HIDE DEF Ordered
  <2>. QED  BY <1>2, <1>3, PTL DEF Spec
<1>. QED  BY <1>4 DEF LifecycleOrder

=============================================================================

----------------------------- MODULE Promotions -----------------------------
(***************************************************************************)
(* How a Candidate becomes a publication: the runs of the generated         *)
(* workflow (workflow.rs) at GitHub, the Candidates that their prepare jobs *)
(* seal, and the approval that approval.rs, forge.rs and the core gather    *)
(* before the first effect.                                                 *)
(*                                                                         *)
(* A run is a push to the default branch, or a dispatch that prepares a     *)
(* Candidate or promotes an earlier one.  Its jobs go one after another; a  *)
(* job may be killed at any point, a completed run may be started again, an *)
(* artifact expires, and the intent of a Release PR may be bound while runs *)
(* are under way.  One version of one package is released.  What a          *)
(* publication does object by object is LiveRelease's; here it is the tag,  *)
(* the package and the finished GitHub Release, in that order.              *)
(***************************************************************************)
EXTENDS Tokens, Sequences

CONSTANTS
  Commits,       \* commits whose manifest states the version
  Merges,        \* those that a merge of the Release PR made
  Content,       \* Content[c]: what a Candidate of commit c holds for a reviewer
  Environment,   \* Environment[c]: the approval environment that c's policy names
  ManualRefs,    \* ManualRefs[c]: the refs that c's policy lets promote
  Heads,         \* <<ref, commit>>: where the refs are when an event names them
  Main,          \* the default branch
  Builds,        \* what two builds of one commit may differ in
  Skews,         \* how far a runner's clock may be from GitHub's
  Now, Delays,   \* the time of a release, and how long a token request may take
  Lifetime,      \* how long a token lasts
  Starts,        \* the events that may start a run
  MaxRuns, MaxUploads,
  MaxAttempts,   \* how often one run may be started
  MaxRestarted,  \* how many runs may start again
  MaxExpired     \* how many artifacts may expire

Nothing  == "nothing"
Contents == {Content[c] : c \in Commits}

(* What a PR records is told from no intent, and a commit from none.  An    *)
(* event names a commit that exists.                                        *)
ASSUME PromotionsAssumption ==
  /\ Nothing \notin Commits /\ Contents \cap {Nothing, "unbound"} = {}
  /\ \A head \in Heads : head[2] \in Commits
  /\ {MaxRuns, MaxUploads} \subseteq Nat /\ MaxAttempts \in Nat \ {0}

VARIABLES
  runs,      \* the workflow runs at GitHub; an index is a run's id
  uploads,   \* the sealed Candidates; an index is an artifact's id and its digests
  pr,        \* pr[c]: the intent that the merged Release PR of c records
  world,     \* what is published of the version
  effects,   \* history: which run published what of which Candidate
  passed     \* history: the runs that ever completed with success

vars == <<runs, uploads, pr, world, effects, passed>>

RunIds    == DOMAIN runs
Artifacts == DOMAIN uploads
Known(a)  == a \in Artifacts

(***************************************************************************)
(* Where a run is: the job it is in, or how it completed.  The publish job  *)
(* has a place for each thing it asks GitHub before the first effect.       *)
(***************************************************************************)
Preparing  == {"plan", "authorize", "validate", "gate"}
Publishing == {"download", "token", "artifact", "run", "review", "publish"}
Successes  == {"skipped", "prepared", "published"}
Failures   == {"stopped", "refused", "conflict"}
Completed(r) == runs[r].at \in Successes \cup Failures

(* The four values of a promotion's evidence, its source and its reason.    *)
Evidence(a) ==
  [source |-> uploads[a].commit, reason |-> TRUE, run |-> uploads[a].run,
   digest |-> a, artifact |-> a, zip |-> a]

(* What a person may type: the evidence of one prepare run, with at most    *)
(* one value mistaken for another run's.                                    *)
Typed(a, b) ==
  {Evidence(a), [Evidence(a) EXCEPT !.reason = FALSE]}
    \cup {[Evidence(a) EXCEPT ![field] = Evidence(b)[field]] :
            field \in {"source", "run", "digest", "artifact", "zip"}}

NoInput ==
  [source |-> Nothing, reason |-> FALSE, run |-> 0, digest |-> 0, artifact |-> 0, zip |-> 0]

(* What the publish job passes to release: inputs, or its own prepare's.    *)
Request(r) ==
  IF runs[r].event = "promote" THEN runs[r].input
  ELSE [NoInput EXCEPT !.run = r, !.digest = runs[r].made,
                       !.artifact = runs[r].made, !.zip = runs[r].made]
Candidate(r) == uploads[Request(r).artifact]

TypeOK ==
  /\ Len(runs) <= MaxRuns /\ Len(uploads) <= MaxUploads
  /\ \A r \in RunIds :
       /\ runs[r].event \in {"push", "prepare", "promote"}
       /\ runs[r].commit \in Commits
       /\ runs[r].at \in Preparing \cup Publishing \cup Successes \cup Failures
       /\ runs[r].made \in Artifacts \cup {0}
       /\ runs[r].attempt \in 1 .. MaxAttempts
  /\ \A a \in Artifacts : uploads[a] \in
       [run : RunIds, commit : Commits, build : Builds, expired : BOOLEAN]
  /\ pr \in [Commits -> {Nothing, "unbound"} \cup Contents]
  /\ world \in [tag : Commits \cup {Nothing}, package : (Contents \X Builds) \cup {<<>>},
                release : Artifacts \cup {0}]
  /\ passed \subseteq RunIds

Unpublished == [tag |-> Nothing, package |-> <<>>, release |-> 0]

Init ==
  /\ runs = << >> /\ uploads = << >>
  /\ pr = [commit \in Commits |-> IF commit \in Merges THEN "unbound" ELSE Nothing]
  /\ world = Unpublished
  /\ effects = {} /\ passed = {}

(* The run r goes to a place; a run that succeeds there is remembered.  A   *)
(* completed run needs no clock any more.                                   *)
Goes(r, place) ==
  /\ runs' = [runs EXCEPT ![r].at = place,
                          ![r].job = IF place \in Preparing THEN place ELSE @,
                          ![r].skew = IF place \in Publishing THEN @ ELSE 0]
  /\ passed' = IF place \in Successes THEN passed \cup {r} ELSE passed
Leaves(r, from, place) == runs[r].at = from /\ Goes(r, place)

-----------------------------------------------------------------------------
(* Events: pushes, dispatches and what else happens at GitHub.              *)

FirstJob(event) == IF event = "promote" THEN "validate" ELSE "plan"

Event(event, head, input) ==
  /\ Len(runs) < MaxRuns
  /\ runs' = Append(runs,
       [event |-> event, ref |-> head[1], commit |-> head[2], input |-> input, skew |-> 0,
        at |-> FirstJob(event), job |-> FirstJob(event), made |-> 0, attempt |-> 1])
  /\ UNCHANGED <<uploads, pr, world, effects, passed>>

Pushed == "push" \in Starts /\ \E head \in Heads :
  /\ head[1] = Main
  /\ \A r \in RunIds : ~(runs[r].event = "push" /\ runs[r].commit = head[2])
  /\ Event("push", head, NoInput)

(* A prepare dispatch names the commit of its own run, or its first step    *)
(* stops it.                                                                *)
PrepareDispatched == "prepare" \in Starts /\ \E head \in Heads : Event("prepare", head, NoInput)

PromoteDispatched == "promote" \in Starts /\ \E head \in Heads :
  \E a, b \in Artifacts : \E input \in Typed(a, b) : Event("promote", head, input)

(* All jobs of a completed run start again, or the one that failed does.    *)
(* A publish job that starts again waits for its environment again, so the  *)
(* job of a run is the one before that gate, or the gate.                   *)
StartsAgain(r) ==
  /\ Completed(r) /\ runs[r].attempt < MaxAttempts
  /\ Cardinality({q \in RunIds \ {r} : runs[q].attempt > 1}) < MaxRestarted
  /\ \E job \in {FirstJob(runs[r].event)} \cup
                (IF runs[r].at \in Failures THEN {runs[r].job} ELSE {}) :
       runs' = [runs EXCEPT ![r].attempt = @ + 1, ![r].at = job, ![r].job = job]
  /\ UNCHANGED <<uploads, pr, world, effects, passed>>

(* A job is killed, times out, or a request of its fails.                   *)
Stops(r) == ~Completed(r) /\ Goes(r, "stopped") /\ UNCHANGED <<uploads, pr, world, effects>>

Expires(a) ==
  /\ ~uploads[a].expired
  /\ Cardinality({b \in Artifacts : uploads[b].expired}) < MaxExpired
  /\ uploads' = [uploads EXCEPT ![a].expired = TRUE]
  /\ UNCHANGED <<runs, pr, world, effects, passed>>

(* The bind job of the push before the merge records what it rehearsed, the *)
(* merge's own content or an earlier one's, and it may do so late.          *)
Binds(c) == \E content \in Contents :
  /\ pr[c] = "unbound"
  /\ pr' = [pr EXCEPT ![c] = content]
  /\ UNCHANGED <<runs, uploads, world, effects, passed>>

-----------------------------------------------------------------------------
(* The jobs before publish.                                                 *)

(* A push that requires no release stops at its plan.                       *)
Skips(r) ==
  /\ runs[r].event = "push" /\ Leaves(r, "plan", "skipped")
  /\ UNCHANGED <<uploads, pr, world, effects>>

(* The upload is named for the run, whatever the attempt.                   *)
Prepares(r) == \E build \in Builds :
  LET place == IF runs[r].event = "push" THEN "authorize" ELSE "prepared"
  IN /\ runs[r].at = "plan" /\ Len(uploads) < MaxUploads
     /\ uploads' = Append(uploads,
          [run |-> r, commit |-> runs[r].commit, build |-> build, expired |-> FALSE])
     /\ runs' = [runs EXCEPT ![r].made = Len(uploads) + 1, ![r].at = place, ![r].job = place]
     /\ passed' = IF place = "prepared" THEN passed \cup {r} ELSE passed
     /\ UNCHANGED <<pr, world, effects>>

(* release-pr --candidate --dry-run: awaiting_approval, or blocked.         *)
Reviewed(commit) == pr[commit] = Content[commit]

Authorizes(r) ==
  /\ \/ Reviewed(runs[r].commit) /\ Leaves(r, "authorize", "gate")
     \/ ~Reviewed(runs[r].commit) /\ Leaves(r, "authorize", "skipped")
  /\ UNCHANGED <<uploads, pr, world, effects>>

Validates(r) ==
  LET valid == runs[r].input.source = runs[r].commit /\ runs[r].input.reason
  IN /\ Leaves(r, "validate", IF valid THEN "gate" ELSE "refused")
     /\ UNCHANGED <<uploads, pr, world, effects>>

(* The environment's reviewers let the job start, or not; the concurrency   *)
(* group holds it while another run publishes.                              *)
Alone(r) == \A q \in RunIds \ {r} : runs[q].at \notin Publishing

Enters(r) ==
  /\ runs[r].at = "gate"
  /\ \/ Goes(r, "refused")
     \/ \E skew \in Skews :
          /\ Alone(r)
          /\ runs' = [runs EXCEPT ![r].at = "download", ![r].skew = skew]
          /\ UNCHANGED passed
  /\ UNCHANGED <<uploads, pr, world, effects>>

-----------------------------------------------------------------------------
(* The publish job: download, verify and bind to the checkout; then the     *)
(* approval, request by request.                                            *)

Checks(r, place, holds, next) ==
  /\ Leaves(r, place, IF holds THEN next ELSE "refused")
  /\ UNCHANGED <<uploads, pr, world, effects>>

Downloads(r) ==
  Checks(r, "download",
         /\ Candidate(r).run = Request(r).run /\ ~Candidate(r).expired
         /\ Candidate(r).commit = runs[r].commit,
         "token")

Hosts == [runner |-> "zone", discovery |-> "issuer", keys |-> "issuer"]
Keys  == {[kid |-> "current", type |-> "RSA", algorithm |-> "RS256", use |-> "sig"],
          [kid |-> "next", type |-> "RSA", algorithm |-> NotSet, use |-> NotSet]}

EventName(r) == IF runs[r].event = "push" THEN "push" ELSE "workflow_dispatch"

(* The token that GitHub mints for the publish job of a run.                *)
Token(r, delay) ==
  LET ref    == [kind |-> "branch", name |-> runs[r].ref, wellFormed |-> TRUE]
      issued == Now + delay
  IN [header |-> [alg |-> "RS256", kid |-> "current", critical |-> FALSE],
      signer |-> "current",
      claims |-> [issuer |-> "github", audience |-> {"release-glz"}, repository |-> "this",
                  environment |-> "release", subject |-> <<"this", "release">>, ref |-> ref,
                  workflow |-> <<"this", "release-glz.yml", ref>>, sha |-> runs[r].commit,
                  run |-> r, attempt |-> runs[r].attempt, event |-> EventName(r)],
      window |-> [issued |-> issued, notBefore |-> {issued}, expires |-> issued + Lifetime]]

(* Which run may have made the Candidate: this one, or one that completed.  *)
CandidateRun(event, own) ==
  CASE event = "push" /\ own -> "current"
    [] event = "workflow_dispatch" /\ ~own -> "completed"
    [] OTHER -> "none"

Source(r) == CandidateRun(EventName(r), Request(r).run = r)

(* The clock is read before the token is asked for.                         *)
VerifiesToken(r) == \E delay \in Delays :
  Checks(r, "token",
         /\ Accepted(Token(r, delay), Hosts, Keys,
                     Expectation("this", Environment[Candidate(r).commit],
                                 Candidate(r).commit, r),
                     Now + runs[r].skew)
         /\ Source(r) # "none",
         "artifact")

ArtifactMatches(r) ==
  LET artifact == uploads[Request(r).artifact]
  IN /\ ~artifact.expired
     /\ artifact.run = Request(r).run
     /\ Request(r).zip = Request(r).artifact
     /\ runs[artifact.run].commit = Candidate(r).commit

VerifiesArtifact(r) == Checks(r, "artifact", ArtifactMatches(r), "run")

AdmitsAnyEnd(source, run) == (source = "current") # Completed(run)
Admits(source, run) ==
  IF source = "current" THEN ~Completed(run) ELSE runs[run].at \in Successes

VerifiesRun(r) ==
  Checks(r, "run",
         /\ runs[Request(r).run].commit = Candidate(r).commit
         /\ Admits(Source(r), Request(r).run),
         "review")

(* What the approval rests on, and whether it approves.                     *)
Approval(r) ==
  LET commit == Candidate(r).commit
  IN [candidate |-> Request(r).digest = Request(r).artifact,
      intent    |-> EventName(r) = "workflow_dispatch" \/ Reviewed(commit),
      identity  |-> [environment |-> Environment[commit] = "release",
                     source      |-> runs[r].commit = commit,
                     trigger     |-> EventName(r),
                     manualRef   |-> runs[r].ref \in ManualRefs[commit]],
      manualSource |-> Request(r).source = commit,
      manualReason |-> Request(r).reason]

Approves(approval) ==
  /\ approval.candidate
  /\ approval.identity.environment /\ approval.identity.source
  /\ approval.intent
  /\ approval.identity.trigger = "workflow_dispatch" =>
       approval.manualSource /\ approval.manualReason /\ approval.identity.manualRef

(* A push also needs its merged Release PR, which the same read returns.    *)
Approved(r) ==
  /\ EventName(r) = "push" => pr[Candidate(r).commit] # Nothing
  /\ Approves(Approval(r))

VerifiesReview(r) == Checks(r, "review", Approved(r), "publish")

-----------------------------------------------------------------------------
(* The release itself: matching objects stay, different ones are a          *)
(* conflict before any effect, and the first missing one is created.        *)

Wanted(a) ==
  [tag |-> uploads[a].commit, package |-> <<Content[uploads[a].commit], uploads[a].build>>,
   release |-> a]

Missing(object) == world[object] = Unpublished[object]
DiffersInOthers(a, object) == object # "package" /\ ~Missing(object) /\ world[object] # Wanted(a)[object]
Differs(a, object) == ~Missing(object) /\ world[object] # Wanted(a)[object]
Objects == <<"tag", "package", "release">>
Conflicts(a) == \E i \in 1 .. 3 : Differs(a, Objects[i])
Creates(a, i) ==
  /\ Missing(Objects[i]) /\ \A j \in 1 .. i - 1 : ~Missing(Objects[j])
  /\ world' = [world EXCEPT ![Objects[i]] = Wanted(a)[Objects[i]]]

Publishes(r) == \E i \in 1 .. 3 :
  LET a == Request(r).artifact
  IN /\ runs[r].at = "publish" /\ ~Conflicts(a)
     /\ Creates(a, i)
     /\ effects' = effects \cup {[run |-> r, artifact |-> a, object |-> Objects[i]]}
     /\ UNCHANGED <<runs, uploads, pr, passed>>

Ends(r) ==
  LET a == Request(r).artifact
  IN /\ runs[r].at = "publish"
     /\ \/ Conflicts(a) /\ Leaves(r, "publish", "conflict")
        \/ /\ ~Conflicts(a) /\ \A i \in 1 .. 3 : ~Missing(Objects[i])
           /\ Leaves(r, "publish", "published")
     /\ UNCHANGED <<uploads, pr, world, effects>>

PublishJob(r) ==
  \/ Downloads(r) \/ VerifiesToken(r) \/ VerifiesArtifact(r) \/ VerifiesRun(r)
  \/ VerifiesReview(r) \/ Publishes(r) \/ Ends(r)

Next ==
  \/ Pushed \/ PrepareDispatched \/ PromoteDispatched
  \/ \E c \in Commits : Binds(c)
  \/ \E a \in Artifacts : Expires(a)
  \/ \E r \in RunIds : Skips(r) \/ Prepares(r) \/ Authorizes(r) \/ Validates(r) \/ Enters(r)
                       \/ StartsAgain(r) \/ Stops(r) \/ PublishJob(r)

Spec     == Init /\ [][Next]_vars
FairSpec == Spec /\ \A r \in 1 .. MaxRuns : WF_vars(r \in RunIds /\ PublishJob(r))

-----------------------------------------------------------------------------
(* Whatever is published of a Candidate was approved as that Candidate.  A *)
(* push publishes only what its own run sealed of its own commit, with the *)
(* intent that the merged Release PR recorded.  A promotion publishes only *)
(* what another run sealed that had completed with success, of the commit  *)
(* and with the digest that a person named, with a reason, from a ref that *)
(* the commit's own policy allows.  So no restart of a run, late binding   *)
(* or mistyped evidence lets another Candidate through.                    *)
PublishedAsApproved ==
  \A effect \in effects :
    LET run == runs[effect.run]  sealed == uploads[effect.artifact]
    IN /\ sealed.commit = run.commit /\ Environment[sealed.commit] = "release"
       /\ run.event = "push" => sealed.run = effect.run /\ Reviewed(run.commit)
       /\ run.event # "push" =>
            /\ sealed.run # effect.run /\ sealed.run \in passed
            /\ run.input.source = sealed.commit /\ run.input.reason
            /\ run.input.digest = effect.artifact
            /\ run.ref \in ManualRefs[sealed.commit]

(* A finished release is one Candidate: its evidence, its package and its  *)
(* tag agree, although several runs may each have published a part of it   *)
(* from Candidates of different builds and commits.                        *)
OneCandidate ==
  world.release # 0 =>
    /\ world.tag = uploads[world.release].commit
    /\ world.package = Wanted(world.release).package

(* A publish job with true evidence and a runner's clock that is right is  *)
(* not refused: it publishes, unless it is killed, finds another release   *)
(* in place, or its artifact expires or its source run starts again first. *)
(* The clock is read before the token is requested, so the skew has to     *)
(* outlast that request.                                                   *)
ClockIsRight(skew) == skew < Lifetime /\ \A delay \in Delays : delay <= skew + Skew
TrueInput(r) ==
  runs[r].event = "promote" =>
    /\ runs[r].input = Evidence(runs[r].input.artifact)
    /\ runs[r].ref \in ManualRefs[runs[r].commit]
Deserving(r) ==
  /\ r \in RunIds /\ runs[r].at = "download"
  /\ TrueInput(r) /\ ClockIsRight(runs[r].skew)
  /\ Environment[runs[r].commit] = "release"
Excused(r) ==
  /\ r \in RunIds
  /\ \/ runs[r].at \in {"published", "stopped", "conflict"}
     \/ /\ Known(Request(r).artifact)
        /\ \/ Candidate(r).expired
           \/ Candidate(r).run # r /\ runs[Candidate(r).run].at \notin Successes
DeservingRunsPublish ==
  \A r \in 1 .. MaxRuns : Deserving(r) ~> Excused(r)
=============================================================================

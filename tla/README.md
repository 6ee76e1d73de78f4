# TLA+ models of release-glz

release-glz prepares and publishes releases of Gleam packages.  A scheduled job keeps a
rolling release PR, a merged PR is rehearsed into a sealed Candidate, an approved
Candidate is published to Hex and GitHub, and a publication that stopped half way is
rerun with the same Candidate until it is complete.

These modules model what is hard to get right there, and what a test hardly reaches:
what happens when a call fails, is lost or succeeds late, when a job is killed, when the
registry lags, when hooks, servers and child processes misbehave, and when somebody else
acts on the same release, manifest or workflow.  TLC checks them on small instances.
TLAPS proves every safety property of the passing runs for every value of the constants:
of the decision core; the live publication with lost answers, killed jobs and rivals, and
that it implements the abstract publication; the planning of versions and the changelog;
the release PR; the generated workflow up to what it publishes; a Candidate from its
commit through hooks, seal and store to the published bytes; the reads of both clients;
redaction; the reading of archives; setup; and the Action.  What the runs check under
fairness stays with TLC.
`PROJECT.json` lists the runs, the properties, the mutants that each property rejects,
the source lines behind each definition, the hazards and the findings.

## Inventory

Core files are under `crates/release-glz-core/src/`, the others under `src/`.

| Component | Source | State | Operations | What makes it correct | Model |
|---|---|---|---|---|---|
| Publication decisions | core `publication.rs`, `lifecycle.rs` | none | decide each object, reconcile a plan, order states | an existing object is never replaced; released means nothing blocking is owed | `Publication` |
| Release run | core `run.rs` | attempts, budget, failure, floor of the report | `observed`, `applied`, `unobserved`, `landed` | publication order, no blind repeat, bounded calls, honest report | `ReleaseRun`, `RunSpec`, `RunProofs` |
| Executor and live target | `release.rs`, `reconciler.rs`, `failure.rs` | Candidate, newest observation | observe (five reads), apply (up to three requests), exit status | success is true of the world, nothing is taken back, reruns complete it | `LiveRelease`, `LiveRefinement`, `LiveProofs` |
| World | used through `registry.rs`, `forge.rs`, `hooks.rs` | registry, tags, Releases, deliveries, requests in flight | take, refuse or lose a request; others act | external | `World` |
| Registry and GitHub clients | `registry.rs`, `forge.rs`, core `wait.rs` | attempt, round, page, origin | redirect, retry, wait, poll, audit, page | the credential stays with its origin, effort is bounded, results are what was shown | `Waits`, `Reads`, `ReadProofs` |
| Release PR | `forge.rs`, `main.rs`, `handoff.rs` | branch, PR, its managed body | upsert, bind, close, read the merge | a merge authorizes only what was rehearsed; work of people stays; one PR; the PR catches up with the tip | `ReleasePr`, `ReleasePrProofs`, `ReleasePrClaims` |
| Approval | `authorization.rs`, `approval.rs`, core `approval.rs`, `oidc.rs`, `candidate_choice.rs` | none | check token, artifact, run, review | only the approved intent and Candidate publish; who deserves to publish does | `Tokens`, `Promotions`, `PromotionProofs` |
| Workflow | `workflow.rs` | runs, attempts, artifacts | plan, prepare, authorize, gate, publish | runs of one version never mix their Candidates | `Promotions`, `PromotionProofs` |
| Candidate | `candidate.rs`, `sidecar.rs` | a directory | seal, verify, bind, read | a sealed Candidate verifies; what is published is what was approved | `Candidates`, `Rehearsals`, `RehearsalProofs` |
| Package archive | `artifact.rs`, core `archive_path.rs` | paths claimed so far | read entry by entry, unpack | an accepted archive unpacks to what it declares | `Archives`, `ReadProofs` |
| Rehearsal and hooks | `rehearse.rs`, `hooks.rs`, `process.rs` | a snapshot, a hook process | run, time out, kill, build | what is sealed was reviewed; a rehearsal ends | `Rehearsals`, `RehearsalProofs` |
| Version selection | `version.rs`, core `selection.rs`, `version.rs`, `precedence.rs`, `commit.rs` | none | compare, increment, select | versions move forward, whatever was published by hand | `Versions`, `Planning`, `PlanningProofs` |
| Planner | `planner.rs`, `git.rs` | baseline cache | find the baseline, require, select | nothing unreleased is missed; a release settles | `Planning`, `PlanningProofs` |
| Public interface | `api.rs` | none | compare two interfaces | a compatible version builds | `Interfaces`, `Planning`, `PlanningProofs` |
| Changelog | `changelog.rs`, `planner.rs` | the changelog file, notes | render, merge notes, publish | every change is told, once it is released | `Changelogs`, `PlanningProofs` |
| Configuration | `config.rs` | the manifest's table | read, refuse, render, edit | what is rendered reads back | `Configuration` |
| Setup | `migrate.rs`, `workflow.rs`, `doctor.rs`, `main.rs` | manifest, workflow, its record, backup, notes | init, migrate, set-version, prerelease, doctor | words of people survive; advice settles | `Setup`, `AdoptionProofs` |
| Action | `action/index.js`, `action.yml` | downloads, a child process, outputs | acquire, verify, unpack, run | only the named archive runs; it comes to a result; its outputs are true | `Installer`, `AdoptionProofs` |
| Redaction | core `redaction.rs`, `secrets.rs` | none | decide each byte | every secret goes, nothing else does | `Redaction`, `ReadProofs` |
| Markers, key order, diff | core `marker.rs`, `key_order.rs`, `diff.rs` | none | scan text | a replaced block reads back | not modelled |
| Parsers, encodings | `gleam.rs`, core `framing.rs`, `hex.rs`, `canonical.rs` | none | parse, render | pure functions of text | not modelled |
| Verification and build tooling | `xtask/`, `fuzz/`, `scripts/`, other crates | none | | not part of the program | not modelled |

The parts interact by calls, with one sequential loop per process.  Concurrency comes
from outside: several workflow jobs, GitHub, the registry, servers, child processes,
people, and requests whose answer was lost.  All shared state is remote, or a file that
people edit too.  The loop of a release run is: observe the world, let `Run` decide,
apply one effect, observe again.

## The modules

### Publication

`Publication` has the pure decisions.  An object is `[wanted, presence, blocking]`, and
`Decision`, `PlanState` and `CanAdvanceTo` are the functions of the source.

`ReleaseRun` has the state of `Run` as variables and one action for each way a call of
`Run` ends: `ObservesConflict`, `AwaitsApproval`, `ObservesReshaped`,
`StopsAfterFailure`, `Finishes`, `Diverges` and `Chooses` are the outcomes of
`Run::observed`, and `Applied` is `Run::applied`.  Their parameter is the observation.
The slice of attempts is a set, `Option` values have a value of their own (`Unset`,
`NoObject`), and indices start at 1.

`RunSpec` closes these actions with an arbitrary environment: every observation may show
every presence, whatever the one before showed, every call may fail, and so may every
observation.  An observation may also hold another number of objects (`Counts`).
History variables record what the properties speak of, also whether the world ever took
an object back or hid one that was published (`wavered`), since runs converge only in a
world that doesn't.

`World` is everything outside the repository, modelled from how the adapters use it.
`LiveRelease` composes it with `ReleaseRun`, `INSTANCE`d with the objects of the
Candidate.  `at` is the read or request that comes next.  An observation reads the
package, docs, tag, Release and hooks one after the other, and the world may move in
between; so may it between the reads and the requests of an effect.  A request succeeds
(`WriteSucceeds`), is refused (`WriteIsRefused`), fails (`WriteFails`), or loses its
answer and stays in flight (`WriteIsLost`), and an upload may break off. `Rerun` starts
the command again after it stopped, `KilledAndRerun` after a killed job.  Both keep
nothing but the world.

`OrderedRelease` is what publication promises to an outside observer: stages are
published in order, none is taken back, and success is claimed only of a complete
release.  `LiveRefinement` maps `LiveRelease` to it; a stage counts as published when
the world really holds it, as the Candidate describes it.

`Waits` has the waits of the core and `Reads` the reads of both clients, request by
request: a redirect is followed on its origin or off it, a busy or lost answer repeats
the request after `BusyWait` or `TransportWait`, a wait for visibility polls
(`PollsAgain`), an audit asks twice, and `Listed` reads a list page by page while
`Edited` changes it.  `LiveRelease` takes a read as one step that is right or fails;
this is where it is checked when that holds.  `Redaction` is the pass of the core over
the bytes of a text: `TriesSecret` extends the reach of the occurrences, and
`DecidesByte` decides a byte and adds it to the segments.

`Archives` is `read_tar_files` on the two levels of a Hex package, or on the one level of
`git archive`, and the writing of what it read.  `ReadsExtension`, `SkipsDirectory` and
`ClaimsFile` take an entry, `RefusesEntry` and `RefusesArchive` end the reading, and
`WritesFile` writes to a directory that stores names as `Stored` folds them.  A path is a
sequence of names; a header that states a path wrongly states the empty one.

### Before a publication

`ReleasePr` is the way to an approved Candidate before that: the release-pr job
(`write_rolling_release_pr`, `upsert_release_pr`, `close_managed_release_pr`), the bind
job (`bind_release_pr_intent`) and the read of the merge (`merged_release_pr`).  The two
jobs run in concurrency groups of their own, so `writer` and `binder` hold one job each
with what it has read, and each request is an action.  `WriterReadsTip`,
`WriterChecksMerge`, `WriterLists` and `WriterReadsBranch` are the reads up to the
choice, `WriterRepairs`, `WriterResets`, `WriterDiscards`, `WriterCreatesBranch`,
`WriterCommits` and `WriterDescribes` the writes that a chosen way makes one after the
other, and `WriterFinds` and `WriterDeletes` close a PR that is not needed any more.
`BinderReadsAgain` is the second read that the bind job makes before `BinderWrites`.
Between any two requests people push to the default branch or the release branch, edit,
close or merge the PR, and a job may be killed.  A commit is its parent, its content and
whether it has the shape that the job generates; the content is what the plan depends on
(`pushes`), the release files as one value (`files`) and what people added to the branch
(`extra`), which may be part of the package that is built or not.  The field `approved`
of a PR is history: the intent in its marker when it merged.

`Tokens` is what the authorization accepts of an OIDC token, and `Promotions` the life
of the runs of the generated workflow: `Pushed`, `PrepareDispatched` and
`PromoteDispatched` are its events, `Prepares`, `Authorizes`, `Validates` and `Enters`
its jobs up to the reviewers, and `Downloads`, `VerifiesToken`, `VerifiesArtifact`,
`VerifiesRun`, `VerifiesReview` and `Publishes` the publish job, one request at a time.
Between them `Stops` kills a job, `StartsAgain` restarts a completed run, `Expires`
takes an artifact and `Binds` records an intent late.  One version is released, the plan
of a push may require nothing, and a publication is reduced to tag, package and Release:
`LiveRelease` has it object by object.

`Candidates` is what a manifest states, which of it each digest covers, and what `seal`,
`verify` and the check of the committed policy ask of it.  `Rehearsals` is a Candidate's
way from a commit to the published bytes: hooks of every outcome, with processes they
leave behind (`straggler`) and their writes to the snapshot, the build, the seal with its
rename, kills, a store that alters the directory, and the release command, which
verifies, binds, verifies again and reads.

`Versions` is the arithmetic of versions and `Interfaces` the comparison of public
interfaces.  `Planning` composes them over the life of a package: people push commits,
edit the version or the train in the manifest, lose tags and publish by hand, a rewritten
history leaves the cache behind, and each command plans (`plan'`), after which a plan to
release may be published.

`Changelogs` is the changelog over that life, with what the planner and the release-pr
command feed it.  `Lands` is a push, `ProposesRelease` renders the section of the next
version, `Merges` takes it to the default branch, and `Publishes` publishes a commit's
section, possibly late.  A version is a number and the lines of a section are a set.

### Setup and the Action

`Configuration` is the table of the manifest: what is read, refused, filled in and
rendered, for both schemas.  `Setup` is the commands that write, each write an action of
its own, with the reads before it, while `EditsManifest`, `EditsWorkflow` and
`AddsBullet` edit the same files and `CommandKilled` ends a command anywhere; `Advises`
is doctor, and `FollowsAdvice` does what it says, in its order.

`Installer` is the Action: inputs, the downloads with their redirects, deadlines and
limits, checksums, provenance, the inventory of the archive block by block, the child
with its pipes, its timeout and its grace, signals of the job, and the outputs.  An
Action is at `end` once `run` returned, and `dead` when a signal or an uncaught exception
took its process, so that no `finally` ran.  `leftover` says that the response of a
redirect or of a failed download is still read, by a process that waits for nothing else.

### Conventions

`LiveClaims` and `ReleasePrClaims` state what documents and messages say and the code
does not do; `TrainsCountUp` in `Planning` is a third such claim.  The `MC` modules hold
the constants of the runs; where one checks two components that share no state
(`MCPlanning`, `MCReads`, `MCAdoption`), it takes one at a time.

An operator right before another one that has the same parameters and a name that says
what is wrong with it (`Unfloored`, `TrustsFailure`, `ClobbersAsset`) is a mutant: no
specification uses it, and a property of some run is violated when it replaces the
definition after it.

### Assumptions about the outside

* The registry accepts one publication of a version, and docs only for a package it
  holds. It may show both late, the docs not before the package.
* GitHub refuses a tag or an asset name that exists, and accepts a second draft for a
  tag. Its reads are consistent with each other.
* A request whose answer was lost takes effect once, later, or never.
* A delete names an asset by its id, so it never hits a later asset of the same name.
* A broken upload stays unfinished; it doesn't complete on its own.
* Only a person publishes a draft by hand or adds an asset to it, each at most once.
* A branch moves by compare and swap (`update_ref` in `forge.rs` uses GitHub's).
* GitHub closes a PR whose branch is deleted, may close one whose branch has no commit
  of its own (both ways are modelled), and keeps the head of a PR from its merge on.
* People edit the text of a PR but forge no marker, and don't reopen a PR or delete its
  branch. Merges have no conflict.
* A request of the release-pr and bind jobs takes effect or the job dies before it: no
  such request takes effect after its job ended.
* The intent digest names the package that is built and the release files, and not the
  commit (`intent_digest` in `candidate.rs`).  Digests are injective.
* A token is minted with the clock of GitHub, the runner's may differ, and nobody forges
  a signature.  A publish job of one version runs alone, as its concurrency group says.
* A hook can write to the snapshot while it, or what holds its pipes, runs.  The
  snapshot of one that closed its pipes and lives on is an exception that
  `SealedWasReviewed` names.
* A rename is atomic, a write of a new file is not.
* A file system overwrites a file that it stores under the same name as another, and
  refuses a file in the place of a directory or below a file.
* Git merges the release PR only while the release files of the default branch are those
  that it was rendered from, and every push asks for a release (`Changelogs`).

## The runs

| Run | Instance | What it shows |
|---|---|---|
| `run` | all releases of three objects, the first needed | what one run calls and reports is sound in every world, its states follow the lifecycle, it converges in a world that shows what it did, and it stops |
| `live` | an asset, docs, an optional and a required hook, with and without approval, 2 faults, 6 kinds of rivals | success is true, nothing held is taken back, nothing is applied twice, and the abstract publication is implemented |
| `live_eventually` | the same with the required hook alone and no rival | reruns complete the release |
| `optional_only_diagnoses` | the two hooks alone | a finding |
| `release_pr` | 3 plans, 2 alike and 1 without a release, 2 PRs, 1 act of a person at the PR, a merge, 1 killed job | safety of the release PR, and that it catches up with the tip |
| `blames_only_people` | the instance of the release PR | a finding |
| `reads` | 2 redirects, 3 polls, 3 pages of 2 entries that change twice; every text up to 4 bytes with 2 secrets up to 3 bytes; archives of up to 3 entries of 22 kinds | the credential stays, effort is bounded, results are what was shown, calls end; redaction is exact; accepted archives unpack as declared |
| `planning` | 4 commits, 2 releases, numbers up to 2, 2 channels; 3 pushes, 2 notes, 2 planned versions | versions move forward, compatible upgrades build, nothing is missed, a release settles, and the changelog tells every change |
| `trains_count_up` | 6 commits, 3 releases | a finding |
| `rehearsal` | a public package with a signature, a private one with docs and an SBOM, 2 hook writes, 2 alterations | what is sealed was reviewed and verifies, what is published was approved, and a rehearsal ends |
| `promotions` | 2 runs, 2 attempts, 2 artifacts of 2 commits of one version, 1 restart, 1 expiry | only what was approved is published, of one Candidate, and a run that deserves to publish does |
| `adoption` | 1 edit, 1 kill, 1 command besides the advised ones, 2 bullets; 7 archives, 2 statements, 1 redirect | words of people survive, the legacy files are kept, advice settles; the Action runs only what was named, tells the truth and comes to its end |

Bounds.  Three objects are the least number with one before, one at and one after a
failure, and the theorems remove the bound.  Two faults are the least number that lets a
lost request of one run meet a failure of the next.  `MaxReleases` = 2 is the least
number that makes the Release ambiguous.  Reruns are not bounded: without faults they
repeat states.  In `release_pr`, three plans make one PR outdated and then unneeded; two
PRs are the least number that could both be open; with one act and one killed job, a
person and a crash can meet in one history.  The plans of the instance are of one version,
so the test that a merged PR is of the plan's (`IsPending`) never fails there.  A merge is
the last push: what follows it belongs to the release.  `ReleasePrProofs` removes the bounds on plans, PRs, acts and
kills.

Two runs of the workflow are the least number in which one publishes what the other
sealed, or finds what the other published in part, and two attempts the least that make
a run start again under it.  Times in `promotions` are in units of ten seconds: the skew
is three, a request takes at most two.  Three polls let something appear before, at and
after the middle one; three pages of two let an entry move over a border between two
pages in either direction.  Four bytes hold two overlapping secrets and a byte of text,
and a character of two bytes lets a secret split it.  Three entries are two that collide and a header between them that names one;
`ReadProofs` removes the bounds on texts and entries, and those on polls, pages,
redirects and words.
`PromotionProofs` removes the bounds on runs, attempts, artifacts and commits, and
`AdoptionProofs` those on edits, kills, commands, bullets and archives of `adoption`.
`PlanningProofs` removes all bounds of `planning`: commits, releases, numbers, interfaces,
pushes and notes.
Two releases make one that follows a baseline, and four commits allow a change before,
at and after it, with an edited manifest.  `MaxNumber` = 2 lets a component
reach its greatest number.  Three pushes with two notes let a section be rendered,
merged, rendered again and published late.  Two touches by hooks are one before and one
after a digest is taken; two alterations one before and one after a verification.  In
`adoption` an edit, a kill and a command may meet in one history; the seven archives are
a whole one, one with a link, and one for each way to be broken (truncated, a size past
the end, a repeated path, content after the end, and an entry between the two blocks of
the end).

Deadlock is checked in the live runs, since a stopped command can always be run again.
The other systems really stop: a run, a read, a rehearsal and an Action end, and the
others end at their bounds.

Fairness.  `RunSpec` and `LiveRelease` assume that the one loop of the process takes a
step while it can: it is sequential and every call has a deadline.  `live_eventually`
also assumes that somebody reruns a stopped command (docs/recovery.md says to), and that
the registry shows what it holds in the end.  A request in flight may stay there for
ever.  `release_pr` assumes that the two jobs go on while they can and are run again
when they ended: the workflow runs them once for each push, and after a superseded or
failed run somebody has to rerun it, or the next push does.  People are not fair.
`EventuallySettled` excuses a history that used up `MaxPulls`, and one that merged.
`reads` assumes that a client takes its next step, as each request has a timeout, and
`rehearsal` that the rehearsal's own calls return and a deadline that was set passes;
nothing is assumed of servers and hooks.  `promotions` assumes that each publish job
goes on until it ends or is killed, not that anybody approves it or that runs start.
`DeservingRunsPublish` is about a job whose evidence and clock are right, and excuses
one that is killed, finds another release in place, or loses its artifact or its source
run.  `adoption` assumes that a command which runs goes on, that people ask doctor and
do what it says, and that the Action and its timers go on; servers, children, edits and
signals are not fair.  `AdviceSettles` names the reasons for which the code leaves a
package to a person: a manifest that does not load, a migration it refuses, a workflow
that a person touched or whose record a kill lost, settings it cannot render, an approval
that no Environment meets.  `ActionEnds` is that the Action has its result and waits for
no download.  It excepts what keeps the process in the code: before the result, a process
that the child left behind with its pipes open, and after it, a response that nobody
waits for and a server never ends (`leftover`, of which nothing is fair).

## What is proved

Every theorem holds for all values of the constants that its assumptions admit, and every
one that names a property of a run proves the formula that the run checks.

### One run

`RunProofs` proves, for every `N`, every set of releases and every set of observations,
the safety of `RunSpec`.  The assumptions are `NAssumption` and `RunSpecAssumption`.  The
inductive invariant `Inv` adds to `TypeOK`, `CallsAreSound` and `ReportsAreTrue` what they
rest on: the calls made so far and the budget left add up to the size of the first plan;
an object that was attempted and is optional was applied once; while a call is under way
the newest observation lists its object as the first that the run doesn't pass over; a
refused call is either the one that the run still has to judge or no longer listed; and
what history calls evidence, the run knows as `started`.

Two more invariants make `Promises`.  `PlanInv` says that a plan is made only of what the
evidence approves, and that a run which planned a started release knows that it started;
from it `LifecycleInOrder` proves `LifecycleOrder`.  `PromptInv` says that, while nothing
wavered, each call was for another object, which is settled since, and that the first plan
listed all that was called for or is still owed.  So the budget suffices and a run never
diverges, which is what `PromptConvergence` proves as `PromptRunsConverge`; that the run
ends is `Terminates`, and that reruns complete the release is `EventuallyReleased`.

### Publication

`LiveProofs` proves of `LiveRelease`, for every Candidate, any number of faults, killed
jobs, Releases and requests in flight, and every set of rivals, `SuccessIsTrue`,
`HeldStays` and `AppliedOnce`, and that it implements `OrderedRelease` (`KeepsPromise`).
It assumes `LiveAssumption` and `WorldAssumption`: assets and hooks have distinct names,
which candidate.rs validates, and a Candidate without a Release has no assets.

The hard part is that a decision rests on five reads of a world which moves on.
`Persists` says what no step takes back.  On it stand the parts of `LiveInv`: `SeenInv`,
that the world still is at least what the reads so far showed; `ApplyInv`, that the effect
under way rests on what was seen, and that its next request addresses what is there;
`InFlightInv`, that every request which may still take effect, even one of a killed job,
was decided on objects which hold for good (`Rests`); `AttemptedInv`, that a blocking
object that was attempted is under way, has just failed, or is settled, so that no later
observation lists it; and `StopInv`, which relates the end of a run to its exit status.
`WorldStep` classifies each step once: it adds nothing that `OrderedRelease` speaks of,
or one stage whose needs are published.  The refinement follows from that.

`ReleaseKeepsPromise` assumes that no person publishes the draft by hand: that is a step
of somebody else which finalizes a Release before its assets, and neither the run nor the
refinement can hold then.  The three other theorems hold with that rival too.

In `OrderedRelease` nothing is taken back, so a claimed success lasts, and through the
refinement it lasts in `LiveRelease` (`SuccessIsLasting`).

### Release PR

`ReleasePrProofs` proves the type invariant, the three safety invariants and the action
property of `release_pr` for every sequence of plans and builds and every number of PRs,
acts and kills, from `ReleasePrAssumption`.  Its inductive invariant `IInv` has five
parts.  `Typed` and `Sound` say that whatever a PR, a branch or a job names exists, and
what a job at each of its requests has checked of it; that the commit it is about to
reset or delete is a generated one is all that `WorkStays` needs, as branches move by
compare and swap.  `Single` says that a job on its way to another PR has seen that none
is open, and that any other job works on the one that is; it needs that only one job
runs at a time.  `Bound` says that every intent in a marker, and in what the release-pr
job remembers of one, is that of the head next to it, which was rehearsed.  `Clean` says
that before the merge no generated commit holds work of people, which
`AuthorizedIsRehearsed` needs for the part of it that the intent doesn't show.  The
lemma `PullSteps` lists all that a step may do to the PRs, so that the later parts need
no case for each action.

### Workflow

`PromotionProofs` proves `PublishedAsApproved` and `OneCandidate` for any number of runs,
attempts, artifacts, commits and versions of evidence, from `PromotionsAssumption`.  The
publish job asks one question after the other, and everything but the answer may change
before it publishes.  So `Stage` says what each place of the job already rests on, `Path`
which jobs a run of each event can be in, and `Keeps` what no step takes back: an upload
stays what it is, a run that passed has passed, and an intent that was bound stays.  It
also proves that the latest start that a token may state is the time plus the skew when
that fits a machine word and the greatest time otherwise (`SaturationIsExact`): it never
wraps to an early one.

### Candidate

`RehearsalProofs` proves `SealedWasReviewed`, `SealedVerifies` and `PublishedIsSound` for
every policy, every list of hooks and what they report and leave behind, and any number
of writes to the snapshot and alterations of the directory.  It assumes
`PoliciesAssumption` (a policy has its fields, and its hooks are lists),
`NotesAssumption` and `SurvivorsAssumption`.  `RehearsalInv` has a part for each place
that a release passes.  `Reviewed` follows the committed package from one digest of the
snapshot to the next: nothing writes while no hook runs, unless one left a process
behind, and a verdict falls only when the digest before a hook is the one after it.
`SealInv` says what a sealed manifest holds, `StoreInv` that the directory is exactly the
sealed one until somebody alters it, and that it holds some manifest afterwards.
`PublisherInv` says what each step of the release command has established of a directory
that may change under it: two manifests that fit their own digests and share one are the
same, so the comparison at the end reaches back to every file that was read.
`UndisturbedInv` adds what the check against the source commit is worth when the
directory didn't change between the two verifications.

### Reads, archives and redaction

`ReadProofs` proves `CredentialStaysHome`, `EffortIsBounded` and `ResultsAreTrue` for
every header, word size, list and number of polls, pages, redirects and changes of a list,
from `ReadsAssumption` and `WordAssumption`.  A result is told once, at the end, from what
several requests brought, so the invariant says what those so far established: `CallInv`
bounds the attempts and the sleep of a request, whatever it was answered; `PollsInv`
counts the rounds of a wait; `ListsInv` says that the pages so far hold exactly what an
unchanged list has up to there; and `AuditInv` which permission was granted.

`ReadProofs` also proves `RedactsExactly` for every text over any bytes and every list
of secrets: a byte is redacted exactly when an occurrence of a secret spans it, and the
segments are the maximal stretches of one decision.  The invariant of the pass is that
the reach after a position is the greatest end of an occurrence that starts at or before
it, so that the reach lies past a position exactly when some occurrence spans it; that
holds whatever order the secrets are tried in.  The segments add that each one begins
where the one before ended and that two neighbours differ.

`ReadProofs` proves `UnpacksAsDeclared` as well, for every archive, every way to fold names
and every limit.  While a level is read, the output is what its entries so far declare, a
pending path is that of the header just before, the claims are exactly what the output
needs, and any two of its files are `Apart`: neither is stored as the other, nor inside
it.  From then on the disk holds the files that are no longer left to write, and being
apart is why none of them blocks or replaces another.

### Planning and changelog

`PlanningProofs` proves all safety properties of `planning`, for every history and set of
interfaces, every greatest number, and any number of commits, releases, edits, lost tags,
stale caches, notes and pull requests.

Three theorems are about the pure functions.  `PrecedenceIsTotal` says that precedence is
a total order of versions, whatever their prereleases spell.  The code compares a train
with a train by channel and number, a train with other text by a path of its own, and two
other texts identifier by identifier; the lemmas show that all three give the order of
identifiers.  This needs no induction: two sequences that differ have a first place where
they do.  `SelectionMovesForward` says what a selected version is worth for every
published version, step, explicit version and train.  `MajorMeansBroken` says that what
the comparison of interfaces calls breaking breaks a client that uses all of the old one;
that what it calls compatible breaks none is the lemma `NoBreakNoHarm`.

`CompatibleUpgradesBuild` is the hard one: it is about any two managed releases of a line,
while a plan compares its content with the highest release alone, which need not be
managed, and is published when another release may be the highest.  So `OfferInv`
remembers of an open plan what it was required against: some release that no managed one
exceeds, and that the plan leaves the line of every managed stable release if it breaks
the clients of that one.  When the plan is published, take an old stable release on its
line, with nothing by hand in between.  The release it was compared with is that one, or
lies between the two and so is managed and on their line; its clients build with the plan,
the old one's build with it, and building is transitive.  `OneVersionEach` and
`HaveHighest` make the highest release well defined, for all and for the stable ones.  `NothingIsMissed`
rests on what a search finds: the newest commit in its window with the published content
or none.  The other two properties follow from the invariant and the answers to each
command, case by case.

`ChangesAreTold` compares notes with a commit that they were rendered from, and between
the two the version, the file and the release before may change.  `ChangelogInv` therefore
says of the files of every commit and of the open proposal, by the commit that they were
rendered from, that the section of their version tells every change since the last
release, and that the book keeps each note; a note only moves on, so that what a book
keeps stays kept in every later rendering of it.

The assumptions are types: `MaxNumberAssumption`, `ChannelsAssumption`,
`InterfaceOfAssumption` (a declaration has the one it belongs to), `ContentsAssumption`,
`MessagesAssumption`, `VersionsAssumption`, `ChangelogAssumption` and `BooksAssumption`
(a first changelog has lines, and sections of versions that are planned at all).

### Setup and the Action

`AdoptionProofs` proves `LegacyIsKept` and `EditsSurvive` of `Setup`, for every manifest
and workflow that a package may start with and any number of edits, kills, commands and
bullets.  `ManifestsAssumption` says that a manifest has its fields, and
`PinsAssumption` that the pins of other people are none that `init` writes; an empty table
stands for none, and `TablesAssumption` says that people write no empty one.  A command
writes what it made of a text that it read several steps earlier, so neither property is
inductive.  `WordsInv` says that the command read the newest text or that the history has
the edit, that each text it may write says what people wrote in the one it read, and that
a workflow on record is nobody's.  That what is written reads the same is the lemmas
`MigrationKeepsWords` (key by key of the flat table) and `ChannelKeepsWords`.  `LegacyInv`
says how far a migration has got: what it has written so far is what it read, and what
killed migrations left agrees with that or stops it.  A note is created where there
is none, so one that is still empty belongs to no migration that finished.

`AdoptionProofs` also proves `RunsWhatWasNamed` and `StepTellsTheTruth` of `Installer`,
for every set of inputs, manifests and archives and every limit.  `ServedAssumption` says that an archive
is a sequence of blocks and that a size is a number, and `InputsAssumption` that a job
gives the inputs of `action.yml`.  What is run was checked several awaits earlier, so
`CheckInv` says at each await what was checked by then, and `FetchInv` that the files are
still those: the last download to end starts the check, and none is open after that.
The inventory reads block by block, and `IsWhole` is about all blocks at once.  What links
them is `Walked`: some of the blocks so far are the headers, each begins where the entry
before it ended, their paths differ, and the last entry ends where the rest that is still
expected does, or only zeroes have followed it.  `EndInv` says how the step ends: a signal
is listened to only while release-glz runs, and what dies by an exception is a download,
which is never open at the same time as a child.

### Model-checked only

Everything under fairness (`Terminates`, `EventuallyReleased`, `EventuallySettled`,
`CallsEnd`, `RehearsalEnds`, `DeservingRunsPublish`, `AdviceSettles`, `ActionEnds`) is
model-checked only: the prover has neither fairness nor ENABLED.

## Findings

Three statements of the documents and the program fail, each in a run of its own.

A rerun that owed only a required notification exits 1 on a complete release when an
optional hook cannot repeat its delivery report, since the budget of the first plan is
spent.  A job that dies between the reset of the release branch and its commit makes the
next one close the PR over commits of people that nobody made.  And a train that a
feature took to a higher core cannot count up when later commits only ask for a patch.

The models also name behaviours that no run is about.  Where a document says otherwise
it is quoted with its place.

Publication:

* A conflict after a partial publication exits 4, while docs/README.md:345 has 7 whatever
  stopped it.
* The delete of an unfinished asset can hit a Release that a person published after it
  was read (docs/threat-model.md:33); `HeldStays` is about the uploaded ones.
* `release` binds the first manifest it verifies to its source and publishes from a
  second verification, which is pinned by the approved digest alone.  With an approved
  digest `PublishedIsSound` shows that this is enough; that the policy is the committed
  one it shows only of a Candidate that nobody disturbed between the two.
* A Release is looked for page by page (`release_details_for_tag` in forge.rs): a list
  that changes between two pages can count one twice or miss it.
* A published prerelease without a configured train is promoted to stable by the next
  plan, and `prerelease <channel> --version X` is ignored for a published package.

Release PR, approval and workflow:

* The release-pr job reads the tip once, so that a push right after lets it write from a
  commit that is the tip no more, though docs/README.md:163 says that it writes only when
  the checkout is that tip; the run of the next push corrects it.
* A late write of the bind job or a killed job can leave the marker behind its branch,
  and when the next plan needs no release, nothing closes that PR until another release
  is due (`close_managed_release_pr` closes only what its marker verifies).
* The bind job does not ask again whether the PR is still open, so an intent can reach a
  PR that merged without one (docs/README.md:136).
* A Candidate of a failed attempt is admitted once a later attempt of its run succeeds; a
  push run whose intent is unbound succeeds, and its Candidate can be promoted by hand.

Rehearsal:

* A process that a hook left behind with its pipes closed can change the snapshot until
  the build reads it (the doc of hooks.rs and docs/design.md:97 exclude it).
* `seal` admits notes up to 1 MiB, and `verify` a manifest up to 1 MiB in all: a
  Candidate with the longest notes is sealed and then refused.  The limit on the number
  of sidecars is applied to the hooks' own first and with the built-in ones only at the
  seal.

Changelog:

* "Rendering is idempotent" (changelog.rs, `render`) fails when Unreleased holds bullets
  or text written by hand: they fall under the new section, and rendering that version
  again deletes them.
* A note on a pull request that is listed already is dropped, but its id is not marked,
  so the next version tells it again.
* The planner leaves `chore(release):` commits out and `changes_for_commits` in forge.rs
  does not, so a plan between merge and publication lists the release PR itself.
* Changes that landed between rendering and merge are in no notes; `ChangesAreTold`
  speaks of those up to the commit that the notes were rendered from.
* A stale release PR of a version that was published meanwhile can still be merged, and
  rewrites that version's section.

Setup:

* `sync` takes a workflow that is no UTF-8 for a missing one and overwrites it, and an
  edit between the last read and the rename is lost in manifest and workflow ("a
  concurrent edit is never silently overwritten", config.rs:576).  `EditsSurvive` excepts
  both.
* A kill between workflow and record makes later updates refuse an unedited workflow.  A
  backup or a note that a kill left half written is refused until a person removes it,
  and so is a migration whose manifest is edited after it was interrupted.
* A pin that Dependabot moved makes the workflow count as edited.  doctor advises
  `init --update` without the profile that a first init needs.

Action:

* When the child has exited and something it started holds its pipes, no timeout ends the
  Action, since `terminateProcess` returns early (index.js:534).
* A redirect whose Location is no URL throws in the response's callback (index.js:410),
  where nothing catches it: the Action exits 1 and leaves its directory behind.
  `StepTellsTheTruth` excepts that and says what still holds of it.
* "a server that trickles bytes needs this total deadline across redirects"
  (index.js:466) does not hold of every response: that of a redirect or a refusal is
  drained after its deadline was cleared (409, 431, 437), its request is not destroyed,
  and `run` sets `process.exitCode` alone, so a trickled body keeps the process after its
  result.  `ActionEnds` excepts that.
* tar's status becomes the Action's, with a message that release-glz exited, and a signal
  while the files are acquired leaves the directory behind, in which case it is the
  runner that ends the job.

## Not modelled

* `marker.rs`, `key_order.rs`, `diff.rs`, `framing.rs`, `hex.rs` and `canonical.rs` are
  pure functions of text and bytes, without a state that steps could disturb.  The models
  take a marker that reads back and a digest as values.
* Of archives: which characters make a name portable (the set `Portable` in `Archives`),
  the bytes of headers, the decompressor with its limit, the writing of archives, and the
  documentation archive, which is read but not unpacked.
* Parsing in `gleam.rs`, `git.rs`, `changelog.rs` and of JSON; the text of PRs, reports
  and diagnostics; labels; argument parsing.
* Windows branches of the Action and of the hook processes.
* Failed requests of the release-pr and bind jobs that take effect after their job.
* `xtask/`, `fuzz/`, `scripts/`, `verification/` and the test crates are not part of the
  released program.

## Plan

1. `ReleasePr`: an abstract specification of the PR (one head, rehearsed, bound, merged)
   that it implements, and failed requests that take effect.
2. `Promotions` composed with `LiveRelease`, object by object.

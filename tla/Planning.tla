------------------------------ MODULE Planning ------------------------------
(***************************************************************************)
(* Release planning over the life of a package: what planner.rs decides    *)
(* from the git history, the registry, the manifest and the baseline       *)
(* cache, while people push commits, edit the manifest, lose tags, and     *)
(* publish versions by hand.                                               *)
(*                                                                         *)
(* A commit is its publication content, the step its message asks for, and *)
(* the version and train of its manifest.  Contents are equal exactly when *)
(* the normalized artifacts are: the masked version and the generated      *)
(* files make no difference.  InterfaceOf gives the interface that the     *)
(* compiler exports for a content.                                         *)
(***************************************************************************)
EXTENDS Versions, Interfaces, FiniteSets

CONSTANTS
  Contents,       \* the publication contents a commit can hold
  InterfaceOf,    \* the interface of each content
  Channels,       \* the channels that the manifest can name
  HandContents,   \* the contents that are published by hand
  Messages,       \* the steps that commit messages ask for
  Asked,          \* the versions that people write or ask for
  FirstContents,  \* what a package starts with,
  FirstVersions,  \* and at which versions
  AllowsZero,     \* allow_version_zero
  SearchLimit,    \* how many commits the baseline search inspects
  MaxCommits,     \* bounds the history
  MaxReleases     \* bounds the releases

ASSUME ChannelsAssumption == Channels \subseteq Channel
ASSUME InterfaceOfAssumption ==
  /\ DOMAIN InterfaceOf = Contents
  /\ \A content \in Contents : IsInterface(InterfaceOf[content])
ASSUME ContentsAssumption == FirstContents \cup HandContents \subseteq Contents
ASSUME MessagesAssumption == Messages \subseteq Bump
ASSUME VersionsAssumption == Asked \cup FirstVersions \subseteq ValidVersions
ASSUME SearchLimitAssumption == SearchLimit \in Nat \ {0}

VARIABLES
  history,  \* the commits of the default branch, oldest first
  hex,      \* the releases of the registry, in the order they were published
  tags,     \* the commit that the tag of a version names
  refs,     \* the configured baseline refs, as commits of versions
  cache,    \* the commit that the baseline cache holds for a version
  plan      \* the last plan, with the command that asked for it

vars == <<history, hex, tags, refs, cache, plan>>

Commit(content, message, manifest, channels) ==
  [content |-> content, message |-> message, manifest |-> manifest, channels |-> channels]
Trains == {{}} \cup {{channel} : channel \in Channels}
Tip == history[Len(history)]

(* A person's release has no managed origin in the history. *)
Release(version, content, managed) ==
  [version |-> version, content |-> content, managed |-> managed]
Releases == {hex[i] : i \in DOMAIN hex}

(* Highest published version, prereleases included; and the cores of the  *)
(* highest stable one, if any.                                            *)
LatestPublication(releases) == hex[Len(hex)]
Latest(releases) ==
  CHOOSE release \in releases : \A other \in releases : ~Follows(other.version, release.version)
LatestStable(releases) ==
  LET stable == {release \in releases : release.version.pre = Stable}
  IN IF stable = {} THEN {} ELSE {Latest(stable).version.core}

-----------------------------------------------------------------------------
(* What a command asks the planner: a version instead of the manifest's    *)
(* (set-version, prerelease --version), a train instead of the configured  *)
(* one (prerelease), and whether the manifest's version is read at all.    *)
Options(command, versions, trains, ignoresManifest) ==
  [command |-> command, versions |-> versions, trains |-> trains,
   ignoresManifest |-> ignoresManifest]
PlanCommand == Options("plan", {}, {}, FALSE)
SetVersionCommand(version) == Options("set-version", {version}, {}, FALSE)
PrereleaseCommand(channels, versions) == Options("prerelease", versions, {channels}, TRUE)

Requested(options) ==
  IF options.versions = {} THEN Tip.manifest ELSE CHOOSE version \in options.versions : TRUE
Configured(options) ==
  IF options.trains = {} THEN Tip.channels ELSE CHOOSE train \in options.trains : TRUE

(* The requested version as an explicit choice, when the plan reads it. *)
ExplicitRequestAlways(candidate, latest, options) ==
  IF options.ignoresManifest THEN {} ELSE {candidate}
ExplicitRequest(candidate, latest, options) ==
  IF ~options.ignoresManifest /\ Follows(candidate, latest) THEN {candidate} ELSE {}

-----------------------------------------------------------------------------
(* The baseline: where the latest release sits in the history.  A tag      *)
(* decides, then a configured ref, then a cache entry that proves itself,  *)
(* and last a bounded search, newest commit first, for a commit with the   *)
(* published content.                                                      *)
Found(source, at) == [source |-> source, at |-> at]
Window == {i \in DOMAIN history : i > Len(history) - SearchLimit}
Truncated == Len(history) > SearchLimit

Cached(latest) ==
  /\ latest.version \in DOMAIN cache
  /\ cache[latest.version] \in DOMAIN history
  /\ history[cache[latest.version]].content = latest.content

FindBaseline(latest) ==
  LET matches == {i \in Window : history[i].content = latest.content}
      newest  == CHOOSE i \in matches : \A j \in matches : j <= i
  IN CASE latest.version \in DOMAIN tags -> Found("tag", tags[latest.version])
       [] latest.version \notin DOMAIN tags /\ latest.version \in DOMAIN refs ->
            Found("config", refs[latest.version])
       [] OTHER ->
            IF Cached(latest) THEN Found("cache", cache[latest.version])
            ELSE IF matches # {} THEN Found("search", newest)
            ELSE IF Truncated THEN Found("truncated", 0)
            ELSE Found("unmatched", 0)

(* A search that found a commit records it; nothing else writes the cache. *)
CacheAfter(latest, found) ==
  IF found.source # "search" THEN cache
  ELSE [version \in DOMAIN cache \cup {latest.version} |->
          IF version = latest.version THEN found.at ELSE cache[version]]

-----------------------------------------------------------------------------
(* The strongest of a set of steps. *)
Strongest(steps) ==
  CHOOSE bump \in steps \cup {"none"} : \A other \in steps : BumpRank(other) <= BumpRank(bump)

(* A change of train, or the promotion of a published prerelease. *)
TrainTransition(latest, channels) ==
  IF latest.pre = Stable THEN channels # {}
  ELSE \A channel \in channels : ~StartsWith(latest.pre, channel)

(* api::compare of the interfaces of two contents. *)
ImpactBetween ==
  [pair \in Contents \X Contents |-> Impact(InterfaceOf[pair[1]], InterfaceOf[pair[2]])]

(* The step that the changes since the baseline require: the content, the  *)
(* commit messages, and the interface, when it is known.                   *)
RequiredByMessages(latest, baseline, known, transition) ==
  Strongest({history[i].message : i \in {j \in DOMAIN history : j > baseline}})
Required(latest, baseline, known, transition) ==
  LET signals ==
        {history[i].message : i \in {j \in DOMAIN history : j > baseline}}
        \cup (IF Tip.content # latest.content THEN {"patch"} ELSE {})
        \cup (IF known THEN {ImpactBetween[latest.content, Tip.content]} ELSE {})
      raised ==
        IF Strongest(signals) = "none" /\ transition /\ latest.version.pre = Stable THEN "patch"
        ELSE Strongest(signals)
  IN EffectiveBump(latest.version, raised)

NoPlan == [options |-> PlanCommand, ok |-> FALSE, refusal |-> "none", required |-> FALSE,
           version |-> NoVersion, from |-> 0, source |-> "none", baseline |-> 0,
           reviewed |-> FALSE]

Answer(options, version, required, found, reviewed) ==
  [options |-> options, ok |-> TRUE, refusal |-> "none", required |-> required,
   version |-> version, from |-> Len(history), source |-> found.source, baseline |-> found.at,
   reviewed |-> reviewed]
Refusal(options, why) == [NoPlan EXCEPT !.options = options, !.refusal = why]

(* The last guard of both plans. *)
ZeroEnforced(decision) ==
  IF decision.ok /\ VersionZeroRefused(decision.version, AllowsZero)
  THEN Refused("version_zero") ELSE decision

(* A package without a release: the manifest's version joins the train. *)
FirstVersion(options) ==
  IF Follows(Tip.manifest, Requested(options)) THEN Refused("lowers_manifest")
  ELSE ZeroEnforced(InitialVersion(Requested(options), Configured(options), options.trains = {{}}))
InitialPlan(options) ==
  LET first == FirstVersion(options)
  IN IF first.ok THEN Answer(options, first.version, TRUE, Found("initial", 0), FALSE)
     ELSE Refusal(options, first.refusal)

(* An exception for an interface that cannot be determined is refused when *)
(* it expired or its baseline is gone, before any search.                  *)
Exceptions == {"none", "expired", "unresolved", "reviewed"}

Decision(latest, channels, explicit, step, required) ==
  ZeroEnforced(
    IF required THEN SelectVersion(latest.version, LatestStable(Releases), step, explicit, channels)
    ELSE Taken(latest.version))

PlanOf(options, known, exception, found, required, decision) ==
  CASE found.at = 0 -> Refusal(options, found.source)
    [] found.at # 0 /\ ~known /\ exception = "none" -> Refusal(options, "unknown_api")
    [] OTHER -> IF ~decision.ok THEN Refusal(options, decision.refusal)
                ELSE Answer(options, decision.version, required, found, ~known)

(* The step decides, or an explicit version or a change of train does.      *)
PlanByStep(options, known, exception, latest, found, transition, explicit, step) ==
  LET required == step # "none" \/ explicit # {} \/ transition
  IN PlanOf(options, known, exception, found, required,
            Decision(latest, Configured(options), explicit, step, required))

PlanFrom(options, known, exception, latest, found, transition) ==
  PlanByStep(options, known, exception, latest, found, transition,
             ExplicitRequest(Requested(options), latest.version, options),
             Required(latest, found.at, known, transition))

PlanAfter(options, known, exception, latest) ==
  CASE Follows(latest.version, Requested(options)) -> Refusal(options, "behind_latest")
    [] ~Follows(latest.version, Requested(options)) /\ exception \in {"expired", "unresolved"} ->
         Refusal(options, "exception")
    [] OTHER -> PlanFrom(options, known, exception, latest, FindBaseline(latest),
                         TrainTransition(latest.version, Configured(options)))

ExistingPlan(options, known, exception) ==
  PlanAfter(options, known, exception, Latest(Releases))

-----------------------------------------------------------------------------
Init ==
  /\ \E content \in FirstContents, version \in FirstVersions, channels \in Trains :
       history = <<Commit(content, "none", version, channels)>>
  /\ hex = <<>>
  /\ tags = <<>>
  /\ refs = <<>>
  /\ cache = <<>>
  /\ plan = NoPlan

(* People push a commit, or edit the manifest's version or train.  Every   *)
(* push has the Release PR planned again, so a plan outlives only a commit *)
(* that its intent does not cover, and is dropped before any other step.   *)
Pushes(content, message) ==
  /\ Len(history) < MaxCommits
  /\ history' = Append(history, [Tip EXCEPT !.content = content, !.message = message])
  /\ UNCHANGED <<hex, tags, refs, cache, plan>>
Pushed ==
  /\ plan = NoPlan
  /\ \E content \in Contents \ {Tip.content}, message \in Messages : Pushes(content, message)
PushedAside ==
  /\ plan = NoPlan \/ (plan.required /\ plan.options = PlanCommand)
  /\ \E message \in Messages \ {"none"} : Pushes(Tip.content, message)
Edited ==
  /\ plan = NoPlan
  /\ Len(history) < MaxCommits
  /\ \/ \E version \in Asked \ {Tip.manifest} :
          history' = Append(history, [Tip EXCEPT !.manifest = version, !.message = "none"])
     \/ \E channels \in Trains \ {Tip.channels} :
          history' = Append(history, [Tip EXCEPT !.channels = channels, !.message = "none"])
  /\ UNCHANGED <<hex, tags, refs, cache, plan>>
Dropped ==
  /\ plan # NoPlan
  /\ plan' = NoPlan
  /\ UNCHANGED <<history, hex, tags, refs, cache>>

(* One planning run only reads, but a search leaves its result in the      *)
(* cache.  The interface of a published version may be unknown, and the    *)
(* manifest may hold an exception for it; that is explored for `plan`,     *)
(* because the other commands answer it alike.                             *)
Answers(options) ==
  IF hex = <<>> THEN {InitialPlan(options)}
  ELSE IF options # PlanCommand THEN {ExistingPlan(options, TRUE, "none")}
  ELSE {ExistingPlan(options, known, exception) : known \in BOOLEAN, exception \in Exceptions}
Searched(answer) ==
  cache' = IF hex = <<>> \/ answer.refusal \in {"behind_latest", "exception"} THEN cache
           ELSE CacheAfter(Latest(Releases), FindBaseline(Latest(Releases)))
Plans ==
  /\ plan = NoPlan
  /\ \E answer \in Answers(PlanCommand) : plan' = answer /\ Searched(answer)
  /\ UNCHANGED <<history, hex, tags, refs>>

(* set-version and prerelease plan and write the manifest, which a person  *)
(* commits: the version when the plan selected exactly that one, and the   *)
(* train with the selected version.                                        *)
SetsVersion ==
  /\ plan = NoPlan
  /\ Len(history) < MaxCommits
  /\ \E version \in Asked : \E answer \in Answers(SetVersionCommand(version)) :
       /\ plan' = answer
       /\ Searched(answer)
       /\ history' = IF answer.ok /\ answer.version = version
                     THEN Append(history, [Tip EXCEPT !.manifest = version, !.message = "none"])
                     ELSE history
  /\ UNCHANGED <<hex, tags, refs>>
ChoosesTrain ==
  /\ plan = NoPlan
  /\ Len(history) < MaxCommits
  /\ \E channels \in Trains, versions \in {{}} \cup {{version} : version \in Asked} :
       \E answer \in Answers(PrereleaseCommand(channels, versions)) :
         /\ plan' = answer
         /\ Searched(answer)
         /\ history' = IF ~answer.ok THEN history
                       ELSE Append(history,
                         [Tip EXCEPT !.channels = channels, !.message = "none",
                            !.manifest = IF answer.required THEN answer.version ELSE @])
  /\ UNCHANGED <<hex, tags, refs>>

(* The planned Release PR is merged and released.  Its intent binds the    *)
(* content, so only commits that leave it alone can come in between.  The  *)
(* tag exists before the package does; people may lose it later.           *)
Released ==
  /\ plan.ok /\ plan.required /\ plan.options = PlanCommand
  /\ Len(hex) < MaxReleases /\ Len(history) < MaxCommits
  /\ Tip.content = history[plan.from].content
  /\ Tip.manifest = history[plan.from].manifest
  /\ Tip.channels = history[plan.from].channels
  /\ \A release \in Releases : release.version # plan.version
  /\ history' = Append(history, [Tip EXCEPT !.manifest = plan.version, !.message = "none"])
  /\ hex' = Append(hex, Release(plan.version, Tip.content, ~plan.reviewed))
  /\ tags' = [version \in DOMAIN tags \cup {plan.version} |->
                IF version = plan.version THEN Len(history) + 1 ELSE tags[version]]
  /\ plan' = NoPlan
  /\ UNCHANGED <<refs, cache>>

(* The world around the planner: one version published by hand, before the *)
(* first release or under an open plan; the tag of the latest release      *)
(* deleted, a baseline configured for it after the search found none, and  *)
(* a cache entry that a rewritten history left, which names another commit *)
(* than the one it was written for.                                        *)
PublishedByHand ==
  /\ Len(hex) < MaxReleases
  /\ hex = <<>> \/ (plan.required /\ plan.options = PlanCommand)
  /\ \A release \in Releases : release.managed
  /\ \E version \in Asked, content \in HandContents :
       /\ \A release \in Releases : release.version # version
       /\ hex' = Append(hex, Release(version, content, FALSE))
  /\ UNCHANGED <<history, tags, refs, cache, plan>>
Untagged ==
  /\ plan = NoPlan /\ hex # <<>>
  /\ Latest(Releases).version \in DOMAIN tags
  /\ tags' = [version \in DOMAIN tags \ {Latest(Releases).version} |-> tags[version]]
  /\ UNCHANGED <<history, hex, refs, cache, plan>>
EntryFor(latest, at) == [version \in {latest.version} |-> at]
ConfiguredBaseline ==
  /\ plan.refusal \in {"truncated", "unmatched"} /\ refs = <<>>
  /\ \E at \in DOMAIN history : refs' = EntryFor(Latest(Releases), at)
  /\ plan' = NoPlan
  /\ UNCHANGED <<history, hex, tags, cache>>
CacheAged ==
  /\ plan = NoPlan /\ hex # <<>> /\ cache = <<>>
  /\ Latest(Releases).version \notin DOMAIN tags \cup DOMAIN refs
  /\ cache' = EntryFor(Latest(Releases), 1)
  /\ UNCHANGED <<history, hex, tags, refs, plan>>

Next ==
  \/ Pushed \/ PushedAside \/ Edited \/ Dropped
  \/ Plans \/ SetsVersion \/ ChoosesTrain \/ Released
  \/ PublishedByHand \/ Untagged \/ ConfiguredBaseline \/ CacheAged

Spec == Init /\ [][Next]_vars

-----------------------------------------------------------------------------
(* Every number of a version fits its width: version.rs never wraps.       *)
Fits(version) ==
  /\ version.core \in Cores
  /\ Numbered(version.pre) => version.pre[2][2] \in 0 .. MaxNumber

(* A new plan to release always names a version above every published one, *)
(* however they came to be published and in whatever order, and one whose  *)
(* numbers are in range; and its train moves back to an earlier channel    *)
(* only onto a higher core that the manifest named.                        *)
FollowsPublished(version) == \A release \in Releases : Follows(version, release.version)
TrainMovesBack(published, options) ==
  \E channel \in Configured(options) :
    Numbered(published.pre) /\ Rank(Label(channel)) < Rank(published.pre[1])
VersionsMoveForward ==
  [][plan' # plan /\ plan'.required =>
       /\ FollowsPublished(plan'.version) /\ Fits(plan'.version)
       /\ hex # <<>> /\ TrainMovesBack(Latest(Releases).version, plan'.options) =>
            /\ CoreFollows(plan'.version.core, Latest(Releases).version.core)
            /\ CoreFollows(Requested(plan'.options).core, Latest(Releases).version.core)]_vars

(* Nothing unreleased is missed.  A baseline that no tag and no             *)
(* configuration names is a commit with the published content, whatever    *)
(* the cache held.  And a plan that finds nothing to release has the       *)
(* published content at HEAD, under the train that was published, and no   *)
(* commit after a tagged baseline asks for a release.                      *)
NothingIsMissed ==
  [][LET latest == Latest(Releases)
     IN plan' # plan =>
       /\ plan'.source \in {"cache", "search"} =>
            history[plan'.baseline].content = latest.content
       /\ plan'.ok /\ ~plan'.required =>
            /\ Tip.content = latest.content
            /\ plan'.source = "tag" =>
                 \A i \in DOMAIN history :
                    i > tags[latest.version] => history[i].message = "none"
            /\ \A channel \in Configured(plan'.options) :
                 StartsWith(latest.version.pre, channel)]_vars

(* A client of a managed stable release builds with every later managed    *)
(* release that keeps its major version, or below 1.0 its minor version,   *)
(* unless a release by hand came between them.                             *)
SameLine(old, new) ==
  /\ old.core[1] = new.core[1]
  /\ old.core[1] = 0 => old.core[2] = new.core[2]
ClientsBuildBetween ==
  [pair \in Contents \X Contents |-> ClientsBuild(InterfaceOf[pair[1]], InterfaceOf[pair[2]])]
CompatibleUpgradesBuild ==
  \A old, new \in {release \in Releases : release.managed} :
    /\ old.version.pre = Stable
    /\ Follows(new.version, old.version)
    /\ SameLine(old.version, new.version)
    /\ \A other \in Releases :
         Follows(other.version, old.version) /\ Follows(new.version, other.version) => other.managed
    => ClientsBuildBetween[old.content, new.content]

(* A release settles: planned again at its own commit, on the train it was *)
(* published on, it asks for nothing.                                      *)
ReleaseSettles ==
  [][LET latest == Latest(Releases)
     IN /\ plan' # plan /\ plan'.options = PlanCommand /\ hex # <<>>
        /\ latest.managed /\ Tip.content = latest.content
        /\ Tip.manifest = latest.version
        /\ ~TrainTransition(latest.version, Tip.channels)
        /\ latest.version \in DOMAIN tags /\ tags[latest.version] = Len(history)
        => ~plan'.required /\ plan'.refusal \in {"none", "exception", "unknown_api", "version_zero"}]_vars

(* docs/README.md:259: a train increments within the same channel, so no   *)
(* step that the commits since its last prerelease require may stop it.    *)
TrainsCountUp ==
  [][plan' # plan => plan'.refusal # "behind_published_core"]_vars
=============================================================================

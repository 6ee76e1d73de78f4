------------------------------ MODULE Versions ------------------------------
(***************************************************************************)
(* The version arithmetic of release-glz-core: precedence.rs, version.rs   *)
(* and selection.rs, with the adapter src/version.rs over semver versions. *)
(*                                                                         *)
(* A version is a core <<major, minor, patch>> and a prerelease.  A        *)
(* prerelease is the sequence of its dot-separated identifiers, and an     *)
(* identifier is the pair of its kind (0 numeric, 1 text) and its value: a *)
(* number, or the place of a text among the texts in ASCII order.  Build   *)
(* metadata is left out, because precedence ignores it.                    *)
(*                                                                         *)
(* MaxNumber stands for u64::MAX: a component never exceeds it, and an     *)
(* identifier may, because semver admits numbers of any length there.      *)
(***************************************************************************)
EXTENDS Integers, Sequences

CONSTANT MaxNumber
ASSUME MaxNumberAssumption == MaxNumber \in Nat \ {0}

(* The requirement lattice, in its order. *)
Bump == {"none", "patch", "minor", "major"}
BumpRank(bump) ==
  CASE bump = "none" -> 0 [] bump = "patch" -> 1 [] bump = "minor" -> 2 [] OTHER -> 3
Joined(bump, other) == IF BumpRank(bump) < BumpRank(other) THEN other ELSE bump

(* One channel of a train, and its rank along the train.  Every text that *)
(* names no channel has the rank u8::MAX.                                  *)
Channel == {"alpha", "beta", "rc"}
Texts == Channel \cup {"dev"}
Ascii(text) == CASE text = "alpha" -> 1 [] text = "beta" -> 2 [] text = "dev" -> 3 [] OTHER -> 4
Label(text) == <<1, Ascii(text)>>
Digits(number) == <<0, number>>
Unknown == 255
Rank(identifier) ==
  CASE identifier = Label("alpha") -> 0
    [] identifier = Label("beta") -> 1
    [] identifier = Label("rc") -> 2
    [] OTHER -> Unknown

Stable == <<>>
Train(channel, number) == <<Label(channel), Digits(number)>>
Cores == (0 .. MaxNumber) \X (0 .. MaxNumber) \X (0 .. MaxNumber)
Version(core, pre) == [core |-> core, pre |-> pre]
(* The versions that parse: any identifiers, whether they spell a train or not. *)
Identifiers == {0, 1} \X Nat
ValidVersions == [core : Cores, pre : Seq(Identifiers)]

(* The label and number of a prerelease that is exactly <label>.<number>, *)
(* with a number of at most 64 bits.                                      *)
Numbered(pre) ==
  /\ Len(pre) = 2
  /\ pre[2][1] = 0
  /\ pre[2][2] <= MaxNumber
IsTrain(pre) == Numbered(pre) /\ Rank(pre[1]) # Unknown
StartsWith(pre, channel) == pre # Stable /\ pre[1] = Label(channel)

-----------------------------------------------------------------------------
(* Precedence: -1, 0 and 1 for Less, Equal and Greater. *)
Sign(left, right) == IF left < right THEN -1 ELSE IF left > right THEN 1 ELSE 0
Then(first, second) == IF first # 0 THEN first ELSE second
CompareCores(left, right) ==
  Then(Sign(left[1], right[1]), Then(Sign(left[2], right[2]), Sign(left[3], right[3])))

(* A numeric identifier comes before text; two of one kind by value. *)
CompareIdentifiers(left, right) == Then(Sign(left[1], right[1]), Sign(left[2], right[2]))

(* Identifier by identifier, where the shorter of two equal ones is first. *)
CompareTexts(left, right) ==
  LET shared  == {k \in DOMAIN left : k \in DOMAIN right}
      differs == {k \in shared : left[k] # right[k]}
      first   == CHOOSE k \in differs : \A other \in differs : k <= other
  IN IF differs = {} THEN Sign(Len(left), Len(right))
     ELSE CompareIdentifiers(left[first], right[first])

(* A train against other text: by its label, by its number, and as the *)
(* shorter one when the text goes on.                                  *)
TrainAgainstText(train, text) ==
  LET byLabel  == IF text[1][1] = 1 THEN Sign(train[1][2], text[1][2]) ELSE 1
      byNumber ==
        CASE Len(text) = 1 -> 1
          [] Len(text) > 1 /\ text[2][1] = 1 -> -1
          [] OTHER -> IF text[2][2] > MaxNumber THEN -1
                      ELSE Sign(train[2][2], text[2][2])
  IN Then(byLabel, Then(byNumber, IF Len(text) > 2 THEN -1 ELSE 0))

ComparePrereleases(left, right) ==
  CASE left = Stable /\ right = Stable -> 0
    [] left = Stable /\ right # Stable -> 1
    [] left # Stable /\ right = Stable -> -1
    [] IsTrain(left) /\ IsTrain(right) ->
         Then(Sign(Rank(left[1]), Rank(right[1])), Sign(left[2][2], right[2][2]))
    [] IsTrain(left) /\ ~IsTrain(right) /\ right # Stable -> TrainAgainstText(left, right)
    [] IsTrain(right) /\ ~IsTrain(left) /\ left # Stable -> - TrainAgainstText(right, left)
    [] OTHER -> CompareTexts(left, right)

Compare(left, right) ==
  Then(CompareCores(left.core, right.core), ComparePrereleases(left.pre, right.pre))
Follows(version, other) == Compare(version, other) = 1
CoreFollows(core, other) == CompareCores(core, other) = 1
HigherCore(core, other) == IF CompareCores(core, other) = 1 THEN core ELSE other

-----------------------------------------------------------------------------
(* One more, or no number at all: a step never wraps around. *)
Exhausted == -1
Increment(number) == IF number = MaxNumber THEN Exhausted ELSE number + 1

Overflow == <<>>
Bumped(core, bump) ==
  LET stepped ==
        CASE bump = "none"  -> core
          [] bump = "patch" -> <<core[1], core[2], Increment(core[3])>>
          [] bump = "minor" -> <<core[1], Increment(core[2]), 0>>
          [] OTHER          -> <<Increment(core[1]), 0, 0>>
  IN IF \E part \in 1 .. 3 : stepped[part] = Exhausted THEN Overflow ELSE stepped

(* Below 1.0 a breaking change is a minor release. *)
EffectiveBump(version, required) ==
  IF version.core[1] = 0 /\ required = "major" THEN "minor" ELSE required

(* The step that separates two versions, named by the highest component. *)
BumpBetween(from, to) ==
  CASE to.core[1] # from.core[1] -> "major"
    [] to.core[1] = from.core[1] /\ to.core[2] # from.core[2] -> "minor"
    [] OTHER -> IF Compare(to, from) # 0 THEN "patch" ELSE "none"

VersionZeroRefused(version, acknowledged) == version.core[1] = 0 /\ ~acknowledged

-----------------------------------------------------------------------------
(* A decision is a version or the refusal that says why there is none. *)
NoVersion == Version(<<0, 0, 0>>, Stable)
Taken(version) == [ok |-> TRUE, refusal |-> "none", version |-> version]
Refused(why) == [ok |-> FALSE, refusal |-> why, version |-> NoVersion]

MovesBack(label, channel) == Rank(Label(channel)) < Rank(label)

(* The next version on a channel's train after the published one. *)
TrainNumber(published, target, channel) ==
  IF Numbered(published.pre) /\ target = published.core /\ published.pre[1] = Label(channel)
  THEN Increment(published.pre[2][2]) ELSE 1

JoinTrain(published, next) ==
  CASE next.pre[2][2] = Exhausted -> Refused("train_exhausted")
    [] next.pre[2][2] # Exhausted /\ Follows(next, published) -> Taken(next)
    [] OTHER -> Refused("train_not_after_published")

NextPrerelease(published, target, channel, explicitlyHigherCore) ==
  LET back == Numbered(published.pre) /\ MovesBack(published.pre[1], channel)
  IN CASE CoreFollows(published.core, target) -> Refused("behind_published_core")
       [] back /\ target = published.core -> Refused("backward_on_published_core")
       [] back /\ CoreFollows(target, published.core) /\ ~explicitlyHigherCore ->
            Refused("backward_without_explicit_core")
       [] OTHER -> JoinTrain(published,
                     Version(target, Train(channel, TrainNumber(published, target, channel))))

(* An explicit version against the least one that the step and the train    *)
(* ask for.  A stable version on a train starts the train of its core.      *)
NotAfter(decision, published) ==
  IF Follows(decision.version, published) THEN decision ELSE Refused("not_after_published")

ChooseExplicit(published, computed, choice, restarts) ==
  CASE ~choice.ok -> choice
    [] choice.ok /\ Compare(choice.version, computed.version) = -1 ->
         Refused("explicit_below_required")
    [] OTHER -> IF restarts THEN NotAfter(choice, published) ELSE choice

Explicit(published, computed, asked, channels) ==
  LET channel  == CHOOSE one \in channels : TRUE
      higher   == CoreFollows(asked.core, published.core)
      restarts == channels # {} /\ asked.pre = Stable
  IN IF channels # {} /\ ~restarts /\ ~StartsWith(asked.pre, channel)
     THEN Refused("explicit_off_train")
     ELSE ChooseExplicit(published, computed,
            IF restarts THEN NextPrerelease(published, asked.core, channel, higher)
            ELSE Taken(asked), restarts)

(* The version that the needed step computes, on the train or off it.       *)
Computed(published, needed, explicit, channels) ==
  LET cores  == {version.core : version \in explicit}
      target == IF cores = {} THEN needed ELSE HigherCore(CHOOSE core \in cores : TRUE, needed)
  IN IF channels = {} THEN Taken(Version(HigherCore(published.core, needed), Stable))
     ELSE NextPrerelease(published, target, CHOOSE one \in channels : TRUE,
                         \E core \in cores : CoreFollows(core, published.core))

Select(published, computed, explicit, channels) ==
  CASE ~computed.ok -> computed
    [] computed.ok /\ explicit = {} -> NotAfter(computed, published)
    [] OTHER -> Explicit(published, computed, CHOOSE version \in explicit : TRUE, channels)

SelectFor(published, needed, explicit, channels) ==
  IF needed = Overflow THEN Refused("step_overflow")
  ELSE Select(published, Computed(published, needed, explicit, channels), explicit, channels)

(* The version of a release that follows the published one.  No channel,  *)
(* no stable release and no explicit version are empty sets of them.      *)
SelectVersion(published, stables, required, explicits, channels) ==
  LET base == IF stables = {} THEN published.core ELSE CHOOSE core \in stables : TRUE
  IN SelectFor(published, Bumped(base, required),
               {version \in explicits : Follows(version, published)}, channels)

(* The version of a package's first release, from the manifest's version. *)
InitialVersion(version, channels, stable) ==
  LET channel == CHOOSE one \in channels : TRUE
  IN CASE channels # {} /\ version.pre = Stable ->
            Taken(Version(version.core, Train(channel, 1)))
       [] channels # {} /\ version.pre # Stable /\ ~StartsWith(version.pre, channel) ->
            Refused("explicit_off_train")
       [] channels = {} /\ stable -> Taken(Version(version.core, Stable))
       [] OTHER -> Taken(version)
=============================================================================

---------------------------- MODULE LiveRelease ----------------------------
(***************************************************************************)
(* Publication of one sealed Candidate: ReleaseRun's decisions, the        *)
(* LiveReleaseTarget that observes and applies them (release.rs with       *)
(* registry.rs, forge.rs and hooks.rs), the objects that the reconciler    *)
(* makes of an observation (reconciler.rs), and the World.                 *)
(*                                                                         *)
(* An observation is five reads and an effect up to three requests; the    *)
(* world moves between any two of them.  A job may be killed anywhere, and *)
(* a later run starts over with nothing but what the world shows.          *)
(***************************************************************************)
EXTENDS World, Integers, Functions

CONSTANTS
  AssetList,     \* the sealed public assets, in the order of the Candidate
  HookList,      \* its notify hooks, each with its id and whether required
  WantsRelease,  \* whether the Candidate publishes a GitHub Release
  WantsDocs,     \* whether the Candidate publishes docs
  Approvals,     \* whether the evidence of a run may approve the Candidate
  MaxFaults      \* bound: reads, calls and jobs that fail

ASSUME LiveAssumption ==
  /\ WantsRelease \in BOOLEAN
  /\ WantsDocs \in BOOLEAN
  /\ WantsRelease \/ AssetList = <<>>
  /\ AssetList \in Seq(Assets) /\ Assets = Range(AssetList) /\ IsInjective(AssetList)
  /\ HookList \in Seq([id : Hooks, required : BOOLEAN])
  /\ Hooks = {HookList[k].id : k \in DOMAIN HookList}
  /\ \A j, k \in DOMAIN HookList : HookList[j].id = HookList[k].id => j = k
  /\ Approvals \subseteq BOOLEAN
  /\ MaxFaults \in Nat

VARIABLES
  approved, attempted, budget, applying, failed, landed, planned, started,
  phase, stop,
  at,        \* the read or request that comes next
  seen,      \* what the reads of this observation showed so far
  readFrom,  \* the Release that the apply under way read, and for a delete
             \* which of the assets that took the name
  cause,     \* the class of the error of the newest failed call
  exit,      \* the exit status of the run, or Unset
  faults     \* faults so far

(***************************************************************************)
(* The objects of an observation (reconciler.rs).                          *)
(***************************************************************************)
Item(kind, name) == [kind |-> kind, name |-> name]

Items ==
  <<Item("tag", "-"), Item("draft", "-"), Item("package", "-"), Item("docs", "-")>>
  \o [k \in DOMAIN AssetList |-> Item("asset", AssetList[k])]
  \o <<Item("finalize", "-")>>
  \o [k \in DOMAIN HookList |-> Item("notify", HookList[k].id)]

INSTANCE ReleaseRun WITH N <- Len(Items)

decisionVars == <<approved, attempted, budget, applying, failed, landed,
                  planned, started, phase, stop>>
targetVars == <<at, seen, readFrom, cause, exit, faults>>
vars == <<worldVars, decisionVars, targetVars>>

NoRelease == [id |-> 0, nth |-> 0]
NoShown == [held |-> "none", draft |-> FALSE,
            assets |-> [a \in Assets |-> "none"], extra |-> FALSE]
NothingSeen == [package |-> "none", docs |-> "none", tag |-> "none",
                release |-> NoShown]

(* How an observation shows an object that it compares with the Candidate. *)
presence(held) ==
  CASE held = "none" -> "Absent" [] held = "mine" -> "Matches" [] OTHER -> "Differs"

Required(h) == \E k \in DOMAIN HookList : HookList[k].id = h /\ HookList[k].required

(* An unfinished asset still counts as missing while the Release is a      *)
(* draft, since the upload can be completed.                               *)
PresenceBrokenOff(held, draft) ==
  IF held = "unfinished" THEN "Differs" ELSE presence(held)

AssetPresence(held, draft) ==
  IF held # "unfinished" THEN presence(held)
  ELSE IF draft THEN "Pending" ELSE "Differs"

FinalPresence(shown) ==
  IF shown.held = "none" THEN "Absent"
  ELSE IF shown.draft THEN "Pending" ELSE "Matches"

(* The presence of one item, given what the reads showed and which         *)
(* notifications they showed complete, or unknown to them.                 *)
ItemPresence(item, known, complete) ==
  LET shown == seen.release
  IN CASE item.kind = "tag"      -> presence(seen.tag)
       [] item.kind = "draft"    -> presence(shown.held)
       [] item.kind = "package"  -> presence(seen.package)
       [] item.kind = "docs"     -> presence(seen.docs)
       [] item.kind = "asset"    -> AssetPresence(shown.assets[item.name], shown.draft)
       [] item.kind = "finalize" -> FinalPresence(shown)
       [] item.kind = "notify"   -> IF ~known THEN "Absent"
                                    ELSE IF item.name \in complete THEN "Matches"
                                    ELSE "Pending"

ItemWanted(item) ==
  CASE item.kind \in {"draft", "finalize"} -> WantsRelease
    [] item.kind = "docs"                  -> WantsDocs
    [] OTHER                               -> TRUE

ObjectNotifyingAtWill(item, known, complete) ==
  [wanted   |-> ItemWanted(item),
   presence |-> ItemPresence(item, known, complete),
   blocking |-> item.kind # "notify"]

ObjectOf(item, known, complete) ==
  [wanted   |-> ItemWanted(item),
   presence |-> ItemPresence(item, known, complete),
   blocking |-> item.kind = "notify" => Required(item.name)]

Unsealed == [wanted |-> FALSE, presence |-> "Differs", blocking |-> TRUE]

(* The objects in publication order.  An asset that the Candidate does not *)
(* seal is one more object, between the sealed ones and the finalization.  *)
Objects(known, complete) ==
  LET listed == [i \in DOMAIN Items |-> ObjectOf(Items[i], known, complete)]
      before == 4 + Len(AssetList)
  IN IF seen.release.extra
       THEN SubSeq(listed, 1, before) \o <<Unsealed>>
              \o SubSeq(listed, before + 1, Len(listed))
       ELSE listed

(***************************************************************************)
(* The exit status (failure.rs, run_error and the release command).        *)
(***************************************************************************)
ExitOf(class) ==
  CASE class = "Internal" -> 1
    [] class = "PolicyOrApproval" -> 3
    [] class = "ImmutableStateConflict" -> 4
    [] class = "TemporaryExternal" -> 5
    [] class = "Hook" -> 6
    [] class = "PartialRelease" -> 7

RunErrorExit(state, class) ==
  ExitOf(CASE state = "Conflict" -> "ImmutableStateConflict"
           [] state = "PartiallyReleased" -> "PartialRelease"
           [] state = "AwaitingApproval" -> "PolicyOrApproval"
           [] OTHER -> class)

(* The status of a run that has stopped, given the class of the error of   *)
(* an observation that failed.                                             *)
StopExit(stopped, class) ==
  CASE stopped.kind = "None" -> Unset
    [] stopped.kind = "Finish" ->
         IF stopped.state = "AwaitingApproval" THEN ExitOf("PolicyOrApproval") ELSE 0
    [] stopped.kind \in {"Diverged", "Reshaped"} -> RunErrorExit(stopped.state, "Internal")
    [] stopped.kind = "Failed" -> RunErrorExit(stopped.state, cause)
    [] OTHER -> RunErrorExit(stopped.state, class)

Stops(class) == exit' = StopExit(stop', class)

FaultHappens == faults < MaxFaults /\ faults' = faults + 1
NoFault == UNCHANGED faults

(***************************************************************************)
(* LiveReleaseTarget::observe: its reads, in order.                        *)
(***************************************************************************)
Reads(what, next) ==
  /\ phase = "observing"
  /\ at = what
  /\ at' = next
  /\ NoFault
  /\ UNCHANGED <<worldVars, decisionVars, readFrom, cause, exit>>

ReadPackage ==
  /\ Reads("package", "docs")
  /\ seen' = [seen EXCEPT !.package = IF "package" \in visible THEN package ELSE "none"]

ReadDocs ==
  /\ Reads("docs", "tag")
  /\ seen' = [seen EXCEPT !.docs = IF "docs" \in visible THEN docs ELSE "none"]

ReadTag ==
  /\ Reads("tag", "release")
  /\ seen' = [seen EXCEPT !.tag = tag]

(* The Candidate's own Release with an unfinished asset that no run may    *)
(* complete: one it does not seal, or any on a published Release.          *)
RefusesUnfinished(r) ==
  /\ r.mine
  /\ \/ r.extra = "unfinished"
     \/ ~r.draft /\ \E a \in Assets : r.assets[a] = "unfinished"

ReadRelease ==
  /\ Reads("release", "hooks")
  /\ Len(releases) <= 1
  /\ \A k \in DOMAIN releases : ~RefusesUnfinished(releases[k])
  /\ seen' = [seen EXCEPT !.release =
       IF releases = <<>> THEN NoShown
       ELSE [held   |-> IF releases[1].mine THEN "mine" ELSE "other",
             draft  |-> releases[1].draft,
             assets |-> releases[1].assets,
             extra  |-> releases[1].extra # "none"]]

Unobservable(contradicts, class) ==
  /\ ObservationFails(contradicts)
  /\ Stops(class)
  /\ at' = "-"
  /\ seen' = NothingSeen
  /\ cause' = "-"
  /\ UNCHANGED <<worldVars, readFrom>>

(* The world itself contradicts the Candidate.                             *)
ReadConflict ==
  /\ at = "release"
  /\ Len(releases) > 1 \/ \E k \in DOMAIN releases : RefusesUnfinished(releases[k])
  /\ Unobservable(TRUE, "ImmutableStateConflict")
  /\ NoFault

ReadFails ==
  /\ at \in {"package", "docs", "tag", "release"}
  /\ FaultHappens
  /\ Unobservable(FALSE, "TemporaryExternal")

(* Notifications are observed only of a release whose core is published.   *)
CoreReleased ==
  /\ seen.package # "none"
  /\ WantsDocs => seen.docs # "none"
  /\ seen.tag # "none"
  /\ WantsRelease => seen.release.held # "none" /\ ~seen.release.draft

RequiredHookFails ==
  /\ at = "hooks"
  /\ CoreReleased
  /\ \E h \in Hooks : Required(h)
  /\ FaultHappens
  /\ Unobservable(FALSE, "Hook")

FirstStep(item) ==
  IF item.kind \in {"tag", "asset", "finalize"} THEN "read" ELSE "write"

(* The hooks are read and the run decides.  An optional hook that cannot   *)
(* observe its delivery counts as incomplete.                              *)
Decide ==
  /\ at = "hooks"
  /\ \E unreadable \in SUBSET {h \in Hooks : ~Required(h)} :
       /\ IF unreadable = {} THEN NoFault ELSE CoreReleased /\ FaultHappens
       /\ Observed(Objects(CoreReleased, delivered \ unreadable))
  /\ Stops("-")
  /\ seen' = NothingSeen
  /\ at' = IF phase' = "applying" THEN FirstStep(Items[applying']) ELSE "-"
  /\ cause' = "-"
  /\ UNCHANGED <<worldVars, readFrom>>

(***************************************************************************)
(* LiveReleaseTarget::apply.                                               *)
(***************************************************************************)
Effect == Items[applying]
IsRegistryEffect == Effect.kind \in {"package", "docs"}

(* The call of the effect ends, and the shell observes again.              *)
ApplySucceeds ==
  /\ Applied(TRUE)
  /\ at' = "package"
  /\ readFrom' = NoRelease
  /\ UNCHANGED <<seen, cause, exit>>

ApplyFails(class) ==
  /\ Applied(FALSE)
  /\ at' = "package"
  /\ readFrom' = NoRelease
  /\ cause' = class
  /\ UNCHANGED <<seen, exit>>

GoesOn(next) ==
  /\ at' = next
  /\ UNCHANGED <<decisionVars, seen, cause, exit>>

FailureClass ==
  IF Effect.kind = "notify" THEN "Hook" ELSE "TemporaryExternal"

(* The tag is read again before it is created.                             *)
ApplyReadsTag ==
  /\ at = "read"
  /\ Effect.kind = "tag"
  /\ \/ tag = "none" /\ GoesOn("write") /\ UNCHANGED readFrom
     \/ tag = "mine" /\ ApplySucceeds
     \/ tag = "other" /\ ApplyFails("TemporaryExternal")
  /\ NoFault
  /\ UNCHANGED worldVars

(* An upload and a finalization read the Release again.                    *)
ApplyReadsNoRelease ==
  /\ at = "read"
  /\ Effect.kind \in {"asset", "finalize"}
  /\ \/ releases = <<>> /\ ApplyFails("TemporaryExternal")
     \/ Len(releases) > 1 /\ ApplyFails("ImmutableStateConflict")
  /\ NoFault
  /\ UNCHANGED worldVars

ApplyReadsRelease ==
  /\ at = "read"
  /\ Effect.kind = "finalize"
  /\ Len(releases) = 1
  /\ GoesOn("write")
  /\ readFrom' = [id |-> 1, nth |-> 0]
  /\ NoFault
  /\ UNCHANGED worldVars

(* Only an asset that a broken upload left on the Candidate's own draft    *)
(* may be deleted.                                                         *)
ClobbersAsset(r, held) == held # "none" /\ r.mine /\ r.draft

MayDelete(r, held) == held = "unfinished" /\ r.mine /\ r.draft

(* An asset that the Release already holds is kept, a different one is an  *)
(* error, and one left unfinished on the Candidate's draft is deleted.     *)
ApplyReadsAsset ==
  /\ at = "read"
  /\ Effect.kind = "asset"
  /\ Len(releases) = 1
  /\ LET r == releases[1]
         held == r.assets[Effect.name]
     IN \/ held = "mine" /\ ApplySucceeds
        \/ held = "other" /\ ApplyFails("TemporaryExternal")
        \/ held = "unfinished" /\ ~r.mine /\ ApplyFails("ImmutableStateConflict")
        \/ held = "unfinished" /\ r.mine /\ ~r.draft /\ ApplyFails("TemporaryExternal")
        \/ MayDelete(r, held) /\ GoesOn("delete")
             /\ readFrom' = [id |-> 1, nth |-> r.deleted[Effect.name]]
        \/ held = "none" /\ r.draft /\ GoesOn("write")
             /\ readFrom' = [id |-> 1, nth |-> 0]
        \/ held = "none" /\ ~r.draft /\ ApplyFails("TemporaryExternal")
  /\ NoFault
  /\ UNCHANGED worldVars

WriteRequest ==
  CASE at = "delete"            -> DeleteRequest(readFrom.id, Effect.name, readFrom.nth)
    [] at # "delete" /\ Effect.kind = "asset" -> UploadRequest(readFrom.id, Effect.name)
    [] Effect.kind = "finalize" -> ReleaseRequest("finalize", readFrom.id)
    [] Effect.kind = "notify"   -> NotifyRequest(Effect.name)
    [] OTHER                    -> Request(Effect.kind)

Writing == phase = "applying" /\ at \in {"delete", "write"}

WriteSucceeds ==
  /\ Writing
  /\ Accepts(WriteRequest)
  /\ Commits(WriteRequest, sent)
  /\ IF at = "delete" THEN GoesOn("write") /\ UNCHANGED readFrom
     ELSE IF IsRegistryEffect THEN GoesOn("poll") /\ UNCHANGED readFrom
     ELSE ApplySucceeds
  /\ NoFault

(* A call that ends in an error.  The registry's ambiguous answers - a     *)
(* lost one, a conflict, a server error - are polled for all the same.     *)
WriteErrs ==
  \/ ApplyFails(FailureClass)
  \/ IsRegistryEffect /\ GoesOn("poll") /\ UNCHANGED readFrom

WriteIsRefused ==
  /\ Writing
  /\ ~Accepts(WriteRequest)
  /\ WriteErrs
  /\ NoFault
  /\ UNCHANGED worldVars

WriteFails ==
  /\ Writing
  /\ FaultHappens
  /\ WriteErrs
  /\ UNCHANGED worldVars

(* The answer is lost, and the request may take effect later.              *)
WriteIsLost ==
  /\ Writing
  /\ FaultHappens
  /\ IF IsRegistryEffect THEN GoesOn("poll") /\ UNCHANGED readFrom
                         ELSE ApplyFails(FailureClass)
  /\ sent' = sent \cup {WriteRequest}
  /\ UNCHANGED <<tag, package, docs, releases, visible, delivered, rivals>>

UploadBreaksOff ==
  /\ Writing
  /\ FaultHappens
  /\ ApplyFails("TemporaryExternal")
  /\ BreaksOff(WriteRequest)

(* The registry is polled until it shows what was published, and that has  *)
(* to be exactly what the Candidate seals.                                 *)
PollSees ==
  /\ phase = "applying"
  /\ at = "poll"
  /\ Effect.kind \in visible
  /\ IF (IF Effect.kind = "package" THEN package ELSE docs) = "mine"
       THEN ApplySucceeds ELSE ApplyFails("TemporaryExternal")
  /\ NoFault
  /\ UNCHANGED worldVars

(* The poll gives up, on a registry that holds nothing new or is slow.     *)
PollTimesOut ==
  /\ phase = "applying"
  /\ at = "poll"
  /\ Effect.kind \notin visible
  /\ IF (IF Effect.kind = "package" THEN package ELSE docs) = "none"
       THEN NoFault ELSE FaultHappens
  /\ ApplyFails("TemporaryExternal")
  /\ UNCHANGED worldVars

(* A read of the apply fails.                                              *)
ApplyReadFails ==
  /\ phase = "applying"
  /\ at \in {"read", "poll"}
  /\ FaultHappens
  /\ ApplyFails("TemporaryExternal")
  /\ UNCHANGED worldVars

(***************************************************************************)
(* Runs.                                                                   *)
(***************************************************************************)
Begins ==
  /\ \E approves \in Approvals : Restart(approves)
  /\ at' = "package"
  /\ seen' = NothingSeen
  /\ readFrom' = NoRelease
  /\ cause' = "-"
  /\ exit' = Unset

(* The release command is run again, with the same Candidate.              *)
Rerun ==
  /\ phase = "stopped"
  /\ Begins
  /\ NoFault
  /\ UNCHANGED worldVars

(* The job is killed, perhaps with its request under way, and run again.   *)
KilledAndRerun ==
  /\ phase # "stopped"
  /\ FaultHappens
  /\ Begins
  /\ \/ UNCHANGED sent
     \/ Writing /\ sent' = sent \cup {WriteRequest}
  /\ UNCHANGED <<tag, package, docs, releases, visible, delivered, rivals>>

Init ==
  /\ WorldInit
  /\ \E approves \in Approvals : RunInit(approves)
  /\ at = "package"
  /\ seen = NothingSeen
  /\ readFrom = NoRelease
  /\ cause = "-"
  /\ exit = Unset
  /\ faults = 0

Observe == ReadPackage \/ ReadDocs \/ ReadTag \/ ReadRelease \/ Decide
ObserveInVain == ReadConflict \/ ReadFails \/ RequiredHookFails

Apply ==
  \/ ApplyReadsTag \/ ApplyReadsNoRelease \/ ApplyReadsRelease \/ ApplyReadsAsset
  \/ WriteSucceeds \/ WriteIsRefused \/ PollSees \/ PollTimesOut
ApplyInVain == WriteFails \/ WriteIsLost \/ UploadBreaksOff \/ ApplyReadFails

WorldMoves == WorldNext /\ UNCHANGED <<decisionVars, targetVars>>

Next ==
  \/ Observe \/ ObserveInVain
  \/ Apply \/ ApplyInVain
  \/ Rerun \/ KilledAndRerun
  \/ WorldMoves

Spec == Init /\ [][Next]_vars

(***************************************************************************)
(* What publication promises.                                              *)
(***************************************************************************)
Step == {"-", "package", "docs", "tag", "release", "hooks",
         "read", "delete", "write", "poll"}

TypeOK ==
  /\ RunTypeOK
  /\ {tag, package, docs} \subseteq Held
  /\ releases \in Seq(Release)
  /\ visible \subseteq {"package", "docs"}
  /\ delivered \subseteq Hooks
  /\ rivals \subseteq Rivals
  /\ at \in Step
  /\ exit \in {Unset} \cup 0..7
  /\ faults \in 0..MaxFaults

(* The Release that the Candidate describes is published, with exactly the *)
(* assets that it seals.                                                   *)
IsComplete(r) == r.mine /\ ~r.draft /\ \A a \in Assets : r.assets[a] = "mine"

(* A release command that exits 0 told the truth: everything the Candidate *)
(* needs is really published, although its observation was five reads that *)
(* the world moved between (execute, observe).                             *)
SuccessIsTrue ==
  exit = 0 =>
    /\ tag = "mine" /\ package = "mine"
    /\ WantsDocs => docs = "mine"
    /\ WantsRelease => \E id \in DOMAIN releases : IsComplete(releases[id])
    /\ \A h \in Hooks : Required(h) => h \in delivered

(* No step of a run, of an earlier run's late request or of another        *)
(* publisher takes back or replaces what was published: the tag, the       *)
(* package, the docs, a published Release and an uploaded asset stay.      *)
HeldStays ==
  [][/\ tag # "none" => tag' = tag
     /\ package # "none" => package' = package
     /\ docs # "none" => docs' = docs
     /\ \A id \in DOMAIN releases :
          /\ ~releases[id].draft => ~releases'[id].draft
          /\ \A a \in Assets :
               releases[id].assets[a] \in {"mine", "other"} =>
                 releases'[id].assets[a] = releases[id].assets[a]]_vars

(* Within one run no effect is applied twice: neither an ambiguous publish *)
(* nor a late answer makes the run send again what it already sent.        *)
AppliedOnce ==
  [][phase = "observing" /\ phase' = "applying" => applying' \notin attempted]_vars
=============================================================================

--------------------------- MODULE RehearsalProofs ---------------------------
(***************************************************************************)
(* What a Candidate says of the commit it was built from, and what is      *)
(* published of it, proved for every policy, every list of hooks and every *)
(* number of writes to the snapshot and alterations of the directory.      *)
(*                                                                         *)
(* The invariant has a part for each place that the release passes.        *)
(* Reviewed follows the committed package from digest to digest of the     *)
(* snapshot up to the artifacts; SealInv says what a sealed manifest       *)
(* holds; StoreInv what the directory is until somebody alters it; and     *)
(* PublisherInv what each step of the release command has established, of  *)
(* a directory that may change under it.                                   *)
(***************************************************************************)
EXTENDS Rehearsals, TLAPS, SequenceTheorems

(***************************************************************************)
(* Types.                                                                  *)
(***************************************************************************)
Definitions == UNION {ToSet(policy[field]) : policy \in Policies, field \in Defined}
HookIds == {item.id : item \in Definitions} \cup {BUILT_IN}
EvidenceType == [kind : HookPhases, id : HookIds, required : BOOLEAN, success : BOOLEAN]
Contents == {"sbom", "provenance", "report"}
SidecarType == [path : HookIds \X Contents, public : BOOLEAN, signature : BOOLEAN,
                sha256 : [content : Contents, packing : {0}]]
SnapshotType == [code : {"committed", "changed"}, notes : Nat]
HookType == [state : {"idle", "spawning", "running", "ended"}, attempt : Nat,
             output : {"none", "success", "failure", "error"},
             rest : {"none", "holds", "quiet"},
             result : {"none", "success", "failure", "error"}]

(* An artifact as the build describes it. *)
Built(artifacts) ==
  \A path \in DOMAIN artifacts :
    \E code \in {"committed", "changed"} : artifacts[path] = Described(File(code, 0))

MadeType ==
  /\ made = [artifacts |-> made.artifacts, evidence |-> made.evidence,
             sidecars |-> made.sidecars]
  /\ Built(made.artifacts)
  /\ made.evidence \in Seq(EvidenceType)
  /\ made.sidecars \in Seq(SidecarType)

(* A manifest, whoever wrote it. *)
IsManifest(manifest) ==
  /\ manifest = [field \in ManifestFields \cup {"candidate_digest"} |-> manifest[field]]
  /\ manifest.evidence \in Seq(EvidenceType)
  /\ manifest.sidecars \in Seq(SidecarType)

Typed ==
  /\ committed \in Policies
  /\ snapshot \in SnapshotType
  /\ at \in {"start", "verify", "assemble", "sidecar", "staged"} \cup Over
  /\ hooks \in Seq(Definitions)
  /\ hook \in HookType
  /\ digested \in SnapshotType \cup {None}
  /\ straggler \in BOOLEAN
  /\ MadeType

(***************************************************************************)
(* The rehearsal.                                                          *)
(***************************************************************************)
Quiet == hook.state \in {"idle", "spawning"}

(* Where the rehearsal is with its hooks.                                  *)
PlaceInv ==
  /\ Quiet => hook.rest = "none"
  /\ hook.state # "idle" => hooks # <<>>
  /\ at = "start" => digested = None
  /\ at \in {"start", "assemble", "staged", "sealed"} => hook.state = "idle"
  /\ at = "verify" /\ hook.state # "idle" => digested # None

AllCommitted(artifacts) ==
  \A path \in DOMAIN artifacts : artifacts[path].sha256.content = "committed"

(* The snapshot is the committed one whenever nothing runs, and it was at  *)
(* the last digest; and so is what was built of it.                        *)
Reviewed ==
  ~straggler =>
    /\ at \in {"start", "verify"} /\ Quiet => snapshot.code = "committed"
    /\ at = "verify" /\ digested # None => digested.code = "committed"
    /\ AllCommitted(made.artifacts)

(***************************************************************************)
(* The sealed Candidate.                                                   *)
(***************************************************************************)
SelfDigested(manifest) == candidate_digest(manifest) = manifest.candidate_digest

Wellformed(manifest) ==
  /\ IsManifest(manifest)
  /\ SelfDigested(manifest)
  /\ Built(manifest.artifacts)
  /\ manifest.intent_digest = intent_digest(manifest.policy, manifest.artifacts)
  /\ \A field \in Defined : manifest.policy[field] = committed[field]

SealInv ==
  /\ at = "staged" => IsSealable
  /\ (sealed = None) <=> (at # "sealed")
  /\ (sealed = None) <=> (directory = None)
  /\ sealed # None =>
       /\ Sealable(sealed)
       /\ Wellformed(sealed)
       /\ ~straggler => AllCommitted(sealed.artifacts)

(***************************************************************************)
(* The directory, and the release command.                                 *)
(***************************************************************************)
StoreInv ==
  directory # None =>
    /\ directory = [manifest |-> directory.manifest, files |-> directory.files]
    /\ IsManifest(directory.manifest)
    /\ alterations = 0 => directory = Holding(sealed)

Steps == {"waiting", "verified", "bound", "reading", "read", "done", "refused"}
Under == {"verified", "bound", "reading", "read", "done"}

PublisherInv ==
  /\ publisher = [at |-> publisher.at, bound |-> publisher.bound,
                  manifest |-> publisher.manifest, payload |-> publisher.payload]
  /\ publisher.at \in Steps
  /\ disturbed \in BOOLEAN /\ alterations \in Nat
  /\ approved # None => IsManifest(approved) /\ SelfDigested(approved)
  /\ publisher.at \in Under => directory # None /\ approved # None
  /\ publisher.at \in {"reading", "read", "done"} =>
       IsManifest(publisher.manifest) /\ SelfDigested(publisher.manifest)
  /\ publisher.at \in {"read", "done"} =>
       publisher.payload = [path \in Payload(publisher.manifest) |->
                              Sha256At(publisher.manifest, path)]
  /\ publisher.at = "done" => IsApproved

(* What a directory that nobody touched under the release command gave it. *)
UndisturbedInv ==
  ~disturbed =>
    /\ publisher.at \in Under => publisher.bound = directory.manifest
    /\ publisher.at \in Under \ {"verified"} =>
         differences(publisher.bound.policy, committed) = {}
    /\ publisher.at \in {"reading", "read", "done"} =>
         publisher.manifest = directory.manifest /\ Sealable(publisher.manifest)

RehearsalInv ==
  /\ Typed /\ PlaceInv /\ Reviewed
  /\ SealInv /\ StoreInv /\ PublisherInv /\ UndisturbedInv


-----------------------------------------------------------------------------
(* Facts about the definitions. *)

LEMMA LargerSequences ==
  ASSUME NEW S, NEW T, S \subseteq T, NEW s \in Seq(S)
  PROVE  s \in Seq(T)
<1>1. Len(s) \in Nat /\ s \in [1..Len(s) -> S]
  BY LenProperties
<1>2. s \in [1..Len(s) -> T]
  BY <1>1
<1>3. QED BY <1>1, <1>2, SeqDef

(* The hooks of the committed policy. *)
LEMMA CommittedHooks ==
  ASSUME committed \in Policies, NEW field \in Defined
  PROVE  /\ committed[field] \in Seq(Definitions)
         /\ \A k \in 1..Len(committed[field]) : committed[field][k] \in Definitions
<1>1. committed[field] \in Seq(ToSet(committed[field]))
  BY PoliciesAssumption
<1>2. ToSet(committed[field]) \subseteq Definitions
  BY DEF Definitions
<1>3. committed[field] \in Seq(Definitions)
  BY <1>1, <1>2, LargerSequences
<1>4. QED BY <1>3, LenProperties

LEMMA DefinitionsTyped ==
  ASSUME NEW item \in Definitions
  PROVE  item.id \in HookIds /\ item.required \in BOOLEAN
<1>1. PICK policy \in Policies, field \in Defined : item \in ToSet(policy[field])
  BY DEF Definitions
<1>2. item.required \in BOOLEAN
  BY <1>1, PoliciesAssumption
<1>3. QED BY <1>2 DEF HookIds

(* The policy that is sealed is the committed one but for the notes. *)
LEMMA PolicyFields ==
  ASSUME committed \in Policies
  PROVE  /\ Policy["release_notes"] = snapshot.notes
         /\ DOMAIN Policy = SealedPolicy
         /\ \A field \in SealedPolicy \ {"release_notes"} : Policy[field] = committed[field]
         /\ \A field \in Defined : Policy[field] = committed[field]
<1>1. DOMAIN committed = SealedPolicy /\ "release_notes" \in SealedPolicy
  BY PoliciesAssumption DEF SealedPolicy
<1>2. Defined \subseteq SealedPolicy \ {"release_notes"}
  BY DEF Defined, SealedPolicy
<1>3. \A field \in SealedPolicy \ {"release_notes"} : Policy[field] = committed[field]
  BY <1>1 DEF Policy
<1>4. Policy["release_notes"] = snapshot.notes /\ DOMAIN Policy = SealedPolicy
  BY <1>1 DEF Policy
<1>5. QED BY <1>2, <1>3, <1>4

(* The fields of a manifest that was made with its digests. *)
LEMMA DigestedFields ==
  ASSUME NEW commit, NEW policy, NEW artifacts, NEW evidence, NEW sidecars,
         NEW manifest, manifest = Digested(Undigested(commit, policy, artifacts, evidence, sidecars))
  PROVE  /\ manifest.source = commit /\ manifest.policy = policy
         /\ manifest.artifacts = artifacts /\ manifest.evidence = evidence
         /\ manifest.sidecars = sidecars
         /\ manifest.intent_digest = intent_digest(policy, artifacts)
         /\ SelfDigested(manifest)
         /\ manifest = [field \in ManifestFields \cup {"candidate_digest"} |-> manifest[field]]
<1> DEFINE m == Undigested(commit, policy, artifacts, evidence, sidecars)
<1>1. /\ m["source"] = commit /\ m["policy"] = policy /\ m["artifacts"] = artifacts
      /\ m["evidence"] = evidence /\ m["sidecars"] = sidecars
      /\ m["intent_digest"] = intent_digest(policy, artifacts)
  BY DEF Undigested
<1>2. manifest = [field \in ManifestFields \cup {"candidate_digest"} |->
                    IF field = "candidate_digest" THEN candidate_digest(m) ELSE m[field]]
  BY DEF Digested
<1>3. manifest["candidate_digest"] = candidate_digest(m)
  BY <1>2
<1>4. \A field \in ManifestFields : manifest[field] = m[field]
  BY <1>2 DEF ManifestFields
<1>5. {"source", "policy", "artifacts", "evidence", "sidecars", "intent_digest"} = ManifestFields
  BY DEF ManifestFields
<1>6. candidate_digest(manifest) = candidate_digest(m)
  BY <1>4 DEF candidate_digest
<1>7. SelfDigested(manifest)
  BY <1>3, <1>6 DEF SelfDigested
<1>8. manifest = [field \in ManifestFields \cup {"candidate_digest"} |-> manifest[field]]
  BY <1>2
<1>9. QED BY <1>1, <1>4, <1>5, <1>7, <1>8


LEMMA SealedStates ==
  ASSUME NEW s \in SnapshotType
  PROVE  /\ s # None
         /\ s.code \in {"committed", "changed"} /\ s.notes \in Nat
<1>1. DOMAIN s = {"code", "notes"}
  BY DEF SnapshotType
<1>2. DOMAIN None = {}
  BY DEF None
<1>3. QED BY <1>1, <1>2 DEF SnapshotType

-----------------------------------------------------------------------------
(* What a step of the rehearsal leaves alone. *)
LEMMA Elsewhere ==
  ASSUME RehearsalInv, UNCHANGED <<committed, sealed, directory, release, alterations>>,
         at # "sealed", at' # "sealed", at' = "staged" => IsSealable'
  PROVE  SealInv' /\ StoreInv' /\ PublisherInv' /\ UndisturbedInv'
<1> USE DEF RehearsalInv, release
<1>1. SealInv'
  BY DEF SealInv
<1>2. StoreInv'
  BY DEF StoreInv
<1>3. PublisherInv'
  BY DEF PublisherInv, IsApproved
<1>4. UndisturbedInv'
  BY DEF UndisturbedInv
<1>5. QED BY <1>1, <1>2, <1>3, <1>4

(* The rehearsal's own part of the invariant, a step that goes on with it,  *)
(* and one that ends it.                                                   *)
LEMMA GoesOn ==
  ASSUME RehearsalInv, NEW step, Goes(step), at # "sealed", step # "sealed",
         Typed', PlaceInv', Reviewed', step = "staged" => IsSealable'
  PROVE  RehearsalInv'
<1>1. at' = step /\ UNCHANGED <<committed, sealed, directory, release, alterations>>
  BY DEF Goes
<1>2. SealInv' /\ StoreInv' /\ PublisherInv' /\ UndisturbedInv'
  BY <1>1, Elsewhere
<1>3. QED BY <1>2 DEF RehearsalInv

LEMMA Ends ==
  ASSUME RehearsalInv, NEW step \in {"failed", "killed"}, Goes(step), at \notin Over,
         UNCHANGED <<snapshot, hooks, hook, straggler, digested, made, touches>>
  PROVE  RehearsalInv'
<1> USE DEF RehearsalInv
<1>1. at' = step /\ UNCHANGED committed
  BY DEF Goes
<1>2. Typed'
  BY <1>1 DEF Typed, Over, MadeType
<1>3. PlaceInv'
  BY <1>1 DEF PlaceInv, Quiet
<1>4. Reviewed'
  BY <1>1 DEF Reviewed, Quiet, AllCommitted
<1>5. step # "sealed" /\ step # "staged" /\ at # "sealed"
  BY DEF Over
<1>6. QED BY <1>2, <1>3, <1>4, <1>5, GoesOn


-----------------------------------------------------------------------------
(* The steps of the rehearsal, one lemma each. *)

LEMMA FailsKeeps ==
  ASSUME RehearsalInv, at \notin Over, Fails
  PROVE  RehearsalInv'
BY Ends DEF Fails

LEMMA StartsKeeps ==
  ASSUME RehearsalInv, Starts
  PROVE  RehearsalInv'
<1> USE DEF RehearsalInv
<1>1. at = "start" /\ at \notin Over
  BY DEF Starts, Over
<1>2. CASE Fails
  BY <1>1, <1>2, FailsKeeps
<1>3. CASE /\ Goes("verify")
           /\ hooks' = committed["verify_hook_definitions"]
           /\ UNCHANGED <<snapshot, hook, straggler, digested, made, touches>>
  <2>1. at' = "verify" /\ UNCHANGED committed
    BY <1>3 DEF Goes
  <2>2. hooks' \in Seq(Definitions)
    BY <1>3, CommittedHooks DEF Typed, Defined
  <2>3. Typed'
    BY <1>3, <2>1, <2>2 DEF Typed, Over, MadeType
  <2>4. hook.state = "idle" /\ Quiet
    BY <1>1 DEF PlaceInv, Quiet
  <2>5. PlaceInv'
    BY <1>3, <2>1, <2>4 DEF PlaceInv, Quiet
  <2>6. digested = None
    BY <1>1 DEF PlaceInv
  <2>7. Reviewed'
    BY <1>1, <1>3, <2>1, <2>4, <2>6 DEF Reviewed, Quiet, AllCommitted
  <2>8. at # "sealed"
    BY <1>1
  <2>9. QED BY <2>8, <1>3, <2>3, <2>5, <2>7, GoesOn
<1>4. QED BY <1>2, <1>3 DEF Starts

LEMMA PreparesKeeps ==
  ASSUME RehearsalInv, Prepares
  PROVE  RehearsalInv'
<1> USE DEF RehearsalInv
<1>1. /\ at \in HookPhases /\ hooks # <<>> /\ hook.state = "idle"
      /\ hook' = [hook EXCEPT !.state = "spawning"]
      /\ Goes(at) /\ at' = at
      /\ UNCHANGED <<committed, snapshot, hooks, straggler, made, touches>>
  BY DEF Prepares, Goes
<1>2. digested' = IF digested = None THEN snapshot ELSE digested
  BY DEF Prepares
<1>3. at \notin Over /\ at # "sealed" /\ at # "staged"
  BY <1>1 DEF HookPhases, Over
<1>4. hook'.state = "spawning" /\ hook'.rest = hook.rest /\ hook' \in HookType
  BY <1>1 DEF Typed, HookType
<1>5. digested' \in SnapshotType /\ digested' # None
  BY <1>2, SealedStates DEF Typed
<1>6. Typed'
  BY <1>1, <1>4, <1>5 DEF Typed, MadeType
<1>7. PlaceInv'
  BY <1>1, <1>3, <1>4, <1>5 DEF PlaceInv, Quiet, HookPhases
<1>8. Reviewed'
  <2>1. SUFFICES ASSUME ~straggler
        PROVE  /\ at \in {"start", "verify"} => snapshot.code = "committed"
               /\ at = "verify" => digested'.code = "committed"
               /\ AllCommitted(made.artifacts)
    BY <1>1, <1>4 DEF Reviewed, AllCommitted
  <2>2. Quiet
    BY <1>1 DEF Quiet
  <2>3. QED BY <1>2, <2>1, <2>2 DEF Reviewed
<1>9. QED BY <1>1, <1>3, <1>6, <1>7, <1>8, GoesOn

(* A step of the hook's process, which leaves everything but the hook.     *)
LEMMA ProcessKeeps ==
  ASSUME RehearsalInv, Process,
         hook.state # "idle", hook' \in HookType, hook'.state # "idle",
         Quiet' => Quiet /\ hook'.rest = "none"
  PROVE  RehearsalInv'
<1> USE DEF RehearsalInv
<1>1. /\ Goes(at) /\ at' = at
      /\ UNCHANGED <<committed, snapshot, hooks, straggler, digested, made, touches>>
  BY DEF Process, Goes
<1>2. Typed'
  BY <1>1 DEF Typed, MadeType
<1>3. PlaceInv'
  BY <1>1 DEF PlaceInv
<1>4. Reviewed'
  BY <1>1 DEF Reviewed, AllCommitted
<1>5. at # "staged" /\ at # "sealed"
  BY DEF PlaceInv
<1>6. QED BY <1>1, <1>2, <1>3, <1>4, <1>5, GoesOn


LEMMA HookStepsKeep ==
  ASSUME RehearsalInv, Spawns \/ Exits \/ LetsGo \/ Completes \/ TimesOut
  PROVE  RehearsalInv'
<1> USE DEF RehearsalInv
<1>1. hook \in HookType
  BY DEF Typed
<1>2. CASE Spawns
  <2>1. Process /\ hook.state = "spawning" /\ Quiet
    BY <1>2 DEF Spawns, Quiet
  <2>2. hook.rest = "none"
    BY <2>1 DEF PlaceInv
  <2>3. hook' \in HookType /\ hook'.state # "idle" /\ hook'.rest = "none"
    <3>1. CASE hook' = [hook EXCEPT !.state = "running"]
      BY <1>1, <2>2, <3>1 DEF HookType
    <3>2. CASE hook' = [hook EXCEPT !.attempt = @ + 1]
      BY <1>1, <2>1, <2>2, <3>2 DEF HookType
    <3>3. CASE hook' = Ended("error")
      BY <1>1, <2>2, <3>3 DEF HookType, Ended
    <3>4. QED BY <1>2, <3>1, <3>2, <3>3 DEF Spawns
  <2>4. hook.state # "idle"
    BY <2>1
  <2>5. QED BY <2>1, <2>3, <2>4, ProcessKeeps
<1>3. CASE Exits
  <2>1. PICK output \in {"success", "failure", "error"}, rest \in Survivors :
          hook' = [hook EXCEPT !.output = output, !.rest = rest]
    BY <1>3 DEF Exits
  <2>2. Process /\ hook.state = "running"
    BY <1>3 DEF Exits
  <2>3. hook' \in HookType /\ hook'.state = "running"
    BY <1>1, <2>1, <2>2, SurvivorsAssumption DEF HookType
  <2>4. hook.state # "idle" /\ hook'.state # "idle" /\ ~Quiet'
    BY <2>2, <2>3 DEF Quiet
  <2>5. QED BY <2>2, <2>3, <2>4, ProcessKeeps
<1>4. CASE LetsGo
  <2>1. Process /\ hook.rest = "holds" /\ hook' = [hook EXCEPT !.rest = "none"]
    BY <1>4 DEF LetsGo
  <2>2. ~Quiet
    BY <2>1 DEF PlaceInv
  <2>3. hook' \in HookType /\ hook'.state = hook.state
    BY <1>1, <2>1 DEF HookType
  <2>4. hook.state # "idle" /\ hook'.state # "idle" /\ ~Quiet'
    BY <2>2, <2>3 DEF Quiet
  <2>5. QED BY <2>1, <2>3, <2>4, ProcessKeeps
<1>5. CASE Completes \/ TimesOut
  <2>1. Process /\ hook.state = "running" /\ (hook' = Ended(hook.output) \/ hook' = Killed)
    BY <1>5 DEF Completes, TimesOut
  <2>2. hook' \in HookType /\ hook'.state = "ended"
    <3>1. CASE hook' = Ended(hook.output)
      BY <1>1, <3>1 DEF HookType, Ended
    <3>2. CASE hook' = Killed
      <4>1. Ended("error") \in HookType /\ Ended("error").state = "ended"
        BY <1>1 DEF HookType, Ended
      <4>2. QED BY <3>2, <4>1 DEF HookType, Killed
    <3>3. QED BY <2>1, <3>1, <3>2
  <2>3. hook.state # "idle" /\ hook'.state # "idle" /\ ~Quiet'
    BY <2>1, <2>2 DEF Quiet
  <2>4. QED BY <2>1, <2>2, <2>3, ProcessKeeps
<1>6. QED BY <1>2, <1>3, <1>4, <1>5

(* What a process of a hook writes while nothing may still be running is   *)
(* written by one that was left behind.                                    *)
LEMMA TouchesKeeps ==
  ASSUME RehearsalInv, Touches
  PROVE  RehearsalInv'
<1> USE DEF RehearsalInv
<1>1. /\ Alive /\ at \notin Over
      /\ UNCHANGED <<committed, at, hooks, hook, straggler, digested, made, sealed, directory,
                     release, alterations>>
      /\ snapshot' \in {[snapshot EXCEPT !.code = "changed"], [snapshot EXCEPT !.code = "committed"]}
  BY DEF Touches
<1>2. snapshot' \in SnapshotType /\ snapshot'.notes = snapshot.notes
  BY <1>1 DEF Typed, SnapshotType
<1>3. Typed'
  BY <1>1, <1>2 DEF Typed, MadeType
<1>4. PlaceInv'
  BY <1>1 DEF PlaceInv, Quiet
<1>5. ~straggler => ~Quiet
  BY <1>1 DEF Alive, PlaceInv, Quiet
<1>6. Reviewed'
  BY <1>1, <1>5 DEF Reviewed, Quiet, AllCommitted
<1>7. at' = "staged" => IsSealable'
  <2>1. Policy' = Policy
    BY <1>1, <1>2 DEF Policy
  <2>2. Manifest' = Manifest
    BY <1>1, <2>1 DEF Manifest
  <2>3. IsSealable' <=> IsSealable
    BY <2>2 DEF IsSealable
  <2>4. QED BY <1>1, <2>3 DEF SealInv
<1>8. SealInv' /\ StoreInv' /\ PublisherInv' /\ UndisturbedInv'
  BY <1>1, <1>7, Elsewhere DEF Over
<1>9. QED BY <1>3, <1>4, <1>6, <1>8


(* What a hook leaves in the evidence is typed. *)
LEMMA ArtifactsTyped ==
  ASSUME NEW id \in HookIds, NEW report \in Reports
  PROVE  ArtifactsOf(id, report) \in Seq(SidecarType)
<1>1. CASE report = <<>>
  <2>1. DOMAIN report = {}
    BY <1>1
  <2>2. ArtifactsOf(id, report) = <<>>
    BY <2>1 DEF ArtifactsOf
  <2>3. QED BY <2>2
<1>2. CASE report # <<>>
  <2>1. PICK one \in [name : {"report", "sbom"}, public : BOOLEAN, signature : BOOLEAN] :
          report = <<one>>
    BY <1>2 DEF Reports
  <2> DEFINE item == Sidecar(id, one.name, one.public, one.signature, File(one.name, 0))
  <2>2. item \in SidecarType
    BY <2>1 DEF Sidecar, File, SidecarType, Contents
  <2>3. DOMAIN report = 1..1 /\ report[1] = one
    BY <2>1
  <2>4. ArtifactsOf(id, report) = [i \in 1..1 |-> item]
    BY <2>3 DEF ArtifactsOf
  <2>5. [i \in 1..1 |-> item] \in [1..1 -> SidecarType]
    BY <2>2
  <2>6. QED BY <2>4, <2>5, SeqDef
<1>3. QED BY <1>1, <1>2

(* A hook whose verdict is recorded left the snapshot as it was. *)
LEMMA RecordedKeeps ==
  ASSUME RehearsalInv, at \in HookPhases, hook.state = "ended", ~Modified,
         NEW sidecars \in Seq(SidecarType),
         Recorded(sidecars)
  PROVE  RehearsalInv'
<1> USE DEF RehearsalInv, Recorded
<1>1. at' = at /\ UNCHANGED committed
  BY DEF Goes
<1>2. hooks # <<>> /\ hooks \in Seq(Definitions)
  BY DEF PlaceInv, Typed
<1>3. Head(hooks) \in Definitions /\ Tail(hooks) \in Seq(Definitions)
  BY <1>2, HeadTailProperties
<1>4. Evidence(at, Head(hooks), Succeeded) \in EvidenceType
  BY <1>3, DefinitionsTyped DEF Evidence, EvidenceType, Succeeded
<1>5. /\ made'.evidence = Append(made.evidence, Evidence(at, Head(hooks), Succeeded))
      /\ made'.sidecars = made.sidecars \o sidecars
      /\ made'.artifacts = made.artifacts
      /\ made' = [artifacts |-> made'.artifacts, evidence |-> made'.evidence,
                  sidecars |-> made'.sidecars]
  BY DEF Typed, MadeType
<1>6. made'.evidence \in Seq(EvidenceType)
  BY <1>4, <1>5, AppendProperties DEF Typed, MadeType
<1>7. made'.sidecars \in Seq(SidecarType)
  BY <1>5, ConcatProperties DEF Typed, MadeType
<1>8. MadeType'
  BY <1>5, <1>6, <1>7 DEF Typed, MadeType, Built
<1>9. hook' \in HookType /\ hook'.state = "idle" /\ hook'.rest = "none"
  BY DEF Idle, HookType
<1>10. digested' \in SnapshotType /\ digested' # None
  BY SealedStates DEF Typed
<1>11. Typed'
  BY <1>1, <1>3, <1>8, <1>9, <1>10 DEF Typed
<1>12. at \notin {"start", "staged", "sealed"}
  BY DEF HookPhases
<1>13. PlaceInv'
  BY <1>1, <1>9, <1>12 DEF PlaceInv
<1>14. Reviewed'
  <2>1. SUFFICES ASSUME ~straggler, hook.rest = "none"
        PROVE  /\ at = "verify" => snapshot.code = "committed"
               /\ AllCommitted(made.artifacts)
    BY <1>1, <1>5, <1>12 DEF Reviewed, AllCommitted
  <2>2. at = "verify" => digested # None
    BY DEF PlaceInv
  <2>3. QED BY <2>1, <2>2 DEF Reviewed, Modified
<1>15. QED BY <1>1, <1>11, <1>12, <1>13, <1>14, GoesOn

LEMMA JudgedKeeps ==
  ASSUME RehearsalInv, Judged
  PROVE  RehearsalInv'
<1>1. at \in HookPhases /\ hook.state = "ended" /\ at \notin Over
  BY DEF Judged, HookPhases, Over
<1>2. CASE Fails
  BY <1>1, <1>2, FailsKeeps
<1>3. CASE ~Modified /\ Recorded(<<>>)
  <2>1. <<>> \in Seq(SidecarType)
    OBVIOUS
  <2>2. QED BY <1>1, <1>3, <2>1, RecordedKeeps
<1>4. ASSUME ~Modified, NEW report \in Reports, Recorded(ArtifactsOf(Head(hooks).id, report))
      PROVE  RehearsalInv'
  <2>1. hooks # <<>> /\ hooks \in Seq(Definitions)
    BY <1>1 DEF RehearsalInv, PlaceInv, Typed
  <2>2. Head(hooks).id \in HookIds
    BY <2>1, HeadTailProperties, DefinitionsTyped
  <2>3. ArtifactsOf(Head(hooks).id, report) \in Seq(SidecarType)
    BY <2>2, ArtifactsTyped
  <2>4. QED BY <1>1, <1>4, <2>3, RecordedKeeps
<1>5. \/ Fails
      \/ ~Modified /\ Recorded(<<>>)
      \/ ~Modified /\ \E report \in Reports : Recorded(ArtifactsOf(Head(hooks).id, report))
  BY DEF Judged
<1>6. QED BY <1>2, <1>3, <1>4, <1>5


LEMMA BuildsKeeps ==
  ASSUME RehearsalInv, Builds
  PROVE  RehearsalInv'
<1> USE DEF RehearsalInv
<1>1. at = "verify" /\ hook.state = "idle" /\ at \notin Over /\ at # "sealed"
  BY DEF Builds, Over
<1>2. CASE Fails
  BY <1>1, <1>2, FailsKeeps
<1>3. CASE ~Fails
  <2>1. /\ \E paths \in SUBSET {PACKAGE, INTERFACE, DOCS} :
             made' = [made EXCEPT !.artifacts =
                        [path \in paths |-> Described(File(snapshot.code, 0))]]
        /\ snapshot' = snapshot \/ \E notes \in NotesOfBuild : snapshot' = [snapshot EXCEPT !.notes = notes]
        /\ Goes("assemble") /\ UNCHANGED <<hooks, hook, straggler, digested, touches>>
    BY <1>3 DEF Builds
  <2>2. at' = "assemble" /\ UNCHANGED committed
    BY <2>1 DEF Goes
  <2>3. snapshot \in SnapshotType /\ snapshot.code \in {"committed", "changed"}
    BY SealedStates DEF Typed
  <2>4. snapshot' \in SnapshotType
    BY <2>1, <2>3, NotesAssumption DEF SnapshotType
  <2>5. PICK paths \in SUBSET {PACKAGE, INTERFACE, DOCS} :
          made' = [made EXCEPT !.artifacts =
                     [path \in paths |-> Described(File(snapshot.code, 0))]]
    BY <2>1
  <2>6. /\ made'.artifacts = [path \in paths |-> Described(File(snapshot.code, 0))]
        /\ made'.evidence = made.evidence /\ made'.sidecars = made.sidecars
        /\ made' = [artifacts |-> made'.artifacts, evidence |-> made'.evidence,
                    sidecars |-> made'.sidecars]
    BY <2>5 DEF Typed, MadeType
  <2>7. Built(made'.artifacts)
    BY <2>3, <2>6 DEF Built
  <2>8. MadeType'
    BY <2>6, <2>7 DEF Typed, MadeType
  <2>9. Typed'
    BY <2>1, <2>2, <2>4, <2>8 DEF Typed
  <2>10. PlaceInv'
    BY <1>1, <2>1, <2>2 DEF PlaceInv, Quiet
  <2>11. Reviewed'
    <3>1. SUFFICES ASSUME ~straggler
          PROVE  AllCommitted(made'.artifacts)
      BY <2>1, <2>2 DEF Reviewed
    <3>2. snapshot.code = "committed"
      BY <1>1, <3>1 DEF Reviewed, Quiet
    <3>3. \A path \in paths : made'.artifacts[path].sha256.content = "committed"
      BY <2>6, <3>2 DEF Described, File
    <3>4. QED BY <2>6, <3>3 DEF AllCommitted
  <2>12. QED BY <1>1, <2>1, <2>9, <2>10, <2>11, GoesOn
<1>4. QED BY <1>2, <1>3

LEMMA AssemblesKeeps ==
  ASSUME RehearsalInv, Assembles
  PROVE  RehearsalInv'
<1> USE DEF RehearsalInv
<1>1. at = "assemble" /\ hook.state = "idle" /\ at \notin Over /\ at # "sealed"
  BY DEF Assembles, Over, PlaceInv
<1>2. CASE Fails
  BY <1>1, <1>2, FailsKeeps
<1>3. CASE ~Fails
  <2>1. /\ Goes("sidecar")
        /\ hooks' = Policy["sidecar_hook_definitions"]
        /\ digested' = None
        /\ UNCHANGED <<snapshot, hook, straggler, made, touches>>
    BY <1>3 DEF Assembles
  <2>2. at' = "sidecar" /\ UNCHANGED committed
    BY <2>1 DEF Goes
  <2>3. hooks' \in Seq(Definitions)
    BY <2>1, PolicyFields, CommittedHooks DEF Typed, Defined
  <2>4. Typed'
    BY <2>1, <2>2, <2>3 DEF Typed, MadeType
  <2>5. PlaceInv'
    BY <1>1, <2>1, <2>2 DEF PlaceInv, Quiet
  <2>6. Reviewed'
    BY <1>1, <2>1, <2>2 DEF Reviewed, AllCommitted
  <2>7. QED BY <1>1, <2>1, <2>4, <2>5, <2>6, GoesOn
<1>4. QED BY <1>2, <1>3

LEMMA SealsKeeps ==
  ASSUME RehearsalInv, Seals
  PROVE  RehearsalInv'
<1> USE DEF RehearsalInv
<1>1. at = "sidecar" /\ hook.state = "idle" /\ at \notin Over /\ at # "sealed"
  BY DEF Seals, Over
<1>2. CASE Fails
  BY <1>1, <1>2, FailsKeeps
<1>3. CASE ~Fails
  <2>1. /\ IsSealable /\ Goes("staged")
        /\ UNCHANGED <<snapshot, hooks, hook, straggler, digested, made, touches>>
    BY <1>3 DEF Seals
  <2>2. at' = "staged" /\ UNCHANGED committed
    BY <2>1 DEF Goes
  <2>3. Typed'
    BY <2>1, <2>2 DEF Typed, MadeType
  <2>4. PlaceInv'
    BY <1>1, <2>1, <2>2 DEF PlaceInv, Quiet
  <2>5. Reviewed'
    BY <2>1, <2>2 DEF Reviewed, AllCommitted
  <2>6. IsSealable'
    <3>1. Policy' = Policy
      BY <2>1, <2>2 DEF Policy
    <3>2. Manifest' = Manifest
      BY <2>1, <3>1 DEF Manifest
    <3>3. QED BY <2>1, <3>2 DEF IsSealable
  <2>7. QED BY <1>1, <2>1, <2>3, <2>4, <2>5, <2>6, GoesOn
<1>4. QED BY <1>2, <1>3

LEMMA IsKilledKeeps ==
  ASSUME RehearsalInv, IsKilled
  PROVE  RehearsalInv'
BY Ends DEF IsKilled

(* The manifest that a rehearsal seals. *)
LEMMA ManifestFacts ==
  ASSUME Typed
  PROVE  /\ IsManifest(Manifest) /\ SelfDigested(Manifest)
         /\ Manifest.policy = Policy /\ Manifest.artifacts = made.artifacts
         /\ Manifest.intent_digest = intent_digest(Policy, made.artifacts)
<1> DEFINE sidecars == built_in_evidence(Policy) \o made.sidecars
           outputs == Policy["outputs"]
           public == outputs.github_release
                       /\ (~Policy["private"] \/ outputs.allow_private_upload)
           one(wanted, name, file) ==
             IF wanted THEN <<Sidecar(BUILT_IN, name, public, FALSE, file)>> ELSE <<>>
<1>1. made.evidence \in Seq(EvidenceType) /\ made.sidecars \in Seq(SidecarType)
  BY DEF Typed, MadeType
<1>2. BUILT_IN \in HookIds /\ public \in BOOLEAN
  BY DEF HookIds
<1>3. ASSUME NEW wanted, NEW name \in Contents
      PROVE  one(wanted, name, File(name, 0)) \in Seq(SidecarType)
  <2>1. Sidecar(BUILT_IN, name, public, FALSE, File(name, 0)) \in SidecarType
    BY <1>2 DEF Sidecar, File, SidecarType
  <2> DEFINE item == Sidecar(BUILT_IN, name, public, FALSE, File(name, 0))
  <2>2. item \in SidecarType
    BY <2>1
  <2>3. one(wanted, name, File(name, 0)) = IF wanted THEN <<item>> ELSE <<>>
    OBVIOUS
  <2> HIDE DEF item
  <2>4. <<item>> \in Seq(SidecarType) /\ <<>> \in Seq(SidecarType)
    BY <2>2
  <2>5. QED BY <2>3, <2>4
<1>4. /\ one(outputs.sbom, "sbom", File("sbom", 0)) \in Seq(SidecarType)
      /\ one(outputs.provenance, "provenance", File("provenance", 0)) \in Seq(SidecarType)
  BY <1>3 DEF Contents
<1>5. built_in_evidence(Policy) \in Seq(SidecarType)
  <2>1. built_in_evidence(Policy) =
          one(outputs.sbom, "sbom", File("sbom", 0))
            \o one(outputs.provenance, "provenance", File("provenance", 0))
    BY DEF built_in_evidence
  <2> HIDE DEF one, outputs
  <2>2. QED BY <1>4, <2>1, ConcatProperties
<1>6. sidecars \in Seq(SidecarType)
  BY <1>1, <1>5, ConcatProperties
<1>7. Manifest = Digested(Undigested("commit", Policy, made.artifacts, made.evidence, sidecars))
  BY DEF Manifest
<1> HIDE DEF sidecars
<1>8. /\ Manifest.evidence = made.evidence /\ Manifest.sidecars = sidecars
      /\ Manifest.policy = Policy /\ Manifest.artifacts = made.artifacts
      /\ Manifest.intent_digest = intent_digest(Policy, made.artifacts)
      /\ SelfDigested(Manifest)
      /\ Manifest = [field \in ManifestFields \cup {"candidate_digest"} |-> Manifest[field]]
  BY <1>7, DigestedFields
<1>9. IsManifest(Manifest)
  BY <1>1, <1>6, <1>8 DEF IsManifest
<1>10. QED BY <1>8, <1>9

(* No manifest is None, and neither is a directory. *)
LEMMA Substantial ==
  ASSUME NEW manifest
  PROVE  /\ IsManifest(manifest) => manifest # None
         /\ Holding(manifest) # None
<1>1. DOMAIN None = {}
  BY DEF None
<1>2. IsManifest(manifest) => "candidate_digest" \in DOMAIN manifest
  BY DEF IsManifest
<1>3. DOMAIN Holding(manifest) = {"manifest", "files"}
  BY DEF Holding
<1>4. QED BY <1>1, <1>2, <1>3


LEMMA RenamesKeeps ==
  ASSUME RehearsalInv, Renames
  PROVE  RehearsalInv'
<1> USE DEF RehearsalInv
<1>1. /\ at = "staged" /\ at' = "sealed"
      /\ directory' = Holding(Manifest) /\ sealed' = Manifest
      /\ hook' = Idle /\ hooks' = <<>> /\ digested' = None /\ made' = Nothing
      /\ snapshot' = Committed
      /\ UNCHANGED <<committed, straggler, approved, publisher, disturbed, alterations>>
  BY DEF Renames, release
<1>2. sealed = None /\ directory = None
  BY <1>1 DEF SealInv
<1>3. /\ IsManifest(Manifest) /\ SelfDigested(Manifest)
      /\ Manifest.policy = Policy /\ Manifest.artifacts = made.artifacts
      /\ Manifest.intent_digest = intent_digest(Policy, made.artifacts)
  BY ManifestFacts
<1>4. Manifest # None /\ Holding(Manifest) # None
  BY <1>3, Substantial
<1>5. Typed'
  <2>1. snapshot' \in SnapshotType
    BY <1>1, PoliciesAssumption DEF Typed, Committed, SnapshotType
  <2>2. hook' \in HookType
    BY <1>1 DEF Idle, HookType
  <2>3. MadeType'
    BY <1>1 DEF Nothing, MadeType, Built
  <2>4. hooks' \in Seq(Definitions)
    BY <1>1
  <2>5. QED BY <1>1, <2>1, <2>2, <2>3, <2>4 DEF Typed, Over
<1>6. PlaceInv'
  BY <1>1 DEF PlaceInv, Quiet, Idle
<1>7. Reviewed'
  BY <1>1 DEF Reviewed, AllCommitted, Nothing
<1>8. SealInv'
  <2>1. Sealable(sealed')
    BY <1>1 DEF SealInv, IsSealable
  <2>2. \A field \in Defined : sealed'.policy[field] = committed'[field]
    BY <1>1, <1>3, PolicyFields DEF Typed
  <2>3. Built(sealed'.artifacts)
    BY <1>1, <1>3 DEF Typed, MadeType
  <2>4. sealed'.intent_digest = intent_digest(sealed'.policy, sealed'.artifacts)
    BY <1>1, <1>3
  <2>5. Wellformed(sealed)'
    BY <1>1, <1>3, <2>2, <2>3, <2>4 DEF Wellformed
  <2>6. ~straggler' => AllCommitted(sealed'.artifacts)
    BY <1>1, <1>3 DEF Reviewed
  <2>7. QED BY <1>1, <1>4, <2>1, <2>5, <2>6 DEF SealInv
<1>9. StoreInv'
  <2>1. /\ directory'.manifest = Manifest
        /\ directory' = [manifest |-> directory'.manifest, files |-> directory'.files]
    BY <1>1 DEF Holding
  <2>2. QED BY <1>1, <1>3, <2>1 DEF StoreInv
<1>10. PublisherInv'
  BY <1>1, <1>2, <1>4 DEF PublisherInv, IsApproved
<1>11. UndisturbedInv'
  BY <1>1, <1>2 DEF UndisturbedInv, PublisherInv, Under
<1>12. QED BY <1>5, <1>6, <1>7, <1>8, <1>9, <1>10, <1>11

-----------------------------------------------------------------------------
(* The directory in the store. *)

(* Whatever takes the place of a manifest is a manifest.                   *)
LEMMA ForgeriesAreManifests ==
  ASSUME NEW manifest, IsManifest(manifest), NEW forged \in Forgeries(manifest)
  PROVE  IsManifest(forged)
<1> DEFINE open == [manifest.policy EXCEPT !["private"] = FALSE]
           shown == [i \in DOMAIN manifest.sidecars |->
                       [manifest.sidecars[i] EXCEPT !.public = TRUE]]
<1>1. /\ manifest = [field \in ManifestFields \cup {"candidate_digest"} |-> manifest[field]]
      /\ manifest.evidence \in Seq(EvidenceType) /\ manifest.sidecars \in Seq(SidecarType)
  BY DEF IsManifest
<1>2. shown \in Seq(SidecarType)
  <2>1. /\ Len(manifest.sidecars) \in Nat
        /\ manifest.sidecars \in [1..Len(manifest.sidecars) -> SidecarType]
    BY <1>1, LenProperties
  <2>2. \A sidecar \in SidecarType : [sidecar EXCEPT !.public = TRUE] \in SidecarType
    BY DEF SidecarType
  <2>3. shown \in [1..Len(manifest.sidecars) -> SidecarType]
    BY <2>1, <2>2
  <2>4. QED BY <2>1, <2>3, SeqDef
<1>3. ASSUME NEW policy, NEW artifacts,
             forged = Digested(Undigested(manifest.source, policy, artifacts,
                                          manifest.evidence, shown))
      PROVE  IsManifest(forged)
  <2> HIDE DEF shown
  <2>1. /\ forged.evidence = manifest.evidence /\ forged.sidecars = shown
        /\ forged = [field \in ManifestFields \cup {"candidate_digest"} |-> forged[field]]
    BY <1>3, DigestedFields
  <2>2. QED BY <1>1, <1>2, <2>1 DEF IsManifest
<1>4. CASE forged = [manifest EXCEPT !.policy = open]
  BY <1>1, <1>4 DEF IsManifest, ManifestFields
<1>5. CASE forged = [manifest EXCEPT !.evidence = <<>>]
  BY <1>1, <1>5 DEF IsManifest, ManifestFields
<1>6. \/ \E policy, artifacts :
           forged = Digested(Undigested(manifest.source, policy, artifacts,
                                        manifest.evidence, shown))
      \/ forged = [manifest EXCEPT !.policy = open]
      \/ forged = [manifest EXCEPT !.evidence = <<>>]
  BY DEF Forgeries
<1>7. QED BY <1>3, <1>4, <1>5, <1>6

LEMMA AlteredKeeps ==
  ASSUME RehearsalInv, Altered
  PROVE  RehearsalInv'
<1> USE DEF RehearsalInv
<1>1. /\ directory # None /\ alterations' = alterations + 1
      /\ disturbed' = (disturbed \/ publisher.at # "waiting")
      /\ UNCHANGED <<committed, snapshot, at, hooks, hook, straggler, digested, made, sealed,
                     approved, publisher>>
  BY DEF Altered, rehearsal
<1>2. Typed' /\ PlaceInv' /\ Reviewed'
  BY <1>1 DEF Typed, MadeType, PlaceInv, Reviewed, Quiet, AllCommitted
<1>3. /\ directory' = [manifest |-> directory'.manifest, files |-> directory'.files]
      /\ IsManifest(directory'.manifest)
  <2>1. /\ directory = [manifest |-> directory.manifest, files |-> directory.files]
        /\ IsManifest(directory.manifest)
    BY <1>1 DEF StoreInv
  <2>2. ASSUME NEW files, directory' = [directory EXCEPT !.files = files]
        PROVE  /\ directory' = [manifest |-> directory'.manifest, files |-> directory'.files]
               /\ IsManifest(directory'.manifest)
    BY <2>1, <2>2
  <2>3. ASSUME NEW manifest, IsManifest(manifest),
               directory' = Holding(manifest) \/ directory' = [directory EXCEPT !.manifest = manifest]
        PROVE  /\ directory' = [manifest |-> directory'.manifest, files |-> directory'.files]
               /\ IsManifest(directory'.manifest)
    BY <2>1, <2>3 DEF Holding
  <2>4. \A forged \in Forgeries(directory.manifest) : IsManifest(forged)
    BY <2>1, ForgeriesAreManifests
  <2>5. IsManifest(sealed)
    BY <1>1 DEF SealInv, Wellformed
  <2>6. \/ \E files : directory' = [directory EXCEPT !.files = files]
        \/ \E forged \in Forgeries(directory.manifest) :
             directory' = Holding(forged) \/ directory' = [directory EXCEPT !.manifest = forged]
        \/ directory' = Holding(sealed)
    BY DEF Altered
  <2>7. QED BY <2>2, <2>3, <2>4, <2>5, <2>6
<1>4. directory' # None
  <2>1. "files" \in DOMAIN directory'
    BY <1>3
  <2>2. QED BY <2>1 DEF None
<1>5. SealInv'
  <2>1. IsSealable' <=> IsSealable
    BY <1>1 DEF IsSealable, Manifest, Policy
  <2>2. Wellformed(sealed)' <=> Wellformed(sealed)
    BY <1>1 DEF Wellformed
  <2>3. QED BY <1>1, <1>4, <2>1, <2>2 DEF SealInv
<1>6. StoreInv'
  BY <1>1, <1>3 DEF StoreInv, PublisherInv
<1>7. PublisherInv'
  BY <1>1, <1>4 DEF PublisherInv, IsApproved
<1>8. UndisturbedInv'
  BY <1>1 DEF UndisturbedInv, Under
<1>9. QED BY <1>2, <1>5, <1>6, <1>7, <1>8


-----------------------------------------------------------------------------
(* The approval and the release command. *)

LEMMA Released ==
  ASSUME RehearsalInv, UNCHANGED <<committed, rehearsal, directory, alterations>>,
         PublisherInv', UndisturbedInv'
  PROVE  RehearsalInv'
<1> USE DEF RehearsalInv, rehearsal
<1>1. Typed' /\ PlaceInv' /\ Reviewed'
  BY DEF Typed, MadeType, PlaceInv, Reviewed, Quiet, AllCommitted
<1>2. IsSealable' <=> IsSealable
  BY DEF IsSealable, Manifest, Policy
<1>3. Wellformed(sealed)' <=> Wellformed(sealed)
  BY DEF Wellformed
<1>4. SealInv'
  BY <1>2, <1>3 DEF SealInv
<1>5. StoreInv'
  BY DEF StoreInv
<1>6. QED BY <1>1, <1>4, <1>5

LEMMA ApprovesKeeps ==
  ASSUME RehearsalInv, Approves
  PROVE  RehearsalInv'
<1> USE DEF RehearsalInv
<1>1. /\ directory # None /\ approved = None
      /\ approved' = sealed \/ (verify(directory) /\ approved' = directory.manifest)
      /\ UNCHANGED <<committed, rehearsal, directory, publisher, alterations, disturbed>>
  BY DEF Approves
<1>2. IsManifest(sealed) /\ SelfDigested(sealed)
  BY <1>1 DEF SealInv, Wellformed
<1>3. IsManifest(directory.manifest)
  BY <1>1 DEF StoreInv
<1>4. verify(directory) => SelfDigested(directory.manifest)
  BY DEF verify, SelfDigested
<1>5. IsManifest(approved') /\ SelfDigested(approved')
  BY <1>1, <1>2, <1>3, <1>4
<1>6. approved' # None
  BY <1>5, Substantial
<1>7. publisher.at \notin Under
  BY <1>1 DEF PublisherInv
<1>8. PublisherInv'
  BY <1>1, <1>5, <1>6, <1>7 DEF PublisherInv, Under, IsApproved
<1>9. UndisturbedInv'
  BY <1>1, <1>7 DEF UndisturbedInv, Under
<1>10. QED BY <1>1, <1>8, <1>9, Released

LEMMA RefusesKeeps ==
  ASSUME RehearsalInv, Refuses
  PROVE  RehearsalInv'
<1>1. /\ publisher' = [Waiting EXCEPT !.at = "refused"]
      /\ UNCHANGED <<committed, rehearsal, directory, approved, alterations, disturbed>>
  BY DEF Refuses, Publishes
<1>2. publisher' = [at |-> "refused", bound |-> None, manifest |-> None, payload |-> <<>>]
  BY <1>1 DEF Waiting
<1>3. PublisherInv'
  BY <1>1, <1>2 DEF RehearsalInv, PublisherInv, Steps, Under
<1>4. UndisturbedInv'
  BY <1>2 DEF UndisturbedInv, Under
<1>5. QED BY <1>1, <1>3, <1>4, Released

LEMMA VerifiedKeeps ==
  ASSUME RehearsalInv, verified_candidate
  PROVE  RehearsalInv'
<1> USE DEF RehearsalInv
<1>1. CASE Refuses
  BY <1>1, RefusesKeeps
<1>2. CASE ~Refuses
  <2>1. /\ publisher.at = "waiting" /\ directory # None /\ approved # None
        /\ publisher' = [publisher EXCEPT !.at = "verified", !.bound = directory.manifest]
        /\ UNCHANGED <<committed, rehearsal, directory, approved, alterations, disturbed>>
    BY <1>2 DEF verified_candidate, Publishes
  <2>2. /\ publisher'.at = "verified" /\ publisher'.bound = directory.manifest
        /\ publisher' = [at |-> publisher'.at, bound |-> publisher'.bound,
                         manifest |-> publisher'.manifest, payload |-> publisher'.payload]
    BY <2>1 DEF PublisherInv
  <2>3. PublisherInv'
    BY <2>1, <2>2 DEF PublisherInv, Steps, Under
  <2>4. UndisturbedInv'
    BY <2>1, <2>2 DEF UndisturbedInv, Under
  <2>5. QED BY <2>1, <2>3, <2>4, Released
<1>3. QED BY <1>1, <1>2

LEMMA BoundKeeps ==
  ASSUME RehearsalInv, bind_to_source
  PROVE  RehearsalInv'
<1> USE DEF RehearsalInv
<1>1. CASE Refuses
  BY <1>1, RefusesKeeps
<1>2. CASE ~Refuses
  <2>1. /\ publisher.at = "verified" /\ differences(publisher.bound.policy, committed) = {}
        /\ publisher' = [publisher EXCEPT !.at = "bound"]
        /\ UNCHANGED <<committed, rehearsal, directory, approved, alterations, disturbed>>
    BY <1>2 DEF bind_to_source, Publishes
  <2>2. /\ publisher'.at = "bound" /\ publisher'.bound = publisher.bound
        /\ publisher' = [at |-> publisher'.at, bound |-> publisher'.bound,
                         manifest |-> publisher'.manifest, payload |-> publisher'.payload]
    BY <2>1 DEF PublisherInv
  <2>3. PublisherInv'
    BY <2>1, <2>2 DEF PublisherInv, Steps, Under
  <2>4. UndisturbedInv'
    BY <2>1, <2>2 DEF UndisturbedInv, Under
  <2>5. QED BY <2>1, <2>3, <2>4, Released
<1>3. QED BY <1>1, <1>2

LEMMA VerifiesAgainKeeps ==
  ASSUME RehearsalInv, VerifiesAgain
  PROVE  RehearsalInv'
<1> USE DEF RehearsalInv
<1>1. CASE Refuses
  BY <1>1, RefusesKeeps
<1>2. CASE ~Refuses
  <2>1. /\ publisher.at = "bound" /\ verify(directory)
        /\ publisher' = [publisher EXCEPT !.at = "reading", !.manifest = directory.manifest]
        /\ UNCHANGED <<committed, rehearsal, directory, approved, alterations, disturbed>>
    BY <1>2 DEF VerifiesAgain, Publishes
  <2>2. /\ publisher'.at = "reading" /\ publisher'.bound = publisher.bound
        /\ publisher'.manifest = directory.manifest
        /\ publisher' = [at |-> publisher'.at, bound |-> publisher'.bound,
                         manifest |-> publisher'.manifest, payload |-> publisher'.payload]
    BY <2>1 DEF PublisherInv
  <2>3. SelfDigested(directory.manifest) /\ Sealable(directory.manifest)
    BY <2>1 DEF verify, SelfDigested
  <2>4. directory # None /\ approved # None
    BY <2>1 DEF PublisherInv, Under
  <2>5. IsManifest(directory.manifest)
    BY <2>4 DEF StoreInv
  <2>6. PublisherInv'
    BY <2>1, <2>2, <2>3, <2>4, <2>5 DEF PublisherInv, Steps, Under
  <2>7. UndisturbedInv'
    BY <2>1, <2>2, <2>3 DEF UndisturbedInv, Under
  <2>8. QED BY <2>1, <2>6, <2>7, Released
<1>3. QED BY <1>1, <1>2

(* No sidecar stands where the interface of the package does, so all that  *)
(* may be published was read against the manifest.                         *)
LEMMA PayloadIsRead ==
  ASSUME NEW manifest, IsManifest(manifest)
  PROVE  Payload(manifest) \subseteq Inventory(manifest) \ {INTERFACE}
<1>1. \A i \in DOMAIN manifest.sidecars : manifest.sidecars[i].path \in HookIds \X Contents
  <2>1. manifest.sidecars \in Seq(SidecarType)
    BY DEF IsManifest
  <2>2. ASSUME NEW i \in DOMAIN manifest.sidecars
        PROVE  manifest.sidecars[i] \in SidecarType
    BY <2>1
  <2>3. QED BY <2>2 DEF SidecarType
<1>2. INTERFACE \notin HookIds \X Contents
  BY DEF INTERFACE, Contents
<1>3. \A path \in Public(manifest) : path # INTERFACE
  BY <1>1, <1>2 DEF Public
<1>4. QED BY <1>3 DEF Payload, Inventory, Public

LEMMA ReadsKeeps ==
  ASSUME RehearsalInv, ReadsFiles
  PROVE  RehearsalInv'
<1> USE DEF RehearsalInv
<1>1. CASE Refuses
  BY <1>1, RefusesKeeps
<1>2. CASE ~Refuses
  <2> DEFINE manifest == publisher.manifest
             payload == [path \in Payload(manifest) |-> directory.files[path]]
  <2>1. /\ publisher.at = "reading"
        /\ \A path \in Inventory(manifest) \ {INTERFACE} : verify_file(directory, manifest, path)
        /\ publisher' = [publisher EXCEPT !.at = "read", !.payload = payload]
        /\ UNCHANGED <<committed, rehearsal, directory, approved, alterations, disturbed>>
    BY <1>2 DEF ReadsFiles, Publishes
  <2>2. /\ publisher'.at = "read" /\ publisher'.bound = publisher.bound
        /\ publisher'.manifest = manifest /\ publisher'.payload = payload
        /\ publisher' = [at |-> publisher'.at, bound |-> publisher'.bound,
                         manifest |-> publisher'.manifest, payload |-> publisher'.payload]
    BY <2>1 DEF PublisherInv
  <2>3. IsManifest(manifest) /\ SelfDigested(manifest)
    BY <2>1 DEF PublisherInv
  <2>4. \A path \in Payload(manifest) : directory.files[path] = Sha256At(manifest, path)
    BY <2>1, <2>3, PayloadIsRead DEF verify_file
  <2>5. payload = [path \in Payload(manifest) |-> Sha256At(manifest, path)]
    BY <2>4
  <2>6. PublisherInv'
    BY <2>1, <2>2, <2>3, <2>5 DEF PublisherInv, Steps, Under
  <2>7. UndisturbedInv'
    BY <2>1, <2>2 DEF UndisturbedInv, Under
  <2>8. QED BY <2>1, <2>6, <2>7, Released
<1>3. QED BY <1>1, <1>2

LEMMA ReleasesKeeps ==
  ASSUME RehearsalInv, Releases
  PROVE  RehearsalInv'
<1> USE DEF RehearsalInv
<1>1. CASE Refuses
  BY <1>1, RefusesKeeps
<1>2. CASE ~Refuses
  <2>1. /\ publisher.at = "read" /\ IsApproved
        /\ publisher' = [publisher EXCEPT !.at = "done"]
        /\ UNCHANGED <<committed, rehearsal, directory, approved, alterations, disturbed>>
    BY <1>2 DEF Releases, Publishes
  <2>2. /\ publisher'.at = "done" /\ publisher'.bound = publisher.bound
        /\ publisher'.manifest = publisher.manifest /\ publisher'.payload = publisher.payload
        /\ publisher' = [at |-> publisher'.at, bound |-> publisher'.bound,
                         manifest |-> publisher'.manifest, payload |-> publisher'.payload]
    BY <2>1 DEF PublisherInv
  <2>3. IsApproved'
    BY <2>1, <2>2 DEF IsApproved
  <2>4. PublisherInv'
    BY <2>1, <2>2, <2>3 DEF PublisherInv, Steps, Under
  <2>5. UndisturbedInv'
    BY <2>1, <2>2 DEF UndisturbedInv, Under
  <2>6. QED BY <2>1, <2>4, <2>5, Released
<1>3. QED BY <1>1, <1>2


-----------------------------------------------------------------------------
(* The invariant. *)

LEMMA InitialRehearsal == Init => RehearsalInv
<1> SUFFICES ASSUME Init PROVE RehearsalInv
  OBVIOUS
<1> USE DEF Init
<1>1. snapshot \in SnapshotType
  BY PoliciesAssumption DEF Committed, SnapshotType
<1>2. hook \in HookType
  BY DEF Idle, HookType
<1>3. MadeType
  BY DEF MadeType, Nothing, Built
<1>4. hooks \in Seq(Definitions)
  OBVIOUS
<1>5. Typed
  BY <1>1, <1>2, <1>3, <1>4 DEF Typed
<1>6. PlaceInv
  BY DEF PlaceInv, Idle
<1>7. Reviewed
  BY DEF Reviewed, AllCommitted, Nothing, Committed
<1>8. SealInv /\ StoreInv
  BY DEF SealInv, StoreInv
<1>9. PublisherInv
  BY DEF PublisherInv, Waiting, Steps, Under
<1>10. UndisturbedInv
  BY DEF UndisturbedInv, Waiting, Under
<1>11. QED BY <1>5, <1>6, <1>7, <1>8, <1>9, <1>10 DEF RehearsalInv

LEMMA StepsKeepRehearsal == RehearsalInv /\ [Next]_vars => RehearsalInv'
<1> SUFFICES ASSUME RehearsalInv, [Next]_vars PROVE RehearsalInv'
  OBVIOUS
<1>1. CASE Rehearses
  BY <1>1, StartsKeeps, PreparesKeeps, HookStepsKeep, JudgedKeeps, BuildsKeeps,
     AssemblesKeeps, SealsKeeps, RenamesKeeps
  DEF Rehearses
<1>2. CASE Exits \/ LetsGo
  BY <1>2, HookStepsKeep
<1>3. CASE Touches
  BY <1>3, TouchesKeeps
<1>4. CASE IsKilled
  BY <1>4, IsKilledKeeps
<1>5. CASE Altered
  BY <1>5, AlteredKeeps
<1>6. CASE Approves
  BY <1>6, ApprovesKeeps
<1>7. CASE verified_candidate \/ bind_to_source \/ VerifiesAgain \/ ReadsFiles \/ Releases
  BY <1>7, VerifiedKeeps, BoundKeeps, VerifiesAgainKeeps, ReadsKeeps, ReleasesKeeps
<1>8. CASE UNCHANGED vars
  <2>1. UNCHANGED <<committed, rehearsal, directory, approved, publisher, alterations, disturbed>>
    BY <1>8 DEF vars, release
  <2>2. PublisherInv' /\ UndisturbedInv'
    BY <2>1 DEF RehearsalInv, PublisherInv, UndisturbedInv, IsApproved
  <2>3. QED BY <2>1, <2>2, Released
<1>9. QED BY <1>1, <1>2, <1>3, <1>4, <1>5, <1>6, <1>7, <1>8 DEF Next

(* The inductive invariant of a rehearsal and a release.                   *)
THEOREM RehearsalInvariance == Spec => []RehearsalInv
<1>1. Init => RehearsalInv
  BY InitialRehearsal
<1>2. RehearsalInv /\ [Next]_vars => RehearsalInv'
  BY StepsKeepRehearsal
<1>3. QED BY <1>1, <1>2, PTL DEF Spec

-----------------------------------------------------------------------------
(* The properties. *)

(* Each required hook of a list that a sealable manifest owes its evidence *)
(* succeeded.                                                              *)
LEMMA EvidenceIsOwed ==
  ASSUME NEW manifest, IsManifest(manifest), Sealable(manifest),
         \A field \in Defined : manifest.policy[field] \in Seq(Definitions)
  PROVE  \A field \in Defined : \A hookOf \in ToSet(manifest.policy[field]) :
           hookOf.required =>
             \E i \in DOMAIN manifest.evidence :
               manifest.evidence[i].id = hookOf.id /\ manifest.evidence[i].success
<1> DEFINE verify_hooks == manifest.policy["verify_hook_definitions"]
           sidecar_hooks == manifest.policy["sidecar_hook_definitions"]
           evidence == manifest.evidence
<1>1. verify_hooks \in Seq(Definitions) /\ sidecar_hooks \in Seq(Definitions)
      /\ evidence \in Seq(EvidenceType)
  BY DEF Defined, IsManifest
<1>2. /\ Len(verify_hooks) \in Nat /\ DOMAIN verify_hooks = 1..Len(verify_hooks)
      /\ Len(sidecar_hooks) \in Nat /\ DOMAIN sidecar_hooks = 1..Len(sidecar_hooks)
      /\ Len(evidence) \in Nat /\ DOMAIN evidence = 1..Len(evidence)
  BY <1>1, LenProperties
<1>3. /\ Len(evidence) = Len(verify_hooks) + Len(sidecar_hooks)
      /\ \A i \in DOMAIN verify_hooks :
           evidence[i].id = verify_hooks[i].id /\ evidence[i].required = verify_hooks[i].required
      /\ \A i \in DOMAIN sidecar_hooks :
           /\ evidence[Len(verify_hooks) + i].id = sidecar_hooks[i].id
           /\ evidence[Len(verify_hooks) + i].required = sidecar_hooks[i].required
  BY DEF Sealable, validate_evidenced_hooks
<1>4. \A i \in DOMAIN evidence : evidence[i].required => evidence[i].success
  BY DEF Sealable, validate_hook_evidence
<1> HIDE DEF verify_hooks, sidecar_hooks, evidence
<1>5. \A hookOf \in ToSet(verify_hooks) : hookOf.required =>
        \E i \in DOMAIN evidence : evidence[i].id = hookOf.id /\ evidence[i].success
  <2>1. \A i \in DOMAIN verify_hooks : i \in DOMAIN evidence
    BY <1>2, <1>3
  <2>2. QED BY <1>3, <1>4, <2>1 DEF ToSet
<1>6. \A hookOf \in ToSet(sidecar_hooks) : hookOf.required =>
        \E i \in DOMAIN evidence : evidence[i].id = hookOf.id /\ evidence[i].success
  <2>1. \A i \in DOMAIN sidecar_hooks : Len(verify_hooks) + i \in DOMAIN evidence
    BY <1>2, <1>3
  <2>2. QED BY <1>3, <1>4, <2>1 DEF ToSet
<1>7. QED BY <1>5, <1>6 DEF verify_hooks, sidecar_hooks, evidence, Defined


LEMMA InEither ==
  ASSUME NEW S, NEW s \in Seq(S), NEW t \in Seq(S), NEW x \in ToSet(s \o t)
  PROVE  x \in ToSet(s) \/ x \in ToSet(t)
<1>1. /\ Len(s) \in Nat /\ DOMAIN s = 1..Len(s) /\ Len(t) \in Nat /\ DOMAIN t = 1..Len(t)
      /\ DOMAIN (s \o t) = 1..(Len(s) + Len(t))
  BY LenProperties, ConcatProperties
<1>2. PICK i \in 1..(Len(s) + Len(t)) : x = (s \o t)[i]
  BY <1>1 DEF ToSet
<1>3. CASE i <= Len(s)
  <2>1. x = s[i] /\ i \in DOMAIN s
    BY <1>1, <1>2, <1>3, ConcatProperties
  <2>2. QED BY <2>1 DEF ToSet
<1>4. CASE i > Len(s)
  <2>1. x = t[i - Len(s)] /\ i - Len(s) \in DOMAIN t
    BY <1>1, <1>2, <1>4, ConcatProperties
  <2>2. QED BY <2>1 DEF ToSet
<1>5. QED BY <1>1, <1>3, <1>4

(* A sealed Candidate was built from the committed package, unless a       *)
(* process that closed its pipes was left behind, and each of its required *)
(* hooks succeeded on it (rehearse.rs, hooks.rs run_one).                  *)
THEOREM SealedIsReviewed == Spec => []SealedWasReviewed
<1>1. RehearsalInv => SealedWasReviewed
  <2> SUFFICES ASSUME RehearsalInv, sealed # None
               PROVE  /\ ~straggler => AllCommitted(sealed.artifacts)
                      /\ \A hookOf \in ToSet(sealed.policy["verify_hook_definitions"]
                                             \o sealed.policy["sidecar_hook_definitions"]) :
                           hookOf.required =>
                             \E i \in DOMAIN sealed.evidence :
                               sealed.evidence[i].id = hookOf.id /\ sealed.evidence[i].success
    BY DEF SealedWasReviewed, AllCommitted
  <2>1. /\ Sealable(sealed) /\ Wellformed(sealed)
        /\ ~straggler => AllCommitted(sealed.artifacts)
    BY DEF RehearsalInv, SealInv
  <2>2. \A field \in Defined : sealed.policy[field] \in Seq(Definitions)
    BY <2>1, CommittedHooks DEF Wellformed, RehearsalInv, Typed
  <2>3. \A field \in Defined : \A hookOf \in ToSet(sealed.policy[field]) :
          hookOf.required =>
            \E i \in DOMAIN sealed.evidence :
              sealed.evidence[i].id = hookOf.id /\ sealed.evidence[i].success
    BY <2>1, <2>2, EvidenceIsOwed DEF Wellformed
  <2>4. /\ "verify_hook_definitions" \in Defined /\ "sidecar_hook_definitions" \in Defined
    BY DEF Defined
  <2>5. QED BY <2>1, <2>2, <2>3, <2>4, InEither
<1>2. QED BY <1>1, RehearsalInvariance, PTL

(* The bytes that a well-formed manifest names are those of files.         *)
LEMMA NamesFiles ==
  ASSUME NEW manifest, IsManifest(manifest), Built(manifest.artifacts),
         NEW path \in Inventory(manifest)
  PROVE  Sha256At(manifest, path) # NotAFile
<1>1. CASE path \in DOMAIN manifest.artifacts
  <2>1. PICK code \in {"committed", "changed"} :
          manifest.artifacts[path] = Described(File(code, 0))
    BY <1>1 DEF Built
  <2>2. Sha256At(manifest, path).content = code
    BY <1>1, <2>1 DEF Sha256At, Described, File
  <2>3. NotAFile.content = "a link or a directory"
    BY DEF NotAFile, File
  <2>4. QED BY <2>2, <2>3
<1>2. CASE path \notin DOMAIN manifest.artifacts
  <2>1. PICK i \in DOMAIN manifest.sidecars : manifest.sidecars[i].path = path
    BY <1>2 DEF Inventory
  <2>2. SidecarAt(manifest, path) \in DOMAIN manifest.sidecars
    BY <2>1 DEF SidecarAt
  <2>3. manifest.sidecars[SidecarAt(manifest, path)] \in SidecarType
    BY <2>2 DEF IsManifest
  <2>4. Sha256At(manifest, path).content \in Contents
    BY <1>2, <2>3 DEF Sha256At, SidecarType
  <2>5. NotAFile.content \notin Contents
    BY DEF NotAFile, File, Contents
  <2>6. QED BY <2>4, <2>5
<1>3. QED BY <1>1, <1>2

(* What a rehearsal sealed is what `verify` accepts, as long as nobody     *)
(* altered it and verify reads a manifest of its size (candidate.rs).      *)
THEOREM SealedIsVerified == Spec => []SealedVerifies
<1>1. RehearsalInv => SealedVerifies
  <2> SUFFICES ASSUME RehearsalInv, directory # None, alterations = 0,
                      ManifestBytes(sealed) <= MAX_MANIFEST_BYTES
               PROVE  verify(directory)
    BY DEF SealedVerifies
  <2>1. directory = Holding(sealed) /\ sealed # None
    BY DEF RehearsalInv, StoreInv, SealInv
  <2>2. Sealable(sealed) /\ Wellformed(sealed)
    BY <2>1 DEF RehearsalInv, SealInv
  <2>3. directory.manifest = sealed
        /\ directory.files = [path \in Inventory(sealed) |-> Sha256At(sealed, path)]
    BY <2>1 DEF Holding
  <2>4. \A path \in Inventory(sealed) : Sha256At(sealed, path) # NotAFile
    BY <2>2, NamesFiles DEF Wellformed
  <2>5. validate_candidate_inventory(directory, sealed)
    BY <2>3, <2>4 DEF validate_candidate_inventory
  <2>6. \A path \in Inventory(sealed) : verify_file(directory, sealed, path)
    BY <2>3, <2>4 DEF verify_file
  <2>7. \A path \in DOMAIN sealed.artifacts :
          sealed.artifacts[path].semantic_sha256 = sealed.artifacts[path].sha256.content
    BY <2>2 DEF Wellformed, Built, Described
  <2>8. /\ intent_digest(sealed.policy, sealed.artifacts) = sealed.intent_digest
        /\ candidate_digest(sealed) = sealed.candidate_digest
    BY <2>2 DEF Wellformed, SelfDigested
  <2>9. QED BY <2>2, <2>3, <2>5, <2>6, <2>7, <2>8 DEF verify
<1>2. QED BY <1>1, RehearsalInvariance, PTL

(* Two manifests with one digest are one manifest.                         *)
LEMMA DigestsBind ==
  ASSUME NEW m, NEW n, IsManifest(m), IsManifest(n), SelfDigested(m), SelfDigested(n),
         m.candidate_digest = n.candidate_digest
  PROVE  m = n
<1>1. \A field \in ManifestFields : m[field] = n[field]
  <2>1. candidate_digest(m) = candidate_digest(n)
    BY DEF SelfDigested
  <2>2. \A field \in ManifestFields :
          candidate_digest(m)[field] = m[field] /\ candidate_digest(n)[field] = n[field]
    BY DEF candidate_digest
  <2>3. QED BY <2>1, <2>2
<1>2. \A field \in ManifestFields \cup {"candidate_digest"} : m[field] = n[field]
  BY <1>1
<1>3. /\ m = [field \in ManifestFields \cup {"candidate_digest"} |-> m[field]]
      /\ n = [field \in ManifestFields \cup {"candidate_digest"} |-> n[field]]
  BY DEF IsManifest
<1>4. QED BY <1>2, <1>3

(* Whoever altered the Candidate, and when, what is published is what was  *)
(* approved; and unless it was altered under the release command, it keeps *)
(* what the source commit allows (release.rs execute).                     *)
THEOREM PublicationIsSound == Spec => []PublishedIsSound
<1>1. RehearsalInv => PublishedIsApproved
  <2> SUFFICES ASSUME RehearsalInv, publisher.at = "done"
               PROVE  /\ DOMAIN publisher.payload = Payload(approved)
                      /\ \A path \in DOMAIN publisher.payload :
                           publisher.payload[path] = Sha256At(approved, path)
    BY DEF PublishedIsApproved
  <2>1. /\ IsManifest(publisher.manifest) /\ SelfDigested(publisher.manifest)
        /\ IsManifest(approved) /\ SelfDigested(approved)
        /\ publisher.payload = [path \in Payload(publisher.manifest) |->
                                  Sha256At(publisher.manifest, path)]
        /\ publisher.manifest.candidate_digest = approved.candidate_digest
    BY DEF RehearsalInv, PublisherInv, Under, IsApproved
  <2>2. publisher.manifest = approved
    BY <2>1, DigestsBind
  <2>3. QED BY <2>1, <2>2
<1>2. RehearsalInv => PublishedIsCommitted
  <2> SUFFICES ASSUME RehearsalInv, publisher.at = "done", ~disturbed
               PROVE  /\ Public(publisher.manifest) # {} =>
                           /\ committed["outputs"].github_release
                           /\ committed["private"] => committed["outputs"].allow_private_upload
                      /\ publisher.manifest.policy["release_notes"] = committed["release_notes"]
                      /\ \A hookOf \in ToSet(committed["verify_hook_definitions"]) :
                           hookOf.required =>
                             \E i \in DOMAIN publisher.manifest.evidence :
                               /\ publisher.manifest.evidence[i].id = hookOf.id
                               /\ publisher.manifest.evidence[i].success
    BY DEF PublishedIsCommitted
  <2> DEFINE manifest == publisher.manifest
  <2>1. /\ IsManifest(manifest) /\ Sealable(manifest)
        /\ differences(manifest.policy, committed) = {}
    BY DEF RehearsalInv, PublisherInv, UndisturbedInv, Under
  <2>2. \A field \in SealedPolicy : manifest.policy[field] = committed[field]
    BY <2>1 DEF differences
  <2>3. {"outputs", "private", "release_notes", "verify_hook_definitions"} \cup Defined
          \subseteq SealedPolicy
    BY DEF SealedPolicy, Defined
  <2>4. Public(manifest) # {} =>
          /\ manifest.policy["outputs"].github_release
          /\ manifest.policy["private"] => manifest.policy["outputs"].allow_private_upload
    BY <2>1 DEF Sealable, validate_sidecar_output_policy, Public
  <2>5. \A field \in Defined : manifest.policy[field] \in Seq(Definitions)
    BY <2>2, <2>3, CommittedHooks DEF RehearsalInv, Typed
  <2>6. \A hookOf \in ToSet(manifest.policy["verify_hook_definitions"]) :
          hookOf.required =>
            \E i \in DOMAIN manifest.evidence :
              manifest.evidence[i].id = hookOf.id /\ manifest.evidence[i].success
    BY <2>1, <2>5, EvidenceIsOwed DEF Defined
  <2>7. QED BY <2>2, <2>3, <2>4, <2>6
<1>3. RehearsalInv => PublishedIsSound
  BY <1>1, <1>2 DEF PublishedIsSound
<1>4. QED BY <1>3, RehearsalInvariance, PTL
=============================================================================

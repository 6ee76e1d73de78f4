----------------------------- MODULE Candidates -----------------------------
(***************************************************************************)
(* The sealed Candidate (candidate.rs): what it holds, what its digests    *)
(* cover, what `seal` and `verify` ask of it, and when it keeps the policy *)
(* of its source commit.                                                   *)
(*                                                                         *)
(* A file is its content and its packing: two files with one content differ *)
(* in bytes that carry no meaning, such as the times in an archive.  A     *)
(* digest is the value it is taken of, because SHA-256 is taken to be      *)
(* injective.  Sizes are counted in units of the release notes.            *)
(***************************************************************************)
EXTENDS Naturals, Sequences, FiniteSets, SequencesExt

CONSTANTS
  MAX_MANIFEST_BYTES,       \* what verify reads of a manifest
  MAX_RELEASE_NOTES_BYTES,  \* the release notes that a Candidate may carry
  MAX_COUNT                 \* the sidecar artifacts that a Candidate may carry

ASSUME LimitsAssumption ==
  MAX_MANIFEST_BYTES \in Nat /\ MAX_RELEASE_NOTES_BYTES \in Nat /\ MAX_COUNT \in Nat

(* A policy is a function from these fields.  The intent leaves out three  *)
(* of them, which say nothing of what is published.                        *)
SealedPolicy ==
  {"package", "version", "tag", "manifest_path", "compiler", "registry", "private",
   "github_repository", "release_branch_prefix", "release_notes", "approval", "outputs",
   "verify_hook_definitions", "sidecar_hook_definitions", "notify_hooks",
   "notify_hook_definitions"}
IntentFields == SealedPolicy \ {"manifest_path", "private", "notify_hooks"}

Hook(id, required) == [id |-> id, required |-> required]
BUILT_IN == "release-glz"

File(content, packing) == [content |-> content, packing |-> packing]
NotAFile == File("a link or a directory", 0)
PACKAGE == <<"artifacts", "package.tar">>
DOCS == <<"artifacts", "docs.tar.gz">>
INTERFACE == <<"artifacts", "package-interface.json">>

(* A descriptor binds the bytes of a file and their meaning; a sidecar's   *)
(* only its bytes, and it is known by its hook and its name.               *)
Described(file) == [sha256 |-> file, semantic_sha256 |-> file.content]
Sidecar(hook, name, public, signature, file) ==
  [path |-> <<hook, name>>, public |-> public, signature |-> signature, sha256 |-> file]
HookOf(sidecar) == sidecar.path[1]
NameOf(sidecar) == sidecar.path[2]

Evidence(kind, hook, success) ==
  [kind |-> kind, id |-> hook.id, required |-> hook.required, success |-> success]

-----------------------------------------------------------------------------
(* The intent binds the decision and the meaning of the artifacts, so two  *)
(* builds of one release share it; the Candidate digest binds everything.  *)
intent_digest(policy, artifacts) ==
  [fields    |-> [field \in IntentFields |-> policy[field]],
   artifacts |-> [path \in DOMAIN artifacts |-> artifacts[path].semantic_sha256]]
ManifestFields == {"source", "policy", "artifacts", "evidence", "sidecars", "intent_digest"}
candidate_digest(manifest) == [field \in ManifestFields |-> manifest[field]]

Undigested(commit, policy, artifacts, evidence, sidecars) ==
  [source |-> commit, policy |-> policy, artifacts |-> artifacts, evidence |-> evidence,
   sidecars |-> sidecars, intent_digest |-> intent_digest(policy, artifacts)]
Digested(manifest) ==
  [field \in ManifestFields \cup {"candidate_digest"} |->
     IF field = "candidate_digest" THEN candidate_digest(manifest) ELSE manifest[field]]

(* The evidence that the program adds itself: an SBOM and a provenance     *)
(* statement about the sealed bytes.                                       *)
built_in_evidence(policy) ==
  LET outputs == policy["outputs"]
      public  == outputs.github_release /\ (~policy["private"] \/ outputs.allow_private_upload)
      one(wanted, name, file) ==
        IF wanted THEN <<Sidecar(BUILT_IN, name, public, FALSE, file)>> ELSE <<>>
  IN one(outputs.sbom, "sbom", File("sbom", 0))
     \o one(outputs.provenance, "provenance", File("provenance", 0))

-----------------------------------------------------------------------------
(* What seal and verify ask of a manifest alike, condition by condition.   *)
Distinct(sequence) == Cardinality(ToSet(sequence)) = Len(sequence)
Ids(hooks) == [i \in DOMAIN hooks |-> hooks[i].id]

validate_hook_evidence(evidence) ==
  /\ Distinct([i \in DOMAIN evidence |-> <<evidence[i].kind, evidence[i].id>>])
  /\ \A i \in DOMAIN evidence : evidence[i].required => evidence[i].success

validate_sidecars(sidecars) ==
  /\ Len(sidecars) <= MAX_COUNT
  /\ Distinct([i \in DOMAIN sidecars |-> sidecars[i].path])

validate_sidecar_output_policy(policy, sidecars) ==
  LET public == {i \in DOMAIN sidecars : sidecars[i].public}
  IN public # {} =>
       /\ policy["outputs"].github_release
       /\ policy["private"] => policy["outputs"].allow_private_upload
       /\ \A i, j \in public : NameOf(sidecars[i]) = NameOf(sidecars[j]) => i = j

validate_standard_output_artifacts(policy, sidecars) ==
  LET outputs == policy["outputs"]
      builtIn == SelectSeq(sidecars, LAMBDA sidecar : HookOf(sidecar) = BUILT_IN)
      named(name) == Len(SelectSeq(builtIn, LAMBDA sidecar : NameOf(sidecar) = name))
      wanted(flag) == IF flag THEN 1 ELSE 0
  IN /\ named("sbom") = wanted(outputs.sbom)
     /\ named("provenance") = wanted(outputs.provenance)
     /\ Len(builtIn) = wanted(outputs.sbom) + wanted(outputs.provenance)
     /\ outputs.signature => \E i \in DOMAIN sidecars : sidecars[i].signature

validate_candidate_hook_definitions(policy) ==
  Distinct(Ids(policy["verify_hook_definitions"] \o policy["sidecar_hook_definitions"]
               \o policy["notify_hook_definitions"]))

(* Each verify hook, then each sidecar hook, left one piece of evidence,   *)
(* and no other hook left an artifact.                                     *)
validate_evidenced_hooks(policy, evidence, sidecars) ==
  LET verify  == policy["verify_hook_definitions"]
      sidecar == policy["sidecar_hook_definitions"]
      owes(kind, hook, item) ==
        item.kind = kind /\ item.id = hook.id /\ item.required = hook.required
  IN /\ Len(evidence) = Len(verify) + Len(sidecar)
     /\ \A i \in DOMAIN verify : owes("verify", verify[i], evidence[i])
     /\ \A i \in DOMAIN sidecar : owes("sidecar", sidecar[i], evidence[Len(verify) + i])
     /\ \A i \in DOMAIN sidecars :
          HookOf(sidecars[i]) \in {BUILT_IN} \cup ToSet(Ids(sidecar))

validate_notify_hook_definitions(policy) ==
  policy["notify_hooks"] = Ids(policy["notify_hook_definitions"])

validate_output_artifacts(policy, artifacts) ==
  policy["outputs"].docs = (DOCS \in DOMAIN artifacts)

Sealable(manifest) ==
  LET policy == manifest.policy IN
  /\ policy["release_notes"] <= MAX_RELEASE_NOTES_BYTES
  /\ validate_output_artifacts(policy, manifest.artifacts)
  /\ validate_hook_evidence(manifest.evidence)
  /\ validate_sidecars(manifest.sidecars)
  /\ validate_sidecar_output_policy(policy, manifest.sidecars)
  /\ validate_standard_output_artifacts(policy, manifest.sidecars)
  /\ validate_candidate_hook_definitions(policy)
  /\ validate_evidenced_hooks(policy, manifest.evidence, manifest.sidecars)
  /\ validate_notify_hook_definitions(policy)

-----------------------------------------------------------------------------
(* A Candidate directory is a manifest and the files beside it.            *)
ManifestBytes(manifest) == manifest.policy["release_notes"] + 1

SidecarAt(manifest, path) ==
  CHOOSE i \in DOMAIN manifest.sidecars : manifest.sidecars[i].path = path
Sha256At(manifest, path) ==
  IF path \in DOMAIN manifest.artifacts THEN manifest.artifacts[path].sha256
  ELSE manifest.sidecars[SidecarAt(manifest, path)].sha256
Inventory(manifest) ==
  DOMAIN manifest.artifacts
    \cup {manifest.sidecars[i].path : i \in DOMAIN manifest.sidecars}

verify_file(directory, manifest, path) ==
  /\ path \in DOMAIN directory.files
  /\ directory.files[path] # NotAFile
  /\ directory.files[path] = Sha256At(manifest, path)

validate_candidate_inventory(directory, manifest) ==
  /\ DOMAIN directory.files = Inventory(manifest)
  /\ \A path \in DOMAIN directory.files : directory.files[path] # NotAFile

verify(directory) ==
  LET manifest == directory.manifest IN
  /\ ManifestBytes(manifest) <= MAX_MANIFEST_BYTES
  /\ Sealable(manifest)
  /\ validate_candidate_inventory(directory, manifest)
  /\ \A path \in Inventory(manifest) : verify_file(directory, manifest, path)
  /\ \A path \in DOMAIN manifest.artifacts :
       manifest.artifacts[path].semantic_sha256 = manifest.artifacts[path].sha256.content
  /\ intent_digest(manifest.policy, manifest.artifacts) = manifest.intent_digest
  /\ candidate_digest(manifest) = manifest.candidate_digest

(* The fields in which two policies differ: none may, wherever they are    *)
(* used.                                                                   *)
DifferencesOfIntent(policy, other) == {field \in IntentFields : policy[field] # other[field]}
differences(policy, other) == {field \in SealedPolicy : policy[field] # other[field]}
=============================================================================

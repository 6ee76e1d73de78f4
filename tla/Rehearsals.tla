----------------------------- MODULE Rehearsals -----------------------------
(***************************************************************************)
(* From a commit to the bytes that are published: a rehearsal snapshots    *)
(* the commit, runs the verify hooks, builds, runs the sidecar hooks and   *)
(* seals a Candidate (rehearse.rs, hooks.rs, candidate.rs); the release    *)
(* command then verifies the Candidate, binds it to its source, verifies   *)
(* it again and reads what it publishes (main.rs, release.rs).             *)
(*                                                                         *)
(* A hook is a process of its own that may leave others behind, may write  *)
(* to the snapshot while it runs, and may never end.  The directory of a   *)
(* sealed Candidate travels through an artifact store, and what it holds   *)
(* may be altered, by the build of a dependency in the same job as well.   *)
(***************************************************************************)
EXTENDS Candidates

CONSTANTS
  Policies,        \* what a commit can state
  Survivors,       \* what a hook can leave behind when it exits
  NotesOfBuild,    \* the notes that a dependency's build code may write
  SPAWN_ATTEMPTS,  \* of process.rs
  MaxTouches,      \* bounds the writes to the snapshot
  MaxAlterations   \* bounds the changes to the directory

(* The hooks that write to the package or record evidence.                 *)
Defined == {"verify_hook_definitions", "sidecar_hook_definitions"}

ASSUME PoliciesAssumption ==
  \A policy \in Policies :
    /\ DOMAIN policy = SealedPolicy
    /\ policy["release_notes"] \in Nat
    /\ \A field \in Defined :
         /\ policy[field] \in Seq(ToSet(policy[field]))
         /\ \A item \in ToSet(policy[field]) : item.required \in BOOLEAN
ASSUME NotesAssumption == NotesOfBuild \subseteq Nat
ASSUME SurvivorsAssumption == Survivors \subseteq {"none", "holds", "quiet"}
ASSUME SpawnAssumption == SPAWN_ATTEMPTS \in Nat \ {0}

VARIABLES
  committed,  \* the policy of the source commit
  snapshot,   \* the package and the changelog in the temporary tree
  at,         \* the step of the rehearsal
  hooks,      \* the hooks still to run in this step
  hook,       \* the running hook's process
  straggler,  \* whether an earlier hook left a process behind
  digested,   \* the last digest of the snapshot
  made,       \* the artifacts, evidence and sidecars so far
  sealed,     \* the manifest that the rehearsal reported
  directory,  \* the Candidate directory
  approved,   \* the Candidate digest that was approved
  publisher,  \* the step of the release command, with what it verified and read
  touches,
  alterations,
  disturbed   \* whether the directory changed under the release command

rehearsal == <<snapshot, at, hooks, hook, straggler, digested, made, sealed, touches>>
release == <<approved, publisher, disturbed>>
vars == <<committed, rehearsal, directory, release, alterations>>

None == <<>>
Committed == [code |-> "committed", notes |-> committed["release_notes"]]
Idle == [state |-> "idle", attempt |-> 1, output |-> "none", rest |-> "none", result |-> "none"]
Nothing == [artifacts |-> <<>>, evidence |-> <<>>, sidecars |-> <<>>]
Waiting == [at |-> "waiting", bound |-> None, manifest |-> None, payload |-> <<>>]

Init ==
  /\ committed \in Policies
  /\ snapshot = Committed
  /\ at = "start"
  /\ hooks = <<>>
  /\ hook = Idle /\ straggler = FALSE
  /\ digested = None
  /\ made = Nothing
  /\ sealed = None /\ directory = None /\ approved = None
  /\ publisher = Waiting
  /\ touches = 0 /\ alterations = 0
  /\ disturbed = FALSE

-----------------------------------------------------------------------------
Over == {"failed", "sealed", "killed"}

(* A step of the rehearsal, on to the next one. *)
Goes(step) == at' = step /\ UNCHANGED <<committed, sealed, directory, release, alterations>>
Fails == Goes("failed") /\ UNCHANGED <<snapshot, hooks, hook, straggler, digested, made, touches>>

(* The requested commit, its manifest's schema and the compiler are as     *)
(* they have to be, or the rehearsal ends.                                 *)
Starts ==
  /\ at = "start"
  /\ \/ /\ Goes("verify")
        /\ hooks' = committed["verify_hook_definitions"]
        /\ UNCHANGED <<snapshot, hook, straggler, digested, made, touches>>
     \/ Fails

(* The snapshot is digested once before the first hook; later on, the      *)
(* digest after one hook is the digest before the next.                    *)
HookPhases == {"verify", "sidecar"}
Prepares ==
  /\ at \in HookPhases /\ hooks # <<>> /\ hook.state = "idle"
  /\ digested' = IF digested = None THEN snapshot ELSE digested
  /\ hook' = [hook EXCEPT !.state = "spawning"]
  /\ Goes(at)
  /\ UNCHANGED <<snapshot, hooks, straggler, made, touches>>

(* A spawn that cannot have started anything is tried again. *)
Ended(result) == [hook EXCEPT !.state = "ended", !.result = result]
Process == Goes(at) /\ UNCHANGED <<snapshot, hooks, straggler, digested, made, touches>>
AttemptsLeftOver == hook.attempt <= SPAWN_ATTEMPTS
AttemptsLeft == hook.attempt < SPAWN_ATTEMPTS
Spawns ==
  /\ at \in HookPhases /\ hook.state = "spawning"
  /\ \/ hook' = [hook EXCEPT !.state = "running"]
     \/ AttemptsLeft /\ hook' = [hook EXCEPT !.attempt = @ + 1]
     \/ hook' = Ended("error")   \* another error, or the last attempt
  /\ Process

(* The hook's process exits, with an output of its choice, and leaves      *)
(* behind nothing, a process that still holds its pipes, or one that       *)
(* closed them; what holds the pipes may go on to end.                     *)
Exits ==
  /\ hook.state = "running" /\ hook.output = "none"
  /\ \E output \in {"success", "failure", "error"}, rest \in Survivors :
       hook' = [hook EXCEPT !.output = output, !.rest = rest]
  /\ Process
LetsGo ==
  /\ hook.rest = "holds"
  /\ hook' = [hook EXCEPT !.rest = "none"]
  /\ Process

(* run_one ends when the process exited and its pipes are closed, or at    *)
(* the deadline, when every process of its group is killed.                *)
Completes ==
  /\ at \in HookPhases /\ hook.state = "running" /\ hook.output # "none" /\ hook.rest # "holds"
  /\ hook' = Ended(hook.output)
  /\ Process
Killed == [Ended("error") EXCEPT !.output = "error", !.rest = "none"]
TimesOutExit ==
  /\ at \in HookPhases /\ hook.state = "running" /\ hook.output = "none"
  /\ hook' = Killed
  /\ Process
TimesOut ==
  /\ at \in HookPhases /\ hook.state = "running"
  /\ hook' = Killed
  /\ Process

(* A process of a hook writes to the snapshot. *)
Alive == straggler \/ hook.rest # "none" \/ (hook.state = "running" /\ hook.output = "none")
Touches ==
  /\ Alive /\ at \notin Over /\ touches < MaxTouches
  /\ \/ snapshot' = [snapshot EXCEPT !.code = "changed"]
     \/ snapshot.code = "changed" /\ snapshot' = [snapshot EXCEPT !.code = "committed"]
  /\ touches' = touches + 1
  /\ UNCHANGED <<committed, at, hooks, hook, straggler, digested, made, sealed, directory, release, alterations>>

(* What a sidecar hook reports: artifacts with distinct names, as many as  *)
(* there is room for.  An artifact list that is refused ends the rehearsal *)
(* even for an optional hook.                                              *)
Reports == {<<>>} \cup {<<one>> : one \in [name : {"report", "sbom"}, public : BOOLEAN,
                                           signature : BOOLEAN]}
ArtifactsOf(id, report) ==
  [i \in DOMAIN report |->
     Sidecar(id, report[i].name, report[i].public, report[i].signature, File(report[i].name, 0))]

ModifiedBySuccess == hook.result = "success" /\ digested # snapshot
Modified == digested # snapshot

(* The verdict on a hook: the snapshot is digested again, whatever the     *)
(* result, and a required hook has to succeed.                             *)
Succeeded == hook.result = "success"
Recorded(sidecars) ==
  /\ made' = [made EXCEPT !.evidence = Append(@, Evidence(at, Head(hooks), Succeeded)),
                          !.sidecars = @ \o sidecars]
  /\ digested' = snapshot
  /\ hooks' = Tail(hooks)
  /\ hook' = Idle
  /\ straggler' = (straggler \/ hook.rest # "none")
  /\ Goes(at)
  /\ UNCHANGED <<snapshot, touches>>
Judged ==
  LET item == Head(hooks) IN
  /\ at \in HookPhases /\ hook.state = "ended"
  /\ \/ Modified /\ Fails
     \/ ~Modified /\ ~Succeeded /\ item.required /\ Fails
     \/ ~Modified /\ ~Succeeded /\ ~item.required /\ Recorded(<<>>)
     \/ ~Modified /\ Succeeded /\ at = "verify" /\ Recorded(<<>>)
     \/ /\ ~Modified /\ Succeeded /\ at = "sidecar"
        /\ \/ \E report \in Reports :
                IF Len(made.sidecars) + Len(report) > MAX_COUNT THEN Fails
                ELSE Recorded(ArtifactsOf(item.id, report))
           \/ Fails

-----------------------------------------------------------------------------
(* The build: package, interface, and documentation when the outputs ask   *)
(* for it.  A dependency's build code may write the changelog, which is    *)
(* read afterwards; the configuration was read before.                     *)
Builds ==
  /\ at = "verify" /\ hooks = <<>> /\ hook.state = "idle"
  /\ \/ LET file(name) == File(snapshot.code, 0)
            paths == {PACKAGE, INTERFACE} \cup (IF committed["outputs"].docs THEN {DOCS} ELSE {})
        IN /\ made' = [made EXCEPT !.artifacts = [path \in paths |-> Described(file(path))]]
           /\ snapshot' \in {snapshot} \cup {[snapshot EXCEPT !.notes = notes] : notes \in NotesOfBuild}
           /\ Goes("assemble")
           /\ UNCHANGED <<hooks, hook, straggler, digested, touches>>
     \/ Fails

(* The policy of the snapshot; the validations of the intent come before   *)
(* the sidecar hooks run.                                                  *)
Policy == [committed EXCEPT !["release_notes"] = snapshot.notes]
Assembles ==
  /\ at = "assemble"
  /\ IF /\ Policy["release_notes"] <= MAX_RELEASE_NOTES_BYTES
        /\ validate_candidate_hook_definitions(Policy)
        /\ validate_notify_hook_definitions(Policy)
       THEN /\ Goes("sidecar")
            /\ hooks' = Policy["sidecar_hook_definitions"]
            /\ digested' = None
            /\ UNCHANGED <<snapshot, hook, straggler, made, touches>>
       ELSE Fails

(* Sealing: every check, then a staging directory, then one rename.        *)
Manifest ==
  Digested(Undigested("commit", Policy, made.artifacts, made.evidence,
                      built_in_evidence(Policy) \o made.sidecars))
Holding(manifest) ==
  [manifest |-> manifest,
   files |-> [path \in Inventory(manifest) |-> Sha256At(manifest, path)]]
IsSealableWithoutPolicy ==
  /\ validate_hook_evidence(Manifest.evidence)
  /\ validate_sidecars(Manifest.sidecars)
IsSealable == Sealable(Manifest)
Seals ==
  /\ at = "sidecar" /\ hooks = <<>> /\ hook.state = "idle"
  /\ IF IsSealable
       THEN /\ Goes("staged")
            /\ UNCHANGED <<snapshot, hooks, hook, straggler, digested, made, touches>>
       ELSE Fails
Renames ==
  /\ at = "staged"
  /\ at' = "sealed"
  /\ directory' = Holding(Manifest)
  /\ sealed' = Manifest
  /\ hook' = Idle /\ hooks' = <<>> /\ digested' = None /\ made' = Nothing
  /\ snapshot' = Committed /\ touches' = 0   \* the temporary tree is gone
  /\ UNCHANGED <<committed, straggler, release, alterations>>

(* The job is cancelled. *)
IsKilled ==
  /\ at \notin Over
  /\ Goes("killed")
  /\ UNCHANGED <<snapshot, hooks, hook, straggler, digested, made, touches>>

-----------------------------------------------------------------------------
(* The directory is altered: one file changes in its bytes or its meaning, *)
(* becomes a link, goes or comes; or a manifest takes the place of the     *)
(* sealed one, made for another package or another policy, with digests    *)
(* that fit it or with those of the sealed one.                            *)
EXTRA == <<"artifacts", "extra">>
OtherFiles(file) == {File(file.content, 1), File("forged", 0), NotAFile}
Forgeries(manifest) ==
  LET other(policy, file) ==
        Undigested(manifest.source, policy,
                   [manifest.artifacts EXCEPT ![PACKAGE] = Described(file)],
                   manifest.evidence,
                   [i \in DOMAIN manifest.sidecars |-> [manifest.sidecars[i] EXCEPT !.public = TRUE]])
      package == manifest.artifacts[PACKAGE].sha256
      open == [manifest.policy EXCEPT !["private"] = FALSE]
      moved == [manifest.policy EXCEPT !["manifest_path"] = "elsewhere"]
      bare == [manifest.policy EXCEPT !["verify_hook_definitions"] = <<>>]
  IN {Digested(other(policy, package)) : policy \in {open, moved, bare}}
     \cup {Digested(other(manifest.policy, File("forged", 0)))}
     \cup {[manifest EXCEPT !.policy = open], [manifest EXCEPT !.evidence = <<>>]}
Altered ==
  /\ directory # None /\ alterations < MaxAlterations /\ publisher.at \notin {"done", "refused"}
  /\ \/ \E path \in DOMAIN directory.files : \E file \in OtherFiles(directory.files[path]) :
          directory' = [directory EXCEPT !.files[path] = file]
     \/ \E path \in DOMAIN directory.files :
          directory' = [directory EXCEPT !.files =
                          [other \in DOMAIN @ \ {path} |-> directory.files[other]]]
     \/ directory' = [directory EXCEPT !.files =
                          [path \in DOMAIN @ \cup {EXTRA} |->
                             IF path = EXTRA THEN File("extra", 0) ELSE directory.files[path]]]
     \/ \E manifest \in Forgeries(directory.manifest) :
          \/ directory' = [directory EXCEPT !.manifest = manifest]
          \/ directory' = Holding(manifest)
     \/ directory' = Holding(sealed)
  /\ directory' # directory
  /\ alterations' = alterations + 1
  /\ disturbed' = (disturbed \/ publisher.at # "waiting")
  /\ UNCHANGED <<committed, rehearsal, approved, publisher>>

(* What is approved is the digest that the rehearsal reported, or the one  *)
(* of a Candidate that verifies.                                           *)
Approves ==
  /\ directory # None /\ approved = None
  /\ \/ approved' = sealed
     \/ verify(directory) /\ approved' = directory.manifest
  /\ UNCHANGED <<committed, rehearsal, directory, publisher, alterations, disturbed>>

-----------------------------------------------------------------------------
(* The release command. *)
Publishes(step) ==
  /\ publisher' = step
  /\ UNCHANGED <<committed, rehearsal, directory, approved, alterations, disturbed>>
Refuses == Publishes([Waiting EXCEPT !.at = "refused"])

verified_candidate ==
  /\ publisher.at = "waiting" /\ directory # None /\ approved # None
  /\ IF verify(directory)
       THEN Publishes([publisher EXCEPT !.at = "verified", !.bound = directory.manifest])
       ELSE Refuses

(* The checkout is at the source commit, and its policy is the Candidate's. *)
bind_to_source ==
  /\ publisher.at = "verified"
  /\ IF publisher.bound.source = "commit" /\ differences(publisher.bound.policy, committed) = {}
       THEN Publishes([publisher EXCEPT !.at = "bound"])
       ELSE Refuses

(* The run verifies the directory again and reads every file that it may   *)
(* publish, each against the manifest it just read.                        *)
VerifiesAgain ==
  /\ publisher.at = "bound"
  /\ IF verify(directory)
       THEN Publishes([publisher EXCEPT !.at = "reading", !.manifest = directory.manifest])
       ELSE Refuses
Public(manifest) ==
  {manifest.sidecars[i].path : i \in {j \in DOMAIN manifest.sidecars : manifest.sidecars[j].public}}
Payload(manifest) == (DOMAIN manifest.artifacts \ {INTERFACE}) \cup Public(manifest)
ReadsFiles ==
  /\ publisher.at = "reading"
  /\ LET paths == Inventory(publisher.manifest) \ {INTERFACE} IN
     IF \A path \in paths : verify_file(directory, publisher.manifest, path)
       THEN Publishes([publisher EXCEPT !.at = "read",
              !.payload = [path \in Payload(publisher.manifest) |-> directory.files[path]]])
       ELSE Refuses

(* approves: nothing is published under the digest of another Candidate. *)
IsApproved == publisher.manifest.candidate_digest = approved.candidate_digest
Releases ==
  /\ publisher.at = "read"
  /\ IF IsApproved THEN Publishes([publisher EXCEPT !.at = "done"]) ELSE Refuses

Rehearses ==
  \/ Starts \/ Prepares \/ Spawns \/ Completes \/ TimesOut \/ Judged
  \/ Builds \/ Assembles \/ Seals \/ Renames
Next ==
  \/ Rehearses \/ Exits \/ LetsGo \/ Touches \/ IsKilled
  \/ Altered \/ Approves
  \/ verified_candidate \/ bind_to_source \/ VerifiesAgain \/ ReadsFiles \/ Releases

(* The rehearsal goes on by itself: its calls return, and a deadline that  *)
(* was set passes, whatever the hook does.                                 *)
Spec == Init /\ [][Next]_vars /\ WF_vars(Rehearses)

-----------------------------------------------------------------------------
(* Every part of the state has its type. *)
TypeOK ==
  /\ committed \in Policies
  /\ snapshot.code \in {"committed", "changed"} /\ snapshot.notes \in Nat
  /\ at \in {"start", "verify", "assemble", "sidecar", "staged"} \cup Over
  /\ hook \in [state : {"idle", "spawning", "running", "ended"}, attempt : 1 .. SPAWN_ATTEMPTS,
               output : {"none", "success", "failure", "error"}, rest : {"none"} \cup Survivors,
               result : {"none", "success", "failure", "error"}]
  /\ straggler \in BOOLEAN
  /\ DOMAIN made.artifacts \subseteq {PACKAGE, DOCS, INTERFACE}
  /\ publisher.at \in {"waiting", "verified", "bound", "reading", "read", "done", "refused"}
  /\ (sealed = None) = (directory = None)

(* A sealed Candidate was built from the committed package, whatever the   *)
(* hooks and what held their pipes wrote, and each of its required hooks   *)
(* succeeded on that package.  A process that a hook left behind with its  *)
(* pipes closed escapes the digests (run_one), so it is excepted.          *)
SealedWasReviewed ==
  sealed # None =>
    /\ ~straggler =>
         \A path \in DOMAIN sealed.artifacts : sealed.artifacts[path].sha256.content = "committed"
    /\ \A hookOf \in ToSet(sealed.policy["verify_hook_definitions"]
                           \o sealed.policy["sidecar_hook_definitions"]) :
         hookOf.required =>
           \E i \in DOMAIN sealed.evidence :
             sealed.evidence[i].id = hookOf.id /\ sealed.evidence[i].success

(* A Candidate that nobody altered verifies, however the rehearsal was cut *)
(* short, unless its manifest outgrew what verify reads.                   *)
SealedVerifies ==
  directory # None /\ alterations = 0 /\ ManifestBytes(sealed) <= MAX_MANIFEST_BYTES =>
    verify(directory)

(* What is published is what the approved manifest describes, file by      *)
(* file, whoever altered the directory and when.                           *)
PublishedIsApproved ==
  publisher.at = "done" =>
    /\ DOMAIN publisher.payload = Payload(approved)
    /\ \A path \in DOMAIN publisher.payload :
         publisher.payload[path] = Sha256At(approved, path)

(* And, unless somebody alters it while the command runs, it follows the   *)
(* policy of the source commit, even when what was approved was altered    *)
(* before: a private package shows only what its commit allows, and every  *)
(* hook that the commit requires succeeded.                                *)
PublishedIsCommitted ==
  publisher.at = "done" /\ ~disturbed =>
    /\ Public(publisher.manifest) # {} =>
         committed["outputs"].github_release
         /\ (committed["private"] => committed["outputs"].allow_private_upload)
    /\ publisher.manifest.policy["release_notes"] = committed["release_notes"]
    /\ \A hookOf \in ToSet(committed["verify_hook_definitions"]) :
         hookOf.required =>
           \E i \in DOMAIN publisher.manifest.evidence :
             publisher.manifest.evidence[i].id = hookOf.id /\ publisher.manifest.evidence[i].success

(* Whoever altered a Candidate and when, what is published is what was     *)
(* approved; and what the source commit allows, if nobody altered it while *)
(* the command ran (release.rs execute).                                   *)
PublishedIsSound == PublishedIsApproved /\ PublishedIsCommitted

(* A rehearsal ends, whatever its hooks do. *)
RehearsalEnds == <>(at \in Over)
=============================================================================

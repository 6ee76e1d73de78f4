------------------------------ MODULE Installer ------------------------------
(***************************************************************************)
(* The GitHub Action that a job of the managed workflow runs               *)
(* (action/index.js): it downloads the pinned release-glz, verifies and    *)
(* unpacks it, runs it, and gives its result to the job.  The servers, the *)
(* child process and whatever that one starts, and the job's signals take  *)
(* their steps whenever they like.                                         *)
(*                                                                         *)
(* A file's digest is a value that only that file has.  A tar is its       *)
(* blocks.  The process steps are those of a Unix runner.                  *)
(***************************************************************************)
EXTENDS Integers, Sequences, FiniteSets

CONSTANTS
  Inputs,       \* the inputs that a job may give the Action
  Checksums,    \* the bundled checksum manifests that it may come with
  Archives,     \* the archives that a server may send,
  Statements,   \* and the provenance files
  Digests,      \* the lowercase SHA-256 digests
  Versions,     \* the vX.Y.Z that normalizedVersion accepts
  Release,      \* the version in package.json
  SafePath,     \* the entry paths that stay inside the archive
  ARCHIVE_ENTRY_LIMIT,
  DOWNLOAD_LIMIT,
  MAX_REDIRECTS,
  ChildCodes    \* the statuses that children exit with

(* The inputs of the Action that only some commands take.                   *)
OptionalInputs == {"dry-run", "online", "source-ref", "candidate", "candidate-build", "plan-file"}

ASSUME InputsAssumption == \A one \in Inputs : one.given \subseteq OptionalInputs
ASSUME ServedAssumption ==
  \A archive \in Archives :
    /\ archive.blocks \in Seq({archive.blocks[i] : i \in DOMAIN archive.blocks})
    /\ \A i \in DOMAIN archive.blocks : archive.blocks[i].size \in Nat

VARIABLES
  inputs,     \* what the job gave,
  checksums,  \* and the checksum manifest beside index.js
  phase,      \* the await that the Action is at
  temporary,  \* whether its temporary directory exists
  listening,  \* the signals that cancel the child; the others end the Action
  fetches,    \* each file's download
  leftover,   \* whether a response that nobody waits for still comes in
  inventory,  \* what it has read of the archive
  child,      \* the process that runs: tar, or release-glz
  straggler,  \* whether something that release-glz started holds its pipes
  printed,    \* what release-glz printed
  failure,    \* why runProcess stopped the child, if it did,
  forced,     \* and whether its grace has passed
  outputs,    \* the step outputs
  exit        \* the exit code of the Action

processVars == <<child, straggler, printed, failure, forced>>
installVars ==
  <<inputs, checksums, phase, temporary, listening, fetches, leftover, inventory,
    processVars, outputs, exit>>

NotEnded == -1
Killed == -2
Signals == {"SIGINT", "SIGTERM"}

-----------------------------------------------------------------------------
(* buildCommandArgs refuses an input that the command does not take.        *)
SUPPORTED_COMMANDS == {"plan", "release-pr", "rehearse", "verify", "release", "status", "doctor"}
TakenBy(input) ==
  CASE input = "dry-run" -> {"release", "release-pr"}
    [] input = "online" -> {"verify", "status", "doctor"}
    [] input = "source-ref" -> {"rehearse"}
    [] input = "candidate" -> {"rehearse", "verify", "release", "release-pr", "status"}
    [] input = "candidate-build" -> {"doctor"}
    [] input = "plan-file" -> {"plan", "release-pr"}
AcceptsInputs(command, given) ==
  /\ command \in SUPPORTED_COMMANDS
  /\ \A input \in given : command \in TakenBy(input)
  /\ ~({"plan-file", "candidate"} \subseteq given)
  /\ command = "rehearse" => {"source-ref", "candidate"} \subseteq given
  /\ command \in {"verify", "release"} => "candidate" \in given

Targets == {"linux:x64", "linux:arm64", "darwin:x64", "darwin:arm64"}
NormalizedVersion(input, actionRef) ==
  IF input # "" THEN input ELSE IF actionRef \in Versions THEN actionRef ELSE Release
Override == inputs.version # ""
Version == NormalizedVersion(inputs.version, inputs.action_ref)
(* The digest that the archive has to have. *)
BundledChecksumHolds ==
  /\ checksums.version = Version
  /\ DOMAIN checksums.artifacts = Targets
  /\ \A target \in Targets : checksums.artifacts[target] \in Digests
Expected == IF Override THEN inputs.checksum ELSE checksums.artifacts[inputs.platform]

-----------------------------------------------------------------------------
(* The inventory of a tar, as far as it has been read, block by block: a    *)
(* header, the blocks of its content, and two blocks of zeroes with nothing *)
(* but zeroes after them.  The last block may be a part of one: a rest of   *)
(* zeroes, or a partial one of anything else.                               *)
Unread == [next |-> 1, entries |-> <<>>, total |-> 0, contentRemaining |-> 0, zeroBlocks |-> 0]
ParseTarHeader(block) == block.is = "header" /\ (block.kind = "directory" => block.size = 0)
ValidateEntry(read, entry) ==
  /\ Len(read.entries) < ARCHIVE_ENTRY_LIMIT
  /\ entry.path \in SafePath /\ entry.kind \in {"file", "directory"}
  /\ \A i \in DOMAIN read.entries : read.entries[i].path # entry.path
  /\ read.total + entry.size <= DOWNLOAD_LIMIT
TakesEntry(read, block) ==
  read.zeroBlocks = 0 /\ ParseTarHeader(block) /\ ValidateEntry(read, block)
(* What reading one block makes of it, or nothing for one that is refused.  *)
InventoryStep(read, block) ==
  LET on == [read EXCEPT !.next = @ + 1]
  IN IF read.zeroBlocks = 2 THEN (IF block.is \in {"zero", "rest"} THEN {on} ELSE {})
     ELSE IF block.is \in {"partial", "rest"} THEN {}
     ELSE IF read.contentRemaining > 0 THEN {[on EXCEPT !.contentRemaining = @ - 1]}
     ELSE IF block.is = "zero" THEN {[on EXCEPT !.zeroBlocks = @ + 1]}
     ELSE IF TakesEntry(read, block)
     THEN {[on EXCEPT !.entries = Append(@, block), !.total = @ + block.size,
                      !.contentRemaining = block.size]}
     ELSE {}
IsComplete(read) ==
  read.zeroBlocks = 2 /\ read.contentRemaining = 0 /\ read.entries # <<>>

-----------------------------------------------------------------------------
Goto(where) == phase' = where
(* The catch and finally blocks of acquireBinary, main and run.  The        *)
(* process is gone once nothing keeps it alive, or when a signal or an      *)
(* uncaught exception ends it: then none of these blocks runs.              *)
EndsWith(code) ==
  /\ phase' = "end" /\ exit' = code
  /\ temporary' = FALSE /\ listening' = {}
Dies(code) ==
  /\ phase' = "dead" /\ exit' = code
  /\ listening' = {} /\ leftover' = FALSE /\ UNCHANGED temporary

(* The Action checks its inputs, and what it will compare the archive with, *)
(* before it downloads anything.                                            *)
InputsHold ==
  /\ AcceptsInputs(inputs.command, inputs.given)
  /\ inputs.platform \in Targets
  /\ Version \in Versions
  /\ IF Override THEN {inputs.checksum, inputs.provenance} \subseteq Digests
     ELSE BundledChecksumHolds
FilesToFetch == {"archive"} \cup (IF Override THEN {"provenance"} ELSE {})
ActionStarts ==
  /\ phase = "start"
  /\ IF ~InputsHold THEN EndsWith(1) /\ UNCHANGED fetches
     ELSE /\ Goto("fetch") /\ temporary' = TRUE
          /\ fetches' = [file \in FilesToFetch |-> [state |-> "open", redirects |-> 0, got |-> {}]]
          /\ UNCHANGED <<listening, exit>>
  /\ UNCHANGED <<inputs, checksums, leftover, inventory, processVars, outputs>>

(* A download: redirects, and a body into a new file of the directory.  All *)
(* of them together, and the first failure ends the Action, while the other *)
(* download goes on.                                                        *)
ASSET_HOSTS == {"objects", "release-assets"}
IsAllowedDownloadRedirect(host) == host \in {"github"} \cup ASSET_HOSTS
Fetch(file, state, got) ==
  fetches' = [fetches EXCEPT ![file].state = state, ![file].got = got]
FetchFails(file) ==
  /\ Fetch(file, "failed", {})
  /\ IF phase = "fetch" THEN EndsWith(1) ELSE UNCHANGED <<phase, exit, temporary, listening>>
IsOpen(file) == file \in DOMAIN fetches /\ fetches[file].state = "open" /\ phase # "dead"
FetchOnly == UNCHANGED <<inputs, checksums, inventory, processVars, outputs>>
(* The response of a redirect is read to its end, without a deadline.       *)
FetchIsRedirected ==
  \E file \in {"archive", "provenance"}, host \in {"github", "release-assets", "elsewhere"} :
    /\ IsOpen(file)
    /\ leftover' = TRUE
    /\ IF IsAllowedDownloadRedirect(host) /\ fetches[file].redirects < MAX_REDIRECTS
       THEN /\ fetches' = [fetches EXCEPT ![file].redirects = @ + 1]
            /\ UNCHANGED <<phase, exit, temporary, listening>>
       ELSE FetchFails(file)
    /\ FetchOnly
(* A redirect to what is no URL: new URL throws in the response's callback, *)
(* where nothing catches it.                                                *)
FetchCrashes ==
  \E file \in {"archive", "provenance"} :
    IsOpen(file) /\ Fetch(file, "malformed", {}) /\ Dies(1) /\ FetchOnly
(* Another status, or a declared length over the limit: its response is     *)
(* read to its end as well.                                                 *)
FetchIsRefused ==
  \E file \in {"archive", "provenance"} :
    IsOpen(file) /\ FetchFails(file) /\ leftover' = TRUE /\ FetchOnly
Served(file) == IF file = "archive" THEN Archives ELSE Statements
FetchEnds ==
  \E file \in {"archive", "provenance"} :
    /\ IsOpen(file)
    /\ IF ~temporary THEN FetchFails(file) /\ leftover' = TRUE
       ELSE /\ \E content \in Served(file) : Fetch(file, "done", {content})
            /\ IF phase = "fetch" /\ \A other \in DOMAIN fetches \ {file} :
                                        fetches[other].state = "done"
               THEN Goto("verify") ELSE UNCHANGED phase
            /\ UNCHANGED <<exit, temporary, listening, leftover>>
    /\ FetchOnly
(* A broken or silent connection, a body over the limit, or the deadline,   *)
(* which holds across redirects, destroys the request.                      *)
DeadlineHoldsUntilRedirected(file) == fetches[file].redirects = 0
DeadlineHolds(file) == fetches[file].redirects <= MAX_REDIRECTS
FetchBreaks ==
  \E file \in {"archive", "provenance"} :
    IsOpen(file) /\ FetchFails(file) /\ UNCHANGED leftover /\ FetchOnly
FetchTimesOut ==
  \E file \in {"archive", "provenance"} :
    IsOpen(file) /\ DeadlineHolds(file) /\ FetchFails(file) /\ UNCHANGED leftover /\ FetchOnly
(* The server ends a response that nobody waits for, or falls silent.       *)
LeftoverEnds ==
  /\ leftover /\ leftover' = FALSE
  /\ UNCHANGED <<inputs, checksums, phase, temporary, listening, fetches, inventory>>
  /\ UNCHANGED <<processVars, outputs, exit>>

-----------------------------------------------------------------------------
(* verifyChecksum and verifyProvenance, over the bytes on disk.             *)
VerifiesChecksum(file, digest) == \A one \in file : one.digest = digest
VerifiesProvenanceDigest(file, digest) == VerifiesChecksum(file, digest)
VerifiesProvenance(file, digest) ==
  /\ VerifiesChecksum(file, digest)
  /\ \A one \in file : one.is_statement /\ one.subject = inputs.checksum
Verified ==
  /\ VerifiesChecksum(fetches["archive"].got, Expected)
  /\ Override => VerifiesProvenance(fetches["provenance"].got, inputs.provenance)
NoChild == [is |-> "none", state |-> "none", code |-> 0]
Spawned(what) == [is |-> what, state |-> "running", code |-> 0]
ActionVerifies ==
  /\ phase = "verify"
  /\ IF Verified THEN Goto("inventory") /\ UNCHANGED <<exit, temporary, listening>> ELSE EndsWith(1)
  /\ UNCHANGED <<inputs, checksums, fetches, leftover, inventory, processVars, outputs>>

Blocks == (CHOOSE one \in fetches["archive"].got : TRUE).blocks
ActionInventories ==
  /\ phase = "inventory" /\ inventory.next \in DOMAIN Blocks
  /\ LET step == InventoryStep(inventory, Blocks[inventory.next])
     IN IF step = {} THEN EndsWith(1) /\ UNCHANGED inventory
        ELSE inventory' \in step /\ UNCHANGED <<phase, exit, temporary, listening>>
  /\ UNCHANGED <<inputs, checksums, fetches, leftover, processVars, outputs>>
ActionExtracts ==
  /\ phase = "inventory" /\ inventory.next \notin DOMAIN Blocks
  /\ IF IsComplete(inventory)
     THEN Goto("extract") /\ child' = Spawned("tar") /\ UNCHANGED <<exit, temporary, listening>>
     ELSE EndsWith(1) /\ UNCHANGED child
  /\ UNCHANGED <<inputs, checksums, fetches, leftover, inventory, outputs>>
  /\ UNCHANGED <<straggler, printed, failure, forced>>

(* What was extracted has to be a regular file; then signals cancel, and    *)
(* the timeout input is read.                                               *)
IsRegular == \A one \in fetches["archive"].got : one.binary = "file"
ActionRuns ==
  /\ phase = "inspect"
  /\ IF IsRegular /\ inputs.timeout \in 1 .. 3600
     THEN /\ Goto("run") /\ child' = Spawned("release-glz") /\ listening' = Signals
          /\ failure' = "none" /\ forced' = FALSE
          /\ UNCHANGED <<exit, temporary>>
     ELSE EndsWith(1) /\ UNCHANGED <<child, failure, forced>>
  /\ UNCHANGED <<inputs, checksums, fetches, leftover, inventory, straggler, printed, outputs>>

-----------------------------------------------------------------------------
(* runProcess.  A child exits with a code, or a signal ends it; what it     *)
(* started may live on and hold its pipes.                                  *)
Active == phase \in {"extract", "run"}
ChildOnly ==
  UNCHANGED <<inputs, checksums, phase, temporary, listening, fetches, leftover, inventory,
              outputs, exit>>
ChildEnds ==
  /\ child.state = "running"
  /\ \/ \E code \in ChildCodes : child' = [child EXCEPT !.state = "exited", !.code = code]
     \/ child' = [child EXCEPT !.state = "signalled"]
  /\ IF child.is = "release-glz"
     THEN /\ straggler' \in BOOLEAN
          /\ printed' \in {"nothing", "garbage", "envelope"}
     ELSE UNCHANGED <<straggler, printed>>
  /\ UNCHANGED <<failure, forced>> /\ ChildOnly
StragglerEnds ==
  /\ straggler /\ straggler' = FALSE
  /\ UNCHANGED <<child, printed, failure, forced>> /\ ChildOnly

(* terminateProcess does nothing to a child that has exited.  Its first     *)
(* signal asks, and the second one ends the child's whole process group.    *)
TerminateProcess(force) ==
  IF child.state = "exited" \/ ~force THEN UNCHANGED <<child, straggler>>
  ELSE straggler' = FALSE /\ child' = [child EXCEPT !.state = "signalled"]
Cancels(why) ==
  /\ failure' = why
  /\ TerminateProcess(FALSE)
  /\ UNCHANGED <<printed, forced>>
Stops(why) == Active /\ failure = "none" /\ Cancels(why) /\ ChildOnly
ProcessTimesOut == Stops("timeout")
OutputExceeds == (child.state = "running" \/ straggler) /\ Stops("output limit")
GraceEnds ==
  /\ Active /\ failure # "none" /\ ~forced
  /\ forced' = TRUE
  /\ TerminateProcess(TRUE)
  /\ UNCHANGED <<printed, failure>> /\ ChildOnly

(* The job's signal.  The first one of its name cancels the child, if       *)
(* nothing else has; any other ends an Action that still runs, be it only   *)
(* because a response comes in.                                             *)
Waiting == phase # "end" \/ leftover \/ \E file \in DOMAIN fetches : IsOpen(file)
JobSignals ==
  \E signal \in Signals :
    IF signal \in listening
    THEN /\ listening' = listening \ {signal}
         /\ IF failure = "none" THEN Cancels("cancelled") ELSE UNCHANGED processVars
         /\ UNCHANGED <<inputs, checksums, phase, temporary, fetches, leftover, inventory>>
         /\ UNCHANGED <<outputs, exit>>
    ELSE /\ phase # "dead" /\ Waiting
         /\ Dies(Killed)
         /\ UNCHANGED <<inputs, checksums, fetches, inventory, processVars, outputs>>

(* Once the child and its pipes are closed: tar has to have succeeded; what *)
(* release-glz printed becomes the step outputs, whatever its exit code.    *)
Succeeded == failure = "none" /\ child.state = "exited" /\ child.code = 0
CodeOf == IF failure = "none" /\ child.state = "exited" /\ child.code # 0 THEN child.code ELSE 1
Closed == Active /\ child.state \in {"exited", "signalled"} /\ ~straggler
TarCloses ==
  /\ Closed /\ child.is = "tar"
  /\ IF Succeeded THEN Goto("inspect") /\ UNCHANGED <<exit, temporary, listening>>
     ELSE EndsWith(CodeOf)
  /\ UNCHANGED <<inputs, checksums, fetches, leftover, inventory, processVars, outputs>>
IsRelayedAlways == printed = "envelope"
IsRelayed == failure = "none" /\ printed = "envelope"
ResultCode ==
  IF IsRelayed THEN (IF Succeeded THEN 0 ELSE CodeOf)
  ELSE IF failure = "none" /\ printed = "nothing" THEN CodeOf ELSE 1
ReleaseGlzCloses ==
  /\ Closed /\ child.is = "release-glz"
  /\ outputs' = IF IsRelayed THEN "envelope" ELSE outputs
  /\ EndsWith(ResultCode)
  /\ UNCHANGED <<inputs, checksums, fetches, leftover, inventory, processVars>>

ActionSteps ==
  \/ ActionStarts \/ ActionVerifies \/ ActionInventories \/ ActionExtracts \/ ActionRuns
  \/ GraceEnds \/ TarCloses \/ ReleaseGlzCloses
Timers == FetchTimesOut \/ ProcessTimesOut
InstallNext ==
  \/ ActionSteps \/ Timers
  \/ FetchIsRedirected \/ FetchCrashes \/ FetchIsRefused \/ FetchEnds \/ FetchBreaks
  \/ LeftoverEnds
  \/ ChildEnds \/ StragglerEnds \/ OutputExceeds
  \/ JobSignals
InstallRest(given, manifest) ==
  /\ inputs = given /\ checksums = manifest
  /\ temporary = FALSE /\ listening = {} /\ fetches = <<>> /\ leftover = FALSE
  /\ inventory = Unread
  /\ child = NoChild /\ straggler = FALSE /\ printed = "nothing"
  /\ failure = "none" /\ forced = FALSE /\ outputs = "none"
InstallInit ==
  /\ \E given \in Inputs, manifest \in Checksums : InstallRest(given, manifest)
  /\ phase = "start" /\ exit = NotEnded
(* The Action's own steps are taken, and its timers run out.                *)
InstallFairness == WF_installVars(ActionSteps) /\ WF_installVars(FetchTimesOut)
                   /\ WF_installVars(ProcessTimesOut)
InstallSpec == InstallInit /\ [][InstallNext]_installVars /\ InstallFairness

-----------------------------------------------------------------------------
(* A whole archive: its blocks are entries that follow one another, each a  *)
(* header and its content, and then at least two blocks of zeroes, and no   *)
(* more than zeroes after them.                                             *)
IsPadding(blocks, last, i) ==
  blocks[i].is = "zero" \/ (i > last + 2 /\ blocks[i].is = "rest")
IsWhole(blocks) ==
  \E last \in 1 .. Len(blocks) - 2, headers \in SUBSET DOMAIN blocks :
    LET ends == {head + blocks[head].size : head \in headers}
    IN /\ \A head \in headers : blocks[head].is = "header"
       /\ headers = {1} \cup {one + 1 : one \in ends \ {last}}
       /\ last \in ends
       /\ \A i, j \in headers : blocks[i].path = blocks[j].path => i = j
       /\ \A i \in last + 1 .. Len(blocks) : IsPadding(blocks, last, i)

WholeArchives == {archive \in Archives : IsWhole(archive.blocks)}

(* What the Action runs is what its own release, or the job, named by its   *)
(* digest: a regular file of a whole archive with that digest, which the    *)
(* named provenance binds when the job chose another version; whichever     *)
(* files the servers sent, in whatever order (acquireBinary).               *)
RunsWhatWasNamed ==
  child.is = "release-glz" =>
    \E archive \in fetches["archive"].got :
      /\ archive.binary = "file" /\ archive \in WholeArchives
      /\ IF Override
         THEN /\ archive.digest = inputs.checksum
              /\ \E statement \in fetches["provenance"].got :
                   statement.digest = inputs.provenance /\ statement.subject = archive.digest
         ELSE /\ checksums.version = Version
              /\ archive.digest = checksums.artifacts[inputs.platform]

(* A step's outputs are those of a release-glz that ended by itself, the    *)
(* exit code is the one that it exited with, and success is never reported  *)
(* without a result.  An Action that ends leaves neither its directory nor  *)
(* a child behind.  It leaves them only when it dies: when the runner kills *)
(* it, or, before it has a child, on a redirect to what is no URL, whose    *)
(* exception nothing catches (download); then it fails.                     *)
StepTellsTheTruth ==
  /\ outputs = "envelope" =>
       /\ printed = "envelope" /\ failure = "none"
       /\ exit \in {Killed, IF child.state = "exited" THEN child.code ELSE 1}
  /\ exit = 0 => outputs = "envelope"
  /\ phase = "end" => ~temporary /\ child.state # "running"
  /\ phase = "dead" /\ exit # Killed =>
       /\ exit = 1 /\ child.is = "none" /\ outputs = "none"
       /\ \E file \in DOMAIN fetches : fetches[file].state = "malformed"

(* The Action has its result and waits for no download.                     *)
Ended == phase = "dead" \/ (phase = "end" /\ ~\E file \in DOMAIN fetches : IsOpen(file))

(* Every Action comes to its end, its downloads with it: whatever the       *)
(* servers and the child do, deadlines, the timeout and the second signal   *)
(* see to it.  Two things may still keep its process, as in the code: a     *)
(* server that never ends the response of a redirect or a refusal, which is *)
(* read with its deadline cleared (download), and, before the result, what  *)
(* a child that has exited left behind and that holds its pipes             *)
(* (terminateProcess).                                                      *)
ActionEnds ==
  \/ <>(Ended /\ ~leftover)
  \/ <>[](Ended /\ leftover)
  \/ <>[](straggler /\ child.state = "exited")
=============================================================================

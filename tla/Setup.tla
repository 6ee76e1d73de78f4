-------------------------------- MODULE Setup --------------------------------
(***************************************************************************)
(* Setting a package up for release-glz: the commands that write the       *)
(* manifest and the managed workflow - init, migrate, set-version and      *)
(* prerelease - and doctor, which says what to run next (main.rs,          *)
(* migrate.rs, workflow.rs, doctor.rs).  People edit the same files while  *)
(* a command runs, and a command may be killed between two of its writes.  *)
(*                                                                         *)
(* A file is its text.  A manifest is its table, its version and the other *)
(* words that people wrote in it; a workflow is the settings that it       *)
(* follows and the words that a person added.                              *)
(***************************************************************************)
EXTENDS Configuration, FiniteSets

CONSTANTS
  FirstManifests, \* the manifests that a package may start with
  FirstWorkflows, \* the workflows
  FirstAudits,    \* and what doctor --online may find at first
  Tables,         \* the tables that people write; an empty one is no table
  ZeroVersions,   \* the versions below 1.0.0
  Organizations,  \* the organization names that people give init,
  PrivateFields,  \* and the options of a private registry
  DefaultBranch,  \* GitRepo::default_branch
  YamlScalars,    \* the scalars that render_configured accepts
  Compilers,      \* the compilers that may be installed at first; 0 is none
  Pins,           \* the commits that init pins the Action to,
  OtherPins,      \* and those that somebody else does
  Environments,   \* the protections that a GitHub Environment may be given
  MaxBullets,     \* bounds the bullets under Unreleased of the changelog
  MaxEdits,       \* bounds what people do
  MaxKills,       \* bounds killed commands
  MaxCommands     \* bounds the commands that nobody advised

(* A manifest by what is read of it, and the words that aren't.             *)
IsManifest(text) ==
  text = [name |-> text.name, path |-> text.path, tag_prefix |-> text.tag_prefix,
          table |-> text.table, version |-> text.version, words |-> text.words]
ASSUME ManifestsAssumption == \A text \in FirstManifests : IsManifest(text)
ASSUME TablesAssumption == \A table \in Tables : DOMAIN table # {}
ASSUME PinsAssumption == Pins \cap OtherPins = {}

VARIABLES
  manifest,   \* gleam.toml
  workflow,   \* .github/workflows/release-glz.yml
  record,     \* the text that workflow-state.json names by its digest
  bullets,    \* how many bullets the changelog has under Unreleased
  backup,     \* .release-glz/legacy-gleam.toml
  notes,      \* the note files that migrate made of the bullets
  installed,  \* the compiler on the machine
  audit,      \* the registry credential and the protected Environment
  command,    \* the command that runs
  advice,     \* what doctor said last
  \* history of what happened, which no command reads:
  unseen,     \* the files edited since the command last read them
  migrated,   \* the text and the notes of the last migration that ended
  unrecorded, \* whether a workflow was written without its record
  edits, kills, commands

files == <<manifest, workflow, record, bullets, backup, notes>>
machine == <<installed, audit>>
history == <<unseen, migrated, unrecorded, edits, kills, commands>>
setupVars == <<files, machine, command, advice, history>>

(* What a workflow follows; no text, and the one that settings render.      *)
WorkflowSettings(config, pin) ==
  [default_branch |-> DefaultBranch, compiler |-> config.compiler,
   environment |-> config.approval.environment,
   registry_credential_env |-> config.registry.credential_env,
   release_branch_prefix |-> config.release_branch_prefix, action_sha |-> pin]
Rendered(settings) == {[settings |-> settings, words |-> 0]}
Missing == {}
(* Bytes that are no UTF-8 text. *)
IsReadable(text) == \A one \in text : one.words >= 0

(* render_configured refuses what could change the meaning of the YAML.     *)
Renders(settings) ==
  /\ <<"heads", settings.default_branch>> \in SafeRefs
  /\ {settings.default_branch, settings.environment, settings.release_branch_prefix}
       \subseteq YamlScalars
  /\ settings.registry_credential_env \in EnvNames

-----------------------------------------------------------------------------
(* doctor: what it finds wrong in what run_doctor observed, and for each    *)
(* error the action that it advises.  A workflow is current when it is the  *)
(* one that the manifest and its own pin ask for.                           *)
ActionPins == {text.settings.action_sha : text \in workflow}
WorkflowIsCurrent(config) ==
  /\ IsReadable(workflow)
  /\ \E pin \in ActionPins : LET settings == WorkflowSettings(config, pin)
                             IN Renders(settings) /\ workflow = Rendered(settings)
If(condition, error) == IF condition THEN {error} ELSE {}
LocalErrors(config) ==
  If(config.schema # 2, "config_schema_legacy")
  \cup If(installed # config.compiler, "compiler_mismatch")
  \cup If(~WorkflowIsCurrent(config), "workflow_outdated")

(* assess_approval: what a GitHub Environment lacks of what the separation  *)
(* asks for.                                                                *)
ReviewersUnsupported(environment) == environment.private /\ ~environment.enterprise
StrictErrors(approval, environment) ==
  If(environment.reviewers = 0, "strict_reviewer_missing")
  \cup If(~environment.prevent_self_review, "strict_self_review_allowed")
  \cup If(~environment.default_branch_protected, "default_branch_unprotected")
  \cup If(~environment.protected_branches_only, "environment_branch_policy_weak")
  \cup If(ReviewersUnsupported(environment), "strict_private_plan_unsupported")
  \cup If(approval.private_repository_fallback # {}, "strict_fallback_forbidden")
SoloErrors(approval, environment) ==
  IF ReviewersUnsupported(environment)
  THEN If(approval.private_repository_fallback = {}, "private_environment_reviewers_unavailable")
  ELSE If(environment.reviewers = 0, "environment_reviewer_missing")
ApprovalErrors(approval, environment) ==
  IF approval.separation = "strict" THEN StrictErrors(approval, environment)
  ELSE SoloErrors(approval, environment)
OnlineErrors(config) ==
  If(audit.credential # "allowed", "registry_credential_missing")
  \cup If(audit.environment = {}, "github_environment_unobserved")
  \cup UNION {ApprovalErrors(config.approval, one) : one \in audit.environment}

(* The list of actions has the order in which doctor looks for errors. *)
ActionFor(error) ==
  CASE error = "config_schema_legacy" -> "migrate"
    [] error = "compiler_mismatch" -> "install"
    [] error = "registry_credential_missing" -> "credential"
    [] error = "workflow_outdated" -> "init"
    [] error = "github_environment_unobserved" -> "token"
    [] OTHER -> "protect"
Assess(config) ==
  LET asked == {ActionFor(error) : error \in LocalErrors(config) \cup OnlineErrors(config)}
  IN SelectSeq(<< <<"migrate", 0>>, <<"install", config.compiler>>, <<"credential", 0>>,
                  <<"init", 0>>, <<"token", 0>>, <<"protect", 0>> >>,
               LAMBDA action : action[1] \in asked)

-----------------------------------------------------------------------------
(* A command by its kind, its next step, the manifest it loaded and the one *)
(* it renders, the workflow it renders, and the notes it makes.             *)
Idle == [kind |-> "none", at |-> "end", loaded |-> Missing, renders |-> Missing,
         workflow |-> Missing, notes |-> <<>>]
Running(kind, at, renders, workflows, newNotes) ==
  [kind |-> kind, at |-> at, loaded |-> {manifest}, renders |-> renders,
   workflow |-> workflows, notes |-> newNotes]
Goes(at) == command' = [command EXCEPT !.at = at]
Ends == command' = Idle
Reread(seen) == unseen' = unseen \ seen
NothingElse == UNCHANGED <<machine, advice, bullets, migrated, unrecorded, edits, kills, commands>>

(* A command runs because doctor asked for it, or because a person wants to. *)
Asked(kind) == advice # <<>> /\ Head(advice)[1] = kind
Wanted(kind) ==
  /\ command = Idle
  /\ \/ Asked(kind) /\ advice' = Tail(advice) /\ UNCHANGED commands
     \/ ~Asked(kind) /\ commands < MaxCommands /\ commands' = commands + 1 /\ UNCHANGED advice

(* init --update of a schema 2 package, or of one without a table and with  *)
(* a profile.                                                               *)
Settings(registry, allow) ==
  [compiler |-> installed, registry |-> registry, allow_version_zero |-> allow,
   default_branch |-> DefaultBranch]
Registries ==
  UNION {InitializationRegistry(profile, organization, fields) :
           profile \in {"public", "organization", "private"},
           organization \in {{}} \cup {{name} : name \in Organizations},
           fields \in {{}} \cup {{one} : one \in PrivateFields}}
Initializations ==
  IF DOMAIN manifest.table # {} THEN {manifest.table}
  ELSE {Initialized(Settings(registry, allow)) : registry \in Registries, allow \in BOOLEAN}
Initializable ==
  {table \in Initializations :
     /\ LoadsManifest(manifest)
     /\ IsStructured(table) /\ Loads(table)
     /\ DOMAIN manifest.table = {} =>
          /\ installed # 0 /\ <<"heads", DefaultBranch>> \in SafeRefs
          /\ manifest.version \in ZeroVersions => table.allow_version_zero
     /\ \A pin \in Pins : Renders(WorkflowSettings(Reads(table), pin))}
InitStarts ==
  /\ Wanted("init")
  /\ \E table \in Initializable, pin \in Pins :
       command' = Running("init", "sync", {[manifest EXCEPT !.table = table]},
                          Rendered(WorkflowSettings(Reads(table), pin)), <<>>)
  /\ Reread({"manifest"})
  /\ UNCHANGED <<files, machine, migrated, unrecorded, edits, kills>>

(* sync reads the workflow and, to overwrite one, the record of its digest. *)
(* Bytes that are no text count as no file.                                 *)
OverwritableAlways == TRUE
Overwritable == workflow = Missing \/ ~IsReadable(workflow) \/ record = workflow
SyncReads ==
  /\ command.at = "sync"
  /\ IF workflow = command.workflow THEN Goes("check")
     ELSE IF Overwritable THEN Goes("write") ELSE Ends
  /\ Reread({"workflow"})
  /\ NothingElse /\ UNCHANGED files
SyncWrites ==
  /\ command.at = "write"
  /\ workflow' = command.workflow
  /\ Goes("record")
  /\ Reread({"workflow"})
  /\ NothingElse /\ UNCHANGED <<manifest, record, backup, notes>>
RecordedTextStale == record
RecordedText == command.workflow
SyncRecords ==
  /\ command.at = "record"
  /\ record' = RecordedText
  /\ Goes("check")
  /\ NothingElse /\ UNCHANGED <<manifest, workflow, backup, notes, unseen>>

(* Manifest::replace_source re-reads the manifest and refuses to replace    *)
(* one that changed.                                                        *)
IsUnchanged == command.loaded = {manifest}
ChecksManifest ==
  /\ command.at = "check"
  /\ IF IsUnchanged /\ command.renders # {manifest} THEN Goes("replace") ELSE Ends
  /\ Reread({"manifest"})
  /\ NothingElse /\ UNCHANGED files
ReplacesManifest ==
  /\ command.at = "replace"
  /\ manifest' \in command.renders
  /\ migrated' = IF command.kind # "migrate" THEN migrated
                 ELSE {[manifest |-> command.loaded, notes |-> command.notes]}
  /\ Ends
  /\ Reread({"manifest"})
  /\ UNCHANGED <<workflow, record, bullets, backup, notes, machine, advice, unrecorded>>
  /\ UNCHANGED <<edits, kills, commands>>

-----------------------------------------------------------------------------
(* migrate --update of a schema 1 manifest: its check, its backup, its      *)
(* notes and its manifest.  A single bullet has a name of its own, here 0.  *)
(* A file that it creates is empty until it is written.                     *)
EmptyText == [name |-> "", path |-> {}, tag_prefix |-> {}, table |-> <<>>,
              version |-> "", words |-> 0]
EmptyNote == 0
NotesOf(count) == IF count = 1 THEN [id \in {0} |-> 1] ELSE [id \in 1 .. count |-> id]
CanMigrate ==
  /\ LoadsManifest(manifest) /\ ~IsStructured(manifest.table)
  /\ Minimum <= installed
  /\ Migratable(Reads(manifest.table))
  /\ Loads(SchemaTwo(Reads(manifest.table), installed))
MigrateStarts ==
  /\ Wanted("migrate")
  /\ CanMigrate
  /\ command' = Running("migrate", "agree",
       {[manifest EXCEPT !.table = SchemaTwo(Reads(manifest.table), installed)]},
       Missing, NotesOf(bullets))
  /\ Reread({"manifest"})
  /\ UNCHANGED <<files, machine, migrated, unrecorded, edits, kills>>

BackupAgreesAlways == TRUE
BackupAgrees == backup = Missing \/ backup = command.loaded
NotesAgree ==
  \A id \in DOMAIN notes \cap DOMAIN command.notes : notes[id] = command.notes[id]
MigrateAgrees ==
  /\ command.at = "agree"
  /\ IF IsUnchanged /\ BackupAgrees /\ NotesAgree THEN Goes("backup") ELSE Ends
  /\ Reread({"manifest"})
  /\ NothingElse /\ UNCHANGED files
CreatesBackup ==
  /\ command.at = "backup"
  /\ IF backup = Missing THEN backup' = {EmptyText} /\ Goes("fill backup")
     ELSE Goes("notes") /\ UNCHANGED backup
  /\ NothingElse /\ UNCHANGED <<manifest, workflow, record, notes, unseen>>
FillsBackup ==
  /\ command.at = "fill backup"
  /\ backup' = command.loaded
  /\ Goes("notes")
  /\ NothingElse /\ UNCHANGED <<manifest, workflow, record, notes, unseen>>
Unwritten == DOMAIN command.notes \ DOMAIN notes
FirstUnwritten == CHOOSE id \in Unwritten : \A other \in Unwritten : id <= other
CreatesNote ==
  /\ command.at = "notes"
  /\ IF Unwritten = {} THEN Goes("replace") /\ UNCHANGED notes
     ELSE /\ notes' = [id \in DOMAIN notes \cup {FirstUnwritten} |->
                          IF id = FirstUnwritten THEN EmptyNote ELSE notes[id]]
          /\ Goes("fill note")
  /\ NothingElse /\ UNCHANGED <<manifest, workflow, record, backup, unseen>>
FillsNote ==
  /\ command.at = "fill note"
  /\ notes' = [id \in DOMAIN notes |->
                 IF id \in DOMAIN command.notes THEN command.notes[id] ELSE notes[id]]
  /\ Goes("notes")
  /\ NothingElse /\ UNCHANGED <<manifest, workflow, record, backup, unseen>>

-----------------------------------------------------------------------------
(* set-version and prerelease plan from one reading of the manifest and     *)
(* load it again to edit it: the version, and the channel of prerelease.    *)
PlansVersion ==
  /\ Wanted("version")
  /\ LoadsManifest(manifest)
  /\ command' = Running("version", "load", Missing, Missing, <<>>)
  /\ Reread({"manifest"})
  /\ UNCHANGED <<files, machine, migrated, unrecorded, edits, kills>>
WithChannel(table, channel) ==
  IF channel = {} THEN [key \in DOMAIN table \ {"prerelease"} |-> table[key]]
  ELSE [key \in DOMAIN table \cup {"prerelease"} |->
          IF key = "prerelease" THEN channel ELSE table[key]]
LoadsToEdit ==
  /\ command.at = "load"
  /\ IF LoadsManifest(manifest)
     THEN \E table \in {manifest.table, WithChannel(manifest.table, {"rc"}),
                        WithChannel(manifest.table, {})} :
            command' = Running("version", "check",
              {[manifest EXCEPT !.version = "planned", !.table = table]}, Missing, <<>>)
     ELSE Ends
  /\ Reread({"manifest"})
  /\ NothingElse /\ UNCHANGED files

-----------------------------------------------------------------------------
(* doctor answers between two commands, and only for a manifest that loads. *)
(* People work down its list before they ask again: they run the command,   *)
(* which may refuse, or do what it asks for on their machine, at the        *)
(* registry or on GitHub.                                                   *)
Advises ==
  /\ command = Idle /\ advice = <<>>
  /\ LoadsManifest(manifest)
  /\ advice' = Assess(Reads(manifest.table))
  /\ advice' # advice
  /\ UNCHANGED <<files, machine, command, history>>
Installs(compiler) ==
  /\ installed' = compiler
  /\ UNCHANGED audit
Observes(found) == audit' = found /\ UNCHANGED installed
Protects(approval) ==
  LET suitable == {one \in Environments : ApprovalErrors(approval, one) = {}}
  IN IF suitable = {} THEN UNCHANGED machine
     ELSE \E one \in suitable : Observes([audit EXCEPT !.environment = {one}])
FollowsAdvice ==
  /\ command = Idle
  /\ LoadsManifest(manifest)
  /\ advice # <<>> /\ advice' = Tail(advice)
  /\ \/ Asked("install") /\ Installs(Head(advice)[2])
     \/ Asked("protect") /\ Protects(Reads(manifest.table).approval)
     \/ Asked("credential") /\ Observes([audit EXCEPT !.credential = "allowed"])
     \/ Asked("token") /\ \E one \in Environments :
                             Observes([audit EXCEPT !.environment = {one}])
     \/ Asked("init") /\ Initializable = {} /\ UNCHANGED machine
     \/ Asked("migrate") /\ ~CanMigrate /\ UNCHANGED machine
  /\ UNCHANGED <<files, command, history>>

(* A command killed between the workflow and its record leaves one without  *)
(* the other; one killed before it filled a file leaves it empty.           *)
CommandKilled ==
  /\ command # Idle
  /\ kills < MaxKills
  /\ kills' = kills + 1
  /\ Ends /\ advice' = <<>>
  /\ unrecorded' = (unrecorded \/ command.at = "record")
  /\ UNCHANGED <<files, machine, unseen, migrated, edits, commands>>

(* People edit the manifest, its table or other words, and the workflow:    *)
(* add words, move its pin as an update bot does, remove it, or break it.   *)
EditsManifest ==
  /\ edits < MaxEdits /\ edits' = edits + 1
  /\ \/ \E table \in Tables \ {manifest.table} : manifest' = [manifest EXCEPT !.table = table]
     \/ manifest' = [manifest EXCEPT !.words = @ + 1]
  /\ unseen' = unseen \cup {"manifest"}
  /\ UNCHANGED <<workflow, record, bullets, backup, notes, machine, command, advice>>
  /\ UNCHANGED <<migrated, unrecorded, kills, commands>>
EditsWorkflow ==
  /\ edits < MaxEdits /\ edits' = edits + 1
  /\ \/ \E text \in workflow : workflow' = {[text EXCEPT !.words = 1]}
     \/ \E text \in workflow : workflow' = {[text EXCEPT !.words = -1]}
     \/ \E text \in workflow, pin \in OtherPins :
          workflow' = {[text EXCEPT !.settings.action_sha = pin]}
     \/ workflow # Missing /\ workflow' = Missing
  /\ unseen' = unseen \cup {"workflow"}
  /\ UNCHANGED <<manifest, record, bullets, backup, notes, machine, command, advice>>
  /\ UNCHANGED <<migrated, unrecorded, kills, commands>>
AddsBullet ==
  /\ edits < MaxEdits /\ edits' = edits + 1
  /\ bullets < MaxBullets /\ bullets' = bullets + 1
  /\ UNCHANGED <<manifest, workflow, record, backup, notes, machine, command, advice>>
  /\ UNCHANGED <<unseen, migrated, unrecorded, kills, commands>>

CommandSteps ==
  \/ SyncReads \/ SyncWrites \/ SyncRecords \/ ChecksManifest \/ ReplacesManifest
  \/ MigrateAgrees \/ CreatesBackup \/ FillsBackup \/ CreatesNote \/ FillsNote
  \/ LoadsToEdit
SetupNext ==
  \/ InitStarts \/ MigrateStarts \/ PlansVersion
  \/ CommandSteps
  \/ Advises \/ FollowsAdvice
  \/ CommandKilled \/ EditsManifest \/ EditsWorkflow \/ AddsBullet
SetupInit ==
  /\ manifest \in FirstManifests
  /\ workflow \in FirstWorkflows /\ record = Missing
  /\ bullets = 1 /\ backup = Missing /\ notes = <<>>
  /\ installed \in Compilers /\ audit \in FirstAudits
  /\ command = Idle /\ advice = <<>>
  /\ unseen = {} /\ migrated = Missing /\ unrecorded = FALSE
  /\ edits = 0 /\ kills = 0 /\ commands = 0

(* A command that runs goes on, and people ask doctor and follow it.        *)
SetupFairness ==
  /\ WF_setupVars(CommandSteps)
  /\ WF_setupVars(Advises)
  /\ WF_setupVars(InitStarts /\ commands' = commands)
  /\ WF_setupVars(MigrateStarts /\ commands' = commands)
  /\ WF_setupVars(FollowsAdvice)
SetupSpec == SetupInit /\ [][SetupNext]_setupVars /\ SetupFairness

-----------------------------------------------------------------------------
(* What the value of every key that a command keeps is worth. *)
Decided(kind) ==
  CASE kind = "migrate" -> {"schema", "compiler"}
    [] kind = "version" -> {"prerelease"}
    [] OTHER -> {}
KeepsWords(kind, old, new) ==
  /\ new.words = old.words
  /\ kind = "version" \/ new.version = old.version
  /\ \A key \in DOMAIN Default \ Decided(kind) :
       \/ kind = "init" /\ DOMAIN old.table = {}
       \/ Reads(new.table)[key] = Reads(old.table)[key]
IsPersonal(text) ==
  \E one \in text : one.words # 0 \/ one.settings.action_sha \in OtherPins

(* A command never undoes what a person wrote: it keeps every word of the   *)
(* manifest and the value of every key that it does not set itself, whoever *)
(* edited the manifest while it worked, and never replaces a workflow that  *)
(* a person touched.  The exceptions are the ones of the code: an edit      *)
(* after the last reading before a write (replace_source and sync read,     *)
(* compare, and then rename), and a workflow that is no text.               *)
EditsSurvive ==
  [][edits' = edits =>
       /\ \/ manifest' = manifest
          \/ "manifest" \in unseen
          \/ KeepsWords(command.kind, manifest, manifest')
       /\ \/ workflow' = workflow
          \/ "workflow" \in unseen
          \/ ~IsReadable(workflow)
          \/ ~IsPersonal(workflow)]_setupVars

(* Migration::apply preserves the legacy manifest and the changelog's       *)
(* bullets first: whatever was killed, edited or migrated before, when a    *)
(* migration replaced a manifest, the backup is that very text, and every   *)
(* bullet that it read has its note, whole.                                 *)
LegacyIsKept ==
  \A migration \in migrated :
    /\ backup = migration.manifest
    /\ DOMAIN migration.notes \subseteq DOMAIN notes
    /\ \A id \in DOMAIN migration.notes : notes[id] = migration.notes[id]

(* Where the advice of doctor ends: nothing is wrong, or one of the reasons *)
(* for which the code refuses to go on and a person has to decide.          *)
Sound(config) == LocalErrors(config) = {} /\ OnlineErrors(config) = {}
NeedsAPerson(config) ==
  \/ /\ config.schema = 1
     /\ \/ ~Migratable(config)
        \/ backup \notin {Missing, {manifest}}
        \/ \E id \in DOMAIN notes : notes[id] = EmptyNote
  \/ IsPersonal(workflow)
  \/ unrecorded
  \/ \A pin \in Pins : ~Renders(WorkflowSettings(config, pin))
  \/ \A one \in Environments : ApprovalErrors(config.approval, one) # {}

(* People who do what doctor says, and nothing else, end with a package     *)
(* that doctor finds nothing wrong with, or with one that the code leaves   *)
(* to them: advice never goes round in circles.                             *)
AdviceSettles ==
  <>[](LoadsManifest(manifest) =>
         LET config == Reads(manifest.table) IN Sound(config) \/ NeedsAPerson(config))
=============================================================================

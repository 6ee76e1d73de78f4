---------------------------- MODULE AdoptionProofs ----------------------------
(***************************************************************************)
(* Of the run that sets packages up and runs the Action, the safety of     *)
(* both, proved for every manifest, workflow, input and archive, any       *)
(* number of edits, kills and commands, and every limit.                   *)
(*                                                                         *)
(* Setup.  What a command writes depends on what it read, which somebody   *)
(* may have edited since: WordsInv says that it read the newest text, or   *)
(* that the history has the edit, and that what it is about to write says  *)
(* what people wrote in what it read.  A migration preserves step by step, *)
(* and finds what killed ones left: LegacyInv says how far it has got.     *)
(*                                                                         *)
(* The Action's invariant says at each await what it has checked by then   *)
(* and that the files it checked are still the ones it has: a download     *)
(* that ends late finds none open any more.  Of the archive it says which  *)
(* blocks read so far are headers, and where the last entry ends.          *)
(***************************************************************************)
EXTENDS Setup, Installer, TLAPS, SequenceTheorems, WellFoundedInduction

(* The steps of each command, in their order.                               *)
StepsOf(kind) ==
  CASE kind = "init" -> {"sync", "write", "record", "check", "replace"}
    [] kind = "migrate" -> {"agree", "backup", "fill backup", "notes", "fill note", "replace"}
    [] kind = "version" -> {"load", "check", "replace"}
    [] OTHER -> {"end"}
Kinds == {"none", "init", "migrate", "version"}

CommandInv ==
  /\ IsManifest(manifest)
  /\ edits \in Nat /\ bullets \in Nat
  /\ command.kind \in Kinds /\ command.at \in StepsOf(command.kind)
  /\ command = [kind |-> command.kind, at |-> command.at, loaded |-> command.loaded,
                renders |-> command.renders, workflow |-> command.workflow,
                notes |-> command.notes]

(* What a command is about to write says what people wrote in what it read, *)
(* and it read the newest text unless somebody edited that since.           *)
WordsInv ==
  /\ command.kind # "none" => "manifest" \in unseen \/ command.loaded = {manifest}
  /\ \A new \in command.renders :
       /\ IsManifest(new)
       /\ \A old \in command.loaded : KeepsWords(command.kind, old, new)
  /\ ~IsPersonal(record) /\ ~IsPersonal(command.workflow)
  /\ command.at = "write" => "workflow" \in unseen \/ Overwritable

(* How much of the legacy a migration has preserved.                        *)
LegacyInv ==
  /\ LegacyIsKept
  /\ \A migration \in migrated : migration.manifest # Missing
  /\ command.kind # "none" => command.loaded # Missing
  /\ command.kind = "migrate" =>
       /\ DOMAIN command.notes \subseteq Nat
       /\ command.at = "backup" => backup \in {Missing, command.loaded}
       /\ command.at = "fill backup" => migrated = Missing
       /\ command.at \in {"notes", "fill note", "replace"} => backup = command.loaded
       /\ command.at \in {"backup", "fill backup", "notes", "replace"} => NotesAgree
       /\ command.at = "fill note" =>
            \A migration \in migrated :
              \A id \in DOMAIN migration.notes \cap DOMAIN command.notes :
                migration.notes[id] = command.notes[id]
       /\ command.at = "replace" => DOMAIN command.notes \subseteq DOMAIN notes

SetupInv == CommandInv /\ WordsInv /\ LegacyInv


-----------------------------------------------------------------------------
(* A set of numbers that isn't empty has a least one.                       *)
LEMMA LeastNumber ==
  ASSUME NEW S \in SUBSET Nat, S # {}
  PROVE  \E x \in S : \A y \in S : x <= y
<1>1. PICK x \in S : \A y \in S : ~(<<y, x>> \in OpToRel(<, Nat))
  BY NatLessThanWellFounded, WFMin
<1>2. \A y \in S : ~(y < x)
  BY <1>1 DEF OpToRel
<1>3. QED BY <1>2

(* Another table leaves the rest of a manifest as it was.                   *)
LEMMA OtherTable ==
  ASSUME NEW text, NEW table, IsManifest(text)
  PROVE  LET new == [text EXCEPT !.table = table]
         IN IsManifest(new) /\ new.words = text.words /\ new.version = text.version
            /\ new.table = table
BY DEF IsManifest

LEMMA OtherVersion ==
  ASSUME NEW text, NEW table, IsManifest(text)
  PROVE  [text EXCEPT !.version = "planned", !.table = table] =
           [name |-> text.name, path |-> text.path, tag_prefix |-> text.tag_prefix,
            table |-> table, version |-> "planned", words |-> text.words]
<1> DEFINE middle == [text EXCEPT !.version = "planned"]
<1>1. middle = [name |-> text.name, path |-> text.path, tag_prefix |-> text.tag_prefix,
                table |-> text.table, version |-> "planned", words |-> text.words]
  BY DEF IsManifest
<1>2. [text EXCEPT !.version = "planned", !.table = table] = [middle EXCEPT !.table = table]
  OBVIOUS
<1> HIDE DEF middle
<1>3. QED BY <1>1, <1>2

(* The flat table, key by key, and the structured one.                      *)
FlatKeys ==
  {"release_branch_prefix", "allow_version_zero", "prerelease", "allow_unknown_api_for",
   "baseline_refs"}
OptionalKeys ==
  {"outputs", "hooks", "changelog", "api_exceptions", "release_branch_prefix",
   "allow_version_zero", "prerelease", "baseline_refs"}
LEMMA ReadsFlat ==
  ASSUME NEW table
  PROVE  /\ Flat(table).changelog =
              [Default.changelog EXCEPT !.path = Get(table, "changelog_path", Default.changelog.path)]
         /\ \A key \in FlatKeys : Flat(table)[key] = Get(table, key, Default[key])
         /\ \A key \in DOMAIN Default \ (FlatKeys \cup {"changelog"}) :
              Flat(table)[key] = Default[key]
<1>1. Flat(table).changelog =
        [Default.changelog EXCEPT !.path = Get(table, "changelog_path", Default.changelog.path)]
  BY DEF Flat, Default
<1>2. \A key \in FlatKeys : Flat(table)[key] = Get(table, key, Default[key])
  BY DEF Flat, Default, FlatKeys
<1>3. \A key \in DOMAIN Default \ (FlatKeys \cup {"changelog"}) : Flat(table)[key] = Default[key]
  BY DEF Flat, Default, FlatKeys
<1>4. QED BY <1>1, <1>2, <1>3

LEMMA ReadsStructured ==
  ASSUME NEW table
  PROVE  /\ Structured(table).schema = 2
         /\ \A key \in RequiredKeys : Structured(table)[key] = table[key]
         /\ \A key \in OptionalKeys : Structured(table)[key] = Get(table, key, Default[key])
         /\ Structured(table).allow_unknown_api_for =
              {Get(table, "api_exceptions", <<>>)[i].version :
                 i \in DOMAIN Get(table, "api_exceptions", <<>>)}
BY DEF Structured, Default, RequiredKeys, OptionalKeys

LEMMA AllKeys ==
  DOMAIN Default =
    {"schema", "compiler", "registry", "approval", "outputs", "hooks", "changelog",
     "api_exceptions", "release_branch_prefix", "allow_version_zero", "prerelease",
     "allow_unknown_api_for", "baseline_refs"}
BY DEF Default

(* What migrate writes for a legacy table reads the same, but for what it   *)
(* decides: schema and compiler.                                            *)
LEMMA MigrationKeepsWords ==
  ASSUME NEW text, NEW compiler, IsManifest(text),
         ~IsStructured(text.table), Migratable(Reads(text.table))
  PROVE  KeepsWords("migrate", text,
                    [text EXCEPT !.table = SchemaTwo(Reads(text.table), compiler)])
<1> DEFINE config == Flat(text.table)
           table == SchemaTwo(config, compiler)
           new == [text EXCEPT !.table = table]
<1>1. Reads(text.table) = config
  BY DEF Reads
<1>2. new.words = text.words /\ new.version = text.version /\ new.table = table
  BY OtherTable
<1>3. /\ DOMAIN table = MigratedKeys(config)
      /\ \A key \in MigratedKeys(config) :
           table[key] = CASE key = "schema" -> 2 [] key = "compiler" -> compiler
                          [] OTHER -> config[key]
  BY DEF SchemaTwo
<1>4. "schema" \in MigratedKeys(config)
  BY DEF MigratedKeys
<1>5. Reads(table) = Structured(table)
  BY <1>3, <1>4 DEF Reads, IsStructured
<1>6. /\ config.hooks = Default.hooks /\ config.api_exceptions = Default.api_exceptions
      /\ config.allow_unknown_api_for = {}
  BY <1>1 DEF Flat, Migratable, Default
<1> HIDE DEF table, config
<1>7. \A key \in {"registry", "approval", "outputs", "changelog", "release_branch_prefix",
                  "allow_version_zero"} :
        key \in MigratedKeys(config) /\ table[key] = config[key]
  BY <1>3 DEF MigratedKeys, StructuredKeys, StructuredOnly, RequiredKeys
<1>8. {"hooks", "api_exceptions"} \cap MigratedKeys(config) = {}
  BY DEF MigratedKeys
<1>9. Get(table, "prerelease", {}) = config.prerelease
  BY <1>3 DEF MigratedKeys, StructuredKeys, StructuredOnly, RequiredKeys, Get
<1>10. Get(table, "baseline_refs", <<>>) = config.baseline_refs
  BY <1>3 DEF MigratedKeys, StructuredKeys, StructuredOnly, RequiredKeys, Get
<1>11. \A key \in DOMAIN Default \ {"schema", "compiler"} : Structured(table)[key] = config[key]
  <2>1. /\ Structured(table).registry = config.registry
        /\ Structured(table).approval = config.approval
        /\ Structured(table).outputs = config.outputs
        /\ Structured(table).changelog = config.changelog
        /\ Structured(table).release_branch_prefix = config.release_branch_prefix
        /\ Structured(table).allow_version_zero = config.allow_version_zero
    BY <1>3, <1>7 DEF Structured, Default, Get
  <2>2. /\ Structured(table).hooks = Default.hooks
        /\ Structured(table).api_exceptions = Default.api_exceptions
        /\ Structured(table).allow_unknown_api_for = {}
    BY <1>3, <1>8 DEF Structured, Default, Get
  <2>3. /\ Structured(table).prerelease = config.prerelease
        /\ Structured(table).baseline_refs = config.baseline_refs
    BY <1>9, <1>10 DEF Structured, Default
  <2>4. DOMAIN Default \ {"schema", "compiler"} =
          {"registry", "approval", "outputs", "changelog", "release_branch_prefix",
           "allow_version_zero", "hooks", "api_exceptions", "allow_unknown_api_for",
           "prerelease", "baseline_refs"}
    BY DEF Default
  <2>5. QED BY <1>6, <2>1, <2>2, <2>3, <2>4
<1>12. \A key \in DOMAIN Default \ Decided("migrate") : Reads(new.table)[key] = Reads(text.table)[key]
  BY <1>1, <1>2, <1>5, <1>11 DEF Decided
<1> HIDE DEF new
<1>13. KeepsWords("migrate", text, new)
  BY <1>2, <1>12 DEF KeepsWords
<1>14. QED BY <1>1, <1>13 DEF new, table

(* A channel is all that prerelease writes into a table.                    *)
LEMMA ChannelKeepsWords ==
  ASSUME NEW text, IsManifest(text), Loads(text.table), NEW channel,
         NEW table \in {text.table, WithChannel(text.table, channel)}
  PROVE  LET new == [text EXCEPT !.version = "planned", !.table = table]
         IN IsManifest(new) /\ KeepsWords("version", text, new)
<1> DEFINE new == [text EXCEPT !.version = "planned", !.table = table]
<1>1. IsManifest(new) /\ new.words = text.words /\ new.table = table
  <2>1. new = [name |-> text.name, path |-> text.path, tag_prefix |-> text.tag_prefix,
               table |-> table, version |-> "planned", words |-> text.words]
    BY OtherVersion, Zenon
  <2> HIDE DEF new
  <2>2. QED BY <2>1 DEF IsManifest
<1>2. \A key : key # "prerelease" =>
        /\ key \in DOMAIN table <=> key \in DOMAIN text.table
        /\ key \in DOMAIN table => table[key] = text.table[key]
  BY DEF WithChannel
<1> HIDE DEF new
<1>3. IsStructured(table) = IsStructured(text.table)
  BY <1>2 DEF IsStructured
<1>4. ASSUME NEW key, NEW default, key # "prerelease"
      PROVE  Get(table, key, default) = Get(text.table, key, default)
  BY <1>2, <1>4 DEF Get
<1>5. \A key \in DOMAIN Default \ {"prerelease"} : Flat(table)[key] = Flat(text.table)[key]
  <2>1. ASSUME NEW key \in FlatKeys \ {"prerelease"}
        PROVE  Flat(table)[key] = Flat(text.table)[key]
    <3>1. Flat(table)[key] = Get(table, key, Default[key])
      BY ReadsFlat
    <3>2. Flat(text.table)[key] = Get(text.table, key, Default[key])
      BY ReadsFlat
    <3>3. QED BY <1>4, <3>1, <3>2
  <2>2. Flat(table).changelog = Flat(text.table).changelog
    <3>1. Get(table, "changelog_path", Default.changelog.path) =
            Get(text.table, "changelog_path", Default.changelog.path)
      BY <1>4
    <3>2. Flat(text.table).changelog =
            [Default.changelog EXCEPT
               !.path = Get(text.table, "changelog_path", Default.changelog.path)]
      BY ReadsFlat
    <3>3. QED BY <3>1, <3>2, ReadsFlat
  <2>3. ASSUME NEW key \in DOMAIN Default \ (FlatKeys \cup {"changelog"})
        PROVE  Flat(table)[key] = Flat(text.table)[key]
    BY ReadsFlat
  <2>4. QED BY <2>1, <2>2, <2>3
<1>6. ASSUME IsStructured(table), NEW key \in DOMAIN Default \ {"prerelease"}
      PROVE  Structured(table)[key] = Structured(text.table)[key]
  <2>1. CASE key \in RequiredKeys
    <3>1. table[key] = text.table[key]
      BY <1>2, <1>3, <1>6, <2>1 DEF Loads
    <3>2. Structured(table)[key] = table[key]
      BY <2>1, ReadsStructured
    <3>3. Structured(text.table)[key] = text.table[key]
      BY <2>1, ReadsStructured
    <3>4. QED BY <3>1, <3>2, <3>3
  <2>2. CASE key \in OptionalKeys
    <3>1. Structured(table)[key] = Get(table, key, Default[key])
      BY <2>2, ReadsStructured
    <3>2. Structured(text.table)[key] = Get(text.table, key, Default[key])
      BY <2>2, ReadsStructured
    <3>3. QED BY <1>4, <1>6, <3>1, <3>2
  <2>3. CASE key = "allow_unknown_api_for"
    <3>1. Get(table, "api_exceptions", <<>>) = Get(text.table, "api_exceptions", <<>>)
      BY <1>4
    <3> DEFINE VersionsOf(exceptions) == {exceptions[i].version : i \in DOMAIN exceptions}
    <3>2. Structured(table).allow_unknown_api_for = VersionsOf(Get(table, "api_exceptions", <<>>))
      BY ReadsStructured
    <3>3. Structured(text.table).allow_unknown_api_for =
            VersionsOf(Get(text.table, "api_exceptions", <<>>))
      BY ReadsStructured
    <3> HIDE DEF VersionsOf
    <3>4. QED BY <2>3, <3>1, <3>2, <3>3
  <2>4. CASE key = "schema"
    <3>1. Structured(table).schema = 2 /\ Structured(text.table).schema = 2
      BY ReadsStructured
    <3>2. QED BY <2>4, <3>1
  <2>5. QED BY <1>6, <2>1, <2>2, <2>3, <2>4, AllKeys DEF RequiredKeys, OptionalKeys
<1>7. \A key \in DOMAIN Default \ {"prerelease"} : Reads(table)[key] = Reads(text.table)[key]
  BY <1>3, <1>5, <1>6 DEF Reads
<1>8. KeepsWords("version", text, new)
  BY <1>1, <1>7 DEF KeepsWords, Decided
<1>9. QED BY <1>1, <1>8 DEF new


(* So does init, which keeps a table that there is.                         *)
LEMMA InitKeepsWords ==
  ASSUME NEW text, NEW table, IsManifest(text), table = text.table \/ DOMAIN text.table = {}
  PROVE  KeepsWords("init", text, [text EXCEPT !.table = table])
<1> DEFINE new == [text EXCEPT !.table = table]
<1>1. new.words = text.words /\ new.version = text.version /\ new.table = table
  BY OtherTable
<1> HIDE DEF new
<1>2. KeepsWords("init", text, new)
  BY <1>1 DEF KeepsWords
<1>3. QED BY <1>2 DEF new

(* What init renders is nobody's.                                           *)
LEMMA RenderedIsNobodys ==
  ASSUME NEW config, NEW pin \in Pins
  PROVE  ~IsPersonal(Rendered(WorkflowSettings(config, pin)))
BY PinsAssumption DEF IsPersonal, Rendered, WorkflowSettings

-----------------------------------------------------------------------------
LEMMA CommandKeeps ==
  ASSUME SetupInv, [SetupNext]_setupVars
  PROVE  CommandInv'
<1>0. CommandInv /\ WordsInv
  BY DEF SetupInv
<1> USE DEF CommandInv
<1> DEFINE Same == UNCHANGED <<manifest, edits, bullets>>
           Shaped(next) ==
             next = [kind |-> next.kind, at |-> next.at, loaded |-> next.loaded,
                     renders |-> next.renders, workflow |-> next.workflow, notes |-> next.notes]
<1>1. ASSUME Same, UNCHANGED command PROVE CommandInv'
  BY <1>0, <1>1 DEF IsManifest
<1>2. ASSUME Same, NEW kind \in Kinds, NEW at \in StepsOf(kind), NEW renders, NEW texts, NEW list,
             command' = Running(kind, at, renders, texts, list)
      PROVE  CommandInv'
  BY <1>0, <1>2 DEF IsManifest, Running
<1>3. ASSUME IsManifest(manifest'), UNCHANGED <<edits, bullets>>, Ends PROVE CommandInv'
  BY <1>0, <1>3 DEF Ends, Idle, StepsOf, Kinds
<1>4. ASSUME Same, NEW at \in StepsOf(command.kind), Goes(at) PROVE CommandInv'
  BY <1>0, <1>4 DEF IsManifest, Goes
<1>5. CASE InitStarts
  <2>1. Same /\ \E renders, texts, list : command' = Running("init", "sync", renders, texts, list)
    BY <1>5 DEF InitStarts, files
  <2>2. QED BY <1>2, <2>1 DEF Kinds, StepsOf
<1>6. CASE MigrateStarts
  <2>1. Same /\ \E renders, texts, list : command' = Running("migrate", "agree", renders, texts, list)
    BY <1>6 DEF MigrateStarts, files
  <2>2. QED BY <1>2, <2>1 DEF Kinds, StepsOf
<1>7. CASE PlansVersion
  <2>1. Same /\ \E renders, texts, list : command' = Running("version", "load", renders, texts, list)
    BY <1>7 DEF PlansVersion, files
  <2>2. QED BY <1>2, <2>1 DEF Kinds, StepsOf
<1>8. CASE LoadsToEdit
  <2>1. Same
    BY <1>8 DEF LoadsToEdit, NothingElse, files
  <2>2. \/ \E renders, texts, list : command' = Running("version", "check", renders, texts, list)
        \/ Ends
    BY <1>8 DEF LoadsToEdit
  <2>3. QED BY <1>0, <1>2, <1>3, <2>1, <2>2 DEF Kinds, StepsOf, IsManifest
<1>9. CASE SyncReads \/ SyncWrites \/ SyncRecords
  <2>1. Same /\ (Goes("check") \/ Goes("write") \/ Goes("record") \/ Ends)
    BY <1>9 DEF SyncReads, SyncWrites, SyncRecords, NothingElse, files
  <2>2. command.kind = "init"
    BY <1>0, <1>9 DEF SyncReads, SyncWrites, SyncRecords, StepsOf, Kinds
  <2>3. QED BY <1>0, <1>3, <1>4, <2>1, <2>2 DEF StepsOf, IsManifest
<1>10. CASE ChecksManifest
  <2>1. Same /\ (Goes("replace") \/ Ends)
    BY <1>10 DEF ChecksManifest, NothingElse, files
  <2>2. "replace" \in StepsOf(command.kind)
    BY <1>0, <1>10 DEF ChecksManifest, StepsOf, Kinds
  <2>3. QED BY <1>0, <1>3, <1>4, <2>1, <2>2 DEF IsManifest
<1>11. CASE ReplacesManifest
  <2>1. IsManifest(manifest') /\ UNCHANGED <<edits, bullets>> /\ Ends
    BY <1>0, <1>11 DEF ReplacesManifest, WordsInv, IsManifest
  <2>2. QED BY <1>3, <2>1
<1>12. CASE MigrateAgrees \/ CreatesBackup \/ FillsBackup \/ CreatesNote \/ FillsNote
  <2>1. Same /\ ((\E at \in StepsOf("migrate") : Goes(at)) \/ Ends)
    BY <1>12 DEF MigrateAgrees, CreatesBackup, FillsBackup, CreatesNote, FillsNote, NothingElse,
                 files, StepsOf
  <2>2. command.kind = "migrate"
    BY <1>0, <1>12 DEF MigrateAgrees, CreatesBackup, FillsBackup, CreatesNote, FillsNote, StepsOf,
                       Kinds
  <2>3. QED BY <1>0, <1>3, <1>4, <2>1, <2>2 DEF IsManifest
<1>13. CASE Advises \/ FollowsAdvice
  BY <1>1, <1>13 DEF Advises, FollowsAdvice, files, history
<1>14. CASE CommandKilled
  <2>1. Same /\ Ends
    BY <1>14 DEF CommandKilled, files
  <2>2. QED BY <1>0, <1>3, <2>1 DEF IsManifest
<1>15. CASE EditsManifest
  <2>1. /\ UNCHANGED <<command, bullets>> /\ edits' \in Nat
        /\ \/ \E table : manifest' = [manifest EXCEPT !.table = table]
           \/ manifest' = [manifest EXCEPT !.words = @ + 1]
    BY <1>0, <1>15 DEF EditsManifest
  <2>2. IsManifest(manifest')
    BY <1>0, <2>1 DEF IsManifest
  <2>3. QED BY <1>0, <2>1, <2>2 DEF IsManifest
<1>16. CASE EditsWorkflow \/ AddsBullet
  BY <1>0, <1>16 DEF EditsWorkflow, AddsBullet, IsManifest
<1>17. CASE UNCHANGED setupVars
  BY <1>1, <1>17 DEF setupVars, files, history
<1>18. QED
  BY <1>5, <1>6, <1>7, <1>8, <1>9, <1>10, <1>11, <1>12, <1>13, <1>14, <1>15, <1>16, <1>17
  DEF SetupNext, CommandSteps


-----------------------------------------------------------------------------
(* A command that goes on, or stays where it is.                            *)
LEMMA WordsFrame ==
  ASSUME CommandInv, WordsInv, NEW at, Goes(at),
         "manifest" \in unseen \/ command.loaded = {manifest}
           => "manifest" \in unseen' \/ command.loaded = {manifest'},
         ~IsPersonal(record'),
         at = "write" => "workflow" \in unseen' \/ Overwritable'
  PROVE  WordsInv'
<1>1. /\ command'.kind = command.kind /\ command'.loaded = command.loaded
      /\ command'.renders = command.renders /\ command'.workflow = command.workflow
      /\ command'.at = at
  BY DEF CommandInv, Goes
<1>2. QED BY <1>1 DEF WordsInv

LEMMA WordsStart ==
  ASSUME WordsInv, NEW kind, NEW at, NEW new, NEW texts, NEW list,
         command' = Running(kind, at, new, texts, list), at # "write",
         UNCHANGED <<manifest, record>>, ~IsPersonal(texts),
         \A one \in new : IsManifest(one) /\ KeepsWords(kind, manifest, one)
  PROVE  WordsInv'
BY DEF WordsInv, Running

LEMMA WordsEnd ==
  ASSUME WordsInv, Ends, UNCHANGED record
  PROVE  WordsInv'
BY DEF WordsInv, Ends, Idle, Missing, IsPersonal

LEMMA WordsKeep ==
  ASSUME SetupInv, [SetupNext]_setupVars
  PROVE  WordsInv'
<1>1. CommandInv /\ WordsInv
  BY DEF SetupInv
<1>2. UNCHANGED command => Goes(command.at)
  BY <1>1 DEF CommandInv, Goes
<1>3. ~IsPersonal(record) /\ ~IsPersonal(command.workflow)
  BY <1>1 DEF WordsInv
<1>4. command.at = "write" => "workflow" \in unseen \/ Overwritable
  BY <1>1 DEF WordsInv
<1>5. CASE InitStarts
  <2>1. PICK table \in Initializable, pin \in Pins :
          command' = Running("init", "sync", {[manifest EXCEPT !.table = table]},
                             Rendered(WorkflowSettings(Reads(table), pin)), <<>>)
    BY <1>5 DEF InitStarts
  <2>2. table = manifest.table \/ DOMAIN manifest.table = {}
    BY DEF Initializable, Initializations
  <2>3. IsManifest([manifest EXCEPT !.table = table])
        /\ KeepsWords("init", manifest, [manifest EXCEPT !.table = table])
    BY <1>1, <2>2, OtherTable, InitKeepsWords DEF CommandInv
  <2>4. UNCHANGED <<manifest, record>>
    BY <1>5 DEF InitStarts, files
  <2>5. QED BY <1>1, <2>1, <2>3, <2>4, RenderedIsNobodys, WordsStart
<1>6. CASE MigrateStarts
  <2> DEFINE new == [manifest EXCEPT !.table = SchemaTwo(Reads(manifest.table), installed)]
  <2>1. command' = Running("migrate", "agree", {new}, Missing, NotesOf(bullets))
        /\ UNCHANGED <<manifest, record>>
    BY <1>6 DEF MigrateStarts, files
  <2>2. IsManifest(new) /\ KeepsWords("migrate", manifest, new)
    BY <1>1, <1>6, OtherTable, MigrationKeepsWords DEF CommandInv, MigrateStarts, CanMigrate
  <2>3. ~IsPersonal(Missing)
    BY DEF IsPersonal, Missing
  <2> HIDE DEF new
  <2>4. QED BY <1>1, <2>1, <2>2, <2>3, WordsStart
<1>7. CASE PlansVersion
  <2>1. command' = Running("version", "load", Missing, Missing, <<>>)
        /\ UNCHANGED <<manifest, record>>
    BY <1>7 DEF PlansVersion, files
  <2>2. ~IsPersonal(Missing) /\ Missing = {}
    BY DEF IsPersonal, Missing
  <2>3. QED BY <1>1, <2>1, <2>2, WordsStart
<1>8. CASE LoadsToEdit
  <2>1. UNCHANGED <<manifest, record>>
    BY <1>8 DEF LoadsToEdit, NothingElse, files
  <2>2. CASE LoadsManifest(manifest)
    <3>1. PICK table \in {manifest.table, WithChannel(manifest.table, {"rc"}),
                          WithChannel(manifest.table, {})} :
            command' = Running("version", "check",
              {[manifest EXCEPT !.version = "planned", !.table = table]}, Missing, <<>>)
      BY <1>8, <2>2 DEF LoadsToEdit
    <3> DEFINE new == [manifest EXCEPT !.version = "planned", !.table = table]
    <3>2. PICK channel : table \in {manifest.table, WithChannel(manifest.table, channel)}
      OBVIOUS
    <3>3. IsManifest(manifest) /\ Loads(manifest.table)
      BY <1>1, <2>2 DEF CommandInv, LoadsManifest
    <3>4. IsManifest(new) /\ KeepsWords("version", manifest, new)
      BY <3>2, <3>3, ChannelKeepsWords
    <3>5. ~IsPersonal(Missing)
      BY DEF IsPersonal, Missing
    <3> HIDE DEF new
    <3>6. command' = Running("version", "check", {new}, Missing, <<>>)
      BY <3>1 DEF new
    <3>7. QED BY <1>1, <2>1, <3>4, <3>5, <3>6, WordsStart
  <2>3. CASE ~LoadsManifest(manifest)
    BY <1>1, <1>8, <2>1, <2>3, WordsEnd DEF LoadsToEdit
  <2>4. QED BY <2>2, <2>3
<1>9. CASE SyncReads
  <2>1. UNCHANGED <<manifest, workflow, record>> /\ unseen' = unseen \ {"workflow"}
    BY <1>9 DEF SyncReads, NothingElse, files, Reread
  <2>2. Overwritable' = Overwritable
    BY <2>1 DEF Overwritable
  <2>3. Ends \/ Goes("check") \/ (Goes("write") /\ Overwritable)
    BY <1>9 DEF SyncReads
  <2>4. QED BY <1>1, <1>3, <2>1, <2>2, <2>3, WordsFrame, WordsEnd
<1>10. CASE SyncWrites
  <2>1. Goes("record") /\ UNCHANGED <<manifest, record>> /\ unseen' = unseen \ {"workflow"}
    BY <1>10 DEF SyncWrites, NothingElse, Reread
  <2>2. QED BY <1>1, <1>3, <2>1, WordsFrame
<1>11. CASE SyncRecords
  <2>1. Goes("check") /\ UNCHANGED <<manifest, unseen>> /\ record' = command.workflow
    BY <1>11 DEF SyncRecords, NothingElse, RecordedText
  <2>2. QED BY <1>1, <1>3, <2>1, WordsFrame
<1>12. CASE ChecksManifest \/ MigrateAgrees
  <2>1. /\ UNCHANGED <<manifest, record>>
        /\ Ends \/ (command.loaded = {manifest} /\ \E at : at # "write" /\ Goes(at))
    BY <1>12 DEF ChecksManifest, MigrateAgrees, NothingElse, files, IsUnchanged
  <2>2. QED BY <1>1, <1>3, <2>1, WordsFrame, WordsEnd
<1>13. CASE ReplacesManifest
  BY <1>1, <1>13, WordsEnd DEF ReplacesManifest
<1>14. CASE CreatesBackup \/ FillsBackup \/ CreatesNote \/ FillsNote
  <2>1. /\ UNCHANGED <<manifest, record, unseen>>
        /\ \E at : at # "write" /\ Goes(at)
    BY <1>14 DEF CreatesBackup, FillsBackup, CreatesNote, FillsNote, NothingElse
  <2>2. QED BY <1>1, <1>3, <2>1, WordsFrame
<1>15. CASE Advises \/ FollowsAdvice \/ AddsBullet \/ UNCHANGED setupVars
  <2>1. UNCHANGED <<manifest, workflow, record, unseen, command>>
    BY <1>15 DEF Advises, FollowsAdvice, AddsBullet, setupVars, files, history
  <2>2. Overwritable' = Overwritable
    BY <2>1 DEF Overwritable
  <2>3. QED BY <1>1, <1>2, <1>3, <1>4, <2>1, <2>2, WordsFrame
<1>16. CASE CommandKilled
  BY <1>1, <1>16, WordsEnd DEF CommandKilled, files
<1>17. CASE EditsManifest
  <2>1. UNCHANGED <<workflow, record, command>> /\ unseen' = unseen \cup {"manifest"}
    BY <1>17 DEF EditsManifest
  <2>2. Overwritable' = Overwritable
    BY <2>1 DEF Overwritable
  <2>3. QED BY <1>1, <1>2, <1>3, <1>4, <2>1, <2>2, WordsFrame
<1>18. CASE EditsWorkflow
  <2>1. UNCHANGED <<manifest, record, command>> /\ unseen' = unseen \cup {"workflow"}
    BY <1>18 DEF EditsWorkflow
  <2>2. QED BY <1>1, <1>2, <1>3, <2>1, WordsFrame
<1>19. QED
  BY <1>5, <1>6, <1>7, <1>8, <1>9, <1>10, <1>11, <1>12, <1>13, <1>14, <1>15, <1>16, <1>17, <1>18
  DEF SetupNext, CommandSteps


-----------------------------------------------------------------------------
(* A command that isn't a migration, or leaves what migrations write alone. *)
LEMMA LegacyFrame ==
  ASSUME LegacyInv, UNCHANGED <<backup, notes, migrated>>,
         command'.kind # "none" => command'.loaded # Missing,
         command'.kind # "migrate" \/ UNCHANGED command
  PROVE  LegacyInv'
<1>1. LegacyIsKept'
  BY DEF LegacyInv, LegacyIsKept
<1>2. UNCHANGED command => NotesAgree' = NotesAgree
  BY DEF NotesAgree
<1>3. QED BY <1>1, <1>2 DEF LegacyInv

(* A migration's next step.                                                 *)
LEMMA MigrationGoes ==
  ASSUME CommandInv, NEW at, Goes(at)
  PROVE  /\ command'.kind = command.kind /\ command'.loaded = command.loaded
         /\ command'.notes = command.notes /\ command'.at = at
BY DEF CommandInv, Goes

LEMMA MigrationFrame ==
  ASSUME CommandInv, LegacyInv, command.kind = "migrate", UNCHANGED migrated,
         NEW at, Goes(at), LegacyIsKept',
         at = "backup" => backup' \in {Missing, command.loaded},
         at = "fill backup" => migrated = Missing,
         at \in {"notes", "fill note", "replace"} => backup' = command.loaded,
         at \in {"backup", "fill backup", "notes", "replace"} => NotesAgree',
         at = "fill note" =>
           \A migration \in migrated :
             \A id \in DOMAIN migration.notes \cap DOMAIN command.notes :
               migration.notes[id] = command.notes[id],
         at = "replace" => DOMAIN command.notes \subseteq DOMAIN notes'
  PROVE  LegacyInv'
<1>1. /\ command'.kind = command.kind /\ command'.loaded = command.loaded
      /\ command'.notes = command.notes /\ command'.at = at
  BY MigrationGoes
<1>2. DOMAIN command.notes \subseteq Nat /\ command.loaded # Missing
      /\ \A migration \in migrated : migration.manifest # Missing
  BY DEF LegacyInv
<1>3. QED BY <1>1, <1>2 DEF LegacyInv

(* migrate preserves before it replaces, whatever it finds preserved.       *)
LEMMA MigrationKeeps ==
  ASSUME SetupInv,
         MigrateAgrees \/ CreatesBackup \/ FillsBackup \/ CreatesNote \/ FillsNote
  PROVE  LegacyInv'
<1>1. CommandInv /\ LegacyInv /\ LegacyIsKept
  BY DEF SetupInv, LegacyInv
<1>2. command.kind = "migrate"
  BY <1>1 DEF CommandInv, MigrateAgrees, CreatesBackup, FillsBackup, CreatesNote, FillsNote, StepsOf,
              Kinds
<1>3. DOMAIN command.notes \subseteq Nat /\ command.loaded # Missing
      /\ \A migration \in migrated : migration.manifest # Missing
  BY <1>1, <1>2 DEF LegacyInv
<1>4. UNCHANGED migrated
  BY DEF MigrateAgrees, CreatesBackup, FillsBackup, CreatesNote, FillsNote, NothingElse
<1>5. CASE MigrateAgrees
  <2>1. UNCHANGED <<backup, notes>>
    BY <1>5 DEF MigrateAgrees, files
  <2>2. CASE Ends
    BY <1>1, <1>4, <2>1, <2>2, LegacyFrame DEF Ends, Idle
  <2>3. CASE Goes("backup") /\ BackupAgrees /\ NotesAgree
    <3>1. LegacyIsKept'
      BY <1>1, <1>4, <2>1 DEF LegacyIsKept
    <3>2. NotesAgree'
      BY <1>1, <2>1, <2>3, MigrationGoes DEF NotesAgree
    <3>3. backup' \in {Missing, command.loaded}
      BY <2>1, <2>3 DEF BackupAgrees
    <3>4. QED BY <1>1, <1>2, <1>4, <2>3, <3>1, <3>2, <3>3, MigrationFrame
  <2>4. QED BY <1>5, <2>2, <2>3 DEF MigrateAgrees
<1>6. CASE CreatesBackup
  <2>1. /\ NotesAgree /\ backup \in {Missing, command.loaded} /\ UNCHANGED notes
        /\ \/ backup = Missing /\ Goes("fill backup")
           \/ backup # Missing /\ Goes("notes") /\ UNCHANGED backup
    BY <1>1, <1>2, <1>6 DEF LegacyInv, CreatesBackup
  <2>2. NotesAgree'
    BY <1>1, <2>1, MigrationGoes DEF NotesAgree
  <2>3. CASE backup = Missing /\ Goes("fill backup")
    <3>1. migrated = Missing
      BY <1>1, <1>3, <2>3 DEF LegacyIsKept, Missing
    <3>2. LegacyIsKept'
      BY <1>4, <3>1 DEF LegacyIsKept, Missing
    <3>3. QED BY <1>1, <1>2, <1>3, <1>4, <2>2, <2>3, <3>1, <3>2, MigrationFrame
  <2>4. CASE backup # Missing /\ Goes("notes") /\ UNCHANGED backup
    <3>1. LegacyIsKept'
      BY <1>1, <1>4, <2>1, <2>4 DEF LegacyIsKept
    <3>2. QED BY <1>1, <1>2, <1>3, <1>4, <2>1, <2>2, <2>4, <3>1, MigrationFrame
  <2>5. QED BY <2>1, <2>3, <2>4
<1>7. CASE FillsBackup
  <2>1. /\ migrated = Missing /\ NotesAgree
        /\ backup' = command.loaded /\ Goes("notes") /\ UNCHANGED notes
    BY <1>1, <1>2, <1>7 DEF LegacyInv, FillsBackup
  <2>2. LegacyIsKept'
    BY <1>4, <2>1 DEF LegacyIsKept, Missing
  <2>3. NotesAgree'
    BY <1>1, <2>1, MigrationGoes DEF NotesAgree
  <2>4. QED BY <1>1, <1>2, <1>3, <1>4, <2>1, <2>2, <2>3, MigrationFrame
<1>8. CASE CreatesNote
  <2>1. backup = command.loaded /\ NotesAgree /\ UNCHANGED backup
    BY <1>1, <1>2, <1>8 DEF LegacyInv, CreatesNote
  <2>2. CASE Unwritten = {}
    <3>1. Goes("replace") /\ UNCHANGED notes /\ DOMAIN command.notes \subseteq DOMAIN notes
      BY <1>8, <2>2 DEF CreatesNote, Unwritten
    <3>2. LegacyIsKept'
      BY <1>1, <1>4, <2>1, <3>1 DEF LegacyIsKept
    <3>3. NotesAgree'
      BY <1>1, <2>1, <3>1, MigrationGoes DEF NotesAgree
    <3>4. QED BY <1>1, <1>2, <1>3, <1>4, <2>1, <3>1, <3>2, <3>3, MigrationFrame
  <2>3. CASE Unwritten # {}
    <3>1. PICK first \in Unwritten : \A other \in Unwritten : first <= other
      BY <1>3, <2>3, LeastNumber DEF Unwritten
    <3>2. FirstUnwritten \in Unwritten
      BY <3>1 DEF FirstUnwritten
    <3>3. FirstUnwritten \notin DOMAIN notes
      BY <3>2 DEF Unwritten
    <3>4. /\ Goes("fill note")
          /\ DOMAIN notes' = DOMAIN notes \cup {FirstUnwritten}
          /\ \A id \in DOMAIN notes : notes'[id] = notes[id]
      BY <1>8, <2>3, <3>3 DEF CreatesNote
    <3>5. LegacyIsKept'
      BY <1>1, <1>4, <2>1, <3>4 DEF LegacyIsKept
    <3>6. \A migration \in migrated :
            \A id \in DOMAIN migration.notes \cap DOMAIN command.notes :
              migration.notes[id] = command.notes[id]
      BY <1>1, <2>1 DEF LegacyIsKept, NotesAgree
    <3>7. QED BY <1>1, <1>2, <1>3, <1>4, <2>1, <3>4, <3>5, <3>6, MigrationFrame
  <2>4. QED BY <2>2, <2>3
<1>9. CASE FillsNote
  <2>1. /\ backup = command.loaded /\ UNCHANGED backup /\ Goes("notes")
        /\ \A migration \in migrated :
             \A id \in DOMAIN migration.notes \cap DOMAIN command.notes :
               migration.notes[id] = command.notes[id]
    BY <1>1, <1>2, <1>9 DEF LegacyInv, FillsNote
  <2>2. /\ DOMAIN notes' = DOMAIN notes
        /\ \A id \in DOMAIN notes \cap DOMAIN command.notes : notes'[id] = command.notes[id]
        /\ \A id \in DOMAIN notes \ DOMAIN command.notes : notes'[id] = notes[id]
    BY <1>9 DEF FillsNote
  <2>3. LegacyIsKept'
    BY <1>1, <1>4, <2>1, <2>2 DEF LegacyIsKept
  <2>4. NotesAgree'
    BY <1>1, <2>1, <2>2, MigrationGoes DEF NotesAgree
  <2>5. QED BY <1>1, <1>2, <1>3, <1>4, <2>1, <2>3, <2>4, MigrationFrame
<1>10. QED BY <1>5, <1>6, <1>7, <1>8, <1>9

LEMMA LegacyKeeps ==
  ASSUME SetupInv, [SetupNext]_setupVars
  PROVE  LegacyInv'
<1>1. CommandInv /\ LegacyInv
  BY DEF SetupInv
<1>2. command.kind # "none" => command.loaded # Missing
  BY <1>1 DEF LegacyInv
<1>3. CASE InitStarts \/ PlansVersion \/ LoadsToEdit
  <2>1. UNCHANGED <<backup, notes, migrated>>
    BY <1>3 DEF InitStarts, PlansVersion, LoadsToEdit, NothingElse, files
  <2>2. \/ Ends
        \/ \E kind \in {"init", "version"} : \E at, new, texts, list :
             command' = Running(kind, at, new, texts, list)
    BY <1>3 DEF InitStarts, PlansVersion, LoadsToEdit
  <2>3. command'.kind # "migrate" /\ (command'.kind # "none" => command'.loaded # Missing)
    BY <2>2 DEF Ends, Idle, Running, Missing
  <2>4. QED BY <1>1, <2>1, <2>3, LegacyFrame
<1>4. CASE MigrateStarts
  <2>1. UNCHANGED <<backup, notes, migrated>>
    BY <1>4 DEF MigrateStarts, files
  <2>2. /\ command'.kind = "migrate" /\ command'.at = "agree" /\ command'.loaded = {manifest}
        /\ command'.notes = NotesOf(bullets)
    BY <1>4 DEF MigrateStarts, Running
  <2>3. DOMAIN NotesOf(bullets) \subseteq Nat
    BY <1>1 DEF CommandInv, NotesOf
  <2>4. LegacyIsKept'
    BY <1>1, <2>1 DEF LegacyInv, LegacyIsKept
  <2>5. QED BY <1>1, <2>1, <2>2, <2>3, <2>4 DEF LegacyInv, Missing
<1>5. CASE SyncReads \/ SyncWrites \/ SyncRecords
  <2>1. UNCHANGED <<backup, notes, migrated>> /\ (Ends \/ \E at : Goes(at))
    BY <1>5 DEF SyncReads, SyncWrites, SyncRecords, NothingElse, files
  <2>2. command.kind = "init"
    BY <1>1, <1>5 DEF SyncReads, SyncWrites, SyncRecords, CommandInv, StepsOf, Kinds
  <2>3. command'.kind # "migrate" /\ (command'.kind # "none" => command'.loaded # Missing)
    BY <1>1, <1>2, <2>1, <2>2, MigrationGoes DEF Ends, Idle
  <2>4. QED BY <1>1, <2>1, <2>3, LegacyFrame
<1>6. CASE ChecksManifest
  <2>1. UNCHANGED <<backup, notes, migrated>> /\ (Ends \/ \E at : Goes(at))
    BY <1>6 DEF ChecksManifest, NothingElse, files
  <2>2. command.kind \in {"init", "version"}
    BY <1>1, <1>6 DEF ChecksManifest, CommandInv, StepsOf, Kinds
  <2>3. command'.kind # "migrate" /\ (command'.kind # "none" => command'.loaded # Missing)
    BY <1>1, <1>2, <2>1, <2>2, MigrationGoes DEF Ends, Idle
  <2>4. QED BY <1>1, <2>1, <2>3, LegacyFrame
<1>7. CASE ReplacesManifest
  <2>1. /\ command.at = "replace" /\ UNCHANGED <<backup, notes>>
        /\ command'.kind = "none"
        /\ migrated' = IF command.kind # "migrate" THEN migrated
                       ELSE {[manifest |-> command.loaded, notes |-> command.notes]}
    BY <1>7 DEF ReplacesManifest, Ends, Idle
  <2>2. CASE command.kind # "migrate"
    BY <1>1, <2>1, <2>2, LegacyFrame
  <2>3. CASE command.kind = "migrate"
    <3>1. /\ backup = command.loaded /\ NotesAgree /\ DOMAIN command.notes \subseteq DOMAIN notes
          /\ command.loaded # Missing
      BY <1>1, <2>1, <2>3 DEF LegacyInv
    <3>2. LegacyIsKept'
      BY <2>1, <2>3, <3>1 DEF LegacyIsKept, NotesAgree
    <3>3. QED BY <2>1, <2>3, <3>1, <3>2 DEF LegacyInv
  <2>4. QED BY <2>2, <2>3
<1>8. CASE MigrateAgrees \/ CreatesBackup \/ FillsBackup \/ CreatesNote \/ FillsNote
  BY <1>8, MigrationKeeps
<1>9. CASE Advises \/ FollowsAdvice \/ EditsManifest \/ EditsWorkflow \/ AddsBullet
           \/ UNCHANGED setupVars
  <2>1. UNCHANGED <<backup, notes, migrated, command>>
    BY <1>9 DEF Advises, FollowsAdvice, EditsManifest, EditsWorkflow, AddsBullet, setupVars, files,
                history
  <2>2. QED BY <1>1, <1>2, <2>1, LegacyFrame
<1>10. CASE CommandKilled
  <2>1. UNCHANGED <<backup, notes, migrated>> /\ command'.kind = "none"
    BY <1>10 DEF CommandKilled, Ends, Idle, files
  <2>2. QED BY <1>1, <2>1, LegacyFrame
<1>11. QED
  BY <1>3, <1>4, <1>5, <1>6, <1>7, <1>8, <1>9, <1>10 DEF SetupNext, CommandSteps

-----------------------------------------------------------------------------
(* The invariant holds whoever edits what and when, and whatever is killed. *)
THEOREM SetupInvariance == SetupSpec => []SetupInv
<1>1. SetupInit => SetupInv
  <2> SUFFICES ASSUME SetupInit PROVE SetupInv
    OBVIOUS
  <2>1. /\ IsManifest(manifest) /\ record = {} /\ bullets = 1 /\ edits = 0
        /\ command = Idle /\ migrated = {}
    BY ManifestsAssumption DEF SetupInit, Missing
  <2>2. CommandInv
    BY <2>1 DEF CommandInv, Idle, Kinds, StepsOf
  <2>3. WordsInv
    BY <2>1 DEF WordsInv, Idle, Missing, IsPersonal
  <2>4. LegacyInv
    BY <2>1 DEF LegacyInv, LegacyIsKept, Idle
  <2>5. QED BY <2>2, <2>3, <2>4 DEF SetupInv
<1>2. SetupInv /\ [SetupNext]_setupVars => SetupInv'
  BY CommandKeeps, WordsKeep, LegacyKeeps DEF SetupInv
<1>3. QED BY <1>1, <1>2, PTL DEF SetupSpec

(* Whatever was killed, edited or migrated before, a migration that replaced *)
(* a manifest has preserved it and every bullet (Migration::apply).          *)
THEOREM LegacyStaysKept == SetupSpec => []LegacyIsKept
<1>1. SetupInv => LegacyIsKept
  BY DEF SetupInv, LegacyInv
<1>2. QED BY <1>1, SetupInvariance, PTL

(* A command undoes nothing that people wrote before it last read the file  *)
(* (replace_source, sync and what init, migrate and prerelease render).     *)
THEOREM EditsSurviveCommands == SetupSpec => EditsSurvive
<1>1. ASSUME SetupInv, [SetupNext]_setupVars
      PROVE  [edits' = edits =>
                /\ \/ manifest' = manifest
                   \/ "manifest" \in unseen
                   \/ KeepsWords(command.kind, manifest, manifest')
                /\ \/ workflow' = workflow
                   \/ "workflow" \in unseen
                   \/ ~IsReadable(workflow)
                   \/ ~IsPersonal(workflow)]_setupVars
  <2>1. CommandInv /\ WordsInv
    BY <1>1 DEF SetupInv
  <2>2. CASE ReplacesManifest
    <3>1. UNCHANGED workflow /\ manifest' \in command.renders /\ command.kind # "none"
      BY <2>1, <2>2 DEF ReplacesManifest, CommandInv, StepsOf, Kinds
    <3>2. "manifest" \in unseen \/ KeepsWords(command.kind, manifest, manifest')
      BY <2>1, <3>1 DEF WordsInv
    <3>3. QED BY <3>1, <3>2
  <2>3. CASE SyncWrites
    <3>1. UNCHANGED manifest /\ command.at = "write"
      BY <2>3 DEF SyncWrites, NothingElse
    <3>2. \/ "workflow" \in unseen
          \/ workflow = Missing \/ ~IsReadable(workflow) \/ record = workflow
      BY <2>1, <3>1 DEF WordsInv, Overwritable
    <3>3. ~IsPersonal(record) /\ ~IsPersonal(Missing)
      BY <2>1 DEF WordsInv, IsPersonal, Missing
    <3>4. QED BY <3>1, <3>2, <3>3
  <2>4. CASE EditsManifest \/ EditsWorkflow \/ AddsBullet
    <3>1. edits \in Nat /\ edits' = edits + 1
      BY <2>1, <2>4 DEF CommandInv, EditsManifest, EditsWorkflow, AddsBullet
    <3>2. QED BY <3>1
  <2>5. CASE UNCHANGED <<manifest, workflow>>
    BY <2>5
  <2>6. QED
    BY <1>1, <2>2, <2>3, <2>4, <2>5
    DEF SetupNext, CommandSteps, InitStarts, MigrateStarts, PlansVersion, SyncReads, SyncRecords,
        ChecksManifest, MigrateAgrees, CreatesBackup, FillsBackup, CreatesNote, FillsNote,
        LoadsToEdit, Advises, FollowsAdvice, CommandKilled, NothingElse, files, setupVars
<1>2. QED BY <1>1, SetupInvariance, PTL DEF SetupSpec, EditsSurvive

-----------------------------------------------------------------------------
(* The Action's awaits, by what is known at each.                           *)
Fetched == {"verify", "inventory", "extract", "inspect", "run"}
Checked == {"inventory", "extract", "inspect", "run"}
Unpacking == {"extract", "inspect", "run"}

(* How the step stands, and how it ended.                                  *)
EndInv ==
  /\ phase \in {"start", "fetch", "end", "dead"} \cup Fetched
  /\ child = [is |-> child.is, state |-> child.state, code |-> child.code]
  /\ child.state = "running" => phase \in {"extract", "run", "dead"}
  /\ child.is # "none" => phase \in Unpacking \cup {"end", "dead"}
  /\ listening # {} => phase = "run" /\ child.is = "release-glz"
  /\ phase \notin {"end", "dead"} => exit = NotEnded /\ outputs = "none"
  /\ phase = "end" => ~temporary
  /\ phase = "dead" /\ exit # Killed => exit = 1 /\ child.is = "none" /\ outputs = "none"
  /\ outputs \in {"none", "envelope"}
  /\ outputs = "envelope" =>
       /\ phase \in {"end", "dead"} /\ child.is = "release-glz" /\ child.state # "running"
       /\ printed = "envelope" /\ failure = "none"
       /\ exit \in {Killed, IF child.state = "exited" THEN child.code ELSE 1}
  /\ exit = 0 => outputs = "envelope"

(* What the Action has of each file.                                       *)
One(file) == \E content \in Served(file) : fetches[file].got = {content}
IsDownload(file) ==
  fetches[file] = [state |-> fetches[file].state, got |-> fetches[file].got,
                   redirects |-> fetches[file].redirects]
FetchInv ==
  /\ \A file \in DOMAIN fetches : IsDownload(file)
  /\ phase = "fetch" =>
       /\ DOMAIN fetches = FilesToFetch
       /\ \A file \in FilesToFetch :
            /\ fetches[file].state = "done" => One(file)
            /\ fetches[file].state \in {"open", "done"}
  /\ phase \in Fetched \/ child.is # "none" =>
       /\ DOMAIN fetches = FilesToFetch
       /\ \A file \in FilesToFetch : fetches[file].state = "done" /\ One(file)
  /\ phase = "dead" /\ exit # Killed =>
       \E file \in DOMAIN fetches : fetches[file].state = "malformed"

(* What has been read of the archive: entries that follow one another up to  *)
(* last, and zeroes after it.                                              *)
EndsOf(blocks, headers) == {head + blocks[head].size : head \in headers}
Entered(blocks, entries, last, headers) ==
  /\ \A head \in headers : blocks[head].is = "header" /\ head + blocks[head].size <= last
  /\ \A i, j \in headers : blocks[i].path = blocks[j].path => i = j
  /\ \A head \in headers : \E k \in DOMAIN entries : entries[k].path = blocks[head].path
  /\ IF entries = <<>> THEN headers = {} /\ last = 0
     ELSE /\ last \in EndsOf(blocks, headers)
          /\ headers = {1} \cup {one + 1 : one \in EndsOf(blocks, headers) \ {last}}
Trails(blocks, read, last) ==
  IF read.zeroBlocks = 0 THEN read.next - 1 + read.contentRemaining = last
  ELSE /\ read.contentRemaining = 0
       /\ last + read.zeroBlocks <= read.next - 1
       /\ \A i \in last + 1 .. read.next - 1 : IsPadding(blocks, last, i)
Walked(blocks, read) ==
  \E last \in Nat, headers \in SUBSET (1 .. read.next - 1) :
    Entered(blocks, read.entries, last, headers) /\ Trails(blocks, read, last)
ReadSoFar(blocks, read) ==
  /\ read = [next |-> read.next, entries |-> read.entries, total |-> read.total,
             contentRemaining |-> read.contentRemaining, zeroBlocks |-> read.zeroBlocks]
  /\ read.next \in 1 .. Len(blocks) + 1
  /\ read.entries \in Seq({blocks[i] : i \in DOMAIN blocks})
  /\ read.contentRemaining \in Nat /\ read.zeroBlocks \in 0 .. 2
  /\ Walked(blocks, read)

CheckInv ==
  /\ inputs \in Inputs
  /\ phase \notin {"start", "end", "dead"} \/ child.is # "none" => InputsHold
  /\ phase \in Checked \/ child.is # "none" => Verified
  /\ phase \in {"start", "fetch", "verify"} => inventory = Unread
  /\ phase = "inventory" => ReadSoFar(Blocks, inventory)
  /\ phase \in Unpacking \/ child.is # "none" =>
       ReadSoFar(Blocks, inventory) /\ inventory.next \notin DOMAIN Blocks /\ IsComplete(inventory)
  /\ child.is = "release-glz" => IsRegular

InstallInv == EndInv /\ FetchInv /\ CheckInv

-----------------------------------------------------------------------------
(* How the Action ends depends on how its child did.                        *)
LEMMA EndKeeps ==
  ASSUME EndInv, FetchInv, [InstallNext]_installVars
  PROVE  EndInv'
<1>0. ActionRuns =>
        \/ phase' = "run" /\ child' = Spawned("release-glz") /\ UNCHANGED exit
        \/ EndsWith(1) /\ child' = child
  BY DEF ActionRuns, Goto
<1>00. \A file \in {"archive", "provenance"} : IsOpen(file) => child.is = "none" /\ phase # "dead"
  BY DEF FetchInv, IsOpen, FilesToFetch
<1> USE DEF EndInv, Fetched, Unpacking, NotEnded, Killed
<1>1. CASE ActionStarts
  BY <1>1 DEF ActionStarts, EndsWith, Goto, processVars
<1>2. CASE ActionVerifies
  BY <1>2 DEF ActionVerifies, EndsWith, Goto, processVars
<1>3. CASE ActionInventories
  BY <1>3 DEF ActionInventories, EndsWith, processVars
<1>4. CASE ActionExtracts
  BY <1>4 DEF ActionExtracts, EndsWith, Goto, Spawned
<1>5. CASE ActionRuns
  <2>1. UNCHANGED outputs /\ phase = "inspect"
    BY <1>5 DEF ActionRuns
  <2>2. child.state # "running" /\ exit = NotEnded /\ outputs = "none"
    BY <2>1
  <2>3. \/ phase' = "run" /\ child' = Spawned("release-glz") /\ UNCHANGED exit
        \/ EndsWith(1) /\ child' = child
    BY <1>5, <1>0
  <2>4. CASE phase' = "run" /\ child' = Spawned("release-glz") /\ UNCHANGED exit
    BY <2>1, <2>2, <2>4 DEF Spawned
  <2>5. CASE EndsWith(1) /\ child' = child
    BY <2>1, <2>2, <2>5 DEF EndsWith
  <2>6. QED BY <2>3, <2>4, <2>5
<1>6. CASE GraceEnds
  <2>1. /\ Active /\ UNCHANGED <<phase, exit, outputs, temporary, listening, printed, failure>>
        /\ child' = child \/ child' = [child EXCEPT !.state = "signalled"]
    BY <1>6 DEF GraceEnds, ChildOnly, TerminateProcess
  <2>2. child'.is = child.is /\ child'.code = child.code
        /\ child' = [is |-> child'.is, state |-> child'.state, code |-> child'.code]
        /\ child'.state \in {child.state, "signalled"}
    BY <2>1
  <2>3. QED BY <2>1, <2>2 DEF Active
<1>7. CASE TarCloses
  <2>1. /\ phase \in {"extract", "run"} /\ child.state # "running" /\ child.is = "tar"
        /\ UNCHANGED <<child, printed, failure, outputs>>
    BY <1>7 DEF TarCloses, Closed, Active, processVars
  <2>2. \/ Succeeded /\ phase' = "inspect" /\ UNCHANGED <<exit, temporary, listening>>
        \/ ~Succeeded /\ EndsWith(CodeOf)
    BY <1>7 DEF TarCloses, Goto
  <2>3. CodeOf # 0
    BY DEF CodeOf
  <2>4. QED BY <2>1, <2>2, <2>3 DEF EndsWith
<1>8. CASE ReleaseGlzCloses
  <2>1. /\ phase \in {"extract", "run"} /\ child.state # "running"
        /\ UNCHANGED <<child, printed, failure>>
        /\ outputs' = IF IsRelayed THEN "envelope" ELSE outputs
        /\ child.is = "release-glz"
        /\ phase' = "end" /\ exit' = ResultCode /\ temporary' = FALSE /\ listening' = {}
    BY <1>8 DEF ReleaseGlzCloses, Closed, Active, processVars, EndsWith
  <2>2. CodeOf # 0
    BY DEF CodeOf
  <2>3. IsRelayed => exit' = IF child.state = "exited" THEN child.code ELSE 1
    BY <2>1 DEF ResultCode, IsRelayed, Succeeded, CodeOf
  <2>4. ~IsRelayed => exit' # 0
    BY <2>1, <2>2 DEF ResultCode
  <2>5. QED BY <2>1, <2>3, <2>4 DEF IsRelayed
<1>9. CASE FetchTimesOut \/ FetchIsRedirected \/ FetchIsRefused \/ FetchEnds \/ FetchBreaks
  <2>1. /\ UNCHANGED <<child, printed, failure, outputs>>
        /\ \/ UNCHANGED <<phase, exit, temporary, listening>>
           \/ phase = "fetch" /\ EndsWith(1)
           \/ phase = "fetch" /\ Goto("verify") /\ UNCHANGED <<exit, temporary, listening>>
    BY <1>9 DEF FetchTimesOut, FetchIsRedirected, FetchIsRefused, FetchEnds, FetchBreaks, FetchFails,
                FetchOnly, processVars
  <2>2. QED BY <2>1 DEF EndsWith, Goto
<1>9a. CASE FetchCrashes
  <2>1. UNCHANGED <<child, outputs>> /\ child.is = "none" /\ Dies(1)
    BY <1>9a, <1>00 DEF FetchCrashes, FetchOnly, processVars
  <2>2. outputs = "none"
    BY <2>1
  <2>3. QED BY <2>1, <2>2 DEF Dies
<1>9b. CASE LeftoverEnds
  BY <1>9b DEF LeftoverEnds, processVars
<1>10. CASE ProcessTimesOut \/ OutputExceeds
  <2>1. \E why : Stops(why)
    BY <1>10 DEF ProcessTimesOut, OutputExceeds
  <2>2. Active /\ UNCHANGED <<child, printed, phase, exit, temporary, listening, outputs>>
    BY <2>1 DEF Stops, Cancels, TerminateProcess, ChildOnly
  <2>3. QED BY <2>2 DEF Active
<1>11. CASE JobSignals
  <2>1. PICK signal \in Signals :
          \/ /\ signal \in listening /\ listening' = listening \ {signal}
             /\ UNCHANGED <<child, printed, phase, exit, temporary, outputs>>
          \/ phase # "dead" /\ Dies(Killed) /\ UNCHANGED <<child, printed, failure, outputs>>
    BY <1>11 DEF JobSignals, Cancels, TerminateProcess, processVars
  <2>2. CASE phase # "dead" /\ Dies(Killed) /\ UNCHANGED <<child, printed, failure, outputs>>
    BY <2>2 DEF Dies
  <2>3. CASE ~(phase # "dead" /\ Dies(Killed) /\ UNCHANGED <<child, printed, failure, outputs>>)
    <3>1. phase = "run" /\ child.is = "release-glz" /\ outputs = "none" /\ exit = NotEnded
      BY <2>1, <2>3
    <3>2. QED BY <2>1, <2>3, <3>1
  <2>4. QED BY <2>2, <2>3
<1>12. CASE ChildEnds
  <2>1. /\ child.state = "running" /\ UNCHANGED <<phase, exit, temporary, listening, outputs>>
        /\ \/ \E code \in ChildCodes : child' = [child EXCEPT !.state = "exited", !.code = code]
           \/ child' = [child EXCEPT !.state = "signalled"]
    BY <1>12 DEF ChildEnds, ChildOnly
  <2>2. /\ child' = [is |-> child'.is, state |-> child'.state, code |-> child'.code]
        /\ child'.is = child.is /\ child'.state # "running"
    BY <2>1
  <2>3. QED BY <2>1, <2>2
<1>13. CASE StragglerEnds
  BY <1>13 DEF StragglerEnds, ChildOnly
<1>14. CASE UNCHANGED installVars
  BY <1>14 DEF installVars, processVars
<1>15. QED
  BY <1>1, <1>2, <1>3, <1>4, <1>5, <1>6, <1>7, <1>8, <1>9, <1>9a, <1>9b, <1>10, <1>11, <1>12,
     <1>13, <1>14
  DEF InstallNext, ActionSteps, Timers


(* One download goes on, fails or ends.                                    *)
LEMMA FetchKeeps ==
  ASSUME EndInv, FetchInv, [InstallNext]_installVars
  PROVE  FetchInv'
<1> DEFINE Downloads == phase \in Fetched \/ child.is # "none"
<1>1. Downloads => ~\E file \in {"archive", "provenance"} : IsOpen(file)
  BY DEF FetchInv, IsOpen, FilesToFetch
<1>2. ASSUME UNCHANGED <<fetches, inputs>>,
             phase' = "fetch" => phase = "fetch",
             phase' \in Fetched \/ child'.is # "none" => Downloads,
             phase' = "dead" => exit' = Killed \/ UNCHANGED <<phase, exit>>
      PROVE  FetchInv'
  BY <1>2 DEF FetchInv, FilesToFetch, Override, One, IsDownload
<1>3. CASE ActionStarts
  <2>1. UNCHANGED <<inputs, child>>
    BY <1>3 DEF ActionStarts, processVars
  <2>2. child.is = "none"
    BY <1>3 DEF ActionStarts, EndInv, Unpacking
  <2>3. CASE InputsHold
    <3>1. /\ phase' = "fetch"
          /\ fetches' = [file \in FilesToFetch |-> [state |-> "open", redirects |-> 0, got |-> {}]]
      BY <1>3, <2>3 DEF ActionStarts, Goto
    <3>2. FilesToFetch' = FilesToFetch
      BY <2>1 DEF FilesToFetch, Override
    <3>3. QED BY <2>1, <2>2, <3>1, <3>2 DEF FetchInv, Fetched, IsDownload
  <2>4. CASE ~InputsHold
    <3>1. UNCHANGED <<fetches, inputs>> /\ phase' = "end"
      BY <1>3, <2>4 DEF ActionStarts, EndsWith
    <3>2. QED BY <1>2, <2>1, <2>2, <3>1 DEF Fetched
  <2>5. QED BY <2>3, <2>4
<1>3a. ASSUME NEW file \in {"archive", "provenance"}, IsOpen(file), NEW state, NEW got,
              Fetch(file, state, got)
       PROVE  /\ DOMAIN fetches' = DOMAIN fetches /\ file \in DOMAIN fetches
              /\ fetches'[file].state = state /\ \A other \in DOMAIN fetches' : IsDownload(other)'
  <2>1. /\ file \in DOMAIN fetches /\ \A other \in DOMAIN fetches : IsDownload(other)
        /\ fetches' = [fetches EXCEPT ![file].state = state, ![file].got = got]
    BY <1>3a DEF IsOpen, Fetch, FetchInv
  <2>2. /\ DOMAIN fetches' = DOMAIN fetches
        /\ fetches'[file] = [[fetches[file] EXCEPT !.state = state] EXCEPT !.got = got]
        /\ \A other \in DOMAIN fetches \ {file} : fetches'[other] = fetches[other]
    BY <2>1
  <2>3. fetches'[file] = [state |-> state, got |-> got, redirects |-> fetches[file].redirects]
    BY <2>1, <2>2 DEF IsDownload
  <2>4. QED BY <2>1, <2>2, <2>3 DEF IsDownload
<1>4. ASSUME NEW file \in {"archive", "provenance"}, IsOpen(file), FetchFails(file), FetchOnly
      PROVE  FetchInv'
  <2>1. ~Downloads
    BY <1>1, <1>4
  <2>2. phase # "dead" /\ (phase' = "end" \/ (phase # "fetch" /\ phase' = phase))
    BY <1>4 DEF FetchFails, EndsWith, IsOpen
  <2>3. child'.is = "none"
    BY <1>4, <2>1 DEF FetchOnly, processVars
  <2>4. phase' \notin Fetched \cup {"fetch", "dead"}
    BY <2>1, <2>2 DEF Fetched
  <2>5. \A other \in DOMAIN fetches' : IsDownload(other)'
    BY <1>3a, <1>4 DEF FetchFails
  <2>6. QED BY <2>3, <2>4, <2>5 DEF FetchInv
<1>5. CASE FetchTimesOut \/ FetchBreaks \/ FetchIsRefused
  BY <1>4, <1>5 DEF FetchTimesOut, FetchBreaks, FetchIsRefused
<1>5a. CASE FetchCrashes
  <2>1. PICK file \in {"archive", "provenance"} :
          IsOpen(file) /\ Fetch(file, "malformed", {}) /\ Dies(1) /\ FetchOnly
    BY <1>5a DEF FetchCrashes
  <2>2. phase' = "dead" /\ child'.is = "none"
    BY <1>1, <2>1 DEF Dies, FetchOnly, processVars
  <2>3. QED BY <1>3a, <2>1, <2>2 DEF FetchInv, Fetched
<1>5b. CASE LeftoverEnds
  BY <1>2, <1>5b DEF LeftoverEnds, processVars
<1>6. CASE FetchIsRedirected
  <2>1. PICK file \in {"archive", "provenance"} :
          /\ IsOpen(file) /\ FetchOnly
          /\ \/ FetchFails(file)
             \/ /\ fetches' = [fetches EXCEPT ![file].redirects = @ + 1]
                /\ UNCHANGED <<phase, exit, temporary, listening>>
    BY <1>6 DEF FetchIsRedirected
  <2>2. CASE fetches' = [fetches EXCEPT ![file].redirects = @ + 1] /\ UNCHANGED phase
    <3>1. ~Downloads /\ phase # "dead" /\ UNCHANGED <<inputs, child>>
      BY <1>1, <2>1 DEF FetchOnly, processVars, IsOpen
    <3>2. FilesToFetch' = FilesToFetch
      BY <3>1 DEF FilesToFetch, Override
    <3>3. DOMAIN fetches' = DOMAIN fetches
      BY <2>2
    <3>4. ASSUME NEW other \in DOMAIN fetches
          PROVE  /\ fetches'[other].state = fetches[other].state
                 /\ fetches'[other].got = fetches[other].got
                 /\ IsDownload(other)'
      BY <2>2, <3>4 DEF FetchInv, IsDownload
    <3>5. QED BY <2>2, <3>1, <3>2, <3>3, <3>4 DEF FetchInv, One
  <2>3. QED BY <1>4, <2>1, <2>2
<1>7. CASE FetchEnds
  <2>1. PICK file \in {"archive", "provenance"} :
          /\ IsOpen(file) /\ FetchOnly
          /\ \/ FetchFails(file)
             \/ /\ \E content \in Served(file) : Fetch(file, "done", {content})
                /\ IF phase = "fetch" /\ \A other \in DOMAIN fetches \ {file} :
                                            fetches[other].state = "done"
                   THEN Goto("verify") ELSE UNCHANGED phase
    BY <1>7 DEF FetchEnds
  <2>2. CASE ~FetchFails(file)
    <3>1. ~Downloads /\ phase # "dead" /\ UNCHANGED <<inputs, child>>
      BY <1>1, <2>1 DEF FetchOnly, processVars, IsOpen
    <3>2. PICK content \in Served(file) :
            fetches' = [fetches EXCEPT ![file].state = "done", ![file].got = {content}]
      BY <2>1, <2>2 DEF Fetch
    <3>3. FilesToFetch' = FilesToFetch /\ \A other \in DOMAIN fetches' : IsDownload(other)'
      BY <1>3a, <2>1, <2>2, <3>1 DEF FilesToFetch, Override
    <3>4. CASE phase # "fetch"
      <4>1. phase' = phase
        BY <2>1, <2>2, <3>4
      <4>2. QED BY <3>1, <3>3, <3>4, <4>1 DEF FetchInv
    <3>5. CASE phase = "fetch"
      <4>1. /\ DOMAIN fetches = FilesToFetch /\ file \in FilesToFetch
            /\ IsDownload(file)
            /\ \A other \in FilesToFetch :
                 /\ fetches[other].state = "done" => One(other)
                 /\ fetches[other].state \in {"open", "done"}
        BY <2>1, <3>5 DEF FetchInv, IsOpen
      <4>2. /\ DOMAIN fetches' = FilesToFetch
            /\ fetches'[file] = [fetches[file] EXCEPT !.state = "done", !.got = {content}]
            /\ \A other \in FilesToFetch \ {file} : fetches'[other] = fetches[other]
        BY <3>2, <4>1
      <4>3. fetches'[file] = [state |-> "done", got |-> {content},
                              redirects |-> fetches[file].redirects]
        BY <4>1, <4>2 DEF IsDownload
      <4>4. One(file)'
        BY <4>3 DEF One, Served
      <4>5. \A other \in FilesToFetch \ {file} : fetches[other].state = "done" => One(other)'
        BY <4>1, <4>2 DEF One, Served
      <4>6. \A other \in FilesToFetch :
              /\ fetches'[other].state = "done" => One(other)'
              /\ fetches'[other].state \in {"open", "done"}
        BY <4>1, <4>2, <4>3, <4>4, <4>5
      <4>7. \/ phase' = "fetch"
            \/ phase' = "verify" /\ \A other \in FilesToFetch \ {file} : fetches[other].state = "done"
        BY <2>1, <2>2, <3>5, <4>1 DEF Goto
      <4>8. CASE phase' = "fetch"
        BY <3>1, <3>3, <4>2, <4>6, <4>8 DEF FetchInv, Fetched
      <4>9. CASE phase' = "verify" /\ \A other \in FilesToFetch \ {file} : fetches[other].state = "done"
        <5>1. \A other \in FilesToFetch : fetches'[other].state = "done"
          BY <4>2, <4>3, <4>9
        <5>2. QED BY <3>3, <4>2, <4>6, <4>9, <5>1 DEF FetchInv
      <4>10. QED BY <4>7, <4>8, <4>9
    <3>6. QED BY <3>4, <3>5
  <2>3. QED BY <1>4, <2>1, <2>2
<1>8. CASE ActionVerifies \/ ActionInventories
  BY <1>2, <1>8 DEF ActionVerifies, ActionInventories, processVars, Goto, EndsWith, Fetched
<1>9. CASE ActionExtracts
  BY <1>2, <1>9 DEF ActionExtracts, Goto, EndsWith, Fetched
<1>10. CASE ActionRuns
  BY <1>2, <1>10 DEF ActionRuns, Goto, EndsWith, Fetched
<1>11. CASE TarCloses \/ ReleaseGlzCloses
  BY <1>2, <1>11 DEF TarCloses, ReleaseGlzCloses, Closed, Active, processVars, Goto, EndsWith, Fetched
<1>12. CASE GraceEnds \/ ProcessTimesOut \/ OutputExceeds \/ ChildEnds \/ StragglerEnds
  <2>1. UNCHANGED <<fetches, inputs, phase, exit>>
    BY <1>12 DEF GraceEnds, ProcessTimesOut, OutputExceeds, ChildEnds, StragglerEnds,
                 Stops, Cancels, ChildOnly
  <2>2. \/ child' = child \/ child' = [child EXCEPT !.state = "signalled"]
        \/ \E code \in ChildCodes : child' = [child EXCEPT !.state = "exited", !.code = code]
    BY <1>12 DEF GraceEnds, ProcessTimesOut, OutputExceeds, ChildEnds, StragglerEnds,
                 Stops, Cancels, TerminateProcess
  <2>3. child'.is = child.is
    BY <2>2 DEF EndInv
  <2>4. QED BY <1>2, <2>1, <2>3 DEF Fetched
<1>13. CASE JobSignals
  <2>1. UNCHANGED <<fetches, inputs, child>> /\ (UNCHANGED <<phase, exit>> \/ Dies(Killed))
    BY <1>13 DEF JobSignals, Cancels, TerminateProcess, processVars
  <2>2. QED BY <1>2, <2>1 DEF Dies, Fetched
<1>14. CASE UNCHANGED installVars
  BY <1>2, <1>14 DEF installVars, processVars
<1>15. QED
  BY <1>3, <1>5, <1>5a, <1>5b, <1>6, <1>7, <1>8, <1>9, <1>10, <1>11, <1>12, <1>13, <1>14
  DEF InstallNext, ActionSteps, Timers


-----------------------------------------------------------------------------
(* One more entry after those so far.                                      *)
LEMMA EntersOneMore ==
  ASSUME NEW blocks, NEW n \in Nat \ {0}, NEW headers \in SUBSET (1 .. n - 1),
         \A i \in 1 .. n : blocks[i].size \in Nat,
         NEW S, NEW entries \in Seq(S), blocks[n] \in S,
         Entered(blocks, entries, n - 1, headers),
         blocks[n].is = "header",
         \A k \in DOMAIN entries : entries[k].path # blocks[n].path
  PROVE  Entered(blocks, Append(entries, blocks[n]), n + blocks[n].size, headers \cup {n})
<1> DEFINE more == headers \cup {n}
           end == n + blocks[n].size
           longer == Append(entries, blocks[n])
<1>1. /\ n \in Nat /\ n - 1 \in Nat /\ blocks[n].size \in Nat /\ end \in Nat
      /\ \A head \in headers : head \in Nat /\ head <= n - 1 /\ blocks[head].size \in Nat
  OBVIOUS
<1>2. /\ \A head \in headers : blocks[head].is = "header" /\ head + blocks[head].size <= n - 1
      /\ \A i, j \in headers : blocks[i].path = blocks[j].path => i = j
      /\ \A head \in headers : \E k \in DOMAIN entries : entries[k].path = blocks[head].path
  BY DEF Entered
<1>3. /\ longer # <<>>
      /\ \A k \in DOMAIN entries : k \in DOMAIN longer /\ longer[k] = entries[k]
      /\ Len(entries) + 1 \in DOMAIN longer /\ longer[Len(entries) + 1] = blocks[n]
  <2>1. /\ longer \in Seq(S) /\ Len(longer) = Len(entries) + 1 /\ Len(entries) \in Nat
        /\ DOMAIN entries = 1 .. Len(entries) /\ DOMAIN longer = 1 .. Len(longer)
    BY AppendProperties, LenProperties
  <2>2. \A k \in 1 .. Len(entries) : longer[k] = entries[k]
    BY AppendProperties
  <2>3. longer[Len(entries) + 1] = blocks[n]
    BY AppendProperties
  <2>4. longer # <<>>
    BY <2>1, EmptySeq
  <2>5. QED BY <2>1, <2>2, <2>3, <2>4
<1>4. \A head \in more : blocks[head].is = "header" /\ head + blocks[head].size <= end
  <2>1. n - 1 <= end
    BY <1>1
  <2>2. \A head \in headers : head + blocks[head].size <= end
    <3> SUFFICES ASSUME NEW head \in headers PROVE head + blocks[head].size <= end
      OBVIOUS
    <3> DEFINE here == head + blocks[head].size
    <3>1. here \in Nat /\ here <= n - 1
      BY <1>1, <1>2
    <3> HIDE DEF here, end
    <3>2. here <= end
      BY <1>1, <2>1, <3>1
    <3>3. QED BY <3>2 DEF here
  <2>3. n + blocks[n].size <= end
    BY <1>1
  <2>4. QED BY <1>2, <2>2, <2>3
<1>5. \A i, j \in more : blocks[i].path = blocks[j].path => i = j
  BY <1>2
<1>6. \A head \in more : \E k \in DOMAIN longer : longer[k].path = blocks[head].path
  <2> HIDE DEF longer
  <2>1. QED BY <1>2, <1>3
<1>7. end \in EndsOf(blocks, more) /\ EndsOf(blocks, more) \ {end} = EndsOf(blocks, headers)
  <2>1. \A head \in headers : head + blocks[head].size # end
    BY <1>1, <1>2
  <2>2. QED BY <2>1 DEF EndsOf
<1>8. more = {1} \cup {one + 1 : one \in EndsOf(blocks, headers)}
  <2>1. CASE entries = <<>>
    <3>1. headers = {} /\ n = 1
      BY <1>1, <2>1 DEF Entered
    <3>2. EndsOf(blocks, headers) = {}
      BY <3>1 DEF EndsOf
    <3>3. QED BY <3>1, <3>2
  <2>2. CASE entries # <<>>
    <3>1. /\ n - 1 \in EndsOf(blocks, headers)
          /\ headers = {1} \cup {one + 1 : one \in EndsOf(blocks, headers) \ {n - 1}}
      BY <2>2 DEF Entered
    <3>2. (n - 1) + 1 = n
      BY <1>1
    <3>3. QED BY <3>1, <3>2
  <2>3. QED BY <2>1, <2>2
<1> HIDE DEF more, end, longer
<1>9. Entered(blocks, longer, end, more)
  BY <1>3, <1>4, <1>5, <1>6, <1>7, <1>8 DEF Entered
<1>10. QED BY <1>9 DEF more, end, longer

(* Whatever the next block is, what has been read stays as described.       *)
LEMMA ReadsOneMore ==
  ASSUME NEW blocks, blocks \in Seq({blocks[i] : i \in DOMAIN blocks}),
         \A i \in DOMAIN blocks : blocks[i].size \in Nat,
         NEW read, ReadSoFar(blocks, read), read.next \in DOMAIN blocks,
         NEW step \in InventoryStep(read, blocks[read.next])
  PROVE  ReadSoFar(blocks, step)
<1> DEFINE n == read.next
           Items == {blocks[i] : i \in DOMAIN blocks}
<1>1. /\ Len(blocks) \in Nat /\ DOMAIN blocks = 1 .. Len(blocks)
      /\ n \in 1 .. Len(blocks) /\ n \in Nat /\ n - 1 \in Nat
  BY LenProperties
<1>2. /\ read = [next |-> read.next, entries |-> read.entries, total |-> read.total,
                 contentRemaining |-> read.contentRemaining, zeroBlocks |-> read.zeroBlocks]
      /\ read.entries \in Seq(Items)
      /\ read.contentRemaining \in Nat /\ read.zeroBlocks \in {0, 1, 2}
  BY DEF ReadSoFar
<1>3. PICK last \in Nat, headers \in SUBSET (1 .. n - 1) :
        Entered(blocks, read.entries, last, headers) /\ Trails(blocks, read, last)
  BY DEF ReadSoFar, Walked
<1>4. headers \in SUBSET (1 .. (n + 1) - 1)
  BY <1>1
<1>4a. /\ \A i \in last + 1 .. (n + 1) - 1 : i = n \/ i \in last + 1 .. n - 1
       /\ (n + 1) - 1 = n
       /\ last + 2 <= n - 1 => last + 2 <= n
       /\ last + 1 <= n - 1 => last + 2 <= n
  BY <1>1
(* A step that adds no entry. *)
<1>5. ASSUME NEW c \in Nat, NEW z \in {0, 1, 2},
             step = [next |-> n + 1, entries |-> read.entries, total |-> read.total,
                     contentRemaining |-> c, zeroBlocks |-> z],
             Trails(blocks, step, last)
      PROVE  ReadSoFar(blocks, step)
  <2>1. step.next = n + 1 /\ step.entries = read.entries
        /\ step.contentRemaining = c /\ step.zeroBlocks = z /\ step.total = read.total
    BY <1>5
  <2>2. Walked(blocks, step)
    BY <1>3, <1>4, <1>5, <2>1 DEF Walked
  <2>3. step.next \in 1 .. Len(blocks) + 1
    BY <1>1, <2>1
  <2>4. QED BY <1>2, <1>5, <2>1, <2>2, <2>3 DEF ReadSoFar
<1>6. CASE read.zeroBlocks = 2
  <2>1. blocks[n].is \in {"zero", "rest"} /\ step = [read EXCEPT !.next = @ + 1]
    BY <1>6 DEF InventoryStep
  <2>2. read.contentRemaining = 0 /\ last + 2 <= n - 1
        /\ \A i \in last + 1 .. n - 1 : IsPadding(blocks, last, i)
    BY <1>3, <1>6 DEF Trails
  <2>3. step = [next |-> n + 1, entries |-> read.entries, total |-> read.total,
                contentRemaining |-> 0, zeroBlocks |-> 2]
    BY <1>2, <1>6, <2>1, <2>2
  <2>4. Trails(blocks, step, last)
    <3>0. IsPadding(blocks, last, n)
      BY <1>1, <2>1, <2>2 DEF IsPadding
    <3>1. last + 2 <= (n + 1) - 1 /\ \A i \in last + 1 .. (n + 1) - 1 : IsPadding(blocks, last, i)
      BY <1>4a, <2>2, <3>0
    <3>2. QED BY <2>3, <3>1 DEF Trails
  <2>5. QED BY <1>5, <2>3, <2>4
<1>7. CASE read.zeroBlocks # 2 /\ read.contentRemaining > 0
  <2>1. step = [[read EXCEPT !.next = @ + 1] EXCEPT !.contentRemaining = @ - 1]
    BY <1>7 DEF InventoryStep
  <2>2. read.zeroBlocks = 0 /\ n - 1 + read.contentRemaining = last
    BY <1>2, <1>3, <1>7 DEF Trails
  <2>3. step = [next |-> n + 1, entries |-> read.entries, total |-> read.total,
                contentRemaining |-> read.contentRemaining - 1, zeroBlocks |-> 0]
    BY <1>2, <2>1, <2>2
  <2>4. read.contentRemaining - 1 \in Nat /\ (n + 1) - 1 + (read.contentRemaining - 1) = last
    BY <1>1, <1>2, <1>7, <2>2
  <2>5. Trails(blocks, step, last)
    BY <2>3, <2>4 DEF Trails
  <2>6. QED BY <1>5, <2>3, <2>4, <2>5
<1>8. CASE read.zeroBlocks # 2 /\ ~(read.contentRemaining > 0) /\ blocks[n].is = "zero"
  <2>1. step = [[read EXCEPT !.next = @ + 1] EXCEPT !.zeroBlocks = @ + 1]
    BY <1>8 DEF InventoryStep
  <2>2. read.contentRemaining = 0
    BY <1>2, <1>8
  <2>3. step = [next |-> n + 1, entries |-> read.entries, total |-> read.total,
                contentRemaining |-> 0, zeroBlocks |-> read.zeroBlocks + 1]
    BY <1>2, <2>1, <2>2
  <2>4. read.zeroBlocks + 1 \in {0, 1, 2} /\ read.zeroBlocks + 1 # 0
    BY <1>2, <1>8
  <2>5. Trails(blocks, step, last)
    <3>1. CASE read.zeroBlocks = 0
      <4>1. n - 1 = last
        BY <1>1, <1>3, <2>2, <3>1 DEF Trails
      <4>2. last + 1 <= (n + 1) - 1 /\ \A i \in last + 1 .. (n + 1) - 1 : IsPadding(blocks, last, i)
        BY <1>1, <1>8, <4>1 DEF IsPadding
      <4>3. QED BY <2>3, <3>1, <4>2 DEF Trails
    <3>2. CASE read.zeroBlocks = 1
      <4>1. last + 1 <= n - 1 /\ \A i \in last + 1 .. n - 1 : IsPadding(blocks, last, i)
        BY <1>3, <3>2 DEF Trails
      <4>2. last + 2 <= (n + 1) - 1 /\ \A i \in last + 1 .. (n + 1) - 1 : IsPadding(blocks, last, i)
        BY <1>4a, <1>8, <4>1 DEF IsPadding
      <4>3. step.zeroBlocks = 2 /\ step.next = n + 1 /\ step.contentRemaining = 0
        BY <2>3, <3>2
      <4>4. QED BY <4>2, <4>3 DEF Trails
    <3>3. QED BY <1>2, <1>8, <3>1, <3>2
  <2>6. QED BY <1>5, <2>3, <2>4, <2>5
<1>9. CASE read.zeroBlocks # 2 /\ ~(read.contentRemaining > 0) /\ blocks[n].is # "zero"
  <2> DEFINE block == blocks[n]
             end == n + block.size
             longer == Append(read.entries, block)
  <2>1. /\ TakesEntry(read, block)
        /\ step = [[read EXCEPT !.next = @ + 1] EXCEPT
                     !.entries = Append(@, block), !.total = @ + block.size,
                     !.contentRemaining = block.size]
    BY <1>9 DEF InventoryStep
  <2>2. /\ read.zeroBlocks = 0 /\ block.is = "header"
        /\ \A k \in DOMAIN read.entries : read.entries[k].path # block.path
    BY <2>1 DEF TakesEntry, ParseTarHeader, ValidateEntry
  <2>3. read.contentRemaining = 0
    BY <1>2, <1>9
  <2>4. last = n - 1
    BY <1>1, <1>3, <2>2, <2>3 DEF Trails
  <2>5. step = [next |-> n + 1, entries |-> longer, total |-> read.total + block.size,
                contentRemaining |-> block.size, zeroBlocks |-> 0]
    BY <1>2, <2>1, <2>2
  <2>6. block.size \in Nat /\ block \in Items /\ end \in Nat
    BY <1>1
  <2>7. \A i \in 1 .. n : blocks[i].size \in Nat
    BY <1>1
  <2>8. Entered(blocks, longer, end, headers \cup {n})
    <3>1. Entered(blocks, read.entries, n - 1, headers) /\ n \in Nat \ {0}
      BY <1>1, <1>3, <2>4
    <3> HIDE DEF n, Items
    <3>2. QED BY <1>2, <1>3, <2>2, <2>6, <2>7, <3>1, EntersOneMore
  <2>9. longer \in Seq(Items)
    BY <1>2, <2>6, AppendProperties
  <2> HIDE DEF longer
  <2>10. headers \cup {n} \in SUBSET (1 .. step.next - 1)
    <3>1. step.next = n + 1 /\ n \in 1 .. (n + 1) - 1
      BY <1>1, <2>5
    <3>2. QED BY <1>4, <3>1
  <2>11. Trails(blocks, step, end)
    BY <1>1, <2>5, <2>6 DEF Trails
  <2>12. step.entries = longer
    BY <2>5
  <2> HIDE DEF end
  <2>13. Walked(blocks, step)
    BY <2>6, <2>8, <2>10, <2>11, <2>12 DEF Walked, end
  <2>14. QED BY <1>1, <2>5, <2>6, <2>9, <2>13 DEF ReadSoFar
<1>10. QED BY <1>2, <1>6, <1>7, <1>8, <1>9

(* Nothing read yet is described too.                                       *)
LEMMA StartsReading ==
  ASSUME NEW blocks, blocks \in Seq({blocks[i] : i \in DOMAIN blocks})
  PROVE  ReadSoFar(blocks, Unread)
<1>1. Len(blocks) \in Nat
  BY LenProperties
<1>2. /\ Unread.next = 1 /\ Unread.entries = <<>> /\ Unread.contentRemaining = 0
      /\ Unread.zeroBlocks = 0
      /\ Unread = [next |-> Unread.next, entries |-> Unread.entries, total |-> Unread.total,
                   contentRemaining |-> Unread.contentRemaining, zeroBlocks |-> Unread.zeroBlocks]
  BY DEF Unread
<1>3. Walked(blocks, Unread)
  <2>1. {} \in SUBSET (1 .. Unread.next - 1) /\ Unread.next - 1 + Unread.contentRemaining = 0
    BY <1>2
  <2>2. Entered(blocks, <<>>, 0, {})
    BY DEF Entered
  <2>3. Trails(blocks, Unread, 0)
    BY <1>2 DEF Trails
  <2>4. QED BY <1>2, <2>1, <2>2, <2>3 DEF Walked
<1>4. QED BY <1>1, <1>2, <1>3 DEF ReadSoFar

(* An archive that was read to its end is whole.                           *)
LEMMA ReadIsWhole ==
  ASSUME NEW blocks, blocks \in Seq({blocks[i] : i \in DOMAIN blocks}),
         \A i \in DOMAIN blocks : blocks[i].size \in Nat,
         NEW read, ReadSoFar(blocks, read), read.next \notin DOMAIN blocks, IsComplete(read)
  PROVE  IsWhole(blocks)
<1>1. Len(blocks) \in Nat /\ DOMAIN blocks = 1 .. Len(blocks) /\ read.next = Len(blocks) + 1
  BY LenProperties DEF ReadSoFar
<1>2. PICK last \in Nat, headers \in SUBSET (1 .. read.next - 1) :
        Entered(blocks, read.entries, last, headers) /\ Trails(blocks, read, last)
  BY DEF ReadSoFar, Walked
<1>3. read.zeroBlocks = 2 /\ read.entries # <<>>
  BY DEF IsComplete
<1>4. headers \in SUBSET DOMAIN blocks /\ read.next - 1 = Len(blocks)
  BY <1>1, <1>2
<1>5. /\ \A head \in headers : blocks[head].is = "header" /\ head + blocks[head].size <= last
      /\ \A i, j \in headers : blocks[i].path = blocks[j].path => i = j
      /\ last \in EndsOf(blocks, headers)
      /\ headers = {1} \cup {one + 1 : one \in EndsOf(blocks, headers) \ {last}}
  BY <1>2, <1>3 DEF Entered
<1>6. last + 2 <= Len(blocks) /\ \A i \in last + 1 .. Len(blocks) : IsPadding(blocks, last, i)
  BY <1>2, <1>3, <1>4 DEF Trails
<1>7. last \in 1 .. Len(blocks) - 2
  <2>1. 1 \in headers /\ blocks[1].size \in Nat /\ 1 + blocks[1].size <= last
    BY <1>1, <1>4, <1>5
  <2>2. QED BY <1>1, <1>6, <2>1
<1>8. QED BY <1>4, <1>5, <1>6, <1>7 DEF IsWhole, EndsOf


-----------------------------------------------------------------------------
(* What was checked stays checked.                                          *)
LEMMA SameChecks ==
  ASSUME UNCHANGED <<inputs, checksums>>
  PROVE  InputsHold' = InputsHold /\ (UNCHANGED fetches => Verified' = Verified)
<1>1. Override' = Override /\ Version' = Version
  BY DEF Override, Version
<1>2. Expected' = Expected
  BY <1>1 DEF Expected
<1>3. BundledChecksumHolds' = BundledChecksumHolds
  BY <1>1 DEF BundledChecksumHolds
<1>4. InputsHold' = InputsHold
  BY <1>1, <1>3 DEF InputsHold
<1>5. ASSUME UNCHANGED fetches PROVE Verified' = Verified
  BY <1>1, <1>2, <1>5 DEF Verified, VerifiesProvenance
<1>6. QED BY <1>4, <1>5

(* So does the archive, while no download changes it.                       *)
LEMMA SameArchive ==
  ASSUME UNCHANGED fetches
  PROVE  Blocks' = Blocks /\ IsRegular' = IsRegular
BY DEF Blocks, IsRegular

(* Steps that leave the files and the archive alone.                        *)
LEMMA CheckFrame ==
  ASSUME CheckInv,
         UNCHANGED <<inputs, checksums, inventory>>,
         phase' = phase \/ phase' \in {"end", "dead"},
         child'.is = child.is,
         phase \in Checked \/ child.is # "none" => UNCHANGED fetches
  PROVE  CheckInv'
<1>1. InputsHold' = InputsHold
  BY SameChecks
<1>2. CASE phase \in Checked \/ child.is # "none"
  <2>1. Verified' = Verified /\ Blocks' = Blocks /\ IsRegular' = IsRegular
    BY <1>2, SameChecks, SameArchive
  <2>2. QED BY <1>1, <1>2, <2>1 DEF CheckInv, Checked, Unpacking
<1>3. CASE ~(phase \in Checked \/ child.is # "none")
  BY <1>1, <1>3 DEF CheckInv, Checked, Unpacking
<1>4. QED BY <1>2, <1>3

(* The downloads: none is open once the archive is being checked.          *)
LEMMA CheckKeepsFetching ==
  ASSUME EndInv, FetchInv, CheckInv,
         \/ FetchTimesOut \/ FetchBreaks \/ FetchIsRedirected \/ FetchIsRefused \/ FetchCrashes
         \/ FetchEnds
  PROVE  CheckInv'
<1>1. phase \in Fetched \/ child.is # "none" => ~\E file \in {"archive", "provenance"} : IsOpen(file)
  BY DEF FetchInv, IsOpen, FilesToFetch
<1>2. /\ \E file \in {"archive", "provenance"} : IsOpen(file)
      /\ UNCHANGED <<inputs, checksums, inventory, child>>
      /\ phase' = phase \/ phase' \in {"end", "dead"} \/ (phase = "fetch" /\ phase' = "verify")
  BY DEF FetchTimesOut, FetchBreaks, FetchIsRedirected, FetchIsRefused, FetchCrashes, FetchEnds,
         FetchFails, FetchOnly, processVars, EndsWith, Dies, Goto
<1>3. phase \notin Fetched /\ child.is = "none"
  BY <1>1, <1>2
<1>4. CASE phase' = phase \/ phase' \in {"end", "dead"}
  BY <1>2, <1>3, <1>4, CheckFrame DEF Checked, Fetched
<1>5. CASE phase = "fetch" /\ phase' = "verify"
  <2>1. InputsHold' = InputsHold
    BY <1>2, SameChecks
  <2>2. QED BY <1>2, <1>3, <1>5, <2>1 DEF CheckInv, Checked, Unpacking
<1>6. QED BY <1>2, <1>4, <1>5

(* The archive that was fetched is one of those that servers send.         *)
LEMMA ArchiveIsRead ==
  ASSUME FetchInv, phase \in Fetched \/ child.is # "none"
  PROVE  \E archive \in Archives :
           /\ fetches["archive"].got = {archive} /\ Blocks = archive.blocks
           /\ Blocks \in Seq({Blocks[i] : i \in DOMAIN Blocks})
           /\ \A i \in DOMAIN Blocks : Blocks[i].size \in Nat
<1>1. PICK archive \in Archives : fetches["archive"].got = {archive}
  BY DEF FetchInv, FilesToFetch, One, Served
<1>2. (CHOOSE one \in fetches["archive"].got : TRUE) = archive
  BY <1>1
<1>3. Blocks = archive.blocks
  BY <1>2 DEF Blocks
<1>4. QED BY <1>1, <1>3, ServedAssumption

(* Each step knows what the steps before it have checked.                   *)
LEMMA CheckKeeps ==
  ASSUME EndInv, FetchInv, CheckInv, [InstallNext]_installVars
  PROVE  CheckInv'
<1>1. CASE \/ FetchTimesOut \/ FetchIsRedirected \/ FetchIsRefused \/ FetchCrashes \/ FetchEnds
           \/ FetchBreaks
  BY <1>1, CheckKeepsFetching
<1>2. CASE ActionStarts
  <2>1. UNCHANGED <<inputs, checksums, child, inventory>> /\ child.is = "none" /\ phase = "start"
    BY <1>2 DEF ActionStarts, processVars, EndInv, Unpacking
  <2>2. InputsHold' = InputsHold
    BY <2>1, SameChecks
  <2>3. phase' = "end" \/ (InputsHold /\ phase' = "fetch")
    BY <1>2 DEF ActionStarts, EndsWith, Goto
  <2>4. QED BY <2>1, <2>2, <2>3 DEF CheckInv, Checked, Unpacking
<1>3. CASE ActionVerifies
  <2>1. /\ UNCHANGED <<inputs, checksums, child, inventory, fetches>>
        /\ child.is = "none" /\ phase = "verify"
    BY <1>3 DEF ActionVerifies, processVars, EndInv, Unpacking
  <2>2. InputsHold' = InputsHold /\ Verified' = Verified /\ Blocks' = Blocks
    BY <2>1, SameChecks, SameArchive
  <2>3. phase' = "end" \/ (Verified /\ phase' = "inventory")
    BY <1>3 DEF ActionVerifies, EndsWith, Goto
  <2>4. inventory' = Unread /\ ReadSoFar(Blocks, Unread)
    BY <2>1, ArchiveIsRead, StartsReading DEF CheckInv, Fetched
  <2>5. QED BY <2>1, <2>2, <2>3, <2>4 DEF CheckInv, Checked, Unpacking
<1>4. CASE ActionInventories
  <2>1. /\ UNCHANGED <<inputs, checksums, child, fetches>>
        /\ child.is = "none" /\ phase = "inventory" /\ inventory.next \in DOMAIN Blocks
    BY <1>4 DEF ActionInventories, processVars, EndInv, Unpacking
  <2>2. InputsHold' = InputsHold /\ Verified' = Verified /\ Blocks' = Blocks
    BY <2>1, SameChecks, SameArchive
  <2>3. \/ phase' = "end"
        \/ phase' = phase /\ inventory' \in InventoryStep(inventory, Blocks[inventory.next])
    BY <1>4 DEF ActionInventories, EndsWith
  <2>4. inventory' \in InventoryStep(inventory, Blocks[inventory.next])
          => ReadSoFar(Blocks, inventory')
    BY <2>1, ArchiveIsRead, ReadsOneMore DEF CheckInv, Fetched
  <2>5. QED BY <2>1, <2>2, <2>3, <2>4 DEF CheckInv, Checked, Unpacking
<1>5. CASE ActionExtracts
  <2>1. /\ UNCHANGED <<inputs, checksums, inventory, fetches>>
        /\ child.is = "none" /\ phase = "inventory" /\ inventory.next \notin DOMAIN Blocks
    BY <1>5 DEF ActionExtracts, EndInv, Unpacking
  <2>2. InputsHold' = InputsHold /\ Verified' = Verified /\ Blocks' = Blocks
    BY <2>1, SameChecks, SameArchive
  <2>3. \/ phase' = "end" /\ child' = child
        \/ IsComplete(inventory) /\ phase' = "extract" /\ child'.is = "tar"
    BY <1>5 DEF ActionExtracts, EndsWith, Goto, Spawned
  <2>4. QED BY <2>1, <2>2, <2>3 DEF CheckInv, Checked, Unpacking
<1>6. CASE ActionRuns
  <2>1. UNCHANGED <<inputs, checksums, inventory, fetches>> /\ phase = "inspect"
    BY <1>6 DEF ActionRuns
  <2>2. /\ InputsHold' = InputsHold /\ Verified' = Verified
        /\ Blocks' = Blocks /\ IsRegular' = IsRegular
    BY <2>1, SameChecks, SameArchive
  <2>3. \/ phase' = "end" /\ child' = child
        \/ IsRegular /\ phase' = "run" /\ child'.is = "release-glz"
    <3>1. \/ EndsWith(1) /\ child' = child
          \/ IsRegular /\ Goto("run") /\ child' = Spawned("release-glz")
      BY <1>6 DEF ActionRuns
    <3>2. QED BY <3>1 DEF EndsWith, Goto, Spawned
  <2>4. QED BY <2>1, <2>2, <2>3 DEF CheckInv, Checked, Unpacking
<1>7. CASE TarCloses \/ ReleaseGlzCloses
  <2>1. /\ UNCHANGED <<inputs, checksums, inventory, fetches, child>> /\ phase \in {"extract", "run"}
        /\ phase' \in {"inspect", "end"}
    BY <1>7 DEF TarCloses, ReleaseGlzCloses, Closed, Active, processVars, EndsWith, Goto
  <2>2. /\ InputsHold' = InputsHold /\ Verified' = Verified
        /\ Blocks' = Blocks /\ IsRegular' = IsRegular
    BY <2>1, SameChecks, SameArchive
  <2>3. QED BY <2>1, <2>2 DEF CheckInv, Checked, Unpacking
<1>8. CASE GraceEnds \/ ProcessTimesOut \/ OutputExceeds \/ ChildEnds \/ StragglerEnds
  <2>1. UNCHANGED <<inputs, checksums, inventory, fetches, phase>>
    BY <1>8 DEF GraceEnds, ProcessTimesOut, OutputExceeds, ChildEnds, StragglerEnds,
                Stops, Cancels, ChildOnly
  <2>2. \/ child' = child \/ child' = [child EXCEPT !.state = "signalled"]
        \/ \E code \in ChildCodes : child' = [child EXCEPT !.state = "exited", !.code = code]
    BY <1>8 DEF GraceEnds, ProcessTimesOut, OutputExceeds, ChildEnds, StragglerEnds,
                Stops, Cancels, TerminateProcess
  <2>3. child'.is = child.is
    BY <2>2 DEF EndInv
  <2>4. QED BY <2>1, <2>3, CheckFrame
<1>9. CASE JobSignals \/ LeftoverEnds \/ UNCHANGED installVars
  <2>1. /\ UNCHANGED <<inputs, checksums, inventory, fetches, child>>
        /\ phase' = phase \/ phase' = "dead"
    BY <1>9 DEF JobSignals, Cancels, TerminateProcess, Dies, LeftoverEnds, processVars, installVars
  <2>2. QED BY <2>1, CheckFrame
<1>10. QED
  BY <1>1, <1>2, <1>3, <1>4, <1>5, <1>6, <1>7, <1>8, <1>9 DEF InstallNext, ActionSteps, Timers

(* The invariant holds however the servers, the child and the job's signals *)
(* behave.                                                                  *)
THEOREM InstallInvariance == InstallSpec => []InstallInv
<1>1. InstallInit => InstallInv
  <2> SUFFICES ASSUME InstallInit PROVE InstallInv
    OBVIOUS
  <2>1. /\ phase = "start" /\ exit = NotEnded /\ child = NoChild /\ fetches = <<>>
        /\ inventory = Unread /\ outputs = "none" /\ inputs \in Inputs /\ listening = {}
    BY DEF InstallInit, InstallRest
  <2>2. EndInv
    BY <2>1 DEF EndInv, NoChild, NotEnded, Killed
  <2>3. FetchInv
    BY <2>1 DEF FetchInv, NoChild, Fetched
  <2>4. CheckInv
    BY <2>1 DEF CheckInv, NoChild, Checked, Unpacking
  <2>5. QED BY <2>2, <2>3, <2>4 DEF InstallInv
<1>2. InstallInv /\ [InstallNext]_installVars => InstallInv'
  BY EndKeeps, FetchKeeps, CheckKeeps DEF InstallInv
<1>3. QED BY <1>1, <1>2, PTL DEF InstallSpec

(* A step's outputs and its exit code are those of a release-glz that ended *)
(* by itself, and an Action that ends cleans up; one that dies of itself    *)
(* had no child yet, and fails (main, run and download, index.js).          *)
THEOREM ActionTellsTheTruth == InstallSpec => []StepTellsTheTruth
<1>1. InstallInv => StepTellsTheTruth
  BY DEF InstallInv, EndInv, FetchInv, StepTellsTheTruth
<1>2. QED BY <1>1, InstallInvariance, PTL

(* What was verified, read to its end and found regular is what was named.  *)
LEMMA IsWhatWasNamed ==
  ASSUME InstallInv, child.is = "release-glz"
  PROVE  \E archive \in fetches["archive"].got :
           /\ archive.binary = "file" /\ archive \in WholeArchives
           /\ IF Override
              THEN /\ archive.digest = inputs.checksum
                   /\ \E statement \in fetches["provenance"].got :
                        statement.digest = inputs.provenance /\ statement.subject = archive.digest
              ELSE /\ checksums.version = Version
                   /\ archive.digest = checksums.artifacts[inputs.platform]
<1>1. PICK archive \in Archives :
        /\ fetches["archive"].got = {archive} /\ Blocks = archive.blocks
        /\ Blocks \in Seq({Blocks[i] : i \in DOMAIN Blocks})
        /\ \A i \in DOMAIN Blocks : Blocks[i].size \in Nat
  BY ArchiveIsRead DEF InstallInv
<1>2. InputsHold /\ Verified /\ IsRegular /\ ReadSoFar(Blocks, inventory)
      /\ inventory.next \notin DOMAIN Blocks /\ IsComplete(inventory)
  BY DEF InstallInv, CheckInv
<1>3. archive \in WholeArchives
  BY <1>1, <1>2, ReadIsWhole DEF WholeArchives
<1>4. archive.binary = "file" /\ archive.digest = Expected
  BY <1>1, <1>2 DEF IsRegular, Verified, VerifiesChecksum
<1>5. ASSUME Override
      PROVE  \E statement \in fetches["provenance"].got :
               statement.digest = inputs.provenance /\ statement.subject = inputs.checksum
  <2>1. PICK statement : fetches["provenance"].got = {statement}
    BY <1>5 DEF InstallInv, FetchInv, FilesToFetch, One, Served
  <2>2. QED BY <1>2, <1>5, <2>1 DEF Verified, VerifiesProvenance, VerifiesChecksum
<1>6. ~Override => checksums.version = Version
  BY <1>2 DEF InputsHold, BundledChecksumHolds
<1>7. QED BY <1>1, <1>3, <1>4, <1>5, <1>6 DEF Expected

(* What the Action runs is what its release or the job named by its digest, *)
(* out of a whole archive (acquireBinary and inventoryTarGz, index.js).     *)
THEOREM ActionRunsWhatWasNamed == InstallSpec => []RunsWhatWasNamed
<1>1. InstallInv => RunsWhatWasNamed
  BY IsWhatWasNamed DEF RunsWhatWasNamed
<1>2. QED BY <1>1, InstallInvariance, PTL
==============================================================================

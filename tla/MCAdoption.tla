------------------------------ MODULE MCAdoption ------------------------------
(* A machine on which people set packages of both schemas up, or without a   *)
(* table, and a runner on which a job of the managed workflow runs the       *)
(* Action.  They share no state, so they are checked one at a time.          *)
EXTENDS Setup, Installer

MCEnvNames == {"HEXPM_API_KEY", "ACME_KEY"}
MCSafeRefs == {<<"heads", "main">>, <<"branch", "release-glz/">>, <<"branch", "r/">>}
MCSafePaths == {"CHANGELOG.md", "notes", "CHANGES.md"}
MCYamlScalars == {"main", "release", "release-glz/", "r/"}
Acme == [api_url |-> Url("https", "acme"), repository_url |-> Url("https", "acme"),
         docs_url |-> Url("https", "acme"), credential_env |-> "ACME_KEY", auth |-> "bearer"]
Legacy == [changelog_path |-> "CHANGES.md", release_branch_prefix |-> "r/"]
Unknown == [allow_unknown_api_for |-> {"1.0.0"}]
Strict ==
  [schema |-> 2, compiler |-> 9, registry |-> HexPm,
   approval |-> [DefaultApproval EXCEPT !.separation = "strict"]]
Stray == [compiler |-> 9]
Manifest(table) ==
  [name |-> "package", path |-> {}, tag_prefix |-> {}, table |-> table, version |-> "first",
   words |-> 0]
MCFirstManifests == {Manifest(<<>>), Manifest(Legacy)}
MCTables == {Legacy, Unknown, Strict, Stray}
MCFirstWorkflows == {Missing}
Open == [private |-> FALSE, enterprise |-> FALSE, reviewers |-> 0, prevent_self_review |-> FALSE,
         default_branch_protected |-> TRUE, protected_branches_only |-> TRUE]
MCEnvironments ==
  {Open, [Open EXCEPT !.reviewers = 1, !.prevent_self_review = TRUE]}
MCFirstAudits ==
  {[credential |-> "missing", environment |-> {}]}

Header(path, size) == [is |-> "header", path |-> path, kind |-> "file", size |-> size]
Zero == [is |-> "zero", size |-> 0]
Data == [is |-> "data", size |-> 0]
Rest == [is |-> "rest", size |-> 0]
Whole == <<Header("release-glz", 1), Data, Header("LICENSE", 0), Zero, Zero, Zero, Rest>>
Archive(digest, blocks, binary) == [digest |-> digest, blocks |-> blocks, binary |-> binary]
MCArchives ==
  {Archive("a", Whole, "file"), Archive("b", Whole, "link"),
   Archive("c", <<Header("release-glz", 1), Data, Zero, Rest>>, "file"),
   Archive("d", <<Header("release-glz", 3), Data, Zero, Zero>>, "file"),
   Archive("e", <<Header("release-glz", 0), Header("release-glz", 0), Zero, Zero>>, "file"),
   Archive("f", <<Header("release-glz", 0), Zero, Zero, Data>>, "file"),
   Archive("g", <<Header("release-glz", 0), Zero, Header("LICENSE", 0), Zero>>, "file")}
Statement(digest, subject) == [digest |-> digest, subject |-> subject, is_statement |-> TRUE]
MCStatements == {Statement("p", "a"), Statement("q", "b")}
MCDigests == {"a", "b", "c", "d", "e", "f", "g", "p", "q"}
Bundle(version, digest) ==
  [version |-> version, artifacts |-> [target \in Targets |-> digest]]
MCChecksums ==
  {Bundle("v1", digest) : digest \in {"a", "b", "c", "d", "e", "f", "g", "zeroes"}}
Job(run, given) ==
  [command |-> run, given |-> given, version |-> "", action_ref |-> "0a1b",
   checksum |-> "", provenance |-> "", platform |-> "linux:x64", timeout |-> 1800]
Chosen(provenance) ==
  [Job("release", {"candidate"}) EXCEPT !.version = "v2", !.checksum = "a",
                                        !.provenance = provenance]
MCInputs ==
  {Job("rehearse", {"source-ref", "candidate"}), Job("release", {}),
   Job("plan", {"plan-file", "online"}),
   Chosen("p"), Chosen("q"), Chosen(""),
   [Job("status", {"online", "candidate"}) EXCEPT !.action_ref = "v2"],
   [Job("plan", {"plan-file"}) EXCEPT !.platform = "plan9:x64"],
   [Job("doctor", {"candidate-build"}) EXCEPT !.timeout = 0]}

(* A package that no command loads and nobody touches, and no job. *)
SetupRests ==
  /\ manifest = Manifest(Stray) /\ workflow = Missing /\ record = Missing
  /\ bullets = MaxBullets /\ backup = Missing /\ notes = <<>>
  /\ installed = 0 /\ audit \in FirstAudits
  /\ command = Idle /\ advice = <<>>
  /\ unseen = {} /\ migrated = Missing /\ unrecorded = FALSE
  /\ edits = MaxEdits /\ kills = MaxKills /\ commands = MaxCommands
NoJob ==
  /\ InstallRest(Job("plan", {}), Bundle("v1", "a"))
  /\ phase = "end" /\ exit = 1
Init == (SetupInit /\ NoJob) \/ (SetupRests /\ InstallInit)
Next == (SetupNext /\ UNCHANGED installVars) \/ (InstallNext /\ UNCHANGED setupVars)
Spec ==
  Init /\ [][Next]_<<setupVars, installVars>> /\ SetupFairness /\ InstallFairness
=============================================================================

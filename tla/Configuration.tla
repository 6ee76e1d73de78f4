---------------------------- MODULE Configuration ----------------------------
(***************************************************************************)
(* The [tools.release-glz] table of a manifest: what config.rs reads from  *)
(* it, what it refuses, and what init and migrate render.                  *)
(*                                                                         *)
(* A table is a function from the keys that it holds to their values, as   *)
(* TOML has it.  A configuration has a value for every key.  A name, a ref *)
(* or a path is an element of a small set, of which the constants say what *)
(* the checks of its characters accept.                                    *)
(***************************************************************************)
EXTENDS Integers, Sequences

CONSTANTS
  EnvNames,    \* the names that valid_env_name accepts
  SafeRefs,    \* the refs that validate_git_ref accepts, as <<kind, name>>
  SafePaths,   \* the paths that validate_relative_path accepts
  SafeIds,     \* the hook ids and organization names with safe characters
  PackageNames,\* the names that validate_package_name accepts
  Minimum      \* MINIMUM_SUPPORTED_COMPILER

BUILT_IN_HOOK_ID == "release-glz"
TimeoutSeconds == 1 .. 3600
ProtectedNames ==
  {"HEXPM_API_KEY", "GITHUB_TOKEN", "GH_TOKEN", "ACTIONS_ID_TOKEN_REQUEST_TOKEN",
   "ACTIONS_ID_TOKEN_REQUEST_URL", "ACTIONS_RUNTIME_TOKEN", "GITHUB_ENV", "GITHUB_OUTPUT",
   "GITHUB_PATH", "GITHUB_STATE", "GITHUB_STEP_SUMMARY"}

(* A URL by the parts that the checks tell apart. *)
Url(scheme, host) == [scheme |-> scheme, host |-> host, credentials |-> FALSE, query |-> FALSE]

(* An absent value is an empty set. *)
HexPm ==
  [provider |-> "hexpm", repository |-> {},
   api_url |-> Url("https", "hex.pm"), repository_url |-> Url("https", "repo.hex.pm"),
   docs_url |-> Url("https", "repo.hex.pm"), credential_env |-> "HEXPM_API_KEY",
   auth |-> "hex-token", allow_http_loopback |-> FALSE]
HexPmOrganization(organization) == [HexPm EXCEPT !.repository = {organization}]
DefaultApproval ==
  [normal |-> "release-pr-and-environment", manual |-> "environment", environment |-> "release",
   separation |-> "solo", manual_refs |-> << <<"heads", "main">> >>,
   private_repository_fallback |-> {}]
DefaultOutputs == {"docs", "github_release", "sbom", "provenance"}
NoHooks == [verify |-> <<>>, sidecar |-> <<>>, notify |-> <<>>]
DefaultChangelog == [path |-> "CHANGELOG.md", managed_block |-> TRUE, notes_dir |-> "notes"]

(* ReleaseConfig::default, and the keys that each schema may hold.          *)
RequiredKeys == {"compiler", "registry", "approval"}
StructuredOnly == RequiredKeys \cup {"outputs", "hooks", "changelog", "api_exceptions"}
StructuredKeys ==
  StructuredOnly
  \cup {"release_branch_prefix", "allow_version_zero", "prerelease", "baseline_refs"}
Default ==
  [schema |-> 1, compiler |-> Minimum, registry |-> HexPm, approval |-> DefaultApproval,
   outputs |-> DefaultOutputs, hooks |-> NoHooks, changelog |-> DefaultChangelog,
   api_exceptions |-> <<>>, release_branch_prefix |-> "release-glz/",
   allow_version_zero |-> FALSE, prerelease |-> {}, allow_unknown_api_for |-> {},
   baseline_refs |-> <<>>]
Get(table, key, default) == IF key \in DOMAIN table THEN table[key] ELSE default

-----------------------------------------------------------------------------
(* validate_release_config, check by check.                                 *)
ValidUrl(url, allow_http_loopback) ==
  /\ ~url.credentials /\ ~url.query
  /\ url.host # "none"
  /\ url.scheme = "https" \/ (allow_http_loopback /\ url.scheme = "http" /\ url.host = "loopback")
ValidRegistry(registry) ==
  /\ registry.credential_env \in EnvNames
  /\ registry.repository \subseteq SafeIds
  /\ \A url \in {registry.api_url, registry.repository_url, registry.docs_url} :
       ValidUrl(url, registry.allow_http_loopback)

ValidApproval(approval) ==
  /\ approval.environment # ""
  /\ approval.normal = "release-pr-and-environment"
  /\ approval.manual = "environment"
  /\ approval.private_repository_fallback \subseteq {"workflow-dispatch-digest"}
  /\ approval.manual_refs # <<>>
  /\ \A i \in DOMAIN approval.manual_refs :
       /\ approval.manual_refs[i] \in SafeRefs
       /\ approval.manual_refs[i][1] \in {"heads", "tags"}
       /\ \A j \in DOMAIN approval.manual_refs :
            approval.manual_refs[i] = approval.manual_refs[j] => i = j

AllHooks(hooks) == hooks.verify \o hooks.sidecar \o hooks.notify
ProtectedFrom(name, credential_env) == name \in ProtectedNames \cup {credential_env}
ValidHook(hook, credential_env) ==
  /\ hook.id \in SafeIds \ {BUILT_IN_HOOK_ID}
  /\ hook.argv # <<>>
  /\ hook.timeout_seconds \in TimeoutSeconds
  /\ \A name \in hook.env : name \in EnvNames /\ ~ProtectedFrom(name, credential_env)
ValidHooks(hooks, credential_env) ==
  \A i \in DOMAIN hooks :
    /\ ValidHook(hooks[i], credential_env)
    /\ \A j \in DOMAIN hooks : hooks[i].id = hooks[j].id => i = j

ValidExceptions(exceptions) ==
  \A i \in DOMAIN exceptions :
    /\ exceptions[i].reason # ""
    /\ exceptions[i].baseline \in SafeRefs
    /\ exceptions[i].expires # "malformed"
    /\ \A j \in DOMAIN exceptions : exceptions[i].version = exceptions[j].version => i = j

Valid(config) ==
  /\ {config.changelog.path, config.changelog.notes_dir} \subseteq SafePaths
  /\ <<"branch", config.release_branch_prefix>> \in SafeRefs
  /\ ValidRegistry(config.registry)
  /\ ValidApproval(config.approval)
  /\ ValidHooks(AllHooks(config.hooks), config.registry.credential_env)
  /\ ValidExceptions(config.api_exceptions)
  /\ \A version \in DOMAIN config.baseline_refs : config.baseline_refs[version] \in SafeRefs

-----------------------------------------------------------------------------
(* The flat keys of schema 1 over the defaults, and the tables of schema 2. *)
Flat(table) ==
  [Default EXCEPT
     !.changelog.path = Get(table, "changelog_path", @),
     !.release_branch_prefix = Get(table, "release_branch_prefix", @),
     !.allow_version_zero = Get(table, "allow_version_zero", @),
     !.prerelease = Get(table, "prerelease", @),
     !.allow_unknown_api_for = Get(table, "allow_unknown_api_for", @),
     !.baseline_refs = Get(table, "baseline_refs", @)]

Structured(table) ==
  [Default EXCEPT
     !.schema = 2, !.compiler = table.compiler,
     !.registry = table.registry, !.approval = table.approval,
     !.outputs = Get(table, "outputs", @), !.hooks = Get(table, "hooks", @),
     !.changelog = Get(table, "changelog", @),
     !.api_exceptions = Get(table, "api_exceptions", @),
     !.release_branch_prefix = Get(table, "release_branch_prefix", @),
     !.allow_version_zero = Get(table, "allow_version_zero", @),
     !.prerelease = Get(table, "prerelease", @),
     !.baseline_refs = Get(table, "baseline_refs", @),
     !.allow_unknown_api_for =
       {Get(table, "api_exceptions", <<>>)[i].version :
          i \in DOMAIN Get(table, "api_exceptions", <<>>)}]

IsStructured(table) == "schema" \in DOMAIN table /\ table.schema = 2
Reads(table) == IF IsStructured(table) THEN Structured(table) ELSE Flat(table)

(* Whether the table can be read.  A key of schema 2 needs `schema = 2`,    *)
(* which in turn refuses every key that it does not know.                   *)
Loads(table) ==
  /\ IF IsStructured(table)
     THEN RequiredKeys \subseteq DOMAIN table /\ DOMAIN table \subseteq StructuredKeys \cup {"schema"}
     ELSE Get(table, "schema", 1) = 1 /\ DOMAIN table \cap StructuredOnly = {}
  /\ Valid(Reads(table))

(* The rest of the manifest that is read: the name, and the path and tag    *)
(* prefix of the repository, when it has them.                              *)
LoadsManifest(text) ==
  /\ text.name \in PackageNames
  /\ text.path \subseteq SafePaths
  /\ \A prefix \in text.tag_prefix : <<"branch", prefix>> \in SafeRefs
  /\ Loads(text.table)

-----------------------------------------------------------------------------
(* The table that migrate writes for a schema 1 configuration.  A channel   *)
(* and refs are written when there are any; legacy tables hold no hooks.    *)
MigratedKeys(config) ==
  (StructuredKeys \cup {"schema"})
  \ ({"hooks", "api_exceptions"}
     \cup (IF config.prerelease = {} THEN {"prerelease"} ELSE {})
     \cup (IF config.baseline_refs = <<>> THEN {"baseline_refs"} ELSE {}))
SchemaTwo(config, compiler) ==
  [key \in MigratedKeys(config) |->
     CASE key = "schema" -> 2 [] key = "compiler" -> compiler [] OTHER -> config[key]]
Migratable(config) == config.allow_unknown_api_for = {}

(* The registry of an init profile, if its options are those of the profile. *)
Organization(organization) == {HexPmOrganization(name) : name \in organization \cap SafeIds}
Private(fields) ==
  {[provider |-> "hex-compatible", repository |-> {}, api_url |-> f.api_url,
    repository_url |-> f.repository_url, docs_url |-> f.docs_url,
    credential_env |-> f.credential_env, auth |-> f.auth,
    allow_http_loopback |-> FALSE] : f \in fields}
InitializationRegistry(profile, organization, fields) ==
  CASE profile = "public" /\ organization = {} /\ fields = {} -> {HexPm}
    [] profile = "organization" /\ fields = {} -> Organization(organization)
    [] profile = "private" /\ organization = {} -> Private(fields)
    [] OTHER -> {}

(* What init asks for, and the table that it writes for a package without  *)
(* one: everything that no setting decides is fixed.                        *)
Initialized(settings) ==
  [key \in (StructuredKeys \cup {"schema"}) \ {"prerelease"} |->
     CASE key = "schema" -> 2
       [] key = "compiler" -> settings.compiler
       [] key = "allow_version_zero" -> settings.allow_version_zero
       [] key = "registry" -> settings.registry
       [] key = "approval" -> [DefaultApproval EXCEPT
                                 !.manual_refs = << <<"heads", settings.default_branch>> >>]
       [] OTHER -> Default[key]]
=============================================================================

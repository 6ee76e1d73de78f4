SPECIFICATION Spec
CONSTANTS
  EnvNames <- MCEnvNames
  SafeRefs <- MCSafeRefs
  SafePaths <- MCSafePaths
  SafeIds = {"acme"}
  PackageNames = {"package"}
  Minimum = 9
  FirstManifests <- MCFirstManifests
  FirstWorkflows <- MCFirstWorkflows
  FirstAudits <- MCFirstAudits
  Tables <- MCTables
  ZeroVersions = {"first"}
  Organizations = {}
  PrivateFields = {}
  DefaultBranch = "main"
  YamlScalars <- MCYamlScalars
  Compilers = {10}
  Pins = {"a"}
  OtherPins = {"other"}
  Environments <- MCEnvironments
  MaxBullets = 2
  MaxEdits = 1
  MaxKills = 1
  MaxCommands = 1
  Inputs <- MCInputs
  Checksums <- MCChecksums
  Archives <- MCArchives
  Statements <- MCStatements
  Digests <- MCDigests
  Versions = {"v1", "v2"}
  Release = "v1"
  SafePath = {"release-glz", "LICENSE"}
  ARCHIVE_ENTRY_LIMIT = 3
  DOWNLOAD_LIMIT = 2
  MAX_REDIRECTS = 1
  ChildCodes = {0, 4}
INVARIANTS LegacyIsKept RunsWhatWasNamed StepTellsTheTruth
PROPERTIES EditsSurvive AdviceSettles ActionEnds
CHECK_DEADLOCK FALSE

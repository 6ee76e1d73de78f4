CONSTANTS
  sbom = sbom
  announce = announce
  mirror = mirror
  Assets = {sbom}
  AssetList <- OneAsset
  Hooks = {announce, mirror}
  HookList <- BothHooks
  WantsRelease = TRUE
  WantsDocs = TRUE
  Rivals = {"tag", "package", "docs", "release", "asset", "extra"}
  MaxReleases = 2
  Approvals = {TRUE, FALSE}
  MaxFaults = 2
SPECIFICATION Spec
INVARIANTS
  SuccessIsTrue
PROPERTIES
  HeldStays
  AppliedOnce
  KeepsPromise

CONSTANTS
  sbom = sbom
  announce = announce
  mirror = mirror
  Assets = {}
  AssetList <- NoAssets
  Hooks = {announce, mirror}
  HookList <- BothHooks
  WantsRelease = FALSE
  WantsDocs = FALSE
  Rivals = {}
  MaxReleases = 1
  Approvals = {TRUE}
  MaxFaults = 2
SPECIFICATION Spec
INVARIANT OptionalOnlyDiagnoses

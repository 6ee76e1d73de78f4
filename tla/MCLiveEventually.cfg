CONSTANTS
  sbom = sbom
  announce = announce
  mirror = mirror
  Assets = {sbom}
  AssetList <- OneAsset
  Hooks = {mirror}
  HookList <- RequiredHook
  WantsRelease = TRUE
  WantsDocs = TRUE
  Rivals = {}
  MaxReleases = 2
  Approvals = {TRUE}
  MaxFaults = 2
SPECIFICATION FairSpec
PROPERTY EventuallyReleased

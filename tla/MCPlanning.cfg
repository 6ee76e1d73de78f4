SPECIFICATION MCSpec
CONSTANTS
  MaxNumber = 2
  Contents <- MCContents
  InterfaceOf <- MCInterfaceOf
  Channels = {"alpha", "beta"}
  HandContents = {"constructor"}
  Messages <- MCMessages
  Asked <- MCAsked
  FirstContents <- MCFirstContents
  FirstVersions <- MCFirstVersions
  AllowsZero = TRUE
  SearchLimit = 2
  MaxCommits = 4
  MaxReleases = 2
  Planned = {1, 2}
  MaxAttributed = 2
  FirstBooks <- MCBooks
  MaxPushes = 3
  MaxNotes = 2
INVARIANTS
  CompatibleUpgradesBuild
  ChangesAreTold
PROPERTIES
  VersionsMoveForward
  NothingIsMissed
  ReleaseSettles
CHECK_DEADLOCK FALSE

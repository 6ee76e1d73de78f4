SPECIFICATION MCSpec
CONSTANTS
  MaxNumber = 2
  Contents <- MCContents
  InterfaceOf <- MCInterfaceOf
  Channels = {"alpha", "beta"}
  HandContents = {"base", "constructor"}
  Messages <- MCMessages
  Asked <- MCAsked
  FirstContents <- MCFirstContents
  FirstVersions <- MCFirstVersions
  AllowsZero = TRUE
  SearchLimit = 2
  MaxCommits = 6
  MaxReleases = 3
  Planned = {1, 2}
  MaxAttributed = 2
  FirstBooks <- MCBooks
  MaxPushes = 3
  MaxNotes = 2
PROPERTY TrainsCountUp
CHECK_DEADLOCK FALSE

SPECIFICATION FairSpec
CONSTANTS
  Skew = 3
  MaxTime = 20
  Commits <- MCCommits
  Merges = {"merge"}
  Content <- MCContent
  Environment <- MCEnvironment
  ManualRefs <- MCManualRefs
  Heads <- MCHeads
  Main = "main"
  Builds <- MCBuilds
  Skews <- MCSkews
  Now = 8
  Delays <- MCDelays
  Lifetime = 4
  Starts = {"push", "prepare", "promote"}
  MaxRuns = 2
  MaxAttempts = 2
  MaxUploads = 2
  MaxRestarted = 1
  MaxExpired = 1
INVARIANTS
  PublishedAsApproved
  OneCandidate
CHECK_DEADLOCK FALSE
PROPERTY DeservingRunsPublish

CONSTANTS
  fix = fix
  feature = feature
  none = none
  PlanOf <- SamePlan
  BuildOf <- SameBuild
  VersionOf <- Bump
  NoFiles = none
  Merges = TRUE
  MaxPulls = 2
  MaxPeople = 1
  MaxKills = 1
SPECIFICATION FairSpec
INVARIANTS
  TypeOK
  IntentOfItsHead
  AuthorizedWasRehearsed
  OneOpenPull
PROPERTIES
  WorkOfPeopleStays
  EventuallySettled
CHECK_DEADLOCK FALSE

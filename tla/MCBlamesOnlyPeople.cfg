CONSTANTS
  fix = fix
  feature = feature
  none = none
  PlanOf <- SamePlan
  BuildOf <- SameBuild
  VersionOf <- Bump
  NoFiles = none
  Merges = FALSE
  MaxPulls = 2
  MaxPeople = 0
  MaxKills = 1
SPECIFICATION Spec
PROPERTY BlamesOnlyPeople
CHECK_DEADLOCK FALSE

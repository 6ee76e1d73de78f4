SPECIFICATION Spec
CONSTANTS
  MAX_MANIFEST_BYTES = 3
  MAX_RELEASE_NOTES_BYTES = 3
  MAX_COUNT = 2
  Policies <- MCPolicies
  Survivors = {"none", "holds", "quiet"}
  NotesOfBuild = {2, 3, 4}
  SPAWN_ATTEMPTS = 3
  MaxTouches = 2
  MaxAlterations = 2
INVARIANTS
  SealedWasReviewed
  SealedVerifies
  PublishedIsSound
PROPERTY RehearsalEnds
CHECK_DEADLOCK FALSE

\* Releases of three objects in every world, and observations of one
\* object where the run recorded three, under the fairness of the shell's loop.
CONSTANTS
  N = 3
  Shapes <- TagFirstShapes
  Counts = {1}
SPECIFICATION FairSpec
INVARIANTS
  CallsAreSound
  ReportsAreTrue
  PromptRunsConverge
PROPERTIES
  LifecycleOrder
  Terminates
CHECK_DEADLOCK FALSE

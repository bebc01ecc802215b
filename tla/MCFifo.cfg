CONSTANTS
  Word <- MCWord
  Zero <- MCZero
  Size = 4
SPECIFICATION Spec
INVARIANTS FlagsTellEqualPointers CountFollowsOccupancy
PROPERTIES ImplementsQueue AckMeansStored

SPECIFICATION Spec
CONSTANTS
  TicksPerSecond = 2
  Lists <- ShortLists
  MaxItems = 5
  MaxFaults = 1
  DefaultPerPage = 2
  MaxPerPage = 3
  Quota = 1
  Window = 6
CHECK_DEADLOCK FALSE
INVARIANTS
  TypeOK
  WalkIsTheList
  WalkMissesNothing
  NothingForeign
  RefusedAtMostTwice
  IdleUnderASecond
PROPERTY
  WalkCompletes

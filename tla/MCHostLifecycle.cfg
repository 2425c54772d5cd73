SPECIFICATION Spec
CONSTANTS
  Version = {v2}
  MaxBoot = 3
  MaxEnroll = 2
  MaxNet = 2
  None = None
CONSTRAINT Explored
INVARIANTS TypeOK RemovedIsClean AlarmIsTrue
PROPERTIES UncleanIsAudited
CHECK_DEADLOCK FALSE

SPECIFICATION Spec
CONSTANTS
  MaxRun = 3
  MaxVersion = 2
  MaxOrphan = 1
CONSTRAINT Guarded
INVARIANTS TypeOK OneUpdater
PROPERTIES VerdictIsReal NoChangeWithoutDump VerdictStands
\* Once every request is spent and every process has ended the model rests.
CHECK_DEADLOCK FALSE

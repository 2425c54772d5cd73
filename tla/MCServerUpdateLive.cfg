SPECIFICATION FairSpec
CONSTANTS
  MaxRun = 1
  MaxVersion = 2
  MaxOrphan = 1
PROPERTIES NeverWedged
\* Once every request is spent and every process has ended the model rests.
CHECK_DEADLOCK FALSE

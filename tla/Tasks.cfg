SPECIFICATION FairSpec
CONSTANTS
  ProgramSet <- AllPrograms
  MaxJobs = 5
  MayThrow = TRUE
INVARIANTS
  JobsEndOnce
  CountIsLiveJobs
  NoLiveJobsAtExit
PROPERTIES
  StopEndsJobs
CHECK_DEADLOCK FALSE

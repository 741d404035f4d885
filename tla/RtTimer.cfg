SPECIFICATION FairSpec
CONSTANTS
  Timers = {"cln_i", "cln_t", "master"}
  Threads <- AppThreads
  NoTimer = "none"
  Periodic = {"cln_i"}
  Owns <- AppOwns
  Stoppable = {"master"}
  IsrTimers = {"cln_t"}
  StartedBy <- AppStarts
  StopsSelf = {"master", "cln_t"}
  Delays = {1,2}
  TickMax = 10
  MaxLate = 1
INVARIANTS TypeOK Sorted InsertedOnce FlagsMatch
PROPERTIES AllFire CheckEnds ImplementsService

SPECIFICATION Spec
CONSTANTS
  Timers = {"cln_i", "cln_t", "master"}
  Threads <- AppThreads
  NoTimer = "none"
  Periodic = {"cln_i"}
  Owns <- AppOwns
  Stoppable = {"master"}
  IsrTimers = {"cln_t", "master"}
  StartedBy <- AppStarts
  StopsSelf = {"master"}
  Delays = {1, 2}
  TickMax = 11
  MaxLate = 1
INVARIANT InsertedOnce

SPECIFICATION FairSpec
CONSTANTS
  Own = 1
  Others = {2}
  NumIds = 2
  FrameLen = 2
  RingSize = 3
  Faults = {"corrupt", "stall", "noise", "outrun", "hurry", "early", "max", "burst", "reinit", "boot"}
  MaxFaults = 2
INVARIANTS TypeOK AssertsHold Watched SingleEvent
PROPERTIES ImplementsServer RequestServed
CHECK_DEADLOCK FALSE

SPECIFICATION Spec
CONSTANTS
  modbus_a = modbus_a
  msg_t = msg_t
  modbus_m = modbus_m
  trans_t = trans_t
  Requesters = {modbus_a, msg_t}
  Timed = {msg_t}
  Poll = modbus_m
  Trans = trans_t
  Prio <- AppPrio
  Addrs = {1}
  NumIds = 1
  FrameLen = 1
  SemMod = 3
  MaxFaults = 2
  Faults = {"loss", "corrupt", "outrun", "late", "stall", "noise", "early", "max", "starved", "boot"}
INVARIANTS
  Watched
  TransmitEntry
CHECK_DEADLOCK FALSE

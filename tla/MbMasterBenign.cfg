SPECIFICATION FairSpec
CONSTANTS
  modbus_a = modbus_a
  msg_t = msg_t
  modbus_m = modbus_m
  trans_t = trans_t
  Requesters = {modbus_a, msg_t}
  Timed = {msg_t}
  Poll = modbus_m
  Trans = trans_t
  Prio <- AppPrio
  Addrs = {0, 1, 9}
  NumIds = 2
  FrameLen = 2
  SemMod = 65536
  MaxFaults = 0
  Faults = {"loss", "corrupt", "outrun"}
INVARIANTS
  TypeOK
  OneHand
  OwnVerdict
  SingleEvent
  AssertsHold
PROPERTIES
  FillAtRest
  RequestReturns
  ImplementsRequest

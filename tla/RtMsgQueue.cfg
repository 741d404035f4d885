SPECIFICATION FairSpec
CONSTANTS
  Senders = {"menu", "main"}
  Receivers = {"msg_t", "other"}
  Server = "msg_t"
  Msgs = {"m1", "m2"}
  NoMsg = "none"
  Flag = "PRIO"
  Priority <- ByPriority
  PoolSize = 41
  MsgSize = 14
  MaxUrgent = 1
INVARIANTS TypeOK ListsProper NodesAccounted NoLostWakeup
PROPERTIES EveryMessageLeaves ImplementsQueue

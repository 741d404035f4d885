SPECIFICATION FairSpec
CONSTANTS
  s_Menu <- PartOfMenu
  STAGE_MAX = 5
  INDEX_MAX = 4
  LINE_MAX = 4
  Garbage = {255}
  RelayNos = {1}
  Values = {0, 1, 2}
  Half = 2
  Limits = {1, 2}
  Delays = {0}
  Intervals = {2, 3}
  Times = {1}
  TicksPerSecond = 2
INVARIANTS TypeOK
PROPERTIES AlarmComes PumpStops

SPECIFICATION MenuSpec
CONSTANTS
  s_Menu <- AppMenu
  STAGE_MAX = 5
  INDEX_MAX = 30
  LINE_MAX = 4
  Garbage <- Byte
INVARIANTS Shown
PROPERTIES ImplementsTree

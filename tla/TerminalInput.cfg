SPECIFICATION Spec
CONSTANTS
  Terminals = {1, 2}
  Processes = {1}
  KEYBOARD_MAX_SZ = 3
  TAB_SIZE = 2
  Chars = {"x"}
  NBytes = {1, 5}
CONSTRAINT OthersEmpty
INVARIANTS
  TypeOK
  BufferHoldsLine
  LineIntact

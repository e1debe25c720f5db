SPECIFICATION Spec
CONSTANTS
  Terminals = {1}
  Processes = {1}
  KEYBOARD_MAX_SZ = 3
  TAB_SIZE = 2
  Chars = {"x"}
  NBytes = {5}
INVARIANT
  EnterEndsTyping

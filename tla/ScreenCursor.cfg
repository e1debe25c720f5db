SPECIFICATION Spec
CONSTANTS
  Terminals = {1, 2}
  NUM_COLS = 2
  NUM_ROWS = 2
  MessageSizes = {}
  Readers = {1}
  Raising = {}
  MaxTyped = 2
INVARIANT
  ReadKeepsCursor

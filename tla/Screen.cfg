SPECIFICATION Spec
CONSTANTS
  Terminals = {1, 2}
  NUM_COLS = 2
  NUM_ROWS = 2
  MessageSizes = {2}
  Readers = {1}
  Raising = {1}
  MaxTyped = 2
CONSTRAINTS NoneDisturbed ReadsApart
INVARIANTS
  TypeOK
  ShowsText

SPECIFICATION LiveSpec
\* An overwritten frame that is resumed may stop the machine for good.
CHECK_DEADLOCK FALSE
CONSTANTS
  MAX_NUM_PROCESSES = 3
  MAX_BOOT_NUM_SHELLS = 3
  ExitStatus = {1}
  MinShells = 0
CONSTRAINT NoneRaced
INVARIANT
  ShellsCounted
PROPERTIES
  EveryTerminalRuns
  HaltCompletes

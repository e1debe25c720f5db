SPECIFICATION Spec
\* An overwritten frame that is resumed may stop the machine for good.
CHECK_DEADLOCK FALSE
CONSTANTS
  MAX_NUM_PROCESSES = 2
  MAX_BOOT_NUM_SHELLS = 2
  ExitStatus = {1}
  MinShells = 0
INVARIANT
  LaunchUninterrupted

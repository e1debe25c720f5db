SPECIFICATION Spec
\* An overwritten frame that is resumed may stop the machine for good.
CHECK_DEADLOCK FALSE
CONSTANTS
  MAX_NUM_PROCESSES = 4
  MAX_BOOT_NUM_SHELLS = 2
  ExitStatus = {1}
  MinShells = 0
INVARIANTS
  TypeOK
  CpuMatches
  UserPageIsolated
  ChainsPartition
  FreshFrames
  FramesSafe
  OutputFollowsScreen
  VidmapNotForeign
PROPERTY
  ImplementsStacks

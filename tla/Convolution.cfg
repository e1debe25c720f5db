SPECIFICATION Spec
CONSTANTS
    Versions = {"simple", "tiled", "constmem", "fused"}
    Shapes <- MCShapes
    TILE_WIDTH = 2
INVARIANTS
    ComputesConvolution
    RaceFree
PROPERTIES
    Finishes
CHECK_DEADLOCK FALSE

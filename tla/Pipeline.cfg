SPECIFICATION PipelineSpec
CONSTANTS
    W = 3
    Regs = {0, 1}
    Instrs <- MCInstrs
    Nothing = Nothing
    PaddedCode = TRUE
PROPERTIES
    ImplementsIsa
    Completes
CHECK_DEADLOCK FALSE

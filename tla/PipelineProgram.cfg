SPECIFICATION PipelineSpec
CONSTANTS
    W = 3
    Regs = {0, 1}
    Instrs <- MCInstrs
    Nothing = Nothing
    PaddedCode = FALSE
PROPERTIES
    ImplementsIsa
CHECK_DEADLOCK FALSE

SPECIFICATION CommandsSpec
CONSTANTS
    COMMAND_NAME_SZ = 3
    COMMAND_ARG_SZ = 5
    NAME_SIZE = 4
    HALF_KB = 2
    BUFSIZE = 3
    LINE_SZ = 8
    TypedLines <- MCTypedLines
    Exit <- MCExit
    Directory <- MCDirectory
    Executable <- MCExecutable
    Texts <- MCTexts
    Shells = 0
INVARIANTS
    RestIsTheArgument

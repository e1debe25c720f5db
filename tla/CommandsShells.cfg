SPECIFICATION CommandsSpec
CONSTANTS
    COMMAND_NAME_SZ = 3
    COMMAND_ARG_SZ = 5
    NAME_SIZE = 4
    HALF_KB = 2
    BUFSIZE = 3
    LINE_SZ = 8
    TypedLines <- MCShellLines
    Exit <- MCExit
    Directory <- MCShellDirectory
    Executable <- MCExecutable
    Texts <- MCTexts
    Shells = 2
INVARIANTS
    RunsTheCommand

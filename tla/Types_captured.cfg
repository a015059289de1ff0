SPECIFICATION Spec
CONSTANTS
    Sources <- Captured
    Enums <- MCEnums
    Imports <- MCImports
    ConstrainModule <- constrain
    Exhaustive <- check_when_exhaustive
    EndOf <- Ends
    Grounds <- MCGrounds
INVARIANT AcceptedProgramsRun

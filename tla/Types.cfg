SPECIFICATION Spec
CONSTANTS
    Sources <- MCSources
    Enums <- MCEnums
    Imports <- MCImports
    ConstrainModule <- constrain
    Exhaustive <- check_when_exhaustive
    EndOf <- Ends
    Grounds <- MCGrounds
INVARIANTS SolutionUnifies SolutionIsMostGeneral AcceptedProgramsRun

SPECIFICATION Spec
CONSTANTS
    LowerSource <- lower
    RunSource <- Meaning
    RunIR <- Observe
    Programs <- MCPrograms
    Fuel = 120
INVARIANTS
  LoweringKeepsMeaning
  AwaitKeepsMeaning
  LoopsKeepMeaning
  InPlaceKeepsMeaning
  UnboxedKeepsMeaning

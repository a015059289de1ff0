SPECIFICATION ToolingSpec
CONSTANTS
    NoText = NoText
    Names = {"mid", "low", "mid.test", "main", "client", "api"}
    StdExports <- MCStd
    AutoImports <- MCAuto
    TestOf <- MCTestOf
    TierOf <- MCTier
    Marker = "pluma"
    Docs <- MCDocs
    Sessions <- MCSessionsAcross
    Texts <- MCTexts
    Unsaved <- MCUnsaved
    MaxRev = 2
    MaxPending = 1
    Kinds = {"wired", "plain", "broken", "leak"}
    Wireable = {"wired"}
    Project <- MCProject
    Pages = {"tab"}
    MaxSaves = 3
PROPERTY EditorFeedback
CHECK_DEADLOCK FALSE

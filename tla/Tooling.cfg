SPECIFICATION ToolingSpec
CONSTANTS
    NoText = NoText
    Names = {"mid", "low", "mid.test", "main", "client", "api"}
    StdExports <- MCStd
    AutoImports <- MCAuto
    TestOf <- MCTestOf
    TierOf <- MCTier
    Marker = "pluma"
    Docs <- MCDocs
    Sessions <- MCSessions
    Texts <- MCTexts
    Unsaved <- MCUnsaved
    MaxRev = 2
    MaxPending = 1
    Kinds = {"wired", "plain", "broken", "leak"}
    Wireable = {"wired"}
    Project <- MCProject
    Pages = {"tab"}
    MaxSaves = 3
PROPERTIES
    EditorFeedback
    SaveIsServed
    PageFollows
CHECK_DEADLOCK FALSE

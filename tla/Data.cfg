SPECIFICATION DataSpec
CONSTANTS
    k1 = k1
    k2 = k2
    k3 = k3
    k4 = k4
    Regs = {"a", "b"}
    Keys = {k1, k2, k3, k4}
    Vals = {1, 2}
    HashOf <- MCHashOf
    ChunkBits = 2
    HashBits = 3
    RegOrder <- MCRegOrder
    Pairs <- MCPairs
    DictPlans <- MCDictPlans
    ListVars = {"x", "y"}
    Elems = {1, 2}
    MaxLen = 3
    ListPlans <- MCListPlans
    RecordShapes <- MCShapes
    EnumDefs <- MCEnums
    Signatures <- MCSignatures
    SmallInts <- MCSmall
    SampleInts <- MCInts
    SampleBytes <- MCBytes
    SampleFloats = {0, 31, 32, 63}
    Depth = 3
INVARIANTS
    DictsAreValues
    ListsAreValues
    NoDecodeUnderSkew
    ArgumentArrives
    OutcomeIsAnswer
CHECK_DEADLOCK FALSE

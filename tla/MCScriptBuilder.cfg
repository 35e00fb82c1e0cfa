CONSTANTS
    Base = 8
    Registers = {0, 1, 2, 3, 4}
    Names <- MCNames
    Utf8 <- MCUtf8
    Arity <- MCArity
    Labels = {"loop", "end"}
    Primitives <- MCPrimitives
    Calls <- MCCalls
    Nfts <- MCNfts
    MaxWeight = 6
SPECIFICATION Spec
INVARIANTS
    ScriptReadsBack
    CallsAreWanted
    CallsKeepRegisters
CHECK_DEADLOCK FALSE

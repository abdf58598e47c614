CONSTANTS
    Nil = Nil
    Instruments <- MCInstruments
    Home <- SPY
    Listed <- MCListed
    Classify <- MCClassify
    LegKinds = {"option", "today", "future"}
    MaxLegs = 2
    MaxOps = 3
    Names = {"n1", "n2"}
    Cap = 1

SPECIFICATION WorkspaceSpec

CHECK_DEADLOCK FALSE

INVARIANT NothingForAnEmptyPosition

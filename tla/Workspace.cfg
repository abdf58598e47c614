CONSTANTS
    Nil = Nil
    Instruments <- MCInstruments
    Home <- SPY
    Listed <- MCListed
    Classify <- MCClassify
    LegKinds = {"option", "today", "future"}
    MaxLegs = 2
    MaxOps = 3
    Names = {"n1", "n2"}
    Cap = 1

SPECIFICATION FairWorkspaceSpec

\* The user may stop, and every request may have been answered.
CHECK_DEADLOCK FALSE

INVARIANTS
    WorkspaceTypeOK
    PositionIsOfTheHeader ShownAnswerIsForTheLegs ChainIsTheOneSelected
    OneOutcomeForTheLastUtterance
    TreePricesAreForTheTicket
    OneRowPerName

PROPERTIES
    TypedRateStays PricedPositionIsAnswered PendingExpiryIsResolved

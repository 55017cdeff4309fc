SPECIFICATION MCSpec
CONSTANTS
    Heads = {h1, h2}
    Entries = {e1, e2, e3, e4}
    NULL = NULL
    WordSize = 1000
    FontWidth = 3
    FontHeight = 2
    EarlyModes <- MCEarlyModes
    Reported <- MCReported
    Messages <- MCMessages
    TextMessages <- MCTextMessages
    Prints = 3
    Madts <- MCMadts
    IrqLines = 3
INVARIANTS BackwardAgrees ScreenShowsText 
PROPERTY ImplementsLists
CHECK_DEADLOCK FALSE

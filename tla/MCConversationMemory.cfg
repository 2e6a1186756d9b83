SPECIFICATION FairSpec
CONSTANTS
    k1 = k1
    t1 = t1
    NoTurn = NoTurn
    Turns = {t1, t2}
    Convs = {k1}
    ConvOf <- MCConvOf
    Size <- MCSize
    Backends = {"file", "mongo"}
    Cap = 2
    Keep = 2
    GuestKnown = {t1}
    HasSummarizer = TRUE
INVARIANTS ThreadInv AckedSurvives
PROPERTIES LastTurnVerbatim UpdateReturns

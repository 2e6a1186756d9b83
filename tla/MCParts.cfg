SPECIFICATION PartSpec
CONSTANTS
    Callers = {c1, c2, c3}
    Retries = 1
    TripAfter = 2
    Payers = {g1, g2}
    Costs = {1, 2}
    CapUSD = 2
    Default = TRUE
    MaxCalls = 5
    MaxDay = 3
    MaxFlips = 2
    MaxRestarts = 1
    NotFound = NotFound
    Reservations = {r1, r2}
    Handlers = {h1, h2}
    Ledgers = {"file", "mongo"}
    MaxManaged = 3
    MaxUpdates = 3
    Listings = {l1, l2}
    Unresolved = Unresolved
    Inputs = {l1, Unresolved}
    MaxTurns = 2
    MaxParallel = 2
    Nothing = Nothing
INVARIANTS
    ProbeInv ResultMeans
    BucketInv OneTripPerBucket OverCapIsDark
     
    HoldInv PromisesBacked
PROPERTY BreakerRecovers

SPECIFICATION ConversionsSpec
CONSTANTS
    NotFound = NotFound
    Reservations = {r1}
    Handlers = {h1, h2}
    Ledgers = {"mongo"}
    MaxManaged = 1
    MaxUpdates = 2
INVARIANT CountedOnce
CHECK_DEADLOCK FALSE

SPECIFICATION Spec
CONSTANTS
    k1 = k1
    p1 = p1
    p2 = p2
    e1 = e1
    Keys = {k1}
    Posts = {p1, p2, e1}
    EmptyPosts = {e1}
    KeyOf <- MCKeyOf
    QueueSize = 1
    Workers = 1
    Stores = {"redis"}
    Fixtures <- NoFixtures
    MaxDeliveries <- FirstTwice
    MaxUpsets = 1
INVARIANT TurnsEndInOutcome
CHECK_DEADLOCK FALSE

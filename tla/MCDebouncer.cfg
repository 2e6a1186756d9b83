SPECIFICATION FairSpec
CONSTANTS
    k1 = k1
    k2 = k2
    p1 = p1
    p2 = p2
    q1 = q1
    Keys = {k1, k2}
    Posts = {p1, p2, q1}
    KeyOf <- MCKeyOf
    Window = 2
    MaxWait = 3
    MaxAccepted = 4
INVARIANTS WakeupInv MessagesConserved TurnsOrdered
PROPERTY ImplementsCollector

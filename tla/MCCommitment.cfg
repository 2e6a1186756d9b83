SPECIFICATION Spec
CONSTANTS
    h1 = h1
    t1 = t1
    t2 = t2
    offerA = offerA
    offerB = offerB
    Turns = {t1, t2}
    MaxPosts = 3
    PageSize = 3
    Cap = 3
    Keep = 2
    HostPosts = {h1}
    Bodies = {offerA, offerB}
    Offers = {offerA, offerB}
    GuestBodies <- GuestReplies
SYMMETRY Symmetry
INVARIANTS ViewInv PassedMeansHeld BackedOfferFlows HostOfferSeen
CHECK_DEADLOCK FALSE

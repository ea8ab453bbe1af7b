CONSTANTS
    Alice = Alice
    Bob = Bob
    l1 = l1
    l2 = l2
    m1 = m1
    m2 = m2
    People = {Alice, Bob}
    Buyer = Alice
    Listings = {l1, l2}
    Movers = {m1, m2}
    MaxMoves = 3
SPECIFICATION Spec
INVARIANTS
    OneValidPerPlace
    DirectoryFollowsOwner
    
    PaidGetsTheTicket
SYMMETRY Interchangeable
CHECK_DEADLOCK FALSE

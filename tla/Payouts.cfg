CONSTANTS
    o1 = o1
    o2 = o2
    Orders = {o1, o2}
    Face <- TwoFaces
    Refundable = {o1}
    GatewayFee <- FeeOfThree
    Clients = {c1}
    Settler = settler
    HouseDelay = 7
    Days = {2}
    Policies <- ProducerPays
    MaxChanges = 1
SPECIFICATION FairSpec
INVARIANTS
    CreditsCoverThePayout
PROPERTIES
    DecisionsStand
    RowCatchesUp
    PayoutFollowsTheEvent
CHECK_DEADLOCK FALSE

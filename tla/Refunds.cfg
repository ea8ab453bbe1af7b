CONSTANTS
    o1 = o1
    t1 = t1
    t2 = t2
    h1 = h1
    h2 = h2
    Orders = {o1}
    Tickets = {t1, t2}
    OrderOf <- OneOrder
    Price <- TwoPrices
    Face <- RoundFace
    Fee <- TenPerCent
    Handlers = {h1}
    Workers = {w1}
    Choices <- Some
    Goers = {t2}
    MaxRefunds = 3
    MaxAttempts = 2
    Faults <- AnyFault
    KeyedNotices = TRUE
    NoOrder = NoOrder
SPECIFICATION FairSpec
INVARIANTS
    ReturnedOnce
    CountersFollowTickets
    NothingHeldForNothing
PROPERTIES
    JobsEnd
    ImplementsMoneyBack
CHECK_DEADLOCK FALSE

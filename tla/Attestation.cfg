CONSTANTS
    Tickets = {t1, t2}
    HalfTickets = {t2}
    Presold = {t1}
    Shares = {s1, s2}
    Percent <- HalfOfTheShares
    Quotas = {50}
    Capacity = 2
    Owner = owner
    Timer = timer
    Worker = worker
    Handlers = {h1}
    Editors = {e1}
    MaxByHand = 1
SPECIFICATION FairSpec
INVARIANTS
    OneFirstVersion
PROPERTIES
    NewestIsTrue
    NoVersionAmidTheBatch
    ClosingEnds
CHECK_DEADLOCK FALSE

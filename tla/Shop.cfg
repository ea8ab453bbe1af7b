\* Two buyers: a queue of two lots and one behind a link, a coupon for one order; or one lot edited.
CONSTANTS
    Early = Early
    Late = Late
    Box = Box
    Vip = Vip
    Links = {Vip}
    Buyers = {Ana, Bia}
    None = None
    CouponMax = 1
    CouponPct = 1000
    Attempts = 3
    EventStart = 1
    MaxTime = 1
    MaxInstallments = 12
    MinInstallmentCents = 500
    Queue <- ThreeLots
    Templates <- SomeRows
    LinkLot <- VipOpensTheBox
    MaxUses <- VipThrice
    LinkEnds <- VipEnds
    Patches <- DownToOne
    Asks <- SomeAsks
    Pix <- PixFee
    Tiers <- CardTiers
SPECIFICATION MCSpec
INVARIANTS
    OfferIsTheQueue
    StockAddsUp
    BooksAddUp
SYMMETRY Interchangeable
CHECK_DEADLOCK FALSE

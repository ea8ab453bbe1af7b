\* One buyer, one order, two notices of its payment and a courtesy, against the two sweepers.
CONSTANTS
  s1 = s1 s2 = s2 b1 = b1 b2 = b2 l1 = l1 l2 = l2 a1 = a1 a2 = a2 a3 = a3 e1 = e1 e2 = e2 ip = ip
  NoHold = NoHold NoOrder = NoOrder NoSeat = NoSeat NoTicket = NoTicket
  NoSession = NoSession NoBrowser = NoBrowser NoSelection = NoSelection
  Lots = {l1}
  Quantity <- SeatedQuantity
  Seats = {a1, a2}
  Holds = {h1, h2}
  Orders = {o1}
  Events = {confirmed, received}
  Sessions = {s1}
  Browsers = {b1}
  Rows = {}
  Blocked = {}
  AntiHole = FALSE
  HoldTTL = 1
  AuthGrace = 1
  MaxIssued = 2
  AnonTTL = 1
  AuthedTTL = 2
  AbandonTTL = 3
  MaxOpen = 2
  MaxHeldSeats = 2
  MaxCourtesies = 1
  Selections <- AnySelections
  EventOf <- OneEvent
  AddressOf <- OneAddress
SPECIFICATION FairSpec
INVARIANTS IssuedExactlyOnce SeatSoldOnce
PROPERTIES SweepersReachAll

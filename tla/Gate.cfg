CONSTANTS
    t1 = t1
    t2 = t2
    a1 = a1
    a2 = a2
    b1 = b1
    b2 = b2
    c1 = c1
    d1 = d1
    d2 = d2
    Tickets = {t1, t2}
    Scans = {a1, a2, b1, b2, c1}
    TicketOf <- Whose
    Reentry <- SteppedOut
    Online = {b1}
    Devices = {d1, d2}
    Batch <- Batches
    Requests = {r1, r2}
    MaxTries = 2
SPECIFICATION Spec
INVARIANTS
    OneAdmission
    OneFace
CHECK_DEADLOCK FALSE

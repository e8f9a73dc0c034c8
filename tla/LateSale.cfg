SPECIFICATION Spec
CONSTANTS
    r1 = r1
    r2 = r2
    r3 = r3
    r4 = r4
    s1 = s1
    u1 = u1
    u2 = u2
    t1 = t1
    t2 = t2
    k1 = k1
    k2 = k2
    Request = {r1, r2, r3, r4}
    Sweeper = {s1}
    User = {u1, u2}
    Ticket = {t1, t2}
    IdempotencyKey = {k1, k2}
    Nobody = Nobody
    UserOf <- Users
    KeyOf <- Keys
    ItemsOf <- Items
    SeatsOf <- Seats
    MaxFaults = 1
CONSTRAINT OneCast
PROPERTY SaleRespectsHolds

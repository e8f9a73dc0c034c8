SPECIFICATION MCSpec
CONSTANTS
    r1 = r1
    r2 = r2
    s1 = s1
    s2 = s2
    u1 = u1
    t1 = t1
    k1 = k1
    k2 = k2
    Request = {r1, r2}
    Sweeper = {s1, s2}
    User = {u1}
    Ticket = {t1}
    IdempotencyKey = {k1, k2}
    Nobody = Nobody
    UserOf <- Users
    KeyOf <- Keys
    ItemsOf <- Items
    SeatsOf <- Seats
    MaxFaults = 3
PROPERTIES
    EveryPurchaseSettles
    EveryChargeSettles
    EveryRequestIsAnswered
    ImplementsContract

SPECIFICATION MCSpec
CONSTANTS
    r1 = r1
    r2 = r2
    t1 = t1
    m1 = m1
    k1 = k1
    b1 = b1
    l1 = l1
    l2 = l2
    l3 = l3
    a1 = a1
    a2 = a2
    i1 = i1
    Nobody = Nobody
    Saga = {r1, r2}
    Key = {k1}
    Body = {b1}
    KeyOf <- Keys
    BodyOf <- Bodies
    Theater = {t1}
    Movie = {m1}
    Deletion = {}
    Target <- Targets
    TheatersOf <- Theaters
    StartsOf <- Starts
    DurationOf <- Durations
    MovieOf <- SameMovie
    MaxAttempts = 2
    MaxFaults = 1
    p1 = p1
    p2 = p2
    j1 = j1
    c1 = c1
    c2 = c2
    Buyer = {p1, p2}
    Sweeper = {j1}
    Consumer = {c1, c2}
    Capacity = 1
    s1 = s1
    s2 = s2
    f1 = f1
    u1 = u1
    Server = {s1, s2}
    Film = {f1}
    Asset = {u1}
    Login = {l1, l2, l3}
    Account = {a1, a2}
    Ip = {i1}
    h1 = h1
    h2 = h2
    Connection = {h1, h2}
PROPERTIES
    CreationsEnd
    SalesAreAnnounced
    UploadsEnd
    WaitsEnd
CHECK_DEADLOCK FALSE

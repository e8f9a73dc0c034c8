SPECIFICATION MCSpec
CONSTANTS
    u1 = u1
    u2 = u2
    p1 = p1
    p2 = p2
    a1 = a1
    a2 = a2
    b1 = b1
    m1 = m1
    m2 = m2
    t1 = t1
    t2 = t2
    s1 = s1
    s2 = s2
    d1 = d1
    d2 = d2
    A = A
    User = {u1, u2}
    Purchase = {p1, p2}
    Ticket = {a1, a2, b1}
    Nobody = Nobody
    Showtime = {1, 2}
    ShowtimeOf <- InShowtime
    Buyer <- ByFirst
    Items <- Spanning
    HoldTtl = 2
    ClaimTtl = 2
    MaxTime = 3
    Movie = {m1, m2}
    Theater = {t1, t2}
    Seat = {1, 2}
    Saga = {s1, s2}
    MovieOf <- Movies
    TheatersOf <- Theaters
    StartsOf <- Starts
    Duration = 1
    Seatmaps <- Empty
    MaxTickets = 3
    Cutoff = 1
    DayLength = 2
    Deletion = {d1, d2}
    Target <- Targets
    Reader = {1}
    MaxEdits = 1
    MaxNow = 2
    Name = {A}
    MaxBlocks = 2
    MaxRows = 2
    MaxLayout = 2
INVARIANTS
    HoldsAreKept
    OnlyKnownFailures
PROPERTIES
    ClaimsAreSound
    SeatsAddUp
CHECK_DEADLOCK FALSE

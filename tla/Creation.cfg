SPECIFICATION MCSpec
CONSTANTS
    r1 = r1
    r2 = r2
    r3 = r3
    r4 = r4
    t1 = t1
    t2 = t2
    m1 = m1
    d1 = d1
    d2 = d2
    k1 = k1
    k2 = k2
    b1 = b1
    b2 = b2
    Saga = {r1, r2, r3, r4}
    Key = {k1, k2}
    Body = {b1, b2}
    KeyOf <- Keys
    BodyOf <- Bodies
    Deletion = {d1, d2}
    Target <- Targets
    Theater = {t1, t2}
    Movie = {m1}
    Nobody = Nobody
    TheatersOf <- Theaters
    StartsOf <- Starts
    DurationOf <- Durations
    MovieOf <- SameMovie
    MaxAttempts = 2
    MaxFaults = 3
INVARIANTS
    NoOverlap
    AllOrNothing
    ReportIsCommitted
    OneCreationPerKey
PROPERTIES
    TheatersOutliveCreation
CHECK_DEADLOCK FALSE

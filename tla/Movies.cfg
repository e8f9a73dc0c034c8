SPECIFICATION MCSpec
CONSTANTS
    s1 = s1
    s2 = s2
    m1 = m1
    m2 = m2
    a1 = a1
    a2 = a2
    q1 = q1
    q2 = q2
    plot = plot
    duration = duration
    Server = {s1, s2}
    Movie = {m1, m2}
    Asset = {a1, a2}
    Nobody = Nobody
    MaxFaults = 2
    MaxExpired = 2
    MaxUpdates = 1
    Editor = {q1, q2}
    Field = {plot, duration}
    Duration = duration
    Attempts = 2
    MaxVersion = 3
SYMMETRY Symmetry
INVARIANTS
    FilesAreAccounted
    DeletionStaysHome
    PublishedIsComplete
CHECK_DEADLOCK FALSE

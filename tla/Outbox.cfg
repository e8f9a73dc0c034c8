SPECIFICATION Spec
CONSTANTS
    r1 = r1
    r2 = r2
    s1 = s1
    c1 = c1
    c2 = c2
    Request = {r1, r2}
    Sweeper = {s1}
    Consumer = {c1, c2}
    Nobody = Nobody
    Capacity = 2
    MaxFaults = 2
SYMMETRY Alike
INVARIANTS
    TypeOK
    NothingIsLost
    DuplicatesAreFaults
CHECK_DEADLOCK FALSE

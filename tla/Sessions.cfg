SPECIFICATION MCSpec
CONSTANTS
    l1 = l1
    r1 = r1
    r2 = r2
    r3 = r3
    o1 = o1
    v1 = v1
    v2 = v2
    Nobody = Nobody
    Login = {l1}
    Refresh = {r1, r2, r3}
    Logout = {o1}
    Revoker = {v1, v2}
    MaxFaults = 1
    Tab = {r1, r2, r3}
    Bff = {v1, v2}
    NoSession = NoSession
    Keep = Keep
    MaxRotations = 2
    Visit = {v1, v2}
    Sizes = {0, 1, 2}
    MaxBody = 1
    Change = {r1, r2, r3}
    Repository = {v1, v2, l1}
    Process = {1, 2}
    ProcessOf <- Hosts
    Email = {11, 12}
    Password = {21, 22}
    MaxTime = 2
    MaxFailures = 1
SYMMETRY Symmetry
INVARIANTS
    RotationIsSafe
    RevocationIsFinal
    SessionSurvives
    RequestsRunOnce
    AccountsAreSound
CHECK_DEADLOCK FALSE

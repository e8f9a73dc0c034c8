SPECIFICATION MCSpec
CONSTANTS
    l1 = l1
    l2 = l2
    l3 = l3
    a1 = a1
    a2 = a2
    i1 = i1
    Login = {l1, l2, l3}
    Account = {a1, a2}
    Ip = {i1}
    AccountOf <- Accounts
    IpOf <- Addresses
    AccountLimit = 1
    IpLimit = 2
    p1 = p1
    p2 = p2
    h1 = h1
    h2 = h2
    m1 = m1
    m2 = m2
    Replica = {p1, p2}
    Handler = {h1, h2}
    Message = {m1, m2}
    HomeOf <- Apart
    MaxSubs = 2
    Action = Action
    Drama = Drama
    Comedy = Comedy
    Genre = {Action, Drama, Comedy}
    Movies = {1, 2, 3, 4, 5}
    GenresOf <- Lists
    ReleaseOf <- Dates
    Recent = 3
    MaxRecords = 4
    d1 = d1
    d2 = d2
    d3 = d3
    c1 = c1
    x1 = x1
    x2 = x2
    Document = {d1, d2, d3}
    Key = {1, 2, 3}
    Client = {c1}
    Remover = {x1, x2}
    DefaultSize = 2
    MaxSize = 2
    Null = Null
    MaxChanges = 2
    full = full
    renamed = renamed
    other = other
    lacking = lacking
    Content = {full, renamed, other, lacking}
    Incomplete = {lacking}
    EmailOf <- Emails
    MaxFaults = 2
    MaxEdits = 1
SYMMETRY Symmetry
INVARIANTS
    LoginsAreBounded
    EventsAreHeard
    PagesAreSound
    FormsEndWell
PROPERTIES
    PicksAreFair
CHECK_DEADLOCK FALSE

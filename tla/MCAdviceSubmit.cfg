SPECIFICATION Spec
CONSTANTS
    k1 = k1
    k2 = k2
    k3 = k3
    i1 = i1
    c1 = c1
    e1 = e1
    h1 = h1
    h2 = h2
    h3 = h3
    s1 = s1
    s2 = s2
    p1 = p1
    p2 = p2
    Key = {k1, k2}
    Idem = {i1}
    Client = {c1}
    Entry = {e1}
    Handler = {h1, h2}
    Service = {s1}
    Process = {p1}
    EntryOf <- MCEntryOf
    ServiceOf <- MCServiceOf
    ProcessOf <- MCProcessOf
    Asks <- MCAsks
    Capped = {}
    MaxOpen = 1
    MaxPerClient = 1
    Budget = 1
    MaxOrdinal = 2
    MaxFaults = 1
    NoIdem = NoIdem
    NoJob = NoJob
    NoClient = NoClient
    NoKey = NoKey
    NoService = NoService
SYMMETRY Symmetry
CONSTRAINT AtMostThreeJobs
INVARIANTS
    TypeOK
    KeyIsOneRequest
    ClientCapHolds
    SpecIsThere
    NamesAreDense
PROPERTIES
    Refines
CHECK_DEADLOCK FALSE

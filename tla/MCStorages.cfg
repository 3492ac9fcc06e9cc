SPECIFICATION Spec
CONSTANTS
    a1 = a1
    a2 = a2
    early = early
    late = late
    Addresses = {a1, a2}
    Ids = {1, 2}
    Records = {early, late}
    CreatedAt <- MCCreatedAt
    Pairs = {p1, p2}
    Registrations = {0, 5}
    Times = {3}
    MILLIS = 2
    None = None
    Error = Error
    Blank = Blank
    MaxWrites = 3
SYMMETRY Symmetry
VIEW View
PROPERTIES SqliteKeepsPromise MemoryKeepsPromise

\* Two devices, one session.
CONSTANTS
    Paths = {p1, p2}
    AddressOf <- MCAddressOf
    IdentityOf <- MCAddressOf
    Absent = Absent
    MaxSignals = 1
    MaxEvents = 0
    MaxSessions = 1
SPECIFICATION Spec
SYMMETRY Symmetric
INVARIANTS OneRecord IndexesAgree ListsCurrent ListsComplete
PROPERTY ImplementsRoster

\* One device, two sessions.
CONSTANTS
    Paths = {p}
    AddressOf <- MCAddressOf
    IdentityOf <- MCIdentityOf
    Absent = Absent
    MaxSignals = 1
    MaxEvents = 1
    MaxSessions = 2
SPECIFICATION Spec
INVARIANTS TypeOK OneRecord PairedMirrors IndexesAgree ListsCurrent ListsComplete

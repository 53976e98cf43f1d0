\* The list of paired devices against what bluetoothd calls paired.
CONSTANTS
    Paths = {p}
    AddressOf <- MCAddressOf
    IdentityOf <- MCAddressOf
    Absent = Absent
    MaxSignals = 2
    MaxEvents = 1
    MaxSessions = 1
SPECIFICATION Spec
INVARIANT PairedIsCurrent

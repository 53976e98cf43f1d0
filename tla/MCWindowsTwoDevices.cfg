\* Two devices: scans and changes in Windows.
CONSTANTS
    Aeps = {a1, a2}
    Hids = {}
    MacOf <- MCMacOf
    Radio = Radio
    Absent = Absent
    Reports = {TRUE}
    Commands = {"scan"}
    MaxStimuli = 3
SPECIFICATION Spec
SYMMETRY Symmetric
INVARIANTS TypeOK ListedUntilWithdrawn
CHECK_DEADLOCK FALSE

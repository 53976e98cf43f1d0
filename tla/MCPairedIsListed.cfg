CONSTANTS
    Aeps = {a1}
    Hids = {}
    MacOf <- MCMacOf
    Radio = Radio
    Absent = Absent
    Reports = {TRUE}
    Commands = {"scan", "pair"}
    MaxStimuli = 2
SPECIFICATION Spec
INVARIANTS PairedIsListed
CHECK_DEADLOCK FALSE

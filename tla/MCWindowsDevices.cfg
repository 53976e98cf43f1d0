\* One device with a gamepad: all commands.
CONSTANTS
    Aeps = {a1}
    Hids = {h1}
    MacOf <- MCMacOf
    Radio = Radio
    Absent = Absent
    Reports = {TRUE, FALSE}
    Commands = {"scan", "refresh", "pair", "connect", "unpair"}
    MaxStimuli = 2
SPECIFICATION Spec
INVARIANTS OneRecord PairedMirrors ScanSignalsTrue
PROPERTIES PairingIsKept
CHECK_DEADLOCK FALSE

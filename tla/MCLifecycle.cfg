CONSTANTS
    MayFail = {"connect", "read_adapters", "set_powered",
               "start_discovery", "stop_discovery", "device"}
    MaxCommands = 2
    MaxEvents = 0
SPECIFICATION FairSpec
INVARIANTS TypeOK SpawnSafe OneSession ScanStopsPaired ViewAgrees
PROPERTIES ReadyNotStale InitResolved StopCompletes StopScanTakesEffect DeadlineHonoured

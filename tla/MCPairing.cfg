CONSTANTS
    MaxCalls = 2
    MaxCommands = 1
    MaxEvents = 0
SPECIFICATION FairSpec
INVARIANTS TypeOK VerdictIsUsers CeremonyAlternates
PROPERTIES CeremonyEnds WorkerComesBack

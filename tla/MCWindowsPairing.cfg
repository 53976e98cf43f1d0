CONSTANTS
    MaxCalls = 2
    MaxCommands = 1
    MaxEvents = 1
SPECIFICATION FairSpec
INVARIANTS TypeOK PinIsUsers CeremonyAlternates
PROPERTIES CeremonyEnds

CONSTANTS
    MaxCalls = 2
    MaxCommands = 1
    MaxEvents = 0
SPECIFICATION Spec
INVARIANT PromptDuringCeremony

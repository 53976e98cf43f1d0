CONSTANTS
    MaxCalls = 2
    MaxCommands = 1
    MaxEvents = 1
SPECIFICATION Spec
PROPERTIES RejectionIsHonoured

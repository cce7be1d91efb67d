SPECIFICATION EslSpec
CONSTANTS
    EslCallers = {}
    NoOne = noone
    MaxConns = 2
    MaxCommands = 1
    EventDepth = 1
    EslFaults = 1
PROPERTIES ReconnectsUntilConnected
CHECK_DEADLOCK FALSE

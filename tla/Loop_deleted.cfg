SPECIFICATION Spec
CONSTANTS
    Orders = {}
    OtherKinds = {}
    Others = {}
    MaxCommands = 0
    MaxReboots = 0
INVARIANT DeletedOnlyOffline

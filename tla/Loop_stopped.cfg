SPECIFICATION FairSpec
CONSTANTS
    Orders = {}
    OtherKinds = {}
    Others = {}
    MaxCommands = 0
    MaxReboots = 0
PROPERTY PollerIsResumed

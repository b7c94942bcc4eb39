SPECIFICATION FairSpec
CONSTANTS
    Orders = {}
    OtherKinds = {}
    Others = {"acs"}
    MaxCommands = 0
    MaxReboots = 1
INVARIANTS TypeOK NeverBothStopped
PROPERTY AcsIsResumed

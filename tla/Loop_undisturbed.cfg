SPECIFICATION Spec
ACTION_CONSTRAINT Undisturbed
CONSTANTS
    Orders <- MCOrders
    OtherKinds = {}
    Others = {"alive"}
    MaxCommands = 2
    MaxReboots = 0
INVARIANTS LastReceivedExecuted 
PROPERTY RefinesMailbox

SPECIFICATION SerialSpec
CONSTANTS
    Clients = {main, poller}
    DeviceParts = 3
    MaxLength = 6
    main = main
    poller = poller
INVARIANTS CleanIsPrefix AppliedIsWhole
PROPERTY ImplementsService

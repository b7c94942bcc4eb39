SPECIFICATION Spec
CONSTANTS
    Clients = {main, poller}
    DeviceParts = 2
    MaxLength = 2
    main = main
    poller = poller
INVARIANT GoesToOwnUrl

SPECIFICATION FairSpec
CONSTANTS
    MaxRetry = 5
    MaxWaits = 10
    MaxFailed = 0
    CanErase = FALSE
PROPERTY FailStartsAp

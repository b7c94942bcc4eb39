SPECIFICATION FairSpec
CONSTANTS
    MaxRetry = 5
    MaxWaits = 10
    MaxFailed = 1
    CanErase = TRUE
INVARIANTS TypeOK OneAttempt FailIsExhausted OnlyFailedMissing LoopHasWifi
PROPERTIES BootDecides BootCompletes LostIsRetried EventuallyOnline

SPECIFICATION FairSpec
CONSTANTS
    Lists <- MCLists
    Room = 2
    Readings = {1, 2}
    Steady = TRUE
INVARIANTS TypeOK StoresInArray LoadedIsList ReportIsPaired 
 

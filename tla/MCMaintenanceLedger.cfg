SPECIFICATION FairSpec
CONSTANTS
    fa = fa
    fb = fb
    da = da
    db1 = db1
    Nil = Nil
    Paths = {fa, fb}
    Ids = {da, db1}
    Corpora <- MCCorpora
    Autofill = TRUE
    Writable = TRUE
    RecentDays = 1
    SoonDays = 1
    MaxTrunk = 3
    MaxDay = 2
    MaxFaults = 2
PROPERTIES
    TrunkServed
    LedgerAccurate
CHECK_DEADLOCK FALSE

CONSTANTS
    Tabs = {t1, t2}
    People = {ann, bob}
    Website = website
    Nobody = nobody
    MaxActs = 1
SPECIFICATION FairSpec
INVARIANT Attributed
PROPERTY RepairSpares AllSettle
CHECK_DEADLOCK FALSE

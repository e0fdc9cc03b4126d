SPECIFICATION FairSpec
CONSTANTS
    f1 = f1
    l1 = l1
    a1 = a1
    MaxCodes = 2
    MaxScans = 2
    Listings = {l1}
    Articles = {a1}
    Home = Home
    Nowhere = Nowhere
    Requests <- Forms
    Flows = {f1, f2}
    Mixes <- Together
\* With every code made and every place deleted there may be nothing left to do.
CHECK_DEADLOCK FALSE
INVARIANTS TypeOK   
PROPERTIES PrintedStay 

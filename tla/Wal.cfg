SPECIFICATION FairSpec
CONSTANTS
    c1 = c1
    c2 = c2
    Conn <- const_Conn
    Page <- const_Page
    NReader = 3
    Use <- const_Use
    None = None
    MaxTx = 2
    MaxSpill = 1
INVARIANTS
    TypeOK
    SnapshotHolds
PROPERTIES
    ImplSnapDb
    BeginEnds
    MarksStay
    ReadsStay
    ViewStays
CHECK_DEADLOCK FALSE

SPECIFICATION Spec
CONSTANTS
    c1 = c1
    c2 = c2
    Conn <- const_Conn
    Page <- const_Page
    NReader = 3
    Use <- const_UseReset
    None = None
    MaxTx = 2
    MaxSpill = 1
INVARIANT
    BackfillWithinLog
CHECK_DEADLOCK FALSE

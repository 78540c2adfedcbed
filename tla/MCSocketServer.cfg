SPECIFICATION FairSpec
CONSTANTS
    Service = {a, b}
    Size = 2
    MaxId = 2
    MaxSend = 2
    None = None
INVARIANTS AssertionsHold StreamIntact
PROPERTIES Drains CloseReported
CHECK_DEADLOCK FALSE

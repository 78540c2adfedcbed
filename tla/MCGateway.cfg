SPECIFICATION FairSpec
CONSTANTS
  FD = {f1, f2}
  maxclient = 1
  MaxInput = 2
INVARIANTS CountsClients FindsClient LastWord
PROPERTIES Settles Served
CHECK_DEADLOCK FALSE

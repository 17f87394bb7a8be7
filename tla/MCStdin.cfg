SPECIFICATION FairSpec
CONSTANTS
  Reader = {r1, r2}
  idle = idle
  STDIN_BUFSIZE = 2
  MaxLen = 2
  MaxChar = 4
INVARIANTS InputIntact NoLostWakeup
PROPERTIES CharsReachReaders
CHECK_DEADLOCK FALSE

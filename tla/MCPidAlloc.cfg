CONSTANTS
  Proc = {a, b, c, d}
  MAX_PID = 6
  MAX_PROCESS = 5
SPECIFICATION FairSpec
PROPERTIES Terminates Implements

CONSTANTS
  User = {u1, u2}
  idleproc = idleproc
  initproc = initproc
  NULL = NULL
  MAX_PROCESS = 4
  MAX_TIME_SLICE = 1
  MaxSleep = 1
SPECIFICATION FairSpec
PROPERTIES NoStarvation OrphansAreReaped KilledSleeperExits

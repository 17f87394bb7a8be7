SPECIFICATION FairSpec
CONSTANTS
  Addr = {u, ebase}
  EBase = ebase
  ResetPC = u
  MaxCompare = 2
INVARIANTS EpcIsPrecise FaultsDoNotCommit
PROPERTIES TickKept ExcEntersHandler EnabledInterruptTaken

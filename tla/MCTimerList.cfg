CONSTANTS
  Proc = {a, b, c}
  MaxSleep = 3
  NoProc = NoProc
SPECIFICATION FairSpec
INVARIANTS DeltasExact
PROPERTIES SleepersWake Implements

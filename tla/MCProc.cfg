CONSTANTS
  User = {u1, u2, u3}
  idleproc = idleproc
  initproc = initproc
  NULL = NULL
  MAX_PROCESS = 5
  MAX_TIME_SLICE = 1
  MaxSleep = 1
SPECIFICATION Spec
SYMMETRY UserSymmetry
INVARIANTS NoFailedAssertion RunQueueExact NoLostChild ChildListsExact

CONSTANTS
  p1 = p1
  p2 = p2
  init = init
  INITPROC = init
  NDIRECT = 2
  NENTRY = 2
  BLKWORDS = 2
  BLKBITS = 8
  MAXNAME = 3
  INOBYTES = 2
  MAXNBLKS = 64
  DEVBLOCKS = 30
  MAXFILE = 8
  IOBUF = 2
  MAXINODE = 20
  PROCS <- TwoProcs
  NFDS = 3
  Workloads <- MCWorkloads
SPECIFICATION Spec
INVARIANTS RefsExact EntriesSettled CountsNeverPanic BlocksAccounted ReadsHostFile ListsHostDirectory
CHECK_DEADLOCK FALSE

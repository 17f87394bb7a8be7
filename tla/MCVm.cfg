CONSTANTS
  MemSizes = {31, 33}
  UNITS = 10
  User = {u1, u2}
  INITPROC = initproc
  IDLEPROC = idleproc
  VPAGES = 8
  PTPAGES = 6
  STEP1 = 3
  STEP2 = 9
  PGWORDS = 4
  USTACKPAGE = 3
  STACKLOAD = 1
  Size <- Sizes
  Program <- Programs
  Missing = missing
  Args <- Arguments
  Touched <- TouchedPages
  MAXFORKS = 3
  MAXEXECS = 1
  sh = sh
  ls = ls
  txt = txt
  cut = cut
  bss = bss
  page = page
  lap = lap
SPECIFICATION Spec
INVARIANTS FramesOwnedOnce FirstFitComplete HeapExact AddressSpaces StopsWithCause LoadsSegments
PROPERTY HeldOrFreed
SYMMETRY UserSymmetry
CHECK_DEADLOCK FALSE

SPECIFICATION Spec
CONSTANTS
  Space = {s1, s2}
  boot_pgdir = boot_pgdir
  c = c
  d = d
  e = e
  Pair = {c, d, e}
  Insn <- Short
  Vma <- Mixed
  Loaded <- ShortLoaded
  TLBN = 2
  NoPair = NoPair
  None = None
INVARIANTS TlbCoherent SingleMatch
SYMMETRY Symmetric
CHECK_DEADLOCK FALSE

SPECIFICATION CalmSpec
CONSTANTS
  Space = {s1}
  boot_pgdir = boot_pgdir
  c = c
  d = d
  e = e
  Pair = {c, d}
  Insn <- Long
  Vma <- AllWritable
  Loaded <- LongLoaded
  TLBN = 2
  NoPair = NoPair
  None = None

PROPERTIES InsnCompletes
CHECK_DEADLOCK FALSE

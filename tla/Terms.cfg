SPECIFICATION Spec
CONSTANTS
  host1 = host1
  host2 = host2
  dev1 = dev1
  Host <- MCHost
  Device <- MCDevice
  Programs <- MCPrograms
  PAGE_BITS = 1
  NCLS = 2
  NCLS_ALL = 3
  KEEP_WORDS = 2
  CAP = 20
  MaxHeld = 3
  RFC_CNT = 6
  MaxOps = 3
INVARIANTS CountsMatch SlotsAccounted
CHECK_DEADLOCK FALSE

SPECIFICATION Safe
CONSTANTS
  r1 = r1
  r2 = r2
  Req = {r1}
  Plan <- OneBackup
  Budget <- OnePowerOff
  NDisks = 2
  Writable = {1, 2}
  LibvirtDir = {1, 2}
  InPool = {1, 2}
INVARIANTS DeletedOverlayIsInactive

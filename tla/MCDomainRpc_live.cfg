SPECIFICATION Settled
CONSTANTS
  r1 = r1
  r2 = r2
  Req = {r1, r2}
  Plan <- BackupAndPower
  Budget <- Delays
  NDisks = 2
  Writable = {1, 2}
  LibvirtDir = {1}
  InPool = {1, 2}
PROPERTIES EveryRequestEnds BackupCommits BackupReturnsToBase

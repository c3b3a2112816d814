SPECIFICATION Safe
CONSTANTS
  r1 = r1
  r2 = r2
  Req = {r1, r2}
  Plan <- AnyTwo
  Budget <- AnyAdversity
  NDisks = 2
  Writable = {1, 2}
  LibvirtDir = {1, 2}
  InPool = {1, 2}
SYMMETRY Interchangeable
INVARIANTS TypeOK BackupReadsQuietImage ChainIntact DestroyedImagesWereSaved
PROPERTIES SuccessfulBackupIsComplete LeftOverStays

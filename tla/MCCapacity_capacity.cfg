SPECIFICATION Spec
CONSTANTS
  v1 = v1
  v2 = v2
  v3 = v3
  other = other
  d1 = d1
  d2 = d2
  new = new
  bad = bad
  Word = 16
  Cpus = 2
  MinMemory = 2
  MinStorage = 5
  MemInfo <- AnyMemInfo
  PoolInfo <- AnyPool
  Networks <- TwoNetworks
  Domain = {d1, d2}
  NewName = {new}
  BadName = bad
  Elsewhere = {other}
  NoVF = NoVF
  Asked <- AnyAsked
  Budget = 1
SYMMETRY Either
INVARIANTS QuietVerdictIsRight ReportIsTrue

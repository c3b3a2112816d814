SPECIFICATION Safe
CONSTANTS
  r1 = r1
  r2 = r2
  r3 = r3
  a = a
  b = b
  t = t
  u1 = u1
  u2 = u2
  Req = {r1, r2, r3}
  Name = {a, b}
  Template = {t}
  UUID = {u1, u2}
  Plan <- CreateCreateDestroy
  Cpus = 2
  MaxVcpus = 1
  Budget <- AnyAdversity
INVARIANTS TypeOK DomainHasItsImage NoRedefinition NoOrphan
PROPERTIES DestroyedIsGone ErasedWasSaved

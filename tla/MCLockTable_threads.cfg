SPECIFICATION Safe
CONSTANTS
  Key = {k1}
  Call = {c1, c2}
  Counts = {1}
  NoKey = NoKey
INVARIANTS ThreadSafety

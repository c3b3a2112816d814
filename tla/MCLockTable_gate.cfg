SPECIFICATION Spec
CONSTANTS
  Key = {k1, k2}
  Call = {c1, c2}
  Counts = {1, 3}
  NoKey = NoKey
INVARIANTS TypeOK TemporaryLockHasHolder OperatorLockBlocks ListIsFaithful
PROPERTIES EveryCallAnswered TemporaryLockEnds KeepsPromise

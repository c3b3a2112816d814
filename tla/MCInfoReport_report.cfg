SPECIFICATION InfoSpec
CONSTANTS
  r1 = r1
  r2 = r2
  a = a
  b = b
  Req = {r1, r2}
  Plan <- AnyTwo
  Name = {a, b}
  NoSnapshot = NoSnapshot
  Earlier = Earlier
  Fold <- DifferentNames
  Budget <- AnyAdversity
SYMMETRY Either
INVARIANTS InfoTypeOK SnapshotsComeBack AnsweredSnapshotStays HandlesFreed QuietReportIsTrue UnmarkedEntryIsTrue ErrorsAreExplained
PROPERTY GuestUndisturbed
ACTION_CONSTRAINT Apart

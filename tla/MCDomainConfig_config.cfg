SPECIFICATION Safe
CONSTANTS
  r1 = r1
  r2 = r2
  Req = {r1, r2}
  Plan <- AnyTwo
  MaxValue = 2
  Budget <- AnyAdversity
SYMMETRY Either
INVARIANTS TypeOK NoDrift InterfaceKept RejectionsAreRaces

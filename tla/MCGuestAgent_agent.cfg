SPECIFICATION Spec
CONSTANTS
  r1 = r1
  r2 = r2
  Req = {r1, r2}
  Nobody = Nobody
  Budget <- AnyAdversity
SYMMETRY Either
INVARIANTS HandlesReturned AnswersAreTrue
ACTION_CONSTRAINT Twice

SPECIFICATION Spec
CONSTANTS
  Callers = {c1, c2}
  MaxCount = 4
  CursorModulus = 6
SYMMETRY CallerSymmetry
INVARIANTS
  TypeOK
  NoBodyLeaked
  LastFailureSurfaced
  FailoverIsComplete
  Balanced

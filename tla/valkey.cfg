SPECIFICATION Spec
CONSTANTS
  Callers = {c1, c2}
  Keys = {k1, k2}
  Texts = {}
  Missing = missing
  NoKey = none
SYMMETRY Symmetry
INVARIANTS
  OneHolder
  ScanComplete
  MGetExact
  SpanTellsOutcome
PROPERTIES
  TtlKept

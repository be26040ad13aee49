SPECIFICATION Spec
CONSTANTS
  Resolvers = {r1, r2}
  Keys = {k1, k2}
  MaxEntries = 2
  App = app
  None = none
SYMMETRY Symmetry
INVARIANTS
  EveryEntryOnce
  AloneIsForwarded

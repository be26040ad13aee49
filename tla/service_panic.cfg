SPECIFICATION Spec
CONSTANTS
  Callers = {c1, c2}
  NoCaller = none
  Requests = {w, probe}
  Probes = {probe}
  Deps = {pg}
  Pooled = {pg}
  MaxAttached = 1
  MaxStarts = 1
  ShutdownTimeout = 30
INVARIANTS
  StopNeverPanics

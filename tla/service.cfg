SPECIFICATION FairOrderlySpec
CONSTANTS
  Callers = {c1, c2}
  NoCaller = none
  Requests = {w, probe}
  Probes = {probe}
  Deps = {pg, kv}
  Pooled = {pg}
  MaxAttached = 2
  MaxStarts = 2
  ShutdownTimeout = 30
INVARIANTS
  TypeOK
  DrainBeforeClose
  BorrowedStaysAlive
  TelemetryLast
  StoppedMeansReleased
  StoppedIsQuiet
PROPERTIES
  ImplementsGracefulShutdown
  StopEnds
  ProbesAnswered
  SignalEndsStart

SPECIFICATION ClientSpec
CONSTANTS
  Callers = {c1, c2}
  Queues = {q1, q2}
  NoSchedule = none
  MaxRuns = 2
SYMMETRY Symmetry
INVARIANTS
  CreatedMeansScheduled
  ValueOfAskedRun
  RepeatIsNoOp

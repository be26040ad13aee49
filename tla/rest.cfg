SPECIFICATION Spec
CONSTANTS
  MaxSteps = 5
  NoSpan = nospan
  NoVerdict = noverdict
INVARIANTS
  ValidatedIsSent
  StreamsAreLeftAlone
  NothingLeftBehind
  CodesMatchStatus

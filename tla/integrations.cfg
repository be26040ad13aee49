SPECIFICATION Spec
CONSTANTS
  MaxEdits = 2
  Goroutines = {g1, g2}
  StructTypes <- MCStructTypes
  Followed <- MCFollowed
INVARIANTS
  ConnectContract
  RoutedAsDocumented
  MessageInLanguage
  CommittedStays
  SpansTellOutcome
  RowMatchesStruct

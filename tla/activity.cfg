SPECIFICATION FairSpec
CONSTANTS
  Queries <- MCQueries
  MaxRows = 3
  MaxTime = 3
INVARIANTS
  TypeOK
  PagesMissLittle
  HistoryNamesCounted
  FeedTellsLatest
PROPERTIES
  PagesEnd

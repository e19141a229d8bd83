CONSTANTS
  None = None
  Views = {"dashboard", "recorded"}
  MaxWrites = 1
  MaxFails = 1
SPECIFICATION Spec
INVARIANTS ListsInOrder
PROPERTIES ToldIsFetched RecordedFillsUp WatcherCatchesUp

\* Two users and five writes, two of them refused; three in flight.
SPECIFICATION FairSpec
CONSTANTS
  Users = {anna, bert}
  MaxWrites = 5
  Bad <- MCBad
  Hello = Hello
  MaxPending = 3
  MaxBreaks = 1
  MaxRestarts = 2
INVARIANTS
  PipelineIsPrefix
  SentIsPipeline
  StreamAsNeeded
  NoOvertaking
  NoneDropped
PROPERTIES
  ImplementsQueue
  ToldOnce
  WritesSettle
\* Each write is made once.
CHECK_DEADLOCK FALSE

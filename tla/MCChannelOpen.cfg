SPECIFICATION FairSpec
CONSTANTS
  c1 = c1
  c2 = c2
  Calls = {c1, c2}
  Ends <- MCEnds
  FirstId = 1
  InitWindow = 1
  MaxAsks = 3
  MaxGrants = 1
  MaxWrites = 1
INVARIANTS ChannelMatchesCall AnsweredOnce WritableFromTheStart AnswerToAsker
PROPERTIES CallReturns
CHECK_DEADLOCK FALSE

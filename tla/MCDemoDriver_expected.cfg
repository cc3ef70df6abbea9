CONSTANTS
  Gateways = {0, 1, 2, 3}
  Live = {0, 1, 2}
  Silenced = {}
  Observed = {3}
  DemoThread = DemoThread
  FeedThread = FeedThread
  Threads = {DemoThread, FeedThread}
  ExternalIds = {88421}
  Prices = {90, 95, 100, 110}
  Volumes = {5, 6, 7, 10, 100}
  NoId = NoId
  Slots = 2
  MaxFills = 16
  MaxCalls = 9
SPECIFICATION FairDemoSpec
INVARIANT AnswersAsExpected
PROPERTY DemoEnds

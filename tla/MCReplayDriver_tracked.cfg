CONSTANTS
  feed = feed
  t1 = t1
  Gateways = {feed}
  Live = {}
  Silenced = {}
  Observed = {}
  Threads = {t1}
  ExternalIds = {7, 8}
  Prices = {1}
  Volumes = {1, 2}
  NoId = NoId
  Slots = 3
  MaxFills = 2
  MaxCalls = 4
  Feed = feed
  Feeder = t1
  MaxRows = 4
SPECIFICATION DriverSpec
INVARIANT TracksCurrentSizes

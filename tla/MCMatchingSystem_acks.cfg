CONSTANTS
  g1 = g1
  g2 = g2
  t1 = t1
  t2 = t2
  Gateways = {g1, g2}
  Live = {g1}
  Silenced = {}
  Observed = {}
  Threads = {t1, t2}
  ExternalIds = {7}
  Prices = {1, 2}
  Volumes = {1, 2}
  NoId = NoId
  Slots = 2
  MaxFills = 1
  MaxCalls = 4
SPECIFICATION Spec
SYMMETRY Symmetry
INVARIANT AcksAnswerCalls
INVARIANT FillsExplainRemainder
INVARIANT CancelledIsGone
INVARIANT NoMoreRestsThanKnown
PROPERTY QueueSpec

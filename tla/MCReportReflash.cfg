SPECIFICATION MCSpec
CONSTANTS
  bridge = bridge
  s1 = s1
  u = u
  soft = soft
  rbr = rbr
  unknown = unknown
  nan = nan
  nocrc = nocrc
  Bridge = bridge
  Unknown = unknown
  NaN = nan
  NoCrc = nocrc
  Types = {soft, rbr}
  Nodes <- MCNodes
  FirstApps <- MCFirstApps
  Networks <- MCNetworks
  Settings <- MCSettings
  Reflashes <- MCSwaps
  QueueSize = 3
  Capacity = 2
  MaxIntervals = 2
  MaxReplies = 1
  MaxReflashes = 1
INVARIANTS SlotHoldsItsInterval

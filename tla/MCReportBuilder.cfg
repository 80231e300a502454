SPECIFICATION MCSpec
CONSTANTS
  bridge = bridge
  s1 = s1
  u = u
  soft = soft
  rbr = rbr
  unknown = unknown
  nan = nan
  nocrc = nocrc
  Bridge = bridge
  Unknown = unknown
  NaN = nan
  NoCrc = nocrc
  Types = {soft, rbr}
  Nodes <- MCNodes
  FirstApps <- MCFirstApps
  Networks <- MCNetworks
  Settings <- MCSettings
  Reflashes <- MCGains
  QueueSize = 2
  Capacity = 2
  MaxIntervals = 3
  MaxReplies = 2
  MaxReflashes = 1
INVARIANTS TypeOK SlotHoldsItsInterval ReportIsWhole NumSensorsHonest PeriodIsOneNetwork
PROPERTIES NetworkOnlyGrows EveryIntervalCounted

SPECIFICATION Spec
CONSTANTS
  ON = ON
  OFF = OFF
  bridge = bridge
  n1 = n1
  n2 = n2
  rbr = rbr
  unknown = unknown
  soft = soft
  Nodes <- MCNodes
  TypeOf <- MCTypeOf
  Networks <- MCNetworks
  Unknown = unknown
  ListSize = 1
  Late = FALSE
  SaveFails = FALSE
INVARIANTS TypesMatchNodes ConfigIsOfItsNodes KnownWasTold
PROPERTIES AskedWhilePowered PausedWhileOff

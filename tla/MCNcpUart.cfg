SPECIFICATION Spec
CONSTANTS
  b57600 = b57600
  b115200 = b115200
  b1M = b1M
  odd = odd
  Acceptable <- MCAcceptable
  Target = b1M
  Fallback = b115200
  HostBauds = {b57600, b1M, odd}
  NoBaud = NoBaud
  TxDepth = 3
  RxDepth = 2
INVARIANTS FoundIfThere SameBaud
PROPERTIES BaudBetweenMessages PacketsInOrder QueueMoves DiscoveryEnds

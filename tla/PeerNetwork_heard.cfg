SPECIFICATION Spec
CHECK_DEADLOCK FALSE
CONSTANTS
  first = first
  second = second
  third = third
  NoPeer = nopeer
  NoConn = noconn
  Nobody = nobody
  Peers <- Three
  Contact <- ContactFirst
  Slots <- SlotsOf3
  MaxNow = 1
  MaxFetches = 1
PROPERTIES
  HeardPeersAreKept

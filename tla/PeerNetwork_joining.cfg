SPECIFICATION JoiningSpec
CHECK_DEADLOCK FALSE
CONSTANTS
  first = first
  second = second
  third = third
  NoPeer = nopeer
  NoConn = noconn
  Nobody = nobody
  Peers <- Three
  Contact <- ContactFirst
  Slots <- SlotsOf4
  MaxNow = 1
  MaxFetches = 1
SYMMETRY PeerSymmetry
INVARIANTS
  TypeOK
  ListIsASet
  QuietPeersKnowEachOther
PROPERTIES
  InformLoopSeesOneList
  OnlyOldEntriesGo

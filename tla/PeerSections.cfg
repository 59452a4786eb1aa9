SPECIFICATION OnTheWaySpec
CHECK_DEADLOCK FALSE
CONSTANTS
  first = first
  second = second
  third = third
  NoPeer = nopeer
  NoConn = noconn
  Nobody = nobody
  Peers <- Three
  Contact <- ContactFirst
  Slots <- SlotsOf4
  MaxNow = 1
  MaxTurns = 3
  MaxFetches = 1
INVARIANTS
  SectionsTypeOK
PROPERTIES
  SectionsAreOneStep
  RegistrationEnds

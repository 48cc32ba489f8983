SPECIFICATION Spec
CONSTANTS
  Nsp <- TwoNamespaces
  Pages <- BothPages
  MaxEvents = 2
  MaxServed = 1
  MaxConnects = 1
  MaxEngines = 3
  MaxAttempts = 2
  Blobs = TRUE
INVARIANTS
  TypeOK
  EventsInOrder
  AckMeansReceived
  ConnectedIsHeard
  OneConnection
PROPERTY Reconnects
CHECK_DEADLOCK FALSE

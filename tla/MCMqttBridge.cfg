SPECIFICATION Spec
CONSTANTS
  gw = gw
  pr = pr
  plus = plus
  hash = hash
  report = report
  status = status
  GatewaySerial = gw
  PrinterSerial = pr
  OtherSerials = {}
  AnySerial = plus
  Leaves = {report, status}
  AnyLeaf = hash
  ReportLeaf = report
  ClientFilters <- OneName
  BuiltinTopics <- Builtin
  ClientQos = {1}
  MaxClients = 2
  MaxSubs = 2
  MaxTopics = 1
  Repeats = FALSE
  TlsPeers = {t1}
  PlainPeers = {p1, p2}
  NoPeer = none
  MaxReboots = 0
INVARIANTS
  TypeOK
  StoredIsAsked
  DemandCovered
  SocketsOwned
  NeverOnlineOnFreed
SYMMETRY Symmetry
VIEW WithoutHistory
PROPERTIES
  HandshakeFirst
  OnlyUnwantedDropped
  ReportsReachAskers
  ComesOnlineWithSession
  ImplementsSharedSession

SPECIFICATION Spec
CONSTANTS
  gw = gw
  pr = pr
  plus = plus
  hash = hash
  report = report
  status = status
  GatewaySerial = gw
  PrinterSerial = pr
  OtherSerials = {}
  AnySerial = plus
  Leaves = {report, status}
  AnyLeaf = hash
  ReportLeaf = report
  ClientFilters <- AnyName
  BuiltinTopics <- Builtin
  ClientQos = {1}
  MaxClients = 1
  MaxSubs = 2
  MaxTopics = 1
  Repeats = TRUE
  TlsPeers = {}
  PlainPeers = {p1}
  NoPeer = none
  MaxReboots = 0
PROPERTIES
  ReportsReachAskers

SPECIFICATION GatewaySpec
CONSTANTS
  Settings <- SomeSettings
  Sends = {s1, s2, s3}
  SendLimit = 1
  SendWindow = 2
  NoSend = NoSend
SYMMETRY Symmetry
INVARIANTS
  GatewayTypeOK
  RoutesHaveTheirClients
  GuardedRoutesHaveTheirClients
  ClientsAreServed
  SendsAreLimited

SPECIFICATION Spec
CONSTANTS
  Services <- MCServices
  IPv4 <- MCIPv4
  PushRoutes <- MCPushRoutes
  Answers <- MCAnswers
  DNS = "dns"
  Self = "self"
  VPN = "vpn"
  APIPort = 9100
  DialPorts = {53, 80, 9100}
  ClientPort = 40000
  Policies <- MCPolicies
  Device = "dev"
INVARIANTS
  OnlyLabelledReached
PROPERTIES
  ExposureConverges
  PolicyCatchesUp

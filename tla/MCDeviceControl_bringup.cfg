SPECIFICATION FairSpec
CONSTANTS
  None = None
  g1 = g1
  g2 = g2
  Devices = {d1}
  Gateways = {g1, g2}
  DefaultGateway = g1
  MaxFaults = 2
  Preferred <- PreferSecond
INVARIANTS
  ControlInv
  RunningIsBacked
  ReferenceIsBacked
PROPERTIES
  NewDeviceBoots
  EndpointIsRepaired

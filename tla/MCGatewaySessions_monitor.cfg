SPECIFICATION HeartbeatSpec
CONSTANTS
  None = None
  Conns = {c1, c2}
  Keys = {k1}
  MaxDevices = 1
  MaxNonces = 1
  RequireClientAuth = FALSE
  PairingMode = TRUE
  Inputs = {"provision", "anonymous", "certificate", "close", "late frame",
            "heartbeat", "enroll", "restart"}
PROPERTIES
  LostDeviceLeavesConnected
  UnreachableRecovers
CHECK_DEADLOCK FALSE

SPECIFICATION Spec
CONSTANTS
  None = None
  Conns = {c1, c2}
  Keys = {k1, k2}
  MaxDevices = 2
  MaxNonces = 2
  RequireClientAuth = FALSE
  PairingMode = TRUE
  Inputs = {"anonymous", "certificate", "close", "heartbeat", "enroll",
            "expiry", "pairing", "connect", "other"}
SYMMETRY Symmetry
INVARIANTS
  NonceOnce
  ProvedByHolder
  SenderIsTheBoard
PROPERTY ConnectedByItsBoard

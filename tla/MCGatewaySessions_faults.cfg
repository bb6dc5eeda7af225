SPECIFICATION Spec
CONSTANTS
  None = None
  Conns = {c1, c2}
  Keys = {k1, k2}
  MaxDevices = 1
  MaxNonces = 1
  RequireClientAuth = FALSE
  PairingMode = TRUE
  Inputs = {"provision", "anonymous", "certificate", "close",
            "enroll", "invalid", "delete", "deploy", "api error", "restart"}
SYMMETRY Symmetry
INVARIANTS
  SessionInv
  ClosedIsUnmapped
  BoundOnceProved
  SenderIsTheBoard
  KeyMapAgrees
CHECK_DEADLOCK FALSE

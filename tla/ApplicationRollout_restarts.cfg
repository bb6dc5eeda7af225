SPECIFICATION Spec
CONSTANTS
  None = None
  Devices = {d1}
  Slots = {r1}
  MaxFrames = 1
  Inputs = {"controller", "controller_restart", "gateway_restart", "connect",
            "operator_deploy", "operator_stop", "load_error", "telemetry",
            "status_error", "stop_ack", "unresolved", "api_error"}
INVARIANTS
  DispatchInv

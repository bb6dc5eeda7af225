---------------------------- MODULE DevicePhases ----------------------------
(***************************************************************************)
(* The status of a Device resource and the patches the gateway applies to  *)
(* it: crates/wasmbed-k8s-resource, device.rs and device_client.rs.        *)
(*                                                                         *)
(* A status is abstracted to the three fields other components decide on:  *)
(*   phase    the DevicePhase;                                             *)
(*   gateway  whether status.gateway is set;                               *)
(*   hb       the age of status.last_heartbeat: "none" when it was never   *)
(*            written, "fresh" within the heartbeat timeout, "stale" past  *)
(*            it.                                                          *)
(* connected_since and pairing_mode are written and never read back.       *)
(***************************************************************************)

Phases == {"Pending", "Enrolling", "Enrolled", "Connected", "Disconnected",
           "Unreachable"}

HeartbeatAges == {"none", "fresh", "stale"}

DeviceStatus == [phase : Phases, gateway : BOOLEAN, hb : HeartbeatAges]

(* What the API server stores for a new Device: the status that the create *)
(* call carries is dropped (status is a subresource of the CRD) and the    *)
(* readers fall back on DevicePhase::default().                            *)
InitialStatus == [phase |-> "Pending", gateway |-> FALSE, hb |-> "none"]

(* The DeviceStatusUpdate builders: each returns the status that the merge *)
(* patch of apply leaves behind.  A field that the update does not set is  *)
(* kept; a field that it sets to None is cleared.  The phase tables        *)
(* (validate_transition) guard nothing: a transition they do not list is   *)
(* logged and made.                                                        *)
mark_connected(s)    == [s EXCEPT !.phase = "Connected", !.gateway = TRUE]
mark_enrolled(s)     == [s EXCEPT !.phase = "Enrolled"]
mark_disconnected(s) == [s EXCEPT !.phase = "Disconnected", !.gateway = FALSE]
mark_unreachable(s)  == [s EXCEPT !.phase = "Unreachable", !.gateway = FALSE]
update_heartbeat(s)  == [s EXCEPT !.hb = "fresh"]

=============================================================================

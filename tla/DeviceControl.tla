---------------------------- MODULE DeviceControl ---------------------------
(***************************************************************************)
(* The controllers that bring devices and gateways up, around the two      *)
(* resources they share: the device controller and the gateway controller, *)
(* the API server's operations on Device and Gateway resources, and what   *)
(* the gateway process writes into a Device's status.                      *)
(*                                                                         *)
(* The device controller reconciles a snapshot of a Device: everything it  *)
(* writes is the snapshot with some fields changed, patched over whatever  *)
(* the resource has become meanwhile.  A field that is None in the patch   *)
(* is left out of it (skip_serializing_if) and so keeps its value.         *)
(*                                                                         *)
(* The sessions of GatewaySessions are abstracted to none, lost or live    *)
(* with some gateway and the gateway's patches are single steps; starting  *)
(* the emulation is one step here and detailed in EmulatedBoards.          *)
(***************************************************************************)
EXTENDS Naturals, DevicePhases

CONSTANTS
  Devices,         \* names of Device resources
  Gateways,        \* names of Gateway resources
  Preferred,       \* spec.preferredGateway of each device, or None
  DefaultGateway,  \* the gateway behind the default endpoints
  MaxFaults,       \* bound on operator requests and failures
  None

ASSUME ControlAssumption ==
  /\ None \notin Gateways
  /\ "lost" \notin Gateways \cup {None}
  /\ Preferred \in [Devices -> Gateways \cup {None}]
  /\ DefaultGateway \in Gateways
  /\ MaxFaults \in Nat

VARIABLES
  exists,    \* the Device resources there are
  dev,       \* status of each Device
  ctl,       \* reconcile in progress for each Device
  gw,        \* Gateway resources: phase and spec.endpoint
  built,     \* Deployment and Service of each gateway
  spawned,   \* gateways whose process another gateway process spawned
  secret,    \* whether the gateway-certificates secret exists
  gctl,      \* reconcile in progress for each Gateway
  boards,    \* the devices whose emulated board is on
  session,   \* TLS session of each board: its gateway, None, or "lost"
  request,   \* connect request in progress at the API server, per device
  faults     \* operator requests and failures so far

devVars == <<exists, dev>>
gwVars  == <<gw, built, spawned, secret, gctl>>
vars == <<exists, dev, ctl, gw, built, spawned, secret, gctl, boards, session,
          request, faults>>

Status == [phase : Phases \cup {"None"}, ref : Gateways \cup {None},
           ep : BOOLEAN, hb : HeartbeatAges]

NoStatus == [phase |-> "None", ref |-> None, ep |-> FALSE, hb |-> "none"]

Idle == [pc |-> "idle", snap |-> NoStatus, out |-> NoStatus, next |-> "idle"]

GwIdle == [pc |-> "idle", fix |-> FALSE]

NoRequest == [name |-> None, started |-> FALSE]

Init ==
  /\ exists = {}
  /\ dev = [d \in Devices |-> NoStatus]
  /\ ctl = [d \in Devices |-> Idle]
  /\ gw = [g \in Gateways |-> [phase |-> "absent", endpoint |-> "service"]]
  /\ built = [g \in Gateways |-> {}]
  /\ spawned = {}
  /\ secret = FALSE
  /\ gctl = [g \in Gateways |-> GwIdle]
  /\ boards = {}
  /\ session = [d \in Devices |-> None]
  /\ request = [d \in Devices |-> NoRequest]
  /\ faults = 0

(* Requests of operators and failures are counted and bounded.             *)
Fault == faults < MaxFaults /\ faults' = faults + 1

-----------------------------------------------------------------------------
(* Device controller *)

Active == {g \in Gateways : gw[g].phase = "Running"}

(* The preferred gateway when it is active, else one picked by the hash of *)
(* the device's name.                                                      *)
Choices(d) == IF Preferred[d] \in Active THEN {Preferred[d]} ELSE Active

NeedsGateway(d, s) ==
  \/ s.ref = None
  \/ ~s.ep
  \/ Preferred[d] # None /\ s.ref # Preferred[d]

(* Continue the reconcile of d at pc; the snapshot is dropped at its end.  *)
Goto(d, pc) ==
  ctl' = [ctl EXCEPT ![d] = IF pc = "reboot"
                              THEN [Idle EXCEPT !.pc = pc, !.snap = ctl[d].snap]
                              ELSE [Idle EXCEPT !.pc = pc]]

(* Continue with the patch of the status to s, and then at next.           *)
Write(d, s, next) ==
  ctl' = [ctl EXCEPT ![d] =
    [pc |-> "patch", snap |-> IF next = "reboot" THEN ctl[d].snap ELSE NoStatus,
     out |-> s, next |-> next]]

initialize_device == [NoStatus EXCEPT !.phase = "Pending"]

handle_pending(s) == [s EXCEPT !.phase = "Enrolling"]

(* Mutant: an Enrolled device is taken to have its board started.          *)
FirstStepNoBoot(d, s) ==
  CASE s.phase = "Enrolling" -> "enroll"
    [] s.phase = "Enrolled"  -> IF NeedsGateway(d, s) THEN "assign" ELSE "idle"
    [] s.phase = "Connected" -> IF s.ref # None THEN "check" ELSE "reboot"
    [] OTHER                 -> "register"

FirstStep(d, s) ==
  CASE s.phase = "Enrolling" -> "enroll"
    [] s.phase = "Enrolled"  -> IF NeedsGateway(d, s) THEN "assign" ELSE "boot"
    [] s.phase = "Connected" -> IF s.ref # None THEN "check" ELSE "reboot"
    [] OTHER                 -> "register"

(* The snapshot is kept by the steps that write it back.                   *)
Begin(pc, s) ==
  [Idle EXCEPT !.pc = pc, !.snap = IF pc \in {"boot", "register"}
                                     THEN NoStatus ELSE s]

reconcile(d) ==
  LET s == dev[d]
  IN  /\ d \in exists
      /\ ctl[d].pc = "idle"
      /\ CASE s.phase = "None"    -> Write(d, initialize_device, "idle")
           [] s.phase = "Pending" -> Write(d, handle_pending(s), "idle")
           [] OTHER -> ctl' = [ctl EXCEPT ![d] = Begin(FirstStep(d, s), s)]
      /\ UNCHANGED <<devVars, gwVars, boards, session, request, faults>>

(* Mutant: a gateway is picked from all that exist, not the running ones.  *)
handle_enrollment_any(d) ==
  /\ ctl[d].pc = "enroll"
  /\ \/ Active = {} /\ Goto(d, "idle")
     \/ \E g \in {x \in Gateways : gw[x].phase # "absent"} :
          Write(d, [ctl[d].snap EXCEPT !.phase = "Enrolled", !.ref = g,
                                       !.ep = TRUE], "idle")
  /\ UNCHANGED <<devVars, gwVars, boards, session, request, faults>>

(* Two seconds pass between the list of gateways and the patch.            *)
handle_enrollment(d) ==
  /\ ctl[d].pc = "enroll"
  /\ \/ Active = {} /\ Goto(d, "idle")
     \/ \E g \in Choices(d) :
          Write(d, [ctl[d].snap EXCEPT !.phase = "Enrolled", !.ref = g,
                                       !.ep = TRUE], "idle")
  /\ UNCHANGED <<devVars, gwVars, boards, session, request, faults>>

handle_enrolled(d) ==
  /\ ctl[d].pc = "assign"
  /\ \/ Active = {} /\ Goto(d, "boot")
     \/ \E g \in Choices(d) :
          Write(d, [ctl[d].snap EXCEPT !.ref = g, !.ep = TRUE], "boot")
  /\ UNCHANGED <<devVars, gwVars, boards, session, request, faults>>

(* The API server starts the board; it refuses one that is running, and    *)
(* may fail.  Which gateway it is started for binds nobody (see Attach).   *)
StartBoard(d) ==
  \/ boards' = boards \cup {d} /\ UNCHANGED faults
  \/ d \notin boards /\ Fault /\ UNCHANGED boards

start_renode_device(d) ==
  /\ ctl[d].pc = "boot"
  /\ StartBoard(d)
  /\ Goto(d, "idle")
  /\ UNCHANGED <<devVars, gwVars, session, request>>

(* A connected device whose gateway is gone is disconnected; one without   *)
(* an endpoint gets the default one.  A Pending gateway has no status yet  *)
(* and passes the check of its phase.                                      *)
handle_connected(d) ==
  LET s == ctl[d].snap
  IN  /\ ctl[d].pc = "check"
      /\ \/ /\ gw[s.ref].phase = "absent"
            /\ Write(d, [s EXCEPT !.phase = "Disconnected", !.ref = None],
                     "idle")
            /\ UNCHANGED faults
         \/ /\ gw[s.ref].phase # "absent"
            /\ IF s.ep THEN Goto(d, "reboot")
                       ELSE Write(d, [s EXCEPT !.ep = TRUE], "reboot")
            /\ UNCHANGED faults
         \/ Fault /\ Goto(d, "reboot")
      /\ UNCHANGED <<devVars, gwVars, boards, session, request>>

(* The end of handle_connected: a failed start is tolerated, and the       *)
(* snapshot is written back with a new heartbeat.                          *)
handle_connected_end(d) ==
  /\ ctl[d].pc = "reboot"
  /\ StartBoard(d)
  /\ Write(d, [ctl[d].snap EXCEPT !.hb = "fresh"], "idle")
  /\ UNCHANGED <<devVars, gwVars, session, request>>

(* handle_disconnected and handle_unreachable ask a gateway to expect the  *)
(* device; they leave its status alone.                                    *)
handle_disconnected(d) ==
  /\ ctl[d].pc = "register"
  /\ Goto(d, "idle")
  /\ UNCHANGED <<devVars, gwVars, boards, session, request, faults>>

(* The merge patch: what is None in s is not part of it.                   *)
Merge(old, s) ==
  [phase |-> s.phase,
   ref   |-> IF s.ref = None THEN old.ref ELSE s.ref,
   ep    |-> IF s.ref = None THEN old.ep ELSE s.ep,
   hb    |-> IF s.hb = "none" THEN old.hb ELSE s.hb]

update_device_status(d) ==
  /\ ctl[d].pc = "patch"
  /\ d \in exists
  /\ dev' = [dev EXCEPT ![d] = Merge(@, ctl[d].out)]
  /\ Goto(d, ctl[d].next)
  /\ UNCHANGED <<exists, gwVars, boards, session, request, faults>>

(* patch_status fails and the fallback, a plain patch, succeeds: it leaves *)
(* the status subresource alone, and the reconcile goes on.                *)
PatchIgnored(d) ==
  /\ ctl[d].pc = "patch"
  /\ d \in exists
  /\ Fault
  /\ Goto(d, ctl[d].next)
  /\ UNCHANGED <<devVars, gwVars, boards, session, request>>

(* When both fail the reconcile ends, except at the patch of the endpoint. *)
PatchFails(d) ==
  /\ ctl[d].pc = "patch"
  /\ \/ d \notin exists /\ UNCHANGED faults
     \/ Fault
  /\ Goto(d, IF ctl[d].next = "reboot" THEN "reboot" ELSE "idle")
  /\ UNCHANGED <<devVars, gwVars, boards, session, request>>

Controller(d) ==
  \/ reconcile(d)
  \/ handle_enrollment(d)
  \/ handle_enrolled(d)
  \/ start_renode_device(d)
  \/ handle_connected(d)
  \/ handle_connected_end(d)
  \/ handle_disconnected(d)
  \/ update_device_status(d)
  \/ PatchIgnored(d)
  \/ PatchFails(d)

-----------------------------------------------------------------------------
(* Gateway controller *)

Exists(g) == gw[g].phase # "absent"

(* Mutant: the endpoint is corrected while a gateway is Pending only.      *)
GwFirstStepPendingOnly(g) ==
  IF gw[g].phase = "Pending" THEN "secret" ELSE "status"

(* The endpoint of the snapshot is compared with the name of the service.  *)
(* handle_pending lets any name within the cluster pass, handle_running    *)
(* none but that of the service.                                           *)
GwFirstStep(g) ==
  CASE gw[g].phase = "Pending" -> "secret"
    [] gw[g].phase # "Pending" /\ gw[g].endpoint # "service" -> "endpoint"
    [] gw[g].phase # "Pending" /\ gw[g].endpoint = "service" -> "status"

GwReconcile(g) ==
  /\ Exists(g)
  /\ gctl[g].pc = "idle"
  /\ gctl' = [gctl EXCEPT ![g] = [pc |-> GwFirstStep(g), fix |->
                 gw[g].phase = "Pending" /\ gw[g].endpoint = "other"]]
  /\ UNCHANGED <<devVars, ctl, gw, built, spawned, secret, boards, session,
                 request, faults>>

GwGoto(g, pc) == gctl' = [gctl EXCEPT ![g].pc = pc]

(* A secret that does not exist is created empty, with a warning that the  *)
(* pods will fail until somebody adds the certificates: outside the model, *)
(* and at any time.                                                        *)
ensure_certificates_secret(g) ==
  /\ gctl[g].pc = "secret"
  /\ secret' = TRUE
  /\ GwGoto(g, "deployment")
  /\ UNCHANGED <<devVars, ctl, gw, built, spawned, boards, session, request,
                 faults>>

create_gateway_deployment(g) ==
  /\ gctl[g].pc = "deployment"
  /\ built' = [built EXCEPT ![g] = @ \cup {"deployment"}]
  /\ GwGoto(g, "service")
  /\ UNCHANGED <<devVars, ctl, gw, spawned, secret, boards, session, request,
                 faults>>

create_gateway_service(g) ==
  /\ gctl[g].pc = "service"
  /\ built' = [built EXCEPT ![g] = @ \cup {"service"}]
  /\ gctl' = [gctl EXCEPT ![g] =
       [pc |-> IF @.fix THEN "endpoint" ELSE "status", fix |-> FALSE]]
  /\ UNCHANGED <<devVars, ctl, gw, spawned, secret, boards, session, request,
                 faults>>

(* The endpoint becomes the name of the service; a failure is ignored.     *)
FixEndpoint(g) ==
  /\ gctl[g].pc = "endpoint"
  /\ \/ UNCHANGED faults /\ gw' = [gw EXCEPT ![g].endpoint = "service"]
     \/ Fault /\ UNCHANGED gw
  /\ GwGoto(g, "status")
  /\ UNCHANGED <<devVars, ctl, built, spawned, secret, boards, session,
                 request>>

update_gateway_status(g, phase) == gw' = [gw EXCEPT ![g].phase = phase]

(* The last step of handle_pending and of handle_running: the devices are  *)
(* counted and the status becomes Running.                                 *)
GwReport(g) ==
  /\ gctl[g].pc = "status"
  /\ Exists(g)
  /\ update_gateway_status(g, "Running")
  /\ gctl' = [gctl EXCEPT ![g] = GwIdle]
  /\ UNCHANGED <<devVars, ctl, built, spawned, secret, boards, session,
                 request, faults>>

(* Mutant: a failed step is logged and the next one taken.                 *)
GwContinues(g) ==
  /\ gctl[g].pc # "idle"
  /\ \/ gctl[g].pc = "status" /\ ~Exists(g) /\ UNCHANGED faults
     \/ Fault
  /\ GwGoto(g, CASE gctl[g].pc = "secret"     -> "deployment"
                 [] gctl[g].pc = "deployment" -> "service"
                 [] gctl[g].pc = "service"    -> "status"
                 [] OTHER                     -> "idle")
  /\ UNCHANGED <<devVars, ctl, gw, built, spawned, secret, boards, session,
                 request>>

(* A step that fails, or a restart, ends the reconcile: nothing after it   *)
(* is done.                                                                *)
GwFails(g) ==
  /\ gctl[g].pc # "idle"
  /\ \/ gctl[g].pc = "status" /\ ~Exists(g) /\ UNCHANGED faults
     \/ Fault
  /\ gctl' = [gctl EXCEPT ![g] = GwIdle]
  /\ UNCHANGED <<devVars, ctl, gw, built, spawned, secret, boards, session,
                 request>>

GatewayController(g) ==
  \/ GwReconcile(g)
  \/ ensure_certificates_secret(g)
  \/ create_gateway_deployment(g)
  \/ create_gateway_service(g)
  \/ FixEndpoint(g)
  \/ GwReport(g)
  \/ GwFails(g)

-----------------------------------------------------------------------------
(* What the gateway process writes *)

(* A process was deployed or spawned under the gateway's name.  It runs    *)
(* once the secret holds certificates, or with those it was spawned with.  *)
Started(g) == "deployment" \in built[g] \/ g \in spawned

(* A board that is on reaches some gateway, not always the one it was      *)
(* started for: all services share one NodePort.  Whichever accepts the    *)
(* connection writes its own name.                                         *)
Attach(d, g) ==
  /\ d \in boards
  /\ Started(g)
  /\ session[d] = None
  /\ d \in exists
  /\ session' = [session EXCEPT ![d] = g]
  /\ dev' = [dev EXCEPT ![d].phase = "Connected", ![d].ref = g,
                        ![d].ep = FALSE]
  /\ UNCHANGED <<exists, ctl, gwVars, boards, request, faults>>

IsLive(d) == session[d] \in Gateways

Heartbeat(d) ==
  /\ IsLive(d)
  /\ d \in exists
  /\ dev' = [dev EXCEPT ![d] =
       IF @.phase = "Unreachable"
         THEN [phase |-> "Connected", ref |-> session[d], ep |-> FALSE,
               hb |-> "fresh"]
         ELSE [@ EXCEPT !.hb = "fresh"]]
  /\ UNCHANGED <<exists, ctl, gwVars, boards, session, request, faults>>

Lose(d) ==
  /\ IsLive(d)
  /\ Fault
  /\ session' = [session EXCEPT ![d] = "lost"]
  /\ UNCHANGED <<devVars, ctl, gwVars, boards, request>>

(* on_disconnect: the gateway sees that the connection is closed.          *)
Noticed(d) ==
  /\ session[d] = "lost"
  /\ session' = [session EXCEPT ![d] = None]
  /\ dev' = IF d \in exists
              THEN [dev EXCEPT ![d].phase = "Disconnected", ![d].ref = None,
                               ![d].ep = FALSE]
              ELSE dev
  /\ UNCHANGED <<exists, ctl, gwVars, boards, request, faults>>

(* The heartbeat timeout passes; snapshots age with the resource.          *)
Old(s) == [s EXCEPT !.hb = IF @ = "fresh" THEN "stale" ELSE @]

HeartbeatTimeout(d) ==
  /\ ~IsLive(d)
  /\ "fresh" \in {dev[d].hb, ctl[d].snap.hb, ctl[d].out.hb}
  /\ dev' = [dev EXCEPT ![d] = Old(@)]
  /\ ctl' = [ctl EXCEPT ![d].snap = Old(@), ![d].out = Old(@)]
  /\ UNCHANGED <<exists, gwVars, boards, session, request, faults>>

Sweep(d) ==
  /\ d \in exists
  /\ dev[d].phase = "Connected"
  /\ dev[d].hb = "stale"
  /\ dev' = [dev EXCEPT ![d].phase = "Unreachable", ![d].ref = None,
                        ![d].ep = FALSE]
  /\ UNCHANGED <<exists, ctl, gwVars, boards, session, request, faults>>

-----------------------------------------------------------------------------
(* The API server's operations *)

create_device(d) ==
  /\ d \notin exists
  /\ exists' = exists \cup {d}
  /\ UNCHANGED <<dev, ctl, gwVars, boards, session, request, faults>>

delete_device(d) ==
  /\ d \in exists
  /\ Fault
  /\ exists' = exists \ {d}
  /\ dev' = [dev EXCEPT ![d] = NoStatus]
  /\ UNCHANGED <<ctl, gwVars, boards, session, request>>

enroll_device(d) ==
  /\ d \in exists
  /\ Fault
  /\ dev' = [dev EXCEPT ![d].phase = "Enrolled"]
  /\ UNCHANGED <<exists, ctl, gwVars, boards, session, request>>

(* The patch merges an empty reference: an existing one stays, and without *)
(* one the API server of Kubernetes rejects it.                            *)
disconnect_device(d) ==
  /\ d \in exists
  /\ dev[d].ref # None
  /\ Fault
  /\ dev' = [dev EXCEPT ![d].phase = "Disconnected"]
  /\ UNCHANGED <<exists, ctl, gwVars, boards, session, request>>

(* stop_emulation_handler                                                  *)
StopBoard(d) ==
  /\ d \in boards
  /\ Fault
  /\ boards' = boards \ {d}
  /\ session' = [session EXCEPT ![d] = IF @ = None THEN None ELSE "lost"]
  /\ UNCHANGED <<devVars, ctl, gwVars, request>>

(* connect_device_standalone_handler reads the gateway's name, starts the  *)
(* board and, when that worked, writes the name back.  The start is        *)
(* refused while the board runs; start and patch may fail.                 *)
Target(d) == IF dev[d].ref # None THEN dev[d].ref ELSE DefaultGateway

ConnectReads(d) ==
  /\ d \in exists
  /\ request[d] = NoRequest
  /\ Fault
  /\ request' = [request EXCEPT ![d] = [name |-> Target(d), started |-> FALSE]]
  /\ UNCHANGED <<devVars, ctl, gwVars, boards, session>>

ConnectStarts(d) ==
  /\ request[d] # NoRequest
  /\ ~request[d].started
  /\ \/ /\ d \notin boards
        /\ boards' = boards \cup {d}
        /\ request' = [request EXCEPT ![d].started = TRUE]
     \/ /\ request' = [request EXCEPT ![d] = NoRequest]
        /\ UNCHANGED boards
  /\ UNCHANGED <<devVars, ctl, gwVars, session, faults>>

ConnectPatches(d) ==
  /\ request[d].started
  /\ \/ /\ d \in exists
        /\ dev' = [dev EXCEPT ![d].phase = "Enrolling",
                              ![d].ref = request[d].name, ![d].ep = TRUE]
     \/ UNCHANGED dev
  /\ request' = [request EXCEPT ![d] = NoRequest]
  /\ UNCHANGED <<exists, ctl, gwVars, boards, session, faults>>

Endpoints == {"service", "cluster", "other"}

create_gateway(g) ==
  /\ ~Exists(g)
  /\ gw' = [gw EXCEPT ![g] = [phase |-> "Pending", endpoint |-> "service"]]
  /\ UNCHANGED <<devVars, ctl, built, spawned, secret, gctl, boards, session,
                 request, faults>>

(* create_gateway of a running gateway's own API: the endpoint is that of  *)
(* the request, and a process is spawned.  One that does not start leaves  *)
(* what create_gateway and update_gateway leave.                           *)
SpawnGateway(g) ==
  /\ \E h \in Gateways : Started(h)
  /\ ~Exists(g)
  /\ Fault
  /\ \E e \in Endpoints :
       gw' = [gw EXCEPT ![g] = [phase |-> "Pending", endpoint |-> e]]
  /\ spawned' = spawned \cup {g}
  /\ UNCHANGED <<devVars, ctl, built, secret, gctl, boards, session, request>>

(* The resource goes; Deployment and Service have no owner and stay.       *)
delete_gateway(g) ==
  /\ Exists(g)
  /\ Fault
  /\ gw' = [gw EXCEPT ![g].phase = "absent"]
  /\ UNCHANGED <<devVars, ctl, built, spawned, secret, gctl, boards, session,
                 request>>

update_gateway(g) ==
  /\ Exists(g)
  /\ Fault
  /\ \E e \in Endpoints \ {gw[g].endpoint} :
       gw' = [gw EXCEPT ![g].endpoint = e]
  /\ UNCHANGED <<devVars, ctl, built, spawned, secret, gctl, boards, session,
                 request>>

-----------------------------------------------------------------------------
GatewayProcess(d) ==
  \/ \E g \in Gateways : Attach(d, g)
  \/ Heartbeat(d)
  \/ Lose(d)
  \/ Noticed(d)
  \/ HeartbeatTimeout(d)
  \/ Sweep(d)

DeviceRequests(d) ==
  \/ create_device(d)
  \/ delete_device(d)
  \/ enroll_device(d)
  \/ disconnect_device(d)
  \/ StopBoard(d)
  \/ ConnectReads(d)
  \/ ConnectStarts(d)
  \/ ConnectPatches(d)

GatewayRequests(g) ==
  \/ create_gateway(g)
  \/ SpawnGateway(g)
  \/ delete_gateway(g)
  \/ update_gateway(g)

Next ==
  \/ \E d \in Devices : Controller(d) \/ GatewayProcess(d) \/ DeviceRequests(d)
  \/ \E g \in Gateways : GatewayController(g) \/ GatewayRequests(g)

Spec == Init /\ [][Next]_vars

(* The controllers requeue every resource after 30 s.  Nothing else is     *)
(* owed: not by boards, gateway processes, operators or failures.          *)
FairSpec ==
  /\ Spec
  /\ \A d \in Devices : WF_vars(Controller(d))
  /\ \A g \in Gateways : WF_vars(GatewayController(g))

-----------------------------------------------------------------------------
(* Properties *)

CtlStates == [pc : {"idle", "enroll", "assign", "boot", "check", "reboot",
                    "register", "patch"},
              snap : Status, out : Status, next : {"idle", "boot", "reboot"}]

GatewayStates == [phase : {"absent", "Pending", "Running"},
                  endpoint : Endpoints]

GctlStates == [pc : {"idle", "secret", "deployment", "service", "endpoint",
                     "status"},
               fix : BOOLEAN]

Requests == [name : Gateways \cup {None}, started : BOOLEAN]

TypeOK ==
  /\ exists \subseteq Devices
  /\ dev \in [Devices -> Status]
  /\ ctl \in [Devices -> CtlStates]
  /\ gw \in [Gateways -> GatewayStates]
  /\ built \in [Gateways -> SUBSET {"deployment", "service"}]
  /\ spawned \subseteq Gateways
  /\ secret \in BOOLEAN
  /\ gctl \in [Gateways -> GctlStates]
  /\ boards \subseteq Devices
  /\ session \in [Devices -> Gateways \cup {None, "lost"}]
  /\ request \in [Devices -> Requests]
  /\ faults \in Nat

Backed(g) ==
  secret /\ {"deployment", "service"} \subseteq built[g]

(* A gateway that is Running has its Deployment, its Service and a secret  *)
(* to mount (which may still be empty): whichever step of handle_pending   *)
(* fails, and however often the resource is deleted and created again, the *)
(* status is written last.                                                 *)
RunningIsBacked == \A g \in Gateways : gw[g].phase = "Running" => Backed(g)

(* A device is referred only to a gateway under whose name a process was   *)
(* started: by the device controller, though it writes what it read        *)
(* seconds ago, and by whichever gateway accepts its connection.  Only the *)
(* connect request of the API server may write the default name of a       *)
(* gateway that never ran.                                                 *)
ReferenceIsBacked ==
  \A d \in Devices : dev[d].ref \notin {None, DefaultGateway} =>
                       Started(dev[d].ref)

(* The inductive invariant: every copy of a reference, in snapshots, in    *)
(* patches under way, in sessions and in requests, and every step of the   *)
(* gateway controller, rests on what was built before it.                  *)
GoodRef(g) == g \in {None, DefaultGateway} \/ Started(g)

ControlInv ==
  /\ TypeOK
  /\ RunningIsBacked
  /\ \A d \in Devices : /\ GoodRef(dev[d].ref)
                        /\ GoodRef(ctl[d].snap.ref)
                        /\ GoodRef(ctl[d].out.ref)
                        /\ GoodRef(request[d].name)
                        /\ session[d] # "lost" => GoodRef(session[d])
  /\ \A g \in Gateways :
       /\ gctl[g].pc \in {"deployment", "service"} => secret
       /\ gctl[g].pc = "service" => "deployment" \in built[g]
       /\ gctl[g].pc \in {"endpoint", "status"} => Backed(g)
  /\ \A d \in Devices : ctl[d].pc = "check" => ctl[d].snap.ref # None

(* A new device is brought up: with gateways around, a device that is      *)
(* waiting to be enrolled or started has its board started in the end,     *)
(* unless it is deleted, all gateways are, or it is taken for one that was *)
(* up before.                                                              *)
NewDeviceBoots ==
  \A d \in Devices :
    (/\ d \in exists
     /\ dev[d].phase \in {"None", "Pending", "Enrolling", "Enrolled"}) ~>
      \/ d \in boards
      \/ d \notin exists
      \/ dev[d].phase \in {"Disconnected", "Unreachable"}
      \/ \A g \in Gateways : ~Exists(g)

(* The gateway controller takes back every endpoint that operators change: *)
(* once their requests end, all gateways come to have the names of their   *)
(* services, for good.  handle_running compares the endpoint on every      *)
(* reconcile, what handle_pending let pass comes to it in the end, and no  *)
(* patch under way brings an old one back.                                 *)
EndpointIsRepaired ==
  <>[](\A g \in Gateways : Exists(g) => gw[g].endpoint = "service")

=============================================================================

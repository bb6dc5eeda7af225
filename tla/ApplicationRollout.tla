------------------------ MODULE ApplicationRollout ------------------------
(***************************************************************************)
(* One Application resource, from its creation to the boards and back: the *)
(* reconciler of wasmbed-application-controller, the deploy and stop       *)
(* handlers of the gateway's HTTP API with the tasks they spawn, the       *)
(* Application frames of on_message, the board (zephyr-app), and the       *)
(* status they all patch.                                                  *)
(*                                                                         *)
(* Every writer of the gateway gets the Application, and later sends a     *)
(* merge patch computed from that snapshot (ApplicationStatusUpdate); the  *)
(* get and the patch are separate steps.  The sessions of GatewaySessions  *)
(* are abstracted to one state per device:                                 *)
(*   "none"  the entry has no TLS sender;                                  *)
(*   "live"  its sender writes to the board;                               *)
(*   "dead"  its sender belongs to a connection that is closed: a message  *)
(*           is queued and its write fails without a trace.                *)
(***************************************************************************)
EXTENDS Integers, Sequences, FiniteSets

CONSTANTS
  Devices,     \* the target devices of the application; their Devices exist
  Slots,       \* bound: gateway requests in progress at a time
  MaxFrames,   \* bound: frames in flight on a connection, each way
  None,        \* no device, no request, no phase
  Inputs       \* what the environment does in this instance

InputKinds == {"controller", "operator_deploy", "operator_stop", "connect",
               "lose", "reset", "load_error", "telemetry", "status_error",
               "stop_ack", "unresolved", "api_error", "controller_restart",
               "gateway_restart"}

ASSUME RolloutAssumption ==
  /\ Devices # {}
  /\ MaxFrames \in Nat
  /\ None \notin Devices \cup Slots \cup STRING
  /\ Inputs \subseteq InputKinds

ApiMayFail == "api_error" \in Inputs

AppPhases == {"Creating", "Deploying", "Running", "PartiallyRunning", "Failed",
              "Stopping", "Stopped"}
DevPhases == {"Deploying", "Running", "Failed", "Stopped"}

(* deviceStatuses: a device without an entry maps to "none".               *)
DeviceStatuses == [Devices -> DevPhases \cup {"none"}]
AppStatus == [phase : AppPhases, dev : DeviceStatuses]

NoStatuses == [d \in Devices |-> "none"]
NoStatus == [phase |-> "Creating", dev |-> NoStatuses]

VARIABLES
  app,       \* status of the Application resource
  cache,     \* app_phases of the controller
  ctl,       \* what the reconciler is doing
  req,       \* the gateway's deploy and stop requests
  hand,      \* the frame that the reader task of a device is handling
  sender,    \* tls_sender of a device
  connected, \* devices whose resource has phase Connected
  cmds,      \* commands on their way to a board
  acks,      \* Application frames on their way to the gateway
  board,     \* boards whose app_deployed flag is set
  found      \* devices for which a deploy request ever found a sender

ctlVars   == <<cache, ctl>>
wireVars  == <<sender, connected, cmds, acks, board>>
vars == <<app, ctlVars, req, hand, wireVars, found>>

-----------------------------------------------------------------------------
(* The status patch *)

Keep == "keep"

(* ApplicationStatusUpdate::apply: the patch holds a phase, that of the    *)
(* snapshot unless one is being set, and every device that the snapshot    *)
(* has seen, as it was, but for the one that is being set; other devices   *)
(* are kept by the merge.                                                  *)
apply(seen, phase, d, devPhase) ==
  [phase |-> phase,
   dev   |-> [e \in Devices |-> IF e = d /\ devPhase # Keep THEN devPhase
                                ELSE IF seen[e] # "none" THEN seen[e]
                                ELSE app.dev[e]]]

(* A gateway writer's patch: an error of the API is logged.                *)
PatchApp(new) ==
  \/ app' = new
  \/ ApiMayFail /\ UNCHANGED app

-----------------------------------------------------------------------------
(* Requests at the gateway *)

(* A request sets the phase: of its snapshot only the devices count.       *)
Free == [at |-> "free", kind |-> "deploy", dev |-> None, seen |-> NoStatuses,
         out |-> "Running"]

(* Stages of a request: "wait" and "mark" in the HTTP handler, the others  *)
(* in the task that it spawns.                                             *)
InHandler == {"wait", "mark"}

Idle == [at |-> "idle", todo |-> {}, seen |-> {}, result |-> NoStatuses,
         call |-> None]

(* The HTTP response reaches the controller, if it is the one waiting.     *)
Respond(r, success) ==
  IF ctl.call # r THEN UNCHANGED ctl
  ELSE ctl' = [ctl EXCEPT !.at = "deploy", !.call = None,
                          !.result[req[r].dev] =
                             IF success THEN "Running" ELSE "Failed"]

NewRequest(r, kind, d, at) ==
  /\ req[r].at = "free"
  /\ req' = [req EXCEPT ![r] = [Free EXCEPT !.at = at, !.kind = kind,
                                            !.dev = d, !.seen = app.dev]]

(* deploy_application_by_id of the API server calls deploy_application of  *)
(* the gateway for a target device, up to its get.                         *)
OperatorDeploy(r, d) ==
  /\ "operator_deploy" \in Inputs
  /\ NewRequest(r, "deploy", d, "wait")
  /\ UNCHANGED <<app, ctlVars, hand, wireVars, found>>

(* stop_application of the HTTP API, up to its get.  The device has an     *)
(* entry, with or without a sender; a get that fails only skips the patch. *)
stop_application(r, d) ==
  \/ NewRequest(r, "stop", d, "mark")
  \/ ApiMayFail /\ NewRequest(r, "stop", d, "send")

(* stop_application_by_id of the API server calls it for a target device.  *)
OperatorStop(r, d) ==
  /\ "operator_stop" \in Inputs
  /\ stop_application(r, d)
  /\ UNCHANGED <<app, ctlVars, hand, wireVars, found>>

(* deploy_application: the wait for a TLS sender finds one.                *)
DeployReady(r) ==
  /\ req[r].at = "wait"
  /\ sender[req[r].dev] # "none"
  /\ req' = [req EXCEPT ![r].at = "mark"]
  /\ found' = found \cup {req[r].dev}
  /\ UNCHANGED <<app, ctlVars, hand, wireVars>>

(* Mutant: a request that has waited in vain is answered with success.     *)
DeployTimeoutSucceeds(r) ==
  /\ req[r].at = "wait"
  /\ sender[req[r].dev] = "none"
  /\ req' = [req EXCEPT ![r] = Free]
  /\ Respond(r, TRUE)
  /\ UNCHANGED <<app, cache, hand, wireVars, found>>

(* Mutant: the wait for a sender has no end.                               *)
DeployNeverTimesOut(r) == FALSE /\ UNCHANGED vars

(* deploy_application: the wait for the registration, or for the sender,   *)
(* ends in vain.                                                           *)
DeployTimeout(r) ==
  /\ req[r].at = "wait"
  /\ sender[req[r].dev] = "none"
  /\ req' = [req EXCEPT ![r] = Free]
  /\ Respond(r, FALSE)
  /\ UNCHANGED <<app, cache, hand, wireVars, found>>

(* Both handlers: patch the status from the snapshot, spawn the task that  *)
(* sends the command, answer with success.                                 *)
Mark(r) ==
  LET q == req[r]
  IN  /\ q.at = "mark"
      /\ PatchApp(IF q.kind = "deploy"
                    THEN apply(q.seen, "Deploying", q.dev, "Deploying")
                    ELSE apply(q.seen, "Stopping", q.dev, Keep))
      /\ req' = [req EXCEPT ![r].at = "send", ![r].seen = NoStatuses]
      /\ Respond(r, TRUE)
      /\ UNCHANGED <<cache, hand, wireVars, found>>

Sent(kind) == IF kind = "deploy" THEN "Running" ELSE "Stopped"

(* deploy_application_to_device and stop_application_on_device: queue the  *)
(* command; a full queue holds the task.                                   *)
Send(r) ==
  LET q == req[r]
      d == q.dev
  IN  /\ q.at = "send"
      /\ \/ /\ sender[d] = "live"
            /\ Len(cmds[d]) < MaxFrames
            /\ cmds' = [cmds EXCEPT ![d] = Append(@, q.kind)]
         \/ sender[d] # "live" /\ UNCHANGED cmds
      /\ req' = [req EXCEPT ![r].at = "report",
                            ![r].out = IF sender[d] = "none" THEN "Failed"
                                       ELSE Sent(q.kind)]
      /\ UNCHANGED <<app, ctlVars, hand, sender, connected, acks,
                     board, found>>

(* The spawned task gets the Application to report the outcome; when that  *)
(* fails it reports nothing.                                               *)
ReportGet(r) ==
  /\ req[r].at = "report"
  /\ \/ req' = [req EXCEPT ![r].at = "patch", ![r].seen = app.dev]
     \/ ApiMayFail /\ req' = [req EXCEPT ![r] = Free]
  /\ UNCHANGED <<app, ctlVars, hand, wireVars, found>>

ReportPatch(r) ==
  LET q == req[r]
  IN  /\ q.at = "patch"
      /\ PatchApp(apply(q.seen, q.out, q.dev, q.out))
      /\ req' = [req EXCEPT ![r] = Free]
      /\ UNCHANGED <<ctlVars, hand, wireVars, found>>

-----------------------------------------------------------------------------
(* The Application frames of on_message *)

NoHand == [frame |-> "none", phase |-> "Creating", seen |-> NoStatuses]

Telemetry == {"status", "error"}

(* ApplicationDeployAck ("ok", "fail") and ApplicationStopAck ("stopped",  *)
(* "fail") set the phase of the application and of the device,             *)
(* ApplicationStatus ("status", or "error" with one) only the device's.    *)
FramePhase(f) ==
  CASE f = "ok"        -> "Running"
    [] f = "fail"      -> "Failed"
    [] f = "stopped"   -> "Stopped"
    [] f \in Telemetry -> app.phase

FrameDevPhase(f) ==
  CASE f \in {"ok", "status"}  -> "Running"
    [] f \in {"fail", "error"} -> "Failed"
    [] f = "stopped"           -> "Stopped"

(* A frame is taken and the Application read.                              *)
AckGet(d) ==
  LET f == Head(acks[d])
  IN  /\ hand[d].frame = "none"
      /\ acks[d] # <<>>
      /\ hand' = [hand EXCEPT ![d] = [frame |-> f, phase |-> FramePhase(f),
                                      seen |-> app.dev]]
      /\ acks' = [acks EXCEPT ![d] = Tail(@)]
      /\ UNCHANGED <<app, ctlVars, req, sender, connected, cmds, board, found>>

(* resolve_device_id: neither the connection nor the key of a board that   *)
(* has not enrolled with this process is mapped.                           *)
Resolved(d) == {d} \cup (IF "unresolved" \in Inputs THEN {None} ELSE {})

(* Without a device, telemetry is dropped and an acknowledgment sets the   *)
(* phase alone.                                                            *)
AckPatch(d) ==
  LET f == hand[d].frame
  IN  /\ f # "none"
      /\ \E who \in Resolved(d) :
           IF who = None /\ f \in Telemetry THEN UNCHANGED app
           ELSE PatchApp(apply(hand[d].seen, hand[d].phase, who,
                               FrameDevPhase(f)))
      /\ hand' = [hand EXCEPT ![d] = NoHand]
      /\ UNCHANGED <<ctlVars, req, wireVars, found>>

(* The get fails: telemetry is dropped, an acknowledgment falls back on    *)
(* update_application_status of main.rs, which patches the phase alone.    *)
AckFallback(d) ==
  LET f == hand[d].frame
  IN  /\ ApiMayFail
      /\ f # "none"
      /\ IF f \in Telemetry THEN UNCHANGED app
         ELSE PatchApp([app EXCEPT !.phase = hand[d].phase])
      /\ hand' = [hand EXCEPT ![d] = NoHand]
      /\ UNCHANGED <<ctlVars, req, wireVars, found>>

-----------------------------------------------------------------------------
(* The board *)

(* A deploy command is refused (it does not parse, or its hash does not    *)
(* match), breaks after the runtime was reset, or succeeds.                *)
BoardDeploys(d) ==
  /\ Len(acks[d]) < MaxFrames
  /\ \/ /\ board' = board \cup {d}
        /\ acks' = [acks EXCEPT ![d] = Append(@, "ok")]
     \/ /\ "load_error" \in Inputs
        /\ board' \in {board, board \ {d}}
        /\ acks' = [acks EXCEPT ![d] = Append(@, "fail")]

(* The firmware ignores a stop; the edge client carries it out and answers *)
(* whether it knew the application.                                        *)
BoardStops(d) ==
  \/ UNCHANGED <<board, acks>>
  \/ /\ "stop_ack" \in Inputs
     /\ Len(acks[d]) < MaxFrames
     /\ board' = board \ {d}
     /\ acks' = [acks EXCEPT ![d] =
                   Append(@, IF d \in board THEN "stopped" ELSE "fail")]

(* wasmbed_protocol_handle_message                                         *)
BoardHandles(d) ==
  /\ cmds[d] # <<>>
  /\ cmds' = [cmds EXCEPT ![d] = Tail(@)]
  /\ IF Head(cmds[d]) = "deploy" THEN BoardDeploys(d) ELSE BoardStops(d)
  /\ UNCHANGED <<app, ctlVars, req, hand, sender, connected, found>>

(* wasmbed_protocol_tick: the periodic ApplicationStatus.  The protocol    *)
(* lets it carry an error, which this firmware never does.                 *)
Reports == {"status"} \cup (IF "status_error" \in Inputs THEN {"error"} ELSE {})

BoardReports(d) ==
  /\ "telemetry" \in Inputs
  /\ d \in board
  /\ sender[d] = "live"
  /\ Len(acks[d]) < MaxFrames
  /\ \E f \in Reports : acks' = [acks EXCEPT ![d] = Append(@, f)]
  /\ UNCHANGED <<app, ctlVars, req, hand, sender, connected, cmds,
                 board, found>>

-----------------------------------------------------------------------------
(* Sessions, as GatewaySessions leaves them *)

(* The board's session is up, its sender wired and its Device Connected.   *)
Connect(d) ==
  /\ "connect" \in Inputs
  /\ sender[d] # "live"
  /\ sender' = [sender EXCEPT ![d] = "live"]
  /\ connected' = connected \cup {d}
  /\ UNCHANGED <<app, ctlVars, req, hand, cmds, acks, board, found>>

(* The session is lost, with the commands on their way; frames that the    *)
(* gateway has received are still handled.  The board may have been reset. *)
Lose(d, s) ==
  /\ "lose" \in Inputs
  /\ sender[d] = "live"
  /\ sender' = [sender EXCEPT ![d] = s]
  /\ cmds' = [cmds EXCEPT ![d] = <<>>]
  /\ \E received \in 0 .. Len(acks[d]) :
       acks' = [acks EXCEPT ![d] = SubSeq(@, 1, received)]
  /\ \/ UNCHANGED board
     \/ "reset" \in Inputs /\ board' = board \ {d}
  /\ UNCHANGED <<app, ctlVars, req, hand, connected, found>>

(* The Device of a lost session leaves Connected, or its stale sender is   *)
(* cleared, some time later.                                               *)
Noticed(d) ==
  /\ sender[d] # "live"
  /\ \/ d \in connected /\ connected' = connected \ {d} /\ UNCHANGED sender
     \/ /\ sender[d] = "dead"
        /\ sender' = [sender EXCEPT ![d] = "none"]
        /\ UNCHANGED connected
  /\ UNCHANGED <<app, ctlVars, req, hand, cmds, acks, board, found>>

(* The gateway process dies and is started again.                          *)
GatewayRestart ==
  /\ "gateway_restart" \in Inputs
  /\ \E d \in Devices : sender[d] # "none"
  /\ req' = [r \in Slots |-> Free]
  /\ hand' = [d \in Devices |-> NoHand]
  /\ sender' = [d \in Devices |-> "none"]
  /\ cmds' = [d \in Devices |-> <<>>]
  /\ acks' = [d \in Devices |-> <<>>]
  /\ IF ctl.call = None THEN UNCHANGED ctl
     ELSE ctl' = [ctl EXCEPT !.at = "deploy", !.call = None,
                             !.result[req[ctl.call].dev] = "Failed"]
  /\ UNCHANGED <<app, cache, connected, board, found>>

-----------------------------------------------------------------------------
(* The application controller *)

(* The phase that reconcile acts on: Application::status() is always None, *)
(* so that the phase in the resource counts as Creating.                   *)
Phase == IF cache = None THEN "Creating" ELSE cache

(* Mutant: a rollout that has failed is final.                             *)
ReconcileNoRetry ==
  /\ "controller" \in Inputs
  /\ ctl.at = "idle"
  /\ \/ /\ Phase = "Creating"
        /\ cache' = "Deploying"
        /\ ctl' = [Idle EXCEPT !.at = "create"]
     \/ /\ Phase = "Deploying"
        /\ ctl' = [Idle EXCEPT !.at = "deploy", !.todo = Devices,
                               !.seen = connected]
        /\ UNCHANGED cache
     \/ /\ Phase = "Running"
        /\ ctl' = [Idle EXCEPT !.at = "running"]
        /\ UNCHANGED cache
     \/ /\ Phase \in {"Failed", "PartiallyRunning"}
        /\ UNCHANGED <<cache, ctl>>
  /\ UNCHANGED <<app, req, hand, wireVars, found>>

(* reconcile, up to the first patch or request.  It runs on every watch    *)
(* event and every 30 s: at any time.                                      *)
Reconcile ==
  /\ "controller" \in Inputs
  /\ ctl.at = "idle"
  /\ \/ /\ Phase = "Creating"
        /\ cache' = "Deploying"
        /\ ctl' = [Idle EXCEPT !.at = "create"]
     \/ /\ Phase = "Deploying"
        /\ ctl' = [Idle EXCEPT !.at = "deploy", !.todo = Devices,
                               !.seen = connected]
        /\ UNCHANGED cache
     \/ /\ Phase = "Running"
        /\ ctl' = [Idle EXCEPT !.at = "running"]
        /\ UNCHANGED cache
     \/ /\ Phase = "Failed"
        /\ ctl' = IF connected # {} THEN [Idle EXCEPT !.at = "retry"] ELSE Idle
        /\ UNCHANGED cache
     \/ /\ Phase = "PartiallyRunning"
        /\ UNCHANGED <<cache, ctl>>
  /\ UNCHANGED <<app, req, hand, wireVars, found>>

(* handle_deploying, one device: a device that was not Connected when the  *)
(* list was read has failed; for another one the gateway is called, which  *)
(* gets the Application.                                                   *)
DeployOne(d) ==
  /\ ctl.at = "deploy"
  /\ d \in ctl.todo
  /\ \/ /\ d \in ctl.seen
        /\ \E r \in Slots :
             /\ NewRequest(r, "deploy", d, "wait")
             /\ ctl' = [ctl EXCEPT !.at = "call", !.call = r,
                                   !.todo = @ \ {d}]
     \/ /\ d \notin ctl.seen \/ ApiMayFail
        /\ ctl' = [ctl EXCEPT !.todo = @ \ {d}, !.result[d] = "Failed"]
        /\ UNCHANGED req
  /\ UNCHANGED <<app, cache, hand, wireVars, found>>

(* The phase that handle_deploying computes from its counts.               *)
DeployedPhase(result) ==
  LET running == {d \in Devices : result[d] = "Running"}
  IN  CASE running = Devices -> "Running"
        [] running = {}      -> "Failed"
        [] OTHER             -> "PartiallyRunning"

(* The status that each handler writes.  A deviceStatuses of None is sent  *)
(* as null, which removes the field.                                       *)
Handled ==
  CASE ctl.at \in {"create", "retry"} -> [phase |-> "Deploying",
                                          dev |-> NoStatuses]
    [] ctl.at = "running"             -> [phase |-> "Running",
                                          dev |-> NoStatuses]
    [] OTHER                          -> [phase |-> DeployedPhase(ctl.result),
                                          dev |-> ctl.result]

(* update_application_status of the controller: the cache follows the      *)
(* patch, and stays when both patches fail.  The second one, which is      *)
(* tried when patch_status fails, succeeds without effect: status is a     *)
(* subresource.                                                            *)
CtlPatch ==
  /\ \/ ctl.at \in {"create", "retry", "running"}
     \/ ctl.at = "deploy" /\ ctl.todo = {}
  /\ \/ app' = Handled /\ cache' = Handled.phase
     \/ /\ ApiMayFail
        /\ cache' \in {cache, Handled.phase}
        /\ UNCHANGED app
  /\ ctl' = Idle
  /\ UNCHANGED <<req, hand, wireVars, found>>

(* The controller restarts with an empty cache; the gateway may drop the   *)
(* handler whose client is gone.                                           *)
CtlRestart ==
  /\ "controller_restart" \in Inputs
  /\ cache # None
  /\ cache' = None
  /\ ctl' = Idle
  /\ \/ UNCHANGED req
     \/ /\ ctl.call # None
        /\ req' = [req EXCEPT ![ctl.call] = Free]
  /\ UNCHANGED <<app, hand, wireVars, found>>

-----------------------------------------------------------------------------

Init ==
  /\ app = NoStatus
  /\ cache = None
  /\ ctl = Idle
  /\ req = [r \in Slots |-> Free]
  /\ hand = [d \in Devices |-> NoHand]
  /\ sender = [d \in Devices |-> "live"]
  /\ connected = Devices
  /\ cmds = [d \in Devices |-> <<>>]
  /\ acks = [d \in Devices |-> <<>>]
  /\ board = {}
  /\ found = {}

Operator ==
  \E r \in Slots, d \in Devices : OperatorDeploy(r, d) \/ OperatorStop(r, d)

(* The gateway's own steps on a request                                    *)
Gateway(r) ==
  DeployReady(r) \/ DeployTimeout(r) \/ Mark(r) \/ Send(r) \/ ReportGet(r)
    \/ ReportPatch(r)

Reader(d) == AckGet(d) \/ AckPatch(d) \/ AckFallback(d)

Controller ==
  Reconcile \/ (\E d \in Devices : DeployOne(d)) \/ CtlPatch

Sessions ==
  \/ \E d \in Devices : \/ Connect(d)
                        \/ \E s \in {"none", "dead"} : Lose(d, s)
                        \/ Noticed(d)
  \/ GatewayRestart

Next ==
  \/ Operator
  \/ \E r \in Slots : Gateway(r)
  \/ \E d \in Devices : Reader(d) \/ BoardHandles(d) \/ BoardReports(d)
  \/ Controller
  \/ CtlRestart
  \/ Sessions

Spec == Init /\ [][Next]_vars

(* The tasks of the gateway and of the controller are scheduled, timers    *)
(* fire, and a board handles what it receives.                             *)
Fairness ==
  /\ WF_vars(Controller)
  /\ \A r \in Slots : WF_vars(Gateway(r))
  /\ \A d \in Devices : WF_vars(Reader(d)) /\ WF_vars(BoardHandles(d))

FairSpec == Spec /\ Fairness

-----------------------------------------------------------------------------
(* Type correctness *)

CtlStates == [at : {"idle", "create", "deploy", "call", "running", "retry"},
              todo : SUBSET Devices, seen : SUBSET Devices,
              result : DeviceStatuses, call : Slots \cup {None}]

Reqs == [at : {"free", "wait", "mark", "send", "report", "patch"},
         kind : {"deploy", "stop"}, dev : Devices \cup {None},
         seen : DeviceStatuses, out : {"Running", "Stopped", "Failed"}]

Frames == {"ok", "fail", "stopped"} \cup Telemetry

Hands == [frame : Frames \cup {"none"}, phase : AppPhases,
          seen : DeviceStatuses]

(* Frames that report no execution.                                        *)
Quiet == {"fail", "stopped", "error"}

(* Every variable has its type: a request in progress has its device, and  *)
(* the queues of a connection stay within their bound.                     *)
TypeOK ==
  /\ app \in AppStatus
  /\ cache \in AppPhases \cup {None}
  /\ ctl \in CtlStates
  /\ ctl.at = "call" <=> ctl.call # None
  /\ req \in [Slots -> Reqs]
  /\ \A r \in Slots : req[r].at # "free" => req[r].dev \in Devices
  /\ hand \in [Devices -> Hands]
  /\ sender \in [Devices -> {"none", "live", "dead"}]
  /\ connected \subseteq Devices
  /\ cmds \in [Devices -> Seq({"deploy", "stop"})]
  /\ acks \in [Devices -> Seq(Frames)]
  /\ \A d \in Devices : Len(cmds[d]) <= MaxFrames /\ Len(acks[d]) <= MaxFrames
  /\ board \subseteq Devices
  /\ found \subseteq Devices

-----------------------------------------------------------------------------
(* Safety *)

(* A device is never reported Running unless a deploy request for it once  *)
(* found a session: no crossing of stale snapshots, late acknowledgments,  *)
(* telemetry, retries and restarts invents an execution out of nothing.    *)
RunningHadSession ==
  \A d \in Devices : app.dev[d] = "Running" => d \in found

(* The inductive invariant: everything that may still turn into a Running  *)
(* (a snapshot, a result, a command, a frame, an instance) belongs to a    *)
(* device whose session was found.                                         *)
Supported(st) == \A d \in Devices : st[d] = "Running" => d \in found

(* A request past its wait had its session; a stop never yields Running.   *)
RequestOK(q) ==
  /\ Supported(q.seen)
  /\ (q.at \notin {"free", "wait"} /\ q.kind = "deploy") => q.dev \in found
  /\ (q.at \in {"report", "patch"} /\ q.kind = "stop") => q.out # "Running"
  /\ q.at = "wait" => q.kind = "deploy"

RequestInv == \A r \in Slots : RequestOK(req[r])

HandOK(d, h) ==
  /\ Supported(h.seen)
  /\ h.frame \in {"ok", "status"} => d \in found

HandInv == \A d \in Devices : HandOK(d, hand[d])

(* Where no session was found, no deploy is on its way to the board and no *)
(* success on its way back.                                                *)
WireInv ==
  \A d \in Devices \ found :
    /\ cmds[d] \in Seq({"stop"})
    /\ acks[d] \in Seq(Quiet)
    /\ d \notin board

CallInv ==
  ctl.call # None => /\ req[ctl.call].at \in InHandler
                     /\ req[ctl.call].kind = "deploy"

(* What every step preserves, for every crossing of the writers of the     *)
(* Application status: the parts above, together with the types.           *)
DispatchInv ==
  /\ TypeOK
  /\ RunningHadSession
  /\ Supported(ctl.result)
  /\ RequestInv
  /\ HandInv
  /\ WireInv
  /\ CallInv

-----------------------------------------------------------------------------
(* Liveness *)

(* A rollout ends: the reconciler leaves Deploying, whatever sessions are  *)
(* lost while it waits on the gateway.                                     *)
RolloutEnds == cache = "Deploying" ~> cache # "Deploying"

(* A failed rollout is retried until it works: when some target stays in   *)
(* session for good, the reconciler does not remain in Failed.             *)
FailedIsRetried ==
  \A d \in Devices :
    <>[](sender[d] = "live" /\ d \in connected) => ~<>[](cache = "Failed")

=============================================================================

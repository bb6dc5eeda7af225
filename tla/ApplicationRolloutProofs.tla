--------------------- MODULE ApplicationRolloutProofs ---------------------
(***************************************************************************)
(* The rollout, for every set of devices and every number of requests in   *)
(* progress: a device is reported Running only if a deploy request for it  *)
(* found a session.  That rollouts end and that failed ones are retried is *)
(* model-checked only.                                                     *)
(***************************************************************************)
EXTENDS ApplicationRollout, SequenceTheorems, TLAPS

(* A patch computed from a snapshot writes a status.                       *)
LEMMA ApplyType ==
  ASSUME TypeOK, NEW seen \in DeviceStatuses, NEW phase \in AppPhases,
         NEW d, NEW devPhase \in DevPhases \cup {Keep}
  PROVE  apply(seen, phase, d, devPhase) \in AppStatus
<1>1. app.dev \in DeviceStatuses
  BY DEF TypeOK, AppStatus
<1> DEFINE dv == [e \in Devices |-> IF e = d /\ devPhase # Keep THEN devPhase
                                    ELSE IF seen[e] # "none"
                                      THEN seen[e] ELSE app.dev[e]]
<1>2. dv \in DeviceStatuses
  BY <1>1 DEF DeviceStatuses
<1>3. apply(seen, phase, d, devPhase) = [phase |-> phase, dev |-> dv]
  BY DEF apply
<1> HIDE DEF dv
<1> QED
  BY <1>2, <1>3 DEF AppStatus

(* A patch keeps the statuses supported that it does not set.              *)
LEMMA ApplySupported ==
  ASSUME NEW seen, NEW phase, NEW d, NEW devPhase,
         Supported(seen), Supported(app.dev),
         devPhase = "Running" => d \in found \/ d \notin Devices
  PROVE  Supported(apply(seen, phase, d, devPhase).dev)
  BY DEF apply, Supported

(* The patch of a gateway writer, whether or not the API takes it.         *)
LEMMA PatchAppInv ==
  ASSUME DispatchInv, NEW new \in AppStatus, Supported(new.dev),
         PatchApp(new), UNCHANGED found
  PROVE  app' \in AppStatus /\ RunningHadSession'
  BY DEF PatchApp, DispatchInv, TypeOK, RunningHadSession, Supported

(* A change of one request.                                                *)
LEMMA RequestChange ==
  ASSUME DispatchInv, NEW r \in Slots, NEW q \in Reqs,
         q.at # "free" => q.dev \in Devices, RequestOK(q),
         req' = [req EXCEPT ![r] = q], UNCHANGED found
  PROVE  /\ req' \in [Slots -> Reqs]
         /\ \A s \in Slots : req'[s].at # "free" => req'[s].dev \in Devices
         /\ RequestInv'
<1>1. req \in [Slots -> Reqs]
  BY DEF DispatchInv, TypeOK
<1>2. ASSUME NEW s \in Slots
      PROVE  /\ req'[s].at # "free" => req'[s].dev \in Devices
             /\ RequestOK(req'[s])
  BY <1>1 DEF DispatchInv, TypeOK, RequestInv
<1>3. ASSUME NEW s \in Slots PROVE RequestOK(req[s])'
  BY <1>2 DEF RequestOK, Supported
<1> QED
  BY <1>1, <1>2, <1>3 DEF RequestInv

(* A request that is done.                                                 *)
LEMMA FreeRequest ==
  /\ Free \in Reqs /\ Free.at = "free" /\ RequestOK(Free)
  /\ NoStatus \in AppStatus
  /\ NoStatuses \in DeviceStatuses
  /\ Supported(NoStatuses)
<1>1. NoStatuses \in DeviceStatuses /\ Supported(NoStatuses)
  BY DEF NoStatuses, DeviceStatuses, Supported
<1>2. NoStatus \in AppStatus /\ NoStatus.dev = NoStatuses
  BY <1>1 DEF NoStatus, AppStatus, AppPhases
<1> QED
  BY <1>1, <1>2 DEF Free, Reqs, RequestOK

(* What a step leaves alone keeps its part of the invariant.               *)
LEMMA KeepRequests == RequestInv /\ UNCHANGED <<req, found>> => RequestInv'
  BY DEF RequestInv, RequestOK, Supported

(* Unchanged frames in hand keep their part of the invariant.              *)
LEMMA KeepHand == HandInv /\ UNCHANGED <<hand, found>> => HandInv'
  BY DEF HandInv, HandOK, Supported

(* An unchanged wire keeps its part of the invariant.                      *)
LEMMA KeepWire ==
  WireInv /\ UNCHANGED <<cmds, acks, board, found>> => WireInv'
  BY DEF WireInv

(* An unchanged Application status stays supported.                        *)
LEMMA KeepApp ==
  RunningHadSession /\ UNCHANGED <<app, found>> => RunningHadSession'
  BY DEF RunningHadSession

(* The controller's unchanged results stay supported.                      *)
LEMMA KeepResult ==
  Supported(ctl.result) /\ UNCHANGED <<ctl, found>> => Supported(ctl.result)'
  BY DEF Supported

(* An unchanged controller keeps waiting on a handler.                     *)
LEMMA KeepCall == CallInv /\ UNCHANGED <<ctl, req>> => CallInv'
  BY DEF CallInv

(* The answer to a request, which the controller may be waiting for.       *)
LEMMA RespondInv ==
  ASSUME DispatchInv, NEW r \in Slots, req[r].dev \in Devices,
         NEW v \in {"Running", "Failed"},
         (ctl.call = r /\ v = "Running") => req[r].dev \in found,
         IF ctl.call # r THEN UNCHANGED ctl
         ELSE ctl' = [ctl EXCEPT !.at = "deploy", !.call = None,
                                 !.result[req[r].dev] = v],
         \A s \in Slots : s # r => req'[s] = req[s],
         UNCHANGED found
  PROVE  /\ ctl' \in CtlStates
         /\ ctl'.at = "call" <=> ctl'.call # None
         /\ Supported(ctl.result)'
         /\ CallInv'
<1>1. /\ ctl \in CtlStates
      /\ ctl.at = "call" <=> ctl.call # None
      /\ Supported(ctl.result)
      /\ CallInv
  BY DEF DispatchInv, TypeOK
<1>2. CASE ctl.call # r
  BY <1>1, <1>2 DEF CtlStates, Supported, CallInv
<1>3. CASE ctl.call = r
  <2>1. ctl' = [ctl EXCEPT !.at = "deploy", !.call = None,
                           !.result = [ctl.result EXCEPT ![req[r].dev] = v]]
    BY <1>3
  <2>2. /\ ctl'.at = "deploy" /\ ctl'.call = None
        /\ ctl'.result = [ctl.result EXCEPT ![req[r].dev] = v]
    BY <1>1, <2>1 DEF CtlStates
  <2>3. ctl'.result \in DeviceStatuses /\ Supported(ctl.result)'
    BY <1>1, <1>3, <2>2
       DEF CtlStates, DeviceStatuses, DevPhases, Supported
  <2>4. ctl' \in CtlStates
    BY <1>1, <2>1, <2>3 DEF CtlStates
  <2> QED
    BY <2>2, <2>3, <2>4 DEF CallInv
<1> QED
  BY <1>2, <1>3

-----------------------------------------------------------------------------
(* Requests *)

(* A new request with the current status for its snapshot.                 *)
LEMMA NewRequestInv ==
  ASSUME DispatchInv, NEW r \in Slots, NEW d \in Devices,
         NEW kind \in {"deploy", "stop"}, NEW at \in {"wait", "mark", "send"},
         kind = "deploy" <=> at = "wait",
         NewRequest(r, kind, d, at), UNCHANGED found
  PROVE  /\ req' \in [Slots -> Reqs]
         /\ \A s \in Slots : req'[s].at # "free" => req'[s].dev \in Devices
         /\ RequestInv'
         /\ ctl.call # r
         /\ \A s \in Slots : s # r => req'[s] = req[s]
         /\ req'[r].at = at /\ req'[r].kind = kind
<1> DEFINE q == [Free EXCEPT !.at = at, !.kind = kind, !.dev = d, !.seen = app.dev]
<1>1. /\ app.dev \in DeviceStatuses /\ Supported(app.dev)
      /\ req \in [Slots -> Reqs]
  BY DEF DispatchInv, TypeOK, AppStatus, RunningHadSession, Supported
<1>2. /\ q \in Reqs /\ q.at = at /\ q.kind = kind /\ q.dev = d
      /\ q.seen = app.dev
  BY <1>1, FreeRequest DEF Free, Reqs
<1>3. req' = [req EXCEPT ![r] = q] /\ req[r].at = "free"
  BY DEF NewRequest
<1> HIDE DEF q
<1>4. RequestOK(q)
  BY <1>1, <1>2 DEF RequestOK
<1>5. ctl.call # r
  <2>1. r # None
    BY RolloutAssumption
  <2> QED
    BY <1>3, <2>1 DEF DispatchInv, CallInv, InHandler
<1> QED
  BY <1>1, <1>2, <1>3, <1>4, <1>5, RequestChange

(* A deploy request of the operator keeps the invariant.                   *)
LEMMA OperatorDeployInv ==
  ASSUME DispatchInv, NEW r \in Slots, NEW d \in Devices, OperatorDeploy(r, d)
  PROVE  DispatchInv'
<1> USE DEF OperatorDeploy, wireVars, ctlVars
<1>1. /\ req' \in [Slots -> Reqs]
      /\ \A s \in Slots : req'[s].at # "free" => req'[s].dev \in Devices
      /\ RequestInv'
      /\ ctl.call # r
      /\ \A s \in Slots : s # r => req'[s] = req[s]
  BY NewRequestInv
<1>2. TypeOK'
  BY <1>1 DEF DispatchInv, TypeOK
<1>3. CallInv'
  BY <1>1 DEF DispatchInv, TypeOK, CtlStates, CallInv
<1> QED
  BY <1>1, <1>2, <1>3, KeepApp, KeepResult, KeepHand, KeepWire DEF DispatchInv

(* A stop request of the operator keeps the invariant.                     *)
LEMMA OperatorStopInv ==
  ASSUME DispatchInv, NEW r \in Slots, NEW d \in Devices, OperatorStop(r, d)
  PROVE  DispatchInv'
<1> USE DEF OperatorStop, stop_application, wireVars, ctlVars
<1>1. /\ req' \in [Slots -> Reqs]
      /\ \A s \in Slots : req'[s].at # "free" => req'[s].dev \in Devices
      /\ RequestInv'
      /\ ctl.call # r
      /\ \A s \in Slots : s # r => req'[s] = req[s]
  BY NewRequestInv
<1>2. TypeOK'
  BY <1>1 DEF DispatchInv, TypeOK
<1>3. CallInv'
  BY <1>1 DEF DispatchInv, TypeOK, CtlStates, CallInv
<1> QED
  BY <1>1, <1>2, <1>3, KeepApp, KeepResult, KeepHand, KeepWire DEF DispatchInv

(* The only step that adds to found.                                       *)
LEMMA DeployReadyInv ==
  ASSUME DispatchInv, NEW r \in Slots, DeployReady(r)
  PROVE  DispatchInv'
<1> USE DEF DeployReady, wireVars, ctlVars
<1> DEFINE q == [req[r] EXCEPT !.at = "mark"]
<1>1. /\ req \in [Slots -> Reqs] /\ req[r] \in Reqs
      /\ req[r].dev \in Devices /\ req[r].kind = "deploy"
      /\ RequestOK(req[r])
  BY DEF DispatchInv, TypeOK, RequestInv, RequestOK
<1>2. /\ q \in Reqs /\ q.at = "mark" /\ q.dev = req[r].dev
      /\ q.kind = "deploy" /\ q.seen = req[r].seen
      /\ req' = [req EXCEPT ![r] = q]
      /\ found' = found \cup {req[r].dev}
  BY <1>1 DEF Reqs
<1> HIDE DEF q
<1>3. TypeOK'
  <2>1. /\ req' \in [Slots -> Reqs]
        /\ \A s \in Slots : req'[s].at # "free" => req'[s].dev \in Devices
    BY <1>1, <1>2 DEF DispatchInv, TypeOK
  <2> QED
    BY <1>1, <1>2, <2>1 DEF DispatchInv, TypeOK
<1>4. RequestInv'
  <2> SUFFICES ASSUME NEW s \in Slots PROVE RequestOK(req[s])'
    BY DEF RequestInv
  <2>1. CASE s = r
    BY <1>1, <1>2, <2>1 DEF RequestOK, Supported
  <2>2. CASE s # r
    <3>1. req'[s] = req[s] /\ RequestOK(req[s])
      BY <1>1, <1>2, <2>2 DEF DispatchInv, RequestInv
    <3> QED
      BY <1>2, <3>1 DEF RequestOK, Supported
  <2> QED
    BY <2>1, <2>2
<1>5. HandInv'
  BY <1>2 DEF DispatchInv, HandInv, HandOK, Supported
<1>6. WireInv'
  BY <1>2 DEF DispatchInv, WireInv
<1>7. RunningHadSession' /\ Supported(ctl.result)'
  BY <1>2 DEF DispatchInv, RunningHadSession, Supported
<1>8. CallInv'
  BY <1>1, <1>2 DEF DispatchInv, TypeOK, CtlStates, CallInv, InHandler
<1> QED
  BY <1>3, <1>4, <1>5, <1>6, <1>7, <1>8 DEF DispatchInv

(* A deploy handler that gives up keeps the invariant.                     *)
LEMMA DeployTimeoutInv ==
  ASSUME DispatchInv, NEW r \in Slots, DeployTimeout(r)
  PROVE  DispatchInv'
<1> USE DEF DeployTimeout, wireVars, ctlVars
<1>1. req \in [Slots -> Reqs] /\ req[r].dev \in Devices
  BY DEF DispatchInv, TypeOK
<1>2. /\ req' \in [Slots -> Reqs]
      /\ \A s \in Slots : req'[s].at # "free" => req'[s].dev \in Devices
      /\ RequestInv'
  BY FreeRequest, RequestChange
<1>3. \A s \in Slots : s # r => req'[s] = req[s]
  BY <1>1
<1>4. /\ ctl' \in CtlStates
      /\ ctl'.at = "call" <=> ctl'.call # None
      /\ Supported(ctl.result)'
      /\ CallInv'
  BY <1>1, <1>3, RespondInv DEF Respond
<1>5. TypeOK'
  BY <1>2, <1>4 DEF DispatchInv, TypeOK
<1> QED
  BY <1>2, <1>4, <1>5, KeepApp, KeepHand, KeepWire DEF DispatchInv

(* The handler's patch, from its old snapshot, keeps the invariant.        *)
LEMMA MarkInv ==
  ASSUME DispatchInv, NEW r \in Slots, Mark(r)
  PROVE  DispatchInv'
<1> USE DEF Mark, wireVars, ctlVars
<1> DEFINE q == [req[r] EXCEPT !.at = "send", !.seen = NoStatuses]
           new == IF req[r].kind = "deploy"
                    THEN apply(req[r].seen, "Deploying", req[r].dev,
                               "Deploying")
                    ELSE apply(req[r].seen, "Stopping", req[r].dev, Keep)
<1>1. /\ req \in [Slots -> Reqs] /\ req[r] \in Reqs
      /\ req[r].dev \in Devices /\ req[r].seen \in DeviceStatuses
      /\ RequestOK(req[r]) /\ Supported(req[r].seen)
      /\ Supported(app.dev) /\ TypeOK
  BY DEF DispatchInv, TypeOK, RequestInv, RequestOK, Reqs,
         RunningHadSession, Supported
<1>2. new \in AppStatus /\ Supported(new.dev)
  BY <1>1, ApplyType, ApplySupported DEF AppPhases, DevPhases, Keep
<1>3. app' \in AppStatus /\ RunningHadSession'
  <2>1. PatchApp(new)
    OBVIOUS
  <2> HIDE DEF new
  <2> QED
    BY <1>2, <2>1, PatchAppInv
<1>4. /\ q \in Reqs /\ q.at = "send" /\ q.dev = req[r].dev
      /\ q.kind = req[r].kind /\ q.seen = NoStatuses
      /\ req' = [req EXCEPT ![r] = q]
  BY <1>1, FreeRequest DEF Reqs
<1>5. RequestOK(q)
  <2>1. Supported(NoStatuses)
    BY FreeRequest
  <2> HIDE DEF q
  <2> QED
    BY <1>1, <1>4, <2>1 DEF RequestOK
<1> HIDE DEF q, new
<1>6. /\ req' \in [Slots -> Reqs]
      /\ \A s \in Slots : req'[s].at # "free" => req'[s].dev \in Devices
      /\ RequestInv'
  BY <1>1, <1>4, <1>5, RequestChange
<1>7. /\ ctl' \in CtlStates
      /\ ctl'.at = "call" <=> ctl'.call # None
      /\ Supported(ctl.result)'
      /\ CallInv'
  <2>1. ctl.call = r => req[r].dev \in found
    BY <1>1, RolloutAssumption DEF DispatchInv, CallInv, RequestOK
  <2>2. \A s \in Slots : s # r => req'[s] = req[s]
    BY <1>1, <1>4
  <2> QED
    BY <1>1, <2>1, <2>2, RespondInv DEF Respond
<1>8. TypeOK'
  BY <1>3, <1>6, <1>7 DEF DispatchInv, TypeOK
<1> QED
  BY <1>3, <1>6, <1>7, <1>8, KeepHand, KeepWire DEF DispatchInv

(* The send of a command keeps the invariant, whatever becomes of it.      *)
LEMMA SendInv ==
  ASSUME DispatchInv, NEW r \in Slots, Send(r)
  PROVE  DispatchInv'
<1> USE DEF wireVars, ctlVars
<1> DEFINE d == req[r].dev
           out == IF sender[d] = "none" THEN "Failed" ELSE Sent(req[r].kind)
           q == [req[r] EXCEPT !.at = "report", !.out = out]
<1>1. /\ req \in [Slots -> Reqs] /\ req[r] \in Reqs
      /\ d \in Devices /\ RequestOK(req[r])
      /\ cmds \in [Devices -> Seq({"deploy", "stop"})]
      /\ req[r].at = "send"
      /\ req[r].kind \in {"deploy", "stop"}
  BY DEF DispatchInv, TypeOK, RequestInv, Reqs, Send
<1>2. /\ out \in {"Running", "Stopped", "Failed"}
      /\ req[r].kind = "stop" => out # "Running"
  BY <1>1 DEF Sent
<1> HIDE DEF out
<1>3. /\ q \in Reqs /\ q.at = "report" /\ q.dev = d
      /\ q.kind = req[r].kind /\ q.seen = req[r].seen /\ q.out = out
  BY <1>1, <1>2 DEF Reqs
<1>4. req' = [req EXCEPT ![r] = q]
  BY DEF Send, out
<1> HIDE DEF q
<1>5. RequestOK(q)
  BY <1>1, <1>2, <1>3 DEF RequestOK
<1>6. /\ req' \in [Slots -> Reqs]
      /\ \A s \in Slots : req'[s].at # "free" => req'[s].dev \in Devices
      /\ RequestInv'
  BY <1>1, <1>3, <1>4, <1>5, RequestChange DEF Send
<1>7. /\ cmds' \in [Devices -> Seq({"deploy", "stop"})]
      /\ \A e \in Devices : Len(cmds'[e]) <= MaxFrames
      /\ \A e \in Devices \ found : cmds'[e] \in Seq({"stop"})
  <2>1. CASE UNCHANGED cmds
    BY <1>1, <2>1 DEF DispatchInv, TypeOK, WireInv
  <2>2. CASE /\ Len(cmds[d]) < MaxFrames
             /\ cmds' = [cmds EXCEPT ![d] = Append(cmds[d], req[r].kind)]
    <3>1. /\ Append(cmds[d], req[r].kind) \in Seq({"deploy", "stop"})
          /\ Len(Append(cmds[d], req[r].kind)) = Len(cmds[d]) + 1
          /\ Len(cmds[d]) \in Nat
      BY <1>1, AppendProperties
    <3>2. d \notin found => Append(cmds[d], req[r].kind) \in Seq({"stop"})
      <4>1. d \notin found
              => req[r].kind = "stop" /\ cmds[d] \in Seq({"stop"})
        BY <1>1 DEF DispatchInv, WireInv, RequestOK
      <4> QED
        BY <4>1, AppendProperties
    <3>3. Len(Append(cmds[d], req[r].kind)) <= MaxFrames
      BY <2>2, <3>1, RolloutAssumption
    <3> QED
      BY <1>1, <2>2, <3>1, <3>2, <3>3 DEF DispatchInv, TypeOK, WireInv
  <2> QED
    BY <2>1, <2>2 DEF Send
<1>8. TypeOK'
  BY <1>6, <1>7 DEF DispatchInv, TypeOK, Send
<1>9. WireInv'
  BY <1>7 DEF DispatchInv, WireInv, Send
<1>10. CallInv'
  BY <1>1, <1>4 DEF DispatchInv, TypeOK, CtlStates, CallInv, InHandler, Send
<1> QED
  BY <1>6, <1>8, <1>9, <1>10, KeepApp, KeepResult, KeepHand
     DEF DispatchInv, Send

(* The get before a report keeps the invariant.                            *)
LEMMA ReportGetInv ==
  ASSUME DispatchInv, NEW r \in Slots, ReportGet(r)
  PROVE  DispatchInv'
<1> USE DEF ReportGet, wireVars, ctlVars
<1> DEFINE p == [req[r] EXCEPT !.at = "patch", !.seen = app.dev]
<1>1. /\ req \in [Slots -> Reqs] /\ req[r] \in Reqs
      /\ req[r].dev \in Devices /\ RequestOK(req[r])
      /\ app.dev \in DeviceStatuses /\ Supported(app.dev)
  BY DEF DispatchInv, TypeOK, AppStatus, RequestInv, RunningHadSession,
         Supported
<1>2. /\ p \in Reqs /\ p.at = "patch" /\ p.dev = req[r].dev
      /\ p.kind = req[r].kind /\ p.seen = app.dev /\ p.out = req[r].out
  BY <1>1 DEF Reqs
<1>3. req' = [req EXCEPT ![r] = p] \/ req' = [req EXCEPT ![r] = Free]
  OBVIOUS
<1> HIDE DEF p
<1>4. RequestOK(p)
  BY <1>1, <1>2 DEF RequestOK
<1>5. /\ req' \in [Slots -> Reqs]
      /\ \A s \in Slots : req'[s].at # "free" => req'[s].dev \in Devices
      /\ RequestInv'
  BY <1>1, <1>2, <1>3, <1>4, FreeRequest, RequestChange
<1>6. TypeOK'
  BY <1>5 DEF DispatchInv, TypeOK
<1>7. CallInv'
  BY <1>1, <1>3 DEF DispatchInv, TypeOK, CtlStates, CallInv, InHandler
<1> QED
  BY <1>5, <1>6, <1>7, KeepApp, KeepResult, KeepHand, KeepWire
     DEF DispatchInv

(* The report of a spawned task keeps the invariant.                       *)
LEMMA ReportPatchInv ==
  ASSUME DispatchInv, NEW r \in Slots, ReportPatch(r)
  PROVE  DispatchInv'
<1> USE DEF ReportPatch, wireVars, ctlVars
<1> DEFINE new == apply(req[r].seen, req[r].out, req[r].dev, req[r].out)
<1>1. /\ req \in [Slots -> Reqs] /\ req[r] \in Reqs
      /\ req[r].dev \in Devices /\ req[r].seen \in DeviceStatuses
      /\ req[r].out \in {"Running", "Stopped", "Failed"}
      /\ req[r].kind \in {"deploy", "stop"}
      /\ RequestOK(req[r]) /\ Supported(req[r].seen)
      /\ Supported(app.dev) /\ TypeOK
  BY DEF DispatchInv, TypeOK, RequestInv, RequestOK, Reqs,
         RunningHadSession, Supported
<1>2. req[r].out = "Running" => req[r].dev \in found
  BY <1>1 DEF RequestOK
<1>3. new \in AppStatus /\ Supported(new.dev)
  BY <1>1, <1>2, ApplyType, ApplySupported DEF AppPhases, DevPhases
<1>4. app' \in AppStatus /\ RunningHadSession'
  <2>1. PatchApp(new)
    OBVIOUS
  <2> HIDE DEF new
  <2> QED
    BY <1>3, <2>1, PatchAppInv
<1> HIDE DEF new
<1>5. /\ req' \in [Slots -> Reqs]
      /\ \A s \in Slots : req'[s].at # "free" => req'[s].dev \in Devices
      /\ RequestInv'
  BY FreeRequest, RequestChange
<1>6. TypeOK'
  BY <1>4, <1>5 DEF DispatchInv, TypeOK
<1>7. CallInv'
  BY <1>1 DEF DispatchInv, TypeOK, CtlStates, CallInv, InHandler
<1> QED
  BY <1>4, <1>5, <1>6, <1>7, KeepResult, KeepHand, KeepWire DEF DispatchInv

-----------------------------------------------------------------------------
(* Frames *)

(* A queue that loses its head keeps to its set, and gets no longer.       *)
LEMMA TailKeeps ==
  ASSUME NEW S, NEW q \in Seq(S), q # <<>>
  PROVE  Head(q) \in S /\ Tail(q) \in Seq(S) /\ Len(Tail(q)) <= Len(q)
<1>1. Len(q) \in Nat
  OBVIOUS
<1> QED
  BY <1>1, HeadTailProperties

(* What a frame reports is a phase, and Running only where it is no quiet  *)
(* one.                                                                    *)
LEMMA FrameReports ==
  ASSUME TypeOK, NEW f \in Frames
  PROVE  /\ FramePhase(f) \in AppPhases
         /\ FrameDevPhase(f) \in DevPhases
         /\ f \in Quiet => FrameDevPhase(f) # "Running"
<1>1. app.phase \in AppPhases
  BY DEF TypeOK, AppStatus
<1> QED
  BY <1>1 DEF FramePhase, FrameDevPhase, Frames, Telemetry, Quiet, AppPhases,
              DevPhases

(* The reader that takes up an Application frame keeps the invariant.      *)
LEMMA AckGetInv ==
  ASSUME DispatchInv, NEW d \in Devices, AckGet(d)
  PROVE  DispatchInv'
<1> USE DEF wireVars, ctlVars
<1> DEFINE f == Head(acks[d])
           h == [frame |-> f, phase |-> FramePhase(f), seen |-> app.dev]
<1>1. /\ acks \in [Devices -> Seq(Frames)] /\ app.dev \in DeviceStatuses
      /\ Supported(app.dev) /\ TypeOK
      /\ acks[d] # <<>>
      /\ hand' = [hand EXCEPT ![d] = h]
      /\ acks' = [acks EXCEPT ![d] = Tail(acks[d])]
  BY DEF DispatchInv, TypeOK, AppStatus, RunningHadSession, Supported, AckGet
<1>2. /\ f \in Frames
      /\ Tail(acks[d]) \in Seq(Frames)
      /\ Len(Tail(acks[d])) <= Len(acks[d])
      /\ Len(Tail(acks[d])) \in Nat /\ Len(acks[d]) \in Nat
  BY <1>1, TailKeeps
<1>3. d \notin found => f \in Quiet /\ Tail(acks[d]) \in Seq(Quiet)
  <2>1. d \notin found => acks[d] \in Seq(Quiet)
    BY DEF DispatchInv, WireInv
  <2> QED
    BY <1>1, <2>1, TailKeeps
<1> HIDE DEF f
<1>4. h \in Hands /\ h.frame = f /\ h.seen = app.dev
  BY <1>1, <1>2, FrameReports DEF Hands
<1> HIDE DEF h
<1>5. HandOK(d, h)
  BY <1>1, <1>3, <1>4 DEF HandOK, Quiet
<1>6. hand' \in [Devices -> Hands] /\ HandInv'
  <2>1. hand' \in [Devices -> Hands]
    BY <1>1, <1>4 DEF TypeOK
  <2>2. ASSUME NEW e \in Devices PROVE HandOK(e, hand[e])'
    <3>1. HandOK(e, hand'[e])
      BY <1>1, <1>5 DEF DispatchInv, TypeOK, HandInv
    <3> QED
      BY <3>1 DEF HandOK, Supported, AckGet
  <2> QED
    BY <2>1, <2>2 DEF HandInv
<1>7. /\ acks' \in [Devices -> Seq(Frames)]
      /\ \A e \in Devices : Len(acks'[e]) <= MaxFrames
  BY <1>1, <1>2, RolloutAssumption DEF DispatchInv, TypeOK
<1>8. TypeOK'
  BY <1>6, <1>7 DEF DispatchInv, TypeOK, AckGet
<1>9. WireInv'
  BY <1>1, <1>3 DEF DispatchInv, WireInv, AckGet
<1> QED
  BY <1>6, <1>8, <1>9, KeepApp, KeepResult, KeepRequests, KeepCall
     DEF DispatchInv, AckGet

(* The reader task is done with its frame.                                 *)
LEMMA HandDone ==
  ASSUME DispatchInv, NEW d \in Devices,
         hand' = [hand EXCEPT ![d] = NoHand], UNCHANGED found
  PROVE  /\ hand' \in [Devices -> Hands]
         /\ HandInv'
<1>1. /\ NoHand \in Hands
      /\ NoHand.frame = "none" /\ Supported(NoHand.seen)
  BY FreeRequest DEF NoHand, Hands, AppPhases
<1> HIDE DEF NoHand
<1> QED
  BY <1>1 DEF DispatchInv, TypeOK, HandInv, HandOK, Supported

(* The patch for an Application frame keeps the invariant.                 *)
LEMMA AckPatchInv ==
  ASSUME DispatchInv, NEW d \in Devices, AckPatch(d)
  PROVE  DispatchInv'
<1> USE DEF wireVars, ctlVars
<1> DEFINE f == hand[d].frame
           new(who) == apply(hand[d].seen, hand[d].phase, who, FrameDevPhase(f))
<1>1. /\ f \in Frames
      /\ hand[d].seen \in DeviceStatuses /\ hand[d].phase \in AppPhases
      /\ HandOK(d, hand[d])
      /\ Supported(hand[d].seen) /\ Supported(app.dev) /\ TypeOK
  BY DEF AckPatch, DispatchInv, TypeOK, Hands, HandInv, HandOK,
         RunningHadSession, Supported
<1>2. PICK who \in Resolved(d) : UNCHANGED app \/ PatchApp(new(who))
  BY DEF AckPatch
<1>3. who = d \/ who \notin Devices
  BY RolloutAssumption DEF Resolved
<1>4. FrameDevPhase(f) = "Running" => d \in found
  BY <1>1, FrameReports DEF HandOK, Frames, Telemetry, Quiet
<1>5. new(who) \in AppStatus /\ Supported(new(who).dev)
  BY <1>1, <1>3, <1>4, FrameReports, ApplyType, ApplySupported
<1> HIDE DEF new
<1>6. app' \in AppStatus /\ RunningHadSession'
  <2>1. CASE PatchApp(new(who))
    BY <1>5, <2>1, PatchAppInv DEF AckPatch
  <2>2. CASE UNCHANGED app
    BY <2>2, KeepApp DEF DispatchInv, TypeOK, AckPatch
  <2> QED
    BY <1>2, <2>1, <2>2
<1>7. hand' \in [Devices -> Hands] /\ HandInv'
  BY HandDone DEF AckPatch
<1>8. TypeOK'
  BY <1>6, <1>7 DEF DispatchInv, TypeOK, AckPatch
<1> QED
  BY <1>6, <1>7, <1>8, KeepResult, KeepRequests, KeepWire, KeepCall
     DEF DispatchInv, AckPatch

(* The frame whose Application could not be read keeps the invariant.      *)
LEMMA AckFallbackInv ==
  ASSUME DispatchInv, NEW d \in Devices, AckFallback(d)
  PROVE  DispatchInv'
<1> USE DEF AckFallback, wireVars, ctlVars
<1>1. app' \in AppStatus /\ RunningHadSession'
  <2> DEFINE new == [app EXCEPT !.phase = hand[d].phase]
  <2>1. new \in AppStatus /\ new.dev = app.dev
    BY DEF DispatchInv, TypeOK, Hands, AppStatus
  <2>2. UNCHANGED app \/ PatchApp(new)
    OBVIOUS
  <2>3. Supported(new.dev)
    BY <2>1 DEF DispatchInv, RunningHadSession, Supported
  <2> HIDE DEF new
  <2>4. CASE PatchApp(new)
    BY <2>1, <2>3, <2>4, PatchAppInv
  <2>5. CASE UNCHANGED app
    BY <2>5, KeepApp DEF DispatchInv, TypeOK
  <2> QED
    BY <2>2, <2>4, <2>5
<1>2. TypeOK'
  BY <1>1, HandDone DEF DispatchInv, TypeOK
<1> QED
  BY <1>1, <1>2, HandDone, KeepResult, KeepRequests, KeepWire, KeepCall
     DEF DispatchInv

-----------------------------------------------------------------------------
(* Boards and sessions *)

(* A change of the wire that touches neither requests nor statuses.        *)
LEMMA WireChange ==
  ASSUME DispatchInv,
         UNCHANGED <<app, ctl, cache, req, hand, found>>,
         sender' \in [Devices -> {"none", "live", "dead"}],
         connected' \subseteq Devices,
         board' \subseteq Devices,
         cmds' \in [Devices -> Seq({"deploy", "stop"})],
         acks' \in [Devices -> Seq(Frames)],
         \A d \in Devices :
           Len(cmds'[d]) <= MaxFrames /\ Len(acks'[d]) <= MaxFrames,
         \A d \in Devices \ found : /\ cmds'[d] \in Seq({"stop"})
                                    /\ acks'[d] \in Seq(Quiet)
                                    /\ d \notin board'
  PROVE  DispatchInv'
<1>1. TypeOK'
  BY DEF DispatchInv, TypeOK
<1>2. WireInv'
  BY DEF WireInv
<1> QED
  BY <1>1, <1>2, KeepApp, KeepResult, KeepRequests, KeepHand, KeepCall
     DEF DispatchInv

(* The wire, as the invariant has it.                                      *)
LEMMA WireFacts ==
  ASSUME DispatchInv
  PROVE  /\ sender \in [Devices -> {"none", "live", "dead"}]
         /\ connected \subseteq Devices
         /\ board \subseteq Devices
         /\ cmds \in [Devices -> Seq({"deploy", "stop"})]
         /\ acks \in [Devices -> Seq(Frames)]
         /\ \A d \in Devices :
              Len(cmds[d]) <= MaxFrames /\ Len(acks[d]) <= MaxFrames
         /\ \A d \in Devices \ found : /\ cmds[d] \in Seq({"stop"})
                                       /\ acks[d] \in Seq(Quiet)
                                       /\ d \notin board
  BY DEF DispatchInv, TypeOK, WireInv

(* A frame joins the queue of a device.                                    *)
LEMMA AppendFrame ==
  ASSUME DispatchInv, NEW d \in Devices, NEW f \in Frames,
         Len(acks[d]) < MaxFrames, f \in Quiet \/ d \in found
  PROVE  /\ Append(acks[d], f) \in Seq(Frames)
         /\ Len(Append(acks[d], f)) <= MaxFrames
         /\ d \notin found => Append(acks[d], f) \in Seq(Quiet)
<1>1. /\ acks[d] \in Seq(Frames)
      /\ d \notin found => acks[d] \in Seq(Quiet)
  BY WireFacts
<1>2. Len(acks[d]) \in Nat /\ Len(Append(acks[d], f)) = Len(acks[d]) + 1
  BY <1>1, AppendProperties
<1> QED
  BY <1>1, <1>2, AppendProperties, RolloutAssumption

(* A board that handles a command keeps the invariant.                     *)
LEMMA BoardHandlesInv ==
  ASSUME DispatchInv, NEW d \in Devices, BoardHandles(d)
  PROVE  DispatchInv'
<1> USE DEF ctlVars
<1>1. /\ cmds \in [Devices -> Seq({"deploy", "stop"})]
      /\ acks \in [Devices -> Seq(Frames)]
      /\ cmds[d] # <<>>
      /\ cmds' = [cmds EXCEPT ![d] = Tail(cmds[d])]
  BY WireFacts DEF BoardHandles
<1>2. /\ Head(cmds[d]) \in {"deploy", "stop"}
      /\ Tail(cmds[d]) \in Seq({"deploy", "stop"})
      /\ Len(Tail(cmds[d])) <= Len(cmds[d])
      /\ Len(Tail(cmds[d])) \in Nat /\ Len(cmds[d]) \in Nat
  BY <1>1, TailKeeps
<1>3. d \notin found => /\ Head(cmds[d]) = "stop"
                        /\ Tail(cmds[d]) \in Seq({"stop"})
  <2>1. d \notin found => cmds[d] \in Seq({"stop"})
    BY WireFacts
  <2> QED
    BY <1>1, <2>1, TailKeeps
<1>4. /\ cmds' \in [Devices -> Seq({"deploy", "stop"})]
      /\ \A e \in Devices : Len(cmds'[e]) <= MaxFrames
      /\ \A e \in Devices \ found : cmds'[e] \in Seq({"stop"})
  BY <1>1, <1>2, <1>3, WireFacts, RolloutAssumption
<1>5. CASE UNCHANGED <<board, acks>>
  BY <1>4, <1>5, WireFacts, WireChange DEF BoardHandles
<1>6. ASSUME NEW f \in Frames, Len(acks[d]) < MaxFrames,
             acks' = [acks EXCEPT ![d] = Append(acks[d], f)],
             \/ board' \in {board, board \ {d}} /\ f \in Quiet
             \/ d \in found /\ board' \in {board, board \cup {d}, board \ {d}}
      PROVE  DispatchInv'
  <2>1. /\ acks' \in [Devices -> Seq(Frames)]
        /\ \A e \in Devices : Len(acks'[e]) <= MaxFrames
        /\ \A e \in Devices \ found : acks'[e] \in Seq(Quiet)
    BY <1>1, <1>6, AppendFrame, WireFacts
  <2>2. /\ board' \subseteq Devices
        /\ \A e \in Devices \ found : e \notin board'
    BY <1>6, WireFacts
  <2> QED
    BY <1>4, <2>1, <2>2, WireFacts, WireChange DEF BoardHandles
<1>7. CASE Head(cmds[d]) = "deploy"
  <2>1. d \in found /\ Len(acks[d]) < MaxFrames
    BY <1>3, <1>7 DEF BoardHandles, BoardDeploys
  <2>2. \E f \in {"ok", "fail"} :
          acks' = [acks EXCEPT ![d] = Append(acks[d], f)]
    BY <1>7 DEF BoardHandles, BoardDeploys
  <2>3. board' \in {board, board \cup {d}, board \ {d}}
    BY <1>7 DEF BoardHandles, BoardDeploys
  <2>4. {"ok", "fail"} \subseteq Frames
    BY DEF Frames
  <2> QED
    BY <1>6, <2>1, <2>2, <2>3, <2>4
<1>8. CASE BoardStops(d)
  <2>1. CASE ~ UNCHANGED <<board, acks>>
    <3>1. Len(acks[d]) < MaxFrames /\ board' = board \ {d}
      BY <1>8, <2>1 DEF BoardStops
    <3>2. \E f \in {"stopped", "fail"} :
            acks' = [acks EXCEPT ![d] = Append(acks[d], f)]
      BY <1>8, <2>1 DEF BoardStops
    <3>3. {"stopped", "fail"} \subseteq Frames \cap Quiet
      BY DEF Frames, Quiet
    <3> QED
      BY <1>6, <3>1, <3>2, <3>3
  <2> QED
    BY <1>5, <2>1
<1> QED
  BY <1>7, <1>8 DEF BoardHandles

(* A board's telemetry keeps the invariant.                                *)
LEMMA BoardReportsInv ==
  ASSUME DispatchInv, NEW d \in Devices, BoardReports(d)
  PROVE  DispatchInv'
<1> USE DEF ctlVars
<1>1. d \in found
  BY WireFacts DEF BoardReports
<1>2. PICK f \in Frames : acks' = [acks EXCEPT ![d] = Append(acks[d], f)]
  BY DEF BoardReports, Reports, Frames, Telemetry
<1>3. /\ acks' \in [Devices -> Seq(Frames)]
      /\ \A e \in Devices : Len(acks'[e]) <= MaxFrames
      /\ \A e \in Devices \ found : acks'[e] \in Seq(Quiet)
  BY <1>1, <1>2, AppendFrame, WireFacts DEF BoardReports
<1> QED
  BY <1>3, WireFacts, WireChange DEF BoardReports

(* A session that comes up keeps the invariant.                            *)
LEMMA ConnectInv ==
  ASSUME DispatchInv, NEW d \in Devices, Connect(d)
  PROVE  DispatchInv'
  BY WireFacts, WireChange DEF Connect, ctlVars

(* A lost session that is noticed keeps the invariant.                     *)
LEMMA NoticedInv ==
  ASSUME DispatchInv, NEW d \in Devices, Noticed(d)
  PROVE  DispatchInv'
<1>1. /\ sender' \in [Devices -> {"none", "live", "dead"}]
      /\ connected' \subseteq Devices
  BY WireFacts DEF Noticed
<1> QED
  BY <1>1, WireFacts, WireChange DEF Noticed, ctlVars

(* A lost session, with what it loses, keeps the invariant.                *)
LEMMA LoseInv ==
  ASSUME DispatchInv, NEW d \in Devices, NEW s \in {"none", "dead"}, Lose(d, s)
  PROVE  DispatchInv'
<1> USE DEF Lose, ctlVars
<1>1. sender' \in [Devices -> {"none", "live", "dead"}]
  BY WireFacts
<1>2. /\ cmds' \in [Devices -> Seq({"deploy", "stop"})]
      /\ \A e \in Devices : Len(cmds'[e]) <= MaxFrames
      /\ \A e \in Devices \ found : cmds'[e] \in Seq({"stop"})
  <2>1. /\ <<>> \in Seq({"deploy", "stop"}) /\ <<>> \in Seq({"stop"})
        /\ Len(<<>>) = 0 /\ 0 <= MaxFrames
    BY RolloutAssumption
  <2> QED
    BY <2>1, WireFacts
<1>3. /\ acks' \in [Devices -> Seq(Frames)]
      /\ \A e \in Devices : Len(acks'[e]) <= MaxFrames
      /\ \A e \in Devices \ found : acks'[e] \in Seq(Quiet)
  <2>1. PICK n \in 0 .. Len(acks[d]) :
          acks' = [acks EXCEPT ![d] = SubSeq(acks[d], 1, n)]
    OBVIOUS
  <2>2. acks[d] \in Seq(Frames) /\ Len(acks[d]) \in Nat /\ n \in Nat
    BY WireFacts
  <2>3. ASSUME NEW S, acks[d] \in Seq(S)
        PROVE  /\ SubSeq(acks[d], 1, n) \in Seq(S)
               /\ Len(SubSeq(acks[d], 1, n)) <= Len(acks[d])
               /\ Len(SubSeq(acks[d], 1, n)) \in Nat
    BY <2>2, <2>3
  <2>4. d \notin found => acks[d] \in Seq(Quiet)
    BY WireFacts
  <2>5. /\ SubSeq(acks[d], 1, n) \in Seq(Frames)
        /\ Len(SubSeq(acks[d], 1, n)) <= MaxFrames
        /\ d \notin found => SubSeq(acks[d], 1, n) \in Seq(Quiet)
    BY <2>2, <2>3, <2>4, WireFacts, RolloutAssumption
  <2> QED
    BY <2>1, <2>5, WireFacts
<1>4. board' \subseteq Devices /\ board' \subseteq board
  BY WireFacts
<1> QED
  BY <1>1, <1>2, <1>3, <1>4, WireFacts, WireChange

(* A restart of the gateway fails the request that the controller waits    *)
(* for, and forgets all the others.                                        *)
LEMMA GatewayRestartInv ==
  ASSUME DispatchInv, GatewayRestart
  PROVE  DispatchInv'
<1> USE DEF GatewayRestart, wireVars, ctlVars
<1>1. /\ req' \in [Slots -> Reqs]
      /\ \A r \in Slots : req'[r].at # "free" => req'[r].dev \in Devices
      /\ RequestInv'
  <2>1. /\ req' = [r \in Slots |-> Free]
        /\ Free \in Reqs /\ Free.at = "free" /\ RequestOK(Free)
    BY FreeRequest
  <2>2. RequestOK(Free)'
    BY <2>1 DEF RequestOK, Supported, Free
  <2> HIDE DEF Free
  <2> QED
    BY <2>1, <2>2 DEF RequestInv
<1>2. /\ hand' \in [Devices -> Hands]
      /\ HandInv'
  <2>1. /\ NoHand \in Hands
        /\ NoHand.frame = "none" /\ Supported(NoHand.seen)
    BY FreeRequest DEF NoHand, Hands, AppPhases
  <2> HIDE DEF NoHand
  <2> QED
    BY <2>1 DEF HandInv, HandOK, Supported
<1>3. /\ ctl' \in CtlStates
      /\ ctl'.at = "call" <=> ctl'.call # None
      /\ Supported(ctl.result)'
      /\ ctl'.call = None
  <2>1. /\ ctl \in CtlStates
        /\ ctl.at = "call" <=> ctl.call # None
        /\ Supported(ctl.result)
    BY DEF DispatchInv, TypeOK
  <2>2. CASE ctl.call = None
    BY <2>1, <2>2 DEF Supported
  <2>3. CASE ctl.call # None
    <3>1. ctl.call \in Slots /\ req[ctl.call].dev \in Devices
      BY <2>1, <2>3 DEF DispatchInv, TypeOK, CtlStates, CallInv, InHandler
    <3> DEFINE res == [ctl.result EXCEPT ![req[ctl.call].dev] = "Failed"]
    <3>2. ctl' = [ctl EXCEPT !.at = "deploy", !.call = None, !.result = res]
      BY <2>3
    <3>3. res \in DeviceStatuses /\ Supported(res)
      BY <2>1, <3>1 DEF CtlStates, DeviceStatuses, DevPhases, Supported
    <3> HIDE DEF res
    <3>4. /\ ctl' \in CtlStates /\ ctl'.at = "deploy" /\ ctl'.call = None
          /\ ctl'.result = res
      BY <2>1, <3>2, <3>3 DEF CtlStates
    <3> QED
      BY <3>3, <3>4 DEF Supported
  <2> QED
    BY <2>2, <2>3
<1>4. TypeOK' /\ WireInv'
  <2>1. <<>> \in Seq({"deploy", "stop"}) /\ <<>> \in Seq(Frames)
        /\ <<>> \in Seq({"stop"}) /\ <<>> \in Seq(Quiet)
        /\ Len(<<>>) = 0 /\ 0 <= MaxFrames
    BY RolloutAssumption
  <2>2. /\ sender' \in [Devices -> {"none", "live", "dead"}]
        /\ cmds' \in [Devices -> Seq({"deploy", "stop"})]
        /\ acks' \in [Devices -> Seq(Frames)]
        /\ \A d \in Devices :
             Len(cmds'[d]) <= MaxFrames /\ Len(acks'[d]) <= MaxFrames
        /\ \A d \in Devices : /\ cmds'[d] \in Seq({"stop"})
                              /\ acks'[d] \in Seq(Quiet)
    BY <2>1
  <2>3. TypeOK'
    BY <1>1, <1>2, <1>3, <2>2 DEF DispatchInv, TypeOK
  <2>4. WireInv'
    BY <2>2 DEF DispatchInv, WireInv
  <2> QED
    BY <2>3, <2>4
<1>5. CallInv'
  BY <1>3 DEF CallInv
<1> QED
  BY <1>1, <1>2, <1>3, <1>4, <1>5, KeepApp DEF DispatchInv

-----------------------------------------------------------------------------
(* The controller *)

(* An idle reconciler waits on nothing and has no results.                 *)
LEMMA IdleState ==
  /\ Idle \in CtlStates /\ Idle.at = "idle" /\ Idle.call = None
  /\ Idle.result = NoStatuses
  BY FreeRequest DEF Idle, CtlStates

(* The start of a reconcile keeps the invariant.                           *)
LEMMA ReconcileInv ==
  ASSUME DispatchInv, Reconcile
  PROVE  DispatchInv'
<1> USE DEF wireVars
<1>1. /\ ctl' \in CtlStates
      /\ ctl'.at = "call" <=> ctl'.call # None
      /\ Supported(ctl'.result)
      /\ ctl'.call = None
  <2>1. connected \in SUBSET Devices
    BY DEF DispatchInv, TypeOK
  <2>2. \/ ctl' = ctl /\ ctl.at = "idle"
        \/ ctl' = Idle
        \/ \E at \in {"create", "running", "retry"} :
             ctl' = [Idle EXCEPT !.at = at]
        \/ ctl' = [Idle EXCEPT !.at = "deploy", !.todo = Devices,
                               !.seen = connected]
    BY DEF Reconcile
  <2>3. CASE ctl' = ctl /\ ctl.at = "idle"
    BY <2>3 DEF DispatchInv, TypeOK
  <2>4. CASE ctl' = Idle
    BY <2>4, IdleState, FreeRequest
  <2>5. ASSUME NEW at \in {"create", "running", "retry"},
               ctl' = [Idle EXCEPT !.at = at]
        PROVE  /\ ctl' \in CtlStates /\ ctl'.at = at /\ ctl'.call = None
               /\ Supported(ctl'.result)
    BY <2>5, IdleState, FreeRequest DEF CtlStates
  <2>6. CASE ctl' = [Idle EXCEPT !.at = "deploy", !.todo = Devices,
                                 !.seen = connected]
    BY <2>1, <2>6, IdleState, FreeRequest DEF CtlStates
  <2> QED
    BY <2>2, <2>3, <2>4, <2>5, <2>6
<1>2. cache' \in AppPhases \cup {None}
  BY DEF Reconcile, DispatchInv, TypeOK, AppPhases
<1>3. TypeOK'
  BY <1>1, <1>2 DEF Reconcile, DispatchInv, TypeOK
<1>4. Supported(ctl.result)' /\ CallInv'
  BY <1>1 DEF Reconcile, Supported, CallInv
<1> QED
  BY <1>3, <1>4, KeepApp, KeepRequests, KeepHand, KeepWire
     DEF Reconcile, DispatchInv

(* One device of handle_deploying keeps the invariant.                     *)
LEMMA DeployOneInv ==
  ASSUME DispatchInv, NEW d \in Devices, DeployOne(d)
  PROVE  DispatchInv'
<1> USE DEF wireVars
<1>1. /\ ctl \in CtlStates /\ Supported(ctl.result)
      /\ ctl.at = "deploy" /\ ctl.call = None
  BY DEF DispatchInv, TypeOK, DeployOne
<1>2. CASE \E r \in Slots :
             /\ NewRequest(r, "deploy", d, "wait")
             /\ ctl' = [ctl EXCEPT !.at = "call", !.call = r,
                                   !.todo = ctl.todo \ {d}]
  <2>1. PICK r \in Slots :
             /\ NewRequest(r, "deploy", d, "wait")
             /\ ctl' = [ctl EXCEPT !.at = "call", !.call = r,
                                   !.todo = ctl.todo \ {d}]
    BY <1>2
  <2>2. /\ req' \in [Slots -> Reqs]
        /\ \A s \in Slots : req'[s].at # "free" => req'[s].dev \in Devices
        /\ RequestInv'
        /\ req'[r].at = "wait" /\ req'[r].kind = "deploy"
    BY <2>1, NewRequestInv DEF DeployOne
  <2>3. /\ ctl' \in CtlStates /\ ctl'.at = "call" /\ ctl'.call = r
        /\ ctl'.result = ctl.result /\ r # None
    BY <1>1, <2>1, RolloutAssumption DEF CtlStates
  <2>4. TypeOK'
    BY <2>2, <2>3 DEF DeployOne, DispatchInv, TypeOK
  <2>5. Supported(ctl.result)' /\ CallInv'
    BY <1>1, <2>2, <2>3 DEF DeployOne, Supported, CallInv, InHandler
  <2> QED
    BY <2>2, <2>4, <2>5, KeepApp, KeepHand, KeepWire
       DEF DeployOne, DispatchInv
<1>3. CASE /\ ctl' = [ctl EXCEPT !.todo = ctl.todo \ {d},
                                 !.result[d] = "Failed"]
           /\ UNCHANGED req
  <2> DEFINE res == [ctl.result EXCEPT ![d] = "Failed"]
  <2>1. res \in DeviceStatuses /\ Supported(res)
    BY <1>1 DEF CtlStates, DeviceStatuses, DevPhases, Supported
  <2>2. ctl' = [ctl EXCEPT !.todo = ctl.todo \ {d}, !.result = res]
    BY <1>3
  <2> HIDE DEF res
  <2>3. /\ ctl' \in CtlStates /\ ctl'.at = "deploy" /\ ctl'.call = None
        /\ ctl'.result = res
    BY <1>1, <2>1, <2>2 DEF CtlStates
  <2>4. TypeOK'
    BY <1>3, <2>3 DEF DeployOne, DispatchInv, TypeOK
  <2>5. Supported(ctl.result)' /\ CallInv'
    BY <2>1, <2>3 DEF DeployOne, Supported, CallInv
  <2> QED
    BY <1>3, <2>4, <2>5, KeepApp, KeepRequests, KeepHand, KeepWire
       DEF DeployOne, DispatchInv
<1> QED
  BY <1>2, <1>3 DEF DeployOne

(* The controller's status patch keeps the invariant.                      *)
LEMMA CtlPatchInv ==
  ASSUME DispatchInv, CtlPatch
  PROVE  DispatchInv'
<1> USE DEF wireVars
<1>1. Handled \in AppStatus /\ Supported(Handled.dev)
  <2>1. /\ ctl \in CtlStates /\ Supported(ctl.result)
        /\ ctl.result \in DeviceStatuses
    BY DEF DispatchInv, TypeOK, CtlStates
  <2>2. CASE ctl.at \in {"create", "retry"}
    BY <2>2, FreeRequest DEF Handled, AppStatus, AppPhases
  <2>3. CASE ctl.at = "running"
    BY <2>3, FreeRequest DEF Handled, AppStatus, AppPhases
  <2>4. CASE ctl.at = "deploy"
    <3>1. Handled = [phase |-> DeployedPhase(ctl.result), dev |-> ctl.result]
      BY <2>4 DEF Handled
    <3>2. DeployedPhase(ctl.result) \in AppPhases
      BY DEF DeployedPhase, AppPhases
    <3> QED
      BY <2>1, <3>1, <3>2 DEF AppStatus
  <2> QED
    BY <2>2, <2>3, <2>4 DEF CtlPatch
<1>2. /\ app' \in AppStatus
      /\ cache' \in AppPhases \cup {None} /\ RunningHadSession'
  BY <1>1
     DEF CtlPatch, DispatchInv, TypeOK, AppStatus, RunningHadSession, Supported
<1>3. ctl' = Idle
  BY DEF CtlPatch
<1>4. TypeOK'
  BY <1>2, <1>3, IdleState DEF CtlPatch, DispatchInv, TypeOK
<1>5. Supported(ctl.result)' /\ CallInv'
  BY <1>3, IdleState, FreeRequest DEF CtlPatch, Supported, CallInv
<1> QED
  BY <1>2, <1>4, <1>5, KeepRequests, KeepHand, KeepWire
     DEF CtlPatch, DispatchInv

(* A restart of the controller keeps the invariant.                        *)
LEMMA CtlRestartInv ==
  ASSUME DispatchInv, CtlRestart
  PROVE  DispatchInv'
<1> USE DEF wireVars
<1>1. /\ req' \in [Slots -> Reqs]
      /\ \A r \in Slots : req'[r].at # "free" => req'[r].dev \in Devices
      /\ RequestInv'
  <2>1. CASE UNCHANGED req
    BY <2>1, KeepRequests DEF CtlRestart, DispatchInv, TypeOK
  <2>2. CASE ctl.call # None /\ req' = [req EXCEPT ![ctl.call] = Free]
    <3>1. ctl.call \in Slots
      BY <2>2 DEF DispatchInv, TypeOK, CtlStates
    <3> QED
      BY <2>2, <3>1, FreeRequest, RequestChange DEF CtlRestart
  <2> QED
    BY <2>1, <2>2 DEF CtlRestart
<1>2. ctl' = Idle
  BY DEF CtlRestart
<1>3. TypeOK'
  BY <1>1, <1>2, IdleState DEF CtlRestart, DispatchInv, TypeOK
<1>4. Supported(ctl.result)' /\ CallInv'
  BY <1>2, IdleState, FreeRequest DEF CtlRestart, Supported, CallInv
<1> QED
  BY <1>1, <1>3, <1>4, KeepApp, KeepHand, KeepWire DEF CtlRestart, DispatchInv

-----------------------------------------------------------------------------

(* The invariant holds at the start.                                       *)
LEMMA InitDispatchInv == Init => DispatchInv
<1> SUFFICES ASSUME Init PROVE DispatchInv
  OBVIOUS
<1>1. /\ <<>> \in Seq({"deploy", "stop"}) /\ <<>> \in Seq(Frames)
      /\ <<>> \in Seq({"stop"}) /\ <<>> \in Seq(Quiet)
      /\ Len(<<>>) = 0 /\ 0 <= MaxFrames
  BY RolloutAssumption
<1>2. /\ NoHand \in Hands
      /\ NoHand.frame = "none" /\ NoHand.seen = NoStatuses
      /\ NoStatus.dev = NoStatuses
  BY FreeRequest DEF NoHand, NoStatus, Hands, AppPhases
<1> HIDE DEF NoHand, NoStatus, NoStatuses, Free, Idle
<1>3. TypeOK
  BY <1>1, <1>2, FreeRequest, IdleState DEF Init, TypeOK
<1>4. RunningHadSession /\ Supported(ctl.result)
  BY <1>2, FreeRequest, IdleState DEF Init, RunningHadSession, Supported
<1>5. RequestInv
  BY FreeRequest DEF Init, RequestInv
<1>6. HandInv
  BY <1>2, FreeRequest DEF Init, HandInv, HandOK
<1>7. WireInv
  BY <1>1 DEF Init, WireInv
<1>8. CallInv
  BY IdleState DEF Init, CallInv
<1> QED
  BY <1>3, <1>4, <1>5, <1>6, <1>7, <1>8 DEF DispatchInv

(* Every step keeps the invariant.                                         *)
LEMMA NextDispatchInv == DispatchInv /\ [Next]_vars => DispatchInv'
<1> SUFFICES ASSUME DispatchInv, [Next]_vars PROVE DispatchInv'
  OBVIOUS
<1>1. CASE Operator
  BY <1>1, OperatorDeployInv, OperatorStopInv DEF Operator
<1>2. ASSUME NEW r \in Slots, Gateway(r) PROVE DispatchInv'
  BY <1>2, DeployReadyInv, DeployTimeoutInv, MarkInv, SendInv, ReportGetInv,
     ReportPatchInv DEF Gateway
<1>3. ASSUME NEW d \in Devices,
             Reader(d) \/ BoardHandles(d) \/ BoardReports(d)
      PROVE  DispatchInv'
  BY <1>3, AckGetInv, AckPatchInv, AckFallbackInv, BoardHandlesInv,
     BoardReportsInv DEF Reader
<1>4. CASE Controller
  BY <1>4, ReconcileInv, DeployOneInv, CtlPatchInv DEF Controller
<1>5. CASE CtlRestart
  BY <1>5, CtlRestartInv
<1>6. CASE Sessions
  BY <1>6, ConnectInv, LoseInv, NoticedInv, GatewayRestartInv DEF Sessions
<1>7. CASE UNCHANGED vars
  <2> USE <1>7 DEF vars, ctlVars, wireVars
  <2>1. TypeOK'
    BY DEF DispatchInv, TypeOK
  <2> QED
    BY <2>1, KeepApp, KeepResult, KeepRequests, KeepHand, KeepWire, KeepCall
       DEF DispatchInv
<1> QED
  BY <1>1, <1>2, <1>3, <1>4, <1>5, <1>6, <1>7 DEF Next

(* For any number of devices and of requests in progress: everything that  *)
(* may still turn into a Running, at the gateway, on the wire, on a board  *)
(* or at the controller, belongs to a device whose session was found.      *)
THEOREM DispatchInvariant == Spec => []DispatchInv
<1>1. Init => DispatchInv
  BY InitDispatchInv
<1>2. DispatchInv /\ [Next]_vars => DispatchInv'
  BY NextDispatchInv
<1> QED
  BY <1>1, <1>2, PTL DEF Spec

(* Every variable of the rollout has its type, and the queues of a         *)
(* connection stay within their bound.                                     *)
THEOREM RolloutTypes == Spec => []TypeOK
<1>1. DispatchInv => TypeOK
  BY DEF DispatchInv
<1> QED
  BY <1>1, DispatchInvariant, PTL

(* No crossing of stale snapshots, late acknowledgments, telemetry,        *)
(* retries and restarts reports a device Running for which deploy_         *)
(* application never found a TLS sender.                                   *)
THEOREM RunningOnlyAfterSession == Spec => []RunningHadSession
<1>1. DispatchInv => RunningHadSession
  BY DEF DispatchInv
<1> QED
  BY <1>1, DispatchInvariant, PTL

===========================================================================

------------------------ MODULE DeviceControlProofs -------------------------
(***************************************************************************)
(* Theorems about DeviceControl: for every number of devices and gateways, *)
(* a gateway that is Running, and every gateway a device is referred to,   *)
(* was brought up.                                                         *)
(***************************************************************************)
EXTENDS DeviceControl, TLAPS

(* What the builders of a status return.                                   *)
LEMMA StatusFacts ==
  /\ NoStatus \in Status
  /\ NoStatus.ref = None
  /\ initialize_device \in Status
  /\ initialize_device.ref = None
  /\ \A s \in Status : /\ handle_pending(s) \in Status
                       /\ handle_pending(s).ref = s.ref
                       /\ Old(s) \in Status
                       /\ Old(s).ref = s.ref
  /\ \A s, t \in Status : /\ Merge(s, t) \in Status
                          /\ Merge(s, t).ref \in {s.ref, t.ref}
BY ControlAssumption, ZenonT(60)
   DEF NoStatus, initialize_device, handle_pending, Old, Merge, Status, Phases,
       HeartbeatAges

(* The records of idle controllers and of no request.                      *)
LEMMA IdleFacts ==
  /\ Idle \in CtlStates
  /\ Idle.snap.ref = None
  /\ Idle.out.ref = None
  /\ Idle.pc = "idle"
  /\ GwIdle \in GctlStates
  /\ GwIdle.pc = "idle"
  /\ NoRequest \in Requests
  /\ NoRequest.name = None
BY StatusFacts DEF Idle, GwIdle, NoRequest, CtlStates, GctlStates, Requests

(* The initial state has nothing to be backed.                             *)
LEMMA InitInv == Init => ControlInv
<1> SUFFICES ASSUME Init PROVE ControlInv
  OBVIOUS
<1>1. TypeOK
  BY ControlAssumption, StatusFacts, IdleFacts
     DEF Init, TypeOK, GatewayStates, Endpoints
<1> QED
  BY <1>1, StatusFacts, IdleFacts
     DEF Init, ControlInv, RunningIsBacked, GoodRef

-----------------------------------------------------------------------------
(* Steps of a device's side leave what backs gateways alone.               *)
DeviceRefs(d) ==
  /\ GoodRef(dev[d].ref)
  /\ GoodRef(ctl[d].snap.ref)
  /\ GoodRef(ctl[d].out.ref)
  /\ GoodRef(request[d].name)
  /\ session[d] # "lost" => GoodRef(session[d])
  /\ ctl[d].pc = "check" => ctl[d].snap.ref # None

(* What a step of a device's side owes for the invariant.                  *)
LEMMA DeviceStep ==
  ASSUME ControlInv, UNCHANGED gwVars, TypeOK',
         NEW d \in Devices,
         \A e \in Devices \ {d} : /\ dev'[e] = dev[e]
                                   /\ ctl'[e] = ctl[e]
                                   /\ session'[e] = session[e]
                                   /\ request'[e] = request[e],
         DeviceRefs(d)'
  PROVE  ControlInv'
<1>1. RunningIsBacked'
  BY DEF ControlInv, RunningIsBacked, Backed, gwVars
<1>2. \A e \in Devices \ {d} : DeviceRefs(e)'
  BY DEF ControlInv, DeviceRefs, GoodRef, Started, gwVars
<1>3. \A g \in Gateways :
        /\ gctl'[g].pc \in {"deployment", "service"} => secret'
        /\ gctl'[g].pc = "service" => "deployment" \in built'[g]
        /\ gctl'[g].pc \in {"endpoint", "status"} => Backed(g)'
  BY DEF ControlInv, Backed, gwVars
<1> QED
  BY <1>1, <1>2, <1>3 DEF ControlInv, DeviceRefs

(* The reconcile's next step, when it is a patch.                          *)
LEMMA WriteFacts ==
  ASSUME ControlInv, UNCHANGED gwVars, NEW d \in Devices, NEW s \in Status,
         GoodRef(s.ref), NEW next \in {"idle", "boot", "reboot"},
         Write(d, s, next)
  PROVE  /\ ctl' \in [Devices -> CtlStates]
         /\ \A e \in Devices \ {d} : ctl'[e] = ctl[e]
         /\ GoodRef(ctl[d].snap.ref)'
         /\ GoodRef(ctl[d].out.ref)'
         /\ ctl'[d].pc # "check"
<1> DEFINE r == [pc |-> "patch",
                 snap |-> IF next = "reboot" THEN ctl[d].snap ELSE NoStatus,
                 out |-> s, next |-> next]
<1>1. ctl \in [Devices -> CtlStates] /\ ctl[d].snap \in Status
  BY DEF ControlInv, TypeOK, CtlStates
<1>2. r \in CtlStates
  BY <1>1, StatusFacts DEF CtlStates
<1>3. ctl' = [ctl EXCEPT ![d] = r]
  BY DEF Write
<1>4. GoodRef(r.snap.ref) /\ GoodRef(r.out.ref) /\ r.pc # "check"
  BY StatusFacts DEF ControlInv, GoodRef
<1> HIDE DEF r
<1>5. ctl'[d] = r /\ \A e \in Devices \ {d} : ctl'[e] = ctl[e]
  BY <1>1, <1>3
<1> QED
  BY <1>1, <1>2, <1>3, <1>4, <1>5 DEF GoodRef, Started, gwVars

(* The reconcile's next step, when it is not.                              *)
LEMMA GotoFacts ==
  ASSUME ControlInv, UNCHANGED gwVars, NEW d \in Devices,
         NEW pc \in {"idle", "boot", "reboot"}, Goto(d, pc)
  PROVE  /\ ctl' \in [Devices -> CtlStates]
         /\ \A e \in Devices \ {d} : ctl'[e] = ctl[e]
         /\ GoodRef(ctl[d].snap.ref)'
         /\ GoodRef(ctl[d].out.ref)'
         /\ ctl'[d].pc # "check"
<1> DEFINE r == IF pc = "reboot"
                  THEN [Idle EXCEPT !.pc = pc, !.snap = ctl[d].snap]
                  ELSE [Idle EXCEPT !.pc = pc]
<1>1. ctl \in [Devices -> CtlStates] /\ ctl[d].snap \in Status
  BY DEF ControlInv, TypeOK, CtlStates
<1>2. r \in CtlStates /\ r.pc # "check"
  BY <1>1, IdleFacts DEF CtlStates
<1>3. ctl' = [ctl EXCEPT ![d] = r]
  BY DEF Goto
<1>4. r.snap \in {ctl[d].snap, Idle.snap} /\ r.out = Idle.out
  BY IdleFacts DEF CtlStates
<1>5. GoodRef(r.snap.ref) /\ GoodRef(r.out.ref)
  BY <1>4, IdleFacts DEF ControlInv, GoodRef
<1> HIDE DEF r
<1>6. ctl'[d] = r /\ \A e \in Devices \ {d} : ctl'[e] = ctl[e]
  BY <1>1, <1>3
<1> QED
  BY <1>1, <1>2, <1>3, <1>5, <1>6 DEF GoodRef, Started, gwVars

(* A gateway that is active is backed.                                     *)
LEMMA ActiveIsBacked ==
  ASSUME ControlInv, NEW d \in Devices, NEW g \in Choices(d)
  PROVE  g \in Gateways /\ GoodRef(g)
BY DEF ControlInv, RunningIsBacked, Choices, Active, Backed, Started, GoodRef

(* The name that a connect request takes is one of a gateway that started. *)
LEMMA TargetIsBacked ==
  ASSUME ControlInv, NEW d \in Devices
  PROVE  Target(d) \in Gateways /\ GoodRef(Target(d))
BY ControlAssumption DEF ControlInv, TypeOK, Status, Target, GoodRef

(* What a step may do to the board and the session of d, and to the count  *)
(* of failures.                                                            *)
BoardStep(d) ==
  /\ boards' \subseteq Devices
  /\ session' \in [Devices -> Gateways \cup {None, "lost"}]
  /\ \A e \in Devices \ {d} : session'[e] = session[e]
  /\ session'[d] # "lost" => GoodRef(session'[d])
  /\ faults' \in Nat

(* A step that leaves the sessions alone.                                  *)
LEMMA BoardKept ==
  ASSUME ControlInv, NEW d \in Devices, UNCHANGED session,
         boards' \subseteq boards \cup {d}, UNCHANGED faults \/ Fault
  PROVE  BoardStep(d)
<1>1. faults' \in Nat
  BY DEF Fault, ControlInv, TypeOK
<1> QED
  BY <1>1 DEF BoardStep, ControlInv, TypeOK

(* A step that changes the session of d.                                   *)
LEMMA SessionChanged ==
  ASSUME ControlInv, NEW d \in Devices, NEW v \in Gateways \cup {None, "lost"},
         v # "lost" => GoodRef(v), session' = [session EXCEPT ![d] = v],
         boards' \subseteq boards, UNCHANGED faults \/ Fault
  PROVE  BoardStep(d)
<1>1. faults' \in Nat
  BY DEF Fault, ControlInv, TypeOK
<1>2. session \in [Devices -> Gateways \cup {None, "lost"}]
  BY DEF ControlInv, TypeOK
<1>3. session'[d] = v
  BY <1>2
<1> QED
  BY <1>1, <1>2, <1>3 DEF BoardStep, ControlInv, TypeOK

(* Starting a board touches that board only.                               *)
LEMMA StartFacts ==
  ASSUME ControlInv, NEW d \in Devices, StartBoard(d), UNCHANGED session
  PROVE  BoardStep(d)
<1>1. boards' \subseteq boards \cup {d} /\ (UNCHANGED faults \/ Fault)
  BY DEF StartBoard
<1> QED
  BY <1>1, BoardKept

(* A step of the controller that goes on to a patch.                       *)
LEMMA WriteStep ==
  ASSUME ControlInv, UNCHANGED gwVars, NEW d \in Devices, NEW s \in Status,
         GoodRef(s.ref), NEW next \in {"idle", "boot", "reboot"},
         Write(d, s, next), BoardStep(d),
         UNCHANGED <<exists, dev, request>>
  PROVE  ControlInv'
<1>1. /\ ctl' \in [Devices -> CtlStates]
      /\ \A e \in Devices \ {d} : ctl'[e] = ctl[e]
      /\ GoodRef(ctl[d].snap.ref)'
      /\ GoodRef(ctl[d].out.ref)'
      /\ ctl'[d].pc # "check"
  BY WriteFacts
<1>2. TypeOK'
  BY <1>1 DEF ControlInv, TypeOK, BoardStep, gwVars
<1>3. DeviceRefs(d)'
  BY <1>1 DEF DeviceRefs, ControlInv, BoardStep, GoodRef, Started, gwVars
<1> QED
  BY <1>1, <1>2, <1>3, DeviceStep DEF BoardStep

(* A step of the controller that goes on to something else.                *)
LEMMA GotoStep ==
  ASSUME ControlInv, UNCHANGED gwVars, NEW d \in Devices,
         NEW pc \in {"idle", "boot", "reboot"}, Goto(d, pc), BoardStep(d),
         NEW t \in Status, GoodRef(t.ref), dev' = [dev EXCEPT ![d] = t],
         UNCHANGED <<exists, request>>
  PROVE  ControlInv'
<1>1. /\ ctl' \in [Devices -> CtlStates]
      /\ \A e \in Devices \ {d} : ctl'[e] = ctl[e]
      /\ GoodRef(ctl[d].snap.ref)'
      /\ GoodRef(ctl[d].out.ref)'
      /\ ctl'[d].pc # "check"
  BY GotoFacts
<1>2. /\ dev' \in [Devices -> Status]
      /\ dev'[d] = t
      /\ \A e \in Devices \ {d} : dev'[e] = dev[e]
  BY DEF ControlInv, TypeOK
<1>3. TypeOK'
  BY <1>1, <1>2 DEF ControlInv, TypeOK, BoardStep, gwVars
<1>4. DeviceRefs(d)'
  BY <1>1, <1>2 DEF DeviceRefs, ControlInv, BoardStep, GoodRef, Started, gwVars
<1> QED
  BY <1>1, <1>2, <1>3, <1>4, DeviceStep DEF BoardStep

(* The same when the status is left alone.                                 *)
LEMMA GotoOnlyStep ==
  ASSUME ControlInv, UNCHANGED gwVars, NEW d \in Devices,
         NEW pc \in {"idle", "boot", "reboot"}, Goto(d, pc), BoardStep(d),
         UNCHANGED <<exists, dev, request>>
  PROVE  ControlInv'
<1>1. dev[d] \in Status /\ GoodRef(dev[d].ref)
  BY DEF ControlInv, TypeOK
<1>2. dev' = [dev EXCEPT ![d] = dev[d]]
  BY DEF ControlInv, TypeOK
<1> QED
  BY <1>1, <1>2, GotoStep

-----------------------------------------------------------------------------
(* A step of the device controller keeps the invariant.                    *)
LEMMA ControllerStep ==
  ASSUME ControlInv, NEW d \in Devices, Controller(d)
  PROVE  ControlInv'
<1> USE DEF devVars
<1>0. /\ TypeOK
      /\ dev[d] \in Status /\ ctl[d] \in CtlStates
      /\ ctl[d].snap \in Status /\ ctl[d].out \in Status
      /\ GoodRef(dev[d].ref) /\ GoodRef(ctl[d].snap.ref)
      /\ GoodRef(ctl[d].out.ref)
  BY DEF ControlInv, TypeOK, CtlStates
<1>1. CASE reconcile(d)
  <2> DEFINE s == dev[d]
  <2>1. CASE s.phase = "None"
    <3>1. Write(d, initialize_device, "idle") /\ UNCHANGED gwVars
      BY <1>1, <2>1 DEF reconcile
    <3>2. GoodRef(initialize_device.ref)
      BY StatusFacts DEF GoodRef
    <3> QED
      BY <1>0, <1>1, <3>1, <3>2, StatusFacts, WriteStep, BoardKept
         DEF reconcile
  <2>2. CASE s.phase = "Pending"
    <3>1. Write(d, handle_pending(s), "idle") /\ UNCHANGED gwVars
      BY <1>1, <2>2 DEF reconcile
    <3>2. handle_pending(s) \in Status /\ GoodRef(handle_pending(s).ref)
      BY <1>0, StatusFacts
    <3> QED
      BY <1>0, <1>1, <3>1, <3>2, WriteStep, BoardKept
         DEF reconcile
  <2>3. CASE s.phase \notin {"None", "Pending"}
    <3> DEFINE r == Begin(FirstStep(d, s), s)
    <3>1. ctl' = [ctl EXCEPT ![d] = r] /\ UNCHANGED gwVars
      BY <1>1, <2>3 DEF reconcile
    <3>2. FirstStep(d, s) \in {"enroll", "assign", "boot", "check", "reboot",
                               "register"}
      BY DEF FirstStep
    <3>3. FirstStep(d, s) = "check" => s.ref # None
      BY DEF FirstStep
    <3>4. /\ r \in CtlStates /\ r.snap \in {s, NoStatus} /\ r.out = Idle.out
          /\ r.pc = FirstStep(d, s)
          /\ r.pc = "check" => r.snap = s
      BY <1>0, <3>2, IdleFacts, StatusFacts DEF CtlStates, Begin
    <3> HIDE DEF r
    <3>5. /\ ctl' \in [Devices -> CtlStates]
          /\ ctl'[d] = r
          /\ \A e \in Devices \ {d} : ctl'[e] = ctl[e]
      BY <1>0, <3>1, <3>4 DEF TypeOK
    <3>6. TypeOK'
      BY <1>0, <1>1, <3>5 DEF TypeOK, reconcile, gwVars
    <3>7. DeviceRefs(d)'
      BY <1>0, <1>1, <3>3, <3>4, <3>5, IdleFacts, StatusFacts
         DEF DeviceRefs, reconcile, ControlInv, GoodRef, Started, gwVars
    <3> QED
      BY <1>1, <3>1, <3>5, <3>6, <3>7, DeviceStep DEF reconcile
  <2> QED
    BY <2>1, <2>2, <2>3
<1>2. CASE handle_enrollment(d)
  <2>1. CASE Goto(d, "idle")
    BY <1>0, <1>2, <2>1, GotoOnlyStep, BoardKept
       DEF handle_enrollment
  <2>2. ASSUME NEW g \in Choices(d),
               Write(d, [ctl[d].snap EXCEPT !.phase = "Enrolled", !.ref = g,
                                            !.ep = TRUE], "idle")
        PROVE  ControlInv'
    <3> DEFINE s == [ctl[d].snap EXCEPT !.phase = "Enrolled", !.ref = g,
                                        !.ep = TRUE]
    <3>1. s \in Status /\ s.ref = g
      BY <1>0, ActiveIsBacked DEF Status, Phases
    <3>2. GoodRef(s.ref) /\ UNCHANGED gwVars
      BY <1>2, <3>1, ActiveIsBacked DEF handle_enrollment
    <3> HIDE DEF s
    <3>3. Write(d, s, "idle")
      BY <2>2 DEF s
    <3> QED
      BY <1>0, <1>2, <3>1, <3>2, <3>3, WriteStep, BoardKept
         DEF handle_enrollment
  <2> QED
    BY <1>2, <2>1, <2>2 DEF handle_enrollment
<1>3. CASE handle_enrolled(d)
  <2>1. CASE Goto(d, "boot")
    BY <1>0, <1>3, <2>1, GotoOnlyStep, BoardKept
       DEF handle_enrolled
  <2>2. ASSUME NEW g \in Choices(d),
               Write(d, [ctl[d].snap EXCEPT !.ref = g, !.ep = TRUE], "boot")
        PROVE  ControlInv'
    <3> DEFINE s == [ctl[d].snap EXCEPT !.ref = g, !.ep = TRUE]
    <3>1. s \in Status /\ s.ref = g
      BY <1>0, ActiveIsBacked DEF Status
    <3>2. GoodRef(s.ref) /\ UNCHANGED gwVars
      BY <1>3, <3>1, ActiveIsBacked DEF handle_enrolled
    <3> HIDE DEF s
    <3>3. Write(d, s, "boot")
      BY <2>2 DEF s
    <3> QED
      BY <1>0, <1>3, <3>1, <3>2, <3>3, WriteStep, BoardKept
         DEF handle_enrolled
  <2> QED
    BY <1>3, <2>1, <2>2 DEF handle_enrolled
<1>4. CASE start_renode_device(d)
  BY <1>0, <1>4, GotoOnlyStep, StartFacts
     DEF start_renode_device
<1>5. CASE handle_connected(d)
  <2> DEFINE s == ctl[d].snap
  <2>0. UNCHANGED gwVars /\ faults' \in Nat
    BY <1>0, <1>5 DEF handle_connected, Fault, TypeOK
  <2>1. CASE Goto(d, "reboot")
    BY <1>0, <1>5, <2>0, <2>1, GotoOnlyStep, BoardKept
       DEF handle_connected
  <2>2. CASE Write(d, [s EXCEPT !.phase = "Disconnected", !.ref = None], "idle")
    <3> DEFINE t == [s EXCEPT !.phase = "Disconnected", !.ref = None]
    <3>1. t \in Status /\ t.ref = None
      BY <1>0 DEF Status, Phases
    <3> HIDE DEF t
    <3>2. Write(d, t, "idle") /\ GoodRef(t.ref)
      BY <2>2, <3>1 DEF t, GoodRef
    <3> QED
      BY <1>0, <1>5, <2>0, <3>1, <3>2, WriteStep, BoardKept
         DEF handle_connected
  <2>3. CASE Write(d, [s EXCEPT !.ep = TRUE], "reboot")
    <3> DEFINE t == [s EXCEPT !.ep = TRUE]
    <3>1. t \in Status /\ t.ref = s.ref
      BY <1>0 DEF Status
    <3> HIDE DEF t
    <3>2. Write(d, t, "reboot") /\ GoodRef(t.ref)
      BY <1>0, <2>3, <3>1 DEF t
    <3> QED
      BY <1>0, <1>5, <2>0, <3>1, <3>2, WriteStep, BoardKept
         DEF handle_connected
  <2> QED
    BY <1>5, <2>1, <2>2, <2>3 DEF handle_connected
<1>6. CASE handle_connected_end(d)
  <2> DEFINE t == [ctl[d].snap EXCEPT !.hb = "fresh"]
  <2>1. t \in Status /\ t.ref = ctl[d].snap.ref
    BY <1>0 DEF Status, HeartbeatAges
  <2> HIDE DEF t
  <2>2. Write(d, t, "idle") /\ GoodRef(t.ref) /\ UNCHANGED gwVars
    BY <1>0, <1>6, <2>1 DEF t, handle_connected_end
  <2> QED
    BY <1>0, <1>6, <2>1, <2>2, WriteStep, StartFacts
       DEF handle_connected_end
<1>7. CASE handle_disconnected(d)
  BY <1>0, <1>7, GotoOnlyStep, BoardKept
       DEF handle_disconnected
<1>8. CASE update_device_status(d)
  <2> DEFINE t == Merge(dev[d], ctl[d].out)
  <2>1. t \in Status /\ GoodRef(t.ref)
    BY <1>0, StatusFacts
  <2>2. ctl[d].next \in {"idle", "boot", "reboot"} /\ Goto(d, ctl[d].next)
    BY <1>0, <1>8 DEF update_device_status, CtlStates
  <2> HIDE DEF t
  <2>3. dev' = [dev EXCEPT ![d] = t] /\ UNCHANGED gwVars
    BY <1>8 DEF update_device_status, t
  <2> QED
    BY <1>0, <1>8, <2>1, <2>2, <2>3, GotoStep, BoardKept
       DEF update_device_status
<1>10. CASE PatchIgnored(d)
  <2>1. UNCHANGED gwVars /\ faults' \in Nat
    BY <1>0, <1>10 DEF PatchIgnored, Fault, TypeOK
  <2>2. PICK pc \in {"idle", "boot", "reboot"} : Goto(d, pc)
    BY <1>0, <1>10 DEF PatchIgnored, CtlStates
  <2> QED
    BY <1>0, <1>10, <2>1, <2>2, GotoOnlyStep, BoardKept
       DEF PatchIgnored
<1>9. CASE PatchFails(d)
  <2>1. UNCHANGED gwVars /\ faults' \in Nat
    BY <1>0, <1>9 DEF PatchFails, Fault, TypeOK
  <2>2. PICK pc \in {"idle", "boot", "reboot"} : Goto(d, pc)
    BY <1>9 DEF PatchFails
  <2> QED
    BY <1>0, <1>9, <2>1, <2>2, GotoOnlyStep, BoardKept
       DEF PatchFails
<1> QED
  BY <1>1, <1>2, <1>3, <1>4, <1>5, <1>6, <1>7, <1>8, <1>9, <1>10
     DEF Controller

-----------------------------------------------------------------------------
(* A step that patches a Device, or nothing, outside the controller.       *)
LEMMA StatusStep ==
  ASSUME ControlInv, UNCHANGED <<gwVars, ctl>>, NEW d \in Devices, BoardStep(d),
         NEW t \in Status, GoodRef(t.ref), dev' = [dev EXCEPT ![d] = t],
         NEW q \in Requests, GoodRef(q.name),
         request' = [request EXCEPT ![d] = q],
         exists' \subseteq Devices
  PROVE  ControlInv'
<1>1. /\ dev' \in [Devices -> Status]
      /\ dev'[d] = t
      /\ \A e \in Devices \ {d} : dev'[e] = dev[e]
  BY DEF ControlInv, TypeOK
<1>2. /\ request' \in [Devices -> Requests]
      /\ request'[d] = q
      /\ \A e \in Devices \ {d} : request'[e] = request[e]
  BY DEF ControlInv, TypeOK
<1>3. TypeOK'
  BY <1>1, <1>2 DEF ControlInv, TypeOK, BoardStep, gwVars
<1>4. DeviceRefs(d)'
  BY <1>1, <1>2 DEF DeviceRefs, ControlInv, BoardStep, GoodRef, Started, gwVars
<1> QED
  BY <1>1, <1>2, <1>3, <1>4, DeviceStep DEF BoardStep

(* What every step of a device's side finds.                               *)
LEMMA DeviceFacts ==
  ASSUME ControlInv, NEW d \in Devices
  PROVE  /\ dev[d] \in Status /\ GoodRef(dev[d].ref)
         /\ dev = [dev EXCEPT ![d] = dev[d]]
         /\ request[d] \in Requests /\ GoodRef(request[d].name)
         /\ request = [request EXCEPT ![d] = request[d]]
         /\ session[d] \in Gateways \cup {None, "lost"}
         /\ session[d] # "lost" => GoodRef(session[d])
         /\ exists \subseteq Devices
         /\ faults \in Nat
         /\ GoodRef(None)
BY DEF ControlInv, TypeOK, GoodRef

(* A step of the gateway process keeps the invariant.                      *)
LEMMA GatewayProcessStep ==
  ASSUME ControlInv, NEW d \in Devices, GatewayProcess(d)
  PROVE  ControlInv'
<1> USE DEF devVars
<1>0. /\ dev[d] \in Status /\ GoodRef(dev[d].ref)
      /\ dev = [dev EXCEPT ![d] = dev[d]]
      /\ request[d] \in Requests /\ GoodRef(request[d].name)
      /\ request = [request EXCEPT ![d] = request[d]]
      /\ session[d] \in Gateways \cup {None, "lost"}
      /\ session[d] # "lost" => GoodRef(session[d])
      /\ exists \subseteq Devices
      /\ GoodRef(None)
  BY DeviceFacts
<1>1. ASSUME NEW g \in Gateways, Attach(d, g) PROVE ControlInv'
  <2> DEFINE t == [dev[d] EXCEPT !.phase = "Connected", !.ref = g, !.ep = FALSE]
  <2>1. t \in Status /\ t.ref = g
    BY <1>0 DEF Status, Phases
  <2>2. dev' = [dev EXCEPT ![d] = t]
    BY <1>0, <1>1 DEF Attach
  <2> HIDE DEF t
  <2>3. GoodRef(g) /\ GoodRef(t.ref)
    BY <1>1, <2>1 DEF Attach, GoodRef
  <2>4. BoardStep(d)
    BY <1>1, <2>3, SessionChanged DEF Attach
  <2> QED
    BY <1>0, <1>1, <2>1, <2>2, <2>3, <2>4, StatusStep DEF Attach
<1>2. CASE Heartbeat(d)
  <2>0. session[d] \in Gateways /\ GoodRef(session[d])
    BY <1>0, <1>2, ControlAssumption DEF Heartbeat, IsLive
  <2> DEFINE t == IF dev[d].phase = "Unreachable"
                    THEN [phase |-> "Connected", ref |-> session[d],
                          ep |-> FALSE, hb |-> "fresh"]
                    ELSE [dev[d] EXCEPT !.hb = "fresh"]
  <2>1. t \in Status /\ t.ref \in {session[d], dev[d].ref}
    BY <1>0, <2>0 DEF Status, Phases, HeartbeatAges
  <2>2. dev' = [dev EXCEPT ![d] = t]
    BY <1>0, <1>2 DEF Heartbeat
  <2> HIDE DEF t
  <2>3. GoodRef(t.ref)
    BY <1>0, <2>0, <2>1
  <2> QED
    BY <1>0, <1>2, <2>1, <2>2, <2>3, StatusStep, BoardKept DEF Heartbeat
<1>3. CASE Lose(d)
  <2>1. BoardStep(d)
    BY <1>3, SessionChanged DEF Lose
  <2> QED
    BY <1>0, <1>3, <2>1, StatusStep DEF Lose
<1>4. CASE Noticed(d)
  <2> DEFINE t == IF d \in exists
                    THEN [dev[d] EXCEPT !.phase = "Disconnected", !.ref = None,
                                        !.ep = FALSE]
                    ELSE dev[d]
  <2>1. t \in Status /\ t.ref \in {None, dev[d].ref}
    BY <1>0 DEF Status, Phases
  <2>2. dev' = [dev EXCEPT ![d] = t]
    BY <1>0, <1>4 DEF Noticed
  <2> HIDE DEF t
  <2>3. BoardStep(d) /\ GoodRef(t.ref)
    BY <1>0, <1>4, <2>1, SessionChanged DEF Noticed
  <2> QED
    BY <1>0, <1>4, <2>1, <2>2, <2>3, StatusStep DEF Noticed
<1>5. CASE HeartbeatTimeout(d)
  <2> DEFINE r == [ctl[d] EXCEPT !.snap = Old(ctl[d].snap),
                                 !.out = Old(ctl[d].out)]
             t == Old(dev[d])
  <2>1. ctl \in [Devices -> CtlStates] /\ dev \in [Devices -> Status]
    BY DEF ControlInv, TypeOK
  <2>2. /\ r \in CtlStates
        /\ r.snap.ref = ctl[d].snap.ref
        /\ r.out.ref = ctl[d].out.ref
        /\ r.pc = ctl[d].pc
    BY <2>1, StatusFacts, ZenonT(60) DEF CtlStates
  <2>3. t \in Status /\ t.ref = dev[d].ref
    BY <1>0, StatusFacts
  <2>4. ctl' = [ctl EXCEPT ![d] = r] /\ dev' = [dev EXCEPT ![d] = t]
    BY <1>5, <2>1 DEF HeartbeatTimeout
  <2> HIDE DEF r, t
  <2>5. /\ ctl' \in [Devices -> CtlStates] /\ dev' \in [Devices -> Status]
        /\ ctl'[d] = r /\ dev'[d] = t
        /\ \A e \in Devices \ {d} : ctl'[e] = ctl[e] /\ dev'[e] = dev[e]
    BY <2>1, <2>2, <2>3, <2>4
  <2>6. TypeOK'
    BY <1>5, <2>5 DEF ControlInv, TypeOK, HeartbeatTimeout, gwVars
  <2>7. /\ UNCHANGED <<built, spawned, session, request>>
        /\ session[d] # "lost" => GoodRef(session[d])
        /\ DeviceRefs(d)
    BY <1>5 DEF HeartbeatTimeout, gwVars, ControlInv, DeviceRefs
  <2>8. \A g : GoodRef(g)' <=> GoodRef(g)
    BY <2>7 DEF GoodRef, Started
  <2>9. DeviceRefs(d)'
    BY <2>2, <2>3, <2>5, <2>7, <2>8 DEF DeviceRefs
  <2> QED
    BY <1>5, <2>5, <2>6, <2>9, DeviceStep DEF HeartbeatTimeout
<1>6. CASE Sweep(d)
  <2> DEFINE t == [dev[d] EXCEPT !.phase = "Unreachable", !.ref = None,
                                 !.ep = FALSE]
  <2>1. t \in Status /\ t.ref = None
    BY <1>0 DEF Status, Phases
  <2>2. dev' = [dev EXCEPT ![d] = t]
    BY <1>0, <1>6 DEF Sweep
  <2> HIDE DEF t
  <2> QED
    BY <1>0, <1>6, <2>1, <2>2, StatusStep, BoardKept DEF Sweep
<1> QED
  BY <1>1, <1>2, <1>3, <1>4, <1>5, <1>6 DEF GatewayProcess

(* A request about a Device keeps the invariant.                           *)
LEMMA DeviceRequestsStep ==
  ASSUME ControlInv, NEW d \in Devices, DeviceRequests(d)
  PROVE  ControlInv'
<1> USE DEF devVars
<1>0. /\ dev[d] \in Status /\ GoodRef(dev[d].ref)
      /\ dev = [dev EXCEPT ![d] = dev[d]]
      /\ request[d] \in Requests /\ GoodRef(request[d].name)
      /\ request = [request EXCEPT ![d] = request[d]]
      /\ session[d] \in Gateways \cup {None, "lost"}
      /\ session[d] # "lost" => GoodRef(session[d])
      /\ exists \subseteq Devices
      /\ faults \in Nat
      /\ GoodRef(None)
  BY DeviceFacts
<1>1. CASE create_device(d)
  BY <1>0, <1>1, StatusStep, BoardKept DEF create_device
<1>2. CASE delete_device(d)
  <2>1. GoodRef(NoStatus.ref) /\ NoStatus \in Status
    BY <1>0, StatusFacts
  <2> QED
    BY <1>0, <1>2, <2>1, StatusStep, BoardKept DEF delete_device
<1>3. CASE enroll_device(d)
  <2> DEFINE t == [dev[d] EXCEPT !.phase = "Enrolled"]
  <2>1. t \in Status /\ t.ref = dev[d].ref
    BY <1>0 DEF Status, Phases
  <2>2. dev' = [dev EXCEPT ![d] = t]
    BY <1>0, <1>3 DEF enroll_device
  <2> HIDE DEF t
  <2> QED
    BY <1>0, <1>3, <2>1, <2>2, StatusStep, BoardKept DEF enroll_device
<1>4. CASE disconnect_device(d)
  <2> DEFINE t == [dev[d] EXCEPT !.phase = "Disconnected"]
  <2>1. t \in Status /\ t.ref = dev[d].ref
    BY <1>0 DEF Status, Phases
  <2>2. dev' = [dev EXCEPT ![d] = t]
    BY <1>0, <1>4 DEF disconnect_device
  <2> HIDE DEF t
  <2> QED
    BY <1>0, <1>4, <2>1, <2>2, StatusStep, BoardKept DEF disconnect_device
<1>5. CASE StopBoard(d)
  <2> DEFINE v == IF session[d] = None THEN None ELSE "lost"
  <2>1. v \in Gateways \cup {None, "lost"} /\ (v # "lost" => GoodRef(v))
    BY <1>0
  <2>2. session' = [session EXCEPT ![d] = v] /\ boards' \subseteq boards
    BY <1>5 DEF StopBoard
  <2> HIDE DEF v
  <2>3. BoardStep(d)
    BY <1>5, <2>1, <2>2, SessionChanged DEF StopBoard
  <2> QED
    BY <1>0, <1>5, <2>3, StatusStep DEF StopBoard
<1>6. CASE ConnectReads(d)
  <2> DEFINE q == [name |-> Target(d), started |-> FALSE]
  <2>1. q \in Requests /\ GoodRef(q.name)
    BY TargetIsBacked DEF Requests
  <2>2. request' = [request EXCEPT ![d] = q]
    BY <1>6 DEF ConnectReads
  <2> HIDE DEF q
  <2> QED
    BY <1>0, <1>6, <2>1, <2>2, StatusStep, BoardKept DEF ConnectReads
<1>7. CASE ConnectStarts(d)
  <2>1. CASE /\ request' = [request EXCEPT ![d].started = TRUE]
             /\ boards' = boards \cup {d}
    <3> DEFINE q == [request[d] EXCEPT !.started = TRUE]
    <3>1. q \in Requests /\ q.name = request[d].name
      BY <1>0 DEF Requests
    <3>2. request' = [request EXCEPT ![d] = q]
      BY <1>0, <2>1
    <3>3. BoardStep(d)
      BY <1>7, <2>1, BoardKept DEF ConnectStarts
    <3> HIDE DEF q
    <3> QED
      BY <1>0, <1>7, <3>1, <3>2, <3>3, StatusStep DEF ConnectStarts
  <2>2. CASE request' = [request EXCEPT ![d] = NoRequest] /\ UNCHANGED boards
    <3>1. NoRequest \in Requests /\ GoodRef(NoRequest.name)
      BY <1>0, IdleFacts
    <3> QED
      BY <1>0, <1>7, <2>2, <3>1, StatusStep, BoardKept DEF ConnectStarts
  <2> QED
    BY <1>7, <2>1, <2>2 DEF ConnectStarts
<1>8. CASE ConnectPatches(d)
  <2> DEFINE t == IF dev' = dev
                    THEN dev[d]
                    ELSE [dev[d] EXCEPT !.phase = "Enrolling",
                                        !.ref = request[d].name, !.ep = TRUE]
  <2>1. t \in Status /\ t.ref \in {request[d].name, dev[d].ref}
    BY <1>0 DEF Status, Phases, Requests
  <2>2. dev' = [dev EXCEPT ![d] = t]
    BY <1>0, <1>8 DEF ConnectPatches
  <2> HIDE DEF t
  <2>3. NoRequest \in Requests /\ GoodRef(NoRequest.name)
    BY <1>0, IdleFacts
  <2> QED
    BY <1>0, <1>8, <2>1, <2>2, <2>3, StatusStep, BoardKept DEF ConnectPatches
<1> QED
  BY <1>1, <1>2, <1>3, <1>4, <1>5, <1>6, <1>7, <1>8 DEF DeviceRequests

-----------------------------------------------------------------------------
(* What a step of a gateway's side owes for the invariant: nothing that    *)
(* was built is taken away.                                                *)
LEMMA GatewayStep ==
  ASSUME ControlInv, UNCHANGED <<devVars, ctl, boards, session, request>>,
         TypeOK', RunningIsBacked',
         secret => secret', \A g \in Gateways : built[g] \subseteq built'[g],
         spawned \subseteq spawned',
         \A g \in Gateways :
           /\ gctl'[g].pc \in {"deployment", "service"} => secret'
           /\ gctl'[g].pc = "service" => "deployment" \in built'[g]
           /\ gctl'[g].pc \in {"endpoint", "status"} => Backed(g)'
  PROVE  ControlInv'
<1>1. \A g \in Gateways : Started(g) => "deployment" \in built'[g] \/ g \in spawned'
  BY DEF Started
<1>2. \A d \in Devices : /\ dev[d].ref \in Gateways \cup {None}
                         /\ ctl[d].snap.ref \in Gateways \cup {None}
                         /\ ctl[d].out.ref \in Gateways \cup {None}
                         /\ session[d] \in Gateways \cup {None, "lost"}
                         /\ request[d].name \in Gateways \cup {None}
  BY DEF ControlInv, TypeOK, Status, CtlStates, Requests
<1>3. \A d \in Devices : DeviceRefs(d)'
  BY <1>1, <1>2 DEF DeviceRefs, ControlInv, GoodRef, Started, devVars
<1> QED
  BY <1>3 DEF ControlInv, DeviceRefs

(* A step of the gateway controller keeps the invariant.                   *)
LEMMA GatewayControllerStep ==
  ASSUME ControlInv, NEW g \in Gateways, GatewayController(g)
  PROVE  ControlInv'
<1> USE DEF GatewayStates, GctlStates, Endpoints
<1>1. CASE GwReconcile(g)
  <2> DEFINE r == [pc |-> GwFirstStep(g), fix |->
                   gw[g].phase = "Pending" /\ gw[g].endpoint = "other"]
  <2>1. gw[g].phase \in {"Pending", "Running"} /\ gw[g].endpoint \in Endpoints
    BY <1>1 DEF GwReconcile, ControlInv, TypeOK, Exists
  <2>2. /\ GwFirstStep(g) \in {"secret", "endpoint", "status"}
        /\ GwFirstStep(g) # "secret" => gw[g].phase = "Running"
    BY <2>1 DEF GwFirstStep
  <2>3. r \in GctlStates /\ r.pc = GwFirstStep(g)
    BY <2>2
  <2>4. gctl' = [gctl EXCEPT ![g] = r]
    BY <1>1 DEF GwReconcile
  <2> HIDE DEF r
  <2>5. /\ gctl' \in [Gateways -> GctlStates]
        /\ gctl'[g] = r
        /\ \A x \in Gateways \ {g} : gctl'[x] = gctl[x]
    BY <2>3, <2>4 DEF ControlInv, TypeOK
  <2>6. UNCHANGED <<devVars, ctl, gw, built, spawned, secret, boards, session,
                    request, faults>>
    BY <1>1 DEF GwReconcile
  <2>7. TypeOK' /\ RunningIsBacked'
    BY <2>5, <2>6 DEF ControlInv, TypeOK, RunningIsBacked, Backed, devVars
  <2> QED
    BY <2>2, <2>3, <2>5, <2>6, <2>7, GatewayStep
       DEF ControlInv, RunningIsBacked, Backed
<1>2. CASE ensure_certificates_secret(g)
  <2>1. TypeOK' /\ RunningIsBacked'
    BY <1>2 DEF ensure_certificates_secret, GwGoto, ControlInv, TypeOK,
                RunningIsBacked, Backed, devVars
  <2> QED
    BY <1>2, <2>1, GatewayStep
       DEF ensure_certificates_secret, GwGoto, ControlInv, TypeOK, Backed
<1>3. CASE create_gateway_deployment(g)
  <2>1. TypeOK' /\ RunningIsBacked'
    BY <1>3 DEF create_gateway_deployment, GwGoto, ControlInv, TypeOK,
                RunningIsBacked, Backed, devVars
  <2> QED
    BY <1>3, <2>1, GatewayStep
       DEF create_gateway_deployment, GwGoto, ControlInv, TypeOK, Backed
<1>4. CASE create_gateway_service(g)
  <2>1. TypeOK' /\ RunningIsBacked'
    BY <1>4 DEF create_gateway_service, GwGoto, ControlInv, TypeOK,
                RunningIsBacked, Backed, devVars
  <2> QED
    BY <1>4, <2>1, GatewayStep
       DEF create_gateway_service, GwGoto, ControlInv, TypeOK, Backed
<1>5. CASE FixEndpoint(g)
  <2>a. gw \in [Gateways -> GatewayStates] /\ faults \in Nat
    BY DEF ControlInv, TypeOK
  <2>0. /\ gw' \in [Gateways -> GatewayStates] /\ faults' \in Nat
        /\ \A x \in Gateways : gw'[x].phase = gw[x].phase
    BY <1>5, <2>a DEF FixEndpoint, Fault
  <2>1. TypeOK' /\ RunningIsBacked'
    BY <1>5, <2>0, ZenonT(60) DEF FixEndpoint, GwGoto, ControlInv, TypeOK, RunningIsBacked,
                      Backed, devVars
  <2> QED
    BY <1>5, <2>1, GatewayStep
       DEF FixEndpoint, GwGoto, ControlInv, TypeOK, Backed
<1>6. CASE GwReport(g)
  <2>1. TypeOK' /\ RunningIsBacked'
    BY <1>6, IdleFacts, SMTT(60)
       DEF GwReport, update_gateway_status, ControlInv, TypeOK, RunningIsBacked, Backed,
           devVars
  <2> QED
    BY <1>6, <2>1, GatewayStep, IdleFacts
       DEF GwReport, update_gateway_status, ControlInv, TypeOK, Backed
<1>7. CASE GwFails(g)
  <2>1. TypeOK' /\ RunningIsBacked'
    BY <1>7, IdleFacts
       DEF GwFails, Fault, ControlInv, TypeOK, RunningIsBacked, Backed, devVars
  <2> QED
    BY <1>7, <2>1, GatewayStep, IdleFacts DEF GwFails, ControlInv, TypeOK, Backed
<1> QED
  BY <1>1, <1>2, <1>3, <1>4, <1>5, <1>6, <1>7 DEF GatewayController

(* A request about a Gateway keeps the invariant.                          *)
LEMMA GatewayRequestsStep ==
  ASSUME ControlInv, NEW g \in Gateways, GatewayRequests(g)
  PROVE  ControlInv'
<1> USE DEF GatewayStates, Endpoints
<1>1. /\ UNCHANGED <<devVars, ctl, built, secret, gctl, boards, session, request>>
      /\ spawned \subseteq spawned' /\ spawned' \subseteq spawned \cup {g}
  BY DEF GatewayRequests, create_gateway, SpawnGateway, delete_gateway,
     update_gateway
<1>2. /\ gw' \in [Gateways -> GatewayStates] /\ faults' \in Nat
      /\ \A x \in Gateways : gw'[x].phase = "Running" => gw[x].phase = "Running"
  <2>1. CASE create_gateway(g)
    BY <2>1 DEF create_gateway, ControlInv, TypeOK
  <2>2. CASE delete_gateway(g)
    BY <2>2, SMTT(60) DEF delete_gateway, Fault, ControlInv, TypeOK
  <2>3. CASE update_gateway(g)
    BY <2>3 DEF update_gateway, Fault, ControlInv, TypeOK
  <2>4. CASE SpawnGateway(g)
    BY <2>4 DEF SpawnGateway, Fault, ControlInv, TypeOK
  <2> QED
    BY <2>1, <2>2, <2>3, <2>4 DEF GatewayRequests
<1>3. TypeOK' /\ RunningIsBacked'
  BY <1>1, <1>2 DEF ControlInv, TypeOK, RunningIsBacked, Backed, devVars
<1> QED
  BY <1>1, <1>3, GatewayStep DEF ControlInv, Backed

(* Every step keeps the invariant.                                         *)
LEMMA NextInv == ControlInv /\ [Next]_vars => ControlInv'
<1> SUFFICES ASSUME ControlInv, [Next]_vars PROVE ControlInv'
  OBVIOUS
<1>1. CASE Next
  BY <1>1, ControllerStep, GatewayProcessStep, DeviceRequestsStep,
     GatewayControllerStep, GatewayRequestsStep DEF Next
<1>2. CASE UNCHANGED vars
  BY <1>2 DEF vars, ControlInv, TypeOK, RunningIsBacked, GoodRef, Started,
     Backed
<1> QED
  BY <1>1, <1>2

(* The inductive invariant holds in every behaviour: whatever order the    *)
(* two controllers, the gateway process and the API server's requests are  *)
(* taken in, and whichever of their steps fail.                            *)
THEOREM ControlInvariant == Spec => []ControlInv
<1>1. Init => ControlInv
  BY InitInv
<1>2. ControlInv /\ [Next]_vars => ControlInv'
  BY NextInv
<1> QED
  BY <1>1, <1>2, PTL DEF Spec

(* A Gateway resource is Running only with the secret, its Deployment and  *)
(* its Service in place (handle_pending of the gateway controller); the    *)
(* secret may still be empty.                                              *)
THEOREM RunningGatewaysAreBacked == Spec => []RunningIsBacked
<1>1. ControlInv => RunningIsBacked
  BY DEF ControlInv
<1> QED
  BY <1>1, ControlInvariant, PTL

(* A Device is referred only to the default gateway or to one under whose  *)
(* name a process was deployed or spawned (handle_enrollment and           *)
(* update_device_status of the device controller, whose patches are stale, *)
(* and whichever gateway accepts the device's connection).                 *)
THEOREM ReferencesAreBacked == Spec => []ReferenceIsBacked
<1>1. ControlInv => ReferenceIsBacked
  BY DEF ControlInv, ReferenceIsBacked, GoodRef
<1> QED
  BY <1>1, ControlInvariant, PTL

=============================================================================

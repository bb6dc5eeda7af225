----------------------- MODULE GatewaySessionsProofs -----------------------
(***************************************************************************)
(* Proofs about GatewaySessions, for any number of connections, keys,      *)
(* devices and challenges and for every set of inputs.                     *)
(*                                                                         *)
(* Every lemma about a step has the same layout: first the steps that      *)
(* leave the variables of the property alone, then one step per action     *)
(* that changes them, then the QED step, which opens Next and the actions  *)
(* not treated above far enough to see that they are of the first kind.    *)
(***************************************************************************)
EXTENDS GatewaySessions, TLAPS

-----------------------------------------------------------------------------
(* Type correctness *)

(* The status builders stay within DeviceStatus.                           *)
LEMMA StatusBuilders ==
  \A s \in DeviceStatus :
    /\ mark_connected(s) \in DeviceStatus
    /\ mark_enrolled(s) \in DeviceStatus
    /\ mark_disconnected(s) \in DeviceStatus
    /\ mark_unreachable(s) \in DeviceStatus
    /\ update_heartbeat(s) \in DeviceStatus
    /\ [s EXCEPT !.hb = "stale"] \in DeviceStatus
  BY DEF DeviceStatus, Phases, HeartbeatAges, mark_connected, mark_enrolled,
         mark_disconnected, mark_unreachable, update_heartbeat

(* A status patch keeps the type of the status map, whether or not the     *)
(* device exists.                                                          *)
LEMMA PatchType ==
  ASSUME CrdTypeOK, NEW d, NEW s, d \in Names => s \in DeviceStatus,
         Patch(d, s) \/ PatchOrFail(d, s)
  PROVE  status' \in [Names -> DeviceStatus]
  BY DEF CrdTypeOK, Patch, PatchOrFail

(* Every step keeps the type of the Device resources.                      *)
LEMMA CrdTypeStep ==
  ASSUME TypeOK, [Next]_vars
  PROVE  CrdTypeOK'
  <1> USE DEF TypeOK, CrdTypeOK, keyVars
  <1>1. ASSUME UNCHANGED crdVars
        PROVE  CrdTypeOK'
    BY <1>1 DEF crdVars, keyVars
  <1>2. ASSUME NEW d \in Names, NEW k \in Keys, Provision(d, k)
        PROVE  CrdTypeOK'
    BY <1>2 DEF Provision, InitialStatus, DeviceStatus, Phases, HeartbeatAges
  <1>3. ASSUME NEW d \in Names, delete_device(d)
        PROVE  CrdTypeOK'
    BY <1>3 DEF delete_device
  <1>4. ASSUME NEW c \in Conns, OnConnectKnown(c)
        PROVE  CrdTypeOK'
    <2>1. PICK d \in Names : Patch(d, mark_connected(status[d]))
      BY <1>4 DEF OnConnectKnown
    <2> QED BY <1>4, <2>1, PatchType, StatusBuilders DEF OnConnectKnown
  <1>5. ASSUME NEW c \in Conns, HeartbeatPatch(c)
        PROVE  CrdTypeOK'
    <2> DEFINE d == task[c].dev
               s == IF task[c].phase = "Unreachable"
                      THEN mark_connected(status[d]) ELSE status[d]
    <2>1. d \in Names => update_heartbeat(s) \in DeviceStatus
      BY StatusBuilders
    <2>2. PatchOrFail(d, update_heartbeat(s))
      BY <1>5 DEF HeartbeatPatch
    <2> QED BY <1>5, <2>1, <2>2, PatchType DEF HeartbeatPatch
  <1>6. ASSUME NEW c \in Conns, EnrollConnected(c)
        PROVE  CrdTypeOK'
    <2> DEFINE d == task[c].dev
    <2>1. d \in Names => mark_connected(status[d]) \in DeviceStatus
      BY StatusBuilders
    <2>2. PatchOrFail(d, mark_connected(status[d]))
      BY <1>6 DEF EnrollConnected
    <2> QED BY <1>6, <2>1, <2>2, PatchType DEF EnrollConnected
  <1>7. ASSUME NEW c \in Conns, NEW d \in Names, EnrollCreate(c, d)
        PROVE  CrdTypeOK'
    <2>1. task[c].key \in Keys \cup {None}
      BY DEF TaskTypeOK, Tasks
    <2> QED BY <1>7, <2>1 DEF EnrollCreate
  <1>8. ASSUME NEW c \in Conns, EnrollMark(c)
        PROVE  CrdTypeOK'
    <2>1. status' \in [Names -> DeviceStatus]
      BY <1>8, PatchType, StatusBuilders DEF EnrollMark
    <2> QED BY <1>8, <2>1 DEF EnrollMark
  <1>9. ASSUME NEW c \in Conns, OnDisconnect(c)
        PROVE  CrdTypeOK'
    <2>1. status' \in [Names -> DeviceStatus]
      BY <1>9, PatchType, StatusBuilders DEF OnDisconnect
    <2> QED BY <1>9, <2>1 DEF OnDisconnect
  <1>10. ASSUME NEW d \in Names, HeartbeatExpires(d)
         PROVE  CrdTypeOK'
    BY <1>10, PatchType, StatusBuilders DEF HeartbeatExpires
  <1>11. ASSUME NEW d \in Names, MonitorMark(d)
         PROVE  CrdTypeOK'
    BY <1>11, PatchType, StatusBuilders DEF MonitorMark
  <1> QED
    BY <1>1, <1>2, <1>3, <1>4, <1>5, <1>6, <1>7, <1>8, <1>9, <1>10, <1>11
    DEF Next, Boards, AcceptLoop, Reader, Monitor, HttpRequests, Timers, vars,
        crdVars, keyVars, Accept, PeerClose, HeartbeatRead, PublicKey,
        ChallengeResponse, OtherFrame, InvalidFrame, Disconnect, ReaderEnds,
        OnConnectUnknown, OnConnectError, OnConnectionReady, EnrollExisting,
        EnrollNew, EnrollActivate, EnrollError, MonitorList, set_pairing_mode,
        connect_device, DeployPicks, DeployBinds, ChallengeExpires,
        GatewayRestart

(* Every step keeps the type of the connections.                           *)
LEMMA WireTypeStep ==
  ASSUME TypeOK, [Next]_vars
  PROVE  WireTypeOK'
  <1> USE DEF TypeOK, WireTypeOK
  <1>1. ASSUME UNCHANGED wireVars
        PROVE  WireTypeOK'
    BY <1>1 DEF wireVars
  <1>2. ASSUME NEW c \in Conns, NEW h \in Keys, NEW k \in Keys \cup {None},
               Accept(c, h, k)
        PROVE  WireTypeOK'
    BY <1>2 DEF Accept
  <1>3. ASSUME NEW c \in Conns, NEW how \in {"draining", "gone"},
               PeerClose(c, how)
        PROVE  WireTypeOK'
    BY <1>3 DEF PeerClose
  <1>4. ASSUME NEW c \in Conns, Frame(c)
        PROVE  WireTypeOK'
    BY <1>4 DEF Frame
  <1>5. ASSUME NEW c \in Conns, OnConnectUnknown(c) \/ OnConnectError(c)
        PROVE  WireTypeOK'
    BY <1>5 DEF OnConnectUnknown, OnConnectError, Authorized, Unauthorized
  <1>6. ASSUME GatewayRestart
        PROVE  WireTypeOK'
    BY <1>6 DEF GatewayRestart
  <1> QED
    BY <1>1, <1>2, <1>3, <1>4, <1>5, <1>6
    DEF Next, Boards, AcceptLoop, Reader, Monitor, HttpRequests, Timers, vars,
        wireVars, Provision, HeartbeatRead, PublicKey, ChallengeResponse,
        OtherFrame, InvalidFrame, Disconnect, ReaderEnds, OnConnectKnown,
        Authorized, OnConnectionReady, HeartbeatPatch, EnrollExisting,
        EnrollConnected, EnrollNew, EnrollCreate, EnrollActivate, EnrollMark,
        EnrollError, OnDisconnect, MonitorList, MonitorMark, set_pairing_mode,
        delete_device, connect_device, DeployPicks, DeployBinds,
        ChallengeExpires, HeartbeatExpires

(* The records that a reader task works on.                                *)
LEMMA TaskRecords ==
  ASSUME TaskTypeOK
  PROVE  /\ NoTask \in Tasks
         /\ \A k \in Keys : [NoTask EXCEPT !.key = k] \in Tasks
         /\ \A d \in Names, p \in Phases :
              [NoTask EXCEPT !.dev = d, !.phase = p] \in Tasks
         /\ \A c \in Conns, d \in Names :
              [task EXCEPT ![c].dev = d] \in [Conns -> Tasks]
         /\ \A c \in Conns, t \in Tasks :
              [task EXCEPT ![c] = t] \in [Conns -> Tasks]
  <1>1. NoTask \in Tasks
    BY DEF NoTask, Tasks, Phases
  <1>2. \A t \in Tasks, k \in Keys : [t EXCEPT !.key = k] \in Tasks
    BY DEF Tasks
  <1>3. \A t \in Tasks, d \in Names, p \in Phases :
          [t EXCEPT !.dev = d, !.phase = p] \in Tasks
    BY DEF Tasks
  <1>4. \A c \in Conns, d \in Names : [task[c] EXCEPT !.dev = d] \in Tasks
    BY DEF Tasks, TaskTypeOK
  <1> QED BY <1>1, <1>2, <1>3, <1>4 DEF TaskTypeOK

(* Every step keeps the type of the tasks of a connection.                 *)
LEMMA TaskTypeStep ==
  ASSUME TypeOK, [Next]_vars
  PROVE  TaskTypeOK'
  <1> USE TaskRecords DEF TypeOK, TaskTypeOK, ConnStates, ReaderStates
  <1>1. ASSUME UNCHANGED taskVars
        PROVE  TaskTypeOK'
    BY <1>1 DEF taskVars
  <1>2. ASSUME NEW c \in Conns, NEW h, NEW k, Accept(c, h, k)
        PROVE  TaskTypeOK'
    BY <1>2 DEF Accept
  <1>3. ASSUME NEW c \in Conns, Authorized(c) \/ Unauthorized(c)
        PROVE  TaskTypeOK'
    BY <1>3 DEF Authorized, Unauthorized
  <1>4. ASSUME NEW c \in Conns, OnConnectionReady(c)
        PROVE  TaskTypeOK'
    BY <1>4 DEF OnConnectionReady
  <1>5. ASSUME NEW c \in Conns, HeartbeatRead(c)
        PROVE  TaskTypeOK'
    <2> DEFINE d == resolve_device_id(c)
    <2>1. d \in Names
      BY <1>5 DEF HeartbeatRead, resolve_device_id, RegistryTypeOK,
                  WireTypeOK
    <2>2. status[d].phase \in Phases
      BY <2>1 DEF CrdTypeOK, DeviceStatus
    <2>3. [NoTask EXCEPT !.dev = d, !.phase = status[d].phase] \in Tasks
      BY <2>1, <2>2
    <2> QED BY <1>5, <2>3 DEF HeartbeatRead, Frame
  <1>6. ASSUME NEW c \in Conns, NEW sig, ChallengeResponse(c, sig)
        PROVE  TaskTypeOK'
    <2>1. challenge[c] # None => challenge[c].key \in Keys
      BY DEF ProofTypeOK, Challenges
    <2>2. challenge[c] # None =>
            [NoTask EXCEPT !.key = challenge[c].key] \in Tasks
      BY <2>1
    <2>3. task' \in [Conns -> Tasks]
      BY <1>6, <2>2 DEF ChallengeResponse
    <2>4. \A x \in Conns : reader'[x] = "activate" => task'[x].dev \in Names
      BY <1>6 DEF ChallengeResponse, Frame
    <2> QED BY <1>6, <2>3, <2>4 DEF ChallengeResponse, Frame
  <1>7. ASSUME NEW c \in Conns, EnrollExisting(c)
        PROVE  TaskTypeOK'
    <2>1. PICK d \in Names : task' = [task EXCEPT ![c].dev = d]
      BY <1>7 DEF EnrollExisting
    <2> QED BY <1>7, <2>1 DEF EnrollExisting
  <1>8. ASSUME NEW c \in Conns, NEW d \in Names, EnrollCreate(c, d)
        PROVE  TaskTypeOK'
    <2>1. task'[c].dev = d
      BY <1>8 DEF EnrollCreate, Tasks
    <2> QED BY <1>8, <2>1 DEF EnrollCreate
  <1>9. ASSUME NEW c \in Conns,
               \/ HeartbeatPatch(c) \/ EnrollConnected(c) \/ EnrollNew(c)
               \/ EnrollActivate(c) \/ EnrollMark(c) \/ EnrollError(c)
               \/ ReaderEnds(c) \/ OnDisconnect(c)
        PROVE  TaskTypeOK'
    BY <1>9, ZenonT(60)
    DEF HeartbeatPatch, EnrollConnected, EnrollNew, EnrollActivate,
                EnrollMark, EnrollError, ReaderEnds, OnDisconnect
  <1>10. ASSUME GatewayRestart
         PROVE  TaskTypeOK'
    BY <1>10 DEF GatewayRestart
  <1> QED
    BY <1>1, <1>2, <1>3, <1>4, <1>5, <1>6, <1>7, <1>8, <1>9, <1>10
    DEF Next, Boards, AcceptLoop, Reader, Monitor, HttpRequests, Timers, vars,
        taskVars, Provision, PeerClose, PublicKey, Frame, OtherFrame,
        InvalidFrame, Disconnect, OnConnectKnown, OnConnectUnknown,
        OnConnectError, MonitorList, MonitorMark, set_pairing_mode,
        delete_device, connect_device, DeployPicks, DeployBinds,
        ChallengeExpires, HeartbeatExpires

(* The registry operations keep the type of the maps.                      *)
LEMMA RegistryOperations ==
  ASSUME RegistryTypeOK, NEW c \in Conns, NEW d \in Names, NEW k
  PROVE  /\ register_device(d, k) =>
              registered' \subseteq Names
              /\ keyMap' \in [Keys -> Names \cup {None}]
         /\ set_device_tls_sender(k, c) =>
              sender' \in [Names -> Conns \cup {None}]
         /\ \A reg : activate_device_sender(c, d, k, reg) =>
              /\ pending' \subseteq Conns
              /\ connMap' \in [Conns -> Names \cup {None}]
              /\ keyMap' \in [Keys -> Names \cup {None}]
              /\ sender' \in [Names -> Conns \cup {None}]
  BY DEF RegistryTypeOK, register_device, set_device_tls_sender,
         activate_device_sender

(* Every step keeps the type of the session registry.                      *)
LEMMA RegistryTypeStep ==
  ASSUME TypeOK, [Next]_vars
  PROVE  RegistryTypeOK'
  <1> DEFINE moreVars == <<pairing, deploy, sweep, bound>>
  <1> USE DEF TypeOK, RegistryTypeOK, regVars
  <1>1. ASSUME UNCHANGED <<regVars, moreVars>>
        PROVE  RegistryTypeOK'
    BY <1>1
  <1>2. ASSUME NEW c \in Conns, OnConnectKnown(c)
        PROVE  RegistryTypeOK'
    BY <1>2, RegistryOperations DEF OnConnectKnown
  <1>3. ASSUME NEW c \in Conns, OnConnectionReady(c)
        PROVE  RegistryTypeOK'
    BY <1>3 DEF OnConnectionReady, set_device_tls_sender
  <1>4. ASSUME NEW c \in Conns, EnrollExisting(c)
        PROVE  RegistryTypeOK'
    <2>1. PICK d \in Names :
                 /\ activate_device_sender(c, d, task[c].key,
                                           registered \cup {d})
                 /\ registered' = registered \cup {d}
      BY <1>4 DEF EnrollExisting
    <2> QED BY <1>4, <2>1, RegistryOperations DEF EnrollExisting
  <1>5. ASSUME NEW c \in Conns, EnrollActivate(c)
        PROVE  RegistryTypeOK'
    BY <1>5, RegistryOperations DEF EnrollActivate, TaskTypeOK
  <1>6. ASSUME NEW c \in Conns, ReaderEnds(c)
        PROVE  RegistryTypeOK'
    BY <1>6 DEF ReaderEnds, remove_connection
  <1>7. ASSUME MonitorList \/ \E d \in Names : MonitorMark(d)
        PROVE  RegistryTypeOK'
    BY <1>7 DEF MonitorList, MonitorMark, TimedOut
  <1>8. ASSUME NEW d \in Names, connect_device(d)
        PROVE  RegistryTypeOK'
    BY <1>8 DEF connect_device, register_device
  <1>9. ASSUME NEW d \in Names, NEW c \in Conns, DeployPicks(d, c)
        PROVE  RegistryTypeOK'
    BY <1>9 DEF DeployPicks
  <1>10. ASSUME NEW d \in Names, DeployBinds(d)
         PROVE  RegistryTypeOK'
    BY <1>10 DEF DeployBinds, activate_device_sender
  <1>11. ASSUME set_pairing_mode
         PROVE  RegistryTypeOK'
    BY <1>11 DEF set_pairing_mode
  <1>12. ASSUME GatewayRestart
         PROVE  RegistryTypeOK'
    BY <1>12, ConstantsAssumption DEF GatewayRestart
  <1> QED
    BY <1>1, <1>2, <1>3, <1>4, <1>5, <1>6, <1>7, <1>8, <1>9, <1>10, <1>11,
       <1>12
    DEF Next, Boards, AcceptLoop, Reader, Monitor, HttpRequests, Timers, vars,
        Provision, Accept, PeerClose, HeartbeatRead, PublicKey,
        ChallengeResponse, OtherFrame, InvalidFrame, Disconnect,
        OnConnectUnknown, OnConnectError, HeartbeatPatch, EnrollConnected,
        EnrollNew, EnrollCreate, EnrollMark, EnrollError, OnDisconnect,
        delete_device, ChallengeExpires, HeartbeatExpires

(* Every step keeps the type of challenges and signatures.                 *)
LEMMA ProofTypeStep ==
  ASSUME TypeOK, [Next]_vars
  PROVE  ProofTypeOK'
  <1> USE ConstantsAssumption DEF TypeOK, ProofTypeOK
  <1>1. ASSUME UNCHANGED <<challenge, popVars>>
        PROVE  ProofTypeOK'
    BY <1>1 DEF popVars
  <1>2. ASSUME NEW c \in Conns, NEW k \in Keys, PublicKey(c, k)
        PROVE  ProofTypeOK'
    BY <1>2 DEF PublicKey, issue_challenge, Challenges, Nonces
  <1>3. ASSUME NEW c \in Conns, ChallengeExpires(c)
        PROVE  ProofTypeOK'
    <2>1. [challenge[c] EXCEPT !.expired = TRUE] \in Challenges
      BY <1>3 DEF ChallengeExpires, Challenges
    <2> QED BY <1>3, <2>1 DEF ChallengeExpires, popVars
  <1>4. ASSUME NEW c \in Conns, NEW sig \in Signatures(c),
               ChallengeResponse(c, sig)
        PROVE  ProofTypeOK'
    <2>1. sig \in (Keys \cup {None}) \X (0 .. MaxNonces)
      BY DEF Signatures, WireTypeOK
    <2>2. challenge[c] # None => /\ challenge[c].key \in Keys
                                 /\ challenge[c].nonce \in Nonces
      BY DEF Challenges
    <2>3. challenge' \in [Conns -> Challenges \cup {None}]
      BY <1>4 DEF ChallengeResponse, take_challenge
    <2>4. accepts' \in [Nonces -> Nat]
      BY <1>4, <2>2 DEF ChallengeResponse
    <2>5. proved' \subseteq Conns \X Keys
      BY <1>4, <2>2 DEF ChallengeResponse
    <2> QED BY <1>4, <2>1, <2>3, <2>4, <2>5 DEF ChallengeResponse
  <1>5. ASSUME NEW c \in Conns, ReaderEnds(c)
        PROVE  ProofTypeOK'
    BY <1>5 DEF ReaderEnds, remove_connection, popVars
  <1>6. ASSUME GatewayRestart
        PROVE  ProofTypeOK'
    BY <1>6 DEF GatewayRestart, popVars
  <1> QED
    BY <1>1, <1>2, <1>3, <1>4, <1>5, <1>6
    DEF Next, Boards, AcceptLoop, Reader, Monitor, HttpRequests, Timers, vars,
        popVars, Provision, Accept, PeerClose, HeartbeatRead, OtherFrame,
        InvalidFrame, Disconnect, OnConnectKnown, OnConnectUnknown,
        OnConnectError, OnConnectionReady, HeartbeatPatch, EnrollExisting,
        EnrollConnected, EnrollNew, EnrollCreate, EnrollActivate, EnrollMark,
        EnrollError, OnDisconnect, MonitorList, MonitorMark, set_pairing_mode,
        delete_device, connect_device, DeployPicks, DeployBinds,
        HeartbeatExpires

(* The initial state has its types.                                        *)
LEMMA TypeInit == Init => TypeOK
  <1> SUFFICES ASSUME Init
               PROVE  TypeOK
    OBVIOUS
  <1> USE ConstantsAssumption DEF Init
  <1>1. CrdTypeOK
    BY DEF CrdTypeOK, InitialStatus, DeviceStatus, Phases, HeartbeatAges
  <1>2. WireTypeOK
    BY DEF WireTypeOK
  <1>3. TaskTypeOK
    BY DEF TaskTypeOK, ConnStates, ReaderStates, Tasks, NoTask, Phases
  <1>4. RegistryTypeOK
    BY DEF RegistryTypeOK
  <1>5. ProofTypeOK
    BY DEF ProofTypeOK
  <1> QED BY <1>1, <1>2, <1>3, <1>4, <1>5 DEF TypeOK

(* Every variable keeps its type in every behaviour of the gateway.        *)
THEOREM TypeCorrect == Spec => []TypeOK
  <1>1. TypeOK /\ [Next]_vars => TypeOK'
    BY CrdTypeStep, WireTypeStep, TaskTypeStep, RegistryTypeStep,
       ProofTypeStep
    DEF TypeOK
  <1> QED BY TypeInit, <1>1, PTL DEF Spec

-----------------------------------------------------------------------------
(* The inductive invariant *)

(* Every step keeps the accept loop and the readers in agreement.          *)
LEMMA StageStep ==
  ASSUME SessionInv, [Next]_vars
  PROVE  StageInv'
  <1> USE ConstantsAssumption DEF SessionInv, StageInv, TypeOK, TaskTypeOK,
                                  WireTypeOK, Ended
  <1>1. ASSUME UNCHANGED <<conn, reader, holder, tlsKey>>
        PROVE  StageInv'
    BY <1>1
  <1>2. ASSUME NEW c \in Conns, NEW h \in Keys, NEW k \in Keys \cup {None},
               Accept(c, h, k)
        PROVE  StageInv'
    BY <1>2 DEF Accept
  <1>3. ASSUME NEW c \in Conns,
               OnConnectKnown(c) \/ OnConnectUnknown(c) \/ OnConnectError(c)
        PROVE  StageInv'
    BY <1>3 DEF OnConnectKnown, OnConnectUnknown, OnConnectError, Authorized,
                Unauthorized
  <1>4. ASSUME NEW c \in Conns, OnConnectionReady(c)
        PROVE  StageInv'
    BY <1>4 DEF OnConnectionReady, wireVars
  <1>5. ASSUME NEW c \in Conns,
               HeartbeatRead(c) \/ \E sig : ChallengeResponse(c, sig)
        PROVE  StageInv'
    BY <1>5 DEF HeartbeatRead, ChallengeResponse, Frame
  <1>6. ASSUME NEW c \in Conns,
               \/ HeartbeatPatch(c) \/ EnrollExisting(c) \/ EnrollConnected(c)
               \/ EnrollNew(c) \/ (\E d \in Names : EnrollCreate(c, d))
               \/ EnrollActivate(c) \/ EnrollMark(c) \/ EnrollError(c)
               \/ ReaderEnds(c) \/ OnDisconnect(c)
        PROVE  StageInv'
    BY <1>6 DEF HeartbeatPatch, EnrollExisting, EnrollConnected, EnrollNew,
                EnrollCreate, EnrollActivate, EnrollMark, EnrollError,
                ReaderEnds, OnDisconnect, wireVars
  <1>7. ASSUME GatewayRestart
        PROVE  StageInv'
    BY <1>7 DEF GatewayRestart
  <1> QED
    BY <1>1, <1>2, <1>3, <1>4, <1>5, <1>6, <1>7
    DEF Next, Boards, AcceptLoop, Reader, Monitor, HttpRequests, Timers, vars,
        taskVars, wireVars, Provision, PeerClose, PublicKey, Frame,
        OtherFrame, InvalidFrame, Disconnect, MonitorList, MonitorMark,
        set_pairing_mode, delete_device, connect_device, DeployPicks,
        DeployBinds, ChallengeExpires, HeartbeatExpires

(* Nothing comes to refer to a connection before its reader runs.          *)
LEMMA FreshStep ==
  ASSUME SessionInv, [Next]_vars
  PROVE  FreshInv'
  <1> USE ConstantsAssumption DEF SessionInv, StageInv, FreshInv, TypeOK,
                                  TaskTypeOK, RegistryTypeOK, ProofTypeOK
  <1>1. ASSUME UNCHANGED <<reader, challenge, connMap, pending, sender,
                           deploy, bound, proved>>
        PROVE  FreshInv'
    BY <1>1
  <1>2. ASSUME NEW c \in Conns,
               OnConnectKnown(c) \/ OnConnectUnknown(c) \/ OnConnectError(c)
        PROVE  FreshInv'
    BY <1>2 DEF OnConnectKnown, OnConnectUnknown, OnConnectError, Authorized,
                Unauthorized, regVars, popVars
  <1>3. ASSUME NEW c \in Conns, OnConnectionReady(c)
        PROVE  FreshInv'
    BY <1>3 DEF OnConnectionReady, set_device_tls_sender, popVars
  <1>4. ASSUME NEW c \in Conns,
               HeartbeatRead(c) \/ \E k \in Keys : PublicKey(c, k)
        PROVE  FreshInv'
    BY <1>4 DEF HeartbeatRead, PublicKey, issue_challenge, Frame, regVars, popVars
  <1>5. ASSUME NEW c \in Conns, NEW sig, ChallengeResponse(c, sig)
        PROVE  FreshInv'
    BY <1>5 DEF ChallengeResponse, Frame, take_challenge, regVars
  <1>6. ASSUME NEW c \in Conns, EnrollExisting(c) \/ EnrollActivate(c)
        PROVE  FreshInv'
    BY <1>6 DEF EnrollExisting, EnrollActivate, activate_device_sender, popVars
  <1>7. ASSUME NEW c \in Conns,
               \/ HeartbeatPatch(c) \/ EnrollConnected(c) \/ EnrollNew(c)
               \/ (\E d \in Names : EnrollCreate(c, d))
               \/ EnrollMark(c) \/ EnrollError(c) \/ OnDisconnect(c)
        PROVE  FreshInv'
    BY <1>7 DEF HeartbeatPatch, EnrollConnected, EnrollNew, EnrollCreate,
                EnrollMark, EnrollError, OnDisconnect, regVars, popVars
  <1>8. ASSUME NEW c \in Conns, ReaderEnds(c)
        PROVE  FreshInv'
    BY <1>8 DEF ReaderEnds, remove_connection, popVars
  <1>9. ASSUME NEW d \in Names, NEW c \in Conns, DeployPicks(d, c)
        PROVE  FreshInv'
    BY <1>9 DEF DeployPicks, taskVars, regVars, popVars
  <1>10. ASSUME NEW d \in Names, DeployBinds(d)
         PROVE  FreshInv'
    <2> DEFINE c == deploy[d]
    <2>1. c \in Conns /\ reader[c] # "none"
      BY <1>10, ZenonT(60) DEF DeployBinds
    <2>2. /\ \A e \in Names : /\ sender'[e] \in {c, sender[e]}
                              /\ deploy'[e] \in {None, deploy[e]}
          /\ \A x \in Conns : x # c => connMap'[x] = connMap[x]
          /\ pending' \subseteq pending
          /\ bound' \subseteq bound \cup {<<c, d>>}
      BY <1>10, <2>1 DEF DeployBinds, activate_device_sender
    <2>3. UNCHANGED <<reader, challenge, proved>>
      BY <1>10 DEF DeployBinds, taskVars, popVars
    <2> QED BY <2>1, <2>2, <2>3
  <1>11. ASSUME NEW c \in Conns, ChallengeExpires(c)
         PROVE  FreshInv'
    BY <1>11 DEF ChallengeExpires, taskVars, regVars, popVars
  <1>12. ASSUME GatewayRestart
         PROVE  FreshInv'
    BY <1>12 DEF GatewayRestart, popVars
  <1> QED
    BY <1>1, <1>2, <1>3, <1>4, <1>5, <1>6, <1>7, <1>8, <1>9, <1>10, <1>11,
       <1>12
    DEF Next, Boards, AcceptLoop, Reader, Monitor, HttpRequests, Timers, vars,
        taskVars, regVars, popVars, Provision, Accept, PeerClose, OtherFrame,
        InvalidFrame, Disconnect, MonitorList, MonitorMark, set_pairing_mode,
        delete_device, connect_device, register_device, HeartbeatExpires

(* Every step keeps outstanding nonces unique and unanswered.              *)
LEMMA ChallengeStep ==
  ASSUME SessionInv, [Next]_vars
  PROVE  ChallengeInv' /\ NonceOnce'
  <1> USE ConstantsAssumption DEF SessionInv, ChallengeInv, NonceOnce, TypeOK,
                                  ProofTypeOK, WireTypeOK, Challenges, Nonces
  <1>1. ASSUME UNCHANGED <<challenge, popVars, holder, tlsKey>>
        PROVE  ChallengeInv' /\ NonceOnce'
    BY <1>1 DEF popVars
  <1>2. ASSUME NEW c \in Conns, NEW h, NEW k, Accept(c, h, k)
        PROVE  ChallengeInv' /\ NonceOnce'
    <2>1. challenge[c] = None
      BY <1>2 DEF Accept, StageInv, FreshInv
    <2>2. \A x \in Conns : x # c => /\ holder'[x] = holder[x]
                                    /\ tlsKey'[x] = tlsKey[x]
      BY <1>2 DEF Accept
    <2> QED BY <1>2, <2>1, <2>2 DEF Accept, popVars
  <1>3. ASSUME NEW c \in Conns, NEW k \in Keys, PublicKey(c, k)
        PROVE  ChallengeInv' /\ NonceOnce'
    <2>1. /\ issued' = issued + 1
          /\ issued + 1 \in Nonces
          /\ UNCHANGED <<accepts, signed, holder, tlsKey>>
      BY <1>3 DEF PublicKey, issue_challenge, Frame
    <2>2. \A x \in Conns : offered'[x] = offered[x]
                           \/ (x = c /\ offered'[x] = issued + 1)
      BY <1>3 DEF PublicKey, issue_challenge
    <2>3. /\ challenge'[c].key = k
          /\ challenge'[c].nonce = issued + 1
          /\ \A x \in Conns : x # c => challenge'[x] = challenge[x]
      BY <1>3 DEF PublicKey, issue_challenge
    <2>4. tlsKey[c] \in {None, k} /\ (RequireClientAuth => tlsKey[c] = k)
      BY <1>3 DEF PublicKey, issue_challenge
    <2>5. /\ accepts[issued + 1] = 0
          /\ \A x \in Conns : offered[x] < issued + 1
          /\ \A x \in Conns : challenge[x] # None
                               => challenge[x].nonce < issued + 1
          /\ \A sig \in signed : sig[2] < issued + 1
      BY <2>1
    <2>6. ASSUME NEW x \in Conns, challenge'[x] # None, x # c
          PROVE  /\ challenge'[x] = challenge[x]
                 /\ \A y \in Conns :
                      /\ (challenge'[y] # None
                          /\ challenge'[y].nonce = challenge[x].nonce) => y = x
                      /\ offered'[y] = challenge[x].nonce => y = x
      BY <2>2, <2>3, <2>5, <2>6
    <2>7. /\ \A n \in Nonces : n > issued' => accepts'[n] = 0
          /\ \A x \in Conns : offered'[x] <= issued'
          /\ \A sig \in signed' : sig[2] <= issued'
          /\ \A n \in Nonces : accepts'[n] <= 1
      <3>1. \A n \in Nonces : /\ n > issued + 1 => n > issued
                              /\ accepts'[n] = accepts[n]
        BY <2>1
      <3>2. \A sig \in signed : sig[2] <= issued + 1
        BY <2>1
      <3>3. ASSUME NEW x \in Conns
            PROVE  offered'[x] <= issued + 1
        <4>1. /\ offered[x] \in Nat /\ issued \in Nat
              /\ offered[x] <= issued
          OBVIOUS
        <4>2. offered'[x] \in {offered[x], issued + 1}
          BY <2>2
        <4> HIDE DEF ChallengeInv
        <4> QED BY <4>1, <4>2
      <3> QED BY <2>1, <3>1, <3>2, <3>3
    <2>8. ASSUME NEW x \in Conns, challenge'[x] # None
          PROVE  /\ challenge'[x].nonce <= issued'
                 /\ accepts'[challenge'[x].nonce] = 0
                 /\ tlsKey'[x] \in {None, challenge'[x].key}
                 /\ RequireClientAuth => tlsKey'[x] = challenge'[x].key
                 /\ \A y \in Conns :
                      /\ (challenge'[y] # None
                          /\ challenge'[y].nonce = challenge'[x].nonce)
                            => y = x
                      /\ offered'[y] = challenge'[x].nonce => y = x
                 /\ \A sig \in signed' :
                      sig[2] = challenge'[x].nonce => sig[1] = holder'[x]
      <3>1. CASE x = c
        BY <2>1, <2>2, <2>3, <2>4, <2>5, <3>1
      <3>2. CASE x # c
        BY <2>1, <2>5, <2>6, <2>8, <3>2
      <3> QED BY <3>1, <3>2
    <2> QED BY <2>7, <2>8
  <1>4. ASSUME NEW c \in Conns, ChallengeExpires(c)
        PROVE  ChallengeInv' /\ NonceOnce'
    <2>1. \A x \in Conns :
            challenge'[x] # None =>
              /\ challenge[x] # None
              /\ challenge'[x].key = challenge[x].key
              /\ challenge'[x].nonce = challenge[x].nonce
      BY <1>4 DEF ChallengeExpires
    <2>2. UNCHANGED <<popVars, holder, tlsKey>>
      BY <1>4 DEF ChallengeExpires, wireVars
    <2> QED BY <2>1, <2>2 DEF popVars
  <1>5. ASSUME NEW c \in Conns, NEW sig \in Signatures(c),
               ChallengeResponse(c, sig)
        PROVE  ChallengeInv' /\ NonceOnce'
    <2>1. /\ challenge' = [challenge EXCEPT ![c] = None]
          /\ signed' = signed \cup {sig}
          /\ UNCHANGED <<issued, offered, holder, tlsKey>>
      BY <1>5 DEF ChallengeResponse, take_challenge, Frame
    <2>2. \/ accepts' = accepts
          \/ /\ challenge[c] # None
             /\ accepts' = [accepts EXCEPT ![challenge[c].nonce] = @ + 1]
      BY <1>5 DEF ChallengeResponse
    <2>3. sig[2] <= issued
      BY DEF Signatures
    <2>4. \A x \in Conns :
            (challenge[x] # None /\ sig[2] = challenge[x].nonce)
              => sig[1] = holder[x]
      BY DEF Signatures
    <2>5. \A n \in Nonces : accepts'[n] <= 1 /\ (n > issued => accepts'[n] = 0)
      <3>1. CASE accepts' = accepts
        BY <3>1
      <3>2. CASE /\ challenge[c] # None
                 /\ accepts' = [accepts EXCEPT ![challenge[c].nonce] = @ + 1]
        <4>1. /\ accepts[challenge[c].nonce] = 0
              /\ challenge[c].nonce \in Nonces
              /\ ~(challenge[c].nonce > issued)
          BY <3>2
        <4> QED BY <3>2, <4>1
      <3> QED BY <2>2, <3>1, <3>2
    <2>6. \A x \in Conns :
            (x # c /\ challenge[x] # None)
              => accepts'[challenge[x].nonce] = 0
      BY <2>2
    <2> QED BY <2>1, <2>3, <2>4, <2>5, <2>6
  <1>6. ASSUME NEW c \in Conns, ReaderEnds(c)
        PROVE  ChallengeInv' /\ NonceOnce'
    BY <1>6 DEF ReaderEnds, remove_connection, popVars, wireVars
  <1>7. ASSUME GatewayRestart
        PROVE  ChallengeInv' /\ NonceOnce'
    BY <1>7, SMTT(30) DEF GatewayRestart, popVars
  <1> QED
    BY <1>1, <1>2, <1>3, <1>4, <1>5, <1>6, <1>7
    DEF Next, Boards, AcceptLoop, Reader, Monitor, HttpRequests, Timers, vars,
        popVars, wireVars, Provision, PeerClose, HeartbeatRead, Frame,
        OtherFrame, InvalidFrame, Disconnect, OnConnectKnown,
        OnConnectUnknown, OnConnectError, OnConnectionReady, HeartbeatPatch,
        EnrollExisting, EnrollConnected, EnrollNew, EnrollCreate,
        EnrollActivate, EnrollMark, EnrollError, OnDisconnect, MonitorList,
        MonitorMark, set_pairing_mode, delete_device, connect_device,
        DeployPicks, DeployBinds, HeartbeatExpires

(* A proof that a step adds is one of the board at the far end.            *)
LEMMA ProvedStep ==
  ASSUME SessionInv, [Next]_vars
  PROVE  ProvedByHolder'
  <1> USE ConstantsAssumption DEF SessionInv, ProvedByHolder, TypeOK,
                                  ProofTypeOK, WireTypeOK
  <1>1. ASSUME UNCHANGED <<proved, holder, tlsKey>>
        PROVE  ProvedByHolder'
    BY <1>1
  <1>2. ASSUME NEW c \in Conns, NEW h, NEW k, Accept(c, h, k)
        PROVE  ProvedByHolder'
    BY <1>2 DEF Accept, StageInv, FreshInv, popVars
  <1>3. ASSUME NEW c \in Conns, NEW sig \in Signatures(c),
               ChallengeResponse(c, sig)
        PROVE  ProvedByHolder'
    <2>1. UNCHANGED <<holder, tlsKey>>
      BY <1>3 DEF ChallengeResponse, Frame
    <2>2. CASE proved' = proved
      BY <2>1, <2>2
    <2>3. CASE /\ challenge[c] # None
               /\ verify_pop_signature(challenge[c], sig)
               /\ proved' = proved \cup {<<c, challenge[c].key>>}
      <3>1. sig = <<challenge[c].key, challenge[c].nonce>>
        BY <2>3 DEF verify_pop_signature
      <3>2. challenge[c].key = holder[c]
        BY <2>3, <3>1 DEF Signatures, ChallengeInv
      <3> QED BY <2>1, <2>3, <3>2 DEF ChallengeInv
    <2> QED BY <1>3, <2>2, <2>3 DEF ChallengeResponse
  <1> QED
    BY <1>1, <1>2, <1>3
    DEF Next, Boards, AcceptLoop, Reader, Monitor, HttpRequests, Timers, vars,
        popVars, wireVars, Provision, PeerClose, HeartbeatRead, PublicKey,
        Frame, OtherFrame, InvalidFrame, Disconnect, ReaderEnds,
        OnConnectKnown, OnConnectUnknown, OnConnectError, OnConnectionReady,
        HeartbeatPatch, EnrollExisting, EnrollConnected, EnrollNew,
        EnrollCreate, EnrollActivate, EnrollMark, EnrollError, OnDisconnect,
        MonitorList, MonitorMark, set_pairing_mode, delete_device,
        connect_device, DeployPicks, DeployBinds, ChallengeExpires,
        HeartbeatExpires, GatewayRestart

(* What a step never takes back: the keys that a name has carried, a       *)
(* proof, a bind and who is at the far end of an accepted connection.      *)
LEMMA Monotone ==
  ASSUME SessionInv, [Next]_vars
  PROVE  /\ carried \subseteq carried'
         /\ proved \subseteq proved'
         /\ bound \subseteq bound'
         /\ \A c \in Conns : conn[c] # "new" => /\ holder'[c] = holder[c]
                                                /\ tlsKey'[c] = tlsKey[c]
  <1> USE DEF SessionInv, TypeOK, CrdTypeOK, WireTypeOK
  <1>1. carried \subseteq carried'
    BY ZenonT(60)
    DEF Next, Boards, AcceptLoop, Reader, Monitor, HttpRequests, Timers,
           vars, crdVars, keyVars, Provision, Accept, PeerClose, HeartbeatRead,
           PublicKey, ChallengeResponse, OtherFrame, InvalidFrame, Disconnect,
           ReaderEnds, OnConnectKnown, OnConnectUnknown, OnConnectError,
           OnConnectionReady, HeartbeatPatch, EnrollExisting, EnrollConnected,
           EnrollNew, EnrollCreate, EnrollActivate, EnrollMark, EnrollError,
           OnDisconnect, MonitorList, MonitorMark, set_pairing_mode,
           delete_device, connect_device, DeployPicks, DeployBinds,
           ChallengeExpires, HeartbeatExpires, GatewayRestart
  <1>2. proved \subseteq proved' /\ bound \subseteq bound'
    BY ZenonT(60)
    DEF Next, Boards, AcceptLoop, Reader, Monitor, HttpRequests, Timers,
           vars, popVars, Provision, Accept, PeerClose, HeartbeatRead,
           PublicKey, ChallengeResponse, OtherFrame, InvalidFrame, Disconnect,
           ReaderEnds, OnConnectKnown, OnConnectUnknown, OnConnectError,
           OnConnectionReady, HeartbeatPatch, EnrollExisting, EnrollConnected,
           EnrollNew, EnrollCreate, EnrollActivate, EnrollMark, EnrollError,
           OnDisconnect, MonitorList, MonitorMark, set_pairing_mode,
           delete_device, connect_device, DeployPicks, DeployBinds,
           ChallengeExpires, HeartbeatExpires, GatewayRestart
  <1>3. \A c \in Conns : conn[c] # "new" => /\ holder'[c] = holder[c]
                                            /\ tlsKey'[c] = tlsKey[c]
    <2>1. ASSUME NEW x \in Conns, NEW h, NEW k, Accept(x, h, k)
          PROVE  \A c \in Conns : conn[c] # "new" =>
                     holder'[c] = holder[c] /\ tlsKey'[c] = tlsKey[c]
      BY <2>1 DEF Accept
    <2>2. ASSUME UNCHANGED <<holder, tlsKey>>
          PROVE  \A c \in Conns : conn[c] # "new" =>
                     holder'[c] = holder[c] /\ tlsKey'[c] = tlsKey[c]
      BY <2>2
    <2> QED
      BY <2>1, <2>2, ZenonT(60)
      DEF Next, Boards, AcceptLoop, Reader, Monitor, HttpRequests, Timers,
          vars, wireVars, Provision, PeerClose, HeartbeatRead, Frame,
          PublicKey, ChallengeResponse, OtherFrame, InvalidFrame, Disconnect,
          ReaderEnds, OnConnectKnown, OnConnectUnknown, OnConnectError,
          OnConnectionReady, HeartbeatPatch, EnrollExisting, EnrollConnected,
          EnrollNew, EnrollCreate, EnrollActivate, EnrollMark, EnrollError,
          OnDisconnect, MonitorList, MonitorMark, set_pairing_mode,
          delete_device, connect_device, DeployPicks, DeployBinds,
          ChallengeExpires, HeartbeatExpires, GatewayRestart
  <1> QED BY <1>1, <1>2, <1>3

(* The board at the far end of a connection holds the key of the device    *)
(* that the connection resolves to, unless a deploy request bound it.      *)
LEMMA ResolvedIsTheBoard ==
  ASSUME SessionInv, NEW c \in Conns, resolve_device_id(c) # None
  PROVE  /\ resolve_device_id(c) \in Names
         /\ \/ <<resolve_device_id(c), holder[c]>> \in carried
            \/ <<c, resolve_device_id(c)>> \in bound
  <1> USE DEF SessionInv, TypeOK
  <1>1. CASE connMap[c] # None
    <2>1. resolve_device_id(c) = connMap[c] /\ connMap[c] \in Names
      BY <1>1 DEF resolve_device_id, RegistryTypeOK
    <2>2. Proved(c, connMap[c]) => <<connMap[c], holder[c]>> \in carried
      BY <2>1 DEF Proved, ProvedByHolder, CrdTypeOK
    <2> QED BY <1>1, <2>1, <2>2 DEF BoundOnceProved
  <1>2. CASE connMap[c] = None
    <2>1. /\ tlsKey[c] \in Keys
          /\ resolve_device_id(c) = keyMap[tlsKey[c]]
      BY <1>2 DEF resolve_device_id, WireTypeOK
    <2> QED BY <2>1, ConstantsAssumption
            DEF RegistryTypeOK, KeyMapAgrees, StageInv
  <1> QED BY <1>1, <1>2

(* Every step keeps the handlers working on what was proved.               *)
LEMMA TaskStep ==
  ASSUME SessionInv, [Next]_vars
  PROVE  TaskInv'
  <1> SUFFICES ASSUME NEW x \in Conns
               PROVE  TaskOK(x)'
    BY DEF TaskInv
  <1> USE ConstantsAssumption
  <1>0. TypeOK /\ TaskTypeOK /\ StageInv /\ TaskOK(x)
    BY DEF SessionInv, TypeOK, TaskInv
  <1>1. ASSUME UNCHANGED <<reader[x], task[x]>>
        PROVE  TaskOK(x)'
    <2>1. reader[x] \notin {"none"} \cup Ended => holder'[x] = holder[x]
      BY <1>0, Monotone DEF StageInv
    <2>2. reader[x] = "heartbeat" => holder[x] \in Keys
      BY <1>0 DEF StageInv, Ended
    <2> QED BY <1>0, <1>1, <2>1, <2>2, Monotone DEF TaskOK, Ended
  <1>2. ASSUME reader'[x] \in {"none", "read"} \cup Ended
        PROVE  TaskOK(x)'
    BY <1>2 DEF TaskOK, Ended
  <1>3. ASSUME NEW c \in Conns, HeartbeatRead(c)
        PROVE  TaskOK(x)'
    <2> DEFINE d == resolve_device_id(c)
    <2>1. /\ d \in Names
          /\ <<d, holder[c]>> \in carried \/ <<c, d>> \in bound
      BY <1>3, ResolvedIsTheBoard DEF HeartbeatRead
    <2>2. /\ reader'[c] = "heartbeat"
          /\ task'[c].dev = d
          /\ UNCHANGED <<carried, holder, bound>>
          /\ x # c => UNCHANGED <<reader[x], task[x]>>
      BY <1>0, <1>3 DEF HeartbeatRead, Frame, TaskTypeOK, NoTask, crdVars, keyVars
    <2> HIDE DEF d
    <2> QED BY <1>1, <2>1, <2>2 DEF TaskOK
  <1>4. ASSUME NEW c \in Conns, NEW sig, ChallengeResponse(c, sig)
        PROVE  TaskOK(x)'
    <2>1. CASE UNCHANGED <<reader, task>>
      BY <1>1, <2>1
    <2>2. CASE /\ challenge[c] # None
               /\ reader' = [reader EXCEPT ![c] = "enroll"]
               /\ task' = [task EXCEPT ![c] =
                             [NoTask EXCEPT !.key = challenge[c].key]]
               /\ proved' = proved \cup {<<c, challenge[c].key>>}
      <3>1. challenge[c].key \in Keys
        BY <1>0, <2>2 DEF TypeOK, ProofTypeOK, Challenges
      <3>2. /\ reader'[c] = "enroll"
            /\ task'[c].key = challenge[c].key
            /\ x # c => UNCHANGED <<reader[x], task[x]>>
        BY <1>0, <2>2 DEF TaskTypeOK, NoTask
      <3> QED BY <1>1, <2>2, <3>1, <3>2 DEF TaskOK
    <2> QED BY <1>4, <2>1, <2>2 DEF ChallengeResponse
  <1>5. ASSUME NEW c \in Conns, EnrollExisting(c)
        PROVE  TaskOK(x)'
    <2>1. PICK d \in Names : /\ <<d, task[c].key>> \in carried
                             /\ task' = [task EXCEPT ![c].dev = d]
      BY <1>5 DEF EnrollExisting, IsFirst, Found, Live, SessionInv, CarriedInv
    <2>2. task[c].key \in Keys /\ <<c, task[c].key>> \in proved
      BY <1>5 DEF EnrollExisting, SessionInv, TaskInv, TaskOK
    <2>3. /\ reader'[c] = "connect"
          /\ task'[c].key = task[c].key /\ task'[c].dev = d
          /\ UNCHANGED <<carried, proved>>
          /\ x # c => UNCHANGED <<reader[x], task[x]>>
      BY <1>0, <1>5, <2>1
      DEF EnrollExisting, TaskTypeOK, Tasks, crdVars, keyVars, popVars
    <2> QED BY <1>1, <2>1, <2>2, <2>3 DEF TaskOK
  <1>6. ASSUME NEW c \in Conns, EnrollNew(c) \/ EnrollActivate(c)
        PROVE  TaskOK(x)'
    <2>1. task[c].key \in Keys /\ <<c, task[c].key>> \in proved
      BY <1>6 DEF EnrollNew, EnrollActivate, SessionInv, TaskInv, TaskOK
    <2>2. /\ \/ reader'[c] = "read"
             \/ /\ reader'[c] \in {"create", "enrolled"}
                /\ task'[c] = task[c]
          /\ UNCHANGED proved
          /\ x # c => UNCHANGED <<reader[x], task[x]>>
      BY <1>0, <1>6 DEF EnrollNew, EnrollActivate, TaskTypeOK, popVars
    <2> QED BY <1>1, <2>1, <2>2 DEF TaskOK
  <1>7. ASSUME NEW c \in Conns, NEW d \in Names, EnrollCreate(c, d)
        PROVE  TaskOK(x)'
    <2>1. task[c].key \in Keys /\ <<c, task[c].key>> \in proved
      BY <1>7 DEF EnrollCreate, SessionInv, TaskInv, TaskOK
    <2>2. /\ reader'[c] = "activate"
          /\ task'[c].key = task[c].key /\ task'[c].dev = d
          /\ <<d, task[c].key>> \in carried'
          /\ UNCHANGED proved
          /\ x # c => UNCHANGED <<reader[x], task[x]>>
      BY <1>0, <1>7
      DEF EnrollCreate, TypeOK, CrdTypeOK, TaskTypeOK, Tasks, popVars
    <2> QED BY <1>1, <2>1, <2>2 DEF TaskOK
  <1>8. ASSUME NEW c \in Conns,
               \/ Authorized(c) \/ Unauthorized(c) \/ HeartbeatPatch(c)
               \/ EnrollConnected(c) \/ EnrollMark(c) \/ EnrollError(c)
               \/ ReaderEnds(c) \/ OnDisconnect(c)
        PROVE  TaskOK(x)'
    <2>1. \/ reader'[x] \in {"none", "read"} \cup Ended
          \/ UNCHANGED <<reader[x], task[x]>>
      BY <1>0, <1>8
      DEF Authorized, Unauthorized, HeartbeatPatch, EnrollConnected,
          EnrollMark, EnrollError, ReaderEnds, OnDisconnect, TaskTypeOK, Ended
    <2> QED BY <1>1, <1>2, <2>1
  <1>9. ASSUME GatewayRestart
        PROVE  TaskOK(x)'
    BY <1>2, <1>9 DEF GatewayRestart, Ended
  <1> QED
    BY <1>1, <1>3, <1>4, <1>5, <1>6, <1>7, <1>8, <1>9
    DEF Next, Boards, AcceptLoop, Reader, Monitor, HttpRequests, Timers, vars,
        taskVars, Provision, Accept, PeerClose, PublicKey, OtherFrame,
        InvalidFrame, Disconnect, OnConnectKnown, OnConnectUnknown,
        OnConnectError, OnConnectionReady, MonitorList, MonitorMark,
        set_pairing_mode, delete_device, connect_device, DeployPicks,
        DeployBinds, ChallengeExpires, HeartbeatExpires

(* No device is called None.                                               *)
LEMMA NoneIsNoName == None \notin Names
  <1>1. \A n \in Names : n \in Nat
    BY ConstantsAssumption, SMTT(30) DEF Names
  <1> QED BY <1>1, ConstantsAssumption

(* Every step keeps the key of a resource among those its name carried.    *)
LEMMA CarriedStep ==
  ASSUME SessionInv, [Next]_vars
  PROVE  CarriedInv'
  <1> USE DEF SessionInv, TypeOK, CrdTypeOK, CarriedInv
  <1>1. ASSUME UNCHANGED <<devKey, carried>>
        PROVE  CarriedInv'
    BY <1>1
  <1>2. ASSUME NEW d \in Names, NEW k \in Keys, Provision(d, k)
        PROVE  CarriedInv'
    BY <1>2 DEF Provision
  <1>3. ASSUME NEW c \in Conns, NEW d \in Names, EnrollCreate(c, d)
        PROVE  CarriedInv'
    BY <1>3 DEF EnrollCreate
  <1> QED
    BY <1>1, <1>2, <1>3
    DEF Next, Boards, AcceptLoop, Reader, Monitor, HttpRequests, Timers, vars,
        crdVars, keyVars, Accept, PeerClose, HeartbeatRead, PublicKey,
        ChallengeResponse, OtherFrame, InvalidFrame, Disconnect, ReaderEnds,
        OnConnectKnown, OnConnectUnknown, OnConnectError, OnConnectionReady,
        HeartbeatPatch, EnrollExisting, EnrollConnected, EnrollNew,
        EnrollActivate, EnrollMark, EnrollError, OnDisconnect, MonitorList,
        MonitorMark, set_pairing_mode, delete_device, connect_device,
        DeployPicks, DeployBinds, ChallengeExpires, HeartbeatExpires,
        GatewayRestart

(* Every step keeps the key map in agreement with the resources.           *)
LEMMA KeyMapStep ==
  ASSUME SessionInv, [Next]_vars
  PROVE  KeyMapAgrees'
  <1> USE ConstantsAssumption DEF SessionInv, TypeOK, RegistryTypeOK,
                                  CrdTypeOK
  <1> SUFFICES ASSUME NEW k \in Keys
               PROVE  keyMap'[k] # None => <<keyMap'[k], k>> \in carried'
    BY DEF KeyMapAgrees
  <1>1. SUFFICES \/ keyMap'[k] \in {None, keyMap[k]}
                 \/ keyMap'[k] \in Names /\ <<keyMap'[k], k>> \in carried
    BY Monotone DEF KeyMapAgrees
  <1>2. ASSUME NEW c \in Conns,
               OnConnectKnown(c) \/ EnrollExisting(c)
        PROVE  \/ keyMap'[k] = keyMap[k]
               \/ keyMap'[k] \in Names /\ <<keyMap'[k], k>> \in carried
    <2>1. PICK d \in Names : /\ keyMap' = [keyMap EXCEPT ![devKey[d]] = d]
                             /\ <<d, devKey[d]>> \in carried
      BY <1>2 DEF OnConnectKnown, EnrollExisting, IsFirst, Found, Live,
                  register_device, activate_device_sender, CarriedInv
    <2> QED BY <2>1
  <1>3. ASSUME NEW c \in Conns, EnrollActivate(c)
        PROVE  \/ keyMap'[k] = keyMap[k]
               \/ keyMap'[k] \in Names /\ <<keyMap'[k], k>> \in carried
    <2>1. PICK d \in Names : /\ keyMap' = [keyMap EXCEPT ![task[c].key] = d]
                             /\ <<d, task[c].key>> \in carried
      BY <1>3 DEF EnrollActivate, activate_device_sender, TaskInv, TaskOK
    <2> QED BY <2>1
  <1>4. ASSUME NEW d \in Names, connect_device(d) \/ DeployBinds(d)
        PROVE  \/ keyMap'[k] = keyMap[k]
               \/ keyMap'[k] \in Names /\ <<keyMap'[k], k>> \in carried
    <2>1. \/ keyMap' = keyMap
          \/ /\ keyMap' = [keyMap EXCEPT ![devKey[d]] = d]
             /\ <<d, devKey[d]>> \in carried
      BY <1>4 DEF connect_device, DeployBinds, register_device,
                  activate_device_sender, Live, CarriedInv
    <2> QED BY <2>1
  <1>5. ASSUME GatewayRestart
        PROVE  keyMap'[k] = None
    BY <1>5 DEF GatewayRestart
  <1> QED
    BY <1>2, <1>3, <1>4, <1>5, ZenonT(60)
    DEF Next, Boards, AcceptLoop, Reader, Monitor, HttpRequests, Timers, vars,
        regVars, Provision, Accept, PeerClose, HeartbeatRead, PublicKey,
        ChallengeResponse, OtherFrame, InvalidFrame, Disconnect, ReaderEnds,
        remove_connection, OnConnectUnknown, OnConnectError,
        OnConnectionReady, HeartbeatPatch, EnrollConnected, EnrollNew,
        EnrollCreate, EnrollMark, EnrollError, OnDisconnect, MonitorList,
        MonitorMark, set_pairing_mode, delete_device, DeployPicks,
        ChallengeExpires, HeartbeatExpires

(* Every step keeps mapped connections proved or bound.                    *)
LEMMA BoundStep ==
  ASSUME SessionInv, [Next]_vars
  PROVE  BoundOnceProved'
  <1> USE ConstantsAssumption DEF SessionInv, TypeOK, RegistryTypeOK,
                                  CrdTypeOK
  <1> SUFFICES ASSUME NEW x \in Conns, connMap'[x] # None
               PROVE  Proved(x, connMap[x])' \/ <<x, connMap'[x]>> \in bound'
    BY DEF BoundOnceProved
  <1>1. connMap'[x] \in Names
    BY RegistryTypeStep
  <1>2. SUFFICES \/ connMap'[x] = connMap[x]
                 \/ Proved(x, connMap'[x])
                 \/ <<x, connMap'[x]>> \in bound'
    BY <1>1, Monotone DEF BoundOnceProved, Proved
  <1>3. ASSUME NEW c \in Conns, EnrollExisting(c) \/ EnrollActivate(c)
        PROVE  connMap'[x] = connMap[x] \/ Proved(x, connMap'[x])
    <2>1. task[c].key \in Keys /\ <<c, task[c].key>> \in proved
      BY <1>3 DEF EnrollExisting, EnrollActivate, TaskInv, TaskOK
    <2>2. PICK d \in Names : /\ <<d, task[c].key>> \in carried
                             /\ connMap' = [connMap EXCEPT ![c] = d]
      BY <1>3 DEF EnrollExisting, EnrollActivate, activate_device_sender,
                  IsFirst, Found, Live, TaskInv, TaskOK, CarriedInv
    <2> QED BY <2>1, <2>2 DEF Proved
  <1>4. ASSUME NEW c \in Conns, ReaderEnds(c)
        PROVE  connMap'[x] = connMap[x]
    BY <1>4 DEF ReaderEnds, remove_connection
  <1>5. ASSUME NEW d \in Names, DeployBinds(d)
        PROVE  connMap'[x] = connMap[x] \/ <<x, connMap'[x]>> \in bound'
    BY <1>5 DEF DeployBinds, activate_device_sender
  <1>6. ~GatewayRestart
    BY DEF GatewayRestart
  <1> QED
    BY <1>3, <1>4, <1>5, <1>6, ZenonT(60)
    DEF Next, Boards, AcceptLoop, Reader, Monitor, HttpRequests, Timers, vars,
        regVars, Provision, Accept, PeerClose, HeartbeatRead, PublicKey,
        ChallengeResponse, OtherFrame, InvalidFrame, Disconnect,
        OnConnectKnown, OnConnectUnknown, OnConnectError, OnConnectionReady,
        HeartbeatPatch, EnrollConnected, EnrollNew, EnrollCreate, EnrollMark,
        EnrollError, OnDisconnect, MonitorList, MonitorMark, set_pairing_mode,
        delete_device, connect_device, DeployPicks, ChallengeExpires,
        HeartbeatExpires

(* Every step keeps a device's sender with the device's board.             *)
LEMMA SenderStep ==
  ASSUME SessionInv, [Next]_vars
  PROVE  SenderIsTheBoard'
  <1> USE ConstantsAssumption DEF SessionInv, TypeOK, RegistryTypeOK,
                                  CrdTypeOK, WireTypeOK
  <1> SUFFICES ASSUME NEW d \in Names, sender'[d] # None
               PROVE  \/ <<d, holder'[sender'[d]]>> \in carried'
                      \/ <<sender'[d], d>> \in bound'
    BY DEF SenderIsTheBoard
  <1>1. sender'[d] \in Conns
    BY RegistryTypeStep
  <1>2. ASSUME NEW c \in Conns, reader[c] # "none",
               <<d, holder[c]>> \in carried
        PROVE  <<d, holder'[c]>> \in carried'
    BY <1>2, Monotone DEF StageInv
  <1>3. SUFFICES \/ sender'[d] = sender[d]
                 \/ /\ reader[sender'[d]] # "none"
                    /\ <<d, holder[sender'[d]]>> \in carried
                 \/ <<sender'[d], d>> \in bound'
    BY <1>1, <1>2, Monotone DEF SenderIsTheBoard, FreshInv
  <1>4. ASSUME NEW c \in Conns, OnConnectionReady(c), sender'[d] # sender[d]
        PROVE  /\ sender'[d] = c
               /\ reader[c] # "none"
               /\ <<d, holder[c]>> \in carried
    <2>1. /\ tlsKey[c] \in Keys
          /\ keyMap[tlsKey[c]] = d
          /\ sender'[d] = c
      BY <1>4 DEF OnConnectionReady, set_device_tls_sender
    <2>2. reader[c] # "none"
      BY <1>4 DEF OnConnectionReady, StageInv
    <2>3. <<d, tlsKey[c]>> \in carried
      BY <2>1, NoneIsNoName DEF KeyMapAgrees
    <2>4. holder[c] = tlsKey[c]
      BY <2>1 DEF StageInv
    <2> QED BY <2>1, <2>2, <2>3, <2>4
  <1>5. ASSUME NEW c \in Conns, EnrollExisting(c) \/ EnrollActivate(c),
               sender'[d] # sender[d]
        PROVE  /\ sender'[d] = c
               /\ reader[c] # "none"
               /\ <<d, holder[c]>> \in carried
    <2>1. task[c].key \in Keys /\ <<c, task[c].key>> \in proved
      BY <1>5 DEF EnrollExisting, EnrollActivate, TaskInv, TaskOK
    <2>2. <<d, task[c].key>> \in carried /\ sender'[d] = c
      BY <1>5, ZenonT(60)
      DEF EnrollExisting, EnrollActivate, activate_device_sender,
          IsFirst, Found, Live, TaskInv, TaskOK, CarriedInv
    <2>3. reader[c] # "none"
      BY <1>5 DEF EnrollExisting, EnrollActivate
    <2> QED BY <2>1, <2>2, <2>3 DEF ProvedByHolder
  <1>6. ASSUME NEW c \in Conns, ReaderEnds(c)
        PROVE  sender'[d] = sender[d]
    BY <1>6 DEF ReaderEnds, remove_connection
  <1>7. ASSUME NEW e \in Names, DeployBinds(e)
        PROVE  sender'[d] = sender[d] \/ <<sender'[d], d>> \in bound'
    BY <1>7 DEF DeployBinds, activate_device_sender
  <1>8. ~GatewayRestart
    BY DEF GatewayRestart
  <1> QED
    BY <1>4, <1>5, <1>6, <1>7, <1>8, ZenonT(60)
    DEF Next, Boards, AcceptLoop, Reader, Monitor, HttpRequests, Timers, vars,
        regVars, Provision, Accept, PeerClose, HeartbeatRead, PublicKey,
        ChallengeResponse, OtherFrame, InvalidFrame, Disconnect,
        OnConnectKnown, OnConnectUnknown, OnConnectError, HeartbeatPatch,
        EnrollConnected, EnrollNew, EnrollCreate, EnrollMark, EnrollError,
        OnDisconnect, MonitorList, MonitorMark, set_pairing_mode,
        delete_device, connect_device, DeployPicks, ChallengeExpires,
        HeartbeatExpires

(* Every step keeps closed connections unmapped.                           *)
LEMMA ClosedStep ==
  ASSUME SessionInv, [Next]_vars
  PROVE  ClosedIsUnmapped'
  <1> USE ConstantsAssumption DEF SessionInv, TypeOK, TaskTypeOK,
                                  RegistryTypeOK, ProofTypeOK, Ended
  <1> SUFFICES ASSUME NEW x \in Conns, reader'[x] \in Ended
               PROVE  /\ challenge'[x] = None
                      /\ connMap'[x] # None => <<x, connMap'[x]>> \in bound'
    BY DEF ClosedIsUnmapped
  <1>1. CASE UNCHANGED <<reader[x], challenge[x], connMap[x]>>
    BY <1>1, Monotone DEF ClosedIsUnmapped
  <1>2. ASSUME NEW c \in Conns, ReaderEnds(c)
        PROVE  \/ x = c /\ challenge'[x] = None /\ connMap'[x] = None
               \/ UNCHANGED <<reader[x], challenge[x], connMap[x]>>
    BY <1>2 DEF ReaderEnds, remove_connection
  <1>3. ASSUME NEW c \in Conns, OnDisconnect(c)
        PROVE  /\ reader[x] \in Ended
               /\ UNCHANGED <<challenge[x], connMap[x]>>
    BY <1>3 DEF OnDisconnect, regVars
  <1>4. ASSUME NEW c \in Conns,
               \/ Authorized(c) /\ UNCHANGED <<challenge, connMap>>
               \/ HeartbeatRead(c) \/ (\E k \in Keys : PublicKey(c, k))
               \/ (\E sig : ChallengeResponse(c, sig))
               \/ HeartbeatPatch(c) \/ EnrollExisting(c) \/ EnrollConnected(c)
               \/ EnrollNew(c) \/ (\E d \in Names : EnrollCreate(c, d))
               \/ EnrollActivate(c) \/ EnrollMark(c) \/ EnrollError(c)
        PROVE  UNCHANGED <<reader[x], challenge[x], connMap[x]>>
    BY <1>4 DEF Authorized, HeartbeatRead, PublicKey, issue_challenge, ChallengeResponse,
                take_challenge, Frame, HeartbeatPatch, EnrollExisting,
                EnrollConnected, EnrollNew, EnrollCreate, EnrollActivate,
                EnrollMark, EnrollError, activate_device_sender, regVars
  <1>5. ASSUME NEW d \in Names, DeployBinds(d)
        PROVE  /\ UNCHANGED <<reader[x], challenge[x]>>
               /\ connMap'[x] = connMap[x] \/ <<x, connMap'[x]>> \in bound'
    BY <1>5 DEF DeployBinds, activate_device_sender, taskVars
  <1>6. ASSUME GatewayRestart
        PROVE  challenge'[x] = None /\ connMap'[x] = None
    BY <1>6 DEF GatewayRestart
  <1>7. ASSUME NEW c \in Conns, ChallengeExpires(c)
        PROVE  UNCHANGED <<reader[x], challenge[x], connMap[x]>>
    BY <1>7 DEF ChallengeExpires, ClosedIsUnmapped, taskVars, regVars
  <1> QED
    BY <1>1, <1>2, <1>3, <1>4, <1>5, <1>6, <1>7, Monotone
    DEF Next, Boards, AcceptLoop, Reader, Monitor, HttpRequests, Timers, vars,
        regVars, taskVars, Provision, Accept, PeerClose, OtherFrame,
        InvalidFrame, Disconnect, OnConnectKnown, OnConnectUnknown,
        OnConnectError, Unauthorized, OnConnectionReady, MonitorList,
        MonitorMark, set_pairing_mode, delete_device, connect_device,
        register_device, DeployPicks, HeartbeatExpires, ClosedIsUnmapped

(* The inductive invariant holds at the start.                             *)
LEMMA SessionInit == Init => SessionInv
  <1> SUFFICES ASSUME Init
               PROVE  SessionInv
    OBVIOUS
  <1>1. TypeOK
    BY TypeInit
  <1>2. StageInv /\ FreshInv
    BY ConstantsAssumption DEF Init, StageInv, FreshInv, Ended
  <1>3. ChallengeInv /\ NonceOnce
    BY ConstantsAssumption DEF Init, ChallengeInv, NonceOnce, Nonces
  <1>4. TaskInv /\ ProvedByHolder
    BY DEF Init, TaskInv, TaskOK, ProvedByHolder
  <1>5. BoundOnceProved /\ SenderIsTheBoard /\ KeyMapAgrees
    BY DEF Init, BoundOnceProved, SenderIsTheBoard, KeyMapAgrees
  <1>6. ClosedIsUnmapped /\ CarriedInv
    BY DEF Init, ClosedIsUnmapped, CarriedInv
  <1> QED BY <1>1, <1>2, <1>3, <1>4, <1>5, <1>6 DEF SessionInv

(* The inductive invariant of the sessions holds in every behaviour.       *)
THEOREM SessionInvariant == Spec => []SessionInv
  <1>1. SessionInv /\ [Next]_vars => SessionInv'
    <2> SUFFICES ASSUME SessionInv, [Next]_vars
                 PROVE  SessionInv'
      OBVIOUS
    <2>1. TypeOK'
      BY CrdTypeStep, WireTypeStep, TaskTypeStep, RegistryTypeStep,
         ProofTypeStep
      DEF SessionInv, TypeOK
    <2> QED
      BY <2>1, StageStep, FreshStep, ChallengeStep, ProvedStep, TaskStep,
         CarriedStep, KeyMapStep, BoundStep, SenderStep, ClosedStep
      DEF SessionInv
  <1> QED BY SessionInit, <1>1, PTL DEF Spec

(* A nonce is accepted at most once, however connections close, expire,    *)
(* repeat and replay (take_challenge).                                     *)
THEOREM NonceSingleUse == Spec => []NonceOnce
  <1>1. SessionInv => NonceOnce
    BY DEF SessionInv
  <1> QED BY SessionInvariant, <1>1, PTL

(* A verified challenge-response shows that the board at the far end of    *)
(* that very connection holds the announced key (verify_pop_signature).    *)
THEOREM ProofOfPossession == Spec => []ProvedByHolder
  <1>1. SessionInv => ProvedByHolder
    BY DEF SessionInv
  <1> QED BY SessionInvariant, <1>1, PTL

(* A connection is mapped to a device only once a key that the device's    *)
(* name carried was proved on it, or by a deploy request                   *)
(* (complete_enrollment).                                                  *)
THEOREM BindingAfterProof == Spec => []BoundOnceProved
  <1>1. SessionInv => BoundOnceProved
    BY DEF SessionInv
  <1> QED BY SessionInvariant, <1>1, PTL

(* The sender of a device writes to a board that holds a key which a       *)
(* resource of this name carried, unless a deploy request bound it, also   *)
(* when the resource was deleted and created again (set_device_tls_sender, *)
(* activate_device_sender, create_device, delete_device).                  *)
THEOREM CommandsReachTheBoard == Spec => []SenderIsTheBoard
  <1>1. SessionInv => SenderIsTheBoard
    BY DEF SessionInv
  <1> QED BY SessionInvariant, <1>1, PTL

(* An entry of public_key_to_device names a Device that carries that key   *)
(* or carried it before it was deleted and created again (register_device, *)
(* activate_device_sender, delete_device).                                 *)
THEOREM KeyMapIsRight == Spec => []KeyMapAgrees
  <1>1. SessionInv => KeyMapAgrees
    BY DEF SessionInv
  <1> QED BY SessionInvariant, <1>1, PTL

(* What a closed connection leaves behind does not resolve to a device     *)
(* (remove_connection).                                                    *)
THEOREM ClosedConnections == Spec => []ClosedIsUnmapped
  <1>1. SessionInv => ClosedIsUnmapped
    BY DEF SessionInv
  <1> QED BY SessionInvariant, <1>1, PTL

-----------------------------------------------------------------------------
(* An action property *)

(* The connections that can make a device Connected.                       *)
Attests(c, d) ==
  /\ conn[c] \in {"handshaken", "spawned", "ready"}
  /\ reader[c] \notin {"closing", "closed"}
  /\ <<d, holder[c]>> \in carried \/ <<c, d>> \in bound

(* A patch changes the phase of the device it names, and of no other.      *)
LEMMA PatchPhase ==
  ASSUME TypeOK, NEW d \in Names, NEW e, NEW s,
         Patch(e, s) \/ PatchOrFail(e, s),
         status'[d].phase # status[d].phase
  PROVE  e = d /\ status'[d] = s
  BY DEF TypeOK, CrdTypeOK, Patch, PatchOrFail

(* A step that makes a device Connected acts for its own board.            *)
LEMMA ConnectedStep ==
  ASSUME SessionInv, [Next]_vars, NEW d \in Names,
         status[d].phase # "Connected", status'[d].phase = "Connected"
  PROVE  \E c \in Conns : Attests(c, d)
  <1> USE ConstantsAssumption
  <1>0. TypeOK /\ status[d] \in DeviceStatus
    BY DEF SessionInv, TypeOK, CrdTypeOK
  <1>1. ASSUME NEW c \in Conns, OnConnectKnown(c)
        PROVE  Attests(c, d)
    <2>1. PICK e \in Names : /\ <<e, tlsKey[c]>> \in carried
                             /\ tlsKey[c] # None
                             /\ Patch(e, mark_connected(status[e]))
      BY <1>1 DEF OnConnectKnown, IsFirst, Found, Live, SessionInv, CarriedInv
    <2>2. e = d
      BY <1>0, <2>1, PatchPhase
    <2> QED BY <1>1, <2>1, <2>2 DEF OnConnectKnown, SessionInv, StageInv, Attests
  <1>2. ASSUME NEW c \in Conns, HeartbeatPatch(c)
        PROVE  Attests(c, d)
    <2>1. task[c].dev = d
      BY <1>0, <1>2, PatchPhase DEF HeartbeatPatch
    <2> QED BY <1>2, <2>1 DEF HeartbeatPatch, SessionInv, TaskInv, TaskOK,
                              StageInv, Ended, Attests
  <1>3. ASSUME NEW c \in Conns, EnrollConnected(c)
        PROVE  Attests(c, d)
    <2>1. task[c].dev = d
      BY <1>0, <1>3, PatchPhase DEF EnrollConnected
    <2>2. task[c].key \in Keys /\ <<c, task[c].key>> \in proved
          /\ <<d, task[c].key>> \in carried
      BY <1>3, <2>1 DEF EnrollConnected, SessionInv, TaskInv, TaskOK
    <2>3. <<d, holder[c]>> \in carried
      BY <2>2 DEF SessionInv, ProvedByHolder
    <2> QED BY <1>3, <2>3 DEF EnrollConnected, SessionInv, StageInv, Ended,
                              Attests
  <1>4. ASSUME NEW c \in Conns, EnrollMark(c) \/ OnDisconnect(c)
        PROVE  FALSE
    <2>1. UNCHANGED status \/ \E e \in Names : Patch(e, mark_enrolled(status[e]))
            \/ Patch(e, mark_disconnected(status[e]))
      BY <1>4 DEF EnrollMark, OnDisconnect
    <2>2. mark_enrolled(status[d]).phase = "Enrolled"
          /\ mark_disconnected(status[d]).phase = "Disconnected"
      BY <1>0 DEF mark_enrolled, mark_disconnected, DeviceStatus
    <2> QED BY <1>0, <2>1, <2>2, PatchPhase
  <1>5. ASSUME NEW e \in Names, MonitorMark(e)
        PROVE  FALSE
    <2>1. mark_unreachable(status[d]).phase = "Unreachable"
      BY <1>0 DEF mark_unreachable, DeviceStatus
    <2> QED BY <1>0, <1>5, <2>1, PatchPhase DEF MonitorMark
  <1>6. ASSUME NEW e \in Names, HeartbeatExpires(e)
        PROVE  FALSE
    <2>1. [status[d] EXCEPT !.hb = "stale"].phase = status[d].phase
      BY <1>0 DEF DeviceStatus
    <2> QED BY <1>0, <1>6, <2>1, PatchPhase DEF HeartbeatExpires
  <1>7. ASSUME NEW e \in Names, NEW k, Provision(e, k)
        PROVE  FALSE
    BY <1>0, <1>7
    DEF Provision, InitialStatus, TypeOK, CrdTypeOK
  <1> QED
    BY <1>1, <1>2, <1>3, <1>4, <1>5, <1>6, <1>7
    DEF Next, Boards, AcceptLoop, Reader, Monitor, HttpRequests, Timers, vars,
        crdVars, keyVars, Accept, PeerClose, HeartbeatRead, PublicKey,
        ChallengeResponse, OtherFrame, InvalidFrame, Disconnect, ReaderEnds,
        OnConnectUnknown, OnConnectError, OnConnectionReady, EnrollExisting,
        EnrollNew, EnrollCreate, EnrollActivate, EnrollError, MonitorList,
        set_pairing_mode, delete_device, connect_device, DeployPicks,
        DeployBinds, ChallengeExpires, GatewayRestart

(* A device becomes Connected only on behalf of a connection whose board   *)
(* holds a key that the device's name carried, or that a deploy request    *)
(* bound (on_connect, the heartbeat handler and complete_enrollment).      *)
THEOREM ConnectedNeedsItsBoard == Spec => ConnectedByItsBoard
  <1>1. SessionInv /\ [Next]_vars =>
          [\A d \in Names :
             (status[d].phase # "Connected" /\ status'[d].phase = "Connected")
               => \E c \in Conns :
                    /\ conn[c] \in {"handshaken", "spawned", "ready"}
                    /\ reader[c] \notin {"closing", "closed"}
                    /\ <<d, holder[c]>> \in carried \/ <<c, d>> \in bound]_vars
    BY ConnectedStep DEF Attests
  <1> QED BY SessionInvariant, <1>1, PTL DEF Spec, ConnectedByItsBoard

=============================================================================

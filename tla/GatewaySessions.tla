--------------------------- MODULE GatewaySessions ---------------------------
(***************************************************************************)
(* Device sessions at the gateway: the accept loop and the per-connection  *)
(* tasks of wasmbed-tls-utils, the callbacks of wasmbed-gateway/main.rs,   *)
(* and the session registry of wasmbed-gateway/http_api.rs, with the       *)
(* Device resources they read and patch.                                   *)
(*                                                                         *)
(* Interleaving.  The accept loop takes one connection at a time through   *)
(* on_connect and on_connection_ready.  The reader task of a connection is *)
(* spawned BEFORE on_connection_ready runs and handles its frames one by   *)
(* one.  Reader tasks, the accept loop, the heartbeat monitor and the HTTP *)
(* handlers run concurrently; a step of this module is the part of one     *)
(* handler between two calls of the Kubernetes API whose order matters.    *)
(*                                                                         *)
(* A TLS sender is named by the connection it writes to.                   *)
(***************************************************************************)
EXTENDS Integers, FiniteSets, DevicePhases

CONSTANTS
  Conns,              \* TCP connections (their socket addresses)
  Keys,               \* key pairs of the boards
  MaxDevices,         \* bound: Device resources ever created
  MaxNonces,          \* bound: challenges ever issued
  None,               \* no key, no device, no connection
  RequireClientAuth,  \* WASMBED_GATEWAY_REQUIRE_CLIENT_AUTH
  PairingMode,        \* WASMBED_GATEWAY_PAIRING_MODE, the value at startup
  Inputs              \* what the environment does in this instance

(* The inputs of the environment: what the boards send, what operators and *)
(* controllers request over HTTP, and what may fail.                       *)
InputKinds ==
  { "provision", "delete", "pairing", "connect", "deploy",
    "anonymous", "certificate", "close", "late frame", "heartbeat", "enroll",
    "other", "invalid", "expiry", "api error", "restart" }

ApiMayFail == "api error" \in Inputs

(* Device names.  The API server lists resources in name order, so names   *)
(* are ordered.                                                            *)
Names == 1 .. MaxDevices

Nonces == 1 .. MaxNonces

ASSUME ConstantsAssumption ==
  /\ MaxDevices \in Nat
  /\ MaxNonces \in Nat
  /\ None \notin Conns \cup Keys \cup Nat
  /\ RequireClientAuth \in BOOLEAN
  /\ PairingMode \in BOOLEAN
  /\ Inputs \subseteq InputKinds

VARIABLES
  (* The Device resources in Kubernetes *)
  devKey,       \* spec.publicKey; None until the resource is created
  deleted,      \* names whose resource was deleted (and not created again)
  status,       \* status of each resource
  carried,      \* <<d, k>>: a resource named d has carried key k
  (* Each connection, as the two ends see it *)
  holder,       \* the key pair of the board at the far end
  tlsKey,       \* key of the client certificate; None when anonymous
  peer,         \* the board's end: "idle", "open", "draining", "gone"
  conn,         \* the accept loop's view of it
  reader,       \* what the reader task is doing
  task,         \* locals of the handler that the reader task is running
  (* HttpApiServer *)
  registered,   \* device_connections: devices with an entry
  sender,       \* device_connections: tls_sender (and tls_connected)
  keyMap,       \* public_key_to_device
  pending,      \* pending_senders
  connMap,      \* connection_to_device
  challenge,    \* pending_challenges
  pairing,      \* pairing_mode
  (* Other tasks *)
  deploy,       \* deploy requests: the pending connection picked to bind
  sweep,        \* heartbeat monitor: devices of its list still to mark
  (* Proof of possession, as an observer of all connections sees it *)
  issued,       \* challenges issued so far; nonce n is the n-th
  offered,      \* the last nonce that reached the board on a connection
  signed,       \* every signature ever produced: <<key, nonce>>
  accepts,      \* how often a signature over a nonce was accepted
  proved,       \* <<c, k>>: possession of k was verified on c
  bound         \* <<c, d>>: a deploy request bound c to d

keyVars  == <<devKey, deleted, carried>>
crdVars  == <<keyVars, status>>
wireVars == <<holder, tlsKey, peer>>
taskVars == <<conn, reader, task>>
regVars  == <<registered, sender, keyMap, pending, connMap>>
popVars  == <<issued, offered, signed, accepts, proved>>
vars == <<crdVars, wireVars, taskVars, regVars, challenge, pairing, deploy,
          sweep, popVars, bound>>

-----------------------------------------------------------------------------
(* Device resources *)

Live(d) == devKey[d] # None /\ d \notin deleted

(* Mutant: the lookup forgets to compare the key.                          *)
FoundAny(k) == {d \in Names : Live(d)}

(* Device::find: the first resource of the list with this public key.      *)
Found(k) == {d \in Names : Live(d) /\ devKey[d] = k}

IsFirst(d, k) == d \in Found(k) /\ \A e \in Found(k) : d <= e

Patch(d, s) == status' = [status EXCEPT ![d] = s]

(* status().patch fails when the API call fails or the resource is gone.   *)
PatchOrFail(d, s) ==
  \/ Live(d) /\ Patch(d, s)
  \/ (ApiMayFail \/ ~Live(d)) /\ UNCHANGED status

-----------------------------------------------------------------------------
(* The session registry *)

(* register_device: an entry that exists keeps its sender.                 *)
register_device(d, k) ==
  /\ registered' = registered \cup {d}
  /\ keyMap' = [keyMap EXCEPT ![k] = d]

(* set_device_tls_sender                                                   *)
set_device_tls_sender(k, c) ==
  LET d == keyMap[k]
  IN  sender' = IF d # None /\ d \in registered
                  THEN [sender EXCEPT ![d] = c]
                  ELSE sender

(* Mutant: any parked sender is taken, not the connection's own.           *)
activate_any_sender(c, d, k, reg) ==
  /\ pending' = pending \ {c}
  /\ connMap' = [connMap EXCEPT ![c] = d]
  /\ keyMap' = [keyMap EXCEPT ![k] = d]
  /\ \/ pending = {} /\ sender' = sender
     \/ \E x \in pending : sender' = [sender EXCEPT ![d] = x]

(* activate_device_sender, on the entries reg: the connection is mapped to *)
(* the device even when no sender is parked for it.                        *)
activate_device_sender(c, d, k, reg) ==
  /\ pending' = pending \ {c}
  /\ connMap' = [connMap EXCEPT ![c] = d]
  /\ keyMap' = [keyMap EXCEPT ![k] = d]
  /\ sender' = IF c \in pending /\ d \in reg
                 THEN [sender EXCEPT ![d] = c]
                 ELSE sender

(* Mutant: the outstanding challenge outlives its connection.              *)
remove_but_challenge(c) ==
  /\ pending' = pending \ {c}
  /\ connMap' = [connMap EXCEPT ![c] = None]
  /\ sender' = IF connMap[c] # None
                 THEN [sender EXCEPT ![connMap[c]] = None]
                 ELSE sender
  /\ UNCHANGED <<challenge, registered, keyMap>>

(* remove_connection: the sender of the device that the connection maps to *)
(* is cleared, whichever connection that sender writes to.                 *)
remove_connection(c) ==
  /\ pending' = pending \ {c}
  /\ challenge' = [challenge EXCEPT ![c] = None]
  /\ connMap' = [connMap EXCEPT ![c] = None]
  /\ sender' = IF connMap[c] # None
                 THEN [sender EXCEPT ![connMap[c]] = None]
                 ELSE sender
  /\ UNCHANGED <<registered, keyMap>>

resolve_device_id(c) ==
  IF connMap[c] # None THEN connMap[c]
  ELSE IF tlsKey[c] # None THEN keyMap[tlsKey[c]] ELSE None

-----------------------------------------------------------------------------
(* Initial state: the gateway has just started, with no resource yet.      *)

NoTask == [key |-> None, dev |-> None, phase |-> "Pending"]

Init ==
  /\ devKey = [d \in Names |-> None]
  /\ deleted = {}
  /\ status = [d \in Names |-> InitialStatus]
  /\ carried = {}
  /\ holder = [c \in Conns |-> None]
  /\ tlsKey = [c \in Conns |-> None]
  /\ peer = [c \in Conns |-> "idle"]
  /\ conn = [c \in Conns |-> "new"]
  /\ reader = [c \in Conns |-> "none"]
  /\ task = [c \in Conns |-> NoTask]
  /\ registered = {}
  /\ sender = [d \in Names |-> None]
  /\ keyMap = [k \in Keys |-> None]
  /\ pending = {}
  /\ connMap = [c \in Conns |-> None]
  /\ challenge = [c \in Conns |-> None]
  /\ pairing = PairingMode
  /\ deploy = [d \in Names |-> None]
  /\ sweep = {}
  /\ issued = 0
  /\ offered = [c \in Conns |-> 0]
  /\ signed = {}
  /\ accepts = [n \in Nonces |-> 0]
  /\ proved = {}
  /\ bound = {}

-----------------------------------------------------------------------------
(* The operator and the boards *)

(* HTTP create_device: a Device with the public key of a fresh key pair,   *)
(* under any name that no resource has now.  The name may be that of a     *)
(* deleted resource: the registry and the key map still know it.           *)
Provision(d, k) ==
  /\ "provision" \in Inputs
  /\ ~Live(d)
  /\ \A e \in Names : <<e, k>> \notin carried
  /\ devKey' = [devKey EXCEPT ![d] = k]
  /\ deleted' = deleted \ {d}
  /\ status' = [status EXCEPT ![d] = InitialStatus]
  /\ carried' = carried \cup {<<d, k>>}
  /\ UNCHANGED <<wireVars, taskVars, regVars, challenge, pairing, deploy,
                 sweep, popVars, bound>>

(* HTTP delete_device removes the resource and nothing else.               *)
delete_device(d) ==
  /\ "delete" \in Inputs
  /\ Live(d)
  /\ deleted' = deleted \cup {d}
  /\ UNCHANGED <<devKey, status, carried, wireVars, taskVars, regVars,
                 challenge, pairing, deploy, sweep, popVars, bound>>

(* HTTP set_pairing_mode                                                   *)
set_pairing_mode ==
  /\ "pairing" \in Inputs
  /\ pairing' = ~pairing
  /\ UNCHANGED <<crdVars, wireVars, taskVars, regVars, challenge, deploy,
                 sweep, popVars, bound>>

(* The board's end of a connection closes; the gateway has not noticed,    *)
(* and one frame may still be in its receive buffer ("draining").          *)
PeerClose(c, how) ==
  /\ "close" \in Inputs
  /\ how = "draining" => "late frame" \in Inputs
  /\ peer[c] = "open"
  /\ peer' = [peer EXCEPT ![c] = how]
  /\ UNCHANGED <<crdVars, holder, tlsKey, taskVars, regVars, challenge,
                 pairing, deploy, sweep, popVars, bound>>

(* The reader task receives a whole frame on connection c.                 *)
Frame(c) ==
  /\ reader[c] = "read"
  /\ peer[c] \in {"open", "draining"}
  /\ peer' = [peer EXCEPT ![c] = IF @ = "draining" THEN "gone" ELSE @]
  /\ UNCHANGED <<holder, tlsKey, conn>>

-----------------------------------------------------------------------------
(* The accept loop: GatewayServer::run and handle_tls_connection *)

AcceptLoopIdle == \A c \in Conns : conn[c] \notin {"handshaken", "spawned"}

(* A TLS handshake completes.  A board has one connection at a time, and a *)
(* certificate is only accepted with a proof of its key by the handshake.  *)
Accept(c, h, k) ==
  /\ AcceptLoopIdle
  /\ conn[c] = "new"
  /\ \A x \in Conns : holder[x] = h => peer[x] # "open"
  /\ \/ k = h /\ "certificate" \in Inputs
     \/ k = None /\ "anonymous" \in Inputs /\ ~RequireClientAuth
  /\ conn' = [conn EXCEPT ![c] = "handshaken"]
  /\ holder' = [holder EXCEPT ![c] = h]
  /\ tlsKey' = [tlsKey EXCEPT ![c] = k]
  /\ peer' = [peer EXCEPT ![c] = "open"]
  /\ UNCHANGED <<crdVars, reader, task, regVars, challenge, pairing, deploy,
                 sweep, popVars, bound>>

Authorized(c) ==
  /\ conn' = [conn EXCEPT ![c] = "spawned"]
  /\ reader' = [reader EXCEPT ![c] = "read"]
  /\ UNCHANGED <<task, peer>>

Unauthorized(c) ==
  /\ conn' = [conn EXCEPT ![c] = "over"]
  /\ peer' = [peer EXCEPT ![c] = "gone"]
  /\ UNCHANGED <<reader, task>>

(* on_connect, for a certificate whose key a Device carries: the device is *)
(* marked Connected whether or not the transition is valid (an invalid one *)
(* is logged) and gets an entry in the registry.                           *)
OnConnectKnown(c) ==
  /\ conn[c] = "handshaken"
  /\ \E d \in Names :
       /\ IsFirst(d, tlsKey[c])
       /\ Patch(d, mark_connected(status[d]))
       /\ register_device(d, tlsKey[c])
  /\ Authorized(c)
  /\ UNCHANGED <<keyVars, holder, tlsKey, sender, pending, connMap,
                 challenge, pairing, deploy, sweep, popVars, bound>>

(* on_connect, for a key that no Device carries, or for no key.            *)
OnConnectUnknown(c) ==
  /\ conn[c] = "handshaken"
  /\ Found(tlsKey[c]) = {}
  /\ LET admit == IF tlsKey[c] = None THEN ~RequireClientAuth ELSE pairing
     IN  IF admit THEN Authorized(c) ELSE Unauthorized(c)
  /\ UNCHANGED <<crdVars, holder, tlsKey, regVars, challenge, pairing,
                 deploy, sweep, popVars, bound>>

(* on_connect, when the lookup or the patch fails.                         *)
OnConnectError(c) ==
  /\ ApiMayFail
  /\ conn[c] = "handshaken"
  /\ Unauthorized(c)
  /\ UNCHANGED <<crdVars, holder, tlsKey, regVars, challenge, pairing,
                 deploy, sweep, popVars, bound>>

(* on_connection_ready: park the sender and, for a certificate, set it as  *)
(* the sender of the device that the key maps to.                          *)
OnConnectionReady(c) ==
  /\ conn[c] = "spawned"
  /\ conn' = [conn EXCEPT ![c] = "ready"]
  /\ pending' = pending \cup {c}
  /\ IF tlsKey[c] = None THEN UNCHANGED sender
                         ELSE set_device_tls_sender(tlsKey[c], c)
  /\ UNCHANGED <<crdVars, wireVars, reader, task, registered, keyMap,
                 connMap, challenge, pairing, deploy, sweep, popVars, bound>>

-----------------------------------------------------------------------------
(* The reader task: on_message *)

(* Heartbeat, up to the read of the Device.  A heartbeat of a connection   *)
(* that resolves to no device, or whose Device cannot be read, changes     *)
(* nothing.                                                                *)
HeartbeatRead(c) ==
  LET d == resolve_device_id(c)
  IN  /\ "heartbeat" \in Inputs
      /\ Frame(c)
      /\ d # None
      /\ Live(d)
      /\ reader' = [reader EXCEPT ![c] = "heartbeat"]
      /\ task' = [task EXCEPT ![c] = [NoTask EXCEPT !.dev = d,
                                                    !.phase = status[d].phase]]
      /\ UNCHANGED <<crdVars, regVars, challenge, pairing, deploy, sweep,
                     popVars, bound>>

(* Mutant: the heartbeat of an Unreachable device only refreshes it.       *)
HeartbeatNoRecovery(c) ==
  /\ reader[c] = "heartbeat"
  /\ PatchOrFail(task[c].dev, update_heartbeat(status[task[c].dev]))
  /\ reader' = [reader EXCEPT ![c] = "read"]
  /\ task' = [task EXCEPT ![c] = NoTask]
  /\ UNCHANGED <<keyVars, wireVars, conn, regVars, challenge,
                 pairing, deploy, sweep, popVars, bound>>

(* Heartbeat, the patch: an Unreachable device recovers to Connected, by   *)
(* the phase that was read.                                                *)
HeartbeatPatch(c) ==
  LET d == task[c].dev
      s == IF task[c].phase = "Unreachable" THEN mark_connected(status[d])
                                            ELSE status[d]
  IN  /\ reader[c] = "heartbeat"
      /\ PatchOrFail(d, update_heartbeat(s))
      /\ reader' = [reader EXCEPT ![c] = "read"]
      /\ task' = [task EXCEPT ![c] = NoTask]
      /\ UNCHANGED <<keyVars, wireVars, conn, regVars, challenge,
                     pairing, deploy, sweep, popVars, bound>>

(* Mutant: the announced key is trusted and enrolled at once.              *)
PublicKeyTrusted(c, k) ==
  /\ "enroll" \in Inputs
  /\ Frame(c)
  /\ tlsKey[c] \in {None, k}
  /\ reader' = [reader EXCEPT ![c] = "enroll"]
  /\ task' = [task EXCEPT ![c] = [NoTask EXCEPT !.key = k]]
  /\ UNCHANGED <<crdVars, regVars, challenge, pairing, deploy, sweep,
                 popVars, bound>>

issue_challenge(c, k) ==
  /\ issued < MaxNonces
  /\ issued' = issued + 1
  /\ challenge' = [challenge EXCEPT ![c] =
                     [key |-> k, nonce |-> issued + 1, expired |-> FALSE]]

(* PublicKey: the announced key must be the certificate's, when there is   *)
(* one; a challenge replaces the one outstanding.  The reply is dropped    *)
(* when the connection's queue is full.                                    *)
PublicKey(c, k) ==
  /\ "enroll" \in Inputs
  /\ Frame(c)
  /\ ~(RequireClientAuth /\ tlsKey[c] = None)
  /\ tlsKey[c] \in {None, k}
  /\ issue_challenge(c, k)
  /\ \E delivered \in BOOLEAN :
       offered' = IF delivered THEN [offered EXCEPT ![c] = issued + 1]
                               ELSE offered
  /\ UNCHANGED <<crdVars, reader, task, regVars, pairing, deploy, sweep,
                 signed, accepts, proved, bound>>

(* The frames that change nothing here: EnrollmentRequest and              *)
(* EnrollmentAcknowledgment (a reply each), DeviceInfo, a PublicKey that   *)
(* is rejected, a heartbeat that resolves to no device, a frame that does  *)
(* not decode.  The Application frames are in ApplicationRollout.          *)
OtherFrame(c) ==
  /\ "other" \in Inputs
  /\ Frame(c)
  /\ UNCHANGED <<crdVars, reader, task, regVars, challenge, pairing, deploy,
                 sweep, popVars, bound>>

(* CHALLENGE_TTL passes.                                                   *)
ChallengeExpires(c) ==
  /\ "expiry" \in Inputs
  /\ challenge[c] # None
  /\ ~challenge[c].expired
  /\ challenge' = [challenge EXCEPT ![c].expired = TRUE]
  /\ UNCHANGED <<crdVars, wireVars, taskVars, regVars, pairing, deploy,
                 sweep, popVars, bound>>

(* The signatures a board can put in a ChallengeResponse: one of its own   *)
(* over the nonce it was last offered, or one that it has seen.            *)
Signatures(c) == signed \cup {<<holder[c], offered[c]>>}

(* Mutant: the transcript leaves out the nonce.                            *)
verify_without_nonce(ch, sig) == sig[1] = ch.key

verify_pop_signature(ch, sig) == sig = <<ch.key, ch.nonce>>

(* Mutant: the challenge is read, not taken.                               *)
peek_challenge(c) == UNCHANGED challenge

take_challenge(c) == challenge' = [challenge EXCEPT ![c] = None]

(* ChallengeResponse: take_challenge consumes the challenge whatever comes *)
(* of it; only a signature that verifies goes on to complete_enrollment.   *)
ChallengeResponse(c, sig) ==
  LET ch == challenge[c]
      ok == /\ ch # None
            /\ ~ch.expired
            /\ verify_pop_signature(ch, sig)
  IN  /\ Frame(c)
      /\ take_challenge(c)
      /\ signed' = signed \cup {sig}
      /\ IF ok
           THEN /\ reader' = [reader EXCEPT ![c] = "enroll"]
                /\ task' = [task EXCEPT ![c] = [NoTask EXCEPT !.key = ch.key]]
                /\ accepts' = [accepts EXCEPT ![ch.nonce] = @ + 1]
                /\ proved' = proved \cup {<<c, ch.key>>}
           ELSE UNCHANGED <<reader, task, accepts, proved>>
      /\ UNCHANGED <<crdVars, regVars, pairing, deploy, sweep, issued,
                     offered, bound>>

(* complete_enrollment, a Device carries the key: register it and wire the *)
(* sender, without regard to pairing mode.                                 *)
EnrollExisting(c) ==
  LET k == task[c].key
  IN  /\ reader[c] = "enroll"
      /\ \E d \in Names :
           /\ IsFirst(d, k)
           /\ activate_device_sender(c, d, k, registered \cup {d})
           /\ registered' = registered \cup {d}
           /\ task' = [task EXCEPT ![c].dev = d]
      /\ reader' = [reader EXCEPT ![c] = "connect"]
      /\ UNCHANGED <<crdVars, wireVars, conn, challenge, pairing, deploy,
                     sweep, popVars, bound>>

(* complete_enrollment, its last patch for an existing Device.             *)
EnrollConnected(c) ==
  /\ reader[c] = "connect"
  /\ PatchOrFail(task[c].dev, mark_connected(status[task[c].dev]))
  /\ reader' = [reader EXCEPT ![c] = "read"]
  /\ task' = [task EXCEPT ![c] = NoTask]
  /\ UNCHANGED <<keyVars, wireVars, conn, regVars, challenge,
                 pairing, deploy, sweep, popVars, bound>>

(* complete_enrollment, no Device carries the key: pairing mode decides.   *)
EnrollNew(c) ==
  /\ reader[c] = "enroll"
  /\ Found(task[c].key) = {}
  /\ reader' = [reader EXCEPT ![c] = IF pairing THEN "create" ELSE "read"]
  /\ task' = IF pairing THEN task ELSE [task EXCEPT ![c] = NoTask]
  /\ UNCHANGED <<crdVars, wireVars, conn, regVars, challenge, pairing,
                 deploy, sweep, popVars, bound>>

(* complete_enrollment: create_device_crd under a fresh UUID name, so that *)
(* the creation never meets a resource that exists.                        *)
EnrollCreate(c, d) ==
  /\ reader[c] = "create"
  /\ devKey[d] = None
  /\ devKey' = [devKey EXCEPT ![d] = task[c].key]
  /\ carried' = carried \cup {<<d, task[c].key>>}
  /\ reader' = [reader EXCEPT ![c] = "activate"]
  /\ task' = [task EXCEPT ![c].dev = d]
  /\ UNCHANGED <<deleted, status, wireVars, conn, regVars, challenge,
                 pairing, deploy, sweep, popVars, bound>>

(* complete_enrollment: register the new device and wire the sender.       *)
EnrollActivate(c) ==
  LET d == task[c].dev
  IN  /\ reader[c] = "activate"
      /\ activate_device_sender(c, d, task[c].key, registered \cup {d})
      /\ registered' = registered \cup {d}
      /\ reader' = [reader EXCEPT ![c] = "enrolled"]
      /\ UNCHANGED <<crdVars, wireVars, conn, task, challenge, pairing,
                     deploy, sweep, popVars, bound>>

(* complete_enrollment, its last patch for a new Device: the FIRST Device  *)
(* with the key is marked Enrolled.                                        *)
EnrollMark(c) ==
  LET k == task[c].key
  IN  /\ reader[c] = "enrolled"
      /\ \/ \E d \in Names : /\ IsFirst(d, k)
                             /\ Patch(d, mark_enrolled(status[d]))
         \/ (ApiMayFail \/ Found(k) = {}) /\ UNCHANGED status
      /\ reader' = [reader EXCEPT ![c] = "read"]
      /\ task' = [task EXCEPT ![c] = NoTask]
      /\ UNCHANGED <<keyVars, wireVars, conn, regVars, challenge,
                     pairing, deploy, sweep, popVars, bound>>

(* complete_enrollment, when the lookup or the creation fails.             *)
EnrollError(c) ==
  /\ ApiMayFail
  /\ reader[c] \in {"enroll", "create"}
  /\ reader' = [reader EXCEPT ![c] = "read"]
  /\ task' = [task EXCEPT ![c] = NoTask]
  /\ UNCHANGED <<crdVars, wireVars, conn, regVars, challenge, pairing,
                 deploy, sweep, popVars, bound>>

(* The read loop ends, because the peer is gone or because of a frame of   *)
(* invalid length; on_disconnect begins with remove_connection.            *)
ReaderEnds(c) ==
  /\ reader[c] = "read"
  /\ reader' = [reader EXCEPT ![c] = "closing"]
  /\ remove_connection(c)
  /\ UNCHANGED <<crdVars, wireVars, conn, task, pairing, deploy, sweep,
                 popVars, bound>>

Disconnect(c)   == peer[c] = "gone" /\ ReaderEnds(c)
InvalidFrame(c) ==
  "invalid" \in Inputs /\ peer[c] \in {"open", "draining"} /\ ReaderEnds(c)

(* on_disconnect, the patch: only a certificate leads to a device.         *)
OnDisconnect(c) ==
  LET k == tlsKey[c]
  IN  /\ reader[c] = "closing"
      /\ \/ /\ k # None
            /\ \E d \in Names : /\ IsFirst(d, k)
                                /\ Patch(d, mark_disconnected(status[d]))
         \/ /\ k = None \/ ApiMayFail \/ Found(k) = {}
            /\ UNCHANGED status
      /\ reader' = [reader EXCEPT ![c] = "closed"]
      /\ UNCHANGED <<keyVars, wireVars, conn, task, regVars,
                     challenge, pairing, deploy, sweep, popVars, bound>>

-----------------------------------------------------------------------------
(* The heartbeat monitor *)

(* The heartbeat timeout passes since the last heartbeat of a device.      *)
HeartbeatExpires(d) ==
  /\ status[d].hb = "fresh"
  /\ Patch(d, [status[d] EXCEPT !.hb = "stale"])
  /\ UNCHANGED <<keyVars, wireVars, taskVars, regVars, challenge,
                 pairing, deploy, sweep, popVars, bound>>

(* Mutant: only the devices this process has registered are looked at.     *)
TimedOutRegistered == {d \in registered : /\ Live(d)
                                          /\ status[d].hb = "stale"
                                          /\ status[d].phase = "Connected"}

(* check_heartbeat_timeouts, the list: the decision is taken on it.  A     *)
(* Device that never had a heartbeat is passed over.                       *)
TimedOut == {d \in Names : /\ Live(d)
                           /\ status[d].hb = "stale"
                           /\ status[d].phase = "Connected"}

MonitorList ==
  /\ sweep = {}
  /\ TimedOut # {}
  /\ sweep' = TimedOut
  /\ UNCHANGED <<crdVars, wireVars, taskVars, regVars, challenge, pairing,
                 deploy, popVars, bound>>

(* check_heartbeat_timeouts, one patch                                     *)
MonitorMark(d) ==
  /\ d \in sweep
  /\ sweep' = sweep \ {d}
  /\ PatchOrFail(d, mark_unreachable(status[d]))
  /\ UNCHANGED <<keyVars, wireVars, taskVars, regVars, challenge,
                 pairing, deploy, popVars, bound>>

-----------------------------------------------------------------------------
(* HTTP handlers that touch sessions *)

(* connect_device, and deploy_application's auto-registration of a device  *)
(* that its resource says is Connected.                                    *)
connect_device(d) ==
  /\ "connect" \in Inputs
  /\ Live(d)
  /\ register_device(d, devKey[d])
  /\ UNCHANGED <<crdVars, wireVars, taskVars, sender, pending, connMap,
                 challenge, pairing, deploy, sweep, popVars, bound>>

(* deploy_application, the opportunistic bind: a registered device has no  *)
(* sender and exactly one sender is parked.                                *)
DeployPicks(d, c) ==
  /\ "deploy" \in Inputs
  /\ d \in registered
  /\ deploy[d] = None
  /\ sender[d] = None
  /\ pending = {c}
  /\ deploy' = [deploy EXCEPT ![d] = c]
  /\ UNCHANGED <<crdVars, wireVars, taskVars, regVars, challenge, pairing,
                 sweep, popVars, bound>>

(* deploy_application, once the Device was read: bind that connection.     *)
DeployBinds(d) ==
  LET c == deploy[d]
  IN  /\ c # None
      /\ deploy' = [deploy EXCEPT ![d] = None]
      /\ \/ /\ Live(d)
            /\ activate_device_sender(c, d, devKey[d], registered)
            /\ bound' = bound \cup {<<c, d>>}
         \/ /\ ApiMayFail \/ ~Live(d)
            /\ UNCHANGED <<pending, connMap, keyMap, sender, bound>>
      /\ UNCHANGED <<crdVars, wireVars, taskVars, registered, challenge,
                     pairing, sweep, popVars>>

-----------------------------------------------------------------------------
(* The gateway process dies and is started again: its memory and its       *)
(* connections are lost, the resources are not.                            *)
GatewayRestart ==
  /\ "restart" \in Inputs
  /\ \E c \in Conns : reader[c] \notin {"none", "closed"}
  /\ peer' = [c \in Conns |-> IF conn[c] = "new" THEN peer[c] ELSE "gone"]
  /\ conn' = [c \in Conns |-> IF conn[c] = "new" THEN "new" ELSE "over"]
  /\ reader' = [c \in Conns |-> IF reader[c] = "none" THEN "none" ELSE "closed"]
  /\ task' = [c \in Conns |-> NoTask]
  /\ registered' = {}
  /\ sender' = [d \in Names |-> None]
  /\ keyMap' = [k \in Keys |-> None]
  /\ pending' = {}
  /\ connMap' = [c \in Conns |-> None]
  /\ challenge' = [c \in Conns |-> None]
  /\ pairing' = PairingMode
  /\ deploy' = [d \in Names |-> None]
  /\ sweep' = {}
  /\ UNCHANGED <<crdVars, holder, tlsKey, popVars, bound>>

-----------------------------------------------------------------------------

Boards ==
  \E c \in Conns :
    \/ \E h \in Keys, k \in Keys \cup {None} : Accept(c, h, k)
    \/ \E how \in {"draining", "gone"} : PeerClose(c, how)
    \/ HeartbeatRead(c)
    \/ \E k \in Keys : PublicKey(c, k)
    \/ \E sig \in Signatures(c) : ChallengeResponse(c, sig)
    \/ OtherFrame(c)
    \/ InvalidFrame(c)

AcceptLoop(c) ==
  \/ OnConnectKnown(c)
  \/ OnConnectUnknown(c)
  \/ OnConnectError(c)
  \/ OnConnectionReady(c)

Reader(c) ==
  \/ HeartbeatPatch(c)
  \/ EnrollExisting(c)
  \/ EnrollConnected(c)
  \/ EnrollNew(c)
  \/ \E d \in Names : EnrollCreate(c, d)
  \/ EnrollActivate(c)
  \/ EnrollMark(c)
  \/ EnrollError(c)
  \/ Disconnect(c)
  \/ OnDisconnect(c)

Monitor ==
  \/ MonitorList
  \/ \E d \in Names : MonitorMark(d)

HttpRequests ==
  \/ set_pairing_mode
  \/ \E d \in Names : delete_device(d) \/ connect_device(d)
  \/ \E d \in Names, c \in Conns : DeployPicks(d, c)

Timers ==
  \/ \E c \in Conns : ChallengeExpires(c)
  \/ \E d \in Names : HeartbeatExpires(d)

Next ==
  \/ \E d \in Names, k \in Keys : Provision(d, k)
  \/ Boards
  \/ \E c \in Conns : AcceptLoop(c) \/ Reader(c)
  \/ Monitor
  \/ HttpRequests
  \/ \E d \in Names : DeployBinds(d)
  \/ Timers
  \/ GatewayRestart

Spec == Init /\ [][Next]_vars

-----------------------------------------------------------------------------
(* Type correctness *)

ConnStates   == {"new", "handshaken", "spawned", "ready", "over"}
ReaderStates == {"none", "read", "heartbeat", "enroll", "connect", "create",
                 "activate", "enrolled", "closing", "closed"}
Challenges   == [key : Keys, nonce : Nonces, expired : BOOLEAN]
Tasks        == [key : Keys \cup {None}, dev : Names \cup {None}, phase : Phases]

CrdTypeOK ==
  /\ devKey \in [Names -> Keys \cup {None}]
  /\ deleted \subseteq Names
  /\ status \in [Names -> DeviceStatus]
  /\ carried \subseteq Names \X (Keys \cup {None})

WireTypeOK ==
  /\ holder \in [Conns -> Keys \cup {None}]
  /\ tlsKey \in [Conns -> Keys \cup {None}]
  /\ peer \in [Conns -> {"idle", "open", "draining", "gone"}]

TaskTypeOK ==
  /\ conn \in [Conns -> ConnStates]
  /\ reader \in [Conns -> ReaderStates]
  /\ task \in [Conns -> Tasks]
  /\ \A c \in Conns : reader[c] = "activate" => task[c].dev \in Names

RegistryTypeOK ==
  /\ registered \subseteq Names
  /\ sender \in [Names -> Conns \cup {None}]
  /\ keyMap \in [Keys -> Names \cup {None}]
  /\ pending \subseteq Conns
  /\ connMap \in [Conns -> Names \cup {None}]
  /\ pairing \in BOOLEAN
  /\ deploy \in [Names -> Conns \cup {None}]
  /\ sweep \subseteq Names
  /\ bound \subseteq Conns \X Names

ProofTypeOK ==
  /\ challenge \in [Conns -> Challenges \cup {None}]
  /\ issued \in 0 .. MaxNonces
  /\ offered \in [Conns -> 0 .. MaxNonces]
  /\ signed \subseteq (Keys \cup {None}) \X (0 .. MaxNonces)
  /\ accepts \in [Nonces -> Nat]
  /\ proved \subseteq Conns \X Keys

(* Every variable has its type; in particular every device, key and        *)
(* connection that a map of the registry names is one that exists.         *)
TypeOK ==
  CrdTypeOK /\ WireTypeOK /\ TaskTypeOK /\ RegistryTypeOK /\ ProofTypeOK

-----------------------------------------------------------------------------
(* Safety *)

(* A challenge is single use ("a nonce can never be answered twice",       *)
(* take_challenge): whatever connections close, expire, replay or repeat,  *)
(* a signature over one nonce is accepted at most once.                    *)
NonceOnce == \A n \in Nonces : accepts[n] <= 1

(* Proof of possession means what it says: a connection on which the       *)
(* challenge-response succeeded for a key is held by the board with that   *)
(* key, even though boards may present signatures made for other           *)
(* connections; and the key is the certificate's when there is one.        *)
ProvedByHolder ==
  \A c \in Conns, k \in Keys :
    <<c, k>> \in proved => /\ holder[c] = k
                           /\ tlsKey[c] \in {None, k}
                           /\ RequireClientAuth => tlsKey[c] = k

Proved(c, d) == \E k \in Keys : <<d, k>> \in carried /\ <<c, k>> \in proved

(* Enrollment has no effect before the proof: a connection is mapped to a  *)
(* device only once possession of a key that a resource of this name       *)
(* carried was proved on it, or by the opportunistic bind of a deploy      *)
(* request.                                                                *)
BoundOnceProved ==
  \A c \in Conns :
    connMap[c] # None => \/ Proved(c, connMap[c])
                        \/ <<c, connMap[c]>> \in bound

(* Commands go to a board of the device: the sender of a device's entry    *)
(* writes to a connection whose board holds a key that a resource of this  *)
(* name carried, unless a deploy request bound it, over reconnects,        *)
(* duplicate resources, deletions and restarts.  For a name that was never *)
(* deleted and created again that is the device's own key.  For one that   *)
(* was, it may be the key of the resource before: delete_device clears     *)
(* neither the registry nor the key map, so the old board keeps the entry. *)
SenderIsTheBoard ==
  \A d \in Names :
    LET c == sender[d]
    IN  c # None => <<d, holder[c]>> \in carried \/ <<c, d>> \in bound

(* public_key_to_device maps a key only to a name whose resource carries   *)
(* it, or carried it before it was deleted and created again.              *)
KeyMapAgrees == \A k \in Keys : keyMap[k] # None => <<keyMap[k], k>> \in carried

(* Once its reader is done with a connection, no challenge is outstanding  *)
(* on it and nothing resolves through it, but for a late deploy bind.      *)
ClosedIsUnmapped ==
  \A c \in Conns :
    reader[c] \in {"closing", "closed"} =>
      /\ challenge[c] = None
      /\ connMap[c] # None => <<c, connMap[c]>> \in bound

(* A device becomes Connected only on behalf of a board of its own: some   *)
(* connection that is not over yet is held by a key that a resource of     *)
(* this name carried (or was bound by a deploy request).  Every path to    *)
(* Connected is covered: on_connect, enrollment and the recovery by a      *)
(* heartbeat, whose last patch may meet a resource created again meanwhile.*)
ConnectedByItsBoard ==
  [][\A d \in Names :
       (status[d].phase # "Connected" /\ status'[d].phase = "Connected") =>
         \E c \in Conns : /\ conn[c] \in {"handshaken", "spawned", "ready"}
                          /\ reader[c] \notin {"closing", "closed"}
                          /\ <<d, holder[c]>> \in carried \/ <<c, d>> \in bound]_vars

-----------------------------------------------------------------------------
(* The inductive invariant behind the safety properties *)

Ended == {"closing", "closed"}

(* The accept loop and the reader of a connection agree on its stage, and  *)
(* a certificate is the board's own.                                       *)
StageInv ==
  \A c \in Conns :
    /\ conn[c] \in {"new", "handshaken"} => reader[c] = "none"
    /\ conn[c] \in {"spawned", "ready"} => reader[c] # "none"
    /\ reader[c] \notin {"none"} \cup Ended => conn[c] \in {"spawned", "ready"}
    /\ conn[c] # "new" => holder[c] \in Keys
    /\ tlsKey[c] \in {None, holder[c]}

(* Nothing refers to a connection whose reader was not spawned yet.        *)
FreshInv ==
  \A c \in Conns :
    reader[c] = "none" =>
      /\ challenge[c] = None
      /\ connMap[c] = None
      /\ c \notin pending
      /\ \A d \in Names : sender[d] # c /\ deploy[d] # c /\ <<c, d>> \notin bound
      /\ \A k \in Keys : <<c, k>> \notin proved

(* An outstanding challenge is the only one with its nonce; the nonce was  *)
(* not accepted yet, reached no other board, and only the board of the     *)
(* connection can have signed it.                                          *)
ChallengeInv ==
  /\ \A c \in Conns :
       challenge[c] # None =>
         LET n == challenge[c].nonce
             k == challenge[c].key
         IN  /\ n <= issued
             /\ accepts[n] = 0
             /\ tlsKey[c] \in {None, k}
             /\ RequireClientAuth => tlsKey[c] = k
             /\ \A x \in Conns :
                  /\ (challenge[x] # None /\ challenge[x].nonce = n) => x = c
                  /\ offered[x] = n => x = c
             /\ \A sig \in signed : sig[2] = n => sig[1] = holder[c]
  /\ \A n \in Nonces : n > issued => accepts[n] = 0
  /\ \A c \in Conns : offered[c] <= issued
  /\ \A sig \in signed : sig[2] <= issued

(* What the handler that a reader runs works on was proved, or resolved,   *)
(* on its connection.                                                      *)
TaskOK(c) ==
  LET k == task[c].key
      d == task[c].dev
  IN  /\ reader[c] \in {"enroll", "create", "activate", "enrolled", "connect"}
           => k \in Keys /\ <<c, k>> \in proved
      /\ reader[c] \in {"activate", "connect"}
           => d \in Names /\ <<d, k>> \in carried
      /\ reader[c] = "heartbeat"
           => d \in Names /\ (<<d, holder[c]>> \in carried \/ <<c, d>> \in bound)

TaskInv == \A c \in Conns : TaskOK(c)

(* A resource carries a key that its name has carried.                     *)
CarriedInv == \A d \in Names : devKey[d] # None => <<d, devKey[d]>> \in carried

(* The strengthening that every step preserves.                            *)
SessionInv ==
  /\ TypeOK
  /\ StageInv
  /\ FreshInv
  /\ ChallengeInv
  /\ TaskInv
  /\ CarriedInv
  /\ NonceOnce
  /\ ProvedByHolder
  /\ BoundOnceProved
  /\ SenderIsTheBoard
  /\ KeyMapAgrees
  /\ ClosedIsUnmapped

-----------------------------------------------------------------------------
(* Liveness *)

(* The board of a device has an open connection.                           *)
Session(d) == \E c \in Conns : peer[c] = "open" /\ holder[c] = devKey[d]

(* The tasks of the gateway are run by the scheduler, and time passes: the *)
(* last heartbeat of a board that is gone grows stale.                     *)
Fairness ==
  /\ \A c \in Conns : WF_vars(AcceptLoop(c)) /\ WF_vars(Reader(c))
  /\ WF_vars(MonitorList)
  /\ \A d \in Names : /\ WF_vars(MonitorMark(d))
                       /\ WF_vars(~Session(d) /\ HeartbeatExpires(d))

FairSpec == Spec /\ Fairness

(* A board that is up sends a heartbeat every period.                      *)
HeartbeatSpec == FairSpec /\ \A c \in Conns : WF_vars(HeartbeatRead(c))

(* The monitor catches every lost device that ever sent a heartbeat: once  *)
(* its board is gone for good it ends up not Connected, for good, whatever *)
(* late patches of its last connections and gateway restarts do.           *)
LostDeviceLeavesConnected ==
  \A d \in Names :
    <>[](Live(d) /\ ~Session(d) /\ status[d].hb # "none")
      => <>[](status[d].phase # "Connected")

InSession(c, d) ==
  /\ peer[c] = "open"
  /\ reader[c] \notin {"none", "closing", "closed"}
  /\ resolve_device_id(c) = d
  /\ Live(d)

(* A device marked Unreachable whose session still stands recovers through *)
(* its heartbeats, although a heartbeat decides on a phase it read before  *)
(* the monitor's patch.                                                    *)
UnreachableRecovers ==
  \A c \in Conns, d \in Names :
    (InSession(c, d) /\ status[d].phase = "Unreachable")
      ~> (~InSession(c, d) \/ status[d].phase # "Unreachable")

=============================================================================

--------------------------- MODULE RegistryLock ---------------------------
(***************************************************************************)
(* The read-write lock on device_connections in the gateway's HTTP API,    *)
(* and the tasks that take it: who waits for whom.                         *)
(*                                                                         *)
(* The lock is tokio's RwLock, which is fair: requests are granted in the  *)
(* order in which they are made, so that a read waits behind a write that  *)
(* was requested earlier even while other reads are under way.             *)
(*                                                                         *)
(* The registry is abstracted to the entry of one device, and the entry to *)
(* whether it has a TLS sender.                                            *)
(***************************************************************************)
EXTENDS Integers, Sequences

CONSTANTS
  Waiters,       \* deploy handlers, in their wait for a TLS sender
  StopHandlers,  \* stop handlers, in stop_application
  Senders,       \* spawned tasks that send a command
  Touches,       \* update_heartbeat, register_device, ... of an entry
  Connects,      \* set_device_tls_sender, activate_device_sender
  Disconnects,   \* remove_connection
  MaxWait,       \* max_wait_seconds of the wait, in turns
  Capacity,      \* capacity of the channel to the connection's writer task
  None           \* no task

Readers == Waiters \cup StopHandlers \cup Senders
Writers == Touches \cup Connects \cup Disconnects
Tasks   == Readers \cup Writers

ASSUME LockAssumption ==
  /\ MaxWait \in Nat
  /\ Capacity \in Nat \ {0}
  /\ None \notin Tasks
  /\ Readers \cap Writers = {}
  /\ Waiters \cap (StopHandlers \cup Senders) = {}
  /\ StopHandlers \cap Senders = {}
  /\ Touches \cap (Connects \cup Disconnects) = {}
  /\ Connects \cap Disconnects = {}

VARIABLES
  pc,      \* what each task is doing
  queue,   \* requests for the lock, oldest first
  guards,  \* read guards that each task holds
  writer,  \* the task that holds the write guard, or None
  waited,  \* turns that each deploy handler has waited
  sender,  \* the entry has a TLS sender
  chan     \* messages in the channel to the connection's writer task

vars == <<pc, queue, guards, writer, waited, sender, chan>>

Init ==
  /\ pc = [t \in Tasks |-> "start"]
  /\ queue = <<>>
  /\ guards = [t \in Readers |-> 0]
  /\ writer = None
  /\ waited = [t \in Waiters |-> 0]
  /\ sender \in BOOLEAN
  /\ chan = 0

-----------------------------------------------------------------------------
(* The lock *)

Request(t, from, to) ==
  /\ pc[t] = from
  /\ pc' = [pc EXCEPT ![t] = to]
  /\ queue' = Append(queue, t)

GrantWrite ==
  /\ queue # <<>>
  /\ LET t == Head(queue)
     IN  /\ t \in Writers
         /\ writer = None
         /\ \A u \in Readers : guards[u] = 0
         /\ writer' = t
         /\ pc' = [pc EXCEPT ![t] = "in"]
  /\ queue' = Tail(queue)
  /\ UNCHANGED <<guards, waited, sender, chan>>

GrantRead ==
  /\ queue # <<>>
  /\ LET t == Head(queue)
     IN  /\ t \in Readers
         /\ writer = None
         /\ guards' = [guards EXCEPT ![t] = @ + 1]
         /\ pc' = [pc EXCEPT ![t] = IF @ = "queued_again" THEN "in_again"
                                    ELSE "in"]
  /\ queue' = Tail(queue)
  /\ UNCHANGED <<writer, waited, sender, chan>>

-----------------------------------------------------------------------------
(* The tasks *)

(* Any task asks for the lock.                                             *)
Start(t) ==
  /\ Request(t, "start", "queued")
  /\ UNCHANGED <<guards, writer, waited, sender, chan>>

(* Mutant: the wait keeps its guard while it sleeps.                       *)
CheckKeepsGuard(t) ==
  /\ pc[t] = "in"
  /\ IF sender \/ waited[t] >= MaxWait
       THEN /\ pc' = [pc EXCEPT ![t] = "done"]
            /\ guards' = [guards EXCEPT ![t] = 0]
            /\ UNCHANGED waited
       ELSE /\ waited' = [waited EXCEPT ![t] = @ + 1]
            /\ pc' = [pc EXCEPT ![t] = "start"]
            /\ UNCHANGED guards
  /\ UNCHANGED <<queue, writer, sender, chan>>

(* deploy_application, one turn of the wait: look at the entry, drop the   *)
(* guard, and sleep unless the sender is there or the time is up.          *)
Check(t) ==
  /\ pc[t] = "in"
  /\ guards' = [guards EXCEPT ![t] = 0]
  /\ IF sender \/ waited[t] >= MaxWait
       THEN pc' = [pc EXCEPT ![t] = "done"] /\ UNCHANGED waited
       ELSE /\ waited' = [waited EXCEPT ![t] = @ + 1]
            /\ pc' = [pc EXCEPT ![t] = "start"]
  /\ UNCHANGED <<queue, writer, sender, chan>>

(* stop_application: its guard lasts until it returns, over the get and    *)
(* the patch of the Application.                                           *)
StopHandled(t) ==
  /\ pc[t] = "in"
  /\ pc' = [pc EXCEPT ![t] = "done"]
  /\ guards' = [guards EXCEPT ![t] = 0]
  /\ UNCHANGED <<queue, writer, waited, sender, chan>>

(* deploy_application_to_device and stop_application_on_device hold a read *)
(* guard when they call send_message_to_device, which asks for another.    *)
SendAgain(t) ==
  /\ Request(t, "in", "queued_again")
  /\ UNCHANGED <<guards, writer, waited, sender, chan>>

(* Mutant: the message is queued whether or not there is room.             *)
SendMessageUnbounded(t) ==
  /\ pc[t] = "in_again"
  /\ chan' = IF sender THEN chan + 1 ELSE chan
  /\ pc' = [pc EXCEPT ![t] = "done"]
  /\ guards' = [guards EXCEPT ![t] = 0]
  /\ UNCHANGED <<queue, writer, waited, sender>>

(* send_message_to_device: queue the message, waiting for room under both  *)
(* guards; or fail for want of a sender.                                   *)
SendMessage(t) ==
  /\ pc[t] = "in_again"
  /\ IF sender THEN chan < Capacity /\ chan' = chan + 1 ELSE UNCHANGED chan
  /\ pc' = [pc EXCEPT ![t] = "done"]
  /\ guards' = [guards EXCEPT ![t] = 0]
  /\ UNCHANGED <<queue, writer, waited, sender>>

(* A writer updates the entry and drops its guard.                         *)
Write(t) ==
  /\ writer = t
  /\ writer' = None
  /\ pc' = [pc EXCEPT ![t] = "done"]
  /\ sender' = IF t \in Touches THEN sender ELSE t \in Connects
  /\ UNCHANGED <<queue, guards, waited, chan>>

(* The writer task of the connection takes a message off the channel, once *)
(* it has written the one before: a write has no timeout.                  *)
Drain ==
  /\ chan > 0
  /\ chan' = chan - 1
  /\ UNCHANGED <<pc, queue, guards, writer, waited, sender>>

Lock == GrantRead \/ GrantWrite

Step(t) ==
  \/ Start(t)
  \/ t \in Waiters /\ Check(t)
  \/ t \in StopHandlers /\ StopHandled(t)
  \/ t \in Senders /\ (SendAgain(t) \/ SendMessage(t))
  \/ t \in Writers /\ Write(t)

Next == Lock \/ (\E t \in Tasks : Step(t)) \/ Drain

Spec == Init /\ [][Next]_vars

(* Every task is scheduled and the lock is handed on.  The connection's    *)
(* writer task owes nothing: it waits in write_all for as long as the      *)
(* device does not read.                                                   *)
FairSpec ==
  /\ Spec
  /\ WF_vars(Lock)
  /\ \A t \in Tasks : WF_vars(Step(t))

(* The same with a device that reads.                                      *)
DrainedSpec == FairSpec /\ WF_vars(Drain)

-----------------------------------------------------------------------------

PcStates == {"start", "queued", "in", "queued_again", "in_again", "done"}

(* Every variable has its type; no task waits in the queue twice.          *)
TypeOK ==
  /\ pc \in [Tasks -> PcStates]
  /\ queue \in Seq(Tasks)
  /\ \A i, j \in 1 .. Len(queue) : queue[i] = queue[j] => i = j
  /\ guards \in [Readers -> 0 .. 2]
  /\ writer \in Writers \cup {None}
  /\ waited \in [Waiters -> 0 .. MaxWait]
  /\ sender \in BOOLEAN
  /\ chan \in 0 .. Capacity

(* The read guards that a task holds by what it is doing.                  *)
Held(t) == IF pc[t] \in {"in", "queued_again"} THEN 1
           ELSE IF pc[t] = "in_again" THEN 2 ELSE 0

QueueInv ==
  \A i \in 1 .. Len(queue) : pc[queue[i]] \in {"queued", "queued_again"}

HeldInv ==
  /\ \A t \in Readers : guards[t] = Held(t)
  /\ \A t \in Tasks : pc[t] \in {"queued_again", "in_again"} => t \in Senders

Exclusive ==
  writer # None => pc[writer] = "in" /\ \A t \in Readers : guards[t] = 0

(* The lock is sound: who queues is waiting, a task holds as many guards   *)
(* as its step takes (two while it sends, never more), and a write guard   *)
(* excludes every read guard.                                              *)
LockInv == TypeOK /\ QueueInv /\ HeldInv /\ Exclusive

(* A sending task waits for its second guard under its first.              *)
NestedWait == \E t \in Senders : pc[t] = "queued_again"

(* A sending task waits under both guards for room in a full channel.      *)
FullWait ==
  \E t \in Senders : pc[t] = "in_again" /\ sender /\ chan = Capacity

(* Only a task that sends a command can hold anyone up for good: at its    *)
(* nested read guard, or under both guards when the channel of a device    *)
(* that does not read is full.  But for these two every task gets the lock *)
(* in the end, the heartbeats, connects and disconnects behind deploy      *)
(* handlers that poll for them and behind stop handlers that call the API  *)
(* under their guard.                                                      *)
OnlySendersBlock ==
  (\A t \in Tasks : <>(pc[t] = "done")) \/ <>[]NestedWait \/ <>[]FullWait

(* http_api.rs, deploy_application: "Send deployment command to device via *)
(* TLS connection": the spawned task sends the command or fails.           *)
CommandIsSent == \A t \in Senders : <>(pc[t] = "done")

===========================================================================

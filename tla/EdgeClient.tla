----------------------------- MODULE EdgeClient -----------------------------
(***************************************************************************)
(* The Linux edge client and the gateway's session with it, over one TLS   *)
(* connection.                                                             *)
(*                                                                         *)
(* The client enrols on the connection itself; after that an event loop    *)
(* carries out the commands and puts the answers into a bounded channel,   *)
(* a writer task empties the channel onto the connection, a heartbeat task *)
(* shares the channel, and every application runs in a blocking task of    *)
(* its own.  On the other side the gateway handles one message of the      *)
(* client at a time, while deploy and stop requests queue commands as soon *)
(* as the session's sender is active.  Certificates, signatures, module    *)
(* bytes and frames are abstracted to the outcomes the code tells apart.   *)
(***************************************************************************)
EXTENDS Naturals, Sequences, FiniteSets

CONSTANTS
  Apps,          \* application ids
  Offered,       \* the commands the gateway may send, a subset of Commands
  ChanCap,       \* capacity of the client's channel (32 in the code)
  MaxCommands,   \* bound on the commands of the gateway
  MaxBeats,      \* bound on the heartbeats between the two at one time
  NoTask


VARIABLES
  link,      \* "up" or "down": the TLS connection
  up,        \* messages on the way to the gateway
  down,      \* messages on the way to the client
  sender,    \* this session's sender at the gateway, one of Senders
  gw,        \* "ready" or "patching": the gateway's handler
  commands,  \* commands queued so far
  phase,     \* where run() stands
  pend,      \* answers of the current command not yet in the channel
  chan,      \* the channel from event loop and heartbeat task to the writer
  writer,    \* the writer task is alive
  beating,   \* the heartbeat task is alive
  handles,   \* WasmRunner.handles: task of each application, or NoTask
  task,      \* the blocking tasks, in the order they were spawned
  sent       \* answers written to the connection (history)

gwVars == <<sender, gw, commands>>
runVars == <<handles, task>>
taskVars == <<writer, beating>>
vars == <<link, up, down, sender, gw, commands, phase, pend, chan, writer,
          beating, handles, task, sent>>

----------------------------------------------------------------------------
(* Messages.                                                               *)

Msg(kind) == [kind |-> kind]

(* A module is accepted, its digest differs from the announced one, it     *)
(* does not start with the magic bytes, or its frame is over 65536 bytes.  *)
Modules == {"good", "wrong digest", "no magic", "oversized"}

Commands ==
  [kind : {"DeployApplication"}, app : Apps, module : Modules]
    \cup [kind : {"StopApplication"}, app : Apps]
    \cup [kind : {"RequestApplicationStatus"}, of : {{}} \cup {{a} : a \in Apps}]
    \cup {Msg("RequestDeviceInfo")}

ASSUME EdgeAssumption ==
  /\ Offered \subseteq Commands
  /\ ChanCap \in Nat \ {0}
  /\ MaxCommands \in Nat
  /\ MaxBeats \in Nat \ {0}
  /\ NoTask \notin Nat

DeployAck(a, success) ==
  [kind |-> "ApplicationDeployAck", app |-> a, success |-> success]

StopAck(a, success) ==
  [kind |-> "ApplicationStopAck", app |-> a, success |-> success]

ApplicationStatus(a, status) ==
  [kind |-> "ApplicationStatus", app |-> a, status |-> status]

IsBeat(m) == m.kind \in {"Heartbeat", "HeartbeatAck"}

Beats == Len(SelectSeq(chan, IsBeat)) + Len(SelectSeq(up, IsBeat))
           + Len(SelectSeq(down, IsBeat))

----------------------------------------------------------------------------
(* WasmRunner.  A blocking task cannot be aborted once it has started:     *)
(* abort() only keeps a queued one from starting.                          *)

is_running(a) == handles[a] # NoTask

Abort(tasks, t) ==
  IF tasks[t].state = "queued" THEN [tasks EXCEPT ![t].state = "dropped"]
                               ELSE tasks

AfterStop(a) ==
  IF is_running(a) THEN Abort(task, handles[a]) ELSE task

(* Mutant: the task is aborted and its handle kept.                        *)
stop_keeping(a) ==
  /\ handles' = handles
  /\ task' = AfterStop(a)

stop(a) ==
  /\ handles' = [handles EXCEPT ![a] = NoTask]
  /\ task' = AfterStop(a)

(* Mutant: the previous instance is not stopped.                           *)
deploy_over(a) ==
  /\ task' = Append(task, [app |-> a, state |-> "queued"])
  /\ handles' = [handles EXCEPT ![a] = Len(task) + 1]

deploy(a) ==
  /\ task' = Append(AfterStop(a), [app |-> a, state |-> "queued"])
  /\ handles' = [handles EXCEPT ![a] = Len(task) + 1]

TaskStarts(t) ==
  /\ phase # "gone"
  /\ task[t].state = "queued"
  /\ task' = [task EXCEPT ![t].state = "running"]
  /\ UNCHANGED <<link, up, down, gwVars, phase, pend, chan, taskVars,
                 handles, sent>>

(* run_wasm_module returns: the module finished, trapped, or could not be  *)
(* compiled or linked.                                                     *)
TaskEnds(t) ==
  /\ task[t].state = "running"
  /\ task' = [task EXCEPT ![t].state = "done"]
  /\ UNCHANGED <<link, up, down, gwVars, phase, pend, chan, taskVars,
                 handles, sent>>

----------------------------------------------------------------------------
(* The gateway's side of the session.                                      *)

Reply(m) == down' = Append(down, m)

(* The accept task parks the sender when on_connection_ready runs, while   *)
(* the reader may already handle messages.  An activation takes it into    *)
(* the registry, where commands find it; one that comes first finds none,  *)
(* and the sender it missed is parked too late.                            *)
Senders == {"coming", "parked", "active", "missed", "late"}

active == sender = "active"

activate_device_sender ==
  sender' = CASE sender = "parked" -> "active"
              [] sender = "coming" -> "missed"
              [] OTHER -> sender

on_connection_ready ==
  /\ link = "up"
  /\ \/ sender = "coming" /\ sender' = "parked"
     \/ sender = "missed" /\ sender' = "late"
  /\ UNCHANGED <<link, up, down, gw, commands, phase, pend, chan, taskVars,
                 runVars, sent>>

(* deploy_application for a device without a sender takes the one that is  *)
(* parked, before or after the enrolment.                                  *)
DeployBinds ==
  /\ link = "up"
  /\ sender \in {"parked", "late"}
  /\ sender' = "active"
  /\ UNCHANGED <<link, up, down, gw, commands, phase, pend, chan, taskVars,
                 runVars, sent>>

(* The replies that need no more than the message.                         *)
ReplyTo ==
  [EnrollmentRequest        |-> "EnrollmentAccepted",
   PublicKey                |-> "Challenge",
   EnrollmentAcknowledgment |-> "EnrollmentCompleted",
   Heartbeat                |-> "HeartbeatAck"]

GwAnswers ==
  /\ Head(up).kind \in DOMAIN ReplyTo
  /\ Reply(Msg(ReplyTo[Head(up).kind]))
  /\ UNCHANGED gwVars

GwRecords ==
  /\ Head(up).kind \notin DOMAIN ReplyTo \cup {"ChallengeResponse"}
  /\ UNCHANGED <<down, gwVars>>

(* The key is not that of the certificate the gateway asks for, the proof  *)
(* fails, or complete_enrollment refuses an unknown device.                *)
GwRejects ==
  /\ Head(up).kind \in {"PublicKey", "ChallengeResponse"}
  /\ Reply(Msg("EnrollmentRejected"))
  /\ UNCHANGED gwVars

(* complete_enrollment activates the sender, if there is one, then awaits  *)
(* the API server.                                                         *)
GwActivates ==
  /\ Head(up).kind = "ChallengeResponse"
  /\ activate_device_sender
  /\ gw' = "patching"
  /\ UNCHANGED <<down, commands>>

on_message ==
  /\ link = "up"
  /\ gw = "ready"
  /\ up # <<>>
  /\ up' = Tail(up)
  /\ GwAnswers \/ GwRecords \/ GwRejects \/ GwActivates
  /\ UNCHANGED <<link, phase, pend, chan, taskVars, runVars, sent>>

complete_enrollment ==
  /\ link = "up"
  /\ gw = "patching"
  /\ Reply(Msg("DeviceUuid"))
  /\ gw' = "ready"
  /\ UNCHANGED <<link, up, sender, commands, phase, pend, chan, taskVars,
                 runVars, sent>>

send_message_to_device ==
  /\ link = "up"
  /\ active
  /\ commands < MaxCommands
  /\ commands' = commands + 1
  /\ \E m \in Offered : Reply(m)
  /\ UNCHANGED <<link, up, sender, gw, phase, pend, chan, taskVars, runVars,
                 sent>>

(* What is on the way to the gateway is lost; the client may still read    *)
(* what has reached it, or fail at once (ReadFails).                       *)
LinkBreaks ==
  /\ link = "up"
  /\ link' = "down"
  /\ up' = <<>>
  /\ UNCHANGED <<down, gwVars, phase, pend, chan, taskVars, runVars, sent>>

----------------------------------------------------------------------------
(* Enrolment: run() and enroll() write to the connection themselves.       *)

Enrolling == {"start", "accepted?", "challenge?", "uuid?", "completed?"}

(* send_message fails on a broken connection, and the ? ends run().        *)
Write(m, next) ==
  IF link = "up" THEN up' = Append(up, m) /\ phase' = next
                 ELSE up' = up /\ phase' = "exiting"

Begin ==
  /\ phase = "start"
  /\ Write(Msg("EnrollmentRequest"), "accepted?")
  /\ UNCHANGED <<link, down, gwVars, pend, chan, taskVars, runVars, sent>>

(* Mutant: what follows the key counts as the DeviceUuid.                  *)
EnrollReadsAny(kind) ==
  CASE phase = "accepted?" /\ kind = "EnrollmentAccepted" ->
         Write(Msg("PublicKey"), "challenge?")
    [] phase = "challenge?" ->
         Write(Msg("EnrollmentAcknowledgment"), "completed?")
    [] phase = "completed?" -> up' = up /\ phase' = "running"
    [] OTHER -> up' = up /\ phase' = "exiting"

(* Mutant: a message that does not fit is skipped, as in the event loop.   *)
EnrollReadsOn(kind) ==
  CASE phase = "accepted?" /\ kind = "EnrollmentAccepted" ->
         Write(Msg("PublicKey"), "challenge?")
    [] phase = "challenge?" /\ kind = "Challenge" ->
         Write(Msg("ChallengeResponse"), "uuid?")
    [] phase \in {"challenge?", "uuid?"} /\ kind = "DeviceUuid" ->
         Write(Msg("EnrollmentAcknowledgment"), "completed?")
    [] phase = "completed?" -> up' = up /\ phase' = "running"
    [] OTHER -> UNCHANGED <<up, phase>>

(* The next state for each message that is read; the others end run().     *)
EnrollReads(kind) ==
  CASE phase = "accepted?" /\ kind = "EnrollmentAccepted" ->
         Write(Msg("PublicKey"), "challenge?")
    [] phase = "challenge?" /\ kind = "Challenge" ->
         Write(Msg("ChallengeResponse"), "uuid?")
    [] phase \in {"challenge?", "uuid?"} /\ kind = "DeviceUuid" ->
         Write(Msg("EnrollmentAcknowledgment"), "completed?")
    [] phase = "completed?" -> up' = up /\ phase' = "running"
    [] OTHER -> up' = up /\ phase' = "exiting"

Oversized(m) ==
  m.kind = "DeployApplication" /\ m.module = "oversized"

enroll ==
  /\ phase \in Enrolling \ {"start"}
  /\ down # <<>>
  /\ down' = Tail(down)
  /\ IF Oversized(Head(down)) THEN up' = up /\ phase' = "exiting"
                              ELSE EnrollReads(Head(down).kind)
  /\ writer' = (phase' = "running")
  /\ beating' = (phase' = "running")
  /\ UNCHANGED <<link, gwVars, pend, chan, runVars, sent>>

(* read_frame fails: enroll() ends run(), the event loop just ends.        *)
ReadFails ==
  /\ link = "down"
  /\ \/ /\ phase \in Enrolling
        /\ phase' = "exiting"
     \/ /\ phase = "running"
        /\ pend = <<>>
        /\ phase' = "left"
  /\ UNCHANGED <<link, up, down, gwVars, pend, chan, taskVars, runVars,
                 sent>>

----------------------------------------------------------------------------
(* The event loop, which reads the next frame when its answers are queued. *)

LoopReads ==
  /\ phase = "running"
  /\ pend = <<>>
  /\ down # <<>>
  /\ down' = Tail(down)
  /\ UNCHANGED <<link, up, gwVars, chan, taskVars, sent>>

DeployApplication ==
  /\ LoopReads
  /\ Head(down).kind = "DeployApplication"
  /\ LET a == Head(down).app IN
     \/ /\ Head(down).module = "oversized"
        /\ phase' = "left"
        /\ UNCHANGED <<pend, runVars>>
     \/ /\ Head(down).module = "wrong digest"
        /\ pend' = <<DeployAck(a, FALSE)>>
        /\ UNCHANGED <<phase, runVars>>
     \/ /\ Head(down).module = "no magic"
        /\ stop(a)
        /\ pend' = <<DeployAck(a, FALSE)>>
        /\ phase' = phase
     \/ /\ Head(down).module = "good"
        /\ deploy(a)
        /\ pend' = <<DeployAck(a, TRUE)>>
        /\ phase' = phase

StopApplication ==
  /\ LoopReads
  /\ Head(down).kind = "StopApplication"
  /\ stop(Head(down).app)
  /\ pend' = <<StopAck(Head(down).app, is_running(Head(down).app))>>
  /\ phase' = phase

(* The statuses of one application, or of all that have a handle, in the   *)
(* order of a hash map.                                                    *)
Status(a) ==
  ApplicationStatus(a, IF is_running(a) THEN "Running" ELSE "Stopped")

Orders(S) ==
  {s \in [1 .. Cardinality(S) -> S] :
     \A i, j \in DOMAIN s : i # j => s[i] # s[j]}

RequestApplicationStatus ==
  /\ LoopReads
  /\ Head(down).kind = "RequestApplicationStatus"
  /\ LET ids == IF Head(down).of # {}
                THEN Head(down).of
                ELSE {a \in Apps : is_running(a)}
     IN  \E s \in Orders(ids) : pend' = [i \in DOMAIN s |-> Status(s[i])]
  /\ UNCHANGED <<phase, runVars>>

RequestDeviceInfo ==
  /\ LoopReads
  /\ Head(down).kind = "RequestDeviceInfo"
  /\ pend' = <<Msg("DeviceInfo")>>
  /\ UNCHANGED <<phase, runVars>>

(* HeartbeatAck, and what belongs to the enrolment.                        *)
Ignored ==
  /\ LoopReads
  /\ \A m \in Commands : Head(down).kind # m.kind
  /\ UNCHANGED <<pend, phase, runVars>>

(* Mutant: try_send, as the gateway's replies: no room, no answer.         *)
TryQueueAnswer ==
  /\ phase = "running"
  /\ pend # <<>>
  /\ chan' = IF writer /\ Len(chan) < ChanCap THEN Append(chan, Head(pend))
                                             ELSE chan
  /\ pend' = Tail(pend)
  /\ UNCHANGED <<link, up, down, gwVars, phase, taskVars, runVars, sent>>

(* tx.send(ack).await waits for room; without a writer it fails.           *)
QueueAnswer ==
  /\ phase = "running"
  /\ pend # <<>>
  /\ IF writer
     THEN /\ Len(chan) < ChanCap
          /\ chan' = Append(chan, Head(pend))
          /\ pend' = Tail(pend)
          /\ phase' = phase
     ELSE /\ phase' = "left"
          /\ pend' = <<>>
          /\ chan' = chan
  /\ UNCHANGED <<link, up, down, gwVars, taskVars, runVars, sent>>

----------------------------------------------------------------------------
(* The writer and the heartbeat task.                                      *)

WriterSends ==
  /\ writer
  /\ chan # <<>>
  /\ link = "up"
  /\ up' = Append(up, Head(chan))
  /\ chan' = Tail(chan)
  /\ sent' = IF IsBeat(Head(chan)) THEN sent ELSE Append(sent, Head(chan))
  /\ UNCHANGED <<link, down, gwVars, phase, pend, taskVars, runVars>>

(* Mutant: a write error is ignored, as in the gateway's writer.           *)
WriterGoesOn ==
  /\ writer
  /\ chan # <<>>
  /\ link = "down"
  /\ chan' = Tail(chan)
  /\ UNCHANGED <<link, up, down, gwVars, phase, pend, taskVars, runVars, sent>>

(* A write error ends the writer and drops the receiver with what it held. *)
WriterFails ==
  /\ writer
  /\ chan # <<>>
  /\ link = "down"
  /\ writer' = FALSE
  /\ chan' = <<>>
  /\ UNCHANGED <<link, up, down, gwVars, phase, pend, beating, runVars, sent>>

(* Mutant: the heartbeat does not wait for room in the channel.            *)
HeartbeatTickNow ==
  /\ beating
  /\ phase # "gone"
  /\ link = "up" => Beats < MaxBeats
  /\ chan' = IF writer THEN Append(chan, Msg("Heartbeat")) ELSE chan
  /\ beating' = writer
  /\ UNCHANGED <<link, up, down, gwVars, phase, pend, writer, runVars, sent>>

HeartbeatTick ==
  /\ beating
  /\ phase # "gone"
  /\ link = "up" => Beats < MaxBeats
  /\ IF writer
     THEN /\ Len(chan) < ChanCap
          /\ chan' = Append(chan, Msg("Heartbeat"))
          /\ beating' = beating
     ELSE /\ beating' = FALSE
          /\ chan' = chan
  /\ UNCHANGED <<link, up, down, gwVars, phase, pend, writer, runVars, sent>>

(* run() awaits the writer; then main returns.                             *)
RunReturns ==
  /\ phase = "left"
  /\ ~writer
  /\ phase' = "exiting"
  /\ UNCHANGED <<link, up, down, gwVars, pend, chan, taskVars, runVars, sent>>

(* Dropping the runtime waits for the blocking tasks that have started and *)
(* drops the others.  The process takes its connection with it.            *)
ProcessEnds ==
  /\ phase = "exiting"
  /\ \A t \in DOMAIN task : task[t].state # "running"
  /\ phase' = "gone"
  /\ link' = "down"
  /\ task' = [t \in DOMAIN task |-> IF task[t].state = "queued"
                                    THEN [task[t] EXCEPT !.state = "dropped"]
                                    ELSE task[t]]
  /\ UNCHANGED <<up, down, gwVars, pend, chan, taskVars, handles, sent>>

----------------------------------------------------------------------------
Init ==
  /\ link = "up" /\ up = <<>> /\ down = <<>>
  /\ sender = "coming" /\ gw = "ready" /\ commands = 0
  /\ phase = "start"
  /\ pend = <<>> /\ chan = <<>>
  /\ writer = FALSE /\ beating = FALSE
  /\ handles = [a \in Apps |-> NoTask]
  /\ task = <<>>
  /\ sent = <<>>

EventLoop ==
  \/ DeployApplication
  \/ StopApplication
  \/ RequestApplicationStatus
  \/ RequestDeviceInfo
  \/ Ignored
  \/ QueueAnswer

Gateway == on_message \/ complete_enrollment

Writer == WriterSends \/ WriterFails

Next ==
  \/ Gateway
  \/ on_connection_ready
  \/ DeployBinds
  \/ send_message_to_device
  \/ LinkBreaks
  \/ Begin
  \/ enroll
  \/ ReadFails
  \/ EventLoop
  \/ Writer
  \/ HeartbeatTick
  \/ RunReturns
  \/ ProcessEnds
  \/ \E t \in DOMAIN task : TaskStarts(t) \/ TaskEnds(t)

Spec == Init /\ [][Next]_vars

(* Every task of the two processes is scheduled; the connection, the       *)
(* operator and the applications owe nothing.                              *)
FairSpec ==
  /\ Spec
  /\ WF_vars(Gateway)
  /\ WF_vars(Begin \/ enroll \/ ReadFails \/ EventLoop)
  /\ WF_vars(Writer)
  /\ WF_vars(HeartbeatTick)
  /\ WF_vars(RunReturns)
  /\ WF_vars(ProcessEnds)

----------------------------------------------------------------------------
Phases == Enrolling \cup {"running", "left", "exiting", "gone"}

States == {"queued", "running", "done", "dropped"}

Answer ==
  [kind : {"ApplicationDeployAck", "ApplicationStopAck"}, app : Apps,
   success : BOOLEAN]
    \cup [kind : {"ApplicationStatus"}, app : Apps, status : {"Running", "Stopped"}]
    \cup {Msg("DeviceInfo")}

(* What is on the way in each direction, and in the channel.               *)
ToGateway ==
  Answer \cup {Msg(kind) : kind \in
    {"EnrollmentRequest", "PublicKey", "ChallengeResponse",
     "EnrollmentAcknowledgment", "Heartbeat"}}

ToClient ==
  Commands \cup {Msg(kind) : kind \in
    {"EnrollmentAccepted", "EnrollmentRejected", "EnrollmentCompleted",
     "Challenge", "DeviceUuid", "HeartbeatAck"}}

ToWriter == Answer \cup {Msg("Heartbeat")}

Task == [app : Apps, state : States]

(* Type correctness.                                                       *)
TypeOK ==
  /\ link \in {"up", "down"}
  /\ up \in Seq(ToGateway)
  /\ down \in Seq(ToClient)
  /\ sender \in Senders
  /\ gw \in {"ready", "patching"}
  /\ commands \in 0 .. MaxCommands
  /\ phase \in Phases
  /\ pend \in Seq(Answer)
  /\ chan \in Seq(ToWriter)
  /\ Len(chan) <= ChanCap
  /\ writer \in BOOLEAN
  /\ beating \in BOOLEAN
  /\ task \in Seq(Task)
  /\ handles \in [Apps -> DOMAIN task \cup {NoTask}]
  /\ sent \in Seq(Answer)

(* The runner's handles and the blocking tasks agree, over every order of  *)
(* deploys, stops, refused deploys and late starts: a handle leads to the  *)
(* newest task of its own application, which abort() has not dropped, and  *)
(* a task that still waits to start can be reached through its handle, so  *)
(* that stopping the application keeps it from ever starting.              *)
HandlesAgree ==
  /\ \A a \in Apps : is_running(a) =>
       /\ task[handles[a]].app = a
       /\ task[handles[a]].state # "dropped" \/ phase = "gone"
       /\ \A t \in DOMAIN task : task[t].app = a => t <= handles[a]
  /\ \A t \in DOMAIN task :
       task[t].state = "queued" => handles[task[t].app] = t

(* A client that has come through enrolment talks to a gateway that has    *)
(* activated the sender of this very connection, whatever was queued in    *)
(* between: otherwise it would run and beat where no command can reach it. *)
(* The one way to that end is an activation that overtook                  *)
(* on_connection_ready; a deploy request that took the parked sender first *)
(* does no harm.  The same holds as soon as the DeviceUuid is on the way;  *)
(* and the tasks that write to the connection are not spawned before       *)
(* enrolment is over.                                                      *)
EnrolledIsActive ==
  /\ (\/ phase \in {"completed?", "running", "left"}
      \/ gw = "patching"
      \/ \E i \in DOMAIN down : down[i].kind = "DeviceUuid")
        => active \/ sender \in {"missed", "late"}
  /\ phase \in Enrolling => ~writer /\ ~beating

(* What the client owes the gateway: answers on the connection, in the     *)
(* channel and with the event loop, until the writer has failed.           *)
Answers(s) ==
  LET upto[n \in 0 .. Len(s)] ==
        IF n = 0 THEN <<>>
        ELSE IF IsBeat(s[n]) THEN upto[n - 1] ELSE Append(upto[n - 1], s[n])
  IN  upto[Len(s)]

Open == phase \in Enrolling \/ writer

Owed == IF Open THEN sent \o Answers(chan) \o pend ELSE sent

(* The last acknowledgment about an application tells what the runner      *)
(* holds: after a successful deploy a task, after a stop none.             *)
About(a) == {i \in DOMAIN Owed : "success" \in DOMAIN Owed[i] /\ Owed[i].app = a}

LastAckHolds ==
  Open => \A a \in Apps : \A i \in About(a) :
    (\A j \in About(a) : j <= i) =>
       /\ Owed[i] = DeployAck(a, TRUE) => is_running(a)
       /\ Owed[i].kind = "ApplicationStopAck" => ~is_running(a)

(* The client implements CommandReplies: through the event loop, the       *)
(* bounded channel it shares with the heartbeats and the writer task,      *)
(* answers leave in the order of the commands, exactly once, and as long   *)
(* as the connection holds they do leave.                                  *)
Replies == INSTANCE CommandReplies WITH due <- Owed, sent <- sent, open <- Open

AnswersInOrder == Replies!FairSpec

(* Enrolment never hangs: a command that overtakes DeviceUuid, a rejection *)
(* and a broken connection all end it.                                     *)
EnrollmentSettles == (phase \in Enrolling) ~> (phase \notin Enrolling)

(* A client whose connection broke ends, so that its supervisor can start  *)
(* it again, unless an application that has started does not return: the   *)
(* heartbeat must find the writer dead, and the runtime waits for blocking *)
(* tasks.                                                                  *)
ClientLeaves ==
  (link = "down") ~>
     (phase = "gone" \/ \E t \in DOMAIN task : task[t].state = "running")

=============================================================================

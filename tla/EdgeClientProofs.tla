-------------------------- MODULE EdgeClientProofs --------------------------
(***************************************************************************)
(* Proofs about EdgeClient, for every set of applications and offered      *)
(* commands and every capacity of the channel: the invariants of the       *)
(* session, and that the client implements CommandReplies.                 *)
(***************************************************************************)
EXTENDS EdgeClient, SetInduction, SequenceTheorems, TLAPS

(* Moving the head of a sequence to the end of another.                    *)
LEMMA AppendHeadTail ==
  ASSUME NEW T, NEW s \in Seq(T), NEW t \in Seq(T), t # <<>>
  PROVE  Append(s, Head(t)) \o Tail(t) = s \o t
<1>1. /\ Head(t) \in T /\ Tail(t) \in Seq(T) /\ <<Head(t)>> \in Seq(T)
      /\ <<Head(t)>> \o Tail(t) = t
  OBVIOUS
<1>2. Append(s, Head(t)) = s \o <<Head(t)>>
  BY <1>1, AppendIsConcat
<1> QED
  BY <1>1, <1>2, ConcatAssociative

(* The answers among the first n elements, behind Answers.                 *)
Step(s, g, n) ==
  IF n = 0 THEN <<>>
  ELSE IF IsBeat(s[n]) THEN g[n - 1] ELSE Append(g[n - 1], s[n])

Upto(s) == CHOOSE g : g = [n \in 0 .. Len(s) |-> Step(s, g, n)]

(* Answers are those up to the end.                                        *)
LEMMA AnswersAreUpto ==
  ASSUME NEW s
  PROVE  Answers(s) = Upto(s)[Len(s)]
BY DEF Answers, Upto, Step

(* They are found one element after the other.                             *)
StepsUpto(s, k, g) == g = [n \in 0 .. k |-> Step(s, g, n)]

(* A function that filters the first k messages extends to k + 1 of them.  *)
LEMMA StepsUptoNext ==
  ASSUME NEW s, NEW k \in Nat, NEW g, StepsUpto(s, k, g)
  PROVE  StepsUpto(s, k + 1, [n \in 0 .. k + 1 |-> Step(s, g, n)])
<1> DEFINE h == [n \in 0 .. k + 1 |-> Step(s, g, n)]
<1>1. ASSUME NEW n \in 0 .. k
      PROVE  n \in 0 .. k + 1 /\ h[n] = g[n]
  <2>1. g[n] = Step(s, g, n)
    BY DEF StepsUpto
  <2> QED
    BY <2>1
<1>2. ASSUME NEW n \in 0 .. k + 1
      PROVE  Step(s, g, n) = Step(s, h, n)
  <2>1. CASE n = 0
    BY <2>1 DEF Step
  <2>2. CASE n # 0
    <3>1. n - 1 \in 0 .. k
      BY <2>2
    <3>2. g[n - 1] = h[n - 1]
      BY <3>1, <1>1
    <3> QED
      BY <3>2 DEF Step
  <2> QED
    BY <2>1, <2>2
<1> QED
  BY <1>2 DEF StepsUpto

(* So the recursive function of Answers exists, and satisfies its equation.*)
LEMMA UptoDefined ==
  ASSUME NEW s, Len(s) \in Nat
  PROVE  \A n \in 0 .. Len(s) : Upto(s)[n] = Step(s, Upto(s), n)
<1> DEFINE P == {k \in Nat : \E g : StepsUpto(s, k, g)}
<1>1. 0 \in P
  <2>1. StepsUpto(s, 0, [n \in 0 .. 0 |-> <<>>])
    BY DEF StepsUpto, Step
  <2> QED
    BY <2>1
<1>2. ASSUME NEW k \in P
      PROVE  k + 1 \in P
  <2>1. k \in Nat /\ \E g : StepsUpto(s, k, g)
    OBVIOUS
  <2>2. PICK g : StepsUpto(s, k, g)
    BY <2>1
  <2>3. \E h : StepsUpto(s, k + 1, h)
    BY <2>1, <2>2, StepsUptoNext
  <2> QED
    BY <2>1, <2>3
<1>3. P = Nat
  <2> HIDE DEF P
  <2>1. P \in SUBSET Nat
    BY DEF P
  <2> QED
    BY <1>1, <1>2, <2>1, NatSetInduction
<1>4. PICK g : StepsUpto(s, Len(s), g)
  BY <1>3
<1>5. g = [n \in 0 .. Len(s) |-> Step(s, g, n)]
  BY <1>4 DEF StepsUpto
<1>6. Upto(s) = [n \in 0 .. Len(s) |-> Step(s, Upto(s), n)]
  BY <1>5, Zenon DEF Upto
<1> QED
  BY <1>6, Zenon

(* The first is empty; each is the one before, with the next answer.       *)
LEMMA UptoStep ==
  ASSUME NEW T, NEW s \in Seq(T)
  PROVE  /\ Upto(s)[0] = <<>>
         /\ \A n \in 1 .. Len(s) :
              Upto(s)[n] = IF IsBeat(s[n]) THEN Upto(s)[n - 1]
                           ELSE Append(Upto(s)[n - 1], s[n])
<1>1. Len(s) \in Nat
  OBVIOUS
<1>2. \A n \in 0 .. Len(s) : Upto(s)[n] = Step(s, Upto(s), n)
  BY <1>1, UptoDefined
<1>3. Upto(s)[0] = <<>>
  BY <1>1, <1>2 DEF Step
<1>4. ASSUME NEW n \in 1 .. Len(s)
      PROVE  Upto(s)[n] = IF IsBeat(s[n]) THEN Upto(s)[n - 1]
                          ELSE Append(Upto(s)[n - 1], s[n])
  <2>1. n \in 0 .. Len(s) /\ n # 0
    BY <1>1
  <2>2. Upto(s)[n] = Step(s, Upto(s), n)
    BY <1>2, <2>1
  <2> QED
    BY <2>1, <2>2 DEF Step
<1> QED
  BY <1>3, <1>4

(* They are sequences over the same set.                                   *)
LEMMA UptoType ==
  ASSUME NEW T, NEW s \in Seq(T), NEW n \in 0 .. Len(s)
  PROVE  Upto(s)[n] \in Seq(T)
<1> DEFINE P == {k \in Nat : k <= Len(s) => Upto(s)[k] \in Seq(T)}
<1>1. 0 \in P
  <2>1. Upto(s)[0] = <<>> /\ <<>> \in Seq(T)
    BY UptoStep, EmptySeq
  <2> QED
    BY <2>1
<1>2. ASSUME NEW k \in P
      PROVE  k + 1 \in P
  <2>1. SUFFICES ASSUME k + 1 <= Len(s)
                 PROVE  Upto(s)[k + 1] \in Seq(T)
    OBVIOUS
  <2>2. k \in Nat /\ k + 1 \in 1 .. Len(s) /\ (k + 1) - 1 = k
    BY <2>1
  <2>3. Upto(s)[k] \in Seq(T) /\ s[k + 1] \in T
    BY <2>1, <2>2
  <2>4. Upto(s)[k + 1] = IF IsBeat(s[k + 1]) THEN Upto(s)[k]
                         ELSE Append(Upto(s)[k], s[k + 1])
    BY <2>2, UptoStep
  <2> QED
    BY <2>3, <2>4
<1>3. P = Nat
  <2>1. P \in SUBSET Nat
    OBVIOUS
  <2> HIDE DEF P
  <2> QED
    BY <1>1, <1>2, <2>1, NatSetInduction
<1> QED
  BY <1>3

(* What follows the first k elements has no influence on them.             *)
LEMMA UptoPrefix ==
  ASSUME NEW T, NEW s \in Seq(T), NEW m \in T
  PROVE  Upto(Append(s, m))[Len(s)] = Upto(s)[Len(s)]
<1> DEFINE t == Append(s, m)
           P == {k \in Nat : k <= Len(s) => Upto(t)[k] = Upto(s)[k]}
<1>1. t \in Seq(T) /\ Len(t) = Len(s) + 1 /\ \A i \in 1 .. Len(s) : t[i] = s[i]
  OBVIOUS
<1> HIDE DEF t
<1>2. 0 \in P
  BY <1>1, UptoStep
<1>3. ASSUME NEW k \in P
      PROVE  k + 1 \in P
  <2>1. SUFFICES ASSUME k + 1 <= Len(s)
                 PROVE  Upto(t)[k + 1] = Upto(s)[k + 1]
    OBVIOUS
  <2>2. k \in Nat /\ k + 1 \in 1 .. Len(s) /\ k + 1 \in 1 .. Len(t)
    BY <1>1, <2>1
  <2>3. Upto(t)[k] = Upto(s)[k] /\ t[k + 1] = s[k + 1] /\ (k + 1) - 1 = k
    BY <1>1, <2>1, <2>2
  <2>4. Upto(s)[k + 1] = IF IsBeat(s[k + 1]) THEN Upto(s)[k]
                         ELSE Append(Upto(s)[k], s[k + 1])
    BY <2>2, <2>3, UptoStep
  <2>5. Upto(t)[k + 1] = IF IsBeat(t[k + 1]) THEN Upto(t)[k]
                         ELSE Append(Upto(t)[k], t[k + 1])
    BY <1>1, <2>2, <2>3, UptoStep
  <2> QED
    BY <2>3, <2>4, <2>5
<1>4. P = Nat
  <2>1. P \in SUBSET Nat
    OBVIOUS
  <2> HIDE DEF P
  <2> QED
    BY <1>2, <1>3, <2>1, NatSetInduction
<1> QED
  BY <1>4 DEF t

(* Without the first element, all that is missing is that element.         *)
LEMMA UptoTail ==
  ASSUME NEW T, NEW s \in Seq(T), s # <<>>, NEW pre \in Seq(T),
         pre = IF IsBeat(Head(s)) THEN <<>> ELSE <<Head(s)>>
  PROVE  Upto(s)[Len(s)] = pre \o Upto(Tail(s))[Len(Tail(s))]
<1> DEFINE t == Tail(s)
           Shift(k) == Upto(s)[k + 1] = pre \o Upto(t)[k]
           P == {k \in Nat : k <= Len(t) => Shift(k)}
<1>1. /\ t \in Seq(T) /\ Len(t) \in Nat /\ Len(s) = Len(t) + 1
      /\ Head(s) = s[1] /\ s[1] \in T
      /\ \A i \in 1 .. Len(t) : t[i] = s[i + 1]
  OBVIOUS
<1> HIDE DEF t
<1>2. Shift(0)
  <2>1. 1 \in 1 .. Len(s) /\ 1 - 1 = 0
    BY <1>1
  <2>2. Upto(s)[1] = IF IsBeat(s[1]) THEN <<>> ELSE Append(<<>>, s[1])
    BY <2>1, UptoStep
  <2>3. Upto(t)[0] = <<>>
    BY <1>1, UptoStep
  <2>4. Append(<<>>, s[1]) = <<s[1]>> /\ pre \o <<>> = pre
    BY <1>1
  <2>5. Upto(s)[1] = pre \o Upto(t)[0] /\ 0 + 1 = 1
    BY <1>1, <2>2, <2>3, <2>4
  <2> QED
    BY <2>5
<1>3. ASSUME NEW k \in Nat, k + 1 <= Len(t), Shift(k)
      PROVE  Shift(k + 1)
  <2>1. /\ k + 1 \in 1 .. Len(t) /\ k + 2 \in 1 .. Len(s) /\ k \in 0 .. Len(t)
        /\ (k + 1) - 1 = k /\ (k + 2) - 1 = k + 1 /\ (k + 1) + 1 = k + 2
    BY <1>1, <1>3
  <2>2. t[k + 1] = s[k + 2]
    BY <1>1, <2>1
  <2>3. Upto(t)[k] \in Seq(T) /\ t[k + 1] \in T
    BY <1>1, <2>1, UptoType
  <2>4. Upto(s)[k + 2] = IF IsBeat(s[k + 2]) THEN Upto(s)[k + 1]
                         ELSE Append(Upto(s)[k + 1], s[k + 2])
    BY <2>1, UptoStep
  <2>5. Upto(t)[k + 1] = IF IsBeat(t[k + 1]) THEN Upto(t)[k]
                         ELSE Append(Upto(t)[k], t[k + 1])
    BY <1>1, <2>1, UptoStep
  <2>6. Append(pre \o Upto(t)[k], t[k + 1]) = pre \o Append(Upto(t)[k], t[k + 1])
    <3> DEFINE u == Upto(t)[k]
               x == t[k + 1]
    <3>1. u \in Seq(T) /\ x \in T
      BY <2>3
    <3> HIDE DEF u, x
    <3>2. Append(pre \o u, x) = pre \o Append(u, x)
      BY <3>1
    <3> QED
      BY <3>2 DEF u, x
  <2>7. Upto(s)[k + 2] = pre \o Upto(t)[k + 1]
    BY <1>3, <2>2, <2>4, <2>5, <2>6
  <2> QED
    BY <2>1, <2>7
<1>4. P = Nat
  <2> HIDE DEF Shift
  <2>1. P \in SUBSET Nat /\ 0 \in P
    BY <1>2
  <2>2. \A k \in P : k + 1 \in P
    BY <1>1, <1>3
  <2> HIDE DEF P
  <2> QED
    BY <2>1, <2>2, NatSetInduction
<1>5. Shift(Len(t))
  <2> HIDE DEF Shift
  <2> QED
    BY <1>1, <1>4
<1> QED
  BY <1>1, <1>5 DEF t

(* The three facts about Answers that the proofs below use.                *)
LEMMA AnswersType ==
  ASSUME NEW T, NEW s \in Seq(T)
  PROVE  Answers(s) \in Seq(T)
<1>1. Len(s) \in 0 .. Len(s)
  OBVIOUS
<1> QED
  BY <1>1, AnswersAreUpto, UptoType

(* A message queued last is the last answer, unless it is a heartbeat.     *)
LEMMA AnswersOfAppend ==
  ASSUME NEW T, NEW s \in Seq(T), NEW m \in T
  PROVE  Answers(Append(s, m)) =
           IF IsBeat(m) THEN Answers(s) ELSE Append(Answers(s), m)
<1> DEFINE t == Append(s, m)
<1>1. /\ t \in Seq(T) /\ Len(t) = Len(s) + 1 /\ t[Len(t)] = m
      /\ Len(t) \in 1 .. Len(t) /\ Len(t) - 1 = Len(s)
  OBVIOUS
<1>2. Upto(t)[Len(s)] = Upto(s)[Len(s)]
  BY UptoPrefix
<1> HIDE DEF t
<1>3. Upto(t)[Len(t)] = IF IsBeat(m) THEN Upto(t)[Len(s)]
                        ELSE Append(Upto(t)[Len(s)], m)
  BY <1>1, UptoStep
<1> QED
  BY <1>2, <1>3, AnswersAreUpto DEF t

(* The message the writer takes is the first answer, or a heartbeat.       *)
LEMMA AnswersOfTail ==
  ASSUME NEW T, NEW s \in Seq(T), s # <<>>
  PROVE  Answers(s) = (IF IsBeat(Head(s)) THEN <<>> ELSE <<Head(s)>>)
                        \o Answers(Tail(s))
<1> DEFINE pre == IF IsBeat(Head(s)) THEN <<>> ELSE <<Head(s)>>
<1>1. pre \in Seq(T)
  OBVIOUS
<1> QED
  BY <1>1, UptoTail, AnswersAreUpto

----------------------------------------------------------------------------
(* Messages.                                                               *)

(* A message to the client is a command with its parameters or one of the  *)
(* gateway's own.                                                          *)
LEMMA CommandKinds ==
  ASSUME NEW m \in Commands
  PROVE  /\ m.kind \in {"DeployApplication", "StopApplication",
                        "RequestApplicationStatus", "RequestDeviceInfo"}
         /\ m.kind = "DeployApplication" => m.app \in Apps /\ m.module \in Modules
         /\ m.kind = "StopApplication" => m.app \in Apps
         /\ m.kind = "RequestApplicationStatus" =>
              m.of \subseteq Apps /\ IsFiniteSet(m.of)
<1>1. m.kind = "RequestApplicationStatus" =>
        m.of \subseteq Apps /\ (m.of = {} \/ \E a \in Apps : m.of = {a})
  BY DEF Commands, Msg
<1>2. IsFiniteSet({}) /\ \A a \in Apps : IsFiniteSet({a})
  BY FS_EmptySet, FS_Singleton
<1> QED
  BY <1>1, <1>2 DEF Commands, Msg

(* What the gateway sends is a command or a message of the enrolment.      *)
LEMMA ToClientKinds ==
  ASSUME NEW m \in ToClient
  PROVE  m \in Commands \/ m.kind \in {"EnrollmentAccepted", "EnrollmentRejected",
            "EnrollmentCompleted", "Challenge", "DeviceUuid", "HeartbeatAck"}
BY DEF ToClient, Msg

(* The parameters of the commands the client receives.                     *)
LEMMA ParametersOfCommands ==
  ASSUME NEW m \in ToClient
  PROVE  /\ m.kind = "DeployApplication" => m.app \in Apps /\ m.module \in Modules
         /\ m.kind = "StopApplication" => m.app \in Apps
         /\ m.kind = "RequestApplicationStatus" =>
              m.of \subseteq Apps /\ IsFiniteSet(m.of)
BY ToClientKinds, CommandKinds

(* An answer is no heartbeat; what else is in the channel is one.          *)
LEMMA AnswersAreNoBeats ==
  /\ \A m \in Answer : ~IsBeat(m)
  /\ IsBeat(Msg("Heartbeat"))
  /\ \A m \in ToWriter : IsBeat(m) \/ m \in Answer
BY DEF Answer, IsBeat, Msg, ToWriter

(* The answers are answers.                                                *)
LEMMA AnswersAreTyped ==
  /\ \A a \in Apps, success \in BOOLEAN :
       DeployAck(a, success) \in Answer /\ StopAck(a, success) \in Answer
  /\ \A a \in Apps : Status(a) \in Answer
  /\ Msg("DeviceInfo") \in Answer
BY DEF Answer, DeployAck, StopAck, Status, ApplicationStatus

(* Acknowledgments are the answers that say success.                       *)
LEMMA Acknowledgments ==
  /\ \A a \in Apps, success \in BOOLEAN :
       /\ "success" \in DOMAIN DeployAck(a, success)
       /\ DeployAck(a, success).app = a
       /\ DeployAck(a, success).kind = "ApplicationDeployAck"
       /\ DeployAck(a, success).success = success
       /\ "success" \in DOMAIN StopAck(a, success)
       /\ StopAck(a, success).app = a
       /\ StopAck(a, success).kind = "ApplicationStopAck"
  /\ \A a \in Apps : "success" \notin DOMAIN Status(a)
  /\ "success" \notin DOMAIN Msg("DeviceInfo")
BY DEF DeployAck, StopAck, Status, ApplicationStatus, Msg

----------------------------------------------------------------------------
(* The runner.                                                             *)

(* Tasks are numbered, handles are such numbers or none.                   *)
LEMMA TaskTypes ==
  ASSUME TypeOK
  PROVE  /\ DOMAIN task = 1 .. Len(task) /\ Len(task) \in Nat
         /\ handles \in [Apps -> DOMAIN task \cup {NoTask}]
         /\ NoTask \notin Nat
         /\ \A t \in DOMAIN task : task[t] \in Task /\ task[t].app \in Apps
<1>1. task \in Seq(Task) /\ handles \in [Apps -> DOMAIN task \cup {NoTask}]
  BY DEF TypeOK
<1>2. DOMAIN task = 1 .. Len(task) /\ Len(task) \in Nat
  BY <1>1
<1>3. \A t \in DOMAIN task : task[t] \in Task
  BY <1>1, <1>2
<1>4. \A t \in DOMAIN task : task[t].app \in Apps
  BY <1>3 DEF Task
<1> QED
  BY <1>1, <1>2, <1>3, <1>4, EdgeAssumption

(* Stopping an application drops its task if that has not started.         *)
LEMMA AfterStopFacts ==
  ASSUME TypeOK, NEW a \in Apps
  PROVE  /\ AfterStop(a) \in Seq(Task)
         /\ Len(AfterStop(a)) = Len(task)
         /\ \A t \in 1 .. Len(task) :
              /\ AfterStop(a)[t].app = task[t].app
              /\ AfterStop(a)[t].state =
                   IF t = handles[a] /\ task[t].state = "queued"
                   THEN "dropped" ELSE task[t].state
<1>1. /\ task \in Seq(Task) /\ DOMAIN task = 1 .. Len(task) /\ Len(task) \in Nat
      /\ handles[a] \in 1 .. Len(task) \cup {NoTask} /\ NoTask \notin Nat
  BY EdgeAssumption DEF TypeOK
<1>2. CASE handles[a] = NoTask
  <2>1. AfterStop(a) = task
    BY <1>2 DEF AfterStop, is_running
  <2> QED
    BY <1>1, <1>2, <2>1
<1>3. CASE handles[a] # NoTask /\ task[handles[a]].state # "queued"
  <2>1. AfterStop(a) = task
    BY <1>3 DEF AfterStop, Abort, is_running
  <2> QED
    BY <1>1, <1>3, <2>1
<1>4. CASE handles[a] # NoTask /\ task[handles[a]].state = "queued"
  <2> DEFINE h == handles[a]
             dropped == [task[h] EXCEPT !.state = "dropped"]
  <2>1. h \in 1 .. Len(task) /\ task[h] \in Task
    BY <1>1, <1>4
  <2>2. AfterStop(a) = [task EXCEPT ![h] = dropped]
    BY <1>4, <2>1 DEF AfterStop, Abort, is_running
  <2>3. dropped \in Task /\ dropped.app = task[h].app /\ dropped.state = "dropped"
    BY <2>1 DEF Task, States
  <2> HIDE DEF h, dropped
  <2>4. /\ AfterStop(a) \in Seq(Task) /\ Len(AfterStop(a)) = Len(task)
        /\ \A t \in 1 .. Len(task) :
             AfterStop(a)[t] = IF t = h THEN dropped ELSE task[t]
    BY <1>1, <2>1, <2>2, <2>3, ExceptSeq
  <2> QED
    BY <1>4, <2>3, <2>4 DEF h
<1> QED
  BY <1>2, <1>3, <1>4

(* stop() keeps the runner's types: tasks only change their state.         *)
LEMMA StopTypes ==
  ASSUME TypeOK, NEW a \in Apps, stop(a)
  PROVE  task' \in Seq(Task) /\ handles' \in [Apps -> DOMAIN task' \cup {NoTask}]
<1>1. /\ task' \in Seq(Task) /\ Len(task') = Len(task)
  BY AfterStopFacts DEF stop
<1>2. DOMAIN task' = DOMAIN task
  BY <1>1 DEF TypeOK
<1> QED
  BY <1>1, <1>2 DEF stop, TypeOK

(* deploy() keeps the runner's types: the new handle is the new task.      *)
LEMMA DeployTypes ==
  ASSUME TypeOK, NEW a \in Apps, deploy(a)
  PROVE  task' \in Seq(Task) /\ handles' \in [Apps -> DOMAIN task' \cup {NoTask}]
<1> DEFINE new == [app |-> a, state |-> "queued"]
<1>1. AfterStop(a) \in Seq(Task) /\ Len(AfterStop(a)) = Len(task) /\ new \in Task
  BY AfterStopFacts DEF Task, States
<1>2. task' = Append(AfterStop(a), new)
  BY DEF deploy
<1> HIDE DEF new
<1>3. task' \in Seq(Task) /\ Len(task') = Len(task) + 1
  BY <1>1, <1>2
<1>4. /\ DOMAIN task' = 1 .. Len(task) + 1 /\ DOMAIN task = 1 .. Len(task)
      /\ Len(task) \in Nat
  BY <1>3 DEF TypeOK
<1>5. handles' \in [Apps -> DOMAIN task' \cup {NoTask}]
  BY <1>4 DEF deploy, TypeOK
<1> QED
  BY <1>3, <1>5

(* Stopping or replacing keeps handles and tasks in agreement.             *)
LEMMA StopAgrees ==
  ASSUME TypeOK, HandlesAgree, NEW a \in Apps, stop(a), phase' = phase
  PROVE  HandlesAgree'
<1>1. /\ DOMAIN task = 1 .. Len(task) /\ handles \in [Apps -> DOMAIN task \cup {NoTask}]
      /\ NoTask \notin Nat /\ Len(task) \in Nat
      /\ \A t \in DOMAIN task : task[t].app \in Apps
  BY TaskTypes
<1>2. /\ DOMAIN task' = DOMAIN task
      /\ \A t \in DOMAIN task :
           /\ task'[t].app = task[t].app
           /\ task'[t].state = IF t = handles[a] /\ task[t].state = "queued"
                               THEN "dropped" ELSE task[t].state
  BY <1>1, AfterStopFacts DEF stop
<1>3. handles' = [handles EXCEPT ![a] = NoTask]
  BY DEF stop
<1>4. ASSUME NEW b \in Apps, handles'[b] # NoTask
      PROVE  /\ task'[handles'[b]].app = b
             /\ task'[handles'[b]].state # "dropped" \/ phase' = "gone"
             /\ \A t \in DOMAIN task' : task'[t].app = b => t <= handles'[b]
  <2>1. b # a /\ handles'[b] = handles[b] /\ handles[b] \in DOMAIN task
    BY <1>1, <1>3, <1>4
  <2>2. /\ task[handles[b]].app = b
        /\ task[handles[b]].state # "dropped" \/ phase = "gone"
        /\ \A t \in DOMAIN task : task[t].app = b => t <= handles[b]
    BY <1>4, <2>1 DEF HandlesAgree, is_running
  <2>3. handles[b] # handles[a]
    <3>1. CASE handles[a] = NoTask
      BY <1>4, <2>1, <3>1
    <3>2. CASE handles[a] # NoTask
      BY <2>1, <2>2, <3>2 DEF HandlesAgree, is_running
    <3> QED
      BY <3>1, <3>2
  <2> QED
    BY <1>2, <2>1, <2>2, <2>3
<1>5. ASSUME NEW t \in DOMAIN task', task'[t].state = "queued"
      PROVE  handles'[task'[t].app] = t
  <2>1. t \in DOMAIN task /\ task[t].state = "queued" /\ t # handles[a]
    BY <1>2, <1>5
  <2>2. handles[task[t].app] = t /\ task[t].app \in Apps
    BY <1>1, <2>1 DEF HandlesAgree
  <2>3. task[t].app # a
    BY <2>1, <2>2
  <2> QED
    BY <1>1, <1>2, <1>3, <2>1, <2>2, <2>3
<1> QED
  BY <1>4, <1>5 DEF HandlesAgree, is_running

(* deploy() keeps the handles in agreement: the task it adds is the newest *)
(* of its application, and the one it replaced no longer waits.            *)
LEMMA DeployAgrees ==
  ASSUME TypeOK, HandlesAgree, NEW a \in Apps, deploy(a), phase' = phase
  PROVE  HandlesAgree'
<1> DEFINE new == [app |-> a, state |-> "queued"]
           old == AfterStop(a)
           n == Len(task) + 1
<1>1. /\ DOMAIN task = 1 .. Len(task) /\ handles \in [Apps -> DOMAIN task \cup {NoTask}]
      /\ NoTask \notin Nat /\ Len(task) \in Nat
      /\ \A t \in DOMAIN task : task[t].app \in Apps
  BY TaskTypes
<1>2. /\ old \in Seq(Task) /\ Len(old) = Len(task)
      /\ \A t \in DOMAIN task :
           /\ old[t].app = task[t].app
           /\ old[t].state = IF t = handles[a] /\ task[t].state = "queued"
                             THEN "dropped" ELSE task[t].state
  BY <1>1, AfterStopFacts
<1>3. /\ task' = Append(old, new) /\ handles' = [handles EXCEPT ![a] = n]
  BY DEF deploy
<1> HIDE DEF old
<1>4. /\ DOMAIN task' = 1 .. n /\ task'[n] = new
      /\ \A t \in DOMAIN task : task'[t] = old[t]
  BY <1>1, <1>2, <1>3
<1>5. ASSUME NEW b \in Apps, handles'[b] # NoTask
      PROVE  /\ task'[handles'[b]].app = b
             /\ task'[handles'[b]].state # "dropped" \/ phase' = "gone"
             /\ \A t \in DOMAIN task' : task'[t].app = b => t <= handles'[b]
  <2>1. CASE b = a
    <3>1. handles'[b] = n
      BY <1>1, <1>3, <2>1
    <3> QED
      BY <1>1, <1>4, <2>1, <3>1
  <2>2. CASE b # a
    <3>1. handles'[b] = handles[b] /\ handles[b] \in DOMAIN task
      BY <1>1, <1>3, <1>5, <2>2
    <3>2. /\ task[handles[b]].app = b
          /\ task[handles[b]].state # "dropped" \/ phase = "gone"
          /\ \A t \in DOMAIN task : task[t].app = b => t <= handles[b]
      BY <1>5, <3>1 DEF HandlesAgree, is_running
    <3>3. handles[b] # handles[a]
      <4>1. CASE handles[a] = NoTask
        BY <1>5, <3>1, <4>1
      <4>2. CASE handles[a] # NoTask
        BY <2>2, <3>2, <4>2 DEF HandlesAgree, is_running
      <4> QED
        BY <4>1, <4>2
    <3>4. ASSUME NEW t \in DOMAIN task', task'[t].app = b
          PROVE  t \in DOMAIN task /\ task[t].app = b
      BY <1>1, <1>2, <1>4, <2>2, <3>4
    <3> QED
      BY <1>2, <1>4, <3>1, <3>2, <3>3, <3>4
  <2> QED
    BY <2>1, <2>2
<1>6. ASSUME NEW t \in DOMAIN task', task'[t].state = "queued"
      PROVE  handles'[task'[t].app] = t
  <2>1. CASE t = n
    BY <1>1, <1>3, <1>4, <2>1
  <2>2. CASE t # n
    <3>1. t \in DOMAIN task
      BY <1>1, <1>4, <2>2
    <3>2. task[t].state = "queued" /\ t # handles[a] /\ task'[t].app = task[t].app
      BY <1>2, <1>4, <1>6, <3>1
    <3>3. handles[task[t].app] = t /\ task[t].app \in Apps
      BY <1>1, <3>1, <3>2 DEF HandlesAgree
    <3> QED
      BY <1>1, <1>3, <3>2, <3>3
  <2> QED
    BY <2>1, <2>2
<1> QED
  BY <1>5, <1>6 DEF HandlesAgree, is_running

(* A task that starts, ends or is dropped with the process keeps its app.  *)
LEMMA TaskStepTypes ==
  ASSUME TypeOK, NEW t \in DOMAIN task, NEW state \in States,
         task' = [task EXCEPT ![t].state = state]
  PROVE  /\ task' \in Seq(Task) /\ DOMAIN task' = DOMAIN task
         /\ \A u \in DOMAIN task :
              /\ task'[u].app = task[u].app
              /\ task'[u].state = IF u = t THEN state ELSE task[u].state
<1>1. /\ task \in Seq(Task) /\ DOMAIN task = 1 .. Len(task) /\ Len(task) \in Nat
      /\ task[t] \in Task
  BY TaskTypes DEF TypeOK
<1> DEFINE new == [task[t] EXCEPT !.state = state]
<1>2. new \in Task /\ new.app = task[t].app /\ new.state = state
  BY <1>1 DEF Task
<1>3. task' = [task EXCEPT ![t] = new]
  BY <1>1
<1> HIDE DEF new
<1>4. /\ task' \in Seq(Task) /\ Len(task') = Len(task)
      /\ \A u \in 1 .. Len(task) : task'[u] = IF u = t THEN new ELSE task[u]
  BY <1>1, <1>2, <1>3, ExceptSeq
<1>5. DOMAIN task' = DOMAIN task
  BY <1>1, <1>4
<1> QED
  BY <1>1, <1>2, <1>4, <1>5

(* The end of the process leaves no task waiting.                          *)
LEMMA ProcessEndTypes ==
  ASSUME TypeOK, ProcessEnds
  PROVE  /\ task' \in Seq(Task) /\ DOMAIN task' = DOMAIN task
         /\ \A u \in DOMAIN task :
              task'[u].app = task[u].app /\ task'[u].state # "queued"
<1>1. /\ DOMAIN task = 1 .. Len(task) /\ Len(task) \in Nat
      /\ \A t \in DOMAIN task : task[t] \in Task
  BY TaskTypes
<1> DEFINE new(t) == IF task[t].state = "queued"
                     THEN [task[t] EXCEPT !.state = "dropped"] ELSE task[t]
<1>2. \A t \in DOMAIN task :
        new(t) \in Task /\ new(t).app = task[t].app /\ new(t).state # "queued"
  BY <1>1 DEF Task, States
<1>3. task' = [t \in DOMAIN task |-> new(t)]
  BY DEF ProcessEnds
<1> HIDE DEF new
<1>4. task' \in [1 .. Len(task) -> Task]
  BY <1>1, <1>2, <1>3
<1>5. task' \in Seq(Task)
  BY <1>1, <1>4, SeqDef
<1> QED
  BY <1>2, <1>3, <1>5

----------------------------------------------------------------------------
(* Types.                                                                  *)

(* The gateway's messages to the client.                                   *)
LEMMA ReplyTypes ==
  /\ \A kind \in {"EnrollmentAccepted", "EnrollmentRejected", "DeviceUuid",
                  "EnrollmentCompleted", "Challenge", "HeartbeatAck"} :
       Msg(kind) \in ToClient
  /\ \A m \in Offered : m \in ToClient
  /\ \A kind \in DOMAIN ReplyTo :
       ReplyTo[kind] \in {"EnrollmentAccepted", "EnrollmentCompleted",
                          "Challenge", "HeartbeatAck"}
BY EdgeAssumption DEF ToClient, ReplyTo

(* What the client writes itself.                                          *)
LEMMA WriteTypes ==
  \A kind \in {"EnrollmentRequest", "PublicKey", "ChallengeResponse",
               "EnrollmentAcknowledgment", "Heartbeat"} :
    Msg(kind) \in ToGateway
BY DEF ToGateway

(* A write to the gateway appends a message or gives the session up.       *)
LEMMA WriteStepTypes ==
  ASSUME TypeOK, NEW m \in ToGateway, NEW next \in Phases, Write(m, next)
  PROVE  up' \in Seq(ToGateway) /\ phase' \in Phases
<1>1. "exiting" \in Phases /\ up \in Seq(ToGateway)
  BY DEF Phases, TypeOK
<1>2. CASE link = "up"
  <2>1. up' = Append(up, m) /\ phase' = next
    BY <1>2 DEF Write
  <2> QED
    BY <1>1, <2>1
<1>3. CASE link # "up"
  BY <1>1, <1>3 DEF Write
<1> QED
  BY <1>2, <1>3

(* The gateway's actions.                                                  *)
LEMMA GatewayTypes ==
  ASSUME TypeOK, on_message \/ complete_enrollment \/ send_message_to_device
                 \/ on_connection_ready \/ DeployBinds
  PROVE  TypeOK'
<1>1. CASE on_message
  <2>1. up' \in Seq(ToGateway)
    BY <1>1 DEF on_message, TypeOK
  <2>2. down' \in Seq(ToClient)
    <3>1. CASE GwAnswers
      <4>1. PICK m \in ToClient : down' = Append(down, m)
        BY <3>1, ReplyTypes DEF GwAnswers, Reply
      <4> QED
        BY <4>1 DEF TypeOK
    <3>2. CASE GwRejects
      <4>1. PICK m \in ToClient : down' = Append(down, m)
        BY <3>2, ReplyTypes DEF GwRejects, Reply
      <4> QED
        BY <4>1 DEF TypeOK
    <3>3. CASE GwRecords \/ GwActivates
      BY <3>3 DEF GwRecords, GwActivates, TypeOK
    <3> QED
      BY <1>1, <3>1, <3>2, <3>3 DEF on_message
  <2>3. sender' \in Senders /\ gw' \in {"ready", "patching"} /\ commands' = commands
    BY <1>1 DEF on_message, GwAnswers, GwRecords, GwRejects, GwActivates,
                activate_device_sender, Senders, gwVars, TypeOK
  <2> QED
    BY <1>1, <2>1, <2>2, <2>3 DEF on_message, taskVars, runVars, TypeOK
<1>2. CASE complete_enrollment
  BY <1>2, ReplyTypes DEF complete_enrollment, Reply, taskVars, runVars, TypeOK
<1>3. CASE send_message_to_device
  <2>1. down' \in Seq(ToClient)
    BY <1>3, ReplyTypes DEF send_message_to_device, Reply, TypeOK
  <2>2. commands' \in 0 .. MaxCommands
    BY <1>3, EdgeAssumption DEF send_message_to_device, TypeOK
  <2> QED
    BY <1>3, <2>1, <2>2 DEF send_message_to_device, taskVars, runVars, TypeOK
<1>4. CASE on_connection_ready \/ DeployBinds
  <2>1. sender' \in Senders
    BY <1>4 DEF on_connection_ready, DeployBinds, Senders
  <2> QED
    BY <1>4, <2>1 DEF on_connection_ready, DeployBinds, taskVars, runVars, TypeOK
<1> QED
  BY <1>1, <1>2, <1>3, <1>4

(* The steps of the enrolment keep the types.                              *)
LEMMA EnrollTypes ==
  ASSUME TypeOK, Begin \/ enroll \/ ReadFails \/ LinkBreaks
  PROVE  TypeOK'
<1>1. CASE Begin
  <2>1. up' \in Seq(ToGateway) /\ phase' \in Phases
    <3>1. "accepted?" \in Phases
      BY DEF Phases, Enrolling
    <3> QED
      BY <1>1, <3>1, WriteTypes, WriteStepTypes DEF Begin
  <2> QED
    BY <1>1, <2>1 DEF Begin, gwVars, taskVars, runVars, TypeOK
<1>2. CASE enroll
  <2>1. up' \in Seq(ToGateway) /\ phase' \in Phases
    <3>1. CASE Oversized(Head(down))
      BY <1>2, <3>1 DEF enroll, TypeOK, Phases
    <3>2. CASE EnrollReads(Head(down).kind)
      <4>1. ASSUME NEW kind \in {"PublicKey", "ChallengeResponse",
                                 "EnrollmentAcknowledgment"},
                   NEW next \in Phases, Write(Msg(kind), next)
            PROVE  up' \in Seq(ToGateway) /\ phase' \in Phases
        BY <4>1, WriteTypes, WriteStepTypes
      <4>2. {"challenge?", "uuid?", "completed?", "running", "exiting"} \subseteq Phases
        BY DEF Phases, Enrolling
      <4> QED
        BY <3>2, <4>1, <4>2 DEF EnrollReads, TypeOK
    <3> QED
      BY <1>2, <3>1, <3>2 DEF enroll
  <2>2. down' \in Seq(ToClient)
    BY <1>2 DEF enroll, TypeOK
  <2>3. writer' \in BOOLEAN /\ beating' \in BOOLEAN
    BY <1>2 DEF enroll
  <2> QED
    BY <1>2, <2>1, <2>2, <2>3 DEF enroll, gwVars, runVars, TypeOK
<1>3. CASE ReadFails
  BY <1>3 DEF ReadFails, Phases, gwVars, taskVars, runVars, TypeOK
<1>4. CASE LinkBreaks
  BY <1>4 DEF LinkBreaks, gwVars, taskVars, runVars, TypeOK
<1> QED
  BY <1>1, <1>2, <1>3, <1>4

(* Finitely many applications have a handle: each has a task of its own.   *)
LEMMA RunningIsFinite ==
  ASSUME TypeOK, HandlesAgree
  PROVE  IsFiniteSet({a \in Apps : is_running(a)})
<1> DEFINE app == [t \in 1 .. Len(task) |-> task[t].app]
           S == {app[t] : t \in 1 .. Len(task)}
<1>1. IsFiniteSet(1 .. Len(task))
  BY TaskTypes, FS_Interval
<1>2. app \in Surjection(1 .. Len(task), S)
  BY DEF Surjection
<1>3. IsFiniteSet(S)
  <2> HIDE DEF app, S
  <2> QED
    BY <1>1, <1>2, FS_Surjection
<1>4. {a \in Apps : is_running(a)} \subseteq S
  BY TaskTypes DEF HandlesAgree, is_running
<1> QED
  BY <1>3, <1>4, FS_Subset

(* A command's answers are answers.                                        *)
LEMMA StatusTypes ==
  ASSUME TypeOK, HandlesAgree, RequestApplicationStatus
  PROVE  /\ pend' \in Seq(Answer)
         /\ \A i \in 1 .. Len(pend') : "success" \notin DOMAIN pend'[i]
<1>1. Head(down) \in ToClient
  BY DEF RequestApplicationStatus, LoopReads, TypeOK
<1>2. Head(down).of \subseteq Apps /\ IsFiniteSet(Head(down).of)
  BY <1>1, ParametersOfCommands DEF RequestApplicationStatus
<1>3. PICK ids \in SUBSET Apps :
        /\ IsFiniteSet(ids)
        /\ \E s \in Orders(ids) : pend' = [i \in DOMAIN s |-> Status(s[i])]
  BY <1>2, RunningIsFinite DEF RequestApplicationStatus
<1>4. PICK s \in Orders(ids) : pend' = [i \in DOMAIN s |-> Status(s[i])]
  BY <1>3
<1>5. s \in [1 .. Cardinality(ids) -> ids] /\ Cardinality(ids) \in Nat
  BY <1>3, <1>4, FS_CardinalityType DEF Orders
<1>6. \A i \in 1 .. Cardinality(ids) :
        pend'[i] \in Answer /\ "success" \notin DOMAIN pend'[i]
  BY <1>3, <1>4, <1>5, AnswersAreTyped, Acknowledgments
<1>7. pend' \in [1 .. Cardinality(ids) -> Answer]
  BY <1>4, <1>5, <1>6
<1>8. pend' \in Seq(Answer) /\ Len(pend') = Cardinality(ids)
  BY <1>5, <1>7, SeqDef
<1> QED
  BY <1>6, <1>8

(* What every iteration of the event loop keeps.                           *)
LEMMA LoopReadsTypes ==
  ASSUME TypeOK, LoopReads, pend' \in Seq(Answer), phase' \in Phases,
         task' \in Seq(Task), handles' \in [Apps -> DOMAIN task' \cup {NoTask}]
  PROVE  TypeOK'
<1>1. down' \in Seq(ToClient)
  BY DEF LoopReads, TypeOK
<1> QED
  BY <1>1 DEF LoopReads, gwVars, taskVars, TypeOK

(* The message that the loop reads.                                        *)
LEMMA LoopMessage ==
  ASSUME TypeOK, LoopReads
  PROVE  /\ Head(down) \in ToClient
         /\ Head(down).kind = "DeployApplication" =>
              Head(down).app \in Apps /\ Head(down).module \in Modules
         /\ Head(down).kind = "StopApplication" => Head(down).app \in Apps
<1>1. Head(down) \in ToClient
  BY DEF LoopReads, TypeOK
<1> QED
  BY <1>1, ParametersOfCommands

(* A sequence of one answer.                                               *)
LEMMA OneAnswer ==
  ASSUME NEW m \in Answer
  PROVE  <<m>> \in Seq(Answer) /\ Len(<<m>>) = 1 /\ <<m>>[1] = m
OBVIOUS

(* The command to deploy keeps the types.                                  *)
LEMMA DeployApplicationTypes ==
  ASSUME TypeOK, DeployApplication
  PROVE  TypeOK'
<1> DEFINE a == Head(down).app
<1>1. LoopReads /\ a \in Apps
  BY LoopMessage DEF DeployApplication
<1>2. phase' \in Phases
  BY DEF DeployApplication, TypeOK, Phases
<1>3. pend' \in Seq(Answer)
  <2>1. PICK m \in Answer : pend' = pend \/ pend' = <<m>>
    BY <1>1, AnswersAreTyped DEF DeployApplication
  <2> QED
    BY <2>1, OneAnswer DEF TypeOK
<1>4. task' \in Seq(Task) /\ handles' \in [Apps -> DOMAIN task' \cup {NoTask}]
  <2>1. CASE UNCHANGED runVars
    BY <2>1 DEF runVars, TypeOK
  <2>2. CASE stop(a)
    BY <1>1, <2>2, StopTypes
  <2>3. CASE deploy(a)
    BY <1>1, <2>3, DeployTypes
  <2> QED
    BY <2>1, <2>2, <2>3 DEF DeployApplication
<1> QED
  BY <1>1, <1>2, <1>3, <1>4, LoopReadsTypes

(* The command to stop keeps the types.                                    *)
LEMMA StopApplicationTypes ==
  ASSUME TypeOK, StopApplication
  PROVE  TypeOK'
<1> DEFINE a == Head(down).app
           m == StopAck(a, is_running(a))
<1>1. LoopReads /\ a \in Apps
  BY LoopMessage DEF StopApplication
<1>2. is_running(a) \in BOOLEAN
  BY DEF is_running
<1>3. m \in Answer
  <2> HIDE DEF a
  <2> QED
    BY <1>1, <1>2, AnswersAreTyped
<1>4. pend' = <<m>> /\ phase' = phase /\ stop(a)
  BY DEF StopApplication
<1> HIDE DEF m
<1>5. pend' \in Seq(Answer) /\ phase' \in Phases
  BY <1>3, <1>4 DEF TypeOK
<1>6. task' \in Seq(Task) /\ handles' \in [Apps -> DOMAIN task' \cup {NoTask}]
  BY <1>1, <1>4, StopTypes
<1> QED
  BY <1>1, <1>5, <1>6, LoopReadsTypes

(* The commands that only ask, and those ignored, keep the types; the      *)
(* report is finite because the handles it is made from agree.             *)
LEMMA OtherCommandsTypes ==
  ASSUME TypeOK, HandlesAgree,
         RequestApplicationStatus \/ RequestDeviceInfo \/ Ignored
  PROVE  TypeOK'
<1>1. LoopReads /\ UNCHANGED <<phase, runVars>>
  BY DEF RequestApplicationStatus, RequestDeviceInfo, Ignored
<1>2. pend' \in Seq(Answer)
  <2>1. CASE RequestApplicationStatus
    BY <2>1, StatusTypes
  <2>2. CASE RequestDeviceInfo
    BY <2>2, AnswersAreTyped, OneAnswer DEF RequestDeviceInfo
  <2>3. CASE Ignored
    BY <2>3 DEF Ignored, TypeOK
  <2> QED
    BY <2>1, <2>2, <2>3
<1> QED
  BY <1>1, <1>2, LoopReadsTypes DEF runVars, TypeOK

(* The channel never exceeds its capacity.                                 *)
LEMMA ChannelTypes ==
  ASSUME TypeOK, QueueAnswer \/ WriterSends \/ WriterFails \/ HeartbeatTick
  PROVE  TypeOK'
<1>1. /\ chan \in Seq(ToWriter) /\ pend \in Seq(Answer) /\ sent \in Seq(Answer)
      /\ up \in Seq(ToGateway) /\ Len(chan) <= ChanCap /\ ChanCap \in Nat
  BY EdgeAssumption DEF TypeOK
<1>2. Answer \subseteq ToWriter /\ ToWriter \subseteq ToGateway
  BY DEF ToWriter, ToGateway
<1>3. CASE QueueAnswer
  <2>1. pend # <<>> /\ Head(pend) \in ToWriter
    BY <1>1, <1>2, <1>3 DEF QueueAnswer
  <2>2. chan' \in Seq(ToWriter) /\ Len(chan') <= ChanCap
    <3>1. CASE chan' = Append(chan, Head(pend)) /\ Len(chan) < ChanCap
      BY <1>1, <2>1, <3>1
    <3>2. CASE chan' = chan
      BY <1>1, <3>2
    <3> QED
      BY <1>3, <3>1, <3>2 DEF QueueAnswer
  <2>3. pend' \in Seq(Answer)
    <3>1. Tail(pend) \in Seq(Answer) /\ <<>> \in Seq(Answer)
      BY <1>1, <2>1
    <3> QED
      BY <1>3, <3>1 DEF QueueAnswer
  <2>4. phase' \in Phases
    BY <1>3 DEF QueueAnswer, TypeOK, Phases
  <2> QED
    BY <1>3, <2>2, <2>3, <2>4 DEF QueueAnswer, gwVars, taskVars, runVars, TypeOK
<1>4. CASE WriterSends
  <2>1. chan # <<>> /\ Head(chan) \in ToWriter /\ Head(chan) \in ToGateway
    BY <1>1, <1>2, <1>4 DEF WriterSends
  <2>2. up' \in Seq(ToGateway)
    BY <1>1, <1>4, <2>1 DEF WriterSends
  <2>3. chan' \in Seq(ToWriter) /\ Len(chan') <= ChanCap
    BY <1>1, <1>4, <2>1 DEF WriterSends
  <2>4. sent' \in Seq(Answer)
    BY <1>1, <1>4, <2>1, AnswersAreNoBeats DEF WriterSends
  <2> QED
    BY <1>4, <2>2, <2>3, <2>4 DEF WriterSends, gwVars, taskVars, runVars, TypeOK
<1>5. CASE WriterFails
  <2>1. chan' = <<>> /\ writer' \in BOOLEAN
    BY <1>5 DEF WriterFails
  <2>2. <<>> \in Seq(ToWriter) /\ Len(<<>>) <= ChanCap
    BY <1>1
  <2> QED
    BY <1>5, <2>1, <2>2 DEF WriterFails, gwVars, runVars, TypeOK
<1>6. CASE HeartbeatTick
  <2>1. PICK m \in ToWriter : m = Msg("Heartbeat")
    BY DEF ToWriter
  <2>2. chan' \in Seq(ToWriter) /\ Len(chan') <= ChanCap
    <3>1. CASE chan' = Append(chan, m) /\ Len(chan) < ChanCap
      BY <1>1, <2>1, <3>1
    <3>2. CASE chan' = chan
      BY <1>1, <3>2
    <3> QED
      BY <1>6, <2>1, <3>1, <3>2 DEF HeartbeatTick
  <2>3. beating' \in BOOLEAN
    BY <1>6 DEF HeartbeatTick, TypeOK
  <2> QED
    BY <1>6, <2>2, <2>3 DEF HeartbeatTick, gwVars, runVars, TypeOK
<1> QED
  BY <1>3, <1>4, <1>5, <1>6

(* The end of the event loop, of the process and the steps of the tasks    *)
(* keep the types.                                                         *)
LEMMA ProcessTypes ==
  ASSUME TypeOK,
         \/ RunReturns \/ ProcessEnds
         \/ \E t \in DOMAIN task : TaskStarts(t) \/ TaskEnds(t)
  PROVE  TypeOK'
<1>1. CASE RunReturns
  BY <1>1 DEF RunReturns, Phases, gwVars, taskVars, runVars, TypeOK
<1>2. CASE ProcessEnds
  <2>1. task' \in Seq(Task) /\ DOMAIN task' = DOMAIN task
    BY <1>2, ProcessEndTypes
  <2> QED
    BY <1>2, <2>1 DEF ProcessEnds, Phases, gwVars, taskVars, TypeOK
<1>3. ASSUME NEW t \in DOMAIN task, TaskStarts(t) \/ TaskEnds(t)
      PROVE  TypeOK'
  <2>1. PICK state \in States : task' = [task EXCEPT ![t].state = state]
    BY <1>3 DEF TaskStarts, TaskEnds, States
  <2>2. task' \in Seq(Task) /\ DOMAIN task' = DOMAIN task
    BY <2>1, TaskStepTypes
  <2> QED
    BY <1>3, <2>2 DEF TaskStarts, TaskEnds, gwVars, taskVars, TypeOK
<1> QED
  BY <1>1, <1>2, <1>3

(* Every step keeps the types.                                             *)
LEMMA NextTypes ==
  ASSUME TypeOK, HandlesAgree, [Next]_vars
  PROVE  TypeOK'
<1>1. CASE UNCHANGED vars
  BY <1>1 DEF vars, TypeOK
<1> QED
  BY <1>1, GatewayTypes, EnrollTypes, DeployApplicationTypes,
     StopApplicationTypes, OtherCommandsTypes, ChannelTypes, ProcessTypes
     DEF Next, Gateway, EventLoop, Writer

----------------------------------------------------------------------------
(* Handles and tasks.                                                      *)

(* Steps that leave the runner alone.                                      *)
LEMMA SameRunner ==
  ASSUME HandlesAgree, UNCHANGED runVars, phase = "gone" => phase' = "gone"
  PROVE  HandlesAgree'
BY DEF HandlesAgree, runVars, is_running

(* The command to deploy runs deploy(), or refuses before it.              *)
LEMMA DeployApplicationAgrees ==
  ASSUME TypeOK, HandlesAgree, DeployApplication
  PROVE  HandlesAgree'
<1> DEFINE a == Head(down).app
<1>1. LoopReads /\ a \in Apps /\ phase # "gone"
  BY LoopMessage DEF DeployApplication, LoopReads
<1>2. CASE UNCHANGED runVars
  BY <1>1, <1>2, SameRunner
<1>3. CASE stop(a) /\ phase' = phase
  BY <1>1, <1>3, StopAgrees
<1>4. CASE deploy(a) /\ phase' = phase
  BY <1>1, <1>4, DeployAgrees
<1> QED
  BY <1>2, <1>3, <1>4 DEF DeployApplication

(* A task that starts or ends no longer waits.                             *)
LEMMA TaskAgrees ==
  ASSUME TypeOK, HandlesAgree, NEW t \in DOMAIN task, TaskStarts(t) \/ TaskEnds(t)
  PROVE  HandlesAgree'
<1>1. PICK state \in {"running", "done"} : task' = [task EXCEPT ![t].state = state]
  BY DEF TaskStarts, TaskEnds
<1>2. /\ DOMAIN task' = DOMAIN task
      /\ \A u \in DOMAIN task :
           /\ task'[u].app = task[u].app
           /\ task'[u].state = IF u = t THEN state ELSE task[u].state
  BY <1>1, TaskStepTypes DEF States
<1>3. UNCHANGED <<handles, phase>>
  BY DEF TaskStarts, TaskEnds
<1>4. \A a \in Apps : handles[a] # NoTask => handles[a] \in DOMAIN task
  BY TaskTypes
<1> QED
  BY <1>2, <1>3, <1>4 DEF HandlesAgree, is_running

(* After the end of the process no task waits.                             *)
LEMMA ProcessEndAgrees ==
  ASSUME TypeOK, HandlesAgree, ProcessEnds
  PROVE  HandlesAgree'
<1>1. /\ DOMAIN task' = DOMAIN task
      /\ \A u \in DOMAIN task : task'[u].app = task[u].app /\ task'[u].state # "queued"
  BY ProcessEndTypes
<1>2. handles' = handles /\ phase' = "gone"
  BY DEF ProcessEnds
<1>3. \A a \in Apps : handles[a] # NoTask => handles[a] \in DOMAIN task
  BY TaskTypes
<1> QED
  BY <1>1, <1>2, <1>3 DEF HandlesAgree, is_running

(* Every step keeps handles and tasks in agreement.                        *)
LEMMA NextAgrees ==
  ASSUME TypeOK, HandlesAgree, [Next]_vars
  PROVE  HandlesAgree'
<1>1. CASE UNCHANGED vars
  BY <1>1, SameRunner DEF vars, runVars
<1>2. CASE \/ Gateway \/ on_connection_ready \/ DeployBinds
           \/ send_message_to_device \/ LinkBreaks
  BY <1>2, SameRunner DEF Gateway, on_message, complete_enrollment,
     on_connection_ready, DeployBinds, send_message_to_device, LinkBreaks
<1>3. CASE Begin \/ enroll \/ ReadFails
  <2>1. UNCHANGED runVars /\ phase # "gone"
    BY <1>3 DEF Begin, enroll, ReadFails, Enrolling
  <2> QED
    BY <2>1, SameRunner
<1>4. CASE DeployApplication
  BY <1>4, DeployApplicationAgrees
<1>5. CASE StopApplication
  BY <1>5, LoopMessage, StopAgrees DEF StopApplication
<1>6. CASE RequestApplicationStatus \/ RequestDeviceInfo \/ Ignored \/ QueueAnswer
  <2>1. UNCHANGED runVars /\ phase # "gone"
    BY <1>6 DEF RequestApplicationStatus, RequestDeviceInfo, Ignored,
       QueueAnswer, LoopReads
  <2> QED
    BY <2>1, SameRunner
<1>7. CASE Writer \/ HeartbeatTick \/ RunReturns
  <2>1. UNCHANGED runVars /\ (phase = "gone" => phase' = "gone")
    BY <1>7 DEF Writer, WriterSends, WriterFails, HeartbeatTick, RunReturns
  <2> QED
    BY <2>1, SameRunner
<1>8. CASE ProcessEnds
  BY <1>8, ProcessEndAgrees
<1>9. ASSUME NEW t \in DOMAIN task, TaskStarts(t) \/ TaskEnds(t)
      PROVE  HandlesAgree'
  BY <1>9, TaskAgrees
<1> QED
  BY <1>1, <1>2, <1>3, <1>4, <1>5, <1>6, <1>7, <1>8, <1>9 DEF Next, EventLoop

----------------------------------------------------------------------------
(* Enrolment.                                                              *)

(* The sender was activated, or its activation came too early.             *)
Tried == sender \in {"active", "missed", "late"}

(* Before an activation no DeviceUuid is on the way.                       *)
Unannounced ==
  /\ phase \notin {"completed?", "running", "left"}
  /\ gw # "patching"
  /\ \A i \in DOMAIN down : down[i].kind # "DeviceUuid"

(* What EnrolledIsActive says, in those words.                             *)
LEMMA AnnouncedIsTried ==
  EnrolledIsActive <=>
    (Tried \/ Unannounced) /\ (phase \in Enrolling => ~writer /\ ~beating)
BY Zenon DEF EnrolledIsActive, Tried, Unannounced, active

(* The same of the next state.                                             *)
LEMMA AnnouncedIsTriedNext ==
  EnrolledIsActive' <=>
    (Tried' \/ Unannounced') /\ (phase' \in Enrolling => ~writer' /\ ~beating')
BY Zenon DEF EnrolledIsActive, Tried, Unannounced, active

(* No step takes an activation back.                                       *)
LEMMA TriedStays ==
  ASSUME [Next]_vars, Tried
  PROVE  Tried'
<1>1. sender' = sender \/ on_connection_ready \/ DeployBinds \/ GwActivates
  BY DEF Next, vars, Gateway, on_message, GwAnswers, GwRecords, GwRejects,
     complete_enrollment, send_message_to_device, LinkBreaks, Begin,
     enroll, ReadFails, EventLoop, DeployApplication, StopApplication,
     RequestApplicationStatus, RequestDeviceInfo, Ignored, LoopReads,
     QueueAnswer, Writer, WriterSends, WriterFails, HeartbeatTick, RunReturns,
     ProcessEnds, TaskStarts, TaskEnds, gwVars
<1> QED
  BY <1>1 DEF Tried, on_connection_ready, DeployBinds, GwActivates,
     activate_device_sender

(* The gateway announces the device once an activation was tried.          *)
LEMMA GatewayAnnounces ==
  ASSUME TypeOK, ~Tried, Unannounced,
         on_message \/ complete_enrollment \/ send_message_to_device
  PROVE  Tried' \/ Unannounced'
<1>1. on_message
  BY DEF complete_enrollment, send_message_to_device, active, Tried, Unannounced
<1>2. CASE GwActivates
  BY <1>2 DEF GwActivates, activate_device_sender, Tried, TypeOK, Senders
<1>3. CASE GwRecords
  BY <1>1, <1>3 DEF GwRecords, on_message, gwVars, Unannounced
<1>4. CASE GwAnswers \/ GwRejects
  <2>1. PICK kind : down' = Append(down, Msg(kind)) /\ kind # "DeviceUuid"
    BY <1>4, ReplyTypes DEF GwAnswers, GwRejects, Reply
  <2>2. Msg(kind).kind # "DeviceUuid"
    BY <2>1 DEF Msg
  <2>3. \A i \in DOMAIN down' : down'[i].kind # "DeviceUuid"
    <3> DEFINE m == Msg(kind)
    <3>1. down' = Append(down, m) /\ down \in Seq(ToClient) /\ m.kind # "DeviceUuid"
      BY <2>1, <2>2 DEF TypeOK
    <3> HIDE DEF m
    <3>2. DOMAIN down' = 1 .. Len(down) + 1 /\ down'[Len(down) + 1] = m
          /\ \A i \in 1 .. Len(down) : i \in DOMAIN down /\ down'[i] = down[i]
      BY <3>1
    <3>3. Len(down) \in Nat
      BY <3>1
    <3> QED
      BY <3>1, <3>2, <3>3 DEF Unannounced
  <2> QED
    BY <1>1, <1>4, <2>3 DEF GwAnswers, GwRejects, on_message, gwVars, Unannounced
<1> QED
  BY <1>1, <1>2, <1>3, <1>4 DEF on_message

(* Without a DeviceUuid the client does not come through.                  *)
LEMMA EnrollWaits ==
  ASSUME TypeOK, Unannounced, enroll
  PROVE  Unannounced'
<1>1. down \in Seq(ToClient) /\ down # <<>> /\ down' = Tail(down) /\ gw' = gw
  BY DEF TypeOK, enroll, gwVars
<1>2. \A i \in DOMAIN down' : down'[i].kind # "DeviceUuid"
  BY <1>1 DEF Unannounced
<1>3. Head(down).kind # "DeviceUuid" /\ phase # "completed?"
  BY <1>1 DEF Unannounced
<1>4. phase' \in {"challenge?", "uuid?", "exiting"}
  BY <1>3 DEF enroll, EnrollReads, Write
<1> QED
  BY <1>1, <1>2, <1>4 DEF Unannounced

(* The tasks are spawned when enrolment is over.                           *)
LEMMA TasksFollowEnrolment ==
  ASSUME EnrolledIsActive, [Next]_vars
  PROVE  phase' \in Enrolling => ~writer' /\ ~beating'
<1>1. CASE enroll
  BY <1>1 DEF enroll, Enrolling
<1>2. CASE Begin \/ ReadFails
  <2>1. phase \in Enrolling \/ phase = "running"
    BY <1>2 DEF Begin, ReadFails, Enrolling
  <2>2. CASE phase \in Enrolling
    BY <1>2, <2>2 DEF Begin, ReadFails, taskVars, EnrolledIsActive
  <2>3. CASE phase = "running"
    BY <1>2, <2>3 DEF Begin, ReadFails, Enrolling
  <2> QED
    BY <2>1, <2>2, <2>3
<1>3. CASE EventLoop \/ RunReturns \/ ProcessEnds
  <2>1. phase' \in {"running", "left", "exiting", "gone"}
    BY <1>3 DEF EventLoop, DeployApplication, StopApplication,
       RequestApplicationStatus, RequestDeviceInfo, Ignored, LoopReads,
       QueueAnswer, RunReturns, ProcessEnds
  <2> QED
    BY <2>1 DEF Enrolling
<1>4. CASE Writer \/ HeartbeatTick
  <2>1. /\ phase' = phase
        /\ writer' = writer \/ ~writer'
        /\ beating' = beating \/ ~beating'
    BY <1>4 DEF Writer, WriterSends, WriterFails, HeartbeatTick, taskVars
  <2> QED
    BY <2>1 DEF EnrolledIsActive
<1>5. CASE \/ UNCHANGED vars \/ Gateway \/ on_connection_ready \/ DeployBinds
           \/ send_message_to_device \/ LinkBreaks
           \/ \E t \in DOMAIN task : TaskStarts(t) \/ TaskEnds(t)
  <2>1. phase' = phase /\ UNCHANGED taskVars
    BY <1>5 DEF vars, taskVars, Gateway, on_message, complete_enrollment,
       on_connection_ready, DeployBinds, send_message_to_device, LinkBreaks, TaskStarts, TaskEnds
  <2> QED
    BY <2>1 DEF EnrolledIsActive, taskVars
<1> QED
  BY <1>1, <1>2, <1>3, <1>4, <1>5 DEF Next

(* Every step keeps it so.                                                 *)
LEMMA NextAnnounces ==
  ASSUME TypeOK, EnrolledIsActive, [Next]_vars
  PROVE  EnrolledIsActive'
<1>0. phase' \in Enrolling => ~writer' /\ ~beating'
  BY TasksFollowEnrolment
<1>1. CASE Tried
  BY <1>0, <1>1, TriedStays, AnnouncedIsTriedNext
<1>2. CASE ~Tried
  <2>1. Unannounced
    BY <1>2, AnnouncedIsTried
  <2>2. phase # "running" /\ phase # "left"
    BY <2>1 DEF Unannounced
  <2>3. CASE Gateway \/ send_message_to_device
    <3>1. Tried' \/ Unannounced'
      BY <1>2, <2>1, <2>3, GatewayAnnounces DEF Gateway
    <3> QED
      BY <1>0, <3>1, AnnouncedIsTriedNext
  <2>4. CASE enroll
    BY <1>0, <2>1, <2>4, EnrollWaits, AnnouncedIsTriedNext
  <2>5. CASE Begin \/ ReadFails
    <3>1. phase' \in {"accepted?", "exiting"} /\ UNCHANGED <<down, gwVars>>
      BY <2>2, <2>5 DEF Begin, Write, ReadFails
    <3> QED
      BY <1>0, <2>1, <3>1, AnnouncedIsTriedNext DEF Unannounced, gwVars
  <2>6. CASE EventLoop \/ RunReturns
    BY <2>2, <2>6 DEF EventLoop, DeployApplication, StopApplication,
       RequestApplicationStatus, RequestDeviceInfo, Ignored, LoopReads,
       QueueAnswer, RunReturns
  <2>7. CASE \/ UNCHANGED vars \/ on_connection_ready \/ DeployBinds \/ LinkBreaks \/ Writer \/ HeartbeatTick
             \/ ProcessEnds \/ \E t \in DOMAIN task : TaskStarts(t) \/ TaskEnds(t)
    <3>1. UNCHANGED <<down, gw>> /\ (phase' = phase \/ phase' = "gone")
      BY <2>7 DEF vars, gwVars, on_connection_ready, DeployBinds, LinkBreaks,
         Writer, WriterSends, WriterFails, HeartbeatTick, ProcessEnds,
         TaskStarts, TaskEnds
    <3> QED
      BY <1>0, <2>1, <3>1, AnnouncedIsTriedNext DEF Unannounced
  <2> QED
    BY <2>3, <2>4, <2>5, <2>6, <2>7 DEF Next
<1> QED
  BY <1>1, <1>2

----------------------------------------------------------------------------
(* Refinement: what is owed grows with the commands and is not changed by  *)
(* the way through channel and writer.                                     *)

(* What is owed, in parts.                                                 *)
LEMMA OwedTypes ==
  ASSUME TypeOK
  PROVE  /\ sent \in Seq(ToWriter) /\ pend \in Seq(ToWriter)
         /\ chan \in Seq(ToWriter) /\ Answers(chan) \in Seq(ToWriter)
         /\ Owed \in Seq(ToWriter)
<1>1. sent \in Seq(ToWriter) /\ pend \in Seq(ToWriter) /\ chan \in Seq(ToWriter)
  <2>1. Answer \subseteq ToWriter
    BY DEF ToWriter
  <2>2. sent \in Seq(Answer) /\ pend \in Seq(Answer) /\ chan \in Seq(ToWriter)
    BY DEF TypeOK
  <2> QED
    BY <2>1, <2>2, SeqMonotonic
<1>2. Answers(chan) \in Seq(ToWriter)
  BY <1>1, AnswersType
<1> QED
  BY <1>1, <1>2, ConcatProperties DEF Owed

(* Steps that touch no answer: nothing happens, or the session closes.     *)
LEMMA QuietSteps ==
  ASSUME UNCHANGED <<chan, pend, sent>>, Open' => Open
  PROVE  /\ [Replies!Next]_(Replies!vars)
         /\ Open' => Owed' = Owed
<1>1. CASE Open <=> Open'
  <2>1. Owed' = Owed /\ Open' = Open
    BY <1>1 DEF Owed
  <2> QED
    BY <2>1 DEF Replies!vars
<1>2. CASE Open /\ ~Open'
  <2>1. Owed' = sent
    BY <1>2 DEF Owed
  <2>2. Open' = FALSE
    BY <1>2
  <2> QED
    BY <1>2, <2>1, <2>2 DEF Replies!Next, Replies!Close
<1> QED
  BY <1>1, <1>2

(* A command: its answers come after all the others.                       *)
LEMMA CommandSteps ==
  ASSUME TypeOK, LoopReads, pend' \in Seq(Answer), phase' \notin Enrolling
  PROVE  /\ [Replies!Next]_(Replies!vars)
         /\ Open' = Open
         /\ Open => Owed' = Owed \o pend'
<1>1. pend = <<>> /\ UNCHANGED <<chan, sent, writer>> /\ phase \notin Enrolling
  BY DEF LoopReads, Enrolling, taskVars
<1>2. Open' = Open
  BY <1>1 DEF Open
<1>3. pend' \in Seq(ToWriter)
  <2>1. Answer \subseteq ToWriter
    BY DEF ToWriter
  <2> QED
    BY <2>1, SeqMonotonic
<1>4. ASSUME Open
      PROVE  Owed' = Owed \o pend'
  <2> DEFINE o == sent \o Answers(chan)
  <2>1. o \in Seq(ToWriter)
    BY OwedTypes, ConcatProperties
  <2>2. Owed = o \o <<>> /\ Owed' = o \o pend'
    BY <1>1, <1>2, <1>4 DEF Owed
  <2> QED
    BY <2>1, <2>2, ConcatEmptySeq
<1>5. CASE Open /\ pend' # <<>>
  <2> DEFINE o == Owed
             n == Owed'
  <2>1. n = o \o pend' /\ o \in Seq(ToWriter)
    BY <1>4, <1>5, OwedTypes
  <2> HIDE DEF o, n
  <2>2. Len(n) > Len(o) /\ SubSeq(n, 1, Len(o)) = o
    BY <1>3, <1>5, <2>1
  <2>3. Replies!CarryOut
    BY <1>1, <1>2, <1>5, <2>2 DEF Replies!CarryOut, o, n
  <2> QED
    BY <1>2, <1>4, <2>3 DEF Replies!Next
<1>6. CASE Open /\ pend' = <<>>
  <2>1. Owed' = Owed
    BY <1>4, <1>6, OwedTypes, ConcatEmptySeq
  <2> QED
    BY <1>1, <1>2, <1>4, <2>1 DEF Replies!vars
<1>7. CASE ~Open
  <2>1. Owed' = Owed
    BY <1>1, <1>2, <1>7 DEF Owed
  <2> QED
    BY <1>1, <1>2, <1>4, <2>1 DEF Replies!vars
<1> QED
  BY <1>2, <1>4, <1>5, <1>6, <1>7

(* An answer, or a heartbeat, goes into the channel.                       *)
LEMMA QueueSteps ==
  ASSUME TypeOK, EnrolledIsActive, QueueAnswer \/ HeartbeatTick
  PROVE  UNCHANGED <<Owed, sent, Open>>
<1>1. CASE QueueAnswer /\ writer
  <2>1. /\ pend # <<>> /\ chan' = Append(chan, Head(pend)) /\ pend' = Tail(pend)
        /\ UNCHANGED <<sent, phase, writer>>
    BY <1>1 DEF QueueAnswer, taskVars
  <2>2. Head(pend) \in Answer /\ Head(pend) \in ToWriter /\ ~IsBeat(Head(pend))
    BY <2>1, AnswersAreNoBeats DEF TypeOK, ToWriter
  <2>3. Answers(chan') = Append(Answers(chan), Head(pend))
    BY <2>1, <2>2, OwedTypes, AnswersOfAppend
  <2>4. sent \o Append(Answers(chan), Head(pend)) \o Tail(pend)
          = sent \o Answers(chan) \o pend
    <3> DEFINE c == Answers(chan)
               m == Head(pend)
    <3>1. c \in Seq(ToWriter) /\ m \in ToWriter /\ sent \in Seq(ToWriter)
      BY <2>2, OwedTypes
    <3>2. Append(sent \o c, m) = sent \o Append(c, m)
      <4> HIDE DEF c, m
      <4> QED
        BY <3>1
    <3> HIDE DEF c
    <3>3. sent \o c \in Seq(ToWriter)
      BY <3>1, OwedTypes, ConcatProperties
    <3>4. Append(sent \o c, Head(pend)) \o Tail(pend) = (sent \o c) \o pend
      BY <2>1, <3>3, OwedTypes, AppendHeadTail
    <3> QED
      BY <3>2, <3>4 DEF c
  <2>5. Open' = Open
    BY <2>1 DEF Open
  <2> QED
    BY <1>1, <2>1, <2>3, <2>4, <2>5 DEF Owed, Open
<1>2. CASE HeartbeatTick /\ writer
  <2>1. chan' = Append(chan, Msg("Heartbeat")) /\ UNCHANGED <<pend, sent, phase, writer>>
    BY <1>2 DEF HeartbeatTick
  <2>2. Answers(chan') = Answers(chan)
    <3>1. Msg("Heartbeat") \in ToWriter
      BY DEF ToWriter
    <3> QED
      BY <2>1, <3>1, OwedTypes, AnswersAreNoBeats, AnswersOfAppend
  <2>3. Open' = Open
    BY <2>1 DEF Open
  <2> QED
    BY <2>1, <2>2, <2>3 DEF Owed
<1>3. CASE QueueAnswer /\ ~writer
  <2>1. phase = "running" /\ phase' = "left" /\ UNCHANGED <<sent, writer>>
    BY <1>3 DEF QueueAnswer, taskVars
  <2>2. Open = FALSE /\ Open' = FALSE
    BY <1>3, <2>1 DEF Open, Enrolling
  <2> QED
    BY <2>1, <2>2 DEF Owed
<1>4. CASE HeartbeatTick /\ ~writer
  <2>1. UNCHANGED <<chan, pend, sent, phase, writer>>
    BY <1>4 DEF HeartbeatTick
  <2>2. Open' = Open
    BY <2>1 DEF Open
  <2> QED
    BY <2>1, <2>2 DEF Owed
<1> QED
  BY <1>1, <1>2, <1>3, <1>4

(* The writer passes on what is next, and takes the rest with it when it   *)
(* fails.                                                                  *)
LEMMA WriterSteps ==
  ASSUME TypeOK, EnrolledIsActive, WriterSends \/ WriterFails
  PROVE  /\ [Replies!Next]_(Replies!vars)
         /\ Open' => Open /\ Owed' = Owed
<1>1. writer /\ chan # <<>> /\ phase' = phase /\ phase \notin Enrolling
  BY DEF WriterSends, WriterFails, EnrolledIsActive
<1>2. Open /\ Owed = sent \o Answers(chan) \o pend
  BY <1>1 DEF Open, Owed
<1> DEFINE m == Head(chan)
           r == Answers(Tail(chan))
<1>3. m \in ToWriter /\ r \in Seq(ToWriter) /\ Tail(chan) \in Seq(ToWriter)
  <2>1. m \in ToWriter /\ Tail(chan) \in Seq(ToWriter)
    BY <1>1, OwedTypes
  <2> QED
    BY <2>1, AnswersType
<1>4. Answers(chan) = (IF IsBeat(m) THEN <<>> ELSE <<m>>) \o r
  BY <1>1, OwedTypes, AnswersOfTail
<1>5. CASE WriterFails
  <2>1. ~Open' /\ sent' = sent
    BY <1>1, <1>5 DEF WriterFails, Open
  <2>2. Open' = FALSE /\ Owed' = sent
    BY <2>1 DEF Owed
  <2> QED
    BY <1>2, <2>1, <2>2 DEF Replies!Next, Replies!Close
<1>6. CASE WriterSends
  <2>1. /\ chan' = Tail(chan) /\ UNCHANGED <<pend, writer>>
        /\ sent' = IF IsBeat(m) THEN sent ELSE Append(sent, m)
    BY <1>6 DEF WriterSends, taskVars
  <2>2. Open' /\ Open' = Open
    BY <1>1, <1>2, <2>1 DEF Open
  <2>3. Owed' = sent' \o r \o pend
    BY <2>1, <2>2 DEF Owed
  <2>4. sent \in Seq(ToWriter) /\ pend \in Seq(ToWriter)
    BY OwedTypes
  <2> HIDE DEF m, r
  <2>5. CASE IsBeat(m)
    <3>1. Answers(chan) = r
      BY <1>3, <1>4, <2>5, ConcatEmptySeq
    <3>2. Owed' = Owed /\ sent' = sent
      BY <1>2, <2>1, <2>3, <2>5, <3>1
    <3> QED
      BY <1>2, <2>2, <3>2 DEF Replies!vars
  <2>6. CASE ~IsBeat(m)
    <3>1. Answers(chan) = <<m>> \o r /\ sent' = Append(sent, m)
      BY <1>4, <2>1, <2>6
    <3>2. /\ sent \o (<<m>> \o r) = Append(sent, m) \o r
          /\ Len(sent) < Len(sent \o (<<m>> \o r) \o pend)
          /\ (sent \o (<<m>> \o r) \o pend)[Len(sent) + 1] = m
      BY <1>3, <2>4
    <3>3. Owed' = Owed
      BY <1>2, <2>3, <3>1, <3>2
    <3>4. Len(sent) < Len(Owed) /\ Owed[Len(sent) + 1] = m
      BY <1>2, <3>1, <3>2
    <3>5. Replies!Emit
      BY <1>2, <2>2, <3>1, <3>3, <3>4 DEF Replies!Emit
    <3> QED
      BY <1>2, <3>3, <3>5 DEF Replies!Next
  <2> QED
    BY <2>5, <2>6
<1> QED
  BY <1>5, <1>6

----------------------------------------------------------------------------
(* Acknowledgments.                                                        *)

(* The acknowledgments about an application among o, and what the last one *)
(* says of the handles h.                                                  *)
Acks(o, a) == {i \in DOMAIN o : "success" \in DOMAIN o[i] /\ o[i].app = a}

AckHolds(o, h, a, i) ==
  (\A j \in Acks(o, a) : j <= i) =>
     /\ o[i] = DeployAck(a, TRUE) => h[a] # NoTask
     /\ o[i].kind = "ApplicationStopAck" => ~(h[a] # NoTask)

AcksHold(o, h) == \A a \in Apps : \A i \in Acks(o, a) : AckHolds(o, h, a, i)

(* LastAckHolds in the terms of the lemmas below, now and next.            *)
LEMMA AcksHoldDef ==
  /\ LastAckHolds <=> (Open => AcksHold(Owed, handles))
  /\ LastAckHolds' <=> (Open' => AcksHold(Owed', handles'))
BY DEF LastAckHolds, AcksHold, AckHolds, Acks, About, is_running

(* Answers that acknowledge nothing.                                       *)
LEMMA OtherAnswersFollow ==
  ASSUME NEW o \in Seq(ToWriter), NEW p \in Seq(ToWriter), NEW h,
         \A i \in 1 .. Len(p) : "success" \notin DOMAIN p[i],
         AcksHold(o, h)
  PROVE  AcksHold(o \o p, h)
<1> DEFINE n == o \o p
<1>1. /\ DOMAIN n = 1 .. Len(o) + Len(p) /\ DOMAIN o = 1 .. Len(o)
      /\ Len(o) \in Nat /\ Len(p) \in Nat
      /\ \A i \in 1 .. Len(o) : n[i] = o[i]
      /\ \A i \in Len(o) + 1 .. Len(o) + Len(p) : n[i] = p[i - Len(o)]
  OBVIOUS
<1> HIDE DEF n
<1>2. ASSUME NEW i \in DOMAIN n, "success" \in DOMAIN n[i]
      PROVE  i \in DOMAIN o
  <2>1. CASE i \in Len(o) + 1 .. Len(o) + Len(p)
    <3>1. n[i] = p[i - Len(o)] /\ i - Len(o) \in 1 .. Len(p)
      BY <1>1, <2>1
    <3> QED
      BY <1>2, <3>1
  <2> QED
    BY <1>1, <2>1
<1>3. ASSUME NEW a \in Apps
      PROVE  Acks(n, a) = Acks(o, a)
  BY <1>1, <1>2 DEF Acks
<1>4. ASSUME NEW a \in Apps, NEW i \in Acks(n, a)
      PROVE  AckHolds(n, h, a, i)
  <2>1. i \in Acks(o, a) /\ n[i] = o[i]
    BY <1>1, <1>3, <1>4 DEF Acks
  <2> QED
    BY <1>3, <2>1 DEF AcksHold, AckHolds
<1> QED
  BY <1>4 DEF AcksHold, n

(* An acknowledgment about a, with handles h before and k after it, is     *)
(* right about its own application and silent about the others.            *)
Acknowledges(m, a, h, k) ==
  /\ "success" \in DOMAIN m /\ m.app = a
  /\ \A b \in Apps : b # a => k[b] = h[b]
  /\ m = DeployAck(a, TRUE) => k[a] # NoTask
  /\ m.kind = "ApplicationStopAck" => k[a] = NoTask

(* An acknowledgment of what was just done to one application, appended to *)
(* acknowledgments that held, leaves all of them holding.                  *)
LEMMA AcknowledgmentFollows ==
  ASSUME NEW o \in Seq(ToWriter), NEW m \in ToWriter, NEW a \in Apps,
         NEW h, NEW k, NEW n, n = o \o <<m>>,
         AcksHold(o, h), Acknowledges(m, a, h, k)
  PROVE  AcksHold(n, k)
<1> DEFINE e == Len(o) + 1
<1>1. /\ DOMAIN n = 1 .. e /\ DOMAIN o = 1 .. Len(o) /\ Len(o) \in Nat
      /\ \A i \in 1 .. Len(o) : n[i] = o[i]
      /\ n[e] = m
  OBVIOUS
<1>2. ASSUME NEW i \in Acks(n, a)
      PROVE  AckHolds(n, k, a, i)
  <2>1. e \in Acks(n, a)
    BY <1>1 DEF Acks, Acknowledges
  <2>2. SUFFICES ASSUME e <= i
                 PROVE  AckHolds(n, k, a, i)
    BY <2>1 DEF AckHolds
  <2>3. i = e
    BY <1>1, <2>2 DEF Acks
  <2> QED
    BY <1>1, <2>3 DEF AckHolds, Acknowledges
<1>3. ASSUME NEW b \in Apps, b # a, NEW i \in Acks(n, b)
      PROVE  AckHolds(n, k, b, i)
  <2>1. Acks(n, b) = Acks(o, b)
    BY <1>1, <1>3 DEF Acks, Acknowledges
  <2>2. i \in Acks(o, b) /\ n[i] = o[i]
    BY <1>1, <2>1 DEF Acks
  <2>3. AckHolds(o, h, b, i)
    BY <2>2 DEF AcksHold
  <2> QED
    BY <1>3, <2>1, <2>2, <2>3 DEF AckHolds, Acknowledges
<1> QED
  BY <1>2, <1>3 DEF AcksHold

(* A deploy or a stop acknowledges what it has done to the runner.         *)
LEMMA AcknowledgedCommand ==
  ASSUME TypeOK, LastAckHolds, LoopReads, phase' \notin Enrolling,
         NEW a \in Apps, NEW m \in Answer, pend' = <<m>>,
         Acknowledges(m, a, handles, handles')
  PROVE  LastAckHolds'
<1>1. Open' = Open /\ (Open => Owed' = Owed \o <<m>>)
  BY CommandSteps, OneAnswer
<1>2. CASE Open
  <2>1. AcksHold(Owed, handles) /\ Owed \in Seq(ToWriter) /\ m \in ToWriter
    BY <1>2, AcksHoldDef, OwedTypes DEF ToWriter
  <2>2. AcksHold(Owed', handles')
    BY <1>1, <1>2, <2>1, AcknowledgmentFollows
  <2> QED
    BY <1>1, <1>2, <2>2, AcksHoldDef
<1>3. CASE ~Open
  BY <1>1, <1>3 DEF LastAckHolds
<1> QED
  BY <1>2, <1>3

(* The other commands say nothing about it and leave the runner alone.     *)
LEMMA UnacknowledgedCommand ==
  ASSUME TypeOK, LastAckHolds, LoopReads, phase' \notin Enrolling,
         pend' \in Seq(Answer), handles' = handles,
         \A i \in 1 .. Len(pend') : "success" \notin DOMAIN pend'[i]
  PROVE  LastAckHolds'
<1>1. Open' = Open /\ (Open => Owed' = Owed \o pend')
  BY CommandSteps
<1>2. CASE Open
  <2>1. /\ AcksHold(Owed, handles) /\ Owed \in Seq(ToWriter)
        /\ pend' \in Seq(ToWriter)
    <3>1. Answer \subseteq ToWriter
      BY DEF ToWriter
    <3> QED
      BY <1>2, <3>1, AcksHoldDef, OwedTypes, SeqMonotonic
  <2>2. AcksHold(Owed \o pend', handles)
    BY <2>1, OtherAnswersFollow
  <2> QED
    BY <1>1, <1>2, <2>2, AcksHoldDef
<1>3. CASE ~Open
  BY <1>1, <1>3 DEF LastAckHolds
<1> QED
  BY <1>2, <1>3

(* Steps that change neither what is owed nor the handles.                 *)
LEMMA SameAcks ==
  ASSUME LastAckHolds, Open' => Open /\ Owed' = Owed, handles' = handles
  PROVE  LastAckHolds'
BY AcksHoldDef

(* The command to deploy is a command of CommandReplies, and its answer    *)
(* acknowledges what deploy() left.                                        *)
LEMMA DeployAcknowledged ==
  ASSUME TypeOK, LastAckHolds, DeployApplication
  PROVE  /\ [Replies!Next]_(Replies!vars)
         /\ LastAckHolds'
<1> DEFINE a == Head(down).app
           Refused == DeployAck(a, FALSE)
           Accepted == DeployAck(a, TRUE)
<1>1. LoopReads /\ a \in Apps
  BY LoopMessage DEF DeployApplication
<1>2. phase = "running" /\ phase' \in {"running", "left"}
  BY DEF DeployApplication, LoopReads
<1>3. phase' \notin Enrolling
  BY <1>2 DEF Enrolling
<1>4. handles \in [Apps -> DOMAIN task \cup {NoTask}] /\ Len(task) + 1 # NoTask
  BY TaskTypes
<1>5. Refused \in Answer /\ Accepted \in Answer /\ Refused # Accepted
  BY <1>1, AnswersAreTyped, Acknowledgments
<1>6. /\ "success" \in DOMAIN Refused /\ Refused.app = a
      /\ Refused.kind # "ApplicationStopAck"
      /\ "success" \in DOMAIN Accepted /\ Accepted.app = a
      /\ Accepted.kind # "ApplicationStopAck"
  BY <1>1, Acknowledgments
<1>7. CASE UNCHANGED <<pend, runVars>>
  <2>1. pend' \in Seq(Answer) /\ pend' = <<>> /\ handles' = handles
    BY <1>1, <1>7 DEF LoopReads, runVars, TypeOK
  <2>2. \A i \in 1 .. Len(pend') : "success" \notin DOMAIN pend'[i]
    BY <2>1
  <2> QED
    BY <1>1, <1>3, <2>1, <2>2, CommandSteps, UnacknowledgedCommand
<1>8. CASE pend' = <<Refused>> /\ UNCHANGED runVars
  <2>1. Acknowledges(Refused, a, handles, handles')
    BY <1>5, <1>6, <1>8 DEF Acknowledges, runVars
  <2>2. pend' \in Seq(Answer)
    BY <1>5, <1>8, OneAnswer
  <2> QED
    BY <1>1, <1>3, <1>5, <1>8, <2>1, <2>2, CommandSteps, AcknowledgedCommand
<1>9. CASE pend' = <<Refused>> /\ stop(a)
  <2>1. Acknowledges(Refused, a, handles, handles')
    BY <1>1, <1>4, <1>5, <1>6, <1>9 DEF Acknowledges, stop
  <2>2. pend' \in Seq(Answer)
    BY <1>5, <1>9, OneAnswer
  <2> QED
    BY <1>1, <1>3, <1>5, <1>9, <2>1, <2>2, CommandSteps, AcknowledgedCommand
<1>10. CASE pend' = <<Accepted>> /\ deploy(a)
  <2>1. Acknowledges(Accepted, a, handles, handles')
    BY <1>1, <1>4, <1>6, <1>10 DEF Acknowledges, deploy
  <2>2. pend' \in Seq(Answer)
    BY <1>5, <1>10, OneAnswer
  <2> QED
    BY <1>1, <1>3, <1>5, <1>10, <2>1, <2>2, CommandSteps, AcknowledgedCommand
<1> QED
  BY <1>7, <1>8, <1>9, <1>10 DEF DeployApplication

(* The command to stop is a command of CommandReplies, and its answer      *)
(* acknowledges what stop() left.                                          *)
LEMMA StopAcknowledged ==
  ASSUME TypeOK, LastAckHolds, StopApplication
  PROVE  /\ [Replies!Next]_(Replies!vars)
         /\ LastAckHolds'
<1> DEFINE a == Head(down).app
           ack == StopAck(a, is_running(a))
<1>1. LoopReads /\ a \in Apps
  BY LoopMessage DEF StopApplication
<1>2. phase' \notin Enrolling
  BY DEF StopApplication, LoopReads, Enrolling
<1>3. is_running(a) \in BOOLEAN
  BY DEF is_running
<1>4. handles \in [Apps -> DOMAIN task \cup {NoTask}]
  BY TaskTypes
<1>5. /\ ack \in Answer /\ "success" \in DOMAIN ack /\ ack.app = a
      /\ ack.kind = "ApplicationStopAck"
  <2> HIDE DEF a
  <2> QED
    BY <1>1, <1>3, AnswersAreTyped, Acknowledgments
<1>6. ack # DeployAck(a, TRUE)
  BY <1>1, <1>5, Acknowledgments
<1>7. pend' = <<ack>> /\ stop(a)
  BY DEF StopApplication
<1>8. Acknowledges(ack, a, handles, handles')
  <2> HIDE DEF ack
  <2> QED
    BY <1>1, <1>4, <1>5, <1>6, <1>7 DEF Acknowledges, stop
<1> HIDE DEF ack
<1>9. pend' \in Seq(Answer)
  BY <1>5, <1>7, OneAnswer
<1> QED
  BY <1>1, <1>2, <1>5, <1>7, <1>8, <1>9, CommandSteps, AcknowledgedCommand

(* The other commands are commands of CommandReplies whose answers         *)
(* acknowledge nothing, and leave the runner alone.                        *)
LEMMA OthersUnacknowledged ==
  ASSUME TypeOK, HandlesAgree, LastAckHolds,
         RequestApplicationStatus \/ RequestDeviceInfo \/ Ignored
  PROVE  /\ [Replies!Next]_(Replies!vars)
         /\ LastAckHolds'
<1>1. LoopReads /\ phase' \notin Enrolling /\ handles' = handles
  BY DEF RequestApplicationStatus, RequestDeviceInfo, Ignored, LoopReads,
     Enrolling, runVars
<1>2. /\ pend' \in Seq(Answer)
      /\ \A i \in 1 .. Len(pend') : "success" \notin DOMAIN pend'[i]
  <2>1. CASE RequestApplicationStatus
    BY <2>1, StatusTypes
  <2>2. CASE RequestDeviceInfo
    <3> DEFINE m == Msg("DeviceInfo")
    <3>1. m \in Answer /\ "success" \notin DOMAIN m /\ pend' = <<m>>
      BY <2>2, AnswersAreTyped, Acknowledgments DEF RequestDeviceInfo
    <3> HIDE DEF m
    <3> QED
      BY <3>1
  <2>3. CASE Ignored
    <3>1. pend' = <<>>
      BY <2>3 DEF Ignored, LoopReads
    <3> QED
      BY <3>1
  <2> QED
    BY <2>1, <2>2, <2>3
<1> QED
  BY <1>1, <1>2, CommandSteps, UnacknowledgedCommand

(* Every step is a step of CommandReplies or changes nothing that it sees, *)
(* and keeps the last acknowledgments true.                                *)
LEMMA NextReplies ==
  ASSUME TypeOK, HandlesAgree, EnrolledIsActive, LastAckHolds, [Next]_vars
  PROVE  /\ [Replies!Next]_(Replies!vars)
         /\ LastAckHolds'
<1>1. CASE \/ UNCHANGED vars \/ Gateway \/ on_connection_ready \/ DeployBinds
           \/ send_message_to_device \/ LinkBreaks \/ RunReturns \/ ProcessEnds
           \/ \E t \in DOMAIN task : TaskStarts(t) \/ TaskEnds(t)
  <2>1. /\ UNCHANGED <<chan, pend, sent, writer, handles>>
        /\ phase' \in Enrolling => phase \in Enrolling
    BY <1>1 DEF vars, taskVars, runVars, Gateway, on_message,
       complete_enrollment, on_connection_ready, DeployBinds,
       send_message_to_device, LinkBreaks, RunReturns, ProcessEnds,
       TaskStarts, TaskEnds, Enrolling
  <2>2. Open' => Open
    BY <2>1 DEF Open
  <2> QED
    BY <2>1, <2>2, QuietSteps, SameAcks
<1>2. CASE Begin \/ enroll \/ ReadFails
  <2>1. UNCHANGED <<chan, pend, sent, handles>>
    BY <1>2 DEF Begin, enroll, ReadFails, runVars
  <2>2. Open' => Open
    <3>1. CASE phase \in Enrolling
      BY <3>1 DEF Open
    <3>2. CASE phase \notin Enrolling
      <4>1. ReadFails /\ phase' = "left" /\ writer' = writer
        BY <1>2, <3>2 DEF Begin, enroll, ReadFails, Enrolling, taskVars
      <4> QED
        BY <4>1 DEF Open, Enrolling
    <3> QED
      BY <3>1, <3>2
  <2> QED
    BY <2>1, <2>2, QuietSteps, SameAcks
<1>3. CASE DeployApplication
  BY <1>3, DeployAcknowledged
<1>4. CASE StopApplication
  BY <1>4, StopAcknowledged
<1>5. CASE RequestApplicationStatus \/ RequestDeviceInfo \/ Ignored
  BY <1>5, OthersUnacknowledged
<1>6. CASE QueueAnswer \/ HeartbeatTick
  <2>1. UNCHANGED <<Owed, sent, Open>> /\ handles' = handles
    BY <1>6, QueueSteps DEF QueueAnswer, HeartbeatTick, runVars
  <2>2. [Replies!Next]_(Replies!vars)
    BY <2>1 DEF Replies!vars
  <2> QED
    BY <2>1, <2>2, SameAcks
<1>7. CASE Writer
  <2>1. handles' = handles
    BY <1>7 DEF Writer, WriterSends, WriterFails, runVars
  <2> QED
    BY <1>7, <2>1, WriterSteps, SameAcks DEF Writer
<1> QED
  BY <1>1, <1>2, <1>3, <1>4, <1>5, <1>6, <1>7 DEF Next, EventLoop

----------------------------------------------------------------------------
(* The session's invariant.                                                *)
ClientInv == TypeOK /\ HandlesAgree /\ EnrolledIsActive /\ LastAckHolds

(* An empty channel holds no answer.                                       *)
LEMMA AnswersOfNone == Answers(<<>>) = <<>>
<1>1. <<>> \in Seq(ToWriter) /\ Len(<<>>) = 0
  OBVIOUS
<1> QED
  BY <1>1, AnswersAreUpto, UptoStep

(* The initial state satisfies the invariant and maps to an initial state  *)
(* of CommandReplies.                                                      *)
LEMMA InitInv ==
  ASSUME Init
  PROVE  ClientInv /\ Replies!Init
<1>1. TypeOK
  <2>1. /\ up \in Seq(ToGateway) /\ down \in Seq(ToClient) /\ chan \in Seq(ToWriter)
        /\ pend \in Seq(Answer) /\ sent \in Seq(Answer) /\ task \in Seq(Task)
        /\ Len(chan) = 0
    BY DEF Init
  <2>2. handles \in [Apps -> DOMAIN task \cup {NoTask}]
    BY DEF Init
  <2>3. Len(chan) <= ChanCap /\ commands \in 0 .. MaxCommands
    BY <2>1, EdgeAssumption DEF Init
  <2>4. /\ link \in {"up", "down"} /\ gw \in {"ready", "patching"}
        /\ phase \in Phases
    BY DEF Init, Phases, Enrolling
  <2>5. sender \in Senders
    BY DEF Init, Senders
  <2>6. writer \in BOOLEAN /\ beating \in BOOLEAN
    BY Zenon DEF Init
  <2> QED
    BY <2>1, <2>2, <2>3, <2>4, <2>5, <2>6, Zenon DEF TypeOK
<1>2. HandlesAgree
  BY DEF Init, HandlesAgree, is_running
<1>3. EnrolledIsActive
  BY DEF Init, EnrolledIsActive
<1>4. Owed = <<>> /\ Open = TRUE /\ sent = <<>>
  <2>1. Open /\ sent = <<>> /\ Answers(chan) = <<>> /\ pend = <<>>
    BY AnswersOfNone DEF Init, Open, Enrolling
  <2>2. <<>> \o <<>> \o <<>> = <<>>
    OBVIOUS
  <2>3. Owed = <<>>
    BY <2>1, <2>2 DEF Owed
  <2>4. Open = TRUE
    BY <2>1
  <2> QED
    BY <2>1, <2>3, <2>4
<1>5. LastAckHolds
  BY <1>4 DEF LastAckHolds, About
<1> QED
  BY <1>1, <1>2, <1>3, <1>4, <1>5 DEF ClientInv, Replies!Init

(* Every behaviour keeps the invariant.                                    *)
LEMMA AlwaysClientInv == Spec => []ClientInv
<1>1. Init => ClientInv
  BY InitInv
<1>2. ClientInv /\ [Next]_vars => ClientInv'
  BY NextTypes, NextAgrees, NextAnnounces, NextReplies DEF ClientInv
<1> QED
  BY <1>1, <1>2, PTL DEF Spec

(* The session keeps its types: among them, the channel between the event  *)
(* loop, the heartbeat task and the writer never exceeds its capacity, and *)
(* only answers and heartbeats are in it.                                  *)
THEOREM ClientTypes == Spec => []TypeOK
<1>1. ClientInv => TypeOK
  BY DEF ClientInv
<1> QED
  BY <1>1, AlwaysClientInv, PTL

(* After any deploys, stops, refused deploys and late starts a handle      *)
(* leads to the newest task of its application, and a task that still      *)
(* waits to start can be reached through its handle.                       *)
THEOREM HandlesLeadToTasks == Spec => []HandlesAgree
<1>1. ClientInv => HandlesAgree
  BY DEF ClientInv
<1> QED
  BY <1>1, AlwaysClientInv, PTL

(* Whatever is queued in between, a client that has come through enrolment *)
(* is connected through a sender that the gateway has activated, unless    *)
(* its activation overtook on_connection_ready.                            *)
THEOREM EnrolledClientsAreActive == Spec => []EnrolledIsActive
<1>1. ClientInv => EnrolledIsActive
  BY DEF ClientInv
<1> QED
  BY <1>1, AlwaysClientInv, PTL

(* As long as the session is open, the last acknowledgment about an        *)
(* application, wherever it is on its way, tells what the runner holds.    *)
THEOREM LastAcknowledgmentsHold == Spec => []LastAckHolds
<1>1. ClientInv => LastAckHolds
  BY DEF ClientInv
<1> QED
  BY <1>1, AlwaysClientInv, PTL

(* The client implements CommandReplies, but for its fairness: for every   *)
(* capacity of the channel and any number of heartbeats in it, answers     *)
(* leave in the order of the commands, none is skipped, repeated or        *)
(* invented, and what has not left when the writer fails never leaves.     *)
THEOREM ClientImplementsReplies == Spec => Replies!Spec
<1>1. Init => Replies!Init
  BY InitInv
<1>2. ClientInv /\ [Next]_vars => [Replies!Next]_(Replies!vars)
  BY NextReplies DEF ClientInv
<1> QED
  BY <1>1, <1>2, AlwaysClientInv, PTL DEF Spec, Replies!Spec
=============================================================================

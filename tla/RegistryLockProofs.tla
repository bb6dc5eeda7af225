------------------------ MODULE RegistryLockProofs ------------------------
(***************************************************************************)
(* The registry lock, for every set of tasks and every bound: what a task  *)
(* holds follows from what it does, and a write guard excludes the others. *)
(* Who gets the lock in the end is model-checked only.                     *)
(***************************************************************************)
EXTENDS RegistryLock, TLAPS

(* A request joins a queue of distinct waiting tasks at its end.           *)
LEMMA AppendDistinct ==
  ASSUME NEW S, NEW q \in Seq(S), NEW t \in S,
         \A i \in 1 .. Len(q) : q[i] # t,
         \A i, j \in 1 .. Len(q) : q[i] = q[j] => i = j
  PROVE  /\ Append(q, t) \in Seq(S)
         /\ Len(Append(q, t)) = Len(q) + 1
         /\ \A i \in 1 .. Len(q) : Append(q, t)[i] = q[i]
         /\ Append(q, t)[Len(q) + 1] = t
         /\ \A i, j \in 1 .. Len(Append(q, t)) :
              Append(q, t)[i] = Append(q, t)[j] => i = j
  OBVIOUS

(* The head of a queue of distinct tasks is not in its tail.               *)
LEMMA TailDistinct ==
  ASSUME NEW S, NEW q \in Seq(S), q # <<>>,
         \A i, j \in 1 .. Len(q) : q[i] = q[j] => i = j
  PROVE  /\ Head(q) \in S
         /\ Head(q) = q[1]
         /\ Tail(q) \in Seq(S)
         /\ Len(Tail(q)) = Len(q) - 1
         /\ \A i \in 1 .. Len(Tail(q)) : /\ Tail(q)[i] = q[i + 1]
                                         /\ Tail(q)[i] # Head(q)
         /\ \A i, j \in 1 .. Len(Tail(q)) : Tail(q)[i] = Tail(q)[j] => i = j
  OBVIOUS

(* The initial states satisfy the invariant.                               *)
LEMMA InitLockInv == Init => LockInv
<1> SUFFICES ASSUME Init PROVE LockInv
  OBVIOUS
<1>1. TypeOK
  BY LockAssumption DEF Init, TypeOK, PcStates
<1>2. QueueInv
  BY DEF Init, QueueInv
<1>3. HeldInv
  BY DEF Init, HeldInv, Held, Tasks
<1>4. Exclusive
  BY DEF Init, Exclusive
<1> QED
  BY <1>1, <1>2, <1>3, <1>4 DEF LockInv

(* A request for the lock preserves the invariant.                         *)
LEMMA RequestLockInv ==
  ASSUME LockInv, NEW t \in Tasks, NEW from \in {"start", "in"},
         NEW to \in {"queued", "queued_again"}, Request(t, from, to),
         from = "in" <=> to = "queued_again",
         to = "queued_again" => t \in Senders,
         UNCHANGED <<guards, writer, waited, sender, chan>>
  PROVE  LockInv'
<1> USE DEF LockInv
<1>1. \A i \in 1 .. Len(queue) : queue[i] # t
  BY DEF QueueInv, Request
<1>2. TypeOK'
  BY <1>1, AppendDistinct DEF TypeOK, Request, PcStates
<1>3. QueueInv'
  <2> SUFFICES ASSUME NEW i \in 1 .. Len(queue')
               PROVE  pc'[queue'[i]] \in {"queued", "queued_again"}
    BY DEF QueueInv
  <2>1. queue \in Seq(Tasks) /\ queue' = Append(queue, t)
    BY DEF TypeOK, Request
  <2>2. CASE i \in 1 .. Len(queue)
    BY <1>1, <2>1, <2>2, AppendDistinct DEF QueueInv, TypeOK, Request
  <2>3. CASE i = Len(queue) + 1
    BY <2>1, <2>3 DEF TypeOK, Request
  <2> QED
    BY <2>1, <2>2, <2>3
<1>4. HeldInv'
  BY DEF HeldInv, Held, TypeOK, Request, Tasks
<1>5. Exclusive'
  BY LockAssumption DEF Exclusive, TypeOK, Request, Readers, Tasks
<1> QED
  BY <1>2, <1>3, <1>4, <1>5

(* Granting a read preserves the invariant.                                *)
LEMMA GrantReadLockInv == LockInv /\ GrantRead => LockInv'
<1> SUFFICES ASSUME LockInv, GrantRead PROVE LockInv'
  OBVIOUS
<1> USE DEF LockInv
<1>1. PICK t \in Readers :
      /\ t = Head(queue)
      /\ queue # <<>>
      /\ queue' = Tail(queue)
      /\ writer = None
      /\ guards' = [guards EXCEPT ![t] = guards[t] + 1]
      /\ pc' = [pc EXCEPT ![t] = IF pc[t] = "queued_again" THEN "in_again"
                                 ELSE "in"]
      /\ UNCHANGED <<writer, waited, sender, chan>>
  BY DEF GrantRead
<1>2. /\ t = queue[1]
      /\ Tail(queue) \in Seq(Tasks)
      /\ Len(Tail(queue)) = Len(queue) - 1
      /\ \A i \in 1 .. Len(Tail(queue)) : /\ Tail(queue)[i] = queue[i + 1]
                                          /\ Tail(queue)[i] # t
      /\ \A i, j \in 1 .. Len(Tail(queue)) :
           Tail(queue)[i] = Tail(queue)[j] => i = j
  BY <1>1, TailDistinct DEF TypeOK
<1>3. pc[t] \in {"queued", "queued_again"}
  BY <1>1, <1>2 DEF QueueInv, TypeOK
<1>4. guards'[t] = Held(t)' /\ guards'[t] \in 0 .. 2
  BY <1>1, <1>3 DEF HeldInv, Held, TypeOK, Tasks
<1>5. HeldInv'
  <2>1. ASSUME NEW u \in Readers, u # t PROVE guards'[u] = Held(u)'
    BY <1>1, <2>1 DEF HeldInv, Held, TypeOK, Tasks
  <2>2. ASSUME NEW u \in Tasks, pc'[u] \in {"queued_again", "in_again"}
        PROVE  u \in Senders
    BY <1>1, <1>3, <2>2 DEF HeldInv, TypeOK, Tasks
  <2> QED
    BY <1>4, <2>1, <2>2 DEF HeldInv
<1>6. TypeOK'
  BY <1>1, <1>2, <1>4 DEF TypeOK, PcStates, Tasks
<1>7. QueueInv'
  BY <1>1, <1>2 DEF QueueInv, TypeOK
<1>8. Exclusive'
  BY <1>1 DEF Exclusive
<1> QED
  BY <1>5, <1>6, <1>7, <1>8

(* Granting a write preserves the invariant.                               *)
LEMMA GrantWriteLockInv == LockInv /\ GrantWrite => LockInv'
<1> SUFFICES ASSUME LockInv, GrantWrite PROVE LockInv'
  OBVIOUS
<1> USE DEF LockInv
<1>1. PICK t \in Writers :
      /\ t = Head(queue)
      /\ t \notin Readers
      /\ queue # <<>>
      /\ queue' = Tail(queue)
      /\ \A u \in Readers : guards[u] = 0
      /\ writer' = t
      /\ pc' = [pc EXCEPT ![t] = "in"]
      /\ UNCHANGED <<guards, waited, sender, chan>>
  BY LockAssumption DEF GrantWrite
<1>2. /\ Tail(queue) \in Seq(Tasks)
      /\ Len(Tail(queue)) = Len(queue) - 1
      /\ \A i \in 1 .. Len(Tail(queue)) : /\ Tail(queue)[i] = queue[i + 1]
                                          /\ Tail(queue)[i] # t
      /\ \A i, j \in 1 .. Len(Tail(queue)) :
           Tail(queue)[i] = Tail(queue)[j] => i = j
  BY <1>1, TailDistinct DEF TypeOK
<1>3. HeldInv'
  BY <1>1 DEF HeldInv, Held, TypeOK, Tasks
<1>4. TypeOK'
  BY <1>1, <1>2 DEF TypeOK, PcStates, Tasks
<1>5. QueueInv'
  BY <1>1, <1>2 DEF QueueInv, TypeOK
<1>6. Exclusive'
  BY <1>1 DEF Exclusive, TypeOK, Tasks
<1> QED
  BY <1>3, <1>4, <1>5, <1>6

(* A task that drops its guards preserves the invariant.                   *)
LEMMA DropLockInv ==
  ASSUME LockInv, NEW t \in Readers, pc[t] \in {"in", "in_again"},
         NEW to \in {"start", "done"},
         pc' = [pc EXCEPT ![t] = to],
         guards' = [guards EXCEPT ![t] = 0],
         waited' \in [Waiters -> 0 .. MaxWait],
         chan' \in 0 .. Capacity,
         UNCHANGED <<queue, writer, sender>>
  PROVE  LockInv'
<1> USE DEF LockInv
<1>1. TypeOK'
  BY DEF TypeOK, PcStates, Tasks
<1>2. QueueInv'
  BY DEF QueueInv, TypeOK, Tasks
<1>3. HeldInv'
  BY DEF HeldInv, Held, TypeOK, Tasks
<1>4. Exclusive'
  BY LockAssumption DEF Exclusive, TypeOK, Tasks
<1> QED
  BY <1>1, <1>2, <1>3, <1>4

(* A write preserves the invariant.                                        *)
LEMMA WriteLockInv ==
  ASSUME LockInv, NEW t \in Writers, Write(t)
  PROVE  LockInv'
<1> USE DEF LockInv
<1>1. t \notin Readers /\ t # None
  BY LockAssumption DEF Tasks
<1>2. sender' \in BOOLEAN
  <2>1. ASSUME t \in Touches PROVE sender' \in BOOLEAN
    BY <2>1 DEF Write, TypeOK
  <2>2. ASSUME t \notin Touches PROVE sender' \in BOOLEAN
    <3>1. sender' = (t \in Connects)
      BY <2>2 DEF Write
    <3>2. CASE t \in Connects
      BY <3>1, <3>2
    <3>3. CASE t \notin Connects
      BY <3>1, <3>3
    <3> QED
      BY <3>2, <3>3
  <2> QED
    BY <2>1, <2>2
<1>3. TypeOK'
  BY <1>2 DEF Write, TypeOK, PcStates, Tasks
<1>4. QueueInv'
  BY <1>1 DEF Write, QueueInv, TypeOK, Tasks, Exclusive
<1>5. HeldInv'
  BY <1>1 DEF Write, HeldInv, Held, TypeOK, Tasks
<1>6. Exclusive'
  BY DEF Write, Exclusive
<1> QED
  BY <1>3, <1>4, <1>5, <1>6

(* Every step preserves the invariant.                                     *)
LEMMA NextLockInv == LockInv /\ [Next]_vars => LockInv'
<1> SUFFICES ASSUME LockInv, [Next]_vars PROVE LockInv'
  OBVIOUS
<1>1. CASE Lock
  BY <1>1, GrantReadLockInv, GrantWriteLockInv DEF Lock
<1>2. ASSUME NEW t \in Tasks, Step(t) PROVE LockInv'
  <2>1. CASE Start(t)
    BY <2>1, RequestLockInv DEF Start
  <2>2. CASE t \in Waiters /\ Check(t)
    <3>1. /\ t \in Readers
          /\ waited' \in [Waiters -> 0 .. MaxWait]
          /\ chan' \in 0 .. Capacity
      BY <2>2, LockAssumption DEF Check, LockInv, TypeOK, Readers
    <3>2. \E to \in {"start", "done"} : pc' = [pc EXCEPT ![t] = to]
      BY <2>2 DEF Check
    <3> QED
      BY <2>2, <3>1, <3>2, DropLockInv DEF Check
  <2>3. CASE t \in StopHandlers /\ StopHandled(t)
    BY <2>3, DropLockInv DEF StopHandled, LockInv, TypeOK, Readers
  <2>4. CASE t \in Senders /\ SendAgain(t)
    BY <2>4, RequestLockInv DEF SendAgain
  <2>5. CASE t \in Senders /\ SendMessage(t)
    <3>1. /\ t \in Readers
          /\ waited' \in [Waiters -> 0 .. MaxWait]
          /\ chan' \in 0 .. Capacity
      BY <2>5, LockAssumption DEF SendMessage, LockInv, TypeOK, Readers
    <3> QED
      BY <2>5, <3>1, DropLockInv DEF SendMessage
  <2>6. CASE t \in Writers /\ Write(t)
    BY <2>6, WriteLockInv
  <2> QED
    BY <1>2, <2>1, <2>2, <2>3, <2>4, <2>5, <2>6 DEF Step
<1>3. CASE Drain
  BY <1>3, LockAssumption
     DEF Drain, LockInv, TypeOK, QueueInv, HeldInv, Held, Exclusive
<1>4. CASE UNCHANGED vars
  BY <1>4 DEF vars, LockInv, TypeOK, QueueInv, HeldInv, Held, Exclusive
<1> QED
  BY <1>1, <1>2, <1>3, <1>4 DEF Next

(* For every set of tasks, the lock on device_connections is sound: guards *)
(* match what the tasks do, and a write guard excludes all others.         *)
THEOREM LockSound == Spec => []LockInv
<1>1. Init => LockInv
  BY InitLockInv
<1>2. LockInv /\ [Next]_vars => LockInv'
  BY NextLockInv
<1> QED
  BY <1>1, <1>2, PTL DEF Spec

===========================================================================

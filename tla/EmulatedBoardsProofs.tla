------------------------ MODULE EmulatedBoardsProofs ------------------------
(***************************************************************************)
(* Theorems about EmulatedBoards: for every set of boards and container    *)
(* names, whatever operations overlap, the table of the Renode manager     *)
(* claims no emulator that is not there, but for the cases BoardsInv       *)
(* excepts.                                                                *)
(***************************************************************************)
EXTENDS EmulatedBoards, TLAPS

(* The invariant of one board.                                             *)
BoardOK(b) ==
  /\ docker /\ b \in clean =>
       /\ table[b].status = "Running" => up[ContainerOf[b]] = b /\ ~Busy(b)
       /\ \A c, x \in Callers :
            op[b][c].pc # "idle" /\ op[b][x].pc # "idle" => c = x
       /\ (\E c \in Callers : op[b][c].pc = "done") => up[ContainerOf[b]] = b
  /\ table[b].pid # 0 =>
       /\ owner[table[b].pid] = b
       /\ \/ table[b].pid \in monitored \cup unwatched
          \/ \E c \in Callers : op[b][c].pid = table[b].pid
  /\ docker => table[b].pid = 0
  /\ table[b].pid <= starts
  /\ \A c \in Callers :
       /\ docker => op[b][c].pid = 0
       /\ ~docker => op[b][c].pc \in {"idle", "mark", "done"}
       /\ ~docker /\ op[b][c].pc = "done" => op[b][c].pid # 0
       /\ op[b][c].pid # 0 => /\ op[b][c].pc = "done"
                              /\ op[b][c].pid <= starts
                              /\ owner[op[b][c].pid] = b

(* Monitor threads are those of spawned processes.                         *)
MonitorsOK == \A p \in monitored : p <= starts /\ owner[p] \in Boards

(* The invariant, board by board.                                          *)
LEMMA ByBoard ==
  BoardsInv <=> TypeOK /\ MonitorsOK /\ \A b \in Boards : BoardOK(b)
<1>1. TypeOK => clean \subseteq Boards
  BY DEF TypeOK
<1> QED
  BY <1>1
     DEF BoardsInv, RunningIsUp, RunningIsWatched, UpToNow, PidsAreOwned,
         BoardOK, MonitorsOK

(* Its primed form.                                                        *)
LEMMA ByBoardPrimed ==
  TypeOK' /\ MonitorsOK' /\ (\A b \in Boards : BoardOK(b)') => BoardsInv'
<1>1. TypeOK' => clean' \subseteq Boards
  BY DEF TypeOK
<1> QED
  BY <1>1
     DEF BoardsInv, RunningIsUp, RunningIsWatched, UpToNow, PidsAreOwned,
         BoardOK, MonitorsOK

(* A step on board b leaves the other boards alone, but for ending their   *)
(* containers, after which they are not clean.                             *)
OnlyBoard(b) ==
  /\ docker' = docker
  /\ \A x \in Boards \ {b} :
       /\ table'[x] = table[x]
       /\ op'[x] = op[x]
       /\ x \in clean' => /\ x \in clean
                          /\ up[ContainerOf[x]] = x => up'[ContainerOf[x]] = x
  /\ \A p \in 1 .. starts : owner'[p] = owner[p]
  /\ starts <= starts'
  /\ \A p \in monitored \cup unwatched :
       p \in monitored' \cup unwatched' \/ owner[p] = b

(* Such a step owes the invariant for its own board only.                  *)
LEMMA BoardStep ==
  ASSUME BoardsInv, TypeOK', MonitorsOK', NEW b \in Boards, OnlyBoard(b),
         BoardOK(b)'
  PROVE  BoardsInv'
<1>1. TypeOK /\ \A x \in Boards : BoardOK(x)
  BY ByBoard
<1>2. SUFFICES ASSUME NEW x \in Boards, x # b PROVE BoardOK(x)'
  BY ByBoardPrimed
<1>3. /\ table'[x] = table[x]
      /\ op'[x] = op[x]
      /\ docker' = docker
      /\ x \in clean' => /\ x \in clean
                         /\ up[ContainerOf[x]] = x => up'[ContainerOf[x]] = x
      /\ BoardOK(x)
  BY <1>1, <1>2 DEF OnlyBoard
<1>4. /\ starts \in Nat /\ starts' \in Nat /\ starts <= starts'
      /\ table[x].pid \in Nat
      /\ \A c \in Callers : op[x][c].pid \in Nat
  BY <1>1, BoardsAssumption DEF TypeOK, OnlyBoard, Entries, Operations
<1>5. \A p \in Nat : p # 0 /\ p <= starts
        => /\ owner'[p] = owner[p]
           /\ owner[p] = x /\ p \in monitored \cup unwatched
                => p \in monitored' \cup unwatched'
  BY <1>2, <1>4 DEF OnlyBoard
<1> QED
  BY <1>3, <1>4, <1>5 DEF BoardOK, Busy

-----------------------------------------------------------------------------
(* What a step writes, entry by entry.                                     *)

EntryIs(b, s, p) ==
  /\ table' \in [Boards -> Entries]
  /\ table'[b].status = s
  /\ table'[b].pid = p
  /\ \A x \in Boards \ {b} : table'[x] = table[x]

OpIs(b, c, pc, p) ==
  /\ op' \in [Boards -> [Callers -> Operations]]
  /\ op'[b][c].pc = pc
  /\ op'[b][c].pid = p
  /\ \A y \in Callers \ {c} : op'[b][y] = op[b][y]
  /\ \A x \in Boards \ {b} : op'[x] = op[x]

(* What an assignment to an entry of the device table leaves in it.        *)
LEMMA EntryFacts ==
  ASSUME TypeOK, NEW b \in Boards, NEW s \in Statuses, NEW p \in 0 .. MaxStarts
  PROVE  /\ table' = [table EXCEPT ![b].status = s] => EntryIs(b, s, table[b].pid)
         /\ table' = [table EXCEPT ![b] = Entry(s, p)]
              => EntryIs(b, s, p)
         /\ table' = table => EntryIs(b, table[b].status, table[b].pid)
<1>1. table \in [Boards -> Entries] /\ table[b] \in Entries
  BY DEF TypeOK
<1>2. /\ [status |-> s, pid |-> p] \in Entries
      /\ [table[b] EXCEPT !.status = s] = [status |-> s, pid |-> table[b].pid]
      /\ [table[b] EXCEPT !.status = s] \in Entries
  BY <1>1 DEF Entries
<1>3. \A e \in Entries : table' = [table EXCEPT ![b] = e]
                          => EntryIs(b, e.status, e.pid)
  BY <1>1 DEF EntryIs
<1> QED
  BY <1>1, <1>2, <1>3 DEF EntryIs, Entry

(* What a step leaves in the record of its own operation.                  *)
LEMMA OpFacts ==
  ASSUME TypeOK, NEW b \in Boards, NEW c \in Callers, NEW pc \in Pcs,
         NEW p \in 0 .. MaxStarts
  PROVE  /\ Goto(b, c, pc) => OpIs(b, c, pc, op[b][c].pid)
         /\ Finish(b, c) => OpIs(b, c, "idle", 0)
         /\ op' = [op EXCEPT ![b][c] = [pc |-> pc, pid |-> p]]
              => OpIs(b, c, pc, p)
         /\ op' = op => OpIs(b, c, op[b][c].pc, op[b][c].pid)
<1>1. /\ op \in [Boards -> [Callers -> Operations]]
      /\ op[b][c] \in Operations
  BY DEF TypeOK
<1>2. /\ [pc |-> pc, pid |-> p] \in Operations
      /\ [op[b][c] EXCEPT !.pc = pc] = [pc |-> pc, pid |-> op[b][c].pid]
      /\ [op[b][c] EXCEPT !.pc = pc] \in Operations
      /\ Idle \in Operations
      /\ Idle.pc = "idle"
      /\ Idle.pid = 0
  BY <1>1, BoardsAssumption DEF Operations, Idle, Pcs
<1>3. \A e \in Operations : op' = [op EXCEPT ![b][c] = e]
                             => OpIs(b, c, e.pc, e.pid)
  BY <1>1 DEF OpIs
<1> QED
  BY <1>1, <1>2, <1>3 DEF OpIs, Goto, Finish

-----------------------------------------------------------------------------
(* The initial state: nothing is recorded and nothing runs.                *)
LEMMA InitInv == Init => BoardsInv
<1> SUFFICES ASSUME Init PROVE BoardsInv
  OBVIOUS
<1>1. TypeOK
  BY BoardsAssumption
     DEF Init, TypeOK, Absent, Entry, Entries, Operations, Idle, Statuses, Pcs,
         Pids
<1>2. MonitorsOK /\ \A b \in Boards : BoardOK(b)
  BY BoardsAssumption
     DEF Init, Absent, Entry, Idle, MonitorsOK, BoardOK, Busy
<1> QED
  BY <1>1, <1>2, ByBoard

-----------------------------------------------------------------------------
(* The steps of a start.                                                   *)

(* The first step of a start, under the lock, keeps the invariant.         *)
LEMMA StartBeginInv ==
  ASSUME BoardsInv, NEW b \in Boards, NEW c \in Callers, StartBegin(b, c)
  PROVE  BoardsInv'
<1>1. TypeOK /\ MonitorsOK /\ BoardOK(b)
  BY ByBoard
<1>2. PICK s \in Statuses, p \in 0 .. MaxStarts :
        /\ EntryIs(b, s, p)
        /\ s = "Running" <=> table[b].status = "Running"
        /\ p # 0 => p = table[b].pid
        /\ table[b].pid # 0 => p = table[b].pid
  <2>1. table[b] \in Entries
    BY <1>1 DEF TypeOK
  <2>2. CASE table[b] = Absent
    <3>3. table' = [table EXCEPT ![b] = Entry("Stopped", 0)]
      BY <2>2 DEF StartBegin
    <3>4. "Stopped" \in Statuses /\ 0 \in 0 .. MaxStarts
      BY BoardsAssumption DEF Statuses
    <3>1. EntryIs(b, "Stopped", 0)
      BY <1>1, <3>3, <3>4, EntryFacts
    <3>2. table[b].status # "Running" /\ table[b].pid = 0
      BY <2>2 DEF Absent, Entry
    <3> QED
      BY <3>1, <3>2, BoardsAssumption DEF Statuses
  <2>3. CASE table[b] # Absent
    <3>1. table' = table
      BY <1>1, <2>3 DEF StartBegin, TypeOK
    <3>2. EntryIs(b, table[b].status, table[b].pid)
      BY <1>1, <3>1, <2>1 DEF EntryIs, TypeOK
    <3> QED
      BY <3>2, <2>1 DEF Entries
  <2> QED
    BY <2>2, <2>3
<1>3. PICK pc \in Pcs :
        /\ OpIs(b, c, pc, op[b][c].pid)
        /\ pc \in {"idle", "mark"}
        /\ table[b].status = "Running" => pc = "idle"
  <2>1. op[b][c].pc = "idle"
    BY DEF StartBegin
  <2>2. op' = op \/ (Goto(b, c, "mark") /\ table[b].status # "Running")
    BY DEF StartBegin, Absent, Entry
  <2> QED
    BY <1>1, <2>1, <2>2, OpFacts, BoardsAssumption DEF Pcs
<1>4. /\ docker' = docker /\ up' = up /\ UNCHANGED procVars
      /\ clean' \subseteq clean
      /\ b \in clean' => ~Busy(b)
      /\ op[b][c].pc = "idle"
  BY DEF StartBegin
<1>5. faults' \in 0 .. MaxFaults
  BY <1>1, BoardsAssumption DEF StartBegin, Fault, TypeOK
<1>6. TypeOK'
  BY <1>1, <1>2, <1>3, <1>4, <1>5 DEF TypeOK, EntryIs, OpIs, procVars, watchVars
<1>7. MonitorsOK'
  BY <1>1, <1>4 DEF MonitorsOK, procVars, watchVars
<1>8. OnlyBoard(b)
  BY <1>1, <1>2, <1>3, <1>4, BoardsAssumption
     DEF OnlyBoard, EntryIs, OpIs, procVars, watchVars, TypeOK
<1>9. BoardOK(b)'
  <2>1. /\ table'[b].pid = table[b].pid
        /\ \A y \in Callers : op'[b][y].pid = op[b][y].pid
        /\ table'[b].status = "Running" <=> table[b].status = "Running"
    BY <1>2, <1>3 DEF EntryIs, OpIs
  <2>2. \A y \in Callers : \/ op'[b][y].pc = op[b][y].pc
                           \/ y = c /\ op'[b][y].pc \in {"idle", "mark"}
    BY <1>3 DEF OpIs
  <2>3. /\ docker' = docker /\ up' = up /\ owner' = owner
        /\ UNCHANGED watchVars /\ starts' = starts
    BY <1>4 DEF procVars, watchVars
  <2>4. ASSUME docker, b \in clean'
        PROVE  /\ table[b].status = "Running" =>
                    up[ContainerOf[b]] = b /\ \A y \in Callers : op'[b][y].pc = "idle"
               /\ \A y \in Callers : op'[b][y].pc # "idle" => y = c
               /\ \A y \in Callers : op'[b][y].pc # "done"
    <3>1. b \in clean /\ \A y \in Callers : op[b][y].pc = "idle"
      BY <1>4, <2>4 DEF Busy
    <3>2. \A y \in Callers \ {c} : op'[b][y].pc = "idle"
      BY <2>2, <3>1
    <3>3. op'[b][c].pc \in {"idle", "mark"}
          /\ (table[b].status = "Running" => op'[b][c].pc = "idle")
      BY <1>3 DEF OpIs
    <3>4. table[b].status = "Running" => up[ContainerOf[b]] = b
      BY <1>1, <2>4, <3>1 DEF BoardOK
    <3> QED
      BY <3>2, <3>3, <3>4
  <2>5. \A y \in Callers :
          /\ docker => op'[b][y].pid = 0
          /\ ~docker => op'[b][y].pc \in {"idle", "mark", "done"}
          /\ ~docker /\ op'[b][y].pc = "done" => op'[b][y].pid # 0
          /\ op'[b][y].pid # 0 => /\ op'[b][y].pc = "done"
                                 /\ op'[b][y].pid <= starts
                                 /\ owner[op'[b][y].pid] = b
    <3>1. op[b][c].pid = 0
      BY <1>1, <1>4 DEF BoardOK
    <3> QED
      BY <1>1, <2>1, <2>2, <3>1 DEF BoardOK
  <2>6. /\ table[b].pid # 0 =>
             /\ owner[table[b].pid] = b
             /\ \/ table[b].pid \in monitored \cup unwatched
                \/ \E y \in Callers : op'[b][y].pid = table[b].pid
        /\ docker => table[b].pid = 0
        /\ table[b].pid <= starts
    BY <1>1, <2>1 DEF BoardOK
  <2> QED
    BY <2>1, <2>3, <2>4, <2>5, <2>6 DEF BoardOK, Busy, watchVars
<1> QED
  BY <1>6, <1>7, <1>8, <1>9, BoardStep

(* docker: the status is marked.                                           *)
LEMMA StartMarkInv ==
  ASSUME BoardsInv, NEW b \in Boards, NEW c \in Callers, StartMark(b, c)
  PROVE  BoardsInv'
<1>1. TypeOK /\ MonitorsOK /\ BoardOK(b)
  BY ByBoard
<1>2. EntryIs(b, "Starting", table[b].pid)
  <2>1. "Starting" \in Statuses /\ 0 \in 0 .. MaxStarts
    BY BoardsAssumption DEF Statuses
  <2> QED
    BY <1>1, <2>1, EntryFacts DEF StartMark
<1>3. PICK pc \in Pcs : OpIs(b, c, pc, 0) /\ pc \in {"idle", "remove"}
  <2>1. op[b][c].pid = 0
    BY <1>1 DEF BoardOK, StartMark
  <2>2. Goto(b, c, "remove") \/ Finish(b, c)
    BY DEF StartMark
  <2> QED
    BY <1>1, <2>1, <2>2, OpFacts, BoardsAssumption DEF Pcs
<1>4. /\ docker /\ docker' = docker /\ up' = up /\ UNCHANGED procVars
      /\ clean' = clean
      /\ op[b][c].pc # "idle"
  BY DEF StartMark
<1>5. faults' \in 0 .. MaxFaults
  BY <1>1, BoardsAssumption DEF StartMark, Fault, TypeOK
<1>6. TypeOK'
  BY <1>1, <1>2, <1>3, <1>4, <1>5 DEF TypeOK, EntryIs, OpIs, procVars, watchVars
<1>7. MonitorsOK'
  BY <1>1, <1>4 DEF MonitorsOK, procVars, watchVars
<1>8. OnlyBoard(b)
  BY <1>1, <1>2, <1>3, <1>4, BoardsAssumption
     DEF OnlyBoard, EntryIs, OpIs, procVars, watchVars, TypeOK
<1>9. BoardOK(b)'
  BY <1>1, <1>2, <1>3, <1>4, SMTT(60) DEF BoardOK, EntryIs, OpIs, Busy, procVars, watchVars
<1> QED
  BY <1>6, <1>7, <1>8, <1>9, BoardStep

(* The container of the name goes, and so does what another board could    *)
(* still count on.                                                         *)
LEMMA StartRemoveInv ==
  ASSUME BoardsInv, NEW b \in Boards, NEW c \in Callers, StartRemove(b, c)
  PROVE  BoardsInv'
<1>1. TypeOK /\ MonitorsOK /\ BoardOK(b)
  BY ByBoard
<1>2. PICK pc \in Pcs :
        /\ OpIs(b, c, pc, IF pc = "idle" THEN 0 ELSE op[b][c].pid)
        /\ pc \in {"idle", "run"}
  <2>1. Goto(b, c, "run") \/ Finish(b, c)
    BY DEF StartRemove
  <2> QED
    BY <1>1, <2>1, OpFacts, BoardsAssumption DEF Pcs
<1>3. /\ docker' = docker /\ table' = table /\ UNCHANGED procVars
      /\ op[b][c].pc = "remove"
      /\ \/ up' = up /\ clean' = clean
         \/ /\ up' = [up EXCEPT ![ContainerOf[b]] = None]
            /\ clean' = clean \ ({up[ContainerOf[b]]} \ {b})
  BY DEF StartRemove
<1>4. docker /\ op[b][c].pid = 0 /\ table[b].pid = 0
  BY <1>1, <1>3 DEF BoardOK
<1>5. faults' \in 0 .. MaxFaults
  BY <1>1, BoardsAssumption DEF StartRemove, Fault, TypeOK
<1>6. up' \in [Containers -> Boards \cup {None}] /\ clean' \subseteq clean
  BY <1>1, <1>3 DEF TypeOK
<1>7. TypeOK'
  BY <1>1, <1>2, <1>3, <1>5, <1>6 DEF TypeOK, OpIs, procVars, watchVars
<1>8. MonitorsOK'
  BY <1>1, <1>3 DEF MonitorsOK, procVars, watchVars
<1>9. ASSUME NEW x \in Boards \ {b}, x \in clean', up[ContainerOf[x]] = x
      PROVE  up'[ContainerOf[x]] = x
  BY <1>1, <1>3, <1>9, BoardsAssumption DEF TypeOK
<1>10. OnlyBoard(b)
  BY <1>1, <1>2, <1>3, <1>6, <1>9, BoardsAssumption
     DEF OnlyBoard, OpIs, procVars, watchVars, TypeOK
<1>11. BoardOK(b)'
  BY <1>1, <1>2, <1>3, <1>4, <1>6 DEF BoardOK, OpIs, Busy, procVars, watchVars
<1> QED
  BY <1>7, <1>8, <1>10, <1>11, BoardStep

(* docker run takes a free name only.                                      *)
LEMMA StartRunInv ==
  ASSUME BoardsInv, NEW b \in Boards, NEW c \in Callers, StartRun(b, c)
  PROVE  BoardsInv'
<1>1. TypeOK /\ MonitorsOK /\ BoardOK(b)
  BY ByBoard
<1>2. /\ docker' = docker /\ table' = table /\ UNCHANGED procVars
      /\ op[b][c].pc = "run" /\ clean' = clean
      /\ \/ up' = up /\ Finish(b, c)
         \/ /\ up[ContainerOf[b]] = None
            /\ up' = [up EXCEPT ![ContainerOf[b]] = b]
            /\ Goto(b, c, "done")
  BY DEF StartRun
<1>3. docker /\ op[b][c].pid = 0 /\ table[b].pid = 0
  BY <1>1, <1>2 DEF BoardOK
<1>4. PICK pc \in Pcs :
        /\ OpIs(b, c, pc, 0)
        /\ \/ pc = "idle" /\ up' = up
           \/ /\ pc = "done"
              /\ up[ContainerOf[b]] = None
              /\ up' = [up EXCEPT ![ContainerOf[b]] = b]
  BY <1>1, <1>2, <1>3, OpFacts, BoardsAssumption DEF Pcs
<1>5. faults' \in 0 .. MaxFaults
  BY <1>1, BoardsAssumption DEF StartRun, Fault, TypeOK
<1>6. /\ up' \in [Containers -> Boards \cup {None}]
      /\ pc = "done" => up'[ContainerOf[b]] = b
  BY <1>1, <1>4, BoardsAssumption DEF TypeOK
<1>7. TypeOK'
  BY <1>1, <1>2, <1>4, <1>5, <1>6 DEF TypeOK, OpIs, procVars, watchVars
<1>8. MonitorsOK'
  BY <1>1, <1>2 DEF MonitorsOK, procVars, watchVars
<1>9. ASSUME NEW x \in Boards \ {b}, up[ContainerOf[x]] = x
      PROVE  up'[ContainerOf[x]] = x
  BY <1>1, <1>4, <1>9, BoardsAssumption DEF TypeOK
<1>10. OnlyBoard(b)
  BY <1>1, <1>2, <1>4, <1>9, BoardsAssumption
     DEF OnlyBoard, OpIs, procVars, watchVars, TypeOK
<1>11. BoardOK(b)'
  BY <1>1, <1>2, <1>3, <1>4, <1>6 DEF BoardOK, OpIs, Busy, procVars, watchVars
<1> QED
  BY <1>7, <1>8, <1>10, <1>11, BoardStep

(* A native process is spawned, with a pid no process had.                 *)
LEMMA StartSpawnInv ==
  ASSUME BoardsInv, NEW b \in Boards, NEW c \in Callers, StartSpawn(b, c)
  PROVE  BoardsInv'
<1>1. TypeOK /\ MonitorsOK /\ BoardOK(b)
  BY ByBoard
<1>2. /\ ~docker /\ docker' = docker /\ up' = up /\ monitored' = monitored
      /\ unwatched' = unwatched /\ clean' = clean /\ op[b][c].pc = "mark"
  BY DEF StartSpawn, watchVars
<1>3. op[b][c].pid = 0
  BY <1>1, <1>2 DEF BoardOK
<1>4. faults' \in 0 .. MaxFaults /\ starts \in 0 .. MaxStarts
  BY <1>1, BoardsAssumption DEF StartSpawn, Fault, TypeOK
<1>5. CASE /\ starts < MaxStarts
           /\ starts' = starts + 1
           /\ owner' = [owner EXCEPT ![starts + 1] = b]
           /\ alive' = alive \cup {starts + 1}
           /\ table' = [table EXCEPT ![b] = Entry("Running", starts + 1)]
           /\ op' = [op EXCEPT ![b][c] = [pc |-> "done", pid |-> starts + 1]]
  <2>1. starts + 1 \in 0 .. MaxStarts /\ starts + 1 \in Pids /\ starts + 1 # 0
    BY <1>4, <1>5, BoardsAssumption DEF Pids
  <2>2. "Running" \in Statuses /\ "done" \in Pcs
    BY DEF Statuses, Pcs
  <2>3. EntryIs(b, "Running", starts + 1)
    BY <1>1, <1>5, <2>1, <2>2, EntryFacts
  <2>4. OpIs(b, c, "done", starts + 1)
    BY <1>1, <1>5, <2>1, <2>2, OpFacts
  <2>5. /\ owner' \in [Pids -> Boards \cup {None}]
        /\ owner'[starts + 1] = b
        /\ \A p \in 1 .. starts : owner'[p] = owner[p]
    BY <1>1, <1>4, <1>5, <2>1, BoardsAssumption DEF TypeOK, Pids
  <2>6. TypeOK'
    BY <1>1, <1>2, <1>4, <1>5, <2>1, <2>3, <2>4, <2>5
       DEF TypeOK, EntryIs, OpIs
  <2>7. MonitorsOK'
    BY <1>1, <1>2, <1>4, <1>5, <2>5, BoardsAssumption
       DEF MonitorsOK, TypeOK, Pids
  <2>8. OnlyBoard(b)
    BY <1>1, <1>2, <1>4, <1>5, <2>3, <2>4, <2>5, BoardsAssumption
       DEF OnlyBoard, EntryIs, OpIs, TypeOK
  <2>9. BoardOK(b)'
    <3>1. \A y \in Callers : op[b][y].pid \in Nat
      BY <1>1, BoardsAssumption DEF TypeOK, Operations
    <3>2. \A y \in Callers : op[b][y].pid # 0
            => /\ op[b][y].pid \in 1 .. starts
               /\ owner'[op[b][y].pid] = b
      BY <1>1, <1>4, <2>5, <3>1, BoardsAssumption DEF BoardOK
    <3> QED
      BY <1>1, <1>2, <1>4, <1>5, <2>1, <2>3, <2>4, <2>5, <3>1, <3>2,
         BoardsAssumption DEF BoardOK, EntryIs, OpIs
  <2> QED
    BY <2>6, <2>7, <2>8, <2>9, BoardStep
<1>6. CASE /\ table' = [table EXCEPT ![b].status = "Error"]
           /\ Finish(b, c)
           /\ UNCHANGED <<starts, owner, alive>>
  <2>1. "Error" \in Statuses /\ "idle" \in Pcs /\ 0 \in 0 .. MaxStarts
    BY BoardsAssumption DEF Statuses, Pcs
  <2>2. EntryIs(b, "Error", table[b].pid)
    BY <1>1, <1>6, <2>1, EntryFacts
  <2>3. OpIs(b, c, "idle", 0)
    BY <1>1, <1>6, <2>1, OpFacts
  <2>4. TypeOK'
    BY <1>1, <1>2, <1>4, <1>6, <2>2, <2>3 DEF TypeOK, EntryIs, OpIs
  <2>5. MonitorsOK'
    BY <1>1, <1>2, <1>6 DEF MonitorsOK
  <2>6. OnlyBoard(b)
    BY <1>1, <1>2, <1>4, <1>6, <2>2, <2>3, BoardsAssumption
       DEF OnlyBoard, EntryIs, OpIs, TypeOK
  <2>7. BoardOK(b)'
    <3>1. \A y \in Callers : /\ op'[b][y].pid = op[b][y].pid
                             /\ op'[b][y].pc = "idle" \/ op'[b][y] = op[b][y]
                             /\ op[b][y].pid # 0 => op'[b][y] = op[b][y]
      BY <1>3, <2>3 DEF OpIs
    <3>2. table'[b].pid = table[b].pid
      BY <2>2 DEF EntryIs
    <3> QED
      BY <1>1, <1>2, <1>6, <3>1, <3>2 DEF BoardOK
  <2> QED
    BY <2>4, <2>5, <2>6, <2>7, BoardStep
<1> QED
  BY <1>5, <1>6 DEF StartSpawn

(* The end of a start.                                                     *)
LEMMA StartDoneInv ==
  ASSUME BoardsInv, NEW b \in Boards, NEW c \in Callers, StartDone(b, c)
  PROVE  BoardsInv'
<1>1. TypeOK /\ MonitorsOK /\ BoardOK(b)
  BY ByBoard
<1>2. OpIs(b, c, "idle", 0)
  BY <1>1, OpFacts, BoardsAssumption DEF StartDone, Pcs
<1>3. /\ docker' = docker /\ up' = up /\ owner' = owner /\ alive' = alive
      /\ starts' = starts /\ clean' = clean /\ faults' = faults
      /\ unwatched' = unwatched /\ op[b][c].pc = "done"
  BY DEF StartDone
<1>4. CASE /\ docker
           /\ table' = [table EXCEPT ![b] = Entry("Running", 0)]
           /\ monitored' = monitored
  <2>1. EntryIs(b, "Running", 0)
    <3>1. "Running" \in Statuses /\ 0 \in 0 .. MaxStarts
      BY BoardsAssumption DEF Statuses
    <3> QED
      BY <1>1, <1>4, <3>1, EntryFacts
  <2>2. TypeOK'
    BY <1>1, <1>2, <1>3, <1>4, <2>1 DEF TypeOK, EntryIs, OpIs
  <2>3. MonitorsOK'
    BY <1>1, <1>3, <1>4 DEF MonitorsOK
  <2>4. OnlyBoard(b)
    BY <1>1, <1>2, <1>3, <1>4, <2>1, BoardsAssumption
       DEF OnlyBoard, EntryIs, OpIs, TypeOK
  <2>5. BoardOK(b)'
    <3>1. table'[b].pid = 0 /\ 0 <= starts'
      BY <1>1, <1>3, <2>1, BoardsAssumption DEF EntryIs, TypeOK
    <3>2. b \in clean => /\ up[ContainerOf[b]] = b
                         /\ \A y \in Callers : op'[b][y].pc = "idle"
      BY <1>1, <1>2, <1>3, <1>4 DEF BoardOK, OpIs
    <3>3. \A y \in Callers : op'[b][y].pid = 0
      BY <1>1, <1>2, <1>4 DEF BoardOK, OpIs
    <3> QED
      BY <1>3, <1>4, <3>1, <3>2, <3>3 DEF BoardOK, Busy
  <2> QED
    BY <2>2, <2>3, <2>4, <2>5, BoardStep
<1>5. CASE /\ ~docker
           /\ monitored' = monitored \cup {op[b][c].pid}
           /\ table' = table
  <2>1. /\ op[b][c].pid \in Pids
        /\ op[b][c].pid <= starts
        /\ owner[op[b][c].pid] = b
    BY <1>1, <1>3, <1>5, BoardsAssumption DEF BoardOK, TypeOK, Operations, Pids
  <2>2. TypeOK'
    BY <1>1, <1>2, <1>3, <1>5, <2>1 DEF TypeOK, OpIs
  <2>3. MonitorsOK'
    BY <1>1, <1>3, <1>5, <2>1 DEF MonitorsOK
  <2>4. OnlyBoard(b)
    BY <1>1, <1>2, <1>3, <1>5, BoardsAssumption DEF OnlyBoard, OpIs, TypeOK
  <2>5. BoardOK(b)'
    BY <1>1, <1>2, <1>3, <1>5, <2>1 DEF BoardOK, OpIs
  <2> QED
    BY <2>2, <2>3, <2>4, <2>5, BoardStep
<1> QED
  BY <1>4, <1>5 DEF StartDone

-----------------------------------------------------------------------------
(* The steps of a stop, and create_device.                                 *)

(* The first step of a stop, under the lock, keeps the invariant.          *)
LEMMA StopBeginInv ==
  ASSUME BoardsInv, NEW b \in Boards, StopBegin(b)
  PROVE  BoardsInv'
<1> DEFINE c == "operator"
<1>1. TypeOK /\ MonitorsOK /\ BoardOK(b) /\ c \in Callers
  BY ByBoard DEF Callers
<1>2. /\ docker' = docker /\ up' = up /\ owner' = owner
      /\ monitored' = monitored /\ unwatched' = unwatched
      /\ starts' = starts /\ clean' \subseteq clean
      /\ b \in clean' => ~Busy(b)
      /\ op[b][c].pc = "idle"
  BY DEF StopBegin, watchVars
<1>3. faults' \in 0 .. MaxFaults /\ starts \in 0 .. MaxStarts /\ 0 <= starts
  BY <1>1, BoardsAssumption DEF StopBegin, Fault, TypeOK
<1>4. table[b] \in Entries
  BY <1>1 DEF TypeOK
<1>5. PICK s \in Statuses, p \in 0 .. MaxStarts :
        /\ EntryIs(b, s, p)
        /\ p = 0 \/ p = table[b].pid
        /\ docker => s # "Running"
  <2>1. /\ {"Stopping", "Stopped", "Error"} \subseteq Statuses
        /\ 0 \in 0 .. MaxStarts
        /\ table[b].pid \in 0 .. MaxStarts
        /\ table[b].status \in Statuses
    BY <1>4, BoardsAssumption DEF Statuses, Entries
  <2>2. \/ table' = [table EXCEPT ![b].status = "Stopping"]
        \/ ~docker /\ table' = table
        \/ table' = [table EXCEPT ![b] = Entry("Stopped", 0)]
        \/ table' = [table EXCEPT ![b].status = "Error"]
    BY DEF StopBegin
  <2>3. \/ EntryIs(b, "Stopping", table[b].pid)
        \/ ~docker /\ EntryIs(b, table[b].status, table[b].pid)
        \/ EntryIs(b, "Stopped", 0)
        \/ EntryIs(b, "Error", table[b].pid)
    BY <1>1, <2>1, <2>2, EntryFacts
  <2> QED
    BY <2>1, <2>3
<1>6. PICK pc \in Pcs : /\ OpIs(b, c, pc, op[b][c].pid)
                        /\ pc = "idle" \/ (docker /\ pc = "stop")
  <2>1. op' = op \/ (docker /\ Goto(b, c, "stop"))
    BY DEF StopBegin
  <2> HIDE DEF c
  <2> QED
    BY <1>1, <1>2, <2>1, OpFacts, BoardsAssumption DEF Pcs
<1> HIDE DEF c
<1>7. alive' \subseteq Pids
  BY <1>1 DEF StopBegin, TypeOK
<1>8. TypeOK'
  BY <1>1, <1>2, <1>3, <1>5, <1>6, <1>7 DEF TypeOK, EntryIs, OpIs
<1>9. MonitorsOK'
  BY <1>1, <1>2 DEF MonitorsOK
<1>10. OnlyBoard(b)
  BY <1>1, <1>2, <1>3, <1>5, <1>6, BoardsAssumption
     DEF OnlyBoard, EntryIs, OpIs, TypeOK
<1>11. BoardOK(b)'
  <2>1. \A y \in Callers : op'[b][y].pid = op[b][y].pid
    BY <1>6 DEF OpIs
  <2>2. \A y \in Callers : op'[b][y].pc = op[b][y].pc \/ (docker /\ y = c)
    BY <1>2, <1>6 DEF OpIs
  <2>3. ASSUME docker, b \in clean'
        PROVE  /\ \A y \in Callers \ {c} : op'[b][y].pc = "idle"
               /\ op'[b][c].pc # "done"
               /\ table'[b].status # "Running"
    BY <1>2, <1>5, <1>6, <2>3 DEF OpIs, EntryIs, Busy
  <2>4. table'[b].pid = 0 \/ table'[b].pid = table[b].pid
    BY <1>5 DEF EntryIs
  <2>5. docker => \A y \in Callers : op[b][y].pid = 0
    BY <1>1 DEF BoardOK
  <2> QED
    BY <1>1, <1>2, <1>3, <2>1, <2>2, <2>3, <2>4, <2>5 DEF BoardOK
<1> QED
  BY <1>8, <1>9, <1>10, <1>11, BoardStep

(* Removing the container of a stop keeps the invariant.                   *)
LEMMA StopRemoveInv ==
  ASSUME BoardsInv, NEW b \in Boards, NEW c \in Callers, StopRemove(b, c)
  PROVE  BoardsInv'
<1>1. TypeOK /\ MonitorsOK /\ BoardOK(b)
  BY ByBoard
<1>2. OpIs(b, c, "stopped", op[b][c].pid)
  BY <1>1, OpFacts, BoardsAssumption DEF StopRemove, Pcs
<1>3. /\ docker' = docker /\ table' = table /\ UNCHANGED procVars
      /\ faults' = faults
      /\ op[b][c].pc = "stop"
      /\ up' = [up EXCEPT ![ContainerOf[b]] = None]
      /\ clean' = clean \ ({up[ContainerOf[b]]} \ {b})
  BY DEF StopRemove
<1>4. docker /\ op[b][c].pid = 0 /\ table[b].pid = 0
  BY <1>1, <1>3 DEF BoardOK
<1>5. up' \in [Containers -> Boards \cup {None}] /\ clean' \subseteq clean
  BY <1>1, <1>3 DEF TypeOK
<1>6. TypeOK'
  BY <1>1, <1>2, <1>3, <1>5 DEF TypeOK, OpIs, procVars, watchVars
<1>7. MonitorsOK'
  BY <1>1, <1>3 DEF MonitorsOK, procVars, watchVars
<1>8. ASSUME NEW x \in Boards \ {b}, x \in clean', up[ContainerOf[x]] = x
      PROVE  up'[ContainerOf[x]] = x
  BY <1>1, <1>3, <1>8, BoardsAssumption DEF TypeOK
<1>9. OnlyBoard(b)
  BY <1>1, <1>2, <1>3, <1>5, <1>8, BoardsAssumption
     DEF OnlyBoard, OpIs, procVars, watchVars, TypeOK
<1>10. BoardOK(b)'
  <2>1. ASSUME b \in clean'
        PROVE  /\ table[b].status # "Running"
               /\ \A y \in Callers \ {c} : op'[b][y].pc = "idle"
    <3>1. docker /\ b \in clean
      BY <1>4, <1>5, <2>1
    <3>2. /\ table[b].status = "Running" => ~Busy(b)
          /\ \A y \in Callers : op[b][y].pc # "idle" => y = c
      BY <1>1, <1>3, <3>1 DEF BoardOK
    <3>3. \A y \in Callers \ {c} : op'[b][y] = op[b][y]
      BY <1>2 DEF OpIs
    <3> QED
      BY <1>3, <3>2, <3>3 DEF Busy
  <2>2. op'[b][c].pc = "stopped" /\ \A y \in Callers : op'[b][y].pid = 0
    BY <1>1, <1>2, <1>4 DEF BoardOK, OpIs
  <2>3. table[b].pid <= starts
    BY <1>1 DEF BoardOK
  <2> QED
    BY <1>3, <1>4, <2>1, <2>2, <2>3 DEF BoardOK, procVars, watchVars
<1> QED
  BY <1>6, <1>7, <1>9, <1>10, BoardStep

(* The end of a stop keeps the invariant.                                  *)
LEMMA StopDoneInv ==
  ASSUME BoardsInv, NEW b \in Boards, NEW c \in Callers, StopDone(b, c)
  PROVE  BoardsInv'
<1>1. TypeOK /\ MonitorsOK /\ BoardOK(b)
  BY ByBoard
<1>2. OpIs(b, c, "idle", 0)
  BY <1>1, OpFacts, BoardsAssumption DEF StopDone, Pcs
<1>3. EntryIs(b, "Stopped", 0)
  <2>1. "Stopped" \in Statuses /\ 0 \in 0 .. MaxStarts
    BY BoardsAssumption DEF Statuses
  <2> QED
    BY <1>1, <2>1, EntryFacts DEF StopDone
<1>4. /\ docker' = docker /\ up' = up /\ UNCHANGED procVars
      /\ faults' = faults
      /\ op[b][c].pc = "stopped"
      /\ clean' \subseteq clean \cup {b}
      /\ b \in clean' /\ b \notin clean
           => \A y \in Callers \ {c} : op[b][y].pc = "idle"
  BY DEF StopDone, Others
<1>5. docker /\ 0 <= starts
  BY <1>1, <1>4, BoardsAssumption DEF BoardOK, TypeOK
<1>6. TypeOK'
  BY <1>1, <1>2, <1>3, <1>4 DEF TypeOK, EntryIs, OpIs, procVars, watchVars
<1>7. MonitorsOK'
  BY <1>1, <1>4 DEF MonitorsOK, procVars, watchVars
<1>8. OnlyBoard(b)
  BY <1>1, <1>2, <1>3, <1>4, BoardsAssumption
     DEF OnlyBoard, EntryIs, OpIs, procVars, watchVars, TypeOK
<1>9. BoardOK(b)'
  <2>1. b \in clean' => \A y \in Callers : op'[b][y].pc = "idle"
    BY <1>1, <1>2, <1>4, <1>5 DEF BoardOK, OpIs
  <2>2. \A y \in Callers : op'[b][y].pid = 0
    BY <1>1, <1>2, <1>5 DEF BoardOK, OpIs
  <2> QED
    BY <1>3, <1>4, <1>5, <2>1, <2>2 DEF BoardOK, EntryIs, Busy, procVars, watchVars
<1> QED
  BY <1>6, <1>7, <1>8, <1>9, BoardStep

(* Creating a device keeps the invariant.                                  *)
LEMMA CreateInv ==
  ASSUME BoardsInv, NEW b \in Boards, create_device(b)
  PROVE  BoardsInv'
<1>1. TypeOK /\ MonitorsOK /\ BoardOK(b)
  BY ByBoard
<1>2. EntryIs(b, "Stopped", 0)
  <2>1. "Stopped" \in Statuses /\ 0 \in 0 .. MaxStarts
    BY BoardsAssumption DEF Statuses
  <2> QED
    BY <1>1, <2>1, EntryFacts DEF create_device
<1>3. /\ docker' = docker /\ up' = up /\ UNCHANGED procVars
      /\ faults' = faults /\ op' = op /\ clean' = clean
  BY DEF create_device
<1>4. 0 <= starts
  BY <1>1, BoardsAssumption DEF TypeOK
<1>5. TypeOK'
  BY <1>1, <1>2, <1>3 DEF TypeOK, EntryIs, procVars, watchVars
<1>6. MonitorsOK'
  BY <1>1, <1>3 DEF MonitorsOK, procVars, watchVars
<1>7. OnlyBoard(b)
  BY <1>1, <1>2, <1>3, BoardsAssumption DEF OnlyBoard, EntryIs, procVars, watchVars, TypeOK
<1>8. BoardOK(b)'
  BY <1>1, <1>2, <1>3, <1>4 DEF BoardOK, EntryIs, Busy, procVars, watchVars
<1> QED
  BY <1>5, <1>6, <1>7, <1>8, BoardStep

-----------------------------------------------------------------------------
(* The rest of the world.                                                  *)

(* A container that dies by itself keeps the invariant.                    *)
LEMMA ContainerDiesInv ==
  ASSUME BoardsInv, NEW b \in Boards, ContainerDies(b)
  PROVE  BoardsInv'
<1>1. TypeOK /\ MonitorsOK /\ BoardOK(b)
  BY ByBoard
<1>2. /\ docker' = docker /\ table' = table /\ UNCHANGED procVars
      /\ op' = op /\ clean' = clean \ {b}
      /\ up[ContainerOf[b]] = b
      /\ up' = [up EXCEPT ![ContainerOf[b]] = None]
  BY DEF ContainerDies
<1>3. faults' \in 0 .. MaxFaults
  BY <1>1, BoardsAssumption DEF ContainerDies, Fault, TypeOK
<1>4. up' \in [Containers -> Boards \cup {None}]
  BY <1>1, <1>2 DEF TypeOK
<1>5. TypeOK'
  BY <1>1, <1>2, <1>3, <1>4 DEF TypeOK, procVars, watchVars
<1>6. MonitorsOK'
  BY <1>1, <1>2 DEF MonitorsOK, procVars, watchVars
<1>7. ASSUME NEW x \in Boards \ {b}, up[ContainerOf[x]] = x
      PROVE  up'[ContainerOf[x]] = x
  BY <1>1, <1>2, <1>7, BoardsAssumption DEF TypeOK
<1>8. OnlyBoard(b)
  BY <1>1, <1>2, <1>7, BoardsAssumption DEF OnlyBoard, procVars, watchVars, TypeOK
<1>9. BoardOK(b)'
  BY <1>1, <1>2 DEF BoardOK, Busy, procVars, watchVars
<1> QED
  BY <1>5, <1>6, <1>8, <1>9, BoardStep

(* A process that dies by itself keeps the invariant.                      *)
LEMMA ProcessDiesInv ==
  ASSUME BoardsInv, NEW p \in Pids, ProcessDies(p)
  PROVE  BoardsInv'
<1>1. TypeOK /\ MonitorsOK /\ \A b \in Boards : BoardOK(b)
  BY ByBoard
<1>2. TypeOK'
  BY <1>1, BoardsAssumption DEF ProcessDies, Fault, TypeOK, watchVars
<1>3. MonitorsOK'
  BY <1>1 DEF ProcessDies, MonitorsOK, watchVars
<1>4. \A b \in Boards : BoardOK(b)'
  BY <1>1 DEF ProcessDies, BoardOK, Busy, watchVars
<1> QED
  BY <1>2, <1>3, <1>4, ByBoardPrimed

(* The monitor that reports a dead process keeps the invariant.            *)
LEMMA MonitorReportsInv ==
  ASSUME BoardsInv, NEW p \in Pids, MonitorReports(p)
  PROVE  BoardsInv'
<1>1. TypeOK /\ MonitorsOK /\ p \in monitored
  BY ByBoard DEF MonitorReports
<1>2. PICK b \in Boards : owner[p] = b
  BY <1>1 DEF MonitorsOK
<1>3. BoardOK(b)
  BY <1>2, ByBoard
<1>4. /\ docker' = docker /\ up' = up /\ owner' = owner /\ alive' = alive
      /\ starts' = starts /\ op' = op /\ clean' = clean /\ faults' = faults
      /\ monitored' = monitored \ {p} /\ unwatched' = unwatched
  BY DEF MonitorReports
<1>5. PICK s \in Statuses : EntryIs(b, s, 0) /\ s # "Running"
  <2>1. {"Stopped", "absent"} \subseteq Statuses /\ 0 \in 0 .. MaxStarts
    BY BoardsAssumption DEF Statuses
  <2>2. CASE table[b] = Absent
    <3>1. table' = table
      BY <1>2, <2>2 DEF MonitorReports
    <3>2. EntryIs(b, "absent", 0)
      BY <1>1, <1>2, <2>2, <3>1 DEF EntryIs, TypeOK, Absent, Entry
    <3> QED
      BY <2>1, <3>2
  <2>3. CASE table[b] # Absent
    <3>1. table' = [table EXCEPT ![b] = Entry("Stopped", 0)]
      BY <1>2, <2>3 DEF MonitorReports
    <3>2. EntryIs(b, "Stopped", 0)
      BY <1>1, <1>2, <2>1, <3>1, EntryFacts
    <3> QED
      BY <2>1, <3>2
  <2> QED
    BY <2>2, <2>3
<1>6. \A q \in monitored \cup unwatched :
        q \in monitored' \cup unwatched' \/ owner[q] = b
  BY <1>2, <1>4
<1>7. 0 <= starts
  BY <1>1, BoardsAssumption DEF TypeOK
<1>8. TypeOK'
  BY <1>1, <1>4, <1>5 DEF TypeOK, EntryIs
<1>9. MonitorsOK'
  BY <1>1, <1>4 DEF MonitorsOK
<1>10. OnlyBoard(b)
  BY <1>1, <1>4, <1>5, <1>6, BoardsAssumption DEF OnlyBoard, EntryIs, TypeOK
<1>11. BoardOK(b)'
  BY <1>2, <1>3, <1>4, <1>5, <1>7 DEF BoardOK, EntryIs, Busy
<1> QED
  BY <1>2, <1>8, <1>9, <1>10, <1>11, BoardStep

(* A monitor thread that gives up leaves its process unwatched.            *)
LEMMA MonitorGivesUpInv ==
  ASSUME BoardsInv, NEW p \in Pids, MonitorGivesUp(p)
  PROVE  BoardsInv'
<1>1. TypeOK /\ MonitorsOK /\ \A b \in Boards : BoardOK(b)
  BY ByBoard
<1>2. TypeOK'
  BY <1>1, BoardsAssumption DEF MonitorGivesUp, Fault, TypeOK
<1>3. MonitorsOK'
  BY <1>1 DEF MonitorGivesUp, MonitorsOK
<1>4. \A b \in Boards : BoardOK(b)'
  <2>1. monitored' \cup unwatched' = monitored \cup unwatched
    BY DEF MonitorGivesUp
  <2> QED
    BY <1>1, <2>1 DEF MonitorGivesUp, BoardOK, Busy
<1> QED
  BY <1>2, <1>3, <1>4, ByBoardPrimed

(* A restart of the server keeps the invariant: table, operations and      *)
(* monitors are forgotten, containers and processes stay.                  *)
LEMMA ServerRestartsInv ==
  ASSUME BoardsInv, ServerRestarts
  PROVE  BoardsInv'
<1>1. TypeOK
  BY ByBoard
<1>2. TypeOK'
  <2>1. faults' \in 0 .. MaxFaults
    BY <1>1, BoardsAssumption DEF ServerRestarts, Fault, TypeOK
  <2>2. Absent \in Entries /\ Idle \in Operations
    BY BoardsAssumption
       DEF Absent, Entry, Idle, Entries, Operations, Statuses, Pcs
  <2> QED
    BY <1>1, <2>1, <2>2 DEF ServerRestarts, TypeOK
<1>3. MonitorsOK'
  BY DEF ServerRestarts, MonitorsOK
<1>4. \A b \in Boards : BoardOK(b)'
  BY <1>1, BoardsAssumption
     DEF ServerRestarts, BoardOK, Busy, Absent, Entry, Idle, TypeOK
<1> QED
  BY <1>2, <1>3, <1>4, ByBoardPrimed

(* A dropped request leaves the entry and the emulator as they are; a      *)
(* process that it had spawned is unwatched.                               *)
LEMMA RequestDroppedInv ==
  ASSUME BoardsInv, NEW b \in Boards, NEW c \in Callers, RequestDropped(b, c)
  PROVE  BoardsInv'
<1>1. TypeOK /\ MonitorsOK /\ BoardOK(b)
  BY ByBoard
<1>2. OpIs(b, c, "idle", 0)
  BY <1>1, OpFacts, BoardsAssumption DEF RequestDropped, Pcs
<1>3. /\ docker' = docker /\ table' = table /\ up' = up /\ owner' = owner
      /\ alive' = alive /\ monitored' = monitored /\ starts' = starts
      /\ clean' = clean /\ faults' = faults
      /\ unwatched' = unwatched \cup ({op[b][c].pid} \ {0})
  BY DEF RequestDropped
<1>4. op[b][c].pid # 0 => op[b][c].pid \in Pids
  BY <1>1, BoardsAssumption DEF TypeOK, Operations, Pids
<1>5. TypeOK'
  BY <1>1, <1>2, <1>3, <1>4 DEF TypeOK, OpIs
<1>6. MonitorsOK'
  BY <1>1, <1>3 DEF MonitorsOK
<1>7. OnlyBoard(b)
  BY <1>1, <1>2, <1>3, BoardsAssumption DEF OnlyBoard, OpIs, TypeOK
<1>8. \A y \in Callers : \/ op'[b][y] = op[b][y]
                         \/ /\ y = c /\ op'[b][y].pc = "idle"
                            /\ op'[b][y].pid = 0
  BY <1>2 DEF OpIs
<1>9. table[b].pid # 0 =>
        \/ table[b].pid \in monitored' \cup unwatched'
        \/ \E y \in Callers : op'[b][y].pid = table[b].pid
  BY <1>1, <1>3, <1>8 DEF BoardOK
<1>10. BoardOK(b)'
  BY <1>1, <1>3, <1>8, <1>9 DEF BoardOK, Busy
<1> QED
  BY <1>5, <1>6, <1>7, <1>10, BoardStep

-----------------------------------------------------------------------------
(* Every step keeps the invariant.                                         *)
LEMMA NextInv == BoardsInv /\ [Next]_vars => BoardsInv'
<1> SUFFICES ASSUME BoardsInv, [Next]_vars PROVE BoardsInv'
  OBVIOUS
<1>1. ASSUME NEW b \in Boards, NEW c \in Callers,
             Steps(b, c) \/ RequestDropped(b, c)
      PROVE  BoardsInv'
  BY <1>1, StartMarkInv, StartRemoveInv, StartRunInv, StartSpawnInv,
     StartDoneInv, StopRemoveInv, StopDoneInv, RequestDroppedInv DEF Steps
<1>2. ASSUME NEW b \in Boards, Requests(b) \/ ContainerDies(b)
      PROVE  BoardsInv'
  BY <1>2, StartBeginInv, StopBeginInv, CreateInv, ContainerDiesInv
     DEF Requests, Callers
<1>3. ASSUME NEW p \in Pids,
             ProcessDies(p) \/ MonitorReports(p) \/ MonitorGivesUp(p)
      PROVE  BoardsInv'
  BY <1>3, ProcessDiesInv, MonitorReportsInv, MonitorGivesUpInv
<1>4. CASE UNCHANGED vars
  <2>1. TypeOK /\ MonitorsOK /\ \A b \in Boards : BoardOK(b)
    BY ByBoard
  <2> QED
    BY <1>4, <2>1, ByBoardPrimed
       DEF vars, procVars, watchVars, TypeOK, MonitorsOK, BoardOK, Busy
<1> QED
  BY <1>1, <1>2, <1>3, <1>4, ServerRestartsInv DEF Next

(* The inductive invariant of the Renode manager holds in every behaviour. *)
THEOREM BoardsInvariant == Spec => []BoardsInv
<1>1. Init => BoardsInv
  BY InitInv
<1>2. BoardsInv /\ [Next]_vars => BoardsInv'
  BY NextInv
<1> QED
  BY <1>1, <1>2, PTL DEF Spec

(* A clean board that start_device recorded as Running has its container,  *)
(* whatever other boards share its name.                                   *)
THEOREM RunningBoardsAreUp == Spec => []RunningIsUp
<1>1. BoardsInv => RunningIsUp
  BY DEF BoardsInv
<1> QED
  BY <1>1, BoardsInvariant, PTL

(* A recorded native process has its monitor thread, or the start that     *)
(* will create it, unless that start's request was dropped at its last     *)
(* await or the thread could not poll the process (start_device).          *)
THEOREM RecordedProcessesAreWatched == Spec => []RunningIsWatched
<1>1. BoardsInv => RunningIsWatched
  BY DEF BoardsInv
<1> QED
  BY <1>1, BoardsInvariant, PTL

=============================================================================

--------------------------- MODULE EmulatedBoards ---------------------------
(***************************************************************************)
(* The Renode manager of the API server: its table of emulated boards, the *)
(* containers or processes that run them.                                  *)
(*                                                                         *)
(* The table is behind a mutex that start_device and stop_device release   *)
(* while they run docker or kubectl, so that two operations on one board   *)
(* interleave; each step below is what is done under one hold of it, or    *)
(* one command.  An operation runs in the future of its HTTP request, which *)
(* is dropped at an await when the caller or the server gives up.           *)
(* RENODE_USE_DOCKER decides between containers and native   *)
(* processes for the whole life of the server.  Addresses, scripts and     *)
(* firmware files are abstracted; the gateway's list of boards is a view   *)
(* that nothing reads back.                                                *)
(***************************************************************************)
EXTENDS Naturals

CONSTANTS
  Boards,        \* device ids
  Containers,    \* docker container names
  ContainerOf,   \* renode_container_name: the name has 16 characters of the id
  MaxStarts,     \* bound on native processes
  MaxFaults,     \* bound on failures and operator requests
  None

ASSUME BoardsAssumption ==
  /\ ContainerOf \in [Boards -> Containers]
  /\ None \notin Boards
  /\ MaxStarts \in Nat
  /\ MaxFaults \in Nat

(* Requests for one board come from the device controller, which starts it *)
(* again and again, and from operators, who also stop it.                  *)
Callers == {"controller", "operator"}

VARIABLES
  docker,     \* RENODE_USE_DOCKER
  table,      \* the manager's devices
  up,         \* board that runs in each container, or None
  owner,      \* board that each native process was spawned for, or None
  alive,      \* native processes that have not ended
  monitored,  \* processes with a monitor thread
  unwatched,  \* processes whose start was dropped before it made that
              \* thread, or whose thread could not poll them (history)
  starts,     \* native processes spawned so far
  op,         \* operation in progress, for each board and caller
  clean,      \* boards whose operations never overlapped and whose emulator
              \* nobody else ended, since their last stop (history)
  faults      \* failures and operator requests so far

watchVars == <<monitored, unwatched>>
procVars == <<owner, alive, watchVars, starts>>
vars == <<docker, table, up, procVars, op, clean, faults>>

Pids == 1 .. MaxStarts

Statuses == {"absent", "Stopped", "Starting", "Running", "Stopping", "Error"}

Entry(status, pid) == [status |-> status, pid |-> pid]

Absent == Entry("absent", 0)

Idle == [pc |-> "idle", pid |-> 0]

Init ==
  /\ docker \in BOOLEAN
  /\ table = [b \in Boards |-> Absent]
  /\ up = [c \in Containers |-> None]
  /\ owner = [p \in Pids |-> None]
  /\ alive = {}
  /\ monitored = {}
  /\ unwatched = {}
  /\ starts = 0
  /\ op = [b \in Boards |-> [c \in Callers |-> Idle]]
  /\ clean = Boards
  /\ faults = 0

Fault == faults < MaxFaults /\ faults' = faults + 1

Goto(b, c, pc) == op' = [op EXCEPT ![b][c].pc = pc]

Finish(b, c) == op' = [op EXCEPT ![b][c] = Idle]

Busy(b) == \E c \in Callers : op[b][c].pc # "idle"

Others(b, c) == \E x \in Callers \ {c} : op[b][x].pc # "idle"

-----------------------------------------------------------------------------
(* start_device *)

(* start_emulation creates the entry if there is none; start_device then   *)
(* replaces it by what the Device resource says, but keeps its status and  *)
(* process.  The addresses of the gateway are looked up without the lock.  *)
StartBegin(b, c) ==
  LET entry == IF table[b] = Absent THEN Entry("Stopped", 0)
                                    ELSE table[b]
  IN  /\ op[b][c].pc = "idle"
      /\ table' = [table EXCEPT ![b] = entry]
      /\ IF c = "controller" THEN UNCHANGED faults ELSE Fault
      /\ IF entry.status = "Running" THEN UNCHANGED op ELSE Goto(b, c, "mark")
      /\ clean' = IF Busy(b) THEN clean \ {b} ELSE clean
      /\ UNCHANGED <<docker, up, procVars>>

(* Under the lock again: the status is set whatever it has become.  A      *)
(* missing firmware ends the start and leaves Starting.                    *)
StartMark(b, c) ==
  /\ op[b][c].pc = "mark"
  /\ docker
  /\ table' = [table EXCEPT ![b].status = "Starting"]
  /\ \/ Goto(b, c, "remove") /\ UNCHANGED faults
     \/ Fault /\ Finish(b, c)
  /\ UNCHANGED <<docker, up, procVars, clean>>

(* Mutant: the container of an earlier run is left for docker run to find. *)
StartRemoveNothing(b, c) ==
  /\ op[b][c].pc = "remove"
  /\ Goto(b, c, "run")
  /\ UNCHANGED <<docker, table, up, procVars, clean, faults>>

(* The firmware is copied, the script written and the container of that    *)
(* name removed, whichever board it is.                                    *)
StartRemove(b, c) ==
  LET name == ContainerOf[b]
  IN  /\ op[b][c].pc = "remove"
      /\ \/ /\ up' = [up EXCEPT ![name] = None]
            /\ clean' = clean \ ({up[name]} \ {b})
            /\ Goto(b, c, "run")
            /\ UNCHANGED faults
         \/ Fault /\ Finish(b, c) /\ UNCHANGED <<up, clean>>
      /\ UNCHANGED <<docker, table, procVars>>

(* Mutant: a failing docker run is logged and the start goes on.           *)
StartRunUnchecked(b, c) ==
  LET name == ContainerOf[b]
  IN  /\ op[b][c].pc = "run"
      /\ \/ /\ up[name] = None
            /\ up' = [up EXCEPT ![name] = b]
            /\ UNCHANGED faults
         \/ Fault /\ UNCHANGED up
      /\ Goto(b, c, "done")
      /\ UNCHANGED <<docker, table, procVars, clean>>

(* docker run fails when the name is taken, or for its own reasons.        *)
StartRun(b, c) ==
  LET name == ContainerOf[b]
  IN  /\ op[b][c].pc = "run"
      /\ \/ /\ up[name] = None
            /\ up' = [up EXCEPT ![name] = b]
            /\ Goto(b, c, "done")
            /\ UNCHANGED faults
         \/ /\ up[name] # None
            /\ Finish(b, c)
            /\ UNCHANGED <<up, faults>>
         \/ Fault /\ Finish(b, c) /\ UNCHANGED up
      /\ UNCHANGED <<docker, table, procVars, clean>>

(* A native process is spawned under the lock that marks the status.       *)
StartSpawn(b, c) ==
  /\ op[b][c].pc = "mark"
  /\ ~docker
  /\ \/ /\ starts < MaxStarts
        /\ starts' = starts + 1
        /\ owner' = [owner EXCEPT ![starts + 1] = b]
        /\ alive' = alive \cup {starts + 1}
        /\ table' = [table EXCEPT ![b] = Entry("Running", starts + 1)]
        /\ op' = [op EXCEPT ![b][c] = [pc |-> "done", pid |-> starts + 1]]
        /\ UNCHANGED faults
     \/ /\ Fault
        /\ table' = [table EXCEPT ![b].status = "Error"]
        /\ Finish(b, c)
        /\ UNCHANGED <<starts, owner, alive>>
  /\ UNCHANGED <<docker, up, watchVars, clean>>

(* Mutant: the thread that waits for the process is not started.           *)
StartDoneUnwatched(b, c) ==
  /\ op[b][c].pc = "done"
  /\ table' = IF docker THEN [table EXCEPT ![b] = Entry("Running", 0)]
                        ELSE table
  /\ Finish(b, c)
  /\ UNCHANGED <<docker, up, procVars, clean, faults>>

(* After the gateway was told, whose answer is only logged, a container is *)
(* recorded as Running and a process gets its monitor thread.              *)
StartDone(b, c) ==
  /\ op[b][c].pc = "done"
  /\ \/ /\ docker
        /\ table' = [table EXCEPT ![b] = Entry("Running", 0)]
        /\ UNCHANGED monitored
     \/ /\ ~docker
        /\ monitored' = monitored \cup {op[b][c].pid}
        /\ UNCHANGED table
  /\ Finish(b, c)
  /\ UNCHANGED <<docker, up, owner, alive, unwatched, starts, clean, faults>>

-----------------------------------------------------------------------------
(* stop_device *)

(* A process is killed under the lock; a kill that fails, the first or the  *)
(* second, leaves Error and the pid.                                       *)
StopBegin(b) ==
  LET c == "operator"
      p == table[b].pid
  IN  /\ op[b][c].pc = "idle"
      /\ table[b] # Absent
      /\ Fault
      /\ \/ /\ docker
            /\ table' = [table EXCEPT ![b].status = "Stopping"]
            /\ Goto(b, c, "stop")
            /\ UNCHANGED alive
         \/ /\ ~docker
            /\ table' = IF p = 0 THEN table
                                  ELSE [table EXCEPT ![b] = Entry("Stopped", 0)]
            /\ alive' = alive \ {p}
            /\ UNCHANGED op
         \/ /\ ~docker
            /\ p # 0
            /\ table' = [table EXCEPT ![b].status = "Error"]
            /\ \E killed \in SUBSET {p} : alive' = alive \ killed
            /\ UNCHANGED op
      /\ clean' = IF Busy(b) THEN clean \ {b} ELSE clean
      /\ UNCHANGED <<docker, up, owner, watchVars, starts>>

StopRemove(b, c) ==
  LET name == ContainerOf[b]
  IN  /\ op[b][c].pc = "stop"
      /\ up' = [up EXCEPT ![name] = None]
      /\ clean' = clean \ ({up[name]} \ {b})
      /\ Goto(b, c, "stopped")
      /\ UNCHANGED <<docker, table, procVars, faults>>

StopDone(b, c) ==
  /\ op[b][c].pc = "stopped"
  /\ table' = [table EXCEPT ![b] = Entry("Stopped", 0)]
  /\ Finish(b, c)
  /\ clean' = IF Others(b, c) THEN clean ELSE clean \cup {b}
  /\ UNCHANGED <<docker, up, procVars, faults>>

-----------------------------------------------------------------------------
(* A request is given up: by the device controller after 10 seconds, by    *)
(* the server's own timeout, by a client that goes away.  Its future is    *)
(* dropped where it awaits: a lock, or the gateway's answer.  Docker       *)
(* commands and the wait after docker run block the task and are not cut.  *)
(* What was done stays; a process that was spawned has no monitor thread,  *)
(* a container that was started is not recorded.                           *)
RequestDropped(b, c) ==
  /\ op[b][c].pc \in {"mark", "remove", "done", "stopped"}
  /\ unwatched' = unwatched \cup ({op[b][c].pid} \ {0})
  /\ Finish(b, c)
  /\ UNCHANGED <<docker, table, up, owner, alive, monitored, starts, clean,
                 faults>>

-----------------------------------------------------------------------------
(* The rest of the world *)

create_device(b) ==
  /\ table[b] = Absent
  /\ table' = [table EXCEPT ![b] = Entry("Stopped", 0)]
  /\ UNCHANGED <<docker, up, procVars, op, clean, faults>>

(* An emulator ends by itself.                                             *)
ContainerDies(b) ==
  /\ up[ContainerOf[b]] = b
  /\ Fault
  /\ up' = [up EXCEPT ![ContainerOf[b]] = None]
  /\ clean' = clean \ {b}
  /\ UNCHANGED <<docker, table, procVars, op>>

ProcessDies(p) ==
  /\ p \in alive
  /\ Fault
  /\ alive' = alive \ {p}
  /\ UNCHANGED <<docker, table, up, owner, watchVars, starts, op, clean>>

(* The monitor thread records the end of its process, in whatever entry    *)
(* the board has by then.                                                  *)
MonitorReports(p) ==
  LET b == owner[p]
  IN  /\ p \in monitored \ alive
      /\ table' = IF table[b] = Absent
                    THEN table
                    ELSE [table EXCEPT ![b] = Entry("Stopped", 0)]
      /\ monitored' = monitored \ {p}
      /\ UNCHANGED <<docker, up, owner, alive, unwatched, starts, op, clean,
                     faults>>

(* The monitor thread cannot poll its process and ends without a report.   *)
MonitorGivesUp(p) ==
  /\ p \in monitored
  /\ Fault
  /\ monitored' = monitored \ {p}
  /\ unwatched' = unwatched \cup {p}
  /\ UNCHANGED <<docker, table, up, owner, alive, starts, op, clean>>

(* The API server restarts with an empty table; emulators live on.         *)
ServerRestarts ==
  /\ Fault
  /\ table' = [b \in Boards |-> Absent]
  /\ op' = [b \in Boards |-> [c \in Callers |-> Idle]]
  /\ monitored' = {}
  /\ UNCHANGED <<docker, up, owner, alive, unwatched, starts, clean>>

-----------------------------------------------------------------------------
Steps(b, c) ==
  \/ StartMark(b, c)
  \/ StartRemove(b, c)
  \/ StartRun(b, c)
  \/ StartSpawn(b, c)
  \/ StartDone(b, c)
  \/ StopRemove(b, c)
  \/ StopDone(b, c)

Requests(b) ==
  \/ StartBegin(b, "controller")
  \/ StartBegin(b, "operator")
  \/ StopBegin(b)
  \/ create_device(b)

Next ==
  \/ \E b \in Boards : \E c \in Callers : Steps(b, c) \/ RequestDropped(b, c)
  \/ \E b \in Boards : Requests(b) \/ ContainerDies(b)
  \/ \E p \in Pids : ProcessDies(p) \/ MonitorReports(p) \/ MonitorGivesUp(p)
  \/ ServerRestarts

Spec == Init /\ [][Next]_vars

(* An operation whose request is not dropped runs to its end or its error, *)
(* monitor threads return when their process ends, and the device          *)
(* controller asks again every 30 seconds.                                 *)
FairSpec ==
  /\ Spec
  /\ \A b \in Boards :
       /\ \A c \in Callers : WF_vars(Steps(b, c))
       /\ WF_vars(StartBegin(b, "controller"))
  /\ \A p \in Pids : WF_vars(MonitorReports(p))

-----------------------------------------------------------------------------
(* Properties *)

Pcs == {"idle", "mark", "remove", "run", "done", "stop", "stopped"}

Entries == [status : Statuses, pid : 0 .. MaxStarts]

Operations == [pc : Pcs, pid : 0 .. MaxStarts]

TypeOK ==
  /\ docker \in BOOLEAN
  /\ table \in [Boards -> Entries]
  /\ up \in [Containers -> Boards \cup {None}]
  /\ owner \in [Pids -> Boards \cup {None}]
  /\ alive \subseteq Pids
  /\ monitored \subseteq Pids
  /\ unwatched \subseteq Pids
  /\ starts \in 0 .. MaxStarts
  /\ op \in [Boards -> [Callers -> Operations]]
  /\ clean \subseteq Boards
  /\ faults \in 0 .. MaxFaults

(* A board that is recorded as Running in a container, no operation on it  *)
(* overlapping another and nothing else ending its container, has that     *)
(* container: no failed or refused docker run, dropped request or restart  *)
(* of the server leaves a Running entry that no container ever backed.     *)
(* (Overlapping operations, and a board of the same container name, do     *)
(* end a container behind its entry.)                                      *)
RunningIsUp ==
  \A b \in clean :
    docker /\ table[b].status = "Running" => up[ContainerOf[b]] = b

(* A process that the table takes for running is watched by a monitor      *)
(* thread, or the start that spawned it has still to create that thread;   *)
(* the exceptions are a start whose request was dropped while it told the  *)
(* gateway, and a thread that could not poll its process.                  *)
RunningIsWatched ==
  \A b \in Boards :
    LET p == table[b].pid
    IN  p # 0 => /\ owner[p] = b
                 /\ \/ p \in monitored
                    \/ \E c \in Callers : op[b][c].pid = p
                    \/ p \in unwatched

(* How far a clean board's only operation is.                              *)
UpToNow ==
  docker =>
    \A b \in clean :
      /\ \A c, x \in Callers :
           op[b][c].pc # "idle" /\ op[b][x].pc # "idle" => c = x
      /\ table[b].status = "Running" => ~Busy(b)
      /\ (\E c \in Callers : op[b][c].pc = "done") => up[ContainerOf[b]] = b

(* Pids are those of processes spawned for the board, in native mode only. *)
PidsAreOwned ==
  /\ \A b \in Boards :
       /\ docker => table[b].pid = 0
       /\ table[b].pid <= starts
       /\ \A c \in Callers :
            LET o == op[b][c]
            IN  /\ docker => o.pid = 0
                /\ ~docker => o.pc \in {"idle", "mark", "done"}
                /\ ~docker /\ o.pc = "done" => o.pid # 0
                /\ o.pid # 0 => o.pc = "done" /\ o.pid <= starts /\ owner[o.pid] = b
  /\ \A p \in monitored : p <= starts /\ owner[p] \in Boards

(* The inductive invariant: what the table says of a board is what its     *)
(* containers, processes and unfinished operations bear out.               *)
BoardsInv ==
  /\ TypeOK
  /\ RunningIsUp
  /\ RunningIsWatched
  /\ UpToNow
  /\ PidsAreOwned

(* A process that ends without a stop does not stay Running in the table,  *)
(* unless its start was dropped before it had a monitor thread, or the     *)
(* thread could not poll it.                                               *)
DeathIsNoticed ==
  \A b \in Boards : []<>(table[b].pid \in alive \cup {0} \cup unwatched)

(* Whatever failed, and whoever stopped the board, the requests of the     *)
(* device controller bring it back to Running: no entry is stuck in        *)
(* Starting, Stopping or Error, unless requests are cut for ever, for this *)
(* board or for one whose starts take the same container name.  A finite   *)
(* number of dropped requests is made good.                                *)
StartedInTheEnd ==
  \A b \in Boards :
    \/ []<>(table[b].status = "Running")
    \/ []<><<\E x \in Boards, c \in Callers :
              ContainerOf[x] = ContainerOf[b] /\ RequestDropped(x, c)>>_vars

=============================================================================

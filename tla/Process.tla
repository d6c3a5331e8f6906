------------------------------ MODULE Process ------------------------------
(***************************************************************************)
(* Process creation and termination in the MeneOS kernel: spawn_app,       *)
(* spawn_app_from_elf and the exit and IPC branches of handle_syscall      *)
(* (mene-syscall), the tables they update (mene-kernel/src/process), the   *)
(* task they create (mene-task) and the message queues (IpcManager).       *)
(*                                                                         *)
(* NEXT_PID, LIFECYCLE_TABLE, PROCESS_TABLE and PROCESS_ENDPOINTS are four *)
(* separately locked objects, the kernel is preemptible between two lock   *)
(* acquisitions (round-robin scheduling with a timer interrupt), and a     *)
(* child is runnable before its parent has finished spawning it.  Each     *)
(* critical section is one step; pc says where a thread is.  Thread 0 is   *)
(* the boot thread (entry/src/main.rs), thread p is the task of process p. *)
(***************************************************************************)
EXTENDS IpcManager, FiniteSetsExt

CONSTANTS
  Paths,              \* program paths given to spawn
  Preloaded,          \* keys of PRELOADED_ELFS
  has_virtio_in_dtb   \* does the device tree list a virtio device?

ASSUME ProcessAssumption ==
  /\ {"/boot/init", "/boot/fs"} \subseteq Paths
  /\ Preloaded \subseteq Paths
  /\ has_virtio_in_dtb \in BOOLEAN

VARIABLES
  NEXT_PID,         \* the next process id
  LIFECYCLE_TABLE,  \* pid -> ProcessState
  PROCESS_TABLE,    \* pid -> ProcessInfo
  pc,               \* where each thread is
  call              \* the locals of the spawn a thread is executing

tables == <<NEXT_PID, LIFECYCLE_TABLE, PROCESS_TABLE>>
vars == <<endpoints, tables, pc, call>>

Thread == 0 .. MaxPid

(* Running and Faulted are declared in the source; nothing sets them.      *)
ProcessState == {"Created", "Ready", "Running", "Exited", "Faulted"}

(* A cspace maps a handle to a capability for a process's local_endpoint;  *)
(* it is represented by that process's id, 0 meaning no capability.        *)
Handle == 1 .. 5
CSpace == [Handle -> Thread]
ProcessInfo == [app_path : Paths, cspace : CSpace]

SpawnPc == {"register", "init_ipc", "spawn_task", "inject", "insert", "ready"}
ExitPc == {"exit_ipc", "exit_table", "exit_lifecycle"}
Pc == {"boot", "idle", "none", "user", "dead", "faulted"} \cup SpawnPc \cup ExitPc

Call == [pid : Thread, path : Paths, elf : BOOLEAN, cspace : CSpace]
NoCap == [h \in Handle |-> 0]
NoCall == [pid |-> 0, path |-> "/boot/init", elf |-> FALSE, cspace |-> NoCap]

Init ==
  /\ NEXT_PID = 1
  /\ LIFECYCLE_TABLE = <<>>
  /\ PROCESS_TABLE = <<>>
  /\ endpoints = <<>>
  /\ pc = [t \in Thread |-> IF t = 0 THEN "boot" ELSE "none"]
  /\ call = [t \in Thread |-> NoCall]

Goto(t, l) == pc' = [pc EXCEPT ![t] = l]

(* A finished spawn returns to user mode, or to the boot thread's loop.    *)
Return(t) ==
  /\ Goto(t, IF t = 0 THEN "idle" ELSE "user")
  /\ call' = [call EXCEPT ![t] = NoCall]

-----------------------------------------------------------------------------
(* Spawning: spawn_app, spawn_app_from_elf.                                *)

(* Variants named ...Bug are plausible mistakes in the code; each breaks   *)
(* one of the properties below.  This one loads NEXT_PID and forgets to    *)
(* advance it.                                                             *)
allocate_pidBug(t, path, elf) ==
  /\ NEXT_PID <= MaxPid
  /\ call' = [call EXCEPT ![t] =
                [pid |-> NEXT_PID, path |-> path, elf |-> elf, cspace |-> NoCap]]
  /\ Goto(t, "register")
  /\ UNCHANGED <<endpoints, tables>>

allocate_pid(t, path, elf) ==
  /\ NEXT_PID <= MaxPid
  /\ NEXT_PID' = NEXT_PID + 1
  /\ call' = [call EXCEPT ![t] =
                [pid |-> NEXT_PID, path |-> path, elf |-> elf, cspace |-> NoCap]]
  /\ Goto(t, "register")
  /\ UNCHANGED <<endpoints, LIFECYCLE_TABLE, PROCESS_TABLE>>

(* microkernel_init *)
Boot == pc[0] = "boot" /\ allocate_pid(0, "/boot/init", FALSE)

(* MeneSysno::Spawn *)
Spawn(t, path) == t # 0 /\ pc[t] = "user" /\ allocate_pid(t, path, FALSE)

(* MeneSysno::SpawnElf is reserved to the process whose table entry says   *)
(* /boot/fs; a refused call changes nothing.  The check and the following  *)
(* fetch_add are one step: no other thread removes the caller's entry.     *)
IsFsCaller(t) ==
  t \in DOMAIN PROCESS_TABLE /\ PROCESS_TABLE[t].app_path = "/boot/fs"

SpawnElf(t, path) ==
  /\ t # 0 /\ pc[t] = "user"
  /\ IsFsCaller(t)
  /\ allocate_pid(t, path, TRUE)

register_process(t) ==
  /\ pc[t] = "register"
  /\ LIFECYCLE_TABLE' = MapInsert(LIFECYCLE_TABLE, call[t].pid, "Created")
  /\ Goto(t, "init_ipc")
  /\ UNCHANGED <<endpoints, NEXT_PID, PROCESS_TABLE, call>>

InitIpc(t) ==
  /\ pc[t] = "init_ipc"
  /\ init_process(call[t].pid)
  /\ Goto(t, "spawn_task")
  /\ UNCHANGED <<tables, call>>

(* ax_spawn_task makes the child runnable at once.  Only spawn_app looks   *)
(* the path up, and on a miss it returns 0 with nothing undone.            *)
spawn_task(t) ==
  /\ pc[t] = "spawn_task"
  /\ IF call[t].elf \/ call[t].path \in Preloaded
     THEN pc' = [pc EXCEPT ![t] = "inject", ![call[t].pid] = "user"] /\ UNCHANGED call
     ELSE Return(t)
  /\ UNCHANGED <<endpoints, tables>>

(* inject_service_endpoint_by_path: the first entry in pid order.          *)
ServiceOwner(path) ==
  LET owners == {p \in DOMAIN PROCESS_TABLE : PROCESS_TABLE[p].app_path = path}
  IN  IF owners = {} THEN 0 ELSE Min(owners)

(* Two handles of the bootstrap table swapped.                             *)
InjectedCapBug(path, pid, h) ==
  CASE h = 1 -> pid
    [] h = 2 -> ServiceOwner("/boot/serial")
    [] h = 3 -> ServiceOwner("/boot/fs")
    [] h = 4 -> IF has_virtio_in_dtb /\ path # "/boot/serial"
                THEN ServiceOwner("/boot/virtio_blk") ELSE 0
    [] h = 5 -> ServiceOwner("/boot/vmm")

InjectedCap(path, pid, h) ==
  CASE h = 1 -> pid
    [] h = 2 -> ServiceOwner("/boot/serial")
    [] h = 3 -> ServiceOwner("/boot/vmm")
    [] h = 4 -> IF has_virtio_in_dtb /\ path # "/boot/serial"
                THEN ServiceOwner("/boot/virtio_blk") ELSE 0
    [] h = 5 -> ServiceOwner("/boot/fs")

inject_bootstrap_capabilities(t) ==
  /\ pc[t] = "inject"
  /\ call' = [call EXCEPT ![t].cspace =
                [h \in Handle |-> InjectedCap(call[t].path, call[t].pid, h)]]
  /\ Goto(t, "insert")
  /\ UNCHANGED <<endpoints, tables>>

(* A second instance of a program is taken for a duplicate and skipped.    *)
InsertProcessBug(t) ==
  /\ pc[t] = "insert"
  /\ PROCESS_TABLE' = IF ServiceOwner(call[t].path) # 0 THEN PROCESS_TABLE
                      ELSE MapInsert(PROCESS_TABLE, call[t].pid,
                             [app_path |-> call[t].path, cspace |-> call[t].cspace])
  /\ Goto(t, "ready")
  /\ UNCHANGED <<endpoints, NEXT_PID, LIFECYCLE_TABLE, call>>

(* The entry is stored under the parent's pid.                             *)
InsertProcessParentBug(t) ==
  /\ pc[t] = "insert"
  /\ PROCESS_TABLE' = MapInsert(PROCESS_TABLE, t,
                        [app_path |-> call[t].path, cspace |-> call[t].cspace])
  /\ Goto(t, "ready")
  /\ UNCHANGED <<endpoints, NEXT_PID, LIFECYCLE_TABLE, call>>

InsertProcess(t) ==
  /\ pc[t] = "insert"
  /\ PROCESS_TABLE' = MapInsert(PROCESS_TABLE, call[t].pid,
                        [app_path |-> call[t].path, cspace |-> call[t].cspace])
  /\ Goto(t, "ready")
  /\ UNCHANGED <<endpoints, NEXT_PID, LIFECYCLE_TABLE, call>>

(* insert in place of get_mut: a late transition brings an entry back.     *)
SetStateBug(pid, state) == LIFECYCLE_TABLE' = MapInsert(LIFECYCLE_TABLE, pid, state)

(* ProcessSupervisor::transition_state and mark_process_exited: get_mut,   *)
(* so a pid without an entry gets none.                                    *)
SetState(pid, state) ==
  LIFECYCLE_TABLE' = IF pid \in DOMAIN LIFECYCLE_TABLE
                     THEN [LIFECYCLE_TABLE EXCEPT ![pid] = state]
                     ELSE LIFECYCLE_TABLE

(* The parent waits for its child.                                         *)
transition_stateBug(t) ==
  /\ pc[t] = "ready" /\ pc[call[t].pid] = "dead"
  /\ SetState(call[t].pid, "Ready")
  /\ Return(t)
  /\ UNCHANGED <<endpoints, NEXT_PID, PROCESS_TABLE>>

transition_state(t) ==
  /\ pc[t] = "ready"
  /\ SetState(call[t].pid, "Ready")
  /\ Return(t)
  /\ UNCHANGED <<endpoints, NEXT_PID, PROCESS_TABLE>>

-----------------------------------------------------------------------------
(* Termination: Sysno::exit / exit_group, and a user fault.                *)

mark_process_exited(t) ==
  /\ t # 0 /\ pc[t] = "user"
  /\ SetState(t, "Exited")
  /\ Goto(t, "exit_ipc")
  /\ UNCHANGED <<endpoints, NEXT_PID, PROCESS_TABLE, call>>

(* An exit that leaves the endpoint behind.                                *)
ExitIpcBug(t) ==
  /\ pc[t] = "exit_ipc"
  /\ Goto(t, "exit_table")
  /\ UNCHANGED <<endpoints, tables, call>>

ExitIpc(t) ==
  /\ pc[t] = "exit_ipc"
  /\ cleanup_process(t)
  /\ Goto(t, "exit_table")
  /\ UNCHANGED <<tables, call>>

ExitTable(t) ==
  /\ pc[t] = "exit_table"
  /\ PROCESS_TABLE' = MapRemove(PROCESS_TABLE, t)
  /\ Goto(t, "exit_lifecycle")
  /\ UNCHANGED <<endpoints, NEXT_PID, LIFECYCLE_TABLE, call>>

(* ProcessSupervisor::cleanup_process, then axtask::exit.                  *)
ExitLifecycle(t) ==
  /\ pc[t] = "exit_lifecycle"
  /\ LIFECYCLE_TABLE' = MapRemove(LIFECYCLE_TABLE, t)
  /\ Goto(t, "dead")
  /\ UNCHANGED <<endpoints, NEXT_PID, PROCESS_TABLE, call>>

(* A fatal page fault or unexpected return reason breaks the task's loop:  *)
(* the task ends and no table is touched.                                  *)
Fault(t) ==
  /\ t # 0 /\ pc[t] = "user"
  /\ Goto(t, "faulted")
  /\ UNCHANGED <<endpoints, tables, call>>

-----------------------------------------------------------------------------
(* Messages: IpcSend, Linux write (and each segment of a writev) which     *)
(* sends to handle 2, IpcRecv and IpcRecvTimeout.                          *)

IpcSend(t, handle, d) ==
  /\ t # 0 /\ pc[t] = "user"
  /\ send(t, handle, d)
  /\ Len(endpoints[handle]) < MaxQueue
  /\ UNCHANGED <<tables, pc, call>>

IpcRecv(t) ==
  /\ t # 0 /\ pc[t] = "user"
  /\ recv(t)
  /\ UNCHANGED <<tables, pc, call>>

(* The boot thread ends in `loop { axtask::yield_now(); }`.                *)
Yield == pc[0] = "idle" /\ UNCHANGED vars

-----------------------------------------------------------------------------
SpawnStep(t) ==
  \/ register_process(t)
  \/ InitIpc(t)
  \/ spawn_task(t)
  \/ inject_bootstrap_capabilities(t)
  \/ InsertProcess(t)
  \/ transition_state(t)

ExitStep(t) == ExitIpc(t) \/ ExitTable(t) \/ ExitLifecycle(t)

UserStep(t) ==
  \/ \E path \in Paths : Spawn(t, path) \/ SpawnElf(t, path)
  \/ mark_process_exited(t)
  \/ Fault(t)
  \/ \E handle \in Pid, d \in Data : IpcSend(t, handle, d)
  \/ IpcRecv(t)

Next ==
  \/ Boot
  \/ Yield
  \/ \E t \in Thread : SpawnStep(t) \/ ExitStep(t) \/ UserStep(t)

(* Round-robin preemption: a thread inside a system call keeps running.    *)
(* What a process does in user mode is its own choice.                     *)
Fairness ==
  /\ WF_vars(Boot)
  /\ \A t \in Thread : WF_vars(SpawnStep(t)) /\ WF_vars(ExitStep(t))

Spec == Init /\ [][Next]_vars
FairSpec == Spec /\ Fairness

-----------------------------------------------------------------------------
(* Properties.                                                             *)

(* A thread is at one of the places S of the spawn that creates process p. *)
Creating(p, S) == \E t \in Thread : pc[t] \in S /\ call[t].pid = p

(* The places of a spawn at which the new task does not exist yet.         *)
PreTask == {"register", "init_ipc", "spawn_task"}

(* The task of process p has not begun to exit (it may have faulted).      *)
Unfinished(p) == pc[p] \in {"user", "faulted"} \cup SpawnPc

(* Every table, program counter and call record has its type; in           *)
(* particular no table has an entry for pid 0, the result of a failed      *)
(* spawn.                                                                  *)
TypeOK ==
  /\ EndpointsType
  /\ NEXT_PID \in 1 .. MaxPid + 1
  /\ DOMAIN LIFECYCLE_TABLE \subseteq Pid
  /\ \A p \in DOMAIN LIFECYCLE_TABLE : LIFECYCLE_TABLE[p] \in ProcessState
  /\ DOMAIN PROCESS_TABLE \subseteq Pid
  /\ \A p \in DOMAIN PROCESS_TABLE : PROCESS_TABLE[p] \in ProcessInfo
  /\ pc \in [Thread -> Pc]
  /\ call \in [Thread -> Call]

(* Process ids are never shared: two spawns in flight hold different ids,  *)
(* an id in flight has been taken from NEXT_PID, no table and no thread    *)
(* uses an id that allocate_pid has yet to hand out, and an id whose task  *)
(* has not been created yet belongs to no running task.                    *)
PidsUnique ==
  /\ \A t, u \in Thread :
       pc[t] \in SpawnPc /\ pc[u] \in SpawnPc /\ call[t].pid = call[u].pid => t = u
  /\ \A t \in Thread : pc[t] \in SpawnPc => call[t].pid \in 1 .. NEXT_PID - 1
  /\ \A p \in Pid : p >= NEXT_PID => pc[p] = "none" /\ p \notin DOMAIN PROCESS_TABLE
  /\ \A p \in Pid : Creating(p, PreTask) => pc[p] = "none"

(* An endpoint exists for exactly the processes between the init_process   *)
(* of their spawn and the IpcManager::cleanup_process of their exit: a     *)
(* running process can always receive, and a send to a process id that a   *)
(* spawn has returned fails only once that process has begun to exit.      *)
EndpointMatches ==
  \A p \in Pid : p \in DOMAIN endpoints <=>
     /\ p < NEXT_PID
     /\ ~Creating(p, {"register", "init_ipc"})
     /\ pc[p] \notin {"exit_table", "exit_lifecycle", "dead"}

(* A lifecycle entry exists for exactly the processes between the          *)
(* register_process of their spawn and the ProcessSupervisor               *)
(* ::cleanup_process of their exit, whatever the parent is still doing.    *)
LifecycleMatches ==
  \A p \in Pid : p \in DOMAIN LIFECYCLE_TABLE <=>
     /\ p < NEXT_PID
     /\ ~Creating(p, {"register"})
     /\ pc[p] # "dead"

(* Once the spawn has returned, a process that has not begun to exit has   *)
(* its PROCESS_TABLE entry and is in state Ready.                          *)
SpawnedIsVisible ==
  \A p \in Pid : Unfinished(p) /\ ~Creating(p, SpawnPc) =>
     /\ p \in DOMAIN PROCESS_TABLE
     /\ p \in DOMAIN LIFECYCLE_TABLE /\ LIFECYCLE_TABLE[p] = "Ready"

(* The PROCESS_TABLE check that SpawnElf makes, and whose lock it drops,   *)
(* still holds at every later step of the spawn it allows.                 *)
SpawnElfCallerIsFs ==
  \A t \in Thread : pc[t] \in SpawnPc /\ call[t].elf => IsFsCaller(t)

(* The program that inject_bootstrap_capabilities means by each handle.    *)
HandlePath == <<"", "/boot/serial", "/boot/vmm", "/boot/virtio_blk", "/boot/fs">>

(* A capability injected at spawn never comes to denote another service:   *)
(* while its owner is in PROCESS_TABLE the owner runs the handle's program *)
(* and is not the process that holds the capability.                       *)
CapsDenoteService ==
  \A p \in DOMAIN PROCESS_TABLE, h \in 2 .. 5 :
     LET owner == PROCESS_TABLE[p].cspace[h] IN
     owner \in DOMAIN PROCESS_TABLE =>
       owner # p /\ PROCESS_TABLE[owner].app_path = HandlePath[h]

(* The strengthening that makes the invariants above inductive.            *)
PreInsert == SpawnPc \ {"ready"}

(* A process enters PROCESS_TABLE once, when its parent inserts it.        *)
InsertedOnce ==
  \A p \in Pid : Creating(p, PreInsert) => p \notin DOMAIN PROCESS_TABLE

(* From then until its exit it has an entry.                               *)
InsertedAndReady ==
  \A p \in Pid : Unfinished(p) /\ ~Creating(p, PreInsert) => p \in DOMAIN PROCESS_TABLE

(* A capability of process p for handle h, stored or about to be stored,   *)
(* belongs to a process that has already been inserted.                    *)
GoodOwner(owner, p, h) ==
  owner # 0 => /\ owner # p /\ owner < NEXT_PID /\ ~Creating(owner, PreInsert)
               /\ owner \in DOMAIN PROCESS_TABLE =>
                    PROCESS_TABLE[owner].app_path = HandlePath[h]

(* Every capability in PROCESS_TABLE, and in a cspace on its way there, is *)
(* good.                                                                   *)
CapsGood ==
  /\ \A p \in DOMAIN PROCESS_TABLE, h \in 2 .. 5 :
       GoodOwner(PROCESS_TABLE[p].cspace[h], p, h)
  /\ \A t \in Thread, h \in 2 .. 5 :
       pc[t] = "insert" => GoodOwner(call[t].cspace[h], call[t].pid, h)

(* The inductive invariant of process creation and termination.            *)
ProcessInv ==
  /\ TypeOK /\ PidsUnique /\ EndpointMatches /\ LifecycleMatches
  /\ SpawnedIsVisible /\ SpawnElfCallerIsFs
  /\ InsertedOnce /\ InsertedAndReady /\ CapsGood

(* Nothing a parent does after its child has exited brings the child's     *)
(* endpoint or lifecycle entry back: a finished exit is final.             *)
ExitReclaims ==
  \A p \in Pid : pc[p] = "exit_ipc" ~>
     [](p \notin DOMAIN endpoints /\ p \notin DOMAIN LIFECYCLE_TABLE)

(* Every spawn in flight finishes: no step of it waits for the child.      *)
SpawnReturns ==
  \A t \in Thread : pc[t] \in SpawnPc ~> pc[t] \in {"idle", "user"}

(* Exit removes a process's table entries: a dead process has none.        *)
DeadHasNoTableEntry ==
  \A p \in Pid : pc[p] = "dead" => p \notin DOMAIN PROCESS_TABLE
=============================================================================

--------------------------- MODULE ProcessProofs ---------------------------
(***************************************************************************)
(* Proofs about Process, for every number of processes, every set of paths *)
(* and messages and every queue bound.                                     *)
(***************************************************************************)
EXTENDS Process, WellFoundedInduction, TLAPS

(* A search of PROCESS_TABLE in pid order that finds any process finds one *)
(* of those it looks for: a set of pids has a least element.               *)
LEMMA FirstOfPids ==
  ASSUME NEW S \in SUBSET Nat, S # {}
  PROVE  Min(S) \in S
  <1>1. IsWellFoundedOn(OpToRel(<, Nat), Nat)
    BY NatLessThanWellFounded
  <1>2. PICK x \in S : \A y \in S : ~(<<y, x>> \in OpToRel(<, Nat))
    BY <1>1, WFMin
  <1>3. ASSUME NEW y \in S PROVE x <= y
    <2>1. y < x => <<y, x>> \in OpToRel(<, Nat)
      <3>1. <<y, x>> \in Nat \X Nat /\ <<y, x>>[1] = y /\ <<y, x>>[2] = x
        OBVIOUS
      <3> QED BY <3>1, Zenon DEF OpToRel
    <2>2. ~(y < x)
      BY <1>2, <2>1, Zenon
    <2> QED BY <2>2
  <1> QED
    BY <1>2, <1>3 DEF Min

(* The pid of a spawn in flight is a process id.                           *)
LEMMA SpawnPidIsPid ==
  ASSUME TypeOK, PidsUnique, NEW t \in Thread, pc[t] \in SpawnPc
  PROVE  call[t].pid \in Pid /\ call[t].pid < NEXT_PID
  BY IpcAssumption DEF TypeOK, PidsUnique, Pid, Call, Thread

-----------------------------------------------------------------------------
(* Initially the tables are empty and only the boot thread is anywhere.    *)
LEMMA InitTypeOK == Init => TypeOK
  <1> SUFFICES ASSUME Init PROVE TypeOK
    OBVIOUS
  <1>1. NoCall \in Call
    BY IpcAssumption, ProcessAssumption
    DEF NoCall, Call, NoCap, CSpace, Thread, Handle
  <1>2. DOMAIN endpoints = {} /\ DOMAIN LIFECYCLE_TABLE = {} /\ DOMAIN PROCESS_TABLE = {}
    BY DEF Init
  <1> QED
    BY <1>1, <1>2, IpcAssumption DEF Init, TypeOK, EndpointsType, Pc, Thread

(* allocate_pid keeps the types: the bound keeps NEXT_PID a process id.    *)
LEMMA AllocateTypeOK ==
  ASSUME TypeOK, NEW t \in Thread, NEW path \in Paths, NEW elf \in BOOLEAN,
         allocate_pid(t, path, elf)
  PROVE  TypeOK'
  <1>1. NEXT_PID \in Thread /\ NEXT_PID' \in 1 .. MaxPid + 1
    BY IpcAssumption DEF TypeOK, allocate_pid, Thread
  <1>2. NoCap \in CSpace
    BY IpcAssumption DEF NoCap, CSpace, Thread
  <1>3. call' \in [Thread -> Call]
    BY <1>1, <1>2 DEF TypeOK, allocate_pid, Call
  <1>4. pc' \in [Thread -> Pc]
    BY DEF TypeOK, allocate_pid, Goto, Pc, SpawnPc
  <1> QED
    BY <1>1, <1>3, <1>4 DEF TypeOK, EndpointsType, allocate_pid

(* Every step of a spawn keeps the types.                                  *)
LEMMA SpawnStepTypeOK ==
  ASSUME TypeOK, PidsUnique, NEW t \in Thread, SpawnStep(t)
  PROVE  TypeOK'
  <1> DEFINE child == call[t].pid
  <1>c. pc[t] \in SpawnPc
    BY DEF SpawnStep, register_process, InitIpc, spawn_task, transition_state,
           inject_bootstrap_capabilities, InsertProcess, SpawnPc
  <1>p. child \in Pid /\ child \in Thread
    BY <1>c, SpawnPidIsPid, IpcAssumption DEF Pid, Thread
  <1> HIDE DEF child
  <1>1. CASE register_process(t)
    <2>1. LIFECYCLE_TABLE' = MapInsert(LIFECYCLE_TABLE, child, "Created")
      BY <1>1 DEF register_process, child
    <2>2. /\ DOMAIN LIFECYCLE_TABLE' \subseteq Pid
          /\ \A p \in DOMAIN LIFECYCLE_TABLE' : LIFECYCLE_TABLE'[p] \in ProcessState
      BY <1>p, <2>1 DEF MapInsert, TypeOK, ProcessState
    <2> QED
      BY <1>1, <2>2 DEF TypeOK, EndpointsType, register_process, Goto, Pc, SpawnPc
  <1>2. CASE InitIpc(t)
    <2>1. endpoints' = MapInsert(endpoints, child, <<>>)
      BY <1>2 DEF InitIpc, init_process, child
    <2>2. EndpointsType'
      BY <1>p, <2>1 DEF MapInsert, TypeOK, EndpointsType
    <2> QED
      BY <1>2, <2>2 DEF TypeOK, InitIpc, tables, Goto, Pc, SpawnPc
  <1>n. NoCall \in Call
    BY IpcAssumption, ProcessAssumption
    DEF NoCall, Call, NoCap, CSpace, Thread, Handle
  <1>3. CASE spawn_task(t)
    BY <1>3, <1>n, <1>p
    DEF TypeOK, EndpointsType, spawn_task, tables, Return, Goto, Pc, SpawnPc, child
  <1>4. CASE inject_bootstrap_capabilities(t)
    <2>1. \A path : ServiceOwner(path) \in Thread
      <3> TAKE path
      <3> DEFINE owners == {p \in DOMAIN PROCESS_TABLE : PROCESS_TABLE[p].app_path = path}
      <3>1. CASE owners = {}
        BY <3>1, IpcAssumption DEF ServiceOwner, Thread
      <3>2. CASE owners # {}
        <4>1. owners \subseteq Pid
          BY DEF TypeOK
        <4>2. Min(owners) \in owners
          BY <3>2, <4>1, FirstOfPids, IpcAssumption DEF Pid
        <4> QED
          BY <3>2, <4>1, <4>2, IpcAssumption DEF ServiceOwner, Thread, Pid
      <3> QED BY <3>1, <3>2
    <2>2. \A path, h : h \in Handle => InjectedCap(path, child, h) \in Thread
      BY <1>p, <2>1, IpcAssumption DEF InjectedCap, Handle, Thread
    <2>3. call'[t] = [call[t] EXCEPT !.cspace =
             [h \in Handle |-> InjectedCap(call[t].path, child, h)]]
      BY <1>4 DEF TypeOK, inject_bootstrap_capabilities, child
    <2>4. [h \in Handle |-> InjectedCap(call[t].path, child, h)] \in CSpace
      BY <2>2 DEF CSpace
    <2>5. call' \in [Thread -> Call]
      BY <1>4, <2>3, <2>4 DEF TypeOK, inject_bootstrap_capabilities, Call
    <2> QED
      BY <1>4, <2>5
      DEF TypeOK, EndpointsType, inject_bootstrap_capabilities, tables, Goto, Pc, SpawnPc
  <1>5. CASE InsertProcess(t)
    <2>1. PROCESS_TABLE' = MapInsert(PROCESS_TABLE, child,
                        [app_path |-> call[t].path, cspace |-> call[t].cspace])
      BY <1>5 DEF InsertProcess, child
    <2>2. [app_path |-> call[t].path, cspace |-> call[t].cspace] \in ProcessInfo
      BY DEF TypeOK, Call, ProcessInfo
    <2>3. /\ DOMAIN PROCESS_TABLE' \subseteq Pid
          /\ \A p \in DOMAIN PROCESS_TABLE' : PROCESS_TABLE'[p] \in ProcessInfo
      BY <1>p, <2>1, <2>2 DEF MapInsert, TypeOK
    <2> QED
      BY <1>5, <2>3 DEF TypeOK, EndpointsType, InsertProcess, Goto, Pc, SpawnPc
  <1>6. CASE transition_state(t)
    BY <1>6, <1>n
    DEF TypeOK, EndpointsType, transition_state, SetState, ProcessState,
        Return, Goto, Pc
  <1> QED
    BY <1>1, <1>2, <1>3, <1>4, <1>5, <1>6 DEF SpawnStep

(* Every step of an exit keeps the types.                                  *)
LEMMA ExitStepTypeOK ==
  ASSUME TypeOK, NEW t \in Thread, ExitStep(t)
  PROVE  TypeOK'
  <1>1. CASE ExitIpc(t)
    BY <1>1 DEF TypeOK, EndpointsType, ExitIpc, cleanup_process, MapRemove, Restrict,
                tables, Goto, Pc, ExitPc
  <1>2. CASE ExitTable(t)
    BY <1>2 DEF TypeOK, EndpointsType, ExitTable, MapRemove, Restrict, Goto, Pc, ExitPc
  <1>3. CASE ExitLifecycle(t)
    BY <1>3 DEF TypeOK, EndpointsType, ExitLifecycle, MapRemove, Restrict, Goto, Pc
  <1> QED
    BY <1>1, <1>2, <1>3 DEF ExitStep

(* Every step a process takes from user mode keeps the types.              *)
LEMMA UserStepTypeOK ==
  ASSUME TypeOK, NEW t \in Thread, UserStep(t)
  PROVE  TypeOK'
  <1>1. ASSUME NEW path \in Paths, Spawn(t, path) PROVE TypeOK'
    BY <1>1, AllocateTypeOK DEF Spawn
  <1>2. ASSUME NEW path \in Paths, SpawnElf(t, path) PROVE TypeOK'
    BY <1>2, AllocateTypeOK DEF SpawnElf
  <1>3. CASE mark_process_exited(t)
    BY <1>3 DEF TypeOK, EndpointsType, mark_process_exited, SetState, ProcessState,
                Goto, Pc, ExitPc
  <1>4. CASE Fault(t)
    BY <1>4 DEF TypeOK, EndpointsType, Fault, tables, Goto, Pc
  <1>5. ASSUME NEW handle \in Pid, NEW d \in Data, IpcSend(t, handle, d) PROVE TypeOK'
    <2>1. [sender_id |-> t, message |-> d] \in IpcPayload
      BY <1>5, IpcAssumption DEF IpcSend, IpcPayload, Pid, Thread
    <2>2. EndpointsType'
      BY <1>5, <2>1 DEF IpcSend, send, TypeOK, EndpointsType
    <2> QED
      BY <1>5, <2>2 DEF TypeOK, IpcSend, tables
  <1>6. CASE IpcRecv(t)
    <2>1. EndpointsType'
      BY <1>6 DEF IpcRecv, recv, CanRecv, TypeOK, EndpointsType
    <2> QED
      BY <1>6, <2>1 DEF TypeOK, IpcRecv, tables
  <1> QED
    BY <1>1, <1>2, <1>3, <1>4, <1>5, <1>6 DEF UserStep

-----------------------------------------------------------------------------
(* Process ids stay unique.  The argument: NEXT_PID exceeds every id in    *)
(* use and fetch_add returns it to one caller only; after that the only    *)
(* thread that can touch an id before its task exists is the one whose     *)
(* call record holds it.                                                   *)
LEMMA AllocateUnique ==
  ASSUME TypeOK, PidsUnique, NEW t \in Thread, NEW path, NEW elf,
         allocate_pid(t, path, elf), pc[t] \in {"user", "boot"}
  PROVE  PidsUnique'
  <1>1. /\ pc' = [pc EXCEPT ![t] = "register"]
        /\ call'[t].pid = NEXT_PID
        /\ \A u \in Thread : u # t => call'[u] = call[u]
        /\ NEXT_PID' = NEXT_PID + 1
        /\ NEXT_PID \in Pid /\ PROCESS_TABLE' = PROCESS_TABLE
    BY IpcAssumption DEF TypeOK, allocate_pid, Goto, Pid
  <1>2. pc[NEXT_PID] = "none"
    BY <1>1 DEF PidsUnique, Pid, TypeOK
  <1>3. \A u \in Thread : pc'[u] = IF u = t THEN "register" ELSE pc[u]
    BY <1>1 DEF TypeOK
  <1>4. t # NEXT_PID
    BY <1>2
  <1>5. \A p \in Pid : p # NEXT_PID /\ Creating(p, PreTask)' => Creating(p, PreTask)
    BY <1>1, <1>3 DEF Creating, PreTask
  <1>6. (\A u, v \in Thread : pc[u] \in SpawnPc /\ pc[v] \in SpawnPc
                              /\ call[u].pid = call[v].pid => u = v)'
    BY <1>1, <1>3 DEF PidsUnique, TypeOK
  <1>7. (\A u \in Thread : pc[u] \in SpawnPc => call[u].pid \in 1 .. NEXT_PID - 1)'
    BY <1>1, <1>3 DEF PidsUnique, TypeOK
  <1>8. (\A p \in Pid : p >= NEXT_PID => pc[p] = "none" /\ p \notin DOMAIN PROCESS_TABLE)'
    BY <1>1, <1>3, IpcAssumption DEF PidsUnique, TypeOK, Pid, Thread
  <1>9. (\A p \in Pid : Creating(p, PreTask) => pc[p] = "none")'
    BY <1>2, <1>3, <1>4, <1>5, IpcAssumption DEF PidsUnique, TypeOK, Pid, Thread
  <1> QED
    BY <1>6, <1>7, <1>8, <1>9 DEF PidsUnique

(* Injection changes only the cspace of the call record.                   *)
LEMMA InjectEffect ==
  ASSUME TypeOK, NEW t \in Thread, inject_bootstrap_capabilities(t)
  PROVE  /\ pc[t] = "inject" /\ pc' = [pc EXCEPT ![t] = "insert"]
         /\ call'[t].cspace = [h \in Handle |-> InjectedCap(call[t].path, call[t].pid, h)]
         /\ \A u \in Thread : /\ call'[u].pid = call[u].pid
                              /\ call'[u].path = call[u].path
                              /\ call'[u].elf = call[u].elf
                              /\ u # t => call'[u] = call[u]
  <1>1. call'[t] = [call[t] EXCEPT !.cspace =
             [h \in Handle |-> InjectedCap(call[t].path, call[t].pid, h)]]
    BY DEF TypeOK, inject_bootstrap_capabilities
  <1>2. \A u \in Thread : u # t => call'[u] = call[u]
    BY DEF TypeOK, inject_bootstrap_capabilities
  <1>3. call[t] \in Call
    BY DEF TypeOK
  <1> QED
    BY <1>1, <1>2, <1>3 DEF inject_bootstrap_capabilities, Goto, Call

(* Advance(t, from, to): thread t moves from one place of its spawn to the *)
(* next and no thread's call changes the process it creates.               *)
Advance(t, from, to) ==
  /\ pc[t] = from
  /\ \A u \in Thread : pc'[u] = IF u = t THEN to ELSE pc[u]
  /\ \A u \in Thread : call'[u].pid = call[u].pid

(* The spawn steps that do not create or release a thread are advances.    *)
LEMMA SpawnAdvances ==
  ASSUME TypeOK, NEW t \in Thread
  PROVE  /\ register_process(t) => Advance(t, "register", "init_ipc")
         /\ InitIpc(t) => Advance(t, "init_ipc", "spawn_task")
         /\ inject_bootstrap_capabilities(t) => Advance(t, "inject", "insert")
         /\ InsertProcess(t) => Advance(t, "insert", "ready")
  <1>1. register_process(t) => Advance(t, "register", "init_ipc")
    BY DEF register_process, Advance, Goto, TypeOK
  <1>2. InitIpc(t) => Advance(t, "init_ipc", "spawn_task")
    BY DEF InitIpc, Advance, Goto, TypeOK
  <1>3. ASSUME inject_bootstrap_capabilities(t) PROVE Advance(t, "inject", "insert")
    <2>1. \A u \in Thread : pc'[u] = IF u = t THEN "insert" ELSE pc[u]
      BY <1>3, InjectEffect DEF TypeOK
    <2> QED
      BY <1>3, <2>1, InjectEffect DEF Advance
  <1>4. InsertProcess(t) => Advance(t, "insert", "ready")
    BY DEF InsertProcess, Advance, Goto, TypeOK
  <1> QED
    BY <1>1, <1>2, <1>3, <1>4

(* A failed lookup and the last step of a spawn return from it.            *)
Returned(t) ==
  /\ \A u \in Thread : u # t => pc'[u] = pc[u] /\ call'[u] = call[u]
  /\ pc'[t] \in {"idle", "user"} /\ call'[t] = NoCall

(* Return(t) touches no other thread and clears the call record.           *)
LEMMA ReturnEffect ==
  ASSUME TypeOK, NEW t \in Thread, Return(t)
  PROVE  Returned(t)
  BY DEF TypeOK, Return, Goto, Returned

(* A successful spawn_task makes the child runnable.                       *)
Forked(t) ==
  /\ pc[t] = "spawn_task" /\ call' = call
  /\ \A u \in Thread : pc'[u] = IF u = call[t].pid THEN "user"
                                ELSE IF u = t THEN "inject" ELSE pc[u]

(* spawn_task either forks the child or, on an unknown path, returns.      *)
LEMMA SpawnTaskEffect ==
  ASSUME TypeOK, PidsUnique, NEW t \in Thread, spawn_task(t)
  PROVE  Forked(t) \/ Returned(t)
  <1>1. call[t].pid \in Thread
    BY DEF TypeOK, Call
  <1>2. CASE call[t].elf \/ call[t].path \in Preloaded
    BY <1>1, <1>2 DEF spawn_task, Forked, TypeOK
  <1>3. CASE ~(call[t].elf \/ call[t].path \in Preloaded)
    BY <1>3, ReturnEffect DEF spawn_task
  <1> QED
    BY <1>2, <1>3

(* No step of a spawn hands an id to a second spawn or to a second task.   *)
LEMMA SpawnStepUnique ==
  ASSUME TypeOK, PidsUnique, NEW t \in Thread, SpawnStep(t)
  PROVE  PidsUnique'
  <1>a. ASSUME NEW from \in SpawnPc, NEW to \in SpawnPc, Advance(t, from, to),
               to \in PreTask => from \in PreTask,
               NEXT_PID' = NEXT_PID,
               \A p \in DOMAIN PROCESS_TABLE' : p \in DOMAIN PROCESS_TABLE \/ p < NEXT_PID
        PROVE  PidsUnique'
    <2>1. pc[t] \in SpawnPc /\ pc'[t] \in SpawnPc
      BY <1>a DEF Advance
    <2>2. (\A u, v \in Thread : pc[u] \in SpawnPc /\ pc[v] \in SpawnPc
                                /\ call[u].pid = call[v].pid => u = v)'
      BY <1>a, <2>1 DEF PidsUnique, Advance
    <2>3. (\A u \in Thread : pc[u] \in SpawnPc => call[u].pid \in 1 .. NEXT_PID - 1)'
      BY <1>a, <2>1 DEF PidsUnique, Advance
    <2>4. (\A p \in Pid : p >= NEXT_PID => pc[p] = "none" /\ p \notin DOMAIN PROCESS_TABLE)'
      BY <1>a, <2>1, IpcAssumption DEF PidsUnique, Advance, TypeOK, Pid, Thread, SpawnPc
    <2>5. (\A p \in Pid : Creating(p, PreTask) => pc[p] = "none")'
      <3> TAKE p \in Pid
      <3> HAVE Creating(p, PreTask)'
      <3>1. Creating(p, PreTask)
        BY <1>a DEF Advance, Creating, PreTask
      <3>2. pc[p] = "none" /\ p # t
        BY <2>1, <3>1 DEF PidsUnique, SpawnPc
      <3> QED
        BY <1>a, <3>2, IpcAssumption DEF Advance, Pid, Thread
    <2> QED
      BY <2>2, <2>3, <2>4, <2>5 DEF PidsUnique
  <1>r. ASSUME Returned(t), UNCHANGED <<NEXT_PID, PROCESS_TABLE>>, pc[t] \in SpawnPc
        PROVE  PidsUnique'
    BY <1>r, IpcAssumption DEF PidsUnique, Returned, Creating, SpawnPc, PreTask, Pid, Thread
  <1>1. CASE register_process(t)
    BY <1>1, <1>a, SpawnAdvances DEF register_process, SpawnPc, PreTask
  <1>2. CASE InitIpc(t)
    BY <1>2, <1>a, SpawnAdvances DEF InitIpc, tables, SpawnPc, PreTask
  <1>3. CASE spawn_task(t)
    <2>1. UNCHANGED <<NEXT_PID, PROCESS_TABLE>> /\ pc[t] \in SpawnPc
      BY <1>3 DEF spawn_task, tables, SpawnPc
    <2>2. CASE Returned(t)
      BY <2>1, <2>2, <1>r
    <2>3. CASE Forked(t)
      <3>1. call[t].pid \in Pid /\ pc[call[t].pid] = "none" /\ call[t].pid < NEXT_PID
        BY <2>1, <2>3, SpawnPidIsPid DEF PidsUnique, Creating, Forked, PreTask
      <3>2. t # call[t].pid
        BY <2>1, <3>1 DEF SpawnPc
      <3>3. \A u \in Thread : pc'[u] \in SpawnPc => pc[u] \in SpawnPc
        BY <2>1, <2>3 DEF Forked, SpawnPc
      <3>4. (\A u, v \in Thread : pc[u] \in SpawnPc /\ pc[v] \in SpawnPc
                                  /\ call[u].pid = call[v].pid => u = v)'
        BY <2>3, <3>3 DEF PidsUnique, Forked
      <3>5. (\A u \in Thread : pc[u] \in SpawnPc => call[u].pid \in 1 .. NEXT_PID - 1)'
        BY <2>1, <2>3, <3>3 DEF PidsUnique, Forked
      <3>6. (\A p \in Pid : p >= NEXT_PID => pc[p] = "none" /\ p \notin DOMAIN PROCESS_TABLE)'
        <4>1. NEXT_PID \in Nat
          BY IpcAssumption DEF TypeOK
        <4> QED
          BY <2>1, <2>3, <3>1, <4>1, IpcAssumption DEF PidsUnique, Forked, SpawnPc, Pid, Thread
      <3>7. (\A p \in Pid : Creating(p, PreTask) => pc[p] = "none")'
        <4> TAKE p \in Pid
        <4> HAVE Creating(p, PreTask)'
        <4>1. PICK u \in Thread : pc'[u] \in PreTask /\ call'[u].pid = p
          BY DEF Creating
        <4>2. u # t /\ u # call[t].pid /\ pc[u] \in PreTask /\ call[u].pid = p
          BY <2>3, <3>2, <4>1 DEF Forked, PreTask
        <4>3. p # call[t].pid
          BY <2>1, <4>2 DEF PidsUnique, PreTask, SpawnPc
        <4>4. pc[p] = "none" /\ p # t
          BY <2>1, <4>2 DEF PidsUnique, Creating, SpawnPc
        <4> QED
          BY <2>3, <4>3, <4>4, IpcAssumption DEF Forked, Pid, Thread
      <3> QED
        BY <3>4, <3>5, <3>6, <3>7 DEF PidsUnique
    <2> QED
      BY <1>3, <2>2, <2>3, SpawnTaskEffect
  <1>4. CASE inject_bootstrap_capabilities(t)
    BY <1>4, <1>a, SpawnAdvances DEF inject_bootstrap_capabilities, tables, SpawnPc, PreTask
  <1>5. CASE InsertProcess(t)
    <2>1. call[t].pid < NEXT_PID
      BY <1>5, SpawnPidIsPid DEF InsertProcess, SpawnPc
    <2> QED
      BY <1>5, <2>1, <1>a, SpawnAdvances DEF InsertProcess, MapInsert, SpawnPc, PreTask
  <1>6. CASE transition_state(t)
    BY <1>6, <1>r, ReturnEffect DEF transition_state, SpawnPc
  <1> QED
    BY <1>1, <1>2, <1>3, <1>4, <1>5, <1>6 DEF SpawnStep

(* Quiet(t, from, to): thread t moves outside of any spawn.                *)
Quiet(t, from, to) ==
  /\ pc[t] = from /\ call' = call
  /\ from \notin SpawnPc \cup {"none"} /\ to \notin SpawnPc
  /\ \A u \in Thread : pc'[u] = IF u = t THEN to ELSE pc[u]

(* The steps of an exit, a fault and the IPC calls are quiet.              *)
LEMMA QuietSteps ==
  ASSUME TypeOK, NEW t \in Thread
  PROVE  /\ mark_process_exited(t) => Quiet(t, "user", "exit_ipc")
         /\ ExitIpc(t) => Quiet(t, "exit_ipc", "exit_table")
         /\ ExitTable(t) => Quiet(t, "exit_table", "exit_lifecycle")
         /\ ExitLifecycle(t) => Quiet(t, "exit_lifecycle", "dead")
         /\ Fault(t) => Quiet(t, "user", "faulted")
  BY DEF TypeOK, Quiet, Goto, SpawnPc, mark_process_exited, ExitIpc, ExitTable,
         ExitLifecycle, Fault

(* Exits and faults use no new id.                                         *)
LEMMA QuietUnique ==
  ASSUME TypeOK, PidsUnique, NEW t \in Thread, NEW from, NEW to, Quiet(t, from, to),
         NEXT_PID' = NEXT_PID, DOMAIN PROCESS_TABLE' \subseteq DOMAIN PROCESS_TABLE
  PROVE  PidsUnique'
  <1>1. \A u \in Thread : pc'[u] \in SpawnPc <=> pc[u] \in SpawnPc
    BY DEF Quiet
  <1>2. (\A p \in Pid : p >= NEXT_PID => pc[p] = "none" /\ p \notin DOMAIN PROCESS_TABLE)'
    BY IpcAssumption DEF PidsUnique, Quiet, Pid, Thread
  <1>3. \A p \in Pid : Creating(p, PreTask)' => Creating(p, PreTask)
    BY DEF Creating, Quiet, PreTask, SpawnPc
  <1>4. (\A p \in Pid : Creating(p, PreTask) => pc[p] = "none")'
    BY <1>3, IpcAssumption DEF PidsUnique, Quiet, Pid, Thread
  <1>5. (\A u, v \in Thread : pc[u] \in SpawnPc /\ pc[v] \in SpawnPc
                              /\ call[u].pid = call[v].pid => u = v)'
    BY <1>1 DEF PidsUnique, Quiet
  <1>6. (\A u \in Thread : pc[u] \in SpawnPc => call[u].pid \in 1 .. NEXT_PID - 1)'
    BY <1>1 DEF PidsUnique, Quiet
  <1> QED
    BY <1>2, <1>4, <1>5, <1>6 DEF PidsUnique

-----------------------------------------------------------------------------
(* How a step changes the set of processes being created at places S: not  *)
(* at all, by one that leaves S, or by one that enters S.                  *)
LEMMA CreatingSame ==
  ASSUME NEW S, \A u \in Thread : /\ pc'[u] \in S <=> pc[u] \in S
                                  /\ pc[u] \in S => call'[u].pid = call[u].pid
  PROVE  \A p : Creating(p, S)' <=> Creating(p, S)
  BY DEF Creating

(* One creation leaves the places S: PidsUnique makes it the only one of   *)
(* its process.                                                            *)
LEMMA CreatingLeave ==
  ASSUME PidsUnique, NEW S \in SUBSET SpawnPc, NEW t \in Thread,
         pc[t] \in S, pc'[t] \notin S,
         \A u \in Thread : u # t => /\ pc'[u] \in S <=> pc[u] \in S
                                    /\ pc[u] \in S => call'[u].pid = call[u].pid
  PROVE  \A p : Creating(p, S)' <=> Creating(p, S) /\ p # call[t].pid
  BY DEF Creating, PidsUnique

(* One creation enters the places S.                                       *)
LEMMA CreatingEnter ==
  ASSUME NEW S, NEW t \in Thread, pc[t] \notin S, pc'[t] \in S,
         \A u \in Thread : u # t => pc'[u] = pc[u] /\ call'[u] = call[u]
  PROVE  \A p : Creating(p, S)' <=> Creating(p, S) \/ p = call'[t].pid
  BY DEF Creating

-----------------------------------------------------------------------------
(* The tables and the threads stay in step.                                *)
TablesInv ==
  /\ EndpointMatches /\ LifecycleMatches
  /\ InsertedOnce /\ InsertedAndReady /\ SpawnedIsVisible

(* A new id enters every phase of creation at once and is in no table.     *)
LEMMA AllocateTables ==
  ASSUME TypeOK, PidsUnique, TablesInv, NEW t \in Thread, NEW path, NEW elf,
         allocate_pid(t, path, elf), pc[t] = "user" \/ (t = 0 /\ pc[t] = "boot")
  PROVE  TablesInv'
  <1>1. /\ \A u \in Thread : pc'[u] = IF u = t THEN "register" ELSE pc[u]
        /\ \A u \in Thread : u # t => pc'[u] = pc[u] /\ call'[u] = call[u]
        /\ call'[t].pid = NEXT_PID
        /\ UNCHANGED <<endpoints, LIFECYCLE_TABLE, PROCESS_TABLE>>
        /\ NEXT_PID' = NEXT_PID + 1 /\ NEXT_PID \in Pid
    BY IpcAssumption DEF TypeOK, allocate_pid, Goto, Pid
  <1>2. pc[NEXT_PID] = "none" /\ NEXT_PID \notin DOMAIN PROCESS_TABLE
    BY <1>1 DEF PidsUnique, Pid, TypeOK
  <1>3. ASSUME NEW S \in SUBSET SpawnPc, "register" \in S
        PROVE  \A p : Creating(p, S)' <=> Creating(p, S) \/ p = NEXT_PID
    <2>1. pc[t] \notin S /\ pc'[t] \in S
      BY <1>1, <1>3 DEF SpawnPc
    <2> QED
      BY <1>1, <2>1, CreatingEnter
  <1>4. \A p : /\ Creating(p, {"register"})' <=> Creating(p, {"register"}) \/ p = NEXT_PID
               /\ Creating(p, {"register", "init_ipc"})' <=>
                    Creating(p, {"register", "init_ipc"}) \/ p = NEXT_PID
               /\ Creating(p, PreInsert)' <=> Creating(p, PreInsert) \/ p = NEXT_PID
               /\ Creating(p, SpawnPc)' <=> Creating(p, SpawnPc) \/ p = NEXT_PID
    BY <1>3 DEF SpawnPc, PreInsert
  <1>5. \A p \in Pid : pc'[p] = IF p = t THEN "register" ELSE pc[p]
    BY <1>1, IpcAssumption DEF Pid, Thread
  <1>6. \A p \in Pid : /\ p < NEXT_PID' <=> p < NEXT_PID \/ p = NEXT_PID
                      /\ p < NEXT_PID => p # NEXT_PID
    BY <1>1 DEF Pid
  <1>7. \A p \in Pid : Unfinished(p)' => Unfinished(p)
    BY <1>5, IpcAssumption DEF Unfinished, Pid
  <1>8. EndpointMatches'
    BY <1>1, <1>4, <1>5, <1>6 DEF TablesInv, EndpointMatches, Pid
  <1>9. LifecycleMatches'
    BY <1>1, <1>4, <1>5, <1>6 DEF TablesInv, LifecycleMatches, Pid
  <1>10. InsertedOnce'
    BY <1>1, <1>2, <1>4 DEF TablesInv, InsertedOnce
  <1>11. InsertedAndReady'
    BY <1>1, <1>4, <1>7 DEF TablesInv, InsertedAndReady
  <1>12. SpawnedIsVisible'
    BY <1>1, <1>4, <1>7 DEF TablesInv, SpawnedIsVisible
  <1> QED
    BY <1>8, <1>9, <1>10, <1>11, <1>12 DEF TablesInv

(* The sets of creation places the invariants speak of.                    *)
Places == {{"register"}, {"register", "init_ipc"}, PreInsert, SpawnPc}

(* An advance changes Creating only for the places it leaves.              *)
LEMMA AdvanceCreating ==
  ASSUME PidsUnique, NEW t \in Thread, NEW from \in SpawnPc, NEW to, Advance(t, from, to)
  PROVE  \A S \in SUBSET SpawnPc :
           /\ (from \in S <=> to \in S) => \A p : Creating(p, S)' <=> Creating(p, S)
           /\ from \in S /\ to \notin S =>
                \A p : Creating(p, S)' <=> Creating(p, S) /\ p # call[t].pid
  <1> TAKE S \in SUBSET SpawnPc
  <1>1. ASSUME from \in S <=> to \in S PROVE \A p : Creating(p, S)' <=> Creating(p, S)
    BY <1>1, CreatingSame DEF Advance
  <1>2. ASSUME from \in S, to \notin S
        PROVE  \A p : Creating(p, S)' <=> Creating(p, S) /\ p # call[t].pid
    <2>1. pc[t] \in S /\ pc'[t] \notin S
      BY <1>2 DEF Advance
    <2> QED
      BY <2>1, CreatingLeave DEF Advance
  <1> QED
    BY <1>1, <1>2

(* Returning from a spawn ends the creation of its process.                *)
LEMMA ReturnedCreating ==
  ASSUME PidsUnique, NEW t \in Thread, Returned(t), pc[t] \in SpawnPc
  PROVE  \A S \in SUBSET SpawnPc :
           /\ pc[t] \notin S => \A p : Creating(p, S)' <=> Creating(p, S)
           /\ pc[t] \in S =>
                \A p : Creating(p, S)' <=> Creating(p, S) /\ p # call[t].pid
  <1> TAKE S \in SUBSET SpawnPc
  <1>0. pc'[t] \notin S
    BY DEF Returned, SpawnPc
  <1>1. ASSUME pc[t] \notin S PROVE \A p : Creating(p, S)' <=> Creating(p, S)
    BY <1>0, <1>1, CreatingSame DEF Returned
  <1>2. ASSUME pc[t] \in S
        PROVE  \A p : Creating(p, S)' <=> Creating(p, S) /\ p # call[t].pid
    BY <1>0, <1>2, CreatingLeave DEF Returned
  <1> QED
    BY <1>1, <1>2

(* spawn_task: the child's pid stays where it is in its creation, except   *)
(* that a failed lookup ends it.                                           *)
LEMMA ForkedCreating ==
  ASSUME TypeOK, PidsUnique, NEW t \in Thread, Forked(t)
  PROVE  /\ pc[call[t].pid] = "none"
         /\ \A S \in Places : \A p : Creating(p, S)' <=> Creating(p, S)
  <1>1. call[t].pid \in Pid /\ pc[call[t].pid] = "none"
    BY SpawnPidIsPid DEF PidsUnique, Creating, Forked, PreTask, SpawnPc
  <1>2. ASSUME NEW S \in Places PROVE \A p : Creating(p, S)' <=> Creating(p, S)
    <2>1. S \subseteq SpawnPc /\ ("spawn_task" \in S <=> "inject" \in S)
      BY <1>2 DEF Places, SpawnPc, PreInsert
    <2>2. \A u \in Thread : (pc'[u] \in S <=> pc[u] \in S) /\ call'[u].pid = call[u].pid
      BY <1>1, <2>1 DEF Forked, SpawnPc
    <2> QED
      BY <2>2, CreatingSame
  <1> QED
    BY <1>1, <1>2

(* A move outside a spawn changes no creation.                             *)
LEMMA QuietCreating ==
  ASSUME NEW t \in Thread, NEW from, NEW to, Quiet(t, from, to)
  PROVE  \A S \in SUBSET SpawnPc : \A p : Creating(p, S)' <=> Creating(p, S)
  <1> TAKE S \in SUBSET SpawnPc
  <1>1. \A u \in Thread : (pc'[u] \in S <=> pc[u] \in S) /\ call'[u].pid = call[u].pid
    BY DEF Quiet
  <1> QED
    BY <1>1, CreatingSame

(* register_process and init_process each add the entry of the process     *)
(* being created and leave the phase that the entry marks the end of.      *)
LEMMA RegisterTables ==
  ASSUME TypeOK, PidsUnique, TablesInv, NEW t \in Thread,
         register_process(t) \/ InitIpc(t)
  PROVE  TablesInv'
  <1> DEFINE q == call[t].pid
  <1>1. pc[t] \in {"register", "init_ipc"} /\ q \in Pid /\ q < NEXT_PID
    BY SpawnPidIsPid DEF register_process, InitIpc, SpawnPc
  <1>2. pc[q] = "none" /\ Creating(q, SpawnPc)
    BY <1>1 DEF PidsUnique, Creating, PreTask, SpawnPc
  <1>3. UNCHANGED <<NEXT_PID, PROCESS_TABLE>>
    BY DEF register_process, InitIpc, tables
  <1>4. \A p \in Pid : pc'[p] = IF p = t THEN pc'[t] ELSE pc[p]
    BY SpawnAdvances, IpcAssumption DEF Advance, Pid, Thread
  <1>5. pc'[t] \in {"init_ipc", "spawn_task"}
    BY SpawnAdvances DEF Advance
  <1>6. \A p \in Pid : Unfinished(p)' <=> Unfinished(p)
    BY <1>1, <1>4, <1>5 DEF Unfinished, SpawnPc
  <1>7. /\ \A p : Creating(p, PreInsert)' <=> Creating(p, PreInsert)
        /\ \A p : Creating(p, SpawnPc)' <=> Creating(p, SpawnPc)
    <2>1. CASE register_process(t)
      BY <2>1, SpawnAdvances, AdvanceCreating DEF SpawnPc, PreInsert
    <2>2. CASE InitIpc(t)
      BY <2>2, SpawnAdvances, AdvanceCreating DEF SpawnPc, PreInsert
    <2> QED
      BY <2>1, <2>2
  <1>8. InsertedOnce' /\ InsertedAndReady'
    BY <1>3, <1>6, <1>7 DEF TablesInv, InsertedOnce, InsertedAndReady
  <1>9. CASE register_process(t)
    <2>1. /\ LIFECYCLE_TABLE' = MapInsert(LIFECYCLE_TABLE, q, "Created")
          /\ endpoints' = endpoints
      BY <1>9 DEF register_process
    <2>2. /\ \A p : Creating(p, {"register"})' <=> Creating(p, {"register"}) /\ p # q
          /\ \A p : Creating(p, {"register", "init_ipc"})' <=> Creating(p, {"register", "init_ipc"})
      BY <1>9, SpawnAdvances, AdvanceCreating DEF SpawnPc
    <2>3. EndpointMatches'
      BY <1>1, <1>3, <1>4, <1>5, <2>1, <2>2 DEF TablesInv, EndpointMatches
    <2>4. LifecycleMatches'
      BY <1>1, <1>2, <1>3, <1>4, <1>5, <2>1, <2>2 DEF TablesInv, LifecycleMatches, MapInsert
    <2>5. SpawnedIsVisible'
      BY <1>2, <1>3, <1>6, <1>7, <2>1 DEF TablesInv, SpawnedIsVisible, MapInsert
    <2> QED
      BY <1>8, <2>3, <2>4, <2>5 DEF TablesInv
  <1>10. CASE InitIpc(t)
    <2>1. endpoints' = MapInsert(endpoints, q, <<>>) /\ LIFECYCLE_TABLE' = LIFECYCLE_TABLE
      BY <1>10 DEF InitIpc, init_process, tables
    <2>2. /\ \A p : Creating(p, {"register"})' <=> Creating(p, {"register"})
          /\ \A p : Creating(p, {"register", "init_ipc"})' <=>
                      Creating(p, {"register", "init_ipc"}) /\ p # q
      BY <1>10, SpawnAdvances, AdvanceCreating DEF SpawnPc
    <2>3. EndpointMatches'
      BY <1>1, <1>2, <1>3, <1>4, <1>5, <2>1, <2>2 DEF TablesInv, EndpointMatches, MapInsert
    <2>4. LifecycleMatches'
      BY <1>1, <1>3, <1>4, <1>5, <2>1, <2>2 DEF TablesInv, LifecycleMatches
    <2>5. SpawnedIsVisible'
      BY <1>3, <1>6, <1>7, <2>1 DEF TablesInv, SpawnedIsVisible
    <2> QED
      BY <1>8, <2>3, <2>4, <2>5 DEF TablesInv
  <1> QED
    BY <1>9, <1>10

(* spawn_task: the child starts running while its creation goes on, or a   *)
(* failed lookup ends the creation of a process that never has a task.     *)
LEMMA SpawnTaskTables ==
  ASSUME TypeOK, PidsUnique, TablesInv, NEW t \in Thread, spawn_task(t)
  PROVE  TablesInv'
  <1> DEFINE q == call[t].pid
  <1>1. pc[t] = "spawn_task" /\ q \in Pid /\ q < NEXT_PID
    BY SpawnPidIsPid DEF spawn_task, SpawnPc
  <1>2. pc[q] = "none" /\ Creating(q, PreInsert) /\ Creating(q, SpawnPc)
    BY <1>1 DEF PidsUnique, Creating, PreTask, SpawnPc, PreInsert
  <1>3. UNCHANGED <<endpoints, NEXT_PID, LIFECYCLE_TABLE, PROCESS_TABLE>>
    BY DEF spawn_task, tables
  <1>4. CASE Forked(t)
    <2>1. /\ \A p : Creating(p, {"register"})' <=> Creating(p, {"register"})
          /\ \A p : Creating(p, {"register", "init_ipc"})' <=> Creating(p, {"register", "init_ipc"})
          /\ \A p : Creating(p, PreInsert)' <=> Creating(p, PreInsert)
          /\ \A p : Creating(p, SpawnPc)' <=> Creating(p, SpawnPc)
      BY <1>4, ForkedCreating DEF Places
    <2>2. \A p \in Pid : pc'[p] = IF p = q THEN "user" ELSE IF p = t THEN "inject" ELSE pc[p]
      BY <1>4, IpcAssumption DEF Forked, Pid, Thread
    <2>3. \A p \in Pid : p # q => (Unfinished(p)' <=> Unfinished(p))
      BY <1>1, <2>2 DEF Unfinished, SpawnPc
    <2>4. EndpointMatches'
      BY <1>1, <1>2, <1>3, <2>1, <2>2 DEF TablesInv, EndpointMatches
    <2>5. LifecycleMatches'
      BY <1>1, <1>2, <1>3, <2>1, <2>2 DEF TablesInv, LifecycleMatches
    <2>6. InsertedOnce'
      BY <1>3, <2>1 DEF TablesInv, InsertedOnce
    <2>7. InsertedAndReady'
      BY <1>2, <1>3, <2>1, <2>3 DEF TablesInv, InsertedAndReady
    <2>8. SpawnedIsVisible'
      BY <1>2, <1>3, <2>1, <2>3 DEF TablesInv, SpawnedIsVisible
    <2> QED
      BY <2>4, <2>5, <2>6, <2>7, <2>8 DEF TablesInv
  <1>5. CASE Returned(t)
    <2>1. /\ \A p : Creating(p, {"register"})' <=> Creating(p, {"register"})
          /\ \A p : Creating(p, {"register", "init_ipc"})' <=> Creating(p, {"register", "init_ipc"})
          /\ \A p : Creating(p, PreInsert)' <=> Creating(p, PreInsert) /\ p # q
          /\ \A p : Creating(p, SpawnPc)' <=> Creating(p, SpawnPc) /\ p # q
      BY <1>1, <1>5, ReturnedCreating DEF SpawnPc, PreInsert
    <2>2. \A p \in Pid : pc'[p] = IF p = t THEN pc'[t] ELSE pc[p]
      BY <1>5, IpcAssumption DEF Returned, Pid, Thread
    <2>3. pc'[t] \in {"idle", "user"}
      BY <1>5 DEF Returned
    <2>4. \A p \in Pid : Unfinished(p)' => Unfinished(p) /\ p # q
      BY <1>1, <1>2, <2>2, <2>3 DEF Unfinished, SpawnPc
    <2>5. EndpointMatches'
      BY <1>1, <1>3, <2>1, <2>2, <2>3 DEF TablesInv, EndpointMatches
    <2>6. LifecycleMatches'
      BY <1>1, <1>3, <2>1, <2>2, <2>3 DEF TablesInv, LifecycleMatches
    <2>7. InsertedOnce'
      BY <1>3, <2>1 DEF TablesInv, InsertedOnce
    <2>8. InsertedAndReady'
      BY <1>3, <2>1, <2>4 DEF TablesInv, InsertedAndReady
    <2>9. SpawnedIsVisible'
      BY <1>3, <2>1, <2>4 DEF TablesInv, SpawnedIsVisible
    <2> QED
      BY <2>5, <2>6, <2>7, <2>8, <2>9 DEF TablesInv
  <1> QED
    BY <1>4, <1>5, SpawnTaskEffect

(* Injection and the insertion into PROCESS_TABLE: the entry appears when  *)
(* the creation leaves PreInsert.                                          *)
LEMMA InsertTables ==
  ASSUME TypeOK, PidsUnique, TablesInv, NEW t \in Thread,
         inject_bootstrap_capabilities(t) \/ InsertProcess(t)
  PROVE  TablesInv'
  <1> DEFINE q == call[t].pid
  <1>1. pc[t] \in {"inject", "insert"} /\ q \in Pid /\ q < NEXT_PID
    BY SpawnPidIsPid DEF inject_bootstrap_capabilities, InsertProcess, SpawnPc
  <1>2. UNCHANGED <<NEXT_PID, endpoints, LIFECYCLE_TABLE>>
    BY DEF inject_bootstrap_capabilities, InsertProcess, tables
  <1>3. \A p \in Pid : pc'[p] = IF p = t THEN pc'[t] ELSE pc[p]
    BY SpawnAdvances, IpcAssumption DEF Advance, Pid, Thread
  <1>4. pc'[t] \in {"insert", "ready"}
    BY SpawnAdvances DEF Advance
  <1>5. \A p \in Pid : Unfinished(p)' <=> Unfinished(p)
    BY <1>1, <1>3, <1>4 DEF Unfinished, SpawnPc
  <1>6. /\ \A p : Creating(p, {"register"})' <=> Creating(p, {"register"})
        /\ \A p : Creating(p, {"register", "init_ipc"})' <=> Creating(p, {"register", "init_ipc"})
        /\ \A p : Creating(p, SpawnPc)' <=> Creating(p, SpawnPc)
    <2>1. CASE inject_bootstrap_capabilities(t)
      BY <2>1, SpawnAdvances, AdvanceCreating DEF SpawnPc
    <2>2. CASE InsertProcess(t)
      BY <2>2, SpawnAdvances, AdvanceCreating DEF SpawnPc
    <2> QED
      BY <2>1, <2>2
  <1>7. EndpointMatches'
    BY <1>1, <1>2, <1>3, <1>4, <1>6 DEF TablesInv, EndpointMatches
  <1>8. LifecycleMatches'
    BY <1>1, <1>2, <1>3, <1>4, <1>6 DEF TablesInv, LifecycleMatches
  <1>9. CASE inject_bootstrap_capabilities(t)
    <2>1. PROCESS_TABLE' = PROCESS_TABLE
      BY <1>9 DEF inject_bootstrap_capabilities, tables
    <2>2. \A p : Creating(p, PreInsert)' <=> Creating(p, PreInsert)
      BY <1>9, SpawnAdvances, AdvanceCreating DEF SpawnPc, PreInsert
    <2>3. InsertedOnce' /\ InsertedAndReady' /\ SpawnedIsVisible'
      BY <1>2, <1>5, <1>6, <2>1, <2>2 DEF TablesInv, InsertedOnce, InsertedAndReady, SpawnedIsVisible
    <2> QED
      BY <1>7, <1>8, <2>3 DEF TablesInv
  <1>10. CASE InsertProcess(t)
    <2>1. DOMAIN PROCESS_TABLE' = DOMAIN PROCESS_TABLE \cup {q}
      BY <1>10 DEF InsertProcess, MapInsert
    <2>2. \A p : Creating(p, PreInsert)' <=> Creating(p, PreInsert) /\ p # q
      BY <1>10, SpawnAdvances, AdvanceCreating DEF SpawnPc, PreInsert
    <2>3. InsertedOnce' /\ InsertedAndReady' /\ SpawnedIsVisible'
      BY <1>2, <1>5, <1>6, <2>1, <2>2 DEF TablesInv, InsertedOnce, InsertedAndReady, SpawnedIsVisible
    <2> QED
      BY <1>7, <1>8, <2>3 DEF TablesInv
  <1> QED
    BY <1>9, <1>10

(* transition_state: the creation ends; if the child has not begun to exit *)
(* its entries exist and its state becomes Ready.                          *)
LEMMA ReadyTables ==
  ASSUME TypeOK, PidsUnique, TablesInv, NEW t \in Thread, transition_state(t)
  PROVE  TablesInv'
  <1> DEFINE q == call[t].pid
  <1>1. pc[t] = "ready" /\ q \in Pid /\ q < NEXT_PID
    BY SpawnPidIsPid DEF transition_state, SpawnPc
  <1>2. UNCHANGED <<NEXT_PID, endpoints, PROCESS_TABLE>> /\ Returned(t)
    BY ReturnEffect DEF transition_state
  <1>3. \A p \in Pid : pc'[p] = IF p = t THEN pc'[t] ELSE pc[p]
    BY <1>2, IpcAssumption DEF Returned, Pid, Thread
  <1>4. pc'[t] \in {"idle", "user"}
    BY <1>2 DEF Returned
  <1>5. \A p \in Pid : Unfinished(p)' => Unfinished(p)
    BY <1>1, <1>3, <1>4 DEF Unfinished, SpawnPc
  <1>6. /\ \A p : Creating(p, {"register"})' <=> Creating(p, {"register"})
        /\ \A p : Creating(p, {"register", "init_ipc"})' <=> Creating(p, {"register", "init_ipc"})
        /\ \A p : Creating(p, PreInsert)' <=> Creating(p, PreInsert)
        /\ \A p : Creating(p, SpawnPc)' <=> Creating(p, SpawnPc) /\ p # q
    BY <1>1, <1>2, ReturnedCreating DEF SpawnPc, PreInsert
  <1>7. ~Creating(q, PreInsert) /\ ~Creating(q, {"register"})
    BY <1>1 DEF PidsUnique, Creating, SpawnPc, PreInsert
  <1>8. /\ DOMAIN LIFECYCLE_TABLE' = DOMAIN LIFECYCLE_TABLE
        /\ \A p \in DOMAIN LIFECYCLE_TABLE :
             LIFECYCLE_TABLE'[p] = IF p = q THEN "Ready" ELSE LIFECYCLE_TABLE[p]
    BY DEF transition_state, SetState
  <1>9. EndpointMatches'
    BY <1>1, <1>2, <1>3, <1>4, <1>6 DEF TablesInv, EndpointMatches
  <1>10. LifecycleMatches'
    BY <1>1, <1>2, <1>3, <1>4, <1>6, <1>8 DEF TablesInv, LifecycleMatches
  <1>11. InsertedOnce' /\ InsertedAndReady'
    BY <1>2, <1>5, <1>6 DEF TablesInv, InsertedOnce, InsertedAndReady
  <1>12. Unfinished(q) => q \in DOMAIN PROCESS_TABLE /\ q \in DOMAIN LIFECYCLE_TABLE
    BY <1>1, <1>7 DEF TablesInv, InsertedAndReady, LifecycleMatches, Unfinished, SpawnPc
  <1>13. SpawnedIsVisible'
    <2> SUFFICES ASSUME NEW p \in Pid, Unfinished(p)', ~Creating(p, SpawnPc)'
                 PROVE  /\ p \in DOMAIN PROCESS_TABLE'
                        /\ p \in DOMAIN LIFECYCLE_TABLE' /\ LIFECYCLE_TABLE'[p] = "Ready"
      BY DEF SpawnedIsVisible
    <2>1. CASE p = q
      BY <1>2, <1>5, <1>8, <1>12, <2>1
    <2>2. CASE p # q
      BY <1>2, <1>5, <1>6, <1>8, <2>2 DEF TablesInv, SpawnedIsVisible
    <2> QED
      BY <2>1, <2>2
  <1> QED
    BY <1>9, <1>10, <1>11, <1>13 DEF TablesInv

(* Every step of a spawn keeps the tables and the threads in step.         *)
LEMMA SpawnStepTables ==
  ASSUME TypeOK, PidsUnique, TablesInv, NEW t \in Thread, SpawnStep(t)
  PROVE  TablesInv'
  BY RegisterTables, SpawnTaskTables, InsertTables, ReadyTables DEF SpawnStep

(* An exit removes each entry as it passes the place that the invariants   *)
(* say it is gone from; a fault removes none and stays Unfinished.         *)
LEMMA QuietTables ==
  ASSUME TypeOK, PidsUnique, TablesInv, NEW t \in Thread,
         ExitStep(t) \/ mark_process_exited(t) \/ Fault(t)
  PROVE  TablesInv'
  <1>1. /\ \A p \in Pid : pc'[p] = IF p = t THEN pc'[t] ELSE pc[p]
        /\ \A p : Creating(p, {"register"})' <=> Creating(p, {"register"})
        /\ \A p : Creating(p, {"register", "init_ipc"})' <=> Creating(p, {"register", "init_ipc"})
        /\ \A p : Creating(p, PreInsert)' <=> Creating(p, PreInsert)
        /\ \A p : Creating(p, SpawnPc)' <=> Creating(p, SpawnPc)
        /\ NEXT_PID' = NEXT_PID
    <2>1. ASSUME NEW from, NEW to, Quiet(t, from, to)
          PROVE  /\ \A p \in Pid : pc'[p] = IF p = t THEN pc'[t] ELSE pc[p]
                 /\ \A p : Creating(p, {"register"})' <=> Creating(p, {"register"})
                 /\ \A p : Creating(p, {"register", "init_ipc"})' <=> Creating(p, {"register", "init_ipc"})
                 /\ \A p : Creating(p, PreInsert)' <=> Creating(p, PreInsert)
                 /\ \A p : Creating(p, SpawnPc)' <=> Creating(p, SpawnPc)
      <3>1. \A p \in Pid : pc'[p] = IF p = t THEN pc'[t] ELSE pc[p]
        BY <2>1, IpcAssumption DEF Quiet, Pid, Thread
      <3>2. /\ {"register"} \in SUBSET SpawnPc /\ {"register", "init_ipc"} \in SUBSET SpawnPc
            /\ PreInsert \in SUBSET SpawnPc /\ SpawnPc \in SUBSET SpawnPc
        BY DEF SpawnPc, PreInsert
      <3> QED
        BY <2>1, <3>1, <3>2, QuietCreating
    <2>2. NEXT_PID' = NEXT_PID
      BY DEF ExitStep, ExitIpc, ExitTable, ExitLifecycle, mark_process_exited, Fault, tables
    <2> QED
      BY <2>1, <2>2, QuietSteps DEF ExitStep
  <1>2. CASE mark_process_exited(t)
    <2>1. /\ pc[t] = "user" /\ pc'[t] = "exit_ipc"
          /\ UNCHANGED <<endpoints, PROCESS_TABLE>>
          /\ DOMAIN LIFECYCLE_TABLE' = DOMAIN LIFECYCLE_TABLE
          /\ \A p \in DOMAIN LIFECYCLE_TABLE : p # t => LIFECYCLE_TABLE'[p] = LIFECYCLE_TABLE[p]
      BY <1>2 DEF mark_process_exited, SetState, Goto, TypeOK
    <2>2. \A p \in Pid : Unfinished(p)' => Unfinished(p) /\ p # t
      BY <1>1, <2>1 DEF Unfinished, SpawnPc
    <2>3. EndpointMatches' /\ LifecycleMatches'
      BY <1>1, <2>1 DEF TablesInv, EndpointMatches, LifecycleMatches
    <2>4. InsertedOnce' /\ InsertedAndReady' /\ SpawnedIsVisible'
      BY <1>1, <2>1, <2>2 DEF TablesInv, InsertedOnce, InsertedAndReady, SpawnedIsVisible
    <2> QED
      BY <2>3, <2>4 DEF TablesInv
  <1>3. CASE Fault(t)
    <2>1. /\ pc[t] = "user" /\ pc'[t] = "faulted"
          /\ UNCHANGED <<endpoints, PROCESS_TABLE, LIFECYCLE_TABLE>>
      BY <1>3 DEF Fault, Goto, TypeOK, tables
    <2>2. \A p \in Pid : Unfinished(p)' => Unfinished(p)
      BY <1>1, <2>1 DEF Unfinished, SpawnPc
    <2>3. EndpointMatches' /\ LifecycleMatches'
      BY <1>1, <2>1 DEF TablesInv, EndpointMatches, LifecycleMatches
    <2>4. InsertedOnce' /\ InsertedAndReady' /\ SpawnedIsVisible'
      BY <1>1, <2>1, <2>2 DEF TablesInv, InsertedOnce, InsertedAndReady, SpawnedIsVisible
    <2> QED
      BY <2>3, <2>4 DEF TablesInv
  <1>4. CASE ExitStep(t)
    <2>1. /\ pc[t] \in ExitPc /\ pc'[t] \in {"exit_table", "exit_lifecycle", "dead"}
          /\ \A p : p # t => /\ p \in DOMAIN endpoints' <=> p \in DOMAIN endpoints
                             /\ p \in DOMAIN PROCESS_TABLE' <=> p \in DOMAIN PROCESS_TABLE
                             /\ p \in DOMAIN LIFECYCLE_TABLE' <=> p \in DOMAIN LIFECYCLE_TABLE
                             /\ p \in DOMAIN LIFECYCLE_TABLE =>
                                  LIFECYCLE_TABLE'[p] = LIFECYCLE_TABLE[p]
          /\ DOMAIN PROCESS_TABLE' \subseteq DOMAIN PROCESS_TABLE
      BY <1>4 DEF ExitStep, ExitIpc, ExitTable, ExitLifecycle, cleanup_process, MapRemove,
                  Restrict, Goto, TypeOK, ExitPc, tables
    <2>2. \A p \in Pid : Unfinished(p)' => Unfinished(p) /\ p # t
      BY <1>1, <2>1 DEF Unfinished, SpawnPc
    <2>3. /\ t \in DOMAIN endpoints' <=> t \in DOMAIN endpoints /\ pc[t] # "exit_ipc"
          /\ t \in DOMAIN LIFECYCLE_TABLE' <=>
               t \in DOMAIN LIFECYCLE_TABLE /\ pc[t] # "exit_lifecycle"
          /\ pc'[t] = "dead" <=> pc[t] = "exit_lifecycle"
      BY <1>4 DEF ExitStep, ExitIpc, ExitTable, ExitLifecycle, cleanup_process, MapRemove,
                  Restrict, Goto, TypeOK, tables
    <2>4. EndpointMatches'
      BY <1>1, <2>1, <2>3 DEF TablesInv, EndpointMatches, ExitPc
    <2>5. LifecycleMatches'
      BY <1>1, <2>1, <2>3 DEF TablesInv, LifecycleMatches, ExitPc
    <2>6. InsertedOnce' /\ InsertedAndReady' /\ SpawnedIsVisible'
      BY <1>1, <2>1, <2>2 DEF TablesInv, InsertedOnce, InsertedAndReady, SpawnedIsVisible
    <2> QED
      BY <2>4, <2>5, <2>6 DEF TablesInv
  <1> QED
    BY <1>2, <1>3, <1>4

(* Sending and receiving change the contents of queues, never which exist. *)
LEMMA IpcSteps ==
  ASSUME TypeOK, NEW t \in Thread,
         IpcRecv(t) \/ \E handle \in Pid, d \in Data : IpcSend(t, handle, d)
  PROVE  /\ UNCHANGED <<NEXT_PID, LIFECYCLE_TABLE, PROCESS_TABLE, pc, call>>
         /\ DOMAIN endpoints' = DOMAIN endpoints
  BY DEF IpcRecv, IpcSend, send, recv, tables

(* A step that changes only the contents of queues keeps the id and table  *)
(* invariants.                                                             *)
LEMMA IpcTables ==
  ASSUME PidsUnique, TablesInv,
         UNCHANGED <<NEXT_PID, LIFECYCLE_TABLE, PROCESS_TABLE, pc, call>>,
         DOMAIN endpoints' = DOMAIN endpoints
  PROVE  PidsUnique' /\ TablesInv'
  <1>1. \A p, S : Creating(p, S)' <=> Creating(p, S)
    BY DEF Creating
  <1>2. \A p : Unfinished(p)' <=> Unfinished(p)
    BY DEF Unfinished
  <1>3. PidsUnique'
    BY <1>1 DEF PidsUnique
  <1>4. EndpointMatches' /\ LifecycleMatches'
    BY <1>1 DEF TablesInv, EndpointMatches, LifecycleMatches
  <1>5. InsertedOnce' /\ InsertedAndReady' /\ SpawnedIsVisible'
    BY <1>1, <1>2 DEF TablesInv, InsertedOnce, InsertedAndReady, SpawnedIsVisible
  <1> QED
    BY <1>3, <1>4, <1>5 DEF TablesInv

-----------------------------------------------------------------------------
(* The permission check of SpawnElf.  An entry of PROCESS_TABLE is only    *)
(* replaced while its process is being created and only removed by its own *)
(* process's exit, so the caller's entry stays as the check saw it.        *)
LEMMA FsCallerKept ==
  ASSUME SpawnElfCallerIsFs,
         \A u \in Thread : pc'[u] \in SpawnPc /\ call'[u].elf =>
            \/ IsFsCaller(u)'
            \/ /\ pc[u] \in SpawnPc /\ call[u].elf
               /\ IsFsCaller(u) => IsFsCaller(u)'
  PROVE  SpawnElfCallerIsFs'
  BY DEF SpawnElfCallerIsFs

(* No step of a spawn changes the entry of a process that is spawning.     *)
LEMMA SpawnStepFsCaller ==
  ASSUME TypeOK, PidsUnique, TablesInv, SpawnElfCallerIsFs, NEW t \in Thread, SpawnStep(t)
  PROVE  SpawnElfCallerIsFs'
  <1>1. CASE register_process(t)
    BY <1>1, FsCallerKept DEF register_process, Goto, TypeOK, SpawnPc, IsFsCaller
  <1>2. CASE InitIpc(t)
    BY <1>2, FsCallerKept DEF InitIpc, Goto, TypeOK, SpawnPc, IsFsCaller, tables
  <1>3. CASE spawn_task(t)
    <2>1. UNCHANGED PROCESS_TABLE /\ pc[t] \in SpawnPc
      BY <1>3 DEF spawn_task, tables, SpawnPc
    <2>2. CASE Forked(t)
      BY <2>1, <2>2, FsCallerKept DEF Forked, SpawnPc, IsFsCaller
    <2>3. CASE Returned(t)
      BY <2>1, <2>3, FsCallerKept DEF Returned, SpawnPc, IsFsCaller
    <2> QED
      BY <1>3, <2>2, <2>3, SpawnTaskEffect
  <1>4. CASE inject_bootstrap_capabilities(t)
    <2>1. UNCHANGED PROCESS_TABLE /\ pc[t] \in SpawnPc
      BY <1>4 DEF inject_bootstrap_capabilities, tables, SpawnPc
    <2>2. \A u \in Thread : /\ pc'[u] = IF u = t THEN "insert" ELSE pc[u]
                            /\ call'[u].elf = call[u].elf
      BY <1>4, InjectEffect DEF TypeOK
    <2> QED
      BY <2>1, <2>2, FsCallerKept DEF IsFsCaller
  <1>5. CASE InsertProcess(t)
    <2>1. /\ pc[t] \in SpawnPc /\ call' = call
          /\ \A u \in Thread : pc'[u] \in SpawnPc => pc[u] \in SpawnPc
      BY <1>5 DEF InsertProcess, Goto, TypeOK, SpawnPc
    <2>2. call[t].pid \notin DOMAIN PROCESS_TABLE
      BY <1>5, <2>1, SpawnPidIsPid DEF InsertProcess, TablesInv, InsertedOnce, Creating, PreInsert, SpawnPc
    <2>3. \A u \in Thread : IsFsCaller(u) => IsFsCaller(u)'
      BY <1>5, <2>2 DEF InsertProcess, MapInsert, IsFsCaller
    <2> QED
      BY <2>1, <2>3, FsCallerKept
  <1>6. CASE transition_state(t)
    <2>1. UNCHANGED PROCESS_TABLE /\ pc[t] \in SpawnPc /\ Returned(t)
      BY <1>6, ReturnEffect DEF transition_state, SpawnPc
    <2> QED
      BY <2>1, FsCallerKept DEF Returned, SpawnPc, IsFsCaller
  <1> QED
    BY <1>1, <1>2, <1>3, <1>4, <1>5, <1>6 DEF SpawnStep

(* An exiting process removes its own entry only, and is not spawning.     *)
LEMMA OtherStepFsCaller ==
  ASSUME TypeOK, SpawnElfCallerIsFs, NEW t \in Thread,
         ExitStep(t) \/ mark_process_exited(t) \/ Fault(t)
  PROVE  SpawnElfCallerIsFs'
  <1>1. \A u \in Thread : u # t /\ IsFsCaller(u) => IsFsCaller(u)'
    BY DEF ExitStep, ExitIpc, ExitTable, ExitLifecycle, mark_process_exited, Fault, tables,
           MapRemove, Restrict, IsFsCaller
  <1>2. call' = call /\ \A u \in Thread : pc'[u] \in SpawnPc => pc[u] \in SpawnPc /\ u # t
    BY QuietSteps DEF ExitStep, Quiet
  <1> QED
    BY <1>1, <1>2, FsCallerKept

(* A new SpawnElf call has just passed the check; a Spawn needs none.      *)
LEMMA AllocateFsCaller ==
  ASSUME TypeOK, SpawnElfCallerIsFs, NEW t \in Thread, NEW path, NEW elf \in BOOLEAN,
         allocate_pid(t, path, elf), elf => IsFsCaller(t)
  PROVE  SpawnElfCallerIsFs'
  BY FsCallerKept DEF allocate_pid, Goto, TypeOK, IsFsCaller

-----------------------------------------------------------------------------
(* Capabilities.  OwnerKept(o): a step neither restarts the creation of a  *)
(* process that has been inserted nor changes its entry other than by      *)
(* removing it.  That is what keeps a capability for it good.              *)
OwnerKept(o) ==
  o < NEXT_PID /\ ~Creating(o, PreInsert) =>
    /\ o < NEXT_PID' /\ ~Creating(o, PreInsert)'
    /\ o \in DOMAIN PROCESS_TABLE' => /\ o \in DOMAIN PROCESS_TABLE
                                      /\ PROCESS_TABLE'[o] = PROCESS_TABLE[o]

(* A step that keeps every owner, and stores and prepares no capability    *)
(* that was not good before, keeps CapsGood.                               *)
LEMMA CapsKept ==
  ASSUME TypeOK, TypeOK', CapsGood,
         \A o \in Pid : OwnerKept(o),
         \A p \in DOMAIN PROCESS_TABLE' :
            \/ p \in DOMAIN PROCESS_TABLE /\ PROCESS_TABLE'[p] = PROCESS_TABLE[p]
            \/ \A h \in 2 .. 5 : GoodOwner(PROCESS_TABLE'[p].cspace[h], p, h),
         \A u \in Thread : pc'[u] = "insert" =>
            \/ pc[u] = "insert" /\ call'[u] = call[u]
            \/ \A h \in 2 .. 5 : GoodOwner(call'[u].cspace[h], call'[u].pid, h)
  PROVE  CapsGood'
  <1>1. ASSUME NEW o \in Thread, NEW p, NEW h, GoodOwner(o, p, h)
        PROVE  GoodOwner(o, p, h)'
    <2>1. o # 0 => o \in Pid
      BY <1>1, IpcAssumption DEF Thread, Pid
    <2> QED
      BY <1>1, <2>1 DEF GoodOwner, OwnerKept
  <1>2. ASSUME NEW p \in DOMAIN PROCESS_TABLE', NEW h \in 2 .. 5
        PROVE  GoodOwner(PROCESS_TABLE[p].cspace[h], p, h)'
    <2>1. PICK o \in Thread : o = PROCESS_TABLE'[p].cspace[h]
      BY <1>2 DEF TypeOK, ProcessInfo, CSpace, Handle
    <2>2. GoodOwner(o, p, h)
      BY <1>2, <2>1 DEF CapsGood
    <2>3. GoodOwner(o, p, h)'
      BY <1>1, <2>2
    <2> QED
      BY <2>1, <2>3
  <1>3. ASSUME NEW u \in Thread, NEW h \in 2 .. 5, pc'[u] = "insert"
        PROVE  GoodOwner(call[u].cspace[h], call[u].pid, h)'
    <2>1. PICK o \in Thread, p \in Thread : o = call'[u].cspace[h] /\ p = call'[u].pid
      BY <1>3 DEF TypeOK, Call, CSpace, Handle
    <2>2. GoodOwner(o, p, h)
      BY <1>3, <2>1 DEF CapsGood
    <2>3. GoodOwner(o, p, h)'
      BY <1>1, <2>2
    <2> QED
      BY <2>1, <2>3
  <1> QED
    BY <1>2, <1>3 DEF CapsGood

(* The search of PROCESS_TABLE finds a process of the given program.       *)
LEMMA ServiceOwnerRuns ==
  ASSUME TypeOK, NEW path
  PROVE  LET o == ServiceOwner(path) IN
         o # 0 => o \in DOMAIN PROCESS_TABLE /\ PROCESS_TABLE[o].app_path = path
  <1> DEFINE owners == {p \in DOMAIN PROCESS_TABLE : PROCESS_TABLE[p].app_path = path}
  <1>1. owners \subseteq Nat
    BY DEF TypeOK, Pid
  <1>2. owners # {} => Min(owners) \in owners
    BY <1>1, FirstOfPids
  <1> QED
    BY <1>2 DEF ServiceOwner

(* What injection stores is good: the owner is in the table, so it is not  *)
(* being created, and in particular is not the process that is.            *)
LEMMA InjectedGood ==
  ASSUME TypeOK, PidsUnique, TablesInv, NEW t \in Thread, pc[t] = "inject", NEW h \in 2 .. 5
  PROVE  GoodOwner(InjectedCap(call[t].path, call[t].pid, h), call[t].pid, h)
  <1> DEFINE o == InjectedCap(call[t].path, call[t].pid, h)
  <1>1. o = 0 \/ o = ServiceOwner(HandlePath[h])
    <2>1. CASE h = 2
      BY <2>1 DEF InjectedCap, HandlePath
    <2>2. CASE h = 3
      BY <2>2 DEF InjectedCap, HandlePath
    <2>3. CASE h = 4
      BY <2>3 DEF InjectedCap, HandlePath
    <2>4. CASE h = 5
      BY <2>4 DEF InjectedCap, HandlePath
    <2> QED
      BY <2>1, <2>2, <2>3, <2>4
  <1> SUFFICES ASSUME o # 0
               PROVE  /\ o # call[t].pid /\ o < NEXT_PID /\ ~Creating(o, PreInsert)
                      /\ o \in DOMAIN PROCESS_TABLE =>
                           PROCESS_TABLE[o].app_path = HandlePath[h]
    BY DEF GoodOwner
  <1>2. o \in DOMAIN PROCESS_TABLE /\ PROCESS_TABLE[o].app_path = HandlePath[h]
    BY <1>1, ServiceOwnerRuns
  <1>3. o \in Pid /\ NEXT_PID \in Int
    BY <1>2 DEF TypeOK
  <1>4. o < NEXT_PID
    BY <1>2, <1>3 DEF PidsUnique, Pid
  <1>5. ~Creating(o, PreInsert)
    BY <1>2, <1>3 DEF TablesInv, InsertedOnce
  <1>6. Creating(call[t].pid, PreInsert)
    BY DEF Creating, PreInsert, SpawnPc
  <1> QED
    BY <1>2, <1>4, <1>5, <1>6

(* A step that leaves PROCESS_TABLE alone or removes from it, starts no    *)
(* creation and prepares no capabilities.                                  *)
LEMMA CapsUntouched ==
  ASSUME TypeOK, TypeOK', CapsGood, NEXT_PID' = NEXT_PID,
         \A p : Creating(p, PreInsert)' => Creating(p, PreInsert),
         \A p \in DOMAIN PROCESS_TABLE' :
            p \in DOMAIN PROCESS_TABLE /\ PROCESS_TABLE'[p] = PROCESS_TABLE[p],
         \A u \in Thread : pc'[u] = "insert" => pc[u] = "insert" /\ call'[u] = call[u]
  PROVE  CapsGood'
  <1>1. \A o \in Pid : OwnerKept(o)
    BY DEF OwnerKept
  <1> QED
    BY <1>1, CapsKept

(* allocate_pid: the one creation that starts is of an id no capability    *)
(* refers to yet.                                                          *)
LEMMA AllocateCaps ==
  ASSUME TypeOK, TypeOK', CapsGood, NEW t \in Thread, NEW path, NEW elf,
         allocate_pid(t, path, elf)
  PROVE  CapsGood'
  <1>1. /\ \A u \in Thread : pc'[u] = IF u = t THEN "register" ELSE pc[u]
        /\ \A u \in Thread : u # t => call'[u] = call[u]
        /\ call'[t].pid = NEXT_PID
        /\ PROCESS_TABLE' = PROCESS_TABLE /\ NEXT_PID' = NEXT_PID + 1
    BY DEF TypeOK, allocate_pid, Goto
  <1>2. \A p : Creating(p, PreInsert)' => Creating(p, PreInsert) \/ p = NEXT_PID
    BY <1>1 DEF Creating
  <1>3. \A o \in Pid : OwnerKept(o)
    <2>1. \A o \in Pid : o \in Nat /\ NEXT_PID \in Nat
      BY IpcAssumption DEF TypeOK, Pid
    <2>2. \A o \in Pid : o < NEXT_PID => o < NEXT_PID' /\ o # NEXT_PID
      BY <1>1, <2>1
    <2> QED BY <1>1, <1>2, <2>2, Zenon DEF OwnerKept
  <1>4. \A u \in Thread : pc'[u] = "insert" => pc[u] = "insert" /\ call'[u] = call[u]
    BY <1>1
  <1> QED
    BY <1>1, <1>3, <1>4, CapsKept

(* The steps of a spawn: injection prepares good capabilities, insertion   *)
(* stores them, and the entry it adds belongs to a process no capability   *)
(* refers to.                                                              *)
LEMMA SpawnStepCaps ==
  ASSUME TypeOK, TypeOK', PidsUnique, TablesInv, CapsGood, NEW t \in Thread, SpawnStep(t)
  PROVE  CapsGood'
  <1>0. /\ PreInsert \in SUBSET SpawnPc
        /\ {"register", "init_ipc", "spawn_task", "inject", "insert"} \subseteq PreInsert
        /\ "ready" \notin PreInsert
    BY DEF PreInsert, SpawnPc
  <1>1. CASE register_process(t)
    <2>1. \A p : Creating(p, PreInsert)' => Creating(p, PreInsert)
      BY <1>0, <1>1, SpawnAdvances, AdvanceCreating DEF SpawnPc
    <2>2. \A u \in Thread : pc'[u] = "insert" => pc[u] = "insert" /\ call'[u] = call[u]
      BY <1>1 DEF register_process, Goto, TypeOK
    <2> QED
      BY <1>1, <2>1, <2>2, CapsUntouched DEF register_process
  <1>2. CASE InitIpc(t)
    <2>1. \A p : Creating(p, PreInsert)' => Creating(p, PreInsert)
      BY <1>0, <1>2, SpawnAdvances, AdvanceCreating DEF SpawnPc
    <2>2. \A u \in Thread : pc'[u] = "insert" => pc[u] = "insert" /\ call'[u] = call[u]
      BY <1>2 DEF InitIpc, Goto, TypeOK
    <2> QED
      BY <1>2, <2>1, <2>2, CapsUntouched DEF InitIpc, tables
  <1>3. CASE spawn_task(t)
    <2>1. UNCHANGED <<NEXT_PID, PROCESS_TABLE>> /\ pc[t] \in SpawnPc
      BY <1>3 DEF spawn_task, tables, SpawnPc
    <2>2. CASE Forked(t)
      <3>1. \A p : Creating(p, PreInsert)' => Creating(p, PreInsert)
        BY <2>2, ForkedCreating DEF Places
      <3>2. \A u \in Thread : pc'[u] = "insert" => pc[u] = "insert" /\ call'[u] = call[u]
        BY <2>2 DEF Forked
      <3> QED
        BY <2>1, <3>1, <3>2, CapsUntouched
    <2>3. CASE Returned(t)
      <3>1. \A p : Creating(p, PreInsert)' => Creating(p, PreInsert)
        BY <1>0, <2>1, <2>3, ReturnedCreating
      <3>2. \A u \in Thread : pc'[u] = "insert" => pc[u] = "insert" /\ call'[u] = call[u]
        BY <2>3 DEF Returned
      <3> QED
        BY <2>1, <3>1, <3>2, CapsUntouched
    <2> QED
      BY <1>3, <2>2, <2>3, SpawnTaskEffect
  <1>4. CASE inject_bootstrap_capabilities(t)
    <2>1. UNCHANGED <<NEXT_PID, PROCESS_TABLE>>
      BY <1>4 DEF inject_bootstrap_capabilities, tables
    <2>2. \A p : Creating(p, PreInsert)' => Creating(p, PreInsert)
      BY <1>0, <1>4, SpawnAdvances, AdvanceCreating DEF SpawnPc
    <2>3. \A o \in Pid : OwnerKept(o)
      BY <2>1, <2>2 DEF OwnerKept
    <2>4. \A h \in 2 .. 5 : GoodOwner(call'[t].cspace[h], call'[t].pid, h)
      <3> TAKE h \in 2 .. 5
      <3>1. GoodOwner(InjectedCap(call[t].path, call[t].pid, h), call[t].pid, h)
        BY <1>4, InjectedGood DEF inject_bootstrap_capabilities
      <3>2. call'[t].cspace[h] = InjectedCap(call[t].path, call[t].pid, h)
        <4>1. h \in Handle
          BY DEF Handle
        <4>2. call'[t].cspace =
                [x \in Handle |-> InjectedCap(call[t].path, call[t].pid, x)]
          BY <1>4, InjectEffect
        <4> QED
          BY <4>1, <4>2, Zenon
      <3>3. call'[t].pid = call[t].pid
        BY <1>4, InjectEffect
      <3> QED
        BY <3>1, <3>2, <3>3
    <2>5. \A u \in Thread : u # t => pc'[u] = pc[u] /\ call'[u] = call[u]
      BY <1>4, InjectEffect DEF TypeOK
    <2> QED
      BY <2>1, <2>3, <2>4, <2>5, CapsKept
  <1>5. CASE InsertProcess(t)
    <2> DEFINE q == call[t].pid
    <2>1. /\ DOMAIN PROCESS_TABLE' = DOMAIN PROCESS_TABLE \cup {q}
          /\ \A p \in DOMAIN PROCESS_TABLE : p # q => PROCESS_TABLE'[p] = PROCESS_TABLE[p]
          /\ PROCESS_TABLE'[q].cspace = call[t].cspace
          /\ NEXT_PID' = NEXT_PID /\ call' = call /\ pc[t] = "insert"
      BY <1>5 DEF InsertProcess, MapInsert
    <2>2. \A p : Creating(p, PreInsert)' <=> Creating(p, PreInsert) /\ p # q
      BY <1>0, <1>5, SpawnAdvances, AdvanceCreating DEF SpawnPc
    <2>3. Creating(q, PreInsert)
      BY <1>0, <2>1 DEF Creating
    <2>4. \A o \in Pid : OwnerKept(o)
      BY <2>1, <2>2, <2>3 DEF OwnerKept
    <2>5. \A h \in 2 .. 5 : GoodOwner(PROCESS_TABLE'[q].cspace[h], q, h)
      BY <2>1 DEF CapsGood
    <2>6. \A u \in Thread : pc'[u] = "insert" => pc[u] = "insert" /\ call'[u] = call[u]
      BY <1>5, <2>1 DEF InsertProcess, Goto, TypeOK
    <2> QED
      BY <2>1, <2>4, <2>5, <2>6, CapsKept
  <1>6. CASE transition_state(t)
    <2>1. UNCHANGED <<NEXT_PID, PROCESS_TABLE>> /\ pc[t] \in SpawnPc /\ Returned(t)
      BY <1>6, ReturnEffect DEF transition_state, SpawnPc
    <2>2. \A p : Creating(p, PreInsert)' => Creating(p, PreInsert)
      BY <1>0, <2>1, ReturnedCreating
    <2>3. \A u \in Thread : pc'[u] = "insert" => pc[u] = "insert" /\ call'[u] = call[u]
      BY <2>1 DEF Returned
    <2> QED
      BY <2>1, <2>2, <2>3, CapsUntouched
  <1> QED
    BY <1>1, <1>2, <1>3, <1>4, <1>5, <1>6 DEF SpawnStep

(* Exits and faults at most remove a PROCESS_TABLE entry.                  *)
LEMMA QuietCaps ==
  ASSUME TypeOK, TypeOK', CapsGood, NEW t \in Thread,
         ExitStep(t) \/ mark_process_exited(t) \/ Fault(t)
  PROVE  CapsGood'
  <1>1. /\ NEXT_PID' = NEXT_PID
        /\ \A p \in DOMAIN PROCESS_TABLE' :
             p \in DOMAIN PROCESS_TABLE /\ PROCESS_TABLE'[p] = PROCESS_TABLE[p]
    BY DEF ExitStep, ExitIpc, ExitTable, ExitLifecycle, mark_process_exited, Fault, tables,
           MapRemove, Restrict
  <1>2. PreInsert \in SUBSET SpawnPc
    BY DEF PreInsert, SpawnPc
  <1>3. ASSUME NEW from, NEW to, Quiet(t, from, to)
        PROVE  /\ \A p : Creating(p, PreInsert)' => Creating(p, PreInsert)
               /\ \A u \in Thread : pc'[u] = "insert" => pc[u] = "insert" /\ call'[u] = call[u]
    BY <1>2, <1>3, QuietCreating DEF Quiet, SpawnPc
  <1>4. /\ \A p : Creating(p, PreInsert)' => Creating(p, PreInsert)
        /\ \A u \in Thread : pc'[u] = "insert" => pc[u] = "insert" /\ call'[u] = call[u]
    BY <1>3, QuietSteps DEF ExitStep
  <1> QED
    BY <1>1, <1>4, CapsUntouched

-----------------------------------------------------------------------------
(* ProcessInv holds initially: the tables are empty, the only thread is    *)
(* the boot thread and no creation is under way.                           *)
LEMMA InitInv == Init => ProcessInv
  <1> SUFFICES ASSUME Init PROVE ProcessInv
    OBVIOUS
  <1>1. TypeOK
    BY InitTypeOK
  <1>2. /\ NEXT_PID = 1 /\ DOMAIN endpoints = {}
        /\ DOMAIN LIFECYCLE_TABLE = {} /\ DOMAIN PROCESS_TABLE = {}
        /\ \A u \in Thread : pc[u] \in {"boot", "none"}
        /\ \A p \in Pid : pc[p] = "none"
    BY IpcAssumption DEF Init, Pid, Thread
  <1>3. \A u \in Thread : pc[u] \notin SpawnPc
    BY <1>2 DEF SpawnPc
  <1>4. \A p \in Pid : ~Unfinished(p) /\ ~(p < 1)
    BY <1>2, IpcAssumption DEF Unfinished, SpawnPc, Pid
  <1>5. PidsUnique
    BY <1>2, <1>3, IpcAssumption DEF PidsUnique, Pid
  <1>6. EndpointMatches /\ LifecycleMatches
    BY <1>2, <1>4 DEF EndpointMatches, LifecycleMatches
  <1>7. SpawnedIsVisible /\ InsertedAndReady /\ InsertedOnce
    BY <1>2, <1>4 DEF SpawnedIsVisible, InsertedAndReady, InsertedOnce
  <1>8. SpawnElfCallerIsFs
    BY <1>3 DEF SpawnElfCallerIsFs
  <1>9. CapsGood
    BY <1>2, <1>3 DEF CapsGood, SpawnPc
  <1> QED
    BY <1>1, <1>5, <1>6, <1>7, <1>8, <1>9 DEF ProcessInv

(* Every step of the kernel preserves ProcessInv.                          *)
LEMMA NextInv == ProcessInv /\ [Next]_vars => ProcessInv'
  <1> SUFFICES ASSUME ProcessInv, [Next]_vars PROVE ProcessInv'
    OBVIOUS
  <1>1. TypeOK /\ PidsUnique /\ TablesInv /\ SpawnElfCallerIsFs /\ CapsGood
    BY DEF ProcessInv, TablesInv
  <1>2. SUFFICES TypeOK' /\ PidsUnique' /\ TablesInv' /\ SpawnElfCallerIsFs' /\ CapsGood'
    BY DEF ProcessInv, TablesInv
  <1>a. ASSUME NEW t \in Thread, NEW path \in Paths, NEW elf \in BOOLEAN,
               allocate_pid(t, path, elf), elf => IsFsCaller(t),
               pc[t] = "user" \/ (t = 0 /\ pc[t] = "boot")
        PROVE  TypeOK' /\ PidsUnique' /\ TablesInv' /\ SpawnElfCallerIsFs' /\ CapsGood'
    <2>1. TypeOK'
      BY <1>a, <1>1, AllocateTypeOK
    <2> QED
      BY <1>a, <1>1, <2>1, AllocateUnique, AllocateTables, AllocateFsCaller, AllocateCaps
  <1>u. ASSUME UNCHANGED vars
        PROVE  TypeOK' /\ PidsUnique' /\ TablesInv' /\ SpawnElfCallerIsFs' /\ CapsGood'
    <2>1. UNCHANGED <<endpoints, NEXT_PID, LIFECYCLE_TABLE, PROCESS_TABLE, pc, call>>
      BY <1>u DEF vars, tables
    <2>2. TypeOK'
      BY <1>1, <2>1 DEF TypeOK, EndpointsType
    <2>3. PidsUnique' /\ TablesInv'
      BY <1>1, <2>1, IpcTables
    <2>4. SpawnElfCallerIsFs'
      BY <1>1, <2>1 DEF SpawnElfCallerIsFs, IsFsCaller
    <2>5. CapsGood'
      BY <1>1, <2>1, <2>2, CapsUntouched DEF Creating
    <2> QED
      BY <2>2, <2>3, <2>4, <2>5
  <1>3. CASE Boot
    <2>1. 0 \in Thread /\ "/boot/init" \in Paths /\ FALSE \in BOOLEAN
      BY IpcAssumption, ProcessAssumption DEF Thread
    <2> QED
      BY <1>3, <1>a, <2>1 DEF Boot
  <1>4. CASE Yield
    BY <1>4, <1>u DEF Yield
  <1>5. ASSUME NEW t \in Thread, SpawnStep(t)
        PROVE  TypeOK' /\ PidsUnique' /\ TablesInv' /\ SpawnElfCallerIsFs' /\ CapsGood'
    <2>1. TypeOK'
      BY <1>1, <1>5, SpawnStepTypeOK
    <2> QED
      BY <1>1, <1>5, <2>1, SpawnStepUnique, SpawnStepTables, SpawnStepFsCaller, SpawnStepCaps
  <1>6. ASSUME NEW t \in Thread, ExitStep(t) \/ mark_process_exited(t) \/ Fault(t)
        PROVE  TypeOK' /\ PidsUnique' /\ TablesInv' /\ SpawnElfCallerIsFs' /\ CapsGood'
    <2>1. TypeOK'
      BY <1>1, <1>6, ExitStepTypeOK, UserStepTypeOK DEF UserStep
    <2>2. NEXT_PID' = NEXT_PID /\ DOMAIN PROCESS_TABLE' \subseteq DOMAIN PROCESS_TABLE
      BY <1>6 DEF ExitStep, ExitIpc, ExitTable, ExitLifecycle, mark_process_exited, Fault,
                  tables, MapRemove, Restrict
    <2>3. PidsUnique'
      BY <1>1, <1>6, <2>2, QuietSteps, QuietUnique DEF ExitStep
    <2> QED
      BY <1>1, <1>6, <2>1, <2>3, QuietTables, OtherStepFsCaller, QuietCaps
  <1>7. ASSUME NEW t \in Thread, UserStep(t)
        PROVE  TypeOK' /\ PidsUnique' /\ TablesInv' /\ SpawnElfCallerIsFs' /\ CapsGood'
    <2>1. ASSUME NEW path \in Paths, Spawn(t, path) \/ SpawnElf(t, path)
          PROVE  TypeOK' /\ PidsUnique' /\ TablesInv' /\ SpawnElfCallerIsFs' /\ CapsGood'
      BY <2>1, <1>a DEF Spawn, SpawnElf
    <2>2. ASSUME IpcRecv(t) \/ \E handle \in Pid, d \in Data : IpcSend(t, handle, d)
          PROVE  TypeOK' /\ PidsUnique' /\ TablesInv' /\ SpawnElfCallerIsFs' /\ CapsGood'
      <3>1. TypeOK'
        BY <1>1, <1>7, UserStepTypeOK
      <3>2. /\ UNCHANGED <<NEXT_PID, LIFECYCLE_TABLE, PROCESS_TABLE, pc, call>>
            /\ DOMAIN endpoints' = DOMAIN endpoints
        BY <1>1, <2>2, IpcSteps
      <3>3. PidsUnique' /\ TablesInv'
        BY <1>1, <3>2, IpcTables
      <3>4. SpawnElfCallerIsFs'
        BY <1>1, <3>2 DEF SpawnElfCallerIsFs, IsFsCaller
      <3>5. CapsGood'
        BY <1>1, <3>1, <3>2, CapsUntouched DEF Creating
      <3> QED
        BY <3>1, <3>3, <3>4, <3>5
    <2> QED
      BY <1>7, <1>6, <2>1, <2>2 DEF UserStep
  <1> QED
    BY <1>3, <1>4, <1>5, <1>6, <1>7, <1>u DEF Next

(* ProcessInv is an invariant of the kernel.                               *)
THEOREM ProcessCorrect == Spec => []ProcessInv
  BY InitInv, NextInv, PTL DEF Spec

(* No two processes ever share an id: the fetch_add of allocate_pid hands  *)
(* every id to one spawn, whatever the interleaving of the spawns.         *)
THEOREM PidsUniqueTheorem == Spec => []PidsUnique
  <1>1. ProcessInv => PidsUnique
    BY DEF ProcessInv
  <1> QED
    BY ProcessCorrect, <1>1, PTL

(* PROCESS_ENDPOINTS and LIFECYCLE_TABLE hold an entry for exactly the     *)
(* processes between the step of spawn_app that adds it and the step of    *)
(* the exit system call that removes it: neither lost nor left behind, even *)
(* when the child exits before spawn_app has finished.                     *)
THEOREM TablesTheorem == Spec => [](EndpointMatches /\ LifecycleMatches)
  <1>1. ProcessInv => EndpointMatches /\ LifecycleMatches
    BY DEF ProcessInv
  <1> QED
    BY ProcessCorrect, <1>1, PTL

(* A process whose spawn has returned and which has not begun to exit is   *)
(* in PROCESS_TABLE and in state Ready.                                    *)
THEOREM VisibleTheorem == Spec => []SpawnedIsVisible
  <1>1. ProcessInv => SpawnedIsVisible
    BY DEF ProcessInv
  <1> QED
    BY ProcessCorrect, <1>1, PTL

(* The check that SpawnElf makes before it drops the lock of PROCESS_TABLE *)
(* still holds at every later step of the spawn.                           *)
THEOREM FsCallerTheorem == Spec => []SpawnElfCallerIsFs
  <1>1. ProcessInv => SpawnElfCallerIsFs
    BY DEF ProcessInv
  <1> QED
    BY ProcessCorrect, <1>1, PTL

(* The capabilities that inject_bootstrap_capabilities stores denote the   *)
(* service of their handle for as long as their owner is in PROCESS_TABLE. *)
THEOREM CapsTheorem == Spec => []CapsDenoteService
  <1>1. ProcessInv => CapsDenoteService
    <2> SUFFICES ASSUME TypeOK, CapsGood PROVE CapsDenoteService
      BY DEF ProcessInv
    <2>1. 0 \notin DOMAIN PROCESS_TABLE
      BY DEF TypeOK, Pid
    <2> QED
      BY <2>1 DEF CapsGood, CapsDenoteService, GoodOwner
  <1> QED
    BY ProcessCorrect, <1>1, PTL

(* The entry of a process in LIFECYCLE_TABLE is there exactly while its    *)
(* spawn or its exit says so, although spawn_app sets the state to Ready   *)
(* after the child can run and exit.                                       *)
THEOREM LifecycleTheorem == Spec => []LifecycleMatches
  <1>1. ProcessInv => LifecycleMatches
    BY DEF ProcessInv
  <1> QED
    BY ProcessCorrect, <1>1, PTL

(* The tables, the endpoints and the locals of every spawn and exit keep   *)
(* their types for any number of processes.                                *)
THEOREM ProcessTypes == Spec => []TypeOK
  <1>1. ProcessInv => TypeOK
    BY DEF ProcessInv
  <1> QED
    BY ProcessCorrect, <1>1, PTL
=============================================================================

------------------------------- MODULE Memory -------------------------------
(***************************************************************************)
(* The memory calls of the kernel: anonymous memory, device memory, DMA    *)
(* memory, and the map call of the memory server into another process.     *)
(*                                                                         *)
(* The frame allocator and the address space (axalloc, axmm) are external: *)
(* alloc_pages returns any free run of frames, find_free_area any free run *)
(* of pages, and mapping or unmapping may fail and then changes nothing.   *)
(* A process has one thread, which is in user code or in one system call.  *)
(* A step ends where the thread takes a lock or touches what other threads *)
(* share.                                                                  *)
(***************************************************************************)
EXTENDS Integers, FiniteSets

CONSTANTS Procs, Vmm,      \* the processes; the one that may map into others
          NumFrames,       \* frames of the allocator: 0 .. NumFrames - 1
          NumPages,        \* pages of the window for mappings
          MaxLen           \* bound: pages of one call

ASSUME MemoryAssumption ==
  /\ NumFrames \in Nat /\ NumPages \in Nat /\ MaxLen \in Nat \ {0}
  /\ Procs \subseteq Nat /\ Vmm \in Procs

Frames == 0 .. NumFrames - 1
Pages == 0 .. NumPages - 1
Lens == 1 .. MaxLen
Unmapped == -1
Nobody == -1
Run(first, n) == first .. first + n - 1

VARIABLES free,        \* the frames the allocator has
          aspace,      \* aspace[p][v]: the physical page behind page v, or Unmapped
          dma,         \* dma[p]: the DMA regions p has been given
          aspace_lock, \* aspace_lock[p]: the holder of the lock of p's address space
          table_lock,  \* the holder of PROCESS_TABLE
          table,       \* the processes in PROCESS_TABLE
          pending,     \* the processes whose parent has yet to insert them
          alive,       \* the processes that run
          call         \* call[p]: the system call p is in

vars == <<free, aspace, dma, aspace_lock, table_lock, table, pending, alive, call>>
procVars == <<table, pending, alive>>

Call(pc, op, target, n, page, frame) ==
  [pc |-> pc, op |-> op, target |-> target, n |-> n, page |-> page, frame |-> frame]
Idle == Call("user", "none", Nobody, 0, 0, 0)

Init ==
  /\ free = Frames
  /\ aspace = [p \in Procs |-> [v \in Pages |-> Unmapped]]
  /\ dma = [p \in Procs |-> {}]
  /\ aspace_lock = [p \in Procs |-> Nobody] /\ table_lock = Nobody
  /\ table = {} /\ pending = Procs /\ alive = Procs
  /\ call = [p \in Procs |-> Idle]

-----------------------------------------------------------------------------
(* The system calls as a process enters them *)

Enter(p, c) ==
  /\ p \in alive /\ call[p].pc = "user"
  /\ call' = [call EXCEPT ![p] = c]
  /\ UNCHANGED <<free, aspace, dma, aspace_lock, table_lock, procVars>>

MmapAnon(p) == \E n \in Lens : Enter(p, Call("lock", "mmap", p, n, 0, 0))

MapDevice(p) == \E v \in Pages : Enter(p, Call("lock", "device", p, 1, v, 0))

VmmMapPageTo(p) == \E q \in Procs, n \in Lens :
  p = Vmm /\ Enter(p, Call("table", "mmap", q, n, 0, 0))

DmaAlloc(p) == \E n \in Lens : Enter(p, Call("alloc", "dma", p, n, 0, 0))

(* A driver gives back what it was given.                                  *)
DmaDealloc(p) == \E r \in dma[p] :
  Enter(p, Call("lock", "dealloc", p, r.n, r.page, r.frame))

-----------------------------------------------------------------------------
(* Their steps *)

Goto(p, pc) == call' = [call EXCEPT ![p].pc = pc]

(* The guards go out of scope.                                             *)
ReturnBug(p) ==
  /\ call' = [call EXCEPT ![p] = Idle]
  /\ table_lock' = IF table_lock = p THEN Nobody ELSE table_lock
  /\ UNCHANGED aspace_lock
Return(p) ==
  /\ call' = [call EXCEPT ![p] = Idle]
  /\ aspace_lock' = [q \in Procs |-> IF aspace_lock[q] = p THEN Nobody ELSE aspace_lock[q]]
  /\ table_lock' = IF table_lock = p THEN Nobody ELSE table_lock

LockTable(p) ==
  /\ call[p].pc = "table" /\ table_lock = Nobody
  /\ \/ /\ call[p].target \in table /\ table_lock' = p /\ Goto(p, "lock")
        /\ UNCHANGED aspace_lock
     \/ call[p].target \notin table /\ Return(p)
  /\ UNCHANGED <<free, aspace, dma, procVars>>

(* do_dma_alloc takes its frames before it has the lock.                   *)
AllocPages(p) ==
  /\ call[p].pc = "alloc"
  /\ \/ \E f \in Frames :
          /\ Run(f, call[p].n) \subseteq free
          /\ free' = free \ Run(f, call[p].n)
          /\ call' = [call EXCEPT ![p].pc = "lock", ![p].frame = f]
          /\ UNCHANGED <<aspace_lock, table_lock>>
     \/ Return(p) /\ UNCHANGED free
  /\ UNCHANGED <<aspace, dma, procVars>>

LockAspace(p) ==
  /\ call[p].pc = "lock" /\ aspace_lock[call[p].target] = Nobody
  /\ aspace_lock' = [aspace_lock EXCEPT ![call[p].target] = p]
  /\ Goto(p, "locked")
  /\ UNCHANGED <<free, aspace, dma, table_lock, procVars>>

FreeAreaBug(q, v, n) == Run(v, n) \subseteq Pages
FreeArea(q, v, n) == Run(v, n) \subseteq Pages /\ \A w \in Run(v, n) : aspace[q][w] = Unmapped

(* The pages in the domain of m are mapped as m says.                      *)
MapTo(q, m) ==
  aspace' = [aspace EXCEPT ![q] = [w \in Pages |-> IF w \in DOMAIN m THEN m[w] ELSE @[w]]]

(* map_alloc with populate: a frame of its own for every page.             *)
do_mmap(p) ==
  LET c == call[p]
  IN /\ c.pc = "locked" /\ c.op = "mmap"
     /\ \/ \E v \in Pages : \E frames \in [Run(v, c.n) -> free] :
             /\ FreeArea(c.target, v, c.n)
             /\ \A w, x \in Run(v, c.n) : frames[w] = frames[x] => w = x
             /\ MapTo(c.target, frames)
             /\ free' = free \ {frames[w] : w \in Run(v, c.n)}
        \/ UNCHANGED <<free, aspace>>
     /\ Return(p) /\ UNCHANGED <<dma, procVars>>

(* Identity mapping of device memory, which is no frame of the allocator.  *)
do_map_device(p) ==
  LET c == call[p]
  IN /\ c.pc = "locked" /\ c.op = "device"
     /\ \/ /\ FreeArea(p, c.page, 1)
           /\ MapTo(p, [w \in {c.page} |-> NumFrames + w])
        \/ UNCHANGED aspace
     /\ Return(p) /\ UNCHANGED <<free, dma, procVars>>

RollbackBug(frames) == UNCHANGED free
Rollback(frames) == free' = free \cup frames

do_dma_alloc(p) ==
  LET c == call[p]
  IN /\ c.pc = "locked" /\ c.op = "dma"
     /\ \/ \E v \in Pages :
             /\ FreeArea(p, v, c.n)
             /\ MapTo(p, [w \in Run(v, c.n) |-> c.frame + (w - v)])
             /\ dma' = [dma EXCEPT ![p] = @ \cup {[page |-> v, frame |-> c.frame, n |-> c.n]}]
             /\ UNCHANGED free
        \/ Rollback(Run(c.frame, c.n)) /\ UNCHANGED <<aspace, dma>>
     /\ Return(p) /\ UNCHANGED procVars

(* do_dma_dealloc unmaps and then frees, under the lock.                   *)
UnmapBug(p) ==
  /\ call[p].pc = "locked" /\ call[p].op = "dealloc"
  /\ Goto(p, "free")
  /\ UNCHANGED <<free, aspace, dma, aspace_lock, table_lock, procVars>>
Unmap(p) ==
  LET c == call[p]
  IN /\ c.pc = "locked" /\ c.op = "dealloc"
     /\ \/ /\ MapTo(p, [w \in Run(c.page, c.n) |-> Unmapped])
           /\ dma' = [dma EXCEPT ![p] = @ \ {[page |-> c.page, frame |-> c.frame, n |-> c.n]}]
           /\ Goto(p, "free")
           /\ UNCHANGED <<aspace_lock, table_lock>>
        \/ UNCHANGED <<aspace, dma>> /\ Return(p)
     /\ UNCHANGED <<free, procVars>>

DeallocPages(p) ==
  /\ call[p].pc = "free"
  /\ free' = free \cup Run(call[p].frame, call[p].n)
  /\ Return(p)
  /\ UNCHANGED <<aspace, dma, procVars>>

-----------------------------------------------------------------------------
(* Processes come and go; no frame is returned when one ends *)

InsertProcess(p) ==
  /\ p \in pending /\ table_lock = Nobody
  /\ table' = table \cup {p} /\ pending' = pending \ {p}
  /\ UNCHANGED <<free, aspace, dma, aspace_lock, table_lock, alive, call>>

Exit(p) ==
  /\ p \in alive /\ call[p].pc = "user" /\ table_lock = Nobody
  /\ alive' = alive \ {p} /\ table' = table \ {p}
  /\ UNCHANGED <<free, aspace, dma, aspace_lock, table_lock, pending, call>>

Fault(p) ==
  /\ p \in alive /\ call[p].pc = "user"
  /\ alive' = alive \ {p}
  /\ UNCHANGED <<free, aspace, dma, aspace_lock, table_lock, table, pending, call>>

User(p) == MmapAnon(p) \/ MapDevice(p) \/ VmmMapPageTo(p) \/ DmaAlloc(p) \/ DmaDealloc(p)

Kernel(p) ==
  \/ LockTable(p) \/ AllocPages(p) \/ LockAspace(p)
  \/ do_mmap(p) \/ do_map_device(p) \/ do_dma_alloc(p) \/ Unmap(p) \/ DeallocPages(p)

Next == \E p \in Procs : User(p) \/ Kernel(p) \/ InsertProcess(p) \/ Exit(p) \/ Fault(p)

Spec == Init /\ [][Next]_vars

-----------------------------------------------------------------------------
(* Type correctness.                                                       *)
Region == [page : Pages, frame : Frames, n : Lens]
CallType ==
  [pc : {"user", "table", "alloc", "lock", "locked", "free"},
   op : {"none", "mmap", "device", "dma", "dealloc"}, target : Procs \cup {Nobody},
   n : 0 .. MaxLen, page : Pages \cup {0}, frame : Frames \cup {0}]
Phys == Unmapped .. NumFrames + NumPages - 1
TypeOK ==
  /\ free \subseteq Frames
  /\ aspace \in [Procs -> [Pages -> Phys]]
  /\ dma \in [Procs -> SUBSET Region]
  /\ aspace_lock \in [Procs -> Procs \cup {Nobody}]
  /\ table_lock \in Procs \cup {Nobody}
  /\ table \subseteq Procs /\ pending \subseteq Procs /\ alive \subseteq Procs
  /\ call \in [Procs -> CallType]

(* The frames a system call of p has in its hands.                         *)
InCall(p) ==
  IF \/ call[p].op = "dma" /\ call[p].pc \in {"lock", "locked"}
     \/ call[p].pc = "free"
  THEN Run(call[p].frame, call[p].n) ELSE {}

(* No frame is used twice, whatever calls overlap or fail: a free frame is *)
(* behind no page of any process and in no call; a frame in a call is      *)
(* behind no page and in no other call; and a frame is behind one page of  *)
(* one process.                                                            *)
NoDoubleUse ==
  /\ \A p \in Procs : InCall(p) \subseteq Frames /\ InCall(p) \cap free = {}
  /\ \A p, q \in Procs : p # q => InCall(p) \cap InCall(q) = {}
  /\ \A p, q \in Procs : \A v \in Pages : aspace[p][v] \notin free \cup InCall(q)
  /\ \A p, q \in Procs : \A v, w \in Pages :
       aspace[p][v] = aspace[q][w] /\ aspace[p][v] \in Frames => p = q /\ v = w

(* No frame is lost: a call that fails after it took frames gives them     *)
(* back.  What a process that has ended had mapped stays mapped.           *)
NoLeak ==
  \A f \in Frames :
    \/ f \in free
    \/ \E p \in Procs : f \in InCall(p) \/ \E v \in Pages : aspace[p][v] = f

(* A DMA region is mapped, in one piece, to the frames whose address the   *)
(* driver was told, until it is given back, and even when its owner ends:  *)
(* a device that still writes to it harms nobody.                          *)
DmaStays ==
  \A p \in Procs : \A r \in dma[p] : \A i \in 0 .. r.n - 1 :
    r.page + i \in Pages /\ aspace[p][r.page + i] = r.frame + i

(* A mapped page keeps its physical page, unless its process is giving     *)
(* back the DMA region it belongs to: an address from do_virt_to_phys does *)
(* not go stale while a device uses it.                                    *)
PhysIsStable ==
  [][\A p \in Procs : \A v \in Pages :
       aspace[p][v] # Unmapped /\ aspace'[p][v] # aspace[p][v] =>
         \E r \in dma[p] : r \notin dma'[p] /\ v \in Run(r.page, r.n)]_vars

(* The threads in system calls never all wait for each other, although     *)
(* VmmMapPageTo holds PROCESS_TABLE while it waits for an address space.   *)
Blocked(p) ==
  \/ call[p].pc = "table" /\ table_lock # Nobody
  \/ call[p].pc = "lock" /\ aspace_lock[call[p].target] # Nobody
NoCircularWait ==
  (\E p \in Procs : call[p].pc # "user")
    => \E p \in Procs : call[p].pc # "user" /\ ~Blocked(p)
=============================================================================

---------------------------- MODULE MemoryProofs ----------------------------
(***************************************************************************)
(* The invariants of Memory, for any number of processes, frames and       *)
(* pages.                                                                  *)
(***************************************************************************)
EXTENDS Memory, TLAPS

(* What the fields of a call mean while it is under way.                   *)
CallOK(c, regions, p) ==
  /\ c.pc # "user" => c.op # "none" /\ c.target \in Procs /\ c.n \in Lens
  /\ c.op \in {"device", "dma", "dealloc"} => c.target = p
  /\ c.op = "device" => c.page \in Pages
  /\ c.pc = "free" => c.op = "dealloc"
  /\ c.pc = "alloc" => c.op = "dma"
  /\ c.pc = "table" => c.op = "mmap"
  /\ c.op = "dealloc" /\ c.pc \in {"lock", "locked"} =>
       [page |-> c.page, frame |-> c.frame, n |-> c.n] \in regions

CallsOK == \A p \in Procs : CallOK(call[p], dma[p], p)

(* A region consists of frames of the allocator, and two regions of a      *)
(* process have no page in common.                                         *)
DmaDisjoint ==
  \A p \in Procs : \A r \in dma[p] :
    /\ Run(r.frame, r.n) \subseteq Frames
    /\ \A s \in dma[p] : \A v \in Pages :
         v \in Run(r.page, r.n) /\ v \in Run(s.page, s.n) => r = s

(* Who holds a lock is past the point where it takes it.                   *)
LocksOK ==
  /\ \A p, q \in Procs : aspace_lock[q] = p =>
       call[p].pc \in {"locked", "free"} /\ call[p].target = q
  /\ \A p \in Procs : table_lock = p => call[p].op = "mmap" /\ call[p].pc \in {"lock", "locked"}

MemoryInv ==
  TypeOK /\ CallsOK /\ NoDoubleUse /\ NoLeak /\ DmaStays /\ DmaDisjoint /\ LocksOK

-----------------------------------------------------------------------------
LEMMA InitInv == Init => MemoryInv
  BY MemoryAssumption
     DEF Init, MemoryInv, TypeOK, CallsOK, CallOK, NoDoubleUse, NoLeak, DmaStays, DmaDisjoint, LocksOK,
         Idle, Call, CallType, InCall, Nobody, Unmapped, Frames, Pages, Phys, Region, Lens

(* A step that moves no frame: the free ones, the mapped ones and those in *)
(* calls stay.                                                             *)
LEMMA FramesKept ==
  ASSUME MemoryInv, UNCHANGED <<free, aspace>>, \A q \in Procs : InCall(q)' = InCall(q)
  PROVE  NoDoubleUse' /\ NoLeak'
<1>1. NoDoubleUse /\ NoLeak
  BY DEF MemoryInv
<1>2. NoDoubleUse'
  BY <1>1 DEF NoDoubleUse
<1>3. NoLeak'
  BY <1>1 DEF NoLeak
<1> QED BY <1>2, <1>3

(* Entering a call.                                                        *)
LEMMA EnterInv ==
  ASSUME MemoryInv, NEW p \in Procs, NEW c \in CallType, Enter(p, c),
         c.pc \in {"table", "alloc", "lock"}, c.pc = "lock" => c.op # "dma",
         c.op # "none", c.target \in Procs, c.n \in Lens,
         c.op \in {"device", "dma", "dealloc"} => c.target = p,
         c.op = "device" => c.page \in Pages,
         c.pc = "alloc" => c.op = "dma", c.pc = "table" => c.op = "mmap",
         c.op = "dealloc" => [page |-> c.page, frame |-> c.frame, n |-> c.n] \in dma[p]
  PROVE  MemoryInv'
<1> USE DEF MemoryInv, Enter, procVars
<1>1. TypeOK'
  BY DEF TypeOK
<1>2. CallsOK'
  BY DEF CallsOK, CallOK, TypeOK
<1>3. \A q \in Procs : InCall(q)' = InCall(q)
  BY DEF InCall, TypeOK, CallsOK, CallOK
<1>4. NoDoubleUse' /\ NoLeak'
  BY <1>3, FramesKept
<1>5. DmaStays' /\ DmaDisjoint'
  BY DEF DmaStays, DmaDisjoint
<1>6. LocksOK'
  BY DEF LocksOK, TypeOK
<1> QED BY <1>1, <1>2, <1>4, <1>5, <1>6

LEMMA UserInv == ASSUME MemoryInv, NEW p \in Procs, User(p) PROVE MemoryInv'
<1>1. CASE MmapAnon(p)
  <2> PICK n \in Lens : Enter(p, Call("lock", "mmap", p, n, 0, 0))
    BY <1>1 DEF MmapAnon
  <2> Call("lock", "mmap", p, n, 0, 0) \in CallType
    BY MemoryAssumption DEF Call, CallType, Lens
  <2> QED BY EnterInv DEF Call
<1>2. CASE MapDevice(p)
  <2> PICK v \in Pages : Enter(p, Call("lock", "device", p, 1, v, 0))
    BY <1>2 DEF MapDevice
  <2> Call("lock", "device", p, 1, v, 0) \in CallType
    BY MemoryAssumption DEF Call, CallType
  <2> 1 \in Lens
    BY MemoryAssumption DEF Lens
  <2> QED BY EnterInv DEF Call
<1>3. CASE VmmMapPageTo(p)
  <2> PICK q \in Procs, n \in Lens : Enter(p, Call("table", "mmap", q, n, 0, 0))
    BY <1>3 DEF VmmMapPageTo
  <2> Call("table", "mmap", q, n, 0, 0) \in CallType
    BY MemoryAssumption DEF Call, CallType, Lens
  <2> QED BY EnterInv DEF Call
<1>4. CASE DmaAlloc(p)
  <2> PICK n \in Lens : Enter(p, Call("alloc", "dma", p, n, 0, 0))
    BY <1>4 DEF DmaAlloc
  <2> Call("alloc", "dma", p, n, 0, 0) \in CallType
    BY MemoryAssumption DEF Call, CallType, Lens
  <2> QED BY EnterInv DEF Call
<1>5. CASE DmaDealloc(p)
  <2> PICK r \in dma[p] : Enter(p, Call("lock", "dealloc", p, r.n, r.page, r.frame))
    BY <1>5 DEF DmaDealloc
  <2> r \in Region
    BY DEF MemoryInv, TypeOK
  <2> Call("lock", "dealloc", p, r.n, r.page, r.frame) \in CallType
    BY MemoryAssumption DEF Call, CallType, Lens, Region
  <2> [page |-> r.page, frame |-> r.frame, n |-> r.n] = r
    BY DEF Region
  <2> QED BY EnterInv DEF Call, Region
<1> QED BY <1>1, <1>2, <1>3, <1>4, <1>5 DEF User

-----------------------------------------------------------------------------
(* A call that ends with no frames in its hands.                           *)
LEMMA ReturnCalls ==
  ASSUME MemoryInv, NEW p \in Procs, Return(p), call[p].pc # "user",
         \A q \in Procs \ {p} : dma'[q] = dma[q]
  PROVE  /\ call' \in [Procs -> CallType] /\ aspace_lock' \in [Procs -> Procs \cup {Nobody}]
         /\ table_lock' \in Procs \cup {Nobody}
         /\ CallsOK' /\ LocksOK'
         /\ InCall(p)' = {} /\ \A q \in Procs \ {p} : InCall(q)' = InCall(q)
<1> USE DEF MemoryInv, TypeOK
<1>1. Idle \in CallType
  BY MemoryAssumption DEF Idle, Call, CallType
<1>2. call' = [call EXCEPT ![p] = Idle]
  BY DEF Return
<1>3. /\ call' \in [Procs -> CallType] /\ aspace_lock' \in [Procs -> Procs \cup {Nobody}]
      /\ table_lock' \in Procs \cup {Nobody}
  BY <1>1 DEF Return
<1>4. CallsOK'
  BY <1>2 DEF CallsOK, CallOK, Idle, Call
<1>5. LocksOK'
  BY MemoryAssumption DEF LocksOK, Return, Nobody
<1>6. InCall(p)' = {} /\ \A q \in Procs \ {p} : InCall(q)' = InCall(q)
  BY <1>2 DEF InCall, Idle, Call
<1> QED BY <1>3, <1>4, <1>5, <1>6

(* A call that goes on.                                                    *)
LEMMA Moved ==
  ASSUME MemoryInv, NEW p \in Procs, NEW pc, NEW f \in Frames \cup {0},
         pc \in {"lock", "locked", "free"},
         call' = [call EXCEPT ![p].pc = pc, ![p].frame = f]
  PROVE  /\ call' \in [Procs -> CallType]
         /\ \A q \in Procs \ {p} : call'[q] = call[q]
         /\ call'[p].pc = pc /\ call'[p].frame = f
         /\ call'[p].op = call[p].op /\ call'[p].target = call[p].target
         /\ call'[p].n = call[p].n /\ call'[p].page = call[p].page
<1> USE DEF MemoryInv, TypeOK
<1>0. call[p] \in CallType
  OBVIOUS
<1>1. PICK c \in CallType : c = [call[p] EXCEPT !.pc = pc, !.frame = f]
  <2> HIDE DEF MemoryInv, TypeOK
  <2>1. [call[p] EXCEPT !.pc = pc, !.frame = f] \in CallType
    BY <1>0 DEF CallType
  <2> QED BY <2>1
<1>2. call' = [call EXCEPT ![p] = c]
  BY <1>1
<1> QED BY <1>1, <1>2 DEF CallType

LEMMA GotoMoves ==
  ASSUME MemoryInv, NEW p \in Procs, NEW pc, pc \in {"lock", "locked", "free"}, Goto(p, pc)
  PROVE  /\ call' \in [Procs -> CallType]
         /\ \A q \in Procs \ {p} : call'[q] = call[q]
         /\ call'[p].pc = pc /\ call'[p].frame = call[p].frame
         /\ call'[p].op = call[p].op /\ call'[p].target = call[p].target
         /\ call'[p].n = call[p].n /\ call'[p].page = call[p].page
<1> USE DEF MemoryInv, TypeOK
<1>0. call[p] \in CallType
  OBVIOUS
<1>1. PICK c \in CallType : c = [call[p] EXCEPT !.pc = pc]
  <2> HIDE DEF MemoryInv, TypeOK
  <2>1. [call[p] EXCEPT !.pc = pc] \in CallType
    BY <1>0 DEF CallType
  <2> QED BY <2>1
<1>2. call' = [call EXCEPT ![p] = c]
  BY <1>1 DEF Goto
<1> QED BY <1>1, <1>2 DEF CallType

LEMMA LockTableInv == ASSUME MemoryInv, NEW p \in Procs, LockTable(p) PROVE MemoryInv'
<1> USE DEF MemoryInv
<1>1. CASE Return(p)
  <2> UNCHANGED <<free, aspace, dma, table, pending, alive>>
    BY DEF LockTable, procVars
  <2> InCall(p) = {}
    BY DEF InCall, LockTable, CallsOK, CallOK
  <2>1. \A q \in Procs : InCall(q)' = InCall(q)
    BY <1>1, ReturnCalls DEF LockTable
  <2>2. NoDoubleUse' /\ NoLeak'
    BY <2>1, FramesKept
  <2>3. DmaStays' /\ DmaDisjoint'
    BY DEF DmaStays, DmaDisjoint
  <2>4. TypeOK' /\ CallsOK' /\ LocksOK'
    BY <1>1, ReturnCalls DEF LockTable, TypeOK
  <2> QED BY <2>2, <2>3, <2>4
<1>2. CASE /\ call[p].target \in table /\ table_lock' = p /\ Goto(p, "lock")
           /\ UNCHANGED aspace_lock
  <2>0. /\ call' \in [Procs -> CallType]
        /\ \A q \in Procs \ {p} : call'[q] = call[q]
        /\ call'[p].pc = "lock" /\ call'[p].frame = call[p].frame
        /\ call'[p].op = call[p].op /\ call'[p].target = call[p].target
        /\ call'[p].n = call[p].n /\ call'[p].page = call[p].page
    BY <1>2, GotoMoves
  <2> UNCHANGED <<free, aspace, dma, table, pending, alive>> /\ call[p].pc = "table"
    BY DEF LockTable, procVars
  <2> call[p].op = "mmap"
    BY DEF CallsOK, CallOK
  <2>1. TypeOK'
    BY <1>2, <2>0 DEF TypeOK
  <2>2. CallsOK'
    BY <2>0 DEF CallsOK, CallOK
  <2>3. \A q \in Procs : InCall(q)' = InCall(q)
    BY <2>0 DEF InCall
  <2>4. NoDoubleUse' /\ NoLeak'
    BY <2>3, FramesKept
  <2>5. DmaStays' /\ DmaDisjoint'
    BY DEF DmaStays, DmaDisjoint
  <2>6. LocksOK'
    BY <1>2, <2>0 DEF LocksOK
  <2> QED BY <2>1, <2>2, <2>4, <2>5, <2>6
<1> QED BY <1>1, <1>2 DEF LockTable

LEMMA LockAspaceInv == ASSUME MemoryInv, NEW p \in Procs, LockAspace(p) PROVE MemoryInv'
<1> USE DEF MemoryInv
<1>0. /\ call' \in [Procs -> CallType]
      /\ \A q \in Procs \ {p} : call'[q] = call[q]
      /\ call'[p].pc = "locked" /\ call'[p].frame = call[p].frame
      /\ call'[p].op = call[p].op /\ call'[p].target = call[p].target
      /\ call'[p].n = call[p].n /\ call'[p].page = call[p].page
  BY GotoMoves DEF LockAspace
<1> UNCHANGED <<free, aspace, dma, table_lock, table, pending, alive>> /\ call[p].pc = "lock"
  BY DEF LockAspace, procVars
<1> call[p].target \in Procs
  BY DEF CallsOK, CallOK
<1>1. TypeOK'
  BY <1>0 DEF TypeOK, LockAspace
<1>2. CallsOK'
  BY <1>0 DEF CallsOK, CallOK
<1>3. \A q \in Procs : InCall(q)' = InCall(q)
  BY <1>0 DEF InCall
<1>4. NoDoubleUse' /\ NoLeak'
  BY <1>3, FramesKept
<1>5. DmaStays' /\ DmaDisjoint'
  BY DEF DmaStays, DmaDisjoint
<1>6. LocksOK'
  BY <1>0, MemoryAssumption DEF LocksOK, TypeOK, LockAspace, Nobody
<1> QED BY <1>1, <1>2, <1>4, <1>5, <1>6

LEMMA AllocPagesInv == ASSUME MemoryInv, NEW p \in Procs, AllocPages(p) PROVE MemoryInv'
<1> USE DEF MemoryInv
<1> UNCHANGED <<aspace, dma, table, pending, alive>> /\ call[p].pc = "alloc"
  BY DEF AllocPages, procVars
<1> InCall(p) = {}
  BY DEF InCall, CallsOK, CallOK
<1>0. DmaStays' /\ DmaDisjoint'
  BY DEF DmaStays, DmaDisjoint
<1>1. CASE Return(p) /\ UNCHANGED free
  <2>1. \A q \in Procs : InCall(q)' = InCall(q)
    BY <1>1, ReturnCalls
  <2>2. NoDoubleUse' /\ NoLeak'
    BY <1>1, <2>1, FramesKept
  <2>3. TypeOK' /\ CallsOK' /\ LocksOK'
    BY <1>1, ReturnCalls DEF TypeOK
  <2> QED BY <1>0, <2>2, <2>3
<1>2. CASE ~(Return(p) /\ UNCHANGED free)
  <2>p. PICK f \in Frames :
          /\ Run(f, call[p].n) \subseteq free
          /\ free' = free \ Run(f, call[p].n)
          /\ call' = [call EXCEPT ![p].pc = "lock", ![p].frame = f]
          /\ UNCHANGED <<aspace_lock, table_lock>>
    BY <1>2 DEF AllocPages
  <2>0. /\ call' \in [Procs -> CallType]
        /\ \A q \in Procs \ {p} : call'[q] = call[q]
        /\ call'[p].pc = "lock" /\ call'[p].frame = f
        /\ call'[p].op = call[p].op /\ call'[p].target = call[p].target
        /\ call'[p].n = call[p].n /\ call'[p].page = call[p].page
    BY <2>p, Moved
  <2> call[p].op = "dma"
    BY DEF CallsOK, CallOK
  <2>1. TypeOK'
    BY <2>0, <2>p DEF TypeOK
  <2>2. CallsOK'
    <3>1. CallOK(call'[p], dma'[p], p)
      BY <2>0 DEF CallsOK, CallOK
    <3>2. \A q \in Procs \ {p} : CallOK(call'[q], dma'[q], q)
      BY <2>0 DEF CallsOK
    <3> QED BY <3>1, <3>2 DEF CallsOK
  <2>3. InCall(p)' = Run(f, call[p].n) /\ \A q \in Procs \ {p} : InCall(q)' = InCall(q)
    BY <2>0 DEF InCall
  <2>4. NoDoubleUse'
    <3>1. free' = free \ Run(f, call[p].n) /\ Run(f, call[p].n) \subseteq free
      BY <2>p
    <3>2. \A q \in Procs : (InCall(q) \subseteq Frames /\ InCall(q) \cap free = {})'
      BY <2>3, <3>1 DEF NoDoubleUse, TypeOK
    <3>3. \A q, r \in Procs : q # r => (InCall(q) \cap InCall(r) = {})'
      BY <2>3, <3>1 DEF NoDoubleUse
    <3>4. \A q, r \in Procs : \A v \in Pages : (aspace[q][v] \notin free \cup InCall(r))'
      BY <2>3, <3>1 DEF NoDoubleUse
    <3> QED BY <3>2, <3>3, <3>4 DEF NoDoubleUse
  <2>5. NoLeak'
    BY <2>p, <2>3 DEF NoLeak
  <2>6. LocksOK'
    BY <2>0, <2>p DEF LocksOK
  <2> QED BY <1>0, <2>1, <2>2, <2>4, <2>5, <2>6
<1> QED BY <1>1, <1>2

-----------------------------------------------------------------------------
LEMMA RunShift ==
  ASSUME NEW a \in Int, NEW b \in Int, NEW n \in Int
  PROVE  /\ \A w \in Run(b, n) : a + (w - b) \in Run(a, n)
         /\ \A f \in Run(a, n) : b + (f - a) \in Run(b, n) /\ f = a + ((b + (f - a)) - b)
  BY DEF Run

LEMMA FramesAreMapped == Unmapped \notin Frames /\ \A f \in Frames : f \in Phys
  BY MemoryAssumption DEF Unmapped, Frames, Phys

LEMMA Mapped ==
  ASSUME MemoryInv, NEW q \in Procs, NEW m, MapTo(q, m),
         \A w \in Pages : w \in DOMAIN m => m[w] \in Phys
  PROVE  /\ aspace' \in [Procs -> [Pages -> Phys]]
         /\ \A x \in Procs \ {q} : aspace'[x] = aspace[x]
         /\ \A w \in Pages :
              aspace'[q][w] = IF w \in DOMAIN m THEN m[w] ELSE aspace[q][w]
<1>1. PICK t \in [Pages -> Phys] :
        t = [w \in Pages |-> IF w \in DOMAIN m THEN m[w] ELSE aspace[q][w]]
  BY DEF MemoryInv, TypeOK
<1>2. aspace' = [aspace EXCEPT ![q] = t]
  BY <1>1 DEF MapTo
<1> QED BY <1>1, <1>2 DEF MemoryInv, TypeOK

(* Mapping pages that were free leaves the DMA regions as they are.        *)
LEMMA RegionsKept ==
  ASSUME MemoryInv, UNCHANGED dma,
         \A p \in Procs : \A v \in Pages :
           aspace[p][v] # Unmapped => aspace'[p][v] = aspace[p][v]
  PROVE  DmaStays' /\ DmaDisjoint'
<1>1. DmaDisjoint'
  BY DEF MemoryInv, DmaDisjoint
<1>2. ASSUME NEW p \in Procs, NEW r \in dma[p], NEW i \in 0 .. r.n - 1
      PROVE  r.page + i \in Pages /\ aspace'[p][r.page + i] = r.frame + i
  <2>1. r.page + i \in Pages /\ aspace[p][r.page + i] = r.frame + i
    BY DEF MemoryInv, DmaStays
  <2>2. r.frame + i # Unmapped
    BY MemoryAssumption DEF MemoryInv, TypeOK, Region, Frames, Lens, Unmapped
  <2> QED BY <2>1, <2>2
<1> QED BY <1>1, <1>2 DEF DmaStays

LEMMA DeviceInv == ASSUME MemoryInv, NEW p \in Procs, do_map_device(p) PROVE MemoryInv'
<1> USE DEF MemoryInv
<1> DEFINE c == call[p]
<1>0. /\ c.pc = "locked" /\ c.op = "device" /\ c.page \in Pages
      /\ UNCHANGED <<free, dma, table, pending, alive>> /\ Return(p) /\ InCall(p) = {}
  BY DEF do_map_device, procVars, CallsOK, CallOK, InCall
<1>1. /\ aspace' \in [Procs -> [Pages -> Phys]]
      /\ \A q \in Procs : \A v \in Pages : aspace'[q][v] # aspace[q][v] =>
           aspace[q][v] = Unmapped /\ q = p /\ v = c.page /\ aspace'[q][v] = NumFrames + v
  <2>1. CASE UNCHANGED aspace
    BY <2>1 DEF TypeOK
  <2>2. CASE /\ FreeArea(p, c.page, 1)
             /\ MapTo(p, [w \in {c.page} |-> NumFrames + w])
    <3>1. aspace[p][c.page] = Unmapped
      BY <1>0, <2>2, MemoryAssumption DEF FreeArea, Run, Pages
    <3>2. \A w \in Pages : w \in DOMAIN [w2 \in {c.page} |-> NumFrames + w2] =>
            [w2 \in {c.page} |-> NumFrames + w2][w] \in Phys
      BY MemoryAssumption DEF Pages, Phys, Unmapped
    <3>3. /\ aspace' \in [Procs -> [Pages -> Phys]]
          /\ \A x \in Procs \ {p} : aspace'[x] = aspace[x]
          /\ \A w \in Pages :
               aspace'[p][w] = IF w \in DOMAIN [w2 \in {c.page} |-> NumFrames + w2]
                               THEN [w2 \in {c.page} |-> NumFrames + w2][w] ELSE aspace[p][w]
      BY <2>2, <3>2, Mapped
    <3> QED BY <3>1, <3>3
  <2> QED BY <2>1, <2>2 DEF do_map_device
<1> HIDE DEF c
<1>2. \A q \in Procs : InCall(q)' = InCall(q)
  BY <1>0, ReturnCalls DEF c
<1>3. TypeOK' /\ CallsOK' /\ LocksOK'
  BY <1>0, <1>1, ReturnCalls DEF TypeOK, c
<1>4. \A v \in Pages : NumFrames + v \notin Frames
  BY MemoryAssumption DEF Frames, Pages
<1>5. NoDoubleUse'
  <2>1. \A q, r \in Procs : \A v \in Pages : aspace'[q][v] \notin free \cup InCall(r)
    BY <1>1, <1>4 DEF NoDoubleUse, TypeOK
  <2>2. \A q, r \in Procs : \A v, w \in Pages :
          aspace'[q][v] = aspace'[r][w] /\ aspace'[q][v] \in Frames => q = r /\ v = w
    BY <1>1, <1>4 DEF NoDoubleUse
  <2> QED BY <1>0, <1>2, <2>1, <2>2 DEF NoDoubleUse
<1>6. NoLeak'
  <2>1. \A q \in Procs : \A v \in Pages : \A f \in Frames :
          aspace[q][v] = f => aspace'[q][v] = f
    BY <1>1, FramesAreMapped
  <2> QED BY <1>0, <1>2, <2>1 DEF NoLeak
<1>7. DmaStays' /\ DmaDisjoint'
  BY <1>0, <1>1, RegionsKept
<1> QED BY <1>3, <1>5, <1>6, <1>7

LEMMA MmapInv == ASSUME MemoryInv, NEW p \in Procs, do_mmap(p) PROVE MemoryInv'
<1> USE DEF MemoryInv
<1> DEFINE c == call[p]
           t == call[p].target
<1>0. /\ c.pc = "locked" /\ c.op = "mmap" /\ t \in Procs /\ c.n \in Lens
      /\ UNCHANGED <<dma, table, pending, alive>> /\ Return(p) /\ InCall(p) = {}
  BY DEF do_mmap, procVars, CallsOK, CallOK, InCall
<1>2. \A q \in Procs : InCall(q)' = InCall(q)
  BY <1>0, ReturnCalls
<1>3. (TypeOK' <=> free' \subseteq Frames /\ aspace' \in [Procs -> [Pages -> Phys]])
      /\ CallsOK' /\ LocksOK'
  BY <1>0, ReturnCalls DEF TypeOK
<1>4. CASE UNCHANGED <<free, aspace>>
  <2>1. TypeOK'
    BY <1>3, <1>4 DEF TypeOK
  <2>2. NoDoubleUse' /\ NoLeak'
    BY <1>2, <1>4 DEF NoDoubleUse, NoLeak
  <2>3. DmaStays' /\ DmaDisjoint'
    BY <1>0, <1>4, RegionsKept
  <2> QED BY <1>3, <2>1, <2>2, <2>3
<1>5. CASE ~UNCHANGED <<free, aspace>>
  <2>p. PICK v \in Pages : \E m \in [Run(v, c.n) -> free] :
          /\ FreeArea(t, v, c.n)
          /\ \A w, x \in Run(v, c.n) : m[w] = m[x] => w = x
          /\ MapTo(t, m)
          /\ free' = free \ {m[w] : w \in Run(v, c.n)}
    BY <1>5 DEF do_mmap
  <2> DEFINE area == Run(v, c.n)
  <2>q. PICK m \in [area -> free] :
          /\ FreeArea(t, v, c.n)
          /\ \A w, x \in area : m[w] = m[x] => w = x
          /\ MapTo(t, m)
          /\ free' = free \ {m[w] : w \in area}
    BY <2>p
  <2>1. area \subseteq Pages /\ \A w \in area : aspace[t][w] = Unmapped
    BY <2>q DEF FreeArea
  <2> HIDE DEF area
  <2>2. \A w \in area : m[w] \in free /\ m[w] \in Frames /\ m[w] \in Phys
    BY FramesAreMapped DEF TypeOK
  <2>3. /\ aspace' \in [Procs -> [Pages -> Phys]]
        /\ \A x \in Procs \ {t} : aspace'[x] = aspace[x]
        /\ \A w \in Pages : aspace'[t][w] = IF w \in area THEN m[w] ELSE aspace[t][w]
    BY <1>0, <2>q, <2>2, Mapped
  <2>4. \A q \in Procs : \A w \in Pages :
          \/ aspace'[q][w] = aspace[q][w]
          \/ q = t /\ w \in area /\ aspace[q][w] = Unmapped /\ aspace'[q][w] = m[w]
    BY <1>0, <2>1, <2>3
  <2>5. TypeOK'
    BY <1>3, <2>q, <2>3 DEF TypeOK
  <2>6. free' = free \ {m[w] : w \in area} /\ \A w, x \in area : m[w] = m[x] => w = x
    BY <2>q
  <2>7. NoDoubleUse'
    <3>1. \A q \in Procs : InCall(q) \subseteq Frames /\ InCall(q) \cap free' = {}
      BY <2>6 DEF NoDoubleUse
    <3>2. \A q, r \in Procs : \A w \in Pages : aspace'[q][w] \notin free'
      BY <2>2, <2>4, <2>6 DEF NoDoubleUse
    <3>3. \A q, r \in Procs : \A w \in Pages : aspace'[q][w] \notin InCall(r)
      BY <2>2, <2>4 DEF NoDoubleUse
    <3>4. \A q, r \in Procs : \A w, x \in Pages :
            aspace'[q][w] = aspace'[r][x] /\ aspace'[q][w] \in Frames => q = r /\ w = x
      BY <2>2, <2>4, <2>6 DEF NoDoubleUse
    <3> QED BY <1>2, <3>1, <3>2, <3>3, <3>4 DEF NoDoubleUse
  <2>8. NoLeak'
    <3> SUFFICES ASSUME NEW f \in Frames
                 PROVE  \/ f \in free'
                        \/ \E q \in Procs : f \in InCall(q) \/ \E w \in Pages : aspace'[q][w] = f
      BY <1>2 DEF NoLeak
    <3>1. CASE f \in free /\ f \notin free'
      <4>1. PICK w \in area : f = m[w]
        BY <3>1, <2>6
      <4>2. aspace'[t][w] = f /\ w \in Pages
        BY <4>1, <2>1, <2>3
      <4> QED BY <4>2, <1>0
    <3>2. CASE \E q \in Procs : \E w \in Pages : aspace[q][w] = f
      <4>1. PICK q \in Procs, w \in Pages : aspace[q][w] = f
        BY <3>2
      <4>2. aspace'[q][w] = f
        BY <4>1, <2>4, FramesAreMapped
      <4> QED BY <4>2
    <3> QED BY <3>1, <3>2 DEF NoLeak
  <2>9. DmaStays' /\ DmaDisjoint'
    BY <1>0, <2>4, RegionsKept
  <2> QED BY <1>3, <2>5, <2>7, <2>8, <2>9
<1> QED BY <1>4, <1>5

LEMMA DmaAllocInv == ASSUME MemoryInv, NEW p \in Procs, do_dma_alloc(p) PROVE MemoryInv'
<1> USE DEF MemoryInv
<1> DEFINE c == call[p]
           frames == Run(call[p].frame, call[p].n)
<1>0. /\ c.pc = "locked" /\ c.op = "dma" /\ c.n \in Lens /\ c.frame \in Frames
      /\ UNCHANGED <<table, pending, alive>> /\ Return(p) /\ InCall(p) = frames
      /\ frames \subseteq Frames
  <2>1. /\ c.pc = "locked" /\ c.op = "dma" /\ c.n \in Lens
        /\ UNCHANGED <<table, pending, alive>> /\ Return(p)
    BY DEF do_dma_alloc, procVars, CallsOK, CallOK
  <2>2. InCall(p) = frames
    BY <2>1 DEF InCall
  <2>3. frames \subseteq Frames
    BY <2>2 DEF NoDoubleUse
  <2>4. c.frame \in Int
    BY MemoryAssumption DEF TypeOK, CallType, Frames
  <2>5. c.frame \in Frames
    BY <2>1, <2>3, <2>4, MemoryAssumption DEF Run, Lens
  <2> QED BY <2>1, <2>2, <2>3, <2>5
<1>1. CASE Rollback(frames) /\ UNCHANGED <<aspace, dma>>
  <2>1. InCall(p)' = {} /\ \A q \in Procs \ {p} : InCall(q)' = InCall(q)
    BY <1>0, <1>1, ReturnCalls
  <2>2. free' = free \cup InCall(p)
    BY <1>0, <1>1 DEF Rollback
  <2>3. TypeOK' /\ CallsOK' /\ LocksOK'
    BY <1>0, <1>1, <2>2, ReturnCalls DEF TypeOK
  <2>4. NoDoubleUse'
    <3>1. \A q \in Procs : InCall(q)' \subseteq Frames /\ InCall(q)' \cap free' = {}
      BY <2>1, <2>2 DEF NoDoubleUse
    <3>2. \A q, r \in Procs : q # r => InCall(q)' \cap InCall(r)' = {}
      BY <2>1 DEF NoDoubleUse
    <3>3. \A q, r \in Procs : \A w \in Pages : aspace[q][w] \notin free' \cup InCall(r)'
      BY <2>1, <2>2 DEF NoDoubleUse
    <3>4. \A q, r \in Procs : \A w, x \in Pages :
            aspace[q][w] = aspace[r][x] /\ aspace[q][w] \in Frames => q = r /\ w = x
      BY DEF NoDoubleUse
    <3>5. aspace' = aspace
      BY <1>1
    <3> HIDE DEF MemoryInv
    <3>6. \A q, r \in Procs : \A w \in Pages : aspace'[q][w] \notin free' \cup InCall(r)'
      BY <3>3, <3>5
    <3>7. \A q, r \in Procs : \A w, x \in Pages :
            aspace'[q][w] = aspace'[r][x] /\ aspace'[q][w] \in Frames => q = r /\ w = x
      BY <3>4, <3>5
    <3> QED BY <3>1, <3>2, <3>6, <3>7 DEF NoDoubleUse
  <2>5. NoLeak'
    BY <1>1, <2>1, <2>2 DEF NoLeak
  <2>6. DmaStays' /\ DmaDisjoint'
    BY <1>1, RegionsKept
  <2> QED BY <2>3, <2>4, <2>5, <2>6
<1>2. CASE ~(Rollback(frames) /\ UNCHANGED <<aspace, dma>>)
  <2>p. PICK v \in Pages :
          /\ FreeArea(p, v, c.n)
          /\ MapTo(p, [w \in Run(v, c.n) |-> c.frame + (w - v)])
          /\ dma' = [dma EXCEPT ![p] = @ \cup {[page |-> v, frame |-> c.frame, n |-> c.n]}]
          /\ UNCHANGED free
    BY <1>2 DEF do_dma_alloc
  <2> DEFINE area == Run(v, c.n)
             new == [page |-> v, frame |-> c.frame, n |-> c.n]
  <2>1. area \subseteq Pages /\ \A w \in area : aspace[p][w] = Unmapped
    BY <2>p DEF FreeArea
  <2>2. /\ \A w \in area : c.frame + (w - v) \in frames
        /\ \A f \in frames : v + (f - c.frame) \in area
                             /\ f = c.frame + ((v + (f - c.frame)) - v)
    BY <1>0, RunShift, MemoryAssumption DEF Frames, Pages, Lens
  <2>3. /\ aspace' \in [Procs -> [Pages -> Phys]]
        /\ \A x \in Procs \ {p} : aspace'[x] = aspace[x]
        /\ \A w \in Pages :
             aspace'[p][w] = IF w \in area THEN c.frame + (w - v) ELSE aspace[p][w]
    <3>1. \A w \in Pages : w \in DOMAIN [x \in area |-> c.frame + (x - v)] =>
            [x \in area |-> c.frame + (x - v)][w] \in Phys
      BY <1>0, <2>2, FramesAreMapped
    <3>2. /\ aspace' \in [Procs -> [Pages -> Phys]]
          /\ \A x \in Procs \ {p} : aspace'[x] = aspace[x]
          /\ \A w \in Pages :
               aspace'[p][w] = IF w \in DOMAIN [x \in area |-> c.frame + (x - v)]
                               THEN [x \in area |-> c.frame + (x - v)][w] ELSE aspace[p][w]
      BY <2>p, <3>1, Mapped
    <3> QED BY <3>2
  <2>4. \A x \in area, y \in area : c.frame + (x - v) = c.frame + (y - v) => x = y
    BY <1>0, MemoryAssumption DEF Run, Frames, Pages, Lens
  <2>5. \A q \in Procs \ {p} : dma'[q] = dma[q]
    BY <2>p DEF TypeOK
  <2>6. InCall(p)' = {} /\ \A q \in Procs \ {p} : InCall(q)' = InCall(q)
    BY <1>0, <2>5, ReturnCalls
  <2>7. new \in Region /\ dma'[p] = dma[p] \cup {new} /\ dma' \in [Procs -> SUBSET Region]
    BY <1>0, <2>p DEF Region, TypeOK
  <2>8. TypeOK' /\ CallsOK' /\ LocksOK'
    BY <1>0, <2>p, <2>3, <2>5, <2>7, ReturnCalls DEF TypeOK
  <2>9. \A q \in Procs : \A w \in Pages :
          \/ aspace'[q][w] = aspace[q][w]
          \/ /\ q = p /\ w \in area /\ aspace[q][w] = Unmapped
             /\ aspace'[q][w] = c.frame + (w - v) /\ aspace'[q][w] \in frames
    <3> HIDE DEF area, frames, new, c
    <3>1. \A w \in area : aspace[p][w] = Unmapped /\ c.frame + (w - v) \in frames
      BY <2>1, <2>2, Zenon
    <3> QED BY <2>3, <3>1, Zenon
  <2> HIDE DEF area, frames, new, c
  <2>10. NoDoubleUse'
    <3>1. frames \cap free = {} /\ \A q \in Procs \ {p} : frames \cap InCall(q) = {}
      BY <1>0 DEF NoDoubleUse
    <3>2. \A q \in Procs : \A w \in Pages : aspace[q][w] \notin frames
      BY <1>0 DEF NoDoubleUse
    <3>3. \A q \in Procs : (InCall(q) \subseteq Frames /\ InCall(q) \cap free = {})'
      BY <2>6, <2>p DEF NoDoubleUse
    <3>4. \A q, r \in Procs : q # r => InCall(q)' \cap InCall(r)' = {}
      BY <2>6 DEF NoDoubleUse
    <3>5. \A q, r \in Procs : \A w \in Pages : aspace'[q][w] \notin free' \cup InCall(r)'
      <4> SUFFICES ASSUME NEW q \in Procs, NEW r \in Procs, NEW w \in Pages
                   PROVE  aspace'[q][w] \notin free' \cup InCall(r)'
        OBVIOUS
      <4>1. free' = free /\ InCall(r)' \subseteq InCall(r) /\ (r = p => InCall(r)' = {})
        BY <2>6, <2>p
      <4>2. aspace[q][w] \notin free \cup InCall(r)
        BY DEF NoDoubleUse
      <4> HIDE DEF MemoryInv
      <4> QED BY <2>9, <3>1, <4>1, <4>2
    <3>6. \A q, r \in Procs : \A w, x \in Pages :
            aspace'[q][w] = aspace'[r][x] /\ aspace'[q][w] \in Frames => q = r /\ w = x
      <4>1. \A q, r \in Procs : \A w, x \in Pages :
              aspace[q][w] = aspace[r][x] /\ aspace[q][w] \in Frames => q = r /\ w = x
        BY DEF NoDoubleUse
      <4> HIDE DEF MemoryInv
      <4> SUFFICES ASSUME NEW q \in Procs, NEW r \in Procs, NEW w \in Pages, NEW x \in Pages,
                          aspace'[q][w] = aspace'[r][x], aspace'[q][w] \in Frames
                   PROVE  q = r /\ w = x
        OBVIOUS
      <4>2. aspace[q][w] \notin frames /\ aspace[r][x] \notin frames
        BY <3>2
      <4>3. \/ aspace'[q][w] = aspace[q][w]
            \/ q = p /\ w \in area /\ aspace'[q][w] = c.frame + (w - v) /\ aspace'[q][w] \in frames
        BY <2>9
      <4>4. \/ aspace'[r][x] = aspace[r][x]
            \/ r = p /\ x \in area /\ aspace'[r][x] = c.frame + (x - v) /\ aspace'[r][x] \in frames
        BY <2>9
      <4>5. CASE aspace'[q][w] = aspace[q][w]
        <5>1. aspace[q][w] = aspace[r][x] /\ aspace[q][w] \in Frames
          BY <4>2, <4>4, <4>5
        <5> QED BY <4>1, <5>1
      <4>6. CASE aspace'[q][w] # aspace[q][w]
        <5>1. q = p /\ r = p /\ w \in area /\ x \in area /\ c.frame + (w - v) = c.frame + (x - v)
          BY <4>2, <4>3, <4>4, <4>6
        <5> QED BY <2>4, <5>1
      <4> QED BY <4>5, <4>6
    <3> QED BY <3>3, <3>4, <3>5, <3>6 DEF NoDoubleUse
  <2>11. NoLeak'
    <3> SUFFICES ASSUME NEW f \in Frames
                 PROVE  \/ f \in free'
                        \/ \E q \in Procs : f \in InCall(q)' \/ \E w \in Pages : aspace'[q][w] = f
      BY DEF NoLeak
    <3>1. CASE f \in frames
      <4>1. v + (f - c.frame) \in area /\ f = c.frame + ((v + (f - c.frame)) - v)
        BY <2>2, <3>1
      <4>2. aspace'[p][v + (f - c.frame)] = f /\ v + (f - c.frame) \in Pages
        BY <4>1, <2>1, <2>3
      <4> QED BY <4>2
    <3>2. CASE \E q \in Procs : \E w \in Pages : aspace[q][w] = f
      <4>1. PICK q \in Procs, w \in Pages : aspace[q][w] = f
        BY <3>2
      <4>2. aspace'[q][w] = f
        BY <4>1, <2>9, FramesAreMapped
      <4> QED BY <4>2
    <3>3. CASE f \in free \/ \E q \in Procs \ {p} : f \in InCall(q)
      BY <3>3, <2>6, <2>p
    <3> QED BY <1>0, <3>1, <3>2, <3>3 DEF NoLeak
  <2>12. DmaStays'
    <3>1. ASSUME NEW q \in Procs, NEW r \in dma[q], NEW i \in 0 .. r.n - 1
          PROVE  r.page + i \in Pages /\ aspace'[q][r.page + i] = r.frame + i
      <4>1. r.page + i \in Pages /\ aspace[q][r.page + i] = r.frame + i
        BY DEF DmaStays
      <4>2. r.frame + i # Unmapped
        BY MemoryAssumption DEF TypeOK, Region, Frames, Lens, Unmapped
      <4> QED BY <4>1, <4>2, <2>9
    <3>2. ASSUME NEW i \in 0 .. new.n - 1
          PROVE  new.page + i \in Pages /\ aspace'[p][new.page + i] = new.frame + i
      <4>1. new.page + i \in area /\ (new.page + i) - v = i
        BY <1>0, MemoryAssumption DEF new, area, Run, Pages, Lens, c
      <4> QED BY <4>1, <2>1, <2>3 DEF new
    <3>3. ASSUME NEW q \in Procs, NEW r \in dma'[q], NEW i \in 0 .. r.n - 1
          PROVE  r.page + i \in Pages /\ aspace'[q][r.page + i] = r.frame + i
      <4>1. r \in dma[q] \/ (q = p /\ r = new)
        BY <2>5, <2>7
      <4> QED BY <3>1, <3>2, <4>1, Zenon
    <3> QED BY <3>3, Zenon DEF DmaStays
  <2>13. DmaDisjoint'
    <3>1. ASSUME NEW r \in dma[p], NEW w \in Pages, w \in Run(r.page, r.n) PROVE w \notin area
      <4>1. r \in Region
        BY DEF TypeOK
      <4>2. w - r.page \in 0 .. r.n - 1 /\ r.page + (w - r.page) = w
        BY <3>1, <4>1, MemoryAssumption DEF Region, Pages, Lens, Run
      <4>3. aspace[p][w] = r.frame + (w - r.page)
        BY <4>2 DEF DmaStays
      <4>4. r.frame + (w - r.page) # Unmapped
        BY <4>1, <4>2, MemoryAssumption DEF Region, Frames, Lens, Unmapped
      <4> QED BY <2>1, <4>3, <4>4
    <3>2. Run(new.page, new.n) = area
      BY DEF new, area
    <3>3. \A r, s \in dma'[p] : \A w \in Pages :
            w \in Run(r.page, r.n) /\ w \in Run(s.page, s.n) => r = s
      BY <2>7, <3>1, <3>2 DEF DmaDisjoint
    <3>4. \A r \in dma'[p] : Run(r.frame, r.n) \subseteq Frames
      <4>1. \A r \in dma[p] : Run(r.frame, r.n) \subseteq Frames
        BY DEF DmaDisjoint
      <4>2. new.frame = c.frame /\ new.n = c.n
        BY DEF new
      <4>3. Run(new.frame, new.n) \subseteq Frames
        BY <1>0, <4>2 DEF frames, c
      <4> QED BY <2>7, <4>1, <4>3
    <3> QED BY <2>5, <3>3, <3>4 DEF DmaDisjoint
  <2> QED BY <2>8, <2>10, <2>11, <2>12, <2>13
<1> QED BY <1>1, <1>2

LEMMA UnmapInv == ASSUME MemoryInv, NEW p \in Procs, Unmap(p) PROVE MemoryInv'
<1> USE DEF MemoryInv
<1> DEFINE c == call[p]
           r == [page |-> call[p].page, frame |-> call[p].frame, n |-> call[p].n]
           area == Run(call[p].page, call[p].n)
           frames == Run(call[p].frame, call[p].n)
<1>0. /\ c.pc = "locked" /\ c.op = "dealloc" /\ r \in dma[p] /\ r \in Region
      /\ UNCHANGED <<free, table, pending, alive>> /\ InCall(p) = {}
  BY DEF Unmap, procVars, CallsOK, CallOK, InCall, TypeOK
<1>1. CASE UNCHANGED <<aspace, dma>> /\ Return(p)
  <2>1. \A q \in Procs : InCall(q)' = InCall(q)
    BY <1>0, <1>1, ReturnCalls
  <2>2. NoDoubleUse' /\ NoLeak'
    BY <1>0, <1>1, <2>1, FramesKept
  <2>3. TypeOK' /\ CallsOK' /\ LocksOK'
    BY <1>0, <1>1, ReturnCalls DEF TypeOK
  <2>4. DmaStays' /\ DmaDisjoint'
    BY <1>1, RegionsKept
  <2> QED BY <2>2, <2>3, <2>4
<1>2. CASE ~(UNCHANGED <<aspace, dma>> /\ Return(p))
  <2>p. /\ MapTo(p, [w \in area |-> Unmapped])
        /\ dma' = [dma EXCEPT ![p] = @ \ {r}]
        /\ Goto(p, "free")
        /\ UNCHANGED <<aspace_lock, table_lock>>
    BY <1>2 DEF Unmap
  <2>0. /\ call' \in [Procs -> CallType]
        /\ \A q \in Procs \ {p} : call'[q] = call[q]
        /\ call'[p].pc = "free" /\ call'[p].frame = call[p].frame
        /\ call'[p].op = call[p].op /\ call'[p].target = call[p].target
        /\ call'[p].n = call[p].n /\ call'[p].page = call[p].page
    BY <2>p, GotoMoves
  <2>1. InCall(p)' = frames /\ \A q \in Procs \ {p} : InCall(q)' = InCall(q)
    BY <2>0 DEF InCall
  <2>2. /\ aspace' \in [Procs -> [Pages -> Phys]]
        /\ \A x \in Procs \ {p} : aspace'[x] = aspace[x]
        /\ \A w \in Pages : aspace'[p][w] = IF w \in area THEN Unmapped ELSE aspace[p][w]
    <3>1. Unmapped \in Phys
      BY MemoryAssumption DEF Unmapped, Phys
    <3>2. /\ aspace' \in [Procs -> [Pages -> Phys]]
          /\ \A x \in Procs \ {p} : aspace'[x] = aspace[x]
          /\ \A w \in Pages :
               aspace'[p][w] = IF w \in DOMAIN [x \in area |-> Unmapped]
                               THEN [x \in area |-> Unmapped][w] ELSE aspace[p][w]
      BY <2>p, <3>1, Mapped
    <3> QED BY <3>2
  <2>3. dma'[p] = dma[p] \ {r} /\ \A q \in Procs \ {p} : dma'[q] = dma[q]
    BY <2>p DEF TypeOK
  <2>4. TypeOK'
    BY <1>0, <2>p, <2>0, <2>2 DEF TypeOK
  <2>5. CallsOK'
    <3>1. CallOK(call'[p], dma'[p], p)
      BY <1>0, <2>0 DEF CallsOK, CallOK
    <3>2. \A q \in Procs \ {p} : CallOK(call'[q], dma'[q], q)
      BY <2>0, <2>3 DEF CallsOK
    <3> QED BY <3>1, <3>2 DEF CallsOK
  <2>6. LocksOK'
    <3>0. LocksOK /\ aspace_lock' = aspace_lock /\ table_lock' = table_lock
      BY <2>p
    <3> USE DEF LocksOK
    <3> HIDE DEF MemoryInv
    <3>1. ASSUME NEW x \in Procs, NEW q \in Procs, aspace_lock'[q] = x
          PROVE  call'[x].pc \in {"locked", "free"} /\ call'[x].target = q
      <4>1. call[x].pc \in {"locked", "free"} /\ call[x].target = q
        BY <3>0, <3>1
      <4> QED BY <2>0, <4>1
    <3>2. ASSUME NEW x \in Procs, table_lock' = x
          PROVE  call'[x].op = "mmap" /\ call'[x].pc \in {"lock", "locked"}
      <4>1. call[x].op = "mmap" /\ call[x].pc \in {"lock", "locked"}
        BY <3>0, <3>2
      <4>2. x # p
        BY <1>0, <4>1
      <4> QED BY <2>0, <4>1, <4>2
    <3> QED BY <3>1, <3>2
  <2>7. c.page \in Int /\ c.frame \in Int /\ c.n \in Int /\ c.page \in Pages
        /\ c.frame \in Frames /\ c.n \in Lens
    BY <1>0, MemoryAssumption DEF Region, Pages, Frames, Lens
  <2>8. \A w \in area : w \in Pages /\ aspace[p][w] = c.frame + (w - c.page)
    <3> SUFFICES ASSUME NEW w \in area PROVE w \in Pages /\ aspace[p][w] = c.frame + (w - c.page)
      OBVIOUS
    <3>1. w - c.page \in 0 .. r.n - 1 /\ c.page + (w - c.page) = w
      BY <2>7 DEF Run
    <3> QED BY <3>1, <1>0 DEF DmaStays
  <2>9. \A w \in area : aspace[p][w] \in frames
    BY <2>7, <2>8, RunShift
  <2>10. \A f \in frames : \E w \in area : aspace[p][w] = f
    <3> SUFFICES ASSUME NEW f \in frames PROVE \E w \in area : aspace[p][w] = f
      OBVIOUS
    <3>1. c.page + (f - c.frame) \in area /\ f = c.frame + ((c.page + (f - c.frame)) - c.page)
      BY <2>7, RunShift
    <3>2. aspace[p][c.page + (f - c.frame)] = c.frame + ((c.page + (f - c.frame)) - c.page)
      BY <2>8, <3>1
    <3> QED BY <3>1, <3>2
  <2>11. frames \subseteq Frames
    <3>1. DmaDisjoint /\ r.frame = call[p].frame /\ r.n = call[p].n
      OBVIOUS
    <3> HIDE DEF MemoryInv, r
    <3> QED BY <1>0, <3>1 DEF DmaDisjoint
  <2>12. \A q \in Procs : \A w \in Pages :
           aspace[q][w] \in frames => q = p /\ w \in area
    <3> SUFFICES ASSUME NEW q \in Procs, NEW w \in Pages, aspace[q][w] \in frames
                 PROVE  q = p /\ w \in area
      OBVIOUS
    <3>1. PICK x \in area : aspace[p][x] = aspace[q][w]
      BY <2>10
    <3>2. x \in Pages /\ aspace[q][w] \in Frames
      BY <2>8, <2>11
    <3>3. \A s, u \in Procs : \A y, z \in Pages :
            aspace[s][y] = aspace[u][z] /\ aspace[s][y] \in Frames => s = u /\ y = z
      BY DEF NoDoubleUse
    <3> HIDE DEF MemoryInv
    <3> QED BY <3>1, <3>2, <3>3, Zenon
  <2>13. \A q \in Procs : \A w \in Pages :
           \/ aspace'[q][w] = aspace[q][w] /\ aspace[q][w] \notin frames
           \/ q = p /\ w \in area /\ aspace'[q][w] = Unmapped
    <3> HIDE DEF MemoryInv, area, frames, r, c
    <3> QED BY <2>2, <2>12
  <2> HIDE DEF area, frames, r, c
  <2>14. NoDoubleUse'
    <3>1. frames \cap free = {} /\ \A q \in Procs : frames \cap InCall(q) = {}
      <4>1. ASSUME NEW q \in Procs, NEW f \in frames PROVE f \notin free \cup InCall(q)
        <5>1. PICK w \in area : aspace[p][w] = f
          BY <2>10
        <5>2. w \in Pages
          BY <2>8
        <5> QED BY <5>1, <5>2 DEF NoDoubleUse
      <4> HIDE DEF MemoryInv
      <4> QED BY <4>1
    <3>2. \A q \in Procs : (InCall(q) \subseteq Frames /\ InCall(q) \cap free = {})'
      <4>1. \A q \in Procs : InCall(q) \subseteq Frames /\ InCall(q) \cap free = {}
        BY DEF NoDoubleUse
      <4> HIDE DEF MemoryInv
      <4> QED BY <1>0, <2>1, <2>11, <3>1, <4>1
    <3>3. \A q, s \in Procs : q # s => InCall(q)' \cap InCall(s)' = {}
      BY <2>1, <3>1 DEF NoDoubleUse
    <3>4. Unmapped \notin free /\ Unmapped \notin frames /\ \A q \in Procs : Unmapped \notin InCall(q)
      BY <2>11, FramesAreMapped DEF NoDoubleUse, TypeOK
    <3>5. \A q, s \in Procs : \A w \in Pages : aspace'[q][w] \notin free' \cup InCall(s)'
      BY <1>0, <2>1, <2>13, <3>4 DEF NoDoubleUse
    <3>6. \A q, s \in Procs : \A w, x \in Pages :
            aspace'[q][w] = aspace'[s][x] /\ aspace'[q][w] \in Frames => q = s /\ w = x
      <4>1. \A q, s \in Procs : \A w, x \in Pages :
              aspace[q][w] = aspace[s][x] /\ aspace[q][w] \in Frames => q = s /\ w = x
        BY DEF NoDoubleUse
      <4> HIDE DEF MemoryInv
      <4>2. \A q \in Procs : \A w \in Pages : aspace'[q][w] \in Frames => aspace'[q][w] = aspace[q][w]
        BY <2>13, FramesAreMapped
      <4> QED BY <4>1, <4>2
    <3> QED BY <3>2, <3>3, <3>5, <3>6 DEF NoDoubleUse
  <2>15. NoLeak'
    <3> SUFFICES ASSUME NEW f \in Frames
                 PROVE  \/ f \in free'
                        \/ \E q \in Procs : f \in InCall(q)' \/ \E w \in Pages : aspace'[q][w] = f
      BY DEF NoLeak
    <3>1. CASE f \in frames
      BY <2>1, <3>1
    <3>2. CASE f \notin frames /\ \E q \in Procs : \E w \in Pages : aspace[q][w] = f
      <4>1. PICK q \in Procs, w \in Pages : aspace[q][w] = f
        BY <3>2
      <4>2. aspace'[q][w] = f
        BY <3>2, <4>1, <2>2, <2>9
      <4> QED BY <4>2
    <3>3. CASE f \in free \/ \E q \in Procs : f \in InCall(q)
      BY <1>0, <2>1, <3>3
    <3> QED BY <3>1, <3>2, <3>3 DEF NoLeak
  <2>16. DmaDisjoint'
    <3>1. \A s \in dma'[p] : s \in dma[p]
      BY <2>3
    <3> QED BY <2>3, <3>1 DEF DmaDisjoint
  <2>17. DmaStays'
    <3>1. ASSUME NEW q \in Procs, NEW s \in dma'[q], NEW i \in 0 .. s.n - 1
          PROVE  s.page + i \in Pages /\ aspace'[q][s.page + i] = s.frame + i
      <4>1. s \in dma[q] /\ (q = p => s # r)
        BY <2>3
      <4>2. s.page + i \in Pages /\ aspace[q][s.page + i] = s.frame + i
        BY <4>1 DEF DmaStays
      <4>3. s \in Region
        BY <4>1 DEF TypeOK
      <4>4. s.page + i \in Run(s.page, s.n)
        BY <4>3, MemoryAssumption DEF Region, Pages, Lens, Run
      <4>5. ~(q = p /\ s.page + i \in area)
        <5>1. DmaDisjoint /\ area = Run(r.page, r.n)
          BY DEF area, r
        <5> HIDE DEF MemoryInv
        <5> QED BY <1>0, <4>1, <4>2, <4>4, <5>1 DEF DmaDisjoint
      <4>6. aspace'[q][s.page + i] = aspace[q][s.page + i]
        BY <2>2, <4>2, <4>5
      <4> QED BY <4>2, <4>6
    <3> QED BY <3>1 DEF DmaStays
  <2> QED BY <2>4, <2>5, <2>6, <2>14, <2>15, <2>16, <2>17
<1> QED BY <1>1, <1>2

LEMMA DeallocInv == ASSUME MemoryInv, NEW p \in Procs, DeallocPages(p) PROVE MemoryInv'
<1> USE DEF MemoryInv
<1>0. /\ call[p].pc = "free" /\ Return(p) /\ free' = free \cup InCall(p)
      /\ UNCHANGED <<aspace, dma, table, pending, alive>>
  BY DEF DeallocPages, procVars, InCall
<1>1. InCall(p)' = {} /\ \A q \in Procs \ {p} : InCall(q)' = InCall(q)
  BY <1>0, ReturnCalls
<1>2. InCall(p) \subseteq Frames
  BY DEF NoDoubleUse
<1>3. TypeOK' /\ CallsOK' /\ LocksOK'
  BY <1>0, <1>2, ReturnCalls DEF TypeOK
<1>4. NoDoubleUse'
  <2>1. NoDoubleUse /\ free' = free \cup InCall(p) /\ aspace' = aspace
    BY <1>0
  <2>2. \A q \in Procs : InCall(q)' \subseteq InCall(q)
    BY <1>1
  <2> HIDE DEF MemoryInv
  <2>3. \A q \in Procs : InCall(q)' \subseteq Frames /\ InCall(q)' \cap free' = {}
    <3>1. ASSUME NEW q \in Procs \ {p} PROVE InCall(q)' \cap free' = {}
      BY <1>1, <2>1, <3>1 DEF NoDoubleUse
    <3>2. InCall(p)' \cap free' = {}
      BY <1>1
    <3>3. \A q \in Procs : InCall(q)' \subseteq Frames
      BY <2>1, <2>2 DEF NoDoubleUse
    <3> QED BY <3>1, <3>2, <3>3
  <2>4. \A x, q \in Procs : x # q => InCall(x)' \cap InCall(q)' = {}
    BY <2>1, <2>2 DEF NoDoubleUse
  <2>5. \A x, q \in Procs : \A v \in Pages : aspace'[x][v] \notin free' \cup InCall(q)'
    BY <2>1, <2>2 DEF NoDoubleUse
  <2>6. \A x, q \in Procs : \A v, w \in Pages :
          aspace'[x][v] = aspace'[q][w] /\ aspace'[x][v] \in Frames => x = q /\ v = w
    BY <2>1 DEF NoDoubleUse
  <2> QED BY <2>3, <2>4, <2>5, <2>6 DEF NoDoubleUse
<1>5. NoLeak'
  BY <1>0, <1>1 DEF NoLeak
<1>6. DmaStays' /\ DmaDisjoint'
  BY <1>0, RegionsKept
<1> QED BY <1>3, <1>4, <1>5, <1>6

(* A step that touches neither memory, locks nor calls.                    *)
LEMMA QuietInv ==
  ASSUME MemoryInv, UNCHANGED <<free, aspace, dma, aspace_lock, table_lock, call>>,
         table' \subseteq Procs, pending' \subseteq Procs, alive' \subseteq Procs
  PROVE  MemoryInv'
<1> USE DEF MemoryInv
<1>1. TypeOK' /\ CallsOK' /\ LocksOK'
  BY DEF TypeOK, CallsOK, LocksOK
<1>2. \A q \in Procs : InCall(q)' = InCall(q)
  BY DEF InCall
<1>3. NoDoubleUse' /\ NoLeak'
  BY <1>2, FramesKept
<1>4. DmaStays' /\ DmaDisjoint'
  BY DEF DmaStays, DmaDisjoint
<1> QED BY <1>1, <1>3, <1>4

LEMMA ProcsInv ==
  ASSUME MemoryInv, NEW p \in Procs, InsertProcess(p) \/ Exit(p) \/ Fault(p)
  PROVE  MemoryInv'
<1>1. /\ UNCHANGED <<free, aspace, dma, aspace_lock, table_lock, call>>
      /\ table' \subseteq Procs /\ pending' \subseteq Procs /\ alive' \subseteq Procs
  BY DEF InsertProcess, Exit, Fault, MemoryInv, TypeOK
<1> QED BY <1>1, QuietInv

LEMMA StepInv == MemoryInv /\ [Next]_vars => MemoryInv'
<1> SUFFICES ASSUME MemoryInv, [Next]_vars PROVE MemoryInv'
  OBVIOUS
<1>1. CASE UNCHANGED vars
  BY <1>1, QuietInv DEF vars, MemoryInv, TypeOK
<1>2. CASE Next
  <2>1. PICK p \in Procs : User(p) \/ Kernel(p) \/ InsertProcess(p) \/ Exit(p) \/ Fault(p)
    BY <1>2 DEF Next
  <2>2. CASE Kernel(p)
    BY <2>2, LockTableInv, AllocPagesInv, LockAspaceInv, MmapInv, DeviceInv, DmaAllocInv,
       UnmapInv, DeallocInv DEF Kernel
  <2> QED BY <2>1, <2>2, UserInv, ProcsInv
<1> QED BY <1>1, <1>2

-----------------------------------------------------------------------------
(* The invariant that carries the others: what the fields of a call mean,  *)
(* who holds which lock, and that DMA regions are disjoint, beside the     *)
(* properties themselves.                                                  *)
THEOREM MemoryCorrect == Spec => []MemoryInv
  BY InitInv, StepInv, PTL DEF Spec

(* For any number of processes, pages and frames, no frame is used twice,  *)
(* whatever calls of do_mmap, do_dma_alloc and do_dma_dealloc overlap.     *)
THEOREM FramesTheorem == Spec => []NoDoubleUse
<1>1. MemoryInv => NoDoubleUse
  BY DEF MemoryInv
<1> QED BY <1>1, MemoryCorrect, PTL

(* No frame is lost: do_dma_alloc gives back what it took when it fails.   *)
THEOREM NoLeakTheorem == Spec => []NoLeak
<1>1. MemoryInv => NoLeak
  BY DEF MemoryInv
<1> QED BY <1>1, MemoryCorrect, PTL

(* DMA regions stay mapped as do_dma_alloc told the driver.                *)
THEOREM DmaTheorem == Spec => []DmaStays
<1>1. MemoryInv => DmaStays
  BY DEF MemoryInv
<1> QED BY <1>1, MemoryCorrect, PTL

(* The page tables, the locks and the fields of every call in progress     *)
(* keep their types.                                                       *)
THEOREM MemoryTypes == Spec => []TypeOK
<1>1. MemoryInv => TypeOK
  BY DEF MemoryInv
<1> QED BY <1>1, MemoryCorrect, PTL

(* The calls in progress never all wait for each other.                    *)
THEOREM NoDeadlockTheorem == Spec => []NoCircularWait
<1>1. MemoryInv => NoCircularWait
  <2> SUFFICES ASSUME MemoryInv, NEW p \in Procs, call[p].pc # "user"
               PROVE  \E q \in Procs : call[q].pc # "user" /\ ~Blocked(q)
    BY DEF NoCircularWait
  <2>1. ASSUME NEW q \in Procs, NEW t \in Procs, aspace_lock[t] = q
        PROVE  call[q].pc # "user" /\ ~Blocked(q)
    BY <2>1 DEF MemoryInv, LocksOK, Blocked
  <2>2. ASSUME NEW q \in Procs, call[q].pc = "lock"
        PROVE  \E x \in Procs : call[x].pc # "user" /\ ~Blocked(x)
    <3>1. call[q].target \in Procs
      BY <2>2 DEF MemoryInv, CallsOK, CallOK
    <3>2. CASE aspace_lock[call[q].target] = Nobody
      BY <2>2, <3>2 DEF Blocked
    <3>3. CASE aspace_lock[call[q].target] # Nobody
      <4>1. aspace_lock[call[q].target] \in Procs
        BY <3>1, <3>3 DEF MemoryInv, TypeOK
      <4> QED BY <2>1, <3>1, <4>1
    <3> QED BY <3>2, <3>3
  <2>3. CASE call[p].pc = "lock"
    BY <2>2, <2>3
  <2>4. CASE call[p].pc = "table" /\ table_lock # Nobody
    <3>1. table_lock \in Procs
      BY <2>4 DEF MemoryInv, TypeOK
    <3>2. call[table_lock].pc \in {"lock", "locked"}
      BY <3>1 DEF MemoryInv, LocksOK
    <3>3. CASE call[table_lock].pc = "locked"
      BY <3>1, <3>3 DEF Blocked
    <3> QED BY <2>2, <3>1, <3>2, <3>3
  <2>5. CASE call[p].pc # "lock" /\ ~(call[p].pc = "table" /\ table_lock # Nobody)
    BY <2>5 DEF Blocked
  <2> QED BY <2>3, <2>4, <2>5
<1> QED BY <1>1, MemoryCorrect, PTL

LEMMA OnlyFreePages ==
  ASSUME MemoryInv, NEW q \in Procs, NEW m, MapTo(q, m),
         \A w \in Pages : w \in DOMAIN m => aspace[q][w] = Unmapped
  PROVE  \A p \in Procs : \A v \in Pages :
           aspace[p][v] # Unmapped => aspace'[p][v] = aspace[p][v]
<1>1. aspace' = [aspace EXCEPT ![q] =
                   [w \in Pages |-> IF w \in DOMAIN m THEN m[w] ELSE aspace[q][w]]]
  BY DEF MapTo
<1> QED BY <1>1 DEF MemoryInv, TypeOK

(* A mapped page keeps its physical page until its region is given back.   *)
THEOREM StableTheorem == Spec => PhysIsStable
<1> DEFINE Stable ==
      \A p \in Procs : \A v \in Pages :
        aspace[p][v] # Unmapped /\ aspace'[p][v] # aspace[p][v] =>
          \E r \in dma[p] : r \notin dma'[p] /\ v \in Run(r.page, r.n)
<1>1. ASSUME MemoryInv, NEW x \in Procs, do_mmap(x) PROVE Stable
  <2>1. CASE UNCHANGED aspace
    BY <2>1
  <2>2. CASE ~UNCHANGED aspace
    <3>1. PICK v \in Pages : \E m \in [Run(v, call[x].n) -> free] :
            FreeArea(call[x].target, v, call[x].n) /\ MapTo(call[x].target, m)
      BY <1>1, <2>2 DEF do_mmap
    <3>2. PICK m \in [Run(v, call[x].n) -> free] :
            FreeArea(call[x].target, v, call[x].n) /\ MapTo(call[x].target, m)
      BY <3>1
    <3>3. call[x].target \in Procs
      BY <1>1 DEF do_mmap, MemoryInv, CallsOK, CallOK
    <3>4. \A w \in Pages : w \in DOMAIN m => aspace[call[x].target][w] = Unmapped
      BY <3>2 DEF FreeArea
    <3> QED BY <1>1, <3>2, <3>3, <3>4, OnlyFreePages
  <2> QED BY <2>1, <2>2
<1>2. ASSUME MemoryInv, NEW x \in Procs, do_map_device(x) PROVE Stable
  <2>1. CASE UNCHANGED aspace
    BY <2>1
  <2>2. CASE ~UNCHANGED aspace
    <3>1. FreeArea(x, call[x].page, 1) /\ MapTo(x, [w \in {call[x].page} |-> NumFrames + w])
      BY <1>2, <2>2 DEF do_map_device
    <3>2. call[x].page \in Pages
      BY <1>2 DEF do_map_device, MemoryInv, CallsOK, CallOK
    <3>3. aspace[x][call[x].page] = Unmapped
      BY <3>1, <3>2, MemoryAssumption DEF FreeArea, Run, Pages
    <3>4. \A w \in Pages : w \in DOMAIN [y \in {call[x].page} |-> NumFrames + y]
                           => aspace[x][w] = Unmapped
      BY <3>3
    <3> QED BY <1>2, <3>1, <3>4, OnlyFreePages
  <2> QED BY <2>1, <2>2
<1>3. ASSUME MemoryInv, NEW x \in Procs, do_dma_alloc(x) PROVE Stable
  <2>1. CASE UNCHANGED aspace
    BY <2>1
  <2>2. CASE ~UNCHANGED aspace
    <3>1. PICK v \in Pages :
            /\ FreeArea(x, v, call[x].n)
            /\ MapTo(x, [w \in Run(v, call[x].n) |-> call[x].frame + (w - v)])
      BY <1>3, <2>2 DEF do_dma_alloc
    <3>2. \A w \in Pages : w \in DOMAIN [y \in Run(v, call[x].n) |-> call[x].frame + (y - v)]
                           => aspace[x][w] = Unmapped
      BY <3>1 DEF FreeArea
    <3> QED BY <1>3, <3>1, <3>2, OnlyFreePages
  <2> QED BY <2>1, <2>2
<1>4. ASSUME MemoryInv, NEW x \in Procs, Unmap(x) PROVE Stable
  <2> DEFINE r == [page |-> call[x].page, frame |-> call[x].frame, n |-> call[x].n]
  <2>1. CASE UNCHANGED aspace
    BY <2>1
  <2>2. CASE ~UNCHANGED aspace
    <3>1. /\ MapTo(x, [w \in Run(call[x].page, call[x].n) |-> Unmapped])
          /\ dma' = [dma EXCEPT ![x] = @ \ {r}]
      BY <1>4, <2>2 DEF Unmap
    <3>2. r \in dma[x] /\ r \notin dma'[x]
      BY <1>4, <3>1 DEF Unmap, MemoryInv, CallsOK, CallOK, TypeOK
    <3>3. \A p \in Procs : \A v \in Pages :
            aspace'[p][v] # aspace[p][v] => p = x /\ v \in Run(call[x].page, call[x].n)
      <4>1. aspace' = [aspace EXCEPT ![x] =
                         [w \in Pages |-> IF w \in DOMAIN [y \in Run(call[x].page, call[x].n) |-> Unmapped]
                                          THEN Unmapped ELSE aspace[x][w]]]
        BY <3>1 DEF MapTo
      <4> QED BY <1>4, <4>1 DEF MemoryInv, TypeOK
    <3>4. r.page = call[x].page /\ r.n = call[x].n
      OBVIOUS
    <3> HIDE DEF r
    <3>5. ASSUME NEW p \in Procs, NEW v \in Pages, aspace'[p][v] # aspace[p][v]
          PROVE  \E s \in dma[p] : s \notin dma'[p] /\ v \in Run(s.page, s.n)
      <4>1. p = x /\ v \in Run(r.page, r.n)
        BY <3>3, <3>4, <3>5
      <4> QED BY <3>2, <4>1
    <3> QED BY <3>5
  <2> QED BY <2>1, <2>2
<1>5. ASSUME MemoryInv, UNCHANGED aspace PROVE Stable
  BY <1>5
<1>6. MemoryInv /\ [Next]_vars => [Stable]_vars
  <2> SUFFICES ASSUME MemoryInv, Next PROVE Stable
    OBVIOUS
  <2> HIDE DEF Stable
  <2>1. PICK p \in Procs : User(p) \/ Kernel(p) \/ InsertProcess(p) \/ Exit(p) \/ Fault(p)
    BY DEF Next
  <2>2. CASE User(p)
    BY <1>5, <2>2 DEF User, MmapAnon, MapDevice, VmmMapPageTo, DmaAlloc, DmaDealloc, Enter
  <2>3. CASE InsertProcess(p) \/ Exit(p) \/ Fault(p)
    BY <1>5, <2>3 DEF InsertProcess, Exit, Fault
  <2>4. CASE LockTable(p) \/ AllocPages(p) \/ LockAspace(p) \/ DeallocPages(p)
    BY <1>5, <2>4 DEF LockTable, AllocPages, LockAspace, DeallocPages
  <2> QED BY <1>1, <1>2, <1>3, <1>4, <2>1, <2>2, <2>3, <2>4 DEF Kernel
<1> QED BY <1>6, MemoryCorrect, PTL DEF Spec, PhysIsStable
=============================================================================

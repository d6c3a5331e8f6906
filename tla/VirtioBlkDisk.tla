--------------------------- MODULE VirtioBlkDisk ----------------------------
(***************************************************************************)
(* The disk adapter of the file system server: read, write and seek at any *)
(* byte position, on a block service that moves whole sectors.  A write    *)
(* loads each sector, changes part of it and stores it back.               *)
(*                                                                         *)
(* The block service is the environment.  A sector call may fail at any    *)
(* time, and a store that fails may have taken effect: blk_call gives up   *)
(* after its tries although the request is queued.  The service takes its  *)
(* requests in order, so such a store comes before the next request of the *)
(* adapter, and the model lets it take effect at once.                     *)
(***************************************************************************)
EXTENDS Integers, Sequences, FiniteSetsExt

CONSTANTS block_size, block_count,  \* what REQ_GET_INFO answers
          Byte,
          MaxBuf                    \* bound: length of a caller's buffer

ASSUME DiskAssumption == /\ block_size \in Nat \ {0}
                         /\ block_count \in Nat
                         /\ MaxBuf \in Nat

size == block_count * block_size

VARIABLES disk,   \* the bytes the block service holds
          pos,    \* VirtioBlkDisk.pos
          call    \* the call in progress, or the last one

vars == <<disk, pos, call>>

Addr == 0 .. size - 1
Disk == [Addr -> Byte]
Buffers == UNION {[1 .. n -> Byte] : n \in 0 .. MaxBuf}

(* len, data: the argument; from, before: position and disk when the call  *)
(* began (history); done: bytes moved; out: bytes read; sector: the buffer *)
(* between load and store.                                                 *)
Call(op, len, data) ==
  [pc |-> "loop", op |-> op, len |-> len, data |-> data, from |-> pos, before |-> disk,
   done |-> 0, out |-> <<>>, sector |-> <<>>]

Returned == call.pc \in {"ok", "err"}

Init ==
  /\ disk \in Disk
  /\ pos = 0
  /\ call = [Call("seek", 0, <<>>) EXCEPT !.pc = "ok"]

-----------------------------------------------------------------------------
lba == pos \div block_size
off == pos % block_size

MoreBug == call.done + 1 < call.len /\ pos < size
More == call.done < call.len /\ pos < size

(* n: the rest of the sector, of the buffer and of the disk.               *)
Chunk == Min({block_size - off, call.len - call.done, size - pos})

Sector == [i \in 1 .. block_size |-> disk[lba * block_size + i - 1]]

PatchedBug(sector) ==
  [i \in 1 .. block_size |-> IF i <= Chunk THEN call.data[call.done + i] ELSE sector[i]]
Patched(sector) ==
  [i \in 1 .. block_size |->
     IF i > off /\ i <= off + Chunk THEN call.data[call.done + i - off] ELSE sector[i]]

SliceBug(sector) == SubSeq(sector, 1, Chunk)
Slice(sector) == SubSeq(sector, off + 1, off + Chunk)

Fail == call' = [call EXCEPT !.pc = "err"] /\ UNCHANGED pos

AdvanceBug(out) == call' = [call EXCEPT !.pc = "loop", !.out = out] /\ UNCHANGED pos
Advance(out) ==
  /\ pos' = pos + Chunk
  /\ call' = [call EXCEPT !.pc = "loop", !.done = @ + Chunk, !.out = out, !.sector = <<>>]

read == \E n \in 0 .. MaxBuf :
  Returned /\ call' = Call("read", n, <<>>) /\ UNCHANGED <<disk, pos>>

write == \E data \in Buffers :
  Returned /\ call' = Call("write", Len(data), data) /\ UNCHANGED <<disk, pos>>

ReadSector ==
  /\ call.pc = "loop" /\ call.op = "read" /\ More
  /\ Fail \/ Advance(call.out \o Slice(Sector))
  /\ UNCHANGED disk

LoadSector ==
  /\ call.pc = "loop" /\ call.op = "write" /\ More
  /\ \/ Fail
     \/ call' = [call EXCEPT !.pc = "store", !.sector = Sector] /\ UNCHANGED pos
  /\ UNCHANGED disk

Stored ==
  [a \in Addr |-> IF a \div block_size = lba
                  THEN Patched(call.sector)[(a % block_size) + 1] ELSE disk[a]]

StoreSector ==
  /\ call.pc = "store"
  /\ \/ disk' = Stored /\ Advance(<<>>)
     \/ disk' \in {disk, Stored} /\ Fail

Return ==
  /\ call.pc = "loop" /\ ~More
  /\ call' = [call EXCEPT !.pc = "ok"]
  /\ UNCHANGED <<disk, pos>>

(* A target before the start of the disk is an error that moves nothing.   *)
SeekTo(target) == pos' = Min({target, size})

seek == \E base \in {0, pos, size}, offset \in -MaxBuf .. MaxBuf :
  /\ Returned
  /\ \/ base + offset >= 0 /\ SeekTo(base + offset)
                           /\ call' = [Call("seek", 0, <<>>) EXCEPT !.pc = "ok"]
     \/ base + offset < 0 /\ UNCHANGED pos
                          /\ call' = [Call("seek", 0, <<>>) EXCEPT !.pc = "err"]
  /\ UNCHANGED disk

Step == ReadSector \/ LoadSector \/ StoreSector \/ Return

Next == read \/ write \/ seek \/ Step

Spec == Init /\ [][Next]_vars

(* Every sector call returns: blk_call ends after at most 250 tries.       *)
FairSpec == Spec /\ WF_vars(Step)

-----------------------------------------------------------------------------
(* Type correctness; the position never leaves the disk.                   *)
TypeOK ==
  /\ disk \in Disk
  /\ pos \in 0 .. size
  /\ call.pc \in {"loop", "store", "ok", "err"}
  /\ call.op \in {"read", "write", "seek"}
  /\ call.len \in 0 .. MaxBuf /\ call.done \in 0 .. call.len

(* The bytes of d with the first k bytes of the call's data at from.       *)
Overlay(d, k) ==
  [a \in Addr |-> IF a >= call.from /\ a < call.from + k
                  THEN call.data[a - call.from + 1] ELSE d[a]]

(* A write, finished, failed or under way, has changed the disk by a       *)
(* prefix of its data at the position it began at and by nothing else, the *)
(* neighbours in the sectors it shares included.  The prefix is what pos   *)
(* has moved over; only a failed store may have added one more chunk.      *)
WriteIsPrefix ==
  call.op = "write" =>
    /\ pos = call.from + call.done
    /\ \/ disk = Overlay(call.before, call.done)
       \/ call.pc = "err" /\ More /\ disk = Overlay(call.before, call.done + Chunk)

(* What a read has returned is what the disk holds from the position it    *)
(* began at, across sector boundaries.                                     *)
ReadSeesDisk ==
  call.op = "read" =>
    /\ disk = call.before /\ pos = call.from + call.done
    /\ call.out = [i \in 1 .. call.done |-> disk[call.from + i - 1]]

(* A read or write that succeeds is short only at the end of the disk.     *)
ShortOnlyAtEnd ==
  call.pc = "ok" /\ call.op # "seek" => call.done = Min({call.len, size - call.from})

(* Every call returns.                                                     *)
CallReturns == call.pc \in {"loop", "store"} ~> Returned
=============================================================================

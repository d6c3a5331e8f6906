----------------------------- MODULE DiskProofs -----------------------------
(***************************************************************************)
(* The disk adapter of fs, for every sector size, disk size and buffer: a  *)
(* write changes a prefix of its range and nothing else, a read returns    *)
(* what the disk holds, and transfers are short only at the end.           *)
(***************************************************************************)
EXTENDS VirtioBlkDisk, TLAPS

(* The limits of a transfer: Min of three numbers is one of them and no    *)
(* greater than the others.                                                *)
LEMMA MinOfThree ==
  ASSUME NEW a \in Nat, NEW b \in Nat, NEW c \in Nat
  PROVE  Min({a, b, c}) \in {a, b, c} /\ \A y \in {a, b, c} : Min({a, b, c}) <= y
<1>1. \E x \in {a, b, c} : \A y \in {a, b, c} : x <= y
  OBVIOUS
<1> QED BY <1>1 DEF Min

(* And of two.                                                             *)
LEMMA MinOfTwo ==
  ASSUME NEW a \in Nat, NEW b \in Nat
  PROVE  Min({a, b}) \in {a, b} /\ \A y \in {a, b} : Min({a, b}) <= y
<1>1. \E x \in {a, b} : \A y \in {a, b} : x <= y
  OBVIOUS
<1> QED BY <1>1 DEF Min

(* lba and off: the quotient and the remainder make up the position.       *)
LEMMA DivMod ==
  ASSUME NEW a \in Nat, NEW b \in Nat \ {0}
  PROVE  /\ a \div b \in Nat /\ a % b \in 0 .. b - 1
         /\ a = ((a \div b) * b) + (a % b)
  OBVIOUS

(* The addresses of a sector are the ones between its bounds.              *)
LEMMA DivUnique ==
  ASSUME NEW a \in Nat, NEW b \in Nat \ {0}, NEW q \in Nat
  PROVE  a \div b = q <=> q * b <= a /\ a < q * b + b
  OBVIOUS

(* A sector that begins before the end of the disk lies in it as a whole.  *)
LEMMA WholeSector ==
  ASSUME NEW q \in Nat, NEW b \in Nat \ {0}, NEW c \in Nat, q * b < c * b
  PROVE  q * b + b <= c * b
<1>1. q < c
  <2>1. SUFFICES ASSUME c <= q PROVE FALSE
    OBVIOUS
  <2>2. PICK d \in Nat : q = c + d
    <3>1. q - c \in Nat /\ q = c + (q - c)
      BY <2>1
    <3> QED BY <3>1
  <2>3. q * b = c * b + d * b /\ d * b \in Nat /\ c * b \in Nat
    BY <2>2
  <2> QED BY <2>3
<1>2. PICK e \in Nat : c = q + 1 + e
  <2>1. c - q - 1 \in Nat /\ c = q + 1 + (c - q - 1)
    BY <1>1
  <2> QED BY <2>1
<1>3. c * b = q * b + b + e * b /\ e * b \in Nat /\ q * b \in Nat
  BY <1>2
<1> QED BY <1>3

(* The size of the disk is a natural number.                               *)
LEMMA SizeNat == size \in Nat
  BY DiskAssumption DEF size

-----------------------------------------------------------------------------
CallType ==
  [pc : {"loop", "store", "ok", "err"}, op : {"read", "write", "seek"}, len : 0 .. MaxBuf,
   data : Seq(Byte), from : 0 .. size, before : Disk, done : 0 .. MaxBuf, out : Seq(Byte),
   sector : Seq(Byte)]

Types ==
  /\ disk \in Disk /\ pos \in 0 .. size /\ call \in CallType
  /\ call.done <= call.len

(* What is between load and store: nobody else writes, so the sector in    *)
(* the buffer is still the one on the disk.                                *)
Loaded == call.pc = "store" => call.op = "write" /\ More /\ call.sector = Sector

(* A transfer that has ended well had nothing left to do.                  *)
Ended ==
  /\ call.op = "write" => Len(call.data) = call.len
  /\ call.op # "seek" => pos = call.from + call.done
  /\ call.op = "seek" => Returned
  /\ call.op # "seek" /\ call.pc = "ok" => ~More

DiskInv == Types /\ Loaded /\ Ended /\ WriteIsPrefix /\ ReadSeesDisk

(* The arithmetic of one step of a transfer.                               *)
LEMMA ChunkFacts ==
  ASSUME Types, More
  PROVE  /\ lba \in Nat /\ off \in 0 .. block_size - 1
         /\ pos = lba * block_size + off
         /\ lba * block_size \in Nat /\ lba * block_size + block_size <= size
         /\ Chunk \in Nat /\ Chunk > 0
         /\ Chunk <= block_size - off /\ Chunk <= call.len - call.done /\ Chunk <= size - pos
         /\ \/ Chunk = block_size - off \/ Chunk = call.len - call.done \/ Chunk = size - pos
<1>1. pos \in Nat /\ pos < size /\ call.done \in Nat /\ call.len \in Nat /\ call.done < call.len
  BY DiskAssumption, SizeNat DEF Types, More, CallType
<1>2. /\ lba \in Nat /\ off \in 0 .. block_size - 1
      /\ pos = lba * block_size + off
  BY <1>1, DivMod, DiskAssumption DEF lba, off
<1>3. lba * block_size \in Nat /\ lba * block_size < block_count * block_size
  BY <1>1, <1>2, DiskAssumption DEF size
<1>4. lba * block_size + block_size <= size
  BY <1>2, <1>3, WholeSector, DiskAssumption DEF size
<1> DEFINE S == {block_size - off, call.len - call.done, size - pos}
<1>5. S \in SUBSET Nat /\ S # {} /\ \A x \in S : x > 0
  BY <1>1, <1>2, SizeNat, DiskAssumption
<1>6. Chunk \in S /\ \A x \in S : Chunk <= x
  BY <1>5, MinOfThree DEF Chunk
<1> QED BY <1>2, <1>3, <1>4, <1>5, <1>6

(* Storing a patched sector changes the bytes from pos on, by the next     *)
(* bytes of the data, and no other.                                        *)
LEMMA StoredBytes ==
  ASSUME Types, Loaded, Ended, call.pc = "store"
  PROVE  /\ Stored \in [Addr -> Byte]
         /\ \A a \in Addr : Stored[a] = IF a >= pos /\ a < pos + Chunk
                                         THEN call.data[call.done + (a - pos) + 1] ELSE disk[a]
<1>1. More /\ call.op = "write" /\ call.sector = Sector /\ Len(call.data) = call.len
  BY DEF Loaded, Ended
<1>2. call.data \in Seq(Byte) /\ call.done \in Nat /\ call.len \in Nat /\ pos \in Nat
  BY SizeNat, DiskAssumption DEF Types, CallType
<1> DEFINE base == lba * block_size
<1>3. /\ lba \in Nat /\ off \in 0 .. block_size - 1 /\ pos = base + off
      /\ base \in Nat /\ base + block_size <= size /\ Chunk \in Nat /\ Chunk > 0
      /\ Chunk <= block_size - off /\ Chunk <= call.len - call.done
  BY <1>1, ChunkFacts
<1> HIDE DEF base
<1>4. ASSUME NEW a \in Addr
      PROVE  Stored[a] = IF a >= pos /\ a < pos + Chunk
                         THEN call.data[call.done + (a - pos) + 1] ELSE disk[a]
  <2>1. a \in Nat
    BY SizeNat DEF Addr
  <2>2. /\ a \div block_size = lba <=> base <= a /\ a < base + block_size
        /\ a % block_size \in 0 .. block_size - 1
        /\ a = ((a \div block_size) * block_size) + (a % block_size)
    BY <2>1, <1>3, DivUnique, DivMod, DiskAssumption DEF base
  <2>3. CASE a \div block_size = lba
    <3> DEFINE i == (a % block_size) + 1
    <3>1. i \in 1 .. block_size /\ a = base + i - 1
      BY <2>2, <2>3, <1>3, DiskAssumption DEF base
    <3>2. Stored[a] = Patched(call.sector)[i]
      BY <2>3 DEF Stored
    <3> HIDE DEF i
    <3>3. Patched(call.sector)[i] = IF i > off /\ i <= off + Chunk
                                    THEN call.data[call.done + i - off] ELSE call.sector[i]
      BY <3>1 DEF Patched
    <3>4. call.sector[i] = disk[a]
      BY <1>1, <3>1 DEF Sector, base
    <3>5. i > off /\ i <= off + Chunk <=> a >= pos /\ a < pos + Chunk
      BY <3>1, <1>3, <2>1, DiskAssumption
    <3>6. call.done + i - off = call.done + (a - pos) + 1
      BY <3>1, <1>2, <1>3, <2>1, DiskAssumption
    <3> QED BY <3>2, <3>3, <3>4, <3>5, <3>6
  <2>4. CASE a \div block_size # lba
    <3>1. Stored[a] = disk[a]
      BY <2>4 DEF Stored
    <3>2. ~(a >= pos /\ a < pos + Chunk)
      BY <2>1, <2>2, <2>4, <1>3, DiskAssumption
    <3> QED BY <3>1, <3>2
  <2> QED BY <2>3, <2>4
<1>5. ASSUME NEW a \in Addr PROVE Stored[a] \in Byte
  <2>1. disk[a] \in Byte
    BY DEF Types, Disk
  <2>2. ASSUME a >= pos, a < pos + Chunk PROVE call.data[call.done + (a - pos) + 1] \in Byte
    <3>1. a \in Nat
      BY SizeNat DEF Addr
    <3>2. call.done + (a - pos) + 1 \in 1 .. Len(call.data)
      BY <2>2, <3>1, <1>1, <1>2, <1>3
    <3> QED BY <3>2, <1>2
  <2> QED BY <1>4, <2>1, <2>2
<1> QED BY <1>4, <1>5 DEF Stored

(* The sector at pos is a sequence of block_size bytes.                    *)
LEMMA SectorSeq ==
  ASSUME Types, More
  PROVE  Sector \in Seq(Byte) /\ Len(Sector) = block_size
<1> DEFINE base == lba * block_size
<1>1. base \in Nat /\ base + block_size <= size
  BY ChunkFacts
<1>2. Sector = [i \in 1 .. block_size |-> disk[base + i - 1]]
  BY DEF Sector
<1> HIDE DEF base
<1>3. ASSUME NEW i \in 1 .. block_size PROVE disk[base + i - 1] \in Byte
  <2>1. base + i - 1 \in Addr
    BY <1>1, SizeNat, DiskAssumption DEF Addr
  <2> QED BY <2>1 DEF Types, Disk
<1>4. Sector \in [1 .. block_size -> Byte]
  BY <1>2, <1>3
<1> QED BY <1>4, DiskAssumption

(* A slice of the sector at pos is the next bytes of the disk.             *)
LEMMA SliceBytes ==
  ASSUME Types, More
  PROVE  /\ Slice(Sector) \in Seq(Byte) /\ Len(Slice(Sector)) = Chunk
         /\ \A i \in 1 .. Chunk : Slice(Sector)[i] = disk[pos + i - 1]
<1> DEFINE base == lba * block_size
<1>1. /\ lba \in Nat /\ off \in 0 .. block_size - 1 /\ pos = base + off
      /\ base \in Nat /\ base + block_size <= size /\ Chunk \in Nat /\ Chunk > 0
      /\ Chunk <= block_size - off
  BY ChunkFacts
<1>2. Sector = [i \in 1 .. block_size |-> disk[base + i - 1]]
  BY DEF Sector
<1> HIDE DEF base
<1>3. Sector \in Seq(Byte) /\ Len(Sector) = block_size
  BY SectorSeq
<1>4. off + 1 \in Nat /\ off + Chunk \in Nat /\ off + Chunk <= Len(Sector) /\ 1 <= off + 1
  BY <1>1, <1>3, DiskAssumption
<1>5. /\ SubSeq(Sector, off + 1, off + Chunk) \in Seq(Byte)
      /\ Len(SubSeq(Sector, off + 1, off + Chunk)) = Chunk
      /\ \A i \in 1 .. Chunk : SubSeq(Sector, off + 1, off + Chunk)[i] = Sector[off + i]
  BY <1>1, <1>3, <1>4, DiskAssumption
<1>6. ASSUME NEW i \in 1 .. Chunk PROVE Sector[off + i] = disk[pos + i - 1]
  <2>1. off + i \in 1 .. block_size /\ base + (off + i) - 1 = pos + i - 1
    BY <1>1, DiskAssumption
  <2> QED BY <1>2, <2>1
<1> QED BY <1>5, <1>6 DEF Slice

(* So a store extends the prefix that has been written by one chunk.       *)
LEMMA StoredOverlay ==
  ASSUME DiskInv, call.pc = "store"
  PROVE  pos = call.from + call.done /\ Stored = Overlay(call.before, call.done + Chunk)
<1>1. /\ call.op = "write" /\ More /\ pos = call.from + call.done
      /\ disk = Overlay(call.before, call.done)
  BY DEF DiskInv, Loaded, WriteIsPrefix
<1>2. call.from \in Nat /\ call.done \in Nat /\ Chunk \in Nat
  BY <1>1, ChunkFacts, SizeNat, DiskAssumption DEF DiskInv, Types, CallType
<1>3. ASSUME NEW a \in Addr PROVE Stored[a] = Overlay(call.before, call.done + Chunk)[a]
  <2>1. a \in Nat
    BY SizeNat DEF Addr
  <2>2. Stored[a] = IF a >= pos /\ a < pos + Chunk
                    THEN call.data[call.done + (a - pos) + 1] ELSE disk[a]
    BY StoredBytes DEF DiskInv
  <2>3. disk[a] = IF a >= call.from /\ a < call.from + call.done
                  THEN call.data[a - call.from + 1] ELSE call.before[a]
    BY <1>1 DEF Overlay
  <2>4. Overlay(call.before, call.done + Chunk)[a] =
          IF a >= call.from /\ a < call.from + (call.done + Chunk)
          THEN call.data[a - call.from + 1] ELSE call.before[a]
    BY DEF Overlay
  <2>5. call.done + (a - pos) + 1 = a - call.from + 1
    BY <1>1, <1>2, <2>1
  <2> QED BY <1>1, <1>2, <2>1, <2>2, <2>3, <2>4, <2>5
<1> QED BY <1>1, <1>3 DEF Stored, Overlay

(* A caller's buffer is a sequence of at most MaxBuf bytes.                *)
LEMMA BufferIsSeq ==
  ASSUME NEW data \in Buffers
  PROVE  data \in Seq(Byte) /\ Len(data) \in 0 .. MaxBuf
<1>1. PICK n \in 0 .. MaxBuf : data \in [1 .. n -> Byte]
  BY DEF Buffers
<1>2. n \in Nat
  BY DiskAssumption
<1> QED BY <1>1, <1>2

-----------------------------------------------------------------------------
(* The invariant holds when the adapter is created.                        *)
LEMMA DiskInit == Init => DiskInv
<1> SUFFICES ASSUME Init PROVE DiskInv
  OBVIOUS
<1>1. /\ disk \in Disk /\ pos = 0
      /\ call = [pc |-> "ok", op |-> "seek", len |-> 0, data |-> <<>>, from |-> 0,
                 before |-> disk, done |-> 0, out |-> <<>>, sector |-> <<>>]
  BY DEF Init, Call
<1>2. Types
  BY <1>1, SizeNat, DiskAssumption DEF Types, CallType
<1> QED BY <1>1, <1>2 DEF DiskInv, Loaded, Ended, WriteIsPrefix, ReadSeesDisk, Returned

(* A read, a write or a seek begins.                                       *)
LEMMA BeginInv ==
  ASSUME DiskInv, read \/ write \/ seek
  PROVE  DiskInv'
<1>1. CASE read
  <2>1. PICK n \in 0 .. MaxBuf : call' = Call("read", n, <<>>)
    BY <1>1 DEF read
  <2>2. disk' = disk /\ pos' = pos
    BY <1>1 DEF read
  <2>3. /\ call'.pc = "loop" /\ call'.op = "read" /\ call'.len = n /\ call'.done = 0
        /\ call'.from = pos /\ call'.before = disk /\ call'.out = <<>> /\ call' \in CallType
    BY <2>1, DiskAssumption DEF Call, CallType, DiskInv, Types
  <2>4. Types' /\ Loaded' /\ Ended' /\ WriteIsPrefix'
    BY <2>2, <2>3, SizeNat DEF DiskInv, Types, Loaded, Ended, WriteIsPrefix, CallType, Disk, Addr
  <2>5. ReadSeesDisk'
    <3>1. call'.out = [i \in 1 .. 0 |-> disk'[call'.from + i - 1]]
      BY <2>3
    <3> QED BY <2>2, <2>3, <3>1, SizeNat DEF ReadSeesDisk, DiskInv, Types
  <2> QED BY <2>4, <2>5 DEF DiskInv
<1>2. CASE write
  <2>1. PICK data \in Buffers : call' = Call("write", Len(data), data)
    BY <1>2 DEF write
  <2>2. disk' = disk /\ pos' = pos
    BY <1>2 DEF write
  <2>3. data \in Seq(Byte) /\ Len(data) \in 0 .. MaxBuf
    BY BufferIsSeq
  <2>4. /\ call'.pc = "loop" /\ call'.op = "write" /\ call'.len = Len(data) /\ call'.done = 0
        /\ call'.data = data /\ call'.from = pos /\ call'.before = disk /\ call' \in CallType
    BY <2>1, <2>3, DiskAssumption DEF Call, CallType, DiskInv, Types
  <2>5. Types' /\ Loaded' /\ Ended' /\ ReadSeesDisk'
    BY <2>2, <2>3, <2>4, SizeNat DEF DiskInv, Types, Loaded, Ended, ReadSeesDisk, CallType, Disk, Addr
  <2>6. WriteIsPrefix'
    <3>1. Overlay(call.before, 0)' = disk
      <4>1. ASSUME NEW a \in Addr PROVE ~(a >= pos /\ a < pos + 0)
        BY SizeNat DEF Addr, DiskInv, Types
      <4>2. Overlay(call.before, 0)' = [a \in Addr |-> disk[a]]
        BY <2>4, <4>1 DEF Overlay
      <4> QED BY <4>2 DEF DiskInv, Types, Disk
    <3> QED BY <2>2, <2>4, <3>1, SizeNat DEF WriteIsPrefix, DiskInv, Types
  <2> QED BY <2>5, <2>6 DEF DiskInv
<1>3. CASE seek
  <2>1. /\ disk' = disk /\ call'.op = "seek" /\ call'.pc \in {"ok", "err"}
        /\ call'.done = 0 /\ call'.len = 0 /\ call' \in CallType
    <3>1. disk' = disk /\ \E s \in {"ok", "err"} : call' = [Call("seek", 0, <<>>) EXCEPT !.pc = s]
      BY <1>3 DEF seek
    <3>2. PICK s \in {"ok", "err"} :
            call' = [pc |-> s, op |-> "seek", len |-> 0, data |-> <<>>, from |-> pos,
                     before |-> disk, done |-> 0, out |-> <<>>, sector |-> <<>>]
      BY <3>1 DEF Call
    <3>3. /\ <<>> \in Seq(Byte) /\ 0 \in 0 .. MaxBuf /\ pos \in 0 .. size /\ disk \in Disk
          /\ s \in {"loop", "store", "ok", "err"}
      BY DiskAssumption DEF DiskInv, Types
    <3>4. call' \in CallType
      BY <3>2, <3>3 DEF CallType
    <3> QED BY <3>1, <3>2, <3>4
  <2>2. pos' \in 0 .. size
    <3>1. PICK base \in {0, pos, size}, offset \in -MaxBuf .. MaxBuf :
            (base + offset >= 0 /\ SeekTo(base + offset)) \/ pos' = pos
      BY <1>3 DEF seek
    <3>2. base + offset \in Int
      BY SizeNat, DiskAssumption DEF DiskInv, Types
    <3>3. CASE base + offset >= 0 /\ SeekTo(base + offset)
      <4>1. {base + offset, size} \in SUBSET Nat
        BY <3>2, <3>3, SizeNat
      <4>2. /\ Min({base + offset, size}) \in {base + offset, size}
            /\ \A y \in {base + offset, size} : Min({base + offset, size}) <= y
        BY <4>1, MinOfTwo
      <4> QED BY <3>3, <4>1, <4>2, SizeNat DEF SeekTo
    <3> QED BY <3>1, <3>3 DEF DiskInv, Types
  <2> QED
    BY <2>1, <2>2, SizeNat DEF DiskInv, Types, Loaded, Ended, WriteIsPrefix, ReadSeesDisk, Returned, CallType, Disk, Addr
<1> QED BY <1>1, <1>2, <1>3

(* A sector call fails: nothing moves, and a store may have been done.     *)
LEMMA FailInv ==
  ASSUME DiskInv, Fail, call.pc \in {"loop", "store"}, More,
         disk' = disk \/ (call.pc = "store" /\ disk' = Stored)
  PROVE  DiskInv'
<1>1. /\ call' = [call EXCEPT !.pc = "err"] /\ pos' = pos
  BY DEF Fail
<1>2. /\ call' \in CallType /\ call'.pc = "err"
      /\ call'.op = call.op /\ call'.len = call.len /\ call'.data = call.data
      /\ call'.from = call.from /\ call'.before = call.before /\ call'.done = call.done
      /\ call'.out = call.out
  BY <1>1 DEF DiskInv, Types, CallType
<1>3. disk' \in Disk
  BY StoredBytes DEF DiskInv, Types, Disk
<1>4. Types' /\ Loaded' /\ Ended'
  BY <1>1, <1>2, <1>3 DEF DiskInv, Types, Loaded, Ended, CallType, Disk, Addr, Returned
<1>5. More' /\ Chunk' = Chunk
  BY <1>1, <1>2 DEF More, Chunk, off
<1>6. CASE disk' = disk
  <2>1. ReadSeesDisk'
    BY <1>1, <1>2, <1>6 DEF DiskInv, ReadSeesDisk
  <2>2. WriteIsPrefix'
    <3> SUFFICES ASSUME call.op = "write" PROVE WriteIsPrefix'
      BY <1>2 DEF WriteIsPrefix
    <3>1. pos = call.from + call.done /\ disk = Overlay(call.before, call.done)
      BY DEF DiskInv, WriteIsPrefix
    <3>2. disk' = Overlay(call.before, call.done)'
      BY <3>1, <1>2, <1>6 DEF Overlay
    <3> QED BY <3>1, <3>2, <1>1, <1>2 DEF WriteIsPrefix
  <2> QED BY <1>4, <2>1, <2>2 DEF DiskInv
<1>7. CASE call.pc = "store" /\ disk' = Stored
  <2>1. call.op = "write"
    BY <1>7 DEF DiskInv, Loaded
  <2>2. pos = call.from + call.done /\ Stored = Overlay(call.before, call.done + Chunk)
    BY <1>7, StoredOverlay DEF DiskInv
  <2>3. disk' = Overlay(call.before, call.done + Chunk)'
    BY <2>2, <1>2, <1>5, <1>7 DEF Overlay
  <2>4. ReadSeesDisk'
    BY <2>1, <1>2 DEF ReadSeesDisk
  <2>5. WriteIsPrefix'
    BY <2>2, <2>3, <1>1, <1>2, <1>5 DEF WriteIsPrefix
  <2> QED BY <1>4, <2>4, <2>5 DEF DiskInv
<1> QED BY <1>6, <1>7

(* A chunk has been moved.                                                 *)
LEMMA AdvanceFacts ==
  ASSUME Types, More, NEW out \in Seq(Byte), Advance(out)
  PROVE  /\ Chunk \in Nat /\ call.done \in Nat /\ call.from \in Nat /\ pos \in Nat
         /\ pos' = pos + Chunk /\ pos' \in 0 .. size
         /\ call' \in CallType /\ call'.done <= call'.len
         /\ call'.pc = "loop" /\ call'.op = call.op /\ call'.len = call.len
         /\ call'.data = call.data /\ call'.from = call.from /\ call'.before = call.before
         /\ call'.done = call.done + Chunk /\ call'.out = out
<1>1. /\ call \in CallType /\ call.len \in 0 .. MaxBuf /\ call.done \in 0 .. MaxBuf
      /\ call.from \in 0 .. size /\ pos \in 0 .. size /\ call.done <= call.len
  BY DEF Types, CallType
<1>2. Chunk \in Nat /\ Chunk <= call.len - call.done /\ Chunk <= size - pos
  BY ChunkFacts
<1>3. pos' = pos + Chunk /\ pos' \in 0 .. size
  BY <1>1, <1>2, SizeNat DEF Advance
<1>4. call.done + Chunk \in 0 .. MaxBuf /\ call.done + Chunk <= call.len
  BY <1>1, <1>2, DiskAssumption
<1>5. call' = [call EXCEPT !.pc = "loop", !.done = call.done + Chunk, !.out = out, !.sector = <<>>]
  BY DEF Advance
<1> DEFINE d == call.done + Chunk
<1>6. d \in 0 .. MaxBuf /\ d <= call.len
  BY <1>4
<1>7. call' = [call EXCEPT !.pc = "loop", !.done = d, !.out = out, !.sector = <<>>]
  BY <1>5
<1> HIDE DEF d
<1>8. /\ call'.pc = "loop" /\ call'.op = call.op /\ call'.len = call.len
      /\ call'.data = call.data /\ call'.from = call.from /\ call'.before = call.before
      /\ call'.done = d /\ call'.out = out
  BY <1>1, <1>7 DEF CallType
<1>9. <<>> \in Seq(Byte)
  OBVIOUS
<1>10. call' \in CallType
  BY <1>1, <1>6, <1>7, <1>9 DEF CallType
<1>11. d = call.done + Chunk
  BY DEF d
<1> QED BY <1>1, <1>2, <1>3, <1>6, <1>8, <1>10, <1>11, SizeNat, DiskAssumption

(* A sector call, or the end of the transfer loop.                         *)
LEMMA StepInv ==
  ASSUME DiskInv, Step
  PROVE  DiskInv'
<1>1. CASE ReadSector
  <2>1. call.pc = "loop" /\ call.op = "read" /\ More /\ disk' = disk
    BY <1>1 DEF ReadSector
  <2>2. CASE Fail
    BY <2>1, <2>2, FailInv
  <2>3. CASE Advance(call.out \o Slice(Sector))
    <3>1. /\ Slice(Sector) \in Seq(Byte) /\ Len(Slice(Sector)) = Chunk
          /\ \A i \in 1 .. Chunk : Slice(Sector)[i] = disk[pos + i - 1]
      BY <2>1, SliceBytes DEF DiskInv
    <3>2. /\ call.out = [i \in 1 .. call.done |-> disk[call.from + i - 1]]
          /\ disk = call.before /\ pos = call.from + call.done
      BY <2>1 DEF DiskInv, ReadSeesDisk
    <3> DEFINE out == call.out \o Slice(Sector)
    <3>3. call.out \in Seq(Byte)
      BY DEF DiskInv, Types, CallType
    <3>4. out \in Seq(Byte)
      BY <3>1, <3>3
    <3>5. /\ Chunk \in Nat /\ call.done \in Nat /\ call.from \in Nat /\ pos \in Nat
          /\ pos' = pos + Chunk /\ pos' \in 0 .. size
          /\ call' \in CallType /\ call'.done <= call'.len
          /\ call'.pc = "loop" /\ call'.op = "read" /\ call'.from = call.from
          /\ call'.before = call.before /\ call'.done = call.done + Chunk /\ call'.out = out
      BY <2>1, <2>3, <3>4, AdvanceFacts DEF DiskInv
    <3>6. Len(call.out) = call.done
      BY <3>2, <3>3, <3>5
    <3>7. /\ Len(out) = call.done + Chunk
          /\ \A i \in 1 .. call.done : out[i] = call.out[i]
          /\ \A i \in 1 .. Chunk : out[call.done + i] = Slice(Sector)[i]
      <4> DEFINE s == call.out
                 t == Slice(Sector)
                 m == call.done
                 n == Chunk
      <4>1. s \in Seq(Byte) /\ t \in Seq(Byte) /\ m \in Nat /\ n \in Nat /\ Len(s) = m /\ Len(t) = n
        BY <3>1, <3>3, <3>5, <3>6
      <4> HIDE DEF s, t, m, n
      <4>2. Len(s \o t) = m + n
        BY <4>1
      <4>3. \A i \in 1 .. m : (s \o t)[i] = s[i]
        BY <4>1
      <4>4. \A i \in 1 .. n : (s \o t)[m + i] = t[i]
        BY <4>1
      <4> QED BY <4>2, <4>3, <4>4 DEF s, t, m, n
    <3>8. ASSUME NEW i \in 1 .. call.done + Chunk
          PROVE  out[i] = disk[call.from + i - 1]
      <4> HIDE DEF out
      <4>1. CASE i \in 1 .. call.done
        BY <4>1, <3>2, <3>7
      <4>2. CASE ~(i \in 1 .. call.done)
        <5>1. call.done \in Nat /\ Chunk \in Nat /\ call.from \in Nat /\ pos = call.from + call.done
          BY <3>2, <3>5
        <5>2. PICK k \in 1 .. Chunk : i = call.done + k
          <6>1. i - call.done \in 1 .. Chunk /\ i = call.done + (i - call.done)
            BY <4>2, <5>1
          <6> QED BY <6>1
        <5>3. pos + k - 1 = call.from + i - 1
          BY <5>1, <5>2
        <5> QED BY <5>2, <5>3, <3>1, <3>7
      <4> QED BY <4>1, <4>2
    <3>9. out = [i \in 1 .. call.done + Chunk |-> out[i]]
      BY <3>4, <3>7
    <3> HIDE DEF out
    <3>10. out = [i \in 1 .. call.done + Chunk |-> disk[call.from + i - 1]]
      BY <3>8, <3>9
    <3>11. ReadSeesDisk'
      <4>1. pos' = call'.from + call'.done
        BY <3>2, <3>5
      <4> QED BY <2>1, <3>2, <3>5, <3>10, <4>1 DEF ReadSeesDisk
    <3>12. Types'
      BY <2>1, <3>5 DEF DiskInv, Types, Disk, Addr, CallType
    <3>13. Loaded' /\ WriteIsPrefix'
      BY <3>5 DEF Loaded, WriteIsPrefix
    <3>14. Ended'
      BY <3>5, <3>11 DEF Ended, ReadSeesDisk
    <3> QED BY <3>11, <3>12, <3>13, <3>14 DEF DiskInv
  <2> QED BY <1>1, <2>2, <2>3 DEF ReadSector
<1>2. CASE LoadSector
  <2>1. call.pc = "loop" /\ call.op = "write" /\ More /\ disk' = disk
    BY <1>2 DEF LoadSector
  <2>2. CASE Fail
    BY <2>1, <2>2, FailInv
  <2>3. CASE call' = [call EXCEPT !.pc = "store", !.sector = Sector] /\ pos' = pos
    <3>1. Sector \in Seq(Byte)
      BY <2>1, SectorSeq DEF DiskInv
    <3>2. /\ call' \in CallType /\ call'.pc = "store" /\ call'.sector = Sector
          /\ call'.op = call.op /\ call'.len = call.len /\ call'.data = call.data
          /\ call'.from = call.from /\ call'.before = call.before /\ call'.done = call.done
      BY <2>3, <3>1 DEF DiskInv, Types, CallType
    <3>3. More' /\ Sector' = Sector
      BY <2>1, <2>3, <3>2 DEF More, Sector, lba
    <3>4. Types' /\ Loaded' /\ Ended' /\ ReadSeesDisk'
      BY <2>1, <2>3, <3>2, <3>3
      DEF DiskInv, Types, Loaded, Ended, ReadSeesDisk, CallType, Disk, Addr
    <3>5. pos = call.from + call.done /\ disk = Overlay(call.before, call.done)
      BY <2>1 DEF DiskInv, WriteIsPrefix
    <3>6. disk' = Overlay(call.before, call.done)'
      BY <3>5, <3>2, <2>1 DEF Overlay
    <3>7. WriteIsPrefix'
      BY <2>3, <3>2, <3>5, <3>6 DEF WriteIsPrefix
    <3> QED BY <3>4, <3>7 DEF DiskInv
  <2> QED BY <1>2, <2>2, <2>3 DEF LoadSector
<1>3. CASE StoreSector
  <2>1. call.pc = "store" /\ call.op = "write" /\ More
    BY <1>3 DEF StoreSector, DiskInv, Loaded
  <2>2. CASE disk' \in {disk, Stored} /\ Fail
    BY <2>1, <2>2, FailInv
  <2>3. CASE disk' = Stored /\ Advance(<<>>)
    <3>1. disk' \in Disk
      BY <2>1, <2>3, StoredBytes DEF DiskInv, Disk
    <3>2. <<>> \in Seq(Byte)
      OBVIOUS
    <3>3. /\ Chunk \in Nat /\ call.done \in Nat /\ call.from \in Nat
          /\ pos' = pos + Chunk /\ pos' \in 0 .. size
          /\ call' \in CallType /\ call'.done <= call'.len
          /\ call'.pc = "loop" /\ call'.op = "write" /\ call'.len = call.len
          /\ call'.data = call.data /\ call'.from = call.from /\ call'.before = call.before
          /\ call'.done = call.done + Chunk
      BY <2>1, <2>3, <3>2, AdvanceFacts DEF DiskInv
    <3>4. pos = call.from + call.done /\ Stored = Overlay(call.before, call.done + Chunk)
      BY <2>1, StoredOverlay
    <3>5. pos' = call'.from + call'.done
      BY <3>3, <3>4
    <3>6. disk' = Overlay(call.before, call.done)'
      BY <2>3, <3>3, <3>4 DEF Overlay
    <3>7. WriteIsPrefix' /\ ReadSeesDisk' /\ Loaded'
      BY <3>3, <3>5, <3>6 DEF WriteIsPrefix, ReadSeesDisk, Loaded
    <3>8. Types'
      BY <3>1, <3>3 DEF Types, Disk, Addr, CallType
    <3>9. Ended'
      BY <2>1, <3>3, <3>5 DEF Ended, DiskInv
    <3> QED BY <3>7, <3>8, <3>9 DEF DiskInv
  <2> QED BY <1>3, <2>2, <2>3 DEF StoreSector
<1>4. CASE Return
  <2>1. call.pc = "loop" /\ ~More /\ disk' = disk /\ pos' = pos /\ call' = [call EXCEPT !.pc = "ok"]
    BY <1>4 DEF Return
  <2>2. /\ call' \in CallType /\ call'.pc = "ok"
        /\ call'.op = call.op /\ call'.len = call.len /\ call'.data = call.data
        /\ call'.from = call.from /\ call'.before = call.before /\ call'.done = call.done
        /\ call'.out = call.out
    BY <2>1 DEF DiskInv, Types, CallType
  <2>3. ~More'
    BY <2>1, <2>2 DEF More
  <2>4. Types' /\ Loaded' /\ Ended' /\ ReadSeesDisk'
    BY <2>1, <2>2, <2>3
    DEF DiskInv, Types, Loaded, Ended, ReadSeesDisk, CallType, Disk, Addr, Returned
  <2>5. Overlay(call.before, call.done)' = Overlay(call.before, call.done)
    BY <2>2 DEF Overlay
  <2>6. WriteIsPrefix'
    BY <2>1, <2>2, <2>5 DEF DiskInv, WriteIsPrefix
  <2> QED BY <2>4, <2>6 DEF DiskInv
<1> QED BY <1>1, <1>2, <1>3, <1>4 DEF Step

(* Every step keeps the invariant.                                         *)
LEMMA DiskNext == DiskInv /\ [Next]_vars => DiskInv'
<1> SUFFICES ASSUME DiskInv, [Next]_vars PROVE DiskInv'
  OBVIOUS
<1>1. CASE read \/ write \/ seek
  BY <1>1, BeginInv
<1>2. CASE Step
  BY <1>2, StepInv
<1>3. CASE UNCHANGED vars
  BY <1>3 DEF vars, DiskInv, Types, Loaded, Ended, WriteIsPrefix, ReadSeesDisk, Returned,
              More, Sector, Overlay, Chunk, off, lba
<1> QED BY <1>1, <1>2, <1>3 DEF Next

-----------------------------------------------------------------------------
(* The inductive invariant of read, write and seek holds whatever sector   *)
(* calls fail.                                                             *)
THEOREM DiskCorrect == Spec => []DiskInv
  BY DiskInit, DiskNext, PTL DEF Spec

(* The position stays on the disk and a call never moves more bytes than   *)
(* its buffer holds.                                                       *)
THEOREM DiskTypes == Spec => []TypeOK
<1>1. DiskInv => TypeOK
  BY DEF DiskInv, Types, CallType, TypeOK
<1> QED BY <1>1, DiskCorrect, PTL

(* At every step of write, and after it, failed or not, the disk has       *)
(* changed by a prefix of the data at the position where the call began.   *)
THEOREM WriteTheorem == Spec => []WriteIsPrefix
<1>1. DiskInv => WriteIsPrefix
  BY DEF DiskInv
<1> QED BY <1>1, DiskCorrect, PTL

(* What read has returned is what the disk holds there.                    *)
THEOREM ReadTheorem == Spec => []ReadSeesDisk
<1>1. DiskInv => ReadSeesDisk
  BY DEF DiskInv
<1> QED BY <1>1, DiskCorrect, PTL

(* A read or write that returns Ok is short only at the end of the disk.   *)
THEOREM ShortTheorem == Spec => []ShortOnlyAtEnd
<1>1. DiskInv => ShortOnlyAtEnd
  <2> SUFFICES ASSUME DiskInv, call.pc = "ok", call.op # "seek"
               PROVE  call.done = Min({call.len, size - call.from})
    BY DEF ShortOnlyAtEnd
  <2>1. /\ call.done \in Nat /\ call.len \in Nat /\ call.from \in Nat /\ size \in Nat
        /\ call.done <= call.len /\ call.from <= size /\ pos <= size
        /\ pos = call.from + call.done /\ ~(call.done < call.len /\ pos < size)
    BY SizeNat, DiskAssumption DEF DiskInv, Types, CallType, Ended, More
  <2>2. {call.len, size - call.from} \in SUBSET Nat
    BY <2>1
  <2>3. /\ Min({call.len, size - call.from}) \in {call.len, size - call.from}
        /\ \A y \in {call.len, size - call.from} : Min({call.len, size - call.from}) <= y
    BY <2>2, MinOfTwo
  <2> QED BY <2>1, <2>3
<1> QED BY <1>1, DiskCorrect, PTL
=============================================================================

----------------------------- MODULE BlkRequest -----------------------------
(***************************************************************************)
(* What the block server does with one request: the receive into its one   *)
(* reused buffer, the checks of the header, the backend, the reply.        *)
(*                                                                         *)
(* A request is a record: op, len (of the message), tag, sector, bytes,    *)
(* data (what follows the header) and cap (the reply capability or NoCap). *)
(* A message shorter than a full header has no data, and its other fields  *)
(* are whatever the buffer held.                                           *)
(***************************************************************************)
EXTENDS Integers, Sequences, FiniteSetsExt

CONSTANTS SECTOR_SIZE, MAX_IO_BYTES, BLOCK_COUNT,
          usize_max,       \* the largest value of usize
          Byte, NoCap

ASSUME BlkAssumption ==
  /\ SECTOR_SIZE \in Nat \ {0} /\ BLOCK_COUNT \in Nat \ {0}
  /\ MAX_IO_BYTES \in Nat /\ MAX_IO_BYTES >= SECTOR_SIZE + 4
  /\ usize_max \in Nat /\ usize_max > SECTOR_SIZE * BLOCK_COUNT

TAGGED_HDR_LEN == 6
RW_HDR_LEN == 14
RW_TAGGED_HDR_LEN == 18
REQ_BUF_LEN == 2 + 8 + 4 + MAX_IO_BYTES

(* The data bytes of a tagged request that req_buf has room for.           *)
Room == REQ_BUF_LEN - RW_TAGGED_HDR_LEN

capacity == SECTOR_SIZE * BLOCK_COUNT
Addr == 0 .. capacity - 1
Disk == [Addr -> Byte]
Buffer == [1 .. Room -> Byte]

(* The kernel copies what fits; the rest of the buffer keeps the bytes of  *)
(* earlier requests.                                                       *)
Received(m, buf) ==
  [m EXCEPT !.len = Min({m.len, REQ_BUF_LEN}),
            !.data = [i \in 1 .. Room |-> IF i <= Len(m.data) THEN m.data[i] ELSE buf[i]]]

-----------------------------------------------------------------------------
tagged(r) == r.len >= TAGGED_HDR_LEN
rw_hdr_len(r) == IF tagged(r) THEN RW_TAGGED_HDR_LEN ELSE RW_HDR_LEN

ReadValid(r) ==
  r.len >= rw_hdr_len(r) /\ r.bytes \in 1 .. MAX_IO_BYTES /\ r.bytes % SECTOR_SIZE = 0

WriteValid(r) == ReadValid(r) /\ r.len >= rw_hdr_len(r) + r.bytes

saturating_mul(a, b) == Min({a * b, usize_max})
saturating_add(a, b) == Min({a + b, usize_max})

start(r) == saturating_mul(r.sector, SECTOR_SIZE)

(* The mock backend checks its bounds so; a device refuses what it does    *)
(* not have.                                                               *)
InRange(r) == saturating_add(start(r), r.bytes) <= capacity

ReadBlocks(d, r) == [i \in 1 .. r.bytes |-> d[start(r) + i - 1]]
WriteBlocks(d, r) ==
  [a \in Addr |-> IF a >= start(r) /\ a < start(r) + r.bytes
                  THEN r.data[a - start(r) + 1] ELSE d[a]]

-----------------------------------------------------------------------------
Status(s) == [status |-> s, data |-> <<>>]
Answer(d, reply) == [disk |-> d, reply |-> reply]

(* A real device may fail; the mock backend does all that is in range.     *)
Failures(mock, disks) == IF mock THEN {} ELSE {Answer(e, Status("EIO")) : e \in disks}

(* The outcomes of a request: the disk afterwards and the reply.  A write  *)
(* that fails on a device may have been done.                              *)
Outcomes(r, d, mock) ==
  CASE r.op = "PING" -> {Answer(d, Status("PONG"))}
    [] r.op = "GET_INFO" -> {Answer(d, Status("INFO"))}
    [] r.op = "READ" /\ ReadValid(r) /\ InRange(r) ->
         {Answer(d, [status |-> "DATA", data |-> ReadBlocks(d, r)])} \cup Failures(mock, {d})
    [] r.op = "WRITE" /\ WriteValid(r) /\ InRange(r) ->
         {Answer(WriteBlocks(d, r), Status("OK"))}
           \cup Failures(mock, {d, WriteBlocks(d, r)})
    [] \/ r.op = "READ" /\ ReadValid(r) /\ ~InRange(r)
       \/ r.op = "WRITE" /\ WriteValid(r) /\ ~InRange(r) -> {Answer(d, Status("EIO"))}
    [] r.op = "FLUSH" -> {Answer(d, Status("OK"))} \cup Failures(mock, {d})
    [] OTHER -> {Answer(d, Status("EINVAL"))}
=============================================================================

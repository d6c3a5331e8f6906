----------------------------- MODULE BlkProofs ------------------------------
(***************************************************************************)
(* Proofs about BlkChannel, for any number of block servers, clients,      *)
(* tries and calls and any size of the disk: requests are carried out at   *)
(* most once and in order, each client whose capability arrived has its    *)
(* request in the queue of fs, and the sectors are registers.              *)
(*                                                                         *)
(* The invariant says where requests may be: at the one server whose       *)
(* handle fs has cached, in the order of their tags, younger than the last *)
(* one carried out.  So when the answer to the call in progress arrives,   *)
(* nothing older is left that could still change the disk.                 *)
(***************************************************************************)
EXTENDS BlkChannel, TLAPS


-----------------------------------------------------------------------------
(* The inductive invariant *)

ReqType(Data) ==
  [op : {"READ", "WRITE", "other"}, len : Nat, tag : Nat, sector : Nat, bytes : Nat,
   cap : {LocalEndpoint, NoCap}, data : Data]
Requests == ReqType(Seq(Byte))
ReplyType == [status : {"OK", "EIO", "DATA", ""}, data : Seq(Byte)]
MsgType ==
  [kind : {"lookup", "client", "answer"}, tag : Nat, reply : ReplyType,
   cap : {NoCap} \cup Servers \cup Clients]
CallType ==
  [pc : {"idle", "lookup", "answer", "send", "wait"}, ok : BOOLEAN, op : {"READ", "WRITE"},
   sector : Sectors, byte : Byte, id : Nat, tries : Nat]

ChannelType ==
  /\ disk \in Disk /\ started \in 0 .. MaxServers /\ running \subseteq 1 .. started
  /\ srv \in [Servers -> ReqType(Buffer)] /\ blkq \in [Servers -> Seq(Requests)] /\ fsq \in Seq(MsgType)
  /\ lookups \in Nat /\ BLK_REQ_ID \in Nat /\ call \in CallType /\ executed \in Nat
  /\ BLK_SERVICE_HANDLE \in 0 .. VirtioBlkEndpoint
  /\ asks \in Nat /\ waiting \subseteq Clients

(* fs leaves the handle that it has cached no more.                        *)
HandleInv ==
  /\ BLK_SERVICE_HANDLE \in Servers => BLK_SERVICE_HANDLE <= started
  /\ call.pc \in {"lookup", "answer"} => BLK_SERVICE_HANDLE = 0
  /\ call.pc \in {"send", "wait"} => BLK_SERVICE_HANDLE # 0
  /\ BLK_REQ_ID = call.id + 1

(* What fs sends: a whole request for one sector.                          *)
WellFormed(r) ==
  /\ r.sector \in Sectors /\ r.bytes = SECTOR_SIZE
  /\ r.len = RW_TAGGED_HDR_LEN + (IF r.op = "WRITE" THEN SECTOR_SIZE ELSE 0)
  /\ r.op = "WRITE" => Len(r.data) = SECTOR_SIZE

(* The request of the call in progress, or of the last one.                *)
OfCall(r) ==
  /\ call.pc \in {"wait", "idle"} /\ r.op = call.op /\ r.sector = call.sector
  /\ r.op = "WRITE" => r.data[1] = call.byte

(* Requests wait at the one server fs knows only; none has been carried    *)
(* out.                                                                    *)
QueueInv ==
  \A k \in Servers : \A i \in DOMAIN blkq[k] :
    LET r == blkq[k][i]
    IN /\ r.op = "other" => r.cap = NoCap
       /\ r.op # "other" =>
            /\ WellFormed(r) /\ k = BLK_SERVICE_HANDLE
            /\ executed < r.tag /\ r.tag <= call.id
            /\ r.tag = call.id => OfCall(r)

OrderInv ==
  \A k \in Servers : \A i, j \in DOMAIN blkq[k] :
    i < j /\ blkq[k][i].op # "other" /\ blkq[k][j].op # "other" => blkq[k][i].tag < blkq[k][j].tag

ExecutedInv ==
  executed <= call.id /\ (call.pc \in {"lookup", "answer", "send"} => executed < call.id)

(* What a reply to the call in progress says is what the disk holds.       *)
Right(reply) ==
  /\ call.op = "READ" /\ reply.status = "DATA" => reply.data[1] = disk[call.sector * SECTOR_SIZE]
  /\ call.op = "WRITE" /\ reply.status = "OK" => disk[call.sector * SECTOR_SIZE] = call.byte

AnswersInv ==
  \A i \in DOMAIN fsq :
    LET m == fsq[i]
    IN /\ m.kind = "lookup" => m.cap \in {NoCap} \cup 1 .. started
       /\ m.kind = "answer" => /\ m.cap = NoCap /\ m.tag <= executed
                               /\ m.tag = call.id /\ call.pc = "wait" => Right(m.reply)

(* Each client that waits has one message in the queue, but the one whose  *)
(* message the lookup consumed.                                            *)
ClientInv ==
  /\ \A i \in DOMAIN fsq : fsq[i].cap \in Clients => fsq[i].cap \in waiting \ lost
  /\ \A i, j \in DOMAIN fsq : fsq[i].cap \in Clients /\ fsq[i].cap = fsq[j].cap => i = j
  /\ \A c \in waiting \ lost : \E i \in DOMAIN fsq : fsq[i].cap = c
  /\ lost \subseteq waiting /\ \A x, y \in lost : x = y
  /\ BLK_SERVICE_HANDLE = 0 => lost = {}

ChannelInv ==
  /\ ChannelType /\ HandleInv /\ QueueInv /\ OrderInv /\ ExecutedInv /\ AnswersInv /\ ClientInv

-----------------------------------------------------------------------------
(* Arithmetic of sectors *)

LEMMA MinOfTwo ==
  ASSUME NEW a \in Int, NEW b \in Int
  PROVE  Min({a, b}) = IF a <= b THEN a ELSE b
<1> DEFINE m == IF a <= b THEN a ELSE b
<1>1. m \in {a, b} /\ \A y \in {a, b} : m <= y
  OBVIOUS
<1>2. \A x \in {a, b} : (\A y \in {a, b} : x <= y) => x = m
  OBVIOUS
<1> HIDE DEF m
<1>3. Min({a, b}) = CHOOSE x \in {a, b} : \A y \in {a, b} : x <= y
  BY DEF Min
<1>4. Min({a, b}) = m
  BY <1>1, <1>2, <1>3
<1> QED BY <1>4 DEF m

(* A sector lies on the disk, and shares no byte with another.             *)
LEMMA SectorPlaces ==
  ASSUME BlkAssumption, NEW s \in Sectors
  PROVE  /\ s * SECTOR_SIZE \in Nat /\ s * SECTOR_SIZE \in Addr
         /\ s * SECTOR_SIZE + SECTOR_SIZE <= capacity
         /\ s * SECTOR_SIZE <= usize_max /\ s * SECTOR_SIZE + SECTOR_SIZE <= usize_max
         /\ capacity \in Nat
         /\ \A t \in Sectors :
              t * SECTOR_SIZE >= s * SECTOR_SIZE /\ t * SECTOR_SIZE < s * SECTOR_SIZE + SECTOR_SIZE
                => t = s
<1>1. SECTOR_SIZE \in Nat /\ SECTOR_SIZE >= 1 /\ BLOCK_COUNT \in Nat /\ BLOCK_COUNT >= 1
      /\ s \in Nat /\ s + 1 <= BLOCK_COUNT /\ usize_max \in Nat /\ usize_max > SECTOR_SIZE * BLOCK_COUNT
  BY DEF BlkAssumption, Sectors
<1>2. \A a, b, c \in Nat : a <= b => a * c <= b * c
  OBVIOUS
<1>3. \A a, c \in Nat : a * c \in Nat /\ (a + 1) * c = a * c + c /\ a * c = c * a
  OBVIOUS
<1>4. (s + 1) * SECTOR_SIZE <= BLOCK_COUNT * SECTOR_SIZE
  BY <1>1, <1>2
<1>5. s * SECTOR_SIZE + SECTOR_SIZE <= capacity /\ s * SECTOR_SIZE \in Nat /\ capacity \in Nat
      /\ usize_max > capacity
  BY <1>1, <1>3, <1>4 DEF capacity
<1>6. s * SECTOR_SIZE \in Addr
  BY <1>1, <1>5 DEF Addr
<1>7. ASSUME NEW t \in Sectors, t * SECTOR_SIZE >= s * SECTOR_SIZE,
             t * SECTOR_SIZE < s * SECTOR_SIZE + SECTOR_SIZE
      PROVE  t = s
  <2>0. t \in Nat /\ t * SECTOR_SIZE \in Nat
    BY <1>1, <1>3 DEF Sectors
  <2>1. CASE t < s
    <3>1. (t + 1) * SECTOR_SIZE <= s * SECTOR_SIZE
      BY <1>1, <1>2, <2>0, <2>1
    <3>2. (t + 1) * SECTOR_SIZE = t * SECTOR_SIZE + SECTOR_SIZE
      BY <1>1, <1>3, <2>0
    <3> QED BY <1>1, <1>5, <1>7, <2>0, <3>1, <3>2
  <2>2. CASE t > s
    <3>1. (s + 1) * SECTOR_SIZE <= t * SECTOR_SIZE
      BY <1>1, <1>2, <2>0, <2>2
    <3>2. (s + 1) * SECTOR_SIZE = s * SECTOR_SIZE + SECTOR_SIZE
      BY <1>1, <1>3
    <3> QED BY <1>1, <1>5, <1>7, <2>0, <3>1, <3>2
  <2> QED BY <1>1, <2>0, <2>1, <2>2
<1> QED BY <1>1, <1>5, <1>6, <1>7

-----------------------------------------------------------------------------
(* What the server makes of a request of fs *)

LEMMA BufferSizes ==
  ASSUME BlkAssumption
  PROVE  /\ Room \in Nat /\ Room >= SECTOR_SIZE /\ SECTOR_SIZE \in Nat /\ SECTOR_SIZE >= 1
         /\ REQ_BUF_LEN \in Nat /\ REQ_BUF_LEN >= RW_TAGGED_HDR_LEN + SECTOR_SIZE
         /\ RW_TAGGED_HDR_LEN = 18 /\ MAX_IO_BYTES \in Nat /\ MAX_IO_BYTES >= SECTOR_SIZE
  BY DEF BlkAssumption, Room, REQ_BUF_LEN, RW_TAGGED_HDR_LEN

(* The whole request fits the buffer of the server.                        *)
LEMMA ReceivedParts ==
  ASSUME BlkAssumption, NEW m \in Requests, NEW buf \in Buffer
  PROVE  /\ Received(m, buf) \in ReqType(Buffer)
         /\ Received(m, buf).op = m.op /\ Received(m, buf).tag = m.tag
         /\ Received(m, buf).sector = m.sector /\ Received(m, buf).bytes = m.bytes
         /\ Received(m, buf).cap = m.cap
         /\ m.len <= REQ_BUF_LEN => Received(m, buf).len = m.len
         /\ \A i \in 1 .. Room : i <= Len(m.data) => Received(m, buf).data[i] = m.data[i]
<1> DEFINE d == [i \in 1 .. Room |-> IF i <= Len(m.data) THEN m.data[i] ELSE buf[i]]
           n == Min({m.len, REQ_BUF_LEN})
<1>1. m \in ReqType(Seq(Byte)) /\ m.len \in Nat /\ m.data \in Seq(Byte)
  BY DEF Requests, ReqType
<1>2. n \in Nat /\ (m.len <= REQ_BUF_LEN => n = m.len)
  <2>1. m.len \in Int /\ REQ_BUF_LEN \in Int /\ REQ_BUF_LEN \in Nat
    BY <1>1, BufferSizes
  <2> QED BY <1>1, <2>1, MinOfTwo
<1>3. d \in Buffer
  <2>1. ASSUME NEW i \in 1 .. Room PROVE (IF i <= Len(m.data) THEN m.data[i] ELSE buf[i]) \in Byte
    BY <1>1, BufferSizes DEF Buffer
  <2> QED BY <2>1 DEF Buffer
<1>4. Received(m, buf) = [m EXCEPT !.len = n, !.data = d]
  BY DEF Received
<1>5. \A i \in 1 .. Room : i <= Len(m.data) => d[i] = m.data[i]
  OBVIOUS
<1> HIDE DEF d, n
<1>6. [m EXCEPT !.len = n, !.data = d] \in ReqType(Buffer)
  BY <1>1, <1>2, <1>3, Zenon DEF ReqType
<1> QED BY <1>1, <1>2, <1>4, <1>5, <1>6 DEF ReqType

(* A request of fs passes the checks of the server, and lies on the disk.  *)
LEMMA RequestsAreValid ==
  ASSUME BlkAssumption, NEW m \in Requests, m.op \in {"READ", "WRITE"}, WellFormed(m),
         NEW r \in ReqType(Buffer), r.op = m.op, r.sector = m.sector, r.bytes = m.bytes, r.len = m.len
  PROVE  /\ ReadValid(r) /\ (r.op = "WRITE" => WriteValid(r)) /\ InRange(r)
         /\ start(r) = m.sector * SECTOR_SIZE /\ r.bytes = SECTOR_SIZE /\ m.sector \in Sectors
<1>1. /\ m.sector \in Sectors /\ r.bytes = SECTOR_SIZE /\ r.len \in Nat
      /\ r.len = RW_TAGGED_HDR_LEN + (IF r.op = "WRITE" THEN SECTOR_SIZE ELSE 0)
  BY DEF WellFormed, ReqType
<1>2. rw_hdr_len(r) = RW_TAGGED_HDR_LEN /\ r.len >= RW_TAGGED_HDR_LEN
      /\ (r.op = "WRITE" => r.len >= RW_TAGGED_HDR_LEN + SECTOR_SIZE)
  BY <1>1, BufferSizes DEF rw_hdr_len, tagged, TAGGED_HDR_LEN
<1>3. SECTOR_SIZE % SECTOR_SIZE = 0 /\ SECTOR_SIZE \in 1 .. MAX_IO_BYTES
  BY BufferSizes
<1>4. ReadValid(r) /\ (r.op = "WRITE" => WriteValid(r))
  BY <1>1, <1>2, <1>3 DEF ReadValid, WriteValid
<1>5. /\ m.sector * SECTOR_SIZE \in Nat /\ m.sector * SECTOR_SIZE + SECTOR_SIZE <= capacity
      /\ m.sector * SECTOR_SIZE <= usize_max /\ m.sector * SECTOR_SIZE + SECTOR_SIZE <= usize_max
      /\ usize_max \in Nat /\ SECTOR_SIZE \in Nat
  BY <1>1, SectorPlaces DEF BlkAssumption
<1>6. start(r) = m.sector * SECTOR_SIZE
  <2> DEFINE a == m.sector * SECTOR_SIZE
  <2>1. start(r) = Min({a, usize_max})
    BY DEF start, saturating_mul
  <2>2. a \in Int /\ usize_max \in Int /\ a <= usize_max
    BY <1>5
  <2> HIDE DEF a
  <2>3. start(r) = a
    BY <2>1, <2>2, MinOfTwo
  <2> QED BY <2>3 DEF a
<1>7. InRange(r)
  <2> DEFINE b == m.sector * SECTOR_SIZE + SECTOR_SIZE
  <2>1. saturating_add(start(r), r.bytes) = Min({b, usize_max})
    BY <1>1, <1>6 DEF saturating_add
  <2>2. b \in Int /\ usize_max \in Int /\ b <= usize_max /\ b <= capacity
    BY <1>5
  <2> HIDE DEF b
  <2>3. saturating_add(start(r), r.bytes) = b
    BY <2>1, <2>2, MinOfTwo
  <2> QED BY <2>2, <2>3 DEF InRange
<1> QED BY <1>1, <1>4, <1>6, <1>7

(* So a write stores its data in its sector, whole, and nowhere else.      *)
LEMMA WriteStores ==
  ASSUME BlkAssumption, NEW d \in Disk, NEW s \in Sectors, NEW r \in ReqType(Buffer),
         start(r) = s * SECTOR_SIZE, r.bytes = SECTOR_SIZE
  PROVE  /\ WriteBlocks(d, r) \in Disk
         /\ \A t \in Sectors : WriteBlocks(d, r)[t * SECTOR_SIZE] =
              IF t = s THEN r.data[1] ELSE d[t * SECTOR_SIZE]
<1> DEFINE b == s * SECTOR_SIZE
           W == [a \in Addr |-> IF a >= b /\ a < b + SECTOR_SIZE THEN r.data[a - b + 1] ELSE d[a]]
<1>1. WriteBlocks(d, r) = W
  BY DEF WriteBlocks
<1>2. b \in Nat /\ SECTOR_SIZE \in Nat /\ SECTOR_SIZE >= 1 /\ Room \in Nat /\ Room >= SECTOR_SIZE
      /\ capacity \in Nat
  BY SectorPlaces, BufferSizes
<1>3. ASSUME NEW a \in Addr PROVE (IF a >= b /\ a < b + SECTOR_SIZE THEN r.data[a - b + 1] ELSE d[a]) \in Byte
  <2>1. r.data \in [1 .. Room -> Byte] /\ d[a] \in Byte /\ a \in Int
    BY <1>2 DEF ReqType, Buffer, Disk, Addr
  <2> HIDE DEF b
  <2> QED BY <1>2, <2>1
<1>4. WriteBlocks(d, r) \in Disk
  BY <1>1, <1>3 DEF Disk
<1>5. ASSUME NEW t \in Sectors
      PROVE  W[t * SECTOR_SIZE] = IF t = s THEN r.data[1] ELSE d[t * SECTOR_SIZE]
  <2>1. t * SECTOR_SIZE \in Addr /\ t * SECTOR_SIZE \in Nat
    BY SectorPlaces
  <2>2. CASE t = s
    <3>1. b \in Addr /\ b >= b /\ b < b + SECTOR_SIZE /\ b - b + 1 = 1
      BY <1>2, <2>1, <2>2
    <3>2. W[b] = r.data[b - b + 1]
      BY <3>1
    <3> QED BY <2>2, <3>1, <3>2
  <2>3. CASE t # s
    <3>1. ~(t * SECTOR_SIZE >= b /\ t * SECTOR_SIZE < b + SECTOR_SIZE)
      BY <2>3, SectorPlaces
    <3> QED BY <2>1, <2>3, <3>1
  <2> QED BY <2>2, <2>3
<1> QED BY <1>1, <1>4, <1>5

LEMMA EmptyQueue == \A S : << >> \in Seq(S) /\ DOMAIN << >> = {}
  OBVIOUS

LEMMA StatusIsReply ==
  ASSUME NEW s \in {"OK", "EIO", ""}
  PROVE  Status(s) \in ReplyType /\ Status(s).status = s
<1>1. \A x \in Seq(Byte) : [status |-> s, data |-> x] \in ReplyType /\ [status |-> s, data |-> x].status = s
  BY Zenon DEF ReplyType
<1>2. << >> \in Seq(Byte)
  BY EmptyQueue, Zenon
<1>3. Status(s) = [status |-> s, data |-> << >>]
  BY Zenon DEF Status
<1> QED BY <1>1, <1>2, <1>3, Zenon

LEMMA ReadReturns ==
  ASSUME BlkAssumption, NEW d \in Disk, NEW s \in Sectors, NEW r,
         start(r) = s * SECTOR_SIZE, r.bytes = SECTOR_SIZE
  PROVE  ReadBlocks(d, r) \in Seq(Byte) /\ ReadBlocks(d, r)[1] = d[s * SECTOR_SIZE]
<1> DEFINE b == s * SECTOR_SIZE
           R == [i \in 1 .. SECTOR_SIZE |-> d[b + i - 1]]
<1>1. ReadBlocks(d, r) = R
  BY DEF ReadBlocks
<1>2. b \in Nat /\ SECTOR_SIZE \in Nat /\ SECTOR_SIZE >= 1 /\ b + SECTOR_SIZE <= capacity
      /\ capacity \in Nat
  BY SectorPlaces, BufferSizes
<1> HIDE DEF b
<1>3. \A i \in 1 .. SECTOR_SIZE : d[b + i - 1] \in Byte
  BY <1>2 DEF Disk, Addr
<1>4. R \in Seq(Byte) /\ R[1] = d[b]
  BY <1>2, <1>3
<1> QED BY <1>1, <1>4 DEF b

LEMMA OutcomesOfRequest ==
  ASSUME BlkAssumption, NEW d \in Disk, NEW m \in Requests, m.op \in {"READ", "WRITE"}, WellFormed(m),
         NEW buf \in Buffer, NEW o \in Outcomes(Received(m, buf), d, FALSE)
  PROVE  /\ o.disk \in Disk /\ o.reply \in ReplyType
         /\ \A t \in Sectors : \/ o.disk[t * SECTOR_SIZE] = d[t * SECTOR_SIZE]
                               \/ /\ m.op = "WRITE" /\ t = m.sector
                                  /\ o.disk[t * SECTOR_SIZE] = m.data[1]
         /\ m.op = "READ" /\ o.reply.status = "DATA" =>
              o.reply.data[1] = o.disk[m.sector * SECTOR_SIZE]
         /\ m.op = "WRITE" /\ o.reply.status = "OK" => o.disk[m.sector * SECTOR_SIZE] = m.data[1]
<1> DEFINE r == Received(m, buf)
<1>1. /\ r \in ReqType(Buffer) /\ r.op = m.op /\ r.sector = m.sector /\ r.bytes = m.bytes
      /\ m.len <= REQ_BUF_LEN => r.len = m.len
      /\ \A i \in 1 .. Room : i <= Len(m.data) => r.data[i] = m.data[i]
  BY ReceivedParts
<1>2. r.len = m.len
  BY <1>1, BufferSizes DEF WellFormed
<1>o. o \in Outcomes(r, d, FALSE)
  BY Zenon
<1> HIDE DEF r
<1>3. /\ ReadValid(r) /\ (r.op = "WRITE" => WriteValid(r)) /\ InRange(r)
      /\ start(r) = m.sector * SECTOR_SIZE /\ r.bytes = SECTOR_SIZE /\ m.sector \in Sectors
  BY <1>1, <1>2, RequestsAreValid
<1>4. \A e : /\ Answer(e, Status("EIO")).disk = e /\ Answer(e, Status("EIO")).reply.status = "EIO"
             /\ Answer(e, Status("EIO")).reply \in ReplyType
             /\ Answer(e, Status("OK")).disk = e /\ Answer(e, Status("OK")).reply.status = "OK"
             /\ Answer(e, Status("OK")).reply \in ReplyType
  <2>1. \A s \in {"EIO", "OK"} : Status(s) \in ReplyType /\ Status(s).status = s
    BY StatusIsReply, Zenon
  <2>2. \A e, a : Answer(e, a).disk = e /\ Answer(e, a).reply = a
    BY DEF Answer
  <2> QED BY <2>1, <2>2
<1>5. CASE m.op = "READ"
  <2>1. Outcomes(r, d, FALSE) =
          {Answer(d, [status |-> "DATA", data |-> ReadBlocks(d, r)])} \cup {Answer(d, Status("EIO"))}
    BY <1>1, <1>3, <1>5 DEF Outcomes, Failures
  <2>2. ReadBlocks(d, r) \in Seq(Byte) /\ ReadBlocks(d, r)[1] = d[m.sector * SECTOR_SIZE]
    BY <1>3, ReadReturns
  <2> DEFINE A == Answer(d, [status |-> "DATA", data |-> ReadBlocks(d, r)])
  <2>3. A.disk = d /\ A.reply \in ReplyType /\ A.reply.data = ReadBlocks(d, r)
    <3> DEFINE R == ReadBlocks(d, r)
    <3> HIDE DEF R
    <3>1. R \in Seq(Byte)
      BY <2>2 DEF R
    <3>2. [status |-> "DATA", data |-> R] \in ReplyType /\ [status |-> "DATA", data |-> R].data = R
      BY <3>1 DEF ReplyType
    <3>3. A.disk = d /\ A.reply = [status |-> "DATA", data |-> R]
      BY DEF Answer, R
    <3> QED BY <3>2, <3>3 DEF R
  <2>4. o = A \/ o = Answer(d, Status("EIO"))
    BY <1>o, <2>1, Zenon
  <2> HIDE DEF A
  <2> QED BY <1>4, <1>5, <2>2, <2>3, <2>4
<1>6. CASE m.op = "WRITE"
  <2> DEFINE w == WriteBlocks(d, r)
  <2>1. Outcomes(r, d, FALSE) =
          {Answer(w, Status("OK"))} \cup {Answer(e, Status("EIO")) : e \in {d, w}}
    BY <1>1, <1>3, <1>6 DEF Outcomes, Failures
  <2>2. w \in Disk /\ \A t \in Sectors : w[t * SECTOR_SIZE] =
              IF t = m.sector THEN r.data[1] ELSE d[t * SECTOR_SIZE]
    BY <1>1, <1>3, WriteStores
  <2>3. r.data[1] = m.data[1]
    <3>1. 1 \in 1 .. Room /\ Len(m.data) = SECTOR_SIZE /\ 1 <= SECTOR_SIZE
      BY <1>6, BufferSizes DEF WellFormed
    <3> QED BY <1>1, <3>1
  <2> HIDE DEF w
  <2>4. o = Answer(w, Status("OK")) \/ o = Answer(d, Status("EIO")) \/ o = Answer(w, Status("EIO"))
    BY <1>o, <2>1, Zenon
  <2> QED BY <1>3, <1>4, <1>6, <2>2, <2>3, <2>4
<1> QED BY <1>5, <1>6

-----------------------------------------------------------------------------
(* Queues *)

LEMMA QueueTail ==
  ASSUME NEW S, NEW q \in Seq(S), q # << >>
  PROVE  /\ Tail(q) \in Seq(S) /\ Head(q) \in S /\ Head(q) = q[1] /\ 1 \in DOMAIN q
         /\ \A k \in DOMAIN Tail(q) : /\ k \in Nat /\ k + 1 \in DOMAIN q /\ 1 < k + 1
                                      /\ Tail(q)[k] = q[k + 1]
         /\ \A i \in DOMAIN q : i # 1 => i - 1 \in DOMAIN Tail(q) /\ q[i] = Tail(q)[i - 1]
         /\ Len(Tail(q)) < Len(q)
  OBVIOUS

LEMMA QueueAppend ==
  ASSUME NEW S, NEW q \in Seq(S), NEW m \in S
  PROVE  /\ Append(q, m) \in Seq(S) /\ Len(q) \in Nat
         /\ \A k \in DOMAIN q : k \in Nat /\ k < Len(q) + 1 /\ k \in DOMAIN Append(q, m)
         /\ DOMAIN Append(q, m) = DOMAIN q \cup {Len(q) + 1} /\ Len(Append(q, m)) = Len(q) + 1
         /\ Append(q, m)[Len(q) + 1] = m
         /\ \A k \in DOMAIN q : Append(q, m)[k] = q[k]
  OBVIOUS

(* The invariant holds initially.                                          *)
LEMMA StrayIsRequest ==
  /\ Stray \in Requests /\ Stray.op = "other" /\ Stray.cap = NoCap
<1>1. << >> \in Seq(Byte)
  BY EmptyQueue
<1>2. \A x \in Seq(Byte) :
        /\ [op |-> "other", len |-> TAGGED_HDR_LEN, tag |-> 0, sector |-> 0, bytes |-> 0,
            cap |-> NoCap, data |-> x] \in Requests
  BY DEF Requests, ReqType, TAGGED_HDR_LEN
<1>3. Stray \in Requests
  BY <1>1, <1>2, Zenon DEF Stray
<1> QED BY <1>3 DEF Stray

LEMMA ChannelInit == ASSUME BlkAssumption, ChannelAssumption, Init PROVE ChannelInv
<1>1. 0 \in Addr /\ disk \in Disk /\ disk[0] \in Byte /\ 0 \in Sectors
  <2>1. 0 \in Sectors
    BY DEF BlkAssumption, Sectors
  <2>2. SECTOR_SIZE \in Nat
    BY DEF BlkAssumption
  <2>3. 0 * SECTOR_SIZE \in Addr
    BY <2>1, SectorPlaces, Zenon
  <2>4. 0 \in Addr
    BY <2>2, <2>3
  <2>5. disk \in Disk
    BY DEF Init, Disk
  <2> QED BY <2>1, <2>4, <2>5 DEF Disk
<1>2. [i \in 1 .. Room |-> disk[0]] \in Buffer
  BY <1>1 DEF Buffer
<1>3. [Stray EXCEPT !.len = 0, !.data = [i \in 1 .. Room |-> disk[0]]] \in ReqType(Buffer)
  <2> DEFINE d == [i \in 1 .. Room |-> disk[0]]
  <2>1. d \in Buffer
    BY <1>2
  <2> HIDE DEF d
  <2>2. Stray \in ReqType(Seq(Byte))
    BY StrayIsRequest DEF Requests
  <2>3. [Stray EXCEPT !.len = 0, !.data = d] \in ReqType(Buffer)
    BY <2>1, <2>2, Zenon DEF ReqType
  <2> QED BY <2>3 DEF d
<1>4. srv \in [Servers -> ReqType(Buffer)]
  BY <1>3 DEF Init
<1>5. \A S : << >> \in Seq(S) /\ DOMAIN << >> = {}
  BY EmptyQueue
<1>6. blkq \in [Servers -> Seq(Requests)] /\ (\A k \in Servers : DOMAIN blkq[k] = {})
      /\ fsq \in Seq(MsgType) /\ DOMAIN fsq = {}
  BY <1>5 DEF Init
<1>7. call \in CallType /\ call.pc = "idle" /\ call.id = 0
  BY <1>1 DEF Init, CallType
<1>8. ChannelType
  BY <1>1, <1>4, <1>6, <1>7 DEF Init, ChannelType, ChannelAssumption, VirtioBlkEndpoint
<1>9. HandleInv /\ ExecutedInv
  BY <1>7 DEF Init, HandleInv, ExecutedInv, Servers
<1>10. QueueInv /\ OrderInv /\ AnswersInv
  BY <1>6 DEF QueueInv, OrderInv, AnswersInv
<1>11. ClientInv
  BY <1>6 DEF Init, ClientInv
<1> QED BY <1>8, <1>9, <1>10, <1>11 DEF ChannelInv

-----------------------------------------------------------------------------
(* The parts of the invariant, one change of the state at a time *)

(* A call that goes on, or ends, stays the same call.                      *)
CallKept ==
  /\ call' \in CallType /\ call'.id = call.id /\ call'.op = call.op /\ call'.sector = call.sector
  /\ call.op = "WRITE" \/ call'.pc = "wait" => call'.byte = call.byte
  /\ call'.pc = call.pc \/ (call.pc = "wait" /\ call'.pc = "idle")

StrayAdded ==
  \/ blkq' = blkq
  \/ \E c \in Servers : blkq' = [blkq EXCEPT ![c] = Append(@, Stray)]

LEMMA QueuesKept ==
  ASSUME ChannelType, QueueInv, OrderInv, CallKept, StrayAdded,
         UNCHANGED <<executed, BLK_SERVICE_HANDLE>>
  PROVE  QueueInv' /\ OrderInv' /\ blkq' \in [Servers -> Seq(Requests)]
<1>0. blkq \in [Servers -> Seq(Requests)]
  BY DEF ChannelType
<1>1. blkq' \in [Servers -> Seq(Requests)] /\ \A k \in Servers : \A i \in DOMAIN blkq'[k] :
        i \in Nat /\ \/ i \in DOMAIN blkq[k] /\ blkq'[k][i] = blkq[k][i]
                     \/ blkq'[k][i].op = "other" /\ blkq'[k][i].cap = NoCap
  <2>1. CASE blkq' = blkq
    BY <1>0, <2>1
  <2>2. ASSUME NEW c \in Servers, blkq' = [blkq EXCEPT ![c] = Append(@, Stray)]
        PROVE  <1>1!1 /\ <1>1!2
    <3>1. /\ Append(blkq[c], Stray) \in Seq(Requests)
          /\ DOMAIN Append(blkq[c], Stray) = DOMAIN blkq[c] \cup {Len(blkq[c]) + 1}
          /\ Append(blkq[c], Stray)[Len(blkq[c]) + 1] = Stray
          /\ \A k \in DOMAIN blkq[c] : Append(blkq[c], Stray)[k] = blkq[c][k]
      BY <1>0, StrayIsRequest, QueueAppend
    <3>2. blkq' \in [Servers -> Seq(Requests)] /\ blkq'[c] = Append(blkq[c], Stray)
          /\ \A k \in Servers : k # c => blkq'[k] = blkq[k]
      BY <1>0, <2>2, <3>1
    <3>3. \A k \in Servers : \A i \in DOMAIN blkq'[k] : i \in Nat
      BY <3>2
    <3> QED BY <3>1, <3>2, <3>3, StrayIsRequest
  <2> QED BY <2>1, <2>2 DEF StrayAdded
<1>2. QueueInv'
  <2>1. SUFFICES ASSUME NEW k \in Servers, NEW i \in DOMAIN blkq'[k], blkq'[k][i] = blkq[k][i],
                        i \in DOMAIN blkq[k], blkq[k][i].op # "other"
                 PROVE  /\ WellFormed(blkq[k][i]) /\ k = BLK_SERVICE_HANDLE
                        /\ executed < blkq[k][i].tag /\ blkq[k][i].tag <= call'.id
                        /\ blkq[k][i].tag = call'.id => 
                             /\ call'.pc \in {"wait", "idle"} /\ blkq[k][i].op = call'.op
                             /\ blkq[k][i].sector = call'.sector
                             /\ blkq[k][i].op = "WRITE" => blkq[k][i].data[1] = call'.byte
    <3>1. \A k \in Servers : \A i \in DOMAIN blkq'[k] : blkq'[k][i].op = "other" => blkq'[k][i].cap = NoCap
      BY <1>1 DEF QueueInv
    <3> QED BY <1>1, <3>1 DEF QueueInv, WellFormed, OfCall
  <2>2. /\ WellFormed(blkq[k][i]) /\ k = BLK_SERVICE_HANDLE
        /\ executed < blkq[k][i].tag /\ blkq[k][i].tag <= call.id
        /\ blkq[k][i].tag = call.id => OfCall(blkq[k][i])
    BY <2>1 DEF QueueInv
  <2> QED BY <2>2 DEF CallKept, OfCall
<1>3. OrderInv'
  BY <1>1 DEF OrderInv
<1> QED BY <1>1, <1>2, <1>3

(* Messages leave the queue of fs, or none does.                           *)
LEMMA AnswersKept ==
  ASSUME ChannelType, AnswersInv, CallKept, UNCHANGED <<executed, disk, started>>,
         fsq' = fsq \/ (fsq # << >> /\ fsq' = Tail(fsq))
  PROVE  AnswersInv' /\ fsq' \in Seq(MsgType)
<1>0. fsq \in Seq(MsgType)
  BY DEF ChannelType
<1>1. fsq' \in Seq(MsgType) /\ \A i \in DOMAIN fsq' : \E j \in DOMAIN fsq : fsq'[i] = fsq[j]
  BY <1>0, QueueTail
<1>2. ASSUME NEW i \in DOMAIN fsq'
      PROVE  /\ fsq'[i].kind = "lookup" => fsq'[i].cap \in {NoCap} \cup 1 .. started'
             /\ fsq'[i].kind = "answer" =>
                  /\ fsq'[i].cap = NoCap /\ fsq'[i].tag <= executed'
                  /\ fsq'[i].tag = call'.id /\ call'.pc = "wait" => Right(fsq[i].reply)'
  <2>1. PICK j \in DOMAIN fsq : fsq'[i] = fsq[j]
    BY <1>1
  <2>2. /\ fsq[j].kind = "lookup" => fsq[j].cap \in {NoCap} \cup 1 .. started
        /\ fsq[j].kind = "answer" =>
             /\ fsq[j].cap = NoCap /\ fsq[j].tag <= executed
             /\ fsq[j].tag = call.id /\ call.pc = "wait" => Right(fsq[j].reply)
    BY DEF AnswersInv
  <2> QED BY <2>1, <2>2 DEF CallKept, Right
<1> QED BY <1>1, <1>2 DEF AnswersInv

LEMMA QueueFewer ==
  ASSUME QueueInv, UNCHANGED <<executed, BLK_SERVICE_HANDLE, call>>,
         \A k \in Servers : \A i \in DOMAIN blkq'[k] : \E j \in DOMAIN blkq[k] : blkq'[k][i] = blkq[k][j]
  PROVE  QueueInv'
<1>1. ASSUME NEW k \in Servers, NEW j \in DOMAIN blkq[k], NEW r, r = blkq[k][j]
      PROVE  /\ r.op = "other" => r.cap = NoCap
             /\ r.op # "other" =>
                  /\ WellFormed(r) /\ k = BLK_SERVICE_HANDLE /\ executed < r.tag /\ r.tag <= call.id
                  /\ r.tag = call.id => OfCall(r)
  BY <1>1 DEF QueueInv
<1>2. \A r : OfCall(r)' <=> OfCall(r)
  BY DEF OfCall
<1>3. ASSUME NEW k \in Servers, NEW i \in DOMAIN blkq'[k], NEW r, r = blkq'[k][i]
      PROVE  /\ r.op = "other" => r.cap = NoCap
             /\ r.op # "other" =>
                  /\ WellFormed(r) /\ k = BLK_SERVICE_HANDLE' /\ executed' < r.tag /\ r.tag <= call'.id
                  /\ r.tag = call'.id => OfCall(r)'
  <2>1. PICK j \in DOMAIN blkq[k] : r = blkq[k][j]
    BY <1>3
  <2> QED BY <1>1, <1>2, <2>1
<1> QED BY <1>3 DEF QueueInv, WellFormed, OfCall

LEMMA QueueSame ==
  ASSUME QueueInv, UNCHANGED <<executed, BLK_SERVICE_HANDLE, call, blkq>>
  PROVE  QueueInv'
  BY QueueFewer

LEMMA AnswersSame ==
  ASSUME AnswersInv, UNCHANGED <<executed, disk, call, fsq, started>>
  PROVE  AnswersInv'
  BY DEF AnswersInv, Right

LEMMA ExecutedKept ==
  ASSUME ExecutedInv, CallKept, UNCHANGED executed
  PROVE  ExecutedInv'
  BY DEF ExecutedInv, CallKept

(* fs takes the first message and answers whoever waits behind it.         *)
LEMMA ClientHead ==
  ASSUME ChannelType, ClientInv, fsq # << >>, fsq' = Tail(fsq),
         waiting' = waiting \ {Head(fsq).cap}, UNCHANGED <<lost, BLK_SERVICE_HANDLE>>
  PROVE  ClientInv'
<1>0. fsq \in Seq(MsgType)
  BY DEF ChannelType
<1> DEFINE c0 == fsq[1].cap
<1>1. /\ Head(fsq).cap = c0 /\ 1 \in DOMAIN fsq /\ fsq' \in Seq(MsgType)
      /\ \A k \in DOMAIN fsq' : k \in Nat /\ k + 1 \in DOMAIN fsq /\ 1 < k + 1 /\ fsq'[k] = fsq[k + 1]
      /\ \A i \in DOMAIN fsq : i # 1 => i - 1 \in DOMAIN fsq' /\ fsq[i] = fsq'[i - 1]
  BY <1>0, QueueTail
<1>2. \A i \in DOMAIN fsq' : fsq'[i].cap \in Clients => fsq'[i].cap # c0
  <2> SUFFICES ASSUME NEW i \in DOMAIN fsq', fsq'[i].cap \in Clients, fsq'[i].cap = c0 PROVE FALSE
    OBVIOUS
  <2>1. i + 1 \in DOMAIN fsq /\ fsq[i + 1].cap = fsq[1].cap /\ fsq[i + 1].cap \in Clients
    BY <1>1
  <2>2. i + 1 = 1
    BY <1>1, <2>1 DEF ClientInv
  <2> QED BY <1>1, <2>2
<1>3. waiting' = waiting \ {c0}
  BY <1>1
<1>4. \A i \in DOMAIN fsq' : fsq'[i].cap \in Clients => fsq'[i].cap \in waiting \ lost
  BY <1>1 DEF ClientInv
<1>5. \A i \in DOMAIN fsq' : fsq'[i].cap \in Clients => fsq'[i].cap \in waiting' \ lost'
  BY <1>2, <1>3, <1>4
<1>6. ASSUME NEW i \in DOMAIN fsq', NEW j \in DOMAIN fsq', fsq'[i].cap \in Clients, fsq'[i].cap = fsq'[j].cap
      PROVE  i = j
  <2>1. i + 1 \in DOMAIN fsq /\ j + 1 \in DOMAIN fsq /\ fsq[i + 1].cap = fsq[j + 1].cap
        /\ fsq[i + 1].cap \in Clients /\ i \in Nat /\ j \in Nat
    BY <1>1, <1>6
  <2>2. i + 1 = j + 1
    BY <2>1 DEF ClientInv
  <2> QED BY <2>1, <2>2
<1>7. ASSUME NEW c \in waiting' \ lost' PROVE \E i \in DOMAIN fsq' : fsq'[i].cap = c
  <2>1. c \in waiting \ lost /\ c # c0
    BY <1>3, <1>7
  <2>2. PICK i \in DOMAIN fsq : fsq[i].cap = c
    BY <2>1 DEF ClientInv
  <2>3. i # 1
    BY <2>1, <2>2
  <2> QED BY <1>1, <2>2, <2>3
<1>8. lost' \subseteq waiting'
  <2>1. c0 \notin lost
    <3>1. c0 \in Clients => c0 \in waiting \ lost
      BY <1>1 DEF ClientInv
    <3>2. lost \subseteq Clients
      BY DEF ClientInv, ChannelType
    <3> QED BY <3>1, <3>2
  <2> QED BY <1>3, <2>1 DEF ClientInv
<1> QED BY <1>5, <1>6, <1>7, <1>8 DEF ClientInv

(* A message that is no client's, or the first of a client, comes in.      *)
LEMMA ClientAppend ==
  ASSUME ChannelType, ClientInv, NEW m \in MsgType, fsq' = Append(fsq, m),
         \/ m.cap \notin Clients /\ waiting' = waiting
         \/ m.cap \in Clients \ waiting /\ waiting' = waiting \cup {m.cap},
         UNCHANGED <<lost, BLK_SERVICE_HANDLE>>
  PROVE  ClientInv'
<1>0. fsq \in Seq(MsgType)
  BY DEF ChannelType
<1> DEFINE n == Len(fsq) + 1
<1>1. /\ fsq' \in Seq(MsgType) /\ DOMAIN fsq' = DOMAIN fsq \cup {n} /\ fsq'[n] = m
      /\ \A k \in DOMAIN fsq : fsq'[k] = fsq[k]
  BY <1>0, QueueAppend
<1> HIDE DEF n
<1>2. lost' = lost /\ lost \subseteq waiting /\ waiting \subseteq waiting'
      /\ (m.cap \in Clients => m.cap \in waiting' \ lost)
  BY DEF ClientInv
<1>3. \A i \in DOMAIN fsq : fsq[i].cap \in Clients => fsq[i].cap \in waiting \ lost /\ fsq[i].cap # m.cap
  BY DEF ClientInv
<1>4. \A i \in DOMAIN fsq' : fsq'[i].cap \in Clients => fsq'[i].cap \in waiting' \ lost'
  BY <1>1, <1>2, <1>3
<1>5. ASSUME NEW i \in DOMAIN fsq', NEW j \in DOMAIN fsq', fsq'[i].cap \in Clients, fsq'[i].cap = fsq'[j].cap
      PROVE  i = j
  <2>1. CASE i \in DOMAIN fsq /\ j \in DOMAIN fsq
    BY <1>1, <1>5, <2>1 DEF ClientInv
  <2>2. CASE i = n /\ j \in DOMAIN fsq
    BY <1>1, <1>3, <1>5, <2>2
  <2>3. CASE i \in DOMAIN fsq /\ j = n
    BY <1>1, <1>3, <1>5, <2>3
  <2> QED BY <1>1, <2>1, <2>2, <2>3
<1>6. ASSUME NEW c \in waiting' \ lost' PROVE \E i \in DOMAIN fsq' : fsq'[i].cap = c
  <2>1. c \in waiting \ lost \/ c = m.cap
    BY <1>2, <1>6
  <2>2. CASE c \in waiting \ lost
    <3>1. PICK i \in DOMAIN fsq : fsq[i].cap = c
      BY <2>2 DEF ClientInv
    <3> QED BY <1>1, <3>1
  <2>3. CASE c = m.cap
    BY <1>1, <2>3
  <2> QED BY <2>1, <2>2, <2>3
<1> QED BY <1>2, <1>4, <1>5, <1>6 DEF ClientInv

(* A call that starts: nothing is asked for it, and nothing answers it.    *)
LEMMA BlkCallInv ==
  ASSUME ChannelInv, NEW op \in {"READ", "WRITE"}, NEW s \in Sectors, NEW b \in Byte, blk_call(op, s, b)
  PROVE  ChannelInv'
<1>0. ChannelType /\ HandleInv /\ QueueInv /\ OrderInv /\ ExecutedInv /\ AnswersInv /\ ClientInv
  BY DEF ChannelInv
<1>1. /\ UNCHANGED <<lookups, BLK_SERVICE_HANDLE, disk, started, running, srv, executed, asks, waiting,
                     lost, blkq, fsq>>
      /\ BLK_REQ_ID' = BLK_REQ_ID + 1
  BY DEF blk_call, srvVars, cliVars
<1>2. BLK_REQ_ID = call.id + 1 /\ call.id \in Nat /\ executed \in Nat /\ executed <= call.id
  BY <1>0 DEF HandleInv, ExecutedInv, ChannelType, CallType
<1>3. /\ call' \in CallType /\ call'.id = call.id + 1
      /\ call'.pc = IF BLK_SERVICE_HANDLE # 0 THEN "send" ELSE "lookup"
  BY <1>2 DEF blk_call, CallType, cached
<1>4. ChannelType' /\ HandleInv' /\ ExecutedInv'
  <2>1. BLK_REQ_ID' \in Nat
    BY <1>1, <1>2
  <2>2. ChannelType'
    BY <1>0, <1>1, <1>3, <2>1, Zenon DEF ChannelType
  <2>3. HandleInv'
    BY <1>0, <1>1, <1>2, <1>3 DEF HandleInv
  <2>4. ExecutedInv'
    BY <1>1, <1>2, <1>3 DEF ExecutedInv
  <2> QED BY <2>2, <2>3, <2>4
<1>5. QueueInv'
  <2>1. ASSUME NEW k \in Servers, NEW i \in DOMAIN blkq[k], blkq[k][i].op # "other"
        PROVE  /\ WellFormed(blkq[k][i]) /\ k = BLK_SERVICE_HANDLE /\ executed < blkq[k][i].tag
               /\ blkq[k][i].tag <= call.id /\ blkq[k][i].tag \in Nat
    <3>1. blkq[k][i] \in Requests
      BY <1>0 DEF ChannelType
    <3>2. blkq[k][i].tag \in Nat
      BY <3>1 DEF Requests, ReqType
    <3> QED BY <1>0, <2>1, <3>2 DEF QueueInv
  <2>2. ASSUME NEW k \in Servers, NEW i \in DOMAIN blkq[k], blkq[k][i].op # "other"
        PROVE  /\ WellFormed(blkq[k][i]) /\ k = BLK_SERVICE_HANDLE /\ executed < blkq[k][i].tag
               /\ blkq[k][i].tag <= call'.id /\ blkq[k][i].tag # call'.id
    BY <1>2, <1>3, <2>1, <2>2
  <2>3. \A k \in Servers : \A i \in DOMAIN blkq[k] : blkq[k][i].op = "other" => blkq[k][i].cap = NoCap
    BY <1>0 DEF QueueInv
  <2> QED BY <1>1, <2>2, <2>3 DEF QueueInv, WellFormed
<1>6. AnswersInv'
  BY <1>0, <1>1, <1>3 DEF AnswersInv
<1>7. OrderInv' /\ ClientInv'
  BY <1>0, <1>1 DEF OrderInv, ClientInv
<1> QED BY <1>4, <1>5, <1>6, <1>7 DEF ChannelInv

(* Until fs has a handle it has sent no request.                           *)
LEMMA NothingSent ==
  ASSUME ChannelType, QueueInv, BLK_SERVICE_HANDLE = 0
  PROVE  \A k \in Servers : \A i \in DOMAIN blkq[k] : blkq[k][i].op = "other" /\ blkq[k][i].cap = NoCap
  BY DEF QueueInv, Servers

LEMMA LookupInv ==
  ASSUME ChannelInv, SendLookup \/ RecvLookup
  PROVE  ChannelInv'
<1>0. ChannelType /\ HandleInv /\ QueueInv /\ OrderInv /\ ExecutedInv /\ AnswersInv /\ ClientInv
  BY DEF ChannelInv
<1>1. UNCHANGED <<BLK_REQ_ID, disk, started, running, srv, executed, asks, waiting, blkq>>
  BY DEF SendLookup, RecvLookup, srvVars, cliVars
<1>2. call.pc \in {"lookup", "answer"} /\ BLK_SERVICE_HANDLE = 0 /\ lost = {} /\ call \in CallType
      /\ fsq \in Seq(MsgType)
  BY <1>0 DEF SendLookup, RecvLookup, HandleInv, ClientInv, ChannelType
<1>3. /\ call' \in CallType /\ call'.id = call.id
      /\ \/ call'.pc = "answer" /\ BLK_SERVICE_HANDLE' = 0
         \/ call'.pc = "send" /\ BLK_SERVICE_HANDLE' \in (1 .. started) \cup {VirtioBlkEndpoint}
  <2>1. CASE SendLookup
    BY <1>2, <2>1 DEF SendLookup, Resolved, CallType
  <2>2. CASE RecvLookup
    <3>1. fsq # << >> => 1 \in DOMAIN fsq /\ Head(fsq) = fsq[1]
      BY <1>2, QueueTail
    <3>2. fsq # << >> /\ Head(fsq).kind = "lookup" /\ Head(fsq).cap # NoCap => Head(fsq).cap \in 1 .. started
      BY <1>0, <3>1 DEF AnswersInv
    <3>3. call' = [call EXCEPT !.pc = "send"]
          /\ BLK_SERVICE_HANDLE' \in (1 .. started) \cup {VirtioBlkEndpoint}
      BY <2>2, <3>2 DEF RecvLookup, Resolved
    <3> QED BY <1>2, <3>3 DEF CallType
  <2> QED BY <2>1, <2>2
<1>4. lookups' \in Nat
  BY <1>0 DEF ChannelType, SendLookup, RecvLookup
<1>5. MaxServers \in Nat /\ started \in 0 .. MaxServers
  BY <1>0, ChannelAssumption DEF ChannelAssumption, ChannelType
<1>6. /\ fsq' \in Seq(MsgType) /\ \A i \in DOMAIN fsq' : \E j \in DOMAIN fsq : fsq'[i] = fsq[j]
  <2>1. fsq' = fsq \/ (fsq # << >> /\ fsq' = Tail(fsq))
    BY DEF SendLookup, RecvLookup
  <2> QED BY <1>2, <2>1, QueueTail
<1>7. HandleInv' /\ BLK_SERVICE_HANDLE' \in 0 .. VirtioBlkEndpoint
  <2>1. BLK_SERVICE_HANDLE' \in 0 .. VirtioBlkEndpoint
    BY <1>3, <1>5 DEF VirtioBlkEndpoint
  <2>2. BLK_SERVICE_HANDLE' \in Servers => BLK_SERVICE_HANDLE' <= started
    BY <1>3, <1>5 DEF VirtioBlkEndpoint, Servers
  <2>3. call'.pc = "send" => BLK_SERVICE_HANDLE' # 0
    BY <1>3, <1>5 DEF VirtioBlkEndpoint
  <2> QED BY <1>0, <1>1, <1>3, <2>1, <2>2, <2>3 DEF HandleInv
<1>8. ChannelType'
  BY <1>0, <1>1, <1>3, <1>4, <1>6, <1>7 DEF ChannelType
<1>9. QueueInv' /\ OrderInv'
  <2>1. \A k \in Servers : \A i \in DOMAIN blkq'[k] : blkq'[k][i].op = "other" /\ blkq'[k][i].cap = NoCap
    BY <1>0, <1>1, <1>2, NothingSent
  <2> QED BY <1>0, <1>1, <2>1 DEF QueueInv, OrderInv
<1>10. ExecutedInv'
  BY <1>0, <1>1, <1>2, <1>3 DEF ExecutedInv
<1>11. AnswersInv'
  <2>1. ASSUME NEW i \in DOMAIN fsq'
        PROVE  /\ fsq'[i].kind = "lookup" => fsq'[i].cap \in {NoCap} \cup 1 .. started'
               /\ fsq'[i].kind = "answer" => fsq'[i].cap = NoCap /\ fsq'[i].tag <= executed'
    BY <1>0, <1>1, <1>6 DEF AnswersInv
  <2> QED BY <1>3, <2>1 DEF AnswersInv
<1>12. ClientInv'
  <2>1. CASE fsq' = fsq /\ lost' = lost
    BY <1>0, <1>1, <1>2, <2>1 DEF ClientInv
  <2>2. CASE fsq # << >> /\ fsq' = Tail(fsq) /\ lost' = lost \cup ({Head(fsq).cap} \cap waiting)
    <3> DEFINE c0 == fsq[1].cap
    <3>1. /\ Head(fsq).cap = c0 /\ 1 \in DOMAIN fsq
          /\ \A k \in DOMAIN fsq' : k \in Nat /\ k + 1 \in DOMAIN fsq /\ 1 < k + 1 /\ fsq'[k] = fsq[k + 1]
          /\ \A i \in DOMAIN fsq : i # 1 => i - 1 \in DOMAIN fsq' /\ fsq[i] = fsq'[i - 1]
      BY <1>2, <2>2, QueueTail
    <3>2. lost' = {c0} \cap waiting
      BY <1>2, <2>2, <3>1
    <3>3. BLK_SERVICE_HANDLE' = 0 => lost' = {}
      BY <1>3, <1>5, <2>2 DEF SendLookup, RecvLookup, Resolved, VirtioBlkEndpoint, CallType
    <3>4. \A i \in DOMAIN fsq' : fsq'[i].cap \in Clients => fsq'[i].cap \in waiting /\ fsq'[i].cap # c0
      <4>1. ASSUME NEW i \in DOMAIN fsq', fsq'[i].cap \in Clients
            PROVE  fsq'[i].cap \in waiting /\ fsq'[i].cap # c0
        <5>1. i + 1 \in DOMAIN fsq /\ fsq'[i] = fsq[i + 1] /\ i + 1 # 1
          BY <3>1, <4>1
        <5> QED BY <1>0, <3>1, <4>1, <5>1 DEF ClientInv
      <4> QED BY <4>1
    <3>5. ASSUME NEW i \in DOMAIN fsq', NEW j \in DOMAIN fsq', fsq'[i].cap \in Clients,
                 fsq'[i].cap = fsq'[j].cap
          PROVE  i = j
      <4>1. i + 1 \in DOMAIN fsq /\ j + 1 \in DOMAIN fsq /\ fsq[i + 1].cap = fsq[j + 1].cap
            /\ fsq[i + 1].cap \in Clients /\ i \in Nat /\ j \in Nat
        BY <3>1, <3>5
      <4>2. i + 1 = j + 1
        BY <1>0, <4>1 DEF ClientInv
      <4> QED BY <4>1, <4>2
    <3>6. ASSUME NEW c \in waiting \ lost' PROVE \E i \in DOMAIN fsq' : fsq'[i].cap = c
      <4>1. c \in waiting \ lost /\ c # c0
        BY <1>2, <3>2, <3>6
      <4>2. PICK i \in DOMAIN fsq : fsq[i].cap = c
        BY <1>0, <4>1 DEF ClientInv
      <4>3. i # 1
        BY <4>1, <4>2
      <4> QED BY <3>1, <4>2, <4>3
    <3> QED BY <1>1, <3>2, <3>3, <3>4, <3>5, <3>6 DEF ClientInv
  <2>3. (fsq' = fsq /\ lost' = lost)
        \/ (fsq # << >> /\ fsq' = Tail(fsq) /\ lost' = lost \cup ({Head(fsq).cap} \cap waiting))
    BY DEF SendLookup, RecvLookup, cliVars
  <2> QED BY <2>1, <2>2, <2>3
<1> QED BY <1>7, <1>8, <1>9, <1>10, <1>11, <1>12 DEF ChannelInv

(* What fs sends is a whole request for the sector of its call.            *)
LEMMA RequestOfCall ==
  ASSUME BlkAssumption, NEW c \in CallType, NEW cap \in {LocalEndpoint, NoCap},
         NEW r, r = Request(c.op, c.id, c.sector, c.byte, cap)
  PROVE  /\ r \in Requests /\ WellFormed(r) /\ r.op = c.op /\ r.op # "other" /\ r.tag = c.id
         /\ r.sector = c.sector /\ (r.op = "WRITE" => r.data[1] = c.byte)
<1>1. /\ c.op \in {"READ", "WRITE"} /\ c.id \in Nat /\ c.sector \in Sectors /\ c.byte \in Byte
      /\ c.sector \in Nat
  BY DEF CallType, Sectors, BlkAssumption
<1> DEFINE f == [i \in 1 .. SECTOR_SIZE |-> c.byte]
           d == IF c.op = "WRITE" THEN f ELSE << >>
           n == RW_TAGGED_HDR_LEN + (IF c.op = "WRITE" THEN SECTOR_SIZE ELSE 0)
<1>2. SECTOR_SIZE \in Nat /\ SECTOR_SIZE >= 1 /\ n \in Nat
  BY BufferSizes
<1>3. f \in Seq(Byte) /\ Len(f) = SECTOR_SIZE /\ f[1] = c.byte
  BY <1>1, <1>2
<1>4. d \in Seq(Byte) /\ (c.op = "WRITE" => Len(d) = SECTOR_SIZE /\ d[1] = c.byte)
  <2>1. << >> \in Seq(Byte)
    BY EmptyQueue
  <2> HIDE DEF f
  <2>2. CASE c.op = "WRITE"
    BY <1>3, <2>2
  <2>3. CASE c.op # "WRITE"
    <3>1. d = << >>
      BY <2>3
    <3> QED BY <2>1, <2>3, <3>1, Zenon
  <2> QED BY <2>2, <2>3
<1>5. r = [op |-> c.op, len |-> n, tag |-> c.id, sector |-> c.sector, bytes |-> SECTOR_SIZE,
           cap |-> cap, data |-> d]
  BY DEF Request
<1>6. n = RW_TAGGED_HDR_LEN + (IF c.op = "WRITE" THEN SECTOR_SIZE ELSE 0)
  OBVIOUS
<1> HIDE DEF f, d, n
<1>7. r \in Requests
  BY <1>1, <1>2, <1>4, <1>5 DEF Requests, ReqType
<1>8. WellFormed(r)
  BY <1>1, <1>4, <1>5, <1>6 DEF WellFormed
<1> QED BY <1>1, <1>4, <1>5, <1>7, <1>8

(* The request of the call goes to the end of the one queue in use: the    *)
(* requests before it are older.                                           *)
LEMMA SendRequestInv ==
  ASSUME ChannelInv, SendRequest
  PROVE  ChannelInv'
<1>0. ChannelType /\ HandleInv /\ QueueInv /\ OrderInv /\ ExecutedInv /\ AnswersInv /\ ClientInv
  BY DEF ChannelInv
<1>1. UNCHANGED <<lookups, BLK_REQ_ID, BLK_SERVICE_HANDLE, disk, started, running, srv, executed, asks,
                  waiting, lost, fsq>>
  BY DEF SendRequest, srvVars, cliVars
<1>2. call.pc = "send" /\ call \in CallType /\ call.id \in Nat /\ executed \in Nat /\ executed < call.id
      /\ BLK_SERVICE_HANDLE # 0 /\ blkq \in [Servers -> Seq(Requests)]
  BY <1>0 DEF SendRequest, ChannelType, CallType, ExecutedInv, HandleInv
<1>3. /\ call' \in CallType /\ call'.id = call.id /\ call'.op = call.op /\ call'.sector = call.sector
      /\ call'.byte = call.byte /\ call'.pc \in {"wait", "idle"}
  <2>1. \/ call' = [call EXCEPT !.pc = "wait"]
        \/ call' = [call EXCEPT !.pc = "idle", !.ok = FALSE, !.byte = call.byte]
    BY DEF SendRequest, Return
  <2> QED BY <1>2, <2>1, Zenon DEF CallType
(* The requests of the queues belong to earlier calls.                     *)
<1>4. ASSUME NEW k \in Servers, NEW i \in DOMAIN blkq[k], blkq[k][i].op # "other"
      PROVE  /\ WellFormed(blkq[k][i]) /\ k = BLK_SERVICE_HANDLE /\ executed < blkq[k][i].tag
             /\ blkq[k][i].tag < call.id /\ blkq[k][i].tag \in Nat
  <2>1. blkq[k][i] \in Requests
    BY <1>2
  <2>2. blkq[k][i].tag \in Nat
    BY <2>1 DEF Requests, ReqType
  <2>3. /\ WellFormed(blkq[k][i]) /\ k = BLK_SERVICE_HANDLE /\ executed < blkq[k][i].tag
        /\ blkq[k][i].tag <= call.id /\ blkq[k][i].tag # call.id
    BY <1>0, <1>2, <1>4 DEF QueueInv, OfCall
  <2> QED BY <1>2, <2>2, <2>3
<1>5. \A k \in Servers : \A i \in DOMAIN blkq[k] : blkq[k][i].op = "other" => blkq[k][i].cap = NoCap
  BY <1>0 DEF QueueInv
<1>6. blkq' \in [Servers -> Seq(Requests)] /\ QueueInv' /\ OrderInv'
  <2>1. CASE blkq' = blkq
    <3>1. QueueInv'
      <4>1. ASSUME NEW k \in Servers, NEW i \in DOMAIN blkq[k], blkq[k][i].op # "other"
            PROVE  /\ WellFormed(blkq[k][i]) /\ k = BLK_SERVICE_HANDLE /\ executed < blkq[k][i].tag
                   /\ blkq[k][i].tag <= call.id /\ blkq[k][i].tag # call.id
        BY <1>2, <1>4, <4>1
      <4>2. BLK_SERVICE_HANDLE' = BLK_SERVICE_HANDLE /\ executed' = executed /\ call'.id = call.id
        BY <1>1, <1>3
      <4> QED BY <1>5, <2>1, <4>1, <4>2, Zenon DEF QueueInv, WellFormed
    <3> QED BY <1>0, <1>2, <2>1, <3>1 DEF OrderInv
  <2>2. ASSUME NEW cap \in {LocalEndpoint, NoCap}, BLK_SERVICE_HANDLE \in Servers,
               blkq' = [blkq EXCEPT ![BLK_SERVICE_HANDLE] =
                          Append(@, Request(call.op, call.id, call.sector, call.byte, cap))]
        PROVE  blkq' \in [Servers -> Seq(Requests)] /\ QueueInv' /\ OrderInv'
    <3> DEFINE r == Request(call.op, call.id, call.sector, call.byte, cap)
               h == BLK_SERVICE_HANDLE
    <3>1. /\ r \in Requests /\ WellFormed(r) /\ r.op = call.op /\ r.op # "other" /\ r.tag = call.id
          /\ r.sector = call.sector /\ (r.op = "WRITE" => r.data[1] = call.byte)
      BY <1>2, BlkAssumption, RequestOfCall
    <3>r. blkq' = [blkq EXCEPT ![h] = Append(@, r)]
      BY <2>2
    <3> HIDE DEF r
    <3>2. /\ Append(blkq[h], r) \in Seq(Requests)
          /\ \A k \in DOMAIN blkq[h] : k \in Nat /\ k < Len(blkq[h]) + 1
          /\ DOMAIN Append(blkq[h], r) = DOMAIN blkq[h] \cup {Len(blkq[h]) + 1}
          /\ Append(blkq[h], r)[Len(blkq[h]) + 1] = r /\ Len(blkq[h]) \in Nat
          /\ \A k \in DOMAIN blkq[h] : Append(blkq[h], r)[k] = blkq[h][k]
      <4> DEFINE q == blkq[h]
      <4>1. q \in Seq(Requests) /\ r \in Requests
        BY <1>2, <2>2, <3>1
      <4> HIDE DEF q, h
      <4>2. Append(q, r) \in Seq(Requests) /\ Len(q) \in Nat
        BY <4>1
      <4>3. \A k \in DOMAIN q : k \in Nat /\ k < Len(q) + 1
        BY <4>1
      <4>4. DOMAIN Append(q, r) = DOMAIN q \cup {Len(q) + 1}
        BY <4>1
      <4>5. Append(q, r)[Len(q) + 1] = r
        BY <4>1
      <4>6. \A k \in DOMAIN q : Append(q, r)[k] = q[k]
        BY <4>1
      <4> QED BY <4>2, <4>3, <4>4, <4>5, <4>6, Zenon DEF q
    <3>3. blkq' \in [Servers -> Seq(Requests)] /\ blkq'[h] = Append(blkq[h], r)
          /\ \A k \in Servers : k # h => blkq'[k] = blkq[k]
      BY <1>2, <2>2, <3>r, <3>2
    <3> DEFINE n == Len(blkq[h]) + 1
    <3>4. ASSUME NEW k \in Servers, NEW i \in DOMAIN blkq'[k]
          PROVE  \/ i \in DOMAIN blkq[k] /\ blkq'[k][i] = blkq[k][i]
                 \/ k = h /\ i = n /\ blkq'[k][i] = r
      BY <3>2, <3>3
    <3>5. QueueInv'
      <4>1. ASSUME NEW k \in Servers, NEW i \in DOMAIN blkq'[k], blkq'[k][i].op # "other"
            PROVE  /\ WellFormed(blkq'[k][i]) /\ k = BLK_SERVICE_HANDLE /\ executed < blkq'[k][i].tag
                   /\ blkq'[k][i].tag <= call.id
                   /\ blkq'[k][i].tag = call.id => blkq'[k][i] = r
        <5>1. CASE i \in DOMAIN blkq[k] /\ blkq'[k][i] = blkq[k][i]
          <6>1. /\ WellFormed(blkq[k][i]) /\ k = BLK_SERVICE_HANDLE /\ executed < blkq[k][i].tag
                /\ blkq[k][i].tag < call.id /\ blkq[k][i].tag \in Nat
            BY <1>4, <4>1, <5>1
          <6>2. blkq[k][i].tag <= call.id /\ blkq[k][i].tag # call.id
            BY <1>2, <6>1
          <6> QED BY <5>1, <6>1, <6>2, Zenon
        <5>2. CASE k = h /\ i = n /\ blkq'[k][i] = r
          <6>1. executed < r.tag /\ r.tag <= call.id
            BY <1>2, <3>1
          <6> QED BY <3>1, <5>2, <6>1, Zenon
        <5> QED BY <3>4, <5>1, <5>2
      <4>2. \A k \in Servers : \A i \in DOMAIN blkq'[k] : blkq'[k][i].op = "other" => blkq'[k][i].cap = NoCap
        BY <1>5, <3>1, <3>4
      <4>3. /\ call'.pc \in {"wait", "idle"} /\ r.op = call'.op /\ r.sector = call'.sector
            /\ r.op = "WRITE" => r.data[1] = call'.byte
        BY <1>3, <3>1
      <4>4. BLK_SERVICE_HANDLE' = BLK_SERVICE_HANDLE /\ executed' = executed /\ call'.id = call.id
        BY <1>1, <1>3
      <4>5. ASSUME NEW k \in Servers, NEW i \in DOMAIN blkq'[k], blkq'[k][i].op # "other",
                   blkq'[k][i].tag = call.id
            PROVE  OfCall(blkq[k][i])'
        <5>1. blkq'[k][i] = r
          BY <4>1, <4>5, Zenon
        <5> QED BY <4>3, <5>1 DEF OfCall
      <4> QED BY <4>1, <4>2, <4>4, <4>5, Zenon DEF QueueInv, WellFormed
    <3>6. OrderInv'
      <4>1. ASSUME NEW k \in Servers, NEW i \in DOMAIN blkq'[k], NEW j \in DOMAIN blkq'[k], i < j,
                   blkq'[k][i].op # "other", blkq'[k][j].op # "other"
            PROVE  blkq'[k][i].tag < blkq'[k][j].tag
        <5>1. CASE i \in DOMAIN blkq[k] /\ j \in DOMAIN blkq[k] /\ blkq'[k][i] = blkq[k][i]
                   /\ blkq'[k][j] = blkq[k][j]
          BY <1>0, <4>1, <5>1 DEF OrderInv
        <5>2. CASE i \in DOMAIN blkq[k] /\ blkq'[k][i] = blkq[k][i] /\ blkq'[k][j] = r
          BY <1>4, <3>1, <4>1, <5>2
        <5>3. i # n
          <6>1. CASE k = h
            <7>1. j \in Nat /\ n \in Nat /\ (j < n \/ j = n)
              BY <3>2, <3>3, <6>1
            <7> HIDE DEF n
            <7> QED BY <4>1, <7>1
          <6>2. CASE k # h
            <7>1. DOMAIN blkq'[k] = DOMAIN blkq[k] /\ blkq'[k] = blkq[k]
              BY <3>3, <6>2
            <7>2. k = h
              BY <1>4, <4>1, <7>1
            <7> QED BY <6>2, <7>2
          <6> QED BY <6>1, <6>2
        <5> HIDE DEF n, h
        <5> QED BY <3>4, <5>1, <5>2, <5>3
      <4> QED BY <4>1 DEF OrderInv
    <3> QED BY <3>3, <3>5, <3>6
  <2> QED BY <2>1, <2>2, Zenon DEF SendRequest
<1>7. AnswersInv'
  <2>1. ASSUME NEW i \in DOMAIN fsq, fsq[i].kind = "answer"
        PROVE  fsq[i].cap = NoCap /\ fsq[i].tag <= executed /\ fsq[i].tag # call.id
    <3>1. fsq[i] \in MsgType
      BY <1>0 DEF ChannelType
    <3>2. fsq[i].tag \in Nat /\ fsq[i].cap = NoCap /\ fsq[i].tag <= executed
      BY <1>0, <2>1, <3>1 DEF AnswersInv, MsgType
    <3> QED BY <1>2, <3>2
  <2> QED BY <1>0, <1>1, <1>3, <2>1 DEF AnswersInv
<1>8. ChannelType' /\ HandleInv' /\ ExecutedInv'
  BY <1>0, <1>1, <1>2, <1>3, <1>6 DEF ChannelType, HandleInv, ExecutedInv
<1>9. ClientInv'
  BY <1>0, <1>1 DEF ClientInv
<1> QED BY <1>6, <1>7, <1>8, <1>9 DEF ChannelInv

(* fs waits, gives up, answers, or takes an answer for its own.            *)
LEMMA ReceivingInv ==
  ASSUME ChannelInv, CallKept, StrayAdded,
         UNCHANGED <<lookups, BLK_REQ_ID, BLK_SERVICE_HANDLE, srvVars, asks, lost>>,
         \/ fsq' = fsq /\ waiting' = waiting
         \/ fsq # << >> /\ fsq' = Tail(fsq) /\ waiting' = waiting \ {Head(fsq).cap}
  PROVE  ChannelInv'
<1>0. ChannelType /\ HandleInv /\ QueueInv /\ OrderInv /\ ExecutedInv /\ AnswersInv /\ ClientInv
  BY DEF ChannelInv
<1>1. UNCHANGED <<lookups, BLK_REQ_ID, BLK_SERVICE_HANDLE, disk, started, running, srv, executed, asks, lost>>
  BY DEF srvVars
<1>2. QueueInv' /\ OrderInv' /\ blkq' \in [Servers -> Seq(Requests)]
  BY <1>0, <1>1, QueuesKept
<1>3. AnswersInv' /\ fsq' \in Seq(MsgType)
  BY <1>0, <1>1, AnswersKept
<1>4. ExecutedInv'
  BY <1>0, <1>1, ExecutedKept
<1>5. ClientInv'
  <2>1. CASE fsq' = fsq /\ waiting' = waiting
    BY <1>0, <1>1, <2>1 DEF ClientInv
  <2>2. CASE fsq # << >> /\ fsq' = Tail(fsq) /\ waiting' = waiting \ {Head(fsq).cap}
    BY <1>0, <1>1, <2>2, ClientHead
  <2> QED BY <2>1, <2>2
<1>6. ChannelType'
  BY <1>0, <1>1, <1>2, <1>3 DEF ChannelType, CallKept
<1>7. HandleInv'
  BY <1>0, <1>1 DEF HandleInv, CallKept
<1> QED BY <1>2, <1>3, <1>4, <1>5, <1>6, <1>7 DEF ChannelInv

(* The answer that is taken holds a byte.                                  *)
LEMMA ReceiveKeepsCall ==
  ASSUME ChannelInv, RecvNothing \/ RecvMessage \/ GiveUp \/ MainLoop
  PROVE  CallKept
<1>0. ChannelType /\ AnswersInv /\ call \in CallType /\ fsq \in Seq(MsgType) /\ call.tries \in Nat
      /\ disk \in Disk
  BY DEF ChannelInv, ChannelType, CallType
<1>1. ASSUME Retry PROVE CallKept
  BY <1>0, <1>1 DEF Retry, CallKept, CallType
<1>2. ASSUME call.pc = "wait", NEW ok \in BOOLEAN, Return(ok, call.byte) PROVE CallKept
  BY <1>0, <1>2, Zenon DEF Return, CallKept, CallType
<1>3. ASSUME call.pc = "wait", call.op = "READ", NEW b \in Byte, Return(TRUE, b) PROVE CallKept
  BY <1>0, <1>3, Zenon DEF Return, CallKept, CallType
<1>4. CASE RecvNothing
  BY <1>1, <1>4 DEF RecvNothing
<1>5. CASE GiveUp
  BY <1>2, <1>5, Zenon DEF GiveUp
<1>6. CASE MainLoop
  BY <1>0, <1>6 DEF MainLoop, fsVars, CallKept
<1>7. CASE RecvMessage
  <2>1. call.pc = "wait" /\ fsq # << >> /\ (Retry \/ (Matches(Head(fsq)) /\ Take(Head(fsq).reply)))
    BY <1>7 DEF RecvMessage
  <2>2. ASSUME Matches(Head(fsq)), Take(Head(fsq).reply) PROVE CallKept
    <3>1. 1 \in DOMAIN fsq /\ Head(fsq) = fsq[1]
      BY <1>0, <2>1, QueueTail
    <3>2. Right(Head(fsq).reply)
      BY <1>0, <2>1, <2>2, <3>1 DEF AnswersInv, Matches
    <3>3. disk[call.sector * SECTOR_SIZE] \in Byte
      <4>1. call.sector \in Sectors
        BY <1>0 DEF CallType
      <4>2. call.sector * SECTOR_SIZE \in Addr
        BY <4>1, BlkAssumption, SectorPlaces
      <4> QED BY <1>0, <4>2 DEF Disk
    <3>4. CASE call.op = "READ" /\ Head(fsq).reply.status = "DATA"
      <4>1. Head(fsq).reply.data[1] \in Byte
        BY <3>2, <3>3, <3>4 DEF Right
      <4> QED BY <1>3, <2>1, <2>2, <3>4, <4>1, Zenon DEF Take
    <3>5. CASE ~(call.op = "READ" /\ Head(fsq).reply.status = "DATA")
      <4>1. \E ok \in BOOLEAN : Return(ok, call.byte)
        BY <2>2, <3>5, Zenon DEF Take
      <4> QED BY <1>2, <2>1, <4>1
    <3> QED BY <3>4, <3>5
  <2> QED BY <1>1, <2>1, <2>2
<1> QED BY <1>4, <1>5, <1>6, <1>7

LEMMA ReceiveInv ==
  ASSUME ChannelInv, RecvNothing \/ RecvMessage \/ GiveUp \/ MainLoop
  PROVE  ChannelInv'
<1>0. ChannelType /\ fsq \in Seq(MsgType) /\ waiting \subseteq Clients /\ NoCap \notin waiting
  BY ChannelAssumption DEF ChannelInv, ChannelType, ChannelAssumption
<1>1. CallKept
  BY ReceiveKeepsCall
<1>2. ASSUME AnswerHead
      PROVE  StrayAdded /\ waiting' = waiting \ {Head(fsq).cap} /\ UNCHANGED <<asks, lost>>
  BY <1>2, Zenon DEF AnswerHead, StrayAdded
<1>3. ASSUME UNCHANGED <<cliVars, blkq>>
      PROVE  StrayAdded /\ waiting' = waiting /\ UNCHANGED <<asks, lost>>
  BY <1>3 DEF cliVars, StrayAdded
<1>4. Head(fsq).cap = NoCap => waiting = waiting \ {Head(fsq).cap}
  BY <1>0
<1>5. CASE RecvNothing \/ GiveUp
  <2>1. UNCHANGED <<lookups, BLK_REQ_ID, BLK_SERVICE_HANDLE, srvVars, cliVars, blkq, fsq>>
    BY <1>5, Zenon DEF RecvNothing, GiveUp
  <2> QED BY <1>1, <1>3, <2>1, ReceivingInv
<1>6. CASE RecvMessage
  <2>1. /\ fsq # << >> /\ fsq' = Tail(fsq)
        /\ UNCHANGED <<lookups, BLK_REQ_ID, BLK_SERVICE_HANDLE, srvVars>>
        /\ \/ AnswerHead
           \/ Head(fsq).cap = NoCap /\ UNCHANGED <<cliVars, blkq>>
    BY <1>6 DEF RecvMessage, Backpressure
  <2>2. StrayAdded /\ waiting' = waiting \ {Head(fsq).cap} /\ UNCHANGED <<asks, lost>>
    BY <1>2, <1>3, <1>4, <2>1
  <2> QED BY <1>1, <2>1, <2>2, ReceivingInv
<1>7. CASE MainLoop
  <2>1. /\ UNCHANGED <<lookups, BLK_REQ_ID, BLK_SERVICE_HANDLE, srvVars>>
        /\ \/ fsq' = fsq /\ UNCHANGED <<cliVars, blkq>>
           \/ /\ fsq # << >> /\ fsq' = Tail(fsq)
              /\ AnswerHead \/ (Head(fsq).cap = NoCap /\ UNCHANGED <<cliVars, blkq>>)
    BY <1>7 DEF MainLoop, fsVars
  <2>2. CASE fsq' = fsq /\ UNCHANGED <<cliVars, blkq>>
    BY <1>1, <1>3, <2>1, <2>2, ReceivingInv
  <2>3. CASE /\ fsq # << >> /\ fsq' = Tail(fsq)
             /\ AnswerHead \/ (Head(fsq).cap = NoCap /\ UNCHANGED <<cliVars, blkq>>)
    <3>1. StrayAdded /\ waiting' = waiting \ {Head(fsq).cap} /\ UNCHANGED <<asks, lost>>
      BY <1>2, <1>3, <1>4, <2>3
    <3> QED BY <1>1, <2>1, <2>3, <3>1, ReceivingInv
  <2> QED BY <2>1, <2>2, <2>3
<1> QED BY <1>5, <1>6, <1>7

-----------------------------------------------------------------------------
(* init, the clients and the servers *)

LEMMA MessageIsMsg ==
  ASSUME NEW kind \in {"lookup", "client", "answer"}, NEW tag \in Nat, NEW reply \in ReplyType,
         NEW cap \in {NoCap} \cup Servers \cup Clients
  PROVE  /\ Message(kind, tag, reply, cap) \in MsgType
         /\ Message(kind, tag, reply, cap).kind = kind /\ Message(kind, tag, reply, cap).tag = tag
         /\ Message(kind, tag, reply, cap).reply = reply /\ Message(kind, tag, reply, cap).cap = cap
  BY DEF Message, MsgType

(* A message for fs that is not an answer of a block server.               *)
LEMMA AnswersAppend ==
  ASSUME ChannelType, AnswersInv, NEW m \in MsgType, m.kind # "answer",
         m.kind = "lookup" => m.cap \in {NoCap} \cup 1 .. started,
         fsq' = Append(fsq, m), UNCHANGED <<executed, disk, started, call>>
  PROVE  AnswersInv' /\ fsq' \in Seq(MsgType)
<1>0. fsq \in Seq(MsgType)
  BY DEF ChannelType
<1>1. /\ fsq' \in Seq(MsgType)
      /\ \A i \in DOMAIN fsq' : (i \in DOMAIN fsq /\ fsq'[i] = fsq[i]) \/ fsq'[i] = m
  BY <1>0, QueueAppend
<1>2. ASSUME NEW i \in DOMAIN fsq'
      PROVE  /\ fsq'[i].kind = "lookup" => fsq'[i].cap \in {NoCap} \cup 1 .. started
             /\ fsq'[i].kind = "answer" =>
                  /\ fsq'[i].cap = NoCap /\ fsq'[i].tag <= executed
                  /\ fsq'[i].tag = call.id /\ call.pc = "wait" => Right(fsq[i].reply)'
  BY <1>1 DEF AnswersInv, Right
<1> QED BY <1>1, <1>2 DEF AnswersInv

LEMMA ArrivalInv ==
  ASSUME ChannelInv, AnswerLookup \/ \E c \in Clients : Ask(c)
  PROVE  ChannelInv'
<1>0. ChannelType /\ HandleInv /\ QueueInv /\ OrderInv /\ ExecutedInv /\ AnswersInv /\ ClientInv
  BY DEF ChannelInv
<1>1. UNCHANGED <<BLK_REQ_ID, BLK_SERVICE_HANDLE, call, disk, started, running, srv, executed, lost, blkq>>
  BY Zenon DEF AnswerLookup, Ask, fsVars, srvVars, cliVars
<1>2. MaxServers \in Nat /\ started \in 0 .. MaxServers /\ NoCap \notin Clients
      /\ Clients \cap 1 .. MaxServers = {} /\ asks \in Nat /\ lookups \in Nat /\ waiting \subseteq Clients
  BY <1>0, ChannelAssumption DEF ChannelAssumption, ChannelType
<1>3. \A s \in {"OK", ""} : Status(s) \in ReplyType
  BY StatusIsReply, Zenon
<1>4. \E m \in MsgType :
        /\ m.kind # "answer" /\ (m.kind = "lookup" => m.cap \in {NoCap} \cup 1 .. started)
        /\ fsq' = Append(fsq, m) /\ lookups' \in Nat /\ asks' \in Nat
        /\ \/ m.cap \notin Clients /\ waiting' = waiting
           \/ m.cap \in Clients \ waiting /\ waiting' = waiting \cup {m.cap}
  <2>1. CASE AnswerLookup
    <3>1. PICK cap \in {NoCap} \cup 1 .. started :
                 fsq' = Append(fsq, Message("lookup", 0, Status("OK"), cap))
      BY <2>1 DEF AnswerLookup
    <3> DEFINE m == Message("lookup", 0, Status("OK"), cap)
    <3>2. cap \in {NoCap} \cup Servers \cup Clients /\ cap \notin Clients
      BY <1>2 DEF Servers
    <3>3. m \in MsgType /\ m.kind = "lookup" /\ m.cap = cap
      <4>1. Status("OK") \in ReplyType
        BY <1>3, Zenon
      <4> DEFINE x == Status("OK")
      <4>2. x \in ReplyType
        BY <4>1
      <4> HIDE DEF x
      <4>3. Message("lookup", 0, x, cap) \in MsgType /\ Message("lookup", 0, x, cap).kind = "lookup"
            /\ Message("lookup", 0, x, cap).cap = cap
        BY <3>2, <4>2, MessageIsMsg
      <4> QED BY <4>3 DEF x
    <3>4. lookups' \in Nat /\ asks' \in Nat /\ waiting' = waiting
      BY <1>2, <2>1 DEF AnswerLookup, cliVars
    <3> HIDE DEF m
    <3>5. fsq' = Append(fsq, m)
      BY <3>1 DEF m
    <3> QED BY <3>2, <3>3, <3>4, <3>5
  <2>2. ASSUME NEW c \in Clients, Ask(c) PROVE <1>4
    <3>1. lookups' \in Nat /\ asks' \in Nat /\ c \notin waiting
      <4>1. lookups' = lookups /\ asks' = asks + 1 /\ c \notin waiting
        BY <2>2, Zenon DEF Ask, fsVars
      <4> QED BY <1>2, <4>1
    <3>2. ASSUME NEW cap \in {c, NoCap}, fsq' = Append(fsq, Message("client", 0, Status(""), cap)),
                 (cap = c /\ waiting' = waiting \cup {c}) \/ (cap = NoCap /\ waiting' = waiting)
          PROVE  <1>4
      <4> DEFINE m == Message("client", 0, Status(""), cap)
      <4>1. m \in MsgType /\ m.kind = "client" /\ m.cap = cap
        <5>1. Status("") \in ReplyType
          BY <1>3, Zenon
        <5> DEFINE x == Status("")
        <5>2. x \in ReplyType
          BY <5>1, Zenon
        <5> HIDE DEF x
        <5>3. Message("client", 0, x, cap) \in MsgType /\ Message("client", 0, x, cap).kind = "client"
              /\ Message("client", 0, x, cap).cap = cap
          BY <5>2, MessageIsMsg
        <5> QED BY <5>3, Zenon DEF x
      <4>2. fsq' = Append(fsq, m)
        BY <3>2, Zenon
      <4> HIDE DEF m
      <4> QED BY <1>2, <3>1, <3>2, <4>1, <4>2, Zenon
    <3> QED BY <2>2, <3>2, Zenon DEF Ask
  <2> QED BY <2>1, <2>2
<1>5. PICK m \in MsgType :
        /\ m.kind # "answer" /\ (m.kind = "lookup" => m.cap \in {NoCap} \cup 1 .. started)
        /\ fsq' = Append(fsq, m) /\ lookups' \in Nat /\ asks' \in Nat
        /\ \/ m.cap \notin Clients /\ waiting' = waiting
           \/ m.cap \in Clients \ waiting /\ waiting' = waiting \cup {m.cap}
  BY <1>4
<1>6. AnswersInv' /\ fsq' \in Seq(MsgType)
  BY <1>0, <1>1, <1>5, AnswersAppend
<1>7. ClientInv'
  BY <1>0, <1>1, <1>5, ClientAppend
<1>8. QueueInv' /\ OrderInv' /\ ExecutedInv' /\ HandleInv'
  <2>1. QueueInv'
    BY <1>0, <1>1, QueueSame
  <2> QED BY <1>0, <1>1, <2>1 DEF OrderInv, ExecutedInv, HandleInv
<1>9. ChannelType'
  BY <1>0, <1>1, <1>2, <1>5, <1>6 DEF ChannelType
<1> QED BY <1>6, <1>7, <1>8, <1>9 DEF ChannelInv

LEMMA ServersInv ==
  ASSUME ChannelInv, StartServer \/ \E k \in Servers : Die(k)
  PROVE  ChannelInv'
<1>0. ChannelType /\ HandleInv /\ QueueInv /\ OrderInv /\ ExecutedInv /\ AnswersInv /\ ClientInv
  BY DEF ChannelInv
<1>1. UNCHANGED <<lookups, BLK_REQ_ID, BLK_SERVICE_HANDLE, call, disk, srv, executed, asks, waiting, lost,
                  blkq, fsq>>
  BY DEF StartServer, Die, fsVars, srvVars, cliVars
<1>2. /\ started \in Nat /\ started' \in 0 .. MaxServers /\ started <= started'
      /\ running' \subseteq 1 .. started'
  <2>1. MaxServers \in Nat /\ started \in 0 .. MaxServers /\ running \subseteq 1 .. started
    BY <1>0, ChannelAssumption DEF ChannelAssumption, ChannelType
  <2>2. CASE StartServer
    BY <2>1, <2>2 DEF StartServer
  <2>3. CASE \E k \in Servers : Die(k)
    BY <2>1, <2>3 DEF Die
  <2> QED BY <2>2, <2>3
<1>3. ChannelType'
  BY <1>0, <1>1, <1>2 DEF ChannelType
<1>4. HandleInv'
  <2>1. BLK_SERVICE_HANDLE \in Servers => BLK_SERVICE_HANDLE <= started /\ BLK_SERVICE_HANDLE \in Nat
    BY <1>0 DEF HandleInv, Servers
  <2>2. started' \in Nat
    BY <1>2
  <2>3. BLK_SERVICE_HANDLE \in Servers => BLK_SERVICE_HANDLE <= started'
    BY <1>2, <2>1, <2>2
  <2> QED BY <1>0, <1>1, <2>3 DEF HandleInv
<1>5. QueueInv'
  BY <1>0, <1>1, QueueSame
<1>6. AnswersInv'
  <2>1. 1 .. started \subseteq 1 .. started'
    BY <1>2
  <2> QED BY <1>0, <1>1, <2>1, Zenon DEF AnswersInv, Right
<1>7. OrderInv' /\ ExecutedInv' /\ ClientInv'
  BY <1>0, <1>1 DEF OrderInv, ExecutedInv, ClientInv
<1> QED BY <1>3, <1>4, <1>5, <1>6, <1>7 DEF ChannelInv

(* A turn of a server: nothing is carried out, and at most a message       *)
(* without a capability goes; or the first request is.                     *)
Ignored(k) ==
  /\ UNCHANGED <<disk, fsq, executed>>
  /\ \/ blkq' = blkq
     \/ blkq[k] # << >> /\ blkq' = [blkq EXCEPT ![k] = Tail(@)] /\ Head(blkq[k]).cap = NoCap

CarriedOut(k, m, o) ==
  /\ blkq[k] # << >> /\ m = Head(blkq[k]) /\ blkq' = [blkq EXCEPT ![k] = Tail(@)]
  /\ m \in Requests /\ m.op \in {"READ", "WRITE"} /\ m.cap # NoCap /\ WellFormed(m) /\ k = BLK_SERVICE_HANDLE
  /\ o \in Outcomes(Received(m, srv[k].data), disk, FALSE)
  /\ disk' = o.disk /\ executed' = m.tag
  /\ fsq' = Append(fsq, Message("answer", m.tag, o.reply, NoCap))

LEMMA ServeCases ==
  ASSUME ChannelType, QueueInv, NEW k \in Servers, Serve(k)
  PROVE  /\ srv' \in [Servers -> ReqType(Buffer)] /\ k \in running
         /\ UNCHANGED <<lookups, BLK_REQ_ID, BLK_SERVICE_HANDLE, call, started, running, asks, waiting, lost>>
         /\ Ignored(k) \/ \E m, o : CarriedOut(k, m, o)
<1>0. srv \in [Servers -> ReqType(Buffer)] /\ blkq \in [Servers -> Seq(Requests)]
  BY DEF ChannelType
<1>1. /\ UNCHANGED <<lookups, BLK_REQ_ID, BLK_SERVICE_HANDLE, call, started, running, asks, waiting, lost>>
      /\ k \in running
  BY DEF Serve, fsVars, cliVars
<1> DEFINE r == sys_ipc_recv(k)
<1>2. /\ srv' = [srv EXCEPT ![k] = r]
      /\ blkq' = IF blkq[k] # << >> THEN [blkq EXCEPT ![k] = Tail(@)] ELSE blkq
      /\ \/ (r.len < 2 \/ r.cap = NoCap) /\ UNCHANGED <<disk, fsq, executed>>
         \/ /\ r.cap # NoCap
            /\ \E o \in Outcomes(r, disk, FALSE) :
                 /\ disk' = o.disk /\ executed' = r.tag
                 /\ fsq' = Append(fsq, Message("answer", r.tag, o.reply, NoCap))
  BY Zenon DEF Serve
<1>3. CASE blkq[k] = << >>
  <2>1. r = [srv[k] EXCEPT !.len = ERRNO, !.cap = NoCap] /\ srv[k] \in ReqType(Buffer) /\ ERRNO \in Nat
    BY <1>0, <1>3, ChannelAssumption DEF sys_ipc_recv, ChannelAssumption
  <2>2. r \in ReqType(Buffer) /\ r.cap = NoCap
    <3> HIDE DEF r
    <3> QED BY <2>1, Zenon DEF ReqType
  <2> HIDE DEF r
  <2>3. srv' \in [Servers -> ReqType(Buffer)]
    BY <1>0, <1>2, <2>2
  <2>4. Ignored(k)
    BY <1>2, <1>3, <2>2 DEF Ignored
  <2> QED BY <1>1, <2>3, <2>4
<1>4. CASE blkq[k] # << >>
  <2> DEFINE m == Head(blkq[k])
             buf == srv[k].data
  <2>1. r = Received(m, buf)
    BY <1>4 DEF sys_ipc_recv
  <2>2. m \in Requests /\ m = blkq[k][1] /\ 1 \in DOMAIN blkq[k]
    <3>1. blkq[k] \in Seq(Requests)
      BY <1>0
    <3> QED BY <1>4, <3>1, QueueTail
  <2>3. buf \in Buffer
    <3>1. srv[k] \in ReqType(Buffer)
      BY <1>0
    <3> QED BY <3>1 DEF ReqType
  <2> HIDE DEF m, buf
  <2>4. /\ Received(m, buf) \in ReqType(Buffer) /\ Received(m, buf).cap = m.cap
        /\ Received(m, buf).tag = m.tag /\ (m.len <= REQ_BUF_LEN => Received(m, buf).len = m.len)
    BY <2>2, <2>3, BlkAssumption, ReceivedParts
  <2> HIDE DEF r
  <2>5. srv' \in [Servers -> ReqType(Buffer)]
    BY <1>0, <1>2, <2>1, <2>4, Zenon
  <2>6. m.cap # NoCap => /\ m.op \in {"READ", "WRITE"} /\ WellFormed(m) /\ k = BLK_SERVICE_HANDLE
    <3>1. m.op \in {"READ", "WRITE", "other"}
      BY <2>2 DEF Requests, ReqType
    <3> QED BY <2>2, <3>1 DEF QueueInv
  <2>7. m.cap # NoCap => ~(r.len < 2)
    <3>1. ASSUME m.cap # NoCap PROVE r.len = m.len /\ m.len \in Nat /\ m.len >= 18
      <4>1. m.len = RW_TAGGED_HDR_LEN + (IF m.op = "WRITE" THEN SECTOR_SIZE ELSE 0)
        BY <2>6, <3>1 DEF WellFormed
      <4>2. m.len \in Nat /\ m.len >= 18 /\ m.len <= REQ_BUF_LEN
        BY <4>1, BlkAssumption, BufferSizes
      <4> QED BY <2>1, <2>4, <4>2
    <3>2. \A n \in Nat : n >= 18 => ~(n < 2)
      OBVIOUS
    <3> QED BY <3>1, <3>2
  <2>8. CASE UNCHANGED <<disk, fsq, executed>> /\ m.cap = NoCap
    BY <1>1, <1>2, <1>4, <2>5, <2>8, Zenon DEF Ignored, m
  <2>9. ASSUME m.cap # NoCap, NEW o \in Outcomes(r, disk, FALSE), disk' = o.disk, executed' = r.tag,
               fsq' = Append(fsq, Message("answer", r.tag, o.reply, NoCap))
        PROVE  CarriedOut(k, m, o)
    <3>1. o \in Outcomes(Received(m, srv[k].data), disk, FALSE)
      BY <2>1, <2>9, Zenon DEF buf
    <3>2. r.tag = m.tag
      BY <2>1, <2>4, Zenon
    <3> QED BY <1>2, <1>4, <2>2, <2>6, <2>9, <3>1, <3>2, Zenon DEF CarriedOut, m
  <2>10. r.cap = m.cap
    BY <2>1, <2>4
  <2>11. CASE (r.len < 2 \/ r.cap = NoCap) /\ UNCHANGED <<disk, fsq, executed>>
    BY <2>7, <2>8, <2>10, <2>11
  <2>12. CASE /\ r.cap # NoCap
              /\ \E o \in Outcomes(r, disk, FALSE) :
                   /\ disk' = o.disk /\ executed' = r.tag
                   /\ fsq' = Append(fsq, Message("answer", r.tag, o.reply, NoCap))
    BY <1>1, <2>5, <2>9, <2>10, <2>12, Zenon
  <2> QED BY <1>2, <2>11, <2>12, Zenon
<1> QED BY <1>3, <1>4

(* A queue loses its first message.                                        *)
LEMMA QueuesTail ==
  ASSUME ChannelType, NEW k \in Servers, blkq[k] # << >>, blkq' = [blkq EXCEPT ![k] = Tail(@)]
  PROVE  /\ blkq' \in [Servers -> Seq(Requests)] /\ 1 \in DOMAIN blkq[k] /\ Head(blkq[k]) = blkq[k][1]
         /\ \A s \in Servers : \A i \in DOMAIN blkq'[s] : i \in Nat
         /\ \A s \in Servers : s # k => blkq'[s] = blkq[s]
         /\ \A i \in DOMAIN blkq'[k] : i + 1 \in DOMAIN blkq[k] /\ 1 < i + 1 /\ blkq'[k][i] = blkq[k][i + 1]
         /\ \A i \in DOMAIN blkq[k] : i # 1 => i - 1 \in DOMAIN blkq'[k] /\ blkq[k][i] = blkq'[k][i - 1]
<1>1. blkq \in [Servers -> Seq(Requests)] /\ blkq[k] \in Seq(Requests)
  BY DEF ChannelType
<1>2. /\ Tail(blkq[k]) \in Seq(Requests) /\ Head(blkq[k]) = blkq[k][1] /\ 1 \in DOMAIN blkq[k]
      /\ \A j \in DOMAIN Tail(blkq[k]) : /\ j \in Nat /\ j + 1 \in DOMAIN blkq[k] /\ 1 < j + 1
                                         /\ Tail(blkq[k])[j] = blkq[k][j + 1]
      /\ \A i \in DOMAIN blkq[k] : i # 1 => i - 1 \in DOMAIN Tail(blkq[k]) /\ blkq[k][i] = Tail(blkq[k])[i - 1]
  BY <1>1, QueueTail
<1>3. blkq' \in [Servers -> Seq(Requests)] /\ blkq'[k] = Tail(blkq[k])
      /\ \A s \in Servers : s # k => blkq'[s] = blkq[s]
  BY <1>1, <1>2
<1>4. \A s \in Servers : \A i \in DOMAIN blkq'[s] : i \in Nat
  BY <1>3
<1> QED BY <1>2, <1>3, <1>4

LEMMA ServeOrder ==
  ASSUME ChannelType, OrderInv, NEW k \in Servers, blkq[k] # << >>, blkq' = [blkq EXCEPT ![k] = Tail(@)]
  PROVE  OrderInv'
<1>1. ASSUME NEW s \in Servers, NEW i \in DOMAIN blkq'[s], NEW j \in DOMAIN blkq'[s], i < j,
             blkq'[s][i].op # "other", blkq'[s][j].op # "other"
      PROVE  blkq'[s][i].tag < blkq'[s][j].tag
  <2>1. CASE s = k
    <3>0. /\ \A n \in DOMAIN blkq'[k] : n \in Nat
          /\ \A n \in DOMAIN blkq'[k] : n + 1 \in DOMAIN blkq[k] /\ blkq'[k][n] = blkq[k][n + 1]
      BY QueuesTail, Zenon
    <3>1. i + 1 \in DOMAIN blkq[k] /\ j + 1 \in DOMAIN blkq[k] /\ blkq'[k][i] = blkq[k][i + 1]
          /\ blkq'[k][j] = blkq[k][j + 1] /\ i + 1 < j + 1
      BY <1>1, <2>1, <3>0
    <3> QED BY <1>1, <2>1, <3>1 DEF OrderInv
  <2>2. CASE s # k
    <3>1. blkq'[s] = blkq[s]
      BY <2>2, QueuesTail
    <3> QED BY <1>1, <3>1, Zenon DEF OrderInv
  <2> QED BY <2>1, <2>2
<1> QED BY <1>1 DEF OrderInv

(* The answer is right when it is given; the older ones are of older       *)
(* calls, and what is left in the queue is younger.                        *)
LEMMA ServeInv ==
  ASSUME ChannelInv, NEW k \in Servers, Serve(k)
  PROVE  ChannelInv'
<1>0. ChannelType /\ HandleInv /\ QueueInv /\ OrderInv /\ ExecutedInv /\ AnswersInv /\ ClientInv
  BY DEF ChannelInv
<1>1. /\ srv' \in [Servers -> ReqType(Buffer)]
      /\ UNCHANGED <<lookups, BLK_REQ_ID, BLK_SERVICE_HANDLE, call, started, running, asks, waiting, lost>>
      /\ Ignored(k) \/ \E m, o : CarriedOut(k, m, o)
  BY <1>0, ServeCases
<1>2. CASE Ignored(k)
  <2>1. disk' = disk /\ fsq' = fsq /\ executed' = executed
    BY <1>2 DEF Ignored
  <2>2. AnswersInv' /\ ClientInv' /\ ExecutedInv' /\ HandleInv'
    <3>1. AnswersInv'
      BY <1>0, <1>1, <2>1, AnswersSame
    <3> QED BY <1>0, <1>1, <2>1, <3>1 DEF ClientInv, ExecutedInv, HandleInv
  <2>3. CASE blkq' = blkq
    <3>1. QueueInv'
      BY <1>0, <1>1, <2>1, <2>3, QueueSame
    <3>2. OrderInv' /\ ChannelType'
      BY <1>0, <1>1, <2>1, <2>3, Zenon DEF OrderInv, ChannelType
    <3> QED BY <2>2, <3>1, <3>2 DEF ChannelInv
  <2>4. CASE blkq[k] # << >> /\ blkq' = [blkq EXCEPT ![k] = Tail(@)]
    <3>1. /\ blkq' \in [Servers -> Seq(Requests)]
          /\ \A s \in Servers : \A i \in DOMAIN blkq'[s] : \E j \in DOMAIN blkq[s] : blkq'[s][i] = blkq[s][j]
      <4>1. /\ blkq' \in [Servers -> Seq(Requests)]
            /\ \A s \in Servers : s # k => blkq'[s] = blkq[s]
            /\ \A i \in DOMAIN blkq'[k] : i + 1 \in DOMAIN blkq[k] /\ blkq'[k][i] = blkq[k][i + 1]
        BY <1>0, <2>4, QueuesTail, Zenon
      <4> QED BY <4>1, Zenon
    <3>2. QueueInv'
      BY <1>0, <1>1, <2>1, <3>1, QueueFewer
    <3>3. OrderInv'
      BY <1>0, <2>4, ServeOrder, Zenon
    <3>4. ChannelType'
      BY <1>0, <1>1, <2>1, <3>1, Zenon DEF ChannelType
    <3> QED BY <2>2, <3>2, <3>3, <3>4 DEF ChannelInv
  <2> QED BY <1>2, <2>3, <2>4 DEF Ignored
<1>3. ASSUME NEW m, NEW o, CarriedOut(k, m, o) PROVE ChannelInv'
  <2>q. blkq[k] # << >> /\ m = Head(blkq[k]) /\ blkq' = [blkq EXCEPT ![k] = Tail(@)]
    BY <1>3, Zenon DEF CarriedOut
  <2>m. m \in Requests /\ m.op \in {"READ", "WRITE"} /\ WellFormed(m)
    BY <1>3, Zenon DEF CarriedOut
  <2>h. k = BLK_SERVICE_HANDLE /\ m.op # "other" /\ executed' = m.tag
    <3>1. k = BLK_SERVICE_HANDLE /\ executed' = m.tag
      BY <1>3, Zenon DEF CarriedOut
    <3> QED BY <2>m, <3>1
  <2>o. o \in Outcomes(Received(m, srv[k].data), disk, FALSE)
    BY <1>3, Zenon DEF CarriedOut
  <2>d. disk' = o.disk
    BY <1>3, Zenon DEF CarriedOut
  <2>2. disk \in Disk /\ srv[k].data \in Buffer /\ call.id \in Nat /\ executed \in Nat /\ m.tag \in Nat
    <3>1. srv[k] \in ReqType(Buffer) /\ call \in CallType /\ disk \in Disk /\ executed \in Nat
      BY <1>0 DEF ChannelType
    <3> QED BY <2>m, <3>1 DEF ReqType, Requests, CallType
  <2>3. /\ o.disk \in Disk /\ o.reply \in ReplyType
        /\ m.op = "READ" /\ o.reply.status = "DATA" => o.reply.data[1] = o.disk[m.sector * SECTOR_SIZE]
        /\ m.op = "WRITE" /\ o.reply.status = "OK" => o.disk[m.sector * SECTOR_SIZE] = m.data[1]
    BY <2>m, <2>o, <2>2, BlkAssumption, OutcomesOfRequest, Zenon
  <2>4. /\ blkq' \in [Servers -> Seq(Requests)] /\ 1 \in DOMAIN blkq[k] /\ m = blkq[k][1]
        /\ \A s \in Servers : \A i \in DOMAIN blkq'[s] : i \in Nat
        /\ \A s \in Servers : s # k => blkq'[s] = blkq[s]
        /\ \A i \in DOMAIN blkq'[k] : i + 1 \in DOMAIN blkq[k] /\ 1 < i + 1 /\ blkq'[k][i] = blkq[k][i + 1]
    BY <1>0, <2>q, QueuesTail, Zenon
  <2>5. executed < m.tag /\ m.tag <= call.id /\ (m.tag = call.id => OfCall(m))
    <3>1. 1 \in DOMAIN blkq[k] /\ m = blkq[k][1] /\ m.op # "other"
      BY <2>h, <2>4
    <3> QED BY <1>0, <3>1, Zenon DEF QueueInv
  <2>6. QueueInv'
    <3>0. ASSUME NEW s \in Servers, NEW j \in DOMAIN blkq[s], NEW r, r = blkq[s][j]
          PROVE  /\ r.op = "other" => r.cap = NoCap
                 /\ r.op # "other" =>
                      /\ WellFormed(r) /\ s = k /\ r.tag <= call.id
                      /\ r.tag = call.id => OfCall(r)
      <4>1. k = BLK_SERVICE_HANDLE
        BY <2>h
      <4> QED BY <1>0, <3>0, <4>1, Zenon DEF QueueInv
    <3>1. ASSUME NEW s \in Servers, NEW i \in DOMAIN blkq'[s], NEW r, r = blkq'[s][i]
          PROVE  \E j \in DOMAIN blkq[s] : r = blkq[s][j] /\ (r.op # "other" => m.tag < r.tag)
      <4>1. CASE s = k
        <5>1. i + 1 \in DOMAIN blkq[k] /\ 1 < i + 1 /\ r = blkq[k][i + 1]
          BY <2>4, <3>1, <4>1
        <5>2. r.op # "other" => m.tag < r.tag
          BY <1>0, <2>h, <2>4, <5>1 DEF OrderInv
        <5> QED BY <4>1, <5>1, <5>2
      <4>2. CASE s # k
        <5>1. blkq'[s] = blkq[s]
          BY <2>4, <4>2
        <5>2. r.op = "other"
          BY <3>0, <3>1, <4>2, <5>1
        <5> QED BY <3>1, <5>1, <5>2
      <4> QED BY <4>1, <4>2
    <3>2. \A r : OfCall(r)' <=> OfCall(r)
      BY <1>1 DEF OfCall
    <3>3. ASSUME NEW s \in Servers, NEW i \in DOMAIN blkq'[s], NEW r, r = blkq'[s][i]
          PROVE  /\ r.op = "other" => r.cap = NoCap
                 /\ r.op # "other" =>
                      /\ WellFormed(r) /\ s = BLK_SERVICE_HANDLE' /\ executed' < r.tag /\ r.tag <= call'.id
                      /\ r.tag = call'.id => OfCall(r)'
      <4>1. PICK j \in DOMAIN blkq[s] : r = blkq[s][j] /\ (r.op # "other" => m.tag < r.tag)
        BY <3>1, <3>3
      <4>2. /\ r.op = "other" => r.cap = NoCap
            /\ r.op # "other" =>
                 /\ WellFormed(r) /\ s = k /\ r.tag <= call.id
                 /\ r.tag = call.id => OfCall(r)
        BY <3>0, <4>1
      <4>3. BLK_SERVICE_HANDLE' = k /\ executed' = m.tag /\ call' = call
        BY <1>1, <2>h
      <4> QED BY <3>2, <4>1, <4>2, <4>3, Zenon
    <3>4. ASSUME NEW s \in Servers, NEW i \in DOMAIN blkq'[s]
          PROVE  /\ blkq'[s][i].op = "other" => blkq'[s][i].cap = NoCap
                 /\ blkq'[s][i].op # "other" =>
                      /\ WellFormed(blkq'[s][i]) /\ s = BLK_SERVICE_HANDLE'
                      /\ executed' < blkq'[s][i].tag /\ blkq'[s][i].tag <= call'.id
                      /\ blkq'[s][i].tag = call'.id => OfCall(blkq[s][i])'
      <4> DEFINE r == blkq'[s][i]
      <4>1. /\ r.op = "other" => r.cap = NoCap
            /\ r.op # "other" =>
                 /\ WellFormed(r) /\ s = BLK_SERVICE_HANDLE' /\ executed' < r.tag /\ r.tag <= call'.id
                 /\ r.tag = call'.id => OfCall(blkq[s][i])'
        BY <3>3 DEF OfCall
      <4> QED BY <4>1
    <3> QED BY <3>4, Zenon DEF QueueInv, WellFormed
  <2>7. OrderInv'
    BY <1>0, <2>q, ServeOrder, Zenon
  <2>8. ExecutedInv'
    <3>1. call.pc \in {"lookup", "answer", "send"} => m.tag # call.id
      BY <2>5 DEF OfCall
    <3> QED BY <1>1, <2>h, <2>2, <2>5, <3>1 DEF ExecutedInv
  <2> DEFINE a == Message("answer", m.tag, o.reply, NoCap)
  <2>9. a \in MsgType /\ a.kind = "answer" /\ a.tag = m.tag /\ a.reply = o.reply /\ a.cap = NoCap
    <3> DEFINE x == o.reply
    <3>1. x \in ReplyType /\ m.tag \in Nat
      BY <2>2, <2>3
    <3> HIDE DEF x
    <3>2. \A t \in Nat : LET b == Message("answer", t, x, NoCap)
                         IN b \in MsgType /\ b.kind = "answer" /\ b.tag = t /\ b.reply = x /\ b.cap = NoCap
      BY <3>1, MessageIsMsg
    <3> QED BY <3>1, <3>2, Zenon DEF x
  <2>10. fsq' = Append(fsq, a) /\ fsq \in Seq(MsgType)
    <3>1. fsq' = Append(fsq, a)
      BY <1>3, Zenon DEF CarriedOut
    <3> QED BY <1>0, <3>1, Zenon DEF ChannelType
  <2> HIDE DEF a
  <2>11. /\ fsq' \in Seq(MsgType)
         /\ \A i \in DOMAIN fsq' : (i \in DOMAIN fsq /\ fsq'[i] = fsq[i]) \/ fsq'[i] = a
    BY <2>9, <2>10, QueueAppend
  <2>12. AnswersInv'
    <3>1. ASSUME m.tag = call.id PROVE Right(o.reply)'
      <4>1. m.op = call.op /\ m.sector = call.sector /\ (m.op = "WRITE" => m.data[1] = call.byte)
        BY <2>5, <3>1 DEF OfCall
      <4>2. /\ m.op = "READ" /\ o.reply.status = "DATA" => o.reply.data[1] = disk'[m.sector * SECTOR_SIZE]
            /\ m.op = "WRITE" /\ o.reply.status = "OK" => disk'[m.sector * SECTOR_SIZE] = m.data[1]
        BY <2>d, <2>3, Zenon
      <4> QED BY <1>1, <4>1, <4>2 DEF Right
    <3>2. ASSUME NEW i \in DOMAIN fsq'
          PROVE  /\ fsq'[i].kind = "lookup" => fsq'[i].cap \in {NoCap} \cup 1 .. started
                 /\ fsq'[i].kind = "answer" =>
                      /\ fsq'[i].cap = NoCap /\ fsq'[i].tag <= m.tag
                      /\ fsq'[i].tag = call.id => Right(fsq[i].reply)'
      <4>1. CASE i \in DOMAIN fsq /\ fsq'[i] = fsq[i]
        <5>1. fsq[i] \in MsgType
          BY <2>10, <4>1
        <5>2. fsq[i].tag \in Nat
          BY <5>1 DEF MsgType
        <5>3. /\ fsq[i].kind = "lookup" => fsq[i].cap \in {NoCap} \cup 1 .. started
              /\ fsq[i].kind = "answer" => fsq[i].cap = NoCap /\ fsq[i].tag <= executed
          BY <1>0, <4>1 DEF AnswersInv
        <5>4. fsq[i].kind = "answer" => fsq[i].tag <= m.tag /\ fsq[i].tag # call.id
          <6>1. m.tag \in Nat /\ executed \in Nat /\ call.id \in Nat /\ executed < m.tag /\ m.tag <= call.id
            BY <2>2, <2>5
          <6> DEFINE t == fsq[i].tag
          <6>2. t \in Nat /\ (fsq[i].kind = "answer" => t <= executed)
            BY <5>2, <5>3
          <6> HIDE DEF t
          <6>3. t <= executed => t <= m.tag /\ t # call.id
            BY <6>1, <6>2
          <6> QED BY <6>2, <6>3 DEF t
        <5> QED BY <4>1, <5>3, <5>4
      <4>2. CASE fsq'[i] = a
        <5>1. fsq'[i].tag = call.id => Right(fsq[i].reply)'
          BY <2>9, <3>1, <4>2 DEF Right
        <5>2. fsq'[i].kind = "answer" /\ fsq'[i].cap = NoCap /\ fsq'[i].tag = m.tag
          BY <2>9, <4>2
        <5>3. m.tag <= m.tag
          BY <2>2
        <5> QED BY <5>1, <5>2, <5>3
      <4> QED BY <2>11, <4>1, <4>2
    <3> QED BY <1>1, <2>h, <3>2, Zenon DEF AnswersInv
  <2>13. ClientInv'
    <3>1. a.cap \notin Clients
      BY <2>9, ChannelAssumption DEF ChannelAssumption
    <3> QED BY <1>0, <1>1, <2>9, <2>10, <3>1, ClientAppend, Zenon
  <2>14. ChannelType' /\ HandleInv'
    <3>1. disk' \in Disk /\ executed' \in Nat /\ blkq' \in [Servers -> Seq(Requests)]
      BY <2>d, <2>h, <2>2, <2>3, <2>4, Zenon
    <3> QED BY <1>0, <1>1, <2>11, <3>1 DEF ChannelType, HandleInv
  <2> QED BY <2>6, <2>7, <2>8, <2>12, <2>13, <2>14 DEF ChannelInv
<1> QED BY <1>1, <1>2, <1>3

LEMMA ChannelStep == ASSUME ChannelInv, [Next]_vars PROVE ChannelInv'
<1>1. CASE UNCHANGED vars
  <2>1. UNCHANGED <<lookups, BLK_REQ_ID, BLK_SERVICE_HANDLE, call, disk, started, running, srv, executed,
                    asks, waiting, lost, blkq, fsq>>
    BY <1>1 DEF vars, fsVars, srvVars, cliVars
  <2>2. QueueInv' /\ AnswersInv'
    BY <2>1, QueueSame, AnswersSame DEF ChannelInv
  <2> QED BY <2>1, <2>2, Zenon DEF ChannelInv, ChannelType, HandleInv, OrderInv, ExecutedInv, ClientInv
<1>2. ASSUME NEW op \in {"READ", "WRITE"}, NEW s \in Sectors, NEW b \in Byte, blk_call(op, s, b)
      PROVE  ChannelInv'
  BY <1>2, BlkCallInv
<1>3. ASSUME NEW k \in Servers, Serve(k) PROVE ChannelInv'
  BY <1>3, ServeInv
<1> QED BY <1>1, <1>2, <1>3, LookupInv, SendRequestInv, ReceiveInv, ServersInv, ArrivalInv DEF Next, CallStep

-----------------------------------------------------------------------------
(* The theorems about the channel *)

(* The invariant holds: in every reachable state the requests              *)
(* that wait are whole, younger than what has been carried out, in order   *)
(* and at one server, and an answer to the call in progress is right.      *)
THEOREM ChannelCorrect == Spec => []ChannelInv
<1>1. Init => ChannelInv
  BY ChannelInit, BlkAssumption, ChannelAssumption
<1>2. ChannelInv /\ [Next]_vars => ChannelInv'
  BY ChannelStep
<1> QED BY <1>1, <1>2, PTL DEF Spec

LEMMA NoNewAnswer ==
  ASSUME ChannelInv, [Next]_vars, ~\E k \in Servers : Serve(k)
  PROVE  ~Answered
<1>0. fsq \in Seq(MsgType)
  BY DEF ChannelInv, ChannelType
<1>1. CASE fsq' = fsq
  BY <1>0, <1>1 DEF Answered
<1>2. CASE fsq # << >> /\ fsq' = Tail(fsq)
  <2>1. Len(fsq') < Len(fsq) /\ Len(fsq) \in Nat /\ Len(fsq') \in Nat
    BY <1>0, <1>2, QueueTail
  <2> QED BY <2>1 DEF Answered
<1>3. ASSUME NEW m, m.kind # "answer", fsq' = Append(fsq, m) PROVE ~Answered
  <2>1. fsq'[Len(fsq')] = m
    BY <1>0, <1>3
  <2> QED BY <1>3, <2>1 DEF Answered, Newest
<1>4. CASE UNCHANGED vars
  BY <1>1, <1>4 DEF vars
<1>5. ASSUME NEW op, NEW s, NEW b, blk_call(op, s, b) PROVE ~Answered
  BY <1>1, <1>5 DEF blk_call
<1>6. CASE CallStep \/ MainLoop \/ StartServer
  BY <1>1, <1>2, <1>6, Zenon DEF CallStep, SendLookup, RecvLookup, SendRequest, RecvNothing, RecvMessage, GiveUp,
                          MainLoop, StartServer
<1>7. CASE AnswerLookup
  <2>1. PICK cap : fsq' = Append(fsq, Message("lookup", 0, Status("OK"), cap))
    BY <1>7 DEF AnswerLookup
  <2>2. Message("lookup", 0, Status("OK"), cap).kind # "answer"
    BY DEF Message
  <2> QED BY <1>3, <2>1, <2>2
<1>8. ASSUME NEW k, Die(k) PROVE ~Answered
  BY <1>1, <1>8 DEF Die
<1>9. ASSUME NEW c, Ask(c) PROVE ~Answered
  <2>1. PICK cap : fsq' = Append(fsq, Message("client", 0, Status(""), cap))
    BY <1>9, Zenon DEF Ask
  <2>2. Message("client", 0, Status(""), cap).kind # "answer"
    BY DEF Message
  <2> QED BY <1>3, <2>1, <2>2, Zenon
<1> QED BY <1>4, <1>5, <1>6, <1>7, <1>8, <1>9 DEF Next

(* Each answer of a block server is to a request younger than              *)
(* all those carried out before: none is carried out twice or out of turn, *)
(* whatever the buffers of the servers still hold.                         *)
THEOREM InOrderTheorem == Spec => ExecutedInOrder
<1>1. ASSUME ChannelInv, [Next]_vars PROVE Answered => executed' > executed /\ executed' = Newest'.tag
  <2>1. ASSUME NEW k \in Servers, Serve(k), Answered PROVE executed' > executed /\ executed' = Newest'.tag
    <3>0. ChannelType /\ QueueInv /\ fsq \in Seq(MsgType) /\ executed \in Nat
      BY <1>1 DEF ChannelInv, ChannelType
    <3>1. Ignored(k) \/ \E m, o : CarriedOut(k, m, o)
      BY <2>1, <3>0, ServeCases
    <3>2. ~Ignored(k)
      BY <2>1, <3>0 DEF Ignored, Answered
    <3>3. PICK m, o : CarriedOut(k, m, o)
      BY <3>1, <3>2
    <3>4. /\ blkq[k] # << >> /\ m = Head(blkq[k]) /\ m \in Requests /\ m.op # "other"
          /\ executed' = m.tag /\ fsq' = Append(fsq, Message("answer", m.tag, o.reply, NoCap))
      BY <3>3 DEF CarriedOut
    <3>5. 1 \in DOMAIN blkq[k] /\ m = blkq[k][1]
      <4>1. blkq[k] \in Seq(Requests)
        BY <3>0 DEF ChannelType
      <4> QED BY <3>4, <4>1, QueueTail
    <3>6. executed < m.tag /\ m.tag \in Nat
      <4>1. m.tag \in Nat
        BY <3>4 DEF Requests, ReqType
      <4> QED BY <3>0, <3>4, <3>5, <4>1 DEF QueueInv
    <3>7. \A x : fsq' = Append(fsq, x) => fsq'[Len(fsq')] = x
      BY <3>0
    <3>8. Newest' = Message("answer", m.tag, o.reply, NoCap)
      BY <3>4, <3>7 DEF Newest
    <3>9. Newest'.tag = m.tag
      BY <3>8 DEF Message
    <3> QED BY <3>0, <3>4, <3>6, <3>9
  <2> QED BY <1>1, <2>1, NoNewAnswer
<1> QED BY <1>1, ChannelCorrect, PTL DEF Spec, ExecutedInOrder

(* A client whose capability reached fs has one request in the             *)
(* queue until it is answered, but for one request in the life of fs.      *)
THEOREM ClientsTheorem == Spec => []ClientsAreAnswered
<1>1. ASSUME ChannelInv PROVE ClientsAreAnswered
  <2>0. ClientInv /\ waiting \subseteq Clients
    BY <1>1 DEF ChannelInv, ChannelType
  <2>1. ASSUME NEW c \in lost PROVE {i \in DOMAIN fsq : fsq[i].cap = c} = {}
    BY <2>0 DEF ClientInv
  <2>2. ASSUME NEW c \in waiting \ lost
        PROVE  \E i \in DOMAIN fsq : {j \in DOMAIN fsq : fsq[j].cap = c} = {i}
    <3>1. PICK i \in DOMAIN fsq : fsq[i].cap = c
      BY <2>0 DEF ClientInv
    <3>2. \A j \in DOMAIN fsq : fsq[j].cap = c => j = i
      BY <2>0, <3>1 DEF ClientInv
    <3>3. {j \in DOMAIN fsq : fsq[j].cap = c} = {i}
      BY <3>1, <3>2
    <3> QED BY <3>3
  <2>3. \A c, d \in lost : c = d
    BY <2>0 DEF ClientInv
  <2> QED BY <2>1, <2>2, <2>3 DEF ClientsAreAnswered
<1> QED BY <1>1, ChannelCorrect, PTL

-----------------------------------------------------------------------------
(* The sectors are registers *)

(* The writes that a running server may still carry out.                   *)
Writes == {r \in UNION {Range(blkq[k]) : k \in running} : r.op = "WRITE" /\ r.cap # NoCap}

LEMMA ContentsOf ==
  /\ Contents = [s \in Sectors |->
       {disk[s * SECTOR_SIZE]} \cup {r.data[1] : r \in {w \in Writes : w.sector = s}}]
  /\ Contents' = [s \in Sectors |->
                    {disk'[s * SECTOR_SIZE]} \cup {r.data[1] : r \in {w \in Writes' : w.sector = s}}]
<1>1. \A s : PendingWrites(s) = {w \in Writes : w.sector = s}
  BY DEF PendingWrites, Writes
<1>2. \A s : PendingWrites(s)' = {w \in Writes' : w.sector = s}
  BY DEF PendingWrites, Writes
<1>3. Contents = [s \in Sectors |->
       {disk[s * SECTOR_SIZE]} \cup {r.data[1] : r \in {w \in Writes : w.sector = s}}]
  BY <1>1 DEF Contents
<1>4. Contents' = [s \in Sectors |->
                     {disk'[s * SECTOR_SIZE]} \cup {r.data[1] : r \in {w \in Writes' : w.sector = s}}]
  BY <1>2 DEF Contents
<1> QED BY <1>3, <1>4

LEMMA WritesOf ==
  /\ \A r : r \in Writes <=> \E k \in running : \E i \in DOMAIN blkq[k] :
              r = blkq[k][i] /\ r.op = "WRITE" /\ r.cap # NoCap
  /\ \A r : r \in Writes' <=> \E k \in running' : \E i \in DOMAIN blkq'[k] :
              r = blkq'[k][i] /\ r.op = "WRITE" /\ r.cap # NoCap
  BY DEF Writes, Range

LEMMA SameContents ==
  ASSUME disk' = disk, Writes' = Writes
  PROVE  Contents' = Contents
  BY ContentsOf

(* What the sectors may hold are bytes.                                    *)
LEMMA ContentsType ==
  ASSUME ChannelInv
  PROVE  /\ \A s \in Sectors : Contents[s] \subseteq Byte /\ disk[s * SECTOR_SIZE] \in Contents[s]
         /\ \A s \in Sectors : disk[s * SECTOR_SIZE] \in Byte
<1>0. /\ ChannelType /\ QueueInv /\ disk \in Disk
      /\ running \subseteq Servers /\ blkq \in [Servers -> Seq(Requests)]
  <2>1. ChannelType /\ QueueInv
    BY DEF ChannelInv
  <2>2. running \subseteq Servers
    BY <2>1, ChannelAssumption DEF ChannelType, ChannelAssumption, Servers
  <2> QED BY <2>1, <2>2 DEF ChannelType
<1>1. \A s \in Sectors : disk[s * SECTOR_SIZE] \in Byte
  BY <1>0, SectorPlaces, BlkAssumption DEF Disk
<1>2. ASSUME NEW r \in Writes PROVE r.data[1] \in Byte
  <2>1. PICK k \in running : \E i \in DOMAIN blkq[k] : r = blkq[k][i] /\ r.op = "WRITE" /\ r.cap # NoCap
    BY WritesOf
  <2>2. PICK i \in DOMAIN blkq[k] : r = blkq[k][i] /\ r.op = "WRITE" /\ r.cap # NoCap
    BY <2>1
  <2>3. k \in Servers /\ blkq[k] \in Seq(Requests)
    BY <1>0
  <2>4. r \in Requests /\ WellFormed(r)
    <3>1. r \in Requests
      BY <2>2, <2>3
    <3>2. r.op # "other"
      BY <2>2
    <3> QED BY <1>0, <2>2, <2>3, <3>1, <3>2, Zenon DEF QueueInv
  <2>5. r.data \in Seq(Byte) /\ Len(r.data) = SECTOR_SIZE
    BY <2>2, <2>4 DEF WellFormed, Requests, ReqType
  <2>6. SECTOR_SIZE \in Nat /\ SECTOR_SIZE >= 1
    BY BlkAssumption, BufferSizes
  <2> HIDE DEF Writes
  <2> QED BY <2>5, <2>6
<1>3. ASSUME NEW s \in Sectors PROVE Contents[s] \subseteq Byte /\ disk[s * SECTOR_SIZE] \in Contents[s]
  <2>1. Contents[s] = {disk[s * SECTOR_SIZE]} \cup {r.data[1] : r \in {w \in Writes : w.sector = s}}
    BY ContentsOf
  <2> QED BY <1>1, <1>2, <2>1
<1> QED BY <1>1, <1>3

LEMMA RegistersInit == ASSUME Init PROVE Registers!Init
<1>0. ChannelInv
  BY ChannelInit, BlkAssumption, ChannelAssumption
<1>1. Writes = {}
  <2>1. running = {}
    BY DEF Init
  <2> QED BY <2>1, WritesOf
<1>2. \A s \in Sectors : Contents[s] = {disk[s * SECTOR_SIZE]}
  BY <1>1, ContentsOf
<1>3. \A s \in Sectors : disk[s * SECTOR_SIZE] \in Byte
  BY <1>0, ContentsType
<1>4. Contents \in [Sectors -> {{v} : v \in Byte}]
  <2>1. Contents = [s \in Sectors |-> Contents[s]]
    BY ContentsOf
  <2> QED BY <1>2, <1>3, <2>1
<1>5. call \in CallType /\ call.pc = "idle" /\ call.ok = FALSE /\ call.op = "READ"
  <2>1. call \in CallType
    BY <1>0 DEF ChannelInv, ChannelType
  <2> QED BY <2>1 DEF Init
<1>6. Outcome \in [pc : {"fail"}, op : {"READ"}, sector : Sectors, value : Byte]
  BY <1>5 DEF Outcome, CallType
<1> QED BY <1>4, <1>6 DEF Registers!Init

(* Strays and messages without a capability are no writes.                 *)
LEMMA StrayIsNoWrite ==
  ASSUME ChannelType, StrayAdded, running' = running
  PROVE  Writes' = Writes
<1>0. blkq \in [Servers -> Seq(Requests)] /\ running \subseteq Servers
  BY ChannelAssumption DEF ChannelType, ChannelAssumption, Servers
<1>1. CASE blkq' = blkq
  BY <1>1 DEF Writes
<1>2. ASSUME NEW c \in Servers, blkq' = [blkq EXCEPT ![c] = Append(@, Stray)] PROVE Writes' = Writes
  <2>1. /\ DOMAIN Append(blkq[c], Stray) = DOMAIN blkq[c] \cup {Len(blkq[c]) + 1}
        /\ Append(blkq[c], Stray)[Len(blkq[c]) + 1] = Stray
        /\ \A k \in DOMAIN blkq[c] : Append(blkq[c], Stray)[k] = blkq[c][k]
    BY <1>0, StrayIsRequest, QueueAppend
  <2>2. blkq'[c] = Append(blkq[c], Stray) /\ \A k \in Servers : k # c => blkq'[k] = blkq[k]
    BY <1>0, <1>2
  <2> DEFINE n == Len(blkq[c]) + 1
  <2>3. /\ DOMAIN blkq'[c] = DOMAIN blkq[c] \cup {n} /\ blkq'[c][n] = Stray
        /\ \A i \in DOMAIN blkq[c] : blkq'[c][i] = blkq[c][i]
    BY <2>1, <2>2
  <2> HIDE DEF n
  <2>4. ASSUME NEW r, r.op = "WRITE", r.cap # NoCap, NEW k \in running
        PROVE  (\E i \in DOMAIN blkq'[k] : r = blkq'[k][i]) <=> (\E i \in DOMAIN blkq[k] : r = blkq[k][i])
    <3>1. CASE k = c
      <4>1. r # Stray
        BY <2>4, StrayIsRequest
      <4> QED BY <2>3, <3>1, <4>1
    <3>2. CASE k # c
      <4>1. blkq'[k] = blkq[k]
        BY <1>0, <2>2, <3>2
      <4> QED BY <4>1
    <3> QED BY <3>1, <3>2
  <2>5. \A r : r \in Writes' <=> r \in Writes
    <3> SUFFICES ASSUME NEW r PROVE r \in Writes' <=> r \in Writes
      OBVIOUS
    <3>1. CASE r.op = "WRITE" /\ r.cap # NoCap
      <4>1. \A k \in running : (\E i \in DOMAIN blkq'[k] : r = blkq'[k][i])
                                 <=> (\E i \in DOMAIN blkq[k] : r = blkq[k][i])
        BY <2>4, <3>1
      <4>2. r \in Writes' <=> \E k \in running : \E i \in DOMAIN blkq'[k] : r = blkq'[k][i]
        BY <3>1, WritesOf
      <4>3. r \in Writes <=> \E k \in running : \E i \in DOMAIN blkq[k] : r = blkq[k][i]
        BY <3>1, WritesOf
      <4> QED BY <4>1, <4>2, <4>3, Zenon
    <3>2. CASE ~(r.op = "WRITE" /\ r.cap # NoCap)
      BY <3>2, WritesOf, Zenon
    <3> QED BY <3>1, <3>2
  <2> QED BY <2>5 DEF Writes
<1> QED BY <1>1, <1>2 DEF StrayAdded

(* The first message of a queue goes: no other write does, and none at all *)
(* if it carries no capability.                                            *)
LEMMA WritesTail ==
  ASSUME ChannelType, NEW k \in Servers, blkq[k] # << >>, blkq' = [blkq EXCEPT ![k] = Tail(@)],
         running' = running
  PROVE  Writes' \subseteq Writes /\ (Head(blkq[k]).cap = NoCap => Writes' = Writes)
<1>0. running \subseteq Servers
  BY ChannelAssumption DEF ChannelType, ChannelAssumption, Servers
<1>1. /\ Head(blkq[k]) = blkq[k][1]
      /\ \A s \in Servers : s # k => blkq'[s] = blkq[s]
      /\ \A i \in DOMAIN blkq'[k] : i + 1 \in DOMAIN blkq[k] /\ blkq'[k][i] = blkq[k][i + 1]
      /\ \A i \in DOMAIN blkq[k] : i # 1 => i - 1 \in DOMAIN blkq'[k] /\ blkq[k][i] = blkq'[k][i - 1]
  BY QueuesTail, Zenon
<1>2. ASSUME NEW r, NEW s \in running, NEW i \in DOMAIN blkq'[s], r = blkq'[s][i]
      PROVE  \E j \in DOMAIN blkq[s] : r = blkq[s][j]
  <2>1. CASE s = k
    <3>1. i + 1 \in DOMAIN blkq[k] /\ r = blkq[k][i + 1]
      BY <1>1, <1>2, <2>1, Zenon
    <3> QED BY <2>1, <3>1, Zenon
  <2>2. CASE s # k
    <3>1. blkq'[s] = blkq[s]
      BY <1>0, <1>1, <2>2, Zenon
    <3> QED BY <1>2, <3>1, Zenon
  <2> QED BY <2>1, <2>2, Zenon
<1>3. ASSUME Head(blkq[k]).cap = NoCap, NEW r, r.cap # NoCap, NEW s \in running, NEW i \in DOMAIN blkq[s],
             r = blkq[s][i]
      PROVE  \E j \in DOMAIN blkq'[s] : r = blkq'[s][j]
  <2>1. CASE s = k
    <3>1. i # 1
      BY <1>1, <1>3, <2>1
    <3>2. i - 1 \in DOMAIN blkq'[k] /\ blkq[k][i] = blkq'[k][i - 1]
      BY <1>1, <2>1, <3>1
    <3> QED BY <1>3, <2>1, <3>2
  <2>2. CASE s # k
    BY <1>0, <1>1, <1>3, <2>2
  <2> QED BY <2>1, <2>2
<1>4. \A r : r \in Writes' => r \in Writes
  <2>1. ASSUME NEW r \in Writes' PROVE r \in Writes
    <3>1. PICK s \in running' : \E i \in DOMAIN blkq'[s] :
                r = blkq'[s][i] /\ r.op = "WRITE" /\ r.cap # NoCap
      BY WritesOf
    <3>2. s \in running
      BY <3>1
    <3>3. PICK i \in DOMAIN blkq'[s] : r = blkq'[s][i] /\ r.op = "WRITE" /\ r.cap # NoCap
      BY <3>1
    <3>4. \E j \in DOMAIN blkq[s] : r = blkq[s][j]
      BY <1>2, <3>2, <3>3
    <3> QED BY <3>2, <3>3, <3>4, WritesOf, Zenon
  <2> QED BY <2>1
<1>5. Head(blkq[k]).cap = NoCap => \A r : r \in Writes => r \in Writes'
  <2> SUFFICES ASSUME Head(blkq[k]).cap = NoCap, NEW r \in Writes PROVE r \in Writes'
    OBVIOUS
  <2>1. PICK s \in running : \E i \in DOMAIN blkq[s] : r = blkq[s][i] /\ r.op = "WRITE" /\ r.cap # NoCap
    BY WritesOf
  <2>2. PICK i \in DOMAIN blkq[s] : r = blkq[s][i] /\ r.op = "WRITE" /\ r.cap # NoCap
    BY <2>1
  <2>3. \E j \in DOMAIN blkq'[s] : r = blkq'[s][j]
    BY <1>3, <2>2
  <2> QED BY <2>2, <2>3, WritesOf, Zenon
<1> QED BY <1>4, <1>5, Zenon

(* What a server carries out settles one of the possible values.           *)
LEMMA ServeSettles ==
  ASSUME ChannelInv, ChannelInv', NEW k \in Servers, Serve(k)
  PROVE  Registers!Settle
<1>0. ChannelType /\ QueueInv /\ disk \in Disk /\ srv[k].data \in Buffer
  <2>1. ChannelType /\ QueueInv
    BY DEF ChannelInv
  <2>2. srv[k] \in ReqType(Buffer) /\ disk \in Disk
    BY <2>1 DEF ChannelType
  <2> QED BY <2>1, <2>2 DEF ReqType
<1>1. /\ UNCHANGED <<call, running>> /\ k \in running
      /\ Ignored(k) \/ \E m, o : CarriedOut(k, m, o)
  BY <1>0, ServeCases
<1>2. Outcome' = Outcome
  BY <1>1 DEF Outcome
<1>3. ASSUME NEW s \in Sectors PROVE Contents'[s] \subseteq Contents[s]
  <2>1. CASE Ignored(k)
    <3>1. disk' = disk
      BY <2>1 DEF Ignored
    <3>2. CASE blkq' = blkq
      <4>1. Writes' = Writes
        BY <1>1, <3>2 DEF Writes
      <4>2. Contents' = Contents
        BY <3>1, <4>1, SameContents
      <4> QED BY <4>2
    <3>3. CASE blkq[k] # << >> /\ blkq' = [blkq EXCEPT ![k] = Tail(@)] /\ Head(blkq[k]).cap = NoCap
      <4>1. Writes' = Writes
        BY <1>0, <1>1, <3>3, WritesTail, Zenon
      <4>2. Contents' = Contents
        BY <3>1, <4>1, SameContents
      <4> QED BY <4>2
    <3> QED BY <2>1, <3>2, <3>3 DEF Ignored
  <2>2. ASSUME NEW m, NEW o, CarriedOut(k, m, o) PROVE Contents'[s] \subseteq Contents[s]
    <3>1. /\ blkq[k] # << >> /\ m = Head(blkq[k]) /\ blkq' = [blkq EXCEPT ![k] = Tail(@)]
          /\ m \in Requests /\ m.op \in {"READ", "WRITE"} /\ m.cap # NoCap /\ WellFormed(m)
          /\ o \in Outcomes(Received(m, srv[k].data), disk, FALSE) /\ disk' = o.disk
      BY <2>2, Zenon DEF CarriedOut
    <3>2. \/ disk'[s * SECTOR_SIZE] = disk[s * SECTOR_SIZE]
          \/ m.op = "WRITE" /\ s = m.sector /\ disk'[s * SECTOR_SIZE] = m.data[1]
      BY <1>0, <3>1, BlkAssumption, OutcomesOfRequest, Zenon
    <3>3. Writes' \subseteq Writes
      BY <1>0, <1>1, <3>1, WritesTail, Zenon
    <3>4. m.op = "WRITE" => m \in Writes
      <4>1. 1 \in DOMAIN blkq[k] /\ m = blkq[k][1]
        BY <1>0, <3>1, QueuesTail, Zenon
      <4> QED BY <1>1, <3>1, <4>1, WritesOf, Zenon
    <3>5. Contents[s] = {disk[s * SECTOR_SIZE]} \cup {r.data[1] : r \in {w \in Writes : w.sector = s}}
      BY ContentsOf
    <3>6. Contents'[s] = {disk'[s * SECTOR_SIZE]} \cup {r.data[1] : r \in {w \in Writes' : w.sector = s}}
      BY ContentsOf
    <3>7. disk'[s * SECTOR_SIZE] \in Contents[s]
      BY <3>2, <3>4, <3>5
    <3>8. {r.data[1] : r \in {w \in Writes' : w.sector = s}} \subseteq Contents[s]
      BY <3>3, <3>5
    <3> QED BY <3>6, <3>7, <3>8
  <2> QED BY <1>1, <2>1, <2>2
<1>4. \A s \in Sectors : Contents'[s] \subseteq Byte /\ Contents'[s] # {}
  <2>1. \A s \in Sectors : Contents[s] \subseteq Byte
    BY ContentsType
  <2>2. \A s \in Sectors : disk'[s * SECTOR_SIZE] \in Contents'[s]
    BY ContentsOf
  <2> QED BY <1>3, <2>1, <2>2
<1>5. Contents' \in [Sectors -> SUBSET Byte]
  <2>1. Contents' = [s \in Sectors |-> Contents'[s]]
    BY ContentsOf
  <2> QED BY <1>4, <2>1
<1> QED BY <1>2, <1>3, <1>4, <1>5 DEF Registers!Settle

(* A server that dies takes its requests with it.                          *)
LEMMA DieSettles ==
  ASSUME ChannelInv, NEW k \in Servers, Die(k)
  PROVE  Registers!Settle
<1>1. running' \subseteq running /\ UNCHANGED <<call, disk, blkq>>
  BY DEF Die, fsVars
<1>2. Outcome' = Outcome
  BY <1>1 DEF Outcome
<1>3. Writes' \subseteq Writes
  BY <1>1, WritesOf
<1>4. ASSUME NEW s \in Sectors
      PROVE  Contents'[s] \subseteq Contents[s] /\ disk[s * SECTOR_SIZE] \in Contents'[s]
  <2>1. Contents[s] = {disk[s * SECTOR_SIZE]} \cup {r.data[1] : r \in {w \in Writes : w.sector = s}}
    BY ContentsOf
  <2>2. Contents'[s] = {disk[s * SECTOR_SIZE]} \cup {r.data[1] : r \in {w \in Writes' : w.sector = s}}
    BY <1>1, ContentsOf
  <2> QED BY <1>3, <2>1, <2>2
<1>5. Contents' \in [Sectors -> SUBSET Byte]
  <2>1. Contents' = [s \in Sectors |-> Contents'[s]]
    BY ContentsOf
  <2>2. \A s \in Sectors : Contents[s] \subseteq Byte
    BY ContentsType
  <2> QED BY <1>4, <2>1, <2>2
<1> QED BY <1>2, <1>4, <1>5 DEF Registers!Settle

(* A server that starts finds no request of fs.                            *)
LEMMA StartChangesNothing ==
  ASSUME ChannelInv, StartServer
  PROVE  Contents' = Contents /\ Outcome' = Outcome
<1>0. ChannelType /\ QueueInv /\ HandleInv /\ started \in Nat /\ MaxServers \in Nat
  BY ChannelAssumption DEF ChannelInv, ChannelType, ChannelAssumption
<1>1. started < MaxServers /\ running' = running \cup {started + 1} /\ UNCHANGED <<call, disk, blkq>>
  BY DEF StartServer, fsVars
<1>2. started + 1 \in Servers /\ (BLK_SERVICE_HANDLE \in Servers => BLK_SERVICE_HANDLE # started + 1)
  BY <1>0, <1>1 DEF Servers, HandleInv
<1>3. \A i \in DOMAIN blkq[started + 1] : blkq[started + 1][i].op = "other"
  BY <1>0, <1>2 DEF QueueInv
<1>4. \A r : r \in Writes' <=> r \in Writes
  <2> DEFINE n == started + 1
  <2>1. running' = running \cup {n} /\ \A i \in DOMAIN blkq[n] : blkq[n][i].op = "other"
    BY <1>1, <1>3
  <2> HIDE DEF n
  <2> QED BY <1>1, <2>1, WritesOf
<1>5. Contents' = Contents
  BY <1>1, <1>4, SameContents DEF Writes
<1> QED BY <1>1, <1>5 DEF Outcome

(* How a call looks from outside.                                          *)
LEMMA OutcomeOf ==
  /\ Outcome = [pc |-> IF call.pc # "idle" THEN "busy" ELSE IF call.ok THEN "ok" ELSE "fail",
                op |-> call.op, sector |-> call.sector, value |-> call.byte]
  /\ Outcome' = [pc |-> IF call'.pc # "idle" THEN "busy" ELSE IF call'.ok THEN "ok" ELSE "fail",
                 op |-> call'.op, sector |-> call'.sector, value |-> call'.byte]
  BY DEF Outcome

LEMMA CallBegins ==
  ASSUME ChannelInv, NEW op \in {"READ", "WRITE"}, NEW s \in Sectors, NEW b \in Byte, blk_call(op, s, b)
  PROVE  Registers!Begin(op, s, b)
<1>1. /\ call.pc = "idle" /\ UNCHANGED <<disk, running, blkq>>
      /\ call'.pc # "idle" /\ call'.op = op /\ call'.sector = s /\ call'.byte = b
  BY DEF blk_call, srvVars
<1>2. Contents' = Contents
  <2>1. Writes' = Writes
    BY <1>1 DEF Writes
  <2> QED BY <1>1, <2>1, SameContents
<1>3. Outcome.pc # "busy"
  BY <1>1, OutcomeOf
<1>4. Outcome' = [pc |-> "busy", op |-> op, sector |-> s, value |-> b]
  BY <1>1, OutcomeOf
<1> QED BY <1>2, <1>3, <1>4 DEF Registers!Begin

(* A call that stays in progress, or fails, while no write comes or goes.  *)
LEMMA CallGoesOn ==
  ASSUME call \in CallType, call.pc # "idle", call' \in CallType, call'.pc # "idle", call'.op = call.op,
         call'.sector = call.sector, call'.byte = call.byte
  PROVE  Outcome' = Outcome
  BY OutcomeOf

LEMMA CallFails ==
  ASSUME call \in CallType, call.pc # "idle", Return(FALSE, call.byte), Contents' = Contents
  PROVE  Registers!Fail
<1>1. call' = [call EXCEPT !.pc = "idle", !.ok = FALSE, !.byte = call.byte]
  BY DEF Return
<1>2. call'.pc = "idle" /\ call'.ok = FALSE /\ call'.op = call.op /\ call'.sector = call.sector
      /\ call'.byte = call.byte
  BY <1>1 DEF CallType
<1>3. Outcome = [pc |-> "busy", op |-> call.op, sector |-> call.sector, value |-> call.byte]
  BY OutcomeOf
<1>4. Outcome' = [pc |-> "fail", op |-> call.op, sector |-> call.sector, value |-> call.byte]
  BY <1>2, OutcomeOf
<1> QED BY <1>3, <1>4 DEF Registers!Fail

LEMMA SameOutcome ==
  ASSUME NEW P, NEW O, NEW S, NEW V,
         NEW x \in [pc : P, op : O, sector : S, value : V], NEW y \in [pc : P, op : O, sector : S, value : V],
         x.pc = y.pc, x.op = y.op, x.sector = y.sector, x.value = y.value
  PROVE  x = y
  OBVIOUS

LEMMA CallSucceeds ==
  ASSUME call \in CallType, call.pc # "idle", NEW v \in Byte, Return(TRUE, v), Contents' = Contents,
         Contents[call.sector] = {v}, call.op = "WRITE" => v = call.byte
  PROVE  Registers!Succeed(v)
<1>1. call' = [call EXCEPT !.pc = "idle", !.ok = TRUE, !.byte = v]
  BY DEF Return
<1>2. call'.pc = "idle" /\ call'.ok = TRUE /\ call'.op = call.op /\ call'.sector = call.sector
      /\ call'.byte = v
  BY <1>1 DEF CallType
<1>3. Outcome = [pc |-> "busy", op |-> call.op, sector |-> call.sector, value |-> call.byte]
  BY OutcomeOf
<1>4. Outcome' = [pc |-> "ok", op |-> call.op, sector |-> call.sector, value |-> v]
  BY <1>2, OutcomeOf
<1>5. Outcome.pc = "busy" /\ Outcome.op = call.op /\ Outcome.sector = call.sector /\ Outcome.value = call.byte
  BY <1>3
<1>6. Outcome' = [Outcome EXCEPT !.pc = "ok", !.value = v]
  <2> DEFINE T == [pc : {"busy", "ok"}, op : {"READ", "WRITE"}, sector : Sectors, value : Byte]
  <2>1. Outcome \in T /\ Outcome' \in T
    BY <1>3, <1>4 DEF CallType
  <2> DEFINE g == [Outcome EXCEPT !.pc = "ok", !.value = v]
  <2>2. g \in T /\ g.pc = "ok" /\ g.op = call.op /\ g.sector = call.sector /\ g.value = v
    BY <1>5, <2>1, Zenon
  <2>3. Outcome'.pc = "ok" /\ Outcome'.op = call.op /\ Outcome'.sector = call.sector /\ Outcome'.value = v
    BY <1>4
  <2> HIDE DEF g
  <2>4. \A x, y \in T : x.pc = y.pc /\ x.op = y.op /\ x.sector = y.sector /\ x.value = y.value => x = y
    BY SameOutcome, Zenon
  <2>5. Outcome' = g
    BY <2>1, <2>2, <2>3, <2>4
  <2> QED BY <2>5 DEF g
<1> QED BY <1>5, <1>6, Zenon DEF Registers!Succeed

(* The request enters the queue of a running server, or changes nothing    *)
(* that a sector may hold.                                                 *)
LEMMA SendSubmits ==
  ASSUME ChannelInv, SendRequest
  PROVE  Registers!Submit \/ Registers!Fail \/ (Contents' = Contents /\ Outcome' = Outcome)
<1>0. ChannelType /\ call \in CallType /\ blkq \in [Servers -> Seq(Requests)]
  BY DEF ChannelInv, ChannelType
<1>1. call.pc = "send" /\ disk' = disk /\ running' = running
  BY DEF SendRequest, srvVars
<1>2. ASSUME call' = [call EXCEPT !.pc = "wait"]
      PROVE  Outcome' = Outcome /\ Outcome.pc = "busy" /\ Outcome.op = call.op
             /\ Outcome.sector = call.sector /\ Outcome.value = call.byte
  <2>1. call'.pc # "idle" /\ call'.op = call.op /\ call'.sector = call.sector /\ call'.byte = call.byte
    BY <1>0, <1>2 DEF CallType
  <2>2. Outcome = [pc |-> "busy", op |-> call.op, sector |-> call.sector, value |-> call.byte]
    BY <1>1, OutcomeOf
  <2>3. Outcome' = [pc |-> "busy", op |-> call.op, sector |-> call.sector, value |-> call.byte]
    BY <2>1, OutcomeOf
  <2> QED BY <2>2, <2>3
<1>3. CASE blkq' = blkq
  <2>1. Contents' = Contents
    <3>1. Writes' = Writes
      BY <1>1, <1>3 DEF Writes
    <3> QED BY <1>1, <3>1, SameContents
  <2>2. call' = [call EXCEPT !.pc = "wait"] \/ Return(FALSE, call.byte)
    BY Zenon DEF SendRequest
  <2> QED BY <1>0, <1>1, <1>2, <2>1, <2>2, CallFails, Zenon
<1>4. ASSUME NEW cap \in {LocalEndpoint, NoCap}, BLK_SERVICE_HANDLE \in Servers,
             blkq' = [blkq EXCEPT ![BLK_SERVICE_HANDLE] =
                        Append(@, Request(call.op, call.id, call.sector, call.byte, cap))],
             call' = [call EXCEPT !.pc = "wait"]
      PROVE  Registers!Submit \/ (Contents' = Contents /\ Outcome' = Outcome)
  <2> DEFINE r == Request(call.op, call.id, call.sector, call.byte, cap)
             h == BLK_SERVICE_HANDLE
             n == Len(blkq[h]) + 1
  <2>1. /\ r \in Requests /\ r.op = call.op /\ r.sector = call.sector
        /\ r.op = "WRITE" => r.data[1] = call.byte
    BY <1>0, BlkAssumption, RequestOfCall
  <2>2. blkq' = [blkq EXCEPT ![h] = Append(@, r)] /\ h \in Servers
    BY <1>4
  <2> HIDE DEF r, h
  <2>3. /\ DOMAIN Append(blkq[h], r) = DOMAIN blkq[h] \cup {n}
        /\ Append(blkq[h], r)[n] = r
        /\ \A k \in DOMAIN blkq[h] : Append(blkq[h], r)[k] = blkq[h][k]
    <3> DEFINE q == blkq[h]
    <3>1. q \in Seq(Requests) /\ r \in Requests
      BY <1>0, <2>1, <2>2
    <3> HIDE DEF q
    <3>2. DOMAIN Append(q, r) = DOMAIN q \cup {Len(q) + 1}
      BY <3>1
    <3>3. Append(q, r)[Len(q) + 1] = r
      BY <3>1
    <3>4. \A k \in DOMAIN q : Append(q, r)[k] = q[k]
      BY <3>1
    <3> QED BY <3>2, <3>3, <3>4, Zenon DEF q
  <2> HIDE DEF n
  <2>4. /\ DOMAIN blkq'[h] = DOMAIN blkq[h] \cup {n} /\ blkq'[h][n] = r
        /\ \A i \in DOMAIN blkq[h] : blkq'[h][i] = blkq[h][i]
        /\ \A k \in Servers : k # h => blkq'[k] = blkq[k]
    BY <1>0, <2>2, <2>3
  <2>5. running \subseteq Servers
    BY <1>0, ChannelAssumption DEF ChannelType, ChannelAssumption, Servers
  <2> DEFINE new == h \in running /\ r.op = "WRITE" /\ r.cap # NoCap
  <2>6. ASSUME NEW w PROVE w \in Writes' <=> (w \in Writes \/ (new /\ w = r))
    <3>1. w \in Writes' <=> \E k \in running : \E i \in DOMAIN blkq'[k] :
                              w = blkq'[k][i] /\ w.op = "WRITE" /\ w.cap # NoCap
      BY <1>1, WritesOf
    <3>2. w \in Writes <=> \E k \in running : \E i \in DOMAIN blkq[k] :
                             w = blkq[k][i] /\ w.op = "WRITE" /\ w.cap # NoCap
      BY WritesOf
    <3>3. ASSUME NEW k \in running
          PROVE  (\E i \in DOMAIN blkq'[k] : w = blkq'[k][i])
                   <=> ((\E i \in DOMAIN blkq[k] : w = blkq[k][i]) \/ (k = h /\ w = r))
      <4>1. CASE k = h
        BY <2>4, <4>1
      <4>2. CASE k # h
        <5>1. blkq'[k] = blkq[k]
          BY <2>4, <2>5, <4>2
        <5> QED BY <4>2, <5>1
      <4> QED BY <4>1, <4>2
    <3> QED BY <3>1, <3>2, <3>3
  <2>7. CASE ~new
    <3>1. Writes' = Writes
      <4>1. \A w : w \in Writes' <=> w \in Writes
        BY <2>6, <2>7
      <4> QED BY <4>1 DEF Writes
    <3>2. Contents' = Contents
      BY <1>1, <3>1, SameContents
    <3> QED BY <1>2, <1>4, <3>2
  <2>8. CASE new
    <3>1. call.op = "WRITE" /\ r.data[1] = call.byte /\ call.sector \in Sectors
      BY <1>0, <2>1, <2>8 DEF CallType
    <3>2. ASSUME NEW s \in Sectors
          PROVE  Contents'[s] = IF s = call.sector THEN Contents[s] \cup {call.byte} ELSE Contents[s]
      <4>1. Contents[s] = {disk[s * SECTOR_SIZE]} \cup {w.data[1] : w \in {w \in Writes : w.sector = s}}
        BY ContentsOf
      <4>2. Contents'[s] = {disk[s * SECTOR_SIZE]} \cup {w.data[1] : w \in {w \in Writes' : w.sector = s}}
        BY <1>1, ContentsOf
      <4>3. CASE s = call.sector
        <5>1. {w \in Writes' : w.sector = s} = {w \in Writes : w.sector = s} \cup {r}
          BY <2>1, <2>6, <2>8, <4>3
        <5>2. {w.data[1] : w \in {w \in Writes' : w.sector = s}} =
                {w.data[1] : w \in {w \in Writes : w.sector = s}} \cup {call.byte}
          BY <3>1, <5>1
        <5> QED BY <4>1, <4>2, <4>3, <5>2
      <4>4. CASE s # call.sector
        <5>1. {w \in Writes' : w.sector = s} = {w \in Writes : w.sector = s}
          BY <2>1, <2>6, <2>8, <4>4
        <5> QED BY <4>1, <4>2, <4>4, <5>1
      <4> QED BY <4>3, <4>4
    <3>3. Contents' = [Contents EXCEPT ![call.sector] = @ \cup {call.byte}]
      <4>1. Contents' = [s \in Sectors |-> Contents'[s]] /\ Contents = [s \in Sectors |-> Contents[s]]
        BY ContentsOf
      <4> QED BY <3>1, <3>2, <4>1
    <3> QED BY <1>2, <1>4, <3>1, <3>3, Zenon DEF Registers!Submit
  <2> QED BY <2>7, <2>8
<1> QED BY <1>3, <1>4, Zenon DEF SendRequest

(* When the answer to the call comes, the request of the call has been     *)
(* carried out, and with it all the earlier ones: nothing is pending.      *)
LEMMA NothingPending ==
  ASSUME ChannelInv, executed >= call.id
  PROVE  Writes = {}
<1>0. ChannelType /\ QueueInv /\ executed \in Nat /\ call.id \in Nat /\ running \subseteq Servers
  <2>1. ChannelType /\ QueueInv
    BY DEF ChannelInv
  <2>2. running \subseteq Servers
    BY <2>1, ChannelAssumption DEF ChannelType, ChannelAssumption, Servers
  <2> QED BY <2>1, <2>2 DEF ChannelType, CallType
<1>1. ASSUME NEW k \in running, NEW i \in DOMAIN blkq[k], blkq[k][i].op = "WRITE" PROVE FALSE
  <2>1. k \in Servers /\ blkq[k][i] \in Requests
    BY <1>0 DEF ChannelType
  <2>2. blkq[k][i].tag \in Nat
    BY <2>1 DEF Requests, ReqType
  <2>3. executed < blkq[k][i].tag /\ blkq[k][i].tag <= call.id
    BY <1>0, <1>1, <2>1 DEF QueueInv
  <2> QED BY <1>0, <2>2, <2>3
<1> QED BY <1>1, WritesOf

LEMMA ReceiveMaps ==
  ASSUME ChannelInv, RecvNothing \/ RecvMessage \/ GiveUp \/ MainLoop
  PROVE  \/ Contents' = Contents /\ Outcome' = Outcome
         \/ Registers!Fail
         \/ \E v \in Byte : Registers!Succeed(v)
<1>0. ChannelType /\ AnswersInv /\ call \in CallType /\ fsq \in Seq(MsgType) /\ disk \in Disk
  BY DEF ChannelInv, ChannelType
<1>1. disk' = disk /\ running' = running /\ StrayAdded
  BY Zenon DEF RecvNothing, RecvMessage, GiveUp, MainLoop, srvVars, StrayAdded, Backpressure, AnswerHead
<1>2. Contents' = Contents
  BY <1>0, <1>1, StrayIsNoWrite, SameContents
<1>3. ASSUME Retry, call.pc = "wait" PROVE Outcome' = Outcome
  <2> DEFINE n == call.tries + 1
  <2>1. call' = [call EXCEPT !.tries = n] /\ n \in Nat
    BY <1>0, <1>3 DEF Retry, CallType
  <2> HIDE DEF n
  <2>2. call' \in CallType /\ call'.pc = "wait" /\ call'.op = call.op /\ call'.sector = call.sector
        /\ call'.byte = call.byte
    BY <1>0, <1>3, <2>1 DEF CallType
  <2> QED BY <1>0, <1>3, <2>2, CallGoesOn
<1>4. CASE RecvNothing
  BY <1>2, <1>3, <1>4 DEF RecvNothing
<1>5. CASE GiveUp
  BY <1>0, <1>2, <1>5, CallFails DEF GiveUp
<1>6. CASE MainLoop
  BY <1>2, <1>6 DEF MainLoop, fsVars, Outcome
<1>7. CASE RecvMessage
  <2>1. call.pc = "wait" /\ fsq # << >> /\ (Retry \/ (Matches(Head(fsq)) /\ Take(Head(fsq).reply)))
    BY <1>7 DEF RecvMessage
  <2>2. ASSUME Matches(Head(fsq)), Take(Head(fsq).reply)
        PROVE  Registers!Fail \/ \E v \in Byte : Registers!Succeed(v)
    <3>1. 1 \in DOMAIN fsq /\ Head(fsq) = fsq[1]
      BY <1>0, <2>1, QueueTail
    <3>2. Right(Head(fsq).reply) /\ call.id <= executed
      BY <1>0, <2>1, <2>2, <3>1 DEF AnswersInv, Matches
    <3>3. Writes = {}
      <4>1. executed \in Nat /\ call.id \in Nat
        BY <1>0 DEF ChannelType, CallType
      <4>2. executed >= call.id
        BY <3>2, <4>1
      <4> QED BY <4>2, NothingPending
    <3>4. call.sector \in Sectors /\ call.byte \in Byte
      BY <1>0 DEF CallType
    <3>5. disk[call.sector * SECTOR_SIZE] \in Byte /\ Contents[call.sector] = {disk[call.sector * SECTOR_SIZE]}
      <4>1. disk[call.sector * SECTOR_SIZE] \in Byte
        BY <3>4, ContentsType
      <4>2. Contents[call.sector] =
              {disk[call.sector * SECTOR_SIZE]} \cup {r.data[1] : r \in {w \in Writes : w.sector = call.sector}}
        BY <3>4, ContentsOf
      <4> QED BY <3>3, <4>1, <4>2
    <3>6. CASE call.op = "READ" /\ Head(fsq).reply.status = "DATA"
      <4> DEFINE v == Head(fsq).reply.data[1]
      <4>1. v = disk[call.sector * SECTOR_SIZE] /\ Return(TRUE, v)
        BY <2>2, <3>2, <3>6, Zenon DEF Right, Take
      <4> HIDE DEF v
      <4>2. v \in Byte /\ Contents[call.sector] = {v} /\ call.op # "WRITE"
        BY <3>5, <3>6, <4>1
      <4>3. Registers!Succeed(v)
        BY <1>0, <1>2, <2>1, <4>1, <4>2, CallSucceeds, Zenon
      <4> QED BY <4>2, <4>3
    <3>7. CASE call.op = "WRITE" /\ Head(fsq).reply.status = "OK"
      <4>1. Return(TRUE, call.byte) /\ Contents[call.sector] = {call.byte}
        BY <2>2, <3>2, <3>5, <3>7, Zenon DEF Right, Take
      <4>2. Registers!Succeed(call.byte)
        BY <1>0, <1>2, <2>1, <3>4, <4>1, CallSucceeds, Zenon
      <4> QED BY <3>4, <4>2
    <3>8. CASE /\ ~(call.op = "READ" /\ Head(fsq).reply.status = "DATA")
               /\ ~(call.op = "WRITE" /\ Head(fsq).reply.status = "OK")
      <4>1. Return(FALSE, call.byte)
        BY <2>2, <3>8, Zenon DEF Take
      <4> QED BY <1>0, <1>2, <2>1, <4>1, CallFails
    <3> QED BY <3>6, <3>7, <3>8
  <2> QED BY <1>2, <1>3, <2>1, <2>2
<1> QED BY <1>4, <1>5, <1>6, <1>7

LEMMA RegistersStep ==
  ASSUME ChannelInv, ChannelInv', [Next]_vars
  PROVE  [Registers!Next]_(Registers!vars)
<1>0. call \in CallType /\ call' \in CallType
  BY DEF ChannelInv, ChannelType
<1>1. ASSUME Contents' = Contents, Outcome' = Outcome PROVE [Registers!Next]_(Registers!vars)
  BY <1>1 DEF Registers!vars
<1>2. ASSUME UNCHANGED <<disk, running, blkq>> PROVE Contents' = Contents
  <2>1. Writes' = Writes
    BY <1>2 DEF Writes
  <2> QED BY <1>2, <2>1, SameContents
<1>3. CASE UNCHANGED vars
  BY <1>1, <1>2, <1>3 DEF vars, srvVars, fsVars, Outcome
<1>4. ASSUME NEW op \in {"READ", "WRITE"}, NEW s \in Sectors, NEW b \in Byte, blk_call(op, s, b)
      PROVE  Registers!Next
  BY <1>4, CallBegins DEF Registers!Next
<1>5. CASE SendLookup \/ RecvLookup
  <2>1. UNCHANGED <<disk, running, blkq>>
    BY <1>5 DEF SendLookup, RecvLookup, srvVars
  <2>2. /\ call.pc \in {"lookup", "answer"}
        /\ call' = [call EXCEPT !.pc = "answer"] \/ call' = [call EXCEPT !.pc = "send"]
    BY <1>5 DEF SendLookup, RecvLookup, Resolved
  <2>3. call.pc # "idle" /\ call'.pc # "idle" /\ call'.op = call.op /\ call'.sector = call.sector
        /\ call'.byte = call.byte
    BY <1>0, <2>2 DEF CallType
  <2>4. Outcome' = Outcome
    BY <1>0, <2>3, CallGoesOn
  <2> QED BY <1>1, <1>2, <2>1, <2>4
<1>6. CASE SendRequest
  BY <1>1, <1>6, SendSubmits DEF Registers!Next
<1>7. CASE RecvNothing \/ RecvMessage \/ GiveUp \/ MainLoop
  BY <1>1, <1>7, ReceiveMaps DEF Registers!Next
<1>8. CASE StartServer
  BY <1>1, <1>8, StartChangesNothing
<1>9. CASE AnswerLookup \/ \E c \in Clients : Ask(c)
  <2>1. UNCHANGED <<disk, running, blkq, call>>
    BY <1>9, Zenon DEF AnswerLookup, Ask, srvVars, fsVars
  <2>2. Outcome' = Outcome
    BY <2>1 DEF Outcome
  <2> QED BY <1>1, <1>2, <2>1, <2>2
<1>10. ASSUME NEW k \in Servers, Die(k) \/ Serve(k) PROVE Registers!Next
  BY <1>10, DieSettles, ServeSettles DEF Registers!Next
<1> QED BY <1>3, <1>4, <1>5, <1>6, <1>7, <1>8, <1>9, <1>10 DEF Next, CallStep

(* The channel implements a register for each sector: what a               *)
(* call that succeeds says of a sector is what it holds, and no write that *)
(* was given up or lost can change it afterwards.                          *)
THEOREM RegistersTheorem == Spec => SectorsAreRegisters
<1>1. Init => Registers!Init
  BY RegistersInit
<1>2. ChannelInv /\ ChannelInv' /\ [Next]_vars => [Registers!Next]_(Registers!vars)
  BY RegistersStep
<1> QED BY <1>1, <1>2, ChannelCorrect, PTL DEF Spec, SectorsAreRegisters, Registers!Spec
=============================================================================

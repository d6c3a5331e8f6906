------------------------------ MODULE FsProofs ------------------------------
(***************************************************************************)
(* The request handler of fs works on the bytes of its own request, for    *)
(* every size of path, data and buffer and every message; and what init    *)
(* and helloworld conclude from the answers of fs is so, for every number  *)
(* of calls, tries and messages.                                           *)
(***************************************************************************)
EXTENDS FsServer, FsClients, FiniteSetTheorems, TLAPS

Buffer(buf) == DOMAIN buf = PATH_HDR_LEN + 1 .. REQ_BUF_LEN

(* The parts of a message.                                                 *)
LEMMA MessageTypes ==
  ASSUME FsAssumption, NEW m \in Requests
  PROVE  /\ m.len \in Nat /\ m.path_len \in Nat /\ m.data_len \in Nat
         /\ m.v2 \in BOOLEAN /\ m.body \in Seq(Byte) /\ Len(m.body) \in Nat
         /\ DOMAIN m.body = 1 .. Len(m.body)
         /\ hdr_len(m) \in PATH_HDR_LEN .. WRITE_HDR_LEN_V2
         /\ Len(m.body) = IF m.len < hdr_len(m) THEN 0 ELSE m.len - hdr_len(m)
         /\ REQ_BUF_LEN \in Nat /\ REQ_BUF_LEN >= WRITE_HDR_LEN_V2
<1>1. m \in Message /\ Len(m.body) = IF m.len < hdr_len(m) THEN 0 ELSE m.len - hdr_len(m)
  BY DEF FsAssumption
<1>2. m.len \in Nat /\ m.path_len \in Nat /\ m.data_len \in Nat /\ m.v2 \in BOOLEAN
      /\ m.body \in Seq(Byte)
  BY <1>1 DEF Message
<1>3. hdr_len(m) \in PATH_HDR_LEN .. WRITE_HDR_LEN_V2
  BY DEF hdr_len, path_hdr_len, write_hdr_len, PATH_HDR_LEN, PATH_HDR_LEN_V2, WRITE_HDR_LEN,
         WRITE_HDR_LEN_V2
<1>4. REQ_BUF_LEN \in Nat /\ REQ_BUF_LEN >= WRITE_HDR_LEN_V2
  BY DEF FsAssumption, REQ_BUF_LEN, WRITE_HDR_LEN, WRITE_HDR_LEN_V2
<1> QED
  BY <1>1, <1>2, <1>3, <1>4

(* A received message differs from what was sent in its length only.       *)
LEMMA ReceivedParts ==
  ASSUME FsAssumption, NEW m \in Requests
  PROVE  /\ Received(m).op = m.op /\ Received(m).v2 = m.v2 /\ Received(m).cap = m.cap
         /\ Received(m).path_len = m.path_len /\ Received(m).data_len = m.data_len
         /\ Received(m).id = m.id /\ hdr_len(Received(m)) = hdr_len(m)
         /\ Received(m).len = IF m.len > REQ_BUF_LEN THEN REQ_BUF_LEN ELSE m.len
<1>1. m \in Message
  BY DEF FsAssumption
<1>2. /\ Received(m).op = m.op /\ Received(m).v2 = m.v2 /\ Received(m).cap = m.cap
      /\ Received(m).path_len = m.path_len /\ Received(m).data_len = m.data_len
      /\ Received(m).id = m.id
      /\ Received(m).len = IF m.len > REQ_BUF_LEN THEN REQ_BUF_LEN ELSE m.len
  BY <1>1 DEF Received, Message
<1> QED
  BY <1>2 DEF hdr_len, path_hdr_len, write_hdr_len

(* Any part of the buffer that lies inside the received message holds the  *)
(* bytes of this message.                                                  *)
LEMMA OwnBytes ==
  ASSUME FsAssumption, NEW m \in Requests, NEW buf, Buffer(buf),
         NEW k \in Nat, NEW n \in Nat, k + n <= Len(m.body), hdr_len(m) + k + n <= REQ_BUF_LEN
  PROVE  Bytes(Filled(m, buf), hdr_len(m) + k, n) = SubSeq(m.body, k + 1, k + n)
<1> DEFINE h == hdr_len(m)
<1>1. /\ h \in Nat /\ h >= PATH_HDR_LEN /\ m.body \in Seq(Byte) /\ Len(m.body) \in Nat
      /\ DOMAIN m.body = 1 .. Len(m.body) /\ REQ_BUF_LEN \in Nat
  <2>1. /\ hdr_len(m) \in PATH_HDR_LEN .. WRITE_HDR_LEN_V2
        /\ m.body \in Seq(Byte) /\ Len(m.body) \in Nat
        /\ DOMAIN m.body = 1 .. Len(m.body) /\ REQ_BUF_LEN \in Nat
    BY MessageTypes, Zenon
  <2>2. h \in Nat /\ h >= PATH_HDR_LEN
    BY <2>1 DEF PATH_HDR_LEN, WRITE_HDR_LEN_V2
  <2> QED BY <2>1, <2>2
<1>2. k + n <= Len(m.body) /\ h + k + n <= REQ_BUF_LEN
  OBVIOUS
<1>3. Filled(m, buf) = [i \in DOMAIN buf |-> IF i - h \in DOMAIN m.body THEN m.body[i - h] ELSE buf[i]]
  BY DEF Filled
<1> HIDE DEF h
<1>4. ASSUME NEW i \in 1 .. n PROVE Filled(m, buf)[h + k + i] = m.body[k + i]
  <2>1. h + k + i \in DOMAIN buf
    BY <1>1, <1>2 DEF Buffer, PATH_HDR_LEN
  <2>2. (h + k + i) - h = k + i /\ k + i \in DOMAIN m.body
    BY <1>1, <1>2
  <2> QED
    BY <1>3, <2>1, <2>2
<1>5. Bytes(Filled(m, buf), h + k, n) = [i \in 1 .. n |-> m.body[k + i]]
  BY <1>4 DEF Bytes
<1>6. SubSeq(m.body, k + 1, k + n) = [i \in 1 .. n |-> m.body[k + i]]
  BY <1>1, <1>2
<1> QED
  BY <1>5, <1>6 DEF h

(* A path that lies inside the received message is the one that was sent.  *)
LEMMA OwnPath ==
  ASSUME FsAssumption, NEW m \in Requests, NEW buf, Buffer(buf),
         m.path_len <= Len(m.body), hdr_len(m) + m.path_len <= REQ_BUF_LEN
  PROVE  path_bytes(Received(m), Filled(m, buf)) = SentPath(m)
<1> DEFINE h == hdr_len(m)
           n == m.path_len
<1>1. n \in Nat /\ h \in Nat
  BY MessageTypes DEF PATH_HDR_LEN, WRITE_HDR_LEN_V2
<1>2. ASSUME NEW k \in Nat, k = 0
      PROVE  Bytes(Filled(m, buf), h + k, n) = SubSeq(m.body, k + 1, k + n)
  <2>1. k + n <= Len(m.body) /\ h + k + n <= REQ_BUF_LEN
    BY <1>1, <1>2
  <2> QED
    BY <1>1, <2>1, OwnBytes
<1>3. Bytes(Filled(m, buf), h, n) = SubSeq(m.body, 1, n)
  <2>1. h + 0 = h /\ 0 + n = n /\ 0 + 1 = 1
    BY <1>1
  <2> HIDE DEF h, n
  <2> QED
    BY <1>2, <2>1
<1> QED
  BY <1>3, ReceivedParts DEF path_bytes, SentPath

(* What the checks let through is there in full, and what is read from the *)
(* buffer is what was sent.                                                *)
LEMMA ValidIsOwn ==
  ASSUME FsAssumption, NEW m \in Requests, NEW buf, Buffer(buf),
         Valid(Received(m), Filled(m, buf))
  PROVE  /\ Complete(m)
         /\ path_bytes(Received(m), Filled(m, buf)) = SentPath(m)
         /\ m.op = "WRITE" => data(Received(m), Filled(m, buf)) = SentData(m)
<1> DEFINE r == Received(m)
           h == hdr_len(m)
           need == m.path_len + (IF m.op = "WRITE" THEN m.data_len ELSE 0)
<1>r. /\ r.op = m.op /\ r.path_len = m.path_len /\ r.data_len = m.data_len /\ hdr_len(r) = h
      /\ r.len = IF m.len > REQ_BUF_LEN THEN REQ_BUF_LEN ELSE m.len
  BY ReceivedParts
<1>t. /\ m.len \in Nat /\ m.path_len \in Nat /\ m.data_len \in Nat /\ h \in Nat
      /\ Len(m.body) \in Nat /\ REQ_BUF_LEN \in Nat
      /\ Len(m.body) = IF m.len < h THEN 0 ELSE m.len - h
  BY MessageTypes DEF PATH_HDR_LEN, WRITE_HDR_LEN_V2
<1>1. r.len >= h + need
  <2>1. CASE m.op = "WRITE"
    BY <2>1, <1>r, <1>t DEF Valid, WriteValid
  <2>2. CASE m.op # "WRITE"
    BY <2>2, <1>r, <1>t DEF Valid, PathValid
  <2> QED
    BY <2>1, <2>2
<1>2. need \in Nat /\ m.path_len <= need
  BY <1>t
<1>3. need <= Len(m.body) /\ h + need <= REQ_BUF_LEN
  BY <1>1, <1>2, <1>r, <1>t
<1>4. m.path_len <= Len(m.body) /\ h + m.path_len <= REQ_BUF_LEN
  BY <1>2, <1>3, <1>t
<1>5. path_bytes(r, Filled(m, buf)) = SentPath(m)
  BY <1>4, OwnPath
<1>6. ASSUME m.op = "WRITE" PROVE data(r, Filled(m, buf)) = SentData(m)
  <2>1. m.path_len + m.data_len <= Len(m.body) /\ h + m.path_len + m.data_len <= REQ_BUF_LEN
    BY <1>3, <1>6, <1>t
  <2>2. Bytes(Filled(m, buf), h + m.path_len, m.data_len)
          = SubSeq(m.body, m.path_len + 1, m.path_len + m.data_len)
    <3>1. m.path_len \in Nat /\ m.data_len \in Nat
      BY <1>t
    <3> QED
      BY <2>1, <3>1, OwnBytes, Zenon
  <2> QED
    BY <2>2, <1>r DEF data, SentData
<1> QED
  BY <1>3, <1>5, <1>6 DEF Complete

(* A well-formed request passes the checks.                                *)
LEMMA FitsIsValid ==
  ASSUME FsAssumption, NEW m \in Requests, NEW buf, Buffer(buf), WellFormed(m)
  PROVE  Valid(Received(m), Filled(m, buf))
<1> DEFINE r == Received(m)
           h == hdr_len(m)
           need == m.path_len + (IF m.op = "WRITE" THEN m.data_len ELSE 0)
<1>r. /\ r.op = m.op /\ r.path_len = m.path_len /\ r.data_len = m.data_len /\ hdr_len(r) = h
      /\ r.len = IF m.len > REQ_BUF_LEN THEN REQ_BUF_LEN ELSE m.len
  BY ReceivedParts
<1>t. /\ m.len \in Nat /\ m.path_len \in Nat /\ m.data_len \in Nat /\ h \in Nat
      /\ Len(m.body) \in Nat /\ REQ_BUF_LEN \in Nat
      /\ Len(m.body) = IF m.len < h THEN 0 ELSE m.len - h
  BY MessageTypes DEF PATH_HDR_LEN, WRITE_HDR_LEN_V2
<1>w. /\ m.len >= h /\ need <= Len(m.body) /\ h + need <= REQ_BUF_LEN
      /\ m.path_len \in 1 .. MAX_PATH /\ from_utf8(SentPath(m))
      /\ m.op = "WRITE" => m.data_len <= MAX_DATA
  BY <1>t DEF WellFormed, Complete
<1>1. r.len \in Nat /\ r.len >= h + need /\ m.path_len <= need /\ need \in Nat
  BY <1>r, <1>t, <1>w
<1>2. PathValid(r)
  BY <1>1, <1>r, <1>t, <1>w DEF PathValid
<1>3. m.op = "WRITE" => WriteValid(r)
  BY <1>1, <1>2, <1>r, <1>t, <1>w DEF WriteValid
<1>4. m.path_len <= Len(m.body) /\ h + m.path_len <= REQ_BUF_LEN
  BY <1>1, <1>t, <1>w
<1>5. path_bytes(r, Filled(m, buf)) = SentPath(m)
  BY <1>4, OwnPath
<1> QED
  BY <1>2, <1>3, <1>5, <1>r, <1>w DEF Valid

(* Whatever the handler comes to, its answer is exact, and a well-formed   *)
(* request is not refused.                                                 *)
LEMMA OutcomesExact ==
  ASSUME FsAssumption, NEW m \in Requests, NEW buf, Buffer(buf), NEW dir,
         NEW o \in Outcomes(Received(m), Filled(m, buf), dir)
  PROVE  /\ Exactly(m, dir, o.files, o.reply, o.spawned)
         /\ NeedsFs(m.op) /\ WellFormed(m) => o.reply.status # "EINVAL"
<1> DEFINE r == Received(m)
           b == Filled(m, buf)
           name == normalize_path(SentPath(m))
<1>r. r.op = m.op
  BY ReceivedParts
<1>1. CASE Valid(r, b)
  <2>1. /\ Complete(m) /\ path_bytes(r, b) = SentPath(m)
        /\ m.op = "WRITE" => data(r, b) = SentData(m)
    BY <1>1, ValidIsOwn
  <2>2. CASE m.op = "WRITE"
    <3>1. o \in Write(dir, name, SentData(m))
      BY <1>1, <1>r, <2>1, <2>2 DEF Outcomes
    <3>2. \/ o.files = MapInsert(dir, name, SentData(m)) /\ o.reply.status = "OK"
          \/ o.files \in Torn(dir, name, SentData(m)) /\ o.reply.status = "EIO"
      BY <3>1 DEF Write, Says, Fails, Result, Reply
    <3> QED
      BY <2>1, <2>2, <3>2 DEF Exactly
  <2>3. CASE m.op = "READ"
    <3>1. o \in Read(dir, name)
      BY <1>1, <1>r, <2>1, <2>3 DEF Outcomes
    <3>2. /\ o.files = dir
          /\ \/ o.reply.status \in {"ENOENT", "EIO"}
             \/ /\ name \in DOMAIN dir /\ dir[name] # <<>>
                /\ o.reply.status = "DATA" /\ o.reply.data = FileBuf(dir[name])
      BY <3>1 DEF Read, Says, Fails, Result, Reply
    <3> QED
      BY <2>1, <2>3, <3>2 DEF Exactly
  <2>4. CASE m.op = "DELETE"
    <3>1. o \in Delete(dir, name)
      BY <1>1, <1>r, <2>1, <2>4 DEF Outcomes
    <3>2. \/ o.files = dir /\ o.reply.status = "ENOENT"
          \/ name \in DOMAIN dir /\ o.files = MapRemove(dir, name) /\ o.reply.status = "OK"
      BY <3>1 DEF Delete, Says, Fails, Result, Reply
    <3> QED
      BY <2>1, <2>4, <3>2 DEF Exactly
  <2>5. CASE m.op = "EXEC"
    <3>1. o \in Exec(dir, name)
      BY <1>1, <1>r, <2>1, <2>5 DEF Outcomes
    <3>2. /\ o.files = dir
          /\ \/ o.reply.status = "ENOENT"
             \/ /\ name \in DOMAIN dir /\ o.reply.status \in {"OK", "EIO"}
                /\ o.spawned = dir[name]
      BY <3>1 DEF Exec, read_file_all, Says, Fails, Result, Reply
    <3> QED
      BY <2>1, <2>5, <3>2 DEF Exactly
  <2>6. CASE ~NeedsFs(m.op)
    <3>1. o \in {Says(dir, "PONG"), Says(dir, "EINVAL")}
      BY <1>r, <2>6 DEF Outcomes, NeedsFs
    <3>2. o.files = dir /\ o.reply.status \in {"PONG", "EINVAL"}
      BY <3>1 DEF Says, Result, Reply
    <3> QED
      BY <2>6, <3>2 DEF Exactly, NeedsFs
  <2> QED
    BY <2>2, <2>3, <2>4, <2>5, <2>6 DEF NeedsFs
<1>2. CASE ~Valid(r, b)
  <2>1. o \in {Says(dir, "PONG"), Says(dir, "EINVAL")}
    BY <1>2 DEF Outcomes
  <2>2. o.files = dir /\ o.reply.status \in {"PONG", "EINVAL"}
    BY <2>1 DEF Says, Result, Reply
  <2>3. ~WellFormed(m)
    BY <1>2, FitsIsValid
  <2> QED
    BY <2>2, <2>3 DEF Exactly
<1> QED
  BY <1>1, <1>2

(* The buffer keeps its size, and what is remembered of the last request   *)
(* is what the properties say.                                             *)
FsInv ==
  /\ Buffer(req_buf)
  /\ AnsweredExactly /\ FittingIsServed /\ AnswersCarryIds

(* No request has been answered at first.                                  *)
LEMMA FsInit == Init => FsInv
<1> SUFFICES ASSUME Init PROVE FsInv
  OBVIOUS
<1>1. last.req.op = "PING" /\ last.req.v2 = FALSE /\ last.before = files /\ last.id = NoId
      /\ last.reply.status = "PONG"
  BY DEF Init, None, Reply
<1>2. Buffer(req_buf)
  BY DEF Init, Buffer
<1> QED
  BY <1>1, <1>2 DEF FsInv, AnsweredExactly, Exactly, FittingIsServed, AnswersCarryIds, NeedsFs

(* The id of an answer is that of the request.                             *)
LEMMA IdIsOwn ==
  ASSUME FsAssumption, NEW m \in Requests
  PROVE  /\ m.v2 /\ m.len >= hdr_len(m) => req_id(Received(m)) = m.id
         /\ ~m.v2 => req_id(Received(m)) = NoId
<1> DEFINE r == Received(m)
<1>r. /\ r.op = m.op /\ r.v2 = m.v2 /\ r.id = m.id
      /\ r.len = IF m.len > REQ_BUF_LEN THEN REQ_BUF_LEN ELSE m.len
  BY ReceivedParts
<1>t. /\ m.len \in Nat /\ REQ_BUF_LEN \in Nat /\ REQ_BUF_LEN >= WRITE_HDR_LEN_V2 /\ m.v2 \in BOOLEAN
  BY MessageTypes
<1>1. ASSUME ~m.v2 PROVE req_id(r) = NoId
  BY <1>1, <1>r DEF req_id
<1>2. ASSUME m.v2, m.len >= hdr_len(m), m.op = "WRITE" PROVE req_id(r) = m.id
  <2>1. r.len >= WRITE_HDR_LEN_V2
    BY <1>2, <1>r, <1>t DEF hdr_len, write_hdr_len, WRITE_HDR_LEN_V2
  <2>2. ~(r.len \in PATH_HDR_LEN_V2 .. WRITE_HDR_LEN_V2 - 1)
    BY <2>1, <1>r, <1>t DEF WRITE_HDR_LEN_V2, PATH_HDR_LEN_V2
  <2> QED
    BY <1>2, <1>r, <2>1, <2>2 DEF req_id
<1>3. ASSUME m.v2, m.len >= hdr_len(m), m.op # "WRITE" PROVE req_id(r) = m.id
  <2>1. r.len >= PATH_HDR_LEN_V2
    BY <1>3, <1>r, <1>t DEF hdr_len, path_hdr_len, WRITE_HDR_LEN_V2, PATH_HDR_LEN_V2
  <2> QED
    BY <1>3, <1>r, <2>1 DEF req_id
<1> QED
  BY <1>1, <1>2, <1>3

(* Every message leaves the invariant true.                                *)
LEMMA FsNext == FsAssumption /\ FsInv /\ [Next]_vars => FsInv'
<1> SUFFICES ASSUME FsAssumption, FsInv, [Next]_vars PROVE FsInv'
  OBVIOUS
<1>1. ASSUME NEW m \in Requests, Serve(m) PROVE FsInv'
  <2> DEFINE r == Received(m)
  <2>1. req_buf' = Filled(m, req_buf) /\ Buffer(req_buf)
    BY <1>1 DEF Serve, FsInv
  <2>2. Buffer(req_buf')
    BY <2>1 DEF Buffer, Filled
  <2>3. CASE UNCHANGED <<files, last>>
    BY <2>2, <2>3 DEF FsInv, Buffer, AnsweredExactly, FittingIsServed, AnswersCarryIds
  <2>4. CASE ~UNCHANGED <<files, last>>
    <3>1. PICK o \in IF NeedsFs(r.op) /\ ~mounted' THEN {Says(files, "EAGAIN")}
                     ELSE Outcomes(r, req_buf', files) :
            /\ files' = o.files
            /\ last' = [req |-> m, before |-> files, reply |-> o.reply, id |-> req_id(r),
                        fault |-> o.fault, spawned |-> o.spawned]
      BY <1>1, <2>4 DEF Serve
    <3>2. /\ last'.req = m /\ last'.before = files /\ last'.reply = o.reply
          /\ last'.id = req_id(r) /\ last'.spawned = o.spawned
      BY <3>1
    <3>3. /\ Exactly(m, files, o.files, o.reply, o.spawned)
          /\ NeedsFs(m.op) /\ WellFormed(m) => o.reply.status # "EINVAL"
      <4>1. CASE o \in Outcomes(r, req_buf', files)
        BY <2>1, <4>1, OutcomesExact
      <4>2. CASE o = Says(files, "EAGAIN")
        <5>1. o.files = files /\ o.reply.status = "EAGAIN"
          BY <4>2 DEF Says, Result, Reply
        <5> QED
          BY <5>1 DEF Exactly
      <4> QED
        BY <3>1, <4>1, <4>2
    <3>4. AnsweredExactly' /\ FittingIsServed'
      BY <3>1, <3>2, <3>3 DEF AnsweredExactly, FittingIsServed
    <3>5. AnswersCarryIds'
      BY <3>2, IdIsOwn DEF AnswersCarryIds
    <3> QED
      BY <2>2, <3>4, <3>5 DEF FsInv, Buffer
  <2> QED
    BY <2>3, <2>4
<1>2. ASSUME UNCHANGED vars PROVE FsInv'
  BY <1>2 DEF vars, FsInv, Buffer, AnsweredExactly, FittingIsServed, AnswersCarryIds
<1> QED
  BY <1>1, <1>2 DEF Next

(* The three properties below, and the size of the buffer, always hold.    *)
THEOREM FsCorrect == FsAssumption => (Spec => []FsInv)
<1> SUFFICES ASSUME FsAssumption PROVE Spec => []FsInv
  OBVIOUS
<1>1. FsInv /\ [Next]_vars => FsInv'
  BY FsNext
<1> QED
  BY <1>1, FsInit, PTL DEF Spec

(* Whatever messages fs receives, cut short, too long or announcing more   *)
(* than they carry, an answered request was carried out on its own bytes.  *)
THEOREM ExactTheorem == FsAssumption => (Spec => []AnsweredExactly)
<1>1. FsInv => AnsweredExactly
  BY DEF FsInv
<1> QED
  BY <1>1, FsCorrect, PTL

(* Every well-formed request that fits the buffer passes the checks.       *)
THEOREM FittingTheorem == FsAssumption => (Spec => []FittingIsServed)
<1>1. FsInv => FittingIsServed
  BY DEF FsInv
<1> QED
  BY <1>1, FsCorrect, PTL

(* Answers repeat the id of their request.                                 *)
THEOREM IdsTheorem == FsAssumption => (Spec => []AnswersCarryIds)
<1>1. FsInv => AnswersCarryIds
  BY DEF FsInv
<1> QED
  BY <1>1, FsCorrect, PTL

-----------------------------------------------------------------------------
(* fs and its clients *)

ReqType == [op : {"EXEC", "PING", "WRITE", "READ"}, id : Nat, cap : {"init", "hello", "none"}]
Texts == {"OK", "PONG", "EAGAIN", "ENOENT", "EIO", "content", "REQ_LOOKUP_SERVICE"}
MsgType == [text : Texts, id : Nat, cap : {"none", "service"}]
CallType == [pc : {"idle", "wait"}, op : {"EXEC", "PING"}, id : Nat, tries : Nat]
HelloType == [step : {"WRITE", "READ", "off"}, waits : BOOLEAN, i : Nat,
              write_ok : BOOLEAN, read_ok : BOOLEAN]

(* Who asks for what.                                                      *)
FromClient(r) ==
  /\ r.cap = "init" => r.op \in {"EXEC", "PING"}
  /\ r.cap = "hello" => r.op \in {"WRITE", "READ"}

AtWork == busy # Free => busy \in ReqType /\ FromClient(busy) /\ busy.cap # "none" /\ busy.op # "PING"

ClientsType ==
  /\ fsq \in Seq(ReqType) /\ initq \in Seq(MsgType) /\ helloq \in Seq(MsgType)
  /\ \A k \in DOMAIN fsq : FromClient(fsq[k])
  /\ AtWork
  /\ file \in {"", "content"} /\ wrote \in BOOLEAN
  /\ executed \in Seq(Nat) /\ calls \in Nat /\ others \in Nat
  /\ icall \in CallType /\ hello \in HelloType

(* The execs that were asked for: one has ended, or init waits for its     *)
(* answer.                                                                 *)
Asked ==
  {x \in 1 .. calls :
     x \in believed \cup gaveup \/ (icall.pc = "wait" /\ icall.op = "EXEC" /\ icall.id = x)}

(* The requests for execs that are under way are all different, and none   *)
(* has been carried out.                                                   *)
RequestsInv ==
  /\ \A k \in DOMAIN fsq : fsq[k].op = "EXEC" => fsq[k].id \in Asked /\ fsq[k].id \notin Range(executed)
  /\ \A k \in DOMAIN fsq : fsq[k].op = "EXEC" /\ busy.op = "EXEC" => fsq[k].id # busy.id
  /\ \A j, k \in DOMAIN fsq :
       fsq[j].op = "EXEC" /\ fsq[k].op = "EXEC" /\ fsq[j].id = fsq[k].id => j = k
  /\ busy.op = "EXEC" => busy.id \in Asked /\ busy.id \notin Range(executed)

ExecutedInv ==
  /\ \A k \in DOMAIN executed : executed[k] \in Asked
  /\ \A j, k \in DOMAIN executed : executed[j] = executed[k] => j = k

(* An answer "OK" under way belongs to an exec that was carried out and    *)
(* whose answer has not been taken, and to no other answer.                *)
AnswersInv ==
  /\ \A k \in DOMAIN initq : initq[k].text = "OK" => initq[k].id \in Range(executed) \ accepted
  /\ \A j, k \in DOMAIN initq :
       initq[j].text = "OK" /\ initq[k].text = "OK" /\ initq[j].id = initq[k].id => j = k

(* Each exec that init takes to be done used up the answer to one.         *)
BeliefInv ==
  /\ believed \subseteq 1 .. calls /\ gaveup \subseteq 1 .. calls
  /\ accepted \subseteq Range(executed) /\ accepted \subseteq believed \cup gaveup
  /\ Cardinality(accepted) = Cardinality(believed)
  /\ icall.pc = "wait" /\ icall.op = "EXEC" =>
       icall.id \in 1 .. calls /\ icall.id \notin believed \cup gaveup

(* While helloworld waits for the answer to its write, at most one message *)
(* of that exchange exists.  Once it knows the write to be done, none does *)
(* that could undo it.                                                     *)
HelloInv ==
  /\ hello.step = "WRITE" =>
       /\ ~hello.write_ok
       /\ \A k \in DOMAIN fsq : fsq[k].cap = "hello" =>
            /\ busy.cap # "hello" /\ helloq = <<>> /\ hello.waits
            /\ \A j \in DOMAIN fsq : fsq[j].cap = "hello" => j = k
       /\ busy.cap = "hello" => helloq = <<>> /\ hello.waits
       /\ helloq # <<>> => hello.waits /\ Len(helloq) = 1
       /\ \A k \in DOMAIN helloq : helloq[k].text = "OK" => wrote /\ file = "content"
  /\ hello.write_ok =>
       /\ wrote /\ file = "content" /\ busy.op # "WRITE"
       /\ \A k \in DOMAIN fsq : fsq[k].cap = "hello" => fsq[k].op # "WRITE"

ClientsInv ==
  ClientsType /\ RequestsInv /\ ExecutedInv /\ AnswersInv /\ BeliefInv /\ HelloInv

(* What is left of a queue after a receive.                                *)
LEMMA QueueTail ==
  ASSUME NEW S, NEW q \in Seq(S), q # <<>>
  PROVE  /\ Tail(q) \in Seq(S) /\ Head(q) \in S /\ Head(q) = q[1] /\ 1 \in DOMAIN q
         /\ Len(q) \in Nat /\ Len(Tail(q)) = Len(q) - 1
         /\ \A k \in DOMAIN Tail(q) : k + 1 \in DOMAIN q /\ k + 1 # 1 /\ Tail(q)[k] = q[k + 1]
         /\ \A j, k \in DOMAIN Tail(q) : j + 1 = k + 1 => j = k
OBVIOUS

(* A queue after a send.                                                   *)
LEMMA QueueAppend ==
  ASSUME NEW S, NEW q \in Seq(S), NEW m \in S
  PROVE  /\ Append(q, m) \in Seq(S) /\ Len(q) \in Nat /\ Len(q) + 1 \notin DOMAIN q
         /\ Len(Append(q, m)) = Len(q) + 1 /\ Append(q, m) # <<>>
         /\ DOMAIN Append(q, m) = DOMAIN q \cup {Len(q) + 1}
         /\ Append(q, m)[Len(q) + 1] = m
         /\ \A k \in DOMAIN q : Append(q, m)[k] = q[k]
OBVIOUS

(* What the definitions of the requests and answers are made of.           *)
LEMMA Messages ==
  /\ \A op, id, cap : /\ Request(op, id, cap).op = op /\ Request(op, id, cap).id = id
                      /\ Request(op, id, cap).cap = cap
  /\ \A op \in {"EXEC", "PING", "WRITE", "READ"}, id \in Nat, cap \in {"init", "hello", "none"} :
       Request(op, id, cap) \in ReqType
  /\ \A text, id, cap : /\ Answer(text, id, cap).text = text /\ Answer(text, id, cap).id = id
                        /\ Answer(text, id, cap).cap = cap
  /\ \A text \in Texts, id \in Nat, cap \in {"none", "service"} : Answer(text, id, cap) \in MsgType
  /\ Free.op = "none" /\ Free.cap = "none" /\ Free.id = 0
  /\ Idle \in CallType /\ Idle.pc = "idle"
BY DEF Request, Answer, Free, Idle, ReqType, MsgType, CallType

LEMMA ClientsInitInv == ASSUME ClientsInit PROVE ClientsInv
<1>0. DOMAIN << >> = {} /\ (\A S : << >> \in Seq(S))
  OBVIOUS
<1>a. /\ DOMAIN fsq = {} /\ DOMAIN initq = {} /\ DOMAIN helloq = {} /\ DOMAIN executed = {}
      /\ busy.op = "none" /\ busy.cap = "none" /\ icall.pc = "idle"
      /\ ~hello.write_ok /\ hello \in HelloType /\ helloq = << >>
  BY <1>0, Messages, Zenon DEF ClientsInit, HelloType
<1>1. ClientsType
  BY <1>0, <1>a, Messages, Zenon DEF ClientsInit, ClientsType, AtWork
<1>2. RequestsInv /\ ExecutedInv /\ AnswersInv
  BY <1>a DEF RequestsInv, ExecutedInv, AnswersInv
<1>3. Range(executed) = {} /\ Cardinality({}) = 0
  BY <1>a, FS_EmptySet DEF Range
<1>4. BeliefInv
  BY <1>a, <1>3, Zenon DEF ClientsInit, BeliefInv
<1>5. HelloInv
  BY <1>a, Zenon DEF ClientsInit, HelloInv
<1> QED BY <1>1, <1>2, <1>4, <1>5 DEF ClientsInv

-----------------------------------------------------------------------------
(* Nothing that was asked for is forgotten, by whatever step.              *)
LEMMA AskedKept ==
  ASSUME ClientsInv, [ClientsNext]_clientsVars, NEW x \in Asked
  PROVE  x \in Asked'
<1>1. icall \in CallType /\ calls \in Nat
  BY Zenon DEF ClientsInv, ClientsType
<1>2. CASE fs_exec \/ probe_service
  BY <1>1, <1>2 DEF fs_exec, probe_service, Call, Asked
<1>3. CASE wait_for_reply_or_control
  BY <1>1, <1>3 DEF wait_for_reply_or_control, Asked, TriesLeft, Accept, Idle, CallType
<1>4. CASE /\ UNCHANGED <<calls, believed, gaveup, icall>>
  BY <1>4 DEF Asked
<1> QED
  BY <1>2, <1>3, <1>4, Zenon DEF ClientsNext, clientsVars, initVars, control_plane_loop, ControlMessage,
     Take, Finish, HelloStep, HelloSend, HelloRecv, OutOfTries

(* The execs carried out are kept, and those done are counted in 1 .. calls.*)
LEMMA ExecutedIn ==
  ASSUME ClientsInv
  PROVE  /\ Range(executed) \subseteq 1 .. calls /\ calls + 1 \notin Range(executed)
         /\ \A k \in DOMAIN fsq : fsq[k].op = "EXEC" => fsq[k].id # calls + 1
         /\ busy.op = "EXEC" => busy.id # calls + 1
<1>1. calls \in Nat /\ executed \in Seq(Nat)
  BY Zenon DEF ClientsInv, ClientsType
<1>2. \A x \in Asked : x \in 1 .. calls /\ x # calls + 1
  BY <1>1 DEF Asked
<1>3. \A k \in DOMAIN executed : executed[k] \in 1 .. calls /\ executed[k] # calls + 1
  BY <1>2 DEF ClientsInv, ExecutedInv
<1>4. Range(executed) \subseteq 1 .. calls /\ calls + 1 \notin Range(executed)
  BY <1>3 DEF Range
<1> QED BY <1>2, <1>4 DEF ClientsInv, RequestsInv

(* A call of init that is sent puts one request into the queue of fs.      *)
LEMMA CallHello ==
  ASSUME ClientsInv, NEW op \in {"EXEC", "PING"}, NEW id \in Nat, Call(op, id)
  PROVE  HelloInv' /\ fsq' \in Seq(ReqType) /\ (\A k \in DOMAIN fsq' : FromClient(fsq'[k]))
         /\ icall' \in CallType
<1>1. /\ fsq \in Seq(ReqType) /\ HelloInv /\ icall \in CallType
      /\ \A k \in DOMAIN fsq : FromClient(fsq[k])
  BY Zenon DEF ClientsInv, ClientsType
<1>2. CASE UNCHANGED <<fsq, icall>>
  BY <1>1, <1>2 DEF Call, HelloInv, fsVars
<1>3. ASSUME NEW cap \in {"init", "none"}, fsq' = Append(fsq, Request(op, id, cap)),
             icall' = [pc |-> "wait", op |-> op, id |-> id, tries |-> 0]
      PROVE  HelloInv' /\ fsq' \in Seq(ReqType) /\ (\A k \in DOMAIN fsq' : FromClient(fsq'[k]))
             /\ icall' \in CallType
  <2>1. Request(op, id, cap) \in ReqType /\ Request(op, id, cap).cap = cap
        /\ Request(op, id, cap).op = op
    BY Messages
  <2>2. /\ fsq' \in Seq(ReqType) /\ DOMAIN fsq' = DOMAIN fsq \cup {Len(fsq) + 1}
        /\ fsq'[Len(fsq) + 1] = Request(op, id, cap)
        /\ \A k \in DOMAIN fsq : fsq'[k] = fsq[k]
    BY <1>1, <1>3, <2>1, QueueAppend
  <2>3. \A k \in DOMAIN fsq' : FromClient(fsq'[k])
    BY <1>1, <2>1, <2>2 DEF FromClient
  <2>4. \A k \in DOMAIN fsq' : fsq'[k].cap = "hello" => k \in DOMAIN fsq /\ fsq'[k] = fsq[k]
    BY <2>1, <2>2
  <2>5. UNCHANGED <<helloq, fsVars, hello>>
    BY DEF Call
  <2>6. HelloInv'
    BY <1>1, <2>4, <2>5 DEF HelloInv, fsVars
  <2> QED BY <1>3, <2>2, <2>3, <2>6 DEF CallType
<1> QED BY <1>2, <1>3 DEF Call

(* What is known of the other variables stays, if no step touches them.    *)
LEMMA AnswersKept ==
  ASSUME AnswersInv, UNCHANGED <<initq, executed, accepted>>
  PROVE  AnswersInv'
BY DEF AnswersInv

LEMMA ExecutedKept ==
  ASSUME ClientsInv, [ClientsNext]_clientsVars, UNCHANGED executed
  PROVE  ExecutedInv'
BY AskedKept DEF ClientsInv, ExecutedInv

LEMMA BeliefKept ==
  ASSUME ClientsInv, UNCHANGED <<calls, believed, gaveup, accepted, icall, executed>>
  PROVE  BeliefInv'
BY DEF ClientsInv, BeliefInv

(* The requests under way stay as they are when the queue of fs gets one   *)
(* that is no exec, or a new one.                                          *)
LEMMA RequestsKept ==
  ASSUME ClientsInv, [ClientsNext]_clientsVars, UNCHANGED <<busy, executed>>,
         \/ UNCHANGED fsq
         \/ \E m \in ReqType : /\ fsq' = Append(fsq, m)
                               /\ m.op = "EXEC" => m.id = calls + 1 /\ m.id \in Asked'
  PROVE  RequestsInv'
<1>0. RequestsInv /\ fsq \in Seq(ReqType)
  BY Zenon DEF ClientsInv, ClientsType
<1>1. \A x \in Asked : x \in Asked'
  BY AskedKept
<1>2. busy'.op = "EXEC" => busy'.id \in Asked' /\ busy'.id \notin Range(executed')
  BY <1>0, <1>1 DEF RequestsInv
<1>3. CASE UNCHANGED fsq
  BY <1>0, <1>1, <1>3 DEF RequestsInv
<1>4. ASSUME NEW m \in ReqType, fsq' = Append(fsq, m),
             m.op = "EXEC" => m.id = calls + 1 /\ m.id \in Asked'
      PROVE  RequestsInv'
  <2> DEFINE n == Len(fsq) + 1
  <2>1. /\ DOMAIN fsq' = DOMAIN fsq \cup {n} /\ n \notin DOMAIN fsq
        /\ fsq'[n] = m /\ \A k \in DOMAIN fsq : fsq'[k] = fsq[k]
    BY <1>0, <1>4, QueueAppend
  <2>2. /\ calls + 1 \notin Range(executed) /\ (busy.op = "EXEC" => busy.id # calls + 1)
        /\ \A k \in DOMAIN fsq : fsq[k].op = "EXEC" => fsq[k].id # calls + 1
    BY ExecutedIn
  <2> HIDE DEF n
  <2>3. ASSUME NEW k \in DOMAIN fsq', fsq'[k].op = "EXEC"
        PROVE  /\ fsq'[k].id \in Asked' /\ fsq'[k].id \notin Range(executed')
               /\ busy'.op = "EXEC" => fsq'[k].id # busy'.id
    <3>1. CASE k = n
      BY <1>4, <2>1, <2>2, <2>3, <3>1
    <3>2. CASE k \in DOMAIN fsq
      BY <1>0, <1>1, <2>1, <2>3, <3>2 DEF RequestsInv
    <3> QED BY <2>1, <3>1, <3>2
  <2>4. ASSUME NEW j \in DOMAIN fsq', NEW k \in DOMAIN fsq', fsq'[j].op = "EXEC",
               fsq'[k].op = "EXEC", fsq'[j].id = fsq'[k].id
        PROVE  j = k
    <3>1. CASE j = n \/ k = n
      BY <1>4, <2>1, <2>2, <2>4, <3>1
    <3>2. CASE j \in DOMAIN fsq /\ k \in DOMAIN fsq
      BY <1>0, <2>1, <2>4, <3>2 DEF RequestsInv
    <3> QED BY <2>1, <3>1, <3>2
  <2> QED BY <1>2, <2>3, <2>4 DEF RequestsInv
<1> QED BY <1>3, <1>4

(* init asks for an exec: its number is new.                               *)
LEMMA FsExecInv == ASSUME ClientsInv, fs_exec PROVE ClientsInv'
<1>0. /\ ClientsType /\ RequestsInv /\ ExecutedInv /\ AnswersInv /\ BeliefInv
      /\ calls \in Nat /\ icall \in CallType
  BY Zenon DEF ClientsInv, ClientsType
<1>a. [ClientsNext]_clientsVars
  BY DEF ClientsNext
<1>b. /\ Call("EXEC", calls + 1) /\ calls' = calls + 1 /\ icall.pc = "idle"
      /\ UNCHANGED <<others, initq, helloq, fsVars, believed, gaveup, accepted, hello>>
  BY DEF fs_exec, Call
<1>1. HelloInv' /\ ClientsType'
  <2>1. HelloInv' /\ fsq' \in Seq(ReqType) /\ (\A k \in DOMAIN fsq' : FromClient(fsq'[k]))
         /\ icall' \in CallType
    BY <1>0, <1>b, CallHello
  <2>2. AtWork'
    BY <1>0, <1>b, Zenon DEF ClientsType, AtWork, fsVars
  <2>3. calls' \in Nat /\ others' \in Nat
    <3>1. calls \in Nat /\ others \in Nat
      BY <1>0, Zenon DEF ClientsType
    <3>2. calls' = calls + 1 /\ others' = others
      BY DEF fs_exec
    <3> QED BY <3>1, <3>2
  <2>4. ClientsType'
    BY <1>0, <1>b, <2>1, <2>2, <2>3, Zenon DEF ClientsType, fsVars
  <2> QED BY <2>1, <2>4
<1>2. ExecutedInv' /\ AnswersInv'
  BY <1>0, <1>a, <1>b, ExecutedKept, AnswersKept DEF fsVars
<1>3. BeliefInv'
  <2>1. icall' = icall \/ icall'.id = calls + 1
    BY <1>0, <1>b DEF Call
  <2> QED BY <1>0, <1>b, <2>1 DEF BeliefInv, fsVars
<1>4. RequestsInv'
  <2>1. CASE UNCHANGED fsq
    BY <1>a, <1>b, <2>1, RequestsKept DEF fsVars
  <2>2. ASSUME NEW cap \in {"init", "none"}, fsq' = Append(fsq, Request("EXEC", calls + 1, cap)),
               icall' = [pc |-> "wait", op |-> "EXEC", id |-> calls + 1, tries |-> 0]
        PROVE  RequestsInv'
    <3>1. Request("EXEC", calls + 1, cap) \in ReqType /\ Request("EXEC", calls + 1, cap).id = calls + 1
      BY <1>0, Messages
    <3>2. calls + 1 \in Asked'
      BY <1>0, <1>b, <2>2 DEF Asked
    <3> QED BY <1>a, <1>b, <2>2, <3>1, <3>2, RequestsKept DEF fsVars
  <2> QED BY <1>b, <2>1, <2>2 DEF Call
<1> QED BY <1>1, <1>2, <1>3, <1>4 DEF ClientsInv

LEMMA ProbeInv == ASSUME ClientsInv, probe_service PROVE ClientsInv'
<1>0. /\ ClientsType /\ RequestsInv /\ ExecutedInv /\ AnswersInv /\ BeliefInv
      /\ calls \in Nat /\ icall \in CallType
  BY Zenon DEF ClientsInv, ClientsType
<1>a. [ClientsNext]_clientsVars
  BY DEF ClientsNext
<1>b. /\ Call("PING", 0) /\ others' = others + 1 /\ icall.pc = "idle"
      /\ UNCHANGED <<calls, initq, helloq, fsVars, believed, gaveup, accepted, hello>>
  BY DEF probe_service, Call
<1>1. HelloInv' /\ ClientsType'
  <2>1. HelloInv' /\ fsq' \in Seq(ReqType) /\ (\A k \in DOMAIN fsq' : FromClient(fsq'[k]))
         /\ icall' \in CallType
    BY <1>b, CallHello
  <2>2. AtWork'
    BY <1>0, <1>b, Zenon DEF ClientsType, AtWork, fsVars
  <2>3. calls' \in Nat /\ others' \in Nat
    <3>1. calls \in Nat /\ others \in Nat
      BY <1>0, Zenon DEF ClientsType
    <3>2. others' = others + 1 /\ calls' = calls
      BY DEF probe_service
    <3> QED BY <3>1, <3>2
  <2>4. ClientsType'
    BY <1>0, <1>b, <2>1, <2>2, <2>3, Zenon DEF ClientsType, fsVars
  <2> QED BY <2>1, <2>4
<1>2. ExecutedInv' /\ AnswersInv'
  BY <1>0, <1>a, <1>b, ExecutedKept, AnswersKept DEF fsVars
<1>3. BeliefInv'
  <2>1. icall' = icall \/ icall'.op = "PING"
    BY <1>0, <1>b DEF Call
  <2> QED BY <1>0, <1>b, <2>1 DEF BeliefInv, fsVars
<1>4. RequestsInv'
  <2>1. CASE UNCHANGED fsq
    BY <1>a, <1>b, <2>1, RequestsKept DEF fsVars
  <2>2. ASSUME NEW cap \in {"init", "none"}, fsq' = Append(fsq, Request("PING", 0, cap))
        PROVE  RequestsInv'
    <3>1. Request("PING", 0, cap) \in ReqType /\ Request("PING", 0, cap).op = "PING"
      BY Messages
    <3> QED BY <1>a, <1>b, <2>2, <3>1, RequestsKept DEF fsVars
  <2> QED BY <1>b, <2>1, <2>2 DEF Call
<1> QED BY <1>1, <1>2, <1>3, <1>4 DEF ClientsInv

-----------------------------------------------------------------------------
(* An answer that is taken from the queue of init is used up.              *)
LEMMA AnswersTail ==
  ASSUME ClientsInv, initq # << >>, initq' = Tail(initq), UNCHANGED executed,
         \/ accepted' = accepted
         \/ Head(initq).text = "OK" /\ accepted' = accepted \cup {Head(initq).id}
  PROVE  AnswersInv' /\ initq' \in Seq(MsgType)
<1>0. AnswersInv /\ initq \in Seq(MsgType)
  BY Zenon DEF ClientsInv, ClientsType
<1>1. /\ initq' \in Seq(MsgType) /\ Head(initq) = initq[1] /\ 1 \in DOMAIN initq
      /\ \A k \in DOMAIN initq' : k + 1 \in DOMAIN initq /\ k + 1 # 1 /\ initq'[k] = initq[k + 1]
      /\ \A j, k \in DOMAIN initq' : j + 1 = k + 1 => j = k
  BY <1>0, QueueTail
<1>2. ASSUME NEW k \in DOMAIN initq', initq'[k].text = "OK"
      PROVE  initq'[k].id \in Range(executed) \ accepted'
  BY <1>0, <1>1, <1>2 DEF AnswersInv
<1>3. ASSUME NEW j \in DOMAIN initq', NEW k \in DOMAIN initq', initq'[j].text = "OK",
             initq'[k].text = "OK", initq'[j].id = initq'[k].id
      PROVE  j = k
  <2>1. j + 1 = k + 1
    BY <1>0, <1>1, <1>3 DEF AnswersInv
  <2> QED BY <1>1, <2>1
<1> QED BY <1>1, <1>2, <1>3 DEF AnswersInv

LEMMA AnswersAppend ==
  ASSUME ClientsInv, NEW m \in MsgType, initq' = Append(initq, m), UNCHANGED accepted,
         Range(executed) \subseteq Range(executed'),
         m.text = "OK" => m.id \in Range(executed') \ Range(executed)
  PROVE  AnswersInv' /\ initq' \in Seq(MsgType)
<1> DEFINE n == Len(initq) + 1
<1>0. AnswersInv /\ initq \in Seq(MsgType) /\ accepted \subseteq Range(executed)
  BY Zenon DEF ClientsInv, ClientsType, BeliefInv
<1>1. /\ initq' \in Seq(MsgType) /\ DOMAIN initq' = DOMAIN initq \cup {n} /\ n \notin DOMAIN initq
      /\ initq'[n] = m /\ \A k \in DOMAIN initq : initq'[k] = initq[k]
  BY <1>0, QueueAppend
<1> HIDE DEF n
<1>2. ASSUME NEW k \in DOMAIN initq', initq'[k].text = "OK"
      PROVE  initq'[k].id \in Range(executed') \ accepted'
  BY <1>0, <1>1, <1>2 DEF AnswersInv
<1>3. ASSUME NEW j \in DOMAIN initq', NEW k \in DOMAIN initq', initq'[j].text = "OK",
             initq'[k].text = "OK", initq'[j].id = initq'[k].id
      PROVE  j = k
  <2>1. CASE j = n /\ k # n
    BY <1>0, <1>1, <1>3, <2>1 DEF AnswersInv
  <2>2. CASE k = n /\ j # n
    BY <1>0, <1>1, <1>3, <2>2 DEF AnswersInv
  <2>3. CASE j # n /\ k # n
    BY <1>0, <1>1, <1>3, <2>3 DEF AnswersInv
  <2> QED BY <2>1, <2>2, <2>3
<1> QED BY <1>1, <1>2, <1>3 DEF AnswersInv

LEMMA HelloKept ==
  ASSUME ClientsInv, UNCHANGED <<fsq, helloq, fsVars, hello>>
  PROVE  HelloInv'
BY DEF ClientsInv, HelloInv, fsVars

(* The sets that init keeps are finite.                                    *)
LEMMA FiniteBelief ==
  ASSUME ClientsInv
  PROVE  /\ IsFiniteSet(believed) /\ IsFiniteSet(gaveup) /\ IsFiniteSet(accepted)
         /\ IsFiniteSet(Range(executed))
<1>0. calls \in Nat
  BY Zenon DEF ClientsInv, ClientsType
<1>1. IsFiniteSet(1 .. calls)
  BY <1>0, FS_Interval
<1>2. Range(executed) \subseteq 1 .. calls
  BY ExecutedIn
<1> QED BY <1>1, <1>2, FS_Subset, Zenon DEF ClientsInv, BeliefInv

(* init takes the answer to an exec: the one that it belongs to and the    *)
(* one that init takes it for are both counted.                            *)
LEMMA AcceptBelief ==
  ASSUME ClientsInv, icall.pc = "wait", icall.op = "EXEC", NEW k \in DOMAIN initq,
         initq[k].text = "OK", icall' = Idle, believed' = believed \cup {icall.id},
         accepted' = accepted \cup {initq[k].id}, UNCHANGED <<gaveup, calls, executed>>
  PROVE  BeliefInv'
<1>0. BeliefInv /\ AnswersInv /\ ExecutedInv
  BY DEF ClientsInv
<1>1. initq[k].id \in Range(executed) \ accepted
  BY <1>0 DEF AnswersInv
<1>2. icall.id \in 1 .. calls /\ icall.id \notin believed
  BY <1>0 DEF BeliefInv
<1>3. Cardinality(accepted') = Cardinality(accepted) + 1
      /\ Cardinality(believed') = Cardinality(believed) + 1
  BY <1>1, <1>2, FiniteBelief, FS_AddElement, Zenon
<1>4. Range(executed) \subseteq Asked
  BY <1>0 DEF ExecutedInv, Range
<1>5. accepted' \subseteq believed' \cup gaveup'
  BY <1>0, <1>1, <1>4, Zenon DEF Asked, BeliefInv
<1>6. icall'.pc = "idle"
  BY DEF Idle
<1> QED BY <1>0, <1>1, <1>2, <1>3, <1>5, <1>6, Zenon DEF BeliefInv

LEMMA WaitInv == ASSUME ClientsInv, wait_for_reply_or_control PROVE ClientsInv'
<1>0. /\ ClientsType /\ BeliefInv /\ icall \in CallType /\ calls \in Nat /\ AnswersInv
      /\ initq \in Seq(MsgType) /\ AtWork
  BY Zenon DEF ClientsInv, ClientsType
<1>a. [ClientsNext]_clientsVars
  BY DEF ClientsNext
<1>b. UNCHANGED <<fsq, helloq, fsVars, calls, others, hello>> /\ icall.pc = "wait"
  BY DEF wait_for_reply_or_control
<1>1. RequestsInv' /\ ExecutedInv' /\ HelloInv' /\ AtWork'
  BY <1>0, <1>a, <1>b, RequestsKept, ExecutedKept, HelloKept DEF fsVars, AtWork
<1>2. icall' \in CallType /\ (icall' = Idle \/ icall' = [icall EXCEPT !.tries = @ + 1])
  BY <1>0, Messages DEF wait_for_reply_or_control, TriesLeft, Accept, CallType
<1>3. AnswersInv' /\ initq' \in Seq(MsgType)
  <2>1. CASE UNCHANGED <<initq, accepted>>
    BY <1>0, <1>b, <2>1, AnswersKept DEF fsVars
  <2>2. CASE initq # << >> /\ initq' = Tail(initq)
    <3>1. accepted' = accepted \/ (Head(initq).text = "OK" /\ accepted' = accepted \cup {Head(initq).id})
      BY <2>2 DEF wait_for_reply_or_control, IsReply, Expected, Accept
    <3> QED BY <1>b, <2>2, <3>1, AnswersTail DEF fsVars
  <2> QED BY <2>1, <2>2 DEF wait_for_reply_or_control
<1>4. BeliefInv'
  <2>1. CASE UNCHANGED <<believed, gaveup, accepted>>
    <3>1. icall'.pc = "wait" => icall'.op = icall.op /\ icall'.id = icall.id
      BY <1>0, <1>2, Messages DEF CallType
    <3> QED BY <1>0, <1>b, <2>1, <3>1 DEF BeliefInv, fsVars
  <2>2. CASE icall' = Idle /\ gaveup' = gaveup \cup {icall.id} /\ icall.op = "EXEC"
             /\ UNCHANGED <<believed, accepted>>
    BY <1>0, <1>b, <2>2, Messages, Zenon DEF BeliefInv, fsVars
  <2>3. CASE initq # << >> /\ IsReply(Head(initq)) /\ Accept(Head(initq)) /\ icall.op = "EXEC"
             /\ UNCHANGED gaveup
    <3>1. Head(initq) = initq[1] /\ 1 \in DOMAIN initq
      BY <1>0, <2>3, QueueTail
    <3>2. initq[1].text = "OK"
      BY <2>3, <3>1 DEF IsReply, Expected
    <3> QED BY <1>b, <2>3, <3>1, <3>2, AcceptBelief DEF Accept, fsVars
  <2> QED BY <2>1, <2>2, <2>3 DEF wait_for_reply_or_control, Accept
<1>5. ClientsType'
  BY <1>0, <1>1, <1>2, <1>3, <1>b, Zenon DEF ClientsType, fsVars
<1> QED BY <1>1, <1>3, <1>4, <1>5 DEF ClientsInv

LEMMA ControlInv == ASSUME ClientsInv, control_plane_loop \/ ControlMessage PROVE ClientsInv'
<1>0. ClientsType /\ BeliefInv /\ AtWork /\ others \in Nat
  BY Zenon DEF ClientsInv, ClientsType
<1>a. [ClientsNext]_clientsVars
  BY DEF ClientsNext
<1>b. UNCHANGED <<fsq, helloq, fsVars, calls, believed, gaveup, accepted, icall, hello>>
      /\ others' \in Nat
  BY <1>0 DEF control_plane_loop, ControlMessage, initVars
<1>1. RequestsInv' /\ ExecutedInv' /\ HelloInv' /\ BeliefInv' /\ AtWork'
  BY <1>0, <1>a, <1>b, RequestsKept, ExecutedKept, HelloKept, BeliefKept DEF fsVars, AtWork
<1>2. AnswersInv' /\ initq' \in Seq(MsgType)
  <2>1. CASE control_plane_loop
    BY <1>b, <2>1, AnswersTail DEF control_plane_loop, fsVars
  <2>2. CASE ControlMessage
    <3>1. PICK cap \in {"service", "none"} : initq' = Append(initq, Answer("REQ_LOOKUP_SERVICE", 0, cap))
      BY <2>2 DEF ControlMessage
    <3>2. Answer("REQ_LOOKUP_SERVICE", 0, cap) \in MsgType
          /\ Answer("REQ_LOOKUP_SERVICE", 0, cap).text # "OK"
      BY Messages DEF Texts
    <3> QED BY <1>b, <3>1, <3>2, AnswersAppend DEF fsVars
  <2> QED BY <2>1, <2>2
<1>3. ClientsType'
  BY <1>0, <1>1, <1>2, <1>b, Zenon DEF ClientsType, fsVars
<1> QED BY <1>1, <1>2, <1>3 DEF ClientsInv

-----------------------------------------------------------------------------
(* fs takes a request, or sends it away.                                   *)
LEMMA ReplyTypes ==
  ASSUME ClientsInv, NEW r \in ReqType, NEW text \in Texts, reply(r, text)
  PROVE  /\ Answer(text, r.id, "none") \in MsgType
         /\ Answer(text, r.id, "none").text = text /\ Answer(text, r.id, "none").id = r.id
         /\ r.cap = "init" => initq' = Append(initq, Answer(text, r.id, "none")) /\ helloq' = helloq
         /\ r.cap = "hello" => helloq' = Append(helloq, Answer(text, r.id, "none")) /\ initq' = initq
         /\ helloq' \in Seq(MsgType) /\ initq' \in Seq(MsgType)
<1>0. initq \in Seq(MsgType) /\ helloq \in Seq(MsgType)
  BY Zenon DEF ClientsInv, ClientsType
<1>1. r.id \in Nat
  BY DEF ReqType
<1>2. /\ Answer(text, r.id, "none") \in MsgType
      /\ Answer(text, r.id, "none").text = text /\ Answer(text, r.id, "none").id = r.id
  BY <1>1, Messages
<1>3. Append(initq, Answer(text, r.id, "none")) \in Seq(MsgType)
      /\ Append(helloq, Answer(text, r.id, "none")) \in Seq(MsgType)
  BY <1>0, <1>2, QueueAppend
<1> QED BY <1>0, <1>2, <1>3 DEF reply

LEMMA TakeHello == ASSUME ClientsInv, Take PROVE HelloInv'
<1> DEFINE r == Head(fsq)
<1>0. HelloInv /\ fsq \in Seq(ReqType) /\ helloq \in Seq(MsgType) /\ AtWork
      /\ fsq # << >> /\ fsq' = Tail(fsq) /\ UNCHANGED <<file, wrote, hello>>
  BY Zenon DEF ClientsInv, ClientsType, Take
<1>1. /\ fsq' \in Seq(ReqType) /\ r = fsq[1] /\ 1 \in DOMAIN fsq /\ r \in ReqType
      /\ \A k \in DOMAIN fsq' : k + 1 \in DOMAIN fsq /\ k + 1 # 1 /\ fsq'[k] = fsq[k + 1]
      /\ \A j, k \in DOMAIN fsq' : j + 1 = k + 1 => j = k
  BY <1>0, QueueTail
<1>f. FromClient(r)
  BY <1>1, Zenon DEF ClientsInv, ClientsType
<1>2. \/ UNCHANGED <<busy, initq, helloq>>
      \/ r.cap # "none" /\ UNCHANGED busy /\ (reply(r, "EAGAIN") \/ reply(r, "PONG"))
      \/ r.cap # "none" /\ busy' = r /\ UNCHANGED <<initq, helloq>>
  BY DEF Take
<1> HIDE DEF r
<1>3. \/ helloq' = helloq /\ (busy' = busy \/ (busy' = r /\ r.cap # "none"))
      \/ /\ r.cap = "hello" /\ busy' = busy
         /\ \E m \in MsgType : m.text # "OK" /\ helloq' = Append(helloq, m)
  <2>1. CASE reply(r, "EAGAIN") /\ UNCHANGED busy
    <3>1. "EAGAIN" \in Texts BY DEF Texts
    <3> QED BY <1>1, <2>1, <3>1, ReplyTypes DEF ReqType, reply
  <2>2. CASE reply(r, "PONG") /\ UNCHANGED busy
    <3>1. "PONG" \in Texts BY DEF Texts
    <3> QED BY <1>1, <2>2, <3>1, ReplyTypes DEF ReqType, reply
  <2> QED BY <1>2, <2>1, <2>2
<1>4. hello.write_ok =>
       /\ wrote' /\ file' = "content" /\ busy'.op # "WRITE"
       /\ \A k \in DOMAIN fsq' : fsq'[k].cap = "hello" => fsq'[k].op # "WRITE"
  <2>1. hello.write_ok /\ busy' = r /\ r.cap # "none" => r.op # "WRITE"
    BY <1>0, <1>1, <1>f DEF HelloInv, FromClient, ReqType
  <2> QED BY <1>0, <1>1, <1>3, <2>1 DEF HelloInv
<1>5. ASSUME hello.step = "WRITE"
      PROVE  /\ \A k \in DOMAIN fsq' : fsq'[k].cap = "hello" =>
                  /\ busy'.cap # "hello" /\ helloq' = << >> /\ hello.waits
                  /\ \A j \in DOMAIN fsq' : fsq'[j].cap = "hello" => j = k
             /\ busy'.cap = "hello" => helloq' = << >> /\ hello.waits
             /\ helloq' # << >> => hello.waits /\ Len(helloq') = 1
             /\ \A k \in DOMAIN helloq' : helloq'[k].text = "OK" => wrote' /\ file' = "content"
  <2>1. CASE r.cap = "hello"
    <3>1. /\ busy.cap # "hello" /\ helloq = << >> /\ hello.waits
          /\ \A j \in DOMAIN fsq' : fsq'[j].cap # "hello"
      BY <1>0, <1>1, <1>5, <2>1 DEF HelloInv
    <3>2. CASE helloq' = helloq
      <4>1. DOMAIN helloq' = {}
        BY <3>1, <3>2
      <4> QED BY <3>1, <3>2, <4>1
    <3>3. ASSUME NEW m \in MsgType, m.text # "OK", helloq' = Append(helloq, m), busy' = busy
          PROVE  /\ helloq' # << >> => hello.waits /\ Len(helloq') = 1
                 /\ \A k \in DOMAIN helloq' : helloq'[k].text # "OK"
      BY <1>0, <3>1, <3>3, QueueAppend
    <3> QED BY <1>3, <3>1, <3>2, <3>3
  <2>2. CASE r.cap # "hello"
    <3>1. helloq' = helloq /\ (busy'.cap = "hello" => busy' = busy)
      BY <1>3, <2>2
    <3>2. /\ busy'.cap = "hello" => helloq' = << >> /\ hello.waits
          /\ helloq' # << >> => hello.waits /\ Len(helloq') = 1
          /\ \A k \in DOMAIN helloq' : helloq'[k].text = "OK" => wrote' /\ file' = "content"
      BY <1>0, <1>5, <3>1 DEF HelloInv
    <3>3. ASSUME NEW k \in DOMAIN fsq', fsq'[k].cap = "hello"
          PROVE  /\ busy'.cap # "hello" /\ helloq' = << >> /\ hello.waits
                 /\ \A j \in DOMAIN fsq' : fsq'[j].cap = "hello" => j = k
      <4>1. /\ k + 1 \in DOMAIN fsq /\ fsq[k + 1].cap = "hello"
            /\ \A j \in DOMAIN fsq' : fsq'[j].cap = "hello" => 
                 j + 1 \in DOMAIN fsq /\ fsq[j + 1].cap = "hello"
        BY <1>1, <3>3
      <4>2. /\ busy.cap # "hello" /\ helloq = << >> /\ hello.waits
            /\ \A j \in DOMAIN fsq : fsq[j].cap = "hello" => j = k + 1
        BY <1>0, <1>5, <4>1 DEF HelloInv
      <4> QED BY <1>1, <3>1, <4>1, <4>2
    <3> QED BY <3>2, <3>3
  <2> QED BY <2>1, <2>2
<1>6. hello.step = "WRITE" => ~hello.write_ok
  BY <1>0 DEF HelloInv
<1> QED BY <1>0, <1>4, <1>5, <1>6 DEF HelloInv

LEMMA TakeInv == ASSUME ClientsInv, Take PROVE ClientsInv'
<1> DEFINE r == Head(fsq)
<1>0. /\ ClientsType /\ RequestsInv /\ fsq \in Seq(ReqType) /\ AtWork /\ AnswersInv
      /\ fsq # << >> /\ fsq' = Tail(fsq) /\ initq \in Seq(MsgType) /\ helloq \in Seq(MsgType)
      /\ UNCHANGED <<file, wrote, executed, initVars, hello>>
  BY Zenon DEF ClientsInv, ClientsType, Take
<1>a. [ClientsNext]_clientsVars
  BY DEF ClientsNext
<1>1. /\ fsq' \in Seq(ReqType) /\ r = fsq[1] /\ 1 \in DOMAIN fsq /\ r \in ReqType
      /\ \A k \in DOMAIN fsq' : k + 1 \in DOMAIN fsq /\ k + 1 # 1 /\ fsq'[k] = fsq[k + 1]
      /\ \A j, k \in DOMAIN fsq' : j + 1 = k + 1 => j = k
  BY <1>0, QueueTail
<1>2. FromClient(r) /\ (\A k \in DOMAIN fsq' : FromClient(fsq'[k]))
  BY <1>1, Zenon DEF ClientsInv, ClientsType
<1>3. \/ UNCHANGED <<busy, initq, helloq>>
      \/ /\ r.cap # "none" /\ UNCHANGED busy
         /\ \E text \in {"EAGAIN", "PONG"} : reply(r, text)
      \/ r.cap # "none" /\ r.op # "PING" /\ busy' = r /\ UNCHANGED <<initq, helloq>>
  BY DEF Take
<1> HIDE DEF r
<1>4. AtWork'
  BY <1>0, <1>1, <1>2, <1>3 DEF AtWork
<1>5. ExecutedInv' /\ BeliefInv'
  BY <1>0, <1>a, ExecutedKept, BeliefKept DEF initVars
<1>6. AnswersInv' /\ initq' \in Seq(MsgType) /\ helloq' \in Seq(MsgType)
  <2>1. CASE UNCHANGED <<initq, helloq>>
    BY <1>0, <2>1, AnswersKept DEF initVars
  <2>2. ASSUME NEW text \in {"EAGAIN", "PONG"}, reply(r, text)
        PROVE  AnswersInv' /\ initq' \in Seq(MsgType) /\ helloq' \in Seq(MsgType)
    <3>1. text \in Texts /\ text # "OK"
      BY DEF Texts
    <3>2. CASE r.cap = "init"
      BY <1>0, <1>1, <2>2, <3>1, <3>2, ReplyTypes, AnswersAppend DEF initVars
    <3>3. CASE r.cap # "init"
      BY <1>0, <1>1, <2>2, <3>1, <3>3, ReplyTypes, AnswersKept DEF initVars, reply
    <3> QED BY <3>2, <3>3
  <2> QED BY <1>3, <2>1, <2>2
<1>7. RequestsInv'
  <2>0. \A x \in Asked : x \in Asked'
    BY <1>a, AskedKept
  <2>1. ASSUME NEW k \in DOMAIN fsq', fsq'[k].op = "EXEC"
        PROVE  /\ fsq'[k].id \in Asked' /\ fsq'[k].id \notin Range(executed)'
               /\ busy'.op = "EXEC" => fsq'[k].id # busy'.id
    <3>1. k + 1 \in DOMAIN fsq /\ k + 1 # 1 /\ fsq'[k] = fsq[k + 1]
      BY <1>1
    <3>2. /\ fsq'[k].id \in Asked /\ fsq'[k].id \notin Range(executed)
          /\ busy.op = "EXEC" => fsq'[k].id # busy.id
          /\ r.op = "EXEC" => fsq'[k].id # r.id
      BY <1>0, <1>1, <2>1, <3>1 DEF RequestsInv
    <3> QED BY <1>0, <1>3, <2>0, <3>2
  <2>2. ASSUME NEW j \in DOMAIN fsq', NEW k \in DOMAIN fsq', fsq'[j].op = "EXEC",
               fsq'[k].op = "EXEC", fsq'[j].id = fsq'[k].id
        PROVE  j = k
    <3>1. j + 1 = k + 1
      <4>1. /\ j + 1 \in DOMAIN fsq /\ k + 1 \in DOMAIN fsq
            /\ fsq'[j] = fsq[j + 1] /\ fsq'[k] = fsq[k + 1]
        BY <1>1
      <4>2. \A a, b \in DOMAIN fsq :
              fsq[a].op = "EXEC" /\ fsq[b].op = "EXEC" /\ fsq[a].id = fsq[b].id => a = b
        BY <1>0 DEF RequestsInv
      <4> QED BY <2>2, <4>1, <4>2
    <3> QED BY <1>1, <3>1
  <2>3. busy'.op = "EXEC" => busy'.id \in Asked' /\ busy'.id \notin Range(executed)'
    BY <1>0, <1>1, <1>3, <2>0 DEF RequestsInv
  <2> QED BY <2>1, <2>2, <2>3 DEF RequestsInv
<1>8. ClientsType'
  BY <1>0, <1>1, <1>2, <1>4, <1>6, Zenon DEF ClientsType, initVars
<1> QED BY <1>5, <1>6, <1>7, <1>8, TakeHello DEF ClientsInv

-----------------------------------------------------------------------------
(* fs has finished a request: what it answers.                             *)
LEMMA Answered ==
  ASSUME ClientsInv, Finish
  PROVE  /\ busy \in ReqType /\ FromClient(busy) /\ busy.cap # "none" /\ busy' = Free
         /\ UNCHANGED <<fsq, initVars, hello>>
         /\ \E text \in Texts :
              /\ reply(busy, text)
              /\ \/ /\ busy.op = "EXEC" /\ UNCHANGED <<file, wrote>>
                    /\ \/ text = "OK" /\ executed' = Append(executed, busy.id)
                       \/ text # "OK" /\ UNCHANGED executed
                 \/ /\ busy.op = "WRITE" /\ UNCHANGED executed
                    /\ wrote' \in BOOLEAN /\ file' \in {"", "content"}
                    /\ text = "OK" => file' = "content" /\ wrote'
                 \/ /\ busy.op = "READ" /\ UNCHANGED <<file, wrote, executed>>
                    /\ text # "OK"
<1>1. busy # Free /\ busy \in ReqType /\ FromClient(busy) /\ busy.cap # "none" /\ busy' = Free
      /\ UNCHANGED <<fsq, initVars, hello>>
      /\ file \in {"", "content"} /\ wrote \in BOOLEAN
  BY Zenon DEF ClientsInv, ClientsType, Finish, AtWork
<1>2. \A t \in {"OK", "ENOENT", "EAGAIN", "EIO", "content"} : t \in Texts
  BY DEF Texts
<1>3. CASE busy.op = "EXEC" /\ FinishExec
  BY <1>1, <1>2, <1>3, Zenon DEF FinishExec
<1>4. CASE busy.op = "WRITE" /\ FinishWrite
  BY <1>1, <1>2, <1>4, Zenon DEF FinishWrite
<1>5. CASE busy.op = "READ" /\ FinishRead
  BY <1>1, <1>2, <1>5, Zenon DEF FinishRead
<1> QED BY <1>1, <1>3, <1>4, <1>5, Zenon DEF Finish

LEMMA FinishHello == ASSUME ClientsInv, Finish PROVE HelloInv'
<1>0. HelloInv /\ helloq \in Seq(MsgType) /\ busy \in ReqType /\ FromClient(busy)
      /\ busy.cap # "none" /\ busy' = Free /\ UNCHANGED <<fsq, hello>>
  BY Answered, Zenon DEF ClientsInv, ClientsType
<1>1. busy'.op = "none" /\ busy'.cap = "none"
  BY <1>0, Messages
<1>2. PICK text \in Texts :
        /\ reply(busy, text)
        /\ busy.op # "WRITE" => file' = file /\ wrote' = wrote
        /\ busy.op = "WRITE" /\ text = "OK" => file' = "content" /\ wrote'
        /\ busy.op = "READ" => text # "OK"
  BY Answered, Zenon
<1>3. CASE busy.cap = "init"
  <2>1. busy.op # "WRITE" /\ helloq' = helloq
    BY <1>0, <1>2, <1>3, ReplyTypes DEF FromClient
  <2>2. file' = file /\ wrote' = wrote
    BY <1>2, <2>1
  <2> QED BY <1>0, <1>1, <2>1, <2>2 DEF HelloInv
<1>4. CASE busy.cap = "hello"
  <2>1. /\ busy.op \in {"WRITE", "READ"}
        /\ \E m \in MsgType : m.text = text /\ helloq' = Append(helloq, m)
    BY <1>0, <1>2, <1>4, ReplyTypes DEF FromClient
  <2>2. hello.write_ok => busy.op # "WRITE"
    BY <1>0 DEF HelloInv
  <2>3. hello.write_ok' =>
       /\ wrote' /\ file' = "content" /\ busy'.op # "WRITE"
       /\ \A k \in DOMAIN fsq' : fsq'[k].cap = "hello" => fsq'[k].op # "WRITE"
    <3>1. SUFFICES ASSUME hello.write_ok
                   PROVE  wrote' /\ file' = "content" /\ busy'.op # "WRITE"
                          /\ \A k \in DOMAIN fsq : fsq[k].cap = "hello" => fsq[k].op # "WRITE"
      BY <1>0
    <3>2. file' = file /\ wrote' = wrote
      BY <1>2, <2>2, <3>1
    <3> QED BY <1>0, <1>1, <3>1, <3>2 DEF HelloInv
  <2>4. ASSUME hello.step = "WRITE"
        PROVE  /\ \A k \in DOMAIN fsq : fsq[k].cap # "hello"
               /\ hello.waits /\ Len(helloq') = 1 /\ ~hello.write_ok
               /\ \A k \in DOMAIN helloq' : helloq'[k].text = "OK" => wrote' /\ file' = "content"
    <3>1. /\ helloq = << >> /\ hello.waits /\ ~hello.write_ok
          /\ \A k \in DOMAIN fsq : fsq[k].cap # "hello"
      BY <1>0, <1>4, <2>4 DEF HelloInv
    <3>2. PICK m \in MsgType : m.text = text /\ helloq' = Append(helloq, m)
      BY <2>1
    <3>3. Len(helloq') = 1 /\ \A k \in DOMAIN helloq' : helloq'[k] = m
      BY <1>0, <3>1, <3>2, QueueAppend
    <3> QED BY <1>2, <2>1, <3>1, <3>2, <3>3
  <2> QED BY <1>0, <1>1, <2>3, <2>4 DEF HelloInv
<1> QED BY <1>0, <1>3, <1>4 DEF ReqType

LEMMA FinishInv == ASSUME ClientsInv, Finish PROVE ClientsInv'
<1>0. /\ ClientsType /\ RequestsInv /\ AnswersInv /\ ExecutedInv /\ BeliefInv
      /\ busy \in ReqType /\ FromClient(busy) /\ busy.cap # "none" /\ busy' = Free
      /\ UNCHANGED <<fsq, initVars, hello>> /\ executed \in Seq(Nat)
  BY Answered, Zenon DEF ClientsInv, ClientsType
<1>a. [ClientsNext]_clientsVars /\ Asked' = Asked
  BY <1>0 DEF ClientsNext, Asked, initVars
<1>1. busy'.op = "none" /\ AtWork' /\ busy.id \in Nat
  BY <1>0, Messages DEF AtWork, ReqType
<1>2. PICK text \in Texts :
        /\ reply(busy, text) /\ file' \in {"", "content"} /\ wrote' \in BOOLEAN
        /\ \/ text = "OK" /\ executed' = Append(executed, busy.id) /\ busy.op = "EXEC"
           \/ (text # "OK" \/ busy.cap # "init") /\ UNCHANGED executed
  BY <1>0, Answered, Zenon DEF ClientsType, FromClient
<1>3. initq' \in Seq(MsgType) /\ helloq' \in Seq(MsgType)
  BY <1>0, <1>2, ReplyTypes, Zenon
<1>4. CASE text = "OK" /\ executed' = Append(executed, busy.id) /\ busy.op = "EXEC"
  <2>1. busy.cap = "init" /\ busy.id \in Asked /\ busy.id \notin Range(executed)
        /\ \A k \in DOMAIN fsq : fsq[k].op = "EXEC" => fsq[k].id # busy.id
    BY <1>0, <1>4 DEF FromClient, RequestsInv, ReqType
  <2>2. /\ executed' \in Seq(Nat) /\ DOMAIN executed' = DOMAIN executed \cup {Len(executed) + 1}
        /\ executed'[Len(executed) + 1] = busy.id
        /\ \A k \in DOMAIN executed : executed'[k] = executed[k]
    <3> DEFINE x == busy.id
    <3>1. executed \in Seq(Nat)
      BY <1>0
    <3>2. x \in Nat /\ executed' = Append(executed, x)
      BY <1>1, <1>4
    <3> HIDE DEF x
    <3>3. /\ executed' \in Seq(Nat) /\ DOMAIN executed' = DOMAIN executed \cup {Len(executed) + 1}
          /\ executed'[Len(executed) + 1] = x
          /\ \A k \in DOMAIN executed : executed'[k] = executed[k]
      BY <3>1, <3>2, QueueAppend
    <3> QED BY <3>3 DEF x
  <2>3. Range(executed') = Range(executed) \cup {busy.id}
    BY <2>2 DEF Range
  <2>4. \A k \in DOMAIN executed : executed[k] # busy.id
    BY <2>1 DEF Range
  <2>5. ExecutedInv'
    BY <1>0, <1>a, <2>1, <2>2, <2>4, Zenon DEF ExecutedInv
  <2>6. RequestsInv'
    BY <1>0, <1>1, <1>a, <2>1, <2>3, Zenon DEF RequestsInv
  <2>7. BeliefInv'
    BY <1>0, <2>3 DEF BeliefInv, initVars
  <2>8. AnswersInv'
    BY <1>0, <1>2, <1>4, <2>1, <2>3, ReplyTypes, AnswersAppend, Zenon DEF initVars
  <2> QED BY <2>2, <2>5, <2>6, <2>7, <2>8, FinishHello, <1>0, <1>1, <1>2, <1>3, Zenon
         DEF ClientsInv, ClientsType, initVars
<1>5. CASE (text # "OK" \/ busy.cap # "init") /\ UNCHANGED executed
  <2>1. RequestsInv'
    BY <1>0, <1>1, <1>a, <1>5, Zenon DEF RequestsInv
  <2>2. ExecutedInv' /\ BeliefInv'
    BY <1>0, <1>a, <1>5, ExecutedKept, BeliefKept DEF initVars
  <2>3. AnswersInv'
    <3>1. CASE busy.cap = "init"
      BY <1>0, <1>2, <1>5, <3>1, ReplyTypes, AnswersAppend, Zenon DEF initVars
    <3>2. CASE busy.cap # "init"
      BY <1>0, <1>2, <1>5, <3>2, AnswersKept, Zenon DEF initVars, reply
    <3> QED BY <3>1, <3>2
  <2> QED BY <2>1, <2>2, <2>3, FinishHello, <1>0, <1>1, <1>2, <1>3, <1>5, Zenon
         DEF ClientsInv, ClientsType, initVars
<1> QED BY <1>2, <1>4, <1>5, Zenon

-----------------------------------------------------------------------------
(* helloworld sends its request, or takes the answer, or gives up.         *)
LEMMA DoneKeeps ==
  ASSUME ClientsInv, NEW ok \in BOOLEAN, Done(ok), UNCHANGED <<fsq, fsVars>>,
         ok /\ hello.step = "WRITE" =>
           /\ wrote /\ file = "content" /\ busy.op # "WRITE"
           /\ \A k \in DOMAIN fsq : fsq[k].cap # "hello"
  PROVE  HelloInv' /\ hello' \in HelloType
<1>0. hello \in HelloType /\ HelloInv
  BY Zenon DEF ClientsInv, ClientsType
<1>1. hello' \in HelloType /\ hello'.step # "WRITE"
      /\ hello'.write_ok = (IF hello.step = "WRITE" THEN ok ELSE hello.write_ok)
  BY <1>0, Zenon DEF Done, HelloType
<1>2. CASE hello.step = "WRITE"
  BY <1>1, <1>2, Zenon DEF HelloInv, fsVars
<1>3. CASE hello.step # "WRITE"
  BY <1>0, <1>1, <1>3 DEF HelloInv, fsVars
<1> QED BY <1>1, <1>2, <1>3

LEMMA HelloSendInv ==
  ASSUME ClientsInv, HelloSend
  PROVE  HelloInv' /\ hello' \in HelloType /\ RequestsInv' /\ fsq' \in Seq(ReqType)
         /\ (\A k \in DOMAIN fsq' : FromClient(fsq'[k]))
<1>0. /\ fsq \in Seq(ReqType) /\ hello \in HelloType /\ HelloInv /\ helloq \in Seq(MsgType)
      /\ \A k \in DOMAIN fsq : FromClient(fsq[k])
  BY Zenon DEF ClientsInv, ClientsType
<1>a. [ClientsNext]_clientsVars /\ UNCHANGED <<initq, helloq, fsVars, initVars>>
  BY Zenon DEF ClientsNext, HelloStep, HelloSend
<1>1. CASE UNCHANGED fsq /\ Done(FALSE)
  BY <1>0, <1>a, <1>1, DoneKeeps, RequestsKept, Zenon DEF fsVars
<1>2. ASSUME NEW cap \in {"hello", "none"}, fsq' = Append(fsq, Request(hello.step, 0, cap)),
             hello' = [hello EXCEPT !.waits = TRUE], hello.step # "off", ~hello.waits
      PROVE  HelloInv' /\ hello' \in HelloType /\ RequestsInv' /\ fsq' \in Seq(ReqType)
             /\ (\A k \in DOMAIN fsq' : FromClient(fsq'[k]))
  <2> DEFINE r == Request(hello.step, 0, cap)
             n == Len(fsq) + 1
  <2>1. hello.step \in {"WRITE", "READ"}
    BY <1>0, <1>2 DEF HelloType
  <2>2. r \in ReqType /\ r.op = hello.step /\ r.cap = cap
    BY <2>1, Messages
  <2>3. FromClient(r)
    BY <2>1, <2>2 DEF FromClient
  <2>4. /\ fsq' \in Seq(ReqType) /\ DOMAIN fsq' = DOMAIN fsq \cup {n} /\ n \notin DOMAIN fsq
        /\ fsq'[n] = r /\ \A k \in DOMAIN fsq : fsq'[k] = fsq[k]
    BY <1>0, <1>2, <2>2, QueueAppend
  <2> HIDE DEF r, n
  <2>5. \A k \in DOMAIN fsq' : FromClient(fsq'[k])
    BY <1>0, <2>3, <2>4
  <2>6. /\ hello' \in HelloType /\ hello'.step = hello.step /\ hello'.write_ok = hello.write_ok
        /\ hello'.waits
    BY <1>0, <1>2, Zenon DEF HelloType
  <2>7. RequestsInv'
    <3>1. fsq' = Append(fsq, r) /\ r.op # "EXEC"
      BY <1>2, <2>1, <2>2 DEF r
    <3> QED BY <1>a, <2>2, <3>1, RequestsKept DEF fsVars
  <2>8. HelloInv'
    <3>1. CASE hello.step = "WRITE"
      <4>1. /\ ~hello.write_ok /\ busy.cap # "hello" /\ helloq = << >>
            /\ \A k \in DOMAIN fsq : fsq[k].cap # "hello"
        BY <1>0, <1>2, <3>1 DEF HelloInv
      <4>2. DOMAIN helloq = {}
        BY <4>1
      <4>3. \A k \in DOMAIN fsq' : fsq'[k].cap = "hello" => k = n
        BY <2>4, <4>1
      <4> QED BY <1>a, <2>6, <4>1, <4>2, <4>3 DEF HelloInv, fsVars
    <3>2. CASE hello.step = "READ"
      BY <1>0, <1>a, <2>2, <2>4, <2>6, <3>2 DEF HelloInv, fsVars
    <3> QED BY <2>1, <3>1, <3>2
  <2> QED BY <2>4, <2>5, <2>6, <2>7, <2>8
<1> QED BY <1>1, <1>2, Zenon DEF HelloSend

LEMMA HelloRecvInv ==
  ASSUME ClientsInv, HelloRecv
  PROVE  HelloInv' /\ hello' \in HelloType /\ helloq' \in Seq(MsgType)
<1>0. hello \in HelloType /\ HelloInv /\ helloq \in Seq(MsgType) /\ AtWork
  BY Zenon DEF ClientsInv, ClientsType
<1>a. hello.waits /\ UNCHANGED <<fsq, initq, fsVars, initVars>>
  BY DEF HelloRecv
<1>1. CASE helloq = << >> /\ Done(FALSE) /\ UNCHANGED helloq
  BY <1>0, <1>a, <1>1, DoneKeeps, Zenon
<1>2. CASE helloq # << >> /\ helloq' = Tail(helloq)
  <2>1. /\ helloq' \in Seq(MsgType) /\ Head(helloq) = helloq[1] /\ 1 \in DOMAIN helloq
        /\ Len(helloq') = Len(helloq) - 1
    BY <1>0, <1>2, QueueTail
  <2>2. hello.step = "WRITE" =>
          /\ ~hello.write_ok /\ Len(helloq) = 1 /\ busy.cap # "hello"
          /\ \A k \in DOMAIN fsq : fsq[k].cap # "hello"
          /\ Head(helloq).text = "OK" => wrote /\ file = "content"
    BY <1>0, <1>2, <2>1 DEF HelloInv
  <2>3. busy.cap # "hello" => busy.op # "WRITE"
    BY <1>0, Messages, Zenon DEF AtWork, FromClient, ReqType
  <2>4. CASE Done(Good(Head(helloq).text))
    <3>1. Good(Head(helloq).text) \in BOOLEAN
          /\ (Good(Head(helloq).text) /\ hello.step = "WRITE" => Head(helloq).text = "OK")
      BY DEF Good
    <3> QED BY <1>a, <2>1, <2>2, <2>3, <2>4, <3>1, DoneKeeps
  <2>5. CASE TryAgain
    <3>1. /\ hello' \in HelloType /\ hello'.step = hello.step /\ hello'.write_ok = hello.write_ok
      <4>1. hello.i + 1 \in Nat
        BY <1>0 DEF HelloType
      <4>2. hello' = [hello EXCEPT !.waits = FALSE, !.i = hello.i + 1]
        BY <2>5 DEF TryAgain
      <4> QED BY <1>0, <4>1, <4>2, Zenon DEF HelloType
    <3>2. CASE hello.step = "WRITE"
      <4>0. Len(helloq') = 0
        <5>1. Len(helloq) = 1
          BY <2>2, <3>2
        <5>2. Len(helloq') = Len(helloq) - 1
          BY <2>1
        <5> QED BY <5>1, <5>2
      <4>1. helloq' = << >> /\ DOMAIN helloq' = {}
        BY <2>1, <4>0
      <4> QED BY <1>a, <2>1, <2>2, <3>1, <3>2, <4>1 DEF HelloInv, fsVars
    <3>3. CASE hello.step # "WRITE"
      BY <1>0, <1>a, <2>1, <3>1, <3>3 DEF HelloInv, fsVars
    <3> QED BY <3>2, <3>3
  <2> QED BY <1>2, <2>4, <2>5, Zenon DEF HelloRecv
<1> QED BY <1>1, <1>2, Zenon DEF HelloRecv

LEMMA HelloStepInv == ASSUME ClientsInv, HelloStep PROVE ClientsInv'
<1>0. ClientsType /\ AnswersInv /\ AtWork
  BY Zenon DEF ClientsInv, ClientsType
<1>a. [ClientsNext]_clientsVars /\ UNCHANGED <<initq, fsVars, initVars>>
  BY Zenon DEF ClientsNext, HelloStep, HelloSend, HelloRecv, OutOfTries
<1>1. AnswersInv' /\ ExecutedInv' /\ BeliefInv' /\ AtWork'
  BY <1>0, <1>a, AnswersKept, ExecutedKept, BeliefKept DEF fsVars, initVars, AtWork
<1>2. CASE HelloSend
  <2>1. UNCHANGED helloq
    BY <1>2 DEF HelloSend
  <2> QED BY <1>0, <1>1, <1>2, <1>a, <2>1, HelloSendInv, Zenon DEF ClientsInv, ClientsType, fsVars, initVars
<1>3. CASE HelloRecv
  <2>1. UNCHANGED fsq /\ RequestsInv'
    BY <1>3, <1>a, RequestsKept DEF HelloRecv, fsVars
  <2> QED BY <1>0, <1>1, <1>3, <1>a, <2>1, HelloRecvInv, Zenon DEF ClientsInv, ClientsType, fsVars, initVars
<1>4. CASE OutOfTries
  <2>1. UNCHANGED <<fsq, helloq>> /\ RequestsInv'
    BY <1>4, <1>a, RequestsKept DEF OutOfTries, fsVars
  <2>2. HelloInv' /\ hello' \in HelloType
    BY <1>4, <1>a, <2>1, DoneKeeps, Zenon DEF OutOfTries
  <2> QED BY <1>0, <1>1, <1>a, <2>1, <2>2, Zenon DEF ClientsInv, ClientsType, fsVars, initVars
<1> QED BY <1>2, <1>3, <1>4 DEF HelloStep

-----------------------------------------------------------------------------
(* The inductive invariant of fs and its clients.                          *)
THEOREM ClientsCorrect == ClientsSpec => []ClientsInv
<1>1. ClientsInit => ClientsInv
  BY ClientsInitInv
<1>2. ClientsInv /\ [ClientsNext]_clientsVars => ClientsInv'
  <2>1. SUFFICES ASSUME ClientsInv, [ClientsNext]_clientsVars PROVE ClientsInv'
    OBVIOUS
  <2>2. CASE UNCHANGED clientsVars
    <3>1. ClientsType' = ClientsType /\ RequestsInv' = RequestsInv /\ ExecutedInv' = ExecutedInv
          /\ AnswersInv' = AnswersInv /\ BeliefInv' = BeliefInv /\ HelloInv' = HelloInv
      BY <2>2, Zenon DEF clientsVars, fsVars, initVars, ClientsType, AtWork, RequestsInv, Asked, ExecutedInv,
         AnswersInv, BeliefInv, HelloInv
    <3> QED BY <2>1, <3>1 DEF ClientsInv
  <2> QED
    BY <2>1, <2>2, FsExecInv, ProbeInv, WaitInv, ControlInv, TakeInv, FinishInv, HelloStepInv
       DEF ClientsNext
<1> QED BY <1>1, <1>2, PTL DEF ClientsSpec

(* Of the execs that init takes to be done, no more are not done than it   *)
(* gave up, for every number of calls, tries and events.                   *)
THEOREM BeliefBacked == ClientsSpec => []BeliefIsBacked
<1>1. ASSUME ClientsInv PROVE BeliefIsBacked
  <2> DEFINE A == accepted
             B == believed
             E == Range(executed)
  <2>1. IsFiniteSet(A) /\ IsFiniteSet(B) /\ IsFiniteSet(gaveup)
    BY <1>1, FiniteBelief
  <2>2. A \subseteq E /\ A \subseteq B \cup gaveup /\ Cardinality(A) = Cardinality(B)
    BY <1>1 DEF ClientsInv, BeliefInv
  <2> HIDE DEF A, B, E
  <2>3. /\ IsFiniteSet(B \ A) /\ Cardinality(B \ A) = Cardinality(B) - Cardinality(A \cap B)
        /\ IsFiniteSet(A \ B) /\ Cardinality(A \ B) = Cardinality(A) - Cardinality(A \cap B)
    <3>1. Cardinality(B \ A) = Cardinality(B) - Cardinality(B \cap A) /\ B \cap A = A \cap B
      BY <2>1, FS_Difference, Zenon
    <3> QED BY <2>1, <3>1, FS_Difference, Zenon
  <2>4. Cardinality(A \ B) <= Cardinality(gaveup)
    BY <2>1, <2>2, FS_Subset
  <2>5. Cardinality(B \ E) <= Cardinality(B \ A)
    BY <2>2, <2>3, FS_Subset
  <2>6. /\ Cardinality(B \ A) \in Nat /\ Cardinality(gaveup) \in Nat /\ Cardinality(B \ E) \in Nat
    <3>1. IsFiniteSet(B \ E)
      BY <2>2, <2>3, FS_Subset
    <3> QED BY <2>1, <2>3, <3>1, FS_CardinalityType
  <2>7. Cardinality(B \ E) <= Cardinality(gaveup)
    BY <2>2, <2>3, <2>4, <2>5, <2>6
  <2> QED BY <2>7 DEF BeliefIsBacked, B, E
<1> QED BY <1>1, ClientsCorrect, PTL

(* The starts that init believes in and those it is about to hear of are   *)
(* all real, and fs carries out each exec at most once.                    *)
THEOREM StartsReal == ClientsSpec => []StartsAreReal
<1>1. ASSUME ClientsInv PROVE StartsAreReal
  <2> DEFINE E == Range(executed)
             K == {k \in DOMAIN initq : initq[k].text = "OK"}
             f == [k \in K |-> initq[k].id]
  <2>1. /\ ClientsType /\ AnswersInv /\ ExecutedInv /\ BeliefInv
        /\ initq \in Seq(MsgType) /\ executed \in Seq(Nat)
    BY <1>1, Zenon DEF ClientsInv, ClientsType
  <2>2. E \subseteq 1 .. calls /\ IsFiniteSet(E) /\ IsFiniteSet(accepted)
    BY <1>1, ExecutedIn, FiniteBelief
  <2>3. Len(executed) \in Nat /\ Cardinality(E) <= Len(executed)
    <3>1. Len(executed) \in Nat /\ DOMAIN executed = 1 .. Len(executed)
      BY <2>1
    <3>2. IsFiniteSet(1 .. Len(executed)) /\ Cardinality(1 .. Len(executed)) = Len(executed)
      <4> DEFINE n == Len(executed)
      <4>1. n \in Int /\ 1 \in Int /\ n >= 0
        BY <3>1
      <4> HIDE DEF n
      <4>2. IsFiniteSet(1 .. n) /\ Cardinality(1 .. n) = IF 1 > n THEN 0 ELSE n - 1 + 1
        BY <4>1, FS_Interval
      <4>3. Cardinality(1 .. n) = n
        BY <4>1, <4>2
      <4> QED BY <4>2, <4>3 DEF n
    <3>3. executed \in Surjection(1 .. Len(executed), E)
      BY <2>1, <3>1 DEF Surjection, Range
    <3>4. Cardinality(E) <= Cardinality(1 .. Len(executed))
      BY <3>2, <3>3, FS_Surjection
    <3> QED BY <3>1, <3>2, <3>4
  <2>4. IsFiniteSet(E \ accepted) /\ Cardinality(E \ accepted) = Cardinality(E) - Cardinality(accepted)
    <3>1. E \cap accepted = accepted
      BY <2>1, Zenon DEF BeliefInv
    <3> QED BY <2>2, <3>1, FS_Difference, Zenon
  <2>5. Cardinality(K) <= Cardinality(E \ accepted) /\ IsFiniteSet(K)
    <3>1. f \in Injection(K, E \ accepted)
      BY <2>1 DEF AnswersInv, Injection, IsInjective
    <3> QED BY <2>4, <3>1, FS_Injection
  <2>6. Cardinality(accepted) = Cardinality(believed)
    BY <2>1 DEF BeliefInv
  <2>7. Cardinality(K) \in Nat /\ Cardinality(accepted) \in Nat /\ Cardinality(E) \in Nat
    BY <2>2, <2>5, FS_CardinalityType
  <2>8. Cardinality(believed) + Cardinality(K) <= Len(executed)
    <3>1. ASSUME NEW a \in Nat, NEW e \in Nat, NEW n \in Nat, NEW l \in Nat, e <= l, n <= e - a
          PROVE  a + n <= l
      BY <3>1
    <3>2. Cardinality(E) <= Len(executed) /\ Cardinality(K) <= Cardinality(E) - Cardinality(accepted)
      BY <2>3, <2>4, <2>5
    <3> QED BY <2>3, <2>6, <2>7, <3>1, <3>2
  <2>9. IsInjective(executed)
    BY <2>1 DEF ExecutedInv, IsInjective
  <2> QED BY <2>2, <2>8, <2>9 DEF StartsAreReal
<1> QED BY <1>1, ClientsCorrect, PTL

(* helloworld takes its write for done only if fs has carried one out, and *)
(* then the file keeps its content.                                        *)
THEOREM PassedStored == ClientsSpec => []PassedMeansStored
<1>1. ClientsInv => PassedMeansStored
  BY DEF ClientsInv, HelloInv, PassedMeansStored
<1> QED BY <1>1, ClientsCorrect, PTL
=============================================================================

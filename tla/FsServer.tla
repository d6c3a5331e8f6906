------------------------------ MODULE FsServer ------------------------------
(***************************************************************************)
(* The request handler of the file system server, fed with every kind of   *)
(* message, in both versions of the protocol: v2 requests carry an id that *)
(* their answers repeat.                                                   *)
(*                                                                         *)
(* A request is a record: op, v2, len (of the message), path_len and       *)
(* data_len (as announced), id, body (the bytes after the header: path and *)
(* data) and cap.  A message shorter than its header has no body.  The     *)
(* directory is a function from names to contents; axfatfs may fail in any *)
(* call, and a failed call may have done a part of its work.               *)
(***************************************************************************)
EXTENDS Integers, Sequences, FiniteSetsExt, Maps

CONSTANTS MAX_PATH, MAX_DATA,
          Byte,            \* the bytes of paths and data, "/" among them
          BadByte,         \* a byte that no UTF-8 text contains
          Caps, NoCap,     \* capabilities, and none
          Directories,     \* what the disk may hold at first
          Requests         \* the messages that may arrive

WRITE_HDR_LEN == 8
PATH_HDR_LEN == 4
WRITE_HDR_LEN_V2 == 12
PATH_HDR_LEN_V2 == 8
REQ_BUF_LEN == WRITE_HDR_LEN + MAX_PATH + MAX_DATA

VARIABLES mounted,     \* fs.is_some()
          files,       \* the root directory: contents by name
          req_buf,     \* the receive buffer behind the shortest header
          last         \* the last answered request, the directory before it, the answer

vars == <<mounted, files, req_buf, last>>

NoId == -1
Reply(status, data) == [status |-> status, data |-> data]

None == [op |-> "PING", v2 |-> FALSE, len |-> 2, path_len |-> 0, data_len |-> 0, id |-> 0,
         body |-> <<>>, cap |-> NoCap]

Init ==
  /\ mounted = FALSE
  /\ files \in Directories
  /\ req_buf = [i \in PATH_HDR_LEN + 1 .. REQ_BUF_LEN |-> BadByte]
  /\ last = [req |-> None, before |-> files, reply |-> Reply("PONG", <<>>), id |-> NoId,
             fault |-> FALSE, spawned |-> <<>>]

-----------------------------------------------------------------------------
path_hdr_len(r) == IF r.v2 THEN PATH_HDR_LEN_V2 ELSE PATH_HDR_LEN
write_hdr_len(r) == IF r.v2 THEN WRITE_HDR_LEN_V2 ELSE WRITE_HDR_LEN
hdr_len(r) == IF r.op = "WRITE" THEN write_hdr_len(r) ELSE path_hdr_len(r)

(* The kernel copies what fits; the rest of the buffer keeps the bytes of  *)
(* earlier requests.                                                       *)
Filled(m, buf) ==
  [i \in DOMAIN buf |-> IF i - hdr_len(m) \in DOMAIN m.body THEN m.body[i - hdr_len(m)] ELSE buf[i]]
Received(m) == [m EXCEPT !.len = IF @ > REQ_BUF_LEN THEN REQ_BUF_LEN ELSE @]

(* The id of a short v2 write is read where its data length is.            *)
req_id(r) ==
  CASE r.v2 /\ r.op = "WRITE" /\ r.len >= WRITE_HDR_LEN_V2 -> r.id
    [] r.v2 /\ r.op = "WRITE" /\ r.len \in PATH_HDR_LEN_V2 .. WRITE_HDR_LEN_V2 - 1 -> r.data_len
    [] r.v2 /\ r.op # "WRITE" /\ r.len >= PATH_HDR_LEN_V2 -> r.id
    [] OTHER -> NoId

Bytes(buf, first, n) == [i \in 1 .. n |-> buf[first + i]]
path_bytes(r, buf) == Bytes(buf, hdr_len(r), r.path_len)
data(r, buf) == Bytes(buf, hdr_len(r) + r.path_len, r.data_len)
from_utf8(path) == \A i \in DOMAIN path : path[i] # BadByte

PathValid(r) ==
  r.len >= hdr_len(r) /\ r.path_len \in 1 .. MAX_PATH /\ r.len >= hdr_len(r) + r.path_len

WriteValid(r) ==
  PathValid(r) /\ r.data_len <= MAX_DATA /\ r.len >= hdr_len(r) + r.path_len + r.data_len

Valid(r, buf) ==
  /\ IF r.op = "WRITE" THEN WriteValid(r) ELSE PathValid(r)
  /\ from_utf8(path_bytes(r, buf))

normalize_path(path) ==
  LET rest == {i \in DOMAIN path : path[i] # "/"}
  IN IF rest = {} THEN <<"_">> ELSE SubSeq(path, Min(rest), Len(path))

-----------------------------------------------------------------------------
(* axfatfs, as far as the handler uses it.                                 *)
(* What is left of a write whose creation, truncation, write or flush      *)
(* fails.                                                                  *)
Torn(dir, name, content) ==
  {dir} \cup {MapInsert(dir, name, SubSeq(content, 1, k)) : k \in 0 .. Len(content)}

Result(dir, reply, fault, spawned) ==
  [files |-> dir, reply |-> reply, fault |-> fault, spawned |-> spawned]
Says(dir, status) == Result(dir, Reply(status, <<>>), FALSE, <<>>)
Fails(dir, status) == Result(dir, Reply(status, <<>>), TRUE, <<>>)

Write(dir, name, content) ==
  {Says(MapInsert(dir, name, content), "OK")} \cup {Fails(d, "EIO") : d \in Torn(dir, name, content)}

FileBuf(content) == SubSeq(content, 1, Min({Len(content), MAX_DATA}))

(* One read of at most MAX_DATA bytes; an empty file is not found.         *)
Read(dir, name) ==
  {IF name \notin DOMAIN dir \/ dir[name] = <<>> THEN Says(dir, "ENOENT")
   ELSE Result(dir, Reply("DATA", FileBuf(dir[name])), FALSE, <<>>)}
  \cup {Fails(dir, s) : s \in {"ENOENT", "EIO"}}

Delete(dir, name) ==
  {IF name \in DOMAIN dir THEN Says(MapRemove(dir, name), "OK") ELSE Says(dir, "ENOENT"),
   Fails(dir, "ENOENT")}

(* Chunk after chunk, to the end of the file.                              *)
read_file_all(dir, name) == dir[name]

(* What spawn returns is a pid or an error code, and neither is 0 unless   *)
(* the kernel cannot load the file.                                        *)
Exec(dir, name) ==
  {IF name \in DOMAIN dir THEN Result(dir, Reply(s, <<>>), FALSE, read_file_all(dir, name))
   ELSE Says(dir, "ENOENT") : s \in {"OK", "EIO"}}
  \cup {Fails(dir, "ENOENT")}

Outcomes(r, buf, dir) ==
  LET name == normalize_path(path_bytes(r, buf))
  IN CASE r.op = "PING" -> {Says(dir, "PONG")}
       [] r.op = "WRITE" /\ Valid(r, buf) -> Write(dir, name, data(r, buf))
       [] r.op = "READ" /\ Valid(r, buf) -> Read(dir, name)
       [] r.op = "DELETE" /\ Valid(r, buf) -> Delete(dir, name)
       [] r.op = "EXEC" /\ Valid(r, buf) -> Exec(dir, name)
       [] OTHER -> {Says(dir, "EINVAL")}

NeedsFs(op) == op \in {"WRITE", "READ", "DELETE", "EXEC"}

(* ensure_fs: the first request that needs the disk mounts it, or fails to *)
(* and leaves that to the next.                                            *)
ensure_fs(op) == mounted' \in IF mounted \/ ~NeedsFs(op) THEN {mounted} ELSE BOOLEAN

Serve(m) ==
  LET r == Received(m)
  IN /\ req_buf' = Filled(m, req_buf)
     /\ IF r.len < 2 \/ r.cap = NoCap THEN UNCHANGED <<mounted, files, last>>
        ELSE /\ ensure_fs(r.op)
             /\ \E o \in IF NeedsFs(r.op) /\ ~mounted' THEN {Says(files, "EAGAIN")}
                         ELSE Outcomes(r, req_buf', files) :
                  /\ files' = o.files
                  /\ last' = [req |-> m, before |-> files, reply |-> o.reply, id |-> req_id(r),
                              fault |-> o.fault, spawned |-> o.spawned]

Next == \E m \in Requests : Serve(m)

Spec == Init /\ [][Next]_vars

-----------------------------------------------------------------------------
(* A message carries what its length says, and nothing if it is shorter    *)
(* than its header.                                                        *)
Message == [op : {"PING", "WRITE", "READ", "DELETE", "EXEC", "other"}, v2 : BOOLEAN, len : Nat,
            path_len : Nat, data_len : Nat, id : Nat, body : Seq(Byte), cap : Caps]
FsAssumption ==
  /\ MAX_PATH \in Nat /\ MAX_DATA \in Nat /\ MAX_PATH + MAX_DATA >= 4
  /\ \A m \in Requests : /\ m \in Message
                        /\ Len(m.body) = IF m.len < hdr_len(m) THEN 0 ELSE m.len - hdr_len(m)

(* What the client of a request sent, read off its message.                *)
SentPath(m) == SubSeq(m.body, 1, m.path_len)
SentData(m) == SubSeq(m.body, m.path_len + 1, m.path_len + m.data_len)
Complete(m) == Len(m.body) >= m.path_len + (IF m.op = "WRITE" THEN m.data_len ELSE 0)

(* What an answer to request m says of the directory, before and after.    *)
Exactly(m, before, after, reply, spawned) ==
  LET name == normalize_path(SentPath(m))
      status == reply.status
  IN /\ m.op = "WRITE" /\ status = "OK" =>
          Complete(m) /\ after = MapInsert(before, name, SentData(m))
     /\ m.op = "WRITE" /\ status = "EIO" =>
          Complete(m) /\ after \in Torn(before, name, SentData(m))
     /\ m.op = "READ" /\ status = "DATA" =>
          /\ Complete(m) /\ name \in DOMAIN before /\ before[name] # <<>>
          /\ reply.data = FileBuf(before[name])
     /\ m.op = "EXEC" /\ status = "OK" =>
          Complete(m) /\ name \in DOMAIN before /\ spawned = before[name]
     /\ m.op = "DELETE" /\ status = "OK" =>
          Complete(m) /\ name \in DOMAIN before /\ after = MapRemove(before, name)
     /\ after # before => \/ m.op = "WRITE" /\ status \in {"OK", "EIO"}
                          \/ m.op = "DELETE" /\ status = "OK"

(* A request that is carried out is carried out on exactly the bytes its   *)
(* client sent, none left in the buffer by another: a write stores them    *)
(* under the name its path means, a read returns the beginning of that     *)
(* file, an exec starts the whole of it, a delete removes it.  Nothing     *)
(* else changes the directory, but for a write that fails.                 *)
AnsweredExactly == Exactly(last.req, last.before, files, last.reply, last.spawned)

(* A well-formed request is not refused for its form.  The buffer was      *)
(* sized without an id, so path and data of the longest v2 writes do not   *)
(* fit it, and those are refused.                                          *)
WellFormed(m) ==
  /\ m.len >= hdr_len(m) /\ Complete(m)
  /\ m.path_len \in 1 .. MAX_PATH /\ from_utf8(SentPath(m))
  /\ m.op = "WRITE" => m.data_len <= MAX_DATA
  /\ hdr_len(m) + m.path_len + (IF m.op = "WRITE" THEN m.data_len ELSE 0) <= REQ_BUF_LEN
FittingIsServed ==
  NeedsFs(last.req.op) /\ WellFormed(last.req) => last.reply.status # "EINVAL"

(* An answer carries the id of its request whenever the request has one,   *)
(* and none when it does not, so that the two protocols can share a queue. *)
AnswersCarryIds ==
  /\ last.req.v2 /\ last.req.len >= hdr_len(last.req) => last.id = last.req.id
  /\ ~last.req.v2 => last.id = NoId
=============================================================================

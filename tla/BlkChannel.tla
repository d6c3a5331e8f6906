----------------------------- MODULE BlkChannel -----------------------------
(***************************************************************************)
(* fs calling the block server: blk_call with its tags, tries and cached   *)
(* handle, the loops of the block servers, and the clients of fs, whose    *)
(* requests arrive at the endpoint where fs waits for the block server.    *)
(*                                                                         *)
(* A message may lose the capability sent with it (the kernel as it stands *)
(* drops every one).  init may start further block servers while earlier   *)
(* ones run, as a restart of an unhealthy service does; they drive one     *)
(* disk.  A server may die at any time; its endpoint may stay.             *)
(*                                                                         *)
(* The first four bytes of a client's message are not taken for a tag: as  *)
(* a number they are at least 65536 times the length of a path, and        *)
(* MaxCalls is far below.                                                  *)
(***************************************************************************)
EXTENDS BlkRequest, Functions

CONSTANTS MaxServers, Clients,
          ERRNO,           \* what a receive returns as a length when it fails
          MaxTries,        \* tries of blk_call (250)
          MaxCalls,        \* bound: calls of blk_call
          MaxAsks          \* bound: requests of the clients

ASSUME ChannelAssumption ==
  /\ MaxServers \in Nat /\ MaxTries \in Nat \ {0} /\ MaxCalls \in Nat /\ MaxAsks \in Nat
  /\ ERRNO \in Nat
  /\ Clients \cap 1 .. MaxServers = {} /\ NoCap \notin Clients \cup 1 .. MaxServers

Servers == 1 .. MaxServers

(* VirtioBlkEndpoint, the fallback handle, as a handle no server has.      *)
VirtioBlkEndpoint == MaxServers + 1

Sectors == 0 .. BLOCK_COUNT - 1

VARIABLES disk,
          started,              \* the number of block servers started
          running,              \* those that run
          srv,                  \* srv[k]: the request in the buffer of server k
          blkq,                 \* blkq[k]: the endpoint of server k
          fsq,                  \* the endpoint of fs
          lookups,              \* lookups init has to answer
          BLK_REQ_ID, BLK_SERVICE_HANDLE,
          call,                 \* the call of fs in progress, or the last one
          asks,                 \* requests sent by clients
          waiting,              \* clients whose capability arrived and who got no answer
          lost,                 \* clients whose request the lookup consumed
          executed              \* the tag of the last request carried out

fsVars == <<lookups, BLK_REQ_ID, BLK_SERVICE_HANDLE, call>>
srvVars == <<disk, started, running, srv, executed>>
cliVars == <<asks, waiting, lost>>
vars == <<fsVars, srvVars, cliVars, blkq, fsq>>

LocalEndpoint == "fs"

Request(op, tag, sector, byte, cap) ==
  [op |-> op, len |-> RW_TAGGED_HDR_LEN + (IF op = "WRITE" THEN SECTOR_SIZE ELSE 0), tag |-> tag,
   sector |-> sector, bytes |-> SECTOR_SIZE, cap |-> cap,
   data |-> IF op = "WRITE" THEN [i \in 1 .. SECTOR_SIZE |-> byte] ELSE <<>>]

(* An answer of fs that reaches a block server: EAGAIN or EINVAL.          *)
Stray == [op |-> "other", len |-> TAGGED_HDR_LEN, tag |-> 0, sector |-> 0, bytes |-> 0,
          cap |-> NoCap, data |-> <<>>]

Init ==
  /\ disk \in [Addr -> Byte]
  /\ started = 0 /\ running = {}
  /\ srv = [k \in Servers |->
              [Stray EXCEPT !.len = 0, !.data = [i \in 1 .. Room |-> disk[0]]]]
  /\ blkq = [k \in Servers |-> <<>>] /\ fsq = <<>>
  /\ lookups = 0 /\ BLK_REQ_ID = 1 /\ BLK_SERVICE_HANDLE = 0
  /\ call = [pc |-> "idle", ok |-> FALSE, op |-> "READ", sector |-> 0, byte |-> disk[0],
             id |-> 0, tries |-> 0]
  /\ asks = 0 /\ waiting = {} /\ lost = {}
  /\ executed = 0

-----------------------------------------------------------------------------
(* fs *)

cached == BLK_SERVICE_HANDLE # 0

(* read_sector and write_sector move one sector.                           *)
blk_call(op, s, b) ==
  /\ call.pc = "idle" /\ BLK_REQ_ID <= MaxCalls
  /\ BLK_REQ_ID' = BLK_REQ_ID + 1
  /\ call' = [pc |-> IF cached THEN "send" ELSE "lookup", ok |-> FALSE, op |-> op,
              sector |-> s, byte |-> b, id |-> BLK_REQ_ID, tries |-> 0]
  /\ UNCHANGED <<lookups, BLK_SERVICE_HANDLE, srvVars, cliVars, blkq, fsq>>

Resolved(handle) ==
  /\ BLK_SERVICE_HANDLE' = handle
  /\ call' = [call EXCEPT !.pc = "send"]

SendLookup ==
  /\ call.pc = "lookup"
  /\ \/ /\ call' = [call EXCEPT !.pc = "answer"] /\ lookups' = lookups + 1
        /\ UNCHANGED BLK_SERVICE_HANDLE
     \/ Resolved(VirtioBlkEndpoint) /\ UNCHANGED lookups
  /\ UNCHANGED <<BLK_REQ_ID, srvVars, cliVars, blkq, fsq>>

(* The lookup takes whatever comes first for its answer.                   *)
RecvLookup ==
  /\ call.pc = "answer"
  /\ \/ fsq = <<>> /\ Resolved(VirtioBlkEndpoint) /\ UNCHANGED <<fsq, cliVars>>
     \/ /\ fsq # <<>> /\ fsq' = Tail(fsq)
        /\ Resolved(IF Head(fsq).kind = "lookup" /\ Head(fsq).cap # NoCap
                    THEN Head(fsq).cap ELSE VirtioBlkEndpoint)
        /\ lost' = lost \cup ({Head(fsq).cap} \cap waiting)
        /\ UNCHANGED <<asks, waiting>>
  /\ UNCHANGED <<lookups, BLK_REQ_ID, srvVars, blkq>>

Return(ok, byte) == call' = [call EXCEPT !.pc = "idle", !.ok = ok, !.byte = byte]

(* The send may fail, and be seen to fail or not: error codes come back as *)
(* positive numbers.                                                       *)
SendRequest ==
  /\ call.pc = "send"
  /\ \/ /\ BLK_SERVICE_HANDLE \in Servers
        /\ \E cap \in {LocalEndpoint, NoCap} :
             blkq' = [blkq EXCEPT ![BLK_SERVICE_HANDLE] =
                        Append(@, Request(call.op, call.id, call.sector, call.byte, cap))]
        /\ call' = [call EXCEPT !.pc = "wait"]
     \/ /\ BLK_SERVICE_HANDLE \notin running
        /\ call' = [call EXCEPT !.pc = "wait"] \/ Return(FALSE, call.byte)
        /\ UNCHANGED blkq
  /\ UNCHANGED <<lookups, BLK_REQ_ID, BLK_SERVICE_HANDLE, srvVars, cliVars, fsq>>

(* fs answers the sender of the message it has received: a client, or the  *)
(* block server whose handle came with a late answer to the lookup.        *)
AnswerHead ==
  LET cap == Head(fsq).cap
  IN /\ waiting' = waiting \ {cap}
     /\ blkq' = IF cap \in Servers THEN [blkq EXCEPT ![cap] = Append(@, Stray)] ELSE blkq
     /\ UNCHANGED <<asks, lost>>

Retry == call' = [call EXCEPT !.tries = @ + 1]

RecvNothing ==
  /\ call.pc = "wait" /\ call.tries < MaxTries /\ fsq = <<>>
  /\ Retry
  /\ UNCHANGED <<lookups, BLK_REQ_ID, BLK_SERVICE_HANDLE, srvVars, cliVars, blkq, fsq>>

(* Whatever carries a capability is a request of a client: EAGAIN.         *)
BackpressureBug == UNCHANGED <<cliVars, blkq>>
Backpressure == AnswerHead

MatchesBug(m) == m.kind = "answer"
Matches(m) == m.kind = "answer" /\ m.tag = call.id

(* read_sector accepts a full sector, write_sector "OK".                   *)
Take(reply) ==
  CASE call.op = "READ" /\ reply.status = "DATA" -> Return(TRUE, reply.data[1])
    [] call.op = "WRITE" /\ reply.status = "OK" -> Return(TRUE, call.byte)
    [] OTHER -> Return(FALSE, call.byte)

RecvMessage ==
  /\ call.pc = "wait" /\ call.tries < MaxTries /\ fsq # <<>>
  /\ fsq' = Tail(fsq)
  /\ \/ Head(fsq).cap # NoCap /\ Backpressure /\ Retry
     \/ /\ Head(fsq).cap = NoCap /\ UNCHANGED <<cliVars, blkq>>
        /\ IF Matches(Head(fsq)) THEN Take(Head(fsq).reply) ELSE Retry
  /\ UNCHANGED <<lookups, BLK_REQ_ID, BLK_SERVICE_HANDLE, srvVars>>

GiveUp ==
  /\ call.pc = "wait" /\ call.tries = MaxTries
  /\ Return(FALSE, call.byte)
  /\ UNCHANGED <<lookups, BLK_REQ_ID, BLK_SERVICE_HANDLE, srvVars, cliVars, blkq, fsq>>

(* Between calls the main loop takes messages: it answers what carries a   *)
(* capability; a late answer of the block server carries none.  A receive  *)
(* that finds nothing has no effect.                                       *)
MainLoop ==
  /\ call.pc = "idle"
  /\ \/ fsq = <<>> /\ UNCHANGED <<fsq, cliVars, blkq>>
     \/ /\ fsq # <<>> /\ fsq' = Tail(fsq)
        /\ IF Head(fsq).cap # NoCap THEN AnswerHead ELSE UNCHANGED <<cliVars, blkq>>
  /\ UNCHANGED <<fsVars, srvVars>>

-----------------------------------------------------------------------------
(* init and the clients *)

Message(kind, tag, reply, cap) == [kind |-> kind, tag |-> tag, reply |-> reply, cap |-> cap]

StartServer ==
  /\ started < MaxServers
  /\ started' = started + 1 /\ running' = running \cup {started + 1}
  /\ UNCHANGED <<fsVars, disk, srv, executed, cliVars, blkq, fsq>>

(* The control plane of init answers with a server that has started, or    *)
(* that it knows none.                                                     *)
AnswerLookup ==
  /\ lookups > 0 /\ lookups' = lookups - 1
  /\ \E cap \in {NoCap} \cup 1 .. started :
       fsq' = Append(fsq, Message("lookup", 0, Status("OK"), cap))
  /\ UNCHANGED <<BLK_REQ_ID, BLK_SERVICE_HANDLE, call, srvVars, cliVars, blkq>>

(* A client asks again only when it has its answer.                        *)
Ask(c) ==
  /\ asks < MaxAsks /\ c \notin waiting
  /\ asks' = asks + 1
  /\ \/ waiting' = waiting \cup {c} /\ fsq' = Append(fsq, Message("client", 0, Status(""), c))
     \/ UNCHANGED waiting /\ fsq' = Append(fsq, Message("client", 0, Status(""), NoCap))
  /\ UNCHANGED <<fsVars, srvVars, lost, blkq>>

-----------------------------------------------------------------------------
(* the block servers *)

Die(k) ==
  /\ k \in running /\ running' = running \ {k}
  /\ UNCHANGED <<fsVars, disk, started, srv, executed, cliVars, blkq, fsq>>

(* A failed receive leaves the buffer as it was and clears the capability. *)
sys_ipc_recvBug(k) ==
  IF blkq[k] # <<>> THEN Received(Head(blkq[k]), srv[k].data)
  ELSE [srv[k] EXCEPT !.len = ERRNO]
sys_ipc_recv(k) ==
  IF blkq[k] # <<>> THEN Received(Head(blkq[k]), srv[k].data)
  ELSE [srv[k] EXCEPT !.len = ERRNO, !.cap = NoCap]

Serve(k) ==
  LET r == sys_ipc_recv(k)
  IN /\ k \in running
     /\ srv' = [srv EXCEPT ![k] = r]
     /\ blkq' = IF blkq[k] # <<>> THEN [blkq EXCEPT ![k] = Tail(@)] ELSE blkq
     /\ IF r.len < 2 \/ r.cap = NoCap THEN UNCHANGED <<disk, fsq, executed>>
        ELSE \E o \in Outcomes(r, disk, FALSE) :
               /\ disk' = o.disk
               /\ fsq' = Append(fsq, Message("answer", r.tag, o.reply, NoCap))
               /\ executed' = r.tag
     /\ UNCHANGED <<fsVars, started, running, cliVars>>

-----------------------------------------------------------------------------
CallStep == SendLookup \/ RecvLookup \/ SendRequest \/ RecvNothing \/ RecvMessage \/ GiveUp

Next ==
  \/ \E op \in {"READ", "WRITE"}, s \in Sectors, b \in Byte : blk_call(op, s, b)
  \/ CallStep \/ MainLoop
  \/ StartServer \/ AnswerLookup
  \/ \E k \in Servers : Die(k) \/ Serve(k)
  \/ \E c \in Clients : Ask(c)

Spec == Init /\ [][Next]_vars

-----------------------------------------------------------------------------
(* Across late answers, lost capabilities, failed writes that are carried  *)
(* out later, a second server on the same disk and crashes, fs sees each   *)
(* sector as a register: the guarantee that the disk adapter of fs relies  *)
(* on.  It rests on the tags, on the order of one queue, and on fs never   *)
(* leaving the server whose handle it has cached.                          *)
PendingWrites(s) ==
  {r \in UNION {Range(blkq[k]) : k \in running} :
     r.op = "WRITE" /\ r.cap # NoCap /\ r.sector = s}

Contents ==
  [s \in Sectors |-> {disk[s * SECTOR_SIZE]} \cup {r.data[1] : r \in PendingWrites(s)}]

Outcome ==
  [pc |-> IF call.pc # "idle" THEN "busy" ELSE IF call.ok THEN "ok" ELSE "fail",
   op |-> call.op, sector |-> call.sector, value |-> call.byte]

Registers == INSTANCE SectorService WITH
  Sector <- Sectors, Value <- Byte, content <- Contents, call <- Outcome

SectorsAreRegisters == Registers!Spec

(* Requests are carried out at most once and in the order they were made,  *)
(* although a failed receive returns a positive length over a buffer that  *)
(* still holds the last request.                                           *)
Newest == fsq[Len(fsq)]
Answered == Len(fsq') > Len(fsq) /\ Newest'.kind = "answer"
ExecutedInOrder == [][Answered => executed' > executed /\ executed' = Newest'.tag]_vars

(* A client whose request reached fs with its capability has one request   *)
(* in the queue until it is answered.  The exception is one request, for   *)
(* the whole life of fs: the one that the lookup of the block server may   *)
(* take for its answer.                                                    *)
ClientsAreAnswered ==
  /\ \A c \in waiting :
       LET asked == {i \in DOMAIN fsq : fsq[i].cap = c}
       IN IF c \in lost THEN asked = {} ELSE \E i \in DOMAIN fsq : asked = {i}
  /\ \A c, d \in lost : c = d
=============================================================================

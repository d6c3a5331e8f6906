----------------------------- MODULE FsClients ------------------------------
(***************************************************************************)
(* fs with two of its clients: init, which has it execute services and     *)
(* pings it, and helloworld, which writes a file and reads it back.  They  *)
(* use the untagged protocol: an answer is a bare text that the receiver   *)
(* takes for the answer to what it is waiting for.                         *)
(*                                                                         *)
(* While fs waits for the block server it answers EAGAIN to whatever else  *)
(* arrives, so answers come back out of order.  A message may lose its     *)
(* capability.  A failed receive returns at once.                          *)
(***************************************************************************)
EXTENDS Integers, Sequences, FiniteSets, Functions

CONSTANTS MaxTries,        \* receives of wait_for_reply_or_control (250 and 20)
          FS_RETRY_MAX,    \* tries of helloworld (50)
          MaxEvents        \* bound: calls of init and control messages to it

ASSUME ClientsAssumption ==
  MaxTries \in Nat \ {0} /\ FS_RETRY_MAX \in Nat /\ MaxEvents \in Nat

VARIABLES fsq, initq, helloq,   \* the endpoints
          busy,                 \* the request fs is at work on, or Free
          file,                 \* what hello.txt holds
          wrote,                \* fs has carried out a write of this boot
          executed,             \* history: the execs that fs has carried out, in order
          calls, others,        \* execs asked for by init; probes and control messages
          believed, gaveup,     \* execs that init takes to be done; that it gave up
          accepted,             \* history: the execs whose answers it took
          icall,                \* the call of init in progress
          hello                 \* helloworld

fsVars == <<busy, file, wrote, executed>>
initVars == <<calls, others, believed, gaveup, accepted, icall>>
clientsVars == <<fsq, initq, helloq, fsVars, initVars, hello>>

(* Execs are numbered.  The number is no part of a message, and no program *)
(* looks at it: it says which exec an answer really belongs to.            *)
Request(op, id, cap) == [op |-> op, id |-> id, cap |-> cap]
Answer(text, id, cap) == [text |-> text, id |-> id, cap |-> cap]
Free == Request("none", 0, "none")
Idle == [pc |-> "idle", op |-> "PING", id |-> 0, tries |-> 0]

ClientsInit ==
  /\ fsq = <<>> /\ initq = <<>> /\ helloq = <<>>
  /\ busy = Free /\ file \in {"", "content"} /\ wrote = FALSE /\ executed = <<>>
  /\ calls = 0 /\ others = 0 /\ believed = {} /\ gaveup = {} /\ accepted = {} /\ icall = Idle
  /\ hello = [step |-> "WRITE", waits |-> FALSE, i |-> 0, write_ok |-> FALSE, read_ok |-> FALSE]

-----------------------------------------------------------------------------
(* init *)

MoreEvents == calls + others < MaxEvents

(* fs_exec and the probe of fs: send_ping_and_wait.  The send may be seen  *)
(* to fail; one that fails unseen is like one that loses its capability.   *)
Call(op, id) ==
  /\ icall.pc = "idle"
  /\ \/ /\ \E cap \in {"init", "none"} : fsq' = Append(fsq, Request(op, id, cap))
        /\ icall' = [pc |-> "wait", op |-> op, id |-> id, tries |-> 0]
     \/ UNCHANGED <<fsq, icall>>
  /\ UNCHANGED <<initq, helloq, fsVars, believed, gaveup, accepted, hello>>

fs_exec ==
  /\ MoreEvents /\ Call("EXEC", calls + 1)
  /\ calls' = calls + 1 /\ UNCHANGED others

probe_service ==
  /\ MoreEvents /\ Call("PING", 0)
  /\ others' = others + 1 /\ UNCHANGED calls

Expected == IF icall.op = "EXEC" THEN "OK" ELSE "PONG"

TriesLeft == icall' = [icall EXCEPT !.tries = @ + 1]

(* The answer carries no capability; everything else is handed to          *)
(* handle_control_plane_msg, which answers others only.                    *)
IsReplyBug(m) == TRUE
IsReply(m) == m.cap = "none" /\ m.text = Expected

Accept(m) ==
  /\ icall' = Idle
  /\ IF icall.op = "EXEC"
     THEN believed' = believed \cup {icall.id} /\ accepted' = accepted \cup {m.id}
     ELSE UNCHANGED <<believed, accepted>>

wait_for_reply_or_control ==
  /\ icall.pc = "wait"
  /\ \/ /\ icall.tries < MaxTries /\ initq = <<>> /\ TriesLeft
        /\ UNCHANGED <<initq, believed, accepted, gaveup>>
     \/ /\ icall.tries < MaxTries /\ initq # <<>> /\ initq' = Tail(initq)
        /\ IF IsReply(Head(initq)) THEN Accept(Head(initq))
           ELSE TriesLeft /\ UNCHANGED <<believed, accepted>>
        /\ UNCHANGED gaveup
     \/ /\ icall.tries = MaxTries /\ icall' = Idle
        /\ gaveup' = IF icall.op = "EXEC" THEN gaveup \cup {icall.id} ELSE gaveup
        /\ UNCHANGED <<initq, believed, accepted>>
  /\ UNCHANGED <<fsq, helloq, fsVars, calls, others, hello>>

(* Between its calls init serves its control plane; an answer of fs that   *)
(* comes so late is no control request, and dropped.                       *)
control_plane_loop ==
  /\ icall.pc = "idle" /\ initq # <<>> /\ initq' = Tail(initq)
  /\ UNCHANGED <<fsq, helloq, fsVars, initVars, hello>>

(* A service asks init for something.                                      *)
ControlMessage ==
  /\ MoreEvents /\ others' = others + 1
  /\ \E cap \in {"service", "none"} :
       initq' = Append(initq, Answer("REQ_LOOKUP_SERVICE", 0, cap))
  /\ UNCHANGED <<fsq, helloq, fsVars, calls, believed, gaveup, accepted, icall, hello>>

-----------------------------------------------------------------------------
(* fs *)

reply(r, text) ==
  LET m == Answer(text, r.id, "none")
  IN /\ initq' = IF r.cap = "init" THEN Append(initq, m) ELSE initq
     /\ helloq' = IF r.cap = "hello" THEN Append(helloq, m) ELSE helloq

(* The main loop takes a request; blk_call, inside one, sends others away. *)
Take ==
  /\ fsq # <<>> /\ fsq' = Tail(fsq)
  /\ LET r == Head(fsq)
     IN \/ r.cap = "none" /\ UNCHANGED <<busy, initq, helloq>>
        \/ r.cap # "none" /\ busy # Free /\ reply(r, "EAGAIN") /\ UNCHANGED busy
        \/ r.cap # "none" /\ busy = Free /\ r.op = "PING" /\ reply(r, "PONG") /\ UNCHANGED busy
        \/ r.cap # "none" /\ busy = Free /\ r.op # "PING" /\ busy' = r /\ UNCHANGED <<initq, helloq>>
  /\ UNCHANGED <<file, wrote, executed, initVars, hello>>

FinishExecBug ==
  \E text \in {"OK", "ENOENT", "EAGAIN", "EIO"} : reply(busy, text) /\ UNCHANGED <<file, wrote, executed>>
FinishExec ==
  \/ /\ reply(busy, "OK") /\ executed' = Append(executed, busy.id)
     /\ UNCHANGED <<file, wrote>>
  \/ /\ \E text \in {"ENOENT", "EAGAIN", "EIO"} : reply(busy, text)
     /\ UNCHANGED <<file, wrote, executed>>

(* A write that fails may leave the file empty.                            *)
FinishWrite ==
  /\ \/ reply(busy, "OK") /\ file' = "content" /\ wrote' = TRUE
     \/ reply(busy, "EIO") /\ file' \in {file, "", "content"} /\ UNCHANGED wrote
     \/ reply(busy, "EAGAIN") /\ UNCHANGED <<file, wrote>>
  /\ UNCHANGED executed

FinishRead ==
  /\ \/ reply(busy, IF file = "" THEN "ENOENT" ELSE file)
     \/ \E text \in {"EAGAIN", "ENOENT", "EIO"} : reply(busy, text)
  /\ UNCHANGED <<file, wrote, executed>>

Finish ==
  /\ busy # Free /\ busy' = Free
  /\ \/ busy.op = "EXEC" /\ FinishExec
     \/ busy.op = "WRITE" /\ FinishWrite
     \/ busy.op = "READ" /\ FinishRead
  /\ UNCHANGED <<fsq, initVars, hello>>

-----------------------------------------------------------------------------
(* helloworld *)

Good(text) == text = IF hello.step = "WRITE" THEN "OK" ELSE "content"

(* fs_write, then fs_read, then the end.                                   *)
DoneBug(ok) ==
  hello' = IF hello.step = "WRITE"
           THEN [hello EXCEPT !.step = "READ", !.waits = FALSE, !.i = 0, !.write_ok = TRUE]
           ELSE [hello EXCEPT !.step = "off", !.waits = FALSE, !.read_ok = ok]
Done(ok) ==
  hello' = IF hello.step = "WRITE"
           THEN [hello EXCEPT !.step = "READ", !.waits = FALSE, !.i = 0, !.write_ok = ok]
           ELSE [hello EXCEPT !.step = "off", !.waits = FALSE, !.read_ok = ok]

(* fs_call: a send that is seen to fail counts as an empty answer.         *)
HelloSend ==
  /\ hello.step # "off" /\ ~hello.waits /\ hello.i < FS_RETRY_MAX
  /\ \/ /\ \E cap \in {"hello", "none"} : fsq' = Append(fsq, Request(hello.step, 0, cap))
        /\ hello' = [hello EXCEPT !.waits = TRUE]
     \/ UNCHANGED fsq /\ Done(FALSE)
  /\ UNCHANGED <<initq, helloq, fsVars, initVars>>

TryAgain == hello' = [hello EXCEPT !.waits = FALSE, !.i = @ + 1]

HelloRecv ==
  /\ hello.waits
  /\ \/ helloq = <<>> /\ Done(FALSE) /\ UNCHANGED helloq
     \/ /\ helloq # <<>> /\ helloq' = Tail(helloq)
        /\ IF Head(helloq).text = "EAGAIN"
           THEN TryAgain ELSE Done(Good(Head(helloq).text))
  /\ UNCHANGED <<fsq, initq, fsVars, initVars>>

OutOfTries ==
  /\ hello.step # "off" /\ hello.i = FS_RETRY_MAX /\ Done(FALSE)
  /\ UNCHANGED <<fsq, initq, helloq, fsVars, initVars>>

HelloStep == HelloSend \/ HelloRecv \/ OutOfTries

-----------------------------------------------------------------------------
ClientsNext ==
  \/ fs_exec \/ probe_service \/ wait_for_reply_or_control \/ control_plane_loop
  \/ ControlMessage
  \/ Take \/ Finish
  \/ HelloStep

ClientsSpec == ClientsInit /\ [][ClientsNext]_clientsVars

-----------------------------------------------------------------------------
(* A late answer to an exec that init gave up is taken for the answer to a *)
(* later one, and that one's for the next: answers may shift for ever.     *)
(* Still, of the execs that init takes to be done no more are not done     *)
(* than it gave up.  While it has given up none, it is right about all.    *)
BeliefIsBacked == Cardinality(believed \ Range(executed)) <= Cardinality(gaveup)

(* The starts that init believes in, and those it is about to hear of, are *)
(* all real, whichever service they belong to; and however answers are     *)
(* lost or late, fs carries out an exec at most once.                      *)
StartsAreReal ==
  /\ Cardinality(believed) + Cardinality({k \in DOMAIN initq : initq[k].text = "OK"})
       <= Len(executed)
  /\ IsInjective(executed) /\ Range(executed) \subseteq 1 .. calls

(* helloworld takes its write for done, without which it does not print    *)
(* "fs write/read test passed", only if fs has carried out a write of this *)
(* boot, and then the content stays: no late answer and no file from an    *)
(* earlier boot passes for it, and no delayed try of the write undoes it.  *)
PassedMeansStored == hello.write_ok => wrote /\ file = "content"
=============================================================================

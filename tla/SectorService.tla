--------------------------- MODULE SectorService ----------------------------
(***************************************************************************)
(* What the disk adapter of fs needs of the block service: each sector is  *)
(* a register.  One call is made at a time.  A write that fails may have   *)
(* taken effect, may take effect later, or never; but once a call on a     *)
(* sector has succeeded, its content is settled and what the call says.    *)
(***************************************************************************)
CONSTANTS Sector, Value

VARIABLES content,   \* the values each sector may turn out to hold
          call       \* the call in progress, or the last one with its outcome

vars == <<content, call>>

Init ==
  /\ content \in [Sector -> {{v} : v \in Value}]
  /\ call \in [pc : {"fail"}, op : {"READ"}, sector : Sector, value : Value]

Begin(op, s, v) ==
  /\ call.pc # "busy"
  /\ call' = [pc |-> "busy", op |-> op, sector |-> s, value |-> v]
  /\ UNCHANGED content

(* The request reaches the service.                                        *)
Submit ==
  /\ call.pc = "busy" /\ call.op = "WRITE"
  /\ content' = [content EXCEPT ![call.sector] = @ \cup {call.value}]
  /\ UNCHANGED call

(* The service carries something out, or it becomes certain that it never  *)
(* will.                                                                   *)
Settle ==
  /\ content' \in [Sector -> SUBSET Value]
  /\ \A s \in Sector : content'[s] \subseteq content[s] /\ content'[s] # {}
  /\ UNCHANGED call

Succeed(v) ==
  /\ call.pc = "busy" /\ content[call.sector] = {v}
  /\ call.op = "WRITE" => v = call.value
  /\ call' = [call EXCEPT !.pc = "ok", !.value = v]
  /\ UNCHANGED content

Fail ==
  /\ call.pc = "busy"
  /\ call' = [call EXCEPT !.pc = "fail"]
  /\ UNCHANGED content

Next ==
  \/ \E op \in {"READ", "WRITE"}, s \in Sector, v \in Value : Begin(op, s, v)
  \/ Submit \/ Settle \/ Fail
  \/ \E v \in Value : Succeed(v)

Spec == Init /\ [][Next]_vars
=============================================================================

----------------------------- MODULE IpcManager -----------------------------
(***************************************************************************)
(* The kernel's message queues: mene-ipc/src/{manager,endpoint}.rs.        *)
(*                                                                         *)
(* PROCESS_ENDPOINTS is one BTreeMap from process id to Endpoint, behind   *)
(* one sleeping mutex that every operation holds from its first read to    *)
(* its last write; each operation is therefore one atomic step.  The map   *)
(* is a function whose domain is the set of pids that have an endpoint,    *)
(* an endpoint is the sequence of its queued payloads.                     *)
(***************************************************************************)
EXTENDS Integers, Sequences, Maps

CONSTANTS
  MaxPid,     \* bound: largest process id allocated in a run
  Data,       \* message contents
  MaxQueue    \* bound: payloads queued at one endpoint

ASSUME IpcAssumption == MaxPid \in Nat /\ MaxQueue \in Nat

Pid == 1 .. MaxPid

VARIABLE endpoints    \* PROCESS_ENDPOINTS

(* IpcPayload::new: the capability list is created empty and nothing ever  *)
(* adds to it, so a payload is its sender and its bytes.                   *)
IpcPayload == [sender_id : Pid, message : Data]

-----------------------------------------------------------------------------
(* The first init_process also creates the map, which starts as None; a    *)
(* None map and an empty one answer every other operation alike.           *)
init_process(pid) == endpoints' = MapInsert(endpoints, pid, <<>>)

(* send looks the handle up as a process id.  Its capability argument is   *)
(* unused.  An unknown handle is Err(NotFound) and changes nothing.        *)
send(from_pid, to_handle, data) ==
  /\ to_handle \in DOMAIN endpoints
  /\ endpoints' = [endpoints EXCEPT ![to_handle] =
                     Append(@, [sender_id |-> from_pid, message |-> data])]

(* recv never waits: without an endpoint or a queued payload it is         *)
(* Err(WouldBlock) and changes nothing.  recv_timeout calls recv.          *)
CanRecv(pid) == pid \in DOMAIN endpoints /\ endpoints[pid] # <<>>

recv(pid) ==
  /\ CanRecv(pid)
  /\ endpoints' = [endpoints EXCEPT ![pid] = Tail(@)]

cleanup_process(pid) == endpoints' = MapRemove(endpoints, pid)

EndpointsType ==
  /\ DOMAIN endpoints \subseteq Pid
  /\ \A p \in DOMAIN endpoints : endpoints[p] \in Seq(IpcPayload)
=============================================================================

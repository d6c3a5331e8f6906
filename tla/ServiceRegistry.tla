-------------------------- MODULE ServiceRegistry ---------------------------
(***************************************************************************)
(* The kernel's SERVICE_REGISTRY: ServiceRegistry::register, lookup and    *)
(* unregister (mene-kernel/src/service/registry.rs) behind the mutex that  *)
(* ProcessSupervisor's register_service, lookup_service and                *)
(* unregister_service take (mene-kernel/src/process/lifecycle.rs).  Each   *)
(* operation is one step; any process may call any of them at any time.    *)
(***************************************************************************)
EXTENDS SlotTable, Maps

CONSTANTS
  Names,          \* names of 1 to MAX_NAME_LEN bytes
  BadNames,       \* the empty name and longer ones
  Pids,           \* owners
  Handles,        \* handles passed to register, 0 among them
  MAX_SERVICES    \* number of slots

ASSUME RegistryAssumption ==
  /\ MAX_SERVICES \in Nat /\ Handles \subseteq Nat
  /\ Names \cap BadNames = {}

VARIABLES
  entries,   \* the slots
  result     \* the last operation and what it returned

vars == <<entries, result>>

Slots == 1 .. MAX_SERVICES

(* A request and what it returned: an answer is judged with its request.   *)
Answer(request, status, handle) == [request |-> request, status |-> status, handle |-> handle]

Init ==
  /\ entries = [i \in Slots |-> empty]
  /\ result = Answer(<<>>, "none", 0)

(* The name is checked before the handle, both before the table is read.   *)
register(name, owner_pid, handle) ==
  \/ /\ name \in BadNames
     /\ result' = Answer(<<"register", name, owner_pid, handle>>, "InvalidName", 0)
     /\ UNCHANGED entries
  \/ /\ name \notin BadNames /\ handle = 0
     /\ result' = Answer(<<"register", name, owner_pid, handle>>, "InvalidHandle", 0)
     /\ UNCHANGED entries
  \/ /\ name \notin BadNames /\ handle # 0
     /\ entries' = Stored(entries, name, owner_pid, handle)
     /\ result' = Answer(<<"register", name, owner_pid, handle>>,
                         IF IsFull(entries, name) THEN "RegistryFull" ELSE "Ok", 0)

lookup(name) ==
  /\ result' = IF Matching(entries, name) = {} THEN Answer(<<"lookup", name>>, "NotFound", 0)
                ELSE Answer(<<"lookup", name>>, "Ok", Found(entries, name))
  /\ UNCHANGED entries

unregister(name) ==
  /\ result' = Answer(<<"unregister", name>>,
                      IF Matching(entries, name) = {} THEN "NotFound" ELSE "Ok", 0)
  /\ entries' = Cleared(entries, name)

Next ==
  \E name \in Names \cup BadNames :
    \/ \E owner_pid \in Pids, handle \in Handles : register(name, owner_pid, handle)
    \/ lookup(name)
    \/ unregister(name)

Spec == Init /\ [][Next]_vars

-----------------------------------------------------------------------------
Slot == [in_use : BOOLEAN, owner_pid : Pids \cup {0}, handle : Handles \cup {0},
         name : Names \cup {""}]

(* Every slot has its type; a bad name or a zero handle is never stored.   *)
TypeOK ==
  /\ entries \in [Slots -> Slot]
  /\ \A i \in Slots : entries[i].in_use => entries[i].name \in Names /\ entries[i].handle # 0

(* A name is in one slot at most: registering a name again after an        *)
(* unregister has left a hole in front of it updates its slot, and a       *)
(* lookup can never find an outdated duplicate.                            *)
UniqueNames == UniqueIn(entries)

NS == INSTANCE NameService WITH bound <- AsMap(entries)

(* The array behaves as the map that NameService describes: every          *)
(* operation returns what the map would, and RegistryFull comes exactly    *)
(* when MAX_SERVICES names are bound.                                      *)
RefinesNameService == NS!Spec
=============================================================================

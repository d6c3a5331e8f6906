---------------------------- MODULE NameService -----------------------------
(***************************************************************************)
(* What a service registry promises: a map from names to handles with room *)
(* for MAX_SERVICES names, in which a name can be rebound at any time and  *)
(* an operation that fails changes nothing.                                *)
(***************************************************************************)
EXTENDS Integers, FiniteSets, Maps

CONSTANTS Names, BadNames, Pids, Handles, MAX_SERVICES

VARIABLES bound, result

vars == <<bound, result>>

(* A request and what it returned: an answer is judged with its request.   *)
Answer(request, status, handle) == [request |-> request, status |-> status, handle |-> handle]

Init == bound = <<>> /\ result = Answer(<<>>, "none", 0)

HasRoom(name) == name \in DOMAIN bound \/ Cardinality(DOMAIN bound) < MAX_SERVICES

Register(name, owner_pid, handle) ==
  \/ /\ name \notin BadNames /\ handle # 0 /\ HasRoom(name)
     /\ bound' = MapInsert(bound, name, [owner_pid |-> owner_pid, handle |-> handle])
     /\ result' = Answer(<<"register", name, owner_pid, handle>>, "Ok", 0)
  \/ /\ name \in BadNames \/ handle = 0 \/ ~HasRoom(name)
     /\ result' = Answer(<<"register", name, owner_pid, handle>>,
                         IF name \in BadNames THEN "InvalidName"
                         ELSE IF handle = 0 THEN "InvalidHandle" ELSE "RegistryFull", 0)
     /\ UNCHANGED bound

Lookup(name) ==
  /\ result' = IF name \in DOMAIN bound THEN Answer(<<"lookup", name>>, "Ok", bound[name].handle)
                                     ELSE Answer(<<"lookup", name>>, "NotFound", 0)
  /\ UNCHANGED bound

Unregister(name) ==
  /\ result' = Answer(<<"unregister", name>>,
                      IF name \in DOMAIN bound THEN "Ok" ELSE "NotFound", 0)
  /\ bound' = MapRemove(bound, name)

Next ==
  \E name \in Names \cup BadNames :
    \/ \E owner_pid \in Pids, handle \in Handles : Register(name, owner_pid, handle)
    \/ Lookup(name)
    \/ Unregister(name)

Spec == Init /\ [][Next]_vars
=============================================================================

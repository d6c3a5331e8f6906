-------------------------- MODULE DependencyGraph ---------------------------
(***************************************************************************)
(* The kernel's dependency graph of services.  No code calls it yet; the   *)
(* client here is the one its operations are made for: it builds a graph,  *)
(* starts what get_ready_services returns, one after the other, and marks  *)
(* what becomes of each.  The list may be old when it is used.             *)
(***************************************************************************)
EXTENDS Integers, Sequences

VARIABLES nodes,     \* nodes[id]: dependencies and state
          building,  \* the client is still building the graph
          ready      \* what is left of the list it works on

graphVars == <<nodes, building, ready>>

Ids == DOMAIN nodes
States == {"Pending", "Starting", "Running", "Failed"}

GraphInit == nodes = <<>> /\ building = TRUE /\ ready = {}

(* Ids count from 0 in the code, from 1 here.                              *)
add_service ==
  /\ building
  /\ nodes' = Append(nodes, [deps |-> {}, state |-> "Pending"])
  /\ UNCHANGED <<building, ready>>

(* Ids that are not in the graph are ignored.                              *)
add_dependency(service_id, dep_id) ==
  /\ building
  /\ nodes' = IF service_id \in Ids /\ dep_id \in Ids
              THEN [nodes EXCEPT ![service_id].deps = @ \cup {dep_id}] ELSE nodes
  /\ UNCHANGED <<building, ready>>

Running(id) == id \in Ids /\ nodes[id].state = "Running"

get_ready_services ==
  {id \in Ids : nodes[id].state = "Pending" /\ \A d \in nodes[id].deps : Running(d)}

Mark(id, state) == nodes' = IF id \in Ids THEN [nodes EXCEPT ![id].state = state] ELSE nodes

all_completed == \A id \in Ids : nodes[id].state \in {"Running", "Failed"}

-----------------------------------------------------------------------------
(* the client *)

Launch == building /\ building' = FALSE /\ UNCHANGED <<nodes, ready>>

AskReady ==
  /\ ~building /\ ready = {} /\ get_ready_services # {}
  /\ ready' = get_ready_services
  /\ UNCHANGED <<nodes, building>>

mark_starting(id) ==
  id \in ready /\ ready' = ready \ {id} /\ Mark(id, "Starting") /\ UNCHANGED building

mark_running(id) ==
  id \in Ids /\ nodes[id].state = "Starting" /\ Mark(id, "Running") /\ UNCHANGED <<building, ready>>

mark_failed(id) ==
  id \in Ids /\ nodes[id].state = "Starting" /\ Mark(id, "Failed") /\ UNCHANGED <<building, ready>>

Done ==
  /\ ~building /\ ready = {} /\ get_ready_services = {}
  /\ \A id \in Ids : nodes[id].state # "Starting"

LaunchStep ==
  \/ AskReady
  \/ \E id \in Nat : mark_starting(id) \/ mark_running(id) \/ mark_failed(id)

GraphNext ==
  \/ add_service \/ Launch
  \/ \E s, d \in Nat : add_dependency(s, d)
  \/ LaunchStep
  \/ Done /\ UNCHANGED graphVars

GraphSpec == GraphInit /\ [][GraphNext]_graphVars

-----------------------------------------------------------------------------
(* Type correctness: dependencies are services of the graph.               *)
Node == [deps : SUBSET Ids, state : States]
GraphTypeOK == nodes \in Seq(Node) /\ ready \subseteq Ids /\ building \in BOOLEAN

(* No service is started before all it depends on are running, although    *)
(* the list it was taken from may be older than the latest marks.          *)
DepsRunFirst ==
  \A id \in Ids : nodes[id].state # "Pending" => \A d \in nodes[id].deps : Running(d)

(* When nothing is left to do, all_completed is true exactly if no service *)
(* waits, and every service that waits depends on one that failed or that  *)
(* waits as well: a client that loops until all_completed loops for ever   *)
(* only because of a failure or a cycle.                                   *)
StuckIsExplained ==
  Done =>
    /\ all_completed <=> \A x \in Ids : nodes[x].state # "Pending"
    /\ \A x \in Ids : nodes[x].state = "Pending" =>
         \E d \in nodes[x].deps : nodes[d].state \in {"Failed", "Pending"}
=============================================================================

---------------------------- MODULE MCSupervisor ----------------------------
(***************************************************************************)
(* Instances of Supervisor for TLC.  Each configuration is boot.toml cut   *)
(* down or rearranged so that one difficulty of launching or supervising   *)
(* occurs.                                                                 *)
(***************************************************************************)
EXTENDS Supervisor

Line(k, v) == [k |-> k, v |-> v, list |-> <<>>]

Service(name, binary, deps, policy, probe, launch) ==
  <<Line("section", name), Line("binary", binary), [k |-> "depends_on", v |-> "", list |-> deps],
    Line("restart_policy", policy), Line("health_probe", probe), Line("launch", launch)>>

(* Services that init spawns, spawns and probes, and asks fs to execute,   *)
(* over a choice of graphs (forward, backward and cyclic dependencies, and *)
(* one that names no service), policies and a binary that is not preloaded.*)
Graphs ==
  {Service("serial", binary, d1, "always", "none", "spawn")
     \o Service("fs", "/boot/fs", d2, policy2, "fs_ping", "spawn")
     \o Service("helloworld", "/boot/helloworld", d3, policy3, "none", "fs_exec") :
   binary \in {"/boot/serial", "/boot/missing"},
   d1 \in {<<>>, <<"fs">>, <<"helloworld", "nobody">>},
   d2 \in {<<>>, <<"serial">>, <<"helloworld">>},
   d3 \in {<<>>, <<"serial">>, <<"fs", "serial">>},
   policy2 \in {"always", "on-failure"}, policy3 \in {"always", "one-shot"}}

(* For the temporal properties: a chain and a cycle, every policy.         *)
LiveCfgs ==
  {Service("serial", "/boot/serial", d1, "always", "none", "spawn")
     \o Service("fs", "/boot/fs", <<"serial">>, policy2, "fs_ping", "spawn")
     \o Service("helloworld", "/boot/helloworld", <<"fs">>, policy3, "none", "fs_exec") :
   d1 \in {<<>>, <<"fs">>},
   policy2 \in {"always", "on-failure"}, policy3 \in {"always", "one-shot"}}

MCBootCfgs == Graphs \cup {<<>>}
MCPreloaded == {"/boot/serial", "/boot/fs"}
MCNames == {"fs", "x"}
MCDeviceKeys == {"x"}
=============================================================================

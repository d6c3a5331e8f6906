----------------------------- MODULE BootSystem -----------------------------
(***************************************************************************)
(* The boot as this kernel runs it: init (Supervisor) with the kernel's    *)
(* queues (IpcManager) and the programs it starts.  A handle is looked up  *)
(* as a pid, and no capability comes with a message.  Programs are named   *)
(* by their binary; app[p] is the program of process p.                    *)
(*                                                                         *)
(* A spawn is one step here: Process has its interleavings.                *)
(***************************************************************************)
EXTENDS Supervisor, IpcManager

VARIABLES app,     \* the programs started, in the order of their pids
          at       \* at[p]: where the process is in its script; past the end it serves

sysVars == <<endpoints, app, at>>

SerialEndpoint == 2
InitEndpointBug == 1
InitEndpoint == 6

Sends(to, kind, name) == [to |-> to, kind |-> kind, name |-> name]
sys_log == Sends(SerialEndpoint, "other", NoName)
ctl_register_service(name) == Sends(InitEndpoint, "register", name)
(* The answer to a query, or whatever else has arrived, is taken.          *)
Take == Sends(0, "take", NoName)
Query(key) == <<Sends(InitEndpoint, "query", key), Take>>

(* What a program does before it serves.  The log of a failed mapping of   *)
(* the PCI registers is left out.                                          *)
Script(binary) ==
  CASE binary = "/boot/serial" -> <<ctl_register_service("serial")>>
    [] binary = "/boot/virtio_blk" ->
         <<sys_log, ctl_register_service("virtio_blk")>> \o Query("pci.ecam_base") \o <<sys_log>>
           \o Query("virtio_blk.mmio_base") \o Query("virtio_blk.mmio_size") \o <<sys_log>>
    [] binary = "/boot/fs" -> <<ctl_register_service("fs"), sys_log>>
    [] OTHER -> <<sys_log>>

(* What boot.toml keeps to, and init relies on without a check.  Its       *)
(* services are not called like init's own, which the registry answers     *)
(* with init's handle;                                                     *)
ASSUME NamesAssumption ==
  \A config \in BootCfgs : LET g == parse_boot_graph(config)
    IN \A s \in DOMAIN g : g[s].name \notin {"init", "device_manager"}

(* a program tells which service it is;                                    *)
ASSUME BinariesAssumption ==
  \A config \in BootCfgs : LET g == parse_boot_graph(config)
    IN \A s, t \in DOMAIN g :
         g[s].binary # "/boot/init" /\ (g[s].binary = g[t].binary => s = t)

(* serial alone can be started first;                                      *)
ASSUME SerialAssumption ==
  \A config \in BootCfgs : LET g == parse_boot_graph(config)
    IN \A s \in DOMAIN g :
         g[s].dep_mask = {} => g[s].binary = "/boot/serial" \/ g[s].launch_mode = "fs_exec"

(* and a service that is to run always is not probed.                      *)
ASSUME ProbesAssumption ==
  \A config \in BootCfgs : LET g == parse_boot_graph(config)
    IN \A s \in DOMAIN g : g[s].restart_policy = "always" => g[s].health_probe = "none"

SystemInit ==
  /\ Init
  /\ endpoints = [p \in {1} |-> <<>>] /\ app = <<"/boot/init">> /\ at = <<1>>

-----------------------------------------------------------------------------
(* send with an unknown handle changes nothing.                            *)
Delivered(eps, from, to, kind, name) ==
  IF to \notin DOMAIN eps THEN eps
  ELSE [eps EXCEPT ![to] = Append(@, [sender_id |-> from, message |-> [kind |-> kind, name |-> name]])]

InitSends == endpoints' = Delivered(endpoints, 1, sent'.to, sent'.msg, NoName)

(* A second pid taken for every spawn. *)
sys_spawnBug(binary) ==
  /\ Len(app) < MaxPid
  /\ app' = app \o <<"none", binary>> /\ at' = at \o <<1, 1>>
  /\ init_process(Len(app'))
sys_spawn(binary) ==
  /\ Len(app) < MaxPid
  /\ app' = Append(app, binary) /\ at' = Append(at, 1)
  /\ init_process(Len(app'))

(* A send to an endpoint that exists succeeds; the code of NotFound may or *)
(* may not look like an error to sys_ipc_send_checked.                     *)
InitStarts ==
  /\ LaunchSpawn \/ TickRetry
  /\ IF specs[i].launch_mode = "fs_exec"
     THEN /\ FsEndpoint \in DOMAIN endpoints => sent'.msg = "EXEC"
          /\ InitSends /\ UNCHANGED <<app, at>>
     ELSE IF CanSpawn(i) THEN sys_spawn(specs[i].binary) ELSE UNCHANGED sysVars

(* A probe that fails, at once or after its wait, may take a service down, *)
(* which is logged.                                                        *)
LogRestart(eps) ==
  IF runtime[i].started /\ ~runtime'[i].started
  THEN Delivered(eps, 1, SerialEndpoint, "other", NoName) ELSE eps

InitProbes ==
  /\ TickProbe
  /\ endpoints' = LogRestart(Delivered(endpoints, 1, sent'.to, sent'.msg, NoName))
  /\ UNCHANGED <<app, at>>

InitGivesUp ==
  /\ WaitGiveUp
  /\ endpoints' = LogRestart(endpoints) /\ UNCHANGED <<app, at>>

(* The end of launching is logged.                                         *)
InitLaunched ==
  /\ LaunchPassDone
  /\ endpoints' = IF pc' = "loop" THEN Delivered(endpoints, 1, SerialEndpoint, "other", NoName)
                  ELSE endpoints
  /\ UNCHANGED <<app, at>>

InitMoves ==
  (LaunchSkip \/ TickSkip \/ TickDone) /\ UNCHANGED sysVars

(* No message is ever there: see NothingReachesInit.                       *)
InitWaits ==
  (WaitRecvNothing \/ LoopRecvNothing) /\ ~CanRecv(1) /\ UNCHANGED sysVars

InitStep ==
  InitStarts \/ InitProbes \/ InitGivesUp \/ InitLaunched \/ InitMoves \/ InitWaits

-----------------------------------------------------------------------------
IsService(p) == p \in 2 .. Len(app)
Serving(p) == at[p] > Len(Script(app[p]))

Drop(p) == endpoints' = [endpoints EXCEPT ![p] = IF @ = <<>> THEN @ ELSE Tail(@)]

(* A program that repeats a send until it is delivered. *)
ProgramStepBug(p) ==
  /\ IsService(p) /\ ~Serving(p)
  /\ LET s == Script(app[p])[at[p]]
     IN /\ IF s = Take THEN Drop(p) ELSE endpoints' = Delivered(endpoints, p, s.to, s.kind, s.name)
        /\ at' = [at EXCEPT ![p] = IF s.to \in DOMAIN endpoints THEN @ + 1 ELSE @]
  /\ UNCHANGED <<vars, app>>
ProgramStep(p) ==
  /\ IsService(p) /\ ~Serving(p)
  /\ LET s == Script(app[p])[at[p]]
     IN IF s = Take THEN Drop(p) ELSE endpoints' = Delivered(endpoints, p, s.to, s.kind, s.name)
  /\ \/ at' = [at EXCEPT ![p] = @ + 1]
     \* the block server has found its device by PCI
     \/ app[p] = "/boot/virtio_blk" /\ at[p] = 4 /\ at' = [at EXCEPT ![p] = Len(Script(app[p]))]
  /\ UNCHANGED <<vars, app>>

(* serial prints a message; the block and file system servers do nothing   *)
(* about a request that comes without a capability.                        *)
Serve(p) ==
  /\ IsService(p) /\ Serving(p) /\ endpoints[p] # <<>>
  /\ Drop(p) /\ UNCHANGED <<vars, app, at>>

Program(p) == ProgramStep(p) \/ Serve(p)

SystemNext == InitStep \/ \E p \in 2 .. MaxPid : Program(p)

SystemSpec == SystemInit /\ [][SystemNext]_<<vars, sysVars>>

(* Every process keeps running.                                            *)
FairSystemSpec ==
  /\ SystemSpec
  /\ WF_<<vars, sysVars>>(InitStep)
  /\ \A p \in 2 .. MaxPid : WF_<<vars, sysVars>>(Program(p))

-----------------------------------------------------------------------------
ServiceOf(p) == {s \in Services : specs[s].binary = app[p]}

(* Processes come into being in dependency order: whatever a program       *)
(* depends on has an endpoint when it begins, and a smaller pid.           *)
StartOrder ==
  \A p \in 2 .. Len(app) : \A s \in ServiceOf(p) : \A d \in specs[s].dep_mask :
    \E q \in 2 .. p - 1 : app[q] = specs[d].binary

(* The console's handle is the pid of the first process that init starts.  *)
(* Where all others depend on serial, that is serial, in whatever order    *)
(* boot.toml lists them: no other program ever receives a log line.        *)
LogsReachSerial ==
  Len(app) > 1 => SerialEndpoint \in DOMAIN endpoints /\ app[SerialEndpoint] = "/boot/serial"

(* Nothing reaches init: the handle that programs have for it is no pid,   *)
(* or that of another process.  So nobody registers, and no query is       *)
(* answered.                                                               *)
NothingReachesInit == endpoints[1] = <<>>

(* No program is started a second time.  Probes of the servers fail for    *)
(* ever, as they cannot register, and an on-failure service that has never *)
(* answered is left alone.                                                 *)
StartedOnce == \A p, q \in DOMAIN app : app[p] = app[q] => p = q

(* The services whose programs have come to serve.                         *)
Served == {s \in Services : \E p \in 2 .. Len(app) : app[p] = specs[s].binary /\ Serving(p)}

(* Every service that the kernel can spawn with all it depends on comes to *)
(* serve, whatever else init waits for: the services that serve end up as  *)
(* a set that leaves out none that could be started on top of it.          *)
ServersComeUp ==
  <>(\A s \in Services : CanSpawn(s) /\ specs[s].dep_mask \subseteq Served => s \in Served)
=============================================================================

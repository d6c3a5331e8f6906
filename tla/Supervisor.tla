----------------------------- MODULE Supervisor -----------------------------
(***************************************************************************)
(* The init process (apps/init/src/main.rs): launch_graph starts the       *)
(* services of the boot graph in dependency order, then control_plane_loop *)
(* serves the name registry and runs supervisor_tick, which retries,       *)
(* probes and restarts services.                                           *)
(*                                                                         *)
(* init is one thread.  A step ends at a system call whose result init     *)
(* does not control, so the environment moves exactly there: any message   *)
(* or none may be received by any receive, whatever the services do.  What *)
(* init sends is in sent.  Ticks are counted down: probe_in and retry_in   *)
(* are next_probe_tick and next_retry_tick minus tick, 0 once due.         *)
(***************************************************************************)
EXTENDS BootGraph, SlotTable

CONSTANTS
  BootCfgs,       \* the configurations to boot; <<>> stands for an unreadable one
  Preloaded,      \* binaries the kernel can spawn
  Names,          \* names in control requests
  DeviceKeys,     \* the names among them that device_query_value knows
  Pids, Caps,     \* senders, and capabilities that can come with a message
  PING_TRIES, EXEC_TRIES,        \* receives before a probe or an exec is given up
  PROBE_INTERVAL, RETRY_DELAY,   \* in ticks
  STREAK_MAX                     \* where probe_fail_streak saturates

ASSUME SupervisorAssumption ==
  /\ {PING_TRIES, EXEC_TRIES, PROBE_INTERVAL, RETRY_DELAY, STREAK_MAX} \subseteq Nat
  /\ STREAK_MAX >= 3 /\ 0 \notin Caps

ASSUME CfgsAssumption == BootCfgs \subseteq Seq(Lines)

VARIABLES
  specs,          \* what parse_boot_graph returned
  runtime,        \* ServiceRuntime of every service
  registry,       \* the slots of init's ServiceRegistry
  pc, i,          \* the loop init is in, and its index
  started_mask,   \* launch_graph's and supervisor_tick's local of that name
  progress,       \* launch_graph's
  tries,          \* receives left in wait_for_reply_or_control
  sent,           \* the message sent by the last step
  launched        \* history: services that have been started at least once

vars == <<specs, runtime, registry, pc, i, started_mask, progress, tries, sent, launched>>

Services == DOMAIN specs

(* Handle::LocalEndpoint and Handle::FsEndpoint *)
LocalEndpoint == 1
FsEndpoint == 5

NotStarted == [started |-> FALSE, attempted |-> FALSE, healthy_once |-> FALSE,
               probe_fail_streak |-> 0, probe_in |-> 0, retry_in |-> 0]

NoSend == [to |-> 0, msg |-> "none", cap |-> 0]

Message == [kind : {"register", "lookup", "query"}, name : Names, from : Pids, cap : Caps \cup {0}]
           \cup [kind : {"PONG", "OK", "other"}, name : {""}, from : Pids, cap : Caps \cup {0}]

(* _start *)
Init ==
  /\ \E config \in BootCfgs : specs = parse_boot_graph(config)
  /\ runtime = [s \in DOMAIN specs |-> NotStarted]
  /\ registry = Stored(Stored([s \in 1 .. MAX_SERVICES |-> empty], "init", 1, LocalEndpoint),
                       "device_manager", 1, LocalEndpoint)
  /\ pc = "launch" /\ i = 1 /\ started_mask = {} /\ progress = FALSE
  /\ tries = 0 /\ sent = NoSend /\ launched = {}

-----------------------------------------------------------------------------
(* handle_control_plane_msg, which parse_control_req lets see well-formed  *)
(* requests only.  A request without a capability has no effect.           *)
handle_control_plane_msg(m) ==
  /\ registry' = IF m.kind = "register" /\ m.cap # 0
                 THEN Stored(registry, m.name, m.from, m.cap) ELSE registry
  /\ sent' =
       CASE m.kind = "lookup" /\ m.cap # 0 /\ Found(registry, m.name) # 0 ->
              [to |-> m.cap, msg |-> "OK", cap |-> Found(registry, m.name)]
         [] m.kind = "query" /\ m.cap # 0 /\ m.name \in DeviceKeys ->
              [to |-> m.cap, msg |-> "OK", cap |-> 0]
         [] \/ m.kind = "lookup" /\ m.cap # 0 /\ Found(registry, m.name) = 0
            \/ m.kind = "query" /\ m.cap # 0 /\ m.name \notin DeviceKeys ->
              [to |-> m.cap, msg |-> "ENOENT", cap |-> 0]
         [] OTHER -> NoSend

(* What follows spawn_service in either loop.                              *)
SpawnDone(ok) ==
  /\ runtime' = [runtime EXCEPT ![i].attempted = TRUE, ![i].started = ok]
  /\ launched' = IF ok THEN launched \cup {i} ELSE launched
  /\ i' = i + 1 /\ tries' = 0 /\ sent' = NoSend
  /\ UNCHANGED <<specs, registry>>

(* A start that is not entered in the mask. *)
LaunchDoneBug(ok) ==
  /\ SpawnDone(ok)
  /\ progress' = (progress \/ ok)
  /\ pc' = "launch"
  /\ UNCHANGED started_mask

LaunchDone(ok) ==
  /\ SpawnDone(ok)
  /\ started_mask' = IF ok THEN started_mask \cup {i} ELSE started_mask
  /\ progress' = (progress \/ ok)
  /\ pc' = "launch"

RetryDone(ok) ==
  /\ SpawnDone(ok)
  /\ pc' = "tick"
  /\ UNCHANGED <<started_mask, progress>>

(* The condition of the on-failure policy applied to both policies. *)
RestartsBug(s, streak) ==
  streak >= 3 /\ specs[s].restart_policy # "one-shot" /\ runtime[s].healthy_once

(* Both policies treated alike. *)
RestartsAnyBug(s, streak) == streak >= 3 /\ specs[s].restart_policy # "one-shot"

(* What follows probe_service: three failures in a row restart a service,  *)
(* an on-failure one only if it has answered since it was started.         *)
Restarts(s, streak) ==
  /\ streak >= 3
  /\ \/ specs[s].restart_policy = "always"
     \/ specs[s].restart_policy = "on-failure" /\ runtime[s].healthy_once

Probed(s, ok) ==
  LET r == runtime[s]
      streak == IF r.probe_fail_streak < STREAK_MAX THEN r.probe_fail_streak + 1 ELSE STREAK_MAX
  IN  IF ok THEN [r EXCEPT !.healthy_once = TRUE, !.probe_fail_streak = 0,
                           !.probe_in = PROBE_INTERVAL]
      ELSE IF Restarts(s, streak)
      THEN [r EXCEPT !.started = FALSE, !.healthy_once = FALSE, !.probe_fail_streak = 0,
                     !.probe_in = PROBE_INTERVAL, !.retry_in = RETRY_DELAY]
      ELSE [r EXCEPT !.probe_fail_streak = streak, !.probe_in = PROBE_INTERVAL]

ProbeDone(ok) ==
  /\ runtime' = [runtime EXCEPT ![i] = Probed(i, ok)]
  /\ pc' = "tick" /\ i' = i + 1 /\ tries' = 0 /\ sent' = NoSend
  /\ UNCHANGED <<specs, registry, started_mask, progress, launched>>

(* spawn_service and probe_service end in wait_for_reply_or_control when   *)
(* the request could be sent.                                              *)
SendAndWait(rt, request, n, wait) ==
  /\ runtime' = [runtime EXCEPT ![i] = rt]
  /\ sent' = request /\ tries' = n /\ pc' = wait
  /\ UNCHANGED <<specs, registry, i, started_mask, progress, launched>>

SendExec(wait) ==
  SendAndWait([runtime[i] EXCEPT !.attempted = TRUE],
              [to |-> FsEndpoint, msg |-> "EXEC", cap |-> LocalEndpoint], EXEC_TRIES, wait)

SendPing ==
  SendAndWait([runtime[i] EXCEPT !.probe_in = PROBE_INTERVAL],
              [to |-> Found(registry, specs[i].name), msg |-> "PING", cap |-> LocalEndpoint],
              PING_TRIES, "probe_wait")

(* The kernel spawns what it has preloaded; whether a request reaches fs   *)
(* is for the environment.                                                 *)
CanSpawn(s) == specs[s].launch_mode = "spawn" /\ specs[s].binary \in Preloaded

-----------------------------------------------------------------------------
(* launch_graph *)
(* A test that any dependency is started. *)
DepsStartedBug(s) == specs[s].dep_mask = {} \/ specs[s].dep_mask \cap started_mask # {}

DepsStarted(s) == specs[s].dep_mask \subseteq started_mask

LaunchSkip ==
  /\ pc = "launch" /\ i \in Services
  /\ i \in started_mask \/ ~DepsStarted(i)
  /\ i' = i + 1
  /\ UNCHANGED <<specs, runtime, registry, pc, started_mask, progress, tries, sent, launched>>

LaunchSpawn ==
  /\ pc = "launch" /\ i \in Services
  /\ i \notin started_mask /\ DepsStarted(i)
  /\ \/ specs[i].launch_mode = "spawn" /\ LaunchDone(CanSpawn(i))
     \/ specs[i].launch_mode = "fs_exec" /\ (SendExec("launch_wait") \/ LaunchDone(FALSE))

(* A single pass over the services. *)
LaunchPassDoneBug ==
  /\ pc = "launch" /\ i \notin Services
  /\ pc' = "loop"
  /\ UNCHANGED <<specs, runtime, registry, i, started_mask, progress, tries, sent, launched>>

(* Another pass as long as the last one started something.                 *)
LaunchPassDone ==
  /\ pc = "launch" /\ i \notin Services
  /\ IF started_mask = Services \/ ~progress
     THEN pc' = "loop" /\ UNCHANGED <<i, progress>>
     ELSE i' = 1 /\ progress' = FALSE /\ UNCHANGED pc
  /\ UNCHANGED <<specs, runtime, registry, started_mask, tries, sent, launched>>

-----------------------------------------------------------------------------
(* wait_for_reply_or_control *)
WaitDone(ok) ==
  \/ pc = "launch_wait" /\ LaunchDone(ok)
  \/ pc = "retry_wait" /\ RetryDone(ok)
  \/ pc = "probe_wait" /\ ProbeDone(ok)

Expected == IF pc = "probe_wait" THEN "PONG" ELSE "OK"

Waiting == pc \in {"launch_wait", "retry_wait", "probe_wait"}

WaitRecvNothing ==
  /\ Waiting /\ tries > 0
  /\ tries' = tries - 1 /\ sent' = NoSend
  /\ UNCHANGED <<specs, runtime, registry, pc, i, started_mask, progress, launched>>

IsReply(m) == m.kind = Expected /\ m.cap = 0

(* Control requests that do not count as tries. *)
WaitRecvBug(m) ==
  /\ Waiting /\ tries > 0
  /\ \/ IsReply(m) /\ WaitDone(TRUE)
     \/ /\ ~IsReply(m)
        /\ handle_control_plane_msg(m)
        /\ UNCHANGED <<specs, runtime, pc, i, started_mask, progress, tries, launched>>

WaitRecv(m) ==
  /\ Waiting /\ tries > 0
  /\ \/ IsReply(m) /\ WaitDone(TRUE)
     \/ /\ ~IsReply(m)
        /\ handle_control_plane_msg(m)
        /\ tries' = tries - 1
        /\ UNCHANGED <<specs, runtime, pc, i, started_mask, progress, launched>>

WaitGiveUp == Waiting /\ tries = 0 /\ WaitDone(FALSE)

-----------------------------------------------------------------------------
(* control_plane_loop: one receive, then a tick.                           *)
StartTick ==
  /\ pc = "loop" /\ pc' = "tick" /\ i' = 1
  /\ runtime' = [s \in Services |->
                    [runtime[s] EXCEPT !.probe_in = IF @ = 0 THEN 0 ELSE @ - 1,
                                       !.retry_in = IF @ = 0 THEN 0 ELSE @ - 1]]
  /\ started_mask' = {s \in Services : runtime[s].started}
  /\ UNCHANGED <<specs, progress, tries, launched>>

LoopRecvNothing == StartTick /\ sent' = NoSend /\ UNCHANGED registry

LoopRecv(m) == StartTick /\ handle_control_plane_msg(m)

(* The rule for one-shot services applied to all. *)
RetryDueBug(s) ==
  /\ ~runtime[s].started /\ ~runtime[s].attempted
  /\ DepsStarted(s) /\ runtime[s].retry_in = 0

(* supervisor_tick *)
RetryDue(s) ==
  /\ ~runtime[s].started
  /\ ~(specs[s].restart_policy = "one-shot" /\ runtime[s].attempted)
  /\ DepsStarted(s) /\ runtime[s].retry_in = 0

ProbeDue(s) ==
  /\ runtime[s].started
  /\ specs[s].restart_policy # "one-shot" /\ specs[s].health_probe # "none"
  /\ runtime[s].probe_in = 0

TickSkip ==
  /\ pc = "tick" /\ i \in Services
  /\ ~RetryDue(i) /\ ~ProbeDue(i)
  /\ i' = i + 1
  /\ UNCHANGED <<specs, runtime, registry, pc, started_mask, progress, tries, sent, launched>>

TickRetry ==
  /\ pc = "tick" /\ i \in Services /\ RetryDue(i)
  /\ \/ specs[i].launch_mode = "spawn" /\ RetryDone(CanSpawn(i))
     \/ specs[i].launch_mode = "fs_exec" /\ (SendExec("retry_wait") \/ RetryDone(FALSE))

TickProbe ==
  /\ pc = "tick" /\ i \in Services /\ ProbeDue(i)
  /\ \/ Found(registry, specs[i].name) # 0 /\ SendPing
     \/ ProbeDone(FALSE)

TickDone ==
  /\ pc = "tick" /\ i \notin Services
  /\ pc' = "loop"
  /\ UNCHANGED <<specs, runtime, registry, i, started_mask, progress, tries, sent, launched>>

Step ==
  \/ LaunchSkip \/ LaunchSpawn \/ LaunchPassDone
  \/ WaitRecvNothing \/ WaitGiveUp
  \/ LoopRecvNothing
  \/ TickSkip \/ TickRetry \/ TickProbe \/ TickDone

Next == Step \/ \E m \in Message : WaitRecv(m) \/ LoopRecv(m)

Spec == Init /\ [][Next]_vars

(* init is a runnable thread under a round-robin scheduler and none of its *)
(* system calls blocks for ever, so it keeps taking steps.                 *)
FairSpec == Spec /\ WF_vars(Next)

-----------------------------------------------------------------------------
Runtime == [started : BOOLEAN, attempted : BOOLEAN, healthy_once : BOOLEAN,
            probe_fail_streak : 0 .. STREAK_MAX,
            probe_in : 0 .. PROBE_INTERVAL, retry_in : 0 .. RETRY_DELAY]

(* The state has its type, and a loop's index stays within its bounds.     *)
TypeOK ==
  /\ runtime \in [Services -> Runtime]
  /\ DOMAIN registry = 1 .. MAX_SERVICES
  /\ pc \in {"launch", "launch_wait", "loop", "tick", "retry_wait", "probe_wait"}
  /\ i \in 1 .. Len(specs) + 1 /\ (Waiting => i \in Services)
  /\ started_mask \subseteq Services /\ launched \subseteq Services
  /\ progress \in BOOLEAN /\ tries \in Nat

(* No service is attempted before every service it depends on has been     *)
(* started: not by launch_graph, and not by a retry, although the mask a   *)
(* tick works with is computed before the tick restarts services.  In      *)
(* particular the services of a dependency cycle are never attempted.      *)
DepsLaunchedFirst ==
  \A s \in Services : runtime[s].attempted => specs[s].dep_mask \subseteq launched

(* The services that can be started at all: the least set closed under     *)
(* starting a startable service all of whose dependencies are in it.       *)
Closed(S) ==
  \A s \in Services : specs[s].dep_mask \subseteq S
                       /\ (specs[s].launch_mode = "fs_exec" \/ CanSpawn(s)) => s \in S

Startable == {s \in Services : \A S \in SUBSET Services : Closed(S) => s \in S}

(* Nothing is ever started that the boot graph does not lead to: not a     *)
(* service whose binary is missing, nor one that waits for such a service  *)
(* or for itself.                                                          *)
OnlyStartable == launched \subseteq Startable

(* launch_graph stops only when there is nothing left to try: when it      *)
(* hands over to the control loop, every service whose dependencies are up *)
(* has been attempted and, if the kernel can spawn it, is up.  A service   *)
(* listed before its dependencies is not forgotten.                        *)
LaunchIsComplete ==
  [][pc = "launch" /\ pc' = "loop" =>
       \A s \in Services :
         specs[s].dep_mask \subseteq {d \in Services : runtime[d].started}
         => runtime[s].attempted /\ (CanSpawn(s) => runtime[s].started)]_vars

(* A one-shot service that was started is never started again: it stays    *)
(* started, and neither loop spawns a service that is.                     *)
OneShotRunsOnce ==
  [][\A s \in launched : specs[s].restart_policy = "one-shot" =>
       /\ runtime'[s].started
       /\ ~(i = s /\ sent # sent' /\ sent'.msg = "EXEC")]_vars

(* Whatever arrives while init waits for an answer, its registry holds a   *)
(* name once, and a name once registered stays registered.                 *)
RegistryKeepsNames ==
  [][UniqueIn(registry') /\ NamesIn(registry) \subseteq NamesIn(registry')]_vars

(* init always gets back to its control loop: launching ends, and neither  *)
(* silent services nor a stream of control requests can hold it in a wait. *)
ReturnsToLoop == []<>(pc = "loop")

(* A failed probe has consequences: a service that init may restart either *)
(* answers a later probe or is restarted.                                  *)
FailureIsResolved ==
  \A s \in 1 .. MAX_SERVICES :
    (s \in Services /\ runtime[s].probe_fail_streak > 0
       /\ (specs[s].restart_policy = "always" \/ runtime[s].healthy_once))
    ~> (s \in Services /\ runtime[s].probe_fail_streak = 0)

(* A service that was taken down is brought up again, unless a dependency  *)
(* of it goes down meanwhile.                                              *)
RestartComesBack ==
  \A s \in 1 .. MAX_SERVICES :
    (s \in launched /\ ~runtime[s].started)
    ~> (s \in launched /\ (runtime[s].started \/ \E d \in specs[s].dep_mask : ~runtime[d].started))
=============================================================================

-------------------------- MODULE SupervisorProofs --------------------------
(***************************************************************************)
(* Proofs about Supervisor, for every boot configuration and any number of *)
(* services, tries and ticks.  That parse_boot_graph returns a sequence of *)
(* specifications is proved in BootGraphProofs.  The proofs about          *)
(* BootSystem at the end take from its assumptions what boot.toml keeps    *)
(* to.                                                                     *)
(***************************************************************************)
EXTENDS BootSystem, BootGraphProofs

(* The inductive invariant.  What a loop believes to be started, and what  *)
(* the runtime says is started, has been started; and while init waits for *)
(* fs the service it executes is recorded as attempted.                    *)
SupInv ==
  /\ runtime \in [Services -> Runtime]
  /\ Waiting => i \in Services
  /\ pc \in {"launch_wait", "retry_wait"} =>
       runtime[i].attempted /\ specs[i].launch_mode = "fs_exec"
  /\ started_mask \subseteq launched
  /\ \A s \in Services : runtime[s].started => s \in launched
  /\ DepsLaunchedFirst
  /\ OnlyStartable

(* A service may be started once its dependencies have been.               *)
CanStart(s) ==
  /\ specs[s].dep_mask \subseteq launched
  /\ specs[s].launch_mode = "fs_exec" \/ CanSpawn(s)

(* A service that may be started belongs to every closed set that contains *)
(* its dependencies, hence to the least one.                               *)
LEMMA CanStartIsStartable ==
  ASSUME OnlyStartable, NEW s \in Services, CanStart(s)
  PROVE  s \in Startable
  BY DEF OnlyStartable, Startable, Closed, CanStart

(* Initially nothing is attempted.                                         *)
LEMMA SupInit == Init => SupInv
  BY SupervisorAssumption DEF Init, SupInv, Runtime, NotStarted, Services, Waiting,
                              DepsLaunchedFirst, OnlyStartable

(* A configuration is read once: Startable never changes.                  *)
LEMMA SameStartable == ASSUME specs' = specs PROVE Startable' = Startable
  BY DEF Startable, Closed, CanSpawn, Services

(* spawn_service for service i, successful or not, keeps the invariant if  *)
(* its dependencies have been started and a success was possible.          *)
LEMMA SpawnDoneStep ==
  ASSUME SupInv, NEW ok \in BOOLEAN, SpawnDone(ok), i \in Services,
         specs[i].dep_mask \subseteq launched, ok => CanStart(i),
         started_mask' \subseteq launched', pc' \in {"launch", "tick"}
  PROVE  SupInv'
  <1>1. /\ specs' = specs /\ Services' = Services /\ launched \subseteq launched'
        /\ launched' = IF ok THEN launched \cup {i} ELSE launched
    BY DEF SpawnDone, Services
  <1>2. /\ runtime' \in [Services -> Runtime]
        /\ runtime'[i].started = ok
        /\ \A s \in Services \ {i} : runtime'[s] = runtime[s]
    BY Zenon DEF SpawnDone, SupInv, Runtime
  <1>3. OnlyStartable'
    BY <1>1, SameStartable, CanStartIsStartable DEF OnlyStartable, SupInv
  <1>4. DepsLaunchedFirst'
    BY <1>1, <1>2 DEF DepsLaunchedFirst, SupInv
  <1>5. \A s \in Services : runtime'[s].started => s \in launched'
    BY <1>1, <1>2 DEF SupInv
  <1>6. ~Waiting'
    BY DEF Waiting
  <1> QED BY <1>1, <1>2, <1>3, <1>4, <1>5, <1>6 DEF SupInv

(* A step that starts nothing and attempts nothing keeps the invariant,    *)
(* whatever it does to the other fields.                                   *)
LEMMA QuietStep ==
  ASSUME SupInv, specs' = specs, launched' = launched,
         runtime' \in [Services -> Runtime],
         \A s \in Services : /\ runtime'[s].started => runtime[s].started
                             /\ runtime'[s].attempted = runtime[s].attempted,
         started_mask' \subseteq launched,
         Waiting' => i' \in Services,
         pc' \in {"launch_wait", "retry_wait"} => pc' = pc /\ i' = i
  PROVE  SupInv'
  <1>1. Services' = Services
    BY DEF Services
  <1>2. OnlyStartable'
    BY SameStartable DEF OnlyStartable, SupInv
  <1>3. DepsLaunchedFirst'
    BY <1>1 DEF DepsLaunchedFirst, SupInv
  <1>4. pc' \in {"launch_wait", "retry_wait"} =>
          runtime'[i'].attempted /\ specs'[i'].launch_mode = "fs_exec"
    <2>1. pc' \in {"launch_wait", "retry_wait"} => Waiting
      BY DEF Waiting
    <2> QED BY <2>1 DEF SupInv
  <1> QED BY <1>1, <1>2, <1>3, <1>4 DEF SupInv

(* Sending an exec request records the attempt.                            *)
LEMMA SendExecStep ==
  ASSUME SupInv, NEW wait \in {"launch_wait", "retry_wait"}, SendExec(wait), i \in Services,
         specs[i].dep_mask \subseteq launched, specs[i].launch_mode = "fs_exec"
  PROVE  SupInv'
  <1>1. /\ specs' = specs /\ Services' = Services /\ launched' = launched
        /\ i' = i /\ started_mask' = started_mask /\ pc' = wait
        /\ runtime' = [runtime EXCEPT ![i] = [runtime[i] EXCEPT !.attempted = TRUE]]
    BY DEF SendExec, SendAndWait, Services
  <1>2. /\ runtime' \in [Services -> Runtime]
        /\ runtime'[i].started = runtime[i].started /\ runtime'[i].attempted
        /\ \A s \in Services \ {i} : runtime'[s] = runtime[s]
    BY <1>1, Zenon DEF SupInv, Runtime
  <1>3. OnlyStartable'
    BY <1>1, SameStartable DEF OnlyStartable, SupInv
  <1>4. DepsLaunchedFirst'
    BY <1>1, <1>2 DEF DepsLaunchedFirst, SupInv
  <1>5. \A s \in Services : runtime'[s].started => s \in launched'
    BY <1>1, <1>2 DEF SupInv
  <1> QED BY <1>1, <1>2, <1>3, <1>4, <1>5 DEF SupInv

Answered(r, b, n, p, q) ==
  q = [r EXCEPT !.healthy_once = b, !.probe_fail_streak = n, !.probe_in = p]

Restarted(r, a, b, n, p, t, q) ==
  q = [r EXCEPT !.started = a, !.healthy_once = b, !.probe_fail_streak = n,
                !.probe_in = p, !.retry_in = t]

(* What a probe that was answered writes into a ServiceRuntime.            *)
LEMMA AnsweredRuntime ==
  ASSUME NEW r \in Runtime, NEW b \in BOOLEAN, NEW n \in 0 .. STREAK_MAX,
         NEW p \in 0 .. PROBE_INTERVAL,
         NEW q, Answered(r, b, n, p, q)
  PROVE  q \in Runtime /\ q.started = r.started /\ q.attempted = r.attempted
  BY Zenon DEF Runtime, Answered

(* What a restart writes into a ServiceRuntime.                            *)
LEMMA RestartedRuntime ==
  ASSUME NEW r \in Runtime, NEW a \in BOOLEAN, NEW b \in BOOLEAN,
         NEW n \in 0 .. STREAK_MAX, NEW p \in 0 .. PROBE_INTERVAL, NEW t \in 0 .. RETRY_DELAY,
         NEW q, Restarted(r, a, b, n, p, t, q)
  PROVE  q \in Runtime /\ q.started = a /\ q.attempted = r.attempted
  BY Zenon DEF Runtime, Restarted

(* A probe may take a service down and starts none.                        *)
LEMMA ProbedRuntime ==
  ASSUME SupInv, NEW s \in Services, NEW ok \in BOOLEAN
  PROVE  /\ Probed(s, ok) \in Runtime
         /\ Probed(s, ok).started => runtime[s].started
         /\ Probed(s, ok).attempted = runtime[s].attempted
  <1>1. runtime[s] \in Runtime
    BY DEF SupInv
  <1>2. /\ PROBE_INTERVAL \in 0 .. PROBE_INTERVAL /\ RETRY_DELAY \in 0 .. RETRY_DELAY
        /\ STREAK_MAX \in Nat /\ 0 \in 0 .. STREAK_MAX
    BY SupervisorAssumption
  <1> DEFINE r == runtime[s]
             streak == IF r.probe_fail_streak < STREAK_MAX THEN r.probe_fail_streak + 1
                                                           ELSE STREAK_MAX
  <1>3. streak \in 0 .. STREAK_MAX
    BY <1>1, <1>2 DEF Runtime
  <1>4. CASE ok
    <2>1. PICK b \in BOOLEAN : b = TRUE
      BY Zenon
    <2>2. Answered(r, b, 0, PROBE_INTERVAL, Probed(s, ok))
      BY <1>4, <2>1, Zenon DEF Probed, Answered
    <2> QED BY <1>1, <1>2, <2>2, AnsweredRuntime
  <1>5. CASE ~ok /\ Restarts(s, streak)
    <2>1. PICK b \in BOOLEAN : b = FALSE
      BY Zenon
    <2>2. Restarted(r, b, b, 0, PROBE_INTERVAL, RETRY_DELAY, Probed(s, ok))
      BY <1>5, <2>1, Zenon DEF Probed, Restarted
    <2>3. /\ Probed(s, ok) \in Runtime /\ Probed(s, ok).started = b
          /\ Probed(s, ok).attempted = runtime[s].attempted
      BY <1>1, <1>2, <2>2, RestartedRuntime
    <2> QED BY <2>1, <2>3
  <1>6. CASE ~ok /\ ~Restarts(s, streak)
    <2>1. Probed(s, ok) = [r EXCEPT !.probe_fail_streak = streak, !.probe_in = PROBE_INTERVAL]
      BY <1>6, Zenon DEF Probed
    <2> HIDE DEF streak
    <2> QED BY <1>1, <1>2, <1>3, <2>1, Zenon DEF Runtime
  <1> QED BY <1>4, <1>5, <1>6

(* The end of a probe keeps the invariant.                                 *)
LEMMA ProbeDoneStep ==
  ASSUME SupInv, NEW ok \in BOOLEAN, ProbeDone(ok), i \in Services
  PROVE  SupInv'
  <1>1. /\ specs' = specs /\ launched' = launched /\ started_mask' = started_mask
        /\ pc' = "tick" /\ runtime' = [runtime EXCEPT ![i] = Probed(i, ok)]
    BY DEF ProbeDone
  <1>2. /\ runtime' \in [Services -> Runtime]
        /\ \A s \in Services : /\ runtime'[s].started => runtime[s].started
                               /\ runtime'[s].attempted = runtime[s].attempted
    <2>1. runtime \in [Services -> Runtime]
      BY DEF SupInv
    <2> QED BY <1>1, <2>1, ProbedRuntime
  <1>3. started_mask' \subseteq launched /\ ~Waiting'
    BY <1>1 DEF SupInv, Waiting
  <1> QED BY <1>1, <1>2, <1>3, QuietStep

(* launch_graph keeps its mask within the services that were started.      *)
LEMMA LaunchDoneStep ==
  ASSUME SupInv, NEW ok \in BOOLEAN, LaunchDone(ok), i \in Services,
         specs[i].dep_mask \subseteq launched, ok => CanStart(i)
  PROVE  SupInv'
  <1>1. SpawnDone(ok) /\ pc' \in {"launch", "tick"}
    BY DEF LaunchDone
  <1>2. started_mask' \subseteq launched'
    BY DEF LaunchDone, SpawnDone, SupInv
  <1> QED BY <1>1, <1>2, SpawnDoneStep

(* So does supervisor_tick, whose mask a retry leaves alone.               *)
LEMMA RetryDoneStep ==
  ASSUME SupInv, NEW ok \in BOOLEAN, RetryDone(ok), i \in Services,
         specs[i].dep_mask \subseteq launched, ok => CanStart(i)
  PROVE  SupInv'
  <1>1. SpawnDone(ok) /\ pc' \in {"launch", "tick"}
    BY DEF RetryDone
  <1>2. started_mask' \subseteq launched'
    BY DEF RetryDone, SpawnDone, SupInv
  <1> QED BY <1>1, <1>2, SpawnDoneStep

-----------------------------------------------------------------------------
(* Each action of init keeps the invariant.                                *)
LEMMA SupStep == SupInv /\ [Next]_vars => SupInv'
  <1> SUFFICES ASSUME SupInv, [Next]_vars PROVE SupInv'
    OBVIOUS
  <1>0. /\ runtime \in [Services -> Runtime] /\ started_mask \subseteq launched
        /\ Waiting => i \in Services
        /\ \A s \in Services : runtime[s].started => s \in launched
    BY DEF SupInv
  <1>q. ASSUME specs' = specs, launched' = launched, runtime' = runtime,
               started_mask' = started_mask,
               \/ pc' = pc /\ (Waiting => i' = i)
               \/ pc' \in {"loop", "tick", "launch"}
        PROVE  SupInv'
    <2>1. Waiting' => Waiting /\ i' = i /\ pc' = pc
      BY <1>q DEF Waiting
    <2>2. pc' \in {"launch_wait", "retry_wait"} => pc' = pc /\ i' = i
      BY <2>1 DEF Waiting
    <2> QED BY <1>0, <1>q, <2>1, <2>2, QuietStep
  <1>1. CASE UNCHANGED vars
    BY <1>1, <1>q DEF vars
  <1>2. CASE LaunchSkip
    BY <1>2, <1>q DEF LaunchSkip, Waiting
  <1>3. CASE LaunchSpawn
    <2>1. i \in Services /\ specs[i].dep_mask \subseteq launched
      BY <1>0, <1>3 DEF LaunchSpawn, DepsStarted
    <2>2. CASE specs[i].launch_mode = "spawn" /\ LaunchDone(CanSpawn(i))
      BY <2>1, <2>2, LaunchDoneStep, Zenon DEF CanStart, CanSpawn
    <2>3. CASE specs[i].launch_mode = "fs_exec" /\ SendExec("launch_wait")
      BY <2>1, <2>3, SendExecStep
    <2>4. CASE LaunchDone(FALSE)
      BY <2>1, <2>4, LaunchDoneStep, Zenon
    <2> QED BY <1>3, <2>2, <2>3, <2>4, Zenon DEF LaunchSpawn
  <1>4. CASE LaunchPassDone
    BY <1>4, <1>q DEF LaunchPassDone, Waiting
  <1>5. CASE WaitRecvNothing
    BY <1>5, <1>q DEF WaitRecvNothing
  <1>6. ASSUME NEW ok \in BOOLEAN, Waiting, WaitDone(ok) PROVE SupInv'
    <2>1. i \in Services
      BY <1>0, <1>6
    <2>2. pc \in {"launch_wait", "retry_wait"} =>
            specs[i].dep_mask \subseteq launched /\ CanStart(i)
      BY <2>1 DEF SupInv, DepsLaunchedFirst, CanStart
    <2>3. CASE pc = "launch_wait" /\ LaunchDone(ok)
      BY <2>1, <2>2, <2>3, LaunchDoneStep
    <2>4. CASE pc = "retry_wait" /\ RetryDone(ok)
      BY <2>1, <2>2, <2>4, RetryDoneStep
    <2>5. CASE pc = "probe_wait" /\ ProbeDone(ok)
      BY <2>1, <2>5, ProbeDoneStep
    <2> QED BY <1>6, <2>3, <2>4, <2>5 DEF WaitDone
  <1>7. CASE WaitGiveUp
    BY <1>6, <1>7, Zenon DEF WaitGiveUp
  <1>8. ASSUME NEW m \in Message, WaitRecv(m) PROVE SupInv'
    BY <1>6, <1>8, <1>q, Zenon DEF WaitRecv
  <1>9. ASSUME StartTick PROVE SupInv'
    <2>1. /\ specs' = specs /\ launched' = launched /\ pc' = "tick"
          /\ started_mask' \subseteq launched
      BY <1>0, <1>9, Zenon DEF StartTick
    <2>2. runtime' = [s \in Services |->
                        [runtime[s] EXCEPT !.probe_in = IF @ = 0 THEN 0 ELSE @ - 1,
                                           !.retry_in = IF @ = 0 THEN 0 ELSE @ - 1]]
      BY <1>9, Zenon DEF StartTick
    <2>3. /\ runtime' \in [Services -> Runtime]
          /\ \A s \in Services : /\ runtime'[s].started => runtime[s].started
                                 /\ runtime'[s].attempted = runtime[s].attempted
      <3>1. ASSUME NEW s \in Services
            PROVE  /\ runtime'[s] \in Runtime
                   /\ runtime'[s].started = runtime[s].started
                   /\ runtime'[s].attempted = runtime[s].attempted
        <4>1. PICK a \in 0 .. PROBE_INTERVAL, b \in 0 .. RETRY_DELAY :
                 runtime'[s] = [runtime[s] EXCEPT !.probe_in = a, !.retry_in = b]
          <5>1. /\ runtime[s] \in Runtime /\ PROBE_INTERVAL \in Nat /\ RETRY_DELAY \in Nat
                /\ runtime[s].probe_in \in 0 .. PROBE_INTERVAL
                /\ runtime[s].retry_in \in 0 .. RETRY_DELAY
            BY <1>0, SupervisorAssumption DEF Runtime
          <5> DEFINE a == IF runtime[s].probe_in = 0 THEN 0 ELSE runtime[s].probe_in - 1
                     b == IF runtime[s].retry_in = 0 THEN 0 ELSE runtime[s].retry_in - 1
          <5>2. a \in 0 .. PROBE_INTERVAL /\ b \in 0 .. RETRY_DELAY
            BY <5>1
          <5>3. runtime'[s] = [runtime[s] EXCEPT !.probe_in = a, !.retry_in = b]
            BY <2>2, Zenon
          <5> HIDE DEF a, b
          <5> QED BY <5>2, <5>3, Zenon
        <4> QED BY <1>0, <4>1, Zenon DEF Runtime
      <3>2. DOMAIN runtime' = Services /\ runtime' = [s \in Services |-> runtime'[s]]
        BY <2>2, Zenon
      <3> QED BY <3>1, <3>2
    <2>4. ~Waiting'
      BY <2>1 DEF Waiting
    <2> QED BY <2>1, <2>3, <2>4, QuietStep
  <1>10. CASE TickSkip
    BY <1>10, <1>q DEF TickSkip, Waiting
  <1>11. CASE TickRetry
    <2>1. i \in Services /\ specs[i].dep_mask \subseteq launched
      BY <1>0, <1>11 DEF TickRetry, RetryDue, DepsStarted
    <2>2. CASE specs[i].launch_mode = "spawn" /\ RetryDone(CanSpawn(i))
      BY <2>1, <2>2, RetryDoneStep, Zenon DEF CanStart, CanSpawn
    <2>3. CASE specs[i].launch_mode = "fs_exec" /\ SendExec("retry_wait")
      BY <2>1, <2>3, SendExecStep
    <2>4. CASE RetryDone(FALSE)
      BY <2>1, <2>4, RetryDoneStep, Zenon
    <2> QED BY <1>11, <2>2, <2>3, <2>4, Zenon DEF TickRetry
  <1>12. CASE TickProbe
    <2>1. CASE ProbeDone(FALSE)
      BY <1>12, <2>1, ProbeDoneStep, Zenon DEF TickProbe
    <2>2. CASE SendPing
      <3>1. /\ specs' = specs /\ launched' = launched /\ started_mask' = started_mask /\ i' = i
            /\ runtime' = [runtime EXCEPT ![i] = [runtime[i] EXCEPT !.probe_in = PROBE_INTERVAL]]
            /\ pc' = "probe_wait" /\ i \in Services
        BY <1>12, <2>2 DEF SendPing, SendAndWait, TickProbe
      <3>2. /\ runtime' \in [Services -> Runtime]
            /\ \A s \in Services : /\ runtime'[s].started => runtime[s].started
                                   /\ runtime'[s].attempted = runtime[s].attempted
        BY <1>0, <3>1, SupervisorAssumption DEF Runtime
      <3> QED BY <1>0, <3>1, <3>2, QuietStep
    <2> QED BY <1>12, <2>1, <2>2, Zenon DEF TickProbe
  <1>13. CASE TickDone
    BY <1>13, <1>q DEF TickDone, Waiting
  <1> QED
    BY <1>1, <1>2, <1>3, <1>4, <1>5, <1>7, <1>8, <1>9, <1>10, <1>11, <1>12, <1>13
       DEF Next, Step, LoopRecvNothing, LoopRecv

(* The invariant holds in every behaviour of init.                         *)
LEMMA SupCorrect == Spec => []SupInv
  BY SupInit, SupStep, PTL DEF Spec

(* Whatever the boot graph, the services' behaviour and the messages init  *)
(* receives, launch_graph and supervisor_tick attempt no service before    *)
(* all its dependencies have been started.                                 *)
THEOREM DepsFirstTheorem == Spec => []DepsLaunchedFirst
  <1>1. SupInv => DepsLaunchedFirst
    BY DEF SupInv
  <1> QED BY <1>1, SupCorrect, PTL

(* Whatever the boot graph, nothing outside the least set of services it   *)
(* leads to is ever started; a cycle of dependencies stays down.           *)
THEOREM OnlyStartableTheorem == Spec => []OnlyStartable
  <1>1. SupInv => OnlyStartable
    BY DEF SupInv
  <1> QED BY <1>1, SupCorrect, PTL

-----------------------------------------------------------------------------
Up == {s \in Services : runtime[s].started}
Launching == pc \in {"launch", "launch_wait"}
OneShot(s) == specs[s].restart_policy = "one-shot"

(* What LaunchIsComplete says of one service.                              *)
Tried(s) ==
  specs[s].dep_mask \subseteq started_mask =>
    runtime[s].attempted /\ (CanSpawn(s) => runtime[s].started)

Pcs == {"launch", "launch_wait", "loop", "tick", "retry_wait", "probe_wait"}

(* While init launches, its mask is exactly what is up, and in a pass that *)
(* has started nothing every service it has gone by has been tried with    *)
(* the mask as it is.  A one-shot service that was started stays up, and   *)
(* init executes only what is down.                                        *)
LaunchInv ==
  /\ Len(specs) \in Nat /\ Services = 1 .. Len(specs)
  /\ i \in 1 .. Len(specs) + 1 /\ progress \in BOOLEAN /\ tries \in Nat /\ pc \in Pcs
  /\ started_mask \subseteq Services /\ launched \subseteq Services
  /\ Launching => started_mask = Up
  /\ Launching /\ ~progress => \A s \in Services : s < i => Tried(s)
  /\ \A s \in Services : runtime[s].started => runtime[s].attempted
  /\ \A s \in launched : OneShot(s) => runtime[s].started
  /\ pc \in {"launch_wait", "retry_wait"} => ~runtime[i].started

(* It holds when init begins.                                              *)
LEMMA LaunchInit == Init => LaunchInv
  <1> SUFFICES ASSUME Init PROVE LaunchInv
    OBVIOUS
  <1>1. Len(specs) \in Nat /\ Services = 1 .. Len(specs)
    <2>1. PICK cfg \in BootCfgs : specs = parse_boot_graph(cfg)
      BY DEF Init
    <2>2. specs \in Seq(SpecType)
      BY <2>1, CfgsAssumption, ParserReturnsGraph
    <2> QED BY <2>2 DEF Services
  <1>2. \A s \in Services : runtime[s].started = FALSE
    BY DEF Init, NotStarted, Services
  <1>3. Up = {}
    BY <1>2 DEF Up
  <1>4. i = 1 /\ started_mask = {} /\ launched = {} /\ pc = "launch" /\ tries = 0 /\ progress = FALSE
    BY DEF Init
  <1>5. \A s \in Services : ~(s < i)
    BY <1>1, <1>4
  <1>6. i \in 1 .. Len(specs) + 1 /\ tries \in Nat
    BY <1>1, <1>4
  <1>7. progress \in BOOLEAN /\ pc \in Pcs /\ ~(pc \in {"launch_wait", "retry_wait"})
    BY <1>4, Zenon DEF Pcs
  <1> QED BY <1>1, <1>2, <1>3, <1>4, <1>5, <1>6, <1>7 DEF LaunchInv

(* Steps that leave the runtime of every service alone, as far as started  *)
(* and attempted go, outside of launching.                                 *)
LEMMA LoopStep ==
  ASSUME LaunchInv, specs' = specs, launched' = launched, Services' = Services,
         \A s \in Services : /\ runtime'[s].attempted = runtime[s].attempted
                             /\ runtime'[s].started => runtime[s].started
                             /\ OneShot(s) /\ runtime[s].started => runtime'[s].started,
         started_mask' \subseteq Services, i' \in 1 .. Len(specs) + 1,
         progress' \in BOOLEAN, tries' \in Nat,
         pc' \in {"loop", "tick", "probe_wait"}
  PROVE  LaunchInv'
  BY DEF LaunchInv, Launching, OneShot, Pcs

(* The end of an attempt, successful or not.                               *)
LEMMA SpawnDoneLaunch ==
  ASSUME SupInv, LaunchInv, NEW ok \in BOOLEAN, SpawnDone(ok), i \in Services,
         ~runtime[i].started, progress' \in BOOLEAN,
         \/ pc' = "tick" /\ started_mask' = started_mask
         \/ LaunchDone(ok) /\ Launching /\ (~ok => ~CanSpawn(i))
  PROVE  LaunchInv'
  <1>1. /\ specs' = specs /\ Services' = Services /\ i' = i + 1 /\ tries' = 0
        /\ launched' = IF ok THEN launched \cup {i} ELSE launched
    BY DEF SpawnDone, Services
  <1>2. /\ runtime'[i].started = ok /\ runtime'[i].attempted
        /\ \A s \in Services \ {i} : runtime'[s] = runtime[s]
    BY DEF SpawnDone, SupInv, Runtime
  <1>3. i \notin launched \/ ~OneShot(i)
    BY DEF LaunchInv
  <1>4. i + 1 \in 1 .. Len(specs) + 1 /\ 0 \in Nat
    BY DEF LaunchInv
  <1>5. \A s \in launched' : OneShot(s)' => runtime'[s].started
    BY <1>1, <1>2, <1>3 DEF LaunchInv, OneShot
  <1>6. \A s \in Services : runtime'[s].started => runtime'[s].attempted
    BY <1>2 DEF LaunchInv
  <1>7. launched' \subseteq Services
    BY <1>1 DEF LaunchInv
  <1>8. CASE pc' = "tick" /\ started_mask' = started_mask
    BY <1>1, <1>4, <1>5, <1>6, <1>7, <1>8 DEF LaunchInv, Launching, Pcs
  <1>9. CASE LaunchDone(ok) /\ Launching /\ (~ok => ~CanSpawn(i))
    <2>1. /\ started_mask' = IF ok THEN started_mask \cup {i} ELSE started_mask
          /\ progress' = (progress \/ ok) /\ pc' = "launch"
      BY <1>9 DEF LaunchDone
    <2>2. started_mask = Up
      BY <1>9 DEF LaunchInv
    <2>3. started_mask' = Up'
      <3>1. Up' = IF ok THEN Up \cup {i} ELSE Up
        BY <1>1, <1>2 DEF Up
      <3> QED BY <2>1, <2>2, <3>1
    <2>4. ASSUME ~progress', NEW s \in Services, s < i' PROVE Tried(s)'
      <3>1. ~ok /\ ~progress /\ started_mask' = started_mask
        BY <2>1, <2>4, Zenon
      <3>2. CASE s = i
        BY <1>1, <1>2, <1>9, <3>1, <3>2 DEF Tried, CanSpawn
      <3>3. CASE s # i
        <4>1. s < i
          BY <1>1, <2>4, <3>3 DEF LaunchInv
        <4>2. Tried(s)
          BY <1>9, <3>1, <4>1 DEF LaunchInv
        <4> QED BY <1>1, <1>2, <3>1, <3>3, <4>2 DEF Tried, CanSpawn
      <3> QED BY <3>2, <3>3
    <2>5. started_mask' \subseteq Services
      BY <2>1 DEF LaunchInv
    <2> QED BY <1>1, <1>4, <1>5, <1>6, <1>7, <2>1, <2>3, <2>4, <2>5 DEF LaunchInv, Launching, Pcs
  <1> QED BY <1>8, <1>9

(* Sending an exec request changes nothing about what was tried.           *)
LEMMA SendExecLaunch ==
  ASSUME SupInv, LaunchInv, NEW wait \in {"launch_wait", "retry_wait"}, SendExec(wait),
         i \in Services, ~runtime[i].started, wait = "launch_wait" <=> Launching
  PROVE  LaunchInv'
  <1>1. /\ specs' = specs /\ Services' = Services /\ launched' = launched /\ i' = i
        /\ started_mask' = started_mask /\ progress' = progress /\ pc' = wait
        /\ tries' = EXEC_TRIES
        /\ runtime' = [runtime EXCEPT ![i] = [runtime[i] EXCEPT !.attempted = TRUE]]
    BY DEF SendExec, SendAndWait, Services
  <1>2. /\ \A s \in Services : runtime'[s].started = runtime[s].started
        /\ \A s \in Services : runtime[s].attempted => runtime'[s].attempted
    BY <1>1 DEF SupInv, Runtime
  <1>3. Up' = Up
    BY <1>1, <1>2 DEF Up
  <1>4. \A s \in Services : Tried(s) => Tried(s)'
    BY <1>1, <1>2 DEF Tried, CanSpawn
  <1>5. EXEC_TRIES \in Nat
    BY SupervisorAssumption
  <1>6. \A s \in launched : OneShot(s)' => runtime'[s].started
    BY <1>1, <1>2 DEF LaunchInv, OneShot
  <1>7. \A s \in Services : runtime'[s].started => runtime'[s].attempted
    BY <1>2 DEF LaunchInv
  <1>8. Launching' => Launching
    BY <1>1 DEF Launching
  <1>9. Launching' /\ ~progress' => \A s \in Services : s < i' => Tried(s)'
    BY <1>1, <1>4, <1>8 DEF LaunchInv
  <1>10. Launching' => started_mask' = Up'
    BY <1>1, <1>3, <1>8 DEF LaunchInv
  <1> QED BY <1>1, <1>2, <1>5, <1>6, <1>7, <1>9, <1>10 DEF LaunchInv, Pcs

(* A one-shot service is not restarted.                                    *)
LEMMA ProbedOneShot ==
  ASSUME SupInv, NEW s \in Services, NEW ok \in BOOLEAN, OneShot(s), runtime[s].started
  PROVE  Probed(s, ok).started
  <1>1. runtime[s] \in Runtime
    BY DEF SupInv
  <1> DEFINE r == runtime[s]
             streak == IF r.probe_fail_streak < STREAK_MAX THEN r.probe_fail_streak + 1
                                                           ELSE STREAK_MAX
  <1>2. ~Restarts(s, streak)
    BY DEF Restarts, OneShot
  <1>3. \/ Probed(s, ok) = [r EXCEPT !.healthy_once = TRUE, !.probe_fail_streak = 0,
                                     !.probe_in = PROBE_INTERVAL]
        \/ Probed(s, ok) = [r EXCEPT !.probe_fail_streak = streak, !.probe_in = PROBE_INTERVAL]
    BY <1>2, Zenon DEF Probed
  <1> HIDE DEF streak
  <1> QED BY <1>1, <1>3, Zenon DEF Runtime

(* The end of a probe.                                                     *)
LEMMA ProbeDoneLaunch ==
  ASSUME SupInv, LaunchInv, NEW ok \in BOOLEAN, ProbeDone(ok), i \in Services
  PROVE  LaunchInv'
  <1>1. /\ specs' = specs /\ Services' = Services /\ launched' = launched /\ i' = i + 1
        /\ started_mask' = started_mask /\ progress' = progress /\ pc' = "tick" /\ tries' = 0
        /\ runtime' = [runtime EXCEPT ![i] = Probed(i, ok)]
    BY DEF ProbeDone, Services
  <1>2. runtime \in [Services -> Runtime]
    BY DEF SupInv
  <1>3. \A s \in Services : /\ runtime'[s].attempted = runtime[s].attempted
                            /\ runtime'[s].started => runtime[s].started
                            /\ OneShot(s) /\ runtime[s].started => runtime'[s].started
    BY <1>1, <1>2, ProbedRuntime, ProbedOneShot
  <1>4. i' \in 1 .. Len(specs) + 1 /\ started_mask' \subseteq Services /\ progress' \in BOOLEAN
        /\ tries' \in Nat
    BY <1>1 DEF LaunchInv
  <1> QED BY <1>1, <1>3, <1>4, LoopStep

(* Every step of init keeps it.                                            *)
LEMMA LaunchStep == SupInv /\ LaunchInv /\ [Next]_vars => LaunchInv'
  <1> SUFFICES ASSUME SupInv, LaunchInv, [Next]_vars PROVE LaunchInv'
    OBVIOUS
  <1>0. /\ Len(specs) \in Nat /\ Services = 1 .. Len(specs) /\ i \in 1 .. Len(specs) + 1
        /\ started_mask \subseteq Services /\ progress \in BOOLEAN /\ tries \in Nat
        /\ runtime \in [Services -> Runtime]
        /\ Waiting => i \in Services
    BY DEF LaunchInv, SupInv
  <1>s. \A n \in Services : n + 1 \in 1 .. Len(specs) + 1
    BY <1>0
  <1>q. ASSUME specs' = specs, launched' = launched, runtime' = runtime,
               started_mask' = started_mask, progress' = progress, pc' = pc, i' = i,
               tries' \in Nat
        PROVE  LaunchInv'
    BY <1>q DEF LaunchInv, Launching, Up, Tried, OneShot, CanSpawn, Services
  <1>r. ASSUME specs' = specs, launched' = launched, runtime' = runtime, Services' = Services,
               started_mask' = started_mask, progress' = progress, tries' = tries,
               i' \in 1 .. Len(specs) + 1, pc' \in {"loop", "tick"}
        PROVE  LaunchInv'
    BY <1>0, <1>r, LoopStep
  <1>1. CASE UNCHANGED vars
    BY <1>0, <1>1, <1>q DEF vars
  <1>2. CASE LaunchSkip
    <2>1. /\ specs' = specs /\ launched' = launched /\ runtime' = runtime /\ pc = "launch"
          /\ started_mask' = started_mask /\ progress' = progress /\ pc' = pc /\ tries' = tries
          /\ i \in Services /\ i' = i + 1
          /\ i \in started_mask \/ ~(specs[i].dep_mask \subseteq started_mask)
      BY <1>2 DEF LaunchSkip, DepsStarted
    <2>2. Tried(i)
      <3>1. started_mask = Up
        BY <2>1 DEF LaunchInv, Launching
      <3> QED BY <2>1, <3>1 DEF LaunchInv, Tried, Up
    <2>3. ASSUME ~progress, NEW s \in Services, s < i' PROVE Tried(s)
      <3>1. s = i \/ s < i
        BY <1>0, <2>1, <2>3
      <3> QED BY <2>1, <2>2, <2>3, <3>1 DEF LaunchInv, Launching
    <2>4. Services' = Services /\ Up' = Up /\ \A s \in Services : Tried(s) => Tried(s)'
      BY <2>1 DEF Services, Up, Tried, CanSpawn
    <2>5. i' \in 1 .. Len(specs) + 1
      BY <1>s, <2>1
    <2> QED BY <2>1, <2>3, <2>4, <2>5 DEF LaunchInv, Launching, OneShot
  <1>3. CASE LaunchSpawn
    <2>1. pc = "launch" /\ Launching /\ i \in Services /\ i \notin started_mask
      BY <1>3 DEF LaunchSpawn, Launching
    <2>2. ~runtime[i].started
      BY <2>1 DEF LaunchInv, Up
    <2>3. ASSUME NEW ok \in BOOLEAN, LaunchDone(ok), ~ok => ~CanSpawn(i) PROVE LaunchInv'
      <3>1. SpawnDone(ok) /\ progress' \in BOOLEAN
        BY <1>0, <2>3 DEF LaunchDone
      <3> QED BY <2>1, <2>2, <2>3, <3>1, SpawnDoneLaunch
    <2>4. CASE LaunchDone(CanSpawn(i))
      BY <2>3, <2>4, Zenon DEF CanSpawn
    <2>5. CASE specs[i].launch_mode = "fs_exec" /\ SendExec("launch_wait")
      BY <2>1, <2>2, <2>5, SendExecLaunch
    <2>6. CASE specs[i].launch_mode = "fs_exec" /\ LaunchDone(FALSE)
      BY <2>3, <2>6, Zenon DEF CanSpawn
    <2> QED BY <1>3, <2>4, <2>5, <2>6, Zenon DEF LaunchSpawn
  <1>4. CASE LaunchPassDone
    <2>1. /\ specs' = specs /\ launched' = launched /\ runtime' = runtime /\ pc = "launch"
          /\ started_mask' = started_mask /\ tries' = tries /\ Services' = Services
          /\ \/ pc' = "loop" /\ i' = i /\ progress' = progress
             \/ pc' = pc /\ i' = 1 /\ progress' = FALSE
      BY <1>4 DEF LaunchPassDone, Services
    <2>2. CASE pc' = "loop" /\ i' = i /\ progress' = progress
      BY <1>0, <1>r, <2>1, <2>2
    <2>3. CASE pc' = pc /\ i' = 1 /\ progress' = FALSE
      <3>1. \A s \in Services : ~(s < i')
        BY <1>0, <2>3
      <3>2. i' \in 1 .. Len(specs) + 1
        BY <1>0, <2>3
      <3>4. progress' \in BOOLEAN
        BY <2>3, Zenon
      <3>3. Up' = Up
        BY <2>1 DEF Up
      <3> QED BY <2>1, <2>3, <3>1, <3>2, <3>3, <3>4 DEF LaunchInv, Launching, OneShot
    <2> QED BY <2>1, <2>2, <2>3, Zenon
  <1>5. CASE WaitRecvNothing
    <2>1. tries' \in Nat
      BY <1>0, <1>5 DEF WaitRecvNothing
    <2> QED BY <1>5, <2>1, <1>q DEF WaitRecvNothing
  <1>6. ASSUME NEW ok \in BOOLEAN, Waiting, WaitDone(ok) PROVE LaunchInv'
    <2>1. i \in Services
      BY <1>0, <1>6
    <2>2. pc \in {"launch_wait", "retry_wait"} => ~runtime[i].started /\ ~CanSpawn(i)
      BY DEF LaunchInv, SupInv, CanSpawn
    <2>3. CASE pc = "launch_wait" /\ LaunchDone(ok)
      <3>1. SpawnDone(ok) /\ progress' \in BOOLEAN /\ Launching
        BY <1>0, <2>3 DEF LaunchDone, Launching
      <3> QED BY <2>1, <2>2, <2>3, <3>1, SpawnDoneLaunch
    <2>4. CASE pc = "retry_wait" /\ RetryDone(ok)
      BY <1>0, <2>1, <2>2, <2>4, SpawnDoneLaunch DEF RetryDone
    <2>5. CASE pc = "probe_wait" /\ ProbeDone(ok)
      BY <2>1, <2>5, ProbeDoneLaunch
    <2> QED BY <1>6, <2>3, <2>4, <2>5 DEF WaitDone
  <1>7. CASE WaitGiveUp
    BY <1>6, <1>7, Zenon DEF WaitGiveUp
  <1>8. ASSUME NEW m \in Message, WaitRecv(m) PROVE LaunchInv'
    <2>1. CASE WaitDone(TRUE)
      BY <1>6, <1>8, <2>1, Zenon DEF WaitRecv
    <2>2. CASE ~WaitDone(TRUE)
      <3>0. tries > 0 /\ tries' = tries - 1
        BY <1>8, <2>2, Zenon DEF WaitRecv
      <3>1. tries' \in Nat
        BY <1>0, <3>0
      <3> QED BY <1>8, <1>q, <2>2, <3>1, Zenon DEF WaitRecv
    <2> QED BY <2>1, <2>2, Zenon
  <1>9. ASSUME StartTick PROVE LaunchInv'
    <2>1. /\ specs' = specs /\ launched' = launched /\ pc' = "tick" /\ i' = 1
          /\ progress' = progress /\ tries' = tries /\ Services' = Services
          /\ started_mask' \subseteq Services
      BY <1>9, Zenon DEF StartTick, Services
    <2>2. \A s \in Services : /\ runtime'[s].attempted = runtime[s].attempted
                              /\ runtime'[s].started = runtime[s].started
      BY <1>0, <1>9, Zenon DEF StartTick, Runtime
    <2>3. i' \in 1 .. Len(specs) + 1
      BY <1>0, <2>1
    <2> QED BY <1>0, <2>1, <2>2, <2>3, LoopStep
  <1>10. CASE TickSkip
    BY <1>s, <1>10, <1>r DEF TickSkip, Services
  <1>11. CASE TickRetry
    <2>1. i \in Services /\ ~runtime[i].started /\ pc = "tick" /\ ~Launching
      BY <1>11 DEF TickRetry, RetryDue, Launching
    <2>2. ASSUME NEW ok \in BOOLEAN, RetryDone(ok) PROVE LaunchInv'
      BY <1>0, <2>1, <2>2, SpawnDoneLaunch DEF RetryDone
    <2>3. CASE RetryDone(CanSpawn(i))
      BY <2>2, <2>3, Zenon DEF CanSpawn
    <2>4. CASE SendExec("retry_wait")
      BY <2>1, <2>4, SendExecLaunch
    <2>5. CASE RetryDone(FALSE)
      BY <2>2, <2>5, Zenon
    <2> QED BY <1>11, <2>3, <2>4, <2>5, Zenon DEF TickRetry
  <1>12. CASE TickProbe
    <2>1. CASE ProbeDone(FALSE)
      BY <1>12, <2>1, ProbeDoneLaunch, Zenon DEF TickProbe
    <2>2. CASE SendPing
      <3>1. /\ specs' = specs /\ launched' = launched /\ started_mask' = started_mask /\ i' = i
            /\ runtime' = [runtime EXCEPT ![i] = [runtime[i] EXCEPT !.probe_in = PROBE_INTERVAL]]
            /\ pc' = "probe_wait" /\ progress' = progress /\ tries' = PING_TRIES
            /\ Services' = Services /\ i \in Services
        BY <1>12, <2>2 DEF SendPing, SendAndWait, TickProbe, Services
      <3>2. \A s \in Services : /\ runtime'[s].started = runtime[s].started
                                /\ runtime'[s].attempted = runtime[s].attempted
        BY <1>0, <3>1 DEF Runtime
      <3>3. tries' \in Nat
        BY <3>1, SupervisorAssumption
      <3> QED BY <1>0, <3>1, <3>2, <3>3, LoopStep
    <2> QED BY <1>12, <2>1, <2>2, Zenon DEF TickProbe
  <1>13. CASE TickDone
    BY <1>0, <1>13, <1>r DEF TickDone, Services
  <1> QED
    BY <1>1, <1>2, <1>3, <1>4, <1>5, <1>7, <1>8, <1>9, <1>10, <1>11, <1>12, <1>13
       DEF Next, Step, LoopRecvNothing, LoopRecv

(* Both invariants together.                                               *)
LEMMA LaunchCorrect == Spec => [](SupInv /\ LaunchInv)
  BY SupInit, SupStep, LaunchInit, LaunchStep, PTL DEF Spec

(* Whatever the boot graph, launch_graph hands over only when there is     *)
(* nothing left to try.                                                    *)
THEOREM LaunchTheorem == Spec => LaunchIsComplete
  <1>1. SupInv /\ LaunchInv /\ [Next]_vars =>
          (pc = "launch" /\ pc' = "loop" =>
             \A s \in Services :
               specs[s].dep_mask \subseteq {d \in Services : runtime[d].started}
               => runtime[s].attempted /\ (CanSpawn(s) => runtime[s].started))
    <2> SUFFICES ASSUME SupInv, LaunchInv, [Next]_vars, pc = "launch", pc' = "loop",
                        NEW s \in Services, specs[s].dep_mask \subseteq Up
                 PROVE  runtime[s].attempted /\ (CanSpawn(s) => runtime[s].started)
      BY DEF Up
    <2>1. LaunchPassDone
      BY DEF Next, Step, LaunchSkip, LaunchSpawn, LaunchDone, SendExec, SendAndWait,
             WaitRecvNothing, WaitGiveUp, Waiting, WaitRecv, LoopRecv, LoopRecvNothing, StartTick,
             TickSkip, TickRetry, TickProbe, TickDone, vars
    <2>2. started_mask = Up /\ i \notin Services /\ (started_mask = Services \/ ~progress)
      BY <2>1 DEF LaunchPassDone, LaunchInv, Launching
    <2>3. CASE started_mask = Services
      BY <2>2, <2>3 DEF LaunchInv, Up
    <2>4. CASE ~progress
      <3>1. s < i
        BY <2>2 DEF LaunchInv
      <3> QED BY <2>2, <2>4, <3>1 DEF LaunchInv, Launching, Tried
    <2> QED BY <2>2, <2>3, <2>4
  <1> QED BY <1>1, LaunchCorrect, PTL DEF Spec, LaunchIsComplete

(* An exec request is sent for a service that is down only.                *)
LEMMA ExecsWhatIsDown ==
  ASSUME SupInv, LaunchInv, Next, sent' # sent, sent'.msg = "EXEC"
  PROVE  i \in Services /\ ~runtime[i].started
  <1>1. /\ NoSend.msg # "EXEC"
        /\ \A a, b : [to |-> a, msg |-> "OK", cap |-> b].msg # "EXEC"
        /\ \A a, b : [to |-> a, msg |-> "ENOENT", cap |-> b].msg # "EXEC"
        /\ \A a, b : [to |-> a, msg |-> "PING", cap |-> b].msg # "EXEC"
    BY DEF NoSend
  <1>2. \A ok \in BOOLEAN : ~LaunchDone(ok) /\ ~RetryDone(ok) /\ ~ProbeDone(ok)
    BY <1>1 DEF LaunchDone, RetryDone, ProbeDone, SpawnDone
  <1>3. \A ok \in BOOLEAN : ~WaitDone(ok)
    BY <1>2 DEF WaitDone
  <1>4. \A m \in Message : ~handle_control_plane_msg(m)
    <2> SUFFICES ASSUME NEW m \in Message, handle_control_plane_msg(m) PROVE FALSE
      OBVIOUS
    <2>1. \/ sent' = [to |-> m.cap, msg |-> "OK", cap |-> Found(registry, m.name)]
          \/ sent' = [to |-> m.cap, msg |-> "OK", cap |-> 0]
          \/ sent' = [to |-> m.cap, msg |-> "ENOENT", cap |-> 0]
          \/ sent' = NoSend
      BY Zenon DEF handle_control_plane_msg
    <2> QED BY <1>1, <2>1
  <1>5. ~SendPing
    BY <1>1 DEF SendPing, SendAndWait
  <1>6. CASE LaunchSpawn
    <2>1. pc = "launch" /\ i \in Services /\ i \notin started_mask
      BY <1>6 DEF LaunchSpawn
    <2> QED BY <2>1 DEF LaunchInv, Launching, Up
  <1>7. CASE TickRetry
    BY <1>7 DEF TickRetry, RetryDue
  <1>8. ~TickProbe /\ ~WaitGiveUp /\ \A m \in Message : ~WaitRecv(m) /\ ~LoopRecv(m)
    BY <1>2, <1>3, <1>4, <1>5, Zenon DEF TickProbe, WaitGiveUp, WaitRecv, LoopRecv
  <1>9. ~LaunchSkip /\ ~LaunchPassDone /\ ~WaitRecvNothing /\ ~LoopRecvNothing /\ ~TickSkip /\ ~TickDone
    BY <1>1 DEF LaunchSkip, LaunchPassDone, WaitRecvNothing, LoopRecvNothing, TickSkip, TickDone
  <1> QED BY <1>6, <1>7, <1>8, <1>9 DEF Next, Step

(* Whatever the boot graph and whatever init receives, a one-shot service  *)
(* that was started stays started and is not executed again.               *)
THEOREM OneShotTheorem == Spec => OneShotRunsOnce
  <1>1. SupInv /\ LaunchInv /\ LaunchInv' /\ [Next]_vars =>
          [\A s \in launched : specs[s].restart_policy = "one-shot" =>
             /\ runtime'[s].started
             /\ ~(i = s /\ sent # sent' /\ sent'.msg = "EXEC")]_vars
    <2> SUFFICES ASSUME SupInv, LaunchInv, LaunchInv', Next,
                        NEW s \in launched, OneShot(s)
                 PROVE  runtime'[s].started /\ ~(i = s /\ sent # sent' /\ sent'.msg = "EXEC")
      BY DEF OneShot
    <2>1. specs' = specs /\ launched \subseteq launched'
      BY Zenon DEF Next, Step, LaunchSkip, LaunchSpawn, LaunchPassDone, LaunchDone, RetryDone, ProbeDone,
             SpawnDone, SendExec, SendPing, SendAndWait, WaitRecvNothing, WaitGiveUp, WaitDone,
             WaitRecv, LoopRecv, LoopRecvNothing, StartTick, TickSkip, TickRetry, TickProbe, TickDone
    <2>2. runtime'[s].started /\ runtime[s].started
      BY <2>1 DEF LaunchInv, OneShot
    <2> QED BY <2>2, ExecsWhatIsDown
  <1> QED BY <1>1, LaunchCorrect, PTL DEF Spec, OneShotRunsOnce

-----------------------------------------------------------------------------
Slots == 1 .. MAX_SERVICES

(* init's registry is an array of MAX_SERVICES slots.                      *)
IsTable(e) == DOMAIN e = Slots /\ e = [k \in Slots |-> e[k]]

RegInv == IsTable(registry) /\ UniqueIn(registry)

(* A slot of its own, or a hole for a name that is in no slot.             *)
Writable(e, name, k) == matches(e[k], name) \/ (~e[k].in_use /\ Matching(e, name) = {})

(* Writing there keeps names unique, and loses none.                       *)
LEMMA WriteSlot ==
  ASSUME NEW e, IsTable(e), UniqueIn(e), NEW name, NEW k \in Slots, Writable(e, name, k),
         NEW new, new.in_use = TRUE, new.name = name,
         NEW f, f = [e EXCEPT ![k] = new]
  PROVE  IsTable(f) /\ UniqueIn(f) /\ NamesIn(e) \subseteq NamesIn(f)
  <1>1. /\ DOMAIN e = Slots /\ IsTable(f) /\ DOMAIN f = Slots /\ f[k] = new
        /\ \A j \in Slots \ {k} : f[j] = e[j]
    BY DEF IsTable
  <1>2. \A j \in Slots \ {k} : ~(e[j].in_use /\ e[j].name = name)
    BY <1>1 DEF Writable, Matching, matches, UniqueIn, UsedSlots
  <1>3. ASSUME NEW a \in Slots, NEW b \in Slots, f[a].in_use, f[b].in_use, f[a].name = f[b].name
        PROVE  a = b
    <2>1. CASE a # k /\ b # k
      BY <1>1, <1>3, <2>1 DEF UniqueIn, UsedSlots
    <2>2. CASE a = k \/ b = k
      BY <1>1, <1>2, <1>3, <2>2
    <2> QED BY <2>1, <2>2
  <1>4. ASSUME NEW n \in NamesIn(e) PROVE n \in NamesIn(f)
    <2>1. PICK j \in Slots : e[j].in_use /\ e[j].name = n
      BY <1>1, <1>4 DEF NamesIn, UsedSlots
    <2>2. CASE j = k
      BY <1>1, <2>1, <2>2 DEF NamesIn, UsedSlots, Writable, matches
    <2>3. CASE j # k
      BY <1>1, <2>1, <2>3 DEF NamesIn, UsedSlots
    <2> QED BY <2>2, <2>3
  <1> QED BY <1>1, <1>3, <1>4, Zenon DEF UniqueIn, UsedSlots

(* ServiceRegistry::register of init.                                      *)
LEMMA StoredKeeps ==
  ASSUME NEW e, IsTable(e), UniqueIn(e), NEW name, NEW o, NEW h, NEW f, f = Stored(e, name, o, h)
  PROVE  IsTable(f) /\ UniqueIn(f) /\ NamesIn(e) \subseteq NamesIn(f)
  <1>1. CASE IsFull(e, name)
    BY <1>1 DEF Stored
  <1>2. CASE ~IsFull(e, name)
    <2> DEFINE S == IF Matching(e, name) # {} THEN Matching(e, name) ELSE Unused(e)
               new == [in_use |-> TRUE, owner_pid |-> o, handle |-> h, name |-> name]
    <2>1. S \in SUBSET Slots /\ S # {}
      BY <1>2 DEF IsFull, Matching, Unused, IsTable
    <2>2. Slots \subseteq Nat
      BY BootGraphAssumption DEF Slots
    <2>3. Min(S) \in S
      BY <2>1, <2>2, MinIsLeast
    <2>4. PICK k \in Slots : k = Min(S)
      BY <2>1, <2>3
    <2>5. Writable(e, name, k)
      BY <2>3, <2>4 DEF Writable, Matching, Unused
    <2>6. f = [e EXCEPT ![k] = new]
      BY <1>2, <2>4, Zenon DEF Stored
    <2>7. new.in_use = TRUE /\ new.name = name
      OBVIOUS
    <2> HIDE DEF new, S
    <2> QED BY <2>5, <2>6, <2>7, WriteSlot, Zenon
  <1> QED BY <1>1, <1>2

(* _start enters init itself and device_manager.                           *)
LEMMA RegInit == Init => RegInv
  <1> SUFFICES ASSUME Init PROVE RegInv
    OBVIOUS
  <1> DEFINE e == [k \in Slots |-> empty]
             f == Stored(e, "init", 1, LocalEndpoint)
  <1>1. IsTable(e) /\ UniqueIn(e)
    BY DEF IsTable, UniqueIn, UsedSlots, empty
  <1>2. registry = Stored(f, "device_manager", 1, LocalEndpoint)
    BY DEF Init, Slots
  <1> HIDE DEF e
  <1>3. IsTable(f) /\ UniqueIn(f)
    BY <1>1, StoredKeeps
  <1> HIDE DEF f
  <1> QED BY <1>2, <1>3, StoredKeeps DEF RegInv

(* Only control messages change the registry.                              *)
LEMMA RegStep ==
  RegInv /\ [Next]_vars => RegInv' /\ NamesIn(registry) \subseteq NamesIn(registry')
  <1> SUFFICES ASSUME RegInv, [Next]_vars
               PROVE  RegInv' /\ NamesIn(registry) \subseteq NamesIn(registry')
    OBVIOUS
  <1>1. ASSUME NEW m \in Message, handle_control_plane_msg(m)
        PROVE  RegInv' /\ NamesIn(registry) \subseteq NamesIn(registry')
    <2>1. registry' = Stored(registry, m.name, m.from, m.cap) \/ registry' = registry
      BY <1>1, Zenon DEF handle_control_plane_msg
    <2> QED BY <2>1, StoredKeeps DEF RegInv
  <1>2. CASE registry' = registry
    BY <1>2 DEF RegInv
  <1>3. (\E m \in Message : handle_control_plane_msg(m)) \/ registry' = registry
    BY Zenon DEF Next, Step, LaunchSkip, LaunchSpawn, LaunchPassDone, LaunchDone, RetryDone, ProbeDone,
           SpawnDone, SendExec, SendPing, SendAndWait, WaitRecvNothing, WaitGiveUp, WaitDone,
           WaitRecv, LoopRecv, LoopRecvNothing, StartTick, TickSkip, TickRetry, TickProbe, TickDone, vars
  <1> QED BY <1>1, <1>2, <1>3

(* Whatever arrives at init, its registry holds a name once and for good.  *)
THEOREM RegistryTheorem == Spec => RegistryKeepsNames
  <1>1. RegInv /\ [Next]_vars =>
          [UniqueIn(registry') /\ NamesIn(registry) \subseteq NamesIn(registry')]_vars
    BY RegStep DEF RegInv
  <1>2. Spec => []RegInv
    BY RegInit, RegStep, PTL DEF Spec
  <1> QED BY <1>1, <1>2, PTL DEF Spec, RegistryKeepsNames

(* The runtime table, the loop indices and the registry keep their types   *)
(* and bounds for every boot graph: no loop of init leaves its array.      *)
THEOREM SupervisorTypes == Spec => []TypeOK
  <1>1. SupInv /\ LaunchInv /\ RegInv => TypeOK
    BY DEF SupInv, LaunchInv, RegInv, IsTable, Slots, TypeOK, Pcs
  <1>2. Spec => []RegInv
    BY RegInit, RegStep, PTL DEF Spec
  <1> QED BY <1>1, <1>2, LaunchCorrect, PTL

(* Without a message, specs and registry stay as they are, and init waits   *)
(* for the answer to a probe only after it has found a handle to probe.     *)
LEMMA StepKeeps ==
  ASSUME Step
  PROVE  /\ specs' = specs /\ registry' = registry
         /\ pc # "probe_wait" /\ pc' = "probe_wait" =>
              i \in Services /\ Found(registry, specs[i].name) # 0
  BY Zenon DEF Step, LaunchSkip, LaunchSpawn, LaunchPassDone, LaunchDone, RetryDone, ProbeDone,
         SpawnDone, SendExec, SendPing, SendAndWait, WaitRecvNothing, WaitGiveUp, WaitDone,
         LoopRecvNothing, StartTick, TickSkip, TickRetry, TickProbe, TickDone

(* A message does not change the boot graph either.                        *)
LEMMA SpecsStay == [Next]_vars => specs' = specs
  <1>1. Step => specs' = specs
    BY StepKeeps
  <1>2. ASSUME NEW m \in Message, WaitRecv(m) \/ LoopRecv(m) PROVE specs' = specs
    BY <1>2, Zenon DEF WaitRecv, LoopRecv, StartTick, WaitDone, LaunchDone, RetryDone, ProbeDone,
                       SpawnDone
  <1>3. UNCHANGED vars => specs' = specs
    BY DEF vars
  <1> QED BY <1>1, <1>2, <1>3, Zenon DEF Next

(* From the text of boot.toml to what init does: a section's service is    *)
(* not attempted before the service of every section that its depends_on   *)
(* names has been started.  Of several sections with the name that is the  *)
(* first, and sections that make no service do not count.                  *)
ReadFrom(config) == specs = parse_boot_graph(config)

DependsOnHolds ==
  /\ \E config \in BootCfgs : ReadFrom(config)
  /\ \A config \in BootCfgs : ReadFrom(config) =>
       \A p, g \in Kept(config) :
         /\ runtime[Rank(Kept(config), p)].attempted
         /\ config[g].v \in Range(DepNames(config, p))
         /\ \A f \in Kept(config) : config[f].v = config[g].v => g <= f
         => \E s \in launched : /\ specs[s].name = config[g].v
                                /\ specs[s].binary = Value(config, g, "binary", NoName)

(* DependsOnHolds, of every set of configurations: what the parser proves  *)
(* of the graph and what the supervisor proves of running it, put together.*)
THEOREM DependsOnTheorem == Spec => []DependsOnHolds
  <1> DEFINE Read == \E config \in BootCfgs : ReadFrom(config)
  <1>1. Init => Read
    BY Zenon DEF Init, ReadFrom
  <1>2. Read /\ [Next]_vars => Read'
    BY SpecsStay, Zenon DEF ReadFrom
  <1>3. ASSUME Read, DepsLaunchedFirst PROVE DependsOnHolds
    <2> SUFFICES ASSUME NEW config \in BootCfgs, ReadFrom(config),
                        NEW p \in Kept(config), NEW g \in Kept(config),
                        runtime[Rank(Kept(config), p)].attempted,
                        config[g].v \in Range(DepNames(config, p)),
                        \A f \in Kept(config) : config[f].v = config[g].v => g <= f
                 PROVE  \E s \in launched :
                          /\ specs[s].name = config[g].v
                          /\ specs[s].binary = Value(config, g, "binary", NoName)
      BY <1>3, Zenon DEF DependsOnHolds
    <2>1. specs = parse_boot_graph(config)
      BY DEF ReadFrom
    <2> DEFINE K == Kept(config)
               At(q) == Rank(K, q)
               Is(q) == [Said(config, q) EXCEPT !.dep_mask = Deps(config, q)]
    <2>2. config \in Seq(Lines)
      BY CfgsAssumption
    <2>3. Len(specs) = Cardinality(K) /\ \A q \in K : specs[At(q)] = Is(q)
      BY <2>1, <2>2, ParserReads
    <2>4. \A q \in K : At(q) \in Services
      <3>1. K \in SUBSET Nat /\ IsFiniteSet(K)
        BY <2>2, HeadFacts, LeadingFacts DEF Kept
      <3>2. \A q \in K : At(q) \in 1 .. Cardinality(K)
        BY <3>1, RankFacts
      <3>3. specs \in Seq(SpecType)
        BY <2>1, <2>2, ParserReturnsGraph
      <3> HIDE DEF K, At
      <3> QED BY <2>3, <3>2, <3>3 DEF Services
    <2>5. ASSUME NEW q \in K
          PROVE  /\ Is(q).dep_mask = Deps(config, q) /\ Is(q).name = config[q].v
                 /\ Is(q).binary = Value(config, q, "binary", NoName)
      BY DEF Said
    <2>6. At(g) \in Deps(config, p)
      BY Zenon DEF Deps
    <2>7. specs[At(p)].dep_mask \subseteq launched
      BY <1>3, <2>4, Zenon DEF DepsLaunchedFirst
    <2>8. p \in K /\ g \in K
      OBVIOUS
    <2> HIDE DEF K, At, Is
    <2>9. At(g) \in launched
      BY <2>3, <2>5, <2>6, <2>7, <2>8, Zenon
    <2> QED BY <2>3, <2>5, <2>8, <2>9, Zenon
  <1>4. Spec => []DepsLaunchedFirst
    BY DepsFirstTheorem
  <1> QED BY <1>1, <1>2, <1>3, <1>4, PTL DEF Spec

-----------------------------------------------------------------------------
(* The boot: BootSystem.                                                   *)

(* init's side of every step is a step of Supervisor that receives nothing. *)
LEMMA InitIsStep == ASSUME InitStep PROVE Step
  BY DEF InitStep, InitStarts, InitProbes, InitGivesUp, InitLaunched, InitMoves, InitWaits, Step

(* Seen from init, the system is a Supervisor: programs do not touch it.   *)
LEMMA SystemRefines == [SystemNext]_<<vars, sysVars>> => [Next]_vars
  <1>1. ASSUME NEW p \in 2 .. MaxPid, Program(p) PROVE UNCHANGED vars
    BY <1>1 DEF Program, ProgramStep, Serve
  <1>2. InitStep => Next
    BY InitIsStep DEF Next
  <1>3. UNCHANGED <<vars, sysVars>> => UNCHANGED vars
    OBVIOUS
  <1> QED BY <1>1, <1>2, <1>3, Zenon DEF SystemNext

(* So its invariants hold here too.                                        *)
LEMMA SystemSupCorrect == SystemSpec => [](SupInv /\ LaunchInv)
  <1>1. SystemInit => Init
    BY DEF SystemInit
  <1> QED BY <1>1, SystemRefines, SupInit, SupStep, LaunchInit, LaunchStep, PTL DEF SystemSpec

(* A message to another handle than init's leaves init's queue alone.      *)
LEMMA DeliveredElsewhere ==
  ASSUME NEW eps, 1 \in DOMAIN eps, NEW from, NEW to, to # 1, NEW kind, NEW name
  PROVE  /\ DOMAIN Delivered(eps, from, to, kind, name) = DOMAIN eps
         /\ Delivered(eps, from, to, kind, name)[1] = eps[1]
  BY DEF Delivered

(* No program sends to init's pid.                                         *)
Sendable == [to : {0, 2, 6}, kind : {"other", "register", "take", "query"},
             name : {NoName, "serial", "virtio_blk", "fs", "pci.ecam_base",
                     "virtio_blk.mmio_base", "virtio_blk.mmio_size"}]

LEMMA ScriptSends == ASSUME NEW binary PROVE Script(binary) \in Seq(Sendable)
  <1>1. /\ sys_log \in Sendable /\ Take \in Sendable
        /\ \A n \in {"serial", "virtio_blk", "fs"} : ctl_register_service(n) \in Sendable
        /\ \A n \in {"pci.ecam_base", "virtio_blk.mmio_base", "virtio_blk.mmio_size"} :
             Sends(InitEndpoint, "query", n) \in Sendable
    BY DEF sys_log, Take, ctl_register_service, Sends, Sendable, SerialEndpoint, InitEndpoint
  <1>2. /\ \A a \in Sendable : <<a>> \in Seq(Sendable)
        /\ \A a, b \in Sendable : <<a, b>> \in Seq(Sendable)
        /\ \A a, b \in Seq(Sendable) : a \o b \in Seq(Sendable)
    OBVIOUS
  <1>3. \A n \in {"pci.ecam_base", "virtio_blk.mmio_base", "virtio_blk.mmio_size"} :
          Query(n) \in Seq(Sendable)
    BY <1>1, <1>2 DEF Query
  <1> HIDE DEF Sendable
  <1> DEFINE S == Seq(Sendable)
  <1>4. /\ <<sys_log>> \in S /\ <<ctl_register_service("serial")>> \in S
        /\ <<sys_log, ctl_register_service("virtio_blk")>> \in S
        /\ <<ctl_register_service("fs"), sys_log>> \in S
    BY <1>1, <1>2, Zenon
  <1>5. /\ Query("pci.ecam_base") \in S /\ Query("virtio_blk.mmio_base") \in S
        /\ Query("virtio_blk.mmio_size") \in S
    BY <1>3
  <1>6. <<sys_log, ctl_register_service("virtio_blk")>> \o Query("pci.ecam_base") \o <<sys_log>>
           \o Query("virtio_blk.mmio_base") \o Query("virtio_blk.mmio_size") \o <<sys_log>> \in S
    BY <1>2, <1>4, <1>5, Zenon
  <1> QED BY <1>4, <1>6 DEF Script

(* What can run.                                                           *)
Binaries == {"/boot/init"} \cup {specs[s].binary : s \in Services}

(* Every process has a queue and a place in its script; init's queue is    *)
(* empty, and so its registry stays without the services: no probe is ever *)
(* sent.                                                                   *)
QueueInv ==
  /\ app \in Seq(Binaries) /\ at \in Seq(Nat \ {0}) /\ Len(app) >= 1 /\ Len(at) = Len(app)
  /\ DOMAIN endpoints = 1 .. Len(app) /\ endpoints[1] = <<>>
  /\ \A s \in Services : Found(registry, specs[s].name) = 0
  /\ pc # "probe_wait"

(* Registering a name does not make another one known.                     *)
LEMMA StoredOther ==
  ASSUME NEW e, NEW n, Matching(e, n) = {}, NEW name, name # n, NEW o, NEW h
  PROVE  Matching(Stored(e, name, o, h), n) = {}
  <1> DEFINE new == [in_use |-> TRUE, owner_pid |-> o, handle |-> h, name |-> name]
             k == Min(IF Matching(e, name) # {} THEN Matching(e, name) ELSE Unused(e))
             f == [e EXCEPT ![k] = new]
  <1>1. Stored(e, name, o, h) = e \/ Stored(e, name, o, h) = f
    BY Zenon DEF Stored
  <1>2. new.name = name
    OBVIOUS
  <1> HIDE DEF new, k
  <1>3. Matching(f, n) = {}
    BY <1>2 DEF Matching, matches
  <1> QED BY <1>1, <1>3, Zenon

(* At the start the registry knows two names, neither of a service.        *)
LEMMA QueueInit == SystemInit => QueueInv
  <1> SUFFICES ASSUME SystemInit PROVE QueueInv
    OBVIOUS
  <1>1. ASSUME NEW s \in Services PROVE Found(registry, specs[s].name) = 0
    <2>1. specs[s].name \notin {"init", "device_manager"}
      BY <1>1, NamesAssumption DEF SystemInit, Init, Services
    <2> DEFINE e == [k \in 1 .. MAX_SERVICES |-> empty]
               f == Stored(e, "init", 1, LocalEndpoint)
    <2>2. registry = Stored(f, "device_manager", 1, LocalEndpoint)
      BY DEF SystemInit, Init
    <2>3. Matching(e, specs[s].name) = {}
      BY Zenon DEF Matching, matches, empty
    <2> HIDE DEF e
    <2>4. Matching(f, specs[s].name) = {}
      BY <2>1, <2>3, StoredOther
    <2> HIDE DEF f
    <2>5. Matching(registry, specs[s].name) = {}
      BY <2>1, <2>2, <2>4, StoredOther
    <2> QED BY <2>5 DEF Found
  <1>2. /\ app \in Seq(Binaries) /\ at \in Seq(Nat \ {0}) /\ Len(app) >= 1 /\ Len(at) = Len(app)
        /\ DOMAIN endpoints = 1 .. Len(app) /\ endpoints[1] = <<>> /\ pc # "probe_wait"
    BY DEF SystemInit, Init, Binaries
  <1> QED BY <1>1, <1>2 DEF QueueInv

(* A program's step: it sends to serial or to a process that it takes for  *)
(* init, or takes from its own queue.                                      *)
LEMMA ProgramQueue == ASSUME QueueInv, NEW p \in 2 .. MaxPid, Program(p) PROVE QueueInv'
  <1>0. /\ app \in Seq(Binaries) /\ at \in Seq(Nat \ {0}) /\ Len(app) >= 1 /\ Len(at) = Len(app)
        /\ DOMAIN endpoints = 1 .. Len(app) /\ endpoints[1] = <<>> /\ pc # "probe_wait"
        /\ \A s \in Services : Found(registry, specs[s].name) = 0
    BY DEF QueueInv
  <1>1. p \in 2 .. Len(app) /\ UNCHANGED vars /\ app' = app
    BY DEF Program, ProgramStep, Serve, IsService
  <1>2. specs' = specs /\ registry' = registry /\ pc' = pc /\ Services' = Services /\ Binaries' = Binaries
    BY <1>1 DEF vars, Services, Binaries
  <1>3. Drop(p) => DOMAIN endpoints' = DOMAIN endpoints /\ endpoints'[1] = endpoints[1]
    BY <1>1 DEF Drop
  <1>4. CASE Serve(p)
    <2>1. at' = at /\ DOMAIN endpoints' = DOMAIN endpoints /\ endpoints'[1] = endpoints[1]
      BY <1>3, <1>4 DEF Serve
    <2> QED BY <1>0, <1>1, <1>2, <2>1 DEF QueueInv
  <1>5. CASE ProgramStep(p)
    <2> DEFINE sc == Script(app[p])
    <2>1. sc \in Seq(Sendable)
      BY ScriptSends
    <2>2. at[p] \in Nat \ {0} /\ at[p] <= Len(sc)
      BY <1>0, <1>1, <1>5, <2>1 DEF ProgramStep, Serving
    <2>3. sc[at[p]] \in Sendable
      BY <2>1, <2>2
    <2>4. sc[at[p]].to # 1
      <3> HIDE DEF sc
      <3>1. ASSUME NEW m \in Sendable PROVE m.to # 1
        <4>1. m.to \in {0, 2, 6}
          BY DEF Sendable
        <4> QED BY <4>1
      <3> QED BY <2>3, <3>1, Zenon
    <2>5. DOMAIN endpoints' = DOMAIN endpoints /\ endpoints'[1] = endpoints[1]
      <3> HIDE DEF sc
      <3> DEFINE m == sc[at[p]]
      <3>1. Drop(p) \/ endpoints' = Delivered(endpoints, p, m.to, m.kind, m.name)
        BY <1>5, Zenon DEF ProgramStep, sc
      <3> QED BY <1>0, <1>3, <2>4, <3>1, DeliveredElsewhere
    <2>6. at' \in Seq(Nat \ {0}) /\ Len(at') = Len(at)
      <3>1. Len(sc) \in Nat \ {0}
        BY <2>1, <2>2
      <3>2. at' = [at EXCEPT ![p] = at[p] + 1] \/ at' = [at EXCEPT ![p] = Len(sc)]
        BY <1>5 DEF ProgramStep
      <3>3. PICK n \in Nat \ {0} : at' = [at EXCEPT ![p] = n]
        BY <2>2, <3>1, <3>2
      <3> QED BY <1>0, <1>1, <3>3
    <2> QED BY <1>0, <1>1, <1>2, <2>5, <2>6 DEF QueueInv
  <1> QED BY <1>4, <1>5 DEF Program

(* init sends to the console or to the handle of fs, never to its own.     *)
LEMMA StartSends ==
  ASSUME InitStarts
  PROVE  \/ \E b \in Binaries : sys_spawn(b)
         \/ app' = app /\ at' = at /\ endpoints' = endpoints
         \/ app' = app /\ at' = at /\ InitSends /\ sent'.to # 1
  <1>1. i \in Services
    BY Zenon DEF InitStarts, LaunchSpawn, TickRetry
  <1>2. CASE specs[i].launch_mode = "fs_exec"
    <2> DEFINE exec == [to |-> FsEndpoint, msg |-> "EXEC", cap |-> LocalEndpoint]
    <2>1. NoSend.to # 1 /\ exec.to # 1
      BY DEF NoSend, FsEndpoint
    <2> HIDE DEF exec
    <2>2. sent' = NoSend \/ sent' = exec
      BY <1>2, Zenon DEF InitStarts, LaunchSpawn, TickRetry, LaunchDone, RetryDone, SpawnDone,
                         SendExec, SendAndWait, exec
    <2> QED BY <1>2, <2>1, <2>2, Zenon DEF InitStarts
  <1>3. CASE specs[i].launch_mode # "fs_exec" /\ CanSpawn(i)
    BY <1>1, <1>3, Zenon DEF InitStarts, Binaries
  <1>4. CASE specs[i].launch_mode # "fs_exec" /\ ~CanSpawn(i)
    BY <1>4, Zenon DEF InitStarts, sysVars
  <1> QED BY <1>2, <1>3, <1>4

(* A service that is probed is not registered: nothing is sent.            *)
LEMMA ProbeSends == ASSUME QueueInv, InitProbes PROVE sent'.to # 1
  <1>1. NoSend.to # 1
    BY DEF NoSend
  <1>2. sent' = NoSend
    BY Zenon DEF InitProbes, TickProbe, ProbeDone, QueueInv
  <1> QED BY <1>1, <1>2, Zenon

(* One case per kind of step of init.                                      *)
LEMMA InitQueue == ASSUME QueueInv, InitStep PROVE QueueInv'
  <1>0. /\ app \in Seq(Binaries) /\ at \in Seq(Nat \ {0}) /\ Len(app) >= 1 /\ Len(at) = Len(app)
        /\ DOMAIN endpoints = 1 .. Len(app) /\ endpoints[1] = <<>> /\ pc # "probe_wait"
        /\ \A s \in Services : Found(registry, specs[s].name) = 0
    BY DEF QueueInv
  <1>1. /\ specs' = specs /\ registry' = registry /\ pc' # "probe_wait"
        /\ Services' = Services /\ Binaries' = Binaries
    BY <1>0, InitIsStep, StepKeeps DEF Services, Binaries
  <1>2. ASSUME NEW b \in Binaries, sys_spawn(b) PROVE QueueInv'
    <2>1. /\ app' \in Seq(Binaries) /\ at' \in Seq(Nat \ {0}) /\ Len(app') = Len(app) + 1
          /\ Len(at') = Len(at) + 1
      BY <1>0, <1>2 DEF sys_spawn
    <2>2. DOMAIN endpoints' = DOMAIN endpoints \cup {Len(app')} /\ endpoints'[1] = endpoints[1]
      BY <1>0, <1>2, <2>1 DEF sys_spawn, init_process, MapInsert
    <2> QED BY <1>0, <1>1, <2>1, <2>2 DEF QueueInv
  <1>3. ASSUME DOMAIN endpoints' = DOMAIN endpoints, endpoints'[1] = endpoints[1], app' = app, at' = at
        PROVE  QueueInv'
    BY <1>0, <1>1, <1>3 DEF QueueInv
  <1>s. SerialEndpoint # 1
    BY DEF SerialEndpoint
  <1>4. ASSUME NEW eps, 1 \in DOMAIN eps
        PROVE  DOMAIN LogRestart(eps) = DOMAIN eps /\ LogRestart(eps)[1] = eps[1]
    <2>1. CASE LogRestart(eps) = eps
      BY <2>1
    <2>2. CASE LogRestart(eps) = Delivered(eps, 1, SerialEndpoint, "other", NoName)
      BY <1>s, <1>4, <2>2, DeliveredElsewhere
    <2> QED BY <2>1, <2>2 DEF LogRestart
  <1>5. CASE InitStarts
    <2>1. CASE \E b \in Binaries : sys_spawn(b)
      BY <1>2, <2>1
    <2>2. CASE app' = app /\ at' = at /\ endpoints' = endpoints
      BY <1>3, <2>2
    <2>3. CASE app' = app /\ at' = at /\ InitSends /\ sent'.to # 1
      BY <1>3, <1>0, <2>3, DeliveredElsewhere DEF InitSends
    <2> QED BY <1>5, <2>1, <2>2, <2>3, StartSends
  <1>6. CASE InitProbes
    <2> DEFINE eps == Delivered(endpoints, 1, sent'.to, sent'.msg, NoName)
    <2>1. DOMAIN eps = DOMAIN endpoints /\ eps[1] = endpoints[1]
      BY <1>0, <1>6, ProbeSends, DeliveredElsewhere
    <2>2. endpoints' = LogRestart(eps) /\ app' = app /\ at' = at
      BY <1>6 DEF InitProbes
    <2> HIDE DEF eps
    <2> QED BY <1>0, <1>3, <1>4, <2>1, <2>2
  <1>7. CASE InitGivesUp
    BY <1>0, <1>3, <1>4, <1>7 DEF InitGivesUp
  <1>8. CASE InitLaunched
    <2>1. app' = app /\ at' = at
      BY <1>8 DEF InitLaunched
    <2>2. CASE endpoints' = endpoints
      BY <1>3, <2>1, <2>2
    <2>3. CASE endpoints' = Delivered(endpoints, 1, SerialEndpoint, "other", NoName)
      BY <1>0, <1>3, <1>s, <2>1, <2>3, DeliveredElsewhere
    <2> QED BY <1>8, <2>2, <2>3 DEF InitLaunched
  <1>9. CASE InitMoves \/ InitWaits
    BY <1>3, <1>9 DEF InitMoves, InitWaits, sysVars
  <1> QED BY <1>5, <1>6, <1>7, <1>8, <1>9 DEF InitStep

(* All steps together.                                                     *)
LEMMA QueueStep == QueueInv /\ [SystemNext]_<<vars, sysVars>> => QueueInv'
  <1> SUFFICES ASSUME QueueInv, [SystemNext]_<<vars, sysVars>> PROVE QueueInv'
    OBVIOUS
  <1>1. CASE UNCHANGED <<vars, sysVars>>
    BY <1>1 DEF QueueInv, vars, sysVars, Binaries, Services
  <1> QED BY <1>1, InitQueue, ProgramQueue DEF SystemNext

(* QueueInv holds throughout.                                              *)
LEMMA QueueCorrect == SystemSpec => []QueueInv
  BY QueueInit, QueueStep, PTL DEF SystemSpec

(* Whatever the boot graph and however the programs interleave, init       *)
(* receives nothing, as long as no service has the name init or            *)
(* device_manager: every control request goes to another pid.              *)
THEOREM InitHearsNothing == SystemSpec => []NothingReachesInit
  <1>1. QueueInv => NothingReachesInit
    BY DEF QueueInv, NothingReachesInit
  <1> QED BY <1>1, QueueCorrect, PTL

-----------------------------------------------------------------------------
(* What init's steps come to: one service that is down is started, with    *)
(* its dependencies launched before; or nothing is.                        *)
Starts ==
  /\ i \in Services /\ CanSpawn(i) /\ ~runtime[i].started
  /\ specs[i].dep_mask \subseteq launched
  /\ launched' = launched \cup {i} /\ runtime'[i].started /\ sys_spawn(specs[i].binary)

StartsNothing == launched' = launched /\ app' = app

(* In launch_graph what is not in the mask is down; a retry tests it.      *)
LEMMA StartsOrNot ==
  ASSUME SupInv, LaunchInv, InitStep
  PROVE  Starts \/ StartsNothing
  <1>1. CASE InitStarts
    <2>1. /\ i \in Services /\ specs[i].dep_mask \subseteq started_mask
          /\ pc \in {"launch", "tick"}
          /\ pc = "launch" => i \notin started_mask
          /\ pc = "tick" => ~runtime[i].started
      BY <1>1, Zenon DEF InitStarts, LaunchSpawn, TickRetry, DepsStarted, RetryDue
    <2>2. ~runtime[i].started /\ specs[i].dep_mask \subseteq launched
      BY <2>1 DEF SupInv, LaunchInv, Launching, Up
    <2>3. CASE specs[i].launch_mode = "fs_exec"
      <3>1. launched' = launched
        BY <1>1, <2>3 DEF InitStarts, LaunchSpawn, TickRetry, LaunchDone, RetryDone, SpawnDone,
                          SendExec, SendAndWait
      <3> QED BY <1>1, <2>3, <3>1, Zenon DEF InitStarts, StartsNothing
    <2>4. CASE specs[i].launch_mode # "fs_exec"
      <3>1. SpawnDone(CanSpawn(i))
        BY <1>1, <2>4, Zenon DEF InitStarts, LaunchSpawn, TickRetry, LaunchDone, RetryDone
      <3>2. launched' = IF CanSpawn(i) THEN launched \cup {i} ELSE launched
        BY <3>1 DEF SpawnDone
      <3>3. CASE CanSpawn(i)
        <4>1. runtime'[i].started
          BY <2>1, <3>1, <3>3 DEF SpawnDone, SupInv, Runtime
        <4> QED BY <1>1, <2>1, <2>2, <2>4, <3>2, <3>3, <4>1, Zenon DEF InitStarts, Starts
      <3>4. CASE ~CanSpawn(i)
        BY <1>1, <2>4, <3>2, <3>4, Zenon DEF InitStarts, StartsNothing, sysVars
      <3> QED BY <3>3, <3>4
    <2> QED BY <2>3, <2>4
  <1>2. CASE InitProbes
    BY <1>2, Zenon DEF InitProbes, TickProbe, SendPing, SendAndWait, ProbeDone, StartsNothing
  <1>3. CASE InitGivesUp
    BY <1>3, Zenon DEF InitGivesUp, WaitGiveUp, WaitDone, LaunchDone, RetryDone, ProbeDone, SpawnDone,
                StartsNothing
  <1>4. CASE InitLaunched
    BY <1>4 DEF InitLaunched, LaunchPassDone, StartsNothing
  <1>5. CASE InitMoves
    BY <1>5 DEF InitMoves, LaunchSkip, TickSkip, TickDone, StartsNothing, sysVars
  <1>6. CASE InitWaits
    BY <1>6, Zenon DEF InitWaits, WaitRecvNothing, LoopRecvNothing, StartTick, StartsNothing, sysVars
  <1> QED BY <1>1, <1>2, <1>3, <1>4, <1>5, <1>6 DEF InitStep

(* Every step of the system starts a service or no program.                *)
LEMMA SystemStarts ==
  ASSUME SupInv, LaunchInv, [SystemNext]_<<vars, sysVars>>
  PROVE  specs' = specs /\ (Starts \/ StartsNothing)
  <1>1. CASE UNCHANGED <<vars, sysVars>>
    BY <1>1 DEF vars, sysVars, StartsNothing
  <1>2. ASSUME NEW p \in 2 .. MaxPid, Program(p) PROVE specs' = specs /\ StartsNothing
    BY <1>2 DEF Program, ProgramStep, Serve, vars, StartsNothing
  <1>3. CASE InitStep
    BY <1>3, InitIsStep, StepKeeps, StartsOrNot
  <1> QED BY <1>1, <1>2, <1>3 DEF SystemNext

(* As nothing answers an exec request, all that was launched was spawned:  *)
(* the processes are those of the services launched.                       *)
OrderInv ==
  /\ app[1] = "/boot/init"
  /\ \A s, t \in Services :
       specs[s].binary # "/boot/init" /\ (specs[s].binary = specs[t].binary => s = t)
  /\ \A s \in launched : CanSpawn(s) /\ \E p \in 2 .. Len(app) : app[p] = specs[s].binary
  /\ \A p \in 2 .. Len(app) : \E s \in launched : app[p] = specs[s].binary
  /\ StartOrder

(* At the start init is the only process.                                  *)
LEMMA OrderInit == SystemInit => OrderInv
  <1> SUFFICES ASSUME SystemInit PROVE OrderInv
    OBVIOUS
  <1>1. app[1] = "/boot/init" /\ launched = {} /\ Len(app) = 1
    BY DEF SystemInit, Init
  <1>2. \A p : ~(p \in 2 .. Len(app))
    BY <1>1
  <1>3. \A s, t \in Services :
          specs[s].binary # "/boot/init" /\ (specs[s].binary = specs[t].binary => s = t)
    BY BinariesAssumption, Zenon DEF SystemInit, Init, Services
  <1> QED BY <1>1, <1>2, <1>3, Zenon DEF OrderInv, StartOrder

(* A new process has a program that no other service has, and finds those  *)
(* of its dependencies there.                                              *)
LEMMA OrderStep ==
  SupInv /\ LaunchInv /\ QueueInv /\ OrderInv /\ [SystemNext]_<<vars, sysVars>> => OrderInv'
  <1> SUFFICES ASSUME SupInv, LaunchInv, QueueInv, OrderInv, [SystemNext]_<<vars, sysVars>>
               PROVE  OrderInv'
    OBVIOUS
  <1>1. specs' = specs /\ (Starts \/ StartsNothing)
    BY SystemStarts
  <1>2. Services' = Services /\ \A s : CanSpawn(s)' = CanSpawn(s)
    BY <1>1 DEF Services, CanSpawn
  <1>3. CASE StartsNothing
    <2>1. launched' = launched /\ app' = app
      BY <1>3 DEF StartsNothing
    <2>2. StartOrder'
      <3>1. StartOrder
        BY Zenon DEF OrderInv
      <3> QED BY <1>1, <1>2, <2>1, <3>1 DEF StartOrder, ServiceOf
    <2> QED BY <1>1, <1>2, <2>1, <2>2, Zenon DEF OrderInv
  <1>4. CASE Starts
    <2> DEFINE n == Len(app)
               b == specs[i].binary
    <2>1. /\ n \in Nat /\ n >= 1 /\ Len(app') = n + 1 /\ app'[n + 1] = b
          /\ \A p \in 1 .. n : app'[p] = app[p]
      BY <1>4 DEF QueueInv, Starts, sys_spawn
    <2>2. /\ i \in Services /\ launched' = launched \cup {i} /\ CanSpawn(i)
          /\ specs[i].dep_mask \subseteq launched
      BY <1>4 DEF Starts
    <2>3. app'[1] = "/boot/init"
      BY <2>1 DEF OrderInv
    <2>4. \A s, t \in Services :
            specs[s].binary # "/boot/init" /\ (specs[s].binary = specs[t].binary => s = t)
      BY DEF OrderInv
    <2>5. ASSUME NEW s \in launched'
          PROVE  CanSpawn(s) /\ \E p \in 2 .. n + 1 : app'[p] = specs[s].binary
      <3>1. CASE s = i
        BY <2>1, <2>2, <3>1
      <3>2. CASE s \in launched
        <4>1. CanSpawn(s) /\ \E p \in 2 .. n : app[p] = specs[s].binary
          BY <3>2 DEF OrderInv
        <4> QED BY <2>1, <4>1
      <3> QED BY <2>2, <3>1, <3>2
    <2>6. ASSUME NEW p \in 2 .. n + 1 PROVE \E s \in launched' : app'[p] = specs[s].binary
      <3>1. CASE p = n + 1
        BY <2>1, <2>2, <3>1
      <3>2. CASE p \in 2 .. n
        <4>1. \E s \in launched : app[p] = specs[s].binary
          BY <3>2 DEF OrderInv
        <4> QED BY <2>1, <2>2, <3>2, <4>1
      <3> QED BY <2>1, <3>1, <3>2
    <2>7. ASSUME NEW p \in 2 .. n + 1, NEW s \in Services, specs[s].binary = app'[p],
                 NEW d \in specs[s].dep_mask
          PROVE  \E q \in 2 .. p - 1 : app'[q] = specs[d].binary
      <3>1. CASE p = n + 1
        <4>1. s = i
          BY <2>1, <2>2, <2>4, <2>7, <3>1
        <4>2. \E q \in 2 .. n : app[q] = specs[d].binary
          BY <2>2, <2>7, <4>1 DEF OrderInv
        <4> QED BY <2>1, <3>1, <4>2
      <3>2. CASE p \in 2 .. n
        <4>1. specs[s].binary = app[p]
          BY <2>1, <2>7, <3>2
        <4>2. \E q \in 2 .. p - 1 : app[q] = specs[d].binary
          BY <2>7, <3>2, <4>1 DEF OrderInv, StartOrder, ServiceOf
        <4> QED BY <2>1, <3>2, <4>2
      <3> QED BY <2>1, <3>1, <3>2
    <2> HIDE DEF n, b
    <2>8. StartOrder'
      BY <1>1, <1>2, <2>1, <2>7 DEF StartOrder, ServiceOf
    <2> QED BY <1>1, <1>2, <2>1, <2>3, <2>4, <2>5, <2>6, <2>8 DEF OrderInv
  <1> QED BY <1>1, <1>3, <1>4

(* OrderInv holds throughout.                                              *)
LEMMA OrderCorrect == SystemSpec => [](SupInv /\ LaunchInv /\ QueueInv /\ OrderInv)
  BY OrderInit, OrderStep, QueueCorrect, SystemSupCorrect, PTL DEF SystemSpec

(* Pids are in dependency order for every boot graph whose services have   *)
(* programs of their own: launch_graph's mask and the retries of           *)
(* supervisor_tick never start a service ahead of what it needs.           *)
THEOREM StartOrderTheorem == SystemSpec => []StartOrder
  <1>1. OrderInv => StartOrder
    BY DEF OrderInv
  <1> QED BY <1>1, OrderCorrect, PTL

(* The first program started depends on nothing.                           *)
FirstInv ==
  /\ \A s \in Services :
       specs[s].dep_mask = {} => specs[s].binary = "/boot/serial" \/ specs[s].launch_mode = "fs_exec"
  /\ Len(app) > 1 => app[2] = "/boot/serial"

(* No program has been started.                                            *)
LEMMA FirstInit == SystemInit => FirstInv
  <1> SUFFICES ASSUME SystemInit PROVE FirstInv
    OBVIOUS
  <1>1. \A s \in Services :
          specs[s].dep_mask = {} => specs[s].binary = "/boot/serial" \/ specs[s].launch_mode = "fs_exec"
    BY SerialAssumption, Zenon DEF SystemInit, Init, Services
  <1>2. Len(app) = 1
    BY DEF SystemInit
  <1> QED BY <1>1, <1>2 DEF FirstInv

(* With no process but init, nothing has been launched.                    *)
LEMMA FirstStep ==
  SupInv /\ LaunchInv /\ QueueInv /\ OrderInv /\ FirstInv /\ [SystemNext]_<<vars, sysVars>> => FirstInv'
  <1> SUFFICES ASSUME SupInv, LaunchInv, QueueInv, OrderInv, FirstInv,
                      [SystemNext]_<<vars, sysVars>>
               PROVE  FirstInv'
    OBVIOUS
  <1>1. specs' = specs /\ Services' = Services /\ (Starts \/ StartsNothing)
    BY SystemStarts DEF Services
  <1>2. CASE StartsNothing
    BY <1>1, <1>2 DEF FirstInv, StartsNothing
  <1>3. CASE Starts
    <2>1. /\ Len(app) \in Nat /\ Len(app) >= 1 /\ Len(app') = Len(app) + 1
          /\ app'[Len(app) + 1] = specs[i].binary
          /\ \A p \in 1 .. Len(app) : app'[p] = app[p]
      BY <1>3 DEF QueueInv, Starts, sys_spawn
    <2>2. CASE Len(app) > 1
      BY <1>1, <2>1, <2>2 DEF FirstInv
    <2>3. CASE Len(app) = 1
      <3>1. launched = {}
        BY <2>3 DEF OrderInv
      <3>2. i \in Services /\ specs[i].dep_mask = {} /\ specs[i].launch_mode = "spawn"
        BY <1>3, <3>1 DEF Starts, CanSpawn
      <3>3. specs[i].binary = "/boot/serial"
        BY <3>2 DEF FirstInv
      <3> QED BY <1>1, <2>1, <2>3, <3>3 DEF FirstInv
    <2>4. Len(app) > 1 \/ Len(app) = 1
      <3>1. \A n \in Nat : n >= 1 => n > 1 \/ n = 1
        OBVIOUS
      <3> QED BY <2>1, <3>1, Zenon
    <2> QED BY <2>2, <2>3, <2>4, Zenon
  <1> QED BY <1>1, <1>2, <1>3

(* The console's handle, the constant 2, is serial's pid for every boot    *)
(* graph in which serial is the only program to spawn that depends on      *)
(* nothing: sys_log never writes to another program.                       *)
THEOREM SerialTheorem == SystemSpec => []LogsReachSerial
  <1>1. QueueInv /\ FirstInv => LogsReachSerial
    BY DEF QueueInv, FirstInv, LogsReachSerial, SerialEndpoint
  <1> QED BY <1>1, FirstInit, FirstStep, OrderCorrect, PTL DEF SystemSpec

-----------------------------------------------------------------------------
(* Nothing that was launched goes down: no service ever answers a probe,   *)
(* and one that is to be restarted without is not probed.                  *)
OnceInv ==
  /\ \A s \in Services : ~runtime[s].healthy_once
  /\ \A s \in Services : specs[s].restart_policy = "always" => specs[s].health_probe = "none"
  /\ \A s \in launched : runtime[s].started
  /\ StartedOnce

(* Nothing is launched yet.                                                *)
LEMMA OnceInit == SystemInit => OnceInv
  <1> SUFFICES ASSUME SystemInit PROVE OnceInv
    OBVIOUS
  <1>1. \A s \in Services : specs[s].restart_policy = "always" => specs[s].health_probe = "none"
    BY ProbesAssumption, Zenon DEF SystemInit, Init, Services
  <1>2. launched = {} /\ \A s \in Services : ~runtime[s].healthy_once
    BY DEF SystemInit, Init, Services, NotStarted
  <1>3. StartedOnce
    BY DEF SystemInit, StartedOnce
  <1> QED BY <1>1, <1>2, <1>3 DEF OnceInv

(* No step takes a service down.                                           *)
StaysUp == \A s \in Services : ~runtime'[s].healthy_once /\ (runtime[s].started => runtime'[s].started)

(* A failed probe restarts neither what is never healthy nor, by the       *)
(* assumption, a service that is to run always.                            *)
LEMMA ProbeKeepsUp ==
  ASSUME SupInv, OnceInv, ProbeDue(i), i \in Services, ProbeDone(FALSE)
  PROVE  StaysUp
  <1> DEFINE r == runtime[i]
             streak == IF r.probe_fail_streak < STREAK_MAX THEN r.probe_fail_streak + 1 ELSE STREAK_MAX
  <1>1. ~Restarts(i, streak)
    BY DEF Restarts, ProbeDue, OnceInv
  <1>2. Probed(i, FALSE) = [r EXCEPT !.probe_fail_streak = streak, !.probe_in = PROBE_INTERVAL]
    BY <1>1, Zenon DEF Probed
  <1>3. r \in Runtime /\ ~r.healthy_once
    BY DEF SupInv, OnceInv
  <1> HIDE DEF streak
  <1>4. Probed(i, FALSE).healthy_once = r.healthy_once /\ Probed(i, FALSE).started = r.started
    BY <1>2, <1>3, Zenon DEF Runtime
  <1> DEFINE q == Probed(i, FALSE)
  <1>5. runtime' = [runtime EXCEPT ![i] = q]
    BY DEF ProbeDone
  <1> HIDE DEF q
  <1>6. q.healthy_once = r.healthy_once /\ q.started = r.started
    BY <1>4, Zenon DEF q
  <1> QED BY <1>3, <1>5, <1>6 DEF StaysUp, SupInv, OnceInv

(* One case per step of init.                                              *)
LEMMA StepKeepsUp ==
  ASSUME SupInv, LaunchInv, QueueInv, OnceInv, Step
  PROVE  StaysUp
  <1>0. /\ runtime \in [Services -> Runtime]
        /\ \A s \in Services : ~runtime[s].healthy_once
        /\ \A s \in Services : Found(registry, specs[s].name) = 0
        /\ pc # "probe_wait"
    BY DEF SupInv, OnceInv, QueueInv
  <1>1. ASSUME runtime' = runtime PROVE StaysUp
    BY <1>0, <1>1 DEF StaysUp
  <1>2. ASSUME NEW ok \in BOOLEAN, SpawnDone(ok), i \in Services, ~runtime[i].started PROVE StaysUp
    BY <1>0, <1>2 DEF SpawnDone, StaysUp, Runtime
  <1>3. ASSUME NEW wait, SendExec(wait), i \in Services PROVE StaysUp
    BY <1>0, <1>3 DEF SendExec, SendAndWait, StaysUp, Runtime
  <1>4. CASE LaunchSkip \/ LaunchPassDone \/ WaitRecvNothing \/ TickSkip \/ TickDone
    BY <1>1, <1>4 DEF LaunchSkip, LaunchPassDone, WaitRecvNothing, TickSkip, TickDone
  <1>5. CASE LaunchSpawn
    <2>1. i \in Services /\ ~runtime[i].started
      BY <1>5 DEF LaunchSpawn, LaunchInv, Launching, Up
    <2>2. CanSpawn(i) \in BOOLEAN
      BY DEF CanSpawn
    <2> QED BY <1>2, <1>3, <1>5, <2>1, <2>2, Zenon DEF LaunchSpawn, LaunchDone
  <1>6. CASE TickRetry
    <2>1. i \in Services /\ ~runtime[i].started
      BY <1>6 DEF TickRetry, RetryDue
    <2>2. CanSpawn(i) \in BOOLEAN
      BY DEF CanSpawn
    <2> QED BY <1>2, <1>3, <1>6, <2>1, <2>2, Zenon DEF TickRetry, RetryDone
  <1>7. CASE WaitGiveUp
    <2>1. i \in Services /\ ~runtime[i].started /\ SpawnDone(FALSE)
      BY <1>0, <1>7, Zenon DEF WaitGiveUp, WaitDone, LaunchDone, RetryDone, Waiting, SupInv, LaunchInv
    <2> QED BY <1>2, <2>1, Zenon
  <1>8. CASE LoopRecvNothing
    <2>1. runtime' = [s \in Services |->
                    [runtime[s] EXCEPT !.probe_in = IF @ = 0 THEN 0 ELSE @ - 1,
                                       !.retry_in = IF @ = 0 THEN 0 ELSE @ - 1]]
      BY <1>8, Zenon DEF LoopRecvNothing, StartTick
    <2> QED BY <1>0, <2>1, Zenon DEF StaysUp, Runtime
  <1>9. CASE TickProbe
    <2>1. i \in Services /\ ProbeDue(i) /\ ProbeDone(FALSE)
      BY <1>0, <1>9, Zenon DEF TickProbe
    <2> QED BY <2>1, ProbeKeepsUp
  <1> QED BY <1>4, <1>5, <1>6, <1>7, <1>8, <1>9 DEF Step

(* A service is spawned only while it is down, that is, not launched.      *)
LEMMA OnceStep ==
  SupInv /\ LaunchInv /\ QueueInv /\ OrderInv /\ OnceInv /\ [SystemNext]_<<vars, sysVars>> => OnceInv'
  <1> SUFFICES ASSUME SupInv, LaunchInv, QueueInv, OrderInv, OnceInv,
                      [SystemNext]_<<vars, sysVars>>
               PROVE  OnceInv'
    OBVIOUS
  <1>1. specs' = specs /\ Services' = Services /\ (Starts \/ StartsNothing)
    BY SystemStarts DEF Services
  <1>2. StaysUp
    <2>1. CASE InitStep
      BY <2>1, InitIsStep, StepKeepsUp
    <2>2. CASE runtime' = runtime
      BY <2>2 DEF StaysUp, OnceInv
    <2>3. InitStep \/ runtime' = runtime
      BY DEF SystemNext, Program, ProgramStep, Serve, vars
    <2> QED BY <2>1, <2>2, <2>3
  <1>3. /\ \A s \in Services : ~runtime'[s].healthy_once
        /\ \A s \in Services : specs[s].restart_policy = "always" => specs[s].health_probe = "none"
    BY <1>2 DEF StaysUp, OnceInv
  <1>4. launched \subseteq Services /\ \A s \in launched : runtime'[s].started
    BY <1>2, Zenon DEF StaysUp, OnceInv, LaunchInv
  <1>5. CASE StartsNothing
    BY <1>1, <1>3, <1>4, <1>5 DEF OnceInv, StartsNothing, StartedOnce
  <1>6. CASE Starts
    <2> DEFINE n == Len(app)
               b == specs[i].binary
    <2>1. /\ n \in Nat /\ n >= 1 /\ DOMAIN app = 1 .. n /\ DOMAIN app' = 1 .. n + 1 /\ app'[n + 1] = b
          /\ \A p \in 1 .. n : app'[p] = app[p]
      BY <1>6 DEF QueueInv, Starts, sys_spawn
    <2>2. i \in Services /\ launched' = launched \cup {i} /\ i \notin launched
      BY <1>6 DEF Starts, OnceInv
    <2>3. runtime'[i].started
      BY <1>6 DEF Starts
    <2>4. ASSUME NEW p \in 1 .. n PROVE app[p] # b
      <3>1. CASE p = 1
        BY <2>2, <3>1 DEF OrderInv
      <3>2. CASE p \in 2 .. n
        <4>1. PICK s \in launched : app[p] = specs[s].binary
          BY <3>2 DEF OrderInv
        <4> QED BY <1>4, <2>2, <4>1 DEF OrderInv
      <3> QED BY <2>1, <3>1, <3>2
    <2> HIDE DEF n, b
    <2>5. StartedOnce'
      <3> SUFFICES ASSUME NEW p \in 1 .. n + 1, NEW q \in 1 .. n + 1, app'[p] = app'[q], p # q
                   PROVE  FALSE
        BY <2>1 DEF StartedOnce
      <3>1. CASE p \in 1 .. n /\ q \in 1 .. n
        BY <2>1, <3>1 DEF OnceInv, StartedOnce
      <3>2. CASE p = n + 1 /\ q \in 1 .. n
        BY <2>1, <2>4, <3>2
      <3>3. CASE q = n + 1 /\ p \in 1 .. n
        BY <2>1, <2>4, <3>3
      <3> QED BY <2>1, <3>1, <3>2, <3>3
    <2> QED BY <1>1, <1>3, <1>4, <2>2, <2>3, <2>5 DEF OnceInv
  <1> QED BY <1>1, <1>5, <1>6

(* No program is started twice, for every boot graph in which services     *)
(* have programs of their own and none that runs always is probed: the     *)
(* failing probes of supervisor_tick never lead to a second process.       *)
THEOREM OnceTheorem == SystemSpec => []StartedOnce
  <1>1. OnceInv => StartedOnce
    BY DEF OnceInv
  <1> QED BY <1>1, OnceInit, OnceStep, OrderCorrect, PTL DEF SystemSpec
=============================================================================

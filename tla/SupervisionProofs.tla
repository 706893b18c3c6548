------------------------- MODULE SupervisionProofs -------------------------
(***************************************************************************)
(* Proofs about Supervision, for every set of configurations and any number  *)
(* of failures.                                                             *)
(***************************************************************************)
EXTENDS Supervision, TLAPS

\* Before the tasks are created and after the process has gone there is no task, no
\* cancellation and no thread that writes.
Quiet ==
    phase \in {"boot", "loaded", "created", "exited", "killed"} =>
       task = Off /\ cancels = {} /\ writer = "idle"

\* After an orderly stop no task is alive.
AllEnded == phase = "stopped" => \A t \in Tasks : ~Alive(t)

\* serve_forever belongs to a running exporter: a cancelled one closes its server or is
\* blocked in shutdown(), and one that fails has closed it.
ServerOwned == server \in {"queued", "serving", "stuck"} => task[Exporter] = "running"

IInv == TypeOK /\ Quiet /\ AllEnded /\ ServerOwned /\ StopLeavesNothing

----------------------------------------------------------------------------
(* The tasks and the configuration *)

TaskNames == {Serial, Cloud, Status, Metrics, Snapshots, Watchdog, Exporter, Ipc}

\* The tasks are the eight run() creates.
LEMMA TasksAre == Tasks = TaskNames
<1>1. /\ Created[1] = Serial /\ Created[2] = Cloud /\ Created[3] = Status
      /\ Created[4] = Metrics /\ Created[5] = Snapshots /\ Created[6] = Watchdog
      /\ Created[7] = Exporter /\ Created[8] = Ipc
  BY DEF Created
<1>2. 1 .. 8 = {1, 2, 3, 4, 5, 6, 7, 8}
  OBVIOUS
<1>3. Tasks = {Created[i] : i \in {1, 2, 3, 4, 5, 6, 7, 8}}
  BY <1>2 DEF Tasks
<1> QED BY <1>1, <1>3 DEF TaskNames

\* The defaults are a configuration.
LEMMA DefaultIsConfig == get_default_config \in Config
  BY DEF get_default_config, MessageToDict, Config

\* What load makes of a section is a configuration.
LEMMA LoadedIsConfig ==
    ASSUME NEW u \in RawConfig
    PROVE  load_raw_config(u) \in Config
<1> DEFINE secret == IF u.secret = "unset" THEN get_default_config.secret ELSE u.secret
           interval == IF u.interval = "unset" THEN get_default_config.interval
                       ELSE coerce_value(u.interval)
<1>1. secret \in {"default", "base64 of default", "own", "placeholder", "weak"}
  BY DEF RawConfig, get_default_config, MessageToDict
<1>2. interval \in {0, 5}
  BY DEF RawConfig, get_default_config, coerce_value
<1>3. /\ u.cloud \in BOOLEAN /\ u.snapshots \in BOOLEAN /\ u.watchdog \in BOOLEAN
      /\ u.beat \in BOOLEAN /\ u.metrics \in BOOLEAN /\ u.rules \in BOOLEAN
  BY DEF RawConfig
<1>4. load_raw_config(u) =
          IF ~u.section THEN get_default_config
          ELSE [secret |-> secret, interval |-> interval, cloud |-> u.cloud,
                snapshots |-> u.snapshots, watchdog |-> u.watchdog, beat |-> u.beat,
                metrics |-> u.metrics, rules |-> u.rules]
  BY DEF load_raw_config
<1> HIDE DEF secret, interval
<1>5. CASE u.section
  <2>1. load_raw_config(u) =
            [secret |-> secret, interval |-> interval, cloud |-> u.cloud,
             snapshots |-> u.snapshots, watchdog |-> u.watchdog, beat |-> u.beat,
             metrics |-> u.metrics, rules |-> u.rules]
    BY <1>4, <1>5, Zenon
  <2>2. [secret |-> secret, interval |-> interval, cloud |-> u.cloud,
         snapshots |-> u.snapshots, watchdog |-> u.watchdog, beat |-> u.beat,
         metrics |-> u.metrics, rules |-> u.rules] \in Config
    BY <1>1, <1>2, <1>3 DEF Config
  <2> QED BY <2>1, <2>2, Zenon
<1>6. CASE ~u.section
  BY <1>4, <1>6, DefaultIsConfig
<1> QED BY <1>5, <1>6

\* Strict mode yields a configuration.
LEMMA StrictIsConfig ==
    ASSUME NEW c \in Config
    PROVE  strict_mode(c) \in Config
  BY DEF Config, strict_mode

----------------------------------------------------------------------------
(* One step per action *)

\* The daemon starts in a state of the invariant.
LEMMA InitIInv == Init => IInv
<1> SUFFICES ASSUME Init PROVE IInv
  OBVIOUS
<1>1. task = Off /\ task \in [Tasks -> {"off"}] /\ task[Cloud] = "off"
  BY TasksAre DEF Init, Off, TaskNames
<1>2. cfg \in Config
  BY DefaultIsConfig DEF Init
<1>3. TypeOK
  <2>1. failures \in 0 .. MaxFailures /\ cancels \subseteq {t \in Tasks : Alive(t)}
    BY SupervisionConstants DEF Init
  <2>2. task \in [Tasks -> {"off", "ready", "running", "closing", "backoff", "returned", "ended"}]
    BY <1>1
  <2>3. file \in BOOLEAN /\ socket \in BOOLEAN
    BY DEF Init
  <2> QED BY <1>2, <2>1, <2>2, <2>3 DEF Init, TypeOK
<1> QED BY <1>1, <1>3 DEF Init, IInv, Quiet, AllEnded, ServerOwned, StopLeavesNothing

\* Steps before the tasks exist.
LEMMA StartingIInv ==
    ASSUME IInv, load \/ self_test_fails \/ create_runtime_state
    PROVE  IInv'
<1>1. CASE load
  <2>1. cfg' \in Config
    BY <1>1, LoadedIsConfig, SupervisionConstants DEF load, IInv, TypeOK
  <2>3. phase = "boot" /\ phase' \in {"loaded", "exited"}
        /\ UNCHANGED <<raw, task, cancels, writer, file, socket, server, failures>>
    BY <1>1 DEF load, outside
  <2>4. TypeOK'
    BY <2>1, <2>3 DEF IInv, TypeOK, Alive
  <2> QED BY <2>3, <2>4
          DEF IInv, Quiet, AllEnded, ServerOwned, StopLeavesNothing
<1>2. CASE self_test_fails
  BY <1>2 DEF self_test_fails, setup, outside, Alive, IInv, TypeOK, Quiet, AllEnded, ServerOwned, StopLeavesNothing
<1>3. CASE create_runtime_state
  BY <1>3 DEF create_runtime_state, setup, outside, Alive, IInv, TypeOK, Quiet, AllEnded, ServerOwned, StopLeavesNothing
<1> QED BY <1>1, <1>2, <1>3

\* run(): all tasks are created, or those before the exporter, which are cancelled.
LEMMA RunIInv ==
    ASSUME IInv, run
    PROVE  IInv'
<1>1. cfg' \in Config
  BY StrictIsConfig DEF run, IInv, TypeOK
<1>2. task = Off /\ writer = "idle"
  BY DEF run, IInv, Quiet
<1>3. task' \in [Tasks -> {"off", "ready"}]
  BY DEF run
<1>4. cancels' \subseteq {t \in Tasks : task'[t] = "ready"}
  BY TasksAre DEF run, Wanted, TaskNames, Serial, Cloud, Status, Metrics, Snapshots, Watchdog, Exporter, Ipc
<1>5. server' \in {"none", "bound"} \/ server' = server
  BY DEF run, exporter_init
<1>6. task[Exporter] = "off"
  BY <1>2, TasksAre DEF Off, TaskNames
<1>7. server' \notin {"queued", "serving", "stuck"} /\ server' \in {"none", "bound", "closed"}
  BY <1>5, <1>6 DEF IInv, ServerOwned, TypeOK
<1>8. phase' \in {"running", "stopping"}
  BY DEF run
<1>9. TypeOK'
  BY <1>1, <1>2, <1>3, <1>4, <1>7, <1>8 DEF IInv, TypeOK, run, outside, Alive
<1> QED BY <1>7, <1>8, <1>9
        DEF IInv, Quiet, AllEnded, ServerOwned, StopLeavesNothing

\* A step of task t within the loop: what it may do to t so that the invariant is kept.
LEMMA TaskStepIInv ==
    ASSUME IInv, NEW t \in Tasks,
           phase \in {"running", "stopping"},
           UNCHANGED <<raw, cfg, phase, writer, file>>,
           NEW s \in {"running", "closing", "backoff", "returned", "ended"},
           task' = [task EXCEPT ![t] = s],
           cancels' = cancels \/ cancels' = cancels \ {t},
           t \in cancels' => s \in {"running", "closing", "backoff"},
           t = Status /\ writer = "writing" => s = "running",
           socket' \in BOOLEAN, failures' \in 0 .. MaxFailures,
           server' \in {"none", "bound", "queued", "serving", "closed", "stuck"},
           server' \in {"queued", "serving", "stuck"} => task'[Exporter] = "running"
    PROVE  IInv'
<1>1. task' \in [Tasks -> {"off", "ready", "running", "closing", "backoff", "returned", "ended"}]
  BY DEF IInv, TypeOK
<1>2. \A u \in Tasks : u # t => task'[u] = task[u]
  BY DEF IInv, TypeOK
<1>3. task'[t] = s
  BY DEF IInv, TypeOK
<1>4. cancels' \subseteq {u \in Tasks : Alive(u)}'
  BY <1>2, <1>3 DEF IInv, TypeOK, Alive
<1>5. writer' = "writing" => task'[Status] = "running"
  BY <1>2, <1>3, TasksAre DEF IInv, TypeOK, TaskNames
<1>6. TypeOK'
  BY <1>1, <1>4, <1>5 DEF IInv, TypeOK
<1> QED BY <1>6 DEF IInv, Quiet, AllEnded, ServerOwned, StopLeavesNothing

\* supervise() calls a factory.
LEMMA AttemptIInv ==
    ASSUME IInv, NEW t \in Tasks, attempt(t)
    PROVE  IInv'
<1>1. /\ phase \in {"running", "stopping"} /\ t \notin cancels /\ cancels' = cancels
      /\ UNCHANGED <<raw, cfg, phase, writer, file>> /\ Factory(t)
      /\ task[t] \in {"ready", "backoff"}
  BY DEF attempt, LoopRuns, setup
<1>2. t = Status => writer = "idle"
  BY <1>1 DEF IInv, TypeOK
<1>3. t # Exporter => (server \in {"queued", "serving", "stuck"} => task[Exporter] = "running")
  BY DEF IInv, ServerOwned
<1>5. failures \in 0 .. MaxFailures /\ socket \in BOOLEAN
      /\ server \in {"none", "bound", "queued", "serving", "closed", "stuck"}
  BY DEF IInv, TypeOK
<1>6. t = Exporter => server \notin {"queued", "serving", "stuck"}
  BY <1>1 DEF IInv, ServerOwned
<1>7. \A u \in Tasks : u # t => task'[u] = task[u]
  <2>1. \E s : GoTo(t, s)
    BY <1>1, TasksAre DEF Factory, TaskNames, Settles, serial_run, run_cloud, status_writer,
       publish_metrics, watchdog_run, publish_bridge_snapshots, exporter_run, run_ipc_server,
       get_ssl_context_fails
  <2> QED BY <2>1 DEF GoTo, IInv, TypeOK
<1>8. CASE t \notin {Cloud, Exporter, Ipc}
  <2>1. \E s \in {"running", "backoff"} : Settles(t, s)
    BY <1>1, <1>8, TasksAre DEF Factory, TaskNames, serial_run, status_writer,
       publish_metrics, watchdog_run, publish_bridge_snapshots, Serial, Cloud, Status,
       Metrics, Snapshots, Watchdog, Exporter, Ipc
  <2>2. PICK s \in {"running", "backoff"} : Settles(t, s)
    BY <2>1
  <2>3. server' \in {"queued", "serving", "stuck"} => task'[Exporter] = "running"
    BY <1>3, <1>7, <1>8, <2>2, TasksAre DEF Settles, TaskNames
  <2> QED BY <1>1, <1>2, <1>5, <1>8, <2>2, <2>3, TaskStepIInv DEF Settles, GoTo
<1>9. CASE t = Cloud
  <2>1. run_cloud
    BY <1>1, <1>9 DEF Factory, Serial, Cloud, Status, Metrics, Snapshots, Watchdog, Exporter, Ipc
  <2>2. \E s \in {"running", "backoff", "returned"} : 
           GoTo(t, s) /\ (s \in {"running", "backoff"} => cfg.cloud)
    BY <1>9, <2>1 DEF run_cloud, Settles, get_ssl_context_fails
  <2>3. UNCHANGED <<socket, server>> /\ failures' \in 0 .. MaxFailures
    BY <1>5, <2>1, SupervisionConstants DEF run_cloud, Settles, get_ssl_context_fails
  <2>4. server' \in {"queued", "serving", "stuck"} => task'[Exporter] = "running"
    BY <1>3, <1>7, <1>9, <2>3, TasksAre DEF TaskNames, Cloud, Exporter
  <2>5. PICK s \in {"running", "backoff", "returned"} :
           GoTo(t, s) /\ (s \in {"running", "backoff"} => cfg.cloud)
    BY <2>2
  <2> QED BY <1>1, <1>2, <1>5, <1>9, <2>3, <2>4, <2>5, TaskStepIInv DEF GoTo
<1>10. CASE t = Exporter
  <2>1. exporter_run
    BY <1>1, <1>10 DEF Factory, Serial, Cloud, Status, Metrics, Snapshots, Watchdog, Exporter, Ipc
  <2>2. PICK s \in {"running", "backoff"} :
           GoTo(t, s) /\ ((server' = "queued" /\ s = "running") \/ server' = "closed")
    BY <1>10, <2>1 DEF exporter_run, Settles
  <2>3. UNCHANGED <<socket, failures>>
    BY <2>1 DEF exporter_run, Settles
  <2>4. task'[Exporter] = s
    BY <1>10, <2>2 DEF GoTo, IInv, TypeOK
  <2> QED BY <1>1, <1>2, <1>5, <1>10, <2>2, <2>3, <2>4, TaskStepIInv DEF GoTo, Cloud, Exporter
<1>11. CASE t = Ipc
  <2>1. run_ipc_server
    BY <1>1, <1>11 DEF Factory, Serial, Cloud, Status, Metrics, Snapshots, Watchdog, Exporter, Ipc
  <2>2. PICK s \in {"running", "backoff"} : GoTo(t, s)
    BY <1>11, <2>1 DEF run_ipc_server
  <2>3. server' = server /\ socket' \in BOOLEAN /\ failures' \in 0 .. MaxFailures
    <3>1. failures' \in 0 .. MaxFailures
      BY <1>5, <2>1, SupervisionConstants DEF run_ipc_server
    <3>2. server' = server /\ socket' \in BOOLEAN
      BY <2>1 DEF run_ipc_server
    <3> QED BY <3>1, <3>2
  <2>4. server' \in {"queued", "serving", "stuck"} => task'[Exporter] = "running"
    BY <1>3, <1>7, <1>11, <2>3, TasksAre DEF TaskNames, Ipc, Exporter
  <2> QED BY <1>1, <1>2, <1>5, <1>11, <2>2, <2>3, <2>4, TaskStepIInv DEF GoTo, Cloud, Ipc
<1> QED BY <1>8, <1>9, <1>10, <1>11

\* A task fails, returns or reconnects by itself.
LEMMA TaskFailsIInv ==
    ASSUME IInv, \/ \E t \in Tasks : fails(t)
                 \/ cloud_returns \/ connection_fails \/ connection_closed
    PROVE  IInv'
<1>0. failures \in 0 .. MaxFailures /\ socket \in BOOLEAN
      /\ server \in {"none", "bound", "queued", "serving", "closed", "stuck"}
      /\ (server \in {"queued", "serving", "stuck"} => task[Exporter] = "running")
      /\ Serial \in Tasks /\ Cloud \in Tasks /\ Exporter \in Tasks
  BY TasksAre DEF IInv, TypeOK, ServerOwned, TaskNames
<1>1. ASSUME NEW t \in Tasks, fails(t) PROVE IInv'
  <2>1. /\ phase \in {"running", "stopping"} /\ task[t] = "running" /\ t \notin cancels
        /\ UNCHANGED <<raw, cfg, phase, cancels, writer, file, socket>>
        /\ task' = [task EXCEPT ![t] = "backoff"]
        /\ (t = Status => writer = "idle") /\ t # Serial
    BY <1>1 DEF fails, Falls, Runs, LoopTurns, LoopRuns, GoTo, setup, outside
  <2>2. failures' \in 0 .. MaxFailures
    BY <1>0, <1>1, SupervisionConstants DEF fails, Falls
  <2>3. IF t = Exporter THEN server' = "closed" ELSE server' = server
    BY <1>1 DEF fails, Falls
  <2>5. server' \in {"queued", "serving", "stuck"} => task'[Exporter] = "running"
    BY <1>0, <2>1, <2>3 DEF IInv, TypeOK
  <2> QED BY <1>0, <2>1, <2>2, <2>3, <2>5, TaskStepIInv
<1>2. CASE cloud_returns
  <2>1. /\ phase \in {"running", "stopping"} /\ Cloud \notin cancels
        /\ UNCHANGED <<raw, cfg, phase, cancels, writer, file, socket, server, failures>>
        /\ task' = [task EXCEPT ![Cloud] = "returned"]
    BY <1>2 DEF cloud_returns, Runs, LoopTurns, LoopRuns, GoTo, setup, outside
  <2>2. server' \in {"queued", "serving", "stuck"} => task'[Exporter] = "running"
    BY <1>0, <2>1 DEF IInv, TypeOK, Cloud, Exporter
  <2> QED BY <1>0, <2>1, <2>2, TaskStepIInv DEF Cloud, Status
<1>3. CASE connection_fails \/ connection_closed
  <2>1. PICK s \in {"closing", "backoff"} : task' = [task EXCEPT ![Serial] = s]
    BY <1>3 DEF connection_fails, connection_closed, GoTo
  <2>2. /\ phase \in {"running", "stopping"}
        /\ UNCHANGED <<raw, cfg, phase, cancels, writer, file, socket, server>>
    BY <1>3 DEF connection_fails, connection_closed, Runs, LoopTurns, LoopRuns, setup, outside
  <2>3. failures' \in 0 .. MaxFailures
    BY <1>0, <1>3, SupervisionConstants DEF connection_fails, connection_closed
  <2>4. server' \in {"queued", "serving", "stuck"} => task'[Exporter] = "running"
    BY <1>0, <2>1, <2>2 DEF IInv, TypeOK, Serial, Exporter
  <2> QED BY <1>0, <2>1, <2>2, <2>3, <2>4, TaskStepIInv DEF Serial, Cloud, Status
<1> QED BY <1>1, <1>2, <1>3

\* A cancellation is delivered.
LEMMA CancelIInv ==
    ASSUME IInv, NEW t \in Tasks, cancel(t)
    PROVE  IInv'
<1>0. failures \in 0 .. MaxFailures /\ socket \in BOOLEAN
      /\ server \in {"none", "bound", "queued", "serving", "closed", "stuck"}
      /\ (server \in {"queued", "serving", "stuck"} => task[Exporter] = "running")
      /\ Exporter \in Tasks
  BY TasksAre DEF IInv, TypeOK, ServerOwned, TaskNames
<1>1. /\ phase \in {"running", "stopping"} /\ server # "stuck"
      /\ UNCHANGED <<raw, cfg, phase, writer, file, socket, failures>>
      /\ (t = Status => writer = "idle")
  BY DEF cancel, Leaves, LoopRuns, setup, outside
<1>2. CASE t = Exporter /\ task[t] = "running" /\ server = "queued"
  <2>1. server' = "stuck" /\ UNCHANGED <<task, cancels>>
    BY <1>2 DEF cancel, Leaves
  <2> QED BY <1>1, <1>2, <2>1
          DEF IInv, TypeOK, Alive, Quiet, AllEnded, ServerOwned,
              StopLeavesNothing
<1>3. CASE ~(t = Exporter /\ task[t] = "running" /\ server = "queued")
  <2>1. /\ task' = [task EXCEPT ![t] = "ended"] /\ cancels' = cancels \ {t}
        /\ server' = IF t = Exporter /\ server = "serving" THEN "closed" ELSE server
    BY <1>3 DEF cancel, Leaves, GoTo
  <2>2. server' \in {"queued", "serving", "stuck"} => task'[Exporter] = "running"
    BY <1>0, <1>1, <1>3, <2>1 DEF IInv, TypeOK
  <2> QED BY <1>0, <1>1, <2>1, <2>2, TaskStepIInv
<1> QED BY <1>2, <1>3

\* The two threads.
LEMMA ThreadsIInv ==
    ASSUME IInv, write \/ written \/ serve
    PROVE  IInv'
<1>1. CASE write
  BY <1>1 DEF write, Runs, LoopTurns, LoopRuns, setup, IInv, TypeOK, Alive, Quiet, AllEnded,
              ServerOwned, StopLeavesNothing
<1>2. CASE written
  <2>1. phase # "stopped" 
    BY <1>2 DEF written, IInv, StopLeavesNothing
  <2>2. file' \in BOOLEAN
    BY <1>2 DEF written, IInv, TypeOK
  <2> QED BY <1>2, <2>1, <2>2
          DEF written, setup, IInv, TypeOK, Alive, Quiet, AllEnded, ServerOwned, StopLeavesNothing
<1>3. CASE serve
  <2>1. phase # "stopped"
    BY <1>3, TasksAre DEF serve, IInv, AllEnded, ServerOwned, Alive, TaskNames
  <2> QED BY <1>3, <2>1
          DEF serve, setup, outside, IInv, TypeOK, Alive, Quiet, AllEnded, ServerOwned, StopLeavesNothing
<1> QED BY <1>1, <1>2, <1>3

\* The group is cancelled, by a signal or by a failure.
LEMMA AbortIInv ==
    ASSUME IInv, interrupt \/ group_fails
    PROVE  IInv'
<1>1. CASE /\ phase = "running" /\ abort
           /\ UNCHANGED <<raw, cfg, task, writer, file, socket, server, failures>>
  BY <1>1 DEF abort, IInv, TypeOK, Alive, Quiet, AllEnded, ServerOwned, StopLeavesNothing
<1>2. CASE /\ phase \in {"boot", "loaded", "created"} /\ phase' = "exited"
           /\ socket' = socket \/ socket' = FALSE
           /\ UNCHANGED <<raw, cfg, task, cancels, writer, file, server, failures>>
  <2>1. socket' \in BOOLEAN
    BY <1>2 DEF IInv, TypeOK
  <2> QED BY <1>2, <2>1 DEF IInv, TypeOK, Alive, Quiet, AllEnded, ServerOwned, StopLeavesNothing
<1> QED BY <1>1, <1>2 DEF interrupt, group_fails, setup, outside, cleanup

\* run() returns, the process is killed, procd starts it again.
LEMMA EndsIInv ==
    ASSUME IInv, finish \/ kill \/ start
    PROVE  IInv'
<1>0. Status \in Tasks /\ Exporter \in Tasks /\ Cloud \in Tasks
  BY TasksAre DEF TaskNames
<1>1. CASE finish
  <2>1. /\ \A t \in Tasks : ~Alive(t)
        /\ phase = "stopping" /\ phase' = "stopped" /\ socket' = FALSE /\ file' = FALSE
        /\ UNCHANGED <<raw, cfg, task, cancels, writer, server, failures>>
    BY <1>1 DEF finish, cleanup, setup
  <2>2. writer = "idle"
    BY <1>0, <2>1 DEF IInv, TypeOK, Alive
  <2>3. server # "serving"
    BY <1>0, <2>1 DEF IInv, ServerOwned, Alive
  <2>4. AllEnded' /\ StopLeavesNothing'
    BY <2>1, <2>2, <2>3 DEF AllEnded, StopLeavesNothing, Alive
  <2>5. file' \in BOOLEAN /\ socket' \in BOOLEAN
    BY <2>1
  <2> QED BY <2>1, <2>4, <2>5
          DEF IInv, TypeOK, Alive, Quiet, ServerOwned
<1>2. ASSUME task' = Off, cancels' = {}, writer' = "idle", server' = "none",
             phase' \in {"killed", "boot"}, raw' \in Configs, cfg' \in Config,
             UNCHANGED <<file, socket>>, failures' \in 0 .. MaxFailures
      PROVE  IInv'
  <2>1. task'[Cloud] = "off"
        /\ task' \in [Tasks -> {"off", "ready", "running", "closing", "backoff", "returned", "ended"}]
    BY <1>0, <1>2 DEF Off
  <2>2. TypeOK'
    BY <1>2, <2>1 DEF IInv, TypeOK
  <2>3. Off' = Off
    BY DEF Off
  <2> QED BY <1>2, <2>2, <2>3 DEF IInv, Quiet, AllEnded, ServerOwned, StopLeavesNothing
<1>3. CASE kill
  BY <1>2, <1>3 DEF kill, setup, IInv, TypeOK
<1>4. CASE start
  <2>1. phase = "stopped" => cancels = {} /\ writer = "idle"
    BY <1>0 DEF IInv, AllEnded, TypeOK, StopLeavesNothing
  <2>2. cancels' = {} /\ writer' = "idle"
    BY <1>4, <2>1 DEF start, outside, IInv, Quiet
  <2>3. failures' \in 0 .. MaxFailures
    BY <1>4, SupervisionConstants DEF start
  <2> QED BY <1>2, <1>4, <2>2, <2>3, DefaultIsConfig DEF start, outside
<1> QED BY <1>1, <1>3, <1>4

\* The invariant survives every step.
LEMMA NextIInv == IInv /\ [Next]_vars => IInv'
<1> SUFFICES ASSUME IInv, [Next]_vars PROVE IInv'
  OBVIOUS
<1>1. CASE UNCHANGED vars
  BY <1>1 DEF vars, IInv, TypeOK, Alive, Quiet, AllEnded, ServerOwned, StopLeavesNothing
<1>2. CASE Next
  BY <1>2, StartingIInv, RunIInv, AttemptIInv, TaskFailsIInv, CancelIInv, ThreadsIInv,
     AbortIInv, EndsIInv DEF Next
<1> QED BY <1>1, <1>2

----------------------------------------------------------------------------
(* The theorems *)

\* The inductive invariant holds of every reachable state.
THEOREM SupervisionInvariant == Spec => []IInv
  BY InitIInv, NextIInv, PTL DEF Spec

\* Type correctness: only living tasks are to be cancelled, and a thread writes the status
\* file only while the task that waits for it runs.
THEOREM SupervisionTypeOK == Spec => []TypeOK
<1>1. IInv => TypeOK
  BY DEF IInv
<1> QED BY <1>1, SupervisionInvariant, PTL

\* An orderly stop leaves neither status file nor writer, socket or served port, whatever
\* the tasks and the threads were doing when they were cancelled.
THEOREM OrderlyStopLeavesNothing == Spec => []StopLeavesNothing
<1>1. IInv => StopLeavesNothing
  BY DEF IInv
<1> QED BY <1>1, SupervisionInvariant, PTL
============================================================================

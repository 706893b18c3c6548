---------------------------- MODULE Supervision ----------------------------
(***************************************************************************)
(* The life of the daemon: configuration, start, the supervised tasks of    *)
(* BridgeService.run, and stop (mcubridge/daemon.py, services/runtime.py,    *)
(* config/, state/status.py, metrics.py, watchdog.py).                       *)
(*                                                                         *)
(* The tasks run in one event loop.  Beside it are two threads: the one that *)
(* writes the status file and the one that serves metrics.  An interrupt or  *)
(* a failure of the group cancels every task once; run() then waits for all  *)
(* of them and cleans up.  What the tasks do is in the other modules.         *)
(***************************************************************************)
EXTENDS Naturals

CONSTANTS
    Configs,       \* the UCI sections the daemon may find, see RawConfig
    MaxFailures    \* bound on the failures of tasks in one life of the daemon

Serial    == "serial-link"
Cloud     == "cloud-link"
Status    == "status-writer"
Metrics   == "metrics-publisher"
Snapshots == "bridge-snapshots"
Watchdog  == "watchdog"
Exporter  == "prometheus-exporter"
Ipc       == "ipc-server"

\* In the order in which run() creates them.
Created == <<Serial, Cloud, Status, Metrics, Snapshots, Watchdog, Exporter, Ipc>>
Tasks == {Created[i] : i \in 1 .. 8}

\* What UCI holds, as far as it matters here: `section` says whether it can be read,
\* `secret` is the text of the shared secret ("default" that of the built-in one),
\* `interval` the text of status_interval,
\* `beat` whether watchdog_interval is 0.5 s or more, `rules` whether the bounds that
\* compare two numbers or a path with a prefix hold.
RawConfig ==
    [section : BOOLEAN, secret : {"unset", "own", "default", "placeholder", "weak"},
     interval : {"unset", "five", "garbage"}, cloud : BOOLEAN, snapshots : BOOLEAN,
     watchdog : BOOLEAN, beat : BOOLEAN, metrics : BOOLEAN, rules : BOOLEAN]

ASSUME SupervisionConstants == Configs \subseteq RawConfig /\ MaxFailures \in Nat

VARIABLES
    raw, cfg,    \* the section in UCI and the configuration of this life of the daemon
    phase,       \* where app() is
    task,        \* where each supervised task is
    cancels,     \* tasks with a cancellation not yet delivered
    writer,      \* the thread that writes the status file
    file,        \* the status file exists
    socket,      \* the socket of the IPC server exists
    server,      \* the HTTP server of the exporter
    failures

vars == <<raw, cfg, phase, task, cancels, writer, file, socket, server, failures>>
setup   == <<raw, cfg>>
outside == <<writer, file, socket>>

Off == [t \in Tasks |-> "off"]

----------------------------------------------------------------------------
(* Configuration *)

\* MessageToDict renders a field of bytes as base64 text.
MessageToDict(bytes) == IF bytes = "default" THEN "base64 of default" ELSE bytes

get_default_config ==
    [secret |-> MessageToDict("default"), interval |-> 5, cloud |-> TRUE, snapshots |-> TRUE,
     watchdog |-> TRUE, beat |-> TRUE, metrics |-> FALSE, rules |-> TRUE]

\* A number that cannot be parsed becomes 0.  A text for a field of bytes is encoded as it
\* stands, that of the defaults too, which is not decoded from base64.
coerce_value(text) == IF text = "five" THEN 5 ELSE 0

\* UCI over the defaults; the defaults alone when UCI is missing, locked or corrupt.
load_raw_config(u) ==
    IF ~u.section THEN get_default_config
    ELSE [secret    |-> IF u.secret = "unset" THEN get_default_config.secret ELSE u.secret,
          interval  |-> IF u.interval = "unset" THEN get_default_config.interval
                        ELSE coerce_value(u.interval),
          cloud     |-> u.cloud, snapshots |-> u.snapshots, watchdog |-> u.watchdog,
          beat      |-> u.beat, metrics |-> u.metrics, rules |-> u.rules]

Config == [secret : {"default", "base64 of default", "own", "placeholder", "weak"},
           interval : {0, 5}, cloud : BOOLEAN, snapshots : BOOLEAN, watchdog : BOOLEAN,
           beat : BOOLEAN, metrics : BOOLEAN, rules : BOOLEAN]

\* The default secret has no minimum of distinct bytes to meet.
validate_config(c) ==
    /\ c.rules /\ (c.watchdog => c.beat)
    /\ c.secret \notin {"placeholder", "weak"}

\* The gate of app(), which compares the secret as loaded with the built-in one.
strict_mode(c) == IF c.secret = "default" THEN [c EXCEPT !.cloud = FALSE] ELSE c

----------------------------------------------------------------------------
(* Start *)

Init ==
    /\ raw \in Configs /\ cfg = get_default_config
    /\ phase = "boot" /\ task = Off /\ cancels = {}
    /\ writer = "idle" /\ file = FALSE /\ socket = FALSE
    /\ server = "none" /\ failures = 0

\* load_runtime_config: an invalid configuration ends the daemon.
load ==
    /\ phase = "boot" /\ cfg' = load_raw_config(raw)
    /\ phase' = IF validate_config(cfg') THEN "loaded" ELSE "exited"
    /\ UNCHANGED <<raw, task, cancels, outside, server, failures>>

\* verify_crypto_integrity ends the daemon when a known answer is wrong.
self_test_fails ==
    /\ phase = "loaded" /\ phase' = "exited"
    /\ UNCHANGED <<setup, task, cancels, outside, server, failures>>

\* The stores, the transport and the service are made, or cannot be.
create_runtime_state ==
    /\ phase = "loaded" /\ phase' \in {"created", "exited"}
    /\ UNCHANGED <<setup, task, cancels, outside, server, failures>>

\* The tasks the configuration asks for.
Wanted(c) ==
    {Serial, Cloud, Status, Metrics, Ipc}
       \cup (IF c.snapshots THEN {Snapshots} ELSE {})
       \cup (IF c.watchdog THEN {Watchdog} ELSE {})
       \cup (IF c.metrics THEN {Exporter} ELSE {})

\* The constructor of the exporter binds the port, or cannot.
exporter_init(c) == IF c.metrics THEN {"bound", "refused"} ELSE {"none"}

\* run() creates every task before any of them runs.  When the constructor of the exporter
\* raises, outside any supervisor, the tasks created so far are cancelled before they start.
run ==
    /\ phase = "created" /\ cfg' = strict_mode(cfg)
    /\ \E bound \in exporter_init(cfg) :
          \/ /\ bound # "refused" /\ phase' = "running" /\ cancels' = {}
             /\ task' = [t \in Tasks |-> IF t \in Wanted(cfg') THEN "ready" ELSE "off"]
             /\ server' = bound
          \/ /\ bound = "refused" /\ phase' = "stopping"
             /\ cancels' = Wanted(cfg') \ {Exporter, Ipc}
             /\ task' = [t \in Tasks |-> IF t \in cancels' THEN "ready" ELSE "off"]
             /\ UNCHANGED server
    /\ UNCHANGED <<raw, outside, failures>>

----------------------------------------------------------------------------
(* The supervised tasks *)

Alive(t) == task[t] \in {"ready", "running", "closing", "backoff"}

\* Nothing in the event loop runs while the exporter blocks it in shutdown().
LoopRuns == phase \in {"running", "stopping"} /\ server # "stuck"

\* The first steps of the tasks are taken in the order of their creation, before the loop
\* comes to anything else.
Waiting  == {t \in Tasks : task[t] = "ready"} \ cancels
IsFirst(t) ==
    \A i, j \in 1 .. 8 : Created[i] = t /\ Created[j] \in Waiting => i <= j
LoopTurns == LoopRuns /\ Waiting = {}

Runs(t)  == LoopTurns /\ task[t] = "running" /\ t \notin cancels
GoTo(t, s) == task' = [task EXCEPT ![t] = s]

\* The factories of the tasks, up to where each settles down to its work.
Settles(t, s) == GoTo(t, s) /\ UNCHANGED <<socket, server, failures>>

serial_run               == Settles(Serial, "running")
status_writer            == Settles(Status, "running")
publish_bridge_snapshots == Settles(Snapshots, "running")
watchdog_run             == Settles(Watchdog, "running")

\* Without its certificates the cloud link cannot start.
get_ssl_context_fails ==
    /\ failures < MaxFailures /\ failures' = failures + 1
    /\ GoTo(Cloud, "backoff") /\ UNCHANGED <<socket, server>>

\* A disabled cloud link returns at once.
run_cloud ==
    \/ Settles(Cloud, IF cfg.cloud THEN "running" ELSE "returned")
    \/ cfg.cloud /\ get_ssl_context_fails

\* An interval of 0 is rejected with a ValueError, every time.
publish_metrics == Settles(Metrics, IF cfg.interval > 0 THEN "running" ELSE "backoff")

\* The server unlinks an old socket and makes its own, or cannot.
run_ipc_server ==
    /\ UNCHANGED server
    /\ \/ GoTo(Ipc, "running") /\ socket' = TRUE /\ UNCHANGED failures
       \/ /\ failures < MaxFailures /\ failures' = failures + 1
          /\ GoTo(Ipc, "backoff") /\ socket' = FALSE

\* serve_forever is handed to the executor; after the first end of the task there is no
\* server left to ask.
exporter_run ==
    \/ /\ server = "bound" /\ server' = "queued" /\ GoTo(Exporter, "running")
       /\ UNCHANGED <<socket, failures>>
    \/ server = "closed" /\ Settles(Exporter, "backoff")

Factory(t) ==
    CASE t = Serial -> serial_run         [] t = Cloud -> run_cloud
      [] t = Status -> status_writer      [] t = Metrics -> publish_metrics
      [] t = Watchdog -> watchdog_run     [] t = Snapshots -> publish_bridge_snapshots
      [] t = Exporter -> exporter_run     [] t = Ipc -> run_ipc_server

\* supervise() calls the factory, at first and after each wait.
attempt(t) ==
    /\ LoopRuns /\ t \notin cancels
    /\ \/ task[t] = "ready" /\ IsFirst(t)
       \/ task[t] = "backoff" /\ Waiting = {}
    /\ Factory(t)
    /\ UNCHANGED <<setup, phase, cancels, writer, file>>

Falls(t) ==
    /\ Runs(t) /\ failures < MaxFailures /\ failures' = failures + 1
    /\ t \notin {Serial, Watchdog} /\ (t = Exporter => server = "serving")
    /\ (t = Status => writer = "idle")
    /\ server' = IF t = Exporter THEN "closed" ELSE server
    /\ UNCHANGED <<setup, phase, cancels, outside>>

\* Mutant: the supervisor gives up at the first failure.
failsForGood(t) == Falls(t) /\ GoTo(t, "returned")

\* A task raises what it does not handle itself, and supervise() waits before the next
\* attempt.  The exporter closes its server and forgets it.  The serial link handles all
\* its errors (connection_fails) and the watchdog raises none.
fails(t) == Falls(t) /\ GoTo(t, "backoff")

\* The session with the cloud ends cleanly: the task returns and is not started again.
cloud_returns ==
    /\ Runs(Cloud) /\ GoTo(Cloud, "returned")
    /\ UNCHANGED <<setup, phase, cancels, outside, server, failures>>

\* _connect_and_run fails: if its read loop still runs it cancels the loop and awaits it;
\* the retryer of SerialTransport.run waits before it connects again.
connection_fails ==
    /\ Runs(Serial) /\ failures < MaxFailures /\ failures' = failures + 1
    /\ GoTo(Serial, "closing") \/ GoTo(Serial, "backoff")
    /\ UNCHANGED <<setup, phase, cancels, outside, server>>

\* The read loop has ended.
connection_closed ==
    /\ LoopTurns /\ task[Serial] = "closing" /\ GoTo(Serial, "backoff")
    /\ UNCHANGED <<setup, phase, cancels, outside, server, failures>>

\* status_writer starts a thread that writes the file, and waits for it.
write ==
    /\ Runs(Status) /\ writer = "idle" /\ writer' = "writing"
    /\ UNCHANGED <<setup, phase, task, cancels, file, socket, server, failures>>

\* The thread replaces the file, or logs why it could not.
written ==
    /\ writer = "writing" /\ writer' = "idle" /\ (file' = TRUE \/ UNCHANGED file)
    /\ UNCHANGED <<setup, phase, task, cancels, socket, server, failures>>

\* A thread of the executor takes up serve_forever.
serve ==
    /\ server = "queued" /\ server' = "serving"
    /\ UNCHANGED <<setup, phase, task, cancels, outside, failures>>

----------------------------------------------------------------------------
(* Stop *)

\* The group cancels its tasks, once.  A serial link that awaits its cancelled read loop
\* takes the cancellation for that of the loop, and goes on.
abort ==
    /\ phase' = "stopping"
    /\ cancels' = {t \in Tasks : Alive(t) /\ task[t] # "closing"}

\* The socket is removed; what else it clears is in the other modules.
cleanup == socket' = FALSE

\* SIGINT: asyncio.Runner cancels run().  Before that, it raises KeyboardInterrupt in
\* app(), which calls cleanup() if the service is there.
interrupt ==
    /\ \/ phase = "running" /\ LoopTurns /\ abort /\ UNCHANGED socket
       \/ /\ phase \in {"boot", "loaded", "created"} /\ phase' = "exited" /\ UNCHANGED cancels
          /\ UNCHANGED socket \/ (phase = "created" /\ cleanup)
    /\ UNCHANGED <<setup, task, writer, file, server, failures>>

\* A task of the group that nobody supervises, the monitor of a process, raises.
group_fails ==
    /\ phase = "running" /\ LoopTurns /\ abort
    /\ UNCHANGED <<setup, task, outside, server, failures>>

Leaves(t) ==
    /\ LoopRuns /\ t \in cancels
    /\ LET blocks == t = Exporter /\ task[t] = "running" /\ server = "queued"
       IN IF blocks THEN server' = "stuck" /\ UNCHANGED <<task, cancels>>
          ELSE /\ GoTo(t, "ended") /\ cancels' = cancels \ {t}
               /\ server' = IF t = Exporter /\ server = "serving" THEN "closed" ELSE server
    /\ UNCHANGED <<setup, phase, outside, failures>>

\* Mutant: the status writer does not wait for its thread.
cancelAtOnce(t) == Leaves(t)

\* Mutant: supervise() takes the cancellation for a failure; only the serial link, which
\* handles it itself, ends.
cancelRetried(t) ==
    /\ LoopRuns /\ t \in cancels /\ (t = Status => writer = "idle")
    /\ GoTo(t, IF t = Serial THEN "ended" ELSE "backoff") /\ cancels' = cancels \ {t}
    /\ UNCHANGED <<setup, phase, outside, server, failures>>

\* A task is given its cancellation and ends.  The status writer first waits for the write
\* in progress.  The exporter calls shutdown(), which waits for serve_forever to end; that
\* cannot happen when no thread has taken it up, for the cancellation has withdrawn it.
cancel(t) == (t = Status => writer = "idle") /\ Leaves(t)

\* The group is left when no task is alive: run() closes the stores, cleanup() removes the
\* socket, and the status file is unlinked.
finish ==
    /\ phase = "stopping" /\ LoopRuns /\ \A t \in Tasks : ~Alive(t)
    /\ phase' = "stopped" /\ cleanup /\ file' = FALSE
    /\ UNCHANGED <<setup, task, cancels, writer, server, failures>>

\* SIGTERM, for which there is no handler: the process is gone, its files stay.
kill ==
    /\ phase \notin {"stopped", "exited", "killed"} /\ phase' = "killed"
    /\ task' = Off /\ cancels' = {} /\ writer' = "idle" /\ server' = "none"
    /\ UNCHANGED <<setup, file, socket, failures>>

\* procd starts the daemon again, with the section that UCI holds by then.
start ==
    /\ phase \in {"stopped", "exited", "killed"} /\ phase' = "boot"
    /\ raw' \in Configs /\ cfg' = get_default_config
    /\ task' = Off /\ server' = "none" /\ failures' = 0
    /\ UNCHANGED <<cancels, outside>>

Next ==
    \/ load \/ self_test_fails \/ create_runtime_state \/ run
    \/ \E t \in Tasks : attempt(t) \/ fails(t) \/ cancel(t)
    \/ cloud_returns \/ connection_fails \/ connection_closed \/ write \/ written \/ serve
    \/ interrupt \/ group_fails \/ finish \/ kill \/ start

\* The event loop resumes whoever can go on and the threads run on.  The environment may
\* leave alone what it causes: failures, signals, a thread for serve_forever, a restart.
Fairness ==
    /\ \A t \in Tasks : WF_vars(attempt(t))
    /\ WF_vars(\E t \in Tasks : cancel(t))
    /\ WF_vars(connection_closed) /\ WF_vars(written) /\ WF_vars(finish)

Spec == Init /\ [][Next]_vars /\ Fairness

----------------------------------------------------------------------------
(* Properties *)

TypeOK ==
    /\ raw \in Configs /\ cfg \in Config
    /\ phase \in {"boot", "loaded", "created", "running", "stopping", "stopped", "exited", "killed"}
    /\ task \in [Tasks -> {"off", "ready", "running", "closing", "backoff", "returned", "ended"}]
    /\ cancels \subseteq {t \in Tasks : Alive(t)}
    /\ writer \in {"idle", "writing"} /\ file \in BOOLEAN /\ socket \in BOOLEAN
    /\ server \in {"none", "bound", "queued", "serving", "closed", "stuck"}
    /\ (writer = "writing" => task[Status] = "running")
    /\ failures \in 0 .. MaxFailures

\* "Status file cleanup on exit": a daemon that stopped in order leaves neither a status
\* file nor a thread that would still write one, nor its socket, nor a served port,
\* whatever was going on when the tasks were cancelled.
StopLeavesNothing ==
    phase = "stopped" => ~file /\ writer = "idle" /\ ~socket /\ server # "serving"

\* "Test that the daemon disables CLOUD when the default secret is used"
\* (tests/test_daemon_assertions.py:76): while the operator has set no secret of its own no
\* session with the cloud is open, or will be tried.  It does not hold: the default is
\* loaded as its own base64 text, which the strict mode does not recognise.
DefaultSecret == ~raw.section \/ raw.secret \in {"unset", "default"}
NoCloudWithoutSecret == DefaultSecret => task[Cloud] \notin {"running", "backoff"}

\* A stop that began ends, except in two ways this code has of never ending: the exporter
\* blocks the loop, or the serial link has missed its cancellation and runs on.
MissedCancellation == Alive(Serial) /\ Serial \notin cancels
StopCompletes ==
    (phase = "stopping") ~> (phase # "stopping" \/ server = "stuck" \/ MissedCancellation)

\* While the daemon runs, a supervised task that is down comes back, however it failed:
\* all but the cloud link, which may have returned, the publisher of metrics when its
\* interval is 0, and the exporter, which cannot start twice.
ComesBack ==
    \A t \in Tasks \ {Cloud, Exporter} :
       (phase = "running" /\ task[t] # "off" /\ (t = Metrics => cfg.interval > 0))
          ~> (task[t] = "running" \/ phase # "running" \/ server = "stuck")
============================================================================

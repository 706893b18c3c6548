# A verification project for the Arduino Yun bridge

TLA+ modules, TLC models and TLAPS proofs for the bridge between a Linux daemon
(Python, `src/mcubridge`) and a microcontroller (C++,
`src/mcubridge-library-arduino`) over one serial line. `PROJECT.json` maps every
definition to the lines it models and lists runs, mutants, findings, hazards and
theorems.

## The system

| Part | State | Operations | Talks to | Module |
| --- | --- | --- | --- | --- |
| MCU link layer (`Bridge.cpp`, `Bridge.h`, `fsm/`) | link state machine, queue and buffer pool of reliable frames, retry counter and limit, timers, duplicate history, session key and nonce counters, flow-control flags, pins | handle a received frame, send, ACK timeout, handshake timeout, XON/XOFF signalling, start-up | daemon, by frames; services, by calls | `McuLink` |
| MCU services (`services/*.cpp`) | console buffers, mailbox, pending reads | react to responses, send | link layer | what they send: `McuLink` |
| Daemon serial transport (`transport/serial.py`) | connection, `_current` pending command, `_flow_lock`, sequence id, CRC error count | `send`, `send_raw`, `_read_loop`, connect, reset, baud negotiation | MCU, by frames; `BridgeService`, by callbacks | `SerialTransport`, `LinkSession` |
| Daemon handshake (`services/handshake.py`, `state/context.py`) | nonce, expected tag, link state, state machine, session key, nonce counter | `synchronize`, `handle_link_sync_resp`, failure handling | transport, runtime state | `LinkSession` |
| Cloud publisher (`services/runtime.py`) | publish queue, lock, spool, stream | `enqueue_cloud`, publish, spool, flush, session | cloud, storage | `CloudSpool`, `Outbox` |
| Storage (`state/storage.py`) | rows on disk, cached length | append, popleft, peek, vacuum, recreate | publisher, mailboxes | `SqliteDeque` |
| Processes (`services/runtime.py`) | process table, slots, lock | run, monitor, poll, kill | operating system | `ProcessSlots` |
| Requests (`services/runtime.py`) | IPC correlations, response queues, pending pin and file reads, mailboxes | `Publish`, `handle_request`, one handler per topic, one per MCU frame | clients, cloud, transport | `Requests`, `SerialTransport` |
| Life of the daemon (`daemon.py`, `config/`, `metrics.py`, `status.py`, `watchdog.py`) | configuration, supervised tasks, status file, socket, HTTP server, two threads | load, start, supervise, stop | everything | `Supervision` |
| Gateway, client library, LuCI, generator, tools | - | - | - | none |

What is hard here:

* The firmware is one loop and its handlers are atomic, but one "wait for an ACK" is
  spread over five members (state machine, queue, `_last_command_id`, timer, retry
  counter) that acknowledgements, timeouts, link resets, safe-state entries and
  duplicates each change in part.
* The daemon is one asyncio loop in which cloud requests, the read loop and the
  connection task share one lock and one pending command, and suspend at the lock,
  at the flow-control gate, for the answer, and between attempts. The read loop
  itself sends.
* A handler runs inside the read loop and may wait there, for flow control, for a
  process slot or for the cloud, or raise what the loop does not catch; then the clean-up
  after the connection is skipped.
* The line loses, repeats and delays. Retries meet late answers; XOFF meets frames
  already released; a disconnection meets all of these. A handshake that was given
  up is answered in the middle of the next one.
* Every operation of the spool is several awaits on a database of its own connection,
  with a count kept in memory beside it; any error deletes the database. The spool
  survives restarts, the count does not.
* Process ids are cut to 16 bits and three parties remove entries of one table.
  Correlation data is chosen by the clients.
* A stop cancels every task once, wherever it is; two threads run on beside the loop.

What makes each part correct: the link layer never leaks a buffer, never waits for
ever or for the wrong frame, and is safe in FAULT; the transport has one command in
flight, always returns, reconnects, and loses a console payload only in ways that are
known; the handshake leaves both ends with one key or
none and always comes to a verdict; the spool delivers at least once, in order, and
loses nothing for nothing; a slot is released exactly once per process; an answer
reaches who asked; a stopped daemon leaves nothing behind.

## Modules

### McuLink

One variable, `mcu`, the record of the members of `BridgeClass`; `Bridge.h` lists
them in the same order. Every function of the class that changes state is an
operator from record to record with the function's name, composed as the code
composes them, so a handler with everything it calls is one step. `mcu.tx` collects
what a handler writes to the UART and is empty between handlers.

| Actions | Code |
| --- | --- |
| `Receive` | `_handleReceivedFrame` with decryption, anti-replay, `_dispatchCommand`, duplicate check, security check, `_dispatchCmd`, handler |
| `ReceiveCorrupt` | a packet that does not parse |
| `ServiceSend`, `SketchSendFrame` | the two ways to send: `Bridge.send` (a service) and the public `sendFrame` |
| `AckTimeout`, `HandshakeTimeout` | the two timers, run by `_timerTask` |
| `SerialTask` | XOFF and XON at the marks of the receive buffer |
| `Reboot` | a restart of the firmware, through `begin()` |

Abstractions. A session key is the nonce it is derived from, the shared secret being
fixed; an encrypted frame carries its key and counter. The dispatch table is
represented by one command per shape (acknowledged and executed once; a query
answered again on a duplicate; a response, neither). `driven` says whether a pin is
out of its safe state. Numbers keep their widths: `_retry_count` and `_retry_limit`
wrap at 256, nonce counters at `CounterRange` (2^64 in the code). A failing
`pb_encode` or AEAD call is left out: the payloads fit their buffers. The
`TIMER_RX_DEDUPE` timer is registered and never started in the code (`begin`), so it
is not an action. CMD_SET_BAUDRATE and CMD_ENTER_BOOTLOADER are not modelled.

### SerialTransport

The daemon's side of the line. The actors are the coroutines of cloud requests
(`Task`), `_read_loop` (`Loop`) and `_connect_and_run` (`Run`). An action is what a
coroutine does between two suspensions: `pc` says where each is suspended (`lock`: in
the FIFO queue of `_flow_lock`; `gate`: waiting for `serial_tx_allowed`; `woken`:
released from it and not yet run; `wait`: for the answer; `backoff`: between attempts;
`service`: a handler, or `on_serial_connected`, waits outside the link; `leaving`:
`_connect_and_run` on its way to its `finally` clause).

| Actions | Code |
| --- | --- |
| `Request`, `ConsoleRequest` | `handle_request`, `_handle_console` |
| `Begin`, `PassGate`, `Complete`, `ResponseTimeout`, `Resume` | `send`, its `_send_attempt` and `send_raw` |
| `TooLarge`, `Cancel` | `build_frame` refuses a chunk; the worker of a cloud session is cancelled |
| `Read` | one packet: `_correlate_frame`, then the handler up to its first suspension |
| `Served`, `PublishVersion` | the end of a wait for a process slot or for the cloud |
| `WriteResponse`, `WriteAck` | what a handler sends in reply, and the acknowledgement, after a wait for the gate |
| `HandlerRaises` | an exception of a handler, which `_read_loop` catches (`ended`) or not (`raised`) |
| `Lose`, `LoopEnds` | the device goes; the read fails |
| `Connect`, `Disconnect`, `Reset` | `_connect_and_run`, `on_serial_connected`, `on_serial_disconnected`, `reset` |
| `Escape` | `await read_task` raises again in the `finally` clause: the port is closed and nothing cleaned up |

The MCU is the environment: `Read` picks any frame, which covers lost, late, repeated and
wrong answers, and ACKs whose payload is empty or does not decode, which the code takes
for the pending command's. `EVENT` stands for the commands the MCU originates: each
`on_mcu_...` is the set of what its handler may write (the acknowledgement, a response
before it, a refusal instead), `setup_mcu_registry` collects them; any handler may wait
before that. The wait for a process slot (`_run_process`) and those for the cloud
(`enqueue_cloud`, also for a status and for the events of the handshake) are one place,
`service`, which nothing need ever end. A file is sent in one piece. The handshake is a
choice of `Connect` between a synchronized link, an unsynchronized one and an exception;
frames carry no sequence ids or nonces. The console payload is a token and its chunks a
count; of a `Large` one (more than 62 bytes) every chunk but the last exceeds an encrypted
frame, the last is taken to be short. `send` can be left by an exception or a cancellation
in any place (`Interrupted`), with the payload in hand lost. Two details the model keeps:
`Event.set` releases waiters that run later, after what the event has become by then; and
`completion` is not cleared between attempts, so an answer in the pause makes the next
attempts write and give up at once.

### LinkSession

`SerialHandshakeManager`, the connection and the packet checks of the transport, and
the link state, composed with the reactions of the firmware they depend on (`m` is what
is left of `McuLink` here: state machine, key, counter, rate) over a FIFO line that
loses or garbles any frame. `Run` is `_connect_and_run` with `synchronize`, `Loop` is
`_read_loop`; they interleave at every await of an attempt, so an answer to an
abandoned attempt arrives in the middle of the next.

| Actions | Code |
| --- | --- |
| `connect`, `negotiate`, `disconnect` | `_connect_and_run`, `_negotiate_baudrate`, `on_serial_disconnected` |
| `connected_raises`, `read_fails` | an exception of `on_serial_connected`; the read loop ends, by an error it catches or by one it does not, after which `disconnect` is skipped |
| `attempt`, `sync`, `confirming`, `confirm`, `send_fails` | `_synchronize_attempt` between its awaits |
| `retry` | the retryer of `synchronize` |
| `malformed`, `fallback_timeout`, `set_baudrate_resp` | `_process_packet` and the baud-rate fallback inside the read loop |
| `link_sync_resp`, `link_sync_failure` | `handle_link_sync_resp` before and after it sends its negative acknowledgement |
| `application_frame` | anti-replay check of a frame of the session |
| `mcu_receives`, `mcu_sends`, `mcu_fails`, `line_fails` | the firmware and the line |

STATUS_MALFORMED puts the MCU into its safe state: unsynchronized, with transmission off,
and a SYNC alone takes it back into a session. A rejected SYNC leaves it `out`, until a
CMD_LINK_RESET. A key is the nonce it is derived from. `setup` varies the installation: another rate
than the safe one, a firmware that answers CMD_SET_BAUDRATE or, like this one, does
not, the MCU's secret (the same, another, none), the rate limit on answers. Left out:
frames the daemon sends within the session, statistics, and the request for
capabilities two seconds after a handshake (two overlapping ones share
`_capabilities_future`).

### SqliteDeque, CloudSpool, Outbox

`SqliteDeque` is the class as functions from a deque (rows on disk, `_length` in
memory) to the set of outcomes of an operation: success, or a failure that recreates
the database (or fails to) and tries once more. `CloudSpool` is `enqueue_cloud`, the
flush and the session over it.

| Actions | Code |
| --- | --- |
| `enqueue_cloud`, `publish`, `trim`, `keep` | `enqueue_cloud`, `_publish_cloud_message`, `_spool_cloud_message_locked` between their awaits |
| `flush_start`, `flush_peek`, `flush_send`, `flush_pop`, `flush_end` | `_flush_cloud_spool_locked` |
| `connect`, `send_cloud_event`, `session_ends` | `connect_cloud_session`, and the cancellation of its worker |
| `crash` | the daemon stops and starts on the same disk |

`fate` records what has become of each message. `Outbox` is what the publisher
promises, without coroutines, lock or storage: messages are accepted, sent, kept in
order and given up, and one leaves the queue only after it was sent, as the oldest when
room is needed, or with all others when the storage fails. The refinement maps the rows
to its queue, `sends` to `sent`, and the messages in the hands of a publisher to
`fresh`.

The limit is any number, since `validate_config` accepts any. `append` deletes by its count
and not by the rows: with the limit 0, or with 1 and a count left too high by a failed
append, it deletes the row it has just inserted and reports success (`evicted`). With room
for two the trim before it always leaves enough. `Outbox` has the same limit, and lets a
queue of 0 or 1 keep less than it takes.

An operation of the spool is one step here, also for a cancellation; `Requests` takes the
operations of the same class apart, for the mailboxes.

### ProcessSlots

Processes are tokens with a 16-bit id that may coincide. `Serve` is `_run_process`
(`acquire`, `spawn`, `register`) and then `_monitor_process`; `kill_start`/`kill_end`
are both kill handlers, `poll_start`/`poll_end` the poll under `process_lock`. `leaked`
counts the slots nobody will release, in the three ways the code has: a command that
shlex rejects, an older process with the same id, a cancelled `_run_process`. A
`ProcessLookupError` in the monitor ends the task group (`monitor_fails`).

### Requests

One call is one request with the coroutine that handles it. `handle_request` picks a
job among those the topic, its authorization and the handler allow (`Jobs`): no answer,
an answer, an exception, a tracked command, a pin read, an MCU file read, a shell command,
a message written to or taken from a mailbox. The wait for the link before it ends either
way; that of a shell command for a process slot (`slot`) may not.

| Actions | Code |
| --- | --- |
| `request`, `wait`, `cancel` | `LocalBridgeService.Publish`, and the cloud worker's queue |
| `handle_request`, `get_slot`, `raise`, `answer` | `handle_request` with `parse_topic`, `allows_topic`, `_reject_cloud` and the `_handle_...` methods; `enqueue_cloud` up to the response queue |
| `send`, `send_pin`, `send_pin_fails`, `read_start`, `read_send`, `read_end` | `send`, `_handle_pin`, `_handle_file_mcu_read` |
| `on_pin_resp`, `on_file_read_resp`, `lose`, `disconnect`, `escape` | frames of the MCU, `on_serial_disconnected`, and a connection that ends without it |
| `mailbox_push`, `mailbox_pushed`, `write`, `wrote`, `mailbox_read`, `mailbox_sent`, `take`, `took` | the two mailboxes, `append` and `popleft` split at their awaits |

`append` counts its row before it deletes the oldest one of a full mailbox, so a writer
cancelled at that deletion leaves the count one above the rows for good, and every later
append deletes one row more than it should: `cut` counts these. The client of a write is
cancelled when it goes, the read loop with the connection.

What becomes of an answer on its way to the cloud is in `CloudSpool`, of a process in
`ProcessSlots`, failures of the database in `CloudSpool`. The digital and the analog
reads have a queue each; the model has one of them.

### Supervision

`app()` from the configuration to its end, with the tasks of `BridgeService.run` in the
order of their creation. `load` translates the fields of the configuration that decide
something, and what becomes of the secret on its way: the default passes through the
base64 of `MessageToDict` and is not decoded again; `run` creates the tasks, or fails in
the constructor of the exporter; `attempt` and `fails` are `supervise`; `interrupt` and
`group_fails` cancel the group, `cancel` delivers one cancellation, `finish` is the
`finally` of `run`; `kill` is SIGTERM, for which there is no handler although the
docstring of `daemon.py` (line 13) says "Graceful shutdown on SIGTERM/SIGINT"; `start` is
procd. The thread that writes the status file (`write`, `written`) and the one that serves
metrics (`serve`) run beside the loop, which stands still while `shutdown()` blocks it.

### MC modules

`MCMcuLink`, `MCSerialTransport`, `MCLinkSession`, `MCCloudSpool`, `MCProcessSlots`,
`MCRequests` and `MCSupervision` only add model values, sets and the installations to
try. `MCSerialConfirm` restricts the MCU of `SerialTransport` to one that answers only what
was written to it on the present connection.

## Runs

| Run | Shows | Bounds |
| --- | --- | --- |
| `mcu_link` | the six properties of `McuLink` | two reliable commands, queue of 2, sequence ids 0 and 1, history of 1, counters modulo 2, retry limits 1 and 256 (truncated to 0) beside the default 2, with and without secret, self tests that pass or fail |
| `serial_transport` | the six properties of `SerialTransport` | one caller besides the read loop and the connection task, two console payloads, one of them of two chunks, a queue of 1, two attempts |
| `link_session` | the five properties of `LinkSession` | three nonces, two attempts per handshake, two malformed frames to a fallback, two frames in flight each way; at one rate two frames per session and the same secret, another, none; with a rate to negotiate one frame per session, a firmware that answers and one that does not |
| `cloud_spool` | the six of `CloudSpool`, with the refinement | two tasks, a worker and the session, four messages, a spool of 2, two faults, spools left by an earlier run: empty, with a corrupt row, over the limit |
| `process_slots` | the four of `ProcessSlots` | three commands, two of them with the same id, two slots, one kill handler and one poll |
| `requests` | the five of `Requests` | two or three calls, with the same correlation data twice, or from cloud and client at once; two pending pin reads, two attempts, mailboxes of 1, two pushes and one that is cut |
| `supervision` | the four of `Supervision` | two failures in a life of the daemon, seven configurations |
| `mcu_flow` | violated: the safe state leaves transmission off for good | the daemon's commands only, queue of 1 |
| `mcu_auth` | violated: a rejected handshake leaves pins driven | as above |
| `serial_paused` | violated: the daemon writes while paused | one caller |
| `serial_confirm` | violated: a late ACK confirms a command that was not written | one caller, an MCU that answers only what was written |
| `supervision_secret` | violated: the cloud link runs with the built-in secret | no failures |

The bounds are enough for the cases. `mcu_link`: a queue of 2 has a frame awaited and a
frame behind it, a history of 1 has a duplicate and an eviction, two retries have one
that is resent and one that gives up. `serial_transport`: a caller, the read loop and
the connection task contend for the lock, one of them holding it and two waiting (more callers,
and any number of payloads, are in the proofs of its invariants); two payloads on a queue of 1
make it overflow at either end, two chunks make a payload fail half sent, and the one
chunk that is too large be refused at the gate, after a pause or at once.
`link_session`: two attempts and a third nonce have an attempt abandoned, one given up
and a second session; two frames have a first and a replayed one in each. Where
another rate is negotiated one frame is enough, as the handshake sees of it only the rate.
`cloud_spool`:
four actors on one lock, a spool that is trimmed, and two faults have a failure during
the recovery from another. `process_slots`: three commands on two slots have one wait,
and both an id taken over and one of its own. `requests`: two calls at once have two
readers of one mailbox; three writes, or three pushes, to a mailbox of 1 have one cut
when it is full and one that finds it so. `supervision`: two failures have a task fail
again after its restart, and two tasks down at once. Where a run has no deadlock check
the system may really come to rest: no request is left, or a bound is used up.

Properties of `McuLink`: the types and the queue's capacity (`TypeOK`); the members
that describe a wait agree (`AwaitingFrameInv`); no buffer leaks or is
released twice (`PoolBalance`); with a secret no pin is driven in FAULT
(`FaultIsSafe`); an awaited frame is not replaced and its retries not forgotten
(`AwaitedFrameKept`); no wait lasts for ever (`AwaitingEnds`).

Properties of `SerialTransport`: `TypeOK`; the one pending command belongs to the
holder of the lock (`SequentialFlow`), so that `reset()` in fact never finds one to
abort; a console payload is in exactly one place until it is delivered, dropped by the
bound, refused for its size or cancelled with its flush (`ConsoleConserved`); a pause ends
with a connection that is cleaned up after (`PauseEndsWithConnection`);
every call returns (`SendReturns`); a connection that was lost, or whose read loop
ended for whatever reason, is replaced (`LinkRecovers`), unless the read loop or
`on_serial_connected` waits for ever for a process slot or for the cloud. Two promises of
the documents beyond these are violated: an ACK that confirms a command received
(`ConfirmedIsWritten`) and silence while paused (`PausedIsSilent`).

Properties of `LinkSession`: two ends that both hold the link synchronized hold the same
key (`KeyAgreement`); the three places in which the daemon notes that it is synchronized
agree, and the port is open but for a connection whose clean-up was skipped
(`SyncVisible`); replay protection refuses no fresh frame of the first session
(`FreshAccepted`; it does in later ones, because the daemon keeps its counter and the
firmware starts from zero, which the property says by its exception); `synchronize` always
returns (`VerdictReached`).

Properties of `CloudSpool`: no message disappears for nothing (`NothingSilent`). A message
in nobody's hands, in no row and never sent was refused to its caller or counted as dropped
or trimmed; or it was struck by a failure, which leaves no count: the database recreated
over it, an exception of the stream or the end of the session out of its call, a crash; or
its own append deleted it, which takes the limit 0, or the limit 1 and a failure before.
The run has the limit 2; for the limits 0 and 1 this is what the proof shows.
Without failures each is sent once and in order (`OnceAndInOrder`); a repetition costs a
failure (`RepetitionNeedsFailure`); every call ends (`EnqueueReturns`); it implements
`Outbox` (`RefinesOutbox`).

Properties of `ProcessSlots`: no slot is released twice or vanishes but in the ways named
above (`SlotsConserved`); a poll removes the entry of the process it reported on
(`PollRemovesItsOwn`); a waiting command gets a slot unless all have leaked
(`SlotComes`).

Properties of `Requests`: an answer goes to its own request, or to one with the same
correlation data, and is made of what the MCU sent for it unless a response was lost or
came late (`OwnAnswer`); a pushed message is kept, given or displaced by newer ones,
and each append cut at a full mailbox costs it one place and no more (`PushedKept`); the
counts of the mailboxes exceed their rows by those cuts at most, and what the MCU is told
by the message being written besides (`NoPhantoms`); all requests come to an end
(`CallsEnd`), but for a shell command that waits for a slot, and the cloud requests behind
it in the worker's queue: such a one holds up none of the others.

Properties of `Supervision`: an orderly stop leaves no status file, writer, socket or
served port (`StopLeavesNothing`); a stop ends (`StopCompletes`), but for two cases the property
names: the exporter blocked in `shutdown()`, and a serial link that swallowed its
cancellation while it awaited its read task; a task that is down comes back
(`ComesBack`), but for the cloud link, which a clean end of the session stops for good,
the publisher of metrics with an interval of 0, and the exporter, which has no server
for a second start.

### Fairness

`McuLink` assumes only that a running ACK timer keeps firing: `process()` ticks the
timers on every turn. A duplicate query retransmits and restarts the timer without
counting a retry, so the code gives this only while duplicates do not arrive faster
than the ACK timeout for ever. `SerialTransport` assumes weak fairness of each
coroutine's own steps: asyncio runs what is ready and fires due timers, `asyncio.Lock`
is first come first served (the queue is in the model, not in the fairness), and the waits
for the link have a timeout (response, flow control, backoff). Those for a process slot and
for the cloud have none, and get no fairness (`Served`, `PublishVersion`; `get_slot` in
`Requests`). `LinkRecovers` also assumes
that the device can be opened again, the retryer of `run()` having no limit (the one
error it does not retry, `SerialHandshakeFatal`, is never raised by the daemon's code). Callers,
the MCU and the loss of the device get no fairness. `SendReturns` covers a finite
number of console payloads: with an endless supply one caller may flush for the
others for ever.

The other modules assume the same of the event loop: weak fairness of each coroutine of
`CloudSpool` (an operation of the database or the stream ends one way or another; the
session, the publishers and crashes get none), of the two tasks of `LinkSession` and of
the MCU's reading of its port, of the handling of calls in `Requests`, of attempts,
cancellations, the status writer's thread and the stop in `Supervision` (not of failures,
signals, restarts or the thread for `serve_forever`). `ProcessSlots` has strong fairness
for each command, because `asyncio.Semaphore` serves its waiters in order and the model
has no queue for it: a command is not passed over for ever.

## Proofs

Every invariant of the passing runs, the action properties `AwaitedFrameKept` and
`PollRemovesItsOwn`, and the refinement of `Outbox` are proved for every value of the
constants the assumptions allow: any number of callers, messages, processes, calls and
frames, any size of queue, pool, history and mailbox, any limit. Each module has a
module of proofs with the same plan: an inductive invariant `IInv`, one lemma per
action that keeps it (and under it a step per part that the action disturbs), the
theorem `Spec => []IInv`, and the properties as consequences.

| Module | Invariants proved | More |
| --- | --- | --- |
| `McuLinkProofs` | `TypeOK`, `AwaitingFrameInv`, `PoolBalance`, `FaultIsSafe` | `AwaitedFrameKept` |
| `SerialTransportProofs` | `TypeOK`, `SequentialFlow`, `ConsoleConserved`, `PauseEndsWithConnection` | |
| `LinkSessionProofs` | `TypeOK`, `KeyAgreement`, `SyncVisible`, `FreshAccepted` | |
| `CloudSpoolProofs` | `TypeOK`, `NothingSilent`, `RepetitionNeedsFailure`, `OnceAndInOrder` | `RefinesOutbox` |
| `ProcessSlotsProofs` | `TypeOK`, `SlotsConserved` | `PollRemovesItsOwn` |
| `RequestsProofs` | `TypeOK`, `PushedKept`, `NoPhantoms`, `OwnAnswer` | |
| `SupervisionProofs` | `TypeOK`, `StopLeavesNothing` | |

`QueueLemmas` has what the proofs share about sequences: a queue that lists a set of
actors without repetition, and what `Append`, `Tail` and `RemoveFirst` do to it.

### The inductive invariants

`McuLink`: `Good` is `Weak` (types, pool balance, safe pins in FAULT) and
`AwaitingFrame`. None of the parts is inductive alone: that a buffer is free for a new
frame needs the pool to balance; that a retransmission finds a frame needs the wait to
have one; that the pins stay safe in FAULT needs every received application command to be
refused there, which rests on the state machine. The strengthening is split because in
the middle of a handler `AwaitingFrame` does not hold (the queue is cleared before the
state machine moves): lemmas for such operators assume `Weak` only, and the callers
re-establish the rest. There is one lemma per operator and `SameLink` for those that
only write frames; `dispatchCommand` and the actions combine them. `AwaitedFrameKept`
goes the same way, with the relation `Kept` between the states before and after an
operator; that the 8-bit retry counter does not wrap follows from `AwaitingFrame`.

`SerialTransport`: the queue of `_flow_lock` lists exactly the actors that wait or hold
(`LockOrdered`), the job of an actor fits where it is suspended (`JobsFit`), so that one
pending command belongs to the head of the queue (`OneInFlight`), and a payload is in the
queue once or in one pair of hands (`ConsoleAccounted`). A flush is part of three
actions, so console and lock are predicates of values with a lemma per operation; one more
is for a `send` that is left by an exception or a cancellation, whose actor may be anywhere
in the queue of the lock. `Closing` says that `reset()` runs on an open gate.

`LinkSession`: key agreement rests on the order of nonces. Attempts use growing nonces
and the line keeps its order, so what is on its way to the MCU is newer than both keys
and than every answer on its way back (`SyncsInOrder`, `AnswersOlder`); a synchronized
MCU has the key of its last answer (`McuAhead`); the daemon accepts only the nonce of
its present attempt (`OwnKey`). `Numbered` relates the counters of the frames in flight
to those of both ends, for `FreshAccepted`.

`CloudSpool`, in four layers. `IInv`: who holds the lock (`Control`), a message is in the
hands of one publisher until its fate is settled (`Hands`), is one row at most (`Stored`),
its sends are recorded (`Recorded`), and a coroutine in the middle of a flush still finds
the row it read (`Ready`); `Counted` bounds the cached length: it exceeds the rows by one
at most, which the trim cannot repair when there is no row. The refinement follows.
`Blame`: a message struck has a failure behind it, a count above the rows as well, and a
row is evicted only without room for two; `NothingSilent` follows. `Paid`: the repetitions
so far, plus one if the first row was sent and nobody is about to delete it, are at most
the failures so far. `Orderly`: while there was no failure, what was sent, what is stored
and what waits for the lock are in the order of publication. Operations of `SqliteDeque`
are characterised once, by what they can leave of the rows, the count and the result; an
append by the rows it made and the oldest of them that it deleted again (`Kept`,
`Beyond`).

`ProcessSlots`: beside `SlotsConserved`, the sum `Charged` charges each leaked slot to a
command that can leak none again (it bounds the counter for `TypeOK`); entries match
their ids (`EntriesMatch`); the entry a poll looked up is not replaced while it holds
`process_lock` (`PollStable`).

`Requests`, in two layers. `IInv`: the locks list the calls at their places (`Flow`,
`Readers`), registrations belong to calls that use them, and rows, counts, messages given
and appends cut add up in both mailboxes (`Incoming`, `Outgoing`): a message that is
neither a row nor given has `MaxLen` less the cuts newer ones. `Calm`: as long as no
response was lost, late or abandoned, pending pin reads are in the order of the lock, the
frames in flight are those of the call that waits for them, and every text is its call's
own. `OwnAnswer` needs both.

`Supervision`: no task, cancellation or writer outside a running daemon (`Quiet`), no task
alive after a stop (`AllEnded`), and `serve_forever` belongs to a running exporter
(`ServerOwned`).

### Assumptions

The proofs use only the named assumptions on constants, which TLC evaluates on the runs:
`McuConstants`, `SerialConstants`, `LinkConstants`, `DequeConstants`, `SpoolConstants`,
`ProcessConstants`, `RequestConstants`, `SupervisionConstants` give the ranges of numbers
and the shape of the installations. Three kinds of them name what the models leave to
convention: values that stand for "nothing" are none of the values they stand beside, and
names of jobs and answers are no commands (`SerialNames`); the messages an earlier run left
in the spool carry the first numbers, in their order (`SpoolConstants`); processes and ids
are finite sets (`ProcessConstants`, for the counting).

The proofs changed the models in a few places without changing what they allow: choices
between cases that overlap became disjunctions or conditions in order; the cloud worker of
`CloudSpool` is one coroutine, as `runtime.py` 1491 creates it; a waiter leaves a lock's
queue as its head or by its first occurrence.

### Only model-checked

The liveness properties, which are out of the prover's reach: `AwaitingEnds`,
`SendReturns`, `LinkRecovers`, `VerdictReached`, `EnqueueReturns`, `SlotComes`, `CallsEnd`,
`StopCompletes`, `ComesBack`; and the counterexamples of the runs that expect one.

## Findings

Statements of the documents, or of the tests, that do not hold of the code; each has a run
with a counterexample and an entry in `PROJECT.json` with the lines.

| Statement | Run |
| --- | --- |
| the safe state releases flow control (PROTOCOL.md 236) | `mcu_flow` |
| a rejected handshake leads to the safe state (246, 233) | `mcu_auth` |
| silence while paused (556) | `serial_paused` |
| a STATUS_ACK confirms the reception of the command (349) | `serial_confirm` |
| the default secret disables the cloud (test_daemon_assertions.py 76) | `supervision_secret` |

Behaviours of the code met while modelling that no run of its own states, although the
models have them. They are the exceptions that properties name:

* an exception in a frame handler (QueueFull, a protobuf DecodeError) leaves
  `_connect_and_run` before `on_serial_disconnected`, so that the port is closed with the
  pause still in force and the link still synchronized (`PauseEndsWithConnection`,
  `SyncVisible`; PROTOCOL.md 582 and 144 have a disconnection clear both);
* a console chunk of 64 bytes does not fit an encrypted frame, and the popped payload is lost
  (`ConsoleConserved`; PROTOCOL.md 634 has it fragmented at 62 bytes); so is one whose flush
  is cancelled with the cloud worker;
* a handler waits without limit for a process slot, and the loss of the port is not noticed
  (`LinkRecovers`, `CallsEnd`; PROTOCOL.md 257 has a timeout on every blocking operation);
* with a limit of 1 an append after a failed one deletes its own row and reports success
  (`NothingSilent`; test_service_runtime.py 131 has the message spooled);
* those of `FreshAccepted`, `StopCompletes` and `ComesBack` above.

Others: a CMD_LINK_RESET during the wait for an ACK leaves the frame in the queue, neither
resent nor given up (PROTOCOL.md 248 has it lost); a failed self test is noted and start-up
goes on (107 has it abort); SIGTERM without a handler; the
firmware never answers CMD_SET_BAUDRATE, so that with `serial_baud` different from
`serial_safe_baud` every connection ends with the negotiation (PROTOCOL.md 530 has a
response); `SerialHandshakeFatal` is never raised; the constructor of the exporter runs
outside any supervisor, so a port in use ends the daemon.

## Not modelled

* The request for capabilities after a handshake.
* Contents of the datastore (a put is stored and published by steps another put can come
  between) and `SqliteCache`; files on disk, paths and quotas; SPI data.
* The RAM fallback of the mailboxes (`context.py` 308): a new in-memory database per
  operation.
* `SubscribeConsole`, a second SIGINT, logging, the numbers of metrics and status.
* Buffers of the MCU services, CMD_SET_BAUDRATE and CMD_ENTER_BOOTLOADER in `McuLink`.
* The sequence ids of both ends in one model: the effect of a retried command on the
  duplicate check, and ACKs taken for duplicates.
* Gateway (the end of an old session removes the registry entry of a newer one of the
  same device), client library, LuCI, generator and tools: outside the bridge itself.
* COBS, CRC, HMAC and AEAD: data transformations.

## Plan

Done: the modules above, their runs, and the proofs of all safety properties the runs
check. Left, where a property would tell more than the ones there are: the parts under
"Not modelled", first the sequence ids of both ends in one model, then the RAM fallback of
the mailboxes and the datastore; and, on the side of the proofs, the exceptions that
`FreshAccepted` states, as a theorem about the second session.

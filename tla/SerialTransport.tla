-------------------------- MODULE SerialTransport --------------------------
(***************************************************************************)
(* The serial transport of the Linux daemon: class SerialTransport of      *)
(* mcubridge/transport/serial.py, with the parts of BridgeService           *)
(* (mcubridge/services/runtime.py) that drive it: XON/XOFF, the console     *)
(* queue, connection and disconnection.                                    *)
(*                                                                         *)
(* The daemon is one asyncio event loop: code runs atomically between two   *)
(* awaits that suspend it.  The actors are the coroutines that call send(), *)
(* _read_loop (Loop) and _connect_and_run (Run).  The frames read are the    *)
(* environment's: the MCU or the line may answer late, twice, wrongly or     *)
(* never.                                                                  *)
(***************************************************************************)
EXTENDS Naturals, Sequences, SequencesExt

CONSTANTS
    Task,          \* coroutines that handle cloud requests
    Loop, Run,     \* _read_loop and _connect_and_run
    Responding,    \* commands with expected_responses
    AckOnly,       \* ACK_ONLY_COMMANDS
    Requests,      \* the commands a Task asks for outside the console
    Buffer,        \* console payloads of the cloud, each submitted once
    Large,         \* those of more than 62 bytes
    NumChunks,     \* frames per Large payload
    QueueLimit,    \* maxlen of console_to_mcu_queue
    MaxAttempts,   \* _max_attempts
    None

ASSUME SerialConstants ==
    /\ Loop \notin Task /\ Run \notin Task /\ Loop # Run
    /\ Responding \cap AckOnly = {}
    /\ "CMD_GET_VERSION" \in Responding /\ "CMD_CONSOLE_WRITE" \in AckOnly
    /\ Requests \subseteq Responding \cup AckOnly
    /\ NumChunks \in Nat \ {0} /\ QueueLimit \in Nat \ {0} /\ MaxAttempts \in Nat \ {0}
    /\ None \notin Buffer /\ Large \subseteq Buffer

VARIABLES
    pc,         \* where each actor is suspended
    job,        \* what its present call sends
    lockQ,      \* _flow_lock: its holder, then its waiters in order
    current,    \* _current
    txAllowed,  \* state.serial_tx_allowed, always the negation of mcu_is_paused
    conn,       \* the connection, as _connect_and_run goes through it
    synced,     \* state.is_synchronized
    queue,      \* state.console_to_mcu_queue
    held,       \* the console payload an actor has popped and its chunks left to send
    fate        \* what has become of each console payload (history)

vars == <<pc, job, lockQ, current, txAllowed, conn, synced, queue, held, fate>>

console == <<queue, held, fate>>
link == <<txAllowed, conn, synced>>

Actor == Task \cup {Loop, Run}
Command == Responding \cup AckOnly

\* Frames from the MCU.  EVENT stands for the commands it originates; an ACK of None has a
\* payload that is empty or does not decode.
Frame == [kind : {"ACK", "RESP"}, of : Command, empty : {FALSE}]
         \cup [kind : {"RESP"}, of : Command, empty : {TRUE}]
         \cup [kind : {"ACK", "OK"}, of : {None}, empty : BOOLEAN]
         \cup [kind : {"FAIL", "EVENT", "CMD_XOFF", "CMD_XON"}, of : {None}, empty : {FALSE}]

\* success is None, True or False, empty tells whether response_payload is falsy, failed
\* whether failure_status is set, and written (history) whether an attempt was written.
PendingCommand == [cmd        : Command,
                   attempts   : 1 .. MaxAttempts,
                   success    : {"None", "True", "False"},
                   empty      : BOOLEAN,
                   completion : BOOLEAN,
                   failed     : BOOLEAN,
                   written    : BOOLEAN]

Holding == [buf : Buffer, left : 1 .. NumChunks]

\* iter_chunks cuts at 64 bytes.
Chunks(b) == IF b \in Large THEN NumChunks ELSE 1

\* A chunk that makes, with 2 bytes of encoding, more than MAX_PAYLOAD_SIZE: every one of a
\* Large payload but the last, which is taken to be short if it is not the only one.
Oversize(h) == h.buf \in Large /\ (h.left > 1 \/ NumChunks = 1)

\* None is no value of the program, and the other jobs of an actor are no tracked commands.
ASSUME SerialNames ==
    /\ None \notin Command /\ None \notin PendingCommand /\ None \notin Holding
    /\ {"STATUS_ACK", "RESPONSE", "REFUSAL", "reset"} \cap (Command \cup {None}) = {}

Init ==
    /\ pc = [a \in Actor |-> "idle"]
    /\ job = [a \in Actor |-> None]
    /\ lockQ = <<>>
    /\ current = None
    /\ txAllowed = TRUE
    /\ conn = "down"
    /\ synced = FALSE
    /\ queue = <<>>
    /\ held = [a \in Actor |-> None]
    /\ fate = [b \in Buffer |-> "new"]

\* self.serial is not None and is open: until the AsyncSerial context exits.
is_open == conn \notin {"down", "escaped"}

\* Actors inside `async with self._flow_lock' of send().
InFlight(a) == pc[a] \in {"gate", "woken", "wait", "backoff"} /\ job[a] \in Command

\* Event.set() releases everything suspended in serial_tx_allowed.wait(); the
\* released coroutines run later, whatever becomes of the event by then.
Woken(p) == [a \in Actor |-> IF p[a] = "gate" THEN "woken" ELSE p[a]]

\* A deque with maxlen drops from the opposite end.
append(q, b) == Append(IF Len(q) < QueueLimit THEN q ELSE Tail(q), b)

\* Mutant: putting back ignores the bound.
appendleftUnbounded(q, b) == <<b>> \o q

appendleft(q, b) == <<b>> \o (IF Len(q) < QueueLimit THEN q ELSE SubSeq(q, 1, QueueLimit - 1))

----------------------------------------------------------------------------
(* _correlate_frame *)

mark_success(p, f) == [p EXCEPT !.empty = f.empty, !.success = "True", !.completion = TRUE]
mark_failure(p) == [p EXCEPT !.success = "False", !.failed = TRUE, !.completion = TRUE]

\* An ACK that names no command is taken for the pending one's.
Answers(f, cmd) ==
    \/ f.kind = "RESP" /\ f.of = cmd
    \/ f.kind = "ACK" /\ f.of \in {cmd, None} /\ cmd \in AckOnly
    \/ f.kind = "OK" /\ cmd \in AckOnly

correlate_frame(p, f) ==
    IF p = None THEN p
    ELSE IF p.success # "None" THEN p
    ELSE IF Answers(f, p.cmd) THEN mark_success(p, f)
    ELSE IF f.kind = "FAIL" THEN mark_failure(p)
    ELSE p

----------------------------------------------------------------------------
(* _flush_console_queue, between two awaits *)

\* What actor a does after the loop of the flush: the read loop acknowledges the
\* CMD_XON, which may have to wait for the gate; any other caller is done.
AfterFlush(a, p, allowed) ==
    IF a = Loop /\ ~allowed
    THEN pc' = [p EXCEPT ![a] = "gate"] /\ job' = [job EXCEPT ![a] = "STATUS_ACK"]
    ELSE pc' = [p EXCEPT ![a] = "idle"] /\ job' = [job EXCEPT ![a] = None]

\* The test of the loop, with q queued, w the lock's queue and p the program
\* counters at that moment: pop a payload and send() it, or leave.
flush_console_queue(a, p, q, w, allowed) ==
    IF q # <<>> /\ allowed /\ is_open
    THEN /\ pc' = [p EXCEPT ![a] = "lock"]
         /\ job' = [job EXCEPT ![a] = "CMD_CONSOLE_WRITE"]
         /\ lockQ' = Append(w, a)
         /\ held' = [held EXCEPT ![a] = [buf |-> Head(q), left |-> Chunks(Head(q))]]
         /\ queue' = Tail(q)
    ELSE /\ AfterFlush(a, p, allowed)
         /\ lockQ' = w
         /\ held' = [held EXCEPT ![a] = None]
         /\ queue' = q

\* Mutant: the payload is not put back.
requeueForgotten(a, w) ==
    /\ held' = [held EXCEPT ![a] = None]
    /\ lockQ' = w
    /\ UNCHANGED <<queue, fate>>
    /\ AfterFlush(a, pc, txAllowed)

\* send() returned a false value: the payload goes back to the front, and the flush ends.
requeue(a, w) ==
    /\ queue' = appendleft(queue, held[a].buf)
    /\ fate' = IF Len(queue) < QueueLimit THEN fate
               ELSE [fate EXCEPT ![queue[Len(queue)]] = "dropped"]
    /\ held' = [held EXCEPT ![a] = None]
    /\ lockQ' = w
    /\ AfterFlush(a, pc, txAllowed)

----------------------------------------------------------------------------
(* send() *)

\* An exception or a cancellation takes actor a out of send(): the finally clause runs, and
\* the payload popped by a flush is not put back.
Interrupted(a, end) ==
    /\ current' = IF InFlight(a) THEN None ELSE current
    /\ queue' = queue
    /\ held' = [held EXCEPT ![a] = None]
    /\ fate' = IF held[a] = None THEN fate ELSE [fate EXCEPT ![held[a].buf] = end]

\* send() returns to actor a: "False", or a response payload that is "empty", which is a
\* false value as well, or not ("payload").  The finally clause, the release of the lock,
\* and what the caller does up to its next await.
Return(a, result) ==
    /\ current' = None
    /\ LET w == Tail(lockQ) IN
       \/ /\ held[a] = None /\ a # Run
          /\ pc' = [pc EXCEPT ![a] = "idle"]
          /\ job' = [job EXCEPT ![a] = None]
          /\ lockQ' = w
          /\ UNCHANGED console
       \/ /\ held[a] = None /\ a = Run             \* _request_mcu_version, then the flush
          /\ IF result = "False"
             THEN flush_console_queue(a, pc, queue, w, txAllowed) /\ UNCHANGED fate
             ELSE /\ pc' = [pc EXCEPT ![a] = "service"]
                  /\ job' = [job EXCEPT ![a] = None]
                  /\ lockQ' = w
                  /\ UNCHANGED console
       \/ /\ held[a] # None /\ result = "payload"
          /\ IF held[a].left > 1                   \* the next chunk
             THEN /\ held' = [held EXCEPT ![a].left = @ - 1]
                  /\ pc' = [pc EXCEPT ![a] = "lock"]
                  /\ lockQ' = Append(w, a)
                  /\ UNCHANGED <<job, queue, fate>>
             ELSE /\ fate' = [fate EXCEPT ![held[a].buf] = "delivered"]
                  /\ flush_console_queue(a, pc, queue, w, txAllowed)
       \/ held[a] # None /\ result # "payload" /\ requeue(a, w)

\* The caller's coroutine reaches `async with self._flow_lock'.  An idle lock is
\* taken by Begin, with no other step needed in between.
Enqueue(a, cmd) ==
    /\ pc' = [pc EXCEPT ![a] = "lock"]
    /\ job' = [job EXCEPT ![a] = cmd]
    /\ lockQ' = Append(lockQ, a)

\* self.serial.write: it fails on a closed port, and may fail on a lost one.
write(ok) == (conn = "up" => ok) /\ (~is_open => ~ok)

\* build_frame accepts the frame: an encrypted payload has at most MAX_PAYLOAD_SIZE bytes.
Fits(a) == held[a] # None /\ synced => ~Oversize(held[a])

\* send_raw inside _send_attempt, from the gate on.
Transmit(a, p) ==
    \E ok \in BOOLEAN :
        /\ write(ok)
        /\ IF ok
           THEN /\ pc' = [pc EXCEPT ![a] = "wait"]
                /\ current' = [p EXCEPT !.written = TRUE]
                /\ UNCHANGED <<job, lockQ, queue, held, fate>>
           ELSE Return(a, "False")

\* _send_attempt, from its start up to its first suspension.
send_attempt(a, p) ==
    IF is_open /\ ~txAllowed
    THEN /\ pc' = [pc EXCEPT ![a] = "gate"]
         /\ current' = p
         /\ UNCHANGED <<job, lockQ, queue, held, fate>>
    ELSE (is_open => Fits(a)) /\ Transmit(a, p)

\* Mutant: the attempts are counted afresh after each timeout.
RetryAfresh(a) ==
    /\ pc' = [pc EXCEPT ![a] = "backoff"]
    /\ current' = [current EXCEPT !.attempts = 1]
    /\ UNCHANGED <<job, lockQ, queue, held, fate>>

\* _RetryableSerialError: another attempt after a pause, or the last one is over.
Retry(a) ==
    IF current.attempts < MaxAttempts
    THEN pc' = [pc EXCEPT ![a] = "backoff"] /\ UNCHANGED <<job, lockQ, current, queue, held, fate>>
    ELSE Return(a, "False")

\* A cloud request for the MCU: digital, analog, SPI, version...
Request(t) ==
    /\ pc[t] = "idle" /\ is_open
    /\ \E cmd \in Requests : Enqueue(t, cmd)
    /\ UNCHANGED <<current, console, link>>

\* _handle_console: queue the payload, then flush.
ConsoleRequest(t) ==
    /\ pc[t] = "idle"
    /\ \E b \in Buffer :
        /\ fate[b] = "new"
        /\ fate' = [c \in Buffer |-> IF c = b THEN "in"
                                     ELSE IF Len(queue) = QueueLimit /\ c = Head(queue) THEN "dropped"
                                     ELSE fate[c]]
        /\ flush_console_queue(t, pc, append(queue, b), lockQ, txAllowed)
    /\ UNCHANGED <<current, link>>

\* The lock is acquired, the PendingCommand made current, and attempt 1 starts.
Begin(a) ==
    /\ pc[a] = "lock" /\ Head(lockQ) = a /\ job[a] \in Command
    /\ send_attempt(a, [cmd |-> job[a], attempts |-> 1, success |-> "None",
                        empty |-> FALSE, completion |-> FALSE, failed |-> FALSE,
                        written |-> FALSE])
    /\ UNCHANGED link

\* The gate opened, or 30 s have passed and the frame is written all the same.
PassGate(a) ==
    /\ pc[a] \in {"gate", "woken"} /\ job[a] \in Command /\ Fits(a)
    /\ Transmit(a, current)
    /\ UNCHANGED link

\* completion is set: an answer, a failure, or an event left over from an answer
\* that came during the pause before this attempt, which reset success.
Complete(a) ==
    /\ pc[a] = "wait" /\ current.completion
    /\ IF current.success = "True" THEN Return(a, IF current.empty THEN "empty" ELSE "payload")
       ELSE IF current.failed THEN Return(a, "False")
       ELSE Retry(a)
    /\ UNCHANGED link

ResponseTimeout(a) ==
    /\ pc[a] = "wait" /\ ~current.completion
    /\ Retry(a)
    /\ UNCHANGED link

\* The pause is over: _send_attempt runs again.  completion is not cleared.
Resume(a) ==
    /\ pc[a] = "backoff"
    /\ send_attempt(a, [current EXCEPT !.attempts = @ + 1, !.success = "None"])
    /\ UNCHANGED link

\* build_frame raises ValueError where Transmit would write.  A request ends, the read loop
\* ends its connection, and _connect_and_run is left.
TooLarge(a) ==
    /\ ~Fits(a)
    /\ \/ pc[a] = "lock" /\ Head(lockQ) = a /\ is_open /\ txAllowed
       \/ pc[a] = "backoff" /\ is_open /\ txAllowed
       \/ pc[a] \in {"gate", "woken"}
    /\ Interrupted(a, "refused")
    /\ lockQ' = Tail(lockQ)
    /\ pc' = [pc EXCEPT ![a] = IF a = Run THEN "leaving" ELSE "idle"]
    /\ job' = [job EXCEPT ![a] = None]
    /\ conn' = IF a = Loop THEN "ended" ELSE conn
    /\ UNCHANGED <<txAllowed, synced>>

\* The worker of a cloud session that ends is cancelled, wherever it is suspended.
Cancel(t) ==
    /\ pc[t] # "idle"
    /\ Interrupted(t, "cancelled")
    /\ lockQ' = RemoveFirst(lockQ, t)
    /\ pc' = [pc EXCEPT ![t] = "idle"]
    /\ job' = [job EXCEPT ![t] = None]
    /\ UNCHANGED link

----------------------------------------------------------------------------
(* _read_loop *)

\* send_raw outside the lock: frame w is written at once, or has to wait for the gate.
Writes(w, p, allowed) ==
    IF allowed
    THEN pc' = p /\ job' = job
    ELSE pc' = [p EXCEPT ![Loop] = "gate"] /\ job' = [job EXCEPT ![Loop] = w]

acknowledge(p, allowed) == Writes("STATUS_ACK", p, allowed)

\* Before it writes w (None: nothing) the handler waits outside the link, with no limit of its
\* own: for a process slot (_run_process), for the cloud (enqueue_cloud).
Awaits(w) == /\ pc' = [pc EXCEPT ![Loop] = "service"]
             /\ job' = [job EXCEPT ![Loop] = w]

\* What the handlers of the commands the MCU originates write, as far as the gate goes: the
\* acknowledgement alone, a response ("RESPONSE") and then the acknowledgement, or a
\* response that no acknowledgement follows ("REFUSAL").  A file is sent in one piece here.
on_mcu_console_write     == {"STATUS_ACK"}
on_mcu_datastore_put     == {"STATUS_ACK"}
on_mcu_datastore_get     == {"RESPONSE"}
on_mcu_mailbox_push      == {"STATUS_ACK"}
on_mcu_mailbox_available == {"RESPONSE"}
on_mcu_mailbox_read      == {"RESPONSE"}
on_mcu_mailbox_processed == {"STATUS_ACK"}
on_mcu_file_write        == {"RESPONSE"}
on_mcu_file_read         == {"RESPONSE"}
on_mcu_file_remove       == {"RESPONSE"}
on_mcu_process_run       == {"RESPONSE", "REFUSAL"}
on_mcu_process_poll      == {"RESPONSE"}
on_mcu_process_kill      == {"STATUS_ACK"}
unsupported              == {"RESPONSE"}

setup_mcu_registry ==
    [CMD_CONSOLE_WRITE |-> on_mcu_console_write, CMD_DATASTORE_PUT |-> on_mcu_datastore_put,
     CMD_DATASTORE_GET |-> on_mcu_datastore_get, CMD_MAILBOX_PUSH |-> on_mcu_mailbox_push,
     CMD_MAILBOX_AVAILABLE |-> on_mcu_mailbox_available,
     CMD_MAILBOX_READ |-> on_mcu_mailbox_read,
     CMD_MAILBOX_PROCESSED |-> on_mcu_mailbox_processed,
     CMD_FILE_WRITE |-> on_mcu_file_write, CMD_FILE_READ |-> on_mcu_file_read,
     CMD_FILE_REMOVE |-> on_mcu_file_remove, CMD_PROCESS_RUN_ASYNC |-> on_mcu_process_run,
     CMD_PROCESS_POLL |-> on_mcu_process_poll, CMD_PROCESS_KILL |-> on_mcu_process_kill,
     CMD_DIGITAL_READ |-> unsupported, CMD_ANALOG_READ |-> unsupported]

handle_mcu_xoff ==
    /\ txAllowed' = FALSE
    /\ acknowledge(pc, FALSE)
    /\ UNCHANGED <<lockQ, console>>

\* The flush sends inside the read loop: the loop reads no answer until it is over.
handle_mcu_xon ==
    /\ txAllowed' = TRUE
    /\ flush_console_queue(Loop, Woken(pc), queue, lockQ, TRUE)
    /\ UNCHANGED fate

\* The handler of a frame, up to its first suspension.  A status is published and not
\* acknowledged, and nothing else is handled before the handshake is complete.  A response
\* with a handler is published, or not, and acknowledged; others are dropped.
handle_mcu_frame(f) ==
    \/ /\ f.kind \in {"ACK", "RESP"} \/ (f.kind \in {"EVENT", "CMD_XOFF", "CMD_XON"} /\ ~synced)
       /\ UNCHANGED <<pc, job, lockQ, txAllowed, console>>
    \/ /\ f.kind \in {"OK", "FAIL"}
       /\ Awaits(None)
       /\ UNCHANGED <<lockQ, txAllowed, console>>
    \/ /\ f.kind = "RESP" /\ synced
       /\ acknowledge(pc, txAllowed) \/ Awaits("STATUS_ACK")
       /\ UNCHANGED <<lockQ, txAllowed, console>>
    \/ /\ f.kind = "EVENT" /\ synced
       /\ \E w \in UNION {setup_mcu_registry[c] : c \in DOMAIN setup_mcu_registry} :
             Writes(w, pc, txAllowed) \/ Awaits(w)
       /\ UNCHANGED <<lockQ, txAllowed, console>>
    \/ f.kind = "CMD_XOFF" /\ synced /\ handle_mcu_xoff
    \/ f.kind = "CMD_XON" /\ synced /\ handle_mcu_xon

\* One packet of _read_loop: correlation first, then the handler.
Read ==
    /\ pc[Loop] = "idle" /\ conn = "up"
    /\ \E f \in Frame : current' = correlate_frame(current, f) /\ handle_mcu_frame(f)
    /\ UNCHANGED <<conn, synced>>

\* The handler has what it waited for.
Served ==
    /\ pc[Loop] = "service"
    /\ IF job[Loop] # None /\ ~txAllowed
       THEN pc' = [pc EXCEPT ![Loop] = "gate"] /\ job' = job
       ELSE pc' = [pc EXCEPT ![Loop] = "idle"] /\ job' = [job EXCEPT ![Loop] = None]
    /\ UNCHANGED <<lockQ, current, link, console>>

\* Mutant: the flow-control wait of an acknowledgement has no limit.
WriteAckUntimed ==
    /\ pc[Loop] = "woken" /\ job[Loop] = "STATUS_ACK"
    /\ pc' = [pc EXCEPT ![Loop] = "idle"]
    /\ job' = [job EXCEPT ![Loop] = None]
    /\ UNCHANGED <<lockQ, current, link, console>>

\* The acknowledgement (or a refusal) is written once the gate opened or 30 s have passed.
WriteAck ==
    /\ pc[Loop] \in {"gate", "woken"} /\ job[Loop] \in {"STATUS_ACK", "REFUSAL"}
    /\ pc' = [pc EXCEPT ![Loop] = "idle"]
    /\ job' = [job EXCEPT ![Loop] = None]
    /\ UNCHANGED <<lockQ, current, link, console>>

\* So is a response; its acknowledgement may have to wait as long again.  Without it when
\* the write fails.
WriteResponse ==
    /\ pc[Loop] \in {"gate", "woken"} /\ job[Loop] = "RESPONSE"
    /\ \E ok \in BOOLEAN :
          /\ write(ok)
          /\ IF ok /\ ~txAllowed
             THEN pc' = [pc EXCEPT ![Loop] = "gate"] /\ job' = [job EXCEPT ![Loop] = "STATUS_ACK"]
             ELSE pc' = [pc EXCEPT ![Loop] = "idle"] /\ job' = [job EXCEPT ![Loop] = None]
    /\ UNCHANGED <<lockQ, current, link, console>>

\* The device goes away; reads and writes fail from now on.
Lose ==
    /\ conn = "up"
    /\ conn' = "lost"
    /\ UNCHANGED <<pc, job, lockQ, current, txAllowed, synced, console>>

\* The read fails and the loop ends.
LoopEnds ==
    /\ pc[Loop] = "idle" /\ conn = "lost"
    /\ conn' = "ended"
    /\ UNCHANGED <<pc, job, lockQ, current, txAllowed, synced, console>>

\* A handler raises: the loop ends as well, and with it a connection that is in order.  It
\* catches a file that cannot be written, a command line that cannot be split or a response
\* that is too large ("ended"), but not a payload that does not decode or a full queue
\* ("raised").
HandlerRaises ==
    /\ \/ pc[Loop] = "idle" /\ conn = "up"
       \/ pc[Loop] = "service" /\ conn \in {"up", "lost"}
       \/ pc[Loop] \in {"gate", "woken"} /\ job[Loop] = "RESPONSE" /\ conn \in {"up", "lost"}
    /\ conn' = "ended" \/ (conn' = "raised" /\ job[Loop] # "RESPONSE")
    /\ pc' = [pc EXCEPT ![Loop] = "idle"]
    /\ job' = [job EXCEPT ![Loop] = None]
    /\ UNCHANGED <<lockQ, current, txAllowed, synced, console>>

----------------------------------------------------------------------------
(* _connect_and_run *)

\* The port opens and on_serial_connected runs the handshake; if the link got
\* synchronized, the version is requested and the console flushed.  Or the negotiation of the
\* rate fails, or the handshake raises.
Connect ==
    /\ ~is_open /\ pc[Run] = "idle"
    /\ conn' = "up"
    /\ \/ /\ synced' = TRUE
          /\ Enqueue(Run, "CMD_GET_VERSION")
       \/ /\ synced' = FALSE
          /\ UNCHANGED <<pc, job, lockQ>>
       \/ /\ synced' \in {synced, FALSE}
          /\ pc' = [pc EXCEPT ![Run] = "leaving"]
          /\ UNCHANGED <<job, lockQ>>
    /\ UNCHANGED <<current, txAllowed, console>>

\* The version is published, with no limit to the wait, and the flush begins; or the answer
\* does not decode, or a queue is full, and _connect_and_run is left.
PublishVersion ==
    /\ pc[Run] = "service"
    /\ \/ flush_console_queue(Run, pc, queue, lockQ, txAllowed)
       \/ /\ pc' = [pc EXCEPT ![Run] = "leaving"]
          /\ UNCHANGED <<job, lockQ, queue, held>>
    /\ UNCHANGED <<current, fate, link>>

\* _connect_and_run goes to its finally clause: the read loop has ended, or the call of
\* on_serial_connected has raised.
Leaves == (pc[Run] = "idle" /\ conn \in {"ended", "raised"}) \/ pc[Run] = "leaving"

\* Mutant: a pause survives the connection.
DisconnectPaused ==
    /\ Leaves /\ conn # "raised"
    /\ conn' = "ended"
    /\ Interrupted(Loop, "cancelled")
    /\ synced' = FALSE
    /\ pc' = [pc EXCEPT ![Loop] = "idle", ![Run] = "lock"]
    /\ job' = [job EXCEPT ![Loop] = None, ![Run] = "reset"]
    /\ lockQ' = Append(RemoveFirst(lockQ, Loop), Run)
    /\ UNCHANGED txAllowed

\* The read loop, if it still runs, is cancelled; on_serial_disconnected, up to the lock that
\* reset() takes.
Disconnect ==
    /\ Leaves /\ conn # "raised"
    /\ conn' = "ended"
    /\ Interrupted(Loop, "cancelled")
    /\ synced' = FALSE
    /\ txAllowed' = TRUE
    /\ pc' = [Woken(pc) EXCEPT ![Loop] = "idle", ![Run] = "lock"]
    /\ job' = [job EXCEPT ![Loop] = None, ![Run] = "reset"]
    /\ lockQ' = Append(RemoveFirst(lockQ, Loop), Run)

\* `await read_task' raises what the read loop did not catch: the port is closed, and
\* on_serial_disconnected is not reached.
Escape ==
    /\ Leaves /\ conn = "raised"
    /\ conn' = "escaped"
    /\ pc' = [pc EXCEPT ![Run] = "idle"]
    /\ UNCHANGED <<job, lockQ, current, txAllowed, synced, console>>

\* Mutant: reset() does not wait for the lock.
ResetAtOnce ==
    /\ pc[Run] = "lock" /\ job[Run] = "reset"
    /\ current' = None
    /\ lockQ' = SelectSeq(lockQ, LAMBDA a : a # Run)
    /\ pc' = [pc EXCEPT ![Run] = "idle"]
    /\ job' = [job EXCEPT ![Run] = None]
    /\ conn' = "down"
    /\ UNCHANGED <<txAllowed, synced, console>>

\* reset() gets the lock and aborts the current command; the port is closed.
Reset ==
    /\ pc[Run] = "lock" /\ job[Run] = "reset" /\ Head(lockQ) = Run
    /\ current' = None
    /\ lockQ' = Tail(lockQ)
    /\ pc' = [pc EXCEPT ![Run] = "idle"]
    /\ job' = [job EXCEPT ![Run] = None]
    /\ conn' = "down"
    /\ UNCHANGED <<txAllowed, synced, console>>

----------------------------------------------------------------------------
Send(a) == Begin(a) \/ PassGate(a) \/ Complete(a) \/ ResponseTimeout(a) \/ Resume(a) \/ TooLarge(a)

Next ==
    \/ \E t \in Task : Request(t) \/ ConsoleRequest(t) \/ Cancel(t)
    \/ \E a \in Actor : Send(a)
    \/ Read \/ Served \/ WriteAck \/ WriteResponse \/ Lose \/ LoopEnds \/ HandlerRaises
    \/ Connect \/ PublishVersion \/ Disconnect \/ Escape \/ Reset

\* The event loop runs every coroutine that is ready and fires every timer that is
\* due; the reconnecting retryer never gives up and the device comes back.  Nothing ends a
\* wait outside the link (Served, PublishVersion).
Fairness ==
    /\ \A a \in Actor : WF_vars(Send(a))
    /\ WF_vars(WriteAck) /\ WF_vars(WriteResponse) /\ WF_vars(LoopEnds)
    /\ WF_vars(Connect) /\ WF_vars(Disconnect) /\ WF_vars(Escape) /\ WF_vars(Reset)

Spec == Init /\ [][Next]_vars /\ Fairness

----------------------------------------------------------------------------
TypeOK ==
    /\ pc \in [Actor -> {"idle", "lock", "gate", "woken", "wait", "backoff", "service", "leaving"}]
    /\ job \in [Actor -> Command \cup {"STATUS_ACK", "RESPONSE", "REFUSAL", "reset", None}]
    /\ lockQ \in Seq(Actor)
    /\ current \in PendingCommand \cup {None}
    /\ txAllowed \in BOOLEAN
    /\ conn \in {"up", "lost", "ended", "raised", "down", "escaped"}
    /\ synced \in BOOLEAN
    /\ queue \in Seq(Buffer) /\ Len(queue) <= QueueLimit
    /\ held \in [Actor -> Holding \cup {None}]
    /\ fate \in [Buffer -> {"new", "in", "delivered", "dropped", "refused", "cancelled"}]

\* At most one tracked command is in flight, it is the one _current describes, and
\* its sender holds _flow_lock: neither another send(), nor the flush inside the read
\* loop, nor an exception or a cancellation in any place, nor reset() on a disconnection
\* takes it away from its sender or leaves it behind without one.
SequentialFlow ==
    /\ \A a \in Actor : InFlight(a) =>
          /\ lockQ # <<>> /\ Head(lockQ) = a
          /\ current # None /\ current.cmd = job[a]
    /\ current # None => \E a \in Actor : InFlight(a)

\* A console payload accepted from the cloud is never lost or forked, except that send()
\* refuses a chunk or that its flush is cancelled: until then, or until it is delivered or
\* dropped by the bound of the deque, it is exactly once in the queue or in the hands of one
\* flush, however flushes, failed sends, cancellations and disconnections meet.
ConsoleConserved ==
    \A b \in Buffer :
        LET queued == {i \in DOMAIN queue : queue[i] = b}
            holders == {a \in Actor : held[a] # None /\ held[a].buf = b}
        IN IF fate[b] = "in"
           THEN \/ holders = {} /\ \E i \in DOMAIN queue : queued = {i}
                \/ queued = {} /\ \E a \in Actor : holders = {a}
           ELSE queued = {} /\ holders = {}

\* A pause does not outlive a connection that on_serial_disconnected has cleaned up after: no
\* XOFF is pending when the port is opened again, whether the read loop ended or
\* on_serial_connected raised with the read loop at work.
PauseEndsWithConnection == conn = "down" => txAllowed

\* A command is confirmed only after it was written (PROTOCOL.md: STATUS_ACK confirms the
\* reception of the command): not by an answer to an earlier one.
ConfirmedIsWritten == current # None /\ current.success = "True" => current.written

\* Every call returns, whatever the MCU does or fails to do: response timeouts, the
\* bound on attempts and the limit on the flow-control wait free the lock in turn.
SendReturns == \A t \in Task : pc[t] # "idle" ~> pc[t] = "idle"

\* A lost connection is replaced, unless the read loop or on_serial_connected waits for ever
\* for a process slot or for the cloud: neither a command in flight, nor callers queued on the
\* lock that reset() needs, nor a read loop waiting for flow control, nor an exception in a
\* handler or in the flush can keep the daemon from reconnecting.
LinkRecovers ==
    (conn \in {"lost", "ended", "raised"}) ~>
        (conn = "up" \/ [](pc[Loop] = "service") \/ [](pc[Run] = "service"))

\* After CMD_XOFF no tracked frame is written until CMD_XON (PROTOCOL.md, CMD_XOFF).
PausedIsSilent ==
    [][\A a \in Actor : pc[a] # "wait" /\ pc'[a] = "wait" => txAllowed]_vars
============================================================================

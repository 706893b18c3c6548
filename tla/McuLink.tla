------------------------------ MODULE McuLink ------------------------------
(***************************************************************************)
(* The link layer of the MCU firmware: class BridgeClass of               *)
(* mcubridge-library-arduino/src (Bridge.cpp, Bridge.h) with its state     *)
(* machine (fsm/bridge_fsm.h).  The firmware is a single loop: process()   *)
(* handles one received frame or one expired timer to completion before    *)
(* the next, so a handler is one atomic step.  A handler is written as an  *)
(* operator from the state it finds to the state it leaves, built from the *)
(* operators of the functions it calls, in the order it calls them.        *)
(***************************************************************************)
EXTENDS Naturals, Sequences

CONSTANTS
    Reliable,          \* the commands with requires_ack that the firmware sends
    Payload,           \* contents of frames
    HostSends,         \* the commands the firmware can receive
    Sequence,          \* values of sequence_id
    Nonce,             \* handshake nonces; each derives one session key
    NoNonce,           \* no nonce, hence no session key
    RetryLimit,        \* values of ack_retry_limit carried by CMD_LINK_RESET
    DefaultRetryLimit, \* RPC_DEFAULT_RETRY_LIMIT
    MaxPendingTx,      \* MAX_PENDING_TX_FRAMES: 1 on AVR, 8 elsewhere
    RxHistorySize,     \* RX_HISTORY_SIZE
    CounterRange,      \* 2^64: the nonce counters are uint64_t
    Secret,            \* whether begin() is given a shared secret: a set of choices
    PostOutcome        \* results the power-on self tests can have

VARIABLE mcu           \* the members of the BridgeClass object

(***************************************************************************)
(* Commands.  One representative stands for the rows of k_dispatch_table    *)
(* that share a shape (ack before the handler, duplicate check, resend on   *)
(* a duplicate).                                                           *)
(***************************************************************************)
StatusCode == {"STATUS_OK", "STATUS_ERROR", "STATUS_MALFORMED", "STATUS_ACK"}

SystemCommand == {"CMD_LINK_SYNC", "CMD_LINK_SYNC_RESP", "CMD_LINK_RESET",
                  "CMD_LINK_RESET_RESP", "CMD_GET_CAPABILITIES",
                  "CMD_GET_CAPABILITIES_RESP", "CMD_XOFF", "CMD_XON"}

AppCommand == {"CMD_DIGITAL_WRITE",       \* acknowledged, executed once
               "CMD_DIGITAL_READ",        \* a query, answered again on a duplicate
               "CMD_DIGITAL_READ_RESP",
               "CMD_MAILBOX_READ_RESP",   \* neither acknowledged nor deduplicated
               "CMD_MAILBOX_PROCESSED"}   \* sent by the firmware, not reliable

ASSUME McuConstants ==
    /\ Reliable \cap (StatusCode \cup SystemCommand \cup AppCommand) = {}
    /\ HostSends \subseteq StatusCode \cup SystemCommand \cup AppCommand
    /\ Payload # {}
    /\ Sequence \subseteq Nat /\ 0 \in Sequence
    /\ NoNonce \notin Nonce
    /\ RetryLimit \subseteq Nat /\ DefaultRetryLimit \in 0 .. 255
    /\ MaxPendingTx \in Nat \ {0}
    /\ RxHistorySize \in Nat \ {0}
    /\ CounterRange \in Nat \ {0}
    /\ Secret \subseteq BOOLEAN /\ Secret # {}
    /\ PostOutcome \subseteq BOOLEAN /\ PostOutcome # {}

Command == StatusCode \cup SystemCommand \cup AppCommand \cup Reliable

\* rpc::is_system_command: sent in the clear, and even while TX is disabled.
isSystemCommand(c) == c \in StatusCode \cup SystemCommand

(***************************************************************************)
(* A frame.  ack is the command a STATUS_ACK confirms, nonce the challenge   *)
(* of a CMD_LINK_SYNC, valid whether the handler accepts the arguments (the  *)
(* HMAC tag of a CMD_LINK_SYNC, the pin number of a read), limit the retry   *)
(* limit in a CMD_LINK_RESET, decodes whether the payload has the layout of  *)
(* its command, key and ctr the session that encrypts the payload and its    *)
(* nonce counter.                                                           *)
(***************************************************************************)
Frame == [cmd     : Command,
          seq     : Sequence,
          data    : Payload,
          ack     : Command,
          nonce   : Nonce \cup {NoNonce},
          valid   : BOOLEAN,
          limit   : RetryLimit \cup {DefaultRetryLimit},
          decodes : BOOLEAN,
          key     : Nonce \cup {NoNonce},
          ctr     : 0 .. CounterRange - 1]

NoData == CHOOSE d \in Payload : TRUE

Plain(c, s) ==
    [cmd |-> c, seq |-> s, data |-> NoData, ack |-> "STATUS_OK", nonce |-> NoNonce,
     valid |-> TRUE, limit |-> DefaultRetryLimit, decodes |-> TRUE,
     key |-> NoNonce, ctr |-> 0]

Fsm == {"STARTUP", "UNSYNCHRONIZED", "HANDSHAKE", "SYNCHRONIZED", "AWAITING_ACK", "FAULT"}

Event == {"EvHandshakeStart", "EvHandshakeComplete", "EvHandshakeFailed",
          "EvSendCritical", "EvAckReceived", "EvTimeout", "EvReset"}

\* What the environment can put on the wire towards the firmware.
BareFrame == {Plain(c, s) : c \in {"STATUS_OK", "STATUS_ERROR", "STATUS_MALFORMED",
                                   "CMD_GET_CAPABILITIES", "CMD_XOFF", "CMD_XON"},
                            s \in Sequence}

AckFrame == {[Plain("STATUS_ACK", s) EXCEPT !.ack = a, !.decodes = d] :
                a \in Reliable, s \in Sequence, d \in BOOLEAN}

SyncFrame == {[Plain("CMD_LINK_SYNC", s) EXCEPT !.nonce = n, !.valid = v] :
                n \in Nonce, s \in Sequence, v \in BOOLEAN}

ResetFrame == {[Plain("CMD_LINK_RESET", s) EXCEPT !.limit = l, !.decodes = d] :
                l \in RetryLimit, s \in Sequence, d \in BOOLEAN}

AppFrame == {[Plain(c, s) EXCEPT !.valid = v, !.decodes = d, !.key = k, !.ctr = n] :
                c \in AppCommand, s \in Sequence, v \in BOOLEAN, d \in BOOLEAN,
                k \in Nonce \cup {NoNonce}, n \in 0 .. CounterRange - 1}

HostFrame == {f \in BareFrame \cup AckFrame \cup SyncFrame \cup ResetFrame \cup AppFrame :
                f.cmd \in HostSends}

PendingTxFrame == [cmd : Reliable, seq : Sequence, data : Payload]

McuState == [fsm       : Fsm,                  \* _fsm
             queue     : Seq(PendingTxFrame),  \* _pending_tx_queue
             free      : 0 .. MaxPendingTx,    \* free buffers of _tx_payload_pool
             last      : Command,              \* _last_command_id
             retry     : 0 .. 255,             \* _retry_count
             limit     : 0 .. 255,             \* _retry_limit
             txEnabled : BOOLEAN,              \* _tx_enabled
             ackTimer  : BOOLEAN,              \* TIMER_ACK_TIMEOUT is running
             hsTimer   : BOOLEAN,              \* TIMER_HANDSHAKE_TIMEOUT is running
             history   : Seq(Sequence),        \* _rx_history, oldest first
             key       : Nonce \cup {NoNonce}, \* _session_key
             txCtr     : 0 .. CounterRange - 1, \* _tx_nonce_counter
             rxCtr     : 0 .. CounterRange - 1, \* _rx_nonce_counter
             xoffSent  : BOOLEAN,              \* _serial_xoff_sent
             secret    : BOOLEAN,              \* _shared_secret is not empty
             post      : BOOLEAN,              \* _is_post_passed
             driven    : BOOLEAN,              \* a pin is not in its safe state
             tx        : Seq(Frame)]           \* written to the UART by the running handler
----------------------------------------------------------------------------
(* The state machine. *)

FsmNext(s, ev) ==
    CASE ev = "EvReset"                                    -> "UNSYNCHRONIZED"
      [] ev = "EvHandshakeFailed" /\ s # "FAULT"           -> "STARTUP"
      [] ev = "EvTimeout" /\ s # "FAULT"                   -> "FAULT"
      [] ev = "EvHandshakeStart" /\ s = "UNSYNCHRONIZED"   -> "HANDSHAKE"
      [] ev = "EvHandshakeComplete" /\ s = "HANDSHAKE"     -> "SYNCHRONIZED"
      [] ev = "EvSendCritical" /\ s = "SYNCHRONIZED"       -> "AWAITING_ACK"
      [] ev = "EvAckReceived" /\ s = "AWAITING_ACK"        -> "SYNCHRONIZED"
      [] OTHER                                             -> s

\* Entering FAULT forces the pins to their safe state, whatever the event.
fsmReceive(m, ev) ==
    LET s == FsmNext(m.fsm, ev)
    IN  [m EXCEPT !.fsm = s,
                  !.driven = m.driven /\ ~(s = "FAULT" /\ m.fsm # "FAULT")]

isSynchronized(m) == m.fsm \in {"SYNCHRONIZED", "AWAITING_ACK"}

isAwaitingAck(m) == m.fsm = "AWAITING_ACK"
----------------------------------------------------------------------------
(* Sending. *)

write(m, f) == [m EXCEPT !.tx = Append(m.tx, f)]

\* Encrypts when synchronized with a secret, under the next nonce counter.
transmit(m, c, s, d) ==
    LET f == [Plain(c, s) EXCEPT !.data = d]
        n == (m.txCtr + 1) % CounterRange
    IN  IF isSynchronized(m) /\ m.secret /\ ~isSystemCommand(c)
        THEN write([m EXCEPT !.txCtr = n], [f EXCEPT !.key = m.key, !.ctr = n])
        ELSE write(m, f)

\* Never refused: a status is a system command and needs no queue.
emitStatus(m, status, s) == transmit(m, status, s, NoData)

sendSinglePass(m, f) ==
    IF m.txEnabled \/ isSystemCommand(f.cmd) THEN write(m, f) ELSE m

\* Mutant: the queue is cleared and its buffers are not released.
clearPendingTxQueueLeaks(m) == [m EXCEPT !.queue = << >>]

clearPendingTxQueue(m) ==
    [m EXCEPT !.queue = << >>, !.free = m.free + Len(m.queue)]

flushPendingTxQueue(m) ==
    IF m.queue = << >> \/ ~m.txEnabled
    THEN m
    ELSE LET f == Head(m.queue)
             a == fsmReceive([m EXCEPT !.last = f.cmd, !.retry = 0], "EvSendCritical")
         IN  [transmit(a, f.cmd, f.seq, f.data) EXCEPT !.ackTimer = TRUE]

retransmitLastFrame(m) ==
    IF m.queue = << >>
    THEN m
    ELSE LET f == Head(m.queue)
         IN  [transmit(m, f.cmd, f.seq, f.data) EXCEPT !.ackTimer = TRUE]

\* Mutant: one frame too many.
hasRoomOffByOne(m) == Len(m.queue) <= MaxPendingTx

\* A reliable frame gets a buffer of the pool and a place in the queue, or is refused.
hasRoom(m) == Len(m.queue) < MaxPendingTx /\ m.free > 0

\* Mutant: the queue is flushed even while an ACK is awaited.
enqueueAlwaysFlushes(m, c, s, d) ==
    flushPendingTxQueue(
        [m EXCEPT !.queue = Append(m.queue, [cmd |-> c, seq |-> s, data |-> d]),
                  !.free  = m.free - 1])

enqueue(m, c, s, d) ==
    LET q == [m EXCEPT !.queue = Append(m.queue, [cmd |-> c, seq |-> s, data |-> d]),
                       !.free  = m.free - 1]
    IN  IF isAwaitingAck(m) THEN q ELSE flushPendingTxQueue(q)

\* sendFrame: whether it returns true, and what it does then.
sendFrameOk(m, c) ==
    /\ m.txEnabled \/ isSystemCommand(c)
    /\ c \in Reliable => hasRoom(m)

sendFrame(m, c, s, d) ==
    CASE ~sendFrameOk(m, c)                     -> m
      [] sendFrameOk(m, c) /\ c \in Reliable    -> enqueue(m, c, s, d)
      [] sendFrameOk(m, c) /\ c \notin Reliable -> transmit(m, c, s, d)

\* send<CommandId>: only an encrypted frame is queued, and then TX being disabled
\* does not refuse it.
sendEncrypted(m, c) == isSynchronized(m) /\ m.secret /\ ~isSystemCommand(c)

sendOk(m, c) ==
    IF sendEncrypted(m, c)
    THEN c \in Reliable => hasRoom(m)
    ELSE m.txEnabled \/ isSystemCommand(c)

send(m, c, s, d) ==
    CASE ~sendOk(m, c) -> m
      [] sendOk(m, c) /\ sendEncrypted(m, c) /\ c \in Reliable    -> enqueue(m, c, s, d)
      [] sendOk(m, c) /\ sendEncrypted(m, c) /\ c \notin Reliable -> transmit(m, c, s, d)
      [] sendOk(m, c) /\ ~sendEncrypted(m, c) ->
            sendSinglePass(m, [Plain(c, s) EXCEPT !.data = d])

\* The acknowledgement of a received frame.
processAck(m, c, s) ==
    sendSinglePass(m, [Plain("STATUS_ACK", s) EXCEPT !.ack = c])
----------------------------------------------------------------------------
(* Safe state, timers. *)

\* Mutant: the state machine is not reset.
enterSafeStateKeepsFsm(m) ==
    clearPendingTxQueue([m EXCEPT !.driven = FALSE, !.txEnabled = FALSE])

enterSafeState(m) ==
    fsmReceive(clearPendingTxQueue([m EXCEPT !.driven = FALSE, !.txEnabled = FALSE]),
               "EvReset")

\* Mutant: a retry is not counted.
onAckTimeoutNotCounted(m) == IF isAwaitingAck(m) THEN retransmitLastFrame(m) ELSE m

onAckTimeout(m) ==
    IF ~isAwaitingAck(m)
    THEN m
    ELSE LET r == [m EXCEPT !.retry = (m.retry + 1) % 256]
         IN  IF r.retry >= m.limit
             THEN clearPendingTxQueue(
                    [fsmReceive([r EXCEPT !.ackTimer = FALSE], "EvTimeout")
                        EXCEPT !.txEnabled = FALSE])
             ELSE retransmitLastFrame(r)

\* The timer is single shot.
onHandshakeTimeout(m) ==
    LET t == [m EXCEPT !.hsTimer = FALSE]
    IN  IF isSynchronized(m)
        THEN t
        ELSE [fsmReceive(t, "EvTimeout") EXCEPT !.txEnabled = FALSE]
----------------------------------------------------------------------------
(* Handlers of received frames. *)

handleAck(m, c) ==
    IF ~isAwaitingAck(m) \/ c # m.last
    THEN m
    ELSE flushPendingTxQueue(
            fsmReceive(clearPendingTxQueue([m EXCEPT !.ackTimer = FALSE]),
                       "EvAckReceived"))

\* The reset restarts the handshake timer and leaves the queue, the ACK timer,
\* _tx_enabled and _rx_history as they are.
handleLinkReset(m, f) ==
    LET t == IF f.decodes THEN [m EXCEPT !.limit = f.limit % 256] ELSE m
    IN  transmit([fsmReceive(t, "EvReset") EXCEPT !.hsTimer = TRUE],
                 "CMD_LINK_RESET_RESP", f.seq, NoData)

\* The answer is sent whether or not the state machine took the two events.
handleLinkSync(m, f) ==
    IF m.secret /\ ~f.valid
    THEN emitStatus(fsmReceive(m, "EvHandshakeFailed"), "STATUS_ERROR", 0)
    ELSE LET k == IF m.secret THEN [m EXCEPT !.key = f.nonce, !.txCtr = 0, !.rxCtr = 0]
                               ELSE m
             s == fsmReceive(fsmReceive(k, "EvHandshakeStart"), "EvHandshakeComplete")
         IN  sendSinglePass([s EXCEPT !.hsTimer = FALSE],
                [Plain("CMD_LINK_SYNC_RESP", f.seq) EXCEPT !.nonce = f.nonce, !.valid = m.secret])

handleDigitalRead(m, f) ==
    IF f.valid /\ sendOk(m, "CMD_DIGITAL_READ_RESP")
    THEN send(m, "CMD_DIGITAL_READ_RESP", f.seq, NoData)
    ELSE emitStatus(m, "STATUS_ERROR", 0)

\* k_dispatch_table: the commands with a handler, and how each is dispatched.
Dispatched == {"STATUS_ACK", "CMD_LINK_SYNC", "CMD_LINK_RESET", "CMD_GET_CAPABILITIES",
               "CMD_XOFF", "CMD_XON", "CMD_DIGITAL_WRITE", "CMD_DIGITAL_READ",
               "CMD_MAILBOX_READ_RESP"}

Query == {"CMD_GET_CAPABILITIES", "CMD_DIGITAL_READ"}  \* no ack, resend on duplicate

ResponseOnly == {"CMD_MAILBOX_READ_RESP"}              \* no ack, no duplicate check

NoPayload == {"CMD_LINK_RESET", "CMD_GET_CAPABILITIES", "CMD_XOFF", "CMD_XON"}

runHandler(m, f) ==
    CASE f.cmd \notin NoPayload /\ ~f.decodes -> emitStatus(m, "STATUS_MALFORMED", 0)
      [] f.cmd = "STATUS_ACK" /\ f.decodes    -> handleAck(m, f.ack)
      [] f.cmd = "CMD_LINK_SYNC" /\ f.decodes -> handleLinkSync(m, f)
      [] f.cmd = "CMD_LINK_RESET"             -> handleLinkReset(m, f)
      [] f.cmd = "CMD_GET_CAPABILITIES"       ->
            sendSinglePass(m, Plain("CMD_GET_CAPABILITIES_RESP", f.seq))
      [] f.cmd = "CMD_XOFF"                   -> [m EXCEPT !.txEnabled = FALSE]
      [] f.cmd = "CMD_XON"                    -> [m EXCEPT !.txEnabled = TRUE]
      [] f.cmd = "CMD_DIGITAL_WRITE" /\ f.decodes     -> [m EXCEPT !.driven = TRUE]
      [] f.cmd = "CMD_DIGITAL_READ" /\ f.decodes      -> handleDigitalRead(m, f)
      [] f.cmd = "CMD_MAILBOX_READ_RESP" /\ f.decodes -> m

\* _dispatchCmd and _preDispatch.
dispatchCmd(m, f, duplicate) ==
    LET a == IF f.cmd \in Query \cup ResponseOnly THEN m ELSE processAck(m, f.cmd, f.seq)
    IN  CASE ~duplicate \/ f.cmd \in ResponseOnly                    -> runHandler(a, f)
          [] duplicate /\ f.cmd \in Query                            -> retransmitLastFrame(a)
          [] duplicate /\ f.cmd \notin Query /\ f.cmd \notin ResponseOnly -> a

isDuplicate(m, s) == \E i \in 1 .. Len(m.history) : m.history[i] = s

pushHistory(h, s) ==
    IF Len(h) >= RxHistorySize THEN Append(Tail(h), s) ELSE Append(h, s)

\* Mutant: a session key is taken for a synchronized session.
isSecurityCheckPassedByKey(m, c) == ~m.secret \/ isSystemCommand(c) \/ m.key # NoNonce

isSecurityCheckPassed(m, c) == ~m.secret \/ isSystemCommand(c) \/ isSynchronized(m)

dispatchCommand(m, f) ==
    LET duplicate == isDuplicate(m, f.seq)
        h == IF duplicate THEN m ELSE [m EXCEPT !.history = pushHistory(m.history, f.seq)]
    IN  IF ~isSecurityCheckPassed(h, f.cmd)
        THEN emitStatus(h, "STATUS_ERROR", f.seq)
        ELSE CASE f.cmd = "STATUS_OK"        -> processAck(h, "STATUS_OK", f.seq)
               [] f.cmd = "STATUS_MALFORMED" -> enterSafeState(h)
               [] f.cmd \in Dispatched       -> dispatchCmd(h, f, duplicate)
               [] OTHER                      -> emitStatus(h, "STATUS_ERROR", 0)

handleReceivedFrame(m, f) ==
    IF isSynchronized(m) /\ m.secret /\ ~isSystemCommand(f.cmd)
    THEN IF f.key = m.key /\ f.ctr > m.rxCtr
         THEN dispatchCommand([m EXCEPT !.rxCtr = f.ctr], f)
         ELSE emitStatus(m, "STATUS_ERROR", 0)
    ELSE dispatchCommand(m, f)
----------------------------------------------------------------------------
(* The loop. *)

\* begin() after power-on.  A failed self test enters the safe state, which leaves
\* what a passed one leaves once begin() has enabled TX and started the timer.
Booted(secret, post) ==
    [fsm |-> "UNSYNCHRONIZED", queue |-> << >>, free |-> MaxPendingTx, last |-> "STATUS_OK",
     retry |-> 0, limit |-> DefaultRetryLimit, txEnabled |-> TRUE, ackTimer |-> FALSE,
     hsTimer |-> TRUE, history |-> << >>, key |-> NoNonce, txCtr |-> 0, rxCtr |-> 0,
     xoffSent |-> FALSE, secret |-> secret, post |-> post, driven |-> FALSE, tx |-> << >>]

\* Between two handlers the UART has sent what the first wrote.
Sent(m) == [m EXCEPT !.tx = << >>]

Init == \E s \in Secret, p \in PostOutcome : mcu = Booted(s, p)

\* Power loss, the watchdog or the DTR line restarts the firmware.
Reboot == \E p \in PostOutcome : mcu' = Booted(mcu.secret, p)

Receive == \E f \in HostFrame : mcu' = Sent(handleReceivedFrame(mcu, f))

\* A packet that does not parse.
ReceiveCorrupt == mcu' = Sent(emitStatus(mcu, "STATUS_MALFORMED", 0))

FirmwareSends == Reliable \cup {"CMD_MAILBOX_PROCESSED"}

\* A service sends with Bridge.send, always under sequence id 0; what is refused is lost.
ServiceSend == \E c \in FirmwareSends, d \in Payload : mcu' = Sent(send(mcu, c, 0, d))

\* A sketch sends with the public Bridge.sendFrame.
SketchSendFrame == \E c \in FirmwareSends, d \in Payload : mcu' = Sent(sendFrame(mcu, c, 0, d))

AckTimeout == mcu.ackTimer /\ mcu' = Sent(onAckTimeout(mcu))

HandshakeTimeout == mcu.hsTimer /\ mcu' = Sent(onHandshakeTimeout(mcu))

\* _serialTask: the receive buffer passes its high-water mark, or falls back.
SerialTask ==
    LET c == IF mcu.xoffSent THEN "CMD_XON" ELSE "CMD_XOFF"
    IN  mcu' = [Sent(sendFrame(mcu, c, 0, NoData)) EXCEPT !.xoffSent = ~mcu.xoffSent]

Next == \/ Reboot
        \/ Receive
        \/ ReceiveCorrupt
        \/ ServiceSend
        \/ SketchSendFrame
        \/ AckTimeout
        \/ HandshakeTimeout
        \/ SerialTask

\* Only the timer can be counted on: tick() runs in every turn of the loop.
Fairness == WF_mcu(AckTimeout)

Spec == Init /\ [][Next]_mcu /\ Fairness
----------------------------------------------------------------------------
(* Properties. *)

\* Every member of the object keeps its type, the queue its capacity.
TypeOK == mcu \in McuState /\ Len(mcu.queue) <= MaxPendingTx

\* While the state machine awaits an ACK there is a frame to retransmit, the ACK
\* looked for (_last_command_id) is the ACK of that frame, the timer runs, and
\* a retry is left: the three pieces of state that _handleAck, _onAckTimeout and
\* the resets update separately agree.
AwaitingFrame(m) ==
    isAwaitingAck(m) =>
        /\ m.queue # << >>
        /\ m.last = Head(m.queue).cmd
        /\ m.ackTimer
        /\ m.retry = 0 \/ m.retry < m.limit

AwaitingFrameInv == AwaitingFrame(mcu)

\* Every buffer of _tx_payload_pool is free or held by exactly one queued frame,
\* through every path that fills or empties the queue: none leaks, none is
\* released twice.
PoolBalance == mcu.free + Len(mcu.queue) = MaxPendingTx

\* With a shared secret no received command drives a pin while the link is in
\* FAULT: entering it makes the pins safe and nothing undoes that until a reset.
FaultIsSafe == mcu.secret /\ mcu.fsm = "FAULT" => ~mcu.driven

\* As long as an ACK is awaited the awaited frame is neither replaced nor dropped
\* and its retries are not forgotten, whatever is received, queued or timed out.
AwaitedFrameKept ==
    [][isAwaitingAck(mcu) /\ isAwaitingAck(mcu')
        => /\ Head(mcu'.queue) = Head(mcu.queue)
           /\ mcu'.last = mcu.last
           /\ mcu'.retry >= mcu.retry]_mcu

\* No ACK is awaited for ever: the retry limit ends the wait in FAULT if nothing
\* else does.
AwaitingEnds == isAwaitingAck(mcu) ~> ~isAwaitingAck(mcu)
----------------------------------------------------------------------------
(* What the documentation says of the firmware, and the code does not do.    *)

\* docs/PROTOCOL.md:236: the safe state releases flow control so that nothing
\* blocks.  Hence, when no XOFF is ever received, a synchronized firmware can send.
SafeStateReleasesFlowControl == isSynchronized(mcu) => mcu.txEnabled

\* docs/PROTOCOL.md:246: a handshake that fails authentication enters the safe
\* state, in which (233) every pin is safe.  STARTUP is where that failure leads.
RejectedHandshakeIsSafe == mcu.fsm = "STARTUP" => ~mcu.driven
============================================================================

---------------------------- MODULE LinkSession ----------------------------
(***************************************************************************)
(* How the daemon opens the serial port, agrees on a rate and a session key   *)
(* with the MCU, and tells the frames of the session from others:            *)
(* SerialHandshakeManager (mcubridge/services/handshake.py), the connection    *)
(* and packet handling of SerialTransport (mcubridge/transport/serial.py) and  *)
(* the link state of RuntimeState (mcubridge/state/context.py), composed with  *)
(* the few reactions of the firmware they depend on.                          *)
(*                                                                         *)
(* Run is _connect_and_run with synchronize, Loop is _read_loop.  The line    *)
(* keeps the order of frames and may lose or garble any of them.  Frames the   *)
(* daemon sends within the session, statistics and the notifications to the    *)
(* cloud are left out.                                                       *)
(***************************************************************************)
EXTENDS Naturals, Sequences, FiniteSets

CONSTANTS
    Setups,        \* installations: [fast, replies, secret, limit, frames]
    MaxNonce,      \* bound: attempts at a handshake; their nonces are 1 .. MaxNonce
    Threshold,     \* serial_handshake_fatal_failures
    CrcThreshold,  \* serial_fallback_threshold
    MaxCounter,    \* bound: the most frames of a session in any installation
    Room           \* bound: frames in flight each way

ASSUME LinkConstants ==
    /\ \A c \in Setups : /\ c.fast \in BOOLEAN /\ c.replies \in BOOLEAN
                         /\ c.secret \in {"same", "other", "none"} /\ c.limit \in BOOLEAN
                         /\ c.frames \in 0 .. MaxCounter
    /\ MaxNonce \in Nat /\ Threshold \in Nat \ {0} /\ CrcThreshold \in Nat \ {0}
    /\ MaxCounter \in Nat /\ Room \in Nat \ {0}

VARIABLES
    setup,    \* fast: serial_baud is not serial_safe_baud; replies: the MCU answers
              \* CMD_SET_BAUDRATE (this firmware does not); secret: that of the MCU;
              \* limit: serial_handshake_min_interval is positive; frames: bound,
              \* the frames the MCU encrypts in a session
    run,      \* where Run is
    loop,     \* where Loop is
    d,        \* the state of the daemon
    m,        \* the MCU
    toMcu, toDaemon,   \* frames in flight
    sessions, \* handshakes completed, at most 2 (history)
    refused   \* a fresh frame of the session was refused (history)

vars == <<setup, run, loop, d, m, toMcu, toDaemon, sessions, refused>>
line == <<toMcu, toDaemon>>
history == <<sessions, refused>>

NoNonce == 0

HandshakeState ==
    {"unsynchronized", "resetting", "syncing", "confirming", "synchronized", "fault"}

Daemon == [state    : {"disconnected", "connected", "synchronized"},
           fsm      : HandshakeState,
           event    : BOOLEAN,            \* link_sync_event
           expected : 0 .. MaxNonce,      \* link_handshake_nonce
           own      : 0 .. MaxNonce,      \* the nonce of the running attempt
           key      : 0 .. MaxNonce,      \* link_session_key, by its nonce
           counter  : 0 .. MaxCounter,    \* link_last_nonce_counter
           attempt  : 0 .. Threshold,
           answered : BOOLEAN,            \* handshake_rate_until was set
           crc      : 0 .. CrcThreshold,  \* _consecutive_crc_errors
           baud     : {"safe", "fast"},
           agreed   : BOOLEAN]            \* _negotiation_future is done

\* out stands for FAULT and STARTUP, which CMD_LINK_SYNC does not leave.
Mcu == [fsm : {"unsynchronized", "synchronized", "out"}, key : 0 .. MaxNonce,
        counter : 0 .. MaxCounter, baud : {"safe", "fast"},
        tx : BOOLEAN]                     \* _tx_enabled

Frame == [cmd : {"RESET", "SYNC", "BAUD_FAST", "BAUD_SAFE", "MALFORMED",
                 "SYNC_RESP", "BAUD_RESP", "APP"},
          nonce : 0 .. MaxNonce, tag : BOOLEAN, counter : 0 .. MaxCounter,
          baud : {"safe", "fast"}]

Booted == [fsm |-> "unsynchronized", key |-> NoNonce, counter |-> 0, baud |-> "safe",
           tx |-> TRUE]

Init ==
    /\ setup \in Setups
    /\ run = "closed" /\ loop = "ended"
    /\ d = [state |-> "disconnected", fsm |-> "unsynchronized", event |-> FALSE,
            expected |-> NoNonce, own |-> NoNonce, key |-> NoNonce, counter |-> 0,
            attempt |-> 0, answered |-> FALSE, crc |-> 0, baud |-> "safe", agreed |-> FALSE]
    /\ m = Booted
    /\ toMcu = <<>> /\ toDaemon = <<>>
    /\ sessions = 0 /\ refused = FALSE

FrameOf(cmd, nonce, tag, counter, baud) ==
    [cmd |-> cmd, nonce |-> nonce, tag |-> tag, counter |-> counter, baud |-> baud]

\* send_raw of a handshake frame at the local rate: written, or lost on the way.
Sends(cmd, nonce) ==
    /\ Len(toMcu) < Room
    /\ \/ toMcu' = Append(toMcu, FrameOf(cmd, nonce, TRUE, 0, d.baud))
       \/ toMcu' = toMcu

----------------------------------------------------------------------------
(* RuntimeState and SerialHandshakeManager: functions of the daemon's state *)

mark_transport_connected(s) == [s EXCEPT !.state = "connected"]
mark_transport_disconnected(s) == [s EXCEPT !.state = "disconnected", !.event = FALSE]

\* Mutant: waiters are not told.
mark_synchronizedSilent(s) == [s EXCEPT !.state = "synchronized"]

mark_synchronized(s) == [s EXCEPT !.state = "synchronized", !.event = TRUE]

set_fsm_state(s, new) ==
    LET t == [s EXCEPT !.fsm = new]
    IN IF s.fsm = new THEN s
       ELSE IF new = "synchronized" THEN mark_synchronized(t)
       ELSE IF s.fsm = "synchronized" THEN mark_transport_connected(t)
       ELSE t

\* Counters, the fatal mark and the backoff are only reported.
handle_handshake_failure(s) == mark_transport_connected(set_fsm_state(s, "fault"))

\* The link is marked once more; the rest is statistics.
handle_handshake_success(s) == mark_synchronized(s)

clear_handshake_expectations(s) == [s EXCEPT !.expected = NoNonce]

\* The first step; synchronize follows.
on_serial_connected(s) == mark_transport_connected(s)

----------------------------------------------------------------------------
(* Run: connection and handshake *)

\* Mutant: the port is closed and nothing else is done.
leaveAsItIs == loop' = "ended" /\ run' = "closed" /\ UNCHANGED d

\* _connect_and_run is left: Loop is cancelled and on_serial_disconnected runs, unless Loop
\* ended with an exception that awaiting it raises again.
leave ==
    /\ loop' = "ended"
    /\ IF loop = "raised" THEN run' = "escaped" /\ UNCHANGED d
       ELSE /\ run' = "closed"
            /\ d' = clear_handshake_expectations(mark_transport_disconnected(d))

\* The port is opened at the safe rate; toggling DTR resets the MCU on some boards.
\* Another rate is asked for first.
connect ==
    /\ run \in {"closed", "escaped"}
    /\ loop' = "read"
    /\ d' = LET s == [d EXCEPT !.baud = "safe", !.agreed = FALSE, !.attempt = 0]
            IN IF setup.fast THEN s ELSE on_serial_connected(s)
    /\ m' \in {m, Booted}
    /\ IF setup.fast THEN run' = "negotiate" /\ Len(toMcu) < Room
                          /\ toMcu' = Append(toMcu, FrameOf("BAUD_FAST", 0, TRUE, 0, "safe"))
       ELSE run' = "begin" /\ UNCHANGED toMcu
    /\ UNCHANGED <<setup, toDaemon, history>>

\* _negotiate_baudrate: agreed, or a timeout, which closes the port.
negotiate ==
    /\ run = "negotiate"
    /\ IF d.agreed THEN run' = "begin" /\ d' = on_serial_connected(d) /\ UNCHANGED loop
       ELSE leave
    /\ UNCHANGED <<setup, m, line, history>>

\* _synchronize_attempt, up to CMD_LINK_RESET.
attempt ==
    /\ run = "begin" /\ d.own < MaxNonce
    /\ d' = LET s == set_fsm_state(set_fsm_state(d, "unsynchronized"), "resetting")
            IN [s EXCEPT !.attempt = d.attempt + 1, !.event = FALSE,
                         !.own = d.own + 1, !.expected = d.own + 1]
    /\ run' = "reset" /\ Sends("RESET", 0)
    /\ UNCHANGED <<setup, loop, m, toDaemon, history>>

\* A frame that cannot be written ends the attempt.
send_fails ==
    /\ run \in {"reset", "sent"}
    /\ d' = handle_handshake_failure(clear_handshake_expectations(d))
    /\ run' = "retry" /\ UNCHANGED <<setup, loop, m, line, history>>

\* ... CMD_LINK_SYNC, once the MCU had time to reset.
sync ==
    /\ run = "reset"
    /\ d' = set_fsm_state(d, "syncing")
    /\ run' = "sent" /\ Sends("SYNC", d.own)
    /\ UNCHANGED <<setup, loop, m, toDaemon, history>>

\* ... what Loop made of the answer meanwhile.
confirming ==
    /\ run = "sent"
    /\ d' = IF d.fsm = "syncing" THEN set_fsm_state(d, "confirming") ELSE d
    /\ run' = IF d.fsm = "fault" THEN "retry" ELSE "confirm"
    /\ UNCHANGED <<setup, loop, m, line, history>>

\* ... the confirmation, or a timeout.
confirm ==
    /\ run = "confirm"
    /\ IF d.state = "synchronized" THEN run' = "up" /\ UNCHANGED d
       ELSE /\ run' = "retry"
            /\ d' = LET s == clear_handshake_expectations(d)
                    IN IF d.fsm = "fault" THEN d
                       ELSE IF d.expected = d.own THEN handle_handshake_failure(s)
                       ELSE s
    /\ UNCHANGED <<setup, loop, m, line, history>>

\* Mutant: a failed attempt is repeated without end.
retryForever ==
    /\ run = "retry" /\ run' = "reset"
    /\ UNCHANGED <<setup, loop, d, m, line, history>>

\* Mutant: one attempt too many.
retryOnceMore ==
    /\ run = "retry"
    /\ IF d.attempt <= Threshold THEN run' = "begin" /\ UNCHANGED d
       ELSE run' = "up" /\ d' = set_fsm_state(d, "fault")
    /\ UNCHANGED <<setup, loop, m, line, history>>

\* synchronize: the next attempt, or FAULT with the port open.
retry ==
    /\ run = "retry"
    /\ IF d.attempt < Threshold THEN run' = "begin" /\ UNCHANGED d
       ELSE run' = "up" /\ d' = set_fsm_state(d, "fault")
    /\ UNCHANGED <<setup, loop, m, line, history>>

\* The connection ends when Loop has, and not before synchronize returned.
disconnect ==
    /\ run = "up" /\ loop \in {"ended", "raised"} /\ leave
    /\ UNCHANGED <<setup, m, line, history>>

\* An exception of on_serial_connected: the report of a failed attempt does not fit the
\* cloud's queue, or what follows a handshake (version, console) raises.
connected_raises ==
    /\ run \in {"retry", "up"} /\ leave
    /\ UNCHANGED <<setup, m, line, history>>

----------------------------------------------------------------------------
(* Loop: one packet *)

Takes == toDaemon # <<>> /\ loop = "read" /\ toDaemon' = Tail(toDaemon)

\* A handler returns, raises what ends Loop, or raises what Loop does not catch (DecodeError
\* of the payload, QueueFull of the cloud's queue).
Handled == loop' \in {"read", "ended", "raised"}

\* AEAD: an application frame decrypts only under the key it was encrypted with.
Malformed(f) ==
    \/ f.baud # d.baud
    \/ f.cmd = "APP" /\ d.state = "synchronized" /\ f.nonce # d.key

\* Line noise, a frame at another rate or of another session; after CrcThreshold of them
\* (good frames between them do not count) Loop itself asks for the safe rate.
malformed ==
    /\ Takes
    /\ IF d.crc + 1 < CrcThreshold
       THEN d' = [d EXCEPT !.crc = d.crc + 1] /\ UNCHANGED <<loop, toMcu>>
       ELSE /\ d' = [d EXCEPT !.crc = 0]
            /\ IF setup.fast
               THEN /\ loop' = "negotiate" /\ Len(toMcu) < Room
                    /\ toMcu' = Append(toMcu, FrameOf("BAUD_SAFE", 0, TRUE, 0, d.baud))
               ELSE UNCHANGED <<loop, toMcu>>
    /\ UNCHANGED <<setup, run, m, history>>

\* No packet is read while Loop waits for the answer: only the timeout ends this.
fallback_timeout ==
    /\ loop = "negotiate" /\ loop' = "read"
    /\ UNCHANGED <<setup, run, d, m, line, history>>

set_baudrate_resp ==
    /\ Takes /\ Head(toDaemon).cmd = "BAUD_RESP" /\ ~Malformed(Head(toDaemon))
    /\ d' = IF run = "negotiate" THEN [d EXCEPT !.baud = "fast", !.agreed = TRUE] ELSE d
    /\ UNCHANGED <<setup, run, loop, m, toMcu, history>>

\* Mutant: whichever nonce comes back is taken.
AcceptsAny(f) == d.expected # NoNonce /\ f.tag

\* The answer to the pending nonce, with the right tag.
Accepts(f) == d.expected # NoNonce /\ f.nonce = d.expected /\ f.tag

\* Refused before it is looked at: nothing is expected, or another answer came less than
\* serial_handshake_min_interval ago.
Untimely == d.expected = NoNonce \/ (setup.limit /\ d.answered)

\* handle_link_sync_resp.  An answer to another nonce than the pending one is ignored.
link_sync_resp ==
    /\ Takes /\ Head(toDaemon).cmd = "SYNC_RESP" /\ ~Malformed(Head(toDaemon))
    /\ LET f == Head(toDaemon)
           s == [d EXCEPT !.answered = TRUE]
       IN \/ /\ Accepts(f)
             /\ d' = handle_handshake_success(clear_handshake_expectations(
                        set_fsm_state([s EXCEPT !.key = f.nonce], "synchronized")))
             /\ sessions' = IF sessions < 2 THEN sessions + 1 ELSE 2
             /\ Handled /\ UNCHANGED <<toMcu, refused>>
          \/ /\ Untimely
             /\ loop' = "failing" /\ Sends("MALFORMED", 0) /\ UNCHANGED <<d, history>>
          \/ /\ d.expected # NoNonce /\ ~Accepts(f) /\ d' = s
             /\ IF f.nonce = d.expected
                THEN loop' = "clearing" /\ Sends("MALFORMED", 0)
                ELSE UNCHANGED <<loop, toMcu>>
             /\ UNCHANGED history
    /\ UNCHANGED <<setup, run, m>>

\* ... after the negative acknowledgement is sent.
link_sync_failure ==
    /\ loop \in {"failing", "clearing"}
    /\ d' = handle_handshake_failure(IF loop = "clearing" THEN clear_handshake_expectations(d)
                                                          ELSE d)
    /\ Handled
    /\ UNCHANGED <<setup, run, m, line, history>>

\* Mutant: the first number after the last one is refused.
validate_nonce_counterSkips(n, last) == n > last + 1

validate_nonce_counter(n, last) == n > last

\* A frame of the application is handled in the session, and dropped outside it.
application_frame ==
    /\ Takes /\ Head(toDaemon).cmd = "APP" /\ ~Malformed(Head(toDaemon))
    /\ LET n == Head(toDaemon).counter
           ok == validate_nonce_counter(n, d.counter)
       IN /\ d' = IF d.state = "synchronized" /\ ok THEN [d EXCEPT !.counter = n] ELSE d
          /\ refused' = (refused \/ (d.state = "synchronized" /\ ~ok))
          /\ IF d.state = "synchronized" /\ ok THEN Handled ELSE UNCHANGED loop
    /\ UNCHANGED <<setup, run, m, toMcu, sessions>>

\* The port fails.
read_fails ==
    /\ loop = "read" /\ loop' = "ended"
    /\ UNCHANGED <<setup, run, d, m, line, history>>

Loop == \/ (toDaemon # <<>> /\ Malformed(Head(toDaemon)) /\ malformed)
        \/ fallback_timeout \/ set_baudrate_resp
        \/ link_sync_resp \/ link_sync_failure \/ application_frame

----------------------------------------------------------------------------
(* The MCU *)

\* A frame at another rate is noise.  The MCU answers CMD_LINK_SYNC whatever its state,
\* and changes its rate after it answered, if it does, at the old one.  STATUS_MALFORMED
\* leads to the safe state, which CMD_LINK_SYNC leaves, but with transmission off.
mcu_receives ==
    /\ toMcu # <<>> /\ toMcu' = Tail(toMcu)
    /\ LET f == Head(toMcu)
           Answer(cmd, tag) ==
              IF Len(toDaemon) < Room
              THEN toDaemon' = Append(toDaemon, FrameOf(cmd, f.nonce, tag, 0, m.baud))
              ELSE UNCHANGED toDaemon
           joined == IF m.fsm = "unsynchronized" THEN "synchronized" ELSE m.fsm
           Rate(b) == /\ m' = [m EXCEPT !.baud = b]
                      /\ IF setup.replies THEN Answer("BAUD_RESP", TRUE)
                         ELSE UNCHANGED toDaemon
       IN \/ f.baud # m.baud /\ UNCHANGED <<m, toDaemon>>
          \/ /\ f.baud = m.baud
             /\ \/ f.cmd = "RESET" /\ m' = [m EXCEPT !.fsm = "unsynchronized"] /\ UNCHANGED toDaemon
                \/ /\ f.cmd = "MALFORMED" /\ UNCHANGED toDaemon
                   /\ m' = [m EXCEPT !.fsm = "unsynchronized", !.tx = FALSE]
                \/ f.cmd = "BAUD_FAST" /\ Rate("fast")
                \/ f.cmd = "BAUD_SAFE" /\ Rate("safe")
                \/ /\ f.cmd = "SYNC" /\ setup.secret = "same"
                   /\ m' = [m EXCEPT !.fsm = joined, !.key = f.nonce, !.counter = 0]
                   /\ Answer("SYNC_RESP", TRUE)
                \/ /\ f.cmd = "SYNC" /\ setup.secret = "none"
                   /\ m' = [m EXCEPT !.fsm = joined] /\ Answer("SYNC_RESP", FALSE)
                \/ /\ f.cmd = "SYNC" /\ setup.secret = "other"
                   /\ m' = [m EXCEPT !.fsm = "out"] /\ UNCHANGED toDaemon
    /\ UNCHANGED <<setup, run, loop, d, history>>

\* An encrypted frame of the application, with the next number of the session.
mcu_sends ==
    /\ m.fsm = "synchronized" /\ m.tx /\ m.key # NoNonce /\ m.counter < setup.frames
    /\ Len(toDaemon) < Room
    /\ m' = [m EXCEPT !.counter = m.counter + 1]
    /\ toDaemon' = Append(toDaemon, FrameOf("APP", m.key, TRUE, m.counter + 1, m.baud))
    /\ UNCHANGED <<setup, run, loop, d, toMcu, history>>

\* Its handshake or acknowledgement timer runs out, or it restarts.
mcu_fails ==
    /\ m' \in {[m EXCEPT !.fsm = "out", !.tx = FALSE], Booted}
    /\ UNCHANGED <<setup, run, loop, d, line, history>>

\* The line loses a frame to the daemon, or garbles it.
line_fails ==
    \/ Takes /\ UNCHANGED <<setup, run, loop, d, m, toMcu, history>>
    \/ malformed

Run == \/ connect \/ negotiate \/ attempt \/ sync \/ send_fails \/ confirming \/ confirm
       \/ retry \/ disconnect

Next == \/ Run \/ Loop \/ connected_raises \/ read_fails
        \/ mcu_receives \/ mcu_sends \/ mcu_fails \/ line_fails

\* The event loop is fair to its tasks and their timeouts; the MCU reads its port.
Fairness == WF_vars(Run) /\ WF_vars(Loop) /\ WF_vars(mcu_receives)

Spec == Init /\ [][Next]_vars /\ Fairness

----------------------------------------------------------------------------
(* Properties *)

TypeOK ==
    /\ setup \in Setups
    /\ run \in {"closed", "escaped", "negotiate", "begin", "reset", "sent", "confirm",
                "retry", "up"}
    /\ loop \in {"read", "negotiate", "failing", "clearing", "ended", "raised"}
    /\ d \in Daemon /\ m \in Mcu
    /\ toMcu \in Seq(Frame) /\ toDaemon \in Seq(Frame)
    /\ sessions \in 0 .. 2 /\ refused \in BOOLEAN

\* Two ends that both consider themselves synchronized use the same key, whichever
\* attempts were abandoned, answered late or lost before.
KeyAgreement ==
    d.state = "synchronized" /\ m.fsm = "synchronized" => d.key = m.key

\* While the link counts as synchronized, the handshake's state machine says so too, those
\* who wait for the link are released, and the port is open, unless an exception of a
\* handler left _connect_and_run before on_serial_disconnected.
SyncVisible ==
    d.state = "synchronized" => d.fsm = "synchronized" /\ d.event /\ run # "closed"

\* The replay protection refuses no fresh frame in the first session.  (It does in later
\* ones: the MCU counts from zero again and link_last_nonce_counter is kept.)
FreshAccepted == refused => sessions > 1

\* synchronize always returns, with a synchronized link or in FAULT: Threshold attempts are
\* not exceeded and no confirmation is awaited for ever.
VerdictReached ==
    (run \in {"reset", "sent", "confirm", "retry"})
       ~> (run \in {"up", "closed", "escaped"} \/ d.own = MaxNonce)
============================================================================

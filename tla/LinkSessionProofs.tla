------------------------- MODULE LinkSessionProofs -------------------------
(***************************************************************************)
(* Proofs about LinkSession, for any number of attempts, rates, frames in    *)
(* flight and installations.                                                *)
(*                                                                         *)
(* Key agreement rests on the order of nonces.  Attempts use growing nonces,  *)
(* the line keeps the order of what it delivers, and so everything on its way *)
(* to the MCU is newer than what the MCU has answered, and all of it is no    *)
(* newer than the attempt the daemon is in.                                  *)
(***************************************************************************)
EXTENDS LinkSession, TLAPS, SequenceTheorems

\* CMD_LINK_SYNC with nonce n has been sent: the one of the present attempt is sent when
\* the attempt leaves "reset".
Sent(n) == n <= d.own /\ (run = "reset" => n < d.own)

IsSync(f) == f.cmd = "SYNC"

\* Frames of the MCU that carry the nonce of a session it has joined.
Confirms(f) == f.cmd = "SYNC_RESP" /\ f.tag
OfSession(f) == Confirms(f) \/ f.cmd = "APP"

\* Nonces on their way to the MCU are sent ones, in their order, and newer than the keys of
\* both ends.
SyncsInOrder ==
    /\ Sent(m.key) /\ Sent(d.key)
    /\ \A i \in 1 .. Len(toMcu) : IsSync(toMcu[i]) =>
          /\ 1 <= toMcu[i].nonce /\ Sent(toMcu[i].nonce)
          /\ m.key < toMcu[i].nonce /\ d.key < toMcu[i].nonce
    /\ \A i, j \in 1 .. Len(toMcu) :
          i < j /\ IsSync(toMcu[i]) /\ IsSync(toMcu[j]) => toMcu[i].nonce < toMcu[j].nonce

\* Nonces on their way back are older than those on their way to the MCU.
AnswersOlder ==
    \A j \in 1 .. Len(toDaemon) : OfSession(toDaemon[j]) =>
       /\ 1 <= toDaemon[j].nonce /\ Sent(toDaemon[j].nonce)
       /\ \A i \in 1 .. Len(toMcu) : IsSync(toMcu[i]) => toDaemon[j].nonce < toMcu[i].nonce

\* A synchronized MCU has the key of its last answer; only one with the same secret gives
\* answers with the right tag.
McuAhead ==
    \A j \in 1 .. Len(toDaemon) : Confirms(toDaemon[j]) =>
       /\ setup.secret = "same"
       /\ m.fsm = "synchronized" => toDaemon[j].nonce <= m.key

\* The daemon is synchronized with the nonce of its last attempt, and expects no other.
OwnKey ==
    /\ d.expected \in {NoNonce, d.own}
    /\ d.state = "synchronized" => /\ d.key = d.own /\ run # "reset"
                                   /\ m.fsm = "synchronized" => m.key = d.own

\* An attempt is within the threshold, and no packet is read without a connection.
Attempts ==
    /\ run \in {"negotiate", "begin"} => d.attempt < Threshold
    /\ run \in {"closed", "escaped"} => loop = "ended"

\* Frames of one session are numbered upwards, each after what the daemon has seen in its
\* first session and none after what the MCU has counted.
Numbered ==
    /\ sessions = 0 => d.counter = 0 /\ d.state # "synchronized"
    /\ d.key = NoNonce => d.counter = 0
    /\ sessions <= 1 /\ d.key = m.key => d.counter <= m.counter
    /\ \A j \in 1 .. Len(toDaemon) : toDaemon[j].cmd = "APP" =>
          /\ 1 <= toDaemon[j].counter
          /\ toDaemon[j].nonce = m.key => toDaemon[j].counter <= m.counter
          /\ sessions <= 1 /\ toDaemon[j].nonce = d.key => d.counter < toDaemon[j].counter
    /\ \A i, j \in 1 .. Len(toDaemon) :
          i < j /\ toDaemon[i].cmd = "APP" /\ toDaemon[j].cmd = "APP"
             /\ toDaemon[i].nonce = toDaemon[j].nonce
          => toDaemon[i].counter < toDaemon[j].counter

IInv ==
    /\ TypeOK /\ SyncsInOrder /\ AnswersOlder /\ McuAhead /\ OwnKey /\ Attempts
    /\ SyncVisible /\ Numbered /\ FreshAccepted

----------------------------------------------------------------------------
(* The line *)

\* The SYNCs in flight are among those before the step, in their order.
NoNewSyncs ==
    \E h \in {0, 1} : \A i \in 1 .. Len(toMcu') :
       IsSync(toMcu'[i]) => i + h \in 1 .. Len(toMcu) /\ toMcu'[i] = toMcu[i + h]

\* The frames with the nonce of a session are among those before the step, in their order.
NoNewAnswers ==
    \E h \in {0, 1} : \A j \in 1 .. Len(toDaemon') :
       OfSession(toDaemon'[j]) =>
          j + h \in 1 .. Len(toDaemon) /\ toDaemon'[j] = toDaemon[j + h]

\* The frame at the head is a frame, and the rest of the line follows it.
LEMMA TailKeepsOrder ==
    ASSUME NEW S, NEW s \in Seq(S), s # <<>>
    PROVE  /\ Head(s) = s[1] /\ Head(s) \in S /\ 1 \in 1 .. Len(s)
           /\ Tail(s) \in Seq(S) /\ Len(Tail(s)) = Len(s) - 1
           /\ \A i \in 1 .. Len(Tail(s)) : i + 1 \in 1 .. Len(s) /\ Tail(s)[i] = s[i + 1]
  OBVIOUS

\* A frame appended comes after those already on the line.
LEMMA AppendKeepsOrder ==
    ASSUME NEW S, NEW s \in Seq(S), NEW x \in S
    PROVE  /\ Append(s, x) \in Seq(S) /\ Len(Append(s, x)) = Len(s) + 1
           /\ Append(s, x)[Len(s) + 1] = x
           /\ \A i \in 1 .. Len(Append(s, x)) :
                 (i \in 1 .. Len(s) /\ Append(s, x)[i] = s[i]) \/ i = Len(s) + 1
           /\ \A i \in 1 .. Len(s) : Append(s, x)[i] = s[i]
  OBVIOUS

\* FrameOf builds a frame.
LEMMA FrameOfType ==
    ASSUME NEW cmd \in {"RESET", "SYNC", "BAUD_FAST", "BAUD_SAFE", "MALFORMED",
                        "SYNC_RESP", "BAUD_RESP", "APP"},
           NEW n \in 0 .. MaxNonce, NEW tag \in BOOLEAN, NEW c \in 0 .. MaxCounter,
           NEW b \in {"safe", "fast"}
    PROVE  /\ FrameOf(cmd, n, tag, c, b) \in Frame
           /\ FrameOf(cmd, n, tag, c, b).cmd = cmd /\ FrameOf(cmd, n, tag, c, b).nonce = n
           /\ FrameOf(cmd, n, tag, c, b).tag = tag /\ FrameOf(cmd, n, tag, c, b).counter = c
           /\ FrameOf(cmd, n, tag, c, b).baud = b
  BY DEF FrameOf, Frame

\* A line that stays as it is has no new frame.
LEMMA SameSyncs == ASSUME toMcu' = toMcu PROVE NoNewSyncs
<1>1. \A i \in 1 .. Len(toMcu) : i + 0 \in 1 .. Len(toMcu) /\ toMcu[i] = toMcu[i + 0]
  OBVIOUS
<1> QED BY <1>1 DEF NoNewSyncs

\* The same for the line to the daemon.
LEMMA SameAnswers == ASSUME toDaemon' = toDaemon PROVE NoNewAnswers
<1>1. \A i \in 1 .. Len(toDaemon) :
         i + 0 \in 1 .. Len(toDaemon) /\ toDaemon[i] = toDaemon[i + 0]
  OBVIOUS
<1> QED BY <1>1 DEF NoNewAnswers

\* The MCU takes a frame.
LEMMA TakenByMcu ==
    ASSUME TypeOK, toMcu # <<>>, toMcu' = Tail(toMcu)
    PROVE  /\ NoNewSyncs /\ toMcu' \in Seq(Frame) /\ Head(toMcu) \in Frame
           /\ Head(toMcu) = toMcu[1] /\ 1 \in 1 .. Len(toMcu)
<1>1. toMcu \in Seq(Frame)
  BY DEF TypeOK
<1> QED BY <1>1, TailKeepsOrder DEF NoNewSyncs

\* The daemon takes a frame.
LEMMA TakenByDaemon ==
    ASSUME TypeOK, Takes
    PROVE  /\ NoNewAnswers /\ toDaemon' \in Seq(Frame) /\ Head(toDaemon) \in Frame
           /\ Head(toDaemon) = toDaemon[1] /\ 1 \in 1 .. Len(toDaemon)
<1>1. toDaemon \in Seq(Frame)
  BY DEF TypeOK
<1> QED BY <1>1, TailKeepsOrder DEF NoNewAnswers, Takes

\* The daemon sends a frame other than a SYNC.
LEMMA SentByDaemon ==
    ASSUME TypeOK, NEW cmd \in {"RESET", "BAUD_FAST", "BAUD_SAFE", "MALFORMED"},
           NEW b \in {"safe", "fast"},
           \/ toMcu' = Append(toMcu, FrameOf(cmd, 0, TRUE, 0, b))
           \/ toMcu' = toMcu
    PROVE  NoNewSyncs /\ toMcu' \in Seq(Frame)
<1> DEFINE f == FrameOf(cmd, 0, TRUE, 0, b)
<1>1. toMcu \in Seq(Frame) /\ f \in Frame /\ ~IsSync(f)
  <2>1. 0 \in 0 .. MaxNonce /\ 0 \in 0 .. MaxCounter
    BY LinkConstants
  <2>2. f \in Frame /\ f.cmd = cmd
    BY <2>1 DEF FrameOf, Frame
  <2> QED BY <2>2 DEF TypeOK, IsSync
<1> HIDE DEF f
<1>2. toMcu' = Append(toMcu, f) \/ toMcu' = toMcu
  BY DEF f
<1>3. CASE toMcu' = Append(toMcu, f)
  <2>1. \A i \in 1 .. Len(toMcu') : IsSync(toMcu'[i]) =>
           i + 0 \in 1 .. Len(toMcu) /\ toMcu'[i] = toMcu[i + 0]
    BY <1>1, <1>3, AppendKeepsOrder
  <2> QED BY <1>1, <1>3, <2>1, AppendKeepsOrder DEF NoNewSyncs
<1> QED BY <1>1, <1>2, <1>3, SameSyncs

\* The MCU sends a frame that carries no nonce of a session.
LEMMA SentByMcu ==
    ASSUME TypeOK, NEW f \in Frame, ~OfSession(f), toDaemon' = Append(toDaemon, f)
    PROVE  NoNewAnswers /\ toDaemon' \in Seq(Frame)
<1>1. toDaemon \in Seq(Frame)
  BY DEF TypeOK
<1>2. \A j \in 1 .. Len(toDaemon') : OfSession(toDaemon'[j]) =>
         j + 0 \in 1 .. Len(toDaemon) /\ toDaemon'[j] = toDaemon[j + 0]
  BY <1>1, AppendKeepsOrder
<1> QED BY <1>1, <1>2, AppendKeepsOrder DEF NoNewAnswers

----------------------------------------------------------------------------
(* The daemon's operations on its state *)

\* The fields that the link state and the handshake state machine leave alone.
SameAttempt(s, t) ==
    /\ t.own = s.own /\ t.key = s.key /\ t.counter = s.counter /\ t.attempt = s.attempt
    /\ t.answered = s.answered /\ t.crc = s.crc /\ t.baud = s.baud /\ t.agreed = s.agreed

\* The daemon stays in its session or leaves it, and the attempt is the same.
SameSession(s, t) ==
    /\ t.own = s.own /\ t.key = s.key /\ t.counter = s.counter /\ t.attempt = s.attempt
    /\ t.expected \in {NoNonce, s.expected}
    /\ t.state = "synchronized" => s.state = "synchronized" /\ t.fsm = s.fsm /\ t.event = s.event

\* set_fsm_state: entering synchronized marks the link, leaving it unmarks it.
LEMMA SetFsm ==
    ASSUME NEW s \in Daemon, NEW new \in HandshakeState
    PROVE  /\ set_fsm_state(s, new) \in Daemon /\ SameAttempt(s, set_fsm_state(s, new))
           /\ set_fsm_state(s, new).fsm = new
           /\ set_fsm_state(s, new).expected = s.expected
           /\ s.fsm = new => set_fsm_state(s, new) = s
           /\ s.fsm # new /\ new = "synchronized" =>
                 set_fsm_state(s, new).state = "synchronized" /\ set_fsm_state(s, new).event
           /\ s.fsm # new /\ new # "synchronized" =>
                 /\ set_fsm_state(s, new).event = s.event
                 /\ set_fsm_state(s, new).state =
                       IF s.fsm = "synchronized" THEN "connected" ELSE s.state
<1> DEFINE t == [s EXCEPT !.fsm = new]
<1>1. /\ t \in Daemon /\ SameAttempt(s, t) /\ t.fsm = new /\ t.expected = s.expected
      /\ t.state = s.state /\ t.event = s.event
  BY DEF Daemon, HandshakeState, SameAttempt
<1>2. set_fsm_state(s, new) = IF s.fsm = new THEN s
                              ELSE IF new = "synchronized" THEN mark_synchronized(t)
                              ELSE IF s.fsm = "synchronized" THEN mark_transport_connected(t)
                              ELSE t
  BY DEF set_fsm_state
<1> HIDE DEF t
<1>3. CASE s.fsm = new
  BY <1>2, <1>3 DEF SameAttempt
<1>4. CASE s.fsm # new /\ new = "synchronized"
  BY <1>1, <1>2, <1>4, ZenonT(30) DEF mark_synchronized, SameAttempt, Daemon
<1>5. CASE s.fsm # new /\ new # "synchronized" /\ s.fsm = "synchronized"
  BY <1>1, <1>2, <1>5 DEF mark_transport_connected, SameAttempt, Daemon
<1>6. CASE s.fsm # new /\ new # "synchronized" /\ s.fsm # "synchronized"
  BY <1>1, <1>2, <1>6
<1> QED BY <1>3, <1>4, <1>5, <1>6

\* The operations on the mark of the link and on the expected nonce.
LEMMA Marks ==
    ASSUME NEW s \in Daemon
    PROVE  /\ mark_transport_connected(s) \in Daemon
           /\ SameAttempt(s, mark_transport_connected(s))
           /\ mark_transport_connected(s).state = "connected"
           /\ mark_transport_connected(s).expected = s.expected
           /\ mark_transport_disconnected(s) \in Daemon
           /\ SameAttempt(s, mark_transport_disconnected(s))
           /\ mark_transport_disconnected(s).state = "disconnected"
           /\ mark_synchronized(s) \in Daemon /\ SameAttempt(s, mark_synchronized(s))
           /\ mark_synchronized(s).state = "synchronized" /\ mark_synchronized(s).event
           /\ mark_synchronized(s).fsm = s.fsm
           /\ mark_synchronized(s).expected = s.expected
  BY DEF mark_transport_connected, mark_transport_disconnected, mark_synchronized, Daemon,
         SameAttempt

\* clear_handshake_expectations touches nothing but the expected nonce.
LEMMA Clears ==
    ASSUME NEW s \in Daemon
    PROVE  /\ clear_handshake_expectations(s) \in Daemon
           /\ SameAttempt(s, clear_handshake_expectations(s))
           /\ clear_handshake_expectations(s).expected = NoNonce
           /\ clear_handshake_expectations(s).fsm = s.fsm
           /\ clear_handshake_expectations(s).state = s.state
           /\ clear_handshake_expectations(s).event = s.event
<1>1. NoNonce \in 0 .. MaxNonce
  BY LinkConstants DEF NoNonce
<1> QED BY <1>1 DEF clear_handshake_expectations, Daemon, SameAttempt

\* A failed handshake leaves the link unsynchronized.
LEMMA Fails ==
    ASSUME NEW s \in Daemon
    PROVE  /\ handle_handshake_failure(s) \in Daemon
           /\ SameAttempt(s, handle_handshake_failure(s))
           /\ handle_handshake_failure(s).state = "connected"
           /\ handle_handshake_failure(s).expected = s.expected
<1> DEFINE t == set_fsm_state(s, "fault")
<1>1. t \in Daemon /\ SameAttempt(s, t) /\ t.expected = s.expected
  BY SetFsm DEF HandshakeState
<1> HIDE DEF t
<1>2. SameAttempt(t, mark_transport_connected(t)) => SameAttempt(s, mark_transport_connected(t))
  BY <1>1 DEF SameAttempt
<1>3. handle_handshake_failure(s) = mark_transport_connected(t)
  BY DEF handle_handshake_failure, t
<1> QED BY <1>1, <1>2, <1>3, Marks

\* The end of a connection: the link is unmarked, or all is left as it was.
LEMMA Leaves ==
    ASSUME d \in Daemon, leave
    PROVE  /\ d' \in Daemon /\ SameAttempt(d, d') /\ loop' = "ended"
           /\ \/ run' = "closed" /\ d'.state = "disconnected" /\ d'.expected = NoNonce
              \/ run' = "escaped" /\ d' = d
<1> DEFINE t == mark_transport_disconnected(d)
<1>1. t \in Daemon /\ SameAttempt(d, t) /\ t.state = "disconnected"
  BY Marks
<1>2. /\ loop' = "ended"
      /\ \/ run' = "closed" /\ d' = clear_handshake_expectations(t)
         \/ run' = "escaped" /\ d' = d
  BY DEF leave
<1> HIDE DEF t
<1>3. CASE run' = "closed" /\ d' = clear_handshake_expectations(t)
  <2>1. SameAttempt(t, d') => SameAttempt(d, d')
    BY <1>1 DEF SameAttempt
  <2> QED BY <1>1, <1>2, <1>3, <2>1, Clears
<1>4. CASE run' = "escaped" /\ d' = d
  BY <1>2, <1>4 DEF SameAttempt
<1> QED BY <1>2, <1>3, <1>4

----------------------------------------------------------------------------
(* Steps that confirm nothing *)

\* The daemon takes no key and is not synchronized anew; it may open an attempt.
DaemonQuiet ==
    /\ d.own <= d'.own /\ d'.key = d.key
    /\ d'.expected \in {NoNonce, d'.own}
    /\ d'.state = "synchronized" =>
          /\ d.state = "synchronized" /\ d'.own = d.own /\ d'.fsm = d.fsm /\ d'.event = d.event
          /\ run' # "closed"
    /\ run' = "reset" => d.own < d'.own \/ (run = "reset" /\ d'.own = d.own)

\* The MCU keeps its session, leaves it or restarts.
McuQuiet ==
    \/ /\ m'.key = m.key /\ m'.counter = m.counter
       /\ m'.fsm = "synchronized" =>
             m.fsm = "synchronized" \/ (setup.secret # "same" /\ d.state # "synchronized")
    \/ m'.key = NoNonce /\ m'.counter = 0 /\ m'.fsm # "synchronized"

\* The fields the arguments about nonces compare are numbers.
LEMMA Numbers ==
    ASSUME TypeOK
    PROVE  /\ d.own \in Nat /\ d.key \in Nat /\ d.counter \in Nat /\ d.expected \in Nat
           /\ m.key \in Nat /\ m.counter \in Nat /\ sessions \in Nat
           /\ Len(toMcu) \in Nat /\ Len(toDaemon) \in Nat
           /\ \A i \in 1 .. Len(toMcu) : toMcu[i] \in Frame /\ toMcu[i].nonce \in Nat
           /\ \A j \in 1 .. Len(toDaemon) : /\ toDaemon[j] \in Frame
                                           /\ toDaemon[j].nonce \in Nat
                                           /\ toDaemon[j].counter \in Nat
<1>1. d \in Daemon /\ m \in Mcu /\ toMcu \in Seq(Frame) /\ toDaemon \in Seq(Frame)
      /\ sessions \in 0 .. 2
  BY DEF TypeOK
<1>2. d.own \in Nat /\ d.key \in Nat /\ d.counter \in Nat /\ d.expected \in Nat
  BY <1>1 DEF Daemon
<1>3. m.key \in Nat /\ m.counter \in Nat
  BY <1>1 DEF Mcu
<1>4. \A f \in Frame : f.nonce \in Nat /\ f.counter \in Nat
  BY DEF Frame
<1> QED BY <1>1, <1>2, <1>3, <1>4

\* A step that confirms nothing keeps the order of the nonces and all that rests on it.
LEMMA NoncesKept ==
    ASSUME IInv, TypeOK', setup' = setup, NoNewSyncs, NoNewAnswers, DaemonQuiet, McuQuiet
    PROVE  SyncsInOrder' /\ AnswersOlder' /\ McuAhead' /\ OwnKey' /\ SyncVisible'
<1> USE DEF NoNonce
<1>1. TypeOK /\ SyncsInOrder /\ AnswersOlder /\ McuAhead /\ OwnKey /\ SyncVisible
  BY DEF IInv
<1>2. /\ d.own \in Nat /\ d.key \in Nat /\ d.counter \in Nat /\ d.expected \in Nat
      /\ m.key \in Nat /\ m.counter \in Nat /\ sessions \in Nat
      /\ Len(toMcu) \in Nat /\ Len(toDaemon) \in Nat
      /\ \A i \in 1 .. Len(toMcu) : toMcu[i].nonce \in Nat
      /\ \A j \in 1 .. Len(toDaemon) : toDaemon[j].nonce \in Nat /\ toDaemon[j].counter \in Nat
  BY <1>1, Numbers
<1>3. Len(toMcu') \in Nat /\ Len(toDaemon') \in Nat /\ d'.own \in Nat
  BY DEF TypeOK, Daemon
<1>4. PICK h \in {0, 1} : \A i \in 1 .. Len(toMcu') :
         IsSync(toMcu'[i]) => i + h \in 1 .. Len(toMcu) /\ toMcu'[i] = toMcu[i + h]
  BY DEF NoNewSyncs
<1>5. PICK k \in {0, 1} : \A j \in 1 .. Len(toDaemon') :
         OfSession(toDaemon'[j]) =>
            j + k \in 1 .. Len(toDaemon) /\ toDaemon'[j] = toDaemon[j + k]
  BY DEF NoNewAnswers
<1>6. \A n \in Nat : Sent(n) => n <= d'.own /\ (run' = "reset" => n < d'.own)
  BY <1>2, <1>3 DEF Sent, DaemonQuiet
<1>7. m'.key \in {0, m.key} /\ m'.key \in Nat
  BY <1>2 DEF McuQuiet
<1>8. SyncsInOrder'
  <2>1. (Sent(m.key) /\ Sent(d.key))'
    BY <1>1, <1>2, <1>6, <1>7 DEF SyncsInOrder, Sent, DaemonQuiet
  <2>2. ASSUME NEW i \in 1 .. Len(toMcu'), IsSync(toMcu'[i])
        PROVE  /\ 1 <= toMcu'[i].nonce
               /\ toMcu'[i].nonce <= d'.own /\ (run' = "reset" => toMcu'[i].nonce < d'.own)
               /\ m'.key < toMcu'[i].nonce /\ d'.key < toMcu'[i].nonce
    <3>1. i + h \in 1 .. Len(toMcu) /\ toMcu'[i] = toMcu[i + h]
      BY <1>4, <2>2
    <3>2. /\ 1 <= toMcu'[i].nonce /\ Sent(toMcu'[i].nonce) /\ toMcu'[i].nonce \in Nat
          /\ m.key < toMcu'[i].nonce /\ d.key < toMcu'[i].nonce
      BY <1>1, <1>2, <3>1, <2>2 DEF SyncsInOrder
    <3> QED BY <1>2, <1>6, <1>7, <3>2 DEF DaemonQuiet
  <2>3. \A i, j \in 1 .. Len(toMcu') :
           i < j /\ IsSync(toMcu'[i]) /\ IsSync(toMcu'[j]) => toMcu'[i].nonce < toMcu'[j].nonce
    <3>1. SUFFICES ASSUME NEW i \in 1 .. Len(toMcu'), NEW j \in 1 .. Len(toMcu'),
                          i < j, IsSync(toMcu'[i]), IsSync(toMcu'[j])
                   PROVE  toMcu'[i].nonce < toMcu'[j].nonce
      OBVIOUS
    <3>2. /\ i + h \in 1 .. Len(toMcu) /\ toMcu'[i] = toMcu[i + h]
          /\ j + h \in 1 .. Len(toMcu) /\ toMcu'[j] = toMcu[j + h] /\ i + h < j + h
      BY <1>3, <1>4, <3>1
    <3> QED BY <1>1, <3>1, <3>2 DEF SyncsInOrder
  <2> QED BY <2>1, <2>2, <2>3 DEF SyncsInOrder, Sent
<1>9. AnswersOlder'
  <2>1. ASSUME NEW j \in 1 .. Len(toDaemon'), OfSession(toDaemon'[j])
        PROVE  /\ 1 <= toDaemon'[j].nonce
               /\ toDaemon'[j].nonce <= d'.own
               /\ run' = "reset" => toDaemon'[j].nonce < d'.own
               /\ \A i \in 1 .. Len(toMcu') :
                     IsSync(toMcu'[i]) => toDaemon'[j].nonce < toMcu'[i].nonce
    <3>1. j + k \in 1 .. Len(toDaemon) /\ toDaemon'[j] = toDaemon[j + k]
      BY <1>5, <2>1
    <3>2. /\ 1 <= toDaemon'[j].nonce /\ Sent(toDaemon'[j].nonce) /\ toDaemon'[j].nonce \in Nat
          /\ \A i \in 1 .. Len(toMcu) : IsSync(toMcu[i]) => toDaemon'[j].nonce < toMcu[i].nonce
      BY <1>1, <1>2, <3>1, <2>1 DEF AnswersOlder
    <3> QED BY <1>4, <1>6, <3>2
  <2> QED BY <2>1 DEF AnswersOlder, Sent
<1>10. McuAhead'
  <2>1. ASSUME NEW j \in 1 .. Len(toDaemon'), Confirms(toDaemon'[j])
        PROVE  /\ setup'.secret = "same"
               /\ m'.fsm = "synchronized" => toDaemon'[j].nonce <= m'.key
    <3>1. j + k \in 1 .. Len(toDaemon) /\ toDaemon'[j] = toDaemon[j + k]
      BY <1>5, <2>1 DEF OfSession
    <3> QED BY <1>1, <2>1, <3>1 DEF McuAhead, McuQuiet
  <2> QED BY <2>1 DEF McuAhead
<1>11. OwnKey' /\ SyncVisible'
  BY <1>1, <1>2, <1>3 DEF OwnKey, SyncVisible, DaemonQuiet, McuQuiet
<1> QED BY <1>8, <1>9, <1>10, <1>11

\* ... and, if nothing is counted, the numbers of the frames.
LEMMA QuietStep ==
    ASSUME IInv, TypeOK', setup' = setup, NoNewSyncs, NoNewAnswers, DaemonQuiet, McuQuiet,
           d'.counter = d.counter, sessions' = sessions, refused' = refused, Attempts'
    PROVE  IInv'
<1> USE DEF NoNonce
<1>1. TypeOK /\ AnswersOlder /\ Numbered /\ FreshAccepted
  BY DEF IInv
<1>2. /\ d.key \in Nat /\ d.counter \in Nat
      /\ m.key \in Nat /\ m.counter \in Nat /\ sessions \in Nat
      /\ \A j \in 1 .. Len(toDaemon) : toDaemon[j].nonce \in Nat /\ toDaemon[j].counter \in Nat
  BY <1>1, Numbers
<1>3. Len(toDaemon') \in Nat
  BY DEF TypeOK
<1>4. PICK k \in {0, 1} : \A j \in 1 .. Len(toDaemon') :
         OfSession(toDaemon'[j]) =>
            j + k \in 1 .. Len(toDaemon) /\ toDaemon'[j] = toDaemon[j + k]
  BY DEF NoNewAnswers
<1>5. Numbered'
  <2>1. (sessions = 0 => d.counter = 0 /\ d.state # "synchronized")'
    BY <1>1 DEF Numbered, DaemonQuiet
  <2>2. (d.key = NoNonce => d.counter = 0)'
    BY <1>1 DEF Numbered, DaemonQuiet
  <2>3. (sessions <= 1 /\ d.key = m.key => d.counter <= m.counter)'
    BY <1>1, <1>2 DEF Numbered, DaemonQuiet, McuQuiet
  <2>4. ASSUME NEW j \in 1 .. Len(toDaemon'), toDaemon'[j].cmd = "APP"
        PROVE  /\ 1 <= toDaemon'[j].counter
               /\ toDaemon'[j].nonce = m'.key => toDaemon'[j].counter <= m'.counter
               /\ sessions' <= 1 /\ toDaemon'[j].nonce = d'.key
                     => d'.counter < toDaemon'[j].counter
    <3>1. j + k \in 1 .. Len(toDaemon) /\ toDaemon'[j] = toDaemon[j + k]
      BY <1>4, <2>4 DEF OfSession
    <3>2. 1 <= toDaemon'[j].nonce /\ toDaemon'[j].nonce \in Nat
      BY <1>1, <1>2, <3>1, <2>4 DEF AnswersOlder, OfSession
    <3>3. /\ 1 <= toDaemon'[j].counter
          /\ toDaemon'[j].nonce = m.key => toDaemon'[j].counter <= m.counter
          /\ sessions <= 1 /\ toDaemon'[j].nonce = d.key => d.counter < toDaemon'[j].counter
      BY <1>1, <3>1, <2>4 DEF Numbered
    <3> QED BY <3>2, <3>3 DEF DaemonQuiet, McuQuiet
  <2>5. \A i, j \in 1 .. Len(toDaemon') :
           i < j /\ toDaemon'[i].cmd = "APP" /\ toDaemon'[j].cmd = "APP"
              /\ toDaemon'[i].nonce = toDaemon'[j].nonce
           => toDaemon'[i].counter < toDaemon'[j].counter
    <3>1. SUFFICES ASSUME NEW i \in 1 .. Len(toDaemon'), NEW j \in 1 .. Len(toDaemon'),
                          i < j, toDaemon'[i].cmd = "APP", toDaemon'[j].cmd = "APP",
                          toDaemon'[i].nonce = toDaemon'[j].nonce
                   PROVE  toDaemon'[i].counter < toDaemon'[j].counter
      OBVIOUS
    <3>2. /\ i + k \in 1 .. Len(toDaemon) /\ toDaemon'[i] = toDaemon[i + k]
          /\ j + k \in 1 .. Len(toDaemon) /\ toDaemon'[j] = toDaemon[j + k] /\ i + k < j + k
      BY <1>3, <1>4, <3>1 DEF OfSession
    <3> QED BY <1>1, <3>1, <3>2 DEF Numbered
  <2> QED BY <2>1, <2>2, <2>3, <2>4, <2>5 DEF Numbered
<1>6. FreshAccepted'
  BY <1>1 DEF FreshAccepted
<1> QED BY <1>5, <1>6, NoncesKept DEF IInv
\* What the parts of IInv that speak of one end say, and the types they need.
LEMMA Ends ==
    ASSUME IInv
    PROVE  /\ TypeOK /\ Attempts /\ OwnKey /\ SyncVisible
           /\ d \in Daemon /\ m \in Mcu /\ setup \in Setups
           /\ toMcu \in Seq(Frame) /\ toDaemon \in Seq(Frame)
           /\ d.own \in Nat /\ d.own <= MaxNonce /\ d.attempt \in Nat /\ d.crc \in Nat
           /\ d.attempt <= Threshold /\ d.baud \in {"safe", "fast"}
           /\ d.expected \in {NoNonce, d.own}
  BY DEF IInv, TypeOK, Daemon, OwnKey

----------------------------------------------------------------------------
(* Run *)

\* A step of Run that only moves Run and the marks of the daemon.
RunQuiet ==
    /\ d' \in Daemon /\ DaemonQuiet /\ d'.counter = d.counter /\ Attempts'
    /\ run' \in {"closed", "escaped", "negotiate", "begin", "reset", "sent", "confirm",
                "retry", "up"}
    /\ loop' \in {"read", "negotiate", "failing", "clearing", "ended", "raised"}

\* Such a step keeps the invariant when no SYNC is sent and the MCU at most restarts.
LEMMA RunQuietStep ==
    ASSUME IInv, RunQuiet, NoNewSyncs, toMcu' \in Seq(Frame), m' \in {m, Booted},
           UNCHANGED <<setup, toDaemon, history>>
    PROVE  IInv'
<1>1. TypeOK'
  <2>1. Booted \in Mcu
    BY LinkConstants DEF Booted, Mcu, NoNonce
  <2> QED BY <2>1, Ends DEF RunQuiet, TypeOK, history
<1>2. McuQuiet
  BY DEF McuQuiet, Booted
<1>3. NoNewAnswers
  BY SameAnswers
<1> QED BY <1>1, <1>2, <1>3, QuietStep DEF RunQuiet, history

\* _connect_and_run opens the port.
LEMMA ConnectIInv == ASSUME IInv, connect PROVE IInv'
<1> DEFINE s == [d EXCEPT !.baud = "safe", !.agreed = FALSE, !.attempt = 0]
<1>1. /\ s \in Daemon /\ s.own = d.own /\ s.key = d.key /\ s.counter = d.counter
      /\ s.expected = d.expected /\ s.state = d.state /\ s.attempt = 0
      /\ s.fsm = d.fsm /\ s.event = d.event
  <2>1. d \in Daemon /\ 0 \in 0 .. Threshold
    BY Ends, LinkConstants
  <2> QED BY <2>1 DEF Daemon
<1>2. d' = IF setup.fast THEN s ELSE on_serial_connected(s)
  BY DEF connect
<1> HIDE DEF s
<1>4. /\ d' \in Daemon /\ d'.own = d.own /\ d'.key = d.key /\ d'.counter = d.counter
      /\ d'.expected = d.expected /\ d'.attempt = 0
      /\ d'.state = "synchronized" => /\ d.state = "synchronized"
                                      /\ d'.fsm = d.fsm /\ d'.event = d.event
  BY <1>1, <1>2, Marks DEF on_serial_connected, SameAttempt
<1>5. RunQuiet
  <2>1. run' \in {"negotiate", "begin"} /\ loop' = "read"
    BY DEF connect
  <2>2. d.own \in Nat /\ d.expected \in {NoNonce, d.own} /\ 0 < Threshold
    BY Ends, LinkConstants
  <2>3. DaemonQuiet
    BY <1>4, <2>1, <2>2 DEF DaemonQuiet
  <2>4. Attempts'
    BY <1>4, <2>1, <2>2 DEF Attempts
  <2> QED BY <1>4, <2>1, <2>3, <2>4 DEF RunQuiet
<1>6. NoNewSyncs /\ toMcu' \in Seq(Frame)
  <2>1. toMcu' = Append(toMcu, FrameOf("BAUD_FAST", 0, TRUE, 0, "safe")) \/ toMcu' = toMcu
    BY DEF connect
  <2> QED BY <2>1, Ends, SentByDaemon
<1> QED BY <1>5, <1>6, RunQuietStep DEF connect

\* Steps of Run that leave the line and the MCU alone.
LEMMA RunStaysIInv ==
    ASSUME IInv, RunQuiet, UNCHANGED <<setup, m, line, history>>
    PROVE  IInv'
<1>1. NoNewSyncs /\ toMcu' \in Seq(Frame)
  BY SameSyncs, Ends DEF line
<1> QED BY <1>1, RunQuietStep DEF line

\* _connect_and_run is left.
LEMMA LeaveIInv ==
    ASSUME IInv, leave, UNCHANGED <<setup, m, line, history>>
    PROVE  IInv'
<1>1. RunQuiet
  <2>1. /\ d' \in Daemon /\ SameAttempt(d, d') /\ loop' = "ended"
        /\ \/ run' = "closed" /\ d'.state = "disconnected" /\ d'.expected = NoNonce
           \/ run' = "escaped" /\ d' = d
    BY Ends, Leaves
  <2>2. d.own \in Nat /\ d.expected \in {NoNonce, d.own}
    BY Ends
  <2> QED BY <2>1, <2>2 DEF RunQuiet, DaemonQuiet, Attempts, SameAttempt
<1> QED BY <1>1, RunStaysIInv

\* _negotiate_baudrate returns, or the port is closed.
LEMMA NegotiateIInv == ASSUME IInv, negotiate PROVE IInv'
<1>1. CASE d.agreed
  <2>1. d' = mark_transport_connected(d) /\ run' = "begin" /\ loop' = loop
    BY <1>1 DEF negotiate, on_serial_connected
  <2>2. d' \in Daemon /\ DaemonQuiet /\ d'.counter = d.counter /\ d'.attempt = d.attempt
    BY <2>1, Ends, Marks DEF DaemonQuiet, SameAttempt
  <2>3. RunQuiet
    BY <2>1, <2>2, Ends DEF RunQuiet, Attempts, negotiate, TypeOK
  <2> QED BY <2>3, RunStaysIInv DEF negotiate
<1>2. CASE ~d.agreed
  BY <1>2, LeaveIInv DEF negotiate
<1> QED BY <1>1, <1>2

\* _synchronize_attempt up to CMD_LINK_RESET: a new nonce, and no session.
LEMMA AttemptIInv == ASSUME IInv, attempt PROVE IInv'
<1> DEFINE r == set_fsm_state(d, "unsynchronized")
           s == set_fsm_state(r, "resetting")
<1>1. /\ r \in Daemon /\ SameAttempt(d, r) /\ r.fsm = "unsynchronized"
      /\ r.state # "synchronized"
  BY Ends, SetFsm DEF HandshakeState, SyncVisible
<1>2. /\ d' = [s EXCEPT !.attempt = d.attempt + 1, !.event = FALSE, !.own = d.own + 1,
                        !.expected = d.own + 1]
      /\ run' = "reset" /\ run = "begin" /\ d.own < MaxNonce /\ loop' = loop
  BY DEF attempt
<1> HIDE DEF r
<1>3. s \in Daemon /\ SameAttempt(r, s) /\ s.state # "synchronized"
  BY <1>1, SetFsm DEF HandshakeState
<1> HIDE DEF s
<1>4. /\ d'.own = d.own + 1 /\ d'.expected = d.own + 1 /\ d'.key = d.key
      /\ d'.counter = d.counter /\ d'.state # "synchronized" /\ d'.attempt = d.attempt + 1
  BY <1>1, <1>2, <1>3 DEF SameAttempt, Daemon
<1>5. d' \in Daemon
  <2>1. d.own + 1 \in 0 .. MaxNonce /\ d.attempt + 1 \in 0 .. Threshold
    <3>1. MaxNonce \in Nat /\ Threshold \in Nat
      BY LinkConstants
    <3> QED BY <1>2, <3>1, Ends DEF Attempts
  <2> QED BY <1>2, <1>3, <2>1 DEF Daemon
<1>6. RunQuiet
  <2>1. d.own \in Nat /\ TypeOK
    BY Ends
  <2>2. DaemonQuiet
    <3>1. d.own <= d'.own /\ d.own < d'.own
      BY <1>4, <2>1
    <3> QED BY <1>4, <3>1 DEF DaemonQuiet
  <2> QED BY <1>2, <1>4, <1>5, <2>1, <2>2 DEF RunQuiet, Attempts, TypeOK
<1>7. NoNewSyncs /\ toMcu' \in Seq(Frame)
  BY Ends, SentByDaemon DEF attempt, Sends
<1> QED BY <1>6, <1>7, RunQuietStep DEF attempt

\* A frame that cannot be written.
LEMMA SendFailsIInv == ASSUME IInv, send_fails PROVE IInv'
<1> DEFINE s == clear_handshake_expectations(d)
<1>1. s \in Daemon /\ SameAttempt(d, s) /\ s.expected = NoNonce
  BY Ends, Clears
<1>2. d' = handle_handshake_failure(s) /\ run' = "retry" /\ loop' = loop
  BY DEF send_fails
<1> HIDE DEF s
<1>3. RunQuiet
  <2>1. d' \in Daemon /\ SameAttempt(s, d') /\ d'.state = "connected" /\ d'.expected = NoNonce
    BY <1>1, <1>2, Fails
  <2> QED BY <1>1, <1>2, <2>1, Ends DEF RunQuiet, DaemonQuiet, Attempts, SameAttempt, send_fails, TypeOK
<1> QED BY <1>3, RunStaysIInv DEF send_fails

\* The attempt goes on to wait, unless Loop has failed it meanwhile.
LEMMA ConfirmingIInv == ASSUME IInv, confirming PROVE IInv'
<1>1. \/ d' = set_fsm_state(d, "confirming") /\ d.fsm = "syncing"
      \/ d' = d
  BY DEF confirming
<1>2. d' \in Daemon /\ SameAttempt(d, d') /\ d'.expected = d.expected
      /\ (d'.state = "synchronized" => d'.fsm = d.fsm /\ d'.event = d.event
                                        /\ d.state = "synchronized")
  BY <1>1, Ends, SetFsm DEF HandshakeState, SameAttempt, SyncVisible
<1>3. RunQuiet
  BY <1>2, Ends DEF RunQuiet, DaemonQuiet, Attempts, SameAttempt, confirming, TypeOK
<1> QED BY <1>3, RunStaysIInv DEF confirming

\* The confirmation, or a timeout.
LEMMA ConfirmIInv == ASSUME IInv, confirm PROVE IInv'
<1> DEFINE s == clear_handshake_expectations(d)
<1>1. /\ s \in Daemon /\ SameAttempt(d, s) /\ s.expected = NoNonce
      /\ s.fsm = d.fsm /\ s.state = d.state /\ s.event = d.event
  BY Ends, Clears
<1>2. /\ run = "confirm" /\ run' \in {"up", "retry"} /\ loop' = loop
      /\ d' = d \/ d' = handle_handshake_failure(s) \/ d' = s
  BY DEF confirm
<1> HIDE DEF s
<1>3. d' \in Daemon /\ SameAttempt(d, d') /\ d'.expected \in {NoNonce, d.expected}
      /\ (d'.state = "synchronized" => d'.fsm = d.fsm /\ d'.event = d.event
                                        /\ d.state = "synchronized")
  BY <1>1, <1>2, Ends, Fails DEF SameAttempt
<1>4. RunQuiet
  BY <1>2, <1>3, Ends DEF RunQuiet, DaemonQuiet, Attempts, SameAttempt, TypeOK
<1> QED BY <1>4, RunStaysIInv DEF confirm

\* The next attempt, or FAULT.
LEMMA RetryIInv == ASSUME IInv, retry PROVE IInv'
<1>1. /\ run = "retry" /\ loop' = loop
      /\ \/ d.attempt < Threshold /\ run' = "begin" /\ d' = d
         \/ run' = "up" /\ d' = set_fsm_state(d, "fault")
  BY DEF retry
<1>2. d' \in Daemon /\ SameAttempt(d, d') /\ d'.expected = d.expected
      /\ (d'.state = "synchronized" => d'.fsm = d.fsm /\ d'.event = d.event
                                        /\ d.state = "synchronized")
  BY <1>1, Ends, SetFsm DEF HandshakeState, SameAttempt, SyncVisible
<1>3. RunQuiet
  BY <1>1, <1>2, Ends DEF RunQuiet, DaemonQuiet, Attempts, SameAttempt, TypeOK
<1> QED BY <1>3, RunStaysIInv DEF retry

\* The connection ends.
LEMMA DisconnectIInv == ASSUME IInv, disconnect PROVE IInv'
  BY LeaveIInv DEF disconnect

\* on_serial_connected raises.
LEMMA ConnectedRaisesIInv == ASSUME IInv, connected_raises PROVE IInv'
  BY LeaveIInv DEF connected_raises

\* CMD_LINK_SYNC goes out with the newest nonce.
LEMMA SyncIInv == ASSUME IInv, sync PROVE IInv'
<1> DEFINE f == FrameOf("SYNC", d.own, TRUE, 0, d.baud)
<1>1. /\ run = "reset" /\ run' = "sent" /\ loop' = loop /\ d' = set_fsm_state(d, "syncing")
      /\ toMcu' = Append(toMcu, f) \/ toMcu' = toMcu
      /\ UNCHANGED <<setup, m, toDaemon, history>>
  BY DEF sync, Sends
<1>2. f \in Frame /\ f.cmd = "SYNC" /\ f.nonce = d.own
  <2>1. d.own \in 0 .. MaxNonce /\ 0 \in 0 .. MaxCounter /\ d.baud \in {"safe", "fast"}
    BY Ends, LinkConstants
  <2> QED BY <2>1 DEF FrameOf, Frame
<1> HIDE DEF f
<1>3. /\ d' \in Daemon /\ d'.own = d.own /\ d'.key = d.key /\ d'.counter = d.counter
      /\ d'.expected = d.expected /\ d'.state # "synchronized"
  BY <1>1, Ends, SetFsm DEF HandshakeState, SameAttempt, OwnKey
<1>4. RunQuiet
  <2>1. d.own \in Nat /\ TypeOK /\ OwnKey
    BY Ends
  <2> QED BY <1>1, <1>3, <2>1 DEF RunQuiet, DaemonQuiet, Attempts, TypeOK, OwnKey
<1>5. CASE toMcu' = toMcu
  BY <1>1, <1>4, <1>5, Ends, SameSyncs, RunQuietStep
<1>6. CASE toMcu' = Append(toMcu, f)
  <2>1. /\ TypeOK /\ SyncsInOrder /\ AnswersOlder /\ McuAhead /\ OwnKey /\ Numbered
        /\ FreshAccepted
    BY DEF IInv
  <2>2. /\ d.own \in Nat /\ d.key \in Nat /\ m.key \in Nat /\ toMcu \in Seq(Frame)
        /\ Len(toMcu) \in Nat
        /\ \A i \in 1 .. Len(toMcu) : toMcu[i].nonce \in Nat
        /\ \A j \in 1 .. Len(toDaemon) : toDaemon[j].nonce \in Nat
    BY <2>1, Ends, Numbers
  <2>3. /\ Len(toMcu') = Len(toMcu) + 1 /\ toMcu'[Len(toMcu) + 1] = f /\ toMcu' \in Seq(Frame)
        /\ \A i \in 1 .. Len(toMcu') :
              (i \in 1 .. Len(toMcu) /\ toMcu'[i] = toMcu[i]) \/ i = Len(toMcu) + 1
    BY <1>2, <1>6, <2>2, AppendKeepsOrder
  <2>4. /\ m.key < d.own /\ d.key < d.own
        /\ \A i \in 1 .. Len(toMcu) : IsSync(toMcu[i]) => toMcu[i].nonce < d.own
        /\ \A j \in 1 .. Len(toDaemon) : OfSession(toDaemon[j]) => toDaemon[j].nonce < d.own
    BY <1>1, <2>1 DEF SyncsInOrder, AnswersOlder, Sent
  <2>5. TypeOK'
    BY <1>1, <1>4, <2>1, <2>3 DEF TypeOK, RunQuiet, history
  <2>6. SyncsInOrder'
    <3>1. ASSUME NEW i \in 1 .. Len(toMcu'), IsSync(toMcu'[i])
          PROVE  /\ 1 <= toMcu'[i].nonce /\ toMcu'[i].nonce <= d.own
                 /\ m.key < toMcu'[i].nonce /\ d.key < toMcu'[i].nonce
      <4>1. CASE i \in 1 .. Len(toMcu) /\ toMcu'[i] = toMcu[i]
        BY <2>1, <2>2, <3>1, <4>1 DEF SyncsInOrder, Sent
      <4>2. CASE i = Len(toMcu) + 1
        BY <1>2, <2>2, <2>3, <2>4, <4>2
      <4> QED BY <2>3, <4>1, <4>2
    <3>2. ASSUME NEW i \in 1 .. Len(toMcu'), NEW j \in 1 .. Len(toMcu'), i < j,
                 IsSync(toMcu'[i]), IsSync(toMcu'[j])
          PROVE  toMcu'[i].nonce < toMcu'[j].nonce
      <4>1. i \in 1 .. Len(toMcu) /\ toMcu'[i] = toMcu[i]
        BY <2>2, <2>3, <3>2
      <4>2. CASE j \in 1 .. Len(toMcu) /\ toMcu'[j] = toMcu[j]
        BY <2>1, <3>2, <4>1, <4>2 DEF SyncsInOrder
      <4>3. CASE j = Len(toMcu) + 1
        BY <1>2, <2>3, <2>4, <3>2, <4>1, <4>3
      <4> QED BY <2>3, <4>2, <4>3
    <3>3. (Sent(m.key) /\ Sent(d.key))'
      BY <1>1, <1>3, <2>2, <2>4 DEF Sent
    <3> QED BY <1>1, <1>3, <3>1, <3>2, <3>3 DEF SyncsInOrder, Sent
  <2>7. AnswersOlder'
    <3>1. ASSUME NEW j \in 1 .. Len(toDaemon), OfSession(toDaemon[j]),
                 NEW i \in 1 .. Len(toMcu'), IsSync(toMcu'[i])
          PROVE  toDaemon[j].nonce < toMcu'[i].nonce
      <4>1. CASE i \in 1 .. Len(toMcu) /\ toMcu'[i] = toMcu[i]
        BY <2>1, <3>1, <4>1 DEF AnswersOlder
      <4>2. CASE i = Len(toMcu) + 1
        BY <1>2, <2>3, <2>4, <3>1, <4>2
      <4> QED BY <2>3, <4>1, <4>2
    <3> QED BY <1>1, <1>3, <2>1, <3>1 DEF AnswersOlder, Sent
  <2>8. McuAhead' /\ OwnKey' /\ Attempts' /\ SyncVisible' /\ FreshAccepted'
    BY <1>1, <1>3, <1>4, <2>1 DEF McuAhead, OwnKey, SyncVisible, FreshAccepted, RunQuiet, history
  <2>9. Numbered'
    BY <1>1, <1>3, <2>1 DEF Numbered, history
  <2> QED BY <2>5, <2>6, <2>7, <2>8, <2>9 DEF IInv
<1> QED BY <1>1, <1>5, <1>6

----------------------------------------------------------------------------
(* Loop *)

\* A step of Loop that takes no key and counts nothing keeps the invariant when no SYNC and
\* no answer appears.
LEMMA LoopQuietStep ==
    ASSUME IInv, d' \in Daemon, SameSession(d, d'), loop # "ended",
           loop' \in {"read", "negotiate", "failing", "clearing", "ended", "raised"},
           NoNewSyncs, NoNewAnswers, toMcu' \in Seq(Frame), toDaemon' \in Seq(Frame),
           UNCHANGED <<setup, run, m, history>>
    PROVE  IInv'
<1>1. TypeOK'
  BY Ends DEF TypeOK, history
<1>2. DaemonQuiet
  <2>1. d.own \in Nat /\ d.expected \in {NoNonce, d.own} /\ SyncVisible
    BY Ends
  <2> QED BY <2>1 DEF DaemonQuiet, SameSession, SyncVisible
<1>3. McuQuiet
  BY DEF McuQuiet
<1>4. Attempts'
  BY Ends DEF Attempts, SameSession
<1> QED BY <1>1, <1>2, <1>3, <1>4, QuietStep DEF history, SameSession

\* A packet that is not of the session, or garbled.
LEMMA MalformedIInv == ASSUME IInv, malformed PROVE IInv'
<1>1. /\ \/ d' = [d EXCEPT !.crc = d.crc + 1] /\ d.crc + 1 < CrcThreshold
         \/ d' = [d EXCEPT !.crc = 0]
      /\ \/ loop' = loop /\ toMcu' = toMcu
         \/ /\ loop' = "negotiate"
            /\ toMcu' = Append(toMcu, FrameOf("BAUD_SAFE", 0, TRUE, 0, d.baud))
      /\ loop = "read" /\ Takes /\ UNCHANGED <<setup, run, m, history>>
  BY DEF malformed, Takes
<1>2. d' \in Daemon /\ SameSession(d, d')
  <2>1. d \in Daemon /\ d.crc \in Nat /\ CrcThreshold \in Nat
    BY Ends, LinkConstants
  <2>2. 0 \in 0 .. CrcThreshold /\ (d.crc + 1 < CrcThreshold => d.crc + 1 \in 0 .. CrcThreshold)
    BY <2>1
  <2> QED BY <1>1, <2>1, <2>2 DEF Daemon, SameSession
<1>3. NoNewSyncs /\ toMcu' \in Seq(Frame)
  BY <1>1, Ends, SentByDaemon
<1>4. NoNewAnswers /\ toDaemon' \in Seq(Frame)
  BY <1>1, Ends, TakenByDaemon
<1> QED BY <1>1, <1>2, <1>3, <1>4, LoopQuietStep

\* Steps of Loop that take no packet.
LEMMA LoopStaysIInv ==
    ASSUME IInv, d' \in Daemon, SameSession(d, d'), loop # "ended",
           loop' \in {"read", "ended", "raised"}, UNCHANGED <<setup, run, m, line, history>>
    PROVE  IInv'
<1>1. NoNewSyncs /\ NoNewAnswers /\ toMcu' \in Seq(Frame) /\ toDaemon' \in Seq(Frame)
  BY Ends, SameSyncs, SameAnswers DEF line
<1> QED BY <1>1, LoopQuietStep

\* The request for the safe rate times out.
LEMMA FallbackTimeoutIInv == ASSUME IInv, fallback_timeout PROVE IInv'
<1>1. d' \in Daemon /\ SameSession(d, d')
  BY Ends DEF fallback_timeout, SameSession
<1> QED BY <1>1, LoopStaysIInv DEF fallback_timeout

\* The port fails.
LEMMA ReadFailsIInv == ASSUME IInv, read_fails PROVE IInv'
<1>1. d' \in Daemon /\ SameSession(d, d')
  BY Ends DEF read_fails, SameSession
<1> QED BY <1>1, LoopStaysIInv DEF read_fails

\* The MCU agreed to another rate.
LEMMA BaudRespIInv == ASSUME IInv, set_baudrate_resp PROVE IInv'
<1>1. d' \in Daemon /\ SameSession(d, d')
  BY Ends DEF set_baudrate_resp, Daemon, SameSession
<1>2. NoNewAnswers /\ toDaemon' \in Seq(Frame) /\ loop = "read"
  BY Ends, TakenByDaemon DEF set_baudrate_resp, Takes
<1>3. NoNewSyncs /\ toMcu' \in Seq(Frame)
  BY Ends, SameSyncs DEF set_baudrate_resp
<1>4. loop' = loop /\ UNCHANGED <<setup, run, m, history>>
  BY DEF set_baudrate_resp
<1> QED BY <1>1, <1>2, <1>3, <1>4, LoopQuietStep

\* An answer is refused, and the failure handled.
LEMMA SyncFailureIInv == ASSUME IInv, link_sync_failure PROVE IInv'
<1> DEFINE s == IF loop = "clearing" THEN clear_handshake_expectations(d) ELSE d
<1>1. s \in Daemon /\ SameAttempt(d, s) /\ s.expected \in {NoNonce, d.expected}
  BY Ends, Clears DEF SameAttempt
<1>2. d' = handle_handshake_failure(s)
  BY DEF link_sync_failure
<1> HIDE DEF s
<1>3. d' \in Daemon /\ SameSession(d, d')
  BY <1>1, <1>2, Fails DEF SameAttempt, SameSession
<1> QED BY <1>3, LoopStaysIInv DEF link_sync_failure, Handled

\* The answer to the pending nonce: it is that of the last attempt, no SYNC follows it, and
\* an MCU that is synchronized has the same key.
LEMMA AcceptIInv ==
    ASSUME IInv, Takes, NEW f, f = Head(toDaemon), f.cmd = "SYNC_RESP", Accepts(f),
           d' = handle_handshake_success(clear_handshake_expectations(
                   set_fsm_state([d EXCEPT !.answered = TRUE, !.key = f.nonce], "synchronized"))),
           sessions' = IF sessions < 2 THEN sessions + 1 ELSE 2,
           Handled, UNCHANGED <<setup, run, m, toMcu, refused>>
    PROVE  IInv'
<1> USE DEF NoNonce
<1>1. /\ TypeOK /\ SyncsInOrder /\ AnswersOlder /\ McuAhead /\ OwnKey /\ Attempts
      /\ SyncVisible /\ Numbered /\ FreshAccepted
  BY DEF IInv
<1>2. /\ d.own \in Nat /\ d.key \in Nat /\ m.key \in Nat /\ m.counter \in Nat
      /\ d.counter \in Nat /\ sessions \in 0 .. 2
      /\ Len(toMcu) \in Nat /\ Len(toDaemon) \in Nat
      /\ \A i \in 1 .. Len(toMcu) : toMcu[i].nonce \in Nat
      /\ \A j \in 1 .. Len(toDaemon) : toDaemon[j].nonce \in Nat /\ toDaemon[j].counter \in Nat
  BY <1>1, Numbers DEF TypeOK
<1>3. /\ f = toDaemon[1] /\ 1 \in 1 .. Len(toDaemon) /\ f \in Frame
      /\ toDaemon' \in Seq(Frame)
  BY <1>1, TakenByDaemon
<1>4. Len(toDaemon') \in Nat
      /\ \A j \in 1 .. Len(toDaemon') : j + 1 \in 1 .. Len(toDaemon) /\ toDaemon'[j] = toDaemon[j + 1]
  <2>1. toDaemon \in Seq(Frame) /\ toDaemon # <<>> /\ toDaemon' = Tail(toDaemon)
    BY <1>1 DEF TypeOK, Takes
  <2> QED BY <2>1, <1>3, TailKeepsOrder
<1>5. f.nonce = d.own /\ Confirms(f) /\ OfSession(f)
  BY <1>1 DEF Accepts, OwnKey, Confirms, OfSession
<1>6. /\ run # "reset" /\ 1 <= d.own
      /\ \A i \in 1 .. Len(toMcu) : IsSync(toMcu[i]) => d.own < toMcu[i].nonce
      /\ m.fsm = "synchronized" => m.key = d.own
  BY <1>1, <1>2, <1>3, <1>5, SMTT(30) DEF AnswersOlder, McuAhead, SyncsInOrder, Sent
<1>7. /\ d' \in Daemon /\ d'.own = d.own /\ d'.key = d.own /\ d'.counter = d.counter
      /\ d'.expected = NoNonce /\ d'.attempt = d.attempt
      /\ d'.state = "synchronized" /\ d'.fsm = "synchronized" /\ d'.event
  <2> DEFINE a == [d EXCEPT !.answered = TRUE, !.key = f.nonce]
             b == set_fsm_state(a, "synchronized")
             c == clear_handshake_expectations(b)
  <2>1. /\ a \in Daemon /\ a.own = d.own /\ a.key = d.own /\ a.counter = d.counter
        /\ a.attempt = d.attempt
    <3>1. d \in Daemon /\ f.nonce \in 0 .. MaxNonce
      BY <1>1, <1>3 DEF TypeOK, Frame
    <3> QED BY <1>5, <3>1 DEF Daemon
  <2>2. d' = mark_synchronized(c)
    BY DEF handle_handshake_success
  <2> HIDE DEF a
  <2>3. b \in Daemon /\ SameAttempt(a, b) /\ b.fsm = "synchronized"
    BY <2>1, SetFsm DEF HandshakeState
  <2> HIDE DEF b
  <2>4. c \in Daemon /\ SameAttempt(b, c) /\ c.fsm = "synchronized" /\ c.expected = NoNonce
    BY <2>3, Clears
  <2> HIDE DEF c
  <2>5. /\ d' \in Daemon /\ SameAttempt(c, d') /\ d'.fsm = "synchronized"
        /\ d'.expected = NoNonce /\ d'.state = "synchronized" /\ d'.event
    BY <2>2, <2>4, Marks
  <2> QED BY <2>1, <2>3, <2>4, <2>5 DEF SameAttempt
<1>8. TypeOK'
  BY <1>1, <1>2, <1>3, <1>7 DEF TypeOK, Handled
<1>9. SyncsInOrder'
  BY <1>1, <1>2, <1>6, <1>7 DEF SyncsInOrder, Sent
<1>10. AnswersOlder' /\ McuAhead'
  BY <1>1, <1>4, <1>7 DEF AnswersOlder, McuAhead, Sent
<1>11. OwnKey' /\ Attempts'
  BY <1>1, <1>6, <1>7 DEF OwnKey, Attempts, Takes
<1>12. SyncVisible'
  BY <1>1, <1>7 DEF SyncVisible, Attempts, Takes
<1>13. Numbered'
  <2>1. sessions' \in Nat /\ sessions' > 0 /\ (sessions' <= 1 => sessions = 0)
    BY <1>2
  <2>2. sessions' <= 1 => d'.counter = 0
    BY <1>1, <1>7, <2>1 DEF Numbered
  <2>3. ASSUME NEW j \in 1 .. Len(toDaemon'), toDaemon'[j].cmd = "APP"
        PROVE  /\ 1 <= toDaemon'[j].counter
               /\ toDaemon'[j].nonce = m'.key => toDaemon'[j].counter <= m'.counter
               /\ sessions' <= 1 /\ toDaemon'[j].nonce = d'.key
                     => d'.counter < toDaemon'[j].counter
    BY <1>1, <1>2, <1>4, <2>2, <2>3, SMTT(30) DEF Numbered
  <2>4. ASSUME NEW i \in 1 .. Len(toDaemon'), NEW j \in 1 .. Len(toDaemon'), i < j,
               toDaemon'[i].cmd = "APP", toDaemon'[j].cmd = "APP",
               toDaemon'[i].nonce = toDaemon'[j].nonce
        PROVE  toDaemon'[i].counter < toDaemon'[j].counter
    <3>1. i + 1 < j + 1
      BY <1>4, <2>4
    <3> QED BY <1>1, <1>4, <2>4, <3>1 DEF Numbered
  <2> QED BY <1>2, <1>6, <1>7, <2>1, <2>2, <2>3, <2>4 DEF Numbered
<1>14. FreshAccepted'
  BY <1>1, <1>2 DEF FreshAccepted
<1> QED BY <1>8, <1>9, <1>10, <1>11, <1>12, <1>13, <1>14 DEF IInv

\* An answer of the MCU: taken, refused or ignored.
LEMMA SyncRespIInv == ASSUME IInv, link_sync_resp PROVE IInv'
<1> DEFINE f == Head(toDaemon)
           s == [d EXCEPT !.answered = TRUE]
<1>1. /\ Takes /\ f.cmd = "SYNC_RESP" /\ UNCHANGED <<setup, run, m>> /\ loop = "read"
  BY DEF link_sync_resp, Takes
<1>2. CASE /\ Accepts(f)
           /\ d' = handle_handshake_success(clear_handshake_expectations(
                      set_fsm_state([s EXCEPT !.key = f.nonce], "synchronized")))
           /\ sessions' = IF sessions < 2 THEN sessions + 1 ELSE 2
           /\ Handled /\ UNCHANGED <<toMcu, refused>>
  <2>1. [s EXCEPT !.key = f.nonce] = [d EXCEPT !.answered = TRUE, !.key = f.nonce]
    OBVIOUS
  <2> HIDE DEF f
  <2> QED BY <1>1, <1>2, <2>1, AcceptIInv DEF f
<1>3. CASE /\ d' \in {d, s} /\ loop' \in {"read", "failing", "clearing"} /\ UNCHANGED history
           /\ toMcu' = toMcu \/ Sends("MALFORMED", 0)
  <2>1. d' \in Daemon /\ SameSession(d, d')
    BY <1>3, Ends DEF Daemon, SameSession
  <2>2. NoNewSyncs /\ toMcu' \in Seq(Frame)
    BY <1>3, Ends, SentByDaemon DEF Sends
  <2>3. NoNewAnswers /\ toDaemon' \in Seq(Frame)
    BY <1>1, Ends, TakenByDaemon
  <2> QED BY <1>1, <1>3, <2>1, <2>2, <2>3, LoopQuietStep
<1> QED BY <1>1, <1>2, <1>3 DEF link_sync_resp

\* A frame of the session: in the first session its number is new.
LEMMA ApplicationFrameIInv == ASSUME IInv, application_frame PROVE IInv'
<1> DEFINE f == Head(toDaemon)
<1> USE DEF NoNonce
<1>1. /\ Takes /\ f.cmd = "APP" /\ ~Malformed(f) /\ loop = "read"
      /\ UNCHANGED <<setup, run, m, toMcu, sessions>>
      /\ loop' \in {"read", "ended", "raised"}
      /\ d' = IF d.state = "synchronized" /\ f.counter > d.counter
              THEN [d EXCEPT !.counter = f.counter] ELSE d
      /\ refused' = (refused \/ (d.state = "synchronized" /\ ~(f.counter > d.counter)))
  BY DEF application_frame, Takes, validate_nonce_counter, Handled
<1>2. /\ TypeOK /\ SyncsInOrder /\ AnswersOlder /\ McuAhead /\ OwnKey /\ Attempts
      /\ SyncVisible /\ Numbered /\ FreshAccepted
  BY DEF IInv
<1>3. /\ d.own \in Nat /\ d.key \in Nat /\ m.key \in Nat /\ m.counter \in Nat
      /\ d.counter \in Nat /\ sessions \in Nat
      /\ Len(toDaemon) \in Nat /\ d.expected \in {NoNonce, d.own}
      /\ \A j \in 1 .. Len(toDaemon) : toDaemon[j].nonce \in Nat /\ toDaemon[j].counter \in Nat
  BY <1>2, Numbers, Ends
<1>4. /\ f = toDaemon[1] /\ 1 \in 1 .. Len(toDaemon) /\ f \in Frame
      /\ toDaemon' \in Seq(Frame) /\ NoNewAnswers
  BY <1>1, <1>2, TakenByDaemon
<1>5. Len(toDaemon') \in Nat
      /\ \A j \in 1 .. Len(toDaemon') : j + 1 \in 1 .. Len(toDaemon) /\ toDaemon'[j] = toDaemon[j + 1]
  <2>1. toDaemon \in Seq(Frame) /\ toDaemon # <<>> /\ toDaemon' = Tail(toDaemon)
    BY <1>1, <1>2 DEF TypeOK, Takes
  <2> QED BY <2>1, <1>4, TailKeepsOrder
<1> HIDE DEF f
<1>6. /\ d' \in Daemon /\ d'.own = d.own /\ d'.key = d.key /\ d'.expected = d.expected
      /\ d'.attempt = d.attempt /\ d'.state = d.state /\ d'.fsm = d.fsm /\ d'.event = d.event
      /\ d'.counter = IF d.state = "synchronized" /\ f.counter > d.counter THEN f.counter
                      ELSE d.counter
  <2>1. d \in Daemon /\ f.counter \in 0 .. MaxCounter
    BY <1>2, <1>4 DEF TypeOK, Frame
  <2> QED BY <1>1, <2>1 DEF Daemon
<1>7. TypeOK'
  <2>1. refused' \in BOOLEAN
    BY <1>1, <1>2 DEF TypeOK
  <2> QED BY <1>1, <1>2, <1>4, <1>6, <2>1 DEF TypeOK
<1>8. SyncsInOrder' /\ AnswersOlder' /\ McuAhead' /\ OwnKey' /\ SyncVisible'
  <2>1. DaemonQuiet
    BY <1>1, <1>2, <1>3, <1>6 DEF DaemonQuiet, SyncVisible
  <2>2. McuQuiet
    BY <1>1 DEF McuQuiet
  <2>3. NoNewSyncs
    BY <1>1, SameSyncs
  <2> QED BY <1>1, <1>4, <1>7, <2>1, <2>2, <2>3, NoncesKept
<1>9. Attempts'
  BY <1>1, <1>2, <1>6 DEF Attempts
<1>10. d.state = "synchronized" => f.nonce = d.key /\ sessions > 0
  BY <1>1, <1>2, <1>3 DEF Malformed, Numbered
<1>11. /\ 1 <= f.counter /\ f.counter \in Nat /\ 1 <= f.nonce
       /\ f.nonce = m.key => f.counter <= m.counter
       /\ sessions <= 1 /\ f.nonce = d.key => d.counter < f.counter
  BY <1>1, <1>2, <1>3, <1>4 DEF Numbered, AnswersOlder, OfSession
<1>12. Numbered'
  <2>1. (sessions = 0 => d.counter = 0 /\ d.state # "synchronized")'
    BY <1>1, <1>2, <1>6, <1>10 DEF Numbered
  <2>2. (d.key = NoNonce => d.counter = 0)'
    BY <1>2, <1>3, <1>4, <1>6, <1>10, <1>11 DEF Numbered
  <2>3. (sessions <= 1 /\ d.key = m.key => d.counter <= m.counter)'
    BY <1>1, <1>2, <1>6, <1>10, <1>11 DEF Numbered
  <2>4. ASSUME NEW j \in 1 .. Len(toDaemon'), toDaemon'[j].cmd = "APP"
        PROVE  /\ 1 <= toDaemon'[j].counter
               /\ toDaemon'[j].nonce = m'.key => toDaemon'[j].counter <= m'.counter
               /\ sessions' <= 1 /\ toDaemon'[j].nonce = d'.key
                     => d'.counter < toDaemon'[j].counter
    <3>1. /\ 1 <= toDaemon'[j].counter
          /\ toDaemon'[j].nonce = m.key => toDaemon'[j].counter <= m.counter
          /\ sessions <= 1 /\ toDaemon'[j].nonce = d.key => d.counter < toDaemon'[j].counter
      BY <1>2, <1>5, <2>4 DEF Numbered
    <3>2. toDaemon'[j].nonce = f.nonce => f.counter < toDaemon'[j].counter
      <4>1. 1 < j + 1 /\ j + 1 \in 1 .. Len(toDaemon) /\ toDaemon'[j] = toDaemon[j + 1]
        BY <1>5, <2>4
      <4> QED BY <1>1, <1>2, <1>4, <2>4, <4>1 DEF Numbered
    <3> QED BY <1>1, <1>6, <1>10, <3>1, <3>2
  <2>5. ASSUME NEW i \in 1 .. Len(toDaemon'), NEW j \in 1 .. Len(toDaemon'), i < j,
               toDaemon'[i].cmd = "APP", toDaemon'[j].cmd = "APP",
               toDaemon'[i].nonce = toDaemon'[j].nonce
        PROVE  toDaemon'[i].counter < toDaemon'[j].counter
    <3>1. i + 1 < j + 1
      BY <1>5, <2>5
    <3> QED BY <1>2, <1>5, <2>5, <3>1 DEF Numbered
  <2> QED BY <2>1, <2>2, <2>3, <2>4, <2>5 DEF Numbered
<1>13. FreshAccepted'
  <2>1. d.state = "synchronized" /\ ~(f.counter > d.counter) => sessions > 1
    BY <1>3, <1>10, <1>11
  <2> QED BY <1>1, <1>2, <2>1 DEF FreshAccepted
<1> QED BY <1>7, <1>8, <1>9, <1>12, <1>13 DEF IInv
----------------------------------------------------------------------------
(* The MCU and the line *)

\* A step of the MCU that joins no session keeps the invariant when no SYNC and no answer
\* appears.
LEMMA McuQuietStep ==
    ASSUME IInv, m' \in Mcu, McuQuiet, NoNewSyncs, NoNewAnswers, toMcu' \in Seq(Frame),
           toDaemon' \in Seq(Frame), UNCHANGED <<setup, run, loop, d, history>>
    PROVE  IInv'
<1>1. TypeOK'
  BY Ends DEF TypeOK, history
<1>2. DaemonQuiet
  <2>1. d.own \in Nat /\ d.expected \in {NoNonce, d.own} /\ SyncVisible
    BY Ends
  <2> QED BY <2>1 DEF DaemonQuiet, SyncVisible
<1>3. Attempts'
  BY Ends DEF Attempts
<1> QED BY <1>1, <1>2, <1>3, QuietStep DEF history

\* A restart or a timeout of the MCU.
LEMMA McuFailsIInv == ASSUME IInv, mcu_fails PROVE IInv'
<1>1. m' \in Mcu /\ McuQuiet
  <2>1. m \in Mcu /\ NoNonce \in 0 .. MaxNonce /\ 0 \in 0 .. MaxCounter
    BY Ends, LinkConstants DEF NoNonce
  <2>2. CASE m' = [m EXCEPT !.fsm = "out", !.tx = FALSE]
    BY <2>1, <2>2 DEF Mcu, McuQuiet
  <2>3. CASE m' = Booted
    BY <2>1, <2>3 DEF Booted, Mcu, McuQuiet
  <2> QED BY <2>2, <2>3 DEF mcu_fails
<1>2. NoNewSyncs /\ NoNewAnswers /\ toMcu' \in Seq(Frame) /\ toDaemon' \in Seq(Frame)
  BY Ends, SameSyncs, SameAnswers DEF mcu_fails, line
<1> QED BY <1>1, <1>2, McuQuietStep DEF mcu_fails

\* The line loses a frame, or garbles it.
LEMMA LineFailsIInv == ASSUME IInv, line_fails PROVE IInv'
<1>1. CASE Takes /\ UNCHANGED <<setup, run, loop, d, m, toMcu, history>>
  <2>1. NoNewSyncs /\ NoNewAnswers /\ toMcu' \in Seq(Frame) /\ toDaemon' \in Seq(Frame)
    BY <1>1, Ends, SameSyncs, TakenByDaemon
  <2>2. m' \in Mcu /\ McuQuiet
    BY <1>1, Ends DEF McuQuiet
  <2> QED BY <1>1, <2>1, <2>2, McuQuietStep
<1> QED BY <1>1, MalformedIInv DEF line_fails

\* The MCU joins the session of a SYNC: its nonce is newer than every key and every answer.
LEMMA JoinIInv ==
    ASSUME IInv, toMcu # <<>>, toMcu' = Tail(toMcu), Head(toMcu).cmd = "SYNC",
           setup.secret = "same", NEW joined \in {"unsynchronized", "synchronized", "out"},
           m' = [m EXCEPT !.fsm = joined, !.key = Head(toMcu).nonce, !.counter = 0],
           NEW b \in {"safe", "fast"},
           \/ toDaemon' = Append(toDaemon, FrameOf("SYNC_RESP", Head(toMcu).nonce, TRUE, 0, b))
           \/ toDaemon' = toDaemon,
           UNCHANGED <<setup, run, loop, d, history>>
    PROVE  IInv'
<1> DEFINE f == Head(toMcu)
           g == FrameOf("SYNC_RESP", f.nonce, TRUE, 0, b)
<1>1. /\ TypeOK /\ SyncsInOrder /\ AnswersOlder /\ McuAhead /\ OwnKey /\ Attempts
      /\ SyncVisible /\ Numbered /\ FreshAccepted
  BY DEF IInv
<1>2. /\ d.own \in Nat /\ d.key \in Nat /\ m.key \in Nat /\ m.counter \in Nat
      /\ d.counter \in Nat /\ sessions \in Nat
      /\ Len(toMcu) \in Nat /\ Len(toDaemon) \in Nat /\ toDaemon \in Seq(Frame)
      /\ \A i \in 1 .. Len(toMcu) : toMcu[i].nonce \in Nat
      /\ \A j \in 1 .. Len(toDaemon) : toDaemon[j].nonce \in Nat /\ toDaemon[j].counter \in Nat
  BY <1>1, Numbers, Ends
<1>3. f = toMcu[1] /\ 1 \in 1 .. Len(toMcu) /\ f \in Frame /\ toMcu' \in Seq(Frame)
  BY <1>1, TakenByMcu
<1>4. Len(toMcu') \in Nat
      /\ \A i \in 1 .. Len(toMcu') : i + 1 \in 1 .. Len(toMcu) /\ toMcu'[i] = toMcu[i + 1]
  <2>1. toMcu \in Seq(Frame)
    BY <1>1 DEF TypeOK
  <2> QED BY <2>1, <1>3, TailKeepsOrder
<1>5. g \in Frame /\ g.cmd = "SYNC_RESP" /\ g.nonce = f.nonce /\ g.tag
  <2>1. f.nonce \in 0 .. MaxNonce /\ 0 \in 0 .. MaxCounter
    BY <1>3, LinkConstants DEF Frame
  <2> QED BY <2>1 DEF FrameOf, Frame
<1>6. toDaemon' = Append(toDaemon, g) \/ toDaemon' = toDaemon
  OBVIOUS
<1>7. f.cmd = "SYNC"
  OBVIOUS
<1>8. m'.fsm = joined /\ m'.key = f.nonce /\ m'.counter = 0 /\ m' \in Mcu
  <2>1. f.nonce \in 0 .. MaxNonce /\ 0 \in 0 .. MaxCounter /\ m \in Mcu
    BY <1>1, <1>3, LinkConstants DEF Frame, TypeOK
  <2> QED BY <2>1 DEF Mcu
<1> HIDE DEF f, g
<1>9. /\ 1 <= f.nonce /\ f.nonce \in Nat /\ Sent(f.nonce) /\ m.key < f.nonce /\ d.key < f.nonce
      /\ \A j \in 1 .. Len(toDaemon) : OfSession(toDaemon[j]) => toDaemon[j].nonce < f.nonce
  BY <1>1, <1>2, <1>3, <1>7 DEF SyncsInOrder, AnswersOlder, IsSync
<1>10. \A i \in 1 .. Len(toMcu') : IsSync(toMcu'[i]) => f.nonce < toMcu'[i].nonce
  <2>1. SUFFICES ASSUME NEW i \in 1 .. Len(toMcu'), IsSync(toMcu'[i])
                 PROVE  f.nonce < toMcu'[i].nonce
    OBVIOUS
  <2>2. 1 < i + 1 /\ i + 1 \in 1 .. Len(toMcu) /\ toMcu'[i] = toMcu[i + 1]
    BY <1>4, <2>1
  <2> QED BY <1>1, <1>3, <1>7, <2>1, <2>2 DEF SyncsInOrder, IsSync
<1>11. /\ Len(toDaemon') \in Nat /\ toDaemon' \in Seq(Frame)
       /\ \A j \in 1 .. Len(toDaemon') :
             (j \in 1 .. Len(toDaemon) /\ toDaemon'[j] = toDaemon[j]) \/ toDaemon'[j] = g
  <2>1. CASE toDaemon' = Append(toDaemon, g)
    BY <1>2, <1>5, <2>1, AppendKeepsOrder
  <2>2. CASE toDaemon' = toDaemon
    BY <1>2, <2>2
  <2> QED BY <1>6, <2>1, <2>2
<1>12. d.state # "synchronized"
  BY <1>1, <1>2, <1>9 DEF OwnKey, Sent
<1>13. TypeOK'
  BY <1>1, <1>3, <1>8, <1>11 DEF TypeOK, history
<1>14. SyncsInOrder'
  <2>1. (Sent(m.key) /\ Sent(d.key))'
    BY <1>1, <1>8, <1>9 DEF SyncsInOrder, Sent
  <2>2. ASSUME NEW i \in 1 .. Len(toMcu'), IsSync(toMcu'[i])
        PROVE  /\ 1 <= toMcu'[i].nonce /\ Sent(toMcu'[i].nonce)
               /\ m'.key < toMcu'[i].nonce /\ d'.key < toMcu'[i].nonce
    BY <1>1, <1>4, <1>8, <1>10, <2>2 DEF SyncsInOrder
  <2>3. ASSUME NEW i \in 1 .. Len(toMcu'), NEW j \in 1 .. Len(toMcu'), i < j,
               IsSync(toMcu'[i]), IsSync(toMcu'[j])
        PROVE  toMcu'[i].nonce < toMcu'[j].nonce
    <3>1. i + 1 < j + 1
      BY <1>4, <2>3
    <3> QED BY <1>1, <1>4, <2>3, <3>1 DEF SyncsInOrder
  <2> QED BY <2>1, <2>2, <2>3 DEF SyncsInOrder, Sent
<1>15. AnswersOlder'
  <2>1. ASSUME NEW j \in 1 .. Len(toDaemon'), OfSession(toDaemon'[j])
        PROVE  /\ 1 <= toDaemon'[j].nonce /\ Sent(toDaemon'[j].nonce)
               /\ \A i \in 1 .. Len(toMcu') :
                     IsSync(toMcu'[i]) => toDaemon'[j].nonce < toMcu'[i].nonce
    <3>1. CASE toDaemon'[j] = g
      BY <1>5, <1>9, <1>10, <3>1
    <3>2. CASE j \in 1 .. Len(toDaemon) /\ toDaemon'[j] = toDaemon[j]
      BY <1>1, <1>4, <2>1, <3>2 DEF AnswersOlder
    <3> QED BY <1>11, <3>1, <3>2
  <2> QED BY <2>1 DEF AnswersOlder, Sent
<1>16. McuAhead'
  <2>1. ASSUME NEW j \in 1 .. Len(toDaemon'), Confirms(toDaemon'[j])
        PROVE  toDaemon'[j].nonce <= m'.key
    <3>1. CASE toDaemon'[j] = g
      BY <1>5, <1>8, <1>9, <3>1
    <3>2. CASE j \in 1 .. Len(toDaemon) /\ toDaemon'[j] = toDaemon[j]
      BY <1>2, <1>8, <1>9, <2>1, <3>2 DEF OfSession
    <3> QED BY <1>11, <3>1, <3>2
  <2> QED BY <2>1 DEF McuAhead
<1>17. OwnKey' /\ Attempts' /\ SyncVisible' /\ FreshAccepted'
  BY <1>1, <1>12 DEF OwnKey, Attempts, SyncVisible, FreshAccepted, history
<1>18. Numbered'
  <2>1. \A j \in 1 .. Len(toDaemon') : toDaemon'[j].cmd = "APP" =>
           j \in 1 .. Len(toDaemon) /\ toDaemon'[j] = toDaemon[j]
    BY <1>5, <1>11
  <2>2. ASSUME NEW j \in 1 .. Len(toDaemon'), toDaemon'[j].cmd = "APP"
        PROVE  /\ 1 <= toDaemon'[j].counter
               /\ toDaemon'[j].nonce = m'.key => toDaemon'[j].counter <= m'.counter
               /\ sessions' <= 1 /\ toDaemon'[j].nonce = d'.key
                     => d'.counter < toDaemon'[j].counter
    <3>1. toDaemon'[j].nonce < f.nonce /\ toDaemon'[j].nonce \in Nat
      BY <1>2, <1>9, <2>1, <2>2 DEF OfSession
    <3> QED BY <1>1, <1>8, <1>9, <2>1, <2>2, <3>1 DEF Numbered, history
  <2>3. ASSUME NEW i \in 1 .. Len(toDaemon'), NEW j \in 1 .. Len(toDaemon'), i < j,
               toDaemon'[i].cmd = "APP", toDaemon'[j].cmd = "APP",
               toDaemon'[i].nonce = toDaemon'[j].nonce
        PROVE  toDaemon'[i].counter < toDaemon'[j].counter
    BY <1>1, <2>1, <2>3 DEF Numbered
  <2>4. d'.key # m'.key
    BY <1>2, <1>8, <1>9
  <2> QED BY <1>1, <2>2, <2>3, <2>4 DEF Numbered, history
<1> QED BY <1>13, <1>14, <1>15, <1>16, <1>17, <1>18 DEF IInv

\* A frame of the application goes out with the next number.
LEMMA McuSendsIInv == ASSUME IInv, mcu_sends PROVE IInv'
<1> DEFINE g == FrameOf("APP", m.key, TRUE, m.counter + 1, m.baud)
<1> USE DEF NoNonce
<1>1. /\ TypeOK /\ SyncsInOrder /\ AnswersOlder /\ McuAhead /\ OwnKey /\ Attempts
      /\ SyncVisible /\ Numbered /\ FreshAccepted
  BY DEF IInv
<1>2. /\ d.own \in Nat /\ d.key \in Nat /\ m.key \in Nat /\ m.counter \in Nat
      /\ d.counter \in Nat /\ sessions \in Nat
      /\ Len(toDaemon) \in Nat /\ toDaemon \in Seq(Frame)
      /\ \A j \in 1 .. Len(toDaemon) : toDaemon[j].nonce \in Nat /\ toDaemon[j].counter \in Nat
  BY <1>1, Numbers, Ends
<1>3. /\ m.key # NoNonce /\ m.counter < setup.frames
      /\ m' = [m EXCEPT !.counter = m.counter + 1] /\ toDaemon' = Append(toDaemon, g)
      /\ UNCHANGED <<setup, run, loop, d, toMcu, history>>
  BY DEF mcu_sends
<1>4. /\ m' \in Mcu /\ m'.key = m.key /\ m'.fsm = m.fsm /\ m'.counter = m.counter + 1
      /\ g \in Frame /\ g.cmd = "APP" /\ g.nonce = m.key /\ g.counter = m.counter + 1
  <2>1. m \in Mcu /\ m.counter + 1 \in 0 .. MaxCounter
    <3>1. m \in Mcu
      BY <1>1 DEF TypeOK
    <3>2. MaxCounter \in Nat /\ setup.frames \in 0 .. MaxCounter
      BY <1>1, LinkConstants DEF TypeOK
    <3> QED BY <1>2, <1>3, <3>1, <3>2
  <2>2. m' \in Mcu /\ m'.key = m.key /\ m'.fsm = m.fsm /\ m'.counter = m.counter + 1
    BY <1>3, <2>1 DEF Mcu
  <2>3. m.key \in 0 .. MaxNonce /\ m.baud \in {"safe", "fast"}
    BY <2>1 DEF Mcu
  <2>4. g \in Frame /\ g.cmd = "APP" /\ g.nonce = m.key /\ g.counter = m.counter + 1
    BY <2>1, <2>3 DEF FrameOf, Frame
  <2> QED BY <2>2, <2>4
<1> HIDE DEF g
<1>5. /\ Len(toDaemon') \in Nat /\ toDaemon' \in Seq(Frame)
      /\ Len(toDaemon') = Len(toDaemon) + 1 /\ toDaemon'[Len(toDaemon) + 1] = g
      /\ \A j \in 1 .. Len(toDaemon') :
            (j \in 1 .. Len(toDaemon) /\ toDaemon'[j] = toDaemon[j]) \/ j = Len(toDaemon) + 1
  BY <1>2, <1>3, <1>4, AppendKeepsOrder
<1>6. TypeOK'
  BY <1>1, <1>3, <1>4, <1>5 DEF TypeOK, history
<1>7. SyncsInOrder' /\ OwnKey' /\ Attempts' /\ SyncVisible' /\ FreshAccepted'
  BY <1>1, <1>3, <1>4 DEF SyncsInOrder, OwnKey, Attempts, SyncVisible, FreshAccepted, Sent, history
<1>8. AnswersOlder'
  <2>1. ASSUME NEW j \in 1 .. Len(toDaemon'), OfSession(toDaemon'[j])
        PROVE  /\ 1 <= toDaemon'[j].nonce /\ Sent(toDaemon'[j].nonce)
               /\ \A i \in 1 .. Len(toMcu) :
                     IsSync(toMcu[i]) => toDaemon'[j].nonce < toMcu[i].nonce
    <3>1. CASE j = Len(toDaemon) + 1
      BY <1>1, <1>2, <1>3, <1>4, <1>5, <3>1 DEF SyncsInOrder
    <3>2. CASE j \in 1 .. Len(toDaemon) /\ toDaemon'[j] = toDaemon[j]
      BY <1>1, <2>1, <3>2 DEF AnswersOlder
    <3> QED BY <1>5, <3>1, <3>2
  <2> QED BY <1>3, <2>1 DEF AnswersOlder, Sent
<1>9. McuAhead'
  <2>1. ASSUME NEW j \in 1 .. Len(toDaemon'), Confirms(toDaemon'[j])
        PROVE  j \in 1 .. Len(toDaemon) /\ toDaemon'[j] = toDaemon[j]
    BY <1>4, <1>5, <2>1 DEF Confirms
  <2> QED BY <1>1, <1>3, <1>4, <2>1 DEF McuAhead
<1>10. Numbered'
  <2>1. ASSUME NEW j \in 1 .. Len(toDaemon'), toDaemon'[j].cmd = "APP"
        PROVE  /\ 1 <= toDaemon'[j].counter
               /\ toDaemon'[j].nonce = m'.key => toDaemon'[j].counter <= m'.counter
               /\ sessions' <= 1 /\ toDaemon'[j].nonce = d'.key
                     => d'.counter < toDaemon'[j].counter
    <3>1. CASE j = Len(toDaemon) + 1
      BY <1>1, <1>2, <1>3, <1>4, <1>5, <3>1 DEF Numbered, history
    <3>2. CASE j \in 1 .. Len(toDaemon) /\ toDaemon'[j] = toDaemon[j]
      BY <1>1, <1>2, <1>3, <1>4, <2>1, <3>2 DEF Numbered, history
    <3> QED BY <1>5, <3>1, <3>2
  <2>2. ASSUME NEW i \in 1 .. Len(toDaemon'), NEW j \in 1 .. Len(toDaemon'), i < j,
               toDaemon'[i].cmd = "APP", toDaemon'[j].cmd = "APP",
               toDaemon'[i].nonce = toDaemon'[j].nonce
        PROVE  toDaemon'[i].counter < toDaemon'[j].counter
    <3>1. i \in 1 .. Len(toDaemon) /\ toDaemon'[i] = toDaemon[i]
      BY <1>2, <1>5, <2>2
    <3>2. CASE j = Len(toDaemon) + 1
      BY <1>1, <1>2, <1>4, <1>5, <2>2, <3>1, <3>2 DEF Numbered
    <3>3. CASE j \in 1 .. Len(toDaemon) /\ toDaemon'[j] = toDaemon[j]
      BY <1>1, <2>2, <3>1, <3>3 DEF Numbered
    <3> QED BY <1>5, <3>2, <3>3
  <2>3. (sessions <= 1 /\ d.key = m.key => d.counter <= m.counter)'
    BY <1>1, <1>2, <1>3, <1>4 DEF Numbered, history
  <2>4. /\ sessions' = 0 => d'.counter = 0 /\ d'.state # "synchronized"
        /\ d'.key = NoNonce => d'.counter = 0
    BY <1>1, <1>3 DEF Numbered, history
  <2> QED BY <2>1, <2>2, <2>3, <2>4 DEF Numbered
<1> QED BY <1>6, <1>7, <1>8, <1>9, <1>10 DEF IInv
\* The MCU takes a frame: noise, a reset, a change of rate, or a SYNC.
LEMMA McuReceivesIInv == ASSUME IInv, mcu_receives PROVE IInv'
<1> DEFINE f == Head(toMcu)
           joined == IF m.fsm = "unsynchronized" THEN "synchronized" ELSE m.fsm
           Answered(cmd, tag) ==
              \/ toDaemon' = Append(toDaemon, FrameOf(cmd, f.nonce, tag, 0, m.baud))
              \/ toDaemon' = toDaemon
<1>1. toMcu # <<>> /\ toMcu' = Tail(toMcu) /\ UNCHANGED <<setup, run, loop, d, history>>
  BY DEF mcu_receives
<1>2. f = toMcu[1] /\ 1 \in 1 .. Len(toMcu) /\ f \in Frame /\ toMcu' \in Seq(Frame) /\ NoNewSyncs
  BY <1>1, Ends, TakenByMcu
<1>3. m \in Mcu /\ f.nonce \in 0 .. MaxNonce /\ 0 \in 0 .. MaxCounter
  BY <1>2, Ends, LinkConstants DEF Frame
<1>4. \/ UNCHANGED <<m, toDaemon>>
      \/ m' = [m EXCEPT !.fsm = "unsynchronized"] /\ UNCHANGED toDaemon
      \/ m' = [m EXCEPT !.fsm = "out"] /\ UNCHANGED toDaemon
      \/ m' = [m EXCEPT !.fsm = "unsynchronized", !.tx = FALSE] /\ UNCHANGED toDaemon
      \/ m' = [m EXCEPT !.baud = "fast"] /\ Answered("BAUD_RESP", TRUE)
      \/ m' = [m EXCEPT !.baud = "safe"] /\ Answered("BAUD_RESP", TRUE)
      \/ /\ f.cmd = "SYNC" /\ setup.secret = "same"
         /\ m' = [m EXCEPT !.fsm = joined, !.key = f.nonce, !.counter = 0]
         /\ Answered("SYNC_RESP", TRUE)
      \/ /\ f.cmd = "SYNC" /\ setup.secret = "none"
         /\ m' = [m EXCEPT !.fsm = joined] /\ Answered("SYNC_RESP", FALSE)
  BY DEF mcu_receives
<1>5. joined \in {"unsynchronized", "synchronized", "out"} /\ m.baud \in {"safe", "fast"}
  BY <1>3 DEF Mcu
<1>6. ASSUME NEW cmd \in {"SYNC_RESP", "BAUD_RESP"}, NEW tag \in BOOLEAN,
             ~(cmd = "SYNC_RESP" /\ tag), Answered(cmd, tag)
      PROVE  NoNewAnswers /\ toDaemon' \in Seq(Frame)
  <2> DEFINE g == FrameOf(cmd, f.nonce, tag, 0, m.baud)
  <2>1. g \in Frame /\ g.cmd = cmd /\ g.tag = tag
    BY <1>3, <1>5 DEF FrameOf, Frame
  <2>2. toDaemon' = Append(toDaemon, g) \/ toDaemon' = toDaemon
    BY <1>6
  <2> HIDE DEF g
  <2>3. ~OfSession(g)
    BY <1>6, <2>1 DEF OfSession, Confirms
  <2> QED BY <2>1, <2>2, <2>3, Ends, SentByMcu, SameAnswers
<1> HIDE DEF f, joined
<1>7. ASSUME m' \in Mcu, McuQuiet, NoNewAnswers, toDaemon' \in Seq(Frame)
      PROVE  IInv'
  BY <1>1, <1>2, <1>7, McuQuietStep
<1>8. CASE /\ UNCHANGED toDaemon
           /\ \/ UNCHANGED m
              \/ m' = [m EXCEPT !.fsm = "unsynchronized"]
              \/ m' = [m EXCEPT !.fsm = "out"]
              \/ m' = [m EXCEPT !.fsm = "unsynchronized", !.tx = FALSE]
  <2>1. m' \in Mcu /\ McuQuiet
    BY <1>3, <1>8 DEF Mcu, McuQuiet
  <2>2. NoNewAnswers /\ toDaemon' \in Seq(Frame)
    BY <1>8, Ends, SameAnswers
  <2> QED BY <1>7, <2>1, <2>2
<1>9. CASE /\ m' = [m EXCEPT !.baud = "fast"] \/ m' = [m EXCEPT !.baud = "safe"]
           /\ Answered("BAUD_RESP", TRUE)
  <2>1. m' \in Mcu /\ McuQuiet
    BY <1>3, <1>9 DEF Mcu, McuQuiet
  <2>2. NoNewAnswers /\ toDaemon' \in Seq(Frame)
    BY <1>6, <1>9
  <2> QED BY <1>7, <2>1, <2>2
<1>10. CASE /\ f.cmd = "SYNC" /\ setup.secret = "same"
            /\ m' = [m EXCEPT !.fsm = joined, !.key = f.nonce, !.counter = 0]
            /\ Answered("SYNC_RESP", TRUE)
  BY <1>1, <1>5, <1>10, JoinIInv DEF f
<1>11. CASE /\ f.cmd = "SYNC" /\ setup.secret = "none"
            /\ m' = [m EXCEPT !.fsm = joined] /\ Answered("SYNC_RESP", FALSE)
  <2>1. d.state # "synchronized"
    <3>1. TypeOK /\ SyncsInOrder /\ OwnKey
      BY DEF IInv
    <3>2. d.own \in Nat /\ d.key \in Nat /\ f.nonce \in Nat
      BY <1>3, <3>1, Numbers
    <3>3. d.key < f.nonce /\ f.nonce <= d.own
      BY <1>2, <1>11, <3>1 DEF SyncsInOrder, IsSync, Sent
    <3> QED BY <3>1, <3>2, <3>3 DEF OwnKey
  <2>2. m' \in Mcu /\ McuQuiet
    BY <1>3, <1>5, <1>11, <2>1 DEF Mcu, McuQuiet
  <2>3. NoNewAnswers /\ toDaemon' \in Seq(Frame)
    BY <1>6, <1>11
  <2> QED BY <1>7, <2>2, <2>3
<1> QED BY <1>4, <1>8, <1>9, <1>10, <1>11

----------------------------------------------------------------------------
(* The theorems *)

\* The daemon starts without a session, before a freshly started MCU and on a silent line.
LEMMA InitIInv == Init => IInv
<1> SUFFICES ASSUME Init PROVE IInv
  OBVIOUS
<1> USE DEF NoNonce
<1>1. TypeOK
  <2>1. 0 \in 0 .. MaxNonce /\ 0 \in 0 .. MaxCounter /\ 0 \in 0 .. Threshold
        /\ 0 \in 0 .. CrcThreshold
    BY LinkConstants
  <2>2. d \in Daemon /\ m \in Mcu
    BY <2>1 DEF Init, Daemon, Mcu, Booted, HandshakeState
  <2>3. toMcu \in Seq(Frame) /\ toDaemon \in Seq(Frame) /\ sessions \in 0 .. 2
    BY DEF Init
  <2>4. refused \in BOOLEAN
    BY DEF Init
  <2>5. /\ run \in {"closed", "escaped", "negotiate", "begin", "reset", "sent", "confirm",
                "retry", "up"}
        /\ loop \in {"read", "negotiate", "failing", "clearing", "ended", "raised"} /\ setup \in Setups
    BY DEF Init
  <2> QED BY <2>2, <2>3, <2>4, <2>5 DEF TypeOK
<1>2. /\ d.own = 0 /\ d.key = 0 /\ d.counter = 0 /\ d.expected = 0 /\ d.state = "disconnected"
      /\ m.key = 0 /\ m.counter = 0 /\ m.fsm = "unsynchronized"
      /\ Len(toMcu) = 0 /\ Len(toDaemon) = 0 /\ run = "closed" /\ loop = "ended"
      /\ sessions = 0 /\ refused = FALSE
  BY DEF Init, Booted
<1>3. SyncsInOrder /\ AnswersOlder /\ McuAhead
  BY <1>2 DEF SyncsInOrder, AnswersOlder, McuAhead, Sent
<1>4. OwnKey /\ Attempts /\ SyncVisible /\ Numbered /\ FreshAccepted
  BY <1>2 DEF OwnKey, Attempts, SyncVisible, Numbered, FreshAccepted
<1> QED BY <1>1, <1>3, <1>4 DEF IInv

\* Every step of the daemon, the MCU and the line keeps the invariant.
LEMMA NextIInv == IInv /\ [Next]_vars => IInv'
<1> SUFFICES ASSUME IInv, [Next]_vars PROVE IInv'
  OBVIOUS
<1>1. CASE Run
  BY <1>1, ConnectIInv, NegotiateIInv, AttemptIInv, SyncIInv, SendFailsIInv, ConfirmingIInv,
     ConfirmIInv, RetryIInv, DisconnectIInv DEF Run
<1>2. CASE Loop
  BY <1>2, MalformedIInv, FallbackTimeoutIInv, BaudRespIInv, SyncRespIInv, SyncFailureIInv,
     ApplicationFrameIInv DEF Loop
<1>3. CASE connected_raises \/ read_fails \/ mcu_receives \/ mcu_sends \/ mcu_fails \/ line_fails
  BY <1>3, ConnectedRaisesIInv, ReadFailsIInv, McuReceivesIInv, McuSendsIInv, McuFailsIInv, LineFailsIInv
<1>4. CASE UNCHANGED vars
  BY <1>4 DEF vars, IInv, TypeOK, SyncsInOrder, AnswersOlder, McuAhead, OwnKey, Attempts,
              SyncVisible, Numbered, FreshAccepted, Sent, IsSync, Confirms, OfSession
<1> QED BY <1>1, <1>2, <1>3, <1>4 DEF Next

\* The inductive invariant holds in every state.
THEOREM LinkInvariant == Spec => []IInv
  BY InitIInv, NextIInv, PTL DEF Spec

\* The variables of the link keep their types: no attempt exceeds the threshold of
\* synchronize, no nonce and no counter its range.
THEOREM LinkTypeOK == Spec => []TypeOK
<1>1. IInv => TypeOK
  BY DEF IInv
<1> QED BY <1>1, LinkInvariant, PTL

\* Whatever attempts were abandoned, answered late or lost, two synchronized ends of the
\* link use the same session key.
THEOREM EndsAgreeOnKey == Spec => []KeyAgreement
<1>1. IInv => KeyAgreement
  BY DEF IInv, OwnKey, KeyAgreement
<1> QED BY <1>1, LinkInvariant, PTL

\* link_state, the state machine of the handshake, link_sync_event and the port agree
\* whenever the link counts as synchronized, whichever of Run and Loop acted last and
\* however a connection ended, but for one left by an exception of a handler.
THEOREM SyncIsVisible == Spec => []SyncVisible
<1>1. IInv => SyncVisible
  BY DEF IInv
<1> QED BY <1>1, LinkInvariant, PTL

\* validate_nonce_counter refuses no fresh frame of the first session.
THEOREM FirstSessionAccepted == Spec => []FreshAccepted
<1>1. IInv => FreshAccepted
  BY DEF IInv
<1> QED BY <1>1, LinkInvariant, PTL
============================================================================
